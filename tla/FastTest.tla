------------------------------ MODULE FastTest ------------------------------
(***************************************************************************)
(* test::fast::test_with_dataset, which compares the features extracted    *)
(* from each image of a dataset with its line in a file of references, and *)
(* test_with_dataset_without_references, which prints them.  Both ask for  *)
(* the next image, never for one by its index.                             *)
(*                                                                         *)
(* The lines are numbered.  data_ptr is the line it is at the start of,    *)
(* one more than the last at the end of the file, and line_ptr the line it *)
(* is at the line feed of, or NULL.                                        *)
(***************************************************************************)
EXTENDS Integers

CONSTANTS
  Lines,              \* of the file of references, one for each image
  Slot, NULL, Free, FileContent, Damaged

LinesAssumption == Lines \in Nat \ {0} /\ NULL \notin Nat

(* Without references there is one call more than there are images.        *)
LastImage == Lines + 1
Image == 1 .. LastImage

VARIABLES
  \* of the loader
  pc, file_path, current_file_index, heap, file_content_buffer, returned,
  image_heap,
  \* of the test
  references,         \* which of the two it is
  at,                 \* where it is
  features,           \* features_file_content_buffer
  data_ptr, line_ptr,
  image_data_buffer   \* the image in it, 0 before the first

loaderVars == <<pc, file_path, current_file_index, heap, file_content_buffer,
                returned, image_heap>>
vars == <<loaderVars, references, at, features, data_ptr, line_ptr, image_data_buffer>>

Loader == INSTANCE DatasetLoader WITH image_data <- image_heap

strchr(ptr) == IF ptr <= Lines THEN ptr ELSE NULL

Init ==
  /\ Loader!Init
  /\ references \in BOOLEAN
  /\ at = IF references THEN "Begin" ELSE "Head"
  /\ features = NULL
  /\ data_ptr = 1 /\ line_ptr = strchr(1)
  /\ image_data_buffer = 0

(* cd, size or read fails. *)
BeginFails ==
  /\ at = "Begin" /\ at' = "Done"
  /\ UNCHANGED <<loaderVars, references, features, data_ptr, line_ptr, image_data_buffer>>

Begin ==
  /\ at = "Begin" /\ at' = "Head"
  /\ \E s \in Slot :
       /\ heap[s] = Free
       /\ heap' = [heap EXCEPT ![s] = FileContent]
       /\ features' = s
  /\ UNCHANGED <<pc, file_path, current_file_index, file_content_buffer, returned,
                 image_heap, references, data_ptr, line_ptr, image_data_buffer>>

(* There are LastImage images at most (a bound on the test that has no     *)
(* references to end it).                                                  *)
Call ==
  /\ at = "Head" /\ (references => line_ptr # NULL)
  /\ current_file_index <= LastImage
  /\ at' = "Retrieve"
  /\ Loader!retrieve_image(-1)
  /\ UNCHANGED <<image_heap, references, features, data_ptr, line_ptr, image_data_buffer>>

InRetrieve ==
  /\ at = "Retrieve"
  /\ Loader!Step
  /\ UNCHANGED <<references, at, features, data_ptr, line_ptr, image_data_buffer>>

RetriedWithSameLine ==
  /\ at = "Retrieve" /\ pc = "Idle" /\ ~returned
  /\ at' = IF references THEN "Head" ELSE "Done"
  /\ UNCHANGED <<loaderVars, references, features, data_ptr, line_ptr, image_data_buffer>>

(* The line of an image that could not be retrieved is passed over; the    *)
(* test without references is over.                                        *)
NotRetrieved ==
  /\ at = "Retrieve" /\ pc = "Idle" /\ ~returned
  /\ IF references
       THEN /\ at' = "Head"
            /\ data_ptr' = line_ptr + 1 /\ line_ptr' = strchr(line_ptr + 1)
       ELSE at' = "Done" /\ UNCHANGED <<data_ptr, line_ptr>>
  /\ UNCHANGED <<loaderVars, references, features, image_data_buffer>>

Copied ==
  /\ at = "Retrieve" /\ pc = "Idle" /\ returned
  /\ image_data_buffer' = heap[image_heap]
  /\ heap' = [heap EXCEPT ![image_heap] = Free]
  /\ at' = "Compare"
  /\ UNCHANGED <<pc, file_path, current_file_index, file_content_buffer, returned,
                 image_heap, references, features, data_ptr, line_ptr>>

(* extract_features, and the comparison or the print. *)
Compare ==
  /\ at = "Compare" /\ at' = "Head"
  /\ IF references
       THEN data_ptr' = line_ptr + 1 /\ line_ptr' = strchr(line_ptr + 1)
       ELSE UNCHANGED <<data_ptr, line_ptr>>
  /\ UNCHANGED <<loaderVars, references, features, image_data_buffer>>

Finish ==
  /\ at = "Head" /\ references /\ line_ptr = NULL
  /\ heap' = [heap EXCEPT ![features] = Free]
  /\ at' = "Done"
  /\ UNCHANGED <<pc, file_path, current_file_index, file_content_buffer, returned,
                 image_heap, references, features, data_ptr, line_ptr, image_data_buffer>>

Next ==
  \/ BeginFails \/ Begin \/ Call \/ InRetrieve \/ NotRetrieved \/ Copied
  \/ Compare \/ Finish

(* A single thread that is never blocked. *)
Spec == Init /\ [][Next]_vars /\ WF_vars(Next)

-----------------------------------------------------------------------------
TypeOK ==
  /\ Loader!TypeOK
  /\ references \in BOOLEAN
  /\ at \in {"Begin", "Head", "Retrieve", "Compare", "Done"}
  /\ features \in Slot \cup {NULL}
  /\ data_ptr \in 1 .. (Lines + 1)
  /\ line_ptr \in 1 .. Lines \cup {NULL}
  /\ image_data_buffer \in 0 .. LastImage

(* The features of an image are compared with the line of that image, the  *)
(* loader's count of images and the test's position in the file moving on  *)
(* by one each, whether the image could be retrieved or not.               *)
LineMatchesImage ==
  at = "Compare" /\ references => data_ptr = image_data_buffer /\ line_ptr = data_ptr

(* There is a picture from when it was retrieved until it is copied. *)
HasPicture == at = "Retrieve" /\ pc = "Idle" /\ returned

Allocated == {s \in Slot : heap[s] \notin {Free, Damaged}}
InUse ==
  {s \in Slot :
     \/ at # "Done" /\ s = features
     \/ pc \in {"Read", "Decode"} /\ s = file_content_buffer
     \/ HasPicture /\ s = image_heap}

(* What is allocated is what the test still uses: the references, the file *)
(* that is read, and one picture at a time.  When it returns that is       *)
(* nothing.                                                                *)
AllocatedIsInUse ==
  /\ Allocated = InUse
  /\ HasPicture => heap[image_heap] = file_path
  /\ at = "Done" => Allocated = {}

(* With references, the test ends after a call for each line; without, at  *)
(* the first image that cannot be retrieved, or the last one.              *)
EndsWithReferences == references ~> at = "Done"
=============================================================================
