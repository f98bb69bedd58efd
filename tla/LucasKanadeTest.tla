--------------------------- MODULE LucasKanadeTest ---------------------------
(***************************************************************************)
(* test::lucas_kanade::test_with_dataset: features are tracked from each   *)
(* image of a dataset to the next one and compared with a file of          *)
(* references, which has two rows for every pair of images, where the      *)
(* features start and where they end.  An image that cannot be retrieved   *)
(* makes the test skip the pairs it is in.                                 *)
(*                                                                         *)
(* The rows are numbered.  data_ptr is the row it is at the start of, one  *)
(* more than the last at the end of the file; line_ptr the row it is at    *)
(* the line feed of, or the start of the row after it, or NULL.            *)
(***************************************************************************)
EXTENDS Integers

CONSTANTS
  Pairs,              \* pairs of images with references; one image more
  Slot, NULL, Free, FileContent, Damaged

PairsAssumption == Pairs \in Nat \ {0} /\ NULL \notin Nat

LastImage == Pairs + 1
Image == 1 .. LastImage
LastRow == 2 * Pairs

VARIABLES
  \* of the loader
  pc, file_path, current_file_index, heap, file_content_buffer, returned,
  \* of the test
  at,                 \* where it is
  features,           \* features_file_content_buffer
  data_ptr, line_ptr,
  index,
  start_row, end_row, \* the rows in reference_start_points and _end_points
  previous_image, current_image

loaderVars == <<pc, file_path, current_file_index, heap, file_content_buffer, returned>>
rows == <<data_ptr, line_ptr, start_row, end_row>>
vars == <<loaderVars, at, features, rows, index, previous_image, current_image>>

(* retrieve_image is given one Image or the other. *)
Previous == INSTANCE DatasetLoader WITH image_data <- previous_image
Current == INSTANCE DatasetLoader WITH image_data <- current_image

strchr(ptr) == IF ptr <= LastRow THEN ptr ELSE NULL

Init ==
  /\ Previous!Init
  /\ at = "Begin"
  /\ features = NULL
  /\ data_ptr = 1 /\ line_ptr = strchr(1)
  /\ index = 1
  /\ start_row = 0 /\ end_row = 0
  /\ current_image = NULL

-----------------------------------------------------------------------------
(* The file of references, and the first image.                            *)

(* cd, size or read fails. *)
BeginFails ==
  /\ at = "Begin" /\ at' = "Done"
  /\ UNCHANGED <<loaderVars, features, rows, index, previous_image, current_image>>

Begin ==
  /\ at = "Begin" /\ at' = "CallFirst"
  /\ \E s \in Slot :
       /\ heap[s] = Free
       /\ heap' = [heap EXCEPT ![s] = FileContent]
       /\ features' = s
  /\ UNCHANGED <<pc, file_path, current_file_index, file_content_buffer, returned,
                 rows, index, previous_image, current_image>>

CallFirst ==
  /\ at = "CallFirst" /\ at' = "First"
  /\ Previous!retrieve_image(index)
  /\ UNCHANGED <<features, rows, index, current_image>>

CallSkip ==
  /\ at = "CallSkip" /\ at' = "Skip"
  /\ Previous!retrieve_image(index)
  /\ UNCHANGED <<features, rows, index, current_image>>

CallCurrent ==
  /\ at = "CallCurrent" /\ at' = "Second"
  /\ Current!retrieve_image(index + 1)
  /\ UNCHANGED <<features, rows, index, previous_image>>

InRetrieve ==
  /\ \/ at \in {"First", "Skip"} /\ Previous!Step /\ UNCHANGED current_image
     \/ at = "Second" /\ Current!Step /\ UNCHANGED previous_image
  /\ UNCHANGED <<at, features, rows, index>>

Retrieved == pc = "Idle" /\ returned
NotRetrieved == pc = "Idle" /\ ~returned

(* The file of references is not freed on this way out. *)
FirstFails ==
  /\ at = "First" /\ NotRetrieved
  /\ at' = "Done"
  /\ UNCHANGED <<loaderVars, features, rows, index, previous_image, current_image>>

FirstRetrieved ==
  /\ at \in {"First", "Skip"} /\ Retrieved
  /\ at' = "Head"
  /\ UNCHANGED <<loaderVars, features, rows, index, previous_image, current_image>>

-----------------------------------------------------------------------------
(* The rows of a pair, the patches of the previous image, and the next     *)
(* image to track them into.                                               *)
ReadPair ==
  /\ at = "Head" /\ line_ptr # NULL
  /\ start_row' = data_ptr
  /\ data_ptr' = line_ptr + 1 /\ end_row' = line_ptr + 1
  /\ IF strchr(line_ptr + 1) = NULL
       THEN at' = "Fault" /\ UNCHANGED line_ptr
       ELSE at' = "CallCurrent" /\ line_ptr' = strchr(line_ptr + 1) + 1
  /\ UNCHANGED <<loaderVars, features, index, previous_image, current_image>>

FreeCurrent == heap' = [heap EXCEPT ![current_image] = Free]
FreePrevious == heap' = [heap EXCEPT ![previous_image] = Free]

SkipOneRow ==
  /\ at = "Second" /\ NotRetrieved
  /\ index' = index + 2
  /\ IF strchr(line_ptr) = NULL
       THEN at' = "Fault" /\ UNCHANGED <<heap, data_ptr, line_ptr>>
       ELSE /\ at' = "CallSkip"
            /\ data_ptr' = line_ptr + 1 /\ line_ptr' = strchr(line_ptr + 1)
            /\ FreePrevious
  /\ UNCHANGED <<pc, file_path, current_file_index, file_content_buffer, returned,
                 features, start_row, end_row, previous_image, current_image>>

(* Neither this pair nor the next one, the rows of which are passed over:  *)
(* at the end of the file strchr finds no line feed to write a 0 to, and   *)
(* the 0 goes through the NULL.  Here the model stops; the program may not *)
(* (memory.cpp maps address 0 as memory), and then looks for an image      *)
(* after the last one in a loop without an end.                            *)
SkipPairs ==
  /\ at = "Second" /\ NotRetrieved
  /\ index' = index + 2
  /\ IF strchr(line_ptr) = NULL
       THEN at' = "Fault" /\ UNCHANGED <<heap, data_ptr, line_ptr>>
       ELSE /\ at' = "CallSkip"
            /\ data_ptr' = line_ptr + 2 /\ line_ptr' = strchr(line_ptr + 2)
            /\ FreePrevious
  /\ UNCHANGED <<pc, file_path, current_file_index, file_content_buffer, returned,
                 features, start_row, end_row, previous_image, current_image>>

SameIndexAgain ==
  /\ at = "Skip" /\ NotRetrieved
  /\ IF line_ptr = NULL
       THEN at' = "Fault" /\ UNCHANGED <<data_ptr, line_ptr, index>>
       ELSE at' = "CallSkip" /\ UNCHANGED <<data_ptr, line_ptr, index>>
  /\ UNCHANGED <<loaderVars, features, start_row, end_row, previous_image, current_image>>

(* The first image of a pair cannot be retrieved: on to the next pair.     *)
SkipPair ==
  /\ at = "Skip" /\ NotRetrieved
  /\ IF line_ptr = NULL \/ strchr(line_ptr + 1) = NULL
       THEN at' = "Fault" /\ UNCHANGED <<data_ptr, line_ptr, index>>
       ELSE /\ at' = "CallSkip"
            /\ data_ptr' = strchr(line_ptr + 1) + 1
            /\ line_ptr' = strchr(data_ptr')
            /\ index' = index + 1
  /\ UNCHANGED <<loaderVars, features, start_row, end_row, previous_image, current_image>>

SecondRetrieved ==
  /\ at = "Second" /\ Retrieved
  /\ index' = index + 1
  /\ at' = "Compare"
  /\ UNCHANGED <<loaderVars, features, rows, previous_image, current_image>>

(* The end points are compared with those of the references, and the       *)
(* current image becomes the previous one.                                 *)
Compare ==
  /\ at = "Compare" /\ at' = "Head"
  /\ data_ptr' = line_ptr /\ line_ptr' = strchr(line_ptr)
  /\ FreePrevious
  /\ previous_image' = current_image
  /\ UNCHANGED <<pc, file_path, current_file_index, file_content_buffer, returned,
                 features, start_row, end_row, index, current_image>>

(* The references are freed, the last picture is not. *)
Finish ==
  /\ at = "Head" /\ line_ptr = NULL
  /\ heap' = [heap EXCEPT ![features] = Free]
  /\ at' = "Done"
  /\ UNCHANGED <<pc, file_path, current_file_index, file_content_buffer, returned,
                 features, rows, index, previous_image, current_image>>

Next ==
  \/ BeginFails \/ Begin \/ CallFirst \/ CallSkip \/ CallCurrent \/ InRetrieve
  \/ FirstFails \/ FirstRetrieved \/ ReadPair \/ SkipPairs \/ SkipPair
  \/ SecondRetrieved \/ Compare \/ Finish

(* A single thread that is never blocked. *)
Spec == Init /\ [][Next]_vars /\ WF_vars(Next)

-----------------------------------------------------------------------------
TypeOK ==
  /\ Previous!TypeOK /\ Current!TypeOK
  /\ at \in {"Begin", "CallFirst", "First", "Head", "CallCurrent", "Second",
             "CallSkip", "Skip", "Compare", "Done", "Fault"}
  /\ features \in Slot \cup {NULL}
  /\ data_ptr \in 1 .. (LastRow + 1)
  /\ line_ptr \in 1 .. (LastRow + 1) \cup {NULL}
  /\ index \in 1 .. (LastImage + 1)
  /\ {start_row, end_row} \subseteq 0 .. LastRow

(* The features that are compared were tracked between the two images the  *)
(* references are for, whichever images could not be retrieved before.     *)
RowsMatchImages ==
  at = "Compare" =>
    LET i == index - 1 IN
    /\ heap[previous_image] = i /\ heap[current_image] = i + 1
    /\ start_row = 2 * i - 1 /\ end_row = 2 * i

(* When the test has a picture to its name.  Where the rows run out after  *)
(* a missing second image, the previous one is yet to be freed.            *)
HasPrevious ==
  \/ at \in {"Head", "CallCurrent", "Second", "Compare"}
  \/ at \in {"First", "Skip"} /\ Retrieved
  \/ at = "Fault" /\ index = LastImage + 1
HasCurrent ==
  \/ at = "Compare"
  \/ at = "Second" /\ Retrieved

Allocated == {s \in Slot : heap[s] \notin {Free, Damaged}}
InUse ==
  {s \in Slot :
     \/ at # "Done" /\ s = features
     \/ pc \in {"Read", "Decode"} /\ s = file_content_buffer
     \/ HasPrevious /\ s = previous_image
     \/ HasCurrent /\ s = current_image}

(* While the test runs, what is allocated is what it still uses: the       *)
(* references, the file that is read, the previous and the current         *)
(* picture.  Nothing of it has been freed, or stays behind unused.         *)
AllocatedIsInUse ==
  at # "Done" =>
    /\ Allocated = InUse
    /\ at # "Begin" => heap[features] = FileContent
    /\ at \in {"Head", "CallCurrent", "Second"} => heap[previous_image] = index

(* When it returns it leaks, and exactly this: the references when the     *)
(* first image could not be retrieved (test_lucas_kanade.cpp:117), the     *)
(* last picture when it ran to its end (429-431), and nothing when it      *)
(* could not read the references.                                          *)
LeftBehind ==
  at = "Done" =>
    \/ features = NULL /\ Allocated = {}
    \/ file_path = 1 /\ NotRetrieved /\ Allocated = {features}
    \/ Allocated = {previous_image} /\ heap[previous_image] = LastImage

(* The test only runs off the references when the last image, and so the   *)
(* end of the last pair, could not be retrieved.                           *)
FaultNeedsLastImage == at = "Fault" => file_path = LastImage

(* The test ends, whichever images are missing but the last: without that *)
(* one it goes on past the references.                                     *)
LastImageMissing == at \in {"Second", "Skip"} /\ NotRetrieved /\ file_path = LastImage
Ends == <>LastImageMissing \/ <>(at = "Done")

(* "Two rows per index, so have to skip 3 to point at the fourth"          *)
(* (test_lucas_kanade.cpp:227): there are rows to skip.                    *)
SkippedRowsExist == at # "Fault"
=============================================================================
