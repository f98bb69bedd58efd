---------------------------- MODULE DatasetLoader ----------------------------
(***************************************************************************)
(* dataset_loader::retrieve_image, one call of the file system, the heap   *)
(* or the PNG decoder per step, each of which may fail, and a caller that  *)
(* takes the images and frees them.                                        *)
(*                                                                         *)
(* The heap has few slots: a picture or a file takes one, of which malloc  *)
(* picks any that is free.  What a slot holds tells whose it is.           *)
(***************************************************************************)
EXTENDS Integers

CONSTANTS
  LastImage,          \* the largest index asked for
  Slot,               \* of the heap
  NULL,
  Free, FileContent,  \* what a slot holds besides pictures ...
  Damaged             \* ... such as the pixels of one that did not decode

SizeAssumption == LastImage \in Nat \ {0} /\ NULL \notin Slot
HeapAssumption ==
  /\ {Free, FileContent, Damaged} \cap Nat = {}
  /\ Free # FileContent /\ Free # Damaged /\ FileContent # Damaged

Image == 1 .. LastImage
Holding == {Free, FileContent, Damaged} \cup Image

VARIABLES
  pc,                 \* "Idle", or the call that is next
  file_path,          \* the image it names: "<index>.png"
  current_file_index,
  heap,               \* [Slot -> Holding]
  file_content_buffer,
  image_data,         \* the data pointer of the caller's Image
  returned

vars == <<pc, file_path, current_file_index, heap, file_content_buffer, image_data, returned>>

Init ==
  /\ pc = "Idle" /\ file_path = 1 /\ current_file_index = 1
  /\ heap = [s \in Slot |-> Free]
  /\ file_content_buffer = NULL /\ image_data = NULL
  /\ returned = FALSE

Return(result) == pc' = "Idle" /\ returned' = result

-----------------------------------------------------------------------------
Named(i) == IF i = -1 THEN current_file_index ELSE i

NextOnlyWithoutIndex(i) ==
  /\ pc = "Idle" /\ pc' = "Size"
  /\ file_path' = Named(i)
  /\ current_file_index' = IF i = -1 THEN current_file_index + 1 ELSE current_file_index
  /\ UNCHANGED <<heap, file_content_buffer, image_data, returned>>

retrieve_image(i) ==
  /\ pc = "Idle" /\ pc' = "Size"
  /\ file_path' = Named(i)
  /\ current_file_index' = Named(i) + 1
  /\ UNCHANGED <<heap, file_content_buffer, image_data, returned>>

SizeFails ==
  /\ pc = "Size"
  /\ Return(FALSE)
  /\ UNCHANGED <<file_path, current_file_index, heap, file_content_buffer, image_data>>

Size ==
  /\ pc = "Size" /\ pc' = "Allocate"
  /\ UNCHANGED <<file_path, current_file_index, heap, file_content_buffer, image_data, returned>>

(* A file may be larger than what is left in one piece. *)
AllocateFails ==
  /\ pc = "Allocate"
  /\ Return(FALSE)
  /\ UNCHANGED <<file_path, current_file_index, heap, file_content_buffer, image_data>>

Allocate ==
  /\ pc = "Allocate"
  /\ \E s \in Slot :
       /\ heap[s] = Free
       /\ heap' = [heap EXCEPT ![s] = FileContent]
       /\ file_content_buffer' = s
  /\ pc' = "Read"
  /\ UNCHANGED <<file_path, current_file_index, image_data, returned>>

ReadFails ==
  /\ pc = "Read"
  /\ heap' = [heap EXCEPT ![file_content_buffer] = Free]
  /\ Return(FALSE)
  /\ UNCHANGED <<file_path, current_file_index, file_content_buffer, image_data>>

Read ==
  /\ pc = "Read" /\ pc' = "Decode"
  /\ UNCHANGED <<file_path, current_file_index, heap, file_content_buffer, image_data, returned>>

(* lodepng_decode_memory starts by setting image.data to NULL.  Its pixels *)
(* are allocated before the scan lines are unfiltered: an error there      *)
(* leaves them allocated.  The file is freed in any case.                  *)
DecodeFails ==
  /\ pc = "Decode"
  /\ \/ /\ image_data' = NULL
        /\ heap' = [heap EXCEPT ![file_content_buffer] = Free]
     \/ \E s \in Slot :
          /\ heap[s] = Free
          /\ image_data' = s
          /\ heap' = [heap EXCEPT ![s] = Damaged, ![file_content_buffer] = Free]
  /\ Return(FALSE)
  /\ UNCHANGED <<file_path, current_file_index, file_content_buffer>>

Decode ==
  /\ pc = "Decode"
  /\ \E s \in Slot :
       /\ heap[s] = Free
       /\ image_data' = s
       /\ heap' = [heap EXCEPT ![s] = file_path, ![file_content_buffer] = Free]
  /\ Return(TRUE)
  /\ UNCHANGED <<file_path, current_file_index, file_content_buffer>>

Step ==
  \/ SizeFails \/ Size \/ AllocateFails \/ Allocate
  \/ ReadFails \/ Read \/ DecodeFails \/ Decode

-----------------------------------------------------------------------------
(* A caller: it asks for any image or for the next one, when it has freed  *)
(* the last.  Pixels that were left by a failure it does not know about.   *)
(* LastImage bounds what it asks for.                                      *)
Call ==
  /\ ~returned
  /\ \E i \in Image \cup {-1} : Named(i) \in Image /\ retrieve_image(i)

FreeImage ==
  /\ pc = "Idle" /\ returned
  /\ heap' = [heap EXCEPT ![image_data] = Free]
  /\ returned' = FALSE
  /\ UNCHANGED <<pc, file_path, current_file_index, file_content_buffer, image_data>>

Next == Call \/ Step \/ FreeImage

Spec == Init /\ [][Next]_vars /\ WF_vars(Step)

-----------------------------------------------------------------------------
TypeOK ==
  /\ pc \in {"Idle", "Size", "Allocate", "Read", "Decode"}
  /\ file_path \in Image
  /\ current_file_index \in 1 .. (LastImage + 1)
  /\ heap \in [Slot -> Holding]
  /\ file_content_buffer \in Slot \cup {NULL}
  /\ pc \in {"Read", "Decode"} => file_content_buffer \in Slot
  /\ image_data \in Slot \cup {NULL}
  /\ returned \in BOOLEAN

(* The buffer for the file is freed on every way out, and is never the     *)
(* memory the picture is in.                                               *)
FileIsFreed ==
  \A s \in Slot : heap[s] = FileContent =>
    pc \in {"Read", "Decode"} /\ s = file_content_buffer

(* At most one picture is on the heap that belongs to the caller, however  *)
(* many calls failed before: only decoding can leave something behind.     *)
OnlyDamagedIsLost ==
  \A s \in Slot : heap[s] \in Image =>
    pc = "Idle" /\ returned /\ s = image_data /\ heap[s] = file_path

Abstract == INSTANCE ImageSource WITH
  Index <- Image, Failure <- 0,
  next <- current_file_index,
  asked <- IF pc = "Idle" THEN 0 ELSE file_path,
  reply <- IF pc = "Idle" /\ returned THEN heap[image_data] ELSE 0

(* retrieve_image delivers the image it was asked for or fails, and        *)
(* answers every call.                                                     *)
ImplementsSource == Abstract!Spec
=============================================================================
