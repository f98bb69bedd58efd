------------------------- MODULE DatasetLoaderProofs -------------------------
(***************************************************************************)
(* Theorems about DatasetLoader.tla, for every number of images and every  *)
(* heap.                                                                   *)
(***************************************************************************)
EXTENDS DatasetLoader, TLAPS

(* While the file is read and decoded its buffer is on the heap, and from  *)
(* a success until the caller frees it, the picture is.                    *)
Held ==
  /\ pc \in {"Read", "Decode"} => heap[file_content_buffer] = FileContent
  /\ returned => pc = "Idle" /\ image_data \in Slot /\ heap[image_data] = file_path

IInv == TypeOK /\ FileIsFreed /\ OnlyDamagedIsLost /\ Held

(* What is on the heap besides pictures is no picture. *)
LEMMA Apart ==
  ASSUME HeapAssumption
  PROVE  /\ Free \notin Image /\ FileContent \notin Image /\ Damaged \notin Image
         /\ Free # FileContent /\ Free # Damaged /\ FileContent # Damaged
  BY DEF HeapAssumption, Image

LEMMA InitInv ==
  ASSUME SizeAssumption, HeapAssumption, Init
  PROVE  IInv
<1>1. TypeOK
  <2>1. 1 \in Image /\ 1 \in 1 .. (LastImage + 1)
    BY DEF SizeAssumption, Image
  <2>2. heap \in [Slot -> Holding]
    BY DEF Init, Holding
  <2> QED
    BY <2>1, <2>2 DEF Init, TypeOK
<1>2. FileIsFreed /\ OnlyDamagedIsLost /\ Held
  BY Apart DEF Init, FileIsFreed, OnlyDamagedIsLost, Held
<1> QED
  BY <1>1, <1>2 DEF IInv

(* What a step of retrieve_image does to a heap that others use as well:   *)
(* it writes to the file's buffer and to what was free, only when it       *)
(* succeeds is there a picture that was not there before, and of the file  *)
(* nothing is left on the heap when it returns.                            *)
LEMMA RetrieveStep ==
  ASSUME SizeAssumption, HeapAssumption, TypeOK, Step,
         pc \in {"Read", "Decode"} => heap[file_content_buffer] = FileContent
  PROVE  /\ TypeOK'
         /\ pc # "Idle" /\ UNCHANGED <<file_path, current_file_index>>
         /\ \A s \in Slot :
              heap[s] # Free /\ ~(pc \in {"Read", "Decode"} /\ s = file_content_buffer)
                => heap'[s] = heap[s]
         /\ pc' \in {"Read", "Decode"} =>
              /\ heap'[file_content_buffer'] = FileContent
              /\ \/ heap[file_content_buffer'] = Free
                 \/ pc = "Read" /\ file_content_buffer' = file_content_buffer
         /\ pc' = "Idle" /\ returned' =>
              /\ image_data' \in Slot
              /\ heap[image_data'] = Free /\ heap'[image_data'] = file_path
         /\ \A s \in Slot : heap'[s] \in Image =>
              \/ heap'[s] = heap[s]
              \/ pc' = "Idle" /\ returned' /\ s = image_data'
         /\ \A s \in Slot : heap'[s] = FileContent =>
              \/ pc' \in {"Read", "Decode"} /\ s = file_content_buffer'
              \/ /\ heap[s] = FileContent
                 /\ ~(pc \in {"Read", "Decode"} /\ s = file_content_buffer)
<1>1. CASE SizeFails \/ Size \/ AllocateFails \/ Read
  <2>1. /\ UNCHANGED <<file_path, current_file_index, heap, file_content_buffer, image_data>>
        /\ pc \in {"Size", "Allocate", "Read"} /\ returned' \in BOOLEAN
        /\ \/ pc = "Size" /\ pc' = "Allocate"
           \/ pc = "Read" /\ pc' = "Decode"
           \/ pc # "Read" /\ pc' = "Idle" /\ ~returned'
    BY <1>1 DEF SizeFails, Size, AllocateFails, Read, Return, TypeOK
  <2>2. TypeOK'
    BY <2>1 DEF TypeOK
  <2> QED
    BY <2>1, <2>2
<1>2. CASE Allocate
  <2>1. PICK s \in Slot :
          /\ heap[s] = Free
          /\ heap' = [heap EXCEPT ![s] = FileContent]
          /\ file_content_buffer' = s
    BY <1>2 DEF Allocate
  <2>2. heap'[s] = FileContent /\ \A t \in Slot \ {s} : heap'[t] = heap[t]
    BY <2>1 DEF TypeOK
  <2>3. TypeOK'
    BY <1>2, <2>1 DEF Allocate, TypeOK, Holding
  <2> QED
    BY <1>2, <2>1, <2>2, <2>3, Apart DEF Allocate
<1>3. CASE ReadFails
  <2>1. /\ heap'[file_content_buffer] = Free
        /\ \A t \in Slot \ {file_content_buffer} : heap'[t] = heap[t]
    BY <1>3 DEF ReadFails, TypeOK
  <2>2. TypeOK'
    BY <1>3 DEF ReadFails, Return, TypeOK, Holding
  <2> QED
    BY <1>3, <2>1, <2>2, Apart DEF ReadFails, Return
<1>4. CASE DecodeFails
  <2>1. file_content_buffer \in Slot
    BY <1>4 DEF DecodeFails, TypeOK
  <2>2. TypeOK'
    BY <1>4, <2>1 DEF DecodeFails, Return, TypeOK, Holding
  <2>3. \A t \in Slot :
          \/ heap'[t] = heap[t]
          \/ heap'[t] = Free /\ t = file_content_buffer
          \/ heap'[t] = Damaged /\ heap[t] = Free
    BY <1>4, <2>1 DEF DecodeFails, TypeOK
  <2>4. heap'[file_content_buffer] = Free
    BY <1>4, <2>1 DEF DecodeFails, TypeOK
  <2> QED
    BY <1>4, <2>2, <2>3, <2>4, Apart DEF DecodeFails, Return
<1>5. CASE Decode
  <2>1. PICK s \in Slot :
          /\ heap[s] = Free
          /\ image_data' = s
          /\ heap' = [heap EXCEPT ![s] = file_path, ![file_content_buffer] = Free]
    BY <1>5 DEF Decode
  <2>2. file_content_buffer \in Slot /\ s # file_content_buffer
    BY <1>5, <2>1, Apart DEF Decode, TypeOK
  <2>3. /\ heap'[s] = file_path /\ heap'[file_content_buffer] = Free
        /\ \A t \in Slot \ {s, file_content_buffer} : heap'[t] = heap[t]
    BY <2>1, <2>2 DEF TypeOK
  <2>4. TypeOK' /\ file_path \in Image
    BY <1>5, <2>1, <2>2 DEF Decode, Return, TypeOK, Holding
  <2> QED
    BY <1>5, <2>1, <2>2, <2>3, <2>4, Apart DEF Decode, Return
<1> QED
  BY <1>1, <1>2, <1>3, <1>4, <1>5 DEF Step

LEMMA CallStep ==
  ASSUME SizeAssumption, IInv, Call
  PROVE  IInv'
<1>1. PICK i \in Image \cup {-1} : Named(i) \in Image /\ retrieve_image(i)
  BY DEF Call
<1>2. current_file_index' \in 1 .. (LastImage + 1)
  BY <1>1 DEF retrieve_image, Image, SizeAssumption
<1> QED
  BY <1>1, <1>2
  DEF Call, retrieve_image, IInv, TypeOK, FileIsFreed, OnlyDamagedIsLost, Held

(* A step of retrieve_image that leaves the heap alone. *)
LEMMA HeapUntouchedStep ==
  ASSUME IInv, SizeFails \/ Size \/ AllocateFails \/ Read
  PROVE  IInv'
<1>1. /\ UNCHANGED <<file_path, current_file_index, heap, file_content_buffer, image_data>>
      /\ returned' = FALSE \/ returned' = returned
      /\ \/ pc \in {"Size", "Allocate"} /\ pc' \in {"Idle", "Allocate"}
         \/ pc = "Read" /\ pc' = "Decode"
  BY DEF SizeFails, Size, AllocateFails, Read, Return
<1>2. ~returned
  BY <1>1 DEF IInv, Held
<1>3. TypeOK'
  BY <1>1 DEF IInv, TypeOK
<1>4. FileIsFreed' /\ OnlyDamagedIsLost' /\ Held'
  BY <1>1, <1>2 DEF IInv, FileIsFreed, OnlyDamagedIsLost, Held
<1> QED
  BY <1>3, <1>4 DEF IInv

LEMMA AllocateStep ==
  ASSUME SizeAssumption, HeapAssumption, IInv, Allocate
  PROVE  IInv'
<1>1. PICK s \in Slot :
        /\ heap[s] = Free
        /\ heap' = [heap EXCEPT ![s] = FileContent]
        /\ file_content_buffer' = s
  BY DEF Allocate
<1>2. heap'[s] = FileContent /\ \A t \in Slot \ {s} : heap'[t] = heap[t]
  BY <1>1 DEF IInv, TypeOK
<1>3. TypeOK'
  BY <1>1 DEF Allocate, IInv, TypeOK, Holding
<1>4. FileIsFreed' /\ OnlyDamagedIsLost' /\ Held'
  BY <1>1, <1>2, Apart DEF Allocate, IInv, TypeOK, FileIsFreed, OnlyDamagedIsLost, Held
<1> QED
  BY <1>3, <1>4 DEF IInv

LEMMA ReadFailsStep ==
  ASSUME SizeAssumption, HeapAssumption, IInv, ReadFails
  PROVE  IInv'
<1>1. file_content_buffer \in Slot
  BY DEF ReadFails, IInv, TypeOK
<1>2. /\ heap'[file_content_buffer] = Free
      /\ \A t \in Slot \ {file_content_buffer} : heap'[t] = heap[t]
  BY <1>1 DEF ReadFails, IInv, TypeOK
<1>3. TypeOK'
  BY <1>1 DEF ReadFails, Return, IInv, TypeOK, Holding
<1>4. FileIsFreed' /\ OnlyDamagedIsLost' /\ Held'
  BY <1>1, <1>2, Apart
  DEF ReadFails, Return, IInv, TypeOK, FileIsFreed, OnlyDamagedIsLost, Held
<1> QED
  BY <1>3, <1>4 DEF IInv

(* Where the decoder puts what it allocates is not where the file is. *)
LEMMA DecodeFailsStep ==
  ASSUME SizeAssumption, HeapAssumption, IInv, DecodeFails
  PROVE  IInv'
<1>1. file_content_buffer \in Slot
  BY DEF DecodeFails, IInv, TypeOK
<1>2. pc = "Decode" /\ pc' = "Idle" /\ returned' = FALSE
  BY DEF DecodeFails, Return
<1>3. TypeOK'
  BY <1>1 DEF DecodeFails, Return, IInv, TypeOK, Holding
<1>4. \A t \in Slot : heap'[t] = heap[t] \/ heap'[t] = Free \/ heap'[t] = Damaged
  BY <1>1 DEF DecodeFails, IInv, TypeOK
<1>5. heap'[file_content_buffer] = Free
  BY <1>1 DEF DecodeFails, IInv, TypeOK
<1>6. FileIsFreed' /\ OnlyDamagedIsLost' /\ Held'
  BY <1>2, <1>4, <1>5, Apart DEF IInv, FileIsFreed, OnlyDamagedIsLost, Held
<1> QED
  BY <1>3, <1>6 DEF IInv

LEMMA DecodeStep ==
  ASSUME SizeAssumption, HeapAssumption, IInv, Decode
  PROVE  IInv' /\ heap'[image_data'] = file_path
<1>1. PICK s \in Slot :
        /\ heap[s] = Free
        /\ image_data' = s
        /\ heap' = [heap EXCEPT ![s] = file_path, ![file_content_buffer] = Free]
  BY DEF Decode
<1>2. /\ pc = "Decode" /\ pc' = "Idle" /\ returned' = TRUE
      /\ UNCHANGED <<file_path, current_file_index, file_content_buffer>>
  BY DEF Decode, Return
<1>3. file_content_buffer \in Slot /\ s # file_content_buffer
  BY <1>1, <1>2, Apart DEF IInv, TypeOK, Held
<1>4. /\ heap'[s] = file_path /\ heap'[file_content_buffer] = Free
      /\ \A t \in Slot \ {s, file_content_buffer} : heap'[t] = heap[t]
  BY <1>1, <1>3 DEF IInv, TypeOK
<1>5. TypeOK'
  BY <1>1, <1>2, <1>3 DEF IInv, TypeOK, Holding
<1>6. FileIsFreed' /\ OnlyDamagedIsLost' /\ Held'
  BY <1>1, <1>2, <1>3, <1>4, Apart
  DEF IInv, TypeOK, FileIsFreed, OnlyDamagedIsLost, Held
<1> QED
  BY <1>1, <1>4, <1>5, <1>6 DEF IInv

LEMMA FreeImageStep ==
  ASSUME SizeAssumption, HeapAssumption, IInv, FreeImage
  PROVE  IInv'
<1>1. image_data \in Slot /\ heap[image_data] = file_path
  BY DEF FreeImage, IInv, Held
<1>2. heap'[image_data] = Free /\ \A t \in Slot \ {image_data} : heap'[t] = heap[t]
  BY <1>1 DEF FreeImage, IInv, TypeOK
<1>3. TypeOK'
  BY <1>1 DEF FreeImage, IInv, TypeOK, Holding
<1>4. FileIsFreed' /\ OnlyDamagedIsLost' /\ Held'
  BY <1>1, <1>2, Apart DEF FreeImage, IInv, FileIsFreed, OnlyDamagedIsLost, Held
<1> QED
  BY <1>3, <1>4 DEF IInv

LEMMA StepInv ==
  ASSUME SizeAssumption, HeapAssumption, IInv, [Next]_vars
  PROVE  IInv'
<1>1. CASE UNCHANGED vars
  BY <1>1 DEF vars, IInv, TypeOK, FileIsFreed, OnlyDamagedIsLost, Held
<1> QED
  BY <1>1, CallStep, HeapUntouchedStep, AllocateStep, ReadFailsStep, DecodeFailsStep,
     DecodeStep, FreeImageStep
  DEF Next, Step

(* What is on the heap stays known to somebody. *)
THEOREM Inductive ==
  ASSUME SizeAssumption, HeapAssumption
  PROVE  Spec => []IInv
<1>1. Init => IInv
  BY InitInv
<1>2. IInv /\ [Next]_vars => IInv'
  BY StepInv
<1> QED
  BY <1>1, <1>2, PTL DEF Spec

(* What is read and decoded into is on the heap. *)
THEOREM TypeCorrect ==
  ASSUME SizeAssumption, HeapAssumption
  PROVE  Spec => []TypeOK
<1>1. IInv => TypeOK
  BY DEF IInv
<1> QED
  BY <1>1, Inductive, PTL

(* retrieve_image frees its file on every path. *)
THEOREM EveryPathFrees ==
  ASSUME SizeAssumption, HeapAssumption
  PROVE  Spec => []FileIsFreed
<1>1. IInv => FileIsFreed
  BY DEF IInv
<1> QED
  BY <1>1, Inductive, PTL

(* However many calls fail, the one picture on the heap is the caller's.   *)
THEOREM NoPictureLost ==
  ASSUME SizeAssumption, HeapAssumption
  PROVE  Spec => []OnlyDamagedIsLost
<1>1. IInv => OnlyDamagedIsLost
  BY DEF IInv
<1> QED
  BY <1>1, Inductive, PTL

(* A step of the loader, as its caller sees it.                            *)
LEMMA AbstractStep ==
  ASSUME SizeAssumption, HeapAssumption, IInv, [Next]_vars
  PROVE  Abstract!Next \/ UNCHANGED Abstract!vars
<1> USE DEF Abstract!vars
<1>1. file_path \in Image /\ file_path # 0 /\ (pc # "Idle" => ~returned)
  BY DEF IInv, TypeOK, Image, Held
<1>2. CASE Call
  BY <1>1, <1>2 DEF Call, retrieve_image, Abstract!Next, Abstract!Ask
<1>3. CASE SizeFails \/ AllocateFails \/ ReadFails \/ DecodeFails
  BY <1>1, <1>3
  DEF SizeFails, AllocateFails, ReadFails, DecodeFails, Return, Abstract!Next, Abstract!Answer
<1>4. CASE Decode
  BY <1>1, <1>4, DecodeStep DEF Decode, Return, Abstract!Next, Abstract!Answer
<1>5. CASE Size \/ Allocate \/ Read
  BY <1>1, <1>5 DEF Size, Allocate, Read
<1>6. CASE FreeImage
  BY <1>6 DEF FreeImage, Abstract!Next, Abstract!Forget
<1>7. CASE UNCHANGED vars
  BY <1>7 DEF vars
<1> QED
  BY <1>2, <1>3, <1>4, <1>5, <1>6, <1>7 DEF Next, Step

(* Every step of retrieve_image and its caller is one of the source of     *)
(* images, or is not seen there: the answer is the picture asked for or a  *)
(* failure, and the next image is the one after it.  That every call is    *)
(* answered is checked, not proved.                                        *)
THEOREM StepsOfSource ==
  ASSUME SizeAssumption, HeapAssumption
  PROVE  Spec => Abstract!Steps
<1>1. Init => Abstract!Init
  BY DEF Init, Abstract!Init
<1>2. IInv /\ [Next]_vars => [Abstract!Next]_(Abstract!vars)
  BY AbstractStep
<1> QED
  BY <1>1, <1>2, Inductive, PTL DEF Spec, Abstract!Steps
=============================================================================
