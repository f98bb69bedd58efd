---------------------------- MODULE DatasetsProofs ----------------------------
(***************************************************************************)
(* Theorems about Datasets.tla, for every tree of directories, every       *)
(* number of images and lines and every heap.                              *)
(*   Each of the programs has an inductive invariant of its own.  The      *)
(* dataset loader's, and what a step of retrieve_image does to the heap,   *)
(* are those of DatasetLoaderProofs.tla, instantiated for the loader alone *)
(* and for the Image that each of the tests gives it.                      *)
(***************************************************************************)
EXTENDS Datasets, TLAPS

-----------------------------------------------------------------------------
(* The file system.  Which function a FatFs call belongs to, when a file   *)
(* is open, and what is known between the two calls of cd.                 *)
InCall ==
  /\ pc \in {"f_chdir", "f_opendir"} => call = "cd"
  /\ pc = "f_findfirst" => call = "ls"
  /\ pc \in {"f_open", "f_close"} => call \in {"size", "read", "write"}
  /\ pc = "f_read" => call = "read"
  /\ pc = "f_write" => call = "write"
  /\ pc \in {"f_open", "f_write", "f_close"} /\ call = "write" => arg \in Content
  /\ file_handle => pc \in {"f_read", "f_write", "f_close"}
  /\ pc = "f_opendir" => mounted /\ Follow[cwd][arg] = cwd /\ current = NoDirectory

FileSystemInv == TypeOK /\ VolumeInOrder /\ InCall

LEMMA FileSystemInit ==
  ASSUME Init
  PROVE  FileSystemInv
BY DirectoryAssumption
DEF Init, FileSystemInv, TypeOK, VolumeInOrder, MountedHasCard, DirectoryStaysSet,
    NoFileLeftOpen, InCall

(* The volume that a FatFs call finds is in order, and its directory the   *)
(* current one when there was one. *)
LEMMA VolumeFound ==
  ASSUME FileSystemInv, NEW d \in Directory, WithVolume(d)
  PROVE  /\ mounted' = TRUE /\ host' = TRUE /\ registered' = TRUE
         /\ mounted => d = cwd
<1>1. host \in BOOLEAN /\ registered \in BOOLEAN /\ mounted \in BOOLEAN
  BY DEF FileSystemInv, TypeOK
<1>2. registered /\ (mounted => host)
  BY DEF FileSystemInv, VolumeInOrder, MountedHasCard, WithVolume
<1>3. CASE mounted /\ d = cwd /\ UNCHANGED card
  BY <1>1, <1>2, <1>3 DEF card
<1>4. CASE ~mounted /\ host /\ mounted' = TRUE /\ UNCHANGED <<host, registered>>
  BY <1>1, <1>2, <1>4
<1> QED
  BY <1>3, <1>4 DEF WithVolume

(* ... and when it fails there, the volume is left in order. *)
LEMMA VolumeNotFound ==
  ASSUME FileSystemInv, NoVolume
  PROVE  /\ registered' = registered /\ mounted' = mounted
         /\ host' \in BOOLEAN
         /\ mounted' => host' /\ registered'
<1>1. host \in BOOLEAN /\ registered \in BOOLEAN /\ mounted \in BOOLEAN
  BY DEF FileSystemInv, TypeOK
<1>2. mounted => host /\ registered
  BY DEF FileSystemInv, VolumeInOrder, MountedHasCard
<1>3. CASE UNCHANGED card
  BY <1>1, <1>2, <1>3 DEF card
<1>4. CASE DescriptorZeroed
  BY <1>1, <1>2, <1>4 DEF DescriptorZeroed
<1> QED
  BY <1>3, <1>4 DEF NoVolume

(* initialise, deinitialise and the assertion. *)
LEMMA VolumeStep ==
  ASSUME FileSystemInv, initialise \/ deinitialise \/ AssertionFails
  PROVE  FileSystemInv'
<1> USE DirectoryAssumption
    DEF initialise, deinitialise, AssertionFails, card, FileSystemInv, VolumeInOrder
<1>1. TypeOK'
  BY DEF TypeOK
<1>2. MountedHasCard'
  BY DEF TypeOK, MountedHasCard
<1>3. DirectoryStaysSet'
  BY DEF TypeOK, MountedHasCard, DirectoryStaysSet
<1>4. NoFileLeftOpen' /\ InCall'
  BY DEF TypeOK, NoFileLeftOpen, InCall
<1> QED
  BY <1>1, <1>2, <1>3, <1>4

(* The beginning of a call, and what follows the opening of a file. *)
LEMMA VolumeUntouchedStep ==
  ASSUME FileSystemInv, cdRefused \/ cd \/ ls \/ UseFile \/ TransferFails \/ Transfer
  PROVE  FileSystemInv'
<1>0. UNCHANGED <<host, registered, mounted, cwd, current_directory_path, disk, listed, current>>
  BY DEF cdRefused, cd, ls, UseFile, TransferFails, Transfer, card
<1> USE DEF FileSystemInv, VolumeInOrder
<1>1. TypeOK'
  <2> USE <1>0, DirectoryAssumption DEF TypeOK, Start, Return
  <2>1. CASE cdRefused \/ cd
    BY <2>1 DEF cdRefused, cd
  <2>2. CASE ls \/ UseFile
    BY <2>2 DEF ls, UseFile
  <2>3. CASE TransferFails
    BY <2>3 DEF TransferFails
  <2>4. CASE Transfer
    BY <2>4 DEF Transfer
  <2> QED
    BY <2>1, <2>2, <2>3, <2>4
<1>2. MountedHasCard'
  BY <1>0
  DEF TypeOK, MountedHasCard, cdRefused, cd, ls, UseFile, TransferFails, Transfer, Start,
      Return, InCall
<1>3. DirectoryStaysSet'
  BY <1>0 DEF DirectoryStaysSet
<1>4. NoFileLeftOpen' /\ InCall'
  BY <1>0
  DEF TypeOK, NoFileLeftOpen, InCall, cdRefused, cd, ls, UseFile, TransferFails, Transfer,
      Start, Return
<1> QED
  BY <1>1, <1>2, <1>3, <1>4

LEMMA cdStep ==
  ASSUME FileSystemInv, chdir \/ chdirFails \/ opendir
  PROVE  FileSystemInv'
<1>1. CASE chdir
  <2>1. PICK d \in Directory :
          /\ WithVolume(d)
          /\ Follow[d][arg] # NoDirectory
          /\ cwd' = Follow[d][arg]
    BY <1>1 DEF chdir
  <2>2. arg \in Path /\ cwd' \in Directory
    BY <1>1, <2>1, DirectoryAssumption DEF chdir, FileSystemInv, TypeOK
  <2>3. Follow[cwd'][arg] = cwd'
    BY <2>1, <2>2, AbsolutePathAssumption
  <2> QED
    BY <1>1, <2>1, <2>2, <2>3, VolumeFound
    DEF chdir, FileSystemInv, TypeOK, VolumeInOrder, MountedHasCard, DirectoryStaysSet,
        NoFileLeftOpen, InCall
<1>2. CASE chdirFails
  <2>1. CASE NoVolume /\ UNCHANGED cwd
    <3>1. MountedHasCard' /\ host' \in BOOLEAN /\ registered' = registered /\ mounted' = mounted
      BY <1>2, <2>1, VolumeNotFound
      DEF chdirFails, Return, MountedHasCard, FileSystemInv, InCall
    <3> QED
      BY <1>2, <2>1, <3>1
      DEF chdirFails, Return, FileSystemInv, TypeOK, VolumeInOrder, DirectoryStaysSet,
          NoFileLeftOpen, InCall
  <2>2. CASE \E d \in Directory : WithVolume(d) /\ cwd' = d
    BY <1>2, <2>2, VolumeFound
    DEF chdirFails, Return, FileSystemInv, TypeOK, VolumeInOrder, MountedHasCard,
        DirectoryStaysSet, NoFileLeftOpen, InCall
  <2> QED
    BY <1>2, <2>1, <2>2 DEF chdirFails
<1>3. CASE opendir
  BY <1>3
  DEF opendir, Return, card, FileSystemInv, TypeOK, VolumeInOrder, MountedHasCard,
      DirectoryStaysSet, NoFileLeftOpen, InCall
<1> QED
  BY <1>1, <1>2, <1>3

LEMMA lsStep ==
  ASSUME FileSystemInv, findfirst \/ findfirstFails
  PROVE  FileSystemInv'
<1>1. CASE findfirst
  <2>1. PICK d \in Directory :
          /\ WithVolume(d) /\ cwd' = d
          /\ Follow[d][current_directory_path] # NoDirectory
          /\ listed' = Follow[d][current_directory_path]
    BY <1>1 DEF findfirst
  <2>2. listed' \in Directory
    BY <2>1, DirectoryAssumption DEF FileSystemInv, TypeOK
  <2> QED
    BY <1>1, <2>1, <2>2, VolumeFound
    DEF findfirst, Return, FileSystemInv, TypeOK, VolumeInOrder, MountedHasCard,
        DirectoryStaysSet, NoFileLeftOpen, InCall
<1>2. CASE findfirstFails
  <2>1. CASE NoVolume /\ UNCHANGED cwd
    <3>1. MountedHasCard' /\ host' \in BOOLEAN /\ registered' = registered /\ mounted' = mounted
      BY <1>2, <2>1, VolumeNotFound
      DEF findfirstFails, Return, MountedHasCard, FileSystemInv, InCall
    <3> QED
      BY <1>2, <2>1, <3>1
      DEF findfirstFails, Return, FileSystemInv, TypeOK, VolumeInOrder, DirectoryStaysSet,
          NoFileLeftOpen, InCall
  <2>2. CASE \E d \in Directory : WithVolume(d) /\ cwd' = d
    BY <1>2, <2>2, VolumeFound
    DEF findfirstFails, Return, FileSystemInv, TypeOK, VolumeInOrder, MountedHasCard,
        DirectoryStaysSet, NoFileLeftOpen, InCall
  <2> QED
    BY <1>2, <2>1, <2>2 DEF findfirstFails
<1> QED
  BY <1>1, <1>2

LEMMA FileStep ==
  ASSUME FileSystemInv, open \/ openFails \/ close
  PROVE  FileSystemInv'
<1>1. CASE open
  <2>1. PICK d \in Directory :
          /\ WithVolume(d) /\ cwd' = d
          /\ \/ call = "write" /\ disk' = [disk EXCEPT ![d] = Partial]
             \/ call # "write" /\ disk[d] # Missing /\ UNCHANGED disk
    BY <1>1 DEF open
  <2>2. disk' \in [Directory -> Content \cup {Partial, Missing}]
    BY <2>1 DEF FileSystemInv, TypeOK
  <2>3. /\ call = "size" => pc' = "f_close"
        /\ call = "read" => pc' = "f_read"
        /\ call = "write" => pc' = "f_write"
        /\ call \in {"size", "read", "write"}
    BY <1>1 DEF open, FileSystemInv, InCall
  <2> QED
    BY <1>1, <2>1, <2>2, <2>3, VolumeFound
    DEF open, FileSystemInv, TypeOK, VolumeInOrder, MountedHasCard, DirectoryStaysSet,
        NoFileLeftOpen, InCall
<1>2. CASE openFails
  <2>1. CASE NoVolume /\ UNCHANGED <<cwd, disk>>
    <3>1. MountedHasCard' /\ host' \in BOOLEAN /\ registered' = registered /\ mounted' = mounted
      BY <1>2, <2>1, VolumeNotFound
      DEF openFails, Return, MountedHasCard, FileSystemInv, InCall
    <3> QED
      BY <1>2, <2>1, <3>1
      DEF openFails, Return, FileSystemInv, TypeOK, VolumeInOrder, DirectoryStaysSet,
          NoFileLeftOpen, InCall
  <2>2. CASE \E d \in Directory :
          /\ WithVolume(d) /\ cwd' = d
          /\ \/ call = "write" /\ disk' = [disk EXCEPT ![d] = Partial]
             \/ UNCHANGED disk
    BY <1>2, <2>2, VolumeFound
    DEF openFails, Return, FileSystemInv, TypeOK, VolumeInOrder, MountedHasCard,
        DirectoryStaysSet, NoFileLeftOpen, InCall
  <2> QED
    BY <1>2, <2>1, <2>2 DEF openFails
<1>3. CASE close
  <2>1. disk' \in [Directory -> Content \cup {Partial, Missing}]
    BY <1>3 DEF close, FileSystemInv, TypeOK, InCall
  <2> QED
    BY <1>3, <2>1
    DEF close, Return, card, FileSystemInv, TypeOK, VolumeInOrder, MountedHasCard,
        DirectoryStaysSet, NoFileLeftOpen, InCall
<1> QED
  BY <1>1, <1>2, <1>3

LEMMA FileSystemStep ==
  ASSUME FileSystemInv, [Next]_vars
  PROVE  FileSystemInv'
<1>1. CASE UNCHANGED vars
  BY <1>1
  DEF vars, card, FileSystemInv, TypeOK, VolumeInOrder, MountedHasCard, DirectoryStaysSet,
      NoFileLeftOpen, InCall
<1> QED
  BY <1>1, VolumeStep, VolumeUntouchedStep, cdStep, lsStep, FileStep DEF Next

-----------------------------------------------------------------------------
(* The dataset loader alone. *)
LoaderProofs == INSTANCE DatasetLoaderProofs WITH
  pc <- loader_pc, file_path <- loader_file_path,
  current_file_index <- loader_file_index, heap <- loader_heap,
  file_content_buffer <- loader_buffer, image_data <- loader_image,
  returned <- loader_returned, Slot <- LoaderSlot, LastImage <- MaxIndex

LEMMA LoaderSizes == LoaderProofs!SizeAssumption /\ LoaderProofs!HeapAssumption
BY LoaderAssumption
DEF Loader!SizeAssumption, Loader!HeapAssumption, LoaderProofs!SizeAssumption,
    LoaderProofs!HeapAssumption

LEMMA LoaderInit == Loader!Init => LoaderProofs!IInv
<1>1. Loader!Init => LoaderProofs!Init
  BY DEF Loader!Init, LoaderProofs!Init
<1> QED
  BY <1>1, LoaderSizes, LoaderProofs!InitInv

LEMMA SameLoader == Loader!Next => LoaderProofs!Next
  BY DEF Loader!Next, Loader!Call, Loader!Named, Loader!retrieve_image, Loader!Image,
         Loader!Step, Loader!SizeFails, Loader!Size, Loader!AllocateFails,
         Loader!Allocate, Loader!ReadFails, Loader!Read, Loader!DecodeFails,
         Loader!Decode, Loader!Return, Loader!FreeImage, LoaderProofs!Next,
         LoaderProofs!Call, LoaderProofs!Named, LoaderProofs!retrieve_image,
         LoaderProofs!Image, LoaderProofs!Step, LoaderProofs!SizeFails,
         LoaderProofs!Size, LoaderProofs!AllocateFails, LoaderProofs!Allocate,
         LoaderProofs!ReadFails, LoaderProofs!Read, LoaderProofs!DecodeFails,
         LoaderProofs!Decode, LoaderProofs!Return, LoaderProofs!FreeImage

LEMMA LoaderStep ==
  ASSUME LoaderProofs!IInv, Loader!Next \/ UNCHANGED loaderVars
  PROVE  LoaderProofs!IInv'
<1>1. Loader!Next => LoaderProofs!Next
  BY SameLoader
<1>2. UNCHANGED loaderVars => UNCHANGED LoaderProofs!vars
  BY DEF loaderVars, LoaderProofs!vars
<1> QED
  BY <1>1, <1>2, LoaderSizes, LoaderProofs!StepInv

LEMMA LoaderGoals ==
  LoaderProofs!IInv => Loader!TypeOK /\ Loader!FileIsFreed /\ Loader!OnlyDamagedIsLost
BY DEF LoaderProofs!IInv, LoaderProofs!TypeOK, LoaderProofs!FileIsFreed,
       LoaderProofs!OnlyDamagedIsLost, LoaderProofs!Image, LoaderProofs!Holding,
       Loader!TypeOK, Loader!FileIsFreed, Loader!OnlyDamagedIsLost, Loader!Image,
       Loader!Holding

-----------------------------------------------------------------------------
(* The Lucas-Kanade test.  Its type invariant, with those of the loader     *)
(* written out; and where it is: retrieve_image runs where the test calls it, for *)
(* the image the test is at, and the test is at the two rows of the pair    *)
(* that this image starts.                                                 *)
LucasKanadeTyped ==
  /\ test_pc \in {"Idle", "Size", "Allocate", "Read", "Decode"}
  /\ file_path \in 1 .. (Pairs + 1)
  /\ current_file_index \in 1 .. (Pairs + 2)
  /\ heap \in [Slot -> {Free, FileContent, Damaged} \cup 1 .. (Pairs + 1)]
  /\ file_content_buffer \in Slot \cup {NULL}
  /\ test_pc \in {"Read", "Decode"} => file_content_buffer \in Slot
  /\ previous_image \in Slot \cup {NULL} /\ current_image \in Slot \cup {NULL}
  /\ test_returned \in BOOLEAN
  /\ at \in {"Begin", "CallFirst", "First", "Head", "CallCurrent", "Second",
             "CallSkip", "Skip", "Compare", "Done", "Fault"}
  /\ features \in Slot \cup {NULL}
  /\ data_ptr \in 1 .. (2 * Pairs + 1)
  /\ line_ptr \in 1 .. (2 * Pairs + 1) \cup {NULL}
  /\ index \in 1 .. (Pairs + 2)
  /\ start_row \in 0 .. (2 * Pairs) /\ end_row \in 0 .. (2 * Pairs)

LucasKanadePlace ==
  /\ at \in {"Begin", "CallFirst", "First"} => index = 1
  /\ at \notin {"First", "Skip", "Second"} => test_pc = "Idle"
  /\ at \in {"First", "Skip"} => file_path = index
  /\ at = "Second" => file_path = index + 1
  /\ at \in {"Begin", "CallFirst", "First", "Head", "CallSkip", "Skip"} =>
       /\ index <= Pairs + 1
       /\ data_ptr = 2 * index - 1 /\ line_ptr = LucasKanadeTest!strchr(data_ptr)
  /\ at \in {"CallCurrent", "Second"} =>
       /\ index <= Pairs /\ start_row = 2 * index - 1 /\ end_row = 2 * index
       /\ line_ptr = 2 * index + 1
  /\ at = "Compare" =>
       /\ index \in 2 .. (Pairs + 1)
       /\ start_row = 2 * index - 3 /\ end_row = 2 * index - 2
       /\ line_ptr = 2 * index - 1
  /\ at = "Fault" => file_path = Pairs + 1

(* The references and the file that is read stay apart, and there is no    *)
(* other file on the heap.                                                 *)
LucasKanadeBuffers ==
  /\ at = "Begin" => features = NULL
  /\ at \notin {"Begin", "Done"} => features \in Slot /\ heap[features] = FileContent
  /\ test_pc \in {"Read", "Decode"} =>
       heap[file_content_buffer] = FileContent /\ file_content_buffer # features
  /\ at # "Done" => \A s \in Slot : heap[s] = FileContent =>
       \/ s = features
       \/ test_pc \in {"Read", "Decode"} /\ s = file_content_buffer

(* The pictures the test has, and no other is on the heap. *)
LucasKanadePictures ==
  /\ LucasKanadeTest!HasPrevious =>
       /\ previous_image \in Slot
       /\ heap[previous_image] =
            IF at = "Compare" THEN index - 1 ELSE IF at = "Fault" THEN index - 2 ELSE index
  /\ LucasKanadeTest!HasCurrent =>
       /\ current_image \in Slot
       /\ heap[current_image] = IF at = "Compare" THEN index ELSE index + 1
  /\ at # "Done" => \A s \in Slot : heap[s] \in LucasKanadeTest!Image =>
       \/ LucasKanadeTest!HasPrevious /\ s = previous_image
       \/ LucasKanadeTest!HasCurrent /\ s = current_image

LucasKanadeInv ==
  /\ LucasKanadeTyped
  /\ LucasKanadePlace /\ LucasKanadeBuffers /\ LucasKanadePictures
  /\ LucasKanadeTest!LeftBehind

PreviousProofs == INSTANCE DatasetLoaderProofs WITH
  pc <- test_pc, returned <- test_returned, image_data <- previous_image,
  LastImage <- Pairs + 1
CurrentProofs == INSTANCE DatasetLoaderProofs WITH
  pc <- test_pc, returned <- test_returned, image_data <- current_image,
  LastImage <- Pairs + 1

LEMMA TestSizes ==
  /\ PreviousProofs!SizeAssumption /\ PreviousProofs!HeapAssumption
  /\ CurrentProofs!SizeAssumption /\ CurrentProofs!HeapAssumption
  /\ Pairs \in Nat \ {0} /\ NULL \notin Nat /\ NULL \notin Slot
BY LoaderAssumption, TestsAssumption
DEF Loader!HeapAssumption, LucasKanadeTest!PairsAssumption,
    PreviousProofs!SizeAssumption, PreviousProofs!HeapAssumption,
    CurrentProofs!SizeAssumption, CurrentProofs!HeapAssumption

(* What is on the heap besides pictures is no picture. *)
LEMMA TestHeap ==
  /\ Free \notin LucasKanadeTest!Image /\ FileContent \notin LucasKanadeTest!Image
  /\ Damaged \notin LucasKanadeTest!Image
  /\ Free # FileContent /\ Free # Damaged /\ FileContent # Damaged
  /\ LucasKanadeTest!Image = 1 .. (Pairs + 1)
BY LoaderAssumption
DEF Loader!HeapAssumption, LucasKanadeTest!Image, LucasKanadeTest!LastImage

LEMMA LucasKanadeGoals ==
  ASSUME LucasKanadeInv
  PROVE  /\ LucasKanadeTest!TypeOK /\ LucasKanadeTest!RowsMatchImages
         /\ LucasKanadeTest!AllocatedIsInUse /\ LucasKanadeTest!LeftBehind
         /\ LucasKanadeTest!FaultNeedsLastImage
<1>1. LucasKanadeTest!TypeOK
  <2>1. Pairs + 1 + 1 = Pairs + 2
    BY TestSizes
  <2> QED
    BY <2>1
    DEF LucasKanadeInv, LucasKanadeTyped, LucasKanadeTest!TypeOK,
        LucasKanadeTest!Previous!TypeOK, LucasKanadeTest!Current!TypeOK,
        LucasKanadeTest!Previous!Image, LucasKanadeTest!Previous!Holding,
        LucasKanadeTest!Current!Image, LucasKanadeTest!Current!Holding,
        LucasKanadeTest!LastImage, LucasKanadeTest!LastRow
<1>2. LucasKanadeTest!RowsMatchImages /\ LucasKanadeTest!FaultNeedsLastImage
  BY TestsAssumption
  DEF LucasKanadeInv, LucasKanadeTyped, LucasKanadePlace, LucasKanadePictures,
      LucasKanadeTest!HasPrevious, LucasKanadeTest!HasCurrent,
      LucasKanadeTest!PairsAssumption, LucasKanadeTest!RowsMatchImages,
      LucasKanadeTest!FaultNeedsLastImage, LucasKanadeTest!LastImage
<1>3. LucasKanadeTest!AllocatedIsInUse
  <2> SUFFICES ASSUME at # "Done"
               PROVE  /\ LucasKanadeTest!Allocated = LucasKanadeTest!InUse
                      /\ at # "Begin" => heap[features] = FileContent
                      /\ at \in {"Head", "CallCurrent", "Second"} => heap[previous_image] = index
    BY DEF LucasKanadeTest!AllocatedIsInUse
  <2>1. ASSUME NEW s \in Slot, heap[s] \notin {Free, Damaged}
        PROVE  s \in LucasKanadeTest!InUse
    <3>1. heap[s] = FileContent \/ heap[s] \in LucasKanadeTest!Image
      BY <2>1, TestHeap DEF LucasKanadeInv, LucasKanadeTyped
    <3> QED
      BY <3>1
      DEF LucasKanadeInv, LucasKanadeBuffers, LucasKanadePictures, LucasKanadeTest!InUse
  <2>2. ASSUME NEW s \in LucasKanadeTest!InUse
        PROVE  heap[s] \notin {Free, Damaged}
    <3>1. CASE s = features \/ (test_pc \in {"Read", "Decode"} /\ s = file_content_buffer)
      BY <3>1, TestHeap, TestSizes
      DEF LucasKanadeInv, LucasKanadeBuffers, LucasKanadeTest!InUse
    <3>2. CASE LucasKanadeTest!HasPrevious /\ s = previous_image
      <4>1. heap[s] \in Nat
        BY <3>2, TestSizes
        DEF LucasKanadeInv, LucasKanadeTyped, LucasKanadePlace, LucasKanadePictures,
            LucasKanadeTest!HasPrevious, LucasKanadeTest!LastImage
      <4> QED
        BY <4>1, LoaderAssumption DEF Loader!HeapAssumption
    <3>3. CASE LucasKanadeTest!HasCurrent /\ s = current_image
      <4>1. heap[s] \in Nat
        BY <3>3, TestSizes
        DEF LucasKanadeInv, LucasKanadeTyped, LucasKanadePictures
      <4> QED
        BY <4>1, LoaderAssumption DEF Loader!HeapAssumption
    <3> QED
      BY <3>1, <3>2, <3>3 DEF LucasKanadeTest!InUse
  <2>3. at # "Begin" => heap[features] = FileContent
    BY DEF LucasKanadeInv, LucasKanadeBuffers
  <2>4. at \in {"Head", "CallCurrent", "Second"} => heap[previous_image] = index
    BY DEF LucasKanadeInv, LucasKanadePictures, LucasKanadeTest!HasPrevious
  <2> QED
    BY <2>1, <2>2, <2>3, <2>4 DEF LucasKanadeTest!Allocated, LucasKanadeTest!InUse
<1> QED
  BY <1>1, <1>2, <1>3 DEF LucasKanadeInv

LEMMA LucasKanadeInit ==
  ASSUME LucasKanadeTest!Init
  PROVE  LucasKanadeInv
<1>1. /\ test_pc = "Idle" /\ file_path = 1 /\ current_file_index = 1
      /\ heap = [s \in Slot |-> Free]
      /\ file_content_buffer = NULL /\ previous_image = NULL /\ current_image = NULL
      /\ test_returned = FALSE /\ at = "Begin" /\ features = NULL
      /\ data_ptr = 1 /\ line_ptr = 1 /\ index = 1 /\ start_row = 0 /\ end_row = 0
      /\ line_ptr = LucasKanadeTest!strchr(data_ptr)
  BY TestSizes
  DEF LucasKanadeTest!Init, LucasKanadeTest!Previous!Init, LucasKanadeTest!strchr,
      LucasKanadeTest!LastRow
<1>2. LucasKanadeTyped
  <2>1. heap \in [Slot -> {Free, FileContent, Damaged} \cup 1 .. (Pairs + 1)]
    BY <1>1
  <2>2. /\ 1 \in 1 .. (Pairs + 1) /\ 1 \in 1 .. (Pairs + 2)
        /\ 1 \in 1 .. (2 * Pairs + 1) /\ 0 \in 0 .. (2 * Pairs)
    BY TestSizes
  <2> QED
    BY <1>1, <2>1, <2>2 DEF LucasKanadeTyped
<1>3. LucasKanadePlace /\ LucasKanadeBuffers /\ LucasKanadePictures
  BY <1>1, TestSizes, TestHeap
  DEF LucasKanadePlace, LucasKanadeBuffers, LucasKanadePictures,
      LucasKanadeTest!HasPrevious, LucasKanadeTest!HasCurrent
<1> QED
  BY <1>1, <1>2, <1>3 DEF LucasKanadeInv, LucasKanadeTest!LeftBehind

(* The calls that change no picture. *)
LEMMA LucasKanadeBeginStep ==
  ASSUME LucasKanadeInv, LucasKanadeTest!BeginFails \/ LucasKanadeTest!Begin
  PROVE  LucasKanadeInv'
<1>1. /\ at = "Begin" /\ at' \in {"Done", "CallFirst"}
      /\ UNCHANGED <<test_pc, file_path, current_file_index, file_content_buffer,
                     test_returned, data_ptr, line_ptr, start_row, end_row, index,
                     previous_image, current_image>>
  BY DEF LucasKanadeTest!BeginFails, LucasKanadeTest!Begin, LucasKanadeTest!loaderVars,
         LucasKanadeTest!rows
<1>2. \/ at' = "Done" /\ UNCHANGED <<heap, features>>
      \/ at' = "CallFirst" /\ \E s \in Slot :
           /\ heap' = [heap EXCEPT ![s] = FileContent]
           /\ features' = s
  BY DEF LucasKanadeTest!BeginFails, LucasKanadeTest!Begin, LucasKanadeTest!loaderVars
<1>3. /\ heap' \in [Slot -> {Free, FileContent, Damaged} \cup 1 .. (Pairs + 1)]
      /\ features' \in Slot \cup {NULL}
      /\ at' = "CallFirst" => features' \in Slot /\ heap'[features'] = FileContent
      /\ \A s \in Slot : heap'[s] = heap[s] \/ (heap'[s] = FileContent /\ s = features')
  BY <1>1, <1>2 DEF LucasKanadeInv, LucasKanadeTyped
<1>4. LucasKanadeTyped'
  BY <1>1, <1>3 DEF LucasKanadeInv, LucasKanadeTyped
<1>5. LucasKanadePlace'
  BY <1>1 DEF LucasKanadeInv, LucasKanadePlace, LucasKanadeTest!strchr
<1>6. LucasKanadeBuffers' /\ LucasKanadePictures'
  BY <1>1, <1>3, TestHeap, TestSizes
  DEF LucasKanadeInv, LucasKanadePlace, LucasKanadeBuffers, LucasKanadePictures,
      LucasKanadeTest!HasPrevious, LucasKanadeTest!HasCurrent, LucasKanadeTest!Retrieved,
      LucasKanadeTest!Image, LucasKanadeTest!LastImage
<1>7. LucasKanadeTest!LeftBehind'
  <2>1. CASE at' = "Done"
    <3>1. UNCHANGED <<heap, features>>
      BY <1>2, <2>1
    <3> QED
      BY <1>1, <3>1, TestHeap, TestSizes
      DEF LucasKanadeInv, LucasKanadeTyped, LucasKanadePlace, LucasKanadeBuffers,
          LucasKanadePictures, LucasKanadeTest!HasPrevious, LucasKanadeTest!HasCurrent,
          LucasKanadeTest!LeftBehind, LucasKanadeTest!Allocated
  <2>2. CASE at' # "Done"
    BY <2>2 DEF LucasKanadeTest!LeftBehind
  <2> QED
    BY <2>1, <2>2
<1> QED
  BY <1>4, <1>5, <1>6, <1>7 DEF LucasKanadeInv

(* A call of retrieve_image begins.                                        *)
LEMMA LucasKanadeCallStep ==
  ASSUME LucasKanadeInv,
         \/ LucasKanadeTest!CallFirst \/ LucasKanadeTest!CallSkip
         \/ LucasKanadeTest!CallCurrent
  PROVE  LucasKanadeInv'
<1>1. /\ test_pc = "Idle" /\ test_pc' = "Size"
      /\ UNCHANGED <<heap, file_content_buffer, test_returned, features, data_ptr, line_ptr,
                     start_row, end_row, index, previous_image, current_image>>
      /\ current_file_index' = file_path' + 1
      /\ \/ at = "CallFirst" /\ at' = "First" /\ file_path' = index
         \/ at = "CallSkip" /\ at' = "Skip" /\ file_path' = index
         \/ at = "CallCurrent" /\ at' = "Second" /\ file_path' = index + 1
  <2>1. index # -1 /\ index + 1 # -1
    BY DEF LucasKanadeInv, LucasKanadeTyped
  <2> QED
    BY <2>1
    DEF LucasKanadeTest!CallFirst, LucasKanadeTest!CallSkip, LucasKanadeTest!CallCurrent,
        LucasKanadeTest!rows,
        LucasKanadeTest!Previous!retrieve_image, LucasKanadeTest!Previous!Named,
        LucasKanadeTest!Current!retrieve_image, LucasKanadeTest!Current!Named
<1>2. file_path' \in 1 .. (Pairs + 1) /\ current_file_index' \in 1 .. (Pairs + 2)
  BY <1>1, TestSizes DEF LucasKanadeInv, LucasKanadeTyped, LucasKanadePlace
<1>3. LucasKanadeTyped'
  BY <1>1, <1>2 DEF LucasKanadeInv, LucasKanadeTyped
<1>4. LucasKanadePlace'
  BY <1>1 DEF LucasKanadeInv, LucasKanadePlace, LucasKanadeTest!strchr
<1>5. LucasKanadeBuffers' /\ LucasKanadePictures'
  BY <1>1
  DEF LucasKanadeInv, LucasKanadeBuffers, LucasKanadePictures,
      LucasKanadeTest!HasPrevious, LucasKanadeTest!HasCurrent, LucasKanadeTest!Retrieved
<1> QED
  BY <1>1, <1>3, <1>4, <1>5 DEF LucasKanadeInv, LucasKanadeTest!LeftBehind

(* A step of retrieve_image into the one Image ... *)
LEMMA LucasKanadePreviousStep ==
  ASSUME LucasKanadeInv, at \in {"First", "Skip"}, LucasKanadeTest!Previous!Step,
         UNCHANGED <<current_image, at, features, data_ptr, line_ptr, start_row, end_row, index>>
  PROVE  LucasKanadeInv'
<1>1. PreviousProofs!Step /\ PreviousProofs!TypeOK
  <2>1. PreviousProofs!Step
    BY DEF LucasKanadeTest!Previous!Step, LucasKanadeTest!Previous!SizeFails,
         LucasKanadeTest!Previous!Size, LucasKanadeTest!Previous!AllocateFails,
         LucasKanadeTest!Previous!Allocate, LucasKanadeTest!Previous!ReadFails,
         LucasKanadeTest!Previous!Read, LucasKanadeTest!Previous!DecodeFails,
         LucasKanadeTest!Previous!Decode, LucasKanadeTest!Previous!Return,
         PreviousProofs!Step, PreviousProofs!SizeFails,
         PreviousProofs!Size, PreviousProofs!AllocateFails,
         PreviousProofs!Allocate, PreviousProofs!ReadFails,
         PreviousProofs!Read, PreviousProofs!DecodeFails,
         PreviousProofs!Decode, PreviousProofs!Return
  <2>2. Pairs + 1 + 1 = Pairs + 2
    BY TestSizes
  <2> QED
    BY <2>1, <2>2
    DEF LucasKanadeInv, LucasKanadeTyped, PreviousProofs!TypeOK, PreviousProofs!Image,
        PreviousProofs!Holding
<1>2. test_pc \in {"Read", "Decode"} => heap[file_content_buffer] = FileContent
  BY DEF LucasKanadeInv, LucasKanadeBuffers
<1>3. /\ PreviousProofs!TypeOK'
      /\ test_pc # "Idle" /\ UNCHANGED <<file_path, current_file_index>>
      /\ \A s \in Slot :
           heap[s] # Free /\ ~(test_pc \in {"Read", "Decode"} /\ s = file_content_buffer)
             => heap'[s] = heap[s]
      /\ test_pc' \in {"Read", "Decode"} =>
           /\ heap'[file_content_buffer'] = FileContent
           /\ \/ heap[file_content_buffer'] = Free
              \/ test_pc = "Read" /\ file_content_buffer' = file_content_buffer
      /\ test_pc' = "Idle" /\ test_returned' =>
           /\ previous_image' \in Slot
           /\ heap[previous_image'] = Free /\ heap'[previous_image'] = file_path
      /\ \A s \in Slot : heap'[s] \in PreviousProofs!Image =>
           \/ heap'[s] = heap[s]
           \/ test_pc' = "Idle" /\ test_returned' /\ s = previous_image'
      /\ \A s \in Slot : heap'[s] = FileContent =>
           \/ test_pc' \in {"Read", "Decode"} /\ s = file_content_buffer'
           \/ /\ heap[s] = FileContent
              /\ ~(test_pc \in {"Read", "Decode"} /\ s = file_content_buffer)
  BY <1>1, <1>2, TestSizes, PreviousProofs!RetrieveStep
<1>4. LucasKanadeTyped'
  <2>1. Pairs + 1 + 1 = Pairs + 2
    BY TestSizes
  <2> QED
    BY <1>3, <2>1
    DEF LucasKanadeInv, LucasKanadeTyped, PreviousProofs!TypeOK, PreviousProofs!Image,
        PreviousProofs!Holding
<1>5. LucasKanadePlace'
  BY <1>3 DEF LucasKanadeInv, LucasKanadePlace, LucasKanadeTest!strchr
<1>6. LucasKanadeBuffers'
  BY <1>3, TestHeap DEF LucasKanadeInv, LucasKanadeTyped, LucasKanadeBuffers
<1>7. LucasKanadePictures'
  BY <1>3, TestHeap
  DEF LucasKanadeInv, LucasKanadePlace, LucasKanadePictures, LucasKanadeTest!HasPrevious,
      LucasKanadeTest!HasCurrent, LucasKanadeTest!Retrieved, PreviousProofs!Image
<1> QED
  BY <1>4, <1>5, <1>6, <1>7 DEF LucasKanadeInv, LucasKanadeTest!LeftBehind

(* ... and into the other. *)
LEMMA LucasKanadeCurrentStep ==
  ASSUME LucasKanadeInv, at = "Second", LucasKanadeTest!Current!Step,
         UNCHANGED <<previous_image, at, features, data_ptr, line_ptr, start_row, end_row, index>>
  PROVE  LucasKanadeInv'
<1>1. CurrentProofs!Step /\ CurrentProofs!TypeOK
  <2>1. CurrentProofs!Step
    BY DEF LucasKanadeTest!Current!Step, LucasKanadeTest!Current!SizeFails,
         LucasKanadeTest!Current!Size, LucasKanadeTest!Current!AllocateFails,
         LucasKanadeTest!Current!Allocate, LucasKanadeTest!Current!ReadFails,
         LucasKanadeTest!Current!Read, LucasKanadeTest!Current!DecodeFails,
         LucasKanadeTest!Current!Decode, LucasKanadeTest!Current!Return,
         CurrentProofs!Step, CurrentProofs!SizeFails,
         CurrentProofs!Size, CurrentProofs!AllocateFails,
         CurrentProofs!Allocate, CurrentProofs!ReadFails,
         CurrentProofs!Read, CurrentProofs!DecodeFails,
         CurrentProofs!Decode, CurrentProofs!Return
  <2>2. Pairs + 1 + 1 = Pairs + 2
    BY TestSizes
  <2> QED
    BY <2>1, <2>2
    DEF LucasKanadeInv, LucasKanadeTyped, CurrentProofs!TypeOK, CurrentProofs!Image,
        CurrentProofs!Holding
<1>2. test_pc \in {"Read", "Decode"} => heap[file_content_buffer] = FileContent
  BY DEF LucasKanadeInv, LucasKanadeBuffers
<1>3. /\ CurrentProofs!TypeOK'
      /\ test_pc # "Idle" /\ UNCHANGED <<file_path, current_file_index>>
      /\ \A s \in Slot :
           heap[s] # Free /\ ~(test_pc \in {"Read", "Decode"} /\ s = file_content_buffer)
             => heap'[s] = heap[s]
      /\ test_pc' \in {"Read", "Decode"} =>
           /\ heap'[file_content_buffer'] = FileContent
           /\ \/ heap[file_content_buffer'] = Free
              \/ test_pc = "Read" /\ file_content_buffer' = file_content_buffer
      /\ test_pc' = "Idle" /\ test_returned' =>
           /\ current_image' \in Slot
           /\ heap[current_image'] = Free /\ heap'[current_image'] = file_path
      /\ \A s \in Slot : heap'[s] \in CurrentProofs!Image =>
           \/ heap'[s] = heap[s]
           \/ test_pc' = "Idle" /\ test_returned' /\ s = current_image'
      /\ \A s \in Slot : heap'[s] = FileContent =>
           \/ test_pc' \in {"Read", "Decode"} /\ s = file_content_buffer'
           \/ /\ heap[s] = FileContent
              /\ ~(test_pc \in {"Read", "Decode"} /\ s = file_content_buffer)
  BY <1>1, <1>2, TestSizes, CurrentProofs!RetrieveStep
<1>4. LucasKanadeTyped'
  <2>1. Pairs + 1 + 1 = Pairs + 2
    BY TestSizes
  <2> QED
    BY <1>3, <2>1
    DEF LucasKanadeInv, LucasKanadeTyped, CurrentProofs!TypeOK, CurrentProofs!Image,
        CurrentProofs!Holding
<1>5. LucasKanadePlace'
  BY <1>3 DEF LucasKanadeInv, LucasKanadePlace, LucasKanadeTest!strchr
<1>6. LucasKanadeBuffers'
  BY <1>3, TestHeap DEF LucasKanadeInv, LucasKanadeTyped, LucasKanadeBuffers
<1>7. LucasKanadePictures'
  <2>1. /\ previous_image \in Slot /\ heap[previous_image] = index
        /\ index \in 1 .. (Pairs + 1)
    BY TestSizes
    DEF LucasKanadeInv, LucasKanadeTyped, LucasKanadePlace, LucasKanadePictures,
        LucasKanadeTest!HasPrevious
  <2>2. heap'[previous_image] = index
    BY <1>2, <1>3, <2>1, TestHeap
  <2> QED
    BY <1>3, <2>1, <2>2, TestHeap
    DEF LucasKanadeInv, LucasKanadePlace, LucasKanadePictures,
        LucasKanadeTest!HasPrevious, LucasKanadeTest!HasCurrent,
        LucasKanadeTest!Retrieved, CurrentProofs!Image
<1> QED
  BY <1>4, <1>5, <1>6, <1>7 DEF LucasKanadeInv, LucasKanadeTest!LeftBehind

(* The answer to a call: on to the rows of a pair, or to the comparison.   *)
LEMMA LucasKanadeAnswerStep ==
  ASSUME LucasKanadeInv,
         \/ LucasKanadeTest!FirstFails \/ LucasKanadeTest!FirstRetrieved
         \/ LucasKanadeTest!SecondRetrieved
  PROVE  LucasKanadeInv'
<1>1. /\ UNCHANGED <<test_pc, file_path, current_file_index, heap, file_content_buffer,
                     test_returned, features, data_ptr, line_ptr, start_row, end_row,
                     previous_image, current_image>>
      /\ test_pc = "Idle"
      /\ \/ at = "First" /\ at' = "Done" /\ UNCHANGED index
            /\ ~LucasKanadeTest!Retrieved
         \/ at \in {"First", "Skip"} /\ at' = "Head" /\ UNCHANGED index
            /\ LucasKanadeTest!Retrieved
         \/ at = "Second" /\ at' = "Compare" /\ index' = index + 1
            /\ LucasKanadeTest!Retrieved
  BY DEF LucasKanadeTest!FirstFails, LucasKanadeTest!FirstRetrieved,
         LucasKanadeTest!SecondRetrieved, LucasKanadeTest!loaderVars,
         LucasKanadeTest!rows, LucasKanadeTest!Retrieved, LucasKanadeTest!NotRetrieved
<1>2. LucasKanadeTyped'
  BY <1>1, TestSizes DEF LucasKanadeInv, LucasKanadeTyped, LucasKanadePlace
<1>3. LucasKanadePlace'
  BY <1>1, TestSizes
  DEF LucasKanadeInv, LucasKanadeTyped, LucasKanadePlace, LucasKanadeTest!strchr
<1>4. LucasKanadeBuffers'
  BY <1>1 DEF LucasKanadeInv, LucasKanadeBuffers
<1>5. LucasKanadePictures'
  BY <1>1
  DEF LucasKanadeInv, LucasKanadeTyped, LucasKanadePictures, LucasKanadeTest!HasPrevious,
      LucasKanadeTest!HasCurrent, LucasKanadeTest!Retrieved
<1>6. LucasKanadeTest!LeftBehind'
  <2>1. CASE at = "First" /\ at' = "Done"
    <3>1. file_path = 1 /\ features \in Slot /\ heap[features] = FileContent
      BY <2>1 DEF LucasKanadeInv, LucasKanadePlace, LucasKanadeBuffers
    <3>2. ASSUME NEW s \in Slot, heap[s] \notin {Free, Damaged}
          PROVE  s = features
      BY <1>1, <2>1, <3>2, TestHeap
      DEF LucasKanadeInv, LucasKanadeTyped, LucasKanadeBuffers, LucasKanadePictures,
          LucasKanadeTest!HasPrevious, LucasKanadeTest!HasCurrent, LucasKanadeTest!Retrieved
    <3>3. LucasKanadeTest!Allocated = {features}
      BY <3>1, <3>2, TestHeap DEF LucasKanadeTest!Allocated
    <3>4. LucasKanadeTest!NotRetrieved
      BY <1>1, <2>1 DEF LucasKanadeTest!NotRetrieved, LucasKanadeTest!Retrieved
    <3> QED
      BY <1>1, <3>1, <3>3, <3>4
      DEF LucasKanadeTest!LeftBehind, LucasKanadeTest!Allocated, LucasKanadeTest!NotRetrieved
  <2>2. CASE at' # "Done"
    BY <2>2 DEF LucasKanadeTest!LeftBehind
  <2> QED
    BY <1>1, <2>1, <2>2
<1> QED
  BY <1>2, <1>3, <1>4, <1>5, <1>6 DEF LucasKanadeInv

(* There are two rows to read wherever there is one. *)
LEMMA LucasKanadeReadStep ==
  ASSUME LucasKanadeInv, LucasKanadeTest!ReadPair
  PROVE  LucasKanadeInv'
<1>1. /\ at = "Head" /\ index \in 1 .. (Pairs + 1)
      /\ data_ptr = 2 * index - 1 /\ line_ptr = LucasKanadeTest!strchr(data_ptr)
      /\ line_ptr # NULL
  BY DEF LucasKanadeTest!ReadPair, LucasKanadeInv, LucasKanadeTyped, LucasKanadePlace
<1>2. line_ptr = 2 * index - 1 /\ index <= Pairs
  <2>1. line_ptr = data_ptr /\ data_ptr <= 2 * Pairs
    BY <1>1 DEF LucasKanadeTest!strchr, LucasKanadeTest!LastRow
  <2> QED
    BY <1>1, <2>1, TestSizes
<1>3. LucasKanadeTest!strchr(line_ptr + 1) = 2 * index /\ 2 * index # NULL
  BY <1>1, <1>2, TestSizes DEF LucasKanadeTest!strchr, LucasKanadeTest!LastRow
<1>4. /\ at' = "CallCurrent" /\ start_row' = 2 * index - 1 /\ end_row' = 2 * index
      /\ data_ptr' = 2 * index /\ line_ptr' = 2 * index + 1
      /\ UNCHANGED <<test_pc, file_path, current_file_index, heap, file_content_buffer,
                     test_returned, features, index, previous_image, current_image>>
  BY <1>1, <1>2, <1>3 DEF LucasKanadeTest!ReadPair, LucasKanadeTest!loaderVars
<1>5. LucasKanadeTyped'
  BY <1>1, <1>2, <1>4, TestSizes DEF LucasKanadeInv, LucasKanadeTyped
<1>6. LucasKanadePlace'
  BY <1>1, <1>2, <1>4 DEF LucasKanadeInv, LucasKanadePlace
<1>7. LucasKanadeBuffers' /\ LucasKanadePictures'
  BY <1>1, <1>4
  DEF LucasKanadeInv, LucasKanadeBuffers, LucasKanadePictures,
      LucasKanadeTest!HasPrevious, LucasKanadeTest!HasCurrent, LucasKanadeTest!Retrieved
<1> QED
  BY <1>4, <1>5, <1>6, <1>7 DEF LucasKanadeInv, LucasKanadeTest!LeftBehind

(* The heap without one of its pictures. *)
LEMMA PictureFreed ==
  ASSUME LucasKanadeInv, NEW b \in Slot, heap[b] # FileContent,
         heap' = [heap EXCEPT ![b] = Free]
  PROVE  /\ heap' \in [Slot -> {Free, FileContent, Damaged} \cup 1 .. (Pairs + 1)]
         /\ heap'[b] = Free
         /\ \A s \in Slot \ {b} : heap'[s] = heap[s]
         /\ features \in Slot /\ heap[features] = FileContent => heap'[features] = FileContent
BY DEF LucasKanadeInv, LucasKanadeTyped

(* The second image of a pair is missing. *)
LEMMA LucasKanadeSkipPairsStep ==
  ASSUME LucasKanadeInv, LucasKanadeTest!SkipPairs
  PROVE  LucasKanadeInv'
<1>1. /\ at = "Second" /\ test_pc = "Idle" /\ index \in 1 .. Pairs
      /\ line_ptr = 2 * index + 1 /\ file_path = index + 1
      /\ previous_image \in Slot /\ heap[previous_image] = index
      /\ ~LucasKanadeTest!Retrieved
  BY TestSizes
  DEF LucasKanadeTest!SkipPairs, LucasKanadeTest!NotRetrieved, LucasKanadeTest!Retrieved,
      LucasKanadeInv, LucasKanadeTyped, LucasKanadePlace, LucasKanadePictures,
      LucasKanadeTest!HasPrevious
<1>2. /\ UNCHANGED <<test_pc, file_path, current_file_index, file_content_buffer,
                     test_returned, features, start_row, end_row, previous_image,
                     current_image>>
      /\ index' = index + 2
  BY DEF LucasKanadeTest!SkipPairs
<1>3. CASE LucasKanadeTest!strchr(line_ptr) = NULL
  <2>1. at' = "Fault" /\ UNCHANGED <<heap, data_ptr, line_ptr>>
    BY <1>3 DEF LucasKanadeTest!SkipPairs
  <2>2. index = Pairs
    BY <1>1, <1>3, TestSizes DEF LucasKanadeTest!strchr, LucasKanadeTest!LastRow
  <2>3. LucasKanadeTyped'
    BY <1>1, <1>2, <2>1, TestSizes DEF LucasKanadeInv, LucasKanadeTyped
  <2>4. LucasKanadePlace' /\ LucasKanadeBuffers' /\ LucasKanadePictures'
    BY <1>1, <1>2, <2>1, <2>2, TestSizes
    DEF LucasKanadeInv, LucasKanadePlace, LucasKanadeBuffers, LucasKanadePictures,
        LucasKanadeTest!LastImage, LucasKanadeTest!HasPrevious,
        LucasKanadeTest!HasCurrent, LucasKanadeTest!Retrieved
  <2> QED
    BY <2>1, <2>3, <2>4 DEF LucasKanadeInv, LucasKanadeTest!LeftBehind
<1>4. CASE LucasKanadeTest!strchr(line_ptr) # NULL
  <2>1. /\ at' = "CallSkip"
        /\ data_ptr' = 2 * index + 3 /\ line_ptr' = LucasKanadeTest!strchr(data_ptr')
        /\ heap' = [heap EXCEPT ![previous_image] = Free]
    BY <1>1, <1>4
    DEF LucasKanadeTest!SkipPairs, LucasKanadeTest!FreePrevious, LucasKanadeTest!strchr
  <2>2. index < Pairs
    BY <1>1, <1>4, TestSizes DEF LucasKanadeTest!strchr, LucasKanadeTest!LastRow
  <2>3. line_ptr' \in 1 .. (2 * Pairs + 1) \cup {NULL}
    BY <1>1, <2>1, <2>2, TestSizes DEF LucasKanadeTest!strchr, LucasKanadeTest!LastRow
  <2>4. heap[previous_image] # FileContent
    BY <1>1, TestSizes, TestHeap
  <2>5. /\ heap' \in [Slot -> {Free, FileContent, Damaged} \cup 1 .. (Pairs + 1)]
        /\ heap'[previous_image] = Free
        /\ \A s \in Slot \ {previous_image} : heap'[s] = heap[s]
        /\ features \in Slot /\ heap[features] = FileContent => heap'[features] = FileContent
    BY <1>1, <2>1, <2>4, PictureFreed
  <2>6. LucasKanadeTyped'
    BY <1>1, <1>2, <2>1, <2>2, <2>3, <2>5, TestSizes DEF LucasKanadeInv, LucasKanadeTyped
  <2>7. LucasKanadePlace'
    BY <1>1, <1>2, <2>1, <2>2, TestSizes DEF LucasKanadeInv, LucasKanadePlace
  <2>8. LucasKanadeBuffers' /\ LucasKanadePictures'
    BY <1>1, <1>2, <2>1, <2>5, TestHeap
    DEF LucasKanadeInv, LucasKanadeBuffers, LucasKanadePictures,
        LucasKanadeTest!HasPrevious, LucasKanadeTest!HasCurrent,
        LucasKanadeTest!Retrieved
  <2> QED
    BY <2>1, <2>6, <2>7, <2>8 DEF LucasKanadeInv, LucasKanadeTest!LeftBehind
<1> QED
  BY <1>3, <1>4

(* The first image of a pair is missing. *)
LEMMA LucasKanadeSkipPairStep ==
  ASSUME LucasKanadeInv, LucasKanadeTest!SkipPair
  PROVE  LucasKanadeInv'
<1>1. /\ at = "Skip" /\ test_pc = "Idle" /\ index \in 1 .. (Pairs + 1)
      /\ data_ptr = 2 * index - 1 /\ line_ptr = LucasKanadeTest!strchr(data_ptr)
      /\ file_path = index /\ ~LucasKanadeTest!Retrieved
  BY DEF LucasKanadeTest!SkipPair, LucasKanadeTest!NotRetrieved,
         LucasKanadeTest!Retrieved, LucasKanadeInv, LucasKanadeTyped, LucasKanadePlace
<1>2. UNCHANGED <<test_pc, file_path, current_file_index, heap, file_content_buffer,
                  test_returned, features, start_row, end_row, previous_image,
                  current_image>>
  BY DEF LucasKanadeTest!SkipPair, LucasKanadeTest!loaderVars
<1>3. CASE index = Pairs + 1
  <2>1. line_ptr = NULL
    BY <1>1, <1>3, TestSizes DEF LucasKanadeTest!strchr, LucasKanadeTest!LastRow
  <2>2. at' = "Fault" /\ UNCHANGED <<data_ptr, line_ptr, index>>
    BY <2>1 DEF LucasKanadeTest!SkipPair
  <2>3. LucasKanadeTyped' /\ LucasKanadePlace' /\ LucasKanadeBuffers'
    BY <1>1, <1>2, <1>3, <2>2
    DEF LucasKanadeInv, LucasKanadeTyped, LucasKanadePlace, LucasKanadeBuffers
  <2>4. LucasKanadePictures'
    <3>1. /\ ~LucasKanadeTest!HasPrevious /\ ~LucasKanadeTest!HasCurrent
          /\ ~LucasKanadeTest!HasPrevious' /\ ~LucasKanadeTest!HasCurrent'
      BY <1>1, <1>3, <2>2, TestSizes
      DEF LucasKanadeTest!HasPrevious, LucasKanadeTest!HasCurrent, LucasKanadeTest!LastImage
    <3> QED
      BY <1>1, <1>2, <3>1 DEF LucasKanadeInv, LucasKanadePictures
  <2> QED
    BY <2>2, <2>3, <2>4 DEF LucasKanadeInv, LucasKanadeTest!LeftBehind
<1>4. CASE index # Pairs + 1
  <2>1. index \in 1 .. Pairs /\ line_ptr = 2 * index - 1
    <3>1. index \in 1 .. Pairs
      BY <1>1, <1>4, TestSizes
    <3>2. data_ptr <= 2 * Pairs
      BY <1>1, <3>1, TestSizes
    <3> QED
      BY <1>1, <3>1, <3>2 DEF LucasKanadeTest!strchr, LucasKanadeTest!LastRow
  <2>2. LucasKanadeTest!strchr(line_ptr + 1) = 2 * index /\ line_ptr # NULL /\ 2 * index # NULL
    <3>1. line_ptr + 1 = 2 * index /\ line_ptr + 1 <= 2 * Pairs /\ line_ptr \in Nat
      BY <2>1, TestSizes
    <3> QED
      BY <2>1, <3>1, TestSizes DEF LucasKanadeTest!strchr, LucasKanadeTest!LastRow
  <2>3. /\ at' = "CallSkip" /\ data_ptr' = 2 * index + 1
        /\ line_ptr' = LucasKanadeTest!strchr(data_ptr') /\ index' = index + 1
    BY <2>2 DEF LucasKanadeTest!SkipPair
  <2>4. line_ptr' \in 1 .. (2 * Pairs + 1) \cup {NULL}
    BY <2>1, <2>3, TestSizes DEF LucasKanadeTest!strchr, LucasKanadeTest!LastRow
  <2>5. LucasKanadeTyped'
    BY <1>1, <1>2, <2>1, <2>3, <2>4, TestSizes DEF LucasKanadeInv, LucasKanadeTyped
  <2>6. LucasKanadePlace'
    BY <1>1, <1>2, <2>1, <2>3, TestSizes DEF LucasKanadeInv, LucasKanadePlace
  <2>7. LucasKanadeBuffers' /\ LucasKanadePictures'
    BY <1>1, <1>2, <2>3
    DEF LucasKanadeInv, LucasKanadeBuffers, LucasKanadePictures,
        LucasKanadeTest!HasPrevious, LucasKanadeTest!HasCurrent,
        LucasKanadeTest!Retrieved
  <2> QED
    BY <2>3, <2>5, <2>6, <2>7 DEF LucasKanadeInv, LucasKanadeTest!LeftBehind
<1> QED
  BY <1>3, <1>4

(* The current image becomes the previous one, which is freed. *)
LEMMA LucasKanadeCompareStep ==
  ASSUME LucasKanadeInv, LucasKanadeTest!Compare
  PROVE  LucasKanadeInv'
<1>1. /\ at = "Compare" /\ test_pc = "Idle" /\ index \in 2 .. (Pairs + 1)
      /\ line_ptr = 2 * index - 1
      /\ previous_image \in Slot /\ heap[previous_image] = index - 1
      /\ current_image \in Slot /\ heap[current_image] = index
  BY DEF LucasKanadeTest!Compare, LucasKanadeInv, LucasKanadeTyped, LucasKanadePlace,
         LucasKanadePictures, LucasKanadeTest!HasPrevious, LucasKanadeTest!HasCurrent
<1>2. /\ at' = "Head" /\ data_ptr' = line_ptr
      /\ line_ptr' = LucasKanadeTest!strchr(data_ptr')
      /\ heap' = [heap EXCEPT ![previous_image] = Free]
      /\ previous_image' = current_image
      /\ UNCHANGED <<test_pc, file_path, current_file_index, file_content_buffer,
                     test_returned, features, start_row, end_row, index, current_image>>
  BY DEF LucasKanadeTest!Compare, LucasKanadeTest!FreePrevious
<1>3. heap[previous_image] # FileContent /\ current_image # previous_image
  BY <1>1, TestSizes, TestHeap
<1>4. /\ heap' \in [Slot -> {Free, FileContent, Damaged} \cup 1 .. (Pairs + 1)]
      /\ heap'[previous_image] = Free
      /\ \A s \in Slot \ {previous_image} : heap'[s] = heap[s]
      /\ features \in Slot /\ heap[features] = FileContent => heap'[features] = FileContent
  BY <1>1, <1>2, <1>3, PictureFreed
<1>5. line_ptr' \in 1 .. (2 * Pairs + 1) \cup {NULL}
  BY <1>1, <1>2, TestSizes DEF LucasKanadeTest!strchr, LucasKanadeTest!LastRow
<1>6. LucasKanadeTyped'
  BY <1>1, <1>2, <1>4, <1>5, TestSizes DEF LucasKanadeInv, LucasKanadeTyped
<1>7. LucasKanadePlace'
  BY <1>1, <1>2, TestSizes DEF LucasKanadeInv, LucasKanadePlace
<1>8. LucasKanadeBuffers' /\ LucasKanadePictures'
  BY <1>1, <1>2, <1>3, <1>4, TestHeap
  DEF LucasKanadeInv, LucasKanadeBuffers, LucasKanadePictures,
      LucasKanadeTest!HasPrevious, LucasKanadeTest!HasCurrent, LucasKanadeTest!Retrieved
<1> QED
  BY <1>2, <1>6, <1>7, <1>8 DEF LucasKanadeInv, LucasKanadeTest!LeftBehind

(* The references are freed; the last picture is not.                      *)
LEMMA LucasKanadeFinishStep ==
  ASSUME LucasKanadeInv, LucasKanadeTest!Finish
  PROVE  LucasKanadeInv'
<1>1. /\ at = "Head" /\ at' = "Done" /\ test_pc = "Idle"
      /\ features \in Slot /\ heap' = [heap EXCEPT ![features] = Free]
      /\ UNCHANGED <<test_pc, file_path, current_file_index, file_content_buffer,
                     test_returned, features, data_ptr, line_ptr, start_row, end_row, index,
                     previous_image, current_image>>
  BY DEF LucasKanadeTest!Finish, LucasKanadeTest!rows, LucasKanadeInv, LucasKanadePlace,
         LucasKanadeBuffers
<1>2. /\ heap' \in [Slot -> {Free, FileContent, Damaged} \cup 1 .. (Pairs + 1)]
      /\ \A s \in Slot : heap'[s] = heap[s] \/ heap'[s] = Free
  BY <1>1 DEF LucasKanadeInv, LucasKanadeTyped
<1>3. LucasKanadeTyped'
  BY <1>1, <1>2 DEF LucasKanadeInv, LucasKanadeTyped
<1>4. LucasKanadePlace' /\ LucasKanadeBuffers'
  BY <1>1 DEF LucasKanadePlace, LucasKanadeBuffers
<1>5. LucasKanadePictures'
  BY <1>1, <1>2, TestHeap
  DEF LucasKanadeInv, LucasKanadePictures, LucasKanadeTest!HasPrevious,
      LucasKanadeTest!HasCurrent
<1>6. previous_image \in Slot /\ heap[previous_image] = Pairs + 1
  <2>1. /\ index \in 1 .. (Pairs + 1) /\ data_ptr = 2 * index - 1
        /\ LucasKanadeTest!strchr(data_ptr) = NULL
        /\ previous_image \in Slot /\ heap[previous_image] = index
    BY <1>1
    DEF LucasKanadeTest!Finish, LucasKanadeInv, LucasKanadeTyped, LucasKanadePlace,
        LucasKanadePictures, LucasKanadeTest!HasPrevious
  <2> QED
    BY <2>1, TestSizes DEF LucasKanadeTest!strchr, LucasKanadeTest!LastRow
<1>7. LucasKanadeTest!LeftBehind'
  <2>1. heap'[previous_image] = Pairs + 1 /\ heap'[features] = Free
    BY <1>1, <1>6, TestHeap, TestSizes
    DEF LucasKanadeInv, LucasKanadeTyped, LucasKanadeBuffers
  <2>2. ASSUME NEW s \in Slot, heap'[s] \notin {Free, Damaged}
        PROVE  s = previous_image
    <3>1. heap[s] = heap'[s] /\ s # features
      BY <1>2, <2>1, <2>2
    <3> QED
      BY <1>1, <2>2, <3>1, TestHeap
      DEF LucasKanadeInv, LucasKanadeTyped, LucasKanadeBuffers, LucasKanadePictures,
          LucasKanadeTest!HasCurrent
  <2>3. LucasKanadeTest!Allocated' = {previous_image}
    BY <1>6, <2>1, <2>2, TestSizes, LoaderAssumption
    DEF LucasKanadeTest!Allocated, Loader!HeapAssumption
  <2> QED
    BY <1>1, <2>1, <2>3 DEF LucasKanadeTest!LeftBehind, LucasKanadeTest!LastImage
<1> QED
  BY <1>3, <1>4, <1>5, <1>7 DEF LucasKanadeInv

LEMMA LucasKanadeStep ==
  ASSUME LucasKanadeInv, LucasKanadeTest!Next
  PROVE  LucasKanadeInv'
<1>1. CASE LucasKanadeTest!InRetrieve
  BY <1>1, LucasKanadePreviousStep, LucasKanadeCurrentStep
  DEF LucasKanadeTest!InRetrieve, LucasKanadeTest!rows
<1> QED
  BY <1>1, LucasKanadeBeginStep, LucasKanadeCallStep, LucasKanadeAnswerStep,
     LucasKanadeReadStep, LucasKanadeSkipPairsStep, LucasKanadeSkipPairStep,
     LucasKanadeCompareStep, LucasKanadeFinishStep
  DEF LucasKanadeTest!Next

-----------------------------------------------------------------------------
(* The FAST test.  The loader's count of images and the position in the    *)
(* references, in step.                                                    *)
FastTyped ==
  /\ test_pc \in {"Idle", "Size", "Allocate", "Read", "Decode"}
  /\ file_path \in 1 .. (Lines + 1)
  /\ current_file_index \in 1 .. (Lines + 2)
  /\ heap \in [Slot -> {Free, FileContent, Damaged} \cup 1 .. (Lines + 1)]
  /\ file_content_buffer \in Slot \cup {NULL}
  /\ test_pc \in {"Read", "Decode"} => file_content_buffer \in Slot
  /\ image_heap \in Slot \cup {NULL}
  /\ test_returned \in BOOLEAN
  /\ references \in BOOLEAN
  /\ at \in {"Begin", "Head", "Retrieve", "Compare", "Done"}
  /\ features \in Slot \cup {NULL}
  /\ data_ptr \in 1 .. (Lines + 1)
  /\ line_ptr \in 1 .. Lines \cup {NULL}
  /\ image_data_buffer \in 0 .. (Lines + 1)

FastPlace ==
  /\ at # "Retrieve" => test_pc = "Idle"
  /\ at = "Retrieve" => file_path = current_file_index - 1
  /\ references /\ at \in {"Begin", "Head"} =>
       data_ptr = current_file_index /\ line_ptr = FastTest!strchr(data_ptr)
  /\ references /\ at \in {"Retrieve", "Compare"} =>
       /\ data_ptr = current_file_index - 1
       /\ line_ptr = data_ptr /\ data_ptr <= Lines
  /\ references /\ at = "Compare" => image_data_buffer = data_ptr
  /\ at = "Begin" => references

FastBuffers ==
  /\ ~references \/ at = "Begin" => features = NULL
  /\ references /\ at \notin {"Begin", "Done"} =>
       features \in Slot /\ heap[features] = FileContent
  /\ test_pc \in {"Read", "Decode"} =>
       heap[file_content_buffer] = FileContent /\ file_content_buffer # features
  /\ \A s \in Slot : heap[s] = FileContent =>
       \/ at # "Done" /\ s = features
       \/ test_pc \in {"Read", "Decode"} /\ s = file_content_buffer

FastPictures ==
  /\ FastTest!HasPicture => image_heap \in Slot /\ heap[image_heap] = file_path
  /\ \A s \in Slot : heap[s] \in FastTest!Image => FastTest!HasPicture /\ s = image_heap

FastInv == FastTyped /\ FastPlace /\ FastBuffers /\ FastPictures

PictureProofs == INSTANCE DatasetLoaderProofs WITH
  pc <- test_pc, returned <- test_returned, image_data <- image_heap,
  LastImage <- Lines + 1

LEMMA FastSizes ==
  /\ PictureProofs!SizeAssumption /\ PictureProofs!HeapAssumption
  /\ Lines \in Nat \ {0} /\ NULL \notin Nat /\ NULL \notin Slot
BY LoaderAssumption, TestsAssumption
DEF Loader!HeapAssumption, FastTest!LinesAssumption, PictureProofs!SizeAssumption,
    PictureProofs!HeapAssumption

LEMMA FastHeap ==
  /\ Free \notin FastTest!Image /\ FileContent \notin FastTest!Image
  /\ Damaged \notin FastTest!Image
  /\ Free # FileContent /\ Free # Damaged /\ FileContent # Damaged
  /\ FastTest!Image = 1 .. (Lines + 1)
BY LoaderAssumption DEF Loader!HeapAssumption, FastTest!Image, FastTest!LastImage

LEMMA FastGoals ==
  ASSUME FastInv
  PROVE  FastTest!TypeOK /\ FastTest!LineMatchesImage /\ FastTest!AllocatedIsInUse
<1>1. FastTest!TypeOK
  <2>1. Lines + 1 + 1 = Lines + 2
    BY FastSizes
  <2> QED
    BY <2>1
    DEF FastInv, FastTyped, FastTest!TypeOK, FastTest!Loader!TypeOK,
        FastTest!Loader!Image, FastTest!Loader!Holding, FastTest!LastImage
<1>2. FastTest!LineMatchesImage
  BY DEF FastInv, FastPlace, FastTest!LineMatchesImage
<1>3. FastTest!AllocatedIsInUse
  <2>1. ASSUME NEW s \in Slot, heap[s] \notin {Free, Damaged}
        PROVE  s \in FastTest!InUse
    <3>1. heap[s] = FileContent \/ heap[s] \in FastTest!Image
      BY <2>1, FastHeap DEF FastInv, FastTyped
    <3> QED
      BY <3>1 DEF FastInv, FastBuffers, FastPictures, FastTest!InUse
  <2>2. ASSUME NEW s \in FastTest!InUse
        PROVE  heap[s] \notin {Free, Damaged}
    <3>1. heap[s] = FileContent \/ heap[s] = file_path
      BY FastSizes DEF FastInv, FastBuffers, FastPictures, FastTest!InUse
    <3> QED
      BY <3>1, FastHeap DEF FastInv, FastTyped
  <2>3. at = "Done" => FastTest!InUse = {}
    BY DEF FastInv, FastPlace, FastTest!InUse, FastTest!HasPicture
  <2> QED
    BY <2>1, <2>2, <2>3
    DEF FastInv, FastPictures, FastTest!AllocatedIsInUse, FastTest!Allocated,
        FastTest!InUse
<1> QED
  BY <1>1, <1>2, <1>3

LEMMA FastInit ==
  ASSUME FastTest!Init
  PROVE  FastInv
<1>1. /\ test_pc = "Idle" /\ file_path = 1 /\ current_file_index = 1
      /\ heap = [s \in Slot |-> Free]
      /\ file_content_buffer = NULL /\ image_heap = NULL
      /\ test_returned = FALSE /\ references \in BOOLEAN
      /\ at = IF references THEN "Begin" ELSE "Head"
      /\ features = NULL /\ data_ptr = 1 /\ image_data_buffer = 0
      /\ line_ptr = 1 /\ line_ptr = FastTest!strchr(data_ptr)
  BY FastSizes DEF FastTest!Init, FastTest!Loader!Init, FastTest!strchr
<1>2. FastTyped
  <2>1. heap \in [Slot -> {Free, FileContent, Damaged} \cup 1 .. (Lines + 1)]
    BY <1>1
  <2>2. /\ 1 \in 1 .. (Lines + 1) /\ 1 \in 1 .. (Lines + 2)
        /\ 1 \in 1 .. Lines /\ 0 \in 0 .. (Lines + 1)
    BY FastSizes
  <2> QED
    BY <1>1, <2>1, <2>2 DEF FastTyped
<1>3. FastPlace /\ FastBuffers /\ FastPictures
  BY <1>1, FastHeap DEF FastPlace, FastBuffers, FastPictures, FastTest!HasPicture
<1> QED
  BY <1>2, <1>3 DEF FastInv

LEMMA FastBeginStep ==
  ASSUME FastInv, FastTest!BeginFails \/ FastTest!Begin
  PROVE  FastInv'
<1>1. /\ at = "Begin" /\ at' \in {"Done", "Head"} /\ references /\ features = NULL
      /\ UNCHANGED <<test_pc, file_path, current_file_index, file_content_buffer,
                     test_returned, image_heap, references, data_ptr, line_ptr,
                     image_data_buffer>>
      /\ \/ at' = "Done" /\ UNCHANGED <<heap, features>>
         \/ at' = "Head" /\ \E s \in Slot :
              /\ heap' = [heap EXCEPT ![s] = FileContent]
              /\ features' = s
  BY DEF FastTest!BeginFails, FastTest!Begin, FastTest!loaderVars, FastInv, FastPlace,
         FastBuffers
<1>2. /\ heap' \in [Slot -> {Free, FileContent, Damaged} \cup 1 .. (Lines + 1)]
      /\ features' \in Slot \cup {NULL}
      /\ at' = "Done" => features' = NULL
      /\ at' = "Head" => features' \in Slot /\ heap'[features'] = FileContent
      /\ \A s \in Slot : heap'[s] = heap[s] \/ heap'[s] = FileContent
  BY <1>1 DEF FastInv, FastTyped
<1>3. FastTyped'
  BY <1>1, <1>2 DEF FastInv, FastTyped
<1>4. FastPlace'
  BY <1>1 DEF FastInv, FastPlace, FastTest!strchr
<1>5. FastBuffers' /\ FastPictures'
  BY <1>1, <1>2, FastHeap, FastSizes
  DEF FastInv, FastPlace, FastBuffers, FastPictures, FastTest!HasPicture, FastTest!Image,
      FastTest!LastImage
<1> QED
  BY <1>3, <1>4, <1>5 DEF FastInv

(* The next image is that of the line the test is at. *)
LEMMA FastCallStep ==
  ASSUME FastInv, FastTest!Call
  PROVE  FastInv'
<1>1. /\ at = "Head" /\ at' = "Retrieve" /\ test_pc = "Idle" /\ test_pc' = "Size"
      /\ references => line_ptr # NULL
      /\ file_path' = current_file_index /\ current_file_index' = current_file_index + 1
      /\ current_file_index \in 1 .. (Lines + 1)
      /\ UNCHANGED <<heap, file_content_buffer, test_returned, image_heap, references,
                     features, data_ptr, line_ptr, image_data_buffer>>
  BY FastSizes
  DEF FastTest!Call, FastTest!Loader!retrieve_image, FastTest!Loader!Named, FastInv,
      FastTyped, FastTest!LastImage
<1>2. FastTyped'
  BY <1>1, FastSizes DEF FastInv, FastTyped
<1>3. FastPlace'
  BY <1>1, FastSizes DEF FastInv, FastTyped, FastPlace, FastTest!strchr
<1>4. FastBuffers' /\ FastPictures'
  BY <1>1 DEF FastInv, FastBuffers, FastPictures, FastTest!HasPicture
<1> QED
  BY <1>2, <1>3, <1>4 DEF FastInv

LEMMA FastRetrieveStep ==
  ASSUME FastInv, FastTest!InRetrieve
  PROVE  FastInv'
<1>1. /\ at = "Retrieve" /\ FastTest!Loader!Step
      /\ UNCHANGED <<references, at, features, data_ptr, line_ptr, image_data_buffer>>
  BY DEF FastTest!InRetrieve
<1>2. PictureProofs!Step /\ PictureProofs!TypeOK
  <2>1. PictureProofs!Step
    BY <1>1
    DEF FastTest!Loader!Step, FastTest!Loader!SizeFails,
        FastTest!Loader!Size, FastTest!Loader!AllocateFails,
        FastTest!Loader!Allocate, FastTest!Loader!ReadFails,
        FastTest!Loader!Read, FastTest!Loader!DecodeFails,
        FastTest!Loader!Decode, FastTest!Loader!Return,
        PictureProofs!Step, PictureProofs!SizeFails,
        PictureProofs!Size, PictureProofs!AllocateFails,
        PictureProofs!Allocate, PictureProofs!ReadFails,
        PictureProofs!Read, PictureProofs!DecodeFails,
        PictureProofs!Decode, PictureProofs!Return
  <2>2. Lines + 1 + 1 = Lines + 2
    BY FastSizes
  <2> QED
    BY <2>1, <2>2
    DEF FastInv, FastTyped, PictureProofs!TypeOK, PictureProofs!Image,
        PictureProofs!Holding
<1>3. test_pc \in {"Read", "Decode"} => heap[file_content_buffer] = FileContent
  BY DEF FastInv, FastBuffers
<1>4. /\ PictureProofs!TypeOK'
      /\ test_pc # "Idle" /\ UNCHANGED <<file_path, current_file_index>>
      /\ \A s \in Slot :
           heap[s] # Free /\ ~(test_pc \in {"Read", "Decode"} /\ s = file_content_buffer)
             => heap'[s] = heap[s]
      /\ test_pc' \in {"Read", "Decode"} =>
           /\ heap'[file_content_buffer'] = FileContent
           /\ \/ heap[file_content_buffer'] = Free
              \/ test_pc = "Read" /\ file_content_buffer' = file_content_buffer
      /\ test_pc' = "Idle" /\ test_returned' =>
           /\ image_heap' \in Slot
           /\ heap[image_heap'] = Free /\ heap'[image_heap'] = file_path
      /\ \A s \in Slot : heap'[s] \in PictureProofs!Image =>
           \/ heap'[s] = heap[s]
           \/ test_pc' = "Idle" /\ test_returned' /\ s = image_heap'
      /\ \A s \in Slot : heap'[s] = FileContent =>
           \/ test_pc' \in {"Read", "Decode"} /\ s = file_content_buffer'
           \/ /\ heap[s] = FileContent
              /\ ~(test_pc \in {"Read", "Decode"} /\ s = file_content_buffer)
  BY <1>2, <1>3, FastSizes, PictureProofs!RetrieveStep
<1>5. FastTyped'
  <2>1. Lines + 1 + 1 = Lines + 2
    BY FastSizes
  <2> QED
    BY <1>1, <1>4, <2>1
    DEF FastInv, FastTyped, PictureProofs!TypeOK, PictureProofs!Image,
        PictureProofs!Holding
<1>6. FastPlace'
  BY <1>1, <1>4 DEF FastInv, FastPlace, FastTest!strchr
<1>7. FastBuffers'
  BY <1>1, <1>4, <1>5, FastHeap, FastSizes DEF FastInv, FastTyped, FastBuffers
<1>8. FastPictures'
  BY <1>1, <1>4, FastHeap
  DEF FastInv, FastPlace, FastPictures, FastTest!HasPicture, PictureProofs!Image
<1> QED
  BY <1>5, <1>6, <1>7, <1>8 DEF FastInv

(* The line of an image is passed when the image could not be retrieved ... *)
LEMMA FastNotRetrievedStep ==
  ASSUME FastInv, FastTest!NotRetrieved
  PROVE  FastInv'
<1>1. /\ at = "Retrieve" /\ test_pc = "Idle" /\ ~test_returned
      /\ UNCHANGED <<test_pc, file_path, current_file_index, heap, file_content_buffer,
                     test_returned, image_heap, references, features, image_data_buffer>>
      /\ \/ /\ references /\ at' = "Head"
            /\ data_ptr' = line_ptr + 1 /\ line_ptr' = FastTest!strchr(data_ptr')
         \/ ~references /\ at' = "Done" /\ UNCHANGED <<data_ptr, line_ptr>>
  BY DEF FastTest!NotRetrieved, FastTest!loaderVars, FastTest!strchr
<1>2. /\ data_ptr' \in 1 .. (Lines + 1) /\ line_ptr' \in 1 .. Lines \cup {NULL}
      /\ references => data_ptr' = current_file_index
  BY <1>1, FastSizes DEF FastInv, FastTyped, FastPlace, FastTest!strchr
<1>3. FastTyped'
  BY <1>1, <1>2 DEF FastInv, FastTyped
<1>4. FastPlace'
  BY <1>1, <1>2 DEF FastInv, FastPlace, FastTest!strchr
<1>5. FastBuffers' /\ FastPictures'
  BY <1>1, FastSizes
  DEF FastInv, FastTyped, FastBuffers, FastPictures, FastTest!HasPicture
<1> QED
  BY <1>3, <1>4, <1>5 DEF FastInv

LEMMA FastCopiedStep ==
  ASSUME FastInv, FastTest!Copied
  PROVE  FastInv'
<1>1. /\ FastTest!HasPicture /\ image_heap \in Slot /\ heap[image_heap] = file_path
      /\ file_path \in FastTest!Image
      /\ at = "Retrieve" /\ at' = "Compare" /\ test_pc = "Idle"
      /\ image_data_buffer' = file_path
      /\ heap' = [heap EXCEPT ![image_heap] = Free]
      /\ UNCHANGED <<test_pc, file_path, current_file_index, file_content_buffer,
                     test_returned, image_heap, references, features, data_ptr, line_ptr>>
  BY FastHeap
  DEF FastTest!Copied, FastInv, FastTyped, FastPictures, FastTest!HasPicture
<1>2. /\ heap' \in [Slot -> {Free, FileContent, Damaged} \cup 1 .. (Lines + 1)]
      /\ heap'[image_heap] = Free
      /\ \A s \in Slot \ {image_heap} : heap'[s] = heap[s]
  BY <1>1 DEF FastInv, FastTyped
<1>3. FastTyped'
  BY <1>1, <1>2, FastSizes DEF FastInv, FastTyped
<1>4. FastPlace'
  BY <1>1 DEF FastInv, FastPlace
<1>5. FastBuffers' /\ FastPictures'
  BY <1>1, <1>2, FastHeap
  DEF FastInv, FastTyped, FastBuffers, FastPictures, FastTest!HasPicture
<1> QED
  BY <1>3, <1>4, <1>5 DEF FastInv

(* ... and when its features were compared. *)
LEMMA FastCompareStep ==
  ASSUME FastInv, FastTest!Compare
  PROVE  FastInv'
<1>1. /\ at = "Compare" /\ at' = "Head" /\ test_pc = "Idle"
      /\ UNCHANGED <<test_pc, file_path, current_file_index, heap, file_content_buffer,
                     test_returned, image_heap, references, features, image_data_buffer>>
      /\ \/ /\ references
            /\ data_ptr' = line_ptr + 1 /\ line_ptr' = FastTest!strchr(data_ptr')
         \/ ~references /\ UNCHANGED <<data_ptr, line_ptr>>
  BY DEF FastTest!Compare, FastTest!loaderVars, FastTest!strchr, FastInv, FastPlace
<1>2. /\ data_ptr' \in 1 .. (Lines + 1) /\ line_ptr' \in 1 .. Lines \cup {NULL}
      /\ references => data_ptr' = current_file_index
  BY <1>1, FastSizes DEF FastInv, FastTyped, FastPlace, FastTest!strchr
<1>3. FastTyped'
  BY <1>1, <1>2 DEF FastInv, FastTyped
<1>4. FastPlace'
  BY <1>1, <1>2 DEF FastInv, FastPlace, FastTest!strchr
<1>5. FastBuffers' /\ FastPictures'
  BY <1>1 DEF FastInv, FastBuffers, FastPictures, FastTest!HasPicture
<1> QED
  BY <1>3, <1>4, <1>5 DEF FastInv

LEMMA FastFinishStep ==
  ASSUME FastInv, FastTest!Finish
  PROVE  FastInv'
<1>1. /\ at = "Head" /\ at' = "Done" /\ references /\ test_pc = "Idle"
      /\ features \in Slot /\ heap' = [heap EXCEPT ![features] = Free]
      /\ UNCHANGED <<test_pc, file_path, current_file_index, file_content_buffer,
                     test_returned, image_heap, references, features, data_ptr, line_ptr,
                     image_data_buffer>>
  BY DEF FastTest!Finish, FastInv, FastPlace, FastBuffers
<1>2. /\ heap' \in [Slot -> {Free, FileContent, Damaged} \cup 1 .. (Lines + 1)]
      /\ heap'[features] = Free
      /\ \A s \in Slot : heap'[s] = heap[s] \/ heap'[s] = Free
  BY <1>1 DEF FastInv, FastTyped
<1>3. FastTyped' /\ FastPlace'
  BY <1>1, <1>2 DEF FastInv, FastTyped, FastPlace
<1>4. FastBuffers' /\ FastPictures'
  BY <1>1, <1>2, FastHeap DEF FastInv, FastBuffers, FastPictures, FastTest!HasPicture
<1> QED
  BY <1>3, <1>4 DEF FastInv

LEMMA FastStep ==
  ASSUME FastInv, FastTest!Next
  PROVE  FastInv'
BY FastBeginStep, FastCallStep, FastRetrieveStep, FastNotRetrievedStep, FastCopiedStep,
   FastCompareStep, FastFinishStep
DEF FastTest!Next

-----------------------------------------------------------------------------
(* The four programs.  The one that runs keeps its invariant, and the      *)
(* others are where they began. *)
DatasetsInv ==
  /\ program \in {"file_system", "loader", "test_lucas_kanade", "test_fast"}
  /\ FileSystemInv /\ LoaderProofs!IInv
  /\ program = "test_lucas_kanade" => LucasKanadeInv
  /\ program = "test_fast" => FastInv

LEMMA DatasetsInvHolds == DatasetsSpec => []DatasetsInv
<1>1. DatasetsInit => DatasetsInv
  BY FileSystemInit, LoaderInit, LucasKanadeInit, FastInit DEF DatasetsInit, DatasetsInv
<1>2. DatasetsInv /\ [DatasetsNext]_datasetsVars => DatasetsInv'
  <2> SUFFICES ASSUME DatasetsInv, [DatasetsNext]_datasetsVars
               PROVE  DatasetsInv'
    OBVIOUS
  <2>1. program' = program
    BY DEF DatasetsNext, RunFileSystem, RunLoader, RunLucasKanadeTest, RunFastTest,
           datasetsVars
  <2>2. FileSystemInv'
    <3>1. Next \/ UNCHANGED vars
      BY DEF DatasetsNext, RunFileSystem, RunLoader, RunLucasKanadeTest, RunFastTest,
             datasetsVars
    <3> QED
      BY <3>1, FileSystemStep DEF DatasetsInv
  <2>3. LoaderProofs!IInv'
    <3>1. Loader!Next \/ UNCHANGED loaderVars
      BY DEF DatasetsNext, RunFileSystem, RunLoader, RunLucasKanadeTest, RunFastTest,
             datasetsVars
    <3> QED
      BY <3>1, LoaderStep DEF DatasetsInv
  <2>4. ASSUME program = "test_lucas_kanade"
        PROVE  LucasKanadeInv'
    <3>1. LucasKanadeTest!Next \/ UNCHANGED <<testVars, lucasKanadeVars>>
      BY <2>4
      DEF DatasetsNext, RunFileSystem, RunLoader, RunLucasKanadeTest, RunFastTest,
          datasetsVars
    <3>2. CASE UNCHANGED <<testVars, lucasKanadeVars>>
      BY <2>4, <3>2
      DEF testVars, lucasKanadeVars, DatasetsInv, LucasKanadeInv, LucasKanadeTyped,
          LucasKanadePlace, LucasKanadeBuffers, LucasKanadePictures,
          LucasKanadeTest!HasPrevious, LucasKanadeTest!HasCurrent,
          LucasKanadeTest!Retrieved, LucasKanadeTest!strchr, LucasKanadeTest!LeftBehind,
          LucasKanadeTest!NotRetrieved, LucasKanadeTest!Allocated
    <3> QED
      BY <2>4, <3>1, <3>2, LucasKanadeStep DEF DatasetsInv
  <2>5. ASSUME program = "test_fast"
        PROVE  FastInv'
    <3>1. FastTest!Next \/ UNCHANGED <<testVars, fastVars>>
      BY <2>5
      DEF DatasetsNext, RunFileSystem, RunLoader, RunLucasKanadeTest, RunFastTest,
          datasetsVars
    <3>2. CASE UNCHANGED <<testVars, fastVars>>
      BY <2>5, <3>2
      DEF testVars, fastVars, DatasetsInv, FastInv, FastTyped, FastPlace, FastBuffers,
          FastPictures, FastTest!HasPicture, FastTest!strchr
    <3> QED
      BY <2>5, <3>1, <3>2, FastStep DEF DatasetsInv
  <2> QED
    BY <2>1, <2>2, <2>3, <2>4, <2>5 DEF DatasetsInv
<1> QED
  BY <1>1, <1>2, PTL DEF DatasetsSpec

(* Every index is that of an image or a line, and every pointer is NULL or *)
(* into the heap.                                                          *)
THEOREM AllInRange == DatasetsSpec => []PointersInRange
<1>1. DatasetsInv => PointersInRange
  BY LoaderGoals, LucasKanadeGoals, FastGoals
  DEF DatasetsInv, FileSystemInv, PointersInRange
<1> QED
  BY <1>1, DatasetsInvHolds, PTL

(* Whichever FatFs call fails, a mounted volume has its card, the current  *)
(* directory is where the last cd went, and no file is left open.          *)
THEOREM VolumeStaysInOrder == DatasetsSpec => []VolumeInOrder
<1>1. DatasetsInv => VolumeInOrder
  BY DEF DatasetsInv, FileSystemInv
<1> QED
  BY <1>1, DatasetsInvHolds, PTL

(* Whichever call fails, what is on the heap is what the program that runs *)
(* still uses, except for the pixels of a damaged file; but the            *)
(* Lucas-Kanade test leaves the references behind when the first image is  *)
(* missing and the last picture when it is through, and nothing else.      *)
THEOREM MemoryStaysAccountedFor == DatasetsSpec => []MemoryIsAccountedFor
<1>1. DatasetsInv => MemoryIsAccountedFor
  BY LoaderGoals, LucasKanadeGoals, FastGoals DEF DatasetsInv, MemoryIsAccountedFor
<1> QED
  BY <1>1, DatasetsInvHolds, PTL

(* The Lucas-Kanade test compares what was tracked between two images with *)
(* the two rows of that pair, whichever images are missing, and only runs  *)
(* off the references when the last image is.                              *)
THEOREM RowsKeepUp == DatasetsSpec => []RowsMatchImages
<1>1. DatasetsInv => RowsMatchImages
  BY LucasKanadeGoals DEF DatasetsInv, RowsMatchImages
<1> QED
  BY <1>1, DatasetsInvHolds, PTL

(* The FAST test compares the features of an image with the line of that   *)
(* image, whichever images are missing.                                    *)
THEOREM LinesKeepUp == DatasetsSpec => []LineMatchesImage
<1>1. DatasetsInv => LineMatchesImage
  BY FastGoals DEF DatasetsInv, LineMatchesImage
<1> QED
  BY <1>1, DatasetsInvHolds, PTL

(* The dataset loader, as the run has it beside the others, implements the *)
(* abstract source of images step by step.                                 *)
THEOREM LoaderIsSource == DatasetsSpec => Loader!Abstract!Steps
<1>1. DatasetsInit => Loader!Abstract!Init
  BY DEF DatasetsInit, Loader!Init, Loader!Abstract!Init
<1>2. DatasetsInv /\ [DatasetsNext]_datasetsVars => [Loader!Abstract!Next]_(Loader!Abstract!vars)
  <2> SUFFICES ASSUME DatasetsInv, [DatasetsNext]_datasetsVars
               PROVE  Loader!Abstract!Next \/ UNCHANGED Loader!Abstract!vars
    OBVIOUS
  <2>1. Loader!Next \/ UNCHANGED loaderVars
    BY DEF DatasetsNext, RunFileSystem, RunLoader, RunLucasKanadeTest, RunFastTest,
           datasetsVars
  <2>2. UNCHANGED loaderVars => UNCHANGED LoaderProofs!vars
    BY DEF loaderVars, LoaderProofs!vars
  <2>3. LoaderProofs!Abstract!Next \/ UNCHANGED LoaderProofs!Abstract!vars
    BY <2>1, <2>2, SameLoader, LoaderSizes, LoaderProofs!AbstractStep DEF DatasetsInv
  <2> QED
    BY <2>3
    DEF LoaderProofs!Abstract!Next, Loader!Abstract!Next, LoaderProofs!Abstract!vars,
        Loader!Abstract!vars, LoaderProofs!Abstract!Ask, Loader!Abstract!Ask,
        LoaderProofs!Abstract!Answer, Loader!Abstract!Answer,
        LoaderProofs!Abstract!Forget, Loader!Abstract!Forget,
        LoaderProofs!Image, Loader!Image
<1> QED
  BY <1>1, <1>2, DatasetsInvHolds, PTL DEF DatasetsSpec, Loader!Abstract!Steps
=============================================================================
