------------------------------- MODULE Datasets -------------------------------
(***************************************************************************)
(* The file system and what reads datasets from it, one in a behaviour:    *)
(* FileSystem.tla, the dataset loader alone, and the two test programs     *)
(* that use it.                                                            *)
(***************************************************************************)
EXTENDS FileSystem

CONSTANTS
  MaxIndex,           \* the largest index the loader alone is asked for
  Pairs, Lines,       \* of the references of either test
  LoaderSlot, Slot,   \* of the heaps of the loader alone and of the tests
  NULL, Free, FileContent, Damaged

VARIABLES
  program,            \* the one that runs
  \* of the loader alone
  loader_pc, loader_file_path, loader_file_index, loader_heap, loader_buffer,
  loader_image, loader_returned,
  \* of either test
  test_pc, file_path, current_file_index, heap, file_content_buffer, test_returned,
  at, features, data_ptr, line_ptr,
  \* of the Lucas-Kanade test
  index, start_row, end_row, previous_image, current_image,
  \* of the FAST test
  image_heap, references, image_data_buffer

Loader == INSTANCE DatasetLoader WITH
  pc <- loader_pc, file_path <- loader_file_path,
  current_file_index <- loader_file_index, heap <- loader_heap,
  file_content_buffer <- loader_buffer, image_data <- loader_image,
  returned <- loader_returned, Slot <- LoaderSlot, LastImage <- MaxIndex

LucasKanadeTest == INSTANCE LucasKanadeTest WITH
  pc <- test_pc, returned <- test_returned

FastTest == INSTANCE FastTest WITH
  pc <- test_pc, returned <- test_returned

ASSUME LoaderAssumption == Loader!SizeAssumption /\ Loader!HeapAssumption
ASSUME TestsAssumption ==
  NULL \notin Slot /\ LucasKanadeTest!PairsAssumption /\ FastTest!LinesAssumption

(* The paths the program uses start at the root: where they lead does not  *)
(* depend on where they are followed from.                                 *)
ASSUME AbsolutePathAssumption ==
  \A d, e \in Directory : \A p \in Path : Follow[d][p] = Follow[e][p]

loaderVars ==
  <<loader_pc, loader_file_path, loader_file_index, loader_heap, loader_buffer,
    loader_image, loader_returned>>
testVars ==
  <<test_pc, file_path, current_file_index, heap, file_content_buffer, test_returned,
    at, features, data_ptr, line_ptr>>
lucasKanadeVars == <<index, start_row, end_row, previous_image, current_image>>
fastVars == <<image_heap, references, image_data_buffer>>

(* The others stay where one of their behaviours begins. *)
DatasetsInit ==
  /\ program \in {"file_system", "loader", "test_lucas_kanade", "test_fast"}
  /\ Init /\ (program = "file_system" \/ disk = [d \in Directory |-> Missing])
  /\ Loader!Init
  /\ IF program = "test_fast"
       THEN /\ FastTest!Init
            /\ index = 0 /\ start_row = 0 /\ end_row = 0
            /\ previous_image = NULL /\ current_image = NULL
       ELSE /\ LucasKanadeTest!Init
            /\ image_heap = NULL /\ references = FALSE /\ image_data_buffer = 0

RunFileSystem ==
  /\ program = "file_system" /\ Next
  /\ UNCHANGED <<program, loaderVars, testVars, lucasKanadeVars, fastVars>>
RunLoader(action) ==
  /\ program = "loader" /\ action
  /\ UNCHANGED <<program, vars, testVars, lucasKanadeVars, fastVars>>
RunLucasKanadeTest ==
  /\ program = "test_lucas_kanade" /\ LucasKanadeTest!Next
  /\ UNCHANGED <<program, vars, loaderVars, fastVars>>
RunFastTest ==
  /\ program = "test_fast" /\ FastTest!Next
  /\ UNCHANGED <<program, vars, loaderVars, lucasKanadeVars>>

DatasetsNext ==
  RunFileSystem \/ RunLoader(Loader!Next) \/ RunLucasKanadeTest \/ RunFastTest

datasetsVars == <<program, vars, loaderVars, testVars, lucasKanadeVars, fastVars>>

(* Each program with the fairness of its own specification. *)
DatasetsSpec ==
  /\ DatasetsInit /\ [][DatasetsNext]_datasetsVars
  /\ WF_datasetsVars(RunLoader(Loader!Step))
  /\ WF_datasetsVars(RunLucasKanadeTest) /\ WF_datasetsVars(RunFastTest)

-----------------------------------------------------------------------------
(* Every index is that of an image or a line, and every pointer is NULL or *)
(* into the heap.                                                          *)
PointersInRange ==
  /\ TypeOK
  /\ Loader!TypeOK
  /\ program = "test_lucas_kanade" => LucasKanadeTest!TypeOK
  /\ program = "test_fast" => FastTest!TypeOK

(* Volume, card, current directory and open file agree, whichever FatFs    *)
(* call failed (FileSystem.tla).                                           *)
VolumeInOrder == MountedHasCard /\ DirectoryStaysSet /\ NoFileLeftOpen

(* What is on the heap, but for the pixels of a damaged file that nobody   *)
(* frees, is what the program that runs still uses.  retrieve_image frees  *)
(* its file on every path (DatasetLoader.tla), and the FAST tests leave    *)
(* nothing behind (FastTest.tla).  The Lucas-Kanade test does: the         *)
(* references when the first image is missing, the last picture at its     *)
(* end, and no more than that (LucasKanadeTest.tla).                       *)
MemoryIsAccountedFor ==
  /\ Loader!FileIsFreed /\ Loader!OnlyDamagedIsLost
  /\ program = "test_lucas_kanade" =>
       LucasKanadeTest!AllocatedIsInUse /\ LucasKanadeTest!LeftBehind
  /\ program = "test_fast" => FastTest!AllocatedIsInUse

(* retrieve_image is a source of images (ImageSource.tla). *)
ImplementsSource == Loader!ImplementsSource

(* Images and the rows of the references stay in step, whichever images    *)
(* are missing, short of the last one (LucasKanadeTest.tla).               *)
RowsMatchImages ==
  program = "test_lucas_kanade" =>
    LucasKanadeTest!RowsMatchImages /\ LucasKanadeTest!FaultNeedsLastImage

(* Images and lines of the references stay in step (FastTest.tla). *)
LineMatchesImage == program = "test_fast" => FastTest!LineMatchesImage

(* The test with references of FAST ends, whichever images are missing,    *)
(* and so does the Lucas-Kanade test unless it is the last one.            *)
TestsEnd ==
  /\ program = "test_lucas_kanade" => LucasKanadeTest!Ends
  /\ program = "test_fast" => FastTest!EndsWithReferences
=============================================================================
