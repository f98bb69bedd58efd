# Formal verification of the visual-odometry front end

TLA+ models, TLC runs and TLAPS proofs about the firmware in this repository: a
dual-core i.MX RT1166 program that loads images from an SD card, extracts FAST
corners and tracks them with pyramidal Lucas-Kanade. Paths below are relative to
the repository root.

## The system

| Component | Code | State | Operations | Meets the others through |
|---|---|---|---|---|
| Multicore boot and messages | `src/core/multicore.cpp`, `src/main_cm7.cpp`, `src/main_cm4.cpp` | `application_event_data`, `rpmsg_base_address`, endpoint, `message_callback`, `has_received` | `initialise` on both cores, `register_message_callback`, `send_message`, event and message callbacks | MCMGR events, RPMsg messages |
| MCMGR and MU | `lib/nxp/sdk/middleware/multicore/mcmgr`, `fsl_mu.c` | event table, the core's state in the startup-data protocol, one MU register each way | `MCMGR_TriggerEvent(Force)`, the receive interrupt and the event handlers | the other core's interrupt |
| RPMsg-Lite, virtqueue | `lib/nxp/sdk/middleware/multicore/rpmsg_lite` | two vrings in shared memory, link state, endpoints | send, receive callback, ring operations, kick | shared memory and MCMGR events |
| Main loop of the front end | `src/test/test_lucas_kanade.cpp` (`..._with_resample`), `src/vio/feature_tracking.cpp`, `PatchPyramid` in `src/vio/image.cpp` | two keypoint buffers, the number of stale ones, the patch pyramid | load, track, count, print, extract, cut patches | calls |
| FAST | `src/vio/feature_extraction.cpp` | three rows of scores and of corner positions | score, per-row scan, non-maximum suppression | called by the main loop |
| Image operations | `src/vio/image.cpp` | row ring of the in-place blur, the buffer of the pyramid | blur, downsample, pyramid, patch, gradients | called by the main loop |
| Dataset loader | `src/dataset_loader.cpp` | `current_file_index`, a file and an image on the heap | `retrieve_image` by index or the next one | file system, heap, lodepng |
| File system | `src/drivers/file_system.cpp` | card descriptor, volume, current directory and its path | `initialise`, `deinitialise`, `ls`, `cd`, `size`, `read`, `write` | FatFs, SD card |
| Dataset tests | `src/test/test_fast.cpp`, `src/test/test_lucas_kanade.cpp` | place in the reference file, image index, images on the heap | compare results with reference files | all of the above |
| Logger | `src/logger.cpp` | level, prefix, message buffer | `infof` ..., `rawf`, `set_prefix` | the UART both cores share |
| Algorithms | `src/util/algorithm.cpp`, `src/util/delay.cpp`, `src/math` | none | quicksort, delay, matrices | SysTick; `quicksort` has no caller in the repository |
| Video driver | `src/drivers/video` | frame ring buffer, memory pool | put, get, length | not built by the Makefile |
| Start-up and clocks | `src/core/{clock,memory,fault_handlers,syscalls}.cpp`, `src/core/boot`, `src/core/device` | registers | configuration | |

What is hard in this code is the boot: two threads and two interrupt handlers
share one register each way for every purpose, every wait is an unbounded spin
except one with a timeout, and nothing is ever retried. Then the vrings, which two
cores access without a lock; the main loop, in
which a keypoint, its patches and the image they belong to live in different
buffers that are updated at different times; the functions that change an image
in the memory it is in, so that the order of reads and writes is everything; and
the tests on datasets, which keep a file of references, an index and images on
the heap in step while any load may fail. `PROJECT.json` lists each hazard at
its line, and every one has a property.

## Modules

| Module | Models | Role |
|---|---|---|
| `Multicore` | both mains up to the first exchanged message, `multicore.cpp`, MCMGR, the MU and the link set-up | state machine, properties |
| `MulticoreInvariant` | | the inductive invariant `IInv` |
| `Vring` | one direction of the RPMsg-Lite link, access by access | refines `MessageFifo` |
| `FrameRing` | `VIDEO_RINGBUF_*`, access by access | refines `MessageFifo` |
| `MessageFifo` | a reliable FIFO of bounded length | abstract specification |
| `Console` | who writes to the UART when, along both mains | state machine, properties |
| `Delay` | `delay::ms` and `SysTick_Handler` | state machine, properties |
| `Quicksort` | `alg::quicksort` with its stack | state machine, properties |
| `FrontEnd` | the main loop, `track_features`, `PatchPyramid::construct` | state machine, properties |
| `Fast` | `extract_features`: groups, score ring, suppression | state machine, properties |
| `CornerScore` | the rough checks, `evaluate_corner_candidate`, `calculate_corner_score` | functions of a pixel's circle against the definition of FAST |
| `ImageOps` | the arithmetic of blur and downsampling on one pixel | operators |
| `Blur` | `blur_inplace` with its ring of rows | state machine, properties |
| `Downsample` | `downsample_inplace` with its row buffer | state machine, properties |
| `Pyramid` | `ImagePyramid`, its levels in one buffer | state machine, properties |
| `Patch` | `Patch`, its gradients, where `PatchPyramid::construct` cuts | functions, properties |
| `DatasetLoader` | `retrieve_image`, every call of which may fail | refines `ImageSource` |
| `ImageSource` | what a caller of `retrieve_image` sees | abstract specification |
| `FileSystem` | `file_system.cpp` over FatFs and the SD driver | state machine, properties |
| `FastTest` | both tests of `test_fast.cpp` on top of `DatasetLoader` | state machine, properties |
| `LucasKanadeTest` | `test_with_dataset` on top of `DatasetLoader` | state machine, properties |
| `Runtime` | `Vring`, `FrameRing`, `Console`, `Delay` and `Quicksort`, one of which runs in a behaviour | union, properties |
| `Vision` | `Fast`, `CornerScore`, `Blur`, `Downsample`, `Pyramid` and `Patch` likewise | union, properties |
| `Datasets` | `FileSystem`, `DatasetLoader` alone, `LucasKanadeTest` and `FastTest` likewise | union, properties |
| `MulticoreProofs`, `FrontEndProofs`, `RuntimeProofs`, `VisionProofs`, `DatasetsProofs` | | theorems about what the runs check |
| `FrameRingProofs`, `QuicksortProofs`, `DatasetLoaderProofs` | | theorems the proofs about the unions use |
| `MCMulticore`, `MCFrontEnd`, `MCFast`, `MCFileSystem`, `MCLucasKanadeTest` | | instances for TLC |
| `MCRuntime`, `MCVision`, `MCDatasets` | | instances of the unions for TLC |

How they fit together: `Multicore` takes from `Vring` that rings are FIFOs, and
`Console` takes from `Multicore` that events and messages get across. `FrontEnd` takes
from `Fast` that extraction returns non-stale keypoints inside the image, at most as
many as the buffer holds; `Fast` takes from `CornerScore` that a pixel with a score
passes both rough checks (`CornersPassRoughChecks`). `Pyramid` uses `ImageOps` for
what `Blur` and `Downsample` show of a call. `FastTest` and `LucasKanadeTest` run the
actions of `DatasetLoader`, one of them with two different images; in `FrontEnd`
a load is one step, succeeding or not. A failing file operation in
`DatasetLoader` is any failure that `FileSystem` has.

The unions `Runtime`, `Vision` and `Datasets` choose one component in `Init`
and let only that one take steps; the variables of the others stay where they
start. They only save TLC runs: no component sees another in them, so a theorem
about a union is one about each of its components.

### Multicore

Each core has a thread, at label `pc[c]` of its main, and a handler. Both send
through `MU_SendMsg`, which tests TX-empty and then writes: `thread[c]` and
`isr[c]` hold the word of a call under way and whether the test has passed, so
that a handler can run between the two. A thread's action is disabled while its
core's handler is running, since the handler preempts it. `mu[c]` is the register
written by core `c`; `Receive` is the whole interrupt up to a blocking send, and
a send inside a handler (the answers of the startup-data protocol) is two more
actions. An RPMsg notification is `TriggerEventForce`, which writes without
testing. The master's address crosses in two halves; the model keeps the 16-bit
event field and the shift. Rings are sequences here, and what they promise is
`Vring`'s business.

The slave's timeout is modelled by `elapsed`, which `Tick` may advance at any
time up to one past the limit: the loop's test and the test after it read it at
different moments.

### Vring

The actions are the accesses to shared memory in the order of the code: a sender
compares indices, takes a buffer, fills it in two steps, writes the slot, then the
index, then kicks; a receiver, in its interrupt, compares, takes, calls the
endpoint's callback and gives the buffer back in the same two writes. `sender`
picks the role, since the master uses the avail ring where the remote uses the
used ring. A kick while one is pending is lost in it, as in the hardware.

`Fifo == INSTANCE MessageFifo WITH queue <- Queue` maps the buffers named by the
unread entries, and the one in the callback, to the abstract queue. Publishing
the index is then the abstract `Send` and the callback the abstract `Deliver`, all
other steps stutter; liveness of the abstract specification (what is sent is
delivered) is part of the refinement.

### FrameRing

Nothing in the program uses the video driver, so no hazard is listed for its ring;
what is checked and proved is what the driver promises to a user it may get.
One put and one get run against each other, each of three or four accesses, and
either of them may call `GetLength` in between, which reads `rear` and `front` at two
moments. `Contents` maps the slots from the next one to be got to the last one put to
the queue of `MessageFifo`: storing `rear` is the abstract `Send`, loading the item is
the abstract `Deliver`. One slot always stays empty, so the abstract queue holds
`size - 1`. The driver promises no progress, and the refinement is of the safety
part only.

### Console, Delay and Quicksort

`Console` writes both mains as sequences of what matters to the UART: a line of one
or three writes, a signal given or awaited, a reset of the UART. Signals stay
once they are given, since `Multicore` is about how they get across. Debug lines
are suppressed on the CM7, which logs at `LOG_INFO`, and written on the CM4. A
timeout of the boot, after which main goes on all the same, is one more way to go.

`Delay` has a counter that wraps, an interrupt that counts it up every so many steps
of time, and a caller that polls it: the interrupt may come at any point between
two polls, but not twice between them, since a poll takes far less than a
millisecond.

`Quicksort` keeps a stack of calls. The array holds pointers; `rank` is the order of
the strings they point to, with equal ones among them. The partition loop is one
step per entry.

### FrontEnd

One action per step of the loop. Pixels and positions are abstract. Keypoints and
patches carry, as ghosts, the frame they were measured or cut in, so that the
properties can say what belongs together. Extraction returns any number of
keypoints up to the buffer's size, each non-stale and inside the image; tracking
moves a keypoint to any position or out of the image; a patch may have a singular
H at any level, and the flow is then no number from there down.

### Fast and CornerScore

A step of `Fast` is one group of four columns, or the end of a row with the
suppression in the row before. A pixel is the outcome of the two rough checks and
of the scoring, so that shifts, skips and clearing, which decide which columns
are seen, are as in the code. The ring of three rows is indexed as in the code:
`Highest` compares slots, not rows, which is the point of the two violations.
Scores of 0 to 2 tell higher, equal, lower and none apart.

`CornerScore` writes the loops as recursive functions over the loop counter and
states the textbook definition beside them: a corner at threshold t has nine
contiguous circle pixels all darker or all brighter by more than t, and its score
is the largest threshold at which it still is one.

### Image operations

`Blur` keeps the picture as it was beside the one that is changed. A step copies a
row into the ring or writes one from it; within a row what is read is not what is
written. `Downsample` has one array of bytes for both sizes of the image and the
buffer of two rows. Both use the operators of `ImageOps`, which shift each
pixel before they add, as the code does, and store in a byte.

`Pyramid` has the caller's image and the buffer after it as one memory, and a step
per level: first each level is downsampled from the one below, then all are
blurred, level 0 in the caller's image too.

`Patch` measures positions in quarters of a pixel, so that the weights of the
bilinear interpolation are exact, and cuts from ramps, linear in x and y: a value
taken from a wrong place is a wrong value. Beyond the border the code clamps each
coordinate.

### DatasetLoader, FileSystem and the tests

`DatasetLoader` is `retrieve_image`, one call of the file system, of `malloc` or of
the decoder per step, with the early return each of them has, on a heap of a few
slots. What a slot holds is a ghost: it tells a file from a picture, whose
picture, and the pixels lodepng leaves behind when it fails after allocating them.
`Call` and `FreeImage` are the FAST test's use of it, with any index or none.
`ImageSource` is what callers rely on: the answer is the image asked for or a
failure, and the next one is the one after it.

`FileSystem` has one step per FatFs call, each of which may fail: the volume cannot
be mounted, the path does not exist, a sector cannot be read or written. `f_mount`
is delayed, so that the card is initialised by the first call that needs it, and
a card that does not answer has its descriptor zeroed by the SD driver, which
the next call trips over (`Assert`). What is on the card is one file in each directory.
Paths are absolute in the runs.

`LucasKanadeTest` numbers the rows of the references; `data_ptr` and `line_ptr` are rows.
It uses two instances of the loader, one for each of its images, with the same
heap. `FastTest` is both tests of that file, with and without references.

Memory, in both, is stated as an equation: what is allocated, but for damaged pixels,
is what the test still uses at the label it is at (`AllocatedIsInUse`). So a file or
picture that is freed too early, twice or not at all breaks it. What
`LucasKanadeTest` leaves allocated when it returns is stated as exactly
(`LeftBehind`), because it does leave something, see the findings.

`Fault` is the label just before the write through NULL. It is where the model stops,
not where the program ends: address 0 is the instruction RAM, which `memory.cpp:144-152`
makes accessible, so the write need not trap, and the images for which the test then
asks in a loop (`test_lucas_kanade.cpp:240-252`) do not exist, so that the loop has no
end. `Ends` therefore excepts a missing last image.

## Runs

| Run | Question | Result |
|---|---|---|
| `multicore` | Are startup data, events and messages ever lost, corrupted or early, in any interleaving and with the timeout at any moment, and does the boot end on both cores, unless the slave times out or the ping finds no callback? | holds |
| `multicore_ping` | Does the boot end whenever the slave does not time out? | violated, see below |
| `multicore_timeout` | Does `initialise` returning true mean what `multicore.h` says? | violated, see below |
| `front_end` | Do patches, keypoints, counts and output belong together, and does the loop end? | holds |
| `front_end_singular` | Is a feature with a singular H left untracked? | violated, see below |
| `vision` | Is each image function what its definition on a copy would be? | holds |
| `fast_last_row` | Does FAST find a highest pixel also in the last row? | violated, see below |
| `fast_right_border` | Also next to the right border? | violated, see below |
| `datasets` | Do file system, loader and tests stay consistent, and is all memory accounted for, whichever call fails? | holds |
| `lucas_kanade_test_rows` | Are there rows to skip when an image cannot be retrieved? | violated, see below |
| `file_system_write` | Is what `write` said it wrote on the card? | violated, see below |
| `runtime` | One owner per buffer, FIFOs without locks, whole lines on the UART, delays and sorting | holds |

Three runs are unions of several modules. What each property stands for there:

| Run | Property | Of module | Says |
|---|---|---|---|
| `vision` | `FindsTheHighest` | `Fast` | keypoints are exactly the local maxima away from last row and right border, each once and in order, until the buffer is full |
| | `ScoresCorners` | `CornerScore` | checks, table and score agree with the definition |
| | `BlursInPlace` | `Blur` | every row is made of its neighbours as they were; shifting loses at most four |
| | `IsDownsampled` | `Downsample` | every row is the average of two rows as they were |
| | `LevelsOfTheSource` | `Pyramid` | the levels do not overlap, and each is the picture averaged once per level and blurred once |
| | `PatchIsCutAtItsPosition` | `Patch` | values, gradients and the keypoint in its patch on every level |
| `datasets` | `VolumeInOrder` | `FileSystem` | volume, card, current directory and open file agree |
| | `MemoryIsAccountedFor` | `DatasetLoader`, both tests | but for pixels of a damaged file, what is allocated is what is still used; the FAST tests leave nothing when they return, the Lucas-Kanade test just what it leaks |
| | `ImplementsSource` | `DatasetLoader` | refines `ImageSource`, with its liveness |
| | `RowsMatchImages`, `LineMatchesImage` | `LucasKanadeTest`, `FastTest` | features are compared with the references of their own images |
| | `TestsEnd` | `LucasKanadeTest`, `FastTest` | the tests with references end, whichever images are missing, the last one of the Lucas-Kanade test excepted |
| `runtime` | `OneOwner`, `NoLostKick`, `RefusedOnlyWhenFull`, `ImplementsFifo` | `Vring` | refines `MessageFifo`, with its liveness |
| | `FramesAreFifo`, `LengthIsSafe` | `FrameRing` | refines `MessageFifo`; a length that may be relied on |
| | `LinesAreWhole` | `Console` | no two lines mix, and no line is cut by a reset of the UART |
| | `DelaysByInterrupts` | `Delay` | a delay takes its number of interrupts, wherever the counter wraps |
| | `SortsInPlace` | `Quicksort` | sorted, with every pointer still there; parts shrink and stay apart |
| | `CallsReturn` | `Delay`, `Quicksort` | both return |

`LoopsInImage`, `PointersInRange` and `IndicesInRange` are the type invariants of the
modules of each union: no loop or index leaves its buffer.

### Bounds

- `Multicore`: the real 16-bit chunks and an address like the linker's; the
  protocol is finite. `Timeout = 2` distinguishes before, at and after the limit
  and leaves time to pass while data are under way. No bound on the
  interleavings. The proofs hold for all values.
- `Vring`: `RL_BUFFER_COUNT = 2` is the program's. `IndexRange = 4` stands for
  2^16: a multiple of the ring size greater than it, so that full and empty are
  distinct; indices wrap every fourth message. Two message contents tell a
  message from its neighbour. The state space is finite without further bounds.
- `FrameRing`: four slots, so that a full ring holds three items of which two differ,
  and both indices wrap; finite without further bounds. `Console`: the 22
  characters of the message the CM4 sends. `Delay`: a counter that wraps after eight
  milliseconds of three steps each, and every duration it can hold, the longest
  one included. `Quicksort`: every array of up to five strings of four ranks, so that
  equal, sorted and reversed ones occur.
- `FrontEnd`: `MaxKeypoints = 3` for 74 and `MinLive = 2` for 5, so that a frame can
  keep a set with a stale member, lose too many, or extract too few. Three
  images: one to extract from, one to track into, one to track from a tracked
  set. Two levels show the coarse-to-fine order.
- `Fast`: four examined rows, the least in which a ring slot is used again before
  the last row; columns 3 to 11, two full groups and their shifts; nine kinds of
  row cover skipped groups, shifts by one, two and three pixels by either check,
  adjacent corners, ties, and corners in columns that only some rows reach. All
  6561 images. Three keypoints fill the buffer in many of them.
- `CornerScore`: 3-bit pixels, so that bounds saturate; arcs of eight and nine at all
  sixteen places with one pixel changed at any place, which breaks or completes
  an arc, the wrap-around included.
- `Blur`: three columns, so one pixel inside the border, and five rows, two more than
  the ring holds; 15 and 255 lose the most to rounding. `Downsample`: an even
  size, one with a column and a row too many, two that become a single column
  and one nothing is left of. Both on every image with at most four pixels of
  one of two values. The proofs hold for every size and every byte.
- `Pyramid`: four levels of 18 x 17, so not square and odd from level 1 on, with
  little more room than the third that `main_cm7.cpp` provides; one bright pixel on dark at
  every place. An `ASSUME` of `MCVision` compares the sizes of the program.
- `Patch`: patches of three, on images they fit into and on images they do not, at
  positions inside, on, across and far beyond each border and every quarter of a
  pixel between; and the patches of seven on five levels of the program, for
  every column of its images.
- `DatasetLoader`: three images and a heap of three slots, so that two pictures that
  did not decode leave too little for the next. `LucasKanadeTest`: four pairs, any of
  the five images missing, two in a row as well, and just the slots for both
  images, references and a file. `FastTest`: three images, missing or damaged.
- `FileSystem`: a root with two datasets, two contents of a file, every FatFs call
  failing at any time; finite without further bounds.

`CHECK_DEADLOCK FALSE` is set where a program ends (`FrontEnd`'s `Done`,
`Multicore`'s last label, the functions of `vision`, the tests of `datasets`, and
`FileSystem` in front of the SD driver's assertion). For `FrontEnd`, `Multicore` and the tests a
stop at another place is excluded by a liveness property. `runtime` is checked for
deadlock: `Ended` stutters where both mains are at their end or wait for a signal
that will not come (the finding about the ping), or quicksort has returned.

### Fairness

- `Multicore`: weak fairness of each thread and handler. Each core executes
  continuously, and a pending unmasked interrupt is taken.
- `Vring`: weak fairness of a send under way and of the handler. Starting a send
  is not fair: nobody has to send.
- `FrontEnd`, `LucasKanadeTest`, `FastTest`, `Quicksort`: weak fairness of the single
  thread, which never blocks.
- `DatasetLoader`: weak fairness of the steps of a call, not of calling.
- `Delay`: weak fairness of time, of the interrupt, of a poll and of the return.
- `Fast`, `Console`, `FrameRing`, `FileSystem` and the other image functions: none, as no
  liveness is claimed of them.

The unions ask of the component that runs what its own specification asks.

## Findings

- **Ping before the callback** (`multicore_ping`). The slave reports its endpoint
  ready inside `initialise`, and registers its message callback after it. A
  master that sends in between is not heard, and both cores wait forever.
- **Timeout at its limit** (`multicore_timeout`). The loop ends at
  `>= CORE1_BOOT_TIMEOUT`, the test for failure is `>`. At equality, without data,
  `initialise` continues with address 0 and returns true.
- **Singular H** (`front_end_singular`). "H is non-invertible!" is printed for a
  determinant that is NaN or infinite; the determinant of a singular H is 0.
- **Last row of FAST** (`fast_last_row`). When no more row is scanned, the ring still
  holds a row two above the one being suppressed.
- **Right border of FAST** (`fast_right_border`). A row clears only the groups it
  visits; a column it does not reach keeps a score from three rows before.
- **Result of `f_close`** (`file_system_write`). `write` drops it and returns true, although
  the last sector or the directory entry may not be on the card.
- **Rows behind the last pair** (`lucas_kanade_test_rows`). When the last image
  cannot be retrieved the test skips rows that are not there and writes through
  the NULL that `strchr` returned. What the program does after it is not modelled.

Other differences between a comment and the code that reading for the models
brought up. They have no run of their own:

- `ls` opens the current directory anew by the path of the last `cd`
  (`file_system.cpp:284`). After a relative `cd` that path is not the directory's
  from within it. The program only uses absolute paths, and so do the runs.
- When a card cannot be initialised the SD driver zeroes the descriptor
  (`fsl_sd_disk.c:148`), and its next call asserts on it (`fsl_sd.c:2107`): `file_system`
  cannot be used again without another `initialise`.
- `initialise` "mounts the FAT file system" (`file_system.h:14`): the mount is delayed to
  the first access, so it also succeeds without a readable card.
- `deinitialise` is "true if unmount was successful" (`file_system.h:25`) and returns true
  also when it unmounts nothing.
- `ls` is "true if files were found" (`file_system.h:47`): an empty listing and one that
  breaks off return true as well.
- `construct` "assumes that the first image ... is blurred, but the rest are not"
  (`image.h:237-238`): the pyramid blurs all levels. It "will downsample the image
  inplace" (`image.h:233`): it does not touch the image.
- Above level 0 a patch does not have its keypoint at the centre: half a patch is
  subtracted before the shift (`image.cpp:387`). `PointIsInPatch` holds all the same.
- `test_with_dataset` of Lucas-Kanade leaks. When the first image cannot be retrieved it
  returns without freeing the references (`test_lucas_kanade.cpp:115-118`); at its end
  it frees them but not the last picture, which is in `previous_image` (429-431),
  although the data "is copied over and then freed" (215-216). `LeftBehind` says
  that this is all it leaks.
- `delay::ms` is up to a millisecond short (`delay.h:9`), since it begins in the middle of
  one.

## Proofs

TLAPS checks the theorems of eight modules, each for every value of its constants
under the assumptions that the modules name. Every invariant that a passing run
checks and every action property is a theorem about the specification of that run,
and so is the safety part of each refinement (`LinkIsFifo`, `FramesComeOutInOrder`,
`LoaderIsSource`). `TypeOK` of each
module is proved as well; in the unions those are parts of `IndicesInRange`,
`LoopsInImage` and `PointersInRange`.

None of the properties is inductive. Each proof has a strengthening that is, with
one lemma per action (or group of actions), under it one step per conjunct that the
action disturbs.

### What is assumed

| Module | Assumption | Because |
|---|---|---|
| `Multicore` | a chunk that holds every state of a core, an address of two chunks other than 0, a timeout and a ring that are not 0 | 16-bit event data, the linker's address |
| `FrontEnd` | a level or more, a keypoint or more that must stay live, a position inside of the image | `PYRAMID_LEVELS` and the number of keypoints the loop wants are 5 |
| `Vring` | a buffer or more, a range of indices that is a multiple of their number and greater | `RL_BUFFER_COUNT` is a power of two, indices are `uint16_t` |
| `FrameRing` | two slots or more; `Nothing` is no item | a ring of one slot is empty and full at once |
| `Console`, `Delay`, `Quicksort` | two different cores, a message of any length; a counter of two values or more, two steps or more in a millisecond; any length and ranks | |
| `Fast` | `Width` and `Height` of 7 and more; a corner passes both rough checks | a pixel with a full circle around it exists; `CornersPassRoughChecks` is proved of `CornerScore` |
| `CornerScore` | any largest intensity, any thresholds and circles within it | |
| `Blur`, `Downsample` | a blurred image has two rows or more; pixels are bytes | the smallest image of the program has 30 rows |
| `Pyramid` | a third of the image's size or more as room behind it | the buffer of `main_cm7.cpp` |
| `Patch` | an odd size of the patch, images that are not empty | `PATCH_SIZE` is 7 |
| `FileSystem`, `Datasets` | a root; the empty path leads nowhere else; where a path leads does not depend on where it is followed from (`AbsolutePathAssumption`) | the program only uses absolute paths |
| `DatasetLoader`, the tests | an image or more; what marks a heap slot as free, a file or damaged is no number; one pair or line of references or more | |

TLC evaluates each of them on the instance of its run.

### Multicore: `MulticoreProofs`

The safety properties of `multicore`, `NoLostWord` (an action property) included.

- `Words`: which words each sender produces at all.
- `Startup`: a single token goes round in the startup-data protocol, as a word being
  sent, in a register, or as an answer being sent, and the data it carries agree
  with the slave's state. Whatever the slave has accumulated is the corresponding
  half of the master's address.
- `Local`: what each core's program counter says of its own variables.
- `Sends`: where the thread and the handler of one core may be in a send at the same
  time.
- `Phases`: the slave's program counter tells which event is under way, and how far
  the master can have come. That is what rules out a forced RPMsg word on top of an
  event, an ENDPOINT_READY on top of an unread LINK_READY, and handlers that wait
  for each other.

Frame lemmas say what a step of one actor leaves alone.

### Front end: `FrontEndProofs`

`StaleCounted`, `PatchesAreCurrent`, `LiveIsFresh`, `StaleStaysStale`,
`OneLinePerFrame`, for every number of images, keypoints and levels. What they need
is that the second buffer holds the same stale keypoint as the first
(`StaleInBoth`), that what was tracked at the finest level is of the image that was
loaded (`Tracked`, `Advanced`, `ImageOfIndex`), and how many lines each index has at
each label (`Printed`).

### Runtime: `RuntimeProofs`, with `FrameRingProofs` and `QuicksortProofs`

The rings between the cores, in either direction: `OneOwner`, `NoLostKick`,
`RefusedOnlyWhenFull`, and `Spec => Fifo!Spec`, which is `ImplementsFifo` but for
its fairness.

- `Counted`: what both rings hold, with a buffer that each core may have, is as many
  as there are buffers; so the wrapped difference of two indices is a true count.
- `StillThere`: what was found by comparing indices is still so when it is used, and
  a slot that was written keeps its buffer until the index is.
- `Apart` and `Owned`: no buffer is in two places, and every one is in one of an
  entry of a ring and a core's hands. `OneOwner` counts entries of sequences; it
  follows from these by cardinality.
- `Whole`: a buffer that was sent and not yet delivered holds a whole message.
- `Coming`: while a message is unread an interrupt is pending, the handler runs or a
  kick is still to come.

The ring of video frames (`FrameRingProofs`): `SlotsApart`, `LengthIsSafe`, and
`Spec => Fifo!Spec`. `PutInv` and `GetInv` are what each side may count on: the
other one only ever moves away. `Filled` says that every slot in between holds an
item. `LengthInv` is about the moment between the two reads.

Quicksort (`QuicksortProofs`): `TypeOK` (no access outside the part), `SortedAtEnd`,
`CallsShrink`, `PartsStayApart`. `Frames` is the loop invariant of the partition for
every frame of the stack; `Nested` says which part of its caller's a call was given;
`Returned` what the last call that returned left in order; `Pointers` that `array`
is a permutation. A swap inside a part keeps what the frames below know of it, since
they speak only of bounds their part as a whole observes.

Delay (`DelayInv`): while it waits, the time that has passed is that of the
interrupts since it was called, give or take the milliseconds in the middle of which
it began and is; and there have not been more of them than asked for, since two
cannot come between two polls. So the difference of two counters, either of which
may have wrapped, is the true count, for the longest delay too, which only one value
ends.

The console (`ConsoleInv`): CM4 is behind its first wait only when CM7 has started
it; from there to the message that CM4 sends last CM7 is at statements that do not
log. `MainOfCM7` and `MainOfCM4` say which statement is where, in mains that are
concatenated from parts and as long as the message.

`EachComponent` takes each of these to `RuntimeSpec`.

### Vision: `VisionProofs`

- The scan (`FastInv`). `RowsAbove`: the ring holds the scores of the last two rows
  in the columns that are examined in any case, and `ThisRow` those of this row up
  to `i`, although groups overlap, skip and are evaluated again. `RowBefore`: the
  positions of the row before are its corners in ascending order. In these columns
  the comparison with slots is one with rows, but for the last row, and the new
  keypoints lie below all of the old ones (`KeypointsAbove`), so that each is there
  once. That it has these bounds, up to `Width - 8` and not in the last row, is what
  the runs `fast_last_row` and `fast_right_border` show to be necessary.
- The score (`CornerInCall`). Both loops look at two arcs a round and leave rounds
  early; the lemmas on a round say what it does to the arcs seen so far, whose best
  value it keeps. The table of `evaluate_corner_candidate` is followed by counting
  to nine across the wrap-around. A score below t is the same as no corner at t
  (`ScoresCorners`). The rough checks look at opposite points, of which nine in a
  row of sixteen have one of each pair; bounds that saturate do not matter, since no
  pixel is beyond them.
- The blur (`BlurInv`). `RingOfSource`: the ring holds the rows around y as they
  were before any of them was written. The bound of the rounding is one lemma on
  three bytes in a row and one on three rows.
- Downsampling (`DownsampleInv`). `Unread`: what is to be read has not been written
  over: a row of the new image ends no later than the two rows it is made of begin,
  which is a lemma on products.
- The pyramid (`PyramidInv`). `Used`: three times the room that is used, with a
  level that is yet to take its third, does not exceed the picture, so every level
  fits; `Stacked`: levels follow each other. So a level that is written leaves those
  below alone, and one that is blurred those above. `ArePictures` says that each
  level holds, until it is blurred, the average of what the level below was before
  its blur; there is only one such list of pictures (`LevelsAreUnique`).
- Patches (`PatchInv`, `StartInv`). The two offsets and the clamping of coordinates
  cancel because what lies between two clamped pixels is what lies between them,
  clamped (`Between`). A keypoint is in its patch on each level because two points
  less than half a patch apart are no further apart on a coarser grid (`Coarser`).

### Datasets: `DatasetsProofs`, with `DatasetLoaderProofs`

- The file system (`FileSystemInv`): which function each FatFs call belongs to, when
  a file is open, and that between `f_chdir` and `f_opendir` the directory is the
  one asked for.
- The loader (`DatasetLoaderProofs`): `FileIsFreed`, `OnlyDamagedIsLost`, and that
  every step is one of `ImageSource`'s or a stutter (`Spec => Abstract!Steps`).
  `Held` says what a file or a picture is between two calls. `RetrieveStep` says
  what any step of `retrieve_image` does to a heap on which there is more than its
  own, and is what the tests use.
- The Lucas-Kanade test (`LucasKanadeInv`): `LucasKanadePlace` has the row for every
  label, as a function of the index; `LucasKanadePictures` says which of the two
  pictures there is and of which image, and `LucasKanadeBuffers` which files. They hold
  through the error path that changes hands in the middle, and together they are the
  equation of what is allocated and what is in use. `LeftBehind` is proved where the
  test returns, in three ways.
- The FAST test (`FastInv`): the line is the image that was asked for last, the
  only picture on the heap is the one that has not been copied, and the only files are
  the references and the one that is read.

### Induction over data

The library's induction theorems take an operator, which none of the provers here
instantiates. Where a proof needs induction, over the elements of a row, the rounds
of a loop or the levels of a pyramid, it is over a set of natural numbers
(`LeastElement`, `Induction` in `VisionProofs`; `LeastElement` follows from the
library's theorem that finite sets are well-founded). A recursive function is first
shown to exist, by building it one argument further, and then used through its
equation.

### Only model-checked

- Liveness, and the fairness in `ImplementsFifo` and `ImplementsSource`, since TLAPS
  proves nothing about `ENABLED` here: `BootCompletesUnlessPingDropped`,
  `Terminates`, `TestsEnd`, `CallsReturn`. So the boot's end, the main loop's and
  the tests', that delay and quicksort return, and that what was sent is delivered,
  are shown by TLC on the instances above.
- The violations, which are counterexamples.

## Not modelled

- `multicore::deinitialise`, RPMsg's no-copy sends, endpoint destruction and
  `rpmsg_lite_deinit`: never reached while the program runs.
- Floating-point arithmetic (`src/math`, the iterations of `track_features`, the
  difference of two patches, the statistics of the tests): TLC has none. `FrontEnd`
  keeps what its outcomes can be, and `Patch` positions that are whole quarters.
- The text that is logged: prefixes, levels other than the two that are set, formats,
  `print` of images and patches.
- The video driver's memory pool, which has one user at a time, the camera and
  display registers. The video driver is not built by the Makefile.
- An image of fewer than two rows, which `blur_inplace` would read past: the smallest
  one the program blurs has 30 (`ASSUME` in `MCVision`).
- A failing allocation of the buffer for references (`test_lucas_kanade.cpp:78`,
  `test_fast.cpp:47`). Neither test looks at the result, and the models take it to
  succeed; `DatasetLoader` shows what a failing one does where it is looked at.
- The early end of `track_features` on a determinant that is NaN or infinite
  (`feature_tracking.cpp:125-128`): the determinant is made of finite gradients, with
  which it is neither.
- `core/memory`, `fault_handlers`, `syscalls`, start-up, DCD, clock tree, LED: registers
  and tables without a protocol.
- FatFs, SDMMC, lodepng, CMSIS and the rest of `lib/`, which are most of the repository's
  lines: third-party. Where the program depends on how they behave (the delayed
  mount, the zeroed descriptor, pixels left after an error, the MU driver, RPMsg-Lite)
  the models follow their code.

## State of the plan

The plan of the modules is done: every part of the program with state of its own
has a module, every hazard that is listed has a property, and every safety property
of a passing run has a proof. What could be added:

1. The video memory pool, should the camera come into use.
2. Proofs of liveness, with a prover that has `ENABLED`.
