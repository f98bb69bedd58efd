-------------------------------- MODULE Runtime --------------------------------
(***************************************************************************)
(* What runs beside the application, one component in a behaviour: the     *)
(* rings between the cores (Vring.tla), the ring of video frames, the      *)
(* console, delay and quicksort.                                           *)
(***************************************************************************)
EXTENDS Vring

CONSTANTS
  Item, Nothing, size,        \* of the ring of video frames
  CM7, CM4, Characters,       \* of the console
  COUNTS, STEPS,              \* of delay
  MaxLength, Rank             \* of quicksort

VARIABLES
  component,          \* the one that runs
  rear, front, buf, put_pc, put_item, rear_next, get_pc, item, front_next,
  length_of, length_rear, length,
  main_pc, part, signals,
  ms_since_boot, phase, pc, start, duration, polled, elapsed,
  rank, array, stack

Frames == INSTANCE FrameRing
Console == INSTANCE Console WITH pc <- main_pc
Delay == INSTANCE Delay
Quicksort == INSTANCE Quicksort

ASSUME FrameRingAssumption == Frames!SizeAssumption /\ Frames!NothingAssumption
ASSUME ConsoleAssumption == Console!CoreAssumption /\ Console!MessageAssumption
ASSUME DelayAssumption == Delay!CountsAssumption /\ Delay!StepsAssumption
ASSUME QuicksortAssumption == Quicksort!MaxLengthAssumption /\ Quicksort!RankAssumption

frameRingVars ==
  <<rear, front, buf, put_pc, put_item, rear_next, get_pc, item, front_next,
    length_of, length_rear, length>>
consoleVars == <<main_pc, part, signals>>
delayVars == <<ms_since_boot, phase, pc, start, duration, polled, elapsed>>
quicksortVars == <<rank, array, stack>>
others == <<frameRingVars, consoleVars, delayVars, quicksortVars>>

(* The others stay where one of their behaviours begins. *)
RuntimeInit ==
  /\ component \in {"vring", "frame_ring", "console", "delay", "quicksort"}
  /\ component = "vring" \/ sender = "master"
  /\ Init
  /\ Frames!Init
  /\ Console!Init
  /\ Delay!Init
  /\ component = "quicksort" \/ rank = <<>>
  /\ Quicksort!Init

Step(name, action) == component = name /\ action /\ UNCHANGED component

RunVring(action) == Step("vring", action) /\ UNCHANGED others
RunFrameRing ==
  /\ Step("frame_ring", Frames!Next)
  /\ UNCHANGED <<vars, consoleVars, delayVars, quicksortVars>>
RunConsole ==
  /\ Step("console", Console!Next)
  /\ UNCHANGED <<vars, frameRingVars, delayVars, quicksortVars>>
RunDelay(action) ==
  /\ Step("delay", action)
  /\ UNCHANGED <<vars, frameRingVars, consoleVars, quicksortVars>>
RunQuicksort ==
  /\ Step("quicksort", Quicksort!Next)
  /\ UNCHANGED <<vars, frameRingVars, consoleVars, delayVars>>

(* Both mains end, or wait for the other for ever (the reply to the ping   *)
(* may be lost, and CM4's boot time out); quicksort ends.                  *)
Ended ==
  /\ \/ /\ component = "console"
        /\ \A core \in Console!Core :
             \/ Console!At(core) = Console!Do("nothing")
             \/ \E s \in Console!Signal \ signals : Console!At(core) = Console!Await(s)
     \/ component = "quicksort" /\ stack = <<>>
  /\ UNCHANGED <<component, vars, others>>

RuntimeNext ==
  RunVring(Next) \/ RunFrameRing \/ RunConsole \/ RunDelay(Delay!Next) \/ RunQuicksort \/ Ended

runtimeVars == <<component, vars, others>>

(* Each component with the fairness of its own specification. *)
RuntimeSpec ==
  /\ RuntimeInit /\ [][RuntimeNext]_runtimeVars
  /\ WF_runtimeVars(RunVring(Sender)) /\ WF_runtimeVars(RunVring(Receiver))
  /\ WF_runtimeVars(RunDelay(Delay!Time)) /\ WF_runtimeVars(RunDelay(Delay!SysTick_Handler))
  /\ WF_runtimeVars(RunDelay(Delay!Poll)) /\ WF_runtimeVars(RunDelay(Delay!Return))
  /\ WF_runtimeVars(RunQuicksort)

-----------------------------------------------------------------------------
(* No index leaves its ring, counter or array: front and rear never rest   *)
(* at size, and no call of quicksort looks outside its part.               *)
IndicesInRange ==
  TypeOK /\ Frames!TypeOK /\ Console!TypeOK /\ Delay!TypeOK /\ Quicksort!TypeOK

(* To one that puts and one that gets the ring of frame buffers is a FIFO, *)
(* with a length that is safe to rely on (FrameRing.tla).                  *)
FramesAreFifo == Frames!ImplementsFifo /\ []Frames!SlotsApart
LengthIsSafe == Frames!LengthIsSafe

(* What the order of prints and waits in the two mains keeps apart: the    *)
(* lines of the cores, and a line and a reset of the UART (Console.tla).   *)
LinesAreWhole == Console!LinesAreWhole /\ Console!NoResetInLine

(* A delay takes its number of interrupts (Delay.tla). *)
DelaysByInterrupts == Delay!DelaysByInterrupts

(* Quicksort sorts in place, in parts that shrink and stay apart           *)
(* (Quicksort.tla).                                                        *)
SortsInPlace ==
  Quicksort!SortedAtEnd /\ Quicksort!CallsShrink /\ Quicksort!PartsStayApart

(* A delay and quicksort return. *)
CallsReturn == Delay!Returns /\ (component = "quicksort" => Quicksort!Ends)
=============================================================================
