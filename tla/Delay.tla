-------------------------------- MODULE Delay --------------------------------
(***************************************************************************)
(* delay::ms (util/delay.cpp) on the millisecond counter that SysTick      *)
(* counts up (core/clock.cpp): a counter that wraps, a caller that polls   *)
(* it, and an interrupt at any point between two polls.                    *)
(***************************************************************************)
EXTENDS Integers

CONSTANTS
  COUNTS,             \* values of ms_since_boot, 2^32 in the code
  STEPS               \* steps of time in a millisecond

CountsAssumption == COUNTS \in Nat \ {0, 1}
StepsAssumption == STEPS \in Nat \ {0, 1}

Milliseconds == 0 .. (COUNTS - 1)
LongestDelay == (COUNTS + 1) * STEPS

VARIABLES
  ms_since_boot,
  phase,              \* steps since the last SysTick interrupt
  pc, start, duration,    \* delay::ms
  polled,             \* the caller has polled since the last interrupt
  elapsed             \* steps since delay::ms read start (not in the code)

vars == <<ms_since_boot, phase, pc, start, duration, polled, elapsed>>

Init ==
  /\ ms_since_boot = 0 /\ phase = 0
  /\ pc = "Idle" /\ start = 0 /\ duration = 0
  /\ polled = TRUE /\ elapsed = 0

(* The difference of two uint32_t. *)
Since(a, b) == (a - b) % COUNTS

-----------------------------------------------------------------------------
Passes ==
  elapsed' = IF pc = "Idle" \/ elapsed = LongestDelay THEN elapsed ELSE elapsed + 1

Time ==
  /\ phase < STEPS - 1
  /\ phase' = phase + 1
  /\ Passes
  /\ UNCHANGED <<ms_since_boot, pc, start, duration, polled>>

(* A poll takes far less than a millisecond, so that one lies between any  *)
(* two interrupts.                                                         *)
SysTick_Handler ==
  /\ phase = STEPS - 1 /\ phase' = 0
  /\ pc = "Waiting" => polled
  /\ ms_since_boot' = (ms_since_boot + 1) % COUNTS
  /\ polled' = FALSE
  /\ Passes
  /\ UNCHANGED <<pc, start, duration>>

-----------------------------------------------------------------------------
Call(d) ==
  /\ pc = "Idle" /\ pc' = "Waiting"
  /\ duration' = d
  /\ start' = ms_since_boot
  /\ elapsed' = 0
  /\ polled' = FALSE
  /\ UNCHANGED <<ms_since_boot, phase>>

DeadlinePassed == ms_since_boot >= (start + duration) % COUNTS

OverAtEnd == Since(ms_since_boot, start) > duration

Over == Since(ms_since_boot, start) >= duration

Poll ==
  /\ pc = "Waiting" /\ ~polled
  /\ ~Over
  /\ polled' = TRUE
  /\ UNCHANGED <<ms_since_boot, phase, pc, start, duration, elapsed>>

Return ==
  /\ pc = "Waiting"
  /\ Over
  /\ pc' = "Idle"
  /\ UNCHANGED <<ms_since_boot, phase, start, duration, polled, elapsed>>

Next ==
  \/ Time \/ SysTick_Handler
  \/ \E d \in Milliseconds : Call(d)
  \/ Poll \/ Return

Spec == Init /\ [][Next]_vars

(* Time passes, and a caller that polls gets to run.                       *)
FairSpec ==
  Spec /\ WF_vars(Time) /\ WF_vars(SysTick_Handler) /\ WF_vars(Poll) /\ WF_vars(Return)

-----------------------------------------------------------------------------
TypeOK ==
  /\ ms_since_boot \in Milliseconds /\ phase \in 0 .. (STEPS - 1)
  /\ pc \in {"Idle", "Waiting"} /\ polled \in BOOLEAN
  /\ start \in Milliseconds /\ duration \in Milliseconds
  /\ elapsed \in 0 .. LongestDelay

(* A delay is over after its number of interrupts, wherever the counter    *)
(* wraps in between: at most a millisecond early, because it begins in the *)
(* middle of one, and less than a millisecond late.                        *)
DelaysByInterrupts ==
  [][Return =>
       /\ elapsed > (duration - 1) * STEPS
       /\ elapsed < (duration + 1) * STEPS]_vars

(* The longest duration ends as well, although the counter equals the one  *)
(* value that ends it for one millisecond only.                            *)
Returns == pc = "Waiting" ~> pc = "Idle"
=============================================================================
