------------------------------- MODULE Console -------------------------------
(***************************************************************************)
(* The UART that both cores log to, and what keeps their lines apart.      *)
(* Each core has a logger of its own (logger.cpp) that writes to the same  *)
(* LPUART1 without a lock: first the level, then the prefix and then the   *)
(* message, each with LPUART_WriteBlocking, which returns when its last    *)
(* bit is out.  Only the order in which the two main functions print,      *)
(* start each other and wait for each other decides who writes when.       *)
(*                                                                         *)
(* The events, the link and the messages are signals here, which stay once *)
(* they are given; Multicore is about how they get across.                 *)
(***************************************************************************)
EXTENDS Integers, Sequences

CONSTANTS
  CM7, CM4,           \* the cores
  Characters          \* in the message CM4 sends, printed one by one

Core == {CM7, CM4}

CoreAssumption == CM7 # CM4
MessageAssumption == Characters \in Nat

Signal == {"started", "LINK_READY", "link_up", "ENDPOINT_READY", "ping", "message"}

VARIABLES
  pc,                 \* [Core -> the next statement of its main]
  part,               \* [Core -> the write it is in, 0 between two lines]
  signals             \* those that were given

vars == <<pc, part, signals>>

Do(what) == <<"do", what>>
Log(how) == <<"log", how>>
Give(signal) == <<"give", signal>>
Await(signal) == <<"wait", signal>>

(* CM7 until it has started CM4. *)
StartUp ==
  << Log("rawf"), Log("infof"), Log("infof"), Log("debugf"), Log("debugf"), Give("started") >>

AnsweredFirst == << Give("message"), Log("infof") >>

(* CM4 after the ping. *)
Answer == << Log("infof"), Give("message") >>

(* What main, and multicore::initialise in it, do that matters here.       *)
Main(core) ==
  IF core = CM7
    THEN << Do("initialise") >> \o StartUp \o
         << Await("LINK_READY"), Give("link_up"), Await("ENDPOINT_READY"), Give("ping"),
            Await("message"), Log("infof") >> \o
         [c \in 1 .. Characters |-> Log("rawf")] \o << Log("rawf"), Log("infof") >>
    ELSE << Await("started"), Do("initialise"), Do("startup_data"), Log("debugf"),
            Give("LINK_READY"), Await("link_up"), Give("ENDPOINT_READY"),
            Log("infof"), Log("debugf"), Await("ping") >> \o Answer

(* Where the slave goes on when multicore::initialise times out.           *)
AfterInitialise == 8

Init ==
  /\ pc = [c \in Core |-> 1]
  /\ part = [c \in Core |-> 0]
  /\ signals = {}

At(core) == IF pc[core] <= Len(Main(core)) THEN Main(core)[pc[core]] ELSE Do("nothing")

Step(core) == pc' = [pc EXCEPT ![core] = @ + 1]

-----------------------------------------------------------------------------
(* logger::initialise: LPUART_Init resets the UART. *)
Initialise(core) ==
  /\ At(core) = Do("initialise")
  /\ Step(core)
  /\ UNCHANGED <<part, signals>>

(* CM7 logs at LOG_INFO, where debugf returns, CM4 at LOG_DEBUG.           *)
Shown(core) == At(core)[1] = "log" /\ (At(core) = Log("debugf") => core = CM4)

Suppressed(core) ==
  /\ At(core) = Log("debugf") /\ ~Shown(core)
  /\ Step(core)
  /\ UNCHANGED <<part, signals>>

Writes(core) == IF At(core) = Log("rawf") THEN 1 ELSE 3

(* The first, or after one is done the next, write of a line.              *)
Write(core) ==
  /\ Shown(core) /\ part[core] < Writes(core)
  /\ part' = [part EXCEPT ![core] = @ + 1]
  /\ UNCHANGED <<pc, signals>>

LineWritten(core) ==
  /\ Shown(core) /\ part[core] = Writes(core)
  /\ part' = [part EXCEPT ![core] = 0]
  /\ Step(core)
  /\ UNCHANGED signals

-----------------------------------------------------------------------------
Given(core) ==
  \E s \in Signal :
    /\ At(core) = Give(s)
    /\ signals' = signals \cup {s}
    /\ Step(core)
    /\ UNCHANGED part

Awaited(core) ==
  \E s \in Signal :
    /\ At(core) = Await(s) /\ s \in signals
    /\ Step(core)
    /\ UNCHANGED <<part, signals>>

StartupData ==
  /\ At(CM4) = Do("startup_data")
  /\ Step(CM4)
  /\ UNCHANGED <<part, signals>>

(* main ignores that initialise returned false. *)
TimedOut ==
  /\ At(CM4) = Do("startup_data")
  /\ pc' = [pc EXCEPT ![CM4] = AfterInitialise]
  /\ UNCHANGED <<part, signals>>

Next ==
  \/ \E core \in Core :
       Initialise(core) \/ Suppressed(core) \/ Write(core) \/ LineWritten(core)
         \/ Given(core) \/ Awaited(core)
  \/ StartupData \/ TimedOut

Spec == Init /\ [][Next]_vars

-----------------------------------------------------------------------------
InLine(core) == part[core] # 0

TypeOK ==
  /\ pc \in [Core -> Nat \ {0}]
  /\ part \in [Core -> Nat]
  /\ signals \subseteq Signal
  /\ \A core \in Core : pc[core] <= Len(Main(core)) + 1 /\ part[core] <= Writes(core)
  /\ InLine(CM7) => At(CM7) # Log("debugf")

(* The bytes of two lines are never mixed, and neither are a line's parts: *)
(* while one core is in a line, the other is between two.                  *)
LinesAreWhole == ~(InLine(CM7) /\ InLine(CM4))

(* No core resets the UART under a line of the other.                      *)
NoResetInLine ==
  \A core \in Core : At(core) = Do("initialise") =>
    \A other \in Core \ {core} : ~InLine(other)
=============================================================================
