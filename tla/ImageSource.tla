----------------------------- MODULE ImageSource -----------------------------
(***************************************************************************)
(* What a caller of retrieve_image sees: a call for an image, given by its *)
(* index or the next one, ends in that image or in failure.  The image is  *)
(* the one asked for, and the next one asked for is the one after it,      *)
(* whether it could be retrieved or not.                                   *)
(***************************************************************************)
EXTENDS Integers

CONSTANTS
  Index,              \* the images there may be
  Failure             \* the reply when there is none

VARIABLES
  next,               \* the image the next call without an index is for
  asked,              \* the image of the call that is answered next, 0 if none
  reply               \* the image, or Failure, of the last call

vars == <<next, asked, reply>>

Init == next = 1 /\ asked = 0 /\ reply = Failure

Ask(i) ==
  /\ asked = 0
  /\ asked' = i /\ next' = i + 1
  /\ UNCHANGED reply

Answer ==
  /\ asked # 0
  /\ reply' \in {asked, Failure}
  /\ asked' = 0
  /\ UNCHANGED next

(* The caller is done with the last image. *)
Forget == asked = 0 /\ reply' = Failure /\ UNCHANGED <<next, asked>>

Next == (\E i \in Index : Ask(i)) \/ Answer \/ Forget

Steps == Init /\ [][Next]_vars

(* Every call is answered. *)
Spec == Steps /\ WF_vars(Answer)
=============================================================================
