----------------------------- MODULE MessageFifo -----------------------------
(***************************************************************************)
(* What multicore::send_message and the message callback promise one       *)
(* direction of the RPMsg link: messages come out whole, once each, in the *)
(* order they went in, and never more than the ring has buffers for are    *)
(* under way.                                                              *)
(***************************************************************************)
EXTENDS Naturals, Sequences

CONSTANTS
  Message,            \* the contents a message can have
  RL_BUFFER_COUNT     \* buffers of the ring

VARIABLES
  queue,              \* messages sent and not yet given to the callback
  delivered           \* the message the callback got last, <<>> before the first

vars == <<queue, delivered>>

Init ==
  /\ queue = <<>>
  /\ delivered = <<>>

Send ==
  \E m \in Message :
    /\ Len(queue) < RL_BUFFER_COUNT
    /\ queue' = Append(queue, m)
    /\ UNCHANGED delivered

Deliver ==
  /\ queue # <<>>
  /\ delivered' = <<Head(queue)>>
  /\ queue' = Tail(queue)

Next == Send \/ Deliver

Spec == Init /\ [][Next]_vars

(* A message that was sent is delivered, without another one being sent.   *)
FairSpec == Spec /\ WF_vars(Deliver)
=============================================================================
