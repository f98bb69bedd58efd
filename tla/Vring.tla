-------------------------------- MODULE Vring --------------------------------
(***************************************************************************)
(* One direction of the RPMsg-Lite link: one vring in shared memory, a     *)
(* sending thread on one core (rpmsg_lite_send) and the MU interrupt of    *)
(* the other core (rpmsg_lite_rx_callback), one memory access at a time.   *)
(*                                                                         *)
(* A vring has two rings of buffer indices.  The master writes the avail   *)
(* ring and reads the used ring, the remote the other way round; so a      *)
(* message travels through the avail ring when the master sends and        *)
(* through the used ring when the remote does, and its buffer comes back   *)
(* through the other one.  There is no lock: env_lock_mutex is empty       *)
(* without an operating system.                                            *)
(***************************************************************************)
EXTENDS Integers, Sequences, FiniteSets

CONSTANTS
  Message,            \* the contents a message can have
  RL_BUFFER_COUNT,    \* entries of each ring, and buffers
  IndexRange,         \* 2^16: ring indices are uint16_t
  NoMessage           \* the contents of a buffer that is being written

ASSUME BufferAssumption == RL_BUFFER_COUNT \in Nat \ {0}
ASSUME IndexAssumption ==
  /\ IndexRange \in Nat /\ IndexRange > RL_BUFFER_COUNT
  /\ IndexRange % RL_BUFFER_COUNT = 0
ASSUME MessageAssumption == NoMessage \notin Message

Buffer == 0 .. (RL_BUFFER_COUNT - 1)
Index == 0 .. (IndexRange - 1)
Ring == {"avail", "used"}

VARIABLES
  sender,             \* "master" or "remote": the role of the sending core
  idx,                \* [Ring -> Index]: avail->idx and used->idx
  ring,               \* [Ring -> [Buffer -> Buffer]]: their slots
  cons,               \* [Ring -> Index]: vq_available_idx, vq_used_cons_idx
  buffer,             \* [Buffer -> Message]: contents of the shared buffers
  tx,                 \* the sending thread: pc, its buffer and its message
  rx,                 \* the receiving handler: pc and its buffer
  notified,           \* the RPMsg word is in the MU register, or its flag is set
  delivered           \* the message the callback got last, <<>> before the first

vars == <<sender, idx, ring, cons, buffer, tx, rx, notified, delivered>>

Out == IF sender = "master" THEN "avail" ELSE "used"
Back == IF sender = "master" THEN "used" ELSE "avail"

AfterUnwrapped(i) == i + 1

(* index & (vq_nentries - 1), and uint16_t's ++. *)
SlotOf(i) == i % RL_BUFFER_COUNT
After(i) == (i + 1) % IndexRange

(* After rpmsg_lite_master_init: every buffer is offered to the sender, by *)
(* virtqueue_fill_used_buffers on the master's transmit queue and by       *)
(* virtqueue_fill_avail_buffers on its receive queue.                      *)
Init ==
  /\ sender \in {"master", "remote"}
  /\ idx = [r \in Ring |-> IF r = Back THEN RL_BUFFER_COUNT ELSE 0]
  /\ ring = [r \in Ring |-> [b \in Buffer |-> IF r = Back THEN b ELSE 0]]
  /\ cons = [r \in Ring |-> 0]
  /\ buffer = [b \in Buffer |-> NoMessage]
  /\ tx = [pc |-> "Idle", buf |-> 0, msg |-> NoMessage]
  /\ rx = [pc |-> "Idle", buf |-> 0]
  /\ notified = FALSE
  /\ delivered = <<>>

-----------------------------------------------------------------------------
(* The sender: rpmsg_lite_format_message.                                  *)

rxVars == <<rx, delivered>>

SendMessage(m) ==
  /\ tx.pc = "Idle"
  /\ tx' = [tx EXCEPT !.pc = "Alloc", !.msg = m]
  /\ UNCHANGED <<sender, idx, ring, cons, buffer, notified, rxVars>>

AllocUnchecked ==
  /\ tx.pc = "Alloc"
  /\ tx' = [tx EXCEPT !.pc = "Take"]
  /\ UNCHANGED <<sender, idx, ring, cons, buffer, notified, rxVars>>

(* vq_tx_alloc compares the indices.  RL_DONT_BLOCK: no buffer, no retry.  *)
Alloc ==
  /\ tx.pc = "Alloc"
  /\ tx' = [tx EXCEPT !.pc = IF cons[Back] = idx[Back] THEN "Idle" ELSE "Take"]
  /\ UNCHANGED <<sender, idx, ring, cons, buffer, notified, rxVars>>

Take ==
  /\ tx.pc = "Take"
  /\ tx' = [tx EXCEPT !.pc = "Header", !.buf = ring[Back][SlotOf(cons[Back])]]
  /\ cons' = [cons EXCEPT ![Back] = After(@)]
  /\ UNCHANGED <<sender, idx, ring, buffer, notified, rxVars>>

(* The header and part of the data are written ...                         *)
FillHeader ==
  /\ tx.pc = "Header"
  /\ buffer' = [buffer EXCEPT ![tx.buf] = NoMessage]
  /\ tx' = [tx EXCEPT !.pc = "Data"]
  /\ UNCHANGED <<sender, idx, ring, cons, notified, rxVars>>

(* ... and then all of them.                                               *)
FillData ==
  /\ tx.pc = "Data"
  /\ buffer' = [buffer EXCEPT ![tx.buf] = tx.msg]
  /\ tx' = [tx EXCEPT !.pc = "Slot"]
  /\ UNCHANGED <<sender, idx, ring, cons, notified, rxVars>>

IndexBeforeSlot ==
  /\ tx.pc = "Slot"
  /\ idx' = [idx EXCEPT ![Out] = After(@)]
  /\ tx' = [tx EXCEPT !.pc = "Publish"]
  /\ UNCHANGED <<sender, ring, cons, buffer, notified, rxVars>>

(* vq_tx (vq_ring_update_avail or vq_ring_update_used): the slot first ... *)
WriteSlot ==
  /\ tx.pc = "Slot"
  /\ ring' = [ring EXCEPT ![Out][SlotOf(idx[Out])] = tx.buf]
  /\ tx' = [tx EXCEPT !.pc = "Publish"]
  /\ UNCHANGED <<sender, idx, cons, buffer, notified, rxVars>>

(* ... and the index after the barrier.                                    *)
Publish ==
  /\ tx.pc = "Publish"
  /\ idx' = [idx EXCEPT ![Out] = After(@)]
  /\ tx' = [tx EXCEPT !.pc = "Kick"]
  /\ UNCHANGED <<sender, ring, cons, buffer, notified, rxVars>>

KickLost ==
  /\ tx.pc = "Kick"
  /\ notified' = (notified \/ delivered = <<>>)
  /\ tx' = [tx EXCEPT !.pc = "Idle", !.msg = NoMessage]
  /\ UNCHANGED <<sender, idx, ring, cons, buffer, rxVars>>

(* virtqueue_kick: the MU register is written whatever it holds, so two    *)
(* kicks can end up as one interrupt.                                      *)
Kick ==
  /\ tx.pc = "Kick"
  /\ notified' = TRUE
  /\ tx' = [tx EXCEPT !.pc = "Idle", !.msg = NoMessage]
  /\ UNCHANGED <<sender, idx, ring, cons, buffer, rxVars>>

Sender == Alloc \/ Take \/ FillHeader \/ FillData \/ WriteSlot \/ Publish \/ Kick

-----------------------------------------------------------------------------
(* The receiver: rpmsg_lite_rx_callback in the MU interrupt.               *)

txVars == <<buffer, tx>>

Interrupt ==
  /\ rx.pc = "Idle" /\ notified
  /\ notified' = FALSE
  /\ rx' = [rx EXCEPT !.pc = "Check"]
  /\ UNCHANGED <<sender, idx, ring, cons, delivered, txVars>>

(* vq_rx compares the indices; the handler returns when they are equal.    *)
Check ==
  /\ rx.pc = "Check"
  /\ rx' = [rx EXCEPT !.pc = IF cons[Out] = idx[Out] THEN "Idle" ELSE "Receive"]
  /\ UNCHANGED <<sender, idx, ring, cons, notified, delivered, txVars>>

Receive ==
  /\ rx.pc = "Receive"
  /\ rx' = [pc |-> "Callback", buf |-> ring[Out][SlotOf(cons[Out])]]
  /\ cons' = [cons EXCEPT ![Out] = After(@)]
  /\ UNCHANGED <<sender, idx, ring, notified, delivered, txVars>>

CallbackHolds ==
  /\ rx.pc = "Callback"
  /\ delivered' = <<buffer[rx.buf]>>
  /\ rx' = [rx EXCEPT !.pc = "Check"]
  /\ UNCHANGED <<sender, idx, ring, cons, notified, txVars>>

(* endpoint_callback copies the message out and returns RL_RELEASE.        *)
Callback ==
  /\ rx.pc = "Callback"
  /\ delivered' = <<buffer[rx.buf]>>
  /\ rx' = [rx EXCEPT !.pc = "FreeSlot"]
  /\ UNCHANGED <<sender, idx, ring, cons, notified, txVars>>

(* vq_rx_free gives the buffer back, in the same two writes.               *)
FreeSlot ==
  /\ rx.pc = "FreeSlot"
  /\ ring' = [ring EXCEPT ![Back][SlotOf(idx[Back])] = rx.buf]
  /\ rx' = [rx EXCEPT !.pc = "Free"]
  /\ UNCHANGED <<sender, idx, cons, notified, delivered, txVars>>

Free ==
  /\ rx.pc = "Free"
  /\ idx' = [idx EXCEPT ![Back] = After(@)]
  /\ rx' = [rx EXCEPT !.pc = "Check"]
  /\ UNCHANGED <<sender, ring, cons, notified, delivered, txVars>>

Receiver == Interrupt \/ Check \/ Receive \/ Callback \/ FreeSlot \/ Free

Next == (\E m \in Message : SendMessage(m)) \/ Sender \/ Receiver

Spec == Init /\ [][Next]_vars

(* Both cores keep running, and a pending interrupt is taken.              *)
FairSpec == Spec /\ WF_vars(Sender) /\ WF_vars(Receiver)

-----------------------------------------------------------------------------
TypeOK ==
  /\ sender \in {"master", "remote"}
  /\ idx \in [Ring -> Index]
  /\ ring \in [Ring -> [Buffer -> Buffer]]
  /\ cons \in [Ring -> Index]
  /\ buffer \in [Buffer -> Message \cup {NoMessage}]
  /\ tx \in [pc : {"Idle", "Alloc", "Take", "Header", "Data", "Slot", "Publish", "Kick"},
             buf : Buffer, msg : Message \cup {NoMessage}]
  /\ rx \in [pc : {"Idle", "Check", "Receive", "Callback", "FreeSlot", "Free"},
             buf : Buffer]
  /\ notified \in BOOLEAN
  /\ delivered \in {<<>>} \cup {<<m>> : m \in Message}

(* How far a writer's index is ahead of its reader's. *)
Ahead(c, i) == (i - c) % IndexRange

(* The entries of ring r that its reader has still to take, oldest first.  *)
Entries(r) ==
  [k \in 1 .. Ahead(cons[r], idx[r]) |-> ring[r][SlotOf(cons[r] + k - 1)]]

InTx == tx.pc \in {"Header", "Data", "Slot", "Publish"}
InRx == rx.pc \in {"Callback", "FreeSlot", "Free"}

(* Wherever the two cores are, every buffer is in exactly one place: in    *)
(* one entry of one ring, with the sender or with the receiver.  The rings *)
(* neither lose a buffer nor hand one to both cores, also when the 16-bit  *)
(* indices wrap.                                                           *)
OneOwner ==
  \A b \in Buffer :
    Cardinality({k \in DOMAIN Entries(Out) : Entries(Out)[k] = b})
      + Cardinality({k \in DOMAIN Entries(Back) : Entries(Back)[k] = b})
      + (IF InTx /\ tx.buf = b THEN 1 ELSE 0)
      + (IF InRx /\ rx.buf = b THEN 1 ELSE 0) = 1

(* A message that is not delivered yet always has an interrupt coming: the *)
(* handler does not return for the last time between the sender's publish  *)
(* and its kick.                                                           *)
NoLostKick ==
  Entries(Out) # <<>> => notified \/ rx.pc # "Idle" \/ tx.pc = "Kick"

(* Messages sent and not yet given to the callback. *)
Queue ==
  (IF rx.pc = "Callback" THEN <<buffer[rx.buf]>> ELSE <<>>)
    \o [k \in DOMAIN Entries(Out) |-> buffer[Entries(Out)[k]]]

(* send_message drops a message only when every buffer holds an earlier    *)
(* one or is just being given back by the receiver.                        *)
RefusedOnlyWhenFull ==
  [][tx.pc = "Alloc" /\ tx'.pc = "Idle" =>
       Len(Entries(Out)) + (IF InRx THEN 1 ELSE 0) = RL_BUFFER_COUNT]_vars

(* Through the shared rings, each direction of the link is a FIFO of whole *)
(* messages, and every message sent is delivered.                          *)
Fifo == INSTANCE MessageFifo WITH queue <- Queue
ImplementsFifo == Fifo!FairSpec
=============================================================================
