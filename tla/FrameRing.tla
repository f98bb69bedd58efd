------------------------------ MODULE FrameRing ------------------------------
(***************************************************************************)
(* VIDEO_RINGBUF (drivers/video/fsl_video_common.c): a ring of frame       *)
(* buffers between one that puts and one that gets, such as an interrupt   *)
(* handler and the main loop, without a lock.  One step per access to the  *)
(* volatile rear, front and buf.                                           *)
(***************************************************************************)
EXTENDS Integers

CONSTANTS
  Item,               \* the pointers put into the ring
  Nothing,            \* what a slot holds before the first put
  size                \* slots of the ring

SizeAssumption == size \in Nat \ {0, 1}
NothingAssumption == Nothing \notin Item

Slot == 0 .. (size - 1)

VARIABLES
  rear, front, buf,
  put_pc, put_item, rear_next,    \* VIDEO_RINGBUF_Put
  get_pc, item, front_next,       \* VIDEO_RINGBUF_Get
  length_of,          \* who calls GetLength: "put", "get" or "none"
  length_rear, length \* the rear it read, and its result

ring == <<rear, front, buf>>
putVars == <<put_pc, put_item, rear_next>>
getVars == <<get_pc, item, front_next>>
lengthVars == <<length_of, length_rear, length>>
vars == <<ring, putVars, getVars, lengthVars>>

Init ==
  /\ rear = 0 /\ front = 0 /\ buf = [s \in Slot |-> Nothing]
  /\ put_pc = "Idle" /\ put_item = Nothing /\ rear_next = 0
  /\ get_pc = "Idle" /\ item = Nothing /\ front_next = 0
  /\ length_of = "none" /\ length_rear = 0 /\ length = 0

After(index) == IF index + 1 = size THEN 0 ELSE index + 1

-----------------------------------------------------------------------------
PutReadRear(i) ==
  /\ put_pc = "Idle" /\ length_of # "put"
  /\ put_item' = i
  /\ rear_next' = After(rear)
  /\ put_pc' = "Room"
  /\ UNCHANGED <<ring, getVars, lengthVars>>

FillsLastSlot ==
  /\ put_pc = "Room"
  /\ put_pc' = "Store"
  /\ UNCHANGED <<ring, put_item, rear_next, getVars, lengthVars>>

(* No room: the caller keeps its item and may try again. *)
PutReadFront ==
  /\ put_pc = "Room"
  /\ put_pc' = IF rear_next = front THEN "Idle" ELSE "Store"
  /\ UNCHANGED <<ring, put_item, rear_next, getVars, lengthVars>>

PutStore ==
  /\ put_pc = "Store" /\ put_pc' = "Advance"
  /\ buf' = [buf EXCEPT ![rear] = put_item]
  /\ UNCHANGED <<rear, front, put_item, rear_next, getVars, lengthVars>>

PutAdvance ==
  /\ put_pc = "Advance" /\ put_pc' = "Idle"
  /\ rear' = rear_next
  /\ UNCHANGED <<front, buf, put_item, rear_next, getVars, lengthVars>>

-----------------------------------------------------------------------------
(* An empty ring returns a failure and changes nothing. *)
GetReadRear ==
  /\ get_pc = "Idle" /\ length_of # "get"
  /\ rear # front
  /\ get_pc' = "Load"
  /\ UNCHANGED <<ring, putVars, item, front_next, lengthVars>>

GetLoad ==
  /\ get_pc = "Load" /\ get_pc' = "Advance"
  /\ item' = buf[front]
  /\ front_next' = front + 1
  /\ UNCHANGED <<ring, putVars, lengthVars>>

(* Two steps, so that front is always a valid value. *)
GetAdvance ==
  /\ get_pc = "Advance" /\ get_pc' = "Idle"
  /\ front' = IF front_next = size THEN 0 ELSE front_next
  /\ UNCHANGED <<rear, buf, putVars, item, front_next, lengthVars>>

-----------------------------------------------------------------------------
LengthReadRear(who) ==
  /\ length_of = "none"
  /\ who = "put" => put_pc = "Idle"
  /\ who = "get" => get_pc = "Idle"
  /\ length_of' = who
  /\ length_rear' = rear
  /\ UNCHANGED <<ring, putVars, getVars, length>>

Unwrapped(r, f) == r + size - f

Wrapped(r, f) == IF Unwrapped(r, f) >= size THEN Unwrapped(r, f) - size ELSE Unwrapped(r, f)

LengthReadFront ==
  /\ length_of # "none" /\ length_of' = "none"
  /\ length' = Wrapped(length_rear, front)
  /\ UNCHANGED <<ring, putVars, getVars, length_rear>>

Next ==
  \/ \E i \in Item : PutReadRear(i)
  \/ PutReadFront \/ PutStore \/ PutAdvance
  \/ GetReadRear \/ GetLoad \/ GetAdvance
  \/ \E who \in {"put", "get"} : LengthReadRear(who)
  \/ LengthReadFront

Spec == Init /\ [][Next]_vars

-----------------------------------------------------------------------------
(* Every index is one of the ring's: rear and front never rest at size.    *)
TypeOK ==
  /\ rear \in Slot /\ front \in Slot /\ rear_next \in Slot
  /\ length_rear \in Slot /\ length \in Slot
  /\ front_next \in 0 .. size
  /\ buf \in [Slot -> Item \cup {Nothing}]
  /\ put_item \in Item \cup {Nothing} /\ item \in Item \cup {Nothing}
  /\ put_pc \in {"Idle", "Room", "Store", "Advance"}
  /\ get_pc \in {"Idle", "Load", "Advance"}
  /\ length_of \in {"none", "put", "get"}

(* No lock is needed: the slot that is being written is never the slot     *)
(* that is being read.                                                     *)
SlotsApart ==
  get_pc = "Load" /\ put_pc \in {"Store", "Advance"} => rear # front

Used(r, f) == IF r >= f THEN r - f ELSE r + size - f

(* GetLength reads rear and front at two moments.  What it tells the one   *)
(* that puts is the number of items in the ring when it returns, and what  *)
(* it tells the one that gets is at most that number: neither ever counts  *)
(* on a slot or an item that is not there.                                 *)
LengthIsSafe ==
  [][LengthReadFront =>
       /\ length_of = "put" => length' = Used(rear, front)
       /\ length_of = "get" => length' <= Used(rear, front)]_vars

(* The slots from the next one to be got to the last one put. *)
First == IF get_pc = "Advance" THEN After(front) ELSE front

(* The k-th slot from f on. *)
Place(f, k) == IF f + k - 1 >= size THEN f + k - 1 - size ELSE f + k - 1

Contents == [k \in 1 .. Used(rear, First) |-> buf[Place(First, k)]]

Fifo == INSTANCE MessageFifo WITH
  Message <- Item,
  RL_BUFFER_COUNT <- size - 1,
  queue <- Contents,
  delivered <- IF item = Nothing THEN <<>> ELSE <<item>>

(* Whatever the interleaving of a put with a get, items come out whole,    *)
(* once each, in the order they went in, and the ring holds one item less  *)
(* than it has slots.                                                      *)
ImplementsFifo == Fifo!Spec
=============================================================================
