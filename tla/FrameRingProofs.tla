--------------------------- MODULE FrameRingProofs ---------------------------
(***************************************************************************)
(* Theorems about FrameRing.tla, for every set of items and every ring of  *)
(* at least two slots.                                                     *)
(***************************************************************************)
EXTENDS FrameRing, SequenceTheorems, TLAPS

(* What the one that puts may count on between two of its steps: only it   *)
(* moves rear, and front only moves away from rear_next.                   *)
PutInv ==
  /\ put_pc # "Idle" => rear_next = After(rear) /\ put_item \in Item
  /\ put_pc \in {"Store", "Advance"} => rear_next # front
  /\ put_pc = "Advance" => buf[rear] = put_item

(* What the one that gets may count on: the slot at front stays filled and *)
(* is left alone until front moves.                                        *)
GetInv ==
  /\ get_pc \in {"Load", "Advance"} => rear # front
  /\ get_pc = "Advance" => front_next = front + 1 /\ item = buf[front]

(* GetLength is called by one of the two, which does nothing else          *)
(* meanwhile; the rear that it read may only fall behind.                  *)
LengthInv ==
  /\ length_of = "put" => put_pc = "Idle" /\ length_rear = rear
  /\ length_of = "get" =>
       get_pc = "Idle" /\ Used(length_rear, front) <= Used(rear, front)

(* Every slot from front up to rear holds an item. *)
Filled == \A s \in Slot : Used(s, front) < Used(rear, front) => buf[s] \in Item

IInv == TypeOK /\ PutInv /\ GetInv /\ LengthInv /\ Filled

-----------------------------------------------------------------------------
(* Counting around the ring: the slot after r, seen from f, is one further *)
(* unless it is f, and seen from the slot after f all others are one       *)
(* nearer.                                                                 *)
LEMMA Counting ==
  ASSUME SizeAssumption, NEW r \in Slot, NEW f \in Slot
  PROVE  /\ After(r) \in Slot
         /\ Used(r, f) \in 0 .. (size - 1)
         /\ Wrapped(r, f) = Used(r, f)
         /\ Used(f, f) = 0
         /\ After(r) # f => Used(After(r), f) = Used(r, f) + 1
         /\ r # f => Used(r, After(f)) = Used(r, f) - 1
         /\ Used(f, After(f)) = size - 1
         /\ r # f => After(r) # After(f) /\ Used(r, f) > 0
  BY DEF SizeAssumption, Slot, After, Used, Wrapped, Unwrapped

(* Two slots that are as far from f are the same. *)
LEMMA SameDistance ==
  ASSUME SizeAssumption, NEW r \in Slot, NEW s \in Slot, NEW f \in Slot
  PROVE  Used(r, f) = Used(s, f) => r = s
  BY DEF SizeAssumption, Slot, Used

LEMMA InitInv ==
  ASSUME SizeAssumption, Init
  PROVE  IInv
  BY DEF SizeAssumption, Init, IInv, TypeOK, PutInv, GetInv, LengthInv, Filled, Slot, Used

LEMMA StepInv ==
  ASSUME SizeAssumption, IInv, [Next]_vars
  PROVE  IInv'
<1> USE DEF IInv, TypeOK, ring, putVars, getVars, lengthVars
<1>1. ASSUME NEW i \in Item, PutReadRear(i) PROVE IInv'
  BY <1>1, Counting DEF PutReadRear, PutInv, GetInv, LengthInv, Filled
<1>2. CASE PutReadFront
  BY <1>2 DEF PutReadFront, PutInv, GetInv, LengthInv, Filled
<1>3. CASE PutStore
  <2>1. Filled'
    BY <1>3 DEF PutStore, Filled, PutInv
  <2> QED
    BY <1>3, <2>1 DEF PutStore, PutInv, GetInv, LengthInv
<1>4. CASE PutAdvance
  <2>1. rear' = After(rear) /\ rear' # front /\ Used(rear', front) = Used(rear, front) + 1
    BY <1>4, Counting DEF PutAdvance, PutInv
  <2>2. Filled'
    <3> SUFFICES ASSUME NEW s \in Slot, Used(s, front) < Used(rear, front) + 1
                 PROVE  buf[s] \in Item
      BY <1>4, <2>1 DEF PutAdvance, Filled
    <3>1. CASE s = rear
      BY <1>4, <3>1 DEF PutAdvance, PutInv
    <3>2. CASE s # rear
      <4>1. Used(s, front) < Used(rear, front)
        BY <3>2, Counting, SameDistance
      <4> QED
        BY <4>1 DEF Filled
    <3> QED
      BY <3>1, <3>2
  <2>3. LengthInv'
    <3>1. CASE length_of = "get"
      <4>1. Used(length_rear, front) <= Used(rear, front)
        BY <3>1 DEF LengthInv
      <4>2. Used(length_rear, front) <= Used(rear', front)
        BY <2>1, <4>1, Counting
      <4> QED
        BY <1>4, <3>1, <4>2 DEF PutAdvance, LengthInv
    <3> QED
      BY <1>4, <3>1 DEF PutAdvance, LengthInv
  <2> QED
    BY <1>4, <2>1, <2>2, <2>3, Counting DEF PutAdvance, PutInv, GetInv
<1>5. CASE GetReadRear
  BY <1>5 DEF GetReadRear, PutInv, GetInv, LengthInv, Filled
<1>6. CASE GetLoad
  <2>1. Used(front, front) < Used(rear, front)
    BY <1>6, Counting DEF GetLoad, GetInv
  <2>2. buf[front] \in Item
    BY <2>1 DEF Filled
  <2>3. TypeOK'
    BY <1>6, <2>2 DEF GetLoad, Slot, SizeAssumption
  <2> QED
    BY <1>6, <2>3 DEF GetLoad, PutInv, GetInv, LengthInv, Filled
<1>7. CASE GetAdvance
  <2>1. front' = After(front) /\ rear # front
    BY <1>7 DEF GetAdvance, GetInv, After
  <2>2. Filled'
    <3> SUFFICES ASSUME NEW s \in Slot, Used(s, After(front)) < Used(rear, After(front))
                 PROVE  buf[s] \in Item
      BY <1>7, <2>1 DEF GetAdvance, Filled
    <3>1. s # front
      BY <2>1, Counting
    <3>2. Used(s, front) < Used(rear, front)
      BY <2>1, <3>1, Counting
    <3> QED
      BY <3>2 DEF Filled
  <2>3. PutInv'
    BY <1>7, <2>1, Counting DEF GetAdvance, PutInv
  <2>4. length_of # "get"
    BY <1>7 DEF GetAdvance, LengthInv
  <2> QED
    BY <1>7, <2>1, <2>2, <2>3, <2>4, Counting DEF GetAdvance, GetInv, LengthInv
<1>8. ASSUME NEW who \in {"put", "get"}, LengthReadRear(who) PROVE IInv'
  BY <1>8, Counting DEF LengthReadRear, PutInv, GetInv, LengthInv, Filled
<1>9. CASE LengthReadFront
  <2>1. length' \in Slot
    BY <1>9, Counting DEF LengthReadFront, Slot
  <2> QED
    BY <1>9, <2>1 DEF LengthReadFront, PutInv, GetInv, LengthInv, Filled
<1>10. CASE UNCHANGED vars
  BY <1>10 DEF vars, PutInv, GetInv, LengthInv, Filled
<1> QED
  BY <1>1, <1>2, <1>3, <1>4, <1>5, <1>6, <1>7, <1>8, <1>9, <1>10 DEF Next

(* The ring's state stays consistent whatever the interleaving. *)
THEOREM Inductive ==
  ASSUME SizeAssumption
  PROVE  Spec => []IInv
<1>1. Init => IInv
  BY InitInv
<1>2. IInv /\ [Next]_vars => IInv'
  BY StepInv
<1> QED
  BY <1>1, <1>2, PTL DEF Spec

(* rear, front and what GetLength returns are indices of the ring. *)
THEOREM TypeCorrect ==
  ASSUME SizeAssumption
  PROVE  Spec => []TypeOK
<1>1. IInv => TypeOK
  BY DEF IInv
<1> QED
  BY <1>1, Inductive, PTL

(* The slot VIDEO_RINGBUF_Put writes is never the one that                 *)
(* VIDEO_RINGBUF_Get reads.                                                *)
THEOREM NeverTheSameSlot ==
  ASSUME SizeAssumption
  PROVE  Spec => []SlotsApart
<1>1. IInv => SlotsApart
  BY DEF IInv, GetInv, SlotsApart
<1> QED
  BY <1>1, Inductive, PTL

(* GetLength is exact for the one that puts and never too much for the one *)
(* that gets.                                                              *)
THEOREM LengthCanBeRelied ==
  ASSUME SizeAssumption
  PROVE  Spec => LengthIsSafe
<1>1. ASSUME IInv, LengthReadFront
      PROVE  /\ length_of = "put" => length' = Used(rear, front)
             /\ length_of = "get" => length' <= Used(rear, front)
  <2>1. length' = Used(length_rear, front)
    BY <1>1, Counting DEF IInv, TypeOK, LengthReadFront
  <2> QED
    BY <1>1, <2>1 DEF IInv, LengthInv
<1>2. IInv /\ [Next]_vars =>
        [LengthReadFront =>
           /\ length_of = "put" => length' = Used(rear, front)
           /\ length_of = "get" => length' <= Used(rear, front)]_vars
  BY <1>1
<1> QED
  BY <1>2, Inductive, PTL DEF Spec, LengthIsSafe

-----------------------------------------------------------------------------
(* The k-th slot from f on is k - 1 slots away from f. *)
LEMMA Places ==
  ASSUME SizeAssumption, NEW r \in Slot, NEW f \in Slot, NEW k \in 1 .. Used(r, f)
  PROVE  /\ Place(f, k) \in Slot
         /\ Place(f, k) # r
         /\ Used(Place(f, k), f) < Used(r, f)
         /\ Place(f, 1) = f
         /\ k + 1 <= Used(r, f) => Place(After(f), k) = Place(f, k + 1)
  BY DEF SizeAssumption, Slot, Used, Place, After

LEMMA PlaceOfRear ==
  ASSUME SizeAssumption, NEW r \in Slot, NEW f \in Slot
  PROVE  Place(f, Used(r, f) + 1) = r
  BY DEF SizeAssumption, Slot, Used, Place

(* The next slot to be got is one of the ring's, and rear has not caught   *)
(* up with it.                                                             *)
LEMMA FirstInRing ==
  ASSUME SizeAssumption, IInv
  PROVE  /\ First \in Slot
         /\ put_pc = "Advance" => After(rear) # First
  BY Counting DEF IInv, TypeOK, PutInv, GetInv, First

(* The ring holds items, as many as there are slots from the first one up  *)
(* to rear.                                                                *)
LEMMA ContentsOfRing ==
  ASSUME SizeAssumption, IInv
  PROVE  /\ Contents \in Seq(Item)
         /\ Len(Contents) = Used(rear, First)
         /\ \A k \in 1 .. Used(rear, First) : Contents[k] = buf[Place(First, k)]
<1>1. First \in Slot /\ rear \in Slot /\ Used(rear, First) \in 0 .. (size - 1)
  BY FirstInRing, Counting DEF IInv, TypeOK
<1>2. ASSUME NEW s \in Slot, Used(s, First) < Used(rear, First) PROVE buf[s] \in Item
  <2>1. CASE get_pc # "Advance"
    BY <1>2, <2>1 DEF First, IInv, Filled
  <2>2. CASE get_pc = "Advance"
    <3>1. First = After(front) /\ front \in Slot /\ rear # front
      BY <2>2 DEF First, IInv, TypeOK, GetInv
    <3>2. s # front
      BY <1>1, <1>2, <3>1, Counting
    <3>3. Used(s, front) < Used(rear, front)
      BY <1>1, <1>2, <3>1, <3>2, Counting
    <3> QED
      BY <3>3 DEF IInv, Filled
  <2> QED
    BY <2>1, <2>2
<1>3. ASSUME NEW k \in 1 .. Used(rear, First) PROVE buf[Place(First, k)] \in Item
  BY <1>1, <1>2, Places
<1>4. Contents \in [1 .. Used(rear, First) -> Item]
  BY <1>3 DEF Contents
<1>5. Used(rear, First) \in Nat
  BY <1>1 DEF SizeAssumption
<1> QED
  BY <1>4, <1>5 DEF Contents

LEMMA NoChange ==
  ASSUME SizeAssumption, IInv, IInv',
         rear' = rear, First' = First, item' = item,
         \A s \in Slot : s # rear => buf'[s] = buf[s]
  PROVE  UNCHANGED Fifo!vars
<1>1. First \in Slot /\ rear \in Slot
  BY FirstInRing DEF IInv, TypeOK
<1>2. \A k \in 1 .. Used(rear, First) : buf'[Place(First, k)] = buf[Place(First, k)]
  BY <1>1, Places
<1>3. Contents' = [k \in 1 .. Used(rear, First) |-> buf'[Place(First, k)]]
  BY DEF Contents, Used, Place
<1>4. Contents' = Contents
  BY <1>2, <1>3 DEF Contents
<1> QED
  BY <1>4 DEF Fifo!vars

(* To advance rear is to send the item that was put. *)
LEMMA SendStep ==
  ASSUME SizeAssumption, IInv, IInv', PutAdvance
  PROVE  Fifo!Send
<1> DEFINE used == Used(rear, First)
<1>1. /\ First' = First /\ buf' = buf /\ item' = item
      /\ put_item \in Item /\ buf[rear] = put_item /\ rear' = After(rear)
  BY DEF PutAdvance, First, IInv, PutInv, getVars, After
<1>2. First \in Slot /\ rear \in Slot /\ rear' \in Slot /\ rear' # First
  BY <1>1, FirstInRing DEF IInv, TypeOK, PutAdvance
<1>3. Used(rear', First) = used + 1 /\ used \in 0 .. (size - 1) /\ used + 1 \in 0 .. (size - 1)
  BY <1>1, <1>2, Counting
<1>4. /\ Contents \in Seq(Item) /\ Len(Contents) = used
      /\ \A k \in 1 .. used : Contents[k] = buf[Place(First, k)]
  BY ContentsOfRing
<1>5. Contents' = [k \in 1 .. (used + 1) |-> buf[Place(First, k)]]
  BY <1>1, <1>3 DEF Contents, Used, Place
<1>6. buf[Place(First, used + 1)] = put_item
  BY <1>1, <1>2, PlaceOfRear
<1>7. /\ Append(Contents, put_item) \in [1 .. (used + 1) -> Item]
      /\ \A k \in 1 .. used : Append(Contents, put_item)[k] = Contents[k]
      /\ Append(Contents, put_item)[used + 1] = put_item
  <2>1. Append(Contents, put_item) \in Seq(Item) /\ Len(Append(Contents, put_item)) = used + 1
    BY <1>1, <1>4, AppendProperties
  <2>2. Append(Contents, put_item) \in [1 .. (used + 1) -> Item]
    BY <2>1, LenProperties
  <2> QED
    BY <1>1, <1>4, <2>2, AppendProperties
<1>8. \A k \in 1 .. (used + 1) : Append(Contents, put_item)[k] = buf[Place(First, k)]
  BY <1>3, <1>4, <1>6, <1>7 DEF SizeAssumption
<1>9. Contents' = Append(Contents, put_item)
  BY <1>5, <1>7, <1>8
<1>10. Len(Contents) < size - 1
  BY <1>3, <1>4 DEF SizeAssumption
<1> QED
  BY <1>1, <1>9, <1>10 DEF Fifo!Send

(* To load the item at front is to deliver the oldest one. *)
LEMMA DeliverStep ==
  ASSUME SizeAssumption, NothingAssumption, IInv, IInv', GetLoad
  PROVE  Fifo!Deliver
<1> DEFINE used == Used(rear, front)
<1>1. First = front /\ First' = After(front) /\ rear' = rear /\ buf' = buf /\ item' = buf[front]
  BY DEF GetLoad, First, ring, After
<1>2. front \in Slot /\ rear \in Slot /\ rear # front
  BY DEF GetLoad, IInv, TypeOK, GetInv
<1>3. Used(rear, After(front)) = used - 1 /\ used \in 1 .. (size - 1)
  BY <1>2, Counting
<1>4. /\ Contents \in Seq(Item) /\ Len(Contents) = used
      /\ \A k \in 1 .. used : Contents[k] = buf[Place(front, k)]
  BY <1>1, ContentsOfRing
<1>5. Contents # <<>>
  BY <1>3, <1>4
<1>6. Head(Contents) = buf[front] /\ Head(Contents) \in Item
  <2>1. Contents[1] = buf[front] /\ Contents[1] \in Item
    BY <1>2, <1>3, <1>4, Places
  <2> QED
    BY <1>4, <1>5, <2>1, HeadTailProperties
<1>7. Contents' = [k \in 1 .. (used - 1) |-> buf[Place(After(front), k)]]
  BY <1>1, <1>3 DEF Contents, Used, Place
<1>8. \A k \in 1 .. (used - 1) : Place(After(front), k) = Place(front, k + 1)
  BY <1>2, <1>3, Places
<1>9. /\ Tail(Contents) \in [1 .. (used - 1) -> Item]
      /\ \A k \in 1 .. (used - 1) : Tail(Contents)[k] = Contents[k + 1]
  BY <1>3, <1>4, <1>5, HeadTailProperties, LenProperties
<1>10. \A k \in 1 .. (used - 1) : Contents[k + 1] = buf[Place(front, k + 1)]
  BY <1>3, <1>4 DEF SizeAssumption
<1>11. Contents' = Tail(Contents)
  BY <1>7, <1>8, <1>9, <1>10
<1>12. item' # Nothing
  BY <1>1, <1>6 DEF NothingAssumption
<1> QED
  BY <1>1, <1>5, <1>6, <1>11, <1>12 DEF Fifo!Deliver

(* Whatever the interleaving of VIDEO_RINGBUF_Put with VIDEO_RINGBUF_Get,  *)
(* the ring is a FIFO of the items put, which holds one item less than it  *)
(* has slots.                                                              *)
THEOREM RingIsFifo ==
  ASSUME SizeAssumption, NothingAssumption
  PROVE  Spec => ImplementsFifo
<1>1. Init => Fifo!Init
  <2> SUFFICES ASSUME Init PROVE Fifo!Init
    OBVIOUS
  <2>1. Used(rear, First) = 0
    BY DEF Init, First, Used, SizeAssumption
  <2>2. Len(Contents) = 0 /\ Contents \in Seq(Item)
    BY <2>1, InitInv, ContentsOfRing
  <2>3. Contents = <<>>
    BY <2>2, EmptySeq
  <2> QED
    BY <2>3 DEF Init, Fifo!Init
<1>2. IInv /\ IInv' /\ [Next]_vars => [Fifo!Next]_(Fifo!vars)
  <2> SUFFICES ASSUME IInv, IInv', [Next]_vars
               PROVE  Fifo!Next \/ UNCHANGED Fifo!vars
    OBVIOUS
  <2> USE DEF ring, putVars, getVars, lengthVars, First
  <2>1. CASE PutAdvance
    BY <2>1, SendStep DEF Fifo!Next
  <2>2. CASE GetLoad
    BY <2>2, DeliverStep DEF Fifo!Next
  <2>3. CASE PutStore
    BY <2>3, NoChange DEF PutStore, IInv, TypeOK
  <2>4. CASE GetAdvance
    <3>1. After(front) = front'
      BY <2>4 DEF GetAdvance, IInv, GetInv, After
    <3>2. First' = First
      BY <2>4, <3>1 DEF GetAdvance
    <3> QED
      BY <2>4, <3>2, NoChange DEF GetAdvance
  <2>5. CASE \/ \E i \in Item : PutReadRear(i)
             \/ PutReadFront \/ GetReadRear
             \/ \E who \in {"put", "get"} : LengthReadRear(who)
             \/ LengthReadFront \/ UNCHANGED vars
    <3>1. rear' = rear /\ front' = front /\ buf' = buf /\ item' = item
      BY <2>5
      DEF PutReadRear, PutReadFront, GetReadRear, LengthReadRear, LengthReadFront, vars
    <3>2. get_pc = "Advance" <=> get_pc' = "Advance"
      BY <2>5
      DEF PutReadRear, PutReadFront, GetReadRear, LengthReadRear, LengthReadFront, vars
    <3>3. First' = First
      BY <3>1, <3>2 DEF After
    <3> QED
      BY <3>1, <3>3, NoChange
  <2> QED
    BY <2>1, <2>2, <2>3, <2>4, <2>5 DEF Next
<1> QED
  BY <1>1, <1>2, Inductive, PTL DEF Spec, ImplementsFifo, Fifo!Spec
=============================================================================
