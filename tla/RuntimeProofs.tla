----------------------------- MODULE RuntimeProofs -----------------------------
(***************************************************************************)
(* Theorems about Runtime.tla.  First the rings between the cores, for     *)
(* either direction of the link, every number of buffers and every range   *)
(* of the ring indices that it divides; then the console and delay; and    *)
(* then all of the components beside each other, the ring of video frames  *)
(* and quicksort with the theorems of their own modules of proofs.         *)
(***************************************************************************)
EXTENDS Runtime, SequenceTheorems, FiniteSetTheorems, TLAPS

(* A product with a positive factor is no smaller than the other one.      *)
LEMMA Product ==
  ASSUME NEW d \in Nat, NEW k \in Nat \ {0}
  PROVE  d * k >= d
<1>1. PICK j \in Nat : k = j + 1
  <2>1. k - 1 \in Nat /\ k = (k - 1) + 1
    OBVIOUS
  <2> QED
    BY <2>1
<1>2. d * j >= 0
  BY Z3
<1>3. d * k = d * j + d
  BY <1>1, Z3
<1> QED
  BY <1>2, <1>3

LEMMA Division ==
  ASSUME NEW d \in Nat \ {0}, NEW n \in Int
  PROVE  n \div d \in Int /\ n % d \in 0 .. (d - 1) /\ n = d * (n \div d) + (n % d)
  BY Z3

LEMMA Remainder ==
  ASSUME NEW d \in Nat \ {0}, NEW q \in Int, NEW r \in 0 .. (d - 1)
  PROVE  (d * q + r) % d = r
<1> DEFINE n == d * q + r
           p == n \div d
           s == n % d
<1>1. n \in Int
  BY Z3
<1>2. p \in Int /\ s \in 0 .. (d - 1) /\ n = d * p + s
  BY <1>1, Division
<1>3. d * (q - p) = s - r
  BY <1>2, Z3
<1>4. ~(q - p > 0)
  <2> SUFFICES ASSUME q - p > 0 PROVE FALSE
    OBVIOUS
  <2>1. q - p \in Nat \ {0}
    BY <1>2
  <2>2. d * (q - p) >= d
    BY <2>1, Product
  <2> HIDE DEF p, s
  <2> QED
    BY <1>2, <1>3, <2>2
<1>5. ~(p - q > 0)
  <2> SUFFICES ASSUME p - q > 0 PROVE FALSE
    OBVIOUS
  <2>1. p - q \in Nat \ {0}
    BY <1>2
  <2>2. d * (p - q) >= d
    BY <2>1, Product
  <2>3. d * (p - q) = r - s
    BY <1>2, <1>3, Z3
  <2> HIDE DEF p, s
  <2> QED
    BY <1>2, <2>2, <2>3
<1>6. p = q
  BY <1>2, <1>4, <1>5
<1> HIDE DEF n, p, s
<1>7. d * p = d * q
  BY <1>6
<1>8. s = r
  BY <1>2, <1>7, Z3 DEF n
<1> QED
  BY <1>8 DEF n, s

(* Further by less than d. *)
LEMMA RemainderFurther ==
  ASSUME NEW d \in Nat \ {0}, NEW n \in Int, NEW k \in 0 .. d
  PROVE  (n + k) % d =
          IF (n % d) + k >= d THEN (n % d) + k - d ELSE (n % d) + k
<1> DEFINE q == n \div d
           r == n % d
<1>1. q \in Int /\ r \in 0 .. (d - 1) /\ n = d * q + r
  BY Division
<1> HIDE DEF q, r
<1>2. CASE r + k >= d
  <2>1. n + k = d * (q + 1) + (r + k - d) /\ r + k - d \in 0 .. (d - 1)
    BY <1>1, <1>2, Z3
  <2>2. (d * (q + 1) + (r + k - d)) % d = r + k - d
    BY <1>1, <2>1, Remainder
  <2> QED
    BY <1>2, <2>1, <2>2 DEF r
<1>3. CASE r + k < d
  <2>1. n + k = d * q + (r + k) /\ r + k \in 0 .. (d - 1)
    BY <1>1, <1>3, Z3
  <2>2. (d * q + (r + k)) % d = r + k
    BY <1>1, <2>1, Remainder
  <2> QED
    BY <1>1, <1>3, <2>1, <2>2 DEF r
<1> QED
  BY <1>1, <1>2, <1>3

-----------------------------------------------------------------------------
(* The slot n after slot s, and how far slot s is from slot f. *)
Rotated(s, n) == IF s + n >= RL_BUFFER_COUNT THEN s + n - RL_BUFFER_COUNT ELSE s + n
Distance(f, s) == IF s >= f THEN s - f ELSE s - f + RL_BUFFER_COUNT

(* The slots between a reader's and a writer's index. *)
Filled(c, i) == {s \in Buffer : Distance(SlotOf(c), s) < Ahead(c, i)}

LEMMA Wraps == \E m \in Nat : IndexRange = RL_BUFFER_COUNT * m
<1>1. /\ IndexRange \div RL_BUFFER_COUNT \in Int
      /\ IndexRange = RL_BUFFER_COUNT * (IndexRange \div RL_BUFFER_COUNT)
  BY BufferAssumption, IndexAssumption, Division
<1>2. IndexRange \div RL_BUFFER_COUNT >= 0
  BY BufferAssumption, IndexAssumption, Z3
<1> QED
  BY <1>1, <1>2

(* A slot may be counted by an index before or after it wrapped. *)
LEMMA SlotWraps ==
  ASSUME NEW i \in Int
  PROVE  SlotOf(i + IndexRange) = SlotOf(i) /\ SlotOf(i) \in Buffer
<1> DEFINE q == i \div RL_BUFFER_COUNT
           r == i % RL_BUFFER_COUNT
<1>1. q \in Int /\ r \in 0 .. (RL_BUFFER_COUNT - 1) /\ i = RL_BUFFER_COUNT * q + r
  BY BufferAssumption, Division
<1>2. PICK m \in Nat : IndexRange = RL_BUFFER_COUNT * m
  BY Wraps
<1> HIDE DEF q, r
<1>3. i + IndexRange = RL_BUFFER_COUNT * (q + m) + r
  BY <1>1, <1>2, BufferAssumption, Z3
<1>4. (RL_BUFFER_COUNT * (q + m) + r) % RL_BUFFER_COUNT = r
  BY <1>1, BufferAssumption, Remainder
<1> QED
  BY <1>1, <1>3, <1>4 DEF SlotOf, r, Buffer

LEMMA SlotFurther ==
  ASSUME NEW i \in Int, NEW n \in 0 .. RL_BUFFER_COUNT
  PROVE  SlotOf(i + n) = Rotated(SlotOf(i), n)
  BY BufferAssumption, RemainderFurther DEF SlotOf, Rotated

LEMMA AfterIndex ==
  ASSUME NEW i \in Index
  PROVE  /\ After(i) \in Index
         /\ After(i) = IF i + 1 = IndexRange THEN 0 ELSE i + 1
         /\ SlotOf(After(i)) = Rotated(SlotOf(i), 1)
<1>1. After(i) = IF i + 1 = IndexRange THEN 0 ELSE i + 1
  <2>1. CASE i + 1 = IndexRange
    <3>1. (IndexRange * 1 + 0) % IndexRange = 0
      BY IndexAssumption, BufferAssumption, Remainder
    <3>2. IndexRange * 1 + 0 = i + 1
      BY <2>1, IndexAssumption
    <3> QED
      BY <2>1, <3>1, <3>2 DEF After
  <2>2. CASE i + 1 # IndexRange
    <3>1. i + 1 \in 0 .. (IndexRange - 1)
      BY <2>2, IndexAssumption DEF Index
    <3>2. (IndexRange * 0 + (i + 1)) % IndexRange = i + 1
      BY <3>1, IndexAssumption, BufferAssumption, Remainder
    <3>3. IndexRange * 0 + (i + 1) = i + 1
      BY IndexAssumption, <3>1
    <3> QED
      BY <2>2, <3>2, <3>3 DEF After
  <2> QED
    BY <2>1, <2>2
<1>2. SlotOf(i + 1) = Rotated(SlotOf(i), 1)
  BY SlotFurther, BufferAssumption DEF Index
<1>3. SlotOf(0 + IndexRange) = SlotOf(0)
  BY SlotWraps
<1>4. i + 1 = IndexRange => SlotOf(0) = SlotOf(i + 1)
  BY <1>3, IndexAssumption
<1> QED
  BY <1>1, <1>2, <1>4, IndexAssumption DEF Index

LEMMA AheadOf ==
  ASSUME NEW c \in Index, NEW i \in Index
  PROVE  /\ Ahead(c, i) = IF i >= c THEN i - c ELSE i - c + IndexRange
         /\ Ahead(c, i) \in Nat
         /\ Ahead(c, i) = 0 <=> c = i
<1>1. CASE i >= c
  <2>1. i - c \in 0 .. (IndexRange - 1)
    BY <1>1, IndexAssumption DEF Index
  <2>2. (IndexRange * 0 + (i - c)) % IndexRange = i - c
    BY <2>1, IndexAssumption, BufferAssumption, Remainder
  <2>3. IndexRange * 0 + (i - c) = i - c
    BY IndexAssumption, <2>1
  <2> QED
    BY <1>1, <2>1, <2>2, <2>3 DEF Ahead, Index
<1>2. CASE i < c
  <2>1. i - c + IndexRange \in 1 .. (IndexRange - 1)
    BY <1>2, IndexAssumption DEF Index
  <2>2. (IndexRange * (-1) + (i - c + IndexRange)) % IndexRange = i - c + IndexRange
    BY <2>1, IndexAssumption, BufferAssumption, Remainder
  <2>3. IndexRange * (-1) + (i - c + IndexRange) = i - c
    BY <1>2, IndexAssumption DEF Index
  <2> QED
    BY <1>2, <2>1, <2>2, <2>3 DEF Ahead, Index
<1> QED
  BY <1>1, <1>2 DEF Index

(* Where the writer is, counted from the reader. *)
LEMMA WriterSlot ==
  ASSUME NEW c \in Index, NEW i \in Index, Ahead(c, i) <= RL_BUFFER_COUNT
  PROVE  SlotOf(i) = Rotated(SlotOf(c), Ahead(c, i))
<1>1. Ahead(c, i) \in 0 .. RL_BUFFER_COUNT
  BY AheadOf, BufferAssumption
<1>2. SlotOf(c + Ahead(c, i)) = Rotated(SlotOf(c), Ahead(c, i))
  BY <1>1, SlotFurther DEF Index
<1>3. c + Ahead(c, i) = i \/ c + Ahead(c, i) = i + IndexRange
  BY AheadOf, IndexAssumption DEF Index
<1>4. SlotOf(i + IndexRange) = SlotOf(i)
  BY SlotWraps DEF Index
<1> QED
  BY <1>2, <1>3, <1>4

(* To take an entry empties the reader's slot only. *)
LEMMA TakeSlot ==
  ASSUME NEW c \in Index, NEW i \in Index, Ahead(c, i) \in 1 .. RL_BUFFER_COUNT
  PROVE  /\ SlotOf(c) \in Filled(c, i)
         /\ Ahead(After(c), i) = Ahead(c, i) - 1
         /\ Filled(After(c), i) = Filled(c, i) \ {SlotOf(c)}
<1>1. SlotOf(c) \in Buffer /\ SlotOf(After(c)) = Rotated(SlotOf(c), 1)
  BY SlotWraps, AfterIndex DEF Index
<1>2. Ahead(After(c), i) = Ahead(c, i) - 1
  <2>1. After(c) \in Index /\ After(c) = IF c + 1 = IndexRange THEN 0 ELSE c + 1
    BY AfterIndex
  <2>2. Ahead(After(c), i) = IF i >= After(c) THEN i - After(c) ELSE i - After(c) + IndexRange
    BY <2>1, AheadOf
  <2>3. Ahead(c, i) = IF i >= c THEN i - c ELSE i - c + IndexRange
    BY AheadOf
  <2> QED
    BY <2>1, <2>2, <2>3, IndexAssumption, BufferAssumption DEF Index
<1>3. ASSUME NEW s \in Buffer, s # SlotOf(c)
      PROVE  Distance(Rotated(SlotOf(c), 1), s) = Distance(SlotOf(c), s) - 1
  BY <1>1, <1>3, BufferAssumption DEF Distance, Rotated, Buffer
<1>4. Distance(Rotated(SlotOf(c), 1), SlotOf(c)) = RL_BUFFER_COUNT - 1
  BY <1>1, BufferAssumption DEF Distance, Rotated, Buffer
<1>5. Distance(SlotOf(c), SlotOf(c)) = 0
  BY <1>1, BufferAssumption DEF Distance, Buffer
<1>6. \A s \in Buffer : Distance(SlotOf(c), s) \in Int
  BY <1>1, BufferAssumption DEF Distance, Buffer
<1>7. SlotOf(c) \in Filled(c, i)
  BY <1>1, <1>5 DEF Filled
<1>8. ASSUME NEW s \in Buffer
      PROVE  s \in Filled(After(c), i) <=> s \in Filled(c, i) /\ s # SlotOf(c)
  <2>1. CASE s = SlotOf(c)
    BY <1>1, <1>2, <1>4, <2>1, BufferAssumption DEF Filled
  <2>2. CASE s # SlotOf(c)
    BY <1>1, <1>2, <1>3, <1>6, <2>2 DEF Filled
  <2> QED
    BY <2>1, <2>2
<1> QED
  BY <1>2, <1>7, <1>8 DEF Filled

(* To publish an entry fills the writer's slot, which was empty, only. *)
LEMMA PutSlot ==
  ASSUME NEW c \in Index, NEW i \in Index, Ahead(c, i) \in 0 .. (RL_BUFFER_COUNT - 1)
  PROVE  /\ SlotOf(i) \in Buffer \ Filled(c, i)
         /\ Ahead(c, After(i)) = Ahead(c, i) + 1
         /\ Filled(c, After(i)) = Filled(c, i) \cup {SlotOf(i)}
<1>1. SlotOf(i) \in Buffer /\ SlotOf(c) \in Buffer
  BY SlotWraps DEF Index
<1>2. SlotOf(i) = Rotated(SlotOf(c), Ahead(c, i))
  BY WriterSlot, BufferAssumption
<1>3. Distance(SlotOf(c), SlotOf(i)) = Ahead(c, i)
  BY <1>1, <1>2, BufferAssumption DEF Distance, Rotated, Buffer
<1>4. Ahead(c, After(i)) = Ahead(c, i) + 1
  <2>1. After(i) \in Index /\ After(i) = IF i + 1 = IndexRange THEN 0 ELSE i + 1
    BY AfterIndex
  <2>2. Ahead(c, After(i)) = IF After(i) >= c THEN After(i) - c ELSE After(i) - c + IndexRange
    BY <2>1, AheadOf
  <2>3. Ahead(c, i) = IF i >= c THEN i - c ELSE i - c + IndexRange
    BY AheadOf
  <2> QED
    BY <2>1, <2>2, <2>3, IndexAssumption, BufferAssumption DEF Index
<1>5. ASSUME NEW s \in Buffer, Distance(SlotOf(c), s) = Distance(SlotOf(c), SlotOf(i))
      PROVE  s = SlotOf(i)
  BY <1>1, <1>5, BufferAssumption DEF Distance, Buffer
<1>6. \A s \in Buffer : Distance(SlotOf(c), s) \in Int
  BY <1>1, BufferAssumption DEF Distance, Buffer
<1>7. ASSUME NEW s \in Buffer
      PROVE  s \in Filled(c, After(i)) <=> s \in Filled(c, i) \/ s = SlotOf(i)
  BY <1>3, <1>4, <1>5, <1>6 DEF Filled
<1> QED
  BY <1>1, <1>3, <1>4, <1>7 DEF Filled

(* The entries from the reader's index on are those of the filled slots.   *)
LEMMA EntrySlots ==
  ASSUME NEW c \in Index, NEW i \in Index, Ahead(c, i) \in 0 .. RL_BUFFER_COUNT
  PROVE  /\ \A k \in 1 .. Ahead(c, i) : SlotOf(c + k - 1) \in Filled(c, i)
         /\ \A k, l \in 1 .. Ahead(c, i) : SlotOf(c + k - 1) = SlotOf(c + l - 1) => k = l
         /\ \A s \in Filled(c, i) : \E k \in 1 .. Ahead(c, i) : SlotOf(c + k - 1) = s
<1> DEFINE f == SlotOf(c)
           a == Ahead(c, i)
<1>1. f \in 0 .. (RL_BUFFER_COUNT - 1)
  BY SlotWraps DEF Index, Buffer
<1>2. \A k \in 1 .. a : SlotOf(c + k - 1) = Rotated(f, k - 1)
  <2> SUFFICES ASSUME NEW k \in 1 .. a PROVE SlotOf(c + k - 1) = Rotated(f, k - 1)
    OBVIOUS
  <2>1. k - 1 \in 0 .. RL_BUFFER_COUNT /\ c + (k - 1) = c + k - 1
    BY BufferAssumption DEF Index
  <2> QED
    BY <2>1, SlotFurther DEF Index
<1> HIDE DEF f
<1>3. \A k \in 1 .. a : Rotated(f, k - 1) \in Buffer /\ Distance(f, Rotated(f, k - 1)) = k - 1
  BY <1>1, BufferAssumption DEF Rotated, Distance, Buffer
<1>4. \A s \in Buffer : Distance(f, s) \in Nat /\ Rotated(f, Distance(f, s)) = s
  BY <1>1, BufferAssumption DEF Rotated, Distance, Buffer
<1>5. Filled(c, i) = {s \in Buffer : Distance(f, s) < a}
  BY DEF Filled, f
<1> HIDE DEF a
<1>6. \A k \in 1 .. a : SlotOf(c + k - 1) \in Filled(c, i)
  BY <1>2, <1>3, <1>5, BufferAssumption DEF a
<1>7. \A k, l \in 1 .. a : SlotOf(c + k - 1) = SlotOf(c + l - 1) => k = l
  BY <1>2, <1>3, BufferAssumption DEF a
<1>8. \A s \in Filled(c, i) : \E k \in 1 .. a : SlotOf(c + k - 1) = s
  <2> SUFFICES ASSUME NEW s \in Filled(c, i)
               PROVE  \E k \in 1 .. a : SlotOf(c + k - 1) = s
    OBVIOUS
  <2>1. Distance(f, s) \in Nat /\ Distance(f, s) < a /\ Rotated(f, Distance(f, s)) = s
    BY <1>4, <1>5
  <2>2. Distance(f, s) + 1 \in 1 .. a /\ Distance(f, s) = (Distance(f, s) + 1) - 1
    BY <2>1 DEF a
  <2> QED
    BY <1>2, <2>1, <2>2
<1> QED
  BY <1>6, <1>7, <1>8 DEF a

-----------------------------------------------------------------------------
(* The entries that the receiver, and those that the sender, may take.     *)
OutCount == Ahead(cons[Out], idx[Out])
BackCount == Ahead(cons[Back], idx[Back])
OutSlots == Filled(cons[Out], idx[Out])
BackSlots == Filled(cons[Back], idx[Back])

(* No buffer is lost or made: there are as many as before. *)
Counted ==
  OutCount + BackCount + (IF InTx THEN 1 ELSE 0) + (IF InRx THEN 1 ELSE 0) = RL_BUFFER_COUNT

(* What was found by comparing indices is still so when it is used, since  *)
(* only the other side moves the writer's index; and a slot that was       *)
(* written holds its buffer until the index is.                            *)
StillThere ==
  /\ tx.pc = "Take" => BackCount >= 1
  /\ rx.pc = "Receive" => OutCount >= 1
  /\ tx.pc = "Publish" => ring[Out][SlotOf(idx[Out])] = tx.buf
  /\ rx.pc = "Free" => ring[Back][SlotOf(idx[Back])] = rx.buf

(* No buffer is in two places. *)
Apart ==
  /\ \A s, t \in OutSlots : ring[Out][s] = ring[Out][t] => s = t
  /\ \A s, t \in BackSlots : ring[Back][s] = ring[Back][t] => s = t
  /\ \A s \in OutSlots, t \in BackSlots : ring[Out][s] # ring[Back][t]
  /\ InTx => /\ \A s \in OutSlots : ring[Out][s] # tx.buf
             /\ \A s \in BackSlots : ring[Back][s] # tx.buf
  /\ InRx => /\ \A s \in OutSlots : ring[Out][s] # rx.buf
             /\ \A s \in BackSlots : ring[Back][s] # rx.buf
  /\ InTx /\ InRx => tx.buf # rx.buf

(* And every buffer is in one. *)
Owned ==
  \A b \in Buffer :
    \/ \E s \in OutSlots : ring[Out][s] = b
    \/ \E s \in BackSlots : ring[Back][s] = b
    \/ InTx /\ tx.buf = b
    \/ InRx /\ rx.buf = b

(* What was sent and not yet delivered is a whole message. *)
Whole ==
  /\ tx.pc # "Idle" => tx.msg \in Message
  /\ tx.pc \in {"Slot", "Publish"} => buffer[tx.buf] = tx.msg
  /\ \A s \in OutSlots : buffer[ring[Out][s]] \in Message
  /\ rx.pc = "Callback" => buffer[rx.buf] \in Message

Coming == OutCount > 0 => notified \/ rx.pc # "Idle" \/ tx.pc = "Kick"

IInv ==
  TypeOK /\ Counted /\ StillThere /\ Apart /\ Owned /\ Whole /\ Coming

-----------------------------------------------------------------------------
LEMMA Sides ==
  ASSUME sender \in {"master", "remote"}
  PROVE  Out \in Ring /\ Back \in Ring /\ Out # Back
  BY DEF Out, Back, Ring

LEMMA Indices ==
  ASSUME IInv
  PROVE  /\ Out \in Ring /\ Back \in Ring /\ Out # Back
         /\ cons[Out] \in Index /\ cons[Back] \in Index
         /\ idx[Out] \in Index /\ idx[Back] \in Index
         /\ OutCount \in 0 .. RL_BUFFER_COUNT /\ BackCount \in 0 .. RL_BUFFER_COUNT
         /\ OutSlots \subseteq Buffer /\ BackSlots \subseteq Buffer
<1>1. Out \in Ring /\ Back \in Ring /\ Out # Back
  BY Sides DEF IInv, TypeOK
<1>2. cons[Out] \in Index /\ cons[Back] \in Index /\ idx[Out] \in Index /\ idx[Back] \in Index
  BY <1>1 DEF IInv, TypeOK
<1>3. OutCount \in Nat /\ BackCount \in Nat
  BY <1>2, AheadOf DEF OutCount, BackCount
<1>4. OutCount <= RL_BUFFER_COUNT /\ BackCount <= RL_BUFFER_COUNT
  BY <1>3, BufferAssumption DEF IInv, Counted
<1> QED
  BY <1>1, <1>2, <1>3, <1>4, BufferAssumption DEF OutSlots, BackSlots, Filled

(* What an index that moves does to its ring; the other ring stays.        *)
LEMMA OutTaken ==
  ASSUME IInv, OutCount >= 1, cons' = [cons EXCEPT ![Out] = After(@)], UNCHANGED <<sender, idx>>
  PROVE  /\ SlotOf(cons[Out]) \in OutSlots /\ OutSlots' = OutSlots \ {SlotOf(cons[Out])}
         /\ OutCount' = OutCount - 1
         /\ BackSlots' = BackSlots /\ BackCount' = BackCount
         /\ cons' \in [Ring -> Index]
<1>1. Out' = Out /\ Back' = Back
  BY DEF Out, Back
<1>2. cons'[Out] = After(cons[Out]) /\ cons'[Back] = cons[Back] /\ cons' \in [Ring -> Index]
  BY Indices, AfterIndex DEF IInv, TypeOK
<1>3. Ahead(cons[Out], idx[Out]) \in 1 .. RL_BUFFER_COUNT
  BY Indices, BufferAssumption DEF OutCount
<1> QED
  BY <1>1, <1>2, <1>3, Indices, TakeSlot DEF OutSlots, OutCount, BackSlots, BackCount

LEMMA BackTaken ==
  ASSUME IInv, BackCount >= 1, cons' = [cons EXCEPT ![Back] = After(@)], UNCHANGED <<sender, idx>>
  PROVE  /\ SlotOf(cons[Back]) \in BackSlots /\ BackSlots' = BackSlots \ {SlotOf(cons[Back])}
         /\ BackCount' = BackCount - 1
         /\ OutSlots' = OutSlots /\ OutCount' = OutCount
         /\ cons' \in [Ring -> Index]
<1>1. Out' = Out /\ Back' = Back
  BY DEF Out, Back
<1>2. cons'[Back] = After(cons[Back]) /\ cons'[Out] = cons[Out] /\ cons' \in [Ring -> Index]
  BY Indices, AfterIndex DEF IInv, TypeOK
<1>3. Ahead(cons[Back], idx[Back]) \in 1 .. RL_BUFFER_COUNT
  BY Indices, BufferAssumption DEF BackCount
<1> QED
  BY <1>1, <1>2, <1>3, Indices, TakeSlot DEF OutSlots, OutCount, BackSlots, BackCount

LEMMA OutPut ==
  ASSUME IInv, OutCount < RL_BUFFER_COUNT, idx' = [idx EXCEPT ![Out] = After(@)],
         UNCHANGED <<sender, cons>>
  PROVE  /\ OutSlots' = OutSlots \cup {SlotOf(idx[Out])}
         /\ OutCount' = OutCount + 1
         /\ BackSlots' = BackSlots /\ BackCount' = BackCount
         /\ idx' \in [Ring -> Index]
<1>1. Out' = Out /\ Back' = Back
  BY DEF Out, Back
<1>2. idx'[Out] = After(idx[Out]) /\ idx'[Back] = idx[Back] /\ idx' \in [Ring -> Index]
  BY Indices, AfterIndex DEF IInv, TypeOK
<1>3. Ahead(cons[Out], idx[Out]) \in 0 .. (RL_BUFFER_COUNT - 1)
  BY Indices, BufferAssumption DEF OutCount
<1> QED
  BY <1>1, <1>2, <1>3, Indices, PutSlot DEF OutSlots, OutCount, BackSlots, BackCount

LEMMA BackPut ==
  ASSUME IInv, BackCount < RL_BUFFER_COUNT, idx' = [idx EXCEPT ![Back] = After(@)],
         UNCHANGED <<sender, cons>>
  PROVE  /\ BackSlots' = BackSlots \cup {SlotOf(idx[Back])}
         /\ BackCount' = BackCount + 1
         /\ OutSlots' = OutSlots /\ OutCount' = OutCount
         /\ idx' \in [Ring -> Index]
<1>1. Out' = Out /\ Back' = Back
  BY DEF Out, Back
<1>2. idx'[Back] = After(idx[Back]) /\ idx'[Out] = idx[Out] /\ idx' \in [Ring -> Index]
  BY Indices, AfterIndex DEF IInv, TypeOK
<1>3. Ahead(cons[Back], idx[Back]) \in 0 .. (RL_BUFFER_COUNT - 1)
  BY Indices, BufferAssumption DEF BackCount
<1> QED
  BY <1>1, <1>2, <1>3, Indices, PutSlot DEF OutSlots, OutCount, BackSlots, BackCount

LEMMA SameSlots ==
  ASSUME UNCHANGED <<sender, idx, cons>>
  PROVE  UNCHANGED <<Out, Back, OutSlots, BackSlots, OutCount, BackCount>>
  BY DEF Out, Back, OutSlots, BackSlots, OutCount, BackCount

-----------------------------------------------------------------------------
LEMMA InitInv == Init => IInv
<1> SUFFICES ASSUME Init PROVE IInv
  OBVIOUS
<1>1. Out \in Ring /\ Back \in Ring /\ Out # Back
  BY Sides DEF Init
<1>2. 0 \in Index /\ RL_BUFFER_COUNT \in Index /\ 0 \in Buffer
  BY BufferAssumption, IndexAssumption DEF Index, Buffer
<1>3. cons[Out] = 0 /\ cons[Back] = 0 /\ idx[Out] = 0 /\ idx[Back] = RL_BUFFER_COUNT
  BY <1>1 DEF Init
<1>4. OutCount = 0 /\ BackCount = RL_BUFFER_COUNT
  BY <1>2, <1>3, AheadOf, BufferAssumption DEF OutCount, BackCount
<1>5. SlotOf(0) \in Buffer
  BY SlotWraps
<1>6. \A s \in Buffer : Distance(SlotOf(0), s) \in Buffer
  BY <1>5, BufferAssumption DEF Distance, Buffer
<1>7. OutSlots = {}
  BY <1>3, <1>4, <1>6, BufferAssumption DEF OutSlots, OutCount, Filled, Buffer
<1>8. BackSlots = Buffer
  BY <1>3, <1>4, <1>6, BufferAssumption DEF BackSlots, BackCount, Filled, Buffer
<1>9. \A s \in Buffer : ring[Back][s] = s
  BY <1>1 DEF Init
<1>10. ~InTx /\ ~InRx
  BY DEF Init, InTx, InRx
<1>11. TypeOK
  BY <1>1, <1>2 DEF Init, TypeOK
<1>12. Counted
  BY <1>4, <1>10, BufferAssumption DEF Counted
<1>13. StillThere
  BY DEF Init, StillThere
<1>14. Apart
  BY <1>7, <1>8, <1>9, <1>10 DEF Apart
<1>15. Owned
  BY <1>8, <1>9 DEF Owned
<1>16. Whole
  BY <1>7 DEF Init, Whole
<1>17. Coming
  BY <1>4 DEF Coming
<1> QED
  BY <1>11, <1>12, <1>13, <1>14, <1>15, <1>16, <1>17 DEF IInv

(* What holds of the sets of slots as long as the indices and the rings    *)
(* stay and nobody takes up or puts down a buffer.                         *)
LEMMA Quiet ==
  ASSUME IInv, UNCHANGED <<sender, idx, cons, ring>>,
         InTx' <=> InTx, InTx => tx'.buf = tx.buf,
         InRx' <=> InRx, InRx => rx'.buf = rx.buf
  PROVE  /\ UNCHANGED <<Out, Back, OutSlots, BackSlots, OutCount, BackCount>>
         /\ Counted' /\ Apart' /\ Owned'
<1>1. UNCHANGED <<Out, Back, OutSlots, BackSlots, OutCount, BackCount>>
  BY SameSlots
<1>2. Counted'
  BY <1>1 DEF IInv, Counted
<1>3. Apart'
  BY <1>1 DEF IInv, Apart
<1>4. Owned'
  BY <1>1 DEF IInv, Owned
<1> QED
  BY <1>1, <1>2, <1>3, <1>4

(* A buffer that the sender holds is in no entry and not with the receiver. *)
LEMMA SenderSteps ==
  ASSUME IInv,
         \/ \E m \in Message : SendMessage(m)
         \/ Alloc \/ FillHeader \/ FillData \/ Kick
  PROVE  IInv'
<1> USE DEF IInv
<1>1. Out \in Ring /\ Back \in Ring /\ OutSlots \subseteq Buffer /\ OutCount \in Nat
      /\ BackCount \in Nat
  BY Indices
<1>2. UNCHANGED <<sender, idx, cons, ring, rx, delivered>>
  BY DEF SendMessage, Alloc, FillHeader, FillData, Kick, rxVars
<1>3. TypeOK'
  BY MessageAssumption DEF TypeOK, SendMessage, Alloc, FillHeader, FillData, Kick, rxVars
<1>4. /\ InTx' <=> InTx
      /\ InTx => tx'.buf = tx.buf
      /\ InRx' <=> InRx
      /\ InRx => rx'.buf = rx.buf
  <2>1. InTx' <=> InTx
    BY DEF TypeOK, InTx, SendMessage, Alloc, FillHeader, FillData, Kick
  <2>2. InTx => tx'.buf = tx.buf
    BY DEF TypeOK, SendMessage, Alloc, FillHeader, FillData, Kick
  <2>3. (InRx' <=> InRx) /\ rx'.buf = rx.buf
    BY <1>2 DEF InRx
  <2> QED
    BY <2>1, <2>2, <2>3
<1>5. /\ UNCHANGED <<Out, Back, OutSlots, BackSlots, OutCount, BackCount>>
      /\ Counted' /\ Apart' /\ Owned'
  BY <1>2, <1>4, Quiet
<1>6. StillThere'
  <2>1. BackCount = 0 <=> cons[Back] = idx[Back]
    BY Indices, AheadOf DEF BackCount
  <2>2. tx'.pc = "Take" => cons[Back] # idx[Back]
    BY DEF TypeOK, SendMessage, Alloc, FillHeader, FillData, Kick
  <2>3. tx'.pc # "Publish"
    BY DEF TypeOK, SendMessage, Alloc, FillHeader, FillData, Kick
  <2>4. tx'.pc = "Take" => BackCount' >= 1
    BY <1>1, <1>5, <2>1, <2>2
  <2> QED
    BY <1>2, <1>5, <2>3, <2>4 DEF StillThere
<1>7. Whole'
  <2>1. CASE FillHeader \/ FillData
    <3>1. InTx /\ tx.buf \in Buffer
      BY <2>1 DEF TypeOK, FillHeader, FillData, InTx
    <3>2. /\ \A s \in OutSlots : ring[Out][s] # tx.buf
          /\ InRx => rx.buf # tx.buf
      BY <3>1 DEF Apart
    <3>3. \A b \in Buffer : b # tx.buf => buffer'[b] = buffer[b]
      BY <2>1 DEF TypeOK, FillHeader, FillData
    <3>4. \A s \in OutSlots : ring[Out][s] \in Buffer
      BY <1>1 DEF TypeOK
    <3>5. \A s \in OutSlots' : buffer'[ring'[Out'][s]] \in Message
      BY <1>2, <1>5, <3>2, <3>3, <3>4 DEF Whole
    <3>6. rx'.pc = "Callback" => buffer'[rx'.buf] \in Message
      BY <1>2, <3>2, <3>3 DEF Whole, InRx, TypeOK
    <3>7. tx'.pc # "Idle" => tx'.msg \in Message
      BY <2>1 DEF Whole, TypeOK, FillHeader, FillData
    <3>8. tx'.pc \in {"Slot", "Publish"} => buffer'[tx'.buf] = tx'.msg
      BY <2>1 DEF Whole, TypeOK, FillHeader, FillData
    <3> QED
      BY <3>5, <3>6, <3>7, <3>8 DEF Whole
  <2>2. CASE UNCHANGED buffer
    <3>1. /\ \A s \in OutSlots' : buffer'[ring'[Out'][s]] \in Message
          /\ rx'.pc = "Callback" => buffer'[rx'.buf] \in Message
      BY <1>2, <1>5, <2>2 DEF Whole
    <3>2. tx'.pc # "Idle" => tx'.msg \in Message
      BY DEF Whole, TypeOK, SendMessage, Alloc, FillHeader, FillData, Kick
    <3>3. tx'.pc \in {"Slot", "Publish"} => buffer'[tx'.buf] = tx'.msg
      BY <2>2 DEF Whole, TypeOK, SendMessage, Alloc, FillHeader, FillData, Kick
    <3> QED
      BY <3>1, <3>2, <3>3 DEF Whole
  <2> QED
    BY <2>1, <2>2 DEF SendMessage, Alloc, Kick
<1>8. Coming'
  BY <1>2, <1>5 DEF Coming, TypeOK, SendMessage, Alloc, FillHeader, FillData, Kick
<1> QED
  BY <1>3, <1>5, <1>6, <1>7, <1>8

LEMMA ReceiverSteps ==
  ASSUME IInv, Interrupt \/ Check \/ Callback
  PROVE  IInv'
<1> USE DEF IInv
<1>1. Out \in Ring /\ Back \in Ring /\ OutSlots \subseteq Buffer /\ OutCount \in Nat
      /\ BackCount \in Nat
  BY Indices
<1>2. UNCHANGED <<sender, idx, cons, ring, buffer, tx>>
  BY DEF Interrupt, Check, Callback, txVars
<1>3. TypeOK'
  <2>1. CASE Interrupt \/ Check
    BY <2>1 DEF TypeOK, Interrupt, Check, txVars
  <2>2. CASE Callback
    <3>1. buffer[rx.buf] \in Message
      BY <2>2 DEF Whole, Callback
    <3> QED
      BY <2>2, <3>1 DEF TypeOK, Callback, txVars
  <2> QED
    BY <2>1, <2>2
<1>4. /\ InTx' <=> InTx
      /\ InTx => tx'.buf = tx.buf
      /\ InRx' <=> InRx
      /\ InRx => rx'.buf = rx.buf
  <2>1. InRx' <=> InRx
    BY DEF TypeOK, InRx, Interrupt, Check, Callback
  <2>2. InRx => rx'.buf = rx.buf
    BY DEF TypeOK, Interrupt, Check, Callback
  <2>3. (InTx' <=> InTx) /\ tx'.buf = tx.buf
    BY <1>2 DEF InTx
  <2> QED
    BY <2>1, <2>2, <2>3
<1>5. /\ UNCHANGED <<Out, Back, OutSlots, BackSlots, OutCount, BackCount>>
      /\ Counted' /\ Apart' /\ Owned'
  BY <1>2, <1>4, Quiet
<1>6. OutCount = 0 <=> cons[Out] = idx[Out]
  BY Indices, AheadOf DEF OutCount
<1>7. StillThere'
  <2>1. rx'.pc = "Receive" => cons[Out] # idx[Out]
    BY DEF TypeOK, Interrupt, Check, Callback
  <2>2. rx'.pc # "Free"
    BY DEF TypeOK, Interrupt, Check, Callback
  <2>3. rx'.pc = "Receive" => OutCount' >= 1
    BY <1>1, <1>5, <1>6, <2>1
  <2> QED
    BY <1>2, <1>5, <2>2, <2>3 DEF StillThere
<1>8. Whole'
  <2>1. rx'.pc # "Callback"
    BY DEF TypeOK, Interrupt, Check, Callback
  <2> QED
    BY <1>2, <1>5, <2>1 DEF Whole
<1>9. Coming'
  <2>1. OutCount > 0 => notified' \/ rx'.pc # "Idle" \/ tx.pc = "Kick"
    BY <1>1, <1>6 DEF Coming, TypeOK, Interrupt, Check, Callback
  <2> QED
    BY <1>2, <1>5, <2>1 DEF Coming
<1> QED
  BY <1>3, <1>5, <1>7, <1>8, <1>9

LEMMA TakeStep ==
  ASSUME IInv, Take
  PROVE  IInv'
<1> DEFINE head == SlotOf(cons[Back])
<1>1. BackCount >= 1
  BY DEF IInv, StillThere, Take
<1>2. /\ head \in BackSlots /\ BackSlots' = BackSlots \ {head} /\ BackCount' = BackCount - 1
      /\ OutSlots' = OutSlots /\ OutCount' = OutCount /\ cons' \in [Ring -> Index]
  BY <1>1, BackTaken DEF Take
<1>3. /\ Out \in Ring /\ Back \in Ring /\ Out # Back
      /\ OutCount \in Nat /\ BackCount \in Nat /\ OutSlots \subseteq Buffer
         /\ BackSlots \subseteq Buffer
  BY Indices
<1>4. Out' = Out /\ Back' = Back /\ ring' = ring /\ rx' = rx /\ idx' = idx /\ buffer' = buffer
  BY DEF Take, Out, Back, rxVars
<1> HIDE DEF head
<1>5. tx'.pc = "Header" /\ tx'.buf = ring[Back][head] /\ tx'.msg = tx.msg /\ tx.pc = "Take"
  BY DEF IInv, TypeOK, Take, head
<1>6. ~InTx /\ InTx' /\ (InRx' <=> InRx)
  BY <1>4, <1>5 DEF InTx, InRx
<1>7. TypeOK'
  <2>1. ring[Back][head] \in Buffer
    BY <1>2, <1>3 DEF IInv, TypeOK
  <2> QED
    BY <1>2, <2>1 DEF IInv, TypeOK, Take, rxVars, head
<1>8. Counted'
  BY <1>2, <1>3, <1>6, BufferAssumption DEF IInv, Counted
<1>9. StillThere'
  BY <1>2, <1>4, <1>5 DEF IInv, StillThere
<1>10. Apart'
  BY <1>2, <1>4, <1>5, <1>6 DEF IInv, Apart
<1>11. Owned'
  BY <1>2, <1>4, <1>5, <1>6 DEF IInv, Owned
<1>12. Whole'
  BY <1>2, <1>4, <1>5 DEF IInv, Whole
<1>13. Coming'
  BY <1>2, <1>4, <1>5 DEF IInv, Coming, Take
<1> QED
  BY <1>7, <1>8, <1>9, <1>10, <1>11, <1>12, <1>13 DEF IInv

LEMMA ReceiveStep ==
  ASSUME IInv, Receive
  PROVE  IInv'
<1> DEFINE head == SlotOf(cons[Out])
<1>1. OutCount >= 1
  BY DEF IInv, StillThere, Receive
<1>2. /\ head \in OutSlots /\ OutSlots' = OutSlots \ {head} /\ OutCount' = OutCount - 1
      /\ BackSlots' = BackSlots /\ BackCount' = BackCount /\ cons' \in [Ring -> Index]
  BY <1>1, OutTaken DEF Receive
<1>3. /\ Out \in Ring /\ Back \in Ring /\ Out # Back
      /\ OutCount \in Nat /\ BackCount \in Nat /\ OutSlots \subseteq Buffer
         /\ BackSlots \subseteq Buffer
  BY Indices
<1>4. Out' = Out /\ Back' = Back /\ ring' = ring /\ tx' = tx /\ idx' = idx /\ buffer' = buffer
  BY DEF Receive, Out, Back, txVars
<1> HIDE DEF head
<1>5. rx'.pc = "Callback" /\ rx'.buf = ring[Out][head] /\ rx.pc = "Receive"
  BY DEF Receive, head
<1>6. ~InRx /\ InRx' /\ (InTx' <=> InTx)
  BY <1>4, <1>5 DEF InTx, InRx
<1>7. TypeOK'
  <2>1. ring[Out][head] \in Buffer
    BY <1>2, <1>3 DEF IInv, TypeOK
  <2> QED
    BY <1>2, <2>1 DEF IInv, TypeOK, Receive, txVars, head
<1>8. Counted'
  BY <1>2, <1>3, <1>6, BufferAssumption DEF IInv, Counted
<1>9. StillThere'
  BY <1>2, <1>4, <1>5 DEF IInv, StillThere
<1>10. Apart'
  BY <1>2, <1>4, <1>5, <1>6 DEF IInv, Apart
<1>11. Owned'
  BY <1>2, <1>4, <1>5, <1>6 DEF IInv, Owned
<1>12. Whole'
  BY <1>2, <1>4, <1>5 DEF IInv, Whole
<1>13. Coming'
  BY <1>5 DEF Coming
<1> QED
  BY <1>7, <1>8, <1>9, <1>10, <1>11, <1>12, <1>13 DEF IInv

(* To write a slot that is not filled changes no entry. *)
LEMMA WriteSlotStep ==
  ASSUME IInv, WriteSlot
  PROVE  IInv'
<1> DEFINE new == SlotOf(idx[Out])
<1>1. /\ Out \in Ring /\ Back \in Ring /\ Out # Back
      /\ OutCount \in Nat /\ BackCount \in Nat /\ OutSlots \subseteq Buffer
         /\ BackSlots \subseteq Buffer
  BY Indices
<1>2. InTx /\ tx.pc = "Slot"
  BY DEF WriteSlot, InTx
<1>3. new \in Buffer \ OutSlots
  <2>1. OutCount \in 0 .. (RL_BUFFER_COUNT - 1)
    BY <1>1, <1>2, BufferAssumption DEF IInv, Counted
  <2> QED
    BY <2>1, Indices, PutSlot DEF OutCount, OutSlots
<1>4. UNCHANGED <<sender, idx, cons, buffer, rx, notified, delivered>>
  BY DEF WriteSlot, rxVars
<1>5. tx' = [tx EXCEPT !.pc = "Publish"]
  BY DEF WriteSlot
<1>6. UNCHANGED <<Out, Back, OutSlots, BackSlots, OutCount, BackCount>>
  BY <1>4, SameSlots
<1> HIDE DEF new
<1>7. tx'.pc = "Publish" /\ tx'.buf = tx.buf /\ tx.buf \in Buffer /\ tx'.msg = tx.msg
  BY <1>5 DEF IInv, TypeOK
<1>8. ring' = [ring EXCEPT ![Out][new] = tx.buf]
  BY DEF WriteSlot, new
<1>9. ring' \in [Ring -> [Buffer -> Buffer]]
  BY <1>1, <1>3, <1>7, <1>8 DEF IInv, TypeOK
<1>10. ring'[Back] = ring[Back] /\ ring'[Out][new] = tx.buf
  BY <1>1, <1>3, <1>8 DEF IInv, TypeOK
<1>11. \A s \in OutSlots : ring'[Out][s] = ring[Out][s]
  BY <1>1, <1>3, <1>8 DEF IInv, TypeOK
<1>12. (InTx' <=> InTx) /\ (InRx' <=> InRx)
  BY <1>2, <1>4, <1>7 DEF InTx, InRx
<1>13. TypeOK'
  BY <1>4, <1>5, <1>9 DEF IInv, TypeOK
<1>14. Counted'
  BY <1>6, <1>12 DEF IInv, Counted
<1>15. StillThere'
  BY <1>2, <1>4, <1>6, <1>7, <1>10 DEF IInv, StillThere, new
<1>16. Apart'
  BY <1>4, <1>6, <1>7, <1>10, <1>11, <1>12 DEF IInv, Apart
<1>17. Owned'
  BY <1>4, <1>6, <1>7, <1>10, <1>11, <1>12 DEF IInv, Owned
<1>18. Whole'
  BY <1>2, <1>4, <1>6, <1>7, <1>10, <1>11 DEF IInv, Whole
<1>19. Coming'
  BY <1>2, <1>4, <1>6, <1>7 DEF IInv, Coming
<1> QED
  BY <1>13, <1>14, <1>15, <1>16, <1>17, <1>18, <1>19 DEF IInv

LEMMA FreeSlotStep ==
  ASSUME IInv, FreeSlot
  PROVE  IInv'
<1> DEFINE new == SlotOf(idx[Back])
<1>1. /\ Out \in Ring /\ Back \in Ring /\ Out # Back
      /\ OutCount \in Nat /\ BackCount \in Nat /\ OutSlots \subseteq Buffer
         /\ BackSlots \subseteq Buffer
  BY Indices
<1>2. InRx /\ rx.pc = "FreeSlot"
  BY DEF FreeSlot, InRx
<1>3. new \in Buffer \ BackSlots
  <2>1. BackCount \in 0 .. (RL_BUFFER_COUNT - 1)
    BY <1>1, <1>2, BufferAssumption DEF IInv, Counted
  <2> QED
    BY <2>1, Indices, PutSlot DEF BackCount, BackSlots
<1>4. UNCHANGED <<sender, idx, cons, buffer, tx, notified, delivered>>
  BY DEF FreeSlot, txVars
<1>5. rx' = [rx EXCEPT !.pc = "Free"]
  BY DEF FreeSlot
<1>6. UNCHANGED <<Out, Back, OutSlots, BackSlots, OutCount, BackCount>>
  BY <1>4, SameSlots
<1> HIDE DEF new
<1>7. rx'.pc = "Free" /\ rx'.buf = rx.buf /\ rx.buf \in Buffer
  BY <1>5 DEF IInv, TypeOK
<1>8. ring' = [ring EXCEPT ![Back][new] = rx.buf]
  BY DEF FreeSlot, new
<1>9. ring' \in [Ring -> [Buffer -> Buffer]]
  BY <1>1, <1>3, <1>7, <1>8 DEF IInv, TypeOK
<1>10. ring'[Out] = ring[Out] /\ ring'[Back][new] = rx.buf
  BY <1>1, <1>3, <1>8 DEF IInv, TypeOK
<1>11. \A s \in BackSlots : ring'[Back][s] = ring[Back][s]
  BY <1>1, <1>3, <1>8 DEF IInv, TypeOK
<1>12. (InTx' <=> InTx) /\ (InRx' <=> InRx)
  BY <1>2, <1>4, <1>7 DEF InTx, InRx
<1>13. TypeOK'
  BY <1>4, <1>5, <1>9 DEF IInv, TypeOK
<1>14. Counted'
  BY <1>6, <1>12 DEF IInv, Counted
<1>15. StillThere'
  BY <1>2, <1>4, <1>6, <1>7, <1>10 DEF IInv, StillThere, new
<1>16. Apart'
  BY <1>4, <1>6, <1>7, <1>10, <1>11, <1>12 DEF IInv, Apart
<1>17. Owned'
  BY <1>4, <1>6, <1>7, <1>10, <1>11, <1>12 DEF IInv, Owned
<1>18. Whole'
  BY <1>2, <1>4, <1>6, <1>7, <1>10, <1>11 DEF IInv, Whole
<1>19. Coming'
  BY <1>2, <1>4, <1>6, <1>7 DEF IInv, Coming
<1> QED
  BY <1>13, <1>14, <1>15, <1>16, <1>17, <1>18, <1>19 DEF IInv

LEMMA PublishStep ==
  ASSUME IInv, Publish
  PROVE  IInv'
<1> DEFINE new == SlotOf(idx[Out])
<1>1. /\ Out \in Ring /\ Back \in Ring /\ Out # Back
      /\ OutCount \in Nat /\ BackCount \in Nat /\ OutSlots \subseteq Buffer
         /\ BackSlots \subseteq Buffer
  BY Indices
<1>2. InTx /\ tx.pc = "Publish"
  BY DEF Publish, InTx
<1>3. OutCount < RL_BUFFER_COUNT
  BY <1>1, <1>2, BufferAssumption DEF IInv, Counted
<1>4. /\ OutSlots' = OutSlots \cup {new} /\ OutCount' = OutCount + 1
      /\ BackSlots' = BackSlots /\ BackCount' = BackCount /\ idx' \in [Ring -> Index]
  BY <1>3, OutPut DEF Publish, rxVars
<1>5. UNCHANGED <<sender, cons, ring, buffer, Out, Back, rx, notified, delivered>>
  BY DEF Publish, rxVars, Out, Back
<1>6. ring[Out][new] = tx.buf
  BY <1>2 DEF IInv, StillThere
<1>7. idx'[Back] = idx[Back]
  BY <1>1 DEF IInv, TypeOK, Publish
<1> HIDE DEF new
<1>8. tx' = [tx EXCEPT !.pc = "Kick"]
  BY DEF Publish
<1>9. tx'.pc = "Kick" /\ tx.buf \in Buffer /\ tx'.msg = tx.msg
  BY <1>8 DEF IInv, TypeOK
<1>10. ~InTx' /\ (InRx' <=> InRx)
  BY <1>5, <1>9 DEF InTx, InRx
<1>11. TypeOK'
  BY <1>4, <1>5, <1>8 DEF IInv, TypeOK
<1>12. Counted'
  BY <1>1, <1>2, <1>4, <1>10, BufferAssumption DEF IInv, Counted
<1>13. StillThere'
  BY <1>1, <1>4, <1>5, <1>7, <1>9 DEF IInv, StillThere
<1>14. Apart'
  BY <1>2, <1>4, <1>5, <1>6, <1>10 DEF IInv, Apart
<1>15. Owned'
  BY <1>2, <1>4, <1>5, <1>6, <1>10 DEF IInv, Owned
<1>16. Whole'
  BY <1>2, <1>4, <1>5, <1>6, <1>9 DEF IInv, Whole
<1>17. Coming'
  BY <1>9 DEF Coming
<1> QED
  BY <1>11, <1>12, <1>13, <1>14, <1>15, <1>16, <1>17 DEF IInv

LEMMA FreeStep ==
  ASSUME IInv, Free
  PROVE  IInv'
<1> DEFINE new == SlotOf(idx[Back])
<1>1. /\ Out \in Ring /\ Back \in Ring /\ Out # Back
      /\ OutCount \in Nat /\ BackCount \in Nat /\ OutSlots \subseteq Buffer
         /\ BackSlots \subseteq Buffer
  BY Indices
<1>2. InRx /\ rx.pc = "Free"
  BY DEF Free, InRx
<1>3. BackCount < RL_BUFFER_COUNT
  BY <1>1, <1>2, BufferAssumption DEF IInv, Counted
<1>4. /\ BackSlots' = BackSlots \cup {new} /\ BackCount' = BackCount + 1
      /\ OutSlots' = OutSlots /\ OutCount' = OutCount /\ idx' \in [Ring -> Index]
  BY <1>3, BackPut DEF Free, txVars
<1>5. UNCHANGED <<sender, cons, ring, buffer, Out, Back, tx, notified, delivered>>
  BY DEF Free, txVars, Out, Back
<1>6. ring[Back][new] = rx.buf
  BY <1>2 DEF IInv, StillThere
<1>7. idx'[Out] = idx[Out]
  BY <1>1 DEF IInv, TypeOK, Free
<1> HIDE DEF new
<1>8. rx' = [rx EXCEPT !.pc = "Check"]
  BY DEF Free
<1>9. rx'.pc = "Check" /\ rx.buf \in Buffer
  BY <1>8 DEF IInv, TypeOK
<1>10. ~InRx' /\ (InTx' <=> InTx)
  BY <1>5, <1>9 DEF InTx, InRx
<1>11. TypeOK'
  BY <1>4, <1>5, <1>8 DEF IInv, TypeOK
<1>12. Counted'
  BY <1>1, <1>2, <1>4, <1>10, BufferAssumption DEF IInv, Counted
<1>13. StillThere'
  BY <1>1, <1>4, <1>5, <1>7, <1>9 DEF IInv, StillThere
<1>14. Apart'
  BY <1>2, <1>4, <1>5, <1>6, <1>10 DEF IInv, Apart
<1>15. Owned'
  BY <1>2, <1>4, <1>5, <1>6, <1>10 DEF IInv, Owned
<1>16. Whole'
  BY <1>2, <1>4, <1>5, <1>6, <1>9 DEF IInv, Whole
<1>17. Coming'
  BY <1>9 DEF Coming
<1> QED
  BY <1>11, <1>12, <1>13, <1>14, <1>15, <1>16, <1>17 DEF IInv

LEMMA StutterStep ==
  ASSUME IInv, UNCHANGED vars
  PROVE  IInv'
<1>1. UNCHANGED <<Out, Back, OutSlots, BackSlots, OutCount, BackCount>>
  BY SameSlots DEF vars
<1> QED
  BY <1>1 DEF vars, IInv, TypeOK, Counted, StillThere, Apart, Owned, Whole, Coming, InTx, InRx

LEMMA StepInv == IInv /\ [Next]_vars => IInv'
<1> SUFFICES ASSUME IInv, [Next]_vars PROVE IInv'
  OBVIOUS
<1>1. CASE \E m \in Message : SendMessage(m)
  BY <1>1, SenderSteps
<1>2. CASE Sender
  BY <1>2, SenderSteps, TakeStep, WriteSlotStep, PublishStep DEF Sender
<1>3. CASE Receiver
  BY <1>3, ReceiverSteps, ReceiveStep, FreeSlotStep, FreeStep DEF Receiver
<1>4. CASE UNCHANGED vars
  BY <1>4, StutterStep
<1> QED
  BY <1>1, <1>2, <1>3, <1>4 DEF Next

(* Both rings, and what each core holds between two accesses, stay         *)
(* consistent with each other, whatever the interleaving.                  *)
THEOREM Inductive == Spec => []IInv
  BY InitInv, StepInv, PTL DEF Spec

(* The state of the rings, and of the two sides, stays in its ranges.      *)
THEOREM TypeCorrect == Spec => []TypeOK
<1>1. IInv => TypeOK
  BY DEF IInv
<1> QED
  BY <1>1, Inductive, PTL

(* rpmsg_lite_send never loses its last kick to the return of the handler  *)
(* of the other core.                                                      *)
THEOREM KickIsNotLost == Spec => []NoLostKick
<1>1. IInv => NoLostKick
  <2> SUFFICES ASSUME IInv, Entries(Out) # <<>>
               PROVE  notified \/ rx.pc # "Idle" \/ tx.pc = "Kick"
    BY DEF NoLostKick
  <2>1. OutCount \in Nat
    BY Indices
  <2>2. OutCount # 0
    <3> SUFFICES ASSUME OutCount = 0 PROVE FALSE
      OBVIOUS
    <3>1. 1 .. Ahead(cons[Out], idx[Out]) = {}
      BY DEF OutCount
    <3>2. Entries(Out) = <<>>
      BY <3>1 DEF Entries
    <3> QED
      BY <3>2
  <2> QED
    BY <2>1, <2>2 DEF IInv, Coming
<1> QED
  BY <1>1, Inductive, PTL

(* A message is refused only when every buffer holds an earlier one.       *)
THEOREM OnlyRefusedWhenFull == Spec => RefusedOnlyWhenFull
<1>1. ASSUME IInv, [Next]_vars
      PROVE  [tx.pc = "Alloc" /\ tx'.pc = "Idle" =>
                Len(Entries(Out)) + (IF InRx THEN 1 ELSE 0) = RL_BUFFER_COUNT]_vars
  <2> SUFFICES ASSUME Next, tx.pc = "Alloc", tx'.pc = "Idle"
               PROVE  Len(Entries(Out)) + (IF InRx THEN 1 ELSE 0) = RL_BUFFER_COUNT
    BY <1>1
  <2> USE <1>1
  <2>1. tx' # tx /\ Alloc
    BY DEF Next, Sender, Receiver, SendMessage, Alloc, Take, FillHeader, FillData, WriteSlot,
           Publish, Kick, Interrupt, Check, Receive, Callback, FreeSlot, Free, txVars
  <2>2. cons[Back] = idx[Back]
    BY <2>1 DEF Alloc, IInv, TypeOK
  <2>3. BackCount = 0
    BY <2>2, Indices, AheadOf DEF BackCount
  <2>4. OutCount \in Nat
    BY Indices
  <2>5. Len(Entries(Out)) = OutCount
    BY <2>4 DEF Entries, OutCount
  <2>6. ~InTx
    BY DEF InTx
  <2> QED
    BY <2>3, <2>4, <2>5, <2>6, BufferAssumption DEF IInv, Counted
<1> QED
  BY <1>1, Inductive, PTL DEF Spec, RefusedOnlyWhenFull

-----------------------------------------------------------------------------
(* A ring whose filled slots hold different buffers lists each of them     *)
(* once.                                                                   *)
LEMMA ListedOnce ==
  ASSUME IInv, NEW r \in Ring, NEW b \in Buffer,
         Ahead(cons[r], idx[r]) \in 0 .. RL_BUFFER_COUNT,
         \A s, t \in Filled(cons[r], idx[r]) : ring[r][s] = ring[r][t] => s = t
  PROVE  Cardinality({k \in DOMAIN Entries(r) : Entries(r)[k] = b})
           = IF \E s \in Filled(cons[r], idx[r]) : ring[r][s] = b THEN 1 ELSE 0
<1> DEFINE c == cons[r]
           i == idx[r]
           K == {k \in DOMAIN Entries(r) : Entries(r)[k] = b}
<1>1. c \in Index /\ i \in Index
  BY DEF IInv, TypeOK
<1>2. K = {k \in 1 .. Ahead(c, i) : ring[r][SlotOf(c + k - 1)] = b}
  BY DEF Entries
<1> HIDE DEF c, i, K
<1>3. /\ \A k \in 1 .. Ahead(c, i) : SlotOf(c + k - 1) \in Filled(c, i)
      /\ \A k, l \in 1 .. Ahead(c, i) : SlotOf(c + k - 1) = SlotOf(c + l - 1) => k = l
      /\ \A s \in Filled(c, i) : \E k \in 1 .. Ahead(c, i) : SlotOf(c + k - 1) = s
  BY <1>1, EntrySlots DEF c, i
<1>4. CASE \E s \in Filled(c, i) : ring[r][s] = b
  <2>1. PICK s \in Filled(c, i) : ring[r][s] = b
    BY <1>4
  <2>2. PICK k \in 1 .. Ahead(c, i) : SlotOf(c + k - 1) = s
    BY <1>3
  <2>3. K = {k}
    <3>1. k \in K
      BY <1>2, <2>1, <2>2
    <3>2. ASSUME NEW l \in K PROVE l = k
      <4>1. l \in 1 .. Ahead(c, i) /\ ring[r][SlotOf(c + l - 1)] = b
        BY <1>2
      <4>2. SlotOf(c + l - 1) = s
        BY <1>3, <2>1, <4>1 DEF c, i
      <4> QED
        BY <1>3, <2>2, <4>1, <4>2
    <3> QED
      BY <3>1, <3>2
  <2>4. Cardinality(K) = 1
    BY <2>3, FS_Singleton
  <2> QED
    BY <1>4, <2>4 DEF c, i, K
<1>5. CASE ~ \E s \in Filled(c, i) : ring[r][s] = b
  <2>1. K = {}
    BY <1>2, <1>3, <1>5
  <2>2. Cardinality(K) = 0
    BY <2>1, FS_EmptySet
  <2> QED
    BY <1>5, <2>2 DEF c, i, K
<1> QED
  BY <1>4, <1>5

(* Every buffer is in exactly one entry of one ring, with the sender or    *)
(* with the receiver, wherever the two cores are between two accesses.     *)
THEOREM EveryBufferHasOneOwner == Spec => []OneOwner
<1>1. IInv => OneOwner
  <2> SUFFICES ASSUME IInv, NEW b \in Buffer
               PROVE  Cardinality({k \in DOMAIN Entries(Out) : Entries(Out)[k] = b})
                        + Cardinality({k \in DOMAIN Entries(Back) : Entries(Back)[k] = b})
                        + (IF InTx /\ tx.buf = b THEN 1 ELSE 0)
                        + (IF InRx /\ rx.buf = b THEN 1 ELSE 0) = 1
    BY DEF OneOwner
  <2> DEFINE inOut == \E s \in OutSlots : ring[Out][s] = b
             inBack == \E s \in BackSlots : ring[Back][s] = b
             inTx == InTx /\ tx.buf = b
             inRx == InRx /\ rx.buf = b
  <2>1. Cardinality({k \in DOMAIN Entries(Out) : Entries(Out)[k] = b}) = IF inOut THEN 1 ELSE 0
    BY Indices, ListedOnce DEF IInv, Apart, OutSlots, OutCount
  <2>2. Cardinality({k \in DOMAIN Entries(Back) : Entries(Back)[k] = b}) = IF inBack THEN 1 ELSE 0
    BY Indices, ListedOnce DEF IInv, Apart, BackSlots, BackCount
  <2>3. inOut \/ inBack \/ inTx \/ inRx
    BY DEF IInv, Owned
  <2>4. ~(inOut /\ inBack)
    BY DEF IInv, Apart
  <2>5. ~(inOut /\ inTx) /\ ~(inBack /\ inTx)
    BY DEF IInv, Apart
  <2>6. ~(inOut /\ inRx) /\ ~(inBack /\ inRx)
    BY DEF IInv, Apart
  <2>7. ~(inTx /\ inRx)
    BY DEF IInv, Apart
  <2> HIDE DEF inOut, inBack
  <2> QED
    BY <2>1, <2>2, <2>3, <2>4, <2>5, <2>6, <2>7
<1> QED
  BY <1>1, Inductive, PTL

-----------------------------------------------------------------------------
(* The contents of the entries that the receiver may take. *)
Contents == [k \in 1 .. OutCount |-> buffer[ring[Out][SlotOf(cons[Out] + k - 1)]]]

QueueShape ==
  /\ Contents \in Seq(Message) /\ Len(Contents) = OutCount
  /\ rx.pc = "Callback" => Queue = <<buffer[rx.buf]>> \o Contents
  /\ rx.pc # "Callback" => Queue = Contents

LEMMA QueueIs == IInv => QueueShape
<1> SUFFICES ASSUME IInv PROVE QueueShape
  OBVIOUS
<1>1. OutCount \in Nat
  BY Indices
<1>2. \A k \in 1 .. OutCount : SlotOf(cons[Out] + k - 1) \in OutSlots
  BY Indices, EntrySlots DEF OutCount, OutSlots
<1>3. \A k \in 1 .. OutCount : buffer[ring[Out][SlotOf(cons[Out] + k - 1)]] \in Message
  BY <1>2 DEF IInv, Whole
<1>4. Contents \in Seq(Message) /\ Len(Contents) = OutCount
  BY <1>1, <1>3 DEF Contents
<1>5. [k \in DOMAIN Entries(Out) |-> buffer[Entries(Out)[k]]] = Contents
  BY DEF Entries, Contents, OutCount
<1>6. <<>> \o Contents = Contents
  BY <1>4, ConcatEmptySeq
<1> QED
  BY <1>4, <1>5, <1>6 DEF Queue, QueueShape

LEMMA QueueNext == IInv' => QueueShape'
  BY QueueIs, PTL

(* The entries stay as long as the indices and their contents do.          *)
LEMMA SameContents ==
  ASSUME IInv, UNCHANGED <<sender, idx, cons>>,
         \A s \in OutSlots : buffer'[ring'[Out][s]] = buffer[ring[Out][s]]
  PROVE  Contents' = Contents
<1>1. UNCHANGED <<Out, OutCount>>
  BY SameSlots
<1>2. \A k \in 1 .. OutCount : SlotOf(cons[Out] + k - 1) \in OutSlots
  BY Indices, EntrySlots DEF OutCount, OutSlots
<1> QED
  BY <1>1, <1>2 DEF Contents

LEMMA QueueInit == Init => Fifo!Init
<1> SUFFICES ASSUME Init PROVE Queue = <<>> /\ delivered = <<>>
  BY DEF Fifo!Init
<1>1. IInv /\ OutCount = 0
  <2>1. Out \in Ring /\ cons[Out] = 0 /\ idx[Out] = 0 /\ 0 \in Index
    BY Sides, IndexAssumption, BufferAssumption DEF Init, Out, Back, Ring, Index
  <2> QED
    BY <2>1, InitInv, AheadOf DEF OutCount
<1>2. Queue = Contents
  BY <1>1, QueueIs DEF Init, QueueShape
<1>3. Contents = <<>>
  BY <1>1, QueueIs, EmptySeq DEF QueueShape
<1> QED
  BY <1>2, <1>3 DEF Init

(* The steps that neither publish, take up nor deliver a message.          *)
LEMMA QueueStays ==
  ASSUME IInv, IInv',
         \/ \E m \in Message : SendMessage(m)
         \/ Alloc \/ Take \/ FillHeader \/ FillData \/ WriteSlot \/ Kick
         \/ Interrupt \/ Check \/ FreeSlot \/ Free \/ UNCHANGED vars
  PROVE  UNCHANGED <<Queue, delivered>>
<1>1. /\ Out \in Ring /\ Back \in Ring /\ Out # Back /\ cons[Out] \in Index /\ idx[Out] \in Index
      /\ OutCount \in Nat /\ BackCount \in Nat /\ OutSlots \subseteq Buffer
  BY Indices
<1>2. /\ UNCHANGED <<sender, delivered, Out>>
      /\ rx.pc = "Callback" <=> rx'.pc = "Callback"
      /\ rx.pc = "Callback" => rx'.buf = rx.buf
  BY DEF SendMessage, Alloc, Take, FillHeader, FillData, WriteSlot, Kick, Interrupt, Check,
         FreeSlot,
         Free, vars, rxVars, txVars, IInv, TypeOK, Out
<1>3. cons'[Out] = cons[Out] /\ idx'[Out] = idx[Out]
  BY <1>1 DEF SendMessage, Alloc, Take, FillHeader, FillData, WriteSlot, Kick, Interrupt, Check,
              FreeSlot,
         Free, vars, rxVars, txVars, IInv, TypeOK
<1>4. \A s \in OutSlots : ring[Out][s] \in Buffer
  BY <1>1 DEF IInv, TypeOK
<1>5. /\ \A s \in OutSlots : buffer'[ring'[Out][s]] = buffer[ring[Out][s]]
      /\ rx.pc = "Callback" => buffer'[rx.buf] = buffer[rx.buf]
  <2>1. CASE FillHeader \/ FillData
    <3>1. InTx /\ tx.buf \in Buffer /\ ring' = ring
      BY <2>1 DEF FillHeader, FillData, InTx, IInv, TypeOK
    <3>2. \A s \in OutSlots : ring[Out][s] # tx.buf
      BY <3>1 DEF IInv, Apart
    <3>3. rx.pc = "Callback" => rx.buf # tx.buf
      BY <3>1 DEF IInv, Apart, InRx
    <3>4. \A b \in Buffer : b # tx.buf => buffer'[b] = buffer[b]
      BY <2>1 DEF FillHeader, FillData, IInv, TypeOK
    <3>5. rx.buf \in Buffer
      BY DEF IInv, TypeOK
    <3> QED
      BY <1>4, <3>1, <3>2, <3>3, <3>4, <3>5
  <2>2. CASE WriteSlot
    <3>1. OutCount \in 0 .. (RL_BUFFER_COUNT - 1)
      BY <1>1, <2>2, BufferAssumption DEF WriteSlot, InTx, IInv, Counted
    <3>2. SlotOf(idx[Out]) \in Buffer \ OutSlots
      BY <1>1, <3>1, PutSlot DEF OutCount, OutSlots
    <3>3. \A s \in OutSlots : ring'[Out][s] = ring[Out][s]
      BY <1>1, <2>2, <3>2 DEF WriteSlot, IInv, TypeOK
    <3> QED
      BY <2>2, <3>3 DEF WriteSlot
  <2>3. CASE FreeSlot
    <3>1. ring'[Out] = ring[Out] /\ buffer' = buffer
      BY <1>1, <2>3 DEF FreeSlot, txVars, IInv, TypeOK
    <3> QED
      BY <3>1
  <2>4. CASE UNCHANGED <<ring, buffer>>
    BY <2>4
  <2> QED
    BY <2>1, <2>2, <2>3, <2>4
       DEF SendMessage, Alloc, Take, Kick, Interrupt, Check, Free, vars, rxVars, txVars
<1>6. OutCount' = OutCount
  BY <1>2, <1>3 DEF OutCount
<1>7. \A k \in 1 .. OutCount : SlotOf(cons[Out] + k - 1) \in OutSlots
  BY Indices, EntrySlots DEF OutCount, OutSlots
<1>8. Contents' = Contents
  BY <1>2, <1>3, <1>5, <1>6, <1>7 DEF Contents
<1>9. Queue' = Queue
  BY <1>2, <1>5, <1>8, QueueIs, QueueNext DEF QueueShape
<1> QED
  BY <1>2, <1>9

(* To publish an entry puts its message at the end of the queue.           *)
LEMMA PublishSends ==
  ASSUME IInv, IInv', Publish
  PROVE  Fifo!Send
<1>1. /\ Out \in Ring /\ cons[Out] \in Index /\ idx[Out] \in Index
      /\ OutCount \in Nat /\ BackCount \in Nat /\ OutCount \in 0 .. RL_BUFFER_COUNT
  BY Indices
<1>2. UNCHANGED <<Out, cons, ring, buffer, rx, delivered>>
  BY DEF Publish, rxVars, Out
<1>3. InTx /\ OutCount + (IF InRx THEN 1 ELSE 0) < RL_BUFFER_COUNT
  <2>1. InTx
    BY DEF Publish, InTx
  <2> QED
    BY <1>1, <2>1, BufferAssumption DEF IInv, Counted
<1>4. OutCount' = OutCount + 1
  <2>1. OutCount < RL_BUFFER_COUNT
    BY <1>1, <1>3, BufferAssumption
  <2> QED
    BY <2>1, OutPut DEF Publish, rxVars
<1>5. tx.msg \in Message /\ buffer[ring[Out][SlotOf(idx[Out])]] = tx.msg
  BY DEF Publish, IInv, StillThere, Whole
<1>6. SlotOf(cons[Out] + (OutCount + 1) - 1) = SlotOf(idx[Out])
  <2>1. \/ cons[Out] + (OutCount + 1) - 1 = idx[Out]
        \/ cons[Out] + (OutCount + 1) - 1 = idx[Out] + IndexRange
    <3>1. cons[Out] \in Int /\ idx[Out] \in Int /\ IndexRange \in Int
      BY <1>1, IndexAssumption DEF Index
    <3>2. OutCount = IF idx[Out] >= cons[Out] THEN idx[Out] - cons[Out]
                                             ELSE idx[Out] - cons[Out] + IndexRange
      BY <1>1, AheadOf DEF OutCount
    <3> QED
      BY <3>1, <3>2
  <2> QED
    BY <1>1, <2>1, SlotWraps DEF Index
<1>7. Contents' = Append(Contents, tx.msg)
  <2>1. Contents \in Seq(Message) /\ Len(Contents) = OutCount
    BY QueueIs DEF QueueShape
  <2>2. Contents' \in Seq(Message) /\ Len(Contents') = OutCount + 1
    BY <1>4, QueueNext DEF QueueShape
  <2>3. Append(Contents, tx.msg) \in Seq(Message) /\ Len(Append(Contents, tx.msg)) = OutCount + 1
    BY <1>5, <2>1, AppendProperties
  <2>4. ASSUME NEW k \in 1 .. (OutCount + 1)
        PROVE  Contents'[k] = Append(Contents, tx.msg)[k]
    <3>1. Contents'[k] = buffer[ring[Out][SlotOf(cons[Out] + k - 1)]]
      BY <1>2, <1>4 DEF Contents
    <3>2. CASE k = OutCount + 1
      BY <1>5, <1>6, <2>1, <3>1, <3>2, AppendProperties
    <3>3. CASE k # OutCount + 1
      <4>1. k \in 1 .. OutCount
        BY <1>1, <3>3
      <4>2. Append(Contents, tx.msg)[k] = Contents[k]
        BY <1>5, <2>1, <4>1, AppendProperties
      <4> QED
        BY <3>1, <4>1, <4>2 DEF Contents
    <3> QED
      BY <3>2, <3>3
  <2> QED
    BY <2>2, <2>3, <2>4, SeqEqual
<1>8. Queue' = Append(Queue, tx.msg) /\ Len(Queue) < RL_BUFFER_COUNT
  <2>1. Contents \in Seq(Message) /\ Len(Contents) = OutCount
    BY QueueIs DEF QueueShape
  <2>2. CASE rx.pc = "Callback"
    <3>1. buffer[rx.buf] \in Message /\ InRx
      BY <2>2 DEF IInv, Whole, InRx
    <3>2. <<buffer[rx.buf]>> \in Seq(Message) /\ Len(<<buffer[rx.buf]>>) = 1
      BY <3>1
    <3>3. Queue = <<buffer[rx.buf]>> \o Contents /\ Queue' = <<buffer[rx.buf]>> \o Contents'
      BY <1>2, <2>2, QueueIs, QueueNext DEF QueueShape
    <3>4. Queue \in Seq(Message) /\ Len(Queue) = 1 + OutCount
      BY <2>1, <3>2, <3>3, ConcatProperties
    <3>5. Append(Contents, tx.msg) = Contents \o <<tx.msg>>
          /\ Append(Queue, tx.msg) = Queue \o <<tx.msg>> /\ <<tx.msg>> \in Seq(Message)
      BY <1>5, <2>1, <3>4, AppendIsConcat
    <3>6. (<<buffer[rx.buf]>> \o Contents) \o <<tx.msg>>
            = <<buffer[rx.buf]>> \o (Contents \o <<tx.msg>>)
      BY <2>1, <3>2, <3>5, ConcatAssociative
    <3> QED
      BY <1>1, <1>3, <1>7, <3>1, <3>3, <3>4, <3>5, <3>6
  <2>3. CASE rx.pc # "Callback"
    <3>1. Queue = Contents /\ Queue' = Contents'
      BY <1>2, <2>3, QueueIs, QueueNext DEF QueueShape
    <3> QED
      BY <1>1, <1>3, <1>7, <2>1, <3>1, BufferAssumption
  <2> QED
    BY <2>2, <2>3
<1> QED
  BY <1>2, <1>5, <1>8 DEF Fifo!Send

(* To take up an entry leaves its message at the head of the queue.        *)
LEMMA ReceiveKeeps ==
  ASSUME IInv, IInv', Receive
  PROVE  UNCHANGED <<Queue, delivered>>
<1>1. /\ Out \in Ring /\ cons[Out] \in Index /\ idx[Out] \in Index
      /\ OutCount \in Nat /\ OutCount \in 0 .. RL_BUFFER_COUNT
  BY Indices
<1>2. UNCHANGED <<Out, idx, ring, buffer, delivered>> /\ rx.pc = "Receive" /\ rx'.pc = "Callback"
  BY DEF Receive, txVars, Out
<1>3. OutCount >= 1 /\ OutCount' = OutCount - 1
  <2>1. OutCount >= 1
    BY <1>2 DEF IInv, StillThere
  <2> QED
    BY <2>1, OutTaken DEF Receive
<1>4. cons'[Out] = After(cons[Out]) /\ rx'.buf = ring[Out][SlotOf(cons[Out])]
  BY <1>1 DEF Receive, IInv, TypeOK
<1>5. /\ Contents \in Seq(Message) /\ Len(Contents) = OutCount
      /\ Contents' \in Seq(Message) /\ Len(Contents') = OutCount - 1
      /\ Queue = Contents /\ Queue' = <<buffer'[rx'.buf]>> \o Contents'
  BY <1>2, <1>3, QueueIs, QueueNext DEF QueueShape
<1>6. buffer'[rx'.buf] = Contents[1]
  BY <1>1, <1>2, <1>3, <1>4 DEF Contents, Index
<1>7. Contents[1] \in Message /\ <<Contents[1]>> \in Seq(Message)
  BY <1>3, <1>5
<1>8. ASSUME NEW k \in 1 .. OutCount
      PROVE  (<<Contents[1]>> \o Contents')[k] = Contents[k]
  <2>1. CASE k = 1
    BY <1>5, <1>7, <2>1, ConcatProperties
  <2>2. CASE k # 1
    <3>1. k - 1 \in 1 .. (OutCount - 1)
      BY <1>1, <2>2
    <3>2. (<<Contents[1]>> \o Contents')[k] = Contents'[k - 1]
      BY <1>1, <1>3, <1>5, <1>7, <3>1, ConcatProperties
    <3>3. Contents'[k - 1] = buffer[ring[Out][SlotOf(After(cons[Out]) + (k - 1) - 1)]]
      BY <1>2, <1>3, <1>4, <3>1 DEF Contents
    <3>4. SlotOf(After(cons[Out]) + (k - 1) - 1) = SlotOf(cons[Out] + k - 1)
      <4>1. \/ After(cons[Out]) + (k - 1) - 1 = cons[Out] + k - 1
            \/ cons[Out] + k - 1 = (After(cons[Out]) + (k - 1) - 1) + IndexRange
        BY <1>1, <3>1, AfterIndex, IndexAssumption DEF Index
      <4>2. After(cons[Out]) + (k - 1) - 1 \in Int
        BY <1>1, <3>1, AfterIndex DEF Index
      <4> QED
        BY <4>1, <4>2, SlotWraps
    <3> QED
      BY <3>2, <3>3, <3>4 DEF Contents
  <2> QED
    BY <2>1, <2>2
<1>9. <<Contents[1]>> \o Contents' = Contents
  <2>1. /\ <<Contents[1]>> \o Contents' \in Seq(Message)
        /\ Len(<<Contents[1]>> \o Contents') = OutCount
    BY <1>1, <1>3, <1>5, <1>7, ConcatProperties
  <2> QED
    BY <1>5, <1>8, <2>1, SeqEqual
<1> QED
  BY <1>2, <1>5, <1>6, <1>9

(* The callback gets the head of the queue.                                *)
LEMMA CallbackDelivers ==
  ASSUME IInv, IInv', Callback
  PROVE  Fifo!Deliver
<1>1. UNCHANGED <<sender, idx, cons, ring, buffer>> /\ rx.pc = "Callback" /\ rx'.pc # "Callback"
  BY DEF Callback, txVars, IInv, TypeOK
<1>2. Contents' = Contents
  BY <1>1, SameContents
<1>3. Contents \in Seq(Message) /\ Queue = <<buffer[rx.buf]>> \o Contents /\ Queue' = Contents
  BY <1>1, <1>2, QueueIs, QueueNext DEF QueueShape
<1>4. buffer[rx.buf] \in Message
  BY <1>1 DEF IInv, Whole
<1>5. Queue # <<>> /\ Head(Queue) = buffer[rx.buf] /\ Tail(Queue) = Contents
  BY <1>3, <1>4
<1> QED
  BY <1>3, <1>5 DEF Callback, Fifo!Deliver

(* Both rings with their indices and the two threads on them are a FIFO of *)
(* whole messages: the safety part of ImplementsFifo.                      *)
THEOREM RingsAreFifo == Spec => Fifo!Spec
<1>1. ASSUME IInv, IInv', [Next]_vars
      PROVE  [Fifo!Next]_(Fifo!vars)
  <2> USE <1>1
  <2>1. CASE Publish
    BY <2>1, PublishSends DEF Fifo!Next
  <2>2. CASE Receive
    BY <2>2, ReceiveKeeps DEF Fifo!vars
  <2>3. CASE Callback
    BY <2>3, CallbackDelivers DEF Fifo!Next
  <2>4. CASE \/ \E m \in Message : SendMessage(m)
             \/ Alloc \/ Take \/ FillHeader \/ FillData \/ WriteSlot \/ Kick
             \/ Interrupt \/ Check \/ FreeSlot \/ Free \/ UNCHANGED vars
    BY <2>4, QueueStays DEF Fifo!vars
  <2> QED
    BY <2>1, <2>2, <2>3, <2>4 DEF Next, Sender, Receiver
<1> QED
  BY <1>1, QueueInit, Inductive, PTL DEF Spec, Fifo!Spec

-----------------------------------------------------------------------------
(* The components beside each other.  A behaviour of Runtime.tla is one of *)
(* each component, which steps or stutters.                                *)
FramesProofs == INSTANCE FrameRingProofs
QuicksortProofs == INSTANCE QuicksortProofs

LEMMA OneComponentSteps ==
  ASSUME [RuntimeNext]_runtimeVars
  PROVE  /\ [Next]_vars /\ [Frames!Next]_(Frames!vars)
         /\ [Console!Next]_(Console!vars) /\ [Delay!Next]_(Delay!vars)
         /\ [Quicksort!Next]_(Quicksort!vars)
<1> USE DEF frameRingVars, consoleVars, delayVars, quicksortVars, others, Step,
            Frames!vars, Frames!ring, Frames!putVars, Frames!getVars, Frames!lengthVars,
            Console!vars, Delay!vars, Quicksort!vars
<1>1. CASE RunVring(Next)
  BY <1>1 DEF RunVring
<1>2. CASE RunFrameRing
  BY <1>2 DEF RunFrameRing
<1>3. CASE RunConsole
  BY <1>3 DEF RunConsole
<1>4. CASE RunDelay(Delay!Next)
  BY <1>4 DEF RunDelay
<1>5. CASE RunQuicksort
  BY <1>5 DEF RunQuicksort
<1>6. CASE Ended \/ UNCHANGED runtimeVars
  BY <1>6 DEF Ended, runtimeVars
<1> QED
  BY <1>1, <1>2, <1>3, <1>4, <1>5, <1>6 DEF RuntimeNext

LEMMA EachComponent ==
  RuntimeSpec => Spec /\ Frames!Spec /\ Console!Spec /\ Delay!Spec /\ Quicksort!Spec
<1>1. RuntimeInit =>
        Init /\ Frames!Init /\ Console!Init /\ Delay!Init /\ Quicksort!Init
  BY DEF RuntimeInit
<1> QED
  BY <1>1, OneComponentSteps, PTL
  DEF RuntimeSpec, Spec, Frames!Spec, Console!Spec, Delay!Spec, Quicksort!Spec

-----------------------------------------------------------------------------
(* The modules of proofs speak of the same formulas.                       *)
LEMMA SameFrameRing ==
  /\ FramesProofs!SizeAssumption /\ FramesProofs!NothingAssumption
  /\ FramesProofs!Init = Frames!Init /\ FramesProofs!vars = Frames!vars
  /\ FramesProofs!Next = Frames!Next
<1>1. FramesProofs!SizeAssumption /\ FramesProofs!NothingAssumption
  BY FrameRingAssumption
  DEF Frames!SizeAssumption, Frames!NothingAssumption,
      FramesProofs!SizeAssumption, FramesProofs!NothingAssumption
<1>2. FramesProofs!Init = Frames!Init
  BY DEF FramesProofs!Init, Frames!Init, FramesProofs!Slot, Frames!Slot
<1>3. FramesProofs!vars = Frames!vars
  BY DEF FramesProofs!vars, Frames!vars, FramesProofs!ring, Frames!ring,
         FramesProofs!putVars, Frames!putVars, FramesProofs!getVars, Frames!getVars,
         FramesProofs!lengthVars, Frames!lengthVars
<1>4. FramesProofs!Next = Frames!Next
  <2> USE DEF FramesProofs!ring, Frames!ring, FramesProofs!putVars, Frames!putVars,
              FramesProofs!getVars, Frames!getVars,
              FramesProofs!lengthVars, Frames!lengthVars
  <2>1. /\ (\E i \in Item : FramesProofs!PutReadRear(i)) = (\E i \in Item : Frames!PutReadRear(i))
        /\ FramesProofs!PutReadFront = Frames!PutReadFront
        /\ FramesProofs!PutStore = Frames!PutStore
        /\ FramesProofs!PutAdvance = Frames!PutAdvance
    BY DEF FramesProofs!PutReadRear, Frames!PutReadRear, FramesProofs!After, Frames!After,
           FramesProofs!PutReadFront, Frames!PutReadFront,
           FramesProofs!PutStore, Frames!PutStore, FramesProofs!PutAdvance, Frames!PutAdvance
  <2>2. /\ FramesProofs!GetReadRear = Frames!GetReadRear
        /\ FramesProofs!GetLoad = Frames!GetLoad
        /\ FramesProofs!GetAdvance = Frames!GetAdvance
    BY DEF FramesProofs!GetReadRear, Frames!GetReadRear, FramesProofs!GetLoad, Frames!GetLoad,
           FramesProofs!GetAdvance, Frames!GetAdvance
  <2>3. /\ (\E who \in {"put", "get"} : FramesProofs!LengthReadRear(who))
             = (\E who \in {"put", "get"} : Frames!LengthReadRear(who))
        /\ FramesProofs!LengthReadFront = Frames!LengthReadFront
    BY DEF FramesProofs!LengthReadRear, Frames!LengthReadRear,
           FramesProofs!LengthReadFront, Frames!LengthReadFront,
           FramesProofs!Wrapped, Frames!Wrapped, FramesProofs!Unwrapped, Frames!Unwrapped
  <2> QED
    BY <2>1, <2>2, <2>3 DEF FramesProofs!Next, Frames!Next
<1> QED
  BY <1>1, <1>2, <1>3, <1>4

LEMMA SameFrameRingSpec == Frames!Spec => FramesProofs!Spec
<1>1. [Frames!Next]_(Frames!vars) => [FramesProofs!Next]_(FramesProofs!vars)
  BY SameFrameRing
  DEF FramesProofs!vars, Frames!vars, FramesProofs!ring, Frames!ring,
      FramesProofs!putVars, Frames!putVars, FramesProofs!getVars, Frames!getVars,
      FramesProofs!lengthVars, Frames!lengthVars
<1>2. Frames!Init => FramesProofs!Init
  BY SameFrameRing
<1> QED
  BY <1>1, <1>2, PTL DEF Frames!Spec, FramesProofs!Spec

LEMMA SameFrameFifo ==
  /\ FramesProofs!Fifo!Init = Frames!Fifo!Init
  /\ FramesProofs!Fifo!Next = Frames!Fifo!Next
  /\ FramesProofs!Fifo!vars = Frames!Fifo!vars
<1>1. FramesProofs!Contents = Frames!Contents
  BY DEF FramesProofs!Contents, Frames!Contents, FramesProofs!Used, Frames!Used,
         FramesProofs!Place, Frames!Place, FramesProofs!First, Frames!First,
         FramesProofs!After, Frames!After
<1>2. FramesProofs!Contents' = Frames!Contents'
  BY DEF FramesProofs!Contents, Frames!Contents, FramesProofs!Used, Frames!Used,
         FramesProofs!Place, Frames!Place, FramesProofs!First, Frames!First,
         FramesProofs!After, Frames!After
<1>3. FramesProofs!Fifo!Init = Frames!Fifo!Init
  BY <1>1 DEF FramesProofs!Fifo!Init, Frames!Fifo!Init
<1>4. FramesProofs!Fifo!Next = Frames!Fifo!Next
  BY <1>1, <1>2
  DEF FramesProofs!Fifo!Next, Frames!Fifo!Next, FramesProofs!Fifo!Send, Frames!Fifo!Send,
      FramesProofs!Fifo!Deliver, Frames!Fifo!Deliver
<1>5. FramesProofs!Fifo!vars = Frames!Fifo!vars
  BY <1>1 DEF FramesProofs!Fifo!vars, Frames!Fifo!vars
<1> QED
  BY <1>3, <1>4, <1>5

(* To one that puts and one that gets the ring of frame buffers is a FIFO, *)
(* whatever their interleaving, and the slot that is written is never the  *)
(* one that is read.                                                       *)
THEOREM FramesComeOutInOrder == RuntimeSpec => FramesAreFifo
<1>1. FramesProofs!Spec => FramesProofs!ImplementsFifo /\ []FramesProofs!SlotsApart
  BY SameFrameRing, FramesProofs!RingIsFifo, FramesProofs!NeverTheSameSlot
<1>2. Frames!Spec => FramesProofs!Spec
  BY SameFrameRingSpec
<1>3. FramesProofs!ImplementsFifo => Frames!ImplementsFifo
  <2>1. /\ FramesProofs!Fifo!Init => Frames!Fifo!Init
        /\ [FramesProofs!Fifo!Next]_(FramesProofs!Fifo!vars)
           => [Frames!Fifo!Next]_(Frames!Fifo!vars)
    <3>1. FramesProofs!Fifo!Init => Frames!Fifo!Init
      BY SameFrameFifo
    <3>2. FramesProofs!Fifo!vars' = Frames!Fifo!vars'
      BY DEF FramesProofs!Fifo!vars, Frames!Fifo!vars, FramesProofs!Contents, Frames!Contents,
             FramesProofs!Used, Frames!Used, FramesProofs!Place, Frames!Place,
             FramesProofs!First, Frames!First, FramesProofs!After, Frames!After
    <3> QED
      BY <3>1, <3>2, SameFrameFifo
  <2> QED
    BY <2>1, PTL
    DEF FramesProofs!ImplementsFifo, Frames!ImplementsFifo,
        FramesProofs!Fifo!Spec, Frames!Fifo!Spec
<1>4. FramesProofs!SlotsApart => Frames!SlotsApart
  BY DEF FramesProofs!SlotsApart, Frames!SlotsApart
<1> QED
  BY <1>1, <1>2, <1>3, <1>4, EachComponent, PTL DEF FramesAreFifo

(* What GetLength returns never makes the one that puts count on a slot or *)
(* the one that gets on a frame that is not there.                         *)
THEOREM LengthOfRingIsSafe == RuntimeSpec => LengthIsSafe
<1>1. FramesProofs!Spec => FramesProofs!LengthIsSafe
  BY SameFrameRing, FramesProofs!LengthCanBeRelied
<1>2. Frames!Spec => FramesProofs!Spec
  BY SameFrameRingSpec
<1>3. FramesProofs!LengthIsSafe => Frames!LengthIsSafe
  <2>1. [FramesProofs!LengthReadFront =>
           /\ length_of = "put" => length' = FramesProofs!Used(rear, front)
           /\ length_of = "get" => length' <= FramesProofs!Used(rear, front)]_(FramesProofs!vars)
        => [Frames!LengthReadFront =>
              /\ length_of = "put" => length' = Frames!Used(rear, front)
              /\ length_of = "get" => length' <= Frames!Used(rear, front)]_(Frames!vars)
    BY DEF FramesProofs!LengthReadFront, Frames!LengthReadFront,
           FramesProofs!Used, Frames!Used, FramesProofs!Wrapped, Frames!Wrapped,
           FramesProofs!Unwrapped, Frames!Unwrapped,
           FramesProofs!vars, Frames!vars, FramesProofs!ring, Frames!ring,
           FramesProofs!putVars, Frames!putVars, FramesProofs!getVars, Frames!getVars,
           FramesProofs!lengthVars, Frames!lengthVars
  <2> QED
    BY <2>1, PTL DEF FramesProofs!LengthIsSafe, Frames!LengthIsSafe
<1> QED
  BY <1>1, <1>2, <1>3, EachComponent, PTL DEF LengthIsSafe

LEMMA SameQuicksort ==
  /\ QuicksortProofs!MaxLengthAssumption /\ QuicksortProofs!RankAssumption
  /\ QuicksortProofs!Init = Quicksort!Init
  /\ QuicksortProofs!Next = Quicksort!Next
<1> USE DEF QuicksortProofs!Frame, Quicksort!Frame
<1>1. QuicksortProofs!MaxLengthAssumption /\ QuicksortProofs!RankAssumption
  BY QuicksortAssumption
  DEF Quicksort!MaxLengthAssumption, Quicksort!RankAssumption,
      QuicksortProofs!MaxLengthAssumption, QuicksortProofs!RankAssumption
<1>2. QuicksortProofs!Init = Quicksort!Init
  BY DEF QuicksortProofs!Init, Quicksort!Init
<1>3. QuicksortProofs!Next = Quicksort!Next
  BY DEF QuicksortProofs!Next, Quicksort!Next, QuicksortProofs!Small, Quicksort!Small,
         QuicksortProofs!Begin, Quicksort!Begin, QuicksortProofs!Partition, Quicksort!Partition,
         QuicksortProofs!Lower, Quicksort!Lower, QuicksortProofs!Upper, Quicksort!Upper,
         QuicksortProofs!Return, Quicksort!Return, QuicksortProofs!At, Quicksort!At,
         QuicksortProofs!Top, Quicksort!Top, QuicksortProofs!Become, Quicksort!Become,
         QuicksortProofs!Call, Quicksort!Call, QuicksortProofs!Pop, Quicksort!Pop,
         QuicksortProofs!Less, Quicksort!Less, QuicksortProofs!Swapped, Quicksort!Swapped
<1> QED
  BY <1>1, <1>2, <1>3

LEMMA SameQuicksortSpec == Quicksort!Spec => QuicksortProofs!Spec
<1>1. [Quicksort!Next]_(Quicksort!vars) => [QuicksortProofs!Next]_(QuicksortProofs!vars)
  BY SameQuicksort DEF QuicksortProofs!vars, Quicksort!vars
<1>2. Quicksort!Init => QuicksortProofs!Init
  BY SameQuicksort
<1> QED
  BY <1>1, <1>2, PTL DEF Quicksort!Spec, QuicksortProofs!Spec

(* alg::quicksort sorts in place, in parts that shrink and that no inner   *)
(* call crosses.                                                           *)
THEOREM QuicksortSorts == RuntimeSpec => []SortsInPlace
<1>1. QuicksortProofs!Spec =>
        []QuicksortProofs!SortedAtEnd /\ []QuicksortProofs!CallsShrink
          /\ []QuicksortProofs!PartsStayApart
  BY SameQuicksort, QuicksortProofs!Sorts, QuicksortProofs!PartsShrink,
     QuicksortProofs!NothingCrosses
<1>2. QuicksortProofs!SortedAtEnd => Quicksort!SortedAtEnd
  BY DEF QuicksortProofs!SortedAtEnd, Quicksort!SortedAtEnd, QuicksortProofs!Index, Quicksort!Index
<1>3. QuicksortProofs!CallsShrink => Quicksort!CallsShrink
  BY DEF QuicksortProofs!CallsShrink, Quicksort!CallsShrink
<1>4. QuicksortProofs!PartsStayApart => Quicksort!PartsStayApart
  BY DEF QuicksortProofs!PartsStayApart, Quicksort!PartsStayApart,
         QuicksortProofs!Less, Quicksort!Less
<1> QED
  BY <1>1, <1>2, <1>3, <1>4, EachComponent, SameQuicksortSpec, PTL DEF SortsInPlace

-----------------------------------------------------------------------------
(* delay::ms, for every range of the counter.  Since it is polled between  *)
(* any two interrupts, its difference does not pass the duration; and the  *)
(* time since the call is that of the interrupts, less the part of the     *)
(* millisecond in which it began.                                          *)
Ticks == Delay!Since(ms_since_boot, start)

WaitingInv ==
  /\ Ticks <= duration
  /\ polled => Ticks < duration
  /\ Ticks * STEPS + phase - (STEPS - 1) <= elapsed
  /\ elapsed <= Ticks * STEPS + phase

DelayInv == Delay!TypeOK /\ (pc = "Waiting" => WaitingInv)

LEMMA Multiples ==
  ASSUME NEW n \in Nat, NEW m \in Nat, n <= m
  PROVE  /\ n * STEPS \in Nat /\ n * STEPS <= m * STEPS
         /\ (n + 1) * STEPS = n * STEPS + STEPS /\ (n - 1) * STEPS = n * STEPS - STEPS
<1>1. STEPS \in Nat
  BY DelayAssumption DEF Delay!StepsAssumption
<1>2. m * STEPS = n * STEPS + (m - n) * STEPS /\ m - n \in Nat
  BY <1>1, Z3
<1>3. \A k \in Nat : k * STEPS \in Nat
  BY <1>1, Z3
<1>4. (n + 1) * STEPS = n * STEPS + STEPS /\ (n - 1) * STEPS = n * STEPS - STEPS
  BY <1>1, Z3
<1>5. (m - n) * STEPS \in Nat /\ n * STEPS \in Nat
  BY <1>2, <1>3
<1> QED
  BY <1>2, <1>4, <1>5

LEMMA SinceIs ==
  ASSUME NEW a \in Delay!Milliseconds, NEW b \in Delay!Milliseconds
  PROVE  /\ Delay!Since(a, b) = IF a >= b THEN a - b ELSE a - b + COUNTS
         /\ Delay!Since(a, b) \in Delay!Milliseconds
<1> USE DelayAssumption DEF Delay!CountsAssumption, Delay!Milliseconds
<1>1. CASE a >= b
  <2>1. a - b \in 0 .. (COUNTS - 1) /\ COUNTS * 0 + (a - b) = a - b
    BY <1>1
  <2>2. (COUNTS * 0 + (a - b)) % COUNTS = a - b
    BY <2>1, Remainder
  <2> QED
    BY <1>1, <2>1, <2>2 DEF Delay!Since
<1>2. CASE a < b
  <2>1. a - b + COUNTS \in 0 .. (COUNTS - 1) /\ COUNTS * (-1) + (a - b + COUNTS) = a - b
    BY <1>2
  <2>2. (COUNTS * (-1) + (a - b + COUNTS)) % COUNTS = a - b + COUNTS
    BY <2>1, Remainder
  <2> QED
    BY <1>2, <2>1, <2>2 DEF Delay!Since
<1> QED
  BY <1>1, <1>2

LEMMA NextCount ==
  ASSUME NEW a \in Delay!Milliseconds
  PROVE  /\ (a + 1) % COUNTS = IF a + 1 = COUNTS THEN 0 ELSE a + 1
         /\ (a + 1) % COUNTS \in Delay!Milliseconds
<1> USE DelayAssumption DEF Delay!CountsAssumption, Delay!Milliseconds
<1>1. CASE a + 1 = COUNTS
  <2>1. COUNTS * 1 + 0 = a + 1
    BY <1>1
  <2>2. (COUNTS * 1 + 0) % COUNTS = 0
    BY Remainder
  <2> QED
    BY <1>1, <2>1, <2>2
<1>2. CASE a + 1 # COUNTS
  <2>1. COUNTS * 0 + (a + 1) = a + 1 /\ a + 1 \in 0 .. (COUNTS - 1)
    BY <1>2
  <2>2. (COUNTS * 0 + (a + 1)) % COUNTS = a + 1
    BY <2>1, Remainder
  <2> QED
    BY <1>2, <2>1, <2>2
<1> QED
  BY <1>1, <1>2

(* Time that passes within a delay is counted.                             *)
LEMMA WaitingCounts ==
  ASSUME DelayInv, pc = "Waiting"
  PROVE  elapsed < Delay!LongestDelay /\ Ticks \in Nat /\ Ticks < COUNTS
<1>1. /\ COUNTS \in Nat \ {0} /\ STEPS \in Nat /\ elapsed \in Int
      /\ phase \in 0 .. (STEPS - 1) /\ duration \in 0 .. (COUNTS - 1)
  BY DelayAssumption
  DEF DelayInv, Delay!TypeOK, Delay!CountsAssumption, Delay!StepsAssumption, Delay!Milliseconds
<1>2. Ticks \in 0 .. (COUNTS - 1) /\ elapsed <= Ticks * STEPS + phase
  BY SinceIs DEF DelayInv, WaitingInv, Delay!TypeOK, Delay!Milliseconds, Ticks
<1>3. Ticks * STEPS <= COUNTS * STEPS /\ Ticks * STEPS \in Nat
      /\ (COUNTS + 1) * STEPS = COUNTS * STEPS + STEPS /\ COUNTS * STEPS \in Nat
  BY <1>1, <1>2, Multiples
<1> QED
  BY <1>1, <1>2, <1>3 DEF Delay!LongestDelay

LEMMA InitDelay == Delay!Init => DelayInv
<1>1. (COUNTS + 1) * STEPS \in Nat
  BY Multiples, DelayAssumption DEF Delay!CountsAssumption
<1> QED
  BY <1>1, DelayAssumption
  DEF Delay!Init, DelayInv, Delay!TypeOK, Delay!Milliseconds, Delay!LongestDelay,
      Delay!CountsAssumption, Delay!StepsAssumption

(* The values a step of delay works with. *)
LEMMA DelayValues ==
  ASSUME DelayInv
  PROVE  /\ COUNTS \in Nat \ {0} /\ STEPS \in Nat \ {0, 1} /\ Delay!LongestDelay \in Nat
         /\ ms_since_boot \in Delay!Milliseconds /\ start \in Delay!Milliseconds
         /\ phase \in 0 .. (STEPS - 1) /\ duration \in 0 .. (COUNTS - 1)
         /\ elapsed \in 0 .. Delay!LongestDelay
<1>1. (COUNTS + 1) * STEPS \in Nat
  BY Multiples, DelayAssumption DEF Delay!CountsAssumption
<1> QED
  BY <1>1, DelayAssumption
  DEF DelayInv, Delay!TypeOK, Delay!CountsAssumption, Delay!StepsAssumption,
      Delay!Milliseconds, Delay!LongestDelay

LEMMA PassesCounts ==
  ASSUME DelayInv, Delay!Passes
  PROVE  /\ elapsed' \in 0 .. Delay!LongestDelay
         /\ pc = "Waiting" => elapsed' = elapsed + 1
<1>1. pc = "Waiting" => elapsed < Delay!LongestDelay
  BY WaitingCounts
<1>2. pc \in {"Idle", "Waiting"}
  BY DEF DelayInv, Delay!TypeOK
<1> QED
  BY <1>1, <1>2, DelayValues DEF Delay!Passes

LEMMA TimeStep ==
  ASSUME DelayInv, Delay!Time
  PROVE  DelayInv'
<1>1. UNCHANGED <<ms_since_boot, pc, start, duration, polled>> /\ phase' = phase + 1
  BY DEF Delay!Time
<1>2. phase' \in 0 .. (STEPS - 1)
  BY DelayValues DEF Delay!Time
<1>3. elapsed' \in 0 .. Delay!LongestDelay /\ (pc = "Waiting" => elapsed' = elapsed + 1)
  BY PassesCounts DEF Delay!Time
<1>4. Delay!TypeOK'
  BY <1>1, <1>2, <1>3 DEF DelayInv, Delay!TypeOK
<1>5. ASSUME pc = "Waiting" PROVE WaitingInv'
  <2>1. Ticks' = Ticks
    BY <1>1 DEF Ticks, Delay!Since
  <2>2. Ticks \in Nat /\ Ticks * STEPS \in Nat
    BY <1>5, WaitingCounts, Multiples
  <2>3. WaitingInv
    BY <1>5 DEF DelayInv
  <2> QED
    BY <1>1, <1>3, <1>5, <2>1, <2>2, <2>3, DelayValues DEF WaitingInv
<1> QED
  BY <1>1, <1>4, <1>5 DEF DelayInv

LEMMA InterruptStep ==
  ASSUME DelayInv, Delay!SysTick_Handler
  PROVE  DelayInv'
<1>1. /\ UNCHANGED <<pc, start, duration>> /\ phase = STEPS - 1 /\ phase' = 0
      /\ ms_since_boot' = (ms_since_boot + 1) % COUNTS /\ polled' = FALSE
      /\ pc = "Waiting" => polled
  BY DEF Delay!SysTick_Handler
<1>2. elapsed' \in 0 .. Delay!LongestDelay /\ (pc = "Waiting" => elapsed' = elapsed + 1)
  BY PassesCounts DEF Delay!SysTick_Handler
<1>3. /\ ms_since_boot' = IF ms_since_boot + 1 = COUNTS THEN 0 ELSE ms_since_boot + 1
      /\ ms_since_boot' \in Delay!Milliseconds
  BY <1>1, NextCount, DelayValues
<1>4. Delay!TypeOK'
  <2>1. polled' \in BOOLEAN
    BY <1>1
  <2>2. phase' \in 0 .. (STEPS - 1)
    BY <1>1, DelayValues
  <2> QED
    BY <1>1, <1>2, <1>3, <2>1, <2>2 DEF DelayInv, Delay!TypeOK
<1>5. ASSUME pc = "Waiting" PROVE WaitingInv'
  <2>1. Ticks \in Nat /\ Ticks < duration
    BY <1>1, <1>5, WaitingCounts DEF DelayInv, WaitingInv
  <2>2. Ticks' = Ticks + 1
    <3>1. Ticks = IF ms_since_boot >= start THEN ms_since_boot - start
                                             ELSE ms_since_boot - start + COUNTS
      BY SinceIs, DelayValues DEF Ticks
    <3>2. Ticks' = IF ms_since_boot' >= start THEN ms_since_boot' - start
                                               ELSE ms_since_boot' - start + COUNTS
      BY <1>1, <1>3, SinceIs, DelayValues DEF Ticks
    <3> QED
      BY <1>3, <2>1, <3>1, <3>2, DelayValues DEF Delay!Milliseconds
  <2>3. Ticks * STEPS \in Nat /\ (Ticks + 1) * STEPS = Ticks * STEPS + STEPS
    BY <2>1, Multiples
  <2>4. WaitingInv
    BY <1>5 DEF DelayInv
  <2>5. Ticks' * STEPS = Ticks * STEPS + STEPS
    BY <2>2, <2>3
  <2> QED
    BY <1>1, <1>2, <1>5, <2>1, <2>2, <2>3, <2>4, <2>5, DelayValues DEF WaitingInv
<1> QED
  BY <1>1, <1>4, <1>5 DEF DelayInv

LEMMA CallStarts ==
  ASSUME DelayInv, NEW d \in Delay!Milliseconds, Delay!Call(d)
  PROVE  DelayInv'
<1>1. /\ UNCHANGED <<ms_since_boot, phase>> /\ pc' = "Waiting" /\ start' = ms_since_boot
      /\ duration' = d /\ elapsed' = 0 /\ polled' = FALSE
  BY DEF Delay!Call
<1>2. Ticks' = 0
  BY <1>1, SinceIs, DelayValues DEF Ticks, Delay!Milliseconds
<1>3. Ticks' * STEPS = 0
  BY <1>2, DelayValues
<1>4. Delay!TypeOK'
  <2>1. polled' \in BOOLEAN
    BY <1>1
  <2>2. start' \in Delay!Milliseconds /\ elapsed' \in 0 .. Delay!LongestDelay
    BY <1>1, DelayValues
  <2> QED
    BY <1>1, <2>1, <2>2 DEF DelayInv, Delay!TypeOK
<1> QED
  BY <1>1, <1>2, <1>3, <1>4, DelayValues DEF DelayInv, WaitingInv, Delay!Milliseconds

LEMMA StepDelay == DelayInv /\ [Delay!Next]_(Delay!vars) => DelayInv'
<1> SUFFICES ASSUME DelayInv, [Delay!Next]_(Delay!vars) PROVE DelayInv'
  OBVIOUS
<1>1. CASE Delay!Poll
  <2>1. Ticks' = Ticks
    BY <1>1 DEF Delay!Poll, Ticks, Delay!Since
  <2>2. Ticks \in Nat /\ ~(Ticks >= duration) /\ duration \in Nat
    BY <1>1, WaitingCounts, DelayValues DEF Delay!Poll, Delay!Over, Ticks
  <2> QED
    BY <1>1, <2>1, <2>2 DEF Delay!Poll, DelayInv, Delay!TypeOK, WaitingInv
<1>2. CASE Delay!Return
  BY <1>2 DEF Delay!Return, DelayInv, Delay!TypeOK
<1>3. CASE UNCHANGED Delay!vars
  <2>1. Ticks' = Ticks
    BY <1>3 DEF Delay!vars, Ticks, Delay!Since
  <2> QED
    BY <1>3, <2>1 DEF Delay!vars, DelayInv, Delay!TypeOK, WaitingInv
<1> QED
  BY <1>1, <1>2, <1>3, TimeStep, InterruptStep, CallStarts DEF Delay!Next

(* A delay takes its number of interrupts, wherever the counter wraps.     *)
THEOREM DelaysTakeTheirTime == RuntimeSpec => DelaysByInterrupts
<1>1. ASSUME DelayInv, Delay!Return
      PROVE  elapsed > (duration - 1) * STEPS /\ elapsed < (duration + 1) * STEPS
  <2>1. Ticks \in Nat /\ duration \in Nat /\ Ticks >= duration /\ WaitingInv
    BY <1>1, WaitingCounts, DelayValues DEF DelayInv, Delay!Return, Delay!Over, Ticks
  <2>2. Ticks = duration
    BY <2>1 DEF WaitingInv
  <2>3. /\ duration * STEPS \in Nat
        /\ (duration + 1) * STEPS = duration * STEPS + STEPS
        /\ (duration - 1) * STEPS = duration * STEPS - STEPS
    BY <2>1, Multiples
  <2>4. /\ duration * STEPS + phase - (STEPS - 1) <= elapsed
        /\ elapsed <= duration * STEPS + phase
    BY <2>1, <2>2 DEF WaitingInv
  <2> QED
    BY <1>1, <2>3, <2>4, DelayValues
<1>2. DelayInv => [Delay!Return =>
                     /\ elapsed > (duration - 1) * STEPS
                     /\ elapsed < (duration + 1) * STEPS]_(Delay!vars)
  BY <1>1
<1> QED
  BY <1>2, InitDelay, StepDelay, EachComponent, PTL
  DEF DelaysByInterrupts, Delay!DelaysByInterrupts, Delay!Spec

-----------------------------------------------------------------------------
LEMMA OfSix ==
  ASSUME NEW S, NEW s1 \in S, NEW s2 \in S, NEW s3 \in S, NEW s4 \in S, NEW s5 \in S,
         NEW s6 \in S
  PROVE  /\ <<s1, s2, s3, s4, s5, s6>> \in Seq(S)
         /\ Len(<<s1, s2, s3, s4, s5, s6>>) = 6
  OBVIOUS

(* The console, for messages of any length.  What the mains do at which    *)
(* statement: CM7 logs before it starts CM4, and after it has the message  *)
(* that CM4 sends when it has logged everything.                           *)
Statement ==
  {Console!Do(w) : w \in {"initialise", "startup_data", "nothing"}}
    \cup {Console!Log(h) : h \in {"rawf", "infof", "debugf"}}
    \cup {Console!Give(s) : s \in Console!Signal} \cup {Console!Await(s) : s \in Console!Signal}

LEMMA MainOfCM7 ==
  /\ Len(Console!Main(CM7)) = 15 + Characters
  /\ Console!Main(CM7)[1] = Console!Do("initialise")
  /\ \A k \in 2 .. 6 : \E how \in {"rawf", "infof", "debugf"} :
       Console!Main(CM7)[k] = Console!Log(how)
  /\ Console!Main(CM7)[7] = Console!Give("started")
  /\ Console!Main(CM7)[8] = Console!Await("LINK_READY")
  /\ Console!Main(CM7)[9] = Console!Give("link_up")
  /\ Console!Main(CM7)[10] = Console!Await("ENDPOINT_READY")
  /\ Console!Main(CM7)[11] = Console!Give("ping")
  /\ Console!Main(CM7)[12] = Console!Await("message")
  /\ \A k \in 13 .. (15 + Characters) : \E how \in {"rawf", "infof", "debugf"} :
       Console!Main(CM7)[k] = Console!Log(how)
<1>1. PICK a : a = << Console!Do("initialise") >>
  OBVIOUS
<1>2. PICK b : b = << Console!Log("rawf"), Console!Log("infof"), Console!Log("infof"),
                      Console!Log("debugf"), Console!Log("debugf"), Console!Give("started") >>
  OBVIOUS
<1>3. PICK c : c = << Console!Await("LINK_READY"), Console!Give("link_up"),
                      Console!Await("ENDPOINT_READY"), Console!Give("ping"),
                      Console!Await("message"), Console!Log("infof") >>
  OBVIOUS
<1>4. PICK d : d = [k \in 1 .. Characters |-> Console!Log("rawf")]
  OBVIOUS
<1>5. PICK e : e = << Console!Log("rawf"), Console!Log("infof") >>
  OBVIOUS
<1>6. Console!Main(CM7) = a \o b \o c \o d \o e
  BY <1>1, <1>2, <1>3, <1>4, <1>5 DEF Console!Main, Console!StartUp
<1>7. /\ a \in Seq(Statement) /\ b \in Seq(Statement) /\ c \in Seq(Statement)
      /\ e \in Seq(Statement)
      /\ Len(a) = 1 /\ Len(b) = 6 /\ Len(c) = 6 /\ Len(e) = 2
  <2>1. /\ Console!Do("initialise") \in Statement
        /\ \A how \in {"rawf", "infof", "debugf"} : Console!Log(how) \in Statement
        /\ \A t \in Console!Signal :
             Console!Give(t) \in Statement /\ Console!Await(t) \in Statement
    BY DEF Statement
  <2>2. {"started", "LINK_READY", "link_up", "ENDPOINT_READY", "ping", "message"}
          = Console!Signal
    BY DEF Console!Signal
  <2>3. a \in Seq(Statement) /\ Len(a) = 1
    BY <1>1, <2>1
  <2>4. b \in Seq(Statement) /\ Len(b) = 6
    BY <1>2, <2>1, <2>2, OfSix
  <2>5. c \in Seq(Statement) /\ Len(c) = 6
    BY <1>3, <2>1, <2>2, OfSix
  <2>6. e \in Seq(Statement) /\ Len(e) = 2
    BY <1>5, <2>1
  <2> QED
    BY <2>3, <2>4, <2>5, <2>6
<1>8. Characters \in Nat
  BY ConsoleAssumption DEF Console!MessageAssumption
<1>9. d \in Seq(Statement) /\ Len(d) = Characters
  <2>1. Console!Log("rawf") \in Statement
    BY DEF Statement
  <2>2. d \in [1 .. Characters -> Statement]
    BY <1>4, <2>1
  <2> QED
    BY <1>8, <2>2
<1>10. PICK ab : ab = a \o b
  OBVIOUS
<1>11. PICK abc : abc = ab \o c
  OBVIOUS
<1>12. PICK abcd : abcd = abc \o d
  OBVIOUS
<1>13. PICK m : m = abcd \o e
  OBVIOUS
<1>14. /\ ab \in Seq(Statement) /\ Len(ab) = 7
      /\ \A k \in 1 .. 7 : ab[k] = IF k <= 1 THEN a[k] ELSE b[k - 1]
  <2>1. ab \in Seq(Statement) /\ Len(ab) = Len(a) + Len(b)
    BY <1>7, <1>10, ConcatProperties
  <2>2. \A k \in 1 .. (Len(a) + Len(b)) :
          ab[k] = IF k <= Len(a) THEN a[k] ELSE b[k - Len(a)]
    BY <1>7, <1>10, ConcatProperties
  <2>3. ASSUME NEW k \in 1 .. 7
        PROVE  ab[k] = IF k <= 1 THEN a[k] ELSE b[k - 1]
    <3>1. k \in 1 .. (Len(a) + Len(b))
      BY <1>7
    <3> QED
      BY <1>7, <2>2, <3>1
  <2> QED
    BY <1>7, <2>1, <2>3
<1>15. /\ abc \in Seq(Statement) /\ Len(abc) = 13
      /\ \A k \in 1 .. 13 : abc[k] = IF k <= 7 THEN ab[k] ELSE c[k - 7]
  <2>1. abc \in Seq(Statement) /\ Len(abc) = Len(ab) + Len(c)
    BY <1>7, <1>11, <1>14, ConcatProperties
  <2>2. \A k \in 1 .. (Len(ab) + Len(c)) :
          abc[k] = IF k <= Len(ab) THEN ab[k] ELSE c[k - Len(ab)]
    BY <1>7, <1>11, <1>14, ConcatProperties
  <2>3. ASSUME NEW k \in 1 .. 13
        PROVE  abc[k] = IF k <= 7 THEN ab[k] ELSE c[k - 7]
    <3>1. k \in 1 .. (Len(ab) + Len(c))
      BY <1>7, <1>14
    <3> QED
      BY <1>7, <1>14, <2>2, <3>1
  <2> QED
    BY <1>7, <1>14, <2>1, <2>3
<1>16. /\ abcd \in Seq(Statement) /\ Len(abcd) = 13 + Characters
      /\ \A k \in 1 .. (13 + Characters) : abcd[k] = IF k <= 13 THEN abc[k] ELSE d[k - 13]
  <2>1. abcd \in Seq(Statement) /\ Len(abcd) = Len(abc) + Len(d)
    BY <1>7, <1>8, <1>9, <1>12, <1>15, ConcatProperties
  <2>2. \A k \in 1 .. (Len(abc) + Len(d)) :
          abcd[k] = IF k <= Len(abc) THEN abc[k] ELSE d[k - Len(abc)]
    BY <1>7, <1>8, <1>9, <1>12, <1>15, ConcatProperties
  <2>3. ASSUME NEW k \in 1 .. (13 + Characters)
        PROVE  abcd[k] = IF k <= 13 THEN abc[k] ELSE d[k - 13]
    <3>1. k \in 1 .. (Len(abc) + Len(d))
      BY <1>7, <1>8, <1>9, <1>15
    <3> QED
      BY <1>7, <1>8, <1>9, <1>15, <2>2, <3>1
  <2> QED
    BY <1>7, <1>8, <1>9, <1>15, <2>1, <2>3
<1>17. /\ m \in Seq(Statement) /\ Len(m) = 15 + Characters
      /\ \A k \in 1 .. (15 + Characters) :
           m[k] = IF k <= 13 + Characters THEN abcd[k] ELSE e[k - (13 + Characters)]
  <2>1. m \in Seq(Statement) /\ Len(m) = Len(abcd) + Len(e)
    BY <1>7, <1>8, <1>9, <1>13, <1>16, ConcatProperties
  <2>2. \A k \in 1 .. (Len(abcd) + Len(e)) :
          m[k] = IF k <= Len(abcd) THEN abcd[k] ELSE e[k - Len(abcd)]
    BY <1>7, <1>8, <1>9, <1>13, <1>16, ConcatProperties
  <2>3. ASSUME NEW k \in 1 .. (15 + Characters)
        PROVE  m[k] = IF k <= 13 + Characters THEN abcd[k] ELSE e[k - (13 + Characters)]
    <3>1. k \in 1 .. (Len(abcd) + Len(e))
      BY <1>7, <1>8, <1>9, <1>16
    <3> QED
      BY <1>7, <1>8, <1>9, <1>16, <2>2, <3>1
  <2> QED
    BY <1>7, <1>8, <1>9, <1>16, <2>1, <2>3
<1>18. m = Console!Main(CM7)
  BY <1>6, <1>10, <1>11, <1>12, <1>13
<1>19. ASSUME NEW k \in 1 .. (15 + Characters)
       PROVE  m[k] = IF k <= 13 + Characters
                       THEN IF k <= 13
                              THEN IF k <= 7 THEN IF k <= 1 THEN a[k] ELSE b[k - 1]
                                             ELSE c[k - 7]
                              ELSE d[k - 13]
                       ELSE e[k - (13 + Characters)]
  <2>1. m[k] = IF k <= 13 + Characters THEN abcd[k] ELSE e[k - (13 + Characters)]
    BY <1>8, <1>17
  <2>2. k <= 13 + Characters => abcd[k] = IF k <= 13 THEN abc[k] ELSE d[k - 13]
    BY <1>8, <1>16
  <2>3. k <= 13 => abc[k] = IF k <= 7 THEN ab[k] ELSE c[k - 7]
    <3>1. k <= 13 => k \in 1 .. 13
      BY <1>8
    <3> QED
      BY <1>8, <1>15, <3>1
  <2>4. k <= 7 => ab[k] = IF k <= 1 THEN a[k] ELSE b[k - 1]
    BY <1>8, <1>14
  <2> QED
    BY <1>8, <2>1, <2>2, <2>3, <2>4
<1>20. /\ m[1] = a[1] /\ m[2] = b[1] /\ m[3] = b[2] /\ m[4] = b[3] /\ m[5] = b[4]
       /\ m[6] = b[5] /\ m[7] = b[6]
  BY <1>8, <1>19
<1>21. /\ m[8] = c[1] /\ m[9] = c[2] /\ m[10] = c[3] /\ m[11] = c[4] /\ m[12] = c[5]
       /\ m[13] = c[6]
  BY <1>8, <1>19
<1>22. ASSUME NEW k \in 13 .. (15 + Characters)
       PROVE  m[k] = Console!Log("rawf") \/ m[k] = Console!Log("infof")
  <2>1. CASE k = 13
    BY <1>3, <1>21, <2>1
  <2>2. CASE k > 13 /\ k <= 13 + Characters
    <3>1. m[k] = d[k - 13] /\ k - 13 \in 1 .. Characters
      BY <1>8, <1>19, <2>2
    <3> QED
      BY <1>4, <3>1
  <2>3. CASE k > 13 + Characters
    <3>1. m[k] = e[k - (13 + Characters)] /\ k - (13 + Characters) \in {1, 2}
      BY <1>8, <1>19, <2>3
    <3> QED
      BY <1>5, <3>1
  <2> QED
    BY <1>8, <2>1, <2>2, <2>3
<1>23. ASSUME NEW k \in 2 .. 6
       PROVE  \E how \in {"rawf", "infof", "debugf"} : m[k] = Console!Log(how)
  <2>1. k = 2 \/ k = 3 \/ k = 4 \/ k = 5 \/ k = 6
    OBVIOUS
  <2> QED
    BY <1>2, <1>20, <2>1
<1> QED
  BY <1>1, <1>2, <1>3, <1>8, <1>17, <1>18, <1>20, <1>21, <1>22, <1>23

LEMMA OfTen ==
  ASSUME NEW S, NEW s1 \in S, NEW s2 \in S, NEW s3 \in S, NEW s4 \in S, NEW s5 \in S,
         NEW s6 \in S, NEW s7 \in S, NEW s8 \in S, NEW s9 \in S, NEW s10 \in S
  PROVE  /\ <<s1, s2, s3, s4, s5, s6, s7, s8, s9, s10>> \in Seq(S)
         /\ Len(<<s1, s2, s3, s4, s5, s6, s7, s8, s9, s10>>) = 10
  OBVIOUS

LEMMA MainOfCM4 ==
  /\ Len(Console!Main(CM4)) = 12
  /\ Console!Main(CM4)[1] = Console!Await("started")
  /\ Console!Main(CM4)[2] = Console!Do("initialise")
  /\ Console!Main(CM4)[3] = Console!Do("startup_data")
  /\ Console!Main(CM4)[4] = Console!Log("debugf")
  /\ Console!Main(CM4)[5] = Console!Give("LINK_READY")
  /\ Console!Main(CM4)[6] = Console!Await("link_up")
  /\ Console!Main(CM4)[7] = Console!Give("ENDPOINT_READY")
  /\ Console!Main(CM4)[8] = Console!Log("infof")
  /\ Console!Main(CM4)[9] = Console!Log("debugf")
  /\ Console!Main(CM4)[10] = Console!Await("ping")
  /\ Console!Main(CM4)[11] = Console!Log("infof")
  /\ Console!Main(CM4)[12] = Console!Give("message")
<1>1. PICK a : a = << Console!Await("started"), Console!Do("initialise"),
                      Console!Do("startup_data"), Console!Log("debugf"),
                      Console!Give("LINK_READY"), Console!Await("link_up"),
                      Console!Give("ENDPOINT_READY"), Console!Log("infof"),
                      Console!Log("debugf"), Console!Await("ping") >>
  OBVIOUS
<1>2. PICK b : b = << Console!Log("infof"), Console!Give("message") >>
  OBVIOUS
<1>3. PICK m : m = a \o b
  OBVIOUS
<1>4. /\ \A w \in {"initialise", "startup_data"} : Console!Do(w) \in Statement
      /\ \A how \in {"infof", "debugf"} : Console!Log(how) \in Statement
      /\ \A t \in {"LINK_READY", "ENDPOINT_READY", "message"} : Console!Give(t) \in Statement
      /\ \A t \in {"started", "link_up", "ping"} : Console!Await(t) \in Statement
  BY DEF Statement, Console!Signal
<1>5. a \in Seq(Statement) /\ Len(a) = 10
  BY <1>1, <1>4, OfTen
<1>6. b \in Seq(Statement) /\ Len(b) = 2
  <2>1. Console!Log("infof") \in Statement /\ Console!Give("message") \in Statement
    BY <1>4
  <2> QED
    BY <1>2, <2>1
<1>7. m \in Seq(Statement) /\ Len(m) = Len(a) + Len(b)
  BY <1>3, <1>5, <1>6, ConcatProperties
<1>8. \A k \in 1 .. (Len(a) + Len(b)) : m[k] = IF k <= Len(a) THEN a[k] ELSE b[k - Len(a)]
  BY <1>3, <1>5, <1>6, ConcatProperties
<1>9. ASSUME NEW k \in 1 .. 12 PROVE m[k] = IF k <= 10 THEN a[k] ELSE b[k - 10]
  <2>1. k \in 1 .. (Len(a) + Len(b))
    BY <1>5, <1>6
  <2> QED
    BY <1>5, <1>8, <2>1
<1>10. /\ m[1] = a[1] /\ m[2] = a[2] /\ m[3] = a[3] /\ m[4] = a[4] /\ m[5] = a[5]
       /\ m[6] = a[6] /\ m[7] = a[7] /\ m[8] = a[8] /\ m[9] = a[9] /\ m[10] = a[10]
  BY <1>9
<1>11. m[11] = b[1] /\ m[12] = b[2]
  BY <1>9
<1>12. m = Console!Main(CM4)
  BY <1>1, <1>2, <1>3, ConsoleAssumption
  DEF Console!Main, Console!Answer, Console!CoreAssumption
<1>13. Len(m) = 12
  BY <1>5, <1>6, <1>7
<1> QED
  BY <1>1, <1>2, <1>10, <1>11, <1>12, <1>13

(* What a statement is decides which step of its core is the next one. *)
LEMMA Statements ==
  ASSUME NEW w
  PROVE  /\ Console!Do(w)[1] = "do" /\ Console!Do(w)[2] = w
         /\ Console!Log(w)[1] = "log" /\ Console!Log(w)[2] = w
         /\ Console!Give(w)[1] = "give" /\ Console!Give(w)[2] = w
         /\ Console!Await(w)[1] = "wait" /\ Console!Await(w)[2] = w
BY DEF Console!Do, Console!Log, Console!Give, Console!Await

(* What keeps the lines apart: CM4 logs only once CM7 has started it, and  *)
(* then CM7 logs nothing until it has the message that CM4 sends last.     *)
ConsoleInv ==
  /\ Console!TypeOK
  /\ \A core \in Console!Core : Console!InLine(core) => Console!Shown(core)
  /\ "started" \in signals => main_pc[CM7] >= 8
  /\ main_pc[CM4] >= 2 => "started" \in signals
  /\ "message" \in signals => main_pc[CM4] >= 13
  /\ main_pc[CM7] >= 13 => "message" \in signals

LEMMA WhereCM4Is ==
  ASSUME main_pc[CM4] \in Nat \ {0}
  PROVE  /\ main_pc[CM4] = 1 => Console!At(CM4) = Console!Await("started")
         /\ Console!At(CM4) = Console!Do("initialise") => main_pc[CM4] = 2
         /\ Console!At(CM4) = Console!Do("startup_data") => main_pc[CM4] = 3
         /\ Console!At(CM4)[1] = "log" => main_pc[CM4] \in {4, 8, 9, 11}
         /\ Console!At(CM4) = Console!Give("message") => main_pc[CM4] = 12
         /\ Console!At(CM4) # Console!Give("started")
         /\ Console!At(CM4) # Console!Do("nothing") => main_pc[CM4] <= Len(Console!Main(CM4))
<1>1. PICK k \in Nat \ {0} : k = main_pc[CM4]
  OBVIOUS
<1>2. PICK main : main = Console!Main(CM4)
  OBVIOUS
<1>3. PICK at : at = Console!At(CM4)
  OBVIOUS
<1>4. Len(main) = 12
  BY <1>2, MainOfCM4
<1>5. at = IF k <= 12 THEN main[k] ELSE Console!Do("nothing")
  BY <1>1, <1>2, <1>3, <1>4 DEF Console!At
<1>6. /\ main[1] = Console!Await("started") /\ main[2] = Console!Do("initialise")
      /\ main[3] = Console!Do("startup_data") /\ main[4] = Console!Log("debugf")
      /\ main[5] = Console!Give("LINK_READY") /\ main[6] = Console!Await("link_up")
      /\ main[7] = Console!Give("ENDPOINT_READY") /\ main[8] = Console!Log("infof")
      /\ main[9] = Console!Log("debugf") /\ main[10] = Console!Await("ping")
      /\ main[11] = Console!Log("infof") /\ main[12] = Console!Give("message")
  BY <1>2, MainOfCM4
<1>7. /\ k \in {2, 3} \/ k > 12 => at[1] = "do"
      /\ k \in {4, 8, 9, 11} => at[1] = "log"
      /\ k \in {5, 7, 12} => at[1] = "give"
      /\ k \in {1, 6, 10} => at[1] = "wait"
  BY <1>1, <1>5, <1>6, Statements
<1>8. /\ k = 2 => at[2] = "initialise"
      /\ k = 3 => at[2] = "startup_data"
      /\ k = 5 => at[2] = "LINK_READY"
      /\ k = 7 => at[2] = "ENDPOINT_READY"
      /\ k > 12 => at[2] = "nothing"
  BY <1>1, <1>5, <1>6, Statements
<1>9. \/ k \in {2, 3} \/ k > 12 \/ k \in {4, 8, 9, 11} \/ k \in {5, 7, 12} \/ k \in {1, 6, 10}
  BY <1>1
<1>10. at = Console!Do("initialise") => k = 2
  BY <1>1, <1>7, <1>8, <1>9, Statements
<1>11. at = Console!Do("startup_data") => k = 3
  BY <1>1, <1>7, <1>8, <1>9, Statements
<1>12. at[1] = "log" => k \in {4, 8, 9, 11}
  BY <1>1, <1>7, <1>9
<1>13. at = Console!Give("message") => k = 12
  BY <1>1, <1>7, <1>8, <1>9, Statements
<1>14. at # Console!Give("started")
  <2>1. k = 12 => at[2] = "message"
    BY <1>1, <1>5, <1>6, Statements
  <2> QED
    BY <1>1, <1>7, <1>8, <1>9, <2>1, Statements
<1>15. at # Console!Do("nothing") => k <= Len(main)
  BY <1>1, <1>4, <1>5
<1>16. k = 1 => at = Console!Await("started")
  BY <1>1, <1>5, <1>6
<1> QED
  BY <1>1, <1>2, <1>3, <1>10, <1>11, <1>12, <1>13, <1>14, <1>15, <1>16

LEMMA WhereCM7Is ==
  ASSUME main_pc[CM7] \in Nat \ {0}
  PROVE  /\ Console!At(CM7) = Console!Do("initialise") => main_pc[CM7] = 1
         /\ Console!At(CM7)[1] = "log" => main_pc[CM7] \in 2 .. 6 \/ main_pc[CM7] >= 13
         /\ Console!At(CM7) = Console!Give("started") => main_pc[CM7] = 7
         /\ main_pc[CM7] = 7 => Console!At(CM7) = Console!Give("started")
         /\ main_pc[CM7] = 12 => Console!At(CM7) = Console!Await("message")
         /\ Console!At(CM7) # Console!Give("message")
         /\ Console!At(CM7) # Console!Do("startup_data")
         /\ Console!At(CM7) # Console!Do("nothing") => main_pc[CM7] <= Len(Console!Main(CM7))
<1>1. PICK k \in Nat \ {0} : k = main_pc[CM7]
  OBVIOUS
<1>2. PICK main : main = Console!Main(CM7)
  OBVIOUS
<1>3. PICK at : at = Console!At(CM7)
  OBVIOUS
<1>4. PICK last \in Nat : last = 15 + Characters /\ last >= 15
  BY ConsoleAssumption DEF Console!MessageAssumption
<1>5. Len(main) = last
  BY <1>2, <1>4, MainOfCM7
<1>6. at = IF k <= last THEN main[k] ELSE Console!Do("nothing")
  BY <1>1, <1>2, <1>3, <1>5 DEF Console!At
<1>7. /\ main[1] = Console!Do("initialise") /\ main[7] = Console!Give("started")
      /\ main[8] = Console!Await("LINK_READY") /\ main[9] = Console!Give("link_up")
      /\ main[10] = Console!Await("ENDPOINT_READY") /\ main[11] = Console!Give("ping")
      /\ main[12] = Console!Await("message")
  BY <1>2, MainOfCM7
<1>8. k \in 2 .. 6 \/ k \in 13 .. last => at[1] = "log"
  <2>1. CASE k \in 2 .. 6
    <3>1. PICK how \in {"rawf", "infof", "debugf"} : main[k] = Console!Log(how)
      BY <1>2, <2>1, MainOfCM7
    <3> QED
      BY <1>4, <1>6, <2>1, <3>1, Statements
  <2>2. CASE k \in 13 .. last
    <3>1. PICK how \in {"rawf", "infof", "debugf"} : main[k] = Console!Log(how)
      BY <1>2, <1>4, <2>2, MainOfCM7
    <3> QED
      BY <1>6, <2>2, <3>1, Statements
  <2> QED
    BY <2>1, <2>2
<1>9. /\ k = 1 \/ k > last => at[1] = "do"
      /\ k \in {7, 9, 11} => at[1] = "give"
      /\ k \in {8, 10, 12} => at[1] = "wait"
  BY <1>1, <1>4, <1>6, <1>7, Statements
<1>10. /\ k = 1 => at[2] = "initialise"
       /\ k = 7 => at[2] = "started"
       /\ k = 9 => at[2] = "link_up"
       /\ k = 11 => at[2] = "ping"
       /\ k > last => at[2] = "nothing"
  BY <1>1, <1>4, <1>6, <1>7, Statements
<1>11. \/ k = 1 \/ k > last \/ k \in 2 .. 6 \/ k \in 13 .. last
       \/ k \in {7, 9, 11} \/ k \in {8, 10, 12}
  BY <1>1, <1>4
<1>12. at = Console!Do("initialise") => k = 1
  BY <1>8, <1>9, <1>10, <1>11, Statements
<1>13. at[1] = "log" => k \in 2 .. 6 \/ k >= 13
  BY <1>1, <1>4, <1>9, <1>11
<1>14. at = Console!Give("started") => k = 7
  BY <1>8, <1>9, <1>10, <1>11, Statements
<1>15. /\ k = 7 => at = Console!Give("started")
       /\ k = 12 => at = Console!Await("message")
  BY <1>1, <1>4, <1>6, <1>7
<1>16. at # Console!Give("message")
  BY <1>8, <1>9, <1>10, <1>11, Statements
<1>17. at # Console!Do("startup_data")
  BY <1>8, <1>9, <1>10, <1>11, Statements
<1>18. at # Console!Do("nothing") => k <= Len(main)
  BY <1>1, <1>4, <1>5, <1>6
<1> QED
  BY <1>1, <1>2, <1>3, <1>12, <1>13, <1>14, <1>15, <1>16, <1>17, <1>18

(* The lines of the cores, and a line and a reset of the UART, apart. *)
LEMMA ApartOnConsole == ConsoleInv => LinesAreWhole
<1> SUFFICES ASSUME ConsoleInv PROVE Console!LinesAreWhole /\ Console!NoResetInLine
  BY DEF LinesAreWhole
<1>1. /\ main_pc[CM7] \in Nat \ {0} /\ main_pc[CM4] \in Nat \ {0}
  BY DEF ConsoleInv, Console!TypeOK, Console!Core
<1>2. /\ Console!InLine(CM7) => main_pc[CM7] \in 2 .. 6 \/ main_pc[CM7] >= 13
      /\ Console!InLine(CM4) => main_pc[CM4] \in {4, 8, 9, 11}
  BY <1>1, WhereCM7Is, WhereCM4Is DEF ConsoleInv, Console!Core, Console!Shown
<1>3. /\ Console!At(CM7) = Console!Do("initialise") => main_pc[CM7] = 1
      /\ Console!At(CM4) = Console!Do("initialise") => main_pc[CM4] = 2
  BY <1>1, WhereCM7Is, WhereCM4Is
<1>4. Console!LinesAreWhole
  BY <1>1, <1>2 DEF ConsoleInv, Console!LinesAreWhole
<1>5. Console!NoResetInLine
  BY <1>1, <1>2, <1>3 DEF ConsoleInv, Console!NoResetInLine, Console!Core
<1> QED
  BY <1>4, <1>5

LEMMA InitConsole == Console!Init => ConsoleInv
<1> SUFFICES ASSUME Console!Init PROVE ConsoleInv
  OBVIOUS
<1>1. /\ main_pc = [c \in Console!Core |-> 1] /\ part = [c \in Console!Core |-> 0]
      /\ signals = {}
  BY DEF Console!Init
<1>2. Characters \in Nat
  BY ConsoleAssumption DEF Console!MessageAssumption
<1>3. \A core \in Console!Core : Len(Console!Main(core)) \in Nat
  BY <1>2, MainOfCM7, MainOfCM4 DEF Console!Core
<1>4. \A core \in Console!Core : ~Console!InLine(core)
  BY <1>1 DEF Console!InLine
<1>5. Console!TypeOK
  BY <1>1, <1>3, <1>4 DEF Console!TypeOK, Console!Core, Console!Writes
<1> QED
  BY <1>1, <1>4, <1>5 DEF ConsoleInv, Console!Core

(* A core that goes on to another statement, between two lines, leaves the *)
(* other core alone.                                                       *)
LEMMA OtherStays ==
  ASSUME ConsoleInv, NEW core \in Console!Core,
         main_pc'[core] = main_pc[core], part'[core] = part[core]
  PROVE  /\ Console!At(core)' = Console!At(core)
         /\ part'[core] <= Console!Writes(core)'
         /\ Console!InLine(core)' => Console!Shown(core)'
<1>1. Console!At(core)' = Console!At(core)
  BY DEF Console!At
<1> QED
  BY <1>1 DEF ConsoleInv, Console!TypeOK, Console!Writes, Console!InLine, Console!Shown

LEMMA CM7Moves ==
  ASSUME ConsoleInv, Console!At(CM7) # Console!Do("nothing"),
         main_pc' = [main_pc EXCEPT ![CM7] = @ + 1],
         part' \in [Console!Core -> Nat], part'[CM7] = 0, part'[CM4] = part[CM4],
         signals' \subseteq Console!Signal, signals \subseteq signals',
         "started" \in signals'
         => "started" \in signals \/ Console!At(CM7) = Console!Give("started"),
         "message" \in signals' => "message" \in signals,
         Console!At(CM7) = Console!Await("message") => "message" \in signals
  PROVE  ConsoleInv'
<1>1. CM7 # CM4 /\ Console!Core = {CM7, CM4}
  BY ConsoleAssumption DEF Console!CoreAssumption, Console!Core
<1>2. /\ main_pc \in [Console!Core -> Nat \ {0}]
      /\ \A core \in Console!Core : main_pc[core] <= Len(Console!Main(core)) + 1
  BY DEF ConsoleInv, Console!TypeOK
<1>3. /\ main_pc' \in [Console!Core -> Nat \ {0}]
      /\ main_pc'[CM7] = main_pc[CM7] + 1 /\ main_pc'[CM4] = main_pc[CM4]
      /\ main_pc[CM7] \in Nat \ {0} /\ main_pc[CM4] \in Nat \ {0}
  BY <1>1, <1>2
<1>4. main_pc[CM7] <= Len(Console!Main(CM7)) /\ Len(Console!Main(CM7)) \in Nat
  <2>1. 15 + Characters \in Nat
    BY ConsoleAssumption DEF Console!MessageAssumption
  <2> QED
    BY <1>3, <2>1, WhereCM7Is, MainOfCM7
<1>5. ~Console!InLine(CM7)'
  BY DEF Console!InLine
<1>6. part'[CM4] <= Console!Writes(CM4)' /\ (Console!InLine(CM4)' => Console!Shown(CM4)')
  BY <1>1, <1>3, OtherStays
<1>7. part'[CM7] <= Console!Writes(CM7)'
  BY DEF Console!Writes
<1>8. Console!TypeOK'
  BY <1>1, <1>2, <1>3, <1>4, <1>5, <1>6, <1>7 DEF Console!TypeOK
<1>9. \A core \in Console!Core : Console!InLine(core)' => Console!Shown(core)'
  BY <1>1, <1>5, <1>6
<1>10. "started" \in signals' => main_pc'[CM7] >= 8
  BY <1>3, WhereCM7Is DEF ConsoleInv
<1>11. main_pc'[CM7] >= 13 => "message" \in signals'
  <2>1. main_pc[CM7] >= 13 \/ main_pc[CM7] = 12 \/ main_pc'[CM7] < 13
    BY <1>3
  <2> QED
    BY <1>3, <2>1, WhereCM7Is DEF ConsoleInv
<1>12. /\ main_pc'[CM4] >= 2 => "started" \in signals'
       /\ "message" \in signals' => main_pc'[CM4] >= 13
  BY <1>3 DEF ConsoleInv
<1> QED
  BY <1>8, <1>9, <1>10, <1>11, <1>12 DEF ConsoleInv

LEMMA CM4Moves ==
  ASSUME ConsoleInv, NEW next \in Nat, next > main_pc[CM4], next <= Len(Console!Main(CM4)) + 1,
         main_pc' = [main_pc EXCEPT ![CM4] = next],
         part' \in [Console!Core -> Nat], part'[CM4] = 0, part'[CM7] = part[CM7],
         signals' \subseteq Console!Signal, signals \subseteq signals',
         "started" \in signals' => "started" \in signals,
         "message" \in signals'
         => "message" \in signals \/ Console!At(CM4) = Console!Give("message"),
         Console!At(CM4) = Console!Await("started") => "started" \in signals
  PROVE  ConsoleInv'
<1>1. CM7 # CM4 /\ Console!Core = {CM7, CM4}
  BY ConsoleAssumption DEF Console!CoreAssumption, Console!Core
<1>2. /\ main_pc \in [Console!Core -> Nat \ {0}]
      /\ \A core \in Console!Core : main_pc[core] <= Len(Console!Main(core)) + 1
  BY DEF ConsoleInv, Console!TypeOK
<1>3. /\ main_pc'[CM4] = next /\ main_pc'[CM7] = main_pc[CM7]
      /\ main_pc[CM7] \in Nat \ {0} /\ main_pc[CM4] \in Nat \ {0}
  BY <1>1, <1>2
<1>4. main_pc' \in [Console!Core -> Nat \ {0}]
  BY <1>1, <1>2, <1>3
<1>5. ~Console!InLine(CM4)'
  BY DEF Console!InLine
<1>6. part'[CM7] <= Console!Writes(CM7)' /\ (Console!InLine(CM7)' => Console!Shown(CM7)')
  BY <1>1, <1>3, OtherStays
<1>7. part'[CM4] <= Console!Writes(CM4)'
  BY DEF Console!Writes
<1>8. Console!InLine(CM7)' => Console!At(CM7)' # Console!Log("debugf")
  BY <1>1, <1>6 DEF Console!Shown
<1>9. Console!TypeOK'
  BY <1>1, <1>2, <1>3, <1>4, <1>6, <1>7, <1>8 DEF Console!TypeOK
<1>10. \A core \in Console!Core : Console!InLine(core)' => Console!Shown(core)'
  BY <1>1, <1>5, <1>6
<1>11. /\ "started" \in signals' => main_pc'[CM7] >= 8
       /\ main_pc'[CM7] >= 13 => "message" \in signals'
  BY <1>3 DEF ConsoleInv
<1>12. main_pc'[CM4] >= 2 => "started" \in signals'
  <2>1. main_pc[CM4] >= 2 \/ main_pc[CM4] = 1
    BY <1>3
  <2> QED
    BY <1>3, <2>1, WhereCM4Is DEF ConsoleInv
<1>13. "message" \in signals' => main_pc'[CM4] >= 13
  BY <1>3, WhereCM4Is DEF ConsoleInv
<1> QED
  BY <1>9, <1>10, <1>11, <1>12, <1>13 DEF ConsoleInv

LEMMA CoreMoves ==
  ASSUME ConsoleInv, NEW core \in Console!Core, Console!Step(core),
         Console!At(core) # Console!Do("nothing"),
         part' = [part EXCEPT ![core] = 0],
         signals' \subseteq Console!Signal, signals \subseteq signals',
         \A s \in signals' \ signals : Console!At(core) = Console!Give(s),
         \A s \in {"started", "message"} : Console!At(core) = Console!Await(s) => s \in signals
  PROVE  ConsoleInv'
<1>1. CM7 # CM4 /\ Console!Core = {CM7, CM4}
  BY ConsoleAssumption DEF Console!CoreAssumption, Console!Core
<1>2. /\ main_pc \in [Console!Core -> Nat \ {0}] /\ part \in [Console!Core -> Nat]
      /\ main_pc' = [main_pc EXCEPT ![core] = @ + 1]
  BY DEF ConsoleInv, Console!TypeOK, Console!Step
<1>3. part' \in [Console!Core -> Nat]
  BY <1>2
<1>4. main_pc[CM7] \in Nat \ {0} /\ main_pc[CM4] \in Nat \ {0}
  BY <1>1, <1>2
<1>5. CASE core = CM7
  <2>1. part'[CM7] = 0 /\ part'[CM4] = part[CM4]
    BY <1>1, <1>2, <1>5
  <2>2. /\ "started" \in signals' =>
             "started" \in signals \/ Console!At(CM7) = Console!Give("started")
        /\ "message" \in signals' => "message" \in signals
    BY <1>4, <1>5, WhereCM7Is
  <2> QED
    BY <1>2, <1>3, <1>5, <2>1, <2>2, CM7Moves
<1>6. CASE core = CM4
  <2>1. part'[CM4] = 0 /\ part'[CM7] = part[CM7]
    BY <1>1, <1>2, <1>6
  <2>2. /\ "started" \in signals' => "started" \in signals
        /\ "message" \in signals' =>
             "message" \in signals \/ Console!At(CM4) = Console!Give("message")
    BY <1>4, <1>6, WhereCM4Is
  <2>3. PICK next \in Nat : next = main_pc[CM4] + 1
    BY <1>4
  <2>4. next > main_pc[CM4] /\ next <= Len(Console!Main(CM4)) + 1
    BY <1>4, <1>6, <2>3, WhereCM4Is, MainOfCM4
  <2>5. main_pc' = [main_pc EXCEPT ![CM4] = next]
    BY <1>2, <1>6, <2>3
  <2> QED
    BY <1>3, <1>6, <2>1, <2>2, <2>4, <2>5, CM4Moves
<1> QED
  BY <1>1, <1>5, <1>6

LEMMA StepConsole == ConsoleInv /\ [Console!Next]_(Console!vars) => ConsoleInv'
<1> SUFFICES ASSUME ConsoleInv, [Console!Next]_(Console!vars) PROVE ConsoleInv'
  OBVIOUS
<1>1. /\ signals \subseteq Console!Signal /\ part \in [Console!Core -> Nat]
      /\ main_pc \in [Console!Core -> Nat \ {0}] /\ CM4 \in Console!Core
  BY DEF ConsoleInv, Console!TypeOK, Console!Core
<1>2. ASSUME NEW core \in Console!Core, Console!At(core)[1] # "log" \/ ~Console!Shown(core)
      PROVE  part = [part EXCEPT ![core] = 0]
  <2>1. part[core] = 0
    BY <1>2 DEF ConsoleInv, Console!InLine, Console!Shown
  <2> QED
    BY <1>1, <2>1
<1>3. ASSUME NEW core \in Console!Core, Console!Initialise(core) PROVE ConsoleInv'
  <2>1. Console!At(core)[1] = "do" /\ Console!At(core)[2] = "initialise"
    BY <1>3, Statements DEF Console!Initialise
  <2>2. /\ Console!At(core) # Console!Do("nothing")
        /\ \A s \in {"started", "message"} : Console!At(core) # Console!Await(s)
    BY <2>1, Statements
  <2>3. part' = [part EXCEPT ![core] = 0] /\ signals' = signals
    BY <1>2, <1>3, <2>1 DEF Console!Initialise
  <2> QED
    BY <1>1, <1>3, <2>2, <2>3, CoreMoves DEF Console!Initialise
<1>4. ASSUME NEW core \in Console!Core, Console!Suppressed(core) PROVE ConsoleInv'
  <2>1. Console!At(core)[1] = "log" /\ Console!At(core)[2] = "debugf"
    BY <1>4, Statements DEF Console!Suppressed
  <2>2. /\ Console!At(core) # Console!Do("nothing")
        /\ \A s \in {"started", "message"} : Console!At(core) # Console!Await(s)
    BY <2>1, Statements
  <2>3. part' = [part EXCEPT ![core] = 0] /\ signals' = signals
    BY <1>2, <1>4 DEF Console!Suppressed
  <2> QED
    BY <1>1, <1>4, <2>2, <2>3, CoreMoves DEF Console!Suppressed
<1>5. ASSUME NEW core \in Console!Core, Console!LineWritten(core) PROVE ConsoleInv'
  <2>1. Console!At(core)[1] = "log"
    BY <1>5 DEF Console!LineWritten, Console!Shown
  <2>2. /\ Console!At(core) # Console!Do("nothing")
        /\ \A s \in {"started", "message"} : Console!At(core) # Console!Await(s)
    BY <2>1, Statements
  <2> QED
    BY <1>1, <1>5, <2>2, CoreMoves DEF Console!LineWritten
<1>6. ASSUME NEW core \in Console!Core, Console!Given(core) PROVE ConsoleInv'
  <2>1. PICK s \in Console!Signal :
          /\ Console!At(core) = Console!Give(s) /\ signals' = signals \cup {s}
          /\ Console!Step(core) /\ part' = part
    BY <1>6 DEF Console!Given
  <2>2. Console!At(core)[1] = "give"
    BY <2>1, Statements
  <2>3. /\ Console!At(core) # Console!Do("nothing")
        /\ \A t \in {"started", "message"} : Console!At(core) # Console!Await(t)
    BY <2>2, Statements
  <2>4. part' = [part EXCEPT ![core] = 0]
    BY <1>2, <2>1, <2>2
  <2> QED
    BY <1>1, <2>1, <2>3, <2>4, CoreMoves
<1>7. ASSUME NEW core \in Console!Core, Console!Awaited(core) PROVE ConsoleInv'
  <2>1. PICK s \in Console!Signal :
          /\ Console!At(core) = Console!Await(s) /\ s \in signals
          /\ Console!Step(core) /\ part' = part /\ signals' = signals
    BY <1>7 DEF Console!Awaited
  <2>2. Console!At(core)[1] = "wait" /\ Console!At(core)[2] = s
    BY <2>1, Statements
  <2>3. /\ Console!At(core) # Console!Do("nothing")
        /\ \A t \in {"started", "message"} : Console!At(core) = Console!Await(t) => t \in signals
    BY <2>1, <2>2, Statements
  <2>4. part' = [part EXCEPT ![core] = 0]
    BY <1>2, <2>1, <2>2
  <2> QED
    BY <1>1, <2>1, <2>3, <2>4, CoreMoves
<1>8. ASSUME NEW core \in Console!Core, Console!Write(core) PROVE ConsoleInv'
  <2>1. /\ Console!Shown(core) /\ part[core] < Console!Writes(core)
        /\ part' = [part EXCEPT ![core] = @ + 1] /\ main_pc' = main_pc /\ signals' = signals
    BY <1>8 DEF Console!Write
  <2>2. \A c \in Console!Core : Console!At(c)' = Console!At(c)
    BY <2>1 DEF Console!At
  <2>3. \A c \in Console!Core : /\ Console!Writes(c)' = Console!Writes(c)
                                /\ Console!Shown(c)' <=> Console!Shown(c)
    BY <2>2 DEF Console!Writes, Console!Shown
  <2>4. part' \in [Console!Core -> Nat] /\ \A c \in Console!Core : c # core => part'[c] = part[c]
    BY <1>1, <2>1
  <2>5. part[core] \in Nat /\ part'[core] = part[core] + 1 /\ Console!Writes(core) \in Nat
    BY <1>1, <2>1 DEF Console!Writes
  <2>6. \A c \in Console!Core : part'[c] <= Console!Writes(c)'
    BY <2>1, <2>3, <2>4, <2>5 DEF ConsoleInv, Console!TypeOK
  <2>7. \A c \in Console!Core : Console!InLine(c)' => Console!Shown(c)'
    BY <2>1, <2>3, <2>4 DEF ConsoleInv, Console!InLine
  <2>8. Console!InLine(CM7)' => Console!At(CM7)' # Console!Log("debugf")
    BY <2>7, ConsoleAssumption DEF Console!Shown, Console!Core, Console!CoreAssumption
  <2>9. Console!TypeOK'
    BY <2>1, <2>4, <2>6, <2>8 DEF ConsoleInv, Console!TypeOK
  <2> QED
    BY <2>1, <2>7, <2>9 DEF ConsoleInv
<1>9. CASE Console!StartupData
  <2>1. Console!At(CM4)[1] = "do" /\ Console!At(CM4)[2] = "startup_data"
    BY <1>9, Statements DEF Console!StartupData
  <2>2. /\ Console!At(CM4) # Console!Do("nothing")
        /\ \A s \in {"started", "message"} : Console!At(CM4) # Console!Await(s)
    BY <2>1, Statements
  <2>3. part' = [part EXCEPT ![CM4] = 0] /\ signals' = signals
    BY <1>1, <1>2, <1>9, <2>1 DEF Console!StartupData
  <2> QED
    BY <1>1, <1>9, <2>2, <2>3, CoreMoves DEF Console!StartupData
<1>10. CASE Console!TimedOut
  <2>1. Console!At(CM4)[1] = "do" /\ Console!At(CM4)[2] = "startup_data"
    BY <1>10, Statements DEF Console!TimedOut
  <2>2. Console!At(CM4) # Console!Await("started")
    BY <2>1, Statements
  <2>3. PICK next \in Nat : next = 8
    OBVIOUS
  <2>4. main_pc' = [main_pc EXCEPT ![CM4] = next]
    BY <1>10, <2>3 DEF Console!TimedOut, Console!AfterInitialise
  <2>5. part' = [part EXCEPT ![CM4] = 0] /\ part' = part /\ signals' = signals
    BY <1>1, <1>2, <1>10, <2>1 DEF Console!TimedOut
  <2>6. main_pc[CM4] = 3
    BY <1>1, <1>10, WhereCM4Is DEF Console!TimedOut
  <2>7. part'[CM4] = 0 /\ part'[CM7] = part[CM7]
    BY <1>1, <2>5
  <2>8. next > main_pc[CM4] /\ next <= Len(Console!Main(CM4)) + 1
    BY <2>3, <2>6, MainOfCM4
  <2> QED
    BY <1>1, <2>2, <2>3, <2>4, <2>5, <2>7, <2>8, CM4Moves
<1>11. CASE UNCHANGED Console!vars
  <2>1. main_pc' = main_pc /\ part' = part /\ signals' = signals
    BY <1>11 DEF Console!vars
  <2>2. \A c \in Console!Core : Console!At(c)' = Console!At(c)
    BY <2>1 DEF Console!At
  <2>3. \A c \in Console!Core : /\ Console!Writes(c)' = Console!Writes(c)
                                /\ Console!Shown(c)' <=> Console!Shown(c)
                                /\ Console!InLine(c)' <=> Console!InLine(c)
    BY <2>1, <2>2 DEF Console!Writes, Console!Shown, Console!InLine
  <2> QED
    BY <2>1, <2>2, <2>3 DEF ConsoleInv, Console!TypeOK, Console!Core
<1> QED
  BY <1>3, <1>4, <1>5, <1>6, <1>7, <1>8, <1>9, <1>10, <1>11 DEF Console!Next

(* The lines of the two cores, and a line and a reset of the UART, stay    *)
(* apart without a lock.                                                   *)
THEOREM ConsoleLinesStayWhole == RuntimeSpec => []LinesAreWhole
  BY InitConsole, StepConsole, ApartOnConsole, EachComponent, PTL DEF Console!Spec

(* The rings between the cores neither lose a buffer nor hand one to both, *)
(* no interrupt is missed, and only a full ring refuses a message.         *)
THEOREM RingsKeepBuffers ==
  RuntimeSpec => []OneOwner /\ []NoLostKick /\ RefusedOnlyWhenFull
BY EachComponent, EveryBufferHasOneOwner, KickIsNotLost, OnlyRefusedWhenFull, PTL

(* To one that sends and one that receives a direction of the link is a    *)
(* FIFO that loses, repeats and changes nothing, beside the others too.    *)
THEOREM LinkIsFifo == RuntimeSpec => Fifo!Spec
BY EachComponent, RingsAreFifo, PTL

(* front, rear and the indices of the rings, the statements and writes of  *)
(* the cores, the counter and the parts of quicksort stay in their ranges. *)
THEOREM AllIndicesInRange == RuntimeSpec => []IndicesInRange
<1>1. FramesProofs!Spec => []FramesProofs!TypeOK
  BY SameFrameRing, FramesProofs!TypeCorrect
<1>2. FramesProofs!TypeOK => Frames!TypeOK
  BY DEF FramesProofs!TypeOK, Frames!TypeOK, FramesProofs!Slot, Frames!Slot
<1>3. QuicksortProofs!Spec => []QuicksortProofs!TypeOK
  BY SameQuicksort, QuicksortProofs!NeverOutside
<1>4. QuicksortProofs!TypeOK => Quicksort!TypeOK
  BY DEF QuicksortProofs!TypeOK, Quicksort!TypeOK, QuicksortProofs!Index, Quicksort!Index
<1>5. ConsoleInv => Console!TypeOK
  BY DEF ConsoleInv
<1>6. DelayInv => Delay!TypeOK
  BY DEF DelayInv
<1> QED
  BY <1>1, <1>2, <1>3, <1>4, <1>5, <1>6, TypeCorrect, InitConsole, StepConsole, InitDelay,
     StepDelay,
     EachComponent, SameFrameRingSpec, SameQuicksortSpec, PTL
  DEF Console!Spec, Delay!Spec, IndicesInRange
=============================================================================
