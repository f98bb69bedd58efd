--------------------------- MODULE QuicksortProofs ---------------------------
(***************************************************************************)
(* Theorems about Quicksort.tla, for arrays of any length and strings in   *)
(* any order: the array is sorted when the outermost call returns.  That   *)
(* it does return is only checked on small arrays.                         *)
(***************************************************************************)
EXTENDS Quicksort, SequenceTheorems, TLAPS

(* The array as the order sees it: the rank of every entry. *)
value == [a \in Index |-> rank[array[a]]]

(* The entries a call may touch, and those on both sides of its pivot. *)
Part(f) == f.base .. (f.base + f.length - 1)
LowerPart(f) == f.base .. (f.base + f.pivot - 1)
UpperPart(f) == (f.base + f.pivot + 1) .. (f.base + f.length - 1)

(* The part that the call made last in frame f was given. *)
Given(f) == IF f.pc = "Upper" THEN LowerPart(f) ELSE UpperPart(f)

(* The part of frame g lies in that of frame f, also when it is empty. *)
Within(f, g) == g.base >= f.base /\ g.base + g.length <= f.base + f.length

FrameType ==
  [base : Nat, length : Nat, i : Nat, pivot : Nat, pc : {"Start", "Partition", "Upper", "Done"}]

InOrder(v, S) == \A a, b \in S : a < b => v[a] <= v[b]

(* What the loop has seen is on the right side of its pivot. *)
Scanned(v, f) ==
  /\ \A a \in f.base .. (f.base + f.pivot - 1) : v[a] < v[f.base + f.length - 1]
  /\ \A a \in (f.base + f.pivot) .. (f.base + f.i - 1) : v[a] >= v[f.base + f.length - 1]

ApartIn(v, f) ==
  /\ \A a \in LowerPart(f) : v[a] < v[f.base + f.pivot]
  /\ \A a \in UpperPart(f) : v[a] >= v[f.base + f.pivot]

FrameOK(v, f) ==
  /\ f \in FrameType
  /\ Part(f) \subseteq DOMAIN v
  /\ f.i <= f.length /\ f.pivot <= f.i
  /\ f.pc = "Start" => f.i = 0
  /\ f.pc # "Start" => f.pivot < f.length
  /\ f.pc = "Partition" => Scanned(v, f)
  /\ f.pc \in {"Upper", "Done"} => ApartIn(v, f)
  /\ f.pc = "Done" => InOrder(v, LowerPart(f))

(* The pointers are those of the beginning. *)
Pointers ==
  /\ Index \subseteq Nat
  /\ array \in [Index -> Index] /\ rank \in [Index -> Int]
  /\ \A p \in Index : \E a \in Index : array[a] = p

Frames == stack \in Seq(FrameType) /\ \A k \in 1 .. Len(stack) : FrameOK(value, stack[k])

(* A call works on the part it was given, inside of those of the calls     *)
(* that wait for it.                                                       *)
Nested ==
  /\ stack # <<>> => Part(stack[1]) = Index
  /\ \A k \in 1 .. (Len(stack) - 1) :
       /\ stack[k].pc \in {"Upper", "Done"}
       /\ Part(stack[k + 1]) = Given(stack[k])
       /\ Within(stack[k], stack[k + 1])
  /\ \A k, l \in 1 .. Len(stack) : k < l => Part(stack[l]) \subseteq Given(stack[k])

(* What the call that returned last has left in order. *)
Returned ==
  /\ stack = <<>> => InOrder(value, Index)
  /\ stack # <<>> /\ Top.pc \in {"Upper", "Done"} => InOrder(value, Given(Top))

IInv == Pointers /\ Frames /\ Nested /\ Returned

-----------------------------------------------------------------------------
(* What a call does to the values of its part.                             *)
Exchanged(v, p, q) == [v EXCEPT ![p] = v[q], ![q] = v[p]]

LEMMA Exchange ==
  ASSUME NEW D, NEW v \in [D -> Int], NEW p \in D, NEW q \in D
  PROVE  /\ Exchanged(v, p, q) \in [D -> Int]
         /\ Exchanged(v, p, q)[p] = v[q] /\ Exchanged(v, p, q)[q] = v[p]
         /\ \A a \in D : a # p /\ a # q => Exchanged(v, p, q)[a] = v[a]
  BY DEF Exchanged

(* To exchange two entries that were given to a call leaves the frame of   *)
(* its caller as it has to be.                                             *)
LEMMA CallerStays ==
  ASSUME NEW D \in SUBSET Nat, NEW v \in [D -> Int], NEW f, FrameOK(v, f),
         f.pc \in {"Upper", "Done"}, NEW p \in Given(f), NEW q \in Given(f)
  PROVE  FrameOK(Exchanged(v, p, q), f)
<1> DEFINE w == Exchanged(v, p, q)
<1>1. f \in FrameType /\ Part(f) \subseteq D /\ f.pivot < f.length
  BY DEF FrameOK
<1>2. /\ f.base \in Nat /\ f.pivot \in Nat /\ f.length \in Nat
  BY <1>1 DEF FrameType
<1>3. /\ LowerPart(f) \subseteq Part(f) /\ UpperPart(f) \subseteq Part(f)
      /\ f.base + f.pivot \in Part(f)
      /\ f.base + f.pivot \notin LowerPart(f) /\ f.base + f.pivot \notin UpperPart(f)
      /\ \A a \in LowerPart(f) : a \notin UpperPart(f)
  BY <1>1, <1>2 DEF LowerPart, UpperPart, Part
<1>4. p \in D /\ q \in D
  BY <1>1, <1>3 DEF Given
<1>5. /\ w \in [D -> Int] /\ w[p] = v[q] /\ w[q] = v[p]
      /\ \A a \in D : a # p /\ a # q => w[a] = v[a]
  BY <1>4 DEF Exchanged
<1> HIDE DEF w
<1>6. w[f.base + f.pivot] = v[f.base + f.pivot]
  BY <1>1, <1>3, <1>5 DEF Given
<1>7. ApartIn(v, f) /\ (f.pc = "Done" => InOrder(v, LowerPart(f)))
  BY DEF FrameOK
<1>8. ApartIn(w, f)
  <2>1. CASE f.pc = "Upper"
    BY <1>1, <1>3, <1>5, <1>6, <1>7, <2>1 DEF ApartIn, Given
  <2>2. CASE f.pc = "Done"
    BY <1>1, <1>3, <1>5, <1>6, <1>7, <2>2 DEF ApartIn, Given
  <2> QED
    BY <2>1, <2>2
<1>9. f.pc = "Done" => InOrder(w, LowerPart(f))
  BY <1>1, <1>3, <1>5, <1>7 DEF InOrder, Given
<1>10. FrameOK(w, f)
  BY <1>5, <1>8, <1>9 DEF FrameOK
<1> QED
  BY <1>10 DEF w

LEMMA Round ==
  ASSUME NEW D \in SUBSET Nat, NEW v \in [D -> Int], NEW f, FrameOK(v, f),
         f.pc = "Partition", f.i < f.length
  PROVE  /\ f.base + f.i \in Part(f) /\ f.base + f.pivot \in Part(f)
         /\ f.base + f.length - 1 \in Part(f)
         /\ v[f.base + f.i] < v[f.base + f.length - 1] =>
              FrameOK(Exchanged(v, f.base + f.i, f.base + f.pivot),
                      [f EXCEPT !.i = @ + 1, !.pivot = @ + 1])
         /\ ~(v[f.base + f.i] < v[f.base + f.length - 1]) =>
              FrameOK(v, [f EXCEPT !.i = @ + 1])
<1> DEFINE p == f.base + f.i
           q == f.base + f.pivot
           last == f.base + f.length - 1
           w == Exchanged(v, p, q)
           g == [f EXCEPT !.i = @ + 1, !.pivot = @ + 1]
           h == [f EXCEPT !.i = @ + 1]
<1>1. f \in FrameType /\ Part(f) \subseteq D /\ f.pivot <= f.i /\ Scanned(v, f)
  BY DEF FrameOK
<1>2. f.base \in Nat /\ f.pivot \in Nat /\ f.length \in Nat /\ f.i \in Nat
  BY <1>1 DEF FrameType
<1>3. p \in Part(f) /\ q \in Part(f) /\ last \in Part(f)
  BY <1>1, <1>2 DEF Part
<1>4. /\ g \in FrameType /\ g.base = f.base /\ g.length = f.length /\ g.pc = "Partition"
      /\ g.i = f.i + 1 /\ g.pivot = f.pivot + 1
      /\ h \in FrameType /\ h.base = f.base /\ h.length = f.length /\ h.pc = "Partition"
      /\ h.i = f.i + 1 /\ h.pivot = f.pivot
  <2>1. /\ h \in FrameType /\ h.base = f.base /\ h.length = f.length /\ h.pc = "Partition"
        /\ h.i = f.i + 1 /\ h.pivot = f.pivot
    BY <1>1, <1>2 DEF FrameType
  <2>2. g = [h EXCEPT !.pivot = f.pivot + 1]
    BY <1>1 DEF FrameType
  <2> HIDE DEF g, h
  <2> QED
    BY <1>2, <2>1, <2>2 DEF FrameType
<1>5. /\ w \in [D -> Int] /\ w[p] = v[q] /\ w[q] = v[p]
      /\ \A a \in D : a # p /\ a # q => w[a] = v[a]
  BY <1>1, <1>3 DEF Exchanged
<1> HIDE DEF w, g, h
<1>6. ASSUME v[p] < v[last]
      PROVE  FrameOK(w, g)
  <2>1. f.i + 1 < f.length /\ w[last] = v[last]
    <3>1. v[last] \in Int /\ last # p
      <4>1. p \in D /\ last \in D
        BY <1>1, <1>3
      <4> HIDE DEF p, last
      <4> QED
        BY <1>6, <4>1
    <3>2. f.i + 1 < f.length /\ last # q
      BY <1>1, <1>2, <3>1
    <3> QED
      BY <1>1, <1>3, <1>5, <3>1, <3>2
  <2>2. ASSUME NEW a \in f.base .. (f.base + (f.pivot + 1) - 1)
        PROVE  w[a] < w[last]
    <3>1. a \in D
      BY <1>1, <1>2, <2>1 DEF Part
    <3>2. CASE a = q
      BY <1>5, <1>6, <2>1, <3>2
    <3>3. CASE a # q
      <4>1. a \in f.base .. (f.base + f.pivot - 1) /\ a # p
        BY <1>1, <1>2, <3>3
      <4> QED
        BY <1>1, <1>5, <2>1, <3>1, <3>3, <4>1 DEF Scanned
    <3> QED
      BY <3>2, <3>3
  <2>3. ASSUME NEW a \in (f.base + (f.pivot + 1)) .. (f.base + (f.i + 1) - 1)
        PROVE  w[a] >= w[last]
    <3>1. a \in D /\ a # q
      BY <1>1, <1>2, <2>1 DEF Part
    <3>2. CASE a = p
      <4>1. q \in (f.base + f.pivot) .. (f.base + f.i - 1)
        BY <1>1, <1>2, <3>1, <3>2
      <4> QED
        BY <1>1, <1>5, <2>1, <3>2, <4>1 DEF Scanned
    <3>3. CASE a # p
      <4>1. a \in (f.base + f.pivot) .. (f.base + f.i - 1)
        BY <1>1, <1>2, <3>3
      <4> QED
        BY <1>1, <1>5, <2>1, <3>1, <3>3, <4>1 DEF Scanned
    <3> QED
      BY <3>2, <3>3
  <2>4. Scanned(w, g)
    BY <1>4, <2>2, <2>3 DEF Scanned
  <2>5. Part(g) \subseteq DOMAIN w
    BY <1>1, <1>4, <1>5 DEF Part
  <2>6. g.i <= g.length /\ g.pivot <= g.i /\ g.pivot < g.length
    BY <1>1, <1>2, <1>4, <2>1
  <2> QED
    BY <1>4, <2>4, <2>5, <2>6 DEF FrameOK
<1>7. ASSUME ~(v[p] < v[last])
      PROVE  FrameOK(v, h)
  <2>1. v[p] >= v[last]
    <3>1. p \in D /\ last \in D
      BY <1>1, <1>3
    <3> HIDE DEF p, last
    <3> QED
      BY <1>7, <3>1
  <2>2. ASSUME NEW a \in (f.base + f.pivot) .. (f.base + (f.i + 1) - 1)
        PROVE  v[a] >= v[last]
    <3>1. a = p \/ a \in (f.base + f.pivot) .. (f.base + f.i - 1)
      BY <1>2
    <3> QED
      BY <1>1, <2>1, <3>1 DEF Scanned
  <2>3. Scanned(v, h)
    BY <1>1, <1>4, <2>2 DEF Scanned
  <2>4. Part(h) \subseteq DOMAIN v /\ h.i <= h.length /\ h.pivot <= h.i /\ h.pivot < h.length
    BY <1>1, <1>2, <1>4 DEF Part
  <2> QED
    BY <1>4, <2>3, <2>4 DEF FrameOK
<1> QED
  BY <1>3, <1>6, <1>7 DEF w, g, h

(* What a new call gets. *)
LEMMA NewFrame ==
  ASSUME NEW base \in Nat, NEW length \in Nat, NEW v, base .. (base + length - 1) \subseteq DOMAIN v
  PROVE  /\ FrameOK(v, Frame(base, length))
         /\ Part(Frame(base, length)) = base .. (base + length - 1)
         /\ Frame(base, length).pc = "Start"
  BY DEF FrameOK, Frame, FrameType, Part

LEMMA Placed ==
  ASSUME NEW D \in SUBSET Nat, NEW v \in [D -> Int], NEW f, FrameOK(v, f),
         f.pc = "Partition", f.i = f.length
  PROVE  /\ f.base + f.pivot \in Part(f) /\ f.base + f.length - 1 \in Part(f)
         /\ FrameOK(Exchanged(v, f.base + f.pivot, f.base + f.length - 1), [f EXCEPT !.pc = "Upper"])
         /\ LowerPart(f) \subseteq D
<1> DEFINE p == f.base + f.pivot
           last == f.base + f.length - 1
           w == Exchanged(v, p, last)
           g == [f EXCEPT !.pc = "Upper"]
<1>1. f \in FrameType /\ Part(f) \subseteq D /\ f.pivot < f.length /\ Scanned(v, f)
  BY DEF FrameOK
<1>2. f.base \in Nat /\ f.pivot \in Nat /\ f.length \in Nat
  BY <1>1 DEF FrameType
<1>3. p \in Part(f) /\ last \in Part(f) /\ LowerPart(f) \subseteq Part(f)
  BY <1>1, <1>2 DEF Part, LowerPart
<1>4. /\ g \in FrameType /\ g.base = f.base /\ g.length = f.length /\ g.pc = "Upper"
      /\ g.i = f.i /\ g.pivot = f.pivot
  BY <1>1 DEF FrameType
<1>5. /\ w \in [D -> Int] /\ w[p] = v[last] /\ w[last] = v[p]
      /\ \A a \in D : a # p /\ a # last => w[a] = v[a]
  BY <1>1, <1>3 DEF Exchanged
<1> HIDE DEF w, g
<1>6. ASSUME NEW a \in LowerPart(f)
      PROVE  w[a] < w[p]
  <2>1. a \in D /\ a # p /\ a # last
    BY <1>1, <1>2, <1>3 DEF LowerPart
  <2> QED
    BY <1>1, <1>5, <2>1 DEF LowerPart, Scanned
<1>7. ASSUME NEW a \in UpperPart(f)
      PROVE  w[a] >= w[p]
  <2>1. a \in D /\ a # p
    BY <1>1, <1>2 DEF UpperPart, Part
  <2>2. CASE a = last
    <3>1. p \in (f.base + f.pivot) .. (f.base + f.i - 1)
      BY <1>1, <1>2
    <3> QED
      BY <1>1, <1>5, <2>2, <3>1 DEF Scanned
  <2>3. CASE a # last
    <3>1. a \in (f.base + f.pivot) .. (f.base + f.i - 1)
      BY <1>1, <1>2, <2>3 DEF UpperPart
    <3> QED
      BY <1>1, <1>5, <2>1, <2>3, <3>1 DEF Scanned
  <2> QED
    BY <2>2, <2>3
<1>8. ApartIn(w, g)
  BY <1>4, <1>6, <1>7 DEF ApartIn, LowerPart, UpperPart
<1>9. Part(g) \subseteq DOMAIN w /\ g.i <= g.length /\ g.pivot <= g.i /\ g.pivot < g.length
  BY <1>1, <1>2, <1>4, <1>5 DEF Part, FrameOK
<1>10. FrameOK(w, g)
  BY <1>4, <1>8, <1>9 DEF FrameOK
<1> QED
  BY <1>1, <1>3, <1>10 DEF w, g

(* Both parts in order and apart are the whole in order. *)
LEMMA Joined ==
  ASSUME NEW D \in SUBSET Nat, NEW v \in [D -> Int], NEW f, FrameOK(v, f),
         f.pc = "Done", InOrder(v, UpperPart(f))
  PROVE  InOrder(v, Part(f))
<1>1. f \in FrameType /\ Part(f) \subseteq D /\ f.pivot < f.length /\ ApartIn(v, f) /\ InOrder(v, LowerPart(f))
  BY DEF FrameOK
<1>2. f.base \in Nat /\ f.pivot \in Nat /\ f.length \in Nat
  BY <1>1 DEF FrameType
<1> SUFFICES ASSUME NEW a \in Part(f), NEW b \in Part(f), a < b
             PROVE  v[a] <= v[b]
  BY DEF InOrder
<1>3. a \in D /\ b \in D /\ f.base + f.pivot \in D /\ a \in Int /\ b \in Int
  BY <1>1, <1>2 DEF Part
<1>4. v[a] \in Int /\ v[b] \in Int /\ v[f.base + f.pivot] \in Int
  BY <1>3
<1>5. CASE a \in LowerPart(f) /\ b \in LowerPart(f)
  BY <1>1, <1>5 DEF InOrder
<1>6. CASE a \in UpperPart(f) /\ b \in UpperPart(f)
  BY <1>6 DEF InOrder
<1>7. CASE a \in LowerPart(f) \cup {f.base + f.pivot} /\ b \in UpperPart(f) \cup {f.base + f.pivot}
  BY <1>1, <1>4, <1>7 DEF ApartIn
<1> QED
  BY <1>2, <1>3, <1>5, <1>6, <1>7 DEF Part, LowerPart, UpperPart

-----------------------------------------------------------------------------
(* The frames of the stack after each kind of step.                        *)
LEMMA StackTop ==
  ASSUME NEW S, NEW s \in Seq(S), s # <<>>
  PROVE  Len(s) \in Nat /\ Len(s) >= 1 /\ s[Len(s)] \in S
  OBVIOUS

LEMMA Replaced ==
  ASSUME NEW S, NEW s \in Seq(S), s # <<>>, NEW f \in S, NEW t, t = [s EXCEPT ![Len(s)] = f]
  PROVE  /\ t \in Seq(S) /\ Len(t) = Len(s) /\ t # <<>> /\ t[Len(s)] = f
         /\ \A k \in 1 .. (Len(s) - 1) : t[k] = s[k]
<1>1. Len(s) \in Nat /\ Len(s) >= 1
  BY StackTop
<1>2. t \in Seq(S) /\ Len(t) = Len(s)
  BY <1>1
<1>3. t # <<>>
  BY <1>1, <1>2
<1>4. \A k \in 1 .. Len(s) : t[k] = IF k = Len(s) THEN f ELSE s[k]
  BY <1>1
<1>5. t[Len(s)] = f
  BY <1>1, <1>4
<1>6. \A k \in 1 .. (Len(s) - 1) : t[k] = s[k]
  <2> SUFFICES ASSUME NEW k \in 1 .. (Len(s) - 1) PROVE t[k] = s[k]
    OBVIOUS
  <2>1. k \in 1 .. Len(s) /\ k # Len(s)
    BY <1>1
  <2> QED
    BY <1>4, <2>1
<1> QED
  BY <1>2, <1>3, <1>5, <1>6

LEMMA Called ==
  ASSUME NEW S, NEW s \in Seq(S), s # <<>>, NEW f \in S, NEW g \in S,
         NEW t, t = Append([s EXCEPT ![Len(s)] = f], g)
  PROVE  /\ t \in Seq(S) /\ Len(t) = Len(s) + 1 /\ t # <<>>
         /\ t[Len(s)] = f /\ t[Len(s) + 1] = g
         /\ \A k \in 1 .. (Len(s) - 1) : t[k] = s[k]
<1> DEFINE u == [s EXCEPT ![Len(s)] = f]
<1>1. Len(s) \in Nat /\ Len(s) >= 1
  BY StackTop
<1>2. /\ u \in Seq(S) /\ Len(u) = Len(s) /\ u[Len(s)] = f
      /\ \A k \in 1 .. (Len(s) - 1) : u[k] = s[k]
  BY Replaced
<1>3. t = Append(u, g)
  OBVIOUS
<1> HIDE DEF u
<1>4. /\ t \in Seq(S) /\ t # <<>> /\ Len(t) = Len(u) + 1
      /\ \A k \in 1 .. Len(u) : t[k] = u[k]
      /\ t[Len(u) + 1] = g
  BY <1>2, <1>3, AppendProperties
<1> QED
  BY <1>1, <1>2, <1>4

LEMMA Popped ==
  ASSUME NEW S, NEW s \in Seq(S), s # <<>>
  PROVE  /\ SubSeq(s, 1, Len(s) - 1) \in Seq(S)
         /\ Len(SubSeq(s, 1, Len(s) - 1)) = Len(s) - 1
         /\ \A k \in 1 .. (Len(s) - 1) : SubSeq(s, 1, Len(s) - 1)[k] = s[k]
<1> DEFINE t == SubSeq(s, 1, Len(s) - 1)
           n == Len(s)
<1>1. n \in Nat /\ n >= 1
  BY StackTop
<1>2. \A k \in 1 .. (n - 1) : s[k] \in S
  BY <1>1
<1>3. /\ t \in Seq(S)
      /\ Len(t) = IF 1 <= n - 1 THEN n - 1 - 1 + 1 ELSE 0
      /\ \A k \in 1 .. (n - 1 - 1 + 1) : t[k] = s[1 + k - 1]
  BY <1>1, <1>2, SubSeqProperties
<1> HIDE DEF t, n
<1>4. Len(t) = n - 1
  BY <1>1, <1>3
<1>5. ASSUME NEW k \in 1 .. (n - 1)
      PROVE  t[k] = s[k]
  <2>1. k \in 1 .. (n - 1 - 1 + 1) /\ 1 + k - 1 = k
    BY <1>1
  <2> QED
    BY <1>3, <2>1
<1>6. t \in Seq(S) /\ Len(t) = n - 1 /\ \A k \in 1 .. (n - 1) : t[k] = s[k]
  BY <1>3, <1>4, <1>5
<1> QED
  BY <1>6 DEF t, n

-----------------------------------------------------------------------------
LEMMA InitInv == MaxLengthAssumption /\ RankAssumption /\ Init => IInv
<1> SUFFICES ASSUME MaxLengthAssumption, RankAssumption, Init PROVE IInv
  OBVIOUS
<1>1. PICK n \in 0 .. MaxLength :
        /\ rank \in [0 .. (n - 1) -> Rank]
        /\ array = [k \in 0 .. (n - 1) |-> k]
        /\ stack = <<Frame(0, n)>>
  BY DEF Init
<1>2. n \in Nat /\ Index = 0 .. (n - 1)
  BY <1>1 DEF MaxLengthAssumption, Index
<1>3. Pointers
  <2>1. /\ Index \subseteq Nat /\ array \in [Index -> Index] /\ rank \in [Index -> Int]
        /\ \A p \in Index : array[p] = p
    <3>1. \A p \in 0 .. (n - 1) : array[p] = p
      BY <1>1
    <3>2. array \in [0 .. (n - 1) -> 0 .. (n - 1)]
      BY <1>1
    <3>3. rank \in [0 .. (n - 1) -> Int]
      BY <1>1 DEF RankAssumption
    <3>4. Index \subseteq Nat
      BY <1>2
    <3> QED
      BY <1>2, <3>1, <3>2, <3>3, <3>4
  <2> QED
    BY <2>1 DEF Pointers
<1>4. DOMAIN value = 0 .. (0 + n - 1)
  BY <1>2 DEF value
<1>5. /\ FrameOK(value, Frame(0, n)) /\ Part(Frame(0, n)) = 0 .. (0 + n - 1)
      /\ Frame(0, n).pc = "Start"
  BY <1>2, <1>4, NewFrame
<1>6. Frame(0, n) \in FrameType
  BY <1>5 DEF FrameOK
<1>7. stack \in Seq(FrameType) /\ Len(stack) = 1 /\ stack[1] = Frame(0, n) /\ stack # <<>>
  BY <1>1, <1>6
<1>8. Frames
  BY <1>5, <1>7 DEF Frames
<1>9. Nested
  BY <1>2, <1>5, <1>7 DEF Nested
<1>10. Returned
  BY <1>5, <1>7 DEF Returned, Top
<1> QED
  BY <1>3, <1>8, <1>9, <1>10 DEF IInv

LEMMA Running ==
  ASSUME IInv, stack # <<>>
  PROVE  /\ stack \in Seq(FrameType) /\ Len(stack) \in Nat /\ Len(stack) >= 1
         /\ Top \in FrameType /\ FrameOK(value, Top) /\ Part(Top) \subseteq Index
         /\ Index \in SUBSET Nat /\ value \in [Index -> Int]
<1>1. stack \in Seq(FrameType) /\ Index \in SUBSET Nat /\ value \in [Index -> Int]
  BY DEF IInv, Frames, Pointers, value
<1>2. Len(stack) \in Nat /\ Len(stack) >= 1
  BY <1>1, StackTop
<1>3. FrameOK(value, Top)
  BY <1>2 DEF IInv, Frames, Top
<1> QED
  BY <1>1, <1>2, <1>3 DEF FrameOK

(* To swap two pointers exchanges their values and loses none.             *)
LEMMA SwapStep ==
  ASSUME IInv, NEW p \in Index, NEW q \in Index, array' = Swapped(p, q), rank' = rank
  PROVE  Pointers' /\ Index' = Index /\ value' = Exchanged(value, p, q)
<1>1. Index \subseteq Nat /\ array \in [Index -> Index] /\ rank \in [Index -> Int]
  BY DEF IInv, Pointers
<1>2. /\ array' \in [Index -> Index] /\ array'[p] = array[q] /\ array'[q] = array[p]
      /\ \A a \in Index : a # p /\ a # q => array'[a] = array[a]
  BY <1>1 DEF Swapped
<1>3. Index' = Index
  BY <1>2 DEF Index
<1>4. ASSUME NEW r \in Index
      PROVE  \E a \in Index : array'[a] = r
  <2>1. PICK a \in Index : array[a] = r
    BY DEF IInv, Pointers
  <2>2. array'[a] = r \/ array'[p] = r \/ array'[q] = r
    BY <1>2, <2>1
  <2> QED
    BY <2>2
<1>5. Pointers'
  BY <1>1, <1>2, <1>3, <1>4 DEF Pointers
<1>6. value' = Exchanged(value, p, q)
  <2>1. value' = [a \in Index |-> rank[array'[a]]]
    BY <1>3 DEF value
  <2>2. Exchanged(value, p, q) \in [Index -> Int] /\ value' \in [Index -> Int]
    BY <1>1, <1>2, <2>1 DEF Exchanged, value
  <2>3. \A a \in Index : value'[a] = Exchanged(value, p, q)[a]
    BY <1>1, <1>2, <2>1 DEF Exchanged, value
  <2> QED
    BY <2>2, <2>3
<1> QED
  BY <1>3, <1>5, <1>6

(* What the invariant says of the frames, without the stack.               *)
LEMMA Waiting ==
  ASSUME IInv, stack # <<>>
  PROVE  /\ Part(stack[1]) = Index
         /\ Top = stack[Len(stack)]
         /\ \A k \in 1 .. (Len(stack) - 1) :
              /\ FrameOK(value, stack[k])
              /\ stack[k].pc \in {"Upper", "Done"}
              /\ Part(stack[k + 1]) = Given(stack[k])
              /\ Within(stack[k], stack[k + 1])
              /\ Part(Top) \subseteq Given(stack[k])
         /\ \A k, l \in 1 .. Len(stack) : k < l => Part(stack[l]) \subseteq Given(stack[k])
<1>1. Len(stack) \in Nat /\ Len(stack) >= 1
  BY Running
<1>2. Part(stack[1]) = Index
  BY DEF IInv, Nested
<1>3. \A k, l \in 1 .. Len(stack) : k < l => Part(stack[l]) \subseteq Given(stack[k])
  BY DEF IInv, Nested
<1>4. Top = stack[Len(stack)]
  BY DEF Top
<1>5. ASSUME NEW k \in 1 .. (Len(stack) - 1)
      PROVE  /\ FrameOK(value, stack[k])
             /\ stack[k].pc \in {"Upper", "Done"}
             /\ Part(stack[k + 1]) = Given(stack[k])
             /\ Within(stack[k], stack[k + 1])
             /\ Part(Top) \subseteq Given(stack[k])
  <2>1. k \in 1 .. Len(stack) /\ Len(stack) \in 1 .. Len(stack) /\ k < Len(stack)
    BY <1>1
  <2>2. FrameOK(value, stack[k])
    BY <2>1 DEF IInv, Frames
  <2>3. /\ stack[k].pc \in {"Upper", "Done"} /\ Part(stack[k + 1]) = Given(stack[k])
        /\ Within(stack[k], stack[k + 1])
    BY DEF IInv, Nested
  <2>4. Part(Top) \subseteq Given(stack[k])
    BY <1>3, <1>4, <2>1
  <2> QED
    BY <2>2, <2>3, <2>4
<1> QED
  BY <1>2, <1>3, <1>4, <1>5

LEMMA SameValue ==
  ASSUME IInv, UNCHANGED <<rank, array>>
  PROVE  Pointers' /\ Index' = Index /\ value' = value
<1>1. Index' = Index
  BY DEF Index
<1> QED
  BY <1>1 DEF IInv, Pointers, value

(* The frames of the calls that wait are right whatever the running one    *)
(* exchanges in its part.                                                  *)
LEMMA OthersStay ==
  ASSUME IInv, stack # <<>>, NEW p \in Part(Top), NEW q \in Part(Top)
  PROVE  \A k \in 1 .. (Len(stack) - 1) : FrameOK(Exchanged(value, p, q), stack[k])
<1> SUFFICES ASSUME NEW k \in 1 .. (Len(stack) - 1)
             PROVE  FrameOK(Exchanged(value, p, q), stack[k])
  OBVIOUS
<1>1. /\ Len(stack) \in Nat /\ Len(stack) >= 1 /\ Index \in SUBSET Nat
      /\ value \in [Index -> Int]
  BY Running
<1>2. FrameOK(value, stack[k]) /\ stack[k].pc \in {"Upper", "Done"}
  BY Waiting
<1>3. Part(Top) \subseteq Given(stack[k])
  BY Waiting
<1> QED
  BY <1>1, <1>2, <1>3, CallerStays

LEMMA BecomeStep ==
  ASSUME IInv, stack # <<>>, NEW g, stack' = [stack EXCEPT ![Len(stack)] = g],
         Pointers', Index' = Index, FrameOK(value', g), g.base = Top.base, g.length = Top.length,
         g.pc \notin {"Upper", "Done"},
         \A k \in 1 .. (Len(stack) - 1) : FrameOK(value', stack[k])
  PROVE  IInv'
<1>1. stack \in Seq(FrameType) /\ Len(stack) \in Nat /\ Len(stack) >= 1 /\ g \in FrameType
  BY Running DEF FrameOK
<1>2. /\ stack' \in Seq(FrameType) /\ Len(stack') = Len(stack) /\ stack' # <<>>
      /\ stack'[Len(stack)] = g
      /\ \A k \in 1 .. (Len(stack) - 1) : stack'[k] = stack[k]
  BY <1>1, Replaced
<1> DEFINE n == Len(stack)
<1>0. \A k \in 1 .. n : k = n \/ k \in 1 .. (n - 1)
  BY <1>1
<1>3. Frames'
  <2>1. \A k \in 1 .. n : FrameOK(value', stack'[k])
    BY <1>0, <1>2
  <2> QED
    BY <1>2, <2>1 DEF Frames
<1>4. \A k \in 1 .. n :
        /\ Part(stack'[k]) = Part(stack[k])
        /\ stack'[k].base = stack[k].base /\ stack'[k].length = stack[k].length
  <2>1. Part(g) = Part(Top)
    BY DEF Part
  <2> QED
    BY <1>0, <1>2, <2>1, Waiting
<1>5. Nested'
  <2>1. Part(stack'[1]) = Index'
    <3>1. 1 \in 1 .. n
      BY <1>1
    <3> QED
      BY <1>4, <3>1, Waiting
  <2>2. ASSUME NEW k \in 1 .. (Len(stack') - 1)
        PROVE  /\ stack'[k].pc \in {"Upper", "Done"} /\ Part(stack'[k + 1]) = Given(stack'[k])
               /\ Within(stack'[k], stack'[k + 1])
    <3>1. k \in 1 .. (n - 1)
      BY <1>2
    <3>2. k \in 1 .. n /\ k + 1 \in 1 .. n
      BY <1>1, <3>1
    <3>3. stack'[k].pc \in {"Upper", "Done"} /\ Part(stack'[k + 1]) = Given(stack'[k])
      BY <1>2, <1>4, <3>1, <3>2, Waiting
    <3>4. Within(stack'[k], stack'[k + 1])
      BY <1>4, <3>1, <3>2, Waiting DEF Within
    <3> QED
      BY <3>3, <3>4
  <2>3. ASSUME NEW k \in 1 .. Len(stack'), NEW l \in 1 .. Len(stack'), k < l
        PROVE  Part(stack'[l]) \subseteq Given(stack'[k])
    <3>1. k \in 1 .. n /\ l \in 1 .. n
      BY <1>2
    <3>2. k \in 1 .. (n - 1)
      BY <1>1, <2>3, <3>1
    <3> QED
      BY <1>2, <1>4, <2>3, <3>1, <3>2, Waiting
  <2> QED
    BY <2>1, <2>2, <2>3 DEF Nested
<1>6. Returned'
  BY <1>2 DEF Returned, Top
<1> QED
  BY <1>3, <1>5, <1>6 DEF IInv

LEMMA CallStep ==
  ASSUME IInv, stack # <<>>, NEW g, NEW c,
         stack' = Append([stack EXCEPT ![Len(stack)] = g], c),
         Pointers', Index' = Index, FrameOK(value', g), FrameOK(value', c),
         g.base = Top.base, g.length = Top.length, g.pc \in {"Upper", "Done"},
         Part(c) = Given(g), Within(g, c), c.pc = "Start",
         \A k \in 1 .. (Len(stack) - 1) : FrameOK(value', stack[k])
  PROVE  IInv'
<1>1. /\ stack \in Seq(FrameType) /\ Len(stack) \in Nat /\ Len(stack) >= 1
      /\ g \in FrameType /\ c \in FrameType
  BY Running DEF FrameOK
<1>2. /\ stack' \in Seq(FrameType) /\ Len(stack') = Len(stack) + 1 /\ stack' # <<>>
      /\ stack'[Len(stack)] = g /\ stack'[Len(stack) + 1] = c
      /\ \A k \in 1 .. (Len(stack) - 1) : stack'[k] = stack[k]
  BY <1>1, Called
<1> DEFINE n == Len(stack)
<1>0. \A k \in 1 .. (n + 1) : k = n + 1 \/ k = n \/ k \in 1 .. (n - 1)
  BY <1>1
<1>3. Frames'
  <2>1. \A k \in 1 .. (n + 1) : FrameOK(value', stack'[k])
    BY <1>0, <1>2
  <2> QED
    BY <1>2, <2>1 DEF Frames
<1>4. \A k \in 1 .. n :
        /\ Part(stack'[k]) = Part(stack[k])
        /\ stack'[k].base = stack[k].base /\ stack'[k].length = stack[k].length
  <2>1. \A k \in 1 .. n : k = n \/ k \in 1 .. (n - 1)
    BY <1>1
  <2>2. Part(g) = Part(Top)
    BY DEF Part
  <2> QED
    BY <1>2, <2>1, <2>2, Waiting
<1>5. Part(c) \subseteq Part(g)
  <2>1. g.base \in Nat /\ g.pivot \in Nat /\ g.length \in Nat /\ g.pivot < g.length
    BY <1>1 DEF FrameType, FrameOK
  <2>2. LowerPart(g) \subseteq Part(g) /\ UpperPart(g) \subseteq Part(g)
    BY <2>1 DEF Part, LowerPart, UpperPart
  <2> QED
    BY <2>2 DEF Given
<1>6. Nested'
  <2>1. Part(stack'[1]) = Index'
    <3>1. 1 \in 1 .. n
      BY <1>1
    <3> QED
      BY <1>4, <3>1, Waiting
  <2>2. ASSUME NEW k \in 1 .. (Len(stack') - 1)
        PROVE  /\ stack'[k].pc \in {"Upper", "Done"} /\ Part(stack'[k + 1]) = Given(stack'[k])
               /\ Within(stack'[k], stack'[k + 1])
    <3>1. CASE k = Len(stack)
      BY <1>2, <3>1
    <3>2. CASE k # Len(stack)
      <4>1. k \in 1 .. (n - 1) /\ k \in 1 .. n /\ k + 1 \in 1 .. n
        BY <1>1, <1>2, <3>2
      <4>2. stack'[k].pc \in {"Upper", "Done"} /\ Part(stack'[k + 1]) = Given(stack'[k])
        BY <1>2, <1>4, <4>1, Waiting
      <4>3. Within(stack'[k], stack'[k + 1])
        BY <1>4, <4>1, Waiting DEF Within
      <4> QED
        BY <4>2, <4>3
    <3> QED
      BY <3>1, <3>2
  <2>3. ASSUME NEW k \in 1 .. Len(stack'), NEW l \in 1 .. Len(stack'), k < l
        PROVE  Part(stack'[l]) \subseteq Given(stack'[k])
    <3>1. CASE k = Len(stack)
      <4>1. l = Len(stack) + 1
        BY <1>1, <1>2, <2>3, <3>1
      <4> QED
        BY <1>2, <3>1, <4>1
    <3>2. CASE k # Len(stack)
      <4>1. k \in 1 .. (Len(stack) - 1) /\ stack'[k] = stack[k]
        BY <1>1, <1>2, <2>3, <3>2
      <4>2. CASE l = Len(stack) + 1
        <5>1. Part(Top) \subseteq Given(stack[k])
          BY <4>1, Waiting
        <5> QED
          <6>1. Part(stack'[l]) = Part(c) /\ Given(stack'[k]) = Given(stack[k])
            BY <1>2, <4>1, <4>2
          <6>2. Part(g) = Part(Top)
            BY DEF Part
          <6> QED
            BY <1>5, <5>1, <6>1, <6>2
      <4>3. CASE l # Len(stack) + 1
        <5>1. l \in 1 .. n /\ k \in 1 .. n
          BY <1>1, <1>2, <4>1, <4>3
        <5> QED
          BY <1>4, <2>3, <4>1, <5>1, Waiting
      <4> QED
        BY <4>2, <4>3
    <3> QED
      BY <3>1, <3>2
  <2> QED
    BY <2>1, <2>2, <2>3 DEF Nested
<1>7. Returned'
  BY <1>1, <1>2 DEF Returned, Top
<1> QED
  BY <1>3, <1>6, <1>7 DEF IInv

LEMMA PopStep ==
  ASSUME IInv, stack # <<>>, Pop, UNCHANGED <<rank, array>>, InOrder(value, Part(Top))
  PROVE  IInv'
<1>1. /\ stack \in Seq(FrameType) /\ Len(stack) \in Nat /\ Len(stack) >= 1
  BY Running
<1>2. /\ stack' \in Seq(FrameType) /\ Len(stack') = Len(stack) - 1
      /\ \A k \in 1 .. (Len(stack) - 1) : stack'[k] = stack[k]
  BY Popped, <1>1 DEF Pop
<1>3. Pointers' /\ Index' = Index /\ value' = value
  BY SameValue
<1>4. Frames'
  BY <1>1, <1>2, <1>3 DEF IInv, Frames
<1>5. Nested'
  <2>1. stack' # <<>> => Part(stack'[1]) = Index'
    <3> SUFFICES ASSUME stack' # <<>> PROVE Part(stack'[1]) = Index'
      OBVIOUS
    <3>1. 1 \in 1 .. (Len(stack) - 1)
      BY <1>1, <1>2, EmptySeq
    <3> QED
      BY <1>2, <1>3, <3>1 DEF IInv, Nested
  <2>2. ASSUME NEW k \in 1 .. (Len(stack') - 1)
        PROVE  /\ stack'[k].pc \in {"Upper", "Done"} /\ Part(stack'[k + 1]) = Given(stack'[k])
               /\ Within(stack'[k], stack'[k + 1])
    <3>1. k \in 1 .. (Len(stack) - 1) /\ k + 1 \in 1 .. (Len(stack) - 1)
      BY <1>1, <1>2
    <3> QED
      BY <1>2, <3>1 DEF IInv, Nested
  <2>3. ASSUME NEW k \in 1 .. Len(stack'), NEW l \in 1 .. Len(stack'), k < l
        PROVE  Part(stack'[l]) \subseteq Given(stack'[k])
    <3>1. k \in 1 .. (Len(stack) - 1) /\ l \in 1 .. (Len(stack) - 1)
      BY <1>1, <1>2
    <3>2. k \in 1 .. Len(stack) /\ l \in 1 .. Len(stack)
      BY <1>1, <3>1
    <3> QED
      BY <1>2, <2>3, <3>1, <3>2, Waiting
  <2> QED
    BY <2>1, <2>2, <2>3 DEF Nested
<1>6. Returned'
  <2>1. CASE Len(stack) = 1
    <3>1. Part(Top) = Index
      BY <2>1 DEF Top, IInv, Nested
    <3>2. stack' = <<>>
      BY <1>2, <2>1, EmptySeq
    <3> QED
      BY <1>3, <3>1, <3>2 DEF Returned
  <2>2. CASE Len(stack) # 1
    <3> DEFINE n == Len(stack)
    <3>0. n \in Nat /\ n >= 1 /\ n # 1
      BY <1>1, <2>2
    <3>1. n - 1 \in 1 .. (n - 1) /\ (n - 1) + 1 = n
      BY <3>0
    <3>2. Top' = stack[Len(stack) - 1]
      BY <1>2, <3>1 DEF Top
    <3>3. Part(Top) = Given(Top')
      BY <3>1, <3>2, Waiting
    <3>4. stack' # <<>>
      BY <1>1, <1>2, <2>2, EmptySeq
    <3>5. InOrder(value', Given(Top'))
      BY <1>3, <3>3
    <3> QED
      BY <3>4, <3>5 DEF Returned
  <2> QED
    BY <2>1, <2>2
<1> QED
  BY <1>3, <1>4, <1>5, <1>6 DEF IInv

-----------------------------------------------------------------------------
LEMMA SmallStep == IInv /\ Small => IInv'
<1> SUFFICES ASSUME IInv, Small PROVE IInv'
  OBVIOUS
<1>1. stack # <<>> /\ Top.length <= 1 /\ Pop /\ UNCHANGED <<rank, array>>
  BY DEF Small, At
<1>2. Top.base \in Nat /\ Top.length \in Nat
  BY <1>1, Running DEF FrameType
<1>3. \A a, b \in Part(Top) : ~(a < b)
  BY <1>1, <1>2 DEF Part
<1> QED
  BY <1>1, <1>3, PopStep DEF InOrder

LEMMA ReturnStep == IInv /\ Return => IInv'
<1> SUFFICES ASSUME IInv, Return PROVE IInv'
  OBVIOUS
<1>1. stack # <<>> /\ Top.pc = "Done" /\ Pop /\ UNCHANGED <<rank, array>>
  BY DEF Return, At
<1>2. InOrder(value, UpperPart(Top))
  BY <1>1 DEF IInv, Returned, Given
<1>3. InOrder(value, Part(Top))
  BY <1>1, <1>2, Running, Joined
<1> QED
  BY <1>1, <1>3, PopStep

LEMMA BeginStep == IInv /\ Begin => IInv'
<1> SUFFICES ASSUME IInv, Begin PROVE IInv'
  OBVIOUS
<1>1. stack # <<>> /\ Top.pc = "Start" /\ Top.length > 1 /\ UNCHANGED <<rank, array>>
  BY DEF Begin, At
<1>2. PICK g : g = [Top EXCEPT !.pc = "Partition"]
  OBVIOUS
<1>3. stack' = [stack EXCEPT ![Len(stack)] = g]
  BY <1>2 DEF Begin, Become
<1>4. Pointers' /\ Index' = Index /\ value' = value
  BY <1>1, SameValue
<1>5. PICK f : f = Top
  OBVIOUS
<1>6. f \in FrameType /\ FrameOK(value, f) /\ f.pc = "Start" /\ f.length > 1
  BY <1>1, <1>5, Running
<1>7. /\ g \in FrameType /\ g.base = f.base /\ g.length = f.length /\ g.pc = "Partition"
      /\ g.i = f.i /\ g.pivot = f.pivot
  BY <1>2, <1>5, <1>6 DEF FrameType
<1>8. f.i = 0 /\ f.pivot = 0 /\ f.base \in Nat /\ f.length \in Nat /\ Part(f) \subseteq DOMAIN value
  BY <1>6 DEF FrameOK, FrameType
<1>9. Scanned(value, g)
  BY <1>7, <1>8 DEF Scanned
<1>10. FrameOK(value, g) /\ g.base = Top.base /\ g.length = Top.length
  <2>1. Part(g) = Part(f)
    BY <1>7 DEF Part
  <2>2. g.i <= g.length /\ g.pivot <= g.i /\ g.pivot < g.length
    BY <1>6, <1>7, <1>8
  <2>3. FrameOK(value, g)
    BY <1>7, <1>8, <1>9, <2>1, <2>2 DEF FrameOK
  <2> QED
    BY <1>5, <1>7, <2>3
<1>11. \A k \in 1 .. (Len(stack) - 1) : FrameOK(value', stack[k])
  BY <1>1, <1>4, Waiting
<1> QED
  BY <1>1, <1>3, <1>4, <1>7, <1>10, <1>11, BecomeStep

LEMMA PartitionStep == IInv /\ Partition => IInv'
<1> SUFFICES ASSUME IInv, Partition PROVE IInv'
  OBVIOUS
<1>1. stack # <<>> /\ Top.pc = "Partition" /\ Top.i < Top.length /\ rank' = rank
  BY DEF Partition, At
<1>2. PICK f : f = Top
  OBVIOUS
<1>3. /\ f \in FrameType /\ FrameOK(value, f) /\ f.pc = "Partition" /\ f.i < f.length
      /\ Index \in SUBSET Nat /\ value \in [Index -> Int] /\ Part(f) \subseteq Index
  BY <1>1, <1>2, Running
<1> DEFINE p == f.base + f.i
           q == f.base + f.pivot
           last == f.base + f.length - 1
           less == value[p] < value[last]
<1>4. /\ p \in Part(f) /\ q \in Part(f) /\ last \in Part(f)
      /\ less => FrameOK(Exchanged(value, p, q), [f EXCEPT !.i = @ + 1, !.pivot = @ + 1])
      /\ ~less => FrameOK(value, [f EXCEPT !.i = @ + 1])
  BY <1>3, Round
<1>5. p \in Index /\ q \in Index /\ last \in Index
  BY <1>3, <1>4
<1>6. less <=> Less(array[p], array[last])
  BY <1>5 DEF Less, value
<1>7. CASE less
  <2>1. array' = Swapped(p, q)
    BY <1>2, <1>6, <1>7 DEF Partition
  <2>2. Pointers' /\ Index' = Index /\ value' = Exchanged(value, p, q)
    BY <1>1, <1>5, <2>1, SwapStep
  <2>3. PICK g : g = [f EXCEPT !.i = @ + 1, !.pivot = @ + 1]
    OBVIOUS
  <2>4. stack' = [stack EXCEPT ![Len(stack)] = g]
    BY <1>2, <1>6, <1>7, <2>3 DEF Partition, Become
  <2>5. FrameOK(value', g)
    BY <1>4, <1>7, <2>2, <2>3
  <2>6. g.pc = "Partition" /\ g.base = f.base /\ g.length = f.length
    BY <1>3, <2>3 DEF FrameType
  <2>7. g.base = Top.base /\ g.length = Top.length
    BY <1>2, <2>6
  <2>8. \A k \in 1 .. (Len(stack) - 1) : FrameOK(value', stack[k])
    BY <1>1, <1>2, <1>4, <2>2, OthersStay
  <2> QED
    BY <1>1, <2>2, <2>4, <2>5, <2>6, <2>7, <2>8, BecomeStep
<1>8. CASE ~less
  <2>1. array' = array
    BY <1>2, <1>6, <1>8 DEF Partition
  <2>2. Pointers' /\ Index' = Index /\ value' = value
    BY <1>1, <2>1, SameValue
  <2>3. PICK g : g = [f EXCEPT !.i = @ + 1]
    OBVIOUS
  <2>4. [f EXCEPT !.i = @ + 1, !.pivot = @] = g
    BY <1>3, <2>3 DEF FrameType
  <2>5. stack' = [stack EXCEPT ![Len(stack)] = g]
    BY <1>2, <1>6, <1>8, <2>4 DEF Partition, Become
  <2>6. FrameOK(value', g)
    BY <1>4, <1>8, <2>2, <2>3
  <2>7. g.pc = "Partition" /\ g.base = f.base /\ g.length = f.length
    BY <1>3, <2>3 DEF FrameType
  <2>8. g.base = Top.base /\ g.length = Top.length
    BY <1>2, <2>7
  <2>9. \A k \in 1 .. (Len(stack) - 1) : FrameOK(value', stack[k])
    BY <1>1, <2>2, Waiting
  <2> QED
    BY <1>1, <2>2, <2>5, <2>6, <2>7, <2>8, <2>9, BecomeStep
<1> QED
  BY <1>7, <1>8

LEMMA LowerStep == IInv /\ Lower => IInv'
<1> SUFFICES ASSUME IInv, Lower PROVE IInv'
  OBVIOUS
<1>1. stack # <<>> /\ Top.pc = "Partition" /\ Top.i = Top.length /\ rank' = rank
  BY DEF Lower, At
<1>2. PICK f : f = Top
  OBVIOUS
<1>3. /\ f \in FrameType /\ FrameOK(value, f) /\ f.pc = "Partition" /\ f.i = f.length
      /\ Index \in SUBSET Nat /\ value \in [Index -> Int] /\ Part(f) \subseteq Index
  BY <1>1, <1>2, Running
<1> DEFINE p == f.base + f.pivot
           last == f.base + f.length - 1
<1>4. PICK g : g = [f EXCEPT !.pc = "Upper"]
  OBVIOUS
<1>5. /\ p \in Part(f) /\ last \in Part(f) /\ LowerPart(f) \subseteq Index
      /\ FrameOK(Exchanged(value, p, last), g)
  BY <1>3, <1>4, Placed
<1>6. array' = Swapped(p, last)
  BY <1>2 DEF Lower
<1>7. Pointers' /\ Index' = Index /\ value' = Exchanged(value, p, last)
  BY <1>1, <1>3, <1>5, <1>6, SwapStep
<1>8. PICK c : c = Frame(f.base, f.pivot)
  OBVIOUS
<1>9. stack' = Append([stack EXCEPT ![Len(stack)] = g], c)
  BY <1>2, <1>4, <1>8 DEF Lower, Call
<1>10. /\ g.pc = "Upper" /\ g.base = f.base /\ g.length = f.length /\ g.pivot = f.pivot
       /\ f.base \in Nat /\ f.pivot \in Nat
  BY <1>3, <1>4 DEF FrameType
<1>11. FrameOK(value', g) /\ g.base = Top.base /\ g.length = Top.length
  BY <1>2, <1>5, <1>7, <1>10
<1>12. FrameOK(value', c) /\ Part(c) = LowerPart(f) /\ c.pc = "Start"
  <2>1. DOMAIN value' = Index
    BY <1>7 DEF Exchanged, value
  <2> QED
    BY <1>5, <1>8, <1>10, <2>1, NewFrame DEF LowerPart
<1>13. Part(c) = Given(g) /\ Within(g, c)
  <2>1. f.pivot < f.length /\ f.length \in Nat
    BY <1>3 DEF FrameOK, FrameType
  <2>2. c.base = f.base /\ c.length = f.pivot
    BY <1>8 DEF Frame
  <2> QED
    BY <1>10, <1>12, <2>1, <2>2 DEF Given, LowerPart, Within
<1>14. \A k \in 1 .. (Len(stack) - 1) : FrameOK(value', stack[k])
  BY <1>1, <1>2, <1>5, <1>7, OthersStay
<1> QED
  BY <1>1, <1>7, <1>9, <1>10, <1>11, <1>12, <1>13, <1>14, CallStep

LEMMA UpperStep == IInv /\ Upper => IInv'
<1> SUFFICES ASSUME IInv, Upper PROVE IInv'
  OBVIOUS
<1>1. stack # <<>> /\ Top.pc = "Upper" /\ UNCHANGED <<rank, array>>
  BY DEF Upper, At
<1>2. PICK f : f = Top
  OBVIOUS
<1>3. /\ f \in FrameType /\ FrameOK(value, f) /\ f.pc = "Upper"
      /\ value \in [Index -> Int] /\ Part(f) \subseteq Index
  BY <1>1, <1>2, Running
<1>4. PICK g : g = [f EXCEPT !.pc = "Done"]
  OBVIOUS
<1>5. Pointers' /\ Index' = Index /\ value' = value
  BY <1>1, SameValue
<1>6. PICK c : c = Frame(f.base + f.pivot + 1, f.length - f.pivot - 1)
  OBVIOUS
<1>7. stack' = Append([stack EXCEPT ![Len(stack)] = g], c)
  BY <1>2, <1>4, <1>6 DEF Upper, Call
<1>8. /\ g \in FrameType /\ g.pc = "Done" /\ g.base = f.base /\ g.length = f.length
      /\ g.pivot = f.pivot /\ g.i = f.i
      /\ f.base \in Nat /\ f.pivot \in Nat /\ f.length \in Nat
  BY <1>3, <1>4 DEF FrameType
<1>9. InOrder(value, LowerPart(f))
  BY <1>1, <1>2 DEF IInv, Returned, Given
<1>10. LowerPart(g) = LowerPart(f) /\ UpperPart(g) = UpperPart(f) /\ Part(g) = Part(f)
  BY <1>8 DEF LowerPart, UpperPart, Part
<1>11. FrameOK(value, g)
  BY <1>3, <1>8, <1>9, <1>10 DEF FrameOK, ApartIn
<1>12. FrameOK(value, c) /\ Part(c) = UpperPart(f) /\ c.pc = "Start"
  <2> DEFINE base == f.base + f.pivot + 1
             length == f.length - f.pivot - 1
  <2>1. base \in Nat /\ length \in Nat
    BY <1>3, <1>8 DEF FrameOK
  <2>2. base .. (base + length - 1) = UpperPart(f)
    <3>1. base + length - 1 = f.base + f.length - 1
      BY <1>8
    <3> QED
      BY <3>1 DEF UpperPart
  <2>3. UpperPart(f) \subseteq DOMAIN value
    BY <1>3, <1>8 DEF UpperPart, Part, value
  <2>4. c = Frame(base, length)
    BY <1>6
  <2> HIDE DEF base, length
  <2> QED
    BY <2>1, <2>2, <2>3, <2>4, NewFrame
<1>13. Part(c) = Given(g) /\ Within(g, c)
  <2>1. c.base = f.base + f.pivot + 1 /\ c.length = f.length - f.pivot - 1
    BY <1>6 DEF Frame
  <2>2. Within(g, c)
    BY <1>8, <2>1 DEF Within
  <2> QED
    BY <1>8, <1>10, <1>12, <2>2 DEF Given
<1>14. \A k \in 1 .. (Len(stack) - 1) : FrameOK(value', stack[k])
  BY <1>1, <1>5, Waiting
<1> QED
  BY <1>1, <1>2, <1>5, <1>7, <1>8, <1>10, <1>11, <1>12, <1>13, <1>14, CallStep

LEMMA StepInv == IInv /\ [Next]_vars => IInv'
<1> SUFFICES ASSUME IInv, [Next]_vars PROVE IInv'
  OBVIOUS
<1>1. CASE UNCHANGED vars
  <2>1. Pointers' /\ Index' = Index /\ value' = value /\ stack' = stack
    BY <1>1, SameValue DEF vars
  <2>2. Top' = Top
    BY <2>1 DEF Top
  <2> QED
    BY <2>1, <2>2 DEF IInv, Frames, Nested, Returned
<1> QED
  BY <1>1, SmallStep, BeginStep, PartitionStep, LowerStep, UpperStep, ReturnStep DEF Next

(* The frames of the calls under way, and the values in their parts, stay  *)
(* consistent with each other.                                             *)
THEOREM Inductive ==
  ASSUME MaxLengthAssumption, RankAssumption
  PROVE  Spec => []IInv
<1>1. Init => IInv
  BY InitInv
<1> QED
  BY <1>1, StepInv, PTL DEF Spec

(* alg::quicksort never looks outside the part that a call was given.      *)
THEOREM NeverOutside ==
  ASSUME MaxLengthAssumption, RankAssumption
  PROVE  Spec => []TypeOK
<1>1. IInv => TypeOK
  <2> SUFFICES ASSUME IInv, NEW k \in 1 .. Len(stack)
               PROVE  LET f == stack[k] IN
                        /\ f.base >= 0 /\ f.length >= 0
                        /\ f.length > 0 => (f.base + f.length - 1) \in Index
                        /\ f.i \in 0 .. f.length
                        /\ f.pc # "Start" => f.pivot \in 0 .. (f.length - 1) /\ f.pivot <= f.i
                        /\ f.pc \in {"Start", "Partition", "Upper", "Done"}
    BY DEF TypeOK, IInv, Pointers
  <2>1. PICK f : f = stack[k]
    OBVIOUS
  <2>2. FrameOK(value, f)
    BY <2>1 DEF IInv, Frames
  <2>3. f \in FrameType /\ Part(f) \subseteq Index
    BY <2>2 DEF FrameOK, value
  <2>4. f.length > 0 => f.base + f.length - 1 \in Part(f)
    BY <2>3 DEF FrameType, Part
  <2> QED
    BY <2>1, <2>2, <2>3, <2>4 DEF FrameOK, FrameType
<1> QED
  BY <1>1, Inductive, PTL

(* When the outermost call returns the array is sorted and holds the       *)
(* pointers it began with.                                                 *)
THEOREM Sorts ==
  ASSUME MaxLengthAssumption, RankAssumption
  PROVE  Spec => []SortedAtEnd
<1>1. IInv => SortedAtEnd
  BY DEF IInv, Returned, InOrder, value, Pointers, SortedAtEnd
<1> QED
  BY <1>1, Inductive, PTL

(* A call gets a part of its caller's without the pivot, so that there are *)
(* never more calls than entries.                                          *)
THEOREM PartsShrink ==
  ASSUME MaxLengthAssumption, RankAssumption
  PROVE  Spec => []CallsShrink
<1>1. IInv => CallsShrink
  <2> SUFFICES ASSUME IInv, NEW k \in 1 .. (Len(stack) - 1)
               PROVE  /\ Within(stack[k], stack[k + 1])
                      /\ stack[k].base + stack[k].pivot \notin Part(stack[k + 1])
    BY DEF CallsShrink, Within, Part
  <2>1. stack # <<>>
    BY EmptySeq
  <2>2. PICK f : f = stack[k]
    OBVIOUS
  <2>3. /\ FrameOK(value, f) /\ Part(stack[k + 1]) = Given(f)
        /\ Within(stack[k], stack[k + 1])
    BY <2>1, <2>2, Waiting
  <2>4. f.base \in Nat /\ f.length \in Nat /\ f.pivot \in Nat
    BY <2>3 DEF FrameOK, FrameType
  <2>5. f.base + f.pivot \notin LowerPart(f) /\ f.base + f.pivot \notin UpperPart(f)
    BY <2>4 DEF LowerPart, UpperPart
  <2> QED
    BY <2>2, <2>3, <2>5 DEF Given
<1> QED
  BY <1>1, Inductive, PTL

(* No inner call moves an entry across the pivot of an outer one.          *)
THEOREM NothingCrosses ==
  ASSUME MaxLengthAssumption, RankAssumption
  PROVE  Spec => []PartsStayApart
<1>1. IInv => PartsStayApart
  <2> SUFFICES ASSUME IInv, NEW k \in 1 .. Len(stack), stack[k].pc \in {"Upper", "Done"}
               PROVE  LET f == stack[k]
                          at == f.base + f.pivot
                      IN /\ \A a \in f.base .. (at - 1) : Less(array[a], array[at])
                         /\ \A a \in (at + 1) .. (f.base + f.length - 1) : ~Less(array[a], array[at])
    BY DEF PartsStayApart
  <2> DEFINE f == stack[k]
  <2>1. f.pc \in {"Upper", "Done"}
    OBVIOUS
  <2>2. FrameOK(value, f) /\ ApartIn(value, f) /\ f.pivot < f.length
    BY <2>1 DEF IInv, Frames, FrameOK
  <2> HIDE DEF f
  <2>3. Index \subseteq Nat /\ value \in [Index -> Int]
    BY DEF IInv, Pointers, value
  <2>4. Part(f) \subseteq Index /\ f.base \in Nat /\ f.length \in Nat /\ f.pivot \in Nat
    BY <2>2 DEF FrameOK, FrameType, value
  <2>5. /\ LowerPart(f) \subseteq Index /\ UpperPart(f) \subseteq Index
        /\ f.base + f.pivot \in Index
    <3>1. /\ LowerPart(f) \subseteq Part(f) /\ UpperPart(f) \subseteq Part(f)
          /\ f.base + f.pivot \in Part(f)
      BY <2>2, <2>4 DEF Part, LowerPart, UpperPart
    <3> QED
      BY <2>4, <3>1
  <2>6. \A a \in Index : value[a] = rank[array[a]] /\ value[a] \in Int
    BY <2>3 DEF value
  <2>7. \A a \in LowerPart(f) : Less(array[a], array[f.base + f.pivot])
    BY <2>2, <2>5, <2>6 DEF ApartIn, Less
  <2>8. \A a \in UpperPart(f) : ~Less(array[a], array[f.base + f.pivot])
    BY <2>2, <2>5, <2>6 DEF ApartIn, Less
  <2>9. /\ \A a \in f.base .. (f.base + f.pivot - 1) : Less(array[a], array[f.base + f.pivot])
        /\ \A a \in (f.base + f.pivot + 1) .. (f.base + f.length - 1) :
             ~Less(array[a], array[f.base + f.pivot])
    BY <2>7, <2>8 DEF LowerPart, UpperPart
  <2> QED
    BY <2>4, <2>9 DEF f
<1> QED
  BY <1>1, Inductive, PTL
=============================================================================
