---------------------------- MODULE VisionProofs ----------------------------
(***************************************************************************)
(* What the image functions promise, for images of every size.  The order: *)
(* the scan for keypoints (FastInv), the score of a pixel, the blur        *)
(* (BlurInv), the downsampling (DownsampleInv), the pyramid (PyramidInv)   *)
(* and the patches.  A recursive function of the model is taken as one     *)
(* that exists, by induction over a set of numbers, and is then known by   *)
(* its steps.                                                              *)
(***************************************************************************)
EXTENDS Vision, FiniteSetTheorems, WellFoundedInduction, TLAPS

(* Sets of numbers, for the inductions over rows and levels.               *)
LEMMA LeastElement ==
  ASSUME NEW S, S \subseteq Nat, S # {}
  PROVE  \E m \in S : \A n \in S : m <= n
<1> DEFINE Below(n) == 1 .. n
           T == {Below(n) : n \in S}
<1>1. IsWellFoundedOn(StrictSubsetOrdering(Nat), FiniteSubsetsOf(Nat))
  BY FS_StrictSubsetOrderingWellFounded
<1>2. T \subseteq FiniteSubsetsOf(Nat)
  BY FS_Interval DEF FiniteSubsetsOf
<1>3. T # {}
  OBVIOUS
<1> HIDE DEF T
<1>4. \E s \in T : \A t \in T : <<t, s>> \notin StrictSubsetOrdering(Nat)
  BY <1>1, <1>2, <1>3, WFMin, Zenon
<1> USE DEF T
<1>5. PICK m \in S : \A n \in S : <<Below(n), Below(m)>> \notin StrictSubsetOrdering(Nat)
  BY <1>4
<1>6. ASSUME NEW n \in S PROVE m <= n
  <2>1. SUFFICES ASSUME n < m PROVE FALSE
    OBVIOUS
  <2>2. Below(n) \subseteq Below(m) /\ Below(n) # Below(m)
    BY <2>1
  <2>3. <<Below(n), Below(m)>> \in StrictSubsetOrdering(Nat)
    BY <2>2 DEF StrictSubsetOrdering
  <2> QED
    BY <2>3, <1>5
<1> QED
  BY <1>6

LEMMA Induction ==
  ASSUME NEW S, 0 \in S, \A n \in Nat : n \in S => n + 1 \in S
  PROVE  Nat \subseteq S
<1> SUFFICES ASSUME Nat \ S # {} PROVE FALSE
  OBVIOUS
<1>1. PICK m \in Nat \ S : \A n \in Nat \ S : m <= n
  BY LeastElement
<1>2. m # 0 /\ m - 1 \in Nat
  OBVIOUS
<1>3. m - 1 \in S
  BY <1>1, <1>2
<1> QED
  BY <1>2, <1>3

-----------------------------------------------------------------------------
(* The elements that are kept, one by one. *)
KeptUpTo(f, positions, set, k) ==
  IF k = 0 THEN <<>>
  ELSE IF positions[k] \in set THEN Append(f[k - 1], positions[k])
  ELSE f[k - 1]

LEMMA KeptExists ==
  ASSUME NEW positions, NEW set, NEW n \in Nat
  PROVE  \E f : f = [k \in 0 .. n |-> KeptUpTo(f, positions, set, k)]
<1> DEFINE Solves(f, m) == f = [k \in 0 .. m |-> KeptUpTo(f, positions, set, k)]
           S == {m \in Nat : \E f : Solves(f, m)}
<1>1. 0 \in S
  <2>1. Solves([k \in 0 .. 0 |-> <<>>], 0)
    BY DEF KeptUpTo
  <2> HIDE DEF Solves
  <2> QED
    BY <2>1
<1>2. ASSUME NEW m \in Nat, m \in S
      PROVE  m + 1 \in S
  <2>1. PICK f : Solves(f, m)
    BY <1>2
  <2> DEFINE last == IF positions[m + 1] \in set THEN Append(f[m], positions[m + 1]) ELSE f[m]
             g == [k \in 0 .. (m + 1) |-> IF k = m + 1 THEN last ELSE f[k]]
  <2>2. ASSUME NEW k \in 0 .. (m + 1)
        PROVE  g[k] = KeptUpTo(g, positions, set, k)
    <3>1. CASE k = m + 1
      <4>1. k # 0 /\ k - 1 = m /\ m \in 0 .. (m + 1) /\ m # m + 1
        BY <3>1
      <4>2. g[k] = last /\ g[m] = f[m]
        BY <3>1, <4>1
      <4> HIDE DEF g
      <4> QED
        BY <3>1, <4>1, <4>2 DEF KeptUpTo
    <3>2. CASE k # m + 1
      <4>1. k \in 0 .. m /\ g[k] = f[k]
        BY <3>2
      <4>2. f[k] = KeptUpTo(f, positions, set, k)
        BY <2>1, <4>1
      <4>3. k # 0 => k - 1 \in 0 .. (m + 1) /\ g[k - 1] = f[k - 1]
        BY <4>1
      <4> HIDE DEF g
      <4> QED
        BY <4>1, <4>2, <4>3 DEF KeptUpTo
    <3> QED
      BY <3>1, <3>2
  <2>3. Solves(g, m + 1)
    BY <2>2
  <2> HIDE DEF Solves, g
  <2> QED
    BY <2>3
<1>3. n \in S
  <2> HIDE DEF S
  <2> QED
    BY <1>1, <1>2, Induction
<1> QED
  BY <1>3

LEMMA KeptOneByOne ==
  ASSUME NEW positions, Len(positions) \in Nat, NEW set
  PROVE  \E f : /\ f = [k \in 0 .. Len(positions) |-> KeptUpTo(f, positions, set, k)]
                /\ Kept(positions, set) = f[Len(positions)]
<1> DEFINE Solves(f) == f = [k \in 0 .. Len(positions) |-> KeptUpTo(f, positions, set, k)]
           F == CHOOSE f : Solves(f)
<1>1. \E f : Solves(f)
  BY KeptExists
<1>2. Kept(positions, set) = F[Len(positions)]
  BY DEF Kept, KeptUpTo
<1> HIDE DEF Solves
<1>3. Solves(F)
  BY <1>1
<1> HIDE DEF F
<1>4. F = [k \in 0 .. Len(positions) |-> KeptUpTo(F, positions, set, k)]
  BY <1>3 DEF Solves
<1> QED
  BY <1>2, <1>4

(* In a sequence of columns *)
Ascending(s) == \A k, l \in 1 .. Len(s) : k < l => s[k] < s[l]

Among(c, s) == \E k \in 1 .. Len(s) : s[k] = c

(* What is kept are the elements that are in the set, in their order.      *)
LEMMA KeptInOrder ==
  ASSUME NEW S, S \subseteq Int, NEW positions \in Seq(S), Ascending(positions), NEW set
  PROVE  /\ Kept(positions, set) \in Seq(S)
         /\ Ascending(Kept(positions, set))
         /\ \A c \in S : Among(c, Kept(positions, set)) <=> c \in set /\ Among(c, positions)
<1> DEFINE N == Len(positions)
<1>1. N \in Nat /\ \A k \in 1 .. N : positions[k] \in S
  OBVIOUS
<1>2. PICK f : /\ f = [k \in 0 .. N |-> KeptUpTo(f, positions, set, k)]
               /\ Kept(positions, set) = f[N]
  BY <1>1, KeptOneByOne
<1> HIDE DEF N
<1> DEFINE Good(n) ==
             /\ f[n] \in Seq(S)
             /\ Ascending(f[n])
             /\ \A c \in S : Among(c, f[n]) <=> c \in set /\ \E k \in 1 .. n : positions[k] = c
           G == {n \in Nat : n <= N => Good(n)}
<1>3. 0 \in G
  <2>1. f[0] = <<>>
    BY <1>1, <1>2 DEF KeptUpTo
  <2>2. <<>> \in Seq(S) /\ Len(<<>>) = 0 /\ 1 .. 0 = {}
    OBVIOUS
  <2>3. Ascending(<<>>) /\ \A c : ~Among(c, <<>>)
    BY <2>2 DEF Ascending, Among
  <2>4. Good(0)
    BY <2>1, <2>2, <2>3
  <2> HIDE DEF Good
  <2> QED
    BY <2>4
<1>4. ASSUME NEW n \in Nat, n \in G
      PROVE  n + 1 \in G
  <2> SUFFICES ASSUME n + 1 <= N PROVE Good(n + 1)
    OBVIOUS
  <2> DEFINE p == positions[n + 1]
  <2>1. Good(n)
    BY <1>1, <1>4
  <2>2. f[n + 1] = IF p \in set THEN Append(f[n], p) ELSE f[n]
    <3>1. n + 1 \in 0 .. N /\ n + 1 # 0 /\ (n + 1) - 1 = n
      BY <1>1
    <3>2. f[n + 1] = KeptUpTo(f, positions, set, n + 1)
      BY <1>2, <3>1
    <3> QED
      BY <3>1, <3>2 DEF KeptUpTo
  <2>3. p \in S /\ p \in Int /\ \A k \in 1 .. n : positions[k] < p
    <3>1. n + 1 \in 1 .. N /\ \A k \in 1 .. n : k \in 1 .. N /\ k < n + 1
      BY <1>1
    <3>2. \A k, l \in 1 .. N : k < l => positions[k] < positions[l]
      BY DEF Ascending, N
    <3> QED
      BY <1>1, <3>1, <3>2
  <2>4. \A c : (\E k \in 1 .. (n + 1) : positions[k] = c)
                 <=> (\E k \in 1 .. n : positions[k] = c) \/ c = p
    <3>1. 1 .. (n + 1) = 1 .. n \cup {n + 1}
      OBVIOUS
    <3> QED
      BY <3>1
  <2> HIDE DEF p
  <2>5. CASE p \notin set
    BY <2>1, <2>2, <2>4, <2>5
  <2>6. CASE p \in set
    <3> DEFINE t == f[n]
    <3>1. f[n + 1] = Append(t, p) /\ t \in Seq(S) /\ Ascending(t)
      BY <2>1, <2>2, <2>6
    <3>2. \A k \in 1 .. Len(t) : t[k] < p
      <4> SUFFICES ASSUME NEW k \in 1 .. Len(t) PROVE t[k] < p
        OBVIOUS
      <4>1. t[k] \in S /\ Among(t[k], t)
        BY <3>1 DEF Among
      <4> QED
        BY <2>1, <2>3, <4>1
    <3>3. \A c \in S : Among(c, t) <=> c \in set /\ \E k \in 1 .. n : positions[k] = c
      BY <2>1
    <3> HIDE DEF t
    <3>4. /\ Append(t, p) \in Seq(S) /\ Len(Append(t, p)) = Len(t) + 1 /\ Len(t) \in Nat
          /\ Append(t, p)[Len(t) + 1] = p
          /\ \A k \in 1 .. Len(t) : Append(t, p)[k] = t[k] /\ t[k] \in Int
      <4>1. Len(t) \in Nat /\ \A k \in 1 .. Len(t) : t[k] \in S
        BY <3>1
      <4>2. /\ Append(t, p) \in Seq(S) /\ Len(Append(t, p)) = Len(t) + 1
            /\ \A k \in 1 .. Len(t) : Append(t, p)[k] = t[k]
        BY <2>3, <3>1
      <4>3. Append(t, p)[Len(t) + 1] = p
        BY <2>3, <3>1, <4>1
      <4> QED
        BY <4>1, <4>2, <4>3
    <3>5. Ascending(Append(t, p))
      BY <2>3, <3>1, <3>2, <3>4 DEF Ascending
    <3>6. \A c : Among(c, Append(t, p)) <=> Among(c, t) \/ c = p
      <4>1. 1 .. (Len(t) + 1) = 1 .. Len(t) \cup {Len(t) + 1}
        BY <3>4
      <4> QED
        BY <3>4, <4>1 DEF Among
    <3> QED
      BY <2>3, <2>4, <2>6, <3>1, <3>3, <3>4, <3>5, <3>6
  <2> QED
    BY <2>5, <2>6
<1>5. N \in G
  <2> HIDE DEF G
  <2> QED
    BY <1>1, <1>3, <1>4, Induction
<1>6. Good(N)
  BY <1>1, <1>5
<1> QED
  BY <1>2, <1>6 DEF Among, N

AllBelow(S, s, t) == \A c, d \in S : Among(c, s) /\ Among(d, t) => c < d

LEMMA AscendingConcat ==
  ASSUME NEW S, S \subseteq Int, NEW s \in Seq(S), NEW t \in Seq(S), Ascending(s), Ascending(t),
         AllBelow(S, s, t)
  PROVE  /\ s \o t \in Seq(S) /\ Ascending(s \o t)
         /\ \A c : Among(c, s \o t) <=> Among(c, s) \/ Among(c, t)
<1>1. /\ s \o t \in Seq(S) /\ Len(s \o t) = Len(s) + Len(t) /\ Len(s) \in Nat /\ Len(t) \in Nat
      /\ \A k \in 1 .. Len(s) : (s \o t)[k] = s[k] /\ s[k] \in S
      /\ \A k \in 1 .. Len(t) : t[k] \in S
  OBVIOUS
<1>2. \A k \in 1 .. Len(t) : (s \o t)[Len(s) + k] = t[k]
  BY <1>1
<1>3. ASSUME NEW k \in (Len(s) + 1) .. Len(s \o t)
      PROVE  k - Len(s) \in 1 .. Len(t) /\ (s \o t)[k] = t[k - Len(s)]
  <2>1. k - Len(s) \in 1 .. Len(t) /\ k = Len(s) + (k - Len(s))
    BY <1>1
  <2> QED
    BY <1>2, <2>1
<1>4. Ascending(s \o t)
  <2> SUFFICES ASSUME NEW k \in 1 .. Len(s \o t), NEW l \in 1 .. Len(s \o t), k < l
               PROVE  (s \o t)[k] < (s \o t)[l]
    BY DEF Ascending
  <2>1. CASE l <= Len(s)
    <3>1. k \in 1 .. Len(s) /\ l \in 1 .. Len(s)
      BY <1>1, <2>1
    <3> QED
      BY <1>1, <3>1 DEF Ascending
  <2>2. CASE k > Len(s)
    <3>1. k \in (Len(s) + 1) .. Len(s \o t) /\ l \in (Len(s) + 1) .. Len(s \o t)
      BY <1>1, <2>2
    <3>2. k - Len(s) < l - Len(s)
      BY <1>1
    <3> QED
      BY <1>3, <3>1, <3>2 DEF Ascending
  <2>3. CASE k <= Len(s) /\ l > Len(s)
    <3>1. k \in 1 .. Len(s) /\ l \in (Len(s) + 1) .. Len(s \o t)
      BY <1>1, <2>3
    <3>2. Among(s[k], s) /\ Among(t[l - Len(s)], t)
      BY <1>3, <3>1 DEF Among
    <3> QED
      BY <1>1, <1>3, <3>1, <3>2 DEF AllBelow
  <2> QED
    BY <1>1, <2>1, <2>2, <2>3
<1>5. ASSUME NEW c
      PROVE  Among(c, s \o t) <=> Among(c, s) \/ Among(c, t)
  <2>1. ASSUME Among(c, s) PROVE Among(c, s \o t)
    <3>1. PICK k \in 1 .. Len(s) : s[k] = c
      BY <2>1 DEF Among
    <3>2. k \in 1 .. Len(s \o t)
      BY <1>1
    <3> QED
      BY <1>1, <3>1, <3>2 DEF Among
  <2>2. ASSUME Among(c, t) PROVE Among(c, s \o t)
    <3>1. PICK k \in 1 .. Len(t) : t[k] = c
      BY <2>2 DEF Among
    <3>2. Len(s) + k \in 1 .. Len(s \o t)
      BY <1>1
    <3> QED
      BY <1>2, <3>1, <3>2 DEF Among
  <2>3. ASSUME Among(c, s \o t) PROVE Among(c, s) \/ Among(c, t)
    <3>1. PICK k \in 1 .. Len(s \o t) : (s \o t)[k] = c
      BY <2>3 DEF Among
    <3>2. CASE k \in 1 .. Len(s)
      BY <1>1, <3>1, <3>2 DEF Among
    <3>3. CASE k \in (Len(s) + 1) .. Len(s \o t)
      BY <1>3, <3>1, <3>3 DEF Among
    <3> QED
      BY <1>1, <3>2, <3>3
  <2> QED
    BY <2>1, <2>2, <2>3
<1> QED
  BY <1>1, <1>4, <1>5

-----------------------------------------------------------------------------
(* The ring holds the scores of the last two rows in all the columns that  *)
(* are examined, and of the row that is scanned as far as it has been; the *)
(* columns it may hold more of are stale.  The positions are those of the  *)
(* corners of these rows, from left to right.                              *)
FastType ==
  /\ image \in [ImageRow -> RowImage]
  /\ pc \in {"Scan", "Done", "Full"}
  /\ j \in 3 .. (Height - 2) /\ (pc = "Scan" => j < Height - 2)
  /\ i \in 3 .. (Width - 4)
  /\ row_scores \in [Ring -> [Column -> Score]]
  /\ row_corner_positions \in [Ring -> Seq(ImageColumn)]
  /\ out_keypoints \in Seq(ImageColumn \X ImageRow)
  /\ Len(out_keypoints) <= MaxKeypoints

Examined == 0 .. (Width - 8)

LeftIsZero == \A r \in Ring, c \in 0 .. 2 : row_scores[r][c] = 0

RowsAbove ==
  \A r \in {j - 2, j - 1}, c \in Examined : row_scores[Slot(r)][c] = ScoreAt(c, r)

ThisRow ==
  j < Height - 3 =>
    /\ \A c \in 0 .. (i - 1) : row_scores[Slot(j)][c] = ScoreAt(c, j)
    /\ Ascending(row_corner_positions[Slot(j)])
    /\ \A c \in ImageColumn :
         Among(c, row_corner_positions[Slot(j)]) <=> c < i /\ ScoreAt(c, j) > 0

RowBefore ==
  j > 3 =>
    /\ Ascending(row_corner_positions[Slot(j - 1)])
    /\ \A c \in ImageColumn : Among(c, row_corner_positions[Slot(j - 1)]) =>
         ScoreAt(c, j - 1) > 0 /\ row_scores[Slot(j - 1)][c] = ScoreAt(c, j - 1)
    /\ \A c \in AlwaysExamined :
         ScoreAt(c, j - 1) > 0 => Among(c, row_corner_positions[Slot(j - 1)])

KeypointsAbove == \A k \in DOMAIN out_keypoints : out_keypoints[k][2] < j - 1

FastInv ==
  /\ FastType /\ LeftIsZero
  /\ pc = "Scan" => RowsAbove /\ ThisRow /\ RowBefore /\ KeypointsAbove
  /\ KeypointsAreHighest /\ HighestIsKeypoint /\ RasterOrder

LEMMA Slots ==
  ASSUME NEW r \in Int
  PROVE  /\ Slot(r) \in Ring /\ Slot(r + 1) \in Ring /\ Slot(r - 1) \in Ring /\ Slot(r - 2) \in Ring
         /\ Slot(r - 2) = Slot(r + 1)
         /\ Slot(r + 1) # Slot(r) /\ Slot(r + 1) # Slot(r - 1) /\ Slot(r) # Slot(r - 1)
  BY Z3 DEF Slot, Ring

LEMMA PixelType ==
  ASSUME FastType, NEW r \in ImageRow, NEW c \in ImageColumn
  PROVE  /\ image[r][c].score \in Nat /\ image[r][c].score \in Score
         /\ image[r][c].score > 0 => image[r][c].vertical /\ image[r][c].horizontal
<1>1. image[r] \in RowImage
  BY DEF FastType
<1>2. image[r] \in [ImageColumn -> Pixel]
  BY <1>1, RowAssumption
<1>3. image[r][c] \in Pixel
  BY <1>2
<1>4. MaxScore \in Nat
  BY SizeAssumption
<1> QED
  BY <1>3, <1>4 DEF Pixel, Score

LEMMA ScoreType ==
  ASSUME FastType, NEW r, NEW c
  PROVE  ScoreAt(c, r) \in Nat /\ ScoreAt(c, r) \in Score
<1>1. MaxScore \in Nat /\ 0 \in Score
  BY SizeAssumption DEF Score
<1> QED
  BY <1>1, PixelType DEF ScoreAt

LEMMA FastInit ==
  ASSUME Init
  PROVE  FastInv
<1>1. /\ Width \in Nat /\ Width >= 7 /\ Height \in Nat /\ Height >= 7 /\ MaxScore \in Nat
      /\ MaxKeypoints \in Nat
  BY SizeAssumption
<1>2. 0 \in Score
  BY <1>1 DEF Score
<1>3. FastType
  <2>1. row_scores \in [Ring -> [Column -> Score]]
    BY <1>2 DEF Init
  <2>2. <<>> \in Seq(ImageColumn) /\ <<>> \in Seq(ImageColumn \X ImageRow) /\ Len(<<>>) = 0
    OBVIOUS
  <2> QED
    BY <1>1, <2>1, <2>2 DEF Init, FastType
<1>4. /\ j = 3 /\ i = 3 /\ pc = "Scan" /\ 1 .. Len(<<>>) = {} /\ DOMAIN out_keypoints = {}
      /\ \A r \in Ring : row_corner_positions[r] = <<>>
      /\ \A r \in Ring, c \in Column : row_scores[r][c] = 0
  BY DEF Init
<1>5. LeftIsZero
  BY <1>1, <1>4 DEF LeftIsZero, Column
<1>6. RowsAbove
  <2> SUFFICES ASSUME NEW r \in {j - 2, j - 1}, NEW c \in Examined
               PROVE  row_scores[Slot(r)][c] = ScoreAt(c, r)
    BY DEF RowsAbove
  <2>1. r \in Int /\ r < 3
    BY <1>4
  <2>2. Slot(r) \in Ring /\ c \in Column
    BY <1>1, <2>1, Slots DEF Examined, Column
  <2>3. r \notin ImageRow
    BY <2>1, <1>1 DEF ImageRow
  <2> QED
    BY <1>4, <2>2, <2>3 DEF ScoreAt
<1>7. ThisRow
  <2>1. Slot(j) \in Ring
    BY <1>4, Slots
  <2>2. ASSUME NEW c \in 0 .. (i - 1) PROVE row_scores[Slot(j)][c] = ScoreAt(c, j)
    <3>1. c \in Column /\ c \notin ImageColumn
      BY <1>1, <1>4 DEF Column, ImageColumn
    <3> QED
      BY <1>4, <2>1, <3>1 DEF ScoreAt
  <2>3. ASSUME NEW c \in ImageColumn PROVE ~(c < i) /\ ~Among(c, <<>>)
    BY <1>1, <1>4 DEF ImageColumn, Among
  <2>4. Ascending(<<>>)
    BY <1>4 DEF Ascending
  <2> QED
    BY <1>4, <2>1, <2>2, <2>3, <2>4 DEF ThisRow
<1>8. RowBefore /\ KeypointsAbove
  BY <1>4 DEF RowBefore, KeypointsAbove
<1>9. KeypointsAreHighest /\ RasterOrder
  BY <1>4 DEF KeypointsAreHighest, RasterOrder
<1>10. HighestIsKeypoint
  <2>1. ASSUME NEW r \in ImageRow, NEW c PROVE ~Suppressed(c, r)
    BY <1>1, <1>4 DEF Suppressed, ImageRow
  <2> QED
    BY <2>1 DEF HighestIsKeypoint
<1> QED
  BY <1>3, <1>5, <1>6, <1>7, <1>8, <1>9, <1>10 DEF FastInv


LEMMA KeypointsStay ==
  ASSUME KeypointsAreHighest, HighestIsKeypoint, RasterOrder, KeypointsAbove,
         UNCHANGED <<image, pc, j, out_keypoints>>
  PROVE  KeypointsAreHighest' /\ HighestIsKeypoint' /\ RasterOrder' /\ KeypointsAbove'
<1>1. \A c, r : /\ ScoreAt(c, r)' = ScoreAt(c, r) /\ (Suppressed(c, r)' <=> Suppressed(c, r))
                /\ (IsKeypoint(c, r)' <=> IsKeypoint(c, r))
  BY DEF ScoreAt, Suppressed, IsKeypoint
<1>2. KeypointsAreHighest'
  BY <1>1 DEF KeypointsAreHighest
<1>3. HighestIsKeypoint'
  BY <1>1 DEF HighestIsKeypoint, HighestInGrid
<1>4. RasterOrder' /\ KeypointsAbove'
  BY DEF RasterOrder, KeypointsAbove
<1> QED
  BY <1>2, <1>3, <1>4

(* A group lies inside of the row, and so does what follows it.            *)
LEMMA GroupInRow ==
  ASSUME FastType, pc = "Scan", MoreGroups
  PROVE  /\ j \in ImageRow /\ j < Height - 3 /\ j \in Int
         /\ i \in Nat /\ i >= 3 /\ i + 4 <= Width - 4 /\ Width \in Nat
         /\ Slot(j) \in Ring
         /\ i .. (i + 3) \subseteq ImageColumn /\ i .. (i + 3) \subseteq Column
<1>1. Width \in Nat /\ Height \in Nat
  BY SizeAssumption
<1>2. /\ j \in Int /\ j >= 3 /\ j < Height - 3 /\ i \in Nat /\ i >= 3 /\ i < Width - 7
  BY <1>1 DEF FastType, MoreGroups
<1> QED
  BY <1>1, <1>2, Slots DEF ImageRow, ImageColumn, Column

(* What the groups of a row leave alone. *)
LEMMA RowsStay ==
  ASSUME FastInv, pc = "Scan", MoreGroups, UNCHANGED <<image, pc, j, out_keypoints>>,
         \A r \in Ring : r # Slot(j) =>
           row_scores'[r] = row_scores[r] /\ row_corner_positions'[r] = row_corner_positions[r]
  PROVE  /\ RowsAbove' /\ RowBefore' /\ KeypointsAbove'
         /\ KeypointsAreHighest' /\ HighestIsKeypoint' /\ RasterOrder'
<1>1. \A c, r : ScoreAt(c, r)' = ScoreAt(c, r)
  BY DEF ScoreAt
<1>2. j \in Int
  BY DEF FastInv, FastType
<1>3. /\ Slot(j - 1) \in Ring /\ Slot(j - 1) # Slot(j) /\ Slot(j - 2) \in Ring
         /\ Slot(j - 2) # Slot(j)
  BY <1>2, Slots
<1>4. RowsAbove'
  BY <1>1, <1>3 DEF FastInv, RowsAbove, Slot
<1>5. RowBefore'
  BY <1>1, <1>3 DEF FastInv, RowBefore, Slot
<1>6. KeypointsAbove' /\ KeypointsAreHighest' /\ HighestIsKeypoint' /\ RasterOrder'
  BY KeypointsStay DEF FastInv
<1> QED
  BY <1>4, <1>5, <1>6

(* No pixel that is left behind is a corner. *)
LEMMA SkippedAreNone ==
  ASSUME FastType, pc = "Scan", MoreGroups, NEW n \in 1 .. 4, Skipped(n),
         NEW c \in i .. (i + n - 1)
  PROVE  ScoreAt(c, j) = 0
<1>1. /\ j \in ImageRow /\ i \in Nat /\ i .. (i + 3) \subseteq ImageColumn
  BY GroupInRow
<1>2. PICK k \in 0 .. 3 : c = i + k /\ k < n
  <2>1. c - i \in 0 .. 3 /\ c = i + (c - i) /\ c - i < n
    BY <1>1
  <2> QED
    BY <2>1
<1>3. c \in ImageColumn
  BY <1>1, <1>2
<1>4. k \notin n .. 3
  BY <1>2
<1>5. k \notin Vertical \/ k \notin Horizontal
  BY <1>4 DEF Skipped, StartsAt
<1>6. ~image[j][i + k].vertical \/ ~image[j][i + k].horizontal
  BY <1>5 DEF Vertical, Horizontal
<1>7. image[j][c].score = 0
  BY <1>1, <1>2, <1>3, <1>6, PixelType
<1> QED
  BY <1>1, <1>3, <1>7 DEF ScoreAt

LEMMA FastSkip ==
  ASSUME FastInv, SkipGroup
  PROVE  FastInv'
<1>1. pc = "Scan" /\ MoreGroups /\ FastType
  BY DEF SkipGroup, FastInv
<1>2. /\ j \in ImageRow /\ j < Height - 3 /\ j \in Int /\ i \in Nat /\ i >= 3 /\ i + 4 <= Width - 4
      /\ Width \in Nat /\ Slot(j) \in Ring
      /\ i .. (i + 3) \subseteq ImageColumn /\ i .. (i + 3) \subseteq Column
  BY <1>1, GroupInRow
<1>3. PICK n \in 1 .. 4 : Skipped(n) /\ i' = i + n
  BY DEF SkipGroup
<1>4. /\ UNCHANGED <<image, pc, j, row_corner_positions, out_keypoints>>
      /\ row_scores' = [row_scores EXCEPT ![Slot(j)] = Cleared(row_scores[Slot(j)])]
  BY DEF SkipGroup
<1>5. row_scores[Slot(j)] \in [Column -> Score] /\ 0 \in Score
  BY <1>1, <1>2, SizeAssumption DEF FastType, Score
<1>6. /\ row_scores'[Slot(j)] = Cleared(row_scores[Slot(j)])
      /\ \A r \in Ring : r # Slot(j) => row_scores'[r] = row_scores[r]
  BY <1>1, <1>2, <1>4 DEF FastType
<1>7. Cleared(row_scores[Slot(j)]) \in [Column -> Score]
  BY <1>5 DEF Cleared
<1>8. FastType'
  <2>1. i' \in 3 .. (Width - 4)
    BY <1>2, <1>3
  <2>2. row_scores' \in [Ring -> [Column -> Score]]
    BY <1>1, <1>4, <1>7 DEF FastType
  <2> QED
    BY <1>1, <1>4, <2>1, <2>2 DEF FastType
<1>9. LeftIsZero'
  <2>1. \A c \in 0 .. 2 : c \in Column /\ c \notin i .. (i + 3)
    BY <1>2 DEF Column
  <2>2. \A c \in 0 .. 2 : Cleared(row_scores[Slot(j)])[c] = 0
    BY <1>2, <2>1 DEF Cleared, FastInv, LeftIsZero
  <2> QED
    BY <1>6, <2>2 DEF FastInv, LeftIsZero
<1>10. RowsAbove' /\ RowBefore' /\ KeypointsAbove' /\ KeypointsAreHighest' /\ HighestIsKeypoint'
       /\ RasterOrder'
  BY <1>1, <1>4, <1>6, RowsStay
<1>11. ThisRow'
  <2>1. \A c, r : ScoreAt(c, r)' = ScoreAt(c, r)
    BY <1>4 DEF ScoreAt
  <2>2. ASSUME NEW c \in 0 .. (i' - 1)
        PROVE  row_scores'[Slot(j)][c] = ScoreAt(c, j)
    <3>1. c \in Column
      BY <1>2, <1>3 DEF Column
    <3>2. CASE c < i
      <4>1. c \notin i .. (i + 3) /\ c \in 0 .. (i - 1)
        BY <1>2, <3>2
      <4> QED
        BY <1>1, <1>2, <1>6, <3>1, <4>1 DEF Cleared, FastInv, ThisRow
    <3>3. CASE c >= i
      <4>1. c \in i .. (i + n - 1) /\ c \in i .. (i + 3)
        BY <1>2, <1>3, <3>3
      <4>2. ScoreAt(c, j) = 0
        BY <1>1, <1>3, <4>1, SkippedAreNone
      <4> QED
        BY <1>6, <3>1, <4>1, <4>2 DEF Cleared
    <3> QED
      BY <1>2, <3>2, <3>3
  <2>3. ASSUME NEW c \in ImageColumn
        PROVE  c < i /\ ScoreAt(c, j) > 0 <=> c < i' /\ ScoreAt(c, j) > 0
    <3>1. CASE c \in i .. (i + n - 1)
      <4>1. ScoreAt(c, j) = 0
        BY <1>1, <1>3, <3>1, SkippedAreNone
      <4> QED
        BY <4>1
    <3>2. CASE c \notin i .. (i + n - 1)
      BY <1>2, <1>3, <3>2 DEF ImageColumn
    <3> QED
      BY <3>1, <3>2
  <2>4. /\ Ascending(row_corner_positions[Slot(j)])
        /\ \A c \in ImageColumn :
             Among(c, row_corner_positions[Slot(j)]) <=> c < i' /\ ScoreAt(c, j) > 0
    BY <1>1, <1>2, <2>3 DEF FastInv, ThisRow
  <2>5. Slot(j)' = Slot(j)
    BY <1>4 DEF Slot
  <2> QED
    BY <1>4, <2>1, <2>2, <2>4, <2>5 DEF ThisRow
<1> QED
  BY <1>4, <1>8, <1>9, <1>10, <1>11 DEF FastInv

(* The four columns of a group that have a score, from left to right.      *)
LEMMA CornersOfGroup ==
  ASSUME FastType, pc = "Scan", MoreGroups
  PROVE  /\ Corners \in Seq(ImageColumn) /\ Ascending(Corners)
         /\ \A c \in ImageColumn : Among(c, Corners) <=> c \in i .. (i + 3) /\ ScoreAt(c, j) > 0
<1> DEFINE group == <<i, i + 1, i + 2, i + 3>>
           scored == {c \in ImageColumn : image[j][c].score # 0}
<1>1. /\ j \in ImageRow /\ i \in Nat /\ i .. (i + 3) \subseteq ImageColumn
  BY GroupInRow
<1>2. ImageColumn \subseteq Int
  BY SizeAssumption DEF ImageColumn
<1>3. i \in ImageColumn /\ i + 1 \in ImageColumn /\ i + 2 \in ImageColumn /\ i + 3 \in ImageColumn
  BY <1>1
<1>4. group \in Seq(ImageColumn) /\ Len(group) = 4
  BY <1>3
<1>5. \A k \in 1 .. 4 : group[k] = i + k - 1
  <2>1. group[1] = i /\ group[2] = i + 1 /\ group[3] = i + 2 /\ group[4] = i + 3
    OBVIOUS
  <2> HIDE DEF group
  <2> QED
    BY <1>1, <2>1
<1>6. \A c : Among(c, group) <=> c \in i .. (i + 3)
  <2> HIDE DEF group
  <2>1. \A c \in i .. (i + 3) : c - i + 1 \in 1 .. 4 /\ i + (c - i + 1) - 1 = c
    BY <1>1
  <2>2. \A k \in 1 .. 4 : i + k - 1 \in i .. (i + 3)
    BY <1>1
  <2> QED
    BY <1>4, <1>5, <2>1, <2>2 DEF Among
<1>7. Ascending(group)
  <2> HIDE DEF group
  <2> QED
    BY <1>1, <1>4, <1>5 DEF Ascending
<1>8. Corners = Kept(group, scored)
  BY DEF Corners
<1>9. \A c \in ImageColumn : c \in scored <=> ScoreAt(c, j) > 0
  BY <1>1, PixelType DEF ScoreAt
<1> HIDE DEF group, scored
<1>10. /\ Corners \in Seq(ImageColumn) /\ Ascending(Corners)
       /\ \A c \in ImageColumn : Among(c, Corners) <=> c \in scored /\ Among(c, group)
  BY <1>2, <1>4, <1>7, <1>8, KeptInOrder
<1> QED
  BY <1>6, <1>9, <1>10

LEMMA FastEvaluate ==
  ASSUME FastInv, EvaluateGroup
  PROVE  FastInv'
<1> DEFINE scores == [c \in Column |-> IF c \in i .. (i + 3) THEN image[j][c].score
                                       ELSE row_scores[Slot(j)][c]]
           before == row_corner_positions[Slot(j)]
<1>1. pc = "Scan" /\ MoreGroups /\ FastType
  BY DEF EvaluateGroup, FastInv
<1>2. /\ j \in ImageRow /\ j < Height - 3 /\ j \in Int /\ i \in Nat /\ i >= 3 /\ i + 4 <= Width - 4
      /\ Width \in Nat /\ Slot(j) \in Ring
      /\ i .. (i + 3) \subseteq ImageColumn /\ i .. (i + 3) \subseteq Column
  BY <1>1, GroupInRow
<1>3. /\ UNCHANGED <<image, pc, j, out_keypoints>> /\ i' = i + 4
      /\ row_scores' = [row_scores EXCEPT ![Slot(j)] = scores]
      /\ row_corner_positions' = [row_corner_positions EXCEPT ![Slot(j)] = before \o Corners]
  BY DEF EvaluateGroup
<1>4. \A c \in i .. (i + 3) : image[j][c].score \in Score /\ image[j][c].score = ScoreAt(c, j)
  BY <1>1, <1>2, PixelType DEF ScoreAt
<1>5. scores \in [Column -> Score]
  BY <1>1, <1>2, <1>4 DEF FastType
<1>6. /\ Corners \in Seq(ImageColumn) /\ Ascending(Corners)
      /\ \A c \in ImageColumn : Among(c, Corners) <=> c \in i .. (i + 3) /\ ScoreAt(c, j) > 0
  BY <1>1, CornersOfGroup
<1>7. /\ before \in Seq(ImageColumn) /\ Ascending(before)
      /\ \A c \in ImageColumn : Among(c, before) <=> c < i /\ ScoreAt(c, j) > 0
  BY <1>1, <1>2 DEF FastType, FastInv, ThisRow
<1>8. /\ before \o Corners \in Seq(ImageColumn) /\ Ascending(before \o Corners)
      /\ \A c : Among(c, before \o Corners) <=> Among(c, before) \/ Among(c, Corners)
  <2>1. ImageColumn \subseteq Int
    BY <1>2 DEF ImageColumn
  <2>2. AllBelow(ImageColumn, before, Corners)
    BY <1>2, <1>6, <1>7, <2>1 DEF AllBelow
  <2> HIDE DEF before
  <2>3. /\ ImageColumn \subseteq Int /\ before \in Seq(ImageColumn) /\ Corners \in Seq(ImageColumn)
        /\ Ascending(before) /\ Ascending(Corners)
    BY <1>6, <1>7, <2>1
  <2> QED
    BY <2>2, <2>3, AscendingConcat
<1>9. /\ row_scores'[Slot(j)] = scores /\ row_corner_positions'[Slot(j)] = before \o Corners
      /\ \A r \in Ring : r # Slot(j) =>
           row_scores'[r] = row_scores[r] /\ row_corner_positions'[r] = row_corner_positions[r]
  BY <1>1, <1>2, <1>3 DEF FastType
<1>10. FastType'
  <2>1. i' \in 3 .. (Width - 4)
    BY <1>2, <1>3
  <2>2. row_scores' \in [Ring -> [Column -> Score]]
    BY <1>1, <1>3, <1>5 DEF FastType
  <2>3. row_corner_positions' \in [Ring -> Seq(ImageColumn)]
    BY <1>1, <1>3, <1>8 DEF FastType
  <2> QED
    BY <1>1, <1>3, <2>1, <2>2, <2>3 DEF FastType
<1>11. LeftIsZero'
  <2>1. \A c \in 0 .. 2 : c \in Column /\ c \notin i .. (i + 3)
    BY <1>2 DEF Column
  <2>2. \A c \in 0 .. 2 : scores[c] = 0
    BY <1>2, <2>1 DEF FastInv, LeftIsZero
  <2> QED
    BY <1>9, <2>2 DEF FastInv, LeftIsZero
<1>12. RowsAbove' /\ RowBefore' /\ KeypointsAbove' /\ KeypointsAreHighest' /\ HighestIsKeypoint'
       /\ RasterOrder'
  BY <1>1, <1>3, <1>9, RowsStay
<1>13. ThisRow'
  <2>1. \A c, r : ScoreAt(c, r)' = ScoreAt(c, r)
    BY <1>3 DEF ScoreAt
  <2>2. ASSUME NEW c \in 0 .. (i' - 1)
        PROVE  scores[c] = ScoreAt(c, j)
    <3>1. c \in Column
      BY <1>2, <1>3 DEF Column
    <3>2. CASE c < i
      <4>1. c \notin i .. (i + 3) /\ c \in 0 .. (i - 1)
        BY <1>2, <3>2
      <4> QED
        BY <1>1, <1>2, <3>1, <4>1 DEF FastInv, ThisRow
    <3>3. CASE c >= i
      <4>1. c \in i .. (i + 3)
        BY <1>2, <1>3, <3>3
      <4> QED
        BY <1>4, <3>1, <4>1
    <3> QED
      BY <1>2, <3>2, <3>3
  <2>3. ASSUME NEW c \in ImageColumn
        PROVE  Among(c, before \o Corners) <=> c < i' /\ ScoreAt(c, j) > 0
    <3>1. c < i' <=> c < i \/ c \in i .. (i + 3)
      BY <1>2, <1>3 DEF ImageColumn
    <3> QED
      BY <1>6, <1>7, <1>8, <3>1
  <2>4. Slot(j)' = Slot(j)
    BY <1>3 DEF Slot
  <2> HIDE DEF scores, before
  <2> QED
    BY <1>3, <1>8, <1>9, <2>1, <2>2, <2>3, <2>4 DEF ThisRow
<1> QED
  BY <1>3, <1>10, <1>11, <1>12, <1>13 DEF FastInv

(* What a row that is scanned to its end holds: in the columns examined in *)
(* any case, the scores of the image.                                      *)
LEMMA RowIsScanned ==
  ASSUME FastInv, pc = "Scan", ~MoreGroups
  PROVE  /\ Width \in Nat /\ Width >= 7 /\ Height \in Nat /\ Height >= 7
         /\ j \in Int /\ j >= 3 /\ j < Height - 2 /\ i \in Int /\ i >= 3
         /\ j < Height - 3 => i >= Width - 7
         /\ j < Height - 3 => \A c \in Examined : row_scores[Slot(j)][c] = ScoreAt(c, j)
         /\ j >= Height - 3 => \A c : ScoreAt(c, j) = 0
<1>1. Width \in Nat /\ Width >= 7 /\ Height \in Nat /\ Height >= 7
  BY SizeAssumption
<1>2. /\ j \in Int /\ j >= 3 /\ j < Height - 2 /\ i \in Int /\ i >= 3
      /\ j < Height - 3 => i >= Width - 7
  BY <1>1 DEF FastInv, FastType, MoreGroups
<1>3. ASSUME j < Height - 3
      PROVE  \A c \in Examined : row_scores[Slot(j)][c] = ScoreAt(c, j)
  <2>1. \A c \in Examined : c \in 0 .. (i - 1)
    BY <1>1, <1>2, <1>3 DEF Examined
  <2> QED
    BY <1>3, <2>1 DEF FastInv, ThisRow
<1>4. ASSUME j >= Height - 3
      PROVE  \A c : ScoreAt(c, j) = 0
  <2>1. j \notin ImageRow
    BY <1>1, <1>2, <1>4 DEF ImageRow
  <2> QED
    BY <2>1 DEF ScoreAt
<1> QED
  BY <1>1, <1>2, <1>3, <1>4

(* What is found in the row above it: the columns P, which are corners     *)
(* there, and every column that must be found.                             *)
FoundAt(P) ==
  /\ P \in Seq(ImageColumn) /\ Ascending(P)
  /\ j = 3 => Len(P) = 0
  /\ \A c : Among(c, P) =>
       /\ ScoreAt(c, j - 1) > 0
       /\ \A d \in Neighbour :
            c + d[1] \in AlwaysExamined => ScoreAt(c, j - 1) > ScoreAt(c + d[1], j - 1 + d[2])
  /\ \A c \in AlwaysExamined \ {Width - 8} :
       j > 3 /\ j - 1 # Height - 4 /\ HighestInGrid(c, j - 1) => Among(c, P)

(* The neighbours of a pixel, in the ring of rows. *)
LEMMA NeighbourScores ==
  ASSUME FastInv, pc = "Scan", ~MoreGroups, NEW d \in Neighbour, NEW c \in Examined
  PROVE  /\ j < Height - 3 \/ d[2] # 1
            => row_scores[Slot(j - 1 + d[2])][c] = ScoreAt(c, j - 1 + d[2])
         /\ j >= Height - 3 /\ d[2] = 1 => ScoreAt(c, j - 1 + d[2]) = 0
<1>1. /\ j \in Int
      /\ j < Height - 3 => row_scores[Slot(j)][c] = ScoreAt(c, j)
      /\ j >= Height - 3 => ScoreAt(c, j) = 0
  BY RowIsScanned
<1>2. d[2] \in {-1, 0, 1}
  BY DEF Neighbour
<1>3. CASE d[2] = -1
  <2>1. j - 1 + d[2] = j - 2
    BY <1>1, <1>3
  <2> QED
    BY <1>3, <2>1 DEF FastInv, RowsAbove
<1>4. CASE d[2] = 0
  <2>1. j - 1 + d[2] = j - 1
    BY <1>1, <1>4
  <2> QED
    BY <1>4, <2>1 DEF FastInv, RowsAbove
<1>5. CASE d[2] = 1
  <2>1. j - 1 + d[2] = j
    BY <1>1, <1>5
  <2> QED
    BY <1>1, <1>5, <2>1
<1> QED
  BY <1>2, <1>3, <1>4, <1>5

LEMMA FoundInOrder ==
  ASSUME FastInv, pc = "Scan", ~MoreGroups
  PROVE  \E P : /\ FoundAt(P)
                /\ Len(Found) = Len(P)
                /\ \A k \in 1 .. Len(P) : Found[k] = <<P[k], j - 1>>
                /\ Found \in Seq(ImageColumn \X ImageRow)
<1>1. /\ Width \in Nat /\ Width >= 7 /\ Height \in Nat /\ Height >= 7
      /\ j \in Int /\ j >= 3 /\ j < Height - 2
  BY RowIsScanned
<1>2. CASE j = 3
  <2>1. Found = <<>> /\ <<>> \in Seq(ImageColumn \X ImageRow)
    BY <1>2 DEF Found
  <2>2. <<>> \in Seq(ImageColumn) /\ Len(<<>>) = 0 /\ \A c : ~Among(c, <<>>)
    BY DEF Among
  <2>3. FoundAt(<<>>)
    BY <1>2, <2>2 DEF FoundAt, Ascending
  <2> QED
    BY <2>1, <2>2, <2>3
<1>3. CASE j # 3
  <2> DEFINE positions == row_corner_positions[Slot(j - 1)]
             highest == {c \in ImageColumn : Highest(c)}
  <2>1. PICK P : P = Kept(positions, highest)
    OBVIOUS
  <2>2. j > 3 /\ j - 1 \in ImageRow /\ Slot(j - 1) \in Ring /\ ImageColumn \subseteq Int
    BY <1>1, <1>3, Slots DEF ImageRow, ImageColumn
  <2>3. /\ positions \in Seq(ImageColumn) /\ Ascending(positions)
        /\ \A c \in ImageColumn : Among(c, positions) =>
             ScoreAt(c, j - 1) > 0 /\ row_scores[Slot(j - 1)][c] = ScoreAt(c, j - 1)
        /\ \A c \in AlwaysExamined : ScoreAt(c, j - 1) > 0 => Among(c, positions)
    BY <2>2 DEF FastInv, FastType, RowBefore
  <2>4. Found = [k \in 1 .. Len(P) |-> <<P[k], j - 1>>]
    BY <1>3, <2>1 DEF Found
  <2> HIDE DEF positions, highest
  <2>5. /\ P \in Seq(ImageColumn) /\ Ascending(P)
        /\ \A c \in ImageColumn : Among(c, P) <=> c \in highest /\ Among(c, positions)
    BY <2>1, <2>2, <2>3, KeptInOrder
  <2>6. \A c : Among(c, P) => c \in ImageColumn
    BY <2>5 DEF Among
  <2>7. ASSUME NEW c, Among(c, P)
        PROVE  /\ ScoreAt(c, j - 1) > 0
               /\ \A d \in Neighbour : c + d[1] \in AlwaysExamined =>
                    ScoreAt(c, j - 1) > ScoreAt(c + d[1], j - 1 + d[2])
    <3>1. /\ c \in ImageColumn /\ Highest(c) /\ ScoreAt(c, j - 1) > 0
          /\ row_scores[Slot(j - 1)][c] = ScoreAt(c, j - 1)
      BY <2>3, <2>5, <2>6, <2>7 DEF highest
    <3>2. ASSUME NEW d \in Neighbour, c + d[1] \in AlwaysExamined
          PROVE  ScoreAt(c, j - 1) > ScoreAt(c + d[1], j - 1 + d[2])
      <4>1. c + d[1] \in Examined
        BY <1>1, <3>2 DEF AlwaysExamined, Examined
      <4>2. row_scores[Slot(j - 1)][c] > row_scores[Slot(j - 1 + d[2])][c + d[1]]
        BY <3>1 DEF Highest
      <4>3. CASE j < Height - 3 \/ d[2] # 1
        BY <3>1, <4>1, <4>2, <4>3, NeighbourScores
      <4>4. CASE j >= Height - 3 /\ d[2] = 1
        BY <3>1, <4>1, <4>4, NeighbourScores
      <4> QED
        BY <1>1, <4>3, <4>4
    <3> QED
      BY <3>1, <3>2
  <2>8. ASSUME NEW c \in AlwaysExamined \ {Width - 8}, j - 1 # Height - 4, HighestInGrid(c, j - 1)
        PROVE  Among(c, P)
    <3>1. c \in ImageColumn /\ c \in Examined /\ j < Height - 3 /\ c \in Int /\ c >= 3
          /\ c < Width - 8
      BY <1>1, <2>8 DEF AlwaysExamined, ImageColumn, Examined
    <3>2. Among(c, positions) /\ row_scores[Slot(j - 1)][c] = ScoreAt(c, j - 1)
      BY <2>3, <2>8, <3>1 DEF HighestInGrid
    <3>3. Highest(c)
      <4> SUFFICES ASSUME NEW d \in Neighbour
                   PROVE  row_scores[Slot(j - 1)][c] > row_scores[Slot(j - 1 + d[2])][c + d[1]]
        BY DEF Highest
      <4>1. d[1] \in {-1, 0, 1}
        BY DEF Neighbour
      <4>2. c + d[1] \in Examined
        BY <1>1, <3>1, <4>1 DEF Examined
      <4>3. row_scores[Slot(j - 1 + d[2])][c + d[1]] = ScoreAt(c + d[1], j - 1 + d[2])
        BY <3>1, <4>2, NeighbourScores
      <4>4. ScoreAt(c, j - 1) > ScoreAt(c + d[1], j - 1 + d[2])
        BY <2>8 DEF HighestInGrid
      <4> QED
        BY <3>2, <4>3, <4>4
    <3> QED
      BY <2>5, <3>1, <3>2, <3>3 DEF highest
  <2>9. FoundAt(P)
    BY <1>3, <2>5, <2>7, <2>8 DEF FoundAt
  <2>10. Len(P) \in Nat /\ \A k \in 1 .. Len(P) : P[k] \in ImageColumn
    BY <2>5
  <2>11. Found \in Seq(ImageColumn \X ImageRow) /\ Len(Found) = Len(P)
    BY <2>2, <2>4, <2>10
  <2> QED
    BY <2>4, <2>9, <2>11
<1> QED
  BY <1>2, <1>3

(* The first n of them behind the keypoints of the rows above. *)
Appended(P, n, out) ==
  /\ Len(out) = Len(out_keypoints) + n
  /\ \A k \in 1 .. Len(out_keypoints) : out[k] = out_keypoints[k]
  /\ \A k \in 1 .. n : out[Len(out_keypoints) + k] = <<P[k], j - 1>>

LEMMA FoundAppended ==
  ASSUME FastInv, pc = "Scan", j \in Int, NEW P, FoundAt(P),
         NEW n, n \in Nat, n <= Len(P), NEW out, Appended(P, n, out)
  PROVE  /\ \A k \in 1 .. Len(out) : out[k][2] < j
         /\ \A k, l \in 1 .. Len(out) : k < l => Before(out[k], out[l])
         /\ \A k \in 1 .. Len(out) :
              /\ ScoreAt(out[k][1], out[k][2]) > 0
              /\ \A d \in Neighbour : out[k][1] + d[1] \in AlwaysExamined =>
                   ScoreAt(out[k][1], out[k][2]) > ScoreAt(out[k][1] + d[1], out[k][2] + d[2])
<1> DEFINE L == Len(out_keypoints)
<1>0. /\ Len(out) = L + n
      /\ \A k \in 1 .. L : out[k] = out_keypoints[k]
      /\ \A k \in 1 .. n : out[L + k] = <<P[k], j - 1>>
  BY DEF Appended
<1>1. /\ L \in Nat /\ DOMAIN out_keypoints = 1 .. L
      /\ \A k \in 1 .. L : out_keypoints[k] \in ImageColumn \X ImageRow
  BY DEF FastInv, FastType
<1>2. \A k \in 1 .. L : out_keypoints[k][2] < j - 1 /\ out_keypoints[k][2] \in Int
  <2>1. ImageRow \subseteq Int
    BY SizeAssumption DEF ImageRow
  <2> QED
    BY <1>1, <2>1 DEF FastInv, KeypointsAbove
<1>3. Len(P) \in Nat /\ \A k \in 1 .. Len(P) : P[k] \in ImageColumn /\ P[k] \in Int
  <2>1. ImageColumn \subseteq Int
    BY SizeAssumption DEF ImageColumn
  <2>2. P \in Seq(ImageColumn)
    BY DEF FoundAt
  <2>3. Len(P) \in Nat /\ \A k \in 1 .. Len(P) : P[k] \in ImageColumn
    BY <2>2
  <2> QED
    BY <2>1, <2>3
<1> HIDE DEF L
<1>4. \A k \in 1 .. L : out[k] = out_keypoints[k]
  BY <1>0
<1>5. ASSUME NEW k \in (L + 1) .. Len(out)
      PROVE  k - L \in 1 .. n /\ out[k] = <<P[k - L], j - 1>>
  <2>1. k - L \in 1 .. n /\ k = L + (k - L)
    BY <1>0, <1>1
  <2> QED
    BY <1>0, <2>1
<1>6. \A k \in 1 .. Len(out) : k \in 1 .. L \/ k \in (L + 1) .. Len(out)
  BY <1>0, <1>1
<1>7. ASSUME NEW k \in 1 .. Len(out)
      PROVE  out[k][2] < j
  <2>1. CASE k \in 1 .. L
    BY <1>2, <1>4, <2>1
  <2>2. CASE k \in (L + 1) .. Len(out)
    BY <1>5, <2>2
  <2> QED
    BY <1>6, <2>1, <2>2
<1>8. ASSUME NEW k \in 1 .. Len(out), NEW l \in 1 .. Len(out), k < l
      PROVE  Before(out[k], out[l])
  <2>1. CASE k \in 1 .. L /\ l \in 1 .. L
    BY <1>1, <1>4, <1>8, <2>1 DEF FastInv, RasterOrder
  <2>2. CASE k \in 1 .. L /\ l \in (L + 1) .. Len(out)
    BY <1>2, <1>4, <1>5, <2>2 DEF Before
  <2>3. CASE k \in (L + 1) .. Len(out) /\ l \in (L + 1) .. Len(out)
    <3>1. k - L < l - L /\ k - L \in 1 .. Len(P) /\ l - L \in 1 .. Len(P)
      BY <1>1, <1>3, <1>5, <1>8, <2>3
    <3>2. P[k - L] < P[l - L]
      BY <3>1 DEF FoundAt, Ascending
    <3> QED
      BY <1>5, <2>3, <3>2 DEF Before
  <2>4. ~(k \in (L + 1) .. Len(out) /\ l \in 1 .. L)
    BY <1>1, <1>8
  <2> QED
    BY <1>6, <2>1, <2>2, <2>3, <2>4
<1>9. ASSUME NEW k \in 1 .. Len(out)
      PROVE  /\ ScoreAt(out[k][1], out[k][2]) > 0
             /\ \A d \in Neighbour : out[k][1] + d[1] \in AlwaysExamined =>
                  ScoreAt(out[k][1], out[k][2]) > ScoreAt(out[k][1] + d[1], out[k][2] + d[2])
  <2>1. CASE k \in 1 .. L
    BY <1>1, <1>4, <2>1 DEF FastInv, KeypointsAreHighest
  <2>2. CASE k \in (L + 1) .. Len(out)
    <3>1. k - L \in 1 .. Len(P) /\ out[k][1] = P[k - L] /\ out[k][2] = j - 1
      BY <1>3, <1>5, <2>2
    <3>2. Among(P[k - L], P)
      BY <3>1 DEF Among
    <3> QED
      BY <3>1, <3>2 DEF FoundAt
  <2> QED
    BY <1>6, <2>1, <2>2
<1> QED
  BY <1>7, <1>8, <1>9

LEMMA FastSuppress ==
  ASSUME FastInv, SuppressPreviousRow
  PROVE  FastInv'
<1>1. /\ pc = "Scan" /\ ~MoreGroups /\ Len(out_keypoints) + Len(Found) <= MaxKeypoints
      /\ out_keypoints' = out_keypoints \o Found /\ j' = j + 1 /\ i' = 3
      /\ row_corner_positions' = [row_corner_positions EXCEPT ![Slot(j + 1)] = <<>>]
      /\ pc' = IF j + 1 < Height - 2 THEN "Scan" ELSE "Done"
      /\ image' = image /\ row_scores' = row_scores
  BY DEF SuppressPreviousRow, NextRow
<1>2. /\ Width \in Nat /\ Width >= 7 /\ Height \in Nat /\ Height >= 7
      /\ j \in Int /\ j >= 3 /\ j < Height - 2 /\ i \in Int /\ i >= 3
      /\ j < Height - 3 => i >= Width - 7
      /\ j < Height - 3 => \A c \in Examined : row_scores[Slot(j)][c] = ScoreAt(c, j)
  BY <1>1, RowIsScanned
<1>3. PICK P : /\ FoundAt(P)
               /\ Len(Found) = Len(P)
               /\ \A k \in 1 .. Len(P) : Found[k] = <<P[k], j - 1>>
               /\ Found \in Seq(ImageColumn \X ImageRow)
  BY <1>1, FoundInOrder
<1>4. out_keypoints \in Seq(ImageColumn \X ImageRow) /\ FastType
  BY DEF FastInv, FastType
<1>5. PICK out : out = out_keypoints \o Found
  OBVIOUS
<1>6. /\ out_keypoints' = out /\ out \in Seq(ImageColumn \X ImageRow)
      /\ Len(out) = Len(out_keypoints) + Len(P) /\ DOMAIN out = 1 .. Len(out)
      /\ Len(out_keypoints) \in Nat /\ Len(P) \in Nat
      /\ \A k \in 1 .. Len(out_keypoints) : out[k] = out_keypoints[k]
  BY <1>1, <1>3, <1>4, <1>5
<1>7. \A k \in 1 .. Len(P) : out[Len(out_keypoints) + k] = <<P[k], j - 1>>
  BY <1>3, <1>4, <1>5
<1>8. /\ \A k \in 1 .. Len(out) : out[k][2] < j
      /\ \A k, l \in 1 .. Len(out) : k < l => Before(out[k], out[l])
      /\ \A k \in 1 .. Len(out) :
           /\ ScoreAt(out[k][1], out[k][2]) > 0
           /\ \A d \in Neighbour : out[k][1] + d[1] \in AlwaysExamined =>
                ScoreAt(out[k][1], out[k][2]) > ScoreAt(out[k][1] + d[1], out[k][2] + d[2])
  <2>1. Appended(P, Len(P), out)
    BY <1>6, <1>7 DEF Appended
  <2>2. Len(P) \in Nat /\ Len(P) <= Len(P)
    BY <1>6
  <2> QED
    BY <1>1, <1>2, <1>3, <2>1, <2>2, FoundAppended
<1>9. /\ Slot(j) \in Ring /\ Slot(j + 1) \in Ring /\ Slot(j + 1) # Slot(j)
      /\ row_corner_positions'[Slot(j + 1)] = <<>>
      /\ row_corner_positions'[Slot(j)] = row_corner_positions[Slot(j)]
  BY <1>1, <1>2, <1>4, Slots DEF FastType
<1>10. \A c, r : ScoreAt(c, r)' = ScoreAt(c, r)
  BY <1>1 DEF ScoreAt
<1>11. FastType'
  <2>1. j' \in 3 .. (Height - 2) /\ i' \in 3 .. (Width - 4) /\ (pc' = "Scan" => j' < Height - 2)
    BY <1>1, <1>2
  <2>2. row_corner_positions' \in [Ring -> Seq(ImageColumn)]
    <3>1. <<>> \in Seq(ImageColumn)
      OBVIOUS
    <3> QED
      BY <1>1, <1>4, <3>1 DEF FastType
  <2>3. Len(out_keypoints') <= MaxKeypoints
    BY <1>1, <1>3, <1>6
  <2>4. pc' \in {"Scan", "Done", "Full"}
    BY <1>1
  <2> QED
    BY <1>1, <1>4, <1>6, <2>1, <2>2, <2>3, <2>4 DEF FastType
<1>12. LeftIsZero'
  BY <1>1 DEF FastInv, LeftIsZero
<1>13. KeypointsAreHighest'
  BY <1>6, <1>8, <1>10 DEF KeypointsAreHighest
<1>14. RasterOrder'
  BY <1>6, <1>8 DEF RasterOrder
<1>15. HighestIsKeypoint'
  <2> SUFFICES ASSUME NEW r \in ImageRow \ {Height - 4}, NEW c \in AlwaysExamined \ {Width - 8},
                      HighestInGrid(c, r), Suppressed(c, r)'
               PROVE  IsKeypoint(c, r)'
    <3>1. \A c, r : HighestInGrid(c, r)' <=> HighestInGrid(c, r)
      BY <1>10 DEF HighestInGrid
    <3> QED
      BY <3>1 DEF HighestIsKeypoint
  <2>1. r < j /\ r \in Int /\ r >= 3 /\ r # Height - 4
    <3>1. pc' # "Full"
      BY <1>1
    <3> QED
      BY <1>1, <1>2, <3>1 DEF Suppressed, ImageRow
  <2>2. CASE r < j - 1
    <3>1. Suppressed(c, r)
      BY <2>2 DEF Suppressed
    <3>2. PICK k \in DOMAIN out_keypoints : out_keypoints[k] = <<c, r>>
      BY <3>1 DEF FastInv, HighestIsKeypoint, IsKeypoint
    <3>3. k \in 1 .. Len(out_keypoints) /\ k \in 1 .. Len(out)
      BY <1>4, <1>6, <3>2
    <3> QED
      BY <1>6, <3>2, <3>3 DEF IsKeypoint
  <2>3. CASE r = j - 1
    <3>1. j > 3
      BY <1>2, <2>1, <2>3
    <3>2. Among(c, P)
      BY <1>3, <2>1, <2>3, <3>1 DEF FoundAt
    <3>3. PICK k \in 1 .. Len(P) : P[k] = c
      BY <3>2 DEF Among
    <3>4. Len(out_keypoints) + k \in 1 .. Len(out)
      BY <1>6
    <3>5. out[Len(out_keypoints) + k] = <<c, r>>
      BY <1>7, <2>3, <3>3
    <3> QED
      BY <1>6, <3>4, <3>5 DEF IsKeypoint
  <2> QED
    BY <1>2, <2>1, <2>2, <2>3
<1>16. ASSUME pc' = "Scan"
       PROVE  RowsAbove' /\ ThisRow' /\ RowBefore' /\ KeypointsAbove'
  <2>1. j < Height - 3 /\ j' \in Int /\ j' - 1 = j /\ j' - 2 = j - 1
    BY <1>1, <1>2, <1>16
  <2>2. Slot(j') = Slot(j + 1) /\ Slot(j' - 1) = Slot(j)
    BY <1>1, <2>1
  <2>3. \A c \in Examined : /\ row_scores[Slot(j)][c] = ScoreAt(c, j)
                             /\ row_scores[Slot(j - 1)][c] = ScoreAt(c, j - 1)
    BY <1>1, <1>2, <2>1 DEF FastInv, RowsAbove
  <2>4. RowsAbove'
    <3> SUFFICES ASSUME NEW r \in {j - 1, j}, NEW c \in Examined
                 PROVE  row_scores[Slot(r)][c] = ScoreAt(c, r)
      BY <1>1, <1>10, <2>1, <2>2 DEF RowsAbove, Examined, Slot
    <3> QED
      BY <2>3
  <2>5. ThisRow'
    <3>1. ASSUME NEW c \in 0 .. 2 PROVE row_scores[Slot(j + 1)][c] = ScoreAt(c, j + 1)
      <4>1. c \notin ImageColumn
        BY <1>2 DEF ImageColumn
      <4>2. row_scores[Slot(j + 1)][c] = 0
        BY <1>9 DEF FastInv, LeftIsZero
      <4> QED
        BY <4>1, <4>2 DEF ScoreAt
    <3>2. Ascending(<<>>) /\ \A c : ~Among(c, <<>>)
      BY DEF Ascending, Among
    <3>3. \A c \in ImageColumn : ~(c < 3)
      BY <1>2 DEF ImageColumn
    <3>4. 0 .. (i' - 1) = 0 .. 2
      BY <1>1
    <3> QED
      BY <1>1, <1>9, <1>10, <2>2, <3>1, <3>2, <3>3, <3>4 DEF ThisRow
  <2>6. RowBefore'
    <3>1. /\ Ascending(row_corner_positions[Slot(j)])
          /\ \A c \in ImageColumn :
               Among(c, row_corner_positions[Slot(j)]) <=> c < i /\ ScoreAt(c, j) > 0
          /\ \A c \in 0 .. (i - 1) : row_scores[Slot(j)][c] = ScoreAt(c, j)
      BY <1>1, <2>1 DEF FastInv, ThisRow
    <3>2. \A c \in ImageColumn : c < i => c \in 0 .. (i - 1)
      BY <1>2 DEF ImageColumn
    <3>3. \A c \in AlwaysExamined : c \in ImageColumn /\ c < i
      BY <1>2, <2>1 DEF AlwaysExamined, ImageColumn
    <3> QED
      BY <1>1, <1>9, <1>10, <2>1, <2>2, <3>1, <3>2, <3>3 DEF RowBefore
  <2>7. KeypointsAbove'
    BY <1>6, <1>8, <2>1 DEF KeypointsAbove
  <2> QED
    BY <2>4, <2>5, <2>6, <2>7
<1> QED
  BY <1>11, <1>12, <1>13, <1>14, <1>15, <1>16 DEF FastInv

LEMMA FastFull ==
  ASSUME FastInv, BufferFull
  PROVE  FastInv'
<1> DEFINE n == MaxKeypoints - Len(out_keypoints)
<1>1. /\ pc = "Scan" /\ ~MoreGroups /\ Len(out_keypoints) + Len(Found) > MaxKeypoints
      /\ out_keypoints' = out_keypoints \o SubSeq(Found, 1, n) /\ pc' = "Full"
      /\ image' = image /\ row_scores' = row_scores /\ j' = j /\ i' = i
      /\ row_corner_positions' = row_corner_positions
  BY DEF BufferFull
<1>2. Height \in Nat /\ j \in Int /\ j >= 3
  BY <1>1, RowIsScanned
<1>3. PICK P : /\ FoundAt(P)
               /\ Len(Found) = Len(P)
               /\ \A k \in 1 .. Len(P) : Found[k] = <<P[k], j - 1>>
               /\ Found \in Seq(ImageColumn \X ImageRow)
  BY <1>1, FoundInOrder
<1>4. /\ out_keypoints \in Seq(ImageColumn \X ImageRow) /\ Len(out_keypoints) <= MaxKeypoints
      /\ FastType /\ MaxKeypoints \in Nat
  BY SizeAssumption DEF FastInv, FastType
<1>5. n \in Nat /\ n < Len(P) /\ Len(P) \in Nat /\ Len(out_keypoints) \in Nat
  BY <1>1, <1>3, <1>4 DEF FoundAt
<1>6. PICK s : s = SubSeq(Found, 1, n)
  OBVIOUS
<1>7. s \in Seq(ImageColumn \X ImageRow) /\ Len(s) = n /\ \A k \in 1 .. n : s[k] = Found[k]
  <2>1. \A k \in 1 .. n : Found[k] \in ImageColumn \X ImageRow
    BY <1>3, <1>5
  <2> HIDE DEF n
  <2>2. s = [k \in 1 .. n |-> Found[k]]
    BY <1>3, <1>5, <1>6
  <2> QED
    BY <1>5, <2>1, <2>2
<1>8. PICK out : out = out_keypoints \o s
  OBVIOUS
<1>9. /\ out_keypoints' = out /\ out \in Seq(ImageColumn \X ImageRow)
      /\ Len(out) = Len(out_keypoints) + n /\ DOMAIN out = 1 .. Len(out)
      /\ \A k \in 1 .. Len(out_keypoints) : out[k] = out_keypoints[k]
      /\ \A k \in 1 .. n : out[Len(out_keypoints) + k] = s[k]
  <2> HIDE DEF n
  <2> QED
    BY <1>1, <1>4, <1>6, <1>7, <1>8
<1>10. \A k \in 1 .. n : out[Len(out_keypoints) + k] = <<P[k], j - 1>>
  <2>1. \A k \in 1 .. n : k \in 1 .. Len(P)
    BY <1>5
  <2> QED
    BY <1>3, <1>7, <1>9, <2>1
<1>11. n <= Len(P)
  BY <1>5
<1>12. Len(out) = MaxKeypoints
  BY <1>4, <1>5, <1>9
<1> HIDE DEF n
<1>13. /\ \A k, l \in 1 .. Len(out) : k < l => Before(out[k], out[l])
       /\ \A k \in 1 .. Len(out) :
            /\ ScoreAt(out[k][1], out[k][2]) > 0
            /\ \A d \in Neighbour : out[k][1] + d[1] \in AlwaysExamined =>
                 ScoreAt(out[k][1], out[k][2]) > ScoreAt(out[k][1] + d[1], out[k][2] + d[2])
  <2>1. Appended(P, n, out)
    BY <1>9, <1>10 DEF Appended
  <2> QED
    BY <1>1, <1>2, <1>3, <1>5, <1>11, <2>1, FoundAppended
<1>14. \A c, r : ScoreAt(c, r)' = ScoreAt(c, r)
  BY <1>1 DEF ScoreAt
<1>15. FastType'
  <2>1. Len(out_keypoints') <= MaxKeypoints
    BY <1>4, <1>9, <1>12
  <2> QED
    BY <1>1, <1>4, <1>9, <2>1 DEF FastType
<1>16. LeftIsZero'
  BY <1>1 DEF FastInv, LeftIsZero
<1>17. KeypointsAreHighest'
  BY <1>9, <1>13, <1>14 DEF KeypointsAreHighest
<1>18. RasterOrder'
  BY <1>9, <1>13 DEF RasterOrder
<1>19. HighestIsKeypoint'
  <2> SUFFICES ASSUME NEW r \in ImageRow \ {Height - 4}, NEW c \in AlwaysExamined \ {Width - 8},
                      HighestInGrid(c, r), Suppressed(c, r)'
               PROVE  \E k \in 1 .. Len(out) : out[k] = <<c, r>>
    <3>1. \A c, r : HighestInGrid(c, r)' <=> HighestInGrid(c, r)
      BY <1>14 DEF HighestInGrid
    <3> QED
      BY <1>9, <3>1 DEF HighestIsKeypoint, IsKeypoint
  <2>1. r \in Int /\ r >= 3 /\ r # Height - 4 /\ c \in Int
    BY <1>2, SizeAssumption DEF ImageRow, AlwaysExamined
  <2>2. CASE r < j - 1
    <3>1. Suppressed(c, r)
      BY <2>2 DEF Suppressed
    <3>2. PICK k \in DOMAIN out_keypoints : out_keypoints[k] = <<c, r>>
      BY <3>1 DEF FastInv, HighestIsKeypoint, IsKeypoint
    <3>3. k \in 1 .. Len(out_keypoints) /\ k \in 1 .. Len(out)
      BY <1>4, <1>5, <1>9, <3>2
    <3> QED
      BY <1>9, <3>2, <3>3
  <2>3. CASE ~(r < j - 1)
    <3> DEFINE last == out[Len(out)]
    <3>1. Len(out) > 0 /\ Len(out) \in Nat /\ ~Before(last, <<c, r>>)
      <4>1. /\ Len(out_keypoints') > 0
            /\ ~Before(out_keypoints'[Len(out_keypoints')], <<c, r>>)
        BY <1>1, <2>3 DEF Suppressed, Before
      <4>2. Len(out) \in Nat
        BY <1>9
      <4> QED
        BY <1>9, <4>1, <4>2
    <3>2. ~(last[2] < r) /\ (last[2] = r => ~(last[1] < c))
      BY <3>1 DEF Before
    <3>3. CASE n = 0
      <4>1. Len(out) \in 1 .. Len(out_keypoints) /\ last = out_keypoints[Len(out)]
        BY <1>5, <1>9, <3>1, <3>3
      <4>2. last[2] < j - 1 /\ last[2] \in Int
        <5>1. ImageRow \subseteq Int
          BY SizeAssumption DEF ImageRow
        <5> QED
          <6>1. /\ Len(out) \in DOMAIN out_keypoints
                /\ out_keypoints[Len(out)] \in ImageColumn \X ImageRow
            BY <1>4, <4>1
          <6>2. out_keypoints[Len(out)][2] < j - 1
            BY <1>1, <6>1 DEF FastInv, KeypointsAbove
          <6> QED
            BY <4>1, <5>1, <6>1, <6>2
      <4> QED
        BY <1>2, <2>1, <2>3, <3>2, <4>2
    <3>4. CASE n # 0
      <4>1. n \in 1 .. n /\ n \in 1 .. Len(P)
        BY <1>5, <3>4
      <4>2. last[1] = P[n] /\ last[2] = j - 1
        BY <1>9, <1>10, <4>1
      <4>3. r = j - 1 /\ ~(P[n] < c) /\ j > 3
        BY <1>2, <2>1, <2>3, <3>2, <4>2
      <4>4. PICK k \in 1 .. Len(P) : P[k] = c
        BY <1>3, <2>1, <4>3 DEF FoundAt, Among
      <4>5. ~(n < k)
        BY <1>3, <4>1, <4>3, <4>4 DEF FoundAt, Ascending
      <4>6. k \in 1 .. n /\ Len(out_keypoints) + k \in 1 .. Len(out)
        BY <1>5, <1>9, <4>5
      <4> QED
        BY <1>10, <4>3, <4>4, <4>6
    <3> QED
      BY <3>3, <3>4
  <2> QED
    BY <2>2, <2>3
<1> QED
  BY <1>1, <1>15, <1>16, <1>17, <1>18, <1>19 DEF FastInv

LEMMA FastStays ==
  ASSUME FastInv, UNCHANGED vars
  PROVE  FastInv'
<1>1. UNCHANGED <<image, pc, j, i, row_scores, row_corner_positions, out_keypoints>>
  BY DEF vars
<1>2. /\ \A c, r : ScoreAt(c, r)' = ScoreAt(c, r)
      /\ \A c, r : Suppressed(c, r)' <=> Suppressed(c, r)
      /\ \A c, r : IsKeypoint(c, r)' <=> IsKeypoint(c, r)
  BY <1>1 DEF ScoreAt, Suppressed, IsKeypoint
<1>3. KeypointsAreHighest' /\ RasterOrder'
  BY <1>1, <1>2 DEF FastInv, KeypointsAreHighest, RasterOrder
<1>4. HighestIsKeypoint'
  BY <1>2 DEF FastInv, HighestIsKeypoint, HighestInGrid
<1>5. FastType' /\ LeftIsZero'
  BY <1>1 DEF FastInv, FastType, LeftIsZero
<1>6. ASSUME pc = "Scan" PROVE RowsAbove' /\ ThisRow' /\ RowBefore' /\ KeypointsAbove'
  <2>1. RowsAbove'
    BY <1>1, <1>2, <1>6 DEF FastInv, RowsAbove, Slot
  <2>2. ThisRow'
    BY <1>1, <1>2, <1>6 DEF FastInv, ThisRow, Slot
  <2>3. RowBefore'
    BY <1>1, <1>2, <1>6 DEF FastInv, RowBefore, Slot
  <2>4. KeypointsAbove'
    BY <1>1, <1>6 DEF FastInv, KeypointsAbove
  <2> QED
    BY <2>1, <2>2, <2>3, <2>4
<1> QED
  BY <1>1, <1>3, <1>4, <1>5, <1>6 DEF FastInv

(* The ring of rows and the keypoints found, in the behaviours of the      *)
(* composition.                                                            *)
THEOREM ScanIsInductive == VisionSpec => []FastInv
<1>1. VisionInit => FastInv
  BY FastInit DEF VisionInit, NoScan
<1>2. FastInv /\ [VisionNext]_visionVars => FastInv'
  <2> SUFFICES ASSUME FastInv, [VisionNext]_visionVars PROVE FastInv'
    OBVIOUS
  <2>1. Next \/ UNCHANGED vars
    BY DEF VisionNext, visionVars
  <2> QED
    BY <2>1, FastSkip, FastEvaluate, FastSuppress, FastFull, FastStays DEF Next
<1> QED
  BY <1>1, <1>2, PTL DEF VisionSpec

(* Away from the borders, extract_features finds exactly the pixels that   *)
(* are the highest of their grid, each once and in raster order, whatever  *)
(* groups the rough checks skip, shift or evaluate again and wherever the  *)
(* buffer fills.                                                           *)
THEOREM HighestAreFound == VisionSpec => []FindsTheHighest
<1>1. FastInv => FindsTheHighest
  BY DEF FastInv, FindsTheHighest
<1> QED
  BY <1>1, ScanIsInductive, PTL

-----------------------------------------------------------------------------
(* The score of a pixel.                                                   *)
CornerType ==
  /\ MaxPixel \in Nat
  /\ pixel \in CornerScore!Value
  /\ circle \in [CornerScore!Position -> CornerScore!Value]
  /\ threshold \in CornerScore!Value

D(k) == CornerScore!d(k)

LEMMA DType ==
  ASSUME CornerType, NEW k \in Int
  PROVE  /\ CornerScore!At(k) \in 0 .. MaxPixel
         /\ D(k) = pixel - CornerScore!At(k)
         /\ D(k) \in -MaxPixel .. MaxPixel /\ D(k) \in Int
         /\ D(k + 16) = D(k) /\ CornerScore!At(k + 16) = CornerScore!At(k)
<1>1. k % 16 \in 0 .. 15 /\ (k + 16) % 16 = k % 16
  OBVIOUS
<1>2. /\ MaxPixel \in Nat /\ pixel \in 0 .. MaxPixel
      /\ circle \in [0 .. 15 -> 0 .. MaxPixel]
  BY DEF CornerType, CornerScore!Value, CornerScore!Position
<1>3. CornerScore!At(k) = circle[k % 16] /\ CornerScore!At(k + 16) = circle[k % 16]
  BY <1>1 DEF CornerScore!At
<1>4. circle[k % 16] \in 0 .. MaxPixel
  BY <1>1, <1>2
<1> QED
  BY <1>2, <1>3, <1>4 DEF D, CornerScore!d

LEMMA SmallestOf ==
  ASSUME NEW N \in Nat, NEW S, S \subseteq -N .. N, S # {}
  PROVE  CornerScore!Min(S) \in S /\ \A v \in S : CornerScore!Min(S) <= v
<1>1. {v + N : v \in S} \subseteq Nat /\ {v + N : v \in S} # {}
  OBVIOUS
<1>2. PICK m \in {v + N : v \in S} : \A n \in {v + N : v \in S} : m <= n
  BY <1>1, LeastElement
<1>3. PICK w \in S : m = w + N
  BY <1>2
<1>4. ASSUME NEW v \in S PROVE w <= v
  <2>1. w + N <= v + N
    BY <1>2, <1>3
  <2> QED
    BY <2>1
<1> QED
  BY <1>4 DEF CornerScore!Min

LEMMA LargestOf ==
  ASSUME NEW N \in Nat, NEW S, S \subseteq -N .. N, S # {}
  PROVE  CornerScore!Max(S) \in S /\ \A v \in S : CornerScore!Max(S) >= v
<1>1. {N - v : v \in S} \subseteq Nat /\ {N - v : v \in S} # {}
  OBVIOUS
<1>2. PICK m \in {N - v : v \in S} : \A n \in {N - v : v \in S} : m <= n
  BY <1>1, LeastElement
<1>3. PICK w \in S : m = N - w
  BY <1>2
<1>4. ASSUME NEW v \in S PROVE w >= v
  <2>1. N - w <= N - v
    BY <1>2, <1>3
  <2> QED
    BY <2>1
<1> QED
  BY <1>4 DEF CornerScore!Max

LEMMA OfTwo ==
  ASSUME NEW a \in Int, NEW b \in Int
  PROVE  /\ CornerScore!Min({a, b}) = IF a <= b THEN a ELSE b
         /\ CornerScore!Max({a, b}) = IF a >= b THEN a ELSE b
<1>1. \E v \in {a, b} : \A w \in {a, b} : v <= w
  OBVIOUS
<1>2. \E v \in {a, b} : \A w \in {a, b} : v >= w
  OBVIOUS
<1>3. CornerScore!Min({a, b}) \in {a, b} /\ \A w \in {a, b} : CornerScore!Min({a, b}) <= w
  BY <1>1 DEF CornerScore!Min
<1>4. CornerScore!Max({a, b}) \in {a, b} /\ \A w \in {a, b} : CornerScore!Max({a, b}) >= w
  BY <1>2 DEF CornerScore!Max
<1> QED
  BY <1>3, <1>4

LEMMA OfThree ==
  ASSUME NEW a \in Int, NEW b \in Int, NEW c \in Int
  PROVE  /\ CornerScore!Min({a, b, c}) \in {a, b, c}
         /\ \A w \in {a, b, c} : CornerScore!Min({a, b, c}) <= w
         /\ CornerScore!Max({a, b, c}) \in {a, b, c}
         /\ \A w \in {a, b, c} : CornerScore!Max({a, b, c}) >= w
<1>1. \E v \in {a, b, c} : \A w \in {a, b, c} : v <= w
  OBVIOUS
<1>2. \E v \in {a, b, c} : \A w \in {a, b, c} : v >= w
  OBVIOUS
<1>3. CornerScore!Min({a, b, c}) \in {a, b, c}
      /\ \A w \in {a, b, c} : CornerScore!Min({a, b, c}) <= w
  BY <1>1 DEF CornerScore!Min
<1>4. CornerScore!Max({a, b, c}) \in {a, b, c}
      /\ \A w \in {a, b, c} : CornerScore!Max({a, b, c}) >= w
  BY <1>2 DEF CornerScore!Max
<1> QED
  BY <1>3, <1>4

(* The smallest and the largest difference along a part of the circle.     *)
LEMMA OfPoints ==
  ASSUME CornerType, NEW first \in Int, NEW last \in Int, first <= last
  PROVE  /\ \E q \in first .. last : CornerScore!Min(CornerScore!Points(first, last)) = D(q)
         /\ \A q \in first .. last : CornerScore!Min(CornerScore!Points(first, last)) <= D(q)
         /\ \E q \in first .. last : CornerScore!Max(CornerScore!Points(first, last)) = D(q)
         /\ \A q \in first .. last : CornerScore!Max(CornerScore!Points(first, last)) >= D(q)
<1> DEFINE S == CornerScore!Points(first, last)
<1>1. S = {D(q) : q \in first .. last}
  BY DEF CornerScore!Points, D
<1>2. MaxPixel \in Nat /\ \A q \in first .. last : D(q) \in -MaxPixel .. MaxPixel
  BY DType DEF CornerType
<1>3. first \in first .. last
  OBVIOUS
<1> HIDE DEF S
<1>4. S \subseteq -MaxPixel .. MaxPixel /\ S # {}
  BY <1>1, <1>2, <1>3
<1>5. /\ CornerScore!Min(S) \in S /\ \A v \in S : CornerScore!Min(S) <= v
      /\ CornerScore!Max(S) \in S /\ \A v \in S : CornerScore!Max(S) >= v
  BY <1>2, <1>4, SmallestOf, LargestOf
<1> QED
  BY <1>1, <1>5 DEF S

(* A function that is defined step by step. *)
IsStep(step, N) == step \in [(1 .. N) \X Int -> Int]

Iterates(f, step, s, N) ==
  f \in [0 .. N -> Int] /\ f[0] = s /\ \A n \in 1 .. N : f[n] = step[<<n, f[n - 1]>>]

LEMMA StepByStep ==
  ASSUME NEW N, N \in Nat, NEW s, s \in Int, NEW step, IsStep(step, N)
  PROVE  \E f : Iterates(f, step, s, N)
<1>0. step \in [(1 .. N) \X Int -> Int]
  BY DEF IsStep
<1> DEFINE Solves(f, m) == /\ f \in [0 .. m -> Int] /\ f[0] = s
                           /\ \A n \in 1 .. m : f[n] = step[<<n, f[n - 1]>>]
           S == {m \in Nat : m <= N => \E f : Solves(f, m)}
<1>1. 0 \in S
  <2>1. Solves([k \in 0 .. 0 |-> s], 0)
    OBVIOUS
  <2> HIDE DEF Solves
  <2> QED
    BY <2>1
<1>2. ASSUME NEW m \in Nat, m \in S
      PROVE  m + 1 \in S
  <2> SUFFICES ASSUME m + 1 <= N PROVE \E f : Solves(f, m + 1)
    OBVIOUS
  <2>1. PICK f : Solves(f, m)
    BY <1>2
  <2> DEFINE g == [k \in 0 .. (m + 1) |-> IF k = m + 1 THEN step[<<m + 1, f[m]>>] ELSE f[k]]
  <2>2. f[m] \in Int
    BY <2>1
  <2>3. step[<<m + 1, f[m]>>] \in Int
    <3>1. <<m + 1, f[m]>> \in (1 .. N) \X Int
      BY <2>2
    <3> QED
      BY <1>0, <3>1
  <2>4. g \in [0 .. (m + 1) -> Int] /\ g[0] = s
    BY <2>1, <2>3
  <2>5. ASSUME NEW n \in 1 .. (m + 1)
        PROVE  g[n] = step[<<n, g[n - 1]>>]
    <3>1. n - 1 \in 0 .. m /\ g[n - 1] = f[n - 1]
      OBVIOUS
    <3>2. CASE n = m + 1
      <4>1. g[n] = step[<<m + 1, f[m]>>] /\ n - 1 = m
        BY <3>2
      <4> HIDE DEF g
      <4> QED
        BY <3>1, <3>2, <4>1
    <3>3. CASE n # m + 1
      <4>1. g[n] = f[n] /\ n \in 1 .. m
        BY <3>3
      <4> HIDE DEF g
      <4> QED
        BY <2>1, <3>1, <4>1
    <3> QED
      BY <3>2, <3>3
  <2>6. Solves(g, m + 1)
    BY <2>4, <2>5
  <2> HIDE DEF Solves, g
  <2> QED
    BY <2>6
<1>3. N \in S
  <2> HIDE DEF S
  <2> QED
    BY <1>1, <1>2, Induction
<1> QED
  BY <1>3 DEF Iterates

(* The rounds of the two loops of calculate_corner_score. *)
AboveAfter(f, n) ==
  IF n = 0 THEN threshold
  ELSE LET k == 2 * (n - 1)
           a == CornerScore!Min(CornerScore!Points(k + 1, k + 8))
       IN  IF CornerScore!Min(CornerScore!Points(k + 1, k + 3)) <= f[n - 1] THEN f[n - 1]
           ELSE CornerScore!Max({f[n - 1], CornerScore!Min({a, CornerScore!d(k)}),
                                 CornerScore!Min({a, CornerScore!d(k + 9)})})

BelowAfter(f, s, n) ==
  IF n = 0 THEN s
  ELSE LET k == 2 * (n - 1)
           b == CornerScore!Max(CornerScore!Points(k + 1, k + 8))
       IN  IF CornerScore!Max(CornerScore!Points(k + 1, k + 5)) >= f[n - 1] THEN f[n - 1]
           ELSE CornerScore!Min({f[n - 1], CornerScore!Max({b, CornerScore!d(k)}),
                                 CornerScore!Max({b, CornerScore!d(k + 9)})})

(* The arc of nine that begins at k is above v, or reaches down to v. *)
ArcAbove(k, v) == \A q \in k .. (k + 8) : D(q) >= v
ArcReachesDown(k, v) == \E q \in k .. (k + 8) : D(q) <= v
ArcBelow(k, v) == \A q \in k .. (k + 8) : D(q) <= v
ArcReachesUp(k, v) == \E q \in k .. (k + 8) : D(q) >= v

(* What one round of the loops keeps: v before it, w after it. *)
LEMMA AboveRound ==
  ASSUME CornerType, NEW f, NEW n \in 1 .. 8, f[n - 1] \in Int
  PROVE  LET v == f[n - 1]
             w == AboveAfter(f, n)
         IN  /\ w \in Int /\ w >= v
             /\ ArcReachesDown(2 * (n - 1), w) /\ ArcReachesDown(2 * (n - 1) + 1, w)
             /\ w = v \/ ArcAbove(2 * (n - 1), w) \/ ArcAbove(2 * (n - 1) + 1, w)
<1> DEFINE k == 2 * (n - 1)
           v == f[n - 1]
           w == AboveAfter(f, n)
           a == CornerScore!Min(CornerScore!Points(k + 1, k + 8))
           few == CornerScore!Min(CornerScore!Points(k + 1, k + 3))
           m1 == CornerScore!Min({a, D(k)})
           m2 == CornerScore!Min({a, D(k + 9)})
<1>1. k \in Int /\ n # 0 /\ v \in Int
  OBVIOUS
<1>2. w = IF few <= v THEN v ELSE CornerScore!Max({v, m1, m2})
  BY <1>1 DEF AboveAfter, D
<1> HIDE DEF k, v, w
<1>3. \A q \in Int : D(q) \in Int
  BY DType
<1>4. /\ \E q \in (k + 1) .. (k + 8) : a = D(q)
      /\ \A q \in (k + 1) .. (k + 8) : a <= D(q)
      /\ \E q \in (k + 1) .. (k + 3) : few = D(q)
  <2>1. /\ k + 1 \in Int /\ k + 8 \in Int /\ k + 3 \in Int
        /\ k + 1 <= k + 8 /\ k + 1 <= k + 3
    BY <1>1
  <2> QED
    BY <2>1, OfPoints
<1> HIDE DEF a, few
<1>5. a \in Int /\ few \in Int
  BY <1>1, <1>3, <1>4
<1>6. k .. (k + 8) = (k + 1) .. (k + 8) \cup {k}
      /\ (k + 1) .. ((k + 1) + 8) = (k + 1) .. (k + 8) \cup {k + 9}
  BY <1>1
<1>7. CASE few <= v
  <2>1. w = v
    BY <1>2, <1>7
  <2>2. PICK q \in (k + 1) .. (k + 3) : few = D(q)
    BY <1>4
  <2>3. q \in k .. (k + 8) /\ q \in (k + 1) .. ((k + 1) + 8)
    BY <1>1
  <2>4. ArcReachesDown(k, w) /\ ArcReachesDown(k + 1, w)
    BY <1>7, <2>1, <2>2, <2>3 DEF ArcReachesDown
  <2> QED
    BY <1>1, <2>1, <2>4 DEF k, v, w
<1>8. CASE ~(few <= v)
  <2>1. D(k) \in Int /\ D(k + 9) \in Int
    BY <1>1, <1>3
  <2>2. /\ m1 = (IF a <= D(k) THEN a ELSE D(k))
        /\ m2 = (IF a <= D(k + 9) THEN a ELSE D(k + 9))
    BY <1>5, <2>1, OfTwo
  <2> HIDE DEF m1, m2
  <2>3. m1 \in Int /\ m2 \in Int /\ m1 <= a /\ m1 <= D(k) /\ m2 <= a /\ m2 <= D(k + 9)
    BY <1>5, <2>1, <2>2
  <2>4. w \in {v, m1, m2} /\ w >= v /\ w >= m1 /\ w >= m2
    BY <1>1, <1>2, <1>8, <2>3, OfThree
  <2>5. ArcReachesDown(k, w)
    <3>1. \E q \in k .. (k + 8) : D(q) = m1
      BY <1>4, <1>6, <2>2
    <3> QED
      BY <2>4, <3>1 DEF ArcReachesDown
  <2>6. ArcReachesDown(k + 1, w)
    <3>1. \E q \in (k + 1) .. ((k + 1) + 8) : D(q) = m2
      BY <1>4, <1>6, <2>2
    <3> QED
      BY <2>4, <3>1 DEF ArcReachesDown
  <2>7. w = m1 => ArcAbove(k, w)
    <3>1. \A q \in (k + 1) .. (k + 8) : D(q) >= m1
      BY <1>1, <1>3, <1>4, <1>5, <2>3
    <3> QED
      BY <1>6, <2>1, <2>3, <3>1 DEF ArcAbove
  <2>8. w = m2 => ArcAbove(k + 1, w)
    <3>1. \A q \in (k + 1) .. (k + 8) : D(q) >= m2
      BY <1>1, <1>3, <1>4, <1>5, <2>3
    <3> QED
      BY <1>6, <2>1, <2>3, <3>1 DEF ArcAbove
  <2>9. w \in Int
    BY <1>1, <2>3, <2>4
  <2> QED
    BY <2>4, <2>5, <2>6, <2>7, <2>8, <2>9 DEF k, v, w
<1> QED
  BY <1>7, <1>8

LEMMA BelowRound ==
  ASSUME CornerType, NEW f, NEW s, NEW n \in 1 .. 8, f[n - 1] \in Int
  PROVE  LET v == f[n - 1]
             w == BelowAfter(f, s, n)
         IN  /\ w \in Int /\ w <= v
             /\ ArcReachesUp(2 * (n - 1), w) /\ ArcReachesUp(2 * (n - 1) + 1, w)
             /\ w = v \/ ArcBelow(2 * (n - 1), w) \/ ArcBelow(2 * (n - 1) + 1, w)
<1> DEFINE k == 2 * (n - 1)
           v == f[n - 1]
           w == BelowAfter(f, s, n)
           b == CornerScore!Max(CornerScore!Points(k + 1, k + 8))
           few == CornerScore!Max(CornerScore!Points(k + 1, k + 5))
           m1 == CornerScore!Max({b, D(k)})
           m2 == CornerScore!Max({b, D(k + 9)})
<1>1. k \in Int /\ n # 0 /\ v \in Int
  OBVIOUS
<1>2. w = IF few >= v THEN v ELSE CornerScore!Min({v, m1, m2})
  BY <1>1 DEF BelowAfter, D
<1> HIDE DEF k, v, w
<1>3. \A q \in Int : D(q) \in Int
  BY DType
<1>4. /\ \E q \in (k + 1) .. (k + 8) : b = D(q)
      /\ \A q \in (k + 1) .. (k + 8) : b >= D(q)
      /\ \E q \in (k + 1) .. (k + 5) : few = D(q)
  <2>1. /\ k + 1 \in Int /\ k + 8 \in Int /\ k + 5 \in Int
        /\ k + 1 <= k + 8 /\ k + 1 <= k + 5
    BY <1>1
  <2> QED
    BY <2>1, OfPoints
<1> HIDE DEF b, few
<1>5. b \in Int /\ few \in Int
  BY <1>1, <1>3, <1>4
<1>6. k .. (k + 8) = (k + 1) .. (k + 8) \cup {k}
      /\ (k + 1) .. ((k + 1) + 8) = (k + 1) .. (k + 8) \cup {k + 9}
  BY <1>1
<1>7. CASE few >= v
  <2>1. w = v
    BY <1>2, <1>7
  <2>2. PICK q \in (k + 1) .. (k + 5) : few = D(q)
    BY <1>4
  <2>3. q \in k .. (k + 8) /\ q \in (k + 1) .. ((k + 1) + 8)
    BY <1>1
  <2>4. ArcReachesUp(k, w) /\ ArcReachesUp(k + 1, w)
    BY <1>7, <2>1, <2>2, <2>3 DEF ArcReachesUp
  <2> QED
    BY <1>1, <2>1, <2>4 DEF k, v, w
<1>8. CASE ~(few >= v)
  <2>1. D(k) \in Int /\ D(k + 9) \in Int
    BY <1>1, <1>3
  <2>2. /\ m1 = (IF b >= D(k) THEN b ELSE D(k))
        /\ m2 = (IF b >= D(k + 9) THEN b ELSE D(k + 9))
    BY <1>5, <2>1, OfTwo
  <2> HIDE DEF m1, m2
  <2>3. m1 \in Int /\ m2 \in Int /\ m1 >= b /\ m1 >= D(k) /\ m2 >= b /\ m2 >= D(k + 9)
    BY <1>5, <2>1, <2>2
  <2>4. w \in {v, m1, m2} /\ w <= v /\ w <= m1 /\ w <= m2
    BY <1>1, <1>2, <1>8, <2>3, OfThree
  <2>5. ArcReachesUp(k, w)
    <3>1. \E q \in k .. (k + 8) : D(q) = m1
      BY <1>4, <1>6, <2>2
    <3> QED
      BY <1>1, <2>3, <2>4, <3>1 DEF ArcReachesUp
  <2>6. ArcReachesUp(k + 1, w)
    <3>1. \E q \in (k + 1) .. ((k + 1) + 8) : D(q) = m2
      BY <1>4, <1>6, <2>2
    <3> QED
      BY <1>1, <2>3, <2>4, <3>1 DEF ArcReachesUp
  <2>7. w = m1 => ArcBelow(k, w)
    <3>1. \A q \in (k + 1) .. (k + 8) : D(q) <= m1
      BY <1>1, <1>3, <1>4, <1>5, <2>3
    <3> QED
      BY <1>6, <2>1, <2>3, <3>1 DEF ArcBelow
  <2>8. w = m2 => ArcBelow(k + 1, w)
    <3>1. \A q \in (k + 1) .. (k + 8) : D(q) <= m2
      BY <1>1, <1>3, <1>4, <1>5, <2>3
    <3> QED
      BY <1>6, <2>1, <2>3, <3>1 DEF ArcBelow
  <2>9. w \in Int
    BY <1>1, <2>3, <2>4
  <2> QED
    BY <2>4, <2>5, <2>6, <2>7, <2>8, <2>9 DEF k, v, w
<1> QED
  BY <1>7, <1>8

(* All the rounds: after the n'th the first 2n arcs have been looked at. *)
LEMMA AboveAll ==
  ASSUME CornerType
  PROVE  LET A == CornerScore!BestAbove
         IN  /\ A \in Int /\ A >= threshold
             /\ \A k \in 0 .. 15 : ArcReachesDown(k, A)
             /\ A = threshold \/ \E k \in 0 .. 15 : ArcAbove(k, A)
<1>1. threshold \in Int
  BY DEF CornerType, CornerScore!Value
<1> DEFINE Solves(f) == f = [n \in 0 .. 8 |-> AboveAfter(f, n)]
           F == CHOOSE f : Solves(f)
<1>2. \E f : Solves(f)
  <2> DEFINE step == [p \in (1 .. 8) \X Int |-> AboveAfter([n \in 0 .. 7 |-> p[2]], p[1])]
  <2>1. ASSUME NEW p \in (1 .. 8) \X Int
        PROVE  AboveAfter([n \in 0 .. 7 |-> p[2]], p[1]) \in Int
    <3>1. p[1] \in 1 .. 8 /\ p[1] - 1 \in 0 .. 7 /\ p[2] \in Int
      OBVIOUS
    <3>2. [n \in 0 .. 7 |-> p[2]][p[1] - 1] \in Int
      BY <3>1
    <3> QED
      BY <3>1, <3>2, AboveRound
  <2>2. step \in [(1 .. 8) \X Int -> Int]
    BY <2>1
  <2>3. PICK f \in [0 .. 8 -> Int] : f[0] = threshold
        /\ \A n \in 1 .. 8 : f[n] = step[<<n, f[n - 1]>>]
    <3> HIDE DEF step
    <3>1. PICK N, s, t : N = 8 /\ s = threshold /\ t = step
      OBVIOUS
    <3>2. N \in Nat /\ s \in Int /\ IsStep(t, N)
      BY <1>1, <2>2, <3>1 DEF IsStep
    <3>3. \E f : Iterates(f, t, s, N)
      BY <3>2, StepByStep
    <3> QED
      BY <3>1, <3>3 DEF Iterates
  <2>4. f[0] = AboveAfter(f, 0)
    BY <2>3 DEF AboveAfter
  <2>5. ASSUME NEW n \in 1 .. 8 PROVE f[n] = AboveAfter(f, n)
    <3>1. n - 1 \in 0 .. 7 /\ f[n - 1] \in Int /\ <<n, f[n - 1]>> \in (1 .. 8) \X Int /\ n # 0
      BY <2>3
    <3>2. PICK g : g = [l \in 0 .. 7 |-> f[n - 1]]
      OBVIOUS
    <3>3. step[<<n, f[n - 1]>>] = AboveAfter(g, n)
      BY <3>1, <3>2
    <3>4. g[n - 1] = f[n - 1]
      BY <3>1, <3>2
    <3>5. AboveAfter(g, n) = AboveAfter(f, n)
      BY <3>4 DEF AboveAfter
    <3> QED
      BY <2>3, <3>3, <3>5
  <2>6. \A n \in 0 .. 8 : f[n] = AboveAfter(f, n)
    <3>1. \A n \in 0 .. 8 : n = 0 \/ n \in 1 .. 8
      OBVIOUS
    <3> QED
      BY <2>4, <2>5, <3>1
  <2>7. Solves(f)
    <3>1. f = [n \in 0 .. 8 |-> f[n]]
      BY <2>3
    <3> QED
      BY <2>6, <3>1
  <2> HIDE DEF Solves
  <2> QED
    BY <2>7
<1>3. CornerScore!BestAbove = F[8]
  BY DEF CornerScore!BestAbove, AboveAfter
<1> HIDE DEF Solves
<1>4. PICK f : f = F /\ Solves(f)
  BY <1>2
<1> HIDE DEF F
<1>5. /\ f[0] = threshold
      /\ \A n \in 1 .. 8 : f[n] = AboveAfter(f, n)
  <2>1. f = [n \in 0 .. 8 |-> AboveAfter(f, n)]
    BY <1>4 DEF Solves
  <2>2. AboveAfter(f, 0) = threshold
    BY DEF AboveAfter
  <2> QED
    BY <2>1, <2>2
<1> DEFINE Good(n) == /\ f[n] \in Int /\ f[n] >= threshold
                      /\ \A k \in 0 .. (2 * n - 1) : ArcReachesDown(k, f[n])
                      /\ f[n] = threshold \/ \E k \in 0 .. (2 * n - 1) : ArcAbove(k, f[n])
           G == {n \in Nat : n <= 8 => Good(n)}
<1>6. 0 \in G
  BY <1>1, <1>5
<1>7. ASSUME NEW m \in Nat, m \in G
      PROVE  m + 1 \in G
  <2> SUFFICES ASSUME m + 1 <= 8 PROVE Good(m + 1)
    OBVIOUS
  <2>1. Good(m)
    BY <1>7
  <2>2. m + 1 \in 1 .. 8 /\ (m + 1) - 1 = m
    OBVIOUS
  <2>3. PICK n \in 1 .. 8 : n = m + 1
    BY <2>2
  <2>4. /\ f[n] \in Int /\ f[n] >= f[m]
        /\ ArcReachesDown(2 * (n - 1), f[n]) /\ ArcReachesDown(2 * (n - 1) + 1, f[n])
        /\ f[n] = f[m] \/ ArcAbove(2 * (n - 1), f[n]) \/ ArcAbove(2 * (n - 1) + 1, f[n])
    <3>1. f[n - 1] \in Int /\ f[n - 1] = f[m] /\ f[n] = AboveAfter(f, n)
      BY <1>5, <2>1, <2>3
    <3> QED
      BY <3>1, AboveRound
  <2>5. 0 .. (2 * n - 1) = 0 .. (2 * m - 1) \cup {2 * (n - 1), 2 * (n - 1) + 1}
    BY <2>3
  <2>6. ASSUME NEW k \in 0 .. (2 * n - 1)
        PROVE  ArcReachesDown(k, f[n])
    <3>1. CASE k \in 0 .. (2 * m - 1)
      <4>1. PICK q \in k .. (k + 8) : D(q) <= f[m]
        BY <2>1, <3>1 DEF ArcReachesDown
      <4>2. D(q) \in Int
        BY DType
      <4> QED
        BY <2>1, <2>4, <4>1, <4>2 DEF ArcReachesDown
    <3> QED
      BY <2>4, <2>5, <3>1
  <2>7. f[n] = threshold \/ \E k \in 0 .. (2 * n - 1) : ArcAbove(k, f[n])
    BY <2>1, <2>4, <2>5
  <2>8. f[n] >= threshold
    BY <1>1, <2>1, <2>4
  <2> QED
    BY <2>3, <2>4, <2>6, <2>7, <2>8
<1>8. 8 \in G
  <2>1. 8 \in Nat
    OBVIOUS
  <2> HIDE DEF G
  <2> QED
    BY <1>6, <1>7, <2>1, Induction
<1>9. Good(8)
  BY <1>8
<1> QED
  BY <1>3, <1>4, <1>9

LEMMA BelowAll ==
  ASSUME CornerType, NEW s0, s0 \in Int
  PROVE  LET A == CornerScore!BestBelow(s0)
         IN  /\ A \in Int /\ A <= s0
             /\ \A k \in 0 .. 15 : ArcReachesUp(k, A)
             /\ A = s0 \/ \E k \in 0 .. 15 : ArcBelow(k, A)
<1>1. s0 \in Int
  OBVIOUS
<1> DEFINE Solves(f) == f = [n \in 0 .. 8 |-> BelowAfter(f, s0, n)]
           F == CHOOSE f : Solves(f)
<1>2. \E f : Solves(f)
  <2> DEFINE step == [p \in (1 .. 8) \X Int |-> BelowAfter([n \in 0 .. 7 |-> p[2]], s0, p[1])]
  <2>1. ASSUME NEW p \in (1 .. 8) \X Int
        PROVE  BelowAfter([n \in 0 .. 7 |-> p[2]], s0, p[1]) \in Int
    <3>1. p[1] \in 1 .. 8 /\ p[1] - 1 \in 0 .. 7 /\ p[2] \in Int
      OBVIOUS
    <3>2. [n \in 0 .. 7 |-> p[2]][p[1] - 1] \in Int
      BY <3>1
    <3> QED
      BY <3>1, <3>2, BelowRound
  <2>2. step \in [(1 .. 8) \X Int -> Int]
    BY <2>1
  <2>3. PICK f \in [0 .. 8 -> Int] : f[0] = s0 /\ \A n \in 1 .. 8 : f[n] = step[<<n, f[n - 1]>>]
    <3> HIDE DEF step
    <3>1. PICK N, s, t : N = 8 /\ s = s0 /\ t = step
      OBVIOUS
    <3>2. N \in Nat /\ s \in Int /\ IsStep(t, N)
      BY <1>1, <2>2, <3>1 DEF IsStep
    <3>3. \E f : Iterates(f, t, s, N)
      BY <3>2, StepByStep
    <3> QED
      BY <3>1, <3>3 DEF Iterates
  <2>4. f[0] = BelowAfter(f, s0, 0)
    BY <2>3 DEF BelowAfter
  <2>5. ASSUME NEW n \in 1 .. 8 PROVE f[n] = BelowAfter(f, s0, n)
    <3>1. n - 1 \in 0 .. 7 /\ f[n - 1] \in Int /\ <<n, f[n - 1]>> \in (1 .. 8) \X Int /\ n # 0
      BY <2>3
    <3>2. PICK g : g = [l \in 0 .. 7 |-> f[n - 1]]
      OBVIOUS
    <3>3. step[<<n, f[n - 1]>>] = BelowAfter(g, s0, n)
      BY <3>1, <3>2
    <3>4. g[n - 1] = f[n - 1]
      BY <3>1, <3>2
    <3>5. BelowAfter(g, s0, n) = BelowAfter(f, s0, n)
      BY <3>4 DEF BelowAfter
    <3> QED
      BY <2>3, <3>3, <3>5
  <2>6. \A n \in 0 .. 8 : f[n] = BelowAfter(f, s0, n)
    <3>1. \A n \in 0 .. 8 : n = 0 \/ n \in 1 .. 8
      OBVIOUS
    <3> QED
      BY <2>4, <2>5, <3>1
  <2>7. Solves(f)
    <3>1. f = [n \in 0 .. 8 |-> f[n]]
      BY <2>3
    <3> QED
      BY <2>6, <3>1
  <2> HIDE DEF Solves
  <2> QED
    BY <2>7
<1>3. CornerScore!BestBelow(s0) = F[8]
  BY DEF CornerScore!BestBelow, BelowAfter
<1> HIDE DEF Solves
<1>4. PICK f : f = F /\ Solves(f)
  BY <1>2
<1> HIDE DEF F
<1>5. /\ f[0] = s0
      /\ \A n \in 1 .. 8 : f[n] = BelowAfter(f, s0, n)
  <2>1. f = [n \in 0 .. 8 |-> BelowAfter(f, s0, n)]
    BY <1>4 DEF Solves
  <2>2. BelowAfter(f, s0, 0) = s0
    BY DEF BelowAfter
  <2> QED
    BY <2>1, <2>2
<1> DEFINE Good(n) == /\ f[n] \in Int /\ f[n] <= s0
                      /\ \A k \in 0 .. (2 * n - 1) : ArcReachesUp(k, f[n])
                      /\ f[n] = s0 \/ \E k \in 0 .. (2 * n - 1) : ArcBelow(k, f[n])
           G == {n \in Nat : n <= 8 => Good(n)}
<1>6. 0 \in G
  BY <1>1, <1>5
<1>7. ASSUME NEW m \in Nat, m \in G
      PROVE  m + 1 \in G
  <2> SUFFICES ASSUME m + 1 <= 8 PROVE Good(m + 1)
    OBVIOUS
  <2>1. Good(m)
    BY <1>7
  <2>2. m + 1 \in 1 .. 8 /\ (m + 1) - 1 = m
    OBVIOUS
  <2>3. PICK n \in 1 .. 8 : n = m + 1
    BY <2>2
  <2>4. /\ f[n] \in Int /\ f[n] <= f[m]
        /\ ArcReachesUp(2 * (n - 1), f[n]) /\ ArcReachesUp(2 * (n - 1) + 1, f[n])
        /\ f[n] = f[m] \/ ArcBelow(2 * (n - 1), f[n]) \/ ArcBelow(2 * (n - 1) + 1, f[n])
    <3>1. f[n - 1] \in Int /\ f[n - 1] = f[m] /\ f[n] = BelowAfter(f, s0, n)
      BY <1>5, <2>1, <2>3
    <3> QED
      BY <3>1, BelowRound
  <2>5. 0 .. (2 * n - 1) = 0 .. (2 * m - 1) \cup {2 * (n - 1), 2 * (n - 1) + 1}
    BY <2>3
  <2>6. ASSUME NEW k \in 0 .. (2 * n - 1)
        PROVE  ArcReachesUp(k, f[n])
    <3>1. CASE k \in 0 .. (2 * m - 1)
      <4>1. PICK q \in k .. (k + 8) : D(q) >= f[m]
        BY <2>1, <3>1 DEF ArcReachesUp
      <4>2. D(q) \in Int
        BY DType
      <4> QED
        BY <2>1, <2>4, <4>1, <4>2 DEF ArcReachesUp
    <3> QED
      BY <2>4, <2>5, <3>1
  <2>7. f[n] = s0 \/ \E k \in 0 .. (2 * n - 1) : ArcBelow(k, f[n])
    BY <2>1, <2>4, <2>5
  <2>8. f[n] <= s0
    BY <1>1, <2>1, <2>4
  <2> QED
    BY <2>3, <2>4, <2>6, <2>7, <2>8
<1>8. 8 \in G
  <2>1. 8 \in Nat
    OBVIOUS
  <2> HIDE DEF G
  <2> QED
    BY <1>6, <1>7, <2>1, Induction
<1>9. Good(8)
  BY <1>8
<1> QED
  BY <1>3, <1>4, <1>9


-----------------------------------------------------------------------------
(* The run count, and what it counts. *)
CountAfter(f, side, k) ==
  IF k = -1 \/ side \notin CornerScore!Lookup(k) THEN 0 ELSE f[k - 1] + 1

LEMMA RunCount ==
  ASSUME NEW side
  PROVE  \E f : /\ f[-1] = 0
                /\ \A k \in 0 .. 24 :
                     f[k] = IF side \in CornerScore!Lookup(k) THEN f[k - 1] + 1 ELSE 0
                /\ \A k \in -1 .. 24 : f[k] \in Nat
                /\ CornerScore!RunOfNine(side) <=> \E k \in 0 .. 24 : f[k] = 9
<1> DEFINE Solves(f) == f = [k \in -1 .. 24 |-> CountAfter(f, side, k)]
           F == CHOOSE f : Solves(f)
<1>1. \E f : Solves(f)
  <2> DEFINE step == [p \in (1 .. 25) \X Int |->
                        IF side \notin CornerScore!Lookup(p[1] - 1) THEN 0 ELSE p[2] + 1]
  <2>1. step \in [(1 .. 25) \X Int -> Int]
    OBVIOUS
  <2>2. \A n \in 1 .. 25, v \in Int :
          step[<<n, v>>] = IF side \notin CornerScore!Lookup(n - 1) THEN 0 ELSE v + 1
    OBVIOUS
  <2> HIDE DEF step
  <2>3. PICK N, t : N = 25 /\ t = step
    OBVIOUS
  <2>4. N \in Nat /\ 0 \in Int /\ IsStep(t, N)
    BY <2>1, <2>3 DEF IsStep
  <2>5. PICK s : s = 0
    OBVIOUS
  <2>6. \E g : Iterates(g, t, s, N)
    BY <2>4, <2>5, StepByStep
  <2>7. PICK g : /\ g \in [0 .. 25 -> Int] /\ g[0] = 0
                 /\ \A n \in 1 .. 25 : g[n] = step[<<n, g[n - 1]>>]
    BY <2>3, <2>5, <2>6 DEF Iterates
  <2> DEFINE f == [k \in -1 .. 24 |-> g[k + 1]]
  <2>8. ASSUME NEW k \in -1 .. 24 PROVE f[k] = CountAfter(f, side, k)
    <3>1. CASE k = -1
      BY <2>7, <3>1 DEF CountAfter
    <3>2. CASE k # -1
      <4>1. k + 1 \in 1 .. 25 /\ (k + 1) - 1 = k /\ k \in 0 .. 24 /\ k - 1 \in -1 .. 24
        BY <3>2
      <4>2. f[k] = g[k + 1] /\ f[k - 1] = g[k] /\ g[k] \in Int
        BY <2>7, <4>1
      <4>3. g[k + 1] = step[<<k + 1, g[k]>>]
        BY <2>7, <4>1
      <4> HIDE DEF f
      <4> QED
        BY <2>2, <3>2, <4>1, <4>2, <4>3 DEF CountAfter
    <3> QED
      BY <3>1, <3>2
  <2>9. Solves(f)
    BY <2>8
  <2> HIDE DEF Solves, f
  <2> QED
    BY <2>9
<1>2. CornerScore!RunOfNine(side) <=> \E k \in 0 .. 24 : F[k] = 9
  BY DEF CornerScore!RunOfNine, CountAfter
<1> HIDE DEF Solves
<1>3. PICK f : f = F /\ Solves(f)
  BY <1>1
<1> HIDE DEF F
<1>4. f = [k \in -1 .. 24 |-> CountAfter(f, side, k)]
  BY <1>3 DEF Solves
<1>5. f[-1] = 0
  <2>1. -1 \in -1 .. 24
    OBVIOUS
  <2> QED
    BY <1>4, <2>1 DEF CountAfter
<1>6. ASSUME NEW k \in 0 .. 24
      PROVE  f[k] = IF side \in CornerScore!Lookup(k) THEN f[k - 1] + 1 ELSE 0
  <2>1. k \in -1 .. 24 /\ k # -1
    OBVIOUS
  <2>2. f[k] = CountAfter(f, side, k)
    BY <1>4, <2>1
  <2> QED
    BY <2>1, <2>2 DEF CountAfter
<1>7. \A k \in -1 .. 24 : f[k] \in Nat
  <2> DEFINE G == {n \in Nat : n <= 25 => f[n - 1] \in Nat}
  <2>1. 0 \in G
    BY <1>5
  <2>2. ASSUME NEW n \in Nat, n \in G PROVE n + 1 \in G
    <3> SUFFICES ASSUME n + 1 <= 25 PROVE f[n] \in Nat
      OBVIOUS
    <3>1. n \in 0 .. 24 /\ f[n - 1] \in Nat
      BY <2>2
    <3> QED
      BY <1>6, <3>1
  <2>3. ASSUME NEW k \in -1 .. 24 PROVE f[k] \in Nat
    <3>1. k + 1 \in Nat /\ k + 1 <= 25 /\ (k + 1) - 1 = k
      OBVIOUS
    <3>2. Nat \subseteq G
      <4> HIDE DEF G
      <4> QED
        BY <2>1, <2>2, Induction
    <3>3. k + 1 \in G
      BY <3>1, <3>2
    <3> QED
      BY <3>1, <3>3
  <2> QED
    BY <2>3
<1> QED
  BY <1>2, <1>3, <1>5, <1>6, <1>7

Run(side, first) == \A q \in first .. (first + 8) : side \in CornerScore!Lookup(q)

LEMMA CountedRun ==
  ASSUME NEW side
  PROVE  CornerScore!RunOfNine(side) <=> \E first \in 0 .. 16 : Run(side, first)
<1>1. PICK f : /\ f[-1] = 0
               /\ \A k \in 0 .. 24 : f[k] = IF side \in CornerScore!Lookup(k) THEN f[k - 1] + 1 ELSE 0
               /\ \A k \in -1 .. 24 : f[k] \in Nat
               /\ CornerScore!RunOfNine(side) <=> \E k \in 0 .. 24 : f[k] = 9
  BY RunCount
<1>2. ASSUME NEW k \in 0 .. 24, f[k] = 9
      PROVE  \E first \in 0 .. 16 : Run(side, first)
  <2> DEFINE Good(l) == /\ f[l] <= l + 1
                        /\ \A q \in (l - f[l] + 1) .. l : side \in CornerScore!Lookup(q)
             G == {n \in Nat : n <= 25 => Good(n - 1)}
  <2>1. 0 \in G
    BY <1>1
  <2>2. ASSUME NEW n \in Nat, n \in G PROVE n + 1 \in G
    <3> SUFFICES ASSUME n + 1 <= 25 PROVE Good(n)
      OBVIOUS
    <3>1. n \in 0 .. 24 /\ n - 1 \in -1 .. 24 /\ Good(n - 1)
      BY <2>2
    <3>2. f[n - 1] \in Nat /\ f[n] \in Nat
      BY <1>1, <3>1
    <3>3. CASE side \in CornerScore!Lookup(n)
      <4>1. f[n] = f[n - 1] + 1
        BY <1>1, <3>1, <3>3
      <4>2. ASSUME NEW q \in (n - f[n] + 1) .. n PROVE side \in CornerScore!Lookup(q)
        <5>1. q = n \/ q \in ((n - 1) - f[n - 1] + 1) .. (n - 1)
          BY <3>2, <4>1
        <5> QED
          BY <3>1, <3>3, <5>1
      <4> QED
        BY <3>1, <3>2, <4>1, <4>2
    <3>4. CASE side \notin CornerScore!Lookup(n)
      <4>1. f[n] = 0
        BY <1>1, <3>1, <3>4
      <4> QED
        BY <4>1
    <3> QED
      BY <3>3, <3>4
  <2>3. Nat \subseteq G
    <3> HIDE DEF G
    <3> QED
      BY <2>1, <2>2, Induction
  <2>4. k + 1 \in G /\ (k + 1) - 1 = k /\ k + 1 <= 25
    BY <2>3
  <2>5. Good(k)
    BY <2>4
  <2>6. k - 8 \in 0 .. 16 /\ (k - 8) .. ((k - 8) + 8) = (k - f[k] + 1) .. k
    BY <1>2, <2>5
  <2>7. Run(side, k - 8)
    BY <2>5, <2>6 DEF Run
  <2> QED
    BY <2>6, <2>7
<1>3. ASSUME NEW first \in 0 .. 16, Run(side, first)
      PROVE  \E k \in 0 .. 24 : f[k] = 9
  <2> DEFINE G == {n \in Nat : n <= 8 => f[first + n] >= n + 1}
  <2>1. \A n \in 0 .. 8 : f[first + n] = f[first + n - 1] + 1
    <3> SUFFICES ASSUME NEW n \in 0 .. 8 PROVE f[first + n] = f[first + n - 1] + 1
      OBVIOUS
    <3>1. first + n \in first .. (first + 8) /\ first + n \in 0 .. 24
      OBVIOUS
    <3>2. side \in CornerScore!Lookup(first + n)
      BY <1>3, <3>1 DEF Run
    <3> QED
      BY <1>1, <3>1, <3>2
  <2>2. \A k \in -1 .. 24 : f[k] \in Nat
    BY <1>1
  <2>3. 0 \in G
    <3>1. first - 1 \in -1 .. 24 /\ first + 0 = first
      OBVIOUS
    <3>2. f[first - 1] \in Nat /\ f[first] = f[first - 1] + 1
      BY <2>1, <2>2, <3>1
    <3> QED
      BY <3>2
  <2>4. ASSUME NEW n \in Nat, n \in G PROVE n + 1 \in G
    <3> SUFFICES ASSUME n + 1 <= 8 PROVE f[first + (n + 1)] >= (n + 1) + 1
      OBVIOUS
    <3>1. n + 1 \in 0 .. 8 /\ first + (n + 1) - 1 = first + n /\ first + n \in -1 .. 24
      OBVIOUS
    <3>2. f[first + n] >= n + 1 /\ f[first + n] \in Nat
      BY <2>2, <2>4, <3>1
    <3>3. f[first + (n + 1)] = f[first + n] + 1
      BY <2>1, <3>1
    <3> QED
      BY <3>2, <3>3
  <2>5. Nat \subseteq G
    <3> HIDE DEF G
    <3> QED
      BY <2>3, <2>4, Induction
  <2>6. f[first + 8] >= 9 /\ first + 8 \in 0 .. 24
    <3>1. 8 \in G
      BY <2>5
    <3> QED
      BY <3>1
  <2> DEFINE S == {k \in 0 .. 24 : f[k] >= 9}
  <2>7. S \subseteq Nat /\ S # {}
    BY <2>6
  <2>8. PICK k \in S : \A l \in S : k <= l
    BY <2>7, LeastElement
  <2>9. k \in 0 .. 24 /\ f[k] >= 9 /\ k - 1 \in -1 .. 24 /\ f[k - 1] \in Nat
    BY <2>2, <2>8
  <2>10. f[k - 1] < 9
    <3>1. CASE k = 0
      BY <1>1, <3>1
    <3>2. CASE k # 0
      <4>1. k - 1 \in 0 .. 24 /\ ~(k <= k - 1)
        BY <2>9, <3>2
      <4>2. k - 1 \notin S
        BY <2>8, <4>1
      <4> QED
        BY <2>9, <4>1, <4>2
    <3> QED
      BY <3>1, <3>2
  <2>11. f[k] = f[k - 1] + 1
    <3>1. f[k] # 0
      BY <2>2, <2>9
    <3> QED
      BY <1>1, <2>9, <3>1
  <2>12. f[k] = 9
    BY <2>9, <2>10, <2>11
  <2> QED
    BY <2>9, <2>12
<1> QED
  BY <1>1, <1>2, <1>3

(* evaluate_corner_candidate finds exactly the corners. *)
LEMMA SidesOfLookup ==
  ASSUME CornerType, NEW k \in Int
  PROVE  /\ "below" \in CornerScore!Lookup(k) <=> D(k) > threshold
         /\ "above" \in CornerScore!Lookup(k) <=> D(k) < -threshold
         /\ CornerScore!Lookup(k + 16) = CornerScore!Lookup(k)
<1>1. CornerScore!d(k + 16) = CornerScore!d(k)
  BY DType DEF D
<1> QED
  BY <1>1 DEF CornerScore!Lookup, D

LEMMA RunsAreCorners ==
  ASSUME CornerType
  PROVE  (\E side \in CornerScore!Mask : CornerScore!RunOfNine(side))
         <=> CornerScore!CornerAt(threshold)
<1>1. \A k \in Int : /\ "below" \in CornerScore!Lookup(k) <=> D(k) > threshold
                     /\ "above" \in CornerScore!Lookup(k) <=> D(k) < -threshold
                     /\ CornerScore!Lookup(k + 16) = CornerScore!Lookup(k)
  BY SidesOfLookup
<1>2. ASSUME NEW side \in {"below", "above"}, NEW first \in 0 .. 16, Run(side, first)
      PROVE  Run(side, IF first = 16 THEN 0 ELSE first)
  <2>1. CASE first # 16
    BY <1>2, <2>1
  <2>2. CASE first = 16
    <3>1. ASSUME NEW q \in 0 .. (0 + 8) PROVE side \in CornerScore!Lookup(q)
      <4>1. q \in Int /\ q + 16 \in first .. (first + 8)
        BY <2>2
      <4> QED
        BY <1>1, <1>2, <4>1 DEF Run
    <3>2. Run(side, 0)
      BY <3>1 DEF Run
    <3> QED
      BY <2>2, <3>2
  <2> QED
    BY <2>1, <2>2
<1>3. CornerScore!CornerAt(threshold) <=>
        \E first \in 0 .. 15, side \in {"below", "above"} : Run(side, first)
  <2>1. ASSUME NEW first \in 0 .. 15
        PROVE  /\ Run("below", first)
                  <=> \A k \in first .. (first + 8) : CornerScore!d(k) > threshold
               /\ Run("above", first)
                  <=> \A k \in first .. (first + 8) : CornerScore!d(k) < -threshold
    BY <1>1 DEF Run, D
  <2> QED
    BY <2>1 DEF CornerScore!CornerAt, CornerScore!Position
<1>4. ASSUME NEW side \in {"below", "above"}, NEW first \in 0 .. 15, Run(side, first)
      PROVE  side \in CornerScore!Mask
  <2> SUFFICES ASSUME NEW k \in 0 .. 7
               PROVE  side \in CornerScore!Lookup(k) \cup CornerScore!Lookup(k + 8)
    BY DEF CornerScore!Mask
  <2>1. \A q \in first .. (first + 8) : side \in CornerScore!Lookup(q)
    BY <1>4 DEF Run
  <2>2. CASE k \in first .. (first + 8)
    BY <2>1, <2>2
  <2>3. CASE k + 8 \in first .. (first + 8)
    BY <2>1, <2>3
  <2>4. CASE k \notin first .. (first + 8) /\ k + 8 \notin first .. (first + 8)
    <3>1. k + 16 \in first .. (first + 8) /\ k \in Int
      BY <2>4
    <3>2. side \in CornerScore!Lookup(k)
      BY <1>1, <2>1, <3>1
    <3> QED
      BY <3>2
  <2> QED
    BY <2>2, <2>3, <2>4
<1>5. CornerScore!Mask \subseteq {"below", "above"}
  BY DEF CornerScore!Mask
<1>6. ASSUME NEW side \in CornerScore!Mask, CornerScore!RunOfNine(side)
      PROVE  CornerScore!CornerAt(threshold)
  <2>1. PICK first \in 0 .. 16 : Run(side, first)
    BY <1>6, CountedRun
  <2>2. Run(side, IF first = 16 THEN 0 ELSE first) /\ side \in {"below", "above"}
    BY <1>2, <1>5, <1>6, <2>1
  <2>3. (IF first = 16 THEN 0 ELSE first) \in 0 .. 15
    OBVIOUS
  <2> QED
    BY <1>3, <2>2, <2>3
<1>7. ASSUME CornerScore!CornerAt(threshold)
      PROVE  \E side \in CornerScore!Mask : CornerScore!RunOfNine(side)
  <2>1. PICK first \in 0 .. 15, side \in {"below", "above"} : Run(side, first)
    BY <1>3, <1>7
  <2>2. side \in CornerScore!Mask
    BY <1>4, <2>1
  <2>3. first \in 0 .. 16
    OBVIOUS
  <2> QED
    BY <2>1, <2>2, <2>3, CountedRun
<1> QED
  BY <1>6, <1>7

(* What calculate_corner_score returns is below a threshold exactly if the *)
(* pixel is no corner there.                                               *)
LEMMA LargestThreshold ==
  ASSUME CornerType, CornerScore!CornerAt(threshold)
  PROVE  LET s == CornerScore!calculate_corner_score
         IN  s >= threshold /\ CornerScore!CornerAt(s) /\ ~CornerScore!CornerAt(s + 1)
<1>1. threshold \in Int
  BY DEF CornerType, CornerScore!Value
<1>2. PICK A : A = CornerScore!BestAbove
  OBVIOUS
<1>3. /\ A \in Int /\ A >= threshold
      /\ \A k \in 0 .. 15 : ArcReachesDown(k, A)
      /\ A = threshold \/ \E k \in 0 .. 15 : ArcAbove(k, A)
  BY <1>2, AboveAll
<1>4. PICK s0 : s0 = -A
  OBVIOUS
<1>5. PICK B : B = CornerScore!BestBelow(s0)
  OBVIOUS
<1>6. /\ s0 \in Int /\ B \in Int /\ B <= s0
      /\ \A k \in 0 .. 15 : ArcReachesUp(k, B)
      /\ B = s0 \/ \E k \in 0 .. 15 : ArcBelow(k, B)
  BY <1>3, <1>4, <1>5, BelowAll
<1>7. PICK s : s = CornerScore!calculate_corner_score
  OBVIOUS
<1>8. s = -B - 1
  BY <1>2, <1>4, <1>5, <1>7 DEF CornerScore!calculate_corner_score
<1>9. \A q \in Int : D(q) \in Int
  BY DType
<1>10. ASSUME NEW t \in Int
       PROVE  CornerScore!CornerAt(t) <=>
                \E k \in 0 .. 15 : \/ \A q \in k .. (k + 8) : D(q) > t
                                   \/ \A q \in k .. (k + 8) : D(q) < -t
  BY DEF CornerScore!CornerAt, CornerScore!Position, D
<1>11. ASSUME NEW t \in Int, t >= s + 1
       PROVE  ~CornerScore!CornerAt(t)
  <2> SUFFICES ASSUME NEW k \in 0 .. 15
               PROVE  /\ ~\A q \in k .. (k + 8) : D(q) > t
                      /\ ~\A q \in k .. (k + 8) : D(q) < -t
    BY <1>10
  <2>1. PICK q \in k .. (k + 8) : D(q) <= A
    BY <1>3 DEF ArcReachesDown
  <2>2. PICK r \in k .. (k + 8) : D(r) >= B
    BY <1>6 DEF ArcReachesUp
  <2>3. D(q) \in Int /\ D(r) \in Int
    BY <1>9
  <2>4. ~(D(q) > t) /\ ~(D(r) < -t)
    BY <1>3, <1>4, <1>6, <1>8, <1>11, <2>1, <2>2, <2>3
  <2> QED
    BY <2>4
<1>12. s + 1 \in Int /\ s \in Int /\ s + 1 >= threshold
  BY <1>1, <1>3, <1>4, <1>6, <1>8
<1>13. s + 1 > threshold
  BY <1>1, <1>11, <1>12
<1>14. CornerScore!CornerAt(s)
  <2>1. CASE B = s0
    <3>1. A = s + 1 /\ A # threshold
      BY <1>1, <1>3, <1>4, <1>8, <1>13, <2>1
    <3>2. PICK k \in 0 .. 15 : ArcAbove(k, A)
      BY <1>3, <3>1
    <3>3. ASSUME NEW q \in k .. (k + 8) PROVE D(q) > s
      BY <1>9, <1>12, <3>1, <3>2 DEF ArcAbove
    <3> QED
      BY <1>10, <1>12, <3>3
  <2>2. CASE B # s0
    <3>1. PICK k \in 0 .. 15 : ArcBelow(k, B)
      BY <1>6, <2>2
    <3>2. ASSUME NEW q \in k .. (k + 8) PROVE D(q) < -s
      <4>1. D(q) \in Int /\ D(q) <= B
        BY <1>9, <3>1 DEF ArcBelow
      <4> QED
        BY <1>6, <1>8, <4>1
    <3> QED
      BY <1>10, <1>12, <3>2
  <2> QED
    BY <2>1, <2>2
<1>15. s >= threshold /\ CornerScore!CornerAt(s) /\ ~CornerScore!CornerAt(s + 1)
  BY <1>1, <1>11, <1>12, <1>13, <1>14
<1> QED
  BY <1>7, <1>15

(* Saturated or not, the rough checks let every corner pass. *)
LEMMA CornersPass ==
  ASSUME CornerType
  PROVE  CornerScore!CornersPassRoughChecks
<1> SUFFICES ASSUME CornerScore!CornerAt(threshold), NEW others \in BOOLEAN, NEW k \in {0, 4}
             PROVE  CornerScore!RoughCheck(k, others)
  BY DEF CornerScore!CornersPassRoughChecks
<1>1. /\ MaxPixel \in Nat /\ pixel \in 0 .. MaxPixel /\ threshold \in 0 .. MaxPixel
  BY DEF CornerType, CornerScore!Value
<1>2. PICK first \in 0 .. 15 : \/ \A q \in first .. (first + 8) : D(q) > threshold
                               \/ \A q \in first .. (first + 8) : D(q) < -threshold
  BY DEF CornerScore!CornerAt, CornerScore!Position, D
<1>3. PICK q \in first .. (first + 8) : q \in {k, k + 8, k + 16}
  <2>1. \/ k \in first .. (first + 8)
        \/ k + 8 \in first .. (first + 8)
        \/ k + 16 \in first .. (first + 8)
    OBVIOUS
  <2> QED
    BY <2>1
<1>4. CornerScore!At(q) \in CornerScore!OppositePoints(k)
  <2>1. k \in Int /\ CornerScore!At(k + 16) = CornerScore!At(k)
    BY DType
  <2> QED
    BY <1>3, <2>1 DEF CornerScore!OppositePoints
<1>5. CornerScore!At(q) \in 0 .. MaxPixel /\ D(q) = pixel - CornerScore!At(q)
  BY DType
<1>6. CornerScore!Plus = IF pixel + threshold <= MaxPixel THEN pixel + threshold ELSE MaxPixel
  BY <1>1, OfTwo DEF CornerScore!Plus
<1>7. CornerScore!Minus = IF pixel - threshold >= 0 THEN pixel - threshold ELSE 0
  <2>1. pixel - threshold \in Int /\ 0 \in Int
    BY <1>1
  <2>2. \A b \in Int : CornerScore!Max({pixel - threshold, b}) =
                         IF pixel - threshold >= b THEN pixel - threshold ELSE b
    BY <2>1, OfTwo
  <2> QED
    BY <2>1, <2>2 DEF CornerScore!Minus
<1>8. CASE D(q) > threshold
  <2>1. CornerScore!Minus > 0 /\ CornerScore!Minus >= CornerScore!At(q)
    BY <1>1, <1>5, <1>7, <1>8
  <2> QED
    BY <1>4, <2>1 DEF CornerScore!RoughCheck
<1>9. CASE D(q) < -threshold
  <2>1. CornerScore!Plus < MaxPixel /\ CornerScore!At(q) >= CornerScore!Plus
    BY <1>1, <1>5, <1>6, <1>9
  <2> QED
    BY <1>4, <2>1 DEF CornerScore!RoughCheck
<1> QED
  BY <1>2, <1>8, <1>9

CornerInCall ==
  call = "calculate_corner_score" =>
    /\ CornerType
    /\ call_pc = "Done" => CornerScore!ScoreIsLargestThreshold

(* The call of calculate_corner_score keeps its inputs, and ends with      *)
(* their score.                                                            *)
THEOREM ScoreIsInductive == VisionSpec => []CornerInCall
<1>1. VisionInit => CornerInCall
  BY CircleAssumption DEF VisionInit, CornerInCall, CornerType, CornerScore!Init,
                          CornerScore!CircleAssumption
<1>2. CornerInCall /\ [VisionNext]_visionVars => CornerInCall'
  <2> SUFFICES ASSUME CornerInCall, [VisionNext]_visionVars, call' = "calculate_corner_score"
               PROVE  CornerType' /\ (call_pc' = "Done" => CornerScore!ScoreIsLargestThreshold')
    BY DEF CornerInCall
  <2>1. call = "calculate_corner_score" /\ [CornerScore!Next]_CornerScore!vars
    BY DEF VisionNext, visionVars, cornerVars, CornerScore!vars
  <2>2. CornerType /\ UNCHANGED <<pixel, circle, threshold>>
    BY <2>1 DEF CornerInCall, CornerScore!Next, CornerScore!Evaluate, CornerScore!vars
  <2>3. CornerType'
    BY <2>2 DEF CornerType
  <2>4. \A t : CornerScore!CornerAt(t)' = CornerScore!CornerAt(t)
    BY <2>2 DEF CornerScore!CornerAt, CornerScore!d, CornerScore!At
  <2>5. CASE CornerScore!Evaluate
    <3>1. CASE CornerScore!CornerAt(threshold)
      <4>1. score' = CornerScore!calculate_corner_score
        BY <2>2, <2>5, <3>1, RunsAreCorners DEF CornerScore!Evaluate
      <4>2. /\ score' >= threshold /\ CornerScore!CornerAt(score')
               /\ ~CornerScore!CornerAt(score' + 1)
        BY <2>2, <3>1, <4>1, LargestThreshold
      <4> QED
        BY <2>2, <2>3, <2>4, <3>1, <4>2 DEF CornerScore!ScoreIsLargestThreshold
    <3>2. CASE ~CornerScore!CornerAt(threshold)
      <4>1. score' = 0
        BY <2>2, <2>5, <3>2, RunsAreCorners DEF CornerScore!Evaluate
      <4> QED
        BY <2>2, <2>3, <2>4, <3>2, <4>1 DEF CornerScore!ScoreIsLargestThreshold
    <3> QED
      BY <3>1, <3>2
  <2>6. CASE UNCHANGED CornerScore!vars
    <3>1. UNCHANGED <<score, call_pc, threshold>>
      BY <2>6 DEF CornerScore!vars
    <3> QED
      BY <2>1, <2>3, <2>4, <3>1 DEF CornerInCall, CornerScore!ScoreIsLargestThreshold
  <2> QED
    BY <2>1, <2>5, <2>6 DEF CornerScore!Next
<1> QED
  BY <1>1, <1>2, PTL DEF VisionSpec

(* The score of a corner is the largest threshold at which it still is     *)
(* one, that of another pixel 0, and no rough check drops a corner: for    *)
(* all pixels, circles and thresholds.                                     *)
THEOREM CornersGetTheirScore == VisionSpec => []ScoresCorners
<1>1. CornerInCall => ScoresCorners
  BY CornersPass DEF CornerInCall, ScoresCorners, CornerScore!ScoreIsLargestThreshold
<1> QED
  BY <1>1, ScoreIsInductive, PTL

-----------------------------------------------------------------------------
(* The ring holds the rows around y as they were before any of them was    *)
(* written.                                                                *)
RingOfSource ==
  /\ call_pc = "Copy" => y = 1
  /\ call_pc \in {"Shift", "Convolve"} =>
       /\ row_buffer[Blur!row_buffer_ptr(y - 1)] = source[y - 1]
       /\ row_buffer[Blur!row_buffer_ptr(y)] = source[y]
  /\ call_pc = "Convolve" => row_buffer[Blur!row_buffer_ptr(y + 1)] = source[y + 1]

BlurInv == Blur!TypeOK /\ Blur!BlursTheSource /\ RingOfSource

ByteRow == [Blur!Column -> Blur!Byte]

-----------------------------------------------------------------------------
(* Three rows that follow each other have three places in the ring.        *)
LEMMA RingPlaces ==
  ASSUME NEW mid \in Nat \ {0}
  PROVE  /\ Blur!row_buffer_ptr(mid - 1) \in 0 .. 2
         /\ Blur!row_buffer_ptr(mid) \in 0 .. 2
         /\ Blur!row_buffer_ptr(mid + 1) \in 0 .. 2
         /\ Blur!row_buffer_ptr(mid + 1) # Blur!row_buffer_ptr(mid)
         /\ Blur!row_buffer_ptr(mid + 1) # Blur!row_buffer_ptr(mid - 1)
         /\ Blur!row_buffer_ptr(mid) # Blur!row_buffer_ptr(mid - 1)
  BY Z3 DEF Blur!row_buffer_ptr

(* What a shift by two or by one loses. *)
LEMMA Shifts ==
  ASSUME NEW n \in Blur!Byte
  PROVE  /\ n \div 4 \in 0 .. 63 /\ n - 4 * (n \div 4) \in 0 .. 3
         /\ n \div 2 \in 0 .. 127 /\ n - 2 * (n \div 2) \in 0 .. 1
  BY Z3 DEF Blur!Byte

(* A weighted sum of three bytes loses at most eight quarters. *)
LEMMA ThreeShifts ==
  ASSUME NEW k \in Blur!Byte, NEW m \in Blur!Byte, NEW n \in Blur!Byte
  PROVE  LET sum == (k \div 4) + (m \div 2) + (n \div 4)
         IN  /\ sum \in 0 .. 253 /\ k + 2 * m + n \in Int
             /\ 4 * sum - (k + 2 * m + n) \in -8 .. 0
<1> DEFINE p == k \div 4
           q == m \div 2
           r == n \div 4
<1>1. p \in 0 .. 63 /\ k - 4 * p \in 0 .. 3
  BY Shifts
<1>2. q \in 0 .. 127 /\ m - 2 * q \in 0 .. 1
  BY Shifts
<1>3. r \in 0 .. 63 /\ n - 4 * r \in 0 .. 3
  BY Shifts
<1> HIDE DEF p, q, r
<1>4. k + 2 * m + n \in Int
  BY DEF Blur!Byte
<1>5. p + q + r \in 0 .. 253 /\ 4 * (p + q + r) - (k + 2 * m + n) \in -8 .. 0
  BY <1>1, <1>2, <1>3 DEF Blur!Byte
<1> QED
  BY <1>4, <1>5 DEF p, q, r

(* Two such sums in a row lose at most 64 sixteenths. *)
LEMMA TwoSums ==
  ASSUME NEW sum \in Int, NEW h \in Int, NEW mid \in Int, NEW low \in Int,
         NEW k \in Int, NEW m \in Int, NEW n \in Int,
         4 * sum - (h + 2 * mid + low) \in -8 .. 0,
         4 * h - k \in -8 .. 0, 4 * mid - m \in -8 .. 0, 4 * low - n \in -8 .. 0
  PROVE  16 * sum - (k + 2 * m + n) \in -64 .. 0
  OBVIOUS

(* Along a row ... *)
LEMMA HorizontalRounds ==
  ASSUME Blur!SizeAssumption, NEW line \in ByteRow, NEW col \in 1 .. (image_width - 2)
  PROVE  /\ Blur!Horizontal(line, col) \in 0 .. 253
         /\ Blur!Sum(line, col) \in Int
         /\ 4 * Blur!Horizontal(line, col) - Blur!Sum(line, col) \in -8 .. 0
<1>1. line[col - 1] \in Blur!Byte /\ line[col] \in Blur!Byte /\ line[col + 1] \in Blur!Byte
  BY DEF ByteRow, Blur!Column, Blur!SizeAssumption
<1> QED
  BY <1>1, ThreeShifts DEF Blur!Horizontal, Blur!Sum

(* ... and across three rows: the sum fits the byte it is stored in.       *)
LEMMA WeightedRounds ==
  ASSUME Blur!SizeAssumption, NEW a \in ByteRow, NEW b \in ByteRow, NEW c \in ByteRow,
         NEW col \in 1 .. (image_width - 2)
  PROVE  /\ Blur!Weighted(a, b, c, col) \in Blur!Byte
         /\ 16 * Blur!Weighted(a, b, c, col)
               - (Blur!Sum(a, col) + 2 * Blur!Sum(b, col) + Blur!Sum(c, col)) \in -64 .. 0
<1> DEFINE h == Blur!Horizontal(a, col)
           mid == Blur!Horizontal(b, col)
           low == Blur!Horizontal(c, col)
           sum == (h \div 4) + (mid \div 2) + (low \div 4)
<1>1. h \in Blur!Byte /\ mid \in Blur!Byte /\ low \in Blur!Byte
  BY HorizontalRounds DEF Blur!Byte
<1>2. sum \in 0 .. 253 /\ 4 * sum - (h + 2 * mid + low) \in -8 .. 0
  BY <1>1, ThreeShifts
<1>3. Blur!Weighted(a, b, c, col) = sum % 256
  BY DEF Blur!Weighted
<1>4. /\ 4 * h - Blur!Sum(a, col) \in -8 .. 0 /\ Blur!Sum(a, col) \in Int
      /\ 4 * mid - Blur!Sum(b, col) \in -8 .. 0 /\ Blur!Sum(b, col) \in Int
      /\ 4 * low - Blur!Sum(c, col) \in -8 .. 0 /\ Blur!Sum(c, col) \in Int
  BY HorizontalRounds
<1> HIDE DEF h, mid, low, sum
<1>5. Blur!Weighted(a, b, c, col) = sum
  BY <1>2, <1>3, Z3
<1>6. 16 * sum - (Blur!Sum(a, col) + 2 * Blur!Sum(b, col) + Blur!Sum(c, col)) \in -64 .. 0
  <2>1. h \in Int /\ mid \in Int /\ low \in Int /\ sum \in Int
    BY <1>1, <1>2 DEF Blur!Byte
  <2> QED
    BY <1>2, <1>4, <2>1, TwoSums
<1> QED
  BY <1>2, <1>5, <1>6 DEF Blur!Byte

LEMMA BlurredRowType ==
  ASSUME Blur!SizeAssumption, NEW a \in ByteRow, NEW b \in ByteRow, NEW c \in ByteRow
  PROVE  Blur!BlurredRow(a, b, c, image_width) \in ByteRow
<1>1. ASSUME NEW col \in Blur!Column, col # 0, col # image_width - 1
      PROVE  Blur!Weighted(a, b, c, col) \in Blur!Byte
  <2>1. col \in 1 .. (image_width - 2)
    BY <1>1 DEF Blur!Column, Blur!SizeAssumption
  <2> QED
    BY <2>1, WeightedRounds
<1>2. \A col \in Blur!Column : b[col] \in Blur!Byte
  BY DEF ByteRow
<1> QED
  BY <1>1, <1>2 DEF Blur!BlurredRow, ByteRow, Blur!Column

LEMMA BlurInit ==
  ASSUME Blur!SizeAssumption, Blur!Init
  PROVE  BlurInv
<1>1. [Blur!Column -> BlurPixel] \subseteq [Blur!Column -> Blur!Byte]
  BY DEF Blur!SizeAssumption
<1>2. image_data \in [Blur!Row -> [Blur!Column -> Blur!Byte]]
  BY <1>1 DEF Blur!Init
<1>3. row_buffer \in [0 .. 2 -> [Blur!Column -> Blur!Byte]]
  BY DEF Blur!Init, Blur!SizeAssumption
<1> QED
  BY <1>2, <1>3
  DEF Blur!Init, BlurInv, Blur!TypeOK, Blur!BlursTheSource, RingOfSource, Blur!SizeAssumption,
      Blur!Row

LEMMA BlurCopyStep ==
  ASSUME Blur!SizeAssumption, BlurInv, Blur!Copy
  PROVE  BlurInv'
<1>1. y = 1 /\ image_data[0] = source[0] /\ image_data[1] = source[1] /\ 0 \in Blur!Row
      /\ 1 \in Blur!Row
  BY DEF Blur!Copy, BlurInv, RingOfSource, Blur!BlursTheSource, Blur!Row, Blur!SizeAssumption
<1>2. row_buffer' = [row_buffer EXCEPT ![0] = source[0], ![1] = source[1]]
  BY <1>1, Z3 DEF Blur!Copy, Blur!row_buffer_ptr
<1>3. row_buffer'[0] = source[0] /\ row_buffer'[1] = source[1]
  BY <1>2 DEF BlurInv, Blur!TypeOK
<1>4. row_buffer' \in [0 .. 2 -> [Blur!Column -> Blur!Byte]]
  BY <1>1 DEF Blur!Copy, Blur!row_buffer_ptr, BlurInv, Blur!TypeOK
<1>5. Blur!TypeOK'
  BY <1>1, <1>4 DEF Blur!Copy, Blur!More, BlurInv, Blur!TypeOK, Blur!SizeAssumption
<1>6. Blur!BlursTheSource'
  BY DEF Blur!Copy, BlurInv, Blur!BlursTheSource
<1>7. Blur!row_buffer_ptr(0) = 0 /\ Blur!row_buffer_ptr(1) = 1
  BY Z3 DEF Blur!row_buffer_ptr
<1>8. RingOfSource'
  BY <1>1, <1>3, <1>7 DEF Blur!Copy, Blur!More, RingOfSource, Blur!row_buffer_ptr
<1> QED
  BY <1>5, <1>6, <1>8 DEF BlurInv

LEMMA BlurShiftStep ==
  ASSUME Blur!SizeAssumption, BlurInv, Blur!Shift
  PROVE  BlurInv'
<1>1. y \in Nat \ {0} /\ y + 1 \in Blur!Row
  BY DEF Blur!Shift, BlurInv, Blur!TypeOK, Blur!Row, Blur!SizeAssumption
<1>2. image_data[y + 1] = source[y + 1]
  BY <1>1 DEF BlurInv, Blur!BlursTheSource
<1>3. row_buffer' \in [0 .. 2 -> [Blur!Column -> Blur!Byte]]
  BY <1>1, RingPlaces DEF Blur!Shift, BlurInv, Blur!TypeOK
<1>4. Blur!TypeOK'
  BY <1>3 DEF Blur!Shift, BlurInv, Blur!TypeOK
<1>5. Blur!BlursTheSource'
  BY DEF Blur!Shift, BlurInv, Blur!BlursTheSource
<1>6. /\ row_buffer'[Blur!row_buffer_ptr(y - 1)] = source[y - 1]
      /\ row_buffer'[Blur!row_buffer_ptr(y)] = source[y]
      /\ row_buffer'[Blur!row_buffer_ptr(y + 1)] = source[y + 1]
  BY <1>1, <1>2, RingPlaces DEF Blur!Shift, BlurInv, Blur!TypeOK, RingOfSource
<1>7. RingOfSource'
  BY <1>6 DEF Blur!Shift, RingOfSource, Blur!row_buffer_ptr
<1> QED
  BY <1>4, <1>5, <1>7 DEF BlurInv

LEMMA BlurConvolveStep ==
  ASSUME Blur!SizeAssumption, BlurInv, Blur!Convolve
  PROVE  BlurInv'
<1> DEFINE blurred == Blur!BlurredRow(source[y - 1], source[y], source[y + 1], image_width)
<1>1. y \in Nat \ {0} /\ y - 1 \in Blur!Row /\ y \in Blur!Row /\ y + 1 \in Blur!Row
      /\ y < image_height - 1
  BY DEF Blur!Convolve, BlurInv, Blur!TypeOK, Blur!Row, Blur!SizeAssumption
<1>2. image_data' = [image_data EXCEPT ![y] = blurred]
  BY DEF Blur!Convolve, BlurInv, RingOfSource
<1>3. /\ source[y - 1] \in ByteRow /\ source[y] \in ByteRow /\ source[y + 1] \in ByteRow
  BY <1>1 DEF BlurInv, Blur!TypeOK, Blur!SizeAssumption, ByteRow
<1>4. blurred \in [Blur!Column -> Blur!Byte]
  BY <1>3, BlurredRowType DEF ByteRow
<1>5. image_data' \in [Blur!Row -> [Blur!Column -> Blur!Byte]]
  BY <1>1, <1>2, <1>4 DEF BlurInv, Blur!TypeOK
<1>6. Blur!TypeOK'
  BY <1>1, <1>5 DEF Blur!Convolve, Blur!More, BlurInv, Blur!TypeOK, Blur!SizeAssumption
<1>7. Blur!BlursTheSource'
  <2> SUFFICES ASSUME NEW r \in Blur!Row
               PROVE  image_data'[r] =
                        IF 0 < r /\ r < y + 1
                          THEN Blur!BlurredRow(source[r - 1], source[r], source[r + 1], image_width)
                          ELSE source[r]
    BY DEF Blur!Convolve, Blur!BlursTheSource
  <2> HIDE DEF blurred
  <2>1. CASE r = y
    BY <1>1, <1>2, <2>1 DEF BlurInv, Blur!TypeOK, blurred
  <2>2. CASE r # y
    <3>1. image_data'[r] = image_data[r] /\ (r < y <=> r < y + 1)
      BY <1>1, <1>2, <2>2 DEF BlurInv, Blur!TypeOK, Blur!Row
    <3> QED
      BY <3>1 DEF BlurInv, Blur!BlursTheSource
  <2> QED
    BY <2>1, <2>2
<1>8. RingOfSource'
  <2>1. /\ row_buffer[Blur!row_buffer_ptr(y)] = source[y]
        /\ row_buffer[Blur!row_buffer_ptr(y + 1)] = source[y + 1]
    BY DEF Blur!Convolve, BlurInv, RingOfSource
  <2>2. y' - 1 = y /\ y' = y + 1 /\ call_pc' \in {"Shift", "Done"}
    BY <1>1 DEF Blur!Convolve, Blur!More
  <2> QED
    BY <2>1, <2>2 DEF Blur!Convolve, RingOfSource, Blur!row_buffer_ptr
<1> QED
  BY <1>6, <1>7, <1>8 DEF BlurInv

LEMMA BlurStep ==
  ASSUME Blur!SizeAssumption, BlurInv, [Blur!Next]_Blur!vars
  PROVE  BlurInv'
<1>1. CASE UNCHANGED Blur!vars
  BY <1>1 DEF Blur!vars, BlurInv, Blur!TypeOK, Blur!BlursTheSource, RingOfSource,
              Blur!row_buffer_ptr
<1> QED
  BY <1>1, BlurCopyStep, BlurShiftStep, BlurConvolveStep DEF Blur!Next

LEMMA BlurRounds ==
  ASSUME Blur!SizeAssumption, BlurInv
  PROVE  Blur!RoundsDown
<1> SUFFICES ASSUME NEW r \in 1 .. (y - 1), NEW col \in 1 .. (image_width - 2)
             PROVE  16 * image_data[r][col]
                      - (Blur!Sum(source[r - 1], col) + 2 * Blur!Sum(source[r], col)
                         + Blur!Sum(source[r + 1], col))
                    \in -64 .. 0
  BY DEF Blur!RoundsDown
<1>1. r \in Blur!Row /\ r - 1 \in Blur!Row /\ r + 1 \in Blur!Row /\ 0 < r /\ r < y
  BY DEF BlurInv, Blur!TypeOK, Blur!Row, Blur!SizeAssumption
<1>2. image_data[r] = Blur!BlurredRow(source[r - 1], source[r], source[r + 1], image_width)
  BY <1>1 DEF BlurInv, Blur!BlursTheSource
<1>3. col \in 0 .. (image_width - 1) /\ col # 0 /\ col # image_width - 1
  BY DEF Blur!SizeAssumption
<1>4. image_data[r][col] = Blur!Weighted(source[r - 1], source[r], source[r + 1], col)
  BY <1>2, <1>3 DEF Blur!BlurredRow
<1>5. source[r - 1] \in ByteRow /\ source[r] \in ByteRow /\ source[r + 1] \in ByteRow
  BY <1>1 DEF BlurInv, Blur!TypeOK, Blur!SizeAssumption, ByteRow
<1> QED
  BY <1>4, <1>5, WeightedRounds

BlurInCall == call = "blur_inplace" => BlurInv

(* The invariant of the call of blur_inplace is inductive. *)
THEOREM BlurIsInductive == VisionSpec => []BlurInCall
<1>1. VisionInit => BlurInCall
  BY BlurInit, BlurAssumption DEF BlurInCall, VisionInit
<1>2. BlurInCall /\ [VisionNext]_visionVars => BlurInCall'
  <2> SUFFICES ASSUME BlurInCall, [VisionNext]_visionVars, call' = "blur_inplace" PROVE BlurInv'
    BY DEF BlurInCall
  <2>1. call = "blur_inplace" /\ [Blur!Next]_Blur!vars
    BY DEF VisionNext, visionVars, imageVars, Blur!vars
  <2> QED
    BY <2>1, BlurStep, BlurAssumption DEF BlurInCall
<1> QED
  BY <1>1, <1>2, PTL DEF VisionSpec

(* blur_inplace is a blur of the image as it was, with rows of any length  *)
(* and any number of them, and its shifts make a pixel darker by at most   *)
(* four: the ring always holds the rows that are still needed.             *)
THEOREM BlurIsInPlace == VisionSpec => []BlursInPlace
<1>1. BlurInCall => BlursInPlace
  BY BlurRounds, BlurAssumption DEF BlurInCall, BlurInv, BlursInPlace
<1> QED
  BY <1>1, BlurIsInductive, PTL

-----------------------------------------------------------------------------
(* What has not been written over yet is as it was, and the row buffer     *)
(* holds the two rows that are averaged next.                              *)
Unread == \A a \in Downsample!Address : a >= Downsample!new_width * row => data[a] = source[a]

RowsRead ==
  call_pc = "Average"
  => row_buffer = [b \in Downsample!Buffer |-> source[source_width * row * 2 + b]]

DownsampleInv == Downsample!TypeOK /\ Unread /\ RowsRead /\ Downsample!IsDownsampled

-----------------------------------------------------------------------------
LEMMA Half ==
  ASSUME NEW n \in Nat
  PROVE  n \div 2 \in Nat /\ 2 * (n \div 2) <= n /\ n <= 2 * (n \div 2) + 1
  BY Z3

LEMMA Product ==
  ASSUME NEW a \in Nat, NEW b \in Nat
  PROVE  a * b \in Nat
  BY Z3

LEMMA Larger ==
  ASSUME NEW c \in Nat, NEW a \in Nat, NEW b \in Nat, a <= b
  PROVE  c * a <= c * b
<1>1. PICK d \in Nat : b = a + d
  <2>1. b - a \in Nat /\ b = a + (b - a)
    OBVIOUS
  <2> QED
    BY <2>1
<1>2. c * b = c * a + c * d
  BY <1>1, Z3
<1>3. c * a \in Nat /\ c * d \in Nat
  BY Product
<1> QED
  BY <1>2, <1>3

LEMMA OneMore ==
  ASSUME NEW c \in Nat, NEW a \in Nat
  PROVE  c * (a + 1) = c * a + c
  BY Z3

(* The two rows that are read and the one that is written lie in the       *)
(* image, and none of those that are read was written before.              *)
LEMMA RowPlaces ==
  ASSUME NEW W \in Nat, NEW H \in Nat, NEW k \in Nat, k < H \div 2
  PROVE  LET w == W \div 2 IN
         /\ w \in Nat /\ 2 * w <= W
         /\ W * k * 2 \in Nat /\ W * k * 2 + 2 * W <= W * H
         /\ w * k \in Nat /\ w * k <= W * k * 2
         /\ w * (k + 1) = w * k + w /\ w * k + w <= W * H
<1> DEFINE w == W \div 2
           h == H \div 2
<1>1. w \in Nat /\ 2 * w <= W /\ h \in Nat /\ 2 * h <= H
  BY Half
<1>2. k < h
  OBVIOUS
<1> HIDE DEF w, h
<1>3. k + 1 <= H /\ 2 * (k + 1) <= H
  BY <1>1, <1>2
<1>4. /\ W * k \in Nat /\ w * k \in Nat /\ W * (k + 1) = W * k + W /\ w * (k + 1) = w * k + w
  BY <1>1, Product, OneMore
<1>5. W * (2 * (k + 1)) <= W * H
  BY <1>3, Larger
<1>6. W * (2 * (k + 1)) = W * k * 2 + 2 * W
  BY Z3
<1>7. w * k <= W * k
  <2>1. k * w <= k * W
    BY <1>1, Larger
  <2>2. k * w = w * k /\ k * W = W * k
    BY <1>1, Z3
  <2> QED
    BY <2>1, <2>2
<1>8. W * (k + 1) <= W * H
  BY <1>3, Larger
<1>9. W * k \in Nat /\ W * H \in Nat /\ w * k \in Nat /\ W * k * 2 \in Nat
  <2>1. W * H \in Nat
    BY Product
  <2> QED
    BY <1>4, <2>1
<1>10. w * k + w <= W * H
  BY <1>1, <1>4, <1>7, <1>8, <1>9
<1>11. w * k <= W * k * 2
  BY <1>7, <1>9
<1> QED
  BY <1>1, <1>4, <1>5, <1>6, <1>9, <1>10, <1>11 DEF w

(* Rows of the smaller image do not overlap. *)
LEMMA RowsApart ==
  ASSUME NEW w \in Nat, NEW k \in Nat, NEW line \in 0 .. (k - 1), NEW col \in 0 .. (w - 1)
  PROVE  w * line + col \in Nat /\ w * line + col < w * k
<1>1. w * (line + 1) <= w * k
  BY Larger
<1>2. w * (line + 1) = w * line + w /\ w * line \in Nat /\ w * k \in Nat
  BY Product, OneMore
<1> QED
  BY <1>1, <1>2

LEMMA AverageOfBytes ==
  ASSUME NEW W \in Nat, NEW upper \in [0 .. (W - 1) -> Downsample!Byte],
         NEW lower \in [0 .. (W - 1) -> Downsample!Byte],
         NEW k \in 0 .. ((W \div 2) - 1)
  PROVE  Downsample!Average(upper, lower, k) \in Downsample!Byte
<1> DEFINE w == W \div 2
<1>1. w \in Nat /\ 2 * w <= W
  BY Half
<1>2. k \in 0 .. (w - 1)
  OBVIOUS
<1> HIDE DEF w
<1>3. 2 * k \in 0 .. (W - 1) /\ 2 * k + 1 \in 0 .. (W - 1)
  BY <1>1, <1>2
<1>4. /\ upper[2 * k] \in Downsample!Byte /\ upper[2 * k + 1] \in Downsample!Byte
      /\ lower[2 * k] \in Downsample!Byte /\ lower[2 * k + 1] \in Downsample!Byte
  BY <1>3
<1>5. \A a, b, c, d \in Downsample!Byte : (a + b + c + d) \div 4 \in Downsample!Byte
  BY Z3 DEF Downsample!Byte
<1> QED
  BY <1>4, <1>5 DEF Downsample!Average

-----------------------------------------------------------------------------
LEMMA DownsampleInit == Downsample!SizeAssumption /\ Downsample!Init => DownsampleInv
<1> SUFFICES ASSUME Downsample!SizeAssumption, Downsample!Init PROVE DownsampleInv
  OBVIOUS
<1>1. source_width \in Nat \ {0} /\ source_height \in Nat \ {0}
      /\ DownsamplePixel \subseteq Downsample!Byte
  BY DEF Downsample!Init, Downsample!SizeAssumption
<1>2. Downsample!new_width \in Nat /\ Downsample!new_height \in Nat
      /\ 2 * Downsample!new_width <= source_width
  BY <1>1, Half DEF Downsample!new_width, Downsample!new_height
<1>3. source \in [Downsample!Address -> DownsamplePixel]
      /\ data \in [Downsample!Address -> Downsample!Byte] /\ data = source
  BY <1>1 DEF Downsample!Init
<1>4. row_buffer \in [Downsample!Buffer -> Downsample!Byte]
  BY <1>1 DEF Downsample!Init
<1>5. Downsample!new_width # source_width
  BY <1>1, <1>2
<1>6. Downsample!TypeOK
  BY <1>1, <1>2, <1>3, <1>4, <1>5 DEF Downsample!Init, Downsample!TypeOK
<1>7. Unread /\ RowsRead
  BY <1>3 DEF Downsample!Init, Unread, RowsRead
<1>8. Downsample!IsDownsampled
  BY DEF Downsample!Init, Downsample!IsDownsampled
<1> QED
  BY <1>6, <1>7, <1>8 DEF DownsampleInv

LEMMA DownsampleCopyStep ==
  Downsample!SizeAssumption /\ DownsampleInv /\ Downsample!Copy => DownsampleInv'
<1> SUFFICES ASSUME Downsample!SizeAssumption, DownsampleInv, Downsample!Copy PROVE DownsampleInv'
  OBVIOUS
<1>1. /\ source_width \in Nat /\ source_height \in Nat /\ row \in Nat /\ row < source_height \div 2
      /\ width = source_width
  BY Half DEF DownsampleInv, Downsample!TypeOK, Downsample!Copy, Downsample!new_height
<1>2. UNCHANGED <<Downsample!Address, Downsample!Buffer,
                    Downsample!new_width, Downsample!new_height>>
  BY DEF Downsample!Copy, Downsample!image, Downsample!Address, Downsample!Buffer,
         Downsample!new_width, Downsample!new_height
<1>3. /\ Downsample!new_width * row <= source_width * row * 2 /\ Downsample!new_width * row \in Nat
      /\ source_width * row * 2 \in Nat
      /\ source_width * row * 2 + 2 * source_width <= source_width * source_height
  BY <1>1, RowPlaces DEF Downsample!new_width
<1>4. source_width * source_height \in Nat
  BY <1>1, Product
<1>5. ASSUME NEW b \in Downsample!Buffer
      PROVE  /\ source_width * row * 2 + b \in Downsample!Address
             /\ data[source_width * row * 2 + b] = source[source_width * row * 2 + b]
             /\ data[source_width * row * 2 + b] \in Downsample!Byte
  <2>1. /\ source_width * row * 2 + b \in Downsample!Address
        /\ source_width * row * 2 + b >= Downsample!new_width * row
    <3> DEFINE p == source_width * row * 2
               q == Downsample!new_width * row
               n == source_width * source_height
    <3>1. b \in 0 .. (2 * source_width - 1) /\ Downsample!Address = 0 .. (n - 1)
      BY DEF Downsample!Buffer, Downsample!Address
    <3>2. p \in Nat /\ q \in Nat /\ q <= p /\ p + 2 * source_width <= n /\ n \in Nat
      BY <1>3, <1>4
    <3> HIDE DEF p, q, n
    <3>3. p + b \in Downsample!Address /\ p + b >= q
      BY <1>1, <3>1, <3>2
    <3> QED
      BY <3>3 DEF p, q
  <2> QED
    BY <2>1 DEF DownsampleInv, Unread, Downsample!TypeOK
<1>6. row_buffer' = [b \in Downsample!Buffer |-> source[source_width * row * 2 + b]]
      /\ row_buffer' \in [Downsample!Buffer -> Downsample!Byte]
  BY <1>1, <1>5 DEF Downsample!Copy
<1>7. Downsample!TypeOK'
  BY <1>2, <1>6 DEF DownsampleInv, Downsample!TypeOK, Downsample!Copy, Downsample!image
<1>8. Unread' /\ RowsRead'
  BY <1>2, <1>6 DEF DownsampleInv, Unread, RowsRead, Downsample!Copy, Downsample!image
<1>9. Downsample!IsDownsampled'
  BY <1>2 DEF DownsampleInv, Downsample!IsDownsampled, Downsample!SourceRow, Downsample!Copy,
              Downsample!image
<1> QED
  BY <1>7, <1>8, <1>9 DEF DownsampleInv

LEMMA DownsampleAverageStep ==
  Downsample!SizeAssumption /\ DownsampleInv /\ Downsample!AverageRow => DownsampleInv'
<1> SUFFICES ASSUME Downsample!SizeAssumption, DownsampleInv, Downsample!AverageRow
             PROVE  DownsampleInv'
  OBVIOUS
<1>1. /\ source_width \in Nat \ {0} /\ source_height \in Nat \ {0} /\ row \in Nat
      /\ row < source_height \div 2 /\ row < Downsample!new_height /\ call_pc = "Average"
      /\ row_buffer \in [Downsample!Buffer -> Downsample!Byte]
      /\ width = source_width /\ height = source_height
  BY Half DEF DownsampleInv, Downsample!TypeOK, Downsample!AverageRow, Downsample!new_height
<1>2. UNCHANGED <<source, source_width, source_height, width, height, row_buffer,
                  Downsample!Address, Downsample!Buffer,
                  Downsample!new_width, Downsample!new_height>>
  BY DEF Downsample!AverageRow, Downsample!image, Downsample!Address, Downsample!Buffer,
         Downsample!new_width, Downsample!new_height
<1>3. /\ Downsample!new_width \in Nat /\ 2 * Downsample!new_width <= source_width
      /\ Downsample!new_width * row \in Nat
         /\ Downsample!new_width * (row + 1) = Downsample!new_width * row + Downsample!new_width
      /\ Downsample!new_width * row + Downsample!new_width <= source_width * source_height
      /\ source_width * row * 2 \in Nat
  BY <1>1, RowPlaces DEF Downsample!new_width
<1> DEFINE at == Downsample!new_width * row
           n == source_width * source_height
<1>4. n \in Nat /\ Downsample!Address = 0 .. (n - 1)
  BY <1>1, Product DEF Downsample!Address
<1>5. Downsample!Upper \in [0 .. (source_width - 1) -> Downsample!Byte]
      /\ Downsample!Lower \in [0 .. (source_width - 1) -> Downsample!Byte]
  <2>1. \A col \in 0 .. (source_width - 1) :
          col \in Downsample!Buffer /\ source_width + col \in Downsample!Buffer
    BY <1>1 DEF Downsample!Buffer
  <2> QED
    BY <1>1, <2>1 DEF Downsample!Upper, Downsample!Lower
<1>6. Downsample!Upper = Downsample!SourceRow(2 * row)
      /\ Downsample!Lower = Downsample!SourceRow(2 * row + 1)
  <2>1. /\ source_width * row * 2 = source_width * (2 * row)
        /\ source_width * (2 * row + 1) = source_width * (2 * row) + source_width
        /\ source_width * (2 * row) \in Nat
    BY <1>1, <1>3, Z3
  <2>2. row_buffer = [b \in Downsample!Buffer |-> source[source_width * (2 * row) + b]]
    BY <1>1, <2>1 DEF DownsampleInv, RowsRead
  <2> DEFINE p == source_width * (2 * row)
  <2>3. ASSUME NEW col \in 0 .. (source_width - 1)
        PROVE  /\ row_buffer[col] = source[p + col]
               /\ row_buffer[source_width + col] = source[source_width * (2 * row + 1) + col]
    <3>1. col \in Downsample!Buffer /\ source_width + col \in Downsample!Buffer
      BY <1>1 DEF Downsample!Buffer
    <3>2. row_buffer[col] = source[p + col]
          /\ row_buffer[source_width + col] = source[p + (source_width + col)]
      BY <2>2, <3>1
    <3>3. p + (source_width + col) = source_width * (2 * row + 1) + col
      <4>1. p \in Nat /\ source_width * (2 * row + 1) = p + source_width
        BY <2>1
      <4> HIDE DEF p
      <4> QED
        BY <1>1, <4>1
    <3> QED
      BY <3>2, <3>3
  <2> QED
    BY <2>3 DEF Downsample!Upper, Downsample!Lower, Downsample!SourceRow
<1>7. data' = [a \in Downsample!Address |-> IF a \in at .. (at + Downsample!new_width - 1)
                                   THEN Downsample!Average(Downsample!Upper, Downsample!Lower, a - at)
                                    ELSE data[a]]
  BY DEF Downsample!AverageRow
<1>8. at \in Nat /\ at + Downsample!new_width <= n
      /\ Downsample!new_width * (row + 1) = at + Downsample!new_width
  BY <1>3
<1> HIDE DEF at, n
<1>9. data' \in [Downsample!Address -> Downsample!Byte]
  <2> SUFFICES ASSUME NEW a \in Downsample!Address PROVE data'[a] \in Downsample!Byte
    BY <1>7
  <2>1. CASE a \in at .. (at + Downsample!new_width - 1)
    <3>1. a - at \in 0 .. (Downsample!new_width - 1)
      BY <1>3, <1>8, <2>1
    <3>2. Downsample!Average(Downsample!Upper, Downsample!Lower, a - at) \in Downsample!Byte
      BY <1>1, <1>5, <3>1, AverageOfBytes DEF Downsample!new_width
    <3> QED
      BY <1>7, <2>1, <3>2
  <2>2. CASE a \notin at .. (at + Downsample!new_width - 1)
    BY <1>7, <2>2 DEF DownsampleInv, Downsample!TypeOK
  <2> QED
    BY <2>1, <2>2
<1>10. row' = row + 1 /\ call_pc' = "Copy"
  BY DEF Downsample!AverageRow
<1>11. Downsample!TypeOK'
  <2>1. Downsample!new_height \in Nat /\ row' \in 0 .. Downsample!new_height
    BY <1>1, <1>10, Half DEF Downsample!new_height
  <2>2. Downsample!new_width # source_width
    BY <1>1, <1>3
  <2> QED
    BY <1>1, <1>2, <1>9, <1>10, <2>1, <2>2 DEF DownsampleInv, Downsample!TypeOK
<1>12. Unread'
  <2> SUFFICES ASSUME NEW a \in Downsample!Address, a >= Downsample!new_width * (row + 1)
               PROVE  data'[a] = source[a]
    BY <1>2, <1>10 DEF Unread
  <2>1. a >= at /\ a \notin at .. (at + Downsample!new_width - 1)
    BY <1>3, <1>4, <1>8
  <2> QED
    BY <1>7, <2>1 DEF DownsampleInv, Unread, at
<1>13. RowsRead'
  BY <1>10 DEF RowsRead
<1>14. Downsample!IsDownsampled'
  <2> SUFFICES ASSUME NEW line \in 0 .. row, NEW col \in 0 .. (Downsample!new_width - 1)
               PROVE  data'[Downsample!new_width * line + col] =
                        Downsample!Average(Downsample!SourceRow(2 * line),
                                           Downsample!SourceRow(2 * line + 1), col)
    <3>1. 0 .. (row' - 1) = 0 .. row
      BY <1>1, <1>10
    <3> QED
      BY <1>2, <3>1 DEF Downsample!IsDownsampled, Downsample!SourceRow
  <2>1. CASE line = row
    <3>1. at + col \in Downsample!Address /\ at + col \in at .. (at + Downsample!new_width - 1)
          /\ (at + col) - at = col
      BY <1>3, <1>4, <1>8
    <3>2. data'[at + col] = Downsample!Average(Downsample!Upper, Downsample!Lower, col)
      BY <1>7, <3>1
    <3> QED
      BY <1>6, <2>1, <3>2 DEF at
  <2>2. CASE line # row
    <3>1. line \in 0 .. (row - 1)
      BY <1>1, <2>2
    <3> DEFINE a == Downsample!new_width * line + col
    <3>2. a \in Nat /\ a < at
      BY <1>1, <1>3, <3>1, RowsApart DEF at
    <3>3. data[a] = Downsample!Average(Downsample!SourceRow(2 * line),
                                     Downsample!SourceRow(2 * line + 1), col)
      BY <3>1 DEF DownsampleInv, Downsample!IsDownsampled
    <3> HIDE DEF a
    <3>4. a \in Downsample!Address /\ a \notin at .. (at + Downsample!new_width - 1)
      BY <1>3, <1>4, <1>8, <3>2
    <3>5. data'[a] = data[a]
      BY <1>7, <3>4
    <3> QED
      BY <3>3, <3>5 DEF a
  <2> QED
    BY <2>1, <2>2
<1> QED
  BY <1>11, <1>12, <1>13, <1>14 DEF DownsampleInv

LEMMA DownsampleStep ==
  Downsample!SizeAssumption /\ DownsampleInv /\ [Downsample!Next]_Downsample!vars => DownsampleInv'
<1> SUFFICES ASSUME Downsample!SizeAssumption, DownsampleInv, [Downsample!Next]_Downsample!vars
             PROVE  DownsampleInv'
  OBVIOUS
<1>1. CASE Downsample!Finish
  <2>1. UNCHANGED <<Downsample!Address, Downsample!Buffer,
                    Downsample!new_width, Downsample!new_height>>
    BY <1>1 DEF Downsample!Finish, Downsample!image, Downsample!Address, Downsample!Buffer,
                Downsample!new_width, Downsample!new_height
  <2>2. Downsample!TypeOK'
    BY <1>1, <2>1 DEF Downsample!Finish, Downsample!image, DownsampleInv, Downsample!TypeOK
  <2>3. Unread' /\ RowsRead'
    BY <1>1, <2>1 DEF Downsample!Finish, Downsample!image, DownsampleInv, Unread, RowsRead
  <2>4. Downsample!IsDownsampled'
    BY <1>1, <2>1 DEF Downsample!Finish, Downsample!image, DownsampleInv, Downsample!IsDownsampled,
                      Downsample!SourceRow
  <2> QED
    BY <2>2, <2>3, <2>4 DEF DownsampleInv
<1>2. CASE UNCHANGED Downsample!vars
  <2>1. UNCHANGED <<Downsample!Address, Downsample!Buffer,
                    Downsample!new_width, Downsample!new_height>>
    BY <1>2 DEF Downsample!vars, Downsample!image, Downsample!Address, Downsample!Buffer,
                Downsample!new_width, Downsample!new_height
  <2>2. Downsample!TypeOK'
    BY <1>2, <2>1 DEF Downsample!vars, Downsample!image, DownsampleInv, Downsample!TypeOK
  <2>3. Unread' /\ RowsRead'
    BY <1>2, <2>1 DEF Downsample!vars, Downsample!image, DownsampleInv, Unread, RowsRead
  <2>4. Downsample!IsDownsampled'
    BY <1>2, <2>1 DEF Downsample!vars, Downsample!image, DownsampleInv, Downsample!IsDownsampled,
                      Downsample!SourceRow
  <2> QED
    BY <2>2, <2>3, <2>4 DEF DownsampleInv
<1> QED
  BY <1>1, <1>2, DownsampleCopyStep, DownsampleAverageStep DEF Downsample!Next

DownsampleInCall == call = "downsample_inplace" => DownsampleInv

(* The invariant of the call of downsample_inplace is inductive. *)
THEOREM DownsampleIsInductive == VisionSpec => []DownsampleInCall
<1>1. VisionInit => DownsampleInCall
  BY DownsampleInit, DownsampleAssumption DEF DownsampleInCall, VisionInit
<1>2. DownsampleInCall /\ [VisionNext]_visionVars => DownsampleInCall'
  <2> SUFFICES ASSUME DownsampleInCall, [VisionNext]_visionVars, call' = "downsample_inplace"
               PROVE  DownsampleInv'
    BY DEF DownsampleInCall
  <2>1. call = "downsample_inplace" /\ [Downsample!Next]_Downsample!vars
    BY DEF VisionNext, visionVars, imageVars, sizeVars, Downsample!vars, Downsample!image
  <2> QED
    BY <2>1, DownsampleStep, DownsampleAssumption DEF DownsampleInCall
<1> QED
  BY <1>1, <1>2, PTL DEF VisionSpec

(* The rows downsample_inplace has written are the averages of the image   *)
(* as it was, in every size: what is still to be read has not been written *)
(* over.                                                                   *)
THEOREM DownsamplesTheSource == VisionSpec => []IsDownsampled
<1>1. DownsampleInCall => IsDownsampled
  BY DEF DownsampleInCall, DownsampleInv, IsDownsampled
<1> QED
  BY <1>1, DownsampleIsInductive, PTL

-----------------------------------------------------------------------------
(* Each level takes a quarter of the room of the one below at most, so the *)
(* levels that are to come take a third: of what a level leaves, three     *)
(* times the room that is used never exceeds the picture.                  *)
Used ==
  3 * offset + (IF call_pc = "Downsample" THEN Pyramid!Size(images[at_level - 1]) ELSE 0)
    <= WIDTH * HEIGHT

Halved ==
  /\ images[0] = [data |-> 0, width |-> WIDTH, height |-> HEIGHT]
  /\ \A l \in Pyramid!Level \ {0} : Pyramid!Placed(l) =>
       /\ images[l].width = images[l - 1].width \div 2
       /\ images[l].height = images[l - 1].height \div 2

InBuffer ==
  \A l \in Pyramid!Level \ {0} : Pyramid!Placed(l) =>
    /\ images[l].data >= WIDTH * HEIGHT
    /\ images[l].data + Pyramid!Size(images[l]) <= WIDTH * HEIGHT + offset

Stacked ==
  \A k, l \in Pyramid!Level : Pyramid!Placed(l) /\ k < l =>
    images[k].data + Pyramid!Size(images[k]) <= images[l].data

RoomInv == Pyramid!TypeOK /\ Halved /\ InBuffer /\ Stacked /\ Used

LEMMA QuarterSize ==
  ASSUME NEW w \in Nat, NEW h \in Nat
  PROVE  /\ w \div 2 \in Nat /\ h \div 2 \in Nat /\ (w \div 2) * (h \div 2) \in Nat
         /\ 4 * ((w \div 2) * (h \div 2)) <= w * h
<1> DEFINE v == w \div 2
           g == h \div 2
<1>1. v \in Nat /\ 2 * v <= w /\ g \in Nat /\ 2 * g <= h
  BY Half
<1> HIDE DEF v, g
<1>2. (2 * v) * (2 * g) <= (2 * v) * h
  BY <1>1, Larger
<1>3. h * (2 * v) <= h * w
  BY <1>1, Larger
<1>4. /\ (2 * v) * (2 * g) = 4 * (v * g) /\ h * (2 * v) = (2 * v) * h /\ h * w = w * h
      /\ v * g \in Nat /\ h * w \in Nat /\ h * (2 * v) \in Nat
  BY <1>1, Product, Z3
<1>5. v * g \in Nat /\ 4 * (v * g) <= w * h
  BY <1>2, <1>3, <1>4
<1> QED
  BY <1>1, <1>5 DEF v, g

(* A pixel's address in an image of rows that follow each other, and back. *)
LEMMA AddressOfPixel ==
  ASSUME NEW w \in Nat, NEW h \in Nat, NEW v \in 0 .. (h - 1), NEW u \in 0 .. (w - 1)
  PROVE  /\ v * w + u \in 0 .. (w * h - 1)
         /\ (v * w + u) \div w = v /\ (v * w + u) % w = u
<1>1. w * (v + 1) <= w * h /\ w * (v + 1) = w * v + w /\ w * v \in Nat /\ w * h \in Nat
  BY Larger, OneMore, Product
<1>2. v * w = w * v
  BY Z3
<1>3. v * w + u \in 0 .. (w * h - 1)
  BY <1>1, <1>2
<1>4. w \in Nat \ {0} /\ v \in Nat
  OBVIOUS
<1>5. (v * w + u) \div w = v /\ (v * w + u) % w = u
  BY <1>4, Z3
<1> QED
  BY <1>3, <1>5

LEMMA PixelOfAddress ==
  ASSUME NEW w \in Nat, NEW h \in Nat, NEW b \in 0 .. (w * h - 1)
  PROVE  b \div w \in 0 .. (h - 1) /\ b % w \in 0 .. (w - 1)
<1>1. w # 0 /\ w * h \in Nat
  BY Z3
<1> DEFINE q == b \div w
<1>2. q \in Nat /\ w * q <= b /\ b % w \in 0 .. (w - 1)
  BY <1>1, Z3
<1> HIDE DEF q
<1>3. q < h
  <2> SUFFICES ASSUME q >= h PROVE FALSE
    BY <1>2
  <2>1. w * h <= w * q
    BY <1>2, Larger
  <2>2. w * q \in Nat
    BY <1>2, Product
  <2> QED
    BY <1>1, <1>2, <2>1, <2>2
<1> QED
  BY <1>2, <1>3 DEF q

LEMMA BytesOfPyramid ==
  ASSUME RoomInv, PyramidAssumption
  PROVE  /\ WIDTH \in Nat \ {0} /\ HEIGHT \in Nat \ {0} /\ WIDTH * HEIGHT \in Nat
         /\ offset \in Nat /\ offset <= ROOM /\ ROOM \in Nat /\ WIDTH * HEIGHT <= 3 * ROOM
         /\ \A l \in Pyramid!Level :
              /\ images[l].data \in Nat /\ images[l].width \in Nat /\ images[l].height \in Nat
              /\ Pyramid!Size(images[l]) \in Nat
<1>1. WIDTH \in Nat \ {0} /\ HEIGHT \in Nat \ {0} /\ ROOM \in Nat /\ WIDTH * HEIGHT <= 3 * ROOM
  <2>1. WIDTH \in Nat \ {0} /\ HEIGHT \in Nat \ {0} /\ ROOM \in Nat /\ 3 * ROOM >= WIDTH * HEIGHT
    BY DEF PyramidAssumption, Pyramid!RoomAssumption
  <2>2. WIDTH * HEIGHT \in Nat
    BY <2>1, Product
  <2> QED
    BY <2>1, <2>2
<1>2. WIDTH * HEIGHT \in Nat
  BY <1>1, Product
<1>3. offset \in Nat /\ offset <= ROOM
  BY <1>1 DEF RoomInv, Pyramid!TypeOK
<1>4. ASSUME NEW l \in Pyramid!Level
      PROVE  /\ images[l].data \in Nat /\ images[l].width \in Nat /\ images[l].height \in Nat
             /\ Pyramid!Size(images[l]) \in Nat
  <2>1. images[l] \in Pyramid!Image
    BY DEF RoomInv, Pyramid!TypeOK
  <2>2. images[l].data \in Nat /\ images[l].width \in Nat /\ images[l].height \in Nat
    BY <2>1 DEF Pyramid!Image
  <2> QED
    BY <2>2, Product DEF Pyramid!Size
<1> QED
  BY <1>1, <1>2, <1>3, <1>4

(* All of an image that is in its place is in the memory. *)
LEMMA PlacedInMemory ==
  ASSUME RoomInv, PyramidAssumption, NEW l \in Pyramid!Level, Pyramid!Placed(l)
  PROVE  /\ Pyramid!Bytes(images[l]) \subseteq Pyramid!Memory
         /\ images[l].data + Pyramid!Size(images[l]) <= WIDTH * HEIGHT + offset
<1> DEFINE n == WIDTH * HEIGHT
           s == Pyramid!Size(images[l])
<1>1. /\ n \in Nat /\ offset \in Nat /\ offset <= ROOM /\ ROOM \in Nat
      /\ images[l].data \in Nat /\ s \in Nat
  BY BytesOfPyramid
<1>2. images[l].data + s <= n + offset
  <2>1. CASE l = 0
    <3>1. images[l].data = 0 /\ s = n
      BY <2>1 DEF RoomInv, Halved, Pyramid!Size
    <3> QED
      BY <1>1, <3>1
  <2>2. CASE l # 0
    BY <2>2 DEF RoomInv, InBuffer
  <2> QED
    BY <2>1, <2>2
<1>3. Pyramid!Bytes(images[l]) = images[l].data .. (images[l].data + s - 1)
  BY DEF Pyramid!Bytes
<1>4. Pyramid!Memory = 0 .. (n + ROOM - 1)
  BY DEF Pyramid!Memory
<1> HIDE DEF n, s
<1>5. Pyramid!Bytes(images[l]) \subseteq Pyramid!Memory
  BY <1>1, <1>2, <1>3, <1>4
<1> QED
  BY <1>2, <1>5 DEF n, s

(* The image of the next level. *)
Next_image ==
  [data |-> WIDTH * HEIGHT + offset,
   width |-> images[at_level - 1].width \div 2, height |-> images[at_level - 1].height \div 2]

LEMMA NextFits ==
  ASSUME RoomInv, PyramidAssumption, call_pc = "Downsample"
  PROVE  /\ at_level \in Pyramid!Level \ {0} /\ at_level - 1 \in Pyramid!Level
         /\ Pyramid!Placed(at_level - 1)
         /\ Next_image \in Pyramid!Image
         /\ Pyramid!Size(Next_image) \in Nat
         /\ 3 * (offset + Pyramid!Size(Next_image)) + Pyramid!Size(Next_image) <= WIDTH * HEIGHT
         /\ offset + Pyramid!Size(Next_image) <= ROOM
         /\ Pyramid!Bytes(Next_image) \subseteq Pyramid!Memory
<1> DEFINE below == images[at_level - 1]
           n == WIDTH * HEIGHT
           s == Pyramid!Size(Next_image)
           r == Pyramid!Size(below)
<1>1. at_level \in Pyramid!Level \ {0} /\ at_level - 1 \in Pyramid!Level
  BY DEF RoomInv, Pyramid!TypeOK, Pyramid!Level, PyramidAssumption, Pyramid!LevelAssumption
<1>2. Pyramid!Placed(at_level - 1)
  BY <1>1 DEF Pyramid!Placed, Pyramid!Level
<1>3. /\ n \in Nat /\ offset \in Nat /\ offset <= ROOM /\ ROOM \in Nat /\ n <= 3 * ROOM
      /\ below.width \in Nat /\ below.height \in Nat
  BY <1>1, BytesOfPyramid
<1>4. /\ Next_image.width = below.width \div 2 /\ Next_image.height = below.height \div 2
      /\ Next_image.data = n + offset
  BY DEF Next_image
<1>5. below.width \div 2 \in Nat /\ below.height \div 2 \in Nat /\ s \in Nat /\ 4 * s <= r
      /\ r \in Nat
  BY <1>3, <1>4, QuarterSize, Product DEF Pyramid!Size
<1>6. 3 * offset + r <= n
  BY DEF RoomInv, Used
<1>7. Next_image \in Pyramid!Image
  BY <1>3, <1>5 DEF Next_image, Pyramid!Image
<1>8. Pyramid!Bytes(Next_image) = (n + offset) .. (n + offset + s - 1)
  BY <1>4 DEF Pyramid!Bytes
<1>9. Pyramid!Memory = 0 .. (n + ROOM - 1)
  BY DEF Pyramid!Memory
<1> HIDE DEF n, s, r
<1>10. 3 * (offset + s) + s <= n /\ offset + s <= ROOM
  BY <1>3, <1>5, <1>6
<1>11. Pyramid!Bytes(Next_image) \subseteq Pyramid!Memory
  BY <1>3, <1>5, <1>8, <1>9, <1>10
<1> QED
  BY <1>1, <1>2, <1>5, <1>7, <1>10, <1>11 DEF n, s

(* memory with an image that has these rows. *)
LEMMA RowsWritten ==
  ASSUME NEW picture \in Pyramid!Image, NEW lines, Pyramid!Bytes(picture) \subseteq Pyramid!Memory,
         NEW v \in 0 .. (picture.height - 1)
  PROVE  [u \in 0 .. (picture.width - 1) |->
             Pyramid!Written(picture, lines)[picture.data + v * picture.width + u]]
           = [u \in 0 .. (picture.width - 1) |-> lines[v][u]]
<1>1. picture.data \in Nat /\ picture.width \in Nat /\ picture.height \in Nat
  BY DEF Pyramid!Image
<1> DEFINE w == picture.width
           h == picture.height
           b == picture.data
<1>2. ASSUME NEW u \in 0 .. (w - 1)
      PROVE  Pyramid!Written(picture, lines)[b + v * w + u] = lines[v][u]
  <2>1. /\ v * w + u \in 0 .. (w * h - 1)
        /\ (v * w + u) \div w = v /\ (v * w + u) % w = u
    BY <1>1, AddressOfPixel
  <2>2. w * h \in Nat /\ v * w \in Nat
    BY <1>1, Product
  <2> DEFINE k == v * w + u
             s == w * h
  <2>3. Pyramid!Bytes(picture) = b .. (b + s - 1)
    BY DEF Pyramid!Bytes, Pyramid!Size
  <2>4. b + v * w + u = b + k
    BY <1>1, <2>2
  <2> HIDE DEF k, s
  <2>5. k \in 0 .. (s - 1) /\ s \in Nat
    BY <2>1, <2>2 DEF k, s
  <2>6. b + k \in Pyramid!Memory /\ b + k \in Pyramid!Bytes(picture) /\ (b + k) - b = k
    BY <1>1, <2>3, <2>5
  <2>7. Pyramid!Written(picture, lines)[b + k] = lines[k \div w][k % w]
    BY <2>6 DEF Pyramid!Written
  <2> QED
    BY <2>1, <2>4, <2>7 DEF k
<1> QED
  BY <1>2

LEMMA OthersStay ==
  ASSUME NEW picture, NEW lines, NEW other \in Pyramid!Image,
         Pyramid!Bytes(other) \subseteq Pyramid!Memory,
         Pyramid!Bytes(other) \cap Pyramid!Bytes(picture) = {},
         NEW v \in 0 .. (other.height - 1)
  PROVE  [u \in 0 .. (other.width - 1) |->
             Pyramid!Written(picture, lines)[other.data + v * other.width + u]]
           = Pyramid!Pixels(other, v)
<1>1. other.data \in Nat /\ other.width \in Nat /\ other.height \in Nat
  BY DEF Pyramid!Image
<1> DEFINE w == other.width
           h == other.height
           b == other.data
<1>2. ASSUME NEW u \in 0 .. (w - 1)
      PROVE  Pyramid!Written(picture, lines)[b + v * w + u] = memory[b + v * w + u]
  <2>1. v * w + u \in 0 .. (w * h - 1)
    BY <1>1, AddressOfPixel
  <2>2. w * h \in Nat /\ v * w \in Nat
    BY <1>1, Product
  <2> DEFINE k == v * w + u
             s == w * h
  <2>3. Pyramid!Bytes(other) = b .. (b + s - 1)
    BY DEF Pyramid!Bytes, Pyramid!Size
  <2>4. b + v * w + u = b + k
    BY <1>1, <2>2
  <2> HIDE DEF k, s
  <2>5. b + k \in b .. (b + s - 1)
    BY <1>1, <2>1, <2>2 DEF k, s
  <2>6. b + k \in Pyramid!Memory /\ b + k \notin Pyramid!Bytes(picture)
    BY <2>3, <2>5
  <2> QED
    BY <2>4, <2>6 DEF Pyramid!Written
<1> QED
  BY <1>2 DEF Pyramid!Pixels

(* Rows of bytes are written as bytes. *)
LEMMA WrittenBytes ==
  ASSUME memory \in [Pyramid!Memory -> Pyramid!Byte], NEW picture \in Pyramid!Image, NEW lines,
         \A v \in 0 .. (picture.height - 1), u \in 0 .. (picture.width - 1) :
           lines[v][u] \in Pyramid!Byte
  PROVE  Pyramid!Written(picture, lines) \in [Pyramid!Memory -> Pyramid!Byte]
<1>1. picture.data \in Nat /\ picture.width \in Nat /\ picture.height \in Nat
  BY DEF Pyramid!Image
<1> DEFINE w == picture.width
           h == picture.height
           b == picture.data
<1>2. ASSUME NEW a \in Pyramid!Bytes(picture)
      PROVE  lines[(a - b) \div w][(a - b) % w] \in Pyramid!Byte
  <2> DEFINE s == w * h
  <2>1. s \in Nat
    BY <1>1, Product
  <2>2. Pyramid!Bytes(picture) = b .. (b + s - 1)
    BY DEF Pyramid!Bytes, Pyramid!Size
  <2> HIDE DEF s
  <2>3. a - b \in 0 .. (s - 1)
    BY <1>1, <2>1, <2>2
  <2>4. (a - b) \div w \in 0 .. (h - 1) /\ (a - b) % w \in 0 .. (w - 1)
    BY <1>1, <2>3, PixelOfAddress DEF s
  <2> QED
    BY <2>4
<1> QED
  BY <1>2 DEF Pyramid!Written

LEMMA PixelsAreBytes ==
  ASSUME memory \in [Pyramid!Memory -> Pyramid!Byte], NEW picture \in Pyramid!Image,
         Pyramid!Bytes(picture) \subseteq Pyramid!Memory,
         NEW v \in 0 .. (picture.height - 1)
  PROVE  Pyramid!Pixels(picture, v) \in [0 .. (picture.width - 1) -> Pyramid!Byte]
<1>1. picture.data \in Nat /\ picture.width \in Nat /\ picture.height \in Nat
  BY DEF Pyramid!Image
<1> DEFINE w == picture.width
           h == picture.height
           b == picture.data
<1>2. ASSUME NEW u \in 0 .. (w - 1)
      PROVE  memory[b + v * w + u] \in Pyramid!Byte
  <2>1. v * w + u \in 0 .. (w * h - 1)
    BY <1>1, AddressOfPixel
  <2>2. w * h \in Nat /\ v * w \in Nat
    BY <1>1, Product
  <2> DEFINE k == v * w + u
             s == w * h
  <2>3. Pyramid!Bytes(picture) = b .. (b + s - 1)
    BY DEF Pyramid!Bytes, Pyramid!Size
  <2>4. b + v * w + u = b + k
    BY <1>1, <2>2
  <2> HIDE DEF k, s
  <2>5. b + k \in b .. (b + s - 1)
    BY <1>1, <2>1, <2>2 DEF k, s
  <2> QED
    BY <2>3, <2>4, <2>5
<1> QED
  BY <1>2 DEF Pyramid!Pixels

(* The rows of the level above those of another. *)
Averaged(lines, picture) ==
  [v \in 0 .. (picture.height - 1) |-> [u \in 0 .. (picture.width - 1) |->
     Pyramid!Average(lines[2 * v], lines[2 * v + 1], u)]]

NextLines ==
  Averaged([v \in 0 .. (images[at_level - 1].height - 1) |->
              Pyramid!Pixels(images[at_level - 1], v)], Next_image)

(* What the loop does, but for the counters. *)
LEMMA DownsampleWrites ==
  ASSUME RoomInv, PyramidAssumption, Pyramid!Downsample
  PROVE  /\ images' = [images EXCEPT ![at_level] = Next_image]
         /\ memory' = Pyramid!Written(Next_image, NextLines)
         /\ offset' = offset + Pyramid!Size(Next_image)
         /\ UNCHANGED source
         /\ images'[at_level] = Next_image
         /\ \A l \in Pyramid!Level : l # at_level => images'[l] = images[l]
         /\ \A l \in Pyramid!Level : Pyramid!Placed(l)' <=> l <= at_level
         /\ \A l \in Pyramid!Level : Pyramid!Placed(l) <=> l < at_level
         /\ call_pc' \in {"Downsample", "Blur"}
         /\ call_pc' = "Downsample" => at_level' = at_level + 1 /\ at_level + 1 < LEVELS
         /\ call_pc' = "Blur" => at_level' = 0 /\ at_level + 1 >= LEVELS
<1> DEFINE below == images[at_level - 1]
<1>1. call_pc = "Downsample"
  BY DEF Pyramid!Downsample
<1>2. /\ at_level \in Pyramid!Level \ {0} /\ at_level - 1 \in Pyramid!Level
      /\ Next_image \in Pyramid!Image
  BY <1>1, NextFits
<1>3. LEVELS \in Nat \ {0} /\ Pyramid!Level = 0 .. (LEVELS - 1)
  BY DEF PyramidAssumption, Pyramid!LevelAssumption, Pyramid!Level
<1>4. images' = [images EXCEPT ![at_level] = Next_image] /\ UNCHANGED source
      /\ offset' = offset + Pyramid!Size(Next_image)
  BY DEF Pyramid!Downsample, Next_image
<1>5. memory' = Pyramid!Written(Next_image, NextLines)
  <2> DEFINE lines == [v \in 0 .. (Next_image.height - 1) |->
                        [u \in 0 .. (Next_image.width - 1) |->
                          Pyramid!Average(Pyramid!Pixels(below, 2 * v),
                                          Pyramid!Pixels(below, 2 * v + 1), u)]]
  <2>1. memory' = Pyramid!Written(Next_image, lines)
    BY DEF Pyramid!Downsample, Next_image
  <2>2. ASSUME NEW v \in 0 .. (Next_image.height - 1)
        PROVE  2 * v \in 0 .. (below.height - 1) /\ 2 * v + 1 \in 0 .. (below.height - 1)
    <3>1. below.height \in Nat /\ Next_image.height = below.height \div 2
      BY <1>2, BytesOfPyramid DEF Next_image
    <3>2. Next_image.height \in Nat /\ 2 * Next_image.height <= below.height
      BY <3>1, Half
    <3> QED
      BY <3>1, <3>2
  <2>3. lines = NextLines
    BY <2>2 DEF NextLines, Averaged
  <2> QED
    BY <2>1, <2>3
<1>6. /\ images'[at_level] = Next_image
      /\ \A l \in Pyramid!Level : l # at_level => images'[l] = images[l]
  BY <1>2, <1>4 DEF RoomInv, Pyramid!TypeOK
<1>7. /\ call_pc' \in {"Downsample", "Blur"}
      /\ call_pc' = "Downsample" => at_level' = at_level + 1 /\ at_level + 1 < LEVELS
      /\ call_pc' = "Blur" => at_level' = 0 /\ at_level + 1 >= LEVELS
  BY <1>2, <1>3 DEF Pyramid!Downsample, Pyramid!More
<1>8. \A l \in Pyramid!Level : Pyramid!Placed(l) <=> l < at_level
  BY <1>1 DEF Pyramid!Placed
<1>9. \A l \in Pyramid!Level : (call_pc' # "Downsample" \/ l < at_level') <=> l <= at_level
  BY <1>2, <1>3, <1>7
<1> QED
  BY <1>4, <1>5, <1>6, <1>7, <1>8, <1>9 DEF Pyramid!Placed

LEMMA AverageOfPixels ==
  ASSUME RoomInv, PyramidAssumption, call_pc = "Downsample",
         NEW v \in 0 .. (Next_image.height - 1), NEW u \in 0 .. (Next_image.width - 1)
  PROVE  NextLines[v][u] \in Pyramid!Byte
<1> DEFINE below == images[at_level - 1]
           upper == Pyramid!Pixels(below, 2 * v)
           lower == Pyramid!Pixels(below, 2 * v + 1)
<1>1. at_level - 1 \in Pyramid!Level /\ Pyramid!Placed(at_level - 1)
  BY NextFits
<1>2. /\ below \in Pyramid!Image /\ Pyramid!Bytes(below) \subseteq Pyramid!Memory
      /\ memory \in [Pyramid!Memory -> Pyramid!Byte]
  BY <1>1, PlacedInMemory DEF RoomInv, Pyramid!TypeOK
<1>3. /\ Next_image.height = below.height \div 2 /\ Next_image.width = below.width \div 2
      /\ below.height \in Nat /\ below.width \in Nat
  BY <1>1, BytesOfPyramid DEF Next_image
<1>4. 2 * v \in 0 .. (below.height - 1) /\ 2 * v + 1 \in 0 .. (below.height - 1)
  <2>1. Next_image.height \in Nat /\ 2 * Next_image.height <= below.height
    BY <1>3, Half
  <2> QED
    BY <1>3, <2>1
<1>5. /\ upper \in [0 .. (below.width - 1) -> Pyramid!Byte]
      /\ lower \in [0 .. (below.width - 1) -> Pyramid!Byte]
  BY <1>2, <1>4, PixelsAreBytes
<1>6. NextLines[v][u] = Pyramid!Average(upper, lower, u)
  BY <1>4 DEF NextLines, Averaged
<1>7. /\ Pyramid!Byte = Downsample!Byte
      /\ Pyramid!Average(upper, lower, u) = Downsample!Average(upper, lower, u)
  BY DEF Pyramid!Byte, Downsample!Byte, Pyramid!Average, Downsample!Average
<1> HIDE DEF upper, lower
<1>8. Downsample!Average(upper, lower, u) \in Downsample!Byte
  BY <1>3, <1>5, <1>7, AverageOfBytes
<1> QED
  BY <1>6, <1>7, <1>8

LEMMA RoomInit ==
  ASSUME PyramidAssumption, Pyramid!Init
  PROVE  RoomInv
<1>1. LEVELS \in Nat \ {0} /\ Pyramid!Level = 0 .. (LEVELS - 1) /\ 0 \in Pyramid!Level
  BY DEF PyramidAssumption, Pyramid!LevelAssumption, Pyramid!Level
<1>2. /\ WIDTH \in Nat \ {0} /\ HEIGHT \in Nat \ {0} /\ ROOM \in Nat /\ WIDTH * HEIGHT \in Nat
  BY Product DEF PyramidAssumption, Pyramid!RoomAssumption
<1>3. source \in [Pyramid!Caller -> Pyramid!Byte]
  BY DEF PyramidAssumption, Pyramid!SourceAssumption, Pyramid!Init
<1>4. memory \in [Pyramid!Memory -> Pyramid!Byte]
  BY <1>3 DEF Pyramid!Init, Pyramid!Byte
<1>5. images \in [Pyramid!Level -> Pyramid!Image]
  BY <1>1, <1>2 DEF Pyramid!Init, Pyramid!Image, Pyramid!Empty
<1>6. /\ call_pc \in {"Downsample", "Blur"}
      /\ call_pc = "Downsample" => at_level = 1 /\ 1 \in Pyramid!Level
      /\ call_pc = "Blur" => at_level = 0 /\ LEVELS = 1
  BY <1>1 DEF Pyramid!Init, Pyramid!More
<1>7. Pyramid!TypeOK
  <2>1. source \in Source /\ offset = 0 /\ 0 \in 0 .. ROOM
    BY <1>2 DEF Pyramid!Init
  <2>2. /\ at_level \in 0 .. LEVELS
        /\ call_pc = "Downsample" => at_level \in Pyramid!Level \ {0}
        /\ call_pc = "Blur" => at_level \in Pyramid!Level
        /\ call_pc # "Done"
    BY <1>1, <1>6
  <2> QED
    BY <1>4, <1>5, <1>6, <2>1, <2>2 DEF Pyramid!TypeOK
<1>8. images[0] = [data |-> 0, width |-> WIDTH, height |-> HEIGHT]
  BY <1>1 DEF Pyramid!Init
<1>9. \A l \in Pyramid!Level : Pyramid!Placed(l) => l = 0
  BY <1>1, <1>6 DEF Pyramid!Placed
<1>10. Halved /\ InBuffer /\ Stacked
  BY <1>1, <1>8, <1>9 DEF Halved, InBuffer, Stacked
<1>11. Used
  <2>1. offset = 0 /\ Pyramid!Size(images[0]) = WIDTH * HEIGHT
    BY <1>8 DEF Pyramid!Init, Pyramid!Size
  <2>2. call_pc = "Downsample" => Pyramid!Size(images[at_level - 1]) = WIDTH * HEIGHT
    BY <1>6, <2>1
  <2> DEFINE n == WIDTH * HEIGHT
             s == Pyramid!Size(images[at_level - 1])
  <2> HIDE DEF n, s
  <2>3. 3 * offset + (IF call_pc = "Downsample" THEN s ELSE 0) <= n
    BY <1>2, <2>1, <2>2 DEF n, s
  <2> QED
    BY <2>3 DEF Used, n, s
<1> QED
  BY <1>7, <1>10, <1>11 DEF RoomInv

LEMMA RoomDownsample ==
  ASSUME PyramidAssumption, RoomInv, Pyramid!Downsample
  PROVE  RoomInv'
<1> DEFINE n == WIDTH * HEIGHT
           s == Pyramid!Size(Next_image)
<1>1. call_pc = "Downsample"
  BY DEF Pyramid!Downsample
<1>2. /\ images' = [images EXCEPT ![at_level] = Next_image]
      /\ memory' = Pyramid!Written(Next_image, NextLines)
      /\ offset' = offset + s /\ UNCHANGED source
      /\ images'[at_level] = Next_image
      /\ \A l \in Pyramid!Level : l # at_level => images'[l] = images[l]
      /\ \A l \in Pyramid!Level : Pyramid!Placed(l)' <=> l <= at_level
      /\ \A l \in Pyramid!Level : Pyramid!Placed(l) <=> l < at_level
      /\ call_pc' \in {"Downsample", "Blur"}
      /\ call_pc' = "Downsample" => at_level' = at_level + 1 /\ at_level + 1 < LEVELS
      /\ call_pc' = "Blur" => at_level' = 0 /\ at_level + 1 >= LEVELS
  BY DownsampleWrites
<1>3. /\ at_level \in Pyramid!Level \ {0} /\ at_level - 1 \in Pyramid!Level
      /\ Next_image \in Pyramid!Image /\ s \in Nat
      /\ 3 * (offset + s) + s <= n /\ offset + s <= ROOM
  BY <1>1, NextFits
<1>4. LEVELS \in Nat \ {0} /\ Pyramid!Level = 0 .. (LEVELS - 1)
  BY DEF PyramidAssumption, Pyramid!LevelAssumption, Pyramid!Level
<1>5. n \in Nat /\ offset \in Nat /\ ROOM \in Nat
  BY BytesOfPyramid
<1>6. memory' \in [Pyramid!Memory -> Pyramid!Byte]
  <2>1. memory \in [Pyramid!Memory -> Pyramid!Byte]
    BY DEF RoomInv, Pyramid!TypeOK
  <2> QED
    BY <1>1, <1>2, <1>3, <2>1, WrittenBytes, AverageOfPixels
<1> HIDE DEF n, s
<1>7. Pyramid!TypeOK'
  <2>1. /\ source' \in Source /\ images' \in [Pyramid!Level -> Pyramid!Image]
        /\ offset' \in 0 .. ROOM
    BY <1>2, <1>3, <1>5 DEF RoomInv, Pyramid!TypeOK
  <2>2. /\ at_level' \in 0 .. LEVELS /\ call_pc' \in {"Downsample", "Blur", "Done"}
        /\ call_pc' = "Downsample" => at_level' \in Pyramid!Level \ {0}
        /\ call_pc' = "Blur" => at_level' \in Pyramid!Level
        /\ call_pc' # "Done"
    BY <1>2, <1>3, <1>4
  <2> QED
    BY <1>6, <2>1, <2>2 DEF Pyramid!TypeOK
<1>8. Halved'
  <2>1. 0 \in Pyramid!Level /\ images'[0] = images[0]
    BY <1>2, <1>3, <1>4
  <2>2. ASSUME NEW l \in Pyramid!Level \ {0}, l <= at_level
        PROVE  /\ images'[l].width = images'[l - 1].width \div 2
               /\ images'[l].height = images'[l - 1].height \div 2
    <3>1. l - 1 \in Pyramid!Level /\ l - 1 # at_level
      BY <1>3, <1>4, <2>2
    <3>2. CASE l = at_level
      BY <1>2, <3>1, <3>2 DEF Next_image
    <3>3. CASE l # at_level
      BY <1>2, <1>3, <1>4, <2>2, <3>1, <3>3 DEF RoomInv, Halved
    <3> QED
      BY <3>2, <3>3
  <2> QED
    BY <1>2, <2>1, <2>2 DEF RoomInv, Halved
<1>9. InBuffer'
  <2> SUFFICES ASSUME NEW l \in Pyramid!Level \ {0}, l <= at_level
               PROVE  /\ images'[l].data >= n
                      /\ images'[l].data + Pyramid!Size(images'[l]) <= n + offset'
    BY <1>2 DEF InBuffer, Pyramid!Size, n
  <2>1. CASE l = at_level
    <3>1. Next_image.data = n + offset
      BY DEF Next_image, n
    <3> QED
      BY <1>2, <1>3, <1>5, <2>1, <3>1 DEF s
  <2>2. CASE l # at_level
    <3>1. /\ images[l].data >= n
          /\ images[l].data + Pyramid!Size(images[l]) <= n + offset
      BY <1>2, <1>3, <1>4, <2>2 DEF RoomInv, InBuffer, n
    <3>2. images[l].data \in Nat /\ Pyramid!Size(images[l]) \in Nat
      BY BytesOfPyramid
    <3> QED
      BY <1>2, <1>3, <1>5, <2>2, <3>1, <3>2
  <2> QED
    BY <2>1, <2>2
<1>10. Stacked'
  <2> SUFFICES ASSUME NEW k \in Pyramid!Level, NEW l \in Pyramid!Level, l <= at_level, k < l
               PROVE  images'[k].data + Pyramid!Size(images'[k]) <= images'[l].data
    BY <1>2 DEF Stacked, Pyramid!Size
  <2>1. k # at_level /\ images'[k] = images[k] /\ Pyramid!Placed(k)
    BY <1>2, <1>3, <1>4
  <2>2. CASE l = at_level
    <3>1. images[k].data + Pyramid!Size(images[k]) <= n + offset
      BY <2>1, PlacedInMemory DEF n
    <3>2. images'[l].data = n + offset
      BY <1>2, <2>2 DEF Next_image, n
    <3> QED
      BY <2>1, <3>1, <3>2
  <2>3. CASE l # at_level
    BY <1>2, <1>3, <1>4, <2>1, <2>3 DEF RoomInv, Stacked
  <2> QED
    BY <2>2, <2>3
<1>11. Used'
  <2>1. call_pc' = "Downsample" => Pyramid!Size(images'[at_level' - 1]) = s
    <3>1. call_pc' = "Downsample" => at_level' - 1 = at_level
      BY <1>2, <1>3, <1>4
    <3> QED
      BY <1>2, <3>1 DEF s
  <2> DEFINE t == Pyramid!Size(images'[at_level' - 1])
  <2> HIDE DEF t
  <2>2. 3 * offset' + (IF call_pc' = "Downsample" THEN t ELSE 0) <= n
    BY <1>2, <1>3, <1>5, <2>1 DEF t
  <2> QED
    BY <2>2 DEF Used, Pyramid!Size, n, t
<1> QED
  BY <1>7, <1>8, <1>9, <1>10, <1>11 DEF RoomInv

(* What blur leaves of the rows of a picture, in them. *)
BlurredRows(lines, picture) ==
  [v \in 0 .. (picture.height - 1) |->
     IF v = 0 \/ v = picture.height - 1 THEN lines[v]
     ELSE Pyramid!BlurredRow(lines[v - 1], lines[v], lines[v + 1], picture.width)]

LevelLines(l) == [v \in 0 .. (images[l].height - 1) |-> Pyramid!Pixels(images[l], v)]

LEMMA BlurWrites ==
  ASSUME RoomInv, PyramidAssumption, Pyramid!Blur
  PROVE  /\ at_level \in Pyramid!Level /\ call_pc = "Blur"
         /\ memory' = Pyramid!Written(images[at_level],
                                    BlurredRows(LevelLines(at_level), images[at_level]))
         /\ UNCHANGED <<source, images, offset>>
         /\ at_level' = at_level + 1
         /\ call_pc' = IF at_level + 1 < LEVELS THEN "Blur" ELSE "Done"
         /\ \A l \in Pyramid!Level : Pyramid!Placed(l) /\ Pyramid!Placed(l)'
<1>1. at_level \in Pyramid!Level /\ call_pc = "Blur"
  BY DEF RoomInv, Pyramid!TypeOK, Pyramid!Blur
<1>2. images[at_level].height \in Nat
  BY <1>1, BytesOfPyramid
<1>3. BlurredRows(LevelLines(at_level), images[at_level])
        = [v \in 0 .. (images[at_level].height - 1) |-> Pyramid!Blurred(images[at_level], v)]
  <2>1. ASSUME NEW v \in 0 .. (images[at_level].height - 1),
               ~(v = 0 \/ v = images[at_level].height - 1)
        PROVE  v - 1 \in 0 .. (images[at_level].height - 1)
               /\ v + 1 \in 0 .. (images[at_level].height - 1)
    BY <1>2, <2>1
  <2> QED
    BY <2>1 DEF BlurredRows, LevelLines, Pyramid!Blurred
<1> QED
  BY <1>1, <1>3 DEF Pyramid!Blur, Pyramid!More, Pyramid!Placed

LEMMA BlurOfPixels ==
  ASSUME NEW w \in Nat, NEW a \in [0 .. (w - 1) -> Pyramid!Byte],
         NEW b \in [0 .. (w - 1) -> Pyramid!Byte], NEW c \in [0 .. (w - 1) -> Pyramid!Byte],
         NEW u \in 0 .. (w - 1)
  PROVE  Pyramid!BlurredRow(a, b, c, w)[u] \in Pyramid!Byte
<1>1. CASE u = 0 \/ u = w - 1
  BY <1>1 DEF Pyramid!BlurredRow
<1>2. CASE ~(u = 0 \/ u = w - 1)
  <2>1. u - 1 \in 0 .. (w - 1) /\ u + 1 \in 0 .. (w - 1)
    BY <1>2
  <2>2. /\ Pyramid!Horizontal(a, u) \in Int /\ Pyramid!Horizontal(b, u) \in Int
        /\ Pyramid!Horizontal(c, u) \in Int
    <3>1. \A k, m, n \in Pyramid!Byte : (k \div 4) + (m \div 2) + (n \div 4) \in Int
      BY Z3 DEF Pyramid!Byte
    <3> QED
      BY <2>1, <3>1 DEF Pyramid!Horizontal
  <2>3. \A k, m, n \in Int : ((k \div 4) + (m \div 2) + (n \div 4)) % 256 \in 0 .. 255
    BY Z3
  <2>4. Pyramid!Weighted(a, b, c, u) \in Pyramid!Byte
    BY <2>2, <2>3 DEF Pyramid!Weighted, Pyramid!Byte
  <2> QED
    BY <1>2, <2>4 DEF Pyramid!BlurredRow
<1> QED
  BY <1>1, <1>2

LEMMA RoomBlur ==
  ASSUME PyramidAssumption, RoomInv, Pyramid!Blur
  PROVE  RoomInv'
<1>1. /\ at_level \in Pyramid!Level /\ call_pc = "Blur"
      /\ memory' = Pyramid!Written(images[at_level],
                                 BlurredRows(LevelLines(at_level), images[at_level]))
      /\ UNCHANGED <<source, images, offset>>
      /\ at_level' = at_level + 1
      /\ call_pc' = IF at_level + 1 < LEVELS THEN "Blur" ELSE "Done"
      /\ \A l \in Pyramid!Level : Pyramid!Placed(l) /\ Pyramid!Placed(l)'
  BY BlurWrites
<1> DEFINE w == images[at_level].width
           h == images[at_level].height
<1>2. /\ images[at_level] \in Pyramid!Image
         /\ Pyramid!Bytes(images[at_level]) \subseteq Pyramid!Memory
      /\ memory \in [Pyramid!Memory -> Pyramid!Byte] /\ w \in Nat /\ h \in Nat
  BY <1>1, PlacedInMemory, BytesOfPyramid DEF RoomInv, Pyramid!TypeOK
<1>3. ASSUME NEW v \in 0 .. (h - 1), NEW u \in 0 .. (w - 1)
      PROVE  BlurredRows(LevelLines(at_level), images[at_level])[v][u] \in Pyramid!Byte
  <2>1. \A k \in 0 .. (h - 1) : LevelLines(at_level)[k] \in [0 .. (w - 1) -> Pyramid!Byte]
    BY <1>2, PixelsAreBytes DEF LevelLines
  <2>2. CASE v = 0 \/ v = h - 1
    BY <2>1, <2>2 DEF BlurredRows
  <2>3. CASE ~(v = 0 \/ v = h - 1)
    <3>1. v - 1 \in 0 .. (h - 1) /\ v + 1 \in 0 .. (h - 1)
      BY <1>2, <2>3
    <3>2. Pyramid!BlurredRow(LevelLines(at_level)[v - 1], LevelLines(at_level)[v],
                             LevelLines(at_level)[v + 1], w)[u] \in Pyramid!Byte
      BY <1>2, <2>1, <3>1, BlurOfPixels
    <3> QED
      BY <2>3, <3>2 DEF BlurredRows
  <2> QED
    BY <2>2, <2>3
<1>4. memory' \in [Pyramid!Memory -> Pyramid!Byte]
  BY <1>1, <1>2, <1>3, WrittenBytes
<1>5. LEVELS \in Nat \ {0} /\ Pyramid!Level = 0 .. (LEVELS - 1)
  BY DEF PyramidAssumption, Pyramid!LevelAssumption, Pyramid!Level
<1>6. Pyramid!TypeOK'
  <2>1. /\ at_level' \in 0 .. LEVELS /\ call_pc' \in {"Blur", "Done"}
        /\ call_pc' = "Blur" => at_level' \in Pyramid!Level
        /\ call_pc' = "Done" => at_level' = LEVELS
    BY <1>1, <1>5
  <2> QED
    BY <1>1, <1>4, <2>1 DEF RoomInv, Pyramid!TypeOK
<1>7. Halved' /\ InBuffer' /\ Stacked'
  BY <1>1 DEF RoomInv, Halved, InBuffer, Stacked, Pyramid!Size
<1>8. Used'
  BY <1>1 DEF RoomInv, Used
<1> QED
  BY <1>6, <1>7, <1>8 DEF RoomInv

LEMMA RoomStep ==
  ASSUME PyramidAssumption, RoomInv, [Pyramid!Next]_Pyramid!vars
  PROVE  RoomInv'
<1>1. CASE UNCHANGED Pyramid!vars
  BY <1>1 DEF Pyramid!vars, RoomInv, Pyramid!TypeOK, Halved, InBuffer, Stacked, Used,
              Pyramid!Placed, Pyramid!Size
<1> QED
  BY <1>1, RoomDownsample, RoomBlur DEF Pyramid!Next

LEMMA ImagesApart ==
  ASSUME RoomInv, PyramidAssumption, NEW k \in Pyramid!Level, NEW l \in Pyramid!Level,
         Pyramid!Placed(k), Pyramid!Placed(l), k # l
  PROVE  Pyramid!Bytes(images[k]) \cap Pyramid!Bytes(images[l]) = {}
<1>1. ASSUME NEW m \in Pyramid!Level, NEW n \in Pyramid!Level, Pyramid!Placed(n), m < n
      PROVE  Pyramid!Bytes(images[m]) \cap Pyramid!Bytes(images[n]) = {}
  <2>1. images[m].data + Pyramid!Size(images[m]) <= images[n].data
    BY <1>1 DEF RoomInv, Stacked
  <2>2. /\ images[m].data \in Nat /\ Pyramid!Size(images[m]) \in Nat
        /\ images[n].data \in Nat /\ Pyramid!Size(images[n]) \in Nat
    BY BytesOfPyramid
  <2> QED
    BY <2>1, <2>2 DEF Pyramid!Bytes
<1>2. k \in Int /\ l \in Int
  BY DEF Pyramid!Level, PyramidAssumption, Pyramid!LevelAssumption
<1>3. k < l \/ l < k
  BY <1>2
<1> QED
  BY <1>1, <1>3

(* Each level as the picture it was made from would have it, before it is  *)
(* blurred ...                                                             *)
Bottom ==
  [v \in 0 .. (HEIGHT - 1) |-> [u \in 0 .. (WIDTH - 1) |-> source[v * WIDTH + u]]]

IsPicture(L, l) == L[l] = IF l = 0 THEN Bottom ELSE Averaged(L[l - 1], images[l])

(* ... and as the memory holds it.                                         *)
Holds(L, l) ==
  \A v \in 0 .. (images[l].height - 1) :
    Pyramid!Pixels(images[l], v) =
      IF call_pc # "Downsample" /\ l < at_level THEN BlurredRows(L[l], images[l])[v] ELSE L[l][v]

ArePictures(L) ==
  /\ L = [l \in Pyramid!Level |-> L[l]]
  /\ \A l \in Pyramid!Level : Pyramid!Placed(l) => IsPicture(L, l) /\ Holds(L, l)

PyramidInv == RoomInv /\ \E L : ArePictures(L)

LEMMA PicturesInit ==
  ASSUME PyramidAssumption, Pyramid!Init
  PROVE  PyramidInv
<1>1. RoomInv
  BY RoomInit
<1> DEFINE L == [l \in Pyramid!Level |-> Bottom]
<1>2. LEVELS \in Nat \ {0} /\ Pyramid!Level = 0 .. (LEVELS - 1) /\ 0 \in Pyramid!Level
  BY DEF PyramidAssumption, Pyramid!LevelAssumption, Pyramid!Level
<1>3. /\ \A l \in Pyramid!Level : Pyramid!Placed(l) => l = 0
      /\ call_pc = "Downsample" \/ at_level = 0
  BY <1>2 DEF Pyramid!Init, Pyramid!More, Pyramid!Placed
<1>4. /\ WIDTH \in Nat /\ HEIGHT \in Nat /\ WIDTH * HEIGHT \in Nat /\ ROOM \in Nat
  BY <1>1, BytesOfPyramid
<1>5. images[0].data = 0 /\ images[0].width = WIDTH /\ images[0].height = HEIGHT
  BY <1>1 DEF RoomInv, Halved
<1>6. ASSUME NEW v \in 0 .. (HEIGHT - 1)
      PROVE  Pyramid!Pixels(images[0], v) = Bottom[v]
  <2>1. ASSUME NEW u \in 0 .. (WIDTH - 1)
        PROVE  memory[0 + v * WIDTH + u] = source[v * WIDTH + u]
    <3>1. v * WIDTH + u \in 0 .. (WIDTH * HEIGHT - 1)
      BY <1>4, AddressOfPixel
    <3> DEFINE k == v * WIDTH + u
               n == WIDTH * HEIGHT
    <3>2. v * WIDTH \in Nat
      BY <1>4, Product
    <3>3. 0 + v * WIDTH + u = k
      BY <3>2
    <3>4. Pyramid!Caller = 0 .. (n - 1) /\ Pyramid!Memory = 0 .. (n + ROOM - 1)
      BY DEF Pyramid!Caller, Pyramid!Memory
    <3> HIDE DEF k, n
    <3>5. k \in Pyramid!Caller /\ k \in Pyramid!Memory
      <4>1. k \in 0 .. (n - 1) /\ n \in Nat
        BY <1>4, <3>1 DEF k, n
      <4> QED
        BY <1>4, <3>4, <4>1
    <3>6. memory[k] = source[k]
      BY <3>5 DEF Pyramid!Init
    <3> QED
      BY <3>3, <3>6 DEF k
  <2> QED
    BY <1>5, <2>1 DEF Pyramid!Pixels, Bottom
<1>7. IsPicture(L, 0) /\ Holds(L, 0)
  BY <1>2, <1>3, <1>5, <1>6 DEF IsPicture, Holds
<1>8. ArePictures(L)
  BY <1>3, <1>7 DEF ArePictures
<1> HIDE DEF L
<1> QED
  BY <1>1, <1>8 DEF PyramidInv

LEMMA PicturesDownsample ==
  ASSUME PyramidAssumption, PyramidInv, Pyramid!Downsample
  PROVE  PyramidInv'
<1>1. RoomInv /\ call_pc = "Downsample"
  BY DEF PyramidInv, Pyramid!Downsample
<1>2. RoomInv'
  BY <1>1, RoomDownsample
<1>3. PICK L : ArePictures(L)
  BY DEF PyramidInv
<1>4. /\ memory' = Pyramid!Written(Next_image, NextLines) /\ UNCHANGED source
      /\ images'[at_level] = Next_image
      /\ \A l \in Pyramid!Level : l # at_level => images'[l] = images[l]
      /\ \A l \in Pyramid!Level : Pyramid!Placed(l)' <=> l <= at_level
      /\ \A l \in Pyramid!Level : Pyramid!Placed(l) <=> l < at_level
      /\ call_pc' = "Downsample" \/ at_level' = 0
  BY <1>1, DownsampleWrites
<1>5. /\ at_level \in Pyramid!Level \ {0} /\ at_level - 1 \in Pyramid!Level
      /\ Next_image \in Pyramid!Image /\ Pyramid!Bytes(Next_image) \subseteq Pyramid!Memory
  BY <1>1, NextFits
<1>6. LEVELS \in Nat \ {0} /\ Pyramid!Level = 0 .. (LEVELS - 1)
  BY DEF PyramidAssumption, Pyramid!LevelAssumption, Pyramid!Level
<1>7. PICK K : K = [L EXCEPT ![at_level] = NextLines]
  OBVIOUS
<1>8. PICK top \in Pyramid!Level : top = at_level
  BY <1>5
<1>9. /\ K = [l \in Pyramid!Level |-> K[l]] /\ K[top] = NextLines
      /\ \A l \in Pyramid!Level : l # top => K[l] = L[l]
  BY <1>3, <1>5, <1>7, <1>8 DEF ArePictures
<1>10. ASSUME NEW l \in Pyramid!Level, l < top
       PROVE  IsPicture(K, l)' /\ Holds(K, l)'
  <2>1. /\ l # at_level /\ K[l] = L[l] /\ images'[l] = images[l]
        /\ IsPicture(L, l) /\ Holds(L, l) /\ Pyramid!Placed(l)
    BY <1>3, <1>4, <1>6, <1>8, <1>9, <1>10 DEF ArePictures
  <2>2. l # 0 => l - 1 \in Pyramid!Level /\ l - 1 # top
    BY <1>6, <1>10
  <2>3. IsPicture(K, l)'
    BY <1>4, <1>9, <2>1, <2>2 DEF IsPicture, Bottom, Averaged
  <2>4. images[l] \in Pyramid!Image /\ Pyramid!Bytes(images[l]) \subseteq Pyramid!Memory
    BY <1>1, <2>1, PlacedInMemory DEF RoomInv, Pyramid!TypeOK
  <2>5. Pyramid!Bytes(images[l]) \cap Pyramid!Bytes(Next_image) = {}
    <3> DEFINE n == WIDTH * HEIGHT
    <3>1. images[l].data + Pyramid!Size(images[l]) <= n + offset
      BY <1>1, <2>1, PlacedInMemory
    <3>2. /\ images[l].data \in Nat /\ Pyramid!Size(images[l]) \in Nat
          /\ n \in Nat /\ offset \in Nat
      BY <1>1, BytesOfPyramid
    <3>3. Next_image.data = n + offset /\ Pyramid!Size(Next_image) \in Nat
      BY <1>1, NextFits DEF Next_image
    <3> HIDE DEF n
    <3> QED
      BY <3>1, <3>2, <3>3 DEF Pyramid!Bytes
  <2>6. ASSUME NEW v \in 0 .. (images[l].height - 1)
        PROVE  Pyramid!Pixels(images[l], v)' = Pyramid!Pixels(images[l], v)
    BY <1>4, <2>1, <2>4, <2>5, OthersStay DEF Pyramid!Pixels
  <2>7. Holds(K, l)'
    <3>1. call_pc' = "Downsample" \/ ~(l < at_level')
      BY <1>4, <1>6
    <3>2. ASSUME NEW v \in 0 .. (images[l].height - 1)
          PROVE  Pyramid!Pixels(images[l], v) = L[l][v]
      BY <1>1, <2>1 DEF Holds
    <3>3. ASSUME NEW v \in 0 .. (images[l].height - 1)
          PROVE  Pyramid!Pixels(images[l], v)' = K[l][v]
      BY <2>1, <2>6, <3>2
    <3> QED
      BY <2>1, <3>1, <3>3 DEF Holds
  <2> QED
    BY <2>3, <2>7
<1>11. IsPicture(K, top)' /\ Holds(K, top)'
  <2> DEFINE below == images[at_level - 1]
  <2>1. /\ K[top - 1] = L[top - 1] /\ top # 0
        /\ Pyramid!Placed(top - 1) /\ Holds(L, top - 1)
    BY <1>3, <1>4, <1>5, <1>6, <1>8, <1>9 DEF ArePictures
  <2>2. ASSUME NEW v \in 0 .. (Next_image.height - 1)
        PROVE  2 * v \in 0 .. (below.height - 1) /\ 2 * v + 1 \in 0 .. (below.height - 1)
    <3>1. below.height \in Nat /\ Next_image.height = below.height \div 2
      BY <1>1, <1>5, BytesOfPyramid DEF Next_image
    <3>2. Next_image.height \in Nat /\ 2 * Next_image.height <= below.height
      BY <3>1, Half
    <3> QED
      BY <3>1, <3>2
  <2>3. \A v \in 0 .. (below.height - 1) : Pyramid!Pixels(below, v) = L[top - 1][v]
    BY <1>1, <1>8, <2>1 DEF Holds
  <2>4. NextLines = Averaged(L[top - 1], Next_image)
    BY <2>2, <2>3 DEF NextLines, Averaged
  <2>5. IsPicture(K, top)'
    <3>1. images'[top] = Next_image /\ K[top] = Averaged(K[top - 1], images'[top])
      BY <1>4, <1>8, <1>9, <2>1, <2>4
    <3> QED
      BY <2>1, <3>1 DEF IsPicture, Averaged
  <2>6. ASSUME NEW v \in 0 .. (Next_image.height - 1)
        PROVE  [u \in 0 .. (Next_image.width - 1) |->
                  memory'[Next_image.data + v * Next_image.width + u]] = NextLines[v]
    <3>1. [u \in 0 .. (Next_image.width - 1) |->
                  memory'[Next_image.data + v * Next_image.width + u]]
            = [u \in 0 .. (Next_image.width - 1) |-> NextLines[v][u]]
      BY <1>4, <1>5, RowsWritten
    <3> QED
      BY <3>1 DEF NextLines, Averaged
  <2>7. ASSUME NEW v \in 0 .. (Next_image.height - 1)
        PROVE  Pyramid!Pixels(images[top], v)' = K[top][v]
    BY <1>4, <1>8, <1>9, <2>6 DEF Pyramid!Pixels
  <2>8. Holds(K, top)'
    <3>1. call_pc' = "Downsample" \/ ~(top < at_level')
      BY <1>4, <1>6, <2>1
    <3>2. images'[top] = Next_image
      BY <1>4, <1>8
    <3> QED
      BY <2>7, <3>1, <3>2 DEF Holds
  <2> QED
    BY <2>5, <2>8
<1>12. ASSUME NEW l \in Pyramid!Level, Pyramid!Placed(l)'
       PROVE  IsPicture(K, l)' /\ Holds(K, l)'
  <2>1. l < top \/ l = top
    BY <1>4, <1>6, <1>8, <1>12
  <2> QED
    BY <1>10, <1>11, <2>1
<1>13. ArePictures(K)'
  BY <1>9, <1>12 DEF ArePictures
<1> QED
  BY <1>2, <1>13 DEF PyramidInv

LEMMA PicturesBlur ==
  ASSUME PyramidAssumption, PyramidInv, Pyramid!Blur
  PROVE  PyramidInv'
<1>1. RoomInv
  BY DEF PyramidInv
<1>2. RoomInv'
  BY <1>1, RoomBlur
<1>3. PICK L : ArePictures(L)
  BY DEF PyramidInv
<1>4. /\ at_level \in Pyramid!Level /\ call_pc = "Blur"
      /\ memory' = Pyramid!Written(images[at_level],
                                 BlurredRows(LevelLines(at_level), images[at_level]))
      /\ UNCHANGED <<source, images>>
      /\ at_level' = at_level + 1 /\ call_pc' \in {"Blur", "Done"}
      /\ \A l \in Pyramid!Level : Pyramid!Placed(l) /\ Pyramid!Placed(l)'
  BY <1>1, BlurWrites
<1>5. LEVELS \in Nat \ {0} /\ Pyramid!Level = 0 .. (LEVELS - 1)
  BY DEF PyramidAssumption, Pyramid!LevelAssumption, Pyramid!Level
<1>6. PICK now \in Pyramid!Level : now = at_level
  BY <1>4
<1>7. ASSUME NEW l \in Pyramid!Level
      PROVE  /\ images[l] \in Pyramid!Image /\ images[l].height \in Nat
             /\ Pyramid!Bytes(images[l]) \subseteq Pyramid!Memory
  BY <1>1, <1>4, PlacedInMemory, BytesOfPyramid DEF RoomInv, Pyramid!TypeOK
<1>8. ASSUME NEW l \in Pyramid!Level
      PROVE  IsPicture(L, l)'
  BY <1>3, <1>4 DEF ArePictures, IsPicture, Bottom, Averaged
<1>9. ASSUME NEW l \in Pyramid!Level, l # now
      PROVE  Holds(L, l)'
  <2>1. Pyramid!Bytes(images[l]) \cap Pyramid!Bytes(images[now]) = {}
    BY <1>1, <1>4, <1>9, ImagesApart
  <2>2. ASSUME NEW v \in 0 .. (images[l].height - 1)
        PROVE  Pyramid!Pixels(images[l], v)' = Pyramid!Pixels(images[l], v)
    BY <1>4, <1>6, <1>7, <2>1, OthersStay DEF Pyramid!Pixels
  <2>3. l < at_level <=> l < at_level'
    BY <1>4, <1>5, <1>6, <1>9
  <2>4. Holds(L, l)
    BY <1>3, <1>4 DEF ArePictures
  <2> SUFFICES ASSUME NEW v \in 0 .. (images[l].height - 1)
               PROVE  Pyramid!Pixels(images[l], v)' =
                        IF call_pc' # "Downsample" /\ l < at_level'
                          THEN BlurredRows(L[l], images[l])[v] ELSE L[l][v]
    BY <1>4 DEF Holds, BlurredRows
  <2> QED
    BY <1>4, <2>2, <2>3, <2>4 DEF Holds
<1>10. Holds(L, now)'
  <2>1. \A v \in 0 .. (images[now].height - 1) : Pyramid!Pixels(images[now], v) = L[now][v]
    <3>1. Holds(L, now) /\ ~(now < at_level)
      BY <1>3, <1>4, <1>5, <1>6 DEF ArePictures
    <3> QED
      BY <3>1 DEF Holds
  <2> DEFINE lines == BlurredRows(LevelLines(now), images[now])
  <2>2. ASSUME NEW v \in 0 .. (images[now].height - 1)
        PROVE  /\ lines[v] = BlurredRows(L[now], images[now])[v]
               /\ lines[v] = [u \in 0 .. (images[now].width - 1) |-> lines[v][u]]
    <3>1. CASE v = 0 \/ v = images[now].height - 1
      BY <2>1, <3>1 DEF BlurredRows, LevelLines, Pyramid!Pixels
    <3>2. CASE ~(v = 0 \/ v = images[now].height - 1)
      <4>1. v - 1 \in 0 .. (images[now].height - 1) /\ v + 1 \in 0 .. (images[now].height - 1)
        BY <1>7, <3>2
      <4> QED
        BY <2>1, <3>2, <4>1 DEF BlurredRows, LevelLines, Pyramid!BlurredRow
    <3> QED
      BY <3>1, <3>2
  <2> HIDE DEF lines
  <2>3. memory' = Pyramid!Written(images[now], lines)
    BY <1>4, <1>6 DEF lines
  <2>4. ASSUME NEW v \in 0 .. (images[now].height - 1)
        PROVE  Pyramid!Pixels(images[now], v)' = BlurredRows(L[now], images[now])[v]
    <3>1. [u \in 0 .. (images[now].width - 1) |->
             memory'[images[now].data + v * images[now].width + u]]
            = [u \in 0 .. (images[now].width - 1) |-> lines[v][u]]
      BY <1>7, <2>3, RowsWritten
    <3> QED
      BY <1>4, <2>2, <3>1 DEF Pyramid!Pixels
  <2>5. now < at_level' /\ call_pc' # "Downsample"
    BY <1>4, <1>5, <1>6
  <2> SUFFICES ASSUME NEW v \in 0 .. (images[now].height - 1)
               PROVE  Pyramid!Pixels(images[now], v)' =
                        IF call_pc' # "Downsample" /\ now < at_level'
                          THEN BlurredRows(L[now], images[now])[v] ELSE L[now][v]
    BY <1>4 DEF Holds, BlurredRows
  <2> QED
    BY <2>4, <2>5
<1>11. ArePictures(L)'
  <2>1. L = [l \in Pyramid!Level |-> L[l]]
    BY <1>3 DEF ArePictures
  <2> QED
    BY <1>8, <1>9, <1>10, <2>1 DEF ArePictures
<1> QED
  BY <1>2, <1>11 DEF PyramidInv

LEMMA PicturesStep ==
  ASSUME PyramidAssumption, PyramidInv, [Pyramid!Next]_Pyramid!vars
  PROVE  PyramidInv'
<1>1. CASE UNCHANGED Pyramid!vars
  <2>1. RoomInv'
    BY <1>1, RoomStep DEF PyramidInv
  <2>2. PICK L : ArePictures(L)
    BY DEF PyramidInv
  <2>3. UNCHANGED <<source, memory, images, at_level, call_pc>>
    BY <1>1 DEF Pyramid!vars
  <2>4. ASSUME NEW l \in Pyramid!Level
        PROVE  /\ Pyramid!Placed(l)' <=> Pyramid!Placed(l)
               /\ IsPicture(L, l) => IsPicture(L, l)'
               /\ Holds(L, l) => Holds(L, l)'
    <3>1. IsPicture(L, l) => IsPicture(L, l)'
      BY <2>3 DEF IsPicture, Bottom, Averaged
    <3>2. Holds(L, l) => Holds(L, l)'
      BY <2>3 DEF Holds, BlurredRows, Pyramid!Pixels
    <3> QED
      BY <2>3, <3>1, <3>2 DEF Pyramid!Placed
  <2>5. ArePictures(L)'
    BY <2>2, <2>4 DEF ArePictures
  <2> QED
    BY <2>1, <2>5 DEF PyramidInv
<1> QED
  BY <1>1, PicturesDownsample, PicturesBlur DEF Pyramid!Next

(* The one induction over the levels: there is at most one way to average  *)
(* the picture level by level, and the memory shows that there is one.     *)
LEMMA LevelsAreUnique ==
  ASSUME PyramidAssumption, NEW L, ArePictures(L), \A l \in Pyramid!Level : Pyramid!Placed(l)
  PROVE  L = Pyramid!SourceLevel
<1> DEFINE Above(f, l) ==
             IF l = 0
               THEN [v \in 0 .. (HEIGHT - 1) |-> [u \in 0 .. (WIDTH - 1) |-> source[v * WIDTH + u]]]
               ELSE [v \in 0 .. (images[l].height - 1) |-> [u \in 0 .. (images[l].width - 1) |->
                      Pyramid!Average(f[l - 1][2 * v], f[l - 1][2 * v + 1], u)]]
           F == Pyramid!SourceLevel
<1>1. L = [l \in Pyramid!Level |-> Above(L, l)]
  <2>1. \A l \in Pyramid!Level : L[l] = Above(L, l)
    BY DEF ArePictures, IsPicture, Bottom, Averaged
  <2> HIDE DEF Above
  <2> QED
    BY <2>1 DEF ArePictures
<1>2. F = CHOOSE f : f = [l \in Pyramid!Level |-> Above(f, l)]
  BY DEF Pyramid!SourceLevel
<1> HIDE DEF F
<1>3. F = [l \in Pyramid!Level |-> Above(F, l)]
  <2> DEFINE Solves(f) == f = [l \in Pyramid!Level |-> Above(f, l)]
  <2>1. Solves(L) /\ F = CHOOSE f : Solves(f)
    BY <1>1, <1>2
  <2> HIDE DEF Solves
  <2>2. Solves(F)
    BY <2>1, Zenon
  <2> QED
    BY <2>2 DEF Solves
<1>4. /\ Pyramid!Level \subseteq Nat
      /\ \A l \in Pyramid!Level : l # 0 => l - 1 \in Pyramid!Level
  BY DEF PyramidAssumption, Pyramid!LevelAssumption, Pyramid!Level
<1>5. ASSUME NEW l \in Pyramid!Level, L[l] # F[l]
      PROVE  FALSE
  <2> DEFINE S == {k \in Pyramid!Level : L[k] # F[k]}
  <2>1. PICK m \in S : \A k \in S : m <= k
    BY <1>4, <1>5, LeastElement
  <2>2. m # 0
    BY <1>1, <1>3, <2>1
  <2>3. m - 1 \in Pyramid!Level /\ ~(m <= m - 1)
    BY <1>4, <2>1, <2>2
  <2>4. L[m - 1] = F[m - 1]
    BY <2>1, <2>3
  <2>5. Above(L, m) = Above(F, m)
    BY <2>4
  <2> HIDE DEF Above
  <2>6. L[m] = F[m]
    BY <1>1, <1>3, <2>1, <2>5
  <2> QED
    BY <2>1, <2>6
<1>6. \A l \in Pyramid!Level : L[l] = F[l]
  BY <1>5
<1> HIDE DEF Above
<1> QED
  BY <1>1, <1>3, <1>6 DEF F

LEMMA PicturesAreLevels ==
  ASSUME PyramidAssumption, PyramidInv
  PROVE  Pyramid!LevelsAreApart /\ Pyramid!LevelsOfTheSource
<1>1. RoomInv
  BY DEF PyramidInv
<1>2. Pyramid!LevelsAreApart
  <2> SUFFICES ASSUME NEW l \in Pyramid!Level, Pyramid!Placed(l)
               PROVE  /\ l > 0 => Pyramid!Bytes(images[l])
                           \subseteq (WIDTH * HEIGHT) .. (WIDTH * HEIGHT + ROOM - 1)
                      /\ \A k \in Pyramid!Level : Pyramid!Placed(k) /\ k < l =>
                           Pyramid!Bytes(images[k]) \cap Pyramid!Bytes(images[l]) = {}
    BY DEF Pyramid!LevelsAreApart
  <2>1. ASSUME l > 0
        PROVE  Pyramid!Bytes(images[l]) \subseteq (WIDTH * HEIGHT) .. (WIDTH * HEIGHT + ROOM - 1)
    <3> DEFINE n == WIDTH * HEIGHT
    <3>1. l # 0
      BY <2>1
    <3>2. images[l].data >= n /\ images[l].data + Pyramid!Size(images[l]) <= n + offset
      BY <1>1, <3>1 DEF RoomInv, InBuffer
    <3>3. /\ n \in Nat /\ offset \in Nat /\ offset <= ROOM /\ ROOM \in Nat
          /\ images[l].data \in Nat /\ Pyramid!Size(images[l]) \in Nat
      BY <1>1, BytesOfPyramid
    <3> HIDE DEF n
    <3>4. Pyramid!Bytes(images[l]) \subseteq n .. (n + ROOM - 1)
      BY <3>2, <3>3 DEF Pyramid!Bytes
    <3> QED
      BY <3>4 DEF n
  <2>2. ASSUME NEW k \in Pyramid!Level, Pyramid!Placed(k), k < l
        PROVE  Pyramid!Bytes(images[k]) \cap Pyramid!Bytes(images[l]) = {}
    <3>1. k # l
      BY <2>2 DEF Pyramid!Level, PyramidAssumption, Pyramid!LevelAssumption
    <3> QED
      BY <1>1, <2>2, <3>1, ImagesApart
  <2> QED
    BY <2>1, <2>2
<1>3. Pyramid!LevelsOfTheSource
  <2> SUFFICES ASSUME call_pc = "Done", NEW l \in Pyramid!Level,
                      NEW v \in 0 .. (HEIGHT - 1), v < images[l].height
               PROVE  Pyramid!Pixels(images[l], v) = Pyramid!BlurredLevel(l)[v]
    BY DEF Pyramid!LevelsOfTheSource
  <2>1. PICK L : ArePictures(L)
    BY DEF PyramidInv
  <2>2. \A k \in Pyramid!Level : Pyramid!Placed(k)
    BY DEF Pyramid!Placed
  <2>3. L = Pyramid!SourceLevel
    BY <2>1, <2>2, LevelsAreUnique
  <2>4. at_level = LEVELS /\ l < at_level
    BY <1>1 DEF RoomInv, Pyramid!TypeOK, Pyramid!Level, PyramidAssumption, Pyramid!LevelAssumption
  <2>5. v \in 0 .. (images[l].height - 1)
    BY <1>1, BytesOfPyramid
  <2>6. Pyramid!Pixels(images[l], v) = BlurredRows(L[l], images[l])[v]
    BY <2>1, <2>2, <2>4, <2>5 DEF ArePictures, Holds
  <2>7. Pyramid!BlurredLevel(l)[v] = BlurredRows(L[l], images[l])[v]
    BY <2>3, <2>5 DEF Pyramid!BlurredLevel, BlurredRows
  <2> QED
    BY <2>6, <2>7
<1> QED
  BY <1>2, <1>3

PyramidInCall == call = "ImagePyramid" => PyramidInv

(* The invariant of the call of ImagePyramid is inductive. *)
THEOREM PyramidIsInductive == VisionSpec => []PyramidInCall
<1>1. VisionInit => PyramidInCall
  BY PicturesInit, PyramidAssumption DEF PyramidInCall, VisionInit
<1>2. PyramidInCall /\ [VisionNext]_visionVars => PyramidInCall'
  <2> SUFFICES ASSUME PyramidInCall, [VisionNext]_visionVars, call' = "ImagePyramid"
               PROVE  PyramidInv'
    BY DEF PyramidInCall
  <2>1. call = "ImagePyramid" /\ [Pyramid!Next]_Pyramid!vars
    BY DEF VisionNext, visionVars, imageVars, pyramidVars, Pyramid!vars
  <2> QED
    BY <2>1, PicturesStep, PyramidAssumption DEF PyramidInCall
<1> QED
  BY <1>1, <1>2, PTL DEF VisionSpec

(* In a pyramid of any number of levels, over a picture of any size in a   *)
(* buffer of a third of it, the levels do not overlap, and each of them is *)
(* the picture averaged once per level and blurred once.                   *)
THEOREM LevelsComeFromTheSource == VisionSpec => []LevelsOfTheSource
<1>1. PyramidInCall => LevelsOfTheSource
  BY PicturesAreLevels, PyramidAssumption DEF PyramidInCall, LevelsOfTheSource
<1> QED
  BY <1>1, PyramidIsInductive, PTL

-----------------------------------------------------------------------------
(* Every entry of a patch, in its border too, is the intensity at its own  *)
(* position, and the gradients are made of a patch that is complete.       *)
PatchInv ==
  /\ width \in Nat \ {0} /\ height \in Nat \ {0}
  /\ slope_x \in Int /\ slope_y \in Int /\ x \in Int /\ y \in Int
  /\ call_pc \in {"Cut", "Differentiate", "Done"}
  /\ call_pc # "Cut" => \A k, l \in Patch!WithBorder :
       patch[k][l] = 4 * Patch!data(Patch!clamp(x + 4 * (l - 1), 0, 4 * (width - 1)),
                                    Patch!clamp(y + 4 * (k - 1), 0, 4 * (height - 1)))
  /\ call_pc = "Done" => \A k, l \in Patch!InPatch :
       /\ patch_dx[k + 1][l + 1] = Patch!dx(patch, k + 1, l + 1)
       /\ patch_dy[k + 1][l + 1] = Patch!dy(patch, k + 1, l + 1)

(* Between two pixels of a row that is clamped to the image lies what is   *)
(* between them, clamped.                                                  *)
LEMMA Between ==
  ASSUME NEW w \in Nat \ {0}, NEW k \in Int, NEW a \in 0 .. 3
  PROVE  (4 - a) * Patch!clamp(k, 0, w - 1) + a * Patch!clamp(k + 1, 0, w - 1)
           = Patch!clamp(4 * k + a, 0, 4 * (w - 1))
<1>1. CASE a = 0
  BY <1>1, Z3 DEF Patch!clamp
<1>2. CASE a = 1
  BY <1>2, Z3 DEF Patch!clamp
<1>3. CASE a = 2
  BY <1>3, Z3 DEF Patch!clamp
<1>4. CASE a = 3
  BY <1>4, Z3 DEF Patch!clamp
<1> QED
  BY <1>1, <1>2, <1>3, <1>4

(* The weights of the interpolation, along the rows and across them.       *)
LEMMA Weights ==
  ASSUME NEW a \in Int, NEW b \in Int, NEW s \in Int, NEW t \in Int,
         NEW k \in Int, NEW l \in Int, NEW m \in Int, NEW n \in Int
  PROVE  (4 - a) * (4 - b) * (s * k + t * m) + a * (4 - b) * (s * l + t * m)
           + (4 - a) * b * (s * k + t * n) + a * b * (s * l + t * n)
           = 4 * (s * ((4 - a) * k + a * l) + t * ((4 - b) * m + b * n))
  BY Z3

LEMMA Quarter ==
  ASSUME NEW k \in Int
  PROVE  k \div 4 \in Int /\ k % 4 \in 0 .. 3 /\ k = 4 * (k \div 4) + (k % 4)
  BY Z3

LEMMA InterpolatedAtPosition ==
  ASSUME PatchInv, NEW k \in Int, NEW l \in Int
  PROVE  Patch!Interpolated(k, l)
           = 4 * Patch!data(Patch!clamp(x + 4 * (l - 1), 0, 4 * (width - 1)),
                            Patch!clamp(y + 4 * (k - 1), 0, 4 * (height - 1)))
<1> DEFINE a == x % 4
           b == y % 4
           column == (x \div 4) + (l - 1)
           line == (y \div 4) + (k - 1)
           left == Patch!clamp(column, 0, width - 1)
           right == Patch!clamp(column + 1, 0, width - 1)
           upper == Patch!clamp(line, 0, height - 1)
           lower == Patch!clamp(line + 1, 0, height - 1)
<1>1. a \in 0 .. 3 /\ b \in 0 .. 3 /\ column \in Int /\ line \in Int
      /\ 4 * column + a = x + 4 * (l - 1) /\ 4 * line + b = y + 4 * (k - 1)
  <2>1. x \in Int /\ y \in Int
    BY DEF PatchInv
  <2>2. /\ x \div 4 \in Int /\ x % 4 \in 0 .. 3 /\ x = 4 * (x \div 4) + (x % 4)
        /\ y \div 4 \in Int /\ y % 4 \in 0 .. 3 /\ y = 4 * (y \div 4) + (y % 4)
    BY <2>1, Quarter
  <2> QED
    BY <2>1, <2>2
<1>2. /\ (x \div 4) + (l + 1) - 2 = column /\ (x \div 4) + (l + 2) - 2 = column + 1
      /\ (y \div 4) + (k + 1) - 2 = line /\ (y \div 4) + (k + 2) - 2 = line + 1
  <2>1. x \div 4 \in Int /\ y \div 4 \in Int
    BY Quarter DEF PatchInv
  <2> QED
    BY <2>1
<1>3. /\ Patch!buffer(k + 1, l + 1) = slope_x * left + slope_y * upper
      /\ Patch!buffer(k + 1, l + 2) = slope_x * right + slope_y * upper
      /\ Patch!buffer(k + 2, l + 1) = slope_x * left + slope_y * lower
      /\ Patch!buffer(k + 2, l + 2) = slope_x * right + slope_y * lower
  BY <1>2 DEF Patch!buffer, Patch!data
<1>4. left \in Int /\ right \in Int /\ upper \in Int /\ lower \in Int
  BY <1>1 DEF Patch!clamp, PatchInv
<1>5. /\ (4 - a) * left + a * right = Patch!clamp(x + 4 * (l - 1), 0, 4 * (width - 1))
      /\ (4 - b) * upper + b * lower = Patch!clamp(y + 4 * (k - 1), 0, 4 * (height - 1))
  <2>1. width \in Nat \ {0} /\ height \in Nat \ {0}
    BY DEF PatchInv
  <2>2. /\ (4 - a) * left + a * right = Patch!clamp(4 * column + a, 0, 4 * (width - 1))
        /\ (4 - b) * upper + b * lower = Patch!clamp(4 * line + b, 0, 4 * (height - 1))
    <3> HIDE DEF column, line, a, b
    <3> QED
      BY <1>1, <2>1, Between
  <2> QED
    BY <1>1, <2>2
<1>6. Patch!Interpolated(k, l)
        = (4 - a) * (4 - b) * (slope_x * left + slope_y * upper)
            + a * (4 - b) * (slope_x * right + slope_y * upper)
            + (4 - a) * b * (slope_x * left + slope_y * lower)
            + a * b * (slope_x * right + slope_y * lower)
  <2> HIDE DEF left, right, upper, lower
  <2> QED
    BY <1>3 DEF Patch!Interpolated
<1> HIDE DEF a, b, left, right, upper, lower, column, line
<1>7. slope_x \in Int /\ slope_y \in Int /\ a \in Int /\ b \in Int
  BY <1>1 DEF PatchInv
<1>8. Patch!Interpolated(k, l)
        = 4 * (slope_x * ((4 - a) * left + a * right) + slope_y * ((4 - b) * upper + b * lower))
  BY <1>4, <1>6, <1>7, Weights
<1> QED
  BY <1>5, <1>8 DEF Patch!data

LEMMA PatchInit ==
  ASSUME Patch!SizeAssumption, Patch!Init
  PROVE  PatchInv
  BY DEF Patch!SizeAssumption, Patch!Init, PatchInv

LEMMA PatchStep ==
  ASSUME Patch!SizeAssumption, PatchInv, [Patch!Next]_Patch!vars
  PROVE  PatchInv'
<1>1. CASE Patch!Cut
  <2>1. /\ UNCHANGED <<width, height, slope_x, slope_y, x, y>> /\ call_pc' = "Differentiate"
        /\ patch' = [k \in Patch!WithBorder |->
                        [l \in Patch!WithBorder |-> Patch!Interpolated(k, l)]]
    BY <1>1 DEF Patch!Cut, Patch!inputs
  <2>2. ASSUME NEW k \in Patch!WithBorder, NEW l \in Patch!WithBorder
        PROVE  patch'[k][l] = 4 * Patch!data(Patch!clamp(x + 4 * (l - 1), 0, 4 * (width - 1)),
                                             Patch!clamp(y + 4 * (k - 1), 0, 4 * (height - 1)))
    <3>1. k \in Int /\ l \in Int
      BY DEF Patch!WithBorder, Patch!PATCH_SIZE_WITH_BORDER, Patch!SizeAssumption
    <3> QED
      BY <2>1, <3>1, InterpolatedAtPosition
  <2> QED
    BY <2>1, <2>2 DEF PatchInv, Patch!data
<1>2. CASE Patch!Differentiate
  <2>1. /\ UNCHANGED <<width, height, slope_x, slope_y, x, y, patch>>
        /\ call_pc = "Differentiate" /\ call_pc' = "Done"
    BY <1>2 DEF Patch!Differentiate, Patch!inputs
  <2>2. ASSUME NEW k \in Patch!InPatch, NEW l \in Patch!InPatch
        PROVE  /\ patch_dx'[k + 1][l + 1] = Patch!dx(patch, k + 1, l + 1)
               /\ patch_dy'[k + 1][l + 1] = Patch!dy(patch, k + 1, l + 1)
    <3>1. /\ k + 1 \in Patch!WithBorder /\ l + 1 \in Patch!WithBorder
          /\ (k + 1) - 1 \in Patch!InPatch /\ (l + 1) - 1 \in Patch!InPatch
      BY DEF Patch!WithBorder, Patch!InPatch, Patch!PATCH_SIZE_WITH_BORDER, Patch!SizeAssumption
    <3> QED
      BY <1>2, <3>1 DEF Patch!Differentiate
  <2> QED
    BY <2>1, <2>2 DEF PatchInv, Patch!data, Patch!dx, Patch!dy
<1>3. CASE UNCHANGED Patch!vars
  BY <1>3 DEF Patch!vars, Patch!inputs, PatchInv, Patch!data, Patch!dx, Patch!dy
<1> QED
  BY <1>1, <1>2, <1>3 DEF Patch!Next

LEMMA CutAtPosition ==
  ASSUME Patch!SizeAssumption, PatchInv
  PROVE  Patch!PatchIsCutAtItsPosition
<1> SUFFICES ASSUME call_pc # "Cut", NEW k \in Patch!InPatch, NEW l \in Patch!InPatch
             PROVE  patch[k + 1][l + 1] =
                      4 * Patch!data(Patch!clamp(x + 4 * l, 0, 4 * (width - 1)),
                                     Patch!clamp(y + 4 * k, 0, 4 * (height - 1)))
  BY DEF Patch!PatchIsCutAtItsPosition
<1>1. /\ k + 1 \in Patch!WithBorder /\ l + 1 \in Patch!WithBorder
      /\ (k + 1) - 1 = k /\ (l + 1) - 1 = l
  BY DEF Patch!WithBorder, Patch!InPatch, Patch!PATCH_SIZE_WITH_BORDER, Patch!SizeAssumption
<1> QED
  BY <1>1 DEF PatchInv

(* The patch of a ramp, inside of it, is a ramp.                           *)
LEMMA GradientOfRamp ==
  ASSUME Patch!SizeAssumption, PatchInv
  PROVE  Patch!GradientsAreSlopes
<1> SUFFICES ASSUME call_pc = "Done",
                    x >= 4, x + 4 * SMALL_PATCH <= 4 * (width - 1),
                    y >= 4, y + 4 * SMALL_PATCH <= 4 * (height - 1),
                    NEW k \in Patch!InPatch, NEW l \in Patch!InPatch
             PROVE  /\ patch_dx[k + 1][l + 1] = 16 * 8 * slope_x
                    /\ patch_dy[k + 1][l + 1] = 16 * 8 * slope_y
  BY DEF Patch!GradientsAreSlopes
<1>1. SMALL_PATCH \in Nat
  BY DEF Patch!SizeAssumption
<1>2. /\ width \in Nat /\ height \in Nat /\ x \in Int /\ y \in Int
      /\ slope_x \in Int /\ slope_y \in Int
  BY DEF PatchInv
<1>3. ASSUME NEW m \in Patch!WithBorder, NEW n \in Patch!WithBorder
      PROVE  patch[m][n] = 4 * (slope_x * (x + 4 * (n - 1)) + slope_y * (y + 4 * (m - 1)))
  <2>1. m \in 0 .. (SMALL_PATCH + 1) /\ n \in 0 .. (SMALL_PATCH + 1)
    BY <1>1 DEF Patch!WithBorder, Patch!PATCH_SIZE_WITH_BORDER
  <2>2. /\ Patch!clamp(x + 4 * (n - 1), 0, 4 * (width - 1)) = x + 4 * (n - 1)
        /\ Patch!clamp(y + 4 * (m - 1), 0, 4 * (height - 1)) = y + 4 * (m - 1)
    BY <1>1, <1>2, <2>1 DEF Patch!clamp
  <2> QED
    BY <2>2 DEF PatchInv, Patch!data
<1>4. /\ k \in Patch!WithBorder /\ k + 1 \in Patch!WithBorder /\ k + 2 \in Patch!WithBorder
      /\ l \in Patch!WithBorder /\ l + 1 \in Patch!WithBorder /\ l + 2 \in Patch!WithBorder
      /\ k \in Int /\ l \in Int
      /\ (k + 1) - 1 = k /\ (k + 1) + 1 = k + 2 /\ (l + 1) - 1 = l /\ (l + 1) + 1 = l + 2
  BY <1>1 DEF Patch!WithBorder, Patch!InPatch, Patch!PATCH_SIZE_WITH_BORDER
<1> DEFINE ramp(m, n) == 4 * (slope_x * (x + 4 * (n - 1)) + slope_y * (y + 4 * (m - 1)))
<1>5. /\ Patch!dx(patch, k + 1, l + 1)
           = ramp(k, l + 2) - ramp(k, l) + 2 * (ramp(k + 1, l + 2) - ramp(k + 1, l))
               + ramp(k + 2, l + 2) - ramp(k + 2, l)
      /\ Patch!dy(patch, k + 1, l + 1)
           = ramp(k + 2, l) - ramp(k, l) + 2 * (ramp(k + 2, l + 1) - ramp(k, l + 1))
               + ramp(k + 2, l + 2) - ramp(k, l + 2)
  <2>1. \A m, n \in Patch!WithBorder : patch[m][n] = ramp(m, n)
    BY <1>3
  <2> HIDE DEF ramp
  <2> QED
    BY <1>4, <2>1 DEF Patch!dx, Patch!dy
<1>6. /\ Patch!dx(patch, k + 1, l + 1) = 16 * 8 * slope_x
      /\ Patch!dy(patch, k + 1, l + 1) = 16 * 8 * slope_y
  BY <1>2, <1>4, <1>5, Z3
<1> QED
  BY <1>6 DEF PatchInv

-----------------------------------------------------------------------------
(* Where construct cuts the patch of a keypoint.                           *)
StartInv ==
  /\ point \in Nat /\ level \in Nat
  /\ call_pc # "Cut" => start = PatchOnLevel!Start(point)

LEMMA PowerOfTwo ==
  ASSUME NEW k \in Nat
  PROVE  2 ^ k \in Nat \ {0}
<1>1. IsFiniteSet(1 .. k)
  BY FS_Interval
<1>2. IsFiniteSet(SUBSET (1 .. k)) /\ Cardinality(SUBSET (1 .. k)) = 2 ^ Cardinality(1 .. k)
  BY <1>1, FS_SUBSET
<1>3. Cardinality(1 .. k) = k
  BY FS_Interval
<1>4. SUBSET (1 .. k) # {}
  OBVIOUS
<1>5. /\ Cardinality(SUBSET (1 .. k)) \in Nat
      /\ Cardinality(SUBSET (1 .. k)) = 0 <=> SUBSET (1 .. k) = {}
  BY <1>2, FS_CardinalityType, FS_EmptySet
<1> QED
  BY <1>2, <1>3, <1>4, <1>5

(* On a coarser grid, whatever its width, two points that are less than    *)
(* so far apart are no further apart.                                      *)
LEMMA Coarser ==
  ASSUME NEW p \in Int, NEW h \in Nat, NEW c \in Nat \ {0}
  PROVE  (p \div c) - ((p - h) \div c) \in 0 .. h
<1> DEFINE q == p \div c
           r == (p - h) \div c
<1>1. q \in Int /\ c * q <= p /\ p < c * q + c
  BY Z3
<1>2. r \in Int /\ c * r <= p - h /\ p - h < c * r + c
  BY Z3
<1> HIDE DEF q, r
<1>3. r <= q
  <2> SUFFICES ASSUME r > q PROVE FALSE
    BY <1>1, <1>2
  <2>1. PICK d \in Nat : r = q + 1 + d
    <3>1. r - q - 1 \in Nat /\ r = q + 1 + (r - q - 1)
      BY <1>1, <1>2
    <3> QED
      BY <3>1
  <2>2. c * r = c * q + c + c * d /\ c * d \in Nat
    BY <1>1, <2>1, Z3
  <2> QED
    BY <1>1, <1>2, <2>2
<1>4. q <= r + h
  <2> SUFFICES ASSUME q > r + h PROVE FALSE
    BY <1>1, <1>2
  <2>1. PICK d \in Nat : q = r + h + 1 + d
    <3>1. q - r - h - 1 \in Nat /\ q = r + h + 1 + (q - r - h - 1)
      BY <1>1, <1>2
    <3> QED
      BY <3>1
  <2>2. c * q = c * r + c * h + c + c * d /\ c * d \in Nat
    BY <1>2, <2>1, Z3
  <2>3. c * h >= h
    BY Z3
  <2>4. c * h \in Int /\ c * r \in Int
    BY <1>2, Z3
  <2> QED
    BY <1>1, <1>2, <2>2, <2>3, <2>4
<1> QED
  BY <1>1, <1>2, <1>3, <1>4 DEF q, r

LEMMA StartedInPatch ==
  ASSUME PatchOnLevel!SizeAssumption, StartInv
  PROVE  PatchOnLevel!PointIsInPatch
<1> SUFFICES ASSUME call_pc # "Cut"
             PROVE  (point \div 2 ^ level) - start \in PatchOnLevel!InPatch
  BY DEF PatchOnLevel!PointIsInPatch
<1> DEFINE h == PATCH_SIZE \div 2
           c == 2 ^ level
<1>1. h \in Nat /\ PATCH_SIZE = 2 * h + 1
  BY Z3 DEF PatchOnLevel!SizeAssumption
<1>2. c \in Nat \ {0}
  BY PowerOfTwo DEF StartInv
<1>3. start = (point - h) \div c /\ point \in Int
  BY DEF StartInv, PatchOnLevel!Start
<1> HIDE DEF h, c
<1>4. (point \div c) - ((point - h) \div c) \in 0 .. h
  BY <1>1, <1>2, <1>3, Coarser
<1>5. 0 .. h \subseteq PatchOnLevel!InPatch
  BY <1>1 DEF PatchOnLevel!InPatch
<1> QED
  BY <1>3, <1>4, <1>5 DEF c

LEMMA StartInit ==
  ASSUME PatchOnLevel!SizeAssumption, PatchOnLevel!Init
  PROVE  StartInv
  BY DEF PatchOnLevel!SizeAssumption, PatchOnLevel!Init, StartInv

LEMMA StartStep ==
  ASSUME StartInv, [PatchOnLevel!Next]_PatchOnLevel!vars
  PROVE  StartInv'
<1>1. UNCHANGED <<point, level>>
  BY DEF PatchOnLevel!Next, PatchOnLevel!Cut, PatchOnLevel!Differentiate,
         PatchOnLevel!vars, PatchOnLevel!inputs
<1>2. call_pc' # "Cut" => start' = PatchOnLevel!Start(point)
  BY DEF PatchOnLevel!Next, PatchOnLevel!Cut, PatchOnLevel!Differentiate,
         PatchOnLevel!vars, PatchOnLevel!inputs, StartInv
<1> QED
  BY <1>1, <1>2 DEF StartInv, PatchOnLevel!Start

(* Wherever a patch of any odd size is cut out of an image of any size it  *)
(* holds the intensities, and inside of the image the slopes, at its own   *)
(* position; and on every level of every pyramid a keypoint is in the      *)
(* patch that is cut for it.                                               *)
THEOREM PatchesHoldTheirPositions == VisionSpec => []PatchIsCutAtItsPosition
<1> DEFINE Inv == /\ call = "Patch" => PatchInv
                  /\ call = "PatchPyramid" => StartInv
<1>1. VisionInit => Inv
  BY PatchInit, StartInit, PatchAssumption DEF VisionInit
<1>2. Inv /\ [VisionNext]_visionVars => Inv'
  <2>1. ASSUME Inv, [VisionNext]_visionVars, call' = "Patch" PROVE PatchInv'
    <3>1. call = "Patch" /\ [Patch!Next]_Patch!vars
      BY <2>1 DEF VisionNext, visionVars, imageVars, sizeVars, patchVars, Patch!vars, Patch!inputs
    <3> QED
      BY <2>1, <3>1, PatchStep, PatchAssumption
  <2>2. ASSUME Inv, [VisionNext]_visionVars, call' = "PatchPyramid" PROVE StartInv'
    <3>1. call = "PatchPyramid" /\ [PatchOnLevel!Next]_PatchOnLevel!vars
      BY <2>2 DEF VisionNext, visionVars, imageVars, sizeVars, patchVars,
                  PatchOnLevel!vars, PatchOnLevel!inputs
    <3> QED
      BY <2>2, <3>1, StartStep
  <2> QED
    BY <2>1, <2>2
<1>3. Inv => PatchIsCutAtItsPosition
  BY CutAtPosition, GradientOfRamp, StartedInPatch, PatchAssumption DEF PatchIsCutAtItsPosition
<1> QED
  BY <1>1, <1>2, <1>3, PTL DEF VisionSpec

-----------------------------------------------------------------------------
(* No loop of a function leaves its image, the ring of scores, the row     *)
(* buffer or the buffer of the pyramid.                                    *)
THEOREM LoopsStayInImage == VisionSpec => []LoopsInImage
<1>1. FastInv => TypeOK
  <2> SUFFICES ASSUME FastType PROVE TypeOK
    BY DEF FastInv
  <2>1. ASSUME NEW r \in Ring, NEW k \in DOMAIN row_corner_positions[r]
        PROVE  row_corner_positions[r][k] \in ImageColumn
    <3>1. row_corner_positions[r] \in Seq(ImageColumn)
      BY DEF FastType
    <3> QED
      BY <3>1
  <2>2. \A k \in DOMAIN out_keypoints : out_keypoints[k] \in ImageColumn \X ImageRow
    BY DEF FastType
  <2> QED
    BY <2>1, <2>2 DEF FastType, TypeOK
<1>2. FastInv /\ BlurInCall /\ DownsampleInCall /\ PyramidInCall => LoopsInImage
  BY <1>1 DEF BlurInCall, BlurInv, DownsampleInCall, DownsampleInv,
              PyramidInCall, PyramidInv, RoomInv, LoopsInImage
<1> QED
  BY <1>2, ScanIsInductive, BlurIsInductive, DownsampleIsInductive, PyramidIsInductive, PTL
=============================================================================
