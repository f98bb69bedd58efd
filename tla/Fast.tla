--------------------------------- MODULE Fast ---------------------------------
(***************************************************************************)
(* extract_features: FAST corners of an image, row by row.  Each row is    *)
(* scanned in groups of four pixels, which two rough checks may reject as  *)
(* a whole or shift past its leading pixels; scores are kept for three     *)
(* rows in a ring, and a row's corners are suppressed against their        *)
(* neighbours when the row after it has been scanned.                      *)
(*                                                                         *)
(* A pixel is what the checks make of it: the outcome of each rough check  *)
(* and its score, 0 for no corner.  The score itself is CornerScore.tla's. *)
(***************************************************************************)
EXTENDS Integers, Sequences, FiniteSets

CONSTANTS
  Width, Height,
  MaxScore,
  RowImage,           \* the rows an image is made of
  MaxKeypoints        \* *out_keypoints_size at the call

Column == 0 .. (Width - 1)
Ring == 0 .. 2
Score == 0 .. MaxScore

(* Rows with a full circle of pixels around them, and columns likewise.    *)
ImageRow == 3 .. (Height - 4)
ImageColumn == 3 .. (Width - 4)

(* A corner passes both rough checks: nine of its sixteen surrounding      *)
(* pixels in a row hold one of every opposite pair.                        *)
Pixel == {p \in [vertical : BOOLEAN, horizontal : BOOLEAN, score : Score] :
            p.score > 0 => p.vertical /\ p.horizontal}

(* There is a pixel with a full circle around it. *)
ASSUME SizeAssumption ==
  /\ Width \in Nat /\ Width >= 7
  /\ Height \in Nat /\ Height >= 7
  /\ MaxScore \in Nat /\ MaxKeypoints \in Nat
ASSUME RowAssumption == RowImage \subseteq [ImageColumn -> Pixel]

VARIABLES
  image,              \* [ImageRow -> RowImage]
  pc,
  j, i,               \* the row, and the first column of the group
  row_scores,         \* [Ring -> [Column -> Score]]
  row_corner_positions, \* [Ring -> Seq(Column)]
  out_keypoints       \* sequence of <<x, y>>

vars == <<image, pc, j, i, row_scores, row_corner_positions, out_keypoints>>

Init ==
  /\ image \in [ImageRow -> RowImage]
  /\ pc = "Scan"
  /\ j = 3 /\ i = 3
  /\ row_scores = [r \in Ring |-> [x \in Column |-> 0]]
  /\ row_corner_positions = [r \in Ring |-> <<>>]
  /\ out_keypoints = <<>>

Slot(y) == (y - 3) % 3

(* The elements of a sequence that are in a set, in their order.           *)
Kept(positions, set) ==
  LET kept[k \in 0 .. Len(positions)] ==
        IF k = 0 THEN <<>>
        ELSE IF positions[k] \in set THEN Append(kept[k - 1], positions[k])
        ELSE kept[k - 1]
  IN  kept[Len(positions)]

-----------------------------------------------------------------------------
(* Scanning a row.                                                         *)

MoreGroups == j < Height - 3 /\ i < Width - 7

Vertical == {k \in 0 .. 3 : image[j][i + k].vertical}
Horizontal == {k \in 0 .. 3 : image[j][i + k].horizontal}

(* threshold_mask is 0, 0xFF000000, 0xFFFF0000 or 0xFFFFFF00: only the     *)
(* pixels from the n'th on, if any, can be corners.                        *)
StartsAt(n, mask) == mask = n .. 3

Skipped(n) ==
  \/ StartsAt(n, Vertical)
  \/ (\A k \in 1 .. 4 : ~StartsAt(k, Vertical)) /\ StartsAt(n, Horizontal)

NotCleared(scores) == scores

Cleared(scores) == [x \in Column |-> IF x \in i .. (i + 3) THEN 0 ELSE scores[x]]

SkipGroup ==
  /\ pc = "Scan" /\ MoreGroups
  /\ \E n \in 1 .. 4 : Skipped(n) /\ i' = i + n
  /\ row_scores' = [row_scores EXCEPT ![Slot(j)] = Cleared(@)]
  /\ UNCHANGED <<image, pc, j, row_corner_positions, out_keypoints>>

(* The columns of the group with a score, from left to right. *)
Corners ==
  Kept(<<i, i + 1, i + 2, i + 3>>, {x \in ImageColumn : image[j][x].score # 0})

EvaluateGroup ==
  /\ pc = "Scan" /\ MoreGroups
  /\ \A n \in 1 .. 4 : ~Skipped(n)
  /\ row_scores' = [row_scores EXCEPT ![Slot(j)] =
       [x \in Column |-> IF x \in i .. (i + 3) THEN image[j][x].score ELSE @[x]]]
  /\ row_corner_positions' = [row_corner_positions EXCEPT ![Slot(j)] = @ \o Corners]
  /\ i' = i + 4
  /\ UNCHANGED <<image, pc, j, out_keypoints>>

-----------------------------------------------------------------------------
(* Suppression in the previous row, once the current one is scanned.       *)

Neighbour == {d \in (-1 .. 1) \X (-1 .. 1) : d # <<0, 0>>}

(* The three slots of the ring, whichever rows they hold. *)
Highest(x) ==
  \A d \in Neighbour :
    row_scores[Slot(j - 1)][x] > row_scores[Slot(j - 1 + d[2])][x + d[1]]

Found ==
  IF j = 3 THEN <<>>
  ELSE LET positions == Kept(row_corner_positions[Slot(j - 1)], {x \in ImageColumn : Highest(x)})
       IN  [k \in 1 .. Len(positions) |-> <<positions[k], j - 1>>]

NextRow(found) ==
  /\ out_keypoints' = out_keypoints \o found
  /\ j' = j + 1 /\ i' = 3
  /\ row_corner_positions' = [row_corner_positions EXCEPT ![Slot(j + 1)] = <<>>]
  /\ pc' = IF j + 1 < Height - 2 THEN "Scan" ELSE "Done"
  /\ UNCHANGED <<image, row_scores>>

SuppressUnchecked ==
  /\ pc = "Scan" /\ ~MoreGroups
  /\ NextRow(Found)

SuppressPreviousRow ==
  /\ pc = "Scan" /\ ~MoreGroups
  /\ Len(out_keypoints) + Len(Found) <= MaxKeypoints
  /\ NextRow(Found)

(* "Did not have enough space": the function returns with a full buffer.   *)
BufferFull ==
  /\ pc = "Scan" /\ ~MoreGroups
  /\ Len(out_keypoints) + Len(Found) > MaxKeypoints
  /\ out_keypoints' = out_keypoints
       \o SubSeq(Found, 1, MaxKeypoints - Len(out_keypoints))
  /\ pc' = "Full"
  /\ UNCHANGED <<image, j, i, row_scores, row_corner_positions>>

Next == SkipGroup \/ EvaluateGroup \/ SuppressPreviousRow \/ BufferFull

Spec == Init /\ [][Next]_vars

-----------------------------------------------------------------------------
TypeOK ==
  /\ image \in [ImageRow -> RowImage]
  /\ pc \in {"Scan", "Done", "Full"}
  /\ j \in 3 .. (Height - 2)
  /\ i \in 3 .. (Width - 4)
  /\ row_scores \in [Ring -> [Column -> Score]]
  /\ \A r \in Ring : \A k \in DOMAIN row_corner_positions[r] :
       row_corner_positions[r][k] \in ImageColumn
  /\ \A k \in DOMAIN out_keypoints : out_keypoints[k] \in ImageColumn \X ImageRow
  /\ Len(out_keypoints) <= MaxKeypoints

ScoreAt(x, y) ==
  IF x \in ImageColumn /\ y \in ImageRow THEN image[y][x].score ELSE 0

(* Columns that are examined whatever groups the rough checks make.        *)
AlwaysExamined == 3 .. (Width - 8)

(* "The one within a 3x3 grid with the highest score". *)
HighestInGrid(x, y) ==
  /\ ScoreAt(x, y) > 0
  /\ \A d \in Neighbour : ScoreAt(x, y) > ScoreAt(x + d[1], y + d[2])

Before(p, q) == p[2] < q[2] \/ (p[2] = q[2] /\ p[1] < q[1])

(* Row y has been suppressed, up to column x if the buffer filled there.   *)
Suppressed(x, y) ==
  \/ y < j - 1
  \/ /\ pc = "Full" /\ Len(out_keypoints) > 0
     /\ ~Before(out_keypoints[Len(out_keypoints)], <<x, y>>)

IsKeypoint(x, y) == \E k \in DOMAIN out_keypoints : out_keypoints[k] = <<x, y>>

(* A keypoint's score is above that of every neighbour that is examined in *)
(* any case: no group that is skipped, shifted or cleared hides one.       *)
KeypointsAreHighest ==
  \A k \in DOMAIN out_keypoints :
    LET x == out_keypoints[k][1] y == out_keypoints[k][2] IN
    /\ ScoreAt(x, y) > 0
    /\ \A d \in Neighbour :
         x + d[1] \in AlwaysExamined =>
           ScoreAt(x, y) > ScoreAt(x + d[1], y + d[2])

(* Away from the last row and the right border, every pixel that is the    *)
(* highest of its grid becomes a keypoint, until the buffer is full.       *)
HighestIsKeypoint ==
  \A y \in ImageRow \ {Height - 4}, x \in AlwaysExamined \ {Width - 8} :
    HighestInGrid(x, y) /\ Suppressed(x, y) => IsKeypoint(x, y)

(* Keypoints come in raster order, none of them twice, although groups     *)
(* move back and forth over the pixels.                                    *)
RasterOrder ==
  \A k, l \in DOMAIN out_keypoints :
    k < l => Before(out_keypoints[k], out_keypoints[l])

(* "The one within a 3x3 grid with the highest score wins and is           *)
(* classified as a feature" (feature_extraction.cpp:628-629): in the last  *)
(* row that is examined ...                                                *)
HighestInLastRowIsKeypoint ==
  \A x \in AlwaysExamined \ {Width - 8} :
    HighestInGrid(x, Height - 4) /\ Suppressed(x, Height - 4) => IsKeypoint(x, Height - 4)

(* ... and in the last column that is always examined.                     *)
HighestAtRightBorderIsKeypoint ==
  \A y \in ImageRow \ {Height - 4} :
    HighestInGrid(Width - 8, y) /\ Suppressed(Width - 8, y) => IsKeypoint(Width - 8, y)
=============================================================================
