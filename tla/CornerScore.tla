------------------------------ MODULE CornerScore ------------------------------
(***************************************************************************)
(* What extract_features makes of one pixel and the circle of sixteen      *)
(* around it: the rough checks of the group it is in, the table-driven     *)
(* rejection and the run count of evaluate_corner_candidate, and           *)
(* calculate_corner_score.  Fast.tla takes their outcome for given.        *)
(***************************************************************************)
EXTENDS Integers, FiniteSetsExt

CONSTANTS
  MaxPixel,           \* 255
  Thresholds,
  Circles             \* the circles to try: subset of [0 .. 15 -> 0 .. MaxPixel]

Position == 0 .. 15
Value == 0 .. MaxPixel

CircleAssumption ==
  /\ MaxPixel \in Nat
  /\ Thresholds \subseteq Value
  /\ Circles \subseteq [Position -> Value]

VARIABLES pixel, circle, threshold, pc, score

vars == <<pixel, circle, threshold, pc, score>>

Init ==
  /\ pixel \in Value
  /\ circle \in Circles
  /\ threshold \in Thresholds
  /\ pc = "Evaluate"
  /\ score = 0

(* ptr[pattern[k]] and d[k]: the pattern is continued past 15.             *)
At(k) == circle[k % 16]
d(k) == pixel - At(k)

-----------------------------------------------------------------------------
(* The rough checks: UQADD8 and UQSUB8 saturate, and the comparison with a *)
(* bound that is saturated in all four pixels is left out.                 *)
Plus == Min({pixel + threshold, MaxPixel})
Minus == Max({pixel - threshold, 0})

OppositePoints(k) == {At(k), At(k + 8)}

(* others: another pixel of the group has an unsaturated bound. *)
RoughCheck(k, others) ==
  \/ (Plus < MaxPixel \/ others) /\ \E p \in OppositePoints(k) : p >= Plus
  \/ (Minus > 0 \/ others) /\ \E p \in OppositePoints(k) : Minus >= p

-----------------------------------------------------------------------------
(* threshold_lookup_table *)
Lookup(k) ==
  (IF d(k) > threshold THEN {"below"} ELSE {})
    \cup (IF d(k) < -threshold THEN {"above"} ELSE {})

(* mask, after all eight diagonals: an early return only says it is empty. *)
Mask == {side \in {"below", "above"} :
           \A k \in 0 .. 7 : side \in Lookup(k) \cup Lookup(k + 8)}

(* count after pattern position k *)
RunOfNine(side) ==
  LET count[k \in -1 .. 24] ==
        IF k = -1 \/ side \notin Lookup(k) THEN 0 ELSE count[k - 1] + 1
  IN  \E k \in 0 .. 24 : count[k] = 9

Points(first, last) == {d(q) : q \in first .. last}

(* a0 and b0 after n rounds of their loops; a round takes the two arcs of  *)
(* nine that begin at k = 2n and at k + 1.                                 *)
BestAbove ==
  LET a0[n \in 0 .. 8] ==
        IF n = 0 THEN threshold
        ELSE LET k == 2 * (n - 1)
                 a == Min(Points(k + 1, k + 8))
             IN  IF Min(Points(k + 1, k + 3)) <= a0[n - 1] THEN a0[n - 1]
                 ELSE Max({a0[n - 1], Min({a, d(k)}), Min({a, d(k + 9)})})
  IN  a0[8]

EvenArcsOnly(start) ==
  LET b0[n \in 0 .. 8] ==
        IF n = 0 THEN start
        ELSE LET k == 2 * (n - 1)
             IN  Min({b0[n - 1], Max(Points(k, k + 8))})
  IN  b0[8]

BestBelow(start) ==
  LET b0[n \in 0 .. 8] ==
        IF n = 0 THEN start
        ELSE LET k == 2 * (n - 1)
                 b == Max(Points(k + 1, k + 8))
             IN  IF Max(Points(k + 1, k + 5)) >= b0[n - 1] THEN b0[n - 1]
                 ELSE Min({b0[n - 1], Max({b, d(k)}), Max({b, d(k + 9)})})
  IN  b0[8]

calculate_corner_score == -BestBelow(-BestAbove) - 1

Evaluate ==
  /\ pc = "Evaluate"
  /\ score' = IF \E side \in Mask : RunOfNine(side) THEN calculate_corner_score ELSE 0
  /\ pc' = "Done"
  /\ UNCHANGED <<pixel, circle, threshold>>

Next == Evaluate

Spec == Init /\ [][Next]_vars

-----------------------------------------------------------------------------
(* A FAST corner at threshold t: nine pixels in a row on the circle are    *)
(* all darker, or all brighter, by more than t.                            *)
CornerAt(t) ==
  \E first \in Position :
    \/ \A k \in first .. (first + 8) : d(k) > t
    \/ \A k \in first .. (first + 8) : d(k) < -t

(* The score of a corner is the largest threshold at which it would still  *)
(* be one; a pixel that is no corner has score 0.                          *)
ScoreIsLargestThreshold ==
  pc = "Done" =>
    IF CornerAt(threshold)
      THEN score >= threshold /\ CornerAt(score) /\ ~CornerAt(score + 1)
      ELSE score = 0

(* Neither rough check of the group, along the vertical or the horizontal, *)
(* drops a corner, also where a bound saturates.                           *)
CornersPassRoughChecks ==
  CornerAt(threshold) =>
    \A others \in BOOLEAN : RoughCheck(0, others) /\ RoughCheck(4, others)
=============================================================================
