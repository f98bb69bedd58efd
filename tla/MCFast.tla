-------------------------------- MODULE MCFast --------------------------------
(* Fast.tla on images of four rows and nine columns inside the border, each *)
(* row one of a few: groups that are skipped, shifted by either rough check *)
(* or evaluated, corners in adjacent columns, ties, and corners to the      *)
(* right of the columns that are always examined.                           *)
EXTENDS Fast

(* Pixels left of column v fail the vertical check and those left of h the  *)
(* horizontal one, unless corner gives them a score.                        *)
MCRow(v, h, corner) ==
  [x \in 3 .. 11 |->
    IF x \in DOMAIN corner
      THEN [vertical |-> TRUE, horizontal |-> TRUE, score |-> corner[x]]
      ELSE [vertical |-> x >= v, horizontal |-> x >= h, score |-> 0]]

MCRowImage == {
  MCRow(12, 12, [x \in {} |-> 0]),
  MCRow(12, 12, [x \in {6} |-> 1]),
  MCRow(12, 12, [x \in {6, 7} |-> 8 - x]),
  MCRow(12, 12, [x \in {6, 7} |-> 1]),
  MCRow(12, 12, [x \in {5, 8} |-> 2]),
  MCRow(3, 12, [x \in {3, 7} |-> (x % 3) + 1]),
  MCRow(4, 3, [x \in {7} |-> 1]),
  MCRow(3, 5, [x \in {5, 6} |-> 7 - x]),
  MCRow(3, 6, [x \in {8} |-> 1]) }
=============================================================================
