------------------------------- MODULE MCVision -------------------------------
(***************************************************************************)
(* Vision.tla on small images.                                             *)
(*   Fast.tla with the images of MCFast.  CornerScore.tla with three-bit   *)
(* pixels, so that the bounds saturate, and circles of an arc on a         *)
(* background with one pixel changed: arcs one too short or just long      *)
(* enough, at every place of the circle, broken or extended by the changed *)
(* pixel.  Blur.tla on images of three columns and five rows, two more     *)
(* than the ring holds, of the values 15 and 255, which lose the most to   *)
(* rounding.  Downsample.tla on images in five sizes: an even one, one     *)
(* with a column and a row too many, two that become a single column, and  *)
(* one nothing is left of.  Both on every image with at most four pixels   *)
(* of one of the values.  Pyramid.tla on four levels of an image that is   *)
(* not square and has odd levels, with as little room as the assumption    *)
(* allows and one bright pixel on dark.                                    *)
(*   Patch.tla with small patches on images they fit into and on images    *)
(* they do not, at positions inside, on, across and far beyond each border *)
(* and at every fraction of a pixel; and with the patches of the program   *)
(* for every column of its images on every level.                          *)
(***************************************************************************)
EXTENDS MCFast, Vision

MCCircle(first, length, arc, background, other, value) ==
  [k \in 0 .. 15 |->
    IF k = other THEN value
    ELSE IF (k - first) % 16 < length THEN arc ELSE background]

MCCircles ==
  {MCCircle(first, length, arc, background, other, value) :
     first \in 0 .. 15, length \in {8, 9}, arc \in {0, 7},
     background \in {2, 4}, other \in 0 .. 15, value \in {0, 6}}

MCSizes == {<<4, 4>>, <<5, 3>>, <<2, 5>>, <<3, 4>>, <<1, 4>>}

MCCaller == 0 .. (WIDTH * HEIGHT - 1)
MCSource == {[a \in MCCaller |-> IF a = p THEN 240 ELSE 15] : p \in MCCaller}

MCSlope == {-3, 2}
MCQuarters == (-7) .. 10 \cup {-40, 14, 17, 40}
MCPoint == 0 .. 751

(* The room there is in the program (main_cm7.cpp:34 and 39): the smallest *)
(* of 752 x 480, 376 x 240, 188 x 120, 94 x 60 and 47 x 30 can be blurred. *)
ASSUME 3 * 131072 >= 752 * 480 /\ 480 \div 16 >= 2

(* At most four pixels have the one value, or the other. *)
FewPixels(pixels, value) ==
  LET few == Cardinality({p \in DOMAIN pixels : pixels[p] = value})
  IN  few <= 4 \/ few >= Cardinality(DOMAIN pixels) - 4

MCInit ==
  /\ VisionInit
  /\ call = "blur_inplace" =>
       FewPixels([p \in Blur!Row \X Blur!Column |-> source[p[1]][p[2]]], 255)
  /\ call = "downsample_inplace" => FewPixels(source, 255)

MCSpec == MCInit /\ [][VisionNext]_visionVars
=============================================================================
