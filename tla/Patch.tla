-------------------------------- MODULE Patch --------------------------------
(***************************************************************************)
(* image::Patch, its gradients, and where PatchPyramid::construct cuts it. *)
(*                                                                         *)
(* A position is a number of quarters of a pixel, so that the weights of   *)
(* the interpolation are whole sixteenths: the floats of the code hold     *)
(* these exactly.  The image is a ramp, the intensity of which is linear   *)
(* in x and y: whatever pixel is read by mistake shows.                    *)
(***************************************************************************)
EXTENDS Integers

CONSTANTS
  PATCH_SIZE,         \* odd
  PYRAMID_LEVELS,
  Extent,             \* widths and heights of images
  Slope,              \* of ramps, in x and in y
  Quarters,           \* positions of patches
  Point               \* coordinates of keypoints

PATCH_SIZE_WITH_BORDER == PATCH_SIZE + 2

SizeAssumption ==
  /\ PATCH_SIZE \in Nat /\ PATCH_SIZE % 2 = 1
  /\ PYRAMID_LEVELS \in Nat \ {0}
  /\ Extent \subseteq Nat \ {0} /\ Slope \subseteq Int
  /\ Quarters \subseteq Int /\ Point \subseteq Nat

VARIABLES
  width, height, slope_x, slope_y,    \* of the image
  x, y,               \* where the patch is cut
  point, level,       \* a coordinate of a keypoint, and a pyramid level
  patch,              \* data of the Patch, sixteen times
  patch_dx, patch_dy, \* and of its gradients
  start,              \* where construct cuts the patch of the keypoint
  pc

inputs == <<width, height, slope_x, slope_y, x, y, point, level>>
vars == <<inputs, patch, patch_dx, patch_dy, start, pc>>

WithBorder == 0 .. (PATCH_SIZE_WITH_BORDER - 1)
InPatch == 0 .. (PATCH_SIZE - 1)

(* Patch::Patch() *)
Zero == [j \in WithBorder |-> [i \in WithBorder |-> 0]]

Init ==
  /\ width \in Extent /\ height \in Extent
  /\ slope_x \in Slope /\ slope_y \in Slope
  /\ x \in Quarters /\ y \in Quarters
  /\ point \in Point /\ level \in 0 .. (PYRAMID_LEVELS - 1)
  /\ patch = Zero /\ patch_dx = Zero /\ patch_dy = Zero
  /\ start = 0
  /\ pc = "Cut"

-----------------------------------------------------------------------------
clamp(value, min, max) ==
  IF value < min THEN min ELSE IF value > max THEN max ELSE value

data(xs, ys) == slope_x * xs + slope_y * ys

(* Offset by two: one for the border, one for the interpolation.           *)
buffer(j, i) ==
  data(clamp((x \div 4) + i - 2, 0, width - 1), clamp((y \div 4) + j - 2, 0, height - 1))

ShiftedTwice(j, i) ==
  LET alpha_x == x % 4
      alpha_y == y % 4
  IN (4 - alpha_x) * (4 - alpha_y) * buffer(j + 1, i + 1)
       + alpha_x * (4 - alpha_y) * buffer(j + 1, i + 2)
       + (4 - alpha_x) * alpha_y * buffer(j + 2, i + 2)
       + alpha_x * alpha_y * buffer(j + 2, i + 2)

(* Sixteen times the floats in data of the Patch. *)
Interpolated(j, i) ==
  LET alpha_x == x % 4
      alpha_y == y % 4
  IN (4 - alpha_x) * (4 - alpha_y) * buffer(j + 1, i + 1)
       + alpha_x * (4 - alpha_y) * buffer(j + 1, i + 2)
       + (4 - alpha_x) * alpha_y * buffer(j + 2, i + 1)
       + alpha_x * alpha_y * buffer(j + 2, i + 2)

dx(source, j, i) ==
  source[j - 1][i + 1] - source[j - 1][i - 1]
    + 2 * (source[j][i + 1] - source[j][i - 1])
    + source[j + 1][i + 1] - source[j + 1][i - 1]

dy(source, j, i) ==
  source[j + 1][i - 1] - source[j - 1][i - 1]
    + 2 * (source[j + 1][i] - source[j - 1][i])
    + source[j + 1][i + 1] - source[j - 1][i + 1]

(* Where the patch of a keypoint starts, in the image of this level.       *)
Start(p) == (p - PATCH_SIZE \div 2) \div 2 ^ level

Cut ==
  /\ pc = "Cut" /\ pc' = "Differentiate"
  /\ patch' = [j \in WithBorder |-> [i \in WithBorder |-> Interpolated(j, i)]]
  /\ start' = Start(point)
  /\ UNCHANGED <<inputs, patch_dx, patch_dy>>

(* The gradients use the border of the patch and have none of their own.   *)
Differentiate ==
  /\ pc = "Differentiate" /\ pc' = "Done"
  /\ patch_dx' = [j \in WithBorder |-> [i \in WithBorder |->
       IF j - 1 \in InPatch /\ i - 1 \in InPatch THEN dx(patch, j, i) ELSE patch_dx[j][i]]]
  /\ patch_dy' = [j \in WithBorder |-> [i \in WithBorder |->
       IF j - 1 \in InPatch /\ i - 1 \in InPatch THEN dy(patch, j, i) ELSE patch_dy[j][i]]]
  /\ UNCHANGED <<inputs, patch, start>>

Next == Cut \/ Differentiate

Spec == Init /\ [][Next]_vars

-----------------------------------------------------------------------------
(* Wherever a patch is cut, partly or entirely outside the image too, its  *)
(* rows (row(j)[i], behind the border) hold the intensities at its own     *)
(* position and to its right and below, those at the border of the image   *)
(* standing for those beyond it.                                           *)
PatchIsCutAtItsPosition ==
  pc # "Cut" => \A j, i \in InPatch :
    patch[j + 1][i + 1] =
      4 * data(clamp(x + 4 * i, 0, 4 * (width - 1)), clamp(y + 4 * j, 0, 4 * (height - 1)))

(* On a patch that is inside the image with its border, dx and dy are the  *)
(* two slopes, both by the same factor.                                    *)
GradientsAreSlopes ==
  /\ pc = "Done"
  /\ x >= 4 /\ x + 4 * PATCH_SIZE <= 4 * (width - 1)
  /\ y >= 4 /\ y + 4 * PATCH_SIZE <= 4 * (height - 1)
  => \A j, i \in InPatch :
       /\ patch_dx[j + 1][i + 1] = 16 * 8 * slope_x
       /\ patch_dy[j + 1][i + 1] = 16 * 8 * slope_y

(* A keypoint is in its patch on every level.                              *)
PointIsInPatch ==
  pc # "Cut" => (point \div 2 ^ level) - start \in InPatch
=============================================================================
