-------------------------------- MODULE Vision --------------------------------
(***************************************************************************)
(* The image functions, one call of one of them in a behaviour: the scan   *)
(* for keypoints (Fast.tla), the score of a pixel, blur, downsample, the   *)
(* image pyramid and the cutting of patches.                               *)
(***************************************************************************)
EXTENDS Fast

CONSTANTS
  MaxPixel, Thresholds, Circles,              \* of calculate_corner_score
  image_width, image_height, BlurPixel,       \* of blur_inplace
  Sizes, DownsamplePixel,                     \* of downsample_inplace
  WIDTH, HEIGHT, ROOM, LEVELS, Source,        \* of ImagePyramid
  SMALL_PATCH, Extent, Slope, Quarters,       \* of Patch
  PATCH_SIZE, PYRAMID_LEVELS, Point           \* of PatchPyramid

VARIABLES
  call,               \* the function that is called
  call_pc,            \* its pc; the variables below are shared
  pixel, circle, threshold, score,
  source, image_data, row_buffer, y,
  source_width, source_height, data, width, height, row,
  memory, images, offset, at_level,
  slope_x, slope_y, x, point, level, patch, patch_dx, patch_dy, start

CornerScore == INSTANCE CornerScore WITH pc <- call_pc
Blur == INSTANCE Blur WITH pc <- call_pc, Pixel <- BlurPixel
Downsample == INSTANCE Downsample WITH pc <- call_pc, j <- row, Size <- Sizes, Pixel <- DownsamplePixel
Pyramid == INSTANCE Pyramid WITH pc <- call_pc, i <- at_level, PYRAMID_LEVELS <- LEVELS
Patch == INSTANCE Patch WITH
  pc <- call_pc, PATCH_SIZE <- SMALL_PATCH, PYRAMID_LEVELS <- 1, Point <- {0}
PatchOnLevel == INSTANCE Patch WITH
  pc <- call_pc, Extent <- {6}, Slope <- {1}, Quarters <- {0}

ASSUME CircleAssumption == CornerScore!CircleAssumption
ASSUME BlurAssumption == Blur!SizeAssumption
ASSUME DownsampleAssumption == Downsample!SizeAssumption
ASSUME PyramidAssumption ==
  Pyramid!RoomAssumption /\ Pyramid!LevelAssumption /\ Pyramid!SourceAssumption
ASSUME PatchAssumption == Patch!SizeAssumption /\ PatchOnLevel!SizeAssumption

(* What each call leaves alone. *)
cornerVars == <<pixel, circle, threshold, score>>
imageVars == <<source, image_data, row_buffer, y>>
sizeVars == <<source_width, source_height, data, width, height, row>>
pyramidVars == <<memory, images, offset, at_level>>
patchVars == <<slope_x, slope_y, x, point, level, patch, patch_dx, patch_dy, start>>

NoCorner == pixel = 0 /\ circle = 0 /\ threshold = 0 /\ score = 0
NoSize == source_width = 0 /\ source_height = 0 /\ data = 0 /\ row = 0
NoExtent == width = 0 /\ height = 0
NoPyramid == memory = 0 /\ images = 0 /\ offset = 0 /\ at_level = 0
NoPatch ==
  /\ slope_x = 0 /\ slope_y = 0 /\ x = 0 /\ point = 0 /\ level = 0
  /\ patch = 0 /\ patch_dx = 0 /\ patch_dy = 0 /\ start = 0
NoImage == source = 0 /\ image_data = 0 /\ row_buffer = 0 /\ y = 0

(* Without a scan, Fast.tla stays where that of some image begins. *)
SomeRow == CHOOSE line \in RowImage : TRUE
NoScan == image = [r \in ImageRow |-> SomeRow] /\ Init

VisionInit ==
  \/ /\ call = "extract_features" /\ Init /\ call_pc = "none"
     /\ NoCorner /\ NoImage /\ NoSize /\ NoExtent /\ NoPyramid /\ NoPatch
  \/ /\ call = "calculate_corner_score" /\ NoScan /\ CornerScore!Init
     /\ NoImage /\ NoSize /\ NoExtent /\ NoPyramid /\ NoPatch
  \/ /\ call = "blur_inplace" /\ NoScan /\ Blur!Init
     /\ NoCorner /\ NoSize /\ NoExtent /\ NoPyramid /\ NoPatch
  \/ /\ call = "downsample_inplace" /\ NoScan /\ Downsample!Init
     /\ image_data = 0 /\ y = 0 /\ NoCorner /\ NoPyramid /\ NoPatch
  \/ /\ call = "ImagePyramid" /\ NoScan /\ Pyramid!Init
     /\ image_data = 0 /\ row_buffer = 0 /\ y = 0
     /\ NoCorner /\ NoSize /\ NoExtent /\ NoPatch
  \/ /\ \/ call = "Patch" /\ Patch!Init
        \/ call = "PatchPyramid" /\ PatchOnLevel!Init
     /\ NoScan /\ source = 0 /\ image_data = 0 /\ row_buffer = 0
     /\ NoCorner /\ NoSize /\ NoPyramid

VisionNext ==
  /\ UNCHANGED call
  /\ \/ /\ call = "extract_features" /\ Next
        /\ UNCHANGED <<call_pc, cornerVars, imageVars, sizeVars, pyramidVars, patchVars>>
     \/ /\ call = "calculate_corner_score" /\ CornerScore!Next
        /\ UNCHANGED <<vars, imageVars, sizeVars, pyramidVars, patchVars>>
     \/ /\ call = "blur_inplace" /\ Blur!Next
        /\ UNCHANGED <<vars, cornerVars, sizeVars, pyramidVars, patchVars>>
     \/ /\ call = "downsample_inplace" /\ Downsample!Next
        /\ UNCHANGED <<vars, cornerVars, image_data, y, pyramidVars, patchVars>>
     \/ /\ call = "ImagePyramid" /\ Pyramid!Next
        /\ UNCHANGED <<vars, cornerVars, image_data, row_buffer, y, sizeVars, patchVars>>
     \/ /\ \/ call = "Patch" /\ Patch!Next
           \/ call = "PatchPyramid" /\ PatchOnLevel!Next
        /\ UNCHANGED <<vars, cornerVars, source, image_data, row_buffer,
                       source_width, source_height, data, row, pyramidVars>>

visionVars == <<call, call_pc, vars, cornerVars, imageVars, sizeVars, pyramidVars, patchVars>>

VisionSpec == VisionInit /\ [][VisionNext]_visionVars

-----------------------------------------------------------------------------
(* No loop leaves its image, the ring of scores or the pyramid's buffer.   *)
LoopsInImage ==
  /\ TypeOK
  /\ call = "blur_inplace" => Blur!TypeOK
  /\ call = "downsample_inplace" => Downsample!TypeOK
  /\ call = "ImagePyramid" => Pyramid!TypeOK

(* Away from the borders, extract_features finds exactly the pixels that   *)
(* are the highest of their grid, each once (Fast.tla).                    *)
FindsTheHighest == KeypointsAreHighest /\ HighestIsKeypoint /\ RasterOrder

(* A corner gets the score of its definition, and the rough checks before  *)
(* it drop none (CornerScore.tla).                                         *)
ScoresCorners ==
  call = "calculate_corner_score" =>
    CornerScore!ScoreIsLargestThreshold /\ CornerScore!CornersPassRoughChecks

(* To blur in place is to blur, with the kernel of the comment (Blur.tla). *)
BlursInPlace ==
  call = "blur_inplace" => Blur!BlursTheSource /\ Blur!RoundsDown

(* To downsample in place is to average the image as it was                *)
(* (Downsample.tla).                                                       *)
IsDownsampled == call = "downsample_inplace" => Downsample!IsDownsampled

(* The levels of the pyramid do not overlap, and each is the picture       *)
(* averaged once per level and blurred once (Pyramid.tla).                 *)
LevelsOfTheSource ==
  call = "ImagePyramid" => Pyramid!LevelsAreApart /\ Pyramid!LevelsOfTheSource

(* A patch holds the intensities and the slopes at its own position, and   *)
(* on every level the keypoint it was cut for (Patch.tla).                 *)
PatchIsCutAtItsPosition ==
  /\ call = "Patch" => Patch!PatchIsCutAtItsPosition /\ Patch!GradientsAreSlopes
  /\ call = "PatchPyramid" => PatchOnLevel!PointIsInPatch
=============================================================================
