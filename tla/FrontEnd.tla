------------------------------- MODULE FrontEnd -------------------------------
(***************************************************************************)
(* The program's main loop, test_with_dataset_without_references_with_     *)
(* resample: load an image, track the live keypoints into it with          *)
(* Lucas-Kanade (track_features), extract new ones with FAST when too few  *)
(* are left, and cut the patches that the next image is tracked against    *)
(* (PatchPyramid::construct).                                              *)
(*                                                                         *)
(* Positions and the arithmetic on them are abstract; which frame a patch, *)
(* a keypoint or an image buffer belongs to, and which keypoints are       *)
(* stale, are not.                                                         *)
(***************************************************************************)
EXTENDS Integers, FiniteSets

CONSTANTS
  EndIndex,           \* the last image of the dataset section, from 1
  MaxKeypoints,       \* MAX_NUMBER_OF_PATCHES_IN_PYRAMID_LEVEL, 74
  MinLive,            \* 5: below it new features are extracted
  PYRAMID_LEVELS,
  Position,           \* points inside the image
  Outside             \* any point outside

ASSUME SizeAssumption ==
  /\ EndIndex \in Nat /\ MaxKeypoints \in Nat
  /\ MinLive \in Nat \ {0} /\ PYRAMID_LEVELS \in Nat \ {0}
ASSUME PositionAssumption == Outside \notin Position /\ Position # {}

Feature == 0 .. (MaxKeypoints - 1)
Frame == 0 .. EndIndex
Level == 0 .. (PYRAMID_LEVELS - 1)
Top == PYRAMID_LEVELS - 1

(* A KeyPoint, and the frame it was measured in (not kept by the code).    *)
KeyPoint == [point : Position \cup {Outside}, stale : BOOLEAN, frame : Frame]
NoKeyPoint == [point |-> Outside, stale |-> FALSE, frame |-> 0]

(* A Patch, by the point and the frame it was cut at.                      *)
Patch == [point : Position \cup {Outside}, frame : Frame]

VARIABLES
  pc,
  index,              \* the image to load
  loaded,             \* the frame in image_data and in the image pyramid
  keypoints_size,
  stale_features,
  keypoints,          \* keypoints_buffer
  end_keypoints,      \* end_keypoints_buffer
  patches,            \* patch_pyramid: patches[feature][level]
  level,              \* pyramid_level and feature_index of track_features
  feature,
  flow,               \* [Feature -> "finite" | "nan"]: pyramid_level_flow
  lines               \* [Frame -> Nat]: lines printed for each index

vars == <<pc, index, loaded, keypoints_size, stale_features, keypoints,
          end_keypoints, patches, level, feature, flow, lines>>

Init ==
  /\ pc = "Retrieve"
  /\ index = 1
  /\ loaded = 0
  /\ keypoints_size = 0
  /\ stale_features = 0
  /\ keypoints = [f \in Feature |-> NoKeyPoint]
  /\ end_keypoints = [f \in Feature |-> NoKeyPoint]
  /\ patches = [f \in Feature |-> [l \in Level |-> [point |-> Outside, frame |-> 0]]]
  /\ level = 0
  /\ feature = 0
  /\ flow = [f \in Feature |-> "finite"]
  /\ lines = [i \in Frame |-> 0]

InUse == 0 .. (keypoints_size - 1)
Live == keypoints_size - stale_features

-----------------------------------------------------------------------------
(* retrieve_image failed: a file is missing, does not fit or is no PNG.    *)
RetrieveFails ==
  /\ pc = "Retrieve" /\ index <= EndIndex
  /\ index' = index + 1
  /\ UNCHANGED <<pc, loaded, keypoints_size, stale_features, keypoints,
                 end_keypoints, patches, level, feature, flow, lines>>

(* The image is copied to image_data_buffer and its pyramid constructed;   *)
(* track_features, if it is called, starts at the coarsest level.          *)
Retrieve ==
  /\ pc = "Retrieve" /\ index <= EndIndex
  /\ loaded' = index
  /\ IF keypoints_size > 0
       THEN /\ pc' = "Track"
            /\ level' = Top /\ feature' = 0
            /\ flow' = [f \in Feature |-> "finite"]
       ELSE /\ pc' = "Resample"
            /\ UNCHANGED <<level, feature, flow>>
  /\ UNCHANGED <<index, keypoints_size, stale_features, keypoints,
                 end_keypoints, patches, lines>>

-----------------------------------------------------------------------------
(* An unsigned pyramid_level is always >= 0. *)
LevelWraps ==
  IF feature + 1 < keypoints_size
    THEN feature' = feature + 1 /\ UNCHANGED <<level, pc>>
    ELSE /\ feature' = 0
         /\ level' = IF level = 0 THEN Top ELSE level - 1
         /\ UNCHANGED pc

(* The loops without the last feature. *)
SkipsLastFeature ==
  IF feature + 2 < keypoints_size
    THEN feature' = feature + 1 /\ UNCHANGED <<level, pc>>
    ELSE /\ feature' = 0
         /\ IF level = 0 THEN pc' = "CountStale" /\ UNCHANGED level
                         ELSE level' = level - 1 /\ UNCHANGED pc

(* The loops of track_features: all features at a level, then the next     *)
(* finer level.                                                            *)
NextFeature ==
  IF feature + 1 < keypoints_size
    THEN feature' = feature + 1 /\ UNCHANGED <<level, pc>>
    ELSE /\ feature' = 0
         /\ IF level = 0 THEN pc' = "CountStale" /\ UNCHANGED level
                         ELSE level' = level - 1 /\ UNCHANGED pc

TrackUnchanged == UNCHANGED <<index, loaded, keypoints_size, stale_features,
                              keypoints, patches, lines>>

StaleTracked ==
  /\ pc = "Track" /\ keypoints[feature].stale
  /\ \E p \in Position :
       end_keypoints' = [end_keypoints EXCEPT ![feature] =
                           [point |-> p, stale |-> level # 0, frame |-> loaded]]
  /\ NextFeature
  /\ UNCHANGED flow
  /\ TrackUnchanged

(* A stale keypoint stays stale, whatever the buffer held. *)
TrackStale ==
  /\ pc = "Track" /\ keypoints[feature].stale
  /\ end_keypoints' = [end_keypoints EXCEPT ![feature].stale = TRUE]
  /\ NextFeature
  /\ UNCHANGED flow
  /\ TrackUnchanged

(* Where round() puts the keypoint.  Rounding NaN to int is undefined: any *)
(* value (the Cortex-M7 gives 0, a point inside the image).                *)
NewKeyPoint(point) ==
  [point |-> point, stale |-> point = Outside, frame |-> loaded]

(* H is singular when the patch has no texture in some direction; the      *)
(* inverse then divides by a zero determinant, and the flow is NaN from    *)
(* there down to the finest level.  The test of the determinant only looks *)
(* for NaN and infinity, which sums of byte differences never are: that it *)
(* ends the tracking of the feature early is no outcome here.              *)
TrackFeature ==
  /\ pc = "Track" /\ ~keypoints[feature].stale
  /\ \E h \in {"regular", "singular"}, point \in Position \cup {Outside} :
       LET f == IF h = "singular" THEN "nan" ELSE flow[feature] IN
       /\ flow' = [flow EXCEPT ![feature] = f]
       /\ end_keypoints' =
            IF level = 0 THEN [end_keypoints EXCEPT ![feature] = NewKeyPoint(point)]
                         ELSE end_keypoints
  /\ NextFeature
  /\ TrackUnchanged

-----------------------------------------------------------------------------
(* The stale keypoints are counted, the line of the frame is printed when  *)
(* enough are left, and the tracked keypoints become the current ones.     *)
StaleAccumulated ==
  /\ pc = "CountStale"
  /\ stale_features' = stale_features + Cardinality({f \in InUse : end_keypoints[f].stale})
  /\ lines' = [lines EXCEPT ![index] =
                 @ + (IF keypoints_size - stale_features' >= MinLive THEN 1 ELSE 0)]
  /\ keypoints' = [f \in Feature |-> IF f \in InUse THEN end_keypoints[f]
                                                    ELSE keypoints[f]]
  /\ pc' = "Resample"
  /\ UNCHANGED <<index, loaded, keypoints_size, end_keypoints, patches, level,
                 feature, flow>>

LineAboveMinimum ==
  /\ pc = "CountStale"
  /\ stale_features' = Cardinality({f \in InUse : end_keypoints[f].stale})
  /\ lines' = [lines EXCEPT ![index] =
                 @ + (IF keypoints_size - stale_features' > MinLive THEN 1 ELSE 0)]
  /\ keypoints' = [f \in Feature |-> IF f \in InUse THEN end_keypoints[f]
                                                    ELSE keypoints[f]]
  /\ pc' = "Resample"
  /\ UNCHANGED <<index, loaded, keypoints_size, end_keypoints, patches, level,
                 feature, flow>>

KeypointsNotAdvanced ==
  /\ pc = "CountStale"
  /\ stale_features' = Cardinality({f \in InUse : end_keypoints[f].stale})
  /\ lines' = [lines EXCEPT ![index] =
                 @ + (IF keypoints_size - stale_features' >= MinLive THEN 1 ELSE 0)]
  /\ pc' = "Resample"
  /\ UNCHANGED <<index, loaded, keypoints_size, keypoints, end_keypoints, patches,
                 level, feature, flow>>

CountStale ==
  /\ pc = "CountStale"
  /\ stale_features' = Cardinality({f \in InUse : end_keypoints[f].stale})
  /\ lines' = [lines EXCEPT ![index] =
                 @ + (IF keypoints_size - stale_features' >= MinLive THEN 1 ELSE 0)]
  /\ keypoints' = [f \in Feature |-> IF f \in InUse THEN end_keypoints[f]
                                                    ELSE keypoints[f]]
  /\ pc' = "Resample"
  /\ UNCHANGED <<index, loaded, keypoints_size, end_keypoints, patches, level,
                 feature, flow>>

(* extract_features fills the buffer with up to keypoints_buffer_size new  *)
(* keypoints of this image, and their line is printed.                     *)
Extract ==
  /\ pc = "Resample" /\ Live < MinLive
  /\ \E n \in 0 .. MaxKeypoints : \E p \in [0 .. (n - 1) -> Position] :
       /\ keypoints_size' = n
       /\ keypoints' = [f \in Feature |->
            IF f < n THEN [point |-> p[f], stale |-> FALSE, frame |-> loaded]
                     ELSE keypoints[f]]
  /\ stale_features' = 0
  /\ lines' = [lines EXCEPT ![index] = @ + 1]
  /\ pc' = "Construct"
  /\ UNCHANGED <<index, loaded, end_keypoints, patches, level, feature, flow>>

Keep ==
  /\ pc = "Resample" /\ Live >= MinLive
  /\ pc' = "Construct"
  /\ UNCHANGED <<index, loaded, keypoints_size, stale_features, keypoints,
                 end_keypoints, patches, level, feature, flow, lines>>

(* PatchPyramid::construct cuts no patch for a stale keypoint.  More       *)
(* keypoints than the pyramid holds would end the program.                 *)
Construct ==
  /\ pc = "Construct"
  /\ IF keypoints_size > MaxKeypoints
       THEN pc' = "Exit" /\ UNCHANGED <<patches, index>>
       ELSE /\ patches' = [f \in Feature |->
                 IF f \in InUse /\ ~keypoints[f].stale
                   THEN [l \in Level |-> [point |-> keypoints[f].point, frame |-> loaded]]
                   ELSE patches[f]]
            /\ index' = index + 1
            /\ pc' = "Retrieve"
  /\ UNCHANGED <<loaded, keypoints_size, stale_features, keypoints,
                 end_keypoints, level, feature, flow, lines>>

Finish ==
  /\ pc = "Retrieve" /\ index > EndIndex
  /\ pc' = "Done"
  /\ UNCHANGED <<index, loaded, keypoints_size, stale_features, keypoints,
                 end_keypoints, patches, level, feature, flow, lines>>

Next ==
  \/ RetrieveFails \/ Retrieve \/ TrackStale \/ TrackFeature \/ CountStale
  \/ Extract \/ Keep \/ Construct \/ Finish

Spec == Init /\ [][Next]_vars

(* A single thread that is never blocked. *)
FairSpec == Spec /\ WF_vars(Next)

-----------------------------------------------------------------------------
TypeOK ==
  /\ pc \in {"Retrieve", "Track", "CountStale", "Resample", "Construct", "Done"}
  /\ index \in 1 .. (EndIndex + 1)
  /\ loaded \in Frame
  /\ keypoints_size \in 0 .. MaxKeypoints
  /\ stale_features \in 0 .. keypoints_size
  /\ keypoints \in [Feature -> KeyPoint]
  /\ end_keypoints \in [Feature -> KeyPoint]
  /\ patches \in [Feature -> [Level -> Patch]]
  /\ level \in Level
  /\ feature \in 0 .. MaxKeypoints
  /\ flow \in [Feature -> {"finite", "nan"}]
  /\ lines \in [Frame -> 0 .. 1]

(* The number that decides whether to extract again is the number of stale *)
(* keypoints in the buffer: across tracking, the copy back and extraction. *)
StaleCounted ==
  stale_features = Cardinality({f \in InUse : keypoints[f].stale})

(* track_features compares an image with patches cut, at every level,      *)
(* around the keypoint it moves and in the frame that keypoint was last    *)
(* seen in: the last one loaded, however many loads failed in between.     *)
PatchesAreCurrent ==
  pc \in {"Retrieve", "Track"} =>
    \A f \in InUse : ~keypoints[f].stale =>
      /\ pc = "Retrieve" => keypoints[f].frame = loaded
      /\ \A l \in Level : patches[f][l] =
           [point |-> keypoints[f].point, frame |-> keypoints[f].frame]

(* What is printed as live was tracked into this very image and is not     *)
(* what the buffer still held from an earlier one.                         *)
LiveIsFresh ==
  pc = "CountStale" =>
    \A f \in InUse : ~end_keypoints[f].stale => end_keypoints[f].frame = loaded

(* A keypoint that left the image is stale, where it left, until the whole *)
(* set is extracted again: it never comes back to life.                    *)
StaleStaysStale ==
  [][pc # "Resample" =>
       \A f \in InUse : keypoints[f].stale => keypoints'[f] = keypoints[f]]_vars

(* Each image that was loaded gets exactly one line of output, either from *)
(* tracking or from extraction, and an image that failed to load none.     *)
OneLinePerFrame ==
  [][index' # index => lines[index] = IF loaded = index THEN 1 ELSE 0]_vars

(* The loop ends, whichever images cannot be loaded.                       *)
Terminates == <>(pc = "Done")

(* "H is non-invertible!": a feature whose H cannot be inverted is not     *)
(* given a position.                                                       *)
NonInvertibleIsNotTracked ==
  pc = "CountStale" =>
    \A f \in InUse : ~end_keypoints[f].stale => flow[f] = "finite"
=============================================================================
