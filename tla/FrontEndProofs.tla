---------------------------- MODULE FrontEndProofs ----------------------------
(***************************************************************************)
(* Theorems about FrontEnd.tla, for every section of the dataset, every    *)
(* number of keypoints and of pyramid levels.                              *)
(***************************************************************************)
EXTENDS FrontEnd, FiniteSetTheorems, TLAPS

(* From the load of an image to the construction of its patches, the image *)
(* is that of the index; before, it is an earlier one.                     *)
ImageOfIndex ==
  /\ pc \in {"Track", "CountStale", "Resample", "Construct"} =>
       loaded = index /\ index <= EndIndex
  /\ pc = "Retrieve" => loaded < index
  /\ pc = "Track" => feature < keypoints_size

(* The line of an index is printed once: after tracking when enough        *)
(* keypoints are left, and otherwise after the extraction.                 *)
Printed ==
  /\ \A i \in Frame : i > index => lines[i] = 0
  /\ pc \in {"Retrieve", "Track", "CountStale"} /\ index \in Frame => lines[index] = 0
  /\ pc = "Resample" => lines[index] = IF Live < MinLive THEN 0 ELSE 1
  /\ pc = "Construct" => lines[index] = 1

(* At the finest level, what was tracked already was tracked into this     *)
(* image.                                                                  *)
Tracked ==
  pc = "Track" /\ level = 0 =>
    \A f \in InUse : f < feature /\ ~keypoints[f].stale =>
      end_keypoints[f].frame = loaded

(* After the copy back or the extraction, the live keypoints are this      *)
(* image's.                                                                *)
Advanced ==
  pc \in {"Resample", "Construct"} =>
    \A f \in InUse : ~keypoints[f].stale => keypoints[f].frame = loaded

(* The second buffer holds the same stale keypoint as the first: this is   *)
(* what lets a stale one be copied back unchanged.                         *)
StaleInBoth ==
  \A f \in InUse : keypoints[f].stale => end_keypoints[f] = keypoints[f]

IInv ==
  /\ TypeOK /\ StaleCounted /\ PatchesAreCurrent /\ LiveIsFresh
  /\ ImageOfIndex /\ Printed /\ Tracked /\ Advanced /\ StaleInBoth

USE SizeAssumption DEF Frame, Feature, Level, Top, InUse

-----------------------------------------------------------------------------
(* Counting finds no more stale keypoints than there are in use. *)
LEMMA Counted ==
  ASSUME NEW n \in Nat, NEW S \in SUBSET (0 .. (n - 1))
  PROVE  Cardinality(S) \in 0 .. n
<1>1. IsFiniteSet(0 .. (n - 1)) /\ Cardinality(0 .. (n - 1)) = n
  BY FS_Interval
<1>2. Cardinality(S) \in Nat /\ Cardinality(S) <= n
  BY <1>1, FS_Subset, FS_CardinalityType
<1> QED
  BY <1>2

LEMMA InitInv ==
  ASSUME Init
  PROVE  IInv
<1>1. InUse = {}
  BY DEF Init
<1>2. TypeOK
  BY <1>1 DEF Init, TypeOK, KeyPoint, NoKeyPoint, Patch
<1>3. StaleCounted
  BY <1>1, FS_EmptySet DEF Init, StaleCounted
<1> QED
  BY <1>1, <1>2, <1>3
  DEF IInv, Init, PatchesAreCurrent, LiveIsFresh, ImageOfIndex, Printed, Tracked,
      Advanced, StaleInBoth

(* What only depends on the keypoints and their patches. *)
LEMMA SameKeypoints ==
  ASSUME StaleCounted, UNCHANGED <<keypoints_size, keypoints, stale_features>>
  PROVE  StaleCounted'
  BY DEF StaleCounted

LEMMA RetrieveStep ==
  ASSUME IInv, Retrieve
  PROVE  IInv'
<1> USE DEF Retrieve
<1>1. TypeOK'
  BY DEF IInv, TypeOK
<1>2. StaleCounted'
  BY SameKeypoints DEF IInv
<1>3. PatchesAreCurrent'
  BY DEF IInv, TypeOK, PatchesAreCurrent
<1>4. LiveIsFresh'
  BY DEF LiveIsFresh
<1>5. ImageOfIndex' /\ Printed'
  BY DEF IInv, TypeOK, StaleCounted, ImageOfIndex, Printed, Live
<1>6. Tracked' /\ Advanced' /\ StaleInBoth'
  BY DEF IInv, TypeOK, Tracked, Advanced, StaleInBoth
<1> QED
  BY <1>1, <1>2, <1>3, <1>4, <1>5, <1>6 DEF IInv

(* A step of the loops of track_features, given what became of the one     *)
(* keypoint.                                                               *)
LEMMA TrackStep ==
  ASSUME IInv, pc = "Track", NextFeature, TrackUnchanged,
         end_keypoints' \in [Feature -> KeyPoint],
         flow' \in [Feature -> {"finite", "nan"}],
         \A f \in Feature : f # feature => end_keypoints'[f] = end_keypoints[f],
         keypoints[feature].stale => end_keypoints'[feature] = end_keypoints[feature],
         ~keypoints[feature].stale /\ level = 0 => end_keypoints'[feature].frame = loaded
  PROVE  IInv'
<1> USE DEF NextFeature, TrackUnchanged
<1>1. TypeOK'
  BY DEF IInv, TypeOK, ImageOfIndex
<1>2. StaleCounted'
  BY SameKeypoints DEF IInv
<1>3. PatchesAreCurrent'
  BY DEF IInv, PatchesAreCurrent
<1>4. StaleInBoth'
  BY DEF IInv, TypeOK, StaleInBoth
<1>5. LiveIsFresh'
  <2> SUFFICES ASSUME pc' = "CountStale", NEW f \in InUse, ~end_keypoints'[f].stale
               PROVE  end_keypoints'[f].frame = loaded
    BY DEF LiveIsFresh
  <2>1. level = 0 /\ feature + 1 >= keypoints_size /\ f \in Feature
    BY DEF IInv, TypeOK
  <2>2. ~keypoints[f].stale
    BY <1>4, <2>1 DEF StaleInBoth
  <2>3. CASE f = feature
    BY <2>1, <2>2, <2>3
  <2>4. CASE f # feature
    BY <2>1, <2>2, <2>4 DEF IInv, TypeOK, Tracked
  <2> QED
    BY <2>3, <2>4
<1>6. Tracked'
  BY DEF IInv, TypeOK, Tracked
<1>7. ImageOfIndex' /\ Printed' /\ Advanced'
  BY DEF IInv, TypeOK, ImageOfIndex, Printed, Advanced, Live
<1> QED
  BY <1>1, <1>2, <1>3, <1>4, <1>5, <1>6, <1>7 DEF IInv

LEMMA TrackStaleStep ==
  ASSUME IInv, TrackStale
  PROVE  IInv'
<1>1. pc = "Track" /\ keypoints[feature].stale /\ feature \in InUse /\ feature \in Feature
  BY DEF TrackStale, IInv, TypeOK, ImageOfIndex
<1>2. end_keypoints[feature] = keypoints[feature] /\ end_keypoints[feature] \in KeyPoint
  BY <1>1 DEF IInv, TypeOK, StaleInBoth
<1>3. [end_keypoints[feature] EXCEPT !.stale = TRUE] = end_keypoints[feature]
  BY <1>1, <1>2 DEF KeyPoint
<1>4. end_keypoints' = end_keypoints
  BY <1>3 DEF TrackStale, IInv, TypeOK
<1>5. flow' = flow /\ NextFeature /\ TrackUnchanged
  BY DEF TrackStale
<1>6. end_keypoints' \in [Feature -> KeyPoint] /\ flow' \in [Feature -> {"finite", "nan"}]
  BY <1>4, <1>5 DEF IInv, TypeOK
<1> QED
  BY <1>1, <1>4, <1>5, <1>6, TrackStep

LEMMA TrackFeatureStep ==
  ASSUME IInv, TrackFeature
  PROVE  IInv'
<1>1. PICK h \in {"regular", "singular"}, point \in Position \cup {Outside} :
        /\ flow' = [flow EXCEPT ![feature] = IF h = "singular" THEN "nan" ELSE flow[feature]]
        /\ end_keypoints' =
             IF level = 0 THEN [end_keypoints EXCEPT ![feature] = NewKeyPoint(point)]
                          ELSE end_keypoints
  BY DEF TrackFeature
<1>2. pc = "Track" /\ ~keypoints[feature].stale /\ NextFeature /\ TrackUnchanged
  BY DEF TrackFeature
<1>3. feature \in Feature
  BY <1>2 DEF IInv, TypeOK, ImageOfIndex
<1>4. NewKeyPoint(point) \in KeyPoint /\ NewKeyPoint(point).frame = loaded
  BY DEF NewKeyPoint, KeyPoint, IInv, TypeOK
<1>5. end_keypoints' \in [Feature -> KeyPoint] /\ flow' \in [Feature -> {"finite", "nan"}]
  BY <1>1, <1>3, <1>4 DEF IInv, TypeOK
<1>6. level = 0 => end_keypoints'[feature].frame = loaded
  BY <1>1, <1>3, <1>4 DEF IInv, TypeOK
<1>7. \A f \in Feature : f # feature => end_keypoints'[f] = end_keypoints[f]
  BY <1>1 DEF IInv, TypeOK
<1> QED
  BY <1>2, <1>5, <1>6, <1>7, TrackStep

LEMMA CountStaleStep ==
  ASSUME IInv, CountStale
  PROVE  IInv'
<1> USE DEF CountStale
<1>1. stale_features' \in 0 .. keypoints_size
  BY Counted DEF IInv, TypeOK
<1>2. \A f \in InUse : f \in Feature /\ keypoints'[f] = end_keypoints[f]
  BY DEF IInv, TypeOK
<1>3. StaleCounted'
  <2>1. {f \in InUse' : keypoints'[f].stale} = {f \in InUse : end_keypoints[f].stale}
    BY <1>2
  <2> QED
    BY <2>1 DEF StaleCounted
<1>4. index \in Frame /\ loaded = index /\ lines[index] = 0
  BY DEF IInv, TypeOK, ImageOfIndex, Printed
<1>5. TypeOK'
  BY <1>1, <1>4 DEF IInv, TypeOK
<1>6. PatchesAreCurrent' /\ LiveIsFresh' /\ Tracked'
  BY DEF PatchesAreCurrent, LiveIsFresh, Tracked
<1>7. Advanced' /\ StaleInBoth'
  BY <1>2 DEF IInv, LiveIsFresh, Advanced, StaleInBoth
<1>8. ImageOfIndex' /\ Printed'
  BY <1>1, <1>4 DEF IInv, TypeOK, ImageOfIndex, Printed, Live
<1> QED
  BY <1>3, <1>5, <1>6, <1>7, <1>8 DEF IInv

LEMMA ExtractStep ==
  ASSUME IInv, Extract
  PROVE  IInv'
<1> PICK n \in 0 .. MaxKeypoints : \E p \in [0 .. (n - 1) -> Position] :
      /\ keypoints_size' = n
      /\ keypoints' = [f \in Feature |->
           IF f < n THEN [point |-> p[f], stale |-> FALSE, frame |-> loaded]
                    ELSE keypoints[f]]
  BY DEF Extract
<1>1. PICK p \in [0 .. (n - 1) -> Position] :
        /\ keypoints_size' = n
        /\ keypoints' = [f \in Feature |->
             IF f < n THEN [point |-> p[f], stale |-> FALSE, frame |-> loaded]
                      ELSE keypoints[f]]
  OBVIOUS
<1>2. \A f \in 0 .. (n - 1) :
        f \in Feature /\ keypoints'[f] = [point |-> p[f], stale |-> FALSE, frame |-> loaded]
  <2> SUFFICES ASSUME NEW f \in 0 .. (n - 1)
               PROVE  f \in Feature
                      /\ keypoints'[f] = [point |-> p[f], stale |-> FALSE, frame |-> loaded]
    OBVIOUS
  <2>1. f \in Feature /\ f < n
    OBVIOUS
  <2> QED
    BY <1>1, <2>1
<1>3. index \in Frame /\ loaded = index /\ lines[index] = 0
  BY DEF Extract, IInv, TypeOK, ImageOfIndex, Printed
<1>4. keypoints' \in [Feature -> KeyPoint]
  <2>1. \A f \in 0 .. (n - 1) : [point |-> p[f], stale |-> FALSE, frame |-> loaded] \in KeyPoint
    BY DEF KeyPoint, IInv, TypeOK
  <2> QED
    BY <1>1, <2>1 DEF IInv, TypeOK
<1>5. TypeOK'
  BY <1>1, <1>3, <1>4 DEF Extract, IInv, TypeOK
<1>6. StaleCounted'
  <2>1. {f \in InUse' : keypoints'[f].stale} = {}
    BY <1>1, <1>2
  <2> QED
    BY <2>1, FS_EmptySet DEF Extract, StaleCounted
<1>7. PatchesAreCurrent' /\ LiveIsFresh' /\ Tracked'
  BY DEF Extract, PatchesAreCurrent, LiveIsFresh, Tracked
<1>8. Advanced' /\ StaleInBoth'
  BY <1>1, <1>2 DEF Extract, Advanced, StaleInBoth
<1>9. ImageOfIndex' /\ Printed'
  BY <1>3 DEF Extract, IInv, TypeOK, ImageOfIndex, Printed
<1> QED
  BY <1>5, <1>6, <1>7, <1>8, <1>9 DEF IInv

LEMMA ConstructStep ==
  ASSUME IInv, Construct
  PROVE  IInv'
<1>1. /\ pc = "Construct" /\ pc' = "Retrieve" /\ index' = index + 1
      /\ patches' = [f \in Feature |->
           IF f \in InUse /\ ~keypoints[f].stale
             THEN [l \in Level |-> [point |-> keypoints[f].point, frame |-> loaded]]
             ELSE patches[f]]
      /\ UNCHANGED <<loaded, keypoints_size, stale_features, keypoints,
                     end_keypoints, level, feature, flow, lines>>
  BY DEF Construct, IInv, TypeOK
<1>2. patches' \in [Feature -> [Level -> Patch]]
  <2>1. \A f \in Feature : [l \in Level |-> [point |-> keypoints[f].point, frame |-> loaded]]
          \in [Level -> Patch]
    BY DEF IInv, TypeOK, KeyPoint, Patch
  <2> QED
    BY <1>1, <2>1 DEF IInv, TypeOK
<1>3. TypeOK'
  <2>1. index' \in 1 .. (EndIndex + 1)
    BY <1>1 DEF IInv, TypeOK, ImageOfIndex
  <2> QED
    BY <1>1, <1>2, <2>1 DEF IInv, TypeOK
<1>4. StaleCounted'
  BY <1>1, SameKeypoints DEF IInv
<1>5. PatchesAreCurrent'
  BY <1>1 DEF IInv, TypeOK, Advanced, PatchesAreCurrent
<1>6. LiveIsFresh' /\ Tracked' /\ Advanced' /\ StaleInBoth'
  BY <1>1 DEF IInv, LiveIsFresh, Tracked, Advanced, StaleInBoth
<1>7. ImageOfIndex' /\ Printed'
  BY <1>1 DEF IInv, TypeOK, ImageOfIndex, Printed
<1> QED
  BY <1>3, <1>4, <1>5, <1>6, <1>7 DEF IInv

LEMMA OtherSteps ==
  ASSUME IInv, RetrieveFails \/ Keep \/ Finish \/ UNCHANGED vars
  PROVE  IInv'
<1>1. UNCHANGED <<loaded, keypoints_size, stale_features, keypoints, end_keypoints,
                  patches, level, feature, flow, lines>>
  BY DEF RetrieveFails, Keep, Finish, vars
<1>2. TypeOK' /\ ImageOfIndex' /\ Printed'
  BY <1>1 DEF RetrieveFails, Keep, Finish, vars, IInv, TypeOK, ImageOfIndex, Printed, Live
<1>3. StaleCounted'
  BY <1>1, SameKeypoints DEF IInv
<1>4. PatchesAreCurrent' /\ LiveIsFresh' /\ Tracked' /\ Advanced' /\ StaleInBoth'
  BY <1>1
  DEF RetrieveFails, Keep, Finish, vars, IInv, PatchesAreCurrent, LiveIsFresh, Tracked,
      Advanced, StaleInBoth
<1> QED
  BY <1>2, <1>3, <1>4 DEF IInv

LEMMA StepInv ==
  ASSUME IInv, [Next]_vars
  PROVE  IInv'
  BY RetrieveStep, TrackStaleStep, TrackFeatureStep, CountStaleStep, ExtractStep,
     ConstructStep, OtherSteps
  DEF Next

(* The buffers of the main loop stay consistent with each other. *)
THEOREM Inductive == Spec => []IInv
<1>1. Init => IInv
  BY InitInv
<1>2. IInv /\ [Next]_vars => IInv'
  BY StepInv
<1> QED
  BY <1>1, <1>2, PTL DEF Spec

(* Every loop variable stays in the buffers, and no index gets two lines.  *)
THEOREM TypeCorrect == Spec => []TypeOK
<1>1. IInv => TypeOK
  BY DEF IInv
<1> QED
  BY <1>1, Inductive, PTL

(* The decision to extract again rests on the true number of stale         *)
(* keypoints.                                                              *)
THEOREM StaleIsCounted == Spec => []StaleCounted
<1>1. IInv => StaleCounted
  BY DEF IInv
<1> QED
  BY <1>1, Inductive, PTL

(* track_features compares each image with patches of the last image that  *)
(* was loaded, at each keypoint's own position.                            *)
THEOREM PatchesStayCurrent == Spec => []PatchesAreCurrent
<1>1. IInv => PatchesAreCurrent
  BY DEF IInv
<1> QED
  BY <1>1, Inductive, PTL

(* Nothing the second buffer still held from an earlier image is printed.  *)
THEOREM OnlyFreshIsPrinted == Spec => []LiveIsFresh
<1>1. IInv => LiveIsFresh
  BY DEF IInv
<1> QED
  BY <1>1, Inductive, PTL

(* A keypoint that left the image stays as it was until the next           *)
(* extraction.                                                             *)
THEOREM NoRevival == Spec => StaleStaysStale
<1>1. IInv /\ [Next]_vars =>
        [pc # "Resample" =>
           \A f \in InUse : keypoints[f].stale => keypoints'[f] = keypoints[f]]_vars
  <2> SUFFICES ASSUME IInv, [Next]_vars, pc # "Resample", NEW f \in InUse, keypoints[f].stale
               PROVE  keypoints'[f] = keypoints[f]
    OBVIOUS
  <2>1. CASE CountStale
    BY <2>1 DEF CountStale, IInv, TypeOK, StaleInBoth
  <2>2. CASE ~CountStale
    <3>1. keypoints' = keypoints
      BY <2>2
      DEF Next, vars, RetrieveFails, Retrieve, TrackStale, TrackFeature, TrackUnchanged,
          Extract, Keep, Construct, Finish
    <3> QED
      BY <3>1
  <2> QED
    BY <2>1, <2>2
<1> QED
  BY <1>1, Inductive, PTL DEF Spec, StaleStaysStale

(* Each image that was loaded gets one line and each that was not gets     *)
(* none.                                                                   *)
THEOREM OneLineEach == Spec => OneLinePerFrame
<1>1. IInv /\ [Next]_vars =>
        [index' # index => lines[index] = IF loaded = index THEN 1 ELSE 0]_vars
  <2> SUFFICES ASSUME IInv, [Next]_vars, index' # index
               PROVE  lines[index] = IF loaded = index THEN 1 ELSE 0
    OBVIOUS
  <2>1. RetrieveFails \/ Construct
    BY DEF Next, vars, RetrieveFails, Retrieve, TrackStale, TrackFeature, TrackUnchanged,
           CountStale, Extract, Keep, Construct, Finish
  <2>2. CASE RetrieveFails
    BY <2>2 DEF RetrieveFails, IInv, TypeOK, ImageOfIndex, Printed
  <2>3. CASE Construct
    BY <2>3 DEF Construct, IInv, ImageOfIndex, Printed
  <2> QED
    BY <2>1, <2>2, <2>3
<1> QED
  BY <1>1, Inductive, PTL DEF Spec, OneLinePerFrame
=============================================================================
