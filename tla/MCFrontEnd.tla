------------------------------ MODULE MCFrontEnd ------------------------------
(* FrontEnd.tla on three images and up to three keypoints, two of which    *)
(* must be live, so that a frame can keep a set with a stale keypoint in   *)
(* it, lose too many, or extract too few.                                  *)
EXTENDS FrontEnd
=============================================================================
