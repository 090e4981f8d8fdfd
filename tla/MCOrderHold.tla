---------------------------- MODULE MCOrderHold ----------------------------
(***************************************************************************)
(* Instances of OrderHold for TLC.  Liveness is checked without symmetry.  *)
(***************************************************************************)
EXTENDS OrderHold, TLC

WorkerSymmetry == Permutations(Workers)
=============================================================================
