----------------------------- MODULE MCLinePool -----------------------------
(***************************************************************************)
(* Instances of LinePool for TLC.  The workers are interchangeable.        *)
(***************************************************************************)
EXTENDS LinePool, TLC

WorkerSymmetry == Permutations(Workers)
=============================================================================
