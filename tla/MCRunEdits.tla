----------------------------- MODULE MCRunEdits -----------------------------
(* RunEdits with interchangeable editors. *)
EXTENDS RunEdits, TLC

MCSymmetry == Permutations(Editors)
=============================================================================
