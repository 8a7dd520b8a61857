------------------------------- MODULE MCPath -------------------------------
(***************************************************************************)
(* Path.tla for TLC: sessions are interchangeable.                         *)
(***************************************************************************)
EXTENDS Path, TLC

SessionSymmetry == Permutations(Sessions)
=============================================================================
