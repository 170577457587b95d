----------------------------- MODULE MCTwoHalfSave -----------------------------
(* The halves are interchangeable, and so are the payloads. *)
EXTENDS TwoHalfSave, TLC

Symmetry == Permutations(Halves) \cup Permutations(Profiles)
=============================================================================
