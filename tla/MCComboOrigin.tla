---------------------------- MODULE MCComboOrigin ----------------------------
(* Two chords of two keys with one output.                                 *)
EXTENDS ComboOrigin
CONSTANTS k1, k2, k3, k4
TwoChords == <<<<k1, k2>>, <<k3, k4>>>>
=============================================================================
