---------------------------- MODULE MCOwnedOutput ----------------------------
(* Two modifiers and one usage: Ctrl, Ctrl+Shift as one combination, and a *)
(* shifted usage, whose lease takes Shift but whose native press holds it  *)
(* only weakly.                                                            *)
EXTENDS OwnedOutput

CONSTANTS ctrl, shift, a, k1, k2

Ctrl == [mods |-> {ctrl}, real |-> {ctrl}, uses |-> {}, modded |-> FALSE]
Both == [mods |-> {ctrl, shift}, real |-> {ctrl, shift}, uses |-> {},
         modded |-> TRUE]
Shifted == [mods |-> {shift}, real |-> {}, uses |-> {a}, modded |-> TRUE]

AllKeycodes == {Shifted, Ctrl, Both}
NativeMixed == [k \in Keys |-> IF k = k1 THEN Shifted ELSE Both]
CtrlMode == {{ctrl}}
=============================================================================
