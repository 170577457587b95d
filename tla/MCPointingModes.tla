--------------------------- MODULE MCPointingModes ---------------------------
EXTENDS PointingModes
CONSTANTS A, B, x, y, z
MCLayers == 1..3
MCKeyMode == (x :> A) @@ (y :> A) @@ (z :> B)
MCHoldSets == {{1, 3}}
MCLockSets == {{2}, {1, 3}}
MCMoveSets == {{3}}
MCOneshotSets == {{1, 3}}
Ends(a, b) == (A :> a) @@ (B :> b)
\* A scrolling mode and a typing mode; every kind of link end; a mode whose key
\* turns on the layer that starts it; a layer both keys turn on; a sniping layer.
MCSetups == {
  [linked |-> Ends({1}, {2, 3}), turnsOn |-> Ends({1}, {1}), ends |-> Ends("none", "higher"),
   typing |-> {B}, scrolling |-> {A}, sniping |-> {2}],
  [linked |-> Ends({1}, {}), turnsOn |-> Ends({3}, {2, 3}), ends |-> Ends("other", "none"),
   typing |-> {}, scrolling |-> {B}, sniping |-> {3}]}
==============================================================================
