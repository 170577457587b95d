----------------------------- MODULE MCKeyRuntime -----------------------------
(* The key runtime's small instances: two or three keys with the rows the  *)
(* keymap gives its keys, one for each kind of behaviour.                  *)
EXTENDS KeyRuntime

CONSTANTS a, b, c

NoStep == [tap |-> FALSE, hold |-> "none", long |-> "none", changes |-> {}, mods |-> {}]
Row == [handled |-> TRUE, dual |-> FALSE, momentary |-> FALSE, fallback |-> FALSE, native |-> FALSE,
        holdTerm |-> 2, longTerm |-> 3, tapTerm |-> 2, steps |-> <<NoStep>>]
One(step) == [Row EXCEPT !.steps = <<step>>]

\* A key QMK handles: a letter, and a modifier.
Letter == [Row EXCEPT !.handled = FALSE, !.steps = <<>>]
Modifier == [Letter EXCEPT !.native = TRUE]
\* LT() and MT(): the hold is a layer, or modifiers.
LayerTap == [One([NoStep EXCEPT !.hold = "held", !.changes = {"hold"}]) EXCEPT !.dual = TRUE]
ModTap == [One([NoStep EXCEPT !.hold = "held", !.changes = {"hold"}, !.mods = {"hold"}]) EXCEPT !.dual = TRUE]
\* A tap/hold row whose hold is an output of its own, and its long hold.
TapHold == One([NoStep EXCEPT !.hold = "held"])
HoldThenLong == One([NoStep EXCEPT !.hold = "dispatch", !.long = "dispatch"])
HeldThenLong == One([NoStep EXCEPT !.hold = "held", !.long = "held", !.mods = {"hold"}])
RepeatThenLong == One([NoStep EXCEPT !.hold = "repeat", !.long = "held"])
ReleaseHold == One([NoStep EXCEPT !.hold = "release", !.long = "release"])
\* A layer key with a tap, a key held from its press.
LayerKey == [Row EXCEPT !.momentary = TRUE]
Immediate == One([NoStep EXCEPT !.hold = "immediate"])
\* Two and three taps.
DoubleTap == [Row EXCEPT !.steps = <<NoStep, [NoStep EXCEPT !.tap = TRUE]>>]
TripleHold == [Row EXCEPT !.steps = <<[NoStep EXCEPT !.hold = "held"], NoStep,
                                      [NoStep EXCEPT !.tap = TRUE, !.hold = "dispatch"]>>]
DoubleRelease == [Row EXCEPT !.steps = <<NoStep, [NoStep EXCEPT !.hold = "release", !.long = "dispatch"]>>]
\* A letter with two taps: its hold is the letter itself.
Fallback == [Row EXCEPT !.fallback = TRUE, !.steps = <<NoStep, [NoStep EXCEPT !.tap = TRUE]>>]

Pairs(first, second) == {a :> x @@ b :> y : x \in first, y \in second}

MCOrder == <<a, b>>
MCLayouts ==
    Pairs({LayerTap}, {TapHold, Modifier, DoubleRelease})
        \cup Pairs({ModTap}, {LayerTap, HoldThenLong, DoubleTap, ReleaseHold})
        \cup Pairs({Letter}, {TripleHold, HeldThenLong, RepeatThenLong})
        \cup Pairs({DoubleTap}, {Fallback, Immediate, TripleHold})
        \cup Pairs({LayerKey}, {TapHold})

\* A key that settles its own tap and one with a fallback hold.
FallbackLayouts == Pairs({TapHold}, {Fallback})

\* Two undecided keys, one inside the other, and a letter.
NestedOrder == <<a, b, c>>
NestedLayouts == {a :> LayerTap @@ b :> ModTap @@ c :> Letter}
=============================================================================
