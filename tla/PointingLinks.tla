---------------------------- MODULE PointingLinks ----------------------------
\* Which pointing mode the layers that are on start, what starting and ending
\* one does to QMK's auto-mouse state, and the layer-state hook, which runs on
\* every layer change and has the last word on the pointer layer.
\*
\* Everything here is a function of the record `board`; LayerOwnership and
\* PointingModes compose these functions the way the code nests its calls.
\*
\* Sources: pointing/runtime/{pd_runtime,pointing_mode_state,
\* pointing_mode_lifecycle,pointing_mode_registry}.c,
\* pointing/policy/{pointer_layer_policy.c,pointing_mode_policy.h}.
EXTENDS Integers, FiniteSets, SequencesExt

CONSTANTS Layers,       \* the keymap's layers above the base layer
          Pointer,      \* the layer QMK's auto-mouse turns on
          Modes, None,
          LayerKeys, ShortcutKeys, ModeKeys,
          KeyMode       \* the mode each mode key's keycode runs

ASSUME LayersAssumption ==
          /\ IsFiniteSet(Layers) /\ Layers = 1..Cardinality(Layers) /\ Pointer \in Layers
          /\ IsFiniteSet(LayerKeys) /\ IsFiniteSet(ShortcutKeys) /\ IsFiniteSet(ModeKeys)
          /\ None \notin Modes /\ KeyMode \in [ModeKeys -> Modes]

VARIABLES setup,        \* the profile: linked, turnsOn, ends, typing, scrolling, sniping
          board,        \* the ledgers, QMK's layer state and its auto-mouse state
          held,         \* the mode keys whose hold the key runtime still owns
          glitch        \* what the last step turned off or left and took up again

vars == <<setup, board, held, glitch>>

------------------------------------------------------------------------------
\* The profile's slots

\* The pointer layer is inert: no link of it has any effect.
Linked(m) == setup.linked[m] \ {Pointer}
TurnsOn(m) == setup.turnsOn[m] \ {Pointer}

Top(m, on) == Max({0} \cup (on \cap Linked(m)))

Ended(m, on) ==
  LET others == on \ {Pointer}
  IN \/ setup.ends[m] = "higher" /\ \E l \in others : l > Top(m, on)
     \/ setup.ends[m] = "other" /\ ~(others \subseteq setup.linked[m] \cup setup.turnsOn[m])

\* The mode of the highest linked layer that is on and does not end it.
LayerStartedMode(on) ==
  LET started == {m \in Modes : Top(m, on) > 0 /\ ~Ended(m, on)}
  IN IF started = {} THEN None
     ELSE CHOOSE m \in started : \A n \in started : Top(n, on) <= Top(m, on)

KeepsAnchored(m) == m \notin setup.typing
OwnsToggle(m) == m \in setup.scrolling /\ KeepsAnchored(m)
UsesLockAnchor(m, locked) == locked /\ KeepsAnchored(m) /\ ~OwnsToggle(m)

KeyRuns(b) == b.active # None /\ b.source = "key"

------------------------------------------------------------------------------
\* Counts on QMK's key tracker

\* QMK's auto_mouse_keyevent().
Keyevent(b, pressed) == [b EXCEPT !.tracker = IF pressed THEN @ + 1 ELSE @ - 1]

\* A count is taken back only while there is one to take.
CountIf(b, should) ==
  IF should \/ b.tracker > 0 THEN Keyevent(b, should) ELSE b

SyncLockAnchor(b, should) ==
  IF b.lockAnchor = should THEN b ELSE [CountIf(b, should) EXCEPT !.lockAnchor = should]

PointerOwned(b) == Pointer \in b.locked \/ b.count[Pointer] > 0

\* Mutant: the count is thought to be there after QMK has dropped it.
SyncAnchorTrusting(b) ==
  IF b.anchor = PointerOwned(b) THEN b
  ELSE [CountIf(b, PointerOwned(b)) EXCEPT !.anchor = PointerOwned(b)]

\* The count is found gone when the tracker has none.
SyncAnchor(b) ==
  LET anchored == b.anchor /\ b.tracker > 0
  IN IF anchored = PointerOwned(b) THEN [b EXCEPT !.anchor = anchored]
     ELSE [CountIf(b, PointerOwned(b)) EXCEPT !.anchor = PointerOwned(b)]

------------------------------------------------------------------------------
\* Transitions that change no layer

Deactivate(b, m, wasLocked) ==
  LET c == [b EXCEPT !.active = IF @ = m THEN None ELSE @]
      d == [c EXCEPT !.source = IF c.active = None THEN "none" ELSE @]
  IN IF UsesLockAnchor(m, wasLocked) /\ b.active # None /\ c.active = None
     THEN SyncLockAnchor(d, FALSE) ELSE d

\* The lock hooks of a mode that owns QMK's auto-mouse toggle.
AttachToggle(b, m) ==
  IF OwnsToggle(m) THEN [b EXCEPT !.toggled = TRUE, !.toggleOwned = ~b.toggled] ELSE b
DetachToggle(b, m) ==
  IF OwnsToggle(m)
  THEN [b EXCEPT !.toggled = @ /\ ~b.toggleOwned, !.toggleOwned = FALSE] ELSE b

Unlock(b, m) == Deactivate([DetachToggle(b, m) EXCEPT !.lockedMode = None], m, TRUE)

Entered(b, m) ==
  IF b.active = m THEN b ELSE [b EXCEPT !.active = m, !.entered = @ \cup {m}]

StartLayerMode(b, m) == [Entered(b, m) EXCEPT !.source = "layer"]

\* It keeps running, without a restart.
HandToLayer(b, m) ==
  LET c == [DetachToggle(b, m) EXCEPT !.lockedMode = None]
      d == IF b.lockedMode = m
           THEN IF UsesLockAnchor(m, TRUE) THEN SyncLockAnchor(c, FALSE) ELSE c
           ELSE b
  IN [d EXCEPT !.source = "layer"]

------------------------------------------------------------------------------
\* The layer-state hook

\* While a key runs a mode, the links wait.
ApplyLinks(b, on) ==
  LET wanted == LayerStartedMode(on)
      ended == IF b.active = None THEN b ELSE Deactivate(b, b.active, b.lockedMode = b.active)
  IN IF KeyRuns(b) \/ wanted = b.active THEN b
     ELSE IF wanted = None THEN ended ELSE StartLayerMode(ended, wanted)

\* A typing mode its key runs, another sniping layer, or a mode its layer
\* started take the pointer layer away; an anchor keeps it.
PointerStripped(b, on) ==
  \/ KeyRuns(b) /\ b.active \in setup.typing /\ Pointer \notin setup.sniping
  \/ (on \cap setup.sniping) \ {Pointer} # {}
  \/ b.active # None /\ b.source = "layer"
PointerAnchored(b) ==
  b.toggled \/ b.tracker # 0 \/ (KeyRuns(b) /\ KeepsAnchored(b.active))

PolicyApply(b, on) ==
  CASE PointerStripped(b, on) -> on \ {Pointer}
    [] ~PointerStripped(b, on) /\ PointerAnchored(b) -> on \cup {Pointer}
    [] OTHER -> on

\* layer_state_set(): the hook's answer becomes the layer state. `steady` keeps
\* the layers that have been on since the operation began.
LayersBecome(b, on) == [b EXCEPT !.on = on, !.steady = @ \cap on]
PolicyAfter(b, on) == LayersBecome(b, PolicyApply(b, on))
LayerStateSet(b, on) == PolicyAfter(SyncAnchor(ApplyLinks(b, on)), on)

\* QMK's auto_mouse_layer_off(), which an anchor stops.
StripPointer(b) ==
  IF Pointer \in b.on /\ ~b.toggled /\ b.tracker = 0
  THEN LayerStateSet(b, b.on \ {Pointer}) ELSE b

==============================================================================
