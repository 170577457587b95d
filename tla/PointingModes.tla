---------------------------- MODULE PointingModes ----------------------------
\* The pointing-mode commands, and every key effect that changes a layer or a
\* mode: a board's layer keys, shortcut keys, locks, one-shots and mode keys in
\* any order, with QMK turning the pointer layer on and off and resetting its
\* auto-mouse state between them.
\*
\* Sources: pointing/runtime/pointing_mode_state.c and pointing_mode_lifecycle.c,
\* key/runtime/projection/{projection,pd_projection}.c, key/ownership/held_action.c,
\* action/action_kind_dispatch.c.
EXTENDS LayerOwnership

CONSTANTS Setups,       \* the profiles an instance starts from
          HoldLayers,   \* the layers a layer key holds
          HoldSets, LockSets, MoveSets, OneshotSets  \* the sets each kind names

ASSUME SetsAssumption ==
          /\ HoldLayers \subseteq Layers
          /\ HoldSets \cup LockSets \cup MoveSets \cup OneshotSets \subseteq SUBSET Layers
          /\ \A p \in Setups : p.linked \in [Modes -> SUBSET Layers] /\ p.turnsOn \in [Modes -> SUBSET Layers]

NoParts == [held |-> {}, momentary |-> {}]

\* The bounds on what is pressed are the sets above.
Init ==
  /\ setup \in Setups
  /\ held = {} /\ glitch = {}
  /\ board = [on |-> {}, count |-> [l \in Layers |-> 0], bind |-> [k \in LayerKeys |-> 0],
              shortcut |-> [k \in ShortcutKeys |-> NoParts],
              locked |-> {}, oneshot |-> {}, modeLayers |-> {},
              active |-> None, source |-> "none", lockedMode |-> None, owners |-> {},
              lockAnchor |-> FALSE, anchor |-> FALSE, tracker |-> 0, mouse |-> FALSE,
              toggled |-> FALSE, toggleOwned |-> FALSE,
              steady |-> {}, entered |-> {}]

------------------------------------------------------------------------------
\* Commands

\* A typing mode leaves the pointer layer at once; a locked one that keeps it
\* counts on the tracker, unless another mode was running.
AutoMouseActivate(b, m, wasAny) ==
  CASE ~KeepsAnchored(m) -> StripPointer(b)
    [] KeepsAnchored(m) /\ ~wasAny /\ UsesLockAnchor(m, b.lockedMode = m) -> SyncLockAnchor(b, TRUE)
    [] OTHER -> b

ActivateFromKey(b, m) ==
  AutoMouseActivate([Entered(b, m) EXCEPT !.source = "key"], m, b.active # None)

\* Another mode's lock goes, then another mode that runs unlocked.
LeaveOthers(b, m) ==
  LET c == IF b.lockedMode \notin {None, m} THEN Unlock(b, b.lockedMode) ELSE b
  IN IF c.active \notin {None, m, c.lockedMode} THEN Deactivate(c, c.active, FALSE) ELSE c

\* A mode its key starts or locks runs from that key, even one its layer ran a
\* moment ago, and its key's layers come on once it runs.
KeyTakes(b, before, m) ==
  LET c == [b EXCEPT !.source = "key"]
      d == IF before.source = "layer" /\ before.active = m THEN AutoMouseActivate(c, m, FALSE) ELSE c
  IN SetModeLayers(d, TurnsOn(m))

KeyEnds(b, m) == IF b.lockedMode = m THEN Unlock(b, m) ELSE Deactivate(b, m, FALSE)

\* Mutant: the mode is ended even when its own layers start it.
HandOverAnyway(b, m, next) ==
  IF next = None THEN KeyEnds(b, m) ELSE StripPointer(StartLayerMode(KeyEnds(b, m), next))

\* What the links start once `m`'s own layers are off: `m` itself keeps running.
HandOver(b, m, next) ==
  IF next = None THEN KeyEnds(b, m)
  ELSE StripPointer(IF next = m THEN HandToLayer(b, m) ELSE StartLayerMode(KeyEnds(b, m), next))

\* Mutant: the links are read while the layers its key turned on are still on.
EndKeySourceStale(b, m) == HandOver(SetModeLayers(b, {}), m, LayerStartedMode(b.on))

\* The layers its key turned on go first, while the key still runs it; then
\* the links decide what runs.
LinksDecide(b, m) == HandOver(b, m, LayerStartedMode(b.on))
EndKeySource(b, m) == LinksDecide(SetModeLayers(b, {}), m)

Running(b, m) == IF b.active = m THEN b ELSE ActivateFromKey(b, m)
Owning(b, m, owners) == IF b.lockedMode = m THEN b ELSE [b EXCEPT !.owners = owners]

\* Mutant: the keys of the mode it replaces stay owners.
JoinAnyway(b, left, x) == b.owners \cup {x}

JoinOwners(b, left, x) ==
  (IF left = b /\ b.active = KeyMode[x] THEN b.owners ELSE {}) \cup {x}

TakeKey(b, left, x) ==
  KeyTakes(Owning(Running(left, KeyMode[x]), KeyMode[x], JoinOwners(b, left, x)), b, KeyMode[x])
KeyPress(b, x) == TakeKey(b, LeaveOthers(b, KeyMode[x]), x)

KeyRelease(b, x) ==
  LET m == KeyMode[x]
      c == [b EXCEPT !.owners = @ \ {x}]
  IN IF ~KeyRuns(b) \/ b.active # m \/ b.lockedMode = m THEN b
     ELSE IF c.owners # {} THEN c ELSE EndKeySource(c, m)

\* Locked, it owns QMK's toggle or counts on the tracker, and no key owns it.
LockMode(b, m) ==
  LET left == LeaveOthers(b, m)
      running == ActivateFromKey([left EXCEPT !.lockedMode = m], m)
  IN KeyTakes(AttachToggle([running EXCEPT !.owners = {}], m), b, m)

UnlockMode(b, m) == EndKeySource([b EXCEPT !.owners = {}], m)

------------------------------------------------------------------------------
\* A step: one effect of the key runtime, or one thing QMK does

\* The layers owned before and after the step that were off in between, and the
\* mode a key ran before or after it that ran at both ends and restarted.
Blinked(b) == {l \in (board.on \cap b.on) \ ({Pointer} \cup b.steady) : OwnedBy(board, l)}
Restarted(b) ==
  {m \in {board.active} \cap {b.active} \cap b.entered : m # None /\ (KeyRuns(board) \/ KeyRuns(b))}

Become(b) ==
  /\ board' = [b EXCEPT !.steady = {}, !.entered = {}]
  /\ glitch' = Blinked(b) \cup Restarted(b)
  /\ UNCHANGED setup

Start == [board EXCEPT !.steady = board.on]

\* LAYER_PRESS and LAYER_RELEASE.
HoldLayer(k, l) == Become(MomentaryPress(Start, k, l)) /\ UNCHANGED held
ReleaseLayer(k) == board.bind[k] # 0 /\ Become(MomentaryRelease(Start, k)) /\ UNCHANGED held

HoldShortcut(k, part, ls) == Become(ShortcutBind(Start, k, part, ls)) /\ UNCHANGED held
ReleaseShortcut(k, part) ==
  board.shortcut[k][part] # {} /\ Become(ShortcutUnbind(Start, k, part)) /\ UNCHANGED held

\* A tap of a Hold shortcut owns its layers for the tap's length.
TapShortcut(ls) == Become(ShortcutDrop(ShortcutAcquire(Start, ls), ls)) /\ UNCHANGED held

ToggleLock(ls) == Become(ToggleLockSet(Start, ls)) /\ UNCHANGED held
Goto(ls) == Become(GotoSet(Start, ls)) /\ UNCHANGED held
Oneshot(ls, again) == Become(OneshotTap(Start, ls, again)) /\ UNCHANGED held
UseOneshot == board.oneshot # {} /\ Become(OneshotArm(Start, {})) /\ UNCHANGED held

\* The mode runs before another key's hold is preempted.
Preempt(b, others) ==
  LET order == SetToSeq(others)
      after[i \in 0..Len(order)] ==
        IF i = 0 THEN b ELSE KeyRelease(after[i - 1], order[i])
  IN after[Len(order)]
Others(m) == {x \in held : KeyMode[x] # m}

ModePress(x) ==
  /\ x \notin held
  /\ held' = (held \ Others(KeyMode[x])) \cup {x}
  /\ Become(Preempt(KeyPress(Start, x), Others(KeyMode[x])))

ModeRelease(x) == x \in held /\ held' = held \ {x} /\ Become(KeyRelease(Start, x))

\* A lock tap the runtime projects preempts other holds; the same lock sent as
\* an action does not.
ModeLock(m, preempts) ==
  LET locks == board.lockedMode # m
      others == IF locks /\ preempts THEN Others(m) ELSE {}
  IN /\ held' = held \ others
     /\ Become(IF locks THEN Preempt(LockMode(Start, m), others) ELSE UnlockMode(Start, m))

------------------------------------------------------------------------------
\* QMK's auto-mouse

\* The pointing task: an active trackball or an anchor turns the pointer layer
\* on; with neither its timeout may end it.
PointingTask(moved) ==
  LET b == SyncAnchor(Start)
      keeps == moved \/ b.toggled \/ b.tracker # 0
  IN /\ Become(IF keeps = (Pointer \in b.on) THEN b
               ELSE LayerStateSet(b, IF keeps THEN b.on \cup {Pointer} ELSE b.on \ {Pointer}))
     /\ UNCHANGED held

\* A key that is no mouse key, and then the runtime's look at its count.
OtherKey == Pointer \in board.on /\ Become(SyncAnchor(StripPointer(Start))) /\ UNCHANGED held

\* One of QMK's own mouse keys, which QMK never counts below zero.
MouseKey ==
  LET b == [Start EXCEPT !.mouse = ~@]
  IN Become(SyncAnchor(IF b.mouse THEN Keyevent(b, TRUE) ELSE CountIf(b, FALSE))) /\ UNCHANGED held

\* An edit of QMK's auto-mouse settings zeroes what it counted.
ResetAutoMouse == Become([Start EXCEPT !.tracker = 0, !.toggled = FALSE]) /\ UNCHANGED held

Next ==
  \/ \E k \in LayerKeys : ReleaseLayer(k) \/ \E l \in HoldLayers : HoldLayer(k, l)
  \/ \E k \in ShortcutKeys, part \in {"held", "momentary"} :
       ReleaseShortcut(k, part) \/ \E ls \in HoldSets : HoldShortcut(k, part, ls)
  \/ \E ls \in HoldSets : TapShortcut(ls)
  \/ \E ls \in LockSets : ToggleLock(ls)
  \/ \E ls \in MoveSets : Goto(ls)
  \/ \E ls \in OneshotSets, again \in BOOLEAN : Oneshot(ls, again)
  \/ UseOneshot
  \/ \E x \in ModeKeys : ModePress(x) \/ ModeRelease(x)
  \/ \E m \in Modes, preempts \in BOOLEAN : ModeLock(m, preempts)
  \/ \E moved \in BOOLEAN : PointingTask(moved)
  \/ OtherKey \/ MouseKey \/ ResetAutoMouse

Spec == Init /\ [][Next]_vars

------------------------------------------------------------------------------
\* Properties

\* A layer other than the pointer layer is on exactly while something owns it,
\* and its count is the number of keys that hold it.
LayersMatchOwners ==
  \A l \in Layers :
    /\ l # Pointer => (l \in board.on <=> OwnedBy(board, l))
    /\ board.count[l] = Cardinality({k \in LayerKeys : board.bind[k] = l})
                        + Cardinality({k \in ShortcutKeys : l \in board.shortcut[k].held})
                        + Cardinality({k \in ShortcutKeys : l \in board.shortcut[k].momentary})

\* No step turns a layer off and on again that is owned before and after it,
\* nor restarts a mode that runs before and after it and that a key ran at
\* either end: handing a layer from owner to owner, or a mode between its keys,
\* its lock and its layers, is not seen by anything that reads them.
NothingInBetween == glitch = {}

\* A key-run mode is locked or some key that holds it is still down, and only
\* then are its key's layers on; without one, the links alone decide which mode
\* runs: no order of presses, locks and preemption leaves a mode running that
\* nothing ends.
ModeEndsWithItsKeys ==
  /\ ~KeyRuns(board) => board.active = LayerStartedMode(board.on)
  /\ board.modeLayers = IF KeyRuns(board) THEN TurnsOn(board.active) ELSE {}
  /\ board.owners \subseteq {x \in held : KeyMode[x] = board.active}
  /\ KeyRuns(board) => board.lockedMode = board.active \/ board.owners # {}
  /\ board.lockedMode # None => KeyRuns(board) /\ board.active = board.lockedMode

\* The pointer layer stays on while a key holds it or it is locked, through
\* QMK's timeout, other keys and a reset of QMK's counts, unless a sniping
\* layer, a typing mode or a layer's mode takes it away.
OwnedPointerStays ==
  [][(Pointer \in board.on /\ PointerOwned(board) /\ PointerOwned(board)')
       => (\/ Pointer \in board'.on
           \/ PointerStripped(board, board.on) \/ PointerStripped(board, board.on)')]_vars

==============================================================================
