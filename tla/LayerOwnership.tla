--------------------------- MODULE LayerOwnership ----------------------------
\* Who owns each layer: keys holding it, locks, a one-shot and the running
\* pointing mode share the layers of one keyboard, and each layer is on while
\* any of them owns it. Every change of QMK's layer state runs the hook of
\* PointingLinks before the next layer is looked at.
\*
\* Source: state/ownership/layer_ownership.c.
EXTENDS PointingLinks

\* `Step` on each layer of `ls`, the lowest first.
EachLayer(Step(_, _), b, ls) ==
  LET after[l \in 0..Cardinality(Layers)] ==
        IF l = 0 THEN b
        ELSE IF l \in ls THEN Step(after[l - 1], l) ELSE after[l - 1]
  IN after[Cardinality(Layers)]

OwnedBy(b, l) == b.count[l] > 0 \/ l \in b.locked \cup b.oneshot \cup b.modeLayers

ApplyLayer(b, l) ==
  IF OwnedBy(b, l) = (l \in b.on) THEN b
  ELSE LayerStateSet(b, IF OwnedBy(b, l) THEN b.on \cup {l} ELSE b.on \ {l})

ApplyLayers(b, ls) == EachLayer(ApplyLayer, b, ls)

\* Layers that join turn on before layers that leave turn off.
ApplyChange(b, before, after) ==
  ApplyLayers(ApplyLayers(b, after \ before), before \ after)

------------------------------------------------------------------------------
\* Locks, Move to, one-shots, and the running mode's own layers

SetLock(locked, b, l) ==
  IF locked = (l \in b.locked) THEN b
  ELSE ApplyLayer([b EXCEPT !.locked = IF locked THEN @ \cup {l} ELSE @ \ {l}], l)

LockEach(b, ls, locked) == EachLayer(LAMBDA c, l : SetLock(locked, c, l), b, ls)

ToggleLockSet(b, ls) == LockEach(b, ls, ~(ls \subseteq b.locked))

OneshotArm(b, armed) == ApplyChange([b EXCEPT !.oneshot = armed], b.oneshot, armed)

\* `again`: a second tap of the same layers within the double-tap term.
OneshotTap(b, ls, again) ==
  IF b.oneshot # ls THEN OneshotArm(b, ls)
  ELSE IF again THEN OneshotArm(b, {}) ELSE b

\* The targets lock before the others release.
GotoSet(b, ls) == OneshotArm(LockEach(LockEach(b, ls, TRUE), Layers \ ls, FALSE), {})

SetModeLayers(b, ls) == ApplyChange([b EXCEPT !.modeLayers = ls], b.modeLayers, ls)

------------------------------------------------------------------------------
\* Keys holding a layer, and keys holding a shortcut's layers

\* A layer whose first owner arrives turns on, one whose last leaves turns off.
AddOwner(b, l) ==
  LET c == [b EXCEPT !.count[l] = @ + 1]
  IN IF b.count[l] = 0 THEN ApplyLayer(c, l) ELSE c

RemoveOwner(b, l) ==
  LET c == [b EXCEPT !.count[l] = @ - 1]
  IN CASE b.count[l] = 0 -> b
       [] b.count[l] = 1 -> ApplyLayer(c, l)
       [] OTHER -> c

RemoveSlot(b, k) ==
  LET l == b.bind[k]
      c == [b EXCEPT !.bind[k] = 0]
  IN IF b.count[l] = 0 THEN c ELSE ApplyLayer([c EXCEPT !.count[l] = @ - 1], l)

\* Mutant: a key that moves its hold leaves the first layer's count behind.
MomentaryPressOver(b, k, l) ==
  IF b.bind[k] = l THEN ApplyLayer(b, l) ELSE AddOwner([b EXCEPT !.bind[k] = l], l)

MomentaryPress(b, k, l) ==
  IF b.bind[k] = l THEN ApplyLayer(b, l)
  ELSE LET free == IF b.bind[k] # 0 THEN RemoveSlot(b, k) ELSE b
       IN AddOwner([free EXCEPT !.bind[k] = l], l)

MomentaryRelease(b, k) == IF b.bind[k] = 0 THEN b ELSE RemoveSlot(b, k)

ShortcutAcquire(b, ls) == EachLayer(AddOwner, b, ls)
ShortcutDrop(b, ls) == EachLayer(RemoveOwner, b, ls)

\* `part`: the key's held action, or its own hold.
ShortcutBind(b, k, part, ls) ==
  ShortcutDrop(ShortcutAcquire([b EXCEPT !.shortcut[k][part] = ls], ls), b.shortcut[k][part])

ShortcutUnbind(b, k, part) ==
  ShortcutDrop([b EXCEPT !.shortcut[k][part] = {}], b.shortcut[k][part])

==============================================================================
