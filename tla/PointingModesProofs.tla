------------------------- MODULE PointingModesProofs -------------------------
(* What PointingModes keeps for every number of layers, keys and modes and every *)
(* profile: its types, that each layer is on for its owners and counts the keys  *)
(* that hold it, that no step turns a layer off and on again or restarts a mode  *)
(* between two owners, that a mode ends with its keys, and that an owned pointer *)
(* layer stays on.                                                               *)
(*                                                                               *)
(* Every operation is a chain of nested calls, each of which may run the layer-  *)
(* state hook.  So each call gets an effect, a relation between the board before *)
(* and after it that says what it moved and what it left, and the effects are    *)
(* chained: Mouses and Ends move no layer, Hooked is the hook, Shift is a call   *)
(* that leaves the mode as it was or as the links say, Turn one that a mode      *)
(* command makes.  A chain keeps a layer on only if nothing in the middle takes  *)
(* away an owner that both ends have (Between).  The hook leaves an owned pointer *)
(* layer on or taken away (Shows); a call without it keeps that so, and a mode   *)
(* command too unless the mode it ends had the layer taken away (Spares).  The   *)
(* loops over layers are followed by counting up, and the counts by the          *)
(* cardinality of the keys.                                                      *)
EXTENDS PointingModes, TLAPS, FiniteSetTheorems, WellFoundedInduction

(* The number of layers.                                                    *)
N == Cardinality(Layers)

LEMMA LayersAre == N \in Nat /\ Layers = 1 .. N /\ Pointer \in 1 .. N /\ None \notin Modes
BY LayersAssumption, FS_CardinalityType DEF N

(* A set of numbers has a least one, and counting up reaches every number.  *)
LEMMA Least ==
  ASSUME NEW T, T \subseteq Nat, T # {}
  PROVE  \E i \in T : \A j \in T : i <= j
<1>1. PICK i \in T : \A j \in T : <<j, i>> \notin OpToRel(<, Nat)
  BY NatLessThanWellFounded, WFMin
<1>2. \A j \in T : ~(j < i)
  BY <1>1 DEF OpToRel
<1> QED
  BY <1>2

LEMMA Upto ==
  ASSUME NEW n \in Nat, NEW T, 0 \in T, \A i \in 1 .. n : i - 1 \in T => i \in T
  PROVE  n \in T
<1> SUFFICES ASSUME n \notin T PROVE FALSE
  OBVIOUS
<1> DEFINE M == {i \in 0 .. n : i \notin T}
<1>1. M \subseteq Nat /\ n \in M
  OBVIOUS
<1>2. PICK i \in M : \A j \in M : i <= j
  <2> HIDE DEF M
  <2> QED
    BY <1>1, Least
<1>3. i \in 1 .. n /\ i - 1 \notin M
  BY <1>2
<1>4. i - 1 \in T
  BY <1>3
<1> QED
  BY <1>2, <1>3, <1>4

(* The loops over the layers, one after the other.                          *)
(* What one turn of the loop does to layer l.                               *)
Does(kind, c, l) ==
  CASE kind = "apply" -> ApplyLayer(c, l)
    [] kind = "lock" -> SetLock(TRUE, c, l)
    [] kind = "unlock" -> SetLock(FALSE, c, l)
    [] kind = "acquire" -> AddOwner(c, l)
    [] kind = "drop" -> RemoveOwner(c, l)

Looped(kind, b, ls, g, n) ==
  g = [i \in 0 .. n |->
         IF i = 0 THEN b ELSE IF i \in ls THEN Does(kind, g[i - 1], i) ELSE g[i - 1]]

LEMMA LoopExists ==
  ASSUME NEW kind, NEW b, NEW ls PROVE \E g : Looped(kind, b, ls, g, N)
<1> DEFINE T == {n \in 0 .. N : \E g : Looped(kind, b, ls, g, n)}
<1>1. 0 \in T
  <2>1. Looped(kind, b, ls, [i \in 0 .. 0 |-> b], 0)
    BY DEF Looped
  <2> QED
    BY <2>1, LayersAre
<1>2. ASSUME NEW n \in 1 .. N, n - 1 \in T PROVE n \in T
  <2>1. PICK g : Looped(kind, b, ls, g, n - 1)
    BY <1>2
  <2> DEFINE v == IF n \in ls THEN Does(kind, g[n - 1], n) ELSE g[n - 1]
             h == [i \in 0 .. n |-> IF i = n THEN v ELSE g[i]]
  <2>2. n \in Nat /\ n # 0
    BY LayersAre
  <2>3. \A i \in 0 .. n - 1 :
          g[i] = IF i = 0 THEN b ELSE IF i \in ls THEN Does(kind, g[i - 1], i) ELSE g[i - 1]
    BY <2>1 DEF Looped
  <2>6. h[n] = v /\ \A i \in 0 .. n - 1 : h[i] = g[i]
    BY <2>2
  <2>4. ASSUME NEW i \in 0 .. n
        PROVE  h[i] = IF i = 0 THEN b ELSE IF i \in ls THEN Does(kind, h[i - 1], i) ELSE h[i - 1]
    <3> HIDE DEF h
    <3>1. CASE i = n
      BY <2>2, <2>6, <3>1
    <3>2. CASE i # n /\ i # 0
      <4>1. i \in 0 .. n - 1 /\ i - 1 \in 0 .. n - 1
        BY <2>2, <3>2
      <4> QED
        BY <2>3, <2>6, <3>2, <4>1
    <3>3. CASE i = 0
      BY <2>2, <2>3, <2>6, <3>3
    <3> QED
      BY <3>1, <3>2, <3>3
  <2>5. Looped(kind, b, ls, h, n)
    <3> HIDE DEF v
    <3>1. h = [i \in 0 .. n |-> h[i]]
      OBVIOUS
    <3> HIDE DEF h
    <3> QED
      BY <2>4, <3>1 DEF Looped
  <2> QED
    BY <2>5
<1> HIDE DEF T
<1>3. N \in T
  BY <1>1, <1>2, LayersAre, Upto
<1> QED
  BY <1>3 DEF T

(* The boards on the way from b to c, one for each layer.                   *)
Ran(kind, b, ls, c) ==
  \E g : /\ g[0] = b /\ g[N] = c
         /\ \A i \in 1 .. N : g[i] = IF i \in ls THEN Does(kind, g[i - 1], i) ELSE g[i - 1]

LEMMA RanLoop ==
  ASSUME NEW kind, NEW b, NEW ls
  PROVE  Ran(kind, b, ls, (CHOOSE g : Looped(kind, b, ls, g, N))[N])
<1> DEFINE g == CHOOSE f : Looped(kind, b, ls, f, N)
<1>1. Looped(kind, b, ls, g, N)
  BY LoopExists
<1> HIDE DEF g
<1>2. g[0] = b /\ \A i \in 1 .. N : g[i] = IF i \in ls THEN Does(kind, g[i - 1], i) ELSE g[i - 1]
  BY <1>1, LayersAre DEF Looped
<1>3. Ran(kind, b, ls, g[N])
  BY <1>2 DEF Ran
<1> QED
  BY <1>3 DEF g

LEMMA EachApply == ASSUME NEW b, NEW ls PROVE Ran("apply", b, ls, ApplyLayers(b, ls))
<1> DEFINE P(g) == g = [i \in 0 .. N |-> IF i = 0 THEN b ELSE IF i \in ls THEN ApplyLayer(g[i - 1], i) ELSE g[i - 1]]
<1>1. ASSUME NEW g PROVE P(g) <=> Looped("apply", b, ls, g, N)
  BY DEF Looped, Does
<1>2. ApplyLayers(b, ls) = (CHOOSE g : P(g))[N]
  BY Zenon DEF ApplyLayers, EachLayer, N
<1>3. (CHOOSE g : P(g)) = CHOOSE g : Looped("apply", b, ls, g, N)
  BY <1>1, Zenon
<1> QED
  BY <1>2, <1>3, RanLoop

LEMMA EachLock == ASSUME NEW b, NEW ls PROVE Ran("lock", b, ls, LockEach(b, ls, TRUE))
<1> DEFINE P(g) == g = [i \in 0 .. N |-> IF i = 0 THEN b ELSE IF i \in ls THEN SetLock(TRUE, g[i - 1], i) ELSE g[i - 1]]
<1>1. ASSUME NEW g PROVE P(g) <=> Looped("lock", b, ls, g, N)
  BY DEF Looped, Does
<1>2. LockEach(b, ls, TRUE) = (CHOOSE g : P(g))[N]
  BY Zenon DEF LockEach, EachLayer, N
<1>3. (CHOOSE g : P(g)) = CHOOSE g : Looped("lock", b, ls, g, N)
  BY <1>1, Zenon
<1> QED
  BY <1>2, <1>3, RanLoop

LEMMA EachUnlock == ASSUME NEW b, NEW ls PROVE Ran("unlock", b, ls, LockEach(b, ls, FALSE))
<1> DEFINE P(g) == g = [i \in 0 .. N |-> IF i = 0 THEN b ELSE IF i \in ls THEN SetLock(FALSE, g[i - 1], i) ELSE g[i - 1]]
<1>1. ASSUME NEW g PROVE P(g) <=> Looped("unlock", b, ls, g, N)
  BY DEF Looped, Does
<1>2. LockEach(b, ls, FALSE) = (CHOOSE g : P(g))[N]
  BY Zenon DEF LockEach, EachLayer, N
<1>3. (CHOOSE g : P(g)) = CHOOSE g : Looped("unlock", b, ls, g, N)
  BY <1>1, Zenon
<1> QED
  BY <1>2, <1>3, RanLoop

LEMMA EachAcquire == ASSUME NEW b, NEW ls PROVE Ran("acquire", b, ls, ShortcutAcquire(b, ls))
<1> DEFINE P(g) == g = [i \in 0 .. N |-> IF i = 0 THEN b ELSE IF i \in ls THEN AddOwner(g[i - 1], i) ELSE g[i - 1]]
<1>1. ASSUME NEW g PROVE P(g) <=> Looped("acquire", b, ls, g, N)
  BY DEF Looped, Does
<1>2. ShortcutAcquire(b, ls) = (CHOOSE g : P(g))[N]
  BY Zenon DEF ShortcutAcquire, EachLayer, N
<1>3. (CHOOSE g : P(g)) = CHOOSE g : Looped("acquire", b, ls, g, N)
  BY <1>1, Zenon
<1> QED
  BY <1>2, <1>3, RanLoop

LEMMA EachDrop == ASSUME NEW b, NEW ls PROVE Ran("drop", b, ls, ShortcutDrop(b, ls))
<1> DEFINE P(g) == g = [i \in 0 .. N |-> IF i = 0 THEN b ELSE IF i \in ls THEN RemoveOwner(g[i - 1], i) ELSE g[i - 1]]
<1>1. ASSUME NEW g PROVE P(g) <=> Looped("drop", b, ls, g, N)
  BY DEF Looped, Does
<1>2. ShortcutDrop(b, ls) = (CHOOSE g : P(g))[N]
  BY Zenon DEF ShortcutDrop, EachLayer, N
<1>3. (CHOOSE g : P(g)) = CHOOSE g : Looped("drop", b, ls, g, N)
  BY <1>1, Zenon
<1> QED
  BY <1>2, <1>3, RanLoop

(* Which mode the links start depends on the layers other than Pointer.     *)
(* The profile names sets of layers.                                        *)
SetupOK ==
  /\ setup.linked \in [Modes -> SUBSET Layers] /\ setup.turnsOn \in [Modes -> SUBSET Layers]

LEMMA StartedType ==
  ASSUME SetupOK, NEW on, on \subseteq Layers
  PROVE  LayerStartedMode(on) \in Modes \cup {None}
<1>1. ASSUME NEW m \in Modes PROVE Top(m, on) \in 0 .. N
  <2> DEFINE S == {0} \cup (on \cap Linked(m))
             T == {N - s : s \in S}
  <2>1. S \subseteq 0 .. N /\ S # {}
    <3>1. \A l \in on : l \in 0 .. N
      BY LayersAre
    <3>2. 0 \in 0 .. N
      BY LayersAre
    <3> QED
      BY <3>1, <3>2
  <2>2. PICK i \in T : \A j \in T : i <= j
    <3>1. T \subseteq Nat /\ T # {}
      <4> HIDE DEF S
      <4>1. \A s \in S : s \in 0 .. N
        BY <2>1
      <4>2. \A s \in S : N - s \in Nat
        BY <4>1, LayersAre
      <4>3. PICK s \in S : TRUE
        BY <2>1
      <4> QED
        BY <4>2, <4>3
    <3> HIDE DEF T
    <3> QED
      BY <3>1, Least
  <2>3. \E s \in S : \A t \in S : s >= t
    <3>1. PICK s \in S : i = N - s
      BY <2>2
    <3>2. \A t \in S : N - s <= N - t
      BY <2>2, <3>1
    <3> HIDE DEF S
    <3> QED
      BY <2>1, <3>1, <3>2, LayersAre
  <2>4. Max(S) \in S
    BY <2>3 DEF Max
  <2> QED
    BY <2>1, <2>4 DEF Top
<1> DEFINE R == {m \in Modes : Top(m, on) > 0 /\ ~Ended(m, on)}
<1>2. CASE R = {}
  BY <1>2 DEF LayerStartedMode
<1>3. CASE R # {}
  <2> DEFINE T == {N - Top(m, on) : m \in R}
  <2>1. PICK i \in T : \A j \in T : i <= j
    <3>1. T \subseteq Nat /\ T # {}
      BY <1>1, <1>3, LayersAre
    <3> HIDE DEF T
    <3> QED
      BY <3>1, Least
  <2>2. PICK m \in R : i = N - Top(m, on)
    BY <2>1
  <2>3. \A n \in R : N - Top(m, on) <= N - Top(n, on)
    BY <2>1, <2>2
  <2>4. \A n \in R : Top(n, on) <= Top(m, on)
    BY <1>1, <2>2, <2>3, LayersAre
  <2>5. (CHOOSE k \in R : \A n \in R : Top(n, on) <= Top(k, on)) \in R
    <3> HIDE DEF R
    <3> QED
      BY <2>2, <2>4
  <2> QED
    BY <1>3, <2>5, Zenon DEF LayerStartedMode
<1> QED
  BY <1>2, <1>3

LEMMA StartedSame ==
  ASSUME NEW on, NEW os, on \ {Pointer} = os \ {Pointer}
  PROVE  LayerStartedMode(on) = LayerStartedMode(os)
<1>1. ASSUME NEW m PROVE Top(m, on) = Top(m, os)
  <2>1. on \cap Linked(m) = os \cap Linked(m)
    BY DEF Linked
  <2> QED
    BY <2>1, Zenon DEF Top
<1>2. ASSUME NEW m PROVE Ended(m, on) <=> Ended(m, os)
  BY <1>1, Zenon DEF Ended
<1> DEFINE R == {m \in Modes : Top(m, on) > 0 /\ ~Ended(m, on)}
           Q == {m \in Modes : Top(m, os) > 0 /\ ~Ended(m, os)}
<1>3. R = Q
  <2>1. \A m : Top(m, on) = Top(m, os)
    BY <1>1
  <2>2. \A m : Ended(m, on) <=> Ended(m, os)
    BY <1>2
  <2> QED
    BY <2>1, <2>2
<1>6. /\ LayerStartedMode(on) =
          IF R = {} THEN None ELSE CHOOSE m \in R : \A n \in R : Top(n, on) <= Top(m, on)
      /\ LayerStartedMode(os) =
          IF Q = {} THEN None ELSE CHOOSE m \in Q : \A n \in Q : Top(n, os) <= Top(m, os)
  BY Zenon DEF LayerStartedMode
<1> HIDE DEF R, Q
<1>4. ASSUME NEW m
      PROVE (m \in R /\ \A n \in R : Top(n, on) <= Top(m, on))
            <=> (m \in Q /\ \A n \in Q : Top(n, os) <= Top(m, os))
  <2>1. Top(m, on) = Top(m, os) /\ \A n : Top(n, on) = Top(n, os)
    BY <1>1
  <2> QED
    BY <1>3, <2>1
<1>5. (CHOOSE m \in R : \A n \in R : Top(n, on) <= Top(m, on))
      = (CHOOSE m \in Q : \A n \in Q : Top(n, os) <= Top(m, os))
  BY <1>4, Zenon
<1>7. CASE R = {}
  <2>1. LayerStartedMode(on) = None
    BY <1>6, <1>7, Zenon
  <2>2. LayerStartedMode(os) = None
    BY <1>3, <1>6, <1>7, Zenon
  <2> QED
    BY <2>1, <2>2
<1>8. CASE R # {}
  <2>1. LayerStartedMode(on) = CHOOSE m \in R : \A n \in R : Top(n, on) <= Top(m, on)
    BY <1>6, <1>8, Zenon
  <2>2. LayerStartedMode(os) = CHOOSE m \in Q : \A n \in Q : Top(n, os) <= Top(m, os)
    BY <1>3, <1>6, <1>8, Zenon
  <2> QED
    BY <1>5, <2>1, <2>2, Zenon
<1> QED
  BY <1>7, <1>8

LEMMA StartedNext ==
  ASSUME UNCHANGED setup, NEW on
  PROVE  LayerStartedMode(on)' = LayerStartedMode(on)
<1>1. \A m : Top(m, on)' = Top(m, on)
  BY DEF Top, Linked
<1>2. \A m : Ended(m, on)' <=> Ended(m, on)
  BY <1>1 DEF Ended
<1> DEFINE R == {m \in Modes : Top(m, on) > 0 /\ ~Ended(m, on)}
           Q == {m \in Modes : Top(m, on)' > 0 /\ ~Ended(m, on)'}
<1>3. R = Q
  BY <1>1, <1>2
<1>6. /\ LayerStartedMode(on) =
          IF R = {} THEN None ELSE CHOOSE m \in R : \A n \in R : Top(n, on) <= Top(m, on)
      /\ LayerStartedMode(on)' =
          IF Q = {} THEN None ELSE CHOOSE m \in Q : \A n \in Q : Top(n, on)' <= Top(m, on)'
  BY Zenon DEF LayerStartedMode
<1> HIDE DEF R, Q
<1>4. ASSUME NEW m
      PROVE (m \in R /\ \A n \in R : Top(n, on) <= Top(m, on))
            <=> (m \in Q /\ \A n \in Q : Top(n, on)' <= Top(m, on)')
  BY <1>1, <1>3
<1>5. (CHOOSE m \in R : \A n \in R : Top(n, on) <= Top(m, on))
      = (CHOOSE m \in Q : \A n \in Q : Top(n, on)' <= Top(m, on)')
  BY <1>4, Zenon
<1> QED
  BY <1>3, <1>5, <1>6, Zenon

(* A board, and what one call may do to it.                                 *)
Boards ==
  [on : SUBSET Layers, count : [Layers -> Nat], bind : [LayerKeys -> {0} \cup Layers],
   shortcut : [ShortcutKeys -> [held : SUBSET Layers, momentary : SUBSET Layers]],
   locked : SUBSET Layers, oneshot : SUBSET Layers, modeLayers : SUBSET Layers,
   active : Modes \cup {None}, source : {"none", "key", "layer"}, lockedMode : Modes \cup {None},
   owners : SUBSET ModeKeys, lockAnchor : BOOLEAN, anchor : BOOLEAN, tracker : Nat, mouse : BOOLEAN,
   toggled : BOOLEAN, toggleOwned : BOOLEAN, steady : SUBSET Layers, entered : SUBSET Modes]

SameOwners(b, c) ==
  /\ c.count = b.count /\ c.locked = b.locked /\ c.oneshot = b.oneshot /\ c.modeLayers = b.modeLayers

SameKeys(b, c) == c.bind = b.bind /\ c.shortcut = b.shortcut
SameHolds(b, c) == c.owners = b.owners /\ c.lockedMode = b.lockedMode
SameMode(b, c) == c.active = b.active /\ c.source = b.source /\ c.entered = b.entered
SameView(b, c) == c.on = b.on /\ c.steady = b.steady

(* Only QMK's auto-mouse state changes.                                     *)
Mouses(b, c) ==
  /\ c \in Boards
  /\ SameOwners(b, c) /\ SameKeys(b, c) /\ SameHolds(b, c) /\ SameMode(b, c) /\ SameView(b, c)

LEMMA MouseCounts ==
  ASSUME NEW b \in Boards, NEW should \in BOOLEAN
  PROVE  Mouses(b, CountIf(b, should))
BY DEF CountIf, Keyevent, Mouses, SameOwners, SameKeys, SameHolds, SameMode, SameView, Boards

LEMMA MouseLockAnchor ==
  ASSUME NEW b \in Boards, NEW should \in BOOLEAN
  PROVE  Mouses(b, SyncLockAnchor(b, should))
<1> PICK c : c = CountIf(b, should)
  OBVIOUS
<1>1. Mouses(b, c)
  BY MouseCounts
<1>2. c \in Boards /\ Mouses(b, [c EXCEPT !.lockAnchor = should])
  BY <1>1 DEF Mouses, SameOwners, SameKeys, SameHolds, SameMode, SameView, Boards
<1>3. Mouses(b, b)
  BY DEF Mouses, SameOwners, SameKeys, SameHolds, SameMode, SameView
<1> QED
  BY <1>2, <1>3, Zenon DEF SyncLockAnchor

LEMMA MouseAnchor ==
  ASSUME NEW b \in Boards
  PROVE  Mouses(b, SyncAnchor(b))
<1> PICK o \in BOOLEAN : o = PointerOwned(b)
  BY DEF PointerOwned
<1> PICK c : c = CountIf(b, o)
  OBVIOUS
<1>1. Mouses(b, c)
  BY MouseCounts
<1>2. Mouses(b, [c EXCEPT !.anchor = o])
  BY <1>1 DEF Mouses, SameOwners, SameKeys, SameHolds, SameMode, SameView, Boards
<1>3. ASSUME NEW a \in BOOLEAN PROVE Mouses(b, [b EXCEPT !.anchor = a])
  BY DEF Mouses, SameOwners, SameKeys, SameHolds, SameMode, SameView, Boards
<1>4. PICK a \in BOOLEAN : a = (b.anchor /\ b.tracker > 0)
  OBVIOUS
<1>5. SyncAnchor(b) = IF a = o THEN [b EXCEPT !.anchor = a] ELSE [c EXCEPT !.anchor = o]
  BY <1>4, Zenon DEF SyncAnchor
<1> QED
  BY <1>2, <1>3, <1>5

LEMMA MouseToggles ==
  ASSUME NEW b \in Boards, NEW m
  PROVE  Mouses(b, AttachToggle(b, m)) /\ Mouses(b, DetachToggle(b, m))
<1>1. ASSUME NEW t \in BOOLEAN, NEW o \in BOOLEAN
      PROVE  Mouses(b, [b EXCEPT !.toggled = t, !.toggleOwned = o])
  BY DEF Mouses, SameOwners, SameKeys, SameHolds, SameMode, SameView, Boards
<1>2. b.toggled \in BOOLEAN /\ b.toggleOwned \in BOOLEAN
  BY DEF Boards
<1>3. Mouses(b, b)
  BY DEF Mouses, SameOwners, SameKeys, SameHolds, SameMode, SameView
<1> QED
  BY <1>1, <1>2, <1>3 DEF AttachToggle, DetachToggle

LEMMA MouseThrough ==
  ASSUME NEW b, NEW c, NEW d, Mouses(b, c), Mouses(c, d) PROVE Mouses(b, d)
BY DEF Mouses, SameOwners, SameKeys, SameHolds, SameMode, SameView

(* The pointer layer is on if it is owned; or it is taken away.  What keeps  *)
(* either true keeps the layer on for its owners.                            *)
Lit(b) == PointerOwned(b) => Pointer \in b.on
Dark(b) == PointerStripped(b, b.on)
Shows(b) == Lit(b) \/ Dark(b)
Keeps(b, c) == Shows(b) => Shows(c)

(* A board's pointer is as lit as another's with the same layers and owners. *)
LEMMA SameLit ==
  ASSUME NEW b, NEW c, c.on = b.on, PointerOwned(c) => PointerOwned(b)
  PROVE  /\ Lit(b) => Lit(c)
         /\ c.active = b.active /\ c.source = b.source => (Dark(c) <=> Dark(b)) /\ Keeps(b, c)
BY DEF Lit, Dark, Shows, Keeps, PointerStripped, KeyRuns

(* The count that stands for an owned pointer layer is there after a look.   *)
LEMMA AnchorCounts ==
  ASSUME NEW b \in Boards, PointerOwned(SyncAnchor(b))
  PROVE  SyncAnchor(b).tracker # 0
<1> PICK o \in BOOLEAN : o = PointerOwned(b)
  BY DEF PointerOwned
<1> PICK a \in BOOLEAN : a = (b.anchor /\ b.tracker > 0)
  OBVIOUS
<1> PICK c : c = CountIf(b, o)
  OBVIOUS
<1>1. SyncAnchor(b) = IF a = o THEN [b EXCEPT !.anchor = a] ELSE [c EXCEPT !.anchor = o]
  BY Zenon DEF SyncAnchor
<1> PICK e : e = SyncAnchor(b)
  OBVIOUS
<1>2. Mouses(b, e)
  BY MouseAnchor
<1>3. o
  BY <1>2 DEF Mouses, SameOwners, PointerOwned
<1>4. b.tracker \in Nat
  BY DEF Boards
<1>5. CASE a = o
  <2>1. e = [b EXCEPT !.anchor = a]
    BY <1>1, <1>5
  <2>2. e.tracker = b.tracker
    BY <2>1 DEF Boards
  <2>3. a
    BY <1>3, <1>5
  <2>4. b.tracker > 0
    BY <2>3, Zenon
  <2> QED
    BY <1>4, <2>2, <2>4
<1>6. CASE a # o
  <2>1. e = [c EXCEPT !.anchor = o]
    BY <1>1, <1>6
  <2>2. c = [b EXCEPT !.tracker = b.tracker + 1]
    BY <1>3, Zenon DEF CountIf, Keyevent
  <2>3. e.tracker = b.tracker + 1
    BY <2>1, <2>2 DEF Boards
  <2> QED
    BY <1>4, <2>3
<1> QED
  BY <1>5, <1>6

(* A mode that ends, and what the links start.                              *)
Ends(b, m, c) ==
  /\ c \in Boards
  /\ SameOwners(b, c) /\ SameKeys(b, c) /\ SameHolds(b, c) /\ SameView(b, c)
  /\ c.entered = b.entered
  /\ c.active = IF b.active = m THEN None ELSE b.active
  /\ c.source = IF c.active = None THEN "none" ELSE b.source

LEMMA ModeStops ==
  ASSUME NEW b \in Boards, NEW m, NEW w \in BOOLEAN
  PROVE  Ends(b, m, Deactivate(b, m, w))
<1> DEFINE c == [b EXCEPT !.active = IF b.active = m THEN None ELSE b.active]
           d == [c EXCEPT !.source = IF c.active = None THEN "none" ELSE c.source]
<1>1. c \in Boards /\ c.active = IF b.active = m THEN None ELSE b.active
  BY DEF Boards
<1>2. SameOwners(b, c) /\ SameKeys(b, c) /\ SameHolds(b, c) /\ SameView(b, c) /\ c.entered = b.entered /\ c.source = b.source
  BY DEF Boards, SameOwners, SameKeys, SameHolds, SameView
<1> HIDE DEF c
<1>3. Ends(b, m, d)
  <2>1. PICK s \in {"none", "key", "layer"} : s = IF c.active = None THEN "none" ELSE c.source
    BY <1>1 DEF Boards
  <2>2. d = [c EXCEPT !.source = s]
    BY <2>1
  <2> HIDE DEF d
  <2>3. d \in Boards /\ d.source = s /\ d.active = c.active /\ d.entered = c.entered
    BY <1>1, <2>2 DEF Boards
  <2>4. SameOwners(c, d) /\ SameKeys(c, d) /\ SameHolds(c, d) /\ SameView(c, d)
    BY <1>1, <2>2 DEF Boards, SameOwners, SameKeys, SameHolds, SameView
  <2> QED
    BY <1>1, <1>2, <2>1, <2>3, <2>4 DEF Ends, SameOwners, SameKeys, SameHolds, SameView
<1> HIDE DEF d
<1>4. Ends(b, m, SyncLockAnchor(d, FALSE))
  <2>1. Mouses(d, SyncLockAnchor(d, FALSE))
    BY <1>3, MouseLockAnchor DEF Ends
  <2> QED
    BY <1>3, <2>1 DEF Ends, Mouses, SameOwners, SameKeys, SameHolds, SameMode, SameView
<1>5. Deactivate(b, m, w) = d \/ Deactivate(b, m, w) = SyncLockAnchor(d, FALSE)
  BY Zenon DEF Deactivate, c, d
<1> QED
  BY <1>3, <1>4, <1>5

(* The links have decided for the layers `on`, or wait for a key's mode.     *)
LinksDone(b, on, c) ==
  /\ c \in Boards
  /\ SameOwners(b, c) /\ SameKeys(b, c) /\ SameHolds(b, c) /\ SameView(b, c)
  /\ KeyRuns(b) \/ b.active = LayerStartedMode(on) => SameMode(b, c)
  /\ ~KeyRuns(b) => ~KeyRuns(c) /\ c.active = LayerStartedMode(on)

LEMMA LinksApply ==
  ASSUME SetupOK, NEW b \in Boards, NEW on, on \subseteq Layers
  PROVE  LinksDone(b, on, ApplyLinks(b, on))
<1> PICK wanted \in Modes \cup {None} : wanted = LayerStartedMode(on)
  BY StartedType
<1> PICK e : e = IF b.active = None THEN b ELSE Deactivate(b, b.active, b.lockedMode = b.active)
  OBVIOUS
<1>1. b.active # None => Ends(b, b.active, e)
  <2>1. PICK w \in BOOLEAN : w = (b.lockedMode = b.active)
    OBVIOUS
  <2>2. Ends(b, b.active, Deactivate(b, b.active, w))
    BY ModeStops
  <2> QED
    BY <2>1, <2>2, Zenon
<1>2. CASE KeyRuns(b) \/ wanted = b.active
  <2>1. ApplyLinks(b, on) = b
    BY <1>2, Zenon DEF ApplyLinks
  <2> QED
    BY <1>2, <2>1 DEF LinksDone, SameOwners, SameKeys, SameHolds, SameView, SameMode
<1>3. CASE ~KeyRuns(b) /\ wanted # b.active /\ wanted = None
  <2>1. ApplyLinks(b, on) = e
    BY <1>3, Zenon DEF ApplyLinks
  <2> QED
    BY <1>1, <1>3, <2>1 DEF LinksDone, Ends, KeyRuns
<1>4. CASE ~KeyRuns(b) /\ wanted # b.active /\ wanted # None
  <2>1. ApplyLinks(b, on) = StartLayerMode(e, wanted)
    BY <1>4, Zenon DEF ApplyLinks
  <2>2. e \in Boards /\ SameOwners(b, e) /\ SameKeys(b, e) /\ SameHolds(b, e) /\ SameView(b, e)
    BY <1>1 DEF Ends, SameOwners, SameKeys, SameHolds, SameView
  <2> PICK f : f = Entered(e, wanted)
    OBVIOUS
  <2>3. /\ f \in Boards /\ SameOwners(e, f) /\ SameKeys(e, f) /\ SameHolds(e, f) /\ SameView(e, f)
        /\ f.active = wanted
    <3>1. CASE e.active = wanted
      BY <2>2, <3>1 DEF Entered, SameOwners, SameKeys, SameHolds, SameView
    <3>2. CASE e.active # wanted
      <4>1. PICK en \in SUBSET Modes : en = e.entered \cup {wanted}
        BY <1>4, <2>2 DEF Boards
      <4>2. f = [e EXCEPT !.active = wanted, !.entered = en]
        BY <3>2, <4>1 DEF Entered
      <4> QED
        BY <2>2, <4>2 DEF Boards, SameOwners, SameKeys, SameHolds, SameView
    <3> QED
      BY <3>1, <3>2
  <2> PICK g : g = [f EXCEPT !.source = "layer"]
    OBVIOUS
  <2>4. /\ g \in Boards /\ SameOwners(f, g) /\ SameKeys(f, g) /\ SameHolds(f, g) /\ SameView(f, g)
        /\ g.active = wanted /\ g.source = "layer"
    BY <2>3 DEF Boards, SameOwners, SameKeys, SameHolds, SameView
  <2>5. ApplyLinks(b, on) = g
    BY <2>1, Zenon DEF StartLayerMode
  <2>6. LinksDone(b, on, g)
    BY <1>4, <2>2, <2>3, <2>4 DEF LinksDone, SameOwners, SameKeys, SameHolds, SameView, KeyRuns
  <2> QED
    BY <2>5, <2>6
<1> QED
  BY <1>2, <1>3, <1>4

(* The layer-state hook.                                                    *)
Hooked(b, on, c) ==
  /\ c \in Boards
  /\ SameOwners(b, c) /\ SameKeys(b, c) /\ SameHolds(b, c)
  /\ KeyRuns(b) \/ b.active = LayerStartedMode(on) => SameMode(b, c)
  /\ ~KeyRuns(b) => ~KeyRuns(c) /\ c.active = LayerStartedMode(c.on)
  /\ c.on \ {Pointer} = on \ {Pointer}
  /\ c.steady = b.steady \cap c.on
  /\ Shows(c)

(* The hook has the last word on the pointer layer.                         *)
LEMMA HookShows ==
  ASSUME NEW e, NEW on, NEW f, PointerOwned(e) => e.tracker # 0,
         f.on = PolicyApply(e, on), SameOwners(e, f), SameMode(e, f)
  PROVE  Shows(f)
<1>1. PointerOwned(f) <=> PointerOwned(e)
  BY DEF SameOwners, PointerOwned
<1>2. CASE PointerStripped(e, on)
  <2>1. f.on = on \ {Pointer}
    BY <1>2, Zenon DEF PolicyApply
  <2>2. (f.on \cap setup.sniping) \ {Pointer} = (on \cap setup.sniping) \ {Pointer}
    BY <2>1
  <2>3. PointerStripped(f, f.on)
    BY <1>2, <2>2 DEF PointerStripped, SameMode, KeyRuns
  <2> QED
    BY <2>3 DEF Shows, Dark
<1>3. CASE ~PointerStripped(e, on) /\ PointerOwned(e)
  <2>1. PointerAnchored(e)
    BY <1>3 DEF PointerAnchored
  <2>2. f.on = on \cup {Pointer}
    BY <1>3, <2>1, Zenon DEF PolicyApply
  <2> QED
    BY <2>2 DEF Shows, Lit
<1>4. CASE ~PointerOwned(e)
  BY <1>1, <1>4 DEF Shows, Lit
<1> QED
  BY <1>2, <1>3, <1>4

(* Only the layers that are on change.                                      *)
Viewed(e, os, st, f) ==
  /\ f \in Boards /\ f.on = os /\ f.steady = st
  /\ SameOwners(e, f) /\ SameKeys(e, f) /\ SameHolds(e, f) /\ SameMode(e, f)

LEMMA ViewChanges ==
  ASSUME NEW e \in Boards, NEW os \in SUBSET Layers, NEW st \in SUBSET Layers
  PROVE  Viewed(e, os, st, [e EXCEPT !.on = os, !.steady = st])
<1> DEFINE f == [e EXCEPT !.on = os, !.steady = st]
<1>1. f \in Boards
  BY DEF Boards
<1>2. f.on = os /\ f.steady = st
  BY DEF Boards
<1>3. SameOwners(e, f) /\ SameKeys(e, f) /\ SameHolds(e, f) /\ SameMode(e, f)
  BY DEF Boards, SameOwners, SameKeys, SameHolds, SameMode
<1> HIDE DEF f
<1>4. Viewed(e, os, st, f)
  BY <1>1, <1>2, <1>3 DEF Viewed
<1> QED
  BY <1>4 DEF f

LEMMA HookRuns ==
  ASSUME SetupOK, NEW b \in Boards, NEW on, on \subseteq Layers
  PROVE  Hooked(b, on, LayerStateSet(b, on))
<1> PICK d : d = ApplyLinks(b, on)
  OBVIOUS
<1>1. LinksDone(b, on, d)
  BY LinksApply
<1> PICK e : e = SyncAnchor(d)
  OBVIOUS
<1>2. Mouses(d, e)
  BY <1>1, MouseAnchor DEF LinksDone
<1> PICK os : os = PolicyApply(e, on)
  OBVIOUS
<1>3. os = on \/ os = on \ {Pointer} \/ os = on \cup {Pointer}
  BY Zenon DEF PolicyApply
<1>4. os \subseteq Layers /\ os \ {Pointer} = on \ {Pointer}
  BY <1>3, LayersAssumption
<1> PICK st : st = e.steady \cap os
  OBVIOUS
<1> PICK f : f = [e EXCEPT !.on = os, !.steady = st]
  OBVIOUS
<1>5. /\ f \in Boards
      /\ f.on = os /\ f.steady = e.steady \cap os
      /\ SameOwners(e, f) /\ SameKeys(e, f) /\ SameHolds(e, f) /\ SameMode(e, f)
  <2>1. e \in Boards /\ os \in SUBSET Layers /\ st \in SUBSET Layers
    BY <1>2, <1>4 DEF Mouses, Boards
  <2> QED
    <3>1. Viewed(e, os, st, [e EXCEPT !.on = os, !.steady = st])
      BY <2>1, ViewChanges
    <3>2. Viewed(e, os, st, f)
      BY <3>1
    <3> QED
      BY <3>2 DEF Viewed
<1>6. LayerStateSet(b, on) = f
  BY Zenon DEF LayerStateSet, PolicyAfter, LayersBecome
<1>7. LayerStartedMode(os) = LayerStartedMode(on)
  BY <1>4, StartedSame
<1>9. Shows(f)
  <2>1. PointerOwned(e) => e.tracker # 0
    BY <1>1, AnchorCounts DEF LinksDone
  <2> QED
    BY <1>5, <2>1, HookShows
<1>8. Hooked(b, on, f)
  BY <1>1, <1>2, <1>4, <1>5, <1>7, <1>9
  DEF LinksDone, Mouses, Hooked, SameOwners, SameKeys, SameHolds, SameMode, SameView, KeyRuns
<1> QED
  BY <1>6, <1>8

(* What a call does to the layers and to the mode the layers start.         *)
LayersOK(b) == \A l \in Layers \ {Pointer} : l \in b.on <=> OwnedBy(b, l)

Follows(b) == b.active = LayerStartedMode(b.on)

(* A layer that goes off is not owned at one end.                           *)
Loss(b, c) ==
  b.steady \subseteq b.on =>
    /\ c.steady \subseteq c.on
    /\ \A l \in Layers \ {Pointer} :
         l \in b.steady /\ l \notin c.steady => ~OwnedBy(b, l) \/ ~OwnedBy(c, l)

(* A mode its key runs stays; otherwise a mode the layers started follows    *)
(* them still.                                                               *)
ModeKept(b, c) ==
  /\ KeyRuns(b) => SameMode(b, c)
  /\ ~KeyRuns(b) => ~KeyRuns(c) /\ (Follows(b) => Follows(c))

(* What a call that commands no mode does: no mode key's hold changes.       *)
Shift(b, c) ==
  /\ c \in Boards /\ SameHolds(b, c) /\ ModeKept(b, c) /\ Keeps(b, c)
  /\ LayersOK(b) => LayersOK(c)
  /\ Loss(b, c)

(* An owner at both ends is one in the middle.                               *)
Between(b, c, d) == \A l \in Layers : OwnedBy(b, l) /\ OwnedBy(d, l) => OwnedBy(c, l)

LEMMA ModeThrough ==
  ASSUME NEW b, NEW c, NEW d, ModeKept(b, c), ModeKept(c, d) PROVE ModeKept(b, d)
BY DEF ModeKept, SameMode, KeyRuns

LEMMA ShiftThrough ==
  ASSUME NEW b, NEW c, NEW d, Shift(b, c), Shift(c, d), Between(b, c, d) PROVE Shift(b, d)
<1>1. ModeKept(b, d)
  BY ModeThrough DEF Shift
<1>2. Loss(b, d)
  BY DEF Shift, Loss, Between
<1> QED
  BY <1>1, <1>2 DEF Shift, SameHolds, Keeps

LEMMA SameOwned ==
  ASSUME NEW b, NEW c, SameOwners(b, c) PROVE \A l : OwnedBy(b, l) <=> OwnedBy(c, l)
BY DEF SameOwners, OwnedBy

(* The layers of `ls` come to what owns them; no other layer moves away.    *)
Applied(b, ls, c) ==
  /\ c \in Boards
  /\ SameOwners(b, c) /\ SameKeys(b, c) /\ SameHolds(b, c) /\ ModeKept(b, c)
  /\ Pointer \in ls \/ Shows(b) => Shows(c)
  /\ \A l \in Layers \ {Pointer} : (l \in c.on <=> l \in b.on) \/ (l \in c.on <=> OwnedBy(b, l))
  /\ \A l \in ls \ {Pointer} : l \in c.on <=> OwnedBy(b, l)
  /\ b.steady \subseteq b.on =>
       /\ c.steady \subseteq c.on
       /\ \A l \in Layers \ {Pointer} : l \in b.steady /\ l \notin c.steady => ~OwnedBy(b, l)

LEMMA HookKeepsMode ==
  ASSUME NEW b, NEW on, NEW c, Hooked(b, on, c) PROVE ModeKept(b, c)
BY DEF Hooked, ModeKept, Follows

LEMMA AppliedNothing ==
  ASSUME NEW b \in Boards PROVE Applied(b, {}, b)
BY DEF Applied, SameOwners, SameKeys, SameHolds, ModeKept, SameMode

LEMMA OneApplied ==
  ASSUME SetupOK, NEW b \in Boards, NEW l \in Layers
  PROVE  Applied(b, {l}, ApplyLayer(b, l))
<1> PICK o \in BOOLEAN : o = OwnedBy(b, l)
  BY DEF OwnedBy
<1>1. b.on \subseteq Layers
  BY DEF Boards
<1>2. CASE o = (l \in b.on)
  <2>1. ApplyLayer(b, l) = b
    BY <1>2, Zenon DEF ApplyLayer
  <2>2. Applied(b, {l}, b)
    <3>1. l = Pointer => Shows(b)
      BY <1>2 DEF Shows, Lit, PointerOwned, OwnedBy
    <3> QED
      BY <1>2, <3>1, AppliedNothing DEF Applied
  <2> QED
    BY <2>1, <2>2
<1>3. CASE ~(o = (l \in b.on))
  <2> PICK on : on = IF o THEN b.on \cup {l} ELSE b.on \ {l}
    OBVIOUS
  <2>1. on \subseteq Layers
    BY <1>1
  <2> PICK c : c = LayerStateSet(b, on)
    OBVIOUS
  <2>2. Hooked(b, on, c)
    BY <2>1, HookRuns
  <2>3. ApplyLayer(b, l) = c
    BY <1>3, Zenon DEF ApplyLayer
  <2>4. ModeKept(b, c)
    BY <2>2, HookKeepsMode
  <2>5. ASSUME NEW k \in Layers \ {Pointer}
        PROVE  /\ k # l => (k \in c.on <=> k \in b.on)
               /\ k = l => (k \in c.on <=> o)
    BY <2>2 DEF Hooked
  <2>6. ASSUME NEW k \in Layers \ {Pointer}, b.steady \subseteq b.on, k \in b.steady, k \notin c.steady
        PROVE  ~OwnedBy(b, k)
    <3>1. k \notin c.on /\ k \in b.on
      BY <2>2, <2>6 DEF Hooked
    <3>2. k = l /\ ~o
      BY <2>5, <3>1
    <3> QED
      BY <3>2, Zenon
  <2>7. ASSUME NEW k \in Layers \ {Pointer}
        PROVE  /\ (k \in c.on <=> k \in b.on) \/ (k \in c.on <=> OwnedBy(b, k))
               /\ k = l => (k \in c.on <=> OwnedBy(b, k))
    <3>1. CASE k # l
      BY <2>5, <3>1
    <3>2. CASE k = l
      <4>1. k \in c.on <=> o
        BY <2>5, <3>2
      <4> QED
        BY <4>1, <3>2, Zenon
    <3> QED
      BY <3>1, <3>2
  <2>8. c.steady \subseteq c.on
    BY <2>2 DEF Hooked
  <2>9. Applied(b, {l}, c)
    <3>1. /\ c \in Boards /\ Shows(c)
          /\ SameOwners(b, c) /\ SameKeys(b, c) /\ SameHolds(b, c)
      BY <2>2 DEF Hooked
    <3> QED
      BY <2>4, <2>6, <2>7, <2>8, <3>1 DEF Applied
  <2> QED
    BY <2>3, <2>9
<1> QED
  BY <1>2, <1>3

LEMMA AppliedThrough ==
  ASSUME NEW b, NEW A, NEW c, NEW B, NEW d, A \subseteq Layers, B \subseteq Layers,
         Applied(b, A, c), Applied(c, B, d)
  PROVE  Applied(b, A \cup B, d)
<1>1. \A l : OwnedBy(b, l) <=> OwnedBy(c, l)
  BY SameOwned DEF Applied
<1>2. ModeKept(b, d)
  BY ModeThrough DEF Applied
<1>3. SameOwners(b, d) /\ SameKeys(b, d) /\ SameHolds(b, d)
  BY DEF Applied, SameOwners, SameKeys, SameHolds
<1>4. ASSUME NEW l \in Layers \ {Pointer}
      PROVE  /\ (l \in d.on <=> l \in b.on) \/ (l \in d.on <=> OwnedBy(b, l))
             /\ l \in A \cup B => (l \in d.on <=> OwnedBy(b, l))
  BY <1>1 DEF Applied
<1>5. ASSUME b.steady \subseteq b.on
      PROVE  /\ d.steady \subseteq d.on
             /\ \A l \in Layers \ {Pointer} : l \in b.steady /\ l \notin d.steady => ~OwnedBy(b, l)
  BY <1>1, <1>5 DEF Applied
<1> QED
  BY <1>2, <1>3, <1>4, <1>5 DEF Applied

LEMMA EachApplied ==
  ASSUME SetupOK, NEW b \in Boards, NEW ls, ls \subseteq Layers
  PROVE  Applied(b, ls, ApplyLayers(b, ls))
<1> PICK c : c = ApplyLayers(b, ls)
  OBVIOUS
<1>1. Ran("apply", b, ls, c)
  BY EachApply
<1>2. PICK g : /\ g[0] = b /\ g[N] = c
               /\ \A i \in 1 .. N : g[i] = IF i \in ls THEN Does("apply", g[i - 1], i) ELSE g[i - 1]
  BY <1>1 DEF Ran
<1> DEFINE T == {i \in 0 .. N : Applied(b, ls \cap (1 .. i), g[i])}
<1>3. 0 \in T
  <2>1. Applied(b, {}, g[0])
    BY <1>2, AppliedNothing
  <2>2. ls \cap (1 .. 0) = {}
    OBVIOUS
  <2> QED
    BY <2>1, <2>2, LayersAre
<1>4. ASSUME NEW i \in 1 .. N, i - 1 \in T PROVE i \in T
  <2>1. i \in Layers /\ i \in 0 .. N /\ i - 1 \in 0 .. N
    BY LayersAre
  <2>2. Applied(b, ls \cap (1 .. i - 1), g[i - 1])
    BY <1>4
  <2>3. CASE i \notin ls
    <3>1. ls \cap (1 .. i) = ls \cap (1 .. i - 1)
      BY <2>3, LayersAre
    <3>2. g[i] = g[i - 1]
      BY <1>2, <2>3
    <3> QED
      BY <2>1, <2>2, <3>1, <3>2
  <2>4. CASE i \in ls
    <3>1. ls \cap (1 .. i) = (ls \cap (1 .. i - 1)) \cup {i}
      BY <2>4, LayersAre
    <3>2. g[i] = ApplyLayer(g[i - 1], i)
      BY <1>2, <2>4 DEF Does
    <3>3. Applied(g[i - 1], {i}, g[i])
      BY <2>1, <2>2, <3>2, OneApplied DEF Applied
    <3>4. Applied(b, (ls \cap (1 .. i - 1)) \cup {i}, g[i])
      BY <2>1, <2>2, <3>3, AppliedThrough
    <3> QED
      BY <2>1, <3>1, <3>4
  <2> QED
    BY <2>3, <2>4
<1> HIDE DEF T
<1>5. N \in T
  BY <1>3, <1>4, LayersAre, Upto
<1>6. Applied(b, ls \cap (1 .. N), g[N])
  BY <1>5 DEF T
<1>7. ls \cap (1 .. N) = ls
  BY LayersAre
<1> QED
  BY <1>2, <1>6, <1>7

(* Owners change, then the layers they changed follow.                      *)
Reowned(b, c) ==
  /\ c \in Boards /\ SameHolds(b, c) /\ SameMode(b, c) /\ SameView(b, c)

LEMMA AppliedShift ==
  ASSUME NEW b \in Boards, NEW c, NEW ls, NEW d, ls \subseteq Layers, Reowned(b, c), Applied(c, ls, d),
         \A l \in Layers \ ls : OwnedBy(b, l) <=> OwnedBy(c, l),
         Pointer \in ls \/ Keeps(b, c)
  PROVE  Shift(b, d)
<1>1. \A l : OwnedBy(c, l) <=> OwnedBy(d, l)
  BY SameOwned DEF Applied
<1>2. ModeKept(b, c)
  BY DEF Reowned, ModeKept, SameMode, SameView, KeyRuns, Follows
<1>3. ModeKept(b, d)
  BY <1>2, ModeThrough DEF Applied
<1>4. ASSUME LayersOK(b), NEW l \in Layers \ {Pointer} PROVE l \in d.on <=> OwnedBy(d, l)
  <2>1. CASE l \in ls
    BY <1>1, <2>1 DEF Applied
  <2>2. CASE l \notin ls
    <3>1. l \in c.on <=> OwnedBy(c, l)
      BY <1>4, <2>2 DEF LayersOK, Reowned, SameView
    <3> QED
      BY <1>1, <3>1 DEF Applied
  <2> QED
    BY <2>1, <2>2
<1>5. Loss(b, d)
  BY <1>1 DEF Loss, Applied, Reowned, SameView
<1>6. SameHolds(b, d) /\ d \in Boards
  BY DEF Reowned, Applied, SameHolds
<1>7. Keeps(b, d)
  BY DEF Keeps, Applied
<1> QED
  BY <1>3, <1>4, <1>5, <1>6, <1>7 DEF Shift, LayersOK

(* Other ledgers than its count and its lock leave the pointer layer alone. *)
LEMMA SameKeeps ==
  ASSUME NEW b, NEW c, Reowned(b, c), c.locked = b.locked, c.count = b.count
  PROVE  Keeps(b, c)
<1>1. PointerOwned(c) => PointerOwned(b)
  BY DEF PointerOwned
<1> QED
  BY <1>1, SameLit DEF Reowned, SameView, SameMode

LEMMA ChangeShifts ==
  ASSUME SetupOK, NEW b \in Boards, NEW c, Reowned(b, c),
         NEW before, NEW after, before \subseteq Layers, after \subseteq Layers, Keeps(b, c),
         \A l \in Layers : (l \in before <=> l \in after) => (OwnedBy(b, l) <=> OwnedBy(c, l))
  PROVE  /\ Shift(b, ApplyChange(c, before, after))
         /\ SameOwners(c, ApplyChange(c, before, after)) /\ SameKeys(c, ApplyChange(c, before, after))
<1> PICK on : on = after \ before
  OBVIOUS
<1> PICK off : off = before \ after
  OBVIOUS
<1>1. on \subseteq Layers /\ off \subseteq Layers
  OBVIOUS
<1> PICK d : d = ApplyLayers(c, on)
  OBVIOUS
<1>2. Applied(c, on, d)
  BY <1>1, EachApplied DEF Reowned
<1> PICK e : e = ApplyLayers(d, off)
  OBVIOUS
<1>3. Applied(d, off, e)
  BY <1>1, <1>2, EachApplied DEF Applied
<1>4. Applied(c, on \cup off, e)
  BY <1>1, <1>2, <1>3, AppliedThrough
<1>5. ApplyChange(c, before, after) = e
  BY Zenon DEF ApplyChange
<1>6. \A l \in Layers \ (on \cup off) : OwnedBy(b, l) <=> OwnedBy(c, l)
  OBVIOUS
<1>7. Shift(b, e)
  BY <1>1, <1>4, <1>6, AppliedShift
<1> QED
  BY <1>4, <1>5, <1>7 DEF Applied

(* One-shots and the running mode's own layers.                             *)
SetMoves(b, c) == Shift(b, c) /\ SameKeys(b, c) /\ c.count = b.count /\ c.locked = b.locked

LEMMA OneshotShifts ==
  ASSUME SetupOK, NEW b \in Boards, NEW armed, armed \subseteq Layers
  PROVE  /\ SetMoves(b, OneshotArm(b, armed))
         /\ OneshotArm(b, armed).oneshot = armed /\ OneshotArm(b, armed).modeLayers = b.modeLayers
<1> PICK old : old = b.oneshot
  OBVIOUS
<1> PICK c : c = [b EXCEPT !.oneshot = armed]
  OBVIOUS
<1>1. /\ c \in Boards /\ old \subseteq Layers
      /\ c.oneshot = armed /\ c.count = b.count /\ c.locked = b.locked /\ c.modeLayers = b.modeLayers
  BY DEF Boards
<1>2. SameHolds(b, c) /\ SameMode(b, c) /\ SameView(b, c) /\ SameKeys(b, c)
  BY DEF Boards, SameHolds, SameMode, SameView, SameKeys
<1>3. \A l \in Layers : (l \in old <=> l \in armed) => (OwnedBy(b, l) <=> OwnedBy(c, l))
  BY <1>1 DEF OwnedBy
<1> PICK d : d = ApplyChange(c, old, armed)
  OBVIOUS
<1>4. Shift(b, d) /\ SameOwners(c, d) /\ SameKeys(c, d)
  <2>1. Reowned(b, c)
    BY <1>1, <1>2 DEF Reowned
  <2> QED
    BY <1>1, <1>3, <2>1, SameKeeps, ChangeShifts
<1>5. OneshotArm(b, armed) = d
  BY Zenon DEF OneshotArm
<1>6. SetMoves(b, d) /\ d.oneshot = armed /\ d.modeLayers = b.modeLayers
  BY <1>1, <1>2, <1>4 DEF SetMoves, SameOwners, SameKeys
<1> QED
  BY <1>5, <1>6

LEMMA ModeLayersShift ==
  ASSUME SetupOK, NEW b \in Boards, NEW ls, ls \subseteq Layers
  PROVE  /\ SetMoves(b, SetModeLayers(b, ls))
         /\ SetModeLayers(b, ls).modeLayers = ls /\ SetModeLayers(b, ls).oneshot = b.oneshot
<1> PICK old : old = b.modeLayers
  OBVIOUS
<1> PICK c : c = [b EXCEPT !.modeLayers = ls]
  OBVIOUS
<1>1. /\ c \in Boards /\ old \subseteq Layers
      /\ c.modeLayers = ls /\ c.count = b.count /\ c.locked = b.locked /\ c.oneshot = b.oneshot
  BY DEF Boards
<1>2. SameHolds(b, c) /\ SameMode(b, c) /\ SameView(b, c) /\ SameKeys(b, c)
  BY DEF Boards, SameHolds, SameMode, SameView, SameKeys
<1>3. \A l \in Layers : (l \in old <=> l \in ls) => (OwnedBy(b, l) <=> OwnedBy(c, l))
  BY <1>1 DEF OwnedBy
<1> PICK d : d = ApplyChange(c, old, ls)
  OBVIOUS
<1>4. Shift(b, d) /\ SameOwners(c, d) /\ SameKeys(c, d)
  <2>1. Reowned(b, c)
    BY <1>1, <1>2 DEF Reowned
  <2> QED
    BY <1>1, <1>3, <2>1, SameKeeps, ChangeShifts
<1>5. SetModeLayers(b, ls) = d
  BY Zenon DEF SetModeLayers
<1>6. SetMoves(b, d) /\ d.modeLayers = ls /\ d.oneshot = b.oneshot
  BY <1>1, <1>2, <1>4 DEF SetMoves, SameOwners, SameKeys
<1> QED
  BY <1>5, <1>6

(* Locks.                                                                   *)
Locks(b, locked, c) ==
  /\ Shift(b, c) /\ SameKeys(b, c)
  /\ c.count = b.count /\ c.oneshot = b.oneshot /\ c.modeLayers = b.modeLayers
  /\ c.locked = locked

LEMMA NoShift ==
  ASSUME NEW b \in Boards PROVE Shift(b, b) /\ SameKeys(b, b) /\ Locks(b, b.locked, b)
BY DEF Shift, SameHolds, ModeKept, SameMode, Loss, SameKeys, Locks, Keeps

LEMMA LockChanges ==
  ASSUME SetupOK, NEW b \in Boards, NEW l \in Layers, NEW locked \in SUBSET Layers,
         \A k \in Layers : k # l => (k \in locked <=> k \in b.locked)
  PROVE  Locks(b, locked, ApplyLayer([b EXCEPT !.locked = locked], l))
<1> PICK c : c = [b EXCEPT !.locked = locked]
  OBVIOUS
<1>1. /\ c \in Boards
      /\ c.locked = locked /\ c.count = b.count /\ c.oneshot = b.oneshot /\ c.modeLayers = b.modeLayers
  BY DEF Boards
<1>2. SameHolds(b, c) /\ SameMode(b, c) /\ SameView(b, c) /\ SameKeys(b, c)
  BY DEF Boards, SameHolds, SameMode, SameView, SameKeys
<1>3. \A k \in Layers \ {l} : OwnedBy(b, k) <=> OwnedBy(c, k)
  BY <1>1 DEF OwnedBy
<1> PICK d : d = ApplyLayer(c, l)
  OBVIOUS
<1>4. Applied(c, {l}, d)
  BY <1>1, OneApplied
<1>5. Shift(b, d)
  <2>1. Reowned(b, c)
    BY <1>1, <1>2 DEF Reowned
  <2>2. Pointer # l => Keeps(b, c)
    <3>1. ASSUME Pointer # l PROVE PointerOwned(c) => PointerOwned(b)
      BY <1>1, <3>1, LayersAssumption DEF PointerOwned
    <3> QED
      BY <1>2, <3>1, SameLit DEF SameView, SameMode
  <2> QED
    BY <1>3, <1>4, <2>1, <2>2, AppliedShift
<1>6. Locks(b, locked, d)
  BY <1>1, <1>2, <1>4, <1>5 DEF Locks, Applied, SameOwners, SameKeys
<1> QED
  BY <1>6

LEMMA OneLocked ==
  ASSUME SetupOK, NEW b \in Boards, NEW l \in Layers
  PROVE  /\ Locks(b, b.locked \cup {l}, SetLock(TRUE, b, l))
         /\ Locks(b, b.locked \ {l}, SetLock(FALSE, b, l))
<1>1. b.locked \subseteq Layers
  BY DEF Boards
<1>2. Locks(b, b.locked \cup {l}, SetLock(TRUE, b, l))
  <2>1. CASE l \in b.locked
    <3>1. SetLock(TRUE, b, l) = b
      BY <2>1, Zenon DEF SetLock
    <3>2. b.locked \cup {l} = b.locked
      BY <2>1
    <3> QED
      BY <3>1, <3>2, NoShift
  <2>2. CASE l \notin b.locked
    <3> PICK locked : locked = b.locked \cup {l}
      OBVIOUS
    <3>1. SetLock(TRUE, b, l) = ApplyLayer([b EXCEPT !.locked = locked], l)
      BY <2>2, Zenon DEF SetLock
    <3>2. locked \in SUBSET Layers /\ \A k \in Layers : k # l => (k \in locked <=> k \in b.locked)
      BY <1>1
    <3>3. Locks(b, locked, ApplyLayer([b EXCEPT !.locked = locked], l))
      BY <3>2, LockChanges
    <3> QED
      BY <3>1, <3>3
  <2> QED
    BY <2>1, <2>2
<1>3. Locks(b, b.locked \ {l}, SetLock(FALSE, b, l))
  <2>1. CASE l \notin b.locked
    <3>1. SetLock(FALSE, b, l) = b
      <4>1. FALSE = (l \in b.locked)
        BY <2>1
      <4> QED
        BY <4>1, Zenon DEF SetLock
    <3>2. b.locked \ {l} = b.locked
      BY <2>1
    <3> QED
      BY <3>1, <3>2, NoShift
  <2>2. CASE l \in b.locked
    <3> PICK locked : locked = b.locked \ {l}
      OBVIOUS
    <3>1. SetLock(FALSE, b, l) = ApplyLayer([b EXCEPT !.locked = locked], l)
      BY <2>2, Zenon DEF SetLock
    <3>2. locked \in SUBSET Layers /\ \A k \in Layers : k # l => (k \in locked <=> k \in b.locked)
      BY <1>1
    <3>3. Locks(b, locked, ApplyLayer([b EXCEPT !.locked = locked], l))
      BY <3>2, LockChanges
    <3> QED
      BY <3>1, <3>3
  <2> QED
    BY <2>1, <2>2
<1> QED
  BY <1>2, <1>3

(* Locks come, or locks go.                                                  *)
OneWay(A, B, C) == (A \subseteq B /\ B \subseteq C) \/ (C \subseteq B /\ B \subseteq A)

LEMMA LocksThrough ==
  ASSUME NEW b, NEW A, NEW c, NEW B, NEW d, Locks(b, A, c), Locks(c, B, d),
         OneWay(b.locked, A, B)
  PROVE  Locks(b, B, d)
<1>1. Between(b, c, d)
  BY DEF Between, Locks, OwnedBy, OneWay
<1>2. Shift(b, d)
  BY <1>1, ShiftThrough DEF Locks
<1> QED
  BY <1>2 DEF Locks, SameKeys

LEMMA EachLocked ==
  ASSUME SetupOK, NEW b \in Boards, NEW ls, ls \subseteq Layers
  PROVE  Locks(b, b.locked \cup ls, LockEach(b, ls, TRUE))
<1> PICK c : c = LockEach(b, ls, TRUE)
  OBVIOUS
<1>1. Ran("lock", b, ls, c)
  BY EachLock
<1>2. PICK g : /\ g[0] = b /\ g[N] = c
               /\ \A i \in 1 .. N : g[i] = IF i \in ls THEN Does("lock", g[i - 1], i) ELSE g[i - 1]
  BY <1>1 DEF Ran
<1> DEFINE L(i) == b.locked \cup (ls \cap (1 .. i))
           T == {i \in 0 .. N : Locks(b, L(i), g[i])}
<1>3. 0 \in T
  <2>1. L(0) = b.locked
    OBVIOUS
  <2>2. Locks(b, L(0), g[0])
    BY <1>2, <2>1, NoShift
  <2> QED
    BY <2>2, LayersAre
<1>4. ASSUME NEW i \in 1 .. N, i - 1 \in T PROVE i \in T
  <2>1. i \in Layers /\ i \in 0 .. N /\ i - 1 \in 0 .. N
    BY LayersAre
  <2>2. Locks(b, L(i - 1), g[i - 1])
    BY <1>4
  <2>3. CASE i \notin ls
    <3>1. L(i) = L(i - 1)
      BY <2>3, LayersAre
    <3>2. g[i] = g[i - 1]
      BY <1>2, <2>3
    <3> QED
      BY <2>1, <2>2, <3>1, <3>2
  <2>4. CASE i \in ls
    <3>1. L(i) = L(i - 1) \cup {i}
      BY <2>4, LayersAre
    <3>2. g[i] = SetLock(TRUE, g[i - 1], i)
      BY <1>2, <2>4 DEF Does
    <3>3. g[i - 1] \in Boards /\ g[i - 1].locked = L(i - 1)
      BY <2>2 DEF Locks, Shift
    <3>4. Locks(g[i - 1], L(i), g[i])
      BY <2>1, <3>1, <3>2, <3>3, OneLocked
    <3> PICK A : A = L(i - 1)
      OBVIOUS
    <3> PICK B : B = L(i)
      OBVIOUS
    <3>5. OneWay(b.locked, A, B)
      BY <3>1 DEF OneWay
    <3>6. Locks(b, A, g[i - 1]) /\ Locks(g[i - 1], B, g[i])
      BY <2>2, <3>4
    <3> HIDE DEF L
    <3>7. Locks(b, B, g[i])
      BY <3>5, <3>6, LocksThrough
    <3> QED
      BY <2>1, <3>7
  <2> QED
    BY <2>3, <2>4
<1> HIDE DEF T
<1>5. N \in T
  BY <1>3, <1>4, LayersAre, Upto
<1>6. Locks(b, L(N), g[N])
  BY <1>5 DEF T
<1>7. L(N) = b.locked \cup ls
  BY LayersAre
<1> QED
  BY <1>2, <1>6, <1>7

LEMMA EachUnlocked ==
  ASSUME SetupOK, NEW b \in Boards, NEW ls, ls \subseteq Layers
  PROVE  Locks(b, b.locked \ ls, LockEach(b, ls, FALSE))
<1> PICK c : c = LockEach(b, ls, FALSE)
  OBVIOUS
<1>1. Ran("unlock", b, ls, c)
  BY EachUnlock
<1>2. PICK g : /\ g[0] = b /\ g[N] = c
               /\ \A i \in 1 .. N : g[i] = IF i \in ls THEN Does("unlock", g[i - 1], i) ELSE g[i - 1]
  BY <1>1 DEF Ran
<1> DEFINE L(i) == b.locked \ (ls \cap (1 .. i))
           T == {i \in 0 .. N : Locks(b, L(i), g[i])}
<1>3. 0 \in T
  <2>1. L(0) = b.locked
    OBVIOUS
  <2>2. Locks(b, L(0), g[0])
    BY <1>2, <2>1, NoShift
  <2> QED
    BY <2>2, LayersAre
<1>4. ASSUME NEW i \in 1 .. N, i - 1 \in T PROVE i \in T
  <2>1. i \in Layers /\ i \in 0 .. N /\ i - 1 \in 0 .. N
    BY LayersAre
  <2>2. Locks(b, L(i - 1), g[i - 1])
    BY <1>4
  <2>3. CASE i \notin ls
    <3>1. L(i) = L(i - 1)
      BY <2>3, LayersAre
    <3>2. g[i] = g[i - 1]
      BY <1>2, <2>3
    <3> QED
      BY <2>1, <2>2, <3>1, <3>2
  <2>4. CASE i \in ls
    <3>1. L(i) = L(i - 1) \ {i}
      BY <2>4, LayersAre
    <3>2. g[i] = SetLock(FALSE, g[i - 1], i)
      BY <1>2, <2>4 DEF Does
    <3>3. g[i - 1] \in Boards /\ g[i - 1].locked = L(i - 1)
      BY <2>2 DEF Locks, Shift
    <3>4. Locks(g[i - 1], L(i), g[i])
      BY <2>1, <3>1, <3>2, <3>3, OneLocked
    <3> PICK A : A = L(i - 1)
      OBVIOUS
    <3> PICK B : B = L(i)
      OBVIOUS
    <3>5. OneWay(b.locked, A, B)
      BY <3>1 DEF OneWay
    <3>6. Locks(b, A, g[i - 1]) /\ Locks(g[i - 1], B, g[i])
      BY <2>2, <3>4
    <3> HIDE DEF L
    <3>7. Locks(b, B, g[i])
      BY <3>5, <3>6, LocksThrough
    <3> QED
      BY <2>1, <3>7
  <2> QED
    BY <2>3, <2>4
<1> HIDE DEF T
<1>5. N \in T
  BY <1>3, <1>4, LayersAre, Upto
<1>6. Locks(b, L(N), g[N])
  BY <1>5 DEF T
<1>7. L(N) = b.locked \ ls
  BY LayersAre
<1> QED
  BY <1>2, <1>6, <1>7

(* What a step does that touches no key's hold and no mode.                 *)
Calm(b, c) == Shift(b, c) /\ SameKeys(b, c) /\ c.count = b.count /\ c.modeLayers = b.modeLayers

LEMMA ToggleCalm ==
  ASSUME SetupOK, NEW b \in Boards, NEW ls, ls \subseteq Layers
  PROVE  Calm(b, ToggleLockSet(b, ls))
<1>1. CASE ls \subseteq b.locked
  <2>1. FALSE = ~(ls \subseteq b.locked)
    BY <1>1
  <2>2. ToggleLockSet(b, ls) = LockEach(b, ls, FALSE)
    BY <2>1, Zenon DEF ToggleLockSet
  <2> PICK c : c = LockEach(b, ls, FALSE)
    OBVIOUS
  <2>3. PICK locked : Locks(b, locked, c)
    BY EachUnlocked
  <2> QED
    BY <2>2, <2>3 DEF Calm, Locks
<1>2. CASE ~(ls \subseteq b.locked)
  <2>1. TRUE = ~(ls \subseteq b.locked)
    BY <1>2
  <2>2. ToggleLockSet(b, ls) = LockEach(b, ls, TRUE)
    BY <2>1, Zenon DEF ToggleLockSet
  <2> PICK c : c = LockEach(b, ls, TRUE)
    OBVIOUS
  <2>3. PICK locked : Locks(b, locked, c)
    BY EachLocked
  <2> QED
    BY <2>2, <2>3 DEF Calm, Locks
<1> QED
  BY <1>1, <1>2

LEMMA OneshotCalm ==
  ASSUME SetupOK, NEW b \in Boards, NEW ls, ls \subseteq Layers, NEW again \in BOOLEAN
  PROVE  Calm(b, OneshotTap(b, ls, again)) /\ Calm(b, OneshotArm(b, {}))
<1>1. Calm(b, b)
  BY NoShift DEF Calm
<1>2. Calm(b, OneshotArm(b, ls)) /\ Calm(b, OneshotArm(b, {}))
  BY OneshotShifts DEF Calm, SetMoves
<1> QED
  BY <1>1, <1>2 DEF OneshotTap

LEMMA GotoCalm ==
  ASSUME SetupOK, NEW b \in Boards, NEW ls, ls \subseteq Layers
  PROVE  Calm(b, GotoSet(b, ls))
<1> PICK A : A = b.locked \cup ls
  OBVIOUS
<1> PICK c : c = LockEach(b, ls, TRUE)
  OBVIOUS
<1>1. Locks(b, A, c)
  BY EachLocked
<1> PICK B : B = A \ (Layers \ ls)
  OBVIOUS
<1> PICK d : d = LockEach(c, Layers \ ls, FALSE)
  OBVIOUS
<1>2. Locks(c, B, d)
  <2>1. c \in Boards /\ c.locked = A /\ Layers \ ls \subseteq Layers
    BY <1>1 DEF Locks, Shift
  <2> QED
    BY <2>1, EachUnlocked
<1> PICK e : e = OneshotArm(d, {})
  OBVIOUS
<1>3. SetMoves(d, e) /\ e.oneshot = {} /\ e.modeLayers = d.modeLayers
  <2>1. d \in Boards
    BY <1>2 DEF Locks, Shift
  <2> QED
    BY <2>1, OneshotShifts
<1>4. GotoSet(b, ls) = e
  BY Zenon DEF GotoSet
<1>5. b.locked \subseteq A /\ ls \subseteq A /\ B = ls
  <2>1. b.locked \subseteq Layers
    BY DEF Boards
  <2> QED
    BY <2>1
<1>6. Between(b, c, e)
  BY <1>1, <1>2, <1>3, <1>5 DEF Between, OwnedBy, Locks, SetMoves
<1>7. Between(c, d, e)
  BY <1>1, <1>2, <1>3, <1>5 DEF Between, OwnedBy, Locks, SetMoves
<1>8. Shift(c, e)
  BY <1>2, <1>3, <1>7, ShiftThrough DEF Locks, SetMoves
<1>9. Shift(b, e)
  BY <1>1, <1>6, <1>8, ShiftThrough DEF Locks
<1> QED
  BY <1>1, <1>2, <1>3, <1>4, <1>9 DEF Calm, Locks, SetMoves, SameKeys

(* Counts of the keys that hold a layer.                                    *)
LEMMA OneMember ==
  ASSUME NEW K, IsFiniteSet(K), NEW k \in K, NEW A, NEW B, A \subseteq K, B \subseteq K,
         A \ {k} = B \ {k}
  PROVE  /\ Cardinality(A) \in Nat /\ Cardinality(B) \in Nat
         /\ Cardinality(B) + (IF k \in A THEN 1 ELSE 0) = Cardinality(A) + (IF k \in B THEN 1 ELSE 0)
         /\ k \in A => Cardinality(A) > 0
<1> DEFINE C == A \ {k}
<1>1. IsFiniteSet(A) /\ IsFiniteSet(B) /\ IsFiniteSet(C)
  <2>1. C \subseteq K
    OBVIOUS
  <2> QED
    BY <2>1, FS_Subset
<1>2. Cardinality(A) \in Nat /\ Cardinality(B) \in Nat /\ Cardinality(C) \in Nat
  BY <1>1, FS_CardinalityType
<1>3. Cardinality(C \cup {k}) = Cardinality(C) + 1
  <2>1. k \notin C
    OBVIOUS
  <2> HIDE DEF C
  <2> QED
    BY <1>1, <2>1, FS_AddElement
<1>4. A = IF k \in A THEN C \cup {k} ELSE C
  OBVIOUS
<1>5. B = IF k \in B THEN C \cup {k} ELSE C
  OBVIOUS
<1>6. Cardinality(A) = Cardinality(C) + (IF k \in A THEN 1 ELSE 0)
  <2> HIDE DEF C
  <2> QED
    BY <1>2, <1>3, <1>4
<1>7. Cardinality(B) = Cardinality(C) + (IF k \in B THEN 1 ELSE 0)
  <2> HIDE DEF C
  <2> QED
    BY <1>2, <1>3, <1>5
<1> HIDE DEF C
<1> QED
  BY <1>2, <1>6, <1>7

(* Only the counts of holding keys may change.                               *)
Rest(b, c) == c.locked = b.locked /\ c.oneshot = b.oneshot /\ c.modeLayers = b.modeLayers

LEMMA SameShift ==
  ASSUME NEW b \in Boards, NEW c, Reowned(b, c), SameOwners(b, c)
  PROVE  Shift(b, c)
<1>1. \A l : OwnedBy(b, l) <=> OwnedBy(c, l)
  BY SameOwned
<1>2. Keeps(b, c)
  BY SameKeeps DEF SameOwners
<1> QED
  BY <1>1, <1>2 DEF Shift, Reowned, SameMode, SameView, ModeKept, KeyRuns, Follows, LayersOK, Loss

Recounted(b, l, n, c) ==
  /\ c.count = [b.count EXCEPT ![l] = n]
  /\ Rest(b, c)

Recount(b, l, n, bind) == [b EXCEPT !.bind = bind, !.count = [b.count EXCEPT ![l] = n]]

CountSet(b, l, n, bind, c) ==
  Shift(b, c) /\ Recounted(b, l, n, c) /\ c.bind = bind /\ c.shortcut = b.shortcut

LEMMA CountChanges ==
  ASSUME SetupOK, NEW b \in Boards, NEW l \in Layers, NEW n \in Nat,
         NEW bind \in [LayerKeys -> {0} \cup Layers]
  PROVE  /\ CountSet(b, l, n, bind, ApplyLayer(Recount(b, l, n, bind), l))
         /\ (b.count[l] > 0 <=> n > 0) => CountSet(b, l, n, bind, Recount(b, l, n, bind))
<1> PICK c : c = Recount(b, l, n, bind)
  OBVIOUS
<1> PICK count : count = [b.count EXCEPT ![l] = n]
  OBVIOUS
<1>1. /\ b.count \in [Layers -> Nat] /\ count \in [Layers -> Nat]
      /\ count[l] = n /\ \A k \in Layers \ {l} : count[k] = b.count[k]
  <2>1. b.count \in [Layers -> Nat]
    BY DEF Boards
  <2> QED
    BY <2>1
<1>2. c = [b EXCEPT !.bind = bind, !.count = count]
  BY DEF Recount
<1>3. c \in Boards /\ c.count = count /\ c.bind = bind /\ c.shortcut = b.shortcut
  BY <1>1, <1>2 DEF Boards
<1>4. SameHolds(b, c) /\ SameMode(b, c) /\ SameView(b, c) /\ Rest(b, c)
  BY <1>1, <1>2 DEF Boards, SameHolds, SameMode, SameView, Rest
<1>5. Reowned(b, c)
  BY <1>3, <1>4 DEF Reowned
<1>6. \A k \in Layers \ {l} : OwnedBy(b, k) <=> OwnedBy(c, k)
  BY <1>1, <1>3, <1>4 DEF OwnedBy, Rest
<1> PICK d : d = ApplyLayer(c, l)
  OBVIOUS
<1>7. Applied(c, {l}, d)
  BY <1>3, OneApplied
<1>13. Pointer # l \/ (b.count[l] > 0 <=> n > 0) => Keeps(b, c)
  <2>1. ASSUME Pointer # l \/ (b.count[l] > 0 <=> n > 0) PROVE PointerOwned(c) => PointerOwned(b)
    BY <1>1, <1>3, <1>4, <2>1, LayersAssumption DEF PointerOwned, Rest
  <2> QED
    BY <1>4, <2>1, SameLit DEF SameView, SameMode
<1>8. Shift(b, d)
  BY <1>5, <1>6, <1>7, <1>13, AppliedShift
<1>9. Recounted(b, l, n, d) /\ d.bind = bind /\ d.shortcut = b.shortcut
  BY <1>3, <1>4, <1>7 DEF Applied, SameOwners, SameKeys, Recounted, Rest
<1>10. ASSUME b.count[l] > 0 <=> n > 0 PROVE Shift(b, c)
  <2>1. \A k \in Layers : OwnedBy(b, k) <=> OwnedBy(c, k)
    BY <1>1, <1>3, <1>4, <1>10 DEF OwnedBy, Rest
  <2> QED
    BY <1>5, <1>10, <1>13, <2>1 DEF Shift, Reowned, SameMode, SameView, ModeKept, KeyRuns, Follows, LayersOK, Loss
<1>11. Recounted(b, l, n, c)
  BY <1>3, <1>4 DEF Recounted
<1>12. CountSet(b, l, n, bind, d) /\ ((b.count[l] > 0 <=> n > 0) => CountSet(b, l, n, bind, c))
  BY <1>3, <1>8, <1>9, <1>10, <1>11 DEF CountSet
<1> QED
  BY <1>12

(* One owner more, one owner less.                                          *)
Ups(b, A, c) ==
  /\ Shift(b, c) /\ SameKeys(b, c) /\ Rest(b, c)
  /\ \A l \in Layers : c.count[l] = IF l \in A THEN b.count[l] + 1 ELSE b.count[l]

Downs(b, A, c) ==
  /\ Shift(b, c) /\ SameKeys(b, c) /\ Rest(b, c)
  /\ \A l \in Layers : c.count[l] = IF l \in A /\ b.count[l] > 0 THEN b.count[l] - 1 ELSE b.count[l]

LEMMA OwnerJoins ==
  ASSUME SetupOK, NEW b \in Boards, NEW l \in Layers PROVE Ups(b, {l}, AddOwner(b, l))
<1> PICK n \in Nat : n = b.count[l] + 1
  BY DEF Boards
<1> PICK c : c = Recount(b, l, n, b.bind)
  OBVIOUS
<1> PICK d : d = ApplyLayer(c, l)
  OBVIOUS
<1>1. b.bind \in [LayerKeys -> {0} \cup Layers] /\ b.count \in [Layers -> Nat]
  BY DEF Boards
<1>2. CountSet(b, l, n, b.bind, d) /\ (b.count[l] > 0 => CountSet(b, l, n, b.bind, c))
  BY <1>1, CountChanges
<1>3. c = [b EXCEPT !.count[l] = b.count[l] + 1]
  BY <1>1 DEF Boards, Recount
<1>4. AddOwner(b, l) = IF b.count[l] = 0 THEN d ELSE c
  BY <1>3, Zenon DEF AddOwner
<1>5. Ups(b, {l}, d)
  BY <1>1, <1>2 DEF Ups, CountSet, Recounted, SameKeys
<1>6. b.count[l] > 0 => Ups(b, {l}, c)
  BY <1>1, <1>2 DEF Ups, CountSet, Recounted, SameKeys
<1> QED
  BY <1>1, <1>4, <1>5, <1>6

LEMMA OwnerLeaves ==
  ASSUME SetupOK, NEW b \in Boards, NEW l \in Layers PROVE Downs(b, {l}, RemoveOwner(b, l))
<1>1. b.bind \in [LayerKeys -> {0} \cup Layers] /\ b.count \in [Layers -> Nat] /\ b.count[l] \in Nat
  BY DEF Boards
<1>2. CASE b.count[l] = 0
  <2>1. RemoveOwner(b, l) = b
    BY <1>2, <1>1, 0 # 1, Zenon DEF RemoveOwner
  <2> QED
    BY <1>2, <2>1, NoShift DEF Downs, Rest
<1>3. CASE b.count[l] > 0
  <2> PICK n \in Nat : n = b.count[l] - 1
    BY <1>1, <1>3
  <2> PICK c : c = Recount(b, l, n, b.bind)
    OBVIOUS
  <2> PICK d : d = ApplyLayer(c, l)
    OBVIOUS
  <2>2. CountSet(b, l, n, b.bind, d) /\ (b.count[l] # 1 => CountSet(b, l, n, b.bind, c))
    BY <1>1, <1>3, CountChanges
  <2>3. c = [b EXCEPT !.count[l] = b.count[l] - 1]
    BY <1>1 DEF Boards, Recount
  <2>4. b.count[l] # 0
    BY <1>3, <1>1
  <2>5. RemoveOwner(b, l) = IF b.count[l] = 1 THEN d ELSE c
    <3>1. CASE b.count[l] = 1
      BY <2>3, <2>4, <3>1, Zenon DEF RemoveOwner
    <3>2. CASE b.count[l] # 1
      BY <2>3, <2>4, <3>2, Zenon DEF RemoveOwner
    <3> QED
      BY <3>1, <3>2
  <2>6. Downs(b, {l}, d)
    BY <1>1, <1>3, <2>2 DEF Downs, CountSet, Recounted, SameKeys
  <2>7. b.count[l] # 1 => Downs(b, {l}, c)
    BY <1>1, <1>3, <2>2 DEF Downs, CountSet, Recounted, SameKeys
  <2> QED
    BY <2>5, <2>6, <2>7
<1> QED
  BY <1>1, <1>2, <1>3

LEMMA UpsThrough ==
  ASSUME NEW b \in Boards, NEW A, NEW c, NEW l \in Layers, NEW d, Ups(b, A, c), Ups(c, {l}, d), l \notin A
  PROVE  Ups(b, A \cup {l}, d)
<1>1. \A k \in Layers : b.count[k] \in Nat /\ c.count[k] \in Nat /\ d.count[k] \in Nat
  BY DEF Ups, Shift, Boards
<1>2. Between(b, c, d)
  BY <1>1 DEF Between, Ups, Rest, OwnedBy
<1>3. Shift(b, d)
  BY <1>2, ShiftThrough DEF Ups
<1>4. \A k \in Layers : d.count[k] = IF k \in A \cup {l} THEN b.count[k] + 1 ELSE b.count[k]
  BY <1>1 DEF Ups
<1> QED
  BY <1>3, <1>4 DEF Ups, SameKeys, Rest

LEMMA DownsThrough ==
  ASSUME NEW b \in Boards, NEW A, NEW c, NEW l \in Layers, NEW d, Downs(b, A, c), Downs(c, {l}, d), l \notin A
  PROVE  Downs(b, A \cup {l}, d)
<1>1. \A k \in Layers : b.count[k] \in Nat /\ c.count[k] \in Nat /\ d.count[k] \in Nat
  BY DEF Downs, Shift, Boards
<1>2. Between(b, c, d)
  BY <1>1 DEF Between, Downs, Rest, OwnedBy
<1>3. Shift(b, d)
  BY <1>2, ShiftThrough DEF Downs
<1>4. \A k \in Layers : d.count[k] = 
                             IF k \in A \cup {l} /\ b.count[k] > 0 THEN b.count[k] - 1 ELSE b.count[k]
  BY <1>1 DEF Downs
<1> QED
  BY <1>3, <1>4 DEF Downs, SameKeys, Rest

LEMMA OwnersJoin ==
  ASSUME SetupOK, NEW b \in Boards, NEW ls, ls \subseteq Layers
  PROVE  Ups(b, ls, ShortcutAcquire(b, ls))
<1> PICK c : c = ShortcutAcquire(b, ls)
  OBVIOUS
<1>1. Ran("acquire", b, ls, c)
  BY EachAcquire
<1>2. PICK g : /\ g[0] = b /\ g[N] = c
               /\ \A i \in 1 .. N : g[i] = IF i \in ls THEN Does("acquire", g[i - 1], i) ELSE g[i - 1]
  BY <1>1 DEF Ran
<1> DEFINE T == {i \in 0 .. N : Ups(b, ls \cap (1 .. i), g[i])}
<1>3. 0 \in T
  <2>1. ls \cap (1 .. 0) = {}
    OBVIOUS
  <2>2. Ups(b, {}, g[0])
    BY <1>2, NoShift DEF Ups, Rest
  <2> QED
    BY <2>1, <2>2, LayersAre
<1>4. ASSUME NEW i \in 1 .. N, i - 1 \in T PROVE i \in T
  <2>1. i \in Layers /\ i \in 0 .. N /\ i - 1 \in 0 .. N
    BY LayersAre
  <2>2. Ups(b, ls \cap (1 .. i - 1), g[i - 1])
    BY <1>4
  <2>3. CASE i \notin ls
    <3>1. ls \cap (1 .. i) = ls \cap (1 .. i - 1)
      BY <2>3, LayersAre
    <3>2. g[i] = g[i - 1]
      BY <1>2, <2>3
    <3> QED
      BY <2>1, <2>2, <3>1, <3>2
  <2>4. CASE i \in ls
    <3> PICK A : A = ls \cap (1 .. i - 1)
      OBVIOUS
    <3>1. ls \cap (1 .. i) = A \cup {i} /\ i \notin A
      BY <2>4, LayersAre
    <3>2. g[i] = AddOwner(g[i - 1], i)
      BY <1>2, <2>4 DEF Does
    <3>3. Ups(g[i - 1], {i}, g[i])
      BY <2>1, <2>2, <3>2, OwnerJoins DEF Ups, Shift
    <3>4. Ups(b, A \cup {i}, g[i])
      BY <2>1, <2>2, <3>1, <3>3, UpsThrough
    <3> QED
      BY <2>1, <3>1, <3>4
  <2> QED
    BY <2>3, <2>4
<1> HIDE DEF T
<1>5. N \in T
  BY <1>3, <1>4, LayersAre, Upto
<1>6. Ups(b, ls \cap (1 .. N), g[N])
  BY <1>5 DEF T
<1>7. ls \cap (1 .. N) = ls
  BY LayersAre
<1> QED
  BY <1>2, <1>6, <1>7

LEMMA OwnersLeave ==
  ASSUME SetupOK, NEW b \in Boards, NEW ls, ls \subseteq Layers
  PROVE  Downs(b, ls, ShortcutDrop(b, ls))
<1> PICK c : c = ShortcutDrop(b, ls)
  OBVIOUS
<1>1. Ran("drop", b, ls, c)
  BY EachDrop
<1>2. PICK g : /\ g[0] = b /\ g[N] = c
               /\ \A i \in 1 .. N : g[i] = IF i \in ls THEN Does("drop", g[i - 1], i) ELSE g[i - 1]
  BY <1>1 DEF Ran
<1> DEFINE T == {i \in 0 .. N : Downs(b, ls \cap (1 .. i), g[i])}
<1>3. 0 \in T
  <2>1. ls \cap (1 .. 0) = {}
    OBVIOUS
  <2>2. Downs(b, {}, g[0])
    BY <1>2, NoShift DEF Downs, Rest
  <2> QED
    BY <2>1, <2>2, LayersAre
<1>4. ASSUME NEW i \in 1 .. N, i - 1 \in T PROVE i \in T
  <2>1. i \in Layers /\ i \in 0 .. N /\ i - 1 \in 0 .. N
    BY LayersAre
  <2>2. Downs(b, ls \cap (1 .. i - 1), g[i - 1])
    BY <1>4
  <2>3. CASE i \notin ls
    <3>1. ls \cap (1 .. i) = ls \cap (1 .. i - 1)
      BY <2>3, LayersAre
    <3>2. g[i] = g[i - 1]
      BY <1>2, <2>3
    <3> QED
      BY <2>1, <2>2, <3>1, <3>2
  <2>4. CASE i \in ls
    <3> PICK A : A = ls \cap (1 .. i - 1)
      OBVIOUS
    <3>1. ls \cap (1 .. i) = A \cup {i} /\ i \notin A
      BY <2>4, LayersAre
    <3>2. g[i] = RemoveOwner(g[i - 1], i)
      BY <1>2, <2>4 DEF Does
    <3>3. Downs(g[i - 1], {i}, g[i])
      BY <2>1, <2>2, <3>2, OwnerLeaves DEF Downs, Shift
    <3>4. Downs(b, A \cup {i}, g[i])
      BY <2>1, <2>2, <3>1, <3>3, DownsThrough
    <3> QED
      BY <2>1, <3>1, <3>4
  <2> QED
    BY <2>3, <2>4
<1> HIDE DEF T
<1>5. N \in T
  BY <1>3, <1>4, LayersAre, Upto
<1>6. Downs(b, ls \cap (1 .. N), g[N])
  BY <1>5 DEF T
<1>7. ls \cap (1 .. N) = ls
  BY LayersAre
<1> QED
  BY <1>2, <1>6, <1>7

(* A key that takes, moves or gives up its hold.                            *)
HoldMoves(b, k, l, c) ==
  /\ Shift(b, c) /\ Rest(b, c) /\ c.shortcut = b.shortcut
  /\ c.bind = [b.bind EXCEPT ![k] = l]
  /\ \A x \in Layers :
       /\ x # l /\ x # b.bind[k] => c.count[x] = b.count[x]
       /\ x = l /\ x = b.bind[k] => c.count[x] = b.count[x]
       /\ x = l /\ x # b.bind[k] => c.count[x] = b.count[x] + 1
       /\ x # l /\ x = b.bind[k] /\ b.count[x] > 0 => c.count[x] = b.count[x] - 1

LEMMA SlotGoes ==
  ASSUME SetupOK, NEW b \in Boards, NEW k \in LayerKeys, b.bind[k] # 0
  PROVE  HoldMoves(b, k, 0, RemoveSlot(b, k))
<1>1. /\ b.bind \in [LayerKeys -> {0} \cup Layers] /\ b.count \in [Layers -> Nat]
      /\ 0 \notin Layers
  BY LayersAre DEF Boards
<1> PICK l \in Layers : l = b.bind[k]
  BY <1>1
<1> PICK bind \in [LayerKeys -> {0} \cup Layers] : bind = [b.bind EXCEPT ![k] = 0]
  BY <1>1
<1> PICK n \in Nat : n = IF b.count[l] = 0 THEN 0 ELSE b.count[l] - 1
  BY <1>1
<1> PICK c : c = Recount(b, l, n, bind)
  OBVIOUS
<1> PICK d : d = ApplyLayer(c, l)
  OBVIOUS
<1>2. CountSet(b, l, n, bind, d) /\ (b.count[l] = 0 => CountSet(b, l, n, bind, c))
  BY <1>1, CountChanges
<1>3. b.count[l] = 0 => RemoveSlot(b, k) = c
  <2>1. ASSUME b.count[l] = 0 PROVE c = [b EXCEPT !.bind[k] = 0]
    <3>1. [b.count EXCEPT ![l] = n] = b.count
      BY <1>1, <2>1
    <3>2. c = [b EXCEPT !.bind = bind, !.count = b.count]
      BY <3>1 DEF Recount
    <3> QED
      BY <3>2 DEF Boards
  <2> QED
    BY <2>1, Zenon DEF RemoveSlot
<1>4. b.count[l] # 0 => RemoveSlot(b, k) = d
  <2>1. ASSUME b.count[l] # 0 PROVE c = [[b EXCEPT !.bind[k] = 0] EXCEPT !.count[l] = b.count[l] - 1]
    <3>1. c = [b EXCEPT !.bind = bind, !.count = [b.count EXCEPT ![l] = n]]
      BY DEF Recount
    <3> QED
      BY <1>1, <2>1, <3>1 DEF Boards
  <2> PICK e : e = [b EXCEPT !.bind[k] = 0]
    OBVIOUS
  <2>2. e.count = b.count
    BY DEF Boards
  <2> QED
    BY <2>1, <2>2, Zenon DEF RemoveSlot
<1>5. ASSUME NEW e, CountSet(b, l, n, bind, e)
      PROVE  HoldMoves(b, k, 0, e)
  BY <1>1, <1>5 DEF CountSet, Recounted, HoldMoves
<1> QED
  BY <1>2, <1>3, <1>4, <1>5

LEMMA PressMoves ==
  ASSUME SetupOK, NEW b \in Boards, NEW k \in LayerKeys, NEW l \in Layers
  PROVE  HoldMoves(b, k, l, MomentaryPress(b, k, l))
<1>1. /\ b.bind \in [LayerKeys -> {0} \cup Layers] /\ b.count \in [Layers -> Nat]
      /\ 0 \notin Layers
  BY LayersAre DEF Boards
<1>2. CASE b.bind[k] = l
  <2> PICK d : d = ApplyLayer(b, l)
    OBVIOUS
  <2>1. Applied(b, {l}, d)
    BY OneApplied
  <2>2. Reowned(b, b)
    BY DEF Reowned, SameHolds, SameMode, SameView
  <2>3. Shift(b, d)
    <3>1. Keeps(b, b)
      BY DEF Keeps
    <3> QED
      BY <2>1, <2>2, <3>1, AppliedShift
  <2>4. [b.bind EXCEPT ![k] = l] = b.bind
    BY <1>1, <1>2
  <2>5. HoldMoves(b, k, l, d)
    BY <1>1, <1>2, <2>1, <2>3, <2>4 DEF HoldMoves, Applied, SameOwners, SameKeys, Rest
  <2> QED
    BY <1>2, <2>5, Zenon DEF MomentaryPress
<1>3. CASE b.bind[k] # l
  <2> PICK f : f = IF b.bind[k] # 0 THEN RemoveSlot(b, k) ELSE b
    OBVIOUS
  <2>1. HoldMoves(b, k, 0, f)
    <3>1. CASE b.bind[k] # 0
      BY <3>1, SlotGoes
    <3>2. CASE b.bind[k] = 0
      <4>1. [b.bind EXCEPT ![k] = 0] = b.bind
        BY <1>1, <3>2
      <4> QED
        BY <1>1, <3>2, <4>1, NoShift DEF HoldMoves, Rest
    <3> QED
      BY <3>1, <3>2
  <2>2. f \in Boards
    BY <2>1 DEF HoldMoves, Shift
  <2> PICK bind \in [LayerKeys -> {0} \cup Layers] : bind = [f.bind EXCEPT ![k] = l]
    BY <2>2 DEF Boards
  <2> PICK e : e = [f EXCEPT !.bind[k] = l]
    OBVIOUS
  <2>3. e = [f EXCEPT !.bind = bind]
    OBVIOUS
  <2>4. e \in Boards /\ e.bind = bind /\ e.shortcut = f.shortcut /\ SameOwners(f, e)
    BY <2>2, <2>3 DEF Boards, SameOwners
  <2>5. SameHolds(f, e) /\ SameMode(f, e) /\ SameView(f, e)
    BY <2>2, <2>3 DEF Boards, SameHolds, SameMode, SameView
  <2>6. Shift(f, e)
    BY <2>2, <2>4, <2>5, SameShift DEF Reowned
  <2> PICK d : d = AddOwner(e, l)
    OBVIOUS
  <2>7. Ups(e, {l}, d)
    BY <2>4, OwnerJoins
  <2>8. MomentaryPress(b, k, l) = d
    BY <1>3, Zenon DEF MomentaryPress
  <2>9. \A x \in Layers : f.count[x] \in Nat /\ e.count[x] \in Nat /\ d.count[x] \in Nat /\ b.count[x] \in Nat
    <3>1. d \in Boards
      BY <2>7 DEF Ups, Shift
    <3>2. \A a \in Boards : a.count \in [Layers -> Nat]
      BY DEF Boards
    <3> QED
      BY <2>2, <2>4, <3>1, <3>2
  <2>10. Between(f, e, d) /\ Between(b, f, d)
    <3>1. Between(f, e, d)
      BY <2>4 DEF Between, OwnedBy, SameOwners
    <3>2. Between(b, f, d)
      BY <1>1, <1>3, <2>1, <2>4, <2>7, <2>9 DEF Between, OwnedBy, SameOwners, Ups, Rest, HoldMoves
    <3> QED
      BY <3>1, <3>2
  <2>11. Shift(f, d)
    BY <2>6, <2>7, <2>10, ShiftThrough DEF Ups
  <2>12. Shift(b, d)
    BY <2>1, <2>10, <2>11, ShiftThrough DEF HoldMoves
  <2>13. bind = [b.bind EXCEPT ![k] = l]
    BY <1>1, <2>1 DEF HoldMoves
  <2>14. HoldMoves(b, k, l, d)
    <3>1. d.bind = [b.bind EXCEPT ![k] = l] /\ d.shortcut = b.shortcut /\ Rest(b, d)
      BY <2>1, <2>4, <2>7, <2>13 DEF HoldMoves, Ups, SameKeys, SameOwners, Rest
    <3>2. ASSUME NEW x \in Layers
          PROVE  /\ x # l /\ x # b.bind[k] => d.count[x] = b.count[x]
                 /\ x = l /\ x # b.bind[k] => d.count[x] = b.count[x] + 1
                 /\ x # l /\ x = b.bind[k] /\ b.count[x] > 0 => d.count[x] = b.count[x] - 1
      BY <1>1, <2>1, <2>4, <2>7, <2>9 DEF HoldMoves, Ups, SameOwners
    <3> QED
      BY <1>3, <2>12, <3>1, <3>2 DEF HoldMoves
  <2> QED
    BY <2>8, <2>14
<1> QED
  BY <1>2, <1>3

(* The keys that hold layer x: layer keys, and shortcuts by either part.     *)
HoldTotal(b, x) == Cardinality({k \in LayerKeys : b.bind[k] = x})
HeldTotal(b, x) == Cardinality({k \in ShortcutKeys : x \in b.shortcut[k].held})
MomentaryTotal(b, x) == Cardinality({k \in ShortcutKeys : x \in b.shortcut[k].momentary})
CountsOK(b) == \A x \in Layers : b.count[x] = HoldTotal(b, x) + HeldTotal(b, x) + MomentaryTotal(b, x)

LEMMA TotalsAre ==
  ASSUME NEW b, NEW x
  PROVE  HoldTotal(b, x) \in Nat /\ HeldTotal(b, x) \in Nat /\ MomentaryTotal(b, x) \in Nat
<1>1. ASSUME NEW K, IsFiniteSet(K), NEW S, S \subseteq K PROVE Cardinality(S) \in Nat
  BY <1>1, FS_Subset, FS_CardinalityType
<1> QED
  BY <1>1, LayersAssumption DEF HoldTotal, HeldTotal, MomentaryTotal

LEMMA HoldCounts ==
  ASSUME NEW b \in Boards, NEW k \in LayerKeys, NEW l \in {0} \cup Layers, NEW c,
         HoldMoves(b, k, l, c), CountsOK(b)
  PROVE  CountsOK(c)
<1> SUFFICES ASSUME NEW x \in Layers
             PROVE  c.count[x] = HoldTotal(c, x) + HeldTotal(c, x) + MomentaryTotal(c, x)
  BY DEF CountsOK
<1>1. b.bind \in [LayerKeys -> {0} \cup Layers] /\ b.count[x] \in Nat
  BY DEF Boards
<1> DEFINE A == {j \in LayerKeys : b.bind[j] = x}
           B == {j \in LayerKeys : c.bind[j] = x}
<1>2. A \subseteq LayerKeys /\ B \subseteq LayerKeys /\ A \ {k} = B \ {k}
  BY <1>1 DEF HoldMoves
<1>3. (k \in A <=> b.bind[k] = x) /\ (k \in B <=> l = x)
  BY <1>1 DEF HoldMoves
<1>4. /\ HoldTotal(b, x) = Cardinality(A) /\ HoldTotal(c, x) = Cardinality(B)
      /\ HeldTotal(c, x) = HeldTotal(b, x) /\ MomentaryTotal(c, x) = MomentaryTotal(b, x)
  BY DEF HoldTotal, HeldTotal, MomentaryTotal, HoldMoves
<1> HIDE DEF A, B
<1>5. /\ Cardinality(B) + (IF k \in A THEN 1 ELSE 0) = Cardinality(A) + (IF k \in B THEN 1 ELSE 0)
      /\ k \in A => Cardinality(A) > 0
      /\ Cardinality(A) \in Nat /\ Cardinality(B) \in Nat
  BY <1>2, OneMember, LayersAssumption
<1>6. b.count[x] = Cardinality(A) + HeldTotal(b, x) + MomentaryTotal(b, x)
  BY <1>4 DEF CountsOK
<1>7. HeldTotal(b, x) \in Nat /\ MomentaryTotal(b, x) \in Nat
  BY TotalsAre
<1>8. /\ x # l /\ x # b.bind[k] => c.count[x] = b.count[x]
      /\ x = l /\ x = b.bind[k] => c.count[x] = b.count[x]
      /\ x = l /\ x # b.bind[k] => c.count[x] = b.count[x] + 1
      /\ x # l /\ x = b.bind[k] /\ b.count[x] > 0 => c.count[x] = b.count[x] - 1
  BY DEF HoldMoves
<1>9. CASE x # l /\ x # b.bind[k]
  BY <1>1, <1>3, <1>4, <1>5, <1>6, <1>7, <1>8, <1>9
<1>10. CASE x = l /\ x = b.bind[k]
  BY <1>1, <1>3, <1>4, <1>5, <1>6, <1>7, <1>8, <1>10
<1>11. CASE x = l /\ x # b.bind[k]
  BY <1>1, <1>3, <1>4, <1>5, <1>6, <1>7, <1>8, <1>11
<1>12. CASE x # l /\ x = b.bind[k]
  <2>1. Cardinality(B) + 1 = Cardinality(A) /\ b.count[x] > 0
    BY <1>1, <1>3, <1>5, <1>6, <1>7, <1>12
  <2> QED
    BY <1>1, <1>4, <1>5, <1>6, <1>7, <1>8, <1>12, <2>1
<1> QED
  BY <1>9, <1>10, <1>11, <1>12

(* A shortcut that takes and gives up its layers.                           *)
Reshort(b, k, part, ls) == [b EXCEPT !.shortcut[k][part] = ls]

Reshorted(b, k, part, ls, c) ==
  /\ Reowned(b, c) /\ SameOwners(b, c) /\ c.bind = b.bind
  /\ \A j \in ShortcutKeys : j # k => c.shortcut[j] = b.shortcut[j]
  /\ c.shortcut[k][part] = ls
  /\ part = "held" => c.shortcut[k].momentary = b.shortcut[k].momentary
  /\ part = "momentary" => c.shortcut[k].held = b.shortcut[k].held

LEMMA ShortcutIsNamed ==
  ASSUME NEW b \in Boards, NEW k \in ShortcutKeys, NEW part \in {"held", "momentary"},
         NEW ls \in SUBSET Layers
  PROVE  Reshorted(b, k, part, ls, Reshort(b, k, part, ls))
<1> PICK short \in [ShortcutKeys -> [held : SUBSET Layers, momentary : SUBSET Layers]] :
      short = [b.shortcut EXCEPT ![k][part] = ls]
  <2>1. b.shortcut \in [ShortcutKeys -> [held : SUBSET Layers, momentary : SUBSET Layers]]
    BY DEF Boards
  <2>2. CASE part = "held"
    BY <2>1, <2>2
  <2>3. CASE part = "momentary"
    BY <2>1, <2>3
  <2> QED
    BY <2>2, <2>3
<1> PICK c : c = [b EXCEPT !.shortcut = short]
  OBVIOUS
<1>1. Reshort(b, k, part, ls) = c
  BY Zenon DEF Reshort
<1>2. c \in Boards /\ c.shortcut = short /\ c.bind = b.bind
  BY DEF Boards
<1>3. Reowned(b, c) /\ SameOwners(b, c)
  BY <1>2 DEF Boards, Reowned, SameOwners, SameHolds, SameMode, SameView
<1>4. b.shortcut \in [ShortcutKeys -> [held : SUBSET Layers, momentary : SUBSET Layers]]
  BY DEF Boards
<1>5. \A j \in ShortcutKeys : j # k => short[j] = b.shortcut[j]
  BY <1>4
<1>6. /\ short[k][part] = ls
      /\ part = "held" => short[k].momentary = b.shortcut[k].momentary
      /\ part = "momentary" => short[k].held = b.shortcut[k].held
  <2>1. CASE part = "held"
    BY <1>4, <2>1
  <2>2. CASE part = "momentary"
    BY <1>4, <2>2
  <2> QED
    BY <2>1, <2>2
<1>7. Reshorted(b, k, part, ls, c)
  BY <1>2, <1>3, <1>5, <1>6 DEF Reshorted
<1> QED
  BY <1>1, <1>7

(* From `old` to `ls`, counts included.                                     *)
(* A shortcut takes ls in place of what its part held.                       *)
ShortMoves(b, k, part, ls, c) ==
  /\ Shift(b, c) /\ Rest(b, c) /\ c.bind = b.bind
  /\ \A j \in ShortcutKeys : j # k => c.shortcut[j] = b.shortcut[j]
  /\ c.shortcut[k][part] = ls
  /\ part = "held" => c.shortcut[k].momentary = b.shortcut[k].momentary
  /\ part = "momentary" => c.shortcut[k].held = b.shortcut[k].held
  /\ \A x \in Layers :
       LET n == IF x \in ls THEN b.count[x] + 1 ELSE b.count[x]
       IN  c.count[x] = IF x \in b.shortcut[k][part] /\ n > 0 THEN n - 1 ELSE n

LEMMA ShortcutBinds ==
  ASSUME SetupOK, NEW b \in Boards, NEW k \in ShortcutKeys, NEW part \in {"held", "momentary"},
         NEW ls \in SUBSET Layers
  PROVE  ShortMoves(b, k, part, ls, ShortcutBind(b, k, part, ls))
<1> PICK old : old = b.shortcut[k][part]
  OBVIOUS
<1>1. old \subseteq Layers
  <2>1. CASE part = "held"
    BY <2>1 DEF Boards
  <2>2. CASE part = "momentary"
    BY <2>2 DEF Boards
  <2> QED
    BY <2>1, <2>2
<1> PICK s : s = Reshort(b, k, part, ls)
  OBVIOUS
<1>2. Reshorted(b, k, part, ls, s)
  BY ShortcutIsNamed
<1>3. s \in Boards
  BY <1>2 DEF Reshorted, Reowned
<1>4. Shift(b, s)
  BY <1>2, SameShift DEF Reshorted
<1> PICK a : a = ShortcutAcquire(s, ls)
  OBVIOUS
<1>5. Ups(s, ls, a)
  BY <1>3, OwnersJoin
<1>6. a \in Boards
  BY <1>5 DEF Ups, Shift
<1> PICK d : d = ShortcutDrop(a, old)
  OBVIOUS
<1>7. Downs(a, old, d)
  BY <1>1, <1>6, OwnersLeave
<1>8. d \in Boards
  BY <1>7 DEF Downs, Shift
<1>9. \A x \in Layers : /\ b.count[x] \in Nat /\ s.count[x] = b.count[x]
                        /\ a.count[x] \in Nat /\ d.count[x] \in Nat
  <2>1. \A c \in Boards : c.count \in [Layers -> Nat]
    BY DEF Boards
  <2> QED
    BY <1>2, <1>6, <1>8, <2>1 DEF Reshorted, SameOwners
<1>10. Between(s, a, d)
  BY <1>5, <1>7, <1>9 DEF Between, OwnedBy, Ups, Downs, Rest
<1>11. Shift(s, d)
  BY <1>5, <1>7, <1>10, ShiftThrough DEF Ups, Downs
<1>12. Between(b, s, d)
  BY <1>2, SameOwned DEF Between, Reshorted
<1>13. Shift(b, d)
  BY <1>4, <1>11, <1>12, ShiftThrough
<1>14. Rest(b, d) /\ d.bind = b.bind /\ d.shortcut = s.shortcut
  BY <1>2, <1>5, <1>7 DEF Reshorted, SameOwners, Ups, Downs, SameKeys, Rest
<1>15. ASSUME NEW x \in Layers, NEW n, n = IF x \in ls THEN b.count[x] + 1 ELSE b.count[x]
       PROVE  d.count[x] = IF x \in old /\ n > 0 THEN n - 1 ELSE n
  <2>1. a.count[x] = n
    BY <1>5, <1>9, <1>15 DEF Ups
  <2> QED
    BY <1>7, <2>1 DEF Downs
<1>16. ShortMoves(b, k, part, ls, d)
  BY <1>2, <1>13, <1>14, <1>15 DEF ShortMoves, Reshorted
<1>17. ShortcutBind(b, k, part, ls) = d
  BY Zenon DEF ShortcutBind, Reshort
<1> QED
  BY <1>16, <1>17

LEMMA ShortcutUnbinds ==
  ASSUME SetupOK, NEW b \in Boards, NEW k \in ShortcutKeys, NEW part \in {"held", "momentary"}
  PROVE  ShortMoves(b, k, part, {}, ShortcutUnbind(b, k, part))
<1> PICK old : old = b.shortcut[k][part]
  OBVIOUS
<1>1. old \subseteq Layers
  <2>1. CASE part = "held"
    BY <2>1 DEF Boards
  <2>2. CASE part = "momentary"
    BY <2>2 DEF Boards
  <2> QED
    BY <2>1, <2>2
<1> PICK s : s = Reshort(b, k, part, {})
  OBVIOUS
<1>2. Reshorted(b, k, part, {}, s)
  BY ShortcutIsNamed
<1>3. s \in Boards
  BY <1>2 DEF Reshorted, Reowned
<1>4. Shift(b, s)
  BY <1>2, SameShift DEF Reshorted
<1> PICK d : d = ShortcutDrop(s, old)
  OBVIOUS
<1>7. Downs(s, old, d)
  BY <1>1, <1>3, OwnersLeave
<1>12. Between(b, s, d)
  BY <1>2, SameOwned DEF Between, Reshorted
<1>13. Shift(b, d)
  BY <1>4, <1>7, <1>12, ShiftThrough DEF Downs
<1>14. Rest(b, d) /\ d.bind = b.bind /\ d.shortcut = s.shortcut
  BY <1>2, <1>7 DEF Reshorted, SameOwners, Downs, SameKeys, Rest
<1>15. ASSUME NEW x \in Layers
       PROVE  d.count[x] = IF x \in old /\ b.count[x] > 0 THEN b.count[x] - 1 ELSE b.count[x]
  BY <1>2, <1>7 DEF Downs, Reshorted, SameOwners
<1>16. ShortMoves(b, k, part, {}, d)
  BY <1>2, <1>13, <1>14, <1>15 DEF ShortMoves, Reshorted
<1>17. ShortcutUnbind(b, k, part) = d
  BY Zenon DEF ShortcutUnbind, Reshort
<1> QED
  BY <1>16, <1>17

LEMMA ShortCounts ==
  ASSUME NEW b \in Boards, NEW k \in ShortcutKeys, NEW part \in {"held", "momentary"},
         NEW ls \in SUBSET Layers, NEW c, ShortMoves(b, k, part, ls, c), CountsOK(b)
  PROVE  CountsOK(c)
<1> SUFFICES ASSUME NEW x \in Layers
             PROVE  c.count[x] = HoldTotal(c, x) + HeldTotal(c, x) + MomentaryTotal(c, x)
  BY DEF CountsOK
<1>1. b.count[x] \in Nat
  BY DEF Boards
<1> DEFINE A == {j \in ShortcutKeys : x \in b.shortcut[j][part]}
           B == {j \in ShortcutKeys : x \in c.shortcut[j][part]}
<1>2. A \subseteq ShortcutKeys /\ B \subseteq ShortcutKeys /\ A \ {k} = B \ {k}
  BY DEF ShortMoves
<1>3. (k \in A <=> x \in b.shortcut[k][part]) /\ (k \in B <=> x \in ls)
  BY DEF ShortMoves
<1>5. /\ Cardinality(B) + (IF k \in A THEN 1 ELSE 0) = Cardinality(A) + (IF k \in B THEN 1 ELSE 0)
      /\ k \in A => Cardinality(A) > 0
      /\ Cardinality(A) \in Nat /\ Cardinality(B) \in Nat
  <2> HIDE DEF A, B
  <2> QED
    BY <1>2, OneMember, LayersAssumption
<1>6. c.count[x] = IF x \in b.shortcut[k][part] /\ (IF x \in ls THEN b.count[x] + 1 ELSE b.count[x]) > 0
                   THEN (IF x \in ls THEN b.count[x] + 1 ELSE b.count[x]) - 1
                   ELSE IF x \in ls THEN b.count[x] + 1 ELSE b.count[x]
  BY DEF ShortMoves
<1>7. /\ HoldTotal(b, x) \in Nat /\ HeldTotal(b, x) \in Nat /\ MomentaryTotal(b, x) \in Nat
      /\ b.count[x] = HoldTotal(b, x) + HeldTotal(b, x) + MomentaryTotal(b, x)
  BY TotalsAre DEF CountsOK
<1>8. CASE part = "held"
  <2>1. /\ HeldTotal(b, x) = Cardinality(A) /\ HeldTotal(c, x) = Cardinality(B)
        /\ HoldTotal(c, x) = HoldTotal(b, x) /\ MomentaryTotal(c, x) = MomentaryTotal(b, x)
    <3>1. HoldTotal(c, x) = HoldTotal(b, x)
      BY DEF HoldTotal, ShortMoves
    <3>2. \A j \in ShortcutKeys : c.shortcut[j].momentary = b.shortcut[j].momentary
      BY <1>8 DEF ShortMoves
    <3>3. MomentaryTotal(c, x) = MomentaryTotal(b, x)
      BY <3>2 DEF MomentaryTotal
    <3>4. HeldTotal(b, x) = Cardinality(A) /\ HeldTotal(c, x) = Cardinality(B)
      BY <1>8 DEF HeldTotal
    <3> QED
      BY <3>1, <3>3, <3>4
  <2>2. b.count[x] = Cardinality(A) + HoldTotal(b, x) + MomentaryTotal(b, x)
    BY <1>7, <2>1 DEF CountsOK
  <2>3. c.count[x] = Cardinality(B) + HoldTotal(b, x) + MomentaryTotal(b, x)
    <3> HIDE DEF A, B
    <3> QED
      BY <1>1, <1>3, <1>5, <1>6, <1>7, <2>2
  <2> QED
    BY <1>5, <1>7, <2>1, <2>3
<1>9. CASE part = "momentary"
  <2>1. /\ MomentaryTotal(b, x) = Cardinality(A) /\ MomentaryTotal(c, x) = Cardinality(B)
        /\ HoldTotal(c, x) = HoldTotal(b, x) /\ HeldTotal(c, x) = HeldTotal(b, x)
    <3>1. HoldTotal(c, x) = HoldTotal(b, x)
      BY DEF HoldTotal, ShortMoves
    <3>2. \A j \in ShortcutKeys : c.shortcut[j].held = b.shortcut[j].held
      BY <1>9 DEF ShortMoves
    <3>3. HeldTotal(c, x) = HeldTotal(b, x)
      BY <3>2 DEF HeldTotal
    <3>4. MomentaryTotal(b, x) = Cardinality(A) /\ MomentaryTotal(c, x) = Cardinality(B)
      BY <1>9 DEF MomentaryTotal
    <3> QED
      BY <3>1, <3>3, <3>4
  <2>2. b.count[x] = Cardinality(A) + HoldTotal(b, x) + HeldTotal(b, x)
    BY <1>7, <2>1 DEF CountsOK
  <2>3. c.count[x] = Cardinality(B) + HoldTotal(b, x) + HeldTotal(b, x)
    <3> HIDE DEF A, B
    <3> QED
      BY <1>1, <1>3, <1>5, <1>6, <1>7, <2>2
  <2> QED
    BY <1>5, <1>7, <2>1, <2>3
<1> QED
  BY <1>8, <1>9

LEMMA ReleaseMoves ==
  ASSUME SetupOK, NEW b \in Boards, NEW k \in LayerKeys, b.bind[k] # 0
  PROVE  HoldMoves(b, k, 0, MomentaryRelease(b, k))
BY SlotGoes DEF MomentaryRelease

LEMMA TapCalm ==
  ASSUME SetupOK, NEW b \in Boards, NEW ls \in SUBSET Layers
  PROVE  Calm(b, ShortcutDrop(ShortcutAcquire(b, ls), ls))
<1> PICK a : a = ShortcutAcquire(b, ls)
  OBVIOUS
<1>1. Ups(b, ls, a)
  BY OwnersJoin
<1>2. a \in Boards
  BY <1>1 DEF Ups, Shift
<1> PICK d : d = ShortcutDrop(a, ls)
  OBVIOUS
<1>3. Downs(a, ls, d)
  BY <1>2, OwnersLeave
<1>4. d \in Boards
  BY <1>3 DEF Downs, Shift
<1>5. /\ b.count \in [Layers -> Nat] /\ d.count \in [Layers -> Nat]
      /\ \A x \in Layers : b.count[x] \in Nat /\ a.count[x] \in Nat
  BY <1>2, <1>4 DEF Boards
<1>6. \A x \in Layers : d.count[x] = b.count[x]
  BY <1>1, <1>3, <1>5 DEF Ups, Downs
<1>7. d.count = b.count
  BY <1>5, <1>6
<1>8. Between(b, a, d)
  BY <1>1, <1>5 DEF Between, OwnedBy, Ups, Rest
<1>9. Shift(b, d)
  BY <1>1, <1>3, <1>8, ShiftThrough DEF Ups, Downs
<1> QED
  BY <1>1, <1>3, <1>7, <1>9 DEF Calm, Ups, Downs, SameKeys, Rest

(* QMK's auto-mouse: no owner changes.                                      *)
Still(b, c) == Shift(b, c) /\ SameKeys(b, c) /\ SameOwners(b, c)

LEMMA StillThrough ==
  ASSUME NEW b, NEW c, NEW d, Still(b, c), Still(c, d) PROVE Still(b, d)
<1>1. Between(b, c, d)
  BY SameOwned DEF Still, Between
<1>2. Shift(b, d)
  BY <1>1, ShiftThrough DEF Still
<1> QED
  BY <1>2 DEF Still, SameKeys, SameOwners

LEMMA MouseStill ==
  ASSUME NEW b, NEW c, Mouses(b, c) PROVE Still(b, c)
<1>1. \A l : OwnedBy(b, l) <=> OwnedBy(c, l)
  BY SameOwned DEF Mouses
<1>2. Keeps(b, c)
  BY SameKeeps DEF Mouses, SameOwners, Reowned
<1> QED
  BY <1>1, <1>2 DEF Mouses, Still, Shift, SameMode, SameView, ModeKept, KeyRuns, Follows, LayersOK, Loss

LEMMA HookStill ==
  ASSUME SetupOK, NEW b \in Boards, NEW on, on \subseteq Layers, on \ {Pointer} = b.on \ {Pointer}
  PROVE  Still(b, LayerStateSet(b, on))
<1> PICK c : c = LayerStateSet(b, on)
  OBVIOUS
<1>1. Hooked(b, on, c)
  BY HookRuns
<1>2. \A l : OwnedBy(b, l) <=> OwnedBy(c, l)
  BY <1>1, SameOwned DEF Hooked
<1>3. ModeKept(b, c)
  BY <1>1, HookKeepsMode
<1>4. \A l \in Layers \ {Pointer} : l \in c.on <=> l \in b.on
  BY <1>1 DEF Hooked
<1>5. Loss(b, c)
  BY <1>1, <1>4 DEF Loss, Hooked
<1>6. Still(b, c)
  BY <1>1, <1>2, <1>3, <1>4, <1>5 DEF Still, Shift, Hooked, LayersOK, Keeps
<1> QED
  BY <1>6

LEMMA StripStill ==
  ASSUME SetupOK, NEW b \in Boards PROVE Still(b, StripPointer(b))
<1>1. b.on \subseteq Layers
  BY DEF Boards
<1> PICK on : on = b.on \ {Pointer}
  OBVIOUS
<1>2. Still(b, LayerStateSet(b, on))
  BY <1>1, HookStill
<1>3. Still(b, b)
  BY NoShift DEF Still, SameOwners
<1> QED
  BY <1>2, <1>3 DEF StripPointer

LEMMA AnchorStill ==
  ASSUME NEW b \in Boards PROVE Still(b, SyncAnchor(b))
BY MouseAnchor, MouseStill

LEMMA TaskStill ==
  ASSUME SetupOK, NEW b \in Boards, NEW keeps \in BOOLEAN
  PROVE  Still(b, LayerStateSet(b, IF keeps THEN b.on \cup {Pointer} ELSE b.on \ {Pointer}))
<1> PICK on : on = IF keeps THEN b.on \cup {Pointer} ELSE b.on \ {Pointer}
  OBVIOUS
<1>1. on \subseteq Layers /\ on \ {Pointer} = b.on \ {Pointer}
  BY LayersAssumption DEF Boards
<1>2. Still(b, LayerStateSet(b, on))
  BY <1>1, HookStill
<1> QED
  BY <1>2

(* A pointing task, another key, a mouse key, a reset of what QMK counted.  *)
LEMMA MouseKeyStill ==
  ASSUME NEW b \in Boards, NEW c, c = [b EXCEPT !.mouse = ~b.mouse]
  PROVE  Still(b, SyncAnchor(IF c.mouse THEN Keyevent(c, TRUE) ELSE CountIf(c, FALSE)))
<1>1. Mouses(b, c)
  <2> PICK mouse \in BOOLEAN : mouse = ~b.mouse
    OBVIOUS
  <2>1. c = [b EXCEPT !.mouse = mouse]
    OBVIOUS
  <2> QED
    BY <2>1 DEF Mouses, SameOwners, SameKeys, SameHolds, SameMode, SameView, Boards
<1>2. c \in Boards
  BY <1>1 DEF Mouses
<1> PICK d : d = IF c.mouse THEN Keyevent(c, TRUE) ELSE CountIf(c, FALSE)
  OBVIOUS
<1>3. Mouses(c, d)
  <2>1. Mouses(c, CountIf(c, TRUE)) /\ Mouses(c, CountIf(c, FALSE))
    BY <1>2, MouseCounts
  <2>2. CountIf(c, TRUE) = Keyevent(c, TRUE)
    BY Zenon DEF CountIf
  <2>3. Mouses(c, Keyevent(c, TRUE))
    BY <2>1, <2>2, Zenon
  <2> QED
    BY <2>1, <2>3, Zenon
<1>4. Mouses(b, d)
  BY <1>1, <1>3, MouseThrough
<1>5. Still(b, d) /\ d \in Boards
  BY <1>4, MouseStill DEF Mouses
<1>6. Still(b, SyncAnchor(d))
  BY <1>5, AnchorStill, StillThrough
<1> QED
  BY <1>6, Zenon

LEMMA ResetStill ==
  ASSUME NEW b \in Boards PROVE Still(b, [b EXCEPT !.tracker = 0, !.toggled = FALSE])
<1> PICK c : c = [b EXCEPT !.tracker = 0, !.toggled = FALSE]
  OBVIOUS
<1>1. Mouses(b, c)
  BY DEF Mouses, SameOwners, SameKeys, SameHolds, SameMode, SameView, Boards
<1> QED
  BY <1>1, MouseStill

LEMMA StripKeepsMode ==
  ASSUME SetupOK, NEW b \in Boards, KeyRuns(b) \/ Follows(b) PROVE SameMode(b, StripPointer(b))
<1>1. b.on \subseteq Layers
  BY DEF Boards
<1> PICK on : on = b.on \ {Pointer}
  OBVIOUS
<1>2. on \subseteq Layers /\ on \ {Pointer} = b.on \ {Pointer}
  BY <1>1
<1>3. Hooked(b, on, LayerStateSet(b, on))
  BY <1>2, HookRuns
<1>4. LayerStartedMode(on) = LayerStartedMode(b.on)
  BY <1>2, StartedSame
<1>5. SameMode(b, LayerStateSet(b, on))
  BY <1>3, <1>4 DEF Hooked, Follows
<1>6. SameMode(b, b)
  BY DEF SameMode
<1> QED
  BY <1>5, <1>6 DEF StripPointer

(* A command of a mode.                                                     *)
Turn(b, c) ==
  /\ c \in Boards /\ SameKeys(b, c)
  /\ c.count = b.count /\ c.locked = b.locked /\ c.oneshot = b.oneshot
  /\ LayersOK(b) => LayersOK(c)
  /\ Loss(b, c)

LEMMA TurnThrough ==
  ASSUME NEW b, NEW c, NEW d, Turn(b, c), Turn(c, d),
         c.modeLayers = b.modeLayers \/ d.modeLayers = c.modeLayers
  PROVE  Turn(b, d)
<1>1. Between(b, c, d)
  BY DEF Between, Turn, OwnedBy
<1>2. Loss(b, d)
  BY <1>1 DEF Loss, Turn, Between
<1> QED
  BY <1>2 DEF Turn, SameKeys

LEMMA SameTurns ==
  ASSUME NEW b, NEW c \in Boards, SameOwners(b, c), SameKeys(b, c), SameView(b, c)
  PROVE  Turn(b, c) /\ c.modeLayers = b.modeLayers
<1>1. \A l : OwnedBy(b, l) <=> OwnedBy(c, l)
  BY SameOwned
<1> QED
  BY <1>1 DEF Turn, SameOwners, SameView, LayersOK, Loss

LEMMA StillTurns ==
  ASSUME NEW b, NEW c, Still(b, c)
  PROVE  /\ Turn(b, c) /\ c.modeLayers = b.modeLayers /\ SameHolds(b, c) /\ ModeKept(b, c)
         /\ Keeps(b, c)
BY DEF Still, Turn, Shift, SameOwners

(* Mode m ends, no layer moves.                                              *)
Stops(b, m, locked, d) ==
  /\ Turn(b, d) /\ d.modeLayers = b.modeLayers /\ d.on = b.on
  /\ d.owners = b.owners /\ d.entered = b.entered /\ d.lockedMode = locked
  /\ d.active = IF b.active = m THEN None ELSE b.active
  /\ d.source = IF d.active = None THEN "none" ELSE b.source

LEMMA Deactivates ==
  ASSUME NEW b \in Boards, NEW m, NEW w \in BOOLEAN
  PROVE  Stops(b, m, b.lockedMode, Deactivate(b, m, w))
<1> PICK d : d = Deactivate(b, m, w)
  OBVIOUS
<1>1. Ends(b, m, d)
  BY ModeStops
<1>2. Turn(b, d) /\ d.modeLayers = b.modeLayers
  BY <1>1, SameTurns DEF Ends
<1> QED
  BY <1>1, <1>2 DEF Stops, Ends, SameHolds, SameView

LEMMA Unlocks ==
  ASSUME NEW b \in Boards, NEW m \in Modes
  PROVE  Stops(b, m, None, Unlock(b, m))
<1> PICK c : c = DetachToggle(b, m)
  OBVIOUS
<1>1. Mouses(b, c)
  BY MouseToggles
<1>2. c \in Boards
  BY <1>1 DEF Mouses
<1> PICK e : e = [c EXCEPT !.lockedMode = None]
  OBVIOUS
<1>3. /\ e \in Boards /\ SameOwners(c, e) /\ SameKeys(c, e) /\ SameView(c, e) /\ SameMode(c, e)
      /\ e.owners = c.owners /\ e.lockedMode = None
  BY <1>2 DEF Boards, SameOwners, SameKeys, SameView, SameMode
<1> PICK d : d = Deactivate(e, m, TRUE)
  OBVIOUS
<1>4. Ends(e, m, d)
  <2>1. Ends(e, m, Deactivate(e, m, TRUE))
    BY <1>3, ModeStops
  <2> QED
    BY <2>1, Zenon
<1>5. SameOwners(b, d) /\ SameKeys(b, d) /\ SameView(b, d) /\ d \in Boards
  BY <1>1, <1>3, <1>4 DEF Mouses, Ends, SameOwners, SameKeys, SameView
<1>6. Turn(b, d) /\ d.modeLayers = b.modeLayers
  BY <1>5, SameTurns
<1>7. /\ d.owners = b.owners /\ d.entered = b.entered /\ d.lockedMode = None /\ d.on = b.on
      /\ d.active = IF b.active = m THEN None ELSE b.active
      /\ d.source = IF d.active = None THEN "none" ELSE b.source
  BY <1>1, <1>3, <1>4 DEF Mouses, Ends, SameHolds, SameMode, SameView
<1>8. Unlock(b, m) = d
  BY Zenon DEF Unlock
<1> QED
  BY <1>6, <1>7, <1>8 DEF Stops

(* Every mode but m has ended.                                               *)
Left(b, m, d) ==
  /\ Turn(b, d) /\ d.modeLayers = b.modeLayers /\ d.on = b.on
  /\ d.owners = b.owners /\ d.entered = b.entered
  /\ d.lockedMode = IF b.lockedMode = m THEN m ELSE None
  /\ d.active = IF b.active = m THEN m ELSE None
  /\ d.active = m => d.source = b.source
  /\ b.active = m /\ b.lockedMode \in {None, m} => d = b

LEMMA OthersLeave ==
  ASSUME NEW b \in Boards, NEW m \in Modes
  PROVE  Left(b, m, LeaveOthers(b, m))
<1> PICK c : c = IF b.lockedMode \notin {None, m} THEN Unlock(b, b.lockedMode) ELSE b
  OBVIOUS
<1> PICK d : d = IF c.active \notin {None, m, c.lockedMode} THEN Deactivate(c, c.active, FALSE) ELSE c
  OBVIOUS
<1>0. LeaveOthers(b, m) = d
  BY Zenon DEF LeaveOthers
<1>1. m # None /\ b.lockedMode \in Modes \cup {None} /\ b.active \in Modes \cup {None}
  BY LayersAre DEF Boards
<1>2. Turn(b, b) /\ b \in Boards
  BY SameTurns DEF SameOwners, SameKeys, SameView
<1>3. /\ Turn(b, c) /\ c.modeLayers = b.modeLayers /\ c.on = b.on
      /\ c.owners = b.owners /\ c.entered = b.entered
      /\ c.lockedMode = IF b.lockedMode = m THEN m ELSE None
      /\ b.active = m => c.active = m /\ c.source = b.source
      /\ b.lockedMode \in {None, m} => c = b
  <2>1. CASE b.lockedMode \notin {None, m}
    <3>1. Stops(b, b.lockedMode, None, c)
      BY <1>1, <2>1, Unlocks
    <3> QED
      BY <1>1, <2>1, <3>1 DEF Stops
  <2>2. CASE b.lockedMode \in {None, m}
    <3>1. c = b
      BY <2>2
    <3> QED
      BY <1>1, <1>2, <2>2, <3>1
  <2> QED
    BY <2>1, <2>2
<1>4. c \in Boards
  BY <1>3 DEF Turn
<1>5. /\ Turn(c, d) /\ d.modeLayers = c.modeLayers /\ d.on = c.on
      /\ d.owners = c.owners /\ d.entered = c.entered /\ d.lockedMode = c.lockedMode
      /\ d.active = IF c.active = m THEN m ELSE None
      /\ c.active = m => d = c
  <2>1. CASE c.active \notin {None, m, c.lockedMode}
    <3>1. Stops(c, c.active, c.lockedMode, Deactivate(c, c.active, FALSE))
      BY <1>4, Deactivates
    <3>2. d = Deactivate(c, c.active, FALSE)
      BY <2>1, Zenon
    <3>3. Stops(c, c.active, c.lockedMode, d)
      BY <3>1, <3>2, Zenon
    <3> QED
      BY <2>1, <3>3 DEF Stops
  <2>2. CASE c.active \in {None, m, c.lockedMode}
    <3>1. d = c
      BY <2>2, Zenon
    <3>2. c.active \in {None, m}
      BY <1>3, <2>2
    <3>3. Turn(c, c)
      BY <1>4, SameTurns DEF SameOwners, SameKeys, SameView
    <3> QED
      BY <1>1, <3>1, <3>2, <3>3
  <2> QED
    BY <2>1, <2>2
<1>6. Turn(b, d)
  BY <1>3, <1>5, TurnThrough
<1>7. d.active = IF b.active = m THEN m ELSE None
  <2>1. b.active # m => c.active # m
    <3>1. CASE b.lockedMode \notin {None, m}
      <4>1. Stops(b, b.lockedMode, None, c)
        BY <1>1, <3>1, Unlocks
      <4> QED
        BY <1>1, <4>1 DEF Stops
    <3>2. CASE b.lockedMode \in {None, m}
      BY <1>3, <3>2
    <3> QED
      BY <3>1, <3>2
  <2> QED
    BY <1>3, <1>5, <2>1
<1>8. d.active = m => d.source = b.source
  BY <1>1, <1>3, <1>5, <1>7
<1>9. b.active = m /\ b.lockedMode \in {None, m} => d = b
  BY <1>3, <1>5
<1>10. Left(b, m, d)
  BY <1>3, <1>5, <1>6, <1>7, <1>8, <1>9 DEF Left
<1> QED
  BY <1>0, <1>10

(* A lit pointer stays lit while no layer moves.                            *)
LEMMA TurnLit ==
  ASSUME NEW b, NEW c, Turn(b, c), c.on = b.on, Lit(b) PROVE Lit(c)
<1>1. PointerOwned(c) => PointerOwned(b)
  BY DEF Turn, PointerOwned
<1> QED
  BY <1>1, SameLit

(* A key starts a mode, or takes over one that its layer runs.              *)
Stays(b, c) ==
  Turn(b, c) /\ c.modeLayers = b.modeLayers /\ SameHolds(b, c) /\ SameMode(b, c) /\ Keeps(b, c)

LEMMA AutoMouseStays ==
  ASSUME SetupOK, NEW b \in Boards, KeyRuns(b), NEW m, NEW wasAny
  PROVE  Stays(b, AutoMouseActivate(b, m, wasAny))
<1>1. Stays(b, StripPointer(b))
  <2>1. Still(b, StripPointer(b)) /\ SameMode(b, StripPointer(b))
    BY StripStill, StripKeepsMode
  <2> QED
    BY <2>1, StillTurns DEF Stays
<1>2. Stays(b, SyncLockAnchor(b, TRUE))
  <2>1. Mouses(b, SyncLockAnchor(b, TRUE))
    BY MouseLockAnchor
  <2> PICK c : c = SyncLockAnchor(b, TRUE)
    OBVIOUS
  <2>2. Mouses(b, c)
    BY <2>1, Zenon
  <2>3. Stays(b, c)
    BY <2>2, MouseStill, StillTurns DEF Stays, Mouses
  <2> QED
    BY <2>3, Zenon
<1>3. Stays(b, b)
  BY SameTurns DEF Stays, SameHolds, SameMode, SameOwners, SameKeys, SameView, Keeps
<1>4. \/ AutoMouseActivate(b, m, wasAny) = StripPointer(b)
      \/ AutoMouseActivate(b, m, wasAny) = SyncLockAnchor(b, TRUE)
      \/ AutoMouseActivate(b, m, wasAny) = b
  BY Zenon DEF AutoMouseActivate
<1> QED
  BY <1>1, <1>2, <1>3, <1>4, Zenon

Activated(b, m, c) ==
  /\ Turn(b, c) /\ c.modeLayers = b.modeLayers /\ SameHolds(b, c)
  /\ c.active = m /\ c.source = "key" /\ (Lit(b) => Shows(c))
  /\ c.entered = b.entered \cup (IF b.active = m THEN {} ELSE {m})

LEMMA KeyActivates ==
  ASSUME SetupOK, NEW b \in Boards, NEW m \in Modes
  PROVE  Activated(b, m, ActivateFromKey(b, m))
<1> PICK en \in SUBSET Modes : en = b.entered \cup (IF b.active = m THEN {} ELSE {m})
  BY DEF Boards
<1> PICK e : e = Entered(b, m)
  OBVIOUS
<1>1. /\ e \in Boards /\ SameOwners(b, e) /\ SameKeys(b, e) /\ SameHolds(b, e) /\ SameView(b, e)
      /\ e.active = m /\ e.entered = en
  <2>1. CASE b.active = m
    BY <2>1 DEF Entered, SameOwners, SameKeys, SameHolds, SameView
  <2>2. CASE b.active # m
    <3>1. e = [b EXCEPT !.active = m, !.entered = en]
      BY <2>2 DEF Entered
    <3> QED
      BY <3>1 DEF Boards, SameOwners, SameKeys, SameHolds, SameView
  <2> QED
    BY <2>1, <2>2
<1> PICK f : f = [e EXCEPT !.source = "key"]
  OBVIOUS
<1>2. /\ f \in Boards /\ SameOwners(e, f) /\ SameKeys(e, f) /\ SameHolds(e, f) /\ SameView(e, f)
      /\ f.active = m /\ f.entered = en /\ f.source = "key"
  BY <1>1 DEF Boards, SameOwners, SameKeys, SameHolds, SameView
<1>3. Turn(b, f) /\ f.modeLayers = b.modeLayers /\ SameHolds(b, f)
  <2>1. SameOwners(b, f) /\ SameKeys(b, f) /\ SameHolds(b, f) /\ SameView(b, f)
    BY <1>1, <1>2 DEF SameOwners, SameKeys, SameHolds, SameView
  <2> QED
    BY <1>2, <2>1, SameTurns
<1>4. KeyRuns(f)
  BY <1>2, LayersAre DEF KeyRuns
<1> PICK c : c = AutoMouseActivate(f, m, b.active # None)
  OBVIOUS
<1>5. Stays(f, c)
  <2>1. Stays(f, AutoMouseActivate(f, m, b.active # None))
    BY <1>2, <1>4, AutoMouseStays
  <2> QED
    BY <2>1, Zenon
<1>6. ActivateFromKey(b, m) = c
  BY Zenon DEF ActivateFromKey
<1>7. Turn(b, c)
  BY <1>3, <1>5, TurnThrough DEF Stays
<1>9. Lit(b) => Shows(c)
  <2>1. Lit(b) => Lit(f)
    BY <1>1, <1>2, <1>3, TurnLit DEF SameView
  <2> QED
    BY <1>5, <2>1 DEF Stays, Keeps, Shows
<1>8. Activated(b, m, c)
  BY <1>2, <1>3, <1>5, <1>7, <1>9 DEF Activated, Stays, SameHolds, SameMode
<1> QED
  BY <1>6, <1>8

Taken(b, m, c) ==
  /\ Turn(b, c) /\ c.modeLayers = TurnsOn(m) /\ SameHolds(b, c)
  /\ c.active = m /\ c.source = "key" /\ c.entered = b.entered
  /\ Lit(b) \/ (b.source = "key" /\ Shows(b)) => Shows(c)

LEMMA TurnsOnLayers ==
  ASSUME SetupOK, NEW m \in Modes PROVE TurnsOn(m) \subseteq Layers
BY DEF SetupOK, TurnsOn

LEMMA ModeLayersTurn ==
  ASSUME SetupOK, NEW b \in Boards, NEW ls, ls \subseteq Layers
  PROVE  /\ Turn(b, SetModeLayers(b, ls)) /\ SameHolds(b, SetModeLayers(b, ls))
         /\ ModeKept(b, SetModeLayers(b, ls)) /\ SetModeLayers(b, ls).modeLayers = ls
         /\ Keeps(b, SetModeLayers(b, ls))
<1> PICK c : c = SetModeLayers(b, ls)
  OBVIOUS
<1>1. SetMoves(b, c) /\ c.modeLayers = ls /\ c.oneshot = b.oneshot
  BY ModeLayersShift
<1> QED
  BY <1>1 DEF SetMoves, Shift, Turn

LEMMA KeyTakesOver ==
  ASSUME SetupOK, NEW b \in Boards, NEW before, NEW m \in Modes, b.active = m
  PROVE  Taken(b, m, KeyTakes(b, before, m))
<1> PICK c : c = [b EXCEPT !.source = "key"]
  OBVIOUS
<1>1. /\ c \in Boards /\ SameOwners(b, c) /\ SameKeys(b, c) /\ SameHolds(b, c) /\ SameView(b, c)
      /\ c.active = m /\ c.entered = b.entered /\ c.source = "key"
  BY DEF Boards, SameOwners, SameKeys, SameHolds, SameView
<1>2. KeyRuns(c)
  BY <1>1, LayersAre DEF KeyRuns
<1>3. Turn(b, c) /\ c.modeLayers = b.modeLayers
  BY <1>1, SameTurns
<1> PICK d : d = IF before.source = "layer" /\ before.active = m THEN AutoMouseActivate(c, m, FALSE) ELSE c
  OBVIOUS
<1>4. Stays(c, d)
  <2>1. Stays(c, AutoMouseActivate(c, m, FALSE))
    BY <1>1, <1>2, AutoMouseStays, Zenon
  <2>2. Stays(c, c)
    BY <1>1, SameTurns DEF Stays, SameHolds, SameMode, SameOwners, SameKeys, SameView, Keeps
  <2> QED
    BY <2>1, <2>2, Zenon
<1> PICK ls : ls = TurnsOn(m)
  OBVIOUS
<1> PICK e : e = SetModeLayers(d, ls)
  OBVIOUS
<1>5. KeyTakes(b, before, m) = e
  BY Zenon DEF KeyTakes
<1>6. Turn(d, e) /\ SameHolds(d, e) /\ ModeKept(d, e) /\ e.modeLayers = ls /\ Keeps(d, e)
  <2>1. ls \subseteq Layers
    BY TurnsOnLayers
  <2>2. d \in Boards
    BY <1>4 DEF Stays, Turn
  <2> QED
    BY <2>1, <2>2, ModeLayersTurn
<1>7. Turn(b, d)
  BY <1>3, <1>4, TurnThrough DEF Stays
<1>8. Turn(b, e)
  BY <1>3, <1>4, <1>6, <1>7, TurnThrough DEF Stays
<1>9. KeyRuns(d)
  BY <1>2, <1>4 DEF Stays, SameMode, KeyRuns
<1>11. Lit(b) \/ (b.source = "key" /\ Shows(b)) => Shows(e)
  <2>1. PointerOwned(c) => PointerOwned(b)
    BY <1>1 DEF SameOwners, PointerOwned
  <2>2. /\ Lit(b) => Lit(c)
        /\ b.source = "key" => Keeps(b, c)
    BY <1>1, <2>1, SameLit DEF SameView
  <2>3. Shows(c) => Shows(e)
    BY <1>4, <1>6 DEF Stays, Keeps
  <2> QED
    BY <2>2, <2>3 DEF Keeps, Shows
<1>10. Taken(b, m, e)
  BY <1>1, <1>4, <1>6, <1>8, <1>9, <1>11 DEF Taken, Stays, SameHolds, SameMode, ModeKept
<1> QED
  BY <1>5, <1>10

(* Key x runs its mode, as one of its owners unless the mode is locked.      *)
Pressed(b, x, c) ==
  /\ Turn(b, c) /\ c.modeLayers = TurnsOn(KeyMode[x]) /\ (Lit(b) => Shows(c))
  /\ c.active = KeyMode[x] /\ c.source = "key"
  /\ c.entered = b.entered \cup (IF b.active = KeyMode[x] THEN {} ELSE {KeyMode[x]})
  /\ c.lockedMode = IF b.lockedMode = KeyMode[x] THEN KeyMode[x] ELSE None
  /\ c.owners \subseteq b.owners \cup {x}
  /\ b.lockedMode = KeyMode[x] => c.owners = b.owners
  /\ b.lockedMode # KeyMode[x] => x \in c.owners
  /\ b.lockedMode # KeyMode[x] /\ b.active # KeyMode[x] => c.owners = {x}

LEMMA KeyPresses ==
  ASSUME SetupOK, NEW b \in Boards, NEW x \in ModeKeys
  PROVE  Pressed(b, x, KeyPress(b, x))
<1> PICK m \in Modes : m = KeyMode[x]
  BY LayersAssumption
<1>1. m # None
  BY LayersAre
<1> PICK left : left = LeaveOthers(b, m)
  OBVIOUS
<1>2. Left(b, m, left) /\ left \in Boards
  BY OthersLeave DEF Left, Turn
<1> PICK r : r = Running(left, m)
  OBVIOUS
<1>3. /\ Turn(left, r) /\ r.modeLayers = left.modeLayers /\ SameHolds(left, r) /\ r.active = m
      /\ r.entered = left.entered \cup (IF left.active = m THEN {} ELSE {m})
      /\ Lit(left) => Lit(r) \/ (r.source = "key" /\ Shows(r))
  <2>1. CASE left.active = m
    <3>1. r = left
      BY <2>1 DEF Running
    <3>2. Turn(left, left)
      BY <1>2, SameTurns DEF SameOwners, SameKeys, SameView
    <3> QED
      BY <2>1, <3>1, <3>2 DEF SameHolds
  <2>2. CASE left.active # m
    <3>1. r = ActivateFromKey(left, m)
      BY <2>2 DEF Running
    <3>2. Activated(left, m, r)
      BY <1>2, <3>1, KeyActivates
    <3> QED
      BY <3>2 DEF Activated
  <2> QED
    BY <2>1, <2>2
<1> PICK owners : owners = JoinOwners(b, left, x)
  OBVIOUS
<1>4. /\ owners \subseteq b.owners \cup {x} /\ x \in owners
      /\ b.active # m => owners = {x}
  BY DEF JoinOwners
<1>5. owners \in SUBSET ModeKeys
  BY <1>4 DEF Boards
<1> PICK w : w = Owning(r, m, owners)
  OBVIOUS
<1>6. r \in Boards /\ r.lockedMode = left.lockedMode /\ r.owners = left.owners
  BY <1>3 DEF Turn, SameHolds
<1>7. /\ w \in Boards /\ SameOwners(r, w) /\ SameKeys(r, w) /\ SameView(r, w) /\ SameMode(r, w)
      /\ w.lockedMode = r.lockedMode /\ w.owners = IF r.lockedMode = m THEN r.owners ELSE owners
  <2>1. CASE r.lockedMode = m
    BY <1>6, <2>1 DEF Owning, SameOwners, SameKeys, SameView, SameMode
  <2>2. CASE r.lockedMode # m
    <3>1. w = [r EXCEPT !.owners = owners]
      BY <2>2 DEF Owning
    <3>2. w \in Boards /\ w.owners = owners
      BY <1>5, <1>6, <3>1 DEF Boards
    <3>3. SameOwners(r, w) /\ SameKeys(r, w) /\ SameView(r, w) /\ SameMode(r, w) /\ w.lockedMode = r.lockedMode
      BY <1>6, <3>1 DEF Boards, SameOwners, SameKeys, SameView, SameMode
    <3> QED
      BY <2>2, <3>2, <3>3
  <2> QED
    BY <2>1, <2>2
<1>8. Turn(r, w) /\ w.modeLayers = r.modeLayers
  BY <1>7, SameTurns
<1> PICK c : c = KeyTakes(w, b, m)
  OBVIOUS
<1>9. Taken(w, m, c)
  BY <1>3, <1>7, KeyTakesOver DEF SameMode
<1>10. KeyPress(b, x) = c
  BY Zenon DEF KeyPress, TakeKey
<1>11. Turn(b, r)
  BY <1>2, <1>3, TurnThrough DEF Left
<1>12. Turn(b, w)
  BY <1>8, <1>11, TurnThrough
<1>13. w.modeLayers = b.modeLayers
  BY <1>2, <1>3, <1>8 DEF Left
<1>14. Turn(b, c)
  BY <1>9, <1>12, <1>13, TurnThrough DEF Taken
<1>15. left.active = m <=> b.active = m
  BY <1>1, <1>2 DEF Left
<1>16. w.entered = b.entered \cup (IF b.active = m THEN {} ELSE {m})
  BY <1>2, <1>3, <1>7, <1>15 DEF Left, SameMode
<1>17. r.lockedMode = m <=> b.lockedMode = m
  BY <1>1, <1>2, <1>6 DEF Left
<1>19. Lit(b) => Shows(c)
  <2>1. Lit(b) => Lit(left)
    BY <1>2, TurnLit DEF Left
  <2>2. Lit(r) => Lit(w)
    BY <1>7, <1>8, TurnLit DEF SameView
  <2>3. PointerOwned(w) => PointerOwned(r)
    BY <1>7 DEF SameOwners, PointerOwned
  <2>4. Keeps(r, w)
    BY <1>7, <2>3, SameLit DEF SameView, SameMode
  <2> QED
    BY <1>3, <1>7, <1>9, <2>1, <2>2, <2>4 DEF Taken, Keeps, SameMode
<1>18. Pressed(b, x, c)
  <2>1. c.entered = b.entered \cup (IF b.active = m THEN {} ELSE {m})
    BY <1>9, <1>16 DEF Taken
  <2>2. c.lockedMode = IF b.lockedMode = m THEN m ELSE None
    BY <1>2, <1>6, <1>7, <1>9 DEF Left, Taken, SameHolds
  <2>3. c.owners = IF b.lockedMode = m THEN b.owners ELSE owners
    BY <1>2, <1>6, <1>7, <1>9, <1>17 DEF Left, Taken, SameHolds
  <2> QED
    BY <1>4, <1>9, <1>14, <1>19, <2>1, <2>2, <2>3 DEF Pressed, Taken
<1> QED
  BY <1>10, <1>18

(* Mode m runs by its lock, and no key owns it.                              *)
LockedOn(b, m, c) ==
  /\ Turn(b, c) /\ c.modeLayers = TurnsOn(m) /\ (Lit(b) => Shows(c))
  /\ c.active = m /\ c.source = "key" /\ c.lockedMode = m /\ c.owners = {}
  /\ c.entered = b.entered \cup (IF b.active = m THEN {} ELSE {m})

LEMMA ModeLocks ==
  ASSUME SetupOK, NEW b \in Boards, NEW m \in Modes
  PROVE  LockedOn(b, m, LockMode(b, m))
<1>1. m # None
  BY LayersAre
<1> PICK left : left = LeaveOthers(b, m)
  OBVIOUS
<1>2. Left(b, m, left) /\ left \in Boards
  BY OthersLeave DEF Left, Turn
<1> PICK p : p = [left EXCEPT !.lockedMode = m]
  OBVIOUS
<1>3. /\ p \in Boards /\ SameOwners(left, p) /\ SameKeys(left, p) /\ SameView(left, p) /\ SameMode(left, p)
      /\ p.lockedMode = m
  BY <1>2 DEF Boards, SameOwners, SameKeys, SameView, SameMode
<1>4. Turn(left, p) /\ p.modeLayers = left.modeLayers
  BY <1>3, SameTurns
<1> PICK r : r = ActivateFromKey(p, m)
  OBVIOUS
<1>5. Activated(p, m, r) /\ r \in Boards
  <2>1. Activated(p, m, r)
    BY <1>3, KeyActivates
  <2> QED
    BY <2>1 DEF Activated, Turn
<1> PICK w : w = [r EXCEPT !.owners = {}]
  OBVIOUS
<1>6. /\ w \in Boards /\ SameOwners(r, w) /\ SameKeys(r, w) /\ SameView(r, w) /\ SameMode(r, w)
      /\ w.lockedMode = r.lockedMode /\ w.owners = {}
  BY <1>5 DEF Boards, SameOwners, SameKeys, SameView, SameMode
<1> PICK v : v = AttachToggle(w, m)
  OBVIOUS
<1>7. Mouses(w, v)
  BY <1>6, MouseToggles
<1>8. Turn(r, v) /\ v.modeLayers = r.modeLayers
  <2>1. SameOwners(r, v) /\ SameKeys(r, v) /\ SameView(r, v) /\ v \in Boards
    BY <1>6, <1>7 DEF Mouses, SameOwners, SameKeys, SameView
  <2> QED
    BY <2>1, SameTurns
<1> PICK c : c = KeyTakes(v, b, m)
  OBVIOUS
<1>9. v \in Boards /\ v.active = m /\ v.lockedMode = m /\ v.owners = {} /\ v.entered = r.entered
  BY <1>3, <1>5, <1>6, <1>7 DEF Mouses, Activated, SameMode, SameHolds
<1>10. Taken(v, m, c)
  BY <1>9, KeyTakesOver
<1>11. LockMode(b, m) = c
  BY Zenon DEF LockMode
<1>12. Turn(b, p)
  BY <1>2, <1>4, TurnThrough DEF Left
<1>13. Turn(b, r)
  BY <1>5, <1>12, TurnThrough DEF Activated
<1>14. Turn(b, v)
  BY <1>8, <1>13, TurnThrough
<1>15. v.modeLayers = b.modeLayers
  BY <1>2, <1>4, <1>5, <1>8 DEF Left, Activated
<1>16. Turn(b, c)
  BY <1>10, <1>14, <1>15, TurnThrough DEF Taken
<1>17. p.active = m <=> b.active = m
  BY <1>1, <1>2, <1>3 DEF Left, SameMode
<1>18. r.entered = b.entered \cup (IF b.active = m THEN {} ELSE {m})
  BY <1>2, <1>3, <1>5, <1>17 DEF Left, SameMode, Activated
<1>20. Lit(b) => Shows(c)
  <2>1. Lit(b) => Lit(p)
    BY <1>2, <1>3, <1>4, TurnLit DEF Left, SameView
  <2>2. PointerOwned(v) => PointerOwned(r)
    BY <1>6, <1>7 DEF Mouses, SameOwners, PointerOwned
  <2>3. v.on = r.on /\ v.active = r.active /\ v.source = r.source
    BY <1>6, <1>7 DEF Mouses, SameView, SameMode
  <2>4. Keeps(r, v)
    BY <2>2, <2>3, SameLit
  <2> QED
    BY <1>5, <1>10, <2>1, <2>3, <2>4 DEF Activated, Taken, Keeps
<1>19. LockedOn(b, m, c)
  BY <1>9, <1>10, <1>16, <1>18, <1>20 DEF LockedOn, Taken, SameHolds
<1> QED
  BY <1>11, <1>19

(* Its key's layers go, and the links decide what runs.                     *)
GaveBack(b, m, d) ==
  /\ Turn(b, d) /\ d.modeLayers = {} /\ d.owners = b.owners /\ d.lockedMode = None
  /\ ~KeyRuns(d) /\ Follows(d)
  /\ d.active = m => d.entered = b.entered
  /\ Lit(b) => Dark(b) \/ Shows(d)

(* The key gives the mode up before any layer moves.                         *)
Handed(c, d) ==
  /\ Turn(c, d) /\ d.modeLayers = c.modeLayers /\ d.on = c.on
  /\ d.owners = c.owners /\ d.lockedMode = None

LEMMA HandedStrips ==
  ASSUME SetupOK, NEW c, NEW d, Handed(c, d), Follows(d), ~KeyRuns(d)
  PROVE  /\ Turn(c, StripPointer(d)) /\ StripPointer(d).modeLayers = c.modeLayers
         /\ StripPointer(d).owners = c.owners /\ StripPointer(d).lockedMode = None
         /\ Follows(StripPointer(d)) /\ ~KeyRuns(StripPointer(d))
         /\ StripPointer(d).active = d.active /\ StripPointer(d).entered = d.entered
         /\ Keeps(d, StripPointer(d))
<1>1. d \in Boards
  BY DEF Handed, Turn
<1> PICK e : e = StripPointer(d)
  OBVIOUS
<1>2. Still(d, e) /\ SameMode(d, e)
  BY <1>1, StripStill, StripKeepsMode
<1>3. Turn(d, e) /\ e.modeLayers = d.modeLayers /\ SameHolds(d, e) /\ ModeKept(d, e)
  BY <1>2, StillTurns
<1>4. Turn(c, e)
  BY <1>3, TurnThrough DEF Handed
<1>5. Keeps(d, e)
  BY <1>2, StillTurns
<1> QED
  BY <1>2, <1>3, <1>4, <1>5 DEF Handed, SameHolds, SameMode, ModeKept

LEMMA KeyLets ==
  ASSUME NEW c \in Boards, NEW m \in Modes, c.lockedMode \in {None, m}, c.active = m
  PROVE  /\ Handed(c, KeyEnds(c, m)) /\ KeyEnds(c, m).entered = c.entered
         /\ KeyEnds(c, m).active = None
<1>1. CASE c.lockedMode = m
  <2> PICK d : d = Unlock(c, m)
    OBVIOUS
  <2>1. Stops(c, m, None, d)
    BY Unlocks
  <2>2. KeyEnds(c, m) = d
    BY <1>1 DEF KeyEnds
  <2> QED
    BY <2>1, <2>2 DEF Stops, Handed
<1>2. CASE c.lockedMode # m
  <2> PICK d : d = Deactivate(c, m, FALSE)
    OBVIOUS
  <2>1. Stops(c, m, c.lockedMode, d)
    <3>1. Stops(c, m, c.lockedMode, Deactivate(c, m, FALSE))
      BY Deactivates
    <3> QED
      BY <3>1, Zenon
  <2>2. KeyEnds(c, m) = d
    BY <1>2, Zenon DEF KeyEnds
  <2> QED
    BY <1>2, <2>1, <2>2 DEF Stops, Handed
<1> QED
  BY <1>1, <1>2

LEMMA LayersRunIt ==
  ASSUME NEW d \in Boards, NEW e, e = [d EXCEPT !.source = "layer"]
  PROVE  /\ e \in Boards /\ SameOwners(d, e) /\ SameKeys(d, e) /\ SameView(d, e)
         /\ e.lockedMode = d.lockedMode /\ e.owners = d.owners /\ e.active = d.active
         /\ e.entered = d.entered /\ e.source = "layer"
BY DEF Boards, SameOwners, SameKeys, SameView

LEMMA LayersHand ==
  ASSUME NEW c \in Boards, NEW m \in Modes, c.lockedMode \in {None, m}, c.active = m
  PROVE  /\ Handed(c, HandToLayer(c, m)) /\ HandToLayer(c, m).entered = c.entered
         /\ HandToLayer(c, m).active = m /\ ~KeyRuns(HandToLayer(c, m))
         /\ Dark(HandToLayer(c, m))
<1> PICK t : t = DetachToggle(c, m)
  OBVIOUS
<1>1. Mouses(c, t) /\ t \in Boards
  BY MouseToggles DEF Mouses
<1> PICK u : u = [t EXCEPT !.lockedMode = None]
  OBVIOUS
<1>2. /\ u \in Boards /\ SameOwners(t, u) /\ SameKeys(t, u) /\ SameView(t, u) /\ SameMode(t, u)
      /\ u.lockedMode = None /\ u.owners = t.owners
  BY <1>1 DEF Boards, SameOwners, SameKeys, SameView, SameMode
<1> PICK v : v = SyncLockAnchor(u, FALSE)
  OBVIOUS
<1>3. Mouses(u, v)
  <2>1. Mouses(u, SyncLockAnchor(u, FALSE))
    BY <1>2, MouseLockAnchor
  <2> QED
    BY <2>1, Zenon
<1> PICK d : d = IF c.lockedMode = m THEN IF UsesLockAnchor(m, TRUE) THEN v ELSE u ELSE c
  OBVIOUS
<1>4. /\ d \in Boards /\ SameOwners(c, d) /\ SameKeys(c, d) /\ SameView(c, d) /\ SameMode(c, d)
      /\ d.lockedMode = None /\ d.owners = c.owners
  <2>1. CASE c.lockedMode = m
    <3>1. d = u \/ d = v
      BY <2>1
    <3> QED
      BY <1>1, <1>2, <1>3, <3>1 DEF Mouses, SameOwners, SameKeys, SameView, SameMode, SameHolds
  <2>2. CASE c.lockedMode # m
    <3>1. d = c
      BY <2>2
    <3> QED
      BY <2>2, <3>1 DEF SameOwners, SameKeys, SameView, SameMode
  <2> QED
    BY <2>1, <2>2
<1> PICK e : e = [d EXCEPT !.source = "layer"]
  OBVIOUS
<1>5. /\ e \in Boards /\ SameOwners(d, e) /\ SameKeys(d, e) /\ SameView(d, e)
      /\ e.lockedMode = d.lockedMode /\ e.owners = d.owners /\ e.active = d.active
      /\ e.entered = d.entered /\ e.source = "layer"
  BY <1>4, LayersRunIt
<1>6. HandToLayer(c, m) = e
  BY Zenon DEF HandToLayer
<1>7. SameOwners(c, e) /\ SameKeys(c, e) /\ SameView(c, e)
  BY <1>4, <1>5 DEF SameOwners, SameKeys, SameView
<1>8. Turn(c, e) /\ e.modeLayers = c.modeLayers
  BY <1>5, <1>7, SameTurns
<1>9. Handed(c, e)
  BY <1>4, <1>5, <1>7, <1>8 DEF Handed, SameView
<1>10. e.active = m /\ e.entered = c.entered
  BY <1>4, <1>5 DEF SameMode
<1>11. Dark(e)
  BY <1>5, <1>10, LayersAre DEF Dark, PointerStripped
<1> QED
  BY <1>5, <1>6, <1>9, <1>10, <1>11 DEF KeyRuns

LEMMA LayerStarts ==
  ASSUME NEW d \in Boards, NEW next \in Modes, d.active = None
  PROVE  /\ Turn(d, StartLayerMode(d, next)) /\ StartLayerMode(d, next).modeLayers = d.modeLayers
         /\ StartLayerMode(d, next).on = d.on /\ SameHolds(d, StartLayerMode(d, next))
         /\ StartLayerMode(d, next).active = next /\ ~KeyRuns(StartLayerMode(d, next))
         /\ Dark(StartLayerMode(d, next))
<1>1. next # None
  BY LayersAre
<1> PICK en \in SUBSET Modes : en = d.entered \cup {next}
  BY DEF Boards
<1> PICK e : e = Entered(d, next)
  OBVIOUS
<1>2. e = [d EXCEPT !.active = next, !.entered = en]
  BY <1>1 DEF Entered
<1>3. /\ e \in Boards /\ SameOwners(d, e) /\ SameKeys(d, e) /\ SameHolds(d, e) /\ SameView(d, e)
      /\ e.active = next
  BY <1>2 DEF Boards, SameOwners, SameKeys, SameHolds, SameView
<1> PICK f : f = [e EXCEPT !.source = "layer"]
  OBVIOUS
<1>4. /\ f \in Boards /\ SameOwners(e, f) /\ SameKeys(e, f) /\ SameHolds(e, f) /\ SameView(e, f)
      /\ f.active = next /\ f.source = "layer"
  BY <1>3 DEF Boards, SameOwners, SameKeys, SameHolds, SameView
<1>5. StartLayerMode(d, next) = f
  BY Zenon DEF StartLayerMode
<1>6. SameOwners(d, f) /\ SameKeys(d, f) /\ SameHolds(d, f) /\ SameView(d, f)
  BY <1>3, <1>4 DEF SameOwners, SameKeys, SameHolds, SameView
<1>7. Turn(d, f) /\ f.modeLayers = d.modeLayers
  BY <1>4, <1>6, SameTurns
<1>8. Dark(f)
  BY <1>1, <1>4 DEF Dark, PointerStripped
<1> QED
  BY <1>4, <1>5, <1>6, <1>7, <1>8 DEF SameView, KeyRuns

LEMMA LinksTakeOver ==
  ASSUME SetupOK, NEW b \in Boards, NEW m \in Modes, KeyRuns(b), b.active = m, b.lockedMode \in {None, m}
  PROVE  GaveBack(b, m, EndKeySource(b, m))
<1>0. m # None
  BY LayersAre
<1> PICK c : c = SetModeLayers(b, {})
  OBVIOUS
<1>1. Turn(b, c) /\ SameHolds(b, c) /\ ModeKept(b, c) /\ c.modeLayers = {} /\ Keeps(b, c)
  BY ModeLayersTurn
<1>2. c \in Boards /\ c.active = m /\ c.entered = b.entered /\ c.lockedMode \in {None, m} /\ c.owners = b.owners
  BY <1>1 DEF Turn, SameHolds, ModeKept, SameMode
<1> PICK next \in Modes \cup {None} : next = LayerStartedMode(c.on)
  BY <1>2, StartedType DEF Boards
<1> PICK k : k = KeyEnds(c, m)
  OBVIOUS
<1>3. Handed(c, k) /\ k.entered = c.entered /\ k.active = None
  BY <1>2, KeyLets
<1> PICK h : h = HandToLayer(c, m)
  OBVIOUS
<1>4. Handed(c, h) /\ h.entered = c.entered /\ h.active = m /\ ~KeyRuns(h) /\ Dark(h)
  BY <1>2, LayersHand
<1>5. EndKeySource(b, m) = HandOver(c, m, next)
  BY Zenon DEF EndKeySource, LinksDecide
<1>6. CASE next = None
  <2>1. HandOver(c, m, next) = k
    BY <1>6 DEF HandOver
  <2>2. Turn(b, k)
    BY <1>1, <1>3, TurnThrough DEF Handed
  <2>4. Lit(b) => Dark(b) \/ Shows(k)
    <3>1. Lit(c) => Lit(k)
      BY <1>3, TurnLit DEF Handed
    <3>2. SameMode(b, c)
      BY <1>1 DEF ModeKept
    <3>3. Dark(c) => Dark(b) \/ Dark(k)
      BY <1>3, <3>2 DEF Dark, PointerStripped, KeyRuns, SameMode, Handed
    <3> QED
      BY <1>1, <3>1, <3>3 DEF Keeps, Shows
  <2>3. GaveBack(b, m, k)
    BY <1>0, <1>1, <1>2, <1>3, <1>6, <2>2, <2>4 DEF GaveBack, Handed, KeyRuns, Follows
  <2> QED
    BY <1>5, <2>1, <2>3
<1>7. CASE next = m
  <2> PICK e : e = StripPointer(h)
    OBVIOUS
  <2>1. HandOver(c, m, next) = e
    BY <1>0, <1>7 DEF HandOver
  <2>2. Follows(h)
    BY <1>4, <1>7 DEF Follows, Handed
  <2>3. /\ Turn(c, e) /\ e.modeLayers = c.modeLayers /\ e.owners = c.owners /\ e.lockedMode = None
        /\ Follows(e) /\ ~KeyRuns(e) /\ e.active = h.active /\ e.entered = h.entered /\ Keeps(h, e)
    BY <1>4, <2>2, HandedStrips
  <2>4. Turn(b, e)
    BY <1>1, <2>3, TurnThrough
  <2>5. GaveBack(b, m, e)
    BY <1>1, <1>2, <1>4, <2>3, <2>4 DEF GaveBack, Keeps, Shows
  <2> QED
    BY <1>5, <2>1, <2>5
<1>8. CASE next \notin {None, m}
  <2> PICK s : s = StartLayerMode(k, next)
    OBVIOUS
  <2>1. k \in Boards /\ next \in Modes
    BY <1>3, <1>8 DEF Handed, Turn
  <2>2. /\ Turn(k, s) /\ s.modeLayers = k.modeLayers /\ s.on = k.on /\ SameHolds(k, s)
        /\ s.active = next /\ ~KeyRuns(s) /\ Dark(s)
    BY <1>3, <2>1, LayerStarts
  <2> PICK e : e = StripPointer(s)
    OBVIOUS
  <2>3. HandOver(c, m, next) = e
    BY <1>8, Zenon DEF HandOver
  <2>4. Turn(c, s)
    BY <1>3, <2>2, TurnThrough DEF Handed
  <2>5. Handed(c, s) /\ Follows(s)
    BY <1>3, <2>2, <2>4 DEF Handed, Follows, SameHolds
  <2>6. /\ Turn(c, e) /\ e.modeLayers = c.modeLayers /\ e.owners = c.owners /\ e.lockedMode = None
        /\ Follows(e) /\ ~KeyRuns(e) /\ e.active = s.active /\ Keeps(s, e)
    BY <2>2, <2>5, HandedStrips
  <2>7. Turn(b, e)
    BY <1>1, <2>6, TurnThrough
  <2>8. GaveBack(b, m, e)
    BY <1>1, <1>2, <1>8, <2>2, <2>6, <2>7 DEF GaveBack, Keeps, Shows
  <2> QED
    BY <1>5, <2>3, <2>8
<1> QED
  BY <1>6, <1>7, <1>8

(* Another key's hold is preempted once the mode runs: nothing more ends.   *)
Preempting(b, order, g, n) ==
  g = [i \in 0 .. n |-> IF i = 0 THEN b ELSE KeyRelease(g[i - 1], order[i])]

LEMMA OrderIsOf ==
  ASSUME NEW S, IsFiniteSet(S)
  PROVE  Len(SetToSeq(S)) \in Nat /\ \A i \in 1 .. Len(SetToSeq(S)) : SetToSeq(S)[i] \in S
<1>1. Cardinality(S) \in Nat
  BY FS_CardinalityType
<1>2. PICK f : f \in [1 .. Cardinality(S) -> S] /\ IsInjective(f)
  <2>1. PICK n \in Nat : ExistsBijection(1 .. n, S)
    BY FS_NatBijection
  <2> QED
    <3>1. Cardinality(S) = n
      BY <2>1, FS_CountingElements
    <3> QED
      BY <2>1, <3>1 DEF ExistsBijection, Bijection, Injection, IsInjective
<1>3. SetToSeq(S) \in [1 .. Cardinality(S) -> S]
  BY <1>2 DEF SetToSeq
<1> QED
  BY <1>1, <1>3

LEMMA NothingPreempted ==
  ASSUME NEW b, NEW others, others \subseteq ModeKeys, \A x \in others : KeyMode[x] # b.active
  PROVE  Preempt(b, others) = b
<1> PICK order : order = SetToSeq(others)
  OBVIOUS
<1>1. Len(order) \in Nat /\ \A i \in 1 .. Len(order) : order[i] \in others
  BY LayersAssumption, FS_Subset, OrderIsOf
<1>2. ASSUME NEW i \in 1 .. Len(order) PROVE KeyRelease(b, order[i]) = b
  <2>1. b.active # KeyMode[order[i]]
    BY <1>1
  <2> QED
    BY <2>1, Zenon DEF KeyRelease
<1> DEFINE h == [i \in 0 .. Len(order) |-> b]
<1>3. Preempting(b, order, h, Len(order))
  BY <1>1, <1>2 DEF Preempting
<1> DEFINE g == CHOOSE f : Preempting(b, order, f, Len(order))
<1>4. Preempting(b, order, g, Len(order))
  <2> HIDE DEF h
  <2> QED
    BY <1>3, Zenon
<1> HIDE DEF g
<1>5. /\ \A i \in 0 .. Len(order) : g[i] = IF i = 0 THEN b ELSE KeyRelease(g[i - 1], order[i])
  BY <1>4 DEF Preempting
<1> DEFINE T == {i \in 0 .. Len(order) : g[i] = b}
<1>6. 0 \in T
  BY <1>1, <1>5
<1>7. ASSUME NEW i \in 1 .. Len(order), i - 1 \in T PROVE i \in T
  BY <1>1, <1>2, <1>5, <1>7
<1>8. Len(order) \in T
  <2> HIDE DEF T
  <2> QED
    BY <1>1, <1>6, <1>7, Upto
<1>9. g[Len(order)] = b
  BY <1>8
<1>10. Preempt(b, others) = g[Len(order)]
  BY Zenon DEF Preempt, g, Preempting
<1> QED
  BY <1>9, <1>10

------------------------------------------------------------------------------
(* One source decides the mode: a lock, keys of it that are held (h), or the *)
(* links.                                                                    *)
ModeOK(b, h) ==
  /\ ~KeyRuns(b) => Follows(b) /\ b.owners = {}
  /\ b.modeLayers = IF KeyRuns(b) THEN TurnsOn(b.active) ELSE {}
  /\ b.owners \subseteq {x \in h : KeyMode[x] = b.active}
  /\ KeyRuns(b) => b.lockedMode = b.active \/ b.owners # {}
  /\ b.lockedMode # None => KeyRuns(b) /\ b.active = b.lockedMode /\ b.owners = {}

(* The types; between steps nothing is remembered of a step.                 *)
TInv ==
  /\ setup \in Setups /\ board \in Boards /\ board.steady = {} /\ board.entered = {}
  /\ held \subseteq ModeKeys /\ glitch = {}

(* The inductive invariant.                                                  *)
IInv == TInv /\ LayersOK(board) /\ CountsOK(board) /\ ModeOK(board, held)

LEMMA SetupIsOK == ASSUME TInv PROVE SetupOK
BY SetsAssumption DEF TInv, SetupOK

LEMMA ModeOKNext ==
  ASSUME UNCHANGED setup, NEW b, NEW h, board' = b, held' = h, ModeOK(b, h)
  PROVE  ModeOK(board, held)'
<1> PICK on : on = b.on
  OBVIOUS
<1>1. LayerStartedMode(on)' = LayerStartedMode(on)
  BY StartedNext
<1>2. Follows(board)' <=> Follows(b)
  BY <1>1 DEF Follows
<1>3. KeyRuns(board)' <=> KeyRuns(b)
  BY DEF KeyRuns
<1>4. TurnsOn(board.active)' = TurnsOn(b.active)
  BY DEF TurnsOn
<1> QED
  BY <1>2, <1>3, <1>4 DEF ModeOK

(* Where a step starts, and what is left of it.                             *)
LEMMA StartIs ==
  ASSUME TInv
  PROVE  /\ Start \in Boards /\ SameOwners(board, Start) /\ SameKeys(board, Start)
         /\ SameHolds(board, Start) /\ SameMode(board, Start)
         /\ Start.on = board.on /\ Start.steady = board.on /\ Start.entered = {}
<1> PICK b \in Boards : b = board
  BY DEF TInv
<1> PICK on \in SUBSET Layers : on = b.on
  BY DEF Boards
<1>1. Start = [b EXCEPT !.steady = on]
  BY DEF Start
<1>2. [b EXCEPT !.steady = on] \in Boards
  BY DEF Boards
<1>3. b.entered = {}
  BY DEF TInv
<1> QED
  BY <1>1, <1>2, <1>3 DEF Boards, SameOwners, SameKeys, SameHolds, SameMode

Done(b) == [b EXCEPT !.steady = {}, !.entered = {}]

LEMMA DoneIs ==
  ASSUME NEW b \in Boards
  PROVE  /\ Done(b) \in Boards /\ SameOwners(b, Done(b)) /\ SameKeys(b, Done(b))
         /\ SameHolds(b, Done(b)) /\ Done(b).active = b.active /\ Done(b).source = b.source
         /\ Done(b).on = b.on /\ Done(b).steady = {} /\ Done(b).entered = {}
BY DEF Done, Boards, SameOwners, SameKeys, SameHolds

LEMMA SameModeOK ==
  ASSUME NEW b, NEW c, NEW h, SameHolds(b, c), c.modeLayers = b.modeLayers, c.active = b.active,
         c.source = b.source, c.on = b.on, ModeOK(b, h)
  PROVE  ModeOK(c, h)
BY DEF ModeOK, SameHolds, KeyRuns, Follows

LEMMA SameCounts ==
  ASSUME NEW b, NEW c, SameKeys(b, c), c.count = b.count
  PROVE  CountsOK(b) <=> CountsOK(c)
BY DEF CountsOK, SameKeys, HoldTotal, HeldTotal, MomentaryTotal

LEMMA CountsNext ==
  ASSUME NEW b, board' = b, CountsOK(b) PROVE CountsOK(board)'
BY DEF CountsOK, HoldTotal, HeldTotal, MomentaryTotal

LEMMA LayersNext ==
  ASSUME NEW b, board' = b, LayersOK(b) PROVE LayersOK(board)'
BY DEF LayersOK, OwnedBy

(* A lit pointer layer stays lit, but for what takes it away.               *)
Spares(b, c) == Lit(b) => Dark(b) \/ Shows(c)
Spared == Lit(board) => Dark(board) \/ Shows(board)'

LEMMA ShowsNext ==
  ASSUME UNCHANGED setup, NEW b, board' = b, Shows(b) PROVE Shows(board)'
BY DEF Shows, Lit, Dark, PointerOwned, PointerStripped, KeyRuns

(* A step ends in order.                                                    *)
Kept == IInv' /\ Spared

(* The mode that runs before and after was not started in between.           *)
Fresh(b) == (KeyRuns(board) \/ KeyRuns(b)) /\ b.active = board.active => b.active \notin b.entered

LEMMA Settled ==
  ASSUME IInv, NEW b \in Boards, NEW h, h \subseteq ModeKeys, Loss(Start, b), LayersOK(b), CountsOK(b),
         ModeOK(b, h), Fresh(b), Spares(Start, b), Become(b), held' = h
  PROVE  Kept
<1>1. /\ Start.on = board.on /\ Start.steady = board.on /\ SameOwners(board, Start)
      /\ board.on \subseteq Layers /\ SameMode(board, Start)
  BY StartIs DEF IInv, TInv, Boards
<1>2. Blinked(b) = {}
  <2> SUFFICES ASSUME NEW l \in Blinked(b) PROVE FALSE
    OBVIOUS
  <2>1. /\ l \in board.on /\ l \in b.on /\ l # Pointer /\ l \notin b.steady /\ OwnedBy(board, l)
        /\ l \in Layers
    BY <1>1 DEF Blinked
  <2>2. ~OwnedBy(Start, l) \/ ~OwnedBy(b, l)
    BY <1>1, <2>1 DEF Loss
  <2>3. OwnedBy(Start, l)
    BY <1>1, <2>1, SameOwned
  <2>4. OwnedBy(b, l)
    BY <2>1 DEF LayersOK
  <2> QED
    BY <2>2, <2>3, <2>4
<1>3. Restarted(b) = {}
  BY DEF Restarted, Fresh
<1> PICK d : d = Done(b)
  OBVIOUS
<1>4. board' = d /\ glitch' = {} /\ UNCHANGED setup
  BY <1>2, <1>3 DEF Become, Done
<1>5. /\ d \in Boards /\ SameOwners(b, d) /\ SameKeys(b, d)
      /\ SameHolds(b, d) /\ d.active = b.active /\ d.source = b.source
      /\ d.on = b.on /\ d.steady = {} /\ d.entered = {}
  BY DoneIs
<1>6. ModeOK(d, h)
  BY <1>5, SameModeOK DEF SameOwners
<1>7. CountsOK(d)
  BY <1>5, SameCounts DEF SameOwners
<1>8. LayersOK(d)
  <2>1. \A l : OwnedBy(b, l) <=> OwnedBy(d, l)
    BY <1>5, SameOwned
  <2> QED
    BY <1>5, <2>1 DEF LayersOK
<1>9. TInv'
  BY <1>4, <1>5 DEF IInv, TInv
<1>10. ModeOK(board, held)'
  BY <1>4, <1>6, ModeOKNext
<1>11. CountsOK(board)'
  BY <1>4, <1>7, CountsNext
<1>12. LayersOK(board)'
  BY <1>4, <1>8, LayersNext
<1>13. Spared
  <2>1. PointerOwned(board) <=> PointerOwned(Start)
    BY <1>1 DEF SameOwners, PointerOwned
  <2>2. Lit(board) => Lit(Start)
    BY <1>1, <2>1, SameLit
  <2>3. Dark(Start) => Dark(board)
    BY <1>1, <2>1, SameLit DEF SameMode
  <2>4. PointerOwned(d) => PointerOwned(b)
    BY <1>5 DEF SameOwners, PointerOwned
  <2>5. Keeps(b, d)
    BY <1>5, <2>4, SameLit
  <2>6. Lit(board) => Dark(board) \/ Shows(d)
    BY <2>2, <2>3, <2>5 DEF Spares, Keeps
  <2> QED
    BY <1>4, <2>6, ShowsNext DEF Spared
<1> QED
  BY <1>9, <1>10, <1>11, <1>12, <1>13 DEF IInv, Kept

(* A step that no mode command takes.                                       *)
LEMMA Shifted ==
  ASSUME IInv, NEW b, Shift(Start, b), b.modeLayers = Start.modeLayers, CountsOK(b), Become(b), UNCHANGED held
  PROVE  Kept
<1> PICK s : s = Start
  OBVIOUS
<1>1. /\ s \in Boards /\ SameOwners(board, s) /\ SameHolds(board, s) /\ SameMode(board, s)
      /\ s.on = board.on /\ s.entered = {}
  BY StartIs DEF IInv
<1>2. LayersOK(s)
  <2>1. \A l : OwnedBy(board, l) <=> OwnedBy(s, l)
    BY <1>1, SameOwned
  <2> QED
    BY <1>1, <2>1 DEF IInv, LayersOK
<1>3. ModeOK(s, held)
  BY <1>1, SameModeOK DEF IInv, SameMode, SameOwners
<1>4. b \in Boards /\ SameHolds(s, b) /\ ModeKept(s, b) /\ LayersOK(b) /\ Loss(s, b)
  BY <1>2 DEF Shift
<1>5. ModeOK(b, held)
  BY <1>3, <1>4 DEF ModeOK, ModeKept, SameMode, SameHolds, KeyRuns
<1>6. Fresh(b)
  <2>1. CASE KeyRuns(s)
    BY <1>1, <1>4, <2>1 DEF Fresh, ModeKept, SameMode
  <2>2. CASE ~KeyRuns(s)
    BY <1>1, <1>4, <2>2 DEF Fresh, ModeKept, SameMode, KeyRuns
  <2> QED
    BY <2>1, <2>2
<1>7. held \subseteq ModeKeys
  BY DEF IInv, TInv
<1>8. Spares(s, b)
  BY DEF Shift, Keeps, Shows, Spares
<1> QED
  BY <1>4, <1>5, <1>6, <1>7, <1>8, Settled

(* The actions that no mode command takes.                                  *)
LEMMA Starting ==
  ASSUME IInv
  PROVE  SetupOK /\ Start \in Boards /\ CountsOK(Start) /\ LayersOK(Start) /\ ModeOK(Start, held)
<1>1. SetupOK
  BY SetupIsOK DEF IInv
<1> PICK s : s = Start
  OBVIOUS
<1>2. /\ s \in Boards /\ SameOwners(board, s) /\ SameKeys(board, s) /\ SameHolds(board, s)
      /\ SameMode(board, s) /\ s.on = board.on
  BY StartIs DEF IInv
<1>3. CountsOK(s)
  BY <1>2, SameCounts DEF IInv, SameOwners
<1>4. LayersOK(s)
  <2>1. \A l : OwnedBy(board, l) <=> OwnedBy(s, l)
    BY <1>2, SameOwned
  <2> QED
    BY <1>2, <2>1 DEF IInv, LayersOK
<1>5. ModeOK(s, held)
  BY <1>2, SameModeOK DEF IInv, SameMode, SameOwners
<1> QED
  BY <1>1, <1>2, <1>3, <1>4, <1>5

LEMMA CalmSteps ==
  ASSUME IInv, NEW b, Calm(Start, b), Become(b), UNCHANGED held PROVE Kept
<1>1. CountsOK(b)
  BY Starting, SameCounts DEF Calm
<1> QED
  BY <1>1, Shifted DEF Calm

LEMMA StillSteps ==
  ASSUME IInv, NEW b, Still(Start, b), Become(b), UNCHANGED held PROVE Kept
<1>1. CountsOK(b)
  BY Starting, SameCounts DEF Still, SameOwners
<1> QED
  BY <1>1, Shifted DEF Still, SameOwners

LEMMA StartBinds ==
  ASSUME IInv
  PROVE  Start.bind = board.bind /\ Start.shortcut = board.shortcut /\ Start.locked = board.locked
BY StartIs DEF IInv, SameKeys, SameOwners

LEMMA HoldSteps ==
  ASSUME IInv, NEW k \in LayerKeys, ReleaseLayer(k) \/ \E l \in HoldLayers : HoldLayer(k, l)
  PROVE  Kept
<1>1. SetupOK /\ Start \in Boards /\ CountsOK(Start)
  BY Starting
<1>2. ASSUME NEW l \in {0} \cup Layers, NEW b, HoldMoves(Start, k, l, b), Become(b), UNCHANGED held PROVE Kept
  <2>1. CountsOK(b)
    BY <1>1, <1>2, HoldCounts
  <2> QED
    BY <1>2, <2>1, Shifted DEF HoldMoves, Rest
<1>3. CASE ReleaseLayer(k)
  <2>1. Start.bind[k] # 0
    BY <1>3, StartBinds DEF ReleaseLayer
  <2>2. HoldMoves(Start, k, 0, MomentaryRelease(Start, k))
    BY <1>1, <2>1, ReleaseMoves
  <2>3. Become(MomentaryRelease(Start, k)) /\ UNCHANGED held
    BY <1>3 DEF ReleaseLayer
  <2> QED
    BY <1>2, <2>2, <2>3
<1>4. ASSUME NEW l \in HoldLayers, HoldLayer(k, l) PROVE Kept
  <2>1. l \in Layers
    BY SetsAssumption
  <2>2. HoldMoves(Start, k, l, MomentaryPress(Start, k, l))
    BY <1>1, <2>1, PressMoves
  <2>3. Become(MomentaryPress(Start, k, l)) /\ UNCHANGED held
    BY <1>4 DEF HoldLayer
  <2> QED
    BY <1>2, <2>1, <2>2, <2>3
<1> QED
  BY <1>3, <1>4

LEMMA ShortcutSteps ==
  ASSUME IInv, NEW k \in ShortcutKeys, NEW part \in {"held", "momentary"},
         ReleaseShortcut(k, part) \/ \E ls \in HoldSets : HoldShortcut(k, part, ls)
  PROVE  Kept
<1>1. SetupOK /\ Start \in Boards /\ CountsOK(Start)
  BY Starting
<1>2. ASSUME NEW ls \in SUBSET Layers, NEW b, ShortMoves(Start, k, part, ls, b), Become(b), UNCHANGED held PROVE Kept
  <2>1. CountsOK(b)
    BY <1>1, <1>2, ShortCounts
  <2> QED
    BY <1>2, <2>1, Shifted DEF ShortMoves, Rest
<1>3. CASE ReleaseShortcut(k, part)
  <2>2. ShortMoves(Start, k, part, {}, ShortcutUnbind(Start, k, part))
    BY <1>1, ShortcutUnbinds
  <2>3. Become(ShortcutUnbind(Start, k, part)) /\ UNCHANGED held
    BY <1>3 DEF ReleaseShortcut
  <2> QED
    BY <1>2, <2>2, <2>3
<1>4. ASSUME NEW ls \in HoldSets, HoldShortcut(k, part, ls) PROVE Kept
  <2>1. ls \in SUBSET Layers
    BY SetsAssumption
  <2>2. ShortMoves(Start, k, part, ls, ShortcutBind(Start, k, part, ls))
    BY <1>1, <2>1, ShortcutBinds
  <2>3. Become(ShortcutBind(Start, k, part, ls)) /\ UNCHANGED held
    BY <1>4 DEF HoldShortcut
  <2> QED
    BY <1>2, <2>1, <2>2, <2>3
<1> QED
  BY <1>3, <1>4

LEMMA LockSteps ==
  ASSUME IInv,
         \/ \E ls \in HoldSets : TapShortcut(ls)
         \/ \E ls \in LockSets : ToggleLock(ls)
         \/ \E ls \in MoveSets : Goto(ls)
         \/ \E ls \in OneshotSets, again \in BOOLEAN : Oneshot(ls, again)
         \/ UseOneshot
  PROVE  Kept
<1>1. SetupOK /\ Start \in Boards
  BY Starting
<1>2. ASSUME NEW ls \in HoldSets, TapShortcut(ls) PROVE Kept
  <2>1. ls \in SUBSET Layers
    BY SetsAssumption
  <2>2. Calm(Start, ShortcutDrop(ShortcutAcquire(Start, ls), ls))
    BY <1>1, <2>1, TapCalm
  <2> QED
    BY <1>2, <2>2, CalmSteps DEF TapShortcut
<1>3. ASSUME NEW ls \in LockSets, ToggleLock(ls) PROVE Kept
  <2>1. ls \subseteq Layers
    BY SetsAssumption
  <2>2. Calm(Start, ToggleLockSet(Start, ls))
    BY <1>1, <2>1, ToggleCalm
  <2> QED
    BY <1>3, <2>2, CalmSteps DEF ToggleLock
<1>4. ASSUME NEW ls \in MoveSets, Goto(ls) PROVE Kept
  <2>1. ls \subseteq Layers
    BY SetsAssumption
  <2>2. Calm(Start, GotoSet(Start, ls))
    BY <1>1, <2>1, GotoCalm
  <2> QED
    BY <1>4, <2>2, CalmSteps DEF Goto
<1>5. ASSUME NEW ls \in OneshotSets, NEW again \in BOOLEAN, Oneshot(ls, again) PROVE Kept
  <2>1. ls \subseteq Layers
    BY SetsAssumption
  <2>2. Calm(Start, OneshotTap(Start, ls, again))
    BY <1>1, <2>1, OneshotCalm
  <2> QED
    BY <1>5, <2>2, CalmSteps DEF Oneshot
<1>6. CASE UseOneshot
  <2>1. {} \subseteq Layers /\ TRUE \in BOOLEAN
    OBVIOUS
  <2>2. Calm(Start, OneshotArm(Start, {}))
    BY <1>1, <2>1, OneshotCalm
  <2> QED
    BY <1>6, <2>2, CalmSteps DEF UseOneshot
<1> QED
  BY <1>2, <1>3, <1>4, <1>5, <1>6

LEMMA MouseSteps ==
  ASSUME IInv,
         \/ \E moved \in BOOLEAN : PointingTask(moved)
         \/ OtherKey \/ MouseKey \/ ResetAutoMouse
  PROVE  Kept
<1>1. SetupOK /\ Start \in Boards
  BY Starting
<1>2. ASSUME NEW moved \in BOOLEAN, PointingTask(moved) PROVE Kept
  <2> PICK b : b = SyncAnchor(Start)
    OBVIOUS
  <2>1. Still(Start, b) /\ b \in Boards
    BY <1>1, AnchorStill DEF Still, Shift
  <2> PICK keeps \in BOOLEAN : keeps = (moved \/ b.toggled \/ b.tracker # 0)
    OBVIOUS
  <2> PICK t : t = LayerStateSet(b, IF keeps THEN b.on \cup {Pointer} ELSE b.on \ {Pointer})
    OBVIOUS
  <2>2. Still(Start, t)
    BY <1>1, <2>1, TaskStill, StillThrough
  <2>3. Become(IF keeps = (Pointer \in b.on) THEN b ELSE t) /\ UNCHANGED held
    BY <1>2, Zenon DEF PointingTask
  <2>4. CASE keeps = (Pointer \in b.on)
    <3>1. Become(b)
      BY <2>3, <2>4, Zenon
    <3> QED
      BY <2>1, <2>3, <3>1, StillSteps
  <2>5. CASE ~(keeps = (Pointer \in b.on))
    <3>1. Become(t)
      BY <2>3, <2>5, Zenon
    <3> QED
      BY <2>2, <2>3, <3>1, StillSteps
  <2> QED
    BY <2>4, <2>5
<1>3. CASE OtherKey
  <2> PICK b : b = StripPointer(Start)
    OBVIOUS
  <2>1. Still(Start, b) /\ b \in Boards
    BY <1>1, StripStill DEF Still, Shift
  <2>2. Still(Start, SyncAnchor(b))
    BY <2>1, AnchorStill, StillThrough
  <2>3. Become(SyncAnchor(b)) /\ UNCHANGED held
    BY <1>3, Zenon DEF OtherKey
  <2> QED
    BY <2>2, <2>3, StillSteps
<1>4. CASE MouseKey
  <2> PICK c : c = [Start EXCEPT !.mouse = ~Start.mouse]
    OBVIOUS
  <2> PICK d : d = SyncAnchor(IF c.mouse THEN Keyevent(c, TRUE) ELSE CountIf(c, FALSE))
    OBVIOUS
  <2>1. Still(Start, d)
    BY <1>1, MouseKeyStill, Zenon
  <2>2. Become(d) /\ UNCHANGED held
    BY <1>4, Zenon DEF MouseKey
  <2> QED
    BY <2>1, <2>2, StillSteps
<1>5. CASE ResetAutoMouse
  <2> PICK d : d = [Start EXCEPT !.tracker = 0, !.toggled = FALSE]
    OBVIOUS
  <2>1. Still(Start, d)
    <3>1. Still(Start, [Start EXCEPT !.tracker = 0, !.toggled = FALSE])
      BY <1>1, ResetStill
    <3> QED
      BY <3>1, Zenon
  <2>2. Become(d) /\ UNCHANGED held
    BY <1>5, Zenon DEF ResetAutoMouse
  <2> QED
    BY <2>1, <2>2, StillSteps
<1> QED
  BY <1>2, <1>3, <1>4, <1>5

(* The mode commands.                                                       *)
LEMMA TurnSteps ==
  ASSUME IInv, NEW b, NEW h, h \subseteq ModeKeys, Turn(Start, b), ModeOK(b, h), Fresh(b), Spares(Start, b),
         Become(b), held' = h
  PROVE  Kept
<1>1. LayersOK(b) /\ b \in Boards /\ Loss(Start, b)
  BY Starting DEF Turn
<1>2. CountsOK(b)
  BY Starting, SameCounts DEF Turn
<1> QED
  BY <1>1, <1>2, Settled

LEMMA StartFresh ==
  ASSUME IInv
  PROVE  /\ Start.active = board.active /\ Start.source = board.source /\ Start.entered = {}
         /\ Start.owners = board.owners /\ Start.lockedMode = board.lockedMode
         /\ held \subseteq ModeKeys
BY StartIs DEF IInv, TInv, SameMode, SameHolds

LEMMA PressSteps ==
  ASSUME IInv, NEW x \in ModeKeys, ModePress(x) PROVE Kept
<1> PICK m \in Modes : m = KeyMode[x]
  BY LayersAssumption
<1>1. m # None
  BY LayersAre
<1> PICK s : s = Start
  OBVIOUS
<1>2. SetupOK /\ s \in Boards /\ ModeOK(s, held)
  BY Starting
<1>3. s.active = board.active /\ s.entered = {} /\ held \subseteq ModeKeys
  BY StartFresh
<1> PICK b : b = KeyPress(s, x)
  OBVIOUS
<1>4. Pressed(s, x, b)
  BY <1>2, KeyPresses
<1> PICK others : others = Others(m)
  OBVIOUS
<1>5. others \subseteq ModeKeys /\ \A y \in others : KeyMode[y] # b.active
  BY <1>3, <1>4 DEF Others, Pressed
<1>6. Preempt(b, others) = b
  BY <1>5, NothingPreempted
<1> PICK h : h = (held \ others) \cup {x}
  OBVIOUS
<1>7. Become(b) /\ held' = h
  BY <1>6, Zenon DEF ModePress
<1>8. \A y \in held : KeyMode[y] = m => y \in h
  BY DEF Others
<1>9. ModeOK(b, h)
  <2>1. KeyRuns(b) /\ b.active = m /\ b.modeLayers = TurnsOn(m)
    BY <1>1, <1>4 DEF Pressed, KeyRuns
  <2>2. CASE s.lockedMode = m
    <3>1. b.lockedMode = m /\ b.owners = s.owners /\ s.owners = {}
      BY <1>1, <1>2, <1>4, <2>2 DEF Pressed, ModeOK
    <3> QED
      BY <2>1, <3>1 DEF ModeOK
  <2>3. CASE s.lockedMode # m
    <3>1. b.lockedMode = None /\ x \in b.owners
      BY <1>4, <2>3 DEF Pressed
    <3>2. b.owners \subseteq {y \in h : KeyMode[y] = m}
      <4>1. CASE s.active = m
        <5>1. s.owners \subseteq {y \in held : KeyMode[y] = m}
          BY <1>2, <4>1 DEF ModeOK
        <5>2. b.owners \subseteq s.owners \cup {x}
          BY <1>4 DEF Pressed
        <5> QED
          BY <1>8, <5>1, <5>2
      <4>2. CASE s.active # m
        BY <1>4, <2>3, <4>2 DEF Pressed
      <4> QED
        BY <4>1, <4>2
    <3> QED
      BY <2>1, <3>1, <3>2 DEF ModeOK
  <2> QED
    BY <2>2, <2>3
<1>10. Fresh(b)
  BY <1>3, <1>4 DEF Fresh, Pressed
<1>11. Turn(s, b) /\ h \subseteq ModeKeys /\ Spares(s, b)
  BY <1>3, <1>4 DEF Pressed, Spares
<1> QED
  BY <1>7, <1>9, <1>10, <1>11, TurnSteps

(* Only the mode's owners change.                                            *)
Disowned(s, owners, c) ==
  /\ Turn(s, c) /\ c.modeLayers = s.modeLayers /\ c.owners = owners /\ c.on = s.on
  /\ c.lockedMode = s.lockedMode /\ SameMode(s, c)

LEMMA OwnersGo ==
  ASSUME NEW s \in Boards, NEW owners \in SUBSET ModeKeys
  PROVE  Disowned(s, owners, [s EXCEPT !.owners = owners])
<1> PICK c : c = [s EXCEPT !.owners = owners]
  OBVIOUS
<1>1. c \in Boards /\ c.owners = owners
  BY DEF Boards
<1>2. /\ SameOwners(s, c) /\ SameKeys(s, c) /\ SameView(s, c) /\ SameMode(s, c)
      /\ c.lockedMode = s.lockedMode
  BY DEF Boards, SameOwners, SameKeys, SameView, SameMode
<1>3. Turn(s, c) /\ c.modeLayers = s.modeLayers
  BY <1>1, <1>2, SameTurns
<1> QED
  BY <1>1, <1>2, <1>3 DEF Disowned, SameView

(* The pointer layer is as lit, and as dark, as before.                      *)
LEMMA DisownedLit ==
  ASSUME NEW s, NEW owners, NEW c, Disowned(s, owners, c)
  PROVE  /\ Lit(s) => Lit(c)
         /\ Dark(c) <=> Dark(s)
<1>1. PointerOwned(c) => PointerOwned(s)
  BY DEF Disowned, Turn, PointerOwned
<1> QED
  BY <1>1, SameLit DEF Disowned, SameMode

(* The last key that runs it goes, or its lock does.                        *)
LEMMA SourceEnds ==
  ASSUME IInv, NEW m \in Modes, KeyRuns(board), board.active = m, board.lockedMode \in {None, m},
         NEW c, Disowned(Start, {}, c), NEW h, h \subseteq ModeKeys, Become(EndKeySource(c, m)), held' = h
  PROVE  Kept
<1>1. SetupOK
  BY Starting
<1>2. Start.active = board.active /\ Start.source = board.source /\ Start.entered = {} /\ Start.lockedMode = board.lockedMode
  BY StartFresh
<1>3. c \in Boards /\ KeyRuns(c) /\ c.active = m /\ c.lockedMode \in {None, m} /\ c.entered = {} /\ c.owners = {}
  BY <1>2 DEF Disowned, Turn, SameMode, KeyRuns
<1> PICK d : d = EndKeySource(c, m)
  OBVIOUS
<1>4. GaveBack(c, m, d)
  BY <1>1, <1>3, LinksTakeOver
<1>5. Turn(Start, d)
  BY <1>4, TurnThrough DEF Disowned, GaveBack
<1>6. ModeOK(d, h)
  BY <1>3, <1>4 DEF ModeOK, GaveBack
<1>7. Fresh(d)
  BY <1>3, <1>4 DEF Fresh, GaveBack
<1>8. Spares(Start, d)
  BY <1>4, DisownedLit DEF Spares, GaveBack
<1> QED
  BY <1>5, <1>6, <1>7, <1>8, TurnSteps

LEMMA ReleaseSteps ==
  ASSUME IInv, NEW x \in ModeKeys, ModeRelease(x) PROVE Kept
<1> PICK m \in Modes : m = KeyMode[x]
  BY LayersAssumption
<1> PICK s : s = Start
  OBVIOUS
<1>1. SetupOK /\ s \in Boards /\ ModeOK(s, held)
  BY Starting
<1>2. /\ s.active = board.active /\ s.source = board.source /\ s.entered = {}
      /\ s.lockedMode = board.lockedMode /\ held \subseteq ModeKeys
  BY StartFresh
<1> PICK h : h = held \ {x}
  OBVIOUS
<1>3. held' = h /\ h \subseteq ModeKeys /\ Become(KeyRelease(s, x))
  BY <1>2 DEF ModeRelease
<1> PICK owners : owners = s.owners \ {x}
  OBVIOUS
<1> PICK c : c = [s EXCEPT !.owners = owners]
  OBVIOUS
<1>4. Disowned(s, owners, c)
  <2>1. owners \in SUBSET ModeKeys
    BY <1>1 DEF Boards
  <2> QED
    BY <1>1, <2>1, OwnersGo
<1>5. CASE ~KeyRuns(s) \/ s.active # m \/ s.lockedMode = m
  <2>1. KeyRelease(s, x) = s
    BY <1>5, Zenon DEF KeyRelease
  <2>2. Turn(s, s)
    BY <1>1, SameTurns DEF SameOwners, SameKeys, SameView
  <2>3. x \notin s.owners
    BY <1>1, <1>5, LayersAre DEF ModeOK
  <2>4. ModeOK(s, h)
    BY <1>1, <2>3 DEF ModeOK
  <2>5. Fresh(s)
    BY <1>2 DEF Fresh
  <2>6. Spares(s, s)
    BY DEF Spares, Shows
  <2> QED
    BY <1>3, <2>1, <2>2, <2>4, <2>5, <2>6, TurnSteps
<1>6. CASE KeyRuns(s) /\ s.active = m /\ s.lockedMode # m /\ owners # {}
  <2>1. KeyRelease(s, x) = c
    <3>1. c.owners # {}
      BY <1>4, <1>6 DEF Disowned
    <3> QED
      BY <1>6, <3>1, Zenon DEF KeyRelease
  <2>2. ModeOK(c, h)
    <3>1. s.lockedMode = None
      BY <1>1, <1>6 DEF ModeOK
    <3>2. owners \subseteq {y \in h : KeyMode[y] = m}
      BY <1>1, <1>6 DEF ModeOK
    <3> QED
      BY <1>1, <1>4, <1>6, <3>1, <3>2 DEF ModeOK, Disowned, SameMode, KeyRuns
  <2>3. Fresh(c)
    BY <1>2, <1>4 DEF Fresh, Disowned, SameMode
  <2>4. Spares(s, c)
    BY <1>4, DisownedLit DEF Spares, Shows
  <2> QED
    BY <1>3, <1>4, <2>1, <2>2, <2>3, <2>4, TurnSteps DEF Disowned
<1>7. CASE KeyRuns(s) /\ s.active = m /\ s.lockedMode # m /\ owners = {}
  <2>1. KeyRelease(s, x) = EndKeySource(c, m)
    <3>1. c.owners = {}
      BY <1>4, <1>7 DEF Disowned
    <3> QED
      BY <1>7, <3>1, Zenon DEF KeyRelease
  <2>2. s.lockedMode = None
    BY <1>1, <1>7 DEF ModeOK
  <2>3. KeyRuns(board) /\ board.active = m /\ board.lockedMode \in {None, m}
    BY <1>2, <1>7, <2>2 DEF KeyRuns
  <2>4. Disowned(s, {}, c)
    BY <1>4, <1>7
  <2> QED
    BY <1>3, <2>1, <2>3, <2>4, SourceEnds
<1> QED
  BY <1>5, <1>6, <1>7

LEMMA ModeLockSteps ==
  ASSUME IInv, NEW m \in Modes, NEW preempts \in BOOLEAN, ModeLock(m, preempts) PROVE Kept
<1>0. m # None
  BY LayersAre
<1> PICK s : s = Start
  OBVIOUS
<1>1. SetupOK /\ s \in Boards /\ ModeOK(s, held)
  BY Starting
<1>2. /\ s.active = board.active /\ s.source = board.source /\ s.entered = {}
      /\ s.lockedMode = board.lockedMode /\ held \subseteq ModeKeys
  BY StartFresh
<1>3. CASE board.lockedMode # m
  <2> PICK others : others = IF preempts THEN Others(m) ELSE {}
    OBVIOUS
  <2> PICK b : b = LockMode(s, m)
    OBVIOUS
  <2>1. LockedOn(s, m, b)
    BY <1>1, ModeLocks
  <2>2. others \subseteq ModeKeys /\ \A y \in others : KeyMode[y] # b.active
    BY <1>2, <2>1 DEF Others, LockedOn
  <2>3. Preempt(b, others) = b
    BY <2>2, NothingPreempted
  <2>4. others = IF board.lockedMode # m /\ preempts THEN Others(m) ELSE {}
    BY <1>3
  <2>5. held' = held \ others /\ Become(b)
    BY <1>3, <2>3, <2>4, Zenon DEF ModeLock
  <2> PICK h : h = held \ others
    OBVIOUS
  <2>6. ModeOK(b, h)
    BY <1>0, <2>1 DEF ModeOK, LockedOn, KeyRuns
  <2>7. Fresh(b)
    BY <1>2, <2>1 DEF Fresh, LockedOn
  <2>8. Turn(s, b) /\ h \subseteq ModeKeys /\ held' = h /\ Spares(s, b)
    BY <1>2, <2>1, <2>5 DEF LockedOn, Spares
  <2> QED
    BY <2>5, <2>6, <2>7, <2>8, TurnSteps
<1>4. CASE board.lockedMode = m
  <2> PICK c : c = [s EXCEPT !.owners = {}]
    OBVIOUS
  <2>1. Disowned(s, {}, c)
    BY <1>1, OwnersGo
  <2>2. held' = held \ {}
    BY <1>4, Zenon DEF ModeLock
  <2>3. Become(EndKeySource(c, m))
    <3>1. UnlockMode(s, m) = EndKeySource(c, m)
      BY Zenon DEF UnlockMode
    <3> QED
      BY <1>4, <3>1, Zenon DEF ModeLock
  <2>4. KeyRuns(board) /\ board.active = m
    BY <1>0, <1>1, <1>2, <1>4 DEF ModeOK, KeyRuns
  <2>5. held' = held
    BY <2>2
  <2> QED
    BY <1>2, <1>4, <2>1, <2>3, <2>4, <2>5, SourceEnds
<1> QED
  BY <1>3, <1>4

------------------------------------------------------------------------------
LEMMA NothingStarted == LayerStartedMode({}) = None
<1>1. ASSUME NEW m PROVE Top(m, {}) = 0
  <2>1. {0} \cup ({} \cap Linked(m)) = {0}
    OBVIOUS
  <2>2. Top(m, {}) = Max({0})
    BY <2>1, Zenon DEF Top
  <2>3. Max({0}) = 0
    BY DEF Max
  <2> QED
    BY <2>2, <2>3
<1>2. {m \in Modes : Top(m, {}) > 0 /\ ~Ended(m, {})} = {}
  BY <1>1
<1> QED
  BY <1>2, Zenon DEF LayerStartedMode

LEMMA Starts == Init => IInv
<1> SUFFICES ASSUME Init PROVE IInv
  OBVIOUS
<1> PICK b : b = board
  OBVIOUS
<1>1. /\ b.on = {} /\ b.count = [l \in Layers |-> 0] /\ b.bind = [k \in LayerKeys |-> 0]
      /\ b.shortcut = [k \in ShortcutKeys |-> NoParts]
      /\ b.locked = {} /\ b.oneshot = {} /\ b.modeLayers = {}
      /\ b.active = None /\ b.source = "none" /\ b.lockedMode = None /\ b.owners = {}
      /\ b.steady = {} /\ b.entered = {}
  BY DEF Init
<1>2. b \in Boards
  <2>1. NoParts \in [held : SUBSET Layers, momentary : SUBSET Layers]
    BY DEF NoParts
  <2> QED
    BY <2>1 DEF Init, Boards
<1>3. TInv
  BY <1>1, <1>2 DEF Init, TInv
<1>4. LayersOK(b)
  BY <1>1 DEF LayersOK, OwnedBy
<1>5. CountsOK(b)
  <2> SUFFICES ASSUME NEW x \in Layers
               PROVE  b.count[x] = HoldTotal(b, x) + HeldTotal(b, x) + MomentaryTotal(b, x)
    BY DEF CountsOK
  <2>1. x # 0
    BY LayersAre
  <2>2. {k \in LayerKeys : b.bind[k] = x} = {}
    BY <1>1, <2>1
  <2>3. \A k \in ShortcutKeys : b.shortcut[k].held = {} /\ b.shortcut[k].momentary = {}
    BY <1>1 DEF NoParts
  <2>4. {k \in ShortcutKeys : x \in b.shortcut[k].held} = {} /\ {k \in ShortcutKeys : x \in b.shortcut[k].momentary} = {}
    BY <2>3
  <2>5. Cardinality({}) = 0
    BY FS_EmptySet
  <2>6. HoldTotal(b, x) = 0 /\ HeldTotal(b, x) = 0 /\ MomentaryTotal(b, x) = 0
    BY <2>2, <2>4, <2>5 DEF HoldTotal, HeldTotal, MomentaryTotal
  <2> QED
    BY <1>1, <2>6
<1>6. ModeOK(b, held)
  <2>1. Follows(b)
    BY <1>1, NothingStarted DEF Follows
  <2> QED
    BY <1>1, <2>1 DEF ModeOK, KeyRuns
<1> QED
  BY <1>3, <1>4, <1>5, <1>6 DEF IInv

LEMMA Goes == IInv /\ Next => Kept
<1> SUFFICES ASSUME IInv, Next PROVE Kept
  OBVIOUS
<1>1. ASSUME NEW k \in LayerKeys, ReleaseLayer(k) \/ \E l \in HoldLayers : HoldLayer(k, l) PROVE Kept
  BY <1>1, HoldSteps
<1>2. ASSUME NEW k \in ShortcutKeys, NEW part \in {"held", "momentary"},
             ReleaseShortcut(k, part) \/ \E ls \in HoldSets : HoldShortcut(k, part, ls)
      PROVE  Kept
  BY <1>2, ShortcutSteps
<1>3. ASSUME NEW x \in ModeKeys, ModePress(x) \/ ModeRelease(x) PROVE Kept
  BY <1>3, PressSteps, ReleaseSteps
<1>4. ASSUME NEW m \in Modes, NEW preempts \in BOOLEAN, ModeLock(m, preempts) PROVE Kept
  BY <1>4, ModeLockSteps
<1> QED
  BY <1>1, <1>2, <1>3, <1>4, LockSteps, MouseSteps DEF Next

LEMMA Rests == IInv /\ UNCHANGED vars => IInv'
<1> SUFFICES ASSUME IInv, UNCHANGED vars PROVE IInv'
  OBVIOUS
<1> PICK b : b = board
  OBVIOUS
<1> PICK h : h = held
  OBVIOUS
<1>1. board' = b /\ held' = h /\ UNCHANGED setup /\ glitch' = glitch
  BY DEF vars
<1>2. TInv'
  BY <1>1 DEF IInv, TInv
<1>3. ModeOK(board, held)'
  BY <1>1, ModeOKNext DEF IInv
<1> QED
  BY <1>1, <1>2, <1>3, CountsNext, LayersNext DEF IInv

\* The invariant holds throughout.
THEOREM Inductive == Spec => []IInv
<1>1. IInv /\ [Next]_vars => IInv'
  BY Goes, Rests DEF Kept
<1> QED
  BY <1>1, Starts, PTL DEF Spec

\* The ledgers, the layer state, the mode and QMK's counts keep their types.
THEOREM TypeCorrect == Spec => []TInv
<1>1. IInv => TInv
  BY DEF IInv
<1> QED
  BY <1>1, Inductive, PTL

\* A layer other than the pointer layer is on exactly while a key holds it, it is
\* locked, a one-shot waits on it or the mode that runs turned it on, and its count
\* is the number of keys that hold it, whatever the order of presses and releases.
THEOREM LayersFollowOwners == Spec => []LayersMatchOwners
<1>1. IInv => LayersMatchOwners
  BY DEF IInv, LayersOK, CountsOK, LayersMatchOwners, HoldTotal, HeldTotal, MomentaryTotal
<1> QED
  BY <1>1, Inductive, PTL

\* No effect of a key turns off and on again a layer that is owned before and after
\* it, nor restarts a mode a key ran, whatever keys, locks and links share them.
THEOREM NothingBlinks == Spec => []NothingInBetween
<1>1. IInv => NothingInBetween
  BY DEF IInv, TInv, NothingInBetween
<1> QED
  BY <1>1, Inductive, PTL

\* A mode a key runs is locked or has a key of it held down, its key's layers are on
\* just then, and otherwise the links alone decide which mode runs.
THEOREM ModesEnd == Spec => []ModeEndsWithItsKeys
<1>1. IInv => ModeEndsWithItsKeys
  BY DEF IInv, ModeOK, Follows, ModeEndsWithItsKeys
<1> QED
  BY <1>1, Inductive, PTL

\* No step turns off a pointer layer that a key holds or that is locked, whatever
\* ran it on and whatever QMK's timeout, other keys and resets did to its counts,
\* unless a sniping layer, a typing mode or a layer's mode takes it away.
THEOREM PointerStays == Spec => OwnedPointerStays
<1> DEFINE A == Pointer \in board.on /\ PointerOwned(board) /\ PointerOwned(board)'
                 => (\/ Pointer \in board'.on
                     \/ PointerStripped(board, board.on) \/ PointerStripped(board, board.on)')
<1>1. IInv /\ [Next]_vars => [A]_vars
  <2> SUFFICES ASSUME IInv, Next PROVE A
    OBVIOUS
  <2>1. Spared
    BY Goes DEF Kept
  <2>2. Pointer \in board.on => Lit(board)
    BY DEF Lit
  <2>3. Dark(board) => PointerStripped(board, board.on)
    BY DEF Dark
  <2>4. Shows(board)' /\ PointerOwned(board)' => Pointer \in board'.on \/ PointerStripped(board, board.on)'
    BY DEF Shows, Lit, Dark
  <2> QED
    BY <2>1, <2>2, <2>3, <2>4 DEF Spared
<1>2. Spec => [][A]_vars
  BY <1>1, Inductive, PTL DEF Spec
<1> QED
  BY <1>2 DEF OwnedPointerStays
================================================================================
