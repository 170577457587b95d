-------------------------- MODULE OwnedOutputProofs --------------------------
(***************************************************************************)
(* Proofs about OwnedOutput, for any modifiers, usages, keys and keycodes. *)
(*                                                                         *)
(* The ledgers are sums: every operation on them adds or takes one owner of*)
(* each part, so the proof follows two functions, the number of owners of  *)
(* each usage and of each modifier, through each action, and shows that the*)
(* counts equal them and that the report follows them.                     *)
(***************************************************************************)
EXTENDS OwnedOutput, FiniteSetTheorems, TLAPS

Ledgers == [managed : [Mods -> 0 .. MaxCount], real : SUBSET Mods,
            leased : [Usages -> 0 .. MaxCount], down : SUBSET Usages]

(* What the report owes an owner function: nothing without an owner, and   *)
(* every part owned, unless a mask hides it or a replay parted it from its *)
(* managed owners.                                                         *)
SettledOn(m) == \E k \in ModKeys(m) : Settled(k)

ModFollow(s, own) == \A m \in Mods :
    /\ m \in s /\ m \notin stray => own[m] > 0 \/ report[m] > 0
    /\ m \notin masked /\ ((own[m] > 0 /\ m \notin stray) \/ SettledOn(m)) => m \in s

UsageFollow(d, own) == \A u \in Usages : u \in d <=> own[u] > 0 \/ native[u] > 0

-----------------------------------------------------------------------------
(* The ledger operations.                                                  *)

LEMMA RegisterType ==
    ASSUME ConstantsOK, NEW l \in Ledgers, NEW ms \in SUBSET Mods
    PROVE  /\ Register(l, ms) \in Ledgers
           /\ Register(l, ms).leased = l.leased /\ Register(l, ms).down = l.down
    <1>1. MaxCount \in Nat
        BY DEF ConstantsOK
    <1>2. l = [managed |-> l.managed, real |-> l.real, leased |-> l.leased, down |-> l.down]
        BY DEF Ledgers
    <1>3. [m \in Mods |-> IF m \in ms /\ l.managed[m] < MaxCount
                          THEN l.managed[m] + 1 ELSE l.managed[m]] \in [Mods -> 0 .. MaxCount]
        BY <1>1 DEF Ledgers
    <1>4. l.real \cup ms \in SUBSET Mods
        BY DEF Ledgers
    <1> QED
        BY <1>2, <1>3, <1>4 DEF Ledgers, Register

LEMMA UnregisterType ==
    ASSUME ConstantsOK, NEW l \in Ledgers, NEW ms \in SUBSET Mods
    PROVE  /\ Unregister(l, ms) \in Ledgers
           /\ Unregister(l, ms).leased = l.leased /\ Unregister(l, ms).down = l.down
    <1>1. MaxCount \in Nat
        BY DEF ConstantsOK
    <1>2. l = [managed |-> l.managed, real |-> l.real, leased |-> l.leased, down |-> l.down]
        BY DEF Ledgers
    <1>3. [m \in Mods |-> IF m \in ms /\ l.managed[m] > 0
                          THEN l.managed[m] - 1 ELSE l.managed[m]] \in [Mods -> 0 .. MaxCount]
        BY <1>1 DEF Ledgers
    <1>4. l.real \ {m \in ms : l.managed[m] = 1 /\ report[m] = 0} \in SUBSET Mods
        BY DEF Ledgers
    <1> QED
        BY <1>2, <1>3, <1>4 DEF Ledgers, Unregister

(* One more owner of every modifier in ms.                                 *)
LEMMA RegisterKeeps ==
    ASSUME ConstantsOK, NEW l \in Ledgers, NEW ms \in SUBSET Mods,
           NEW own \in [Mods -> Nat], NEW new \in [Mods -> Nat],
           \A m \in Mods : l.managed[m] = own[m],
           \A m \in Mods : new[m] = own[m] + One(m \in ms),
           \A m \in Mods : new[m] <= MaxCount
    PROVE  /\ \A m \in Mods : Register(l, ms).managed[m] = new[m]
           /\ ModFollow(l.real, own) => ModFollow(Register(l, ms).real, new)
    <1>1. MaxCount \in Nat
        BY DEF ConstantsOK
    <1>2. /\ Register(l, ms).real = l.real \cup ms
          /\ \A m \in Mods : Register(l, ms).managed[m] =
                 IF m \in ms /\ l.managed[m] < MaxCount THEN l.managed[m] + 1 ELSE l.managed[m]
        BY DEF Register, Ledgers
    <1>3. \A m \in Mods : new[m] = IF m \in ms THEN own[m] + 1 ELSE own[m]
        BY DEF One
    <1>4. \A m \in Mods : Register(l, ms).managed[m] = new[m]
        BY <1>1, <1>2, <1>3
    <1>5. ModFollow(l.real, own) => ModFollow(l.real \cup ms, new)
        BY <1>1, <1>3 DEF ModFollow
    <1> QED
        BY <1>2, <1>4, <1>5

(* One owner less of every modifier in ms.                                 *)
LEMMA UnregisterKeeps ==
    ASSUME ConstantsOK, NEW l \in Ledgers, NEW ms \in SUBSET Mods,
           NEW own \in [Mods -> Nat], NEW new \in [Mods -> Nat],
           report \in [Mods -> Nat], \A m \in Mods : SettledOn(m) => report[m] > 0,
           \A m \in Mods : l.managed[m] = own[m],
           \A m \in Mods : own[m] = new[m] + One(m \in ms)
    PROVE  /\ \A m \in Mods : Unregister(l, ms).managed[m] = new[m]
           /\ ModFollow(l.real, own) => ModFollow(Unregister(l, ms).real, new)
    <1>2. /\ Unregister(l, ms).real = l.real \ {m \in ms : l.managed[m] = 1 /\ report[m] = 0}
          /\ \A m \in Mods : Unregister(l, ms).managed[m] =
                 IF m \in ms /\ l.managed[m] > 0 THEN l.managed[m] - 1 ELSE l.managed[m]
        BY DEF Unregister, Ledgers
    <1>3. \A m \in Mods : own[m] = IF m \in ms THEN new[m] + 1 ELSE new[m]
        BY DEF One
    <1>4. \A m \in Mods : Unregister(l, ms).managed[m] = new[m]
        BY <1>2, <1>3
    <1>5. ASSUME ModFollow(l.real, own)
          PROVE  ModFollow(l.real \ {m \in ms : l.managed[m] = 1 /\ report[m] = 0}, new)
        BY <1>3, <1>5 DEF ModFollow
    <1> QED
        BY <1>2, <1>4, <1>5

(* A lease takes one owner of each of its parts, or nothing.               *)
LEMMA AcquireType ==
    ASSUME ConstantsOK, NEW l \in Ledgers, NEW c \in Keycodes
    PROVE  Acquire(l, c) \in Ledgers
    <1> DEFINE r == Register(l, c.mods)
    <1>1. c.mods \in SUBSET Mods /\ c.uses \in SUBSET Usages /\ MaxCount \in Nat
        BY DEF ConstantsOK, Parts
    <1>2. r \in Ledgers /\ r.leased = l.leased /\ r.down = l.down
        BY <1>1, RegisterType
    <1>3. CASE CanAcquire(l, c)
        <2>1. [u \in Usages |-> IF u \in c.uses THEN r.leased[u] + 1 ELSE r.leased[u]]
                  \in [Usages -> 0 .. MaxCount]
            BY <1>1, <1>2, <1>3 DEF Ledgers, CanAcquire
        <2>2. r.down \cup c.uses \in SUBSET Usages
            BY <1>1, <1>2 DEF Ledgers
        <2> HIDE DEF r
        <2>3. [r EXCEPT !.leased = [u \in Usages |-> IF u \in c.uses THEN @[u] + 1 ELSE @[u]],
                        !.down = @ \cup c.uses] \in Ledgers
            BY <1>2, <2>1, <2>2 DEF Ledgers
        <2> QED
            BY <1>3, <2>3 DEF Acquire, r
    <1>4. CASE ~CanAcquire(l, c)
        BY <1>4 DEF Acquire
    <1> QED
        BY <1>3, <1>4

LEMMA ReleaseType ==
    ASSUME ConstantsOK, NEW l \in Ledgers, NEW c \in Keycodes
    PROVE  Release(l, c) \in Ledgers
    <1> DEFINE r == Unregister(l, c.mods)
    <1>1. c.mods \in SUBSET Mods /\ c.uses \in SUBSET Usages /\ MaxCount \in Nat
        BY DEF ConstantsOK, Parts
    <1>2. r \in Ledgers /\ r.leased = l.leased /\ r.down = l.down
        BY <1>1, UnregisterType
    <1>3. CASE CanRelease(l, c)
        <2>1. [u \in Usages |-> IF u \in c.uses THEN r.leased[u] - 1 ELSE r.leased[u]]
                  \in [Usages -> 0 .. MaxCount]
            BY <1>1, <1>2, <1>3 DEF Ledgers, CanRelease
        <2> DEFINE g == {u \in c.uses : l.leased[u] = 1 /\ native[u] = 0}
        <2>2. r.down \ g \in SUBSET Usages
            BY <1>1, <1>2 DEF Ledgers
        <2> HIDE DEF r, g
        <2>3. [r EXCEPT !.leased = [u \in Usages |-> IF u \in c.uses THEN @[u] - 1 ELSE @[u]],
                        !.down = @ \ g] \in Ledgers
            BY <1>2, <2>1, <2>2 DEF Ledgers
        <2> QED
            BY <1>3, <2>3 DEF Release, r, g
    <1>4. CASE ~CanRelease(l, c)
        BY <1>4 DEF Release
    <1> QED
        BY <1>3, <1>4

LEMMA AcquireKeeps ==
    ASSUME ConstantsOK, NEW l \in Ledgers, NEW c \in Keycodes, CanAcquire(l, c),
           NEW own \in [Mods -> Nat], NEW new \in [Mods -> Nat],
           NEW uown \in [Usages -> Nat], NEW unew \in [Usages -> Nat],
           native \in [Usages -> Nat],
           \A m \in Mods : l.managed[m] = own[m],
           \A u \in Usages : l.leased[u] = uown[u],
           \A m \in Mods : new[m] = own[m] + One(m \in c.mods),
           \A u \in Usages : unew[u] = uown[u] + One(u \in c.uses)
    PROVE  /\ \A m \in Mods : Acquire(l, c).managed[m] = new[m]
           /\ \A u \in Usages : Acquire(l, c).leased[u] = unew[u]
           /\ ModFollow(l.real, own) => ModFollow(Acquire(l, c).real, new)
           /\ UsageFollow(l.down, uown) => UsageFollow(Acquire(l, c).down, unew)
    <1> DEFINE r == Register(l, c.mods)
    <1>1. c.mods \in SUBSET Mods /\ c.uses \in SUBSET Usages /\ MaxCount \in Nat
        BY DEF ConstantsOK, Parts
    <1>2. r \in Ledgers /\ r.leased = l.leased /\ r.down = l.down
        BY <1>1, RegisterType
    <1>3. \A m \in Mods : new[m] <= MaxCount
        <2> SUFFICES ASSUME NEW m \in Mods PROVE new[m] <= MaxCount
            OBVIOUS
        <2>1. l.managed[m] \in 0 .. MaxCount
            BY DEF Ledgers
        <2> QED
            BY <1>1, <2>1 DEF CanAcquire, One
    <1>4. /\ \A m \in Mods : r.managed[m] = new[m]
          /\ ModFollow(l.real, own) => ModFollow(r.real, new)
        BY <1>1, <1>3, RegisterKeeps
    <1> HIDE DEF r
    <1>5. /\ Acquire(l, c).managed = r.managed /\ Acquire(l, c).real = r.real
          /\ Acquire(l, c).down = r.down \cup c.uses
          /\ Acquire(l, c).leased =
                 [u \in Usages |-> IF u \in c.uses THEN r.leased[u] + 1 ELSE r.leased[u]]
        BY <1>2 DEF Acquire, Ledgers, r
    <1>6. \A u \in Usages : unew[u] = IF u \in c.uses THEN uown[u] + 1 ELSE uown[u]
        BY DEF One
    <1>7. \A u \in Usages : Acquire(l, c).leased[u] = unew[u]
        BY <1>2, <1>5, <1>6
    <1>8. UsageFollow(l.down, uown) => UsageFollow(l.down \cup c.uses, unew)
        BY <1>6 DEF UsageFollow
    <1> QED
        BY <1>2, <1>4, <1>5, <1>7, <1>8

LEMMA ReleaseKeeps ==
    ASSUME ConstantsOK, NEW l \in Ledgers, NEW c \in Keycodes,
           NEW own \in [Mods -> Nat], NEW new \in [Mods -> Nat],
           NEW uown \in [Usages -> Nat], NEW unew \in [Usages -> Nat],
           native \in [Usages -> Nat],
           report \in [Mods -> Nat], \A m \in Mods : SettledOn(m) => report[m] > 0,
           \A m \in Mods : l.managed[m] = own[m],
           \A u \in Usages : l.leased[u] = uown[u],
           \A m \in Mods : own[m] = new[m] + One(m \in c.mods),
           \A u \in Usages : uown[u] = unew[u] + One(u \in c.uses)
    PROVE  /\ \A m \in Mods : Release(l, c).managed[m] = new[m]
           /\ \A u \in Usages : Release(l, c).leased[u] = unew[u]
           /\ ModFollow(l.real, own) => ModFollow(Release(l, c).real, new)
           /\ UsageFollow(l.down, uown) => UsageFollow(Release(l, c).down, unew)
    <1> DEFINE r == Unregister(l, c.mods)
               g == {u \in c.uses : l.leased[u] = 1 /\ native[u] = 0}
    <1>1. c.mods \in SUBSET Mods /\ c.uses \in SUBSET Usages
        BY DEF ConstantsOK, Parts
    <1>2. r \in Ledgers /\ r.leased = l.leased /\ r.down = l.down
        BY <1>1, UnregisterType
    <1>3. CanRelease(l, c)
        BY <1>1 DEF CanRelease, One
    <1>4. /\ \A m \in Mods : r.managed[m] = new[m]
          /\ ModFollow(l.real, own) => ModFollow(r.real, new)
        BY <1>1, UnregisterKeeps
    <1>6. \A u \in Usages : uown[u] = IF u \in c.uses THEN unew[u] + 1 ELSE unew[u]
        BY DEF One
    <1>8. UsageFollow(l.down, uown) => UsageFollow(l.down \ g, unew)
        BY <1>6 DEF UsageFollow
    <1> HIDE DEF r, g
    <1>5. /\ Release(l, c).managed = r.managed /\ Release(l, c).real = r.real
          /\ Release(l, c).down = r.down \ g
          /\ Release(l, c).leased =
                 [u \in Usages |-> IF u \in c.uses THEN r.leased[u] - 1 ELSE r.leased[u]]
        BY <1>2, <1>3 DEF Release, Ledgers, r, g
    <1>7. \A u \in Usages : Release(l, c).leased[u] = unew[u]
        BY <1>2, <1>5, <1>6
    <1> QED
        BY <1>2, <1>4, <1>5, <1>7, <1>8

-----------------------------------------------------------------------------
(* Counting owners.                                                        *)

LEMMA AddOne ==
    ASSUME NEW S, NEW x, IsFiniteSet(S), x \notin S
    PROVE  Cardinality(S \cup {x}) = Cardinality(S) + 1
    BY FS_AddElement, FS_CardinalityType

LEMMA KeysBound ==
    ASSUME ConstantsOK, NEW S \in SUBSET Keys
    PROVE  /\ IsFiniteSet(S) /\ Cardinality(S) \in Nat
           /\ Cardinality(S) <= Cardinality(Keys) /\ Cardinality(Keys) \in Nat
           /\ Cardinality(S) <= MaxCount - 3
           /\ (Cardinality(S) > 0) <=> (S # {})
    BY FS_Subset, FS_CardinalityType, FS_EmptySet DEF ConstantsOK

(* A set of keys that differs in at most k alone.                          *)
LEMMA ChangeOne ==
    ASSUME ConstantsOK, NEW S \in SUBSET Keys, NEW T \in SUBSET Keys, NEW k \in Keys,
           S \ {k} = T \ {k}
    PROVE  Cardinality(T) + One(k \in S) = Cardinality(S) + One(k \in T)
    <1> DEFINE A == S \ {k}
    <1>1. IsFiniteSet(A) /\ k \notin A /\ Cardinality(A) \in Nat
        BY KeysBound
    <1>2. Cardinality(A \cup {k}) = Cardinality(A) + 1
        BY <1>1, AddOne
    <1>3. (k \in S => S = A \cup {k}) /\ (k \notin S => S = A)
        OBVIOUS
    <1>4. (k \in T => T = A \cup {k}) /\ (k \notin T => T = A)
        OBVIOUS
    <1> HIDE DEF A
    <1>5. Cardinality(S) = Cardinality(A) + One(k \in S)
        <2>1. CASE k \in S
            BY <1>2, <1>3, <2>1 DEF One
        <2>2. CASE k \notin S
            BY <1>1, <1>3, <2>2 DEF One
        <2> QED
            BY <2>1, <2>2
    <1>6. Cardinality(T) = Cardinality(A) + One(k \in T)
        <2>1. CASE k \in T
            BY <1>2, <1>4, <2>1 DEF One
        <2>2. CASE k \notin T
            BY <1>1, <1>4, <2>2 DEF One
        <2> QED
            BY <2>1, <2>2
    <1> QED
        BY <1>1, <1>5, <1>6 DEF One

-----------------------------------------------------------------------------
(* An operation that turns a modifier or changes its bit leaves the two in *)
(* step, whatever they were before: so a modifier a replay parted mends.   *)

Mended(l, l2) == \A m \in Mods :
    ~(m \in l.real <=> m \in l2.real) \/ ~(l.managed[m] > 0 <=> l2.managed[m] > 0)
    => /\ m \in l2.real => l2.managed[m] > 0 \/ report[m] > 0
       /\ l2.managed[m] > 0 => m \in l2.real

LEMMA MendedTwice ==
    ASSUME NEW l, NEW l2, NEW l3, Mended(l, l2), Mended(l2, l3) PROVE Mended(l, l3)
    BY DEF Mended

LEMMA RegisterMends ==
    ASSUME ConstantsOK, NEW l \in Ledgers, NEW ms \in SUBSET Mods
    PROVE  Mended(l, Register(l, ms))
    <1> SUFFICES ASSUME NEW m \in Mods,
                        \/ ~(m \in l.real <=> m \in Register(l, ms).real)
                        \/ ~(l.managed[m] > 0 <=> Register(l, ms).managed[m] > 0)
                 PROVE  m \in Register(l, ms).real /\ Register(l, ms).managed[m] > 0
        BY DEF Mended
    <1>1. MaxCount \in Nat /\ MaxCount > 0
        <2>1. Cardinality(Keys) \in Nat
            BY KeysBound
        <2> QED
            BY <2>1 DEF ConstantsOK
    <1>2. /\ Register(l, ms).real = l.real \cup ms
          /\ Register(l, ms).managed[m] =
                 IF m \in ms /\ l.managed[m] < MaxCount THEN l.managed[m] + 1 ELSE l.managed[m]
        BY DEF Register, Ledgers
    <1>3. l.managed[m] \in 0 .. MaxCount
        BY DEF Ledgers
    <1> QED
        BY <1>1, <1>2, <1>3

LEMMA UnregisterMends ==
    ASSUME ConstantsOK, NEW l \in Ledgers, NEW ms \in SUBSET Mods, report \in [Mods -> Nat]
    PROVE  Mended(l, Unregister(l, ms))
    <1> DEFINE r == Unregister(l, ms)
    <1> SUFFICES ASSUME NEW m \in Mods,
                        \/ ~(m \in l.real <=> m \in r.real)
                        \/ ~(l.managed[m] > 0 <=> r.managed[m] > 0)
                 PROVE  /\ m \in r.real => r.managed[m] > 0 \/ report[m] > 0
                        /\ r.managed[m] > 0 => m \in r.real
        BY DEF Mended
    <1>1. MaxCount \in Nat
        BY DEF ConstantsOK
    <1>2. /\ r.real = l.real \ {x \in ms : l.managed[x] = 1 /\ report[x] = 0}
          /\ r.managed[m] = IF m \in ms /\ l.managed[m] > 0 THEN l.managed[m] - 1 ELSE l.managed[m]
        BY DEF Unregister, Ledgers
    <1>3. l.managed[m] \in 0 .. MaxCount /\ report[m] \in Nat
        BY DEF Ledgers
    <1> HIDE DEF r
    <1>4. m \in ms /\ l.managed[m] = 1
        BY <1>1, <1>2, <1>3
    <1> QED
        BY <1>2, <1>3, <1>4

LEMMA AcquireMends ==
    ASSUME ConstantsOK, NEW l \in Ledgers, NEW c \in Keycodes
    PROVE  Mended(l, Acquire(l, c))
    <1> DEFINE r == Register(l, c.mods)
    <1>1. c.mods \in SUBSET Mods
        BY DEF ConstantsOK, Parts
    <1>2. r \in Ledgers /\ Mended(l, r)
        BY <1>1, RegisterType, RegisterMends
    <1>3. CASE CanAcquire(l, c)
        <2> HIDE DEF r
        <2>1. Acquire(l, c).managed = r.managed /\ Acquire(l, c).real = r.real
            BY <1>2, <1>3 DEF Acquire, Ledgers, r
        <2> QED
            BY <1>2, <2>1 DEF Mended
    <1>4. CASE ~CanAcquire(l, c)
        BY <1>4 DEF Acquire, Mended
    <1> QED
        BY <1>3, <1>4

LEMMA ReleaseMends ==
    ASSUME ConstantsOK, NEW l \in Ledgers, NEW c \in Keycodes, report \in [Mods -> Nat]
    PROVE  Mended(l, Release(l, c))
    <1> DEFINE r == Unregister(l, c.mods)
    <1>1. c.mods \in SUBSET Mods
        BY DEF ConstantsOK, Parts
    <1>2. r \in Ledgers /\ Mended(l, r)
        BY <1>1, UnregisterType, UnregisterMends
    <1>3. CASE CanRelease(l, c)
        <2> HIDE DEF r
        <2>1. Release(l, c).managed = r.managed /\ Release(l, c).real = r.real
            BY <1>2, <1>3 DEF Release, Ledgers, r
        <2> QED
            BY <1>2, <2>1 DEF Mended
    <1>4. CASE ~CanRelease(l, c)
        BY <1>4 DEF Release, Mended
    <1> QED
        BY <1>3, <1>4

LEMMA DropHeldMends ==
    ASSUME ConstantsOK, NEW l \in Ledgers, NEW k \in Keys, TypeOK
    PROVE  Mended(l, DropHeld(l, k)) /\ Mended(l, DropHeldMod(l, k))
    <1>1. report \in [Mods -> Nat]
        BY DEF TypeOK, ConstantsOK
    <1>2. /\ lease[k] # None => lease[k] \in Keycodes
          /\ heldMod[k] # None => {heldMod[k]} \in SUBSET Mods
        BY DEF TypeOK
    <1>3. Mended(l, DropHeld(l, k))
        BY <1>1, <1>2, ReleaseMends DEF DropHeld, Mended
    <1>4. Mended(l, DropHeldMod(l, k))
        BY <1>1, <1>2, UnregisterMends DEF DropHeldMod, Mended
    <1> QED
        BY <1>3, <1>4

-----------------------------------------------------------------------------
(* Type correctness.                                                       *)

LEMMA LedgerType ==
    ASSUME TypeOK PROVE Ledger \in Ledgers
    BY DEF TypeOK, Ledger, Ledgers

LEMMA BecomesType ==
    ASSUME NEW l \in Ledgers, Becomes(l)
    PROVE  /\ managed' \in [Mods -> 0 .. MaxCount] /\ real' \in SUBSET Mods
           /\ leased' \in [Usages -> 0 .. MaxCount] /\ down' \in SUBSET Usages
    BY DEF Becomes, Ledgers

LEMMA DropHeldModType ==
    ASSUME ConstantsOK, TypeOK, NEW l \in Ledgers, NEW k \in Keys
    PROVE  DropHeldMod(l, k) \in Ledgers
    <1>1. heldMod[k] # None => {heldMod[k]} \in SUBSET Mods
        BY DEF TypeOK
    <1> QED
        BY <1>1, UnregisterType DEF DropHeldMod

LEMMA DropHeldType ==
    ASSUME ConstantsOK, TypeOK, NEW l \in Ledgers, NEW k \in Keys
    PROVE  DropHeld(l, k) \in Ledgers
    <1>1. lease[k] # None => lease[k] \in Keycodes
        BY DEF TypeOK
    <1> QED
        BY <1>1, ReleaseType DEF DropHeld

LEMMA BumpType ==
    ASSUME NEW D, NEW f \in [D -> 0 .. MaxCount], NEW s, NEW by \in Int
    PROVE  Bump(f, s, by) \in [D -> 0 .. MaxCount]
    BY DEF Bump

LEMMA StraysType == ASSUME TypeOK, Strays PROVE stray' \in SUBSET Mods
    BY DEF Strays, Turned, TypeOK

LEMMA TypeInvariant == ASSUME ConstantsOK PROVE Spec => []TypeOK
    <1>1. Init => TypeOK
        <2> SUFFICES ASSUME Init PROVE TypeOK
            OBVIOUS
        <2>1. MaxCount \in Nat /\ MaxWaiting \in Nat
            BY DEF ConstantsOK
        <2> QED
            BY <2>1 DEF Init, TypeOK
    <1>2. TypeOK /\ [Next]_vars => TypeOK'
        <2> SUFFICES ASSUME TypeOK, [Next]_vars PROVE TypeOK'
            OBVIOUS
        <2>0. MaxCount \in Nat /\ MaxWaiting \in Nat /\ Ledger \in Ledgers
            BY LedgerType DEF ConstantsOK
        <2>1. ASSUME NEW k \in Keys, NEW m \in Mods, HoldModifier(k, m) PROVE TypeOK'
            <3> DEFINE l == DropHeldMod(Ledger, k)
                       r == IF HolderOf(m) = {} THEN Register(l, {m}) ELSE l
            <3>1. r \in Ledgers
                BY <2>0, DropHeldModType, RegisterType
            <3>2. Becomes(r)
                BY <2>1 DEF HoldModifier
            <3> HIDE DEF r
            <3>3. heldMod' \in [Keys -> Mods \cup {None}]
                BY <2>1 DEF HoldModifier, TypeOK
            <3> QED
                BY <2>1, <3>1, <3>2, <3>3, BecomesType, StraysType DEF HoldModifier, TypeOK, keyState
        <2>2. ASSUME NEW k \in Keys, NEW c \in Keycodes, HoldAction(k, c) PROVE TypeOK'
            <3> DEFINE r == Acquire(DropHeld(Ledger, k), c)
            <3>1. r \in Ledgers
                BY <2>0, DropHeldType, AcquireType
            <3>2. Becomes(r)
                BY <2>2 DEF HoldAction
            <3> HIDE DEF r
            <3>3. /\ held' \in [Keys -> Keycodes \cup {None}]
                  /\ lease' \in [Keys -> Keycodes \cup {None}]
                BY <2>2 DEF HoldAction, TypeOK
            <3> QED
                BY <2>2, <3>1, <3>2, <3>3, BecomesType, StraysType DEF HoldAction, TypeOK, keyState
        <2>3. ASSUME NEW k \in Keys, ReleaseOwned(k) PROVE TypeOK'
            <3>1. /\ heldMod' \in [Keys -> Mods \cup {None}]
                  /\ held' \in [Keys -> Keycodes \cup {None}]
                  /\ lease' \in [Keys -> Keycodes \cup {None}]
                BY <2>3 DEF ReleaseOwned, TypeOK
            <3>2. \E l \in Ledgers : Becomes(l)
                BY <2>0, <2>3, DropHeldType, DropHeldModType DEF ReleaseOwned
            <3> QED
                BY <2>3, <3>1, <3>2, BecomesType, StraysType DEF ReleaseOwned, TypeOK, keyState
        <2>4. ASSUME NEW ms \in ModeMods \cup {{}}, EnterMode(ms) PROVE TypeOK'
            <3> DEFINE r == Register(Unregister(Ledger, mode), ms)
            <3>1. ms \in SUBSET Mods
                BY DEF ConstantsOK
            <3>2. r \in Ledgers
                BY <2>0, <3>1, RegisterType, UnregisterType DEF TypeOK
            <3>3. Becomes(r)
                BY <2>4 DEF EnterMode
            <3> HIDE DEF r
            <3> QED
                BY <2>4, <3>1, <3>2, <3>3, BecomesType, StraysType DEF EnterMode, TypeOK, keyState
        <2>5. ASSUME NEW c \in Keycodes, TapDown(c) PROVE TypeOK'
            <3>1. Acquire(Ledger, c) \in Ledgers
                BY <2>0, AcquireType
            <3> QED
                BY <2>5, <3>1, BecomesType, StraysType DEF TapDown, TypeOK, bindings, keyState
        <2>6. CASE TapUp
            <3>1. Release(Ledger, tap) \in Ledgers
                BY <2>0, <2>6, ReleaseType DEF TapUp, TypeOK
            <3> QED
                BY <2>6, <3>1, BecomesType, StraysType DEF TapUp, TypeOK, bindings, keyState
        <2>7. ASSUME NEW ms \in SUBSET Mods, ReplayBegin(ms) PROVE TypeOK'
            BY <2>7 DEF ReplayBegin, TypeOK, counts, bindings, keyState
        <2>8. CASE ReplayEnd
            BY <2>8 DEF ReplayEnd, InReplay, TypeOK, counts, bindings, keyState
        <2>9. ASSUME NEW k \in Keys, NEW d \in BOOLEAN, Arrive(k, d) PROVE TypeOK'
            <3>1. physical' \in [Mods -> 0 .. MaxCount]
                BY <2>9, BumpType DEF Arrive, TypeOK
            <3>2. waiting' \in [Keys -> 0 .. MaxWaiting]
                BY <2>0, <2>9 DEF Arrive, TypeOK
            <3> QED
                BY <2>9, <3>1, <3>2, StraysType DEF Arrive, TypeOK, bindings
        <2>10. ASSUME NEW k \in Keys, EventBegin(k) PROVE TypeOK'
            <3>1. waiting' \in [Keys -> 0 .. MaxWaiting]
                BY <2>0, <2>10 DEF EventBegin, TypeOK
            <3>2. masked' \in SUBSET Mods /\ real' \in SUBSET Mods
                BY <2>10 DEF EventBegin, TypeOK, ManagedOnly
            <3>3. event' \in [key : Keys, down : BOOLEAN]
                BY <2>10 DEF EventBegin
            <3> QED
                BY <2>10, <3>1, <3>2, <3>3, StraysType DEF EventBegin, TypeOK, counts, bindings
        <2>11. CASE Consumed
            BY <2>11, StraysType DEF Consumed, EventOver, ManagedOnly, TypeOK, bindings
        <2>12. ASSUME NativePress \/ NativeRelease PROVE TypeOK'
            <3> DEFINE c == KeycodeOf[event.key]
            <3>1. /\ event.key \in Keys
                  /\ c.real \in SUBSET Mods /\ c.uses \in SUBSET Usages
                BY <2>12 DEF NativePress, NativeRelease, EventOver, TypeOK, ConstantsOK, Parts
            <3>2. native' \in [Usages -> 0 .. MaxCount] /\ report' \in [Mods -> 0 .. MaxCount]
                BY <2>12, BumpType DEF NativePress, NativeRelease, Credit, TypeOK
            <3>3. /\ real' \in SUBSET Mods /\ down' \in SUBSET Usages
                  /\ sent' \in SUBSET Keys
                BY <2>12, <3>1 DEF NativePress, NativeRelease, ManagedOnly, TypeOK
            <3> QED
                BY <2>12, <3>2, <3>3, StraysType
                DEF NativePress, NativeRelease, EventOver, TypeOK, bindings
        <2>13. CASE UNCHANGED vars
            BY <2>13 DEF vars, counts, bindings, keyState, TypeOK
        <2> QED
            BY <2>1, <2>2, <2>3, <2>4, <2>5, <2>6, <2>7, <2>8, <2>9, <2>10, <2>11,
               <2>12, <2>13
            DEF Next, Hold, Emit, KeyEvent, ArrivePress, ArriveRelease
    <1> QED
        BY <1>1, <1>2, PTL DEF Spec

(* Every reachable state is well typed: no count leaves a uint8_t, a lease *)
(* is of a keycode and the report holds modifiers and usages only.         *)
THEOREM TypeCorrect == Spec => []TypeOK
    BY TypeInvariant, ConstantsOK

-----------------------------------------------------------------------------
(* The inductive invariant.                                                *)

MO == [m \in Mods |-> ModOwners(m)]
SO == [m \in Mods |-> StandingOwners(m)]
UO == [u \in Usages |-> UsageOwners(u)]

(* The report, or what a replay will make of it.                           *)
Base == IF InReplay THEN saved ELSE real

(* A modifier a replay parted is in the report with no managed owner, or   *)
(* has one and is not there.                                               *)
Apart == \A m \in stray : /\ m \in Base => MO[m] = 0
                          /\ m \in masked => m \in Base

Follows == UsageFollow(down, UO) /\ ModFollow(Base, MO) /\ Apart

PhysicalKeys(m) == {k \in pressed : m \in KeycodeOf[k].real}

(* An edge's direction, and the settled state of a key whose press was     *)
(* sent, both follow from the parity of its waiting edges.                 *)
Even(k) == waiting[k] % 2 = 0

Edges ==
    /\ \A k \in sent :
           event = None \/ event.key # k => (k \in pressed <=> Even(k))
    /\ event # None =>
           /\ event.down <=> (event.key \in pressed <=> Even(event.key))
           /\ event.down => event.key \notin sent

Mask ==
    /\ masked # {} => event # None
    /\ \A m \in masked : physical[m] = 0

IInv ==
    /\ TypeOK
    /\ CountsMatchOwners
    /\ \A m \in Mods : physical[m] = Cardinality(PhysicalKeys(m))
    /\ Edges
    /\ Mask
    /\ Follows

Guarded == ConstantsOK /\ ComboKeys = {}

(* The owners of a part are a number no larger than the ledger can count.  *)
LEMMA OwnersBound ==
    ASSUME ConstantsOK, TypeOK
    PROVE  /\ MO \in [Mods -> Nat] /\ SO \in [Mods -> Nat] /\ UO \in [Usages -> Nat]
           /\ \A m \in Mods : MO[m] <= MaxCount
    <1>1. \A m \in Mods : ModLeases(m) \in SUBSET Keys
        BY DEF ModLeases
    <1>2. \A u \in Usages : UsageLeases(u) \in SUBSET Keys
        BY DEF UsageLeases
    <1>3. MaxCount \in Nat
        BY DEF ConstantsOK
    <1>4. \A m \in Mods : /\ Cardinality(ModLeases(m)) \in Nat
                          /\ Cardinality(ModLeases(m)) <= MaxCount - 3
        BY <1>1, KeysBound
    <1>5. \A u \in Usages : Cardinality(UsageLeases(u)) \in Nat
        BY <1>2, KeysBound
    <1>6. /\ \A u \in Usages : One(tap # None /\ u \in tap.uses) \in 0 .. 1
          /\ \A m \in Mods : /\ One(tap # None /\ m \in tap.mods) \in 0 .. 1
                            /\ One(HolderOf(m) # {}) \in 0 .. 1
                            /\ One(m \in mode) \in 0 .. 1
        BY DEF One
    <1>7. \A m \in Mods : /\ StandingOwners(m) \in Nat /\ ModOwners(m) \in Nat
                          /\ ModOwners(m) <= MaxCount
        BY <1>3, <1>4, <1>6 DEF StandingOwners, ModOwners
    <1>8. \A u \in Usages : UsageOwners(u) \in Nat
        BY <1>5, <1>6 DEF UsageOwners
    <1> QED
        BY <1>7, <1>8 DEF MO, SO, UO

LEMMA SettledCounts ==
    ASSUME ConstantsOK, IInv
    PROVE  /\ report \in [Mods -> Nat] /\ native \in [Usages -> Nat]
           /\ \A m \in Mods : SettledOn(m) => report[m] > 0
           /\ \A m \in Mods : SettledOn(m) => m \notin masked
    <1>1. MaxCount \in Nat
        BY DEF ConstantsOK
    <1>2. /\ report \in [Mods -> 0 .. MaxCount] /\ native \in [Usages -> 0 .. MaxCount]
          /\ sent \in SUBSET Keys /\ pressed \in SUBSET Keys
        BY DEF IInv, TypeOK
    <1>3. ASSUME NEW m \in Mods, SettledOn(m) PROVE report[m] > 0 /\ m \notin masked
        <2>1. PICK k \in ModKeys(m) : Settled(k)
            BY <1>3 DEF SettledOn
        <2>2. /\ k \in PhysicalKeys(m) /\ PhysicalKeys(m) \in SUBSET Keys
              /\ k \in ModKeys(m) /\ ModKeys(m) \in SUBSET Keys
            BY <1>2, <2>1 DEF ModKeys, PhysicalKeys, Settled
        <2>3. Cardinality(ModKeys(m)) > 0 /\ Cardinality(PhysicalKeys(m)) > 0
            BY <2>2, KeysBound
        <2>4. report[m] > 0 /\ physical[m] > 0
            BY <2>3 DEF IInv, CountsMatchOwners
        <2> QED
            BY <2>4 DEF IInv, Mask
    <1> QED
        BY <1>1, <1>2, <1>3

(* A step of the ledger keeps the invariant when the counts it leaves are  *)
(* the owners it leaves and the report follows them.                       *)
LEMMA LedgerStep ==
    ASSUME ConstantsOK, IInv, TypeOK', NEW l \in Ledgers, Becomes(l),
           UNCHANGED <<report, physical, native, keyState, saved>>,
           NEW own \in [Mods -> Nat], NEW uown \in [Usages -> Nat],
           MO' = own, UO' = uown,
           \A m \in Mods : l.managed[m] = own[m],
           \A u \in Usages : l.leased[u] = uown[u],
           UsageFollow(l.down, uown),
           ~InReplay => ModFollow(l.real, own),
           Strays, Mended(Ledger, l)
    PROVE  IInv'
    <1>1. /\ managed' = l.managed /\ leased' = l.leased
          /\ real' = l.real /\ down' = l.down
        BY DEF Becomes
    <1>2. /\ report' = report /\ physical' = physical /\ native' = native
          /\ pressed' = pressed /\ waiting' = waiting /\ sent' = sent
          /\ event' = event /\ masked' = masked /\ saved' = saved
        BY DEF keyState
    <1>3. CountsMatchOwners'
        <2>1. ASSUME NEW m \in Mods
              PROVE  managed'[m] = ModOwners(m)' /\ report'[m] = Cardinality(ModKeys(m)')
            <3>1. MO'[m] = ModOwners(m)'
                BY DEF MO
            <3>2. ModKeys(m)' = ModKeys(m)
                BY <1>2 DEF ModKeys
            <3> QED
                BY <1>1, <1>2, <3>1, <3>2 DEF IInv, CountsMatchOwners
        <2>2. ASSUME NEW u \in Usages
              PROVE  leased'[u] = UsageOwners(u)' /\ native'[u] = Cardinality(UsageKeys(u)')
            <3>1. UO'[u] = UsageOwners(u)'
                BY DEF UO
            <3>2. UsageKeys(u)' = UsageKeys(u)
                BY <1>2 DEF UsageKeys
            <3> QED
                BY <1>1, <1>2, <3>1, <3>2 DEF IInv, CountsMatchOwners
        <2> QED
            BY <2>1, <2>2 DEF CountsMatchOwners
    <1>4. (\A m \in Mods : physical[m] = Cardinality(PhysicalKeys(m)))'
        BY <1>2 DEF IInv, PhysicalKeys
    <1>5. Edges' /\ Mask'
        BY <1>2 DEF IInv, Edges, Even, Mask
    <1>6. \A m \in Mods : SettledOn(m)' <=> SettledOn(m)
        BY <1>2 DEF SettledOn, ModKeys, Settled
    <1>7. UsageFollow(down, UO)'
        BY <1>1, <1>2 DEF UsageFollow
    <1>8. /\ Ledger.real = real /\ Ledger.managed = managed
          /\ \A m \in Mods : managed[m] = MO[m] /\ managed'[m] = MO'[m]
          /\ \A m \in Mods : MO[m] \in Nat /\ MO'[m] \in Nat
        BY <1>1, OwnersBound DEF IInv, CountsMatchOwners, MO, Ledger
    <1>9. ASSUME NEW m \in Mods
          PROVE  /\ m \in Base' /\ m \notin stray' => MO'[m] > 0 \/ report'[m] > 0
                 /\ m \notin masked' /\ ((MO'[m] > 0 /\ m \notin stray') \/ SettledOn(m)')
                    => m \in Base'
                 /\ m \in stray' => /\ m \in Base' => MO'[m] = 0
                                    /\ m \in masked' => m \in Base'
        <2>1. /\ m \in Base /\ m \notin stray => MO[m] > 0 \/ report[m] > 0
              /\ m \notin masked /\ ((MO[m] > 0 /\ m \notin stray) \/ SettledOn(m)) => m \in Base
              /\ m \in stray => (m \in Base => MO[m] = 0) /\ (m \in masked => m \in Base)
            BY DEF IInv, Follows, ModFollow, Apart
        <2>2. CASE InReplay
            <3>1. Base = saved /\ Base' = saved
                BY <1>2, <2>2 DEF Base, InReplay
            <3>2. m \in stray' <=>
                      \/ m \in stray /\ (MO[m] > 0 <=> MO'[m] > 0)
                      \/ /\ ~(MO[m] > 0 <=> MO'[m] > 0) /\ ~(m \in masked /\ m \notin saved)
                         /\ ~(m \in saved <=> MO'[m] > 0 \/ report[m] > 0)
                BY <1>8, <2>2 DEF Strays, Turned
            <3> QED
                BY <1>2, <1>6, <1>8, <2>1, <3>1, <3>2
        <2>3. CASE ~InReplay
            <3>1. Base = real /\ Base' = real'
                BY <1>2, <2>3 DEF Base, InReplay
            <3>2. m \in stray' <=> m \in stray /\ (MO[m] > 0 <=> MO'[m] > 0)
                                   /\ (m \in real <=> m \in real')
                BY <1>2, <1>8, <2>3 DEF Strays, Turned
            <3>3. ~(m \in real <=> m \in real') \/ ~(MO[m] > 0 <=> MO'[m] > 0)
                  => /\ m \in real' => MO'[m] > 0 \/ report[m] > 0
                     /\ MO'[m] > 0 => m \in real'
                BY <1>1, <1>8 DEF Mended
            <3>4. /\ m \in real' /\ m \notin stray => MO'[m] > 0 \/ report[m] > 0
                  /\ m \notin masked /\ ((MO'[m] > 0 /\ m \notin stray) \/ SettledOn(m)) => m \in real'
                BY <1>1, <2>3 DEF ModFollow
            <3> QED
                BY <1>2, <1>6, <1>8, <2>1, <3>1, <3>2, <3>3, <3>4
        <2> QED
            BY <2>2, <2>3
    <1>10. ModFollow(Base, MO)'
        BY <1>9 DEF ModFollow
    <1>11. Apart'
        BY <1>9 DEF Apart, TypeOK
    <1> QED
        BY <1>3, <1>4, <1>5, <1>7, <1>10, <1>11 DEF IInv, Follows

(* The owners there are besides the lease of key k.                        *)
ModsBut(k) == [m \in Mods |->
    Cardinality(ModLeases(m) \ {k}) + One(HolderOf(m) # {}) + One(m \in mode)
    + One(tap # None /\ m \in tap.mods)]
UsagesBut(k) == [u \in Usages |->
    Cardinality(UsageLeases(u) \ {k}) + One(tap # None /\ u \in tap.uses)]

LEMMA ButKey ==
    ASSUME ConstantsOK, NEW S \in SUBSET Keys, NEW k \in Keys
    PROVE  /\ Cardinality(S \ {k}) \in Nat
           /\ Cardinality(S) = Cardinality(S \ {k}) + One(k \in S)
    <1>1. One(k \in S \ {k}) = 0
        BY DEF One
    <1>2. S \ {k} \in SUBSET Keys /\ (S \ {k}) \ {k} = S \ {k}
        OBVIOUS
    <1>3. Cardinality(S \ {k}) + One(k \in S) = Cardinality(S) + One(k \in S \ {k})
        BY <1>2, ChangeOne
    <1>4. Cardinality(S) \in Nat /\ Cardinality(S \ {k}) \in Nat
        BY <1>2, KeysBound
    <1> QED
        BY <1>1, <1>3, <1>4

LEMMA LeaseOwners ==
    ASSUME ConstantsOK, TypeOK, NEW k \in Keys
    PROVE  /\ ModsBut(k) \in [Mods -> Nat] /\ UsagesBut(k) \in [Usages -> Nat]
           /\ \A m \in Mods :
                  MO[m] = ModsBut(k)[m] + One(lease[k] # None /\ m \in lease[k].mods)
           /\ \A u \in Usages :
                  UO[u] = UsagesBut(k)[u] + One(lease[k] # None /\ u \in lease[k].uses)
    <1>1. ASSUME NEW m \in Mods
          PROVE  /\ ModsBut(k)[m] \in Nat
                 /\ MO[m] = ModsBut(k)[m] + One(lease[k] # None /\ m \in lease[k].mods)
        <2>1. ModLeases(m) \in SUBSET Keys
            BY DEF ModLeases
        <2>2. k \in ModLeases(m) <=> lease[k] # None /\ m \in lease[k].mods
            BY DEF ModLeases
        <2>3. One(k \in ModLeases(m)) = One(lease[k] # None /\ m \in lease[k].mods)
            BY <2>2 DEF One
        <2>4. /\ Cardinality(ModLeases(m) \ {k}) \in Nat
              /\ Cardinality(ModLeases(m)) = Cardinality(ModLeases(m) \ {k})
                     + One(lease[k] # None /\ m \in lease[k].mods)
            BY <2>1, <2>3, ButKey
        <2>5. /\ One(tap # None /\ m \in tap.mods) \in 0 .. 1
              /\ One(HolderOf(m) # {}) \in 0 .. 1 /\ One(m \in mode) \in 0 .. 1
              /\ One(lease[k] # None /\ m \in lease[k].mods) \in 0 .. 1
            BY DEF One
        <2> QED
            BY <2>4, <2>5 DEF MO, ModOwners, StandingOwners, ModsBut
    <1>2. ASSUME NEW u \in Usages
          PROVE  /\ UsagesBut(k)[u] \in Nat
                 /\ UO[u] = UsagesBut(k)[u] + One(lease[k] # None /\ u \in lease[k].uses)
        <2>1. UsageLeases(u) \in SUBSET Keys
            BY DEF UsageLeases
        <2>2. k \in UsageLeases(u) <=> lease[k] # None /\ u \in lease[k].uses
            BY DEF UsageLeases
        <2>3. One(k \in UsageLeases(u)) = One(lease[k] # None /\ u \in lease[k].uses)
            BY <2>2 DEF One
        <2>4. /\ Cardinality(UsageLeases(u) \ {k}) \in Nat
              /\ Cardinality(UsageLeases(u)) = Cardinality(UsageLeases(u) \ {k})
                     + One(lease[k] # None /\ u \in lease[k].uses)
            BY <2>1, <2>3, ButKey
        <2>5. /\ One(tap # None /\ u \in tap.uses) \in 0 .. 1
              /\ One(lease[k] # None /\ u \in lease[k].uses) \in 0 .. 1
            BY DEF One
        <2> QED
            BY <2>4, <2>5 DEF UO, UsageOwners, UsagesBut
    <1>3. ModsBut(k) \in [Mods -> Nat]
        BY <1>1 DEF ModsBut
    <1>4. UsagesBut(k) \in [Usages -> Nat]
        BY <1>2 DEF UsagesBut
    <1> QED
        BY <1>1, <1>2, <1>3, <1>4

LeaseSplit == \A k \in Keys :
    /\ \A m \in Mods :
           MO[m] = ModsBut(k)[m] + One(lease[k] # None /\ m \in lease[k].mods)
    /\ \A u \in Usages :
           UO[u] = UsagesBut(k)[u] + One(lease[k] # None /\ u \in lease[k].uses)

LEMMA LeaseOwnersPrimed == ASSUME ConstantsOK PROVE TypeOK' => LeaseSplit'
    <1>1. TypeOK => LeaseSplit
        BY LeaseOwners DEF LeaseSplit
    <1> QED
        BY <1>1, PTL

LEMMA LeaseOwnersAfter ==
    ASSUME ConstantsOK, TypeOK', NEW k \in Keys,
           NEW x, lease' = [lease EXCEPT ![k] = x], TypeOK,
           UNCHANGED <<heldMod, mode, tap>>
    PROVE  /\ \A m \in Mods : MO'[m] = ModsBut(k)[m] + One(x # None /\ m \in x.mods)
           /\ \A u \in Usages : UO'[u] = UsagesBut(k)[u] + One(x # None /\ u \in x.uses)
    <1>0. lease \in [Keys -> Keycodes \cup {None}]
        BY DEF TypeOK
    <1>1. \A m \in Mods : (ModLeases(m) \ {k})' = ModLeases(m) \ {k}
        BY <1>0 DEF ModLeases
    <1>2. \A u \in Usages : (UsageLeases(u) \ {k})' = UsageLeases(u) \ {k}
        BY <1>0 DEF UsageLeases
    <1>3. ModsBut(k)' = ModsBut(k)
        <2>1. \A m \in Mods : One(HolderOf(m) # {})' = One(HolderOf(m) # {})
            BY DEF HolderOf
        <2>2. \A m \in Mods : Cardinality(ModLeases(m) \ {k})' = Cardinality(ModLeases(m) \ {k})
            BY <1>1
        <2> QED
            BY <2>1, <2>2 DEF ModsBut
    <1>6. UsagesBut(k)' = UsagesBut(k)
        BY <1>2 DEF UsagesBut
    <1>4. lease'[k] = x
        BY <1>0
    <1>5. /\ \A m \in Mods :
                 MO'[m] = ModsBut(k)'[m] + One(lease'[k] # None /\ m \in lease'[k].mods)
          /\ \A u \in Usages :
                 UO'[u] = UsagesBut(k)'[u] + One(lease'[k] # None /\ u \in lease'[k].uses)
        BY LeaseOwnersPrimed DEF LeaseSplit
    <1> QED
        BY <1>3, <1>4, <1>5, <1>6

LEMMA OwnersBoundPrimed ==
    ASSUME ConstantsOK
    PROVE  TypeOK' => /\ MO' \in [Mods -> Nat] /\ SO' \in [Mods -> Nat]
                      /\ UO' \in [Usages -> Nat]
                      /\ \A m \in Mods : MO'[m] <= MaxCount
    <1> DEFINE Bounded == /\ MO \in [Mods -> Nat] /\ SO \in [Mods -> Nat]
                          /\ UO \in [Usages -> Nat]
                          /\ \A m \in Mods : MO[m] <= MaxCount
    <1>1. TypeOK => Bounded
        BY OwnersBound
    <1> HIDE DEF Bounded
    <1>2. TypeOK' => Bounded'
        BY <1>1, PTL
    <1> QED
        BY <1>2 DEF Bounded

(* Before any operation the ledger counts the owners.                      *)
LEMMA LedgerCounts ==
    ASSUME ConstantsOK, IInv
    PROVE  /\ Ledger \in Ledgers
           /\ \A m \in Mods : Ledger.managed[m] = MO[m]
           /\ \A u \in Usages : Ledger.leased[u] = UO[u]
           /\ UsageFollow(Ledger.down, UO)
           /\ ~InReplay => ModFollow(Ledger.real, MO)
    <1>1. Ledger \in Ledgers
        BY LedgerType DEF IInv
    <1>2. \A m \in Mods : managed[m] = MO[m]
        BY DEF IInv, CountsMatchOwners, MO
    <1>3. \A u \in Usages : leased[u] = UO[u]
        BY DEF IInv, CountsMatchOwners, UO
    <1> QED
        BY <1>1, <1>2, <1>3 DEF IInv, Follows, Ledger, Base

LEMMA DropHeldKeeps ==
    ASSUME ConstantsOK, IInv, NEW k \in Keys
    PROVE  /\ DropHeld(Ledger, k) \in Ledgers
           /\ \A m \in Mods : DropHeld(Ledger, k).managed[m] = ModsBut(k)[m]
           /\ \A u \in Usages : DropHeld(Ledger, k).leased[u] = UsagesBut(k)[u]
           /\ UsageFollow(DropHeld(Ledger, k).down, UsagesBut(k))
           /\ ~InReplay => ModFollow(DropHeld(Ledger, k).real, ModsBut(k))
    <1>0. TypeOK
        BY DEF IInv
    <1>1. DropHeld(Ledger, k) \in Ledgers
        BY <1>0, LedgerType, DropHeldType
    <1>2. /\ ModsBut(k) \in [Mods -> Nat] /\ UsagesBut(k) \in [Usages -> Nat]
          /\ \A m \in Mods :
                 MO[m] = ModsBut(k)[m] + One(lease[k] # None /\ m \in lease[k].mods)
          /\ \A u \in Usages :
                 UO[u] = UsagesBut(k)[u] + One(lease[k] # None /\ u \in lease[k].uses)
        BY <1>0, LeaseOwners
    <1>3. CASE lease[k] = None
        <2>1. /\ \A m \in Mods : MO[m] = ModsBut(k)[m]
              /\ \A u \in Usages : UO[u] = UsagesBut(k)[u]
            BY <1>2, <1>3 DEF One
        <2>2. MO = ModsBut(k) /\ UO = UsagesBut(k)
            BY <2>1 DEF MO, UO, ModsBut, UsagesBut
        <2> QED
            BY <1>1, <1>3, <2>2, LedgerCounts DEF DropHeld
    <1>4. CASE lease[k] # None
        <2>1. lease[k] \in Keycodes
            BY <1>0, <1>4 DEF TypeOK
        <2>2. /\ \A m \in Mods : MO[m] = ModsBut(k)[m] + One(m \in lease[k].mods)
              /\ \A u \in Usages : UO[u] = UsagesBut(k)[u] + One(u \in lease[k].uses)
            BY <1>2, <1>4
        <2>3. MO \in [Mods -> Nat] /\ UO \in [Usages -> Nat]
            BY <1>0, OwnersBound
        <2>4. /\ Ledger \in Ledgers
              /\ \A m \in Mods : Ledger.managed[m] = MO[m]
              /\ \A u \in Usages : Ledger.leased[u] = UO[u]
              /\ UsageFollow(Ledger.down, UO)
              /\ ~InReplay => ModFollow(Ledger.real, MO)
            BY LedgerCounts
        <2>5. /\ report \in [Mods -> Nat] /\ native \in [Usages -> Nat]
              /\ \A m \in Mods : SettledOn(m) => report[m] > 0
            BY SettledCounts
        <2>6. DropHeld(Ledger, k) = Release(Ledger, lease[k])
            BY <1>4 DEF DropHeld
        <2> DEFINE c == lease[k]
                   own == MO
                   new == ModsBut(k)
                   uown == UO
                   unew == UsagesBut(k)
        <2>7. /\ c \in Keycodes
              /\ own \in [Mods -> Nat] /\ new \in [Mods -> Nat]
              /\ uown \in [Usages -> Nat] /\ unew \in [Usages -> Nat]
              /\ \A m \in Mods : Ledger.managed[m] = own[m]
              /\ \A u \in Usages : Ledger.leased[u] = uown[u]
              /\ \A m \in Mods : own[m] = new[m] + One(m \in c.mods)
              /\ \A u \in Usages : uown[u] = unew[u] + One(u \in c.uses)
            BY <1>2, <2>1, <2>2, <2>3, <2>4
        <2> HIDE DEF c, own, new, uown, unew
        <2>8. /\ \A m \in Mods : Release(Ledger, c).managed[m] = new[m]
              /\ \A u \in Usages : Release(Ledger, c).leased[u] = unew[u]
              /\ ModFollow(Ledger.real, own) => ModFollow(Release(Ledger, c).real, new)
              /\ UsageFollow(Ledger.down, uown) => UsageFollow(Release(Ledger, c).down, unew)
            BY <2>4, <2>5, <2>7, ReleaseKeeps, SMTT(60)
        <2> QED
            BY <1>1, <2>4, <2>6, <2>8 DEF c, own, new, uown, unew
    <1> QED
        BY <1>3, <1>4

LEMMA HoldActionStep ==
    ASSUME Guarded, IInv, TypeOK', NEW k \in Keys, NEW c \in Keycodes, HoldAction(k, c)
    PROVE  IInv'
    <1> DEFINE l == DropHeld(Ledger, k)
               x == IF CanAcquire(l, c) THEN c ELSE None
    <1>0. ConstantsOK /\ TypeOK
        BY DEF Guarded, IInv
    <1>1. /\ l \in Ledgers
          /\ \A m \in Mods : l.managed[m] = ModsBut(k)[m]
          /\ \A u \in Usages : l.leased[u] = UsagesBut(k)[u]
          /\ UsageFollow(l.down, UsagesBut(k))
          /\ ~InReplay => ModFollow(l.real, ModsBut(k))
        BY <1>0, DropHeldKeeps
    <1>2. Becomes(Acquire(l, c)) /\ lease' = [lease EXCEPT ![k] = x]
        BY DEF HoldAction
    <1>3. /\ UNCHANGED <<heldMod, mode, tap>>
          /\ UNCHANGED <<report, physical, native, keyState, saved>> /\ Strays
        BY DEF HoldAction
    <1>11. Mended(Ledger, Acquire(l, c))
        <2>1. Mended(Ledger, l)
            BY <1>0, LedgerType, DropHeldMends
        <2> HIDE DEF l
        <2>2. Mended(l, Acquire(l, c))
            BY <1>0, <1>1, AcquireMends
        <2> QED
            BY <2>1, <2>2, MendedTwice
    <1> HIDE DEF l
    <1>4. x = IF CanAcquire(l, c) THEN c ELSE None
        OBVIOUS
    <1> HIDE DEF x
    <1>5. /\ \A m \in Mods : MO'[m] = ModsBut(k)[m] + One(x # None /\ m \in x.mods)
          /\ \A u \in Usages : UO'[u] = UsagesBut(k)[u] + One(x # None /\ u \in x.uses)
        BY <1>0, <1>2, <1>3, LeaseOwnersAfter
    <1>6. MO' \in [Mods -> Nat] /\ UO' \in [Usages -> Nat]
        BY <1>0, OwnersBoundPrimed
    <1>7. ModsBut(k) \in [Mods -> Nat] /\ UsagesBut(k) \in [Usages -> Nat]
        BY <1>0, LeaseOwners
    <1>8. Acquire(l, c) \in Ledgers
        BY <1>0, <1>1, AcquireType
    <1>9. CASE CanAcquire(l, c)
        <2>1. x = c /\ c # None
            BY <1>0, <1>4, <1>9 DEF ConstantsOK
        <2>2. /\ \A m \in Mods : MO'[m] = ModsBut(k)[m] + One(m \in c.mods)
              /\ \A u \in Usages : UO'[u] = UsagesBut(k)[u] + One(u \in c.uses)
            BY <1>5, <2>1
        <2>3. native \in [Usages -> Nat]
            BY <1>0, SettledCounts
        <2>4. /\ \A m \in Mods : Acquire(l, c).managed[m] = MO'[m]
              /\ \A u \in Usages : Acquire(l, c).leased[u] = UO'[u]
              /\ ~InReplay => ModFollow(Acquire(l, c).real, MO')
              /\ UsageFollow(Acquire(l, c).down, UO')
            BY <1>0, <1>1, <1>6, <1>7, <1>9, <2>2, <2>3, AcquireKeeps
        <2> QED
            BY <1>0, <1>2, <1>3, <1>6, <1>8, <1>11, <2>4, LedgerStep
    <1>10. CASE ~CanAcquire(l, c)
        <2>1. Acquire(l, c) = l /\ x = None
            BY <1>4, <1>10 DEF Acquire
        <2>2. /\ \A m \in Mods : MO'[m] = ModsBut(k)[m]
              /\ \A u \in Usages : UO'[u] = UsagesBut(k)[u]
            BY <1>5, <1>7, <2>1 DEF One
        <2>3. MO' = ModsBut(k) /\ UO' = UsagesBut(k)
            BY <1>6, <1>7, <2>2
        <2> QED
            BY <1>0, <1>1, <1>2, <1>3, <1>6, <1>11, <2>1, <2>3, LedgerStep
    <1> QED
        BY <1>9, <1>10

LEMMA ReleaseHeldStep ==
    ASSUME Guarded, IInv, TypeOK', NEW k \in Keys, ~InReplay,
           Becomes(DropHeld(Ledger, k)), lease' = [lease EXCEPT ![k] = None],
           UNCHANGED <<heldMod, mode, tap>>,
           UNCHANGED <<report, physical, native, keyState, saved>>, Strays
    PROVE  IInv'
    <1> DEFINE l == DropHeld(Ledger, k)
    <1>0. ConstantsOK /\ TypeOK
        BY DEF Guarded, IInv
    <1>1. /\ l \in Ledgers
          /\ \A m \in Mods : l.managed[m] = ModsBut(k)[m]
          /\ \A u \in Usages : l.leased[u] = UsagesBut(k)[u]
          /\ UsageFollow(l.down, UsagesBut(k)) /\ ModFollow(l.real, ModsBut(k))
        BY <1>0, DropHeldKeeps
    <1>2. Becomes(l) /\ Mended(Ledger, l)
        BY <1>0, LedgerType, DropHeldMends
    <1> HIDE DEF l
    <1>5. /\ \A m \in Mods : MO'[m] = ModsBut(k)[m] + One(None # None /\ m \in None.mods)
          /\ \A u \in Usages : UO'[u] = UsagesBut(k)[u] + One(None # None /\ u \in None.uses)
        BY <1>0, LeaseOwnersAfter
    <1>6. MO' \in [Mods -> Nat] /\ UO' \in [Usages -> Nat]
        BY <1>0, OwnersBoundPrimed
    <1>7. ModsBut(k) \in [Mods -> Nat] /\ UsagesBut(k) \in [Usages -> Nat]
        BY <1>0, LeaseOwners
    <1>8. /\ \A m \in Mods : MO'[m] = ModsBut(k)[m]
          /\ \A u \in Usages : UO'[u] = UsagesBut(k)[u]
        BY <1>5, <1>7 DEF One
    <1>9. MO' = ModsBut(k) /\ UO' = UsagesBut(k)
        BY <1>6, <1>7, <1>8
    <1> QED
        BY <1>0, <1>1, <1>2, <1>6, <1>9, LedgerStep

(* Held modifiers: the owners without key k's, and one owner for all the   *)
(* keys that hold the same modifier.                                       *)
HoldersBut(k) == [m \in Mods |->
    Cardinality(ModLeases(m)) + One(HolderOf(m) \ {k} # {}) + One(m \in mode)
    + One(tap # None /\ m \in tap.mods)]

LEMMA HoldersButType ==
    ASSUME ConstantsOK, TypeOK, NEW k \in Keys
    PROVE  HoldersBut(k) \in [Mods -> Nat]
    <1> SUFFICES ASSUME NEW m \in Mods PROVE HoldersBut(k)[m] \in Nat
        BY DEF HoldersBut
    <1>1. ModLeases(m) \in SUBSET Keys
        BY DEF ModLeases
    <1>2. Cardinality(ModLeases(m)) \in Nat
        BY <1>1, KeysBound
    <1>3. /\ One(tap # None /\ m \in tap.mods) \in 0 .. 1
          /\ One(HolderOf(m) \ {k} # {}) \in 0 .. 1 /\ One(m \in mode) \in 0 .. 1
        BY DEF One
    <1> QED
        BY <1>2, <1>3 DEF HoldersBut

LEMMA DropHeldModKeeps ==
    ASSUME ConstantsOK, IInv, NEW k \in Keys
    PROVE  LET l == DropHeldMod(Ledger, k) IN
           /\ l \in Ledgers /\ l.leased = leased /\ l.down = down
           /\ \A m \in Mods : l.managed[m] = HoldersBut(k)[m]
           /\ ~InReplay => ModFollow(l.real, HoldersBut(k))
    <1> DEFINE o == heldMod[k]
               new == HoldersBut(k)
               own == MO
    <1>0. TypeOK
        BY DEF IInv
    <1>1. DropHeldMod(Ledger, k) \in Ledgers
        BY <1>0, LedgerType, DropHeldModType
    <1>2. new \in [Mods -> Nat] /\ own \in [Mods -> Nat]
        BY <1>0, HoldersButType, OwnersBound
    <1>3. \A m \in Mods :
              own[m] = Cardinality(ModLeases(m)) + One(HolderOf(m) # {}) + One(m \in mode)
                       + One(tap # None /\ m \in tap.mods)
        BY DEF MO, ModOwners, StandingOwners
    <1>4. \A m \in Mods : k \in HolderOf(m) <=> m = o
        BY DEF HolderOf
    <1>5. /\ Ledger \in Ledgers
          /\ \A m \in Mods : Ledger.managed[m] = own[m]
          /\ ~InReplay => ModFollow(Ledger.real, own)
          /\ Ledger.leased = leased /\ Ledger.down = down
        BY LedgerCounts DEF Ledger
    <1>6. ASSUME NEW m \in Mods, ~(o # None /\ m = o /\ HolderOf(m) = {k})
          PROVE  own[m] = new[m]
        <2>1. HolderOf(m) # {} <=> HolderOf(m) \ {k} # {}
            <3>1. o \in Mods \cup {None} /\ None \notin Mods
                BY <1>0 DEF TypeOK, ConstantsOK
            <3>2. m = o => HolderOf(m) # {k}
                BY <1>6, <3>1
            <3> QED
                BY <1>4, <3>2
        <2>2. One(HolderOf(m) # {}) = One(HolderOf(m) \ {k} # {})
            BY <2>1 DEF One
        <2> QED
            BY <1>3, <2>2 DEF HoldersBut
    <1>7. CASE o # None /\ HolderOf(o) = {k}
        <2>1. o \in Mods
            BY <1>0, <1>7 DEF TypeOK
        <2>2. ASSUME NEW m \in Mods PROVE own[m] = new[m] + One(m \in {o})
            <3>1. CASE m = o
                <4>1. One(HolderOf(m) # {}) = 1 /\ One(HolderOf(m) \ {k} # {}) = 0
                      /\ One(m \in {o}) = 1
                    BY <1>7, <3>1 DEF One
                <4>2. new[m] = Cardinality(ModLeases(m)) + 0 + One(m \in mode)
                               + One(tap # None /\ m \in tap.mods)
                    BY <4>1 DEF HoldersBut
                <4>3. own[m] = Cardinality(ModLeases(m)) + 1 + One(m \in mode)
                               + One(tap # None /\ m \in tap.mods)
                    BY <1>3, <4>1
                <4>4. /\ Cardinality(ModLeases(m)) \in Nat
                      /\ One(m \in mode) \in Nat /\ One(tap # None /\ m \in tap.mods) \in Nat
                    <5>1. ModLeases(m) \in SUBSET Keys
                        BY DEF ModLeases
                    <5> QED
                        BY <5>1, KeysBound DEF One
                <4> QED
                    BY <4>1, <4>2, <4>3, <4>4
            <3>2. CASE m # o
                <4>1. own[m] = new[m]
                    BY <1>6, <3>2
                <4>2. One(m \in {o}) = 0
                    BY <3>2 DEF One
                <4> QED
                    BY <1>2, <4>1, <4>2
            <3> QED
                BY <3>1, <3>2
        <2>3. /\ report \in [Mods -> Nat]
              /\ \A m \in Mods : SettledOn(m) => report[m] > 0
            BY SettledCounts
        <2>4. DropHeldMod(Ledger, k) = Unregister(Ledger, {o}) /\ {o} \in SUBSET Mods
            BY <1>7, <2>1 DEF DropHeldMod
        <2> DEFINE ms == {o}
        <2>5. \A m \in Mods : own[m] = new[m] + One(m \in ms)
            BY <2>2
        <2>6. ms \in SUBSET Mods /\ DropHeldMod(Ledger, k) = Unregister(Ledger, ms)
            BY <2>4
        <2> HIDE DEF o, new, own, ms
        <2>7. /\ \A m \in Mods : Unregister(Ledger, ms).managed[m] = new[m]
              /\ ModFollow(Ledger.real, own) => ModFollow(Unregister(Ledger, ms).real, new)
            BY <1>2, <1>5, <2>3, <2>5, <2>6, UnregisterKeeps
        <2>8. /\ Unregister(Ledger, ms).leased = Ledger.leased
              /\ Unregister(Ledger, ms).down = Ledger.down
            BY <1>5, <2>6, UnregisterType
        <2> QED
            BY <1>1, <1>5, <2>6, <2>7, <2>8 DEF new
    <1>8. CASE ~(o # None /\ HolderOf(o) = {k})
        <2>1. DropHeldMod(Ledger, k) = Ledger
            BY <1>8 DEF DropHeldMod
        <2>2. \A m \in Mods : own[m] = new[m]
            BY <1>6, <1>8
        <2> HIDE DEF new, own
        <2>3. own = new
            BY <1>2, <2>2
        <2> QED
            BY <1>1, <1>5, <2>1, <2>3 DEF new
    <1> QED
        BY <1>7, <1>8

LEMMA HoldersAfter ==
    ASSUME ConstantsOK, TypeOK, NEW k \in Keys, NEW x, x # heldMod[k],
           heldMod' = [heldMod EXCEPT ![k] = x], UNCHANGED <<lease, mode, tap>>
    PROVE  /\ UO' = UO
           /\ \A m \in Mods : MO'[m] = HoldersBut(k)[m] + One(m = x /\ HolderOf(m) = {})
    <1>0. heldMod \in [Keys -> Mods \cup {None}]
        BY DEF TypeOK
    <1>1. UO' = UO
        <2>1. \A u \in Usages : UsageLeases(u)' = UsageLeases(u)
            BY DEF UsageLeases
        <2> QED
            BY <2>1 DEF UO, UsageOwners
    <1>2. ASSUME NEW m \in Mods
          PROVE  MO'[m] = HoldersBut(k)[m] + One(m = x /\ HolderOf(m) = {})
        <2>1. ModLeases(m)' = ModLeases(m) /\ ModLeases(m) \in SUBSET Keys
            BY DEF ModLeases
        <2>2. HolderOf(m)' = IF m = x THEN HolderOf(m) \cup {k} ELSE HolderOf(m) \ {k}
            BY <1>0 DEF HolderOf
        <2>3. m = x => HolderOf(m) \ {k} = HolderOf(m)
            BY DEF HolderOf
        <2>4. One(HolderOf(m)' # {}) = One(HolderOf(m) \ {k} # {}) + One(m = x /\ HolderOf(m) = {})
            <3>1. CASE m = x /\ HolderOf(m) = {}
                BY <2>2, <2>3, <3>1 DEF One
            <3>2. CASE m = x /\ HolderOf(m) # {}
                BY <2>2, <2>3, <3>2 DEF One
            <3>3. CASE m # x
                BY <2>2, <3>3 DEF One
            <3> QED
                BY <3>1, <3>2, <3>3
        <2>5. MO'[m] = Cardinality(ModLeases(m)) + One(HolderOf(m)' # {}) + One(m \in mode)
                       + One(tap # None /\ m \in tap.mods)
            BY <2>1 DEF MO, ModOwners, StandingOwners
        <2>6. HoldersBut(k)[m] =
                  Cardinality(ModLeases(m)) + One(HolderOf(m) \ {k} # {}) + One(m \in mode)
                  + One(tap # None /\ m \in tap.mods)
            BY DEF HoldersBut
        <2>7. /\ Cardinality(ModLeases(m)) \in Nat /\ One(m \in mode) \in Nat
              /\ One(tap # None /\ m \in tap.mods) \in Nat
              /\ One(HolderOf(m) \ {k} # {}) \in Nat
              /\ One(m = x /\ HolderOf(m) = {}) \in Nat
            BY <2>1, KeysBound DEF One
        <2> DEFINE a == Cardinality(ModLeases(m))
                   b == One(HolderOf(m)' # {})
                   b0 == One(HolderOf(m) \ {k} # {})
                   b1 == One(m = x /\ HolderOf(m) = {})
                   c == One(m \in mode)
                   d == One(tap # None /\ m \in tap.mods)
        <2>8. /\ b = b0 + b1 /\ MO'[m] = a + b + c + d
              /\ HoldersBut(k)[m] = a + b0 + c + d
              /\ a \in Nat /\ b0 \in Nat /\ b1 \in Nat /\ c \in Nat /\ d \in Nat
            BY <2>4, <2>5, <2>6, <2>7
        <2> HIDE DEF a, b, b0, b1, c, d
        <2>9. MO'[m] = HoldersBut(k)[m] + b1
            BY <2>8
        <2> QED
            BY <2>9 DEF b1
    <1> QED
        BY <1>1, <1>2

LEMMA HoldModifierStep ==
    ASSUME Guarded, IInv, TypeOK', NEW k \in Keys, NEW x \in Mods, HoldModifier(k, x)
    PROVE  IInv'
    <1> DEFINE l == DropHeldMod(Ledger, k)
               r == IF HolderOf(x) = {} THEN Register(l, {x}) ELSE l
               own == HoldersBut(k)
               new == MO'
    <1>0. ConstantsOK /\ TypeOK
        BY DEF Guarded, IInv
    <1>1. /\ l \in Ledgers /\ l.leased = leased /\ l.down = down
          /\ \A m \in Mods : l.managed[m] = own[m]
          /\ ~InReplay => ModFollow(l.real, own)
        BY <1>0, DropHeldModKeeps
    <1>2. /\ UNCHANGED <<report, physical, native, keyState, saved>>
          /\ UNCHANGED <<lease, mode, tap>> /\ Becomes(r)
          /\ heldMod' = [heldMod EXCEPT ![k] = x] /\ heldMod[k] # x
          /\ Strays
        BY DEF HoldModifier
    <1>8. Mended(Ledger, l)
        BY <1>0, LedgerType, DropHeldMends
    <1>3. own \in [Mods -> Nat] /\ new \in [Mods -> Nat] /\ UO' \in [Usages -> Nat]
          /\ \A m \in Mods : new[m] <= MaxCount
        BY <1>0, HoldersButType, OwnersBoundPrimed
    <1>4. UO' = UO /\ \A m \in Mods : new[m] = own[m] + One(m = x /\ HolderOf(m) = {})
        BY <1>0, <1>2, HoldersAfter
    <1>5. (\A u \in Usages : l.leased[u] = UO'[u]) /\ UsageFollow(l.down, UO')
        BY <1>0, <1>1, <1>4, LedgerCounts DEF Ledger
    <1>6. CASE HolderOf(x) = {}
        <2> DEFINE ms == {x}
        <2>1. \A m \in Mods : new[m] = own[m] + One(m \in ms)
            BY <1>4, <1>6 DEF One
        <2>2. ms \in SUBSET Mods /\ r = Register(l, ms)
            BY <1>6
        <2> HIDE DEF ms, l, own, new, r
        <2>3. /\ r \in Ledgers /\ r.leased = l.leased /\ r.down = l.down
            BY <1>0, <1>1, <2>2, RegisterType
        <2>4. /\ \A m \in Mods : r.managed[m] = new[m]
              /\ ModFollow(l.real, own) => ModFollow(r.real, new)
            BY <1>0, <1>1, <1>3, <2>1, <2>2, RegisterKeeps, SMTT(30)
        <2>5. Mended(Ledger, r)
            BY <1>0, <1>1, <1>8, <2>2, RegisterMends, MendedTwice
        <2> QED
            BY <1>0, <1>1, <1>2, <1>3, <1>5, <2>3, <2>4, <2>5, LedgerStep DEF new
    <1>7. CASE HolderOf(x) # {}
        <2>1. \A m \in Mods : new[m] = own[m]
            BY <1>3, <1>4, <1>7 DEF One
        <2>2. r = l
            BY <1>7
        <2> HIDE DEF l, own, new, r
        <2>3. new = own
            BY <1>3, <2>1
        <2> QED
            BY <1>0, <1>1, <1>2, <1>3, <1>5, <1>8, <2>2, <2>3, LedgerStep DEF new
    <1> QED
        BY <1>6, <1>7

LEMMA ReleaseOwnedStep ==
    ASSUME Guarded, IInv, TypeOK', NEW k \in Keys, ReleaseOwned(k)
    PROVE  IInv'
    <1>0. ConstantsOK /\ ~InReplay /\ TypeOK
        BY DEF Guarded, ReleaseOwned, IInv
    <1>1. UNCHANGED <<mode, tap>> /\ UNCHANGED <<report, physical, native, keyState, saved>>
          /\ Strays
        BY DEF ReleaseOwned
    <1>2. CASE /\ Becomes(DropHeld(Ledger, k))
               /\ lease' = [lease EXCEPT ![k] = None] /\ UNCHANGED heldMod
        BY <1>0, <1>1, <1>2, ReleaseHeldStep
    <1>3. CASE /\ heldMod[k] # None /\ Becomes(DropHeldMod(Ledger, k))
               /\ heldMod' = [heldMod EXCEPT ![k] = None] /\ UNCHANGED lease
        <2> DEFINE l == DropHeldMod(Ledger, k)
                   own == HoldersBut(k)
                   new == MO'
        <2>1. /\ l \in Ledgers /\ l.leased = leased /\ l.down = down
              /\ \A m \in Mods : l.managed[m] = own[m]
              /\ ModFollow(l.real, own)
            BY <1>0, DropHeldModKeeps
        <2>2. own \in [Mods -> Nat] /\ new \in [Mods -> Nat] /\ UO' \in [Usages -> Nat]
            BY <1>0, HoldersButType, OwnersBoundPrimed
        <2>3. UO' = UO
              /\ \A m \in Mods : new[m] = own[m] + One(m = None /\ HolderOf(m) = {})
            BY <1>0, <1>1, <1>3, HoldersAfter
        <2>4. \A m \in Mods : m # None
            BY <1>0 DEF ConstantsOK
        <2>5. (\A u \in Usages : l.leased[u] = UO'[u]) /\ UsageFollow(l.down, UO')
            BY <1>0, <2>1, <2>3, LedgerCounts DEF Ledger
        <2>6. Becomes(l) /\ Mended(Ledger, l)
            BY <1>0, <1>3, LedgerType, DropHeldMends
        <2> HIDE DEF l, own, new
        <2>7. \A m \in Mods : new[m] = own[m]
            BY <2>2, <2>3, <2>4 DEF One
        <2>8. new = own
            BY <2>2, <2>7
        <2> QED
            BY <1>0, <1>1, <2>1, <2>2, <2>5, <2>6, <2>8, LedgerStep DEF new
    <1> QED
        BY <1>2, <1>3 DEF ReleaseOwned

(* The running mode and the tap are one owner each of their modifiers.     *)
ModeBut == [m \in Mods |->
    Cardinality(ModLeases(m)) + One(HolderOf(m) # {}) + One(tap # None /\ m \in tap.mods)]

LEMMA ModeOwners ==
    ASSUME ConstantsOK, UNCHANGED <<lease, heldMod, tap>>
    PROVE  /\ ModeBut \in [Mods -> Nat]
           /\ \A m \in Mods : /\ MO[m] = ModeBut[m] + One(m \in mode)
                              /\ MO'[m] = ModeBut[m] + One(m \in mode')
           /\ UO' = UO
    <1>1. ASSUME NEW m \in Mods
          PROVE  /\ ModeBut[m] \in Nat
                 /\ MO[m] = ModeBut[m] + One(m \in mode)
                 /\ MO'[m] = ModeBut[m] + One(m \in mode')
        <2>1. ModLeases(m)' = ModLeases(m) /\ ModLeases(m) \in SUBSET Keys
            BY DEF ModLeases
        <2>2. HolderOf(m)' = HolderOf(m)
            BY DEF HolderOf
        <2> DEFINE a == Cardinality(ModLeases(m))
                   b == One(HolderOf(m) # {})
                   c == One(m \in mode)
                   c1 == One(m \in mode')
                   d == One(tap # None /\ m \in tap.mods)
        <2>3. /\ a \in Nat /\ b \in Nat /\ c \in Nat /\ c1 \in Nat /\ d \in Nat
            BY <2>1, KeysBound DEF One
        <2>4. ModeBut[m] = a + b + d /\ MO[m] = a + b + c + d
            BY DEF ModeBut, MO, ModOwners, StandingOwners
        <2>5. MO'[m] = a + b + c1 + d
            BY <2>1, <2>2 DEF MO, ModOwners, StandingOwners
        <2> HIDE DEF a, b, c, c1, d
        <2>6. /\ ModeBut[m] \in Nat /\ MO[m] = ModeBut[m] + c /\ MO'[m] = ModeBut[m] + c1
            BY <2>3, <2>4, <2>5
        <2> QED
            BY <2>6 DEF c, c1
    <1>2. \A u \in Usages : UsageLeases(u)' = UsageLeases(u)
        BY DEF UsageLeases
    <1>3. UO' = UO
        BY <1>2 DEF UO, UsageOwners
    <1>4. ModeBut \in [Mods -> Nat]
        BY <1>1 DEF ModeBut
    <1> QED
        BY <1>1, <1>3, <1>4

LEMMA EnterModeStep ==
    ASSUME Guarded, IInv, TypeOK', NEW ms \in SUBSET Mods, EnterMode(ms)
    PROVE  IInv'
    <1> DEFINE l == Unregister(Ledger, mode)
               r == Register(l, ms)
               own == MO
               mid == ModeBut
               new == MO'
    <1>0. ConstantsOK /\ TypeOK /\ mode \in SUBSET Mods
        BY DEF Guarded, IInv, TypeOK
    <1>1. /\ UNCHANGED <<report, physical, native, keyState, saved>>
          /\ UNCHANGED <<lease, heldMod, tap>> /\ Becomes(r) /\ mode' = ms
          /\ Strays
        BY DEF EnterMode
    <1>2. /\ own \in [Mods -> Nat] /\ mid \in [Mods -> Nat] /\ new \in [Mods -> Nat]
          /\ UO' \in [Usages -> Nat] /\ \A m \in Mods : new[m] <= MaxCount
        BY <1>0, <1>1, ModeOwners, OwnersBound, OwnersBoundPrimed
    <1>3. /\ UO' = UO
          /\ \A m \in Mods : own[m] = mid[m] + One(m \in mode)
          /\ \A m \in Mods : new[m] = mid[m] + One(m \in ms)
        BY <1>0, <1>1, ModeOwners
    <1>4. /\ Ledger \in Ledgers
          /\ \A m \in Mods : Ledger.managed[m] = own[m]
          /\ \A u \in Usages : Ledger.leased[u] = UO[u]
          /\ UsageFollow(Ledger.down, UO)
          /\ ~InReplay => ModFollow(Ledger.real, own)
        BY <1>0, LedgerCounts
    <1>5. report \in [Mods -> Nat] /\ \A m \in Mods : SettledOn(m) => report[m] > 0
        BY <1>0, SettledCounts
    <1> HIDE DEF own, mid, new
    <1>6. /\ \A m \in Mods : l.managed[m] = mid[m]
          /\ ModFollow(Ledger.real, own) => ModFollow(l.real, mid)
        BY <1>0, <1>2, <1>3, <1>4, <1>5, UnregisterKeeps
    <1>7. l \in Ledgers /\ l.leased = Ledger.leased /\ l.down = Ledger.down
        BY <1>0, <1>4, UnregisterType
    <1>10. Mended(Ledger, l)
        BY <1>0, <1>4, <1>5, UnregisterMends
    <1> HIDE DEF l
    <1>11. Mended(Ledger, r)
        <2>1. Mended(l, r)
            BY <1>0, <1>7, RegisterMends
        <2> QED
            BY <1>10, <2>1, MendedTwice
    <1>8. /\ \A m \in Mods : r.managed[m] = new[m]
          /\ ModFollow(l.real, mid) => ModFollow(r.real, new)
        BY <1>0, <1>2, <1>3, <1>6, <1>7, RegisterKeeps
    <1>9. r \in Ledgers /\ r.leased = l.leased /\ r.down = l.down
        BY <1>0, <1>7, RegisterType
    <1> HIDE DEF r
    <1> QED
        BY <1>0, <1>1, <1>2, <1>3, <1>4, <1>6, <1>7, <1>8, <1>9, <1>11, LedgerStep DEF new

LEMMA TapOwners ==
    ASSUME ConstantsOK, TypeOK, UNCHANGED <<lease, heldMod, mode>>
    PROVE  /\ SO' = SO
           /\ \A m \in Mods : /\ SO[m] \in Nat
                              /\ MO[m] = SO[m] + One(tap # None /\ m \in tap.mods)
                              /\ MO'[m] = SO[m] + One(tap' # None /\ m \in tap'.mods)
           /\ \A u \in Usages :
                  /\ Cardinality(UsageLeases(u)) \in Nat
                  /\ UO[u] = Cardinality(UsageLeases(u)) + One(tap # None /\ u \in tap.uses)
                  /\ UO'[u] = Cardinality(UsageLeases(u)) + One(tap' # None /\ u \in tap'.uses)
    <1>1. ASSUME NEW m \in Mods PROVE StandingOwners(m)' = StandingOwners(m)
        <2>1. ModLeases(m)' = ModLeases(m)
            BY DEF ModLeases
        <2>2. HolderOf(m)' = HolderOf(m)
            BY DEF HolderOf
        <2> QED
            BY <2>1, <2>2 DEF StandingOwners
    <1>2. ASSUME NEW u \in Usages
          PROVE  UsageLeases(u)' = UsageLeases(u) /\ Cardinality(UsageLeases(u)) \in Nat
        <2>1. UsageLeases(u)' = UsageLeases(u) /\ UsageLeases(u) \in SUBSET Keys
            BY DEF UsageLeases
        <2> QED
            BY <2>1, KeysBound
    <1>3. SO' = SO
        BY <1>1 DEF SO
    <1>4. \A m \in Mods : /\ MO[m] = SO[m] + One(tap # None /\ m \in tap.mods)
                          /\ MO'[m] = SO[m] + One(tap' # None /\ m \in tap'.mods)
        BY <1>1 DEF MO, SO, ModOwners
    <1>5. \A m \in Mods : SO[m] \in Nat
        BY OwnersBound
    <1>6. \A u \in Usages :
              /\ UO[u] = Cardinality(UsageLeases(u)) + One(tap # None /\ u \in tap.uses)
              /\ UO'[u] = Cardinality(UsageLeases(u)) + One(tap' # None /\ u \in tap'.uses)
        BY <1>2 DEF UO, UsageOwners
    <1> QED
        BY <1>2, <1>3, <1>4, <1>5, <1>6

LEMMA TapDownStep ==
    ASSUME ConstantsOK, IInv, TypeOK', NEW c \in Keycodes, TapDown(c)
    PROVE  IInv'
    <1> DEFINE l == Acquire(Ledger, c)
               own == MO
               new == MO'
               uown == UO
               unew == UO'
    <1>0. TypeOK /\ c # None
        BY DEF IInv, ConstantsOK
    <1>1. /\ UNCHANGED <<report, physical, native, keyState, saved>>
          /\ UNCHANGED <<lease, heldMod, mode>> /\ Becomes(l) /\ Strays
          /\ CanAcquire(Ledger, c) /\ tap = None /\ tap' = c
        BY DEF TapDown, bindings
    <1>2. /\ own \in [Mods -> Nat] /\ new \in [Mods -> Nat]
          /\ uown \in [Usages -> Nat] /\ unew \in [Usages -> Nat]
        BY <1>0, OwnersBound, OwnersBoundPrimed
    <1>4. \A m \in Mods : new[m] = own[m] + One(m \in c.mods)
        <2> SUFFICES ASSUME NEW m \in Mods PROVE MO'[m] = MO[m] + One(m \in c.mods)
            OBVIOUS
        <2>1. /\ MO[m] = SO[m] + One(tap # None /\ m \in tap.mods)
              /\ MO'[m] = SO[m] + One(tap' # None /\ m \in tap'.mods) /\ SO[m] \in Nat
            BY <1>0, <1>1, TapOwners
        <2>2. One(tap # None /\ m \in tap.mods) = 0
            BY <1>1 DEF One
        <2>3. One(tap' # None /\ m \in tap'.mods) = One(m \in c.mods)
            BY <1>0, <1>1 DEF One
        <2> QED
            BY <2>1, <2>2, <2>3
    <1>5. \A u \in Usages : unew[u] = uown[u] + One(u \in c.uses)
        <2> SUFFICES ASSUME NEW u \in Usages PROVE UO'[u] = UO[u] + One(u \in c.uses)
            OBVIOUS
        <2> DEFINE n == Cardinality(UsageLeases(u))
        <2>1. /\ UO[u] = n + One(tap # None /\ u \in tap.uses)
              /\ UO'[u] = n + One(tap' # None /\ u \in tap'.uses) /\ n \in Nat
            BY <1>0, <1>1, TapOwners
        <2> HIDE DEF n
        <2>2. One(tap # None /\ u \in tap.uses) = 0
            BY <1>1 DEF One
        <2>3. One(tap' # None /\ u \in tap'.uses) = One(u \in c.uses)
            BY <1>0, <1>1 DEF One
        <2> QED
            BY <2>1, <2>2, <2>3
    <1>6. /\ Ledger \in Ledgers
          /\ \A m \in Mods : Ledger.managed[m] = own[m]
          /\ \A u \in Usages : Ledger.leased[u] = uown[u]
          /\ UsageFollow(Ledger.down, uown)
          /\ ~InReplay => ModFollow(Ledger.real, own)
        BY LedgerCounts
    <1>7. native \in [Usages -> Nat]
        BY SettledCounts
    <1> HIDE DEF own, new, uown, unew
    <1>8. /\ \A m \in Mods : l.managed[m] = new[m]
          /\ \A u \in Usages : l.leased[u] = unew[u]
          /\ ModFollow(Ledger.real, own) => ModFollow(l.real, new)
          /\ UsageFollow(Ledger.down, uown) => UsageFollow(l.down, unew)
        BY <1>1, <1>2, <1>4, <1>5, <1>6, <1>7, AcquireKeeps, SMTT(60)
    <1>9. l \in Ledgers /\ Mended(Ledger, l)
        BY <1>6, AcquireType, AcquireMends
    <1> HIDE DEF l
    <1> QED
        BY <1>0, <1>1, <1>2, <1>6, <1>8, <1>9, LedgerStep DEF new, unew

LEMMA TapUpStep ==
    ASSUME ConstantsOK, IInv, TypeOK', TapUp
    PROVE  IInv'
    <1> DEFINE c == tap
               l == Release(Ledger, c)
               own == MO
               new == MO'
               uown == UO
               unew == UO'
    <1>0. TypeOK /\ c \in Keycodes
        BY DEF IInv, TypeOK, TapUp
    <1>1. /\ UNCHANGED <<report, physical, native, keyState, saved>>
          /\ UNCHANGED <<lease, heldMod, mode>> /\ Becomes(l) /\ Strays
          /\ tap = c /\ tap # None /\ tap' = None
        BY DEF TapUp, bindings
    <1>2. /\ own \in [Mods -> Nat] /\ new \in [Mods -> Nat]
          /\ uown \in [Usages -> Nat] /\ unew \in [Usages -> Nat]
        BY <1>0, OwnersBound, OwnersBoundPrimed
    <1>6. /\ Ledger \in Ledgers
          /\ \A m \in Mods : Ledger.managed[m] = own[m]
          /\ \A u \in Usages : Ledger.leased[u] = uown[u]
          /\ UsageFollow(Ledger.down, uown)
          /\ ~InReplay => ModFollow(Ledger.real, own)
        BY LedgerCounts
    <1>7. /\ report \in [Mods -> Nat] /\ native \in [Usages -> Nat]
          /\ \A m \in Mods : SettledOn(m) => report[m] > 0
        BY SettledCounts
    <1> HIDE DEF c
    <1>4. \A m \in Mods : own[m] = new[m] + One(m \in c.mods)
        <2> SUFFICES ASSUME NEW m \in Mods PROVE MO[m] = MO'[m] + One(m \in c.mods)
            OBVIOUS
        <2>1. /\ MO[m] = SO[m] + One(tap # None /\ m \in tap.mods)
              /\ MO'[m] = SO[m] + One(tap' # None /\ m \in tap'.mods) /\ SO[m] \in Nat
            BY <1>0, <1>1, TapOwners
        <2>2. One(tap' # None /\ m \in tap'.mods) = 0
            BY <1>1 DEF One
        <2>3. One(tap # None /\ m \in tap.mods) = One(m \in c.mods)
            BY <1>1 DEF One
        <2> QED
            BY <2>1, <2>2, <2>3 DEF One
    <1>5. \A u \in Usages : uown[u] = unew[u] + One(u \in c.uses)
        <2> SUFFICES ASSUME NEW u \in Usages PROVE UO[u] = UO'[u] + One(u \in c.uses)
            OBVIOUS
        <2> DEFINE n == Cardinality(UsageLeases(u))
        <2>1. /\ UO[u] = n + One(tap # None /\ u \in tap.uses)
              /\ UO'[u] = n + One(tap' # None /\ u \in tap'.uses) /\ n \in Nat
            BY <1>0, <1>1, TapOwners
        <2> HIDE DEF n
        <2>2. One(tap' # None /\ u \in tap'.uses) = 0
            BY <1>1 DEF One
        <2>3. One(tap # None /\ u \in tap.uses) = One(u \in c.uses)
            BY <1>1 DEF One
        <2> QED
            BY <2>1, <2>2, <2>3 DEF One
    <1> HIDE DEF own, new, uown, unew
    <1>8. /\ \A m \in Mods : l.managed[m] = new[m]
          /\ \A u \in Usages : l.leased[u] = unew[u]
          /\ ModFollow(Ledger.real, own) => ModFollow(l.real, new)
          /\ UsageFollow(Ledger.down, uown) => UsageFollow(l.down, unew)
        BY <1>0, <1>2, <1>4, <1>5, <1>6, <1>7, ReleaseKeeps, SMTT(60)
    <1>9. l \in Ledgers /\ Mended(Ledger, l)
        BY <1>0, <1>6, <1>7, ReleaseType, ReleaseMends
    <1> HIDE DEF l
    <1> QED
        BY <1>0, <1>1, <1>2, <1>6, <1>8, <1>9, LedgerStep DEF new, unew

LEMMA ReplayStep ==
    ASSUME Guarded, IInv, TypeOK', (\E ms \in SUBSET Mods : ReplayBegin(ms)) \/ ReplayEnd
    PROVE  IInv'
    <1>0. ConstantsOK /\ TypeOK
        BY DEF Guarded, IInv
    <1>1. /\ UNCHANGED <<counts, down, bindings, keyState, tap>> /\ tap = None
          /\ stray' = stray
          /\ \/ ~InReplay /\ saved' = real
             \/ InReplay /\ real' = saved /\ saved' = None
        BY DEF ReplayBegin, ReplayEnd
    <1>2. /\ managed' = managed /\ report' = report /\ physical' = physical
          /\ leased' = leased /\ native' = native /\ down' = down
          /\ pressed' = pressed /\ waiting' = waiting /\ sent' = sent
          /\ event' = event /\ masked' = masked /\ tap' = tap
          /\ lease' = lease /\ heldMod' = heldMod /\ mode' = mode
        BY <1>1 DEF counts, bindings, keyState
    <1>3. /\ \A m \in Mods : ModKeys(m)' = ModKeys(m) /\ ModLeases(m)' = ModLeases(m)
                             /\ HolderOf(m)' = HolderOf(m)
          /\ \A u \in Usages : UsageLeases(u)' = UsageLeases(u)
                               /\ UsageKeys(u)' = UsageKeys(u)
        BY <1>2 DEF ModKeys, ModLeases, HolderOf, UsageLeases, UsageKeys
    <1>4. /\ \A m \in Mods : StandingOwners(m)' = StandingOwners(m)
                             /\ ModOwners(m)' = ModOwners(m)
          /\ \A u \in Usages : UsageOwners(u)' = UsageOwners(u)
        <2>1. \A m \in Mods : StandingOwners(m)' = StandingOwners(m)
            BY <1>2, <1>3 DEF StandingOwners
        <2> QED
            BY <1>2, <1>3, <2>1 DEF ModOwners, UsageOwners
    <1>5. MO' = MO /\ SO' = SO /\ UO' = UO
        BY <1>4 DEF MO, SO, UO
    <1>7. CountsMatchOwners'
        <2>1. ASSUME NEW m \in Mods
              PROVE  managed'[m] = ModOwners(m)' /\ report'[m] = Cardinality(ModKeys(m)')
            BY <1>2, <1>3, <1>4 DEF IInv, CountsMatchOwners
        <2>2. ASSUME NEW u \in Usages
              PROVE  leased'[u] = UsageOwners(u)' /\ native'[u] = Cardinality(UsageKeys(u)')
            BY <1>2, <1>3, <1>4 DEF IInv, CountsMatchOwners
        <2> QED
            BY <2>1, <2>2 DEF CountsMatchOwners
    <1>8. (\A m \in Mods : physical[m] = Cardinality(PhysicalKeys(m)))'
        BY <1>2 DEF IInv, PhysicalKeys
    <1>9. Edges' /\ Mask'
        BY <1>2 DEF IInv, Edges, Even, Mask
    <1>10. \A m \in Mods : SettledOn(m)' <=> SettledOn(m)
        BY <1>2, <1>3 DEF SettledOn, Settled
    <1>11. UsageFollow(down, UO)'
        BY <1>2, <1>5 DEF IInv, Follows, UsageFollow
    <1>12. Base' = Base
        <2>1. CASE ~InReplay /\ saved' = real
            <3>1. InReplay'
                BY <1>0, <2>1 DEF InReplay, TypeOK, ConstantsOK
            <3> QED
                BY <2>1, <3>1 DEF Base
        <2>2. CASE InReplay /\ real' = saved /\ saved' = None
            BY <2>2 DEF Base, InReplay
        <2> QED
            BY <1>1, <2>1, <2>2
    <1>13. ModFollow(Base, MO)'
        BY <1>1, <1>2, <1>5, <1>10, <1>12 DEF IInv, Follows, ModFollow
    <1>14. Apart'
        BY <1>1, <1>2, <1>5, <1>12 DEF IInv, Follows, Apart
    <1> QED
        BY <1>7, <1>8, <1>9, <1>11, <1>13, <1>14 DEF IInv, Follows

-----------------------------------------------------------------------------
(* Native events leave every lease alone.                                  *)

LEMMA OwnersKept ==
    ASSUME UNCHANGED <<bindings, tap>>
    PROVE  /\ MO' = MO /\ SO' = SO /\ UO' = UO
           /\ \A m \in Mods : ModOwners(m)' = ModOwners(m)
           /\ \A u \in Usages : UsageOwners(u)' = UsageOwners(u)
    <1>1. lease' = lease /\ heldMod' = heldMod /\ mode' = mode /\ tap' = tap
        BY DEF bindings
    <1>2. /\ \A m \in Mods : ModLeases(m)' = ModLeases(m) /\ HolderOf(m)' = HolderOf(m)
          /\ \A u \in Usages : UsageLeases(u)' = UsageLeases(u)
        BY <1>1 DEF ModLeases, HolderOf, UsageLeases
    <1>3. \A m \in Mods : StandingOwners(m)' = StandingOwners(m)
        BY <1>1, <1>2 DEF StandingOwners
    <1>4. /\ \A m \in Mods : ModOwners(m)' = ModOwners(m)
          /\ \A u \in Usages : UsageOwners(u)' = UsageOwners(u)
        BY <1>1, <1>2, <1>3 DEF ModOwners, UsageOwners
    <1> QED
        BY <1>3, <1>4 DEF MO, SO, UO

(* An event that masks nothing new mends what its own change puts right.   *)
LEMMA StraysKept ==
    ASSUME TypeOK, Strays, ~InReplay, managed' = managed, masked' = {}
    PROVE  \A m \in Mods : m \in stray' <=> m \in stray /\ (m \in real <=> m \in real')
    <1>1. Turned = {}
        BY DEF Turned
    <1> QED
        BY <1>1 DEF Strays

LEMMA Parity ==
    ASSUME NEW n \in Nat
    PROVE  /\ (n + 1) % 2 = 0 <=> ~(n % 2 = 0)
           /\ n % 2 = 1 <=> ~(n % 2 = 0)
           /\ n > 0 => ((n - 1) % 2 = 0 <=> n % 2 = 1)
    OBVIOUS

LEMMA ArriveStep ==
    ASSUME Guarded, IInv, TypeOK', NEW k \in Keys, NEW d \in BOOLEAN, Arrive(k, d),
           d <=> k \notin pressed
    PROVE  IInv'
    <1>0. ConstantsOK /\ TypeOK /\ ComboKeys = {} /\ MaxCount \in Nat
        BY DEF Guarded, IInv, ConstantsOK
    <1>1. /\ managed' = managed /\ report' = report /\ leased' = leased
          /\ native' = native /\ real' = real /\ down' = down /\ sent' = sent
          /\ event' = event /\ masked' = masked /\ saved' = saved
          /\ event = None /\ ~InReplay
          /\ waiting' = [waiting EXCEPT ![k] = @ + 1]
          /\ pressed' = IF d THEN pressed \cup {k} ELSE pressed \ {k}
          /\ physical' = Bump(physical, KeycodeOf[k].real, IF d THEN 1 ELSE -1)
          /\ UNCHANGED <<bindings, tap>>
        BY <1>0 DEF Arrive
    <1>2. masked = {} /\ masked' = {}
        BY <1>1 DEF IInv, Mask
    <1>3. waiting \in [Keys -> Nat] /\ pressed \in SUBSET Keys /\ sent \in SUBSET Keys
        BY <1>0 DEF TypeOK, ConstantsOK
    <1>4. CountsMatchOwners'
        <2>1. /\ \A m \in Mods : ModKeys(m)' = ModKeys(m)
              /\ \A u \in Usages : UsageKeys(u)' = UsageKeys(u)
            BY <1>1 DEF ModKeys, UsageKeys
        <2>2. /\ \A m \in Mods : ModOwners(m)' = ModOwners(m)
              /\ \A u \in Usages : UsageOwners(u)' = UsageOwners(u)
            BY <1>1, OwnersKept
        <2>3. ASSUME NEW m \in Mods
              PROVE  managed'[m] = ModOwners(m)' /\ report'[m] = Cardinality(ModKeys(m)')
            BY <1>1, <2>1, <2>2 DEF IInv, CountsMatchOwners
        <2>4. ASSUME NEW u \in Usages
              PROVE  leased'[u] = UsageOwners(u)' /\ native'[u] = Cardinality(UsageKeys(u)')
            BY <1>1, <2>1, <2>2 DEF IInv, CountsMatchOwners
        <2> QED
            BY <2>3, <2>4 DEF CountsMatchOwners
    <1>5. ASSUME NEW m \in Mods PROVE physical'[m] = Cardinality(PhysicalKeys(m)')
        <2> DEFINE S == PhysicalKeys(m)
                   T == PhysicalKeys(m)'
        <2>1. S \in SUBSET Keys /\ T \in SUBSET Keys
            BY <1>1, <1>3 DEF PhysicalKeys
        <2>2. T = (IF d THEN pressed \cup {k} ELSE pressed \ {k})
                  \cap {j \in Keys : m \in KeycodeOf[j].real}
            BY <1>1, <1>3 DEF PhysicalKeys
        <2>3. S = pressed \cap {j \in Keys : m \in KeycodeOf[j].real}
            BY <1>3 DEF PhysicalKeys
        <2>4. S \ {k} = T \ {k}
            BY <2>2, <2>3
        <2>5. /\ k \in T <=> d /\ m \in KeycodeOf[k].real
              /\ k \in S <=> ~d /\ m \in KeycodeOf[k].real
            BY <2>2, <2>3
        <2>6. physical[m] = Cardinality(S) /\ physical[m] \in 0 .. MaxCount
            BY <1>0 DEF IInv, TypeOK
        <2>7. /\ Cardinality(S) \in Nat /\ Cardinality(T) \in Nat
              /\ Cardinality(T) <= MaxCount
            BY <1>0, <2>1, KeysBound
        <2>8. Cardinality(T) + One(k \in S) = Cardinality(S) + One(k \in T)
            BY <1>0, <2>1, <2>4, ChangeOne
        <2>9. physical'[m] = IF m \in KeycodeOf[k].real
                                /\ physical[m] + (IF d THEN 1 ELSE -1) \in 0 .. MaxCount
                             THEN physical[m] + (IF d THEN 1 ELSE -1) ELSE physical[m]
            BY <1>0, <1>1 DEF Bump, TypeOK
        <2> HIDE DEF S, T
        <2>10. CASE m \notin KeycodeOf[k].real
            <3>1. One(k \in S) = 0 /\ One(k \in T) = 0
                BY <2>5, <2>10 DEF One
            <3>2. physical'[m] = physical[m]
                BY <2>9, <2>10
            <3> QED
                BY <2>6, <2>7, <2>8, <3>1, <3>2 DEF T
        <2>11. CASE m \in KeycodeOf[k].real /\ d = TRUE
            <3>1. One(k \in S) = 0 /\ One(k \in T) = 1
                BY <2>5, <2>11 DEF One
            <3>2. Cardinality(T) = Cardinality(S) + 1
                BY <2>7, <2>8, <3>1
            <3>3. physical[m] + 1 \in 0 .. MaxCount
                BY <1>0, <2>6, <2>7, <3>2
            <3>4. physical'[m] = physical[m] + 1
                BY <2>9, <2>11, <3>3
            <3> QED
                BY <2>6, <3>2, <3>4 DEF T
        <2>12. CASE m \in KeycodeOf[k].real /\ d = FALSE
            <3>1. One(k \in S) = 1 /\ One(k \in T) = 0
                BY <2>5, <2>12 DEF One
            <3>2. Cardinality(T) = Cardinality(S) - 1
                BY <2>7, <2>8, <3>1
            <3>3. physical[m] + (-1) \in 0 .. MaxCount
                BY <1>0, <2>6, <2>7, <3>2
            <3>4. physical'[m] = physical[m] + (-1)
                BY <2>9, <2>12, <3>3
            <3> QED
                BY <2>6, <2>7, <3>2, <3>4 DEF T
        <2> QED
            BY <2>10, <2>11, <2>12 DEF T
    <1>6. Edges'
        <2>1. ASSUME NEW j \in sent PROVE j \in pressed' <=> waiting'[j] % 2 = 0
            <3>1. j \in Keys /\ (j \in pressed <=> waiting[j] % 2 = 0)
                BY <1>1, <1>3 DEF IInv, Edges, Even
            <3>2. CASE j = k
                <4>1. waiting'[j] = waiting[j] + 1
                    BY <1>1, <1>3, <3>2
                <4>2. waiting'[j] % 2 = 0 <=> ~(waiting[j] % 2 = 0)
                    BY <1>3, <3>1, <4>1, Parity
                <4> QED
                    BY <1>1, <3>1, <3>2, <4>2
            <3>3. CASE j # k
                BY <1>1, <1>3, <3>1, <3>3
            <3> QED
                BY <3>2, <3>3
        <2> QED
            BY <1>1, <2>1 DEF Edges, Even
    <1>7. Mask'
        BY <1>2 DEF Mask
    <1>8. \A m \in Mods : SettledOn(m)' => SettledOn(m)
        <2> SUFFICES ASSUME NEW m \in Mods, SettledOn(m)' PROVE SettledOn(m)
            OBVIOUS
        <2>1. PICK j \in ModKeys(m)' : Settled(j)'
            BY DEF SettledOn
        <2>2. j \in sent /\ m \in KeycodeOf[j].real /\ j \in pressed' /\ waiting'[j] = 0
            BY <1>1, <2>1 DEF ModKeys, Settled
        <2>3. j # k
            BY <1>1, <1>3, <2>2
        <2>4. j \in pressed /\ waiting[j] = 0
            BY <1>1, <1>3, <2>2, <2>3
        <2> QED
            BY <2>2, <2>4 DEF SettledOn, ModKeys, Settled
    <1>9. MO' = MO /\ SO' = SO /\ UO' = UO
        BY <1>1, OwnersKept
    <1>10. Follows'
        <2>1. UsageFollow(down, UO)'
            BY <1>1, <1>9 DEF IInv, Follows, UsageFollow
        <2>2. Base' = real /\ Base = real
            BY <1>1 DEF Base, InReplay
        <2>3. Strays
            BY DEF Arrive
        <2>4. \A m \in Mods : m \in stray' <=> m \in stray
            BY <1>0, <1>1, <1>2, <2>3, StraysKept
        <2>5. ModFollow(Base, MO)'
            BY <1>1, <1>2, <1>8, <1>9, <2>2, <2>4 DEF IInv, Follows, ModFollow
        <2>6. Apart'
            BY <1>2, <1>9, <2>2, <2>4 DEF IInv, Follows, Apart, TypeOK
        <2> QED
            BY <2>1, <2>5, <2>6 DEF Follows
    <1> QED
        BY <1>4, <1>5, <1>6, <1>7, <1>10 DEF IInv

LEMMA EventBeginStep ==
    ASSUME ConstantsOK, IInv, TypeOK', NEW k \in Keys, EventBegin(k)
    PROVE  IInv'
    <1>0. TypeOK
        BY DEF IInv
    <1>1. /\ managed' = managed /\ report' = report /\ physical' = physical
          /\ leased' = leased /\ native' = native /\ down' = down
          /\ sent' = sent /\ pressed' = pressed /\ saved' = saved
          /\ event = None /\ ~InReplay /\ waiting[k] > 0
          /\ waiting' = [waiting EXCEPT ![k] = @ - 1]
          /\ event' = [key |-> k, down |-> (k \in pressed) = (waiting[k] % 2 = 1)]
          /\ real' = real \ masked'
          /\ UNCHANGED <<bindings, tap>>
        BY DEF EventBegin, counts
    <1>2. masked = {} /\ \A m \in masked' : physical[m] = 0
        BY <1>1 DEF IInv, Mask, EventBegin, ManagedOnly
    <1>3. waiting \in [Keys -> Nat] /\ sent \in SUBSET Keys
        BY <1>0 DEF TypeOK, ConstantsOK
    <1>4. CountsMatchOwners'
        <2>1. /\ \A m \in Mods : ModKeys(m)' = ModKeys(m)
              /\ \A u \in Usages : UsageKeys(u)' = UsageKeys(u)
            BY <1>1 DEF ModKeys, UsageKeys
        <2>2. /\ \A m \in Mods : ModOwners(m)' = ModOwners(m)
              /\ \A u \in Usages : UsageOwners(u)' = UsageOwners(u)
            BY <1>1, OwnersKept
        <2>3. ASSUME NEW m \in Mods
              PROVE  managed'[m] = ModOwners(m)' /\ report'[m] = Cardinality(ModKeys(m)')
            BY <1>1, <2>1, <2>2 DEF IInv, CountsMatchOwners
        <2>4. ASSUME NEW u \in Usages
              PROVE  leased'[u] = UsageOwners(u)' /\ native'[u] = Cardinality(UsageKeys(u)')
            BY <1>1, <2>1, <2>2 DEF IInv, CountsMatchOwners
        <2> QED
            BY <2>3, <2>4 DEF CountsMatchOwners
    <1>5. (\A m \in Mods : physical[m] = Cardinality(PhysicalKeys(m)))'
        BY <1>1 DEF IInv, PhysicalKeys
    <1>6. /\ event' # None /\ event'.key = k
          /\ event'.down <=> (k \in pressed <=> waiting[k] % 2 = 1)
        <2>1. ((k \in pressed) = (waiting[k] % 2 = 1)) \in BOOLEAN
            OBVIOUS
        <2>2. event' # None
            BY <1>1, <2>1 DEF ConstantsOK
        <2> DEFINE d == (k \in pressed) = (waiting[k] % 2 = 1)
        <2>3. event' = [key |-> k, down |-> d]
            BY <1>1
        <2>4. d <=> (k \in pressed <=> waiting[k] % 2 = 1)
            OBVIOUS
        <2> HIDE DEF d
        <2>5. event'.key = k /\ event'.down = d
            BY <2>3
        <2>6. event'.down <=> (k \in pressed <=> waiting[k] % 2 = 1)
            BY <2>4, <2>5, Zenon
        <2> QED
            BY <2>2, <2>5, <2>6
    <1>7. /\ waiting'[k] % 2 = 0 <=> waiting[k] % 2 = 1
          /\ waiting[k] % 2 = 1 <=> ~(waiting[k] % 2 = 0)
        <2>1. waiting'[k] = waiting[k] - 1 /\ waiting[k] \in Nat
            BY <1>1, <1>3
        <2> QED
            BY <1>1, <2>1, Parity
    <1>8. \A j \in sent : j \in pressed <=> waiting[j] % 2 = 0
        BY <1>1 DEF IInv, Edges, Even
    <1>9. Edges'
        <2>1. ASSUME NEW j \in sent, j # k PROVE j \in pressed' <=> waiting'[j] % 2 = 0
            BY <1>1, <1>3, <1>8, <2>1
        <2>2. event'.down <=> (k \in pressed' <=> waiting'[k] % 2 = 0)
            BY <1>1, <1>6, <1>7
        <2>3. event'.down => k \notin sent
            BY <1>6, <1>7, <1>8
        <2> QED
            BY <1>1, <1>6, <2>1, <2>2, <2>3 DEF Edges, Even
    <1>10. Mask'
        BY <1>1, <1>2, <1>6 DEF Mask
    <1>11. \A m \in Mods : SettledOn(m)' => SettledOn(m)
        <2> SUFFICES ASSUME NEW m \in Mods, SettledOn(m)' PROVE SettledOn(m)
            OBVIOUS
        <2>1. PICK j \in ModKeys(m)' : Settled(j)'
            BY DEF SettledOn
        <2>2. j \in sent /\ m \in KeycodeOf[j].real /\ j \in pressed /\ waiting'[j] = 0
            BY <1>1, <2>1 DEF ModKeys, Settled
        <2>3. j # k
            <3>1. 0 % 2 = 0
                OBVIOUS
            <3> QED
                BY <1>7, <1>8, <2>2, <3>1
        <2>4. waiting[j] = 0
            BY <1>1, <1>3, <2>2, <2>3
        <2> QED
            BY <2>2, <2>4 DEF SettledOn, ModKeys, Settled
    <1>12. MO' = MO /\ SO' = SO /\ UO' = UO
        BY <1>1, OwnersKept
    <1>13. Follows'
        <2>1. UsageFollow(down, UO)'
            BY <1>1, <1>12 DEF IInv, Follows, UsageFollow
        <2>2. Base' = real' /\ Base = real
            BY <1>1 DEF Base, InReplay
        <2>3. Strays /\ Turned = {}
            BY <1>1 DEF EventBegin, Turned
        <2>4. \A m \in Mods : m \in stray' <=> m \in stray /\ m \notin masked'
            BY <1>1, <1>2, <2>3 DEF Strays
        <2>5. ModFollow(Base, MO)'
            BY <1>1, <1>2, <1>11, <1>12, <2>2, <2>4 DEF IInv, Follows, ModFollow
        <2>6. Apart'
            BY <1>1, <1>12, <2>2, <2>4 DEF IInv, Follows, Apart, TypeOK
        <2> QED
            BY <2>1, <2>5, <2>6 DEF Follows
    <1> QED
        BY <1>4, <1>5, <1>9, <1>10, <1>13 DEF IInv

(* The end of an event: what each of the three actions must show.          *)
LEMMA EventOverStep ==
    ASSUME ConstantsOK, IInv, TypeOK', EventOver,
           \A m \in Mods : report'[m] = Cardinality(ModKeys(m)'),
           \A u \in Usages : native'[u] = Cardinality(UsageKeys(u)'),
           sent' \in {sent, sent \cup {event.key}, sent \ {event.key}},
           event.key \in sent' => event.key \notin sent /\ event.down,
           UsageFollow(down, UO)', ModFollow(real, MO)',
           \A m \in stray' : m \in real' => MO'[m] = 0
    PROVE  IInv'
    <1>1. /\ managed' = managed /\ leased' = leased /\ physical' = physical
          /\ pressed' = pressed /\ waiting' = waiting /\ saved' = saved
          /\ event # None /\ event' = None /\ masked' = {} /\ ~InReplay
          /\ UNCHANGED <<bindings, tap>>
        BY DEF EventOver
    <1>2. CountsMatchOwners'
        <2>1. /\ \A m \in Mods : ModOwners(m)' = ModOwners(m)
              /\ \A u \in Usages : UsageOwners(u)' = UsageOwners(u)
            BY <1>1, OwnersKept
        <2> QED
            BY <1>1, <2>1 DEF IInv, CountsMatchOwners
    <1>3. (\A m \in Mods : physical[m] = Cardinality(PhysicalKeys(m)))'
        BY <1>1 DEF IInv, PhysicalKeys
    <1>4. ASSUME NEW j \in sent' PROVE j \in pressed' <=> waiting'[j] % 2 = 0
        <2>1. CASE j = event.key
            BY <1>1, <1>4, <2>1 DEF IInv, Edges, Even
        <2>2. CASE j # event.key
            <3>1. j \in sent
                BY <1>4, <2>2
            <3> QED
                BY <1>1, <2>2, <3>1 DEF IInv, Edges, Even
        <2> QED
            BY <2>1, <2>2
    <1>5. Edges' /\ Mask'
        BY <1>1, <1>4 DEF Edges, Even, Mask
    <1>6. Follows'
        <2>1. Base' = real'
            BY <1>1 DEF Base, InReplay
        <2>2. ModFollow(Base, MO)'
            BY <2>1 DEF ModFollow
        <2>3. Apart'
            BY <1>1, <2>1 DEF Apart
        <2> QED
            BY <2>2, <2>3 DEF Follows
    <1> QED
        BY <1>2, <1>3, <1>5, <1>6 DEF IInv

(* When the mask ends, the modifiers that are still held come back.        *)
LEMMA MaskEnds ==
    ASSUME ConstantsOK, IInv, ~InReplay, NEW m \in Mods
    PROVE  /\ m \in real \cup ManagedOnly(masked) /\ m \notin stray
              => MO[m] > 0 \/ report[m] > 0
           /\ (MO[m] > 0 /\ m \notin stray) \/ SettledOn(m)
              => m \in real \cup ManagedOnly(masked)
           /\ m \in stray => m \notin ManagedOnly(masked) /\ (m \in real => MO[m] = 0)
    <1>1. Base = real
        BY DEF Base
    <1>2. managed[m] = MO[m]
        BY DEF IInv, CountsMatchOwners, MO
    <1>3. m \in masked => physical[m] = 0 /\ ~SettledOn(m)
        BY SettledCounts DEF IInv, Mask
    <1>4. /\ m \in real /\ m \notin stray => MO[m] > 0 \/ report[m] > 0
          /\ m \notin masked /\ ((MO[m] > 0 /\ m \notin stray) \/ SettledOn(m)) => m \in real
          /\ m \in stray => (m \in real => MO[m] = 0) /\ (m \in masked => m \in real)
        BY <1>1 DEF IInv, Follows, ModFollow, Apart
    <1>5. m \in ManagedOnly(masked) <=> m \in masked /\ MO[m] > 0 /\ physical[m] = 0
        BY <1>2 DEF ManagedOnly
    <1>6. MO[m] \in Nat
        BY OwnersBound DEF IInv
    <1> QED
        BY <1>3, <1>4, <1>5, <1>6

LEMMA ConsumedStep ==
    ASSUME ConstantsOK, IInv, TypeOK', Consumed
    PROVE  IInv'
    <1>1. /\ EventOver /\ event.key \notin sent /\ ~InReplay
          /\ real' = real \cup ManagedOnly(masked) /\ masked' = {}
          /\ report' = report /\ native' = native /\ down' = down /\ sent' = sent
          /\ pressed' = pressed /\ waiting' = waiting
          /\ UNCHANGED <<bindings, tap>>
        BY DEF Consumed, EventOver
    <1>2. /\ \A m \in Mods : report'[m] = Cardinality(ModKeys(m)')
          /\ \A u \in Usages : native'[u] = Cardinality(UsageKeys(u)')
        BY <1>1 DEF IInv, CountsMatchOwners, ModKeys, UsageKeys
    <1>3. MO' = MO /\ UO' = UO
        BY <1>1, OwnersKept
    <1>4. UsageFollow(down, UO)'
        BY <1>1, <1>3 DEF IInv, Follows, UsageFollow
    <1>5. \A m \in Mods : SettledOn(m)' <=> SettledOn(m)
        BY <1>1 DEF SettledOn, ModKeys, Settled
    <1>6. \A m \in Mods : m \in stray' <=> m \in stray /\ (m \in real <=> m \in real')
        BY <1>1, StraysKept DEF IInv, Consumed, EventOver
    <1>7. ModFollow(real, MO)'
        <2> SUFFICES ASSUME NEW m \in Mods
                     PROVE  /\ m \in real' /\ m \notin stray' => MO[m] > 0 \/ report[m] > 0
                            /\ (MO[m] > 0 /\ m \notin stray') \/ SettledOn(m) => m \in real'
            BY <1>1, <1>3, <1>5 DEF ModFollow
        <2> QED
            BY <1>1, <1>6, MaskEnds
    <1>8. \A m \in stray' : m \in real' => MO'[m] = 0
        BY <1>1, <1>3, <1>6, MaskEnds DEF TypeOK
    <1> QED
        BY <1>1, <1>2, <1>4, <1>7, <1>8, EventOverStep

(* A press or a release changes the owners of the key's own parts by one.  *)
LEMMA CreditCounts ==
    ASSUME ConstantsOK, NEW D, NEW f \in [D -> 0 .. MaxCount], NEW s, NEW k \in Keys,
           NEW S \in SUBSET Keys, NEW T \in SUBSET Keys, NEW x \in D,
           S \ {k} = T \ {k}, f[x] = Cardinality(S), k \notin S, k \in T <=> x \in s
    PROVE  Bump(f, s, 1)[x] = Cardinality(T)
    <1>1. /\ Cardinality(S) \in Nat /\ Cardinality(T) \in Nat
          /\ Cardinality(T) <= MaxCount /\ MaxCount \in Nat
        BY KeysBound DEF ConstantsOK
    <1>2. Cardinality(T) + One(k \in S) = Cardinality(S) + One(k \in T)
        BY ChangeOne
    <1>3. Bump(f, s, 1)[x] = IF x \in s /\ f[x] + 1 \in 0 .. MaxCount THEN f[x] + 1 ELSE f[x]
        BY DEF Bump
    <1>4. One(k \in S) = 0 /\ One(k \in T) = IF x \in s THEN 1 ELSE 0
        BY DEF One
    <1> QED
        BY <1>1, <1>2, <1>3, <1>4

LEMMA DebitCounts ==
    ASSUME ConstantsOK, NEW D, NEW f \in [D -> 0 .. MaxCount], NEW s, NEW k \in Keys,
           NEW S \in SUBSET Keys, NEW T \in SUBSET Keys, NEW x \in D,
           S \ {k} = T \ {k}, f[x] = Cardinality(S), k \notin T, k \in S <=> x \in s
    PROVE  Bump(f, s, -1)[x] = Cardinality(T)
    <1>1. /\ Cardinality(S) \in Nat /\ Cardinality(T) \in Nat
          /\ Cardinality(S) <= MaxCount /\ MaxCount \in Nat
        BY KeysBound DEF ConstantsOK
    <1>2. Cardinality(T) + One(k \in S) = Cardinality(S) + One(k \in T)
        BY ChangeOne
    <1>3. Bump(f, s, -1)[x] =
              IF x \in s /\ f[x] + (-1) \in 0 .. MaxCount THEN f[x] + (-1) ELSE f[x]
        BY DEF Bump
    <1>4. One(k \in T) = 0 /\ One(k \in S) = IF x \in s THEN 1 ELSE 0
        BY DEF One
    <1> QED
        BY <1>1, <1>2, <1>3, <1>4

LEMMA NativePressStep ==
    ASSUME Guarded, IInv, TypeOK', NativePress
    PROVE  IInv'
    <1> DEFINE k == event.key
               c == KeycodeOf[k]
               overlap == \E u \in c.uses : leased[u] > 0 \/ native[u] > 0
    <1>0. /\ ConstantsOK /\ TypeOK /\ ComboKeys = {} /\ MaxCount \in Nat
          /\ k \in Keys /\ c \in Parts
        BY DEF Guarded, IInv, TypeOK, ConstantsOK, NativePress, EventOver
    <1>1. /\ EventOver /\ event.down /\ k \notin sent /\ ~InReplay
          /\ sent' = sent \cup {k}
          /\ native' = Bump(native, c.uses, 1) /\ report' = Bump(report, c.real, 1)
          /\ down' = IF overlap THEN down ELSE down \cup c.uses
          /\ real' = (IF overlap THEN real ELSE real \cup c.real) \cup ManagedOnly(masked)
          /\ masked' = {} /\ pressed' = pressed /\ waiting' = waiting
          /\ UNCHANGED <<bindings, tap>>
        BY <1>0 DEF NativePress, EventOver, Credit
    <1>2. /\ c.real = {} \/ c.uses = {}
          /\ \A u, v \in c.uses : u = v
        BY <1>0 DEF ConstantsOK
    <1>3. /\ sent \in SUBSET Keys
          /\ report \in [Mods -> 0 .. MaxCount] /\ native \in [Usages -> 0 .. MaxCount]
        BY <1>0 DEF TypeOK
    <1> HIDE DEF k
    <1>4. ASSUME NEW m \in Mods
          PROVE  /\ report'[m] = Cardinality(ModKeys(m)')
                 /\ ModKeys(m)' = IF m \in c.real THEN ModKeys(m) \cup {k} ELSE ModKeys(m)
        <2>1. ModKeys(m)' = IF m \in c.real THEN ModKeys(m) \cup {k} ELSE ModKeys(m)
            BY <1>0, <1>1, <1>3 DEF ModKeys
        <2>2. k \notin ModKeys(m) /\ ModKeys(m) \in SUBSET Keys
            BY <1>1, <1>3 DEF ModKeys
        <2>3. ModKeys(m)' \in SUBSET Keys /\ ModKeys(m) \ {k} = ModKeys(m)' \ {k}
              /\ (k \in ModKeys(m)' <=> m \in c.real)
            BY <1>0, <2>1, <2>2
        <2>4. report[m] = Cardinality(ModKeys(m))
            BY DEF IInv, CountsMatchOwners
        <2>5. Bump(report, c.real, 1)[m] = Cardinality(ModKeys(m)')
            BY <1>0, <1>3, <2>2, <2>3, <2>4, CreditCounts
        <2> QED
            BY <1>1, <2>1, <2>5
    <1>5. ASSUME NEW u \in Usages
          PROVE  /\ native'[u] = Cardinality(UsageKeys(u)')
                 /\ native'[u] > 0 <=> native[u] > 0 \/ u \in c.uses
        <2>1. UsageKeys(u)' = IF u \in c.uses THEN UsageKeys(u) \cup {k} ELSE UsageKeys(u)
            BY <1>0, <1>1, <1>3 DEF UsageKeys
        <2>2. k \notin UsageKeys(u) /\ UsageKeys(u) \in SUBSET Keys
            BY <1>1, <1>3 DEF UsageKeys
        <2>3. UsageKeys(u)' \in SUBSET Keys /\ UsageKeys(u) \ {k} = UsageKeys(u)' \ {k}
              /\ (k \in UsageKeys(u)' <=> u \in c.uses)
            BY <1>0, <2>1, <2>2
        <2>4. native[u] = Cardinality(UsageKeys(u))
            BY DEF IInv, CountsMatchOwners
        <2>5. Bump(native, c.uses, 1)[u] = Cardinality(UsageKeys(u)')
            BY <1>0, <1>3, <2>2, <2>3, <2>4, CreditCounts
        <2>6. /\ Cardinality(UsageKeys(u)') > 0 <=> UsageKeys(u)' # {}
              /\ Cardinality(UsageKeys(u)) > 0 <=> UsageKeys(u) # {}
            BY <1>0, <2>2, <2>3, KeysBound
        <2> QED
            BY <1>1, <2>1, <2>4, <2>5, <2>6
    <1>6. MO' = MO /\ UO' = UO
        BY <1>1, OwnersKept
    <1>7. UsageFollow(down, UO)'
        <2> SUFFICES ASSUME NEW u \in Usages
                     PROVE  u \in down' <=> UO[u] > 0 \/ native'[u] > 0
            BY <1>6 DEF UsageFollow
        <2>1. /\ u \in down <=> UO[u] > 0 \/ native[u] > 0
              /\ leased[u] = UO[u]
            BY DEF IInv, Follows, UsageFollow, CountsMatchOwners, UO
        <2>2. CASE u \in c.uses
            <3>1. overlap <=> leased[u] > 0 \/ native[u] > 0
                BY <1>2, <2>2
            <3> QED
                BY <1>1, <1>5, <2>1, <2>2, <3>1
        <2>3. CASE u \notin c.uses
            BY <1>1, <1>5, <2>1, <2>3
        <2> QED
            BY <2>2, <2>3
    <1>8. real' = real \cup c.real \cup ManagedOnly(masked)
        <2>1. overlap => c.real = {}
            BY <1>2
        <2> QED
            BY <1>1, <2>1
    <1>13. \A m \in Mods : m \in stray' <=> m \in stray /\ (m \in real <=> m \in real')
        <2>1. Strays /\ managed' = managed
            BY DEF NativePress, EventOver
        <2> QED
            BY <1>0, <1>1, <2>1, StraysKept
    <1>14. \A m \in stray' : m \in real' => MO'[m] = 0
        <2> SUFFICES ASSUME NEW m \in stray', m \in real' PROVE MO[m] = 0
            BY <1>6
        <2>1. m \in Mods
            BY DEF TypeOK
        <2>2. m \in stray /\ m \in real
            BY <1>13, <2>1
        <2> QED
            BY <1>0, <1>1, <2>1, <2>2, MaskEnds
    <1>9. ModFollow(real, MO)'
        <2> SUFFICES ASSUME NEW m \in Mods
                     PROVE  /\ m \in real' /\ m \notin stray' => MO[m] > 0 \/ report'[m] > 0
                            /\ (MO[m] > 0 /\ m \notin stray') \/ SettledOn(m)' => m \in real'
            BY <1>1, <1>6 DEF ModFollow
        <2>1. /\ m \in real \cup ManagedOnly(masked) /\ m \notin stray
                 => MO[m] > 0 \/ report[m] > 0
              /\ (MO[m] > 0 /\ m \notin stray) \/ SettledOn(m)
                 => m \in real \cup ManagedOnly(masked)
              /\ m \in stray => m \notin ManagedOnly(masked) /\ (m \in real => MO[m] = 0)
            BY <1>0, <1>1, MaskEnds
        <2>10. m \in stray' <=> m \in stray /\ (m \in real <=> m \in real')
            BY <1>13
        <2>5. ModKeys(m) \in SUBSET Keys
            BY <1>3 DEF ModKeys
        <2>2. ModKeys(m) \in SUBSET Keys /\ ModKeys(m)' \in SUBSET Keys
            BY <1>0, <1>4, <2>5
        <2>3. /\ report[m] > 0 => report'[m] > 0
              /\ m \in c.real => report'[m] > 0
            <3>1. report[m] = Cardinality(ModKeys(m)) /\ report'[m] = Cardinality(ModKeys(m)')
                BY <1>4 DEF IInv, CountsMatchOwners
            <3>2. /\ Cardinality(ModKeys(m)') > 0 <=> ModKeys(m)' # {}
                  /\ Cardinality(ModKeys(m)) > 0 <=> ModKeys(m) # {}
                BY <1>0, <2>2, KeysBound
            <3> QED
                BY <1>4, <3>1, <3>2
        <2>4. SettledOn(m)' => SettledOn(m) \/ m \in c.real
            BY <1>1, <1>4 DEF SettledOn, Settled
        <2> QED
            BY <1>8, <2>1, <2>3, <2>4, <2>10
    <1>10. event.key \in sent' => event.key \notin sent /\ event.down
        BY <1>1 DEF k
    <1>11. sent' \in {sent, sent \cup {event.key}, sent \ {event.key}}
        BY <1>1 DEF k
    <1> QED
        BY <1>0, <1>1, <1>4, <1>5, <1>7, <1>9, <1>10, <1>11, <1>14, EventOverStep

LEMMA NativeReleaseStep ==
    ASSUME Guarded, IInv, TypeOK', NativeRelease
    PROVE  IInv'
    <1> DEFINE k == event.key
               c == KeycodeOf[k]
    <1>0. /\ ConstantsOK /\ TypeOK /\ ComboKeys = {} /\ MaxCount \in Nat
          /\ k \in Keys /\ c \in Parts
        BY DEF Guarded, IInv, TypeOK, ConstantsOK, NativeRelease, EventOver
    <1>1. /\ EventOver /\ k \in sent /\ ~InReplay
          /\ sent' = sent \ {k}
          /\ native' = Bump(native, c.uses, -1) /\ report' = Bump(report, c.real, -1)
          /\ down' = IF Suppressed(c) THEN down ELSE down \ c.uses
          /\ real' = (real \ (Last(c) \cup IF Suppressed(c) THEN {} ELSE c.real))
                     \cup ManagedOnly(masked)
          /\ masked' = {} /\ pressed' = pressed /\ waiting' = waiting
          /\ UNCHANGED <<bindings, tap>>
        BY <1>0 DEF NativeRelease, EventOver, Credit
    <1>2. /\ c.real = {} \/ c.uses = {}
          /\ \A u, v \in c.uses : u = v
        BY <1>0 DEF ConstantsOK
    <1>3. /\ sent \in SUBSET Keys
          /\ report \in [Mods -> 0 .. MaxCount] /\ native \in [Usages -> 0 .. MaxCount]
        BY <1>0 DEF TypeOK
    <1>12. /\ Last(c) = {m \in c.real : report[m] = 1 /\ managed[m] = 0}
           /\ Suppressed(c) <=> \/ \E u \in c.uses : leased[u] > 0 \/ native[u] > 1
                                \/ c.real # {} /\ c.modded
                                \/ ~c.modded /\ \E m \in c.real : managed[m] > 0 \/ report[m] > 1
        BY <1>0 DEF Last, Suppressed
    <1> DEFINE last == Last(c)
               kept == Suppressed(c)
    <1> HIDE DEF k, last, kept
    <1>4. ASSUME NEW m \in Mods
          PROVE  /\ report'[m] = Cardinality(ModKeys(m)')
                 /\ ModKeys(m)' = ModKeys(m) \ {k}
                 /\ report[m] = Cardinality(ModKeys(m))
                 /\ Cardinality(ModKeys(m)) \in Nat
                 /\ Cardinality(ModKeys(m)') \in Nat
                 /\ m \in c.real => report[m] = report'[m] + 1
                 /\ m \notin c.real => report[m] = report'[m]
                 /\ SettledOn(m)' => SettledOn(m) /\ report'[m] > 0
        <2>1. ModKeys(m)' = ModKeys(m) \ {k}
            BY <1>0, <1>1, <1>3 DEF ModKeys
        <2>2. ModKeys(m) \in SUBSET Keys /\ (k \in ModKeys(m) <=> m \in c.real)
            BY <1>1, <1>3 DEF ModKeys
        <2>3. ModKeys(m)' \in SUBSET Keys /\ ModKeys(m) \ {k} = ModKeys(m)' \ {k}
              /\ k \notin ModKeys(m)'
            BY <2>1, <2>2
        <2>4. report[m] = Cardinality(ModKeys(m))
            BY DEF IInv, CountsMatchOwners
        <2>5. Bump(report, c.real, -1)[m] = Cardinality(ModKeys(m)')
            BY <1>0, <1>3, <2>2, <2>3, <2>4, DebitCounts
        <2>6. /\ Cardinality(ModKeys(m)) \in Nat /\ Cardinality(ModKeys(m)') \in Nat
              /\ Cardinality(ModKeys(m)') > 0 <=> ModKeys(m)' # {}
            BY <1>0, <2>2, <2>3, KeysBound
        <2>7. Cardinality(ModKeys(m)) = Cardinality(ModKeys(m)') + One(k \in ModKeys(m))
            BY <1>0, <2>1, <2>2, ButKey
        <2>8. report'[m] = Cardinality(ModKeys(m)')
            BY <1>1, <2>5
        <2>9. /\ m \in c.real => report[m] = report'[m] + 1
              /\ m \notin c.real => report[m] = report'[m]
            BY <2>2, <2>4, <2>6, <2>7, <2>8 DEF One
        <2>10. SettledOn(m)' => SettledOn(m) /\ ModKeys(m)' # {}
            BY <1>1, <2>1 DEF SettledOn, Settled
        <2> QED
            BY <2>1, <2>4, <2>6, <2>8, <2>9, <2>10
    <1>5. ASSUME NEW u \in Usages
          PROVE  /\ native'[u] = Cardinality(UsageKeys(u)')
                 /\ native'[u] \in Nat
                 /\ u \in c.uses => native[u] = native'[u] + 1
                 /\ u \notin c.uses => native[u] = native'[u]
        <2>1. UsageKeys(u)' = UsageKeys(u) \ {k}
            BY <1>0, <1>1, <1>3 DEF UsageKeys
        <2>2. UsageKeys(u) \in SUBSET Keys /\ (k \in UsageKeys(u) <=> u \in c.uses)
            BY <1>1, <1>3 DEF UsageKeys
        <2>3. UsageKeys(u)' \in SUBSET Keys /\ UsageKeys(u) \ {k} = UsageKeys(u)' \ {k}
              /\ k \notin UsageKeys(u)'
            BY <2>1, <2>2
        <2>4. native[u] = Cardinality(UsageKeys(u))
            BY DEF IInv, CountsMatchOwners
        <2>5. Bump(native, c.uses, -1)[u] = Cardinality(UsageKeys(u)')
            BY <1>0, <1>3, <2>2, <2>3, <2>4, DebitCounts
        <2>6. Cardinality(UsageKeys(u)) \in Nat /\ Cardinality(UsageKeys(u)') \in Nat
            BY <1>0, <2>2, <2>3, KeysBound
        <2>7. Cardinality(UsageKeys(u)) = Cardinality(UsageKeys(u)') + One(k \in UsageKeys(u))
            BY <1>0, <2>1, <2>2, ButKey
        <2>8. native'[u] = Cardinality(UsageKeys(u)')
            BY <1>1, <2>5
        <2> QED
            BY <2>2, <2>4, <2>6, <2>7, <2>8 DEF One
    <1>6. MO' = MO /\ UO' = UO
        BY <1>1, OwnersKept
    <1>7. UsageFollow(down, UO)'
        <2> SUFFICES ASSUME NEW u \in Usages
                     PROVE  u \in down' <=> UO[u] > 0 \/ native'[u] > 0
            BY <1>6 DEF UsageFollow
        <2>1. /\ u \in down <=> UO[u] > 0 \/ native[u] > 0
              /\ leased[u] = UO[u]
            BY DEF IInv, Follows, UsageFollow, CountsMatchOwners, UO
        <2>2. CASE u \in c.uses
            <3>1. Suppressed(c) <=> leased[u] > 0 \/ native[u] > 1
                BY <1>2, <1>12, <2>2
            <3> QED
                BY <1>1, <1>5, <2>1, <2>2, <3>1
        <2>3. CASE u \notin c.uses
            BY <1>1, <1>5, <2>1, <2>3
        <2> QED
            BY <2>2, <2>3
    <1>13. \A m \in Mods : m \in stray' <=> m \in stray /\ (m \in real <=> m \in real')
        <2>1. Strays /\ managed' = managed
            BY DEF NativeRelease, EventOver
        <2> QED
            BY <1>0, <1>1, <2>1, StraysKept
    <1>14. \A m \in stray' : m \in real' => MO'[m] = 0
        <2> SUFFICES ASSUME NEW m \in stray', m \in real' PROVE MO[m] = 0
            BY <1>6
        <2>1. m \in Mods
            BY DEF TypeOK
        <2>2. m \in stray /\ m \in real
            BY <1>13, <2>1
        <2> QED
            BY <1>0, <1>1, <2>1, <2>2, MaskEnds
    <1>9. ModFollow(real, MO)'
        <2> SUFFICES ASSUME NEW m \in Mods
                     PROVE  /\ m \in real' /\ m \notin stray' => MO[m] > 0 \/ report'[m] > 0
                            /\ (MO[m] > 0 /\ m \notin stray') \/ SettledOn(m)' => m \in real'
            BY <1>1, <1>6 DEF ModFollow
        <2>1. /\ m \in real \cup ManagedOnly(masked) /\ m \notin stray
                 => MO[m] > 0 \/ report[m] > 0
              /\ (MO[m] > 0 /\ m \notin stray) \/ SettledOn(m)
                 => m \in real \cup ManagedOnly(masked)
              /\ m \in stray => m \notin ManagedOnly(masked) /\ (m \in real => MO[m] = 0)
            BY <1>0, <1>1, MaskEnds
        <2>10. m \in stray' <=> m \in stray /\ (m \in real <=> m \in real')
            BY <1>13
        <2>2. managed[m] = MO[m] /\ MO[m] \in Nat
            BY <1>0, OwnersBound DEF IInv, CountsMatchOwners, MO
        <2>3. m \in ManagedOnly(masked) => MO[m] > 0
            BY <2>2 DEF ManagedOnly
        <2>4. m \in Last(c) <=> m \in c.real /\ report[m] = 1 /\ MO[m] = 0
            BY <1>12, <2>2
        <2>5. m \in c.real /\ ~Suppressed(c) => MO[m] = 0 /\ report[m] <= 1
            BY <1>4, <1>12, <2>2
        <2>11. m \in stray /\ m \notin stray' => MO[m] = 0 /\ m \notin real'
            BY <1>1, <2>1, <2>10
        <2>6. ASSUME m \in real', m \notin stray' PROVE MO[m] > 0 \/ report'[m] > 0
            <3>1. CASE m \in ManagedOnly(masked)
                BY <2>3, <3>1
            <3>2. CASE m \notin ManagedOnly(masked)
                <4>1. m \in real /\ m \notin Last(c) /\ m \notin stray
                    BY <1>1, <2>6, <2>11, <3>2
                <4> QED
                    BY <1>4, <2>1, <2>2, <2>4, <4>1
            <3> QED
                BY <3>1, <3>2
        <2>7. ASSUME (MO[m] > 0 /\ m \notin stray') \/ SettledOn(m)' PROVE m \in real'
            <3>1. m \in real \cup ManagedOnly(masked)
                BY <1>4, <2>1, <2>7, <2>11
            <3>2. m \notin Last(c) /\ ~(m \in c.real /\ ~Suppressed(c))
                BY <1>4, <2>2, <2>4, <2>5, <2>7
            <3> QED
                BY <1>1, <3>1, <3>2
        <2> QED
            BY <2>6, <2>7
    <1>10. event.key \notin sent'
        BY <1>1 DEF k
    <1>11. sent' \in {sent, sent \cup {event.key}, sent \ {event.key}}
        BY <1>1 DEF k
    <1> QED
        BY <1>0, <1>1, <1>4, <1>5, <1>7, <1>9, <1>10, <1>11, <1>14, EventOverStep

-----------------------------------------------------------------------------
LEMMA IInvInit ==
    ASSUME ConstantsOK, Init, TypeOK PROVE IInv
    <1>1. Cardinality({}) = 0
        BY FS_EmptySet
    <1>2. /\ \A m \in Mods : /\ ModLeases(m) = {} /\ ModKeys(m) = {} /\ PhysicalKeys(m) = {}
                             /\ HolderOf(m) = {} /\ m \notin mode
          /\ \A u \in Usages : UsageLeases(u) = {} /\ UsageKeys(u) = {}
        BY DEF Init, ModLeases, ModKeys, PhysicalKeys, HolderOf, UsageLeases, UsageKeys,
               ConstantsOK
    <1>3. tap = None /\ masked = {} /\ event = None /\ sent = {} /\ saved = None
          /\ real = {} /\ down = {} /\ stray = {}
        BY DEF Init
    <1>4. /\ \A m \in Mods : ModOwners(m) = 0
          /\ \A u \in Usages : UsageOwners(u) = 0
        <2>1. /\ \A m \in Mods : /\ One(HolderOf(m) # {}) = 0 /\ One(m \in mode) = 0
                                /\ One(tap # None /\ m \in tap.mods) = 0
              /\ \A u \in Usages : One(tap # None /\ u \in tap.uses) = 0
            BY <1>2, <1>3 DEF One
        <2>2. /\ \A m \in Mods : Cardinality(ModLeases(m)) = 0
              /\ \A u \in Usages : Cardinality(UsageLeases(u)) = 0
            BY <1>1, <1>2
        <2>3. \A m \in Mods : StandingOwners(m) = 0
            BY <2>1, <2>2 DEF StandingOwners
        <2> QED
            BY <2>1, <2>2, <2>3 DEF ModOwners, UsageOwners
    <1>5. CountsMatchOwners
        BY <1>1, <1>2, <1>4 DEF CountsMatchOwners, Init
    <1>6. \A m \in Mods : physical[m] = Cardinality(PhysicalKeys(m))
        BY <1>1, <1>2 DEF Init
    <1>7. Edges /\ Mask
        BY <1>3 DEF Edges, Mask
    <1>8. \A m \in Mods : ~SettledOn(m)
        BY <1>2 DEF SettledOn
    <1>9. Follows
        <2>1. Base = {}
            BY <1>3 DEF Base, InReplay
        <2> QED
            BY <1>3, <1>4, <1>8, <2>1 DEF Init, Follows, UsageFollow, ModFollow, Apart, MO, UO
    <1> QED
        BY <1>5, <1>6, <1>7, <1>9 DEF IInv

LEMMA IInvStutters ==
    ASSUME ConstantsOK, IInv, UNCHANGED vars PROVE IInv'
    <1>1. /\ managed' = managed /\ report' = report /\ physical' = physical
          /\ leased' = leased /\ native' = native /\ real' = real /\ down' = down
          /\ pressed' = pressed /\ waiting' = waiting /\ sent' = sent
          /\ event' = event /\ masked' = masked /\ tap' = tap /\ saved' = saved
          /\ UNCHANGED <<bindings, tap>> /\ stray' = stray
        BY DEF vars, counts, keyState
    <1>2. TypeOK'
        BY DEF vars, counts, bindings, keyState, TypeOK, IInv
    <1>3. CountsMatchOwners'
        <2>1. /\ \A m \in Mods : ModKeys(m)' = ModKeys(m)
              /\ \A u \in Usages : UsageKeys(u)' = UsageKeys(u)
            BY <1>1 DEF ModKeys, UsageKeys
        <2>2. /\ \A m \in Mods : ModOwners(m)' = ModOwners(m)
              /\ \A u \in Usages : UsageOwners(u)' = UsageOwners(u)
            BY <1>1, OwnersKept
        <2> QED
            BY <1>1, <2>1, <2>2 DEF IInv, CountsMatchOwners
    <1>4. (\A m \in Mods : physical[m] = Cardinality(PhysicalKeys(m)))'
        BY <1>1 DEF IInv, PhysicalKeys
    <1>5. Edges' /\ Mask'
        BY <1>1 DEF IInv, Edges, Even, Mask
    <1>6. MO' = MO /\ SO' = SO /\ UO' = UO
        BY <1>1, OwnersKept
    <1>7. \A m \in Mods : SettledOn(m)' <=> SettledOn(m)
        BY <1>1 DEF SettledOn, ModKeys, Settled
    <1>8. Follows'
        <2>1. Base' = Base
            BY <1>1 DEF Base, InReplay
        <2>2. UsageFollow(down, UO)'
            BY <1>1, <1>6 DEF IInv, Follows, UsageFollow
        <2>3. ModFollow(Base, MO)'
            BY <1>1, <1>6, <1>7, <2>1 DEF IInv, Follows, ModFollow
        <2>4. Apart'
            BY <1>1, <1>6, <2>1 DEF IInv, Follows, Apart
        <2> QED
            BY <2>2, <2>3, <2>4 DEF Follows
    <1> QED
        BY <1>2, <1>3, <1>4, <1>5, <1>8 DEF IInv

LEMMA IInvStep ==
    ASSUME Guarded, IInv, TypeOK', Next PROVE IInv'
    <1>0. ConstantsOK
        BY DEF Guarded
    <1>1. CASE Hold
        <2>1. ASSUME NEW ms \in ModeMods \cup {{}}, EnterMode(ms) PROVE IInv'
            <3>1. ms \in SUBSET Mods
                BY <1>0 DEF ConstantsOK
            <3> QED
                BY <2>1, <3>1, EnterModeStep
        <2> QED
            BY <1>1, <2>1, HoldModifierStep, HoldActionStep, ReleaseOwnedStep DEF Hold
    <1>2. CASE Emit
        BY <1>0, <1>2, TapDownStep, TapUpStep, ReplayStep DEF Emit
    <1>3. CASE KeyEvent
        <2>1. ASSUME NEW k \in Keys, ArrivePress(k) PROVE IInv'
            BY <2>1, ArriveStep DEF ArrivePress
        <2>2. ASSUME NEW k \in Keys, ArriveRelease(k) PROVE IInv'
            BY <2>2, ArriveStep DEF ArriveRelease
        <2> QED
            BY <1>0, <1>3, <2>1, <2>2, EventBeginStep, ConsumedStep, NativePressStep,
               NativeReleaseStep DEF KeyEvent
    <1> QED
        BY <1>1, <1>2, <1>3 DEF Next

THEOREM Invariant ==
    ASSUME Guarded PROVE Spec => []IInv
    <1>0. ConstantsOK
        BY DEF Guarded
    <1>1. Spec => []TypeOK
        BY <1>0, TypeInvariant
    <1>2. Init /\ TypeOK => IInv
        BY <1>0, IInvInit
    <1>3. IInv /\ TypeOK' /\ [Next]_vars => IInv'
        BY <1>0, IInvStep, IInvStutters
    <1> QED
        BY <1>1, <1>2, <1>3, PTL DEF Spec

-----------------------------------------------------------------------------
(* What follows from the invariant, for keyboards whose native keys are key*)
(* presses: what a combo sends is registered without an owner, so the      *)
(* hypothesis cannot be dropped.                                           *)

(* The ledgers of keyboard_mod_ownership.c and owned_keycode.c count each  *)
(* owner once, through every overlap of holds, taps, modes, replays and    *)
(* native keys: no lease is refused, leaked or released twice.             *)
THEOREM CountsMatchOwnersHolds ==
    ASSUME ComboKeys = {} PROVE Spec => []CountsMatchOwners
    <1>1. Guarded
        BY ConstantsOK DEF Guarded
    <1>2. Spec => []IInv
        BY <1>1, Invariant
    <1>3. IInv => CountsMatchOwners
        BY DEF IInv
    <1> QED
        BY <1>2, <1>3, PTL

(* No owner's release clears what another still holds.                     *)
THEOREM NoOwnerClearsAnotherHolds ==
    ASSUME ComboKeys = {} PROVE Spec => []NoOwnerClearsAnother
    <1>1. Guarded
        BY ConstantsOK DEF Guarded
    <1>2. Spec => []IInv
        BY <1>1, Invariant
    <1>3. IInv => NoOwnerClearsAnother
        <2> SUFFICES ASSUME IInv PROVE NoOwnerClearsAnother
            OBVIOUS
        <2>1. ASSUME NEW u \in Usages, UsageOwners(u) > 0 \/ UsageKeys(u) # {} PROVE u \in down
            <3>1. UsageKeys(u) \in SUBSET Keys
                BY DEF IInv, TypeOK, UsageKeys
            <3>2. UsageKeys(u) # {} => native[u] > 0
                BY <3>1, ConstantsOK, KeysBound DEF IInv, CountsMatchOwners
            <3> QED
                BY <2>1, <3>2 DEF IInv, Follows, UsageFollow, UO
        <2>2. ASSUME Shown, NEW m \in Mods,
                     (ModOwners(m) > 0 /\ m \notin stray) \/ (\E k \in ModKeys(m) : Settled(k))
              PROVE  m \in real
            <3>1. Base = real /\ masked = {}
                BY <2>2 DEF Base, Shown
            <3>2. (MO[m] > 0 /\ m \notin stray) \/ SettledOn(m)
                BY <2>2 DEF MO, SettledOn
            <3> QED
                BY <3>1, <3>2 DEF IInv, Follows, ModFollow
        <2> QED
            BY <2>1, <2>2 DEF NoOwnerClearsAnother
    <1> QED
        BY <1>2, <1>3, PTL

(* Nothing stays in the report once its last owner let go.                 *)
THEOREM NothingOutlivesItsOwnersHolds ==
    ASSUME ComboKeys = {} PROVE Spec => []NothingOutlivesItsOwners
    <1>1. Guarded
        BY ConstantsOK DEF Guarded
    <1>2. Spec => []IInv
        BY <1>1, Invariant
    <1>3. IInv => NothingOutlivesItsOwners
        <2> SUFFICES ASSUME IInv PROVE NothingOutlivesItsOwners
            OBVIOUS
        <2>1. ASSUME NEW u \in down PROVE UsageOwners(u) > 0 \/ UsageKeys(u) # {}
            <3>1. u \in Usages /\ UsageKeys(u) \in SUBSET Keys
                BY DEF IInv, TypeOK, UsageKeys
            <3>2. native[u] > 0 => UsageKeys(u) # {}
                BY <3>1, ConstantsOK, KeysBound DEF IInv, CountsMatchOwners
            <3> QED
                BY <3>1, <3>2 DEF IInv, Follows, UsageFollow, UO
        <2>2. ASSUME Shown, NEW m \in real \ stray
              PROVE  ModOwners(m) > 0 \/ ModKeys(m) # {}
            <3>1. m \in Mods /\ ModKeys(m) \in SUBSET Keys
                BY DEF IInv, TypeOK, ModKeys
            <3>2. report[m] > 0 => ModKeys(m) # {}
                BY <3>1, ConstantsOK, KeysBound DEF IInv, CountsMatchOwners
            <3>3. Base = real
                BY <2>2 DEF Base, Shown
            <3>4. MO[m] > 0 \/ report[m] > 0
                BY <3>1, <3>3 DEF IInv, Follows, ModFollow
            <3> QED
                BY <3>1, <3>2, <3>4 DEF MO
        <2> QED
            BY <2>1, <2>2 DEF NothingOutlivesItsOwners
    <1> QED
        BY <1>2, <1>3, PTL

=============================================================================
