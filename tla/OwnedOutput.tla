----------------------------- MODULE OwnedOutput -----------------------------
(***************************************************************************)
(* What the keyboard's report holds, and who holds it: the modifier ledger *)
(* (keyboard_mod_ownership.c), the usage ledger (owned_keycode.c), the     *)
(* actions a key holds (held_action.c) and the native keys that share them *)
(* (process.c).                                                            *)
(*                                                                         *)
(* Everything runs on the main loop, but a key event runs its plan between *)
(* its beginning and its end, a tap blocks while it is down, and a replay  *)
(* sends its tap under other modifiers and restores the saved ones after:  *)
(* each of those spans is open in a state, with whatever the code may run  *)
(* inside it as steps of their own.  What a replay changes of who holds a  *)
(* modifier is not in what it restores; `stray` remembers those modifiers, *)
(* for the properties.                                                     *)
(*                                                                         *)
(* A keycode or a chord is its parts: the modifiers a lease takes, the     *)
(* modifiers QMK's own handler registers as real ones (not the weak ones of*)
(* S(KC_1)), and its usages.                                               *)
(*                                                                         *)
(* A key's edge is counted as it arrives and processed later: combos,      *)
(* tapping and admission decide in which order, never out of order for one *)
(* key.                                                                    *)
(***************************************************************************)
EXTENDS Integers, FiniteSets

CONSTANTS
    Mods, Usages, Keys,
    Keycodes,       \* plain usages, modifiers and combinations of both
    KeycodeOf,      \* the keycode each key sends when it is native
    ComboKeys,      \* the keys that are combo outputs: events, not key presses
    ModeMods,       \* the modifiers a pointing mode may hold
    MaxCount,       \* UINT8_MAX
    MaxWaiting,     \* bound: edges of one key waiting to be processed
    None

Parts == [mods : SUBSET Mods, real : SUBSET Mods,
          uses : SUBSET Usages, modded : BOOLEAN]

ASSUME ConstantsOK ==
    /\ Keycodes \subseteq Parts
    /\ KeycodeOf \in [Keys -> Keycodes]
    /\ \A k \in Keys : /\ KeycodeOf[k].real = {} \/ KeycodeOf[k].uses = {}
                      /\ \A u, v \in KeycodeOf[k].uses : u = v
    /\ ComboKeys \subseteq Keys
    /\ ModeMods \subseteq SUBSET Mods
    /\ MaxCount \in Nat /\ MaxWaiting \in Nat
    /\ IsFiniteSet(Keys) /\ Cardinality(Keys) + 3 <= MaxCount
    /\ None \notin Keycodes \cup Mods
    /\ \A ms \in SUBSET Mods : ms # None
    /\ \A k \in Keys, d \in BOOLEAN : [key |-> k, down |-> d] # None

VARIABLES
    managed,     \* [Mods -> managed_refcounts]
    report,      \* [Mods -> report_refcounts]
    physical,    \* [Mods -> physical_refcounts]
    real,        \* get_mods()
    leased,      \* [Usages -> managed_refcounts]
    native,      \* [Usages -> physical_refcounts]
    down,        \* usages registered with QMK
    heldMod,     \* [Keys -> the modifier a key's held action is, or None]
    held,        \* [Keys -> the keycode of its held action, or None]
    lease,       \* [Keys -> the parts its lease took, or None]
    mode,        \* the running pointing mode's modifiers
    pressed,     \* keys physically down
    waiting,     \* [Keys -> edges that arrived and are not processed yet]
    sent,        \* keys QMK was given the press of, or whose usage was down
                 \* already (default_report_owner_bitmap, combos aside)
    event,       \* the key event being processed, or None
    masked,      \* keyboard_event_masked_real_mods
    tap,         \* the tap being sent, or None
    saved,       \* the modifiers a replay will restore, or None
    stray        \* auxiliary: modifiers a replay parted from their holders

counts == <<managed, report, physical, leased, native>>
bindings == <<heldMod, held, lease, mode>>
keyState == <<pressed, waiting, sent, event, masked>>
vars == <<counts, real, down, bindings, keyState, tap, saved, stray>>

-----------------------------------------------------------------------------
(* The two ledgers.  Operations compose, so they map ledgers to ledgers.   *)

Ledger == [managed |-> managed, real |-> real, leased |-> leased, down |-> down]

Becomes(l) ==
    /\ managed' = l.managed /\ real' = l.real
    /\ leased' = l.leased /\ down' = l.down

(* keyboard_mod_ownership_register_mods: a modifier hidden by a suspension *)
(* or a mask is put back in the report.                                    *)
Register(l, ms) ==
    [l EXCEPT !.managed = [m \in Mods |->
                  IF m \in ms /\ @[m] < MaxCount THEN @[m] + 1 ELSE @[m]],
              !.real = @ \cup ms]

(* Mutant: a physically held key vetoes the teardown.                      *)
UnregisterVetoed(l, ms) ==
    [l EXCEPT !.managed = [m \in Mods |->
                  IF m \in ms /\ @[m] > 0 THEN @[m] - 1 ELSE @[m]],
              !.real = @ \ {m \in ms : l.managed[m] = 1 /\ report[m] = 0
                                       /\ physical[m] = 0}]

(* keyboard_mod_ownership_unregister_mods: the last managed owner clears a *)
(* modifier no native key put in the report.                               *)
Unregister(l, ms) ==
    [l EXCEPT !.managed = [m \in Mods |->
                  IF m \in ms /\ @[m] > 0 THEN @[m] - 1 ELSE @[m]],
              !.real = @ \ {m \in ms : l.managed[m] = 1 /\ report[m] = 0}]

(* A lease is taken whole or not at all.                                   *)
CanAcquire(l, c) ==
    /\ \A u \in c.uses : l.leased[u] < MaxCount
    /\ \A m \in c.mods : l.managed[m] < MaxCount

CanRelease(l, c) ==
    /\ \A u \in c.uses : l.leased[u] > 0
    /\ \A m \in c.mods : l.managed[m] > 0

Acquire(l, c) ==
    IF CanAcquire(l, c)
    THEN [Register(l, c.mods) EXCEPT
              !.leased = [u \in Usages |-> IF u \in c.uses THEN @[u] + 1 ELSE @[u]],
              !.down = @ \cup c.uses]
    ELSE l

(* Mutant: the last lease clears a usage a native key still holds.         *)
ReleaseClears(l, c) ==
    IF CanRelease(l, c)
    THEN [Unregister(l, c.mods) EXCEPT
              !.leased = [u \in Usages |-> IF u \in c.uses THEN @[u] - 1 ELSE @[u]],
              !.down = @ \ {u \in c.uses : l.leased[u] = 1}]
    ELSE l

Release(l, c) ==
    IF CanRelease(l, c)
    THEN [Unregister(l, c.mods) EXCEPT
              !.leased = [u \in Usages |-> IF u \in c.uses THEN @[u] - 1 ELSE @[u]],
              !.down = @ \ {u \in c.uses : l.leased[u] = 1 /\ native[u] = 0}]
    ELSE l

(* keyboard_mod_ownership_managed_only_mask                                *)
ManagedOnly(ms) == {m \in ms : managed[m] > 0 /\ physical[m] = 0}

-----------------------------------------------------------------------------
(* Held actions, by the key that holds them.  A key whose binding changes  *)
(* lets the old one go first.                                              *)

InReplay == saved # None

(* The modifiers a step gives their first managed owner or takes the last  *)
(* one from.                                                               *)
Turned == {m \in Mods : (managed[m] > 0) # (managed'[m] > 0)}

(* A modifier that turns inside a replay is astray while what is saved says*)
(* otherwise; outside one it mends when it turns or its bit in the report  *)
(* changes.  One an event masks is not saved: the event's end asks the     *)
(* ledger.                                                                 *)
Strays ==
    stray' = IF InReplay
             THEN (stray \ Turned) \cup
                  {m \in Turned \ (masked \ saved) :
                       (m \in saved) # (managed'[m] > 0 \/ report[m] > 0)}
             ELSE stray \ (Turned \cup (masked' \ masked)
                           \cup {m \in Mods : (m \in real) # (m \in real')})

(* A tap that a replay sends settles first the fallback holds of the keys  *)
(* that hold nothing yet.                                                  *)
MayHold(k) == tap = None /\ (InReplay => held[k] = None /\ heldMod[k] = None)

HolderOf(m) == {k \in Keys : heldMod[k] = m}

(* Mutant: the modifier is given up with its first key, not its last.      *)
DropHeldModFirst(l, k) ==
    IF heldMod[k] # None THEN Unregister(l, {heldMod[k]}) ELSE l

(* held_modifier_remove_slot, for key k's binding.                         *)
DropHeldMod(l, k) ==
    IF heldMod[k] # None /\ HolderOf(heldMod[k]) = {k}
    THEN Unregister(l, {heldMod[k]}) ELSE l

HoldModifier(k, m) ==
    /\ MayHold(k) /\ heldMod[k] # m
    /\ LET l == DropHeldMod(Ledger, k) IN
       Becomes(IF HolderOf(m) = {} THEN Register(l, {m}) ELSE l)
    /\ heldMod' = [heldMod EXCEPT ![k] = m]
    /\ UNCHANGED <<report, physical, native, held, lease, mode, keyState, tap, saved>>
    /\ Strays

(* held_action_remove_slot, for key k's binding.                           *)
DropHeld(l, k) == IF lease[k] # None THEN Release(l, lease[k]) ELSE l

HoldAction(k, c) ==
    /\ MayHold(k) /\ held[k] # c
    /\ LET l == DropHeld(Ledger, k) IN
       /\ Becomes(Acquire(l, c))
       /\ lease' = [lease EXCEPT ![k] = IF CanAcquire(l, c) THEN c ELSE None]
    /\ held' = [held EXCEPT ![k] = c]
    /\ UNCHANGED <<report, physical, native, heldMod, mode, keyState, tap, saved>>
    /\ Strays

(* held_action_release_owned_by_key: the action, or else the modifier.     *)
ReleaseOwned(k) ==
    /\ tap = None /\ ~InReplay
    /\ \/ /\ held[k] # None
          /\ Becomes(DropHeld(Ledger, k))
          /\ held' = [held EXCEPT ![k] = None]
          /\ lease' = [lease EXCEPT ![k] = None]
          /\ UNCHANGED heldMod
       \/ /\ held[k] = None /\ heldMod[k] # None
          /\ Becomes(DropHeldMod(Ledger, k))
          /\ heldMod' = [heldMod EXCEPT ![k] = None]
          /\ UNCHANGED <<held, lease>>
    /\ UNCHANGED <<report, physical, native, mode, keyState, tap, saved>>
    /\ Strays

(* noah_pd_engine_enter and _exit: exiting is entering no mode.  The tap a *)
(* replay sends may be a mode's lock or turn a layer with a mode on or off.*)
EnterMode(ms) ==
    /\ tap = None /\ mode # ms
    /\ Becomes(Register(Unregister(Ledger, mode), ms))
    /\ mode' = ms
    /\ UNCHANGED <<report, physical, native, heldMod, held, lease, keyState, tap, saved>>
    /\ Strays

(* owned_keycode_tap blocks while the keycode is down.                     *)
TapDown(c) ==
    /\ tap = None /\ CanAcquire(Ledger, c)
    /\ Becomes(Acquire(Ledger, c))
    /\ tap' = c
    /\ UNCHANGED <<report, physical, native, bindings, keyState, saved>>
    /\ Strays

TapUp ==
    /\ tap # None
    /\ Becomes(Release(Ledger, tap))
    /\ tap' = None
    /\ UNCHANGED <<report, physical, native, bindings, keyState, saved>>
    /\ Strays

(* begin_action_replay, begin_masked_emit and begin_preserve_all: other    *)
(* modifiers until the end, then the saved ones.                           *)
ReplayBegin(ms) ==
    /\ tap = None /\ ~InReplay
    /\ saved' = real /\ real' = ms
    /\ UNCHANGED <<counts, down, bindings, keyState, tap, stray>>

(* Mutant: what the replay sent under stays with what is restored.         *)
ReplayEndAdds ==
    /\ tap = None /\ InReplay
    /\ real' = real \cup saved /\ saved' = None
    /\ UNCHANGED <<counts, down, bindings, keyState, tap, stray>>

ReplayEnd ==
    /\ tap = None /\ InReplay
    /\ real' = saved /\ saved' = None
    /\ UNCHANGED <<counts, down, bindings, keyState, tap, stray>>

-----------------------------------------------------------------------------
(* Native keys.                                                            *)

Bump(f, s, by) == [x \in DOMAIN f |->
    IF x \in s /\ f[x] + by \in 0 .. MaxCount THEN f[x] + by ELSE f[x]]

(* Pre-process, as the edge arrives: a key's modifiers are down or up.     *)
Arrive(k, down_) ==
    /\ tap = None /\ ~InReplay /\ event = None
    /\ waiting[k] < MaxWaiting
    /\ waiting' = [waiting EXCEPT ![k] = @ + 1]
    /\ pressed' = IF down_ THEN pressed \cup {k} ELSE pressed \ {k}
    /\ physical' = IF k \in ComboKeys THEN physical
                   ELSE Bump(physical, KeycodeOf[k].real, IF down_ THEN 1 ELSE -1)
    /\ UNCHANGED <<managed, report, leased, native, real, down, bindings, sent,
                   event, masked, tap, saved>>
    /\ Strays

ArrivePress(k) == k \notin pressed /\ Arrive(k, TRUE)
ArriveRelease(k) == k \in pressed /\ Arrive(k, FALSE)

(* The key's oldest edge is processed: the running mode's own modifiers    *)
(* leave the report until the event ends.                                  *)
EventBegin(k) ==
    /\ tap = None /\ ~InReplay /\ event = None /\ waiting[k] > 0
    /\ waiting' = [waiting EXCEPT ![k] = @ - 1]
    /\ event' = [key |-> k, down |-> (k \in pressed) = (waiting[k] % 2 = 1)]
    /\ masked' = IF ManagedOnly(mode) \cap real = {} THEN {} ELSE ManagedOnly(mode)
    /\ real' = real \ masked'
    /\ UNCHANGED <<counts, down, bindings, pressed, sent, tap, saved>>
    /\ Strays

(* What every end does: the mask ends and the event is over.               *)
EventOver ==
    /\ tap = None /\ ~InReplay /\ event # None
    /\ event' = None /\ masked' = {}
    /\ UNCHANGED <<managed, leased, physical, bindings, pressed, waiting, tap, saved>>

(* A behaviour took the press or the release: QMK never sees it and no     *)
(* native owner is counted.                                                *)
Consumed ==
    /\ EventOver /\ event.key \notin sent
    /\ real' = real \cup ManagedOnly(masked)
    /\ UNCHANGED <<report, native, down, sent>>
    /\ Strays

(* key_runtime_process_settle_report_ownership leaves a combo's event out. *)
Credit(f, s, by) == IF event.key \in ComboKeys THEN f ELSE Bump(f, s, by)

(* A press QMK processes, or whose usage is already down: a redundant edge *)
(* is kept from QMK, and both count as an owner.                           *)
NativePress ==
    LET c == KeycodeOf[event.key]
        overlap == \E u \in c.uses : leased[u] > 0 \/ native[u] > 0 IN
    /\ EventOver /\ event.down /\ event.key \notin sent
    /\ sent' = sent \cup {event.key}
    /\ native' = Credit(native, c.uses, 1)
    /\ report' = Credit(report, c.real, 1)
    /\ down' = IF overlap THEN down ELSE down \cup c.uses
    /\ real' = (IF overlap THEN real ELSE real \cup c.real) \cup ManagedOnly(masked)
    /\ Strays

(* A native release is kept from QMK while another owner holds a part of it*)
(* and always when it is a combination of modifiers.                       *)
Suppressed(c) ==
    \/ \E u \in c.uses : leased[u] > 0 \/ native[u] > 1
    \/ c.real # {} /\ c.modded /\ event.key \notin ComboKeys
    \/ ~c.modded /\ \E m \in c.real : managed[m] > 0 \/ report[m] > 1

(* The modifiers finalize drops: those the key was the last owner of.      *)
Last(c) ==
    IF event.key \in ComboKeys THEN {}
    ELSE {m \in c.real : report[m] = 1 /\ managed[m] = 0}

(* The release of a native owner, whether or not QMK processes it.         *)
NativeRelease ==
    LET c == KeycodeOf[event.key] IN
    /\ EventOver /\ ~event.down /\ event.key \in sent
    /\ sent' = sent \ {event.key}
    /\ native' = Credit(native, c.uses, -1)
    /\ report' = Credit(report, c.real, -1)
    /\ down' = IF Suppressed(c) THEN down ELSE down \ c.uses
    /\ real' = (real \ (Last(c) \cup IF Suppressed(c) THEN {} ELSE c.real))
               \cup ManagedOnly(masked)
    /\ Strays

-----------------------------------------------------------------------------
Init ==
    /\ managed = [m \in Mods |-> 0] /\ report = managed /\ physical = managed
    /\ leased = [u \in Usages |-> 0] /\ native = leased
    /\ real = {} /\ down = {}
    /\ heldMod = [k \in Keys |-> None] /\ held = heldMod /\ lease = heldMod
    /\ mode = {} /\ pressed = {} /\ waiting = [k \in Keys |-> 0] /\ sent = {}
    /\ event = None /\ masked = {}
    /\ tap = None /\ saved = None /\ stray = {}

Hold ==
    \/ \E k \in Keys, m \in Mods : HoldModifier(k, m)
    \/ \E k \in Keys, c \in Keycodes : HoldAction(k, c)
    \/ \E k \in Keys : ReleaseOwned(k)
    \/ \E ms \in ModeMods \cup {{}} : EnterMode(ms)

Emit ==
    \/ \E c \in Keycodes : TapDown(c)
    \/ TapUp
    \/ \E ms \in SUBSET Mods : ReplayBegin(ms)
    \/ ReplayEnd

KeyEvent ==
    \/ \E k \in Keys : ArrivePress(k) \/ ArriveRelease(k) \/ EventBegin(k)
    \/ Consumed \/ NativePress \/ NativeRelease

Next == Hold \/ Emit \/ KeyEvent

Spec == Init /\ [][Next]_vars

-----------------------------------------------------------------------------
(* Properties.                                                             *)

(* Every count stays a uint8_t, and bindings, leases, masks and events are *)
(* of real keys and parts.                                                 *)
TypeOK ==
    /\ managed \in [Mods -> 0 .. MaxCount] /\ report \in [Mods -> 0 .. MaxCount]
    /\ physical \in [Mods -> 0 .. MaxCount] /\ real \in SUBSET Mods
    /\ leased \in [Usages -> 0 .. MaxCount] /\ native \in [Usages -> 0 .. MaxCount]
    /\ down \in SUBSET Usages
    /\ heldMod \in [Keys -> Mods \cup {None}]
    /\ held \in [Keys -> Keycodes \cup {None}]
    /\ lease \in [Keys -> Keycodes \cup {None}]
    /\ mode \in SUBSET Mods
    /\ pressed \in SUBSET Keys /\ sent \in SUBSET Keys
    /\ waiting \in [Keys -> 0 .. MaxWaiting]
    /\ event = None \/ event \in [key : Keys, down : BOOLEAN]
    /\ masked \in SUBSET Mods
    /\ tap \in Keycodes \cup {None}
    /\ saved = None \/ saved \in SUBSET Mods
    /\ stray \in SUBSET Mods

(* Who holds a usage or a modifier: the leases of held actions and of the  *)
(* tap being sent, the held modifier bindings (one owner for all its keys),*)
(* the running mode, and the keys whose native press was sent.             *)
One(b) == IF b THEN 1 ELSE 0
UsageLeases(u) == {k \in Keys : lease[k] # None /\ u \in lease[k].uses}
UsageOwners(u) == Cardinality(UsageLeases(u)) + One(tap # None /\ u \in tap.uses)
UsageKeys(u) == {k \in sent : u \in KeycodeOf[k].uses}

ModLeases(m) == {k \in Keys : lease[k] # None /\ m \in lease[k].mods}
StandingOwners(m) ==
    Cardinality(ModLeases(m)) + One(HolderOf(m) # {}) + One(m \in mode)
ModOwners(m) == StandingOwners(m) + One(tap # None /\ m \in tap.mods)
ModKeys(m) == {k \in sent : m \in KeycodeOf[k].real}

(* A native key whose every edge is processed, and which is down.          *)
Settled(k) == k \in pressed /\ waiting[k] = 0
Shown == masked = {} /\ ~InReplay

(* Releasing one owner does not clear another: what any held action, tap,  *)
(* mode or native key holds is in the report, whatever order they overlap  *)
(* in and whoever lets go first (outside masks and replays, which hide     *)
(* modifiers on purpose).  A replay restores every modifier as its owners  *)
(* have it by then, save one whose first owner of ours came inside it: that*)
(* one is back when it mends, and a native key's is never lost.            *)
NoOwnerClearsAnother ==
    /\ \A u \in Usages : UsageOwners(u) > 0 \/ UsageKeys(u) # {} => u \in down
    /\ Shown => \A m \in Mods :
           (ModOwners(m) > 0 /\ m \notin stray) \/ (\E k \in ModKeys(m) : Settled(k))
           => m \in real

(* Nothing is stuck: what is in the report has an owner who will let it go,*)
(* whatever a replay hid and restored; save a modifier whose last owner    *)
(* left inside a replay, which its next owner takes along.                 *)
NothingOutlivesItsOwners ==
    /\ \A u \in down : UsageOwners(u) > 0 \/ UsageKeys(u) # {}
    /\ Shown => \A m \in real \ stray : ModOwners(m) > 0 \/ ModKeys(m) # {}

(* Each ledger counts exactly its owners, whatever several keys hold at    *)
(* once, bindings that change under a key and taps that settle holds, so no*)
(* lease is ever refused, leaked or given back twice.                      *)
CountsMatchOwners ==
    /\ \A u \in Usages :
           /\ leased[u] = UsageOwners(u)
           /\ native[u] = Cardinality(UsageKeys(u))
    /\ \A m \in Mods :
           /\ managed[m] = ModOwners(m)
           /\ report[m] = Cardinality(ModKeys(m))

=============================================================================
