------------------------------ MODULE ComboOrigin ------------------------------
(***************************************************************************)
(* Where a combo's output comes from (compat/qmk_combo_origin.c).  QMK      *)
(* sends the outputs of all combos from one key position and without the    *)
(* combo's index; the module pairs each press with the chord that fired it  *)
(* and each release with the press it ends, while a press may wait in QMK's *)
(* tapping queue, then in record admission, and its release behind it.      *)
(*                                                                         *)
(* Every combo here has one output, the case the pairing has to tell apart. *)
(* QMK's combo engine and its tapping queue are external: the flags the     *)
(* module reads (active, disabled) and the order outputs leave in.  Of      *)
(* record admission the module keeps which records wait (RecordAdmission    *)
(* has the rest).  Time is two ages: since the latest press, and since a    *)
(* completion was seen firing.                                              *)
(***************************************************************************)
EXTENDS Integers, Sequences, FiniteSets, SequencesExt, FiniteSetsExt

CONSTANTS
    MemberKeys, \* member keys, each with its own keycode
    Combos,     \* 1 .. n, in index order
    Chord,      \* per combo: its members, in the combo's own order
    CacheSize,  \* COMBO_BUFFER_LENGTH
    Presses,    \* bound: physical presses
    FireTerm,   \* the combo term QMK fires after, in ticks
    Wait,       \* combo_origin_latest_legal_wait_ms, in ticks
    Term,       \* combo_origin_applied_wait_ms, in ticks
    Holds,      \* the output holds modifiers or a layer: its release waits too
    Nothing

\* The records: an output on its way, and a table's entry.  `combo' and
\* `gen' of an output are what QMK does not say.
OutputType == [down : BOOLEAN, combo : Combos, gen : Nat]
NowType == [at : {"out", "in"}, rec : OutputType]
EntryType == [gen : Nat, keys : SUBSET MemberKeys, owner : MemberKeys, age : Nat,
              applied : BOOLEAN, crossed : BOOLEAN, pressed : BOOLEAN, release : Nat]
CacheType == [combo : Combos \cup {Nothing}, gen : Nat, owner : MemberKeys \cup {Nothing},
              keys : SUBSET MemberKeys, release : Nat]

\* Every key here is in one chord.
ASSUME ComboOriginAssumption ==
    /\ IsFiniteSet(Combos) /\ Combos = 1 .. Cardinality(Combos)
    /\ \A c \in Combos : Chord[c] # <<>> /\ Chord[c] \in Seq(MemberKeys)
    /\ MemberKeys = UNION {ToSet(Chord[c]) : c \in Combos}
    /\ \A c, d \in Combos : c # d => ToSet(Chord[c]) \cap ToSet(Chord[d]) = {}
    /\ CacheSize \in Nat \ {0} /\ Presses \in Nat
    /\ FireTerm \in Nat /\ Wait \in Nat /\ FireTerm <= Wait /\ Term \in Nat
    /\ Holds \in BOOLEAN
    /\ Nothing \notin MemberKeys \cup Combos \cup Nat \cup NowType \cup EntryType \cup CacheType

VARIABLES
    seq,        \* physical_key_states: press_sequence of a key down, else 0
    presses,    \* combo_origin_press_sequence
    lastPress,  \* combo_origin_last_pressed_key_pos, or Nothing
    lastUp,     \* combo_origin_last_released_key_pos, or Nothing
    sincePress, \* ticks since combo_origin_last_pressed_at
    pending,    \* combo_pending_output_cache: per combo, an entry or Nothing
    cache,      \* combo_active_cache: per slot, an entry or Nothing
    deliveries, \* combo_origin_delivery_sequence
    flag,       \* QMK: "idle", "prepared", "active" or "spent"
    counted,    \* QMK: the members it counts as down
    prepared,   \* QMK: press records of completed combos not fired, in completion order
    dumping,    \* QMK is firing them
    tapping,    \* QMK: ticks since a key it decides itself went down, or Nothing
    tapQueue,   \* QMK: output records waiting for that key
    tapHold,    \* record admission waits for a tap/hold key
    parked,     \* record_admission_held: output records, oldest first
    outputs,    \* the runtime: outputs pressed and not released, [owner, keys]
    now,        \* a record on its way: [at |-> "out" of QMK or "in" dispatch, rec], or Nothing
    pass,       \* where the matrix pass is
    ends,       \* ghost: combos in the order QMK delivered their releases
    replaced,   \* ghost: a waiting press lost its completion; not yet quiet
    detained,   \* ghost: QMK's tapping queue held a release; not yet quiet
    sent        \* ghost: the record this step dispatched, or Nothing

physical == <<seq, presses, lastPress, sincePress>>
tables == <<pending, cache, deliveries>>
engine == <<flag, counted, prepared, dumping>>
waiting == <<tapping, tapQueue, tapHold, parked>>
ghosts == <<ends, replaced, detained, sent>>
comboVars == <<physical, lastUp, tables, engine, waiting, outputs, now, pass, ghosts>>

Members(c) == ToSet(Chord[c])
Slots == 1 .. CacheSize
Active(c) == flag[c] = "active"
Disabled(c) == flag[c] \in {"active", "spent"}

Output(down, c, g) == [down |-> down, combo |-> c, gen |-> g]

-----------------------------------------------------------------------------
(* Chords of the keys down.                                                *)

\* combo_origin_combo_build_from_pressed_keys
Complete(c) == \A k \in Members(c) : seq'[k] > 0

\* The owner is the combo's last member, whatever order they went down in;
\* the generation is the latest press.
Owner(c) == Last(Chord[c])
Generation(c) == Max({seq'[k] : k \in Members(c)})

\* combo_origin_fallback_owner_keypos
FallbackOwner ==
    IF \E k \in MemberKeys : seq[k] > 0
    THEN CHOOSE k \in MemberKeys : \A j \in MemberKeys : seq[j] <= seq[k]
    ELSE lastPress

-----------------------------------------------------------------------------
(* Completions waiting for their output.                                   *)

Entry(c) ==
    [gen |-> Generation(c), keys |-> Members(c), owner |-> Owner(c), age |-> 0,
     applied |-> FALSE, crossed |-> FALSE, pressed |-> FALSE, release |-> 0]

InCache(c, g) == \E s \in Slots : cache[s] # Nothing /\ cache[s].combo = c /\ cache[s].gen = g

\* combo_origin_pending_output_store: the newest completion of a combo
\* replaces an older one.
Stored(c, e) ==
    IF InCache(c, Generation(c)) \/ (e # Nothing /\ e.gen = Generation(c)) THEN e ELSE Entry(c)

\* combo_origin_note_completed_pressed_combos
NoteCompleted(p) ==
    [c \in Combos |-> IF ~Disabled(c) /\ Complete(c) THEN Stored(c, p[c]) ELSE p[c]]

Overdue(e, since) == IF e.applied THEN e.age > Term ELSE since > Wait

\* Mutant: a delivered press has a deadline too.
ReconciledAnyway(c, e, since, observe) ==
    LET f == [e EXCEPT !.applied = @ \/ Active(c), !.crossed = @ /\ (e.applied \/ ~Active(c))]
    IN  IF ~f.applied /\ Disabled(c) THEN Nothing
        ELSE IF observe /\ ~Active(c) /\ Overdue(f, since)
             THEN IF f.crossed THEN Nothing ELSE [f EXCEPT !.crossed = TRUE]
             ELSE f

\* One entry of combo_origin_pending_output_reconcile: a fired completion is
\* marked, one suppressed before it fired is dropped, and one overdue in two
\* scans expires, unless QMK has delivered its press.
Reconciled(c, e, since, observe) ==
    LET f == [e EXCEPT !.applied = @ \/ Active(c), !.crossed = @ /\ (e.applied \/ ~Active(c))]
    IN  IF ~f.applied /\ Disabled(c) THEN Nothing
        ELSE IF observe /\ ~Active(c) /\ ~f.pressed /\ Overdue(f, since)
             THEN IF f.crossed THEN Nothing ELSE [f EXCEPT !.crossed = TRUE]
             ELSE f

\* As a physical event does: nothing expires.
Reconcile ==
    [c \in Combos |-> IF pending[c] = Nothing THEN Nothing
                       ELSE Reconciled(c, pending[c], sincePress, FALSE)]

-----------------------------------------------------------------------------
(* Which completion a record is for.                                       *)

Oldest(cs) ==
    IF cs = {} THEN Nothing ELSE CHOOSE c \in cs : \A d \in cs : pending[c].gen <= pending[d].gen

\* combo_origin_pending_entry_for_delivery
ForDelivery ==
    Oldest({c \in Combos : /\ pending[c] # Nothing /\ ~pending[c].pressed
                           /\ pending[c].applied \/ Active(c)})

\* combo_origin_pending_entry_for_dispatch
ForDispatch ==
    LET c == Oldest({d \in Combos : pending[d] # Nothing /\ pending[d].pressed})
    IN  IF c # Nothing THEN c ELSE ForDelivery

HasReleased(e) == lastUp \in e.keys

\* combo_origin_pending_entry_for_release
ForRelease ==
    LET open == {c \in Combos : pending[c] # Nothing /\ pending[c].pressed /\ pending[c].release = 0}
        its == {c \in open : HasReleased(pending[c])}
    IN  IF its # {} THEN Min(its) ELSE Oldest(open)

\* combo_origin_cache_entry_for_release: the one holding the released
\* member, else the first.
CacheForRelease ==
    LET open == {s \in Slots : cache[s] # Nothing /\ cache[s].release = 0}
        its == {s \in open : HasReleased(cache[s])}
    IN  IF its # {} THEN Min(its) ELSE IF open # {} THEN Min(open) ELSE Nothing

\* Mutant: a dispatched release takes the first dispatched output.
FirstHeld ==
    LET open == {s \in Slots : cache[s] # Nothing} IN IF open # {} THEN Min(open) ELSE Nothing

\* combo_origin_cache_entry_for_release_dispatch: releases leave in the
\* order they were delivered.
CacheForDispatch ==
    LET told == {s \in Slots : cache[s] # Nothing /\ cache[s].release > 0}
    IN  IF told # {} THEN CHOOSE s \in told : \A t \in told : cache[s].release <= cache[t].release
        ELSE CacheForRelease

\* combo_origin_collect_untracked_active_combo
Untracked ==
    LET cs == {c \in Combos : /\ Active(c)
                              /\ \A s \in Slots : cache[s] = Nothing \/ cache[s].combo # c
                              /\ \A k \in Members(c) : seq[k] > 0}
    IN  IF cs = {} THEN Nothing ELSE Min(cs)

-----------------------------------------------------------------------------
(* Dispatch (noah_qmk_combo_origin_normalize_record).                      *)

\* combo_origin_cache_store: a full cache refuses.
Place(e) ==
    LET same == {s \in Slots : cache[s] # Nothing /\ cache[s].combo = Nothing /\ e.combo = Nothing}
        free == {s \in Slots : cache[s] = Nothing}
    IN  IF same # {} THEN [cache EXCEPT ![Min(same)] = e]
        ELSE IF free # {} THEN [cache EXCEPT ![Min(free)] = e] ELSE cache

Cached(c, g, owner, keys, release) ==
    [combo |-> c, gen |-> g, owner |-> owner, keys |-> keys, release |-> release]

\* Mutant: a dispatched completion keeps its slot.
TakenButKept(c) == pending

\* combo_origin_pending_output_entry_clear
Taken(c) == [d \in Combos |-> IF d = c THEN Nothing ELSE pending[d]]

DispatchPress(p) ==
    LET c == ForDispatch
        u == Untracked
        e == IF c # Nothing
             THEN Cached(c, pending[c].gen, pending[c].owner, pending[c].keys, pending[c].release)
             ELSE IF u # Nothing
             THEN Cached(u, Max({seq[k] : k \in Members(u)}), Owner(u), Members(u), 0)
             ELSE Cached(Nothing, 0, FallbackOwner, MemberKeys, 0)
    IN  /\ cache' = Place(e)
        /\ pending' = Taken(c)
        /\ outputs' = outputs \cup {[owner |-> e.owner, keys |-> e.keys]}
        /\ sent' = [rec |-> p, owner |-> e.owner, keys |-> e.keys]
        /\ UNCHANGED <<lastUp, ends>>

\* What a release should end: of the outputs the runtime holds, the one QMK
\* let go of first.
LetGo == {i \in DOMAIN ends : \E h \in outputs : h.owner = Owner(ends[i])}

DispatchRelease(r) ==
    LET s == CacheForDispatch
        i == IF LetGo = {} THEN 1 ELSE Min(LetGo)
    IN  /\ IF s = Nothing
           THEN cache' = cache /\ outputs' = outputs /\ sent' = [rec |-> r, owner |-> Nothing, keys |-> {}]
           ELSE /\ cache' = [cache EXCEPT ![s] = Nothing]
                /\ outputs' = {h \in outputs : h.owner # cache[s].owner}
                /\ sent' = [rec |-> [r EXCEPT !.combo = ends[i]],
                            owner |-> cache[s].owner, keys |-> cache[s].keys]
        /\ lastUp' = Nothing
        /\ ends' = RemoveAt(ends, i)
        /\ pending' = pending

Dispatch ==
    /\ now # Nothing /\ now.at = "in"
    /\ IF now.rec.down THEN DispatchPress(now.rec) ELSE DispatchRelease(now.rec)
    /\ now' = Nothing
    /\ UNCHANGED <<physical, deliveries, engine, waiting, pass, replaced, detained>>

-----------------------------------------------------------------------------
(* Delivery: QMK's tapping queue lets a record go and record admission     *)
(* takes it (noah_qmk_combo_origin_capture_record, then admit).            *)

\* record_admission_press_is_held: held releases close held presses.
OutputIsHeld ==
    0 < FoldLeft(LAMBDA n, r : IF r.down THEN n + 1 ELSE IF n > 0 THEN n - 1 ELSE 0, 0, parked)

\* A combo output's release waits as its chord's owner's would
\* (record_admission_release_waits, noah_qmk_combo_origin_release_owner).
Waits(r) ==
    IF r.down THEN parked # <<>> \/ tapHold
    ELSE OutputIsHeld \/ (tapHold /\ Holds /\ \E s \in Slots : cache[s] # Nothing)

\* A press and the completion it is for
CapturePress ==
    /\ pending' = [c \in Combos |-> IF c = ForDelivery THEN [pending[c] EXCEPT !.pressed = TRUE]
                                                       ELSE pending[c]]
    /\ UNCHANGED <<cache, deliveries>>

\* Mutant: a release ends what is dispatched, whatever still waits.
ReleaseOfWaiting(s, c) == c # Nothing /\ s = Nothing

\* A release is told to the completion that waits, rather than to the
\* output dispatched, when only the former holds the released member.
IsForWaiting(s, c) ==
    /\ c # Nothing
    /\ IF s = Nothing THEN TRUE ELSE HasReleased(pending[c]) /\ ~HasReleased(cache[s])

CaptureRelease ==
    LET s == CacheForRelease
        c == ForRelease
        n == deliveries + 1
        its == s # Nothing \/ c # Nothing
    IN  /\ pending' = IF IsForWaiting(s, c) THEN [pending EXCEPT ![c].release = n] ELSE pending
        /\ cache' = IF s # Nothing /\ ~IsForWaiting(s, c) THEN [cache EXCEPT ![s].release = n] ELSE cache
        /\ deliveries' = IF its THEN n ELSE deliveries

\* A record leaves QMK: captured, then held back or dispatched at once.
Deliver ==
    /\ now # Nothing /\ now.at = "out"
    /\ LET r == now.rec
       IN  /\ IF r.down THEN CapturePress ELSE CaptureRelease
           /\ ends' = IF r.down THEN ends ELSE Append(ends, r.combo)
           /\ IF Waits(r) THEN parked' = Append(parked, r) /\ now' = Nothing
                          ELSE parked' = parked /\ now' = [now EXCEPT !.at = "in"]
    /\ sent' = Nothing
    /\ UNCHANGED <<physical, lastUp, engine, tapping, tapQueue, tapHold, outputs, pass, replaced, detained>>

-----------------------------------------------------------------------------
(* QMK's combo engine and tapping queue, as the module reads them.         *)

Idle == now = Nothing /\ ~dumping /\ (tapping # Nothing \/ tapQueue = <<>>)

\* Behind a key QMK decides itself presses wait, and the releases of what
\* waits, and any modifier's or layer's release.
Emit(r) ==
    IF tapping # Nothing /\ (r.down \/ Holds \/ \E i \in DOMAIN tapQueue : tapQueue[i].down)
    THEN /\ tapQueue' = Append(tapQueue, r) /\ now' = Nothing
         /\ detained' = (detained \/ ~r.down)
    ELSE /\ tapQueue' = tapQueue /\ now' = [at |-> "out", rec |-> r]
         /\ detained' = detained

\* The combo of key k (no two chords share a key)
ComboOf(k) == CHOOSE c \in Combos : k \in Members(c)

\* With every combo unpressed, active or disabled, QMK starts afresh.
Settled(f, n) ==
    IF \A c \in Combos : n[c] = {} \/ f[c] \in {"active", "spent"}
    THEN [c \in Combos |-> IF f[c] = "active" THEN "active" ELSE "idle"]
    ELSE f

CountPress(k) ==
    LET c == ComboOf(k)
        mine == counted[c] \cup {k}
        full == ~Disabled(c) /\ mine = Members(c)
    IN  /\ counted' = [counted EXCEPT ![c] = IF Disabled(c) THEN @ ELSE mine]
        /\ flag' = [flag EXCEPT ![c] = IF full THEN "prepared" ELSE @]
        /\ prepared' = IF full /\ flag[c] = "idle" THEN Append(prepared, Output(TRUE, c, Generation(c)))
                                                ELSE prepared

\* A combo's press is in QMK's buffer once.
Without(q, c) ==
    LET at == {i \in DOMAIN q : q[i].combo = c} IN IF at = {} THEN q ELSE RemoveAt(q, Min(at))

\* The first member let go of a chord not fired fires it, or drops it (one
\* that has to be held); the last one of a fired chord releases its output.
CountRelease(k) ==
    LET c == ComboOf(k)
        left == [counted EXCEPT ![c] = @ \ {k}]
        ends1 == Active(c) /\ Cardinality(counted[c]) <= 1
    IN  \E drop \in {FALSE, flag[c] = "prepared" /\ counted[c] = Members(c)} :
            LET f == [flag EXCEPT ![c] = IF drop \/ ends1 THEN "spent" ELSE @]
            IN  /\ flag' = Settled(f, left)
                /\ counted' = [d \in Combos |-> IF Settled(f, left)[d] = "idle" /\ f[d] = "spent"
                                               THEN {} ELSE left[d]]
                /\ prepared' = IF drop THEN Without(prepared, c) ELSE prepared
                /\ dumping' = (prepared' # <<>>)
                /\ IF ends1 THEN Emit(Output(FALSE, c, 0)) ELSE UNCHANGED <<tapQueue, now, detained>>

\* Another key, or the combo term, makes QMK fire what is prepared.
StartDump ==
    /\ pass = "events" /\ Idle /\ prepared # <<>>
    /\ dumping' = TRUE
    /\ sent' = Nothing
    /\ UNCHANGED <<physical, lastUp, tables, flag, counted, prepared, waiting, outputs, now, pass,
                   ends, replaced, detained>>

Fire ==
    /\ dumping /\ now = Nothing
    /\ LET r == Head(prepared)
       IN  flag' = [flag EXCEPT ![r.combo] = "active"] /\ Emit(r)
    /\ prepared' = Tail(prepared)
    /\ dumping' = (Len(prepared) > 1)
    /\ sent' = Nothing
    /\ UNCHANGED <<physical, lastUp, tables, counted, tapping, tapHold, parked, outputs, pass,
                   ends, replaced>>

\* A key QMK decides itself, TT() or OSL() to layers 16 to 31 (bound: not
\* while a tap/hold key is undecided, nor the other way round)
TapKeyDown ==
    /\ pass = "events" /\ Idle /\ tapping = Nothing /\ ~tapHold
    /\ tapping' = 0
    /\ sent' = Nothing
    /\ UNCHANGED <<physical, lastUp, tables, engine, tapQueue, tapHold, parked, outputs, now, pass,
                   ends, replaced, detained>>

TapKeyDecided ==
    /\ pass = "events" /\ Idle /\ tapping # Nothing
    /\ tapping' = Nothing
    /\ sent' = Nothing
    /\ UNCHANGED <<physical, lastUp, tables, engine, tapQueue, tapHold, parked, outputs, now, pass,
                   ends, replaced, detained>>

TapQueueLeaves ==
    /\ tapping = Nothing /\ tapQueue # <<>> /\ now = Nothing
    /\ now' = [at |-> "out", rec |-> Head(tapQueue)]
    /\ tapQueue' = Tail(tapQueue)
    /\ sent' = Nothing
    /\ UNCHANGED <<physical, lastUp, tables, engine, tapping, tapHold, parked, outputs, pass,
                   ends, replaced, detained>>

-----------------------------------------------------------------------------
(* Physical keys (noah_qmk_combo_origin_observe_physical_key_event, then   *)
(* QMK's combo engine).                                                    *)

\* Presses on their way whose completion this one takes the place of
Replaced(c) ==
    /\ pending[c] # Nothing /\ pending'[c] # Nothing /\ pending'[c].gen # pending[c].gen
    /\ \E r \in ToSet(tapQueue) \cup ToSet(parked) : r.down /\ r.gen = pending[c].gen

KeyDown(k) ==
    /\ pass = "events" /\ Idle
    /\ seq[k] = 0 /\ presses < Presses
    /\ presses' = presses + 1
    /\ seq' = [seq EXCEPT ![k] = presses + 1]
    /\ lastPress' = k /\ lastUp' = Nothing /\ sincePress' = 0
    /\ pending' = NoteCompleted(Reconcile)
    /\ CountPress(k)
    /\ replaced' = (replaced \/ \E c \in Combos : Replaced(c))
    /\ sent' = Nothing
    /\ UNCHANGED <<cache, deliveries, dumping, waiting, outputs, now, pass, ends, detained>>

KeyUp(k) ==
    /\ pass = "events" /\ Idle
    /\ seq[k] > 0
    /\ seq' = [seq EXCEPT ![k] = 0]
    /\ lastUp' = k
    /\ pending' = Reconcile
    /\ CountRelease(k)
    /\ sent' = Nothing
    /\ UNCHANGED <<presses, lastPress, sincePress, cache, deliveries, tapping, tapHold, parked,
                   outputs, pass, ends, replaced>>

-----------------------------------------------------------------------------
(* A matrix pass: the scan, record admission's task, the pass's events,    *)
(* QMK's combo and tapping tasks.                                          *)

UndecidedDown ==
    /\ pass = "events" /\ Idle /\ ~tapHold /\ parked = <<>>
    /\ tapping = Nothing
    /\ tapHold' = TRUE
    /\ sent' = Nothing
    /\ UNCHANGED <<physical, lastUp, tables, engine, tapping, tapQueue, parked, outputs, now, pass,
                   ends, replaced, detained>>

Decide ==
    /\ pass = "events" /\ Idle /\ tapHold
    /\ tapHold' = FALSE
    /\ sent' = Nothing
    /\ UNCHANGED <<physical, lastUp, tables, engine, tapping, tapQueue, parked, outputs, now, pass,
                   ends, replaced, detained>>

\* A pass ends with QMK's own tasks and the next begins with
\* noah_qmk_combo_origin_scan, t ticks later.  With the queues empty and
\* nothing held, what a replaced completion or a detained release could
\* spoil is over.
Later(e, t) == IF e = Nothing \/ t = 0 THEN e
               ELSE IF e.applied THEN [e EXCEPT !.age = Min({@ + 1, Term + 1})] ELSE e

PassOver(t) ==
    /\ pass = "events" /\ Idle
    /\ ~(prepared # <<>> /\ sincePress > FireTerm)
    /\ IF tapping = Nothing THEN TRUE ELSE tapping < Term
    /\ sincePress' = Min({sincePress + t, Wait + 1})
    /\ tapping' = IF tapping = Nothing THEN Nothing ELSE tapping + t
    /\ pending' = [c \in Combos |->
                     IF pending[c] = Nothing THEN Nothing
                     ELSE Reconciled(c, Later(pending[c], t), sincePress + t, TRUE)]
    /\ pass' = IF tapHold \/ parked = <<>> THEN "events" ELSE "replay"
    /\ LET quiet == parked = <<>> /\ tapQueue = <<>> /\ ends = <<>> /\ outputs = {}
       IN  replaced' = (replaced /\ ~quiet) /\ detained' = (detained /\ ~quiet)
    /\ sent' = Nothing
    /\ UNCHANGED <<seq, presses, lastPress, lastUp, cache, deliveries, engine, tapQueue, tapHold,
                   parked, outputs, now, ends>>

\* noah_record_admission_task
ReplayOutput ==
    /\ pass = "replay" /\ now = Nothing
    /\ parked' = Tail(parked) /\ now' = [at |-> "in", rec |-> Head(parked)]
    /\ pass' = IF Len(parked) > 1 THEN pass ELSE "events"
    /\ sent' = Nothing
    /\ UNCHANGED <<physical, lastUp, tables, engine, tapping, tapQueue, tapHold, outputs,
                   ends, replaced, detained>>

ComboInit ==
    /\ seq = [k \in MemberKeys |-> 0] /\ presses = 0
    /\ lastPress = Nothing /\ lastUp = Nothing /\ sincePress = 0
    /\ pending = [c \in Combos |-> Nothing]
    /\ cache = [s \in Slots |-> Nothing] /\ deliveries = 0
    /\ flag = [c \in Combos |-> "idle"] /\ counted = [c \in Combos |-> {}]
    /\ prepared = <<>> /\ dumping = FALSE
    /\ tapping = Nothing /\ tapQueue = <<>>
    /\ tapHold = FALSE /\ parked = <<>>
    /\ outputs = {} /\ now = Nothing /\ pass = "events"
    /\ ends = <<>> /\ replaced = FALSE /\ detained = FALSE /\ sent = Nothing

ComboNext ==
    \/ ReplayOutput \/ Deliver \/ Dispatch \/ Fire \/ TapQueueLeaves \/ StartDump
    \/ \E t \in 0 .. 1 : PassOver(t)
    \/ TapKeyDown \/ TapKeyDecided \/ UndecidedDown \/ Decide
    \/ \E k \in MemberKeys : KeyDown(k) \/ KeyUp(k)

ComboSpec == ComboInit /\ [][ComboNext]_comboVars

-----------------------------------------------------------------------------
(* Properties.                                                             *)

\* An output press is given to the chord that fired it, whatever was fired,
\* let go or pressed again while it waited.  (A combo pressed again while an
\* earlier press of its own still waits takes that press's place: the
\* completions of one combo share a slot.)
PressMeetsItsChord ==
    sent # Nothing /\ sent.rec.down /\ ~replaced =>
        sent.owner = Owner(sent.rec.combo) /\ sent.keys = Members(sent.rec.combo)

\* The releases of equal outputs end them in the order QMK let them go, so
\* never one whose chord is still down while another's was let go.  (A
\* release QMK's tapping queue held back is told too late: the member let go
\* then is another one.)
ReleaseEndsItsChord ==
    sent # Nothing /\ ~sent.rec.down /\ ~replaced /\ ~detained =>
        sent.owner = Owner(sent.rec.combo) /\ sent.keys = Members(sent.rec.combo)

\* When QMK has no output fired or on its way, the runtime holds none and no
\* slot is taken, and no completion waits that nothing would retire: nothing
\* leaks and no key sticks, not even after a combo took the place of its own
\* earlier press.
NothingSticks ==
    /\ \A c \in Combos : ~Active(c)
    /\ tapQueue = <<>> /\ parked = <<>> /\ now = Nothing
    => /\ outputs = {} /\ cache = [s \in Slots |-> Nothing]
       /\ \A c \in Combos : pending[c] # Nothing => ~pending[c].pressed
=============================================================================
