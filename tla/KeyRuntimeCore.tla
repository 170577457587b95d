---------------------------- MODULE KeyRuntimeCore ----------------------------
(***************************************************************************)
(* The key runtime's reducer and planners (key/runtime/): what a press, a  *)
(* release and a scan do to the press tokens, the tap series, the held     *)
(* actions and repeats, and the deferred releases, and which outputs they  *)
(* send, in which order.                                                   *)
(*                                                                         *)
(* key_runtime_core_state_t is one record, threaded through the functions  *)
(* as the code threads its pointer.  A time is an age, counted back from   *)
(* now; `late' is how far state->current_time is set back while the scans  *)
(* a key missed are made up for.  A plan is the sequence of effects        *)
(* key_runtime_core_effect_plan_t collects before they are projected.      *)
(*                                                                         *)
(* A behaviour row gives a key its terms and one step for each tap count.  *)
(* Of an action the module keeps which tier of which step it is.           *)
(***************************************************************************)
EXTENDS Integers, Sequences, FiniteSets, SequencesExt

CONSTANTS
    KeyOrder,    \* the keys, in matrix order
    Cap          \* bound: ages stop here, past every term and every wait

Keys == ToSet(KeyOrder)

VARIABLES
    row,         \* per key: its behaviour row
    held         \* record_admission_held, oldest first

-----------------------------------------------------------------------------
(* Behaviours.                                                             *)

NoHold == "none"

\* handled_key_hold_semantics_for_behavior: the styles that fire at their
\* threshold, and when the threshold comes.
Fires(style) == style \in {"held", "dispatch", "repeat"}

Depth(k) == Len(row[k].steps)
Step(k, n) == row[k].steps[n]
Tier(k, n, tier) == IF tier = "hold" THEN Step(k, n).hold ELSE Step(k, n).long
Term(k, tier) == IF tier = "hold" THEN row[k].holdTerm ELSE row[k].longTerm
HasHold(k, n) == Step(k, n).hold # NoHold
HasLong(k, n) == Step(k, n).long # NoHold

\* handled_key_resolution_uses_fallback_hold_behavior
UsesFallback(k, n) == row[k].fallback /\ n = 1

\* handled_key_tap_action_behavior, _repeat_count_behavior: a later count
\* without a tap of its own repeats the first tap.
TapStep(k, n) == IF n = 1 \/ Step(k, n).tap THEN n ELSE 1
TapRepeat(k, n) == IF n = 1 \/ Step(k, n).tap THEN 1 ELSE n

\* key_runtime_core_press_token_hold_changes_other_keys
HoldChangesOtherKeys(k, n) ==
    /\ row[k].handled
    /\ row[k].dual \/ (IF HasHold(k, n) THEN "hold" ELSE "long") \in Step(k, n).changes

-----------------------------------------------------------------------------
(* The state.                                                              *)

NoToken == [on |-> FALSE, age |-> 0, n |-> 1, phase |-> "idle", typing |-> FALSE,
            interrupted |-> FALSE, answered |-> FALSE]
NoSeries == [on |-> FALSE, age |-> 0, n |-> 1, typing |-> FALSE, pending |-> FALSE,
             resolved |-> FALSE]
NothingOwned == [lease |-> {}, key |-> NoHold, mods |-> NoHold, repeat |-> FALSE, layer |-> FALSE]

\* tok: press_tokens; ser: tap_series; own: the held action and repeat leases,
\* the held-action slots behind them, and the key's own layer; pend:
\* pending_releases, oldest first; plan: effects not yet projected; out: the
\* outputs sent so far; qmk: the records QMK's combo buffer has not delivered.
\* `answered' (ghost): the press has had an outcome.
CoreInit ==
    [tok |-> [k \in Keys |-> NoToken], ser |-> [k \in Keys |-> NoSeries],
     own |-> [k \in Keys |-> NothingOwned], pend |-> <<>>, plan |-> <<>>, out |-> <<>>,
     qmk |-> <<>>]

\* The clock moves on by one.
Older(age) == IF age < Cap THEN age + 1 ELSE Cap
OlderRecords(q) == [i \in DOMAIN q |-> [q[i] EXCEPT !.age = Older(@)]]
CoreOlder(s) ==
    [s EXCEPT !.tok = [k \in Keys |-> IF @[k].on THEN [@[k] EXCEPT !.age = Older(@)] ELSE @[k]],
              !.ser = [k \in Keys |-> IF @[k].on THEN [@[k] EXCEPT !.age = Older(@)] ELSE @[k]],
              !.qmk = OlderRecords(@)]

\* noah_qmk_gesture_event_pending, record_admission_event_pending: a record of
\* the key whose time lies at most `term' after an event `age' old.
Queued(q, k, down, age, term) ==
    \E i \in DOMAIN q : q[i].key = k /\ q[i].down = down /\ age - q[i].age \in 0 .. term

\* key_runtime_core_query_press_token_undecided_dual_role
Undecided(s, k) ==
    s.tok[k].on /\ s.tok[k].phase = "tap" /\ HoldChangesOtherKeys(k, s.tok[k].n)

\* key_runtime_core_press_token_hold_eligible, at a time `late' ago
HoldEligible(s, k, late) ==
    LET since == s.tok[k].age
        Released(q) == Queued(q, k, FALSE, since, since - late)
    IN  /\ s.tok[k].on
        /\ ~Released(s.qmk)
        /\ Undecided(s, k) \/ ~Released(held)

\* key_runtime_core_tap_series_pending_gesture: its next press is queued.
PressQueued(s, k) ==
    /\ s.ser[k].on
    /\ \/ Queued(held, k, TRUE, s.ser[k].age, row[k].tapTerm)
       \/ Queued(s.qmk, k, TRUE, s.ser[k].age, row[k].tapTerm)

\* key_runtime_core_tap_series_in_run, for a press `a' old
InRun(s, k, a) ==
    /\ s.ser[k].on /\ ~s.ser[k].resolved /\ Depth(k) > 1
    /\ s.ser[k].age - a <= row[k].tapTerm \/ PressQueued(s, k)

CanAcceptPress(s, k, a) == InRun(s, k, a) /\ ~s.ser[k].typing /\ s.ser[k].n < Depth(k)
Overshoots(s, k, a) == InRun(s, k, a) /\ ~CanAcceptPress(s, k, a)

PendingHoldSeries(s, k) == s.ser[k].on /\ s.ser[k].pending

\* key_runtime_core_owner_has_runtime_owned_state_lease
OwnsState(s, k) == s.own[k].lease # {} \/ s.own[k].repeat

\* key_runtime_core_holds_layer_or_mods_at
HoldsLayerOrMods(s, k) ==
    s.own[k].layer \/ (s.tok[k].on /\ s.own[k].lease \cap Step(k, s.tok[k].n).changes # {})

\* key_runtime_core_release_is_mods_or_layer: a handled key by what it holds,
\* any other by its keycode.
ModsOrLayer(s, k) ==
    IF s.tok[k].on /\ row[k].handled THEN HoldsLayerOrMods(s, k) ELSE row[k].native

-----------------------------------------------------------------------------
(* Deferred releases: who holds them back.                                 *)

\* key_runtime_core_query_press_token_owned_state_active
OwnedStateActive(s, k) ==
    LET hold == Step(k, s.tok[k].n).hold
    IN  \/ OwnsState(s, k)
        \/ hold = "immediate"
        \/ s.tok[k].age >= row[k].holdTerm /\ hold \in {"held", "repeat"}

\* key_runtime_core_query_press_token_blocks_deferred_release: a key that may
\* still answer with a tap.  A momentary layer key another key has used may
\* not, nor may one past its tap term.
Blocks(s, k) ==
    /\ s.tok[k].on /\ row[k].handled
    /\ ~PendingHoldSeries(s, k) /\ ~OwnedStateActive(s, k)
    /\ row[k].momentary => ~s.tok[k].interrupted /\ s.tok[k].age < row[k].holdTerm

\* key_runtime_core_query_effective_deferred_release_blocker_count, and
\* whether another key blocks what `k' has to say.
Blocked(s) == \E k \in Keys : Blocks(s, k)
BlockedByAnother(s, k) == \E o \in Keys \ {k} : Blocks(s, o)

-----------------------------------------------------------------------------
(* Projection (projection/projection.c).                                   *)

\* The presses of a key whose outcome waits in the deferred releases.
Waiting(s, k) ==
    FoldLeft(LAMBDA n, p : IF p.key = k /\ ~p.again THEN n + p.n ELSE n, 0, s.pend)

\* Outputs as they are sent.  `deferred' (ghost): how many presses of each key
\* have their outcome still deferred.
Sent(s, e) ==
    [s EXCEPT !.out = Append(@, [key |-> e.key, what |-> e.what, n |-> e.n, again |-> e.again,
                                 deferred |-> [o \in Keys |-> Waiting(s, o)]])]

\* key_runtime_core_held_action_lease_activate, _repeat_lease_activate: one
\* lease for each action of a key, and one for its repeat.
Leased(s, k, what) == [s EXCEPT !.own[k].lease = @ \cup {what}]
RepeatLeased(s, k) == [s EXCEPT !.own[k].repeat = TRUE]

\* key_runtime_core_release_runtime_owned_state_leases_for_key
LeasesReleased(s, k) == [s EXCEPT !.own[k].lease = {}, !.own[k].repeat = FALSE]

\* key_runtime_core_press_token_commit_hold_phase: a hold with a longer one
\* behind it is a tier, any other is the last.
HoldPhase(k, n) == IF HasLong(k, n) THEN "tier" ELSE "complete"

\* key_runtime_core_observe_held_action_register: the lease, and the phase of
\* the token it belongs to.
ObserveRegister(s, k, what) ==
    LET t == s.tok[k]
        phase == CASE t.phase = "tap" /\ UsesFallback(k, t.n) -> "complete"
                   [] t.phase = "tap" /\ ~UsesFallback(k, t.n) /\ t.age >= row[k].holdTerm ->
                         HoldPhase(k, t.n)
                   [] t.phase = "relhold" -> "complete"
                   [] OTHER -> t.phase
    IN  [Leased(s, k, what) EXCEPT !.tok[k].phase = phase]

\* held_action_register_owned_by_key: modifiers have a slot of their own.
HeldActionRegister(s, k, what) ==
    IF what # "fallback" /\ what \in Step(k, s.tok[k].n).mods
    THEN [s EXCEPT !.own[k].mods = what]
    ELSE [s EXCEPT !.own[k].key = what]

\* The slot that holds the action already sends nothing again.
Register(s, e) ==
    IF e.what \in {s.own[e.key].key, s.own[e.key].mods} THEN ObserveRegister(s, e.key, e.what)
    ELSE Sent(HeldActionRegister(ObserveRegister(s, e.key, e.what), e.key, e.what), e)

\* key_runtime_core_fallback_hold_due
FallbackDue(s, k, late) ==
    /\ row[k].handled /\ UsesFallback(k, s.tok[k].n)
    /\ HoldEligible(s, k, late) /\ ~OwnsState(s, k)

FallbackEffect(k) == [do |-> "register", key |-> k, what |-> "fallback", n |-> 1, again |-> FALSE]

\* key_runtime_core_pending_fallback_holds: a tap that is sent first turns on
\* every fallback hold still waiting for its term
\* (NOAH_EMIT_POLICY_SETTLE_FALLBACK_HOLDS).
SettleFallbackHolds(s) ==
    FoldLeft(LAMBDA t, k : IF FallbackDue(s, k, 0) THEN Register(t, FallbackEffect(k)) ELSE t,
             s, KeyOrder)

EmitTap(s, e) == Sent(SettleFallbackHolds(s), e)

\* key_runtime_core_observe_repeat_start, held_repeat_start
RepeatStart(s, e) ==
    LET t == s.tok[e.key]
        phase == CASE t.phase \in {"tap", "pressheld"} -> HoldPhase(e.key, t.n)
                   [] t.phase = "relhold" -> "complete"
                   [] OTHER -> t.phase
    IN  EmitTap([RepeatLeased(s, e.key) EXCEPT !.tok[e.key].phase = phase], e)

\* Mutant: a key's modifiers slot is let go only with its action slot.
ReleaseKeySlotOnly(s, k) ==
    [LeasesReleased(s, k) EXCEPT !.own[k].key = NoHold]

\* key_runtime_core_release_owned_state_by_key and
\* held_action_or_modifier_release_owned_by_key: every lease, but only one of
\* the two slots.
ReleaseOwned(s, k) ==
    LET slot == IF s.own[k].key # NoHold THEN "key" ELSE "mods"
    IN  [LeasesReleased(s, k) EXCEPT !.own[k].key = IF slot = "key" THEN NoHold ELSE @,
                                     !.own[k].mods = IF slot = "mods" THEN NoHold ELSE @]

\* pending_release_slot_t: the dispatch, and whether the press that owns it
\* is down (key_runtime_core_pending_release_owner_active).
Deferred(e, down) == [key |-> e.key, what |-> e.what, n |-> e.n, again |-> e.again, owned |-> down]

\* key_runtime_core_append_pending_release
Appended(s, pending) == [s EXCEPT !.pend = Append(@, pending)]

\* key_runtime_core_queue_pending_release_dispatch_for_owner: owned by the
\* press of its key, if one is down.
Defer(s, e) == Appended(s, Deferred(e, s.tok[e.key].on))

\* key_runtime_core_project_effect
Project(s, e) ==
    CASE e.do = "tap"       -> EmitTap(s, e)
      [] e.do = "register"  -> Register(s, e)
      [] e.do = "repeat"    -> RepeatStart(s, e)
      [] e.do = "unown"     -> ReleaseOwned(s, e.key)
      [] e.do = "defer"     -> Defer(s, e)
      [] e.do = "layer on"  -> Sent([s EXCEPT !.own[e.key].layer = TRUE], e)
      [] e.do = "layer off" -> [s EXCEPT !.own[e.key].layer = FALSE]

\* key_runtime_transition_execute_plan
Execute(s) == FoldLeft(Project, [s EXCEPT !.plan = <<>>], s.plan)

\* key_runtime_deferred_release_drain_dispatches: at most four, oldest first,
\* none while a key that may still be a tap is down, and none whose own press is.
DrainBatch == 4

\* key_runtime_core_first_eligible_pending_release: 0 when there is none.
FirstEligible(q) == SelectInSeq(q, LAMBDA p : ~p.owned)

\* key_runtime_core_unlink_pending_release: the one it takes leaves the others
\* in their order.
TakeNext(b) ==
    LET i == FirstEligible(b.left)
    IN  IF i = 0 THEN b
        ELSE [left |-> RemoveAt(b.left, i), taken |-> Append(b.taken, b.left[i])]

Drain(s) ==
    LET batch == FoldLeft(LAMBDA b, i : TakeNext(b), [left |-> s.pend, taken |-> <<>>],
                          [i \in 1 .. DrainBatch |-> i])
    IN  IF s.pend = <<>> \/ Blocked(s) THEN s
        ELSE FoldLeft(EmitTap, [s EXCEPT !.pend = batch.left], batch.taken)

-----------------------------------------------------------------------------
(* Planning: what a scan decides (planning/scan_planner.c).                *)

\* One effect of a key's press.
Push(s, k, do, what, n) ==
    [s EXCEPT !.plan = Append(@, [do |-> do, key |-> k, what |-> what, n |-> n,
                                  again |-> s.tok[k].answered]),
              !.tok[k].answered = TRUE]
PushBare(s, k, do) ==
    [s EXCEPT !.plan = Append(@, [do |-> do, key |-> k, what |-> "none", n |-> 0, again |-> TRUE])]

\* Taps of a key's series, which count the presses before this one.
PushTaps(s, k, do, n, count) ==
    [s EXCEPT !.plan = @ \o [i \in 1 .. count |-> [do |-> do, key |-> k, what |-> "tap", n |-> n,
                                                   again |-> FALSE]]]

SetPhase(s, k, phase) == [s EXCEPT !.tok[k].phase = phase]
ClearSeries(s, k) == [s EXCEPT !.ser[k] = NoSeries]

\* Mutant: taps typed early stay in their series.
FlushKeepsSeries(s, k, do) ==
    PushTaps(s, k, do, TapStep(k, s.ser[k].n), TapRepeat(k, s.ser[k].n))

\* key_runtime_core_tap_series_take_flush: the branch the taps reached; a
\* resolved series has nothing left to send.
FlushSeries(s, k, do) ==
    LET n == s.ser[k].n
    IN  IF s.ser[k].resolved THEN s
        ELSE ClearSeries(PushTaps(s, k, do, TapStep(k, n), TapRepeat(k, n)), k)

ThresholdEffect(style) ==
    CASE style = "dispatch" -> "tap" [] style = "held" -> "register" [] style = "repeat" -> "repeat"

\* key_runtime_core_plan_threshold_hold_effects: what the key owns already is
\* let go first.
PlanThreshold(s, k, tier, completes, late) ==
    LET n == s.tok[k].n
        clear == IF OwnsState(s, k) THEN PushBare(s, k, "unown") ELSE s
    IN  IF ~HoldEligible(s, k, late) THEN s
        ELSE SetPhase(Push(clear, k, ThresholdEffect(Tier(k, n, tier)), tier, n), k,
                      IF completes THEN "complete" ELSE "tier")

\* key_runtime_core_scan_clear_confirmed_tap_series_at
PlanLong(s, k, late) ==
    PlanThreshold(IF s.ser[k].on /\ s.ser[k].resolved THEN ClearSeries(s, k) ELSE s,
                  k, "long", TRUE, late)

\* key_runtime_core_plan_fallback_hold_activation
PlanFallback(s, k, late) ==
    IF FallbackDue(s, k, late) THEN Push(s, k, "register", "fallback", 1) ELSE s

\* key_runtime_core_press_token_active_scan_should_mark_release_hold_pending
ReleaseHoldReached(k, n, elapsed) ==
    \/ Step(k, n).hold = "release" /\ elapsed >= row[k].holdTerm
    \/ ~HasHold(k, n) /\ Step(k, n).long = "release" /\ elapsed >= row[k].longTerm

\* key_runtime_core_plan_active_scan_for_token
PlanActiveScan(s, k, late) ==
    LET t == s.tok[k]
        elapsed == t.age - late
        longNow == Fires(Step(k, t.n).long) /\ elapsed >= row[k].longTerm
        holdNow == elapsed >= row[k].holdTerm
        committed == IF holdNow THEN SetPhase(s, k, HoldPhase(k, t.n)) ELSE s
    IN  IF ~row[k].handled \/ ~HoldEligible(s, k, late) \/ PendingHoldSeries(s, k) THEN s
        ELSE CASE t.phase = "tap" ->
                    IF UsesFallback(k, t.n) /\ s.own[k].lease = {} /\ holdNow THEN PlanFallback(s, k, late)
                    ELSE IF longNow THEN PlanLong(s, k, late)
                    ELSE IF Fires(Step(k, t.n).hold) /\ holdNow
                         THEN PlanThreshold(s, k, "hold", ~HasLong(k, t.n), late)
                    ELSE IF ReleaseHoldReached(k, t.n, elapsed) THEN SetPhase(s, k, "relhold")
                    ELSE s
               [] t.phase = "pressheld" -> IF longNow THEN PlanLong(committed, k, late) ELSE committed
               [] t.phase \in {"relhold", "tier"} -> IF longNow THEN PlanLong(s, k, late) ELSE s
               [] OTHER -> s

\* Mutant: the thresholds a key crossed are judged as of now.
MissedScansNow(s, k, a) == PlanActiveScan(s, k, 0)

\* key_runtime_core_plan_missed_scans_for_token: the thresholds the key
\* crossed before an event `a' old, in order, each at its own time.
MissedScans(s, k, a) ==
    LET first == IF row[k].longTerm < row[k].holdTerm THEN "long" ELSE "hold"
        second == IF first = "hold" THEN "long" ELSE "hold"
        At(t, tier) == IF t.tok[k].age - a >= Term(k, tier)
                       THEN PlanActiveScan(t, k, t.tok[k].age - Term(k, tier)) ELSE t
    IN  IF row[k].handled /\ s.tok[k].on THEN At(At(s, first), second) ELSE s

\* key_runtime_core_resolve_pending_multi_tap_scan: what a scan finds due in
\* a series.
SeriesOutcome(s, k) ==
    LET t == s.tok[k]
        Reached(tier) == Fires(Tier(k, t.n, tier)) /\ t.age >= Term(k, tier)
    IN  CASE ~s.ser[k].pending ->
               IF t.on \/ PressQueued(s, k) \/ s.ser[k].age <= row[k].tapTerm THEN "none" ELSE "flush"
          [] s.ser[k].pending /\ ~HoldEligible(s, k, 0) -> "none"
          [] OTHER ->
               IF Step(k, t.n).hold = "release" /\ t.age >= row[k].holdTerm /\ t.phase # "relhold"
               THEN "release hold"
               ELSE IF Reached("long") THEN "long" ELSE IF Reached("hold") THEN "hold" ELSE "none"

\* key_runtime_core_plan_pending_multi_tap_scan_for_key
PlanSeriesScan(s, k) ==
    LET n == s.tok[k].n
        outcome == SeriesOutcome(s, k)
        marked == SetPhase(s, k, "relhold")
        longDue == Fires(Step(k, n).long) /\ s.tok[k].age >= row[k].longTerm
        To(t, tier) == PlanThreshold(ClearSeries(t, k), k, tier, tier = "long" \/ ~HasLong(k, n), 0)
    IN  CASE outcome = "flush" -> FlushSeries(s, k, "tap")
          [] outcome \in {"hold", "long"} -> To(s, outcome)
          [] outcome = "release hold" ->
                IF longDue THEN To(marked, "long")
                ELSE [marked EXCEPT !.ser[k].resolved = TRUE, !.ser[k].pending = FALSE]
          [] OTHER -> s

\* noah_key_runtime_scan
Scan(s) ==
    LET active == FoldLeft(LAMBDA t, k : PlanActiveScan(t, k, 0), s, KeyOrder)
        series == FoldLeft(LAMBDA t, k : IF t.ser[k].on THEN PlanSeriesScan(t, k) ELSE t,
                           active, KeyOrder)
    IN  Drain(Execute(series))

-----------------------------------------------------------------------------
(* A press.                                                                *)

\* key_runtime_core_press_token_settles_on_other_press: a hold that is an
\* output of its own, and that nothing has turned on already.
SettlesOnOtherPress(s, k) ==
    LET n == s.tok[k].n
    IN  /\ row[k].handled /\ ~row[k].momentary
        /\ ~UsesFallback(k, n) /\ ~HoldChangesOtherKeys(k, n)

\* key_runtime_core_press_token_release_hold_action
ReleaseHoldTier(k, n, elapsed) ==
    IF Step(k, n).long = "release" /\ elapsed >= row[k].longTerm THEN "long"
    ELSE IF Step(k, n).hold = "release" /\ elapsed >= row[k].holdTerm THEN "hold" ELSE NoHold

\* key_runtime_core_settle_on_other_press, at an event `a' old
SettleOnOtherPress(s, k, a) ==
    LET t == s.tok[k]
        elapsed == t.age - a
        series == s.ser[k].on /\ ~s.ser[k].resolved
        anyHold == HasHold(k, t.n) \/ HasLong(k, t.n)
        firstTerm == IF HasHold(k, t.n) THEN row[k].holdTerm ELSE row[k].longTerm
        tapPending == /\ t.phase = "tap" \/ (t.phase = "complete" /\ series)
                      /\ ~(anyHold /\ elapsed >= firstTerm)
        tier == ReleaseHoldTier(k, t.n, elapsed)
        settled == CASE tapPending /\ series -> FlushSeries(s, k, "tap")
                     [] tapPending /\ ~series -> Push(s, k, "tap", "tap", TapStep(k, t.n))
                     [] OTHER -> ClearSeries(Push(s, k, "tap", tier, t.n), k)
    IN  IF ~SettlesOnOtherPress(s, k) THEN s
        ELSE IF tapPending \/ (t.phase \in {"tap", "relhold"} /\ tier # NoHold)
             THEN SetPhase([settled EXCEPT !.tok[k].answered = TRUE], k, "idle")
             ELSE s

ForOthersDown(s, k, Act(_, _)) ==
    FoldLeft(LAMBDA t, o : IF o # k /\ t.tok[o].on THEN Act(t, o) ELSE t, s, KeyOrder)

\* key_runtime_core_interrupt_active_keys_on_other_press
InterruptOthers(s, k, a) ==
    ForOthersDown(s, k, LAMBDA t, o :
        [SettleOnOtherPress(PlanFallback(MissedScans(t, o, a), o, 0), o, a)
            EXCEPT !.tok[o].interrupted = TRUE])

\* key_runtime_core_flush_foreign_series: a handled press types the pending
\* taps of tap/hold keys only.
FlushForeignSeries(s, k) ==
    FoldLeft(LAMBDA t, o :
                IF o # k /\ t.ser[o].on /\ ~t.tok[o].on /\ ~PressQueued(t, o)
                   /\ (row[k].handled => row[o].dual)
                THEN FlushSeries(t, o, "tap") ELSE t,
             s, KeyOrder)

\* key_runtime_core_settle_before_press
SettleBeforePress(s, k, a) == Execute(FlushForeignSeries(Execute(InterruptOthers(s, k, a)), k))

\* key_runtime_core_press_token_begin, for a press `a' old
BeginPress(s, k, a) ==
    LET next == CanAcceptPress(s, k, a)
        n == IF next THEN s.ser[k].n + 1 ELSE 1
        others == [o \in Keys |-> IF o # k /\ s.tok[o].on
                                  THEN [s.tok[o] EXCEPT !.interrupted = TRUE] ELSE s.tok[o]]
        phase == IF ~row[k].handled THEN "idle"
                 ELSE IF Step(k, n).hold = "immediate" THEN "pressheld" ELSE "tap"
    IN  [s EXCEPT !.tok = [others EXCEPT ![k] =
            [on |-> TRUE, age |-> a, n |-> n, phase |-> phase,
             typing |-> ~next /\ Overshoots(s, k, a), interrupted |-> FALSE, answered |-> FALSE]]]

\* key_runtime_core_tap_series_join
JoinSeries(s, k) ==
    LET t == s.tok[k]
    IN  [s EXCEPT !.ser[k] = [@ EXCEPT !.n = t.n, !.age = t.age, !.typing = t.typing,
                                       !.pending = HasHold(k, t.n) \/ HasLong(k, t.n)]]

\* Mutant: a press that does not continue a run drops it.
EndRunDropsIt(s, k) == ClearSeries(s, k)

\* key_runtime_core_tap_series_type_first_tap, _take_flush: a run that has
\* become typing is sent as the first tap, once for each press.
EndRun(s, k) ==
    IF s.tok[k].typing
    THEN ClearSeries(PushTaps(s, k, "defer", 1, s.ser[k].n), k)
    ELSE ClearSeries(FlushSeries(s, k, "defer"), k)

LayerOn(s, k) == IF row[k].momentary THEN Push(s, k, "layer on", "layer", 1) ELSE s
ImmediateOn(s, k) ==
    IF Step(k, s.tok[k].n).hold = "immediate" THEN Push(s, k, "register", "hold", s.tok[k].n) ELSE s

\* key_runtime_core_handle_handled_key_press
HandledPress(s, k) ==
    LET old == s.tok[k].age
        ended == IF s.ser[k].on /\ ~CanAcceptPress(s, k, old) THEN EndRun(s, k) ELSE s
        joined == LayerOn(JoinSeries(ended, k), k)
    IN  IF ~CanAcceptPress(ended, k, old) THEN ImmediateOn(LayerOn(ended, k), k)
        ELSE IF joined.ser[k].pending THEN SetPhase(ImmediateOn(joined, k), k, "tap")
        ELSE SetPhase(joined, k, "complete")

\* A key QMK handles: its press is sent as it is.
NativePress(s, k) ==
    Sent(s, [key |-> k, what |-> "native", n |-> 1, again |-> FALSE])

\* Mutant: the other keys are settled after the press went out.
PressThenSettle(s, k, a) ==
    LET begun == BeginPress(s, k, a)
    IN  SettleBeforePress(IF row[k].handled THEN Execute(HandledPress(begun, k)) ELSE NativePress(begun, k), k, a)

\* process_record of a press: observed, settled, then handled
Press(s, k, a) ==
    LET begun == SettleBeforePress(BeginPress(s, k, a), k, a)
    IN  IF row[k].handled THEN Execute(HandledPress(begun, k)) ELSE NativePress(begun, k)

-----------------------------------------------------------------------------
(* A release.                                                              *)

\* key_runtime_core_settle_before_release, then
\* key_runtime_core_settle_active_keys_on_other_release
SettleBeforeRelease(s, k, a) ==
    LET own == Execute(MissedScans(s, k, a))
    IN  IF ModsOrLayer(own, k)
        THEN Execute(ForOthersDown(own, k, LAMBDA t, o : SettleOnOtherPress(MissedScans(t, o, a), o, a)))
        ELSE own

\* Mutant: a deferred release stays owned by a press that has ended.
EndPressKeepsOwning(s, k, a) ==
    [s EXCEPT !.tok[k].on = FALSE,
              !.ser[k].pending = @ /\ s.tok[k].phase = "tap" /\ s.tok[k].age - a < row[k].holdTerm]

\* key_runtime_core_tap_series_note_hold_release
NoteHoldRelease(s, k) == [s EXCEPT !.ser[k].pending = FALSE]

\* key_runtime_core_press_token_end: a tap's release is the release decision's
\* to settle, a hold's ends the series' pending hold.  The press owns no
\* deferred release any more (key_runtime_core_pending_release_owner_active).
EndPress(s, k, a) ==
    LET t == s.tok[k]
        tap == t.phase = "tap" /\ t.age - a < row[k].holdTerm
    IN  [(IF tap THEN s ELSE NoteHoldRelease(s, k)) EXCEPT
            !.tok[k].on = FALSE,
            !.pend = [i \in DOMAIN @ |-> IF @[i].key = k THEN [@[i] EXCEPT !.owned = FALSE] ELSE @[i]]]

ReleaseHeld(s, k) ==
    LET layer == IF row[k].momentary THEN PushBare(s, k, "layer off") ELSE s
    IN  IF OwnsState(s, k) THEN PushBare(layer, k, "unown") ELSE layer

\* key_runtime_core_tap_series_preserve_release: a new window from the release.
PreserveRelease(s, k, elapsed) ==
    [s EXCEPT !.ser[k].age = s.tok[k].age - elapsed, !.ser[k].pending = FALSE]

\* key_runtime_core_tap_series_start
StartSeries(s, k, elapsed) ==
    [s EXCEPT !.ser[k] = [NoSeries EXCEPT !.on = TRUE, !.n = s.tok[k].n,
                                          !.age = s.tok[k].age - elapsed, !.typing = s.tok[k].typing]]

\* key_runtime_core_apply_release_settlement: what becomes of the series, and
\* the token is free again.
Settled(s, k, settlement, elapsed) ==
    [(CASE settlement = "preserve" -> PreserveRelease(s, k, elapsed)
        [] settlement = "start"    -> StartSeries(s, k, elapsed)
        [] settlement = "reset"    -> ClearSeries(s, k)) EXCEPT !.tok[k] = NoToken]

\* key_runtime_core_resolve_pending_multi_tap_release and its plan: a later
\* tap of a series.  A quick one waits for the next, or for its window.
PendingRelease(s, k, elapsed) ==
    LET n == s.tok[k].n
        select == IF Step(k, n).hold = "release" THEN elapsed >= row[k].holdTerm
                  ELSE ~HasHold(k, n) /\ Step(k, n).long = "release" /\ elapsed >= row[k].longTerm
        freed == ReleaseHeld(s, k)
    IN  IF elapsed < row[k].holdTerm
        THEN Settled(freed, k, "preserve", elapsed)
        ELSE IF select
        THEN Settled(Push(freed, k, "tap", ReleaseHoldTier(k, n, elapsed), n), k, "reset", elapsed)
        ELSE Settled(PushTaps(freed, k, "tap", TapStep(k, n), TapRepeat(k, n)), k, "reset", elapsed)

\* key_runtime_release_decide (planning/release_planner.h): the outcome of a
\* press that ends no series, by the phase its scans left it in.
ReleaseOutcome(s, k, elapsed) ==
    LET t == s.tok[k]
        step == Step(k, t.n)
        quick == elapsed < row[k].holdTerm /\ ~(row[k].momentary /\ t.interrupted)
        longReady == step.long = "release" /\ elapsed >= row[k].longTerm
    IN  CASE t.phase = "tap" ->
               IF quick THEN "tap"
               ELSE IF UsesFallback(k, t.n) THEN NoHold
               ELSE IF longReady THEN "long"
               ELSE IF step.hold = "release" THEN "hold"
               ELSE IF ~row[k].momentary THEN "tap" ELSE NoHold
          [] t.phase = "pressheld" ->
               IF quick /\ step.hold = "immediate" /\ ~t.interrupted THEN "tap"
               ELSE IF longReady THEN "long" ELSE NoHold
          [] t.phase = "relhold" ->
               IF longReady THEN "long" ELSE IF step.hold = "release" THEN "hold" ELSE NoHold
          [] t.phase \in {"tier", "complete"} -> IF longReady THEN "long" ELSE NoHold
          [] OTHER -> NoHold

\* key_runtime_core_plan_active_release_effects and its settlement
ActiveRelease(s, k, elapsed) ==
    LET n == s.tok[k].n
        outcome == ReleaseOutcome(s, k, elapsed)
        freed == ReleaseHeld(s, k)
    IN  CASE outcome = NoHold -> Settled(freed, k, "reset", elapsed)
          [] outcome = "tap" /\ Depth(k) > 1 -> Settled(freed, k, "start", elapsed)
          [] OTHER -> Settled(Push(freed, k, "tap", outcome, n), k, "reset", elapsed)

\* key_runtime_deferred_release_defer_dispatch_actions_until_release: the
\* dispatches of a release wait while another key may still be a tap.
DeferTaps(s, k, delayed) ==
    LET waits(e) == e.do = "tap" /\ ~delayed
    IN  IF ~BlockedByAnother(s, k) THEN s
        ELSE FoldLeft(LAMBDA t, e : IF waits(e) THEN Defer(t, e) ELSE [t EXCEPT !.plan = Append(@, e)],
                      [s EXCEPT !.plan = <<>>], s.plan)

\* key_runtime_core_handle_handled_key_release, and the drain after it
HandledRelease(s, k, elapsed) ==
    LET series == s.ser[k].on /\ s.tok[k].n > 1
        settled == IF series THEN PendingRelease(s, k, elapsed) ELSE ActiveRelease(s, k, elapsed)
    IN  Drain(Execute(DeferTaps(settled, k, series)))

\* process_record of a release.  A native key's has no outcome of its own
\* (key_runtime_core_finalize_non_handled_release).
Release(s, k, a) ==
    LET ended == EndPress(SettleBeforeRelease(s, k, a), k, a)
        elapsed == s.tok[k].age - a
    IN  IF ~s.tok[k].on THEN s
        ELSE IF row[k].handled THEN HandledRelease(ended, k, elapsed)
        ELSE [ended EXCEPT !.tok[k] = NoToken]

ProcessRecord(s, r) == IF r.down THEN Press(s, r.key, r.age) ELSE Release(s, r.key, r.age)
=============================================================================
