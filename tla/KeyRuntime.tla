------------------------------ MODULE KeyRuntime ------------------------------
(***************************************************************************)
(* The key runtime from the matrix edge to the output.  An edge goes       *)
(* through QMK's combo buffer, which may keep it a while, and through      *)
(* record admission, which keeps it behind an undecided tap/hold key, into *)
(* the reducer; a pass of the main loop runs the key runtime scan and then *)
(* the admission task, before it reads edges.                              *)
(*                                                                         *)
(* KeyRuntimeCore is what the reducer does.  The ghost `hand' is what the  *)
(* fingers did: per key the presses that have had no outcome yet, with how *)
(* long each lasted and when another key first broke into it.  It knows    *)
(* nothing of queues, scans or terms, and the outputs are judged by it.    *)
(***************************************************************************)
EXTENDS KeyRuntimeCore

CONSTANTS
    Layouts,     \* assignments of behaviour rows to the keys
    MaxDelay,    \* how long QMK's combo buffer keeps a record
    MaxLag,      \* how long a pass of the main loop may take
    MaxPresses   \* bound: presses typed

VARIABLES
    runtime,     \* key_runtime_core_state_t
    lag,         \* time since the last pass
    pressed,     \* ghost: the keys physically down
    typed,       \* ghost: how many presses were made
    hand,        \* ghost: per key, its presses without an outcome
    answers      \* ghost: the outputs of this step and the presses they answer

vars == <<row, held, runtime, lag, pressed, typed, hand, answers>>

-----------------------------------------------------------------------------
(* Record admission (compat/qmk_record_admission.c; RecordAdmission models *)
(* it with its capacity, and abstracts the runtime).                       *)

UndecidedKeys(s) == {k \in Keys : Undecided(s, k)}

\* record_admission_press_is_held
PressIsHeld(k) ==
    0 < FoldLeft(LAMBDA n, r : CASE r.key # k -> n
                                 [] r.key = k /\ r.down -> n + 1
                                 [] r.key = k /\ ~r.down -> IF n > 0 THEN n - 1 ELSE 0,
                 0, held)

\* record_admission_release_waits
ReleaseWaits(s, r) == UndecidedKeys(s) \ {r.key} # {} /\ ModsOrLayer(s, r.key)

\* noah_record_admission_admit
MustWait(s, r) ==
    IF r.down THEN held # <<>> \/ UndecidedKeys(s) \ {r.key} # {}
    ELSE PressIsHeld(r.key) \/ ReleaseWaits(s, r)

\* noah_record_admission_task: replays until a key is undecided again, while
\* the records it replays are still counted as held.
AdmissionTask(s) ==
    LET Replay(t, r) ==
            IF t.left = <<>> /\ (UndecidedKeys(t.rt) = {} \/ (~r.down /\ ~ReleaseWaits(t.rt, r)))
            THEN [t EXCEPT !.rt = ProcessRecord(@, r)]
            ELSE [t EXCEPT !.left = Append(@, r)]
    IN  IF UndecidedKeys(s) # {} THEN [rt |-> s, left |-> held]
        ELSE FoldLeft(Replay, [rt |-> s, left |-> <<>>], held)

-----------------------------------------------------------------------------
(* The ghost.                                                              *)

Uncut == Cap + 1
NewPress(n) == [at |-> n, lasted |-> 0, cut |-> Uncut, up |-> FALSE]

\* How many presses an output answers: a later tap and a hold at a later tap
\* count stand for all the taps before them.
Covers(e) == IF e.again THEN 0 ELSE e.n

\* Keys whose outputs wait for nothing but their own outcome: one tap step,
\* and no tier that waits for the release.
InOrder(k) ==
    row[k].handled => /\ Len(row[k].steps) = 1
                      /\ "release" \notin {Step(k, 1).hold, Step(k, 1).long}

ReleaseIsHeld(k) == \E i \in DOMAIN held : held[i].key = k /\ ~held[i].down

\* A press let go in the very millisecond of a term may be either.
AtItsTerm(k, p) == row[k].handled /\ p.lasted \in {row[k].holdTerm, row[k].longTerm}

\* The outputs answer presses, oldest first, but for those whose outcome is
\* deferred.  `passes': the other keys with an earlier press nobody has decided;
\* `kept': the key's release waits in record admission.
Answer(h, out) ==
    FoldLeft(LAMBDA acc, e :
                LET k == e.key
                    decided == e.deferred
                    to == decided[k] + Covers(e)
                    there == IF to < Len(acc.hand[k]) THEN to ELSE Len(acc.hand[k])
                    taken == SubSeq(acc.hand[k], decided[k] + 1, there)
                    earlier == {o \in Keys \ {k} :
                                  /\ InOrder(o) /\ taken # <<>> /\ Len(acc.hand[o]) > decided[o]
                                  /\ LET p == acc.hand[o][decided[o] + 1]
                                     IN  p.at < taken[1].at /\ ~(p.up /\ AtItsTerm(o, p))}
                IN  [hand |-> [acc.hand EXCEPT ![k] = SubSeq(@, 1, decided[k]) \o SubSeq(@, to + 1, Len(@))],
                     told |-> Append(acc.told, [key |-> k, what |-> e.what, n |-> e.n,
                                                owed |-> Covers(e), presses |-> taken,
                                                passes |-> earlier, kept |-> ReleaseIsHeld(k)])],
             [hand |-> h, told |-> <<>>], out)

\* The step's outputs are judged and the state starts the next with none.
Settle(s, h) ==
    LET answer == Answer(h, s.out)
    IN  /\ runtime' = [s EXCEPT !.out = <<>>]
        /\ hand' = answer.hand
        /\ answers' = answer.told

\* Another key breaks into the presses that are down.
BreakInto(h, k) ==
    [o \in Keys |-> [i \in DOMAIN h[o] |->
        IF o # k /\ ~h[o][i].up /\ h[o][i].cut = Uncut
        THEN [h[o][i] EXCEPT !.cut = h[o][i].lasted] ELSE h[o][i]]]

-----------------------------------------------------------------------------
(* Actions.                                                                *)

Init ==
    /\ row \in Layouts
    /\ held = <<>>
    /\ runtime = CoreInit
    /\ lag = 1
    /\ pressed = {} /\ typed = 0
    /\ hand = [k \in Keys |-> <<>>] /\ answers = <<>>

\* A key goes down or up.  QMK stamps the record and its combo code keeps it.
PhysicalPress(k) ==
    /\ lag = 0 /\ k \notin pressed /\ typed < MaxPresses
    /\ pressed' = pressed \cup {k}
    /\ typed' = typed + 1
    /\ hand' = [BreakInto(hand, k) EXCEPT ![k] = Append(@, NewPress(typed'))]
    /\ runtime' = [runtime EXCEPT !.qmk = Append(@, [key |-> k, down |-> TRUE, age |-> 0])]
    /\ answers' = <<>>
    /\ UNCHANGED <<row, held, lag>>

PhysicalRelease(k) ==
    /\ lag = 0 /\ k \in pressed
    /\ pressed' = pressed \ {k}
    /\ hand' = [BreakInto(hand, k) EXCEPT ![k] = [i \in DOMAIN @ |-> [@[i] EXCEPT !.up = TRUE]]]
    /\ runtime' = [runtime EXCEPT !.qmk = Append(@, [key |-> k, down |-> FALSE, age |-> 0])]
    /\ answers' = <<>>
    /\ UNCHANGED <<row, held, lag, typed>>

\* QMK lets its oldest record go: process_record, through record admission.
Deliver ==
    /\ lag = 0 /\ runtime.qmk # <<>>
    /\ LET r == Head(runtime.qmk)
           rest == [runtime EXCEPT !.qmk = Tail(@)]
       IN  IF MustWait(rest, r)
           THEN /\ held' = Append(held, r)
                /\ runtime' = rest
                /\ answers' = <<>>
                /\ UNCHANGED hand
           ELSE /\ held' = held
                /\ Settle(ProcessRecord(rest, r), hand)
    /\ UNCHANGED <<row, lag, pressed, typed>>

\* One pass of the main loop: noah_key_runtime_scan, then
\* noah_record_admission_task.
Pass ==
    /\ lag > 0
    /\ lag' = 0
    /\ \E task \in {AdmissionTask(Scan(runtime))} :
          Settle(task.rt, hand) /\ held' = task.left
    /\ UNCHANGED <<row, pressed, typed>>

\* The clock.  A pass may take longer than a tick, and thresholds are crossed
\* unscanned then.
Tick ==
    /\ runtime.qmk # <<>> => Head(runtime.qmk).age < MaxDelay
    /\ lag < MaxLag
    /\ lag' = lag + 1
    /\ runtime' = CoreOlder(runtime)
    /\ held' = OlderRecords(held)
    /\ hand' = [k \in Keys |-> [i \in DOMAIN hand[k] |->
                    IF hand[k][i].up THEN hand[k][i] ELSE [hand[k][i] EXCEPT !.lasted = Older(@)]]]
    /\ answers' = <<>>
    /\ UNCHANGED <<row, pressed, typed>>

Next ==
    \/ \E k \in Keys : PhysicalPress(k)
    \/ \E k \in Keys : PhysicalRelease(k)
    \/ Deliver
    \/ Pass
    \/ Tick

Spec == Init /\ [][Next]_vars

\* The main loop never stops passing and the clock never stops.  Nobody has to
\* type.  A record leaves QMK's buffer because the clock cannot pass MaxDelay
\* before it does.
FairSpec == Spec /\ []<>(lag = 0) /\ []<>(lag > 0)

-----------------------------------------------------------------------------
(* Properties.                                                             *)

Answers == {answers[i] : i \in DOMAIN answers}

\* Nothing of the key runtime's is still under way.
Quiet ==
    /\ runtime.qmk = <<>> /\ held = <<>> /\ runtime.pend = <<>>
    /\ \A k \in Keys : ~runtime.tok[k].on /\ ~runtime.ser[k].on

\* Every output answers presses that were made and have had no outcome yet, and
\* once nothing is under way every press made has had its outcome: whatever was
\* queued, replayed, settled, deferred or counted, no press is answered twice and
\* none is swallowed ("a run's taps are never lost").
AnsweredOnce ==
    /\ \A a \in Answers : Len(a.presses) = a.owed
    /\ Quiet => \A k \in Keys : hand[k] = <<>>

\* What counts against a tap: a key whose hold changes other keys, or a
\* fallback hold, is decided by its own time; any other key is settled by the
\* first key that breaks into it.
TapTime(k, n, p) ==
    IF HoldChangesOtherKeys(k, n) \/ UsesFallback(k, n) \/ p.lasted < p.cut
    THEN p.lasted ELSE p.cut

\* The term a press must outlast to be more than a tap of count n: the first
\* of its holds, by the count that reaches the tap and has the latest.
FirstTerm(k, n) ==
    Max({IF HasHold(k, m) THEN row[k].holdTerm ELSE IF HasLong(k, m) THEN row[k].longTerm ELSE Cap :
            m \in {i \in 1 .. Depth(k) : TapStep(k, i) = n}})

\* Taps and holds follow the fingers, not the queues: a hold answers a press
\* that was held for its term, a tap one that was not or was broken into
\* first, however late QMK's combo buffer and record admission deliver either
\* edge (docs/adr/0001: handled keys judge taps and holds by their physical
\* press and release times).  HoldsOutlastTheirTerm is about the exception.
OutcomeFollowsTheHands ==
    \A a \in Answers :
        row[a.key].handled /\ a.presses # <<>> =>
            LET p == Last(a.presses)
            IN  CASE a.what \in {"hold", "long"} ->
                       Step(a.key, a.n).hold = "immediate" \/ p.lasted >= Term(a.key, a.what) \/ a.kept
                  [] a.what = "tap" -> TapTime(a.key, a.n, p) <= FirstTerm(a.key, a.n)
                  [] OTHER -> TRUE

\* A hold answers a press that was held for its term, also when the release
\* waits in record admission ("a key already released while it waited reaches
\* no later hold", docs/guide/keys.md).  The code does not keep it: the release
\* of a replayed tap/hold key stays behind a press that waits for that key.
HoldsOutlastTheirTerm ==
    \A a \in Answers :
        a.what = "hold" /\ a.presses # <<>> /\ HoldChangesOtherKeys(a.key, a.n) =>
            Last(a.presses).lasted >= Term(a.key, "hold")

\* A key that is up holds nothing: no lease, no registered action, no
\* modifier, no repeat and no layer outlives its press.
NothingLeftHeld == \A k \in Keys : ~runtime.tok[k].on => runtime.own[k] = NothingOwned

\* A key's own output comes first (docs/guide/keys.md): no output of a later
\* press goes out while an earlier press of another key, one with nothing but
\* its own outcome to wait for, is neither answered nor decided and deferred.
OwnOutputComesFirst == \A a \in Answers : a.what = "fallback" \/ a.passes = {}

\* The same for a later press that holds its own key ("the later press types
\* its tap first, then goes out itself").  The code does not keep it: the tap's
\* dispatch turns on every fallback hold, the pressed key's as well.
FallbackHoldsFollow == \A a \in Answers : a.what = "fallback" => a.passes = {}

\* A deferred tap waits only while a key that may still be a tap is down, and
\* everything comes to rest: with the keys let go, no token, series, queued
\* record or deferred tap stays behind.
ComesToRest == <>[](pressed = {}) => []<>Quiet
=============================================================================
