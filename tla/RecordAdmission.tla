---------------------------- MODULE RecordAdmission ----------------------------
(***************************************************************************)
(* Record admission (compat/qmk_record_admission.c): key records wait      *)
(* behind a tap/hold key whose hold changes other keys, and replay in      *)
(* order once it is decided.                                               *)
(*                                                                         *)
(* One matrix pass runs the key runtime scan, then the admission task,     *)
(* then the edges the pass read (runtime_init.c, noah_matrix_scan_user,    *)
(* and QMK's matrix task after it).  Of the key runtime the module keeps   *)
(* what admission asks it and what its answers depend on: which keys are   *)
(* down in it, which are undecided, and which hold a layer or modifiers.   *)
(*                                                                         *)
(* A record is [key, down, under, past, aged].  The first two are the      *)
(* edge.  `under' (modifiers and tap/hold keys physically down at a press) *)
(* is what the properties compare the replay with; `past' (tap/hold keys   *)
(* past their term at the edge) is what the record's timestamp tells the   *)
(* runtime; `aged' says that a held press has itself run past its term.    *)
(***************************************************************************)
EXTENDS Integers, Sequences, FiniteSets

CONSTANTS
    Keys,          \* keys, and combo outputs, which behave as keys here
    Dual,          \* tap/hold keys whose hold changes other keys
    Mods,          \* modifier and momentary layer keys QMK handles
    Outputs,       \* combo outputs: two chords may have one keycode
    Capacity,      \* NOAH_RECORD_ADMISSION_CAPACITY
    EdgesPerPass,  \* bound: edges one matrix pass delivers
    None

ASSUME AdmissionAssumption ==
    /\ Dual \subseteq Keys /\ Mods \subseteq Keys /\ Outputs \subseteq Keys
    /\ Dual \cap Mods = {} /\ Dual \cap Outputs = {}
    /\ Capacity \in Nat \ {0} /\ EdgesPerPass \in Nat \ {0}
    /\ None \notin Keys

VARIABLES
    open,        \* per key: presses physically open
    held,        \* record_admission_held, oldest first
    down,        \* per key: presses the runtime has processed and not ended
    undecided,   \* tokens in KEY_RUNTIME_SLOT_PHASE_TAP_WINDOW
    aged,        \* the undecided ones past their term
    holding,     \* tokens whose hold is on
    decision,    \* ghost: how each tap/hold key was last decided; "brief" is a
                 \* hold that came on and ended within the key's own release
    outOfTurn,   \* ghost: a record went before ones that should have gone first
                 \* (a full queue forced it out, or it came in the very pass that
                 \* decided the key they waited for); over with the queue
    last,        \* ghost: the record this step processed, or None
    pc,          \* where the pass is
    first,       \* the task has replayed nothing yet (replayed == 0)
    edges        \* edges this pass has delivered

runtime == <<down, undecided, aged, holding, decision>>
vars == <<open, held, runtime, outOfTurn, last, pc, first, edges>>

MostOpen(k) == IF k \in Outputs THEN 2 ELSE 1

Edges == [key : Keys, down : BOOLEAN, under : SUBSET (Mods \cup Dual),
          past : SUBSET Dual, aged : BOOLEAN]

-----------------------------------------------------------------------------
(* What a record is asked.                                                 *)

\* key_runtime_core_release_is_mods_or_layer: a handled key by what it holds
\* now, any other key by its keycode.
ModsOrLayer(k) == k \in Mods \cup holding

\* The held records of a key that go down, or up, from one place to another.
Count(k, pressed, from, to) ==
    Cardinality({i \in from .. to : held[i].key = k /\ held[i].down = pressed})

\* record_admission_press_is_held: held releases close the earliest held
\* press of their key still open; one whose press already went is skipped.
\* So a press is left open when, from some record on, more go down than up.
PressIsHeld(k) ==
    \E n \in 1 .. Len(held) : Count(k, TRUE, n, Len(held)) > Count(k, FALSE, n, Len(held))

\* Mutant: no release waits behind the undecided key.
ReleaseNeverWaits(r, d) == FALSE

\* record_admission_release_waits
ReleaseWaits(r, d) == r.key # d /\ ModsOrLayer(r.key)

\* Mutant: a release does not look for its press among the held records.
MustWaitForKey(r) ==
    (r.down /\ held # <<>>) \/ \E d \in undecided : ReleaseWaits(r, d) \/ (r.down /\ d # r.key)

\* The guards of noah_record_admission_admit.  With several keys undecided
\* (an overload forced one in) it asks about whichever it finds first.
MustWait(r) ==
    IF r.down
    THEN held # <<>> \/ \E d \in undecided : d # r.key
    ELSE PressIsHeld(r.key) \/ \E d \in undecided : ReleaseWaits(r, d)

\* The break of noah_record_admission_task.
StopsBefore(r) == \E d \in undecided : r.down \/ ReleaseWaits(r, d)

-----------------------------------------------------------------------------
(* The key runtime.                                                        *)

\* The holds a record makes up for before it is processed: a press those of
\* other keys, a modifier's or layer's release everyone's, any release its
\* own (key_runtime_core_settle_before_press, _release, and
\* key_runtime_core_plan_missed_scans_for_token, which reads `past').
MissedHolds(r) ==
    LET late == undecided \cap r.past
    IN  IF r.down THEN late \ {r.key}
        ELSE IF ModsOrLayer(r.key) \/ r.key \in late THEN late ELSE {}

\* process_record, as far as admission can tell.
Process(r, early) ==
    LET k == r.key
        missed == MissedHolds(r)
        tapped == {k} \cap (undecided \ missed)
    IN  /\ down' = [down EXCEPT ![k] = IF r.down THEN @ + 1 ELSE @ - 1]
        /\ undecided' = IF r.down THEN (undecided \ missed) \cup ({k} \cap Dual)
                                  ELSE undecided \ (missed \cup {k})
        /\ aged' = IF r.down /\ r.aged THEN (aged \ missed) \cup {k}
                                       ELSE aged \ (missed \cup {k})
        /\ holding' = IF r.down THEN holding \cup missed ELSE (holding \cup missed) \ {k}
        /\ decision' = [d \in Dual |-> IF d \in missed \ {k} THEN "hold"
                                       ELSE IF d \in missed THEN "brief"
                                       ELSE IF ~r.down /\ d \in tapped THEN "tap"
                                       ELSE decision[d]]
        /\ last' = r
        /\ outOfTurn' = (early \/ (outOfTurn /\ held # <<>>))

\* record_admission_capture: at capacity the oldest record goes first.
Capture(r) ==
    \/ /\ Len(held) < Capacity
       /\ held' = Append(held, r)
       /\ last' = None
       /\ outOfTurn' = (outOfTurn /\ held # <<>>)
       /\ UNCHANGED runtime
    \/ /\ Len(held) >= Capacity
       /\ held' = Append(Tail(held), r)
       /\ Process(Head(held), TRUE)

\* noah_record_admission_admit.  The task has gone by already when the edges
\* of a pass come: a release after the one that decided the key no longer
\* waits, the records held for that key still do.
Admit(r) ==
    \/ MustWait(r) /\ Capture(r)
    \/ ~MustWait(r) /\ held' = held /\ Process(r, held # <<>> /\ undecided = {})

-----------------------------------------------------------------------------
(* The edges a pass delivers.                                              *)

\* The tap/hold keys whose latest press has run past its term.
PastTerm ==
    {d \in Dual : /\ open[d] > 0
                  /\ LET mine == {i \in DOMAIN held : held[i].key = d /\ held[i].down}
                     IN  IF mine = {} THEN d \in aged \cup holding
                         ELSE \E i \in mine : held[i].aged /\ \A j \in mine : j <= i}

Edge(k, pressed) ==
    [key |-> k, down |-> pressed,
     under |-> IF pressed THEN {m \in Mods \cup Dual : open[m] > 0} ELSE {},
     past |-> PastTerm, aged |-> FALSE]

Arrive(k) ==
    /\ pc = "events" /\ edges < EdgesPerPass
    /\ edges' = edges + 1
    /\ UNCHANGED <<pc, first>>

Press(k) ==
    /\ Arrive(k)
    /\ open[k] < MostOpen(k)
    /\ open' = [open EXCEPT ![k] = @ + 1]
    /\ Admit(Edge(k, TRUE))

Release(k) ==
    /\ Arrive(k)
    /\ open[k] > 0
    /\ open' = [open EXCEPT ![k] = @ - 1]
    /\ Admit(Edge(k, FALSE))

-----------------------------------------------------------------------------
(* A matrix pass.                                                          *)

\* Mutant: a key's hold waits for the records admission holds back.
HoldsAfterRecords == IF held = <<>> THEN undecided \cap aged ELSE {}

\* The holds the key runtime scan turns on.  A release admission holds back
\* does not stop the hold of a key admission waits for
\* (key_runtime_core_press_token_hold_eligible).
HoldsNow == undecided \cap aged

\* noah_key_runtime_scan, and the task's first test
Scan ==
    /\ pc = "scan"
    /\ holding' = holding \cup HoldsNow
    /\ undecided' = undecided \ HoldsNow
    /\ aged' = aged \ HoldsNow
    /\ decision' = [d \in Dual |-> IF d \in HoldsNow THEN "hold" ELSE decision[d]]
    /\ pc' = IF held = <<>> \/ undecided' # {} THEN "events" ELSE "task"
    /\ first' = TRUE
    /\ last' = None
    /\ UNCHANGED <<open, held, down, outOfTurn, edges>>

\* One turn of noah_record_admission_task's loop
Replay ==
    /\ pc = "task" /\ held # <<>>
    /\ first \/ ~StopsBefore(Head(held))
    /\ held' = Tail(held)
    /\ Process(Head(held), FALSE)
    /\ first' = FALSE
    /\ UNCHANGED <<open, pc, edges>>

TaskEnds ==
    /\ pc = "task"
    /\ IF held = <<>> THEN TRUE ELSE ~first /\ StopsBefore(Head(held))
    /\ pc' = "events"
    /\ last' = None
    /\ UNCHANGED <<open, held, runtime, outOfTurn, first, edges>>

PassEnds ==
    /\ pc = "events"
    /\ pc' = "scan" /\ edges' = 0
    /\ last' = None
    /\ UNCHANGED <<open, held, runtime, outOfTurn, first>>

\* A tap/hold key's term runs out, counted from its physical press, whether
\* that press has been processed or still waits.  A pass takes less than the
\* clock's millisecond: no term runs out inside one.
Elapse(d) ==
    /\ pc = "scan"
    /\ \/ /\ d \in undecided \ aged
          /\ aged' = aged \cup {d}
          /\ held' = held
       \/ /\ d \notin undecided \ aged
          /\ \E i \in DOMAIN held :
                /\ held[i].key = d /\ held[i].down /\ ~held[i].aged
                /\ \A j \in 1 .. i - 1 : held[j].key = d /\ held[j].down => held[j].aged
                /\ held' = [held EXCEPT ![i].aged = TRUE]
          /\ aged' = aged
    /\ last' = None
    /\ UNCHANGED <<open, down, undecided, holding, decision, outOfTurn, pc, first, edges>>

Init ==
    /\ open = [k \in Keys |-> 0]
    /\ held = <<>>
    /\ down = [k \in Keys |-> 0]
    /\ undecided = {} /\ aged = {} /\ holding = {}
    /\ decision = [d \in Dual |-> "none"]
    /\ outOfTurn = FALSE /\ last = None
    /\ pc = "scan" /\ first = TRUE /\ edges = 0

Pass == Scan \/ Replay \/ TaskEnds \/ PassEnds

Next ==
    \/ \E k \in Keys : Press(k)
    \/ \E k \in Keys : Release(k)
    \/ Pass
    \/ \E d \in Dual : Elapse(d)

Spec == Init /\ [][Next]_vars

\* The main loop never stops, and neither does the clock: SF because a term
\* is looked at only between passes.  Nobody has to type.
FairSpec == Spec /\ WF_vars(Pass) /\ \A d \in Dual : SF_vars(Elapse(d))

-----------------------------------------------------------------------------
(* Properties.                                                             *)

OpenAfter(k, n) == down[k] + Count(k, TRUE, 1, n) - Count(k, FALSE, 1, n)

\* No record is dropped, doubled or let past its own press: replayed from any
\* state, the queue never ends a press that is not open nor opens one twice,
\* and leaves exactly the presses that are physically open ("No record is
\* dropped or allowed to bypass its own press").
EveryPressEndsOnce ==
    \A k \in Keys :
        /\ OpenAfter(k, Len(held)) = open[k]
        /\ \A n \in 0 .. Len(held) : OpenAfter(k, n) \in 0 .. MostOpen(k)

\* A press meets exactly the modifiers and layer keys that were down when it
\* was made, however long it and their releases waited; and of the tap/hold
\* keys, those down then that were decided as holds (records out of turn apart, and
\* a hold that its own release made up for, which no other record could meet).
PressMeetsWhatWasDown ==
    last # None /\ last.down /\ ~outOfTurn =>
        /\ \A m \in Mods \ {last.key} : m \in last.under <=> down[m] > 0
        /\ \A d \in Dual \ {last.key} :
            /\ d \in holding => d \in last.under
            /\ d \in last.under /\ decision[d] = "hold" => d \in holding

\* The queue never sticks: while records wait, records keep being processed.
QueueKeepsMoving == []<>(held = <<>>) \/ []<><<held' # held /\ last' # None>>_vars
=============================================================================
