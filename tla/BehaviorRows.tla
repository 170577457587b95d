---- MODULE BehaviorRows ----
(* The key behaviours of a profile: the encoder that writes a table of rows   *)
(* in its one canonical form, the step by step check that accepts a payload,  *)
(* and the lookups that read rows and steps out of an accepted one            *)
(* (key_behavior_domain_v1.c).  A payload is a function from offsets to       *)
(* cells, each cell what one read of the check returns:                       *)
(*   the header           [rows, steps]                                       *)
(*   a row's length       [length], the cells that follow it in the row        *)
(*   a row's fixed part   [target, steps]                                     *)
(*   a step's header      [tap, has], has the branches it holds               *)
(*   a hold's fields      [fits], FALSE: a style or a rate out of range       *)
(*   an action            [action], Bad: the action codec or the limits       *)
(*                        refuse it, or it is no action; Lost: it names a     *)
(*                        layer, a mode or a slot this build does not have,   *)
(*                        or one that a behaviour of this style may not hold  *)
(* Terms, flags and allowed layers ride along with the fixed part: a row with *)
(* a reserved flag or a layer outside the bank is one with the target Bad; a  *)
(* header with a reserved byte is one with too many rows.                     *)
EXTENDS Integers, FiniteSets, SequencesExt

CONSTANTS
    Targets,    \* the targets, numbered in the order of their bytes
    Misplaced,  \* those of them no behaviour may be on
    MaxRows,    \* limits->max_rows
    MaxSteps,   \* limits->max_populated_steps
    TapSteps,   \* limits->max_tap_steps_per_row
    ToggleKeys,   \* the keys that lock their layers when tapped: TT() and Tap-toggle shortcuts
    ToggleTaps,   \* NOAH_QMK_TAPPING_TOGGLE, the tap that locks
    HandledKeys   \* the keys the runtime handles without a row of their own

Bad == 0
Good == 1
Lost == 2
Branches == {"tap", "hold", "long"}

\* The cells a branch takes: an action, or a hold's fields and its action.
BranchSize(b) == IF b = "tap" THEN 1 ELSE 2
StepSize(step) == 1 + MapThenSumSet(BranchSize, step.has)

Payload(cells) == [o \in 0 .. Len(cells) - 1 |-> cells[o + 1]]

(* ---- the encoder: rows are [target, steps], steps [tap, has] ------------- *)

StepFits(step) == step.tap < TapSteps /\ step.has # {}

\* Everything the encoder refuses about one row before it orders the rows.
RowFits(row) ==
    /\ row.target # Bad
    /\ Len(row.steps) <= TapSteps
    /\ \A i \in DOMAIN row.steps :
          /\ StepFits(row.steps[i])
          /\ \A j \in 1 .. i - 1 : row.steps[j].tap # row.steps[i].tap

Counted(rows) == FoldSeq(LAMBDA row, sum : sum + Len(row.steps), 0, rows)

Encodable(rows) ==
    /\ Len(rows) <= MaxRows
    /\ \A i \in DOMAIN rows : RowFits(rows[i])
    /\ Counted(rows) <= MaxSteps
    /\ \A i, j \in DOMAIN rows : rows[i].target = rows[j].target => i = j

StepCells(step) ==
    LET action == <<[action |-> Good]>>
        hold   == <<[fits |-> TRUE]>> \o action
    IN  <<step>> \o (IF "tap" \in step.has THEN action ELSE <<>>)
                 \o (IF "hold" \in step.has THEN hold ELSE <<>>)
                 \o (IF "long" \in step.has THEN hold ELSE <<>>)

\* The steps in the order of their tap index, behind the length they take.
RowCells(row) ==
    LET steps == SortSeq(row.steps, LAMBDA a, b : a.tap < b.tap)
        body  == FlattenSeq([i \in DOMAIN steps |-> StepCells(steps[i])])
    IN  <<[length |-> 1 + Len(body)], [target |-> row.target, steps |-> Len(steps)]>> \o body

Encode(rows) ==
    LET order == SortSeq(rows, LAMBDA a, b : a.target < b.target)
    IN  Payload(<<[rows |-> Len(rows), steps |-> Counted(rows)]>>
                  \o FlattenSeq([i \in DOMAIN order |-> RowCells(order[i])]))

(* ---- the check, one read at a time --------------------------------------- *)

Begin(length) ==
    [phase |-> "header", length |-> length, rows |-> 0, steps |-> 0,
     row_offset |-> 1, row_end |-> 1, branch |-> 1, row |-> 0, step |-> 0,
     step_count |-> 0, tap |-> 0, has |-> {}, previous_tap |-> -1,
     target |-> Bad, previous_target |-> Bad, actual |-> 0, event |-> -1]

Over(v) == v.phase \in {"rejected", "valid"}
Reject(v) == [v EXCEPT !.phase = "rejected", !.event = -1]

FinishDomain(v) ==
    IF v.row_offset = v.length /\ v.actual = v.steps
    THEN [v EXCEPT !.phase = "valid"]
    ELSE Reject(v)

\* Mutant: a row may have the target of the one before it.
FinishRowAnyOrder(v) ==
    LET actual == v.actual + v.step_count
        w == [v EXCEPT !.previous_target = v.target, !.actual = actual,
                       !.row_offset = v.row_end, !.row = @ + 1]
    IN  IF \/ v.branch # v.row_end
           \/ v.previous_target # Bad /\ v.previous_target > v.target
           \/ actual > MaxSteps
        THEN Reject(v)
        ELSE IF w.row = v.rows THEN FinishDomain(w)
        ELSE [w EXCEPT !.phase = "row length"]

\* The steps fill the row, and its target comes after the one before it.
FinishRow(v) ==
    LET actual == v.actual + v.step_count
        w == [v EXCEPT !.previous_target = v.target, !.actual = actual,
                       !.row_offset = v.row_end, !.row = @ + 1]
    IN  IF \/ v.branch # v.row_end
           \/ v.previous_target # Bad /\ v.previous_target >= v.target
           \/ actual > MaxSteps
        THEN Reject(v)
        ELSE IF w.row = v.rows THEN FinishDomain(w)
        ELSE [w EXCEPT !.phase = "row length"]

FinishStep(v) ==
    LET w == [v EXCEPT !.previous_tap = v.tap, !.step = @ + 1]
    IN  IF v.tap <= v.previous_tap THEN Reject(v)
        ELSE IF w.step = v.step_count THEN FinishRow(w)
        ELSE [w EXCEPT !.phase = "step"]

\* The next branch of the step behind those of `done`.
AfterBranch(v, done) ==
    CASE "tap" \in v.has \ done  -> [v EXCEPT !.phase = "tap"]
      [] "tap" \notin v.has \ done /\ "hold" \in v.has \ done
                                 -> [v EXCEPT !.phase = "hold fields"]
      [] v.has \ done = {"long"} -> [v EXCEPT !.phase = "long fields"]
      [] OTHER                   -> FinishStep(v)

HeaderStep(v, cell) ==
    IF cell.rows > MaxRows \/ cell.steps > MaxSteps THEN Reject(v)
    ELSE LET w == [v EXCEPT !.rows = cell.rows, !.steps = cell.steps]
         IN  IF w.rows = 0 THEN FinishDomain(w) ELSE [w EXCEPT !.phase = "row length"]

RowLengthStep(v, cell) ==
    IF cell.length < 1 \/ cell.length > v.length - (v.row_offset + 1) THEN Reject(v)
    ELSE [v EXCEPT !.row_end = v.row_offset + 1 + cell.length, !.phase = "row fixed"]

RowFixedStep(v, cell) ==
    IF cell.target = Bad \/ cell.steps > TapSteps THEN Reject(v)
    ELSE LET w == [v EXCEPT !.target = cell.target, !.step_count = cell.steps,
                            !.event = v.row_offset + 1, !.branch = v.row_offset + 2,
                            !.step = 0, !.previous_tap = -1]
         IN  IF w.step_count = 0 THEN FinishRow(w) ELSE [w EXCEPT !.phase = "step"]

StepHeaderStep(v, cell) ==
    IF cell.tap >= TapSteps \/ cell.has = {} THEN Reject(v)
    ELSE AfterBranch([v EXCEPT !.tap = cell.tap, !.has = cell.has, !.branch = @ + 1], {})

HoldFieldsStep(v, cell) ==
    IF ~cell.fits THEN Reject(v)
    ELSE [v EXCEPT !.branch = @ + 1,
                   !.phase = IF @ = "hold fields" THEN "hold action" ELSE "long action"]

\* A tap's or a hold's action: it is published for the checks of the profile.
ActionStep(v, cell) ==
    LET w == [v EXCEPT !.event = v.branch, !.branch = @ + 1]
    IN  IF cell.action = Bad THEN Reject(v)
        ELSE AfterBranch(w, CASE v.phase = "tap"         -> {"tap"}
                              [] v.phase = "hold action" -> {"tap", "hold"}
                              [] v.phase = "long action" -> Branches)

\* Where the check reads next, and whether the payload and the row reach there.
ReadsAt(v) ==
    CASE v.phase = "header"     -> 0
      [] v.phase = "row length" -> v.row_offset
      [] v.phase = "row fixed"  -> v.row_offset + 1
      [] OTHER                  -> v.branch

\* Mutant: a row's end is not checked for the steps' headers.
ReachesLess(v) ==
    CASE v.phase = "header"     -> v.length >= 1
      [] v.phase = "row length" -> v.row_offset + 1 <= v.length
      [] v.phase \in {"hold fields", "long fields"} -> v.branch + 2 <= v.row_end
      [] OTHER                  -> TRUE

Reaches(v) ==
    CASE v.phase = "header"     -> v.length >= 1
      [] v.phase = "row length" -> v.row_offset + 1 <= v.length
      [] v.phase = "row fixed"  -> TRUE
      [] v.phase \in {"hold fields", "long fields"} -> v.branch + 2 <= v.row_end
      [] OTHER                  -> v.branch + 1 <= v.row_end

Reads(v) == IF Over(v) \/ ~Reaches(v) THEN {} ELSE {ReadsAt(v)}

\* What the cell it reads may hold.
Cells(v) ==
    CASE v.phase = "header"     -> [rows : 0 .. MaxRows + 1, steps : 0 .. MaxSteps + 1]
      [] v.phase = "row length" -> [length : 0 .. v.length]
      [] v.phase = "row fixed"  -> [target : Targets \cup {Bad}, steps : 0 .. TapSteps + 1]
      [] v.phase = "step"       -> [tap : 0 .. TapSteps, has : SUBSET Branches]
      [] v.phase \in {"hold fields", "long fields"} -> [fits : BOOLEAN]
      [] OTHER                  -> [action : {Good, Bad, Lost}]

Takes(v, bytes) ==
    LET w    == [v EXCEPT !.event = -1]
        cell == bytes[ReadsAt(v)]
    IN  CASE ~Reaches(v)            -> Reject(v)
          [] v.phase = "header"     -> HeaderStep(w, cell)
          [] v.phase = "row length" -> RowLengthStep(w, cell)
          [] v.phase = "row fixed"  -> RowFixedStep(w, cell)
          [] v.phase = "step"       -> StepHeaderStep(w, cell)
          [] v.phase \in {"hold fields", "long fields"} -> HoldFieldsStep(w, cell)
          [] OTHER                  -> ActionStep(w, cell)

\* The action the last step published is one this build has, where it may be.
EventFits(event, bytes) ==
    LET cell == bytes[event]
    IN  /\ "action" \in DOMAIN cell => cell.action # Lost
        /\ "target" \in DOMAIN cell => cell.target \notin Misplaced

(* ---- reading an accepted payload ----------------------------------------- *)

\* noah_key_behavior_domain_v1_row_offsets: each row starts where the length of
\* the one before it says.
RowOffsets(bytes) ==
    LET at[i \in 0 .. bytes[0].rows] ==
            IF i = 0 THEN 1 ELSE at[i - 1] + 1 + bytes[at[i - 1]].length
    IN  at

\* The search from the first row stops at the first target not below the wanted.
FindTarget(bytes, target) ==
    LET at     == RowOffsets(bytes)
        rows   == 0 .. bytes[0].rows - 1
        beyond == {i \in rows : bytes[at[i] + 1].target >= target}
        stop   == CHOOSE i \in beyond : \A j \in beyond : i <= j
    IN  {i \in rows : beyond # {} /\ i = stop /\ bytes[at[i] + 1].target = target}

\* The search by halves over the offsets kept for a payload.
FindTargetIndexed(bytes, target) ==
    LET at == RowOffsets(bytes)
        n  == bytes[0].rows
        within[low \in 0 .. n, high \in 0 .. n] ==
            LET middle == low + (high - low) \div 2
                probe  == bytes[at[middle] + 1].target
            IN  IF low >= high THEN {}
                ELSE IF probe = target THEN {middle}
                ELSE IF probe < target THEN within[middle + 1, high]
                ELSE within[low, middle]
    IN  within[0, n]

\* Steps are skipped by their headers alone until the wanted one.
StepInRow(bytes, row, wanted) ==
    LET at[i \in 0 .. wanted] ==
            IF i = 0 THEN RowOffsets(bytes)[row] + 2
            ELSE at[i - 1] + StepSize(bytes[at[i - 1]])
    IN  bytes[at[wanted]]

Table(bytes) ==
    LET at == RowOffsets(bytes)
    IN  [i \in 1 .. bytes[0].rows |->
            LET fixed == bytes[at[i - 1] + 1]
            IN  [target |-> fixed.target,
                 steps  |-> [s \in 1 .. fixed.steps |-> StepInRow(bytes, i - 1, s - 1)]]]

(* ---- what must hold of both ---------------------------------------------- *)

\* An accepted payload is the encoding of the table the lookups read from it,
\* and both searches find every row of that table and no other.
RowsReadBack(bytes) ==
    /\ Encodable(Table(bytes))
    /\ Encode(Table(bytes)) = bytes
    /\ \A i \in DOMAIN Table(bytes) : Table(bytes)[i].target \notin Misplaced
    /\ \A t \in Targets :
          LET rows == {i \in 0 .. bytes[0].rows - 1 : Table(bytes)[i + 1].target = t}
          IN  FindTarget(bytes, t) = rows /\ FindTargetIndexed(bytes, t) = rows

NoStep == [tap |-> 0, has |-> {}]

(* ---- the row in the profile -------------------------------------------------- *)

StepsOf(bytes, row) ==
    [n \in 1 .. bytes[RowOffsets(bytes)[row] + 1].steps |-> StepInRow(bytes, row, n - 1)]

\* The row's number, its depth, the last of its taps, and the step of the first.
RowView(row, steps) ==
    [row    |-> row,
     depth  |-> FoldLeft(LAMBDA most, s : IF s.tap + 1 > most THEN s.tap + 1 ELSE most, 0, steps),
     single |-> FoldLeft(LAMBDA first, s : IF s.tap = 0 THEN s ELSE first, NoStep, steps)]

\* noah_active_profile_key_behavior_runtime_lookup: by halves where the rows'
\* offsets were kept, else from the first.
LiveRow(bytes, indexed, target) ==
    {RowView(r, StepsOf(bytes, r)) :
        r \in IF indexed THEN FindTargetIndexed(bytes, target) ELSE FindTarget(bytes, target)}

\* Mutant: the first step that is not before the wanted one is taken for it.
LiveStepAnyOrder(bytes, row, count) ==
    FoldRight(LAMBDA s, later : IF s.tap >= count - 1 THEN s ELSE later, StepsOf(bytes, row), NoStep)

\* noah_active_profile_key_behavior_runtime_step: the steps go up, so the first
\* that is not before the wanted one is it, or there is none.
LiveStep(bytes, row, count) ==
    FoldRight(LAMBDA s, later : IF s.tap = count - 1 THEN s ELSE IF s.tap >= count THEN NoStep ELSE later,
              StepsOf(bytes, row), NoStep)

(* ---- the row in the build's table ---------------------------------------------- *)

\* The steps lie by their tap.
ConfigStep(table, row, count) ==
    LET wanted == {s \in ToSet(table[row].steps) : s.tap = count - 1}
    IN  IF wanted = {} THEN NoStep ELSE CHOOSE s \in wanted : TRUE

\* key_behavior_authored_tap_depth_in_config
ConfigDepth(table, row) == Max({0} \cup {c \in 1 .. TapSteps : ConfigStep(table, row, c) # NoStep})

\* key_behavior_config_lookup: the first row for the key.
ConfigRow(table, target) ==
    LET rows == {i \in DOMAIN table : table[i].target = target}
    IN  {[row |-> r, depth |-> ConfigDepth(table, r), single |-> ConfigStep(table, r, 1)] :
            r \in {i \in rows : \A j \in rows : i <= j}}

(* ---- the view -------------------------------------------------------------------- *)

\* A key that locks its layers does so with a tap of its own.
ToggleDepth(target) == IF target \in ToggleKeys THEN ToggleTaps ELSE 0
ToggleStep(target, count) ==
    IF count # 0 /\ count = ToggleDepth(target) THEN [tap |-> count - 1, has |-> {"lock"}] ELSE NoStep

RowsFound(source, target) ==
    IF source.live THEN LiveRow(source.cells, source.indexed, target)
    ELSE ConfigRow(source.table, target)

\* key_behavior_view_build; a row without steps is none for the key's taps.
ViewOf(target, own) ==
    [row     |-> {r.row : r \in own},
     handled |-> own # {} \/ target \in HandledKeys,
     depth   |-> IF own = {} THEN ToggleDepth(target) ELSE (CHOOSE r \in own : TRUE).depth,
     single  |-> IF own = {} THEN ToggleStep(target, 1) ELSE (CHOOSE r \in own : TRUE).single]
View(source, target) == ViewOf(target, {r \in RowsFound(source, target) : r.depth > 0})

StepOf(source, row, count) ==
    IF source.live THEN LiveStep(source.cells, row, count) ELSE ConfigStep(source.table, row, count)
ViewStep(source, target, view, count) ==
    IF view.row = {} THEN ToggleStep(target, count)
    ELSE StepOf(source, CHOOSE row \in view.row : TRUE, count)

HasMoreTaps(view, count) == count < view.depth

(* ---- what must hold ----------------------------------------------------------------- *)

Live(bytes, indexed) == [live |-> TRUE, indexed |-> indexed, cells |-> bytes, table |-> <<>>]
Authored(table) == [live |-> FALSE, indexed |-> FALSE, cells |-> <<>>, table |-> table]

AnswersOf(source, target, view) ==
    [handled |-> view.handled, depth |-> view.depth, single |-> view.single,
     steps   |-> [c \in 1 .. TapSteps |-> ViewStep(source, target, view, c)]]
Answers(source, target) == AnswersOf(source, target, View(source, target))

\* The first tap is the first step, and a key waits for more taps exactly while a
\* step lies ahead.
Consistent(answers) ==
    /\ answers.single = answers.steps[1]
    /\ \A c \in 0 .. TapSteps :
          HasMoreTaps(answers, c) <=> \E d \in c + 1 .. TapSteps : answers.steps[d] # NoStep

\* A table answers every key alike, saved in a profile and read by either
\* search, or compiled into the build in any order.
ServesTable(bytes, table) ==
    \A target \in Targets :
        \E answers \in {Answers(Authored(table), target)} :
            /\ Consistent(answers)
            /\ \A source \in {Live(bytes, TRUE), Live(bytes, FALSE), Authored(Reverse(table))} :
                  Answers(source, target) = answers
ServesRows(bytes) == ServesTable(bytes, Table(bytes))
====
