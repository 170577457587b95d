---- MODULE ComboRows ----
(* The combos of a profile: the walk that checks a payload and reads its rows *)
(* (profile_combo_v1.c), what the validator asks of each row it finds         *)
(* (validate_combos) and the encoder of a build's own combos                  *)
(* (profile_combo_compiled_v1.c).  Cells are what the checks read:            *)
(*   the header       [rows], a reserved byte or no default term is Bad       *)
(*   a row's head     [inputs, output], a reserved flag or a layer outside    *)
(*                    the bank is the output Bad                              *)
(*   one input        [action]                                                *)
(* An action is one the codec knows, or Bad; Native says which keycode it     *)
(* becomes here, none where a combo may not have it or this build lacks it.   *)
EXTENDS Integers, FiniteSets, SequencesExt

CONSTANTS
    Native,         \* for each action but Bad, its keycode, or -1
    MaxRows,        \* NOAH_PROFILE_COMBO_V1_MAX_ROWS
    MinInputs,      \* NOAH_PROFILE_COMBO_V1_MIN_INPUTS
    MaxInputs,      \* NOAH_PROFILE_COMBO_V1_MAX_INPUTS
    InputsPerStep   \* NOAH_PROFILE_COMBO_V3_INPUTS_PER_STEP

Bad == 0
NoKey == 0
Transparent == 1
Actions == DOMAIN Native

InputCountValid(count) == count \in MinInputs .. MaxInputs
Distinct(inputs) == \A i, j \in DOMAIN inputs : inputs[i] = inputs[j] => i = j

\* What the codec refuses of a row: an action that is none, KC_NO as an output,
\* KC_NO or a transparent key as an input, one action twice.
DecodeRow(output, inputs) ==
    /\ output \in Actions /\ Native[output] # NoKey
    /\ \A i \in DOMAIN inputs :
          inputs[i] \in Actions /\ Native[inputs[i]] \notin {NoKey, Transparent}
    /\ Distinct(inputs)

\* What the validator refuses besides: an action without a keycode here, two
\* actions that are one key.
NativesValid(output, inputs) ==
    /\ Native[output] # -1
    /\ \A i \in DOMAIN inputs : Native[inputs[i]] # -1
    /\ Distinct([i \in DOMAIN inputs |-> Native[inputs[i]]])

(* ---- the walk -------------------------------------------------------------- *)

Begin(length) ==
    [phase |-> "header", length |-> length, offset |-> 0, row_offset |-> 0, inputs_read |-> 0,
     row_index |-> 0, row_count |-> 0, inputs |-> 0, output |-> Bad, found |-> FALSE]

Over(v) == v.phase \in {"rejected", "valid"}
Reject(v) == [v EXCEPT !.phase = "rejected"]

AtEnd(v) == v.phase # "header" /\ v.row_index = v.row_count

\* How many of the row's inputs the next step reads.
Chunk(v) ==
    LET left == v.inputs - v.inputs_read
    IN  IF left > InputsPerStep THEN InputsPerStep ELSE left

Wants(v) ==
    IF AtEnd(v) THEN 0 ELSE IF v.phase = "inputs" THEN Chunk(v) ELSE 1

Reads(v) ==
    IF Over(v) \/ Wants(v) > v.length - v.offset THEN {}
    ELSE v.offset .. v.offset + Wants(v) - 1

\* Every row has at least its head and the fewest inputs.
HeaderStep(v, cell) ==
    IF cell.rows > MaxRows \/ v.length < 1 + cell.rows * (1 + MinInputs) THEN Reject(v)
    ELSE [v EXCEPT !.phase = "row", !.row_count = cell.rows, !.offset = 1]

RowStep(v, cell) ==
    IF ~InputCountValid(cell.inputs) THEN Reject(v)
    ELSE [v EXCEPT !.phase = "inputs", !.row_offset = v.offset, !.offset = @ + 1,
                   !.inputs_read = 0, !.inputs = cell.inputs, !.output = cell.output]

RowInputs(v, bytes) == [i \in 1 .. v.inputs |-> bytes[v.row_offset + i].action]

InputsStep(v, bytes) ==
    LET w == [v EXCEPT !.offset = @ + Chunk(v), !.inputs_read = @ + Chunk(v)]
    IN  IF w.inputs_read < w.inputs THEN w
        ELSE IF ~DecodeRow(v.output, RowInputs(v, bytes)) THEN Reject(v)
        ELSE [w EXCEPT !.phase = "row", !.row_index = @ + 1, !.found = TRUE]

IterationStep(v, bytes) ==
    CASE AtEnd(v)   -> IF v.offset = v.length THEN [v EXCEPT !.phase = "valid"] ELSE Reject(v)
      [] ~AtEnd(v) /\ Wants(v) > v.length - v.offset -> Reject(v)
      [] v.phase = "header" -> HeaderStep(v, bytes[0])
      [] ~AtEnd(v) /\ v.phase = "row" -> RowStep(v, bytes[v.offset])
      [] OTHER -> InputsStep(v, bytes)

\* validate_combos: a row the walk has found is refused at once.
Takes(v, bytes) ==
    LET w == IterationStep([v EXCEPT !.found = FALSE], bytes)
    IN  IF w.found /\ ~NativesValid(w.output, RowInputs(w, bytes)) THEN Reject(w) ELSE w

Cells(v) ==
    CASE v.phase = "header" -> [rows : 0 .. MaxRows + 1]
      [] v.phase = "row"    -> [inputs : 0 .. MaxInputs + 1, output : Actions \cup {Bad}]
      [] v.phase = "inputs" -> [action : Actions \cup {Bad}]

(* ---- the encoder ----------------------------------------------------------- *)

\* A build's combos are [output, inputs], inputs up to the marker that ends them.
Encodable(combos) ==
    /\ Len(combos) <= MaxRows
    /\ \A i \in DOMAIN combos :
          InputCountValid(Len(combos[i].inputs))

RowCells(combo) ==
    <<[inputs |-> Len(combo.inputs), output |-> combo.output]>>
        \o [i \in DOMAIN combo.inputs |-> [action |-> combo.inputs[i]]]

Encode(combos) ==
    LET cells == <<[rows |-> Len(combos)]>>
                     \o FlattenSeq([i \in DOMAIN combos |-> RowCells(combos[i])])
    IN  [o \in 0 .. Len(cells) - 1 |-> cells[o + 1]]

(* ---- reading an accepted payload ------------------------------------------- *)

\* noah_profile_combo_v1_read_row walks the rows before the one it wants.
ReadRow(bytes, index) ==
    LET at[i \in 0 .. index] == IF i = 0 THEN 1 ELSE at[i - 1] + 1 + bytes[at[i - 1]].inputs
        head == bytes[at[index]]
    IN  [output |-> head.output,
         inputs |-> [i \in 1 .. head.inputs |-> bytes[at[index] + i].action]]

Combos(bytes) == [i \in 1 .. bytes[0].rows |-> ReadRow(bytes, i - 1)]

\* noah_active_profile_combo_runtime_invalidate: the table the combo engine runs,
\* none at all if one row does not fit.
Materialized(bytes) ==
    LET rows  == Combos(bytes)
        table == [i \in DOMAIN rows |-> [keycode |-> Native[rows[i].output],
                                         keys    |-> [j \in DOMAIN rows[i].inputs |-> Native[rows[i].inputs[j]]]]]
    IN  IF \A i \in DOMAIN rows : NativesValid(rows[i].output, rows[i].inputs) THEN {table} ELSE {}

\* The rows read back are the payload, each a chord of different keys of this
\* build that sends one.
RowsReadBack(bytes) ==
    /\ Encodable(Combos(bytes)) /\ Encode(Combos(bytes)) = bytes
    /\ \A i \in DOMAIN Combos(bytes) :
          LET combo == Combos(bytes)[i]
          IN  /\ combo.output \in Actions /\ Native[combo.output] > NoKey
              /\ \A j \in DOMAIN combo.inputs :
                    combo.inputs[j] \in Actions /\ Native[combo.inputs[j]] > Transparent
              /\ Distinct([j \in DOMAIN combo.inputs |-> Native[combo.inputs[j]]])

\* What was accepted runs: each row a chord of two keys or more, none of them
\* the zero that ends QMK's list, and no chord lost for another.
ServesCombos(bytes) ==
    \E table \in Materialized(bytes) :
        /\ Len(table) = bytes[0].rows
        /\ \A i \in DOMAIN table :
              /\ table[i].keycode > NoKey /\ Len(table[i].keys) >= 2
              /\ Distinct(table[i].keys) /\ \A j \in DOMAIN table[i].keys : table[i].keys[j] > Transparent
====
