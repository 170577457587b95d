---- MODULE RgbDomain ----
(* The lights of a profile: the step by step check of a payload and the       *)
(* accessors that read its tables (profile_rgb_v1.c), and the writer of a     *)
(* build's own lights (profile_rgb_compiled_v1.c).  A payload is a header     *)
(* with the counts of its tables and one record of each table after another;  *)
(* a cell is one record:                                                      *)
(*   the header       [stages, counts], stages Bad where a version, a         *)
(*                    reserved byte or the geometry is not this build's       *)
(*   a group          [id, bitmap], bitmaps numbered in their byte order,     *)
(*                    NoBitmap one with a bit beyond the last LED             *)
(*   a coloured row   [id, color, group], id the row's own number or what it  *)
(*                    selects, color whether all its values are Zero, within  *)
(*                    their range or Wrong; a field its table lacks is 0      *)
EXTENDS Integers, FiniteSets, SequencesExt

CONSTANTS
    Compiled,    \* the stages this build has
    Layers,      \* the layers it has, LAYER_COUNT
    Modes,       \* its pointing modes
    TapColors,   \* the taps past the first it lights
    MaxGroups,   \* NOAH_PROFILE_RGB_V1_MAX_GROUPS
    MaxRows,     \* NOAH_PROFILE_RGB_V1_MAX_STAGE_GROUP_ROWS
    Bitmaps      \* the bitmaps tried

Stages == {"layer", "automouse", "mode", "combo", "key"}
Zero == "zero"
Within == "within"
Wrong == "wrong"
NoBitmap == 0
All == -1

\* The tables in their order; three have one record and no count.
Sections == <<"groups", "layer_colors", "layer_groups", "automouse", "pd_colors", "pd_groups",
              "combo", "combo_groups", "tap_colors", "key_feedback", "key_groups">>
Counted == {"groups", "layer_colors", "layer_groups", "pd_colors", "pd_groups",
            "combo_groups", "tap_colors", "key_groups"}
GroupRows == {"layer_groups", "pd_groups", "combo_groups", "key_groups"}
Count(counts, section) == IF section \in Counted THEN counts[section] ELSE 1

\* The offset of the n-th table, of the end for the one past the last.
SectionOffset(counts, n) ==
    1 + FoldLeft(LAMBDA sum, s : sum + Count(counts, s), 0, SubSeq(Sections, 1, n - 1))
End(counts) == SectionOffset(counts, Len(Sections) + 1)

(* ---- the check -------------------------------------------------------------- *)

NoCounts == [s \in Counted |-> 0]
Begin(length) ==
    [phase |-> "header", length |-> length, counts |-> NoCounts, section |-> 0,
     row |-> 0, previous_bitmap |-> NoBitmap, previous_pd_id |-> -1, observed |-> {}]

Over(v) == v.phase \in {"rejected", "valid"}
Reject(v) == [v EXCEPT !.phase = "rejected"]
Section(v) == Sections[v.section]
RowsLeft(v) == v.section > 0 /\ v.row < Count(v.counts, Section(v))

Reads(v) ==
    IF Over(v) THEN {}
    ELSE IF v.phase = "header" THEN {o \in {0} : v.length > 0}
    ELSE IF RowsLeft(v) THEN {SectionOffset(v.counts, v.section) + v.row}
    ELSE {}

CountsFit(counts) ==
    /\ counts["groups"] <= MaxGroups
    /\ FoldSet(LAMBDA s, sum : sum + counts[s], 0, GroupRows) <= MaxRows

HeaderStep(v, cell) ==
    IF ~(cell.stages \subseteq Compiled) \/ ~CountsFit(cell.counts) \/ v.length # End(cell.counts)
    THEN Reject(v)
    ELSE [v EXCEPT !.phase = "rows", !.counts = cell.counts, !.section = 1]

\* What each table asks of one of its records.
RecordFits(v, cell) ==
    CASE Section(v) = "groups" ->
            cell.id = v.row /\ cell.bitmap > v.previous_bitmap
      [] Section(v) = "layer_colors" -> cell.id = v.row /\ cell.color # Wrong
      [] Section(v) = "layer_groups" ->
            /\ cell.id = All \/ cell.id < v.counts["layer_colors"]
            /\ cell.color # Wrong /\ cell.group < v.counts["groups"]
      [] Section(v) = "pd_colors" ->
            cell.id \in Modes /\ cell.id > v.previous_pd_id /\ cell.color # Wrong
      [] Section(v) = "pd_groups" ->
            /\ cell.id \in Modes \cup {All}
            /\ cell.color # Wrong /\ cell.group < v.counts["groups"]
      [] Section(v) \in {"combo_groups", "key_groups"} ->
            /\ Section(v) = "key_groups" => cell.id <= 3
            /\ cell.color # Wrong /\ cell.group < v.counts["groups"]
      [] OTHER -> cell.color # Wrong

\* What the table asks once its records are read: a stage this build has is
\* whole, one it lacks says nothing.
TableFits(v, bytes) ==
    LET is(stage) == stage \in Compiled
        last      == bytes[SectionOffset(v.counts, v.section)]
    IN  CASE Section(v) = "layer_colors" ->
                IF is("layer") THEN v.counts["layer_colors"] = Layers /\ Layers # 0
                ELSE v.counts["layer_colors"] = 0 /\ v.counts["layer_groups"] = 0
          [] Section(v) = "automouse" -> is("automouse") \/ last.color = Zero
          [] Section(v) = "pd_colors" ->
                IF is("mode") THEN v.observed = Modes
                ELSE v.counts["pd_colors"] = 0 /\ v.counts["pd_groups"] = 0
          [] Section(v) = "combo" ->
                is("combo") \/ (v.counts["combo_groups"] = 0 /\ last.color = Zero)
          [] Section(v) = "key_feedback" ->
                IF is("key") THEN v.counts["tap_colors"] = TapColors
                ELSE /\ v.counts["tap_colors"] = 0 /\ v.counts["key_groups"] = 0
                     /\ last.color = Zero
          [] OTHER -> TRUE

AfterRecord(v, cell) ==
    CASE Section(v) = "groups"    -> [v EXCEPT !.row = @ + 1, !.previous_bitmap = cell.bitmap]
      [] Section(v) = "pd_colors" -> [v EXCEPT !.row = @ + 1, !.previous_pd_id = cell.id,
                                               !.observed = @ \cup {cell.id}]
      [] OTHER                    -> [v EXCEPT !.row = @ + 1]

AfterTable(v) ==
    IF v.section = Len(Sections) THEN [v EXCEPT !.phase = "valid"]
    ELSE [v EXCEPT !.section = @ + 1, !.row = 0]

\* One record, and the table's end with its last; a table without records ends
\* in a step that reads nothing.
RowsStep(v, bytes) ==
    LET cell == bytes[SectionOffset(v.counts, v.section) + v.row]
        w    == IF RowsLeft(v) THEN AfterRecord(v, cell) ELSE v
    IN  IF RowsLeft(v) /\ ~RecordFits(v, cell) THEN Reject(v)
        ELSE IF RowsLeft(w) THEN w
        ELSE IF TableFits(w, bytes) THEN AfterTable(w)
        ELSE Reject(w)

Takes(v, bytes) ==
    CASE v.length = 0         -> Reject(v)
      [] v.phase = "rows"     -> RowsStep(v, bytes)
      [] v.length # 0 /\ v.phase = "header" -> HeaderStep(v, bytes[0])

\* The records tried: one of each count up to what the payload can hold, and
\* the values the checks of a table tell apart.
Headers(length) ==
    LET most == length - 4
    IN  {c \in [Counted -> 0 .. 2] :
            FoldSet(LAMBDA s, sum : sum + c[s], 0, Counted) \in {most, most + 1}}
Row(ids, colors, groups) == [id : ids, color : colors, group : groups]
Cells(v) ==
    LET groups == 0 .. v.counts["groups"]
    IN  CASE v.phase = "header" ->
                [stages : {Compiled} \cup {Stages}, counts : Headers(v.length)]
          [] v.phase = "rows" /\ Section(v) = "groups" ->
                [id : {v.row, v.row + 1}, bitmap : Bitmaps \cup {NoBitmap}]
          [] v.phase = "rows" /\ Section(v) = "layer_colors" ->
                Row({v.row, v.row + 1}, {Within, Wrong}, {0})
          [] v.phase = "rows" /\ Section(v) = "layer_groups" ->
                Row({All} \cup 0 .. Layers, {Within, Wrong}, groups)
          [] v.phase = "rows" /\ Section(v) = "pd_colors" ->
                Row(0 .. Cardinality(Modes), {Within, Wrong}, {0})
          [] v.phase = "rows" /\ Section(v) = "pd_groups" ->
                Row({All} \cup 0 .. Cardinality(Modes), {Within, Wrong}, groups)
          [] v.phase = "rows" /\ Section(v) = "key_groups" ->
                Row({All, 0, 3, 4}, {Within, Wrong}, groups)
          [] v.phase = "rows" /\ Section(v) = "combo_groups" ->
                Row({0}, {Within, Wrong}, groups)
          [] OTHER -> Row({0}, {Zero, Within, Wrong}, {0})

(* ---- the writer --------------------------------------------------------------- *)

\* A build's lights are the groups it saves and, for each table, its rows: a
\* stage row [id, color, bitmap] names its LEDs, the writer finds the group.
RowsOf(lights) == FlattenSeq([n \in DOMAIN Sections |->
                     IF Sections[n] \in GroupRows THEN lights[Sections[n]] ELSE <<>>])
GroupsOf(lights) ==
    ToSet(lights["groups"]) \cup {RowsOf(lights)[i].bitmap : i \in DOMAIN RowsOf(lights)}
GroupId(lights, bitmap) == Cardinality({b \in GroupsOf(lights) : b < bitmap})
GroupBitmap(lights, id) == CHOOSE b \in GroupsOf(lights) : GroupId(lights, b) = id

Encodable(lights) ==
    /\ NoBitmap \notin GroupsOf(lights)
    /\ Cardinality(GroupsOf(lights)) <= MaxGroups /\ Len(RowsOf(lights)) <= MaxRows
    /\ "mode" \in Compiled => Len(lights["pd_colors"]) = Cardinality(Modes)
    /\ "key" \in Compiled => Len(lights["tap_colors"]) = TapColors

WriteSection(lights, section) ==
    IF section = "groups"
    THEN [i \in 1 .. Cardinality(GroupsOf(lights)) |->
             [id |-> i - 1, bitmap |-> GroupBitmap(lights, i - 1)]]
    ELSE IF section \in GroupRows
    THEN [i \in DOMAIN lights[section] |->
             [id    |-> lights[section][i].id, color |-> lights[section][i].color,
              group |-> GroupId(lights, lights[section][i].bitmap)]]
    ELSE lights[section]

Encode(lights) ==
    LET rows   == FlattenSeq([n \in DOMAIN Sections |-> WriteSection(lights, Sections[n])])
        counts == [s \in Counted |-> Len(WriteSection(lights, s))]
    IN  [o \in 0 .. Len(rows) |->
            IF o = 0 THEN [stages |-> Compiled, counts |-> counts] ELSE rows[o]]

(* ---- reading an accepted payload ------------------------------------------------ *)

\* accessor_read: record index of a table, found from the counts alone.
RecordAt(bytes, n, index) == bytes[SectionOffset(bytes[0].counts, n) + index]
Table(bytes, n) ==
    [i \in 1 .. Count(bytes[0].counts, Sections[n]) |-> RecordAt(bytes, n, i - 1)]

Lights(bytes) ==
    LET n(s)      == CHOOSE i \in DOMAIN Sections : Sections[i] = s
        bitmap(g) == RecordAt(bytes, 1, g).bitmap
    IN  [s \in ToSet(Sections) |->
            CASE s = "groups" -> [i \in DOMAIN Table(bytes, 1) |-> bitmap(i - 1)]
              [] s \in GroupRows ->
                    [i \in DOMAIN Table(bytes, n(s)) |->
                        [id     |-> RecordAt(bytes, n(s), i - 1).id,
                         color  |-> RecordAt(bytes, n(s), i - 1).color,
                         bitmap |-> bitmap(RecordAt(bytes, n(s), i - 1).group)]]
              [] OTHER -> Table(bytes, n(s))]

\* What the accessors read is what a build with those lights writes: every
\* group once, in order, and every row with a group that is there.
LightsReadBack(bytes) ==
    /\ \A n \in DOMAIN Sections : Sections[n] \in GroupRows =>
          \A i \in DOMAIN Table(bytes, n) : Table(bytes, n)[i].group < bytes[0].counts["groups"]
    /\ Encodable(Lights(bytes))
    /\ [Encode(Lights(bytes)) EXCEPT ![0].stages = bytes[0].stages] = bytes
    /\ "mode" \in Compiled => {Table(bytes, 5)[i].id : i \in DOMAIN Table(bytes, 5)} = Modes
    /\ "layer" \in Compiled => bytes[0].counts["layer_colors"] = Layers

Enabled(bytes, stage) == stage \in Compiled /\ stage \in bytes[0].stages
SectionNumber(section) == CHOOSE n \in DOMAIN Sections : Sections[n] = section
Served(bytes, section, index) == RecordAt(bytes, SectionNumber(section), index)

\* A group row's LEDs are those of its group in the dictionary.
WithBitmap(bytes, row) ==
    {[id |-> row.id, color |-> row.color, bitmap |-> g.bitmap] :
        g \in {h \in {Served(bytes, "groups", row.group)} :
                  row.group < bytes[0].counts["groups"] /\ h.id = row.group}}
GroupAt(bytes, stage, section, index) ==
    IF Enabled(bytes, stage) /\ index < bytes[0].counts[section]
    THEN WithBitmap(bytes, Served(bytes, section, index)) ELSE {}
GroupCount(bytes, stage, section) ==
    IF Enabled(bytes, stage) THEN bytes[0].counts[section] ELSE 0

LayerColor(bytes, layer) ==
    IF Enabled(bytes, "layer") /\ layer < Layers /\ layer < bytes[0].counts["layer_colors"]
    THEN {r \in {Served(bytes, "layer_colors", layer)} : r.id = layer} ELSE {}
LayerGroupCount(bytes) == GroupCount(bytes, "layer", "layer_groups")
LayerGroup(bytes, index) == GroupAt(bytes, "layer", "layer_groups", index)

Automouse(bytes) == IF Enabled(bytes, "automouse") THEN {Served(bytes, "automouse", 0)} ELSE {}

\* Mutant: the row at a mode's own place is taken whatever mode it is for.
PdColorInPlace(bytes, mode) ==
    IF Enabled(bytes, "mode") /\ mode < bytes[0].counts["pd_colors"]
    THEN {Served(bytes, "pd_colors", mode)} ELSE {}

\* The row at the mode's own place if it is the mode's, or a search that ends
\* behind it.
PdColor(bytes, mode) ==
    LET rows   == 0 .. bytes[0].counts["pd_colors"] - 1
        row(i) == Served(bytes, "pd_colors", i)
        past   == {i \in rows : row(i).id >= mode}
    IN  IF ~Enabled(bytes, "mode") THEN {}
        ELSE IF mode \in rows /\ row(mode).id = mode THEN {row(mode)}
        ELSE {row(i) : i \in {j \in past : row(j).id = mode /\ \A k \in past : j <= k}}
PdGroupCount(bytes) == GroupCount(bytes, "mode", "pd_groups")
PdGroup(bytes, index) == GroupAt(bytes, "mode", "pd_groups", index)

ComboFeedback(bytes) == IF Enabled(bytes, "combo") THEN {Served(bytes, "combo", 0)} ELSE {}
ComboGroupCount(bytes) == GroupCount(bytes, "combo", "combo_groups")
ComboGroup(bytes, index) == GroupAt(bytes, "combo", "combo_groups", index)

\* Every tap colour, then the fixed ones.
KeyFixed(bytes) == IF Enabled(bytes, "key") THEN {Served(bytes, "key_feedback", 0)} ELSE {}
KeyFeedback(bytes) ==
    {[fixed |-> f, taps |-> [i \in 1 .. bytes[0].counts["tap_colors"] |-> Served(bytes, "tap_colors", i - 1)]] :
        f \in {g \in KeyFixed(bytes) : bytes[0].counts["tap_colors"] <= TapColors}}
KeyGroupCount(bytes) == GroupCount(bytes, "key", "key_groups")
KeyGroup(bytes, index) == GroupAt(bytes, "key", "key_groups", index)

(* ---- what must hold ----------------------------------------------------------- *)

\* A stage's group rows, one index past the last asked for as well.
Rows(bytes, count, At(_, _)) == [i \in 0 .. count |-> At(bytes, i)]
RowsWritten(rows) == [i \in 0 .. Len(rows) |-> IF i < Len(rows) THEN {rows[i + 1]} ELSE {}]
On(bytes, stage, rows) == IF Enabled(bytes, stage) THEN rows ELSE <<>>

\* A stage that is on gets every colour and row the payload was written with,
\* under the layer, the mode or the place it was written for; one that is off
\* gets nothing.
ServesLights(bytes) ==
    LET lights   == Lights(bytes)
        only(stage, rows) == IF Enabled(bytes, stage) THEN rows ELSE {}
    IN  /\ \A layer \in 0 .. Layers :
              LayerColor(bytes, layer) =
                 only("layer", {r \in ToSet(lights["layer_colors"]) : r.id = layer})
        /\ \A mode \in Modes :
              PdColor(bytes, mode) = only("mode", {r \in ToSet(lights["pd_colors"]) : r.id = mode})
        /\ Automouse(bytes) = only("automouse", ToSet(lights["automouse"]))
        /\ ComboFeedback(bytes) = only("combo", ToSet(lights["combo"]))
        /\ KeyFeedback(bytes) =
              only("key", {[fixed |-> lights["key_feedback"][1], taps |-> lights["tap_colors"]]})
        /\ Rows(bytes, LayerGroupCount(bytes), LayerGroup) = RowsWritten(On(bytes, "layer", lights["layer_groups"]))
        /\ Rows(bytes, PdGroupCount(bytes), PdGroup) = RowsWritten(On(bytes, "mode", lights["pd_groups"]))
        /\ Rows(bytes, ComboGroupCount(bytes), ComboGroup) = RowsWritten(On(bytes, "combo", lights["combo_groups"]))
        /\ Rows(bytes, KeyGroupCount(bytes), KeyGroup) = RowsWritten(On(bytes, "key", lights["key_groups"]))
====
