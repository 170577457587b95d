---- MODULE SettingsDomain ----
(* The settings of a profile: the check that takes a payload a cell at a time *)
(* (profile_settings_v1.c, profile_name_v1.h) and the bytes a build without a *)
(* stored profile answers instead (profile_settings_defaults.c).  The cells:  *)
(*   the header; the auto mouse timeout; its dead time; the default layers;   *)
(*   the other scalars; for each layer its reference and the places its two   *)
(*   bitmaps name; a custom key's shortcut: its keys, its layers and what     *)
(*   they do; then the names, each its length and that many cells of text,    *)
(*   the keyboard's own name last.                                            *)
(* The header and the other scalars are "good" or "bad".  A cell of text is       *)
(* "plain", the "lead" of a character of two cells, its "tail", or "bad".     *)
EXTENDS Integers, FiniteSets, SequencesExt

CONSTANTS
    Layers,      \* NOAH_SETTINGS_LAYERS
    Positions,   \* the matrix positions a bitmap may name
    KeyKinds,    \* the keys of the shortcut vocabulary: their kind, where one
                 \* shortcut holds one key of a kind but any of kind "free"
    KeyCount,    \* NOAH_CUSTOM_KEY_SHORTCUT_KEY_COUNT
    NameCount,   \* NOAH_SETTINGS_NAME_COUNT
    NameMax      \* NOAH_SETTINGS_NAME_MAX

Header == 0
Timeout == 1
DeadTime == 2
DefaultLayers == 3
OtherScalars == 4
LayerRecords == 5
ShortcutKeys == LayerRecords + 2 * Layers
ShortcutLayers == ShortcutKeys + KeyCount
ShortcutKind == ShortcutLayers + 1
FixedSize == ShortcutKind + 1
MinSize == FixedSize + NameCount
MaxSize == FixedSize + NameCount * (1 + NameMax)

IsReference(offset) ==
    offset \in LayerRecords .. ShortcutKeys - 1 /\ (offset - LayerRecords) % 2 = 0
IsPlaces(offset) ==
    offset \in LayerRecords .. ShortcutKeys - 1 /\ (offset - LayerRecords) % 2 = 1

(* ---- the check ------------------------------------------------------------ *)

Begin(length) ==
    [phase |-> "settings", length |-> length, offset |-> 0, timeout |-> 0,
     default |-> {}, keys |-> <<>>, has_layers |-> FALSE,
     name |-> 0, in_name |-> FALSE, remaining |-> 0, tail |-> FALSE]

Over(v) == v.phase \in {"rejected", "valid"}
Reject(v) == [v EXCEPT !.phase = "rejected"]

\* A layer that is always on: the base layer and the default layers.
AlwaysOn(v) == v.default \cup {0}

\* A key of the vocabulary, packed behind those before it, never one of them
\* and never a second of its kind; or none.
KeyFits(before, key) ==
    \/ key = "none"
    \/ /\ key \in DOMAIN KeyKinds
       /\ \A i \in DOMAIN before :
             /\ before[i] \notin {"none", key}
             /\ KeyKinds[before[i]] = KeyKinds[key] => KeyKinds[key] = "free"

NameFits(v, cell) ==
    IF ~v.in_name THEN v.name < NameCount /\ cell <= NameMax
    ELSE IF v.tail THEN cell = "tail"
    ELSE cell = "plain" \/ (cell = "lead" /\ v.remaining >= 2)

CellFits(v, cell) ==
    LET o == v.offset
    IN  CASE o \in {Header, OtherScalars} -> cell = "good"
          [] o = Timeout        -> TRUE
          [] o = DeadTime       -> v.timeout # 0 /\ cell < v.timeout
          [] o = DefaultLayers  -> cell # {} /\ cell \subseteq 0 .. Layers - 1
          [] IsReference(o)     -> cell < Layers
          [] IsPlaces(o)        -> cell \subseteq 0 .. Positions - 1
          [] o \in ShortcutKeys .. ShortcutLayers - 1 -> KeyFits(v.keys, cell)
          [] o = ShortcutLayers -> cell \cap AlwaysOn(v) = {}
          [] o = ShortcutKind   -> v.has_layers \/ cell = "hold"
          [] OTHER              -> NameFits(v, cell)

\* The name the next cell belongs to, and how much of it is left.
AfterName(v, cell) ==
    LET left == IF v.in_name THEN v.remaining - 1 ELSE cell
    IN  [v EXCEPT !.remaining = left, !.in_name = left > 0,
                  !.name = IF left = 0 THEN @ + 1 ELSE @,
                  !.tail = v.in_name /\ cell = "lead"]

After(v, cell) ==
    LET o == v.offset
        w == [v EXCEPT !.offset = o + 1]
    IN  CASE o = Timeout        -> [w EXCEPT !.timeout = cell]
          [] o = DefaultLayers  -> [w EXCEPT !.default = cell]
          [] o \in ShortcutKeys .. ShortcutLayers - 1 -> [w EXCEPT !.keys = Append(@, cell)]
          [] o = ShortcutLayers -> [w EXCEPT !.has_layers = cell # {}]
          [] o >= FixedSize     -> AfterName(w, cell)
          [] OTHER              -> w

Reaches(v) == v.length \in MinSize .. MaxSize
Reads(v) == IF Over(v) \/ ~Reaches(v) THEN {} ELSE {v.offset}

\* Every name has ended where the payload does.
Complete(v) == v.name = NameCount /\ ~v.in_name

Takes(v, bytes) ==
    LET cell == bytes[v.offset]
        w    == After(v, cell)
    IN  IF ~Reaches(v) \/ ~CellFits(v, cell) THEN Reject(v)
        ELSE IF w.offset < w.length THEN w
        ELSE IF Complete(w) THEN [w EXCEPT !.phase = "valid"]
        ELSE Reject(w)

Cells(v) ==
    LET o == v.offset
    IN  CASE o \in {Header, OtherScalars} -> {"good", "bad"}
          [] o \in {Timeout, DeadTime} -> 0 .. 2
          [] o = DefaultLayers  -> SUBSET (0 .. Layers)
          [] IsReference(o)     -> {0, Layers}
          [] IsPlaces(o)        -> {{0}, 0 .. Positions}
          [] o \in ShortcutKeys .. ShortcutLayers - 1 -> DOMAIN KeyKinds \cup {"none", "bad"}
          [] o = ShortcutLayers -> SUBSET (0 .. Layers - 1)
          [] o = ShortcutKind   -> {"hold", "toggle"}
          [] OTHER -> IF v.in_name THEN {"plain", "lead", "tail", "bad"}
                      ELSE 0 .. NameMax + 1

(* ---- the defaults --------------------------------------------------------- *)

\* Where the names of a build's defaults start, the last one the end of all.
NameStarts(names) ==
    LET at[n \in 0 .. NameCount] ==
            IF n = 0 THEN 0 ELSE at[n - 1] + 1 + Len(names[n])
    IN  at

DefaultsLength(names) == FixedSize + NameStarts(names)[NameCount]

\* A cell of the names, found from the record the last read ended in; `cursor`
\* is that record and where it starts.
NameByte(names, at, cursor) ==
    LET from   == IF at < cursor.start THEN [record |-> 0, start |-> 0] ELSE cursor
        start[n \in from.record .. NameCount] ==
            IF n = from.record THEN from.start ELSE start[n - 1] + 1 + Len(names[n])
        held   == {n \in from.record .. NameCount - 1 : at - start[n] <= Len(names[n + 1])}
        record == CHOOSE n \in held : \A m \in held : n <= m
    IN  IF at = start[record] THEN Len(names[record + 1])
        ELSE names[record + 1][at - start[record]]

Cursors(names) ==
    {[record |-> n, start |-> NameStarts(names)[n]] : n \in 0 .. NameCount}

\* build has its names, its shortcut's keys, layers and kind; each layer's
\* combos are its own and no place is named.
DefaultsByte(build, o, cursor) ==
    CASE o \in {Header, OtherScalars} -> "good"
      [] o = Timeout        -> 2
      [] o = DeadTime       -> 1
      [] o = DefaultLayers  -> {0}
      [] IsReference(o)     -> (o - LayerRecords) \div 2
      [] IsPlaces(o)        -> {}
      [] o \in ShortcutKeys .. ShortcutLayers - 1 -> build.keys[o - ShortcutKeys + 1]
      [] o = ShortcutLayers -> build.layers
      [] o = ShortcutKind   -> build.kind
      [] OTHER              -> NameByte(build.names, o - FixedSize, cursor)

(* ---- what an accepted payload says ---------------------------------------- *)

\* The keyboard's name: the names before it are skipped by their lengths, and
\* it must end the payload.
KeyboardNameAt(bytes) ==
    LET at[n \in 0 .. NameCount - 1] ==
            IF n = 0 THEN FixedSize ELSE at[n - 1] + 1 + bytes[at[n - 1]]
    IN  at[NameCount - 1]

TextAt(bytes, at) == [i \in 1 .. bytes[at] |-> bytes[at + i]]

WholeText(text) ==
    /\ \A i \in DOMAIN text : text[i] # "bad"
    /\ \A i \in DOMAIN text : text[i] = "tail" <=> (i > 1 /\ text[i - 1] = "lead")
    /\ text # <<>> => Last(text) # "lead"

ShortcutFits(bytes) ==
    LET keys == [i \in 1 .. KeyCount |-> bytes[ShortcutKeys + i - 1]]
        used == {i \in 1 .. KeyCount : keys[i] # "none"}
    IN  /\ \E n \in 0 .. KeyCount : used = 1 .. n
        /\ \A i \in used : keys[i] \in DOMAIN KeyKinds
        /\ \A i, j \in used : i # j =>
              /\ keys[i] # keys[j]
              /\ KeyKinds[keys[i]] = KeyKinds[keys[j]] => KeyKinds[keys[i]] = "free"
        /\ bytes[ShortcutLayers] \cap ({0} \cup bytes[DefaultLayers]) = {}
        /\ bytes[ShortcutLayers] = {} => bytes[ShortcutKind] = "hold"

\* Dead time ends before the timeout, no shortcut turns on a layer that is
\* always on, no layer or place outside the bank is named, every name is whole
\* text, and the keyboard's name ends the payload.
SettingsRead(bytes) ==
    LET at == KeyboardNameAt(bytes)
    IN  /\ bytes[DeadTime] < bytes[Timeout]
        /\ bytes[DefaultLayers] # {} /\ bytes[DefaultLayers] \subseteq 0 .. Layers - 1
        /\ \A l \in 0 .. Layers - 1 :
              /\ bytes[LayerRecords + 2 * l] < Layers
              /\ bytes[LayerRecords + 2 * l + 1] \subseteq 0 .. Positions - 1
        /\ ShortcutFits(bytes)
        /\ at + bytes[at] = Cardinality(DOMAIN bytes) - 1
        /\ bytes[at] <= NameMax /\ WholeText(TextAt(bytes, at))
====
