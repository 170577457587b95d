---- MODULE MacroProgram ----
(* A macro from its text to the keys it plays: the compiler that reads the    *)
(* text's commands (macro_payload_parse.c), the encoder that writes a program *)
(* as a bank's bytes (macro_payload_encode.c), and the decoder that reads     *)
(* them back a window at a time (macro_payload_decode_qmk.c).  A program is a *)
(* sequence of operations [op, of]: "text" with its bytes, "unicode" with a   *)
(* scalar, "delay" with its time, "down" and "up" with a key, "tap" with the  *)
(* keys pressed in turn and let go in reverse.                                *)
EXTENDS Integers, FiniteSets, SequencesExt, TLC

CONSTANTS
    TapKeys,     \* MACRO_PAYLOAD_MAX_TAP_KEYS
    IrMax,       \* MACRO_PAYLOAD_IR_MAX_BYTES
    SpanMax,     \* MACRO_PAYLOAD_QMK_SPAN_MAX_BYTES
    TextMax,     \* UINT8_MAX, the bytes of one text operation
    DelayMax     \* UINT16_MAX, the longest delay

Op(op, of) == [op |-> op, of |-> of]
Stroke == "tap" :> 1 @@ "down" :> 2 @@ "up" :> 3
Bar == 124

OpSize(o) ==
    CASE o.op \in {"text", "tap"} -> 2 + Len(o.of)
      [] o.op = "unicode"         -> 4
      [] o.op = "delay"           -> 3
      [] o.op \in {"down", "up"}  -> 2
IrLength(ir) == FoldLeft(LAMBDA sum, o : sum + OpSize(o), 0, ir)

(* ---- what is held ----------------------------------------------------------- *)

\* A key is held once, and no more of them than a balance keeps.
NoteDown(balance, key) ==
    IF key \notin ToSet(balance) /\ Len(balance) < TapKeys THEN {Append(balance, key)} ELSE {}
NoteUp(balance, key) ==
    IF key \in ToSet(balance) THEN {SelectSeq(balance, LAMBDA k : k # key)} ELSE {}

(* ---- the compiler ------------------------------------------------------------ *)

\* A piece of a macro's text: a character [is |-> "char", of |-> its bytes], or a
\* command between braces, of a delay, +key, -key or a list of keys; NoKey is a
\* name nothing has.
NoKey == 0
Fits(ir) == IrLength(ir) <= IrMax

\* macro_payload_parse_command refuses what is no command.
CommandParses(piece) ==
    CASE piece.is = "tap"            -> Len(piece.of) \in 1 .. TapKeys /\ NoKey \notin ToSet(piece.of)
      [] piece.is \in {"down", "up"} -> Len(piece.of) = 1 /\ NoKey \notin ToSet(piece.of)
      [] piece.is = "delay"          -> TRUE

Command(piece) ==
    IF piece.is = "delay"
    THEN Op("delay", <<IF piece.of[1] > DelayMax THEN DelayMax ELSE piece.of[1]>>)
    ELSE Op(piece.is, piece.of)

\* The scalar of a character of several bytes.
Scalar(character) ==
    LET size  == Len(character)
        first == character[1] % (IF size = 2 THEN 32 ELSE IF size = 3 THEN 16 ELSE 8)
    IN  FoldLeft(LAMBDA value, b : 64 * value + (b % 64), first, Tail(character))

\* Text joins the run before it until an operation of it is full.
WriteText(ir, character) ==
    IF Len(character) > 1 THEN Append(ir, Op("unicode", <<Scalar(character)>>))
    ELSE IF ir # <<>> /\ Last(ir).op = "text" /\ Len(Last(ir).of) < TextMax
    THEN Append(Front(ir), Op("text", Last(ir).of \o character))
    ELSE Append(ir, Op("text", character))

Balanced(balance, o) ==
    CASE o.op = "down" -> NoteDown(balance, o.of[1])
      [] o.op = "up"   -> NoteUp(balance, o.of[1])
      [] OTHER         -> {balance}

\* The programs of a text: one, or none if it is refused.
Compile(script) ==
    LET Read(states, piece) ==
            UNION {IF piece.is = "char"
                   THEN {[ir |-> WriteText(s.ir, piece.of), balance |-> s.balance]}
                   ELSE IF ~CommandParses(piece) THEN {}
                   ELSE {[ir |-> Append(s.ir, Command(piece)), balance |-> b] :
                            b \in Balanced(s.balance, Command(piece))} : s \in states}
        ends == FoldLeft(Read, {[ir |-> <<>>, balance |-> <<>>]}, script)
    IN  {s.ir : s \in {e \in ends : e.balance = <<>> /\ Fits(e.ir)}}

(* ---- the encoder -------------------------------------------------------------- *)

Decimal(n) ==
    LET of[m \in 0 .. n] == IF m < 10 THEN <<48 + m>> ELSE Append(of[m \div 10], 48 + (m % 10))
    IN  of[n]

Utf8(value) ==
    LET low == 128 + (value % 64)
    IN  CASE value < 2048 -> <<192 + (value \div 64), low>>
          [] value \in 2048 .. 65535 ->
                <<224 + (value \div 4096), 128 + ((value \div 64) % 64), low>>
          [] value > 65535 ->
                <<240 + (value \div 262144), 128 + ((value \div 4096) % 64),
                  128 + ((value \div 64) % 64), low>>

KeyAction(stroke, key) == <<1, Stroke[stroke], key>>

\* A tap of several keys: all but the last go down, that one is tapped, and the
\* others go up in reverse.
EncodeOp(o) ==
    CASE o.op = "text"           -> o.of
      [] o.op = "unicode"        -> Utf8(o.of[1])
      [] o.op = "delay"          -> <<1, 4>> \o Decimal(o.of[1]) \o <<Bar>>
      [] o.op \in {"down", "up"} -> KeyAction(o.op, o.of[1])
      [] o.op = "tap"            ->
            LET held == Front(o.of)
            IN  FlattenSeq([i \in DOMAIN held |-> KeyAction("down", held[i])])
                  \o KeyAction("tap", Last(o.of))
                  \o FlattenSeq([i \in DOMAIN held |-> KeyAction("up", Reverse(held)[i])])

EncodeIr(protection, ir) ==
    (IF protection = 0 THEN <<>> ELSE <<1, 5, protection>>)
      \o FlattenSeq([i \in DOMAIN ir |-> EncodeOp(ir[i])])

(* ---- the decoder -------------------------------------------------------------- *)

CharacterSize(lead) ==
    CASE lead < 128          -> 1
      [] lead \in 194 .. 223 -> 2
      [] lead \in 224 .. 239 -> 3
      [] lead \in 240 .. 244 -> 4
      [] OTHER               -> 0

\* What the decoder reads from an offset on: the end, a character, a stroke, a
\* delay with the byte that ends it, or the protection, which is a macro's first.
TokenAt(bytes, o) ==
    LET byte   == bytes[o]
        size   == CharacterSize(byte)
        past   == CHOOSE p \in o + 2 .. Len(bytes) :
                     bytes[p] \notin 48 .. 57 /\ \A q \in o + 2 .. p - 1 : bytes[q] \in 48 .. 57
        time   == FoldLeft(LAMBDA ms, d : IF 10 * ms + d - 48 > DelayMax THEN DelayMax ELSE 10 * ms + d - 48,
                           0, SubSeq(bytes, o + 2, past - 1))
        stroke == CHOOSE s \in DOMAIN Stroke : Stroke[s] = bytes[o + 1]
    IN  CASE byte = 0              -> [is |-> "end", of |-> <<>>, size |-> 1, last |-> TRUE]
          [] byte > 1              -> [is |-> "char", of |-> SubSeq(bytes, o, o + size - 1), size |-> size,
                                       last |-> FALSE]
          [] byte = 1 /\ bytes[o + 1] \in 1 .. 3 ->
                [is |-> stroke, of |-> <<bytes[o + 2]>>, size |-> 3, last |-> FALSE]
          [] byte = 1 /\ bytes[o + 1] = 4 ->
                [is |-> "delay", of |-> <<time>>, size |-> past - o + 1, last |-> bytes[past] = 0]
          [] byte = 1 /\ bytes[o + 1] = 5 ->
                [is |-> "protect", of |-> <<bytes[o + 2]>>, size |-> 3, last |-> FALSE]

TokensFrom(bytes, start) ==
    LET from[o \in 1 .. Len(bytes)] ==
            LET t == TokenAt(bytes, o) IN <<t>> \o (IF t.last THEN <<>> ELSE from[o + t.size])
    IN  from[start]

\* A decoder: the window so far, what is held, the presses not written yet, the
\* tap behind them and how many of their releases followed it, whether text runs
\* on, and the last place between whole steps.
Cursor0 == [offset |-> 1, protection |-> 0, balance |-> <<>>]
Decoder(cursor) ==
    [ir |-> <<>>, protection |-> cursor.protection, balance |-> cursor.balance, offset |-> cursor.offset,
     downs |-> <<>>, tap |-> <<>>, matched |-> 0, chunk |-> FALSE, state |-> "reads",
     clean |-> [offset |-> cursor.offset, ir |-> <<>>, balance |-> cursor.balance]]
Failed(d) == [d EXCEPT !.state = "failed"]

Write(d, o) ==
    IF d.state = "failed" \/ IrLength(d.ir) + OpSize(o) > IrMax THEN Failed(d)
    ELSE [d EXCEPT !.ir = Append(@, o)]

WriteKey(d, o) ==
    LET after == Balanced(d.balance, o)
    IN  IF after = {} THEN Failed(d) ELSE Write([d EXCEPT !.balance = CHOOSE b \in after : TRUE], o)

WriteTaps(d, keys) == IF Len(keys) > TapKeys THEN Failed(d) ELSE Write(d, Op("tap", keys))

NothingPending(d) == [d EXCEPT !.downs = <<>>, !.tap = <<>>, !.matched = 0]

FlushDowns(d) == FoldLeft(LAMBDA e, k : WriteKey(e, Op("down", <<k>>)), d, d.downs)
FlushTap(d) == IF d.tap = <<>> THEN d ELSE WriteTaps(d, d.tap)
FlushUps(d) ==
    FoldLeft(LAMBDA e, k : WriteKey(e, Op("up", <<k>>)), d, SubSeq(Reverse(d.downs), 1, d.matched))

\* Mutant: a tap that is written stays pending.
FlushKeepsTap(d) == [FlushUps(FlushTap(FlushDowns(d))) EXCEPT !.downs = <<>>, !.matched = 0]

\* The presses, the tap and its releases are written as they are.
Flush(d) == NothingPending(FlushUps(FlushTap(FlushDowns(d))))

AppendText(d, character) ==
    IF Len(character) > 1 THEN [Write(d, Op("unicode", <<Scalar(character)>>)) EXCEPT !.chunk = FALSE]
    ELSE IF d.chunk /\ Len(Last(d.ir).of) < TextMax
    THEN IF d.state = "failed" \/ IrLength(d.ir) = IrMax THEN Failed(d)
         ELSE [d EXCEPT !.ir = Append(Front(@), Op("text", Last(@).of \o character))]
    ELSE [Write(d, Op("text", character)) EXCEPT !.chunk = TRUE]

Ends(d) == IF d.state = "failed" \/ d.balance # <<>> THEN Failed(d) ELSE [d EXCEPT !.state = "done"]

FlushPastTap(d) == IF d.tap = <<>> THEN d ELSE Flush(d)

StartTap(d, key) ==
    IF d.downs = <<>> THEN WriteTaps(d, <<key>>) ELSE [d EXCEPT !.tap = <<key>>, !.matched = 0]
StartDown(d, key) ==
    IF Len(d.downs) = TapKeys THEN Failed(d) ELSE [d EXCEPT !.downs = Append(@, key)]

\* The last release around a tap makes one tap of them all.
TakeUp(d, key) ==
    IF d.tap # <<>> /\ d.matched < Len(d.downs) /\ key = d.downs[Len(d.downs) - d.matched]
    THEN IF d.matched + 1 < Len(d.downs) THEN [d EXCEPT !.matched = @ + 1]
         ELSE NothingPending(WriteTaps(d, d.downs \o d.tap))
    ELSE WriteKey(Flush(d), Op("up", <<key>>))

\* The place before a token is clean if nothing is pending there.
Mark(d) ==
    IF d.downs = <<>> /\ d.tap = <<>>
    THEN [d EXCEPT !.clean = [offset |-> d.offset, ir |-> d.ir, balance |-> d.balance]]
    ELSE d
Pass(d, token) == [d EXCEPT !.offset = @ + token.size, !.chunk = @ /\ token.is = "char"]

\* Every token but the strokes and the protection is written behind what is pending.
TakeOther(d, token) ==
    CASE token.is = "end"   -> Ends(d)
      [] token.is = "char"  -> AppendText(d, token.of)
      [] token.is = "delay" ->
            IF token.last THEN Ends(Write(d, Op("delay", token.of))) ELSE Write(d, Op("delay", token.of))

TakeToken(d, token) ==
    CASE token.is = "tap"     -> StartTap(FlushPastTap(d), token.of[1])
      [] token.is = "down"    -> StartDown(FlushPastTap(d), token.of[1])
      [] token.is = "up"      -> TakeUp(d, token.of[1])
      [] token.is = "protect" -> [d EXCEPT !.protection = token.of[1]]
      [] token.is \in {"end", "char", "delay"} -> TakeOther(Flush(d), token)

Take(d, token) == IF d.state = "reads" THEN TakeToken(Pass(Mark(d), token), token) ELSE d

\* A window is the rest of the macro or, where it may only have run out of room,
\* what came before its last clean point, with the cursor of the next.
Close(d, cursor) ==
    CASE d.state = "done" -> [plays |-> TRUE, more |-> FALSE, ir |-> d.ir, cursor |-> cursor]
      [] d.state # "done" /\ d.clean.ir # <<>> /\ IrLength(d.ir) + SpanMax > IrMax ->
            [plays |-> TRUE, more |-> TRUE, ir |-> d.clean.ir,
             cursor |-> [offset |-> d.clean.offset, protection |-> d.protection,
                         balance |-> d.clean.balance]]
      [] OTHER -> [plays |-> FALSE, more |-> FALSE, ir |-> <<>>, cursor |-> cursor]

Window(bytes, cursor) ==
    Close(FoldLeft(Take, Decoder(cursor), TokensFrom(bytes, cursor.offset)), cursor)

\* macro_slot_provider: every window decodes before the first one plays.
Windows(bytes) ==
    LET Load(s, i) ==
            IF s.more
            THEN [Window(bytes, s.cursor) EXCEPT !.plays = s.plays /\ @, !.ir = s.ir \o @]
            ELSE s
    IN  FoldLeftDomain(Load, [plays |-> TRUE, more |-> TRUE, ir |-> <<>>, cursor |-> Cursor0], bytes)

(* ---- what must hold -------------------------------------------------------------- *)

\* What the keyboard does for an operation, one edge, character or wait each.
Edge(what, of) == [what |-> what, of |-> of]
Edges(o) ==
    CASE o.op = "text" -> [i \in DOMAIN o.of |-> Edge("char", <<o.of[i]>>)]
      [] o.op = "tap"  -> [i \in DOMAIN o.of |-> Edge("down", <<o.of[i]>>)]
                            \o [i \in DOMAIN o.of |-> Edge("up", <<Reverse(o.of)[i]>>)]
      [] o.op = "unicode" -> <<Edge("char", Utf8(o.of[1]))>>
      [] OTHER         -> <<Edge(o.op, o.of)>>
Performs(ir) == FlattenSeq([i \in DOMAIN ir |-> Edges(ir[i])])

\* What a macro's bytes ask for, token by token.
Asks(bytes) ==
    LET t == TokensFrom(bytes, 1)
    IN  FlattenSeq([i \in DOMAIN t |->
            CASE t[i].is \in {"end", "protect"} -> <<>>
              [] t[i].is = "tap" -> <<Edge("down", t[i].of), Edge("up", t[i].of)>>
              [] OTHER -> <<Edge(t[i].is, t[i].of)>>])

\* Every key goes down once, up while it is down, fewer than TapKeys at a time.
Holds(bytes) ==
    LET Hold(s, t) ==
            CASE t.is = "down" -> [held |-> s.held \cup {t.of[1]},
                                   ok   |-> s.ok /\ t.of[1] \notin s.held /\ Cardinality(s.held) + 1 < TapKeys]
              [] t.is = "up"   -> [held |-> s.held \ {t.of[1]}, ok |-> s.ok /\ t.of[1] \in s.held]
              [] OTHER         -> s
    IN  FoldLeft(Hold, [held |-> {}, ok |-> TRUE], TokensFrom(bytes, 1)) = [held |-> {}, ok |-> TRUE]

\* A macro that decodes plays what its bytes ask for, over however many windows,
\* and one whose keys balance decodes.
PlaysAsAsked(bytes) ==
    \E w \in {Windows(bytes)} :
        /\ w.plays => Performs(w.ir) = Asks(bytes)
        /\ Holds(bytes) => w.plays

\* A text's program, encoded, asks for what the text says.
Says(script) ==
    FlattenSeq([i \in DOMAIN script |->
        IF script[i].is = "char" THEN <<Edge("char", script[i].of)>> ELSE Edges(Command(script[i]))])
====
