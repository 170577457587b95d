---- MODULE MacroBank ----
(* The macros of a profile, every macro's bytes behind one another, each      *)
(* ended by a zero byte (profile_macros_v1.c): the check that takes a payload *)
(* a byte at a time, and the banks an encoder can write.  Bytes are bytes;    *)
(* Alphabet is the part of them the instance tries.                           *)
EXTENDS Integers, FiniteSets, SequencesExt

CONSTANTS
    Slots,      \* the macros of a bank
    BankMax,    \* NOAH_PROFILE_MACROS_V1_MAX_SIZE
    StepRead,   \* NOAH_PROFILE_VALIDATOR_V1_STEP_READ_MAX
    Alphabet

End == 0
Prefix == 1
Strokes == {1, 2, 3}
Delay == 4
Protect == 5
Levels == {1, 2}
Digits == 48 .. 57

\* How long the character is that starts with a byte, none if none does.
CharacterSize(lead) ==
    CASE lead \in 194 .. 223 -> 2
      [] lead \in 224 .. 239 -> 3
      [] lead \in 240 .. 244 -> 4
      [] OTHER               -> 0

\* Neither an overlong form, a control, a surrogate nor past the last one.
Canonical(character) ==
    LET size  == Len(character)
        first == character[1] % (IF size = 2 THEN 32 ELSE IF size = 3 THEN 16 ELSE 8)
        value == FoldLeft(LAMBDA sum, b : 64 * sum + (b % 64), first, Tail(character))
    IN  /\ \A i \in 2 .. size : character[i] \in 128 .. 191
        /\ value >= 160 /\ (size = 3 => value >= 2048) /\ (size = 4 => value >= 65536)
        /\ value \notin 55296 .. 57343 /\ value <= 1114111

(* ---- the check ------------------------------------------------------------ *)

Begin(length) ==
    [phase |-> "macros", length |-> length, offset |-> 0, macros |-> 0,
     lexeme |-> "text", position |-> 0, utf8 |-> <<>>, last_byte |-> 0]

Over(v) == v.phase \in {"rejected", "valid"}

EndsMacro(s, byte) == byte = End /\ s.lexeme \in {"text", "delay"}

\* What may follow in each place of a macro's grammar.
ByteFits(s, byte) ==
    CASE s.lexeme = "text"       -> byte < 128 \/ CharacterSize(byte) # 0
      [] s.lexeme = "utf8"       ->
            LET c == Append(s.utf8, byte)
            IN  IF Len(c) < CharacterSize(c[1]) THEN byte \in 128 .. 191 ELSE Canonical(c)
      [] s.lexeme = "code"       ->
            byte \in Strokes \cup {Delay} \/ (byte = Protect /\ s.position = 1)
      [] s.lexeme = "keycode"    -> byte # 0
      [] s.lexeme = "protection" -> byte \in Levels
      [] s.lexeme = "delay"      -> TRUE

NextLexeme(s, byte) ==
    CASE s.lexeme = "text" -> IF byte = Prefix THEN "code"
                              ELSE IF byte >= 128 THEN "utf8" ELSE "text"
      [] s.lexeme = "utf8" -> IF Len(s.utf8) + 1 < CharacterSize(s.utf8[1])
                              THEN "utf8" ELSE "text"
      [] s.lexeme = "code" -> IF byte = Delay THEN "delay"
                              ELSE IF byte = Protect THEN "protection" ELSE "keycode"
      [] s.lexeme = "delay" -> IF byte \in Digits THEN "delay" ELSE "text"
      [] OTHER             -> "text"

\* Everything behind the last macro is padding.
Consume(s, byte) ==
    LET w == [s EXCEPT !.last_byte = byte, !.offset = @ + 1]
    IN  IF s.phase = "rejected" \/ s.macros = Slots THEN w
        ELSE IF ~ByteFits(s, byte) THEN [w EXCEPT !.phase = "rejected"]
        ELSE IF EndsMacro(s, byte)
             THEN [w EXCEPT !.macros = @ + 1, !.lexeme = "text", !.position = 0, !.utf8 = <<>>]
        ELSE [w EXCEPT !.lexeme = NextLexeme(s, byte), !.position = @ + 1,
                       !.utf8 = IF NextLexeme(s, byte) = "utf8" THEN Append(@, byte) ELSE <<>>]

Complete(v) == v.macros = Slots /\ v.lexeme = "text" /\ v.position = 0 /\ v.last_byte = 0

LengthValid(length) == length > 0 /\ length <= BankMax
Reads(v) ==
    IF Over(v) \/ ~LengthValid(v.length) THEN {}
    ELSE {o \in v.offset .. v.offset + StepRead - 1 : o < v.length}
Cells == Alphabet

Takes(v, bytes) ==
    LET read == [i \in 1 .. Cardinality(Reads(v)) |-> bytes[v.offset + i - 1]]
        w    == FoldLeft(Consume, v, read)
    IN  IF ~LengthValid(v.length) THEN [v EXCEPT !.phase = "rejected"]
        ELSE IF Over(w) \/ w.offset < w.length THEN w
        ELSE [w EXCEPT !.phase = IF Complete(w) THEN "valid" ELSE "rejected"]

(* ---- finding a macro ------------------------------------------------------ *)

\* profile_macro_provider_find_slot: the bank ends with a zero byte, and a macro
\* starts behind as many of them as there are macros before it.
FindSlot(bytes, slot) ==
    LET ends == {o \in DOMAIN bytes : bytes[o] = End}
    IN  {o \in {0} \cup {e + 1 : e \in ends} :
            bytes[Cardinality(DOMAIN bytes) - 1] = End /\ Cardinality({e \in ends : e < o}) = slot}

\* Where the check finds the macro's start: the first byte it takes with that
\* many macros behind it.
StartOf(bytes, slot) ==
    LET length == Cardinality(DOMAIN bytes)
        state[o \in 0 .. length] == IF o = 0 THEN Begin(length) ELSE Consume(state[o - 1], bytes[o - 1])
        with   == {o \in 0 .. length : state[o].macros = slot}
    IN  CHOOSE o \in with : \A p \in with : o <= p

\* The bytes from a macro's start to the bank's end.
From(bytes, start) == [i \in 1 .. Cardinality(DOMAIN bytes) - start |-> bytes[start + i - 1]]

(* ---- what an encoder writes ---------------------------------------------- *)

Text == {<<b>> : b \in {a \in Alphabet : a \notin {End, Prefix} /\ a < 128}}
Characters == {c \in [1 .. 2 -> Alphabet] : CharacterSize(c[1]) = 2 /\ Canonical(c)}
Taps == {<<Prefix, stroke, key>> : stroke \in Strokes, key \in Alphabet \ {0}}
Numbers == BoundedSeq(Alphabet \cap Digits, 2)
Pauses == {<<Prefix, Delay>> \o number : number \in Numbers}
Ended == {pause \o <<b>> : pause \in Pauses, b \in Alphabet \ ({End} \cup Digits)}
Tokens == Text \cup Characters \cup Taps \cup Ended

\* The bodies of every length, text and strokes behind one another; the last
\* may be a delay that the macro's end closes, and a body may be protected.
Bodies(longest) ==
    LET of[n \in 0 .. longest] ==
            IF n = 0 THEN {<<>>}
            ELSE UNION {{t \o rest : rest \in of[n - Len(t)]} : t \in {u \in Tokens : Len(u) <= n}}
    IN  UNION {of[n] : n \in 0 .. longest}

Macros(longest) ==
    LET closed    == Bodies(longest) \cup {body \o pause : body \in Bodies(longest), pause \in Pauses}
        protected == {<<Prefix, Protect, level>> \o body : level \in Levels, body \in closed}
    IN  {m \o <<End>> : m \in {c \in closed \cup protected : Len(c) < longest}}

\* Slots macros, then padding that ends with a zero byte, longest at the most.
Banks(longest) ==
    LET full[n \in 0 .. Slots] ==
            IF n = 0 THEN {<<>>}
            ELSE {b \in {a \o m : a \in full[n - 1], m \in Macros(longest)} : Len(b) <= longest}
        padded(b) == {b} \cup {b \o pad \o <<0>> :
                                  pad \in BoundedSeq(Alphabet, longest - Len(b) - 1)}
    IN  UNION {padded(b) : b \in full[Slots]}

Payload(bank) == [o \in 0 .. Len(bank) - 1 |-> bank[o + 1]]
====
