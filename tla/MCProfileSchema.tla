---- MODULE MCProfileSchema ----
(* Instance of ProfileValidator: every domain alone with payloads a little    *)
(* longer than the smallest that shows its rows at work, and whole profiles   *)
(* of up to two domains out of three.                                         *)
EXTENDS ProfileValidator

KindsMC == {"behaviors", "combos", "settings", "pointing", "macros", "macro", "rgb",
            "keymap", "profile"}
LongestMC == [behaviors |-> 7, combos |-> 7, settings |-> 18, pointing |-> 5,
              macros |-> 5, rgb |-> 10, keymap |-> 5, profile |-> 6]

\* Two rows, one with two steps in any order, a target nothing may be on.
StepsMC ==
    LET one == [tap |-> 0, has |-> {"tap"}]
        two == [tap |-> 1, has |-> {"hold"}]
    IN  {<<>>, <<one>>, <<two>>, <<one, two>>, <<two, one>>, <<[tap |-> 0, has |-> {"tap", "long"}]>>}
TablesMC == BoundedSeq([target : Targets, steps : StepsMC], 2)

\* Actions 1 and 2 are one key, 3 none here, 4 no key and 5 a transparent one.
NativeMC == [a \in 1 .. 6 |-> CASE a \in {1, 2} -> 7 [] a = 3 -> -1 [] a = 4 -> 0 [] a = 5 -> 1 [] a = 6 -> 8]
CombosMC == BoundedSeq([output : {1, 2}, inputs : {<<1, 6>>, <<6, 1>>, <<1, 2>>}], 2)

KeyKindsMC == "up" :> "free" @@ "down" :> "free" @@ "lock" :> "lock" @@ "lockall" :> "lock"
NamesMC == {<<"plain">>, <<>>, <<"lead", "tail">>}
BuildsMC ==
    [keys : {<<"up", "lock">>, <<"none", "none">>}, layers : {{}, {1}}, kind : {"hold"},
     names : [1 .. 2 -> NamesMC]]

SlotMC(i) ==
    {[head |-> [id |-> i, kind |-> k, ends |-> e, linked |-> l], tail |-> [rest |-> r, named |-> n]] :
        k \in {"disabled", "directional"}, e \in BOOLEAN, l \in {{}, {1}},
        r \in {"zero", "fits"}, n \in BOOLEAN}
SlotTablesMC == {[i \in 0 .. 1 |-> IF i = 0 THEN a ELSE b] : a \in SlotMC(0), b \in SlotMC(1)}

RowsMC(ids) == {<<>>} \cup {<<r>> : r \in [id : ids, color : {"within"}, bitmap : {1, 2}]}
FixedMC(color) == <<[id |-> 0, color |-> color, group |-> 0]>>
ColorsMC == [i \in 1 .. Layers |-> [id |-> i - 1, color |-> "within", group |-> 0]]
LightTablesMC ==
    {[s \in {"groups", "layer_colors", "layer_groups", "automouse", "pd_colors", "pd_groups",
             "combo", "combo_groups", "tap_colors", "key_feedback", "key_groups"} |->
        CASE s = "groups" -> saved
          [] s = "layer_colors" -> ColorsMC
          [] s = "pd_colors" -> [i \in 1 .. 2 |-> [id |-> 2 * (i - 1), color |-> "within", group |-> 0]]
          [] s \in {"tap_colors", "key_feedback"} -> FixedMC("within")
          [] s \in {"automouse", "combo"} -> FixedMC("zero")
          [] s = "layer_groups" -> layer
          [] s = "pd_groups" -> <<>>
          [] s = "combo_groups" -> <<>>
          [] s = "key_groups" -> key] :
        saved \in {<<>>, <<1>>, <<2, 1>>}, layer \in RowsMC({0, -1}), key \in RowsMC({3})}

PayloadsMC == BoundedSeq([fits : {TRUE}, refers : BOOLEAN], 2) \ {<<>>}
DomainListsMC == BoundedSeq([id : Ids, payload : PayloadsMC], 2)
DeclarationsMC == [mask : {{}, {1}, {1, 2}, {2}, {3}}, fits : BOOLEAN, matches : BOOLEAN]

\* Strokes of three keys in any order with a character among them, and, in
\* shorter ones, a character of two bytes and a delay; protected or not.
StrokesMC == {<<1, 2, 4>>, <<1, 2, 5>>, <<1, 3, 4>>, <<1, 3, 5>>, <<1, 1, 5>>, <<1, 1, 6>>}
TokensMC == StrokesMC \cup {<<97>>, <<194, 160>>, <<1, 4, 48, 53, 124>>}
BodiesMC == BoundedSeq(TokensMC, 3) \cup [1 .. 4 -> TokensMC] \cup [1 .. 5 -> StrokesMC \cup {<<97>>}]
ProgramBytesMC ==
    {FlattenSeq(b) \o <<0>> : b \in BodiesMC}
        \cup {<<1, 5, 2>> \o FlattenSeq(b) \o <<0>> : b \in BoundedSeq(TokensMC, 2)}

Char(b) == [is |-> "char", of |-> b]
Do(is, of) == [is |-> is, of |-> of]
PiecesMC == {Char(<<97>>), Char(<<194, 160>>), Char(<<240, 144, 128, 128>>),
             Do("tap", <<4>>), Do("tap", <<4, 5>>), Do("tap", <<4, 5, 4, 6>>), Do("tap", <<0>>),
             Do("down", <<4>>), Do("up", <<4>>), Do("down", <<5>>), Do("up", <<5>>), Do("delay", <<75>>)}
ScriptsMC == BoundedSeq(PiecesMC, 2) \cup [1 .. 3 -> PiecesMC \ {Char(<<194, 160>>), Do("tap", <<0>>)}]
====
