---- MODULE ProfileValidator ----
(* The check that stands between bytes from a host, the other half or the     *)
(* flash and a profile in use (profile_validator_v1.c): one step at a time    *)
(* over a payload of any length, whose cells are chosen when they are read.   *)
(* A payload is either arbitrary or what this firmware's own encoders write   *)
(* (`written`): a build's compiled defaults or an edited table encoded again. *)
(* The step of each domain is its module's; this one keeps the payload, the   *)
(* check's state v and the first reference that names nothing, checks the     *)
(* keymap, and refuses a finished domain with such a reference.               *)
EXTENDS Integers, FiniteSets, SequencesExt, TLC

CONSTANTS
    Kinds,           \* the domains checked, and "profile" for a whole profile
    Longest,         \* for each of them, the longest payload tried
    \* what encoders are given: behaviour tables, combos, settings of a build,
    \* pointing slots, lights, the domains of a profile
    BehaviorTables, ComboLists, SettingsBuilds, SlotTables, LightTables, DomainLists,
    Declarations,    \* what a profile may come with
    Targets, Misplaced, MaxBehaviorRows, MaxSteps, TapSteps,
    Native, MaxCombos, MinInputs, MaxInputs, InputsPerStep,
    Layers, Positions, KeyKinds, KeyCount, NameCount, NameMax,
    SlotCount, LinkLayers,
    MacroSlots, BankMax, StepRead, Alphabet,
    Compiled, Modes, TapColors, MaxGroups, MaxStageRows, Bitmaps,
    Ids, Behaviors, Allowed, Required, MaxBlob, ChunkMax,
    KeysPerStep,     \* keycodes of a keymap one step reads
    ToggleKeys, ToggleTaps, HandledKeys,
    ProgramMax, Scripts, ProgramBytes,   \* macros alone: their length, texts and bytes tried
    TapKeys, IrMax, SpanMax, TextMax, DelayMax

ASSUME ValidatorAssumption ==
    /\ Targets \subseteq Nat \ {0} /\ Misplaced \subseteq Targets
    /\ 0 \notin DOMAIN Native /\ DOMAIN KeyKinds \cap {"none", "bad"} = {}
    /\ {MaxSteps, TapSteps, MinInputs, MaxInputs, InputsPerStep, Layers, Positions, KeyCount,
        NameCount, NameMax, SlotCount, MacroSlots, BankMax, StepRead, ChunkMax, KeysPerStep}
          \subseteq Nat \ {0}
    /\ Alphabet \subseteq 0 .. 255 /\ Modes \subseteq Nat /\ Bitmaps \subseteq Nat \ {0}
    /\ Compiled \subseteq {"layer", "automouse", "mode", "combo", "key"}
    /\ Ids \subseteq Nat \ {0} /\ Behaviors \in Ids
    /\ ToggleKeys \cup HandledKeys \subseteq Targets /\ ToggleTaps \in 1 .. TapSteps
    /\ {ProgramMax, TapKeys, IrMax, SpanMax, TextMax, DelayMax} \subseteq Nat \ {0} /\ SpanMax < IrMax
    /\ Required \subseteq Allowed /\ Allowed \subseteq Ids

VARIABLES
    kind,      \* what is checked
    written,   \* whether an encoder of this firmware wrote it
    bytes,     \* its cells, those read so far or all of a written one
    v,         \* the check
    reference  \* where the first wrong reference of the key behaviours is

vars == <<kind, written, bytes, v, reference>>

Rows  == INSTANCE BehaviorRows WITH MaxRows <- MaxBehaviorRows
Chords == INSTANCE ComboRows WITH MaxRows <- MaxCombos
Settings == INSTANCE SettingsDomain
Pointing == INSTANCE PointingSlots
Bank  == INSTANCE MacroBank WITH Slots <- MacroSlots
Lights == INSTANCE RgbDomain WITH MaxRows <- MaxStageRows
Macro == INSTANCE MacroProgram
Single == INSTANCE MacroBank WITH Slots <- 1, BankMax <- ProgramMax, StepRead <- ProgramMax
Blob  == INSTANCE ProfileBlob

NoReference == -1
Length == Cardinality(DOMAIN bytes)

(* ---- the keymap: a keycode for each position of each layer ------------------ *)

KeymapLength == Layers * Positions
BeginKeymap(length) == [phase |-> "keymap", length |-> length, offset |-> 0]
KeymapReads ==
    IF v.length # KeymapLength THEN {}
    ELSE {o \in v.offset .. v.offset + KeysPerStep - 1 : o < v.length}

(* ---- the payloads --------------------------------------------------------------- *)

\* noah_profile_validator_v1_begin_domain, and begin or begin_structure for a
\* whole profile: bytes nobody wrote.
BeginDomain(k, length) ==
    CASE k = "behaviors" -> Rows!Begin(length)
      [] k = "combos"    -> Chords!Begin(length)
      [] k = "settings"  -> Settings!Begin(length)
      [] k = "pointing"  -> Pointing!Begin(length)
      [] k = "macros"    -> Bank!Begin(length)
      [] k = "macro"     -> Single!Begin(length)
      [] k = "rgb"       -> Lights!Begin(length)
      [] k = "keymap"    -> BeginKeymap(length)

InitArbitrary ==
    /\ kind # "macro" /\ written = FALSE /\ bytes = <<>>
    /\ \E length \in 0 .. Longest[kind] :
          IF kind = "profile"
          THEN \E mode \in {Blob!Whole, Blob!Structure}, d \in Declarations :
                  /\ mode = Blob!Structure => d.mask = {}
                  /\ v = Blob!Begin(mode, length, d)
          ELSE v = BeginDomain(kind, length)

DomainsWritten == {id \in Ids : Blob!FindDomain(bytes, Length, id) # {}}

BanksWritten == Bank!Banks(BankMax)

\* macro_payload_encode: a text, and its program with the zero that ends a macro.
Programs ==
    UNION {{[script |-> script, bytes |-> Macro!EncodeIr(protection, ir) \o <<0>>] :
               protection \in 0 .. 2, ir \in Macro!Compile(script)} : script \in Scripts}

\* What the encoders write, and a profile with a declaration to match.
InitWritten ==
    /\ written = TRUE
    /\ \/ /\ kind = "behaviors"
          /\ \E table \in BehaviorTables : Rows!Encodable(table) /\ bytes = Rows!Encode(table)
       \/ /\ kind = "combos"
          /\ \E list \in ComboLists :
                /\ Chords!Encodable(list) /\ bytes = Chords!Encode(list)
                /\ \A i \in DOMAIN list :
                      /\ Chords!DecodeRow(list[i].output, list[i].inputs)
                      /\ Chords!NativesValid(list[i].output, list[i].inputs)
       \/ /\ kind = "settings"
          /\ \E build \in SettingsBuilds : \E cursor \in Settings!Cursors(build.names) :
                bytes = [o \in 0 .. Settings!DefaultsLength(build.names) - 1 |->
                            Settings!DefaultsByte(build, o, cursor)]
       \/ /\ kind = "pointing"
          /\ \E slots \in SlotTables : Pointing!Encodable(slots) /\ bytes = Pointing!Encode(slots)
       \/ kind = "macros" /\ \E bank \in BanksWritten : bytes = Bank!Payload(bank)
       \/ /\ kind = "macro"
          /\ \E program \in Programs : bytes = Single!Payload(program.bytes)
       \/ /\ kind = "rgb"
          /\ \E lights \in LightTables : Lights!Encodable(lights) /\ bytes = Lights!Encode(lights)
       \/ kind = "keymap" /\ bytes = [o \in 0 .. KeymapLength - 1 |-> [placed |-> TRUE]]
       \/ /\ kind = "profile"
          /\ \E domains \in DomainLists :
                /\ Blob!Encodable(domains)
                /\ \/ bytes = Blob!BlobEncode(domains)
                   \/ \E piece \in 1 .. ChunkMax + 1 : bytes = Blob!CompiledBytes(domains, piece)
    /\ IF kind = "profile"
       THEN \E mode \in {Blob!Whole, Blob!Structure}, d \in Declarations :
               /\ d.fits /\ d.matches
               /\ d.mask = IF mode = Blob!Structure THEN {} ELSE DomainsWritten
               /\ v = Blob!Begin(mode, Length, d)
       ELSE v = BeginDomain(kind, Length)

\* A macro of a host's making.
InitMacro ==
    /\ kind = "macro" /\ written = FALSE
    /\ \E body \in ProgramBytes : bytes = Single!Payload(body)
    /\ v = Single!Begin(Length)

Init == kind \in Kinds /\ reference = NoReference /\ (InitArbitrary \/ InitMacro \/ InitWritten)

(* ---- the steps ------------------------------------------------------------------- *)

Over == v.phase \in {"rejected", "valid"}

\* The cells that are read for the first time hold what this payload holds.
Reading(reads, cells) ==
    /\ ~Over
    /\ \E more \in [reads \ DOMAIN bytes -> cells] : bytes' = bytes @@ more
    /\ UNCHANGED <<kind, written>>

\* validate_key_behaviors: a step keeps the first reference that names nothing,
\* and with one the finished domain is refused.
ValidateKeyBehaviors ==
    /\ kind = "behaviors"
    /\ Reading(Rows!Reads(v), Rows!Cells(v))
    /\ \E w \in {Rows!Takes(v, bytes')} :
          /\ reference' = IF \/ reference # NoReference \/ w.event = NoReference
                             \/ Rows!EventFits(w.event, bytes')
                          THEN reference ELSE w.event
          /\ v' = IF w.phase = "valid" /\ reference' # NoReference THEN Rows!Reject(w) ELSE w

ValidateCombos ==
    /\ kind = "combos"
    /\ Reading(Chords!Reads(v), Chords!Cells(v))
    /\ v' = Chords!Takes(v, bytes')
    /\ UNCHANGED reference

ValidateSettings ==
    /\ kind = "settings"
    /\ Reading(Settings!Reads(v), Settings!Cells(v))
    /\ v' = Settings!Takes(v, bytes')
    /\ UNCHANGED reference

ValidatePd ==
    /\ kind = "pointing"
    /\ Reading(Pointing!Reads(v), Pointing!Cells(v))
    /\ v' = Pointing!Takes(v, bytes')
    /\ UNCHANGED reference

ValidateMacros ==
    /\ kind = "macros"
    /\ Reading(Bank!Reads(v), Bank!Cells)
    /\ v' = Bank!Takes(v, bytes')
    /\ UNCHANGED reference

ValidateMacro ==
    /\ kind = "macro"
    /\ Reading(Single!Reads(v), Single!Cells)
    /\ v' = Single!Takes(v, bytes')
    /\ UNCHANGED reference

ValidateRgb ==
    /\ kind = "rgb"
    /\ Reading(Lights!Reads(v), Lights!Cells(v))
    /\ v' = Lights!Takes(v, bytes')
    /\ UNCHANGED reference

ValidateKeymap ==
    /\ kind = "keymap"
    /\ Reading(KeymapReads, [placed : BOOLEAN])
    /\ LET offset == v.offset + Cardinality(KeymapReads)
       IN  v' = IF v.length # KeymapLength \/ \E o \in KeymapReads : ~bytes'[o].placed
                THEN [v EXCEPT !.phase = "rejected"]
                ELSE [v EXCEPT !.offset = offset,
                               !.phase  = IF offset < v.length THEN "keymap" ELSE "valid"]
    /\ UNCHANGED reference

ValidateProfile ==
    /\ kind = "profile"
    /\ Reading(Blob!Parses(v), Blob!Cells(v))
    /\ v' = Blob!Takes(v, bytes')
    /\ UNCHANGED reference

Next ==
    \/ ValidateRgb \/ ValidateKeyBehaviors \/ ValidateCombos \/ ValidateSettings
    \/ ValidatePd \/ ValidateKeymap \/ ValidateMacros \/ ValidateMacro
    \/ ValidateProfile

Spec == Init /\ [][Next]_vars

(* ---- properties -------------------------------------------------------------------- *)

\* A payload is accepted only if the lookups of its domain read from it a table
\* the encoder would write as these very bytes, with nothing in it this build
\* lacks: no payload has two meanings, and none leaves a lookup outside it.
AcceptsOnlyWhatIsWritten ==
    v.phase = "valid" =>
        /\ DOMAIN bytes = 0 .. v.length - 1
        /\ CASE kind = "behaviors" ->
                  Rows!RowsReadBack(bytes) /\ \A o \in DOMAIN bytes : Rows!EventFits(o, bytes)
             [] kind = "combos"   -> Chords!RowsReadBack(bytes)
             [] kind = "settings" -> Settings!SettingsRead(bytes)
             [] kind = "pointing" -> Pointing!SlotsReadBack(bytes)
             [] kind = "macros"   -> [i \in 1 .. v.length |-> bytes[i - 1]] \in BanksWritten
             [] kind = "macro"    -> Single!Complete(v)
             [] kind = "rgb"      -> Lights!LightsReadBack(bytes)
             [] kind = "keymap"   -> v.length = KeymapLength /\ \A o \in DOMAIN bytes : bytes[o].placed
             [] kind = "profile"  -> Blob!DomainsReadBack(bytes, v)

\* What this firmware's own encoders write, its compiled defaults among it, is
\* never refused, unless it names what this build lacks.
RefusesNothingWritten ==
    /\ written /\ v.phase = "rejected"
    => CASE kind = "behaviors" -> \E o \in DOMAIN bytes : ~Rows!EventFits(o, bytes)
         [] kind = "profile"   ->
              \/ \E o \in DOMAIN bytes : "fits" \in DOMAIN bytes[o]
                                            /\ ~(bytes[o].fits /\ bytes[o].refers)
              \/ ~(Required \subseteq DomainsWritten) \/ ~(DomainsWritten \subseteq Allowed)
         [] OTHER              -> FALSE

\* No step reads behind the end of the payload it was given, whatever lengths
\* and counts the payload claims.
ReadsStayInside ==
    LET reads == CASE kind = "behaviors" -> Rows!Reads(v)
                   [] kind = "combos"    -> Chords!Reads(v)
                   [] kind = "settings"  -> Settings!Reads(v)
                   [] kind = "pointing"  -> Pointing!Reads(v)
                   [] kind = "macros"    -> Bank!Reads(v)
                   [] kind = "macro"     -> Single!Reads(v)
                   [] kind = "rgb"       -> Lights!Reads(v)
                   [] kind = "keymap"    -> KeymapReads
                   [] kind = "profile"   -> Blob!Reads(v)
    IN  Over \/ reads \subseteq 0 .. v.length - 1

\* The check draws the line the encoders and the lookups draw: it accepts what
\* reads back as written, nothing this firmware writes is refused, and no byte
\* behind the payload has a say in it.
AcceptsExactlyWhatIsWritten ==
    AcceptsOnlyWhatIsWritten /\ RefusesNothingWritten /\ ReadsStayInside

\* Every macro of a bank starts for the player, which only counts zero bytes,
\* where the check saw it start, and plays what its bytes ask for.
ServesMacros(bank) ==
    \A slot \in 0 .. MacroSlots - 1 :
        /\ Bank!FindSlot(bank, slot) = {Bank!StartOf(bank, slot)}
        /\ Macro!PlaysAsAsked(Bank!From(bank, Bank!StartOf(bank, slot)))

\* A single macro does too, and one compiled from a text does what the text says.
ServesMacro(body) ==
    /\ Macro!PlaysAsAsked(body)
    /\ written => \A program \in Programs :
                     program.bytes = body => Macro!Asks(body) = Macro!Says(program.script)

\* What was accepted is what the keyboard then does: a profile's rows answer
\* every key as the build's own table with the same rows would, its lights'
\* stages get the rows written for them, its combos all run, and its macros
\* play their bytes.
ServedAsWritten ==
    v.phase = "valid" =>
        CASE kind = "behaviors" -> Rows!ServesRows(bytes)
          [] kind = "combos"    -> Chords!ServesCombos(bytes)
          [] kind = "macros"    -> ServesMacros(bytes)
          [] kind = "macro"     -> ServesMacro(Single!From(bytes, 0))
          [] kind = "rgb"       -> Lights!ServesLights(bytes)
          [] OTHER              -> TRUE
====
