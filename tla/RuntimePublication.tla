--------------------------- MODULE RuntimePublication ---------------------------
(***************************************************************************)
(* How one thread publishes state another renders, without a lock          *)
(* (runtime_publication.h).  The split worker thread stores a packet field *)
(* by field; the main loop copies it field by field, and either may run    *)
(* between any two of the other's fields.                                  *)
(*                                                                         *)
(* A "group" is stored in place while its generation is odd; a "slot" is   *)
(* one of two copies, the one the generation does not select.  A packet is *)
(* a value and a field holds the packet it was stored from, so a mixed     *)
(* copy is one whose fields differ.                                        *)
(***************************************************************************)
EXTENDS Integers

CONSTANTS
    Packets, Fields,
    Gens,      \* values of a generation: 256
    Attempts,  \* NOAH_RUNTIME_PUBLICATION_READ_ATTEMPTS
    During,    \* bound: publications of a shape that meet one copy of it
    Empty,     \* what is there before the first publication
    None

Shapes == {"group", "slot"}
Places == {"group", "even", "odd"}
Contents == [Fields -> Packets]

\* A copy takes microseconds and publications are milliseconds apart; what
\* the code needs of that is that a generation does not come round within a
\* copy, and that no second publication reaches the slot being copied.
ASSUME PublicationAssumption ==
    /\ Empty \in Packets
    /\ Gens \in Nat /\ Gens > 0 /\ Gens % 2 = 0
    /\ Attempts \in Nat \ {0}
    /\ During \in [Shapes -> Nat]
    /\ 2 * During["group"] < Gens /\ During["slot"] < 2
    /\ \A s \in Shapes, p \in Packets, fs \in SUBSET Fields :
          [shape |-> s, packet |-> p, left |-> fs] # None

VARIABLES
    gen,      \* per shape: its generation
    store,    \* per place: the fields as they are in memory
    writer,   \* the publication in progress: shape, packet, fields left
    reader,   \* the read in progress
    copy,     \* per shape: what the renderer last got
    current,  \* ghost, per shape: the packet last published
    met       \* ghost: publications that met this attempt's copy

sharedVars == <<gen, store, writer, reader, copy, current, met>>

\* phase: "idle", "observe" or "copy"; `then' is a ghost, the packet that was
\* current when the generation was observed.
ReadType == [phase : {"idle", "observe", "copy"}, shape : Shapes, tries : 0 .. Attempts,
             observed : 0 .. Gens - 1, left : SUBSET Fields, staged : Contents,
             then : Packets]
Writes == [shape : Shapes, packet : Packets, left : SUBSET Fields]

Whole(p) == [f \in Fields |-> p]

NoRead == [phase |-> "idle", shape |-> "group", tries |-> 0, observed |-> 0,
           left |-> {}, staged |-> Whole(Empty), then |-> Empty]

Advance(g) == IF g + 1 = Gens THEN 0 ELSE g + 1

\* noah_runtime_publication_in_flight
InFlight(g) == g % 2 = 1

\* noah_runtime_publication_slot, and where a group is
Place(s, g) == IF s = "group" THEN "group" ELSE IF g % 2 = 0 THEN "even" ELSE "odd"

Copying(s) == reader.phase = "copy" /\ reader.shape = s

-----------------------------------------------------------------------------
(* The split worker.                                                       *)

\* An RPC handler starts to publish p.  A group's generation turns odd; a
\* slot is the one not selected.
Begin(s, p) ==
    /\ writer = None
    /\ Copying(s) => met < During[s]
    /\ writer' = [shape |-> s, packet |-> p, left |-> Fields]
    /\ gen' = IF s = "group" THEN [gen EXCEPT ![s] = Advance(@)] ELSE gen
    /\ met' = IF Copying(s) THEN met + 1 ELSE met
    /\ UNCHANGED <<store, reader, copy, current>>

\* Mutant: the slot stored to is the one readers copy.
TargetSelected == Place(writer.shape, gen[writer.shape])

Target == Place(writer.shape, Advance(gen[writer.shape]))

Store(f) ==
    /\ writer # None
    /\ f \in writer.left
    /\ store' = [store EXCEPT ![Target][f] = writer.packet]
    /\ writer' = [writer EXCEPT !.left = @ \ {f}]
    /\ UNCHANGED <<gen, reader, copy, current, met>>

\* Mutant: a group's generation is not advanced again.
EndSlotsOnly ==
    /\ writer # None
    /\ writer.left = {}
    /\ gen' = IF writer.shape = "slot" THEN [gen EXCEPT !["slot"] = Advance(@)] ELSE gen
    /\ current' = [current EXCEPT ![writer.shape] = writer.packet]
    /\ writer' = None
    /\ UNCHANGED <<store, reader, copy, met>>

\* noah_runtime_publication_end and _publish
End ==
    /\ writer # None
    /\ writer.left = {}
    /\ gen' = [gen EXCEPT ![writer.shape] = Advance(@)]
    /\ current' = [current EXCEPT ![writer.shape] = writer.packet]
    /\ writer' = None
    /\ UNCHANGED <<store, reader, copy, met>>

-----------------------------------------------------------------------------
(* The renderer.                                                           *)

ReadBegin(s) ==
    /\ reader.phase = "idle"
    /\ reader' = [NoRead EXCEPT !.phase = "observe", !.shape = s]
    /\ UNCHANGED <<gen, store, writer, copy, current, met>>

\* An attempt: skipped while a group is in flight.
Observe ==
    /\ reader.phase = "observe" /\ reader.tries < Attempts
    /\ LET s == reader.shape
       IN  IF s = "group" /\ InFlight(gen[s])
           THEN /\ reader' = [reader EXCEPT !.tries = @ + 1]
                /\ met' = met
           ELSE /\ reader' = [reader EXCEPT !.phase = "copy", !.observed = gen[s],
                                            !.left = Fields, !.then = current[s]]
                /\ met' = IF writer # None /\ writer.shape = s THEN 1 ELSE 0
    /\ UNCHANGED <<gen, store, writer, copy, current>>

Copy(f) ==
    /\ reader.phase = "copy"
    /\ f \in reader.left
    /\ reader' = [reader EXCEPT !.left = @ \ {f},
                                !.staged[f] = store[Place(reader.shape, reader.observed)][f]]
    /\ UNCHANGED <<gen, store, writer, copy, current, met>>

\* Mutant: the generation is not looked at again.
SettledAlways == TRUE

\* noah_runtime_publication_settled
Settled == gen[reader.shape] = reader.observed

CommitCopy == copy' = [copy EXCEPT ![reader.shape] = reader.staged]

NextTry == reader.tries + 1

Check ==
    /\ reader.phase = "copy" /\ reader.left = {}
    /\ IF Settled
       THEN CommitCopy /\ reader' = NoRead
       ELSE copy' = copy /\ reader' = [reader EXCEPT !.phase = "observe", !.tries = NextTry]
    /\ met' = 0
    /\ UNCHANGED <<gen, store, writer, current>>

\* Out of attempts: a group's reader keeps what it had, a slot's takes the
\* last copy it made, settled or not.
GiveUp ==
    /\ reader.phase = "observe" /\ reader.tries = Attempts
    /\ IF reader.shape = "group" THEN copy' = copy ELSE CommitCopy
    /\ reader' = NoRead
    /\ UNCHANGED <<gen, store, writer, current, met>>

-----------------------------------------------------------------------------
PublicationInit ==
    /\ gen = [s \in Shapes |-> 0]
    /\ store = [c \in Places |-> Whole(Empty)]
    /\ writer = None
    /\ reader = NoRead
    /\ copy = [s \in Shapes |-> Whole(Empty)]
    /\ current = [s \in Shapes |-> Empty]
    /\ met = 0

Publishing == End \/ \E f \in Fields : Store(f)
Read == Observe \/ Check \/ GiveUp \/ \E f \in Fields : Copy(f)

PublicationNext ==
    \/ \E s \in Shapes, p \in Packets : Begin(s, p)
    \/ Publishing
    \/ \E s \in Shapes : ReadBegin(s)
    \/ Read

PublicationSpec == PublicationInit /\ [][PublicationNext]_sharedVars

\* The worker runs a handler to its end, the main loop goes on, and every
\* frame reads each shape in turn.  Nobody has to publish.
FairSpec ==
    /\ PublicationSpec
    /\ WF_sharedVars(Publishing) /\ WF_sharedVars(Read)
    /\ \A s \in Shapes : SF_sharedVars(ReadBegin(s))

-----------------------------------------------------------------------------
\* The types of the variables.
TypeOK ==
    /\ gen \in [Shapes -> 0 .. Gens - 1]
    /\ store \in [Places -> Contents]
    /\ writer \in Writes \cup {None}
    /\ reader \in ReadType
    /\ copy \in [Shapes -> Contents]
    /\ current \in [Shapes -> Packets]
    /\ met \in Nat

\* What a reader commits is one packet and no mixture, and the one that was
\* current when its last attempt began, so reads never go back in time.
CopyWasCurrent ==
    [][\A s \in Shapes : copy'[s] # copy[s] => s = reader.shape /\ copy'[s] = Whole(reader.then)]_sharedVars

\* Once publications stop, what was published last is shown in the end.
LatestIsShown ==
    \A s \in Shapes, p \in Packets :
        <>[](writer = None /\ current[s] = p) => <>[](copy[s] = Whole(p))
=============================================================================
