---- MODULE ProfileBlob ----
(* The envelope of a profile: a header with the number of domains, then for   *)
(* each its header and its payload (profile_blob_v1.c); the encoder that      *)
(* writes one, the search for a domain, and the walk of the validator over a  *)
(* whole profile or its structure alone (profile_validator_v1.c).  Cells:     *)
(*   the header           [count], anything a header may not say is a count   *)
(*                        past the registry                                   *)
(*   a domain's header    [id, length], an unknown version an unknown id      *)
(*   a cell of a payload  [fits, refers]: whether the domain's own check      *)
(*                        takes it, and what it names is of this build        *)
(* The checks of the domains themselves are modules of their own; here every  *)
(* one reads a cell a step, and only the key behaviours go on behind a wrong  *)
(* reference.                                                                 *)
EXTENDS Integers, FiniteSets, SequencesExt

CONSTANTS
    Ids,         \* the ids of the registry
    Behaviors,   \* that of the key behaviours
    Allowed,     \* the domains of this build, its compatibility masks
    Required,
    MaxBlob,     \* compatibility->max_blob_size
    ChunkMax     \* NOAH_PROFILE_VALIDATOR_V1_CHECKSUM_CHUNK_MAX

Unknown == 0
NoId == 0
HeaderSize == 1
Whole == "whole"
Structure == "structure"

(* ---- the encoder: domains are [id, payload] in any order --------------------- *)

BlobLength(domains) ==
    HeaderSize + FoldSeq(LAMBDA d, sum : sum + 1 + Len(d.payload), 0, domains)

Encodable(domains) ==
    /\ \A i, j \in DOMAIN domains : domains[i].id = domains[j].id => i = j
    /\ \A i \in DOMAIN domains : domains[i].id \in Ids
    /\ BlobLength(domains) <= MaxBlob

\* noah_profile_blob_v1_encode: the domains in the order of the registry.
BlobEncode(domains) ==
    LET order == SortSeq(domains, LAMBDA d, e : d.id < e.id)
        parts == [i \in DOMAIN order |->
                     <<[id |-> order[i].id, length |-> Len(order[i].payload)]>> \o order[i].payload]
        cells == <<[count |-> Len(domains)]>> \o FlattenSeq(parts)
    IN  [o \in 0 .. Len(cells) - 1 |-> cells[o + 1]]

(* ---- a build's own profile, which is never held whole -------------------------- *)
(* Every read of it writes the build's domains again, from the one the range   *)
(* starts in, and keeps what lies in the range (profile_compiled_defaults_v1.c).*)

\* layout: the domains in the order of the registry, each where its payload is.
Layout(domains) ==
    LET order == SortSeq(domains, LAMBDA d, e : d.id < e.id)
    IN  [i \in DOMAIN order |->
            [id |-> order[i].id, payload |-> order[i].payload,
             start |-> BlobLength(SubSeq(order, 1, i - 1)) + 1]]

\* A chunk gives what of it lies in the range; one that reaches the end of the
\* range stops the writer.
RangeWrite(sink, cells) ==
    LET next == sink.at + Len(cells)
        from == IF sink.at > sink.start THEN sink.at ELSE sink.start
        to   == IF next < sink.end THEN next ELSE sink.end
    IN  IF sink.stopped THEN sink
        ELSE [sink EXCEPT !.at = next, !.stopped = next >= sink.end,
                          !.copied = @ \o SubSeq(cells, from - sink.at + 1, to - sink.at)]

\* The domains that do not meet the range are passed over, and a header that
\* ends before it is not written.
RangeDomain(sink, d) ==
    LET size   == Len(d.payload)
        header == <<[id |-> d.id, length |-> size]>>
        begun  == [sink EXCEPT !.at = d.start - 1]
        headed == IF sink.start < d.start THEN RangeWrite(begun, header) ELSE begun
    IN  IF sink.start >= d.start + size \/ sink.end <= d.start - 1 \/ sink.stopped THEN sink
        ELSE RangeWrite([headed EXCEPT !.at = d.start], d.payload)

CompiledRead(domains, offset, length) ==
    LET sink   == [start |-> offset, end |-> offset + length, at |-> 0, copied |-> <<>>,
                   stopped |-> FALSE]
        headed == IF offset < HeaderSize THEN RangeWrite(sink, <<[count |-> Len(domains)]>>)
                  ELSE sink
    IN  FoldLeft(RangeDomain, headed, Layout(domains)).copied

\* The profile a reader gets that reads so many cells at a time; a read that
\* does not give all it was asked for fails, as a cell no step takes.
Unreadable == [count |-> Cardinality(Ids) + 1, id |-> Unknown, length |-> 0, fits |-> FALSE, refers |-> FALSE]
CompiledBytes(domains, piece) ==
    LET length   == BlobLength(domains)
        from(o)  == (o \div piece) * piece
        size(o)  == IF length - from(o) < piece THEN length - from(o) ELSE piece
        read     == [o \in 0 .. length - 1 |-> CompiledRead(domains, from(o), size(o))]
    IN  [o \in 0 .. length - 1 |->
            IF Len(read[o]) = size(o) THEN read[o][o - from(o) + 1] ELSE Unreadable]

(* ---- the walk over the domains: [offset, byte_length, count, index, prior_id] -- *)

EnvelopeBegin(length, cell) ==
    [begun |-> length >= HeaderSize /\ cell.count <= Cardinality(Ids),
     offset |-> HeaderSize, byte_length |-> length, count |-> cell.count,
     index |-> 0, prior_id |-> NoId, mask |-> {}]

\* Mutant: a payload that ends the profile does not fit.
NextFitsLess(walk, cell) ==
    /\ cell.id \in Ids /\ cell.id > walk.prior_id
    /\ cell.length < walk.byte_length - walk.offset - 1

\* A header the walk may step over: known, behind the one before it, and its
\* payload within what is left.
NextFits(walk, cell) ==
    /\ cell.id \in Ids /\ cell.id > walk.prior_id
    /\ cell.length <= walk.byte_length - walk.offset - 1

EnvelopeNext(walk, cell) ==
    [walk EXCEPT !.offset = @ + 1 + cell.length, !.prior_id = cell.id,
                 !.mask = @ \cup {cell.id}, !.index = @ + 1]

EnvelopeFinish(walk) == walk.offset = walk.byte_length

\* noah_profile_blob_v1_find_domain: the offset and the length of a domain's
\* payload, or nothing if the walk fails or ends before it.
FindDomain(bytes, length, id) ==
    LET walk[n \in 0 .. Cardinality(Ids)] ==
            IF n = 0 THEN EnvelopeBegin(length, bytes[0])
            ELSE LET w == walk[n - 1]
                 IN  IF ~w.begun \/ w.index = w.count \/ w.offset >= length
                           \/ ~NextFits(w, bytes[w.offset])
                     THEN [w EXCEPT !.begun = FALSE]
                     ELSE EnvelopeNext(w, bytes[w.offset])
        at == {n \in 1 .. Cardinality(Ids) : walk[n].begun /\ walk[n].prior_id = id}
    IN  {[offset |-> walk[n - 1].offset + 1, length |-> bytes[walk[n - 1].offset].length] : n \in at}

(* ---- the validator -------------------------------------------------------------- *)

NoWalk == [begun |-> FALSE, offset |-> 0, byte_length |-> 0, count |-> 0, index |-> 0,
           prior_id |-> NoId, mask |-> {}]

\* A declaration is [mask, fits, matches]: whether its schema, flags and action
\* digest are this build's, and whether its checksums are those of the bytes.
Begin(mode, length, declaration) ==
    [phase |-> IF \/ ~declaration.fits \/ ~(declaration.mask \subseteq Allowed)
                  \/ length \notin HeaderSize .. MaxBlob
               THEN "rejected"
               ELSE IF mode = Whole THEN "checksum" ELSE "blob header",
     mode |-> mode, length |-> length, declared |-> declaration.mask,
     matches |-> declaration.matches, checksum_offset |-> 0, envelope |-> NoWalk,
     payload |-> [offset |-> 0, length |-> 0], read |-> 0, has_reference_error |-> FALSE]

Over(v) == v.phase \in {"rejected", "valid"}
Reject(v) == [v EXCEPT !.phase = "rejected"]
AllWalked(v) == v.envelope.index = v.envelope.count

\* What the next step reads, and what of it it looks into.
Reads(v) ==
    CASE v.phase = "checksum" ->
            {o \in v.checksum_offset .. v.checksum_offset + ChunkMax - 1 : o < v.length}
      [] v.phase = "blob header" -> {0}
      [] v.phase = "domain header" -> 
            {v.envelope.offset} \ (IF AllWalked(v) \/ v.envelope.offset >= v.length
                                   THEN {v.envelope.offset} ELSE {})
      [] v.phase = "domain decode" ->
            {v.payload.offset + v.read} \ (IF v.read >= v.payload.length
                                           THEN {v.payload.offset + v.read} ELSE {})
      [] OTHER -> {}
Parses(v) == IF v.phase = "checksum" THEN {} ELSE Reads(v)

ChecksumStep(v) ==
    LET w == [v EXCEPT !.checksum_offset = @ + Cardinality(Reads(v))]
    IN  IF w.checksum_offset < w.length THEN w
        ELSE IF ~w.matches THEN Reject(w)
        ELSE [w EXCEPT !.phase = "blob header"]

BlobHeaderStep(v, bytes) ==
    LET w == [v EXCEPT !.envelope = EnvelopeBegin(v.length, bytes[0])]
    IN  IF w.envelope.begun THEN [w EXCEPT !.phase = "domain header"] ELSE Reject(v)

FinishDomains(v) ==
    IF \/ ~EnvelopeFinish(v.envelope)
       \/ ~(Required \subseteq v.envelope.mask)
       \/ v.mode = Whole /\ v.envelope.mask # v.declared
       \/ v.has_reference_error
    THEN Reject(v)
    ELSE [v EXCEPT !.phase = "valid"]

DomainHeaderStep(v, bytes) ==
    LET cell == bytes[v.envelope.offset]
    IN  IF AllWalked(v) THEN FinishDomains(v)
        ELSE IF v.envelope.offset >= v.length \/ cell.id \in Ids \ Allowed
                  \/ ~NextFits(v.envelope, cell)
        THEN Reject(v)
        ELSE [v EXCEPT !.envelope = EnvelopeNext(@, cell), !.phase = "domain decode",
                       !.payload = [offset |-> v.envelope.offset + 1, length |-> cell.length],
                       !.read = 0]

DomainDecodeStep(v, bytes) ==
    LET cell == bytes[v.payload.offset + v.read]
        goes == cell.refers \/ v.envelope.prior_id = Behaviors
        w    == [v EXCEPT !.read = @ + 1, !.has_reference_error = @ \/ ~cell.refers]
    IN  IF v.payload.length = 0 \/ ~cell.fits \/ ~goes THEN Reject(v)
        ELSE IF w.read < w.payload.length THEN w
        ELSE [w EXCEPT !.phase = "domain header"]

Takes(v, bytes) ==
    CASE v.phase = "checksum"      -> ChecksumStep(v)
      [] v.phase = "blob header"   -> BlobHeaderStep(v, bytes)
      [] v.phase = "domain header" -> DomainHeaderStep(v, bytes)
      [] v.phase = "domain decode" -> DomainDecodeStep(v, bytes)

PayloadCells == [fits : BOOLEAN, refers : BOOLEAN]
Cells(v) ==
    CASE v.phase = "blob header"   -> [count : 0 .. Cardinality(Ids) + 1]
      [] v.phase = "domain header" -> [id : Ids \cup {Unknown}, length : 0 .. v.length]
      [] OTHER                     -> PayloadCells

(* ---- what must hold ------------------------------------------------------------------ *)

\* The domains the search finds are all there is: written again they are the
\* profile, it has what the build requires and nothing it does not allow, and
\* every payload passed its check.
DomainsReadBack(bytes, v) ==
    LET found    == {id \in Ids : FindDomain(bytes, v.length, id) # {}}
        at(id)   == CHOOSE r \in FindDomain(bytes, v.length, id) : TRUE
        cells(r) == [i \in 1 .. r.length |-> bytes[r.offset + i - 1]]
        domains  == SetToSeq({[id |-> id, payload |-> cells(at(id))] : id \in found})
    IN  /\ Required \subseteq found /\ found \subseteq Allowed
        /\ v.mode = Whole => found = v.declared /\ v.matches
        /\ Encodable(domains) /\ BlobEncode(domains) = bytes
        /\ \A i \in DOMAIN domains : \A c \in ToSet(domains[i].payload) : c.fits /\ c.refers
====
