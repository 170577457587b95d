---------------------------- MODULE ProfileStore ----------------------------
(***************************************************************************)
(* One half's saved profile: the dual-slot store (profile_store.c) over    *)
(* its NOR flash backend (profile_flash_store.c), paced by the durable-I/O *)
(* grant of the matrix scan (qmk_durable_io.c).                            *)
(*                                                                         *)
(* The media survive a power cut; everything else is RAM.  A page program  *)
(* or an erase may stop part way: a program leaves its page untouched,     *)
(* whole or junk whatever it reports (the RP2040 driver reports success    *)
(* always), so a power cut inside a program is that program followed by a  *)
(* power cut between two steps.  An erase is torn only when it reports     *)
(* failure or the power goes.                                              *)
(*                                                                         *)
(* Addresses are in flash pages from the slot's start: the header, the     *)
(* marker's three cells, then the payload.  Bytes are abstracted: a        *)
(* payload page holds the profile it is a page of, a checksum is equality. *)
(***************************************************************************)
EXTENDS Integers, FiniteSets

CONSTANTS
    Profiles,      \* distinguishable payloads
    Malformed,     \* those whose envelope the shape pass refuses
    Len,           \* payload pages of each profile
    MaxLen,        \* payload pages of a slot
    MaxGen,        \* the last generation (UINT32_MAX in the code)
    Bits,          \* the marker byte's bits
    PreparedBits,  \* bits still set in 0x3C
    CommitBits,    \* bits still set in 0x18
    BitTearing,    \* whether an interrupted cell may land bit by bit
    SectorPages,   \* flash pages of an erase sector
    Erased, Junk,  \* an erased page, and one that holds no whole content
    NoRecord,      \* no saved record
    IoError        \* a slot whose read failed

Slots == {"A", "B"}
NoSlot == "none"
Cells == 1 .. 3
NoPage == -1
HeaderPage == 0
PayloadPage(i) == 3 + i

Records == [gen : 1 .. MaxGen, prof : Profiles]
SavedRecords == [slot : Slots, gen : 1 .. MaxGen, prof : Profiles]

ASSUME ConstantsOK ==
    /\ Malformed \subseteq Profiles
    /\ MaxLen \in Nat \ {0}
    /\ Len \in [Profiles -> 1 .. MaxLen]
    /\ MaxGen \in Nat \ {0}
    /\ SectorPages \in Nat /\ SectorPages > PayloadPage(1)
    /\ BitTearing \in BOOLEAN

ASSUME MarkersOK ==
    /\ CommitBits \subseteq PreparedBits /\ PreparedBits \subseteq Bits
    /\ {} # CommitBits /\ CommitBits # PreparedBits /\ PreparedBits # Bits

ASSUME ContentsOK ==
    /\ Erased # Junk
    /\ {Erased, Junk} \cap (Records \cup Profiles) = {}
    /\ {NoRecord, IoError} \cap (SavedRecords \cup Records) = {}
    /\ NoRecord # IoError

VARIABLES
    hdr,        \* [Slots -> header page]
    cell,       \* [Slots -> [Cells -> bits still set]]
    page,       \* [Slots -> [payload page -> content]]
    range,      \* the slot a save took (range_active, range_start)
    erasedEnd,  \* pages erased for this save (erased_end)
    frontier,   \* pages its writes have reached
    steps,      \* marker cells used (marker_steps)
    failed,     \* an erase failed
    buf,        \* the page buffer: its page and the data waiting in it
    ops,        \* flash operations of this grant (grant_operations)
    saved,      \* the record boot selected or the last commit made
    scanned,    \* boot_scanned
    conflict,
    reconcile,  \* reconciliation_required
    active,     \* prepare_active
    reuse,      \* reuse_active
    cand,       \* the candidate: [gen, prof]
    written,    \* payload pages accepted (candidate_written)
    streamOk,   \* the accumulated checksums still match the candidate's
    phase,      \* commit_phase
    prepared,   \* prepared_durable
    auto,       \* auto_commit_prepared
    boot,       \* boot_phase
    bootA       \* boot_slot_a_result and boot_slot_a

media == <<hdr, cell, page>>
flashRam == <<range, erasedEnd, frontier, steps, failed, buf>>
prepareRam == <<active, reuse, phase, prepared, auto, reconcile>>
candRam == <<cand, written, streamOk>>
bootRam == <<saved, scanned, conflict, boot, bootA>>
vars == <<media, flashRam, ops, prepareRam, candRam, bootRam>>

Phases == {"idle", "header_write", "header_readback", "payload_readback",
           "shape", "prepared_write", "prepared_readback", "marker_write",
           "marker_readback"}
MarkerPhases == {"marker_write", "marker_readback"}

NoBuf == [at |-> NoPage, data |-> Erased]
NoCandidate == [gen |-> 0, prof |-> NoRecord]

-----------------------------------------------------------------------------
(* What a slot reads as.                                                   *)

Marker(s) == cell[s][1] \cap cell[s][2] \cap cell[s][3]

(* The header is whole and every payload page it counts is its profile's.  *)
Whole(s) ==
    /\ hdr[s] \in Records
    /\ \A i \in 1 .. Len[hdr[s].prof] : page[s][i] = hdr[s].prof

Bootable(s) ==
    Whole(s) /\ Marker(s) = CommitBits /\ hdr[s].prof \notin Malformed

RecordOf(s) == [slot |-> s, gen |-> hdr[s].gen, prof |-> hdr[s].prof]

Found(s) == IF Bootable(s) THEN RecordOf(s) ELSE NoRecord

(* boot_finish_selection, once both slots were read.                       *)
Conflicting(a, b) ==
    a # NoRecord /\ b # NoRecord /\ a.gen = b.gen /\ a.prof # b.prof

Select(a, b) ==
    IF b = NoRecord THEN a
    ELSE IF a # NoRecord /\ a.gen > b.gen THEN a
    ELSE b

(* What a boot would select from the media as they are now.                *)
Authority == Select(Found("A"), Found("B"))

-----------------------------------------------------------------------------
(* The flash backend.                                                      *)

EraseEnd == PayloadPage(Len[cand.prof]) + 1

EraseDue(headroom) ==
    /\ range # NoSlot /\ ~failed
    /\ erasedEnd < EraseEnd /\ erasedEnd < frontier + headroom

MayWrite == failed \/ ~EraseDue(1)

(* The store's step runs in a grant that has not erased or programmed yet. *)
Granted == MayWrite /\ ops = 0

(* read_flash: pages this save has still to erase read as erased.          *)
Seen(p, content) ==
    IF range # NoSlot /\ erasedEnd <= p /\ p < EraseEnd THEN Erased ELSE content

(* What a page holds after a program of d onto c, whole or part way.       *)
Landed(c, d) == {c, Junk, IF c \in {Erased, d} THEN d ELSE Junk}

(* A cell only clears bits; without BitTearing it lands whole or not.      *)
LandedBits(c, b) ==
    IF BitTearing THEN {x \in SUBSET c : (c \cap b) \subseteq x}
                  ELSE {c, c \cap b}

(* The next save's bytes reach the media; program_page at page `at`.       *)
ProgramHeader(d) ==
    /\ \E h \in Landed(hdr[range], d) : hdr' = [hdr EXCEPT ![range] = h]
    /\ UNCHANGED page

ProgramPayload(i, d) ==
    /\ \E c \in Landed(page[range][i], d) :
           page' = [page EXCEPT ![range][i] = c]
    /\ UNCHANGED hdr

ProgramCell(b) ==
    \E c \in LandedBits(cell[range][steps + 1], b) :
        cell' = [cell EXCEPT ![range][steps + 1] = c]

ProgramBuffer ==
    IF buf.at = HeaderPage THEN ProgramHeader(buf.data)
    ELSE ProgramPayload(buf.at - 3, buf.data)

(* Erase the next sector: whole, or with pages left as they were or junk.  *)
InSector(p) == erasedEnd <= p /\ p < erasedEnd + SectorPages

EraseSector(torn) ==
    LET left(c) == IF torn THEN {c, Erased, Junk} ELSE {Erased} IN
    /\ \E pages \in [1 .. MaxLen -> Profiles \cup {Erased, Junk}] :
           /\ \A i \in 1 .. MaxLen : pages[i] \in
                  IF InSector(PayloadPage(i)) THEN left(page[range][i])
                  ELSE {page[range][i]}
           /\ page' = [page EXCEPT ![range] = pages]
    /\ \E h \in IF InSector(HeaderPage) THEN left(hdr[range]) ELSE {hdr[range]} :
           hdr' = [hdr EXCEPT ![range] = h]
    /\ \E kept \in IF torn THEN SUBSET {k \in Cells : cell[range][k] # Bits}
                         ELSE {{}} :
           cell' = [cell EXCEPT ![range] = [k \in Cells |->
               IF InSector(k) /\ k \notin kept THEN Bits ELSE cell[range][k]]]

(* grant_begin: opens a grant; with the keyboard quiet and fewer than a    *)
(* sector erased ahead of the writer, it erases the next one.              *)
GrantBegin ==
    /\ ops # 0
    /\ ops' = 0
    /\ UNCHANGED <<media, flashRam, prepareRam, candRam, bootRam>>

(* Mutant: the erase waits until the writer has used all erased flash.     *)
GrantEraseLate(ok) ==
    /\ EraseDue(0)
    /\ EraseSector(~ok)
    /\ IF ok THEN erasedEnd' = erasedEnd + SectorPages /\ UNCHANGED failed
             ELSE failed' = TRUE /\ UNCHANGED erasedEnd
    /\ ops' = 1
    /\ UNCHANGED <<range, frontier, steps, buf, prepareRam, candRam, bootRam>>

GrantErase(ok) ==
    /\ EraseDue(SectorPages)
    /\ EraseSector(~ok)
    /\ IF ok THEN erasedEnd' = erasedEnd + SectorPages /\ UNCHANGED failed
             ELSE failed' = TRUE /\ UNCHANGED erasedEnd
    /\ ops' = 1
    /\ UNCHANGED <<range, frontier, steps, buf, prepareRam, candRam, bootRam>>

-----------------------------------------------------------------------------
(* Boot selection: one slot, then the other, then the decision.            *)

Settled == ~active /\ ~reuse

(* Every RAM variable at power on.                                         *)
PowerOn ==
    /\ range' = NoSlot /\ erasedEnd' = 0 /\ frontier' = 0 /\ steps' = 0
    /\ failed' = FALSE /\ buf' = NoBuf /\ ops' = 0
    /\ active' = FALSE /\ reuse' = FALSE /\ phase' = "idle"
    /\ prepared' = FALSE /\ auto' = FALSE /\ reconcile' = FALSE
    /\ cand' = NoCandidate /\ written' = 0 /\ streamOk' = TRUE
    /\ saved' = NoRecord /\ scanned' = FALSE /\ conflict' = FALSE
    /\ boot' = "idle" /\ bootA' = NoRecord

BootBegin ==
    /\ boot = "idle" /\ Settled
    /\ boot' = "slot_a"
    /\ UNCHANGED <<media, flashRam, ops, prepareRam, candRam, saved, scanned,
                   conflict, bootA>>

BootSlotA(found) ==
    /\ boot = "slot_a"
    /\ bootA' = found
    /\ boot' = "slot_b"
    /\ UNCHANGED <<media, flashRam, ops, prepareRam, candRam, saved, scanned,
                   conflict>>

BootSlotB(found) ==
    /\ boot = "slot_b"
    /\ boot' = "done"
    /\ IF IoError \in {bootA, found}
       THEN scanned' = FALSE /\ conflict' = FALSE /\ saved' = NoRecord
       ELSE /\ scanned' = TRUE
            /\ conflict' = Conflicting(bootA, found)
            /\ saved' = IF conflict' THEN NoRecord ELSE Select(bootA, found)
    /\ UNCHANGED <<media, flashRam, ops, prepareRam, candRam, bootA>>

-----------------------------------------------------------------------------
(* A save.                                                                 *)

(* Mutant: an unconfirmed marker does not block the next save.             *)
FinishPrepareForgets(durabilityUnknown) ==
    /\ UNCHANGED reconcile
    /\ active' = FALSE /\ prepared' = FALSE /\ auto' = FALSE
    /\ phase' = "idle"
    /\ reuse' \in {FALSE, reuse}

(* finish_prepare; the guard's end may refuse and keep the reservation.    *)
FinishPrepare(durabilityUnknown) ==
    /\ reconcile' = (reconcile \/ durabilityUnknown)
    /\ active' = FALSE /\ prepared' = FALSE /\ auto' = FALSE
    /\ phase' = "idle"
    /\ reuse' \in {FALSE, reuse}

(* Mutant: the save overwrites the saved record's slot.                    *)
TargetSavedSlot == IF saved # NoRecord /\ saved.slot = "B" THEN "B" ELSE "A"

TargetSlot == IF saved # NoRecord /\ saved.slot = "A" THEN "B" ELSE "A"

(* Mutant: a candidate of the saved generation is admitted.                *)
NotOlder(gen) == saved # NoRecord => gen >= saved.gen

Newer(gen) == saved # NoRecord => gen > saved.gen

(* noah_profile_store_next_generation, the host's; the last one is final.  *)
NextGenerations ==
    IF saved = NoRecord THEN {1}
    ELSE IF saved.gen = MaxGen THEN {} ELSE {saved.gen + 1}

(* A host save takes the next generation, a copy from the other half keeps *)
(* the generation it has there.                                            *)
Candidates == Records \cup [gen : NextGenerations, prof : Profiles]

(* The flash reset touches no flash.  A guard that refuses changes nothing.*)
PrepareBegin(c) ==
    /\ Granted /\ scanned /\ ~conflict /\ ~reconcile /\ ~active /\ ~reuse
    /\ Newer(c.gen)
    /\ active' = TRUE /\ reuse' = TRUE
    /\ cand' = c /\ written' = 0 /\ streamOk' = TRUE
    /\ range' = TargetSlot /\ erasedEnd' = 0 /\ frontier' = 0
    /\ steps' = 0 /\ failed' = FALSE /\ buf' = NoBuf
    /\ UNCHANGED <<media, ops, phase, prepared, auto, reconcile, bootRam>>

(* One payload page holding profile q.  A full page goes to flash at once; *)
(* the last one may wait in the buffer for the header or a sync.           *)
PayloadWrite(q, full, ok) ==
    LET i == written + 1 IN
    /\ Granted /\ active /\ phase = "idle" /\ i <= Len[cand.prof]
    /\ full \/ i = Len[cand.prof]
    /\ IF full /\ ~failed
       THEN ProgramPayload(i, q) /\ UNCHANGED cell /\ ops' = 1
       ELSE UNCHANGED <<media, ops>>
    /\ IF ok /\ ~failed
       THEN /\ buf' = IF full THEN NoBuf
                      ELSE [at |-> PayloadPage(i), data |-> q]
            /\ frontier' = PayloadPage(i) + 1
            /\ written' = i
            /\ streamOk' = (streamOk /\ q = cand.prof)
            /\ UNCHANGED prepareRam
       ELSE /\ FinishPrepare(FALSE)
            /\ UNCHANGED <<buf, frontier, written, streamOk>>
    /\ UNCHANGED <<range, erasedEnd, steps, failed, cand, bootRam>>

(* prepare_durable_begin, for both of its callers.                         *)
DurableBegin(autoCommit) ==
    /\ Granted /\ active /\ phase = "idle" /\ ~prepared
    /\ written = Len[cand.prof]
    /\ IF streamOk
       THEN /\ phase' = "header_write" /\ auto' = autoCommit
            /\ UNCHANGED <<active, reuse, prepared, reconcile>>
       ELSE FinishPrepare(FALSE)
    /\ UNCHANGED <<media, flashRam, ops, candRam, bootRam>>

(* The header's first piece moves the buffer off the payload's last page.  *)
HeaderWrite(ok) ==
    /\ Granted /\ phase = "header_write" /\ buf.at # HeaderPage
    /\ IF buf.at # NoPage /\ ~failed
       THEN ProgramBuffer /\ UNCHANGED cell /\ ops' = 1
       ELSE UNCHANGED <<media, ops>>
    /\ IF ok /\ ~failed
       THEN buf' = [at |-> HeaderPage, data |-> cand] /\ UNCHANGED prepareRam
       ELSE buf' = NoBuf /\ FinishPrepare(FALSE)
    /\ UNCHANGED <<range, erasedEnd, frontier, steps, failed, candRam, bootRam>>

(* Its last piece is synced.                                               *)
HeaderSync(ok) ==
    /\ Granted /\ phase = "header_write" /\ buf.at = HeaderPage
    /\ IF failed THEN UNCHANGED <<media, ops>>
       ELSE ProgramBuffer /\ UNCHANGED cell /\ ops' = 1
    /\ buf' = NoBuf
    /\ IF ok /\ ~failed
       THEN phase' = "header_readback"
            /\ UNCHANGED <<active, reuse, prepared, auto, reconcile>>
       ELSE FinishPrepare(FALSE)
    /\ UNCHANGED <<range, erasedEnd, frontier, steps, failed, candRam, bootRam>>

(* A read-back either finds what was written and moves on, or ends the     *)
(* save: the content differs or the read fails.                            *)
Readback(from, good, to) ==
    /\ Granted /\ phase = from
    /\ \/ /\ good
          /\ phase' = to
          /\ UNCHANGED <<active, reuse, prepared, auto, reconcile>>
       \/ FinishPrepare(FALSE)
    /\ UNCHANGED <<media, flashRam, ops, candRam, bootRam>>

HeaderReadback ==
    Readback("header_readback", Seen(HeaderPage, hdr[range]) = cand,
             "payload_readback")

PayloadReadback ==
    Readback("payload_readback",
             \A i \in 1 .. Len[cand.prof] :
                 Seen(PayloadPage(i), page[range][i]) = cand.prof,
             "shape")

ShapeWalk ==
    Readback("shape", cand.prof \notin Malformed, "prepared_write")

(* One marker step: the next cell is programmed and synced.                *)
MarkerStep(b) ==
    /\ ProgramCell(b) /\ ops' = 1 /\ steps' = steps + 1
    /\ UNCHANGED <<hdr, page, range, erasedEnd, frontier, failed, buf>>

PreparedWrite(ok) ==
    /\ Granted /\ phase = "prepared_write" /\ steps < 3
    /\ MarkerStep(PreparedBits)
    /\ IF ok
       THEN phase' = "prepared_readback"
            /\ UNCHANGED <<active, reuse, prepared, auto, reconcile>>
       ELSE FinishPrepare(FALSE)
    /\ UNCHANGED <<candRam, bootRam>>

PreparedReadback ==
    /\ Granted /\ phase = "prepared_readback"
    /\ \/ /\ Marker(range) = PreparedBits
          /\ prepared' = TRUE
          /\ phase' = IF auto THEN "marker_write" ELSE "idle"
          /\ UNCHANGED <<active, reuse, auto, reconcile>>
       \/ FinishPrepare(FALSE)
    /\ UNCHANGED <<media, flashRam, ops, candRam, bootRam>>

(* The decision: prepared_commit_begin.                                    *)
CommitBegin ==
    /\ Granted /\ active /\ prepared /\ phase = "idle"
    /\ phase' = "marker_write" /\ auto' = FALSE
    /\ UNCHANGED <<media, flashRam, ops, active, reuse, prepared, reconcile,
                   candRam, bootRam>>

MarkerWrite(ok) ==
    /\ Granted /\ phase = "marker_write" /\ steps < 3
    /\ MarkerStep(CommitBits)
    /\ IF ok
       THEN phase' = "marker_readback"
            /\ UNCHANGED <<active, reuse, prepared, auto, reconcile>>
       ELSE FinishPrepare(TRUE)
    /\ UNCHANGED <<candRam, bootRam>>

(* Mutant: a marker that does not read back is written again.              *)
MarkerReadbackRetries ==
    /\ Granted /\ phase = "marker_readback"
    /\ \/ /\ Marker(range) = CommitBits
          /\ saved' = [slot |-> range, gen |-> cand.gen, prof |-> cand.prof]
          /\ FinishPrepare(FALSE)
       \/ /\ phase' = "marker_write"
          /\ UNCHANGED <<saved, active, reuse, prepared, auto, reconcile>>
    /\ UNCHANGED <<media, flashRam, ops, candRam, scanned, conflict, boot, bootA>>

MarkerReadback ==
    /\ Granted /\ phase = "marker_readback"
    /\ \/ /\ Marker(range) = CommitBits
          /\ saved' = [slot |-> range, gen |-> cand.gen, prof |-> cand.prof]
          /\ FinishPrepare(FALSE)
       \/ FinishPrepare(TRUE) /\ UNCHANGED saved
    /\ UNCHANGED <<media, flashRam, ops, candRam, scanned, conflict, boot, bootA>>

(* prepare_abort, refused once the decision has begun: 0x00 into the next  *)
(* cell.  A page still waiting in the buffer reaches flash first, and a    *)
(* slot whose header sector was not erased yet is left as it is.           *)
AbortPrograms(ok) ==
    /\ IF buf.at = NoPage THEN UNCHANGED <<hdr, page>> ELSE ProgramBuffer
    /\ buf' = NoBuf
    /\ \/ ProgramCell({}) /\ steps' = steps + 1
          /\ ops' = IF buf.at = NoPage THEN 1 ELSE 2
       \/ ~ok /\ buf.at # NoPage
          /\ ops' = 1 /\ UNCHANGED <<cell, steps>>

(* Mutant: an abort is still taken after the decision has begun.           *)
AbortAfterDecision(ok) ==
    /\ Granted /\ active /\ steps < 3
    /\ AbortPrograms(ok)
    /\ FinishPrepare(FALSE)
    /\ UNCHANGED <<range, erasedEnd, frontier, failed, candRam, bootRam>>

Abort(ok) ==
    /\ Granted /\ active /\ phase \notin MarkerPhases /\ steps < 3
    /\ IF failed \/ erasedEnd = 0
       THEN /\ steps' = IF failed THEN steps ELSE steps + 1
            /\ UNCHANGED <<media, ops, buf>>
       ELSE AbortPrograms(ok)
    /\ FinishPrepare(FALSE)
    /\ UNCHANGED <<range, erasedEnd, frontier, failed, candRam, bootRam>>

-----------------------------------------------------------------------------
PowerCut == PowerOn /\ UNCHANGED media

PowerCutInErase ==
    /\ EraseDue(SectorPages)
    /\ EraseSector(TRUE)
    /\ PowerOn

Init ==
    /\ hdr = [s \in Slots |-> Erased]
    /\ cell = [s \in Slots |-> [k \in Cells |-> Bits]]
    /\ page = [s \in Slots |-> [i \in 1 .. MaxLen |-> Erased]]
    /\ range = NoSlot /\ erasedEnd = 0 /\ frontier = 0 /\ steps = 0
    /\ failed = FALSE /\ buf = NoBuf /\ ops = 0
    /\ active = FALSE /\ reuse = FALSE /\ phase = "idle"
    /\ prepared = FALSE /\ auto = FALSE /\ reconcile = FALSE
    /\ cand = NoCandidate /\ written = 0 /\ streamOk = TRUE
    /\ saved = NoRecord /\ scanned = FALSE /\ conflict = FALSE
    /\ boot = "idle" /\ bootA = NoRecord

BootStep ==
    \/ BootBegin
    \/ \E f \in {Found("A"), IoError} : BootSlotA(f)
    \/ \E f \in {Found("B"), IoError} : BootSlotB(f)

CommitStep ==
    \/ \E ok \in BOOLEAN :
          HeaderWrite(ok) \/ HeaderSync(ok) \/ PreparedWrite(ok) \/ MarkerWrite(ok)
    \/ HeaderReadback \/ PayloadReadback \/ ShapeWalk
    \/ PreparedReadback \/ MarkerReadback

Request ==
    \/ \E c \in Candidates : PrepareBegin(c)
    \/ \E q \in Profiles, full, ok \in BOOLEAN : PayloadWrite(q, full, ok)
    \/ \E autoCommit \in BOOLEAN : DurableBegin(autoCommit)
    \/ CommitBegin
    \/ \E ok \in BOOLEAN : Abort(ok)

Grant == GrantBegin \/ \E ok \in BOOLEAN : GrantErase(ok)

Next == BootStep \/ Request \/ CommitStep \/ Grant \/ PowerCut \/ PowerCutInErase

Spec == Init /\ [][Next]_vars

(* The scan loop runs a grant every scan and steps a save in progress; the *)
(* keyboard is quiet again and again, long enough for a due erase to run.  *)
FairSpec ==
    /\ Spec
    /\ WF_vars(CommitStep)
    /\ WF_vars(GrantBegin)
    /\ WF_vars(\E ok \in BOOLEAN : GrantErase(ok))

-----------------------------------------------------------------------------
(* Properties.                                                             *)

(* What flash, the page buffer and every field of the two store structures *)
(* may hold; a grant programs at most two pages.                           *)
TypeOK ==
    /\ hdr \in [Slots -> Records \cup {Erased, Junk}]
    /\ cell \in [Slots -> [Cells -> SUBSET Bits]]
    /\ page \in [Slots -> [1 .. MaxLen -> Profiles \cup {Erased, Junk}]]
    /\ range \in Slots \cup {NoSlot}
    /\ erasedEnd \in Nat /\ frontier \in Nat /\ steps \in 0 .. 3
    /\ failed \in BOOLEAN /\ ops \in 0 .. 2
    /\ buf \in [at : NoPage .. PayloadPage(MaxLen),
                data : Records \cup Profiles \cup {Erased}]
    /\ saved \in SavedRecords \cup {NoRecord}
    /\ scanned \in BOOLEAN /\ conflict \in BOOLEAN /\ reconcile \in BOOLEAN
    /\ active \in BOOLEAN /\ reuse \in BOOLEAN /\ streamOk \in BOOLEAN
    /\ prepared \in BOOLEAN /\ auto \in BOOLEAN
    /\ cand \in Records \cup {NoCandidate}
    /\ written \in 0 .. MaxLen
    /\ phase \in Phases
    /\ boot \in {"idle", "slot_a", "slot_b", "done"}
    /\ bootA \in SavedRecords \cup {NoRecord, IoError}

(* Two slots never hold two committed profiles of one generation, so boot  *)
(* selection on one half never has to refuse both (GENERATION_CONFLICT):   *)
(* each save is strictly newer than the saved record and replaces the      *)
(* other slot.                                                             *)
SlotsNeverConflict == ~conflict /\ ~Conflicting(Found("A"), Found("B"))

(* The record the store believes saved is the one the next boot selects,   *)
(* whatever has been torn, refused, aborted or failed since: only a marker *)
(* write whose outcome is not confirmed yet may have moved it on to the    *)
(* candidate.                                                              *)
SavedIsAuthority ==
    scanned =>
        \/ Authority = saved
        \/ /\ phase \in MarkerPhases \/ reconcile
           /\ Authority = [slot |-> range, gen |-> cand.gen, prof |-> cand.prof]

(* The saved record's slot is never erased or programmed, by a save, by an *)
(* erase still due to an abandoned one, or in a power cut.                 *)
SavedSlotUntouched ==
    [][saved # NoRecord =>
           /\ hdr'[saved.slot] = hdr[saved.slot]
           /\ cell'[saved.slot] = cell[saved.slot]
           /\ page'[saved.slot] = page[saved.slot]]_vars

(* What boot selects changes only when a decided marker is written, and    *)
(* then to the candidate that was prepared.                                *)
AuthorityMovesOnDecision ==
    [][Authority' # Authority =>
           /\ phase = "marker_write" /\ prepared
           /\ Authority' = [slot |-> range, gen |-> cand.gen, prof |-> cand.prof]]_vars

(* Once its commit steps have begun, a save ends: committed, refused or    *)
(* with its durability unknown; and a store waiting for erased flash gets  *)
(* it, or no longer needs it.                                              *)
SaveSettles == /\ (phase # "idle") ~> (phase = "idle")
               /\ ~MayWrite ~> MayWrite

(* The store implements the one durable register of SavedProfile.          *)
Value(r) == IF r = NoRecord THEN NoRecord ELSE [gen |-> r.gen, prof |-> r.prof]

Saved == INSTANCE SavedProfile WITH
    value <- Value(Authority),
    proposal <- IF active THEN cand ELSE NoRecord,
    decided <- phase \in MarkerPhases

ImplementsSavedProfile == Saved!Spec

=============================================================================
