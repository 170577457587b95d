------------------------- MODULE ProfileStoreProofs -------------------------
(***************************************************************************)
(* What ProfileStore keeps for every slot size, profile set, generation    *)
(* bound and marker encoding: its types, and that the record it believes   *)
(* saved is what the next boot selects.                                    *)
(*                                                                         *)
(* The safety proofs take an interrupted marker cell to land whole or not  *)
(* at all (~BitTearing); ProfileStoreTornAbort shows what happens else.    *)
(***************************************************************************)
EXTENDS ProfileStore, TLAPS

Markers == {Bits, PreparedBits, CommitBits, {}}
Committed(s) == \E k \in Cells : cell[s][k] = CommitBits
Aborted(s) == \E k \in Cells : cell[s][k] = {}

(* The marker cells of a slot hold only marker values, and never an abort  *)
(* beside a commit.                                                        *)
CellsOK ==
    \A s \in Slots : /\ \A k \in Cells : cell[s][k] \in Markers
                     /\ ~(Committed(s) /\ Aborted(s))

(* Before boot selection has decided, the store has touched nothing.       *)
BootOK ==
    /\ ~conflict
    /\ scanned => boot = "done"
    /\ boot = "slot_b" => bootA \in {Found("A"), IoError}
    /\ ~scanned => /\ range = NoSlot /\ ~active /\ ~reconcile /\ ~prepared
                   /\ phase = "idle" /\ saved = NoRecord

(* An open save, and one whose slot is still to be erased, has a slot and  *)
(* a candidate.                                                            *)
OpenOK ==
    /\ active => range # NoSlot
    /\ range # NoSlot => cand \in Records
    /\ phase # "idle" => active

(* The page buffer holds the header or a payload page.                     *)
BufOK ==
    /\ buf.at # NoPage =>
           \/ buf.at = HeaderPage /\ buf.data \in Records
           \/ buf.at - 3 \in 1 .. MaxLen /\ buf.data \in Profiles

(* A save takes the slot the saved record is not in, with a newer          *)
(* candidate, and erases it before it writes.                              *)
SaveOK ==
    /\ active \/ reconcile =>
           /\ range = TargetSlot /\ cand \in Records /\ Newer(cand.gen)
    /\ erasedEnd = 0 \/ erasedEnd >= SectorPages
    /\ active /\ erasedEnd = 0 => written = 0
    /\ active => /\ frontier = (IF written = 0 THEN 0 ELSE PayloadPage(written) + 1)
                 /\ written > 0 => PayloadPage(written) < erasedEnd
                 /\ written <= Len[cand.prof]
    /\ ~active => ~prepared
    /\ phase # "idle" \/ prepared =>
           active /\ written = Len[cand.prof] /\ ~reconcile
    /\ reconcile => ~active /\ erasedEnd >= EraseEnd
    /\ saved # NoRecord /\ range = saved.slot => erasedEnd >= EraseEnd

(* What the commit steps have read back so far holds.                      *)
PhaseOK ==
    /\ prepared \/ phase \notin {"idle", "header_write", "header_readback"} =>
           hdr[range] = cand
    /\ prepared \/ phase \notin {"idle", "header_write", "header_readback",
                                 "payload_readback"} =>
           \A i \in 1 .. Len[cand.prof] : page[range][i] = cand.prof
    /\ prepared \/ phase \in {"prepared_write", "prepared_readback"} =>
           cand.prof \notin Malformed
    /\ prepared /\ phase # "marker_readback" => Marker(range) = PreparedBits
    /\ phase \in MarkerPhases => prepared
    /\ prepared => phase \in MarkerPhases \cup {"idle"}
    /\ prepared \/ phase \notin {"idle", "header_write"} => buf.at = NoPage
    /\ active /\ erasedEnd > 0 /\ phase # "marker_readback" => ~Committed(range)

(* The saved record is whole in its slot; what the other slot would boot   *)
(* as is older, or the candidate whose marker is being decided.            *)
SlotsOK ==
    scanned =>
        /\ saved # NoRecord => Bootable(saved.slot) /\ RecordOf(saved.slot) = saved
        /\ saved = NoRecord => ~Bootable("B")
        /\ Bootable(TargetSlot) =>
               \/ saved # NoRecord /\ hdr[TargetSlot].gen < saved.gen
               \/ /\ phase = "marker_readback" \/ reconcile
                  /\ hdr[TargetSlot] = cand

(* Before that, both slots may be whole, with different generations.       *)
MediaOK == Bootable("A") /\ Bootable("B") => hdr["A"].gen # hdr["B"].gen

TInv == TypeOK /\ OpenOK /\ BufOK

IInv == TInv /\ CellsOK /\ BootOK /\ SaveOK /\ PhaseOK /\ SlotsOK /\ MediaOK

-----------------------------------------------------------------------------
(* Types.                                                                  *)

LEMMA Pages ==
    /\ PayloadPage(1) = 4
    /\ \A i \in 1 .. MaxLen : /\ PayloadPage(i) \in 4 .. PayloadPage(MaxLen)
                              /\ PayloadPage(i) - 3 = i
    /\ HeaderPage \in NoPage .. PayloadPage(MaxLen)
    /\ NoPage \in NoPage .. PayloadPage(MaxLen)
    /\ HeaderPage # NoPage
    /\ \A p \in Profiles : Len[p] \in 1 .. MaxLen
BY ConstantsOK DEF PayloadPage, HeaderPage, NoPage

LEMMA FoundType ==
    ASSUME TypeOK
    PROVE  \A s \in Slots : Found(s) \in SavedRecords \cup {NoRecord}
<1> SUFFICES ASSUME NEW s \in Slots, Bootable(s)
             PROVE  RecordOf(s) \in SavedRecords
    BY DEF Found
<1>1. hdr[s] \in Records
    BY DEF Bootable, Whole
<1> QED
    BY <1>1 DEF Records, SavedRecords, RecordOf

LEMMA TypeInit == Init => TInv
<1> SUFFICES ASSUME Init PROVE TInv
    OBVIOUS
<1>1. TypeOK
    <2>1. hdr \in [Slots -> Records \cup {Erased, Junk}]
        BY DEF Init
    <2>2. cell \in [Slots -> [Cells -> SUBSET Bits]]
        BY DEF Init
    <2>3. page \in [Slots -> [1 .. MaxLen -> Profiles \cup {Erased, Junk}]]
        BY DEF Init
    <2>4. /\ buf \in [at : NoPage .. PayloadPage(MaxLen),
                      data : Records \cup Profiles \cup {Erased}]
          /\ cand \in Records \cup {NoCandidate} /\ written \in 0 .. MaxLen
        BY ConstantsOK, Pages DEF Init, NoBuf
    <2>5. /\ erasedEnd = 0 /\ frontier = 0 /\ steps = 0 /\ ops = 0
          /\ range = NoSlot /\ saved = NoRecord /\ bootA = NoRecord
          /\ phase \in Phases /\ boot = "idle"
          /\ {failed, scanned, conflict, reconcile, active, reuse, streamOk,
              prepared, auto} \subseteq BOOLEAN
        BY DEF Init, Phases
    <2> QED
        BY <2>1, <2>2, <2>3, <2>4, <2>5 DEF TypeOK
<1>2. OpenOK /\ BufOK
    BY DEF Init, OpenOK, BufOK, NoBuf
<1> QED
    BY <1>1, <1>2 DEF TInv

(* A program or an erase leaves contents in the slot it is made on.        *)
LEMMA ProgramType ==
    ASSUME TypeOK, range \in Slots
    PROVE  /\ \A d \in Records : ProgramHeader(d) =>
                  hdr' \in [Slots -> Records \cup {Erased, Junk}]
           /\ \A d \in Profiles, i \in 1 .. MaxLen : ProgramPayload(i, d) =>
                  page' \in [Slots -> [1 .. MaxLen -> Profiles \cup {Erased, Junk}]]
           /\ \A b \in SUBSET Bits : steps < 3 /\ ProgramCell(b) =>
                  cell' \in [Slots -> [Cells -> SUBSET Bits]]
<1>1. ASSUME NEW d \in Records, ProgramHeader(d)
      PROVE  hdr' \in [Slots -> Records \cup {Erased, Junk}]
    BY <1>1 DEF TypeOK, ProgramHeader, Landed
<1>2. ASSUME NEW d \in Profiles, NEW i \in 1 .. MaxLen, ProgramPayload(i, d)
      PROVE  page' \in [Slots -> [1 .. MaxLen -> Profiles \cup {Erased, Junk}]]
    <2>1. PICK c \in Landed(page[range][i], d) : page' = [page EXCEPT ![range][i] = c]
        BY <1>2 DEF ProgramPayload
    <2>2. page[range][i] \in Profiles \cup {Erased, Junk}
        <3>1. page[range] \in [1 .. MaxLen -> Profiles \cup {Erased, Junk}]
            BY DEF TypeOK
        <3> QED
            BY <3>1
    <2>3. c \in Profiles \cup {Erased, Junk}
        BY <1>2, <2>1, <2>2 DEF Landed
    <2> QED
        BY <2>1, <2>3 DEF TypeOK
<1>3. ASSUME NEW b \in SUBSET Bits, steps < 3, ProgramCell(b)
      PROVE  cell' \in [Slots -> [Cells -> SUBSET Bits]]
    <2>1. steps + 1 \in Cells
        BY <1>3 DEF TypeOK, Cells
    <2>2. PICK c \in LandedBits(cell[range][steps + 1], b) :
                 cell' = [cell EXCEPT ![range][steps + 1] = c]
        BY <1>3 DEF ProgramCell
    <2>3. c \in SUBSET Bits
        BY <2>1 DEF TypeOK, LandedBits
    <2> QED
        BY <2>1, <2>2, <2>3 DEF TypeOK
<1> QED
    BY <1>1, <1>2, <1>3

LEMMA EraseType ==
    ASSUME TypeOK, range \in Slots, NEW torn \in BOOLEAN, EraseSector(torn)
    PROVE  /\ hdr' \in [Slots -> Records \cup {Erased, Junk}]
           /\ cell' \in [Slots -> [Cells -> SUBSET Bits]]
           /\ page' \in [Slots -> [1 .. MaxLen -> Profiles \cup {Erased, Junk}]]
<1>1. hdr' \in [Slots -> Records \cup {Erased, Junk}]
    BY DEF TypeOK, EraseSector
<1>2. cell' \in [Slots -> [Cells -> SUBSET Bits]]
    BY DEF TypeOK, EraseSector
<1>3. page' \in [Slots -> [1 .. MaxLen -> Profiles \cup {Erased, Junk}]]
    BY DEF TypeOK, EraseSector
<1> QED
    BY <1>1, <1>2, <1>3

(* What the variables other than the media hold.                           *)
MediaType ==
    /\ hdr \in [Slots -> Records \cup {Erased, Junk}]
    /\ cell \in [Slots -> [Cells -> SUBSET Bits]]
    /\ page \in [Slots -> [1 .. MaxLen -> Profiles \cup {Erased, Junk}]]

LEMMA OpenSlot == TInv /\ (active \/ phase # "idle") => range \in Slots /\ cand \in Records
BY DEF TInv, TypeOK, OpenOK

LEMMA FinishType ==
    ASSUME TInv, NEW d \in BOOLEAN, FinishPrepare(d)
    PROVE  /\ reconcile' \in BOOLEAN /\ active' \in BOOLEAN /\ reuse' \in BOOLEAN
           /\ phase' \in Phases /\ prepared' \in BOOLEAN /\ auto' \in BOOLEAN
           /\ active' = FALSE /\ phase' = "idle"
BY DEF TInv, TypeOK, FinishPrepare, Phases

(* The media of every step.                                                *)
LEMMA MediaStep == TInv /\ Next => MediaType'
<1> SUFFICES ASSUME TInv, Next PROVE MediaType'
    OBVIOUS
<1> USE DEF MediaType
<1>1. CASE UNCHANGED media
    BY <1>1 DEF TInv, TypeOK, media
<1>2. ASSUME NEW torn \in BOOLEAN, EraseDue(SectorPages), EraseSector(torn)
      PROVE  MediaType'
    <2>1. range \in Slots
        BY <1>2 DEF TInv, TypeOK, EraseDue
    <2> QED
        BY <1>2, <2>1, EraseType DEF TInv
<1>3. ASSUME NEW q \in Profiles, NEW full \in BOOLEAN, NEW ok \in BOOLEAN,
             PayloadWrite(q, full, ok)
      PROVE  MediaType'
    <2>1. CASE UNCHANGED media
        BY <2>1, <1>1
    <2>2. CASE ProgramPayload(written + 1, q) /\ cell' = cell
        <3>1. range \in Slots /\ written + 1 \in 1 .. MaxLen
            BY <1>3, OpenSlot, ConstantsOK DEF PayloadWrite, TInv, TypeOK, Records
        <3>2. hdr' = hdr /\ cell' = cell
            BY <1>3, <2>2 DEF PayloadWrite, ProgramPayload, media
        <3> QED
            BY <2>2, <3>1, <3>2, ProgramType DEF TInv, TypeOK
    <2> QED
        BY <1>3, <2>1, <2>2 DEF PayloadWrite
<1>4. ASSUME range \in Slots, buf.at # NoPage, ProgramBuffer
      PROVE  /\ hdr' \in [Slots -> Records \cup {Erased, Junk}]
             /\ page' \in [Slots -> [1 .. MaxLen -> Profiles \cup {Erased, Junk}]]
    <2>1. CASE buf.at = HeaderPage
        <3>1. ProgramHeader(buf.data) /\ buf.data \in Records /\ page' = page
            BY <1>4, <2>1 DEF ProgramBuffer, ProgramHeader, TInv, BufOK, HeaderPage
        <3> QED
            BY <1>4, <3>1, ProgramType DEF TInv, TypeOK
    <2>2. CASE buf.at # HeaderPage
        <3>1. /\ ProgramPayload(buf.at - 3, buf.data) /\ hdr' = hdr
              /\ buf.at - 3 \in 1 .. MaxLen /\ buf.data \in Profiles
            BY <1>4, <2>2 DEF ProgramBuffer, ProgramPayload, TInv, BufOK
        <3> QED
            BY <1>4, <3>1, ProgramType DEF TInv, TypeOK
    <2> QED
        BY <2>1, <2>2
<1>5. ASSUME NEW ok \in BOOLEAN, HeaderWrite(ok) \/ HeaderSync(ok)
      PROVE  MediaType'
    <2>1. range \in Slots
        BY <1>5, OpenSlot DEF HeaderWrite, HeaderSync
    <2> QED
        BY <1>1, <1>4, <1>5, <2>1, Pages DEF HeaderWrite, HeaderSync, TInv, TypeOK
<1>6. ASSUME NEW b \in SUBSET Bits, phase # "idle", steps < 3, MarkerStep(b)
      PROVE  MediaType'
    <2>1. range \in Slots
        BY <1>6, OpenSlot
    <2>2. hdr' = hdr /\ page' = page
        BY <1>6 DEF MarkerStep
    <2>3. ProgramCell(b)
        BY <1>6 DEF MarkerStep
    <2> QED
        BY <1>6, <2>1, <2>2, <2>3, ProgramType, ConstantsOK DEF TInv, TypeOK
<1>7. ASSUME NEW ok \in BOOLEAN, PreparedWrite(ok) \/ MarkerWrite(ok)
      PROVE  MediaType'
    BY <1>6, <1>7, MarkersOK DEF PreparedWrite, MarkerWrite
<1>8. ASSUME NEW ok \in BOOLEAN, Abort(ok)
      PROVE  MediaType'
    <2>1. range \in Slots
        BY <1>8, OpenSlot DEF Abort
    <2>2. CASE ~AbortPrograms(ok)
        BY <1>1, <1>8, <2>2 DEF Abort
    <2>3. CASE AbortPrograms(ok)
        <3>1. cell' \in [Slots -> [Cells -> SUBSET Bits]]
            BY <1>8, <2>1, <2>3, ProgramType DEF Abort, AbortPrograms, TInv, TypeOK
        <3> QED
            BY <1>4, <2>1, <2>3, <3>1 DEF AbortPrograms, TInv, TypeOK
    <2> QED
        BY <2>2, <2>3
<1>9. QED
<2>1. CASE BootStep
    BY <1>1, <2>1 DEF BootStep, BootBegin, BootSlotA, BootSlotB
<2>2. CASE Request
    BY <1>1, <1>3, <1>8, <2>2 DEF Request, PrepareBegin, DurableBegin, CommitBegin
<2>3. CASE CommitStep
    BY <1>1, <1>5, <1>7, <2>3 DEF CommitStep, HeaderReadback, PayloadReadback,
       ShapeWalk, Readback, PreparedReadback, MarkerReadback
<2>4. CASE Grant
    BY <1>1, <1>2, <2>4 DEF Grant, GrantBegin, GrantErase
<2>5. CASE PowerCut \/ PowerCutInErase
    BY <1>1, <1>2, <2>5 DEF PowerCut, PowerCutInErase
<2> QED
    BY <2>1, <2>2, <2>3, <2>4, <2>5 DEF Next

FlashType ==
    /\ range \in Slots \cup {NoSlot}
    /\ erasedEnd \in Nat /\ frontier \in Nat /\ steps \in 0 .. 3
    /\ failed \in BOOLEAN /\ ops \in 0 .. 2
    /\ buf \in [at : NoPage .. PayloadPage(MaxLen),
                data : Records \cup Profiles \cup {Erased}]
    /\ BufOK

BootType ==
    /\ saved \in SavedRecords \cup {NoRecord}
    /\ scanned \in BOOLEAN /\ conflict \in BOOLEAN
    /\ boot \in {"idle", "slot_a", "slot_b", "done"}
    /\ bootA \in SavedRecords \cup {NoRecord, IoError}

SaveType ==
    /\ reconcile \in BOOLEAN /\ active \in BOOLEAN /\ reuse \in BOOLEAN
    /\ prepared \in BOOLEAN /\ auto \in BOOLEAN /\ streamOk \in BOOLEAN
    /\ cand \in Records \cup {NoCandidate} /\ written \in 0 .. MaxLen
    /\ phase \in Phases
    /\ OpenOK

LEMMA TypeParts == TInv <=> MediaType /\ FlashType /\ BootType /\ SaveType
BY DEF TInv, TypeOK, MediaType, FlashType, BootType, SaveType

LEMMA BootType_Step == TInv /\ Next => BootType'
<1> SUFFICES ASSUME TInv, Next PROVE BootType'
    OBVIOUS
<1> USE DEF BootType
<1>0. BootType
    BY TypeParts
<1>1. CASE UNCHANGED bootRam
    BY <1>0, <1>1 DEF bootRam
<1>2. CASE PowerOn
    BY <1>2 DEF PowerOn
<1>3. CASE BootBegin \/ BootSlotA(Found("A")) \/ BootSlotA(IoError)
    BY <1>0, <1>3, FoundType DEF BootBegin, BootSlotA, TInv, Slots
<1>4. ASSUME NEW f \in {Found("B"), IoError}, BootSlotB(f) PROVE BootType'
    <2>1. f \in SavedRecords \cup {NoRecord, IoError}
        BY <1>4, FoundType DEF TInv, Slots
    <2>2. bootA # IoError /\ f # IoError
              => Select(bootA, f) \in SavedRecords \cup {NoRecord}
        BY <1>0, <2>1 DEF Select
    <2>3. saved' \in SavedRecords \cup {NoRecord}
        BY <1>4, <2>2 DEF BootSlotB
    <2>4. conflict' \in BOOLEAN /\ scanned' \in BOOLEAN
        BY <1>4 DEF BootSlotB, Conflicting
    <2> QED
        BY <1>0, <1>4, <2>3, <2>4 DEF BootSlotB
<1>5. CASE MarkerReadback
    <2>1. [slot |-> range, gen |-> cand.gen, prof |-> cand.prof] \in SavedRecords
        BY <1>5, OpenSlot DEF MarkerReadback, Records, SavedRecords
    <2>2. saved' \in SavedRecords \cup {NoRecord}
        BY <1>0, <1>5, <2>1 DEF MarkerReadback
    <2> QED
        BY <1>0, <1>5, <2>2 DEF MarkerReadback
<1>6. CASE BootStep
    BY <1>3, <1>4, <1>6 DEF BootStep
<1>7. CASE Request
    BY <1>1, <1>7 DEF Request, PrepareBegin, PayloadWrite, DurableBegin, CommitBegin, Abort
<1>8. CASE CommitStep
    BY <1>1, <1>5, <1>8 DEF CommitStep, HeaderWrite, HeaderSync, PreparedWrite,
       MarkerWrite, HeaderReadback, PayloadReadback, ShapeWalk, Readback, PreparedReadback
<1>9. CASE Grant
    BY <1>1, <1>9 DEF Grant, GrantBegin, GrantErase
<1> QED
    BY <1>2, <1>6, <1>7, <1>8, <1>9 DEF Next, PowerCut, PowerCutInErase

LEMMA SaveType_Step == TInv /\ Next => SaveType'
<1> SUFFICES ASSUME TInv, Next PROVE SaveType'
    OBVIOUS
<1> USE DEF SaveType, OpenOK
<1>0. SaveType
    BY TypeParts
<1>1. CASE UNCHANGED <<prepareRam, candRam, range>>
    BY <1>0, <1>1 DEF prepareRam, candRam
<1>2. CASE PowerOn
    <2>1. written' \in 0 .. MaxLen
        BY <1>2, ConstantsOK DEF PowerOn
    <2> QED
        BY <1>2, <2>1 DEF PowerOn, Phases
<1>3. ASSUME NEW d \in BOOLEAN, FinishPrepare(d), UNCHANGED <<candRam, range>>
      PROVE  SaveType'
    BY <1>0, <1>3, FinishType DEF candRam
<1>4. ASSUME NEW p \in Phases, active, phase' = p,
             auto' \in BOOLEAN, prepared' \in BOOLEAN,
             UNCHANGED <<active, reuse, reconcile, candRam, range>>
      PROVE  SaveType'
    BY <1>0, <1>4 DEF candRam
<1>5. ASSUME NEW c \in Candidates, PrepareBegin(c) PROVE SaveType'
    <2>1. c \in Records
        BY <1>5, ConstantsOK, SMTT(60) DEF Candidates, NextGenerations, TInv, TypeOK, Records, SavedRecords
    <2> QED
        BY <1>0, <1>5, <2>1, ConstantsOK DEF PrepareBegin, TargetSlot, NoSlot
<1>6. ASSUME NEW q \in Profiles, NEW full \in BOOLEAN, NEW ok \in BOOLEAN,
             PayloadWrite(q, full, ok)
      PROVE  SaveType'
    <2>1. written + 1 <= Len[cand.prof] /\ written' \in {written, written + 1}
        BY <1>6 DEF PayloadWrite
    <2>2. Len[cand.prof] \in 1 .. MaxLen
        BY <1>6, OpenSlot, ConstantsOK DEF PayloadWrite, Records
    <2>3. written' \in 0 .. MaxLen
        BY <1>0, <2>1, <2>2, ConstantsOK
    <2>4. streamOk' \in BOOLEAN
        BY <1>0, <1>6 DEF PayloadWrite
    <2> QED
        BY <1>0, <1>6, <2>3, <2>4, FinishType DEF PayloadWrite, prepareRam
<1>7. CASE BootStep
    BY <1>1, <1>7 DEF BootStep, BootBegin, BootSlotA, BootSlotB, flashRam
<1>8. CASE Request
    <2>1. ASSUME NEW a \in BOOLEAN, DurableBegin(a) PROVE SaveType'
        <3>1. CASE streamOk
            BY <1>0, <1>4, <2>1, <3>1 DEF DurableBegin, flashRam, Phases
        <3>2. CASE ~streamOk
            BY <1>3, <2>1, <3>2 DEF DurableBegin, flashRam
        <3> QED
            BY <3>1, <3>2
    <2>2. CASE CommitBegin
        BY <1>0, <1>4, <2>2 DEF CommitBegin, flashRam, Phases
    <2>3. ASSUME NEW ok \in BOOLEAN, Abort(ok) PROVE SaveType'
        BY <1>3, <2>3 DEF Abort
    <2> QED
        BY <1>5, <1>6, <1>8, <2>1, <2>2, <2>3 DEF Request
<1>9. CASE CommitStep
    <2> USE <1>0 DEF Phases, flashRam, MarkerStep
    <2>1. ASSUME NEW ok \in BOOLEAN, HeaderWrite(ok) PROVE SaveType'
        BY <1>1, <1>3, <2>1 DEF HeaderWrite
    <2>2. ASSUME NEW ok \in BOOLEAN, HeaderSync(ok) PROVE SaveType'
        BY <1>3, <1>4, <2>2 DEF HeaderSync
    <2>3. ASSUME NEW ok \in BOOLEAN, PreparedWrite(ok) PROVE SaveType'
        BY <1>3, <1>4, <2>3 DEF PreparedWrite
    <2>4. ASSUME NEW ok \in BOOLEAN, MarkerWrite(ok) PROVE SaveType'
        BY <1>3, <1>4, <2>4 DEF MarkerWrite
    <2>5. ASSUME NEW from \in Phases \ {"idle"}, NEW good, NEW to \in Phases, Readback(from, good, to)
          PROVE  SaveType'
        BY <1>3, <1>4, <2>5 DEF Readback
    <2>6. CASE HeaderReadback \/ PayloadReadback \/ ShapeWalk
        BY <2>5, <2>6 DEF HeaderReadback, PayloadReadback, ShapeWalk
    <2>7. CASE PreparedReadback
        BY <1>3, <1>4, <2>7 DEF PreparedReadback
    <2>8. CASE MarkerReadback
        BY <1>3, <2>8 DEF MarkerReadback
    <2> QED
        BY <1>9, <2>1, <2>2, <2>3, <2>4, <2>6, <2>7, <2>8 DEF CommitStep
<1>10. CASE Grant
    BY <1>1, <1>10 DEF Grant, GrantBegin, GrantErase, flashRam
<1> QED
    BY <1>2, <1>7, <1>8, <1>9, <1>10 DEF Next, PowerCut, PowerCutInErase

LEMMA NoBufType ==
    /\ NoBuf \in [at : NoPage .. PayloadPage(MaxLen),
                  data : Records \cup Profiles \cup {Erased}]
    /\ NoBuf.at = NoPage
BY Pages DEF NoBuf

LEMMA FlashType_Step == TInv /\ Next => FlashType'
<1> SUFFICES ASSUME TInv, Next PROVE FlashType'
    OBVIOUS
<1> USE DEF FlashType, BufOK
<1>0. FlashType
    BY TypeParts
<1>1. CASE UNCHANGED <<flashRam, ops>>
    BY <1>0, <1>1 DEF flashRam
<1>2. CASE PowerOn
    <2>1. buf' = NoBuf /\ range' = NoSlot
        BY <1>2 DEF PowerOn
    <2>2. BufOK' /\ buf' \in [at : NoPage .. PayloadPage(MaxLen),
                              data : Records \cup Profiles \cup {Erased}]
        BY <2>1, NoBufType
    <2>3. /\ erasedEnd' = 0 /\ frontier' = 0 /\ steps' = 0
          /\ failed' \in BOOLEAN /\ ops' = 0
        BY <1>2 DEF PowerOn
    <2> QED
        BY <2>1, <2>2, <2>3
<1>3. ASSUME NEW c \in Candidates, PrepareBegin(c) PROVE FlashType'
    <2>1. buf' = NoBuf /\ range' \in Slots
        BY <1>3 DEF PrepareBegin, TargetSlot, Slots
    <2>2. ops' = ops /\ erasedEnd' = 0 /\ frontier' = 0 /\ steps' = 0 /\ failed' \in BOOLEAN
        BY <1>3 DEF PrepareBegin
    <2>3. BufOK' /\ buf' \in [at : NoPage .. PayloadPage(MaxLen),
                              data : Records \cup Profiles \cup {Erased}]
        BY <2>1, NoBufType
    <2> QED
        BY <1>0, <2>1, <2>2, <2>3
<1>4. ASSUME NEW q \in Profiles, NEW full \in BOOLEAN, NEW ok \in BOOLEAN,
             PayloadWrite(q, full, ok)
      PROVE  FlashType'
    <2>1. written + 1 \in 1 .. MaxLen
        BY <1>4, OpenSlot, ConstantsOK DEF PayloadWrite, TInv, TypeOK, Records
    <2>2. /\ PayloadPage(written + 1) \in NoPage .. PayloadPage(MaxLen)
          /\ PayloadPage(written + 1) \in Nat
          /\ PayloadPage(written + 1) - 3 = written + 1
        BY <2>1, ConstantsOK DEF PayloadPage, NoPage
    <2>3. ops' \in 0 .. 2
        BY <1>0, <1>4 DEF PayloadWrite
    <2>4. buf' \in {buf, NoBuf, [at |-> PayloadPage(written + 1), data |-> q]}
        BY <1>4 DEF PayloadWrite
    <2>5. /\ buf' \in [at : NoPage .. PayloadPage(MaxLen),
                       data : Records \cup Profiles \cup {Erased}]
          /\ BufOK'
        BY <1>0, <2>1, <2>2, <2>4, Pages DEF NoBuf
    <2>6. frontier' \in Nat
        <3>1. frontier' \in {frontier, PayloadPage(written + 1) + 1}
            BY <1>4 DEF PayloadWrite
        <3> QED
            BY <1>0, <2>2, <3>1
    <2> QED
        BY <1>0, <1>4, <2>3, <2>5, <2>6 DEF PayloadWrite
<1>5. ASSUME NEW ok \in BOOLEAN, HeaderWrite(ok) \/ HeaderSync(ok)
      PROVE  FlashType'
    <2>1. cand \in Records
        BY <1>5, OpenSlot DEF HeaderWrite, HeaderSync
    <2>2. ops' \in 0 .. 2
        <3>1. ops' \in {ops, 1}
            BY <1>5 DEF HeaderWrite, HeaderSync
        <3> QED
            BY <1>0, <3>1
    <2>3. buf' \in {NoBuf, [at |-> HeaderPage, data |-> cand]}
        BY <1>5 DEF HeaderWrite, HeaderSync
    <2>4. /\ buf' \in [at : NoPage .. PayloadPage(MaxLen),
                       data : Records \cup Profiles \cup {Erased}]
          /\ BufOK'
        BY <2>1, <2>3, Pages DEF NoBuf
    <2> QED
        BY <1>0, <1>5, <2>2, <2>4 DEF HeaderWrite, HeaderSync
<1>6. ASSUME NEW ok \in BOOLEAN, PreparedWrite(ok) \/ MarkerWrite(ok)
      PROVE  FlashType'
    <2>1. ops' = 1 /\ steps < 3 /\ steps' = steps + 1
        BY <1>6 DEF PreparedWrite, MarkerWrite, MarkerStep
    <2>2. UNCHANGED <<range, erasedEnd, frontier, failed, buf>>
        BY <1>6 DEF PreparedWrite, MarkerWrite, MarkerStep
    <2> QED
        BY <1>0, <2>1, <2>2
<1>7. ASSUME NEW ok \in BOOLEAN, Abort(ok) PROVE FlashType'
    <2>1. ops' \in {ops, 1, 2} /\ steps < 3 /\ steps' \in {steps, steps + 1}
        BY <1>7 DEF Abort, AbortPrograms
    <2>2. buf' \in {buf, NoBuf}
        BY <1>7 DEF Abort, AbortPrograms
    <2>3. BufOK' /\ buf' \in [at : NoPage .. PayloadPage(MaxLen),
                              data : Records \cup Profiles \cup {Erased}]
        BY <1>0, <2>2, NoBufType
    <2>4. UNCHANGED <<range, erasedEnd, frontier>> /\ failed' \in BOOLEAN
        BY <1>0, <1>7 DEF Abort
    <2>5. ops' \in 0 .. 2 /\ steps' \in 0 .. 3
        BY <1>0, <2>1
    <2>6. range' \in Slots \cup {NoSlot} /\ erasedEnd' \in Nat /\ frontier' \in Nat
        BY <1>0, <2>4
    <2> QED
        BY <2>3, <2>4, <2>5, <2>6
<1>8. CASE Request
    BY <1>1, <1>3, <1>4, <1>7, <1>8 DEF Request, DurableBegin, CommitBegin
<1>9. CASE CommitStep
    BY <1>1, <1>5, <1>6, <1>9 DEF CommitStep, HeaderReadback, PayloadReadback,
       ShapeWalk, Readback, PreparedReadback, MarkerReadback
<1>10. CASE Grant
    <2>1. CASE GrantBegin
        BY <1>0, <2>1 DEF GrantBegin, flashRam
    <2>2. ASSUME NEW ok \in BOOLEAN, GrantErase(ok) PROVE FlashType'
        <3>1. ops' = 1 /\ erasedEnd' \in {erasedEnd, erasedEnd + SectorPages}
              /\ failed' \in BOOLEAN
            BY <1>0, <2>2 DEF GrantErase
        <3> QED
            BY <1>0, <2>2, <3>1, ConstantsOK DEF GrantErase
    <2> QED
        BY <1>10, <2>1, <2>2 DEF Grant
<1>11. CASE BootStep
    BY <1>1, <1>11 DEF BootStep, BootBegin, BootSlotA, BootSlotB
<1> QED
    BY <1>2, <1>8, <1>9, <1>10, <1>11 DEF Next, PowerCut, PowerCutInErase

LEMMA TypeStep == TInv /\ [Next]_vars => TInv'
<1>1. TInv /\ Next => TInv'
    <2> SUFFICES ASSUME TInv, Next PROVE TInv'
        OBVIOUS
    <2>1. MediaType' /\ FlashType' /\ BootType' /\ SaveType'
        BY MediaStep, FlashType_Step, BootType_Step, SaveType_Step
    <2> QED
        BY <2>1 DEF TInv, TypeOK, MediaType, FlashType, BootType, SaveType
<1>2. TInv /\ UNCHANGED vars => TInv'
    BY DEF TInv, TypeOK, OpenOK, BufOK, vars, media, flashRam, prepareRam, candRam, bootRam
<1> QED
    BY <1>1, <1>2

(* Every variable keeps its type, whatever the bounds: in particular a     *)
(* save that fails, is aborted or is cut off never leaves a page, a marker *)
(* cell or a step count outside what the layout has room for.              *)
THEOREM TypeCorrect == Spec => []TypeOK
<1>1. Spec => []TInv
    BY TypeInit, TypeStep, PTL DEF Spec
<1>2. TInv => TypeOK
    BY DEF TInv
<1> QED
    BY <1>1, <1>2, PTL

-----------------------------------------------------------------------------
(* What a step can make a slot read as.                                    *)

(* Only the slot a save took is ever erased or programmed.                 *)
OnlyRange ==
    \A s \in Slots : s # range =>
        hdr'[s] = hdr[s] /\ cell'[s] = cell[s] /\ page'[s] = page[s]

LEMMA SlotSame ==
    ASSUME NEW s \in Slots, hdr'[s] = hdr[s], cell'[s] = cell[s], page'[s] = page[s]
    PROVE  /\ Marker(s)' = Marker(s) /\ Bootable(s)' = Bootable(s)
           /\ RecordOf(s)' = RecordOf(s) /\ Found(s)' = Found(s)
           /\ Committed(s)' = Committed(s) /\ Aborted(s)' = Aborted(s)
BY DEF Marker, Bootable, Whole, RecordOf, Found, Committed, Aborted

LEMMA MarkersDiffer ==
    /\ \A a, b \in Markers : a \cap b \in {a, b}
    /\ CommitBits # Bits /\ CommitBits # {} /\ CommitBits # PreparedBits /\ Bits # {}
    /\ \A a \in Markers : a # {} => CommitBits \subseteq a
    /\ \A a \in Markers : a \subseteq CommitBits => a \in {{}, CommitBits}
BY MarkersOK DEF Markers

(* A slot's marker commits it exactly when one of its cells does.          *)
LEMMA MarkerCommits ==
    CellsOK => \A s \in Slots : Marker(s) = CommitBits <=> Committed(s)
<1> SUFFICES ASSUME CellsOK, NEW s \in Slots
             PROVE  Marker(s) = CommitBits <=> Committed(s)
    OBVIOUS
<1>0. cell[s][1] \in Markers /\ cell[s][2] \in Markers /\ cell[s][3] \in Markers
    BY DEF CellsOK, Cells
<1>1. ASSUME Marker(s) = CommitBits PROVE Committed(s)
    <2>1. Marker(s) \in {cell[s][1], cell[s][2], cell[s][3]}
        <3>1. cell[s][1] \cap cell[s][2] \in {cell[s][1], cell[s][2]}
            BY <1>0, MarkersDiffer
        <3>2. (cell[s][1] \cap cell[s][2]) \cap cell[s][3]
                  \in {cell[s][1] \cap cell[s][2], cell[s][3]}
            BY <1>0, <3>1, MarkersDiffer
        <3> QED
            BY <3>1, <3>2 DEF Marker
    <2> QED
        BY <1>1, <2>1 DEF Committed, Cells
<1>2. ASSUME Committed(s) PROVE Marker(s) = CommitBits
    <2>1. CommitBits \subseteq cell[s][1] /\ CommitBits \subseteq cell[s][2]
          /\ CommitBits \subseteq cell[s][3]
        BY <1>0, <1>2, MarkersDiffer DEF CellsOK, Aborted, Cells
    <2>2. CommitBits \in {cell[s][1], cell[s][2], cell[s][3]}
        BY <1>2 DEF Committed, Cells
    <2> QED
        BY <2>1, <2>2 DEF Marker
<1> QED
    BY <1>1, <1>2

LEMMA MarkerCommitsNext ==
    CellsOK' => (\A s \in Slots : Marker(s) = CommitBits <=> Committed(s))'
BY MarkerCommits, PTL

(* An erase, even a torn one, never makes a slot boot that did not.        *)
LEMMA EraseKeeps ==
    ASSUME TInv, CellsOK, NEW r \in Slots, r = range,
           NEW torn \in BOOLEAN, EraseSector(torn)
    PROVE  /\ OnlyRange /\ CellsOK'
           /\ Committed(r)' => Committed(r)
           /\ Bootable(r)' => Bootable(r) /\ hdr'[r] = hdr[r]
<1>1. OnlyRange
    BY DEF OnlyRange, EraseSector, TInv, TypeOK
<1>2. \A k \in Cells : cell'[r][k] \in {Bits, cell[r][k]}
    BY DEF EraseSector, TInv, TypeOK
<1>3. Committed(r)' => Committed(r)
    BY <1>2, MarkersDiffer DEF Committed
<1>4. Aborted(r)' => Aborted(r)
    BY <1>2, MarkersDiffer DEF Aborted
<1>5. CellsOK'
    <2> SUFFICES ASSUME NEW s \in Slots
                 PROVE  /\ \A k \in Cells : cell'[s][k] \in Markers
                        /\ ~(Committed(s)' /\ Aborted(s)')
        BY DEF CellsOK
    <2>1. CASE s # r
        BY <1>1, <2>1, SlotSame DEF OnlyRange, CellsOK
    <2>2. CASE s = r
        BY <1>2, <1>3, <1>4, <2>2 DEF CellsOK, Markers
    <2> QED
        BY <2>1, <2>2
<1>6. ASSUME Bootable(r)' PROVE Bootable(r) /\ hdr'[r] = hdr[r]
    <2>1. Committed(r)' /\ hdr'[r] \in Records /\ hdr'[r].prof \notin Malformed
          /\ \A i \in 1 .. Len[hdr'[r].prof] : page'[r][i] = hdr'[r].prof
        BY <1>5, <1>6, MarkerCommitsNext DEF Bootable, Whole
    <2>2. hdr'[r] = hdr[r]
        BY <2>1, ContentsOK DEF EraseSector, TInv, TypeOK
    <2>3. \A i \in 1 .. MaxLen : page'[r][i] \in {page[r][i], Erased, Junk}
        BY DEF EraseSector, TInv, TypeOK
    <2>4. \A i \in 1 .. Len[hdr[r].prof] : page[r][i] = hdr[r].prof
        <3>1. hdr[r].prof \in Profiles /\ Len[hdr[r].prof] \in 1 .. MaxLen
            BY <2>1, <2>2, Pages DEF Records
        <3>2. hdr[r].prof \notin {Erased, Junk}
            BY <3>1, ContentsOK
        <3>3. 1 .. Len[hdr[r].prof] \subseteq 1 .. MaxLen
            BY <3>1, ConstantsOK
        <3>4. \A i \in 1 .. Len[hdr[r].prof] : page'[r][i] = hdr[r].prof
            BY <2>1, <2>2
        <3> QED
            BY <2>3, <3>2, <3>3, <3>4
    <2>5. Marker(r) = CommitBits
        BY <1>3, <2>1, MarkerCommits
    <2> QED
        BY <2>1, <2>2, <2>4, <2>5 DEF Bootable, Whole
<1> QED
    BY <1>1, <1>3, <1>5, <1>6

(* A step may write a slot only in an open save, on flash it has erased.   *)
LEMMA WriterReady ==
    ASSUME IInv, active, Granted, ~failed
    PROVE  erasedEnd > 0
<1>1. frontier \in Nat /\ erasedEnd \in Nat /\ range # NoSlot /\ cand \in Records
    BY DEF IInv, TInv, TypeOK, OpenOK
<1>2. EraseEnd > 0
    BY <1>1, ConstantsOK DEF EraseEnd, PayloadPage, Records
<1> QED
    BY <1>1, <1>2 DEF Granted, MayWrite, EraseDue

(* Once the commit steps have begun every page of the save is erased.      *)
LEMMA CommitErased ==
    ASSUME IInv, phase # "idle" \/ prepared
    PROVE  /\ active /\ cand \in Records /\ range \in Slots
           /\ erasedEnd >= EraseEnd /\ erasedEnd > 0
<1>1. active /\ written = Len[cand.prof] /\ cand \in Records /\ range \in Slots
    BY DEF IInv, SaveOK, TInv, TypeOK, OpenOK
<1>2. written > 0 /\ PayloadPage(written) < erasedEnd /\ erasedEnd \in Nat /\ written \in Nat
    BY <1>1, Pages, ConstantsOK DEF IInv, SaveOK, TInv, TypeOK, Records
<1> QED
    BY <1>1, <1>2 DEF EraseEnd, PayloadPage

(* The cells a marker step leaves.                                         *)
LEMMA CellStep ==
    ASSUME TInv, CellsOK, ~BitTearing, NEW r \in Slots, r = range, steps < 3,
           NEW b \in Markers, ProgramCell(b)
    PROVE  /\ \A s \in Slots : s # r => cell'[s] = cell[s]
           /\ \A k \in Cells : /\ cell'[r][k] \in Markers
                               /\ cell'[r][k] \in {cell[r][k], b}
<1>1. steps + 1 \in Cells
    BY DEF TInv, TypeOK, Cells
<1>2. PICK c \in LandedBits(cell[range][steps + 1], b) :
             cell' = [cell EXCEPT ![range][steps + 1] = c]
    BY DEF ProgramCell
<1>3. cell[r][steps + 1] \in Markers
    BY <1>1 DEF CellsOK
<1>4. c \in {cell[r][steps + 1], cell[r][steps + 1] \cap b}
    BY <1>2 DEF LandedBits
<1>5. c \in {cell[r][steps + 1], b}
    BY <1>3, <1>4, MarkersDiffer
<1>6. \A k \in Cells : cell'[r][k] \in {cell[r][k], b}
    BY <1>2, <1>5 DEF TInv, TypeOK
<1>7. \A s \in Slots : s # r => cell'[s] = cell[s]
    BY <1>2 DEF TInv, TypeOK
<1> QED
    BY <1>6, <1>7 DEF CellsOK

(* What a step may do to the slot r a save took: the slot boots only if it *)
(* did, with the same record, or by the decided marker write.              *)
SlotStep(r) ==
    Bootable(r)' =>
        \/ Bootable(r) /\ hdr'[r] = hdr[r]
        \/ /\ phase = "marker_write" /\ prepared /\ hdr'[r] = cand
           /\ phase' = "marker_readback" \/ reconcile'

MediaEffect == OnlyRange /\ CellsOK' /\ \A s \in Slots : s = range => SlotStep(s)

LEMMA SameEffect == ASSUME IInv, UNCHANGED media PROVE MediaEffect
<1>1. OnlyRange
    BY DEF OnlyRange, media
<1>2. CellsOK'
    BY DEF IInv, media, CellsOK, Committed, Aborted
<1>3. ASSUME NEW s \in Slots PROVE SlotStep(s)
    <2>1. hdr'[s] = hdr[s] /\ cell'[s] = cell[s] /\ page'[s] = page[s]
        BY DEF media
    <2> QED
        BY <2>1, SlotSame DEF SlotStep
<1> QED
    BY <1>1, <1>2, <1>3 DEF MediaEffect

LEMMA EraseEffect ==
    ASSUME IInv, EraseDue(SectorPages), NEW torn \in BOOLEAN, EraseSector(torn)
    PROVE  MediaEffect
<1>1. range \in Slots
    BY DEF IInv, TInv, TypeOK, EraseDue
<1>2. OnlyRange /\ CellsOK'
    BY <1>1, EraseKeeps DEF IInv
<1>3. \A s \in Slots : s = range => (Bootable(s)' => Bootable(s) /\ hdr'[s] = hdr[s])
    BY EraseKeeps DEF IInv
<1> QED
    BY <1>2, <1>3 DEF MediaEffect, SlotStep

(* While a save still writes, its slot is not committed, and a program     *)
(* other than of the commit marker leaves it so.                           *)
LEMMA OpenNotCommitted ==
    ASSUME IInv, active, erasedEnd > 0, phase # "marker_readback",
           NEW r \in Slots, r = range
    PROVE  ~Committed(r)
BY DEF IInv, PhaseOK

LEMMA ProgramEffect ==
    ASSUME IInv, NEW r \in Slots, r = range, active, erasedEnd > 0,
           phase # "marker_readback", OnlyRange,
           \A k \in Cells : /\ cell'[r][k] \in Markers
                            /\ cell'[r][k] \in {cell[r][k], PreparedBits, {}}
    PROVE  MediaEffect
<1>1. ~Committed(r)
    BY OpenNotCommitted
<1>2. ~Committed(r)'
    BY <1>1, MarkersDiffer DEF Committed
<1>3. CellsOK'
    <2> SUFFICES ASSUME NEW s \in Slots
                 PROVE  /\ \A k \in Cells : cell'[s][k] \in Markers
                        /\ ~(Committed(s)' /\ Aborted(s)')
        BY DEF CellsOK
    <2>1. CASE s # r
        BY <2>1, SlotSame DEF OnlyRange, CellsOK, IInv
    <2>2. CASE s = r
        BY <1>2, <2>2
    <2> QED
        BY <2>1, <2>2
<1>4. ~Bootable(r)'
    BY <1>2, <1>3, MarkerCommitsNext DEF Bootable
<1>5. SlotStep(r)
    BY <1>4 DEF SlotStep
<1> QED
    BY <1>3, <1>5 DEF MediaEffect

LEMMA MediaEffects == ASSUME IInv, ~BitTearing, Next PROVE MediaEffect
<1> USE DEF Markers
<1>0. TInv /\ CellsOK
    BY DEF IInv
<1>1. CASE UNCHANGED media
    BY <1>1, SameEffect
<1>2. ASSUME EraseDue(SectorPages), NEW torn \in BOOLEAN, EraseSector(torn)
      PROVE  MediaEffect
    BY <1>2, EraseEffect
<1>3. ASSUME active, Granted, ~failed, phase # "marker_readback", cell' = cell, NEW d,
             \/ ProgramHeader(d)
             \/ \E i \in Int : ProgramPayload(i, d)
      PROVE  MediaEffect
    <2>1. range \in Slots
        BY <1>0, <1>3, OpenSlot
    <2>2. OnlyRange
        BY <1>0, <1>3, <2>1 DEF OnlyRange, ProgramHeader, ProgramPayload, TInv, TypeOK
    <2>3. erasedEnd > 0
        BY <1>3, WriterReady
    <2>4. \A k \in Cells : cell'[range][k] \in Markers
        BY <1>0, <1>3, <2>1 DEF CellsOK
    <2> QED
        BY <1>3, <2>1, <2>2, <2>3, <2>4, ProgramEffect
<1>4. ASSUME NEW q \in Profiles, NEW full \in BOOLEAN, NEW ok \in BOOLEAN,
             PayloadWrite(q, full, ok)
      PROVE  MediaEffect
    <2>1. written + 1 \in Int
        BY <1>0 DEF TInv, TypeOK
    <2> QED
        BY <1>1, <1>3, <1>4, <2>1 DEF PayloadWrite
<1>5. ASSUME NEW ok \in BOOLEAN, HeaderWrite(ok) \/ HeaderSync(ok)
      PROVE  MediaEffect
    <2>1. active /\ Granted /\ phase # "marker_readback"
        BY <1>0, <1>5 DEF HeaderWrite, HeaderSync, TInv, OpenOK
    <2>2. buf.at - 3 \in Int
        BY <1>0 DEF TInv, TypeOK, NoPage
    <2>3. UNCHANGED media \/ (~failed /\ ProgramBuffer /\ cell' = cell)
        BY <1>5 DEF HeaderWrite, HeaderSync
    <2> QED
        BY <1>1, <1>3, <2>1, <2>2, <2>3 DEF ProgramBuffer
<1>6. ASSUME NEW ok \in BOOLEAN, PreparedWrite(ok) PROVE MediaEffect
    <2>1. active /\ range \in Slots /\ cand \in Records
        BY <1>0, <1>6, OpenSlot DEF PreparedWrite, TInv, OpenOK
    <2>2. erasedEnd > 0
        BY <1>6, <2>1, CommitErased DEF PreparedWrite
    <2>3. ProgramCell(PreparedBits) /\ steps < 3 /\ hdr' = hdr /\ page' = page
        BY <1>6 DEF PreparedWrite, MarkerStep
    <2>4. OnlyRange
        BY <1>0, <2>1, <2>3, CellStep DEF OnlyRange
    <2>5. \A k \in Cells : /\ cell'[range][k] \in Markers
                           /\ cell'[range][k] \in {cell[range][k], PreparedBits}
        BY <1>0, <2>1, <2>3, CellStep
    <2> QED
        BY <1>6, <2>1, <2>2, <2>4, <2>5, ProgramEffect DEF PreparedWrite
<1>7. ASSUME NEW ok \in BOOLEAN, MarkerWrite(ok) PROVE MediaEffect
    <2>1. range \in Slots
        BY <1>0, <1>7, OpenSlot DEF MarkerWrite
    <2>2. ProgramCell(CommitBits) /\ steps < 3 /\ hdr' = hdr /\ page' = page
        BY <1>7 DEF MarkerWrite, MarkerStep
    <2>3. OnlyRange
        BY <1>0, <2>1, <2>2, CellStep DEF OnlyRange
    <2>4. \A k \in Cells : /\ cell'[range][k] \in Markers
                           /\ cell'[range][k] \in {cell[range][k], CommitBits}
        BY <1>0, <2>1, <2>2, CellStep
    <2>5. prepared /\ Marker(range) = PreparedBits /\ hdr[range] = cand
        BY <1>7 DEF MarkerWrite, IInv, PhaseOK, MarkerPhases
    <2>6. \A k \in Cells : cell[range][k] # {}
        BY <2>5, MarkersOK DEF Marker, Cells
    <2>7. \A k \in Cells : cell'[range][k] # {}
        BY <2>4, <2>6, MarkersOK
    <2>8. CellsOK'
        <3> SUFFICES ASSUME NEW s \in Slots
                     PROVE  /\ \A k \in Cells : cell'[s][k] \in Markers
                            /\ ~(Committed(s)' /\ Aborted(s)')
            BY DEF CellsOK
        <3>1. CASE s # range
            BY <1>0, <2>3, <3>1, SlotSame DEF OnlyRange, CellsOK
        <3>2. CASE s = range
            BY <2>4, <2>7, <3>2 DEF Aborted
        <3> QED
            BY <3>1, <3>2
    <2>9. phase = "marker_write" /\ (phase' = "marker_readback" \/ reconcile')
        BY <1>7 DEF MarkerWrite, FinishPrepare
    <2> QED
        BY <2>2, <2>3, <2>5, <2>8, <2>9 DEF MediaEffect, SlotStep
<1>8. ASSUME NEW ok \in BOOLEAN, Abort(ok) PROVE MediaEffect
    <2>1. CASE ~AbortPrograms(ok)
        BY <1>1, <1>8, <2>1 DEF Abort
    <2>2. CASE AbortPrograms(ok)
        <3>1. active /\ range \in Slots /\ phase # "marker_readback" /\ steps < 3
            BY <1>0, <1>8, OpenSlot DEF Abort, MarkerPhases
        <3>2. CASE UNCHANGED media
            BY <1>1, <3>2
        <3>3. CASE erasedEnd > 0
            <4>1. \/ hdr' = hdr /\ page' = page
                  \/ \E d : ProgramHeader(d) \/ \E i \in Int : ProgramPayload(i, d)
                <5>1. buf.at - 3 \in Int
                    BY <1>0 DEF TInv, TypeOK, NoPage
                <5>2. UNCHANGED <<hdr, page>> \/ ProgramBuffer
                    BY <2>2 DEF AbortPrograms
                <5> QED
                    BY <5>1, <5>2 DEF ProgramBuffer
            <4>2. cell' = cell \/ ProgramCell({})
                BY <2>2 DEF AbortPrograms
            <4>3. \A s \in Slots : s # range => cell'[s] = cell[s]
                BY <1>0, <3>1, <4>2, CellStep
            <4>4. OnlyRange
                BY <1>0, <3>1, <4>1, <4>3 DEF OnlyRange, ProgramHeader, ProgramPayload, TInv, TypeOK
            <4>5. \A k \in Cells : /\ cell'[range][k] \in Markers
                                   /\ cell'[range][k] \in {cell[range][k], {}}
                BY <1>0, <3>1, <4>2, CellStep DEF CellsOK
            <4> QED
                BY <3>1, <3>3, <4>4, <4>5, ProgramEffect
        <3> QED
            BY <1>0, <1>8, <3>2, <3>3 DEF Abort, TInv, TypeOK
    <2> QED
        BY <2>1, <2>2
<1>9. QED
<2>1. CASE BootStep
    BY <1>1, <2>1 DEF BootStep, BootBegin, BootSlotA, BootSlotB
<2>2. CASE Request
    BY <1>1, <1>4, <1>8, <2>2 DEF Request, PrepareBegin, DurableBegin, CommitBegin
<2>3. CASE CommitStep
    BY <1>1, <1>5, <1>6, <1>7, <2>3 DEF CommitStep, HeaderReadback, PayloadReadback,
       ShapeWalk, Readback, PreparedReadback, MarkerReadback
<2>4. CASE Grant
    BY <1>1, <1>2, <2>4 DEF Grant, GrantBegin, GrantErase
<2>5. CASE PowerCut \/ PowerCutInErase
    BY <1>1, <1>2, <2>5 DEF PowerCut, PowerCutInErase
<2> QED
    BY <2>1, <2>2, <2>3, <2>4, <2>5 DEF Next

-----------------------------------------------------------------------------
(* What a step leaves alone.                                               *)

(* With no save open and no erase due, no step touches flash.              *)
LEMMA Quiet ==
    ASSUME IInv, Next, ~active, ~EraseDue(SectorPages)
    PROVE  UNCHANGED media
<1>0. phase = "idle" /\ ~prepared
    BY DEF IInv, TInv, OpenOK, SaveOK
<1>1. ~CommitStep
    BY <1>0 DEF CommitStep, HeaderWrite, HeaderSync, PreparedWrite, MarkerWrite,
       HeaderReadback, PayloadReadback, ShapeWalk, Readback, PreparedReadback, MarkerReadback
<1>2. CASE BootStep
    BY <1>2 DEF BootStep, BootBegin, BootSlotA, BootSlotB
<1>3. CASE Request
    BY <1>3 DEF Request, PrepareBegin, PayloadWrite, DurableBegin, CommitBegin, Abort
<1>4. CASE Grant
    BY <1>4 DEF Grant, GrantBegin, GrantErase
<1> QED
    BY <1>1, <1>2, <1>3, <1>4 DEF Next, PowerCut, PowerCutInErase

LEMMA TargetIsOther ==
    /\ TargetSlot \in Slots
    /\ saved # NoRecord => TargetSlot # saved.slot
    /\ saved = NoRecord => TargetSlot = "A"
BY DEF TargetSlot, Slots

(* The saved record's slot is out of every step's reach.                   *)
LEMMA SavedStays ==
    ASSUME IInv, ~BitTearing, Next, saved # NoRecord, NEW s \in Slots, s = saved.slot
    PROVE  hdr'[s] = hdr[s] /\ cell'[s] = cell[s] /\ page'[s] = page[s]
<1>1. CASE s # range
    BY <1>1, MediaEffects DEF MediaEffect, OnlyRange
<1>2. CASE s = range
    <2>1. ~active
        BY <1>2, TargetIsOther DEF IInv, SaveOK
    <2>2. erasedEnd >= EraseEnd /\ erasedEnd \in Nat /\ cand \in Records
        BY <1>2 DEF IInv, SaveOK, TInv, TypeOK, OpenOK, Slots, NoSlot
    <2>3. ~EraseDue(SectorPages)
        BY <2>2, Pages, ConstantsOK DEF EraseDue, EraseEnd, PayloadPage, Records
    <2> QED
        BY <2>1, <2>3, Quiet DEF media
<1> QED
    BY <1>1, <1>2

(* Before boot selection has decided, only it and the power can move.      *)
LEMMA Unscanned ==
    ASSUME IInv, Next, ~scanned
    PROVE  /\ UNCHANGED media
           /\ \/ BootStep
              \/ GrantBegin
              \/ PowerOn
<1>0. phase = "idle" /\ ~prepared /\ ~active /\ range = NoSlot
    BY DEF IInv, BootOK
<1>1. UNCHANGED media
    BY <1>0, Quiet DEF EraseDue
<1>2. ~CommitStep
    BY <1>0 DEF CommitStep, HeaderWrite, HeaderSync, PreparedWrite, MarkerWrite,
       HeaderReadback, PayloadReadback, ShapeWalk, Readback, PreparedReadback, MarkerReadback
<1>3. ~Request
    BY <1>0 DEF Request, PrepareBegin, PayloadWrite, DurableBegin, CommitBegin, Abort
<1>4. Grant => GrantBegin
    BY <1>0 DEF Grant, GrantErase, EraseDue
<1> QED
    BY <1>1, <1>2, <1>3, <1>4 DEF Next, PowerCut, PowerCutInErase

(* A step of an open or unconfirmed save keeps its candidate, and one      *)
(* whose marker was written stays undecided until it is read back.         *)
LEMMA CandStays ==
    ASSUME IInv, Next, scanned, ~PowerOn, active \/ reconcile
    PROVE  /\ cand' = cand /\ range' = range
           /\ phase = "marker_readback" \/ reconcile =>
                  \/ phase' = "marker_readback" \/ reconcile'
                  \/ saved' # saved /\ MarkerReadback
<1>0. boot = "done"
    BY DEF IInv, BootOK
<1>1. ~BootStep
    BY <1>0 DEF BootStep, BootBegin, BootSlotA, BootSlotB
<1>2. CASE Request
    <2>1. /\ phase # "marker_readback"
          /\ active => ~reconcile
        BY <1>2 DEF Request, PrepareBegin, PayloadWrite, DurableBegin, CommitBegin,
           Abort, MarkerPhases, IInv, SaveOK
    <2>2. ~(\E c \in Candidates : PrepareBegin(c))
        BY DEF PrepareBegin
    <2>3. active
        BY <1>2, <2>2 DEF Request, PayloadWrite, DurableBegin, CommitBegin, Abort
    <2>4. cand' = cand /\ range' = range
        BY <1>2, <2>2 DEF Request, PayloadWrite, DurableBegin, CommitBegin, Abort,
           candRam, flashRam
    <2> QED
        BY <2>1, <2>3, <2>4
<1>3. CASE CommitStep
    <2>1. active /\ ~reconcile
        BY <1>3 DEF CommitStep, HeaderWrite, HeaderSync, PreparedWrite, MarkerWrite,
           HeaderReadback, PayloadReadback, ShapeWalk, Readback, PreparedReadback,
           MarkerReadback, IInv, SaveOK
    <2>2. cand' = cand /\ range' = range
        BY <1>3 DEF CommitStep, HeaderWrite, HeaderSync, PreparedWrite, MarkerWrite,
           HeaderReadback, PayloadReadback, ShapeWalk, Readback, PreparedReadback,
           MarkerReadback, MarkerStep, candRam, flashRam
    <2>3. phase = "marker_readback" => MarkerReadback
        BY <1>3 DEF CommitStep, HeaderWrite, HeaderSync, PreparedWrite, MarkerWrite,
           HeaderReadback, PayloadReadback, ShapeWalk, Readback, PreparedReadback
    <2>4. MarkerReadback => reconcile' \/ saved' # saved
        <3>1. range \in Slots /\ range = TargetSlot
            BY <2>1 DEF IInv, SaveOK, TInv, TypeOK, OpenOK
        <3>2. [slot |-> range, gen |-> cand.gen, prof |-> cand.prof] # saved
            <4>1. saved = NoRecord \/ saved \in SavedRecords
                BY DEF IInv, TInv, TypeOK
            <4>2. [slot |-> range, gen |-> cand.gen, prof |-> cand.prof] \in SavedRecords
                BY <2>1, <3>1 DEF IInv, SaveOK, Records, SavedRecords
            <4>3. saved # NoRecord => saved.slot # range
                BY <3>1, TargetIsOther
            <4> QED
                BY <4>2, <4>3, ContentsOK
        <3> QED
            BY <3>2 DEF MarkerReadback, FinishPrepare
    <2> QED
        BY <2>1, <2>2, <2>3, <2>4
<1>4. CASE Grant
    BY <1>4 DEF Grant, GrantBegin, GrantErase, prepareRam, candRam, flashRam
<1> QED
    BY <1>1, <1>2, <1>3, <1>4 DEF Next, PowerCut, PowerCutInErase

-----------------------------------------------------------------------------
(* The invariant, part by part.                                            *)

(* How the slot a step may change relates to the saved record's.           *)
LEMMA SlotCases ==
    ASSUME IInv, ~BitTearing, Next, NEW s \in Slots, Bootable(s)'
    PROVE  \/ Bootable(s) /\ hdr'[s] = hdr[s]
           \/ /\ s = range /\ s = TargetSlot /\ scanned /\ active
              /\ phase = "marker_write" /\ hdr'[s] = cand
              /\ phase' = "marker_readback" \/ reconcile'
<1>1. CASE s # range
    <2>1. hdr'[s] = hdr[s] /\ cell'[s] = cell[s] /\ page'[s] = page[s]
        BY <1>1, MediaEffects DEF MediaEffect, OnlyRange
    <2> QED
        BY <2>1, SlotSame
<1>2. CASE s = range
    <2>1. SlotStep(s)
        BY <1>2, MediaEffects DEF MediaEffect
    <2>2. phase = "marker_write" => scanned /\ active /\ range = TargetSlot
        BY DEF IInv, BootOK, TInv, OpenOK, SaveOK
    <2> QED
        BY <1>2, <2>1, <2>2 DEF SlotStep
<1> QED
    BY <1>1, <1>2

LEMMA MediaOK_Step == ASSUME IInv, ~BitTearing, Next PROVE MediaOK'
<1> SUFFICES ASSUME Bootable("A")', Bootable("B")' PROVE hdr'["A"].gen # hdr'["B"].gen
    BY DEF MediaOK
<1> DEFINE Kept(s) == Bootable(s) /\ hdr'[s] = hdr[s]
           Moved(s) == /\ s = range /\ s = TargetSlot /\ scanned /\ active
                       /\ hdr'[s] = cand
<1>1. "A" \in Slots /\ "B" \in Slots
    BY DEF Slots
<1>2. (Kept("A") \/ Moved("A")) /\ (Kept("B") \/ Moved("B"))
    BY <1>1, SlotCases
<1>3. CASE Kept("A") /\ Kept("B")
    BY <1>3 DEF IInv, MediaOK
<1>4. ASSUME NEW s \in Slots, NEW o \in Slots, s # o, Moved(s), Kept(o)
      PROVE  hdr'[s].gen # hdr'[o].gen
    <2>1. saved # NoRecord
        BY <1>4, TargetIsOther DEF IInv, SlotsOK, Slots
    <2>2. saved.slot = o
        <3>1. saved.slot \in Slots
            BY <2>1 DEF IInv, TInv, TypeOK, SavedRecords
        <3> QED
            BY <1>4, <2>1, <3>1, TargetIsOther DEF Slots
    <2>3. hdr[o].gen = saved.gen
        BY <1>4, <2>1, <2>2 DEF IInv, SlotsOK, RecordOf
    <2>4. cand.gen > saved.gen /\ saved.gen \in Int /\ cand.gen \in Int
        BY <1>4, <2>1 DEF IInv, SaveOK, Newer, TInv, TypeOK, SavedRecords, Records
    <2> QED
        BY <1>4, <2>3, <2>4
<1>5. ~(Moved("A") /\ Moved("B"))
    OBVIOUS
<1> QED
    BY <1>1, <1>2, <1>3, <1>4, <1>5

(* The two ways boot selection or a commit sets the saved record.          *)
LEMMA SlotsOK_Commit ==
    ASSUME IInv, MarkerReadback, Marker(range) = CommitBits, saved' # saved
    PROVE  SlotsOK'
<1>1. UNCHANGED media /\ saved' = [slot |-> range, gen |-> cand.gen, prof |-> cand.prof]
    BY DEF MarkerReadback
<1>2. range \in Slots /\ range = TargetSlot /\ cand \in Records /\ Newer(cand.gen) /\ scanned
    BY OpenSlot DEF MarkerReadback, IInv, TInv, OpenOK, SaveOK, BootOK
<1>3. /\ hdr[range] = cand /\ prepared /\ cand.prof \notin Malformed
      /\ \A i \in 1 .. Len[cand.prof] : page[range][i] = cand.prof
    BY DEF MarkerReadback, IInv, PhaseOK, MarkerPhases
<1>4. Bootable(range) /\ RecordOf(range) = saved'
    BY <1>1, <1>2, <1>3 DEF Bootable, Whole, RecordOf
<1>5. saved' # NoRecord /\ saved'.slot = range
    <2>1. saved' \in SavedRecords
        BY <1>1, <1>2 DEF SavedRecords, Records
    <2> QED
        BY <1>1, <2>1, ContentsOK
<1> DEFINE other == IF range = "A" THEN "B" ELSE "A"
<1>6. TargetSlot' = other /\ other \in Slots /\ other # range
    BY <1>2, <1>5 DEF TargetSlot, Slots
<1>7. ASSUME Bootable(other) PROVE hdr[other].gen < cand.gen
    <2>1. saved # NoRecord
        BY <1>2, <1>7, TargetIsOther DEF IInv, SlotsOK, Slots
    <2>2. saved.slot = other
        <3>1. saved.slot \in Slots
            BY <2>1 DEF IInv, TInv, TypeOK, SavedRecords
        <3> QED
            BY <1>2, <2>1, <3>1, TargetIsOther DEF Slots
    <2>3. hdr[other].gen = saved.gen
        BY <1>2, <2>1, <2>2 DEF IInv, SlotsOK, RecordOf
    <2> QED
        BY <1>2, <2>1, <2>3 DEF Newer, IInv, TInv, TypeOK, SavedRecords, Records
<1>8. \A s \in Slots : Bootable(s)' = Bootable(s) /\ RecordOf(s)' = RecordOf(s) /\ hdr'[s] = hdr[s]
    BY <1>1, SlotSame DEF media
<1>9. (Bootable(TargetSlot) => hdr[TargetSlot].gen < saved.gen)'
    BY <1>1, <1>6, <1>7, <1>8
<1>10. (Bootable(saved.slot) /\ RecordOf(saved.slot) = saved)'
    BY <1>2, <1>4, <1>5, <1>8
<1> QED
    BY <1>5, <1>9, <1>10 DEF SlotsOK

LEMMA FoundIs ==
    ASSUME TInv
    PROVE  \A s \in Slots : /\ Found(s) = NoRecord <=> ~Bootable(s)
                            /\ Bootable(s) => Found(s) = RecordOf(s)
<1> SUFFICES ASSUME NEW s \in Slots, Bootable(s) PROVE RecordOf(s) # NoRecord
    BY DEF Found
<1>1. RecordOf(s) \in SavedRecords
    BY DEF Bootable, Whole, RecordOf, Records, SavedRecords
<1> QED
    BY <1>1, ContentsOK

(* Two committed slots never read as a conflict.                           *)
LEMMA NoConflict ==
    ASSUME TInv, MediaOK
    PROVE  ~Conflicting(Found("A"), Found("B"))
<1>1. "A" \in Slots /\ "B" \in Slots
    BY DEF Slots
<1> SUFFICES ASSUME Bootable("A"), Bootable("B")
             PROVE  Found("A").gen # Found("B").gen
    BY <1>1, FoundIs DEF Conflicting
<1>2. Found("A").gen = hdr["A"].gen /\ Found("B").gen = hdr["B"].gen
    BY <1>1, FoundIs DEF RecordOf
<1> QED
    BY <1>2 DEF MediaOK

LEMMA SlotsOK_Scan ==
    ASSUME IInv, NEW f \in {Found("B"), IoError}, BootSlotB(f)
    PROVE  SlotsOK' /\ ~conflict'
<1>1. UNCHANGED media /\ bootA \in {Found("A"), IoError} /\ phase' = phase /\ reconcile' = reconcile
    BY DEF BootSlotB, IInv, BootOK, prepareRam
<1>2. \A s \in Slots : Bootable(s)' = Bootable(s) /\ RecordOf(s)' = RecordOf(s) /\ hdr'[s] = hdr[s]
    BY <1>1, SlotSame DEF media
<1>3. "A" \in Slots /\ "B" \in Slots
    BY DEF Slots
<1>4. CASE ~(bootA # IoError /\ f # IoError)
    BY <1>4 DEF BootSlotB, SlotsOK
<1>5. CASE bootA # IoError /\ f # IoError
    <2>1. bootA = Found("A") /\ f = Found("B")
        BY <1>1, <1>5
    <2>2. ~conflict' /\ saved' = Select(Found("A"), Found("B"))
        BY <1>5, <2>1, NoConflict DEF BootSlotB, IInv
    <2>3. CASE ~Bootable("A") /\ ~Bootable("B")
        <3>1. saved' = NoRecord
            BY <1>3, <2>2, <2>3, FoundIs DEF Select, IInv
        <3>2. ~Bootable("A")' /\ ~Bootable("B")'
            BY <1>2, <1>3, <2>3
        <3>3. TargetSlot' = "A"
            BY <3>1 DEF TargetSlot
        <3>4. ~Bootable(TargetSlot)'
            BY <3>2, <3>3
        <3>5. (/\ saved # NoRecord => Bootable(saved.slot) /\ RecordOf(saved.slot) = saved
               /\ saved = NoRecord => ~Bootable("B"))'
            BY <3>1, <3>2
        <3>6. SlotsOK'
            BY <3>4, <3>5 DEF SlotsOK
        <3> QED
            BY <2>2, <3>6
    <2>4. ASSUME NEW s \in Slots, NEW o \in Slots, s # o, Bootable(s),
                 Bootable(o) => hdr[o].gen < hdr[s].gen, saved' = RecordOf(s)
          PROVE  SlotsOK'
        <3>1. saved' # NoRecord /\ saved'.slot = s /\ saved'.gen = hdr[s].gen
            BY <2>4, FoundIs DEF RecordOf, IInv
        <3>2. TargetSlot' = o
            BY <2>4, <3>1 DEF TargetSlot, Slots
        <3>3. (Bootable(TargetSlot) => hdr[TargetSlot].gen < saved.gen)'
            BY <1>2, <2>4, <3>1, <3>2
        <3>4. (Bootable(saved.slot) /\ RecordOf(saved.slot) = saved)'
            BY <1>2, <2>4, <3>1
        <3> QED
            BY <3>1, <3>3, <3>4 DEF SlotsOK
    <2>5. CASE Bootable("A") /\ ~Bootable("B")
        <3>1. saved' = RecordOf("A")
            BY <1>3, <2>2, <2>5, FoundIs DEF Select, IInv
        <3> QED
            BY <1>3, <2>2, <2>4, <2>5, <3>1
    <2>6. CASE ~Bootable("A") /\ Bootable("B")
        <3>1. saved' = RecordOf("B")
            BY <1>3, <2>2, <2>6, FoundIs DEF Select, IInv
        <3> QED
            BY <1>3, <2>2, <2>4, <2>6, <3>1
    <2>7. CASE Bootable("A") /\ Bootable("B")
        <3>1. hdr["A"].gen > hdr["B"].gen \/ hdr["B"].gen > hdr["A"].gen
            BY <2>7 DEF IInv, MediaOK, Bootable, Whole, Records
        <3>2. /\ Found("A") = RecordOf("A") /\ Found("B") = RecordOf("B")
              /\ Found("A") # NoRecord /\ Found("B") # NoRecord
            BY <1>3, <2>7, FoundIs DEF IInv
        <3>3. CASE hdr["A"].gen > hdr["B"].gen
            <4>1. saved' = RecordOf("A")
                BY <2>2, <3>2, <3>3 DEF Select, RecordOf
            <4> QED
                <5>1. Bootable("B") => hdr["B"].gen < hdr["A"].gen
                    BY <2>7, <3>3 DEF Bootable, Whole, Records
                <5> QED
                    BY <1>3, <2>2, <2>4, <2>7, <4>1, <5>1
        <3>4. CASE hdr["B"].gen > hdr["A"].gen
            <4>1. ~(Found("A").gen > Found("B").gen)
                BY <2>7, <3>2, <3>4 DEF RecordOf, Bootable, Whole, Records
            <4>2. saved' = RecordOf("B")
                BY <2>2, <3>2, <4>1 DEF Select
            <4> QED
                <5>1. Bootable("A") => hdr["A"].gen < hdr["B"].gen
                    BY <2>7, <3>4 DEF Bootable, Whole, Records
                <5> QED
                    BY <1>3, <2>2, <2>4, <2>7, <4>2, <5>1
        <3> QED
            BY <3>1, <3>3, <3>4
    <2> QED
        BY <2>2, <2>3, <2>5, <2>6, <2>7
<1> QED
    BY <1>1, <1>4, <1>5 DEF BootSlotB

(* Every other step keeps the saved record where it is.                    *)
LEMMA SlotsOK_Keep ==
    ASSUME IInv, ~BitTearing, Next, scanned, ~PowerOn, saved' = saved
    PROVE  SlotsOK'
<1>1. TargetSlot' = TargetSlot
    BY DEF TargetSlot
<1>2. ASSUME saved # NoRecord
      PROVE  (Bootable(saved.slot) /\ RecordOf(saved.slot) = saved)'
    <2>1. saved.slot \in Slots
        BY <1>2 DEF IInv, TInv, TypeOK, SavedRecords
    <2>2. PICK s \in Slots : s = saved.slot
        BY <2>1
    <2>3. Bootable(s)' = Bootable(s) /\ RecordOf(s)' = RecordOf(s)
        BY <1>2, <2>2, SavedStays, SlotSame
    <2> QED
        BY <1>2, <2>2, <2>3 DEF IInv, SlotsOK
<1>3. ASSUME saved = NoRecord PROVE ~Bootable("B")'
    <2>1. "B" \in Slots /\ ~Bootable("B") /\ TargetSlot # "B"
        BY <1>3, TargetIsOther DEF IInv, SlotsOK, Slots
    <2> QED
        BY <2>1, SlotCases
<1>4. ASSUME NEW t \in Slots, t = TargetSlot, Bootable(t)'
      PROVE  \/ saved # NoRecord /\ hdr'[t].gen < saved.gen
             \/ (phase' = "marker_readback" \/ reconcile') /\ hdr'[t] = cand'
    <2>1. CASE Bootable(t) /\ hdr'[t] = hdr[t]
        <3>1. CASE saved # NoRecord /\ hdr[t].gen < saved.gen
            BY <2>1, <3>1
        <3>2. CASE (phase = "marker_readback" \/ reconcile) /\ hdr[t] = cand
            <4>1. active \/ reconcile
                BY <3>2 DEF IInv, TInv, OpenOK
            <4> QED
                BY <2>1, <3>2, <4>1, CandStays
        <3> QED
            BY <1>4, <2>1, <3>1, <3>2 DEF IInv, SlotsOK
    <2>2. CASE /\ active /\ hdr'[t] = cand
               /\ phase' = "marker_readback" \/ reconcile'
        BY <2>2, CandStays
    <2> QED
        BY <1>4, <2>1, <2>2, SlotCases
<1> QED
    BY <1>1, <1>2, <1>3, <1>4, TargetIsOther DEF SlotsOK

LEMMA SlotsOK_Step == ASSUME IInv, ~BitTearing, Next PROVE SlotsOK'
<1>1. CASE PowerOn
    BY <1>1 DEF PowerOn, SlotsOK
<1>2. CASE ~scanned /\ ~PowerOn
    <2>1. CASE \E f \in {Found("B"), IoError} : BootSlotB(f)
        BY <2>1, SlotsOK_Scan
    <2>2. CASE ~scanned'
        BY <2>2 DEF SlotsOK
    <2> QED
        BY <1>2, <2>1, <2>2, Unscanned DEF BootStep, BootBegin, BootSlotA, GrantBegin, bootRam
<1>3. CASE scanned /\ ~PowerOn /\ saved' # saved
    <2>1. boot = "done"
        BY <1>3 DEF IInv, BootOK
    <2>2. MarkerReadback /\ Marker(range) = CommitBits
        <3>1. saved' = saved \/ (MarkerReadback /\ Marker(range) = CommitBits)
            BY <1>3, <2>1 DEF Next, BootStep, BootBegin, BootSlotA, BootSlotB, Request,
               PrepareBegin, PayloadWrite, DurableBegin, CommitBegin, Abort,
               CommitStep, HeaderWrite, HeaderSync, PreparedWrite, MarkerWrite,
               HeaderReadback, PayloadReadback, ShapeWalk, Readback, PreparedReadback,
               MarkerReadback, Grant, GrantBegin, GrantErase, PowerCut, PowerCutInErase,
               bootRam
        <3> QED
            BY <1>3, <3>1
    <2> QED
        BY <1>3, <2>2, SlotsOK_Commit
<1> QED
    BY <1>1, <1>2, <1>3, SlotsOK_Keep

LEMMA BootOK_Step == ASSUME IInv, Next PROVE BootOK'
<1>0. BootOK
    BY DEF IInv
<1>1. CASE PowerOn
    BY <1>1 DEF PowerOn, BootOK
<1>2. CASE ~scanned /\ ~PowerOn
    <2>0. /\ UNCHANGED media /\ ~active /\ range = NoSlot /\ ~reconcile
          /\ ~prepared /\ phase = "idle" /\ saved = NoRecord
        BY <1>0, <1>2, Unscanned DEF BootOK
    <2>1. "A" \in Slots /\ Found("A")' = Found("A")
        BY <2>0, SlotSame DEF media, Slots
    <2>2. CASE BootBegin \/ GrantBegin
        BY <1>0, <1>2, <2>0, <2>1, <2>2 DEF BootOK, BootBegin, GrantBegin, bootRam,
           flashRam, prepareRam
    <2>3. CASE \E f \in {Found("A"), IoError} : BootSlotA(f)
        BY <1>0, <1>2, <2>0, <2>1, <2>3 DEF BootOK, BootSlotA, flashRam, prepareRam
    <2>4. ASSUME NEW f \in {Found("B"), IoError}, BootSlotB(f) PROVE BootOK'
        <3>1. ~conflict'
            BY <2>4, SlotsOK_Scan
        <3>2. ~scanned' => saved' = NoRecord
            BY <2>4 DEF BootSlotB
        <3> QED
            BY <2>0, <2>4, <3>1, <3>2 DEF BootOK, BootSlotB, flashRam, prepareRam
    <2> QED
        BY <1>2, <2>2, <2>3, <2>4, Unscanned DEF BootStep
<1>3. CASE scanned /\ ~PowerOn
    <2>1. boot = "done" /\ ~conflict
        BY <1>0, <1>3 DEF BootOK
    <2>2. boot' = boot /\ scanned' = scanned /\ conflict' = conflict
        BY <1>3, <2>1 DEF Next, BootStep, BootBegin, BootSlotA, BootSlotB, Request,
           PrepareBegin, PayloadWrite, DurableBegin, CommitBegin, Abort,
           CommitStep, HeaderWrite, HeaderSync, PreparedWrite, MarkerWrite,
           HeaderReadback, PayloadReadback, ShapeWalk, Readback, PreparedReadback,
           MarkerReadback, Grant, GrantBegin, GrantErase, PowerCut, PowerCutInErase,
           bootRam
    <2> QED
        BY <1>3, <2>1, <2>2 DEF BootOK
<1> QED
    BY <1>1, <1>2, <1>3

LEMMA SaveParts == ASSUME IInv PROVE
    /\ erasedEnd \in Nat /\ frontier \in Nat /\ written \in Nat /\ SectorPages \in Nat
    /\ SectorPages > 4
    /\ active => cand \in Records /\ range \in Slots /\ EraseEnd \in Nat
BY ConstantsOK, Pages DEF IInv, TInv, TypeOK, OpenOK, EraseEnd, PayloadPage, Records

(* Steps that change nothing a save's bookkeeping speaks of.               *)
LEMMA SaveOK_Same ==
    ASSUME IInv, UNCHANGED <<range, erasedEnd, frontier, candRam, saved, active, reconcile>>,
           phase' # "idle" \/ prepared' => active /\ written = Len[cand.prof] /\ ~reconcile
    PROVE  SaveOK'
BY DEF IInv, SaveOK, candRam, TargetSlot, Newer, EraseEnd

(* The end of a save.                                                      *)
LEMMA SaveOK_Finish ==
    ASSUME IInv, active, NEW d \in BOOLEAN, FinishPrepare(d),
           UNCHANGED <<range, erasedEnd, frontier, candRam, saved>>,
           d => erasedEnd >= EraseEnd
    PROVE  SaveOK'
<1>1. ~active' /\ ~prepared' /\ phase' = "idle"
    BY DEF FinishPrepare
<1>2. ~reconcile
    BY DEF IInv, SaveOK
<1>3. reconcile' => d
    BY <1>2 DEF FinishPrepare
<1>4. TargetSlot' = TargetSlot /\ EraseEnd' = EraseEnd /\ (Newer(cand.gen))' = Newer(cand.gen)
    BY DEF TargetSlot, EraseEnd, Newer, candRam
<1>5. /\ range = TargetSlot /\ cand \in Records /\ Newer(cand.gen)
      /\ erasedEnd = 0 \/ erasedEnd >= SectorPages
      /\ saved # NoRecord /\ range = saved.slot => erasedEnd >= EraseEnd
    BY DEF IInv, SaveOK
<1> QED
    BY <1>1, <1>3, <1>4, <1>5 DEF SaveOK, candRam

LEMMA SaveOK_Step == ASSUME IInv, Next PROVE SaveOK'
<1>0. SaveOK /\ OpenOK
    BY DEF IInv, TInv
<1>1. CASE PowerOn
    BY <1>1 DEF PowerOn, SaveOK, NoSlot
<1>2. CASE BootStep
    <2>1. ~scanned => range = NoSlot /\ ~active /\ ~reconcile /\ ~prepared /\ phase = "idle"
        BY DEF IInv, BootOK
    <2>2. boot # "done" => ~scanned
        BY DEF IInv, BootOK
    <2>3. range' = NoSlot /\ ~active' /\ ~reconcile' /\ ~prepared' /\ phase' = "idle"
          /\ erasedEnd' = erasedEnd
        BY <1>2, <2>1, <2>2 DEF BootStep, BootBegin, BootSlotA, BootSlotB, flashRam, prepareRam
    <2>4. saved' # NoRecord => saved'.slot # NoSlot
        <3>1. saved' \in SavedRecords \cup {NoRecord}
            BY BootType_Step DEF BootType, IInv
        <3> QED
            BY <3>1 DEF SavedRecords, Slots, NoSlot
    <2> QED
        BY <1>0, <2>3, <2>4 DEF SaveOK
<1>3. ASSUME NEW c \in Candidates, PrepareBegin(c) PROVE SaveOK'
    <2>1. c \in Records
        BY <1>3, ConstantsOK DEF Candidates, NextGenerations, IInv, TInv, TypeOK, Records, SavedRecords
    <2>2. /\ active' /\ ~reconcile' /\ prepared' = prepared /\ phase' = phase
          /\ cand' = c /\ range' = TargetSlot /\ saved' = saved
          /\ erasedEnd' = 0 /\ frontier' = 0 /\ written' = 0 /\ Newer(c.gen)
        BY <1>3 DEF PrepareBegin, bootRam
    <2>3. ~prepared /\ phase = "idle"
        BY <1>0, <1>3 DEF PrepareBegin, OpenOK, SaveOK
    <2>4. TargetSlot' = TargetSlot /\ (Newer(cand.gen))' = Newer(c.gen)
        BY <2>2 DEF TargetSlot, Newer
    <2>5. Len[c.prof] \in Nat
        BY <2>1, Pages, ConstantsOK DEF Records
    <2> QED
        BY <2>1, <2>2, <2>3, <2>4, <2>5, TargetIsOther DEF SaveOK
<1>4. ASSUME NEW q \in Profiles, NEW full \in BOOLEAN, NEW ok \in BOOLEAN,
             PayloadWrite(q, full, ok)
      PROVE  SaveOK'
    <2>1. active /\ Granted /\ UNCHANGED <<range, erasedEnd, cand, saved, failed>>
          /\ written + 1 <= Len[cand.prof] /\ phase = "idle"
        BY <1>4 DEF PayloadWrite, bootRam
    <2>2. CASE ok /\ ~failed
        <3>1. /\ UNCHANGED <<active, reconcile, prepared, phase>>
              /\ written' = written + 1 /\ frontier' = PayloadPage(written + 1) + 1
            BY <1>4, <2>2 DEF PayloadWrite, prepareRam
        <3>2. ~prepared
            BY <1>0, <2>1, SaveParts, ConstantsOK DEF SaveOK, Records
        <3>3. PayloadPage(written + 1) < erasedEnd
            <4>1. erasedEnd >= EraseEnd \/ erasedEnd >= frontier + 1
                BY <2>1, <2>2, <1>0, SaveParts DEF Granted, MayWrite, EraseDue, OpenOK
            <4>2. Len[cand.prof] \in Nat
                BY <2>1, SaveParts, Pages, ConstantsOK DEF Records
            <4>3. CASE erasedEnd >= EraseEnd
                BY <2>1, <4>2, <4>3, SaveParts DEF EraseEnd, PayloadPage
            <4>4. CASE erasedEnd >= frontier + 1 /\ written = 0
                BY <1>0, <4>4, SaveParts DEF SaveOK, PayloadPage
            <4>5. CASE erasedEnd >= frontier + 1 /\ written # 0
                BY <1>0, <2>1, <4>5, SaveParts DEF SaveOK, PayloadPage
            <4> QED
                BY <4>1, <4>3, <4>4, <4>5
        <3>4. TargetSlot' = TargetSlot /\ EraseEnd' = EraseEnd
              /\ (Newer(cand.gen))' = Newer(cand.gen)
            BY <2>1 DEF TargetSlot, EraseEnd, Newer
        <3>5. erasedEnd > 0 /\ written + 1 > 0
            BY <3>3, SaveParts DEF PayloadPage
        <3> QED
            BY <1>0, <2>1, <3>1, <3>2, <3>3, <3>4, <3>5 DEF SaveOK
    <2>3. CASE ~(ok /\ ~failed)
        <3>1. FinishPrepare(FALSE) /\ UNCHANGED <<frontier, candRam>>
            BY <1>4, <2>3 DEF PayloadWrite, candRam
        <3> QED
            BY <2>1, <3>1, SaveOK_Finish
    <2> QED
        BY <2>2, <2>3
<1>5. CASE Request
    <2>1. ASSUME NEW a \in BOOLEAN, DurableBegin(a) PROVE SaveOK'
        <3>1. CASE streamOk
            <4>1. ~reconcile
                BY <1>0, <2>1 DEF DurableBegin, SaveOK
            <4> QED
                BY <2>1, <3>1, <4>1, SaveOK_Same DEF DurableBegin, flashRam, bootRam
        <3>2. CASE ~streamOk
            BY <2>1, <3>2, SaveOK_Finish DEF DurableBegin, flashRam, bootRam
        <3> QED
            BY <3>1, <3>2
    <2>2. CASE CommitBegin
        <3>1. active /\ written = Len[cand.prof] /\ ~reconcile
            BY <1>0, <2>2 DEF CommitBegin, SaveOK
        <3> QED
            BY <2>2, <3>1, SaveOK_Same DEF CommitBegin, flashRam, bootRam
    <2>3. ASSUME NEW ok \in BOOLEAN, Abort(ok) PROVE SaveOK'
        BY <2>3, SaveOK_Finish DEF Abort, bootRam
    <2> QED
        BY <1>3, <1>4, <1>5, <2>1, <2>2, <2>3 DEF Request
<1>6. CASE CommitStep
    <2>1. active /\ erasedEnd >= EraseEnd
        BY <1>6, CommitErased DEF CommitStep, HeaderWrite, HeaderSync, PreparedWrite,
           MarkerWrite, HeaderReadback, PayloadReadback, ShapeWalk, Readback,
           PreparedReadback, MarkerReadback
    <2>2. written = Len[cand.prof] /\ ~reconcile
        BY <1>0, <1>6 DEF SaveOK, CommitStep, HeaderWrite, HeaderSync, PreparedWrite,
           MarkerWrite, HeaderReadback, PayloadReadback, ShapeWalk, Readback,
           PreparedReadback, MarkerReadback
    <2>3. UNCHANGED <<range, erasedEnd, frontier, candRam>>
        BY <1>6 DEF CommitStep, HeaderWrite, HeaderSync, PreparedWrite, MarkerStep,
           MarkerWrite, HeaderReadback, PayloadReadback, ShapeWalk, Readback,
           PreparedReadback, MarkerReadback, flashRam
    <2>4. CASE saved' = saved
        <3>1. \/ \E d \in BOOLEAN : FinishPrepare(d)
              \/ UNCHANGED <<active, reconcile>>
            BY <1>6 DEF CommitStep, HeaderWrite, HeaderSync, PreparedWrite,
               MarkerWrite, HeaderReadback, PayloadReadback, ShapeWalk, Readback,
               PreparedReadback, MarkerReadback, prepareRam
        <3> QED
            BY <2>1, <2>2, <2>3, <2>4, <3>1, SaveOK_Finish, SaveOK_Same
    <2>5. CASE saved' # saved
        <3>1. /\ saved' = [slot |-> range, gen |-> cand.gen, prof |-> cand.prof]
              /\ FinishPrepare(FALSE)
            BY <1>6, <2>5 DEF CommitStep, HeaderWrite, HeaderSync, PreparedWrite,
               MarkerWrite, HeaderReadback, PayloadReadback, ShapeWalk, Readback,
               PreparedReadback, MarkerReadback, prepareRam, bootRam
        <3>2. ~active' /\ ~prepared' /\ phase' = "idle" /\ ~reconcile'
            BY <2>2, <3>1 DEF FinishPrepare
        <3>3. EraseEnd' = EraseEnd /\ erasedEnd' = erasedEnd
            BY <2>3 DEF EraseEnd, candRam
        <3> QED
            BY <1>0, <2>1, <3>2, <3>3 DEF SaveOK
    <2> QED
        BY <2>4, <2>5
<1>7. CASE Grant
    <2>1. CASE GrantBegin
        BY <1>0, <2>1, SaveOK_Same DEF GrantBegin, flashRam, prepareRam, bootRam, SaveOK
    <2>2. ASSUME NEW ok \in BOOLEAN, GrantErase(ok) PROVE SaveOK'
        <3>1. /\ UNCHANGED <<range, frontier, prepareRam, candRam, bootRam>>
              /\ erasedEnd' \in {erasedEnd, erasedEnd + SectorPages}
            BY <2>2 DEF GrantErase
        <3>2. ~(phase # "idle" \/ prepared) /\ ~reconcile
            <4>1. ~(erasedEnd >= EraseEnd)
                BY <2>2, SaveParts, ConstantsOK, Pages DEF GrantErase, EraseDue, EraseEnd,
                   PayloadPage, IInv, TInv, OpenOK, Records
            <4> QED
                BY <1>0, <4>1, CommitErased DEF SaveOK
        <3>3. TargetSlot' = TargetSlot /\ EraseEnd' = EraseEnd
              /\ (Newer(cand.gen))' = Newer(cand.gen)
            BY <3>1 DEF TargetSlot, EraseEnd, Newer, candRam, bootRam
        <3>4. /\ erasedEnd' = 0 \/ erasedEnd' >= SectorPages
              /\ erasedEnd' = 0 => erasedEnd = 0
              /\ \A x \in Int : x < erasedEnd => x < erasedEnd'
            BY <1>0, <3>1, SaveParts DEF SaveOK
        <3>5. \A i \in 0 .. MaxLen : PayloadPage(i) \in Int
            BY ConstantsOK DEF PayloadPage
        <3>6. saved # NoRecord => range # saved.slot
            <4>1. ~(erasedEnd >= EraseEnd)
                BY <2>2, SaveParts, ConstantsOK, Pages DEF GrantErase, EraseDue, EraseEnd,
                   PayloadPage, IInv, TInv, OpenOK, Records
            <4> QED
                BY <1>0, <4>1 DEF SaveOK
        <3>7. written \in 0 .. MaxLen
            BY DEF IInv, TInv, TypeOK
        <3> QED
            BY <1>0, <3>1, <3>2, <3>3, <3>4, <3>5, <3>6, <3>7
            DEF SaveOK, prepareRam, candRam, bootRam
    <2> QED
        BY <1>7, <2>1, <2>2 DEF Grant
<1> QED
    BY <1>1, <1>2, <1>5, <1>6, <1>7 DEF Next, PowerCut, PowerCutInErase

(* A save that has ended claims nothing of its slot any more.              *)
LEMMA PhaseOK_Finish ==
    ASSUME IInv, NEW d \in BOOLEAN, FinishPrepare(d) PROVE PhaseOK'
BY DEF FinishPrepare, PhaseOK, MarkerPhases

LEMMA PhaseOK_Step == ASSUME IInv, ~BitTearing, Next PROVE PhaseOK'
<1>0. PhaseOK /\ OpenOK /\ SaveOK
    BY DEF IInv, TInv
<1>1. CASE PowerOn
    BY <1>1 DEF PowerOn, PhaseOK, MarkerPhases
<1>2. ASSUME UNCHANGED <<media, range, erasedEnd, buf, phase, prepared, cand, active>>
      PROVE  PhaseOK'
    BY <1>0, <1>2 DEF PhaseOK, media, Committed, Marker
<1>3. CASE BootStep \/ GrantBegin
    BY <1>2, <1>3 DEF BootStep, BootBegin, BootSlotA, BootSlotB, GrantBegin, flashRam,
       prepareRam, candRam
<1>4. ASSUME NEW ok \in BOOLEAN, GrantErase(ok) PROVE PhaseOK'
    <2>1. range \in Slots /\ cand \in Records /\ EraseSector(~ok)
        BY <1>0, <1>4 DEF GrantErase, EraseDue, IInv, TInv, TypeOK, OpenOK
    <2>2. ~(erasedEnd >= EraseEnd)
        BY <1>4, <2>1, SaveParts, Pages, ConstantsOK DEF GrantErase, EraseDue, EraseEnd,
           PayloadPage, Records
    <2>3. phase = "idle" /\ ~prepared
        BY <2>2, CommitErased
    <2>4. phase' = "idle" /\ ~prepared' /\ range' = range /\ active' = active
        BY <1>4, <2>3 DEF GrantErase, prepareRam
    <2>5. ASSUME NEW r \in Slots, r = range, active', erasedEnd' > 0 PROVE ~Committed(r)'
        <3>1. CASE erasedEnd > 0
            <4>1. ~Committed(r)
                BY <2>3, <2>4, <2>5, <3>1, OpenNotCommitted
            <4>2. Committed(r)' => Committed(r)
                BY <2>1, <2>5, EraseKeeps DEF IInv
            <4> QED
                BY <4>1, <4>2
        <3>2. CASE erasedEnd = 0
            <4>1. ok
                BY <1>4, <2>5, <3>2 DEF GrantErase
            <4>2. \A k \in Cells : InSector(k)
                BY <3>2, ConstantsOK DEF Cells, InSector, PayloadPage
            <4>3. \A k \in Cells : cell'[r][k] = Bits
                BY <2>1, <2>5, <4>1, <4>2 DEF EraseSector, IInv, TInv, TypeOK
            <4> QED
                BY <4>3, MarkersDiffer DEF Committed
        <3> QED
            BY <3>1, <3>2, SaveParts
    <2>6. active' /\ erasedEnd' > 0 => ~Committed(range)'
        BY <2>1, <2>4, <2>5
    <2> QED
        BY <2>4, <2>6 DEF PhaseOK, MarkerPhases
<1>5. ASSUME NEW c \in Candidates, PrepareBegin(c) PROVE PhaseOK'
    <2>1. phase' = "idle" /\ ~prepared' /\ erasedEnd' = 0
        BY <1>0, <1>5 DEF PrepareBegin, OpenOK, SaveOK
    <2> QED
        BY <2>1 DEF PhaseOK, MarkerPhases
(* A save still open, in its payload or header phase.                      *)
<1>6. ASSUME active, range' = range, cell' = cell, erasedEnd' = erasedEnd,
             phase # "marker_readback", phase' \in {"idle", "header_write"}, ~prepared'
      PROVE  PhaseOK'
    <2>1. active /\ erasedEnd > 0 => ~Committed(range)
        BY <1>0, <1>6 DEF PhaseOK
    <2>2. Committed(range)' = Committed(range)
        BY <1>6 DEF Committed
    <2> QED
        BY <1>6, <2>1, <2>2 DEF PhaseOK, MarkerPhases
<1>7. ASSUME NEW q \in Profiles, NEW full \in BOOLEAN, NEW ok \in BOOLEAN,
             PayloadWrite(q, full, ok)
      PROVE  PhaseOK'
    <2>1. CASE \E d \in BOOLEAN : FinishPrepare(d)
        BY <2>1, PhaseOK_Finish
    <2>2. CASE UNCHANGED prepareRam
        <3>1. active /\ phase = "idle" /\ written + 1 <= Len[cand.prof]
            BY <1>7 DEF PayloadWrite
        <3>2. ~prepared
            BY <1>0, <3>1, SaveParts, ConstantsOK DEF SaveOK, Records
        <3>3. cell' = cell /\ range' = range /\ erasedEnd' = erasedEnd
            BY <1>7 DEF PayloadWrite, media
        <3> QED
            BY <1>6, <2>2, <3>1, <3>2, <3>3 DEF prepareRam
    <2> QED
        BY <1>7, <2>1, <2>2 DEF PayloadWrite
<1>8. ASSUME NEW a \in BOOLEAN, DurableBegin(a) PROVE PhaseOK'
    <2>1. CASE FinishPrepare(FALSE)
        BY <2>1, PhaseOK_Finish
    <2>2. CASE streamOk
        BY <1>6, <1>8, <2>2 DEF DurableBegin, media, flashRam
    <2> QED
        BY <1>8, <2>1, <2>2 DEF DurableBegin
<1>9. CASE CommitBegin
    <2>1. prepared /\ phase = "idle" /\ buf.at = NoPage /\ active
        BY <1>0, <1>9 DEF CommitBegin, PhaseOK
    <2>2. UNCHANGED <<media, range, erasedEnd, buf, prepared, cand, active>>
          /\ phase' = "marker_write"
        BY <1>9 DEF CommitBegin, flashRam, candRam
    <2> QED
        BY <1>0, <2>1, <2>2 DEF PhaseOK, MarkerPhases, media, Committed, Marker
<1>10. ASSUME NEW ok \in BOOLEAN, HeaderWrite(ok) PROVE PhaseOK'
    <2>1. CASE FinishPrepare(FALSE)
        BY <2>1, PhaseOK_Finish
    <2>2. CASE UNCHANGED prepareRam
        <3>1. ~prepared /\ active /\ phase = "header_write"
            BY <1>0, <1>10 DEF HeaderWrite, PhaseOK, MarkerPhases, OpenOK
        <3>2. cell' = cell /\ range' = range /\ erasedEnd' = erasedEnd
            BY <1>10 DEF HeaderWrite, media
        <3> QED
            BY <1>6, <2>2, <3>1, <3>2 DEF prepareRam
    <2> QED
        BY <1>10, <2>1, <2>2 DEF HeaderWrite
<1>11. ASSUME NEW ok \in BOOLEAN, HeaderSync(ok) PROVE PhaseOK'
    <2>1. CASE FinishPrepare(FALSE)
        BY <2>1, PhaseOK_Finish
    <2>2. CASE ok /\ ~failed
        <3>1. ~prepared /\ active /\ phase = "header_write"
            BY <1>0, <1>11 DEF HeaderSync, PhaseOK, MarkerPhases, OpenOK
        <3>2. /\ cell' = cell /\ range' = range /\ erasedEnd' = erasedEnd
              /\ phase' = "header_readback" /\ prepared' = prepared /\ active' = active
              /\ buf'.at = NoPage
            BY <1>11, <2>2 DEF HeaderSync, media, NoBuf
        <3>3. ~Committed(range)' \/ ~(erasedEnd > 0)
            BY <1>0, <3>1, <3>2 DEF PhaseOK, Committed
        <3> QED
            BY <3>1, <3>2, <3>3 DEF PhaseOK, MarkerPhases
    <2> QED
        BY <1>11, <2>1, <2>2 DEF HeaderSync
<1>12. ASSUME UNCHANGED <<media, flashRam, ops, candRam, bootRam>>,
              HeaderReadback \/ PayloadReadback \/ ShapeWalk \/ PreparedReadback
       PROVE  PhaseOK'
    <2>1. CASE FinishPrepare(FALSE)
        BY <2>1, PhaseOK_Finish
    <2>2. CASE UNCHANGED <<active, reuse, reconcile>>
        <3>1. active /\ cand \in Records /\ range \in Slots /\ erasedEnd >= EraseEnd
              /\ EraseEnd \in Nat /\ erasedEnd \in Nat
            BY <1>12, CommitErased, SaveParts DEF HeaderReadback, PayloadReadback,
               ShapeWalk, Readback, PreparedReadback
        <3>2. UNCHANGED <<media, range, erasedEnd, buf, cand, active>>
            BY <1>12, <2>2 DEF flashRam, candRam
        <3>3. \A p \in Int : \A x : Seen(p, x) = x
            BY <3>1 DEF Seen
        <3>4. /\ Committed(range)' = Committed(range) /\ Marker(range)' = Marker(range)
              /\ hdr' = hdr /\ page' = page
            BY <3>2 DEF media, Committed, Marker
        <3>5. \A i \in 1 .. Len[cand.prof] : PayloadPage(i) \in Int
            BY DEF PayloadPage
        <3>6. HeaderPage \in Int
            BY DEF HeaderPage
        <3>7. ASSUME HeaderReadback, ~FinishPrepare(FALSE) PROVE PhaseOK'
            <4>1. /\ phase = "header_readback" /\ phase' = "payload_readback"
                  /\ prepared' = prepared /\ hdr[range] = cand
                BY <3>3, <3>6, <3>7 DEF HeaderReadback, Readback
            <4> QED
                BY <1>0, <3>2, <3>4, <4>1 DEF PhaseOK, MarkerPhases
        <3>8. ASSUME PayloadReadback, ~FinishPrepare(FALSE) PROVE PhaseOK'
            <4>1. /\ phase = "payload_readback" /\ phase' = "shape"
                  /\ prepared' = prepared
                  /\ \A i \in 1 .. Len[cand.prof] :
                         Seen(PayloadPage(i), page[range][i]) = cand.prof
                BY <3>8 DEF PayloadReadback, Readback
            <4>2. \A i \in 1 .. Len[cand.prof] : page[range][i] = cand.prof
                BY <3>3, <3>5, <4>1
            <4> QED
                BY <1>0, <3>2, <3>4, <4>1, <4>2 DEF PhaseOK, MarkerPhases
        <3>9. ASSUME ShapeWalk, ~FinishPrepare(FALSE) PROVE PhaseOK'
            <4>1. /\ phase = "shape" /\ phase' = "prepared_write"
                  /\ prepared' = prepared /\ cand.prof \notin Malformed
                BY <3>9 DEF ShapeWalk, Readback
            <4> QED
                BY <1>0, <3>2, <3>4, <4>1 DEF PhaseOK, MarkerPhases
        <3>10. ASSUME PreparedReadback, ~FinishPrepare(FALSE) PROVE PhaseOK'
            <4>1. Marker(range)' = PreparedBits /\ prepared' /\ phase = "prepared_readback"
                  /\ phase' \in {"marker_write", "idle"}
                BY <3>4, <3>10 DEF PreparedReadback
            <4> QED
                BY <1>0, <3>2, <3>4, <4>1 DEF PhaseOK, MarkerPhases
        <3> QED
            BY <1>12, <2>1, <3>7, <3>8, <3>9, <3>10
    <2> QED
        BY <1>12, <2>1, <2>2 DEF HeaderReadback, PayloadReadback, ShapeWalk, Readback,
           PreparedReadback
<1>13. ASSUME NEW ok \in BOOLEAN, PreparedWrite(ok) PROVE PhaseOK'
    <2>1. CASE FinishPrepare(FALSE)
        BY <2>1, PhaseOK_Finish
    <2>2. CASE ok
        <3>1. /\ ProgramCell(PreparedBits) /\ steps < 3 /\ phase = "prepared_write"
              /\ phase' = "prepared_readback" /\ prepared' = prepared
              /\ UNCHANGED <<hdr, page, range, erasedEnd, buf, cand, active>>
            BY <1>13, <2>2 DEF PreparedWrite, MarkerStep, candRam
        <3>2. active /\ range \in Slots /\ erasedEnd > 0
            BY <3>1, CommitErased
        <3>3. ~Committed(range)
            BY <3>1, <3>2, OpenNotCommitted
        <3>4. \A k \in Cells : cell'[range][k] \in {cell[range][k], PreparedBits}
            BY <3>1, <3>2, CellStep DEF IInv, Markers
        <3>5. ~Committed(range)'
            BY <3>1, <3>3, <3>4, MarkersDiffer DEF Committed
        <3> QED
            BY <1>0, <3>1, <3>5 DEF PhaseOK, MarkerPhases
    <2> QED
        BY <1>13, <2>1, <2>2 DEF PreparedWrite
<1>14. ASSUME NEW ok \in BOOLEAN, MarkerWrite(ok) PROVE PhaseOK'
    <2>1. CASE FinishPrepare(TRUE)
        BY <2>1, PhaseOK_Finish
    <2>2. CASE ok
        <3>1. /\ phase = "marker_write" /\ phase' = "marker_readback"
              /\ UNCHANGED <<hdr, page, range, buf, cand, prepared>>
            BY <1>14, <2>2 DEF MarkerWrite, MarkerStep, candRam
        <3> QED
            BY <1>0, <3>1 DEF PhaseOK, MarkerPhases
    <2> QED
        BY <1>14, <2>1, <2>2 DEF MarkerWrite
<1>15. CASE MarkerReadback
    BY <1>15, PhaseOK_Finish DEF MarkerReadback
<1>16. ASSUME NEW ok \in BOOLEAN, Abort(ok) PROVE PhaseOK'
    BY <1>16, PhaseOK_Finish DEF Abort
<1>17. CASE Request
    BY <1>5, <1>7, <1>8, <1>9, <1>16, <1>17 DEF Request
<1>18. CASE CommitStep
    <2>1. HeaderReadback \/ PayloadReadback \/ ShapeWalk \/ PreparedReadback
              => UNCHANGED <<media, flashRam, ops, candRam, bootRam>>
        BY DEF HeaderReadback, PayloadReadback, ShapeWalk, Readback, PreparedReadback
    <2> QED
        BY <1>10, <1>11, <1>12, <1>13, <1>14, <1>15, <1>18, <2>1 DEF CommitStep
<1> QED
    BY <1>1, <1>3, <1>4, <1>17, <1>18 DEF Next, Grant, PowerCut, PowerCutInErase

LEMMA IInv_Init == Init => IInv
<1> SUFFICES ASSUME Init PROVE IInv
    OBVIOUS
<1>1. TInv
    BY TypeInit
<1>2. \A s \in Slots : ~Committed(s) /\ ~Aborted(s)
    BY MarkersDiffer DEF Init, Committed, Aborted
<1>3. CellsOK
    BY <1>2 DEF Init, CellsOK, Markers
<1>4. \A s \in Slots : ~Bootable(s)
    BY <1>2, <1>3, MarkerCommits DEF Bootable
<1>5. MediaOK
    BY <1>4 DEF MediaOK, Slots
<1>6. BootOK /\ SlotsOK
    BY DEF Init, BootOK, SlotsOK
<1>7. SaveOK
    BY DEF Init, SaveOK, NoSlot
<1>8. PhaseOK
    BY DEF Init, PhaseOK, MarkerPhases
<1> QED
    BY <1>1, <1>3, <1>5, <1>6, <1>7, <1>8 DEF IInv

LEMMA IInv_Step == ASSUME ~BitTearing PROVE IInv /\ [Next]_vars => IInv'
<1>1. IInv /\ Next => IInv'
    <2> SUFFICES ASSUME IInv, Next PROVE IInv'
        OBVIOUS
    <2>1. TInv'
        BY TypeStep DEF IInv
    <2>2. CellsOK'
        BY MediaEffects DEF MediaEffect
    <2> QED
        BY <2>1, <2>2, BootOK_Step, SaveOK_Step, PhaseOK_Step, SlotsOK_Step,
           MediaOK_Step DEF IInv
<1>2. IInv /\ UNCHANGED vars => IInv'
    <2> SUFFICES ASSUME IInv, UNCHANGED vars PROVE IInv'
        OBVIOUS
    <2>1. UNCHANGED <<media, flashRam, prepareRam, candRam, bootRam>>
        BY DEF vars
    <2>2. TInv'
        BY TypeStep DEF IInv
    <2>3. CellsOK'
        BY <2>1, SameEffect DEF MediaEffect
    <2>4. \A s \in Slots : /\ Bootable(s)' = Bootable(s) /\ RecordOf(s)' = RecordOf(s)
                           /\ Found(s)' = Found(s) /\ hdr'[s] = hdr[s]
        BY <2>1, SlotSame DEF media
    <2>5. "A" \in Slots /\ "B" \in Slots
        BY DEF Slots
    <2>6. MediaOK' /\ BootOK'
        BY <2>1, <2>4, <2>5 DEF IInv, MediaOK, BootOK, flashRam, prepareRam, bootRam
    <2>7. SaveOK'
        BY <2>1 DEF IInv, SaveOK, flashRam, prepareRam, candRam, bootRam, TargetSlot,
           Newer, EraseEnd
    <2>8. PhaseOK'
        BY <2>1 DEF IInv, PhaseOK, media, flashRam, prepareRam, candRam, Committed, Marker
    <2>9. TargetSlot' = TargetSlot /\ TargetSlot \in Slots
        BY <2>1, TargetIsOther DEF TargetSlot, bootRam
    <2>10. SlotsOK'
        <3>1. saved # NoRecord => saved.slot \in Slots
            BY DEF IInv, TInv, TypeOK, SavedRecords
        <3> QED
            BY <2>1, <2>4, <2>5, <2>9, <3>1 DEF IInv, SlotsOK, prepareRam, candRam, bootRam
    <2> QED
        BY <2>2, <2>3, <2>6, <2>7, <2>8, <2>10 DEF IInv
<1> QED
    BY <1>1, <1>2

LEMMA Invariant == ASSUME ~BitTearing PROVE Spec => []IInv
<1>1. IInv /\ [Next]_vars => IInv'
    BY IInv_Step
<1> QED
    BY <1>1, IInv_Init, PTL DEF Spec

-----------------------------------------------------------------------------
(* What follows.                                                           *)

(* What boot selection makes of the two slots.                             *)
LEMMA AuthorityIs ==
    TInv => /\ \A s, o \in Slots :
                   s # o /\ Bootable(s) /\ (Bootable(o) => hdr[o].gen < hdr[s].gen)
                   => Authority = RecordOf(s)
            /\ (\A s \in Slots : ~Bootable(s)) => Authority = NoRecord
<1> SUFFICES ASSUME TInv PROVE
        /\ \A s, o \in Slots :
               s # o /\ Bootable(s) /\ (Bootable(o) => hdr[o].gen < hdr[s].gen)
               => Authority = RecordOf(s)
        /\ (\A s \in Slots : ~Bootable(s)) => Authority = NoRecord
    OBVIOUS
<1>1. "A" \in Slots /\ "B" \in Slots /\ \A s \in Slots : s = "A" \/ s = "B"
    BY DEF Slots
<1>2. ASSUME NEW s \in Slots, NEW o \in Slots, s # o, Bootable(s),
             Bootable(o) => hdr[o].gen < hdr[s].gen
      PROVE  Authority = RecordOf(s)
    <2>1. Found(s) = RecordOf(s) /\ Found(s) # NoRecord /\ Found(s).gen = hdr[s].gen
        BY <1>2, FoundIs DEF RecordOf
    <2>2. CASE ~Bootable(o)
        <3>1. Found(o) = NoRecord
            BY <2>2, FoundIs
        <3> QED
            BY <1>1, <1>2, <2>1, <3>1 DEF Authority, Select
    <2>3. CASE Bootable(o)
        <3>1. Found(o) # NoRecord /\ Found(o).gen = hdr[o].gen
            BY <2>3, FoundIs DEF RecordOf
        <3>2. Found(s).gen > Found(o).gen /\ ~(Found(o).gen > Found(s).gen)
            BY <1>2, <2>1, <2>3, <3>1 DEF Bootable, Whole, Records
        <3> QED
            BY <1>1, <1>2, <2>1, <3>1, <3>2 DEF Authority, Select
    <2> QED
        BY <2>2, <2>3
<1>3. ASSUME \A s \in Slots : ~Bootable(s) PROVE Authority = NoRecord
    BY <1>1, <1>3, FoundIs DEF Authority, Select
<1> QED
    BY <1>2, <1>3

LEMMA AuthorityIsNext ==
    TInv' => /\ \A s, o \in Slots :
                    s # o /\ Bootable(s)' /\ (Bootable(o)' => hdr'[o].gen < hdr'[s].gen)
                    => Authority' = RecordOf(s)'
             /\ (\A s \in Slots : ~Bootable(s)') => Authority' = NoRecord
<1>1. (TInv => /\ \A s, o \in Slots :
                      s # o /\ Bootable(s) /\ (Bootable(o) => hdr[o].gen < hdr[s].gen)
                      => Authority = RecordOf(s)
               /\ (\A s \in Slots : ~Bootable(s)) => Authority = NoRecord)'
    BY AuthorityIs, PTL
<1> QED
    BY <1>1

(* What the invariant says of boot selection, in a scanned store.          *)
LEMMA AuthorityKnown ==
    ASSUME IInv, scanned
    PROVE  \/ Authority = saved
           \/ /\ phase = "marker_readback" \/ reconcile
              /\ Authority = [slot |-> range, gen |-> cand.gen, prof |-> cand.prof]
<1>0. TInv /\ TargetSlot \in Slots
    BY TargetIsOther DEF IInv
<1>1. CASE saved = NoRecord
    <2>1. TargetSlot = "A" /\ ~Bootable("B") /\ "B" \in Slots /\ "A" \in Slots
        BY <1>1, TargetIsOther DEF IInv, SlotsOK, Slots
    <2>2. CASE ~Bootable("A")
        <3>1. \A s \in Slots : ~Bootable(s)
            BY <2>1, <2>2 DEF Slots
        <3> QED
            BY <1>0, <1>1, <3>1, AuthorityIs
    <2>3. CASE Bootable("A")
        <3>1. (phase = "marker_readback" \/ reconcile) /\ hdr["A"] = cand
            BY <1>1, <2>1, <2>3 DEF IInv, SlotsOK
        <3>2. range = "A"
            BY <2>1, <3>1 DEF IInv, TInv, OpenOK, SaveOK
        <3>3. Authority = RecordOf("A")
            BY <1>0, <2>1, <2>3, AuthorityIs
        <3> QED
            BY <3>1, <3>2, <3>3 DEF RecordOf
    <2> QED
        BY <2>2, <2>3
<1>2. CASE saved # NoRecord
    <2>1. saved.slot \in Slots /\ saved.slot # TargetSlot
        BY <1>2, TargetIsOther DEF IInv, TInv, TypeOK, SavedRecords
    <2>2. Bootable(saved.slot) /\ RecordOf(saved.slot) = saved
        BY <1>2 DEF IInv, SlotsOK
    <2>3. hdr[saved.slot].gen = saved.gen
        BY <2>2 DEF RecordOf
    <2>4. CASE Bootable(TargetSlot) => hdr[TargetSlot].gen < saved.gen
        BY <1>0, <2>1, <2>2, <2>3, <2>4, AuthorityIs
    <2>5. CASE /\ phase = "marker_readback" \/ reconcile
               /\ hdr[TargetSlot] = cand /\ Bootable(TargetSlot)
        <3>1. range = TargetSlot /\ Newer(cand.gen)
            BY <2>5 DEF IInv, TInv, OpenOK, SaveOK
        <3>2. saved.gen < cand.gen
            BY <1>2, <3>1 DEF Newer, IInv, TInv, TypeOK, SavedRecords, SaveOK, Records
        <3>3. Authority = RecordOf(TargetSlot)
            BY <1>0, <2>1, <2>3, <2>5, <3>2, AuthorityIs
        <3> QED
            BY <2>5, <3>1, <3>3 DEF RecordOf
    <2> QED
        BY <2>4, <2>5 DEF IInv, SlotsOK
<1> QED
    BY <1>1, <1>2

(* The record the store believes saved is the one the next boot selects;   *)
(* only a marker write not confirmed yet may have moved it to the          *)
(* candidate.  For any number of payload pages, sector size and profiles.  *)
THEOREM SavedIsAuthorityHolds ==
    ASSUME ~BitTearing PROVE Spec => []SavedIsAuthority
<1>1. IInv => SavedIsAuthority
    BY AuthorityKnown DEF SavedIsAuthority, MarkerPhases
<1> QED
    BY <1>1, Invariant, PTL

(* Two committed slots never hold one generation, so boot selection never  *)
(* has to refuse both.                                                     *)
THEOREM SlotsNeverConflictHolds ==
    ASSUME ~BitTearing PROVE Spec => []SlotsNeverConflict
<1>1. IInv => SlotsNeverConflict
    BY NoConflict DEF IInv, BootOK, SlotsNeverConflict
<1> QED
    BY <1>1, Invariant, PTL

(* No step, a torn erase of an abandoned save included, touches the slot   *)
(* of the saved record.                                                    *)
THEOREM SavedSlotUntouchedHolds ==
    ASSUME ~BitTearing PROVE Spec => SavedSlotUntouched
<1> DEFINE Untouched == saved # NoRecord =>
               /\ hdr'[saved.slot] = hdr[saved.slot]
               /\ cell'[saved.slot] = cell[saved.slot]
               /\ page'[saved.slot] = page[saved.slot]
<1>1. IInv /\ [Next]_vars => [Untouched]_vars
    <2> SUFFICES ASSUME IInv, Next, saved # NoRecord PROVE Untouched
        OBVIOUS
    <2>1. saved.slot \in Slots
        BY DEF IInv, TInv, TypeOK, SavedRecords
    <2> QED
        BY <2>1, SavedStays
<1>2. []IInv /\ [][Next]_vars => [][Untouched]_vars
    BY <1>1, PTL
<1> QED
    BY <1>2, Invariant, PTL DEF Spec, SavedSlotUntouched

(* A marker written but not read back leaves nothing for a step to program *)
(* or erase.                                                               *)
LEMMA UnconfirmedQuiet ==
    ASSUME IInv, Next, phase = "marker_readback" \/ reconcile
    PROVE  UNCHANGED media
<1>1. erasedEnd >= EraseEnd /\ cand \in Records
    BY CommitErased DEF IInv, SaveOK
<1>2. ~EraseDue(SectorPages)
    BY <1>1, SaveParts, Pages, ConstantsOK DEF EraseDue, EraseEnd, PayloadPage, Records
<1>3. CASE reconcile
    BY <1>2, <1>3, Quiet DEF IInv, SaveOK
<1>4. CASE phase = "marker_readback"
    BY <1>2, <1>4 DEF Next, BootStep, BootBegin, BootSlotA, BootSlotB, Request,
       PrepareBegin, PayloadWrite, DurableBegin, CommitBegin, Abort, MarkerPhases,
       CommitStep, HeaderWrite, HeaderSync, PreparedWrite, MarkerWrite,
       HeaderReadback, PayloadReadback, ShapeWalk, Readback, PreparedReadback,
       MarkerReadback, Grant, GrantBegin, GrantErase, PowerCut, PowerCutInErase
<1> QED
    BY <1>3, <1>4

Decision ==
    /\ phase = "marker_write" /\ prepared
    /\ Authority' = [slot |-> range, gen |-> cand.gen, prof |-> cand.prof]

LEMMA AuthorityStep ==
    ASSUME IInv, IInv', ~BitTearing, Next PROVE Authority' = Authority \/ Decision
<1>1. CASE UNCHANGED media
    <2>1. "A" \in Slots /\ "B" \in Slots
        BY DEF Slots
    <2> QED
        BY <1>1, <2>1, SlotSame DEF Authority, media
<1>2. CASE ~UNCHANGED media
    <2>1. scanned /\ phase # "marker_readback" /\ ~reconcile
        BY <1>2, Unscanned, UnconfirmedQuiet
    <2>2. Authority = saved
        BY <2>1, AuthorityKnown
    <2>3. TInv' /\ TargetSlot \in Slots
        BY TargetIsOther DEF IInv
    <2>4. PICK t \in Slots : t = TargetSlot
        BY <2>3
    <2>5. Bootable(t) => saved # NoRecord /\ hdr[t].gen < saved.gen
        BY <2>1, <2>4 DEF IInv, SlotsOK
    <2>6. PICK o \in Slots : o # t /\ \A s \in Slots : s = o \/ s = t
        BY <2>4 DEF Slots
    <2>7. CASE saved = NoRecord
        <3>1. ~Bootable(o)
            BY <2>1, <2>4, <2>6, <2>7, TargetIsOther DEF IInv, SlotsOK, Slots
        <3>2. ~Bootable(o)'
            BY <2>4, <2>6, <3>1, SlotCases
        <3>3. CASE ~Bootable(t)'
            BY <2>2, <2>3, <2>6, <2>7, <3>2, <3>3, AuthorityIsNext
        <3>4. CASE Bootable(t)'
            <4>1. t = range /\ phase = "marker_write" /\ hdr'[t] = cand
                BY <2>5, <2>7, <3>4, SlotCases
            <4>2. prepared
                BY <4>1 DEF IInv, PhaseOK, MarkerPhases
            <4>3. Authority' = RecordOf(t)'
                BY <2>3, <2>6, <3>2, <3>4, AuthorityIsNext
            <4> QED
                BY <4>1, <4>2, <4>3 DEF Decision, RecordOf
        <3> QED
            BY <3>3, <3>4
    <2>8. CASE saved # NoRecord
        <3>1. saved.slot = o
            BY <2>4, <2>6, <2>8, TargetIsOther DEF IInv, TInv, TypeOK, SavedRecords
        <3>2. Bootable(o)' = Bootable(o) /\ RecordOf(o)' = RecordOf(o)
            BY <2>8, <3>1, SavedStays, SlotSame
        <3>3. Bootable(o) /\ RecordOf(o) = saved
            BY <2>1, <2>8, <3>1 DEF IInv, SlotsOK
        <3>4. hdr'[o].gen = saved.gen
            BY <3>2, <3>3 DEF RecordOf
        <3>5. CASE Bootable(t)' => hdr'[t].gen < saved.gen
            <4>1. Authority' = RecordOf(o)'
                BY <2>3, <2>6, <3>2, <3>3, <3>4, <3>5, AuthorityIsNext
            <4> QED
                BY <2>2, <3>2, <3>3, <4>1
        <3>6. CASE /\ Bootable(t)' /\ t = range /\ phase = "marker_write"
                   /\ hdr'[t] = cand /\ active
            <4>1. prepared /\ Newer(cand.gen) /\ cand \in Records
                BY <3>6 DEF IInv, PhaseOK, MarkerPhases, SaveOK
            <4>2. hdr'[o].gen < hdr'[t].gen
                BY <2>8, <3>4, <3>6, <4>1 DEF Newer
            <4>3. Authority' = RecordOf(t)'
                BY <2>3, <2>6, <3>6, <4>2, AuthorityIsNext
            <4> QED
                BY <3>6, <4>1, <4>3 DEF Decision, RecordOf
        <3> QED
            BY <2>5, <3>5, <3>6, SlotCases
    <2> QED
        BY <2>7, <2>8
<1> QED
    BY <1>1, <1>2

(* What boot selects changes only when the marker of a prepared save is    *)
(* written, and then to that save's profile.                               *)
THEOREM AuthorityMovesOnDecisionHolds ==
    ASSUME ~BitTearing PROVE Spec => AuthorityMovesOnDecision
<1> DEFINE Moves == Authority' # Authority =>
               /\ phase = "marker_write" /\ prepared
               /\ Authority' = [slot |-> range, gen |-> cand.gen, prof |-> cand.prof]
<1>1. IInv /\ IInv' /\ [Next]_vars => [Moves]_vars
    BY AuthorityStep DEF Decision
<1>2. []IInv /\ [][Next]_vars => [][Moves]_vars
    BY <1>1, PTL
<1> QED
    BY <1>2, Invariant, PTL DEF Spec, AuthorityMovesOnDecision

-----------------------------------------------------------------------------
(* The store implements SavedProfile.                                      *)

(* What a step does to the save under way: nothing, it begins, its decision *)
(* begins, or it ends.                                                      *)
Deciding == phase \in MarkerPhases

SaveGoesOn == (active' <=> active) /\ (active => cand' = cand) /\ (Deciding' <=> Deciding)
SaveBegins ==
    /\ ~active /\ active' /\ ~Deciding /\ ~Deciding' /\ UNCHANGED media
    /\ scanned /\ ~reconcile /\ Newer(cand'.gen)
SaveDecides ==
    /\ active /\ active' /\ cand' = cand /\ ~Deciding /\ Deciding' /\ UNCHANGED media
SaveEnds == active /\ ~active' /\ ~Deciding'

\* A read-back moves on, or ends the save.
Passed(to) ==
    /\ cand' = cand
    /\ (phase' = to /\ active' = active) \/ FinishPrepare(FALSE)

LEMMA StepOfTheSave ==
    ASSUME IInv, Next PROVE SaveGoesOn \/ SaveBegins \/ SaveDecides \/ SaveEnds
<1>0. ~active => phase = "idle"
    BY DEF IInv, TInv, OpenOK
<1>1. CASE BootStep
    BY <1>1 DEF BootStep, BootBegin, BootSlotA, BootSlotB, prepareRam, candRam, SaveGoesOn, Deciding
<1>2. CASE Grant
    BY <1>2 DEF Grant, GrantBegin, GrantErase, prepareRam, candRam, SaveGoesOn, Deciding
<1>3. CASE PowerCut \/ PowerCutInErase
    BY <1>0, <1>3 DEF PowerCut, PowerCutInErase, PowerOn, SaveGoesOn, SaveEnds, Deciding, MarkerPhases
<1>4. ASSUME NEW c \in Candidates, PrepareBegin(c) PROVE SaveBegins
    BY <1>0, <1>4 DEF PrepareBegin, SaveBegins, Deciding, MarkerPhases, media
<1>5. ASSUME NEW q \in Profiles, NEW full \in BOOLEAN, NEW ok \in BOOLEAN, PayloadWrite(q, full, ok)
      PROVE  SaveGoesOn \/ SaveEnds
    BY <1>5 DEF PayloadWrite, FinishPrepare, prepareRam, SaveGoesOn, SaveEnds, Deciding, MarkerPhases
<1>6. ASSUME NEW a \in BOOLEAN, DurableBegin(a) PROVE SaveGoesOn \/ SaveEnds
    BY <1>6 DEF DurableBegin, FinishPrepare, candRam, SaveGoesOn, SaveEnds, Deciding, MarkerPhases
<1>7. CASE CommitBegin
    BY <1>7 DEF CommitBegin, candRam, media, SaveDecides, Deciding, MarkerPhases
<1>8. ASSUME NEW ok \in BOOLEAN, Abort(ok) PROVE SaveEnds
    BY <1>8 DEF Abort, FinishPrepare, SaveEnds, Deciding, MarkerPhases
<1>9. CASE CommitStep
    <2>1. phase # "idle" => active
        BY <1>0
    <2>2. ASSUME NEW ok \in BOOLEAN, HeaderWrite(ok) \/ HeaderSync(ok) \/ PreparedWrite(ok) \/ MarkerWrite(ok)
          PROVE  SaveGoesOn \/ SaveEnds
        <3>1. phase # "idle"
            BY <2>2 DEF HeaderWrite, HeaderSync, PreparedWrite, MarkerWrite
        <3>2. CASE HeaderWrite(ok)
            BY <2>1, <3>1, <3>2 DEF HeaderWrite, FinishPrepare, prepareRam, candRam, SaveGoesOn, SaveEnds,
               Deciding, MarkerPhases
        <3>3. CASE HeaderSync(ok)
            BY <2>1, <3>1, <3>3 DEF HeaderSync, FinishPrepare, prepareRam, candRam, SaveGoesOn, SaveEnds,
               Deciding, MarkerPhases
        <3>4. CASE PreparedWrite(ok)
            BY <2>1, <3>1, <3>4 DEF PreparedWrite, FinishPrepare, prepareRam, candRam, SaveGoesOn, SaveEnds,
               Deciding, MarkerPhases
        <3>5. CASE MarkerWrite(ok)
            BY <2>1, <3>1, <3>5 DEF MarkerWrite, FinishPrepare, prepareRam, candRam, SaveGoesOn, SaveEnds,
               Deciding, MarkerPhases
        <3> QED
            BY <2>2, <3>2, <3>3, <3>4, <3>5
    <2>3. CASE HeaderReadback \/ PayloadReadback \/ ShapeWalk
        <3>1. \/ phase = "header_readback" /\ Passed("payload_readback")
              \/ phase = "payload_readback" /\ Passed("shape")
              \/ phase = "shape" /\ Passed("prepared_write")
            BY <2>3, Zenon DEF HeaderReadback, PayloadReadback, ShapeWalk, Readback, Passed, candRam
        <3> QED
            BY <2>1, <3>1 DEF Passed, FinishPrepare, SaveGoesOn, SaveEnds, Deciding, MarkerPhases
    <2>4. CASE PreparedReadback
        <3>1. UNCHANGED media /\ cand' = cand /\ phase = "prepared_readback"
            BY <2>4 DEF PreparedReadback, candRam
        <3>2. \/ active' = active /\ (phase' = "marker_write" \/ phase' = "idle")
              \/ FinishPrepare(FALSE)
            BY <2>4, Zenon DEF PreparedReadback
        <3> QED
            BY <2>1, <3>1, <3>2 DEF FinishPrepare, SaveGoesOn, SaveDecides, SaveEnds, Deciding,
               MarkerPhases
    <2>5. CASE MarkerReadback
        BY <2>1, <2>5 DEF MarkerReadback, FinishPrepare, SaveEnds, Deciding, MarkerPhases
    <2> QED
        BY <1>9, <2>2, <2>3, <2>4, <2>5 DEF CommitStep
<1> QED
    BY <1>1, <1>2, <1>3, <1>4, <1>5, <1>6, <1>7, <1>8, <1>9 DEF Next, Request

LEMMA AuthorityType == ASSUME TypeOK PROVE Authority \in SavedRecords \cup {NoRecord}
<1>1. "A" \in Slots /\ "B" \in Slots
    BY DEF Slots
<1> QED
    BY <1>1, FoundType DEF Authority, Select

LEMMA ValueNewer ==
    ASSUME TypeOK, NEW g \in Nat, Authority = saved, Newer(g)
    PROVE  Value(Authority) # NoRecord => g > Value(Authority).gen
BY DEF Value, Newer, TypeOK, SavedRecords

LEMMA AuthoritySame == ASSUME UNCHANGED media PROVE Authority' = Authority
<1>1. "A" \in Slots /\ "B" \in Slots
    BY DEF Slots
<1> QED
    BY <1>1, SlotSame DEF Authority, media

LEMMA NothingSaved == ASSUME Init PROVE Authority = NoRecord
<1>1. \A s \in Slots : hdr[s] = Erased
    BY DEF Init
<1>2. \A s \in Slots : ~Bootable(s)
    BY <1>1, ContentsOK DEF Bootable, Whole
<1> QED
    BY <1>2 DEF Authority, Found, Select, Slots

(* The store implements one durable register: a save proposes a newer      *)
(* record, is decided, becomes the value at the instant its marker lands,  *)
(* and may be dropped before and after; nothing else moves the value.      *)
THEOREM ImplementsSavedProfileHolds ==
    ASSUME ~BitTearing PROVE Spec => ImplementsSavedProfile
<1> DEFINE V == Value(Authority)
           P == IF active THEN cand ELSE NoRecord
           D == phase \in MarkerPhases
<1>0. Saved!Records = Records /\ NoRecord \notin Records
    BY ContentsOK DEF Saved!Records, Records
<1>1. Init => Saved!Init
    <2> SUFFICES ASSUME Init PROVE Saved!Init
        OBVIOUS
    <2>1. V = NoRecord
        BY NothingSaved DEF Value
    <2>2. P = NoRecord
        BY DEF Init
    <2>3. D = FALSE
        BY DEF Init, MarkerPhases
    <2> QED
        BY <2>1, <2>2, <2>3 DEF Saved!Init
<1>2. IInv /\ IInv' /\ [Next]_vars => [Saved!Next]_(Saved!vars)
    <2> SUFFICES ASSUME IInv, IInv', [Next]_vars PROVE [Saved!Next]_(Saved!vars)
        OBVIOUS
    <2>0. D \in BOOLEAN /\ D' \in BOOLEAN /\ (D <=> Deciding) /\ (D' <=> Deciding')
        BY DEF Deciding
    <2>1. /\ active => P = cand /\ P # NoRecord
          /\ ~active => P = NoRecord /\ ~D
        BY <1>0 DEF IInv, TInv, OpenOK, SaveOK, MarkerPhases
    <2>2. /\ active' => P' = cand' /\ cand' \in Records
          /\ ~active' => P' = NoRecord
        BY DEF IInv, SaveOK
    <2>3. Decision => D /\ active /\ V' = P
        <3> SUFFICES ASSUME Decision PROVE D /\ active /\ V' = P
            OBVIOUS
        <3>1. D /\ active
            BY DEF Decision, MarkerPhases, IInv, SaveOK
        <3>2. cand \in Records
            BY <3>1 DEF IInv, SaveOK
        <3>3. Authority' \in SavedRecords
            BY <3>1, <3>2 DEF Decision, IInv, TInv, OpenOK, TypeOK, NoSlot, Records, SavedRecords
        <3>4. Authority' # NoRecord
            BY <3>3, ContentsOK
        <3>5. cand = [gen |-> cand.gen, prof |-> cand.prof]
            BY <3>2 DEF Records
        <3> QED
            BY <3>1, <3>4, <3>5 DEF Decision, Value
    <2> HIDE DEF V, P, D
    <2>4. CASE UNCHANGED vars
        BY <2>4, AuthoritySame DEF vars, media, prepareRam, candRam, V, P, D, Saved!vars
    <2>5. CASE Next /\ SaveGoesOn
        <3>1. P' = P /\ D' = D
            BY <2>0, <2>1, <2>2, <2>5 DEF SaveGoesOn
        <3>2. CASE Authority' = Authority
            BY <3>1, <3>2 DEF V, P, D, Saved!vars
        <3>3. CASE Decision
            BY <2>3, <3>1, <3>3 DEF V, P, D, Saved!Next, Saved!Commit
        <3> QED
            BY <2>5, <3>2, <3>3, AuthorityStep
    <2>6. CASE Next /\ SaveBegins
        <3>1. V' = V /\ P = NoRecord /\ P' \in Saved!Records /\ D' = D
            BY <1>0, <2>0, <2>1, <2>2, <2>6, AuthoritySame DEF SaveBegins, V
        <3>2. Authority = saved
            BY <2>6, AuthorityKnown DEF SaveBegins, Deciding, MarkerPhases
        <3>3. V # NoRecord => P'.gen > V.gen
            BY <2>2, <2>6, <3>2, ValueNewer DEF SaveBegins, Records, IInv, TInv, V
        <3> QED
            BY <3>1, <3>3 DEF V, P, D, Saved!Next, Saved!Propose
    <2>7. CASE Next /\ SaveDecides
        <3>1. V' = V /\ P' = P /\ P # NoRecord /\ ~D /\ D' = TRUE
            BY <2>0, <2>1, <2>2, <2>7, AuthoritySame DEF SaveDecides, V
        <3> QED
            BY <3>1 DEF V, P, D, Saved!Next, Saved!Decide
    <2>8. CASE Next /\ SaveEnds
        <3>1. P # NoRecord /\ P' = NoRecord /\ D' = FALSE
            BY <2>0, <2>1, <2>2, <2>8 DEF SaveEnds
        <3>2. CASE Authority' = Authority
            BY <3>1, <3>2 DEF V, P, D, Saved!Next, Saved!Drop
        <3>3. CASE Decision
            BY <2>3, <3>1, <3>3 DEF V, P, D, Saved!Next, Saved!Commit
        <3> QED
            BY <2>8, <3>2, <3>3, AuthorityStep
    <2> QED
        BY <2>4, <2>5, <2>6, <2>7, <2>8, StepOfTheSave
<1> QED
    BY <1>1, <1>2, Invariant, PTL DEF Spec, ImplementsSavedProfile, Saved!Spec
=============================================================================
