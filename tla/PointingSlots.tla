---- MODULE PointingSlots ----
(* The pointing modes of a profile (profile_pd_v1.c): a header, then a record *)
(* for every slot that says something, in the order of the slots; the check   *)
(* that reads a payload piece by piece, the order of checks inside a record,  *)
(* and the encoder of a build's own slots (profile_pd_compiled_v1.c).         *)
(* A record is two pieces: its head [id, kind, ends, linked], what ends a     *)
(* mode its linked layers started and those layers; and its tail [rest,       *)
(* named], whether every other field is zero, fits its kind or does not, and  *)
(* whether it has a name.  A head's reserved byte or range error is rest Bad. *)
EXTENDS Integers, FiniteSets, SequencesExt

CONSTANTS
    SlotCount,   \* NOAH_PROFILE_PD_V1_SLOT_COUNT
    LinkLayers   \* the layers a link may name

Zero == "zero"
Fits == "fits"
Wrong == "wrong"

RecordSize == 2
HeaderSize == 1

Begin(length) ==
    [phase |-> "pointing", length |-> length, header |-> FALSE, count |-> 0,
     index |-> 0, used |-> 0, minimum |-> 0, starting_layers |-> {}]

Over(v) == v.phase \in {"rejected", "valid"}
Reject(v) == [v EXCEPT !.phase = "rejected"]

Present(head, tail) == head.kind # "disabled" \/ tail.named

\* A disabled slot has only an id and a name; another has a name, a link that
\* ends only what its layers start, and parameters that fit its kind.
RecordFits(head, tail) ==
    IF head.kind = "disabled"
    THEN ~head.ends /\ head.linked = {} /\ tail.rest = Zero
    ELSE /\ tail.named
         /\ head.ends => head.linked # {}
         /\ tail.rest = Fits

\* noah_profile_pd_v1_validate_entry and cursor_next: slots go up, and no layer
\* starts two modes.
EntryFits(v, head, tail) ==
    /\ head.id < SlotCount /\ head.id >= v.minimum
    /\ RecordFits(head, tail) /\ Present(head, tail)
    /\ head.linked \cap v.starting_layers = {}

IteratorComplete(v) == v.header /\ v.index = v.count

At(v) == IF ~v.header THEN 0 ELSE HeaderSize + v.index * RecordSize + v.used
Reads(v) == IF Over(v) \/ v.length < HeaderSize THEN {} ELSE {At(v)}

HeaderStep(v, cell) ==
    IF cell > SlotCount \/ v.length # HeaderSize + cell * RecordSize THEN Reject(v)
    ELSE LET w == [v EXCEPT !.header = TRUE, !.count = cell]
         IN  IF IteratorComplete(w) THEN [w EXCEPT !.phase = "valid"] ELSE w

CursorNext(v, head, tail) ==
    LET w == [v EXCEPT !.index = @ + 1, !.used = 0, !.minimum = head.id + 1,
                       !.starting_layers = @ \cup head.linked]
    IN  IF ~EntryFits(v, head, tail) THEN Reject(v)
        ELSE IF IteratorComplete(w) THEN [w EXCEPT !.phase = "valid"] ELSE w

Takes(v, bytes) ==
    CASE v.length < HeaderSize -> Reject(v)
      [] ~v.header             -> HeaderStep(v, bytes[0])
      [] v.header /\ v.used = 0 -> [v EXCEPT !.used = 1]
      [] OTHER -> CursorNext(v, bytes[At(v) - 1], bytes[At(v)])

Heads == [id : 0 .. SlotCount, kind : {"disabled", "directional"}, ends : BOOLEAN,
          linked : SUBSET LinkLayers]
Tails == [rest : {Zero, Fits, Wrong}, named : BOOLEAN]
Cells(v) ==
    CASE ~v.header              -> 0 .. SlotCount + 1
      [] v.header /\ v.used = 0 -> Heads
      [] OTHER                  -> Tails

(* ---- the encoder ---------------------------------------------------------- *)

\* The compiled defaults of a build, one [head, tail] for each slot: the slots
\* that say nothing are left out, and a build whose records do not fit has none.
Encode(slots) ==
    LET stored == SelectSeq([i \in 1 .. SlotCount |-> slots[i - 1]],
                            LAMBDA s : Present(s.head, s.tail))
        pieces == FlattenSeq([i \in DOMAIN stored |-> <<stored[i].head, stored[i].tail>>])
    IN  [o \in 0 .. Len(pieces) |-> IF o = 0 THEN Len(stored) ELSE pieces[o]]

Encodable(slots) ==
    /\ \A i \in DOMAIN slots : slots[i].head.id = i /\ RecordFits(slots[i].head, slots[i].tail)
    /\ \A i, j \in DOMAIN slots : i # j => slots[i].head.linked \cap slots[j].head.linked = {}

\* Every slot of an accepted payload, those left out disabled and unnamed.
SlotsOf(bytes) ==
    LET record(n) == [head |-> bytes[1 + 2 * n], tail |-> bytes[2 + 2 * n]]
        of(i)     == {n \in 0 .. bytes[0] - 1 : record(n).head.id = i}
    IN  [i \in 0 .. SlotCount - 1 |->
            IF of(i) # {} THEN record(CHOOSE n \in of(i) : TRUE)
            ELSE [head |-> [id |-> i, kind |-> "disabled", ends |-> FALSE, linked |-> {}],
                  tail |-> [rest |-> Zero, named |-> FALSE]]]

SlotsReadBack(bytes) == Encodable(SlotsOf(bytes)) /\ Encode(SlotsOf(bytes)) = bytes
====
