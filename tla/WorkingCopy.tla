----------------------------- MODULE WorkingCopy -----------------------------
(* One half's working copy (profile_working_copy.c): the profile the half  *)
(* runs with its unsaved edits, an edit on its way into it, and the way    *)
(* back to the saved profile.  The operators take the copy and give back   *)
(* the copy and a result; the two halves are composed in WorkingCopySync.  *)
(*                                                                         *)
(* A profile's bytes are the sequence of the changes that made it.  A      *)
(* change is a splice that adds one, a splice that takes the last one off  *)
(* (an edit undone), or the whole profile sent as a replacement.  What a   *)
(* splice does therefore depends on the bytes it is applied to.            *)
EXTENDS Integers, Sequences, SequencesExt

CONSTANT Chunks             \* the DATA frames of a whole profile
ASSUME ChunksAssumption == Chunks \in Nat \ {0}

Torn == <<0>>               \* pieces of different profiles, one after another

NoEdit == [whole |-> FALSE, total |-> 0, splice |-> "none", staged |-> <<>>, target |-> 0]
NotPublished == [valid |-> FALSE, rev |-> 0, whole |-> FALSE, splice |-> "none", crc |-> <<>>]

\* noah_profile_working_copy_init: a boot runs the saved profile under a
\* session of its own.
Booted(session, saved, bytes) ==
    [session |-> session, rev |-> 0, active |-> FALSE, saved |-> saved, bytes |-> bytes,
     phase |-> "idle", txn |-> 0, lastTxn |-> 0, lastResult |-> "OK", settling |-> FALSE,
     edit |-> NoEdit, published |-> NotPublished]

Idle(c) == c.phase = "idle"
Answer(result, c) == [result |-> result, copy |-> c]

\* An edit ends OK or REFUSED; which refusal it was only the client is told.
ClearEdit(c) == [c EXCEPT !.txn = 0, !.edit = NoEdit, !.phase = "idle"]
Finish(c, result) ==
    [ClearEdit(c) EXCEPT !.settling = FALSE, !.lastTxn = c.txn, !.lastResult = result]

\* What BEGIN says of an edit: the inserted bytes' frames, and whether they
\* are a whole profile.
Begin(c, txn, session, rev, whole, total) ==
    LET repeated == /\ c.phase = "receiving" /\ c.txn = txn
                    /\ c.edit.whole = whole /\ c.edit.total = total
                    /\ c.edit.target = rev + 1 /\ c.session = session
    IN  IF repeated THEN Answer("OK", c)
        ELSE IF ~Idle(c) THEN Answer("BUSY", c)
        ELSE IF session # c.session \/ rev # c.rev THEN Answer("STALE", c)
        ELSE IF whole /\ c.active THEN Answer("NOT_CLEAN", c)
        ELSE Answer("OK", [ClearEdit(c) EXCEPT
                 !.txn = txn, !.phase = "receiving",
                 !.edit = [NoEdit EXCEPT !.whole = whole, !.total = total, !.target = rev + 1]])

Receiving(c, txn) ==
    IF Idle(c) THEN "INVALID_STATE" ELSE IF c.phase # "receiving" THEN "BUSY"
    ELSE IF c.txn # txn THEN "WRONG_TRANSACTION" ELSE "OK"

\* The edit's one splice; sent again it must be the same.
Splice(c, txn, splice) ==
    IF Receiving(c, txn) # "OK" THEN Answer(Receiving(c, txn), c)
    ELSE IF c.edit.whole THEN Answer("INVALID_ARGUMENT", c)
    ELSE IF c.edit.splice = "none" THEN Answer("OK", [c EXCEPT !.edit.splice = splice])
    ELSE Answer(IF c.edit.splice = splice THEN "OK" ELSE "OUT_OF_ORDER", c)

\* The offset-th piece of the inserted bytes; sent again it must be the same.
Data(c, txn, offset, piece) ==
    LET staged == c.edit.staged
    IN  IF Receiving(c, txn) # "OK" THEN Answer(Receiving(c, txn), c)
        ELSE IF offset >= c.edit.total THEN Answer("CAPACITY_EXCEEDED", c)
        ELSE IF offset < Len(staged)
             THEN Answer(IF staged[offset + 1] = piece THEN "OK" ELSE "OUT_OF_ORDER", c)
        ELSE IF offset > Len(staged) THEN Answer("OUT_OF_ORDER", c)
        ELSE Answer("OK", [c EXCEPT !.edit.staged = Append(staged, piece)])

\* plan: the splice must fit the bytes it meets.
Fits(c) == c.edit.splice = "drop" => c.bytes # <<>>

\* The bytes the edit makes of the copy's.
Result(c) ==
    IF c.edit.whole
    THEN IF \A i \in DOMAIN c.edit.staged : c.edit.staged[i] = c.edit.staged[1]
         THEN c.edit.staged[1] ELSE Torn
    ELSE IF c.edit.splice = "drop" THEN Front(c.bytes)
    ELSE c.bytes \o c.edit.staged[1]

\* From here the edit is loaded, checked and waits for a moment between two
\* keys: no request tells these phases apart, so they are one, "applying".
Commit(c, txn, crc) ==
    LET complete == /\ Len(c.edit.staged) = c.edit.total
                    /\ c.edit.whole \/ c.edit.splice # "none"
    IN  IF Receiving(c, txn) # "OK" THEN Answer(Receiving(c, txn), c)
        ELSE IF ~complete THEN Answer("INVALID_STATE", c)
        ELSE IF c.edit.staged # crc
             THEN Answer("CHECKSUM_MISMATCH", Finish(c, "REFUSED"))
        ELSE IF ~c.edit.whole /\ ~Fits(c)
             THEN Answer("INVALID_SPLICE", Finish(c, "REFUSED"))
        ELSE Answer("QUEUED",
                 [c EXCEPT !.phase = "applying"])

Abort(c, txn) ==
    IF Idle(c) THEN Answer("OK", c)
    ELSE IF c.txn # txn THEN Answer("WRONG_TRANSACTION", c)
    ELSE IF c.phase = "reverting" THEN Answer("BUSY", c)
    ELSE Answer("OK", Finish(c, "REFUSED"))

Revert(c, txn, session, rev) ==
    IF c.phase = "reverting" /\ c.txn = txn THEN Answer("QUEUED", c)
    ELSE IF ~Idle(c) THEN Answer("BUSY", c)
    ELSE IF session # c.session \/ rev # c.rev THEN Answer("STALE", c)
    ELSE IF ~c.active THEN Answer("OK", Finish([c EXCEPT !.txn = txn], "OK"))
    ELSE Answer("QUEUED", [c EXCEPT !.txn = txn, !.phase = "reverting"])

Adopt(c, session, rev) ==
    IF Idle(c) /\ ~c.active THEN Answer("OK", [c EXCEPT !.session = session, !.rev = rev])
    ELSE Answer("BUSY", c)

\* Save found the working copy equal to the saved profile: back to it.
SettleSaved(c) == [c EXCEPT !.settling = TRUE, !.phase = "reverting"]

\* scan_publish: the edit is live.  Its splice and bytes are kept for the
\* other half.
Published(c) ==
    [Finish([c EXCEPT !.active = TRUE, !.bytes = Result(c), !.rev = c.edit.target], "OK")
        EXCEPT !.published = [valid |-> TRUE, rev |-> c.edit.target, whole |-> c.edit.whole,
                              splice |-> c.edit.splice, crc |-> c.edit.staged]]

\* scan_revert, published: a Save that settles keeps the revision.
Reverted(c, savedBytes) ==
    LET back == [c EXCEPT !.active = FALSE, !.bytes = savedBytes, !.published.valid = FALSE]
    IN  IF c.settling THEN [back EXCEPT !.settling = FALSE, !.phase = "idle"]
        ELSE Finish([back EXCEPT !.rev = @ + 1], "OK")

\* scan_revert, refused: a Save that settles leaves the copy as it was.
RevertRefused(c) ==
    IF c.settling THEN [c EXCEPT !.settling = FALSE, !.phase = "idle"]
    ELSE Finish(c, "REFUSED")

\* Mutant: the name changes with every saved profile, the half's own Save's too.
ReplacedAlwaysRenamed(c, saved, bytes, changed) ==
    LET ended == IF Idle(c) THEN c ELSE Finish(c, "REFUSED")
    IN  [ended EXCEPT !.active = FALSE, !.saved = saved, !.bytes = bytes,
                      !.published.valid = FALSE, !.rev = @ + 1]

\* noah_profile_working_copy_note_replaced: the half runs another saved profile.
Replaced(c, saved, bytes, changed) ==
    LET ended == IF Idle(c) THEN c ELSE Finish(c, "REFUSED")
    IN  [ended EXCEPT !.active = FALSE, !.saved = saved, !.bytes = bytes,
                      !.published.valid = FALSE, !.rev = IF changed THEN @ + 1 ELSE @]
=============================================================================
