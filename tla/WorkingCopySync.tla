--------------------------- MODULE WorkingCopySync ---------------------------
(* The master half brings the other half's working copy to its own         *)
(* (profile_working_sync.c): it sends the last edit again, or sends the    *)
(* other half back to its saved profile and then the whole copy.  The      *)
(* other half answers from a mailbox and a published reply; a request is   *)
(* repeated under one sequence number until its reply arrives, so a lost   *)
(* request or reply is a step that does not happen.                        *)
(*                                                                         *)
(* Around them: the host edits, reverts and saves the master half's copy   *)
(* and applies new profiles; a save or an Apply reaches both halves'       *)
(* stores together (TwoHalfSave) and each half changes over in its own     *)
(* time; and either half restarts.                                         *)
EXTENDS WorkingCopy

CONSTANTS
    Changes,        \* bound: changes the host makes, each with a number of its own
    Saves,          \* bound: saves and Applies
    Faults,         \* bound: restarts, timeouts, publications refused
    Splices         \* the kinds of edits the host sends
ASSUME SplicesAssumption == Splices \subseteq {"add", "drop", "whole"}

VARIABLES
    copy,           \* half -> its working copy
    store,          \* the saved profiles' bytes, oldest first
    behind,         \* the halves whose publication of the last saved profile waits
    save,           \* the master half's Save: "idle", "writing", "written", "settling"
    view,           \* the other half as the master half last heard of it
    req,            \* the request repeated until answered
    seq, nextTxn,   \* the next request's sequence number and transaction
    fwd,            \* the edit being sent
    agreed,         \* the last identity both halves were seen to hold
    mailbox, scanning, reply,    \* the other half's request, its scan at work, the last reply
    changes, sessions, faults    \* counters of the bounds

sync == <<view, req, seq, nextTxn, fwd, agreed>>
slave == <<mailbox, scanning, reply>>
owner == <<store, behind, save>>
counts == <<changes, sessions, faults>>
vars == <<copy, owner, sync, slave, counts>>

Halves == {"master", "other"}
Master == copy["master"]
Other == copy["other"]

NoRequest == [kind |-> "none", seq |-> 0]
NoReply == [kind |-> "none", seq |-> 0]
Unheard == [known |-> FALSE, session |-> 0, rev |-> 0, active |-> FALSE, phase |-> "idle",
            lastResult |-> "OK", txn |-> 0, saved |-> 0]
NoForward == [phase |-> "none", rev |-> 0, txn |-> 0, replace |-> FALSE, sent |-> <<>>,
              failedRev |-> 0, failedWhole |-> FALSE]
NoAgreement == [on |-> FALSE, session |-> 0, rev |-> 0]

Init ==
    /\ copy = [h \in Halves |-> Booted(IF h = "master" THEN 1 ELSE 2, 1, <<>>)]
    /\ store = << <<>> >> /\ behind = {} /\ save = "idle"
    /\ view = Unheard /\ req = NoRequest /\ seq = 1 /\ nextTxn = 1
    /\ fwd = NoForward /\ agreed = NoAgreement
    /\ mailbox = NoRequest /\ scanning = FALSE /\ reply = NoReply
    /\ changes = 0 /\ sessions = 2 /\ faults = 0

(***************************************************************************)
(* The other half.                                                         *)
(***************************************************************************)
Status(c) ==
    [session |-> c.session, rev |-> c.rev, active |-> c.active, phase |-> c.phase,
     lastResult |-> c.lastResult, txn |-> IF Idle(c) THEN c.lastTxn ELSE c.txn, saved |-> c.saved]

\* process_request: what a request does to the copy.
Process(c, r) ==
    CASE r.kind = "STATUS" -> Answer("OK", c)
      [] r.kind = "BEGIN" -> Begin(c, r.txn, r.body.session, r.body.rev, r.body.whole, r.body.total)
      [] r.kind = "SPLICE" -> Splice(c, r.txn, r.body.splice)
      [] r.kind = "DATA" -> Data(c, r.txn, r.body.offset, r.body.piece)
      [] r.kind = "COMMIT" -> Commit(c, r.txn, r.body.crc)
      [] r.kind = "ABORT" -> Abort(c, r.txn)
      [] r.kind = "REVERT" ->
             LET free == IF c.phase \in {"idle", "reverting"} THEN c ELSE Abort(c, c.txn).copy
             IN  Revert(free, r.txn, free.session, free.rev)
      [] r.kind = "ADOPT" ->
             IF c.saved # r.body.saved THEN Answer("INVALID_STATE", c)
             ELSE Adopt(c, r.body.session, r.body.rev)

\* The main loop takes the request, works it off and publishes the reply ...
SlaveScan ==
    /\ ~scanning /\ mailbox # NoRequest
    /\ LET done == Process(Other, mailbox)
       IN  /\ copy' = [copy EXCEPT !["other"] = done.copy]
           /\ reply' = [kind |-> mailbox.kind, seq |-> mailbox.seq,
                        result |-> done.result, status |-> Status(done.copy)]
    /\ scanning' = TRUE
    /\ UNCHANGED <<owner, sync, mailbox, counts>>

\* ... and only then takes another request.
SlaveScanEnds ==
    /\ scanning
    /\ mailbox' = NoRequest /\ scanning' = FALSE
    /\ UNCHANGED <<copy, owner, sync, reply, counts>>

\* noah_profile_working_sync_receive: the callback finds this request's reply,
\* or an empty mailbox.  Else it says BUSY and the request is repeated.
Answered == reply.kind = req.kind /\ reply.seq = req.seq
\* Mutant: the callback does not look for the reply first.
AdmittedBlindly ==
    /\ req # NoRequest /\ mailbox = NoRequest
    /\ mailbox' = req
    /\ UNCHANGED <<copy, owner, sync, scanning, reply, counts>>

Admitted ==
    /\ req # NoRequest /\ ~Answered /\ mailbox = NoRequest
    /\ mailbox' = req
    /\ UNCHANGED <<copy, owner, sync, scanning, reply, counts>>

(***************************************************************************)
(* The master half.                                                        *)
(***************************************************************************)
Matches(v) ==
    /\ v.known /\ v.session = Master.session /\ v.rev = Master.rev
    /\ v.phase = "idle" /\ v.active = Master.active

Converged == Matches(view) /\ fwd.phase = "none"
Refused == Master.active /\ fwd.failedWhole /\ fwd.failedRev = Master.rev

\* Sequence number 1 is a life's first; the others only differ from the last.
NextSeq(n) == IF n = 2 THEN 3 ELSE 2

\* A request; its body has what the other half reads of it.
Send(kind, txn, body) ==
    /\ req' = [kind |-> kind, seq |-> seq, txn |-> txn, body |-> body]
    /\ seq' = NextSeq(seq)

\* The bytes being sent: the whole copy's, or the published edit's.
Whole(f) == f.replace \/ Master.published.whole
Total(f) == IF Whole(f) THEN Chunks ELSE IF Master.published.splice = "drop" THEN 0 ELSE 1
Piece(f) == IF Whole(f) THEN Master.bytes ELSE Master.published.crc[1]
Crc(f) == IF f.replace THEN f.sent ELSE Master.published.crc

\* build_forward
SendForward(f) ==
    CASE f.phase = "begin" ->
             Send("BEGIN", f.txn, [session |-> Master.session, rev |-> f.rev - 1,
                                   whole |-> Whole(f), total |-> Total(f)])
      [] f.phase = "splices" ->
             Send("SPLICE", f.txn, [splice |-> Master.published.splice])
      [] f.phase = "data" ->
             Send("DATA", f.txn, [offset |-> Len(f.sent), piece |-> Piece(f)])
      [] f.phase = "commit" -> Send("COMMIT", f.txn, [crc |-> Crc(f)])

\* Mutant: an edit the other half refused is not remembered.
EndedWithoutTrace(f, failed) ==
    [NoForward EXCEPT !.failedRev = f.failedRev, !.failedWhole = f.failedWhole]

\* end_forward
EndForward(f, failed) ==
    IF failed THEN [NoForward EXCEPT !.failedRev = f.rev, !.failedWhole = f.replace]
    ELSE [NoForward EXCEPT !.failedRev = f.failedRev, !.failedWhole = f.failedWhole]

Sending == fwd.phase \notin {"none", "wait"}
StillMine ==
    /\ Master.rev = fwd.rev
    /\ fwd.replace \/ (Master.published.valid /\ Master.published.rev = fwd.rev)
NextTxn == IF nextTxn = 2 THEN 3 ELSE 2

\* choose_request, while an edit is on its way
ContinueForward ==
    /\ req = NoRequest /\ Sending /\ StillMine
    /\ SendForward(fwd)
    /\ UNCHANGED <<copy, owner, view, nextTxn, fwd, agreed, slave, counts>>

\* A Revert, an Apply or a newer profile replaced what was being sent.
DropForward ==
    /\ req = NoRequest /\ Sending /\ ~StillMine
    /\ fwd' = EndForward(fwd, FALSE)
    /\ UNCHANGED <<copy, owner, view, req, seq, nextTxn, agreed, slave, counts>>

Poll ==
    /\ req = NoRequest /\ ~Sending
    /\ Send("STATUS", 0, <<>>)
    /\ UNCHANGED <<copy, owner, view, nextTxn, fwd, agreed, slave, counts>>

\* Nothing to poll for, and both halves idle on one saved profile.
Deciding ==
    /\ req = NoRequest /\ fwd.phase = "none" /\ view.known
    /\ ~Matches(view) /\ Idle(Master)
SameSaved == view.phase = "idle" /\ view.saved = Master.saved
GivenUp == fwd.failedRev = Master.rev /\ fwd.failedWhole

AbortUnfinished ==
    /\ Deciding /\ view.phase = "receiving"
    /\ Send("ABORT", view.txn, <<>>)
    /\ UNCHANGED <<copy, owner, view, nextTxn, fwd, agreed, slave, counts>>

\* Only an edit made right on what both halves held is sent as an edit.
OneBehind == Master.active /\ view.session = Master.session /\ view.rev + 1 = Master.rev
EditFits ==
    /\ fwd.failedRev # Master.rev
    /\ Master.published.valid /\ Master.published.rev = Master.rev
    /\ agreed.on /\ agreed.session = Master.session /\ agreed.rev = view.rev
Forwards == OneBehind /\ ~GivenUp /\ (EditFits \/ ~view.active)

StartForward ==
    /\ Deciding /\ SameSaved /\ Forwards
    /\ LET f == [fwd EXCEPT !.phase = "begin", !.replace = ~EditFits, !.rev = Master.rev,
                            !.sent = <<>>, !.txn = nextTxn]
       IN  fwd' = f /\ SendForward(f)
    /\ nextTxn' = NextTxn
    /\ UNCHANGED <<copy, owner, view, agreed, slave, counts>>

SendRevert ==
    /\ Deciding /\ SameSaved /\ ~Forwards /\ view.active
    /\ Send("REVERT", nextTxn, <<>>)
    /\ nextTxn' = NextTxn
    /\ agreed' = NoAgreement
    /\ UNCHANGED <<copy, owner, view, fwd, slave, counts>>

\* Mutant: what was agreed stays agreed over an ADOPT.
AdoptKeepsAgreement ==
    /\ Deciding /\ SameSaved /\ ~Forwards /\ ~view.active
    /\ Master.active => Master.rev # 0 /\ ~GivenUp
    /\ Send("ADOPT", 0, [session |-> Master.session, saved |-> Master.saved,
                         rev |-> IF Master.active THEN Master.rev - 1 ELSE Master.rev])
    /\ UNCHANGED <<copy, owner, view, nextTxn, fwd, agreed, slave, counts>>

SendAdopt ==
    /\ Deciding /\ SameSaved /\ ~Forwards /\ ~view.active
    /\ Master.active => Master.rev # 0 /\ ~GivenUp
    /\ Send("ADOPT", 0, [session |-> Master.session, saved |-> Master.saved,
                         rev |-> IF Master.active THEN Master.rev - 1 ELSE Master.rev])
    /\ agreed' = NoAgreement
    /\ UNCHANGED <<copy, owner, view, nextTxn, fwd, slave, counts>>

\* handle_reply: where the edit being sent goes after a reply.
AfterReply(v, result) ==
    LET ok == result = "OK" \/ (result = "QUEUED" /\ req.kind = "COMMIT")
        apart == result \in {"STALE", "BUSY", "INVALID_STATE", "WRONG_TRANSACTION", "NOT_CLEAN"}
        sent == IF fwd.phase = "data" THEN Append(fwd.sent, req.body.piece) ELSE fwd.sent
        next == CASE fwd.phase = "begin" /\ ~Whole(fwd) -> "splices"
                  [] fwd.phase = "commit" -> "wait"
                  [] OTHER -> IF Len(sent) = Total(fwd) THEN "commit" ELSE "data"
    IN  IF fwd.phase = "wait"
        THEN IF v.phase # "idle" THEN fwd
             ELSE IF v.txn # fwd.txn THEN EndForward(fwd, FALSE)
             ELSE EndForward(fwd, ~(/\ v.lastResult = "OK"
                                    /\ v.session = Master.session /\ v.rev = fwd.rev))
        ELSE IF fwd.phase = "none" \/ req.kind = "STATUS" THEN fwd
        ELSE IF ok THEN [fwd EXCEPT !.phase = next, !.sent = sent]
        ELSE EndForward(fwd, ~apart)

\* read_slave, handle_reply
Heard(s) ==
    [known |-> TRUE, session |-> s.session, rev |-> s.rev, active |-> s.active, phase |-> s.phase,
     lastResult |-> s.lastResult, txn |-> s.txn, saved |-> s.saved]
ReadReply ==
    /\ req # NoRequest /\ Answered
    /\ LET v == Heard(reply.status)
       IN  /\ view' = v
           /\ agreed' = IF Matches(v) THEN [on |-> TRUE, session |-> v.session, rev |-> v.rev] ELSE agreed
           /\ fwd' = AfterReply(v, reply.result)
    /\ req' = NoRequest
    /\ UNCHANGED <<copy, owner, seq, nextTxn, slave, counts>>

\* The other half was not heard from for the timeout.
Timeout ==
    /\ view.known /\ faults < Faults
    /\ view' = Unheard
    /\ agreed' = NoAgreement
    /\ fwd' = EndForward(fwd, FALSE)
    /\ faults' = faults + 1
    /\ UNCHANGED <<copy, owner, req, seq, nextTxn, slave, changes, sessions>>

(***************************************************************************)
(* The edit on its way into a half's copy (noah_profile_working_copy_scan).*)
(***************************************************************************)
\* The other half's requests are worked off between its own scans.
LoopFree(h) == h = "other" => ~scanning

Steps(h, c) ==
    /\ LoopFree(h)
    /\ copy' = [copy EXCEPT ![h] = c]
    /\ UNCHANGED <<store, behind, sync, slave, changes, sessions>>

\* scan_load, scan_validate, scan_publish: read, checked, and live between two
\* keys; or refused on the way.
ScanApply(h) ==
    /\ copy[h].phase = "applying"
    /\ \/ Steps(h, Published(copy[h]))
       \/ Steps(h, Finish(copy[h], "REFUSED"))
    /\ UNCHANGED <<save, faults>>

SaveAfterSettling(h) == IF h = "master" /\ copy[h].settling THEN "idle" ELSE save

ScanRevert(h) ==
    /\ copy[h].phase = "reverting"
    /\ Steps(h, Reverted(copy[h], store[copy[h].saved]))
    /\ save' = SaveAfterSettling(h)
    /\ UNCHANGED faults

ScanRevertRefused(h) ==
    /\ copy[h].phase = "reverting" /\ faults < Faults
    /\ Steps(h, RevertRefused(copy[h]))
    /\ save' = SaveAfterSettling(h)
    /\ faults' = faults + 1

(***************************************************************************)
(* The host, through the master half's owner (owner_admit).                *)
(***************************************************************************)
HostTxn == 9
Held == save # "idle" \/ "master" \in behind

Hosts(c) ==
    /\ copy' = [copy EXCEPT !["master"] = c]
    /\ UNCHANGED <<store, behind, sync, slave, sessions, faults>>

HostBegins ==
    /\ Idle(Master) /\ ~Held /\ Converged /\ changes < Changes
    /\ \E kind \in Splices :
        /\ kind = "whole" => ~Master.active
        /\ kind = "drop" => Master.bytes # <<>>
        /\ LET total == CASE kind = "add" -> 1 [] kind = "drop" -> 0 [] kind = "whole" -> Chunks
           IN  Hosts(Begin(Master, HostTxn, Master.session, Master.rev, kind = "whole", total).copy)
    /\ changes' = changes + 1
    /\ UNCHANGED save

\* The edit's frames and its commit.
HostCommits ==
    /\ Master.phase = "receiving"
    /\ LET edit == Master.edit
           staged == [Master EXCEPT !.edit.staged = [i \in 1..edit.total |-> <<changes>>],
                                    !.edit.splice = IF edit.whole THEN "none"
                                                    ELSE IF edit.total = 0 THEN "drop" ELSE "add"]
       IN  Hosts(Commit(staged, HostTxn, staged.edit.staged).copy)
    /\ UNCHANGED <<save, changes>>

\* The host aborts the edit, or stops sending it (30 s).
HostStops ==
    /\ Master.phase = "receiving"
    /\ Hosts(Abort(Master, Master.txn).copy)
    /\ UNCHANGED <<save, changes>>

HostReverts ==
    /\ Master.phase \in {"idle", "receiving"} /\ Master.active /\ ~Held
    /\ LET free == Abort(Master, Master.txn).copy
       IN  Hosts(Revert(free, HostTxn, free.session, free.rev).copy)
    /\ UNCHANGED <<save, changes>>

\* Edits undone by other edits need no new generation.
HostSaves ==
    /\ Idle(Master) /\ Master.active /\ ~Held /\ Converged
    /\ IF Master.bytes = store[Master.saved]
       THEN save' = "settling" /\ Hosts(SettleSaved(Master))
       ELSE save' = "writing" /\ Hosts(Master)
    /\ UNCHANGED changes

\* Both stores hold the new profile; each half changes over later.  The other
\* half takes no new copy while its last one waits for that.
Writes(bytes) ==
    /\ behind = {} /\ Len(store) <= Saves
    /\ store' = Append(store, bytes) /\ behind' = Halves
    /\ UNCHANGED <<copy, sync, slave, sessions, faults>>

SaveWritten == save = "writing" /\ Writes(Master.bytes) /\ save' = "written" /\ UNCHANGED changes

SaveFails ==
    /\ save = "writing" /\ save' = "idle"
    /\ UNCHANGED <<copy, store, behind, sync, slave, counts>>

HostApplies ==
    /\ Idle(Master) /\ ~Held /\ changes < Changes
    /\ Writes(<<changes + 1>>) /\ changes' = changes + 1 /\ UNCHANGED save

\* A publication of the saved profile, and what the working copy makes of it
\* (observe_working): the master half's own Save changed nothing.
Changeover(h) ==
    /\ h \in behind /\ LoopFree(h)
    /\ LET own == h = "master" /\ save = "written"
           c == Replaced(copy[h], Len(store), store[Len(store)], ~own)
       IN  /\ copy' = [copy EXCEPT ![h] = c]
           /\ save' = IF own THEN "idle" ELSE save
    /\ behind' = behind \ {h}
    /\ UNCHANGED <<store, sync, slave, counts>>

(***************************************************************************)
(* Restarts.                                                               *)
(***************************************************************************)
Restart(h) ==
    /\ faults < Faults /\ faults' = faults + 1 /\ sessions' = sessions + 1
    /\ copy' = [copy EXCEPT ![h] = Booted(sessions + 1, Len(store), store[Len(store)])]
    /\ behind' = behind \ {h}
    /\ UNCHANGED <<store, changes>>

RestartMaster ==
    /\ Restart("master")
    /\ save' = "idle"
    /\ view' = Unheard /\ req' = NoRequest /\ seq' = 1 /\ nextTxn' = 1
    /\ fwd' = NoForward /\ agreed' = NoAgreement
    /\ UNCHANGED slave

RestartOther ==
    /\ Restart("other")
    /\ mailbox' = NoRequest /\ scanning' = FALSE /\ reply' = NoReply
    /\ UNCHANGED <<save, sync>>

Decide == AbortUnfinished \/ StartForward \/ SendRevert \/ SendAdopt
MasterLoop == ContinueForward \/ DropForward \/ Poll \/ ReadReply
OtherLoop == SlaveScan \/ SlaveScanEnds
CopyScan(h) == ScanApply(h) \/ ScanRevert(h) \/ Changeover(h)
Host == HostBegins \/ HostCommits \/ HostStops \/ HostReverts \/ HostSaves \/ HostApplies

Next ==
    \/ MasterLoop \/ Decide \/ Timeout
    \/ Admitted \/ OtherLoop
    \/ \E h \in Halves : CopyScan(h) \/ ScanRevertRefused(h)
    \/ Host \/ SaveWritten \/ SaveFails
    \/ RestartMaster \/ RestartOther

Spec == Init /\ [][Next]_vars

\* Both loops keep running, the link keeps carrying requests, keys are let go
\* of often enough for a publication, and an edit nobody sends on is given up.
\* A decision is due whenever a poll is not, so it needs strong fairness.
FairSpec ==
    /\ Spec
    /\ WF_vars(MasterLoop) /\ SF_vars(Decide)
    /\ WF_vars(Admitted) /\ WF_vars(OtherLoop)
    /\ WF_vars(CopyScan("master")) /\ SF_vars(CopyScan("other"))
    /\ WF_vars(HostStops) /\ WF_vars(SaveWritten \/ SaveFails)

(***************************************************************************)
(* Properties.                                                             *)
(***************************************************************************)
\* Under one session and revision, over one saved profile, both halves hold
\* the same bytes: an edit sent as splices only ever met the bytes it was
\* made on.
SameNameSameBytes ==
    (/\ Idle(Master) /\ Idle(Other) /\ Master.saved = Other.saved
     /\ Master.session = Other.session /\ Master.rev = Other.rev /\ Master.active = Other.active)
    => Master.bytes = Other.bytes

\* A save, whichever way it ends, changes neither what the keyboard does nor
\* the name the client holds.
SavesChangeNothing ==
    [][save # "idle" /\ Master'.session = Master.session =>
           Master'.bytes = Master.bytes /\ Master'.rev = Master.rev]_vars

\* No request the other half has answered is run again.
NothingRunsTwice ==
    [][~scanning /\ scanning' => reply.kind # mailbox.kind \/ reply.seq # mailbox.seq]_vars

\* The halves end up with the same bytes, or the other half has refused both
\* the edit and the whole copy and is left alone.
HalvesMeet == <>[]((Converged /\ Other.bytes = Master.bytes) \/ Refused)
=============================================================================
