------------------------------ MODULE CandidateApply ------------------------------
(* An Apply, from the frames a client sends to the profile the keyboard runs, on *)
(* the half with the cable: the candidate transaction and its one-frame mailbox  *)
(* (profile_candidate_transaction.c), the store backend that gives it a flash    *)
(* slot (profile_candidate_store_backend.c), the provider whose snapshots read   *)
(* those slots (ActiveProfile), and the owner's scan that drives them, ends them *)
(* and shares the storage with the copies it takes from the other half           *)
(* (profile_owner.c).  The exchange with the other half is TwoHalfSave; here a   *)
(* copy to it begins, arrives, stops, is withdrawn or committed, and its saved   *)
(* record is what the last metadata said.  Flash is ProfileStore: here a write   *)
(* works or fails, and the saved record changes with the last one.               *)
(* A payload is two chunks; deadlines are choices.                               *)
EXTENDS ActiveProfile

CONSTANTS Bytes,        \* what one chunk can hold
          Profiles,     \* payloads a client declares: sequences of two Bytes
          Ids,          \* transaction ids clients use
          MaxGen,       \* UINT32_MAX: the last generation
          MaxTroubles   \* bound: failures of flash, of the link or of the other half, losses
                        \* of power, and records first saved on the other half

ASSUME Bounds ==
  /\ Profiles \subseteq [1..2 -> Bytes]
  /\ MaxGen \in Nat /\ MaxTroubles \in Nat

VARIABLES
  box,      \* the admitted frame not yet processed
  t,        \* the transaction: its state, metadata and next offset
  bar,      \* the owner's host_barrier
  cb,       \* the backend: who holds the storage, what it validated
  prep,     \* the prepare open in the store
  saved,    \* the saved record
  flash,    \* the payload bytes of the two slots
  prov,     \* the provider
  push,     \* the prepared copy on its way to the other half
  seen,     \* the record the other half saved, as far as known here
  own,      \* "ready" or "stopped"
  spent     \* how much of MaxTroubles is used

vars == <<box, t, bar, cb, prep, saved, flash, prov, push, seen, own, spent>>

Chunks   == 1..2
Slots    == {"A", "B"}
Erased   == [c \in Chunks |-> "erased"]
NoRecord == [slot |-> NoSlot, gen |-> 0, prof |-> NoPayload]
Nowhere  == [gen |-> 0, prof |-> NoPayload]
NoFrame  == [op |-> "none", id |-> 0]
NoBarrier == [started |-> FALSE, told |-> "no", cancel |-> "no"]
\* A rejected candidate is a poisoned one; a state without candidate that is not
\* idle stops the owner.  What the status pages report besides is left out.
NoApply  == [st |-> "idle", id |-> 0, want |-> NoPayload, next |-> 0]
NoHolder == [adm |-> "none", valid |-> FALSE, avail |-> FALSE]

\* A boot has validated the saved record and activated it, by TwoHalfSave's steps.
Booted ==
  [cb |-> [NoHolder EXCEPT !.valid = saved # NoRecord, !.avail = saved # NoRecord],
   prov |-> [NewProvider EXCEPT !.active = IF saved = NoRecord THEN Compiled ELSE Saved(saved)]]

Init == /\ box = NoFrame /\ t = NoApply /\ bar = NoBarrier
        /\ saved = NoRecord /\ prep = NoRecord /\ cb = Booted.cb /\ prov = Booted.prov
        /\ flash = [s \in Slots |-> Erased]
        /\ push = "none" /\ seen = Nowhere /\ own = "ready"
        /\ spent = 0

Trouble == spent < MaxTroubles /\ spent' = spent + 1

Decided   == {"committing", "converging", "activating"}

\* Mutant: a candidate whose commit is being written can still be cancelled.
PrecommitTooLong == {"receiving", "complete", "validating", "validated", "rejected", "preparing",
                     "committing"}
Precommit == {"receiving", "complete", "validating", "validated", "rejected", "preparing"}
Target    == IF saved.slot = "A" THEN "B" ELSE "A"

(* ---- The transaction's answers -------------------------------------------- *)

Moves(st) == [t EXCEPT !.st = st]
Poisoned  == Moves("rejected")
Same      == t              \* the operation is refused, or was done before

(* ---- Frames --------------------------------------------------------------- *)

Ranges == {r \in Chunks \X Chunks : r[1] <= r[2]}
Frames == [op : {"begin"}, id : Ids, want : Profiles]
     \cup [op : {"chunk"}, id : Ids, at : Chunks, byte : Bytes]
     \cup {[op |-> "reuse", id |-> i, at |-> r[1], upto |-> r[2], from |-> prov.active] :
               i \in Ids, r \in Ranges}
     \cup [op : {"validate", "commit", "abort"}, id : Ids]

\* One frame waits at most.  Admission refuses a candidate frame while a save runs
\* or an edit is taken, whose steps are WorkingCopySync's.
Receives(f) ==
  /\ own = "ready" /\ box = NoFrame
  /\ box' = f
  /\ UNCHANGED <<t, bar, cb, prep, saved, flash, prov, push, seen, own, spent>>

\* The scan's host turn, and the frame it takes there.
HostTurn == own = "ready" /\ cb.adm # "peer" /\ bar.cancel = "no"
MatchingAbort == box.op = "abort" /\ box.id = t.id
Takes(op) == HostTurn /\ box.op = op /\ ~(MatchingAbort /\ t.st \in Precommit)

\* A frame that changes nothing but the transaction.
Replies(u) == /\ t' = u /\ box' = NoFrame
              /\ UNCHANGED <<bar, cb, prep, saved, flash, prov, push, seen, own, spent>>

\* The frame names the candidate, which is not poisoned.
ForCandidate == t.st \notin {"idle", "rejected"} /\ box.id = t.id
Declared(st) == [st |-> st, id |-> box.id, want |-> box.want, next |-> 0]

BeginAgain ==
  /\ Takes("begin") /\ t.st # "idle"
  /\ Replies(IF ForCandidate /\ t.want # box.want /\ t.st \notin Decided THEN Poisoned ELSE Same)

\* The storage could not be had: the candidate stays, and is rejected.
BeginRefused ==
  /\ Takes("begin") /\ t.st = "idle" /\ saved.gen = MaxGen
  /\ Replies(Declared("rejected"))

\* A slot the provider will not give up leaves the frame in the mailbox.
Begin ==
  /\ Takes("begin") /\ t.st = "idle" /\ saved.gen < MaxGen
  /\ cb.adm = "none" /\ ~ReuseDenied(prov, Target)
  /\ box' = NoFrame
  /\ flash' = [flash EXCEPT ![Target] = Erased]
  /\ \/ /\ prep' = [slot |-> Target, gen |-> saved.gen + 1, prof |-> box.want]
        /\ prov' = Reusing(prov, Target)
        /\ cb' = [NoHolder EXCEPT !.adm = "host"]
        /\ t' = Declared("receiving")
        /\ UNCHANGED spent
     \/ /\ prov' = Returned(Reusing(prov, Target))
        /\ t' = Declared("rejected")
        /\ Trouble
        /\ UNCHANGED <<prep, cb>>
  /\ UNCHANGED <<bar, saved, push, seen, own>>

\* Mutant: the slot of a prepare that a write closed stays handed out.
WriteFailsKeepsSlot ==
  /\ t' = Poisoned /\ prep' = NoRecord /\ UNCHANGED prov
  /\ Trouble

\* A failed write closes the prepare, and gives its slot back.
WriteFails ==
  /\ t' = Poisoned /\ prep' = NoRecord /\ prov' = Returned(prov)
  /\ Trouble

Wrote(c) == [t EXCEPT !.next = c, !.st = IF c = 2 THEN "complete" ELSE @]

\* Also a streamed chunk: its checks at admission are these.
ChunkAgain ==
  /\ Takes("chunk") /\ ~(ForCandidate /\ t.st = "receiving" /\ box.at = t.next + 1)
  /\ Replies(IF /\ ForCandidate /\ t.st \in {"receiving", "complete"}
                /\ box.at <= t.next /\ flash[prep.slot][box.at] # box.byte
             THEN Poisoned ELSE Same)

Chunk ==
  /\ Takes("chunk") /\ ForCandidate /\ t.st = "receiving" /\ box.at = t.next + 1
  /\ box' = NoFrame
  /\ \/ /\ flash' = [flash EXCEPT ![prep.slot][box.at] = box.byte]
        /\ t' = Wrote(box.at)
        /\ UNCHANGED <<prep, prov, spent>>
     \/ WriteFails /\ UNCHANGED flash
  /\ UNCHANGED <<bar, cb, saved, push, seen, own>>

\* One chunk of a range, from the profile in use if it is still the one named;
\* a longer range stays in the mailbox for the next turn.
InOrder  == ForCandidate /\ t.st = "receiving" /\ box.at = t.next + 1
Readable == SameIdentity(prov.active, box.from) /\ prov.active.slot # NoSlot
ReuseRefused ==
  /\ Takes("reuse") /\ ~(InOrder /\ Readable)
  /\ Replies(IF InOrder THEN Poisoned ELSE Same)

Reuse ==
  /\ Takes("reuse") /\ InOrder /\ Readable
  /\ \/ /\ flash' = [flash EXCEPT ![prep.slot][box.at] = flash[prov.active.slot][box.at]]
        /\ box' = IF box.upto > box.at THEN [box EXCEPT !.at = @ + 1] ELSE NoFrame
        /\ t' = Wrote(box.at)
        /\ UNCHANGED <<prep, prov, spent>>
     \/ WriteFails /\ box' = NoFrame /\ UNCHANGED flash
  /\ UNCHANGED <<bar, cb, saved, push, seen, own>>

Validate ==
  /\ Takes("validate")
  /\ Replies(IF ForCandidate /\ t.st = "complete" THEN Moves("validating") ELSE Same)

\* A commit repeated, or of an Apply that ended well, is acknowledged.
Commit ==
  /\ Takes("commit")
  /\ Replies(IF ForCandidate /\ t.st = "validated" THEN Moves("preparing") ELSE Same)

\* An abort of nothing, of another candidate, or of a decided one; an abort that
\* ends a candidate is a cancellation.
AbortRefused == Takes("abort") /\ Replies(Same)

(* ---- The host turn without a frame ---------------------------------------- *)

Idles(st) == HostTurn /\ box = NoFrame /\ t.st = st

\* The validator reads the slot: its bytes are the declared ones, or not.
Validates ==
  /\ Idles("validating")
  /\ LET ok == flash[prep.slot] = t.want
     IN /\ t' = IF ok THEN Moves("validated") ELSE Poisoned
        /\ cb' = [cb EXCEPT !.valid = ok]
  /\ UNCHANGED <<box, bar, prep, saved, flash, prov, push, seen, own, spent>>

\* The candidate is validated and staged whole: its copy may go out.
StagedCandidate == prep # NoRecord /\ cb.adm = "host" /\ cb.valid /\ ~cb.avail
Barrier == Idles("preparing") /\ StagedCandidate

StartCopy ==
  /\ Barrier /\ ~bar.started /\ push = "none"
  /\ push' = "begun"
  /\ bar' = [bar EXCEPT !.started = TRUE]
  /\ UNCHANGED <<box, t, cb, prep, saved, flash, prov, seen, own, spent>>

\* The other half is prepared and the keyboard at a safe boundary: the decision.
BeginCommit ==
  /\ Barrier /\ bar.started /\ push = "ready"
  /\ t' = Moves("committing")
  /\ UNCHANGED <<box, bar, cb, prep, saved, flash, prov, push, seen, own, spent>>

\* The last write of the commit makes the record the saved one.
CommitDone ==
  /\ Idles("committing")
  /\ saved' = prep /\ prep' = NoRecord /\ prov' = Returned(prov)
  /\ cb' = [cb EXCEPT !.avail = TRUE]
  /\ t' = Moves("converging")
  /\ UNCHANGED <<box, bar, flash, push, seen, own, spent>>

\* The write of the marker may have landed although it failed: the owner stops.
CommitUnknown ==
  /\ Idles("committing")
  /\ saved' \in {saved, prep} /\ prep' = NoRecord /\ prov' = Returned(prov)
  /\ cb' = [cb EXCEPT !.valid = FALSE]
  /\ t' = Poisoned
  /\ own' = "stopped"
  /\ Trouble
  /\ UNCHANGED <<box, bar, flash, push, seen>>

\* The new record is published, and the other half told to commit its copy.
Tells ==
  /\ Idles("converging")
  /\ \/ /\ bar.told = "no"
        /\ bar' = [bar EXCEPT !.told = "published"] /\ UNCHANGED push
     \/ /\ bar.told = "published" /\ push = "ready"
        /\ bar' = [bar EXCEPT !.told = "commit"] /\ push' = "commit"
  /\ UNCHANGED <<box, t, cb, prep, saved, flash, prov, seen, own, spent>>

Agreed == seen = [gen |-> saved.gen, prof |-> saved.prof]
Lost   == seen.gen > saved.gen \/ push = "refused"

\* The other half saved something else, or refused for good: the owner stops.
AuthorityFails ==
  /\ Idles("converging") /\ bar.told = "commit" /\ Lost
  /\ t' = Moves("failed")
  /\ own' = "stopped"
  /\ UNCHANGED <<box, bar, cb, prep, saved, flash, prov, push, seen, spent>>

CanActivate == cb.valid /\ cb.avail /\ prep = NoRecord
Request     == RequestResult(prov, Saved(saved))
Accepted    == CanActivate /\ Request \in {"ok", "no_change", "busy", "reuse"}

Activates ==
  /\ Idles("converging") /\ bar.told = "commit" /\ ~Lost
  /\ Agreed /\ push = "none"
  /\ IF Accepted
     THEN /\ t' = Moves("activating")
          /\ prov' = Requested(prov, Saved(saved)) /\ UNCHANGED own
     ELSE /\ t' = Poisoned
          /\ own' = "stopped" /\ UNCHANGED prov
  /\ UNCHANGED <<box, bar, cb, prep, saved, flash, push, seen, spent>>

\* At a safe boundary the profile is published, and the Apply is over.
Publishes ==
  /\ Idles("activating") /\ CanPublish(prov)
  /\ prov' = Published(prov)
  /\ cb' = [cb EXCEPT !.adm = "none"]
  /\ t' = NoApply
  /\ bar' = NoBarrier
  /\ UNCHANGED <<box, prep, saved, flash, push, seen, own, spent>>

(* ---- The end of a candidate before its decision ---------------------------- *)

\* noah_profile_split_reconciler_prepared_push_cancel
CopyCancel == CASE ~bar.started -> push
                [] bar.started /\ push \in {"none", "begun"} -> "none"
                [] OTHER -> "aborting"

\* What ends with the candidate: the frame that asked or that a supersession, or a
\* copy that failed, discards; the prepare, its slot, the storage, the barrier.
LetsGo(why) ==
  /\ box' = IF why \in {"timeout", "storage"} THEN box ELSE NoFrame
  /\ \/ /\ t' = IF why = "storage" THEN t ELSE NoApply
        /\ cb' = [cb EXCEPT !.adm = "none", !.valid = FALSE]
        /\ bar' = NoBarrier
        /\ own' = IF why = "storage" THEN "stopped" ELSE own
        /\ UNCHANGED spent
     \/ /\ prep # NoRecord                      \* the marker was not cleared
        /\ t' = Poisoned
        /\ cb' = [cb EXCEPT !.valid = FALSE]
        /\ bar' = [bar EXCEPT !.cancel = why]
        /\ own' = "stopped"
        /\ Trouble
  /\ prep' = NoRecord /\ prov' = Returned(prov)

\* request_host_precommit_cancel: the copy is withdrawn first.
Cancels(why) ==
  /\ own = "ready" /\ t.st \in Precommit /\ bar.cancel = "no"
  /\ push' = CopyCancel
  /\ IF bar.started /\ CopyCancel # "none"
     THEN /\ bar' = [bar EXCEPT !.cancel = why]
          /\ UNCHANGED <<box, t, cb, prep, prov, own, spent>>
     ELSE LetsGo(why)
  /\ UNCHANGED <<saved, flash, seen>>

ClientAborts == HostTurn /\ MatchingAbort /\ Cancels("abort")
\* Mutant: the lease does not end a candidate that was rejected.
LeaseSparesRejected == cb.adm = "host" /\ box = NoFrame /\ t.st # "rejected" /\ Cancels("timeout")
LeaseEnds    == cb.adm = "host" /\ box = NoFrame /\ Cancels("timeout")
Supersedes   == cb.adm = "host" /\ prep # NoRecord /\ seen.gen >= prep.gen
                /\ Cancels("superseded")
CopyFails    == Barrier /\ bar.started /\ push = "stopped" /\ Cancels("transfer")

\* The commit failed without landing: its step withdraws the copy.
CommitFails ==
  /\ Idles("committing")
  /\ t' = Poisoned /\ prep' = NoRecord /\ prov' = Returned(prov)
  /\ cb' = [cb EXCEPT !.valid = FALSE]
  /\ push' = CopyCancel /\ bar' = [bar EXCEPT !.cancel = "storage"]
  /\ Trouble
  /\ UNCHANGED <<box, saved, flash, seen, own>>

\* advance_host_precommit_cancel: a candidate that timed out is not ended while a
\* frame waits, and no frame is taken while a cancellation is pending.
FinishCancel ==
  /\ own = "ready" /\ bar.cancel # "no" /\ push = "none"
  /\ bar.cancel # "timeout" \/ box = NoFrame
  /\ LetsGo(bar.cancel)
  /\ UNCHANGED <<saved, flash, push, seen>>

(* ---- The other half, the working copy, the power ---------------------------- *)

Untouched == UNCHANGED <<box, t, bar>>

\* The copy to the other half goes on, and what it saved is seen here.
CopyMoves ==
  /\ own = "ready"
  /\ push \in {"begun", "sending", "aborting", "commit"}
  /\ push' = CASE push = "begun"   -> "sending"
                [] push = "sending" -> "ready"
                [] push \in {"aborting", "commit"} -> "none"
  /\ seen' = IF push = "commit" THEN [gen |-> saved.gen, prof |-> saved.prof] ELSE seen
  /\ Untouched /\ UNCHANGED <<cb, prep, saved, flash, prov, own, spent>>

CopyStops ==
  /\ own = "ready"
  /\ push \in {"sending", "commit"}
  /\ push' = IF push = "commit" THEN "refused" ELSE "stopped"
  /\ Trouble
  /\ Untouched /\ UNCHANGED <<cb, prep, saved, flash, prov, seen, own>>

\* A record the other half saved while it was away; while its copy is taken here, until
\* that is activated, the other half saves nothing of its own.
OtherSaves(gen, prof) ==
  /\ own = "ready" /\ cb.adm # "peer"
  /\ gen > seen.gen
  /\ seen' = [gen |-> gen, prof |-> prof]
  /\ Trouble
  /\ Untouched /\ UNCHANGED <<cb, prep, saved, flash, prov, push, own>>

\* The other half's record is copied here while no Apply holds the storage.
TakeCopy ==
  /\ own = "ready" /\ cb.adm = "none" /\ push = "none" /\ seen.gen > saved.gen
  /\ ~ReuseDenied(prov, Target)
  /\ prep' = [slot |-> Target, gen |-> seen.gen, prof |-> seen.prof]
  /\ flash' = [flash EXCEPT ![Target] = Erased]
  /\ prov' = Reusing(prov, Target)
  /\ cb' = [NoHolder EXCEPT !.adm = "peer"]
  /\ Untouched /\ UNCHANGED <<saved, push, seen, own, spent>>

Copying == own = "ready" /\ cb.adm = "peer" /\ prep # NoRecord
CopyArrives ==
  /\ Copying /\ ~cb.valid
  /\ flash' = [flash EXCEPT ![prep.slot] = prep.prof]
  /\ cb' = [cb EXCEPT !.valid = TRUE]
  /\ Untouched /\ UNCHANGED <<prep, saved, prov, push, seen, own, spent>>
CopySaved ==
  /\ Copying /\ cb.valid
  /\ saved' = prep /\ prep' = NoRecord /\ prov' = Returned(prov)
  /\ cb' = [cb EXCEPT !.avail = TRUE]
  /\ Untouched /\ UNCHANGED <<flash, push, seen, own, spent>>
CopyDropped ==
  /\ Copying
  /\ prep' = NoRecord /\ prov' = Returned(prov) /\ cb' = NoHolder
  /\ Trouble
  /\ Untouched /\ UNCHANGED <<saved, flash, push, seen, own>>
\* scan_other_half_activation: requested, then published at a safe boundary.
CopyActivates ==
  /\ own = "ready" /\ cb.adm = "peer" /\ prep = NoRecord /\ cb.avail
  /\ IF prov.pending = NoSnapshot
     THEN /\ own' = IF Accepted THEN own ELSE "stopped"
          /\ prov' = Requested(prov, Saved(saved)) /\ UNCHANGED cb
     ELSE /\ CanPublish(prov) /\ Agreed
          /\ prov' = Published(prov) /\ cb' = [cb EXCEPT !.adm = "none"]
          /\ UNCHANGED own
  /\ Untouched /\ UNCHANGED <<prep, saved, flash, push, seen, spent>>

\* An edit or a revert admitted while nothing held the profile is published; a copy
\* may have begun, or been saved, in between.
NoApplyHeld == t.st = "idle" /\ box.op \in {"none", "abort"} /\ bar.cancel = "no" /\ cb.adm # "host"
WorkingCopyLands ==
  /\ own = "ready" /\ NoApplyHeld /\ Agreed
  /\ \E s \in {Edited(prov.active), Base(prov.active)} :
        s # prov.active /\ CanReplace(prov, s) /\ prov' = Replaced(prov, s)
  /\ Untouched /\ UNCHANGED <<cb, prep, saved, flash, push, seen, own, spent>>

\* Power is lost; the boot selects the saved record (ProfileStore) and runs it.
Restart ==
  /\ Trouble
  /\ box' = NoFrame /\ t' = NoApply /\ bar' = NoBarrier /\ prep' = NoRecord
  /\ cb' = Booted.cb /\ prov' = Booted.prov
  /\ push' = "none" /\ seen' = Nowhere /\ own' = "ready"
  /\ UNCHANGED <<saved, flash>>

(* ---- The whole -------------------------------------------------------------- *)

TakesFrame == \/ BeginAgain \/ BeginRefused \/ Begin \/ ChunkAgain \/ Chunk
              \/ ReuseRefused \/ Reuse \/ Validate \/ Commit \/ AbortRefused \/ ClientAborts
Advances   == \/ Validates \/ StartCopy \/ BeginCommit \/ CommitDone \/ Tells \/ Activates
              \/ Publishes \/ AuthorityFails \/ CopyFails \/ FinishCancel
OtherCopy  == CopyArrives \/ CopySaved \/ CopyActivates
Fails      == CommitUnknown \/ CommitFails \/ CopyStops \/ CopyDropped

Next == \/ \E f \in Frames : Receives(f)
        \/ TakesFrame \/ Advances \/ LeaseEnds \/ Supersedes
        \/ CopyMoves \/ TakeCopy \/ OtherCopy \/ WorkingCopyLands \/ Fails \/ Restart
        \/ \E gen \in 1..MaxGen, prof \in Profiles : OtherSaves(gen, prof)

Spec == Init /\ [][Next]_vars

\* The scan's turns come round; the link ends what it is doing (an abort waits at
\* most 15 s); a deadline that nothing renews passes; the keyboard comes to a safe
\* boundary; and the client stops sending.
Quiet    == <>[][~\E f \in Frames : Receives(f)]_vars
FairSpec == /\ Spec /\ Quiet
            /\ WF_vars(TakesFrame) /\ WF_vars(Advances) /\ WF_vars(LeaseEnds)
            /\ WF_vars(CopyMoves) /\ WF_vars(OtherCopy)

(* ---- Properties --------------------------------------------------------------- *)

TypeOK ==
  /\ t.st \in {"idle", "failed"} \cup Precommit \cup Decided
  /\ t.id \in Ids \cup {0} /\ t.want \in Profiles \cup {NoPayload} /\ t.next \in 0..2
  /\ bar.cancel \in {"no", "abort", "timeout", "superseded", "transfer", "storage"}
  /\ cb.adm \in {"none", "host", "peer"} /\ cb.valid \in BOOLEAN /\ cb.avail \in BOOLEAN
  /\ flash \in [Slots -> [Chunks -> Bytes \cup {"erased"}]]
  /\ push \in {"none", "begun", "sending", "ready", "stopped", "aborting", "commit", "refused"}
  /\ own \in {"ready", "stopped"}

\* The saved record, the profile the keyboard runs (or would run after a revert), the
\* one that waits and the one it could roll back to: each still finds, in the slot it
\* borrows, the bytes its identity names, whatever is being written meanwhile.
Whole(s) == s.slot # NoSlot => flash[s.slot] = s.prof
NamedBytesStay ==
  /\ Whole(saved) /\ Whole(Base(prov.active)) /\ Whole(prov.pending)
  /\ prov.rollback.kind = "saved" => Whole(prov.rollback)

\* The store, its backend, the provider and the transaction agree on who holds the
\* slot: no way an Apply ends leaves a prepare open, a slot handed out, a barrier or
\* the storage behind.
NothingLeaks ==
  /\ (prep # NoRecord) <=> Guarded(prov)
  /\ Guarded(prov) => prov.reuse = prep.slot /\ cb.adm # "none"
  /\ own = "ready" => /\ cb.adm = "host" => t.st # "idle"
                      /\ t.st \in Decided => cb.adm = "host"
                      /\ t.st = "idle" => bar = NoBarrier
                      /\ bar.cancel # "no" => t.st \in Precommit

\* From the decision on no frame, deadline or record of the other half takes the Apply
\* back: it goes on towards activation, or the half stops.
DecisionStands ==
  [][t.st \in Decided /\ own' = "ready" /\ ~Restart =>
        \/ t'.st \in Decided /\ t'.want = t.want /\ bar'.cancel = "no"
        \/ t.st = "committing" /\ bar'.cancel = "storage"
        \/ t'.st = "idle" /\ prov'.active = Saved(saved) /\ saved.prof = t.want]_vars

\* Whoever holds the storage gives it back, and a frame taken in is answered, or the
\* half stops.  A candidate that timed out with a frame in the mailbox does neither.
Held   == cb.adm # "none" \/ box # NoFrame
Wedged == bar.cancel = "timeout" /\ box # NoFrame /\ push = "none"
GivenBack == Held ~> ~Held \/ own = "stopped" \/ Wedged
=================================================================================
