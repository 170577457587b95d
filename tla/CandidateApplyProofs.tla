------------------------- MODULE CandidateApplyProofs -------------------------
(* What CandidateApply keeps for every set of payloads, ids and bytes and every  *)
(* bound: its types, that a reader of a slot finds the bytes it was promised,    *)
(* that no way an Apply ends leaves anything held, and that a decided Apply goes *)
(* on.                                                                           *)
(*                                                                               *)
(* The invariant ties the four parties that hold a flash slot to each other:     *)
(* PrepOK the store's prepare to the slot the provider handed out, HostOK the    *)
(* transaction to the storage it holds and the payload it declared, UseOK the    *)
(* profile in use to the saved record.  UseOK is the one the code states least:  *)
(* whoever opens a prepare may do so because the profile in use lies in the      *)
(* saved record's slot, edited or not, so the other slot is nobody's.            *)
EXTENDS CandidateApply, TLAPS

(* The types. *)
Recs  == [slot : Slots, gen : Nat, prof : Profiles]
Snaps == [kind : {"none", "compiled", "saved", "working"}, slot : Slots \cup {NoSlot},
          gen : Nat, prof : Profiles \cup {NoPayload}]
Provs == [active : Snaps, rollback : Snaps, pending : Snaps, reuse : Slots \cup {NoSlot}]
Boxes == {NoFrame}
    \cup [op : {"begin"}, id : Ids, want : Profiles]
    \cup [op : {"chunk"}, id : Ids, at : Chunks, byte : Bytes]
    \cup [op : {"reuse"}, id : Ids, at : Chunks, upto : Chunks, from : Snaps]
    \cup [op : {"validate", "commit", "abort"}, id : Ids]
Applies == [st : {"idle", "failed"} \cup Precommit \cup Decided, id : Ids \cup {0},
            want : Profiles \cup {NoPayload}, next : 0..2]
Barriers == [started : BOOLEAN, told : {"no", "published", "commit"},
             cancel : {"no", "abort", "timeout", "superseded", "transfer", "storage"}]
Holders == [adm : {"none", "host", "peer"}, valid : BOOLEAN, avail : BOOLEAN]

TInv ==
  /\ box \in Boxes /\ t \in Applies /\ bar \in Barriers /\ cb \in Holders
  /\ prep \in Recs \cup {NoRecord} /\ saved \in Recs \cup {NoRecord}
  /\ flash \in [Slots -> [Chunks -> Bytes \cup {"erased"}]]
  /\ prov \in Provs
  /\ push \in {"none", "begun", "sending", "ready", "stopped", "aborting", "commit", "refused"}
  /\ seen \in [gen : Nat, prof : Profiles] \cup {Nowhere}
  /\ own \in {"ready", "stopped"} /\ spent \in Nat

(* A prepare is open exactly while the provider has its slot handed out; that     *)
(* slot is not the saved record's, nobody waits for it or could roll back to it,  *)
(* and a copy that is whole has the bytes its record names.                       *)
PrepOK ==
  /\ (prep # NoRecord) <=> Guarded(prov)
  /\ prep # NoRecord =>
       /\ prep.slot # saved.slot /\ prov.reuse = prep.slot /\ cb.adm # "none"
       /\ prov.pending = NoSnapshot /\ ~Borrows(prov.rollback, prep.slot)
       /\ cb.adm = "peer" /\ cb.valid => Whole(prep)

(* A candidate past its BEGIN has its prepare and the storage until it is decided *)
(* or rejected, and from its validation on the slot has the declared bytes; a     *)
(* barrier, and what it withdraws, belong to an Apply that holds the storage.     *)
HostOK ==
  /\ t.st # "failed"
  /\ cb.adm = "host" => t.st # "idle"
  /\ bar # NoBarrier => cb.adm = "host"
  /\ bar.cancel # "no" => t.st \in Precommit
  /\ t.st \in Decided => cb.adm = "host"
  /\ t.st \in (Precommit \ {"rejected"}) \cup {"committing"} =>
       cb.adm = "host" /\ prep # NoRecord /\ prep.prof = t.want
  /\ t.st \in {"validated", "preparing", "committing"} => Whole(prep)
  /\ t.st \in {"converging", "activating"} => prep = NoRecord /\ saved.prof = t.want

(* While nothing is saved that still waits for its activation, the profile in use *)
(* lies in the saved record's slot, or is the compiled one; and a snapshot that   *)
(* waits is the saved record's.                                                   *)
UseOK ==
  /\ \/ cb.adm = "none"
     \/ prep # NoRecord
     \/ cb.adm = "host" /\ t.st \in Precommit
     => prov.active.slot = saved.slot
  /\ prov.pending # NoSnapshot =>
       /\ prov.pending = Saved(saved) /\ prep = NoRecord
       /\ cb.adm = "peer" \/ t.st = "activating"

ReadyOK == own = "ready" => HostOK /\ UseOK

(* The inductive invariant.  A half that stopped only restarts.                   *)
IInv == TInv /\ NamedBytesStay /\ PrepOK /\ ReadyOK


--------------------------------------------------------------------------------
\* The provider's operators.

\* A snapshot of a record, of a working copy and of its base.
LEMMA Snapshots ==
  /\ NoSnapshot \in Snaps /\ Compiled \in Snaps
  /\ NoSnapshot.slot = NoSlot /\ NoSnapshot.kind = "none"
  /\ Compiled.slot = NoSlot /\ Compiled.kind = "compiled"
  /\ \A r \in Recs \cup {NoRecord} :
        /\ Saved(r) \in Snaps
        /\ Saved(r).slot = r.slot /\ Saved(r).prof = r.prof /\ Saved(r).kind = "saved"
  /\ \A x \in Snaps : \A y \in {Edited(x), Base(x)} :
        y \in Snaps /\ y.slot = x.slot /\ y.prof = x.prof /\ y.gen = x.gen
  /\ \A x \in Snaps : x.kind = "saved" => Base(x).slot = x.slot
BY DEF Snaps, NoSnapshot, Compiled, Recs, NoRecord, Saved, Edited, Base, Slots, NoSlot, NoPayload

\* What each operation changes of a provider.
LEMMA Providers ==
  ASSUME NEW q \in Provs
  PROVE  /\ LET n == Returned(q)
            IN  /\ n \in Provs /\ n.reuse = NoSlot
                /\ n.active = q.active /\ n.rollback = q.rollback /\ n.pending = q.pending
         /\ \A slot \in Slots :
               LET n == Reusing(q, slot)
               IN  /\ n \in Provs /\ n.reuse = slot
                   /\ n.active = q.active /\ n.pending = q.pending
                   /\ n.rollback \in {q.rollback, NoSnapshot} /\ ~Borrows(n.rollback, slot)
         /\ LET n == Published(q)
            IN  /\ n \in Provs /\ n.reuse = q.reuse
                /\ n.active = q.pending /\ n.rollback = q.active /\ n.pending = NoSnapshot
         /\ \A x \in Snaps :
               LET n == Replaced(q, x)
               IN  /\ n \in Provs /\ n.reuse = q.reuse
                   /\ n.active = x /\ n.rollback = NoSnapshot /\ n.pending = q.pending
         /\ \A x \in Snaps :
               LET n == Requested(q, x)
               IN  n = q \/ /\ n \in Provs /\ n.reuse = q.reuse /\ ~Guarded(q)
                            /\ n.active = q.active /\ n.rollback = q.rollback /\ n.pending = x
<1>1. NoSnapshot \in Snaps /\ NoSnapshot.kind = "none"
  BY Snapshots
<1>2. \A slot \in Slots : ~Borrows(NoSnapshot, slot)
  BY <1>1 DEF Borrows
<1> USE DEF Provs
<1>3. LET n == Returned(q)
      IN  /\ n \in Provs /\ n.reuse = NoSlot
          /\ n.active = q.active /\ n.rollback = q.rollback /\ n.pending = q.pending
  BY DEF Returned
<1>4. ASSUME NEW slot \in Slots
      PROVE  LET n == Reusing(q, slot)
             IN  /\ n \in Provs /\ n.reuse = slot
                 /\ n.active = q.active /\ n.pending = q.pending
                 /\ n.rollback \in {q.rollback, NoSnapshot} /\ ~Borrows(n.rollback, slot)
  BY <1>1, <1>2 DEF Reusing
<1>5. LET n == Published(q)
      IN  /\ n \in Provs /\ n.reuse = q.reuse
          /\ n.active = q.pending /\ n.rollback = q.active /\ n.pending = NoSnapshot
  BY <1>1 DEF Published
<1>6. ASSUME NEW x \in Snaps
      PROVE  LET n == Replaced(q, x)
             IN  /\ n \in Provs /\ n.reuse = q.reuse
                 /\ n.active = x /\ n.rollback = NoSnapshot /\ n.pending = q.pending
  BY <1>1 DEF Replaced
<1>7. ASSUME NEW x \in Snaps
      PROVE  LET n == Requested(q, x)
             IN  n = q \/ /\ n \in Provs /\ n.reuse = q.reuse /\ ~Guarded(q)
                          /\ n.active = q.active /\ n.rollback = q.rollback /\ n.pending = x
  <2>1. Guarded(q) => RequestResult(q, x) # "ok"
    BY DEF RequestResult
  <2> QED
    BY <2>1 DEF Requested
<1> QED
  BY <1>3, <1>4, <1>5, <1>6, <1>7

\* Two slots, and the one a save takes is never the saved record's.
LEMMA TargetSlot == Target \in Slots /\ Target # saved.slot
BY DEF Target, Slots

\* What runs after a boot is the saved record, or the compiled profile.
LEMMA Boots ==
  ASSUME saved \in Recs \cup {NoRecord}
  PROVE  /\ Booted.cb \in Holders /\ Booted.cb.adm = "none"
         /\ Booted.prov \in Provs /\ Booted.prov.reuse = NoSlot
         /\ Booted.prov.rollback = NoSnapshot /\ Booted.prov.pending = NoSnapshot
         /\ Booted.prov.active \in {Compiled, Saved(saved)}
         /\ Booted.prov.active.slot = saved.slot /\ Booted.prov.active.prof = saved.prof
<1>1. Compiled.slot = NoRecord.slot /\ Compiled.prof = NoRecord.prof
  BY DEF Compiled, NoRecord, NoSnapshot
<1>2. Booted.cb \in Holders /\ Booted.cb.adm = "none"
  BY DEF Booted, NoHolder, Holders
<1>3. /\ Booted.prov.reuse = NoSlot
      /\ Booted.prov.rollback = NoSnapshot /\ Booted.prov.pending = NoSnapshot
      /\ Booted.prov.active = IF saved = NoRecord THEN Compiled ELSE Saved(saved)
      /\ Booted.prov = [active |-> Booted.prov.active, rollback |-> NoSnapshot,
                        pending |-> NoSnapshot, reuse |-> NoSlot]
  BY DEF Booted, NewProvider
<1>4. Booted.prov.active \in Snaps
  BY <1>3, Snapshots
<1>5. Booted.prov \in Provs
  BY <1>3, <1>4, Snapshots DEF Provs
<1> QED
  BY <1>1, <1>2, <1>3, <1>5, Snapshots

\* The state a boot leaves, whatever the flash holds besides the saved record.
Fresh ==
  /\ box = NoFrame /\ t = NoApply /\ bar = NoBarrier /\ prep = NoRecord
  /\ cb = Booted.cb /\ prov = Booted.prov
  /\ push = "none" /\ seen = Nowhere /\ own = "ready"
  /\ flash \in [Slots -> [Chunks -> Bytes \cup {"erased"}]]
  /\ saved \in Recs \cup {NoRecord} /\ spent \in Nat
  /\ Whole(saved)

\* A boot establishes the invariant.
LEMMA FreshInv == Fresh => IInv
<1> SUFFICES ASSUME Fresh PROVE IInv
  OBVIOUS
<1>1. TInv
  <2>1. box \in Boxes /\ t \in Applies /\ bar \in Barriers
    BY DEF Fresh, NoApply, Applies, NoBarrier, Barriers, Boxes, NoPayload
  <2>2. seen \in [gen : Nat, prof : Profiles] \cup {Nowhere}
    BY DEF Fresh, Nowhere
  <2> QED
    BY <2>1, <2>2, Boots DEF Fresh, TInv
<1>2. NamedBytesStay
  <2>1. Whole(prov.pending) /\ prov.rollback.kind # "saved"
    BY Boots, Snapshots DEF Fresh, Whole
  <2>2. /\ prov.active \in Snaps
        /\ Base(prov.active).slot = saved.slot /\ Base(prov.active).prof = saved.prof
    BY Boots, Snapshots DEF Fresh
  <2> QED
    BY <2>1, <2>2 DEF Fresh, NamedBytesStay, Whole
<1>3. PrepOK
  BY Boots DEF Fresh, PrepOK, Guarded
<1>4. ReadyOK
  <2>1. HostOK
    BY Boots DEF Fresh, HostOK, NoApply, NoBarrier, Precommit, Decided
  <2>2. UseOK
    BY Boots DEF Fresh, UseOK
  <2> QED
    BY <2>1, <2>2 DEF ReadyOK
<1> QED
  BY <1>1, <1>2, <1>3, <1>4 DEF IInv

\* So does the first boot.
LEMMA InitInv == Init => IInv
<1>1. Init => Fresh
  BY DEF Init, Fresh, Erased, Whole, NoRecord
<1> QED
  BY <1>1, FreshInv

\* A loss of power.
LEMMA RestartInv == ASSUME IInv, Restart PROVE IInv'
<1>1. saved' = saved /\ Booted' = Booted
  BY DEF Restart, Booted
<1>2. Fresh'
  <2>1. Whole(saved)' /\ spent' \in Nat
    BY <1>1 DEF Restart, Trouble, IInv, TInv, NamedBytesStay, Whole
  <2> QED
    BY <1>1, <2>1 DEF Restart, Fresh, IInv, TInv
<1> QED
  BY <1>2, FreshInv, PTL

--------------------------------------------------------------------------------
\* The frames.

\* The bytes stay what they are where the flash and its readers do.
LEMMA BytesStay ==
  ASSUME NamedBytesStay, UNCHANGED <<saved, flash, prov>> PROVE NamedBytesStay'
BY DEF NamedBytesStay, Whole

\* A frame that changes nothing but the transaction.
LEMMA ReplyInv ==
  ASSUME IInv, NEW u, u \in Applies, Replies(u), own = "ready", t.st \notin Decided,
         u.st = t.st \/ u.st = "rejected" \/ (t.st = "complete" /\ u.st = "validating")
                     \/ (t.st = "validated" /\ u.st = "preparing"),
         t.st = "idle" => cb.adm = "none",
         t.st # "idle" => u.want = t.want
  PROVE  IInv'
<1>1. TInv'
  BY DEF IInv, TInv, Replies, Boxes
<1>2. NamedBytesStay' /\ PrepOK'
  BY BytesStay DEF IInv, Replies, PrepOK, Guarded, Borrows, Whole
<1>3. HostOK'
  BY DEF IInv, ReadyOK, HostOK, Replies, Precommit, Decided, Whole, TInv, Applies
<1>4. UseOK'
  BY DEF IInv, ReadyOK, HostOK, UseOK, Replies, Precommit, Decided, TInv, Applies
<1> QED
  BY <1>1, <1>2, <1>3, <1>4 DEF IInv, ReadyOK, Replies

\* A frame that is answered and changes nothing.
LEMMA SameInv == ASSUME IInv, Replies(Same) PROVE IInv'
<1>1. TInv'
  BY DEF IInv, TInv, Replies, Boxes, Same
<1>2. NamedBytesStay' /\ PrepOK'
  BY BytesStay DEF IInv, Replies, PrepOK, Guarded, Borrows, Whole
<1>3. ReadyOK'
  BY DEF IInv, ReadyOK, HostOK, UseOK, Replies, Whole, Same
<1> QED
  BY <1>1, <1>2, <1>3 DEF IInv

\* A poisoned candidate keeps what it declared.
LEMMA PoisonedOK ==
  ASSUME TInv, t.st # "idle"
  PROVE  /\ Poisoned \in Applies /\ Poisoned.st = "rejected"
         /\ Poisoned.want = t.want /\ Poisoned.id = t.id
BY DEF TInv, Applies, Poisoned, Moves, Precommit

\* A candidate as its BEGIN declares it.
LEMMA DeclaredOK ==
  ASSUME TInv, box.op = "begin", NEW st \in {"receiving", "rejected"}
  PROVE  Declared(st) \in Applies /\ Declared(st).st = st /\ Declared(st).want = box.want
         /\ box.want \in Profiles
BY DEF TInv, Boxes, NoFrame, Declared, Applies, Precommit

LEMMA BeginAgainInv == ASSUME IInv, BeginAgain PROVE IInv'
<1>1. CASE Replies(Same)
  BY <1>1, SameInv
<1>2. CASE Replies(Poisoned) /\ t.st \notin Decided
  <2>1. TInv /\ own = "ready" /\ t.st # "idle"
    BY DEF BeginAgain, Takes, HostTurn, IInv
  <2> QED
    BY <1>2, <2>1, PoisonedOK, ReplyInv
<1> QED
  BY <1>1, <1>2 DEF BeginAgain

LEMMA BeginRefusedInv == ASSUME IInv, BeginRefused PROVE IInv'
<1>1. /\ TInv /\ own = "ready" /\ t.st = "idle" /\ box.op = "begin" /\ cb.adm = "none"
      /\ t.st \notin Decided
  BY DEF BeginRefused, Takes, HostTurn, IInv, TInv, ReadyOK, HostOK, Holders, Decided
<1> QED
  BY <1>1, DeclaredOK, ReplyInv DEF BeginRefused
\* A slot that is handed out and erased is one no reader's identity names.
LEMMA TakesSlot ==
  ASSUME IInv, own = "ready", cb.adm = "none", UNCHANGED saved,
         flash' = [flash EXCEPT ![Target] = Erased], prov' \in Provs,
         prov'.active = prov.active, prov'.pending = prov.pending,
         prov'.rollback \in {prov.rollback, NoSnapshot}, ~Borrows(prov'.rollback, Target)
  PROVE  NamedBytesStay'
<1> USE TargetSlot
<1>0. TInv /\ prov.pending = NoSnapshot /\ prov.active.slot = saved.slot
  BY DEF IInv, ReadyOK, HostOK, UseOK, Decided
<1>1. \A slot \in Slots : slot # Target => flash'[slot] = flash[slot]
  BY <1>0 DEF TInv
<1>2. /\ saved.slot \in Slots \cup {NoSlot} /\ prov.active \in Snaps /\ prov.rollback \in Snaps
  BY <1>0 DEF TInv, Recs, NoRecord, Provs
<1>3. Base(prov.active).slot = saved.slot
  BY <1>0, <1>2, Snapshots
<1>4. Whole(saved)' /\ Whole(Base(prov.active))'
  BY <1>0, <1>1, <1>2, <1>3 DEF IInv, NamedBytesStay, Whole
<1>5. Whole(prov.pending)'
  BY <1>0, Snapshots DEF Whole
<1>6. (prov.rollback.kind = "saved" => Whole(prov.rollback))'
  <2>1. prov'.rollback.kind = "saved" => prov'.rollback = prov.rollback /\ prov.rollback.slot # Target
    BY Snapshots DEF Borrows
  <2> QED
    BY <1>1, <1>2, <2>1 DEF IInv, NamedBytesStay, Whole, Snaps
<1> QED
  BY <1>4, <1>5, <1>6 DEF NamedBytesStay

LEMMA BeginInv == ASSUME IInv, Begin PROVE IInv'
<1> USE TargetSlot
<1>0. /\ TInv /\ own = "ready" /\ own' = own /\ t.st = "idle" /\ box.op = "begin"
      /\ box.want \in Profiles /\ cb.adm = "none" /\ ~Guarded(prov) /\ prep = NoRecord
      /\ saved' = saved /\ bar' = bar /\ bar = NoBarrier
      /\ flash' = [flash EXCEPT ![Target] = Erased] /\ box' = NoFrame
      /\ UNCHANGED <<push, seen>> /\ prov.pending = NoSnapshot /\ prov.active.slot = saved.slot
  BY DeclaredOK DEF Begin, Takes, HostTurn, IInv, ReadyOK, HostOK, UseOK, PrepOK, Precommit, ReuseDenied
<1>1. PICK q \in {Reusing(prov, Target), Returned(Reusing(prov, Target))} : prov' = q
  BY DEF Begin
<1>2. /\ prov' \in Provs /\ prov'.active = prov.active /\ prov'.pending = prov.pending
      /\ prov'.rollback \in {prov.rollback, NoSnapshot} /\ ~Borrows(prov'.rollback, Target)
  BY <1>0, <1>1, Providers DEF TInv
<1>3. NamedBytesStay'
  BY <1>0, <1>2, TakesSlot
<1>4. flash' \in [Slots -> [Chunks -> Bytes \cup {"erased"}]]
  BY <1>0 DEF TInv, Erased
<1>5. CASE prov' = Reusing(prov, Target) /\ prep' # prep
  <2>1. /\ prep' = [slot |-> Target, gen |-> saved.gen + 1, prof |-> box.want]
        /\ cb' = [NoHolder EXCEPT !.adm = "host"] /\ t' = Declared("receiving") /\ spent' = spent
    BY <1>5 DEF Begin
  <2>2. prep' \in Recs /\ prep' # NoRecord /\ prep'.slot = Target /\ prep'.prof = box.want
    BY <1>0, <2>1 DEF TInv, Recs, NoRecord, NoSlot, Slots
  <2>3. cb' \in Holders /\ cb'.adm = "host" /\ cb'.valid = FALSE
    BY <2>1 DEF NoHolder, Holders
  <2>4. t' \in Applies /\ t'.st = "receiving" /\ t'.want = box.want
    BY <1>0, <2>1, DeclaredOK
  <2>5. prov'.reuse = Target
    BY <1>0, <1>5, Providers DEF TInv
  <2>6. TInv'
    BY <1>0, <1>2, <1>4, <2>1, <2>2, <2>3, <2>4 DEF TInv, Boxes
  <2>7. PrepOK'
    BY <1>0, <1>2, <2>2, <2>3, <2>5 DEF PrepOK, Guarded, Slots, NoSlot, Borrows
  <2>8. ReadyOK'
    BY <1>0, <1>2, <2>2, <2>3, <2>4 DEF ReadyOK, HostOK, UseOK, Precommit, Decided, NoBarrier
  <2> QED
    BY <1>3, <2>6, <2>7, <2>8 DEF IInv
<1>6. CASE prov' = Returned(Reusing(prov, Target)) /\ t' = Declared("rejected")
           /\ Trouble /\ UNCHANGED <<prep, cb>>
  <2>1. t' \in Applies /\ t'.st = "rejected"
    BY <1>0, <1>6, DeclaredOK
  <2>2. prov'.reuse = NoSlot
    BY <1>0, <1>6, Providers DEF TInv
  <2>3. TInv'
    BY <1>0, <1>2, <1>4, <1>6, <2>1 DEF TInv, Boxes, Trouble
  <2>4. PrepOK'
    BY <1>0, <1>6, <2>2 DEF PrepOK, Guarded
  <2>5. ReadyOK'
    BY <1>0, <1>2, <1>6, <2>1 DEF ReadyOK, HostOK, UseOK, Precommit, Decided, NoBarrier
  <2> QED
    BY <1>3, <2>3, <2>4, <2>5 DEF IInv
<1> QED
  BY <1>0, <1>5, <1>6 DEF Begin, TInv, Recs, NoRecord, NoSlot, Slots

\* A step that hands the slot back, when no record is saved by it.
LEMMA GivesBack ==
  ASSUME IInv, UNCHANGED <<saved, flash>>, prep' = NoRecord, prov' = Returned(prov)
  PROVE  /\ NamedBytesStay' /\ PrepOK' /\ prov' \in Provs
         /\ prov'.active = prov.active /\ prov'.pending = prov.pending
<1>1. /\ prov' \in Provs /\ prov'.reuse = NoSlot /\ prov'.active = prov.active
      /\ prov'.pending = prov.pending /\ prov'.rollback = prov.rollback
  BY Providers DEF IInv, TInv
<1>2. NamedBytesStay'
  BY <1>1 DEF IInv, NamedBytesStay, Whole
<1>3. PrepOK'
  BY <1>1 DEF PrepOK, Guarded
<1> QED
  BY <1>1, <1>2, <1>3

\* What an open prepare writes, no reader's identity names.
LEMMA WritesApart ==
  ASSUME IInv, prep # NoRecord, own = "ready", UNCHANGED <<saved, prov>>,
         NEW x \in [Chunks -> Bytes \cup {"erased"}], flash' = [flash EXCEPT ![prep.slot] = x]
  PROVE  NamedBytesStay' /\ flash' \in [Slots -> [Chunks -> Bytes \cup {"erased"}]]
<1>1. /\ prep \in Recs /\ prep.slot \in Slots /\ prep.slot # saved.slot
      /\ saved.slot \in Slots \cup {NoSlot}
      /\ prov.active \in Snaps /\ prov.rollback \in Snaps
      /\ prov.active.slot = saved.slot /\ prov.pending = NoSnapshot
      /\ ~Borrows(prov.rollback, prep.slot)
  BY DEF IInv, TInv, PrepOK, ReadyOK, UseOK, Provs, Recs, NoRecord
<1>2. flash' \in [Slots -> [Chunks -> Bytes \cup {"erased"}]]
      /\ \A slot \in Slots : slot # prep.slot => flash'[slot] = flash[slot]
  BY <1>1 DEF IInv, TInv
<1>3. Base(prov.active).slot = saved.slot
  BY <1>1, Snapshots
<1>4. Whole(saved)' /\ Whole(Base(prov.active))'
  BY <1>1, <1>2, <1>3 DEF IInv, NamedBytesStay, Whole
<1>5. Whole(prov.pending)'
  BY <1>1, Snapshots DEF Whole
<1>6. (prov.rollback.kind = "saved" => Whole(prov.rollback))'
  BY <1>1, <1>2 DEF IInv, NamedBytesStay, Whole, Borrows, Snaps
<1> QED
  BY <1>2, <1>4, <1>5, <1>6 DEF NamedBytesStay

\* A failed write closes the prepare of a candidate, which stays rejected.
LEMMA WriteFailsInv ==
  ASSUME IInv, WriteFails, own = "ready", t.st = "receiving", box' = NoFrame,
         UNCHANGED <<bar, cb, saved, flash, push, seen, own>>
  PROVE  IInv'
<1>1. /\ TInv /\ HostOK /\ UseOK
      /\ t' \in Applies /\ t'.st = "rejected" /\ prep' = NoRecord
  BY PoisonedOK DEF IInv, ReadyOK, WriteFails
<1>2. /\ NamedBytesStay' /\ PrepOK' /\ prov' \in Provs
      /\ prov'.active = prov.active /\ prov'.pending = prov.pending
  BY GivesBack DEF WriteFails
<1>3. TInv'
  BY <1>1, <1>2 DEF TInv, WriteFails, Trouble, Boxes
<1>4. ReadyOK'
  BY <1>1, <1>2 DEF ReadyOK, HostOK, UseOK, Precommit, Decided, NoBarrier
<1> QED
  BY <1>2, <1>3, <1>4 DEF IInv

\* A chunk that is written leaves the candidate receiving, or complete.
LEMMA WritesInv ==
  ASSUME IInv, own = "ready", t.st = "receiving", NEW c \in Chunks,
         NEW x \in Bytes \cup {"erased"}, flash' = [flash EXCEPT ![prep.slot][c] = x],
         t' = Wrote(c), box' \in Boxes, UNCHANGED <<bar, cb, prep, prov, saved, push, seen, own, spent>>
  PROVE  IInv'
<1> DEFINE y == [flash[prep.slot] EXCEPT ![c] = x]
<1>1. TInv /\ HostOK /\ UseOK /\ PrepOK /\ prep # NoRecord /\ cb.adm = "host"
  BY DEF IInv, ReadyOK, HostOK, Precommit
<1>2. prep.slot \in Slots /\ flash[prep.slot] \in [Chunks -> Bytes \cup {"erased"}]
  BY <1>1 DEF TInv, Recs
<1>3. y \in [Chunks -> Bytes \cup {"erased"}] /\ flash' = [flash EXCEPT ![prep.slot] = y]
  BY <1>1, <1>2 DEF TInv
<1> HIDE DEF y
<1>4. NamedBytesStay' /\ flash' \in [Slots -> [Chunks -> Bytes \cup {"erased"}]]
  BY <1>1, <1>3, WritesApart
<1>5. t' \in Applies /\ t'.st \in {"receiving", "complete"} /\ t'.want = t.want
  <2>1. c \in 0..2
    BY DEF Chunks
  <2>2. PICK st \in {"receiving", "complete"} : t' = [t EXCEPT !.next = c, !.st = st]
    BY DEF Wrote
  <2> QED
    BY <1>1, <2>1, <2>2 DEF TInv, Applies, Precommit
<1>6. TInv'
  BY <1>1, <1>4, <1>5 DEF TInv
<1>7. PrepOK' /\ ReadyOK'
  BY <1>1, <1>5 DEF PrepOK, Guarded, Borrows, ReadyOK, HostOK, UseOK, Precommit, Decided
<1> QED
  BY <1>4, <1>6, <1>7 DEF IInv

LEMMA ChunkAgainInv == ASSUME IInv, ChunkAgain PROVE IInv'
<1>1. CASE Replies(Same)
  BY <1>1, SameInv
<1>2. CASE Replies(Poisoned) /\ t.st \in {"receiving", "complete"}
  <2>1. TInv /\ own = "ready" /\ t.st # "idle" /\ t.st \notin Decided
    BY <1>2 DEF ChunkAgain, Takes, HostTurn, IInv, Decided
  <2> QED
    BY <1>2, <2>1, PoisonedOK, ReplyInv
<1> QED
  BY <1>1, <1>2 DEF ChunkAgain

LEMMA ChunkInv == ASSUME IInv, Chunk PROVE IInv'
<1>1. own = "ready" /\ t.st = "receiving" /\ box' = NoFrame /\ box' \in Boxes
  BY DEF Chunk, Takes, HostTurn, Boxes
<1>2. box.at \in Chunks /\ box.byte \in Bytes
  BY DEF Chunk, Takes, IInv, TInv, Boxes, NoFrame
<1>3. CASE WriteFails /\ UNCHANGED flash
  BY <1>1, <1>3, WriteFailsInv DEF Chunk
<1>4. CASE flash' = [flash EXCEPT ![prep.slot][box.at] = box.byte] /\ t' = Wrote(box.at)
           /\ UNCHANGED <<prep, prov, spent>>
  BY <1>1, <1>2, <1>4, WritesInv DEF Chunk
<1> QED
  BY <1>3, <1>4 DEF Chunk

LEMMA ReuseRefusedInv == ASSUME IInv, ReuseRefused PROVE IInv'
<1>1. CASE Replies(Same)
  BY <1>1, SameInv
<1>2. CASE Replies(Poisoned) /\ t.st = "receiving"
  <2>1. TInv /\ own = "ready" /\ t.st # "idle" /\ t.st \notin Decided
    BY <1>2 DEF ReuseRefused, Takes, HostTurn, IInv, Decided
  <2> QED
    BY <1>2, <2>1, PoisonedOK, ReplyInv
<1> QED
  BY <1>1, <1>2 DEF ReuseRefused, InOrder

LEMMA ReuseInv == ASSUME IInv, Reuse PROVE IInv'
<1>1. own = "ready" /\ t.st = "receiving" /\ prov.active.slot # NoSlot
  BY DEF Reuse, Takes, HostTurn, InOrder, Readable
<1>2. box \in [op : {"reuse"}, id : Ids, at : Chunks, upto : Chunks, from : Snaps]
  BY DEF Reuse, Takes, IInv, TInv, Boxes, NoFrame
<1>3. box.at \in Chunks /\ flash[prov.active.slot][box.at] \in Bytes \cup {"erased"}
  BY <1>1, <1>2 DEF IInv, TInv, Provs, Snaps
<1>4. CASE WriteFails /\ box' = NoFrame /\ UNCHANGED flash
  BY <1>1, <1>4, WriteFailsInv DEF Reuse
<1>5. CASE /\ flash' = [flash EXCEPT ![prep.slot][box.at] = flash[prov.active.slot][box.at]]
           /\ box' = IF box.upto > box.at THEN [box EXCEPT !.at = @ + 1] ELSE NoFrame
           /\ t' = Wrote(box.at)
           /\ UNCHANGED <<prep, prov, spent>>
  <2>1. box' \in Boxes
    BY <1>2, <1>5 DEF Boxes, Chunks
  <2> QED
    BY <1>1, <1>3, <1>5, <2>1, WritesInv DEF Reuse
<1> QED
  BY <1>4, <1>5 DEF Reuse

LEMMA ValidateInv == ASSUME IInv, Validate PROVE IInv'
<1>1. CASE Replies(Same)
  BY <1>1, SameInv
<1>2. CASE Replies(Moves("validating")) /\ t.st = "complete"
  <2>1. TInv /\ own = "ready" /\ t.st \notin Decided
    BY <1>2 DEF Validate, Takes, HostTurn, IInv, Decided
  <2>2. Moves("validating") \in Applies /\ Moves("validating").st = "validating"
        /\ Moves("validating").want = t.want
    BY <2>1 DEF TInv, Applies, Moves, Precommit
  <2> QED
    BY <1>2, <2>1, <2>2, ReplyInv
<1> QED
  BY <1>1, <1>2 DEF Validate

LEMMA CommitInv == ASSUME IInv, Commit PROVE IInv'
<1>1. CASE Replies(Same)
  BY <1>1, SameInv
<1>2. CASE Replies(Moves("preparing")) /\ t.st = "validated"
  <2>1. TInv /\ own = "ready" /\ t.st \notin Decided
    BY <1>2 DEF Commit, Takes, HostTurn, IInv, Decided
  <2>2. Moves("preparing") \in Applies /\ Moves("preparing").st = "preparing"
        /\ Moves("preparing").want = t.want
    BY <2>1 DEF TInv, Applies, Moves, Precommit
  <2> QED
    BY <1>2, <2>1, <2>2, ReplyInv
<1> QED
  BY <1>1, <1>2 DEF Commit

\* A frame that is admitted waits.
LEMMA ReceivesInv == ASSUME IInv, NEW f \in Frames, Receives(f) PROVE IInv'
<1>1. f \in Boxes
  BY DEF Frames, Boxes, Ranges, Chunks, IInv, TInv, Provs
<1>2. TInv'
  BY <1>1 DEF IInv, TInv, Receives
<1>3. NamedBytesStay'
  BY BytesStay DEF IInv, Receives
<1>4. PrepOK' /\ ReadyOK'
  BY DEF IInv, Receives, PrepOK, Guarded, Borrows, Whole, ReadyOK, HostOK, UseOK
<1> QED
  BY <1>2, <1>3, <1>4 DEF IInv
--------------------------------------------------------------------------------
\* The host turn without a frame.

LEMMA ValidatesInv == ASSUME IInv, Validates PROVE IInv'
<1> DEFINE ok == flash[prep.slot] = t.want
<1>1. /\ TInv /\ HostOK /\ UseOK /\ own = "ready" /\ t.st = "validating" /\ own' = own
      /\ UNCHANGED <<box, bar, prep, saved, flash, prov, push, seen, spent>>
  BY DEF Validates, Idles, HostTurn, IInv, ReadyOK
<1>2. /\ cb.adm = "host" /\ prep # NoRecord /\ prep.prof = t.want /\ prep.slot \in Slots
  BY <1>1 DEF HostOK, Precommit, TInv, Recs
<1>3. t' \in Applies /\ t'.want = t.want /\ t'.st = IF ok THEN "validated" ELSE "rejected"
  BY <1>1 DEF Validates, Poisoned, Moves, TInv, Applies, Precommit
<1>4. cb' \in Holders /\ cb'.adm = "host"
  BY <1>1, <1>2 DEF Validates, TInv, Holders
<1>5. TInv' /\ NamedBytesStay' /\ PrepOK'
  BY <1>1, <1>2, <1>3, <1>4, BytesStay DEF TInv, IInv, PrepOK, Guarded, Borrows, Whole
<1>6. HostOK'
  BY <1>1, <1>2, <1>3, <1>4 DEF HostOK, Precommit, Decided, Whole
<1>7. UseOK'
  BY <1>1, <1>2, <1>3, <1>4 DEF UseOK, Precommit
<1> QED
  BY <1>5, <1>6, <1>7 DEF IInv, ReadyOK

LEMMA StartCopyInv == ASSUME IInv, StartCopy PROVE IInv'
<1>1. /\ TInv /\ HostOK /\ UseOK /\ own = "ready" /\ t.st = "preparing" /\ cb.adm = "host"
      /\ push' = "begun" /\ bar' = [bar EXCEPT !.started = TRUE] /\ bar.cancel = "no"
      /\ UNCHANGED <<box, t, cb, prep, saved, flash, prov, seen, own, spent>>
  BY DEF StartCopy, Barrier, Idles, HostTurn, StagedCandidate, IInv, ReadyOK
<1>2. TInv' /\ bar'.cancel = "no"
  BY <1>1 DEF TInv, Barriers
<1>3. NamedBytesStay' /\ PrepOK' /\ UseOK'
  BY <1>1, BytesStay DEF IInv, PrepOK, UseOK, Guarded, Borrows, Whole
<1>4. HostOK'
  BY <1>1, <1>2 DEF HostOK, Whole
<1> QED
  BY <1>2, <1>3, <1>4 DEF IInv, ReadyOK

LEMMA BeginCommitInv == ASSUME IInv, BeginCommit PROVE IInv'
<1>1. /\ TInv /\ HostOK /\ UseOK /\ own = "ready" /\ t.st = "preparing" /\ cb.adm = "host"
      /\ t' = Moves("committing") /\ bar.cancel = "no"
      /\ UNCHANGED <<box, bar, cb, prep, saved, flash, prov, push, seen, own, spent>>
  BY DEF BeginCommit, Barrier, Idles, HostTurn, StagedCandidate, IInv, ReadyOK
<1>2. t' \in Applies /\ t'.st = "committing" /\ t'.want = t.want
  BY <1>1 DEF Moves, TInv, Applies, Decided
<1>3. TInv' /\ NamedBytesStay' /\ PrepOK'
  BY <1>1, <1>2, BytesStay DEF TInv, IInv, PrepOK, Guarded, Borrows, Whole
<1>4. HostOK'
  BY <1>1, <1>2 DEF HostOK, Precommit, Decided, Whole
<1>5. UseOK'
  BY <1>1, <1>2 DEF HostOK, UseOK, Precommit
<1> QED
  BY <1>3, <1>4, <1>5 DEF IInv, ReadyOK

\* A prepare that becomes the saved record: its bytes are what it names.
LEMMA SavesPrepared ==
  ASSUME IInv, Whole(prep), saved' = prep, prep' = NoRecord, prov' = Returned(prov),
         UNCHANGED flash
  PROVE  /\ NamedBytesStay' /\ PrepOK' /\ prov' \in Provs
         /\ prov'.active = prov.active /\ prov'.pending = prov.pending
<1>1. /\ prov' \in Provs /\ prov'.reuse = NoSlot /\ prov'.active = prov.active
      /\ prov'.pending = prov.pending /\ prov'.rollback = prov.rollback
  BY Providers DEF IInv, TInv
<1>2. NamedBytesStay'
  BY <1>1 DEF IInv, NamedBytesStay, Whole
<1>3. PrepOK'
  BY <1>1 DEF PrepOK, Guarded
<1> QED
  BY <1>1, <1>2, <1>3

LEMMA CommitDoneInv == ASSUME IInv, CommitDone PROVE IInv'
<1>1. /\ TInv /\ HostOK /\ UseOK /\ own = "ready" /\ t.st = "committing" /\ bar.cancel = "no"
      /\ saved' = prep /\ prep' = NoRecord /\ prov' = Returned(prov)
      /\ cb' = [cb EXCEPT !.avail = TRUE] /\ t' = Moves("converging")
      /\ UNCHANGED <<box, bar, flash, push, seen, own, spent>>
  BY DEF CommitDone, Idles, HostTurn, IInv, ReadyOK
<1>2. /\ cb.adm = "host" /\ prep # NoRecord /\ prep.prof = t.want /\ Whole(prep)
      /\ prov.pending = NoSnapshot
  BY <1>1 DEF HostOK, Decided, IInv, PrepOK
<1>3. /\ NamedBytesStay' /\ PrepOK' /\ prov' \in Provs
      /\ prov'.active = prov.active /\ prov'.pending = NoSnapshot
  BY <1>1, <1>2, SavesPrepared
<1>4. /\ t' \in Applies /\ t'.st = "converging" /\ t'.want = t.want
      /\ cb' \in Holders /\ cb'.adm = "host"
  BY <1>1, <1>2 DEF Moves, TInv, Applies, Decided, Holders
<1>5. TInv'
  BY <1>1, <1>3, <1>4 DEF TInv
<1>6. HostOK' /\ UseOK'
  BY <1>1, <1>2, <1>3, <1>4 DEF HostOK, UseOK, Precommit, Decided
<1> QED
  BY <1>3, <1>5, <1>6 DEF IInv, ReadyOK

LEMMA CommitUnknownInv == ASSUME IInv, CommitUnknown PROVE IInv'
<1>1. /\ TInv /\ HostOK /\ own' = "stopped" /\ t.st = "committing"
      /\ saved' \in {saved, prep} /\ prep' = NoRecord /\ prov' = Returned(prov) /\ UNCHANGED flash
  BY DEF CommitUnknown, Idles, HostTurn, IInv, ReadyOK
<1>2. Whole(prep)
  BY <1>1 DEF HostOK
<1>3. NamedBytesStay' /\ PrepOK' /\ prov' \in Provs
  <2>1. CASE saved' = saved
    BY <1>1, <2>1, GivesBack
  <2>2. CASE saved' = prep
    BY <1>1, <1>2, <2>2, SavesPrepared
  <2> QED
    BY <1>1, <2>1, <2>2
<1>4. t' \in Applies /\ cb' \in Holders
  BY <1>1, PoisonedOK DEF TInv, CommitUnknown, Holders
<1>5. TInv'
  BY <1>1, <1>3, <1>4 DEF TInv, CommitUnknown, Trouble
<1> QED
  BY <1>1, <1>3, <1>5 DEF IInv, ReadyOK

LEMMA TellsInv == ASSUME IInv, Tells PROVE IInv'
<1>1. /\ TInv /\ HostOK /\ UseOK /\ own = "ready" /\ t.st = "converging" /\ bar.cancel = "no"
      /\ push' \in {push, "commit"}
      /\ UNCHANGED <<box, t, cb, prep, saved, flash, prov, seen, own, spent>>
  BY DEF Tells, Idles, HostTurn, IInv, ReadyOK
<1>2. PICK told \in {"published", "commit"} : bar' = [bar EXCEPT !.told = told]
  BY DEF Tells
<1>3. TInv' /\ bar'.cancel = "no"
  BY <1>1, <1>2 DEF TInv, Barriers
<1>4. NamedBytesStay' /\ PrepOK' /\ UseOK'
  BY <1>1, BytesStay DEF IInv, PrepOK, UseOK, Guarded, Borrows, Whole
<1>5. HostOK'
  BY <1>1, <1>3 DEF HostOK, Whole, Decided
<1> QED
  BY <1>3, <1>4, <1>5 DEF IInv, ReadyOK

LEMMA AuthorityFailsInv == ASSUME IInv, AuthorityFails PROVE IInv'
<1>1. /\ TInv /\ own' = "stopped" /\ t' = Moves("failed")
      /\ UNCHANGED <<box, bar, cb, prep, saved, flash, prov, push, seen, spent>>
  BY DEF AuthorityFails, IInv
<1>2. TInv'
  BY <1>1 DEF TInv, Moves, Applies
<1>3. NamedBytesStay' /\ PrepOK'
  BY <1>1, BytesStay DEF IInv, PrepOK, Guarded, Borrows, Whole
<1> QED
  BY <1>1, <1>2, <1>3 DEF IInv, ReadyOK

\* What a request for the saved record leaves of the provider.
LEMMA RequestsSaved ==
  ASSUME IInv, prov' = Requested(prov, Saved(saved)), UNCHANGED <<saved, flash, prep, cb>>
  PROVE  /\ NamedBytesStay' /\ PrepOK' /\ prov' \in Provs
         /\ prov'.active = prov.active /\ prov'.pending \in {prov.pending, Saved(saved)}
         /\ prov' = prov \/ prep = NoRecord
<1>1. Saved(saved) \in Snaps /\ Saved(saved).slot = saved.slot /\ Saved(saved).prof = saved.prof
  BY Snapshots DEF IInv, TInv
<1>2. \/ prov' = prov
      \/ /\ prov' \in Provs /\ prov'.reuse = prov.reuse /\ ~Guarded(prov)
         /\ prov'.active = prov.active /\ prov'.rollback = prov.rollback
         /\ prov'.pending = Saved(saved)
  BY <1>1, Providers DEF IInv, TInv
<1>3. NamedBytesStay'
  BY <1>1, <1>2 DEF IInv, NamedBytesStay, Whole
<1>4. PrepOK'
  BY <1>2 DEF IInv, PrepOK, Guarded, Borrows, Whole
<1> QED
  BY <1>2, <1>3, <1>4 DEF IInv, TInv, PrepOK

LEMMA ActivatesInv == ASSUME IInv, Activates PROVE IInv'
<1>1. /\ TInv /\ HostOK /\ UseOK /\ own = "ready" /\ t.st = "converging" /\ bar.cancel = "no"
      /\ UNCHANGED <<box, bar, cb, prep, saved, flash, push, seen, spent>>
  BY DEF Activates, Idles, HostTurn, IInv, ReadyOK
<1>2. CASE Accepted
  <2>1. t' = Moves("activating") /\ prov' = Requested(prov, Saved(saved)) /\ own' = own
    BY <1>2 DEF Activates
  <2>2. /\ NamedBytesStay' /\ PrepOK' /\ prov' \in Provs
        /\ prov'.active = prov.active /\ prov'.pending \in {prov.pending, Saved(saved)}
    BY <1>1, <2>1, RequestsSaved
  <2>3. t' \in Applies /\ t'.st = "activating" /\ t'.want = t.want
    BY <1>1, <2>1 DEF Moves, TInv, Applies, Decided
  <2>4. TInv'
    BY <1>1, <2>1, <2>2, <2>3 DEF TInv
  <2>5. HostOK' /\ UseOK'
    BY <1>1, <2>1, <2>2, <2>3 DEF HostOK, UseOK, Precommit, Decided, Saved
  <2> QED
    BY <2>2, <2>4, <2>5 DEF IInv, ReadyOK
<1>3. CASE ~Accepted
  <2>1. t' = Poisoned /\ own' = "stopped" /\ UNCHANGED prov
    BY <1>3 DEF Activates
  <2>2. TInv'
    BY <1>1, <2>1, PoisonedOK DEF TInv
  <2>3. NamedBytesStay' /\ PrepOK'
    BY <1>1, <2>1, BytesStay DEF IInv, PrepOK, Guarded, Borrows, Whole
  <2> QED
    BY <2>1, <2>2, <2>3 DEF IInv, ReadyOK
<1> QED
  BY <1>2, <1>3

\* A waiting snapshot that is published is the saved record's.
LEMMA PublishesSaved ==
  ASSUME IInv, own = "ready", CanPublish(prov), prov' = Published(prov), UNCHANGED <<saved, flash>>,
         prep' = prep
  PROVE  /\ NamedBytesStay' /\ PrepOK' /\ prov' \in Provs /\ prep = NoRecord
         /\ prov'.active = Saved(saved) /\ prov'.pending = NoSnapshot
         /\ prov'.active.slot = saved.slot
<1>1. /\ prov.pending = Saved(saved) /\ prep = NoRecord /\ prov.active \in Snaps
      /\ saved \in Recs \cup {NoRecord}
  BY DEF CanPublish, IInv, TInv, ReadyOK, UseOK, Provs
<1>2. /\ prov' \in Provs /\ prov'.reuse = prov.reuse
      /\ prov'.active = Saved(saved) /\ prov'.rollback = prov.active /\ prov'.pending = NoSnapshot
  BY <1>1, Providers DEF IInv, TInv
<1>3. Saved(saved) \in Snaps /\ Saved(saved).slot = saved.slot /\ Saved(saved).prof = saved.prof
  BY <1>1, Snapshots
<1>4. NamedBytesStay'
  <2>1. Whole(saved)' /\ Whole(Base(prov.active))'
    <3>1. Base(Saved(saved)).slot = saved.slot /\ Base(Saved(saved)).prof = saved.prof
      BY <1>3, Snapshots
    <3> QED
      BY <1>2, <3>1 DEF IInv, NamedBytesStay, Whole
  <2>2. Whole(prov.pending)'
    BY <1>2, Snapshots DEF Whole
  <2>3. (prov.rollback.kind = "saved" => Whole(prov.rollback))'
    <3>1. Base(prov.active).slot = prov.active.slot /\ Base(prov.active).prof = prov.active.prof
      BY <1>1, Snapshots
    <3> QED
      BY <1>2, <3>1 DEF IInv, NamedBytesStay, Whole
  <2> QED
    BY <2>1, <2>2, <2>3 DEF NamedBytesStay
<1>5. PrepOK'
  BY <1>1, <1>2 DEF IInv, PrepOK, Guarded
<1> QED
  BY <1>1, <1>2, <1>3, <1>4, <1>5

\* An Apply that is over leaves nothing of itself.
LEMMA OverOK == NoApply \in Applies /\ NoBarrier \in Barriers /\ NoApply.st = "idle" /\ NoBarrier.cancel = "no"
BY DEF NoApply, Applies, NoBarrier, Barriers, NoPayload

LEMMA PublishesInv == ASSUME IInv, Publishes PROVE IInv'
<1>1. /\ TInv /\ HostOK /\ UseOK /\ own = "ready" /\ t.st = "activating"
      /\ CanPublish(prov) /\ prov' = Published(prov) /\ cb' = [cb EXCEPT !.adm = "none"]
      /\ t' = NoApply /\ bar' = NoBarrier
      /\ UNCHANGED <<box, prep, saved, flash, push, seen, own, spent>>
  BY DEF Publishes, Idles, HostTurn, IInv, ReadyOK
<1>2. /\ NamedBytesStay' /\ PrepOK' /\ prov' \in Provs /\ prep = NoRecord
      /\ prov'.pending = NoSnapshot /\ prov'.active.slot = saved.slot
  BY <1>1, PublishesSaved
<1>3. cb' \in Holders /\ cb'.adm = "none"
  BY <1>1 DEF TInv, Holders
<1>4. TInv'
  BY <1>1, <1>2, <1>3, OverOK DEF TInv
<1>5. HostOK' /\ UseOK'
  BY <1>1, <1>2, <1>3, OverOK DEF HostOK, UseOK, Precommit, Decided
<1> QED
  BY <1>2, <1>4, <1>5 DEF IInv, ReadyOK

--------------------------------------------------------------------------------
\* The end of a candidate before its decision.

\* A candidate that is let go, by whatever asked for it.
LEMMA LetsGoInv ==
  ASSUME IInv, own = "ready", t.st \in Precommit, cb.adm # "peer",
         NEW why \in {"abort", "timeout", "superseded", "transfer", "storage"},
         LetsGo(why), UNCHANGED <<saved, flash, seen>>,
         push' \in {"none", "begun", "sending", "ready", "stopped", "aborting", "commit", "refused"}
  PROVE  IInv'
<1>1. TInv /\ HostOK /\ UseOK
  BY DEF IInv, ReadyOK
<1>2. /\ NamedBytesStay' /\ PrepOK' /\ prov' \in Provs /\ prep' = NoRecord
      /\ prov'.active = prov.active /\ prov'.pending = prov.pending
  BY GivesBack DEF LetsGo
<1>3. box' \in Boxes
  BY <1>1 DEF LetsGo, TInv, Boxes
<1>4. CASE /\ t' = IF why = "storage" THEN t ELSE NoApply
           /\ cb' = [cb EXCEPT !.adm = "none", !.valid = FALSE]
           /\ bar' = NoBarrier
           /\ own' = IF why = "storage" THEN "stopped" ELSE own
           /\ UNCHANGED spent
  <2>1. cb' \in Holders /\ cb'.adm = "none"
    BY <1>1, <1>4 DEF TInv, Holders
  <2>2. TInv'
    BY <1>1, <1>2, <1>3, <1>4, <2>1, OverOK DEF TInv
  <2>3. prov.active.slot = saved.slot /\ prov.pending = NoSnapshot
    BY <1>1 DEF UseOK, Holders, TInv, Precommit
  <2>4. ReadyOK'
    BY <1>2, <1>4, <2>1, <2>3, OverOK DEF ReadyOK, HostOK, UseOK, Precommit, Decided
  <2> QED
    BY <1>2, <2>2, <2>4 DEF IInv
<1>5. CASE /\ t' = Poisoned /\ prep # NoRecord
           /\ cb' = [cb EXCEPT !.valid = FALSE]
           /\ bar' = [bar EXCEPT !.cancel = why]
           /\ own' = "stopped"
           /\ Trouble
  <2>1. cb' \in Holders /\ bar' \in Barriers
    BY <1>1, <1>5 DEF TInv, Barriers, Holders
  <2>2. t' \in Applies
    BY <1>1, <1>5 DEF TInv, Applies, Poisoned, Moves, Precommit
  <2>3. TInv'
    BY <1>1, <1>2, <1>3, <1>5, <2>1, <2>2 DEF TInv, Trouble
  <2> QED
    BY <1>2, <1>5, <2>3 DEF IInv, ReadyOK
<1> QED
  BY <1>4, <1>5 DEF LetsGo

LEMMA CancelsInv ==
  ASSUME IInv, NEW why \in {"abort", "timeout", "superseded", "transfer"}, Cancels(why),
         cb.adm # "peer"
  PROVE  IInv'
<1>1. /\ TInv /\ HostOK /\ UseOK /\ own = "ready" /\ t.st \in Precommit
      /\ UNCHANGED <<saved, flash, seen>> /\ push' = CopyCancel
  BY DEF Cancels, IInv, ReadyOK
<1>2. push' \in {"none", "begun", "sending", "ready", "stopped", "aborting", "commit", "refused"}
  BY <1>1 DEF CopyCancel, TInv
<1>3. CASE LetsGo(why)
  BY <1>1, <1>2, <1>3, LetsGoInv
<1>4. CASE bar.started /\ bar' = [bar EXCEPT !.cancel = why]
           /\ UNCHANGED <<box, t, cb, prep, prov, own, spent>>
  <2>1. TInv' /\ bar # NoBarrier
    BY <1>1, <1>2, <1>4 DEF TInv, Barriers, NoBarrier
  <2>2. NamedBytesStay' /\ PrepOK' /\ UseOK'
    BY <1>1, <1>4, BytesStay DEF IInv, PrepOK, UseOK, Guarded, Borrows, Whole
  <2>3. HostOK'
    BY <1>1, <1>4, <2>1 DEF HostOK, Whole
  <2> QED
    BY <2>1, <2>2, <2>3 DEF IInv, ReadyOK
<1> QED
  BY <1>3, <1>4 DEF Cancels

LEMMA FinishCancelInv == ASSUME IInv, FinishCancel PROVE IInv'
<1>1. /\ TInv /\ HostOK /\ own = "ready" /\ bar.cancel # "no" /\ bar.cancel # NoBarrier.cancel
  BY DEF FinishCancel, IInv, ReadyOK, NoBarrier
<1>2. t.st \in Precommit /\ cb.adm = "host"
  BY <1>1 DEF HostOK
<1>3. bar.cancel \in {"abort", "timeout", "superseded", "transfer", "storage"}
  BY <1>1 DEF TInv, Barriers
<1> QED
  BY <1>1, <1>2, <1>3, LetsGoInv DEF FinishCancel, TInv

LEMMA CommitFailsInv == ASSUME IInv, CommitFails PROVE IInv'
<1>1. /\ TInv /\ HostOK /\ UseOK /\ own = "ready" /\ t.st = "committing" /\ cb.adm = "host"
      /\ prep # NoRecord
  BY DEF CommitFails, Idles, HostTurn, IInv, ReadyOK, HostOK, Decided
<1>2. /\ NamedBytesStay' /\ PrepOK' /\ prov' \in Provs /\ prep' = NoRecord
      /\ prov'.active = prov.active /\ prov'.pending = prov.pending
  BY GivesBack DEF CommitFails
<1>3. t' \in Applies /\ t'.st = "rejected"
  BY <1>1, PoisonedOK DEF CommitFails
<1>4. cb' \in Holders /\ cb'.adm = "host" /\ bar' \in Barriers
  BY <1>1 DEF CommitFails, TInv, Holders, Barriers
<1>5. push' \in {"none", "begun", "sending", "ready", "stopped", "aborting", "commit", "refused"}
  BY <1>1 DEF CommitFails, CopyCancel, TInv
<1>6. TInv'
  BY <1>1, <1>2, <1>3, <1>4, <1>5 DEF TInv, CommitFails, Trouble
<1>7. UNCHANGED <<own, saved>> /\ prov.active.slot = saved.slot /\ prov.pending = NoSnapshot
  BY <1>1 DEF CommitFails, UseOK
<1>8. HostOK' /\ UseOK'
  BY <1>1, <1>2, <1>3, <1>4, <1>7 DEF HostOK, UseOK, Precommit, Decided
<1> QED
  BY <1>2, <1>6, <1>8 DEF IInv, ReadyOK

LEMMA EndsInv ==
  ASSUME IInv, ClientAborts \/ LeaseEnds \/ Supersedes \/ CopyFails PROVE IInv'
<1>1. CASE ClientAborts
  BY <1>1, CancelsInv DEF ClientAborts, HostTurn
<1>2. CASE LeaseEnds
  BY <1>2, CancelsInv DEF LeaseEnds
<1>3. CASE Supersedes
  BY <1>3, CancelsInv DEF Supersedes
<1>4. CASE CopyFails
  BY <1>4, CancelsInv DEF CopyFails, Barrier, Idles, HostTurn
<1> QED
  BY <1>1, <1>2, <1>3, <1>4
--------------------------------------------------------------------------------
\* The other half and the working copy.

\* The link and what the other half saved are not looked at by the invariant.
LEMMA LinkInv ==
  ASSUME IInv, UNCHANGED <<box, t, bar, cb, prep, saved, flash, prov, own>>,
         push' \in {"none", "begun", "sending", "ready", "stopped", "aborting", "commit", "refused"},
         seen' \in [gen : Nat, prof : Profiles] \cup {Nowhere}, spent' \in Nat
  PROVE  IInv'
<1>1. TInv' /\ NamedBytesStay'
  BY BytesStay DEF IInv, TInv
<1>2. PrepOK' /\ ReadyOK'
  BY DEF IInv, PrepOK, ReadyOK, HostOK, UseOK, Guarded, Borrows, Whole
<1> QED
  BY <1>1, <1>2 DEF IInv

LEMMA CopyMovesInv == ASSUME IInv, CopyMoves PROVE IInv'
<1>1. push' \in {"none", "begun", "sending", "ready", "stopped", "aborting", "commit", "refused"}
  BY DEF CopyMoves, IInv, TInv
<1>2. seen' \in [gen : Nat, prof : Profiles] \cup {Nowhere}
  BY DEF CopyMoves, IInv, TInv, Recs, NoRecord, Nowhere
<1> QED
  BY <1>1, <1>2, LinkInv DEF CopyMoves, Untouched, IInv, TInv

LEMMA CopyStopsInv == ASSUME IInv, CopyStops PROVE IInv'
BY LinkInv DEF CopyStops, Untouched, Trouble, IInv, TInv

LEMMA OtherSavesInv ==
  ASSUME IInv, NEW gen \in 1..MaxGen, NEW prof \in Profiles, OtherSaves(gen, prof)
  PROVE  IInv'
<1>1. seen' \in [gen : Nat, prof : Profiles] \cup {Nowhere} /\ spent' \in Nat
  BY Bounds DEF OtherSaves, Trouble, IInv, TInv
<1> QED
  BY <1>1, LinkInv DEF OtherSaves, Untouched, IInv, TInv

LEMMA TakeCopyInv == ASSUME IInv, TakeCopy PROVE IInv'
<1> USE TargetSlot
<1>0. /\ TInv /\ HostOK /\ own = "ready" /\ cb.adm = "none" /\ ~Guarded(prov) /\ prep = NoRecord
      /\ flash' = [flash EXCEPT ![Target] = Erased] /\ prov' = Reusing(prov, Target)
      /\ cb' = [NoHolder EXCEPT !.adm = "peer"]
      /\ prep' = [slot |-> Target, gen |-> seen.gen, prof |-> seen.prof] /\ seen.gen > saved.gen
      /\ UNCHANGED <<box, t, bar, saved, push, seen, own, spent>>
      /\ prov.pending = NoSnapshot /\ prov.active.slot = saved.slot
      /\ bar = NoBarrier /\ t.st \in {"idle", "rejected"}
  BY DEF TakeCopy, Untouched, IInv, TInv, Applies, ReadyOK, HostOK, UseOK, PrepOK, Precommit, Decided, ReuseDenied
<1>1. /\ prov' \in Provs /\ prov'.active = prov.active /\ prov'.pending = prov.pending
      /\ prov'.rollback \in {prov.rollback, NoSnapshot} /\ ~Borrows(prov'.rollback, Target)
      /\ prov'.reuse = Target
  BY <1>0, Providers DEF TInv
<1>2. NamedBytesStay'
  BY <1>0, <1>1, TakesSlot
<1>3. cb' \in Holders /\ cb'.adm = "peer" /\ cb'.valid = FALSE
  BY <1>0 DEF NoHolder, Holders
<1>4. prep' \in Recs /\ prep' # NoRecord /\ prep'.slot = Target
  BY <1>0 DEF TInv, Recs, NoRecord, NoSlot, Slots, Nowhere
<1>5. TInv'
  BY <1>0, <1>1, <1>3, <1>4 DEF TInv, Erased
<1>6. PrepOK'
  BY <1>0, <1>1, <1>3, <1>4 DEF PrepOK, Guarded, Slots, NoSlot, Borrows
<1>7. HostOK' /\ UseOK'
  BY <1>0, <1>1, <1>3, <1>4 DEF HostOK, UseOK, Precommit, Decided, NoBarrier
<1> QED
  BY <1>2, <1>5, <1>6, <1>7 DEF IInv, ReadyOK

LEMMA CopyArrivesInv == ASSUME IInv, CopyArrives PROVE IInv'
<1>0. /\ TInv /\ PrepOK /\ HostOK /\ UseOK /\ own = "ready" /\ cb.adm = "peer" /\ prep # NoRecord
      /\ flash' = [flash EXCEPT ![prep.slot] = prep.prof] /\ cb' = [cb EXCEPT !.valid = TRUE]
      /\ UNCHANGED <<box, t, bar, prep, saved, prov, push, seen, own, spent>>
  BY DEF CopyArrives, Copying, Untouched, IInv, ReadyOK
<1>1. prep \in Recs /\ prep.slot \in Slots /\ prep.prof \in [Chunks -> Bytes \cup {"erased"}]
  BY <1>0, Bounds DEF TInv, Recs, Chunks
<1>2. NamedBytesStay' /\ flash' \in [Slots -> [Chunks -> Bytes \cup {"erased"}]]
  BY <1>0, <1>1, WritesApart
<1>3. cb' \in Holders /\ cb'.adm = "peer"
  BY <1>0 DEF TInv, Holders
<1>4. TInv' /\ Whole(prep)'
  BY <1>0, <1>1, <1>2, <1>3 DEF TInv, Whole
<1>5. PrepOK'
  BY <1>0, <1>3, <1>4 DEF PrepOK, Guarded, Borrows
<1>6. HostOK' /\ UseOK'
  BY <1>0, <1>3 DEF HostOK, UseOK, Precommit, Decided
<1> QED
  BY <1>2, <1>4, <1>5, <1>6 DEF IInv, ReadyOK

LEMMA CopySavedInv == ASSUME IInv, CopySaved PROVE IInv'
<1>0. /\ TInv /\ PrepOK /\ HostOK /\ UseOK /\ own = "ready" /\ cb.adm = "peer" /\ prep # NoRecord /\ cb.valid
      /\ saved' = prep /\ prep' = NoRecord /\ prov' = Returned(prov) /\ cb' = [cb EXCEPT !.avail = TRUE]
      /\ UNCHANGED <<box, t, bar, flash, push, seen, own, spent>>
  BY DEF CopySaved, Copying, Untouched, IInv, ReadyOK
<1>1. Whole(prep) /\ prov.pending = NoSnapshot
  BY <1>0 DEF PrepOK
<1>2. /\ NamedBytesStay' /\ PrepOK' /\ prov' \in Provs
      /\ prov'.active = prov.active /\ prov'.pending = NoSnapshot
  BY <1>0, <1>1, SavesPrepared
<1>3. cb' \in Holders /\ cb'.adm = "peer"
  BY <1>0 DEF TInv, Holders
<1>4. TInv'
  BY <1>0, <1>2, <1>3 DEF TInv
<1>5. HostOK' /\ UseOK'
  BY <1>0, <1>2, <1>3 DEF HostOK, UseOK, Precommit, Decided
<1> QED
  BY <1>2, <1>4, <1>5 DEF IInv, ReadyOK

LEMMA CopyDroppedInv == ASSUME IInv, CopyDropped PROVE IInv'
<1>0. /\ TInv /\ PrepOK /\ HostOK /\ UseOK /\ own = "ready" /\ cb.adm = "peer" /\ prep # NoRecord
      /\ prep' = NoRecord /\ prov' = Returned(prov) /\ cb' = NoHolder /\ spent' = spent + 1
      /\ UNCHANGED <<box, t, bar, saved, flash, push, seen, own>>
  BY DEF CopyDropped, Copying, Untouched, Trouble, IInv, ReadyOK
<1>1. /\ NamedBytesStay' /\ PrepOK' /\ prov' \in Provs
      /\ prov'.active = prov.active /\ prov'.pending = prov.pending
  BY <1>0, GivesBack
<1>2. cb' \in Holders /\ cb'.adm = "none"
  BY <1>0 DEF NoHolder, Holders
<1>3. TInv'
  BY <1>0, <1>1, <1>2 DEF TInv
<1>4. HostOK' /\ UseOK'
  BY <1>0, <1>1, <1>2 DEF HostOK, UseOK, PrepOK, Precommit, Decided
<1> QED
  BY <1>1, <1>3, <1>4 DEF IInv, ReadyOK

LEMMA CopyActivatesInv == ASSUME IInv, CopyActivates PROVE IInv'
<1>0. /\ TInv /\ HostOK /\ UseOK /\ own = "ready" /\ cb.adm = "peer" /\ prep = NoRecord
      /\ UNCHANGED <<box, t, bar, prep, saved, flash, push, seen, spent>>
  BY DEF CopyActivates, Untouched, IInv, ReadyOK
<1>1. CASE /\ own' = IF Accepted THEN own ELSE "stopped"
           /\ prov' = Requested(prov, Saved(saved)) /\ UNCHANGED cb
  <2>1. /\ NamedBytesStay' /\ PrepOK' /\ prov' \in Provs
        /\ prov'.active = prov.active /\ prov'.pending \in {prov.pending, Saved(saved)}
    BY <1>0, <1>1, RequestsSaved
  <2>2. TInv'
    BY <1>0, <1>1, <2>1 DEF TInv
  <2>3. HostOK' /\ UseOK'
    BY <1>0, <1>1, <2>1 DEF HostOK, UseOK, Precommit, Decided, Saved, Whole
  <2> QED
    BY <2>1, <2>2, <2>3 DEF IInv, ReadyOK
<1>2. CASE /\ CanPublish(prov) /\ prov' = Published(prov) /\ cb' = [cb EXCEPT !.adm = "none"]
           /\ UNCHANGED own
  <2>1. /\ NamedBytesStay' /\ PrepOK' /\ prov' \in Provs
        /\ prov'.pending = NoSnapshot /\ prov'.active.slot = saved.slot
    BY <1>0, <1>2, PublishesSaved
  <2>2. cb' \in Holders /\ cb'.adm = "none"
    BY <1>0, <1>2 DEF TInv, Holders
  <2>3. TInv'
    BY <1>0, <1>2, <2>1, <2>2 DEF TInv
  <2>4. HostOK' /\ UseOK'
    BY <1>0, <1>2, <2>1, <2>2 DEF HostOK, UseOK, Precommit, Decided
  <2> QED
    BY <2>1, <2>3, <2>4 DEF IInv, ReadyOK
<1> QED
  BY <1>1, <1>2 DEF CopyActivates

LEMMA WorkingCopyLandsInv == ASSUME IInv, WorkingCopyLands PROVE IInv'
<1>0. /\ TInv /\ HostOK /\ UseOK /\ own = "ready" /\ t.st = "idle"
      /\ UNCHANGED <<box, t, bar, cb, prep, saved, flash, push, seen, own, spent>>
  BY DEF WorkingCopyLands, NoApplyHeld, Untouched, IInv, ReadyOK
<1>1. PICK x \in {Edited(prov.active), Base(prov.active)} :
         CanReplace(prov, x) /\ prov' = Replaced(prov, x)
  BY DEF WorkingCopyLands
<1>2. /\ prov.active \in Snaps /\ x \in Snaps /\ x.slot = prov.active.slot /\ x.prof = prov.active.prof
      /\ Base(x).slot = Base(prov.active).slot /\ Base(x).prof = Base(prov.active).prof
  BY <1>0, Snapshots DEF TInv, Provs
<1>3. /\ prov' \in Provs /\ prov'.reuse = prov.reuse
      /\ prov'.active = x /\ prov'.rollback = NoSnapshot /\ prov'.pending = prov.pending
      /\ ~Guarded(prov)
  BY <1>0, <1>1, <1>2, Providers DEF TInv, CanReplace
<1>4. NamedBytesStay'
  BY <1>0, <1>2, <1>3, Snapshots DEF IInv, NamedBytesStay, Whole
<1>5. PrepOK' /\ TInv'
  BY <1>0, <1>3 DEF IInv, PrepOK, Guarded, TInv
<1>6. HostOK' /\ UseOK'
  BY <1>0, <1>2, <1>3 DEF HostOK, UseOK, Precommit, Decided, Whole
<1> QED
  BY <1>4, <1>5, <1>6 DEF IInv, ReadyOK

--------------------------------------------------------------------------------
\* The theorems.

LEMMA StutterInv == ASSUME IInv, UNCHANGED vars PROVE IInv'
BY LinkInv DEF vars, IInv, TInv

LEMMA InductiveStep == IInv /\ [Next]_vars => IInv'
<1> SUFFICES ASSUME IInv, [Next]_vars PROVE IInv'
  OBVIOUS
<1>1. CASE TakesFrame
  BY <1>1, BeginAgainInv, BeginRefusedInv, BeginInv, ChunkAgainInv, ChunkInv, ReuseRefusedInv,
     ReuseInv, ValidateInv, CommitInv, SameInv, EndsInv DEF TakesFrame, AbortRefused
<1>2. CASE Advances
  BY <1>2, ValidatesInv, StartCopyInv, BeginCommitInv, CommitDoneInv, TellsInv, ActivatesInv,
     PublishesInv, AuthorityFailsInv, EndsInv, FinishCancelInv DEF Advances
<1>3. CASE OtherCopy \/ CopyMoves \/ TakeCopy \/ WorkingCopyLands \/ Fails
  BY <1>3, CopyArrivesInv, CopySavedInv, CopyActivatesInv, CopyMovesInv, TakeCopyInv,
     WorkingCopyLandsInv, CommitUnknownInv, CommitFailsInv, CopyStopsInv, CopyDroppedInv
     DEF OtherCopy, Fails
<1>4. CASE LeaseEnds \/ Supersedes \/ Restart \/ UNCHANGED vars
  BY <1>4, EndsInv, RestartInv, StutterInv
<1> QED
  BY <1>1, <1>2, <1>3, <1>4, ReceivesInv, OtherSavesInv DEF Next

\* The invariant holds throughout.
THEOREM Inductive == Spec => []IInv
<1>1. Init => IInv
  BY InitInv
<1>2. IInv /\ [Next]_vars => IInv'
  BY InductiveStep
<1> QED
  BY <1>1, <1>2, PTL DEF Spec

\* Every part of the Apply has its type, whatever clients send.
THEOREM TypeCorrect == Spec => []TypeOK
<1>1. IInv => TypeOK
  BY DEF IInv, TInv, TypeOK, Applies, Barriers, Holders
<1> QED
  BY <1>1, Inductive, PTL

\* The saved record, the profile in use (or what a revert would bring back), the
\* one that waits and the one to roll back to each find in their slot the bytes
\* they name, however candidates and copies are written beside them.
THEOREM NamedBytes == Spec => []NamedBytesStay
<1>1. IInv => NamedBytesStay
  BY DEF IInv
<1> QED
  BY <1>1, Inductive, PTL

\* The store, the backend, the provider and the transaction agree on who holds the
\* slot: no way an Apply ends leaves a prepare, a slot, a barrier or the storage.
THEOREM NoLeak == Spec => []NothingLeaks
<1>1. IInv => NothingLeaks
  <2> SUFFICES ASSUME IInv PROVE NothingLeaks
    OBVIOUS
  <2>1. TInv /\ PrepOK /\ ReadyOK
    BY DEF IInv
  <2>2. own = "ready" /\ t.st = "idle" => bar = NoBarrier
    BY <2>1 DEF ReadyOK, HostOK
  <2> QED
    BY <2>1, <2>2 DEF PrepOK, ReadyOK, HostOK, NothingLeaks
<1> QED
  BY <1>1, Inductive, PTL
\* What DecisionStands says of a step.
Stands ==
  t.st \in Decided /\ own' = "ready" /\ ~Restart =>
     \/ t'.st \in Decided /\ t'.want = t.want /\ bar'.cancel = "no"
     \/ t.st = "committing" /\ bar'.cancel = "storage"
     \/ t'.st = "idle" /\ prov'.active = Saved(saved) /\ saved.prof = t.want

\* A step from a decided Apply, of a half that goes on.
LEMMA StepStands ==
  ASSUME IInv, own = "ready", t.st \in Decided, own' = "ready", ~Restart, Next
  PROVE  \/ t'.st \in Decided /\ t'.want = t.want /\ bar'.cancel = "no"
         \/ t.st = "committing" /\ bar'.cancel = "storage"
         \/ t'.st = "idle" /\ prov'.active = Saved(saved) /\ saved.prof = t.want
<1>1. TInv /\ HostOK /\ UseOK /\ bar.cancel = "no" /\ t.st \notin Precommit
      /\ t.st \notin {"idle", "rejected", "receiving", "complete", "validated", "failed"}
  BY DEF IInv, ReadyOK, HostOK, Decided, Precommit
<1>2. CASE t' = t /\ bar' = bar
  BY <1>1, <1>2
<1>3. CASE TakesFrame
  <2>1. ~ClientAborts
    BY <1>1 DEF ClientAborts, Cancels
  <2>2. ~Begin /\ ~BeginRefused /\ ~Chunk /\ ~Reuse
    BY <1>1 DEF Begin, BeginRefused, Chunk, Reuse, InOrder
  <2>3. Replies(Same)
    BY <1>1, <1>3, <2>1, <2>2
       DEF TakesFrame, BeginAgain, ChunkAgain, ReuseRefused, InOrder, Validate, Commit, AbortRefused
  <2> QED
    BY <1>2, <2>3 DEF Replies, Same
<1>4. CASE Advances
  <2>1. ~Validates /\ ~StartCopy /\ ~BeginCommit /\ ~CopyFails /\ ~FinishCancel /\ ~AuthorityFails
    BY <1>1 DEF Validates, StartCopy, BeginCommit, CopyFails, FinishCancel, AuthorityFails, Barrier, Idles,
                Decided, Precommit
  <2>2. CASE CommitDone \/ Activates
    <3>1. \E st \in {"converging", "activating"} : t' = Moves(st)
      BY <2>2 DEF CommitDone, Activates
    <3>2. t'.st \in Decided /\ t'.want = t.want
      BY <1>1, <3>1 DEF Moves, TInv, Applies, Decided
    <3> QED
      BY <1>1, <2>2, <3>2 DEF CommitDone, Activates
  <2>3. CASE Tells
    <3>1. t' = t /\ \E told \in {"published", "commit"} : bar' = [bar EXCEPT !.told = told]
      BY <2>3 DEF Tells
    <3> QED
      BY <1>1, <3>1 DEF TInv, Barriers
  <2>4. CASE Publishes
    <3>1. t' = NoApply /\ prov' = Published(prov) /\ CanPublish(prov) /\ t.st = "activating"
      BY <2>4 DEF Publishes, Idles
    <3>2. prov'.active = prov.pending /\ prov.pending = Saved(saved) /\ saved.prof = t.want
      BY <1>1, <3>1, Providers DEF TInv, CanPublish, UseOK, HostOK
    <3> QED
      BY <3>1, <3>2, OverOK
  <2> QED
    BY <1>4, <2>1, <2>2, <2>3, <2>4 DEF Advances
<1>5. CASE LeaseEnds \/ Supersedes
  BY <1>1, <1>5 DEF LeaseEnds, Supersedes, Cancels
<1>6. CASE Fails
  <2>1. ~CommitUnknown
    BY DEF CommitUnknown
  <2>2. CASE CommitFails
    <3>1. t.st = "committing" /\ bar' = [bar EXCEPT !.cancel = "storage"]
      BY <2>2 DEF CommitFails, Idles
    <3> QED
      BY <1>1, <3>1 DEF TInv, Barriers
  <2> QED
    BY <1>2, <1>6, <2>1, <2>2 DEF Fails, CopyStops, CopyDropped, Untouched
<1>7. CASE CopyMoves \/ TakeCopy \/ OtherCopy \/ WorkingCopyLands
           \/ (\E gen \in 1..MaxGen, prof \in Profiles : OtherSaves(gen, prof))
           \/ (\E f \in Frames : Receives(f))
  BY <1>2, <1>7 DEF CopyMoves, TakeCopy, OtherCopy, CopyArrives, CopySaved, CopyActivates,
     WorkingCopyLands, OtherSaves, Receives, Untouched
<1> QED
  BY <1>3, <1>4, <1>5, <1>6, <1>7 DEF Next

\* A half that stopped only restarts.
LEMMA StopLasts == ASSUME IInv, own # "ready", Next PROVE Restart
BY DEF Next, Receives, TakesFrame, Takes, HostTurn, BeginAgain, BeginRefused, Begin, ChunkAgain,
   Chunk, ReuseRefused, Reuse, Validate, Commit, AbortRefused, ClientAborts, Advances, Validates,
   StartCopy, BeginCommit, CommitDone, Tells, Activates, Publishes, AuthorityFails, CopyFails,
   FinishCancel, Idles, Barrier, LeaseEnds, Supersedes, Cancels, CopyMoves, TakeCopy, OtherCopy,
   CopyArrives, CopySaved, CopyActivates, Copying, WorkingCopyLands, Fails, CommitUnknown,
   CommitFails, CopyStops, CopyDropped, OtherSaves

\* From the write of the commit on, no frame, deadline or record of the other half
\* takes the Apply back: it goes on towards activation, ends as the profile in use,
\* fails without having saved, or the half stops.
THEOREM Decision == Spec => DecisionStands
<1>1. IInv /\ [Next]_vars => [Stands]_vars
  BY StepStands, StopLasts DEF Stands
<1>2. Spec => [][Stands]_vars
  BY <1>1, Inductive, PTL DEF Spec
<1> QED
  BY <1>2 DEF DecisionStands, Stands
================================================================================
