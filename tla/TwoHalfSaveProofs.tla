--------------------------- MODULE TwoHalfSaveProofs ---------------------------
(* What TwoHalfSave keeps for every set of payloads and every bound on records,  *)
(* restarts, faults and stale answers: its types, that the two halves are never  *)
(* more than one record apart, that no half runs a record the other does not     *)
(* hold, and that the two saved records move as PairedRecord lets them.          *)
(*                                                                               *)
(* The invariant says of every place a record can be in (a saved record, a copy, *)
(* an activated record, a reading of the other half, a request or reply on the   *)
(* link, the push, the Apply) how it relates to the records the halves hold.     *)
(* What follows walks through the steps: a half's storage, the link, the         *)
(* master's calls, the slave's scan, the steps that save, the Apply, power.      *)
EXTENDS TwoHalfSave, TLAPS

(* The types. *)
Saved(h) == store[h].saved

Descs    == Records \cup {NoRecord, Unreadable}
RxStates == {"idle", "receiving", "validating", "preparing", "prepared", "committing",
             "reconcile", "committed", "rejected"}
Whys     == {"none", "busy", "stale", "conflict", "storage", "range"}
Results  == {"ok", "already", "progress", "busy", "storage", "stale", "conflict", "range"}
Copies   == [st : RxStates, desc : Descs, full : BOOLEAN, auto : BOOLEAN, why : Whys]
Stores   == [saved : Records \cup {NoRecord}, rx : Copies, adm : {"none", "host", "peer"},
             vouched : BOOLEAN]
Requests == [kind : {"none", "metadata", "begin", "chunk", "durable", "commit", "abort", "request"},
             desc : Descs, free : BOOLEAN]
Replies  == [kind : {"none", "lost", "ack", "busy", "error", "meta", "chunk"},
             desc : Descs, full : BOOLEAN, why : Whys]
Links    == [box : Requests, cached : [req : Requests, reply : Replies], wire : Replies]
PushStates == {"push_begin", "push_send", "push_durable", "push_prepared", "push_commit", "push_abort"}
PullStates == {"pull_begin", "pull_request", "pull_write", "pull_commit", "pull_step"}
Pushes   == [st : Idle \cup {"verify"} \cup PushStates \cup PullStates, desc : Descs,
             on : BOOLEAN, started : BOOLEAN, authz : BOOLEAN, refused : BOOLEAN,
             orphan : BOOLEAN, retried : BOOLEAN, why : Results \cup {"none"}]
Applies  == [st : {"idle", "preparing", "pushing", "committing", "unknown", "decided",
                   "converging", "activating"},
             cand : Records \cup {NoRecord}, cancel : {"no", "soft", "storage"}]

TInv ==
  /\ usb \in Halves
  /\ store \in [Halves -> Stores]
  /\ active \in [Halves -> Records \cup {NoRecord}]
  /\ own \in [Halves -> {"ready", "recon", "activating", "stopped"}]
  /\ other \in [Halves -> Descs]
  /\ owner \in [Halves -> {"none", "remote", "pull"}]
  /\ link \in Links /\ p \in Pushes /\ a \in Applies
  /\ spent \in [{"restarts", "faults", "stales"} -> Nat]

(* A record d that a half may still meet after it held r: an older one, or r.     *)
Behind(d, r) == d.gen < r.gen \/ d = r

(* Two saved records of one generation are the same record, and the half that is  *)
(* ahead is so by one record, one of its own.                                     *)
PairOK ==
  \A h \in Halves :
     /\ Saved(h).gen = Saved(Other(h)).gen => Saved(h) = Saved(Other(h))
     /\ Saved(h).gen > Saved(Other(h)).gen =>
          Saved(h).gen = Saved(Other(h)).gen + 1 /\ Saved(h).origin = h

(* A half's storage H, while the other half has saved peer: a copy being written  *)
(* is the other half's and newer than the saved record, and one that commits by   *)
(* itself, or is committing, carries what the other half saved.                   *)
HalfOK(H, peer) ==
  /\ Holds(H.rx) => H.adm = "peer" /\ H.rx.desc.gen > H.saved.gen
  /\ H.rx.auto \/ H.rx.st \in {"committing", "reconcile"} => Behind(H.rx.desc, peer)
  /\ H.rx.st = "committed" => Behind(H.rx.desc, H.saved)
  /\ H.rx.st = "idle" => H.rx.desc = NoRecord
  /\ H.rx.st = "rejected" => H.rx.why # "none"
CopiesOK == \A h \in Halves : HalfOK(store[h], Saved(Other(h)))

(* What a half read of the other, and what a half runs, the other has saved or    *)
(* has replaced since.                                                            *)
SeenOK ==
  \A h \in Halves : other[h] # Unreadable => Behind(other[h], Saved(Other(h)))
ActiveOK == \A h \in Halves : Behind(active[h], Saved(Other(h)))

(* A record of the master's the slave has taken whole, while the master has not   *)
(* saved it: the slave is behind it.                                              *)
Accepted(d) == d.gen > Saved(m).gen /\ d.origin = m => Saved(s).gen < d.gen
(* The frames of the link: an answer tells a saved record that was there, or that *)
(* a copy is whole, and a metadata or commit request a record the master saved.   *)
ReplyOK(r) ==
  /\ r.kind = "meta" => r.desc \in Records \cup {NoRecord} /\ Behind(r.desc, Saved(s))
  /\ r.kind = "ack" /\ r.full => Accepted(r.desc)
RequestOK(q) == q.kind \in {"metadata", "commit"} => Behind(q.desc, Saved(m))
LinkOK(l) ==
  /\ RequestOK(l.box) /\ ReplyOK(l.cached.reply) /\ ReplyOK(l.wire)
(* The slave's storage works on the record of the request it is answering.        *)
WorkOK == Working(store[s].rx) =>
     /\ link.cached.req.kind \in {"durable", "commit"}
     /\ link.cached.req.desc = store[s].rx.desc

(* The master's side of the link: it pushes what it saved, or what the host's     *)
(* Apply is about to save, it asks for a commit only with authority, and it pulls *)
(* what the slave saved.                                                          *)
PushOK(q) ==
  /\ q.st \in PushStates /\ (~q.on \/ q.authz) => Behind(q.desc, Saved(m))
  /\ q.st = "push_commit" => ~q.on \/ q.authz
  /\ q.st = "push_prepared" => Accepted(q.desc)
  /\ q.st \in PullStates => Behind(q.desc, Saved(s)) /\ ~q.on
  /\ q.authz => q.on /\ a.st = "converging" /\ Behind(q.desc, Saved(m))
  /\ q.on => a.st \in {"pushing", "committing", "unknown", "decided", "converging"}
  /\ a.st \in {"committing", "decided"} => q.on /\ q.st = "push_prepared" /\ q.desc = a.cand

(* The Apply owns the master's storage; its candidate is the next record until it *)
(* is saved, and is saved only where the two halves hold one record.              *)
ApplyOK ==
  /\ a.st # "idle" => store[m].adm = "host"
  /\ a.cancel # "no" => a.st \in {"preparing", "pushing"}
  /\ a.st \in {"preparing", "pushing", "committing", "unknown"} =>
        a.cand \in Records /\ a.cand.gen = Saved(m).gen + 1 /\ a.cand.origin = m
  /\ a.st \in {"committing", "unknown"} => Saved(s) = Saved(m)
  /\ a.st = "decided" => Saved(m) = a.cand

(* A half whose owner is ready is not ahead of the other, except where its Apply  *)
(* has saved and the other has not yet.                                           *)
ReadyOK ==
  \A h \in Halves : own[h] = "ready" =>
     Saved(h).gen <= Saved(Other(h)).gen \/ (h = m /\ a.st \in {"decided", "converging"})

(* The master's storage holds no copy a push of the slave's made.                 *)
PullCopy(c) == c.st # "preparing" /\ (c.st = "validating" => c.auto)
MasterOK == owner[m] # "remote" /\ PullCopy(store[m].rx)

(* The inductive invariant.                                                       *)
IInv == /\ TInv /\ PairOK /\ CopiesOK /\ MasterOK /\ SeenOK /\ ActiveOK
        /\ LinkOK(link) /\ WorkOK /\ PushOK(p) /\ ApplyOK /\ ReadyOK

(* A step that saves nothing. *)
Stays == IInv' /\ \A h \in Halves : Saved(h)' = Saved(h)

--------------------------------------------------------------------------------
\* Calls into one half's storage.

Agrees(d, r) == d.gen = r.gen => d = r
\* What a call on the storage H leaves, the other half having saved peer.
Keeps(H, o, peer) ==
  /\ o.half \in Stores /\ HalfOK(o.half, peer)
  /\ o.half.saved = H.saved
  /\ H.adm = "host" => o.half.adm = "host"
  /\ o.result \in Results /\ o.fault \in {0, 1}

\* Generations are numbers, and NoRecord has the least.
LEMMA Gens ==
  /\ \A d \in Descs : d.gen \in Nat
  /\ \A d \in Descs : d.gen > 0 => d \in Records
  /\ NoRecord \in Descs /\ NoRecord.gen = 0
BY Bounds DEF Descs, Records, NoRecord, Unreadable

\* A call that ends, one that fails, one that refuses its copy.
LEMMA DoneOK ==
  ASSUME NEW H, NEW r, NEW o \in Done(H, r) PROVE o = [half |-> H, result |-> r, fault |-> 0]
BY DEF Done
LEMMA FailsOK ==
  ASSUME NEW H, NEW r, NEW o \in Fails(H, r) PROVE o = [half |-> H, result |-> r, fault |-> 1]
BY DEF Fails

LEMMA RejectedOK ==
  ASSUME NEW H \in Stores, NEW peer, HalfOK(H, peer), NEW why \in Whys \ {"none"}
  PROVE  /\ Rejected(H, why) \in Stores /\ HalfOK(Rejected(H, why), peer)
         /\ Rejected(H, why).saved = H.saved /\ Rejected(H, why).adm = H.adm
         /\ Rejected(H, why).rx.st = "rejected"
<1> DEFINE R == Rejected(H, why)
<1>1. R \in Stores
  BY DEF Rejected, Stores, Copies, RxStates, Whys
<1>2. /\ R.saved = H.saved /\ R.adm = H.adm
      /\ R.rx.st = "rejected" /\ R.rx.auto = FALSE /\ R.rx.why = why
  BY DEF Rejected, Stores, Copies
<1>3. HalfOK(R, peer)
  BY <1>2 DEF HalfOK, Holds, Working
<1> QED
  BY <1>1, <1>2, <1>3

LEMMA AbortRejectedOK ==
  ASSUME NEW H \in Stores, NEW peer, HalfOK(H, peer), NEW why \in Whys \ {"none"}
  PROVE  /\ AbortRejected(H, why) \in Stores /\ HalfOK(AbortRejected(H, why), peer)
         /\ AbortRejected(H, why).saved = H.saved
         /\ AbortRejected(H, why).rx.st = "rejected"
<1> DEFINE Q == Rejected(H, why)
           R == AbortRejected(H, why)
<1>1. /\ Q \in Stores /\ Q.saved = H.saved /\ Q.rx.st = "rejected" /\ HalfOK(Q, peer)
  BY RejectedOK
<1>2. R \in Stores /\ R.saved = Q.saved /\ R.rx = Q.rx
  BY <1>1 DEF AbortRejected, Stores
<1>3. HalfOK(R, peer)
  BY <1>1, <1>2 DEF HalfOK, Holds, Working
<1> QED
  BY <1>1, <1>2, <1>3

\* What the storage answers of the copy it has.
LEMMA StateResultOK ==
  ASSUME NEW H \in Stores, NEW peer, HalfOK(H, peer)
  PROVE  /\ StateResult(H.rx) \in Results
         /\ StateResult(H.rx) \in {"ok", "already"} => Agrees(H.rx.desc, H.saved)
<1>1. H.rx \in Copies
  BY DEF Stores
<1>2. H.rx.desc.gen \in Nat /\ H.saved.gen \in Nat
  BY <1>1, Gens DEF Copies, Descs, Stores
<1>3. CASE H.rx.st = "idle"
  <2>1. H.rx.desc.gen = 0 /\ H.rx.desc = NoRecord
    BY <1>3, Gens DEF HalfOK
  <2>2. H.saved.gen = 0 => H.saved = NoRecord
    BY Gens DEF Stores, Records
  <2> QED
    BY <1>3, <2>1, <2>2, <1>2 DEF Agrees, StateResult, Working, Results
<1>4. CASE H.rx.st = "committed"
  BY <1>2, <1>4 DEF HalfOK, Agrees, Behind, StateResult, Working, Results
<1>5. CASE Holds(H.rx)
  <2>1. Agrees(H.rx.desc, H.saved)
    BY <1>2, <1>5 DEF HalfOK, Agrees
  <2> QED
    BY <1>5, <2>1 DEF StateResult, Holds, Working, Results
<1>6. CASE H.rx.st = "rejected"
  BY <1>6, <1>1 DEF HalfOK, StateResult, Working, Copies, Whys, Results
<1> QED
  BY <1>1, <1>3, <1>4, <1>5, <1>6 DEF Copies, RxStates, Holds, Working

\* The calls on a storage, one by one, keep what is known of it.
LEMMA DoneKeeps ==
  ASSUME NEW H \in Stores, NEW peer, HalfOK(H, peer), NEW r \in Results, NEW o \in Done(H, r)
  PROVE  Keeps(H, o, peer) /\ o.half = H /\ o.result = r
BY DoneOK DEF Keeps

LEMMA FailKeeps ==
  ASSUME NEW H \in Stores, NEW peer, HalfOK(H, peer), NEW o \in Fails(AbortRejected(H, "storage"), "storage"),
         H.adm # "host"
  PROVE  Keeps(H, o, peer) /\ o.result = "storage" /\ ~Working(o.half.rx)
<1>1. "storage" \in Whys \ {"none"} /\ "storage" \in Results
  BY DEF Whys, Results
<1> QED
  BY <1>1, FailsOK, AbortRejectedOK DEF Keeps, Working

LEMMA RejectKeeps ==
  ASSUME NEW H \in Stores, NEW peer, HalfOK(H, peer), NEW why \in (Whys \cap Results) \ {"none"},
         NEW o \in Done(Rejected(H, why), why) \cup Fails(Rejected(H, why), why)
  PROVE  Keeps(H, o, peer) /\ o.result = why /\ ~Working(o.half.rx)
BY DoneOK, FailsOK, RejectedOK DEF Keeps, Working

LEMMA BeginKeeps ==
  ASSUME NEW H \in Stores, NEW peer, HalfOK(H, peer), NEW d \in Descs, NEW o \in BeginCopy(H, d)
  PROVE  /\ Keeps(H, o, peer)
         /\ ~Working(H.rx) => ~Working(o.half.rx)
         /\ o.result \in {"ok", "already", "progress"} => Agrees(d, H.saved)
<1>0. H.saved.gen \in Nat /\ d.gen \in Nat
  BY Gens DEF Stores, Descs
<1>r. {"already", "busy", "stale", "conflict", "storage", "ok"} \subseteq Results
      /\ {"busy", "stale", "conflict", "storage"} \subseteq Whys
  BY DEF Results, Whys
<1>1. CASE Holds(H.rx)
  <2>1. o \in Done(H, IF H.rx.desc = d THEN StateResult(H.rx) ELSE "busy")
    BY <1>1 DEF BeginCopy, Holds, Working
  <2>2. (IF H.rx.desc = d THEN StateResult(H.rx) ELSE "busy") \in Results
    BY <1>r, StateResultOK
  <2>3. H.rx.desc = d => Agrees(d, H.saved)
    BY <1>0, <1>1 DEF HalfOK, Agrees
  <2> QED
    BY <2>1, <2>2, <2>3, DoneKeeps
<1>2. CASE ~Holds(H.rx) /\ H.rx.st = "committed" /\ H.rx.desc = d
  <2>1. o \in Done(H, "already")
    BY <1>2 DEF BeginCopy
  <2>2. Agrees(d, H.saved)
    BY <1>0, <1>2 DEF HalfOK, Agrees, Behind
  <2> QED
    BY <2>1, <2>2, <1>r, DoneKeeps
<1>3. CASE ~Holds(H.rx) /\ ~(H.rx.st = "committed" /\ H.rx.desc = d)
  <2>1. CASE H.saved = d /\ H.vouched
    <3> DEFINE K == [H EXCEPT !.rx = [NoCopy EXCEPT !.st = "committed", !.desc = d, !.full = TRUE]]
    <3>1. o \in Done(K, "already")
      BY <1>3, <2>1 DEF BeginCopy
    <3>2. K \in Stores
      BY DEF NoCopy, Stores, Copies, RxStates, Whys
    <3>3. /\ K.saved = H.saved /\ K.adm = H.adm
          /\ K.rx.st = "committed" /\ K.rx.desc = d /\ K.rx.auto = FALSE
      BY DEF NoCopy, Stores
    <3>4. HalfOK(K, peer)
      BY <2>1, <3>3 DEF HalfOK, Holds, Working, Behind
    <3> HIDE DEF K
    <3>5. o.half = K /\ o.result = "already" /\ o.fault = 0
      BY <3>1, DoneOK
    <3> QED
      BY <2>1, <3>2, <3>3, <3>4, <3>5, <1>r DEF Keeps, Working, Agrees
  <2>2. CASE ~(H.saved = d /\ H.vouched) /\ (H.saved = d \/ d.gen <= H.saved.gen \/ H.adm # "none")
    <3>1. PICK why \in {"busy", "stale", "conflict"} : o \in Done(Rejected(H, why), why)
      BY <1>0, <1>3, <2>2 DEF BeginCopy
    <3> QED
      BY <3>1, <1>r, RejectKeeps
  <2>3. CASE H.saved # d /\ d.gen > H.saved.gen /\ H.adm = "none"
    <3> DEFINE K == [H EXCEPT !.rx = [NoCopy EXCEPT !.st = "receiving", !.desc = d],
                              !.adm = "peer", !.vouched = FALSE]
    <3>1. o \in Done(K, "ok") \/ o \in Fails(Rejected(H, "storage"), "storage")
      BY <1>0, <1>3, <2>3 DEF BeginCopy
    <3>2. CASE o \in Done(K, "ok")
      <4>1. K \in Stores
        BY DEF NoCopy, Stores, Copies, RxStates, Whys
      <4>2. /\ K.saved = H.saved /\ K.adm = "peer"
            /\ K.rx.st = "receiving" /\ K.rx.desc = d /\ K.rx.auto = FALSE
        BY DEF NoCopy, Stores
      <4>3. HalfOK(K, peer)
        BY <2>3, <4>2 DEF HalfOK, Holds, Working
      <4> HIDE DEF K
      <4>4. o.half = K /\ o.result = "ok" /\ o.fault = 0
        BY <3>2, DoneOK
      <4> QED
        BY <1>0, <2>3, <4>1, <4>2, <4>3, <4>4, <1>r DEF Keeps, Working, Agrees
    <3>3. CASE o \in Fails(Rejected(H, "storage"), "storage")
      BY <3>3, <1>r, RejectKeeps
    <3> QED
      BY <3>1, <3>2, <3>3
  <2> QED
    BY <1>0, <2>1, <2>2, <2>3
<1> QED
  BY <1>1, <1>2, <1>3

LEMMA WriteKeeps ==
  ASSUME NEW H \in Stores, NEW peer, HalfOK(H, peer), NEW o \in WriteCopy(H)
  PROVE  /\ Keeps(H, o, peer)
         /\ ~Working(H.rx) => ~Working(o.half.rx)
         /\ o.result \in {"ok", "already"} => Agrees(H.rx.desc, H.saved)
<1>0. H.saved.gen \in Nat /\ H.rx.desc.gen \in Nat
  BY Gens DEF Stores, Copies, Descs
<1>r. {"ok", "busy", "storage"} \subseteq Results
  BY DEF Results
<1>1. CASE H.rx.st # "receiving"
  <2>1. PICK r \in Results : o \in Done(H, r) /\ (r = StateResult(H.rx) \/ r = "busy")
    BY <1>1, <1>r, StateResultOK DEF WriteCopy
  <2> QED
    BY <2>1, DoneKeeps, StateResultOK
<1>2. CASE H.rx.st = "receiving"
  <2> DEFINE K == [H EXCEPT !.rx.full = TRUE]
  <2>0. H.adm = "peer" /\ Agrees(H.rx.desc, H.saved)
    BY <1>0, <1>2 DEF HalfOK, Holds, Agrees
  <2>1. o \in Done(K, "ok") \/ o \in Fails(AbortRejected(H, "storage"), "storage")
    BY <1>2 DEF WriteCopy
  <2>2. CASE o \in Done(K, "ok")
    <3>1. K \in Stores
      BY DEF Stores, Copies
    <3>2. /\ K.saved = H.saved /\ K.adm = H.adm
          /\ K.rx.st = H.rx.st /\ K.rx.desc = H.rx.desc /\ K.rx.auto = H.rx.auto /\ K.rx.why = H.rx.why
      BY DEF Stores, Copies
    <3> HIDE DEF K
    <3>3. HalfOK(K, peer)
      BY <3>2 DEF HalfOK, Holds, Working
    <3>4. o.half = K /\ o.result = "ok" /\ o.fault = 0
      BY <2>2, DoneOK
    <3> QED
      BY <1>r, <2>0, <3>1, <3>2, <3>3, <3>4 DEF Keeps, Working
  <2> QED
    BY <2>0, <2>1, <2>2, FailKeeps
<1> QED
  BY <1>1, <1>2

LEMMA DurableKeeps ==
  ASSUME NEW H \in Stores, NEW peer, HalfOK(H, peer), NEW d \in Descs, NEW o \in PrepareDurable(H, d)
  PROVE  /\ Keeps(H, o, peer)
         /\ ~Working(H.rx) /\ Working(o.half.rx) => o.half.rx.desc = d
         /\ o.result \in {"ok", "already"} => Agrees(d, H.saved)
<1>r. {"progress", "conflict"} \subseteq Results
  BY DEF Results
<1>1. CASE ~(H.rx.desc = d /\ H.rx.st = "receiving" /\ H.rx.full)
  <2>1. PICK r \in Results : /\ o \in Done(H, r)
                             /\ (r = StateResult(H.rx) /\ H.rx.desc = d) \/ r = "conflict"
    BY <1>1, <1>r, StateResultOK DEF PrepareDurable
  <2> QED
    BY <2>1, DoneKeeps, StateResultOK
<1>2. CASE H.rx.desc = d /\ H.rx.st = "receiving" /\ H.rx.full
  <2> DEFINE K == [H EXCEPT !.rx.st = "validating"]
  <2>1. o \in Done(K, "progress")
    BY <1>2 DEF PrepareDurable
  <2>2. K \in Stores
    BY DEF Stores, Copies, RxStates
  <2>3. /\ K.saved = H.saved /\ K.adm = H.adm
        /\ K.rx.st = "validating" /\ K.rx.desc = H.rx.desc /\ K.rx.auto = H.rx.auto
    BY DEF Stores, Copies
  <2> HIDE DEF K
  <2>4. HalfOK(K, peer)
    BY <1>2, <2>3 DEF HalfOK, Holds, Working
  <2>5. o.half = K /\ o.result = "progress" /\ o.fault = 0
    BY <2>1, DoneOK
  <2> QED
    BY <1>2, <1>r, <2>2, <2>3, <2>4, <2>5 DEF Keeps
<1> QED
  BY <1>1, <1>2

LEMMA CommitKeeps ==
  ASSUME NEW H \in Stores, NEW peer, HalfOK(H, peer), NEW d \in Descs, Behind(d, peer),
         NEW o \in CommitCopy(H, d)
  PROVE  /\ Keeps(H, o, peer)
         /\ ~Working(H.rx) /\ Working(o.half.rx) => o.half.rx.desc = d /\ PullCopy(o.half.rx)
         /\ o.result \in {"ok", "already"} => Agrees(d, H.saved)
<1>r. {"progress", "conflict", "range"} \subseteq Results /\ "range" \in Whys \ {"none"}
  BY DEF Results, Whys
<1>1. CASE H.rx.desc # d \/ H.rx.st \notin {"prepared", "receiving"}
  <2>1. PICK r \in Results : /\ o \in Done(H, r)
                             /\ \/ r = StateResult(H.rx) /\ H.rx.desc = d
                                \/ r \notin {"ok", "already"}
    <3>1. H.rx.st \in {"committing", "reconcile"} => StateResult(H.rx) \notin {"ok", "already"}
      BY DEF StateResult, Working
    <3> QED
      BY <1>1, <1>r, <3>1, StateResultOK DEF CommitCopy
  <2> QED
    BY <2>1, DoneKeeps, StateResultOK
<1>2. CASE H.rx.desc = d /\ (H.rx.st = "prepared" \/ (H.rx.st = "receiving" /\ H.rx.full))
  <2>1. PICK st \in {"committing", "validating"}, auto \in BOOLEAN :
           /\ o \in Done([H EXCEPT !.rx.st = st, !.rx.auto = auto], "progress")
           /\ st = "validating" => auto
    <3>1. [H EXCEPT !.rx.st = "committing"] = [H EXCEPT !.rx.st = "committing", !.rx.auto = H.rx.auto]
      BY DEF Stores, Copies
    <3>2. H.rx.auto \in BOOLEAN
      BY DEF Stores, Copies
    <3> QED
      BY <1>2, <3>1, <3>2 DEF CommitCopy
  <2> DEFINE K == [H EXCEPT !.rx.st = st, !.rx.auto = auto]
  <2>2. K \in Stores
    BY DEF Stores, Copies, RxStates
  <2>3. /\ K.saved = H.saved /\ K.adm = H.adm
        /\ K.rx.st = st /\ K.rx.desc = H.rx.desc /\ K.rx.auto = auto
    BY DEF Stores, Copies
  <2>5. o.half = K /\ o.result = "progress" /\ o.fault = 0
    BY <2>1, DoneOK
  <2> HIDE DEF K
  <2>4. HalfOK(K, peer)
    BY <1>2, <2>3 DEF HalfOK, Holds, Working
  <2> QED
    BY <1>2, <1>r, <2>1, <2>2, <2>3, <2>4, <2>5 DEF Keeps, PullCopy
<1>3. CASE H.rx.desc = d /\ H.rx.st = "receiving" /\ ~H.rx.full
  <2>1. o \in Done(AbortRejected(H, "range"), "range") /\ H.adm = "peer"
    BY <1>3 DEF CommitCopy, HalfOK, Holds
  <2> QED
    BY <1>r, <2>1, DoneOK, AbortRejectedOK DEF Keeps, Working
<1> QED
  BY <1>1, <1>2, <1>3

LEMMA AbortKeeps ==
  ASSUME NEW H \in Stores, NEW peer, HalfOK(H, peer), NEW o \in AbortCopy(H), H.adm # "host"
  PROVE  Keeps(H, o, peer) /\ ~Working(o.half.rx) /\ o.result \in {"ok", "storage"}
<1> DEFINE K == [H EXCEPT !.rx = NoCopy, !.adm = "none", !.vouched = FALSE]
<1>r. "ok" \in Results
  BY DEF Results
<1>1. o \in Done(K, "ok") \/ o \in Fails(AbortRejected(H, "storage"), "storage")
  BY DEF AbortCopy
<1>2. CASE o \in Done(K, "ok")
  <2>1. K \in Stores
    BY DEF NoCopy, Stores, Copies, RxStates, Whys, Descs
  <2>2. K.saved = H.saved /\ K.rx = NoCopy
    BY DEF Stores
  <2> HIDE DEF K
  <2>3. HalfOK(K, peer)
    BY <2>2 DEF HalfOK, Holds, Working, NoCopy
  <2>4. o.half = K /\ o.result = "ok" /\ o.fault = 0
    BY <1>2, DoneOK
  <2> QED
    BY <1>r, <2>1, <2>2, <2>3, <2>4 DEF Keeps, Working, NoCopy
<1> QED
  BY <1>1, <1>2, FailKeeps

LEMMA StepKeeps ==
  ASSUME NEW H \in Stores, NEW peer, HalfOK(H, peer), Working(H.rx), NEW o \in StepCopy(H)
  PROVE  /\ o.half \in Stores /\ HalfOK(o.half, peer)
         /\ H.adm = "peer" /\ H.rx.desc.gen > H.saved.gen
         /\ \/ o.half.saved = H.saved
            \/ o.half.saved = H.rx.desc /\ Behind(H.rx.desc, peer) /\ ~Working(o.half.rx)
         /\ Working(o.half.rx) => o.half.rx.desc = H.rx.desc
         /\ PullCopy(H.rx) => PullCopy(o.half.rx) /\ o.half.rx.st # "prepared"
         /\ o.result \in {"ok", "already"} => Agrees(H.rx.desc, o.half.saved)
         /\ o.result \in Results /\ o.fault \in {0, 1}
<1>0. H.saved.gen \in Nat /\ H.rx.desc \in Descs /\ H.rx.desc.gen \in Nat
  BY Gens DEF Stores, Copies, Descs
<1>r. {"ok", "progress", "storage"} \subseteq Results
  BY DEF Results
<1>h. H.adm = "peer" /\ H.rx.desc.gen > H.saved.gen
  BY DEF HalfOK, Holds
<1>f. ASSUME o \in Fails(AbortRejected(H, "storage"), "storage")
      PROVE  /\ Keeps(H, o, peer) /\ o.result = "storage" /\ ~Working(o.half.rx)
             /\ PullCopy(o.half.rx) /\ o.half.rx.st # "prepared"
  <2>1. "storage" \in Whys \ {"none"}
    BY DEF Whys
  <2>2. o.half.rx.st = "rejected"
    BY <1>f, <2>1, FailsOK, AbortRejectedOK
  <2> QED
    BY <1>f, <1>h, <2>2, FailKeeps DEF PullCopy
<1>1. CASE H.rx.st \in {"validating", "preparing"}
  <2>1. \/ \E st \in {"committing", "preparing", "prepared"}, r \in {"progress", "ok"} :
             /\ o \in Done([H EXCEPT !.rx.st = st], r)
             /\ st = "committing" => H.rx.auto
             /\ PullCopy(H.rx) => st = "committing"
        \/ o \in Fails(AbortRejected(H, "storage"), "storage")
    BY <1>1 DEF StepCopy, PullCopy
  <2>2. ASSUME NEW st \in {"committing", "preparing", "prepared"}, NEW r \in {"progress", "ok"},
               o \in Done([H EXCEPT !.rx.st = st], r), st = "committing" => H.rx.auto,
               PullCopy(H.rx) => st = "committing"
        PROVE  /\ Keeps(H, o, peer) /\ o.half.rx.desc = H.rx.desc
               /\ PullCopy(H.rx) => PullCopy(o.half.rx) /\ o.half.rx.st # "prepared"
    <3> DEFINE K == [H EXCEPT !.rx.st = st]
    <3>1. K \in Stores
      BY DEF Stores, Copies, RxStates
    <3>2. /\ K.saved = H.saved /\ K.adm = H.adm
          /\ K.rx.st = st /\ K.rx.desc = H.rx.desc /\ K.rx.auto = H.rx.auto
      BY DEF Stores, Copies
    <3>3. o.half = K /\ o.result = r /\ o.fault = 0
      BY <2>2, DoneOK
    <3> HIDE DEF K
    <3>4. HalfOK(K, peer)
      BY <1>h, <2>2, <3>2 DEF HalfOK, Holds, Working
    <3> QED
      BY <1>r, <2>2, <3>1, <3>2, <3>3, <3>4 DEF Keeps, PullCopy
  <2>3. Agrees(H.rx.desc, H.saved)
    BY <1>0, <1>h DEF Agrees
  <2> QED
    BY <1>h, <1>f, <2>1, <2>2, <2>3 DEF Keeps
<1>2. CASE H.rx.st = "committing"
  <2> DEFINE K == [H EXCEPT !.saved = H.rx.desc, !.vouched = TRUE,
                            !.rx.st = "committed", !.rx.auto = FALSE]
             R == [H EXCEPT !.rx.st = "reconcile", !.rx.auto = FALSE]
  <2>0. Behind(H.rx.desc, peer)
    BY <1>2 DEF HalfOK
  <2>1. \/ o \in Done(K, "ok") \/ o \in Fails(R, "storage")
        \/ o \in Fails(AbortRejected(H, "storage"), "storage")
    BY <1>2 DEF StepCopy
  <2>2. CASE o \in Done(K, "ok")
    <3>1. H.rx.desc \in Records
      BY <1>0, <1>h, Gens
    <3>2. K \in Stores
      BY <3>1 DEF Stores, Copies, RxStates
    <3>3. /\ K.saved = H.rx.desc /\ K.adm = H.adm
          /\ K.rx.st = "committed" /\ K.rx.desc = H.rx.desc /\ K.rx.auto = FALSE
      BY DEF Stores, Copies
    <3>4. o.half = K /\ o.result = "ok" /\ o.fault = 0
      BY <2>2, DoneOK
    <3> HIDE DEF K
    <3>5. HalfOK(K, peer)
      BY <3>3 DEF HalfOK, Holds, Working, Behind
    <3> QED
      BY <1>r, <1>h, <2>0, <3>2, <3>3, <3>4, <3>5 DEF Working, Agrees, PullCopy
  <2>3. CASE o \in Fails(R, "storage")
    <3>2. R \in Stores
      BY DEF Stores, Copies, RxStates
    <3>3. /\ R.saved = H.saved /\ R.adm = H.adm
          /\ R.rx.st = "reconcile" /\ R.rx.desc = H.rx.desc /\ R.rx.auto = FALSE
      BY DEF Stores, Copies
    <3>4. o.half = R /\ o.result = "storage" /\ o.fault = 1
      BY <2>3, FailsOK
    <3> HIDE DEF R
    <3>5. HalfOK(R, peer)
      BY <1>h, <2>0, <3>3 DEF HalfOK, Holds, Working
    <3> QED
      BY <1>r, <1>h, <3>2, <3>3, <3>4, <3>5 DEF Working, PullCopy
  <2> QED
    BY <1>h, <1>f, <2>1, <2>2, <2>3 DEF Keeps
<1> QED
  BY <1>1, <1>2 DEF Working

\* There are two halves: the one with the cable and the other.
LEMMA HalvesOf ==
  /\ \A h \in Halves : /\ Other(h) \in Halves /\ Other(h) # h /\ Other(Other(h)) = h
                       /\ Halves = {h, Other(h)}
  /\ usb \in Halves => /\ m \in Halves /\ s \in Halves /\ s # m /\ Halves = {m, s}
                       /\ Other(m) = s /\ Other(s) = m
BY Bounds DEF m, s, Other

LEMMA Typed ==
  ASSUME TInv
  PROVE  /\ m \in Halves /\ s \in Halves
         /\ \A h \in Halves : /\ store[h] \in Stores /\ Saved(h) \in Records \cup {NoRecord}
                              /\ Saved(h) \in Descs /\ Saved(h).gen \in Nat
         /\ a.cand \in Descs /\ a.cand.gen \in Nat
         /\ p.desc \in Descs /\ p.desc.gen \in Nat
<1>1. m \in Halves /\ s \in Halves
  BY HalvesOf DEF TInv
<1>2. \A h \in Halves : store[h] \in Stores
  BY DEF TInv
<1>3. \A h \in Halves : Saved(h) \in Records \cup {NoRecord}
  BY <1>2 DEF Stores, Saved
<1>4. a.cand \in Descs /\ p.desc \in Descs
  BY DEF TInv, Applies, Pushes, Descs
<1> QED
  BY <1>1, <1>2, <1>3, <1>4, Gens DEF Descs

\* What the saved records alone decide stays as it was when they do.
LEMMA Frame ==
  ASSUME TInv, UNCHANGED usb, \A h \in Halves : Saved(h)' = Saved(h)
  PROVE  /\ PairOK => PairOK'
         /\ SeenOK /\ UNCHANGED other => SeenOK'
         /\ ActiveOK /\ UNCHANGED active => ActiveOK'
         /\ \A d : Accepted(d)' = Accepted(d)
         /\ \A r : ReplyOK(r)' = ReplyOK(r)
         /\ \A q : RequestOK(q)' = RequestOK(q)
         /\ LinkOK(link) /\ UNCHANGED link => LinkOK(link)'
         /\ Saved(m)' = Saved(m) /\ Saved(s)' = Saved(s)
<1>1. m \in Halves /\ s \in Halves /\ m' = m /\ s' = s
  BY Typed DEF m, s
<1>2. Saved(m)' = Saved(m) /\ Saved(s)' = Saved(s)
  BY <1>1
<1>3. \A h \in Halves : Other(h) \in Halves
  BY HalvesOf
<1>4. PairOK => PairOK'
  BY <1>3 DEF PairOK
<1>5. SeenOK /\ UNCHANGED other => SeenOK'
  BY <1>3 DEF SeenOK
<1>6. ActiveOK /\ UNCHANGED active => ActiveOK'
  BY <1>3 DEF ActiveOK
<1>7. \A d : Accepted(d)' = Accepted(d)
  BY <1>1, <1>2 DEF Accepted
<1>8. \A r : ReplyOK(r)' = ReplyOK(r)
  BY <1>2, <1>7 DEF ReplyOK
<1>9. \A q : RequestOK(q)' = RequestOK(q)
  BY <1>2 DEF RequestOK
<1>10. LinkOK(link) /\ UNCHANGED link => LinkOK(link)'
  BY <1>8, <1>9 DEF LinkOK
<1> QED
  BY <1>2, <1>4, <1>5, <1>6, <1>7, <1>8, <1>9, <1>10

\* The frames have their types.
LEMMA ReplyTypes ==
  /\ \A q \in Requests : q.desc \in Descs
  /\ \A r \in Replies : r.desc \in Descs /\ r.why \in Whys
  /\ \A d \in Descs, full \in BOOLEAN :
        Ack(d, full) \in Replies /\ Busy(d, full) \in Replies
  /\ \A d \in Descs, why \in Whys : Error(d, why) \in Replies
  /\ \A d \in Descs : /\ Reply("meta", d, FALSE, "none") \in Replies
                      /\ Reply("chunk", d, FALSE, "none") \in Replies
  /\ NoReply \in Replies /\ Lost \in Replies /\ NoRequest \in Requests
BY DEF Requests, Replies, Ack, Busy, Error, Reply, NoReply, Lost, NoRequest, Whys, Descs

LEMMA RequestType ==
  ASSUME TInv, NEW d \in Descs,
         NEW kind \in {"metadata", "begin", "chunk", "durable", "commit", "abort", "request"}
  PROVE  Request(kind, d) \in Requests /\ Request(kind, d).kind = kind /\ Request(kind, d).desc = d
BY DEF Request, Requests, TInv, Pushes

\* Whatever an exchange hands out is true of the slave.
LEMMA AnswersOK ==
  ASSUME IInv, NEW q \in Requests, RequestOK(q), NEW ans \in Answers(q)
  PROVE  /\ ans.reply \in Replies /\ ReplyOK(ans.reply)
         /\ ans.link \in Links /\ LinkOK(ans.link) /\ ans.link.cached = link.cached
         /\ ans.stale \in {0, 1}
<1> DEFINE c == CallbackReply(q)
           n == Received(q)
<1>1. /\ link \in Links /\ link.box \in Requests /\ link.cached.reply \in Replies /\ link.wire \in Replies
  BY DEF IInv, TInv, Links
<1>2. NoReply \in Replies /\ ReplyOK(NoReply) /\ Lost \in Replies /\ ReplyOK(Lost)
  BY ReplyTypes DEF ReplyOK, NoReply, Lost, Reply
<1>3. c \in Replies /\ ReplyOK(c)
  <2>1. /\ store[s].saved \in Descs /\ store[s].saved \in Records \cup {NoRecord}
        /\ Saved(s) = store[s].saved
    BY Typed DEF IInv, Saved
  <2>2. ReplyOK(Reply("meta", store[s].saved, FALSE, "none"))
    BY <2>1 DEF ReplyOK, Reply, Behind
  <2>3. ReplyOK(link.cached.reply)
    BY DEF IInv, LinkOK
  <2>4. Busy(q.desc, FALSE) \in Replies /\ ReplyOK(Busy(q.desc, FALSE))
    BY ReplyTypes DEF ReplyOK, Busy, Reply
  <2>5. c \in {Reply("meta", store[s].saved, FALSE, "none"), link.cached.reply, Busy(q.desc, FALSE)}
    BY DEF CallbackReply
  <2> QED
    BY <1>1, <2>1, <2>2, <2>3, <2>4, <2>5, ReplyTypes
<1>4. n \in Links /\ n.cached = link.cached /\ LinkOK(n)
  <2>1. /\ n.box \in {link.box, q} /\ n.wire \in {c, NoReply} /\ n.cached = link.cached
    BY <1>1 DEF Received, Links
  <2>2. n \in Links
    BY <1>1, <1>2, <1>3 DEF Received, Links
  <2> QED
    BY <1>2, <1>3, <2>1, <2>2 DEF IInv, LinkOK
<1>5. ASSUME ans \in {[reply |-> l.wire, link |-> [l EXCEPT !.wire = IF spent.stales + 1 < MaxStales
                                                       THEN @ ELSE NoReply],
                       stale |-> 1] : l \in {k \in {link} : k.wire # NoReply}}
      PROVE  /\ ans.reply = link.wire /\ ans.stale = 1
             /\ ans.link \in Links /\ LinkOK(ans.link) /\ ans.link.cached = link.cached
  <2>1. PICK w \in {link.wire, NoReply} :
           ans = [reply |-> link.wire, link |-> [link EXCEPT !.wire = w], stale |-> 1]
    BY <1>5
  <2>2. [link EXCEPT !.wire = w] \in Links
    BY <1>1, <1>2 DEF Links
  <2>3. LET l == [link EXCEPT !.wire = w]
        IN  l.box = link.box /\ l.cached = link.cached /\ l.wire \in {link.wire, NoReply}
    BY <1>1 DEF Links
  <2>4. LinkOK([link EXCEPT !.wire = w])
    BY <1>2, <2>3 DEF LinkOK, IInv
  <2> QED
    BY <2>1, <2>2, <2>3, <2>4
<1>6. ReplyOK(link.wire) /\ LinkOK(link)
  BY DEF IInv, LinkOK
<1>7. \/ ans = [reply |-> Lost, link |-> link, stale |-> 0]
      \/ ans = [reply |-> Lost, link |-> n, stale |-> 0]
      \/ ans = [reply |-> c, link |-> n, stale |-> 0]
      \/ ans \in {[reply |-> l.wire, link |-> [l EXCEPT !.wire = IF spent.stales + 1 < MaxStales
                                                       THEN @ ELSE NoReply],
                       stale |-> 1] : l \in {k \in {link} : k.wire # NoReply}}
  BY DEF Answers
<1> HIDE DEF c, n
<1> QED
  BY <1>1, <1>2, <1>3, <1>4, <1>5, <1>6, <1>7

GoodOutcome(o) ==
  /\ o.p \in Pushes /\ PushOK(o.p)
  /\ o.seen \in Descs /\ (o.seen # Unreadable => Behind(o.seen, Saved(s)))

\* Forgetting what nothing reads any more keeps what is known of the push.
LEMMA CleanOK ==
  ASSUME NEW q \in Pushes, PushOK(q)
  PROVE  Clean(q) \in Pushes /\ PushOK(Clean(q))
<1> DEFINE k == Clean(q)
<1>1. k \in Pushes
  BY DEF Clean, Pushes, Descs
<1>2. /\ k.st = q.st /\ k.on = q.on /\ k.authz = q.authz
      /\ k.desc = q.desc \/ (~q.on /\ q.st \in Idle \cup {"verify"})
  BY DEF Clean, Pushes
<1> HIDE DEF k
<1>3. PushOK(k)
  BY <1>2 DEF PushOK, PushStates, PullStates, Idle
<1> QED
  BY <1>1, <1>3 DEF k

\* A move of the push that keeps its copy keeps what is known of it.
Moved(q) ==
  /\ q \in Pushes /\ q.desc = p.desc /\ q.on = p.on /\ q.authz = p.authz
  /\ q.st \in PushStates => p.st \in PushStates \/ p.authz \/ (p.on /\ ~p.authz)
  /\ q.st = "push_commit" => ~p.on \/ p.authz
  /\ q.st = "push_prepared" => Accepted(p.desc)
  /\ q.st \in PullStates => Behind(p.desc, Saved(s)) /\ ~p.on

LEMMA MovedOK ==
  ASSUME IInv, p.st # "push_prepared", NEW q, Moved(q)
  PROVE  q \in Pushes /\ PushOK(q)
BY DEF Moved, IInv, PushOK

\* The outcomes of an exchange: the push goes on, is lost, meets an error.
LEMMA KeepOK ==
  ASSUME IInv, NEW q \in Pushes, PushOK(q), NEW o \in Keep(q)
  PROVE  GoodOutcome(o)
<1>1. o = [p |-> Clean(q), seen |-> other[m]]
  BY DEF Keep, Outcome
<1>2. other[m] \in Descs /\ (other[m] # Unreadable => Behind(other[m], Saved(s)))
  BY Typed, HalvesOf DEF IInv, TInv, SeenOK
<1> QED
  BY <1>1, <1>2, CleanOK DEF GoodOutcome

\* To, Again and Stopped only change the state, the reason and the retry.
LEMMA MovesOK ==
  ASSUME TInv
  PROVE  /\ \A st \in Idle \cup {"verify"} \cup PushStates \cup PullStates :
              \A q \in {To(st), Again(st)} :
                 /\ q \in Pushes /\ q.desc = p.desc /\ q.on = p.on /\ q.authz = p.authz
                 /\ q.st = st
         /\ \A why \in Results \cup {"none"} :
                              /\ Stopped(why) \in Pushes /\ Stopped(why).desc = p.desc
                              /\ Stopped(why).on = p.on /\ Stopped(why).authz = p.authz
                              /\ Stopped(why).st = "stopped"
BY DEF TInv, Pushes, To, Again, Stopped, Idle, Results

LEMMA IdleMoves ==
  ASSUME IInv, p.st # "push_prepared"
  PROVE  /\ \A st \in Idle \cup {"verify"} : PushOK(To(st)) /\ PushOK(Again(st))
         /\ \A why \in Results \cup {"none"} : PushOK(Stopped(why))
         /\ Again(p.st) \in Pushes /\ PushOK(Again(p.st))
<1>1. \A st \in Idle \cup {"verify"} : Moved(To(st)) /\ Moved(Again(st))
  BY MovesOK DEF IInv, Moved, Idle, PushStates, PullStates
<1>2. \A why \in Results \cup {"none"} : Moved(Stopped(why))
  BY MovesOK DEF IInv, Moved, Idle, PushStates, PullStates
<1>3. Moved(Again(p.st))
  BY MovesOK DEF IInv, TInv, Pushes, Moved, PushOK
<1> QED
  BY <1>1, <1>2, <1>3, MovedOK

LEMMA LostOK ==
  ASSUME IInv, p.st # "push_prepared", NEW o \in LostTo(p.st) \cup LostExchange
  PROVE  GoodOutcome(o)
<1>1. PICK q \in {Again(p.st), Again("discover")} : o = [p |-> Clean(q), seen |-> Unreadable]
  BY DEF LostTo, LostExchange, Outcome
<1>2. q \in Pushes /\ PushOK(q)
  BY MovesOK, IdleMoves DEF IInv, Idle
<1>3. Unreadable \in Descs
  BY DEF Descs
<1> QED
  BY <1>1, <1>2, <1>3, CleanOK DEF GoodOutcome

LEMMA ErrorOK ==
  ASSUME IInv, p.st # "push_prepared", NEW r \in Replies, NEW o \in HandleError(r)
  PROVE  GoodOutcome(o)
<1>1. CASE r.kind # "error"
  BY <1>1, LostOK DEF HandleError
<1>2. CASE r.kind = "error"
  <2>1. r.why \in Results \cup {"none"} /\ "storage" \in Results
    BY ReplyTypes DEF Whys, Results
  <2>2. PICK q : /\ o \in Keep(q)
                 /\ \/ q = Again("push_begin") /\ p.on /\ ~p.authz
                    \/ q = Again("discover") \/ q = Stopped(r.why) \/ q = Stopped("storage")
    BY <1>2 DEF HandleError
  <2>3. CASE q = Again("push_begin") /\ p.on /\ ~p.authz
    <3>1. /\ q \in Pushes /\ q.desc = p.desc /\ q.on = p.on /\ q.authz = p.authz
          /\ q.st = "push_begin"
      BY <2>3, MovesOK DEF IInv, PushStates
    <3>2. Moved(q)
      BY <2>3, <3>1 DEF Moved, PullStates
    <3> QED
      BY <2>2, <3>2, MovedOK, KeepOK
  <2>4. CASE q = Again("discover") \/ q = Stopped(r.why) \/ q = Stopped("storage")
    <3>1. q \in Pushes /\ PushOK(q)
      BY <2>1, <2>4, MovesOK, IdleMoves DEF IInv, Idle
    <3> QED
      BY <2>2, <3>1, KeepOK
  <2> QED
    BY <2>2, <2>3, <2>4
<1> QED
  BY <1>1, <1>2

LEMMA FrameLink ==
  ASSUME TInv, UNCHANGED usb, \A h \in Halves : Saved(h)' = Saved(h)
  PROVE  /\ \A l : LinkOK(l) /\ link' = l => LinkOK(link)'
         /\ \A q : PushOK(q) /\ p' = q /\ UNCHANGED a => PushOK(p)'
<1>1. ASSUME NEW l, LinkOK(l), link' = l PROVE LinkOK(link)'
  BY <1>1, Frame DEF LinkOK
<1>2. ASSUME NEW q, PushOK(q), p' = q, UNCHANGED a PROVE PushOK(p)'
  BY <1>2, Frame DEF PushOK
<1> QED
  BY <1>1, <1>2

\* Steps that leave the storage, the owners and the Apply alone.
LEMMA FrameHalves ==
  ASSUME IInv, UNCHANGED <<usb, store, own, a>>
  PROVE  /\ \A h \in Halves : Saved(h)' = Saved(h)
         /\ CopiesOK' /\ ReadyOK' /\ ApplyOK' /\ PairOK'
         /\ link'.cached = link.cached => WorkOK'
         /\ UNCHANGED owner => MasterOK'
<1>1. \A h \in Halves : Saved(h)' = Saved(h) /\ store'[h] = store[h]
  BY DEF Saved
<1>2. \A h \in Halves : Other(h) \in Halves
  BY HalvesOf
<1>3. m' = m /\ s' = s /\ m \in Halves /\ s \in Halves
  BY Typed DEF m, s, IInv
<1>4. CopiesOK'
  BY <1>1, <1>2 DEF CopiesOK, IInv
<1>5. ReadyOK'
  BY <1>1, <1>2, <1>3 DEF ReadyOK, IInv
<1>6. ApplyOK'
  BY <1>1, <1>3 DEF ApplyOK, IInv
<1>7. link'.cached = link.cached => WorkOK'
  BY <1>1, <1>3 DEF WorkOK, IInv
<1>8. PairOK'
  BY <1>1, Frame DEF IInv
<1>9. UNCHANGED owner => MasterOK'
  BY <1>1, <1>3 DEF MasterOK, IInv
<1> QED
  BY <1>1, <1>4, <1>5, <1>6, <1>7, <1>8, <1>9

Sent(ans, o) ==
  /\ Spend("stales", ans.stale, MaxStales)
  /\ link' = ans.link /\ p' = o.p /\ other' = [other EXCEPT ![m] = o.seen]
  /\ UNCHANGED <<usb, store, active, own, owner, a>>

\* The bounds are spent, never earned back.
LEMMA SpendType ==
  ASSUME TInv, NEW what \in {"restarts", "faults", "stales"}, NEW n \in {0, 1}, NEW max,
         Spend(what, n, max)
  PROVE  spent' \in [{"restarts", "faults", "stales"} -> Nat]
BY DEF Spend, TInv

\* An exchange with a good outcome saves nothing.
LEMMA SentInv ==
  ASSUME IInv, NEW q \in Requests, RequestOK(q), NEW ans \in Answers(q),
         NEW o, GoodOutcome(o), Sent(ans, o)
  PROVE  Stays
<1>1. \A h \in Halves : Saved(h)' = Saved(h)
  BY FrameHalves DEF Sent
<1>2. TInv'
  <2>1. spent' \in [{"restarts", "faults", "stales"} -> Nat]
    BY AnswersOK, SpendType DEF Sent, IInv
  <2>2. link' \in Links /\ p' \in Pushes /\ other' \in [Halves -> Descs]
    BY AnswersOK DEF Sent, GoodOutcome, IInv, TInv
  <2> QED
    BY <2>1, <2>2 DEF Sent, IInv, TInv
<1>3. LinkOK(link)' /\ PushOK(p)'
  BY <1>1, AnswersOK, FrameLink DEF Sent, GoodOutcome, IInv
<1>4. SeenOK'
  <2>1. ASSUME NEW h \in Halves, other'[h] # Unreadable
        PROVE  Behind(other'[h], Saved(Other(h)))
    BY <2>1, HalvesOf, Typed DEF Sent, GoodOutcome, IInv, TInv, SeenOK
  <2> QED
    BY <1>1, <2>1, HalvesOf DEF SeenOK
<1>5. ActiveOK' /\ WorkOK' /\ CopiesOK' /\ MasterOK' /\ ReadyOK' /\ ApplyOK' /\ PairOK'
  BY <1>1, Frame, FrameHalves, AnswersOK DEF Sent, IInv
<1> QED
  BY <1>1, <1>2, <1>3, <1>4, <1>5 DEF IInv, Stays

--------------------------------------------------------------------------------
\* The master's calls.

LEMMA Readables == \A d \in Records \cup {NoRecord} : d # Unreadable
<1>1. NoRecord # Unreadable
  <2>1. "unreadable" \in DOMAIN Unreadable /\ "unreadable" \notin DOMAIN NoRecord
    BY DEF Unreadable, NoRecord
  <2> QED
    BY <2>1
<1>2. \A d \in Records : d.gen # 0
  BY Bounds DEF Records
<1>3. Unreadable.gen = 0
  BY DEF Unreadable
<1> QED
  BY <1>1, <1>2, <1>3

\* What begin_authority_action makes of two readable records.
LEMMA CompareIs ==
  ASSUME NEW mine \in Records \cup {NoRecord}, NEW seen \in Records \cup {NoRecord}
  PROVE  LET cmp == Compare(mine, seen)
         IN  \/ cmp = "converged" /\ seen = mine
             \/ cmp = "mine" /\ mine.gen > seen.gen
             \/ cmp = "theirs" /\ mine.gen < seen.gen
             \/ cmp = "clash" /\ mine.gen = seen.gen /\ mine # seen
<1>1. seen # Unreadable /\ mine.gen \in Nat /\ seen.gen \in Nat
  BY Readables, Gens DEF Descs
<1> QED
  BY <1>1 DEF Compare

\* begin_authority_action, from what the slave answered.
LEMMA ActOK ==
  ASSUME IInv, p.st \in {"discover", "verify", "converged"},
         NEW seen \in Records \cup {NoRecord}, Behind(seen, Saved(s))
  PROVE  Act(seen) \in Pushes /\ PushOK(Act(seen))
<1> DEFINE cmp == Compare(store[m].saved, seen)
           q == Act(seen)
<1>1. /\ TInv /\ p \in Pushes /\ p.st # "push_prepared" /\ PushOK(p)
      /\ store[m].saved = Saved(m) /\ Saved(m) \in Records \cup {NoRecord} /\ Saved(m) \in Descs
      /\ seen \in Descs
  BY Typed DEF IInv, TInv, Saved, Descs
<1>2. /\ PushOK(To("converged")) /\ PushOK(Again("discover"))
      /\ PushOK(To("discover")) /\ PushOK(Stopped("conflict"))
      /\ To("converged") \in Pushes /\ Again("discover") \in Pushes /\ Stopped("conflict") \in Pushes
  BY <1>1, IdleMoves, MovesOK DEF Idle, Results
<1>3. CASE cmp = "converged" /\ p.on /\ seen # p.desc
  <2>1. q = To("push_begin")
    BY <1>3 DEF Act
  <2>2. Moved(To("push_begin"))
    BY <1>1, <1>3, MovesOK DEF Moved, PushStates, PullStates
  <2> QED
    BY <1>1, <2>1, <2>2, MovedOK
<1>4. CASE cmp = "converged" /\ p.on /\ seen = p.desc
  <2>1. q = Cleared(To("converged"))
    BY <1>4 DEF Act
  <2>2. \A k \in Pushes : /\ Cleared(k) \in Pushes /\ Cleared(k).st = k.st
                           /\ Cleared(k).on = FALSE /\ Cleared(k).authz = FALSE
    BY DEF Cleared, Pushes
  <2>3. q \in Pushes /\ q.st = "converged" /\ q.on = FALSE /\ q.authz = FALSE
    BY <1>1, <1>2, <2>1, <2>2, MovesOK DEF Idle
  <2>4. a.st \notin {"committing", "decided"}
    BY <1>1 DEF PushOK
  <2> QED
    BY <2>3, <2>4 DEF PushOK, PushStates, PullStates
<1>5. CASE cmp = "converged" /\ ~p.on
  BY <1>2, <1>5 DEF Act
<1>6. CASE cmp = "mine"
  <2>1. CASE p.orphan
    BY <1>2, <1>6, <2>1 DEF Act
  <2>2. CASE ~p.orphan
    <3>1. q = [To("push_begin") EXCEPT !.desc = Saved(m)]
      BY <1>1, <1>6, <2>2 DEF Act
    <3>2. q \in Pushes /\ q.st = "push_begin" /\ q.on = p.on /\ q.authz = p.authz /\ q.desc = Saved(m)
      BY <1>1, <3>1 DEF To, Pushes, PushStates
    <3> QED
      BY <1>1, <3>2 DEF PushOK, PushStates, PullStates, Behind
  <2> QED
    BY <2>1, <2>2
<1>7. CASE cmp = "theirs"
  <2>1. CASE p.orphan \/ ConvergeOnly(m)
    BY <1>2, <1>7, <2>1 DEF Act
  <2>2. CASE ~p.orphan /\ ~ConvergeOnly(m)
    <3>1. q = [To("pull_begin") EXCEPT !.desc = seen]
      BY <1>7, <2>2 DEF Act
    <3>2. q \in Pushes /\ q.st = "pull_begin" /\ q.on = p.on /\ q.authz = p.authz /\ q.desc = seen
      BY <1>1, <3>1 DEF To, Pushes, PullStates
    <3>3. a.st = "idle" /\ ~p.on /\ ~p.authz
      BY <1>1, <2>2 DEF ConvergeOnly, IInv, ApplyOK, PushOK
    <3> QED
      BY <3>2, <3>3 DEF PushOK, PushStates, PullStates
  <2> QED
    BY <2>1, <2>2
<1>8. CASE cmp = "clash"
  <2>1. q = [Stopped("conflict") EXCEPT !.retried = FALSE]
    BY <1>8 DEF Act
  <2>2. q \in Pushes /\ q.st = "stopped" /\ q.on = p.on /\ q.authz = p.authz /\ q.desc = p.desc
    BY <1>1, <2>1 DEF Stopped, Pushes, Idle, Results
  <2> QED
    BY <1>1, <2>2 DEF PushOK, PushStates, PullStates
<1> QED
  BY <1>1, <1>3, <1>4, <1>5, <1>6, <1>7, <1>8, CompareIs

LEMMA MetadataInv == ASSUME IInv, Metadata PROVE Stays
<1> DEFINE q == Request("metadata", store[m].saved)
           seeks == {"discover", "verify", "converged"}
<1>1. PICK ans, o :
         /\ ans \in Answers(q) /\ Sent(ans, o)
         /\ o \in IF ans.reply.kind = "lost" THEN LostExchange
                  ELSE IF ans.reply.kind = "busy"
                       THEN Keep(Again(IF p.st = "converged" THEN "discover" ELSE p.st))
                  ELSE IF ans.reply.kind = "meta"
                       THEN {Outcome(Act(ans.reply.desc), ans.reply.desc)}
                  ELSE HandleError(ans.reply)
  BY DEF Metadata, Send, Sent
<1>2. p.st \in seeks /\ p.st # "push_prepared" /\ TInv
  BY DEF Metadata, IInv
<1>3. q \in Requests /\ RequestOK(q)
  BY <1>2, Typed, RequestType DEF RequestOK, Behind, Saved
<1>4. ans.reply \in Replies /\ ReplyOK(ans.reply)
  BY <1>1, <1>3, AnswersOK
<1>5. ASSUME o \in LostExchange \cup HandleError(ans.reply) PROVE GoodOutcome(o)
  BY <1>2, <1>4, <1>5, LostOK, ErrorOK
<1>6. ASSUME o \in Keep(Again(IF p.st = "converged" THEN "discover" ELSE p.st)) PROVE GoodOutcome(o)
  <2>1. \A st \in seeks : Again(st) \in Pushes /\ PushOK(Again(st))
    BY <1>2, IdleMoves, MovesOK DEF Idle
  <2> QED
    BY <1>2, <1>6, <2>1, KeepOK
<1>7. ASSUME ans.reply.kind = "meta", o = Outcome(Act(ans.reply.desc), ans.reply.desc)
      PROVE  GoodOutcome(o)
  <2>1. ans.reply.desc \in Records \cup {NoRecord} /\ Behind(ans.reply.desc, Saved(s))
    BY <1>4, <1>7 DEF ReplyOK
  <2>2. Act(ans.reply.desc) \in Pushes /\ PushOK(Act(ans.reply.desc))
    BY <1>2, <2>1, ActOK
  <2>3. o.p = Clean(Act(ans.reply.desc)) /\ o.seen = ans.reply.desc
    BY <1>7 DEF Outcome
  <2> QED
    BY <2>1, <2>2, <2>3, CleanOK DEF GoodOutcome, Descs
<1>8. GoodOutcome(o)
  BY <1>1, <1>5, <1>6, <1>7
<1> QED
  BY <1>1, <1>3, <1>8, SentInv

\* A push moves among its own states.
LEMMA PushMoves ==
  ASSUME IInv, p.st \in PushStates \ {"push_prepared"}, NEW st \in PushStates,
         st = "push_commit" => ~p.on \/ p.authz, st = "push_prepared" => Accepted(p.desc)
  PROVE  /\ To(st) \in Pushes /\ PushOK(To(st)) /\ Again(st) \in Pushes /\ PushOK(Again(st))
<1>1. /\ Moved(To(st)) /\ Moved(Again(st))
  BY MovesOK DEF IInv, Moved, PushStates, PullStates
<1> QED
  BY <1>1, MovedOK DEF PushStates

LEMMA CompleteOK ==
  ASSUME IInv, p.st \in PushStates \ {"push_prepared"}
  PROVE  Complete \in Pushes /\ PushOK(Complete)
<1>1. PICK st \in PushStates : /\ Complete = To(st) /\ st # "push_prepared"
                               /\ st = "push_commit" => ~p.on
  BY DEF Complete, PushStates
<1> QED
  BY <1>1, PushMoves

LEMMA PushBeginInv == ASSUME IInv, PushBegin PROVE Stays
<1> DEFINE q == Request("begin", p.desc)
           Ends(r) == IF r.kind = "lost" THEN LostTo("push_begin")
                      ELSE IF r.kind = "busy" THEN Keep(Again("push_begin"))
                      ELSE IF Matches(r) THEN Keep(IF r.full THEN Complete ELSE To("push_send"))
                      ELSE HandleError(r)
           Begun(k) == [k EXCEPT !.started = p.on]
<1>0. p.st = "push_begin" /\ p.st # "push_prepared" /\ p.st \in PushStates \ {"push_prepared"} /\ TInv
  BY DEF PushBegin, PushStates, IInv
<1>1. PICK ans, o :
         /\ ans \in Answers(q) /\ Sent(ans, o)
         /\ o \in {[k EXCEPT !.p = Begun(k.p)] : k \in Ends(ans.reply)}
  BY DEF PushBegin, Send, Sent
<1>2. PICK e \in Ends(ans.reply) : o = [e EXCEPT !.p = Begun(e.p)]
  BY <1>1
<1>3. q \in Requests /\ RequestOK(q)
  BY <1>0, Typed, RequestType DEF RequestOK
<1>4. ans.reply \in Replies
  BY <1>1, <1>3, AnswersOK
<1>5. \/ e \in LostTo("push_begin") \cup HandleError(ans.reply)
      \/ \E k \in {Again("push_begin"), Complete, To("push_send")} : e \in Keep(k)
  BY <1>2
<1>6. GoodOutcome(e)
  <2>1. ASSUME e \in LostTo("push_begin") \cup HandleError(ans.reply) PROVE GoodOutcome(e)
    BY <1>0, <1>4, <2>1, LostOK, ErrorOK
  <2>2. \A k \in {Again("push_begin"), Complete, To("push_send")} : k \in Pushes /\ PushOK(k)
    BY <1>0, PushMoves, CompleteOK DEF PushStates
  <2> QED
    BY <1>5, <2>1, <2>2, KeepOK
<1>7. e = [p |-> e.p, seen |-> e.seen]
  BY <1>5 DEF LostTo, LostExchange, HandleError, Keep, Outcome
<1>8. \A k \in Pushes : /\ Begun(k) \in Pushes /\ Begun(k).st = k.st /\ Begun(k).on = k.on
                        /\ Begun(k).authz = k.authz /\ Begun(k).desc = k.desc
  BY <1>0 DEF TInv, Pushes
<1>9. o.p = Begun(e.p) /\ o.seen = e.seen
  BY <1>2, <1>7
<1>10. GoodOutcome(o)
  <2> HIDE DEF Begun
  <2>1. Begun(e.p) \in Pushes /\ PushOK(Begun(e.p))
    BY <1>6, <1>8 DEF GoodOutcome, PushOK
  <2> QED
    BY <1>6, <1>9, <2>1 DEF GoodOutcome
<1> QED
  BY <1>1, <1>3, <1>10, SentInv

LEMMA PushSendInv == ASSUME IInv, PushSend PROVE Stays
<1> DEFINE q == Request("chunk", p.desc)
<1>0. p.st = "push_send" /\ p.st # "push_prepared" /\ p.st \in PushStates \ {"push_prepared"} /\ TInv
  BY DEF PushSend, PushStates, IInv
<1>1. PICK ans, o :
         /\ ans \in Answers(q) /\ Sent(ans, o)
         /\ o \in LostTo("push_send") \cup HandleError(ans.reply)
                 \cup Keep(Again("push_send")) \cup Keep(Again("push_begin")) \cup Keep(Complete)
  BY DEF PushSend, Send, Sent
<1>2. q \in Requests /\ RequestOK(q)
  BY <1>0, Typed, RequestType DEF RequestOK
<1>3. ans.reply \in Replies
  BY <1>1, <1>2, AnswersOK
<1>4. ASSUME o \in LostTo("push_send") \cup HandleError(ans.reply) PROVE GoodOutcome(o)
  BY <1>0, <1>3, <1>4, LostOK, ErrorOK
<1>5. PushOK(Again("push_begin")) /\ PushOK(Again("push_send")) /\ PushOK(Complete)
      /\ Again("push_begin") \in Pushes /\ Again("push_send") \in Pushes /\ Complete \in Pushes
  BY <1>0, PushMoves, CompleteOK DEF PushStates
<1>6. GoodOutcome(o)
  BY <1>1, <1>4, <1>5, KeepOK
<1> QED
  BY <1>1, <1>2, <1>6, SentInv

LEMMA PushDurableInv == ASSUME IInv, PushDurable PROVE Stays
<1> DEFINE q == Request("durable", p.desc)
           st == IF p.authz THEN "push_commit" ELSE "push_prepared"
<1>0. p.st = "push_durable" /\ p.st # "push_prepared" /\ p.st \in PushStates \ {"push_prepared"} /\ TInv
  BY DEF PushDurable, PushStates, IInv
<1>1. PICK ans, o :
         /\ ans \in Answers(q) /\ Sent(ans, o)
         /\ \/ o \in LostTo("push_durable") \cup HandleError(ans.reply) \cup Keep(Again("push_durable"))
            \/ Matches(ans.reply) /\ ans.reply.full /\ o \in Keep(To(st))
  BY DEF PushDurable, Send, Sent
<1>2. q \in Requests /\ RequestOK(q)
  BY <1>0, Typed, RequestType DEF RequestOK
<1>3. ans.reply \in Replies /\ ReplyOK(ans.reply)
  BY <1>1, <1>2, AnswersOK
<1>4. ASSUME o \in LostTo("push_durable") \cup HandleError(ans.reply) PROVE GoodOutcome(o)
  BY <1>0, <1>3, <1>4, LostOK, ErrorOK
<1>5. PushOK(Again("push_durable")) /\ Again("push_durable") \in Pushes
  BY <1>0, PushMoves DEF PushStates
<1>6. ASSUME Matches(ans.reply), ans.reply.full PROVE To(st) \in Pushes /\ PushOK(To(st))
  <2>1. Accepted(p.desc)
    BY <1>3, <1>6 DEF Matches, ReplyOK
  <2> QED
    BY <1>0, <2>1, PushMoves DEF PushStates
<1>7. GoodOutcome(o)
  BY <1>1, <1>4, <1>5, <1>6, KeepOK
<1> QED
  BY <1>1, <1>2, <1>7, SentInv

LEMMA PushCommitInv == ASSUME IInv, PushCommit PROVE Stays
<1> DEFINE q == Request("commit", p.desc)
<1>0. p.st = "push_commit" /\ p.st # "push_prepared" /\ p.st \in PushStates \ {"push_prepared"} /\ TInv
  BY DEF PushCommit, PushStates, IInv
<1>1. PICK ans, o :
         /\ ans \in Answers(q) /\ Sent(ans, o)
         /\ o \in LostTo("push_commit") \cup HandleError(ans.reply)
                 \cup Keep(Again("push_commit")) \cup Keep(To("push_begin")) \cup Keep(To("verify"))
  BY DEF PushCommit, Send, Sent
<1>2. q \in Requests /\ RequestOK(q)
  <2>1. Behind(p.desc, Saved(m)) /\ (~p.on \/ p.authz)
    BY <1>0 DEF IInv, PushOK, PushStates
  <2> QED
    BY <1>0, <2>1, Typed, RequestType DEF RequestOK
<1>3. ans.reply \in Replies
  BY <1>1, <1>2, AnswersOK
<1>4. ASSUME o \in LostTo("push_commit") \cup HandleError(ans.reply) PROVE GoodOutcome(o)
  BY <1>0, <1>3, <1>4, LostOK, ErrorOK
<1>5. ~p.on \/ p.authz
  BY <1>0 DEF IInv, PushOK
<1>6. PushOK(Again("push_commit")) /\ PushOK(To("push_begin"))
      /\ Again("push_commit") \in Pushes /\ To("push_begin") \in Pushes
  BY <1>0, <1>5, PushMoves DEF PushStates
<1>7. PushOK(To("verify")) /\ To("verify") \in Pushes
  BY <1>0, IdleMoves, MovesOK
<1>8. GoodOutcome(o)
  BY <1>1, <1>4, <1>6, <1>7, KeepOK
<1> QED
  BY <1>1, <1>2, <1>8, SentInv

\* A push whose Apply is given up serves it no more.
LEMMA ClearedOK ==
  ASSUME IInv, p.st # "push_prepared", NEW q \in Pushes, q.st \in Idle \cup {"verify"}
  PROVE  Cleared(q) \in Pushes /\ PushOK(Cleared(q)) /\ Cleared(q).st = q.st
<1> DEFINE k == Cleared(q)
<1>1. k \in Pushes /\ k.st = q.st /\ k.on = FALSE /\ k.authz = FALSE
  BY DEF Cleared, Pushes
<1>2. a.st \notin {"committing", "decided"}
  BY DEF IInv, PushOK
<1> HIDE DEF k
<1>3. PushOK(k)
  BY <1>1, <1>2 DEF PushOK, PushStates, PullStates, Idle
<1> QED
  BY <1>1, <1>3 DEF k

LEMMA PushAbortInv == ASSUME IInv, PushAbort PROVE Stays
<1> DEFINE q == Request("abort", p.desc)
           freed == Cleared(To("discover"))
           orphaned == [Cleared(Again("discover")) EXCEPT !.orphan = TRUE]
           refused(k) == [k EXCEPT !.p.refused = TRUE]
<1>0. p.st = "push_abort" /\ p.st # "push_prepared" /\ p.st \in PushStates \ {"push_prepared"} /\ TInv
  BY DEF PushAbort, PushStates, IInv
<1>1. PICK ans, o :
         /\ ans \in Answers(q) /\ Sent(ans, o)
         /\ \/ o \in LostTo("push_abort") \cup Keep(Again("push_abort"))
            \/ o \in {Outcome(freed, other[m]), Outcome(orphaned, Unreadable), Outcome(orphaned, other[m])}
            \/ o \in {refused(k) : k \in HandleError(ans.reply)}
  BY DEF PushAbort, Send, Sent, Keep
<1>2. q \in Requests /\ RequestOK(q)
  BY <1>0, Typed, RequestType DEF RequestOK
<1>3. ans.reply \in Replies
  BY <1>1, <1>2, AnswersOK
<1>4. ASSUME o \in LostTo("push_abort") \cup Keep(Again("push_abort")) PROVE GoodOutcome(o)
  BY <1>0, <1>4, LostOK, KeepOK, PushMoves DEF PushStates
<1>5. ASSUME NEW k \in {freed, orphaned}, NEW seen \in {other[m], Unreadable}, o = Outcome(k, seen)
      PROVE  GoodOutcome(o)
  <2>1. To("discover") \in Pushes /\ To("discover").st \in Idle \cup {"verify"}
        /\ Again("discover") \in Pushes /\ Again("discover").st \in Idle \cup {"verify"}
    BY <1>0, MovesOK DEF Idle
  <2>2. freed \in Pushes /\ PushOK(freed)
    BY <1>0, <2>1, ClearedOK
  <2>3. orphaned \in Pushes /\ PushOK(orphaned)
    <3> DEFINE c == Cleared(Again("discover"))
    <3>1. c \in Pushes /\ PushOK(c)
      BY <1>0, <2>1, ClearedOK
    <3> HIDE DEF c
    <3>2. /\ [c EXCEPT !.orphan = TRUE] \in Pushes
          /\ LET d == [c EXCEPT !.orphan = TRUE]
             IN  d.st = c.st /\ d.on = c.on /\ d.authz = c.authz /\ d.desc = c.desc
      BY <3>1 DEF Pushes
    <3>3. PushOK([c EXCEPT !.orphan = TRUE])
      BY <3>1, <3>2 DEF PushOK
    <3> QED
      BY <3>2, <3>3 DEF c
  <2>4. seen \in Descs /\ (seen # Unreadable => Behind(seen, Saved(s)))
    BY <1>0, Typed, HalvesOf DEF IInv, TInv, SeenOK, Descs
  <2>5. o.p = Clean(k) /\ o.seen = seen
    BY <1>5 DEF Outcome
  <2> HIDE DEF freed, orphaned
  <2> QED
    BY <2>2, <2>3, <2>4, <2>5, CleanOK DEF GoodOutcome
<1>6. ASSUME NEW k \in HandleError(ans.reply), o = refused(k) PROVE GoodOutcome(o)
  <2>1. GoodOutcome(k)
    BY <1>0, <1>3, ErrorOK
  <2>2. k = [p |-> k.p, seen |-> k.seen]
    BY DEF LostExchange, HandleError, Keep, Outcome
  <2>3. o.p = [k.p EXCEPT !.refused = TRUE] /\ o.seen = k.seen
    BY <1>6, <2>2
  <2>4. /\ o.p \in Pushes
        /\ o.p.st = k.p.st /\ o.p.on = k.p.on /\ o.p.authz = k.p.authz /\ o.p.desc = k.p.desc
    BY <2>1, <2>3 DEF GoodOutcome, Pushes
  <2> QED
    BY <2>1, <2>3, <2>4 DEF GoodOutcome, PushOK
<1> HIDE DEF freed, orphaned
<1>7. GoodOutcome(o)
  BY <1>1, <1>4, <1>5, <1>6
<1> QED
  BY <1>1, <1>2, <1>7, SentInv

LEMMA OrphanAbortInv == ASSUME IInv, OrphanAbort PROVE Stays
<1> DEFINE q == Request("abort", p.desc)
           k == [p EXCEPT !.orphan = FALSE]
<1>0. p.st \in {"discover", "verify", "converged"} /\ p.st # "push_prepared" /\ TInv
  BY DEF OrphanAbort, IInv
<1>1. PICK ans, o :
         /\ ans \in Answers(q) /\ Sent(ans, o)
         /\ o \in LostExchange \cup HandleError(ans.reply) \cup Keep(p) \cup Keep(k)
  BY DEF OrphanAbort, Send, Sent
<1>2. q \in Requests /\ RequestOK(q)
  BY <1>0, Typed, RequestType DEF RequestOK
<1>3. ans.reply \in Replies
  BY <1>1, <1>2, AnswersOK
<1>4. p \in Pushes /\ PushOK(p)
  BY DEF IInv, TInv
<1>5. k \in Pushes /\ k.st = p.st /\ k.on = p.on /\ k.authz = p.authz /\ k.desc = p.desc
  BY <1>4 DEF Pushes
<1>6. PushOK(k)
  BY <1>4, <1>5 DEF PushOK
<1>7. GoodOutcome(o)
  BY <1>0, <1>1, <1>3, <1>4, <1>5, <1>6, LostOK, ErrorOK, KeepOK
<1> QED
  BY <1>1, <1>2, <1>7, SentInv

LEMMA PullRequestInv == ASSUME IInv, PullRequest PROVE Stays
<1> DEFINE q == Request("request", p.desc)
<1>0. p.st = "pull_request" /\ p.st # "push_prepared" /\ TInv
  BY DEF PullRequest, IInv
<1>1. PICK ans, o :
         /\ ans \in Answers(q) /\ Sent(ans, o)
         /\ o \in LostExchange \cup HandleError(ans.reply) \cup Keep(p) \cup Keep(To("pull_write"))
  BY DEF PullRequest, Send, Sent
<1>2. q \in Requests /\ RequestOK(q)
  BY <1>0, Typed, RequestType DEF RequestOK
<1>3. ans.reply \in Replies
  BY <1>1, <1>2, AnswersOK
<1>4. p \in Pushes /\ PushOK(p)
  BY DEF IInv, TInv
<1>5. Moved(To("pull_write"))
  BY <1>0, <1>4, MovesOK DEF Moved, PushOK, PushStates, PullStates
<1>6. GoodOutcome(o)
  BY <1>0, <1>1, <1>3, <1>4, <1>5, LostOK, ErrorOK, KeepOK, MovedOK
<1> QED
  BY <1>1, <1>2, <1>6, SentInv

--------------------------------------------------------------------------------
\* Steps of one half's storage.

\* A step of h's storage that keeps its saved record keeps what is known of the
\* records, the copies and the Apply.
LEMMA HalfStep ==
  ASSUME IInv, NEW h \in Halves, NEW o, Keeps(store[h], o, Saved(Other(h))),
         store' = [store EXCEPT ![h] = o.half], UNCHANGED <<usb, own, a>>
  PROVE  /\ \A k \in Halves : Saved(k)' = Saved(k)
         /\ store' \in [Halves -> Stores]
         /\ m' = m /\ s' = s
         /\ PairOK' /\ CopiesOK' /\ ReadyOK' /\ ApplyOK'
<1>1. store \in [Halves -> Stores] /\ m \in Halves /\ s \in Halves
  BY Typed DEF IInv, TInv
<1>2. store'[h] = o.half /\ \A k \in Halves \ {h} : store'[k] = store[k]
  BY <1>1
<1>3. \A k \in Halves : Saved(k)' = Saved(k)
  BY <1>2 DEF Keeps, Saved
<1>4. m' = m /\ s' = s
  BY DEF m, s
<1>5. store' \in [Halves -> Stores]
  BY <1>1 DEF Keeps
<1>6. \A k \in Halves : Other(k) \in Halves
  BY HalvesOf
<1>7. CopiesOK'
  <2>1. ASSUME NEW k \in Halves PROVE HalfOK(store'[k], Saved(Other(k)))
    BY <1>2 DEF Keeps, IInv, CopiesOK
  <2> QED
    BY <1>3, <1>6, <2>1 DEF CopiesOK
<1>8. ReadyOK'
  BY <1>3, <1>4, <1>6 DEF ReadyOK, IInv
<1>9. ApplyOK'
  BY <1>1, <1>2, <1>3, <1>4 DEF ApplyOK, IInv, Keeps
<1>10. PairOK'
  BY <1>3, Frame DEF IInv
<1> QED
  BY <1>3, <1>4, <1>5, <1>7, <1>8, <1>9, <1>10

\* A call on the master's own storage that keeps it, and a good move of the pull.
LEMMA LocalInv ==
  ASSUME IInv, NEW o, NEW q \in Pushes, NEW ow \in {"none", "pull"},
         Keeps(store[m], o, Saved(s)), PullCopy(o.half.rx), PushOK(q), Local(o, q, ow)
  PROVE  Stays
<1>1. /\ TInv /\ m \in Halves /\ s \in Halves /\ Other(m) = s /\ s # m
  BY Typed, HalvesOf DEF IInv, TInv
<1>2. /\ store' = [store EXCEPT ![m] = o.half] /\ UNCHANGED <<usb, active, own, other, link, a>>
      /\ p' = Clean(q) /\ owner' = [owner EXCEPT ![m] = ow] /\ Spend("faults", o.fault, MaxFaults)
  BY DEF Local
<1>3. /\ \A k \in Halves : Saved(k)' = Saved(k)
      /\ store' \in [Halves -> Stores] /\ m' = m /\ s' = s
      /\ PairOK' /\ CopiesOK' /\ ReadyOK' /\ ApplyOK'
  BY <1>1, <1>2, HalfStep
<1>4. Clean(q) \in Pushes /\ PushOK(Clean(q))
  BY CleanOK
<1>5. TInv'
  <2>1. spent' \in [{"restarts", "faults", "stales"} -> Nat]
    BY <1>1, <1>2, SpendType DEF Keeps
  <2> QED
    BY <1>1, <1>2, <1>3, <1>4, <2>1 DEF TInv
<1>6. store'[m] = o.half /\ store'[s] = store[s]
  BY <1>1, <1>2 DEF TInv
<1>7. LinkOK(link)' /\ PushOK(p)' /\ SeenOK' /\ ActiveOK'
  <2>1. LinkOK(link)' /\ SeenOK' /\ ActiveOK'
    BY <1>1, <1>2, <1>3, Frame DEF IInv
  <2>2. PushOK(p)'
    BY <1>1, <1>2, <1>3, <1>4, <1>6, FrameLink
  <2> QED
    BY <2>1, <2>2
<1>8. WorkOK' /\ MasterOK'
  BY <1>1, <1>2, <1>3, <1>6 DEF WorkOK, MasterOK, IInv, TInv
<1> QED
  BY <1>3, <1>5, <1>7, <1>8 DEF IInv, Stays

\* The moves a pull makes.
LEMMA PullMoves ==
  ASSUME IInv, p.st \in PullStates
  PROVE  /\ \A st \in PullStates \cup {"verify"} : To(st) \in Pushes /\ PushOK(To(st))
         /\ \A why \in Results : Stopped(why) \in Pushes /\ PushOK(Stopped(why))
         /\ p \in Pushes /\ PushOK(p)
<1>1. p \in Pushes /\ PushOK(p) /\ p.st # "push_prepared" /\ TInv
  BY DEF IInv, TInv, PullStates
<1>2. \A st \in PullStates : Moved(To(st))
  BY <1>1, MovesOK DEF Moved, PushOK, PushStates, PullStates
<1>3. \A why \in Results : Stopped(why) \in Pushes /\ PushOK(Stopped(why))
  BY <1>1, MovesOK, IdleMoves
<1>4. To("verify") \in Pushes /\ PushOK(To("verify"))
  BY <1>1, MovesOK, IdleMoves
<1> QED
  BY <1>1, <1>2, <1>3, <1>4, MovedOK

\* What the master's own storage is while it pulls: not claimed by an Apply.
LEMMA PullHalf ==
  ASSUME IInv, Calls, ~ConvergeOnly(m)
  PROVE  /\ store[m] \in Stores /\ HalfOK(store[m], Saved(s)) /\ store[m].adm # "host"
         /\ ~Working(store[m].rx) /\ owner[m] \in {"none", "pull"}
         /\ \A c : ~Working(c) => PullCopy(c)
         /\ store[m].rx \in Copies /\ p.desc \in Descs
<1>1. m \in Halves /\ Other(m) = s
  BY Typed, HalvesOf DEF IInv, TInv
<1> QED
  BY <1>1, Typed DEF IInv, TInv, CopiesOK, MasterOK, PullCopy, Working, Calls, ConvergeOnly, Stores

LEMMA PullBeginInv == ASSUME IInv, PullBegin PROVE Stays
<1> DEFINE H == store[m]
           stale == owner[m] = "pull" /\ H.rx.st = "receiving" /\ H.rx.desc # p.desc
<1>0. p.st \in PullStates /\ Calls /\ ~ConvergeOnly(m)
  BY DEF PullBegin, PullStates, Local
<1>1. /\ H \in Stores /\ HalfOK(H, Saved(s)) /\ H.adm # "host" /\ owner[m] \in {"none", "pull"}
      /\ p.desc \in Descs /\ ~Working(H.rx) /\ \A k : ~Working(k) => PullCopy(k)
  BY <1>0, PullHalf
<1>2. CASE stale
  <2>1. PICK o \in AbortCopy(H) : \/ o.result = "ok" /\ Local(o, p, "none")
                                  \/ o.result # "ok" /\ Local(o, Stopped(o.result), "pull")
    BY <1>2 DEF PullBegin
  <2>2. Keeps(H, o, Saved(s)) /\ PullCopy(o.half.rx) /\ o.result \in Results
    BY <1>1, AbortKeeps DEF Results
  <2> QED
    BY <1>0, <2>1, <2>2, PullMoves, LocalInv
<1>3. CASE ~stale
  <2>1. PICK o \in BeginCopy(H, p.desc) :
            CASE o.result = "already" -> Local(o, To("verify"), "none")
              [] o.result \in {"ok", "progress"} ->
                   Local(o, To(IF o.half.rx.full THEN "pull_commit" ELSE "pull_request"), "pull")
              [] o.result = "busy" -> Local(o, p, owner[m])
              [] o.result \notin {"already", "ok", "progress", "busy"} ->
                   Local(o, Stopped(o.result), owner[m])
    BY <1>3 DEF PullBegin
  <2>2. Keeps(H, o, Saved(s)) /\ PullCopy(o.half.rx) /\ o.result \in Results
    BY <1>1, BeginKeeps DEF Keeps
  <2>3. CASE o.result = "already"
    BY <1>0, <2>1, <2>2, <2>3, PullMoves, LocalInv
  <2>4. CASE o.result \in {"ok", "progress"}
    <3>1. PICK st \in {"pull_commit", "pull_request"} : Local(o, To(st), "pull")
      BY <2>1, <2>4
    <3> QED
      BY <1>0, <2>2, <3>1, PullMoves, LocalInv DEF PullStates
  <2>5. CASE o.result = "busy"
    BY <1>0, <1>1, <2>1, <2>2, <2>5, PullMoves, LocalInv
  <2>6. CASE o.result \notin {"already", "ok", "progress", "busy"}
    BY <1>0, <1>1, <2>1, <2>2, <2>6, PullMoves, LocalInv
  <2> QED
    BY <2>3, <2>4, <2>5, <2>6
<1> QED
  BY <1>2, <1>3

LEMMA PullWriteInv == ASSUME IInv, PullWrite PROVE Stays
<1> DEFINE H == store[m]
<1>1. PICK o \in WriteCopy(H) :
         Local(o, IF o.result = "ok" THEN To("pull_commit") ELSE Stopped(o.result), owner[m])
  BY DEF PullWrite
<1>0. p.st \in PullStates /\ Calls /\ ~ConvergeOnly(m)
  BY <1>1 DEF PullWrite, PullStates, Local
<1>2. Keeps(H, o, Saved(s)) /\ PullCopy(o.half.rx) /\ o.result \in Results /\ owner[m] \in {"none", "pull"}
  BY <1>0, PullHalf, WriteKeeps DEF Keeps
<1>3. /\ To("pull_commit") \in Pushes /\ PushOK(To("pull_commit"))
      /\ Stopped(o.result) \in Pushes /\ PushOK(Stopped(o.result))
  BY <1>0, <1>2, PullMoves DEF PullStates
<1> QED
  BY <1>1, <1>2, <1>3, LocalInv

LEMMA PullCommitInv == ASSUME IInv, PullCommit PROVE Stays
<1> DEFINE H == store[m]
<1>1. PICK o \in CommitCopy(H, p.desc) :
        CASE o.result \in {"ok", "already"} -> Local(o, To("verify"), "none")
          [] o.result = "progress" -> Local(o, To("pull_step"), owner[m])
          [] o.result \notin {"ok", "already", "progress"} -> Local(o, Stopped(o.result), "none")
  BY DEF PullCommit
<1>0. p.st \in PullStates /\ Calls /\ ~ConvergeOnly(m)
  BY <1>1 DEF PullCommit, PullStates, Local
<1>2. Keeps(H, o, Saved(s)) /\ PullCopy(o.half.rx) /\ o.result \in Results /\ owner[m] \in {"none", "pull"}
  <2>1. Behind(p.desc, Saved(s))
    BY <1>0 DEF IInv, PushOK
  <2> QED
    BY <1>0, <2>1, PullHalf, CommitKeeps DEF Keeps
<1>3. /\ To("pull_step") \in Pushes /\ PushOK(To("pull_step"))
      /\ To("verify") \in Pushes /\ PushOK(To("verify"))
      /\ Stopped(o.result) \in Pushes /\ PushOK(Stopped(o.result))
  BY <1>0, <1>2, PullMoves DEF PullStates
<1>4. CASE o.result \in {"ok", "already"}
  BY <1>1, <1>2, <1>3, <1>4, LocalInv
<1>5. CASE o.result = "progress"
  BY <1>1, <1>2, <1>3, <1>5, LocalInv
<1>6. CASE o.result \notin {"ok", "already", "progress"}
  BY <1>1, <1>2, <1>3, <1>6, LocalInv
<1> QED
  BY <1>4, <1>5, <1>6

LEMMA PullStepInv == ASSUME IInv, PullStep PROVE Stays
<1> DEFINE H == store[m]
<1>1. PICK o \in Done(H, StateResult(H.rx)) :
        Local(o, IF o.result \in {"ok", "already"} THEN To("verify") ELSE Stopped(o.result), "none")
  BY DEF PullStep
<1>0. p.st \in PullStates /\ Calls /\ ~ConvergeOnly(m)
  BY <1>1 DEF PullStep, PullStates, Local
<1>2. Keeps(H, o, Saved(s)) /\ PullCopy(o.half.rx) /\ o.result \in Results
  BY <1>0, PullHalf, StateResultOK, DoneKeeps
<1>3. /\ To("verify") \in Pushes /\ PushOK(To("verify"))
      /\ Stopped(o.result) \in Pushes /\ PushOK(Stopped(o.result))
  BY <1>0, <1>2, PullMoves DEF PullStates
<1> QED
  BY <1>1, <1>2, <1>3, LocalInv

LEMMA PullWaitsInv == ASSUME IInv, PullWaits PROVE Stays
<1>1. p.st # "push_prepared" /\ TInv
  BY DEF PullWaits, IInv
<1>2. Again("discover") \in Pushes /\ PushOK(Again("discover"))
  BY <1>1, IdleMoves, MovesOK DEF Idle
<1>3. /\ UNCHANGED <<usb, store, own, a, link, spent, other, active, owner>> /\ p' = Clean(Again("discover"))
  BY DEF PullWaits
<1>4. /\ CopiesOK' /\ ReadyOK' /\ ApplyOK' /\ PairOK' /\ WorkOK' /\ MasterOK'
      /\ \A h \in Halves : Saved(h)' = Saved(h)
  BY <1>3, FrameHalves
<1>5. Clean(Again("discover")) \in Pushes /\ PushOK(Clean(Again("discover")))
  BY <1>2, CleanOK
<1>6. TInv' /\ LinkOK(link)' /\ PushOK(p)' /\ SeenOK' /\ ActiveOK'
  BY <1>1, <1>3, <1>4, <1>5, Frame, FrameLink DEF IInv, TInv
<1> QED
  BY <1>4, <1>6 DEF IInv, Stays

--------------------------------------------------------------------------------
\* The slave's scan.

\* The slave is the other half.
LEMMA SlaveHalf ==
  ASSUME IInv
  PROVE  /\ TInv /\ m \in Halves /\ s \in Halves /\ s # m /\ Other(m) = s /\ Other(s) = m
         /\ Halves = {m, s}
         /\ store[s] \in Stores /\ store[s].rx \in Copies /\ HalfOK(store[s], Saved(m))
         /\ owner[s] \in {"none", "remote", "pull"}
         /\ link \in Links /\ link.box \in Requests /\ link.box.desc \in Descs
         /\ RequestOK(link.box) /\ LinkOK(link) /\ PushOK(p)
<1>1. /\ TInv /\ m \in Halves /\ s \in Halves /\ s # m /\ Other(m) = s /\ Other(s) = m /\ Halves = {m, s}
  BY HalvesOf DEF IInv, TInv
<1>2. store[s] \in Stores /\ store[s].rx \in Copies /\ owner[s] \in {"none", "remote", "pull"}
  BY <1>1 DEF TInv, Stores
<1>3. HalfOK(store[s], Saved(m))
  BY <1>1 DEF IInv, CopiesOK
<1>4. link \in Links /\ link.box \in Requests /\ link.box.desc \in Descs
  BY <1>1 DEF TInv, Links, Requests
<1> QED
  BY <1>1, <1>2, <1>3, <1>4 DEF IInv, LinkOK

\* A record the slave still accepts: none of its saved generation but its own,
\* and it never saves one of the master's before the master does.
LEMMA AgreesAccepted ==
  ASSUME IInv, NEW d \in Descs, Agrees(d, Saved(s))
  PROVE  Accepted(d)
<1>1. d.gen \in Nat /\ Saved(s).gen \in Nat /\ Saved(m).gen \in Nat /\ s # m /\ s \in Halves /\ Other(s) = m
  BY Gens, Typed, SlaveHalf DEF IInv
<1>2. Saved(s).gen > Saved(m).gen => Saved(s).gen = Saved(m).gen + 1 /\ Saved(s).origin = s
  BY <1>1 DEF IInv, PairOK
<1> QED
  BY <1>1, <1>2 DEF Accepted, Agrees

LEMMA ReplyToOK ==
  ASSUME IInv, NEW d \in Descs, NEW o, o.half \in Stores, o.result \in Results, NEW full \in BOOLEAN,
         o.result \in {"ok", "already"} /\ full => Accepted(d)
  PROVE  ReplyTo(d, o, full) \in Replies /\ ReplyOK(ReplyTo(d, o, full))
<1> DEFINE r == ReplyTo(d, o, full)
<1>1. (o.half.rx.desc = d /\ o.half.rx.full) \in BOOLEAN
  OBVIOUS
<1>2. Held(o.half, d) \in Replies /\ Held(o.half, d).kind = "busy"
  BY <1>1, ReplyTypes DEF Held, Busy, Reply
<1>3. CASE o.result \in {"ok", "already"}
  <2>1. r = Ack(d, full)
    BY <1>3 DEF ReplyTo
  <2>2. Ack(d, full) \in Replies /\ Ack(d, full).desc = d /\ Ack(d, full).full = full /\ Ack(d, full).kind = "ack"
    BY ReplyTypes DEF Ack, Reply
  <2> QED
    BY <1>3, <2>1, <2>2 DEF ReplyOK
<1>4. CASE o.result \in {"progress", "busy"}
  <2>1. r = Held(o.half, d)
    BY <1>4 DEF ReplyTo
  <2> QED
    BY <1>2, <2>1 DEF ReplyOK
<1>5. CASE o.result \in {"storage", "stale", "conflict", "range"}
  <2>1. r = Error(d, o.result) /\ o.result \in Whys
    BY <1>5 DEF ReplyTo, Whys
  <2>2. Error(d, o.result) \in Replies /\ Error(d, o.result).kind = "error"
    BY <2>1, ReplyTypes DEF Error, Reply
  <2> QED
    BY <2>1, <2>2 DEF ReplyOK
<1> QED
  BY <1>3, <1>4, <1>5 DEF Results

\* A request the slave serves with a call that keeps its storage.
LEMMA ServeInv ==
  ASSUME IInv, NEW o, NEW reply \in Replies, NEW ow \in {"none", "remote", "pull"},
         Keeps(store[s], o, Saved(m)), ReplyOK(reply), Serve(o, reply, ow),
         Working(o.half.rx) => /\ link.box.kind \in {"durable", "commit"}
                               /\ link.box.desc = o.half.rx.desc
  PROVE  Stays
<1> DEFINE l == [link EXCEPT !.box = NoRequest, !.cached = [req |-> link.box, reply |-> reply]]
<1>1. /\ store' = [store EXCEPT ![s] = o.half] /\ owner' = [owner EXCEPT ![s] = ow] /\ link' = l
      /\ UNCHANGED <<usb, active, own, other, p, a>> /\ Spend("faults", o.fault, MaxFaults)
  BY DEF Serve
<1>2. /\ \A k \in Halves : Saved(k)' = Saved(k)
      /\ store' \in [Halves -> Stores] /\ m' = m /\ s' = s
      /\ PairOK' /\ CopiesOK' /\ ReadyOK' /\ ApplyOK'
  BY <1>1, SlaveHalf, HalfStep
<1>3. l \in Links /\ l.box = NoRequest /\ l.cached = [req |-> link.box, reply |-> reply] /\ l.wire = link.wire
  BY SlaveHalf, ReplyTypes DEF Links
<1>4. LinkOK(l)
  <2>1. RequestOK(NoRequest)
    BY DEF RequestOK, NoRequest
  <2> QED
    BY <1>3, <2>1, SlaveHalf DEF LinkOK
<1>5. TInv'
  <2>1. spent' \in [{"restarts", "faults", "stales"} -> Nat]
    BY <1>1, SlaveHalf, SpendType DEF Keeps
  <2> QED
    BY <1>1, <1>2, <1>3, <2>1, SlaveHalf DEF TInv
<1>6. LinkOK(link)' /\ PushOK(p)' /\ SeenOK' /\ ActiveOK'
  <2>1. LinkOK(link)' /\ PushOK(p)'
    BY <1>1, <1>2, <1>4, SlaveHalf, FrameLink
  <2> QED
    BY <1>1, <1>2, <2>1, SlaveHalf, Frame DEF IInv
<1>7. WorkOK' /\ MasterOK'
  <2>1. store'[s] = o.half /\ store'[m] = store[m] /\ owner'[m] = owner[m]
    BY <1>1, SlaveHalf DEF TInv
  <2> QED
    BY <1>1, <1>2, <1>3, <2>1 DEF WorkOK, MasterOK, IInv
<1> QED
  BY <1>2, <1>5, <1>6, <1>7 DEF IInv, Stays

LEMMA DeclineInv ==
  ASSUME IInv, NEW kind, Take(kind), Decline PROVE Stays
<1>1. PICK o \in Done(store[s], "busy") : Serve(o, Held(o.half, link.box.desc), owner[s])
  BY DEF Decline
<1>2. Keeps(store[s], o, Saved(m)) /\ o.half = store[s]
  BY SlaveHalf, DoneKeeps DEF Results
<1>3. Held(o.half, link.box.desc) \in Replies /\ ReplyOK(Held(o.half, link.box.desc))
  <2>1. (o.half.rx.desc = link.box.desc /\ o.half.rx.full) \in BOOLEAN
    OBVIOUS
  <2> QED
    BY <2>1, SlaveHalf, ReplyTypes DEF Held, Busy, Reply, ReplyOK
<1>4. ~Working(o.half.rx)
  BY <1>2 DEF Take, Idling
<1> QED
  BY <1>1, <1>2, <1>3, <1>4, SlaveHalf, ServeInv

LEMMA TakeBeginInv == ASSUME IInv, TakeBegin PROVE Stays
<1> DEFINE d == link.box.desc
<1>1. PICK o \in BeginCopy(store[s], d) :
        IF o.result \in {"ok", "already", "progress"}
        THEN Serve(o, Ack(d, o.half.rx.full), IF o.half.rx.st = "receiving" THEN "remote" ELSE "none")
        ELSE Serve(o, ReplyTo(d, o, FALSE), owner[s])
  BY DEF TakeBegin
<1>2. /\ Keeps(store[s], o, Saved(m)) /\ ~Working(o.half.rx)
      /\ o.result \in {"ok", "already", "progress"} => Agrees(d, Saved(s))
  BY SlaveHalf, BeginKeeps DEF TakeBegin, Take, Idling, Saved
<1>3. CASE o.result \in {"ok", "already", "progress"}
  <2>1. o.half.rx.full \in BOOLEAN
    BY <1>2 DEF Keeps, Stores, Copies
  <2>2. Accepted(d)
    BY <1>2, <1>3, SlaveHalf, AgreesAccepted
  <2>3. Ack(d, o.half.rx.full) \in Replies /\ ReplyOK(Ack(d, o.half.rx.full))
    BY <2>1, <2>2, SlaveHalf, ReplyTypes DEF Ack, Reply, ReplyOK
  <2>4. PICK ow \in {"none", "remote"} : Serve(o, Ack(d, o.half.rx.full), ow)
    BY <1>1, <1>3
  <2> QED
    BY <1>2, <2>3, <2>4, ServeInv
<1>4. CASE o.result \notin {"ok", "already", "progress"}
  <2>1. ReplyTo(d, o, FALSE) \in Replies /\ ReplyOK(ReplyTo(d, o, FALSE))
    BY <1>2, SlaveHalf, ReplyToOK DEF Keeps
  <2> QED
    BY <1>1, <1>2, <1>4, <2>1, SlaveHalf, ServeInv
<1> QED
  BY <1>3, <1>4

LEMMA TakeChunkInv == ASSUME IInv, TakeChunk PROVE Stays
<1> DEFINE d == link.box.desc
<1>1. CASE owner[s] # "remote" \/ store[s].rx.desc # d
  <2>1. Take("chunk") /\ Decline
    BY <1>1 DEF TakeChunk
  <2> QED
    BY <2>1, DeclineInv
<1>2. CASE ~(owner[s] # "remote" \/ store[s].rx.desc # d)
  <2>1. PICK o \in WriteCopy(store[s]) :
             Serve(o, ReplyTo(d, o, o.half.rx.full),
                   IF o.result \in {"ok", "busy", "progress"} THEN owner[s] ELSE "none")
    BY <1>2 DEF TakeChunk
  <2>2. /\ Keeps(store[s], o, Saved(m)) /\ ~Working(o.half.rx)
        /\ o.result \in {"ok", "already"} => Agrees(d, Saved(s))
    BY <1>2, SlaveHalf, WriteKeeps DEF TakeChunk, Take, Idling, Saved
  <2>3. o.half.rx.full \in BOOLEAN
    BY <2>2 DEF Keeps, Stores, Copies
  <2>4. ReplyTo(d, o, o.half.rx.full) \in Replies /\ ReplyOK(ReplyTo(d, o, o.half.rx.full))
    BY <2>2, <2>3, SlaveHalf, AgreesAccepted, ReplyToOK DEF Keeps
  <2> QED
    BY <2>1, <2>2, <2>4, SlaveHalf, ServeInv
<1> QED
  BY <1>1, <1>2

LEMMA TakeDurableInv == ASSUME IInv, TakeDurable PROVE Stays
<1> DEFINE d == link.box.desc
<1>1. PICK o \in PrepareDurable(store[s], d) :
        Serve(o, ReplyTo(d, o, TRUE), CASE o.result \in {"ok", "already"} -> owner[s]
                                        [] o.result \in {"progress", "busy"} -> "remote"
                                        [] OTHER -> "none")
  BY DEF TakeDurable
<1>2. /\ Keeps(store[s], o, Saved(m))
      /\ Working(o.half.rx) => o.half.rx.desc = d
      /\ o.result \in {"ok", "already"} => Agrees(d, Saved(s))
  BY SlaveHalf, DurableKeeps DEF TakeDurable, Take, Idling, Saved
<1>3. ReplyTo(d, o, TRUE) \in Replies /\ ReplyOK(ReplyTo(d, o, TRUE))
  BY <1>2, SlaveHalf, AgreesAccepted, ReplyToOK DEF Keeps
<1>4. PICK ow \in {"none", "remote", owner[s]} : Serve(o, ReplyTo(d, o, TRUE), ow)
  BY <1>1
<1>5. link.box.kind = "durable"
  BY DEF TakeDurable, Take
<1> QED
  BY <1>2, <1>3, <1>4, <1>5, SlaveHalf, ServeInv

LEMMA TakeCommitInv == ASSUME IInv, TakeCommit PROVE Stays
<1> DEFINE d == link.box.desc
           declines == owner[s] # "remote" /\ store[s].rx.st \notin {"prepared", "committed"}
<1>1. CASE declines
  <2>1. Take("commit") /\ Decline
    BY <1>1 DEF TakeCommit
  <2> QED
    BY <2>1, DeclineInv
<1>2. CASE ~declines
  <2>1. PICK o \in CommitCopy(store[s], d) :
             Serve(o, ReplyTo(d, o, TRUE),
                   IF o.result \in {"progress", "busy"} THEN "remote" ELSE "none")
    BY <1>2 DEF TakeCommit
  <2>2. link.box.kind = "commit" /\ ~Working(store[s].rx)
    BY DEF TakeCommit, Take, Idling
  <2>3. Behind(d, Saved(m))
    BY <2>2, SlaveHalf DEF RequestOK
  <2>4. /\ Keeps(store[s], o, Saved(m))
        /\ Working(o.half.rx) => o.half.rx.desc = d
        /\ o.result \in {"ok", "already"} => Agrees(d, Saved(s))
    BY <2>2, <2>3, SlaveHalf, CommitKeeps DEF Saved
  <2>5. ReplyTo(d, o, TRUE) \in Replies /\ ReplyOK(ReplyTo(d, o, TRUE))
    BY <2>4, SlaveHalf, AgreesAccepted, ReplyToOK DEF Keeps
  <2> QED
    BY <2>1, <2>2, <2>4, <2>5, SlaveHalf, ServeInv
<1> QED
  BY <1>1, <1>2

LEMMA TakeAbortInv == ASSUME IInv, TakeAbort PROVE Stays
<1> DEFINE d == link.box.desc
           H == store[s]
           same == H.rx.desc = d
           why == IF Holds(H.rx) THEN "busy"
                  ELSE IF H.rx.st = "committed" /\ same THEN "conflict" ELSE "ok"
<1>1. PICK o \in IF Abortable(H.rx) /\ same THEN AbortCopy(H) ELSE Done(H, why) :
           Serve(o, ReplyTo(d, o, FALSE), IF o.result = "ok" /\ same THEN "none" ELSE owner[s])
  BY DEF TakeAbort
<1>2. ~Working(H.rx)
  BY DEF TakeAbort, Take, Idling
<1>3. Keeps(H, o, Saved(m)) /\ ~Working(o.half.rx)
  <2>1. CASE Abortable(H.rx) /\ same
    <3>1. H.adm # "host"
      BY <2>1, SlaveHalf DEF Abortable, HalfOK, Holds, Working
    <3> QED
      BY <1>1, <2>1, <3>1, SlaveHalf, AbortKeeps
  <2>2. CASE ~(Abortable(H.rx) /\ same)
    <3>1. why \in Results /\ o \in Done(H, why)
      BY <1>1, <2>2 DEF Results
    <3> QED
      BY <1>2, <3>1, SlaveHalf, DoneKeeps
  <2> QED
    BY <2>1, <2>2
<1>4. ReplyTo(d, o, FALSE) \in Replies /\ ReplyOK(ReplyTo(d, o, FALSE))
  BY <1>3, SlaveHalf, ReplyToOK DEF Keeps
<1> QED
  BY <1>1, <1>3, <1>4, SlaveHalf, ServeInv

LEMMA TakePullRequestInv == ASSUME IInv, TakePullRequest PROVE Stays
<1> DEFINE d == link.box.desc
<1>1. PICK o \in Done(store[s], "ok"), r \in {Reply("chunk", d, FALSE, "none"), Error(d, "stale")} :
         Serve(o, r, owner[s])
  BY DEF TakePullRequest
<1>2. Keeps(store[s], o, Saved(m)) /\ o.half = store[s]
  BY SlaveHalf, DoneKeeps DEF Results
<1>3. r \in Replies /\ ReplyOK(r)
  <2>1. d \in Descs /\ "stale" \in Whys
    BY SlaveHalf DEF Whys
  <2>2. Reply("chunk", d, FALSE, "none").kind = "chunk" /\ Error(d, "stale").kind = "error"
    BY DEF Error, Reply
  <2> QED
    BY <2>1, <2>2, ReplyTypes DEF ReplyOK
<1>4. ~Working(o.half.rx)
  BY <1>2 DEF TakePullRequest, Take, Idling
<1> QED
  BY <1>1, <1>2, <1>3, <1>4, SlaveHalf, ServeInv

LEMMA RefuseInv == ASSUME IInv, Refuse PROVE Stays
<1> DEFINE d == link.box.desc
<1>1. PICK o \in Done(store[s], "busy") : Serve(o, Busy(d, FALSE), owner[s])
  BY DEF Refuse
<1>2. Keeps(store[s], o, Saved(m)) /\ o.half = store[s]
  BY SlaveHalf, DoneKeeps DEF Results
<1>3. Busy(d, FALSE) \in Replies /\ ReplyOK(Busy(d, FALSE))
  BY SlaveHalf, ReplyTypes DEF Busy, Reply, ReplyOK
<1>4. ~Working(o.half.rx)
  BY <1>2 DEF Refuse, Take, Idling
<1> QED
  BY <1>1, <1>2, <1>3, <1>4, SlaveHalf, ServeInv

\* A step of the slave's that moves its storage and forgets of the link.
LEMMA SlaveStepInv ==
  ASSUME IInv, NEW o, Keeps(store[s], o, Saved(m)), ~Working(o.half.rx),
         store' = [store EXCEPT ![s] = o.half],
         NEW l \in Links, LinkOK(l), link' = l,
         NEW seen \in Descs, seen # Unreadable => Behind(seen, Saved(m)),
         other' = [other EXCEPT ![s] = seen],
         NEW ow \in {"none", "remote", "pull"}, owner' = [owner EXCEPT ![s] = ow],
         spent' \in [{"restarts", "faults", "stales"} -> Nat],
         UNCHANGED <<usb, active, own, p, a>>
  PROVE  Stays
<1>1. /\ \A k \in Halves : Saved(k)' = Saved(k)
      /\ store' \in [Halves -> Stores] /\ m' = m /\ s' = s
      /\ PairOK' /\ CopiesOK' /\ ReadyOK' /\ ApplyOK'
  BY SlaveHalf, HalfStep
<1>2. TInv'
  BY <1>1, SlaveHalf DEF TInv
<1>3. LinkOK(link)' /\ PushOK(p)' /\ ActiveOK'
  BY <1>1, SlaveHalf, Frame, FrameLink DEF IInv
<1>4. SeenOK'
  <2>1. ASSUME NEW h \in Halves, other'[h] # Unreadable
        PROVE  Behind(other'[h], Saved(Other(h)))
    BY <2>1, SlaveHalf DEF TInv, SeenOK, IInv
  <2> QED
    BY <1>1, <2>1, HalvesOf DEF SeenOK
<1>5. WorkOK' /\ MasterOK'
  <2>1. store'[s] = o.half /\ store'[m] = store[m] /\ owner'[m] = owner[m]
    BY SlaveHalf DEF TInv
  <2> QED
    BY <1>1, <2>1 DEF WorkOK, MasterOK, IInv
<1> QED
  BY <1>1, <1>2, <1>3, <1>4, <1>5 DEF IInv, Stays

\* The changes of the slave's side of the link that only forget.
LEMMA Forgets ==
  ASSUME IInv
  PROVE  /\ NoCached \in [req : Requests, reply : Replies] /\ ReplyOK(NoCached.reply)
         /\ \A box \in {link.box, NoRequest}, c \in {NoCached, Transient(link.cached)} :
               /\ [link EXCEPT !.box = box, !.cached = c] \in Links
               /\ LinkOK([link EXCEPT !.box = box, !.cached = c])
         /\ \A c \in {NoCached, Transient(link.cached)} :
               /\ [link EXCEPT !.cached = c] \in Links /\ LinkOK([link EXCEPT !.cached = c])
<1>1. NoCached \in [req : Requests, reply : Replies] /\ ReplyOK(NoCached.reply)
  BY ReplyTypes DEF NoCached, NoReply, Reply, ReplyOK
<1>2. /\ link.box \in Requests /\ link.cached \in [req : Requests, reply : Replies]
      /\ link.wire \in Replies /\ link \in Links /\ LinkOK(link)
      /\ NoRequest \in Requests /\ RequestOK(NoRequest)
  BY SlaveHalf, ReplyTypes DEF Links, NoRequest, RequestOK
<1>3. \A c \in {NoCached, Transient(link.cached)} :
         c \in [req : Requests, reply : Replies] /\ ReplyOK(c.reply)
  BY <1>1, <1>2 DEF Transient, LinkOK
<1>4. ASSUME NEW box \in {link.box, NoRequest}, NEW c \in {NoCached, Transient(link.cached)},
             NEW l \in {[link EXCEPT !.box = box, !.cached = c], [link EXCEPT !.cached = c]}
      PROVE  l \in Links /\ LinkOK(l)
  <2>1. l \in Links
    BY <1>2, <1>3 DEF Links
  <2>2. l.box \in {link.box, NoRequest} /\ l.cached = c /\ l.wire = link.wire
    BY <1>2 DEF Links
  <2> QED
    BY <1>2, <1>3, <2>1, <2>2 DEF LinkOK
<1> QED
  BY <1>1, <1>4

LEMMA TakeMetadataInv == ASSUME IInv, TakeMetadata PROVE Stays
<1> DEFINE d == link.box.desc
           H == store[s]
           abandoned == link.box.free /\ H.rx.st = "prepared" /\ d # H.rx.desc
<1>1. PICK o \in IF abandoned THEN AbortCopy(H) ELSE Done(H, "ok") :
           /\ Spend("faults", o.fault, MaxFaults)
           /\ store' = [store EXCEPT ![s] = o.half]
           /\ owner' = [owner EXCEPT ![s] = IF abandoned /\ o.result = "ok" THEN "none" ELSE @]
           /\ link' = [link EXCEPT !.box = NoRequest,
                                   !.cached = IF abandoned /\ o.result = "ok" THEN NoCached
                                              ELSE Transient(@)]
  BY DEF TakeMetadata
<1>2. /\ ~Working(H.rx) /\ link.box.kind = "metadata" /\ other' = [other EXCEPT ![s] = d]
      /\ UNCHANGED <<usb, active, own, p, a>>
  BY DEF TakeMetadata, Take, Idling
<1>3. Keeps(H, o, Saved(m)) /\ ~Working(o.half.rx)
  <2>1. CASE abandoned
    <3>1. H.adm # "host"
      BY <2>1, SlaveHalf DEF HalfOK, Holds
    <3> QED
      BY <1>1, <2>1, <3>1, SlaveHalf, AbortKeeps
  <2>2. CASE ~abandoned
    BY <1>1, <1>2, <2>2, SlaveHalf, DoneKeeps DEF Results
  <2> QED
    BY <2>1, <2>2
<1>4. PICK c \in {NoCached, Transient(link.cached)} :
         link' = [link EXCEPT !.box = NoRequest, !.cached = c]
  <2>1. link.cached = link.cached
    OBVIOUS
  <2> QED
    BY <1>1, SlaveHalf DEF Links
<1>5. [link EXCEPT !.box = NoRequest, !.cached = c] \in Links
      /\ LinkOK([link EXCEPT !.box = NoRequest, !.cached = c])
  BY Forgets
<1>6. Behind(d, Saved(m)) /\ d \in Descs
  BY <1>2, SlaveHalf DEF RequestOK
<1>7. PICK ow \in {"none", "remote", "pull"} : owner' = [owner EXCEPT ![s] = ow]
  <2>1. owner[s] \in {"none", "remote", "pull"}
    BY SlaveHalf
  <2>2. CASE abandoned /\ o.result = "ok"
    BY <1>1, <2>2
  <2>3. CASE ~(abandoned /\ o.result = "ok")
    BY <1>1, <2>1, <2>3
  <2> QED
    BY <2>2, <2>3
<1>8. spent' \in [{"restarts", "faults", "stales"} -> Nat]
  BY <1>1, <1>3, SlaveHalf, SpendType DEF Keeps
<1> QED
  BY <1>1, <1>2, <1>3, <1>4, <1>5, <1>6, <1>7, <1>8, SlaveStepInv

LEMMA ExpireCopyInv == ASSUME IInv, ExpireCopy PROVE Stays
<1> DEFINE H == store[s]
<1>1. PICK o \in AbortCopy(H) :
        /\ Spend("faults", o.fault, MaxFaults)
        /\ store' = [store EXCEPT ![s] = o.half]
        /\ IF o.result = "ok"
           THEN /\ owner' = [owner EXCEPT ![s] = "none"]
                /\ other' = [other EXCEPT ![s] = Unreadable]
                /\ link' = [link EXCEPT !.cached = NoCached]
           ELSE link' = [link EXCEPT !.cached = Transient(@)] /\ UNCHANGED <<owner, other>>
  BY DEF ExpireCopy
<1>2. H.rx.st = "receiving" /\ UNCHANGED <<usb, active, own, p, a>>
  BY DEF ExpireCopy
<1>3. Keeps(H, o, Saved(m)) /\ ~Working(o.half.rx)
  <2>1. H.adm # "host"
    BY <1>2, SlaveHalf DEF HalfOK, Holds
  <2> QED
    BY <2>1, SlaveHalf, AbortKeeps
<1>4. PICK c \in {NoCached, Transient(link.cached)} : link' = [link EXCEPT !.cached = c]
  BY <1>1, SlaveHalf DEF Links
<1>5. [link EXCEPT !.cached = c] \in Links /\ LinkOK([link EXCEPT !.cached = c])
  BY Forgets
<1>6. PICK ow \in {"none", "remote", "pull"}, seen \in {Unreadable, other[s]} :
         owner' = [owner EXCEPT ![s] = ow] /\ other' = [other EXCEPT ![s] = seen]
  <2>1. CASE o.result = "ok"
    BY <1>1, <2>1
  <2>2. CASE o.result # "ok"
    <3>1. owner = [owner EXCEPT ![s] = owner[s]] /\ other = [other EXCEPT ![s] = other[s]]
      BY SlaveHalf DEF TInv
    <3> QED
      BY <1>1, <2>2, <3>1, SlaveHalf
  <2> QED
    BY <2>1, <2>2
<1>7. seen \in Descs /\ (seen # Unreadable => Behind(seen, Saved(m)))
  BY <1>6, SlaveHalf DEF IInv, TInv, SeenOK, Descs
<1>8. spent' \in [{"restarts", "faults", "stales"} -> Nat]
  BY <1>1, <1>3, SlaveHalf, SpendType DEF Keeps
<1> QED
  BY <1>1, <1>2, <1>3, <1>4, <1>5, <1>6, <1>7, <1>8, SlaveStepInv

LEMMA QuietScanInv == ASSUME IInv, QuietScan PROVE Stays
<1>1. /\ link' = [link EXCEPT !.cached = Transient(@)]
      /\ other' \in {other, [other EXCEPT ![s] = Unreadable]}
      /\ ~Working(store[s].rx) /\ UNCHANGED <<usb, store, active, own, owner, p, a, spent>>
  BY DEF QuietScan, Take, Idling
<1> DEFINE o == [half |-> store[s], result |-> "ok", fault |-> 0]
<1>2. Keeps(store[s], o, Saved(m)) /\ o.half = store[s]
  BY SlaveHalf, DoneKeeps DEF Results, Done
<1>3. link' = [link EXCEPT !.cached = Transient(link.cached)]
  BY <1>1, SlaveHalf DEF Links
<1>4. [link EXCEPT !.cached = Transient(link.cached)] \in Links
      /\ LinkOK([link EXCEPT !.cached = Transient(link.cached)])
  BY Forgets
<1>5. PICK seen \in {Unreadable, other[s]} : other' = [other EXCEPT ![s] = seen]
  BY <1>1, SlaveHalf DEF TInv
<1>6. seen \in Descs /\ (seen # Unreadable => Behind(seen, Saved(m)))
  BY <1>5, SlaveHalf DEF IInv, TInv, SeenOK, Descs
<1>7. store' = [store EXCEPT ![s] = o.half] /\ owner' = [owner EXCEPT ![s] = owner[s]]
  BY <1>1, SlaveHalf DEF TInv
<1>8. spent' \in [{"restarts", "faults", "stales"} -> Nat]
  BY <1>1, SlaveHalf DEF TInv
<1> HIDE DEF o
<1> QED
  BY <1>1, <1>2, <1>3, <1>4, <1>5, <1>6, <1>7, <1>8, SlaveHalf, SlaveStepInv

--------------------------------------------------------------------------------
\* Steps that save a record.

\* What a greater saved record of a half leaves true.
Grows ==
  /\ UNCHANGED usb
  /\ \A k \in Halves : /\ Saved(k)' \in Records \cup {NoRecord}
                       /\ Saved(k)' = Saved(k) \/ Saved(k).gen < Saved(k)'.gen
  /\ \A d \in Descs : Accepted(d) => Accepted(d)'

LEMMA GrowsKeeps ==
  ASSUME IInv, Grows
  PROVE  /\ \A k \in Halves, d \in Descs : Behind(d, Saved(k)) => Behind(d, Saved(k)')
         /\ UNCHANGED other => SeenOK'
         /\ UNCHANGED active => ActiveOK'
         /\ \A r \in Replies : ReplyOK(r) => ReplyOK(r)'
         /\ \A l \in Links : LinkOK(l) => LinkOK(l)'
         /\ \A k \in Halves : store'[k] = store[k] => HalfOK(store'[k], Saved(Other(k))')
         /\ m' = m /\ s' = s
<1>0. TInv /\ m' = m /\ s' = s /\ m \in Halves /\ s \in Halves
  BY Typed DEF IInv, Grows, m, s
<1>1. ASSUME NEW k \in Halves, NEW d \in Descs, Behind(d, Saved(k)) PROVE Behind(d, Saved(k)')
  <2>1. d.gen \in Nat /\ Saved(k).gen \in Nat /\ Saved(k)'.gen \in Nat
    BY <1>0, Typed, Gens DEF Grows, Descs
  <2> QED
    BY <1>1, <2>1 DEF Grows, Behind
<1>2. UNCHANGED other => SeenOK'
  BY <1>0, <1>1, HalvesOf DEF SeenOK, IInv, TInv
<1>3. UNCHANGED active => ActiveOK'
  <2>1. ASSUME UNCHANGED active, NEW h \in Halves PROVE Behind(active'[h], Saved(Other(h))')
    <3>1. active[h] \in Descs
      BY <1>0 DEF TInv, Descs
    <3>2. Other(h) \in Halves /\ Behind(active[h], Saved(Other(h)))
      BY HalvesOf DEF IInv, ActiveOK
    <3> QED
      BY <1>1, <2>1, <3>1, <3>2
  <2> QED
    BY <2>1 DEF ActiveOK
<1>5. ASSUME NEW r \in Replies, ReplyOK(r) PROVE ReplyOK(r)'
  BY <1>0, <1>1, <1>5, ReplyTypes DEF ReplyOK, Grows
<1>6. ASSUME NEW q \in Requests, RequestOK(q) PROVE RequestOK(q)'
  BY <1>0, <1>1, <1>6, ReplyTypes DEF RequestOK
<1>7. ASSUME NEW l \in Links, LinkOK(l) PROVE LinkOK(l)'
  BY <1>5, <1>6, <1>7 DEF LinkOK, Links
<1>8. ASSUME NEW k \in Halves, store'[k] = store[k] PROVE HalfOK(store'[k], Saved(Other(k))')
  <2>1. HalfOK(store[k], Saved(Other(k))) /\ store[k].rx.desc \in Descs /\ Other(k) \in Halves
    BY <1>0, HalvesOf DEF IInv, TInv, CopiesOK, Stores, Copies
  <2> QED
    BY <1>1, <1>8, <2>1 DEF HalfOK
<1> QED
  BY <1>0, <1>1, <1>2, <1>3, <1>5, <1>7, <1>8

\* How a step of the store touches the cached reply of a remote copy.
LEMMA StoreReply ==
  ASSUME IInv, NEW h \in Halves, Working(store[h].rx), NEW o \in StepCopy(store[h])
  PROVE  LET req == link.cached.req
             l == [link EXCEPT !.cached.reply = ReplyTo(req.desc, o, TRUE)]
         IN  owner[h] = "remote" /\ req.kind \in {"durable", "commit"} =>
                /\ l \in Links /\ LinkOK(l) /\ l.cached.req = link.cached.req
<1> DEFINE req == link.cached.req
           r == ReplyTo(req.desc, o, TRUE)
           l == [link EXCEPT !.cached.reply = r]
<1> SUFFICES ASSUME owner[h] = "remote", req.kind \in {"durable", "commit"}
             PROVE  l \in Links /\ LinkOK(l) /\ l.cached.req = link.cached.req
  OBVIOUS
<1>1. h = s
  BY SlaveHalf DEF IInv, MasterOK
<1>2. req.desc = store[s].rx.desc /\ req.desc \in Descs
  BY <1>1, SlaveHalf DEF IInv, WorkOK, Copies
<1>3. /\ o.half \in Stores /\ o.result \in Results
      /\ req.desc.gen > store[s].saved.gen
  BY <1>1, <1>2, SlaveHalf, StepKeeps
<1>4. Accepted(req.desc)
  <2>1. req.desc.gen \in Nat /\ Saved(s).gen \in Nat
    BY <1>2, Gens, Typed, SlaveHalf
  <2>2. Agrees(req.desc, Saved(s))
    BY <1>3, <2>1 DEF Agrees, Saved
  <2> QED
    BY <1>2, <2>2, AgreesAccepted
<1>5. r \in Replies /\ ReplyOK(r)
  BY <1>2, <1>3, <1>4, ReplyToOK
<1> HIDE DEF r
<1>6. l \in Links /\ l.box = link.box /\ l.wire = link.wire /\ l.cached.req = req /\ l.cached.reply = r
  BY <1>5, SlaveHalf DEF Links
<1> QED
  BY <1>5, <1>6, SlaveHalf DEF LinkOK

\* A copy that commits makes the two saved records the same.
LEMMA CopyCatchesUp ==
  ASSUME IInv, NEW h \in Halves, NEW d \in Descs, d.gen > Saved(h).gen, Behind(d, Saved(Other(h)))
  PROVE  d = Saved(Other(h)) /\ Saved(Other(h)).gen > Saved(h).gen
<1>1. Other(h) \in Halves /\ Other(Other(h)) = h
  BY HalvesOf
<1>2. d.gen \in Nat /\ Saved(h).gen \in Nat /\ Saved(Other(h)).gen \in Nat
  BY <1>1, Gens, Typed DEF IInv
<1>3. Saved(Other(h)).gen > Saved(h).gen => Saved(Other(h)).gen = Saved(h).gen + 1
  BY <1>1 DEF IInv, PairOK
<1> QED
  BY <1>2, <1>3 DEF Behind

\* One step of a half's storage job: it saves nothing, or the copy it committed,
\* which the other half holds.
LEMMA StoreStepInv ==
  ASSUME IInv, NEW h \in Halves, StoreStep(h)
  PROVE  /\ IInv'
         /\ \/ \A k \in Halves : Saved(k)' = Saved(k)
            \/ /\ Saved(Other(h)).gen > Saved(h).gen
               /\ \A k \in Halves : Saved(k)' = Saved(Other(h))
<1> DEFINE H == store[h]
           req == link.cached.req
           l(o) == [link EXCEPT !.cached.reply = ReplyTo(req.desc, o, TRUE)]
<1>0. /\ Working(H.rx) /\ TInv /\ H \in Stores /\ Other(h) \in Halves /\ h # Other(h)
      /\ HalfOK(H, Saved(Other(h))) /\ H.rx.desc \in Descs /\ H.saved = Saved(h)
      /\ UNCHANGED <<usb, active, own, other, p, a>>
  BY HalvesOf DEF StoreStep, IInv, TInv, CopiesOK, Stores, Copies, Saved
<1>1. PICK o \in StepCopy(H) :
        /\ Spend("faults", o.fault, MaxFaults)
        /\ store' = [store EXCEPT ![h] = o.half]
        /\ owner' = [owner EXCEPT ![h] = IF o.result = "progress" THEN @
                                         ELSE IF o.half.rx.st = "prepared" THEN "remote" ELSE "none"]
        /\ link' = IF owner[h] = "remote" /\ req.kind \in {"durable", "commit"} THEN l(o) ELSE link
  BY DEF StoreStep
<1>2. /\ o.half \in Stores /\ HalfOK(o.half, Saved(Other(h)))
      /\ H.adm = "peer" /\ H.rx.desc.gen > H.saved.gen
      /\ \/ o.half.saved = H.saved
         \/ o.half.saved = H.rx.desc /\ Behind(H.rx.desc, Saved(Other(h))) /\ ~Working(o.half.rx)
      /\ Working(o.half.rx) => o.half.rx.desc = H.rx.desc
      /\ PullCopy(H.rx) => PullCopy(o.half.rx) /\ o.half.rx.st # "prepared"
      /\ o.result \in Results /\ o.fault \in {0, 1}
  BY <1>0, StepKeeps
<1>3. link' \in Links /\ LinkOK(link') /\ link'.cached.req = link.cached.req
  BY <1>0, <1>1, StoreReply, SlaveHalf
<1>4. /\ store'[h] = o.half /\ \A k \in Halves \ {h} : store'[k] = store[k]
      /\ store' \in [Halves -> Stores]
  BY <1>0, <1>1, <1>2 DEF TInv
<1>5. m' = m /\ s' = s /\ m \in Halves /\ s \in Halves /\ s # m /\ Halves = {m, s}
  BY <1>0, SlaveHalf DEF m, s
<1>6. TInv'
  <2>1. owner' \in [Halves -> {"none", "remote", "pull"}]
    BY <1>0, <1>1 DEF TInv
  <2>2. spent' \in [{"restarts", "faults", "stales"} -> Nat]
    BY <1>0, <1>1, <1>2, SpendType
  <2> QED
    BY <1>0, <1>3, <1>4, <2>1, <2>2 DEF TInv
<1>7. WorkOK'
  <2>1. Working(store'[s].rx) => Working(store[s].rx) /\ store'[s].rx.desc = store[s].rx.desc
    BY <1>0, <1>2, <1>4, <1>5
  <2> QED
    BY <1>3, <1>5, <2>1 DEF WorkOK, IInv
<1>8. MasterOK'
  <2>1. CASE h = m
    BY <1>1, <1>2, <1>4, <1>5, <1>0, <2>1 DEF MasterOK, IInv, TInv
  <2>2. CASE h # m
    BY <1>1, <1>4, <1>5, <1>0, <2>2 DEF MasterOK, IInv, TInv
  <2> QED
    BY <2>1, <2>2
<1>9. CASE o.half.saved = H.saved
  <2>1. Keeps(H, o, Saved(Other(h)))
    BY <1>2, <1>9 DEF Keeps
  <2>2. /\ \A k \in Halves : Saved(k)' = Saved(k)
        /\ PairOK' /\ CopiesOK' /\ ReadyOK' /\ ApplyOK'
    BY <1>0, <1>1, <2>1, HalfStep
  <2>3. LinkOK(link)' /\ PushOK(p)' /\ SeenOK' /\ ActiveOK'
    BY <1>0, <1>3, <2>2, Frame, FrameLink DEF IInv
  <2> QED
    BY <1>6, <1>7, <1>8, <2>2, <2>3 DEF IInv
<1>10. CASE o.half.saved # H.saved
  <2> DEFINE r == Saved(Other(h))
  <2>1. H.rx.desc = r /\ r.gen > Saved(h).gen /\ o.half.saved = r /\ ~Working(o.half.rx)
    BY <1>0, <1>2, <1>10, CopyCatchesUp
  <2>2. \A k \in Halves : Saved(k)' = r
    <3>1. Saved(h)' = r
      BY <1>4, <2>1 DEF Saved
    <3>2. Saved(Other(h))' = r
      BY <1>0, <1>4 DEF Saved
    <3> QED
      BY <3>1, <3>2, HalvesOf
  <2>3. r \in Records \cup {NoRecord} /\ r.gen \in Nat
    BY <1>0, Typed
  <2>4. Grows
    <3>1. \A k \in Halves : Saved(k)' = Saved(k) \/ Saved(k).gen < Saved(k)'.gen
      BY <2>1, <2>2, HalvesOf
    <3>2. \A d \in Descs : Accepted(d)'
      BY <1>5, <2>2 DEF Accepted
    <3> QED
      BY <1>0, <2>2, <2>3, <3>1, <3>2 DEF Grows
  <2>5. LinkOK(link)' /\ SeenOK' /\ ActiveOK'
    BY <1>0, <1>3, <2>4, GrowsKeeps
  <2>6. PairOK' /\ ReadyOK'
    BY <2>2, <2>3, HalvesOf DEF PairOK, ReadyOK
  <2>7. CopiesOK'
    <3>1. ASSUME NEW k \in Halves PROVE HalfOK(store'[k], Saved(Other(k))')
      <4>1. CASE k = h
        BY <1>0, <1>2, <1>4, <2>2, <4>1
      <4>2. CASE k # h
        BY <1>4, <2>4, <4>2, GrowsKeeps
      <4> QED
        BY <4>1, <4>2
    <3> QED
      BY <3>1 DEF CopiesOK
  <2>8. ApplyOK'
    <3>1. CASE h = m
      <4>1. a.st = "idle"
        BY <1>2, <3>1 DEF IInv, ApplyOK
      <4> QED
        BY <1>0, <4>1 DEF IInv, ApplyOK
    <3>2. CASE h = s
      <4>1. store'[m] = store[m] /\ Saved(m)' = Saved(m) /\ Saved(s)' = Saved(m)'
        BY <1>4, <1>5, <2>2, <3>2 DEF Saved
      <4> QED
        BY <1>0, <1>5, <4>1 DEF IInv, ApplyOK
    <3> QED
      BY <1>5, <3>1, <3>2
  <2>9. PushOK(p)'
    <3>1. \A k \in Halves : Behind(p.desc, Saved(k)) => Behind(p.desc, Saved(k)')
      BY <1>0, <2>4, GrowsKeeps, Typed
    <3>2. Accepted(p.desc)'
      BY <1>5, <2>2 DEF Accepted
    <3> QED
      BY <1>0, <1>5, <3>1, <3>2 DEF IInv, PushOK
  <2> QED
    BY <1>6, <1>7, <1>8, <2>1, <2>2, <2>5, <2>6, <2>7, <2>8, <2>9 DEF IInv
<1> QED
  BY <1>9, <1>10

--------------------------------------------------------------------------------
\* The master's Apply, and activation.

\* Steps that change neither a saved record nor a copy, only a half's admission.
LEMMA HalfFrame ==
  ASSUME IInv, NEW h \in Halves, NEW K \in Stores,
         K.saved = store[h].saved, K.rx = store[h].rx, HalfOK(K, Saved(Other(h))),
         store' = [store EXCEPT ![h] = K], UNCHANGED <<usb, other, owner, link>>
  PROVE  /\ PairOK' /\ CopiesOK' /\ MasterOK' /\ SeenOK' /\ LinkOK(link)' /\ WorkOK'
         /\ store' \in [Halves -> Stores] /\ store'[h] = K
         /\ \A k \in Halves \ {h} : store'[k] = store[k]
         /\ \A k \in Halves : Saved(k)' = Saved(k)
         /\ \A k \in Halves : Behind(active[k], Saved(Other(k)))
         /\ m' = m /\ s' = s
<1>1. /\ TInv /\ store' \in [Halves -> Stores] /\ store'[h] = K /\ m \in Halves /\ s \in Halves
      /\ \A k \in Halves \ {h} : store'[k] = store[k]
  BY Typed DEF IInv, TInv
<1>2. /\ \A k \in Halves : Saved(k)' = Saved(k) /\ store'[k].rx = store[k].rx
      /\ m' = m /\ s' = s
  BY <1>1 DEF Saved, m, s
<1>3. CopiesOK'
  <2>1. ASSUME NEW k \in Halves PROVE HalfOK(store'[k], Saved(Other(k))')
    <3>1. Saved(Other(k))' = Saved(Other(k))
      BY <1>2, HalvesOf
    <3> QED
      BY <1>1, <3>1 DEF IInv, CopiesOK
  <2> QED
    BY <2>1 DEF CopiesOK
<1>4. MasterOK' /\ WorkOK'
  BY <1>1, <1>2 DEF MasterOK, WorkOK, IInv
<1>5. PairOK' /\ SeenOK' /\ LinkOK(link)'
  BY <1>1, <1>2, Frame DEF IInv
<1> QED
  BY <1>1, <1>2, <1>3, <1>4, <1>5 DEF IInv, ActiveOK

\* Steps that leave the storage alone.
LEMMA StoreFrame ==
  ASSUME IInv, UNCHANGED <<usb, store, other, owner, link>>
  PROVE  /\ PairOK' /\ CopiesOK' /\ MasterOK' /\ SeenOK' /\ LinkOK(link)' /\ WorkOK'
         /\ \A k \in Halves : Saved(k)' = Saved(k) /\ store'[k] = store[k]
         /\ \A k \in Halves : Behind(active[k], Saved(Other(k)))
         /\ m' = m /\ s' = s
<1>1. store' = [store EXCEPT ![m] = store[m]] /\ store[m] \in Stores /\ HalfOK(store[m], Saved(Other(m)))
  BY SlaveHalf DEF IInv, TInv, CopiesOK
<1> QED
  BY <1>1, HalfFrame, SlaveHalf

\* The master is a half.
LEMMA MasterHalf ==
  ASSUME IInv
  PROVE  /\ TInv /\ m \in Halves /\ s \in Halves /\ s # m /\ Other(m) = s /\ Other(s) = m
         /\ Halves = {m, s} /\ Saved(m) = store[m].saved
         /\ store[m] \in Stores /\ HalfOK(store[m], Saved(s))
         /\ Saved(m) \in Records \cup {NoRecord} /\ Saved(m).gen \in Nat /\ Saved(s).gen \in Nat
         /\ p \in Pushes /\ PushOK(p) /\ a \in Applies /\ ApplyOK
BY SlaveHalf, Typed DEF IInv, TInv, CopiesOK, Saved

LEMMA BeginApplyInv == ASSUME IInv, BeginApply PROVE IInv'
<1> DEFINE K == [store[m] EXCEPT !.adm = "host", !.vouched = FALSE]
<1>1. PICK x \in Profiles :
        a' = [NoApply EXCEPT !.st = "preparing",
                             !.cand = [gen |-> store[m].saved.gen + 1, origin |-> m, profile |-> x]]
  BY DEF BeginApply
<1>2. /\ store[m].adm = "none" /\ Saved(m).gen < MaxGen /\ a.st = "idle" /\ MaxGen \in Nat
      /\ UNCHANGED <<usb, active, own, other, owner, link, p, spent>>
  BY Bounds DEF BeginApply, Before, Saved
<1>3. store' = [store EXCEPT ![m] = K]
  BY MasterHalf DEF BeginApply, TInv
<1>4. K \in Stores /\ K.saved = store[m].saved /\ K.rx = store[m].rx /\ K.adm = "host"
  BY MasterHalf DEF Stores
<1>5. HalfOK(K, Saved(s))
  BY <1>2, <1>4, MasterHalf DEF HalfOK
<1> HIDE DEF K
<1>6. /\ PairOK' /\ CopiesOK' /\ MasterOK' /\ SeenOK' /\ LinkOK(link)' /\ WorkOK'
      /\ store' \in [Halves -> Stores] /\ store'[m] = K
      /\ \A k \in Halves : Saved(k)' = Saved(k)
      /\ m' = m /\ s' = s
  BY <1>2, <1>3, <1>4, <1>5, MasterHalf, HalfFrame
<1>7. a' \in Applies /\ a'.st = "preparing" /\ a'.cancel = "no"
      /\ a'.cand \in Records /\ a'.cand.gen = Saved(m).gen + 1 /\ a'.cand.origin = m
  <2> DEFINE c == [gen |-> store[m].saved.gen + 1, origin |-> m, profile |-> x]
  <2>1. c \in Records
    BY <1>2, MasterHalf DEF Records
  <2>2. a' = [st |-> "preparing", cand |-> c, cancel |-> "no"]
    BY <1>1 DEF NoApply
  <2> QED
    BY <2>1, <2>2, MasterHalf DEF Applies
<1>8. TInv'
  BY <1>2, <1>6, <1>7, MasterHalf DEF TInv
<1>9. PushOK(p)' /\ ActiveOK'
  <2>1. ~p.on /\ ~p.authz
    BY <1>2, MasterHalf DEF PushOK
  <2>2. \A d : Accepted(d)' = Accepted(d)
    BY <1>2, <1>6, MasterHalf, Frame
  <2>3. PushOK(p)'
    BY <1>2, <1>6, <1>7, <2>1, <2>2, MasterHalf DEF PushOK
  <2> QED
    BY <1>2, <1>6, <2>3, MasterHalf, Frame DEF IInv
<1>10. ApplyOK'
  BY <1>4, <1>6, <1>7, MasterHalf DEF ApplyOK
<1>11. ReadyOK'
  BY <1>2, <1>6, <1>7, HalvesOf DEF IInv, ReadyOK
<1> QED
  BY <1>6, <1>8, <1>9, <1>10, <1>11 DEF IInv

\* A step of the Apply that leaves the storage alone: what is left to show.
LEMMA ApplyStep ==
  ASSUME IInv, UNCHANGED <<usb, store, active, other, owner, link>>,
         p' \in Pushes, a' \in Applies,
         own' \in [Halves -> {"ready", "recon", "activating", "stopped"}],
         spent' \in [{"restarts", "faults", "stales"} -> Nat],
         PushOK(p)', ApplyOK', ReadyOK'
  PROVE  IInv'
<1>1. /\ PairOK' /\ CopiesOK' /\ MasterOK' /\ SeenOK' /\ LinkOK(link)' /\ WorkOK'
      /\ \A k \in Halves : Saved(k)' = Saved(k)
  BY StoreFrame
<1>2. TInv'
  BY MasterHalf DEF TInv
<1>3. ActiveOK'
  BY <1>1, <1>2, Frame, MasterHalf DEF IInv
<1> QED
  BY <1>1, <1>2, <1>3 DEF IInv

LEMMA StartPushInv == ASSUME IInv, StartPush PROVE IInv'
<1> DEFINE q == [NoPush EXCEPT !.st = "push_begin", !.desc = a.cand, !.on = TRUE]
           b == [a EXCEPT !.st = "pushing"]
<1>1. /\ p' = q /\ a' = b /\ a.st = "preparing"
      /\ UNCHANGED <<usb, store, active, own, other, owner, link, spent>>
  BY DEF StartPush, Before
<1>2. q \in Pushes /\ q.st = "push_begin" /\ q.on /\ ~q.authz
  BY MasterHalf DEF NoPush, Pushes, Applies, Descs, PushStates, Results
<1>3. b \in Applies /\ b.st = "pushing" /\ b.cand = a.cand /\ b.cancel = a.cancel
  BY MasterHalf DEF Applies
<1> HIDE DEF q, b
<1>4. /\ \A k \in Halves : Saved(k)' = Saved(k) /\ store'[k] = store[k]
      /\ m' = m /\ s' = s
  BY <1>1, StoreFrame
<1>5. PushOK(p)'
  BY <1>1, <1>2, <1>3 DEF PushOK, PullStates
<1>6. ApplyOK'
  BY <1>1, <1>3, <1>4, MasterHalf DEF ApplyOK
<1>7. ReadyOK'
  BY <1>1, <1>3, <1>4, HalvesOf DEF IInv, ReadyOK
<1> QED
  BY <1>1, <1>2, <1>3, <1>5, <1>6, <1>7, ApplyStep DEF IInv, TInv

\* What becomes of a push whose Apply is given up.
LEMMA WithdrawnOK ==
  ASSUME IInv, a.st \in {"pushing", "committing"}
  PROVE  LET q == Clean(Withdrawn(p))
         IN  /\ q \in Pushes /\ ~q.authz
             /\ q.st \in {"push_abort", "discover"}
<1> DEFINE w == Withdrawn(p)
<1>1. /\ w \in Pushes /\ w.st \in {"push_abort", "discover"} /\ ~w.authz
  <2>1. p \in Pushes /\ ~p.authz
    BY MasterHalf DEF PushOK
  <2>2. CASE p.st = "push_abort"
    BY <2>1, <2>2 DEF Withdrawn
  <2>3. CASE p.st # "push_abort" /\ ~p.started
    BY <2>1, <2>3 DEF Withdrawn, Cleared, Pushes, Idle
  <2>4. CASE p.st # "push_abort" /\ p.started
    <3>1. w = [p EXCEPT !.st = "push_abort", !.why = "none"]
      BY <2>4 DEF Withdrawn
    <3>2. w.authz = p.authz /\ w.st = "push_abort" /\ w \in Pushes
      BY <2>1, <3>1 DEF Pushes, PushStates
    <3> QED
      BY <2>1, <3>2
  <2> QED
    BY <2>2, <2>3, <2>4
<1> HIDE DEF w
<1> QED
  BY <1>1 DEF Clean, Pushes, Descs, w

LEMMA RequestCancelInv == ASSUME IInv, RequestCancel PROVE IInv'
<1>1. /\ a.st \in {"preparing", "pushing"} /\ a' = [a EXCEPT !.cancel = "soft"]
      /\ p' = IF a.st = "pushing" THEN Clean(Withdrawn(p)) ELSE p
      /\ UNCHANGED <<usb, store, active, own, other, owner, link, spent>>
  BY DEF RequestCancel, Before
<1>2. a' \in Applies /\ a'.st = a.st /\ a'.cand = a.cand
  BY <1>1, MasterHalf DEF Applies
<1>3. /\ \A k \in Halves : Saved(k)' = Saved(k) /\ store'[k] = store[k]
      /\ m' = m /\ s' = s
  BY <1>1, StoreFrame
<1>4. p' \in Pushes /\ PushOK(p)'
  <2>1. CASE a.st = "pushing"
    <3>1. p' \in Pushes /\ p'.st \in {"push_abort", "discover"} /\ ~p'.authz
      BY <1>1, <2>1, WithdrawnOK
    <3>2. p'.st = "push_abort" => p'.on
      <4>1. p.on
        BY <2>1 DEF RequestCancel
      <4> QED
        BY <1>1, <2>1, <4>1, MasterHalf DEF Clean, Withdrawn, Cleared, Pushes
    <3> QED
      BY <1>2, <2>1, <3>1, <3>2 DEF PushOK, PushStates, PullStates
  <2>2. CASE a.st # "pushing"
    <3>1. \A d : Accepted(d)' = Accepted(d)
      BY <1>1, <1>3, MasterHalf, Frame
    <3> QED
      BY <1>1, <1>2, <1>3, <2>2, <3>1, MasterHalf DEF PushOK
  <2> QED
    BY <2>1, <2>2
<1>5. ApplyOK'
  BY <1>1, <1>2, <1>3, MasterHalf DEF ApplyOK
<1>6. ReadyOK'
  BY <1>1, <1>2, <1>3, HalvesOf DEF IInv, ReadyOK
<1> QED
  BY <1>1, <1>2, <1>4, <1>5, <1>6, MasterHalf, ApplyStep DEF TInv

LEMMA FinishCancelInv == ASSUME IInv, FinishCancel PROVE IInv'
<1> DEFINE K == [store[m] EXCEPT !.adm = "none", !.vouched = FALSE]
<1>1. /\ a' = NoApply /\ a.cancel # "no" /\ ~p.on
      /\ own' = [own EXCEPT ![m] = IF a.cancel = "storage" THEN "stopped" ELSE @]
      /\ UNCHANGED <<usb, active, other, owner, link, p, spent>>
  BY DEF FinishCancel
<1>2. store' = [store EXCEPT ![m] = K]
  BY MasterHalf DEF FinishCancel, TInv
<1>3. K \in Stores /\ K.saved = store[m].saved /\ K.rx = store[m].rx
  BY MasterHalf DEF Stores
<1>4. a.st \in {"preparing", "pushing"} /\ store[m].adm = "host"
  BY <1>1, MasterHalf DEF ApplyOK
<1>5. HalfOK(K, Saved(s))
  BY <1>3, <1>4, MasterHalf DEF HalfOK
<1> HIDE DEF K
<1>6. /\ PairOK' /\ CopiesOK' /\ MasterOK' /\ SeenOK' /\ LinkOK(link)' /\ WorkOK'
      /\ store' \in [Halves -> Stores]
      /\ \A k \in Halves : Saved(k)' = Saved(k)
      /\ m' = m /\ s' = s
  BY <1>1, <1>2, <1>3, <1>5, MasterHalf, HalfFrame
<1>7. a' \in Applies /\ a'.st = "idle" /\ a'.cancel = "no"
  BY <1>1 DEF NoApply, Applies
<1>8. own' \in [Halves -> {"ready", "recon", "activating", "stopped"}]
      /\ \A k \in Halves : own'[k] = "ready" => own[k] = "ready"
  BY <1>1, MasterHalf DEF TInv
<1>9. TInv'
  BY <1>1, <1>6, <1>7, <1>8, MasterHalf DEF TInv
<1>10. PushOK(p)' /\ ActiveOK'
  <2>1. \A d : Accepted(d)' = Accepted(d)
    BY <1>1, <1>6, MasterHalf, Frame
  <2>2. PushOK(p)'
    BY <1>1, <1>6, <1>7, <2>1, MasterHalf DEF PushOK
  <2> QED
    BY <1>1, <1>6, <2>2, MasterHalf, Frame DEF IInv
<1>11. ApplyOK'
  BY <1>7 DEF ApplyOK
<1>12. ReadyOK'
  BY <1>4, <1>6, <1>8, HalvesOf DEF IInv, ReadyOK
<1> QED
  BY <1>6, <1>9, <1>10, <1>11, <1>12 DEF IInv

LEMMA FailCancelInv == ASSUME IInv, FailCancel PROVE IInv'
<1>1. /\ own' = [own EXCEPT ![m] = "stopped"] /\ Spend("faults", 1, MaxFaults)
      /\ UNCHANGED <<usb, store, active, other, owner, link, p, a>>
  BY DEF FailCancel
<1>2. /\ \A k \in Halves : Saved(k)' = Saved(k) /\ store'[k] = store[k]
      /\ m' = m /\ s' = s
  BY <1>1, StoreFrame
<1>3. own' \in [Halves -> {"ready", "recon", "activating", "stopped"}]
      /\ \A k \in Halves : own'[k] = "ready" => own[k] = "ready"
  BY <1>1, MasterHalf DEF TInv
<1>4. spent' \in [{"restarts", "faults", "stales"} -> Nat]
  BY <1>1, MasterHalf, SpendType
<1>5. PushOK(p)'
  BY <1>1, <1>2, MasterHalf, FrameLink
<1>6. ApplyOK'
  BY <1>1, <1>2, MasterHalf DEF ApplyOK
<1>7. ReadyOK'
  BY <1>1, <1>2, <1>3, HalvesOf DEF IInv, ReadyOK
<1> QED
  BY <1>1, <1>3, <1>4, <1>5, <1>6, <1>7, MasterHalf, ApplyStep

LEMMA DecideInv == ASSUME IInv, Decide PROVE IInv'
<1>1. /\ own[m] = "ready" /\ a.st = "pushing" /\ a.cancel = "no" /\ a' = [a EXCEPT !.st = "committing"]
      /\ p.on /\ p.st = "push_prepared" /\ p.desc = a.cand
      /\ UNCHANGED <<usb, store, active, own, other, owner, link, p, spent>>
  BY DEF Decide, Before, Ready
<1>2. a' \in Applies /\ a'.st = "committing" /\ a'.cand = a.cand /\ a'.cancel = "no"
  BY <1>1, MasterHalf DEF Applies
<1>3. /\ \A k \in Halves : Saved(k)' = Saved(k) /\ store'[k] = store[k]
      /\ m' = m /\ s' = s
  BY <1>1, StoreFrame
<1>4. a.cand \in Records /\ a.cand.gen = Saved(m).gen + 1 /\ a.cand.origin = m
  BY <1>1, MasterHalf DEF ApplyOK
<1>5. Saved(s) = Saved(m)
  <2>1. Saved(m).gen <= Saved(s).gen
    BY <1>1, MasterHalf DEF IInv, ReadyOK
  <2>2. Saved(s).gen < a.cand.gen
    BY <1>1, <1>4, MasterHalf DEF PushOK, Accepted
  <2> QED
    BY <1>4, <2>1, <2>2, MasterHalf DEF IInv, PairOK
<1>6. PushOK(p)'
  <2>1. \A d : Accepted(d)' = Accepted(d)
    BY <1>1, <1>3, MasterHalf, Frame
  <2> QED
    BY <1>1, <1>2, <1>3, <2>1, MasterHalf DEF PushOK
<1>7. ApplyOK'
  BY <1>1, <1>2, <1>3, <1>4, <1>5, MasterHalf DEF ApplyOK
<1>8. ReadyOK'
  BY <1>1, <1>2, <1>3, HalvesOf DEF IInv, ReadyOK
<1> QED
  BY <1>1, <1>2, <1>6, <1>7, <1>8, MasterHalf, ApplyStep DEF TInv

\* The Apply's commit saves the candidate on the master, and nothing else.
LEMMA CommitInv ==
  ASSUME IInv, Commit
  PROVE  /\ IInv'
         /\ Saved(s) = Saved(m) /\ a.cand \in Records
         /\ a.cand.gen = Saved(m).gen + 1 /\ a.cand.origin = m
         /\ Saved(m)' = a.cand /\ \A k \in Halves \ {m} : Saved(k)' = Saved(k)
<1> DEFINE K == [store[m] EXCEPT !.saved = a.cand, !.vouched = TRUE]
           r == a.cand
<1>1. /\ a.st = "committing" /\ a.cancel = "no" /\ a' = [a EXCEPT !.st = "decided"]
      /\ UNCHANGED <<usb, active, own, other, owner, link, p, spent>>
  BY DEF Commit, Before
<1>2. store' = [store EXCEPT ![m] = K]
  BY MasterHalf DEF Commit, TInv
<1>3. /\ r \in Records /\ r.gen = Saved(m).gen + 1 /\ r.origin = m /\ Saved(s) = Saved(m)
      /\ store[m].adm = "host" /\ p.on /\ p.st = "push_prepared" /\ p.desc = r
  BY <1>1, MasterHalf DEF ApplyOK, PushOK
<1>4. K \in Stores /\ K.saved = r /\ K.rx = store[m].rx /\ K.adm = "host"
  BY <1>3, MasterHalf DEF Stores
<1> HIDE DEF K
<1>5. /\ store'[m] = K /\ store'[s] = store[s] /\ store' \in [Halves -> Stores]
      /\ m' = m /\ s' = s
  BY <1>1, <1>2, <1>4, MasterHalf DEF TInv, m, s
<1>6. /\ Saved(m)' = r /\ Saved(s)' = Saved(s)
      /\ \A k \in Halves \ {m} : Saved(k)' = Saved(k)
  BY <1>4, <1>5, MasterHalf DEF Saved
<1>7. Grows
  <2>1. \A k \in Halves : Saved(k)' = Saved(k) \/ Saved(k).gen < Saved(k)'.gen
    BY <1>3, <1>5, <1>6, MasterHalf
  <2>2. \A k \in Halves : Saved(k)' \in Records \cup {NoRecord}
    BY <1>3, <1>5, <1>6, MasterHalf, Typed
  <2>3. ASSUME NEW d \in Descs, Accepted(d) PROVE Accepted(d)'
    <3>1. d.gen \in Nat
      BY Gens
    <3> QED
      BY <1>3, <1>5, <1>6, <2>3, <3>1, MasterHalf DEF Accepted
  <2> QED
    BY <1>1, <2>1, <2>2, <2>3 DEF Grows
<1>8. LinkOK(link)' /\ SeenOK' /\ ActiveOK'
  BY <1>1, <1>7, GrowsKeeps, SlaveHalf
<1>9. a' \in Applies /\ a'.st = "decided" /\ a'.cand = r /\ a'.cancel = "no"
  BY <1>1, MasterHalf DEF Applies
<1>10. TInv'
  BY <1>1, <1>5, <1>9, MasterHalf DEF TInv
<1>11. PairOK'
  BY <1>3, <1>5, <1>6, MasterHalf DEF PairOK
<1>12. CopiesOK'
  <2>1. HalfOK(K, Saved(s)')
    <3>1. K.rx.desc \in Descs /\ ~Holds(K.rx)
      BY <1>3, <1>4, MasterHalf DEF Stores, Copies, HalfOK
    <3>2. Behind(K.rx.desc, Saved(m)) => Behind(K.rx.desc, r)
      BY <1>6, <1>7, <3>1, GrowsKeeps, MasterHalf
    <3> QED
      BY <1>3, <1>4, <1>6, <3>1, <3>2, MasterHalf DEF HalfOK
  <2>2. HalfOK(store'[s], Saved(m)')
    BY <1>5, <1>7, GrowsKeeps, MasterHalf
  <2> QED
    BY <1>5, <2>1, <2>2, MasterHalf DEF CopiesOK
<1>13. MasterOK' /\ WorkOK'
  BY <1>1, <1>4, <1>5 DEF MasterOK, WorkOK, IInv
<1>14. PushOK(p)'
  <2>1. ~p.authz
    BY <1>1, MasterHalf DEF PushOK
  <2>2. Accepted(p.desc)'
    <3>1. ~(p.desc.gen > Saved(m)'.gen)
      BY <1>3, <1>6, MasterHalf
    <3> QED
      BY <1>1, <3>1 DEF Accepted
  <2> QED
    BY <1>1, <1>3, <1>9, <2>1, <2>2, MasterHalf DEF PushOK, PushStates, PullStates
<1>15. ApplyOK'
  BY <1>4, <1>5, <1>6, <1>9, MasterHalf DEF ApplyOK
<1>16. ReadyOK'
  <2>1. Saved(s)'.gen <= Saved(m)'.gen
    BY <1>3, <1>6, MasterHalf
  <2> QED
    BY <1>5, <1>9, <2>1, MasterHalf DEF ReadyOK
<1> QED
  BY <1>3, <1>6, <1>8, <1>10, <1>11, <1>12, <1>13, <1>14, <1>15, <1>16 DEF IInv

LEMMA CommitFailsInv == ASSUME IInv, CommitFails PROVE IInv'
<1>1. /\ a.st = "committing" /\ a' = [a EXCEPT !.st = "pushing", !.cancel = "storage"]
      /\ Spend("faults", 1, MaxFaults) /\ p' = Clean(Withdrawn(p))
      /\ UNCHANGED <<usb, store, active, own, other, owner, link>>
  BY DEF CommitFails, Before
<1>2. a' \in Applies /\ a'.st = "pushing" /\ a'.cand = a.cand
  BY <1>1, MasterHalf DEF Applies
<1>3. /\ \A k \in Halves : Saved(k)' = Saved(k) /\ store'[k] = store[k]
      /\ m' = m /\ s' = s
  BY <1>1, StoreFrame
<1>4. p' \in Pushes /\ PushOK(p)'
  <2>1. p' \in Pushes /\ p'.st \in {"push_abort", "discover"} /\ ~p'.authz
    BY <1>1, WithdrawnOK
  <2>2. p'.st = "push_abort" => p'.on
    <3>1. p.on
      BY <1>1, MasterHalf DEF PushOK
    <3> QED
      BY <1>1, <3>1, MasterHalf DEF Clean, Withdrawn, Cleared, Pushes
  <2> QED
    BY <1>2, <2>1, <2>2 DEF PushOK, PushStates, PullStates
<1>5. ApplyOK'
  BY <1>1, <1>2, <1>3, MasterHalf DEF ApplyOK
<1>6. ReadyOK'
  BY <1>1, <1>2, <1>3, HalvesOf DEF IInv, ReadyOK
<1>7. spent' \in [{"restarts", "faults", "stales"} -> Nat]
  BY <1>1, MasterHalf, SpendType
<1> QED
  BY <1>1, <1>2, <1>4, <1>5, <1>6, <1>7, MasterHalf, ApplyStep DEF TInv

LEMMA CommitUnknownInv == ASSUME IInv, CommitUnknown PROVE IInv'
<1>1. /\ a.st = "committing" /\ a.cancel = "no" /\ a' = [a EXCEPT !.st = "unknown"]
      /\ own' = [own EXCEPT ![m] = "stopped"] /\ Spend("faults", 1, MaxFaults)
      /\ UNCHANGED <<usb, store, active, other, owner, link, p>>
  BY DEF CommitUnknown, Before
<1>2. a' \in Applies /\ a'.st = "unknown" /\ a'.cand = a.cand /\ a'.cancel = "no"
  BY <1>1, MasterHalf DEF Applies
<1>3. /\ \A k \in Halves : Saved(k)' = Saved(k) /\ store'[k] = store[k]
      /\ m' = m /\ s' = s
  BY <1>1, StoreFrame
<1>4. own' \in [Halves -> {"ready", "recon", "activating", "stopped"}]
      /\ \A k \in Halves : own'[k] = "ready" => own[k] = "ready" /\ k # m
  BY <1>1, MasterHalf DEF TInv
<1>5. spent' \in [{"restarts", "faults", "stales"} -> Nat]
  BY <1>1, MasterHalf, SpendType
<1>6. PushOK(p)'
  <2>1. \A d : Accepted(d)' = Accepted(d)
    BY <1>1, <1>3, MasterHalf, Frame
  <2> QED
    BY <1>1, <1>2, <1>3, <2>1, MasterHalf DEF PushOK
<1>7. ApplyOK'
  BY <1>1, <1>2, <1>3, MasterHalf DEF ApplyOK
<1>8. ReadyOK'
  BY <1>1, <1>3, <1>4, HalvesOf DEF IInv, ReadyOK
<1> QED
  BY <1>1, <1>2, <1>4, <1>5, <1>6, <1>7, <1>8, MasterHalf, ApplyStep

LEMMA AuthorizeInv == ASSUME IInv, Authorize PROVE IInv'
<1>1. /\ a.st = "decided" /\ a.cancel = "no" /\ a' = [a EXCEPT !.st = "converging"]
      /\ p' = [p EXCEPT !.authz = TRUE, !.st = "push_commit"]
      /\ UNCHANGED <<usb, store, active, own, other, owner, link, spent>>
  BY DEF Authorize, Before
<1>2. a' \in Applies /\ a'.st = "converging" /\ a'.cand = a.cand /\ a'.cancel = "no"
  BY <1>1, MasterHalf DEF Applies
<1>3. /\ \A k \in Halves : Saved(k)' = Saved(k) /\ store'[k] = store[k]
      /\ m' = m /\ s' = s
  BY <1>1, StoreFrame
<1>4. p' \in Pushes /\ p'.st = "push_commit" /\ p'.authz /\ p'.on = p.on /\ p'.desc = p.desc
  BY <1>1, MasterHalf DEF Pushes, PushStates
<1>5. p.on /\ Behind(p.desc, Saved(m))
  BY <1>1, MasterHalf DEF PushOK, ApplyOK, Behind
<1>6. PushOK(p)'
  BY <1>2, <1>3, <1>4, <1>5, MasterHalf DEF PushOK, PullStates
<1>7. ApplyOK'
  BY <1>1, <1>2, <1>3, MasterHalf DEF ApplyOK
<1>8. ReadyOK'
  BY <1>1, <1>2, <1>3, HalvesOf DEF IInv, ReadyOK
<1> QED
  BY <1>1, <1>2, <1>4, <1>6, <1>7, <1>8, MasterHalf, ApplyStep DEF TInv

\* A half that saw the other hold its own saved record is not ahead of it.
LEMMA SettledBehind ==
  ASSUME IInv, NEW h \in Halves, Settled(h)
  PROVE  Behind(Saved(h), Saved(Other(h))) /\ Saved(h).gen <= Saved(Other(h)).gen
<1>1. other[h] = Saved(h) /\ Saved(h) # Unreadable
  BY Readables, Typed DEF Settled, Saved, IInv
<1>2. Behind(Saved(h), Saved(Other(h)))
  BY <1>1 DEF IInv, SeenOK
<1> QED
  BY <1>2, Typed, HalvesOf DEF IInv, Behind

LEMMA ConfirmInv == ASSUME IInv, Confirm PROVE IInv'
<1>1. /\ a.st = "converging" /\ a.cancel = "no" /\ a' = [a EXCEPT !.st = "activating"]
      /\ Settled(m)
      /\ UNCHANGED <<usb, store, active, own, other, owner, link, p, spent>>
  BY DEF Confirm, Before
<1>2. a' \in Applies /\ a'.st = "activating" /\ a'.cancel = "no"
  BY <1>1, MasterHalf DEF Applies
<1>3. /\ \A k \in Halves : Saved(k)' = Saved(k) /\ store'[k] = store[k]
      /\ m' = m /\ s' = s
  BY <1>1, StoreFrame
<1>4. ~p.on /\ ~p.authz
  BY <1>1, MasterHalf DEF Settled, Pending, PushOK
<1>5. PushOK(p)'
  <2>1. \A d : Accepted(d)' = Accepted(d)
    BY <1>1, <1>3, MasterHalf, Frame
  <2> QED
    BY <1>1, <1>2, <1>3, <1>4, <2>1, MasterHalf DEF PushOK
<1>6. ApplyOK'
  BY <1>1, <1>2, <1>3, MasterHalf DEF ApplyOK
<1>7. ReadyOK'
  <2>1. Saved(m).gen <= Saved(s).gen
    BY <1>1, MasterHalf, SettledBehind
  <2> QED
    BY <1>1, <1>3, <2>1, MasterHalf DEF IInv, ReadyOK
<1> QED
  BY <1>1, <1>2, <1>5, <1>6, <1>7, MasterHalf, ApplyStep DEF TInv

\* An owner that stops waits for the next boot.
LEMMA StopsInv ==
  ASSUME IInv, NEW h \in Halves, NEW st \in {"stopped", "activating"},
         own' = [own EXCEPT ![h] = st],
         UNCHANGED <<usb, store, active, other, owner, link, p, a, spent>>
  PROVE  IInv'
<1>1. /\ \A k \in Halves : Saved(k)' = Saved(k) /\ store'[k] = store[k]
      /\ m' = m /\ s' = s
  BY StoreFrame
<1>2. own' \in [Halves -> {"ready", "recon", "activating", "stopped"}]
      /\ \A k \in Halves : own'[k] = "ready" => own[k] = "ready"
  BY MasterHalf DEF TInv
<1>3. PushOK(p)'
  BY <1>1, MasterHalf, FrameLink
<1>4. ApplyOK'
  BY <1>1, MasterHalf DEF ApplyOK
<1>5. ReadyOK'
  BY <1>1, <1>2, HalvesOf DEF IInv, ReadyOK
<1> QED
  BY <1>2, <1>3, <1>4, <1>5, MasterHalf, ApplyStep DEF TInv

LEMMA AuthorityLostInv == ASSUME IInv, AuthorityLost PROVE IInv'
BY StopsInv, MasterHalf DEF AuthorityLost

LEMMA BootConvergedInv == ASSUME IInv, NEW h \in Halves, BootConverged(h) PROVE IInv'
BY StopsInv DEF BootConverged

LEMMA BootFailsInv == ASSUME IInv, NEW h \in Halves, BootFails(h) PROVE IInv'
BY StopsInv DEF BootFails

\* A half may activate its saved record once the other holds no older one.
LEMMA Activates ==
  ASSUME IInv, NEW h \in Halves, Behind(Saved(h), Saved(Other(h))),
         active' = [active EXCEPT ![h] = store[h].saved],
         \A k \in Halves : Saved(k)' = Saved(k)
  PROVE  ActiveOK' /\ active' \in [Halves -> Records \cup {NoRecord}]
<1>1. \A k \in Halves : Behind(active'[k], Saved(Other(k)))
  BY MasterHalf DEF IInv, ActiveOK, TInv, Saved
<1>2. active' \in [Halves -> Records \cup {NoRecord}]
  BY MasterHalf, Typed DEF TInv, Saved
<1> QED
  BY <1>1, <1>2, HalvesOf DEF ActiveOK

LEMMA ActivateApplyInv == ASSUME IInv, ActivateApply PROVE IInv'
<1> DEFINE K == [store[m] EXCEPT !.adm = "none"]
<1>1. /\ own[m] = "ready" /\ a.st = "activating" /\ a' = NoApply
      /\ active' = [active EXCEPT ![m] = store[m].saved]
      /\ UNCHANGED <<usb, own, other, owner, link, p, spent>>
  BY DEF ActivateApply, Before, Ready
<1>2. store' = [store EXCEPT ![m] = K]
  BY MasterHalf DEF ActivateApply, TInv
<1>3. K \in Stores /\ K.saved = store[m].saved /\ K.rx = store[m].rx
  BY MasterHalf DEF Stores
<1>4. store[m].adm = "host" /\ ~p.on /\ ~p.authz
  BY <1>1, MasterHalf DEF ApplyOK, PushOK
<1>5. HalfOK(K, Saved(s))
  BY <1>3, <1>4, MasterHalf DEF HalfOK
<1> HIDE DEF K
<1>6. /\ PairOK' /\ CopiesOK' /\ MasterOK' /\ SeenOK' /\ LinkOK(link)' /\ WorkOK'
      /\ store' \in [Halves -> Stores]
      /\ \A k \in Halves : Saved(k)' = Saved(k)
      /\ m' = m /\ s' = s
  BY <1>1, <1>2, <1>3, <1>5, MasterHalf, HalfFrame
<1>7. a' \in Applies /\ a'.st = "idle" /\ a'.cancel = "no"
  BY <1>1 DEF NoApply, Applies
<1>8. Behind(Saved(m), Saved(s))
  <2>1. Saved(m).gen <= Saved(s).gen
    BY <1>1, MasterHalf DEF IInv, ReadyOK
  <2> QED
    BY <2>1, MasterHalf DEF IInv, PairOK, Behind
<1>9. ActiveOK' /\ active' \in [Halves -> Records \cup {NoRecord}]
  BY <1>1, <1>6, <1>8, MasterHalf, Activates
<1>10. TInv'
  BY <1>1, <1>6, <1>7, <1>9, MasterHalf DEF TInv
<1>11. PushOK(p)'
  <2>1. \A d : Accepted(d)' = Accepted(d)
    BY <1>1, <1>6, MasterHalf, Frame
  <2> QED
    BY <1>1, <1>4, <1>6, <1>7, <2>1, MasterHalf DEF PushOK
<1>12. ApplyOK'
  BY <1>7 DEF ApplyOK
<1>13. ReadyOK'
  BY <1>1, <1>6, HalvesOf DEF IInv, ReadyOK
<1> QED
  BY <1>6, <1>9, <1>10, <1>11, <1>12, <1>13 DEF IInv

LEMMA ActivateCopyInv == ASSUME IInv, NEW h \in Halves, ActivateCopy(h) PROVE IInv'
<1> DEFINE K == [store[h] EXCEPT !.adm = "none"]
<1>1. /\ store[h].rx.st = "committed" /\ store[h].adm = "peer" /\ Settled(h)
      /\ own' = [own EXCEPT ![h] = "ready"]
      /\ active' = [active EXCEPT ![h] = store[h].saved]
      /\ UNCHANGED <<usb, other, owner, link, p, a, spent>>
  BY DEF ActivateCopy
<1>2. store' = [store EXCEPT ![h] = K]
  BY MasterHalf DEF ActivateCopy, TInv
<1>3. K \in Stores /\ K.saved = store[h].saved /\ K.rx = store[h].rx
  BY MasterHalf DEF TInv, Stores
<1>4. HalfOK(K, Saved(Other(h)))
  BY <1>1, <1>3 DEF IInv, CopiesOK, HalfOK, Holds, Working
<1> HIDE DEF K
<1>5. /\ PairOK' /\ CopiesOK' /\ MasterOK' /\ SeenOK' /\ LinkOK(link)' /\ WorkOK'
      /\ store' \in [Halves -> Stores]
      /\ \A k \in Halves \ {h} : store'[k] = store[k]
      /\ \A k \in Halves : Saved(k)' = Saved(k)
      /\ m' = m /\ s' = s
  BY <1>1, <1>2, <1>3, <1>4, HalfFrame
<1>6. Behind(Saved(h), Saved(Other(h))) /\ Saved(h).gen <= Saved(Other(h)).gen
  BY <1>1, SettledBehind
<1>7. ActiveOK' /\ active' \in [Halves -> Records \cup {NoRecord}]
  BY <1>1, <1>5, <1>6, Activates
<1>8. own' \in [Halves -> {"ready", "recon", "activating", "stopped"}]
      /\ \A k \in Halves \ {h} : own'[k] = own[k]
  BY <1>1, MasterHalf DEF TInv
<1>9. TInv'
  BY <1>1, <1>5, <1>7, <1>8, MasterHalf DEF TInv
<1>10. PushOK(p)'
  BY <1>1, <1>5, MasterHalf, FrameLink
<1>11. ApplyOK'
  <2>1. CASE h = m
    <3>1. a.st = "idle"
      BY <1>1, <2>1, MasterHalf DEF ApplyOK
    <3> QED
      BY <1>1, <3>1, MasterHalf DEF ApplyOK
  <2>2. CASE h # m
    BY <1>1, <1>5, <2>2, MasterHalf DEF ApplyOK
  <2> QED
    BY <2>1, <2>2
<1>12. ReadyOK'
  BY <1>1, <1>5, <1>6, <1>8, HalvesOf DEF IInv, ReadyOK
<1> QED
  BY <1>5, <1>7, <1>9, <1>10, <1>11, <1>12 DEF IInv

LEMMA BootActivateInv == ASSUME IInv, NEW h \in Halves, BootActivate(h) PROVE IInv'
<1>1. /\ Settled(h) /\ own' = [own EXCEPT ![h] = "ready"]
      /\ active' = [active EXCEPT ![h] = store[h].saved]
      /\ UNCHANGED <<usb, store, other, owner, link, p, a, spent>>
  BY DEF BootActivate
<1>2. /\ PairOK' /\ CopiesOK' /\ MasterOK' /\ SeenOK' /\ LinkOK(link)' /\ WorkOK'
      /\ \A k \in Halves : Saved(k)' = Saved(k) /\ store'[k] = store[k]
      /\ m' = m /\ s' = s
  BY <1>1, StoreFrame
<1>3. Behind(Saved(h), Saved(Other(h))) /\ Saved(h).gen <= Saved(Other(h)).gen
  BY <1>1, SettledBehind
<1>4. ActiveOK' /\ active' \in [Halves -> Records \cup {NoRecord}]
  BY <1>1, <1>2, <1>3, Activates
<1>5. own' \in [Halves -> {"ready", "recon", "activating", "stopped"}]
      /\ \A k \in Halves \ {h} : own'[k] = own[k]
  BY <1>1, MasterHalf DEF TInv
<1>6. TInv'
  BY <1>1, <1>2, <1>4, <1>5, MasterHalf DEF TInv
<1>7. PushOK(p)' /\ ApplyOK'
  BY <1>1, <1>2, MasterHalf, FrameLink DEF ApplyOK
<1>8. ReadyOK'
  BY <1>1, <1>2, <1>3, <1>5, HalvesOf DEF IInv, ReadyOK
<1> QED
  BY <1>2, <1>4, <1>6, <1>7, <1>8 DEF IInv

--------------------------------------------------------------------------------
\* Power.

\* How a half's saved record moves: not at all, to the newer record the other
\* half holds, or, on the master while both agree, to the next generation.
Moves(h, r) ==
  \/ r = Saved(h)
  \/ Saved(Other(h)).gen > Saved(h).gen /\ r = Saved(Other(h))
  \/ /\ h = m /\ Saved(s) = Saved(m)
     /\ r \in Records /\ r.gen = Saved(m).gen + 1 /\ r.origin = m

\* A half that loses power has its saved record, or the one whose commit it was
\* writing.
LEMMA SurvivesOK ==
  ASSUME IInv, NEW h \in Halves, NEW r \in Survives(h)
  PROVE  Moves(h, r) /\ r \in Records \cup {NoRecord} /\ Booted(r) \in Stores
<1>0. Other(h) \in Halves /\ store[h] \in Stores /\ store[h].rx \in Copies /\ Saved(h) = store[h].saved
  BY MasterHalf, HalvesOf DEF TInv, Stores, Saved
<1>1. Moves(h, r) /\ r \in Records \cup {NoRecord}
  <2>1. CASE r = Saved(h)
    BY <1>0, <2>1, MasterHalf, Typed DEF Moves
  <2>2. CASE r = store[h].rx.desc /\ store[h].rx.st \in {"committing", "reconcile"}
    <3>1. HalfOK(store[h], Saved(Other(h)))
      BY DEF IInv, CopiesOK
    <3>2. r.gen > Saved(h).gen /\ Behind(r, Saved(Other(h))) /\ r \in Descs
      BY <1>0, <2>2, <3>1 DEF HalfOK, Holds, Working, Copies
    <3>3. r = Saved(Other(h)) /\ Saved(Other(h)).gen > Saved(h).gen
      BY <3>2, CopyCatchesUp
    <3> QED
      BY <1>0, <3>3, MasterHalf, Typed DEF Moves
  <2>3. CASE h = m /\ a.st \in {"committing", "unknown"} /\ r = a.cand
    BY <2>3, MasterHalf DEF ApplyOK, Moves
  <2> QED
    BY <1>0, <2>1, <2>2, <2>3 DEF Survives
<1>2. Booted(r) \in Stores
  BY <1>1 DEF Booted, NoCopy, Stores, Copies, RxStates, Whys, Descs
<1> QED
  BY <1>1, <1>2

\* The two records stay a pair whichever of them moved.
LEMMA MovesPair ==
  ASSUME IInv, NEW h \in Halves, NEW r \in Records \cup {NoRecord}, Moves(h, r),
         Saved(h)' = r, \A k \in Halves \ {h} : Saved(k)' = Saved(k)
  PROVE  PairOK' /\ (UNCHANGED usb => Grows)
<1>1. /\ Other(h) \in Halves /\ Other(h) # h /\ Other(Other(h)) = h /\ Halves = {h, Other(h)}
      /\ Saved(h).gen \in Nat /\ Saved(Other(h)).gen \in Nat /\ r.gen \in Nat
  BY HalvesOf, MasterHalf, Typed, Gens DEF Descs
<1>2. Saved(Other(h))' = Saved(Other(h))
  BY <1>1
<1>3. PairOK'
  <2>1. \A k \in Halves : k = h \/ k = Other(h)
    BY <1>1
  <2>2. /\ r.gen = Saved(Other(h)).gen => r = Saved(Other(h))
        /\ r.gen > Saved(Other(h)).gen => r.gen = Saved(Other(h)).gen + 1 /\ r.origin = h
        /\ Saved(Other(h)).gen > r.gen =>
             Saved(Other(h)).gen = r.gen + 1 /\ Saved(Other(h)).origin = Other(h)
    BY <1>1, MasterHalf DEF Moves, IInv, PairOK
  <2> QED
    BY <1>1, <1>2, <2>1, <2>2 DEF PairOK
<1>4. ASSUME UNCHANGED usb PROVE Grows
  <2>1. m' = m /\ s' = s
    BY <1>4 DEF m, s
  <2>2. \A k \in Halves : /\ Saved(k)' \in Records \cup {NoRecord}
                          /\ Saved(k)' = Saved(k) \/ Saved(k).gen < Saved(k)'.gen
    <3>1. r = Saved(h) \/ Saved(h).gen < r.gen
      BY <1>1, MasterHalf DEF Moves
    <3> QED
      BY <1>1, <3>1, MasterHalf, Typed
  <2>3. ASSUME NEW d \in Descs, Accepted(d) PROVE Accepted(d)'
    <3>1. d.gen \in Nat
      BY Gens
    <3>2. CASE h = m
      <4>1. /\ Saved(m)'.gen >= Saved(m).gen /\ Saved(s)' = Saved(s)
            /\ Saved(m)'.gen \in Nat
        BY <1>1, <2>1, <3>2, MasterHalf DEF Moves
      <4> QED
        BY <2>1, <2>3, <3>1, <4>1, MasterHalf DEF Accepted
    <3>3. CASE h = s
      <4>1. Saved(m)' = Saved(m) /\ (Saved(s)' = Saved(s) \/ Saved(s)' = Saved(m))
        BY <1>1, <2>1, <3>3, MasterHalf DEF Moves
      <4> QED
        BY <2>1, <2>3, <3>1, <4>1, MasterHalf DEF Accepted
    <3> QED
      BY <3>2, <3>3, MasterHalf
  <2> QED
    BY <1>4, <2>2, <2>3 DEF Grows
<1> QED
  BY <1>3, <1>4

\* What a half is once it has booted.
LEMMA BootedOK ==
  ASSUME NEW r, NEW peer
  PROVE  /\ HalfOK(Booted(r), peer) /\ PullCopy(Booted(r).rx) /\ ~Working(Booted(r).rx)
         /\ Booted(r).saved = r
         /\ \A x \in Records \cup {NoRecord} : Behind(NoRecord, x)
         /\ NoPush \in Pushes /\ NoLink \in Links /\ NoApply \in Applies
         /\ LinkOK(NoLink) /\ LinkOK(NoLink)'
<1>1. HalfOK(Booted(r), peer) /\ PullCopy(Booted(r).rx) /\ ~Working(Booted(r).rx) /\ Booted(r).saved = r
  BY DEF Booted, NoCopy, HalfOK, Holds, Working, PullCopy
<1>2. \A x \in Records \cup {NoRecord} : Behind(NoRecord, x)
  BY Bounds DEF Behind, NoRecord, Records
<1>3. NoPush \in Pushes /\ NoApply \in Applies
  BY DEF NoPush, Pushes, Idle, Descs, Results, NoApply, Applies
<1>4. NoLink \in Links
  BY ReplyTypes DEF NoLink, NoCached, Links
<1>5. LinkOK(NoLink) /\ LinkOK(NoLink)'
  BY DEF NoLink, NoCached, NoRequest, NoReply, Reply, LinkOK, RequestOK, ReplyOK
<1> QED
  BY <1>1, <1>2, <1>3, <1>4, <1>5

\* A half that restarts alone.
LEMMA RestartInv ==
  ASSUME IInv, NEW h \in Halves, Restart(h)
  PROVE  /\ IInv'
         /\ \E r \in Records \cup {NoRecord} :
               Moves(h, r) /\ Saved(h)' = r /\ \A k \in Halves \ {h} : Saved(k)' = Saved(k)
<1>1. PICK r \in Survives(h) : Boot({h}, [k \in Halves |-> r], usb)
  BY DEF Restart
<1>2. /\ Spend("restarts", 1, MaxRestarts) /\ usb' = usb
      /\ store'  = [k \in Halves |-> IF k = h THEN Booted(r) ELSE store[k]]
      /\ active' = [k \in Halves |-> IF k = h THEN NoRecord ELSE active[k]]
      /\ own'    = [k \in Halves |-> IF k = h THEN IF r = NoRecord THEN "ready" ELSE "recon"
                                     ELSE own[k]]
      /\ other'  = [k \in Halves |-> IF k = h THEN Unreadable ELSE other[k]]
      /\ owner'  = [k \in Halves |-> IF k = h THEN "none" ELSE owner[k]]
      /\ p' = (IF h = m THEN NoPush ELSE p) /\ a' = (IF h = m THEN NoApply ELSE a)
      /\ link' = IF h = s THEN NoLink ELSE [link EXCEPT !.wire = NoReply]
  BY <1>1, MasterHalf DEF Boot
<1>3. Moves(h, r) /\ r \in Records \cup {NoRecord} /\ Booted(r) \in Stores /\ Booted(r).saved = r
  BY SurvivesOK, BootedOK
<1>4. /\ store'[h] = Booted(r) /\ \A k \in Halves \ {h} : store'[k] = store[k]
      /\ Saved(h)' = r /\ \A k \in Halves \ {h} : Saved(k)' = Saved(k)
      /\ m' = m /\ s' = s
  BY <1>2, <1>3 DEF Saved, m, s
<1>5. PairOK' /\ Grows
  BY <1>2, <1>3, <1>4, MovesPair
<1>6. /\ \A k \in Halves, d \in Descs : Behind(d, Saved(k)) => Behind(d, Saved(k)')
      /\ \A l \in Links : LinkOK(l) => LinkOK(l)'
      /\ \A k \in Halves : store'[k] = store[k] => HalfOK(store'[k], Saved(Other(k))')
      /\ \A k \in Halves : Saved(k)' \in Records \cup {NoRecord}
  BY <1>5, GrowsKeeps DEF Grows
<1>7. TInv'
  <2>1. spent' \in [{"restarts", "faults", "stales"} -> Nat]
    BY <1>2, MasterHalf, SpendType
  <2>2. store' \in [Halves -> Stores]
    BY <1>2, <1>3, MasterHalf DEF TInv
  <2>3. link' \in Links
    BY <1>2, MasterHalf, SlaveHalf, ReplyTypes, BootedOK DEF Links
  <2>4. p' \in Pushes /\ a' \in Applies
    BY <1>2, MasterHalf, BootedOK
  <2>5. /\ active' \in [Halves -> Records \cup {NoRecord}]
        /\ own' \in [Halves -> {"ready", "recon", "activating", "stopped"}]
        /\ other' \in [Halves -> Descs] /\ owner' \in [Halves -> {"none", "remote", "pull"}]
    BY <1>2, MasterHalf DEF TInv, Descs
  <2> QED
    BY <1>2, <2>1, <2>2, <2>3, <2>4, <2>5, MasterHalf DEF TInv
<1>8. CopiesOK'
  <2>1. ASSUME NEW k \in Halves PROVE HalfOK(store'[k], Saved(Other(k))')
    BY <1>4, <1>6, BootedOK
  <2> QED
    BY <2>1 DEF CopiesOK
<1>9. MasterOK' /\ WorkOK'
  <2>1. MasterOK'
    BY <1>2, <1>4, MasterHalf, BootedOK DEF IInv, MasterOK
  <2>2. WorkOK'
    <3>1. CASE h = s
      BY <1>4, <3>1, BootedOK DEF WorkOK
    <3>2. CASE h # s
      <4>1. link'.cached = link.cached
        BY <1>2, <3>2, SlaveHalf DEF Links
      <4> QED
        BY <1>4, <3>2, <4>1, MasterHalf DEF WorkOK, IInv
    <3> QED
      BY <3>1, <3>2
  <2> QED
    BY <2>1, <2>2
<1>10. LinkOK(link)'
  <2>1. CASE h = s
    BY <1>2, <2>1, BootedOK DEF LinkOK
  <2>2. CASE h # s
    <3>1. link' = [link EXCEPT !.wire = NoReply]
      BY <1>2, <2>2
    <3>2. LinkOK([link EXCEPT !.wire = NoReply]) /\ [link EXCEPT !.wire = NoReply] \in Links
      BY SlaveHalf, ReplyTypes DEF Links, LinkOK, ReplyOK, NoReply, Reply
    <3>3. LinkOK(link') /\ link' \in Links
      BY <3>1, <3>2
    <3> QED
      BY <1>6, <3>3
  <2> QED
    BY <2>1, <2>2
<1>11. SeenOK' /\ ActiveOK'
  <2>1. ASSUME NEW k \in Halves
        PROVE  /\ other'[k] # Unreadable => Behind(other'[k], Saved(Other(k))')
               /\ Behind(active'[k], Saved(Other(k))')
    <3>1. Other(k) \in Halves /\ other[k] \in Descs /\ active[k] \in Descs
      BY HalvesOf, MasterHalf DEF TInv, Descs
    <3>2. CASE k = h
      BY <1>2, <1>6, <3>1, <3>2, BootedOK
    <3>3. CASE k # h
      BY <1>2, <1>6, <3>1, <3>3 DEF IInv, SeenOK, ActiveOK
    <3> QED
      BY <3>2, <3>3
  <2> QED
    BY <2>1 DEF SeenOK, ActiveOK
<1>12. PushOK(p)'
  <2>1. CASE h = m
    BY <1>2, <2>1 DEF PushOK, NoPush, NoApply, PushStates, PullStates
  <2>2. CASE h # m
    <3>1. p' = p /\ a' = a /\ p.desc \in Descs /\ Saved(m)' = Saved(m)
      BY <1>2, <1>4, <2>2, MasterHalf, Typed
    <3>2. Accepted(p.desc) => Accepted(p.desc)'
      BY <1>5, <3>1 DEF Grows
    <3>3. Behind(p.desc, Saved(s)) => Behind(p.desc, Saved(s)')
      BY <1>4, <1>6, <3>1, MasterHalf
    <3> QED
      BY <1>2, <1>4, <3>1, <3>2, <3>3, MasterHalf DEF PushOK
  <2> QED
    BY <2>1, <2>2
<1>13. ApplyOK'
  <2>1. CASE h = m
    BY <1>2, <2>1 DEF ApplyOK, NoApply
  <2>2. CASE h # m
    <3>1. a' = a /\ store'[m] = store[m] /\ Saved(m)' = Saved(m)
      BY <1>2, <1>4, <2>2, MasterHalf
    <3>2. a.st \in {"committing", "unknown"} => Saved(s)' = Saved(s)
      BY <1>3, <1>4, <2>2, MasterHalf DEF Moves, ApplyOK
    <3> QED
      BY <1>4, <3>1, <3>2, MasterHalf DEF ApplyOK
  <2> QED
    BY <2>1, <2>2
<1>14. ReadyOK'
  <2>1. ASSUME NEW k \in Halves, own'[k] = "ready"
        PROVE  Saved(k)'.gen <= Saved(Other(k))'.gen \/ (k = m /\ a'.st \in {"decided", "converging"})
    <3>1. /\ Other(k) \in Halves /\ Other(k) # k
          /\ \A j \in Halves : Saved(j)'.gen \in Nat /\ Saved(j).gen \in Nat /\ Saved(j).gen <= Saved(j)'.gen
      BY <1>5, HalvesOf, MasterHalf, Typed, Gens DEF Grows, Descs
    <3>2. CASE k = h
      <4>1. r = NoRecord
        BY <1>2, <2>1, <3>2
      <4> QED
        BY <1>4, <3>1, <3>2, <4>1, Gens
    <3>3. CASE k # h
      <4>1. own[k] = "ready" /\ Saved(k)' = Saved(k) /\ Other(k) = h
        BY <1>2, <1>4, <2>1, <3>3, HalvesOf
      <4>2. Saved(k).gen <= Saved(h).gen \/ (k = m /\ a.st \in {"decided", "converging"})
        BY <4>1 DEF IInv, ReadyOK
      <4> QED
        BY <1>2, <3>1, <3>3, <4>1, <4>2
    <3> QED
      BY <3>2, <3>3
  <2> QED
    BY <1>4, <2>1 DEF ReadyOK
<1> QED
  BY <1>3, <1>4, <1>5, <1>7, <1>8, <1>9, <1>10, <1>11, <1>12, <1>13, <1>14 DEF IInv

\* Nothing but the saved records is left of two halves that boot together.
AllBooted ==
  /\ usb \in Halves
  /\ \A h \in Halves : /\ store[h].rx = NoCopy /\ store[h].adm = "none" /\ store[h].vouched \in BOOLEAN
                       /\ own[h] \in {"ready", "recon"}
                       /\ own[h] = "ready" => Saved(h) = NoRecord
  /\ store \in [Halves -> Stores]
  /\ own \in [Halves -> {"ready", "recon"}]
  /\ active = [h \in Halves |-> NoRecord] /\ other = [h \in Halves |-> Unreadable]
  /\ owner = [h \in Halves |-> "none"]
  /\ link = NoLink /\ p = NoPush /\ a = NoApply
  /\ spent \in [{"restarts", "faults", "stales"} -> Nat]
  /\ PairOK

LEMMA BootedInv == AllBooted => IInv
<1> SUFFICES ASSUME AllBooted PROVE IInv
  OBVIOUS
<1>1. TInv
  BY BootedOK DEF AllBooted, TInv, Descs
<1>2. \A h \in Halves : Saved(h) \in Records \cup {NoRecord} /\ Saved(h).gen \in Nat /\ Other(h) \in Halves
  BY <1>1, Typed, HalvesOf
<1>3. CopiesOK
  <2>1. ASSUME NEW h \in Halves PROVE HalfOK(store[h], Saved(Other(h)))
    <3>1. store[h].rx.st = "idle" /\ store[h].rx.desc = NoRecord /\ store[h].rx.auto = FALSE
      BY DEF AllBooted, NoCopy
    <3> QED
      BY <3>1 DEF HalfOK, Holds, Working
  <2> QED
    BY <2>1 DEF CopiesOK
<1>4. MasterOK /\ WorkOK
  BY <1>1, Typed DEF AllBooted, MasterOK, WorkOK, PullCopy, NoCopy, Working
<1>5. SeenOK /\ ActiveOK
  BY <1>2, BootedOK DEF AllBooted, SeenOK, ActiveOK
<1>6. LinkOK(link) /\ PushOK(p) /\ ApplyOK
  BY BootedOK DEF AllBooted, PushOK, NoPush, NoApply, PushStates, PullStates, ApplyOK
<1>7. ReadyOK
  BY <1>2, Gens DEF AllBooted, ReadyOK
<1> QED
  BY <1>1, <1>3, <1>4, <1>5, <1>6, <1>7 DEF IInv, AllBooted

LEMMA InitInv == ASSUME Init PROVE IInv
<1>1. \A h \in Halves : /\ store[h] = Booted(NoRecord) /\ own[h] = "ready"
                        /\ Saved(h) = NoRecord /\ Booted(NoRecord) \in Stores
  <2>1. Booted(NoRecord) \in Stores /\ Booted(NoRecord).saved = NoRecord
    BY DEF Booted, NoCopy, Stores, Copies, RxStates, Whys, Descs
  <2> QED
    BY <2>1 DEF Init, Saved
<1>2. store \in [Halves -> Stores]
  BY <1>1 DEF Init
<1>3. PairOK
  <2>1. ASSUME NEW h \in Halves PROVE Saved(h) = NoRecord /\ Saved(Other(h)) = NoRecord
    BY <1>1, HalvesOf
  <2>2. ~(NoRecord.gen > NoRecord.gen)
    BY Gens
  <2> QED
    BY <2>1, <2>2 DEF PairOK
<1>4. \A h \in Halves : /\ store[h].rx = NoCopy /\ store[h].adm = "none" /\ store[h].vouched \in BOOLEAN
  <2>1. \A x : Booted(x).rx = NoCopy /\ Booted(x).adm = "none" /\ Booted(x).vouched \in BOOLEAN
    BY DEF Booted
  <2> QED
    BY <1>1, <2>1
<1>5. AllBooted
  BY <1>1, <1>2, <1>3, <1>4 DEF Init, AllBooted
<1> QED
  BY <1>5, BootedInv

\* Both halves lose power, and the cable is in either of them when it returns.
LEMMA MoveCableInv ==
  ASSUME IInv, MoveCable
  PROVE  /\ IInv'
         /\ \E h \in Halves, r \in Records \cup {NoRecord} :
               Moves(h, r) /\ Saved(h)' = r /\ \A k \in Halves \ {h} : Saved(k)' = Saved(k)
<1>1. PICK r \in Survives(m), q \in Survives(s), u \in Halves :
        Boot(Halves, [h \in Halves |-> IF h = m THEN r ELSE q], u)
  BY DEF MoveCable
<1> DEFINE R(h) == IF h = m THEN r ELSE q
<1>2. /\ Spend("restarts", 1, MaxRestarts) /\ usb' = u
      /\ store'  = [h \in Halves |-> Booted(R(h))]
      /\ active' = [h \in Halves |-> NoRecord]
      /\ own'    = [h \in Halves |-> IF R(h) = NoRecord THEN "ready" ELSE "recon"]
      /\ other'  = [h \in Halves |-> Unreadable]
      /\ owner'  = [h \in Halves |-> "none"]
      /\ p' = NoPush /\ a' = NoApply /\ link' = NoLink
  BY <1>1, MasterHalf DEF Boot
<1>3. /\ Moves(m, r) /\ r \in Records \cup {NoRecord} /\ Booted(r) \in Stores /\ Booted(r).saved = r
      /\ Moves(s, q) /\ q \in Records \cup {NoRecord} /\ Booted(q) \in Stores /\ Booted(q).saved = q
  BY MasterHalf, SurvivesOK, BootedOK
<1>4. \A h \in Halves : /\ store'[h] = Booted(R(h)) /\ Saved(h)' = R(h)
                        /\ store'[h].rx = NoCopy /\ store'[h].adm = "none"
                        /\ store'[h].vouched \in BOOLEAN /\ store'[h] \in Stores
  <2>1. ASSUME NEW h \in Halves PROVE store'[h] = Booted(R(h)) /\ Saved(h)' = R(h)
    BY <1>2, <1>3, <2>1 DEF Saved
  <2>2. \A x : Booted(x).rx = NoCopy /\ Booted(x).adm = "none" /\ Booted(x).vouched \in BOOLEAN
    BY DEF Booted
  <2> QED
    BY <1>3, <2>1, <2>2
<1>5. PICK h \in Halves, x \in Records \cup {NoRecord} :
         Moves(h, x) /\ R(h) = x /\ \A k \in Halves \ {h} : R(k) = Saved(k)
  <2>1. CASE q = Saved(s)
    BY <1>3, <2>1, MasterHalf
  <2>2. CASE q # Saved(s)
    <3>1. Saved(m).gen > Saved(s).gen
      BY <1>3, <2>2, MasterHalf DEF Moves
    <3>2. r = Saved(m)
      BY <1>3, <3>1, MasterHalf DEF Moves
    <3> QED
      BY <1>3, <3>2, MasterHalf
  <2> QED
    BY <2>1, <2>2
<1>6. Saved(h)' = x /\ \A k \in Halves \ {h} : Saved(k)' = Saved(k)
  BY <1>4, <1>5
<1>7. PairOK'
  BY <1>5, <1>6, MovesPair
<1>8. AllBooted'
  <2>1. spent' \in [{"restarts", "faults", "stales"} -> Nat]
    BY <1>2, MasterHalf, SpendType
  <2>2. store' \in [Halves -> Stores] /\ own' \in [Halves -> {"ready", "recon"}]
    BY <1>2, <1>4
  <2>3. \A k \in Halves : own'[k] \in {"ready", "recon"} /\ (own'[k] = "ready" => Saved(k)' = NoRecord)
    BY <1>2, <1>4
  <2> HIDE DEF R
  <2> QED
    BY <1>2, <1>4, <1>7, <2>1, <2>2, <2>3 DEF AllBooted
<1>9. IInv'
  BY <1>8, BootedInv, PTL
<1> QED
  BY <1>5, <1>6, <1>9

--------------------------------------------------------------------------------
\* The theorems.

\* How a step moves the saved records: not at all, or one of them as Moves says.
Progress ==
  /\ IInv'
  /\ \/ \A k \in Halves : Saved(k)' = Saved(k)
     \/ \E h \in Halves, r \in Records \cup {NoRecord} :
           Moves(h, r) /\ Saved(h)' = r /\ \A k \in Halves \ {h} : Saved(k)' = Saved(k)

\* The disjuncts of the next-state relation.
LEMMA ApplyInv == ASSUME IInv, Apply PROVE Progress
<1>1. IInv'
  BY BeginApplyInv, StartPushInv, RequestCancelInv, FinishCancelInv, FailCancelInv, DecideInv,
     CommitInv, CommitFailsInv, CommitUnknownInv, AuthorizeInv, ConfirmInv, AuthorityLostInv,
     ActivateApplyInv DEF Apply
<1>2. CASE Commit
  <2>1. Moves(m, a.cand) /\ a.cand \in Records
    BY <1>2, CommitInv, MasterHalf DEF Moves
  <2>2. PICK h \in Halves : h = m
    BY MasterHalf
  <2>3. m' = m
    BY <1>2 DEF Commit, m
  <2>4. Saved(h)' = a.cand
    BY <1>2, <2>2, <2>3, CommitInv DEF Saved
  <2>5. \A k \in Halves \ {h} : Saved(k)' = Saved(k)
    BY <1>2, <2>2, CommitInv
  <2> QED
    BY <1>1, <2>1, <2>2, <2>4, <2>5 DEF Progress
<1>3. CASE BeginApply \/ FinishCancel \/ ActivateApply
  <2>1. store \in [Halves -> Stores] /\ m \in Halves
    BY MasterHalf DEF TInv
  <2>2. \/ store' = [store EXCEPT ![m].adm = "none"]
        \/ store' = [store EXCEPT ![m].adm = "none", ![m].vouched = FALSE]
        \/ store' = [store EXCEPT ![m].adm = "host", ![m].vouched = FALSE]
    BY <1>3 DEF BeginApply, FinishCancel, ActivateApply
  <2>3. \A k \in Halves : store'[k].saved = store[k].saved
    BY <2>1, <2>2 DEF Stores
  <2> QED
    BY <1>1, <2>3 DEF Saved, Progress
<1>4. CASE UNCHANGED store
  BY <1>1, <1>4 DEF Saved, Progress
<1>5. UNCHANGED store \/ Commit \/ BeginApply \/ FinishCancel \/ ActivateApply
  BY DEF Apply, StartPush, RequestCancel, FailCancel, Decide,
         CommitFails, CommitUnknown, Authorize, Confirm, AuthorityLost
<1> QED
  BY <1>2, <1>3, <1>4, <1>5

LEMMA ReconcileInv == ASSUME IInv, Reconcile PROVE Stays
BY MetadataInv, PushBeginInv, PushSendInv, PushDurableInv, PushCommitInv, PushAbortInv,
   OrphanAbortInv, PullBeginInv, PullRequestInv, PullWriteInv, PullCommitInv, PullStepInv,
   PullWaitsInv DEF Reconcile

LEMMA AnsweringInv == ASSUME IInv, Answering PROVE Stays
BY TakeMetadataInv, TakeBeginInv, TakeChunkInv, TakeDurableInv, TakeCommitInv, TakeAbortInv,
   TakePullRequestInv, RefuseInv, ExpireCopyInv, QuietScanInv DEF Answering

LEMMA HalfwiseInv == ASSUME IInv, NEW h \in Halves, Halfwise(h) PROVE Progress
<1>1. CASE StoreStep(h)
  <2>1. IInv'
    BY <1>1, StoreStepInv
  <2>2. CASE Saved(Other(h)).gen > Saved(h).gen /\ \A k \in Halves : Saved(k)' = Saved(Other(h))
    <3>1. Moves(h, Saved(Other(h))) /\ Saved(Other(h)) \in Records \cup {NoRecord}
      BY <2>2, HalvesOf, MasterHalf, Typed DEF Moves
    <3>2. \A k \in Halves \ {h} : Saved(k)' = Saved(k)
      BY <2>2, HalvesOf
    <3> QED
      BY <2>1, <2>2, <3>1, <3>2 DEF Progress
  <2>3. CASE \A k \in Halves : Saved(k)' = Saved(k)
    BY <2>1, <2>3 DEF Progress
  <2> QED
    BY <1>1, <2>2, <2>3, StoreStepInv
<1>2. CASE ActivateCopy(h)
  <2>1. store \in [Halves -> Stores] /\ store' = [store EXCEPT ![h].adm = "none"]
    BY <1>2, MasterHalf DEF ActivateCopy, TInv
  <2>2. \A k \in Halves : store'[k].saved = store[k].saved
    BY <2>1 DEF Stores
  <2> QED
    BY <1>2, <2>2, ActivateCopyInv DEF Saved, Progress
<1>3. CASE BootConverged(h) \/ BootActivate(h) \/ BootFails(h)
  <2>1. UNCHANGED store
    BY <1>3 DEF BootConverged, BootActivate, BootFails
  <2> QED
    BY <1>3, <2>1, BootConvergedInv, BootActivateInv, BootFailsInv DEF Saved, Progress
<1>4. CASE Restart(h)
  BY <1>4, RestartInv DEF Progress
<1> QED
  BY <1>1, <1>2, <1>3, <1>4 DEF Halfwise

LEMMA StutterInv == ASSUME IInv, UNCHANGED vars PROVE Stays
BY DEF vars, IInv, TInv, PairOK, CopiesOK, MasterOK, SeenOK, ActiveOK, LinkOK, RequestOK, ReplyOK,
       Accepted, WorkOK, PushOK, ApplyOK, ReadyOK, Saved, m, s, Stays

LEMMA InductiveStep == IInv /\ [Next]_vars => Progress
<1> SUFFICES ASSUME IInv, [Next]_vars PROVE Progress
  OBVIOUS
<1>1. Stays => Progress
  BY DEF Stays, Progress
<1>2. MoveCable => Progress
  BY MoveCableInv DEF Progress
<1> QED
  BY <1>1, <1>2, ApplyInv, ReconcileInv, AnsweringInv, HalfwiseInv, StutterInv DEF Next

\* Everything the invariant says holds throughout, whatever the link loses or
\* repeats and whenever a half loses power.
THEOREM Inductive == Spec => []IInv
<1>1. Init => IInv
  BY InitInv
<1>2. IInv /\ [Next]_vars => IInv'
  BY InductiveStep DEF Progress
<1> QED
  BY <1>1, <1>2, PTL DEF Spec

\* Every part of the two halves' storage, owners and link has its type: a frame, a
\* copy or a push never carries what the code has no case for.
THEOREM TypeCorrect == Spec => []TInv
<1>1. IInv => TInv
  BY DEF IInv
<1> QED
  BY <1>1, Inductive, PTL

\* Two saved records of one generation are the same, and the half that is ahead
\* is so by one record, which it decided itself: the next boot can always tell
\* which record is the newer, and that no record was lost.
THEOREM OneHalfAhead == Spec => []PairOK
<1>1. IInv => PairOK
  BY DEF IInv
<1> QED
  BY <1>1, Inductive, PTL

\* No half activates a record (an Apply, a received copy, a boot) that the other
\* half has not saved, or has not already replaced by a newer one.
THEOREM Activation == Spec => []NothingActivatesAlone
<1>1. ASSUME IInv PROVE NothingActivatesAlone
  <2> SUFFICES ASSUME NEW h \in Halves
               PROVE  /\ active[h].gen <= store[Other(h)].saved.gen
                      /\ active[h].gen = store[Other(h)].saved.gen => active[h] = store[Other(h)].saved
    BY DEF NothingActivatesAlone
  <2>1. TInv /\ Other(h) \in Halves /\ Behind(active[h], Saved(Other(h)))
    BY HalvesOf, <1>1 DEF IInv, ActiveOK
  <2>2. Saved(Other(h)).gen \in Nat /\ active[h] \in Descs
    BY <2>1, Typed DEF TInv, Descs
  <2>3. active[h].gen \in Nat
    BY <2>2, Gens
  <2> QED
    BY <2>1, <2>2, <2>3 DEF Behind, Saved
<1> QED
  BY <1>1, Inductive, PTL

\* The saved records move as PairedRecord lets them: a commit of an Apply decides
\* a record while both halves hold the same, the commit of a received copy and a
\* power cut inside one copy it, and every other step leaves both alone.
THEOREM Refinement == Spec => ImplementsPairedRecord
<1> DEFINE A == [h \in Halves |-> store[h].saved]
<1>0. PairedRecord!Records = Records /\ PairedRecord!NoRecord = NoRecord
  BY DEF PairedRecord!Records, PairedRecord!NoRecord, Records, NoRecord
<1>1. Init => PairedRecord!Init
  <2>1. Init => \A h \in Halves : store[h].saved = NoRecord
    <3>1. Booted(NoRecord).saved = NoRecord
      BY Zenon DEF Booted
    <3> QED
      BY <3>1 DEF Init
  <2>2. Init => A = [h \in Halves |-> NoRecord]
    BY <2>1
  <2>3. PairedRecord!Init <=> A = [h \in Halves |-> PairedRecord!NoRecord]
    BY DEF PairedRecord!Init
  <2> HIDE DEF A
  <2> QED
    BY <1>0, <2>2, <2>3
<1>2. IInv /\ [Next]_vars => [PairedRecord!Next]_A
  <2> SUFFICES ASSUME IInv, [Next]_vars PROVE [PairedRecord!Next]_A
    OBVIOUS
  <2>1. CASE \A k \in Halves : Saved(k)' = Saved(k)
    BY <2>1 DEF Saved
  <2>2. ASSUME NEW h \in Halves, NEW r \in Records \cup {NoRecord},
               Moves(h, r), Saved(h)' = r, \A k \in Halves \ {h} : Saved(k)' = Saved(k)
        PROVE  [PairedRecord!Next]_A
    <3>1. A' = [A EXCEPT ![h] = r]
      BY <2>2 DEF Saved
    <3>2. CASE r = Saved(h)
      BY <2>2, <3>2 DEF Saved
    <3>3. CASE Saved(Other(h)).gen > Saved(h).gen /\ r = Saved(Other(h))
      <4>1. Other(h) \in Halves /\ A[Other(h)] = Saved(Other(h)) /\ A[h] = Saved(h)
        BY HalvesOf DEF Saved
      <4> HIDE DEF A
      <4>2. PairedRecord!Copy(h)
        BY <3>1, <3>3, <4>1 DEF PairedRecord!Copy, A
      <4> QED
        BY <4>2 DEF PairedRecord!Next
    <3>4. CASE /\ h = m /\ Saved(s) = Saved(m)
               /\ r \in Records /\ r.gen = Saved(m).gen + 1 /\ r.origin = m
      <4>1. \A k \in Halves : A[k] = Saved(m)
        BY <3>4, MasterHalf DEF Saved
      <4>2. PairedRecord!Decide(h)
        BY <1>0, <3>1, <3>4, <4>1 DEF PairedRecord!Decide
      <4> QED
        BY <4>2 DEF PairedRecord!Next
    <3> QED
      BY <2>2, <3>2, <3>3, <3>4 DEF Moves
  <2> QED
    BY <2>1, <2>2, InductiveStep DEF Progress
<1> QED
  BY <1>1, <1>2, Inductive, PTL DEF Spec, ImplementsPairedRecord, PairedRecord!Spec
================================================================================
