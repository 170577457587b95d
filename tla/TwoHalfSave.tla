------------------------------ MODULE TwoHalfSave ------------------------------
(* One profile on two halves.  The half with the cable is the master: its owner  *)
(* (profile_owner.c) runs an Apply, its reconciler (profile_split_reconciler.c)  *)
(* calls the other half over a link that answers each call with the reply of a   *)
(* callback there, and the other half's reconciler later takes the request the   *)
(* callback queued.  An Apply is a commit in two phases: the copy is pushed and  *)
(* prepared on the slave, the master commits its own record (the decision), the  *)
(* slave commits its copy, and each half activates once it has seen the other    *)
(* hold the same record.                                                         *)
(* A request or a reply may be lost at every exchange, the same request repeated *)
(* meanwhile, a half may lose its power, and the cable may move to the other     *)
(* half while the keyboard has no power.  Deadlines are choices: a timed action  *)
(* may happen whenever its deadline could have passed.                           *)
EXTENDS OtherHalfStore

CONSTANTS MaxRestarts,   \* bound: losses of power
          MaxFaults,     \* bound: failures of flash
          MaxStales      \* bound: exchanges answered by an earlier reply

ASSUME Bounds ==
  /\ \E x, y \in Halves : x # y /\ Halves = {x, y}
  /\ {MaxGen, MaxRestarts, MaxFaults, MaxStales} \subseteq Nat

VARIABLES
  usb,      \* the half with the cable: the master
  store,    \* per half: its storage, as OtherHalfStore describes it
  active,   \* per half: the record its keyboard runs
  own,      \* per half: profile_owner state
  other,    \* per half: other_half_descriptor, the saved record it last saw there
  owner,    \* per half: transfer_owner
  link,     \* of the slave: the mailbox, the cached exchange, the reply last sent
  p,        \* the master's reconciler
  a,        \* the master's Apply (candidate transaction and host barrier)
  spent     \* how much of each bound is used

vars == <<usb, store, active, own, other, owner, link, p, a, spent>>

m == usb
s == CHOOSE h \in Halves : h # usb
Other(h) == CHOOSE k \in Halves : k # h

Request(kind, d) == [kind |-> kind, desc |-> d, free |-> kind = "metadata" /\ ~p.on]
Reply(kind, d, full, why) == [kind |-> kind, desc |-> d, full |-> full, why |-> why]
Ack(d, full)  == Reply("ack", d, full, "none")
Busy(d, full) == Reply("busy", d, full, "none")
Error(d, why) == Reply("error", d, FALSE, why)
NoRequest == [kind |-> "none", desc |-> NoRecord, free |-> FALSE]
NoReply   == Reply("none", NoRecord, FALSE, "none")
Lost      == Reply("lost", NoRecord, FALSE, "none")
NoCached  == [req |-> NoRequest, reply |-> NoReply]
NoLink    == [box |-> NoRequest, cached |-> NoCached, wire |-> NoReply]
NoPush    == [st |-> "discover", desc |-> NoRecord, on |-> FALSE, started |-> FALSE,
              authz |-> FALSE, refused |-> FALSE, orphan |-> FALSE, retried |-> FALSE,
              why |-> "none"]
NoApply   == [st |-> "idle", cand |-> NoRecord, cancel |-> "no"]

Init ==
  /\ usb \in Halves
  /\ store  = [h \in Halves |-> Booted(NoRecord)]
  /\ active = [h \in Halves |-> NoRecord]
  /\ own    = [h \in Halves |-> "ready"]
  /\ other  = [h \in Halves |-> Unreadable]
  /\ owner  = [h \in Halves |-> "none"]
  /\ link = NoLink /\ p = NoPush /\ a = NoApply
  /\ spent = [restarts |-> 0, faults |-> 0, stales |-> 0]

Spend(what, n, max) == /\ spent[what] + n <= max
                       /\ spent' = [spent EXCEPT ![what] = @ + n]

(* ---- What a half knows of the other --------------------------------------- *)

Compare(mine, seen) ==
  CASE seen = Unreadable -> "unreadable"
    [] seen # Unreadable /\ seen = mine          -> "converged"
    [] seen # Unreadable /\ mine.gen > seen.gen  -> "mine"
    [] seen # Unreadable /\ mine.gen < seen.gen  -> "theirs"
    [] seen # Unreadable /\ mine # seen /\ mine.gen = seen.gen -> "clash"

Idle == {"discover", "converged", "stopped"}   \* no transfer in progress
Pending(h) == owner[h] # "none" \/ (h = m /\ (p.on \/ p.st \notin Idle))
Settled(h) == other[h] = store[h].saved /\ ~Pending(h)

\* A boot with a saved record waits for the other half to hold it too.
BootReady(h) == own[h] = "recon" /\ store[h].adm = "none" /\ Settled(h)
Scans(h)     == own[h] # "stopped" /\ ~BootReady(h)
ConvergeOnly(h) == own[h] = "activating" \/ store[h].adm = "host"

(* ---- An exchange ---------------------------------------------------------- *)

\* noah_profile_split_reconciler_receive, in the slave's callback.
Cached(q) == link.box = NoRequest /\ q.kind # "metadata" /\ link.cached.req = q
CallbackReply(q) ==
  CASE q.kind = "metadata" -> Reply("meta", store[s].saved, FALSE, "none")
    [] q.kind # "metadata" /\ Cached(q)  -> link.cached.reply
    [] q.kind # "metadata" /\ ~Cached(q) -> Busy(q.desc, FALSE)
Received(q) ==
  [link EXCEPT !.box  = IF link.box = NoRequest /\ ~Cached(q) THEN q ELSE @,
               !.wire = IF spent.stales < MaxStales THEN CallbackReply(q) ELSE NoReply]

\* The link loses the request or the reply, or delivers both; or it hands out the
\* reply of an earlier exchange, the callback not having run.
Answers(q) ==
  {[reply |-> Lost, link |-> link, stale |-> 0],
   [reply |-> Lost, link |-> Received(q), stale |-> 0],
   [reply |-> CallbackReply(q), link |-> Received(q), stale |-> 0]}
  \cup {[reply |-> l.wire, link |-> [l EXCEPT !.wire = IF spent.stales + 1 < MaxStales
                                                       THEN @ ELSE NoReply],
         stale |-> 1] : l \in {k \in {link} : k.wire # NoReply}}

\* Forget what nothing reads any more.
Clean(q) ==
  [q EXCEPT !.desc    = IF q.on \/ q.orphan \/ q.st \notin Idle \cup {"verify"} THEN @ ELSE NoRecord,
            !.retried = q.on /\ q.retried]

Outcome(q, seen) == [p |-> Clean(q), seen |-> seen]
Keep(q)     == {Outcome(q, other[m])}
To(st)      == [p EXCEPT !.st = st, !.retried = FALSE]     \* with note_progress
Again(st)   == [p EXCEPT !.st = st, !.retried = TRUE]      \* with a backoff
Stopped(why) == [p EXCEPT !.st = "stopped", !.why = why]
\* clear_prepared_push
Cleared(q)  == [q EXCEPT !.on = FALSE, !.started = FALSE, !.authz = FALSE, !.refused = FALSE]
\* transport_lost; a prepared push goes back to the state st it was in
LostTo(st)  == {Outcome(Again(IF p.on THEN st ELSE "discover"), Unreadable)}
LostExchange == {Outcome(Again("discover"), Unreadable)}

\* handle_protocol_error; the storage retries of one push are bounded, so both
\* answers to a storage error occur.
HandleError(r) ==
  IF r.kind # "error" THEN LostExchange
  ELSE IF p.on /\ ~p.authz /\ r.why = "storage" /\ r.desc = p.desc
       THEN Keep(Again("push_begin")) \cup Keep(Stopped("storage"))
  ELSE IF r.why = "stale" THEN Keep(Again("discover"))
  ELSE Keep(Stopped(r.why))

\* The master's scan reaches its RPC only past its own store's step.
Calls == Scans(m) /\ ~Working(store[m].rx)

Send(q, Outcomes(_)) ==
  /\ Calls
  /\ \E ans \in Answers(q) :
        /\ Spend("stales", ans.stale, MaxStales)
        /\ link' = ans.link
        /\ \E o \in Outcomes(ans.reply) : p' = o.p /\ other' = [other EXCEPT ![m] = o.seen]
  /\ UNCHANGED <<usb, store, active, own, owner, a>>

(* ---- The master's calls --------------------------------------------------- *)

\* begin_authority_action
Act(seen) ==
  LET cmp == Compare(store[m].saved, seen)
      later == Again("discover")
  IN CASE cmp = "converged" /\ p.on /\ seen # p.desc -> To("push_begin")
       [] cmp = "converged" /\ p.on /\ seen = p.desc -> Cleared(To("converged"))
       [] cmp = "converged" /\ ~p.on                 -> To("converged")
       [] cmp = "mine" -> IF p.orphan THEN later
                          ELSE [To("push_begin") EXCEPT !.desc = store[m].saved]
       [] cmp = "theirs" -> IF p.orphan \/ ConvergeOnly(m) THEN later
                            ELSE [To("pull_begin") EXCEPT !.desc = seen]
       [] cmp = "clash" -> [Stopped("conflict") EXCEPT !.retried = FALSE]

\* metadata_exchange, in DISCOVER, VERIFY and CONVERGED
Metadata ==
  /\ p.st \in {"discover", "verify", "converged"}
  /\ LET Outcomes(r) == IF r.kind = "lost" THEN LostExchange
                        ELSE IF r.kind = "busy" THEN Keep(Again(IF p.st = "converged" THEN "discover" ELSE p.st))
                        ELSE IF r.kind = "meta" THEN {Outcome(Act(r.desc), r.desc)}
                        ELSE HandleError(r)
     IN Send(Request("metadata", store[m].saved), Outcomes)

Matches(r) == r.kind = "ack" /\ r.desc = p.desc
Complete   == To(IF p.on THEN "push_durable" ELSE "push_commit")

PushBegin ==
  /\ p.st = "push_begin"
  /\ LET Begun(q) == [q EXCEPT !.started = p.on]
         Outcomes(r) ==
           {[o EXCEPT !.p = Begun(o.p)] :
              o \in IF r.kind = "lost" THEN LostTo("push_begin")
                    ELSE IF r.kind = "busy" THEN Keep(Again("push_begin"))
                    ELSE IF Matches(r) THEN Keep(IF r.full THEN Complete ELSE To("push_send"))
                    ELSE HandleError(r)}
     IN Send(Request("begin", p.desc), Outcomes)

\* push_read, then push_send: the chunk's source must still be the copy's.
Readable == IF p.on THEN a.cand = p.desc ELSE store[m].saved = p.desc
PushSend ==
  /\ p.st = "push_send" /\ Readable
  /\ LET Outcomes(r) == IF r.kind = "lost" THEN LostTo("push_send")
                        ELSE IF r.kind = "busy"
                        THEN (IF p.on /\ p.retried /\ r.full THEN {} ELSE Keep(Again("push_send")))
                             \cup (IF p.on /\ p.retried THEN Keep(Again("push_begin")) ELSE {})
                        ELSE IF Matches(r) /\ r.full THEN Keep(Complete)
                        ELSE HandleError(r)
     IN Send(Request("chunk", p.desc), Outcomes)

PushDurable ==
  /\ p.st = "push_durable"
  /\ LET Outcomes(r) == IF r.kind = "lost" THEN LostTo("push_durable")
                        ELSE IF r.kind = "busy" THEN Keep(Again("push_durable"))
                        ELSE IF Matches(r) /\ r.full
                        THEN Keep(To(IF p.authz THEN "push_commit" ELSE "push_prepared"))
                        ELSE HandleError(r)
     IN Send(Request("durable", p.desc), Outcomes)

PushCommit ==
  /\ p.st = "push_commit"
  /\ LET Outcomes(r) == IF r.kind = "lost" THEN LostTo("push_commit")
                        ELSE IF r.kind = "busy"
                        THEN Keep(IF p.on /\ p.retried /\ r.desc = p.desc /\ ~r.full
                                  THEN To("push_begin") ELSE Again("push_commit"))
                        ELSE IF Matches(r) THEN Keep(To("verify"))
                        ELSE HandleError(r)
     IN Send(Request("commit", p.desc), Outcomes)

\* push_abort; past its deadline the push is released, its cleanup an orphan
PushAbort ==
  /\ p.st = "push_abort"
  /\ LET Ended(seen) == {Outcome(Cleared(To("discover")), seen)}
         Released(seen) == {Outcome([Cleared(Again("discover")) EXCEPT !.orphan = TRUE], seen)}
         Outcomes(r) == IF r.kind = "lost" THEN LostTo("push_abort") \cup Released(Unreadable)
                        ELSE IF r.kind = "busy"
                        THEN Keep(Again("push_abort")) \cup Released(other[m])
                        ELSE IF Matches(r) \/ (r.kind = "error" /\ r.why = "storage" /\ r.desc = p.desc)
                        THEN Ended(other[m])
                        ELSE {[o EXCEPT !.p.refused = TRUE] : o \in HandleError(r)}
     IN Send(Request("abort", p.desc), Outcomes)

OrphanAbort ==
  /\ p.orphan /\ p.st \in {"discover", "verify", "converged"}
  /\ LET Outcomes(r) == IF r.kind = "lost" THEN LostExchange
                        ELSE IF r.kind = "busy" THEN Keep(p)
                        ELSE IF Matches(r) THEN Keep([p EXCEPT !.orphan = FALSE])
                        ELSE HandleError(r)
     IN Send(Request("abort", p.desc), Outcomes)

(* ---- The master's pull ---------------------------------------------------- *)

\* A step of the master's scan on its own storage, with no call.
Local(o, q, ow) ==
  /\ Calls /\ ~ConvergeOnly(m)
  /\ Spend("faults", o.fault, MaxFaults)
  /\ store' = [store EXCEPT ![m] = o.half]
  /\ p' = Clean(q) /\ owner' = [owner EXCEPT ![m] = ow]
  /\ UNCHANGED <<usb, active, own, other, link, a>>

PullBegin ==
  /\ p.st = "pull_begin"
  /\ IF owner[m] = "pull" /\ store[m].rx.st = "receiving" /\ store[m].rx.desc # p.desc
     THEN \E o \in AbortCopy(store[m]) :
             IF o.result = "ok" THEN Local(o, p, "none") ELSE Local(o, Stopped(o.result), "pull")
     ELSE \E o \in BeginCopy(store[m], p.desc) :
             CASE o.result = "already" -> Local(o, To("verify"), "none")
               [] o.result \in {"ok", "progress"} ->
                    Local(o, To(IF o.half.rx.full THEN "pull_commit" ELSE "pull_request"), "pull")
               [] o.result = "busy" -> Local(o, p, owner[m])
               [] o.result \notin {"already", "ok", "progress", "busy"} ->
                    Local(o, Stopped(o.result), owner[m])

PullRequest ==
  /\ p.st = "pull_request" /\ ~ConvergeOnly(m)
  /\ LET Outcomes(r) == IF r.kind = "lost" THEN LostExchange
                        ELSE IF r.kind = "busy" THEN Keep(p)
                        ELSE IF r.kind = "chunk" /\ r.desc = p.desc THEN Keep(To("pull_write"))
                        ELSE HandleError(r)
     IN Send(Request("request", p.desc), Outcomes)

PullWrite ==
  /\ p.st = "pull_write"
  /\ \E o \in WriteCopy(store[m]) :
        Local(o, IF o.result = "ok" THEN To("pull_commit") ELSE Stopped(o.result), owner[m])

PullCommit ==
  /\ p.st = "pull_commit"
  /\ \E o \in CommitCopy(store[m], p.desc) :
        CASE o.result \in {"ok", "already"} -> Local(o, To("verify"), "none")
          [] o.result = "progress" -> Local(o, To("pull_step"), owner[m])
          [] o.result \notin {"ok", "already", "progress"} -> Local(o, Stopped(o.result), "none")

\* The store's own step ran first (StoreStep): this reads how the copy ended.
PullStep ==
  /\ p.st = "pull_step"
  /\ \E o \in Done(store[m], StateResult(store[m].rx)) :
        Local(o, IF o.result \in {"ok", "already"} THEN To("verify") ELSE Stopped(o.result), "none")

\* Behind an Apply the master only converges: its pull waits.
PullWaits ==
  /\ p.st \in {"pull_begin", "pull_request", "pull_write", "pull_commit", "pull_step"}
  /\ Calls /\ ConvergeOnly(m)
  /\ p' = Clean(Again("discover"))
  /\ UNCHANGED <<usb, store, active, own, other, owner, link, a, spent>>

(* ---- The slave's scan ----------------------------------------------------- *)

Transient(c) == IF c.reply.kind = "busy" THEN NoCached ELSE c   \* release_transient_busy_response
Idling(h)  == Scans(h) /\ ~Working(store[h].rx)
Take(kind) == Idling(s) /\ link.box.kind = kind
Held(H, d) == Busy(d, H.rx.desc = d /\ H.rx.full)               \* busy_offset
ReplyTo(d, o, full) == CASE o.result \in {"ok", "already"}   -> Ack(d, full)
                         [] o.result \in {"progress", "busy"} -> Held(o.half, d)
                         [] o.result \in {"storage", "stale", "conflict", "range"} -> Error(d, o.result)

\* The request is taken from the mailbox and its reply cached for its repeats.
Serve(o, reply, ow) ==
  /\ Spend("faults", o.fault, MaxFaults)
  /\ store' = [store EXCEPT ![s] = o.half] /\ owner' = [owner EXCEPT ![s] = ow]
  /\ link' = [link EXCEPT !.box = NoRequest, !.cached = [req |-> link.box, reply |-> reply]]
  /\ UNCHANGED <<usb, active, own, other, p, a>>
Decline == \E o \in Done(store[s], "busy") : Serve(o, Held(o.half, link.box.desc), owner[s])

TakeBegin ==
  /\ Take("begin") /\ ~ConvergeOnly(s)
  /\ LET d == link.box.desc IN
     \E o \in BeginCopy(store[s], d) :
        IF o.result \in {"ok", "already", "progress"}
        THEN Serve(o, Ack(d, o.half.rx.full), IF o.half.rx.st = "receiving" THEN "remote" ELSE "none")
        ELSE Serve(o, ReplyTo(d, o, FALSE), owner[s])

TakeChunk ==
  /\ Take("chunk") /\ ~ConvergeOnly(s)
  /\ LET d == link.box.desc IN
     IF owner[s] # "remote" \/ store[s].rx.desc # d THEN Decline
     ELSE \E o \in WriteCopy(store[s]) :
             Serve(o, ReplyTo(d, o, o.half.rx.full),
                   IF o.result \in {"ok", "busy", "progress"} THEN owner[s] ELSE "none")

TakeDurable ==
  /\ Take("durable") /\ ~ConvergeOnly(s)
  /\ LET d == link.box.desc IN
     \E o \in PrepareDurable(store[s], d) :
        Serve(o, ReplyTo(d, o, TRUE), CASE o.result \in {"ok", "already"} -> owner[s]
                                        [] o.result \in {"progress", "busy"} -> "remote"
                                        [] OTHER -> "none")

TakeCommit ==
  /\ Take("commit") /\ ~ConvergeOnly(s)
  /\ LET d == link.box.desc IN
     IF owner[s] # "remote" /\ store[s].rx.st \notin {"prepared", "committed"} THEN Decline
     ELSE \E o \in CommitCopy(store[s], d) :
             Serve(o, ReplyTo(d, o, TRUE),
                   IF o.result \in {"progress", "busy"} THEN "remote" ELSE "none")

TakeAbort ==
  /\ Take("abort")
  /\ LET d == link.box.desc
         c == store[s].rx
         same == c.desc = d
     IN \E o \in IF Abortable(c) /\ same THEN AbortCopy(store[s])
                 ELSE Done(store[s], IF Holds(c) THEN "busy"
                                     ELSE IF c.st = "committed" /\ same THEN "conflict" ELSE "ok") :
           Serve(o, ReplyTo(d, o, FALSE), IF o.result = "ok" /\ same THEN "none" ELSE owner[s])

TakePullRequest ==
  /\ Take("request")
  /\ LET d == link.box.desc IN
     \E o \in Done(store[s], "ok") :
        Serve(o, IF store[s].saved = d THEN Reply("chunk", d, FALSE, "none") ELSE Error(d, "stale"),
              owner[s])

\* A half that only converges takes no copy.
Refuse ==
  /\ \E kind \in {"begin", "chunk", "durable", "commit"} : Take(kind)
  /\ ConvergeOnly(s)
  /\ \E o \in Done(store[s], "busy") : Serve(o, Busy(link.box.desc, FALSE), owner[s])

\* A poll brings the master's saved record; one that holds no push, and another
\* record than the prepared copy, abandons that copy.
TakeMetadata ==
  /\ Take("metadata")
  /\ other' = [other EXCEPT ![s] = link.box.desc]
  /\ LET abandoned == link.box.free /\ store[s].rx.st = "prepared" /\ link.box.desc # store[s].rx.desc
     IN \E o \in IF abandoned THEN AbortCopy(store[s]) ELSE Done(store[s], "ok") :
           /\ Spend("faults", o.fault, MaxFaults)
           /\ store' = [store EXCEPT ![s] = o.half]
           /\ owner' = [owner EXCEPT ![s] = IF abandoned /\ o.result = "ok" THEN "none" ELSE @]
           /\ link' = [link EXCEPT !.box = NoRequest,
                                   !.cached = IF abandoned /\ o.result = "ok" THEN NoCached
                                              ELSE Transient(@)]
  /\ UNCHANGED <<usb, active, own, p, a>>

\* advance_store_transfer, on either half, before anything else of the scan
StoreStep(h) ==
  /\ Scans(h) /\ Working(store[h].rx)
  /\ \E o \in StepCopy(store[h]) :
        LET req == link.cached.req
            ended == o.result # "progress"
        IN /\ Spend("faults", o.fault, MaxFaults)
           /\ store' = [store EXCEPT ![h] = o.half]
           /\ owner' = [owner EXCEPT ![h] = IF ~ended THEN @
                                            ELSE IF o.half.rx.st = "prepared" THEN "remote" ELSE "none"]
           /\ link' = IF owner[h] = "remote" /\ req.kind \in {"durable", "commit"}
                      THEN [link EXCEPT !.cached.reply = ReplyTo(req.desc, o, TRUE)]
                      ELSE link
  /\ UNCHANGED <<usb, active, own, other, p, a>>

\* expire_remote_prepare: a copy the sender stopped feeding
ExpireCopy ==
  /\ Take("none") /\ store[s].rx.st = "receiving"
  /\ \E o \in AbortCopy(store[s]) :
        /\ Spend("faults", o.fault, MaxFaults)
        /\ store' = [store EXCEPT ![s] = o.half]
        /\ IF o.result = "ok"
           THEN /\ owner' = [owner EXCEPT ![s] = "none"]
                /\ other' = [other EXCEPT ![s] = Unreadable]
                /\ link' = [link EXCEPT !.cached = NoCached]
           ELSE link' = [link EXCEPT !.cached = Transient(@)] /\ UNCHANGED <<owner, other>>
  /\ UNCHANGED <<usb, active, own, p, a>>

\* A scan that finds no request drops a cached BUSY; after a long silence it
\* also forgets what it saw of the master.
QuietScan ==
  /\ Take("none")
  /\ link' = [link EXCEPT !.cached = Transient(@)]
  /\ other' \in {other, [other EXCEPT ![s] = Unreadable]}
  /\ UNCHANGED <<usb, store, active, own, owner, p, a, spent>>

(* ---- The master's Apply --------------------------------------------------- *)

Ready == own[m] = "ready"
Before(st) == Ready /\ a.st = st /\ a.cancel = "no"   \* no cancellation is under way
Superseded == other[m].gen >= a.cand.gen

BeginApply ==
  /\ Before("idle") /\ store[m].adm = "none" /\ store[m].saved.gen < MaxGen
  /\ \E x \in Profiles :
        a' = [NoApply EXCEPT !.st = "preparing",
                             !.cand = [gen |-> store[m].saved.gen + 1, origin |-> m, profile |-> x]]
  /\ store' = [store EXCEPT ![m].adm = "host", ![m].vouched = FALSE]
  /\ UNCHANGED <<usb, active, own, other, owner, link, p, spent>>

\* begin_or_advance_host_barrier: the prepared push begins
StartPush ==
  /\ Before("preparing") /\ ~Superseded
  /\ p.st \in Idle /\ ~p.on /\ ~p.orphan /\ owner[m] = "none"
  /\ p' = [NoPush EXCEPT !.st = "push_begin", !.desc = a.cand, !.on = TRUE]
  /\ a' = [a EXCEPT !.st = "pushing"]
  /\ UNCHANGED <<usb, store, active, own, other, owner, link, spent>>

Withdrawn(q) == IF q.st = "push_abort" THEN q
                ELSE IF ~q.started THEN [Cleared(q) EXCEPT !.st = "discover", !.why = "none"]
                ELSE [q EXCEPT !.st = "push_abort", !.why = "none"]

\* The client's abort, a timeout, a newer record seen on the other half, or a
\* copy that stopped for good; the slave's prepare is aborted first.
RequestCancel ==
  /\ Before("preparing") \/ Before("pushing")
  /\ IF a.st = "pushing"
     THEN /\ p.on /\ p.desc = a.cand /\ ~p.refused
          /\ p.st \notin {"push_commit", "verify", "converged"}
          /\ p' = Clean(Withdrawn(p))
     ELSE p' = p
  /\ a' = [a EXCEPT !.cancel = "soft"]
  /\ UNCHANGED <<usb, store, active, own, other, owner, link, spent>>

FinishCancel ==
  /\ Ready /\ a.cancel # "no" /\ ~p.on
  /\ store' = [store EXCEPT ![m].adm = "none", ![m].vouched = FALSE]
  /\ a' = NoApply
  /\ own' = [own EXCEPT ![m] = IF a.cancel = "storage" THEN "stopped" ELSE @]
  /\ UNCHANGED <<usb, active, other, owner, link, p, spent>>

FailCancel ==
  /\ Ready /\ a.cancel # "no" /\ ~p.on
  /\ Spend("faults", 1, MaxFaults)
  /\ own' = [own EXCEPT ![m] = "stopped"]
  /\ UNCHANGED <<usb, store, active, other, owner, link, p, a>>

\* The slave's copy is prepared: the master starts to commit its own record.
Decide ==
  /\ Before("pushing") /\ ~Superseded
  /\ p.on /\ p.st = "push_prepared" /\ p.desc = a.cand
  /\ a' = [a EXCEPT !.st = "committing"]
  /\ UNCHANGED <<usb, store, active, own, other, owner, link, p, spent>>

Commit ==
  /\ Before("committing")
  /\ store' = [store EXCEPT ![m].saved = a.cand, ![m].vouched = TRUE]
  /\ a' = [a EXCEPT !.st = "decided"]
  /\ UNCHANGED <<usb, active, own, other, owner, link, p, spent>>

\* The commit failed before its marker: the Apply ends, the slave's copy aborted.
CommitFails ==
  /\ Before("committing") /\ Spend("faults", 1, MaxFaults)
  /\ a' = [a EXCEPT !.st = "pushing", !.cancel = "storage"]
  /\ p' = Clean(Withdrawn(p))
  /\ UNCHANGED <<usb, store, active, own, other, owner, link>>

\* Whether the marker landed is unknown: only a restart can tell.
CommitUnknown ==
  /\ Before("committing") /\ Spend("faults", 1, MaxFaults)
  /\ a' = [a EXCEPT !.st = "unknown"]
  /\ own' = [own EXCEPT ![m] = "stopped"]
  /\ UNCHANGED <<usb, store, active, other, owner, link, p>>

\* advance_host_postcommit_barrier: the slave may commit
Authorize ==
  /\ Before("decided")
  /\ a' = [a EXCEPT !.st = "converging"]
  /\ p' = [p EXCEPT !.authz = TRUE, !.st = "push_commit"]
  /\ UNCHANGED <<usb, store, active, own, other, owner, link, spent>>

\* Mutant: the authorized commit counts as done.
ConfirmAtOnce ==
  /\ Before("converging")
  /\ a' = [a EXCEPT !.st = "activating"]
  /\ UNCHANGED <<usb, store, active, own, other, owner, link, p, spent>>

Confirm ==
  /\ Before("converging") /\ Settled(m)
  /\ a' = [a EXCEPT !.st = "activating"]
  /\ UNCHANGED <<usb, store, active, own, other, owner, link, p, spent>>

AuthorityLost ==
  /\ Before("converging") /\ ~Settled(m)
  /\ Compare(store[m].saved, other[m]) \in {"theirs", "clash"}
       \/ (p.st = "stopped" /\ p.why \in {"conflict", "storage"})
  /\ own' = [own EXCEPT ![m] = "stopped"]
  /\ UNCHANGED <<usb, store, active, other, owner, link, p, a, spent>>

ActivateApply ==
  /\ Before("activating")
  /\ active' = [active EXCEPT ![m] = store[m].saved]
  /\ store' = [store EXCEPT ![m].adm = "none"]
  /\ a' = NoApply
  /\ UNCHANGED <<usb, own, other, owner, link, p, spent>>

(* ---- Activation of a received or a booted record -------------------------- *)

ActivateCopy(h) ==
  /\ own[h] \in {"recon", "ready"}
  /\ store[h].rx.st = "committed" /\ store[h].adm = "peer" /\ Settled(h)
  /\ active' = [active EXCEPT ![h] = store[h].saved]
  /\ store' = [store EXCEPT ![h].adm = "none"]
  /\ own' = [own EXCEPT ![h] = "ready"]
  /\ UNCHANGED <<usb, other, owner, link, p, a, spent>>

BootConverged(h) ==
  /\ BootReady(h)
  /\ own' = [own EXCEPT ![h] = "activating"]
  /\ UNCHANGED <<usb, store, active, other, owner, link, p, a, spent>>

\* The activation needs the record its boot validated, and a settled other half
\* to publish it.
BootActivate(h) ==
  /\ own[h] = "activating" /\ store[h].vouched /\ Settled(h)
  /\ active' = [active EXCEPT ![h] = store[h].saved]
  /\ own' = [own EXCEPT ![h] = "ready"]
  /\ UNCHANGED <<usb, store, other, owner, link, p, a, spent>>

BootFails(h) ==
  /\ own[h] = "activating" /\ ~store[h].vouched
  /\ own' = [own EXCEPT ![h] = "stopped"]
  /\ UNCHANGED <<usb, store, active, other, owner, link, p, a, spent>>

(* ---- Power ---------------------------------------------------------------- *)

\* What flash can hold after the power is lost: a commit under way may have landed.
Survives(h) ==
  {store[h].saved}
  \cup (IF store[h].rx.st \in {"committing", "reconcile"} THEN {store[h].rx.desc} ELSE {})
  \cup (IF h = m /\ a.st \in {"committing", "unknown"} THEN {a.cand} ELSE {})

\* The halves H boot with the records r; the cable is in half u from now on.
Boot(H, r, u) ==
  /\ Spend("restarts", 1, MaxRestarts)
  /\ usb' = u
  /\ store'  = [h \in Halves |-> IF h \in H THEN Booted(r[h]) ELSE store[h]]
  /\ active' = [h \in Halves |-> IF h \in H THEN NoRecord ELSE active[h]]
  /\ own'    = [h \in Halves |-> IF h \in H THEN IF r[h] = NoRecord THEN "ready" ELSE "recon"
                                 ELSE own[h]]
  /\ other'  = [h \in Halves |-> IF h \in H THEN Unreadable ELSE other[h]]
  /\ owner'  = [h \in Halves |-> IF h \in H THEN "none" ELSE owner[h]]
  /\ p' = IF m \in H THEN NoPush ELSE p
  /\ a' = IF m \in H THEN NoApply ELSE a
  /\ link' = IF s \in H THEN NoLink ELSE [link EXCEPT !.wire = NoReply]

Restart(h) == \E r \in Survives(h) : Boot({h}, [k \in Halves |-> r], usb)

\* Without its cable the keyboard has no power; it may come back on the other half.
MoveCable ==
  \E r \in Survives(m), q \in Survives(s), u \in Halves :
     Boot(Halves, [h \in Halves |-> IF h = m THEN r ELSE q], u)

Apply == \/ BeginApply \/ StartPush \/ RequestCancel \/ FinishCancel \/ FailCancel
         \/ Decide \/ Commit \/ CommitFails \/ CommitUnknown
         \/ Authorize \/ Confirm \/ AuthorityLost \/ ActivateApply
Reconcile == \/ Metadata \/ PushBegin \/ PushSend \/ PushDurable \/ PushCommit
             \/ PushAbort \/ OrphanAbort
             \/ PullBegin \/ PullRequest \/ PullWrite \/ PullCommit \/ PullStep \/ PullWaits
Answering == \/ TakeMetadata \/ TakeBegin \/ TakeChunk \/ TakeDurable \/ TakeCommit
             \/ TakeAbort \/ TakePullRequest \/ Refuse \/ ExpireCopy \/ QuietScan
Halfwise(h) == \/ StoreStep(h) \/ ActivateCopy(h)
               \/ BootConverged(h) \/ BootActivate(h) \/ BootFails(h) \/ Restart(h)

Next == Apply \/ Reconcile \/ Answering \/ MoveCable \/ \E h \in Halves : Halfwise(h)

Spec == Init /\ [][Next]_vars

(* ---- Properties ----------------------------------------------------------- *)

PairedRecord == INSTANCE PairedRecord WITH saved <- [h \in Halves |-> store[h].saved]

\* Whatever is lost, repeated, cut or replayed, the two saved records move as
\* PairedRecord allows: a new record is decided by the half whose Apply it is,
\* while both halves hold the same record, and then only copied.
ImplementsPairedRecord == PairedRecord!Spec

\* Nothing activates on a half before the other half has committed: no keyboard
\* runs a record the other half does not hold, or has not already replaced.
NothingActivatesAlone ==
  \A h \in Halves :
     /\ active[h].gen <= store[Other(h)].saved.gen
     /\ active[h].gen = store[Other(h)].saved.gen => active[h] = store[Other(h)].saved
=============================================================================
