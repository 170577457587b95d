----------------------------- MODULE OtherHalfStore -----------------------------
(* The storage one half offers to the other: the copy it receives, prepares and  *)
(* commits (profile_other_half_store_backend.c over                              *)
(* profile_candidate_store_backend.c).  The module has no state of its own: a    *)
(* half's storage is a record                                                    *)
(*    saved    the record flash holds as committed (NoRecord: compiled defaults) *)
(*    rx       the copy being received: state, record, whether its whole payload *)
(*             arrived, whether it commits without a prepared marker (the        *)
(*             repair and pull paths), and why it was rejected                   *)
(*    adm      who holds the storage admission: nobody, this half's own Apply    *)
(*             ("host"), or the copy of the other half ("peer")                  *)
(*    vouched  the backend's saved_available with validation_complete: RAM still *)
(*             knows the saved record as validated                               *)
(* and each operation returns the set of outcomes it can have: the storage after *)
(* it, its result, and whether flash failed.                                     *)
(* The flash itself, and when a save lands on it, is the module ProfileStore; a  *)
(* payload is one chunk; a copy is always compatible and valid, as the sender    *)
(* validated the bytes that arrive.                                              *)
EXTENDS Naturals

CONSTANTS Halves,     \* the two halves
          Profiles,   \* payloads an Apply can carry
          MaxGen      \* bound on generations

Records    == [gen : 1..MaxGen, origin : Halves, profile : Profiles]
NoRecord   == [gen |-> 0]
Unreadable == [gen |-> 0, unreadable |-> TRUE]   \* no descriptor of the other half is known

NoCopy == [st |-> "idle", desc |-> NoRecord, full |-> FALSE, auto |-> FALSE, why |-> "none"]
Booted(saved) == [saved |-> saved, rx |-> NoCopy, adm |-> "none", vouched |-> saved # NoRecord]

Done(H, r)  == {[half |-> H, result |-> r, fault |-> 0]}
Fails(H, r) == {[half |-> H, result |-> r, fault |-> 1]}

Working(c)   == c.st \in {"validating", "preparing", "committing"}
Holds(c)     == c.st \in {"receiving", "prepared", "reconcile"} \/ Working(c)
Abortable(c) == c.st \in {"receiving", "validating", "prepared"}

StateResult(c) ==
  CASE c.st = "receiving" \/ Working(c) -> "progress"
    [] c.st \in {"prepared", "idle"}    -> "ok"
    [] c.st = "committed"               -> "already"
    [] c.st = "reconcile"               -> "storage"
    [] c.st = "rejected"                -> c.why

\* set_terminal(REJECTED): the descriptor, the offset and the admission stay.
Rejected(H, why) == [H EXCEPT !.rx.st = "rejected", !.rx.auto = FALSE, !.rx.why = why]

\* abort_rejected: an open prepare is aborted, and the admission given back.
AbortRejected(H, why) == [Rejected(H, why) EXCEPT !.adm = "none", !.vouched = FALSE]

BeginCopy(H, d) ==
  CASE Holds(H.rx) ->
         Done(H, IF H.rx.desc = d THEN StateResult(H.rx) ELSE "busy")
    [] H.rx.st = "committed" /\ H.rx.desc = d ->
         Done(H, "already")
    [] OTHER ->
         IF H.saved = d
         THEN IF H.vouched
              THEN Done([H EXCEPT !.rx = [NoCopy EXCEPT !.st = "committed", !.desc = d,
                                                        !.full = TRUE]], "already")
              ELSE Done(Rejected(H, "busy"), "busy")
         ELSE IF d.gen < H.saved.gen THEN Done(Rejected(H, "stale"), "stale")
         ELSE IF d.gen = H.saved.gen THEN Done(Rejected(H, "conflict"), "conflict")
         ELSE IF H.adm # "none"      THEN Done(Rejected(H, "busy"), "busy")
         ELSE Done([H EXCEPT !.rx = [NoCopy EXCEPT !.st = "receiving", !.desc = d],
                             !.adm = "peer", !.vouched = FALSE], "ok")
              \cup Fails(Rejected(H, "storage"), "storage")

\* The one chunk of the payload; a repeat of it is compared with what was kept.
WriteCopy(H) ==
  IF H.rx.st # "receiving"
  THEN Done(H, IF H.rx.st = "idle" THEN "busy" ELSE StateResult(H.rx))
  ELSE Done([H EXCEPT !.rx.full = TRUE], "ok")
       \cup Fails(AbortRejected(H, "storage"), "storage")

\* Mutant: a copy is committed as soon as it is durable.
DurableCommits(H, d) ==
  IF H.rx.desc = d /\ H.rx.st = "receiving" /\ H.rx.full
  THEN Done([H EXCEPT !.rx.st = "validating", !.rx.auto = TRUE], "progress")
  ELSE Done(H, IF H.rx.desc = d THEN StateResult(H.rx) ELSE "conflict")

PrepareDurable(H, d) ==
  CASE H.rx.desc # d         -> Done(H, "conflict")
    [] H.rx.desc = d /\ ~(H.rx.st = "receiving" /\ H.rx.full)
                             -> Done(H, StateResult(H.rx))
    [] H.rx.desc = d /\ H.rx.st = "receiving" /\ H.rx.full
                             -> Done([H EXCEPT !.rx.st = "validating"], "progress")

\* PREPARE_COMMIT on a prepared copy commits that copy; otherwise on a received
\* one it validates and commits without the prepared marker.
CommitCopy(H, d) ==
  LET c == H.rx IN
  CASE c.desc # d -> Done(H, IF c.st \in {"committing", "reconcile"}
                             THEN StateResult(c) ELSE "conflict")
    [] c.desc = d /\ c.st = "prepared" ->
         Done([H EXCEPT !.rx.st = "committing"], "progress")
    [] c.desc = d /\ c.st = "receiving" /\ c.full ->
         Done([H EXCEPT !.rx.st = "validating", !.rx.auto = TRUE], "progress")
    [] c.desc = d /\ c.st = "receiving" /\ ~c.full ->
         Done(AbortRejected(H, "range"), "range")
    [] c.desc = d /\ c.st \notin {"prepared", "receiving"} -> Done(H, StateResult(c))

\* One bounded step of a validating, preparing or committing copy; each of the
\* three is modelled by the step that ends it.
StepCopy(H) ==
  CASE H.rx.st = "validating" ->
         Done([H EXCEPT !.rx.st = IF H.rx.auto THEN "committing" ELSE "preparing"], "progress")
         \cup Fails(AbortRejected(H, "storage"), "storage")
    [] H.rx.st = "preparing" ->
         Done([H EXCEPT !.rx.st = "prepared"], "ok")
         \cup Fails(AbortRejected(H, "storage"), "storage")
    [] H.rx.st = "committing" ->
         Done([H EXCEPT !.saved = H.rx.desc, !.vouched = TRUE,
                        !.rx.st = "committed", !.rx.auto = FALSE], "ok")
         \cup Fails(AbortRejected(H, "storage"), "storage")
         \cup Fails([H EXCEPT !.rx.st = "reconcile", !.rx.auto = FALSE], "storage")

\* abort() of the copy the store holds, while a commit decision is not durable.
AbortCopy(H) ==
  Done([H EXCEPT !.rx = NoCopy, !.adm = "none", !.vouched = FALSE], "ok")
  \cup Fails(AbortRejected(H, "storage"), "storage")
=============================================================================
