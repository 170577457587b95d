------------------------------ MODULE ActiveProfile ------------------------------
(* The profile a half's keyboard reads, as its provider keeps it                 *)
(* (active_profile_provider.c): the snapshot in use, the one it replaced, the    *)
(* one that waits for a safe boundary, and the flash slot handed out to be       *)
(* rewritten.  A snapshot borrows its bytes: it names a slot of the store, never *)
(* a copy of it.  Like OtherHalfStore, a module of operators on one record.      *)
(* A working copy keeps its own bytes in RAM; its snapshot remembers the saved   *)
(* record it was edited from, which a revert publishes again.                    *)
EXTENDS Naturals

NoSlot     == "none"
NoPayload  == <<>>
NoSnapshot == [kind |-> "none", slot |-> NoSlot, gen |-> 0, prof |-> NoPayload]
Compiled   == [NoSnapshot EXCEPT !.kind = "compiled"]
Saved(r)   == [kind |-> "saved", slot |-> r.slot, gen |-> r.gen, prof |-> r.prof]
Edited(s)  == [s EXCEPT !.kind = "working"]
Base(s)    == [s EXCEPT !.kind = IF s.gen = 0 THEN "compiled" ELSE "saved"]

NewProvider == [active |-> Compiled, rollback |-> NoSnapshot, pending |-> NoSnapshot,
                reuse |-> NoSlot]

\* An identity tells kind, generation and payload, not where the bytes lie.
SameIdentity(s, o) == <<s.kind, s.gen, s.prof>> = <<o.kind, o.gen, o.prof>>
Borrows(s, slot)   == s.kind = "saved" /\ s.slot = slot

\* mutation_guard: while a slot is handed out nothing else may change.
Guarded(p) == p.reuse # NoSlot

RequestResult(p, s) ==
  CASE Guarded(p)                                         -> "reuse"
    [] ~Guarded(p) /\ \E o \in {p.active, p.pending} : SameIdentity(o, s) -> "no_change"
    [] OTHER ->
         IF s.gen <= p.active.gen            THEN "stale"
         ELSE IF Borrows(p.active, s.slot)   THEN "pinned"
         ELSE IF Borrows(p.rollback, s.slot) THEN "busy"
         ELSE IF p.pending # NoSnapshot      THEN "busy"
         ELSE "ok"
Requested(p, s) == IF RequestResult(p, s) = "ok" THEN [p EXCEPT !.pending = s] ELSE p

\* The replaced snapshot is kept as the one to roll back to.
CanPublish(p) == ~Guarded(p) /\ p.pending # NoSnapshot
Published(p)  == [p EXCEPT !.active = p.pending, !.rollback = p.active, !.pending = NoSnapshot]

\* An edit or a revert keeps the base; no rollback crosses a working copy.
CanReplace(p, s) == ~Guarded(p) /\ s.gen = p.active.gen /\ p.pending = NoSnapshot
                    /\ "working" \in {s.kind, p.active.kind}
Replaced(p, s)   == [p EXCEPT !.active = s, !.rollback = NoSnapshot]

\* Mutant: the snapshot to roll back to keeps its slot while it is rewritten.
KeepsRollback(p, slot) == [p EXCEPT !.reuse = slot]

\* A slot is handed out unless the profile in use or a waiting one reads it.
ReuseDenied(p, slot) == Guarded(p) \/ Borrows(p.active, slot) \/ Borrows(p.pending, slot)
Reusing(p, slot)     == [p EXCEPT !.reuse    = slot,
                                  !.rollback = IF Borrows(@, slot) THEN NoSnapshot ELSE @]
Returned(p)          == [p EXCEPT !.reuse = NoSlot]
=================================================================================
