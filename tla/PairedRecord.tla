------------------------------ MODULE PairedRecord ------------------------------
(* What the two halves promise about their saved records, whatever the link, the *)
(* power and the flash do: a new record is decided by one half, while both hold  *)
(* the same one, and then only copied.  So at most one half is ever a record     *)
(* ahead, and two different records never carry one generation.                  *)
EXTENDS Naturals

CONSTANTS Halves, Profiles, MaxGen

VARIABLE saved    \* per half: the record its flash holds as committed

NoRecord == [gen |-> 0]
Records  == [gen : 1..MaxGen, origin : Halves, profile : Profiles]

Init == saved = [h \in Halves |-> NoRecord]

\* A half that agrees with the other commits the next generation first.
Decide(h) ==
  /\ \A k \in Halves : saved[k] = saved[h]
  /\ \E r \in Records :
        /\ r.gen = saved[h].gen + 1
        /\ r.origin = h
        /\ saved' = [saved EXCEPT ![h] = r]

\* The half that lacks the newest record takes it from the other.
Copy(h) ==
  \E k \in Halves :
     /\ saved[k].gen > saved[h].gen
     /\ saved' = [saved EXCEPT ![h] = saved[k]]

Next == \E h \in Halves : Decide(h) \/ Copy(h)

Spec == Init /\ [][Next]_saved
=============================================================================
