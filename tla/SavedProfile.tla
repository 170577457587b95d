---------------------------- MODULE SavedProfile ----------------------------
(***************************************************************************)
(* What a half's storage promises: one durable profile that a save         *)
(* replaces at a single instant.  A proposal is newer than the value it    *)
(* would replace, nothing but the decision makes it the value, and it may  *)
(* be dropped at any time, by an abort, a failure or a power cut.          *)
(***************************************************************************)
EXTENDS Naturals

CONSTANTS Profiles, MaxGen, NoRecord

Records == [gen : 1 .. MaxGen, prof : Profiles]

VARIABLES
    value,     \* the durable profile, or NoRecord
    proposal,  \* the save in progress, or NoRecord
    decided    \* the proposal may become the value

vars == <<value, proposal, decided>>

TypeOK ==
    /\ value \in Records \cup {NoRecord}
    /\ proposal \in Records \cup {NoRecord}
    /\ decided \in BOOLEAN

Init == value = NoRecord /\ proposal = NoRecord /\ decided = FALSE

Propose ==
    /\ proposal = NoRecord /\ proposal' \in Records
    /\ value # NoRecord => proposal'.gen > value.gen
    /\ UNCHANGED <<value, decided>>

Decide ==
    /\ proposal # NoRecord /\ ~decided
    /\ decided' = TRUE /\ UNCHANGED <<value, proposal>>

(* The instant of the commit; a caller told so at once needs no Drop.      *)
Commit ==
    /\ decided
    /\ value' = proposal
    /\ \/ UNCHANGED <<proposal, decided>>
       \/ proposal' = NoRecord /\ decided' = FALSE

Drop ==
    /\ proposal # NoRecord
    /\ proposal' = NoRecord /\ decided' = FALSE /\ UNCHANGED value

Next == Propose \/ Decide \/ Commit \/ Drop

Spec == Init /\ [][Next]_vars

=============================================================================
