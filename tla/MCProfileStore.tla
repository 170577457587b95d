---------------------------- MODULE MCProfileStore ----------------------------
(* Two payloads of one and two pages and a malformed one; a sector of five *)
(* pages, so the second payload page lies in the second sector.  The       *)
(* marker's bits: one that every marker clears, the one that commits by    *)
(* clearing, and the one only an abort clears.                             *)
EXTENDS ProfileStore

CONSTANTS long, short, bad

MCLen == [x \in Profiles |-> IF x = long THEN 2 ELSE 1]
MCMalformed == Profiles \cap {bad}

=============================================================================
