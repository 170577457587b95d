---------------------------- MODULE MCCandidateApply ----------------------------
(* CandidateApply on a small instance. *)
EXTENDS CandidateApply
MCProfiles == {<<"a", "b">>, <<"b", "a">>}
=================================================================================
