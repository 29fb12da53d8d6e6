-------------------------- MODULE MCAssuranceService --------------------------
(***************************************************************************)
(* A small instance of AssuranceService: a Deployment and one of its Pods, *)
(* whose evidence ListBySubject also returns for the Deployment.           *)
(***************************************************************************)
EXTENDS AssuranceService, TLC

MCRelated == {<<"web-7f", "web">>}
MCTypes == {<<"kubernetes", "admission">>, <<"network">>}
MCSymmetry == Permutations(Callers) \cup Permutations(IDs)
=============================================================================
