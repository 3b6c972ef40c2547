---------------------------- MODULE MCFiService ----------------------------
(* Instances of FiService for TLC. *)
EXTENDS FiService, TLC

CONSTANTS c1, c2, t1, kyc, f1, f2

MCTerms == {[purpose |-> kyc, requested |-> {f1, f2}, token |-> t1]}
MCLifetimes == {1}
MCDecisions == {"APPROVED"}

Symmetry == Permutations(Requests) \cup Permutations(ConsentIds) \cup Permutations({f1, f2})
=============================================================================
