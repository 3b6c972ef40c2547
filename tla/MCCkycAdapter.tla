--------------------------- MODULE MCCkycAdapter ---------------------------
(* An instance of CkycAdapter, and of IssuerService under it, for TLC. *)
EXTENDS CkycAdapter, FiniteSets, TLC

Symmetry == Permutations(Requests) \cup Permutations(Callers)

\* Either a third token is made, as two reissues at once take, or the profile is
\* updated, as a version that goes back takes.  Sweeps find one token due.
Bounded ==
    /\ made < 3 \/ profile < 2
    /\ Cardinality(due) <= 1
=============================================================================
