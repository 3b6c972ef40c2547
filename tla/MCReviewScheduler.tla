-------------------------- MODULE MCReviewScheduler --------------------------
(* An instance of ReviewScheduler for TLC: two tiers, reviewed every year. *)
EXTENDS ReviewScheduler

MCInterval == [tier \in {"HIGH", "LOW"} |-> 1]
=============================================================================
