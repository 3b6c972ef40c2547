--------------------------- MODULE RegistryLedger ---------------------------
(***************************************************************************)
(* What registry-service promises to those who read it: a token starts     *)
(* ACTIVE, each change of its row is one atomic step that makes the next   *)
(* version and is the next entry of its history, no change leads back to   *)
(* ACTIVE, and a token that is SUPERSEDED, no other, names its successor.  *)
(* How requests, locks, hashes and clocks bring this about is not its      *)
(* business: see Registry, which implements it.                            *)
(***************************************************************************)
EXTENDS Naturals, Sequences

CONSTANTS TokenIds, Statuses, NoToken

VARIABLES
    row,        \* status, version and successor of each token
    history     \* the statuses each token has had

Init ==
    /\ row = [t \in TokenIds |-> [status |-> "ABSENT", version |-> 0, supersededBy |-> NoToken]]
    /\ history = [t \in TokenIds |-> <<>>]

\* The next version of a row becomes visible together with its history.
Record(t, status, successor) ==
    /\ row' = [row EXCEPT ![t] = [status |-> status, version |-> Len(history[t]) + 1,
                                  supersededBy |-> successor]]
    /\ history' = [history EXCEPT ![t] = Append(@, status)]

Issue(t) == history[t] = <<>> /\ Record(t, "ACTIVE", NoToken)

Change(t, status, successor) ==
    /\ history[t] # <<>>
    /\ status # "ACTIVE"
    /\ status = "SUPERSEDED" <=> successor # NoToken
    /\ Record(t, status, successor)

Next ==
    \/ \E t \in TokenIds : Issue(t)
    \/ \E t \in TokenIds, status \in Statuses, successor \in TokenIds \cup {NoToken} :
          Change(t, status, successor)

Spec == Init /\ [][Next]_<<row, history>>

=============================================================================
