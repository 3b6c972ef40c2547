----------------------------- MODULE MCConsole -----------------------------
(* An instance of Console for TLC. *)
EXTENDS Console, TLC

TwoAtOnce == Permutations(Callers)

\* Rows that run what neither the walkthrough nor the wallet's inbox does.
SomeRows ==
    { <<"request", "approve", "verify">>, <<"request", "precheck">>, <<"failExpired", "renew">>,
      <<"reuse">>, <<"ckyc">>, LifecyclePolish, <<"lifecycle">>, <<"simulateDemo">>, <<"health">> }
SomePageRows == Pages \ IssuePage

\* A request, so that a consent is shown, and the scenarios that make their own.
ScenarioRows == {<<"request">>} \cup Scenarios

\* How much of anything happens in all.  A third row is alone, one that decides on two
\* consents, takes one back, verifies, follows an expiry or goes on with a walkthrough
\* that has its consent; once a second has started nothing but a consent's expiry comes
\* between, or the page is left and the walkthrough alone goes on.  Of rows that change
\* nothing shown, and of the pages', there are two with nothing between, or one, beside
\* the walkthrough only those about the nominee and beside one another only the home
\* page's.  A walkthrough that has stopped where one may be found is left alone by all
\* but one row.  Somebody is signed in at first, and a token that is gone already was of
\* a walkthrough.
Disturbances ==
    logins + lapses + leaves + Cardinality(Expired) + IF resetAt > 0 THEN 1 ELSE 0
Aside ==
    { <<"lifecycle">>, <<"simulateDemo">>, <<"health">>, <<"request", "precheck">>,
      LifecyclePolish }
        \cup SomePageRows
AfterExpiry == <<"failExpired", "renew">>
Late == {AfterExpiry, <<"approve", "approve", "list">>, <<"revoke", "list">>, <<"verify">>}
IsLate(op) == op.ops \in Late \/ (op.guided /\ op.step >= 3)
BesideOthers ==
    \/ nominee \notin StoredNominee
    \/ \E r \in Callers : run[r].ops \in Aside
AtFirst ==
    /\ direct["fi"].user # NoUser \/ direct["wallet"].user = Owner
    /\ (guided.step = 0 <=> made = 0) \/ active # {}
LeftAlone ==
    /\ guided.step \in StoredSteps \ {0} /\ ~guided.running
    /\ \E r \in InFlight : ~run[r].guided
Bounded ==
    /\ LeftAlone => started <= 1
    /\ (\A r \in Callers : run[r].ops \in Aside) => \A r \in Callers : run[r].ops \in HomePage
    /\ started + Disturbances = 0 => AtFirst
    /\ Walking # {} =>
          \A r \in InFlight : run[r].ops \notin Aside \ (NomineesPage \cup DelegationsPage)
    /\ started = 2 => \/ Disturbances = Cardinality(Expired)
                      \/ Disturbances = leaves /\ Walking = InFlight
    /\ Expired # {} => Cardinality(InFlight) <= 1
    /\ \/ /\ started + Disturbances <= 3 /\ started <= 2
          /\ BesideOthers => started + 2 * Disturbances <= 2
       \/ /\ Cardinality(InFlight) <= 1
          /\ Disturbances = Cardinality(Expired) /\ Disturbances <= 1
          /\ BesideOthers => started <= 2
          /\ started = 3 => \A r \in InFlight : IsLate(run[r])
          /\ started = 3 /\ Expired # {} => \A r \in InFlight : run[r].ops = AfterExpiry
=============================================================================
