-------------------------- MODULE MCConsentManager --------------------------
(* consent-manager with small sets of consents, requests and grants.       *)
EXTENDS ConsentManager, TLC

CONSTANTS o, d1, name, pan, periodic, loan

\* A periodic update of two fields anyone may decide on, and a loan of which a
\* nominee must decide.
SomeInputs ==
    {[purpose |-> periodic, requested |-> {name, pan}, requiresDelegation |-> FALSE, ttl |-> 2],
     [purpose |-> loan, requested |-> {name}, requiresDelegation |-> TRUE, ttl |-> 1]}

\* One delegation covers both purposes and one field, one all fields and one purpose.
SomeGrants ==
    {[delegate |-> d1, scope |-> "consent.approve", purposes |-> {periodic, loan},
      fields |-> {name}, expiresAt |-> 2],
     [delegate |-> d1, scope |-> "*", purposes |-> {periodic}, fields |-> {name, pan},
      expiresAt |-> 1]}

NoGrants == {}

\* Three requests about one periodic update, which only its owner decides on,
\* with a token that stays ACTIVE ...
OneUpdate ==
    /\ activeToken # NoToken
    /\ \A c \in ConsentIds : consent[c].purpose = periodic
    /\ Cardinality({c \in ConsentIds : Exists(c)}) <= 1
    /\ delegations = <<>>
    /\ \A r \in Requests : req[r].actor = Owner

\* ... or two requests about two consents, with a delegate while the token is
\* ACTIVE and no re-consent is asked for.
TwoConsents ==
    /\ Cardinality({r \in Requests : ~IsNew(r)}) <= 2
    /\ delegations # <<>> => activeToken # NoToken /\ ~reconsent

Bounded == OneUpdate \/ TwoConsents

Symmetry == Permutations(Requests) \cup Permutations(ConsentIds)

=============================================================================
