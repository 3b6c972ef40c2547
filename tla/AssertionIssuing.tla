-------------------------- MODULE AssertionIssuing --------------------------
(***************************************************************************)
(* What consent-manager promises to those who rely on its consents and its *)
(* assertions (fi-service): the terms of a consent never change, an        *)
(* assertion discloses some of the requested fields, lives AssertionTtl    *)
(* and has a jti no other assertion of its consent has, and a consent is   *)
(* APPROVED or REVOKED only once an assertion of it was signed.  That a    *)
(* settled consent is not settled again is not promised: requests that     *)
(* overlap overwrite each other's status.  ConsentManager implements this  *)
(* module, FiService takes it as its environment.                          *)
(***************************************************************************)
EXTENDS Naturals

CONSTANTS
    ConsentIds,     \* ids of consents
    Terms,          \* what can be agreed on: purpose, requested fields, token
    Lifetimes,      \* how far ahead of its insertion a consent ends
    AssertionTtl,   \* the life of an assertion
    NoTerms         \* the terms of a consent that does not exist

VARIABLES
    now,            \* the clock
    terms,          \* the terms of each consent, with the end of its life
    status,         \* the status of each consent, "ABSENT" before it exists
    issued          \* the assertions signed so far

vars == <<now, terms, status, issued>>

Init ==
    /\ now = 0
    /\ terms = [c \in ConsentIds |-> NoTerms]
    /\ status = [c \in ConsentIds |-> "ABSENT"]
    /\ issued = {}

Tick == now' = now + 1 /\ UNCHANGED <<terms, status, issued>>

Open(c, t, lifetime) ==
    /\ status[c] = "ABSENT"
    /\ now + lifetime \in Nat
    /\ terms' = [terms EXCEPT ![c] = [agreed |-> t, expiresAt |-> now + lifetime]]
    /\ status' = [status EXCEPT ![c] = "PENDING"]
    /\ UNCHANGED <<now, issued>>

Assertion(c, jti, scope) == [consent |-> c, jti |-> jti, scope |-> scope, exp |-> now + AssertionTtl]

\* The assertion a is signed, in whatever status its consent is by now.
Issue(a) ==
    /\ a \notin issued
    /\ a = Assertion(a.consent, a.jti, a.scope)
    /\ status[a.consent] # "ABSENT"
    /\ a.scope # {}
    /\ a.scope \subseteq terms[a.consent].agreed.requested
    /\ \A b \in issued : b.consent = a.consent => b.jti # a.jti
    /\ issued' = issued \cup {a}
    /\ UNCHANGED <<now, terms, status>>

\* A decision on a consent, or its expiry.
Settle(c, decision) ==
    /\ status[c] # "ABSENT"
    /\ decision \in {"APPROVED", "REVOKED"} => \E a \in issued : a.consent = c
    /\ status' = [status EXCEPT ![c] = decision]
    /\ UNCHANGED <<now, terms, issued>>

Next ==
    \/ Tick
    \/ \E c \in ConsentIds, t \in Terms, lifetime \in Lifetimes : Open(c, t, lifetime)
    \/ \E a \in issued' : Issue(a)
    \/ \E c \in ConsentIds, decision \in {"APPROVED", "REJECTED", "REVOKED", "EXPIRED"} :
          Settle(c, decision)

Spec == Init /\ [][Next]_vars

=============================================================================
