------------------------------ MODULE FiService ------------------------------
(***************************************************************************)
(* fi-service (apps/fi-service): the requests of one FI, and the           *)
(* verification of the assertions it is handed.  A verification reads the  *)
(* FI's row, then the consent, then the registry's status of the token,    *)
(* takes two guards in Redis and writes the row, with no transaction       *)
(* around any of it, so verifications and revocations of one request       *)
(* interleave at each of these calls.  consent-manager is the environment, *)
(* as AssertionIssuing promises it.                                        *)
(*                                                                         *)
(* Assertions of consents of another FI fail the audience check as those   *)
(* of another purpose do, so there is one FI.  An assertion's nonce is     *)
(* that of its consent.  Of the audit events only those that tell of a     *)
(* successful verification are kept: nothing is asked of the others.       *)
(***************************************************************************)
EXTENDS Integers, FiniteSets

CONSTANTS
    ConsentIds, Terms, Lifetimes, AssertionTtl, NoTerms,    \* see AssertionIssuing
    Decisions,      \* statuses a consent may be settled in, by the wallet or a sweep
    MaxAssertions,  \* bound on the assertions signed
    TokenIds,       \* the users' tokens
    Requests,       \* requests ever made of this service, to any replica
    MaxTime,        \* bound on the clock
    NoConsent,      \* the request has not begun
    NoAssertion     \* the request is not about an assertion

ASSUME FiAssumption ==
    /\ Lifetimes \subseteq Int
    /\ AssertionTtl \in Nat \ {0}
    /\ Decisions \subseteq {"APPROVED", "REJECTED", "REVOKED", "EXPIRED"}
    /\ MaxAssertions \in Nat
    /\ NoConsent \notin ConsentIds

VARIABLES now, terms, status, issued        \* consent-manager's, see AssertionIssuing

VARIABLES
    activeTokens,   \* the tokens registry-service calls ACTIVE
    fiRequest,      \* status of the FI's row of each consent, "NONE" if it has no row
    jtiGuard,       \* of each assertion, when the Redis key of its jti expires
    nonceGuard,     \* of each consent, when the Redis key of its nonce expires
    accepted,       \* the verifications that passed, with the time they did
    trail,          \* of each row, how many ASSERTION_VERIFIED events with success
    req,            \* the requests in flight
    interrupted     \* rows a request died on while it owed their success event

consents == <<now, terms, status, issued>>
rows == <<fiRequest, trail>>
guards == <<jtiGuard, nonceGuard>>
vars == <<consents, activeTokens, rows, guards, accepted, req, interrupted>>

Issuing == INSTANCE AssertionIssuing

Jtis == 1 .. MaxAssertions

Statuses == {"ABSENT", "PENDING", "APPROVED", "REJECTED", "REVOKED", "EXPIRED"}

AllTerms == [agreed: Terms, expiresAt: Nat]

Assertions == [consent: ConsentIds, jti: Jtis, scope: SUBSET UNION {t.requested : t \in Terms},
               exp: Nat]

\* A request: how far it is, the row it is about, the assertion it was handed,
\* ttlSeconds of its guards.
New == [pc |-> "new", consent |-> NoConsent, assertion |-> NoAssertion, ttl |-> 0]

Done == [New EXCEPT !.pc = "done"]

RequestRecords ==
    [pc: {"new", "row", "bound", "checked", "tokenActive", "jtiTaken", "accepted", "refused",
          "revoked", "verified", "done"},
     consent: ConsentIds \cup {NoConsent}, assertion: Assertions \cup {NoAssertion}, ttl: Nat]

IsNew(r) == req[r].pc = "new"

\* The request goes on at pc.
Goto(r, pc) == req' = [req EXCEPT ![r].pc = pc]

\* From here on only the row it is about matters.
Proceed(r, pc) == req' = [req EXCEPT ![r] = [New EXCEPT !.pc = pc, !.consent = req[r].consent]]

Refuse(r) == Proceed(r, "refused")

Finish(r) == req' = [req EXCEPT ![r] = Done]

-----------------------------------------------------------------------------
(* The pure part                                                           *)

\* evaluateConsentStatusForVerification, on the consent as it is now.
ConsentIsGood(c) == status[c] = "APPROVED" /\ now <= terms[c].expiresAt

Agreed(c) == terms[c].agreed

\* What verifyAssertion compares: audience, purpose and scope.  The consent the
\* assertion belongs to is not compared with the one of the row.
Matches(a, c) ==
    /\ Agreed(a.consent).purpose = Agreed(c).purpose
    /\ a.scope = Agreed(c).requested

-----------------------------------------------------------------------------
(* consent-manager and registry-service                                    *)

Init ==
    /\ Issuing!Init
    /\ activeTokens = TokenIds
    /\ fiRequest = [c \in ConsentIds |-> "NONE"]
    /\ jtiGuard = [k \in ConsentIds \X Jtis |-> 0]
    /\ nonceGuard = [c \in ConsentIds |-> 0]
    /\ accepted = {}
    /\ trail = [c \in ConsentIds |-> 0]
    /\ req = [r \in Requests |-> New]
    /\ interrupted = {}

Tick ==
    /\ now < MaxTime
    /\ Issuing!Tick
    /\ UNCHANGED <<activeTokens, rows, guards, accepted, req, interrupted>>

OpenConsent(c, t, lifetime) ==
    /\ Issuing!Open(c, t, lifetime)
    /\ UNCHANGED <<activeTokens, rows, guards, accepted, req, interrupted>>

IssueAssertion(a) ==
    /\ Cardinality(issued) < MaxAssertions
    /\ Issuing!Issue(a)
    /\ UNCHANGED <<activeTokens, rows, guards, accepted, req, interrupted>>

SettleConsent(c, decision) ==
    /\ Issuing!Settle(c, decision)
    /\ UNCHANGED <<activeTokens, rows, guards, accepted, req, interrupted>>

\* A token that is not ACTIVE stays so: NeverReactivated of Registry.
RetireToken(t) ==
    /\ t \in activeTokens
    /\ activeTokens' = activeTokens \ {t}
    /\ UNCHANGED <<consents, rows, guards, accepted, req, interrupted>>

-----------------------------------------------------------------------------
(* Requests for KYC, renewals and revocations                              *)

\* POST /request-kyc and /renew-consent, once consent-manager has answered with
\* the consent it made.  Its id is new, so the upsert always creates.
RecordRequest(c) ==
    /\ status[c] # "ABSENT"
    /\ fiRequest[c] = "NONE"
    /\ fiRequest' = [fiRequest EXCEPT ![c] = "PENDING"]
    /\ UNCHANGED <<consents, activeTokens, trail, guards, accepted, req, interrupted>>

\* POST /revoke-consent: consent-manager is asked to revoke, and does.
CallRevoke(r, c) ==
    /\ IsNew(r)
    /\ fiRequest[c] # "NONE"
    /\ Issuing!Settle(c, "REVOKED")
    /\ req' = [req EXCEPT ![r] = [New EXCEPT !.pc = "revoked", !.consent = c]]
    /\ UNCHANGED <<activeTokens, rows, guards, accepted, interrupted>>

\* The FI's row follows when the answer is there.
WriteRevoked(r) ==
    /\ req[r].pc = "revoked"
    /\ fiRequest' = [fiRequest EXCEPT ![req[r].consent] = "REVOKED"]
    /\ Finish(r)
    /\ UNCHANGED <<consents, activeTokens, trail, guards, accepted, interrupted>>

-----------------------------------------------------------------------------
(* POST /verify-assertion                                                  *)

\* The row is read; a is the assertion of the body.  One that consent-manager has
\* not signed ends where a call that fails ends (CallFails).
ReadRequest(r, c, a) ==
    /\ IsNew(r)
    /\ fiRequest[c] # "NONE"
    /\ req' = [req EXCEPT ![r] = [New EXCEPT !.pc = "row", !.consent = c, !.assertion = a]]
    /\ UNCHANGED <<consents, activeTokens, rows, guards, accepted, interrupted>>

\* Mutant: the status of the consent is not looked at.
FetchBindingUnjudged(r) ==
    /\ req[r].pc = "row"
    /\ Goto(r, "bound")
    /\ UNCHANGED <<consents, activeTokens, rows, guards, accepted, interrupted>>

\* fetchConsentBinding and what is judged on its answer.  Row and consent have
\* the same terms, so the answer consent_binding_mismatch does not occur.
FetchBinding(r) ==
    /\ req[r].pc = "row"
    /\ IF ConsentIsGood(req[r].consent) THEN Goto(r, "bound") ELSE Refuse(r)
    /\ UNCHANGED <<consents, activeTokens, rows, guards, accepted, interrupted>>

\* consent-manager does not answer: 502, the row is left as it is.
BindingUnreachable(r) ==
    /\ req[r].pc = "row"
    /\ Finish(r)
    /\ UNCHANGED <<consents, activeTokens, rows, guards, accepted, interrupted>>

\* Mutant: ttlSeconds with its operands swapped.
CheckAssertionSwapped(r) ==
    /\ req[r].pc = "bound"
    /\ LET a == req[r].assertion
       IN  IF now < a.exp /\ Matches(a, req[r].consent)
           THEN req' = [req EXCEPT ![r].pc = "checked", ![r].ttl = now - a.exp]
           ELSE Refuse(r)
    /\ UNCHANGED <<consents, activeTokens, rows, guards, accepted, interrupted>>

\* verifyAssertion, up to the registry's lookup: signature, exp, audience,
\* purpose, scope; ttlSeconds is computed here.
CheckAssertion(r) ==
    /\ req[r].pc = "bound"
    /\ LET a == req[r].assertion
       IN  IF now < a.exp /\ Matches(a, req[r].consent)
           THEN req' = [req EXCEPT ![r].pc = "checked", ![r].ttl = a.exp - now]
           ELSE Refuse(r)
    /\ UNCHANGED <<consents, activeTokens, rows, guards, accepted, interrupted>>

\* lookupRegistryStatus of the token the assertion names.
LookupToken(r) ==
    /\ req[r].pc = "checked"
    /\ IF Agreed(req[r].assertion.consent).token \in activeTokens
       THEN Goto(r, "tokenActive")
       ELSE Refuse(r)
    /\ UNCHANGED <<consents, activeTokens, rows, guards, accepted, interrupted>>

\* jtiReplayProtector.consume: SET NX EX ttlSeconds.
TakeJti(r) ==
    /\ req[r].pc = "tokenActive"
    /\ LET k == <<req[r].assertion.consent, req[r].assertion.jti>>
       IN  IF now >= jtiGuard[k]
           THEN /\ jtiGuard' = [jtiGuard EXCEPT ![k] = now + req[r].ttl]
                /\ Goto(r, "jtiTaken")
           ELSE Refuse(r) /\ UNCHANGED jtiGuard
    /\ UNCHANGED <<consents, activeTokens, rows, nonceGuard, accepted, interrupted>>

\* The verification is through: what it accepted, for which row, and when.
Accept(r) ==
    accepted' = accepted \cup {[by |-> r, consent |-> req[r].consent,
                                assertion |-> req[r].assertion, at |-> now]}

\* Mutant: the key is set without NX.
TakeNonceOverwrite(r) ==
    /\ req[r].pc = "jtiTaken"
    /\ nonceGuard' = [nonceGuard EXCEPT ![req[r].assertion.consent] = now + req[r].ttl]
    /\ Proceed(r, "accepted")
    /\ Accept(r)
    /\ UNCHANGED <<consents, activeTokens, rows, jtiGuard, interrupted>>

\* nonceReplayProtector.consume; verifyAssertion returns.
TakeNonce(r) ==
    /\ req[r].pc = "jtiTaken"
    /\ LET c == req[r].assertion.consent
       IN  IF now >= nonceGuard[c]
           THEN /\ nonceGuard' = [nonceGuard EXCEPT ![c] = now + req[r].ttl]
                /\ Proceed(r, "accepted")
                /\ Accept(r)
           ELSE Refuse(r) /\ UNCHANGED <<nonceGuard, accepted>>
    /\ UNCHANGED <<consents, activeTokens, rows, jtiGuard, interrupted>>

\* Mutant: a row that is VERIFIED already is answered at once.
WriteVerifiedOnce(r) ==
    /\ req[r].pc = "accepted"
    /\ fiRequest' = [fiRequest EXCEPT ![req[r].consent] = "VERIFIED"]
    /\ IF fiRequest[req[r].consent] = "VERIFIED"
       THEN Finish(r)
       ELSE Proceed(r, "verified")
    /\ UNCHANGED <<consents, activeTokens, trail, guards, accepted, interrupted>>

\* The row is VERIFIED, whatever it and the consent have become by now.
WriteVerified(r) ==
    /\ req[r].pc = "accepted"
    /\ fiRequest' = [fiRequest EXCEPT ![req[r].consent] = "VERIFIED"]
    /\ Proceed(r, "verified")
    /\ UNCHANGED <<consents, activeTokens, trail, guards, accepted, interrupted>>

OwesSuccess(r) == req[r].pc \in {"accepted", "verified"}

\* Anything after the consent was judged that throws ends in one catch, also
\* when the assertion was accepted or the row is VERIFIED already.
CallFails(r) ==
    /\ req[r].pc \in {"bound", "checked", "tokenActive", "jtiTaken", "accepted", "verified"}
    /\ Refuse(r)
    /\ interrupted' = interrupted \cup IF OwesSuccess(r) THEN {req[r].consent} ELSE {}
    /\ UNCHANGED <<consents, activeTokens, rows, guards, accepted>>

\* A refusal is written over whatever the row is by now.
WriteFailed(r) ==
    /\ req[r].pc = "refused"
    /\ fiRequest' = [fiRequest EXCEPT ![req[r].consent] = "FAILED"]
    /\ Finish(r)
    /\ UNCHANGED <<consents, activeTokens, trail, guards, accepted, interrupted>>

\* addAuditEvent with success, and the answer.
WriteSuccess(r) ==
    /\ req[r].pc = "verified"
    /\ trail' = [trail EXCEPT ![req[r].consent] = @ + 1]
    /\ Finish(r)
    /\ UNCHANGED <<consents, activeTokens, fiRequest, guards, accepted, interrupted>>

\* The replica dies, or a call outside of the try block throws.
Die(r) ==
    /\ req[r].pc \notin {"new", "done"}
    /\ Finish(r)
    /\ interrupted' = interrupted \cup IF OwesSuccess(r) THEN {req[r].consent} ELSE {}
    /\ UNCHANGED <<consents, activeTokens, rows, guards, accepted>>

Environment ==
    \/ Tick
    \/ \E c \in ConsentIds, t \in Terms, lifetime \in Lifetimes : OpenConsent(c, t, lifetime)
    \/ \E c \in ConsentIds, scope \in SUBSET UNION {t.requested : t \in Terms} :
          IssueAssertion(Issuing!Assertion(c, Cardinality(issued) + 1, scope))
    \/ \E c \in ConsentIds, decision \in Decisions : SettleConsent(c, decision)
    \/ \E t \in TokenIds : RetireToken(t)

Begin(r, c) ==
    \/ CallRevoke(r, c)
    \/ \E a \in issued : ReadRequest(r, c, a)

Step(r) ==
    \/ WriteRevoked(r)
    \/ FetchBinding(r)
    \/ BindingUnreachable(r)
    \/ CheckAssertion(r)
    \/ LookupToken(r)
    \/ TakeJti(r)
    \/ TakeNonce(r)
    \/ WriteVerified(r)
    \/ CallFails(r)
    \/ WriteFailed(r)
    \/ WriteSuccess(r)
    \/ Die(r)

Next ==
    \/ Environment
    \/ \E c \in ConsentIds : RecordRequest(c)
    \/ \E r \in Requests, c \in ConsentIds : Begin(r, c)
    \/ \E r \in Requests : Step(r)

Spec == Init /\ [][Next]_vars

-----------------------------------------------------------------------------
(* Properties                                                              *)

\* The shape of the state.
TypeOK ==
    /\ now \in Nat
    /\ terms \in [ConsentIds -> AllTerms \cup {NoTerms}]
    /\ status \in [ConsentIds -> Statuses]
    /\ \A c \in ConsentIds : status[c] # "ABSENT" => terms[c] \in AllTerms
    /\ issued \subseteq Assertions
    /\ activeTokens \subseteq TokenIds
    /\ fiRequest \in [ConsentIds -> {"NONE", "PENDING", "VERIFIED", "FAILED", "REVOKED"}]
    /\ jtiGuard \in [ConsentIds \X Jtis -> Nat]
    /\ nonceGuard \in [ConsentIds -> Nat]
    /\ trail \in [ConsentIds -> Nat]
    /\ req \in [Requests -> RequestRecords]
    /\ \A r \in Requests : req[r].pc \notin {"new", "done"} => req[r].consent \in ConsentIds
    /\ interrupted \subseteq ConsentIds

\* Verifications that overlap, are retried or meet a slow registry never accept
\* two live assertions of one consent: between two acceptances the assertion
\* accepted first has expired.
AcceptedApart ==
    \A k, l \in accepted :
        k # l /\ k.assertion.consent = l.assertion.consent
            => k.at >= l.assertion.exp \/ l.at >= k.assertion.exp

\* A row that is VERIFIED has been accepted with an assertion consent-manager
\* signed for the very purpose and all the fields of the row, and the consent of
\* the row was approved, whatever other requests wrote meanwhile.
VerifiedWasAccepted ==
    \A c \in ConsentIds : fiRequest[c] = "VERIFIED" =>
        /\ \E k \in accepted : k.consent = c /\ k.assertion \in issued /\ Matches(k.assertion, c)
        /\ \E a \in issued : a.consent = c

\* Every acceptance is told once in the audit trail, unless the request that
\* made it is still at work on it, failed or died.
AuditTellsAcceptances ==
    \A c \in ConsentIds :
        c \notin interrupted /\ (\A r \in Requests : req[r].consent = c => ~OwesSuccess(r))
            => trail[c] = Cardinality({k \in accepted : k.consent = c})

\* "Consent status must be APPROVED before verification" (consent-policy.ts:39):
\* no row becomes VERIFIED while its consent is anything else.
VerifiesOnlyApproved ==
    [][\A c \in ConsentIds :
          fiRequest[c] # "VERIFIED" /\ fiRequest'[c] = "VERIFIED" => status[c] = "APPROVED"]_vars

=============================================================================
