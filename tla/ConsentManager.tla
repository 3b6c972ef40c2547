--------------------------- MODULE ConsentManager ---------------------------
(***************************************************************************)
(* consent-manager (apps/consent-manager): the life of a consent and the   *)
(* assertions issued for it.  No handler runs in a transaction and up to   *)
(* eight replicas share the tables, so a request is a list of steps, one   *)
(* per read or write, and any two requests interleave.  What one request   *)
(* has read of a row may be stale when it writes the row.  Its rows have a *)
(* second writer: wallet-service inserts the consents of request-reconsent.*)
(*                                                                         *)
(* The model has one wallet owner: consents of different owners share      *)
(* nothing.  A consent has one nonce for life (randomUUID when the row is  *)
(* made), so the Redis key of its nonce is modelled by the log of its      *)
(* successful reservations, and an assertion's jti by its place in it.     *)
(***************************************************************************)
EXTENDS Integers, Sequences, FiniteSets

CONSTANTS
    ConsentIds,     \* ids of consent rows
    Requests,       \* the requests ever made of this service, to any replica
    Owner,          \* the wallet user whose consents these are
    Delegates,      \* users the owner may delegate to
    Fields,         \* fields of a KYC record
    Purposes,       \* purposes an FI may name
    PeriodicUpdate, \* PERIODIC_KYC_UPDATE
    TokenIds,       \* tokens of the owner
    CreateInputs,   \* bodies of POST /create to consider
    Grants,         \* bodies of POST /v1/wallet/delegations to consider
    MaxGrants,      \* bound on the number of delegations
    AssertionTtl,   \* 180 s in the code: life of an assertion and of its nonce guard
    DefaultTtl,     \* CONSENT_TTL_SECONDS
    ReconsentTtl,   \* 7 days in the code: life of a consent request-reconsent inserts
    MaxTime,        \* bound on the clock
    BatchLimit,     \* rows one sweep takes (200 in the code)
    NoToken,        \* no token of the owner is ACTIVE
    NoConsent       \* renewedFromConsentId is null

Users == Delegates \cup {Owner}

Inputs == [purpose: Purposes, requested: SUBSET Fields \ {{}},
           requiresDelegation: BOOLEAN, ttl: Nat \ {0}]

\* An allowed list that holds '*' is the full set.
GrantBodies == [delegate: Delegates, scope: {"consent.approve", "*"},
                purposes: SUBSET Purposes, fields: SUBSET Fields, expiresAt: Nat]

ASSUME ConsentAssumption ==
    /\ IsFiniteSet(ConsentIds)
    /\ Owner \notin Delegates
    /\ CreateInputs \subseteq Inputs
    /\ Grants \subseteq GrantBodies
    /\ AssertionTtl \in Nat \ {0}
    /\ DefaultTtl \in Nat \ {0}
    /\ ReconsentTtl \in Nat \ {0}
    /\ MaxTime \in Nat
    /\ MaxGrants \in Nat
    /\ BatchLimit \in Nat \ {0}
    /\ NoToken \notin TokenIds
    /\ NoConsent \notin ConsentIds

VARIABLES
    now,            \* the clock the replicas, Redis and PostgreSQL share
    consent,        \* consentRecord; status "ABSENT" before the row is made
    reserved,       \* of each consent, when its nonce was reserved
    issued,         \* the assertions signed so far
    trail,          \* consentAuditEvent: of each consent, how many of each type
    req,            \* the requests in flight
    interrupted,    \* consents a request died on half way
    activeToken,    \* what registry-service answers for the owner
    delegations,    \* wallet-service's delegation rows, in the order of creation
    reconsent       \* requiresReconsent of the owner's reviewCustomer

tables == <<consent, trail>>
env == <<activeToken, delegations>>
vars == <<now, tables, reserved, issued, req, interrupted, env, reconsent>>

Statuses == {"PENDING", "APPROVED", "REJECTED", "REVOKED", "EXPIRED"}

EventTypes == {"CONSENT_CREATED", "CONSENT_RENEWED", "CONSENT_APPROVED", "ASSERTION_ISSUED",
               "CONSENT_REJECTED", "CONSENT_REVOKED", "CONSENT_EXPIRED",
               "PERIODIC_RECONSENT_REQUESTED"}

\* insertedBy tells the writer of the row, which the code leaves to its audit trail.
Rows == [status: Statuses \cup {"ABSENT"}, insertedBy: {"consent-manager", "wallet-service"},
         token: TokenIds \cup {NoToken},
         purpose: Purposes \cup {PeriodicUpdate}, requested: SUBSET Fields,
         requiresDelegation: BOOLEAN, expiresAt: Nat, renewedFrom: ConsentIds \cup {NoConsent},
         approvedFields: SUBSET Fields, approvedBy: Users, grant: Nat, jti: Nat]

DelegationRows == [delegate: Delegates, scope: {"consent.approve", "*"},
                   purposes: SUBSET Purposes, fields: SUBSET Fields, expiresAt: Nat,
                   status: {"ACTIVE", "REVOKED"}]

Assertions == [consent: ConsentIds, jti: Nat \ {0}, scope: SUBSET Fields, grant: Nat,
               token: TokenIds, iat: Nat, exp: Nat]

RequestRecords ==
    [pc: {"new", "done", "read", "authorised", "tokenActive", "reserved", "signed", "review",
          "sweep", "audit", "asked", "nonePending"},
     op: {"none", "approve", "reject", "revoke", "expire", "list", "reconsent"},
     consent: ConsentIds \cup {NoConsent}, actor: Users, fields: SUBSET Fields, grant: Nat,
     approver: Users, jti: Nat, events: Seq(ConsentIds \X EventTypes), todo: SUBSET ConsentIds,
     at: Nat]

NoRow == [status |-> "ABSENT", insertedBy |-> "consent-manager", token |-> NoToken,
          purpose |-> PeriodicUpdate, requested |-> {}, requiresDelegation |-> FALSE, expiresAt |-> 0,
          renewedFrom |-> NoConsent, approvedFields |-> {}, approvedBy |-> Owner,
          grant |-> 0, jti |-> 0]

\* The row an insert makes.
NewRow(input, token, expiresAt, renewedFrom) ==
    [NoRow EXCEPT !.status = "PENDING", !.token = token, !.purpose = input.purpose,
                  !.requested = input.requested, !.expiresAt = expiresAt,
                  !.requiresDelegation = input.requiresDelegation,
                  !.renewedFrom = renewedFrom]

\* A request: what it does, how far it is, and what it has read.  `events' are
\* the audit events it still has to write; `todo' the rows of a sweep; `at' the
\* clock as request-reconsent read it.
New == [pc |-> "new", op |-> "none", consent |-> NoConsent, actor |-> Owner,
        fields |-> {}, grant |-> 0, approver |-> Owner, jti |-> 0,
        events |-> <<>>, todo |-> {}, at |-> 0]

Done == [New EXCEPT !.pc = "done"]

Exists(c) == consent[c].status # "ABSENT"

IsNew(r) == req[r].pc = "new"
InFlight(r) == req[r].pc \notin {"new", "done"}

\* The request goes on at pc; it is over when nothing is left to do.
Goto(r, pc) == req' = [req EXCEPT ![r].pc = pc]
Finish(r) == req' = [req EXCEPT ![r] = Done]

-----------------------------------------------------------------------------
(* The pure part: consent-domain.ts                                        *)

Usable(d, a) ==
    /\ delegations[d].delegate = a
    /\ delegations[d].status = "ACTIVE"
    /\ delegations[d].expiresAt > now

\* resolveConsentActionActor: 0 stands for the owner, any other number is the
\* delegation that was found (orderBy createdAt desc).
Access(a, d) ==
    IF a = Owner
    THEN d = 0
    ELSE /\ d \in 1 .. Len(delegations)
         /\ Usable(d, a)
         /\ \A e \in 1 .. Len(delegations) : Usable(e, a) => e <= d

\* Mutant: only the purpose is constrained.
EvaluateDelegationConstraintsNoFields(d, purpose, fields) == purpose \in delegations[d].purposes

EvaluateDelegationConstraints(d, purpose, fields) ==
    /\ purpose \in delegations[d].purposes
    /\ fields \subseteq delegations[d].fields

\* Mutant: the guard's key expires one second before the assertion.
NonceFreeEarly(c) ==
    reserved[c] # <<>> => now >= reserved[c][Len(reserved[c])] + AssertionTtl - 1

\* The jti is fresh, so what decides is the nonce: Redis refuses it (SET NX)
\* while the key of the last reservation has not expired.
NonceFree(c) ==
    reserved[c] # <<>> => now >= reserved[c][Len(reserved[c])] + AssertionTtl

-----------------------------------------------------------------------------
(* The wallet, the registry and the review scheduler around it             *)

Init ==
    /\ now = 0
    /\ consent = [c \in ConsentIds |-> NoRow]
    /\ reserved = [c \in ConsentIds |-> <<>>]
    /\ issued = {}
    /\ trail = [c \in ConsentIds |-> [e \in EventTypes |-> 0]]
    /\ req = [r \in Requests |-> New]
    /\ interrupted = {}
    /\ activeToken \in TokenIds
    /\ delegations = <<>>
    /\ reconsent = FALSE

Tick ==
    /\ now < MaxTime
    /\ now' = now + 1
    /\ UNCHANGED <<tables, reserved, issued, req, interrupted, env, reconsent>>

\* Issuer-service revokes the owner's token or issues another.
ChangeToken(t) ==
    /\ t # activeToken
    /\ activeToken' = t
    /\ UNCHANGED <<now, tables, reserved, issued, req, interrupted, delegations, reconsent>>

\* POST /v1/wallet/delegations: revokes the delegate's earlier delegation of the
\* same scope and adds the new one.
Delegate(g) ==
    /\ Len(delegations) < MaxGrants
    /\ g.expiresAt > now
    /\ LET Replaced(d) == d.delegate = g.delegate /\ d.scope = g.scope
           before == [i \in 1 .. Len(delegations) |->
                        IF Replaced(delegations[i])
                        THEN [delegations[i] EXCEPT !.status = "REVOKED"]
                        ELSE delegations[i]]
       IN  delegations' = Append(before,
               [delegate |-> g.delegate, scope |-> g.scope, purposes |-> g.purposes,
                fields |-> g.fields, expiresAt |-> g.expiresAt, status |-> "ACTIVE"])
    /\ UNCHANGED <<now, tables, reserved, issued, req, interrupted, activeToken, reconsent>>

\* POST /v1/wallet/delegations/:id/revoke
RevokeDelegation(d) ==
    /\ delegations[d].status = "ACTIVE"
    /\ delegations' = [delegations EXCEPT ![d].status = "REVOKED"]
    /\ UNCHANGED <<now, tables, reserved, issued, req, interrupted, activeToken, reconsent>>

\* The review scheduler asks for a new consent.
RequireReconsent ==
    /\ reconsent = FALSE
    /\ reconsent' = TRUE
    /\ UNCHANGED <<now, tables, reserved, issued, req, interrupted, env>>

-----------------------------------------------------------------------------
(* Creating and renewing                                                   *)

Insert(c, row) == consent' = [consent EXCEPT ![c] = row]

\* The audit events r still owes, in the order it will write them.
Owe(r, events) == req' = [req EXCEPT ![r] = [New EXCEPT !.pc = "audit", !.events = events]]

\* Mutant: the answer of the token lookup is not looked at.
CreateConsentUnchecked(r, c, input) ==
    /\ IsNew(r)
    /\ ~Exists(c)
    /\ Insert(c, NewRow(input, activeToken, now + input.ttl, NoConsent))
    /\ Owe(r, <<<<c, "CONSENT_CREATED">>>>)
    /\ UNCHANGED <<now, trail, reserved, issued, interrupted, env, reconsent>>

\* POST /create: the owner's ACTIVE token is looked up, then the row inserted.
CreateConsent(r, c, input) ==
    /\ IsNew(r)
    /\ ~Exists(c)
    /\ activeToken # NoToken
    /\ Insert(c, NewRow(input, activeToken, now + input.ttl, NoConsent))
    /\ Owe(r, <<<<c, "CONSENT_CREATED">>>>)
    /\ UNCHANGED <<now, trail, reserved, issued, interrupted, env, reconsent>>

\* POST /:consentId/renew: a new row with the old one's terms, whatever the
\* status of the old one, as long as its token is still the ACTIVE one.
RenewConsent(r, old, c) ==
    /\ IsNew(r)
    /\ Exists(old)
    /\ ~Exists(c)
    /\ activeToken = consent[old].token
    /\ Insert(c, NewRow(consent[old], consent[old].token, now + DefaultTtl, old))
    /\ Owe(r, <<<<old, "CONSENT_RENEWED">>, <<c, "CONSENT_CREATED">>>>)
    /\ UNCHANGED <<now, trail, reserved, issued, interrupted, env, reconsent>>

\* POST /v1/wallet/:userId/review/request-reconsent: the review asks for one.
AskReconsent(r) ==
    /\ IsNew(r)
    /\ reconsent
    /\ req' = [req EXCEPT ![r] = [New EXCEPT !.pc = "asked", !.op = "reconsent"]]
    /\ UNCHANGED <<now, tables, reserved, issued, interrupted, env, reconsent>>

\* The owner has a periodic update to decide on already.
UpdatePending ==
    \E c \in ConsentIds : /\ consent[c].status = "PENDING"
                          /\ consent[c].purpose = PeriodicUpdate
                          /\ consent[c].expiresAt > now

\* The clock is read, then a pending update looked for.
FindNonePending(r) ==
    /\ req[r].pc = "asked"
    /\ ~UpdatePending
    /\ req' = [req EXCEPT ![r].pc = "nonePending", ![r].at = now]
    /\ UNCHANGED <<now, tables, reserved, issued, interrupted, env, reconsent>>

ReconsentInput == [purpose |-> PeriodicUpdate, requested |-> Fields, requiresDelegation |-> FALSE]

\* The owner's ACTIVE token is looked up and the row inserted, whatever other
\* request has inserted one meanwhile.
InsertReconsent(r, c) ==
    /\ req[r].pc = "nonePending"
    /\ ~Exists(c)
    /\ activeToken # NoToken
    /\ Insert(c, [NewRow(ReconsentInput, activeToken, req[r].at + ReconsentTtl, NoConsent)
                    EXCEPT !.insertedBy = "wallet-service"])
    /\ Owe(r, <<<<c, "PERIODIC_RECONSENT_REQUESTED">>>>)
    /\ UNCHANGED <<now, trail, reserved, issued, interrupted, env, reconsent>>

-----------------------------------------------------------------------------
(* Deciding: approve, reject, revoke                                       *)

\* The first read of approve and reject: the row, judged at once.  fields are
\* the approved fields, all requested ones when the body names none.
ReadPending(r, op, c, a, fields) ==
    /\ IsNew(r)
    /\ consent[c].status = "PENDING"
    /\ now <= consent[c].expiresAt
    /\ IF op = "approve"
       THEN fields # {} /\ fields \subseteq consent[c].requested
       ELSE op = "reject" /\ fields = {}
    /\ req' = [req EXCEPT ![r] = [New EXCEPT !.pc = "read", !.op = op, !.consent = c,
                                              !.actor = a, !.fields = fields]]
    /\ UNCHANGED <<now, tables, reserved, issued, interrupted, env, reconsent>>

\* Mutant: a consent nobody has decided on may be revoked too.
ReadApprovedOrPending(r, c, a) ==
    /\ IsNew(r)
    /\ consent[c].status \in {"PENDING", "APPROVED"}
    /\ req' = [req EXCEPT ![r] = [New EXCEPT !.pc = "read", !.op = "revoke", !.consent = c,
                                              !.actor = a, !.grant = consent[c].grant,
                                              !.approver = consent[c].approvedBy]]
    /\ UNCHANGED <<now, tables, reserved, issued, interrupted, env, reconsent>>

\* The first read of revoke, which also remembers who approved.
ReadApproved(r, c, a) ==
    /\ IsNew(r)
    /\ consent[c].status = "APPROVED"
    /\ req' = [req EXCEPT ![r] = [New EXCEPT !.pc = "read", !.op = "revoke", !.consent = c,
                                              !.actor = a, !.grant = consent[c].grant,
                                              !.approver = consent[c].approvedBy]]
    /\ UNCHANGED <<now, tables, reserved, issued, interrupted, env, reconsent>>

\* What the handler demands of the actor, acting under d.
MayDecide(r, d) ==
    LET q == req[r]
    IN  /\ Access(q.actor, d)
        /\ q.op # "revoke" /\ consent[q.consent].requiresDelegation => d # 0
        /\ q.op = "approve" /\ d # 0
              => EvaluateDelegationConstraints(d, consent[q.consent].purpose, q.fields)
        /\ q.op = "revoke" => /\ now <= consent[q.consent].expiresAt
                              /\ d = 0 \/ q.grant = d \/ q.approver = q.actor

Authorise(r, d) ==
    /\ req[r].pc = "read"
    /\ MayDecide(r, d)
    /\ req' = [req EXCEPT ![r].pc = "authorised", ![r].grant = d]
    /\ UNCHANGED <<now, tables, reserved, issued, interrupted, env, reconsent>>

\* approve: the token is looked up again and its payload fetched.
CheckToken(r) ==
    /\ req[r].pc = "authorised"
    /\ req[r].op = "approve"
    /\ activeToken = consent[req[r].consent].token
    /\ Goto(r, "tokenActive")
    /\ UNCHANGED <<now, tables, reserved, issued, interrupted, env, reconsent>>

\* approve: reserveReplayGuards.
ReserveNonce(r) ==
    /\ req[r].pc = "tokenActive"
    /\ LET c == req[r].consent
       IN  /\ NonceFree(c)
           /\ reserved' = [reserved EXCEPT ![c] = Append(@, now)]
           /\ req' = [req EXCEPT ![r].pc = "reserved", ![r].jti = Len(reserved[c]) + 1]
    /\ UNCHANGED <<now, tables, issued, interrupted, env, reconsent>>

\* The answers 401, 403, 404, 409, the replay error, and request-reconsent's answer
\* that one is pending: nothing was written.
Refuse(r) ==
    /\ \/ req[r].pc = "read" /\ \A d \in 0 .. MaxGrants : ~MayDecide(r, d)
       \/ req[r].pc = "authorised" /\ req[r].op = "approve"
             /\ activeToken # consent[req[r].consent].token
       \/ req[r].pc = "tokenActive" /\ ~NonceFree(req[r].consent)
       \/ req[r].pc = "asked" /\ UpdatePending
       \/ req[r].pc = "nonePending" /\ activeToken = NoToken
    /\ Finish(r)
    /\ UNCHANGED <<now, tables, reserved, issued, interrupted, env, reconsent>>

\* approve: issueJwt reads the clock for iat.
SignAssertion(r) ==
    /\ req[r].pc = "reserved"
    /\ LET q == req[r]
       IN  issued' = issued \cup
             {[consent |-> q.consent, jti |-> q.jti, scope |-> q.fields, grant |-> q.grant,
               token |-> consent[q.consent].token, iat |-> now, exp |-> now + AssertionTtl]}
    /\ Goto(r, "signed")
    /\ UNCHANGED <<now, tables, reserved, interrupted, env, reconsent>>

\* Mutant: the row keeps the requested fields of a partial approval.
WriteApprovalRequested(r) ==
    /\ req[r].pc = "signed"
    /\ LET q == req[r]
           c == q.consent
       IN  /\ consent' = [consent EXCEPT ![c] =
                            [@ EXCEPT !.status = "APPROVED", !.approvedBy = q.actor,
                                      !.grant = q.grant, !.jti = q.jti,
                                      !.approvedFields = consent[c].requested]]
           /\ req' = [req EXCEPT
                 ![r].pc = IF consent[c].purpose = PeriodicUpdate THEN "review" ELSE "audit",
                 ![r].events = <<<<c, "CONSENT_APPROVED">>, <<c, "ASSERTION_ISSUED">>>>]
    /\ UNCHANGED <<now, trail, reserved, issued, interrupted, env, reconsent>>

\* approve: the row is updated, whatever its status is by now.  actorType is
\* not kept: it is OWNER iff approvedBy is the owner.
WriteApproval(r) ==
    /\ req[r].pc = "signed"
    /\ LET q == req[r]
           c == q.consent
       IN  /\ consent' = [consent EXCEPT ![c] =
                            [@ EXCEPT !.status = "APPROVED", !.approvedBy = q.actor,
                                      !.grant = q.grant, !.jti = q.jti,
                                      !.approvedFields = q.fields]]
           /\ req' = [req EXCEPT
                 ![r].pc = IF consent[c].purpose = PeriodicUpdate THEN "review" ELSE "audit",
                 ![r].events = <<<<c, "CONSENT_APPROVED">>, <<c, "ASSERTION_ISSUED">>>>]
    /\ UNCHANGED <<now, trail, reserved, issued, interrupted, env, reconsent>>

\* reject and revoke: so are theirs.
WriteDenial(r) ==
    /\ req[r].pc = "authorised"
    /\ req[r].op \in {"reject", "revoke"}
    /\ LET c == req[r].consent
           status == IF req[r].op = "reject" THEN "REJECTED" ELSE "REVOKED"
           event == IF req[r].op = "reject" THEN "CONSENT_REJECTED" ELSE "CONSENT_REVOKED"
       IN  /\ consent' = [consent EXCEPT ![c].status = status, ![c].approvedBy = req[r].actor]
           /\ req' = [req EXCEPT ![r].pc = "audit", ![r].events = <<<<c, event>>>>]
    /\ UNCHANGED <<now, trail, reserved, issued, interrupted, env, reconsent>>

\* The review of a periodic update: an approval settles it, before its events
\* are written; a revocation asks for it again, after its event was written.
UpdateReview(r) ==
    /\ req[r].pc = "review"
    /\ reconsent' = (req[r].op = "revoke")
    /\ IF req[r].op = "revoke" THEN Finish(r) ELSE Goto(r, "audit")
    /\ UNCHANGED <<now, tables, reserved, issued, interrupted, env>>

-----------------------------------------------------------------------------
(* The sweep, the audit trail and failures                                 *)

DueConsents ==
    {c \in ConsentIds : consent[c].status \in {"PENDING", "APPROVED"}
                        /\ consent[c].expiresAt <= now}

\* As many rows of S as a batch takes.
IsBatch(B, S) ==
    /\ B \subseteq S
    /\ Cardinality(B) = IF Cardinality(S) <= BatchLimit THEN Cardinality(S) ELSE BatchLimit

\* A sweep reads its batch once.
ReadBatch(r, op, batch) ==
    /\ IsNew(r)
    /\ DueConsents # {}
    /\ IsBatch(batch, DueConsents)
    /\ req' = [req EXCEPT ![r] = [New EXCEPT !.pc = "sweep", !.op = op, !.todo = batch]]
    /\ UNCHANGED <<now, tables, reserved, issued, interrupted, env, reconsent>>

\* POST /v1/internal/consents/expire-due: the first to expire.
ReadExpireDue(r) ==
    \E batch \in SUBSET DueConsents :
        /\ ReadBatch(r, "expire", batch)
        /\ \A b \in batch, c \in DueConsents \ batch :
              consent[b].expiresAt <= consent[c].expiresAt

\* GET /v1/wallet/:userId/consents sweeps before it lists, whatever rows come first.
ListConsents(r) == \E batch \in SUBSET DueConsents : ReadBatch(r, "list", batch)

\* One row of the batch; expire-due takes the first to expire first.
ExpireRow(r, c) ==
    /\ req[r].pc = "sweep"
    /\ c \in req[r].todo
    /\ req[r].op = "expire" =>
          \A d \in req[r].todo : consent[c].expiresAt <= consent[d].expiresAt
    /\ consent' = [consent EXCEPT ![c].status = "EXPIRED"]
    /\ req' = [req EXCEPT ![r].pc = "audit", ![r].todo = @ \ {c},
                          ![r].events = <<<<c, "CONSENT_EXPIRED">>>>]
    /\ UNCHANGED <<now, trail, reserved, issued, interrupted, env, reconsent>>

\* What a request does once its last event is written.
AfterAudit(r) ==
    LET q == req[r]
    IN  IF q.op = "revoke" /\ consent[q.consent].purpose = PeriodicUpdate
        THEN [q EXCEPT !.pc = "review", !.events = <<>>]
        ELSE IF q.todo # {} THEN [q EXCEPT !.pc = "sweep", !.events = <<>>]
        ELSE Done

\* Mutant: the response is sent after the first event.
WriteAuditFirst(r) ==
    /\ req[r].pc = "audit"
    /\ LET e == Head(req[r].events)
       IN  trail' = [trail EXCEPT ![e[1]][e[2]] = @ + 1]
    /\ req' = [req EXCEPT ![r] = AfterAudit(r)]
    /\ UNCHANGED <<now, consent, reserved, issued, interrupted, env, reconsent>>

\* addConsentAuditEvent
WriteAudit(r) ==
    /\ req[r].pc = "audit"
    /\ LET e == Head(req[r].events)
           rest == Tail(req[r].events)
       IN  /\ trail' = [trail EXCEPT ![e[1]][e[2]] = @ + 1]
           /\ req' = [req EXCEPT ![r] = IF rest = <<>> THEN AfterAudit(r)
                                        ELSE [@ EXCEPT !.events = rest]]
    /\ UNCHANGED <<now, consent, reserved, issued, interrupted, env, reconsent>>

\* Consents whose events r owes, or will owe: it has signed or written already.
OwedTo(r) ==
    {req[r].events[i][1] : i \in 1 .. Len(req[r].events)}
       \cup IF req[r].pc = "signed" THEN {req[r].consent} ELSE {}

\* A call to the database, Redis or another service fails, or the replica dies:
\* what was written stays and the rest is not done.
Fail(r) ==
    /\ InFlight(r)
    /\ interrupted' = interrupted \cup OwedTo(r)
    /\ Finish(r)
    /\ UNCHANGED <<now, tables, reserved, issued, env, reconsent>>

Create == \E r \in Requests, c \in ConsentIds, input \in CreateInputs : CreateConsent(r, c, input)
Renew == \E r \in Requests, old, c \in ConsentIds : RenewConsent(r, old, c)
Decide == \E r \in Requests, c \in ConsentIds, a \in Users :
             \/ ReadPending(r, "reject", c, a, {})
             \/ \E fields \in SUBSET Fields : ReadPending(r, "approve", c, a, fields)
             \/ ReadApproved(r, c, a)

\* What a request that was accepted does next.
Step(r) ==
    \/ \E d \in 0 .. MaxGrants : Authorise(r, d)
    \/ CheckToken(r)
    \/ ReserveNonce(r)
    \/ Refuse(r)
    \/ SignAssertion(r)
    \/ WriteApproval(r)
    \/ WriteDenial(r)
    \/ UpdateReview(r)
    \/ \E c \in ConsentIds : ExpireRow(r, c)
    \/ WriteAudit(r)
    \/ FindNonePending(r)
    \/ \E c \in ConsentIds : InsertReconsent(r, c)

Next ==
    \/ Tick
    \/ \E t \in TokenIds \cup {NoToken} : ChangeToken(t)
    \/ \E g \in Grants : Delegate(g)
    \/ \E d \in 1 .. Len(delegations) : RevokeDelegation(d)
    \/ RequireReconsent
    \/ Create
    \/ Renew
    \/ Decide
    \/ \E r \in Requests : ReadExpireDue(r)
    \/ \E r \in Requests : ListConsents(r)
    \/ \E r \in Requests : AskReconsent(r)
    \/ \E r \in Requests : Step(r)
    \/ \E r \in Requests : Fail(r)

Spec == Init /\ [][Next]_vars

-----------------------------------------------------------------------------
(* Properties                                                              *)

\* The shape of the state.
TypeOK ==
    /\ now \in 0 .. MaxTime
    /\ consent \in [ConsentIds -> Rows]
    /\ reserved \in [ConsentIds -> Seq(Nat)]
    /\ issued \subseteq Assertions
    /\ trail \in [ConsentIds -> [EventTypes -> Nat]]
    /\ req \in [Requests -> RequestRecords]
    /\ interrupted \subseteq ConsentIds
    /\ activeToken \in TokenIds \cup {NoToken}
    /\ delegations \in Seq(DelegationRows)
    /\ reconsent \in BOOLEAN

\* Approvals of one consent that overlap, are retried or were interrupted never
\* leave it with two live assertions: one that was signed as soon as its nonce
\* was reserved expires before any other one of that consent is signed.
OneLiveAssertion ==
    \A a, b \in issued :
        a.consent = b.consent /\ a.jti < b.jti /\ a.iat = reserved[a.consent][a.jti]
            => a.exp <= b.iat

\* Whatever happened to the consent meanwhile, an assertion discloses only what
\* the FI asked for and, if a delegate approved, what the owner delegated.
IssuedWithinMandate ==
    \A a \in issued :
        LET row == consent[a.consent]
        IN  /\ a.scope \subseteq row.requested
            /\ a.token = row.token
            /\ row.requiresDelegation => a.grant # 0
            /\ a.grant # 0 => /\ row.purpose \in delegations[a.grant].purposes
                              /\ a.scope \subseteq delegations[a.grant].fields

\* The row speaks of an assertion that exists: whoever wrote it last, its jti,
\* approved fields and delegation belong to one and the same assertion.
RowShowsAnAssertion ==
    \A c \in ConsentIds :
        /\ consent[c].status \in {"APPROVED", "REVOKED"} => consent[c].jti # 0
        /\ consent[c].jti # 0 =>
              \E a \in issued : /\ a.consent = c
                                /\ a.jti = consent[c].jti
                                /\ a.scope = consent[c].approvedFields
                                /\ a.grant = consent[c].grant

\* Nobody is at work on the events of c.
Settled(c) == \A r \in Requests : c \notin OwedTo(r)

\* The types of events that are counted, and how many the tables tell of.
Counted == {"CONSENT_APPROVED", "ASSERTION_ISSUED", "CONSENT_RENEWED", "CONSENT_CREATED",
            "PERIODIC_RECONSENT_REQUESTED"}

IssuedOf(c) == {a \in issued : a.consent = c}
RenewalsOf(c) == {d \in ConsentIds : consent[d].renewedFrom = c}
Inserted(c, writer) == Exists(c) /\ consent[c].insertedBy = writer

Told(c, e) ==
    CASE e \in {"CONSENT_APPROVED", "ASSERTION_ISSUED"} -> Cardinality(IssuedOf(c))
      [] e = "CONSENT_RENEWED" -> Cardinality(RenewalsOf(c))
      [] e = "CONSENT_CREATED" -> IF Inserted(c, "consent-manager") THEN 1 ELSE 0
      [] OTHER -> IF Inserted(c, "wallet-service") THEN 1 ELSE 0

\* Once the requests are through, the audit trail tells nothing that did not
\* happen, and nothing twice: each assertion has its two events, each renewal
\* one, each row that of the service which inserted it.  Only a request that died
\* owing events leaves fewer; otherwise none is missing, and the status of the
\* row is one the trail tells of.
TrailIsComplete ==
    \A c \in ConsentIds : Settled(c) =>
        /\ \A e \in Counted : trail[c][e] <= Told(c, e)
        /\ c \notin interrupted =>
              /\ \A e \in Counted : trail[c][e] = Told(c, e)
              /\ consent[c].status = "REJECTED" => trail[c]["CONSENT_REJECTED"] > 0
              /\ consent[c].status = "REVOKED" => trail[c]["CONSENT_REVOKED"] > 0
              /\ consent[c].status = "EXPIRED" => trail[c]["CONSENT_EXPIRED"] > 0

\* What approve says of itself, "Consent is not in PENDING state" otherwise
\* (consent-manager/src/index.ts:738): only a PENDING consent becomes APPROVED.
ApprovesOnlyPending ==
    [][\A c \in ConsentIds :
          consent[c].status # "APPROVED" /\ consent'[c].status = "APPROVED"
             => consent[c].status = "PENDING"]_vars

\* The terms a consent was made for.
Agreed(row) == [purpose |-> row.purpose, requested |-> row.requested, token |-> row.token]

\* Consents and assertions as fi-service sees them.
Issuing == INSTANCE AssertionIssuing WITH
    Terms <- [purpose: Purposes \cup {PeriodicUpdate}, requested: SUBSET Fields,
              token: TokenIds \cup {NoToken}],
    Lifetimes <- {input.ttl : input \in CreateInputs} \cup {DefaultTtl}
                    \cup {ReconsentTtl - late : late \in 0 .. MaxTime},
    NoTerms <- NoConsent,
    terms <- [c \in ConsentIds |->
                 IF Exists(c)
                 THEN [agreed |-> Agreed(consent[c]), expiresAt |-> consent[c].expiresAt]
                 ELSE NoConsent],
    status <- [c \in ConsentIds |-> consent[c].status],
    issued <- {[consent |-> a.consent, jti |-> a.jti, scope |-> a.scope, exp |-> a.exp] :
                  a \in issued}

\* What fi-service relies on: the terms of a consent never change, a jti is never
\* used twice for it, no assertion discloses nothing or more than was asked for,
\* and a consent is APPROVED or REVOKED only after an assertion of it was signed,
\* whatever requests overlap, fail half way or come again.
ImplementsIssuing == Issuing!Spec

=============================================================================
