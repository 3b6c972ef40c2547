------------------------------ MODULE Registry ------------------------------
(***************************************************************************)
(* registry-service (apps/registry-service): the token ledger.  Every      *)
(* token has one row (registryRecord) and a hash-linked list of audit      *)
(* events (auditEvent).  Three write paths touch a row: its creation, a    *)
(* status update, and the expire-due sweep.  The last two READ the row     *)
(* outside of the transaction that later WRITES it, so their requests are  *)
(* modelled step by step; a transaction holds the row's lock from its      *)
(* UPDATE until it commits.                                                *)
(*                                                                         *)
(* A hash is modelled by what goes into it that differs between events or  *)
(* between the event hashed and the event stored: version, status and      *)
(* detail.  A detail is the set of its fields' names: appendAuditEvent     *)
(* hashes the detail it is given and stores it with fields of its own      *)
(* added, which verifyAuditHashChain would hash too.                       *)
(***************************************************************************)
EXTENDS Integers, Sequences, FiniteSets

CONSTANTS
    TokenIds,       \* ids issuer-service hands to POST /v1/internal/registry/token
    Requests,       \* requests that can be in flight at once
    MaxTime,        \* bound on the clock
    BatchLimit,     \* rows one sweep takes (200 in the code)
    NoToken,        \* supersededBy is null
    NoHash,         \* hashPrev is null
    NoRequest       \* nobody holds the row's lock

ASSUME RegistryAssumption ==
    /\ IsFiniteSet(TokenIds)
    /\ MaxTime \in Nat
    /\ BatchLimit \in Nat \ {0}
    /\ NoToken \notin TokenIds
    /\ NoRequest \notin Requests

Statuses == {"ACTIVE", "REVOKED", "SUPERSEDED", "EXPIRED"}

VARIABLES
    now,        \* the service's wall clock
    record,     \* the row of each token, status "ABSENT" before it is created
    audit,      \* the audit events of each token, in the order of their ids
    rowLock,    \* the request whose open transaction has updated the row
    req         \* the requests in flight

vars == <<now, record, audit, rowLock, req>>

Time == 0 .. MaxTime

Absent == [status |-> "ABSENT", version |-> 0, expiresAt |-> 0, supersededBy |-> NoToken]

Records == [status: Statuses \cup {"ABSENT"}, version: Nat, expiresAt: Time,
            supersededBy: TokenIds \cup {NoToken}]

\* The detail a status change gives (a creation gives none), and the fields
\* that are added before it is stored.
ChangeDetail == {"fromStatus", "toStatus", "reason"}
AddedDetail == {"status", "version", "issuedAt", "expiresAt", "supersededBy"}
Details == SUBSET (ChangeDetail \cup AddedDetail)

Hashes == Nat \X Statuses \X Details

Events == [status: Statuses, version: Nat, detail: Details, createdAt: Time,
           hashPrev: Hashes \cup {NoHash}, hashCurr: Hashes]

\* pc "checked": the rows in todo have been read and judged, no transaction is
\* open; "updated": the transaction on token has run its UPDATE, which made the
\* row's version `version'; "chained": appendAuditEvent has read the latest event
\* (hashPrev) and then the clock (createdAt).
RequestRecords == [pc: {"idle", "checked", "updated", "chained"}, todo: SUBSET TokenIds,
                   token: TokenIds \cup {NoToken}, next: Statuses,
                   supersededBy: TokenIds \cup {NoToken}, version: Nat,
                   hashPrev: Hashes \cup {NoHash}, createdAt: Time]

\* A request that has judged its rows and is about to write the first.
Checked(todo, next, by) ==
    [pc |-> "checked", todo |-> todo, token |-> NoToken, next |-> next,
     supersededBy |-> by, version |-> 0, hashPrev |-> NoHash, createdAt |-> 0]

IdleRequest == [Checked({}, "ACTIVE", NoToken) EXCEPT !.pc = "idle"]

Exists(t) == record[t].status # "ABSENT"

-----------------------------------------------------------------------------
(* The pure part: registry-domain.ts                                       *)

\* Mutant: a revoked token may be reinstated.
AllowedTransitionsReinstate ==
    [s \in Statuses |-> IF s = "ACTIVE" THEN Statuses \ {"ACTIVE"}
                       ELSE IF s = "REVOKED" THEN {"ACTIVE"} ELSE {}]

AllowedTransitions ==
    [s \in Statuses |-> IF s = "ACTIVE" THEN Statuses \ {"ACTIVE"} ELSE {}]

CanTransitionStatus(current, next) == next \in AllowedTransitions[current]

ComputeAuditHash(version, status, detail) == <<version, status, detail>>

\* Each event names its predecessor and has the hash of what it holds.
VerifyAuditHashChain(events) ==
    \A i \in 1 .. Len(events) :
        /\ events[i].hashPrev = IF i = 1 THEN NoHash ELSE events[i - 1].hashCurr
        /\ events[i].hashCurr =
              ComputeAuditHash(events[i].version, events[i].status, events[i].detail)

\* Mutant: appendAuditEvent reads the events in ascending order.
PreviousHashOldest(events) ==
    IF events = <<>> THEN NoHash ELSE events[1].hashCurr

\* orderBy: [createdAt desc, id desc]
LatestIndex(events) ==
    CHOOSE i \in 1 .. Len(events) :
        \A j \in 1 .. Len(events) :
            \/ events[j].createdAt < events[i].createdAt
            \/ events[j].createdAt = events[i].createdAt /\ j <= i

PreviousHash(events) ==
    IF events = <<>> THEN NoHash ELSE events[LatestIndex(events)].hashCurr

\* The event appendAuditEvent creates: its hash is over the detail it was given,
\* what it stores has the added fields.
AuditEvent(status, version, given, prev, at) ==
    [status |-> status, version |-> version, detail |-> AddedDetail \cup given,
     createdAt |-> at, hashPrev |-> prev,
     hashCurr |-> ComputeAuditHash(version, status, given)]

-----------------------------------------------------------------------------

Init ==
    /\ now = 0
    /\ record = [t \in TokenIds |-> Absent]
    /\ audit = [t \in TokenIds |-> <<>>]
    /\ rowLock = [t \in TokenIds |-> NoRequest]
    /\ req = [r \in Requests |-> IdleRequest]

Tick ==
    /\ now < MaxTime
    /\ now' = now + 1
    /\ UNCHANGED <<record, audit, rowLock, req>>

\* Mutant: the row and its event are numbered from 0, the first update makes 1.
CreateTokenFromZero(t, issuedAt, expiresAt) ==
    /\ ~Exists(t)
    /\ expiresAt > issuedAt
    /\ record' = [record EXCEPT ![t] = [status |-> "ACTIVE", version |-> 0,
                                       expiresAt |-> expiresAt, supersededBy |-> NoToken]]
    /\ audit' = [audit EXCEPT ![t] =
                    Append(@, AuditEvent("ACTIVE", 0, {}, PreviousHash(@), now))]
    /\ UNCHANGED <<now, rowLock, req>>

\* POST /token: the row and its TOKEN_CREATED event in one transaction.  It is
\* one step: the row is new, so no other transaction can touch the same token.
\* Whether expiresAt has passed is not checked, only that it is after issuedAt.
CreateToken(t, issuedAt, expiresAt) ==
    /\ ~Exists(t)
    /\ expiresAt > issuedAt
    /\ record' = [record EXCEPT ![t] = [status |-> "ACTIVE", version |-> 1,
                                       expiresAt |-> expiresAt, supersededBy |-> NoToken]]
    /\ audit' = [audit EXCEPT ![t] =
                    Append(@, AuditEvent("ACTIVE", 1, {}, PreviousHash(@), now))]
    /\ UNCHANGED <<now, rowLock, req>>

\* POST /token/:tokenId/status, up to the opening of the transaction: the row is
\* read and the transition judged on what was read.
CheckStatusUpdate(r, t, next, by) ==
    /\ req[r].pc = "idle"
    /\ (next = "SUPERSEDED") => (by # NoToken)
    /\ Exists(t)
    /\ CanTransitionStatus(record[t].status, next)
    /\ req' = [req EXCEPT ![r] =
                 Checked({t}, next, IF next = "SUPERSEDED" THEN by ELSE NoToken)]
    /\ UNCHANGED <<now, record, audit, rowLock>>

DueTokens == {t \in TokenIds : record[t].status = "ACTIVE" /\ record[t].expiresAt <= now}

\* The first BatchLimit rows of S in the order of expiresAt.
IsBatch(B, S) ==
    /\ B \subseteq S
    /\ Cardinality(B) = IF Cardinality(S) <= BatchLimit THEN Cardinality(S) ELSE BatchLimit
    /\ \A b \in B, s \in S \ B : record[b].expiresAt <= record[s].expiresAt

\* POST /expire-due: the sweep reads its batch once.
ReadExpireDue(r) ==
    /\ req[r].pc = "idle"
    /\ DueTokens # {}
    /\ \E batch \in SUBSET DueTokens :
        /\ IsBatch(batch, DueTokens)
        /\ req' = [req EXCEPT ![r] = Checked(batch, "EXPIRED", NoToken)]
    /\ UNCHANGED <<now, record, audit, rowLock>>

\* The rows a sweep still has to write, first to expire first.
NextRows(r) ==
    {t \in req[r].todo : \A s \in req[r].todo : record[t].expiresAt <= record[s].expiresAt}

\* Mutant: the UPDATE and the audit event are not in one transaction, so the
\* row is not held while the event is made.
UpdateRowUnlocked(r, t) ==
    /\ req[r].pc = "checked"
    /\ t \in NextRows(r)
    /\ rowLock' = [rowLock EXCEPT ![t] = r]
    /\ req' = [req EXCEPT ![r].pc = "updated", ![r].token = t,
                         ![r].version = record[t].version + 1]
    /\ UNCHANGED <<now, record, audit>>

\* The transaction opens and its UPDATE takes the row's lock; it waits while
\* another transaction holds it.  It does not look at the status again.
UpdateRow(r, t) ==
    /\ req[r].pc = "checked"
    /\ t \in NextRows(r)
    /\ rowLock[t] = NoRequest
    /\ rowLock' = [rowLock EXCEPT ![t] = r]
    /\ req' = [req EXCEPT ![r].pc = "updated", ![r].token = t,
                         ![r].version = record[t].version + 1]
    /\ UNCHANGED <<now, record, audit>>

\* appendAuditEvent, up to the creation of the event: the latest event is read,
\* then the clock.
ChainEvent(r) ==
    /\ req[r].pc = "updated"
    /\ req' = [req EXCEPT ![r].pc = "chained", ![r].createdAt = now,
                         ![r].hashPrev = PreviousHash(audit[req[r].token])]
    /\ UNCHANGED <<now, record, audit, rowLock>>

\* What is left of a request once it is through with token t.
AfterRow(r, t) ==
    IF req[r].todo = {t}
    THEN IdleRequest
    ELSE Checked(req[r].todo \ {t}, req[r].next, req[r].supersededBy)

\* Mutant: an update that has no successor to name leaves the old one.
CommitRowKeepsSuccessor(r) ==
    /\ req[r].pc = "chained"
    /\ LET t == req[r].token
           q == req[r]
       IN  /\ record' = [record EXCEPT ![t].status = q.next, ![t].version = q.version,
                            ![t].supersededBy = IF q.supersededBy = NoToken THEN @ ELSE q.supersededBy]
           /\ audit' = [audit EXCEPT ![t] =
                    Append(@, AuditEvent(q.next, q.version, ChangeDetail, q.hashPrev, q.createdAt))]
           /\ rowLock' = [rowLock EXCEPT ![t] = NoRequest]
           /\ req' = [req EXCEPT ![r] = AfterRow(r, t)]
    /\ UNCHANGED now

\* The event is created and the transaction commits: row and event become
\* visible together and the row is released.
CommitRow(r) ==
    /\ req[r].pc = "chained"
    /\ LET t == req[r].token
           q == req[r]
       IN  /\ record' = [record EXCEPT ![t].status = q.next, ![t].version = q.version,
                                      ![t].supersededBy = q.supersededBy]
           /\ audit' = [audit EXCEPT ![t] =
                    Append(@, AuditEvent(q.next, q.version, ChangeDetail, q.hashPrev, q.createdAt))]
           /\ rowLock' = [rowLock EXCEPT ![t] = NoRequest]
           /\ req' = [req EXCEPT ![r] = AfterRow(r, t)]
    /\ UNCHANGED now

\* Mutant: a failed transaction is not rolled back.
AbortKeepsLock(r) ==
    /\ req[r].pc # "idle"
    /\ req' = [req EXCEPT ![r] = IdleRequest]
    /\ UNCHANGED <<now, record, audit, rowLock>>

\* The process dies, the database is lost or the transaction times out: an open
\* transaction is rolled back, and with it the rest of the request.
Abort(r) ==
    /\ req[r].pc # "idle"
    /\ rowLock' = [t \in TokenIds |-> IF rowLock[t] = r THEN NoRequest ELSE rowLock[t]]
    /\ req' = [req EXCEPT ![r] = IdleRequest]
    /\ UNCHANGED <<now, record, audit>>

Next ==
    \/ Tick
    \/ \E t \in TokenIds, issuedAt, expiresAt \in Time : CreateToken(t, issuedAt, expiresAt)
    \/ \E r \in Requests, t \in TokenIds, next \in Statuses, by \in TokenIds \cup {NoToken} :
          CheckStatusUpdate(r, t, next, by)
    \/ \E r \in Requests : ReadExpireDue(r)
    \/ \E r \in Requests, t \in TokenIds : UpdateRow(r, t)
    \/ \E r \in Requests : ChainEvent(r)
    \/ \E r \in Requests : CommitRow(r)
    \/ \E r \in Requests : Abort(r)

Spec == Init /\ [][Next]_vars

\* A request that was accepted keeps running, and PostgreSQL grants a row lock
\* in the order of arrival, so a waiter is not overtaken for ever (SF).  Nothing
\* is assumed about callers, the clock or failures.
FairSpec ==
    /\ Spec
    /\ \A r \in Requests : SF_vars(\E t \in TokenIds : UpdateRow(r, t))
    /\ \A r \in Requests : WF_vars(ChainEvent(r) \/ CommitRow(r))

-----------------------------------------------------------------------------
(* Properties                                                              *)

\* The shape of the state.
TypeOK ==
    /\ now \in Time
    /\ record \in [TokenIds -> Records]
    /\ \A t \in TokenIds : Exists(t) <=> record[t].version > 0
    /\ audit \in [TokenIds -> Seq(Events)]
    /\ rowLock \in [TokenIds -> Requests \cup {NoRequest}]
    /\ req \in [Requests -> RequestRecords]
    /\ \A r \in Requests : req[r].pc # "idle" => req[r].todo # {}

\* The stored events without the fields appendAuditEvent added to them.
AsHashed(events) ==
    [i \in 1 .. Len(events) |-> [events[i] EXCEPT !.detail = @ \ AddedDetail]]

\* However many updates and sweeps of a token ran at once, its events form one
\* chain in the order the audit endpoint gives them (createdAt, then id): each
\* names the hash of the one before it, and has the hash of what it holds once
\* the added fields are left out of its detail.  As they are stored they do not
\* pass verifyAuditHashChain, which has those fields in what it hashes.
AuditChainLinks ==
    \A t \in TokenIds :
        /\ \A i, j \in 1 .. Len(audit[t]) :
              i < j => audit[t][i].createdAt <= audit[t][j].createdAt
        /\ VerifyAuditHashChain(AsHashed(audit[t]))

\* A row and its audit trail never disagree: the trail holds the versions 1, 2,
\* ... of the row, each once, and its last event shows the row as it is.  No
\* update is lost and none is recorded twice.
AuditMatchesRecord ==
    \A t \in TokenIds :
        /\ Len(audit[t]) = record[t].version
        /\ \A i \in 1 .. Len(audit[t]) : audit[t][i].version = i
        /\ Exists(t) => audit[t][record[t].version].status = record[t].status

\* A token that has left ACTIVE is never ACTIVE again, although every write of
\* the status is unconditional: no stale request can bring it back.
NeverReactivated ==
    [][\A t \in TokenIds :
          Exists(t) /\ record[t].status # "ACTIVE" => record'[t].status # "ACTIVE"]_vars

\* A request that waits for a row another transaction holds gets it in the end,
\* also when that transaction is rolled back: status updates and sweeps that
\* want the same rows do not block each other.
RequestsEnd == \A r \in Requests : req[r].pc # "idle" ~> req[r].pc = "idle"

\* What assertValidStatusTransition promises: REVOKED, SUPERSEDED and EXPIRED
\* have no successor (registry-domain.ts:7-12).  The update and the sweep break
\* it: they judge a status they read before their transaction.
TerminalStatusIsFinal ==
    [][\A t \in TokenIds :
          Exists(t) /\ record'[t].status # record[t].status
             => CanTransitionStatus(record[t].status, record'[t].status)]_vars

\* The rows and the trails, seen as the ledger the registry promises.
Ledger == INSTANCE RegistryLedger WITH
    row <- [t \in TokenIds |-> [status |-> record[t].status, version |-> record[t].version,
                                supersededBy |-> record[t].supersededBy]],
    history <- [t \in TokenIds |-> [i \in 1 .. Len(audit[t]) |-> audit[t][i].status]]

\* Whatever requests overlap, wait or are rolled back, readers see a ledger: each
\* change of a row is one step, which makes the next version and records it, and
\* a row names a successor exactly when it is SUPERSEDED.
ImplementsLedger == Ledger!Spec

=============================================================================
