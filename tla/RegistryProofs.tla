--------------------------- MODULE RegistryProofs ---------------------------
(***************************************************************************)
(* What registry-service guarantees for every set of tokens, any number of *)
(* concurrent requests, every clock bound and every batch size.            *)
(*                                                                         *)
(* The invariant that carries the proofs says what an open transaction     *)
(* knows: it holds its row's lock, so the version it wrote and the hash it *)
(* read are still the current ones when it commits.                        *)
(***************************************************************************)
EXTENDS Registry, FiniteSetTheorems, WellFoundedInduction, TLAPS

InTransaction(r) == req[r].pc \in {"updated", "chained"}

\* Rows a request still has to write exist and its target status is terminal.
PlanInv ==
    \A r \in Requests :
        /\ \A t \in req[r].todo : Exists(t)
        /\ req[r].pc # "idle" => req[r].next # "ACTIVE"

\* An open transaction holds its row and what it read of it is current.
LockInv ==
    \A r \in Requests : InTransaction(r) =>
        /\ req[r].token \in req[r].todo
        /\ rowLock[req[r].token] = r
        /\ req[r].version = record[req[r].token].version + 1
        /\ req[r].pc = "chained" =>
              /\ req[r].hashPrev = PreviousHash(audit[req[r].token])
              /\ req[r].createdAt <= now
              /\ \A i \in 1 .. Len(audit[req[r].token]) :
                    audit[req[r].token][i].createdAt <= req[r].createdAt

\* No event is dated in the future.
ClockInv ==
    \A t \in TokenIds : \A i \in 1 .. Len(audit[t]) : audit[t][i].createdAt <= now

RegistryInv ==
    /\ TypeOK
    /\ PlanInv
    /\ LockInv
    /\ ClockInv
    /\ AuditChainLinks
    /\ AuditMatchesRecord

-----------------------------------------------------------------------------
(* Lemmas about the operators                                              *)

\* The event has the hash of what it holds without the added fields.
Hashed(e) == e.hashCurr = ComputeAuditHash(e.version, e.status, e.detail \ AddedDetail)

\* Events in the order of their dates: the first row of the query that sorts
\* by createdAt and id, both descending, is the last event.
LEMMA LatestIsLast ==
    ASSUME NEW events \in Seq(Events), events # <<>>,
           \A i, j \in 1 .. Len(events) :
               i < j => events[i].createdAt <= events[j].createdAt
    PROVE  LatestIndex(events) = Len(events)
<1> DEFINE Latest(i) == \A j \in 1 .. Len(events) :
                            \/ events[j].createdAt < events[i].createdAt
                            \/ events[j].createdAt = events[i].createdAt /\ j <= i
<1>1. Len(events) \in 1 .. Len(events)
  OBVIOUS
<1>2. \A i \in 1 .. Len(events) : events[i].createdAt \in Int
  <2>1. \A i \in 1 .. Len(events) : events[i] \in Events
    OBVIOUS
  <2> QED
    BY <2>1, RegistryAssumption DEF Events, Time
<1>3. Latest(Len(events))
  <2> TAKE j \in 1 .. Len(events)
  <2>1. CASE j = Len(events)
    BY <2>1, <1>1, <1>2
  <2>2. CASE j # Len(events)
    BY <2>2, <1>1, <1>2
  <2> QED
    BY <2>1, <2>2
<1>4. ASSUME NEW i \in 1 .. Len(events), Latest(i)
      PROVE  i = Len(events)
  BY <1>1, <1>2, <1>4
<1> QED
  BY <1>1, <1>3, <1>4 DEF LatestIndex

\* The types of what appendAuditEvent reads and of the event it makes.
LEMMA PreviousHashTyped ==
    ASSUME NEW events \in Seq(Events),
           \A i, j \in 1 .. Len(events) :
               i < j => events[i].createdAt <= events[j].createdAt
    PROVE  PreviousHash(events) \in Hashes \cup {NoHash}
<1>1. CASE events = <<>>
  BY <1>1 DEF PreviousHash
<1>2. CASE events # <<>>
  <2>1. events[Len(events)] \in Events
    BY <1>2
  <2>2. PreviousHash(events) = events[Len(events)].hashCurr
    BY <1>2, LatestIsLast DEF PreviousHash
  <2> QED
    BY <2>1, <2>2 DEF Events
<1> QED
  BY <1>1, <1>2

LEMMA AuditEventTyped ==
    ASSUME NEW s \in Statuses, NEW v \in Nat, NEW at \in Time,
           NEW given \in SUBSET ChangeDetail, NEW prev \in Hashes \cup {NoHash}
    PROVE  /\ AuditEvent(s, v, given, prev, at) \in Events
           /\ Hashed(AuditEvent(s, v, given, prev, at))
<1> DEFINE e == AuditEvent(s, v, given, prev, at)
<1>1. given \in Details /\ AddedDetail \cup given \in Details
  BY DEF Details
<1>2. (AddedDetail \cup given) \ AddedDetail = given
  BY DEF AddedDetail, ChangeDetail
<1>3. ComputeAuditHash(v, s, given) \in Hashes
  BY <1>1 DEF ComputeAuditHash, Hashes
<1>4. e.version = v /\ e.status = s /\ e.detail = AddedDetail \cup given
      /\ e.hashCurr = ComputeAuditHash(v, s, given)
  BY DEF AuditEvent
<1>5. e \in Events
  BY <1>1, <1>3 DEF AuditEvent, Events
<1>6. Hashed(e)
  BY <1>2, <1>4 DEF Hashed
<1> QED
  BY <1>5, <1>6

\* Verifying the events without their added fields, event by event.
LEMMA AsHashedChain ==
    ASSUME NEW events \in Seq(Events)
    PROVE  VerifyAuditHashChain(AsHashed(events)) <=>
              \A i \in 1 .. Len(events) :
                 /\ events[i].hashPrev = IF i = 1 THEN NoHash ELSE events[i - 1].hashCurr
                 /\ Hashed(events[i])
<1> DEFINE h == AsHashed(events)
<1>1. Len(h) = Len(events)
  BY DEF AsHashed
<1>2. \A i \in 1 .. Len(events) :
         /\ h[i].hashPrev = events[i].hashPrev /\ h[i].hashCurr = events[i].hashCurr
         /\ h[i].version = events[i].version /\ h[i].status = events[i].status
         /\ h[i].detail = events[i].detail \ AddedDetail
  <2> TAKE i \in 1 .. Len(events)
  <2>1. events[i] \in Events
    OBVIOUS
  <2>2. h[i] = [events[i] EXCEPT !.detail = @ \ AddedDetail]
    BY DEF AsHashed
  <2> QED
    BY <2>1, <2>2 DEF Events
<1> HIDE DEF h
<1>3. ASSUME NEW i \in 1 .. Len(events), i # 1
      PROVE  h[i - 1].hashCurr = events[i - 1].hashCurr
  <2>1. i - 1 \in 1 .. Len(events)
    BY <1>3
  <2> QED
    BY <2>1, <1>2
<1>4. ASSUME NEW i \in 1 .. Len(events)
      PROVE  /\ h[i].hashPrev = (IF i = 1 THEN NoHash ELSE h[i - 1].hashCurr)
                <=> events[i].hashPrev = (IF i = 1 THEN NoHash ELSE events[i - 1].hashCurr)
             /\ h[i].hashCurr = ComputeAuditHash(h[i].version, h[i].status, h[i].detail)
                <=> Hashed(events[i])
  <2>1. IF i = 1 THEN TRUE ELSE h[i - 1].hashCurr = events[i - 1].hashCurr
    BY <1>3
  <2> QED
    BY <1>2, <2>1 DEF Hashed
<1>5. VerifyAuditHashChain(h) <=>
         \A i \in 1 .. Len(events) :
            /\ h[i].hashPrev = IF i = 1 THEN NoHash ELSE h[i - 1].hashCurr
            /\ h[i].hashCurr = ComputeAuditHash(h[i].version, h[i].status, h[i].detail)
  BY <1>1 DEF VerifyAuditHashChain
<1> QED
  BY <1>4, <1>5 DEF h

\* Appending an event that names the latest hash and is dated no earlier than
\* any other keeps the chain verifiable in the order the events are read.
LEMMA AppendKeepsChain ==
    ASSUME NEW events \in Seq(Events), NEW s \in Statuses, NEW v \in Nat,
           NEW given \in SUBSET ChangeDetail, NEW at \in Time,
           \A i, j \in 1 .. Len(events) :
               i < j => events[i].createdAt <= events[j].createdAt,
           VerifyAuditHashChain(AsHashed(events)),
           \A i \in 1 .. Len(events) : events[i].createdAt <= at,
           NEW longer,
           longer = Append(events, AuditEvent(s, v, given, PreviousHash(events), at))
    PROVE  /\ longer \in Seq(Events)
           /\ \A i, j \in 1 .. Len(longer) :
                 i < j => longer[i].createdAt <= longer[j].createdAt
           /\ VerifyAuditHashChain(AsHashed(longer))
<1> DEFINE e == AuditEvent(s, v, given, PreviousHash(events), at)
<1>1. PreviousHash(events) \in Hashes \cup {NoHash}
  BY PreviousHashTyped
<1>2. /\ e \in Events
      /\ e.createdAt = at
      /\ e.hashPrev = PreviousHash(events)
      /\ Hashed(e)
  BY <1>1, AuditEventTyped DEF AuditEvent
<1> HIDE DEF e
<1>3. /\ longer \in Seq(Events)
      /\ Len(longer) = Len(events) + 1
      /\ longer[Len(events) + 1] = e
      /\ \A i \in 1 .. Len(events) : longer[i] = events[i]
  BY <1>2 DEF e
<1>4. \A i, j \in 1 .. Len(longer) :
         i < j => longer[i].createdAt <= longer[j].createdAt
  <2> SUFFICES ASSUME NEW i \in 1 .. Len(longer), NEW j \in 1 .. Len(longer), i < j
               PROVE  longer[i].createdAt <= longer[j].createdAt
    OBVIOUS
  <2>1. i \in 1 .. Len(events)
    BY <1>3
  <2>2. CASE j = Len(events) + 1
    BY <2>1, <2>2, <1>2, <1>3
  <2>3. CASE j # Len(events) + 1
    BY <2>1, <2>3, <1>3
  <2> QED
    BY <2>2, <2>3
<1>5. VerifyAuditHashChain(AsHashed(longer))
  <2> SUFFICES ASSUME NEW i \in 1 .. Len(longer)
               PROVE  /\ longer[i].hashPrev = IF i = 1 THEN NoHash ELSE longer[i - 1].hashCurr
                      /\ Hashed(longer[i])
    BY <1>3, AsHashedChain
  <2>1. CASE i = Len(events) + 1 /\ events = <<>>
    BY <2>1, <1>2, <1>3 DEF PreviousHash
  <2>2. CASE i = Len(events) + 1 /\ events # <<>>
    <3>1. Len(events) >= 1 /\ i - 1 = Len(events)
      BY <2>2
    <3>2. PreviousHash(events) = events[Len(events)].hashCurr
      BY <2>2, LatestIsLast DEF PreviousHash
    <3> QED
      BY <2>2, <3>1, <3>2, <1>2, <1>3
  <2>3. CASE i # Len(events) + 1
    <3>1. i \in 1 .. Len(events) /\ (i # 1 => i - 1 \in 1 .. Len(events))
      BY <2>3, <1>3
    <3> QED
      BY <3>1, <1>3, AsHashedChain
  <2> QED
    BY <2>1, <2>2, <2>3
<1> QED
  BY <1>3, <1>4, <1>5

-----------------------------------------------------------------------------
(* Type correctness                                                        *)

\* The records a request starts from and falls back to.
LEMMA IdleTyped == IdleRequest \in RequestRecords
BY RegistryAssumption DEF IdleRequest, Checked, RequestRecords, Statuses, Time

LEMMA CheckedTyped ==
    ASSUME NEW todo \in SUBSET TokenIds, NEW next \in Statuses,
           NEW by \in TokenIds \cup {NoToken}
    PROVE  /\ Checked(todo, next, by) \in RequestRecords
           /\ Checked(todo, next, by).pc = "checked"
           /\ Checked(todo, next, by).todo = todo
           /\ Checked(todo, next, by).next = next
BY RegistryAssumption DEF Checked, RequestRecords, Time

-----------------------------------------------------------------------------
(* The invariant is inductive                                              *)

LEMMA InitEstablishesInv == Init => RegistryInv
<1> SUFFICES ASSUME Init PROVE RegistryInv
  OBVIOUS
<1>1. TypeOK
  <2>1. Absent \in Records /\ Absent.status = "ABSENT" /\ Absent.version = 0 /\ 0 \in Time
    BY RegistryAssumption DEF Absent, Records, Time
  <2>2. IdleRequest.pc = "idle"
    BY DEF IdleRequest, Checked
  <2> QED
    BY <2>1, <2>2, IdleTyped DEF Init, TypeOK, Exists
<1>2. PlanInv /\ LockInv
  BY DEF Init, PlanInv, LockInv, InTransaction, IdleRequest, Checked
<1>3. ClockInv /\ AuditChainLinks
  BY DEF Init, ClockInv, AuditChainLinks, VerifyAuditHashChain, AsHashed
<1>4. AuditMatchesRecord
  BY DEF Init, AuditMatchesRecord, Absent, Exists
<1> QED
  BY <1>1, <1>2, <1>3, <1>4 DEF RegistryInv

\* The clock moves: events stay in the past.
LEMMA TickKeepsInv == RegistryInv /\ Tick => RegistryInv'
<1> SUFFICES ASSUME RegistryInv, Tick PROVE RegistryInv'
  OBVIOUS
<1> USE DEF RegistryInv, Tick
<1>1. TypeOK'
  BY RegistryAssumption DEF TypeOK, Time, Exists
<1>2. PlanInv' /\ AuditChainLinks' /\ AuditMatchesRecord'
  BY DEF PlanInv, AuditChainLinks, AuditMatchesRecord, Exists
<1>3. now <= now' /\ now \in Int /\ now' \in Int
  BY RegistryAssumption DEF TypeOK, Time
<1>4. LockInv'
  <2>1. \A r \in Requests : req[r].createdAt \in Int
    BY RegistryAssumption DEF TypeOK, RequestRecords, Time
  <2> QED
    BY <1>3, <2>1 DEF LockInv, InTransaction
<1>5. ClockInv'
  <2>1. \A t \in TokenIds : \A i \in 1 .. Len(audit[t]) : audit[t][i] \in Events
    BY DEF TypeOK
  <2>2. \A t \in TokenIds : \A i \in 1 .. Len(audit[t]) : audit[t][i].createdAt \in Int
    BY <2>1, RegistryAssumption DEF Events, Time
  <2> QED
    BY <1>3, <2>2 DEF ClockInv
<1> QED
  BY <1>1, <1>2, <1>4, <1>5

\* A new row starts a new chain, which no request knows yet.
LEMMA CreateTokenKeepsInv ==
    ASSUME RegistryInv, NEW t \in TokenIds, NEW issuedAt \in Time, NEW expiresAt \in Time,
           CreateToken(t, issuedAt, expiresAt)
    PROVE  RegistryInv'
<1> USE DEF RegistryInv
<1>1. audit[t] = <<>>
  BY DEF CreateToken, TypeOK, AuditMatchesRecord, Records
<1> DEFINE row == [status |-> "ACTIVE", version |-> 1, expiresAt |-> expiresAt,
                   supersededBy |-> NoToken]
           e == AuditEvent("ACTIVE", 1, {}, NoHash, now)
<1>2. /\ record' = [record EXCEPT ![t] = row]
      /\ audit' = [audit EXCEPT ![t] = <<e>>]
      /\ UNCHANGED <<now, rowLock, req>>
  <2>1. PreviousHash(audit[t]) = NoHash
    BY <1>1 DEF PreviousHash
  <2>2. Append(audit[t], e) = <<e>>
    BY <1>1
  <2> QED
    BY <2>1, <2>2 DEF CreateToken
<1>3. /\ e \in Events
      /\ e.createdAt = now /\ e.hashPrev = NoHash /\ e.version = 1 /\ e.status = "ACTIVE"
      /\ Hashed(e)
  BY AuditEventTyped DEF TypeOK, AuditEvent, Statuses
<1>4. row \in Records
  BY DEF Records, Statuses
<1> HIDE DEF e
<1>5. /\ audit'[t] = <<e>> /\ record'[t] = row
      /\ \A u \in TokenIds \ {t} : audit'[u] = audit[u] /\ record'[u] = record[u]
  BY <1>2 DEF TypeOK
<1>5a. Len(audit'[t]) = 1 /\ audit'[t][1] = e
  BY <1>5
<1>6. \A r \in Requests : t \notin req[r].todo
  BY DEF PlanInv, CreateToken, Exists
<1>7. TypeOK'
  <2>1. record' \in [TokenIds -> Records] /\ audit' \in [TokenIds -> Seq(Events)]
    BY <1>2, <1>3, <1>4 DEF TypeOK
  <2>2. \A u \in TokenIds : Exists(u)' <=> record'[u].version > 0
    BY <1>5 DEF TypeOK, Exists
  <2> QED
    BY <1>2, <2>1, <2>2 DEF TypeOK
<1>8. PlanInv'
  BY <1>2, <1>5, <1>6 DEF PlanInv, Exists, TypeOK, RequestRecords
<1>9. LockInv'
  <2> SUFFICES ASSUME NEW r \in Requests, InTransaction(r)
               PROVE  LockInv!(r)'
    BY <1>2 DEF LockInv, InTransaction
  <2> QED
    BY <1>2, <1>5, <1>6 DEF LockInv, TypeOK, RequestRecords
<1>10. ClockInv'
  BY <1>2, <1>3, <1>5 DEF ClockInv, TypeOK, Time
<1>11. AuditChainLinks'
  <2> SUFFICES ASSUME NEW u \in TokenIds
               PROVE  AuditChainLinks!(u)'
    BY DEF AuditChainLinks
  <2>1. CASE u # t
    BY <2>1, <1>5 DEF AuditChainLinks
  <2>2. CASE u = t
    <3>1. audit'[t] \in Seq(Events)
      BY <1>3, <1>5
    <3>2. VerifyAuditHashChain(AsHashed(audit'[t]))
      BY <3>1, <1>3, <1>5a, AsHashedChain
    <3>3. \A i, j \in 1 .. Len(audit'[t]) : i < j => audit'[t][i].createdAt <= audit'[t][j].createdAt
      BY <1>5a
    <3> QED
      BY <2>2, <3>2, <3>3
  <2> QED
    BY <2>1, <2>2
<1>12. AuditMatchesRecord'
  <2> SUFFICES ASSUME NEW u \in TokenIds
               PROVE  AuditMatchesRecord!(u)'
    BY DEF AuditMatchesRecord
  <2>1. CASE u # t
    BY <2>1, <1>5 DEF AuditMatchesRecord, Exists
  <2>2. CASE u = t
    BY <2>2, <1>3, <1>5, <1>5a
  <2> QED
    BY <2>1, <2>2
<1> QED
  BY <1>7, <1>8, <1>9, <1>10, <1>11, <1>12

\* A sweep that finds due rows takes at least one.
LEMMA BatchNotEmpty ==
    ASSUME NEW S \in SUBSET TokenIds, S # {}, NEW B, IsBatch(B, S)
    PROVE  B # {}
<1>1. IsFiniteSet(S) /\ IsFiniteSet(B)
  BY RegistryAssumption, FS_Subset DEF IsBatch
<1>2. Cardinality(S) \in Nat \ {0}
  BY <1>1, FS_CardinalityType, FS_EmptySet
<1>3. Cardinality(B) # 0
  BY <1>2, RegistryAssumption DEF IsBatch
<1> QED
  BY <1>3, FS_EmptySet

\* A request that opens with a plan for rows that exist, and no transaction yet.
LEMMA PlanKeepsInv ==
    ASSUME RegistryInv, NEW r \in Requests, NEW q \in RequestRecords,
           req' = [req EXCEPT ![r] = q],
           UNCHANGED <<now, record, audit, rowLock>>,
           q.pc = "checked", q.todo # {}, q.next # "ACTIVE",
           \A t \in q.todo : Exists(t)
    PROVE  RegistryInv'
<1> USE DEF RegistryInv
<1>1. TypeOK'
  BY DEF TypeOK, Exists
<1>2. PlanInv'
  BY DEF PlanInv, TypeOK, Exists
<1>3. LockInv'
  BY DEF LockInv, InTransaction, TypeOK
<1>4. ClockInv' /\ AuditChainLinks' /\ AuditMatchesRecord'
  BY DEF ClockInv, AuditChainLinks, AuditMatchesRecord, Exists
<1> QED
  BY <1>1, <1>2, <1>3, <1>4

LEMMA CheckStatusUpdateKeepsInv ==
    ASSUME RegistryInv, NEW r \in Requests, NEW t \in TokenIds, NEW next \in Statuses,
           NEW by \in TokenIds \cup {NoToken}, CheckStatusUpdate(r, t, next, by)
    PROVE  RegistryInv'
<1> DEFINE b == IF next = "SUPERSEDED" THEN by ELSE NoToken
<1>1. next # "ACTIVE"
  <2>1. record[t].status \in Statuses
    BY DEF CheckStatusUpdate, Exists, RegistryInv, TypeOK, Records
  <2> QED
    BY <2>1 DEF CheckStatusUpdate, CanTransitionStatus, AllowedTransitions
<1>2. b \in TokenIds \cup {NoToken}
  OBVIOUS
<1> HIDE DEF b
<1>3. /\ Checked({t}, next, b) \in RequestRecords
      /\ Checked({t}, next, b).pc = "checked"
      /\ Checked({t}, next, b).todo = {t}
      /\ Checked({t}, next, b).next = next
  BY <1>2, CheckedTyped
<1>4. /\ req' = [req EXCEPT ![r] = Checked({t}, next, b)]
      /\ UNCHANGED <<now, record, audit, rowLock>>
      /\ Exists(t)
  BY DEF CheckStatusUpdate, b
<1> QED
  BY <1>1, <1>3, <1>4, PlanKeepsInv

LEMMA ReadExpireDueKeepsInv ==
    ASSUME RegistryInv, NEW r \in Requests, ReadExpireDue(r)
    PROVE  RegistryInv'
<1>1. PICK batch \in SUBSET DueTokens :
         /\ IsBatch(batch, DueTokens)
         /\ req' = [req EXCEPT ![r] = Checked(batch, "EXPIRED", NoToken)]
  BY DEF ReadExpireDue
<1>2. batch \in SUBSET TokenIds /\ \A t \in batch : Exists(t)
  BY DEF DueTokens, Exists
<1>3. /\ Checked(batch, "EXPIRED", NoToken) \in RequestRecords
      /\ Checked(batch, "EXPIRED", NoToken).pc = "checked"
      /\ Checked(batch, "EXPIRED", NoToken).todo = batch
      /\ Checked(batch, "EXPIRED", NoToken).next = "EXPIRED"
  BY <1>2, CheckedTyped DEF Statuses
<1>4. batch # {}
  <2>1. DueTokens \in SUBSET TokenIds
    BY DEF DueTokens
  <2>2. DueTokens # {}
    BY DEF ReadExpireDue
  <2> QED
    BY <1>1, <2>1, <2>2, BatchNotEmpty
<1> QED
  BY <1>1, <1>2, <1>3, <1>4, PlanKeepsInv DEF ReadExpireDue

\* The UPDATE takes a free row; the version it writes follows the committed one.
LEMMA UpdateRowKeepsInv ==
    ASSUME RegistryInv, NEW r \in Requests, NEW t \in TokenIds, UpdateRow(r, t)
    PROVE  RegistryInv'
<1> USE DEF RegistryInv
<1>1. /\ req[r].pc = "checked" /\ t \in req[r].todo /\ rowLock[t] = NoRequest
      /\ rowLock' = [rowLock EXCEPT ![t] = r]
      /\ UNCHANGED <<now, record, audit>>
  BY DEF UpdateRow, NextRows
<1>2. /\ req'[r].pc = "updated" /\ req'[r].token = t
      /\ req'[r].version = record[t].version + 1
      /\ req'[r].todo = req[r].todo /\ req'[r].next = req[r].next
      /\ \A s \in Requests \ {r} : req'[s] = req[s]
      /\ req' \in [Requests -> RequestRecords]
  <2>1. record[t].version + 1 \in Nat
    BY DEF TypeOK, Records
  <2> DEFINE q == [req[r] EXCEPT !.pc = "updated", !.token = t,
                                 !.version = record[t].version + 1]
  <2>2. req[r] \in RequestRecords
    BY DEF TypeOK
  <2>3. /\ q \in RequestRecords /\ q.pc = "updated" /\ q.token = t
        /\ q.version = record[t].version + 1
        /\ q.todo = req[r].todo /\ q.next = req[r].next
    BY <2>1, <2>2 DEF RequestRecords
  <2>4. req' = [req EXCEPT ![r] = q]
    BY DEF UpdateRow, TypeOK
  <2> HIDE DEF q
  <2> QED
    BY <2>3, <2>4 DEF TypeOK
<1>3. TypeOK'
  BY <1>1, <1>2 DEF TypeOK, Exists
<1>4. PlanInv'
  BY <1>1, <1>2 DEF PlanInv, Exists
<1>5. LockInv'
  <2> SUFFICES ASSUME NEW s \in Requests, InTransaction(s)'
               PROVE  LockInv!(s)'
    BY DEF LockInv
  <2>1. CASE s = r
    BY <2>1, <1>1, <1>2 DEF TypeOK
  <2>2. CASE s # r
    <3>1. InTransaction(s) /\ rowLock[req[s].token] = s /\ req[s].token \in TokenIds
      BY <2>2, <1>2 DEF LockInv, InTransaction, TypeOK, RequestRecords
    <3>2. req[s].token # t
      BY <3>1, <1>1, RegistryAssumption
    <3> QED
      BY <2>2, <3>1, <3>2, <1>1, <1>2 DEF LockInv, TypeOK
  <2> QED
    BY <2>1, <2>2
<1>6. ClockInv' /\ AuditChainLinks' /\ AuditMatchesRecord'
  BY <1>1 DEF ClockInv, AuditChainLinks, AuditMatchesRecord, Exists
<1> QED
  BY <1>3, <1>4, <1>5, <1>6

\* appendAuditEvent reads the latest hash and the clock while the row is held.
LEMMA ChainEventKeepsInv ==
    ASSUME RegistryInv, NEW r \in Requests, ChainEvent(r)
    PROVE  RegistryInv'
<1> USE DEF RegistryInv
<1> DEFINE t == req[r].token
<1>1. /\ req[r].pc = "updated" /\ InTransaction(r) /\ t \in TokenIds
      /\ UNCHANGED <<now, record, audit, rowLock>>
  BY DEF ChainEvent, InTransaction, LockInv, TypeOK, RequestRecords
<1>2. PreviousHash(audit[t]) \in Hashes \cup {NoHash}
  BY <1>1, PreviousHashTyped DEF TypeOK, AuditChainLinks
<1>3. /\ req'[r].pc = "chained" /\ req'[r].token = t
      /\ req'[r].version = req[r].version /\ req'[r].todo = req[r].todo
      /\ req'[r].next = req[r].next /\ req'[r].createdAt = now
      /\ req'[r].hashPrev = PreviousHash(audit[t])
      /\ \A s \in Requests \ {r} : req'[s] = req[s]
      /\ req' \in [Requests -> RequestRecords]
  <2> DEFINE q == [req[r] EXCEPT !.pc = "chained", !.createdAt = now,
                                 !.hashPrev = PreviousHash(audit[t])]
  <2>1. req[r] \in RequestRecords /\ now \in Time
    BY DEF TypeOK
  <2>2. /\ q \in RequestRecords /\ q.pc = "chained" /\ q.token = t
        /\ q.version = req[r].version /\ q.todo = req[r].todo /\ q.next = req[r].next
        /\ q.createdAt = now /\ q.hashPrev = PreviousHash(audit[t])
    BY <1>2, <2>1 DEF RequestRecords
  <2>3. req' = [req EXCEPT ![r] = q]
    BY DEF ChainEvent, TypeOK
  <2> HIDE DEF q
  <2> QED
    BY <2>2, <2>3 DEF TypeOK
<1>4. TypeOK'
  BY <1>1, <1>3 DEF TypeOK, Exists
<1>5. PlanInv'
  BY <1>1, <1>3 DEF PlanInv, Exists
<1>6. LockInv'
  <2> SUFFICES ASSUME NEW s \in Requests, InTransaction(s)'
               PROVE  LockInv!(s)'
    BY DEF LockInv
  <2>1. CASE s = r
    BY <2>1, <1>1, <1>3, RegistryAssumption DEF LockInv, ClockInv, TypeOK, Time
  <2>2. CASE s # r
    BY <2>2, <1>1, <1>3 DEF LockInv, InTransaction
  <2> QED
    BY <2>1, <2>2
<1>7. ClockInv' /\ AuditChainLinks' /\ AuditMatchesRecord'
  BY <1>1 DEF ClockInv, AuditChainLinks, AuditMatchesRecord, Exists
<1> QED
  BY <1>4, <1>5, <1>6, <1>7

\* The row and its event become visible together: the event follows the latest
\* one and records the version the row now has.
LEMMA CommitRowKeepsInv ==
    ASSUME RegistryInv, NEW r \in Requests, CommitRow(r)
    PROVE  RegistryInv'
<1> USE DEF RegistryInv
<1> DEFINE t == req[r].token
           e == AuditEvent(req[r].next, req[r].version, ChangeDetail, req[r].hashPrev,
                          req[r].createdAt)
           row == [record[t] EXCEPT !.status = req[r].next, !.version = req[r].version,
                                    !.supersededBy = req[r].supersededBy]
<1>1. /\ req[r].pc = "chained" /\ t \in TokenIds /\ t \in req[r].todo
      /\ rowLock[t] = r /\ req[r].version = record[t].version + 1
      /\ req[r].hashPrev = PreviousHash(audit[t]) /\ req[r].createdAt <= now
      /\ \A i \in 1 .. Len(audit[t]) : audit[t][i].createdAt <= req[r].createdAt
      /\ req[r] \in RequestRecords
  BY DEF CommitRow, LockInv, InTransaction, TypeOK, RequestRecords
<1>2. /\ Exists(t) /\ req[r].next # "ACTIVE" /\ req[r].next \in Statuses
      /\ req[r].version \in Nat \ {0} /\ req[r].createdAt \in Time
      /\ req[r].supersededBy \in TokenIds \cup {NoToken}
  <2>1. Exists(t) /\ req[r].next # "ACTIVE"
    BY <1>1 DEF PlanInv
  <2>2. record[t].version \in Nat
    BY <1>1 DEF TypeOK, Records
  <2> QED
    BY <2>1, <2>2, <1>1 DEF RequestRecords
<1>3. /\ row \in Records /\ row.status = req[r].next /\ row.version = req[r].version
      /\ row.status # "ABSENT"
  BY ZenonT(30), <1>1, <1>2 DEF TypeOK, Records, Statuses
<1>4. /\ record' = [record EXCEPT ![t] = row]
      /\ audit' = [audit EXCEPT ![t] = Append(@, e)]
      /\ rowLock' = [rowLock EXCEPT ![t] = NoRequest]
      /\ req' = [req EXCEPT ![r] = AfterRow(r, t)]
      /\ now' = now
  BY <1>1 DEF CommitRow, TypeOK
<1>5. /\ e.version = req[r].version /\ e.status = req[r].next
      /\ e.createdAt = req[r].createdAt
  BY DEF AuditEvent
<1> DEFINE q == AfterRow(r, t)
<1>6. /\ q \in RequestRecords /\ q.pc \in {"idle", "checked"}
      /\ q.todo \subseteq req[r].todo
      /\ q.pc # "idle" => q.todo # {} /\ q.next = req[r].next
  <2>1. CASE req[r].todo = {t}
    <3>1. IdleRequest.pc = "idle" /\ IdleRequest.todo = {}
      BY DEF IdleRequest, Checked
    <3> QED
      BY <2>1, <3>1, IdleTyped DEF AfterRow
  <2>2. CASE req[r].todo # {t}
    <3>1. req[r].todo \ {t} \in SUBSET TokenIds /\ req[r].todo \ {t} # {}
      BY <2>2, <1>1 DEF RequestRecords
    <3> QED
      BY <2>2, <3>1, <1>2, CheckedTyped DEF AfterRow
  <2> QED
    BY <2>1, <2>2
<1>7. audit[t] \in Seq(Events) /\ VerifyAuditHashChain(AsHashed(audit[t]))
      /\ \A i, j \in 1 .. Len(audit[t]) :
            i < j => audit[t][i].createdAt <= audit[t][j].createdAt
  BY <1>1 DEF TypeOK, AuditChainLinks
<1> DEFINE longer == Append(audit[t], e)
<1>8. /\ longer \in Seq(Events)
      /\ \A i, j \in 1 .. Len(longer) :
            i < j => longer[i].createdAt <= longer[j].createdAt
      /\ VerifyAuditHashChain(AsHashed(longer))
  BY <1>1, <1>2, <1>7, AppendKeepsChain
<1>9. /\ Len(longer) = Len(audit[t]) + 1 /\ longer[Len(audit[t]) + 1] = e
      /\ \A i \in 1 .. Len(audit[t]) : longer[i] = audit[t][i]
  BY <1>7
<1> HIDE DEF e, row, q, longer
<1>10. /\ audit'[t] = longer /\ record'[t] = row /\ req'[r] = q
       /\ \A u \in TokenIds \ {t} : /\ audit'[u] = audit[u] /\ record'[u] = record[u]
                                    /\ rowLock'[u] = rowLock[u]
       /\ \A s \in Requests \ {r} : req'[s] = req[s]
  BY <1>1, <1>4 DEF TypeOK, q, longer
<1>11. \A u \in TokenIds : Exists(u) <=> Exists(u)'
  BY <1>2, <1>3, <1>10 DEF Exists
<1>12. TypeOK'
  <2>1. \A u \in TokenIds : Exists(u)' <=> record'[u].version > 0
    BY <1>2, <1>3, <1>10, <1>11 DEF TypeOK
  <2>2. /\ record' \in [TokenIds -> Records] /\ audit' \in [TokenIds -> Seq(Events)]
        /\ rowLock' \in [TokenIds -> Requests \cup {NoRequest}]
    BY <1>1, <1>3, <1>4, <1>8 DEF TypeOK, longer
  <2>3. /\ req' \in [Requests -> RequestRecords]
        /\ \A s \in Requests : req'[s].pc # "idle" => req'[s].todo # {}
    BY <1>4, <1>6, <1>10 DEF TypeOK, q
  <2> QED
    BY <1>4, <2>1, <2>2, <2>3 DEF TypeOK
<1>13. PlanInv'
  <2> SUFFICES ASSUME NEW s \in Requests
               PROVE  /\ \A u \in req'[s].todo : Exists(u)'
                      /\ req'[s].pc # "idle" => req'[s].next # "ACTIVE"
    BY DEF PlanInv
  <2>1. req'[s].todo \subseteq req[s].todo /\ req[s].todo \subseteq TokenIds
    BY <1>6, <1>10 DEF TypeOK, RequestRecords
  <2>2. req'[s].pc # "idle" => req'[s].next # "ACTIVE"
    BY <1>2, <1>6, <1>10 DEF PlanInv
  <2> QED
    BY <2>1, <2>2, <1>11 DEF PlanInv
<1>14. LockInv'
  <2> SUFFICES ASSUME NEW s \in Requests, InTransaction(s)'
               PROVE  LockInv!(s)'
    BY DEF LockInv
  <2>1. s # r
    BY <1>6, <1>10 DEF InTransaction
  <2>2. /\ InTransaction(s) /\ req[s].token \in TokenIds /\ rowLock[req[s].token] = s
    BY <2>1, <1>10 DEF LockInv, InTransaction, TypeOK, RequestRecords
  <2>3. req[s].token # t
    BY <2>1, <2>2, <1>1
  <2> QED
    BY <2>1, <2>2, <2>3, <1>4, <1>10 DEF LockInv
<1>15. ClockInv'
  BY SMTT(20), <1>1, <1>4, <1>5, <1>7, <1>9, <1>10 DEF ClockInv
<1>16. AuditChainLinks'
  BY <1>8, <1>10 DEF AuditChainLinks
<1>17. AuditMatchesRecord'
  <2> SUFFICES ASSUME NEW u \in TokenIds
               PROVE  AuditMatchesRecord!(u)'
    BY DEF AuditMatchesRecord
  <2>1. CASE u # t
    BY <2>1, <1>10, <1>11 DEF AuditMatchesRecord
  <2>2. CASE u = t
    <3>1. Len(audit[t]) = record[t].version /\ Len(longer) = req[r].version
      BY <1>1, <1>9 DEF AuditMatchesRecord
    <3>2. \A i \in 1 .. Len(longer) : longer[i].version = i
      <4> TAKE i \in 1 .. Len(longer)
      <4>1. CASE i = Len(longer)
        BY <4>1, <3>1, <1>1, <1>2, <1>5, <1>9
      <4>2. CASE i # Len(longer)
        <5>1. i \in 1 .. Len(audit[t])
          BY <4>2, <1>7, <1>9
        <5> QED
          BY <5>1, <1>1, <1>9 DEF AuditMatchesRecord
      <4> QED
        BY <4>1, <4>2
    <3> QED
      BY <2>2, <3>1, <3>2, <1>1, <1>3, <1>5, <1>9, <1>10
  <2> QED
    BY <2>1, <2>2
<1> QED
  BY <1>12, <1>13, <1>14, <1>15, <1>16, <1>17

\* A rollback frees the rows of one request and touches nothing committed.
LEMMA AbortKeepsInv ==
    ASSUME RegistryInv, NEW r \in Requests, Abort(r)
    PROVE  RegistryInv'
<1> USE DEF RegistryInv
<1>1. /\ rowLock' = [t \in TokenIds |-> IF rowLock[t] = r THEN NoRequest ELSE rowLock[t]]
      /\ req' = [req EXCEPT ![r] = IdleRequest]
      /\ UNCHANGED <<now, record, audit>>
  BY DEF Abort
<1>2. IdleRequest \in RequestRecords /\ IdleRequest.pc = "idle" /\ IdleRequest.todo = {}
  BY IdleTyped DEF IdleRequest, Checked
<1>3. TypeOK'
  BY <1>1, <1>2 DEF TypeOK, Exists
<1>4. PlanInv'
  BY <1>1, <1>2 DEF PlanInv, TypeOK, Exists
<1>5. LockInv'
  BY <1>1, <1>2 DEF LockInv, InTransaction, TypeOK, RequestRecords
<1>6. ClockInv' /\ AuditChainLinks' /\ AuditMatchesRecord'
  BY <1>1 DEF ClockInv, AuditChainLinks, AuditMatchesRecord, Exists
<1> QED
  BY <1>3, <1>4, <1>5, <1>6

\* Every step of the service, or a step that changes nothing, keeps the invariant.
LEMMA NextKeepsInv == RegistryInv /\ [Next]_vars => RegistryInv'
<1> SUFFICES ASSUME RegistryInv, [Next]_vars PROVE RegistryInv'
  OBVIOUS
<1>1. CASE UNCHANGED vars
  BY <1>1 DEF vars, RegistryInv, TypeOK, PlanInv, LockInv, ClockInv, AuditChainLinks,
              AuditMatchesRecord, Exists, InTransaction
<1>2. CASE Tick
  BY <1>2, TickKeepsInv
<1>3. ASSUME NEW t \in TokenIds, NEW issuedAt \in Time, NEW expiresAt \in Time,
             CreateToken(t, issuedAt, expiresAt)
      PROVE  RegistryInv'
  BY <1>3, CreateTokenKeepsInv
<1>4. ASSUME NEW r \in Requests, NEW t \in TokenIds, NEW next \in Statuses,
             NEW by \in TokenIds \cup {NoToken}, CheckStatusUpdate(r, t, next, by)
      PROVE  RegistryInv'
  BY <1>4, CheckStatusUpdateKeepsInv
<1>5. ASSUME NEW r \in Requests, ReadExpireDue(r) PROVE RegistryInv'
  BY <1>5, ReadExpireDueKeepsInv
<1>6. ASSUME NEW r \in Requests, NEW t \in TokenIds, UpdateRow(r, t) PROVE RegistryInv'
  BY <1>6, UpdateRowKeepsInv
<1>7. ASSUME NEW r \in Requests, ChainEvent(r) PROVE RegistryInv'
  BY <1>7, ChainEventKeepsInv
<1>8. ASSUME NEW r \in Requests, CommitRow(r) PROVE RegistryInv'
  BY <1>8, CommitRowKeepsInv
<1>9. ASSUME NEW r \in Requests, Abort(r) PROVE RegistryInv'
  BY <1>9, AbortKeepsInv
<1> QED
  BY <1>1, <1>2, <1>3, <1>4, <1>5, <1>6, <1>7, <1>8, <1>9 DEF Next

-----------------------------------------------------------------------------
(* The theorems                                                            *)

\* In every reachable state: the types, what open transactions know, and the
\* agreement of rows and audit trails.
THEOREM Invariance == Spec => []RegistryInv
<1> QED
  BY InitEstablishesInv, NextKeepsInv, PTL DEF Spec

\* The state of the service always has its type.
THEOREM TypeCorrect == Spec => []TypeOK
<1>1. RegistryInv => TypeOK
  BY DEF RegistryInv
<1> QED
  BY Invariance, <1>1, PTL

\* For any number of concurrent updates and sweeps, the trail the audit endpoint
\* returns is one chain: in its order each event names the hash of the one before
\* it, and has the hash of what it holds without the fields added on storing it.
THEOREM ChainAlwaysLinks == Spec => []AuditChainLinks
<1>1. RegistryInv => AuditChainLinks
  BY DEF RegistryInv
<1> QED
  BY Invariance, <1>1, PTL

\* No update of a row is lost and none is recorded twice: the trail is the
\* history of the row's versions.
THEOREM TrailIsHistory == Spec => []AuditMatchesRecord
<1>1. RegistryInv => AuditMatchesRecord
  BY DEF RegistryInv
<1> QED
  BY Invariance, <1>1, PTL

\* A token that was revoked, superseded or expired never becomes ACTIVE again,
\* although no UPDATE looks at the status it overwrites.
THEOREM NoReactivation == Spec => NeverReactivated
<1> DEFINE Kept == \A t \in TokenIds :
             Exists(t) /\ record[t].status # "ACTIVE" => record'[t].status # "ACTIVE"
<1>1. RegistryInv /\ [Next]_vars => [Kept]_vars
  <2> SUFFICES ASSUME RegistryInv, Next PROVE Kept
    BY DEF vars
  <2> USE DEF RegistryInv
  <2>1. CASE record' = record
    BY <2>1
  <2>2. ASSUME NEW t \in TokenIds, NEW issuedAt \in Time, NEW expiresAt \in Time,
               CreateToken(t, issuedAt, expiresAt)
        PROVE  Kept
    BY <2>2 DEF CreateToken, Exists, TypeOK
  <2>3. ASSUME NEW r \in Requests, CommitRow(r) PROVE Kept
    <3>1. req[r].token \in TokenIds /\ req[r].next # "ACTIVE"
      <4>1. req[r] \in RequestRecords /\ req[r].pc = "chained"
        BY <2>3 DEF CommitRow, TypeOK
      <4>2. req[r].token \in req[r].todo
        BY <4>1 DEF LockInv, InTransaction
      <4> QED
        BY <4>1, <4>2 DEF PlanInv, RequestRecords
    <3> DEFINE row == [record[req[r].token] EXCEPT !.status = req[r].next,
                          !.version = req[r].version, !.supersededBy = req[r].supersededBy]
    <3>2. record' = [record EXCEPT ![req[r].token] = row]
      BY <2>3, <3>1 DEF CommitRow, TypeOK
    <3>3. row.status = req[r].next
      BY <3>1 DEF TypeOK, Records
    <3> HIDE DEF row
    <3> QED
      BY <3>1, <3>2, <3>3 DEF TypeOK
  <2> QED
    BY <2>1, <2>2, <2>3 DEF Next, Tick, CheckStatusUpdate, ReadExpireDue, UpdateRow,
                            ChainEvent, Abort
<1> QED
  BY Invariance, <1>1, PTL DEF Spec, NeverReactivated

-----------------------------------------------------------------------------
(***************************************************************************)
(* registry-service implements the ledger it promises (RegistryLedger).    *)
(* RegistryInv, with what a request has decided about the successor, maps  *)
(* CreateToken and CommitRow to the two steps of the ledger; every other   *)
(* step is invisible to its readers.                                       *)
(***************************************************************************)

\* A request in flight names a successor exactly when it will write SUPERSEDED.
SuccessorInv ==
    \A r \in Requests :
        req[r].pc # "idle" => (req[r].next = "SUPERSEDED" <=> req[r].supersededBy # NoToken)

RefinementInv == RegistryInv /\ SuccessorInv

\* The ledger's view of a row and of a trail.
RowView(row) ==
    [status |-> row.status, version |-> row.version, supersededBy |-> row.supersededBy]

TrailView(events) == [i \in 1 .. Len(events) |-> events[i].status]

RowsView == [t \in TokenIds |-> RowView(record[t])]
TrailsView == [t \in TokenIds |-> TrailView(audit[t])]

-----------------------------------------------------------------------------

\* Only the request that moves changes what it has decided.
LEMMA SuccessorStays ==
    ASSUME RefinementInv, NEW r \in Requests, NEW q, req' = [req EXCEPT ![r] = q],
           q.pc # "idle" => (q.next = "SUPERSEDED" <=> q.supersededBy # NoToken)
    PROVE  SuccessorInv'
BY DEF RefinementInv, SuccessorInv, RegistryInv, TypeOK

LEMMA SuccessorInvHolds == RefinementInv /\ [Next]_vars => SuccessorInv'
<1> SUFFICES ASSUME RefinementInv, [Next]_vars PROVE SuccessorInv'
  OBVIOUS
<1> USE DEF RefinementInv
<1>1. CASE req' = req
  BY <1>1 DEF SuccessorInv
<1>2. ASSUME NEW r \in Requests, NEW t \in TokenIds, NEW next \in Statuses,
             NEW by \in TokenIds \cup {NoToken}, CheckStatusUpdate(r, t, next, by)
      PROVE  SuccessorInv'
  <2> DEFINE q == Checked({t}, next, IF next = "SUPERSEDED" THEN by ELSE NoToken)
  <2>1. req' = [req EXCEPT ![r] = q] /\ (next = "SUPERSEDED" => by # NoToken)
    BY <1>2 DEF CheckStatusUpdate
  <2>2. q.next = "SUPERSEDED" <=> q.supersededBy # NoToken
    BY <2>1 DEF Checked
  <2> HIDE DEF q
  <2> QED
    BY <2>1, <2>2, SuccessorStays
<1>3. ASSUME NEW r \in Requests, ReadExpireDue(r) PROVE SuccessorInv'
  <2>1. PICK batch : req' = [req EXCEPT ![r] = Checked(batch, "EXPIRED", NoToken)]
    BY <1>3 DEF ReadExpireDue
  <2> DEFINE q == Checked(batch, "EXPIRED", NoToken)
  <2>2. q.next # "SUPERSEDED" /\ q.supersededBy = NoToken
    BY DEF Checked
  <2>3. req' = [req EXCEPT ![r] = q]
    BY <2>1
  <2> HIDE DEF q
  <2> QED
    BY <2>2, <2>3, SuccessorStays
<1>4. ASSUME NEW r \in Requests, NEW t \in TokenIds, UpdateRow(r, t) PROVE SuccessorInv'
  <2> DEFINE q == [req[r] EXCEPT !.pc = "updated", !.token = t,
                                 !.version = record[t].version + 1]
  <2>1. req' = [req EXCEPT ![r] = q] /\ req[r].pc # "idle" /\ req[r] \in RequestRecords
    BY <1>4 DEF UpdateRow, RegistryInv, TypeOK
  <2>2. q.next = req[r].next /\ q.supersededBy = req[r].supersededBy
    BY <2>1 DEF RequestRecords
  <2> HIDE DEF q
  <2> QED
    BY <2>1, <2>2, SuccessorStays DEF SuccessorInv
<1>5. ASSUME NEW r \in Requests, ChainEvent(r) PROVE SuccessorInv'
  <2> DEFINE q == [req[r] EXCEPT !.pc = "chained", !.createdAt = now,
                                 !.hashPrev = PreviousHash(audit[req[r].token])]
  <2>1. req' = [req EXCEPT ![r] = q] /\ req[r].pc # "idle" /\ req[r] \in RequestRecords
    BY <1>5 DEF ChainEvent, RegistryInv, TypeOK
  <2>2. q.next = req[r].next /\ q.supersededBy = req[r].supersededBy
    BY <2>1 DEF RequestRecords
  <2> HIDE DEF q
  <2> QED
    BY <2>1, <2>2, SuccessorStays DEF SuccessorInv
<1>6. ASSUME NEW r \in Requests, CommitRow(r) PROVE SuccessorInv'
  <2> DEFINE q == AfterRow(r, req[r].token)
  <2>1. req' = [req EXCEPT ![r] = q] /\ req[r].pc # "idle"
    BY <1>6 DEF CommitRow
  <2>2. q.pc # "idle" => q.next = req[r].next /\ q.supersededBy = req[r].supersededBy
    BY DEF AfterRow, IdleRequest, Checked
  <2> HIDE DEF q
  <2> QED
    BY <2>1, <2>2, SuccessorStays DEF SuccessorInv
<1>7. ASSUME NEW r \in Requests, Abort(r) PROVE SuccessorInv'
  <2>1. req' = [req EXCEPT ![r] = IdleRequest] /\ IdleRequest.pc = "idle"
    BY <1>7 DEF Abort, IdleRequest, Checked
  <2> QED
    BY <2>1, SuccessorStays
<1> QED
  BY <1>1, <1>2, <1>3, <1>4, <1>5, <1>6, <1>7 DEF Next, Tick, CreateToken, vars

-----------------------------------------------------------------------------
(* The two visible steps                                                   *)

\* Appending an event appends its status to the view.
LEMMA TrailViewAppends ==
    ASSUME NEW events \in Seq(Events), NEW e \in Events
    PROVE  TrailView(Append(events, e)) = Append(TrailView(events), e.status)
<1> DEFINE longer == Append(events, e)
           view == TrailView(events)
<1>1. /\ Len(longer) = Len(events) + 1
      /\ longer[Len(events) + 1] = e
      /\ \A i \in 1 .. Len(events) : longer[i] = events[i]
  OBVIOUS
<1>2. view \in Seq(Statuses) /\ Len(view) = Len(events)
      /\ \A i \in 1 .. Len(events) : view[i] = events[i].status
  <2>1. \A i \in 1 .. Len(events) : events[i].status \in Statuses
    <3> TAKE i \in 1 .. Len(events)
    <3>1. events[i] \in Events
      OBVIOUS
    <3> QED
      BY <3>1 DEF Events
  <2> QED
    BY <2>1 DEF TrailView
<1>3. e.status \in Statuses
  BY DEF Events
<1> HIDE DEF view, longer
<1>4. TrailView(longer) = [i \in 1 .. Len(events) + 1 |-> longer[i].status]
  BY <1>1 DEF TrailView
<1>5. /\ Append(view, e.status) = [i \in 1 .. Len(events) + 1 |->
                                     IF i <= Len(events) THEN view[i] ELSE e.status]
  BY <1>2, <1>3
<1>6. \A i \in 1 .. Len(events) + 1 :
         longer[i].status = IF i <= Len(events) THEN view[i] ELSE e.status
  BY <1>1, <1>2
<1> QED
  BY <1>4, <1>5, <1>6 DEF longer, view

\* A step that writes one row and appends one event is a step of the ledger's
\* Record.
LEMMA RecordStep ==
    ASSUME RegistryInv, NEW t \in TokenIds, NEW row \in Records, NEW e \in Events,
           record' = [record EXCEPT ![t] = row],
           audit' = [audit EXCEPT ![t] = Append(@, e)],
           row.version = Len(audit[t]) + 1, e.status = row.status
    PROVE  Ledger!Record(t, row.status, row.supersededBy)
<1>1. /\ record \in [TokenIds -> Records] /\ audit \in [TokenIds -> Seq(Events)]
      /\ audit[t] \in Seq(Events)
  BY DEF RegistryInv, TypeOK
<1>2. Len(TrailsView[t]) = Len(audit[t])
  BY <1>1 DEF TrailsView, TrailView
<1>3. RowsView' = [RowsView EXCEPT ![t] = RowView(row)]
  BY <1>1 DEF RowsView
<1>4. TrailsView' = [TrailsView EXCEPT ![t] = Append(@, row.status)]
  <2>1. TrailView(audit'[t]) = Append(TrailView(audit[t]), row.status)
    BY <1>1, TrailViewAppends
  <2> QED
    BY <2>1, <1>1 DEF TrailsView
<1>5. RowView(row) = [status |-> row.status, version |-> Len(TrailsView[t]) + 1,
                     supersededBy |-> row.supersededBy]
  BY <1>2 DEF RowView
<1> QED
  BY <1>3, <1>4, <1>5 DEF Ledger!Record, RowsView, TrailsView, RowView, TrailView

LEMMA CreateTokenIssues ==
    ASSUME RegistryInv, NEW t \in TokenIds, NEW issuedAt \in Time, NEW expiresAt \in Time,
           CreateToken(t, issuedAt, expiresAt)
    PROVE  Ledger!Issue(t)
<1> DEFINE row == [status |-> "ACTIVE", version |-> 1, expiresAt |-> expiresAt,
                   supersededBy |-> NoToken]
           e == AuditEvent("ACTIVE", 1, {}, PreviousHash(audit[t]), now)
<1>1. audit[t] = <<>>
  BY DEF CreateToken, RegistryInv, TypeOK, AuditMatchesRecord, Records
<1>2. e \in Events /\ e.status = "ACTIVE"
  <2>1. PreviousHash(audit[t]) = NoHash
    BY <1>1 DEF PreviousHash
  <2> QED
    BY <2>1, AuditEventTyped DEF RegistryInv, TypeOK, AuditEvent, Statuses
<1>3. /\ row \in Records /\ row.status = "ACTIVE" /\ row.version = Len(audit[t]) + 1
      /\ row.supersededBy = NoToken
  BY <1>1 DEF Records, Statuses
<1>4. /\ record' = [record EXCEPT ![t] = row]
      /\ audit' = [audit EXCEPT ![t] = Append(@, e)]
  BY DEF CreateToken, RegistryInv, TypeOK
<1> HIDE DEF row, e
<1>5. Ledger!Record(t, "ACTIVE", NoToken)
  BY <1>2, <1>3, <1>4, RecordStep
<1>6. TrailsView[t] = <<>>
  BY <1>1 DEF TrailsView, TrailView
<1> QED
  BY <1>5, <1>6 DEF Ledger!Issue, TrailsView, TrailView

LEMMA CommitRowChanges ==
    ASSUME RefinementInv, NEW r \in Requests, CommitRow(r)
    PROVE  \E t \in TokenIds, status \in Statuses, successor \in TokenIds \cup {NoToken} :
              Ledger!Change(t, status, successor)
<1> USE DEF RefinementInv
<1> DEFINE t == req[r].token
           q == req[r]
           row == [record[t] EXCEPT !.status = q.next, !.version = q.version,
                                    !.supersededBy = q.supersededBy]
           e == AuditEvent(q.next, q.version, ChangeDetail, q.hashPrev, q.createdAt)
<1>1. /\ q \in RequestRecords /\ q.pc = "chained" /\ t \in TokenIds /\ t \in q.todo
      /\ q.version = record[t].version + 1
  BY DEF CommitRow, RegistryInv, LockInv, InTransaction, TypeOK, RequestRecords
<1>2. /\ Exists(t) /\ q.next # "ACTIVE" /\ q.next \in Statuses
      /\ q.supersededBy \in TokenIds \cup {NoToken}
      /\ q.next = "SUPERSEDED" <=> q.supersededBy # NoToken
  BY <1>1 DEF RegistryInv, PlanInv, SuccessorInv, RequestRecords
<1>3. /\ audit[t] \in Seq(Events) /\ Len(audit[t]) = record[t].version
      /\ record[t] \in Records /\ record[t].version > 0
  BY <1>1, <1>2 DEF RegistryInv, TypeOK, AuditMatchesRecord
<1>4. /\ row \in Records /\ row.status = q.next /\ row.version = Len(audit[t]) + 1
      /\ row.supersededBy = q.supersededBy
  <2> DEFINE old == record[t]
  <2>1. /\ old \in Records /\ q.version \in Nat /\ q.next \in Statuses \cup {"ABSENT"}
        /\ q.supersededBy \in TokenIds \cup {NoToken}
        /\ q.version = Len(audit[t]) + 1
    BY <1>1, <1>2, <1>3 DEF RequestRecords
  <2> HIDE DEF old
  <2>2. row = [old EXCEPT !.status = q.next, !.version = q.version,
                          !.supersededBy = q.supersededBy]
    BY DEF old
  <2> HIDE DEF row
  <2> QED
    BY <2>1, <2>2 DEF Records
<1>5. e \in Events /\ e.status = q.next
  <2>1. q.version \in Nat /\ q.createdAt \in Time /\ q.hashPrev \in Hashes \cup {NoHash}
    BY <1>1 DEF RequestRecords
  <2> QED
    BY <2>1, <1>2, AuditEventTyped DEF AuditEvent
<1>6. /\ record' = [record EXCEPT ![t] = row]
      /\ audit' = [audit EXCEPT ![t] = Append(@, e)]
  BY <1>1 DEF CommitRow, RegistryInv, TypeOK
<1> HIDE DEF row, e
<1>7. PICK token \in TokenIds, written \in Records, event \in Events :
         token = t /\ written = row /\ event = e
  BY <1>1, <1>4, <1>5
<1>8. /\ written.status \in Statuses \ {"ACTIVE"}
      /\ written.supersededBy \in TokenIds \cup {NoToken}
      /\ written.status = "SUPERSEDED" <=> written.supersededBy # NoToken
  BY <1>2, <1>4, <1>7
<1>9. Ledger!Record(token, written.status, written.supersededBy)
  <2>1. /\ record' = [record EXCEPT ![token] = written]
        /\ audit' = [audit EXCEPT ![token] = Append(@, event)]
        /\ written.version = Len(audit[token]) + 1 /\ event.status = written.status
    BY <1>4, <1>5, <1>6, <1>7
  <2> QED
    BY <2>1, RecordStep
<1>10. TrailsView[token] # <<>>
  <2>1. Len(TrailsView[token]) = Len(audit[token]) /\ Len(audit[token]) # 0
    BY <1>3, <1>7 DEF TrailsView, TrailView, Records
  <2> QED
    BY <2>1
<1>11. Ledger!Change(token, written.status, written.supersededBy)
  BY <1>8, <1>9, <1>10 DEF Ledger!Change, TrailsView, TrailView
<1> QED
  BY <1>8, <1>11

-----------------------------------------------------------------------------
(* The refinement                                                          *)

LEMMA InitRefines == Init => Ledger!Init
BY DEF Init, Ledger!Init, Absent

\* A step that leaves rows and trails alone is invisible in the ledger.
LEMMA NextRefines ==
    RefinementInv /\ [Next]_vars => [Ledger!Next]_<<RowsView, TrailsView>>
<1> SUFFICES ASSUME RefinementInv, [Next]_vars
             PROVE  Ledger!Next \/ UNCHANGED <<RowsView, TrailsView>>
  OBVIOUS
<1>1. CASE UNCHANGED <<record, audit>>
  BY <1>1 DEF RowsView, TrailsView
<1>2. ASSUME NEW t \in TokenIds, NEW issuedAt \in Time, NEW expiresAt \in Time,
             CreateToken(t, issuedAt, expiresAt)
      PROVE  Ledger!Next
  BY <1>2, CreateTokenIssues DEF Ledger!Next, RefinementInv
<1>3. ASSUME NEW r \in Requests, CommitRow(r) PROVE Ledger!Next
  BY <1>3, CommitRowChanges DEF Ledger!Next
<1> QED
  BY <1>1, <1>2, <1>3 DEF Next, Tick, CheckStatusUpdate, ReadExpireDue, UpdateRow, ChainEvent,
                          Abort, vars

\* To its readers registry-service is the ledger: whatever requests overlap, wait
\* or are rolled back, each change of a row is one step that makes the next
\* version and records it, and a row names a successor exactly when it is
\* SUPERSEDED.
THEOREM RegistryImplementsLedger == Spec => ImplementsLedger
<1>1. Init => RefinementInv
  <2>1. Init => SuccessorInv
    BY DEF Init, SuccessorInv, IdleRequest, Checked
  <2> QED
    BY <2>1, InitEstablishesInv DEF RefinementInv
<1>2. RefinementInv /\ [Next]_vars => RefinementInv'
  BY NextKeepsInv, SuccessorInvHolds DEF RefinementInv
<1>3. Ledger!Spec <=> Ledger!Init /\ [][Ledger!Next]_<<RowsView, TrailsView>>
  BY DEF Ledger!Spec, RowsView, TrailsView, RowView, TrailView
<1> QED
  BY <1>1, <1>2, <1>3, InitRefines, NextRefines, PTL DEF Spec, ImplementsLedger

-----------------------------------------------------------------------------
(***************************************************************************)
(* Requests do not wait in a circle.  This is the part of RequestsEnd that *)
(* holds in every state: whoever is waited for is not waiting.             *)
(***************************************************************************)

\* A row that is held is held by a request in its transaction on that row.
HolderInv ==
    \A t \in TokenIds : rowLock[t] # NoRequest =>
        InTransaction(rowLock[t]) /\ req[rowLock[t]].token = t

HeldInv == RegistryInv /\ HolderInv

\* However many updates and sweeps want the same rows: a request that is to write a
\* row holds none, has a row to write next, and if another holds that row, then one
\* in its transaction; and a transaction holds its row and no other, so what it does
\* next waits for nobody.
WaitsForWorkers ==
    \A r \in Requests :
        /\ req[r].pc = "checked" =>
              /\ \A t \in TokenIds : rowLock[t] # r
              /\ NextRows(r) # {}
              /\ \A t \in NextRows(r) : rowLock[t] # NoRequest => InTransaction(rowLock[t])
        /\ InTransaction(r) => \A t \in TokenIds : rowLock[t] = r <=> t = req[r].token

\* Of the rows a request is to write, one expires first.
LEMMA SomeRowIsFirst ==
    ASSUME TypeOK, NEW r \in Requests, req[r].pc # "idle"
    PROVE  NextRows(r) # {}
<1>1. /\ req[r].todo # {} /\ req[r].todo \subseteq TokenIds
      /\ \A t \in req[r].todo : record[t].expiresAt \in Nat
  BY RegistryAssumption DEF TypeOK, RequestRecords, Records, Time
<1> DEFINE times == {record[t].expiresAt : t \in req[r].todo}
<1>2. times \subseteq Nat /\ times # {}
  BY <1>1
<1>3. PICK first \in times : \A n \in times : ~ (<<n, first>> \in OpToRel(<, Nat))
  <2> HIDE DEF times
  <2> QED
    BY <1>2, WFMin, NatLessThanWellFounded
<1>4. \A n \in times : ~ (n < first)
  BY <1>2, <1>3 DEF OpToRel
<1>5. PICK t \in req[r].todo : record[t].expiresAt = first
  OBVIOUS
<1>6. ASSUME NEW s \in req[r].todo PROVE record[t].expiresAt <= record[s].expiresAt
  <2>1. record[s].expiresAt \in times
    OBVIOUS
  <2> HIDE DEF times
  <2>2. ~ (record[s].expiresAt < record[t].expiresAt)
    BY <2>1, <1>4, <1>5
  <2> QED
    BY <2>2, <1>1
<1> QED
  BY <1>5, <1>6 DEF NextRows

\* A step that takes no row and leaves the transactions alone.
LEMMA HolderStays ==
    ASSUME HeldInv, NEW r \in Requests, ~InTransaction(r), rowLock' = rowLock,
           \A s \in Requests \ {r} : req'[s] = req[s]
    PROVE  HolderInv'
<1> SUFFICES ASSUME NEW t \in TokenIds, rowLock[t] # NoRequest
             PROVE  InTransaction(rowLock[t])' /\ req'[rowLock[t]].token = t
  BY DEF HolderInv
<1>1. rowLock[t] \in Requests \ {r} /\ InTransaction(rowLock[t]) /\ req[rowLock[t]].token = t
  BY DEF HeldInv, HolderInv, RegistryInv, TypeOK
<1>2. req'[rowLock[t]] = req[rowLock[t]]
  BY <1>1
<1> QED
  BY <1>1, <1>2 DEF InTransaction

LEMMA HolderInvKept == HeldInv /\ [Next]_vars => HolderInv'
<1> SUFFICES ASSUME HeldInv, [Next]_vars PROVE HolderInv'
  OBVIOUS
<1> USE DEF HeldInv, RegistryInv
<1>1. CASE UNCHANGED <<rowLock, req>>
  BY <1>1 DEF HolderInv, InTransaction
<1>2. ASSUME NEW r \in Requests, req[r].pc = "idle", rowLock' = rowLock,
             \A s \in Requests \ {r} : req'[s] = req[s]
      PROVE  HolderInv'
  BY <1>2, HolderStays DEF InTransaction
<1>3. ASSUME NEW r \in Requests, NEW t \in TokenIds, NEW next \in Statuses,
             NEW by \in TokenIds \cup {NoToken}, CheckStatusUpdate(r, t, next, by)
      PROVE  HolderInv'
  BY <1>2, <1>3 DEF CheckStatusUpdate, TypeOK
<1>4. ASSUME NEW r \in Requests, ReadExpireDue(r) PROVE HolderInv'
  BY <1>2, <1>4 DEF ReadExpireDue, TypeOK
<1>5. ASSUME NEW r \in Requests, NEW t \in TokenIds, UpdateRow(r, t) PROVE HolderInv'
  <2>1. /\ req[r].pc = "checked" /\ rowLock' = [rowLock EXCEPT ![t] = r]
        /\ req'[r].pc = "updated" /\ req'[r].token = t
        /\ \A s \in Requests \ {r} : req'[s] = req[s]
    BY <1>5 DEF UpdateRow, TypeOK, RequestRecords
  <2>2. ASSUME NEW u \in TokenIds, u # t, rowLock[u] # NoRequest
        PROVE  rowLock[u] \in Requests \ {r}
    <3>1. rowLock[u] \in Requests
      BY <2>2 DEF TypeOK
    <3>2. req[rowLock[u]].pc # "checked"
      BY <2>2 DEF HolderInv, InTransaction
    <3> QED
      BY <2>1, <3>1, <3>2
  <2> QED
    BY <2>1, <2>2 DEF HolderInv, InTransaction, TypeOK
<1>6. ASSUME NEW r \in Requests, ChainEvent(r) PROVE HolderInv'
  <2>1. /\ rowLock' = rowLock /\ req'[r].pc = "chained" /\ req'[r].token = req[r].token
        /\ \A s \in Requests \ {r} : req'[s] = req[s]
    BY <1>6 DEF ChainEvent, TypeOK, RequestRecords
  <2> QED
    BY <2>1 DEF HolderInv, InTransaction, TypeOK
<1>7. ASSUME NEW r \in Requests, CommitRow(r) PROVE HolderInv'
  <2>1. /\ req[r].pc = "chained" /\ req[r].token \in TokenIds
        /\ rowLock' = [rowLock EXCEPT ![req[r].token] = NoRequest]
        /\ \A s \in Requests \ {r} : req'[s] = req[s]
    BY <1>7 DEF CommitRow, LockInv, InTransaction, TypeOK, RequestRecords
  <2>2. ASSUME NEW u \in TokenIds, u # req[r].token, rowLock[u] # NoRequest
        PROVE  rowLock[u] \in Requests \ {r}
    BY <2>2 DEF HolderInv, TypeOK
  <2> QED
    BY <2>1, <2>2 DEF HolderInv, InTransaction, TypeOK
<1>8. ASSUME NEW r \in Requests, Abort(r) PROVE HolderInv'
  <2>1. /\ rowLock' = [t \in TokenIds |-> IF rowLock[t] = r THEN NoRequest ELSE rowLock[t]]
        /\ \A s \in Requests \ {r} : req'[s] = req[s]
    BY <1>8 DEF Abort, TypeOK
  <2> QED
    BY <2>1 DEF HolderInv, InTransaction, TypeOK
<1> QED
  BY <1>1, <1>3, <1>4, <1>5, <1>6, <1>7, <1>8 DEF Next, Tick, CreateToken, vars

LEMMA HeldMeansWorking == HeldInv => WaitsForWorkers
<1> SUFFICES ASSUME HeldInv, NEW r \in Requests PROVE WaitsForWorkers!(r)
  BY DEF WaitsForWorkers
<1> USE DEF HeldInv, RegistryInv
<1>1. CASE req[r].pc = "checked"
  <2>1. \A t \in TokenIds : rowLock[t] # r
    BY <1>1, RegistryAssumption DEF HolderInv, InTransaction
  <2>2. NextRows(r) # {} /\ NextRows(r) \subseteq TokenIds
    BY <1>1, SomeRowIsFirst DEF NextRows, TypeOK, RequestRecords
  <2>3. \A t \in NextRows(r) : rowLock[t] # NoRequest => InTransaction(rowLock[t])
    BY <2>2 DEF HolderInv
  <2> QED
    BY <1>1, <2>1, <2>2, <2>3 DEF InTransaction
<1>2. CASE InTransaction(r)
  BY <1>2, RegistryAssumption DEF HolderInv, LockInv, InTransaction
<1> QED
  BY <1>1, <1>2

\* Whoever waits for a row waits for a request that waits for nobody: updates and
\* sweeps never block each other in a circle.
THEOREM NoCircularWait == Spec => []WaitsForWorkers
<1>1. Init => HolderInv
  BY DEF Init, HolderInv
<1>2. Init => HeldInv
  BY <1>1, InitEstablishesInv DEF HeldInv
<1>3. HeldInv /\ [Next]_vars => HeldInv'
  BY HolderInvKept, NextKeepsInv DEF HeldInv
<1> QED
  BY <1>2, <1>3, HeldMeansWorking, PTL DEF Spec

=============================================================================
