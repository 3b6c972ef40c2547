--------------------------- MODULE ConsentProofs ----------------------------
(***************************************************************************)
(* What consent-manager guarantees for every number of consents, requests, *)
(* replicas, fields and delegations.                                       *)
(*                                                                         *)
(* The invariant has three parts: reservations of one nonce lie a guard's  *)
(* life apart, every assertion belongs to a reservation and to a mandate,  *)
(* and what a request remembers is still true of the tables (Sound).  The  *)
(* last part survives the steps of others because no step takes back what  *)
(* it rests on (Preserves): terms of consents and delegations, reservations*)
(* and assertions only grow.                                               *)
(***************************************************************************)
EXTENDS ConsentManager, FiniteSetTheorems, TLAPS

\* The FI asked for the fields in scope and, under a delegation, the owner
\* delegated them.
Mandate(c, scope, grant) ==
    /\ scope \subseteq consent[c].requested
    /\ consent[c].requiresDelegation => grant # 0
    /\ grant \in 0 .. Len(delegations)
    /\ grant # 0 => /\ consent[c].purpose \in delegations[grant].purposes
                    /\ scope \subseteq delegations[grant].fields

\* Requests that are about one consent.
HasConsent(q) ==
    \/ q.pc \in {"read", "authorised", "tokenActive", "reserved", "signed", "review"}
    \/ q.pc = "audit" /\ q.op = "revoke"

\* What a request remembers is true of the tables.
Sound(q) ==
    /\ HasConsent(q) => q.consent \in ConsentIds /\ Exists(q.consent)
    /\ q.pc \in {"tokenActive", "reserved", "signed"} => q.op = "approve"
    /\ q.pc = "read" /\ q.op = "approve" => q.fields \subseteq consent[q.consent].requested
    /\ q.pc \in {"authorised", "tokenActive", "reserved", "signed"} /\ q.op = "approve"
          => Mandate(q.consent, q.fields, q.grant)
    /\ q.pc \in {"read", "authorised"} /\ q.op = "revoke" => consent[q.consent].jti # 0
    /\ q.pc \in {"reserved", "signed"} => q.jti \in 1 .. Len(reserved[q.consent])
    /\ q.pc = "signed" => \E a \in issued : /\ a.consent = q.consent /\ a.jti = q.jti
                                            /\ a.scope = q.fields /\ a.grant = q.grant
    /\ q.pc = "audit" \/ (q.pc = "review" /\ q.op # "revoke") => q.events # <<>>
    /\ q.todo # {} \/ q.pc = "sweep" => q.op \in {"expire", "list"}
    /\ \A c \in q.todo : Exists(c)
    /\ q.pc = "nonePending" => q.at <= now

RequestInv == \A r \in Requests : Sound(req[r])

\* Reservations of one nonce are in the past and a guard's life apart.
ReservationInv ==
    \A c \in ConsentIds : \A i \in 1 .. Len(reserved[c]) :
        /\ reserved[c][i] <= now
        /\ \A j \in 1 .. Len(reserved[c]) :
              i < j => reserved[c][i] + AssertionTtl <= reserved[c][j]

\* An assertion is signed after its reservation, for a consent and a mandate.
IssuedInv ==
    \A a \in issued :
        /\ Exists(a.consent)
        /\ a.jti \in 1 .. Len(reserved[a.consent])
        /\ reserved[a.consent][a.jti] <= a.iat
        /\ a.exp = a.iat + AssertionTtl
        /\ a.token = consent[a.consent].token
        /\ Mandate(a.consent, a.scope, a.grant)

RowInv ==
    \A c \in ConsentIds : /\ Exists(c) => consent[c].token \in TokenIds
                          /\ ~Exists(c) => consent[c].jti = 0

ConsentInv ==
    /\ TypeOK
    /\ RequestInv
    /\ ReservationInv
    /\ IssuedInv
    /\ RowInv
    /\ RowShowsAnAssertion

\* What no step takes back.
Preserves ==
    /\ \A c \in ConsentIds : Exists(c) =>
          /\ Exists(c)'
          /\ consent'[c].requested = consent[c].requested
          /\ consent'[c].requiresDelegation = consent[c].requiresDelegation
          /\ consent'[c].purpose = consent[c].purpose
          /\ consent'[c].token = consent[c].token
          /\ consent[c].jti # 0 => consent'[c].jti # 0
    /\ \A c \in ConsentIds :
          /\ Len(reserved[c]) <= Len(reserved'[c])
          /\ \A i \in 1 .. Len(reserved[c]) : reserved'[c][i] = reserved[c][i]
    /\ Len(delegations) <= Len(delegations')
    /\ \A d \in 1 .. Len(delegations) :
          /\ delegations'[d].purposes = delegations[d].purposes
          /\ delegations'[d].fields = delegations[d].fields
    /\ issued \subseteq issued'
    /\ now <= now'

-----------------------------------------------------------------------------
(* What survives any step that preserves                                   *)

\* A mandate that was given for an existing consent stays given.
LEMMA MandateStays ==
    ASSUME TypeOK, TypeOK', Preserves,
           NEW c \in ConsentIds, Exists(c), NEW scope, NEW grant, Mandate(c, scope, grant)
    PROVE  Mandate(c, scope, grant)'
<1>1. /\ Len(delegations) \in Nat /\ Len(delegations') \in Nat
      /\ Len(delegations) <= Len(delegations')
  BY DEF TypeOK, Preserves
<1>2. /\ consent'[c].requested = consent[c].requested
      /\ consent'[c].requiresDelegation = consent[c].requiresDelegation
      /\ consent'[c].purpose = consent[c].purpose
  BY DEF Preserves
<1>3. grant \in 0 .. Len(delegations')
  BY <1>1 DEF Mandate
<1>4. ASSUME grant # 0
      PROVE  /\ delegations'[grant].purposes = delegations[grant].purposes
             /\ delegations'[grant].fields = delegations[grant].fields
  <2>1. grant \in 1 .. Len(delegations)
    BY <1>1, <1>4 DEF Mandate
  <2> QED
    BY <2>1 DEF Preserves
<1> QED
  BY <1>2, <1>3, <1>4 DEF Mandate

\* What a request remembers stays true when others move.
LEMMA SoundStays ==
    ASSUME TypeOK, TypeOK', Preserves, NEW q \in RequestRecords, Sound(q)
    PROVE  Sound(q)'
<1>1. ASSUME q.consent \in ConsentIds, Exists(q.consent)
      PROVE  /\ Exists(q.consent)'
             /\ consent'[q.consent].requested = consent[q.consent].requested
             /\ consent[q.consent].jti # 0 => consent'[q.consent].jti # 0
             /\ q.jti \in 1 .. Len(reserved[q.consent])
                   => q.jti \in 1 .. Len(reserved'[q.consent])
             /\ Mandate(q.consent, q.fields, q.grant) => Mandate(q.consent, q.fields, q.grant)'
  <2>1. /\ Len(reserved[q.consent]) \in Nat /\ Len(reserved'[q.consent]) \in Nat
        /\ Len(reserved[q.consent]) <= Len(reserved'[q.consent])
    BY <1>1 DEF TypeOK, Preserves
  <2>2. Mandate(q.consent, q.fields, q.grant) => Mandate(q.consent, q.fields, q.grant)'
    BY <1>1, MandateStays
  <2> QED
    BY <1>1, <2>1, <2>2 DEF Preserves
<1>2. issued \subseteq issued'
  BY DEF Preserves
<1>3. HasConsent(q) => q.consent \in ConsentIds /\ Exists(q.consent) /\ Exists(q.consent)'
  BY <1>1 DEF Sound
<1>4. HasConsent(q)' <=> HasConsent(q)
  BY DEF HasConsent
<1>5. q.pc = "read" /\ q.op = "approve" => q.fields \subseteq consent'[q.consent].requested
  BY <1>1, <1>3 DEF Sound, HasConsent
<1>6. q.pc \in {"authorised", "tokenActive", "reserved", "signed"} /\ q.op = "approve"
         => Mandate(q.consent, q.fields, q.grant)'
  BY <1>1, <1>3 DEF Sound, HasConsent
<1>7. q.pc \in {"read", "authorised"} /\ q.op = "revoke" => consent'[q.consent].jti # 0
  BY <1>1, <1>3 DEF Sound, HasConsent
<1>8. q.pc \in {"reserved", "signed"} => q.jti \in 1 .. Len(reserved'[q.consent])
  BY <1>1, <1>3 DEF Sound, HasConsent
<1>9. q.pc = "signed" => \E a \in issued' : /\ a.consent = q.consent /\ a.jti = q.jti
                                            /\ a.scope = q.fields /\ a.grant = q.grant
  BY <1>2 DEF Sound
<1>10. \A c \in q.todo : Exists(c)'
  BY DEF Sound, Preserves, RequestRecords
<1>11. q.pc = "nonePending" => q.at <= now'
  BY DEF Sound, Preserves, RequestRecords, TypeOK
<1> QED
  BY <1>3, <1>4, <1>5, <1>6, <1>7, <1>8, <1>9, <1>10, <1>11 DEF Sound

\* So do the assertions that were there before.
LEMMA IssuedStays ==
    ASSUME TypeOK, TypeOK', Preserves, IssuedInv, NEW a \in issued
    PROVE  IssuedInv!(a)'
<1>1. a.consent \in ConsentIds /\ Exists(a.consent)
  BY DEF TypeOK, Assertions, IssuedInv
<1>2. Mandate(a.consent, a.scope, a.grant)'
  BY <1>1, MandateStays DEF IssuedInv
<1>3. /\ Len(reserved[a.consent]) \in Nat /\ Len(reserved'[a.consent]) \in Nat
      /\ Len(reserved[a.consent]) <= Len(reserved'[a.consent])
  BY <1>1 DEF TypeOK, Preserves
<1>4. a.jti \in 1 .. Len(reserved[a.consent])
  BY DEF IssuedInv
<1>5. /\ a.jti \in 1 .. Len(reserved'[a.consent])
      /\ reserved'[a.consent][a.jti] = reserved[a.consent][a.jti]
  BY <1>1, <1>3, <1>4 DEF Preserves
<1>6. consent'[a.consent].token = consent[a.consent].token /\ Exists(a.consent)'
  BY <1>1 DEF Preserves
<1> QED
  BY <1>2, <1>5, <1>6 DEF IssuedInv

\* One request moves on; the others remember what they did.
LEMMA RequestInvStays ==
    ASSUME TypeOK, RequestInv, TypeOK', Preserves,
           NEW r \in Requests, NEW q \in RequestRecords,
           req' = [req EXCEPT ![r] = q], Sound(q)'
    PROVE  RequestInv'
<1> SUFFICES ASSUME NEW s \in Requests, NEW v, v = req'[s]
             PROVE  Sound(v)'
  BY DEF RequestInv, Sound, HasConsent
<1>1. CASE s = r
  <2>1. v = q
    BY <1>1 DEF TypeOK
  <2> QED
    BY <2>1
<1>2. CASE s # r
  <2>1. v = req[s] /\ v \in RequestRecords
    BY <1>2 DEF TypeOK
  <2>2. Sound(v)
    BY <2>1 DEF RequestInv
  <2> QED
    BY <2>1, <2>2, SoundStays
<1> QED
  BY <1>1, <1>2

-----------------------------------------------------------------------------
(* Steps that only move a request                                          *)

LEMMA MoveKeepsInv ==
    ASSUME ConsentInv, NEW r \in Requests, NEW q \in RequestRecords,
           req' = [req EXCEPT ![r] = q], Sound(q),
           UNCHANGED <<now, consent, reserved, issued, env>>,
           trail' \in [ConsentIds -> [EventTypes -> Nat]],
           interrupted' \subseteq ConsentIds, reconsent' \in BOOLEAN
    PROVE  ConsentInv'
<1> USE DEF ConsentInv, env
<1>1. TypeOK'
  BY DEF TypeOK
<1>2. Preserves
  BY DEF Preserves, Exists, TypeOK
<1>3. Sound(q)'
  BY <1>1, <1>2, SoundStays
<1>4. RequestInv'
  BY <1>1, <1>2, <1>3, RequestInvStays
<1>5. ReservationInv' /\ RowInv' /\ RowShowsAnAssertion'
  BY DEF ReservationInv, RowInv, RowShowsAnAssertion, Exists
<1>6. IssuedInv'
  BY DEF IssuedInv, Exists, Mandate
<1> QED
  BY <1>1, <1>4, <1>5, <1>6

\* The records requests start from and end with.
LEMMA NewTyped ==
    /\ New \in RequestRecords /\ Done \in RequestRecords
    /\ New.pc = "new" /\ Done.pc = "done" /\ Done.todo = {}
<1>1. <<>> \in Seq(ConsentIds \X EventTypes) /\ Owner \in Users
  BY DEF Users
<1> QED
  BY <1>1 DEF New, Done, RequestRecords

LEMMA DoneSound == Done \in RequestRecords /\ Sound(Done)
<1>1. Done.pc = "done" /\ Done.todo = {}
  BY NewTyped
<1> QED
  BY <1>1, NewTyped DEF Sound, HasConsent

LEMMA ReadPendingKeepsInv ==
    ASSUME ConsentInv, NEW r \in Requests, NEW c \in ConsentIds, NEW a \in Users,
           NEW op \in {"approve", "reject"}, NEW fields \in SUBSET Fields,
           ReadPending(r, op, c, a, fields)
    PROVE  ConsentInv'
<1> DEFINE q == [New EXCEPT !.pc = "read", !.op = op, !.consent = c, !.actor = a,
                            !.fields = fields]
<1>1. /\ q \in RequestRecords /\ q.pc = "read" /\ q.op = op /\ q.consent = c
      /\ q.fields = fields /\ q.todo = {}
  <2>1. <<>> \in Seq(ConsentIds \X EventTypes) /\ Owner \in Users
    BY DEF Users
  <2> QED
    BY <2>1 DEF New, RequestRecords
<1>2. /\ Exists(c) /\ req' = [req EXCEPT ![r] = q]
      /\ op = "approve" => fields \subseteq consent[c].requested
      /\ UNCHANGED <<now, consent, trail, reserved, issued, interrupted, env, reconsent>>
  BY DEF ReadPending, Exists, tables
<1> HIDE DEF q
<1>3. Sound(q)
  BY <1>1, <1>2 DEF Sound, HasConsent
<1> QED
  BY <1>1, <1>2, <1>3, MoveKeepsInv DEF ConsentInv, TypeOK

LEMMA ReadApprovedKeepsInv ==
    ASSUME ConsentInv, NEW r \in Requests, NEW c \in ConsentIds, NEW a \in Users,
           ReadApproved(r, c, a)
    PROVE  ConsentInv'
<1> DEFINE q == [New EXCEPT !.pc = "read", !.op = "revoke", !.consent = c, !.actor = a,
                            !.grant = consent[c].grant, !.approver = consent[c].approvedBy]
<1>1. consent[c] \in Rows
  BY DEF ConsentInv, TypeOK
<1>2. /\ q \in RequestRecords /\ q.pc = "read" /\ q.op = "revoke" /\ q.consent = c /\ q.todo = {}
  <2>1. <<>> \in Seq(ConsentIds \X EventTypes) /\ Owner \in Users
    BY DEF Users
  <2> QED
    BY <1>1, <2>1 DEF New, RequestRecords, Rows
<1>3. /\ Exists(c) /\ consent[c].jti # 0 /\ req' = [req EXCEPT ![r] = q]
      /\ UNCHANGED <<now, consent, trail, reserved, issued, interrupted, env, reconsent>>
  BY DEF ReadApproved, Exists, tables, ConsentInv, RowShowsAnAssertion
<1> HIDE DEF q
<1>4. Sound(q)
  BY <1>2, <1>3 DEF Sound, HasConsent
<1> QED
  BY <1>2, <1>3, <1>4, MoveKeepsInv DEF ConsentInv, TypeOK

\* The actor is entitled: an approval now has its mandate.
LEMMA AuthoriseKeepsInv ==
    ASSUME ConsentInv, NEW r \in Requests, NEW d \in 0 .. MaxGrants, Authorise(r, d)
    PROVE  ConsentInv'
<1> DEFINE q == [req[r] EXCEPT !.pc = "authorised", !.grant = d]
<1>1. req[r] \in RequestRecords /\ req[r].pc = "read" /\ Sound(req[r]) /\ d \in Nat
  BY ConsentAssumption DEF ConsentInv, TypeOK, RequestInv, Authorise
<1>2. /\ q \in RequestRecords /\ q.pc = "authorised" /\ q.op = req[r].op
      /\ q.consent = req[r].consent /\ q.fields = req[r].fields /\ q.grant = d /\ q.todo = req[r].todo
  BY <1>1 DEF RequestRecords
<1>3. /\ req' = [req EXCEPT ![r] = q] /\ MayDecide(r, d)
      /\ UNCHANGED <<now, consent, trail, reserved, issued, interrupted, env, reconsent>>
  BY DEF Authorise, tables, ConsentInv, TypeOK
<1> HIDE DEF q
<1>4. q.op = "approve" => Mandate(q.consent, q.fields, q.grant)
  <2>1. d \in 0 .. Len(delegations)
    BY <1>3 DEF MayDecide, Access, ConsentInv, TypeOK
  <2> QED
    BY <1>1, <1>2, <1>3, <2>1
       DEF Sound, HasConsent, MayDecide, EvaluateDelegationConstraints, Mandate
<1>5. Sound(q)
  BY <1>1, <1>2, <1>4 DEF Sound, HasConsent
<1> QED
  BY <1>2, <1>3, <1>5, MoveKeepsInv DEF ConsentInv, TypeOK

LEMMA CheckTokenKeepsInv ==
    ASSUME ConsentInv, NEW r \in Requests, CheckToken(r)
    PROVE  ConsentInv'
<1> DEFINE q == [req[r] EXCEPT !.pc = "tokenActive"]
<1>1. /\ req[r] \in RequestRecords /\ req[r].pc = "authorised" /\ req[r].op = "approve"
      /\ Sound(req[r])
  BY DEF ConsentInv, TypeOK, RequestInv, CheckToken
<1>2. /\ q \in RequestRecords /\ q.pc = "tokenActive" /\ q.op = req[r].op
      /\ q.consent = req[r].consent /\ q.fields = req[r].fields /\ q.grant = req[r].grant
      /\ q.todo = req[r].todo
  BY <1>1 DEF RequestRecords
<1>3. /\ req' = [req EXCEPT ![r] = q]
      /\ UNCHANGED <<now, consent, trail, reserved, issued, interrupted, env, reconsent>>
  BY DEF CheckToken, Goto, tables, ConsentInv, TypeOK
<1> HIDE DEF q
<1>4. Sound(q)
  BY <1>1, <1>2 DEF Sound, HasConsent
<1> QED
  BY <1>2, <1>3, <1>4, MoveKeepsInv DEF ConsentInv, TypeOK

LEMMA RefuseKeepsInv ==
    ASSUME ConsentInv, NEW r \in Requests, Refuse(r)
    PROVE  ConsentInv'
BY DoneSound, MoveKeepsInv DEF Refuse, Finish, tables, ConsentInv, TypeOK

LEMMA FailKeepsInv ==
    ASSUME ConsentInv, NEW r \in Requests, Fail(r)
    PROVE  ConsentInv'
<1>1. req[r] \in RequestRecords /\ Sound(req[r])
  BY DEF ConsentInv, TypeOK, RequestInv
<1>2. OwedTo(r) \subseteq ConsentIds
  <2>1. \A i \in 1 .. Len(req[r].events) : req[r].events[i] \in ConsentIds \X EventTypes
    BY <1>1 DEF RequestRecords
  <2>2. req[r].pc = "signed" => req[r].consent \in ConsentIds
    BY <1>1 DEF Sound, HasConsent
  <2> QED
    BY <2>1, <2>2 DEF OwedTo
<1> QED
  BY <1>2, DoneSound, MoveKeepsInv DEF Fail, Finish, tables, ConsentInv, TypeOK

LEMMA ReadBatchKeepsInv ==
    ASSUME ConsentInv, NEW r \in Requests, NEW op \in {"expire", "list"},
           NEW batch \in SUBSET DueConsents, ReadBatch(r, op, batch)
    PROVE  ConsentInv'
<1> DEFINE q == [New EXCEPT !.pc = "sweep", !.op = op, !.todo = batch]
<1>1. q \in RequestRecords /\ q.pc = "sweep" /\ q.op = op /\ q.todo = batch
  <2>1. <<>> \in Seq(ConsentIds \X EventTypes) /\ Owner \in Users
    BY DEF Users
  <2>2. batch \subseteq ConsentIds
    BY DEF DueConsents
  <2> QED
    BY <2>1, <2>2 DEF New, RequestRecords
<1>2. /\ req' = [req EXCEPT ![r] = q]
      /\ UNCHANGED <<now, consent, trail, reserved, issued, interrupted, env, reconsent>>
  BY DEF ReadBatch, tables
<1> HIDE DEF q
<1>3. Sound(q)
  BY <1>1 DEF Sound, HasConsent, DueConsents, Exists
<1> QED
  BY <1>1, <1>2, <1>3, MoveKeepsInv DEF ConsentInv, TypeOK

LEMMA AskReconsentKeepsInv ==
    ASSUME ConsentInv, NEW r \in Requests, AskReconsent(r)
    PROVE  ConsentInv'
<1> DEFINE q == [New EXCEPT !.pc = "asked", !.op = "reconsent"]
<1>1. q \in RequestRecords /\ q.pc = "asked" /\ q.op = "reconsent" /\ q.todo = {}
  <2>1. <<>> \in Seq(ConsentIds \X EventTypes) /\ Owner \in Users
    BY DEF Users
  <2> QED
    BY <2>1 DEF New, RequestRecords
<1>2. /\ req' = [req EXCEPT ![r] = q]
      /\ UNCHANGED <<now, consent, trail, reserved, issued, interrupted, env, reconsent>>
  BY DEF AskReconsent, tables
<1> HIDE DEF q
<1>3. Sound(q)
  BY <1>1 DEF Sound, HasConsent
<1> QED
  BY <1>1, <1>2, <1>3, MoveKeepsInv DEF ConsentInv, TypeOK

LEMMA FindNonePendingKeepsInv ==
    ASSUME ConsentInv, NEW r \in Requests, FindNonePending(r)
    PROVE  ConsentInv'
<1> DEFINE q == [req[r] EXCEPT !.pc = "nonePending", !.at = now]
<1>1. /\ req[r] \in RequestRecords /\ req[r].pc = "asked" /\ Sound(req[r])
      /\ now \in Nat
  BY DEF ConsentInv, TypeOK, RequestInv, FindNonePending
<1>2. /\ q \in RequestRecords /\ q.pc = "nonePending" /\ q.op = req[r].op
      /\ q.at = now /\ q.todo = req[r].todo
  BY <1>1 DEF RequestRecords
<1>3. /\ req' = [req EXCEPT ![r] = q]
      /\ UNCHANGED <<now, consent, trail, reserved, issued, interrupted, env, reconsent>>
  BY DEF FindNonePending, tables, ConsentInv, TypeOK
<1> HIDE DEF q
<1>4. Sound(q)
  BY <1>1, <1>2 DEF Sound, HasConsent
<1> QED
  BY <1>2, <1>3, <1>4, MoveKeepsInv DEF ConsentInv, TypeOK

LEMMA UpdateReviewKeepsInv ==
    ASSUME ConsentInv, NEW r \in Requests, UpdateReview(r)
    PROVE  ConsentInv'
<1>1. req[r] \in RequestRecords /\ req[r].pc = "review" /\ Sound(req[r])
  BY DEF ConsentInv, TypeOK, RequestInv, UpdateReview
<1>2. /\ reconsent' \in BOOLEAN
      /\ UNCHANGED <<now, consent, trail, reserved, issued, interrupted, env>>
  BY DEF UpdateReview, tables
<1>3. CASE req[r].op = "revoke"
  <2>1. req' = [req EXCEPT ![r] = Done]
    BY <1>3 DEF UpdateReview, Finish
  <2> QED
    BY <2>1, <1>2, DoneSound, MoveKeepsInv DEF ConsentInv, TypeOK
<1>4. CASE req[r].op # "revoke"
  <2> DEFINE q == [req[r] EXCEPT !.pc = "audit"]
  <2>1. /\ q \in RequestRecords /\ q.pc = "audit" /\ q.op = req[r].op
        /\ q.events = req[r].events /\ q.todo = req[r].todo
    BY <1>1 DEF RequestRecords
  <2>2. req' = [req EXCEPT ![r] = q]
    BY <1>4 DEF UpdateReview, Goto, ConsentInv, TypeOK
  <2> HIDE DEF q
  <2>3. Sound(q)
    BY <1>1, <1>4, <2>1 DEF Sound, HasConsent
  <2> QED
    BY <1>2, <2>1, <2>2, <2>3, MoveKeepsInv DEF ConsentInv, TypeOK
<1> QED
  BY <1>3, <1>4

\* What is left of a request when it has written an event is still sound.
LEMMA AfterAuditSound ==
    ASSUME ConsentInv, NEW r \in Requests, req[r].pc = "audit"
    PROVE  AfterAudit(r) \in RequestRecords /\ Sound(AfterAudit(r))
<1>1. req[r] \in RequestRecords /\ Sound(req[r])
  BY DEF ConsentInv, TypeOK, RequestInv
<1>2. <<>> \in Seq(ConsentIds \X EventTypes)
  OBVIOUS
<1> DEFINE review == [req[r] EXCEPT !.pc = "review", !.events = <<>>]
           sweep == [req[r] EXCEPT !.pc = "sweep", !.events = <<>>]
<1>3. /\ review \in RequestRecords /\ review.pc = "review" /\ review.op = req[r].op
      /\ review.consent = req[r].consent /\ review.todo = req[r].todo
      /\ sweep \in RequestRecords /\ sweep.pc = "sweep" /\ sweep.op = req[r].op
      /\ sweep.todo = req[r].todo
  BY <1>1, <1>2 DEF RequestRecords
<1>4. AfterAudit(r) \in {review, sweep, Done}
  BY DEF AfterAudit
<1>5. AfterAudit(r) = review => req[r].op = "revoke" \/ review \in {sweep, Done}
  BY DEF AfterAudit
<1>5a. AfterAudit(r) = sweep => req[r].todo # {} \/ sweep \in {review, Done}
  BY DEF AfterAudit
<1>6. review \notin {sweep, Done} /\ sweep # Done
  BY <1>3, NewTyped
<1> HIDE DEF review, sweep
<1>7. req[r].op = "revoke" => Sound(review)
  BY <1>1, <1>3 DEF Sound, HasConsent
<1>8. req[r].todo # {} => Sound(sweep)
  BY <1>1, <1>3 DEF Sound, HasConsent
<1> QED
  BY <1>3, <1>4, <1>5, <1>5a, <1>6, <1>7, <1>8, DoneSound

LEMMA WriteAuditKeepsInv ==
    ASSUME ConsentInv, NEW r \in Requests, WriteAudit(r)
    PROVE  ConsentInv'
<1> DEFINE events == req[r].events
           e == Head(events)
           rest == Tail(events)
           more == [req[r] EXCEPT !.events = rest]
           q == IF rest = <<>> THEN AfterAudit(r) ELSE more
<1>1. /\ req[r] \in RequestRecords /\ req[r].pc = "audit" /\ Sound(req[r])
      /\ events \in Seq(ConsentIds \X EventTypes) /\ events # <<>>
  BY DEF ConsentInv, TypeOK, RequestInv, WriteAudit, RequestRecords, Sound
<1>2. e \in ConsentIds \X EventTypes /\ rest \in Seq(ConsentIds \X EventTypes)
  BY <1>1
<1>3. /\ trail' = [trail EXCEPT ![e[1]][e[2]] = @ + 1]
      /\ req' = [req EXCEPT ![r] = q]
      /\ UNCHANGED <<now, consent, reserved, issued, interrupted, env, reconsent>>
  BY DEF WriteAudit
<1>4. trail' \in [ConsentIds -> [EventTypes -> Nat]]
  <2>1. trail \in [ConsentIds -> [EventTypes -> Nat]]
    BY DEF ConsentInv, TypeOK
  <2>2. e[1] \in ConsentIds /\ e[2] \in EventTypes
    BY <1>2
  <2>3. trail[e[1]][e[2]] + 1 \in Nat
    BY <2>1, <2>2
  <2> HIDE DEF e
  <2> QED
    BY <1>3, <2>1, <2>2, <2>3
<1>5. /\ more \in RequestRecords /\ more.pc = "audit" /\ more.op = req[r].op
      /\ more.consent = req[r].consent /\ more.events = rest /\ more.todo = req[r].todo
  BY <1>1, <1>2 DEF RequestRecords
<1> HIDE DEF more, rest, events, e
<1>6. rest # <<>> => Sound(more)
  BY <1>1, <1>5 DEF Sound, HasConsent
<1>7. q \in RequestRecords /\ Sound(q)
  BY <1>1, <1>5, <1>6, AfterAuditSound
<1> HIDE DEF q
<1> QED
  BY <1>3, <1>4, <1>7, MoveKeepsInv DEF ConsentInv, TypeOK

-----------------------------------------------------------------------------
(* Steps that write a row                                                  *)

LEMMA RowStepKeepsInv ==
    ASSUME ConsentInv, NEW r \in Requests, NEW q \in RequestRecords,
           req' = [req EXCEPT ![r] = q],
           NEW c \in ConsentIds, NEW row \in Rows,
           consent' = [consent EXCEPT ![c] = row],
           UNCHANGED <<now, trail, reserved, issued, interrupted, env, reconsent>>,
           row.status # "ABSENT", row.token \in TokenIds,
           Exists(c) => /\ row.requested = consent[c].requested
                        /\ row.requiresDelegation = consent[c].requiresDelegation
                        /\ row.purpose = consent[c].purpose
                        /\ row.token = consent[c].token
                        /\ consent[c].jti # 0 => row.jti # 0,
           row.status \in {"APPROVED", "REVOKED"} => row.jti # 0,
           row.jti # 0 => \E a \in issued : /\ a.consent = c /\ a.jti = row.jti
                                            /\ a.scope = row.approvedFields
                                            /\ a.grant = row.grant,
           Sound(q)'
    PROVE  ConsentInv'
<1> USE DEF ConsentInv, env
<1>1. TypeOK'
  BY DEF TypeOK
<1>2. /\ consent'[c] = row
      /\ \A d \in ConsentIds \ {c} : consent'[d] = consent[d]
  BY DEF TypeOK
<1>3. Preserves
  BY <1>2 DEF Preserves, Exists, TypeOK
<1>4. RequestInv'
  BY <1>1, <1>3, RequestInvStays
<1>5. ReservationInv'
  BY DEF ReservationInv
<1>6. IssuedInv'
  <2> SUFFICES ASSUME NEW a \in issued PROVE IssuedInv!(a)'
    BY DEF IssuedInv
  <2> QED
    BY <1>1, <1>3, IssuedStays
<1>7. RowInv'
  BY <1>2 DEF RowInv, Exists
<1>8. RowShowsAnAssertion'
  <2> SUFFICES ASSUME NEW d \in ConsentIds PROVE RowShowsAnAssertion!(d)'
    BY DEF RowShowsAnAssertion
  <2>1. CASE d = c
    BY <2>1, <1>2
  <2>2. CASE d # c
    BY <2>2, <1>2 DEF RowShowsAnAssertion
  <2> QED
    BY <2>1, <2>2
<1> QED
  BY <1>1, <1>4, <1>5, <1>6, <1>7, <1>8

\* A request that owes the events of what it wrote.
LEMMA OweTyped ==
    ASSUME NEW events \in Seq(ConsentIds \X EventTypes), events # <<>>,
           NEW q, q = [New EXCEPT !.pc = "audit", !.events = events]
    PROVE  /\ q \in RequestRecords /\ q.pc = "audit" /\ q.op = "none"
           /\ Sound(q)'
<1>1. Owner \in Users
  BY DEF Users
<1>2. /\ q \in RequestRecords /\ q.pc = "audit" /\ q.op = "none" /\ q.events = events
      /\ q.todo = {}
  BY <1>1 DEF New, RequestRecords
<1>3. Sound(q)'
  BY <1>2 DEF Sound, HasConsent
<1> QED
  BY <1>2, <1>3

\* A new row has its terms, no assertion, and a token that was ACTIVE.
LEMMA NewRowTyped ==
    ASSUME NEW input, input.purpose \in Purposes \cup {PeriodicUpdate},
           input.requested \in SUBSET Fields, input.requiresDelegation \in BOOLEAN,
           NEW token \in TokenIds, NEW expiresAt \in Nat,
           NEW old \in ConsentIds \cup {NoConsent},
           NEW row, row = NewRow(input, token, expiresAt, old)
    PROVE  /\ row \in Rows /\ row.status = "PENDING" /\ row.token = token /\ row.jti = 0
           /\ row.insertedBy = "consent-manager" /\ row.expiresAt = expiresAt /\ row.renewedFrom = old
BY DEF NewRow, NoRow, Rows, Statuses, Users

LEMMA CreateConsentKeepsInv ==
    ASSUME ConsentInv, NEW r \in Requests, NEW c \in ConsentIds, NEW input \in CreateInputs,
           CreateConsent(r, c, input)
    PROVE  ConsentInv'
<1> DEFINE row == NewRow(input, activeToken, now + input.ttl, NoConsent)
           events == <<<<c, "CONSENT_CREATED">>>>
           q == [New EXCEPT !.pc = "audit", !.events = events]
<1>1. /\ input \in Inputs /\ activeToken \in TokenIds /\ now + input.ttl \in Nat
      /\ ~Exists(c)
  BY ConsentAssumption DEF CreateConsent, ConsentInv, TypeOK, Inputs
<1>2. row \in Rows /\ row.status = "PENDING" /\ row.token = activeToken /\ row.jti = 0
  BY <1>1, NewRowTyped DEF Inputs
<1>3. events \in Seq(ConsentIds \X EventTypes) /\ events # <<>>
  BY DEF EventTypes
<1>4. /\ consent' = [consent EXCEPT ![c] = row] /\ req' = [req EXCEPT ![r] = q]
      /\ UNCHANGED <<now, trail, reserved, issued, interrupted, env, reconsent>>
  BY DEF CreateConsent, Insert, Owe
<1> HIDE DEF row, events
<1>5. q \in RequestRecords /\ Sound(q)'
  BY <1>3, OweTyped
<1> HIDE DEF q
<1> QED
  BY <1>1, <1>2, <1>4, <1>5, RowStepKeepsInv

LEMMA RenewConsentKeepsInv ==
    ASSUME ConsentInv, NEW r \in Requests, NEW old \in ConsentIds, NEW c \in ConsentIds,
           RenewConsent(r, old, c)
    PROVE  ConsentInv'
<1> DEFINE row == NewRow(consent[old], consent[old].token, now + DefaultTtl, old)
           events == <<<<old, "CONSENT_RENEWED">>, <<c, "CONSENT_CREATED">>>>
           q == [New EXCEPT !.pc = "audit", !.events = events]
<1>1. /\ consent[old] \in Rows /\ consent[old].token \in TokenIds
      /\ now + DefaultTtl \in Nat /\ ~Exists(c)
  BY ConsentAssumption DEF RenewConsent, ConsentInv, TypeOK, RowInv
<1>2. row \in Rows /\ row.status = "PENDING" /\ row.token = consent[old].token /\ row.jti = 0
  BY <1>1, NewRowTyped DEF Rows
<1>3. events \in Seq(ConsentIds \X EventTypes) /\ events # <<>>
  BY DEF EventTypes
<1>4. /\ consent' = [consent EXCEPT ![c] = row] /\ req' = [req EXCEPT ![r] = q]
      /\ UNCHANGED <<now, trail, reserved, issued, interrupted, env, reconsent>>
  BY DEF RenewConsent, Insert, Owe
<1> HIDE DEF row, events
<1>5. q \in RequestRecords /\ Sound(q)'
  BY <1>3, OweTyped
<1> HIDE DEF q
<1> QED
  BY <1>1, <1>2, <1>4, <1>5, RowStepKeepsInv

\* The row request-reconsent inserts.
ReconsentRow(r) ==
    [NewRow(ReconsentInput, activeToken, req[r].at + ReconsentTtl, NoConsent)
        EXCEPT !.insertedBy = "wallet-service"]

LEMMA ReconsentRowTyped ==
    ASSUME ConsentInv, NEW r \in Requests, NEW c \in ConsentIds, InsertReconsent(r, c)
    PROVE  /\ ReconsentRow(r) \in Rows /\ ReconsentRow(r).status = "PENDING"
           /\ ReconsentRow(r).token \in TokenIds /\ ReconsentRow(r).jti = 0
           /\ ReconsentRow(r).insertedBy = "wallet-service" /\ ReconsentRow(r).renewedFrom = NoConsent
           /\ ReconsentRow(r).expiresAt = req[r].at + ReconsentTtl
           /\ req[r].at \in 0 .. now
           /\ consent' = [consent EXCEPT ![c] = ReconsentRow(r)]
<1> DEFINE row == NewRow(ReconsentInput, activeToken, req[r].at + ReconsentTtl, NoConsent)
<1>1. /\ activeToken \in TokenIds /\ req[r].at \in 0 .. now
      /\ req[r].at + ReconsentTtl \in Nat
  <2>1. req[r] \in RequestRecords /\ Sound(req[r]) /\ now \in Nat
    BY DEF ConsentInv, TypeOK, RequestInv
  <2>2. req[r].at \in Nat /\ req[r].at <= now
    BY <2>1 DEF RequestRecords, Sound, InsertReconsent
  <2> QED
    BY <2>1, <2>2, ConsentAssumption DEF InsertReconsent, ConsentInv, TypeOK
<1>2. /\ ReconsentInput.purpose \in Purposes \cup {PeriodicUpdate}
      /\ ReconsentInput.requested \in SUBSET Fields
      /\ ReconsentInput.requiresDelegation \in BOOLEAN
  BY DEF ReconsentInput
<1>3. /\ row \in Rows /\ row.status = "PENDING" /\ row.token = activeToken /\ row.jti = 0
      /\ row.renewedFrom = NoConsent /\ row.expiresAt = req[r].at + ReconsentTtl
  BY <1>1, <1>2, NewRowTyped
<1>4. /\ ReconsentRow(r) = [row EXCEPT !.insertedBy = "wallet-service"]
      /\ consent' = [consent EXCEPT ![c] = ReconsentRow(r)]
  BY DEF ReconsentRow, InsertReconsent, Insert
<1> HIDE DEF row
<1> QED
  BY <1>1, <1>3, <1>4 DEF Rows

LEMMA InsertReconsentKeepsInv ==
    ASSUME ConsentInv, NEW r \in Requests, NEW c \in ConsentIds, InsertReconsent(r, c)
    PROVE  ConsentInv'
<1> DEFINE events == <<<<c, "PERIODIC_RECONSENT_REQUESTED">>>>
           q == [New EXCEPT !.pc = "audit", !.events = events]
<1>1. ~Exists(c)
  BY DEF InsertReconsent
<1>2. events \in Seq(ConsentIds \X EventTypes) /\ events # <<>>
  BY DEF EventTypes
<1>3. /\ req' = [req EXCEPT ![r] = q]
      /\ UNCHANGED <<now, trail, reserved, issued, interrupted, env, reconsent>>
  BY DEF InsertReconsent, Owe
<1> HIDE DEF events
<1>4. q \in RequestRecords /\ Sound(q)'
  BY <1>2, OweTyped
<1> HIDE DEF q
<1> QED
  BY <1>1, <1>3, <1>4, ReconsentRowTyped, RowStepKeepsInv

\* The row is made to show the assertion the request has just signed.
LEMMA WriteApprovalKeepsInv ==
    ASSUME ConsentInv, NEW r \in Requests, WriteApproval(r)
    PROVE  ConsentInv'
<1>0. PICK c \in ConsentIds : c = req[r].consent /\ Exists(c)
  BY DEF ConsentInv, RequestInv, Sound, HasConsent, WriteApproval
<1> DEFINE row == [consent[c] EXCEPT !.status = "APPROVED", !.approvedBy = req[r].actor,
                                     !.grant = req[r].grant, !.jti = req[r].jti,
                                     !.approvedFields = req[r].fields]
           pc == IF consent[c].purpose = PeriodicUpdate THEN "review" ELSE "audit"
           events == <<<<c, "CONSENT_APPROVED">>, <<c, "ASSERTION_ISSUED">>>>
           next == [req[r] EXCEPT !.pc = pc, !.events = events]
<1>1. req[r] \in RequestRecords /\ req[r].pc = "signed" /\ Sound(req[r])
  BY DEF ConsentInv, TypeOK, RequestInv, WriteApproval
<1>2. /\ req[r].op = "approve" /\ consent[c] \in Rows
      /\ req[r].jti \in 1 .. Len(reserved[c])
      /\ \E a \in issued : /\ a.consent = c /\ a.jti = req[r].jti
                           /\ a.scope = req[r].fields /\ a.grant = req[r].grant
  BY <1>0, <1>1 DEF Sound, HasConsent, ConsentInv, TypeOK
<1>3. req[r].jti \in Nat \ {0}
  BY <1>2 DEF ConsentInv, TypeOK
<1>4. /\ row \in Rows /\ row.status = "APPROVED" /\ row.jti = req[r].jti
      /\ row.approvedFields = req[r].fields /\ row.grant = req[r].grant
      /\ row.requested = consent[c].requested /\ row.token = consent[c].token
      /\ row.requiresDelegation = consent[c].requiresDelegation
      /\ row.purpose = consent[c].purpose
  BY <1>1, <1>2 DEF RequestRecords, Rows, Statuses
<1>5. row.token \in TokenIds
  BY <1>0, <1>4 DEF ConsentInv, RowInv
<1>6. events \in Seq(ConsentIds \X EventTypes) /\ events # <<>>
  BY <1>2 DEF EventTypes
<1>7. /\ consent' = [consent EXCEPT ![c] = row] /\ req' = [req EXCEPT ![r] = next]
      /\ UNCHANGED <<now, trail, reserved, issued, interrupted, env, reconsent>>
  BY <1>0 DEF WriteApproval, ConsentInv, TypeOK
<1>8. pc \in {"review", "audit"}
  OBVIOUS
<1> HIDE DEF row, events, pc
<1>9. PICK q \in RequestRecords :
         /\ q = next /\ q.pc \in {"review", "audit"} /\ q.op = "approve"
         /\ q.consent = c /\ q.events = events /\ q.todo = req[r].todo
  <2>1. /\ next \in RequestRecords /\ next.pc \in {"review", "audit"}
        /\ next.op = "approve" /\ next.consent = c /\ next.events = events
        /\ next.todo = req[r].todo
    BY <1>0, <1>1, <1>2, <1>6, <1>8 DEF RequestRecords
  <2> HIDE DEF next
  <2> QED
    BY <2>1
<1> HIDE DEF next
<1>10. Exists(c)'
  BY <1>4, <1>7 DEF Exists, ConsentInv, TypeOK
<1>11. Sound(q)'
  <2>1. q.todo = {}
    BY <1>1, <1>2, <1>9 DEF Sound
  <2>2. q.events # <<>>
    BY <1>6, <1>9
  <2> QED
    BY <1>9, <1>10, <2>1, <2>2 DEF Sound, HasConsent
<1> QED
  BY <1>0, <1>2, <1>3, <1>4, <1>5, <1>7, <1>9, <1>11, RowStepKeepsInv

LEMMA WriteDenialKeepsInv ==
    ASSUME ConsentInv, NEW r \in Requests, WriteDenial(r)
    PROVE  ConsentInv'
<1>0. PICK c \in ConsentIds : c = req[r].consent /\ Exists(c)
  BY DEF ConsentInv, RequestInv, Sound, HasConsent, WriteDenial
<1> DEFINE status == IF req[r].op = "reject" THEN "REJECTED" ELSE "REVOKED"
           event == IF req[r].op = "reject" THEN "CONSENT_REJECTED" ELSE "CONSENT_REVOKED"
           row == [consent[c] EXCEPT !.status = status, !.approvedBy = req[r].actor]
           events == <<<<c, event>>>>
           next == [req[r] EXCEPT !.pc = "audit", !.events = events]
<1>1. /\ req[r] \in RequestRecords /\ req[r].pc = "authorised" /\ Sound(req[r])
      /\ req[r].op \in {"reject", "revoke"}
  BY DEF ConsentInv, TypeOK, RequestInv, WriteDenial
<1>2. /\ consent[c] \in Rows
      /\ req[r].op = "revoke" => consent[c].jti # 0
  BY <1>0, <1>1 DEF Sound, HasConsent, ConsentInv, TypeOK
<1>3. /\ status \in {"REJECTED", "REVOKED"} /\ event \in EventTypes
      /\ status = "REVOKED" => consent[c].jti # 0
  BY <1>1, <1>2 DEF EventTypes
<1> HIDE DEF status, event
<1>4. /\ row \in Rows /\ row.status = status /\ row.jti = consent[c].jti
      /\ row.approvedFields = consent[c].approvedFields /\ row.grant = consent[c].grant
      /\ row.requested = consent[c].requested /\ row.token = consent[c].token
      /\ row.requiresDelegation = consent[c].requiresDelegation
      /\ row.purpose = consent[c].purpose
  BY <1>1, <1>2, <1>3 DEF RequestRecords, Rows, Statuses
<1>5. /\ row.token \in TokenIds
      /\ row.jti # 0 => \E a \in issued : /\ a.consent = c /\ a.jti = row.jti
                                          /\ a.scope = row.approvedFields
                                          /\ a.grant = row.grant
  BY <1>0, <1>4 DEF ConsentInv, RowInv, RowShowsAnAssertion
<1>6. events \in Seq(ConsentIds \X EventTypes) /\ events # <<>>
  BY <1>2, <1>3
<1>7. /\ consent' = [consent EXCEPT ![c] = row] /\ req' = [req EXCEPT ![r] = next]
      /\ UNCHANGED <<now, trail, reserved, issued, interrupted, env, reconsent>>
  BY <1>0 DEF WriteDenial, ConsentInv, TypeOK, status, event
<1> HIDE DEF row, events
<1>8. PICK q \in RequestRecords :
         /\ q = next /\ q.pc = "audit" /\ q.consent = c /\ q.events = events
         /\ q.todo = req[r].todo
  <2>1. /\ next \in RequestRecords /\ next.pc = "audit" /\ next.consent = c
        /\ next.events = events /\ next.todo = req[r].todo
    BY <1>0, <1>1, <1>6 DEF RequestRecords
  <2> HIDE DEF next
  <2> QED
    BY <2>1
<1> HIDE DEF next
<1>9. Exists(c)'
  BY <1>3, <1>4, <1>7 DEF Exists, ConsentInv, TypeOK
<1>10. Sound(q)'
  <2>1. q.todo = {}
    BY <1>1, <1>8 DEF Sound
  <2>2. q.events # <<>>
    BY <1>6, <1>8
  <2> QED
    BY <1>8, <1>9, <2>1, <2>2 DEF Sound, HasConsent
<1> QED
  BY <1>0, <1>2, <1>3, <1>4, <1>5, <1>7, <1>8, <1>10, RowStepKeepsInv

LEMMA ExpireRowKeepsInv ==
    ASSUME ConsentInv, NEW r \in Requests, NEW c \in ConsentIds, ExpireRow(r, c)
    PROVE  ConsentInv'
<1> DEFINE row == [consent[c] EXCEPT !.status = "EXPIRED"]
           events == <<<<c, "CONSENT_EXPIRED">>>>
           next == [req[r] EXCEPT !.pc = "audit", !.todo = req[r].todo \ {c},
                                  !.events = events]
<1>1. /\ req[r] \in RequestRecords /\ req[r].pc = "sweep" /\ Sound(req[r])
      /\ consent[c] \in Rows
  BY DEF ConsentInv, TypeOK, RequestInv, ExpireRow
<1>2. /\ c \in req[r].todo /\ Exists(c) /\ req[r].op \in {"expire", "list"}
  BY <1>1 DEF ExpireRow, Sound
<1>3. /\ row \in Rows /\ row.status = "EXPIRED" /\ row.jti = consent[c].jti
      /\ row.approvedFields = consent[c].approvedFields /\ row.grant = consent[c].grant
      /\ row.requested = consent[c].requested /\ row.token = consent[c].token
      /\ row.requiresDelegation = consent[c].requiresDelegation
      /\ row.purpose = consent[c].purpose
  BY <1>1 DEF Rows, Statuses
<1>4. /\ row.token \in TokenIds
      /\ row.jti # 0 => \E a \in issued : /\ a.consent = c /\ a.jti = row.jti
                                          /\ a.scope = row.approvedFields
                                          /\ a.grant = row.grant
  BY <1>2, <1>3 DEF ConsentInv, RowInv, RowShowsAnAssertion
<1>5. events \in Seq(ConsentIds \X EventTypes) /\ events # <<>>
  BY DEF EventTypes
<1>6. /\ consent' = [consent EXCEPT ![c] = row] /\ req' = [req EXCEPT ![r] = next]
      /\ UNCHANGED <<now, trail, reserved, issued, interrupted, env, reconsent>>
  BY DEF ExpireRow, ConsentInv, TypeOK
<1> HIDE DEF row, events
<1>7. PICK q \in RequestRecords :
         /\ q = next /\ q.pc = "audit" /\ q.op = req[r].op /\ q.events = events
         /\ q.todo = req[r].todo \ {c}
  <2>1. /\ next \in RequestRecords /\ next.pc = "audit" /\ next.op = req[r].op
        /\ next.events = events /\ next.todo = req[r].todo \ {c}
    BY <1>1, <1>2, <1>5 DEF RequestRecords
  <2> HIDE DEF next
  <2> QED
    BY <2>1
<1> HIDE DEF next
<1>8. Sound(q)'
  <2>1. \A d \in q.todo : d \in ConsentIds /\ d # c /\ Exists(d)
    BY <1>1, <1>7 DEF Sound, RequestRecords
  <2>2. \A d \in q.todo : Exists(d)'
    BY <2>1, <1>6 DEF Exists, ConsentInv, TypeOK
  <2>3. q.events # <<>>
    BY <1>5, <1>7
  <2> QED
    BY <1>2, <1>7, <2>2, <2>3 DEF Sound, HasConsent
<1> QED
  BY <1>2, <1>3, <1>4, <1>6, <1>7, <1>8, RowStepKeepsInv

-----------------------------------------------------------------------------
(* Reserving the nonce and signing                                         *)

\* The new reservation is a guard's life after the last one, so after all.
LEMMA ReserveNonceKeepsInv ==
    ASSUME ConsentInv, NEW r \in Requests, ReserveNonce(r)
    PROVE  ConsentInv'
<1> USE DEF ConsentInv
<1>0. PICK c \in ConsentIds : c = req[r].consent /\ Exists(c)
  BY DEF RequestInv, Sound, HasConsent, ReserveNonce
<1> DEFINE n == Len(reserved[c])
           next == [req[r] EXCEPT !.pc = "reserved", !.jti = n + 1]
<1>1. /\ req[r] \in RequestRecords /\ req[r].pc = "tokenActive" /\ Sound(req[r])
      /\ reserved[c] \in Seq(Nat) /\ n \in Nat /\ now \in Nat
  BY DEF TypeOK, RequestInv, ReserveNonce
<1>2. /\ reserved' = [reserved EXCEPT ![c] = Append(reserved[c], now)]
      /\ req' = [req EXCEPT ![r] = next] /\ NonceFree(c)
      /\ UNCHANGED <<now, consent, trail, issued, interrupted, env, reconsent>>
  BY <1>0 DEF ReserveNonce, tables, TypeOK
<1>3. /\ reserved'[c] = Append(reserved[c], now) /\ reserved'[c] \in Seq(Nat)
      /\ Len(reserved'[c]) = n + 1 /\ reserved'[c][n + 1] = now
      /\ \A i \in 1 .. n : reserved'[c][i] = reserved[c][i]
      /\ \A d \in ConsentIds \ {c} : reserved'[d] = reserved[d]
  BY <1>1, <1>2 DEF TypeOK
<1>4. PICK q \in RequestRecords :
         /\ q = next /\ q.pc = "reserved" /\ q.op = req[r].op /\ q.consent = c
         /\ q.fields = req[r].fields /\ q.grant = req[r].grant /\ q.jti = n + 1
         /\ q.todo = req[r].todo
  <2> HIDE DEF n
  <2>1. n + 1 \in Nat
    BY <1>1
  <2>2. /\ next \in RequestRecords /\ next.pc = "reserved" /\ next.op = req[r].op
        /\ next.consent = c /\ next.fields = req[r].fields /\ next.grant = req[r].grant
        /\ next.jti = n + 1 /\ next.todo = req[r].todo
    BY <1>0, <1>1, <2>1 DEF RequestRecords
  <2> HIDE DEF next
  <2> QED
    BY <2>2
<1> HIDE DEF next
<1>5. TypeOK'
  BY <1>2, <1>3, <1>4 DEF TypeOK, env
<1>6. Preserves
  BY <1>1, <1>2, <1>3 DEF Preserves, Exists, env, TypeOK
<1>7. Sound(q)'
  <2>1. Exists(c)' /\ q.op = "approve" /\ q.todo = {}
    BY <1>0, <1>1, <1>2, <1>4 DEF Sound, Exists
  <2>2. Mandate(q.consent, q.fields, q.grant)'
    BY <1>0, <1>1, <1>2, <1>4 DEF Sound, Mandate, env
  <2>3. q.jti \in 1 .. Len(reserved'[c])
    BY <1>1, <1>3, <1>4
  <2> QED
    BY <2>1, <2>2, <2>3, <1>4 DEF Sound, HasConsent
<1>8. RequestInv'
  BY <1>2, <1>4, <1>5, <1>6, <1>7, RequestInvStays
<1>9. ReservationInv'
  <2> SUFFICES ASSUME NEW d \in ConsentIds, NEW i \in 1 .. Len(reserved'[d])
               PROVE  /\ reserved'[d][i] <= now'
                      /\ \A j \in 1 .. Len(reserved'[d]) :
                            i < j => reserved'[d][i] + AssertionTtl <= reserved'[d][j]
    BY DEF ReservationInv
  <2>1. CASE d # c
    BY <2>1, <1>2, <1>3 DEF ReservationInv
  <2>2. CASE d = c
    <3>1. \A k \in 1 .. n : reserved[c][k] \in Nat
      BY <1>1
    <3>2. \A k \in 1 .. n : reserved[c][k] + AssertionTtl <= now
      <4> TAKE k \in 1 .. n
      <4>1. n \in 1 .. n /\ reserved[c][n] + AssertionTtl <= now
        BY <1>1, <1>2 DEF NonceFree
      <4>2. k < n => reserved[c][k] + AssertionTtl <= reserved[c][n]
        BY <4>1 DEF ReservationInv
      <4> QED
        BY <4>1, <4>2, <3>1, <1>1, ConsentAssumption
    <3>3. CASE i = n + 1
      BY <3>3, <2>2, <1>1, <1>2, <1>3
    <3>4. CASE i # n + 1
      <4>1. i \in 1 .. n
        BY <3>4, <2>2, <1>1, <1>3
      <4>2. reserved[c][i] <= now /\ reserved[c][i] + AssertionTtl <= now
        BY <4>1, <3>2 DEF ReservationInv
      <4>3. \A j \in 1 .. n : i < j => reserved[c][i] + AssertionTtl <= reserved[c][j]
        BY <4>1 DEF ReservationInv
      <4>4. ASSUME NEW j \in 1 .. n + 1, i < j
            PROVE  reserved'[c][i] + AssertionTtl <= reserved'[c][j]
        <5>1. CASE j = n + 1
          BY <5>1, <4>1, <4>2, <1>3
        <5>2. CASE j # n + 1
          BY <5>2, <4>1, <4>3, <4>4, <1>1, <1>3
        <5> QED
          BY <5>1, <5>2
      <4> QED
        BY <4>1, <4>2, <4>4, <2>2, <1>2, <1>3
    <3> QED
      BY <3>3, <3>4
  <2> QED
    BY <2>1, <2>2
<1>10. IssuedInv'
  <2> SUFFICES ASSUME NEW a \in issued PROVE IssuedInv!(a)'
    BY <1>2 DEF IssuedInv
  <2> QED
    BY <1>5, <1>6, IssuedStays
<1>11. RowInv' /\ RowShowsAnAssertion'
  BY <1>2 DEF RowInv, RowShowsAnAssertion, Exists
<1> QED
  BY <1>5, <1>8, <1>9, <1>10, <1>11

\* The assertion is signed within its mandate and no earlier than reserved.
LEMMA SignAssertionKeepsInv ==
    ASSUME ConsentInv, NEW r \in Requests, SignAssertion(r)
    PROVE  ConsentInv'
<1> USE DEF ConsentInv
<1>0. PICK c \in ConsentIds : c = req[r].consent /\ Exists(c)
  BY DEF RequestInv, Sound, HasConsent, SignAssertion
<1> DEFINE signed == [consent |-> c, jti |-> req[r].jti, scope |-> req[r].fields,
                      grant |-> req[r].grant, token |-> consent[c].token,
                      iat |-> now, exp |-> now + AssertionTtl]
           next == [req[r] EXCEPT !.pc = "signed"]
<1>1. /\ req[r] \in RequestRecords /\ req[r].pc = "reserved" /\ Sound(req[r])
      /\ now \in Nat /\ consent[c].token \in TokenIds
  BY <1>0 DEF TypeOK, RequestInv, RowInv, SignAssertion
<1>2. /\ req[r].op = "approve" /\ req[r].todo = {}
      /\ req[r].jti \in 1 .. Len(reserved[c])
      /\ Mandate(c, req[r].fields, req[r].grant)
  BY <1>0, <1>1 DEF Sound
<1>3. /\ req' = [req EXCEPT ![r] = next] /\ issued' = issued \cup {signed}
      /\ UNCHANGED <<now, consent, trail, reserved, interrupted, env, reconsent>>
  BY <1>0 DEF SignAssertion, Goto, tables, TypeOK
<1>4. PICK new \in Assertions :
         /\ new = signed /\ new.consent = c /\ new.jti = req[r].jti
         /\ new.scope = req[r].fields /\ new.grant = req[r].grant
         /\ new.token = consent[c].token /\ new.iat = now /\ new.exp = now + AssertionTtl
  <2>1. req[r].jti \in Nat \ {0} /\ now + AssertionTtl \in Nat
    BY <1>1, <1>2, ConsentAssumption DEF TypeOK
  <2>2. signed \in Assertions
    BY <2>1, <1>1 DEF Assertions, RequestRecords
  <2> QED
    BY <2>2
<1> HIDE DEF signed
<1>5. PICK q \in RequestRecords :
         /\ q = next /\ q.pc = "signed" /\ q.op = "approve" /\ q.consent = c
         /\ q.fields = req[r].fields /\ q.grant = req[r].grant /\ q.jti = req[r].jti
         /\ q.todo = {}
  <2>1. /\ next \in RequestRecords /\ next.pc = "signed" /\ next.op = "approve"
        /\ next.consent = c /\ next.fields = req[r].fields /\ next.grant = req[r].grant
        /\ next.jti = req[r].jti /\ next.todo = {}
    BY <1>0, <1>1, <1>2 DEF RequestRecords
  <2> HIDE DEF next
  <2> QED
    BY <2>1
<1> HIDE DEF next
<1>6. TypeOK'
  BY <1>3, <1>4, <1>5 DEF TypeOK, env
<1>7. Preserves
  BY <1>3 DEF Preserves, Exists, env, TypeOK
<1>8. Sound(q)'
  <2>1. Exists(c)' /\ Mandate(q.consent, q.fields, q.grant)'
    BY <1>0, <1>2, <1>3, <1>5 DEF Exists, Mandate, env
  <2>2. \E a \in issued' : /\ a.consent = q.consent /\ a.jti = q.jti
                           /\ a.scope = q.fields /\ a.grant = q.grant
    BY <1>3, <1>4, <1>5
  <2> QED
    BY <2>1, <2>2, <1>2, <1>3, <1>5 DEF Sound, HasConsent
<1>9. RequestInv'
  BY <1>3, <1>5, <1>6, <1>7, <1>8, RequestInvStays
<1>10. ReservationInv' /\ RowInv'
  BY <1>3 DEF ReservationInv, RowInv, Exists
<1>11. IssuedInv'
  <2> SUFFICES ASSUME NEW a \in issued' PROVE IssuedInv!(a)'
    BY DEF IssuedInv
  <2>1. CASE a \in issued
    BY <2>1, <1>6, <1>7, IssuedStays
  <2>2. CASE a = new
    <3>1. reserved[c][new.jti] <= new.iat
      BY <1>2, <1>4 DEF ReservationInv
    <3>2. Exists(c)' /\ Mandate(c, new.scope, new.grant)'
      BY <1>0, <1>2, <1>3, <1>4 DEF Exists, Mandate, env
    <3> QED
      BY <2>2, <3>1, <3>2, <1>2, <1>3, <1>4
  <2> QED
    BY <2>1, <2>2, <1>3, <1>4
<1>12. RowShowsAnAssertion'
  BY <1>3 DEF RowShowsAnAssertion
<1> QED
  BY <1>6, <1>9, <1>10, <1>11, <1>12

-----------------------------------------------------------------------------
(* The steps of the wallet, the registry, the scheduler and the clock      *)

LEMMA TickKeepsInv == ConsentInv /\ Tick => ConsentInv'
<1> SUFFICES ASSUME ConsentInv, Tick PROVE ConsentInv'
  OBVIOUS
<1> USE DEF ConsentInv, Tick, tables, env
<1>1. TypeOK' /\ now \in Nat /\ now' = now + 1
  BY ConsentAssumption DEF TypeOK
<1>2. ReservationInv'
  <2>1. \A c \in ConsentIds : \A i \in 1 .. Len(reserved[c]) : reserved[c][i] \in Nat
    BY DEF TypeOK
  <2> QED
    BY <1>1, <2>1 DEF ReservationInv
<1>3. IssuedInv' /\ RowInv' /\ RowShowsAnAssertion'
  BY DEF IssuedInv, Mandate, RowInv, RowShowsAnAssertion, Exists
<1>4. Preserves
  BY <1>1 DEF Preserves, Exists, TypeOK
<1>5. RequestInv'
  <2>1. \A r \in Requests : req[r] \in RequestRecords /\ Sound(req[r])
    BY DEF RequestInv, TypeOK
  <2>2. \A r \in Requests : Sound(req[r])'
    BY <1>1, <1>4, <2>1, SoundStays
  <2> QED
    BY <2>2 DEF RequestInv, Sound, HasConsent
<1> QED
  BY <1>1, <1>2, <1>3, <1>5

\* Who holds which token, and whether a review is due, is asked anew each time.
LEMMA EnvironmentKeepsInv ==
    ASSUME ConsentInv,
           \/ \E t \in TokenIds \cup {NoToken} : ChangeToken(t)
           \/ RequireReconsent
    PROVE  ConsentInv'
<1> USE DEF ConsentInv
<1>1. /\ activeToken' \in TokenIds \cup {NoToken} /\ reconsent' \in BOOLEAN
      /\ UNCHANGED <<now, consent, trail, reserved, issued, req, interrupted, delegations>>
  BY DEF ChangeToken, RequireReconsent, tables, env, TypeOK
<1>2. TypeOK'
  BY <1>1 DEF TypeOK
<1>3. RequestInv' /\ IssuedInv'
  BY <1>1 DEF RequestInv, Sound, HasConsent, IssuedInv, Mandate, Exists
<1>4. ReservationInv' /\ RowInv' /\ RowShowsAnAssertion'
  BY <1>1 DEF ReservationInv, RowInv, RowShowsAnAssertion, Exists
<1> QED
  BY <1>2, <1>3, <1>4

\* Delegations may change their status and grow in number; what each of them
\* grants stays.
LEMMA DelegationsKeepInv ==
    ASSUME ConsentInv, delegations' \in Seq(DelegationRows),
           Len(delegations) <= Len(delegations'),
           \A d \in 1 .. Len(delegations) :
               /\ delegations'[d].purposes = delegations[d].purposes
               /\ delegations'[d].fields = delegations[d].fields,
           UNCHANGED <<now, consent, trail, reserved, issued, req, interrupted,
                       activeToken, reconsent>>
    PROVE  ConsentInv'
<1> USE DEF ConsentInv
<1>1. TypeOK'
  BY DEF TypeOK
<1>2. Preserves
  BY DEF Preserves, Exists, TypeOK
<1>3. RequestInv'
  <2> SUFFICES ASSUME NEW s \in Requests, NEW v, v = req'[s] PROVE Sound(v)'
    BY DEF RequestInv, Sound, HasConsent
  <2>1. v \in RequestRecords /\ Sound(v)
    BY DEF TypeOK, RequestInv
  <2> QED
    BY <1>1, <1>2, <2>1, SoundStays
<1>4. IssuedInv'
  <2> SUFFICES ASSUME NEW a \in issued PROVE IssuedInv!(a)'
    BY DEF IssuedInv
  <2> QED
    BY <1>1, <1>2, IssuedStays
<1>5. ReservationInv' /\ RowInv' /\ RowShowsAnAssertion'
  BY DEF ReservationInv, RowInv, RowShowsAnAssertion, Exists
<1> QED
  BY <1>1, <1>3, <1>4, <1>5

LEMMA DelegateKeepsInv ==
    ASSUME ConsentInv, NEW g \in Grants, Delegate(g)
    PROVE  ConsentInv'
<1> DEFINE Replaced(d) == d.delegate = g.delegate /\ d.scope = g.scope
           Row(i) == IF Replaced(delegations[i])
                     THEN [delegations[i] EXCEPT !.status = "REVOKED"] ELSE delegations[i]
           before == [i \in 1 .. Len(delegations) |-> Row(i)]
           row == [delegate |-> g.delegate, scope |-> g.scope, purposes |-> g.purposes,
                   fields |-> g.fields, expiresAt |-> g.expiresAt, status |-> "ACTIVE"]
<1>1. delegations \in Seq(DelegationRows) /\ Len(delegations) \in Nat
  BY DEF ConsentInv, TypeOK
<1>2. ASSUME NEW i \in 1 .. Len(delegations)
      PROVE  /\ Row(i) \in DelegationRows
             /\ Row(i).purposes = delegations[i].purposes
             /\ Row(i).fields = delegations[i].fields
  <2>1. delegations[i] \in DelegationRows
    BY <1>1
  <2> QED
    BY <2>1 DEF DelegationRows
<1>3. row \in DelegationRows
  <2>1. g \in GrantBodies
    BY ConsentAssumption
  <2> QED
    BY <2>1 DEF GrantBodies, DelegationRows
<1>4. /\ delegations' = Append(before, row)
      /\ UNCHANGED <<now, consent, trail, reserved, issued, req, interrupted,
                     activeToken, reconsent>>
  BY DEF Delegate, tables
<1> HIDE DEF Row, row
<1>5. before \in Seq(DelegationRows) /\ Len(before) = Len(delegations)
  BY <1>1, <1>2
<1>6. \A i \in 1 .. Len(delegations) : before[i] = Row(i)
  OBVIOUS
<1> HIDE DEF before
<1>7. /\ delegations' \in Seq(DelegationRows) /\ Len(delegations) <= Len(delegations')
      /\ \A i \in 1 .. Len(delegations) : delegations'[i] = Row(i)
  BY <1>1, <1>3, <1>4, <1>5, <1>6
<1> QED
  BY <1>2, <1>4, <1>7, DelegationsKeepInv

LEMMA RevokeDelegationKeepsInv ==
    ASSUME ConsentInv, NEW d \in 1 .. Len(delegations), RevokeDelegation(d)
    PROVE  ConsentInv'
<1> DEFINE row == [delegations[d] EXCEPT !.status = "REVOKED"]
<1>1. delegations \in Seq(DelegationRows) /\ Len(delegations) \in Nat
  BY DEF ConsentInv, TypeOK
<1>2. /\ row \in DelegationRows /\ row.purposes = delegations[d].purposes
      /\ row.fields = delegations[d].fields
  <2>1. delegations[d] \in DelegationRows
    BY <1>1
  <2> QED
    BY <2>1 DEF DelegationRows
<1>3. /\ delegations' = [delegations EXCEPT ![d] = row]
      /\ UNCHANGED <<now, consent, trail, reserved, issued, req, interrupted,
                     activeToken, reconsent>>
  BY DEF RevokeDelegation, tables
<1> HIDE DEF row
<1>4. /\ delegations' \in Seq(DelegationRows) /\ Len(delegations') = Len(delegations)
      /\ delegations'[d] = row
      /\ \A i \in (1 .. Len(delegations)) \ {d} : delegations'[i] = delegations[i]
  BY <1>1, <1>2, <1>3
<1> QED
  BY <1>1, <1>2, <1>3, <1>4, DelegationsKeepInv

-----------------------------------------------------------------------------
(* The theorems                                                            *)

LEMMA InitEstablishesInv == Init => ConsentInv
<1> SUFFICES ASSUME Init PROVE ConsentInv
  OBVIOUS
<1> USE DEF Init
<1>1. /\ NoRow \in Rows /\ NoRow.status = "ABSENT" /\ NoRow.jti = 0
  BY DEF NoRow, Rows, Users
<1>2. /\ New \in RequestRecords /\ New.pc = "new" /\ New.todo = {}
  <2>1. New.todo = {}
    BY DEF New
  <2> QED
    BY <2>1, NewTyped
<1>3. <<>> \in Seq(Nat) /\ <<>> \in Seq(DelegationRows)
  OBVIOUS
<1>3a. now \in 0 .. MaxTime
  BY ConsentAssumption
<1>4. TypeOK
  BY <1>1, <1>2, <1>3, <1>3a DEF TypeOK
<1>5. RequestInv
  BY <1>2 DEF RequestInv, Sound, HasConsent
<1>6. ReservationInv /\ IssuedInv
  BY DEF ReservationInv, IssuedInv
<1>7. RowInv /\ RowShowsAnAssertion
  BY <1>1 DEF RowInv, RowShowsAnAssertion, Exists
<1> QED
  BY <1>4, <1>5, <1>6, <1>7 DEF ConsentInv

\* Every step of a request that was accepted keeps the invariant.
LEMMA StepKeepsInv ==
    ASSUME ConsentInv, NEW r \in Requests, Step(r)
    PROVE  ConsentInv'
BY AuthoriseKeepsInv, CheckTokenKeepsInv, ReserveNonceKeepsInv, RefuseKeepsInv,
   SignAssertionKeepsInv, WriteApprovalKeepsInv, WriteDenialKeepsInv,
   UpdateReviewKeepsInv, ExpireRowKeepsInv, WriteAuditKeepsInv, FindNonePendingKeepsInv,
   InsertReconsentKeepsInv DEF Step

LEMMA NextKeepsInv == ConsentInv /\ [Next]_vars => ConsentInv'
<1> SUFFICES ASSUME ConsentInv, [Next]_vars PROVE ConsentInv'
  OBVIOUS
<1>1. CASE UNCHANGED vars
  BY <1>1 DEF vars, tables, env, ConsentInv, TypeOK, RequestInv, Sound, HasConsent,
     ReservationInv, IssuedInv, Mandate, RowInv, RowShowsAnAssertion, Exists
<1>2. CASE Tick
  BY <1>2, TickKeepsInv
<1>3. CASE (\E t \in TokenIds \cup {NoToken} : ChangeToken(t)) \/ RequireReconsent
  BY <1>3, EnvironmentKeepsInv
<1>4. CASE (\E g \in Grants : Delegate(g)) \/ \E d \in 1 .. Len(delegations) : RevokeDelegation(d)
  BY <1>4, DelegateKeepsInv, RevokeDelegationKeepsInv
<1>5. CASE Create \/ Renew
  BY <1>5, CreateConsentKeepsInv, RenewConsentKeepsInv DEF Create, Renew
<1>6. CASE Decide
  BY <1>6, ReadPendingKeepsInv, ReadApprovedKeepsInv DEF Decide
<1>7. CASE \E r \in Requests : ReadExpireDue(r) \/ ListConsents(r)
  BY <1>7, ReadBatchKeepsInv DEF ReadExpireDue, ListConsents
<1>8. CASE \E r \in Requests : Step(r) \/ Fail(r) \/ AskReconsent(r)
  BY <1>8, StepKeepsInv, FailKeepsInv, AskReconsentKeepsInv
<1> QED
  BY <1>1, <1>2, <1>3, <1>4, <1>5, <1>6, <1>7, <1>8 DEF Next

\* What requests remember, the reservations and the assertions, in every
\* reachable state.
THEOREM Invariance == Spec => []ConsentInv
<1> QED
  BY InitEstablishesInv, NextKeepsInv, PTL DEF Spec

\* The state of the service always has its type.
THEOREM TypeCorrect == Spec => []TypeOK
<1>1. ConsentInv => TypeOK
  BY DEF ConsentInv
<1> QED
  BY Invariance, <1>1, PTL

\* However many approvals of a consent overlap, are retried or die half way: an
\* assertion signed as soon as its nonce was reserved is dead before another one
\* of that consent is signed.
THEOREM GuardSeparatesAssertions == Spec => []OneLiveAssertion
<1>1. ConsentInv => OneLiveAssertion
  <2> SUFFICES ASSUME ConsentInv, NEW a \in issued, NEW b \in issued,
                      a.consent = b.consent, a.jti < b.jti,
                      a.iat = reserved[a.consent][a.jti]
               PROVE  a.exp <= b.iat
    BY DEF OneLiveAssertion
  <2> DEFINE times == reserved[a.consent]
  <2>1. /\ a \in Assertions /\ b \in Assertions /\ a.consent \in ConsentIds
        /\ times \in Seq(Nat)
    BY DEF ConsentInv, TypeOK, Assertions
  <2>2. /\ a.jti \in 1 .. Len(times) /\ b.jti \in 1 .. Len(times)
        /\ times[b.jti] <= b.iat /\ a.exp = a.iat + AssertionTtl
    BY DEF ConsentInv, IssuedInv
  <2>3. times[a.jti] + AssertionTtl <= times[b.jti]
    BY <2>1, <2>2 DEF ConsentInv, ReservationInv
  <2>4. b.iat \in Nat
    BY <2>1 DEF Assertions
  <2>5. times[a.jti] \in Nat /\ times[b.jti] \in Nat
    <3> HIDE DEF times
    <3> QED
      BY <2>1, <2>2
  <2> QED
    BY SMTT(20), <2>2, <2>3, <2>4, <2>5, ConsentAssumption
<1> QED
  BY Invariance, <1>1, PTL

\* No interleaving of decisions, delegations and revocations makes an assertion
\* that discloses more than was asked for and delegated.
THEOREM AssertionsHaveAMandate == Spec => []IssuedWithinMandate
<1>1. ConsentInv => IssuedWithinMandate
  BY DEF ConsentInv, IssuedInv, Mandate, IssuedWithinMandate
<1> QED
  BY Invariance, <1>1, PTL

\* Whichever request wrote a row last, the row shows one assertion as it is.
THEOREM RowsShowAssertions == Spec => []RowShowsAnAssertion
<1>1. ConsentInv => RowShowsAnAssertion
  BY DEF ConsentInv
<1> QED
  BY Invariance, <1>1, PTL

-----------------------------------------------------------------------------
(***************************************************************************)
(* consent-manager keeps what AssertionIssuing promises to fi-service.     *)
(* ConsentInv does not say that an assertion about to be signed is new and *)
(* discloses something: SigningInv adds it.  Then creating, signing and    *)
(* writing a status map to the steps of AssertionIssuing, and every other  *)
(* step is invisible to fi-service.                                        *)
(***************************************************************************)

\* An approval on its way to the signature discloses something.
Discloses(q) ==
    q.op = "approve" /\ q.pc \in {"read", "authorised", "tokenActive", "reserved"}
        => q.fields # {}

\* The jti a request has reserved is its own until it has signed.
SigningInv ==
    /\ \A r \in Requests : Discloses(req[r])
    /\ \A r \in Requests : req[r].pc = "reserved" =>
          /\ \A a \in issued : a.consent = req[r].consent => a.jti # req[r].jti
          /\ \A s \in Requests : s # r /\ req[s].pc = "reserved"
                                       /\ req[s].consent = req[r].consent
                 => req[s].jti # req[r].jti

RefinementInv == ConsentInv /\ SigningInv

\* Consents and assertions as fi-service sees them.
Shown(a) == [consent |-> a.consent, jti |-> a.jti, scope |-> a.scope, exp |-> a.exp]

TermsView ==
    [c \in ConsentIds |-> IF Exists(c)
                          THEN [agreed |-> Agreed(consent[c]), expiresAt |-> consent[c].expiresAt]
                          ELSE NoConsent]
StatusView == [c \in ConsentIds |-> consent[c].status]
IssuedView == {Shown(a) : a \in issued}

views == <<now, TermsView, StatusView, IssuedView>>

-----------------------------------------------------------------------------
(* SigningInv is inductive                                                 *)

\* A request that moves anywhere but to its signature disturbs nobody.
LEMMA MoveKeepsSigning ==
    ASSUME RefinementInv, NEW r \in Requests, NEW q, req' = [req EXCEPT ![r] = q],
           Discloses(q), q.pc # "reserved", issued' = issued
    PROVE  SigningInv'
BY DEF RefinementInv, SigningInv, Discloses, ConsentInv, TypeOK

\* A reservation is numbered after every earlier one, used or not.
LEMMA ReserveNonceKeepsSigning ==
    ASSUME RefinementInv, NEW r \in Requests, ReserveNonce(r)
    PROVE  SigningInv'
<1> USE DEF RefinementInv, ConsentInv
<1>1. PICK c \in ConsentIds : c = req[r].consent
  BY DEF RequestInv, Sound, HasConsent, ReserveNonce
<1> DEFINE n == Len(reserved[c])
           next == [req[r] EXCEPT !.pc = "reserved", !.jti = n + 1]
<1>2. /\ req[r] \in RequestRecords /\ req[r].pc = "tokenActive" /\ req[r].op = "approve"
      /\ req[r].fields # {} /\ n \in Nat
  <2>1. req[r] \in RequestRecords /\ req[r].pc = "tokenActive" /\ n \in Nat
    BY DEF TypeOK, ReserveNonce
  <2>2. req[r].op = "approve"
    BY <2>1 DEF RequestInv, Sound
  <2> QED
    BY <2>1, <2>2 DEF SigningInv, Discloses
<1>3. req' = [req EXCEPT ![r] = next] /\ issued' = issued
  BY <1>1 DEF ReserveNonce, TypeOK
<1>4. /\ next.pc = "reserved" /\ next.consent = c /\ next.jti = n + 1
      /\ next.fields # {}
  BY <1>1, <1>2 DEF RequestRecords
<1> HIDE DEF next
<1>5. \A a \in issued : a.consent = c => a.jti \in 1 .. n
  BY DEF IssuedInv
<1>6. \A s \in Requests : req[s].pc = "reserved" /\ req[s].consent = c => req[s].jti \in 1 .. n
  BY DEF RequestInv, Sound
<1>7. /\ req'[r] = next
      /\ \A s \in Requests \ {r} : req'[s] = req[s]
  BY <1>3 DEF TypeOK
<1> HIDE DEF n
<1>8. \A s \in Requests : Discloses(req[s])'
  BY <1>4, <1>7 DEF SigningInv, Discloses
<1>9. ASSUME NEW s \in Requests, req'[s].pc = "reserved"
      PROVE  \A a \in issued : a.consent = req'[s].consent => a.jti # req'[s].jti
  BY <1>2, <1>4, <1>5, <1>7, <1>9 DEF SigningInv
<1>10. ASSUME NEW s \in Requests, NEW t \in Requests, s # t,
              req'[s].pc = "reserved", req'[t].pc = "reserved",
              req'[s].consent = req'[t].consent
       PROVE  req'[s].jti # req'[t].jti
  BY <1>2, <1>4, <1>6, <1>7, <1>10 DEF SigningInv
<1> QED
  BY <1>3, <1>8, <1>9, <1>10 DEF SigningInv

\* A signature uses up the jti of its request, which no other has.
LEMMA SignAssertionKeepsSigning ==
    ASSUME RefinementInv, NEW r \in Requests, SignAssertion(r)
    PROVE  SigningInv'
<1> USE DEF RefinementInv, ConsentInv
<1> DEFINE next == [req[r] EXCEPT !.pc = "signed"]
<1>1. req[r] \in RequestRecords /\ req[r].pc = "reserved"
  BY DEF TypeOK, SignAssertion
<1>2. PICK b : issued' = issued \cup {b} /\ b.consent = req[r].consent /\ b.jti = req[r].jti
  <2> DEFINE a == [consent |-> req[r].consent, jti |-> req[r].jti, scope |-> req[r].fields,
                   grant |-> req[r].grant, token |-> consent[req[r].consent].token,
                   iat |-> now, exp |-> now + AssertionTtl]
  <2>1. issued' = issued \cup {a}
    BY DEF SignAssertion
  <2>2. a.consent = req[r].consent /\ a.jti = req[r].jti
    OBVIOUS
  <2> HIDE DEF a
  <2> QED
    BY <2>1, <2>2
<1>3. req' = [req EXCEPT ![r] = next]
  BY DEF SignAssertion, Goto, TypeOK
<1>4. next.pc = "signed"
  BY <1>1 DEF RequestRecords
<1> HIDE DEF next
<1>5. /\ req'[r] = next
      /\ \A s \in Requests \ {r} : req'[s] = req[s]
  BY <1>3 DEF TypeOK
<1> QED
  BY <1>1, <1>2, <1>4, <1>5 DEF SigningInv, Discloses

\* A request that goes on within its handler, elsewhere than to the signature.
LEMMA GotoKeepsSigning ==
    ASSUME RefinementInv, NEW r \in Requests, NEW q, req' = [req EXCEPT ![r] = q],
           q.pc # "reserved", q.op = req[r].op, q.fields = req[r].fields,
           q.pc \in {"read", "authorised", "tokenActive"} =>
               req[r].pc \in {"read", "authorised", "tokenActive", "reserved"},
           issued' = issued
    PROVE  SigningInv'
<1>1. Discloses(q)
  BY DEF RefinementInv, SigningInv, Discloses
<1> QED
  BY <1>1, MoveKeepsSigning

\* A request that begins or is over.
LEMMA NewKeepsSigning ==
    ASSUME RefinementInv, NEW r \in Requests, NEW q, req' = [req EXCEPT ![r] = q],
           q.pc \in {"read", "sweep", "audit", "asked", "done"},
           q.op = "approve" => q.fields # {},
           issued' = issued
    PROVE  SigningInv'
<1>1. Discloses(q) /\ q.pc # "reserved"
  BY DEF Discloses
<1> QED
  BY <1>1, MoveKeepsSigning

LEMMA FinishKeepsSigning ==
    ASSUME RefinementInv, NEW r \in Requests, Finish(r), issued' = issued
    PROVE  SigningInv'
<1>1. Done.pc = "done" /\ Done.op = "none"
  BY DEF Done, New
<1> QED
  BY <1>1, NewKeepsSigning DEF Finish

LEMMA StepKeepsSigning ==
    ASSUME RefinementInv, NEW r \in Requests, Step(r)
    PROVE  SigningInv'
<1> USE DEF RefinementInv, ConsentInv
<1>0. req[r] \in RequestRecords
  BY DEF TypeOK
<1>1. ASSUME NEW d \in 0 .. MaxGrants, Authorise(r, d) PROVE SigningInv'
  <2> DEFINE q == [req[r] EXCEPT !.pc = "authorised", !.grant = d]
  <2>1. req' = [req EXCEPT ![r] = q] /\ req[r].pc = "read" /\ issued' = issued
    BY <1>1 DEF Authorise, TypeOK
  <2>2. q.pc = "authorised" /\ q.op = req[r].op /\ q.fields = req[r].fields
    BY <1>0 DEF RequestRecords
  <2> HIDE DEF q
  <2> QED
    BY <2>1, <2>2, GotoKeepsSigning
<1>2. CASE CheckToken(r)
  <2> DEFINE q == [req[r] EXCEPT !.pc = "tokenActive"]
  <2>1. req' = [req EXCEPT ![r] = q] /\ req[r].pc = "authorised" /\ issued' = issued
    BY <1>2 DEF CheckToken, Goto, TypeOK
  <2>2. q.pc = "tokenActive" /\ q.op = req[r].op /\ q.fields = req[r].fields
    BY <1>0 DEF RequestRecords
  <2> HIDE DEF q
  <2> QED
    BY <2>1, <2>2, GotoKeepsSigning
<1>3. CASE ReserveNonce(r)
  BY <1>3, ReserveNonceKeepsSigning
<1>4. CASE Refuse(r)
  BY <1>4, FinishKeepsSigning DEF Refuse
<1>5. CASE SignAssertion(r)
  BY <1>5, SignAssertionKeepsSigning
<1>6. CASE WriteApproval(r)
  <2> DEFINE pc == IF consent[req[r].consent].purpose = PeriodicUpdate THEN "review" ELSE "audit"
             events == <<<<req[r].consent, "CONSENT_APPROVED">>,
                         <<req[r].consent, "ASSERTION_ISSUED">>>>
             q == [req[r] EXCEPT !.pc = pc, !.events = events]
  <2>1. req' = [req EXCEPT ![r] = q] /\ issued' = issued
    BY <1>6 DEF WriteApproval, TypeOK
  <2>2. pc \in {"review", "audit"}
    OBVIOUS
  <2> HIDE DEF pc, events
  <2>3. q.pc = pc /\ q.op = req[r].op /\ q.fields = req[r].fields
    BY <1>0 DEF RequestRecords
  <2> HIDE DEF q
  <2> QED
    BY <2>1, <2>2, <2>3, GotoKeepsSigning
<1>7. CASE WriteDenial(r)
  <2> DEFINE event == IF req[r].op = "reject" THEN "CONSENT_REJECTED" ELSE "CONSENT_REVOKED"
             events == <<<<req[r].consent, event>>>>
             q == [req[r] EXCEPT !.pc = "audit", !.events = events]
  <2>1. req' = [req EXCEPT ![r] = q] /\ issued' = issued
    BY <1>7 DEF WriteDenial, TypeOK
  <2> HIDE DEF events
  <2>2. q.pc = "audit" /\ q.op = req[r].op /\ q.fields = req[r].fields
    BY <1>0 DEF RequestRecords
  <2> HIDE DEF q
  <2> QED
    BY <2>1, <2>2, GotoKeepsSigning
<1>8. CASE UpdateReview(r)
  <2>1. CASE Finish(r)
    BY <1>8, <2>1, FinishKeepsSigning DEF UpdateReview
  <2>2. CASE Goto(r, "audit")
    <3> DEFINE q == [req[r] EXCEPT !.pc = "audit"]
    <3>1. req' = [req EXCEPT ![r] = q] /\ issued' = issued
      BY <1>8, <2>2 DEF Goto, TypeOK, UpdateReview
    <3>2. q.pc = "audit" /\ q.op = req[r].op /\ q.fields = req[r].fields
      BY <1>0 DEF RequestRecords
    <3> HIDE DEF q
    <3> QED
      BY <3>1, <3>2, GotoKeepsSigning
  <2> QED
    BY <1>8, <2>1, <2>2 DEF UpdateReview
<1>9. ASSUME NEW c \in ConsentIds, ExpireRow(r, c) PROVE SigningInv'
  <2> DEFINE events == <<<<c, "CONSENT_EXPIRED">>>>
             q == [req[r] EXCEPT !.pc = "audit", !.todo = req[r].todo \ {c}, !.events = events]
  <2>1. req' = [req EXCEPT ![r] = q] /\ issued' = issued
    BY <1>9 DEF ExpireRow, TypeOK
  <2> HIDE DEF events
  <2>2. q.pc = "audit" /\ q.op = req[r].op /\ q.fields = req[r].fields
    BY <1>0 DEF RequestRecords
  <2> HIDE DEF q
  <2> QED
    BY <2>1, <2>2, GotoKeepsSigning
<1>10. CASE WriteAudit(r)
  <2> DEFINE rest == Tail(req[r].events)
             q == IF rest = <<>> THEN AfterAudit(r) ELSE [req[r] EXCEPT !.events = rest]
  <2>1. /\ req' = [req EXCEPT ![r] = q] /\ issued' = issued /\ req[r].pc = "audit"
    BY <1>10 DEF WriteAudit, TypeOK
  <2> HIDE DEF rest
  <2>2. q.pc \in {"audit", "review", "sweep", "done"}
    BY <2>1, <1>0 DEF AfterAudit, RequestRecords, Done, New
  <2> HIDE DEF q
  <2>3. Discloses(q) /\ q.pc # "reserved"
    BY <2>2 DEF Discloses
  <2> QED
    BY <2>1, <2>3, MoveKeepsSigning
<1>11. CASE FindNonePending(r)
  <2> DEFINE q == [req[r] EXCEPT !.pc = "nonePending", !.at = now]
  <2>1. req' = [req EXCEPT ![r] = q] /\ issued' = issued
    BY <1>11 DEF FindNonePending, TypeOK
  <2>2. q.pc = "nonePending" /\ q.op = req[r].op /\ q.fields = req[r].fields
    BY <1>0 DEF RequestRecords
  <2> HIDE DEF q
  <2> QED
    BY <2>1, <2>2, GotoKeepsSigning
<1>12. ASSUME NEW c \in ConsentIds, InsertReconsent(r, c) PROVE SigningInv'
  <2> DEFINE q == [New EXCEPT !.pc = "audit",
                              !.events = <<<<c, "PERIODIC_RECONSENT_REQUESTED">>>>]
  <2>1. q.pc = "audit" /\ q.op = "none"
    BY DEF New
  <2>2. req' = [req EXCEPT ![r] = q] /\ issued' = issued
    BY <1>12 DEF InsertReconsent, Owe
  <2> HIDE DEF q
  <2> QED
    BY <2>1, <2>2, NewKeepsSigning
<1> QED
  BY <1>1, <1>2, <1>3, <1>4, <1>5, <1>6, <1>7, <1>8, <1>9, <1>10, <1>11, <1>12 DEF Step

\* A request that reads its row, or the batch of its sweep, and one that inserts.
LEMMA BeginKeepsSigning ==
    ASSUME RefinementInv, NEW r \in Requests,
           \/ \E c \in ConsentIds, input \in CreateInputs : CreateConsent(r, c, input)
           \/ \E old, c \in ConsentIds : RenewConsent(r, old, c)
           \/ \E op \in {"approve", "reject"}, c \in ConsentIds, a \in Users,
                fields \in SUBSET Fields : ReadPending(r, op, c, a, fields)
           \/ \E c \in ConsentIds, a \in Users : ReadApproved(r, c, a)
           \/ \E op \in {"expire", "list"} : \E batch : ReadBatch(r, op, batch)
           \/ AskReconsent(r)
    PROVE  SigningInv'
<1>1. ASSUME NEW events, Owe(r, events), issued' = issued PROVE SigningInv'
  <2> DEFINE q == [New EXCEPT !.pc = "audit", !.events = events]
  <2>1. q.pc = "audit" /\ q.op = "none"
    BY DEF New
  <2>2. req' = [req EXCEPT ![r] = q]
    BY <1>1 DEF Owe
  <2> HIDE DEF q
  <2> QED
    BY <1>1, <2>1, <2>2, NewKeepsSigning
<1>2. ASSUME NEW op \in {"approve", "reject"}, NEW c \in ConsentIds, NEW a \in Users,
             NEW fields \in SUBSET Fields, ReadPending(r, op, c, a, fields)
      PROVE  SigningInv'
  <2> DEFINE q == [New EXCEPT !.pc = "read", !.op = op, !.consent = c, !.actor = a,
                              !.fields = fields]
  <2>1. /\ req' = [req EXCEPT ![r] = q] /\ issued' = issued
        /\ op = "approve" => fields # {}
    BY <1>2 DEF ReadPending
  <2>2. q.pc = "read" /\ q.op = op /\ q.fields = fields
    BY DEF New
  <2> HIDE DEF q
  <2> QED
    BY <2>1, <2>2, NewKeepsSigning
<1>3. ASSUME NEW c \in ConsentIds, NEW a \in Users, ReadApproved(r, c, a)
      PROVE  SigningInv'
  <2> DEFINE q == [New EXCEPT !.pc = "read", !.op = "revoke", !.consent = c, !.actor = a,
                              !.grant = consent[c].grant, !.approver = consent[c].approvedBy]
  <2>1. req' = [req EXCEPT ![r] = q] /\ issued' = issued
    BY <1>3 DEF ReadApproved
  <2>2. q.pc = "read" /\ q.op = "revoke"
    BY DEF New
  <2> HIDE DEF q
  <2> QED
    BY <2>1, <2>2, NewKeepsSigning
<1>4. ASSUME NEW op \in {"expire", "list"}, NEW batch, ReadBatch(r, op, batch) PROVE SigningInv'
  <2> DEFINE q == [New EXCEPT !.pc = "sweep", !.op = op, !.todo = batch]
  <2>2. q.pc = "sweep" /\ q.op # "approve" /\ req' = [req EXCEPT ![r] = q]
    BY <1>4 DEF New, ReadBatch
  <2> HIDE DEF q
  <2>3. issued' = issued
    BY <1>4 DEF ReadBatch
  <2> QED
    BY <2>2, <2>3, NewKeepsSigning
<1>5. ASSUME NEW c \in ConsentIds, NEW input \in CreateInputs, CreateConsent(r, c, input)
      PROVE  SigningInv'
  BY <1>1, <1>5 DEF CreateConsent
<1>6. ASSUME NEW old \in ConsentIds, NEW c \in ConsentIds, RenewConsent(r, old, c)
      PROVE  SigningInv'
  BY <1>1, <1>6 DEF RenewConsent
<1>7. CASE AskReconsent(r)
  <2> DEFINE q == [New EXCEPT !.pc = "asked", !.op = "reconsent"]
  <2>1. q.pc = "asked" /\ q.op # "approve"
    BY DEF New
  <2>2. req' = [req EXCEPT ![r] = q] /\ issued' = issued
    BY <1>7 DEF AskReconsent
  <2> HIDE DEF q
  <2> QED
    BY <2>1, <2>2, NewKeepsSigning
<1> QED
  BY <1>2, <1>3, <1>4, <1>5, <1>6, <1>7

LEMMA NextKeepsSigning == RefinementInv /\ [Next]_vars => SigningInv'
<1> SUFFICES ASSUME RefinementInv, [Next]_vars PROVE SigningInv'
  OBVIOUS
<1>1. CASE UNCHANGED <<req, issued>>
  BY <1>1 DEF RefinementInv, SigningInv, Discloses
<1>2. CASE Create \/ Renew \/ \E r \in Requests : \/ ReadExpireDue(r) \/ ListConsents(r)
                                                  \/ AskReconsent(r)
  BY <1>2, BeginKeepsSigning DEF Create, Renew, ReadExpireDue, ListConsents
<1>3. CASE Decide
  <2>1. {} \in SUBSET Fields
    OBVIOUS
  <2> QED
    BY <1>3, <2>1, BeginKeepsSigning DEF Decide
<1>4. ASSUME NEW r \in Requests, Step(r) PROVE SigningInv'
  BY <1>4, StepKeepsSigning
<1>5. ASSUME NEW r \in Requests, Fail(r) PROVE SigningInv'
  BY <1>5, FinishKeepsSigning DEF Fail
<1> QED
  BY <1>1, <1>2, <1>3, <1>4, <1>5 DEF Next, Tick, ChangeToken, Delegate, RevokeDelegation,
                                      RequireReconsent, vars
-----------------------------------------------------------------------------
(* What fi-service sees of a step                                          *)

LEMMA StepInvisible ==
    ASSUME UNCHANGED <<now, consent, issued>>
    PROVE  UNCHANGED views
BY DEF views, TermsView, StatusView, IssuedView, Exists

\* Inserting a row opens a consent.
LEMMA InsertOpens ==
    ASSUME ConsentInv, NEW c \in ConsentIds, ~Exists(c), NEW row \in Rows,
           row.status = "PENDING", NEW lifetime,
           lifetime \in {input.ttl : input \in CreateInputs} \cup {DefaultTtl}
                          \cup {ReconsentTtl - late : late \in 0 .. MaxTime},
           row.expiresAt = now + lifetime,
           consent' = [consent EXCEPT ![c] = row], UNCHANGED <<now, issued>>
    PROVE  Issuing!Next
<1>1. /\ consent'[c] = row
      /\ \A d \in ConsentIds \ {c} : consent'[d] = consent[d]
  BY DEF ConsentInv, TypeOK
<1>2. StatusView[c] = "ABSENT"
  BY DEF StatusView, Exists
<1>3. StatusView' = [StatusView EXCEPT ![c] = "PENDING"]
  <2>1. \A d \in ConsentIds : consent'[d].status = IF d = c THEN "PENDING" ELSE consent[d].status
    BY <1>1
  <2> QED
    BY <2>1 DEF StatusView
<1>4. TermsView' = [TermsView EXCEPT ![c] = [agreed |-> Agreed(row),
                                             expiresAt |-> now + lifetime]]
  <2>1. Exists(c)' /\ \A d \in ConsentIds \ {c} : Exists(d)' <=> Exists(d)
    BY <1>1 DEF Exists
  <2> QED
    BY <1>1, <2>1 DEF TermsView
<1>5. IssuedView' = IssuedView
  BY DEF IssuedView
<1>6. Agreed(row) \in [purpose: Purposes \cup {PeriodicUpdate}, requested: SUBSET Fields,
                       token: TokenIds \cup {NoToken}]
  BY DEF Agreed, Rows
<1>6a. now + lifetime \in Nat
  BY DEF Rows
<1>7. Issuing!Open(c, Agreed(row), lifetime)
  BY <1>2, <1>3, <1>4, <1>5, <1>6a DEF Issuing!Open, StatusView, TermsView, IssuedView, Shown
<1> QED
  BY <1>6, <1>7 DEF Issuing!Next

LEMMA CreateOpens ==
    ASSUME ConsentInv, NEW r \in Requests, NEW c \in ConsentIds, NEW input \in CreateInputs,
           CreateConsent(r, c, input)
    PROVE  Issuing!Next
<1> DEFINE row == NewRow(input, activeToken, now + input.ttl, NoConsent)
<1>1. /\ input \in Inputs /\ activeToken \in TokenIds /\ now + input.ttl \in Nat
      /\ ~Exists(c)
  BY ConsentAssumption DEF CreateConsent, ConsentInv, TypeOK, Inputs
<1>2. row \in Rows /\ row.status = "PENDING"
  BY <1>1, NewRowTyped DEF Inputs
<1>3. row.expiresAt = now + input.ttl
  BY DEF NewRow, NoRow
<1>4. consent' = [consent EXCEPT ![c] = row] /\ UNCHANGED <<now, issued>>
  BY DEF CreateConsent, Insert
<1> HIDE DEF row
<1> QED
  BY <1>1, <1>2, <1>3, <1>4, InsertOpens

LEMMA RenewOpens ==
    ASSUME ConsentInv, NEW r \in Requests, NEW old \in ConsentIds, NEW c \in ConsentIds,
           RenewConsent(r, old, c)
    PROVE  Issuing!Next
<1> DEFINE row == NewRow(consent[old], consent[old].token, now + DefaultTtl, old)
<1>1. /\ consent[old] \in Rows /\ consent[old].token \in TokenIds
      /\ now + DefaultTtl \in Nat /\ ~Exists(c)
  BY ConsentAssumption DEF RenewConsent, ConsentInv, TypeOK, RowInv
<1>2. row \in Rows /\ row.status = "PENDING"
  BY <1>1, NewRowTyped DEF Rows
<1>3. row.expiresAt = now + DefaultTtl
  BY DEF NewRow, NoRow
<1>4. consent' = [consent EXCEPT ![c] = row] /\ UNCHANGED <<now, issued>>
  BY DEF RenewConsent, Insert
<1> HIDE DEF row
<1> QED
  BY <1>1, <1>2, <1>3, <1>4, InsertOpens

\* What the wallet inserts ends a re-consent's life after the clock was read.
LEMMA ReconsentOpens ==
    ASSUME ConsentInv, NEW r \in Requests, NEW c \in ConsentIds, InsertReconsent(r, c)
    PROVE  Issuing!Next
<1> DEFINE late == now - req[r].at
<1>1. req[r].at \in 0 .. now /\ now \in 0 .. MaxTime
  BY ReconsentRowTyped DEF ConsentInv, TypeOK
<1>2. late \in 0 .. MaxTime /\ req[r].at + ReconsentTtl = now + (ReconsentTtl - late)
  BY <1>1, ConsentAssumption
<1>3. ~Exists(c) /\ UNCHANGED <<now, issued>>
  BY DEF InsertReconsent
<1> HIDE DEF late
<1> QED
  BY <1>2, <1>3, ReconsentRowTyped, InsertOpens

\* Writing the status of a row, with terms as they were, settles a consent.
LEMMA WriteSettles ==
    ASSUME ConsentInv, NEW c \in ConsentIds, Exists(c), NEW row,
           Agreed(row) = Agreed(consent[c]), row.expiresAt = consent[c].expiresAt,
           row.status \in {"APPROVED", "REJECTED", "REVOKED", "EXPIRED"},
           row.status \in {"APPROVED", "REVOKED"} => \E a \in issued : a.consent = c,
           consent' = [consent EXCEPT ![c] = row], UNCHANGED <<now, issued>>
    PROVE  Issuing!Next
<1>1. /\ consent'[c] = row
      /\ \A d \in ConsentIds \ {c} : consent'[d] = consent[d]
  BY DEF ConsentInv, TypeOK
<1>2. StatusView[c] # "ABSENT"
  BY DEF StatusView, Exists
<1>3. StatusView' = [StatusView EXCEPT ![c] = row.status]
  <2>1. \A d \in ConsentIds : consent'[d].status = IF d = c THEN row.status ELSE consent[d].status
    BY <1>1
  <2> QED
    BY <2>1 DEF StatusView
<1>4. TermsView' = TermsView
  <2>1. \A d \in ConsentIds : Exists(d)' <=> Exists(d)
    BY <1>1 DEF Exists
  <2> QED
    BY <1>1, <2>1 DEF TermsView
<1>5. IssuedView' = IssuedView
  BY DEF IssuedView
<1>6. row.status \in {"APPROVED", "REVOKED"} => \E a \in IssuedView : a.consent = c
  <2> SUFFICES ASSUME NEW a \in issued, a.consent = c
               PROVE  \E b \in IssuedView : b.consent = c
    OBVIOUS
  <2>1. Shown(a) \in IssuedView /\ Shown(a).consent = c
    BY DEF IssuedView, Shown
  <2> QED
    BY <2>1
<1>7. Issuing!Settle(c, row.status)
  BY <1>2, <1>3, <1>4, <1>5, <1>6 DEF Issuing!Settle, StatusView, TermsView, IssuedView, Shown
<1> QED
  BY <1>7 DEF Issuing!Next

LEMMA ApprovalSettles ==
    ASSUME ConsentInv, NEW r \in Requests, WriteApproval(r)
    PROVE  Issuing!Next
<1> USE DEF ConsentInv
<1>1. PICK c \in ConsentIds : c = req[r].consent /\ Exists(c)
  BY DEF RequestInv, Sound, HasConsent, WriteApproval
<1> DEFINE row == [consent[c] EXCEPT !.status = "APPROVED", !.approvedBy = req[r].actor,
                                     !.grant = req[r].grant, !.jti = req[r].jti,
                                     !.approvedFields = req[r].fields]
<1>2. consent[c] \in Rows /\ \E a \in issued : a.consent = c
  BY <1>1 DEF TypeOK, RequestInv, Sound, WriteApproval
<1>3. consent' = [consent EXCEPT ![c] = row] /\ UNCHANGED <<now, issued>>
  BY <1>1 DEF WriteApproval, TypeOK
<1>4. /\ row.status = "APPROVED" /\ row.expiresAt = consent[c].expiresAt
      /\ Agreed(row) = Agreed(consent[c])
  BY <1>2 DEF Agreed, Rows
<1> HIDE DEF row
<1> QED
  BY <1>1, <1>2, <1>3, <1>4, WriteSettles

\* A request to revoke has read a row that shows an assertion.
LEMMA DenialSettles ==
    ASSUME ConsentInv, NEW r \in Requests, WriteDenial(r)
    PROVE  Issuing!Next
<1> USE DEF ConsentInv
<1>1. PICK c \in ConsentIds : c = req[r].consent /\ Exists(c)
  BY DEF RequestInv, Sound, HasConsent, WriteDenial
<1> DEFINE status == IF req[r].op = "reject" THEN "REJECTED" ELSE "REVOKED"
           row == [consent[c] EXCEPT !.status = status, !.approvedBy = req[r].actor]
<1>2. /\ consent[c] \in Rows
      /\ req[r].op = "revoke" => \E a \in issued : a.consent = c
  BY ZenonT(30), <1>1 DEF TypeOK, RequestInv, Sound, WriteDenial, RowShowsAnAssertion
<1>3. consent' = [consent EXCEPT ![c] = row] /\ UNCHANGED <<now, issued>>
  BY <1>1 DEF WriteDenial, TypeOK
<1>4. /\ status \in {"REJECTED", "REVOKED"}
      /\ status = "REVOKED" => req[r].op = "revoke"
  BY DEF WriteDenial
<1> HIDE DEF status
<1>5. /\ row.status = status /\ row.expiresAt = consent[c].expiresAt
      /\ Agreed(row) = Agreed(consent[c])
  BY <1>2 DEF Agreed, Rows
<1> HIDE DEF row
<1> QED
  BY <1>1, <1>2, <1>3, <1>4, <1>5, WriteSettles

LEMMA ExpirySettles ==
    ASSUME ConsentInv, NEW r \in Requests, NEW c \in ConsentIds, ExpireRow(r, c)
    PROVE  Issuing!Next
<1> USE DEF ConsentInv
<1> DEFINE row == [consent[c] EXCEPT !.status = "EXPIRED"]
<1>1. Exists(c) /\ consent[c] \in Rows
  BY DEF RequestInv, Sound, ExpireRow, TypeOK
<1>2. consent' = [consent EXCEPT ![c] = row] /\ UNCHANGED <<now, issued>>
  BY DEF ExpireRow, TypeOK
<1>3. /\ row.status = "EXPIRED" /\ row.expiresAt = consent[c].expiresAt
      /\ Agreed(row) = Agreed(consent[c])
  BY <1>1 DEF Agreed, Rows
<1> HIDE DEF row
<1> QED
  BY <1>1, <1>2, <1>3, WriteSettles

\* Signing issues an assertion that is new, within the request and not empty.
LEMMA SigningIssues ==
    ASSUME RefinementInv, NEW r \in Requests, SignAssertion(r)
    PROVE  Issuing!Next
<1> USE DEF RefinementInv, ConsentInv
<1>1. PICK c \in ConsentIds : c = req[r].consent /\ Exists(c)
  BY DEF RequestInv, Sound, HasConsent, SignAssertion
<1> DEFINE a == [consent |-> c, jti |-> req[r].jti, scope |-> req[r].fields,
                 grant |-> req[r].grant, token |-> consent[c].token,
                 iat |-> now, exp |-> now + AssertionTtl]
           b == [consent |-> c, jti |-> req[r].jti, scope |-> req[r].fields,
                 exp |-> now + AssertionTtl]
<1>2. /\ issued' = issued \cup {a} /\ UNCHANGED <<now, consent>>
      /\ req[r].pc = "reserved" /\ req[r].op = "approve"
  BY <1>1 DEF SignAssertion, tables, RequestInv, Sound
<1>3. /\ req[r].fields # {}
      /\ req[r].fields \subseteq consent[c].requested
      /\ \A i \in issued : i.consent = c => i.jti # req[r].jti
  <2>1. Mandate(c, req[r].fields, req[r].grant)
    BY <1>1, <1>2 DEF RequestInv, Sound
  <2> QED
    BY <1>1, <1>2, <2>1 DEF SigningInv, Discloses, Mandate
<1>4. Shown(a) = b
  BY DEF Shown
<1>5. b.consent = c /\ b.jti = req[r].jti /\ b.scope = req[r].fields
      /\ b = Issuing!Assertion(c, req[r].jti, req[r].fields)
  BY DEF Issuing!Assertion
<1> HIDE DEF a, b
<1>6. IssuedView' = IssuedView \cup {b}
  BY <1>2, <1>4 DEF IssuedView, Shown
<1>7. \A i \in IssuedView : i.consent = c => i.jti # req[r].jti
  BY <1>3 DEF IssuedView, Shown
<1>8. b \notin IssuedView
  BY <1>5, <1>7
<1>9. /\ StatusView[c] # "ABSENT" /\ StatusView' = StatusView
      /\ TermsView[c].agreed.requested = consent[c].requested /\ TermsView' = TermsView
  BY <1>1, <1>2 DEF StatusView, TermsView, Agreed, Exists
<1>10. PICK d : d = b
  OBVIOUS
<1>11. /\ d \notin IssuedView
       /\ d = Issuing!Assertion(d.consent, d.jti, d.scope)
       /\ StatusView[d.consent] # "ABSENT"
       /\ d.scope # {}
       /\ d.scope \subseteq TermsView[d.consent].agreed.requested
       /\ \A i \in IssuedView : i.consent = d.consent => i.jti # d.jti
       /\ IssuedView' = IssuedView \cup {d}
       /\ UNCHANGED <<now, TermsView, StatusView>>
  BY <1>2, <1>3, <1>5, <1>6, <1>7, <1>8, <1>9, <1>10
<1>12. Issuing!Issue(d)
  BY <1>11 DEF Issuing!Issue, IssuedView, Shown, TermsView, StatusView
<1>13. d \in IssuedView'
  BY <1>11
<1> QED
  BY <1>12, <1>13 DEF Issuing!Next, IssuedView, Shown

-----------------------------------------------------------------------------
(* The refinement                                                          *)

LEMMA InitIssues == Init => Issuing!Init
BY DEF Init, Issuing!Init, Exists, NoRow

\* Creating, signing and writing a status are the steps fi-service sees.
LEMMA NextIssues == RefinementInv /\ [Next]_vars => [Issuing!Next]_views
<1> SUFFICES ASSUME RefinementInv, [Next]_vars
             PROVE  Issuing!Next \/ UNCHANGED views
  OBVIOUS
<1> USE DEF RefinementInv
<1>1. CASE UNCHANGED <<now, consent, issued>>
  BY <1>1, StepInvisible
<1>2. CASE Tick
  <2>1. now' = now + 1 /\ UNCHANGED <<consent, issued>>
    BY <1>2 DEF Tick, tables
  <2>2. UNCHANGED <<TermsView, StatusView, IssuedView>>
    BY <2>1 DEF TermsView, StatusView, IssuedView, Exists
  <2>3. Issuing!Tick
    BY <2>1, <2>2 DEF Issuing!Tick, TermsView, StatusView, IssuedView, Shown
  <2> QED
    BY <2>3 DEF Issuing!Next
<1>3. CASE Create \/ Renew
  BY <1>3, CreateOpens, RenewOpens DEF Create, Renew
<1>4. ASSUME NEW r \in Requests, Step(r)
      PROVE  Issuing!Next \/ UNCHANGED <<now, consent, issued>>
  <2>1. CASE SignAssertion(r)
    BY <2>1, SigningIssues
  <2>2. CASE WriteApproval(r) \/ WriteDenial(r) \/ \E c \in ConsentIds : ExpireRow(r, c)
    BY <2>2, ApprovalSettles, DenialSettles, ExpirySettles
  <2>3. CASE \/ \E d \in 0 .. MaxGrants : Authorise(r, d)
             \/ CheckToken(r) \/ ReserveNonce(r) \/ Refuse(r) \/ UpdateReview(r) \/ WriteAudit(r)
             \/ FindNonePending(r)
    BY <2>3 DEF Authorise, CheckToken, ReserveNonce, Refuse, UpdateReview, WriteAudit,
                FindNonePending, tables
  <2>4. CASE \E c \in ConsentIds : InsertReconsent(r, c)
    BY <2>4, ReconsentOpens
  <2> QED
    BY <1>4, <2>1, <2>2, <2>3, <2>4 DEF Step
<1> QED
  BY ZenonT(30), <1>1, <1>2, <1>3, <1>4 DEF Next, Decide, ChangeToken, Delegate, RevokeDelegation,
     RequireReconsent, ReadPending, ReadApproved, ReadExpireDue, ListConsents,
     ReadBatch, AskReconsent, Fail, vars, tables

\* Whatever requests overlap, fail half way or come again, fi-service meets
\* consents whose terms never change, assertions with a jti of their own that
\* disclose some of what was asked for, and no consent that is APPROVED or
\* REVOKED without an assertion.
THEOREM ConsentImplementsIssuing == Spec => ImplementsIssuing
<1>1. Init => RefinementInv
  <2>1. Init => SigningInv
    BY DEF Init, SigningInv, Discloses, New
  <2> QED
    BY <2>1, InitEstablishesInv DEF RefinementInv
<1>2. RefinementInv /\ [Next]_vars => RefinementInv'
  BY NextKeepsInv, NextKeepsSigning DEF RefinementInv
<1>3. Issuing!Spec <=> Issuing!Init /\ [][Issuing!Next]_views
  BY DEF Issuing!Spec, Issuing!vars, views, TermsView, StatusView, IssuedView, Shown
<1> QED
  BY <1>1, <1>2, <1>3, InitIssues, NextIssues, PTL DEF Spec, ImplementsIssuing

-----------------------------------------------------------------------------
(***************************************************************************)
(* The audit trail.  TrailIsComplete speaks of consents nobody is at work  *)
(* on.  What carries it there counts, for each consent and type of event,  *)
(* the events written and the requests that still owe one: together they   *)
(* are as many as the tables tell of.  A request that dies takes what it   *)
(* owes out of the account: what is left is no more than there is to tell. *)
(***************************************************************************)

\* The events a request has still to write.
EventsOf(q) ==
    {q.events[i] : i \in 1 .. Len(q.events)}
       \cup IF q.pc = "signed"
            THEN {<<q.consent, "CONSENT_APPROVED">>, <<q.consent, "ASSERTION_ISSUED">>}
            ELSE {}

Owes(q, c, e) == IF <<c, e>> \in EventsOf(q) THEN 1 ELSE 0

Owing(c, e) == {r \in Requests : <<c, e>> \in EventsOf(req[r])}

\* The events written and those owed are no more than the tables tell of, and as
\* many as long as no request died owing events of c.
Balanced(c, e) ==
    /\ IsFiniteSet(Owing(c, e))
    /\ trail[c][e] + Cardinality(Owing(c, e)) <= Told(c, e)
    /\ c \notin interrupted => trail[c][e] + Cardinality(Owing(c, e)) = Told(c, e)

Outcome(status) ==
    CASE status = "REJECTED" -> "CONSENT_REJECTED"
      [] status = "REVOKED" -> "CONSENT_REVOKED"
      [] OTHER -> "CONSENT_EXPIRED"

\* The trail tells of the status of the row, or somebody is about to.
IsTold(c) ==
    consent[c].status \in {"REJECTED", "REVOKED", "EXPIRED"} =>
        LET e == Outcome(consent[c].status)
        IN  trail[c][e] > 0 \/ Owing(c, e) # {}

\* No request owes an event twice, or before there is something to tell.
EventsOK(q) ==
    /\ q.pc \notin {"audit", "review"} \/ (q.pc = "review" /\ q.op = "revoke") => q.events = <<>>
    /\ \A i, j \in 1 .. Len(q.events) : q.events[i] = q.events[j] => i = j

TrailInv ==
    /\ \A r \in Requests : EventsOK(req[r])
    /\ \A c \in ConsentIds : ~Exists(c) => consent[c].renewedFrom = NoConsent
    /\ \A c \in ConsentIds : IsFiniteSet(IssuedOf(c))
    /\ \A c \in ConsentIds \ interrupted : IsTold(c)
    /\ \A c \in ConsentIds : \A e \in Counted : Balanced(c, e)

AccountInv == RefinementInv /\ TrailInv

-----------------------------------------------------------------------------
(* One request moves on, and the account stays balanced                    *)

LEMMA OwingAfter ==
    ASSUME TypeOK, NEW r \in Requests, NEW q, req' = [req EXCEPT ![r] = q], NEW c, NEW e
    PROVE  Owing(c, e)' = IF <<c, e>> \in EventsOf(q) THEN Owing(c, e) \cup {r}
                          ELSE Owing(c, e) \ {r}
<1>1. /\ req'[r] = q
      /\ \A s \in Requests : s # r => req'[s] = req[s]
  BY DEF TypeOK
<1>2. \A s \in Requests : <<c, e>> \in EventsOf(req'[s]) <=>
          IF s = r THEN <<c, e>> \in EventsOf(q) ELSE <<c, e>> \in EventsOf(req[s])
  BY <1>1
<1>3. Owing(c, e)' = {s \in Requests : <<c, e>> \in EventsOf(req'[s])}
  BY DEF Owing, EventsOf
<1> HIDE DEF EventsOf
<1> QED
  BY <1>2, <1>3 DEF Owing

LEMMA BalanceKept ==
    ASSUME TypeOK, TypeOK', NEW r \in Requests, NEW q, req' = [req EXCEPT ![r] = q],
           NEW c \in ConsentIds, NEW e \in Counted, Balanced(c, e),
           Told(c, e) \in Nat, Told(c, e)' \in Nat, interrupted \subseteq interrupted',
           \/ trail'[c][e] + Told(c, e) + Owes(q, c, e)
                  = trail[c][e] + Told(c, e)' + Owes(req[r], c, e)
           \/ /\ c \in interrupted'
              /\ trail'[c][e] + Told(c, e) + Owes(q, c, e)
                    <= trail[c][e] + Told(c, e)' + Owes(req[r], c, e)
    PROVE  Balanced(c, e)'
<1>1. Owing(c, e)' = IF <<c, e>> \in EventsOf(q) THEN Owing(c, e) \cup {r} ELSE Owing(c, e) \ {r}
  BY Zenon, OwingAfter
<1>2. r \in Owing(c, e) <=> <<c, e>> \in EventsOf(req[r])
  BY DEF Owing
<1>3. IsFiniteSet(Owing(c, e)) /\ Cardinality(Owing(c, e)) \in Nat
  BY FS_CardinalityType DEF Balanced
<1>4. /\ IsFiniteSet(Owing(c, e)')
      /\ Cardinality(Owing(c, e)') + Owes(req[r], c, e) = Cardinality(Owing(c, e)) + Owes(q, c, e)
  <2>1. CASE <<c, e>> \in EventsOf(q)
    <3>1. Owing(c, e)' = Owing(c, e) \cup {r}
      BY <1>1, <2>1
    <3>2. /\ IsFiniteSet(Owing(c, e) \cup {r})
          /\ Cardinality(Owing(c, e) \cup {r}) =
                IF r \in Owing(c, e) THEN Cardinality(Owing(c, e)) ELSE Cardinality(Owing(c, e)) + 1
      BY <1>3, FS_AddElement
    <3> HIDE DEF Owing
    <3> QED
      BY <1>2, <1>3, <2>1, <3>1, <3>2 DEF Owes
  <2>2. CASE <<c, e>> \notin EventsOf(q)
    <3>1. Owing(c, e)' = Owing(c, e) \ {r}
      BY <1>1, <2>2
    <3>2. /\ IsFiniteSet(Owing(c, e) \ {r})
          /\ Cardinality(Owing(c, e) \ {r}) =
                IF r \in Owing(c, e) THEN Cardinality(Owing(c, e)) - 1 ELSE Cardinality(Owing(c, e))
      BY <1>3, FS_RemoveElement
    <3> QED
      BY <1>2, <1>3, <2>2, <3>1, <3>2 DEF Owes
  <2> QED
    BY <2>1, <2>2
<1>5. trail[c][e] \in Nat /\ trail'[c][e] \in Nat
  <2>1. e \in EventTypes
    BY DEF Counted, EventTypes
  <2> QED
    BY <2>1 DEF TypeOK
<1>6. /\ trail[c][e] + Cardinality(Owing(c, e)) <= Told(c, e)
      /\ c \notin interrupted => trail[c][e] + Cardinality(Owing(c, e)) = Told(c, e)
  BY DEF Balanced
<1>7. Cardinality(Owing(c, e)') \in Nat
  BY <1>4, FS_CardinalityType
<1>8. Owes(q, c, e) \in {0, 1} /\ Owes(req[r], c, e) \in {0, 1}
  BY DEF Owes
<1>9. /\ trail'[c][e] + Cardinality(Owing(c, e)') <= Told(c, e)'
      /\ c \notin interrupted' => trail'[c][e] + Cardinality(Owing(c, e)') = Told(c, e)'
  BY <1>3, <1>4, <1>5, <1>6, <1>7, <1>8
<1> QED
  BY <1>4, <1>9 DEF Balanced

\* What is owed of an outcome is still owed, or written.
LEMMA ToldKept ==
    ASSUME TypeOK, TypeOK', NEW r \in Requests, NEW q, req' = [req EXCEPT ![r] = q],
           NEW c \in ConsentIds, IsTold(c), consent'[c].status = consent[c].status,
           \A e \in EventTypes : /\ trail'[c][e] >= trail[c][e]
                                 /\ <<c, e>> \in EventsOf(req[r]) =>
                                       <<c, e>> \in EventsOf(q) \/ trail'[c][e] > 0
    PROVE  IsTold(c)'
<1> SUFFICES ASSUME consent[c].status \in {"REJECTED", "REVOKED", "EXPIRED"}
             PROVE  LET e == Outcome(consent[c].status)
                    IN  trail'[c][e] > 0 \/ Owing(c, e)' # {}
  BY DEF IsTold
<1>1. PICK e \in EventTypes : e = Outcome(consent[c].status)
  BY DEF Outcome, EventTypes
<1>2. trail[c][e] \in Nat /\ trail'[c][e] \in Nat /\ trail'[c][e] >= trail[c][e]
  <2>1. trail \in [ConsentIds -> [EventTypes -> Nat]] /\ trail' \in [ConsentIds -> [EventTypes -> Nat]]
    BY DEF TypeOK
  <2>2. trail'[c][e] >= trail[c][e]
    OBVIOUS
  <2> QED
    BY <2>1, <2>2
<1>3. trail[c][e] > 0 \/ Owing(c, e) # {}
  BY <1>1 DEF IsTold
<1>4. Owing(c, e)' = IF <<c, e>> \in EventsOf(q) THEN Owing(c, e) \cup {r} ELSE Owing(c, e) \ {r}
  BY Zenon, OwingAfter
<1>5. r \in Owing(c, e) => <<c, e>> \in EventsOf(req[r])
  BY DEF Owing
<1>6. trail'[c][e] > 0 \/ Owing(c, e)' # {}
  BY <1>2, <1>3, <1>4, <1>5
<1> QED
  BY <1>1, <1>6

LEMMA ToldIsNat ==
    ASSUME TypeOK, NEW c \in ConsentIds, NEW e \in Counted, IsFiniteSet(IssuedOf(c))
    PROVE  Told(c, e) \in Nat
<1>1. RenewalsOf(c) \subseteq ConsentIds
  BY DEF RenewalsOf
<1>2. IsFiniteSet(RenewalsOf(c))
  BY <1>1, FS_Subset, ConsentAssumption
<1>3. Cardinality(IssuedOf(c)) \in Nat /\ Cardinality(RenewalsOf(c)) \in Nat
  BY <1>2, FS_CardinalityType
<1> QED
  BY <1>3 DEF Told

\* What a step has to show of every consent.
Accounted(q, old, c) ==
    /\ \A e \in Counted :
          \/ trail'[c][e] + Told(c, e) + Owes(q, c, e) = trail[c][e] + Told(c, e)' + Owes(old, c, e)
          \/ /\ c \in interrupted'
             /\ trail'[c][e] + Told(c, e) + Owes(q, c, e)
                   <= trail[c][e] + Told(c, e)' + Owes(old, c, e)
    /\ \/ c \in interrupted'
       \/ IsTold(c)'
       \/ /\ consent'[c].status = consent[c].status
          /\ \A e \in EventTypes : /\ trail'[c][e] >= trail[c][e]
                                   /\ <<c, e>> \in EventsOf(old) =>
                                         <<c, e>> \in EventsOf(q) \/ trail'[c][e] > 0

LEMMA StepKeepsAccount ==
    ASSUME TypeOK, TypeOK', TrailInv, NEW r \in Requests, NEW q, req' = [req EXCEPT ![r] = q],
           EventsOK(q), interrupted \subseteq interrupted',
           \A c \in ConsentIds : ~Exists(c)' => consent'[c].renewedFrom = NoConsent,
           \A c \in ConsentIds : IsFiniteSet(IssuedOf(c))',
           \A c \in ConsentIds : Accounted(q, req[r], c)
    PROVE  TrailInv'
<1>1. \A s \in Requests : EventsOK(req'[s])
  BY DEF TypeOK, TrailInv
<1>2. ASSUME NEW c \in ConsentIds, NEW e \in Counted PROVE Balanced(c, e)'
  <2>1. Balanced(c, e) /\ Told(c, e) \in Nat
    BY ToldIsNat DEF TrailInv
  <2>2. Told(c, e)' \in Nat
    <3>1. RenewalsOf(c)' \subseteq ConsentIds
      BY DEF RenewalsOf
    <3>2. IsFiniteSet(RenewalsOf(c)') /\ IsFiniteSet(IssuedOf(c)')
      BY <3>1, FS_Subset, ConsentAssumption
    <3>3. Cardinality(IssuedOf(c)') \in Nat /\ Cardinality(RenewalsOf(c)') \in Nat
      BY <3>2, FS_CardinalityType
    <3> QED
      BY <3>3 DEF Told
  <2>3. \/ trail'[c][e] + Told(c, e) + Owes(q, c, e)
              = trail[c][e] + Told(c, e)' + Owes(req[r], c, e)
        \/ /\ c \in interrupted'
           /\ trail'[c][e] + Told(c, e) + Owes(q, c, e)
                 <= trail[c][e] + Told(c, e)' + Owes(req[r], c, e)
    BY DEF Accounted
  <2> QED
    BY <2>1, <2>2, <2>3, BalanceKept
<1>3. ASSUME NEW c \in ConsentIds \ interrupted' PROVE IsTold(c)'
  <2>1. IsTold(c) /\ Accounted(q, req[r], c) /\ c \in ConsentIds
    BY DEF TrailInv
  <2>2. CASE IsTold(c)'
    BY <2>2
  <2>3. CASE /\ consent'[c].status = consent[c].status
             /\ \A e \in EventTypes : /\ trail'[c][e] >= trail[c][e]
                                      /\ <<c, e>> \in EventsOf(req[r]) =>
                                            <<c, e>> \in EventsOf(q) \/ trail'[c][e] > 0
    BY <2>1, <2>3, ToldKept
  <2> QED
    BY <1>3, <2>1, <2>2, <2>3 DEF Accounted
<1> QED
  BY <1>1, <1>2, <1>3 DEF TrailInv, EventsOK, Counted

\* Steps that write nothing: the request owes what it owed.
LEMMA MoveKeepsAccount ==
    ASSUME TypeOK, TypeOK', TrailInv, NEW r \in Requests, NEW q, req' = [req EXCEPT ![r] = q],
           EventsOK(q), UNCHANGED <<consent, issued, trail, interrupted>>,
           EventsOf(q) = EventsOf(req[r])
    PROVE  TrailInv'
<1>1. ASSUME NEW c \in ConsentIds
      PROVE  /\ ~Exists(c)' => consent'[c].renewedFrom = NoConsent
             /\ IsFiniteSet(IssuedOf(c))'
  BY DEF TrailInv, Exists, IssuedOf
<1>2. ASSUME NEW c \in ConsentIds, NEW e \in Counted
      PROVE  trail'[c][e] + Told(c, e) + Owes(q, c, e)
                = trail[c][e] + Told(c, e)' + Owes(req[r], c, e)
  <2>1. Owes(q, c, e) = Owes(req[r], c, e)
    BY DEF Owes
  <2>2. Told(c, e)' = Told(c, e)
    BY DEF Told, Inserted, IssuedOf, RenewalsOf, Exists
  <2> QED
    BY <2>1, <2>2
<1>3. ASSUME NEW c \in ConsentIds, NEW e \in EventTypes
      PROVE  /\ trail'[c][e] >= trail[c][e]
             /\ <<c, e>> \in EventsOf(req[r]) => <<c, e>> \in EventsOf(q)
  BY DEF TypeOK
<1>4. \A c \in ConsentIds : Accounted(q, req[r], c)
  BY <1>2, <1>3 DEF Accounted
<1> QED
  BY <1>1, <1>4, StepKeepsAccount

-----------------------------------------------------------------------------
(* What the requests owe                                                   *)

\* The ways a request's events look like.
LEMMA OwesNothing ==
    ASSUME NEW q, q.events = <<>>, q.pc # "signed"
    PROVE  EventsOf(q) = {} /\ (q.pc \notin {"audit", "review"} => EventsOK(q))
           /\ (q.op = "revoke" => EventsOK(q))
BY DEF EventsOf, EventsOK

LEMMA OwesOne ==
    ASSUME NEW q, NEW x, q.events = <<x>>, q.pc = "audit"
    PROVE  EventsOf(q) = {x} /\ EventsOK(q)
BY DEF EventsOf, EventsOK

LEMMA OwesTwo ==
    ASSUME NEW q, NEW x, NEW y, q.events = <<x, y>>, x # y,
           q.pc = "audit" \/ (q.pc = "review" /\ q.op # "revoke")
    PROVE  EventsOf(q) = {x, y} /\ EventsOK(q)
<1>1. Len(q.events) = 2 /\ q.events[1] = x /\ q.events[2] = y
  OBVIOUS
<1>2. 1 .. Len(q.events) = {1, 2}
  BY <1>1
<1>3. q.pc # "signed"
  OBVIOUS
<1> QED
  BY <1>1, <1>2, <1>3 DEF EventsOf, EventsOK

\* Before it writes or signs, a request owes nothing.
LEMMA OwesNothingYet ==
    ASSUME TrailInv, NEW r \in Requests,
           req[r].pc \notin {"audit", "signed"}, req[r].pc = "review" => req[r].op = "revoke"
    PROVE  req[r].events = <<>> /\ EventsOf(req[r]) = {}
<1>1. EventsOK(req[r])
  BY DEF TrailInv
<1>2. req[r].events = <<>>
  BY <1>1 DEF EventsOK
<1> QED
  BY <1>2, OwesNothing

LEMMA SignedOwes ==
    ASSUME NEW q, q.events = <<>>, q.pc = "signed"
    PROVE  /\ EventsOf(q) = {<<q.consent, "CONSENT_APPROVED">>, <<q.consent, "ASSERTION_ISSUED">>}
           /\ EventsOK(q)
BY DEF EventsOf, EventsOK

\* Steps of a request that owes nothing, before and after.
LEMMA QuietKeepsAccount ==
    ASSUME TypeOK, TypeOK', TrailInv, NEW r \in Requests, NEW q, req' = [req EXCEPT ![r] = q],
           req[r].pc \notin {"audit", "signed"}, req[r].pc = "review" => req[r].op = "revoke",
           q.events = <<>>, q.pc \notin {"audit", "signed", "review"},
           UNCHANGED <<consent, issued, trail, interrupted>>
    PROVE  TrailInv'
<1>1. EventsOf(q) = EventsOf(req[r]) /\ EventsOK(q)
  BY OwesNothing, OwesNothingYet
<1> QED
  BY <1>1, MoveKeepsAccount

-----------------------------------------------------------------------------
(* The steps that write                                                    *)

\* One event is written: it moves from what is owed to the trail.
LEMMA WriteAuditKeepsAccount ==
    ASSUME ConsentInv, TypeOK', TrailInv, NEW r \in Requests, WriteAudit(r)
    PROVE  TrailInv'
<1> USE DEF ConsentInv
<1>1. PICK events \in Seq(ConsentIds \X EventTypes) : events = req[r].events /\ events # <<>>
  BY DEF TypeOK, RequestRecords, RequestInv, Sound, WriteAudit
<1>2. PICK h \in ConsentIds \X EventTypes : h = Head(events)
  BY <1>1
<1>3. PICK rest \in Seq(ConsentIds \X EventTypes) : rest = Tail(events)
  <2>1. Tail(events) \in Seq(ConsentIds \X EventTypes)
    BY <1>1
  <2> QED
    BY <2>1
<1>4. PICK q : /\ req' = [req EXCEPT ![r] = q]
               /\ q = IF rest = <<>> THEN AfterAudit(r) ELSE [req[r] EXCEPT !.events = rest]
  BY <1>1, <1>3 DEF WriteAudit
<1>5. req[r] \in RequestRecords /\ req[r].pc = "audit" /\ EventsOK(req[r])
  BY DEF TypeOK, WriteAudit, TrailInv
<1>6. /\ q.events = rest /\ q.pc # "signed"
      /\ q.pc \notin {"audit", "review"} \/ (q.pc = "review" /\ q.op = "revoke") => rest = <<>>
  <2>1. CASE rest = <<>>
    BY <2>1, <1>4, <1>5 DEF AfterAudit, RequestRecords, Done, New
  <2>2. CASE rest # <<>>
    BY <2>2, <1>4, <1>5 DEF RequestRecords
  <2> QED
    BY <2>1, <2>2
<1>7. /\ Len(rest) = Len(events) - 1 /\ Len(events) \in Nat
      /\ events[1] = h /\ \A i \in 1 .. Len(rest) : rest[i] = events[i + 1]
  BY <1>1, <1>2, <1>3
<1>8. \A i, j \in 1 .. Len(events) : events[i] = events[j] => i = j
  BY <1>1, <1>5 DEF EventsOK
<1>9. EventsOK(q)
  <2>1. ASSUME NEW i \in 1 .. Len(rest), NEW j \in 1 .. Len(rest), rest[i] = rest[j]
        PROVE  i = j
    <3>1. i + 1 \in 1 .. Len(events) /\ j + 1 \in 1 .. Len(events)
      BY <1>7
    <3>2. i + 1 = j + 1
      BY <2>1, <3>1, <1>7, <1>8
    <3> QED
      BY <3>2
  <2> QED
    BY <1>6, <2>1 DEF EventsOK
<1>10. EventsOf(req[r]) = {events[i] : i \in 1 .. Len(events)}
  BY <1>1, <1>5 DEF EventsOf
<1>11. EventsOf(q) = {rest[i] : i \in 1 .. Len(rest)}
  BY <1>6 DEF EventsOf
<1>12. h \in EventsOf(req[r]) /\ h \notin EventsOf(q)
  <2>1. 1 \in 1 .. Len(events)
    BY <1>1, <1>7
  <2> QED
    BY <2>1, <1>7, <1>8, <1>10, <1>11
<1>13. \A x : x # h => (x \in EventsOf(q) <=> x \in EventsOf(req[r]))
  <2>1. ASSUME NEW i \in 1 .. Len(rest) PROVE i + 1 \in 1 .. Len(events) /\ rest[i] = events[i + 1]
    BY <1>7
  <2>2. ASSUME NEW i \in 1 .. Len(events), events[i] # h
        PROVE  i - 1 \in 1 .. Len(rest) /\ rest[i - 1] = events[i]
    <3>1. i # 1
      BY <2>2, <1>7
    <3>2. i - 1 \in 1 .. Len(rest)
      BY <3>1, <1>7
    <3> QED
      BY <3>2, <1>7
  <2>3. ASSUME NEW x, x # h, x \in EventsOf(q) PROVE x \in EventsOf(req[r])
    BY <2>1, <2>3, <1>10, <1>11
  <2>4. ASSUME NEW x, x # h, x \in EventsOf(req[r]) PROVE x \in EventsOf(q)
    <3>1. PICK i \in 1 .. Len(events) : x = events[i]
      BY <2>4, <1>10
    <3> QED
      BY <2>2, <2>4, <3>1, <1>11
  <2> QED
    BY <2>3, <2>4
<1>14. PICK c \in ConsentIds, e \in EventTypes : h = <<c, e>>
  OBVIOUS
<1>15. UNCHANGED <<consent, issued, interrupted>> /\ trail' = [trail EXCEPT ![c][e] = @ + 1]
  <2>1. h[1] = c /\ h[2] = e
    BY <1>14
  <2> QED
    BY <2>1, <1>1, <1>2 DEF WriteAudit
<1>16. /\ trail'[c][e] = trail[c][e] + 1
       /\ \A d \in ConsentIds, f \in EventTypes : trail[d][f] \in Nat
       /\ \A d \in ConsentIds, f \in EventTypes :
             <<d, f>> # <<c, e>> => trail'[d][f] = trail[d][f]
  <2>1. trail \in [ConsentIds -> [EventTypes -> Nat]]
    BY DEF TypeOK
  <2>2. \A d \in ConsentIds, f \in EventTypes :
           trail'[d][f] = IF d = c /\ f = e THEN trail[c][e] + 1 ELSE trail[d][f]
    BY <2>1, <1>15
  <2> QED
    BY <2>1, <2>2
<1>17. ASSUME NEW d \in ConsentIds, NEW f \in Counted
       PROVE  trail'[d][f] + Told(d, f) + Owes(q, d, f)
                 = trail[d][f] + Told(d, f)' + Owes(req[r], d, f)
  <2>1. f \in EventTypes
    BY DEF Counted, EventTypes
  <2>2. Told(d, f)' = Told(d, f)
    BY <1>15 DEF Told, Inserted, IssuedOf, RenewalsOf, Exists
  <2>3. Told(d, f) \in Nat
    BY ToldIsNat DEF TrailInv
  <2>4. CASE <<d, f>> = <<c, e>>
    <3>1. Owes(q, d, f) = 0 /\ Owes(req[r], d, f) = 1
      BY <2>4, <1>12, <1>14 DEF Owes
    <3>2. trail'[d][f] = trail[d][f] + 1 /\ trail[d][f] \in Nat
      BY <2>1, <2>4, <1>16
    <3> QED
      BY <2>2, <2>3, <3>1, <3>2
  <2>5. CASE <<d, f>> # <<c, e>>
    <3>1. Owes(q, d, f) = Owes(req[r], d, f)
      BY <2>5, <1>13, <1>14 DEF Owes
    <3>2. trail'[d][f] = trail[d][f]
      BY <2>1, <2>5, <1>16
    <3> QED
      BY <2>2, <3>1, <3>2
  <2> QED
    BY <2>4, <2>5
<1>18. ASSUME NEW d \in ConsentIds, NEW f \in EventTypes
       PROVE  /\ trail'[d][f] >= trail[d][f]
              /\ <<d, f>> \in EventsOf(req[r]) => <<d, f>> \in EventsOf(q) \/ trail'[d][f] > 0
  <2>1. CASE <<d, f>> = <<c, e>>
    BY <2>1, <1>16
  <2>2. CASE <<d, f>> # <<c, e>>
    BY <2>2, <1>13, <1>14, <1>16
  <2> QED
    BY <2>1, <2>2
<1>19. \A d \in ConsentIds : Accounted(q, req[r], d)
  BY <1>15, <1>17, <1>18 DEF Accounted
<1>20. ASSUME NEW d \in ConsentIds
       PROVE  /\ ~Exists(d)' => consent'[d].renewedFrom = NoConsent
              /\ IsFiniteSet(IssuedOf(d))'
  BY <1>15 DEF TrailInv, Exists, IssuedOf
<1> QED
  BY <1>4, <1>9, <1>15, <1>19, <1>20, StepKeepsAccount

\* A row that exists is written; what the tables count stays.
LEMMA RowStepKeepsAccount ==
    ASSUME TypeOK, TypeOK', TrailInv, NEW r \in Requests, NEW q, req' = [req EXCEPT ![r] = q],
           NEW c \in ConsentIds, NEW row, consent' = [consent EXCEPT ![c] = row],
           Exists(c), row.status # "ABSENT", row.renewedFrom = consent[c].renewedFrom,
           row.insertedBy = consent[c].insertedBy,
           UNCHANGED <<issued, trail, interrupted>>, EventsOK(q),
           EventsOf(req[r]) \subseteq EventsOf(q),
           \A d \in ConsentIds, e \in Counted :
              <<d, e>> \in EventsOf(q) => <<d, e>> \in EventsOf(req[r]),
           row.status \in {"REJECTED", "REVOKED", "EXPIRED"}
              => <<c, Outcome(row.status)>> \in EventsOf(q)
    PROVE  TrailInv'
<1>1. /\ consent'[c] = row
      /\ \A d \in ConsentIds : d # c => consent'[d] = consent[d]
      /\ \A d \in ConsentIds : consent'[d].renewedFrom = consent[d].renewedFrom
  BY DEF TypeOK
<1>2. /\ \A d \in ConsentIds : Exists(d)' <=> Exists(d)
      /\ \A d \in ConsentIds : consent'[d].insertedBy = consent[d].insertedBy
  BY <1>1 DEF Exists
<1>3. ASSUME NEW d \in ConsentIds
      PROVE  /\ ~Exists(d)' => consent'[d].renewedFrom = NoConsent
             /\ IsFiniteSet(IssuedOf(d))'
  BY <1>1, <1>2 DEF TrailInv, IssuedOf
<1>4. ASSUME NEW d \in ConsentIds, NEW e \in Counted
      PROVE  trail'[d][e] + Told(d, e) + Owes(q, d, e)
                = trail[d][e] + Told(d, e)' + Owes(req[r], d, e)
  <2>1. Owes(q, d, e) = Owes(req[r], d, e)
    BY DEF Owes
  <2>2. IssuedOf(d)' = IssuedOf(d) /\ RenewalsOf(d)' = RenewalsOf(d)
    BY <1>1 DEF IssuedOf, RenewalsOf
  <2>3. Told(d, e)' = Told(d, e)
    BY <1>2, <2>2 DEF Told, Inserted
  <2> QED
    BY <2>1, <2>3
<1>5. ASSUME NEW d \in ConsentIds, NEW e \in EventTypes
      PROVE  trail'[d][e] >= trail[d][e]
  <2>1. trail[d][e] \in Nat
    BY DEF TypeOK
  <2> QED
    BY <2>1
<1>6. IsTold(c)'
  <2> SUFFICES ASSUME row.status \in {"REJECTED", "REVOKED", "EXPIRED"}
               PROVE  LET e == Outcome(row.status)
                      IN  trail'[c][e] > 0 \/ Owing(c, e)' # {}
    BY <1>1 DEF IsTold
  <2>1. PICK e \in EventTypes : e = Outcome(row.status)
    BY DEF Outcome, EventTypes
  <2>2. Owing(c, e)' = Owing(c, e) \cup {r}
    BY <2>1, OwingAfter
  <2> QED
    BY <2>1, <2>2
<1>7. \A d \in ConsentIds : Accounted(q, req[r], d)
  BY <1>1, <1>4, <1>5, <1>6 DEF Accounted
<1> QED
  BY <1>3, <1>7, StepKeepsAccount

\* A new row is owed the event of its writer, and one of the consent it renews.
LEMMA InsertKeepsAccount ==
    ASSUME TypeOK, TypeOK', TrailInv, NEW r \in Requests, NEW q, req' = [req EXCEPT ![r] = q],
           EventsOf(req[r]) = {}, NEW c \in ConsentIds, ~Exists(c), NEW row,
           NEW old \in ConsentIds \cup {NoConsent},
           consent' = [consent EXCEPT ![c] = row],
           row.status = "PENDING", row.renewedFrom = old,
           NEW first, \/ row.insertedBy = "consent-manager" /\ first = "CONSENT_CREATED"
                      \/ row.insertedBy = "wallet-service"
                            /\ first = "PERIODIC_RECONSENT_REQUESTED",
           UNCHANGED <<issued, trail, interrupted>>, EventsOK(q),
           EventsOf(q) = IF old = NoConsent THEN {<<c, first>>}
                         ELSE {<<old, "CONSENT_RENEWED">>, <<c, first>>}
    PROVE  TrailInv'
<1>1. /\ consent'[c] = row
      /\ \A d \in ConsentIds : d # c => consent'[d] = consent[d]
  BY DEF TypeOK
<1>2. consent[c].renewedFrom = NoConsent /\ NoConsent \notin ConsentIds
  BY ConsentAssumption DEF TrailInv
<1>3. first \in {"CONSENT_CREATED", "PERIODIC_RECONSENT_REQUESTED"}
  OBVIOUS
<1>4. ASSUME NEW d \in ConsentIds
      PROVE  /\ ~Exists(d)' => consent'[d].renewedFrom = NoConsent
             /\ IsFiniteSet(IssuedOf(d))'
             /\ IssuedOf(d)' = IssuedOf(d)
  BY <1>1 DEF TrailInv, IssuedOf, Exists
<1>5. ASSUME NEW d \in ConsentIds, NEW e \in Counted
      PROVE  trail'[d][e] + Told(d, e) + Owes(q, d, e)
                = trail[d][e] + Told(d, e)' + Owes(req[r], d, e)
  <2>1. Owes(req[r], d, e) = 0
    BY DEF Owes
  <2>2. trail[d][e] \in Nat /\ trail'[d][e] = trail[d][e]
    <3>1. e \in EventTypes
      BY DEF Counted, EventTypes
    <3> QED
      BY <3>1 DEF TypeOK
  <2>3. Told(d, e) \in Nat
    BY ToldIsNat DEF TrailInv
  <2>4. CASE e \in {"CONSENT_APPROVED", "ASSERTION_ISSUED"}
    <3>1. Told(d, e)' = Told(d, e)
      BY <2>4, <1>4 DEF Told
    <3>2. Owes(q, d, e) = 0
      BY <2>4, <1>3 DEF Owes
    <3> QED
      BY <2>1, <2>2, <2>3, <3>1, <3>2
  <2>5. CASE e \in {"CONSENT_CREATED", "PERIODIC_RECONSENT_REQUESTED"}
    <3>1. CASE d = c /\ e = first
      <4>1. Told(d, e)' = 1 /\ Told(d, e) = 0
        BY <2>5, <3>1, <1>1 DEF Told, Inserted, Exists
      <4>2. Owes(q, d, e) = 1
        BY <2>5, <3>1 DEF Owes
      <4> QED
        BY <2>1, <2>2, <4>1, <4>2
    <3>2. CASE d # c \/ e # first
      <4>1. Told(d, e)' = Told(d, e)
        BY <2>5, <3>2, <1>1 DEF Told, Inserted, Exists
      <4>2. Owes(q, d, e) = 0
        BY <2>5, <3>2 DEF Owes
      <4> QED
        BY <2>1, <2>2, <2>3, <4>1, <4>2
    <3> QED
      BY <3>1, <3>2
  <2>6. CASE e = "CONSENT_RENEWED"
    <3>0. /\ RenewalsOf(d) \subseteq ConsentIds /\ IsFiniteSet(RenewalsOf(d))
          /\ c \notin RenewalsOf(d)
      <4>1. RenewalsOf(d) \subseteq ConsentIds
        BY DEF RenewalsOf
      <4>2. c \notin RenewalsOf(d)
        BY <1>2 DEF RenewalsOf
      <4> QED
        BY <4>1, <4>2, FS_Subset, ConsentAssumption
    <3>1. CASE d = old
      <4>1. RenewalsOf(d)' = RenewalsOf(d) \cup {c}
        BY <3>1, <1>1 DEF RenewalsOf
      <4>2. Cardinality(RenewalsOf(d)') = Cardinality(RenewalsOf(d)) + 1
        BY <3>0, <4>1, FS_AddElement
      <4>3. Told(d, e)' = Told(d, e) + 1
        BY <2>6, <4>2 DEF Told
      <4>4. Owes(q, d, e) = 1
        BY <2>6, <3>1, <1>2, <1>3 DEF Owes
      <4> QED
        BY <2>1, <2>2, <2>3, <4>3, <4>4
    <3>2. CASE d # old
      <4>1. RenewalsOf(d)' = RenewalsOf(d)
        BY <3>2, <3>0, <1>1 DEF RenewalsOf
      <4>2. Told(d, e)' = Told(d, e)
        BY <2>6, <4>1 DEF Told
      <4>3. Owes(q, d, e) = 0
        BY <2>6, <3>2, <1>3 DEF Owes
      <4> QED
        BY <2>1, <2>2, <2>3, <4>2, <4>3
    <3> QED
      BY <3>1, <3>2
  <2> QED
    BY <2>4, <2>5, <2>6 DEF Counted
<1>6. ASSUME NEW d \in ConsentIds, NEW e \in EventTypes
      PROVE  trail'[d][e] >= trail[d][e] /\ <<d, e>> \notin EventsOf(req[r])
  <2>1. trail[d][e] \in Nat
    BY DEF TypeOK
  <2> QED
    BY <2>1
<1>7. IsTold(c)'
  BY <1>1 DEF IsTold
<1>8. \A d \in ConsentIds : Accounted(q, req[r], d)
  BY <1>1, <1>5, <1>6, <1>7 DEF Accounted
<1> QED
  BY <1>4, <1>8, StepKeepsAccount

\* A new assertion is owed its two events.
LEMMA SignAssertionKeepsAccount ==
    ASSUME RefinementInv, TypeOK', TrailInv, NEW r \in Requests, SignAssertion(r)
    PROVE  TrailInv'
<1> USE DEF RefinementInv, ConsentInv
<1>1. /\ req[r] \in RequestRecords /\ req[r].pc = "reserved"
      /\ req[r].events = <<>> /\ EventsOf(req[r]) = {}
  BY OwesNothingYet DEF TypeOK, SignAssertion
<1>2. PICK c \in ConsentIds : c = req[r].consent
  BY DEF RequestInv, Sound, HasConsent, SignAssertion
<1>3. PICK q : /\ req' = [req EXCEPT ![r] = q] /\ q = [req[r] EXCEPT !.pc = "signed"]
  BY DEF SignAssertion, Goto, TypeOK
<1>4. q.pc = "signed" /\ q.consent = c /\ q.events = <<>>
  BY <1>1, <1>2, <1>3 DEF RequestRecords
<1>5. /\ EventsOf(q) = {<<c, "CONSENT_APPROVED">>, <<c, "ASSERTION_ISSUED">>}
      /\ EventsOK(q)
  BY <1>4, SignedOwes
<1>6. PICK new : /\ issued' = issued \cup {new} /\ new.consent = c /\ new.jti = req[r].jti
  <2> DEFINE signed == [consent |-> req[r].consent, jti |-> req[r].jti, scope |-> req[r].fields,
                        grant |-> req[r].grant, token |-> consent[req[r].consent].token,
                        iat |-> now, exp |-> now + AssertionTtl]
  <2>1. signed.consent = c /\ signed.jti = req[r].jti
    BY <1>2
  <2>2. issued' = issued \cup {signed}
    BY DEF SignAssertion
  <2> HIDE DEF signed
  <2> QED
    BY <2>1, <2>2
<1>7. new \notin issued
  BY <1>1, <1>2, <1>6 DEF SigningInv
<1>8. UNCHANGED <<consent, trail, interrupted>>
  BY DEF SignAssertion, tables
<1>9. ASSUME NEW d \in ConsentIds
      PROVE  /\ ~Exists(d)' => consent'[d].renewedFrom = NoConsent
             /\ IssuedOf(d)' = IF d = c THEN IssuedOf(d) \cup {new} ELSE IssuedOf(d)
             /\ IsFiniteSet(IssuedOf(d)')
             /\ Cardinality(IssuedOf(d)') = IF d = c THEN Cardinality(IssuedOf(d)) + 1
                                            ELSE Cardinality(IssuedOf(d))
  <2>1. IsFiniteSet(IssuedOf(d)) /\ new \notin IssuedOf(d)
    BY <1>7 DEF TrailInv, IssuedOf
  <2>2. IssuedOf(d)' = IF d = c THEN IssuedOf(d) \cup {new} ELSE IssuedOf(d)
    BY <1>6 DEF IssuedOf
  <2>3. IsFiniteSet(IssuedOf(d) \cup {new})
        /\ Cardinality(IssuedOf(d) \cup {new}) = Cardinality(IssuedOf(d)) + 1
    BY <2>1, FS_AddElement
  <2>4. ~Exists(d)' => consent'[d].renewedFrom = NoConsent
    BY <1>8 DEF TrailInv, Exists
  <2> QED
    BY <2>1, <2>2, <2>3, <2>4
<1>10. ASSUME NEW d \in ConsentIds, NEW e \in Counted
       PROVE  trail'[d][e] + Told(d, e) + Owes(q, d, e)
                 = trail[d][e] + Told(d, e)' + Owes(req[r], d, e)
  <2>1. Owes(req[r], d, e) = 0
    BY <1>1 DEF Owes
  <2>2. trail[d][e] \in Nat /\ trail'[d][e] = trail[d][e]
    <3>1. e \in EventTypes
      BY DEF Counted, EventTypes
    <3> QED
      BY <1>8, <3>1 DEF TypeOK
  <2>3. Told(d, e) \in Nat
    BY ToldIsNat DEF TrailInv
  <2>4. CASE d = c /\ e \in {"CONSENT_APPROVED", "ASSERTION_ISSUED"}
    <3>1. Told(d, e)' = Told(d, e) + 1
      BY <2>4, <1>9 DEF Told
    <3>2. Owes(q, d, e) = 1
      BY <2>4, <1>5 DEF Owes
    <3> QED
      BY <2>1, <2>2, <2>3, <3>1, <3>2
  <2>5. CASE ~(d = c /\ e \in {"CONSENT_APPROVED", "ASSERTION_ISSUED"})
    <3>1. Told(d, e)' = Told(d, e)
      BY <2>5, <1>8, <1>9 DEF Told, Inserted, Exists, RenewalsOf
    <3>2. Owes(q, d, e) = 0
      BY <2>5, <1>5 DEF Owes
    <3> QED
      BY <2>1, <2>2, <2>3, <3>1, <3>2
  <2> QED
    BY <2>4, <2>5
<1>11. ASSUME NEW d \in ConsentIds, NEW e \in EventTypes
       PROVE  trail'[d][e] >= trail[d][e]
  <2>1. trail[d][e] \in Nat
    BY DEF TypeOK
  <2> QED
    BY <2>1, <1>8
<1>12. \A d \in ConsentIds : Accounted(q, req[r], d)
  BY <1>1, <1>8, <1>10, <1>11 DEF Accounted
<1> QED
  BY <1>3, <1>5, <1>8, <1>9, <1>12, StepKeepsAccount

\* A request that dies is out of the account; the consents it owed are short of
\* its events from now on.
LEMMA FinishKeepsAccount ==
    ASSUME TypeOK, TypeOK', TrailInv, NEW r \in Requests, Finish(r),
           interrupted' = interrupted \cup OwedTo(r), UNCHANGED <<consent, issued, trail>>
    PROVE  TrailInv'
<1>1. PICK q : q = Done /\ req' = [req EXCEPT ![r] = q]
  BY DEF Finish
<1>2. EventsOf(q) = {} /\ EventsOK(q)
  <2>1. q.events = <<>> /\ q.pc = "done"
    BY <1>1 DEF Done, New
  <2> QED
    BY <2>1, OwesNothing
<1>3. ASSUME NEW c \in ConsentIds \ interrupted', NEW e
      PROVE  <<c, e>> \notin EventsOf(req[r])
  <2>1. c \notin OwedTo(r)
    OBVIOUS
  <2> QED
    BY <2>1 DEF OwedTo, EventsOf
<1>4. ASSUME NEW c \in ConsentIds, NEW e \in Counted
      PROVE  \/ trail'[c][e] + Told(c, e) + Owes(q, c, e)
                   = trail[c][e] + Told(c, e)' + Owes(req[r], c, e)
             \/ /\ c \in interrupted'
                /\ trail'[c][e] + Told(c, e) + Owes(q, c, e)
                      <= trail[c][e] + Told(c, e)' + Owes(req[r], c, e)
  <2>1. Told(c, e)' = Told(c, e) /\ Told(c, e) \in Nat
    <3>1. Told(c, e)' = Told(c, e)
      BY DEF Told, Inserted, IssuedOf, RenewalsOf, Exists
    <3> QED
      BY <3>1, ToldIsNat DEF TrailInv
  <2>2. trail'[c][e] = trail[c][e] /\ trail[c][e] \in Nat
    <3>1. e \in EventTypes
      BY DEF Counted, EventTypes
    <3> QED
      BY <3>1 DEF TypeOK
  <2>3. Owes(q, c, e) = 0 /\ Owes(req[r], c, e) \in {0, 1}
    BY <1>2 DEF Owes
  <2>4. c \notin interrupted' => Owes(req[r], c, e) = 0
    BY <1>3 DEF Owes
  <2> QED
    BY <2>1, <2>2, <2>3, <2>4
<1>5. ASSUME NEW c \in ConsentIds, NEW e \in EventTypes
      PROVE  trail'[c][e] >= trail[c][e]
  <2>1. trail[c][e] \in Nat
    BY DEF TypeOK
  <2> QED
    BY <2>1
<1>6. \A c \in ConsentIds : Accounted(q, req[r], c)
  BY <1>3, <1>4, <1>5 DEF Accounted
<1>7. ASSUME NEW d \in ConsentIds
      PROVE  /\ ~Exists(d)' => consent'[d].renewedFrom = NoConsent
             /\ IsFiniteSet(IssuedOf(d))'
  BY DEF TrailInv, Exists, IssuedOf
<1> QED
  BY <1>1, <1>2, <1>6, <1>7, StepKeepsAccount

\* The row shows the assertion; the two events are still owed.
LEMMA WriteApprovalKeepsAccount ==
    ASSUME ConsentInv, TypeOK', TrailInv, NEW r \in Requests, WriteApproval(r)
    PROVE  TrailInv'
<1> USE DEF ConsentInv
<1>1. PICK c \in ConsentIds : c = req[r].consent /\ Exists(c)
  BY DEF RequestInv, Sound, HasConsent, WriteApproval
<1>2. /\ req[r] \in RequestRecords /\ req[r].pc = "signed" /\ req[r].op = "approve"
      /\ EventsOK(req[r])
  BY DEF TypeOK, WriteApproval, RequestInv, Sound, TrailInv
<1>3. PICK events : events = <<<<c, "CONSENT_APPROVED">>, <<c, "ASSERTION_ISSUED">>>>
  OBVIOUS
<1>4. PICK pc \in {"review", "audit"} :
         pc = IF consent[c].purpose = PeriodicUpdate THEN "review" ELSE "audit"
  OBVIOUS
<1>5. PICK q : req' = [req EXCEPT ![r] = q] /\ q = [req[r] EXCEPT !.pc = pc, !.events = events]
  BY <1>1, <1>3, <1>4 DEF WriteApproval, TypeOK
<1>6. q.pc = pc /\ q.events = events /\ q.op = "approve"
  BY <1>2, <1>5 DEF RequestRecords
<1>7. EventsOf(q) = {<<c, "CONSENT_APPROVED">>, <<c, "ASSERTION_ISSUED">>} /\ EventsOK(q)
  <2>1. <<c, "CONSENT_APPROVED">> # <<c, "ASSERTION_ISSUED">>
    OBVIOUS
  <2> QED
    BY <2>1, <1>3, <1>6, OwesTwo
<1>8. EventsOf(req[r]) = {<<c, "CONSENT_APPROVED">>, <<c, "ASSERTION_ISSUED">>}
  <2>1. req[r].events = <<>>
    BY <1>2 DEF EventsOK
  <2> QED
    BY <2>1, <1>1, <1>2, SignedOwes
<1>9. PICK row : row = [consent[c] EXCEPT !.status = "APPROVED", !.approvedBy = req[r].actor,
                                          !.grant = req[r].grant, !.jti = req[r].jti,
                                          !.approvedFields = req[r].fields]
  OBVIOUS
<1>10. /\ row.status = "APPROVED" /\ row.renewedFrom = consent[c].renewedFrom
       /\ row.insertedBy = consent[c].insertedBy
  <2>1. consent[c] \in Rows
    BY DEF TypeOK
  <2> QED
    BY <1>9, <2>1 DEF Rows
<1>11. /\ consent' = [consent EXCEPT ![c] = row]
       /\ UNCHANGED <<issued, trail, interrupted>>
  BY <1>1, <1>9 DEF WriteApproval, TypeOK
<1> QED
  BY <1>1, <1>5, <1>7, <1>8, <1>10, <1>11, RowStepKeepsAccount

\* A row changes its outcome: the event of the new one is owed.
LEMMA OutcomeKeepsAccount ==
    ASSUME ConsentInv, TypeOK', TrailInv, NEW r \in Requests, NEW q, req' = [req EXCEPT ![r] = q],
           req[r].pc \in {"authorised", "sweep"},
           NEW c \in ConsentIds, Exists(c), NEW row, consent' = [consent EXCEPT ![c] = row],
           row.status \in {"REJECTED", "REVOKED", "EXPIRED"},
           row.renewedFrom = consent[c].renewedFrom, row.insertedBy = consent[c].insertedBy,
           q.pc = "audit", q.events = <<<<c, Outcome(row.status)>>>>,
           UNCHANGED <<issued, trail, interrupted>>
    PROVE  TrailInv'
<1>1. EventsOf(req[r]) = {}
  BY OwesNothingYet
<1>2. EventsOf(q) = {<<c, Outcome(row.status)>>} /\ EventsOK(q)
  BY OwesOne
<1>3. Outcome(row.status) \notin Counted
  BY DEF Outcome, Counted
<1>4. \A d \in ConsentIds, e \in Counted : <<d, e>> \notin EventsOf(q)
  BY <1>2, <1>3
<1> QED
  BY <1>1, <1>2, <1>4, RowStepKeepsAccount DEF ConsentInv

LEMMA WriteDenialKeepsAccount ==
    ASSUME ConsentInv, TypeOK', TrailInv, NEW r \in Requests, WriteDenial(r)
    PROVE  TrailInv'
<1> USE DEF ConsentInv
<1>1. PICK c \in ConsentIds : c = req[r].consent /\ Exists(c)
  BY DEF RequestInv, Sound, HasConsent, WriteDenial
<1>2. req[r] \in RequestRecords /\ req[r].pc = "authorised" /\ consent[c] \in Rows
  BY DEF TypeOK, WriteDenial
<1>3. PICK status : status = IF req[r].op = "reject" THEN "REJECTED" ELSE "REVOKED"
  OBVIOUS
<1>4. PICK events : events = <<<<c, Outcome(status)>>>>
  OBVIOUS
<1>5. Outcome(status) = IF req[r].op = "reject" THEN "CONSENT_REJECTED" ELSE "CONSENT_REVOKED"
  BY <1>3 DEF Outcome
<1>6. PICK q : req' = [req EXCEPT ![r] = q] /\ q = [req[r] EXCEPT !.pc = "audit", !.events = events]
  BY <1>1, <1>4, <1>5 DEF WriteDenial, TypeOK
<1>7. q.pc = "audit" /\ q.events = events
  BY <1>2, <1>6 DEF RequestRecords
<1>8. PICK row : row = [consent[c] EXCEPT !.status = status, !.approvedBy = req[r].actor]
  OBVIOUS
<1>9. /\ consent' = [consent EXCEPT ![c] = row]
      /\ UNCHANGED <<issued, trail, interrupted>>
  BY <1>1, <1>3, <1>8 DEF WriteDenial, TypeOK
<1>10. /\ row.status = status /\ row.renewedFrom = consent[c].renewedFrom
       /\ row.insertedBy = consent[c].insertedBy
  BY <1>2, <1>8 DEF Rows
<1>11. status \in {"REJECTED", "REVOKED", "EXPIRED"}
  BY <1>3
<1> QED
  BY <1>1, <1>2, <1>4, <1>6, <1>7, <1>9, <1>10, <1>11, OutcomeKeepsAccount

LEMMA ExpireRowKeepsAccount ==
    ASSUME ConsentInv, TypeOK', TrailInv, NEW r \in Requests, NEW c \in ConsentIds,
           ExpireRow(r, c)
    PROVE  TrailInv'
<1> USE DEF ConsentInv
<1>1. /\ req[r] \in RequestRecords /\ req[r].pc = "sweep" /\ Exists(c) /\ consent[c] \in Rows
  BY DEF TypeOK, ExpireRow, RequestInv, Sound
<1>2. PICK events : events = <<<<c, "CONSENT_EXPIRED">>>>
  OBVIOUS
<1>3. PICK q : /\ req' = [req EXCEPT ![r] = q]
               /\ q = [req[r] EXCEPT !.pc = "audit", !.todo = req[r].todo \ {c}, !.events = events]
  BY <1>2 DEF ExpireRow, TypeOK
<1>4. q.pc = "audit" /\ q.events = events
  BY <1>1, <1>3 DEF RequestRecords
<1>5. PICK row : row = [consent[c] EXCEPT !.status = "EXPIRED"]
  OBVIOUS
<1>6. /\ consent' = [consent EXCEPT ![c] = row]
      /\ UNCHANGED <<issued, trail, interrupted>>
  BY <1>5 DEF ExpireRow, TypeOK
<1>7. /\ row.status = "EXPIRED" /\ row.renewedFrom = consent[c].renewedFrom
      /\ row.insertedBy = consent[c].insertedBy
  BY <1>1, <1>5 DEF Rows
<1>8. Outcome(row.status) = "CONSENT_EXPIRED"
  BY <1>7 DEF Outcome
<1> QED
  BY <1>1, <1>2, <1>3, <1>4, <1>6, <1>7, <1>8, OutcomeKeepsAccount

LEMMA CreateKeepsAccount ==
    ASSUME ConsentInv, TypeOK', TrailInv, NEW r \in Requests, NEW c \in ConsentIds,
           NEW input \in CreateInputs, CreateConsent(r, c, input)
    PROVE  TrailInv'
<1> USE DEF ConsentInv
<1>1. PICK events : events = <<<<c, "CONSENT_CREATED">>>>
  OBVIOUS
<1>2. PICK q : req' = [req EXCEPT ![r] = q] /\ q = [New EXCEPT !.pc = "audit", !.events = events]
  BY <1>1 DEF CreateConsent, Owe
<1>3. q.pc = "audit" /\ q.events = events
  BY <1>2 DEF New
<1>4. EventsOf(q) = {<<c, "CONSENT_CREATED">>} /\ EventsOK(q)
  BY <1>1, <1>3, OwesOne
<1>5. PICK row : row = NewRow(input, activeToken, now + input.ttl, NoConsent)
  OBVIOUS
<1>6. /\ row.status = "PENDING" /\ row.renewedFrom = NoConsent
      /\ row.insertedBy = "consent-manager"
  BY <1>5 DEF NewRow, NoRow
<1>6a. EventsOf(req[r]) = {}
  BY OwesNothingYet DEF CreateConsent, IsNew
<1>7. /\ consent' = [consent EXCEPT ![c] = row] /\ ~Exists(c)
      /\ UNCHANGED <<issued, trail, interrupted>>
  BY <1>5 DEF CreateConsent, Insert
<1> QED
  BY <1>2, <1>4, <1>6, <1>6a, <1>7, InsertKeepsAccount

LEMMA InsertReconsentKeepsAccount ==
    ASSUME ConsentInv, TypeOK', TrailInv, NEW r \in Requests, NEW c \in ConsentIds,
           InsertReconsent(r, c)
    PROVE  TrailInv'
<1> USE DEF ConsentInv
<1>1. PICK events : events = <<<<c, "PERIODIC_RECONSENT_REQUESTED">>>>
  OBVIOUS
<1>2. PICK q : req' = [req EXCEPT ![r] = q] /\ q = [New EXCEPT !.pc = "audit", !.events = events]
  BY <1>1 DEF InsertReconsent, Owe
<1>3. q.pc = "audit" /\ q.events = events
  BY <1>2 DEF New
<1>4. EventsOf(q) = {<<c, "PERIODIC_RECONSENT_REQUESTED">>} /\ EventsOK(q)
  BY <1>1, <1>3, OwesOne
<1>5. EventsOf(req[r]) = {}
  BY OwesNothingYet DEF InsertReconsent
<1>6. ~Exists(c) /\ UNCHANGED <<issued, trail, interrupted>>
  BY DEF InsertReconsent
<1> QED
  BY <1>2, <1>4, <1>5, <1>6, ReconsentRowTyped, InsertKeepsAccount

LEMMA RenewKeepsAccount ==
    ASSUME ConsentInv, TypeOK', TrailInv, NEW r \in Requests, NEW old \in ConsentIds,
           NEW c \in ConsentIds, RenewConsent(r, old, c)
    PROVE  TrailInv'
<1> USE DEF ConsentInv
<1>1. PICK events : events = <<<<old, "CONSENT_RENEWED">>, <<c, "CONSENT_CREATED">>>>
  OBVIOUS
<1>2. PICK q : req' = [req EXCEPT ![r] = q] /\ q = [New EXCEPT !.pc = "audit", !.events = events]
  BY <1>1 DEF RenewConsent, Owe
<1>3. q.pc = "audit" /\ q.events = events
  BY <1>2 DEF New
<1>4. EventsOf(q) = {<<old, "CONSENT_RENEWED">>, <<c, "CONSENT_CREATED">>} /\ EventsOK(q)
  <2>1. <<old, "CONSENT_RENEWED">> # <<c, "CONSENT_CREATED">>
    OBVIOUS
  <2> QED
    BY <2>1, <1>1, <1>3, OwesTwo
<1>5. PICK row : row = NewRow(consent[old], consent[old].token, now + DefaultTtl, old)
  OBVIOUS
<1>6. /\ row.status = "PENDING" /\ row.renewedFrom = old /\ old # NoConsent
      /\ row.insertedBy = "consent-manager"
  BY <1>5, ConsentAssumption DEF NewRow, NoRow
<1>6a. EventsOf(req[r]) = {}
  BY OwesNothingYet DEF RenewConsent, IsNew
<1>7. /\ consent' = [consent EXCEPT ![c] = row] /\ ~Exists(c)
      /\ UNCHANGED <<issued, trail, interrupted>>
  BY <1>5 DEF RenewConsent, Insert
<1> QED
  BY <1>2, <1>4, <1>6, <1>6a, <1>7, InsertKeepsAccount

-----------------------------------------------------------------------------
(* All steps                                                               *)

\* Steps to a later point of the same request that write nothing.
LEMMA GotoKeepsAccount ==
    ASSUME ConsentInv, TypeOK', TrailInv, NEW r \in Requests,
           \/ \E d \in 0 .. MaxGrants : Authorise(r, d)
           \/ CheckToken(r)
           \/ ReserveNonce(r)
           \/ FindNonePending(r)
    PROVE  TrailInv'
<1> USE DEF ConsentInv
<1>1. /\ req[r] \in RequestRecords /\ req[r].pc \in {"read", "authorised", "tokenActive", "asked"}
      /\ UNCHANGED <<consent, issued, trail, interrupted>>
  BY DEF TypeOK, Authorise, CheckToken, ReserveNonce, FindNonePending, tables
<1>2. req[r].events = <<>>
  BY <1>1, OwesNothingYet
<1>3. PICK q : /\ req' = [req EXCEPT ![r] = q] /\ q.events = <<>>
               /\ q.pc \in {"authorised", "tokenActive", "reserved", "nonePending"}
  <2>1. ASSUME NEW d, Authorise(r, d)
        PROVE  LET q == [req[r] EXCEPT !.pc = "authorised", !.grant = d]
               IN  req' = [req EXCEPT ![r] = q] /\ q.events = <<>> /\ q.pc = "authorised"
    <3> DEFINE q == [req[r] EXCEPT !.pc = "authorised", !.grant = d]
    <3>1. q.events = <<>> /\ q.pc = "authorised"
      BY <1>1, <1>2 DEF RequestRecords
    <3>2. req' = [req EXCEPT ![r] = q]
      BY <2>1 DEF Authorise, TypeOK
    <3> QED
      BY <3>1, <3>2
  <2>2. ASSUME CheckToken(r)
        PROVE  LET q == [req[r] EXCEPT !.pc = "tokenActive"]
               IN  req' = [req EXCEPT ![r] = q] /\ q.events = <<>> /\ q.pc = "tokenActive"
    BY <2>2, <1>1, <1>2 DEF CheckToken, Goto, TypeOK, RequestRecords
  <2>3. ASSUME ReserveNonce(r)
        PROVE  LET q == [req[r] EXCEPT !.pc = "reserved", !.jti = Len(reserved[req[r].consent]) + 1]
               IN  req' = [req EXCEPT ![r] = q] /\ q.events = <<>> /\ q.pc = "reserved"
    <3> DEFINE q == [req[r] EXCEPT !.pc = "reserved", !.jti = Len(reserved[req[r].consent]) + 1]
    <3>1. q.events = <<>> /\ q.pc = "reserved"
      BY <1>1, <1>2 DEF RequestRecords
    <3>2. req' = [req EXCEPT ![r] = q]
      BY <2>3 DEF ReserveNonce, TypeOK
    <3> QED
      BY <3>1, <3>2
  <2>4. ASSUME FindNonePending(r)
        PROVE  LET q == [req[r] EXCEPT !.pc = "nonePending", !.at = now]
               IN  req' = [req EXCEPT ![r] = q] /\ q.events = <<>> /\ q.pc = "nonePending"
    <3> DEFINE q == [req[r] EXCEPT !.pc = "nonePending", !.at = now]
    <3>1. q.events = <<>> /\ q.pc = "nonePending"
      BY <1>1, <1>2 DEF RequestRecords
    <3>2. req' = [req EXCEPT ![r] = q]
      BY <2>4 DEF FindNonePending, TypeOK
    <3> QED
      BY <3>1, <3>2
  <2> QED
    BY <2>1, <2>2, <2>3, <2>4
<1> QED
  BY <1>1, <1>3, QuietKeepsAccount

LEMMA UpdateReviewKeepsAccount ==
    ASSUME ConsentInv, TypeOK', TrailInv, NEW r \in Requests, UpdateReview(r)
    PROVE  TrailInv'
<1> USE DEF ConsentInv
<1>1. /\ req[r] \in RequestRecords /\ req[r].pc = "review" /\ EventsOK(req[r])
      /\ UNCHANGED <<consent, issued, trail, interrupted>>
  BY DEF TypeOK, TrailInv, UpdateReview, tables
<1>2. CASE req[r].op = "revoke"
  <2>1. PICK q : req' = [req EXCEPT ![r] = q] /\ q = Done
    BY <1>2 DEF UpdateReview, Finish
  <2>2. q.events = <<>> /\ q.pc = "done"
    BY <2>1 DEF Done, New
  <2> QED
    BY <1>1, <1>2, <2>1, <2>2, QuietKeepsAccount
<1>3. CASE req[r].op # "revoke"
  <2>1. PICK q : req' = [req EXCEPT ![r] = q] /\ q = [req[r] EXCEPT !.pc = "audit"]
    BY <1>3 DEF UpdateReview, Goto, TypeOK
  <2>2. q.events = req[r].events /\ q.pc = "audit" /\ q.op = req[r].op
    BY <1>1, <2>1 DEF RequestRecords
  <2>3. EventsOf(q) = EventsOf(req[r])
    BY <1>1, <2>2 DEF EventsOf
  <2>4. EventsOK(q)
    BY <1>1, <2>2 DEF EventsOK
  <2> QED
    BY <1>1, <2>1, <2>3, <2>4, MoveKeepsAccount
<1> QED
  BY <1>2, <1>3

\* A refused request has signed and written nothing.
LEMMA RefuseKeepsAccount ==
    ASSUME ConsentInv, TypeOK', TrailInv, NEW r \in Requests, Refuse(r)
    PROVE  TrailInv'
<1>1. PICK q : req' = [req EXCEPT ![r] = q] /\ q = Done
  BY DEF Refuse, Finish
<1>2. q.events = <<>> /\ q.pc = "done"
  BY <1>1 DEF Done, New
<1>3. /\ req[r].pc \in {"read", "authorised", "tokenActive", "asked", "nonePending"}
      /\ UNCHANGED <<consent, issued, trail, interrupted>>
  BY DEF Refuse, tables
<1> QED
  BY <1>1, <1>2, <1>3, QuietKeepsAccount DEF ConsentInv

LEMMA BeginKeepsAccount ==
    ASSUME ConsentInv, TypeOK', TrailInv, NEW r \in Requests,
           \/ \E op \in {"approve", "reject"}, c \in ConsentIds, a \in Users,
                fields \in SUBSET Fields : ReadPending(r, op, c, a, fields)
           \/ \E c \in ConsentIds, a \in Users : ReadApproved(r, c, a)
           \/ \E op \in {"expire", "list"} : \E batch : ReadBatch(r, op, batch)
           \/ AskReconsent(r)
    PROVE  TrailInv'
<1>1. IsNew(r) /\ UNCHANGED <<consent, issued, trail, interrupted>>
  BY DEF ReadPending, ReadApproved, ReadBatch, AskReconsent, tables
<1>2. PICK q : /\ req' = [req EXCEPT ![r] = q] /\ q.events = <<>>
               /\ q.pc \in {"read", "sweep", "asked"}
  <2>1. ASSUME NEW op, NEW c, NEW a, NEW fields, ReadPending(r, op, c, a, fields)
        PROVE  LET q == [New EXCEPT !.pc = "read", !.op = op, !.consent = c, !.actor = a,
                                    !.fields = fields]
               IN  req' = [req EXCEPT ![r] = q] /\ q.events = <<>> /\ q.pc = "read"
    BY <2>1 DEF ReadPending, New
  <2>2. ASSUME NEW c, NEW a, ReadApproved(r, c, a)
        PROVE  LET q == [New EXCEPT !.pc = "read", !.op = "revoke", !.consent = c, !.actor = a,
                                    !.grant = consent[c].grant, !.approver = consent[c].approvedBy]
               IN  req' = [req EXCEPT ![r] = q] /\ q.events = <<>> /\ q.pc = "read"
    BY <2>2 DEF ReadApproved, New
  <2>3. ASSUME NEW op, NEW batch, ReadBatch(r, op, batch)
        PROVE  LET q == [New EXCEPT !.pc = "sweep", !.op = op, !.todo = batch]
               IN  req' = [req EXCEPT ![r] = q] /\ q.events = <<>> /\ q.pc = "sweep"
    BY <2>3 DEF ReadBatch, New
  <2>4. ASSUME AskReconsent(r)
        PROVE  LET q == [New EXCEPT !.pc = "asked", !.op = "reconsent"]
               IN  req' = [req EXCEPT ![r] = q] /\ q.events = <<>> /\ q.pc = "asked"
    BY <2>4 DEF AskReconsent, New
  <2> QED
    BY <2>1, <2>2, <2>3, <2>4
<1> QED
  BY <1>1, <1>2, QuietKeepsAccount DEF ConsentInv, IsNew

LEMMA NextKeepsAccount == AccountInv /\ [Next]_vars => AccountInv'
<1> SUFFICES ASSUME AccountInv, [Next]_vars PROVE AccountInv'
  OBVIOUS
<1>1. RefinementInv' /\ TypeOK'
  BY NextKeepsInv, NextKeepsSigning DEF AccountInv, RefinementInv, ConsentInv
<1> USE DEF AccountInv, RefinementInv
<1>2. CASE UNCHANGED <<consent, issued, trail, interrupted, req>>
  <2>1. \A c, e : Owing(c, e)' = Owing(c, e)
    BY <1>2 DEF Owing, EventsOf
  <2>2. \A c, e : Told(c, e)' = Told(c, e)
    BY <1>2 DEF Told, Inserted, IssuedOf, RenewalsOf, Exists
  <2>3. \A c : (IsTold(c) => IsTold(c)') /\ \A e : Balanced(c, e) => Balanced(c, e)'
    BY <1>2, <2>1, <2>2 DEF IsTold, Balanced
  <2>4. \A r \in Requests : EventsOK(req'[r])
    BY <1>2 DEF TrailInv
  <2>5. \A c : (Exists(c)' <=> Exists(c)) /\ IssuedOf(c)' = IssuedOf(c)
    BY <1>2 DEF Exists, IssuedOf
  <2>6. TrailInv'
    BY <1>2, <2>3, <2>4, <2>5 DEF TrailInv, EventsOK
  <2> QED
    BY <1>1, <2>6
<1>3. CASE Create \/ Renew
  BY <1>1, <1>3, CreateKeepsAccount, RenewKeepsAccount DEF Create, Renew
<1>4. CASE Decide
  <2>1. {} \in SUBSET Fields
    OBVIOUS
  <2> QED
    BY <1>1, <1>4, <2>1, BeginKeepsAccount DEF Decide
<1>5. CASE \E r \in Requests : ReadExpireDue(r) \/ ListConsents(r) \/ AskReconsent(r)
  BY <1>1, <1>5, BeginKeepsAccount DEF ReadExpireDue, ListConsents
<1>6. ASSUME NEW r \in Requests, Step(r) PROVE TrailInv'
  BY <1>1, <1>6, GotoKeepsAccount, RefuseKeepsAccount, SignAssertionKeepsAccount,
     WriteApprovalKeepsAccount, WriteDenialKeepsAccount, UpdateReviewKeepsAccount,
     ExpireRowKeepsAccount, WriteAuditKeepsAccount, InsertReconsentKeepsAccount DEF Step
<1>7. ASSUME NEW r \in Requests, Fail(r) PROVE TrailInv'
  <2>1. Finish(r) /\ interrupted' = interrupted \cup OwedTo(r) /\ UNCHANGED <<consent, issued, trail>>
    BY <1>7 DEF Fail, tables
  <2> QED
    BY <1>1, <2>1, FinishKeepsAccount DEF ConsentInv
<1> QED
  BY <1>1, <1>2, <1>3, <1>4, <1>5, <1>6, <1>7
     DEF Next, Tick, ChangeToken, Delegate, RevokeDelegation, RequireReconsent, vars, tables

LEMMA InitBalances == Init => AccountInv
<1> SUFFICES ASSUME Init PROVE AccountInv
  OBVIOUS
<1>1. RefinementInv
  BY InitEstablishesInv DEF Init, RefinementInv, SigningInv, Discloses, New
<1>2. \A r \in Requests : req[r].events = <<>> /\ req[r].pc = "new"
  BY DEF Init, New
<1>3. \A r \in Requests : EventsOf(req[r]) = {} /\ EventsOK(req[r])
  BY <1>2, OwesNothing
<1>4. \A c \in ConsentIds : consent[c].status = "ABSENT" /\ consent[c].renewedFrom = NoConsent
  BY DEF Init, NoRow
<1>5. \A c : IssuedOf(c) = {}
  BY DEF Init, IssuedOf
<1>6. IsFiniteSet({}) /\ Cardinality({}) = 0
  BY FS_EmptySet
<1>7. ASSUME NEW c \in ConsentIds, NEW e \in Counted PROVE Balanced(c, e)
  <2>1. Owing(c, e) = {}
    BY <1>3 DEF Owing
  <2>2. RenewalsOf(c) = {}
    BY <1>4, ConsentAssumption DEF RenewalsOf
  <2>3. Told(c, e) = 0
    BY <1>4, <1>5, <1>6, <2>2 DEF Told, Inserted, Exists
  <2>4. trail[c][e] = 0
    BY DEF Init, Counted, EventTypes
  <2> QED
    BY <1>6, <2>1, <2>3, <2>4 DEF Balanced
<1>8. \A c \in ConsentIds : IsTold(c)
  BY <1>4 DEF IsTold
<1>9. TrailInv
  BY <1>3, <1>4, <1>5, <1>6, <1>7, <1>8 DEF TrailInv
<1> QED
  BY <1>1, <1>9 DEF AccountInv

LEMMA AccountIsComplete == AccountInv => TrailIsComplete
<1> SUFFICES ASSUME AccountInv, NEW c \in ConsentIds, Settled(c)
             PROVE  TrailIsComplete!(c)!2
  BY DEF TrailIsComplete
<1>1. \A e : Owing(c, e) = {}
  BY DEF Settled, Owing, OwedTo, EventsOf
<1>2. ASSUME NEW e \in Counted
      PROVE  /\ trail[c][e] <= Told(c, e)
             /\ c \notin interrupted => trail[c][e] = Told(c, e)
  <2>1. Balanced(c, e) /\ Cardinality(Owing(c, e)) = 0
    BY <1>1, FS_EmptySet DEF AccountInv, TrailInv
  <2>2. trail[c][e] \in Nat
    <3>1. e \in EventTypes
      BY DEF Counted, EventTypes
    <3> QED
      BY <3>1 DEF AccountInv, RefinementInv, ConsentInv, TypeOK
  <2> QED
    BY <2>1, <2>2 DEF Balanced
<1>3. ASSUME c \notin interrupted
      PROVE  /\ consent[c].status = "REJECTED" => trail[c]["CONSENT_REJECTED"] > 0
             /\ consent[c].status = "REVOKED" => trail[c]["CONSENT_REVOKED"] > 0
             /\ consent[c].status = "EXPIRED" => trail[c]["CONSENT_EXPIRED"] > 0
  <2>1. IsTold(c)
    BY <1>3 DEF AccountInv, TrailInv
  <2> QED
    BY <1>1, <2>1 DEF IsTold, Outcome
<1> QED
  BY <1>2, <1>3

\* When nobody is at work on a consent, its trail tells nothing twice and nothing
\* that did not happen: at most one event of the service that inserted the row,
\* one per renewal and the two of each assertion.  Unless a request died owing
\* events of it, none of them is missing and its outcome is told, however the
\* requests for it overlapped (addConsentAuditEvent after each write of
\* consent-manager/src/index.ts, and the event wallet-service/src/index.ts:502
\* writes for request-reconsent).
THEOREM TrailTellsAll == Spec => []TrailIsComplete
<1>1. Spec => []AccountInv
  BY InitBalances, NextKeepsAccount, PTL DEF Spec
<1> QED
  BY <1>1, AccountIsComplete, PTL

-----------------------------------------------------------------------------
(***************************************************************************)
(* What no step takes back, although every request writes rows it has read *)
(* long before.                                                            *)
(***************************************************************************)

\* What a consent was made for and how long, its token and its ancestor.
TermsOf(row) ==
    [purpose |-> row.purpose, requested |-> row.requested, token |-> row.token,
     requiresDelegation |-> row.requiresDelegation, expiresAt |-> row.expiresAt,
     renewedFrom |-> row.renewedFrom]

RowsKept ==
    \A c \in ConsentIds : Exists(c) =>
        /\ TermsOf(consent'[c]) = TermsOf(consent[c])
        /\ consent'[c].status # "ABSENT"
        /\ consent'[c].status = "PENDING" => consent[c].status = "PENDING"

TrailKept == \A c \in ConsentIds, e \in EventTypes : trail[c][e] <= trail'[c][e]

\* Decisions overlap, but what a consent was made for stays, one that was decided or
\* has expired is never open for a decision again, and neither assertions nor audit
\* events are taken back (the updates of consent-manager/src/index.ts write status,
\* approval and delegation only; assertions and events are only created).
NothingTakenBack == [][RowsKept /\ TrailKept /\ issued \subseteq issued']_vars

\* An update of a row writes an outcome and leaves the terms.
LEMMA UpdateKeepsRows ==
    ASSUME TypeOK, NEW c \in ConsentIds, NEW row, consent' = [consent EXCEPT ![c] = row],
           Exists(c) => TermsOf(row) = TermsOf(consent[c])
                        /\ row.status \notin {"ABSENT", "PENDING"}
    PROVE  RowsKept
<1>1. consent'[c] = row /\ \A d \in ConsentIds \ {c} : consent'[d] = consent[d]
  BY DEF TypeOK
<1> QED
  BY <1>1 DEF RowsKept, Exists

LEMMA WriteApprovalKeepsRows ==
    ASSUME ConsentInv, NEW r \in Requests, WriteApproval(r)
    PROVE  RowsKept
<1> USE DEF ConsentInv
<1>1. PICK c \in ConsentIds : c = req[r].consent
  BY DEF RequestInv, Sound, HasConsent, WriteApproval
<1> DEFINE row == [consent[c] EXCEPT !.status = "APPROVED", !.approvedBy = req[r].actor,
                                     !.grant = req[r].grant, !.jti = req[r].jti,
                                     !.approvedFields = req[r].fields]
<1>2. consent' = [consent EXCEPT ![c] = row]
  BY <1>1 DEF WriteApproval, TypeOK
<1>3. consent[c] \in Rows
  BY DEF TypeOK
<1>4. row.status = "APPROVED" /\ TermsOf(row) = TermsOf(consent[c])
  BY <1>3 DEF TermsOf, Rows
<1> HIDE DEF row
<1> QED
  BY <1>2, <1>4, UpdateKeepsRows

LEMMA WriteDenialKeepsRows ==
    ASSUME ConsentInv, NEW r \in Requests, WriteDenial(r)
    PROVE  RowsKept
<1> USE DEF ConsentInv
<1>1. PICK c \in ConsentIds : c = req[r].consent
  BY DEF RequestInv, Sound, HasConsent, WriteDenial
<1> DEFINE status == IF req[r].op = "reject" THEN "REJECTED" ELSE "REVOKED"
           row == [consent[c] EXCEPT !.status = status, !.approvedBy = req[r].actor]
<1>2. consent' = [consent EXCEPT ![c] = row]
  BY <1>1 DEF WriteDenial, TypeOK
<1>3. consent[c] \in Rows /\ status \in {"REJECTED", "REVOKED"}
  BY DEF TypeOK
<1> HIDE DEF status
<1>4. row.status = status /\ TermsOf(row) = TermsOf(consent[c])
  BY <1>3 DEF TermsOf, Rows
<1> HIDE DEF row
<1> QED
  BY <1>2, <1>3, <1>4, UpdateKeepsRows

LEMMA ExpireRowKeepsRows ==
    ASSUME ConsentInv, NEW r \in Requests, NEW c \in ConsentIds, ExpireRow(r, c)
    PROVE  RowsKept
<1> USE DEF ConsentInv
<1> DEFINE row == [consent[c] EXCEPT !.status = "EXPIRED"]
<1>1. consent' = [consent EXCEPT ![c] = row] /\ consent[c] \in Rows
  BY DEF ExpireRow, TypeOK
<1>2. row.status = "EXPIRED" /\ TermsOf(row) = TermsOf(consent[c])
  BY <1>1 DEF TermsOf, Rows
<1> HIDE DEF row
<1> QED
  BY <1>1, <1>2, UpdateKeepsRows

\* An event that is written is one more of its type.
LEMMA WriteAuditKeepsTrail ==
    ASSUME ConsentInv, NEW r \in Requests, WriteAudit(r)
    PROVE  TrailKept
<1> USE DEF ConsentInv
<1>1. PICK events \in Seq(ConsentIds \X EventTypes) : events = req[r].events /\ events # <<>>
  BY DEF TypeOK, RequestRecords, RequestInv, Sound, WriteAudit
<1>2. PICK e \in ConsentIds \X EventTypes : e = Head(events)
  BY <1>1
<1>3. /\ e[1] \in ConsentIds /\ e[2] \in EventTypes
      /\ trail' = [trail EXCEPT ![e[1]][e[2]] = @ + 1]
      /\ trail \in [ConsentIds -> [EventTypes -> Nat]]
  BY <1>1, <1>2 DEF WriteAudit, TypeOK
<1> QED
  BY <1>3 DEF TrailKept

LEMMA NothingTaken == ConsentInv /\ [Next]_vars => RowsKept /\ TrailKept /\ issued \subseteq issued'
<1> SUFFICES ASSUME ConsentInv, [Next]_vars
             PROVE  RowsKept /\ TrailKept /\ issued \subseteq issued'
  OBVIOUS
<1> USE DEF ConsentInv
<1>1. ASSUME UNCHANGED consent PROVE RowsKept
  BY <1>1 DEF RowsKept, Exists
<1>2. ASSUME UNCHANGED trail PROVE TrailKept
  BY <1>2 DEF TrailKept, TypeOK
<1>3. CASE UNCHANGED <<tables, issued>>
  BY <1>1, <1>2, <1>3 DEF tables
<1>4. CASE Create \/ Renew
  <2>1. PICK c \in ConsentIds : ~Exists(c) /\ \E row : consent' = [consent EXCEPT ![c] = row]
    BY <1>4 DEF Create, Renew, CreateConsent, RenewConsent, Insert
  <2>2. RowsKept
    <3>1. PICK row : consent' = [consent EXCEPT ![c] = row]
      BY <2>1
    <3> QED
      BY <2>1, <3>1, UpdateKeepsRows
  <2> QED
    BY <1>2, <1>4, <2>2 DEF Create, Renew, CreateConsent, RenewConsent
<1>5. ASSUME NEW r \in Requests, Step(r)
      PROVE  RowsKept /\ TrailKept /\ issued \subseteq issued'
  <2>1. CASE WriteApproval(r)
    BY <1>2, <2>1, WriteApprovalKeepsRows DEF WriteApproval
  <2>2. CASE WriteDenial(r)
    BY <1>2, <2>2, WriteDenialKeepsRows DEF WriteDenial
  <2>3. CASE \E c \in ConsentIds : ExpireRow(r, c)
    BY <1>2, <2>3, ExpireRowKeepsRows DEF ExpireRow
  <2>4. CASE WriteAudit(r)
    BY <1>1, <2>4, WriteAuditKeepsTrail DEF WriteAudit
  <2>5. CASE SignAssertion(r)
    BY <1>1, <1>2, <2>5 DEF SignAssertion, tables
  <2>6. CASE \/ \E d \in 0 .. MaxGrants : Authorise(r, d)
             \/ CheckToken(r) \/ ReserveNonce(r) \/ Refuse(r) \/ UpdateReview(r)
             \/ FindNonePending(r)
    BY <1>3, <2>6 DEF Authorise, CheckToken, ReserveNonce, Refuse, UpdateReview, FindNonePending
  <2>7. ASSUME NEW c \in ConsentIds, InsertReconsent(r, c)
        PROVE  RowsKept /\ TrailKept /\ issued \subseteq issued'
    <3>1. ~Exists(c) /\ consent' = [consent EXCEPT ![c] = ReconsentRow(r)]
      BY <2>7, ReconsentRowTyped DEF InsertReconsent
    <3>2. RowsKept
      BY <3>1, UpdateKeepsRows
    <3> QED
      BY <1>2, <2>7, <3>2 DEF InsertReconsent
  <2> QED
    BY <1>5, <2>1, <2>2, <2>3, <2>4, <2>5, <2>6, <2>7 DEF Step
<1> QED
  BY ZenonT(30), <1>3, <1>4, <1>5 DEF Next, Tick, Decide, ChangeToken, Delegate, RevokeDelegation,
     RequireReconsent, ReadPending, ReadApproved, ReadExpireDue, ListConsents, ReadBatch, AskReconsent,
     Fail, vars

\* Overlapping decisions, sweeps and renewals take nothing back: not the terms of a
\* consent, not that it was decided, no assertion and no audit event.
THEOREM NoStepTakesBack == Spec => NothingTakenBack
<1> QED
  BY Invariance, NothingTaken, PTL DEF Spec, NothingTakenBack

=============================================================================
