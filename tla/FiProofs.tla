------------------------------ MODULE FiProofs ------------------------------
(***************************************************************************)
(* Theorems about FiService.  FiInv strengthens the properties with what a *)
(* verification knows at each of its steps (RequestOK) and with the fact   *)
(* the replay guards are there for: the nonce of an accepted assertion is  *)
(* guarded until that assertion expires (GuardInv).                        *)
(***************************************************************************)
EXTENDS FiService, FiniteSetTheorems, TLAPS

Acceptances == [by: Requests, consent: ConsentIds, assertion: Assertions, at: Nat]

\* consent-manager has signed an assertion of c.
Signed(c) == \E a \in issued : a.consent = c

\* An assertion that matches c was accepted for the row of c.
WasAccepted(c) == \E k \in accepted : k.consent = c /\ k.assertion \in issued /\ Matches(k.assertion, c)

\* What a request knows at the point it has reached.
RequestOK(q) ==
    /\ q.pc \notin {"new", "done"} => q.consent \in ConsentIds /\ status[q.consent] # "ABSENT"
    /\ q.pc \in {"row", "bound", "checked", "tokenActive", "jtiTaken"} => q.assertion \in issued
    /\ q.pc \in {"checked", "tokenActive", "jtiTaken"} =>
          q.assertion.exp <= now + q.ttl /\ Matches(q.assertion, q.consent)
    /\ q.pc \in {"bound", "checked", "tokenActive", "jtiTaken", "accepted", "verified"} =>
          Signed(q.consent)
    /\ q.pc = "accepted" => WasAccepted(q.consent)

ConsentInv ==
    /\ IsFiniteSet(issued)
    /\ \A a \in issued : status[a.consent] # "ABSENT"
    /\ \A c \in ConsentIds : status[c] \in {"APPROVED", "REVOKED"} => Signed(c)

RowInv ==
    \A c \in ConsentIds :
        /\ fiRequest[c] # "NONE" => status[c] # "ABSENT"
        /\ fiRequest[c] = "VERIFIED" => WasAccepted(c) /\ Signed(c)

GuardInv == \A k \in accepted : k.assertion.exp <= nonceGuard[k.assertion.consent]

FiInv ==
    /\ TypeOK
    /\ ConsentInv
    /\ accepted \subseteq Acceptances
    /\ \A r \in Requests : RequestOK(req[r])
    /\ RowInv
    /\ GuardInv
    /\ AcceptedApart

\* What every step leaves true: time and the sets of assertions and acceptances
\* only grow, and the terms of a consent that exists stay.
Grows ==
    /\ now <= now' /\ now' \in Nat
    /\ issued \subseteq issued'
    /\ accepted \subseteq accepted'
    /\ \A c \in ConsentIds : status[c] # "ABSENT" =>
          status'[c] # "ABSENT" /\ terms'[c] = terms[c]

-----------------------------------------------------------------------------
(* What grows keeps                                                        *)

LEMMA MatchesStays ==
    ASSUME FiInv, Grows, NEW a \in issued, NEW c \in ConsentIds, status[c] # "ABSENT",
           Matches(a, c)
    PROVE  Matches(a, c)'
<1>1. a.consent \in ConsentIds /\ status[a.consent] # "ABSENT"
  BY DEF FiInv, ConsentInv, TypeOK, Assertions
<1> QED
  BY <1>1 DEF Matches, Agreed, Grows

LEMMA SignedStays ==
    ASSUME Grows, NEW c, Signed(c)
    PROVE  Signed(c)'
BY DEF Grows, Signed

LEMMA WasAcceptedStays ==
    ASSUME FiInv, Grows, NEW c \in ConsentIds, status[c] # "ABSENT", WasAccepted(c)
    PROVE  WasAccepted(c)'
<1>1. PICK k \in accepted : k.consent = c /\ k.assertion \in issued /\ Matches(k.assertion, c)
  BY DEF WasAccepted
<1>2. PICK a \in issued : a = k.assertion
  BY <1>1
<1>3. Matches(a, c)'
  BY <1>1, <1>2, MatchesStays
<1>4. k \in accepted' /\ k.assertion \in issued' /\ Matches(k.assertion, c)'
  BY <1>1, <1>2, <1>3 DEF Grows, Matches
<1> QED
  BY <1>1, <1>4 DEF WasAccepted

LEMMA RequestOKStays ==
    ASSUME FiInv, Grows, NEW q \in RequestRecords, RequestOK(q)
    PROVE  RequestOK(q)'
<1>1. q.pc \notin {"new", "done"} => q.consent \in ConsentIds /\ status'[q.consent] # "ABSENT"
  BY DEF RequestOK, Grows
<1>2. q.pc \in {"row", "bound", "checked", "tokenActive", "jtiTaken"} => q.assertion \in issued'
  BY DEF RequestOK, Grows
<1>3. ASSUME q.pc \in {"checked", "tokenActive", "jtiTaken"}
      PROVE  q.assertion.exp <= now' + q.ttl /\ Matches(q.assertion, q.consent)'
  <2>1. /\ q.assertion \in issued /\ q.assertion \in Assertions
        /\ q.consent \in ConsentIds /\ status[q.consent] # "ABSENT"
        /\ q.assertion.exp <= now + q.ttl /\ Matches(q.assertion, q.consent)
    BY <1>3 DEF RequestOK, FiInv, TypeOK
  <2>2. q.assertion.exp \in Nat /\ q.ttl \in Nat /\ now \in Nat /\ now' \in Nat /\ now <= now'
    BY <2>1 DEF Assertions, RequestRecords, FiInv, TypeOK, Grows
  <2>3. q.assertion.exp <= now' + q.ttl
    BY <2>1, <2>2
  <2> QED
    BY <2>1, <2>3, MatchesStays
<1>4. q.pc \in {"bound", "checked", "tokenActive", "jtiTaken", "accepted", "verified"} =>
          Signed(q.consent)'
  BY SignedStays DEF RequestOK
<1>5. q.pc = "accepted" => WasAccepted(q.consent)'
  BY WasAcceptedStays DEF RequestOK
<1> QED
  BY <1>1, <1>2, <1>3, <1>4, <1>5 DEF RequestOK

\* Only the request that moves has to be looked at.
LEMMA OneMoves ==
    ASSUME FiInv, Grows, NEW r \in Requests, NEW q \in RequestRecords,
           req' = [req EXCEPT ![r] = q], RequestOK(q)'
    PROVE  /\ req' \in [Requests -> RequestRecords]
           /\ \A s \in Requests : RequestOK(req[s])'
<1>1. req \in [Requests -> RequestRecords]
  BY DEF FiInv, TypeOK
<1>2. ASSUME NEW s \in Requests, s # r PROVE RequestOK(req[s])'
  <2>1. PICK p \in RequestRecords : p = req[s] /\ p = req'[s]
    BY <1>1, <1>2
  <2>2. RequestOK(p)
    BY <2>1 DEF FiInv
  <2>3. RequestOK(p)'
    BY <2>2, RequestOKStays
  <2> QED
    BY <2>1, <2>3 DEF RequestOK
<1>3. RequestOK(req[r])'
  <2>1. q = req'[r]
    BY <1>1
  <2> QED
    BY <2>1 DEF RequestOK
<1> QED
  BY <1>1, <1>2, <1>3

LEMMA NoneMoves ==
    ASSUME FiInv, Grows, req' = req
    PROVE  \A s \in Requests : RequestOK(req[s])'
<1> TAKE s \in Requests
<1>1. PICK p \in RequestRecords : p = req[s] /\ p = req'[s]
  BY DEF FiInv, TypeOK
<1>2. RequestOK(p)'
  BY <1>1, RequestOKStays DEF FiInv
<1> QED
  BY <1>1, <1>2 DEF RequestOK

LEMMA RowsStay ==
    ASSUME FiInv, Grows, fiRequest' = fiRequest
    PROVE  RowInv'
<1> SUFFICES ASSUME NEW c \in ConsentIds, fiRequest[c] # "NONE"
             PROVE  /\ status'[c] # "ABSENT"
                    /\ fiRequest[c] = "VERIFIED" => WasAccepted(c)' /\ Signed(c)'
  BY DEF RowInv, FiInv
<1> QED
  BY WasAcceptedStays, SignedStays DEF RowInv, FiInv, Grows

\* A row that is written is that of a consent that exists and, if VERIFIED is
\* written, of an acceptance.
LEMMA RowWritten ==
    ASSUME FiInv, Grows, NEW c \in ConsentIds, NEW written,
           written \in {"NONE", "PENDING", "VERIFIED", "FAILED", "REVOKED"},
           fiRequest' = [fiRequest EXCEPT ![c] = written],
           status[c] # "ABSENT", written = "VERIFIED" => WasAccepted(c) /\ Signed(c)
    PROVE  RowInv' /\ fiRequest' \in [ConsentIds -> {"NONE", "PENDING", "VERIFIED", "FAILED", "REVOKED"}]
<1>1. fiRequest \in [ConsentIds -> {"NONE", "PENDING", "VERIFIED", "FAILED", "REVOKED"}]
  BY DEF FiInv, TypeOK
<1>2. ASSUME NEW d \in ConsentIds, fiRequest'[d] # "NONE"
      PROVE  /\ status'[d] # "ABSENT"
             /\ fiRequest'[d] = "VERIFIED" => WasAccepted(d)' /\ Signed(d)'
  <2>1. status[d] # "ABSENT" /\ (fiRequest'[d] = "VERIFIED" => WasAccepted(d) /\ Signed(d))
    BY <1>1, <1>2 DEF FiInv, RowInv
  <2> QED
    BY <2>1, WasAcceptedStays, SignedStays DEF Grows
<1> QED
  BY <1>1, <1>2 DEF RowInv

LEMMA AcceptancesStay ==
    ASSUME FiInv, accepted' = accepted, nonceGuard' = nonceGuard
    PROVE  accepted' \subseteq Acceptances /\ GuardInv' /\ AcceptedApart'
BY DEF FiInv, GuardInv, AcceptedApart

LEMMA ConsentsStay ==
    ASSUME FiInv, UNCHANGED consents, accepted \subseteq accepted'
    PROVE  Grows /\ ConsentInv'
<1>1. now \in Nat
  BY DEF FiInv, TypeOK
<1> QED
  BY <1>1 DEF FiInv, consents, Grows, ConsentInv, Signed

-----------------------------------------------------------------------------
(* The environment                                                         *)

\* A step of consent-manager keeps what the FI relies on.
ConsentsOK ==
    /\ Grows /\ ConsentInv'
    /\ terms' \in [ConsentIds -> AllTerms \cup {NoTerms}]
    /\ status' \in [ConsentIds -> Statuses]
    /\ \A c \in ConsentIds : status'[c] # "ABSENT" => terms'[c] \in AllTerms
    /\ issued' \subseteq Assertions

LEMMA TickOK == FiInv /\ Issuing!Tick /\ accepted' = accepted => ConsentsOK
<1> SUFFICES ASSUME FiInv, Issuing!Tick, accepted' = accepted PROVE ConsentsOK
  OBVIOUS
<1>1. now \in Nat /\ now' = now + 1 /\ UNCHANGED <<terms, status, issued>>
  BY DEF FiInv, TypeOK, Issuing!Tick
<1> QED
  BY <1>1 DEF ConsentsOK, Grows, ConsentInv, Signed, FiInv, TypeOK

LEMMA OpenOK ==
    ASSUME FiInv, NEW c \in ConsentIds, NEW t \in Terms, NEW lifetime \in Lifetimes,
           Issuing!Open(c, t, lifetime), accepted' = accepted
    PROVE  ConsentsOK
<1> DEFINE new == [agreed |-> t, expiresAt |-> now + lifetime]
<1>1. /\ now \in Nat /\ new \in AllTerms
      /\ terms \in [ConsentIds -> AllTerms \cup {NoTerms}]
      /\ status \in [ConsentIds -> Statuses]
  BY FiAssumption DEF FiInv, TypeOK, AllTerms, Issuing!Open
<1>2. /\ status[c] = "ABSENT" /\ now' = now /\ issued' = issued
      /\ terms' = [terms EXCEPT ![c] = new] /\ status' = [status EXCEPT ![c] = "PENDING"]
  BY DEF Issuing!Open
<1> HIDE DEF new
<1>3. Grows
  BY <1>1, <1>2 DEF Grows
<1>4. ConsentInv'
  BY <1>1, <1>2 DEF FiInv, TypeOK, ConsentInv, Signed, Assertions
<1> QED
  BY <1>1, <1>2, <1>3, <1>4 DEF ConsentsOK, FiInv, TypeOK, Statuses

LEMMA IssueOK ==
    ASSUME FiInv, NEW c \in ConsentIds,
           NEW scope \in SUBSET UNION {t.requested : t \in Terms},
           Cardinality(issued) < MaxAssertions,
           Issuing!Issue(Issuing!Assertion(c, Cardinality(issued) + 1, scope)),
           accepted' = accepted
    PROVE  ConsentsOK
<1> DEFINE a == Issuing!Assertion(c, Cardinality(issued) + 1, scope)
<1>1. Cardinality(issued) + 1 \in Jtis
  <2>1. Cardinality(issued) \in Nat
    BY FS_CardinalityType DEF FiInv, ConsentInv
  <2> QED
    BY <2>1, FiAssumption DEF Jtis
<1>2. a \in Assertions /\ a.consent = c
  BY <1>1, FiAssumption DEF Issuing!Assertion, Assertions, FiInv, TypeOK
<1>3. /\ status[a.consent] # "ABSENT" /\ issued' = issued \cup {a}
      /\ UNCHANGED <<now, terms, status>>
  BY DEF Issuing!Issue
<1> HIDE DEF a
<1>4. IsFiniteSet(issued')
  BY <1>3, FS_AddElement DEF FiInv, ConsentInv
<1>5. ConsentInv'
  BY <1>2, <1>3, <1>4 DEF FiInv, ConsentInv, Signed
<1>6. Grows
  BY <1>3 DEF Grows, FiInv, TypeOK
<1> QED
  BY <1>2, <1>3, <1>5, <1>6 DEF ConsentsOK, FiInv, TypeOK

LEMMA SettleOK ==
    ASSUME FiInv, NEW c \in ConsentIds, NEW decision \in Statuses \ {"ABSENT"},
           Issuing!Settle(c, decision), accepted' = accepted
    PROVE  ConsentsOK
<1>1. /\ status \in [ConsentIds -> Statuses] /\ status[c] # "ABSENT"
      /\ status' = [status EXCEPT ![c] = decision]
      /\ decision \in {"APPROVED", "REVOKED"} => Signed(c)
      /\ UNCHANGED <<now, terms, issued>>
  BY DEF FiInv, TypeOK, Issuing!Settle, Signed
<1>2. Grows
  BY <1>1 DEF Grows, FiInv, TypeOK
<1>3. ConsentInv'
  <2>1. \A d : Signed(d)' <=> Signed(d)
    BY <1>1 DEF Signed
  <2> QED
    BY <1>1, <2>1 DEF FiInv, TypeOK, ConsentInv, Assertions
<1> QED
  BY <1>1, <1>2, <1>3 DEF ConsentsOK, FiInv, TypeOK

\* The FI sees none of its own state change.
LEMMA EnvironmentKeepsInv ==
    ASSUME FiInv, ConsentsOK, activeTokens' \subseteq TokenIds,
           UNCHANGED <<rows, guards, accepted, req, interrupted>>
    PROVE  FiInv'
<1> USE DEF ConsentsOK, rows, guards
<1>1. TypeOK'
  BY DEF TypeOK, FiInv, Grows
<1>2. \A s \in Requests : RequestOK(req[s])'
  BY NoneMoves
<1>3. RowInv'
  BY RowsStay
<1>4. accepted' \subseteq Acceptances /\ GuardInv' /\ AcceptedApart'
  BY AcceptancesStay
<1> QED
  BY <1>1, <1>2, <1>3, <1>4 DEF FiInv

-----------------------------------------------------------------------------
(* The FI's requests                                                       *)

\* A step of a request that leaves the consents alone: q is what is left of the
\* request, the rest is as the lemmas above give it.
LEMMA StepKeepsInv ==
    ASSUME FiInv, NEW r \in Requests, NEW q \in RequestRecords,
           UNCHANGED <<consents, activeTokens>>, accepted \subseteq accepted',
           req' = [req EXCEPT ![r] = q], RequestOK(q)',
           RowInv',
           fiRequest' \in [ConsentIds -> {"NONE", "PENDING", "VERIFIED", "FAILED", "REVOKED"}],
           accepted' \subseteq Acceptances, GuardInv', AcceptedApart',
           jtiGuard' \in [ConsentIds \X Jtis -> Nat], nonceGuard' \in [ConsentIds -> Nat],
           trail' \in [ConsentIds -> Nat], interrupted' \subseteq ConsentIds
    PROVE  FiInv'
<1>1. Grows /\ ConsentInv'
  BY ConsentsStay
<1>2. req' \in [Requests -> RequestRecords] /\ \A s \in Requests : RequestOK(req[s])'
  BY <1>1, OneMoves
<1>3. \A s \in Requests : req'[s].pc \notin {"new", "done"} => req'[s].consent \in ConsentIds
  BY <1>2 DEF RequestOK
<1>4. TypeOK'
  BY <1>2, <1>3 DEF FiInv, TypeOK, consents
<1> QED
  BY <1>1, <1>2, <1>4 DEF FiInv

\* A step that only moves the request.
LEMMA MoveKeepsInv ==
    ASSUME FiInv, NEW r \in Requests, NEW q \in RequestRecords,
           UNCHANGED <<consents, activeTokens, rows, guards, accepted>>,
           interrupted' \subseteq ConsentIds,
           req' = [req EXCEPT ![r] = q], RequestOK(q)
    PROVE  FiInv'
<1>1. Grows /\ ConsentInv'
  BY ConsentsStay
<1>2. RequestOK(q)'
  BY <1>1, RequestOKStays
<1>3. RowInv'
  BY <1>1, RowsStay DEF rows
<1>4. accepted' \subseteq Acceptances /\ GuardInv' /\ AcceptedApart'
  BY AcceptancesStay DEF guards
<1> QED
  BY <1>2, <1>3, <1>4, StepKeepsInv DEF rows, guards, FiInv, TypeOK

LEMMA DoneOK == Done \in RequestRecords /\ RequestOK(Done) /\ RequestOK(Done)'
BY DEF Done, New, RequestRecords, RequestOK

\* The request at r, typed and with what it knows.
LEMMA AtStep ==
    ASSUME FiInv, NEW r \in Requests
    PROVE  req \in [Requests -> RequestRecords] /\ req[r] \in RequestRecords /\ RequestOK(req[r])
BY DEF FiInv, TypeOK

LEMMA FinishKeepsInv ==
    ASSUME FiInv, NEW r \in Requests, Finish(r),
           UNCHANGED <<consents, activeTokens, rows, guards, accepted>>,
           interrupted' \subseteq ConsentIds
    PROVE  FiInv'
BY DoneOK, MoveKeepsInv DEF Finish

\* What is left of a request that goes on without its assertion.
LEMMA ProceedOK ==
    ASSUME FiInv, NEW r \in Requests, req[r].pc \notin {"new", "done"},
           NEW pc \in {"refused", "accepted", "verified", "revoked"}
    PROVE  LET q == [New EXCEPT !.pc = pc, !.consent = req[r].consent]
           IN  /\ q \in RequestRecords /\ q.pc = pc /\ q.consent = req[r].consent
               /\ q.consent \in ConsentIds /\ status[q.consent] # "ABSENT"
BY AtStep DEF New, RequestRecords, RequestOK

LEMMA RefuseKeepsInv ==
    ASSUME FiInv, NEW r \in Requests, req[r].pc \notin {"new", "done"}, Refuse(r),
           UNCHANGED <<consents, activeTokens, rows, guards, accepted>>,
           interrupted' \subseteq ConsentIds
    PROVE  FiInv'
<1> DEFINE q == [New EXCEPT !.pc = "refused", !.consent = req[r].consent]
<1>1. /\ q \in RequestRecords /\ q.pc = "refused" /\ q.consent = req[r].consent
      /\ q.consent \in ConsentIds /\ status[q.consent] # "ABSENT"
  BY ProceedOK
<1>2. req' = [req EXCEPT ![r] = q]
  BY DEF Refuse, Proceed
<1> HIDE DEF q
<1>3. PICK p \in RequestRecords : p = q
  BY <1>1
<1>4. RequestOK(p)
  BY <1>1, <1>3 DEF RequestOK
<1> QED
  BY <1>2, <1>3, <1>4, MoveKeepsInv

\* The request keeps its assertion and goes to pc.
LEMMA GotoKeepsInv ==
    ASSUME FiInv, NEW r \in Requests, NEW pc \in {"bound", "tokenActive", "jtiTaken"},
           Goto(r, pc), RequestOK([req[r] EXCEPT !.pc = pc]),
           UNCHANGED <<consents, activeTokens, rows, nonceGuard, accepted, interrupted>>,
           jtiGuard' \in [ConsentIds \X Jtis -> Nat]
    PROVE  FiInv'
<1>1. [req[r] EXCEPT !.pc = pc] \in RequestRecords
  BY AtStep DEF RequestRecords
<1>2. PICK q \in RequestRecords : q = [req[r] EXCEPT !.pc = pc]
  BY <1>1
<1>3. RequestOK(q) /\ req' = [req EXCEPT ![r] = q]
  BY <1>2, AtStep DEF Goto
<1>4. Grows /\ ConsentInv'
  BY ConsentsStay
<1>5. RequestOK(q)'
  BY <1>3, <1>4, RequestOKStays
<1>6. RowInv'
  BY <1>4, RowsStay DEF rows
<1>7. accepted' \subseteq Acceptances /\ GuardInv' /\ AcceptedApart'
  BY AcceptancesStay
<1> QED
  BY <1>3, <1>5, <1>6, <1>7, StepKeepsInv DEF rows, FiInv, TypeOK

LEMMA RecordRequestKeepsInv ==
    ASSUME FiInv, NEW c \in ConsentIds, RecordRequest(c)
    PROVE  FiInv'
<1>1. /\ UNCHANGED <<consents, activeTokens, trail, guards, accepted, req, interrupted>>
      /\ status[c] # "ABSENT" /\ fiRequest' = [fiRequest EXCEPT ![c] = "PENDING"]
  BY DEF RecordRequest
<1>2. Grows /\ ConsentInv'
  BY <1>1, ConsentsStay
<1>3. /\ RowInv'
      /\ fiRequest' \in [ConsentIds -> {"NONE", "PENDING", "VERIFIED", "FAILED", "REVOKED"}]
  BY <1>1, <1>2, RowWritten
<1>4. \A s \in Requests : RequestOK(req[s])'
  BY <1>1, <1>2, NoneMoves
<1>5. accepted' \subseteq Acceptances /\ GuardInv' /\ AcceptedApart'
  BY <1>1, AcceptancesStay DEF guards
<1>6. TypeOK'
  BY <1>1, <1>3 DEF FiInv, TypeOK, consents, guards
<1> QED
  BY <1>2, <1>3, <1>4, <1>5, <1>6 DEF FiInv

LEMMA CallRevokeKeepsInv ==
    ASSUME FiInv, NEW r \in Requests, NEW c \in ConsentIds, CallRevoke(r, c)
    PROVE  FiInv'
<1> DEFINE q == [New EXCEPT !.pc = "revoked", !.consent = c]
<1>1. /\ UNCHANGED <<activeTokens, rows, guards, accepted, interrupted>>
      /\ req' = [req EXCEPT ![r] = q] /\ Issuing!Settle(c, "REVOKED")
      /\ status[c] # "ABSENT"
  BY DEF CallRevoke, Issuing!Settle
<1>2. ConsentsOK
  BY <1>1, SettleOK DEF Statuses
<1>3. q \in RequestRecords /\ q.pc = "revoked" /\ q.consent = c
  BY DEF New, RequestRecords
<1> HIDE DEF q
<1>4. PICK p \in RequestRecords : p = q
  BY <1>3
<1>5. RequestOK(p)
  BY <1>1, <1>3, <1>4 DEF RequestOK
<1>6. RequestOK(p)'
  BY <1>2, <1>5, RequestOKStays DEF ConsentsOK
<1>7. req' \in [Requests -> RequestRecords] /\ \A s \in Requests : RequestOK(req[s])'
  BY <1>1, <1>2, <1>4, <1>6, OneMoves DEF ConsentsOK
<1>8. \A s \in Requests : req'[s].pc \notin {"new", "done"} => req'[s].consent \in ConsentIds
  BY <1>7 DEF RequestOK
<1>9. TypeOK'
  BY <1>1, <1>2, <1>7, <1>8 DEF FiInv, TypeOK, ConsentsOK, Grows, rows, guards
<1>10. RowInv'
  BY <1>1, <1>2, RowsStay DEF ConsentsOK, rows
<1>11. accepted' \subseteq Acceptances /\ GuardInv' /\ AcceptedApart'
  BY <1>1, AcceptancesStay DEF guards
<1> QED
  BY <1>2, <1>7, <1>9, <1>10, <1>11 DEF FiInv, ConsentsOK

\* A request writes its row and is over, or owes its success event.
LEMMA WriteKeepsInv ==
    ASSUME FiInv, NEW r \in Requests, req[r].pc \notin {"new", "done"},
           NEW written \in {"FAILED", "REVOKED", "VERIFIED"},
           fiRequest' = [fiRequest EXCEPT ![req[r].consent] = written],
           written = "VERIFIED" => req[r].pc = "accepted",
           Finish(r) \/ (Proceed(r, "verified") /\ req[r].pc = "accepted"),
           UNCHANGED <<consents, activeTokens, trail, guards, accepted, interrupted>>
    PROVE  FiInv'
<1>1. PICK c \in ConsentIds : c = req[r].consent
  BY AtStep DEF RequestOK
<1>2. status[c] # "ABSENT" /\ (req[r].pc = "accepted" => WasAccepted(c) /\ Signed(c))
  BY <1>1, AtStep DEF RequestOK
<1>3. Grows /\ ConsentInv'
  BY ConsentsStay
<1>4. /\ RowInv'
      /\ fiRequest' \in [ConsentIds -> {"NONE", "PENDING", "VERIFIED", "FAILED", "REVOKED"}]
  BY <1>1, <1>2, <1>3, RowWritten
<1>5. accepted' \subseteq Acceptances /\ GuardInv' /\ AcceptedApart'
  BY AcceptancesStay DEF guards
<1>6. PICK q \in RequestRecords : req' = [req EXCEPT ![r] = q] /\ RequestOK(q)
  <2>1. CASE Finish(r)
    BY <2>1, DoneOK DEF Finish
  <2>2. CASE Proceed(r, "verified") /\ req[r].pc = "accepted"
    <3> DEFINE left == [New EXCEPT !.pc = "verified", !.consent = req[r].consent]
    <3>1. left \in RequestRecords /\ left.pc = "verified" /\ left.consent = c
      BY <1>1, ProceedOK
    <3>2. req' = [req EXCEPT ![r] = left]
      BY <2>2 DEF Proceed
    <3> HIDE DEF left
    <3>3. RequestOK(left)
      BY <1>2, <2>2, <3>1 DEF RequestOK
    <3> QED
      BY <3>1, <3>2, <3>3
  <2> QED
    BY <2>1, <2>2
<1>7. RequestOK(q)'
  BY <1>3, <1>6, RequestOKStays
<1> QED
  BY <1>4, <1>5, <1>6, <1>7, StepKeepsInv DEF guards, FiInv, TypeOK

LEMMA ReadRequestKeepsInv ==
    ASSUME FiInv, NEW r \in Requests, NEW c \in ConsentIds, NEW a \in issued,
           ReadRequest(r, c, a)
    PROVE  FiInv'
<1> DEFINE q == [New EXCEPT !.pc = "row", !.consent = c, !.assertion = a]
<1>1. a \in Assertions /\ fiRequest[c] # "NONE"
  BY DEF FiInv, TypeOK, ReadRequest
<1>2. q \in RequestRecords /\ q.pc = "row" /\ q.consent = c /\ q.assertion = a
  BY <1>1 DEF New, RequestRecords
<1>3. req' = [req EXCEPT ![r] = q]
  BY DEF ReadRequest
<1> HIDE DEF q
<1>4. PICK p \in RequestRecords : p = q
  BY <1>2
<1>5. RequestOK(p)
  BY <1>1, <1>2, <1>4 DEF RequestOK, FiInv, RowInv
<1> QED
  BY <1>3, <1>4, <1>5, MoveKeepsInv DEF ReadRequest, FiInv, TypeOK

LEMMA FetchBindingKeepsInv ==
    ASSUME FiInv, NEW r \in Requests, FetchBinding(r)
    PROVE  FiInv'
<1>1. CASE Refuse(r)
  BY <1>1, RefuseKeepsInv DEF FetchBinding, FiInv, TypeOK
<1>2. CASE Goto(r, "bound") /\ ConsentIsGood(req[r].consent)
  <2>1. Signed(req[r].consent)
    BY <1>2, AtStep DEF FetchBinding, ConsentIsGood, RequestOK, FiInv, ConsentInv
  <2>2. RequestOK([req[r] EXCEPT !.pc = "bound"])
    BY <2>1, AtStep DEF FetchBinding, RequestOK, RequestRecords
  <2> QED
    BY <1>2, <2>2, GotoKeepsInv DEF FetchBinding, guards, FiInv, TypeOK
<1> QED
  BY <1>1, <1>2 DEF FetchBinding

LEMMA CheckAssertionKeepsInv ==
    ASSUME FiInv, NEW r \in Requests, CheckAssertion(r)
    PROVE  FiInv'
<1> DEFINE a == req[r].assertion
           q == [req[r] EXCEPT !.pc = "checked", !.ttl = a.exp - now]
<1>1. CASE Refuse(r)
  BY <1>1, RefuseKeepsInv DEF CheckAssertion, FiInv, TypeOK
<1>2. CASE now < a.exp /\ Matches(a, req[r].consent) /\ req' = [req EXCEPT ![r] = q]
  <2>1. /\ req[r] \in RequestRecords /\ RequestOK(req[r]) /\ req[r].pc = "bound"
        /\ a \in issued /\ a \in Assertions /\ a.exp \in Nat /\ now \in Nat
    BY AtStep DEF CheckAssertion, RequestOK, FiInv, TypeOK, Assertions
  <2>2. a.exp - now \in Nat /\ a.exp <= now + (a.exp - now)
    BY <1>2, <2>1
  <2>3. /\ q \in RequestRecords /\ q.pc = "checked" /\ q.ttl = a.exp - now
        /\ q.assertion = a /\ q.consent = req[r].consent
    BY <2>1, <2>2 DEF RequestRecords
  <2>4. req[r].consent \in ConsentIds /\ status[req[r].consent] # "ABSENT" /\ Signed(req[r].consent)
    BY <2>1 DEF RequestOK
  <2> HIDE DEF q
  <2>5. PICK p \in RequestRecords : p = q
    BY <2>3
  <2>6. RequestOK(p)
    BY <1>2, <2>1, <2>2, <2>3, <2>4, <2>5 DEF RequestOK
  <2> QED
    BY <1>2, <2>5, <2>6, MoveKeepsInv DEF CheckAssertion, FiInv, TypeOK
<1> QED
  BY <1>1, <1>2 DEF CheckAssertion

LEMMA LookupTokenKeepsInv ==
    ASSUME FiInv, NEW r \in Requests, LookupToken(r)
    PROVE  FiInv'
<1>1. CASE Refuse(r)
  BY <1>1, RefuseKeepsInv DEF LookupToken, FiInv, TypeOK
<1>2. CASE Goto(r, "tokenActive")
  <2>1. RequestOK([req[r] EXCEPT !.pc = "tokenActive"])
    BY AtStep DEF LookupToken, RequestOK, RequestRecords
  <2> QED
    BY <1>2, <2>1, GotoKeepsInv DEF LookupToken, guards, FiInv, TypeOK
<1> QED
  BY <1>1, <1>2 DEF LookupToken

LEMMA TakeJtiKeepsInv ==
    ASSUME FiInv, NEW r \in Requests, TakeJti(r)
    PROVE  FiInv'
<1> DEFINE k == <<req[r].assertion.consent, req[r].assertion.jti>>
<1>1. CASE Refuse(r) /\ UNCHANGED jtiGuard
  BY <1>1, RefuseKeepsInv DEF TakeJti, guards, FiInv, TypeOK
<1>2. CASE Goto(r, "jtiTaken") /\ jtiGuard' = [jtiGuard EXCEPT ![k] = now + req[r].ttl]
  <2>1. RequestOK([req[r] EXCEPT !.pc = "jtiTaken"])
    BY AtStep DEF TakeJti, RequestOK, RequestRecords
  <2>2. jtiGuard' \in [ConsentIds \X Jtis -> Nat]
    <3>1. now + req[r].ttl \in Nat /\ jtiGuard \in [ConsentIds \X Jtis -> Nat]
      BY AtStep DEF RequestRecords, FiInv, TypeOK
    <3> QED
      BY <1>2, <3>1
  <2> QED
    BY <1>2, <2>1, <2>2, GotoKeepsInv DEF TakeJti
<1> QED
  BY <1>1, <1>2 DEF TakeJti

\* The step the guards are there for: the nonce was free, so every assertion of
\* this consent that was accepted before has expired; and the guard taken lasts
\* as long as the assertion, however long ago ttlSeconds was computed.
LEMMA TakeNonceKeepsInv ==
    ASSUME FiInv, NEW r \in Requests, TakeNonce(r)
    PROVE  FiInv'
<1>1. CASE Refuse(r) /\ UNCHANGED <<nonceGuard, accepted>>
  BY <1>1, RefuseKeepsInv DEF TakeNonce, guards, FiInv, TypeOK
<1>2. ASSUME /\ now >= nonceGuard[req[r].assertion.consent]
             /\ nonceGuard' = [nonceGuard EXCEPT ![req[r].assertion.consent] = now + req[r].ttl]
             /\ Proceed(r, "accepted")
             /\ Accept(r)
      PROVE  FiInv'
  <2>1. PICK a \in issued, c \in ConsentIds, d \in ConsentIds, ttl \in Nat :
           /\ a = req[r].assertion /\ c = a.consent /\ d = req[r].consent /\ ttl = req[r].ttl
           /\ a \in Assertions /\ a.exp \in Nat
    BY AtStep DEF TakeNonce, RequestOK, RequestRecords, FiInv, TypeOK, Assertions
  <2>2. /\ a.exp <= now + ttl /\ Matches(a, d) /\ Signed(d) /\ status[d] # "ABSENT"
        /\ now \in Nat /\ nonceGuard \in [ConsentIds -> Nat] /\ nonceGuard[c] <= now
        /\ nonceGuard' = [nonceGuard EXCEPT ![c] = now + ttl]
    BY <1>2, <2>1, AtStep DEF TakeNonce, RequestOK, FiInv, TypeOK
  <2>3. PICK k \in Acceptances : /\ k.consent = d /\ k.assertion = a /\ k.at = now
                                 /\ accepted' = accepted \cup {k}
    <3>1. [by |-> r, consent |-> d, assertion |-> a, at |-> now] \in Acceptances
      BY <2>1, <2>2 DEF Acceptances
    <3> QED
      BY <1>2, <2>1, <3>1 DEF Accept
  <2>4. UNCHANGED <<consents, activeTokens, rows, jtiGuard, interrupted>>
    BY DEF TakeNonce
  <2>5. Grows /\ ConsentInv'
    BY <2>3, <2>4, ConsentsStay
  <2>6. \A l \in accepted : /\ l \in Acceptances /\ l.assertion.consent \in ConsentIds
                            /\ l.assertion.exp \in Nat /\ l.at \in Nat
                            /\ l.assertion.exp <= nonceGuard[l.assertion.consent]
    BY DEF FiInv, Acceptances, Assertions, GuardInv
  <2>7. GuardInv'
    BY <2>1, <2>2, <2>3, <2>6 DEF GuardInv
  <2>8. AcceptedApart'
    <3>1. \A l \in accepted : l.assertion.consent = c => now >= l.assertion.exp
      BY <2>2, <2>6
    <3> QED
      BY <2>1, <2>3, <3>1 DEF AcceptedApart, FiInv
  <2>9. PICK q \in RequestRecords :
           req' = [req EXCEPT ![r] = q] /\ q.pc = "accepted" /\ q.consent = d
    <3> DEFINE left == [New EXCEPT !.pc = "accepted", !.consent = req[r].consent]
    <3>1. left \in RequestRecords /\ left.pc = "accepted" /\ left.consent = d
      BY <2>1, ProceedOK DEF TakeNonce
    <3>2. req' = [req EXCEPT ![r] = left]
      BY <1>2 DEF Proceed
    <3> HIDE DEF left
    <3> QED
      BY <3>1, <3>2
  <2>10. RequestOK(q)'
    <3>1. status'[d] # "ABSENT" /\ Signed(d)'
      BY <2>2, <2>5, SignedStays DEF Grows
    <3>2. WasAccepted(d)'
      <4>1. a \in issued' /\ Matches(a, d)'
        BY <2>2, <2>5, MatchesStays DEF Grows
      <4>2. k \in accepted' /\ k.assertion \in issued' /\ Matches(k.assertion, d)'
        BY <2>3, <4>1 DEF Matches
      <4> QED
        BY <2>3, <4>2 DEF WasAccepted
    <3> QED
      BY <2>9, <3>1, <3>2 DEF RequestOK
  <2>11. RowInv'
    BY <2>4, <2>5, RowsStay DEF rows
  <2>12. nonceGuard' \in [ConsentIds -> Nat] /\ accepted' \subseteq Acceptances
    BY <2>2, <2>3 DEF FiInv
  <2> QED
    BY <2>3, <2>4, <2>7, <2>8, <2>9, <2>10, <2>11, <2>12, StepKeepsInv
       DEF rows, FiInv, TypeOK
<1> QED
  BY <1>1, <1>2 DEF TakeNonce

LEMMA WriteSuccessKeepsInv ==
    ASSUME FiInv, NEW r \in Requests, WriteSuccess(r)
    PROVE  FiInv'
<1>1. /\ UNCHANGED <<consents, activeTokens, fiRequest, guards, accepted, interrupted>>
      /\ req' = [req EXCEPT ![r] = Done]
      /\ trail' = [trail EXCEPT ![req[r].consent] = @ + 1]
  BY DEF WriteSuccess, Finish
<1>2. trail' \in [ConsentIds -> Nat]
  <2>1. PICK c \in ConsentIds : c = req[r].consent
    BY AtStep DEF WriteSuccess, RequestOK
  <2>2. trail \in [ConsentIds -> Nat] /\ trail' = [trail EXCEPT ![c] = @ + 1]
    BY <1>1, <2>1 DEF FiInv, TypeOK
  <2> QED
    BY <2>2
<1>3. Grows
  BY <1>1, ConsentsStay
<1>4. RowInv' /\ accepted' \subseteq Acceptances /\ GuardInv' /\ AcceptedApart'
  BY <1>1, <1>3, RowsStay, AcceptancesStay DEF guards
<1> QED
  BY <1>1, <1>2, <1>4, DoneOK, StepKeepsInv DEF guards, FiInv, TypeOK

\* A row is added to the interrupted ones.
LEMMA InterruptedTyped ==
    ASSUME FiInv, NEW r \in Requests,
           interrupted' = interrupted \cup IF OwesSuccess(r) THEN {req[r].consent} ELSE {}
    PROVE  interrupted' \subseteq ConsentIds
BY AtStep DEF OwesSuccess, RequestOK, FiInv, TypeOK

LEMMA StepOK ==
    ASSUME FiInv, NEW r \in Requests, Step(r)
    PROVE  FiInv'
<1>1. CASE WriteRevoked(r)
  BY <1>1, WriteKeepsInv DEF WriteRevoked
<1>2. CASE BindingUnreachable(r)
  BY <1>2, FinishKeepsInv DEF BindingUnreachable, FiInv, TypeOK
<1>3. CASE WriteVerified(r)
  BY <1>3, WriteKeepsInv DEF WriteVerified
<1>4. CASE CallFails(r)
  BY <1>4, InterruptedTyped, RefuseKeepsInv DEF CallFails
<1>5. CASE WriteFailed(r)
  BY <1>5, WriteKeepsInv DEF WriteFailed
<1>6. CASE Die(r)
  BY <1>6, InterruptedTyped, FinishKeepsInv DEF Die
<1> QED
  BY <1>1, <1>2, <1>3, <1>4, <1>5, <1>6, FetchBindingKeepsInv, CheckAssertionKeepsInv,
     LookupTokenKeepsInv, TakeJtiKeepsInv, TakeNonceKeepsInv, WriteSuccessKeepsInv DEF Step

LEMMA EnvironmentOK == FiInv /\ Environment => FiInv'
<1> SUFFICES ASSUME FiInv, Environment PROVE FiInv'
  OBVIOUS
<1>1. CASE Tick
  BY <1>1, TickOK, EnvironmentKeepsInv DEF Tick, FiInv, TypeOK
<1>2. ASSUME NEW c \in ConsentIds, NEW t \in Terms, NEW lifetime \in Lifetimes,
             OpenConsent(c, t, lifetime)
      PROVE  FiInv'
  BY <1>2, OpenOK, EnvironmentKeepsInv DEF OpenConsent, FiInv, TypeOK
<1>3. ASSUME NEW c \in ConsentIds, NEW scope \in SUBSET UNION {t.requested : t \in Terms},
             IssueAssertion(Issuing!Assertion(c, Cardinality(issued) + 1, scope))
      PROVE  FiInv'
  BY <1>3, IssueOK, EnvironmentKeepsInv DEF IssueAssertion, FiInv, TypeOK
<1>4. ASSUME NEW c \in ConsentIds, NEW decision \in Decisions, SettleConsent(c, decision)
      PROVE  FiInv'
  <2>1. decision \in Statuses \ {"ABSENT"}
    BY FiAssumption DEF Statuses
  <2> QED
    BY <1>4, <2>1, SettleOK, EnvironmentKeepsInv DEF SettleConsent, FiInv, TypeOK
<1>5. ASSUME NEW t \in TokenIds, RetireToken(t) PROVE FiInv'
  <2>1. Grows /\ ConsentInv'
    BY <1>5, ConsentsStay DEF RetireToken
  <2>2. ConsentsOK
    BY <1>5, <2>1 DEF RetireToken, ConsentsOK, consents, FiInv, TypeOK
  <2> QED
    BY <1>5, <2>2, EnvironmentKeepsInv DEF RetireToken, FiInv, TypeOK
<1> QED
  BY <1>1, <1>2, <1>3, <1>4, <1>5 DEF Environment

LEMMA StutterKeepsInv == FiInv /\ UNCHANGED vars => FiInv'
BY SMTT(20) DEF vars, consents, rows, guards, FiInv, TypeOK, ConsentInv, Signed, RequestOK, WasAccepted,
       Matches, Agreed, RowInv, GuardInv, AcceptedApart

-----------------------------------------------------------------------------
(* The theorems                                                            *)

LEMMA InitOK == Init => FiInv
<1> SUFFICES ASSUME Init PROVE FiInv
  OBVIOUS
<1>1. New \in RequestRecords /\ RequestOK(New)
  BY DEF New, RequestRecords, RequestOK
<1>2. IsFiniteSet(issued) /\ issued = {}
  BY FS_EmptySet DEF Init, Issuing!Init
<1> QED
  BY <1>1, <1>2 DEF Init, Issuing!Init, FiInv, TypeOK, ConsentInv, RowInv, GuardInv,
                    AcceptedApart, New, Statuses

LEMMA NextOK == FiInv /\ [Next]_vars => FiInv'
<1> SUFFICES ASSUME FiInv, Next PROVE FiInv'
  BY StutterKeepsInv
<1>1. ASSUME NEW r \in Requests, NEW c \in ConsentIds, Begin(r, c) PROVE FiInv'
  BY <1>1, CallRevokeKeepsInv, ReadRequestKeepsInv DEF Begin
<1> QED
  BY <1>1, EnvironmentOK, RecordRequestKeepsInv, StepOK DEF Next

LEMMA Invariance == Spec => []FiInv
BY InitOK, NextOK, PTL DEF Spec

\* The state keeps its shape, for any sets of consents, terms, tokens and requests.
THEOREM TypeCorrect == Spec => []TypeOK
<1>1. FiInv => TypeOK
  BY DEF FiInv
<1> QED
  BY <1>1, Invariance, PTL

\* Two acceptances of assertions of one consent are separated by the end of the
\* first one's life, for any life of an assertion and any number of requests:
\* a slow registry cannot shorten a guard below its assertion.
THEOREM GuardsSeparateAcceptances == Spec => []AcceptedApart
<1>1. FiInv => AcceptedApart
  BY DEF FiInv
<1> QED
  BY <1>1, Invariance, PTL

\* A VERIFIED row was accepted with a matching signed assertion, and its own
\* consent was approved.
THEOREM VerifiedRowsWereAccepted == Spec => []VerifiedWasAccepted
<1>1. FiInv => VerifiedWasAccepted
  BY DEF FiInv, RowInv, VerifiedWasAccepted, WasAccepted, Signed
<1> QED
  BY <1>1, Invariance, PTL

-----------------------------------------------------------------------------
(***************************************************************************)
(* The audit trail.  The success events written for a row and the requests *)
(* that still owe one are together as many as its acceptances, and a       *)
(* request accepts at most once: its own acceptance is a new one.          *)
(***************************************************************************)

Owing(c) == {r \in Requests : req[r].pc \in {"accepted", "verified"} /\ req[r].consent = c}

Owes(q, c) == IF q.pc \in {"accepted", "verified"} /\ q.consent = c THEN 1 ELSE 0

AcceptedFor(c) == {k \in accepted : k.consent = c}

\* What is left for a request that has accepted.
Past == {"accepted", "verified", "refused", "done"}

AuditInv ==
    /\ \A k \in accepted : req[k.by].pc \in Past
    /\ \A c \in ConsentIds : IsFiniteSet(AcceptedFor(c))
    /\ \A c \in ConsentIds \ interrupted :
          /\ IsFiniteSet(Owing(c))
          /\ trail[c] + Cardinality(Owing(c)) = Cardinality(AcceptedFor(c))

LEMMA OwingAfter ==
    ASSUME FiInv, NEW r \in Requests, NEW q, req' = [req EXCEPT ![r] = q],
           NEW c \in ConsentIds, IsFiniteSet(Owing(c))
    PROVE  /\ IsFiniteSet(Owing(c)')
           /\ Cardinality(Owing(c)) \in Nat /\ Cardinality(Owing(c)') \in Nat
           /\ Cardinality(Owing(c)') + Owes(req[r], c) = Cardinality(Owing(c)) + Owes(q, c)
<1>1. req'[r] = q /\ \A s \in Requests : s # r => req'[s] = req[s]
  BY DEF FiInv, TypeOK
<1>2. Cardinality(Owing(c)) \in Nat
  BY FS_CardinalityType
<1>3. r \in Owing(c) <=> Owes(req[r], c) = 1
  BY DEF Owing, Owes
<1>4. Owes(req[r], c) \in {0, 1}
  BY DEF Owes
<1>5. CASE Owes(q, c) = 1
  <2>1. Owing(c)' = Owing(c) \cup {r}
    BY <1>1, <1>5 DEF Owing, Owes
  <2>2. /\ IsFiniteSet(Owing(c) \cup {r})
        /\ Cardinality(Owing(c) \cup {r}) =
              IF r \in Owing(c) THEN Cardinality(Owing(c)) ELSE Cardinality(Owing(c)) + 1
    BY FS_AddElement
  <2> QED
    BY <2>1, <2>2, <1>2, <1>3, <1>4, <1>5
<1>6. CASE Owes(q, c) = 0
  <2>1. Owing(c)' = Owing(c) \ {r}
    BY <1>1, <1>6 DEF Owing, Owes
  <2>2. /\ IsFiniteSet(Owing(c) \ {r})
        /\ Cardinality(Owing(c) \ {r}) =
              IF r \in Owing(c) THEN Cardinality(Owing(c)) - 1 ELSE Cardinality(Owing(c))
    BY FS_RemoveElement
  <2>3. Cardinality(Owing(c) \ {r}) \in Nat
    BY <2>2, FS_CardinalityType
  <2> QED
    BY <2>1, <2>2, <2>3, <1>2, <1>3, <1>4, <1>6
<1> QED
  BY <1>5, <1>6 DEF Owes

\* What a step has to show for the account of the rows to stay right.
LEMMA AuditStays ==
    ASSUME FiInv, trail' \in [ConsentIds -> Nat], AuditInv,
           NEW r \in Requests, NEW q, req' = [req EXCEPT ![r] = q],
           interrupted \subseteq interrupted', req[r].pc \in Past => q.pc \in Past,
           \A k \in accepted' : k \in accepted \/ (k.by = r /\ q.pc \in Past),
           \A c \in ConsentIds : IsFiniteSet(AcceptedFor(c)'),
           \A c \in ConsentIds \ interrupted' :
              trail'[c] + Cardinality(AcceptedFor(c)) + Owes(q, c)
                 = trail[c] + Cardinality(AcceptedFor(c)') + Owes(req[r], c)
    PROVE  AuditInv'
<1>1. \A k \in accepted' : req'[k.by].pc \in Past
  <2>1. req'[r] = q /\ \A s \in Requests : s # r => req'[s] = req[s]
    BY DEF FiInv, TypeOK
  <2>2. \A k \in accepted : k.by \in Requests /\ req[k.by].pc \in Past
    BY DEF FiInv, Acceptances, AuditInv
  <2> QED
    BY <2>1, <2>2
<1>2. ASSUME NEW c \in ConsentIds \ interrupted'
      PROVE  IsFiniteSet(Owing(c)') /\ trail'[c] + Cardinality(Owing(c)') = Cardinality(AcceptedFor(c)')
  <2>1. /\ IsFiniteSet(Owing(c)) /\ IsFiniteSet(AcceptedFor(c))
        /\ trail[c] + Cardinality(Owing(c)) = Cardinality(AcceptedFor(c))
    BY DEF AuditInv
  <2>2. /\ IsFiniteSet(Owing(c)')
        /\ Cardinality(Owing(c)) \in Nat /\ Cardinality(Owing(c)') \in Nat
        /\ Cardinality(Owing(c)') + Owes(req[r], c) = Cardinality(Owing(c)) + Owes(q, c)
    <3>1. c \in ConsentIds
      OBVIOUS
    <3> QED
      BY <2>1, <3>1, OwingAfter, Zenon
  <2>3. Cardinality(AcceptedFor(c)) \in Nat /\ Cardinality(AcceptedFor(c)') \in Nat
    BY <2>1, FS_CardinalityType
  <2>4. trail[c] \in Nat /\ trail'[c] \in Nat
    BY DEF FiInv, TypeOK
  <2>5. Owes(q, c) \in Nat /\ Owes(req[r], c) \in Nat
    BY DEF Owes
  <2>6. trail'[c] + Cardinality(AcceptedFor(c)) + Owes(q, c)
           = trail[c] + Cardinality(AcceptedFor(c)') + Owes(req[r], c)
    OBVIOUS
  <2> QED
    BY <2>1, <2>2, <2>3, <2>4, <2>5, <2>6
<1> QED
  BY <1>1, <1>2 DEF AuditInv

\* Nothing is accepted or written in the trail, and nothing owed is forgotten.
LEMMA QuietAudit ==
    ASSUME FiInv, AuditInv, NEW r \in Requests, NEW q, req' = [req EXCEPT ![r] = q],
           UNCHANGED <<accepted, trail>>, interrupted \subseteq interrupted',
           req[r].pc \in Past => q.pc \in Past,
           \A c \in ConsentIds \ interrupted' : Owes(q, c) = Owes(req[r], c)
    PROVE  AuditInv'
<1>1. \A c \in ConsentIds : AcceptedFor(c)' = AcceptedFor(c)
  BY DEF AcceptedFor
<1>2. trail' \in [ConsentIds -> Nat] /\ \A c \in ConsentIds : IsFiniteSet(AcceptedFor(c)')
  BY <1>1 DEF FiInv, TypeOK, AuditInv
<1>3. \A c \in ConsentIds \ interrupted' :
         trail'[c] + Cardinality(AcceptedFor(c)) + Owes(q, c)
            = trail[c] + Cardinality(AcceptedFor(c)') + Owes(req[r], c)
  BY <1>1
<1> QED
  BY <1>2, <1>3, AuditStays

\* The steps of a request that owes nothing, before and after.
LEMMA IdleAudit ==
    ASSUME FiInv, AuditInv, NEW r \in Requests, NEW q, req' = [req EXCEPT ![r] = q],
           UNCHANGED <<accepted, trail, interrupted>>,
           req[r].pc \notin {"accepted", "verified"}, q.pc \notin {"accepted", "verified"},
           req[r].pc = "refused" => q.pc = "done", req[r].pc # "done"
    PROVE  AuditInv'
<1>1. \A c : Owes(q, c) = Owes(req[r], c)
  BY DEF Owes
<1>2. req[r].pc \in Past => q.pc \in Past
  BY DEF Past
<1>3. interrupted \subseteq interrupted' /\ UNCHANGED <<accepted, trail>>
  OBVIOUS
<1>4. \A c \in ConsentIds \ interrupted' : Owes(q, c) = Owes(req[r], c)
  BY <1>1
<1> QED
  BY <1>2, <1>3, <1>4, QuietAudit, Zenon

\* The request has the nonce: its acceptance is a new one, and owed an event.
LEMMA TakeNonceAudit ==
    ASSUME FiInv, AuditInv, NEW r \in Requests, TakeNonce(r)
    PROVE  AuditInv'
<1>1. req[r].pc = "jtiTaken" /\ UNCHANGED <<trail, interrupted>>
  BY DEF TakeNonce, rows
<1>2. CASE Refuse(r) /\ UNCHANGED accepted
  <2>1. PICK q : req' = [req EXCEPT ![r] = q] /\ q.pc = "refused"
    <3>1. [New EXCEPT !.pc = "refused", !.consent = req[r].consent].pc = "refused"
      BY DEF New
    <3> QED
      BY <1>2, <3>1 DEF Refuse, Proceed
  <2> QED
    BY <1>1, <1>2, <2>1, IdleAudit
<1>3. CASE Proceed(r, "accepted") /\ Accept(r)
  <2>1. PICK d \in ConsentIds : d = req[r].consent
    BY <1>1, AtStep DEF RequestOK
  <2>2. PICK q : req' = [req EXCEPT ![r] = q] /\ q.pc = "accepted" /\ q.consent = d
    <3>1. LET left == [New EXCEPT !.pc = "accepted", !.consent = req[r].consent]
          IN  left.pc = "accepted" /\ left.consent = d
      BY <2>1 DEF New
    <3> QED
      BY <1>3, <3>1 DEF Proceed
  <2>3. PICK k : accepted' = accepted \cup {k} /\ k.by = r /\ k.consent = d
    <3> DEFINE new == [by |-> r, consent |-> req[r].consent, assertion |-> req[r].assertion,
                       at |-> now]
    <3>1. new.by = r /\ new.consent = d
      BY <2>1
    <3>2. accepted' = accepted \cup {new}
      BY <1>3 DEF Accept
    <3> HIDE DEF new
    <3> QED
      BY <3>1, <3>2
  <2>4. k \notin accepted
    BY <1>1, <2>3 DEF AuditInv, Past
  <2>5. ASSUME NEW c \in ConsentIds
        PROVE  /\ IsFiniteSet(AcceptedFor(c)')
               /\ Cardinality(AcceptedFor(c)') = Cardinality(AcceptedFor(c)) + Owes(q, c)
               /\ Cardinality(AcceptedFor(c)) \in Nat
    <3>1. IsFiniteSet(AcceptedFor(c)) /\ k \notin AcceptedFor(c)
      BY <2>4 DEF AuditInv, AcceptedFor
    <3>2. AcceptedFor(c)' = IF c = d THEN AcceptedFor(c) \cup {k} ELSE AcceptedFor(c)
      BY <2>3 DEF AcceptedFor
    <3>3. /\ IsFiniteSet(AcceptedFor(c) \cup {k})
          /\ Cardinality(AcceptedFor(c) \cup {k}) = Cardinality(AcceptedFor(c)) + 1
          /\ Cardinality(AcceptedFor(c)) \in Nat
      BY <3>1, FS_AddElement, FS_CardinalityType
    <3>4. Owes(q, c) = IF c = d THEN 1 ELSE 0
      BY <2>2 DEF Owes
    <3> QED
      BY <3>1, <3>2, <3>3, <3>4
  <2>6. \A c \in ConsentIds \ interrupted' :
           trail'[c] + Cardinality(AcceptedFor(c)) + Owes(q, c)
              = trail[c] + Cardinality(AcceptedFor(c)') + Owes(req[r], c)
    <3> SUFFICES ASSUME NEW c \in ConsentIds \ interrupted'
                 PROVE  trail'[c] + Cardinality(AcceptedFor(c)) + Owes(q, c)
                           = trail[c] + Cardinality(AcceptedFor(c)') + Owes(req[r], c)
      OBVIOUS
    <3>1. Owes(req[r], c) = 0 /\ Owes(q, c) \in Nat
      BY <1>1 DEF Owes
    <3>2. trail'[c] = trail[c] /\ trail[c] \in Nat
      BY <1>1 DEF FiInv, TypeOK
    <3> QED
      BY <2>5, <3>1, <3>2
  <2>7. trail' \in [ConsentIds -> Nat] /\ interrupted \subseteq interrupted'
    BY <1>1 DEF FiInv, TypeOK
  <2>8. /\ req[r].pc \in Past => q.pc \in Past
        /\ \A l \in accepted' : l \in accepted \/ (l.by = r /\ q.pc \in Past)
        /\ \A c \in ConsentIds : IsFiniteSet(AcceptedFor(c)')
    BY <2>2, <2>3, <2>5 DEF Past
  <2> QED
    BY <2>2, <2>6, <2>7, <2>8, AuditStays, Zenon
<1> QED
  BY <1>2, <1>3 DEF TakeNonce

LEMMA WriteSuccessAudit ==
    ASSUME FiInv, AuditInv, NEW r \in Requests, WriteSuccess(r)
    PROVE  AuditInv'
<1>1. PICK d \in ConsentIds : d = req[r].consent
  BY AtStep DEF WriteSuccess, RequestOK
<1>2. /\ req[r].pc = "verified" /\ UNCHANGED <<accepted, interrupted>>
      /\ trail' = [trail EXCEPT ![d] = @ + 1]
  BY <1>1 DEF WriteSuccess
<1>3. PICK q : req' = [req EXCEPT ![r] = q] /\ q.pc = "done"
  <2>1. Done.pc = "done"
    BY DEF Done, New
  <2> QED
    BY <2>1 DEF WriteSuccess, Finish
<1>4. /\ trail \in [ConsentIds -> Nat] /\ trail' \in [ConsentIds -> Nat]
      /\ \A c \in ConsentIds : trail'[c] = trail[c] + IF c = d THEN 1 ELSE 0
  BY <1>2 DEF FiInv, TypeOK
<1>5. \A c \in ConsentIds : /\ AcceptedFor(c)' = AcceptedFor(c)
                            /\ IsFiniteSet(AcceptedFor(c))
                            /\ Cardinality(AcceptedFor(c)) \in Nat
  BY <1>2, FS_CardinalityType DEF AcceptedFor, AuditInv
<1>6. \A c \in ConsentIds : Owes(q, c) = 0 /\ Owes(req[r], c) = IF c = d THEN 1 ELSE 0
  BY <1>1, <1>2, <1>3 DEF Owes
<1>7. \A c \in ConsentIds \ interrupted' :
         trail'[c] + Cardinality(AcceptedFor(c)) + Owes(q, c)
            = trail[c] + Cardinality(AcceptedFor(c)') + Owes(req[r], c)
  BY <1>4, <1>5, <1>6
<1>8. /\ req[r].pc \in Past => q.pc \in Past
      /\ interrupted \subseteq interrupted'
      /\ \A l \in accepted' : l \in accepted \/ (l.by = r /\ q.pc \in Past)
      /\ \A c \in ConsentIds : IsFiniteSet(AcceptedFor(c)')
  BY <1>2, <1>3, <1>5 DEF Past
<1> QED
  BY <1>3, <1>4, <1>7, <1>8, AuditStays, Zenon

\* A request that fails takes its row out of the account if it owed its event.
LEMMA FailureAudit ==
    ASSUME FiInv, AuditInv, NEW r \in Requests, NEW q, req' = [req EXCEPT ![r] = q],
           q.pc \in {"refused", "done"}, req[r].pc = "refused" => q.pc = "done",
           req[r].pc # "done", UNCHANGED <<accepted, trail>>,
           interrupted' = interrupted \cup IF OwesSuccess(r) THEN {req[r].consent} ELSE {}
    PROVE  AuditInv'
<1>1. \A c \in ConsentIds \ interrupted' : Owes(q, c) = Owes(req[r], c)
  BY DEF Owes, OwesSuccess
<1>2. (req[r].pc \in Past => q.pc \in Past) /\ interrupted \subseteq interrupted'
  BY DEF Past
<1> QED
  BY <1>1, <1>2, QuietAudit

LEMMA FinishPc ==
    ASSUME NEW r, Finish(r)
    PROVE  \E q : req' = [req EXCEPT ![r] = q] /\ q.pc = "done"
<1>1. Done.pc = "done"
  BY DEF Done, New
<1> QED
  BY <1>1 DEF Finish

LEMMA ProceedPc ==
    ASSUME NEW r, NEW pc, Proceed(r, pc)
    PROVE  \E q : req' = [req EXCEPT ![r] = q] /\ q.pc = pc /\ q.consent = req[r].consent
<1>1. LET q == [New EXCEPT !.pc = pc, !.consent = req[r].consent]
      IN  q.pc = pc /\ q.consent = req[r].consent
  BY DEF New
<1> QED
  BY <1>1 DEF Proceed

LEMMA GotoPc ==
    ASSUME FiInv, NEW r \in Requests, NEW pc, Goto(r, pc)
    PROVE  \E q : req' = [req EXCEPT ![r] = q] /\ q.pc = pc
<1>1. [req[r] EXCEPT !.pc = pc].pc = pc
  BY AtStep DEF RequestRecords
<1>2. req' = [req EXCEPT ![r] = [req[r] EXCEPT !.pc = pc]]
  BY AtStep DEF Goto
<1> QED
  BY <1>1, <1>2

\* The steps before a request accepts, and those of a revocation.
LEMMA EarlyAudit ==
    ASSUME FiInv, AuditInv, NEW r \in Requests,
           \/ \E c \in ConsentIds : Begin(r, c)
           \/ FetchBinding(r) \/ BindingUnreachable(r) \/ CheckAssertion(r) \/ LookupToken(r)
           \/ TakeJti(r) \/ WriteRevoked(r) \/ WriteFailed(r)
    PROVE  AuditInv'
<1>1. UNCHANGED <<accepted, trail, interrupted>>
  BY DEF Begin, CallRevoke, ReadRequest, FetchBinding, BindingUnreachable, CheckAssertion,
         LookupToken, TakeJti, WriteRevoked, WriteFailed, rows
<1>2. CASE \E c \in ConsentIds : Begin(r, c)
  <2>1. PICK q : req' = [req EXCEPT ![r] = q] /\ q.pc \in {"row", "revoked"}
    <3>1. ASSUME NEW c, CallRevoke(r, c)
          PROVE  LET q == [New EXCEPT !.pc = "revoked", !.consent = c]
                 IN  req' = [req EXCEPT ![r] = q] /\ q.pc = "revoked"
      BY <3>1 DEF CallRevoke, New
    <3>2. ASSUME NEW c, NEW a, ReadRequest(r, c, a)
          PROVE  LET q == [New EXCEPT !.pc = "row", !.consent = c, !.assertion = a]
                 IN  req' = [req EXCEPT ![r] = q] /\ q.pc = "row"
      BY <3>2 DEF ReadRequest, New
    <3> QED
      BY <1>2, <3>1, <3>2 DEF Begin
  <2>2. req[r].pc = "new"
    BY <1>2 DEF Begin, CallRevoke, ReadRequest, IsNew
  <2> QED
    BY <1>1, <2>1, <2>2, IdleAudit
<1>3. CASE FetchBinding(r) \/ CheckAssertion(r) \/ LookupToken(r) \/ TakeJti(r)
  <2>1. req[r].pc \in {"row", "bound", "checked", "tokenActive"}
    BY <1>3 DEF FetchBinding, CheckAssertion, LookupToken, TakeJti
  <2>2. CASE Refuse(r)
    <3>1. PICK q : req' = [req EXCEPT ![r] = q] /\ q.pc = "refused"
      BY <2>2, ProceedPc DEF Refuse
    <3> QED
      BY <1>1, <2>1, <3>1, IdleAudit
  <2>3. ASSUME NEW pc \in {"bound", "tokenActive", "jtiTaken"}, Goto(r, pc) PROVE AuditInv'
    <3>1. PICK q : req' = [req EXCEPT ![r] = q] /\ q.pc = pc
      BY <2>3, GotoPc
    <3> QED
      BY <1>1, <2>1, <3>1, IdleAudit
  <2>4. ASSUME CheckAssertion(r), ~Refuse(r) PROVE AuditInv'
    <3> DEFINE left == [req[r] EXCEPT !.pc = "checked", !.ttl = req[r].assertion.exp - now]
    <3>1. left.pc = "checked"
      BY AtStep DEF RequestRecords
    <3>2. req' = [req EXCEPT ![r] = left]
      BY <2>4, AtStep DEF CheckAssertion
    <3> HIDE DEF left
    <3>3. PICK q : req' = [req EXCEPT ![r] = q] /\ q.pc = "checked"
      BY <3>1, <3>2
    <3> QED
      BY <1>1, <2>1, <3>3, IdleAudit
  <2> QED
    BY <1>3, <2>2, <2>3, <2>4 DEF FetchBinding, LookupToken, TakeJti
<1>4. CASE BindingUnreachable(r) \/ WriteRevoked(r) \/ WriteFailed(r)
  <2>1. req[r].pc \in {"row", "revoked", "refused"} /\ Finish(r)
    BY <1>4 DEF BindingUnreachable, WriteRevoked, WriteFailed
  <2>2. PICK q : req' = [req EXCEPT ![r] = q] /\ q.pc = "done"
    BY <2>1, FinishPc
  <2> QED
    BY <1>1, <2>1, <2>2, IdleAudit
<1> QED
  BY <1>2, <1>3, <1>4

LEMMA LateAudit ==
    ASSUME FiInv, AuditInv, NEW r \in Requests, WriteVerified(r) \/ CallFails(r) \/ Die(r)
    PROVE  AuditInv'
<1>1. CASE WriteVerified(r)
  <2>1. PICK q : req' = [req EXCEPT ![r] = q] /\ q.pc = "verified" /\ q.consent = req[r].consent
    BY <1>1, ProceedPc DEF WriteVerified
  <2>2. req[r].pc = "accepted" /\ UNCHANGED <<accepted, trail>> /\ interrupted \subseteq interrupted'
    BY <1>1 DEF WriteVerified
  <2>3. \A c \in ConsentIds \ interrupted' : Owes(q, c) = Owes(req[r], c)
    BY <2>1, <2>2 DEF Owes
  <2>4. req[r].pc \in Past => q.pc \in Past
    BY <2>1 DEF Past
  <2> QED
    BY <2>1, <2>2, <2>3, <2>4, QuietAudit
<1>2. CASE CallFails(r)
  <2>1. PICK q : req' = [req EXCEPT ![r] = q] /\ q.pc = "refused"
    BY <1>2, ProceedPc DEF CallFails, Refuse
  <2>2. /\ req[r].pc \notin {"refused", "done"} /\ UNCHANGED <<accepted, trail>>
        /\ interrupted' = interrupted \cup IF OwesSuccess(r) THEN {req[r].consent} ELSE {}
    BY <1>2 DEF CallFails, rows
  <2> QED
    BY <2>1, <2>2, FailureAudit
<1>3. CASE Die(r)
  <2>1. PICK q : req' = [req EXCEPT ![r] = q] /\ q.pc = "done"
    BY <1>3, FinishPc DEF Die
  <2>2. /\ req[r].pc # "done" /\ UNCHANGED <<accepted, trail>>
        /\ interrupted' = interrupted \cup IF OwesSuccess(r) THEN {req[r].consent} ELSE {}
    BY <1>3 DEF Die, rows
  <2> QED
    BY <2>1, <2>2, FailureAudit
<1> QED
  BY <1>1, <1>2, <1>3

LEMMA NextAudit == FiInv /\ AuditInv /\ [Next]_vars => AuditInv'
<1> SUFFICES ASSUME FiInv, AuditInv, [Next]_vars PROVE AuditInv'
  OBVIOUS
<1>1. CASE UNCHANGED <<accepted, trail, interrupted, req>>
  <2>1. \A c : Owing(c)' = Owing(c) /\ AcceptedFor(c)' = AcceptedFor(c)
    BY <1>1 DEF Owing, AcceptedFor
  <2> QED
    BY <1>1, <2>1 DEF AuditInv
<1>2. CASE Environment \/ (\E c \in ConsentIds : RecordRequest(c)) \/ UNCHANGED vars
  <2>1. UNCHANGED <<accepted, trail, interrupted, req>>
    BY <1>2 DEF Environment, Tick, OpenConsent, IssueAssertion, SettleConsent, RetireToken,
                RecordRequest, rows, vars
  <2> QED
    BY <1>1, <2>1
<1>3. ASSUME NEW r \in Requests, NEW c \in ConsentIds, Begin(r, c) PROVE AuditInv'
  BY <1>3, EarlyAudit
<1>4. ASSUME NEW r \in Requests, Step(r) PROVE AuditInv'
  BY <1>4, EarlyAudit, LateAudit, TakeNonceAudit, WriteSuccessAudit DEF Step
<1> QED
  BY <1>2, <1>3, <1>4 DEF Next

LEMMA InitAudit == Init => AuditInv
<1> SUFFICES ASSUME Init PROVE AuditInv
  OBVIOUS
<1>1. accepted = {} /\ \A c \in ConsentIds : trail[c] = 0
  BY DEF Init
<1>2. \A c : Owing(c) = {} /\ AcceptedFor(c) = {}
  BY DEF Init, New, Owing, AcceptedFor
<1>3. IsFiniteSet({}) /\ Cardinality({}) = 0
  BY FS_EmptySet
<1>4. ASSUME NEW c \in ConsentIds
      PROVE  /\ IsFiniteSet(AcceptedFor(c)) /\ IsFiniteSet(Owing(c))
             /\ trail[c] + Cardinality(Owing(c)) = Cardinality(AcceptedFor(c))
  BY <1>1, <1>2, <1>3
<1> QED
  BY <1>1, <1>4 DEF AuditInv

\* Every acceptance has exactly one success event, unless the request that made
\* it is at work on it, failed or died: overlapping verifications of one row
\* neither lose nor double one (addAuditEvent of fi-service/src/index.ts).
THEOREM TrailTellsAcceptances == Spec => []AuditTellsAcceptances
<1>1. AuditInv /\ FiInv => AuditTellsAcceptances
  <2> SUFFICES ASSUME AuditInv, FiInv, NEW c \in ConsentIds, c \notin interrupted,
                      \A r \in Requests : req[r].consent = c => ~OwesSuccess(r)
               PROVE  trail[c] = Cardinality({k \in accepted : k.consent = c})
    BY DEF AuditTellsAcceptances
  <2>1. Owing(c) = {}
    BY DEF Owing, OwesSuccess
  <2>2. trail[c] + 0 = Cardinality(AcceptedFor(c))
    BY <2>1, FS_EmptySet DEF AuditInv
  <2>3. trail[c] \in Nat
    BY DEF FiInv, TypeOK
  <2> QED
    BY <2>2, <2>3 DEF AcceptedFor
<1>2. Spec => []AuditInv
  <2>1. Init /\ [][Next]_vars /\ []FiInv => []AuditInv
    BY InitAudit, NextAudit, PTL
  <2> QED
    BY <2>1, Invariance, PTL DEF Spec
<1> QED
  BY <1>1, <1>2, Invariance, PTL

=============================================================================
