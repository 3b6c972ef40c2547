---------------------------- MODULE WalletProofs ----------------------------
(***************************************************************************)
(* Theorems about WalletDelegation, for any nominees, scopes, requests and *)
(* number of delegations.                                                  *)
(***************************************************************************)
EXTENDS WalletDelegation, TLAPS

\* A request between its two writes remembers how many delegations there were when it
\* revoked those it replaces; what is ACTIVE of its scope came later.
ReplacingSees ==
    \A r \in Requests : req[r].pc = "replaced" =>
        /\ req[r].saw <= made
        /\ \A i \in ActiveOf(req[r].delegate, req[r].scope) : req[r].saw < i

Disabling(d) == \E r \in Requests : req[r].pc = "disabled" /\ req[r].delegate = d

\* All a nominee holds came after the last disable had revoked, whether he is DISABLED
\* or not, unless one is between its two writes or died there.
Swept(d) ==
    \/ Disabling(d)
    \/ <<d, NoScope>> \in interrupted
    \/ /\ sweptUpTo[d] <= made
       /\ \A s \in Scopes : \A i \in ActiveOf(d, s) : sweptUpTo[d] < i

WalletInv ==
    /\ TypeOK
    /\ ReplacingSees
    /\ TwoActiveOnlyIfOverlapping
    /\ \A d \in Nominees : Swept(d)
    /\ ReplacementArrives

-----------------------------------------------------------------------------
(* What the statements do to the table                                     *)

LEMMA MadeIsNat == TypeOK => made \in Nat /\ made <= MaxDelegations
BY WalletAssumption DEF TypeOK, Ids

\* No row is lost or made, none changes hands, and none becomes ACTIVE again.
RowsOnlyFall ==
    /\ delegations' \in [Ids -> Delegations \cup {Absent}]
    /\ \A i \in Ids : /\ Exists(i)' <=> Exists(i)
                      /\ delegations'[i].delegate = delegations[i].delegate
                      /\ delegations'[i].scope = delegations[i].scope
                      /\ Active(i)' => Active(i)

LEMMA StatusOnlyFalls ==
    ASSUME TypeOK, NEW ids \in SUBSET (1 .. made), NEW status \in {"REVOKED", "EXPIRED"},
           SetStatus(ids, status)
    PROVE  RowsOnlyFall /\ \A i \in ids : ~Active(i)'
<1>1. ids \subseteq Ids
  BY MadeIsNat, WalletAssumption DEF Ids
<1>2. \A i \in ids : Exists(i) /\ delegations[i] \in Delegations
  BY <1>1 DEF TypeOK, Exists, Absent
<1>3. \A i \in ids : /\ [delegations[i] EXCEPT !.status = status] \in Delegations
                     /\ delegations'[i] = [delegations[i] EXCEPT !.status = status]
  BY <1>1, <1>2 DEF SetStatus, Delegations
<1>4. \A i \in ids : /\ delegations'[i].delegate = delegations[i].delegate
                     /\ delegations'[i].scope = delegations[i].scope
                     /\ delegations'[i].status = status
                     /\ delegations'[i] \in Delegations
  BY <1>2, <1>3 DEF Delegations
<1>5. \A i \in Ids \ ids : delegations'[i] = delegations[i]
  BY DEF SetStatus
<1>6. delegations' \in [Ids -> Delegations \cup {Absent}]
  <2>1. \A i \in Ids : delegations'[i] \in Delegations \cup {Absent}
    BY <1>4, <1>5 DEF TypeOK
  <2>2. delegations' = [i \in Ids |-> delegations'[i]]
    BY DEF SetStatus
  <2> QED
    BY <2>1, <2>2
<1>7. \A i \in ids : Exists(i)' /\ ~Active(i)'
  BY <1>4 DEF Exists, Active
<1> QED
  BY <1>1, <1>2, <1>4, <1>5, <1>6, <1>7 DEF RowsOnlyFall, Exists, Active

LEMMA ActiveExists ==
    ASSUME TypeOK, NEW i \in Ids, Active(i)
    PROVE  /\ i \in 1 .. made
           /\ delegations[i].delegate \in Nominees /\ delegations[i].scope \in Scopes
<1>1. Exists(i) /\ delegations[i] \in Delegations
  BY DEF Active, Exists, TypeOK, Absent
<1> QED
  BY <1>1, MadeIsNat DEF TypeOK, Delegations, Ids

\* The steps of a request that write the table's statuses.
LEMMA RevokeDelegationsFall ==
    ASSUME TypeOK, NEW r \in Requests, RevokeDelegations(r)
    PROVE  /\ RowsOnlyFall
           /\ \A i \in Ids : delegations[i].delegate = req[r].delegate => ~Active(i)'
<1> DEFINE ids == UNION {ActiveOf(req[r].delegate, s) : s \in Scopes}
<1>1. ids \in SUBSET (1 .. made) /\ SetStatus(ids, "REVOKED")
  BY ActiveExists DEF ActiveOf, RevokeDelegations
<1>2. RowsOnlyFall /\ \A i \in ids : ~Active(i)'
  BY <1>1, StatusOnlyFalls
<1>3. \A i \in Ids : delegations[i].delegate = req[r].delegate /\ Active(i) => i \in ids
  BY ActiveExists DEF ActiveOf
<1> QED
  BY <1>2, <1>3 DEF RowsOnlyFall

LEMMA ReplaceDelegationsFall ==
    ASSUME TypeOK, NEW r \in Requests, ReplaceDelegations(r)
    PROVE  /\ RowsOnlyFall
           /\ ActiveOf(req[r].delegate, req[r].scope)' = {}
           /\ ActiveOf(req[r].delegate, req[r].scope) \subseteq 1 .. made
<1> DEFINE old == ActiveOf(req[r].delegate, req[r].scope)
<1>1. old \in SUBSET (1 .. made) /\ SetStatus(old, "REVOKED")
  BY ActiveExists DEF ActiveOf, ReplaceDelegations
<1>2. RowsOnlyFall /\ \A i \in old : ~Active(i)'
  BY <1>1, StatusOnlyFalls
<1>3. PICK d, s : d = req[r].delegate /\ s = req[r].scope
  OBVIOUS
<1>4. ReplaceDelegations(r) => req'[r].delegate = req[r].delegate /\ req'[r].scope = req[r].scope
  BY DEF ReplaceDelegations, TypeOK, RequestRecords
<1>5. ActiveOf(d, s)' = {}
  BY <1>2, <1>3 DEF RowsOnlyFall, ActiveOf
<1> QED
  BY <1>1, <1>2, <1>3, <1>4, <1>5

LEMMA ExpireDelegationsFall ==
    ASSUME TypeOK, ExpireDelegations
    PROVE  RowsOnlyFall
<1> DEFINE ids == {i \in Ids : Active(i) /\ delegations[i].expiresAt <= now}
<1>1. ids \in SUBSET (1 .. made) /\ SetStatus(ids, "EXPIRED")
  BY ActiveExists DEF ExpireDelegations
<1> QED
  BY <1>1, StatusOnlyFalls

LEMMA RevokeDelegationFalls ==
    ASSUME TypeOK, NEW r \in Requests, RevokeDelegation(r)
    PROVE  RowsOnlyFall
<1>1. {req[r].id} \in SUBSET (1 .. made) /\ SetStatus({req[r].id}, "REVOKED")
  BY DEF RevokeDelegation, TypeOK
<1> QED
  BY <1>1, StatusOnlyFalls

-----------------------------------------------------------------------------
(* Type correctness                                                        *)

LEMMA RecordsOfRequests ==
    /\ New \in RequestRecords /\ Done \in RequestRecords
    /\ New.pc = "new" /\ Done.pc = "done"
BY WalletAssumption DEF New, Done, RequestRecords

LEMMA InitInv == Init => WalletInv
<1> SUFFICES ASSUME Init PROVE WalletInv
  OBVIOUS
<1>1. \A i \in Ids : ~Exists(i) /\ ~Active(i) /\ i > 0
  BY DEF Init, Exists, Active, Absent, Ids
<1>2. TypeOK
  BY <1>1, RecordsOfRequests DEF Init, TypeOK, Ids
<1>3. \A r \in Requests : req[r].pc = "new"
  BY RecordsOfRequests DEF Init
<1>4. \A d, s : ActiveOf(d, s) = {}
  BY <1>1 DEF ActiveOf
<1>5. ReplacingSees /\ TwoActiveOnlyIfOverlapping /\ ReplacementArrives
  BY <1>3, <1>4 DEF Init, ReplacingSees, TwoActiveOnlyIfOverlapping, ReplacementArrives
<1>6. \A d \in Nominees : Swept(d)
  BY <1>4 DEF Init, Swept
<1> QED
  BY <1>2, <1>5, <1>6 DEF WalletInv

\* What a request's record has to be like (TypeOK).
RequestOK(record, n) ==
    /\ record \in RequestRecords
    /\ record.pc \in {"disabled", "checked", "replaced"} => record.delegate \in Nominees
    /\ record.pc \in {"checked", "replaced"} => record.scope \in Scopes
    /\ record.pc = "found" => record.id \in 1 .. n

RequestsOK ==
    /\ req \in [Requests -> RequestRecords]
    /\ \A r \in Requests :
          /\ req[r].pc \in {"disabled", "checked", "replaced"} => req[r].delegate \in Nominees
          /\ req[r].pc \in {"checked", "replaced"} => req[r].scope \in Scopes
          /\ req[r].pc = "found" => req[r].id \in 1 .. made

LEMMA OneRequestChanges ==
    ASSUME TypeOK, NEW r \in Requests, NEW record, RequestOK(record, made),
           req' = [req EXCEPT ![r] = record], made' = made \/ made' = made + 1
    PROVE  RequestsOK'
<1>1. req'[r] = record /\ \A q \in Requests \ {r} : req'[q] = req[q]
  BY DEF TypeOK
<1>2. req' \in [Requests -> RequestRecords]
  BY DEF TypeOK, RequestOK
<1>3. made \in Nat
  BY MadeIsNat
<1>4. \A q \in Requests \ {r} : req[q].pc = "found" => req'[q].id \in 1 .. made'
  BY <1>1, <1>3 DEF TypeOK
<1>5. req'[r].pc = "found" => req'[r].id \in 1 .. made'
  BY <1>1, <1>3 DEF RequestOK
<1> QED
  BY <1>1, <1>2, <1>4, <1>5 DEF TypeOK, RequestOK, RequestsOK

LEMMA DoneIsOK == ASSUME NEW n \in Nat PROVE RequestOK(Done, n)
BY RecordsOfRequests DEF RequestOK

\* A step after which the rows are there as they were, only fallen, keeps the table's
\* part of TypeOK.
LEMMA TypeAfterFall ==
    ASSUME TypeOK, RowsOnlyFall, made' = made, now' = now, nominee' = nominee,
           RequestsOK',
           sweptUpTo' \in [Nominees -> Ids \cup {0}],
           seenBy' \in [Ids -> Ids \cup {0}],
           replaced' \subseteq 1 .. made,
           interrupted' \subseteq Nominees \X (Scopes \cup {NoScope})
    PROVE  TypeOK'
BY DEF TypeOK, RowsOnlyFall, RequestsOK

LEMMA NextKeepsType ==
    ASSUME TypeOK, [Next]_vars
    PROVE  TypeOK'
<1> USE MadeIsNat
<1>1. CASE Tick
  BY <1>1 DEF Tick, TypeOK, table, history, Exists
<1>2. ASSUME NEW d \in Nominees, SaveNominee(d) \/ EnableNominee(d)
      PROVE  TypeOK'
  BY <1>2 DEF SaveNominee, EnableNominee, TypeOK, table, history, Exists
<1>3. CASE ExpireDelegations
  <2>1. RowsOnlyFall
    BY <1>3, ExpireDelegationsFall
  <2>2. RequestsOK'
    BY <1>3 DEF ExpireDelegations, TypeOK, RequestsOK
  <2> QED
    BY <1>3, <2>1, <2>2, TypeAfterFall DEF ExpireDelegations, TypeOK, history
<1>4. ASSUME NEW r \in Requests, NEW d \in Nominees, DisableNominee(r, d)
      PROVE  TypeOK'
  <2> DEFINE record == [New EXCEPT !.pc = "disabled", !.delegate = d]
  <2>1. RequestOK(record, made)
    BY <1>4, RecordsOfRequests DEF RequestOK, RequestRecords
  <2>2. req' = [req EXCEPT ![r] = record] /\ made' = made
    BY <1>4 DEF DisableNominee, table
  <2> HIDE DEF record
  <2>3. MaxDelegations \in Ids \cup {0}
    BY WalletAssumption DEF Ids
  <2>4. sweptUpTo' \in [Nominees -> Ids \cup {0}]
    BY <1>4, <2>3 DEF DisableNominee, TypeOK
  <2>5. nominee' \in [Nominees -> {"NONE", "ACTIVE", "DISABLED"}]
    BY <1>4 DEF DisableNominee, TypeOK
  <2>9. RequestsOK'
    BY <2>1, <2>2, OneRequestChanges
  <2> QED
    BY <1>4, <2>1, <2>2, <2>4, <2>5, <2>9
    DEF DisableNominee, TypeOK, table, history, Exists, RequestsOK
<1>5. ASSUME NEW r \in Requests, NEW d \in Nominees, NEW s \in Scopes, NEW lifetime \in Lifetimes,
             CheckNominee(r, d, s, lifetime)
      PROVE  TypeOK'
  <2> DEFINE record == [New EXCEPT !.pc = "checked", !.delegate = d, !.scope = s,
                                   !.expiresAt = now + lifetime]
  <2>0. now + lifetime \in Nat
    BY WalletAssumption DEF TypeOK
  <2>1. RequestOK(record, made)
    BY <2>0, RecordsOfRequests DEF RequestOK, RequestRecords
  <2>2. req' = [req EXCEPT ![r] = record] /\ made' = made
    BY <1>5 DEF CheckNominee, table
  <2> HIDE DEF record
  <2>9. RequestsOK'
    BY <2>1, <2>2, OneRequestChanges
  <2> QED
    BY <1>5, <2>1, <2>2, <2>9 DEF CheckNominee, TypeOK, table, history, Exists, RequestsOK
<1>6. ASSUME NEW r \in Requests, NEW i \in Ids, FindDelegation(r, i)
      PROVE  TypeOK'
  <2> DEFINE record == [New EXCEPT !.pc = "found", !.id = i]
  <2>0. i \in 1 .. made
    BY <1>6, ActiveExists DEF FindDelegation
  <2>1. RequestOK(record, made)
    BY <1>6, <2>0, RecordsOfRequests DEF RequestOK, RequestRecords, FindDelegation, table
  <2>2. req' = [req EXCEPT ![r] = record] /\ made' = made
    BY <1>6 DEF FindDelegation, table
  <2> HIDE DEF record
  <2>9. RequestsOK'
    BY <2>1, <2>2, OneRequestChanges
  <2> QED
    BY <1>6, <2>1, <2>2, <2>9 DEF FindDelegation, TypeOK, table, history, Exists, RequestsOK
<1>7. ASSUME NEW r \in Requests, RevokeDelegations(r)
      PROVE  TypeOK'
  <2>1. RowsOnlyFall
    BY <1>7, RevokeDelegationsFall
  <2>2. req' = [req EXCEPT ![r] = Done] /\ made' = made
    BY <1>7 DEF RevokeDelegations, Finish
  <2>3. made \in Ids \cup {0}
    BY DEF TypeOK
  <2>4. sweptUpTo' \in [Nominees -> Ids \cup {0}]
    BY <1>7, <2>3 DEF RevokeDelegations, TypeOK
  <2>9. RequestsOK'
    BY <2>2, DoneIsOK, OneRequestChanges
  <2> QED
    BY <1>7, <2>1, <2>2, <2>4, <2>9, TypeAfterFall
    DEF RevokeDelegations, TypeOK
<1>8. ASSUME NEW r \in Requests, ReplaceDelegations(r)
      PROVE  TypeOK'
  <2> DEFINE record == [req[r] EXCEPT !.pc = "replaced", !.saw = made]
  <2>1. RowsOnlyFall
    BY <1>8, ReplaceDelegationsFall
  <2>2. req' = [req EXCEPT ![r] = record] /\ made' = made
    BY <1>8 DEF ReplaceDelegations
  <2>3. RequestOK(record, made)
    BY <1>8, <2>2 DEF ReplaceDelegations, RequestOK, TypeOK, RequestRecords
  <2> HIDE DEF record
  <2>4. replaced' \subseteq 1 .. made
    BY <1>8, ReplaceDelegationsFall DEF ReplaceDelegations, TypeOK
  <2>9. RequestsOK'
    BY <2>2, <2>3, OneRequestChanges
  <2> QED
    BY <1>8, <2>1, <2>2, <2>3, <2>4, <2>9, TypeAfterFall
    DEF ReplaceDelegations, TypeOK
<1>9. ASSUME NEW r \in Requests, CreateDelegation(r)
      PROVE  TypeOK'
  <2> DEFINE row == [delegate |-> req[r].delegate, scope |-> req[r].scope,
                     expiresAt |-> req[r].expiresAt, status |-> "ACTIVE"]
  <2>1. row \in Delegations /\ row.status = "ACTIVE"
    BY <1>9 DEF CreateDelegation, TypeOK, RequestRecords, Delegations
  <2>2. /\ delegations' = [delegations EXCEPT ![made + 1] = row] /\ made' = made + 1
        /\ req' = [req EXCEPT ![r] = Done]
        /\ seenBy' = [seenBy EXCEPT ![made + 1] = req[r].saw]
    BY <1>9 DEF CreateDelegation, Finish
  <2> HIDE DEF row
  <2>3. made + 1 \in Ids
    BY <1>9, WalletAssumption DEF CreateDelegation, Ids
  <2>4. /\ delegations'[made + 1] = row
        /\ \A i \in Ids \ {made + 1} : delegations'[i] = delegations[i]
        /\ delegations' \in [Ids -> Delegations \cup {Absent}]
    BY <2>1, <2>2, <2>3 DEF TypeOK
  <2>5. \A i \in Ids : i <= made' <=> Exists(i)'
    BY <2>1, <2>2, <2>4 DEF TypeOK, Exists, Ids
  <2>6. seenBy' \in [Ids -> Ids \cup {0}]
    BY <2>2, <2>3 DEF TypeOK, RequestRecords
  <2>7. replaced' \subseteq 1 .. made'
    BY <1>9, <2>2 DEF CreateDelegation, TypeOK
  <2>9. RequestsOK'
    BY <2>2, DoneIsOK, OneRequestChanges
  <2> QED
    BY <1>9, <2>2, <2>3, <2>4, <2>5, <2>6, <2>7, <2>9
    DEF CreateDelegation, TypeOK, RequestsOK
<1>10. ASSUME NEW r \in Requests, RevokeDelegation(r)
       PROVE  TypeOK'
  <2>1. RowsOnlyFall
    BY <1>10, RevokeDelegationFalls
  <2>2. req' = [req EXCEPT ![r] = Done] /\ made' = made
    BY <1>10 DEF RevokeDelegation, Finish
  <2>9. RequestsOK'
    BY <2>2, DoneIsOK, OneRequestChanges
  <2> QED
    BY <1>10, <2>1, <2>2, <2>9, TypeAfterFall
    DEF RevokeDelegation, TypeOK, history
<1>11. ASSUME NEW r \in Requests, Die(r)
       PROVE  TypeOK'
  <2>1. req' = [req EXCEPT ![r] = Done] /\ made' = made
    BY <1>11 DEF Die, Finish, table
  <2>2. interrupted' \subseteq Nominees \X (Scopes \cup {NoScope})
    BY <1>11 DEF Die, TypeOK
  <2>9. RequestsOK'
    BY <2>1, DoneIsOK, OneRequestChanges
  <2> QED
    BY <1>11, <2>1, <2>2, <2>9 DEF Die, TypeOK, table, Exists, RequestsOK
<1>12. CASE UNCHANGED vars
  BY <1>12 DEF vars, TypeOK, table, history, Exists
<1> QED
  BY <1>1, <1>2, <1>3, <1>4, <1>5, <1>6, <1>7, <1>8, <1>9, <1>10, <1>11, <1>12
  DEF Next, Begin, Step

-----------------------------------------------------------------------------
(* The invariant                                                           *)

\* A step makes the one row a request asks for, or lets rows only fall.
LEMMA RowsFallOrOneIsMade ==
    ASSUME TypeOK, [Next]_vars
    PROVE  \/ /\ RowsOnlyFall /\ made' = made /\ seenBy' = seenBy
              /\ \A r \in Requests : req[r].pc = "replaced" /\ req'[r] # req[r] =>
                    /\ Die(r)
           \/ \E r \in Requests : CreateDelegation(r)
<1>0. (delegations' = delegations) => RowsOnlyFall
  BY DEF RowsOnlyFall, TypeOK, Exists, Active
<1>1. CASE Tick \/ UNCHANGED vars
  BY <1>0, <1>1 DEF Tick, vars, table, history
<1>2. ASSUME NEW d \in Nominees, SaveNominee(d) \/ EnableNominee(d)
      PROVE  RowsOnlyFall /\ made' = made /\ seenBy' = seenBy /\ req' = req
  BY <1>0, <1>2 DEF SaveNominee, EnableNominee, table, history
<1>3. CASE ExpireDelegations
  BY <1>3, ExpireDelegationsFall DEF ExpireDelegations, history
<1>4. ASSUME NEW q \in Requests, Begin(q)
      PROVE  /\ RowsOnlyFall /\ made' = made /\ seenBy' = seenBy
             /\ IsNew(q) /\ \A r \in Requests \ {q} : req'[r] = req[r]
  BY <1>0, <1>4
  DEF Begin, DisableNominee, CheckNominee, FindDelegation, table, history, TypeOK
<1>5. ASSUME NEW q \in Requests, RevokeDelegations(q)
      PROVE  /\ RowsOnlyFall /\ made' = made /\ seenBy' = seenBy
             /\ req[q].pc = "disabled" /\ \A r \in Requests \ {q} : req'[r] = req[r]
  BY <1>5, RevokeDelegationsFall DEF RevokeDelegations, Finish, TypeOK
<1>6. ASSUME NEW q \in Requests, ReplaceDelegations(q)
      PROVE  /\ RowsOnlyFall /\ made' = made /\ seenBy' = seenBy
             /\ req[q].pc = "checked" /\ \A r \in Requests \ {q} : req'[r] = req[r]
  BY <1>6, ReplaceDelegationsFall DEF ReplaceDelegations, TypeOK
<1>7. ASSUME NEW q \in Requests, RevokeDelegation(q)
      PROVE  /\ RowsOnlyFall /\ made' = made /\ seenBy' = seenBy
             /\ req[q].pc = "found" /\ \A r \in Requests \ {q} : req'[r] = req[r]
  BY <1>7, RevokeDelegationFalls DEF RevokeDelegation, Finish, TypeOK, history
<1>8. ASSUME NEW q \in Requests, Die(q)
      PROVE  /\ RowsOnlyFall /\ made' = made /\ seenBy' = seenBy
             /\ \A r \in Requests \ {q} : req'[r] = req[r]
  BY <1>0, <1>8 DEF Die, Finish, TypeOK, table
<1> QED
  BY <1>1, <1>2, <1>3, <1>4, <1>5, <1>6, <1>7, <1>8 DEF Next, Step, IsNew

\* What granting adds.
LEMMA RowMade ==
    ASSUME TypeOK, NEW r \in Requests, CreateDelegation(r)
    PROVE  /\ made' = made + 1 /\ made + 1 \in Ids
           /\ \A i \in Ids \ {made + 1} : delegations'[i] = delegations[i]
           /\ \A i \in Ids \ {made + 1} : seenBy'[i] = seenBy[i]
           /\ delegations'[made + 1].delegate = req[r].delegate
           /\ delegations'[made + 1].scope = req[r].scope
           /\ seenBy'[made + 1] = req[r].saw
           /\ \A q \in Requests \ {r} : req'[q] = req[q]
           /\ req'[r] = Done
<1>1. made + 1 \in Ids
  BY MadeIsNat, WalletAssumption DEF CreateDelegation, Ids
<1> QED
  BY <1>1 DEF CreateDelegation, Finish, TypeOK

\* The record of a request that has just begun.
LEMMA BegunRecord ==
    ASSUME TypeOK, NEW r \in Requests
    PROVE  /\ \A d \in Nominees : DisableNominee(r, d) =>
                 req'[r].pc = "disabled" /\ req'[r].delegate = d
           /\ \A d \in Nominees, s \in Scopes, lifetime \in Lifetimes :
                 CheckNominee(r, d, s, lifetime) => req'[r].pc = "checked"
           /\ \A i \in Ids : FindDelegation(r, i) => req'[r].pc = "found"
<1>1. ASSUME NEW d \in Nominees, DisableNominee(r, d)
      PROVE  req'[r].pc = "disabled" /\ req'[r].delegate = d
  <2>1. req'[r] = [New EXCEPT !.pc = "disabled", !.delegate = d]
    BY <1>1 DEF DisableNominee, TypeOK
  <2> QED
    BY <2>1 DEF New
<1>2. ASSUME NEW d \in Nominees, NEW s \in Scopes, NEW lifetime \in Lifetimes,
             CheckNominee(r, d, s, lifetime)
      PROVE  req'[r].pc = "checked"
  <2>1. req'[r] = [New EXCEPT !.pc = "checked", !.delegate = d, !.scope = s,
                              !.expiresAt = now + lifetime]
    BY <1>2 DEF CheckNominee, TypeOK
  <2> QED
    BY <2>1 DEF New
<1>3. ASSUME NEW i \in Ids, FindDelegation(r, i)
      PROVE  req'[r].pc = "found"
  <2>1. req'[r] = [New EXCEPT !.pc = "found", !.id = i]
    BY <1>3 DEF FindDelegation, TypeOK
  <2> QED
    BY <2>1 DEF New
<1> QED
  BY <1>1, <1>2, <1>3

LEMMA OverlapKept ==
    ASSUME WalletInv, [Next]_vars
    PROVE  TwoActiveOnlyIfOverlapping'
<1> SUFFICES ASSUME NEW d \in Nominees, NEW s \in Scopes, NEW i \in Ids, NEW j \in Ids,
                    (i \in ActiveOf(d, s))', (j \in ActiveOf(d, s))', i < j
             PROVE  seenBy'[j] < i
  BY DEF TwoActiveOnlyIfOverlapping, ActiveOf
<1> USE DEF WalletInv
<1>1. CASE RowsOnlyFall /\ seenBy' = seenBy
  BY <1>1 DEF RowsOnlyFall, ActiveOf, TwoActiveOnlyIfOverlapping
<1>2. ASSUME NEW r \in Requests, CreateDelegation(r)
      PROVE  seenBy'[j] < i
  <2>1. TypeOK' /\ made' = made + 1
    BY <1>2, NextKeepsType, RowMade
  <2>2. i <= made + 1 /\ j <= made + 1
    BY <2>1 DEF ActiveOf, TypeOK, Active, Exists
  <2>3. i # made + 1
    BY <2>2, MadeIsNat DEF Ids
  <2>4. i \in ActiveOf(d, s)
    BY <1>2, <2>3, RowMade DEF ActiveOf, Active
  <2>5. CASE j # made + 1
    <3>1. j \in ActiveOf(d, s)
      BY <1>2, <2>5, RowMade DEF ActiveOf, Active
    <3> QED
      BY <1>2, <2>4, <2>5, <3>1, RowMade DEF TwoActiveOnlyIfOverlapping
  <2>6. CASE j = made + 1
    <3>1. d = req[r].delegate /\ s = req[r].scope /\ seenBy'[j] = req[r].saw
      BY <1>2, <2>6, RowMade DEF ActiveOf
    <3> QED
      BY <1>2, <2>4, <3>1 DEF ReplacingSees, CreateDelegation
  <2> QED
    BY <2>5, <2>6
<1> QED
  BY <1>1, <1>2, RowsFallOrOneIsMade

LEMMA ReplacingSeesKept ==
    ASSUME WalletInv, [Next]_vars
    PROVE  ReplacingSees'
<1> SUFFICES ASSUME NEW r \in Requests, req'[r].pc = "replaced"
             PROVE  /\ req'[r].saw <= made'
                    /\ \A i \in Ids : /\ Active(i)'
                                      /\ delegations'[i].delegate = req'[r].delegate
                                      /\ delegations'[i].scope = req'[r].scope
                                      => req'[r].saw < i
  BY DEF ReplacingSees, ActiveOf
<1> USE DEF WalletInv
<1>1. CASE req'[r] = req[r]
  <2>1. CASE RowsOnlyFall /\ made' = made
    BY <1>1, <2>1 DEF RowsOnlyFall, ReplacingSees, ActiveOf
  <2>2. ASSUME NEW q \in Requests, CreateDelegation(q)
        PROVE  /\ req'[r].saw <= made'
               /\ \A i \in Ids : /\ Active(i)'
                                 /\ delegations'[i].delegate = req'[r].delegate
                                 /\ delegations'[i].scope = req'[r].scope
                                 => req'[r].saw < i
    <3>1. req[r].saw <= made /\ req[r].saw \in Nat /\ made' = made + 1 /\ made \in Nat
      BY SMTT(20), <1>1, <2>2, RowMade, MadeIsNat DEF ReplacingSees, TypeOK, RequestRecords, Ids
    <3>2. \A i \in Ids \ {made + 1} : delegations'[i] = delegations[i]
      BY <2>2, RowMade
    <3>3. \A i \in Ids \ {made + 1} : /\ Active(i)'
                                      /\ delegations'[i].delegate = req'[r].delegate
                                      /\ delegations'[i].scope = req'[r].scope
                                      => req'[r].saw < i
      BY <1>1, <3>2 DEF ReplacingSees, ActiveOf, Active
    <3> QED
      BY <1>1, <3>1, <3>3
  <2> QED
    BY <2>1, <2>2, RowsFallOrOneIsMade
<1>2. CASE ReplaceDelegations(r)
  <2>1. /\ req'[r].saw = made /\ made' = made
        /\ req'[r].delegate = req[r].delegate /\ req'[r].scope = req[r].scope
    BY <1>2 DEF ReplaceDelegations, TypeOK, RequestRecords
  <2>2. \A i \in Ids : ~(/\ Active(i)'
                         /\ delegations'[i].delegate = req'[r].delegate
                         /\ delegations'[i].scope = req'[r].scope)
    BY <1>2, ReplaceDelegationsFall, <2>1 DEF ActiveOf
  <2> QED
    BY <2>1, <2>2, MadeIsNat
<1>3. req'[r] = req[r] \/ ReplaceDelegations(r)
  <2>2. ASSUME NEW q \in Requests, Begin(q) PROVE req'[q].pc # "replaced"
    BY <2>2, BegunRecord DEF Begin
  <2>3. ASSUME NEW q \in Requests, Begin(q) PROVE \A p \in Requests \ {q} : req'[p] = req[p]
    BY <2>3 DEF Begin, DisableNominee, CheckNominee, FindDelegation, TypeOK
  <2>4. ASSUME NEW q \in Requests,
               RevokeDelegations(q) \/ CreateDelegation(q) \/ RevokeDelegation(q) \/ Die(q)
        PROVE  req'[q].pc # "replaced" /\ \A p \in Requests \ {q} : req'[p] = req[p]
    BY <2>4, RecordsOfRequests
    DEF RevokeDelegations, CreateDelegation, RevokeDelegation, Die, Finish, TypeOK
  <2>5. ASSUME NEW q \in Requests, ReplaceDelegations(q)
        PROVE  \A p \in Requests \ {q} : req'[p] = req[p]
    BY <2>5 DEF ReplaceDelegations, TypeOK
  <2>6. ASSUME Tick \/ ExpireDelegations \/ UNCHANGED vars
                 \/ \E d \in Nominees : SaveNominee(d) \/ EnableNominee(d)
        PROVE  req' = req
    BY <2>6 DEF Tick, ExpireDelegations, SaveNominee, EnableNominee, vars
  <2> QED
    BY <2>2, <2>3, <2>4, <2>5, <2>6 DEF Next, Step
<1> QED
  BY <1>1, <1>2, <1>3

\* A request that is not at its end stays as it is in the step of another.
LEMMA OthersStay ==
    ASSUME TypeOK, [Next]_vars, NEW r \in Requests, req'[r] # req[r]
    PROVE  Begin(r) \/ Step(r)
<1>1. ASSUME NEW q \in Requests, Begin(q), q # r PROVE FALSE
  BY <1>1 DEF Begin, DisableNominee, CheckNominee, FindDelegation, TypeOK
<1>2. ASSUME NEW q \in Requests, Step(q), q # r PROVE FALSE
  BY <1>2 DEF Step, RevokeDelegations, ReplaceDelegations, CreateDelegation, RevokeDelegation,
              Die, Finish, TypeOK
<1> QED
  BY <1>1, <1>2 DEF Next, Tick, ExpireDelegations, SaveNominee, EnableNominee, vars

LEMMA SweptKept ==
    ASSUME WalletInv, [Next]_vars, NEW d \in Nominees
    PROVE  Swept(d)'
<1> USE DEF WalletInv
<1>1. CASE Disabling(d)
  <2>1. PICK r \in Requests : req[r].pc = "disabled" /\ req[r].delegate = d
    BY <1>1 DEF Disabling
  <2>2. CASE req'[r] = req[r]
    BY <2>1, <2>2 DEF Swept, Disabling
  <2>3. CASE Die(r)
    BY <2>1, <2>3 DEF Swept, Die
  <2>4. CASE RevokeDelegations(r)
    <3>1. sweptUpTo'[d] = made /\ made' = made
      BY <2>1, <2>4 DEF RevokeDelegations, TypeOK
    <3>2. \A s \in Scopes : ActiveOf(d, s)' = {}
      BY <2>1, <2>4, RevokeDelegationsFall DEF RowsOnlyFall, ActiveOf
    <3> QED
      BY <3>1, <3>2, MadeIsNat DEF Swept
  <2> QED
    BY <2>1, <2>2, <2>3, <2>4, OthersStay
    DEF Begin, Step, DisableNominee, CheckNominee, FindDelegation, IsNew, ReplaceDelegations,
        CreateDelegation, RevokeDelegation
<1>2. ASSUME NEW r \in Requests, DisableNominee(r, d)
      PROVE  Disabling(d)'
  BY <1>2, BegunRecord DEF Disabling
<1>3. ASSUME NEW r \in Requests, RevokeDelegations(r), req[r].delegate = d
      PROVE  Disabling(d)
  BY <1>3 DEF RevokeDelegations, Disabling
<1>4. CASE \A r \in Requests : /\ ~DisableNominee(r, d)
                               /\ RevokeDelegations(r) => req[r].delegate # d
  <2>1. sweptUpTo'[d] = sweptUpTo[d]
    BY <1>4
    DEF Next, Begin, Step, Tick, ExpireDelegations, SaveNominee, EnableNominee, DisableNominee,
        CheckNominee, FindDelegation, RevokeDelegations, ReplaceDelegations, CreateDelegation,
        RevokeDelegation, Die, vars, history, TypeOK
  <2>2. <<d, NoScope>> \in interrupted => <<d, NoScope>> \in interrupted'
    BY <1>4
    DEF Next, Begin, Step, Tick, ExpireDelegations, SaveNominee, EnableNominee, DisableNominee,
        CheckNominee, FindDelegation, RevokeDelegations, ReplaceDelegations, CreateDelegation,
        RevokeDelegation, Die, vars, history
  <2>3. ASSUME sweptUpTo[d] <= made, \A s \in Scopes : \A i \in ActiveOf(d, s) : sweptUpTo[d] < i
        PROVE  /\ sweptUpTo'[d] <= made'
               /\ \A s \in Scopes : \A i \in ActiveOf(d, s)' : sweptUpTo'[d] < i
    <3>1. CASE RowsOnlyFall /\ made' = made
      BY <2>1, <2>3, <3>1 DEF RowsOnlyFall, ActiveOf
    <3>2. ASSUME NEW r \in Requests, CreateDelegation(r)
          PROVE  /\ sweptUpTo'[d] <= made'
                 /\ \A s \in Scopes : \A i \in ActiveOf(d, s)' : sweptUpTo'[d] < i
      <4>1. sweptUpTo[d] \in Nat /\ made \in Nat /\ made' = made + 1
        BY <3>2, RowMade, MadeIsNat DEF TypeOK, Ids
      <4>2. \A s \in Scopes : \A i \in ActiveOf(d, s)' : i # made + 1 => i \in ActiveOf(d, s)
        BY <3>2, RowMade DEF ActiveOf, Active
      <4> QED
        BY <2>1, <2>3, <4>1, <4>2
    <3> QED
      BY <3>1, <3>2, RowsFallOrOneIsMade
  <2>4. Swept(d)
    OBVIOUS
  <2> QED
    BY <1>1, <2>2, <2>3, <2>4 DEF Swept
<1> QED
  BY <1>1, <1>2, <1>3, <1>4 DEF Swept

LEMMA ArrivalKept ==
    ASSUME WalletInv, [Next]_vars
    PROVE  ReplacementArrives'
<1> USE DEF WalletInv
<1> SUFFICES ASSUME NEW i \in replaced',
                    NEW d, d = delegations'[i].delegate,
                    NEW s, s = delegations'[i].scope
             PROVE  \/ \E j \in Ids : /\ i < j /\ delegations'[j].delegate = d
                                      /\ delegations'[j].scope = s
                    \/ \E r \in Requests : req'[r].pc = "replaced" /\ req'[r].delegate = d
                                           /\ req'[r].scope = s
                    \/ <<d, s>> \in interrupted'
  BY DEF ReplacementArrives
<1>1. i \in replaced \/ \E r \in Requests : ReplaceDelegations(r)
  BY DEF Next, Begin, Step, Tick, ExpireDelegations, SaveNominee, EnableNominee, DisableNominee,
         CheckNominee, FindDelegation, RevokeDelegations, CreateDelegation, RevokeDelegation,
         Die, vars, history
<1>2. ASSUME NEW r \in Requests, ReplaceDelegations(r), i \notin replaced
      PROVE  /\ req'[r].pc = "replaced"
             /\ req'[r].delegate = d /\ req'[r].scope = s
  <2>1. i \in ActiveOf(req[r].delegate, req[r].scope)
    BY <1>2 DEF ReplaceDelegations
  <2>2. d = req[r].delegate /\ s = req[r].scope
    BY <1>2, <2>1, ReplaceDelegationsFall DEF ActiveOf, RowsOnlyFall
  <2> QED
    BY <1>2, <2>2 DEF ReplaceDelegations, TypeOK, RequestRecords
<1>3. CASE i \in replaced
  <2>1. i \in 1 .. made /\ i \in Ids /\ made \in Nat
    BY <1>3, MadeIsNat, WalletAssumption DEF TypeOK, Ids
  <2>2. \A j \in 1 .. made : /\ delegations'[j].delegate = delegations[j].delegate
                             /\ delegations'[j].scope = delegations[j].scope
    BY <2>1, RowsFallOrOneIsMade, RowMade, MadeIsNat, WalletAssumption DEF RowsOnlyFall, Ids
  <2>3. d = delegations[i].delegate /\ s = delegations[i].scope
    BY <2>1, <2>2
  <2>4. d \in Nominees /\ s \in Scopes /\ s # NoScope
    BY <2>1, <2>3, WalletAssumption DEF TypeOK, Exists, Absent, Delegations
  <2>5. CASE \E j \in Ids : i < j /\ delegations[j].delegate = d /\ delegations[j].scope = s
    <3>1. PICK j \in Ids : i < j /\ delegations[j].delegate = d /\ delegations[j].scope = s
      BY <2>5
    <3>2. j \in 1 .. made
      <4>1. delegations[j] \in Delegations
        BY <2>4, <3>1, WalletAssumption DEF TypeOK, Absent
      <4>2. j <= made
        BY <4>1 DEF TypeOK, Delegations, Exists
      <4> QED
        BY <4>2, <2>1 DEF Ids
    <3> QED
      BY <2>2, <3>1, <3>2
  <2>6. ASSUME NEW r \in Requests, req[r].pc = "replaced", req[r].delegate = d,
               req[r].scope = s
        PROVE  \/ \E j \in Ids : /\ i < j /\ delegations'[j].delegate = d
                                 /\ delegations'[j].scope = s
               \/ \E q \in Requests : req'[q].pc = "replaced" /\ req'[q].delegate = d
                                      /\ req'[q].scope = s
               \/ <<d, s>> \in interrupted'
    <3>1. CASE req'[r] = req[r]
      BY <2>6, <3>1
    <3>2. CASE Die(r)
      BY <2>6, <3>2 DEF Die
    <3>3. CASE CreateDelegation(r)
      BY <2>1, <2>6, <3>3, RowMade
    <3> QED
      BY <2>6, <3>1, <3>2, <3>3, OthersStay
      DEF Begin, Step, DisableNominee, CheckNominee, FindDelegation, IsNew,
          RevokeDelegations, ReplaceDelegations, RevokeDelegation
  <2>7. CASE <<d, s>> \in interrupted
    BY <2>4, <2>7
    DEF Next, Begin, Step, Tick, ExpireDelegations, SaveNominee, EnableNominee, DisableNominee,
        CheckNominee, FindDelegation, RevokeDelegations, ReplaceDelegations, CreateDelegation,
        RevokeDelegation, Die, vars, history
  <2> QED
    BY <1>3, <2>3, <2>5, <2>6, <2>7 DEF ReplacementArrives
<1> QED
  BY <1>1, <1>2, <1>3

LEMMA InvKept == WalletInv /\ [Next]_vars => WalletInv'
BY NextKeepsType, OverlapKept, ReplacingSeesKept, SweptKept, ArrivalKept DEF WalletInv

LEMMA SpecInv == Spec => []WalletInv
BY InitInv, InvKept, PTL DEF Spec

\* The shape of the state: rows fill the table from its start, and what a request in
\* flight is about exists.
THEOREM TypeCorrect == Spec => []TypeOK
BY SpecInv, PTL DEF WalletInv

\* Two ACTIVE delegations of one scope to one nominee come only of requests that
\* overlapped: any other order of granting replaces the older.
THEOREM TwoActiveOverlap == Spec => []TwoActiveOnlyIfOverlapping
BY SpecInv, PTL DEF WalletInv

\* A DISABLED nominee holds only delegations that were written after the disabling had
\* revoked his, unless a disabling is between its two writes or died there.
THEOREM DisablingSweeps == Spec => []DisabledHoldsOnlyLaterOnes
<1>1. WalletInv => DisabledHoldsOnlyLaterOnes
  BY DEF WalletInv, Swept, Disabling, DisabledHoldsOnlyLaterOnes
<1> QED
  BY <1>1, SpecInv, PTL

\* A delegation that was revoked to be replaced has a newer one of its scope, unless the
\* request is between its two writes or died there.
THEOREM ReplacedHasSuccessor == Spec => []ReplacementArrives
BY SpecInv, PTL DEF WalletInv

\* A delegation keeps its nominee and scope, and once it is REVOKED or EXPIRED it is
\* never ACTIVE again: the request that revokes without looking again writes REVOKED
\* over EXPIRED at most, and granting only inserts.
NoneComesBack ==
    \A i \in 1 .. made :
        /\ delegations'[i].delegate = delegations[i].delegate
        /\ delegations'[i].scope = delegations[i].scope
        /\ Active(i)' => Active(i)

\* Whatever requests interleave, revoking a delegation is for good.
THEOREM RevocationIsFinal == Spec => [][NoneComesBack]_vars
<1>1. TypeOK /\ [Next]_vars => NoneComesBack
  <2> SUFFICES ASSUME TypeOK, [Next]_vars, NEW i \in 1 .. made
               PROVE  /\ delegations'[i].delegate = delegations[i].delegate
                      /\ delegations'[i].scope = delegations[i].scope
                      /\ Active(i)' => Active(i)
    BY DEF NoneComesBack
  <2>1. i \in Ids /\ i # made + 1
    BY MadeIsNat, WalletAssumption DEF Ids
  <2> QED
    BY <2>1, RowsFallOrOneIsMade, RowMade DEF RowsOnlyFall, Active
<1> QED
  BY <1>1, TypeCorrect, PTL DEF Spec

=============================================================================
