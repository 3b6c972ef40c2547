----------------------------- MODULE TokenProofs -----------------------------
(***************************************************************************)
(* Theorems about CkycAdapter and the IssuerService under it, for any      *)
(* number of tokens, versions, requests and callers.                       *)
(***************************************************************************)
EXTENDS CkycAdapter, TLAPS

\* A request that made its token, or is still to have it made.
IsMaker(r) == req[r].pc # "new" /\ req[r].update # "revoke"

\* No row is made twice: a token has one maker.
OneMaker ==
    \A r, q \in Requests : IsMaker(r) /\ IsMaker(q) /\ r # q => req[r].token # req[q].token

\* A row that was there and is over.
IsOver(t) == record[t] \notin {"ABSENT", "ACTIVE"}

\* What is so of a request wherever it is, and what ReissueSettles says of its end.
RequestOK(r) ==
    /\ req[r].pc = "new" => req[r] = New
    /\ req[r].pc # "new" => req[r].token \in 1 .. made
    /\ req[r].pc \in {"stored", "undo"} => req[r].update = "none"
    /\ req[r].pc \in {"ask", "judged"} => req[r].update # "none"
    /\ req[r].pc = "stored" => vault[req[r].token] = "KEPT" /\ record[req[r].token] = "ABSENT"
    /\ req[r].pc = "undo" => record[req[r].token] = "ABSENT" \/ req[r].token \in unanswered
    /\ req[r].update \in {"supersede", "rollback"} => req[r].old # 0
    /\ req[r].update = "revoke" => req[r].old = 0
    /\ req[r].update # "none" => record[req[r].token] # "ABSENT"
    /\ req[r].old # 0 => req[r].old < req[r].token /\ record[req[r].old] # "ABSENT"
    /\ req[r].pc = "revoked" => req[r].update = "revoke" /\ IsOver(req[r].token)
    /\ req[r].pc = "done" /\ req[r].old # 0 => IsOver(req[r].old)
    /\ req[r].pc = "failed" /\ req[r].old # 0 =>
          \/ record[req[r].token] # "ACTIVE"
          \/ req[r].token \in unanswered \cup abandoned

\* StoresAgree, and no revocation of a row that is yet to be made.
StoresOK ==
    /\ \A t \in Tokens : record[t] # "ABSENT" => vault[t] = "KEPT" \/ t \in unanswered
    /\ \A t \in Tokens : vault[t] = "KEPT" /\ record[t] = "ABSENT" =>
          \/ \E r \in Requests : req[r].token = t /\ req[r].pc \in {"stored", "undo"}
          \/ t \in abandoned
    /\ \A t \in revocations : IsOver(t)

\* A row names a successor exactly when it is SUPERSEDED.
NamesOK == \A t \in Tokens : record[t] = "SUPERSEDED" <=> supersededBy[t] # 0

SuccessorsOK ==
    /\ NamesOK
    /\ \A t \in Tokens : record[t] = "SUPERSEDED" =>
          supersededBy[t] \in Tokens /\ supersededBy[t] > t /\ record[supersededBy[t]] # "ABSENT"

\* A sweep writes rows that are there.
DueOK == \A t \in due : record[t] # "ABSENT"

\* A reissue whose token may yet be revoked by it, or take the place of the old one.
Reissuing(r) ==
    req[r].pc \in {"ask", "judged"} /\ req[r].update \in {"supersede", "rollback"}

\* An ACTIVE token that no request is about to revoke.
IsSafe(t) ==
    /\ record[t] = "ACTIVE"
    /\ \A r \in Requests : Reissuing(r) => req[r].token # t

\* Without revocations, expiries and lost answers: a user with rows has a token that is
\* safe, each token that was superseded has a safe one after it, and one that is to
\* take another's place is ACTIVE or was superseded itself.
KeepsOK ==
    ~withdrawn =>
        /\ (\E t \in Tokens : record[t] # "ABSENT") => \E t \in Tokens : IsSafe(t)
        /\ \A u \in Tokens : record[u] = "SUPERSEDED" => \E t \in Tokens : t > u /\ IsSafe(t)
        /\ \A r \in Requests : Reissuing(r) /\ req[r].update = "supersede" =>
              record[req[r].token] \in {"ACTIVE", "SUPERSEDED"}

\* The reissue a sync has called for issues a token with the profile it read, and what
\* was written as synced is what the token was issued with.
CallerOK(s) ==
    /\ caller[s].pc = "found" => caller[s].token \in Tokens
    /\ caller[s].pc = "called" =>
          /\ caller[s].call \in Requests
          /\ req[caller[s].call].pc # "new"
          /\ kyc[req[caller[s].call].token] = caller[s].version
    /\ caller[s].pc = "verified" =>
          caller[s].token \in 1 .. made /\ kyc[caller[s].token] = caller[s].version

SyncedOK ==
    synced.hash # 0 => synced.token \in 1 .. made /\ kyc[synced.token] = synced.hash

TokensInv ==
    /\ TypeOK
    /\ OneMaker
    /\ \A r \in Requests : RequestOK(r)
    /\ StoresOK
    /\ SuccessorsOK
    /\ DueOK
    /\ KeepsOK
    /\ \A s \in Callers : CallerOK(s)
    /\ SyncedOK

-----------------------------------------------------------------------------
(* What the steps of a request change                                      *)

LEMMA NumberFacts ==
    ASSUME TypeOK
    PROVE  /\ made \in Nat /\ MaxTokens \in Nat /\ made <= MaxTokens
           /\ 1 .. made \subseteq Tokens /\ Tokens \subseteq Nat \ {0}
           /\ \A n \in Tokens \cup {0} : n \in Nat
BY IssuerAssumption DEF TypeOK, IssuerTypeOK, Tokens

Pcs == {"new", "stored", "undo", "ask", "judged", "revoked", "done", "failed"}
Updates == {"none", "supersede", "rollback", "revoke"}

\* Request q is now at pc and asks for update; what it is about is as before.
Moves(q, pc, update) ==
    /\ req' \in [Requests -> RequestRecords]
    /\ req'[q].pc = pc /\ req'[q].update = update
    /\ req'[q].token = req[q].token /\ req'[q].old = req[q].old
    /\ \A r \in Requests \ {q} : req'[r] = req[r]

LEMMA GotoMoves ==
    ASSUME TypeOK, NEW q \in Requests, NEW pc \in Pcs, Goto(q, pc)
    PROVE  Moves(q, pc, req[q].update)
<1>1. [req[q] EXCEPT !.pc = pc] \in RequestRecords
  BY DEF TypeOK, IssuerTypeOK, RequestRecords, Pcs
<1>2. req' = [req EXCEPT ![q] = [req[q] EXCEPT !.pc = pc]]
  BY DEF Goto, TypeOK, IssuerTypeOK
<1>3. req[q] \in RequestRecords /\ req \in [Requests -> RequestRecords]
  BY DEF TypeOK, IssuerTypeOK
<1> QED
  BY <1>1, <1>2, <1>3 DEF Moves, RequestRecords

LEMMA AskMoves ==
    ASSUME TypeOK, NEW q \in Requests, NEW update \in Updates, Ask(q, update)
    PROVE  Moves(q, "ask", update)
<1>0. req[q] \in RequestRecords
  BY DEF TypeOK, IssuerTypeOK
<1>1. [req[q] EXCEPT !.pc = "ask", !.update = update] \in RequestRecords
  BY <1>0 DEF RequestRecords, Updates
<1>2. req' = [req EXCEPT ![q] = [req[q] EXCEPT !.pc = "ask", !.update = update]]
  BY DEF Ask, TypeOK, IssuerTypeOK
<1>3. req[q] \in RequestRecords /\ req \in [Requests -> RequestRecords]
  BY DEF TypeOK, IssuerTypeOK
<1> QED
  BY <1>1, <1>2, <1>3 DEF Moves, RequestRecords

LEMMA UpdateFailedMoves ==
    ASSUME TypeOK, NEW q \in Requests, UpdateFailed(q)
    PROVE  \/ req[q].update = "supersede" /\ Moves(q, "ask", "rollback")
           \/ req[q].update # "supersede" /\ Moves(q, "failed", req[q].update)
BY GotoMoves, AskMoves DEF UpdateFailed, Pcs, Updates

LEMMA UpdateSucceededMoves ==
    ASSUME TypeOK, NEW q \in Requests, UpdateSucceeded(q)
    PROVE  \/ req[q].update = "revoke" /\ Moves(q, "revoked", "revoke")
           \/ req[q].update = "rollback" /\ Moves(q, "failed", "rollback")
           \/ /\ req[q].update \notin {"revoke", "rollback"}
              /\ Moves(q, "done", req[q].update)
BY GotoMoves DEF UpdateSucceeded, Pcs

\* One row gets a status.
Writes(t, status) ==
    /\ t \in Tokens
    /\ record' \in [Tokens -> {"ABSENT", "ACTIVE", "REVOKED", "SUPERSEDED", "EXPIRED"}]
    /\ record'[t] = status
    /\ \A u \in Tokens \ {t} : record'[u] = record[u]

\* Request q makes the row of its token.
LEMMA AddRecordWrites ==
    ASSUME TypeOK, NEW q \in Requests, RequestOK(q), req[q].pc = "stored",
           AddRecord(req[q].token)
    PROVE  Writes(req[q].token, "ACTIVE") /\ supersededBy' = supersededBy
<1>1. req[q].token \in Tokens
  BY NumberFacts DEF RequestOK
<1> QED
  BY <1>1 DEF AddRecord, Writes, TypeOK, IssuerTypeOK

\* The registry writes what request q asks for.
LEMMA WriteStatusWrites ==
    ASSUME TypeOK, NEW q \in Requests, RequestOK(q), req[q].pc = "judged", WriteStatus(q)
    PROVE  \/ /\ req[q].update = "supersede"
              /\ Writes(req[q].old, "SUPERSEDED")
              /\ supersededBy'[req[q].old] = req[q].token
              /\ \A u \in Tokens \ {req[q].old} : supersededBy'[u] = supersededBy[u]
              /\ supersededBy' \in [Tokens -> Tokens \cup {0}]
           \/ /\ req[q].update \in {"rollback", "revoke"}
              /\ Writes(req[q].token, "REVOKED")
              /\ supersededBy'[req[q].token] = 0
              /\ \A u \in Tokens \ {req[q].token} : supersededBy'[u] = supersededBy[u]
              /\ supersededBy' \in [Tokens -> Tokens \cup {0}]
<1>1. req[q].token \in Tokens /\ req[q].old \in Tokens \cup {0}
  BY NumberFacts DEF RequestOK, TypeOK, IssuerTypeOK, RequestRecords
<1>2. req[q].update \in {"supersede", "rollback", "revoke"}
  BY DEF RequestOK, TypeOK, IssuerTypeOK, RequestRecords
<1>3. CASE req[q].update = "supersede"
  BY <1>1, <1>3 DEF WriteStatus, Target, NextStatus, Writes, RequestOK, TypeOK, IssuerTypeOK
<1>4. CASE req[q].update # "supersede"
  BY <1>1, <1>2, <1>4 DEF WriteStatus, Target, NextStatus, Writes, TypeOK, IssuerTypeOK
<1> QED
  BY <1>3, <1>4

\* A request begins.
LEMMA NewMoves ==
    ASSUME TypeOK, NEW q \in Requests, NEW record2 \in RequestRecords,
           req' = [req EXCEPT ![q] = record2]
    PROVE  /\ req' \in [Requests -> RequestRecords] /\ req'[q] = record2
           /\ \A r \in Requests \ {q} : req'[r] = req[r]
BY DEF TypeOK, IssuerTypeOK

LEMMA StoreVaultBegins ==
    ASSUME TypeOK, NEW q \in Requests, NEW version \in Versions \cup {0},
           NEW old \in Tokens \cup {0}, StoreVault(q, version, old)
    PROVE  /\ made' = made + 1 /\ made + 1 \in Tokens
           /\ req' \in [Requests -> RequestRecords]
           /\ req'[q].pc = "stored" /\ req'[q].update = "none"
           /\ req'[q].token = made + 1 /\ req'[q].old = old
           /\ \A r \in Requests \ {q} : req'[r] = req[r]
           /\ vault' \in [Tokens -> {"NONE", "KEPT", "DELETED"}]
           /\ vault'[made + 1] = "KEPT"
           /\ \A t \in Tokens \ {made + 1} : vault'[t] = vault[t]
           /\ kyc' \in [Tokens -> Versions \cup {0}]
           /\ kyc'[made + 1] = version
           /\ \A t \in Tokens \ {made + 1} : kyc'[t] = kyc[t]
<1>1. made + 1 \in Tokens
  BY NumberFacts, IssuerAssumption DEF StoreVault, Tokens
<1> DEFINE rec == [New EXCEPT !.pc = "stored", !.token = made + 1, !.old = old]
<1>2. /\ rec \in RequestRecords /\ rec.pc = "stored" /\ rec.update = "none"
      /\ rec.token = made + 1 /\ rec.old = old
  BY <1>1 DEF New, RequestRecords
<1>3. req' = [req EXCEPT ![q] = rec]
  BY DEF StoreVault
<1> HIDE DEF rec
<1>4. /\ req' \in [Requests -> RequestRecords] /\ req'[q] = rec
      /\ \A r \in Requests \ {q} : req'[r] = req[r]
  BY <1>2, <1>3, NewMoves
<1> QED
  BY ZenonT(30), <1>1, <1>2, <1>4 DEF StoreVault, TypeOK, IssuerTypeOK

LEMMA RevokeBegins ==
    ASSUME TypeOK, NEW q \in Requests, NEW t \in Tokens, Revoke(q, t)
    PROVE  /\ req' \in [Requests -> RequestRecords]
           /\ req'[q].pc = "ask" /\ req'[q].update = "revoke"
           /\ req'[q].token = t /\ req'[q].old = 0
           /\ \A r \in Requests \ {q} : req'[r] = req[r]
           /\ t <= made
<1> DEFINE rec == [New EXCEPT !.pc = "ask", !.update = "revoke", !.token = t]
<1>1. /\ rec \in RequestRecords /\ rec.pc = "ask" /\ rec.update = "revoke"
      /\ rec.token = t /\ rec.old = 0
  BY DEF New, RequestRecords
<1>2. req' = [req EXCEPT ![q] = rec]
  BY DEF Revoke
<1> HIDE DEF rec
<1>3. /\ req' \in [Requests -> RequestRecords] /\ req'[q] = rec
      /\ \A r \in Requests \ {q} : req'[r] = req[r]
  BY <1>1, <1>2, NewMoves
<1> QED
  BY <1>1, <1>3 DEF Revoke, IsKnown, TypeOK, IssuerTypeOK

-----------------------------------------------------------------------------
(* What no step undoes                                                     *)

\* Tokens keep what they were issued with, rows stay and are over for good, and what
\* was abandoned or left unanswered stays so.
Grows ==
    /\ made' \in Nat /\ made <= made'
    /\ \A t \in 1 .. made : kyc'[t] = kyc[t]
    /\ \A t \in Tokens : record[t] # "ABSENT" => record'[t] # "ABSENT"
    /\ \A t \in Tokens : IsOver(t) => IsOver(t)'
    /\ unanswered \subseteq unanswered' /\ abandoned \subseteq abandoned'

\* A step of request q: of the tokens that are there it makes the row or deletes the
\* entry of its own only, if it is its maker.
StepOf(q) ==
    /\ Grows
    /\ \A t \in 1 .. made : ~(IsMaker(q) /\ t = req[q].token) =>
          /\ vault'[t] = vault[t]
          /\ record[t] = "ABSENT" => record'[t] = "ABSENT"
    /\ \A r \in Requests \ {q} : req'[r] = req[r]

LEMMA BystanderOK ==
    ASSUME TypeOK, Grows, NEW r \in Requests, RequestOK(r), req'[r] = req[r],
           IsMaker(r) => /\ vault'[req[r].token] = vault[req[r].token]
                         /\ record[req[r].token] = "ABSENT" => record'[req[r].token] = "ABSENT"
    PROVE  RequestOK(r)'
<1>0. New.update = "none" /\ New.pc = "new"
  BY DEF New
<1>1. req[r].token \in Tokens \cup {0} /\ req[r].old \in Tokens \cup {0} /\ made \in Nat
  BY NumberFacts DEF TypeOK, IssuerTypeOK, RequestRecords
<1>2. req[r].pc # "new" => req[r].token \in 1 .. made' /\ req[r].token \in Tokens
  BY <1>1, NumberFacts DEF RequestOK, Grows
<1>3. req[r].pc = "failed" /\ req[r].old # 0 => IsMaker(r)
  BY DEF RequestOK, IsMaker
<1>4. req[r].pc \in {"stored", "undo"} => IsMaker(r)
  BY DEF RequestOK, IsMaker
<1>5. req[r].update # "none" => req[r].pc # "new"
  BY <1>0 DEF RequestOK
<1>6. req[r].pc = "failed" /\ req[r].old # 0 =>
          \/ record'[req[r].token] # "ACTIVE"
          \/ req[r].token \in unanswered' \cup abandoned'
  BY <1>2, <1>3 DEF RequestOK, Grows, IsOver
<1>7. /\ req[r].pc = "stored" => vault'[req[r].token] = "KEPT" /\ record'[req[r].token] = "ABSENT"
      /\ req[r].pc = "undo" => record'[req[r].token] = "ABSENT" \/ req[r].token \in unanswered'
  BY <1>4 DEF RequestOK, Grows
<1>8. /\ req[r].update # "none" => record'[req[r].token] # "ABSENT"
      /\ req[r].old # 0 => req[r].old < req[r].token /\ record'[req[r].old] # "ABSENT"
      /\ req[r].pc = "revoked" => req[r].update = "revoke" /\ IsOver(req[r].token)'
      /\ req[r].pc = "done" /\ req[r].old # 0 => IsOver(req[r].old)'
  BY <1>1, <1>2, <1>5 DEF RequestOK, Grows, IsOver
<1> QED
  BY <1>2, <1>6, <1>7, <1>8 DEF RequestOK, IsOver

LEMMA BystandersOK ==
    ASSUME TypeOK, OneMaker, \A r \in Requests : RequestOK(r), NEW q \in Requests, StepOf(q)
    PROVE  \A r \in Requests \ {q} : RequestOK(r)'
<1> SUFFICES ASSUME NEW r \in Requests \ {q} PROVE RequestOK(r)'
  OBVIOUS
<1>1. IsMaker(r) => req[r].token \in 1 .. made
  BY DEF IsMaker, RequestOK
<1>2. IsMaker(r) => ~(IsMaker(q) /\ req[r].token = req[q].token)
  BY DEF OneMaker
<1> QED
  BY <1>1, <1>2, BystanderOK DEF StepOf

-----------------------------------------------------------------------------
(* The steps of the issuer, one by one                                     *)

\* IssuerTypeOK, by its parts.
StoresTypeOK ==
    /\ made \in Tokens \cup {0}
    /\ vault \in [Tokens -> {"NONE", "KEPT", "DELETED"}]
    /\ kyc \in [Tokens -> Versions \cup {0}]
    /\ record \in [Tokens -> {"ABSENT", "ACTIVE", "REVOKED", "SUPERSEDED", "EXPIRED"}]
    /\ supersededBy \in [Tokens -> Tokens \cup {0}]
    /\ \A t \in Tokens : vault[t] # "NONE" <=> t <= made
    /\ \A t \in Tokens : record[t] # "ABSENT" => t <= made
    /\ due \subseteq 1 .. made
    /\ revocations \subseteq 1 .. made
    /\ unanswered \subseteq 1 .. made
    /\ abandoned \subseteq 1 .. made
    /\ withdrawn \in BOOLEAN

LEMMA TypeByParts ==
    ASSUME TypeOK, StoresTypeOK', NEW q \in Requests, made \in Nat, made' \in Nat, made <= made',
           req' \in [Requests -> RequestRecords],
           req'[q].token <= made', req'[q].old <= made',
           \A r \in Requests \ {q} : req'[r] = req[r]
    PROVE  IssuerTypeOK'
<1>1. \A r \in Requests : /\ req[r].token \in Nat /\ req[r].old \in Nat
                          /\ req[r].token <= made /\ req[r].old <= made
  BY NumberFacts DEF TypeOK, IssuerTypeOK, RequestRecords
<1>2. \A r \in Requests : req'[r].token <= made' /\ req'[r].old <= made'
  BY <1>1
<1> QED
  BY <1>2 DEF IssuerTypeOK, StoresTypeOK

\* The tokens and their maker's place in the invariant after a step of q.
StepKeeps(q) == IssuerTypeOK' /\ StepOf(q) /\ RequestOK(q)'

LEMMA StoreVaultKeeps ==
    ASSUME TypeOK, NEW q \in Requests, NEW version \in Versions \cup {0},
           NEW old \in Tokens \cup {0}, StoreVault(q, version, old),
           old # 0 => record[old] # "ABSENT"
    PROVE  StepKeeps(q)
<1>1. record' = record /\ supersededBy' = supersededBy /\ due' = due
      /\ revocations' = revocations /\ unanswered' = unanswered
      /\ abandoned' = abandoned /\ withdrawn' = withdrawn
  BY DEF StoreVault, registry, history
<1>2. made \in Nat /\ made' = made + 1 /\ made + 1 \in Tokens
  BY NumberFacts, StoreVaultBegins
<1>11. /\ req' \in [Requests -> RequestRecords]
       /\ req'[q].pc = "stored" /\ req'[q].update = "none"
       /\ req'[q].token = made + 1 /\ req'[q].old = old
       /\ \A r \in Requests \ {q} : req'[r] = req[r]
  BY StoreVaultBegins
<1>12. /\ vault' \in [Tokens -> {"NONE", "KEPT", "DELETED"}]
       /\ vault'[made + 1] = "KEPT"
       /\ kyc' \in [Tokens -> Versions \cup {0}]
  BY StoreVaultBegins
<1>3. old # 0 => old \in 1 .. made
  BY NumberFacts DEF TypeOK, IssuerTypeOK
<1>4. record[made + 1] = "ABSENT"
  BY <1>2 DEF TypeOK, IssuerTypeOK
<1>5. \A t \in Tokens : t <= made' <=> t <= made \/ t = made + 1
  BY <1>2, NumberFacts
<1>6. \A t \in Tokens : vault'[t] # "NONE" <=> t <= made'
  BY <1>5, StoreVaultBegins DEF TypeOK, IssuerTypeOK
<1>7. StoresTypeOK'
  <2>1. /\ made' \in Tokens \cup {0} /\ due' \subseteq 1 .. made'
        /\ revocations' \subseteq 1 .. made' /\ unanswered' \subseteq 1 .. made' /\ abandoned' \subseteq 1 .. made'
    BY <1>1, <1>2 DEF TypeOK, IssuerTypeOK
  <2>2. \A t \in Tokens : record'[t] # "ABSENT" => t <= made'
    BY <1>1, <1>5 DEF TypeOK, IssuerTypeOK
  <2> QED
    BY <1>1, <1>6, <1>12, <2>1, <2>2 DEF TypeOK, IssuerTypeOK, StoresTypeOK
<1>8. IssuerTypeOK'
  <2>1. req'[q].token <= made' /\ req'[q].old <= made' /\ made <= made' /\ made' \in Nat
    BY <1>2, <1>3, <1>11
  <2> QED
    BY <1>2, <1>7, <1>11, <2>1, TypeByParts
<1>9. StepOf(q)
  <2>1. \A t \in 1 .. made : t \in Tokens \ {made + 1}
    BY <1>2, NumberFacts
  <2>2. \A t \in 1 .. made : vault'[t] = vault[t] /\ kyc'[t] = kyc[t]
    BY <2>1, StoreVaultBegins
  <2>3. Grows
    BY <1>1, <1>2, <2>2 DEF Grows, IsOver
  <2> QED
    BY <1>1, <1>11, <2>2, <2>3 DEF StepOf
<1>10. RequestOK(q)'
  <2>1. req'[q].token \in 1 .. made' /\ (old # 0 => old < made + 1)
    BY <1>2, <1>3, <1>11
  <2> QED
    BY <1>1, <1>4, <1>11, <1>12, <2>1 DEF RequestOK
<1> QED
  BY <1>8, <1>9, <1>10 DEF StepKeeps

LEMMA RevokeKeeps ==
    ASSUME TypeOK, NEW q \in Requests, NEW t \in Tokens, Revoke(q, t)
    PROVE  StepKeeps(q)
<1>1. UNCHANGED <<tokens, registry, revocations, history>> /\ record[t] # "ABSENT"
  BY DEF Revoke, IsKnown
<1>2. made \in Nat /\ made' = made /\ t \in 1 .. made
  BY <1>1, NumberFacts, RevokeBegins DEF tokens
<1>3. StoresTypeOK'
  BY <1>1, <1>2 DEF TypeOK, IssuerTypeOK, StoresTypeOK, tokens, registry, history
<1>4. IssuerTypeOK'
  BY <1>2, <1>3, TypeByParts, RevokeBegins
<1>5. StepOf(q)
  BY <1>1, <1>2, RevokeBegins DEF StepOf, Grows, IsOver, tokens, registry, history
<1>6. RequestOK(q)'
  BY <1>1, <1>2, RevokeBegins DEF RequestOK, registry
<1> QED
  BY <1>4, <1>5, <1>6 DEF StepKeeps

\* Steps of a request under way: it moves, and the tokens are those there were.
LEMMA MoveKeepsType ==
    ASSUME TypeOK, NEW q \in Requests, NEW pc, NEW update, Moves(q, pc, update),
           made' = made, StoresTypeOK'
    PROVE  IssuerTypeOK'
<1>1. made \in Nat
  BY NumberFacts
<1>2. req[q].token <= made /\ req[q].old <= made
  BY DEF TypeOK, IssuerTypeOK
<1> QED
  BY <1>1, <1>2, TypeByParts DEF Moves

\* The row of a token is made: what was so before, and where the request goes.
LEMMA RowMade ==
    ASSUME TypeOK, NEW q \in Requests, RequestOK(q),
           CreateRecord(q) \/ CreateRecordUnanswered(q)
    PROVE  /\ req[q].pc = "stored" /\ req[q].update = "none" /\ IsMaker(q) /\ made \in Nat
           /\ req[q].token \in 1 .. made /\ req[q].token \in Tokens
           /\ record[req[q].token] = "ABSENT" /\ vault[req[q].token] = "KEPT"
           /\ Writes(req[q].token, "ACTIVE") /\ supersededBy' = supersededBy
           /\ \/ CreateRecord(q) /\ req[q].old = 0 /\ Moves(q, "done", "none")
              \/ CreateRecord(q) /\ req[q].old # 0 /\ Moves(q, "ask", "supersede")
              \/ CreateRecordUnanswered(q) /\ Moves(q, "undo", "none")
           /\ UNCHANGED <<tokens, due, revocations, abandoned, withdrawn>>
           /\ \/ CreateRecord(q) /\ unanswered' = unanswered
              \/ CreateRecordUnanswered(q) /\ unanswered' = unanswered \cup {req[q].token}
<1>1. /\ req[q].pc = "stored" /\ req[q].update = "none" /\ IsMaker(q) /\ made \in Nat
      /\ req[q].token \in 1 .. made /\ req[q].token \in Tokens
      /\ record[req[q].token] = "ABSENT" /\ vault[req[q].token] = "KEPT"
  BY NumberFacts DEF CreateRecord, CreateRecordUnanswered, RequestOK, IsMaker
<1>2. Writes(req[q].token, "ACTIVE") /\ supersededBy' = supersededBy
  BY <1>1, AddRecordWrites DEF CreateRecord, CreateRecordUnanswered
<1>3. \/ CreateRecord(q) /\ req[q].old = 0 /\ Moves(q, "done", "none")
      \/ CreateRecord(q) /\ req[q].old # 0 /\ Moves(q, "ask", "supersede")
      \/ CreateRecordUnanswered(q) /\ Moves(q, "undo", "none")
  BY <1>1, GotoMoves, AskMoves DEF CreateRecord, CreateRecordUnanswered, Pcs, Updates
<1>4. /\ UNCHANGED <<tokens, due, revocations, abandoned, withdrawn>>
      /\ \/ CreateRecord(q) /\ unanswered' = unanswered
         \/ CreateRecordUnanswered(q) /\ unanswered' = unanswered \cup {req[q].token}
  BY DEF CreateRecord, CreateRecordUnanswered, AddRecord, history
<1> QED
  BY <1>1, <1>2, <1>3, <1>4

LEMMA CreateRecordKeeps ==
    ASSUME TypeOK, NEW q \in Requests, RequestOK(q),
           CreateRecord(q) \/ CreateRecordUnanswered(q)
    PROVE  StepKeeps(q)
<1> DEFINE t == req[q].token
<1>1. /\ req[q].pc = "stored" /\ req[q].update = "none" /\ t \in 1 .. made /\ t \in Tokens
      /\ record[t] = "ABSENT" /\ vault[t] = "KEPT" /\ IsMaker(q) /\ made \in Nat
  BY RowMade
<1>2. Writes(t, "ACTIVE") /\ supersededBy' = supersededBy
  BY RowMade
<1>3. \/ CreateRecord(q) /\ req[q].old = 0 /\ Moves(q, "done", "none")
      \/ CreateRecord(q) /\ req[q].old # 0 /\ Moves(q, "ask", "supersede")
      \/ CreateRecordUnanswered(q) /\ Moves(q, "undo", "none")
  BY RowMade
<1>4. /\ UNCHANGED <<tokens, due, revocations, abandoned, withdrawn>>
      /\ \/ CreateRecord(q) /\ unanswered' = unanswered
         \/ CreateRecordUnanswered(q) /\ unanswered' = unanswered \cup {t}
  BY RowMade
<1>5. StoresTypeOK'
  BY <1>1, <1>2, <1>4 DEF StoresTypeOK, TypeOK, IssuerTypeOK, Writes, tokens
<1>6. IssuerTypeOK'
  BY <1>3, <1>4, <1>5, MoveKeepsType DEF tokens
<1>7. StepOf(q)
  <2>1. \A r \in Requests \ {q} : req'[r] = req[r]
    BY <1>3 DEF Moves
  <2>2. /\ \A u \in Tokens : record[u] # "ABSENT" => record'[u] # "ABSENT"
        /\ \A u \in Tokens \ {t} : record'[u] = record[u]
        /\ \A u \in Tokens : IsOver(u) => IsOver(u)'
    BY <1>1, <1>2 DEF Writes, IsOver
  <2>3. 1 .. made \subseteq Tokens
    BY NumberFacts
  <2> QED
    BY <1>1, <1>4, <2>1, <2>2, <2>3 DEF StepOf, Grows, tokens
<1>8. req[q].old # 0 => req[q].old < t /\ record'[req[q].old] # "ABSENT"
  BY <1>1, <1>2 DEF RequestOK, Writes, TypeOK, IssuerTypeOK, RequestRecords
<1>9. RequestOK(q)'
  <2>1. record'[t] = "ACTIVE" /\ t \in 1 .. made'
    BY <1>1, <1>2, <1>4 DEF Writes, tokens
  <2>2. CASE CreateRecordUnanswered(q) /\ Moves(q, "undo", "none")
    <3>1. t \in unanswered'
      BY <2>2 DEF CreateRecordUnanswered
    <3> QED
      BY <1>8, <2>1, <2>2, <3>1 DEF RequestOK, Moves
  <2>3. CASE req[q].old = 0 /\ Moves(q, "done", "none")
    BY <1>8, <2>1, <2>3 DEF RequestOK, Moves
  <2>4. CASE req[q].old # 0 /\ Moves(q, "ask", "supersede")
    BY <1>8, <2>1, <2>4 DEF RequestOK, Moves
  <2> QED
    BY <1>3, <2>2, <2>3, <2>4
<1> QED
  BY <1>6, <1>7, <1>9 DEF StepKeeps

LEMMA CreateRecordFailsKeeps ==
    ASSUME TypeOK, NEW q \in Requests, RequestOK(q), CreateRecordFails(q)
    PROVE  StepKeeps(q)
<1>1. /\ req[q].pc = "stored" /\ Moves(q, "undo", req[q].update)
      /\ UNCHANGED <<tokens, registry, revocations, history>>
  BY GotoMoves DEF CreateRecordFails, Pcs
<1>2. StoresTypeOK'
  BY <1>1 DEF StoresTypeOK, TypeOK, IssuerTypeOK, tokens, registry, history
<1>3. IssuerTypeOK'
  BY <1>1, <1>2, MoveKeepsType DEF tokens
<1>4. StepOf(q)
  BY <1>1, NumberFacts DEF StepOf, Grows, IsOver, Moves, tokens, registry, history
<1>5. RequestOK(q)'
  BY <1>1 DEF RequestOK, Moves, tokens, registry, history
<1> QED
  BY <1>3, <1>4, <1>5 DEF StepKeeps

LEMMA UndoVaultKeeps ==
    ASSUME TypeOK, NEW q \in Requests, RequestOK(q), UndoVault(q)
    PROVE  StepKeeps(q)
<1> DEFINE t == req[q].token
<1>1. /\ req[q].pc = "undo" /\ req[q].update = "none" /\ t \in 1 .. made /\ t \in Tokens
      /\ record[t] = "ABSENT" \/ t \in unanswered
      /\ IsMaker(q) /\ made \in Nat /\ Moves(q, "failed", "none")
  BY NumberFacts, GotoMoves DEF UndoVault, RequestOK, IsMaker, Pcs
<1>2. UNCHANGED <<made, kyc, registry, revocations, unanswered, withdrawn>>
  BY DEF UndoVault
<1>3. /\ abandoned \subseteq abandoned' /\ abandoned' \subseteq abandoned \cup {t}
      /\ vault' \in [Tokens -> {"NONE", "KEPT", "DELETED"}]
      /\ vault'[t] # "NONE" /\ \A u \in Tokens \ {t} : vault'[u] = vault[u]
  BY <1>1 DEF UndoVault, TypeOK, IssuerTypeOK
<1>4. StoresTypeOK'
  BY <1>1, <1>2, <1>3 DEF StoresTypeOK, TypeOK, IssuerTypeOK, registry
<1>5. IssuerTypeOK'
  BY <1>1, <1>2, <1>4, MoveKeepsType
<1>6. StepOf(q)
  BY <1>1, <1>2, <1>3, NumberFacts DEF StepOf, Grows, IsOver, Moves, registry
<1>7. RequestOK(q)'
  BY <1>1, <1>2, <1>3 DEF RequestOK, Moves, registry
<1> QED
  BY <1>5, <1>6, <1>7 DEF StepKeeps

LEMMA JudgeStatusKeeps ==
    ASSUME TypeOK, NEW q \in Requests, RequestOK(q), JudgeStatus(q)
    PROVE  StepKeeps(q)
<1>1. /\ req[q].pc = "ask" /\ Moves(q, "judged", req[q].update)
      /\ UNCHANGED <<tokens, registry, revocations, history>>
  BY GotoMoves DEF JudgeStatus, Pcs
<1>2. StoresTypeOK'
  BY <1>1 DEF StoresTypeOK, TypeOK, IssuerTypeOK, tokens, registry, history
<1>3. IssuerTypeOK'
  BY <1>1, <1>2, MoveKeepsType DEF tokens
<1>4. StepOf(q)
  BY <1>1, NumberFacts DEF StepOf, Grows, IsOver, Moves, tokens, registry, history
<1>5. RequestOK(q)'
  BY <1>1 DEF RequestOK, Moves, tokens, registry, history
<1> QED
  BY <1>3, <1>4, <1>5 DEF StepKeeps

\* A refusal of the rollback leaves a token that is not ACTIVE.
LEMMA RefuseStatusKeeps ==
    ASSUME TypeOK, NEW q \in Requests, RequestOK(q), RefuseStatus(q)
    PROVE  StepKeeps(q)
<1>1. /\ req[q].pc = "ask" /\ record[Target(q)] # "ACTIVE"
      /\ UNCHANGED <<tokens, registry, revocations, history>>
      /\ \/ req[q].update = "supersede" /\ Moves(q, "ask", "rollback")
         \/ req[q].update # "supersede" /\ Moves(q, "failed", req[q].update)
  BY UpdateFailedMoves DEF RefuseStatus
<1>2. StoresTypeOK'
  BY <1>1 DEF StoresTypeOK, TypeOK, IssuerTypeOK, tokens, registry, history
<1>3. IssuerTypeOK'
  BY <1>1, <1>2, MoveKeepsType DEF tokens
<1>4. StepOf(q)
  BY <1>1, NumberFacts DEF StepOf, Grows, IsOver, Moves, tokens, registry, history
<1>5. RequestOK(q)'
  <2>1. CASE req[q].update = "supersede"
    BY <1>1, <2>1 DEF RequestOK, Moves, tokens, registry, history
  <2>2. CASE req[q].update # "supersede"
    BY <1>1, <2>2 DEF RequestOK, Moves, tokens, registry, history, Target
  <2> QED
    BY <2>1, <2>2
<1> QED
  BY <1>3, <1>4, <1>5 DEF StepKeeps

LEMMA UpdateCallFailsKeeps ==
    ASSUME TypeOK, NEW q \in Requests, RequestOK(q), UpdateCallFails(q)
    PROVE  StepKeeps(q)
<1>1. /\ req[q].pc \in {"ask", "judged"} /\ abandoned' = abandoned \cup Stranded(q)
      /\ UNCHANGED <<tokens, registry, revocations, unanswered, withdrawn>>
      /\ \/ req[q].update = "supersede" /\ Moves(q, "ask", "rollback")
         \/ req[q].update # "supersede" /\ Moves(q, "failed", req[q].update)
  BY UpdateFailedMoves DEF UpdateCallFails
<1>2. Stranded(q) \subseteq 1 .. made
  BY <1>1 DEF Stranded, RequestOK
<1>3. StoresTypeOK'
  BY <1>1, <1>2 DEF StoresTypeOK, TypeOK, IssuerTypeOK, tokens, registry
<1>4. IssuerTypeOK'
  BY <1>1, <1>3, MoveKeepsType DEF tokens
<1>5. StepOf(q)
  BY <1>1, NumberFacts DEF StepOf, Grows, IsOver, Moves, tokens, registry
<1>6. RequestOK(q)'
  <2>1. CASE req[q].update = "supersede"
    BY <1>1, <2>1 DEF RequestOK, Moves, tokens, registry
  <2>2. CASE req[q].update = "rollback"
    BY <1>1, <2>2 DEF RequestOK, Moves, tokens, registry, Stranded
  <2>3. CASE req[q].update \notin {"supersede", "rollback"}
    <3>1. req[q].old = 0
      BY <1>1, <2>3 DEF RequestOK, TypeOK, IssuerTypeOK, RequestRecords
    <3> QED
      BY <1>1, <2>3, <3>1 DEF RequestOK, Moves, tokens, registry
  <2> QED
    BY <2>1, <2>2, <2>3
<1> QED
  BY <1>4, <1>5, <1>6 DEF StepKeeps

\* A status is written over a row that was ACTIVE when it was judged, and where the
\* request goes.
LEMMA StatusWritten ==
    ASSUME TypeOK, NEW q \in Requests, RequestOK(q), UpdateStatus(q) \/ UpdateUnanswered(q)
    PROVE  /\ req[q].pc = "judged" /\ made \in Nat
           /\ req[q].token \in 1 .. made /\ req[q].token \in Tokens
           /\ req[q].old \in Tokens \cup {0} /\ record[req[q].token] # "ABSENT"
           /\ req[q].old # 0 => record[req[q].old] # "ABSENT" /\ req[q].old < req[q].token
           /\ UNCHANGED <<tokens, due, revocations, unanswered, abandoned>> /\ withdrawn' \in BOOLEAN
           /\ \/ /\ req[q].update = "supersede" /\ req[q].old # 0
                 /\ Writes(req[q].old, "SUPERSEDED")
                 /\ supersededBy' \in [Tokens -> Tokens \cup {0}]
                 /\ supersededBy'[req[q].old] = req[q].token
                 /\ \A u \in Tokens \ {req[q].old} : supersededBy'[u] = supersededBy[u]
              \/ /\ req[q].update \in {"rollback", "revoke"}
                 /\ Writes(req[q].token, "REVOKED")
                 /\ supersededBy' \in [Tokens -> Tokens \cup {0}]
                 /\ supersededBy'[req[q].token] = 0
                 /\ \A u \in Tokens \ {req[q].token} : supersededBy'[u] = supersededBy[u]
           /\ \/ req[q].update = "supersede" /\ Moves(q, "done", "supersede") /\ UpdateStatus(q)
              \/ req[q].update = "supersede" /\ Moves(q, "ask", "rollback") /\ UpdateUnanswered(q)
              \/ req[q].update = "revoke" /\ Moves(q, "revoked", "revoke")
              \/ req[q].update = "revoke" /\ Moves(q, "failed", "revoke")
              \/ req[q].update = "rollback" /\ Moves(q, "failed", "rollback")
<1> DEFINE t == req[q].token
           o == req[q].old
<1>1. /\ req[q].pc = "judged" /\ t \in 1 .. made /\ t \in Tokens /\ made \in Nat
      /\ o \in Tokens \cup {0} /\ record[t] # "ABSENT"
      /\ o # 0 => record[o] # "ABSENT" /\ o < t
  BY NumberFacts
  DEF UpdateStatus, UpdateUnanswered, RequestOK, TypeOK, IssuerTypeOK, RequestRecords
<1>2. /\ UNCHANGED <<tokens, due, revocations, unanswered, abandoned>> /\ withdrawn' \in BOOLEAN
      /\ WriteStatus(q)
  BY DEF UpdateStatus, UpdateUnanswered, WriteStatus, TypeOK, IssuerTypeOK
<1>3. \/ /\ req[q].update = "supersede" /\ o # 0 /\ Writes(o, "SUPERSEDED")
         /\ supersededBy' \in [Tokens -> Tokens \cup {0}]
         /\ supersededBy'[o] = t
         /\ \A u \in Tokens \ {o} : supersededBy'[u] = supersededBy[u]
      \/ /\ req[q].update \in {"rollback", "revoke"} /\ Writes(t, "REVOKED")
         /\ supersededBy' \in [Tokens -> Tokens \cup {0}]
         /\ supersededBy'[t] = 0
         /\ \A u \in Tokens \ {t} : supersededBy'[u] = supersededBy[u]
  BY <1>1, <1>2, WriteStatusWrites DEF RequestOK
<1>4. \/ req[q].update = "supersede" /\ Moves(q, "done", "supersede") /\ UpdateStatus(q)
      \/ req[q].update = "supersede" /\ Moves(q, "ask", "rollback") /\ UpdateUnanswered(q)
      \/ req[q].update = "revoke" /\ Moves(q, "revoked", "revoke")
      \/ req[q].update = "revoke" /\ Moves(q, "failed", "revoke")
      \/ req[q].update = "rollback" /\ Moves(q, "failed", "rollback")
  BY <1>3, UpdateSucceededMoves, UpdateFailedMoves DEF UpdateStatus, UpdateUnanswered
<1> HIDE DEF t, o
<1> QED
  BY <1>1, <1>2, <1>3, <1>4 DEF t, o

LEMMA UpdateStatusKeeps ==
    ASSUME TypeOK, NEW q \in Requests, RequestOK(q), UpdateStatus(q) \/ UpdateUnanswered(q)
    PROVE  StepKeeps(q)
<1> DEFINE t == req[q].token
           o == req[q].old
<1>1. /\ req[q].pc = "judged" /\ t \in 1 .. made /\ t \in Tokens /\ made \in Nat
      /\ o \in Tokens \cup {0} /\ record[t] # "ABSENT"
      /\ o # 0 => record[o] # "ABSENT" /\ o < t
  BY StatusWritten
<1>2. UNCHANGED <<tokens, due, revocations, unanswered, abandoned>> /\ withdrawn' \in BOOLEAN
  BY StatusWritten
<1>3. \/ /\ req[q].update = "supersede" /\ o # 0 /\ Writes(o, "SUPERSEDED")
         /\ supersededBy' \in [Tokens -> Tokens \cup {0}]
      \/ /\ req[q].update \in {"rollback", "revoke"} /\ Writes(t, "REVOKED")
         /\ supersededBy' \in [Tokens -> Tokens \cup {0}]
  BY StatusWritten
<1>4. \/ req[q].update = "supersede" /\ Moves(q, "done", "supersede") /\ UpdateStatus(q)
      \/ req[q].update = "supersede" /\ Moves(q, "ask", "rollback") /\ UpdateUnanswered(q)
      \/ req[q].update = "revoke" /\ Moves(q, "revoked", "revoke")
      \/ req[q].update = "revoke" /\ Moves(q, "failed", "revoke")
      \/ req[q].update = "rollback" /\ Moves(q, "failed", "rollback")
  BY StatusWritten
<1>5. \A u \in Tokens : /\ record[u] # "ABSENT" => record'[u] # "ABSENT"
                        /\ record[u] = "ABSENT" => record'[u] = "ABSENT"
                        /\ IsOver(u) => IsOver(u)'
  BY <1>1, <1>3 DEF Writes, IsOver
<1>6. StoresTypeOK'
  <2>1. record' \in [Tokens -> {"ABSENT", "ACTIVE", "REVOKED", "SUPERSEDED", "EXPIRED"}]
    BY <1>3 DEF Writes
  <2>2. supersededBy' \in [Tokens -> Tokens \cup {0}]
    BY <1>3 DEF TypeOK, IssuerTypeOK
  <2> QED
    BY <1>2, <1>5, <2>1, <2>2 DEF StoresTypeOK, TypeOK, IssuerTypeOK, tokens
<1>7. IssuerTypeOK'
  BY <1>2, <1>4, <1>6, MoveKeepsType DEF tokens
<1>8. StepOf(q)
  BY <1>1, <1>2, <1>4, <1>5, NumberFacts DEF StepOf, Grows, Moves, tokens
<1>9. RequestOK(q)'
  <2>1. CASE req[q].update = "supersede"
    <3>1. record'[o] = "SUPERSEDED" /\ record'[t] # "ABSENT" /\ o # 0
      BY <1>1, <1>3, <1>5, <2>1 DEF Writes, IsOver
    <3> QED
      BY <1>1, <1>2, <1>4, <2>1, <3>1 DEF RequestOK, Moves, tokens, IsOver
  <2>2. CASE req[q].update \in {"rollback", "revoke"}
    <3>1. record'[t] = "REVOKED" /\ (o # 0 => record'[o] # "ABSENT")
      BY <1>1, <1>3, <1>5, <2>2 DEF Writes, IsOver
    <3>2. /\ req[q].update = "rollback" => o # 0
          /\ req[q].update = "revoke" => o = 0
      BY DEF RequestOK
    <3> QED
      BY <1>1, <1>2, <1>4, <2>2, <3>1, <3>2 DEF RequestOK, Moves, tokens, IsOver, Writes
  <2> QED
    BY <1>3, <2>1, <2>2
<1> QED
  BY <1>7, <1>8, <1>9 DEF StepKeeps

LEMMA StoreRevocationKeeps ==
    ASSUME TypeOK, NEW q \in Requests, RequestOK(q), StoreRevocation(q)
    PROVE  StepKeeps(q)
<1>1. /\ req[q].pc = "revoked" /\ req[q].update = "revoke" /\ req[q].old = 0
      /\ req[q].token \in 1 .. made /\ Moves(q, "done", "revoke")
      /\ revocations' = revocations \cup {req[q].token}
      /\ UNCHANGED <<tokens, registry, history>>
  BY GotoMoves DEF StoreRevocation, RequestOK, Pcs
<1>2. StoresTypeOK'
  BY <1>1 DEF StoresTypeOK, TypeOK, IssuerTypeOK, tokens, registry, history
<1>3. IssuerTypeOK'
  BY <1>1, <1>2, MoveKeepsType DEF tokens
<1>4. StepOf(q)
  BY <1>1, NumberFacts DEF StepOf, Grows, IsOver, Moves, tokens, registry, history
<1>5. RequestOK(q)'
  BY <1>1 DEF RequestOK, Moves, tokens, registry, history
<1> QED
  BY <1>3, <1>4, <1>5 DEF StepKeeps

LEMMA DieKeeps ==
    ASSUME TypeOK, NEW q \in Requests, RequestOK(q), Die(q)
    PROVE  StepKeeps(q)
<1>1. /\ req[q].pc \in {"stored", "undo", "ask", "judged", "revoked"}
      /\ req[q].token \in 1 .. made /\ Moves(q, "failed", req[q].update)
      /\ UNCHANGED <<tokens, registry, revocations, unanswered, withdrawn>>
  BY GotoMoves DEF Die, RequestOK, Pcs
<1>2. /\ abandoned \subseteq abandoned' /\ abandoned' \subseteq abandoned \cup {req[q].token}
      /\ req[q].update # "revoke" => req[q].token \in abandoned'
  BY DEF Die
<1>3. StoresTypeOK'
  BY <1>1, <1>2 DEF StoresTypeOK, TypeOK, IssuerTypeOK, tokens, registry
<1>4. IssuerTypeOK'
  BY <1>1, <1>3, MoveKeepsType DEF tokens
<1>5. StepOf(q)
  BY <1>1, <1>2, NumberFacts DEF StepOf, Grows, IsOver, Moves, tokens, registry
<1>6. RequestOK(q)'
  BY <1>1, <1>2 DEF RequestOK, Moves, tokens, registry
<1> QED
  BY <1>4, <1>5, <1>6 DEF StepKeeps

-----------------------------------------------------------------------------
(* Every step                                                              *)

\* The steps of request q under way, without its callers.
GoesOn(q) ==
    \/ CreateRecord(q) \/ CreateRecordUnanswered(q) \/ CreateRecordFails(q)
    \/ UndoVault(q) \/ JudgeStatus(q) \/ RefuseStatus(q) \/ UpdateCallFails(q)
    \/ UpdateStatus(q) \/ UpdateUnanswered(q) \/ StoreRevocation(q) \/ Die(q)

Begins(q) ==
    \/ \E version \in Versions \cup {0}, old \in Tokens \cup {0} :
          StoreVault(q, version, old) /\ (old # 0 => record[old] # "ABSENT")
    \/ \E t \in Tokens : Revoke(q, t)

LEMMA IssuerSteps ==
    ASSUME TypeOK, \A s \in Callers : CallerOK(s), [Next]_vars
    PROVE  \/ UNCHANGED issuerVars
           \/ \E q \in Requests : Begins(q) \/ GoesOn(q)
           \/ \E t \in Tokens : FindDue(t) \/ ExpireDue(t)
<1>1. ASSUME NEW s \in Callers, NEW q \in Requests, CallSupersede(s, q)
      PROVE  Begins(q)
  <2>1. caller[s].version \in Versions \cup {0}
    BY DEF TypeOK, Callings
  <2>2. caller[s].token \in Tokens
    BY <1>1 DEF CallSupersede, CallerOK
  <2> QED
    BY <1>1, <2>1, <2>2 DEF CallSupersede, Supersede, IsKnown, Begins
<1>2. ASSUME NEW q \in Requests, Issuer(q)
      PROVE  Begins(q) \/ GoesOn(q)
  BY <1>2 DEF Issuer, DirectIssue, DirectReissue, Issue, Supersede, IsKnown, Begins, GoesOn
<1>3. CASE UNCHANGED vars \/ ReadProfile
  BY <1>3 DEF vars, ReadProfile
<1>4. ASSUME NEW s \in Callers, CallerStep(s)
      PROVE  UNCHANGED issuerVars \/ \E q \in Requests : Begins(q)
  BY <1>1, <1>4
  DEF CallerStep, ReadForUpdate, WriteUpdate, StartSync, FindActiveToken, VerifyTokens,
      WriteSynced, CallerFails
<1> QED
  BY <1>2, <1>3, <1>4 DEF Next

LEMMA StepsKeep ==
    ASSUME TypeOK, NEW q \in Requests, RequestOK(q), Begins(q) \/ GoesOn(q)
    PROVE  StepKeeps(q)
BY StoreVaultKeeps, RevokeKeeps, CreateRecordKeeps, CreateRecordFailsKeeps, UndoVaultKeeps,
   JudgeStatusKeeps, RefuseStatusKeeps, UpdateCallFailsKeeps, UpdateStatusKeeps,
   StoreRevocationKeeps, DieKeeps
DEF Begins, GoesOn

\* A request that goes on is about the same token, and stays its maker or not.
LEMMA GoesOnMoves ==
    ASSUME TypeOK, NEW q \in Requests, RequestOK(q), GoesOn(q)
    PROVE  /\ req[q].pc \in {"stored", "undo", "ask", "judged", "revoked"}
           /\ \E pc \in Pcs \ {"new", "stored"}, update \in Updates :
                 /\ Moves(q, pc, update)
                 /\ update = "revoke" <=> req[q].update = "revoke"
<1>0. req[q].update \in Updates
  BY DEF TypeOK, IssuerTypeOK, RequestRecords, Updates
<1>1. CASE CreateRecord(q) \/ CreateRecordUnanswered(q)
  BY <1>1, RowMade DEF Pcs, Updates
<1>2. CASE UpdateStatus(q) \/ UpdateUnanswered(q)
  BY <1>2, StatusWritten DEF Pcs, Updates
<1>3. CASE CreateRecordFails(q) \/ UndoVault(q) \/ JudgeStatus(q) \/ StoreRevocation(q) \/ Die(q)
  BY <1>0, <1>3, GotoMoves
  DEF CreateRecordFails, UndoVault, JudgeStatus, StoreRevocation, Die, Pcs
<1>4. CASE RefuseStatus(q) \/ UpdateCallFails(q)
  BY <1>0, <1>4, UpdateFailedMoves DEF RefuseStatus, UpdateCallFails, Pcs, Updates
<1> QED
  BY <1>1, <1>2, <1>3, <1>4 DEF GoesOn

LEMMA OneMakerKept ==
    ASSUME TypeOK, OneMaker, \A r \in Requests : RequestOK(r),
           NEW q \in Requests, Begins(q) \/ GoesOn(q)
    PROVE  OneMaker'
<1>1. \A r \in Requests \ {q} : req'[r] = req[r] /\ (IsMaker(r)' <=> IsMaker(r))
  BY StepsKeep DEF StepKeeps, StepOf, IsMaker
<1>2. \A r \in Requests : IsMaker(r) => req[r].token \in 1 .. made
  BY DEF IsMaker, RequestOK
<1>3. CASE GoesOn(q)
  <2>1. req'[q].token = req[q].token /\ (IsMaker(q)' => IsMaker(q))
    BY <1>3, GoesOnMoves DEF Moves, IsMaker
  <2> QED
    BY <1>1, <2>1 DEF OneMaker
<1>4. ASSUME NEW t \in Tokens, Revoke(q, t)
      PROVE  OneMaker'
  <2>1. ~IsMaker(q)'
    BY <1>4, RevokeBegins DEF IsMaker
  <2> QED
    BY <1>1, <2>1 DEF OneMaker
<1>5. ASSUME NEW version \in Versions \cup {0}, NEW old \in Tokens \cup {0},
             StoreVault(q, version, old)
      PROVE  OneMaker'
  <2>1. req'[q].token = made + 1 /\ made \in Nat
    BY <1>5, StoreVaultBegins, NumberFacts
  <2>2. \A r \in Requests \ {q} : IsMaker(r)' => req'[r].token # req'[q].token
    BY <1>1, <1>2, <2>1
  <2> QED
    BY <1>1, <2>2 DEF OneMaker
<1> QED
  BY <1>3, <1>4, <1>5 DEF Begins

\* What a sweep reads and what it writes.
LEMMA FindDueKeeps ==
    ASSUME TypeOK, DueOK, NEW t \in Tokens, FindDue(t)
    PROVE  /\ IssuerTypeOK' /\ DueOK'
           /\ UNCHANGED <<tokens, record, supersededBy, created, revocations, req, history>>
<1>1. t \in 1 .. made
  BY NumberFacts DEF FindDue, TypeOK, IssuerTypeOK
<1>2. UNCHANGED <<tokens, record, supersededBy, created, revocations, req, history>>
  BY DEF FindDue
<1>3. due' \subseteq 1 .. made /\ DueOK'
  BY <1>1, <1>2 DEF FindDue, DueOK, TypeOK, IssuerTypeOK
<1> QED
  BY <1>2, <1>3 DEF TypeOK, IssuerTypeOK, tokens, history

LEMMA ExpireDueKeeps ==
    ASSUME TypeOK, DueOK, \A r \in Requests : RequestOK(r), NEW t \in Tokens, ExpireDue(t)
    PROVE  /\ IssuerTypeOK' /\ Grows /\ Writes(t, "EXPIRED") /\ record[t] # "ABSENT"
           /\ supersededBy'[t] = 0
           /\ \A u \in Tokens \ {t} : supersededBy'[u] = supersededBy[u]
           /\ \A r \in Requests : RequestOK(r)'
<1>1. Writes(t, "EXPIRED") /\ record[t] # "ABSENT"
  BY DEF ExpireDue, DueOK, Writes, TypeOK, IssuerTypeOK
<1>2. /\ UNCHANGED <<tokens, created, due, revocations, req, unanswered, abandoned>>
      /\ withdrawn' = TRUE
  BY DEF ExpireDue
<1>3. Grows
  BY <1>1, <1>2, NumberFacts DEF Grows, Writes, IsOver, tokens
<1>4. \A r \in Requests : RequestOK(r)'
  <2> SUFFICES ASSUME NEW r \in Requests PROVE RequestOK(r)'
    OBVIOUS
  <2>1. IsMaker(r) => req[r].token \in Tokens
    BY NumberFacts DEF RequestOK, IsMaker
  <2>2. IsMaker(r) /\ record[req[r].token] = "ABSENT" => record'[req[r].token] = "ABSENT"
    BY <1>1, <2>1 DEF Writes
  <2> QED
    BY <1>2, <1>3, <2>2, BystanderOK DEF tokens
<1>5. /\ supersededBy' \in [Tokens -> Tokens \cup {0}]
      /\ supersededBy'[t] = 0
      /\ \A u \in Tokens \ {t} : supersededBy'[u] = supersededBy[u]
  BY DEF ExpireDue, TypeOK, IssuerTypeOK
<1>6. IssuerTypeOK'
  <2>1. record' \in [Tokens -> {"ABSENT", "ACTIVE", "REVOKED", "SUPERSEDED", "EXPIRED"}]
    BY <1>1 DEF Writes
  <2>2. \A u \in Tokens : record'[u] # "ABSENT" => record[u] # "ABSENT"
    BY <1>1 DEF Writes
  <2> QED
    BY <1>2, <1>5, <2>1, <2>2 DEF TypeOK, IssuerTypeOK, tokens
<1> QED
  BY <1>1, <1>3, <1>4, <1>5, <1>6

-----------------------------------------------------------------------------
(* The three stores                                                        *)

\* Only a revocation that the registry has answered enters the store.
LEMMA RevocationsGrow ==
    ASSUME TypeOK, NEW q \in Requests, Begins(q) \/ GoesOn(q)
    PROVE  revocations' = revocations \/ StoreRevocation(q)
BY DEF Begins, GoesOn, StoreVault, Revoke, CreateRecord, CreateRecordUnanswered,
       CreateRecordFails, UndoVault, JudgeStatus, RefuseStatus, UpdateCallFails, UpdateStatus,
       UpdateUnanswered, Die

LEMMA StoresKept ==
    ASSUME TypeOK, StoresOK, \A r \in Requests : RequestOK(r),
           NEW q \in Requests, Begins(q) \/ GoesOn(q)
    PROVE  StoresOK'
<1>1. StepOf(q) /\ IssuerTypeOK'
  BY StepsKeep DEF StepKeeps
<1>2. \A t \in Tokens : t \notin 1 .. made =>
          vault[t] = "NONE" /\ record[t] = "ABSENT"
  BY NumberFacts DEF TypeOK, IssuerTypeOK
<1>3. ASSUME NEW t \in Tokens, record'[t] # "ABSENT"
      PROVE  vault'[t] = "KEPT" \/ t \in unanswered'
  <2>1. CASE record[t] = "ABSENT"
    <3>1. t = req[q].token /\ vault[t] = "KEPT" /\ vault' = vault
      <4>1. CASE CreateRecord(q) \/ CreateRecordUnanswered(q)
        BY <1>3, <2>1, <4>1, RowMade DEF Writes, tokens
      <4>2. CASE UpdateStatus(q) \/ UpdateUnanswered(q)
        BY <1>3, <2>1, <4>2, StatusWritten DEF Writes
      <4>3. CASE record' = record
        BY <1>3, <2>1, <4>3
      <4> QED
        BY <4>1, <4>2, <4>3
        DEF Begins, GoesOn, StoreVault, Revoke, CreateRecordFails, UndoVault, JudgeStatus,
            RefuseStatus, UpdateCallFails, StoreRevocation, Die, registry
    <3> QED
      BY <3>1
  <2>2. CASE record[t] # "ABSENT"
    <3>1. (vault[t] = "KEPT" \/ t \in unanswered) /\ t \in 1 .. made
      BY <1>2, <2>2 DEF StoresOK
    <3>2. CASE UndoVault(q) /\ t = req[q].token
      BY <1>1, <2>2, <3>2 DEF UndoVault, RequestOK, StepOf, Grows
    <3>3. CASE ~(UndoVault(q) /\ t = req[q].token)
      <4>1. vault'[t] = vault[t]
        <5>1. CASE UndoVault(q)
          BY <3>3, <5>1, <3>1 DEF UndoVault, TypeOK, IssuerTypeOK
        <5>2. ASSUME NEW version \in Versions \cup {0}, NEW old \in Tokens \cup {0},
                     StoreVault(q, version, old)
              PROVE  vault'[t] = vault[t]
          BY <3>1, <5>2, StoreVaultBegins, NumberFacts
        <5> QED
          BY <5>1, <5>2
          DEF Begins, GoesOn, Revoke, CreateRecord, CreateRecordUnanswered, CreateRecordFails,
              JudgeStatus, RefuseStatus, UpdateCallFails, UpdateStatus, UpdateUnanswered,
              StoreRevocation, Die, tokens
      <4> QED
        BY <1>1, <3>1, <4>1 DEF StepOf, Grows
    <3> QED
      BY <3>2, <3>3
  <2> QED
    BY <2>1, <2>2
<1>4. ASSUME NEW t \in Tokens, vault'[t] = "KEPT", record'[t] = "ABSENT"
      PROVE  \/ \E r \in Requests : req'[r].token = t /\ req'[r].pc \in {"stored", "undo"}
             \/ t \in abandoned'
  <2>1. record[t] = "ABSENT"
    BY <1>1, <1>4 DEF StepOf, Grows
  <2>2. ASSUME NEW version \in Versions \cup {0}, NEW old \in Tokens \cup {0},
               StoreVault(q, version, old), t = made + 1
        PROVE  req'[q].token = t /\ req'[q].pc = "stored"
    BY <2>2, StoreVaultBegins
  <2>3. CASE vault[t] = "KEPT"
    <3>1. ASSUME NEW r \in Requests, req[r].token = t, req[r].pc \in {"stored", "undo"}
          PROVE  \/ req'[r].token = t /\ req'[r].pc \in {"stored", "undo"}
                 \/ t \in abandoned'
      <4>1. CASE r # q
        BY <1>1, <3>1, <4>1 DEF StepOf
      <4>2. CASE r = q
        <5>1. req[q].update = "none" /\ ~Begins(q)
          BY <3>1, <4>2 DEF RequestOK, Begins, StoreVault, Revoke, IsNew
        <5>2. CASE CreateRecord(q) \/ CreateRecordUnanswered(q)
          BY <1>4, <3>1, <4>2, <5>2, RowMade DEF Writes
        <5>3. CASE CreateRecordFails(q)
          BY <3>1, <4>2, <5>3, GotoMoves DEF CreateRecordFails, Pcs, Moves
        <5>4. CASE UndoVault(q)
          BY <1>4, <3>1, <4>2, <5>4 DEF UndoVault, TypeOK, IssuerTypeOK
        <5>5. CASE Die(q)
          BY <3>1, <4>2, <5>1, <5>5 DEF Die
        <5> QED
          BY <3>1, <4>2, <5>1, <5>2, <5>3, <5>4, <5>5
          DEF GoesOn, JudgeStatus, RefuseStatus, UpdateCallFails, UpdateStatus,
              UpdateUnanswered, StoreRevocation
      <4> QED
        BY <4>1, <4>2
    <3> QED
      BY <1>1, <2>1, <2>3, <3>1 DEF StoresOK, StepOf, Grows
  <2>4. vault[t] = "KEPT" \/ \E version \in Versions \cup {0}, old \in Tokens \cup {0} :
                                StoreVault(q, version, old) /\ t = made + 1
    <3>1. ASSUME NEW version \in Versions \cup {0}, NEW old \in Tokens \cup {0},
                 StoreVault(q, version, old), t # made + 1
          PROVE  vault'[t] = vault[t]
      BY <3>1, StoreVaultBegins
    <3>2. UndoVault(q) => vault'[t] \in {vault[t], "DELETED"}
      BY DEF UndoVault, TypeOK, IssuerTypeOK
    <3> QED
      BY <1>4, <3>1, <3>2
      DEF Begins, GoesOn, Revoke, CreateRecord, CreateRecordUnanswered, CreateRecordFails,
          JudgeStatus, RefuseStatus, UpdateCallFails, UpdateStatus, UpdateUnanswered,
          StoreRevocation, Die, tokens
  <2> QED
    BY <2>2, <2>3, <2>4
<1>5. \A t \in revocations' : IsOver(t)'
  <2>1. \A t \in revocations : t \in Tokens /\ IsOver(t)
    BY NumberFacts DEF StoresOK, TypeOK, IssuerTypeOK
  <2>2. \A t \in revocations : IsOver(t)'
    BY <1>1, <2>1 DEF StepOf, Grows
  <2>3. CASE StoreRevocation(q)
    BY <2>2, <2>3 DEF StoreRevocation, RequestOK, IsOver, registry
  <2> QED
    BY <2>2, <2>3, RevocationsGrow
<1> QED
  BY <1>3, <1>4, <1>5 DEF StoresOK

LEMMA SuccessorsKept ==
    ASSUME TypeOK, SuccessorsOK, \A r \in Requests : RequestOK(r),
           NEW q \in Requests, Begins(q) \/ GoesOn(q)
    PROVE  SuccessorsOK'
<1>1. Grows
  BY StepsKeep DEF StepKeeps, StepOf
<1>2. CASE record' = record /\ supersededBy' = supersededBy
  BY <1>2 DEF SuccessorsOK, NamesOK
<1>3. CASE CreateRecord(q) \/ CreateRecordUnanswered(q)
  BY <1>1, <1>3, RowMade DEF SuccessorsOK, NamesOK, Writes, Grows
<1>4. CASE UpdateStatus(q) \/ UpdateUnanswered(q)
  <2>0. NamesOK'
    <3>1. CASE req[q].update = "supersede"
      <4>1. req[q].token # 0
        BY <1>4, StatusWritten, NumberFacts
      <4> QED
        BY <1>4, <3>1, <4>1, StatusWritten DEF SuccessorsOK, NamesOK, Writes
    <3>2. CASE req[q].update # "supersede"
      BY <1>4, <3>2, StatusWritten DEF SuccessorsOK, NamesOK, Writes
    <3> QED
      BY <3>1, <3>2
  <2> SUFFICES ASSUME NEW t \in Tokens, record'[t] = "SUPERSEDED"
               PROVE  /\ supersededBy'[t] \in Tokens /\ supersededBy'[t] > t
                      /\ record'[supersededBy'[t]] # "ABSENT"
    BY <2>0 DEF SuccessorsOK
  <2>1. CASE req[q].update = "supersede" /\ t = req[q].old
    <3>1. /\ supersededBy'[t] = req[q].token /\ req[q].token \in Tokens
          /\ t < req[q].token /\ record[req[q].token] # "ABSENT"
      BY <1>4, <2>1, StatusWritten
    <3> QED
      BY <1>1, <3>1, NumberFacts DEF Grows
  <2>2. CASE ~(req[q].update = "supersede" /\ t = req[q].old)
    <3>1. record[t] = "SUPERSEDED" /\ supersededBy'[t] = supersededBy[t]
      BY <1>4, <2>2, StatusWritten DEF Writes
    <3> QED
      BY <1>1, <3>1 DEF SuccessorsOK, Grows
  <2> QED
    BY <2>1, <2>2
<1> QED
  BY <1>2, <1>3, <1>4
  DEF Begins, GoesOn, StoreVault, Revoke, CreateRecordFails, UndoVault, JudgeStatus,
      RefuseStatus, UpdateCallFails, StoreRevocation, Die, registry

\* Requests leave it to the sweeps what they have found due.
LEMMA DueKept ==
    ASSUME TypeOK, DueOK, NEW q \in Requests, RequestOK(q), Begins(q) \/ GoesOn(q), StepKeeps(q)
    PROVE  DueOK'
<1>1. due' = due
  BY DEF Begins, GoesOn, StoreVault, Revoke, CreateRecord, CreateRecordUnanswered, AddRecord,
         CreateRecordFails, UndoVault, JudgeStatus, RefuseStatus, UpdateCallFails,
         UpdateStatus, UpdateUnanswered, WriteStatus, StoreRevocation, Die, registry
<1>2. due \subseteq Tokens
  BY NumberFacts DEF TypeOK, IssuerTypeOK
<1> QED
  BY <1>1, <1>2 DEF DueOK, StepKeeps, StepOf, Grows

-----------------------------------------------------------------------------
(* A user keeps a token                                                    *)

\* No request starts to ask for a reissue's update but when its token's row is made.
LEMMA ReissuingOnlyFalls ==
    ASSUME TypeOK, NEW q \in Requests, RequestOK(q), Begins(q) \/ GoesOn(q),
           NEW r \in Requests, Reissuing(r)'
    PROVE  \/ r = q /\ CreateRecord(q)
           \/ /\ Reissuing(r) /\ req'[r].token = req[r].token
              /\ req'[r].update = "supersede" => req[r].update = "supersede"
<1>1. CASE r # q
  BY <1>1, StepsKeep DEF StepKeeps, StepOf, Reissuing
<1>2. ASSUME NEW version \in Versions \cup {0}, NEW old \in Tokens \cup {0},
             StoreVault(q, version, old), r = q
      PROVE  FALSE
  BY <1>2, StoreVaultBegins DEF Reissuing
<1>3. ASSUME NEW t \in Tokens, Revoke(q, t), r = q
      PROVE  FALSE
  BY <1>3, RevokeBegins DEF Reissuing
<1>4. CASE r = q /\ (CreateRecordFails(q) \/ UndoVault(q) \/ StoreRevocation(q) \/ Die(q))
  BY <1>4, GotoMoves
  DEF CreateRecordFails, UndoVault, StoreRevocation, Die, Pcs, Moves, Reissuing
<1>5. CASE r = q /\ CreateRecordUnanswered(q)
  BY <1>5, RowMade, GotoMoves DEF CreateRecordUnanswered, Pcs, Moves, Reissuing
<1>6. CASE r = q /\ JudgeStatus(q)
  BY <1>6, GotoMoves DEF JudgeStatus, Pcs, Moves, Reissuing
<1>7. CASE r = q /\ (RefuseStatus(q) \/ UpdateCallFails(q))
  BY <1>7, UpdateFailedMoves DEF RefuseStatus, UpdateCallFails, Moves, Reissuing
<1>8. CASE r = q /\ (UpdateStatus(q) \/ UpdateUnanswered(q))
  BY <1>8, StatusWritten DEF Moves, Reissuing
<1> QED
  BY <1>1, <1>2, <1>3, <1>4, <1>5, <1>6, <1>7, <1>8 DEF Begins, GoesOn

\* A safe token whose row is not written stays safe, unless its own reissue is begun.
LEMMA SafeStays ==
    ASSUME TypeOK, NEW q \in Requests, RequestOK(q), Begins(q) \/ GoesOn(q),
           NEW t \in Tokens, IsSafe(t), record'[t] = record[t],
           CreateRecord(q) => t # req[q].token
    PROVE  IsSafe(t)'
<1> SUFFICES ASSUME NEW r \in Requests, Reissuing(r)', req'[r].token = t
             PROVE  FALSE
  BY DEF IsSafe
<1>1. CASE Reissuing(r) /\ req'[r].token = req[r].token
  BY <1>1 DEF IsSafe
<1>2. CASE r = q /\ CreateRecord(q)
  <2>1. req'[q].token = req[q].token
    BY <1>2, RowMade DEF Moves
  <2> QED
    BY <1>2, <2>1
<1> QED
  BY <1>1, <1>2, ReissuingOnlyFalls

LEMMA ReissuersDiffer ==
    ASSUME OneMaker, \A r \in Requests : RequestOK(r),
           NEW q \in Requests, NEW r \in Requests, Reissuing(q), Reissuing(r), q # r
    PROVE  req[q].token # req[r].token
BY DEF Reissuing, OneMaker, IsMaker

LEMMA KeepsKept ==
    ASSUME TypeOK, OneMaker, KeepsOK, \A r \in Requests : RequestOK(r),
           NEW q \in Requests, Begins(q) \/ GoesOn(q)
    PROVE  KeepsOK'
<1> SUFFICES ASSUME ~withdrawn'
             PROVE  /\ (\E t \in Tokens : record'[t] # "ABSENT") => \E t \in Tokens : IsSafe(t)'
                    /\ \A u \in Tokens : record'[u] = "SUPERSEDED" =>
                          \E t \in Tokens : t > u /\ IsSafe(t)'
                    /\ \A r \in Requests : Reissuing(r)' /\ req'[r].update = "supersede" =>
                          record'[req'[r].token] \in {"ACTIVE", "SUPERSEDED"}
  BY DEF KeepsOK
<1>0. ~withdrawn
  BY DEF Begins, GoesOn, StoreVault, Revoke, CreateRecord, CreateRecordUnanswered,
         CreateRecordFails, UndoVault, JudgeStatus, RefuseStatus, UpdateCallFails, UpdateStatus,
         UpdateUnanswered, StoreRevocation, Die, history, TypeOK, IssuerTypeOK
<1>k. /\ (\E t \in Tokens : record[t] # "ABSENT") => \E t \in Tokens : IsSafe(t)
      /\ \A u \in Tokens : record[u] = "SUPERSEDED" => \E t \in Tokens : t > u /\ IsSafe(t)
      /\ \A r \in Requests : Reissuing(r) /\ req[r].update = "supersede" =>
            record[req[r].token] \in {"ACTIVE", "SUPERSEDED"}
  BY <1>0 DEF KeepsOK
<1>t. \A r \in Requests : Reissuing(r) =>
          req[r].token \in Tokens /\ record[req[r].token] # "ABSENT"
  BY NumberFacts DEF Reissuing, RequestOK
<1>1. CASE record' = record /\ ~CreateRecord(q)
  <2>1. \A t \in Tokens : IsSafe(t) => IsSafe(t)'
    BY <1>1, SafeStays
  <2>2. \A r \in Requests : Reissuing(r)' /\ req'[r].update = "supersede" =>
            record'[req'[r].token] \in {"ACTIVE", "SUPERSEDED"}
    BY <1>1, <1>k, ReissuingOnlyFalls
  <2> QED
    BY <1>1, <1>k, <2>1, <2>2
<1>2. CASE CreateRecord(q) \/ CreateRecordUnanswered(q)
  <2> DEFINE n == req[q].token
  <2>1. /\ n \in Tokens /\ record[n] = "ABSENT" /\ Writes(n, "ACTIVE")
        /\ \/ req[q].old = 0 /\ Moves(q, "done", "none")
           \/ req[q].old # 0 /\ Moves(q, "ask", "supersede")
           \/ Moves(q, "undo", "none")
    BY <1>2, RowMade
  <2>2. req'[q].token = n
    BY <2>1 DEF Moves
  <2>3. \A t \in Tokens : IsSafe(t) => t # n
    BY <2>1 DEF IsSafe
  <2>4. \A t \in Tokens : IsSafe(t) => IsSafe(t)'
    BY <2>1, <2>3, SafeStays DEF Writes
  <2>5. \E t \in Tokens : IsSafe(t)'
    <3>1. CASE \E t \in Tokens : record[t] # "ABSENT"
      BY <1>k, <2>4, <3>1
    <3>2. CASE \A t \in Tokens : record[t] = "ABSENT"
      <4>1. req[q].old = 0
        BY <3>2, <2>1, NumberFacts
        DEF RequestOK, TypeOK, IssuerTypeOK, RequestRecords
      <4>2. ~Reissuing(q)'
        BY <2>1, <4>1 DEF Moves, Reissuing
      <4>3. \A r \in Requests : ~Reissuing(r)'
        BY <1>t, <3>2, <4>2, ReissuingOnlyFalls
      <4>4. record'[n] = "ACTIVE"
        BY <2>1 DEF Writes
      <4>5. PICK t \in Tokens : t = n
        BY <2>1
      <4>6. IsSafe(t)'
        BY <4>3, <4>4, <4>5 DEF IsSafe
      <4> QED
        BY <4>6
    <3> QED
      BY <3>1, <3>2
  <2>6. \A u \in Tokens : record'[u] = "SUPERSEDED" => record[u] = "SUPERSEDED"
    BY <2>1 DEF Writes
  <2>7. ASSUME NEW r \in Requests, Reissuing(r)', req'[r].update = "supersede"
        PROVE  record'[req'[r].token] \in {"ACTIVE", "SUPERSEDED"}
    <3>1. CASE r = q
      BY <2>1, <2>2, <3>1 DEF Writes
    <3>2. CASE r # q
      <4>1. /\ Reissuing(r) /\ req'[r].token = req[r].token
            /\ req[r].update = "supersede"
        BY <2>7, <3>2, ReissuingOnlyFalls
      <4> QED
        BY <1>k, <1>t, <2>1, <4>1 DEF Writes
    <3> QED
      BY <3>1, <3>2
  <2> QED
    BY <1>k, <2>4, <2>5, <2>6, <2>7
<1>3. CASE UpdateStatus(q) /\ req[q].update = "supersede"
  <2> DEFINE n == req[q].token
             o == req[q].old
  <2>1. /\ n \in Tokens /\ o \in Tokens /\ o < n /\ Writes(o, "SUPERSEDED")
        /\ Moves(q, "done", "supersede") /\ Reissuing(q)
    BY <1>3, StatusWritten DEF Reissuing, UpdateUnanswered
  <2>n. \A t \in Tokens : t \in Nat
    BY NumberFacts
  <2>2. \A t \in Tokens : IsSafe(t) /\ t # o => IsSafe(t)'
    <3> SUFFICES ASSUME NEW t \in Tokens, IsSafe(t), t # o PROVE IsSafe(t)'
      OBVIOUS
    <3>1. record'[t] = record[t]
      BY <2>1 DEF Writes
    <3>2. ~CreateRecord(q)
      BY <1>3 DEF UpdateStatus, CreateRecord
    <3> QED
      BY <3>1, <3>2, SafeStays
  <2>3. \E v \in Tokens : v > o /\ IsSafe(v)'
    <3>1. CASE record[n] = "ACTIVE"
      <4>1. record'[n] = "ACTIVE"
        BY <2>1, <2>n, <3>1 DEF Writes
      <4>2. ~Reissuing(q)'
        BY <2>1 DEF Moves, Reissuing
      <4>3. \A r \in Requests : Reissuing(r)' => req'[r].token # n
        <5> SUFFICES ASSUME NEW r \in Requests, Reissuing(r)' PROVE req'[r].token # n
          OBVIOUS
        <5>1. r # q
          BY <4>2
        <5>2. Reissuing(r) /\ req'[r].token = req[r].token
          BY <5>1, ReissuingOnlyFalls
        <5> QED
          BY <2>1, <5>1, <5>2, ReissuersDiffer
      <4>4. PICK v \in Tokens : v = n
        BY <2>1
      <4>5. IsSafe(v)'
        BY <4>1, <4>3, <4>4 DEF IsSafe
      <4> QED
        BY <2>1, <2>n, <4>4, <4>5
    <3>2. CASE record[n] = "SUPERSEDED"
      <4>1. PICK v \in Tokens : v > n /\ IsSafe(v)
        BY <1>k, <2>1, <3>2
      <4> QED
        BY <2>1, <2>2, <2>n, <4>1
    <3> QED
      BY <1>3, <1>k, <2>1, <3>1, <3>2
  <2>4. PICK v \in Tokens : v > o /\ IsSafe(v)'
    BY <2>3
  <2>5. ASSUME NEW u \in Tokens, record'[u] = "SUPERSEDED"
        PROVE  \E t \in Tokens : t > u /\ IsSafe(t)'
    <3>1. CASE u = o
      BY <2>4, <3>1
    <3>2. CASE u # o
      <4>1. record[u] = "SUPERSEDED"
        BY <2>1, <2>5, <3>2 DEF Writes
      <4>2. PICK t \in Tokens : t > u /\ IsSafe(t)
        BY <1>k, <4>1
      <4>3. CASE t = o
        BY <2>1, <2>4, <2>n, <4>2, <4>3
      <4>4. CASE t # o
        BY <2>2, <4>2, <4>4
      <4> QED
        BY <4>3, <4>4
    <3> QED
      BY <3>1, <3>2
  <2>6. ASSUME NEW r \in Requests, Reissuing(r)', req'[r].update = "supersede"
        PROVE  record'[req'[r].token] \in {"ACTIVE", "SUPERSEDED"}
    <3>1. ~CreateRecord(q)
      BY <1>3 DEF UpdateStatus, CreateRecord
    <3>2. /\ Reissuing(r) /\ req'[r].token = req[r].token
          /\ req[r].update = "supersede"
      BY <2>6, <3>1, ReissuingOnlyFalls
    <3> QED
      BY <1>k, <1>t, <2>1, <3>2 DEF Writes
  <2> QED
    BY <2>4, <2>5, <2>6
<1>4. CASE UpdateStatus(q) /\ req[q].update = "rollback"
  <2> DEFINE n == req[q].token
  <2>1. /\ n \in Tokens /\ Writes(n, "REVOKED") /\ Reissuing(q) /\ record[n] # "ABSENT"
        /\ Moves(q, "failed", "rollback")
    BY <1>4, StatusWritten DEF Reissuing
  <2>2. ~CreateRecord(q)
    BY <1>4 DEF UpdateStatus, CreateRecord
  <2>3. \A t \in Tokens : IsSafe(t) => t # n
    BY <2>1 DEF IsSafe
  <2>4. \A t \in Tokens : IsSafe(t) => IsSafe(t)'
    BY <2>1, <2>2, <2>3, SafeStays DEF Writes
  <2>5. \A u \in Tokens : record'[u] = "SUPERSEDED" => record[u] = "SUPERSEDED"
    BY <2>1 DEF Writes
  <2>6. ASSUME NEW r \in Requests, Reissuing(r)', req'[r].update = "supersede"
        PROVE  record'[req'[r].token] \in {"ACTIVE", "SUPERSEDED"}
    <3>1. /\ Reissuing(r) /\ req'[r].token = req[r].token
          /\ req[r].update = "supersede"
      BY <2>2, <2>6, ReissuingOnlyFalls
    <3>2. r # q
      BY <1>4, <3>1
    <3>3. req[r].token # n
      BY <2>1, <3>1, <3>2, ReissuersDiffer
    <3> QED
      BY <1>k, <1>t, <2>1, <3>1, <3>3 DEF Writes
  <2> QED
    BY <1>k, <2>1, <2>4, <2>5, <2>6
<1>5. CASE UpdateUnanswered(q) \/ (UpdateStatus(q) /\ req[q].update = "revoke")
  BY <1>5 DEF UpdateUnanswered, UpdateStatus
<1>6. UpdateStatus(q) => req[q].update \in {"supersede", "rollback", "revoke"}
  BY StatusWritten
<1> QED
  BY <1>1, <1>2, <1>3, <1>4, <1>5, <1>6
  DEF Begins, GoesOn, StoreVault, Revoke, CreateRecordFails, UndoVault, JudgeStatus,
      RefuseStatus, UpdateCallFails, StoreRevocation, Die, registry

-----------------------------------------------------------------------------
(* Callers and the profile                                                 *)

\* What a request was issued for does not change any more.
LEMMA BegunStays ==
    ASSUME TypeOK, \A r \in Requests : RequestOK(r), NEW q \in Requests, Begins(q) \/ GoesOn(q),
           NEW r \in Requests, req[r].pc # "new"
    PROVE  /\ req'[r].pc # "new" /\ req'[r].token = req[r].token /\ req'[r].old = req[r].old
           /\ kyc'[req[r].token] = kyc[req[r].token]
<1>1. StepOf(q)
  BY StepsKeep DEF StepKeeps
<1>2. kyc'[req[r].token] = kyc[req[r].token]
  BY <1>1 DEF StepOf, Grows, RequestOK
<1>3. CASE r # q
  BY <1>1, <1>2, <1>3 DEF StepOf
<1>4. CASE r = q
  <2>1. GoesOn(q)
    BY <1>4 DEF Begins, StoreVault, Revoke, IsNew
  <2> QED
    BY <1>2, <1>4, <2>1, GoesOnMoves DEF Moves
<1> QED
  BY <1>3, <1>4

\* The same for every step.
LEMMA IssuedStays ==
    ASSUME TokensInv, [Next]_vars
    PROVE  /\ \A r \in Requests : req[r].pc # "new" =>
                 /\ req'[r].pc # "new" /\ req'[r].token = req[r].token
                 /\ req'[r].old = req[r].old
                 /\ kyc'[req[r].token] = kyc[req[r].token]
           /\ made' \in Nat /\ made <= made' /\ \A t \in 1 .. made : kyc'[t] = kyc[t]
<1>1. CASE UNCHANGED issuerVars
  BY <1>1, NumberFacts DEF issuerVars, tokens, TokensInv
<1>2. ASSUME NEW q \in Requests, Begins(q) \/ GoesOn(q)
      PROVE  /\ \A r \in Requests : req[r].pc # "new" =>
                   /\ req'[r].pc # "new" /\ req'[r].token = req[r].token
                   /\ req'[r].old = req[r].old
                   /\ kyc'[req[r].token] = kyc[req[r].token]
             /\ made' \in Nat /\ made <= made' /\ \A t \in 1 .. made : kyc'[t] = kyc[t]
  BY <1>2, BegunStays, StepsKeep DEF TokensInv, StepKeeps, StepOf, Grows
<1>3. ASSUME NEW t \in Tokens, FindDue(t) \/ ExpireDue(t)
      PROVE  UNCHANGED <<made, kyc, req>>
  BY <1>3 DEF FindDue, ExpireDue, tokens
<1> QED
  BY <1>1, <1>2, <1>3, IssuerSteps, NumberFacts DEF TokensInv

\* The caller a step is of.
LEMMA CallersKept ==
    ASSUME TokensInv, [Next]_vars
    PROVE  /\ caller' \in [Callers -> Callings]
           /\ \A s \in Callers : CallerOK(s)'
           /\ \A s \in Callers : caller'[s].pc = "called" =>
                 caller'[s].call \in Requests /\ req'[caller'[s].call].old # 0
<1> USE DEF TokensInv
<1>0. /\ caller \in [Callers -> Callings] /\ NewCaller \in Callings /\ NewCaller.pc = "new"
      /\ Current \in Versions \cup {0}
  BY CkycAssumption DEF TypeOK, NewCaller, Callings, Current
<1>1. ASSUME NEW s \in Callers, caller'[s] = caller[s]
      PROVE  /\ CallerOK(s)'
             /\ caller'[s].pc = "called" =>
                   caller'[s].call \in Requests /\ req'[caller'[s].call].old # 0
  BY <1>1, IssuedStays, NumberFacts DEF CallerOK, TypeOK
<1>2. CASE caller' = caller
  BY <1>0, <1>1, <1>2
<1>3. ASSUME NEW s \in Callers, NEW rec \in Callings, caller' = [caller EXCEPT ![s] = rec],
             rec.pc \notin {"found", "called", "verified"}
      PROVE  /\ caller' \in [Callers -> Callings]
             /\ \A w \in Callers : CallerOK(w)'
             /\ \A w \in Callers : caller'[w].pc = "called" =>
                   caller'[w].call \in Requests /\ req'[caller'[w].call].old # 0
  <2>1. /\ caller' \in [Callers -> Callings] /\ caller'[s] = rec
        /\ \A w \in Callers \ {s} : caller'[w] = caller[w]
    BY <1>0, <1>3
  <2>2. CallerOK(s)' /\ caller'[s].pc # "called"
    BY <1>3, <2>1 DEF CallerOK
  <2> QED
    BY <1>1, <2>1, <2>2
<1>4. ASSUME NEW s \in Callers, End(s)
      PROVE  caller' = [caller EXCEPT ![s] = NewCaller] /\ NewCaller.pc \notin {"found", "called", "verified"}
  BY <1>0, <1>4 DEF End
<1>5. ASSUME NEW s \in Callers, ReadForUpdate(s)
      PROVE  \E rec \in Callings : caller' = [caller EXCEPT ![s] = rec] /\ rec.pc = "updating"
  <2> DEFINE rec == [caller[s] EXCEPT !.pc = "updating", !.version = Current + 1]
  <2>1. rec \in Callings /\ rec.pc = "updating"
    BY <1>0, <1>5 DEF ReadForUpdate, Callings
  <2>2. caller' = [caller EXCEPT ![s] = rec]
    BY <1>0, <1>5 DEF ReadForUpdate
  <2> HIDE DEF rec
  <2> QED
    BY <2>1, <2>2
<1>6. ASSUME NEW s \in Callers, StartSync(s), ~End(s)
      PROVE  \E rec \in Callings : caller' = [caller EXCEPT ![s] = rec] /\ rec.pc = "changed"
  <2> DEFINE rec == [caller[s] EXCEPT !.pc = "changed", !.version = Current]
  <2>1. rec \in Callings /\ rec.pc = "changed"
    BY <1>0 DEF Callings
  <2>2. caller' = [caller EXCEPT ![s] = rec]
    BY <1>0, <1>6 DEF StartSync
  <2> HIDE DEF rec
  <2> QED
    BY <2>1, <2>2
<1>7. ASSUME NEW s \in Callers, VerifyTokens(s)
      PROVE  /\ caller' \in [Callers -> Callings]
             /\ \A w \in Callers : CallerOK(w)'
             /\ \A w \in Callers : caller'[w].pc = "called" =>
                   caller'[w].call \in Requests /\ req'[caller'[w].call].old # 0
  <2> DEFINE n == req[caller[s].call].token
             rec == [caller[s] EXCEPT !.pc = "verified", !.token = n, !.call = NoRequest]
  <2>1. /\ caller[s].version \in Versions \cup {0}
        /\ n \in 1 .. made /\ kyc[n] = caller[s].version
    BY <1>0, <1>7 DEF VerifyTokens, IsSuperseded, CallerOK, RequestOK, Callings
  <2>2. n \in Tokens
    BY <2>1, NumberFacts
  <2>3. UNCHANGED <<made, kyc>>
    BY <1>7 DEF VerifyTokens, issuerVars, tokens
  <2>4. caller' = [caller EXCEPT ![s] = rec]
    BY <1>0, <1>7 DEF VerifyTokens
  <2> HIDE DEF n
  <2>5. rec \in Callings /\ rec.pc = "verified" /\ rec.token = n /\ rec.version = caller[s].version
    BY <1>0, <2>2 DEF Callings
  <2> HIDE DEF rec
  <2>6. /\ caller' \in [Callers -> Callings] /\ caller'[s] = rec
        /\ \A w \in Callers \ {s} : caller'[w] = caller[w]
    BY <1>0, <2>4, <2>5
  <2>7. CallerOK(s)' /\ caller'[s].pc # "called"
    BY <2>1, <2>3, <2>5, <2>6 DEF CallerOK
  <2> QED
    BY <1>1, <2>6, <2>7
<1>8. ASSUME NEW s \in Callers, NEW t \in Tokens, FindActiveToken(s, t)
      PROVE  /\ caller' \in [Callers -> Callings]
             /\ \A w \in Callers : CallerOK(w)'
             /\ \A w \in Callers : caller'[w].pc = "called" =>
                   caller'[w].call \in Requests /\ req'[caller'[w].call].old # 0
  <2> DEFINE rec == [caller[s] EXCEPT !.pc = "found", !.token = t]
  <2>1. rec \in Callings /\ rec.pc = "found" /\ rec.token = t
    BY <1>0 DEF Callings
  <2>2. caller' = [caller EXCEPT ![s] = rec]
    BY <1>0, <1>8 DEF FindActiveToken
  <2> HIDE DEF rec
  <2>3. /\ caller' \in [Callers -> Callings] /\ caller'[s] = rec
        /\ \A w \in Callers \ {s} : caller'[w] = caller[w]
    BY <1>0, <2>1, <2>2
  <2>4. CallerOK(s)' /\ caller'[s].pc # "called"
    BY <2>1, <2>3 DEF CallerOK
  <2> QED
    BY <1>1, <2>3, <2>4
<1>9. ASSUME NEW s \in Callers, NEW q \in Requests, CallSupersede(s, q)
      PROVE  /\ caller' \in [Callers -> Callings]
             /\ \A w \in Callers : CallerOK(w)'
             /\ \A w \in Callers : caller'[w].pc = "called" =>
                   caller'[w].call \in Requests /\ req'[caller'[w].call].old # 0
  <2> DEFINE rec == [caller[s] EXCEPT !.pc = "called", !.token = 0, !.call = q]
  <2>1. rec \in Callings /\ rec.pc = "called" /\ rec.call = q /\ rec.version = caller[s].version
    BY <1>0 DEF Callings
  <2>2. caller' = [caller EXCEPT ![s] = rec]
    BY <1>0, <1>9 DEF CallSupersede
  <2> HIDE DEF rec
  <2>3. /\ caller' \in [Callers -> Callings] /\ caller'[s] = rec
        /\ \A w \in Callers \ {s} : caller'[w] = caller[w]
    BY <1>0, <2>1, <2>2
  <2>4. caller[s].token \in Tokens /\ caller[s].version \in Versions \cup {0}
    BY <1>0, <1>9 DEF CallSupersede, CallerOK, Callings
  <2>5. StoreVault(q, caller[s].version, caller[s].token)
    BY <1>9 DEF CallSupersede, Supersede
  <2>6. /\ req'[q].pc = "stored" /\ req'[q].token = made + 1 /\ req'[q].old = caller[s].token
        /\ kyc'[made + 1] = caller[s].version
    BY <2>4, <2>5, StoreVaultBegins
  <2>7. CallerOK(s)' /\ req'[caller'[s].call].old # 0 /\ caller'[s].call \in Requests
    BY <2>1, <2>3, <2>4, <2>6, NumberFacts DEF CallerOK
  <2> QED
    BY <1>1, <2>3, <2>7
<1>10. ASSUME NEW s \in Callers, CallerStep(s)
       PROVE  \/ End(s) \/ ReadForUpdate(s) \/ (StartSync(s) /\ ~End(s))
              \/ VerifyTokens(s)
              \/ \E t \in Tokens : FindActiveToken(s, t)
              \/ \E q \in Requests : CallSupersede(s, q)
  BY <1>10 DEF CallerStep, WriteUpdate, StartSync, WriteSynced, CallerFails
<1>11. ASSUME ~(\E s \in Callers : CallerStep(s))
       PROVE  caller' = caller
  BY <1>11 DEF Next, ReadProfile, Issuer, Apart, vars
<1>12. ASSUME NEW s \in Callers, CallerStep(s)
       PROVE  /\ caller' \in [Callers -> Callings]
              /\ \A w \in Callers : CallerOK(w)'
              /\ \A w \in Callers : caller'[w].pc = "called" =>
                    caller'[w].call \in Requests /\ req'[caller'[w].call].old # 0
  <2>1. CASE End(s)
    BY <1>0, <1>3, <1>4, <2>1
  <2>2. CASE ReadForUpdate(s)
    <3>1. PICK rec \in Callings : caller' = [caller EXCEPT ![s] = rec] /\ rec.pc = "updating"
      BY <1>5, <2>2
    <3> QED
      BY <1>3, <3>1
  <2>3. CASE StartSync(s) /\ ~End(s)
    <3>1. PICK rec \in Callings : caller' = [caller EXCEPT ![s] = rec] /\ rec.pc = "changed"
      BY <1>6, <2>3
    <3> QED
      BY <1>3, <3>1
  <2> QED
    BY <1>7, <1>8, <1>9, <1>10, <1>12, <2>1, <2>2, <2>3
<1> QED
  BY <1>2, <1>11, <1>12

\* The profile's row and what was synced last.
LEMMA ProfileKept ==
    ASSUME TokensInv, [Next]_vars
    PROVE  /\ profile' \in Versions \cup {0}
           /\ synced' \in [hash: Versions \cup {0}, version: Versions \cup {0},
                           token: Tokens \cup {0}]
           /\ SyncedOK'
<1> USE DEF TokensInv
<1>1. Current \in Versions
  BY CkycAssumption DEF TypeOK, Current
<1>2. CASE UNCHANGED <<profile, synced>>
  BY <1>2, IssuedStays, NumberFacts DEF TypeOK, SyncedOK
<1>3. CASE ReadProfile \/ \E s \in Callers : ReadForUpdate(s) \/ WriteUpdate(s) \/ StartSync(s)
  <2>1. profile' \in Versions \cup {0} /\ synced' = synced
    BY <1>1, <1>3 DEF ReadProfile, ReadForUpdate, WriteUpdate, StartSync, TypeOK, Callings
  <2> QED
    BY <2>1, IssuedStays, NumberFacts DEF TypeOK, SyncedOK
<1>4. ASSUME NEW s \in Callers, WriteSynced(s)
      PROVE  /\ profile' = profile
             /\ synced' \in [hash: Versions \cup {0}, version: Versions \cup {0},
                             token: Tokens \cup {0}]
             /\ SyncedOK'
  <2>1. /\ caller[s].version \in Versions \cup {0}
        /\ caller[s].token \in 1 .. made /\ kyc[caller[s].token] = caller[s].version
    BY <1>4 DEF WriteSynced, CallerOK, TypeOK, Callings
  <2>2. caller[s].token \in Tokens
    BY <2>1, NumberFacts
  <2>3. /\ synced' = [hash |-> caller[s].version, version |-> caller[s].version,
                      token |-> caller[s].token]
        /\ UNCHANGED <<made, kyc, profile>>
    BY <1>4 DEF WriteSynced, issuerVars, tokens
  <2> QED
    BY <2>1, <2>2, <2>3 DEF SyncedOK
<1>5. \/ UNCHANGED <<profile, synced>>
      \/ ReadProfile
      \/ \E s \in Callers : ReadForUpdate(s) \/ WriteUpdate(s) \/ StartSync(s) \/ WriteSynced(s)
  BY DEF Next, CallerStep, FindActiveToken, CallSupersede, VerifyTokens, CallerFails,
         Issuer, Apart, vars
<1> QED
  BY <1>2, <1>3, <1>4, <1>5 DEF TypeOK

-----------------------------------------------------------------------------
(* The theorems                                                            *)

LEMMA InitInv == Init => TokensInv
<1> SUFFICES ASSUME Init PROVE TokensInv
  OBVIOUS
<1> USE DEF Init, IssuerInit
<1>1. New \in RequestRecords /\ New.pc = "new" /\ New.update = "none" /\ New.token = 0 /\ New.old = 0
  BY DEF New, RequestRecords
<1>2. \A r \in Requests : req[r] = New
  OBVIOUS
<1>3. made \in Tokens \cup {0} /\ made \in {0, 1}
  BY IssuerAssumption DEF Tokens
<1>4. /\ \A t \in Tokens : t \in Nat /\ t # 0
      /\ \A t \in Tokens : record[t] = IF t <= made THEN "ACTIVE" ELSE "ABSENT"
      /\ \A t \in Tokens : vault[t] = IF t <= made THEN "KEPT" ELSE "NONE"
  BY DEF Tokens
<1>5. IssuerTypeOK
  <2>1. /\ record \in [Tokens -> {"ABSENT", "ACTIVE", "REVOKED", "SUPERSEDED", "EXPIRED"}]
        /\ vault \in [Tokens -> {"NONE", "KEPT", "DELETED"}]
        /\ kyc \in [Tokens -> Versions \cup {0}]
        /\ supersededBy \in [Tokens -> Tokens \cup {0}]
    OBVIOUS
  <2>2. req \in [Requests -> RequestRecords]
    BY <1>1
  <2>3. \A t \in Tokens : (vault[t] # "NONE" <=> t <= made) /\ (record[t] # "ABSENT" => t <= made)
    BY <1>4
  <2>4. /\ due \subseteq 1 .. made /\ revocations \subseteq 1 .. made /\ unanswered \subseteq 1 .. made
        /\ abandoned \subseteq 1 .. made /\ withdrawn \in BOOLEAN
    OBVIOUS
  <2>5. 0 <= made
    BY <1>3
  <2>6. \A r \in Requests : req[r].token <= made /\ req[r].old <= made
    BY <1>1, <1>2, <2>5
  <2> HIDE DEF Init, IssuerInit
  <2> QED
    BY <1>3, <2>1, <2>2, <2>3, <2>4, <2>6 DEF IssuerTypeOK
<1>6. TypeOK /\ SyncedOK /\ \A s \in Callers : CallerOK(s)
  <2>1. NewCaller \in Callings /\ NewCaller.pc = "new"
    BY DEF NewCaller, Callings
  <2>2. \A s \in Callers : caller[s].pc = "new"
    BY <2>1
  <2> QED
    BY <1>5, <2>1, <2>2 DEF TypeOK, SyncedOK, NeverSynced, CallerOK
<1>7. OneMaker /\ \A r \in Requests : RequestOK(r) /\ ~Reissuing(r)
  BY <1>1, <1>2 DEF OneMaker, IsMaker, RequestOK, Reissuing
<1>8. StoresOK /\ SuccessorsOK /\ DueOK
  BY <1>4 DEF StoresOK, SuccessorsOK, NamesOK, DueOK
<1>9. KeepsOK
  BY <1>4, <1>7 DEF KeepsOK, IsSafe
<1> QED
  BY <1>6, <1>7, <1>8, <1>9 DEF TokensInv

LEMMA InvKept == TokensInv /\ [Next]_vars => TokensInv'
<1> SUFFICES ASSUME TokensInv, [Next]_vars PROVE TokensInv'
  OBVIOUS
<1> USE DEF TokensInv
<1>1. IssuerTypeOK' /\ OneMaker' /\ (\A r \in Requests : RequestOK(r)') /\ StoresOK'
      /\ SuccessorsOK' /\ DueOK' /\ KeepsOK'
  <2>1. CASE UNCHANGED issuerVars
    BY <2>1
    DEF issuerVars, tokens, registry, history, TypeOK, IssuerTypeOK, OneMaker, IsMaker, RequestOK,
        IsOver, StoresOK, SuccessorsOK, NamesOK, DueOK, KeepsOK, IsSafe, Reissuing
  <2>2. ASSUME NEW q \in Requests, Begins(q) \/ GoesOn(q)
        PROVE  IssuerTypeOK' /\ OneMaker' /\ (\A r \in Requests : RequestOK(r)') /\ StoresOK'
               /\ SuccessorsOK' /\ DueOK' /\ KeepsOK'
    <3>1. StepKeeps(q)
      BY <2>2, StepsKeep
    <3>2. \A r \in Requests : RequestOK(r)'
      BY <3>1, BystandersOK DEF StepKeeps
    <3>3. DueOK'
      BY <2>2, <3>1, DueKept
    <3> QED
      BY <2>2, <3>1, <3>2, <3>3, OneMakerKept, StoresKept, SuccessorsKept, KeepsKept
      DEF StepKeeps
  <2>3. ASSUME NEW t \in Tokens, ExpireDue(t)
        PROVE  IssuerTypeOK' /\ OneMaker' /\ (\A r \in Requests : RequestOK(r)') /\ StoresOK'
               /\ SuccessorsOK' /\ DueOK' /\ KeepsOK'
    <3>1. /\ IssuerTypeOK' /\ Grows /\ Writes(t, "EXPIRED") /\ record[t] # "ABSENT"
          /\ supersededBy'[t] = 0
          /\ \A u \in Tokens \ {t} : supersededBy'[u] = supersededBy[u]
          /\ \A r \in Requests : RequestOK(r)'
      BY <2>3, ExpireDueKeeps
    <3>2. /\ UNCHANGED <<tokens, due, revocations, req, unanswered, abandoned>>
          /\ withdrawn' = TRUE
      BY <2>3 DEF ExpireDue
    <3>3. OneMaker' /\ KeepsOK'
      BY <3>2 DEF OneMaker, IsMaker, KeepsOK
    <3>4. \A u \in Tokens : /\ record[u] = "ABSENT" <=> record'[u] = "ABSENT"
                            /\ record[u] # "ACTIVE" => record'[u] # "ACTIVE"
                            /\ record'[u] = "SUPERSEDED" => record[u] = "SUPERSEDED" /\ u # t
      BY <3>1 DEF Grows, Writes
    <3>9. due \subseteq Tokens /\ revocations \subseteq Tokens
      BY NumberFacts DEF TypeOK, IssuerTypeOK
    <3>5. StoresOK'
      <4>1. /\ \A u \in Tokens : record'[u] # "ABSENT" => vault'[u] = "KEPT" \/ u \in unanswered'
            /\ \A u \in Tokens : vault'[u] = "KEPT" /\ record'[u] = "ABSENT" =>
                  \/ \E r \in Requests : req'[r].token = u /\ req'[r].pc \in {"stored", "undo"}
                  \/ u \in abandoned'
        BY <3>2, <3>4 DEF StoresOK, tokens
      <4>2. \A u \in revocations' : IsOver(u)'
        BY <3>2, <3>4, <3>9 DEF StoresOK, IsOver
      <4> QED
        BY <4>1, <4>2 DEF StoresOK
    <3>6. NamesOK'
      BY <3>1 DEF SuccessorsOK, NamesOK, Writes
    <3>7. SuccessorsOK'
      <4> SUFFICES ASSUME NEW u \in Tokens, record'[u] = "SUPERSEDED"
                   PROVE  /\ supersededBy'[u] \in Tokens /\ supersededBy'[u] > u
                          /\ record'[supersededBy'[u]] # "ABSENT"
        BY <3>6 DEF SuccessorsOK
      <4>1. supersededBy'[u] = supersededBy[u] /\ record[u] = "SUPERSEDED"
        BY <3>1, <3>4
      <4> QED
        BY <3>4, <4>1 DEF SuccessorsOK
    <3>8. DueOK'
      BY <3>2, <3>4, <3>9 DEF DueOK
    <3> QED
      BY <3>1, <3>3, <3>5, <3>7, <3>8
  <2>4. ASSUME NEW t \in Tokens, FindDue(t)
        PROVE  IssuerTypeOK' /\ OneMaker' /\ (\A r \in Requests : RequestOK(r)') /\ StoresOK'
               /\ SuccessorsOK' /\ DueOK' /\ KeepsOK'
    <3>1. /\ IssuerTypeOK' /\ DueOK'
          /\ UNCHANGED <<tokens, record, supersededBy, created, revocations, req, history>>
      BY <2>4, FindDueKeeps
    <3> QED
      BY <3>1
      DEF tokens, history, OneMaker, IsMaker, RequestOK, IsOver, StoresOK, SuccessorsOK,
          NamesOK, KeepsOK, IsSafe, Reissuing
  <2> QED
    BY <2>1, <2>2, <2>3, <2>4, IssuerSteps
<1> QED
  BY <1>1, CallersKept, ProfileKept DEF TypeOK

LEMMA SpecInv == Spec => []TokensInv
BY InitInv, InvKept, PTL DEF Spec

\* The shape of the state: the tokens are those that were made, and a sync that waits for
\* a reissue waits for one.
THEOREM TypeCorrect == Spec => []TypeOK
BY SpecInv, PTL DEF TokensInv

\* The issuer's vault, the registry and the revocation store agree, whichever calls fail,
\* lose their answer or die half way.
THEOREM StoresInStep == Spec => []StoresAgree
<1>1. TokensInv => StoresAgree
  BY DEF TokensInv, StoresOK, StoresAgree, IsOver
<1> QED
  BY <1>1, SpecInv, PTL

\* A reissue that has ended leaves one of its two tokens ACTIVE at most, and what is
\* SUPERSEDED names a newer token the registry knows.
THEOREM ReissuesSettle == Spec => []ReissueSettles
<1>1. TokensInv => ReissueSettles
  BY DEF TokensInv, RequestOK, SuccessorsOK, ReissueSettles, IsOver
<1> QED
  BY <1>1, SpecInv, PTL

\* Reissues alone never leave a user without an ACTIVE token.
THEOREM TokenIsKept == Spec => []UserKeepsAToken
<1>1. TokensInv => UserKeepsAToken
  BY DEF TokensInv, KeepsOK, IsSafe, UserKeepsAToken, HasActiveToken
<1> QED
  BY <1>1, SpecInv, PTL

\* NO_CHANGE is the truth: the token synced last holds the profile as it is.
THEOREM NoChangeTrue == Spec => []NoChangeIsTrue
<1>1. TokensInv => NoChangeIsTrue
  BY DEF TokensInv, SyncedOK, NoChangeIsTrue, Unsynced
<1> QED
  BY <1>1, SpecInv, PTL

-----------------------------------------------------------------------------
(***************************************************************************)
(* The registry under the issuer, seen as RegistryLedger promises it to    *)
(* be: the versions and the history of a row are not in this model, so a   *)
(* step is compared with the ledger's by what it does to the row.          *)
(***************************************************************************)

\* RegistryLedger!Issue, RegistryLedger!Change, or the row is left alone.
RowIsIssued(t) == record[t] = "ABSENT" /\ record'[t] = "ACTIVE" /\ supersededBy'[t] = 0

RowIsChanged(t) ==
    /\ record[t] # "ABSENT"
    /\ record'[t] \in {"REVOKED", "SUPERSEDED", "EXPIRED"}
    /\ record'[t] = "SUPERSEDED" <=> supersededBy'[t] # 0

RowIsLeft(t) == record'[t] = record[t] /\ supersededBy'[t] = supersededBy[t]

\* What the issuer's calls, whether they are answered or not, and the registry's own
\* sweeps do to the rows is what the ledger of registry-service allows: a row is
\* issued once, never becomes ACTIVE again, names a successor exactly when it is
\* SUPERSEDED, and no step touches two of them.
RowsFollowLedger ==
    [][\/ \A t \in Tokens : RowIsLeft(t)
       \/ \E t \in Tokens : /\ RowIsIssued(t) \/ RowIsChanged(t)
                            /\ \A u \in Tokens \ {t} : RowIsLeft(u)]_vars

LEMMA RowsStep ==
    ASSUME TokensInv, [Next]_vars
    PROVE  \/ \A t \in Tokens : RowIsLeft(t)
           \/ \E t \in Tokens : /\ RowIsIssued(t) \/ RowIsChanged(t)
                                /\ \A u \in Tokens \ {t} : RowIsLeft(u)
<1> USE DEF TokensInv
<1>1. CASE UNCHANGED <<record, supersededBy>>
  BY <1>1 DEF RowIsLeft
<1>2. ASSUME NEW q \in Requests, CreateRecord(q) \/ CreateRecordUnanswered(q)
      PROVE  /\ req[q].token \in Tokens /\ RowIsIssued(req[q].token)
             /\ \A u \in Tokens \ {req[q].token} : RowIsLeft(u)
  BY <1>2, RowMade DEF Writes, RowIsIssued, RowIsLeft, SuccessorsOK, NamesOK
<1>3. ASSUME NEW q \in Requests, UpdateStatus(q) \/ UpdateUnanswered(q)
      PROVE  \E t \in Tokens : RowIsChanged(t) /\ \A u \in Tokens \ {t} : RowIsLeft(u)
  <2>1. CASE req[q].update = "supersede"
    <3>1. /\ req[q].old \in Tokens /\ record[req[q].old] # "ABSENT" /\ req[q].token # 0
          /\ Writes(req[q].old, "SUPERSEDED") /\ supersededBy'[req[q].old] = req[q].token
          /\ \A u \in Tokens \ {req[q].old} : supersededBy'[u] = supersededBy[u]
      BY <1>3, <2>1, StatusWritten, NumberFacts
    <3> QED
      BY <3>1 DEF Writes, RowIsChanged, RowIsLeft
  <2>2. CASE req[q].update # "supersede"
    <3>1. /\ req[q].token \in Tokens /\ record[req[q].token] # "ABSENT"
          /\ Writes(req[q].token, "REVOKED") /\ supersededBy'[req[q].token] = 0
          /\ \A u \in Tokens \ {req[q].token} : supersededBy'[u] = supersededBy[u]
      BY <1>3, <2>2, StatusWritten
    <3> QED
      BY <3>1 DEF Writes, RowIsChanged, RowIsLeft
  <2> QED
    BY <2>1, <2>2
<1>4. ASSUME NEW t \in Tokens, ExpireDue(t)
      PROVE  RowIsChanged(t) /\ \A u \in Tokens \ {t} : RowIsLeft(u)
  BY <1>4, ExpireDueKeeps DEF Writes, RowIsChanged, RowIsLeft
<1>5. ASSUME NEW t \in Tokens, FindDue(t) PROVE UNCHANGED <<record, supersededBy>>
  BY <1>5 DEF FindDue
<1>6. CASE UNCHANGED issuerVars
  BY <1>1, <1>6 DEF issuerVars, registry
<1>7. ASSUME NEW q \in Requests, Begins(q) \/ GoesOn(q)
      PROVE  \/ UNCHANGED <<record, supersededBy>>
             \/ CreateRecord(q) \/ CreateRecordUnanswered(q)
             \/ UpdateStatus(q) \/ UpdateUnanswered(q)
  BY <1>7
  DEF Begins, GoesOn, StoreVault, Revoke, CreateRecordFails, UndoVault, JudgeStatus,
      RefuseStatus, UpdateCallFails, StoreRevocation, Die, registry
<1> QED
  BY <1>1, <1>2, <1>3, <1>4, <1>5, <1>6, <1>7, IssuerSteps

\* The registry under the issuer is a ledger, whatever requests, sweeps and lost
\* answers overlap.
THEOREM RowsOfALedger == Spec => RowsFollowLedger
<1>1. TokensInv /\ [Next]_vars =>
         [\/ \A t \in Tokens : RowIsLeft(t)
          \/ \E t \in Tokens : /\ RowIsIssued(t) \/ RowIsChanged(t)
                               /\ \A u \in Tokens \ {t} : RowIsLeft(u)]_vars
  BY RowsStep
<1> QED
  BY <1>1, SpecInv, PTL DEF Spec, RowsFollowLedger

=============================================================================
