---------------------------- MODULE IssuerService ----------------------------
(***************************************************************************)
(* issuer-service (apps/issuer-service): the tokens of one user, each with *)
(* an entry in the vault (the issuer's table) and a row in the registry    *)
(* (another service, reached by HTTP).  Issuing and reissuing write both   *)
(* and undo what they wrote when a call fails; a call may also fail after  *)
(* it took effect, when only its answer is lost.                           *)
(*                                                                         *)
(* The registry judges a status update and writes the row in two steps     *)
(* (Registry, CheckStatusUpdate and UpdateRow), and so does its sweep.  Of *)
(* a KYC record only the version of the CKYC profile in it matters, 0 when *)
(* there is none.                                                          *)
(* CkycAdapter composes these steps with their callers.                    *)
(***************************************************************************)
EXTENDS Integers, Sequences

CONSTANTS
    MaxTokens,      \* bound on the tokens made
    Versions,       \* versions of a CKYC profile
    Requests        \* requests ever made of the issuer

ASSUME IssuerAssumption ==
    /\ MaxTokens \in Nat
    /\ Versions \subseteq Nat \ {0}

VARIABLES
    made,           \* tokens made so far; a token's id is fresh
    vault,          \* of each token, its entry: "NONE", "KEPT" or "DELETED"
    kyc,            \* of each token, the profile version its entry holds
    record,         \* of each token, the status of its row in the registry
    supersededBy,   \* of each row, the successor it names, 0 without one
    created,        \* the rows in the order they were made
    due,            \* rows some sweep has read as ACTIVE and due, and may yet write
    revocations,    \* jtis in the revocation store
    req,            \* the requests in flight
    unanswered,     \* tokens whose creation the registry never confirmed (history)
    abandoned,      \* tokens a request could not undo, or died on (history)
    withdrawn       \* the user lost a token to a revocation, to the sweep, or to
                    \* an update whose answer was lost (history)

registry == <<record, supersededBy, created, due>>
tokens == <<made, vault, kyc>>
history == <<unanswered, abandoned, withdrawn>>
issuerVars == <<tokens, registry, revocations, req, history>>

Tokens == 1 .. MaxTokens

\* A request: how far it is, the update it asks the registry for, the token it
\* made or is about, and the one that is to be superseded.
New == [pc |-> "new", update |-> "none", token |-> 0, old |-> 0]

RequestRecords ==
    [pc: {"new", "stored", "undo", "ask", "judged", "revoked", "done", "failed"},
     update: {"none", "supersede", "rollback", "revoke"},
     token: Tokens \cup {0}, old: Tokens \cup {0}]

IsNew(r) == req[r].pc = "new"

Goto(r, pc) == req' = [req EXCEPT ![r].pc = pc]

Ask(r, update) == req' = [req EXCEPT ![r].pc = "ask", ![r].update = update]

-----------------------------------------------------------------------------
(* The registry                                                            *)

\* The row an update of r is about, and the status it asks for.
Target(r) == IF req[r].update = "supersede" THEN req[r].old ELSE req[r].token

NextStatus(r) ==
    IF req[r].update = "supersede" THEN "SUPERSEDED" ELSE "REVOKED"

\* findFirst of the ACTIVE rows, the latest updatedAt first: the token a caller
\* takes for the user's.  The first update of a row ends its being ACTIVE, so among
\* ACTIVE rows the latest is the one created last.  Its expiry is not looked at.
IsActiveToken(t) ==
    \E i \in DOMAIN created :
        /\ created[i] = t
        /\ record[t] = "ACTIVE"
        /\ \A j \in DOMAIN created : j > i => record[created[j]] # "ACTIVE"

\* Callers learn of a token from the registry, or from the answer to its creation.
IsKnown(t) == record[t] # "ABSENT"

HasActiveToken == \E t \in Tokens : record[t] = "ACTIVE"

\* POST /v1/internal/registry/token.
AddRecord(t) ==
    /\ record' = [record EXCEPT ![t] = "ACTIVE"]
    /\ created' = Append(created, t)
    /\ UNCHANGED <<supersededBy, due>>

WriteStatus(r) ==
    /\ record' = [record EXCEPT ![Target(r)] = NextStatus(r)]
    /\ supersededBy' = [supersededBy EXCEPT ![Target(r)] =
                          IF req[r].update = "supersede" THEN req[r].token ELSE 0]
    /\ UNCHANGED <<created, due>>

\* The user has no token yet, or one that was issued before.
IssuerInit ==
    /\ made \in {n \in {0, 1} : n <= MaxTokens}
    /\ vault = [t \in Tokens |-> IF t <= made THEN "KEPT" ELSE "NONE"]
    /\ kyc = [t \in Tokens |-> 0]
    /\ record = [t \in Tokens |-> IF t <= made THEN "ACTIVE" ELSE "ABSENT"]
    /\ supersededBy = [t \in Tokens |-> 0]
    /\ created = IF made = 0 THEN <<>> ELSE <<1>>
    /\ due = {}
    /\ revocations = {}
    /\ req = [r \in Requests |-> New]
    /\ unanswered = {}
    /\ abandoned = {}
    /\ withdrawn = FALSE

-----------------------------------------------------------------------------
(* createVaultAndRegistryToken                                             *)

\* The entry of a fresh token; old is the token it is to supersede, 0 when it is
\* simply issued.
StoreVault(r, version, old) ==
    /\ IsNew(r)
    /\ made < MaxTokens
    /\ made' = made + 1
    /\ vault' = [vault EXCEPT ![made + 1] = "KEPT"]
    /\ kyc' = [kyc EXCEPT ![made + 1] = version]
    /\ req' = [req EXCEPT ![r] = [New EXCEPT !.pc = "stored", !.token = made + 1, !.old = old]]
    /\ UNCHANGED <<registry, revocations, history>>

\* POST /v1/issuer/kyc/issue.  fi-service's onboard-user calls it in vain, and the
\* wallet's tokens/renew it and the reissue: the KYC record they send has a userId,
\* which kycSchema refuses.
Issue(r, version) == StoreVault(r, version, 0)

\* POST /v1/issuer/token/:tokenId/supersede: the old token has an entry.  What its
\* row says is the registry's to judge, later.
Supersede(r, old, version) ==
    /\ IsKnown(old)
    /\ vault[old] = "KEPT"
    /\ StoreVault(r, version, old)

\* The registry has the row; a reissue goes on to the old token.
CreateRecord(r) ==
    /\ req[r].pc = "stored"
    /\ AddRecord(req[r].token)
    /\ IF req[r].old = 0 THEN Goto(r, "done") ELSE Ask(r, "supersede")
    /\ UNCHANGED <<tokens, revocations, history>>

\* Mutant: a failure leaves the vault entry.
CreateRecordFailsOnly(r) ==
    /\ req[r].pc = "stored"
    /\ Goto(r, "failed")
    /\ UNCHANGED <<tokens, registry, revocations, history>>

\* Mutant: a reissue goes on to the old token all the same.
CreateRecordFailsUnseen(r) ==
    /\ req[r].pc = "stored"
    /\ IF req[r].old = 0 THEN Goto(r, "undo") ELSE Ask(r, "supersede")
    /\ UNCHANGED <<tokens, registry, revocations, history>>

\* No service token, no registry, or a refusal.
CreateRecordFails(r) ==
    /\ req[r].pc = "stored"
    /\ Goto(r, "undo")
    /\ UNCHANGED <<tokens, registry, revocations, history>>

\* The row is there and the issuer never learns of it.
CreateRecordUnanswered(r) ==
    /\ req[r].pc = "stored"
    /\ AddRecord(req[r].token)
    /\ unanswered' = unanswered \cup {req[r].token}
    /\ Goto(r, "undo")
    /\ UNCHANGED <<tokens, revocations, abandoned, withdrawn>>

\* The vault entry is deleted again; a failure to delete it is ignored.
UndoVault(r) ==
    /\ req[r].pc = "undo"
    /\ \/ /\ vault' = [vault EXCEPT ![req[r].token] = "DELETED"]
          /\ UNCHANGED abandoned
       \/ /\ abandoned' = abandoned \cup {req[r].token}
          /\ UNCHANGED vault
    /\ Goto(r, "failed")
    /\ UNCHANGED <<made, kyc, registry, revocations, unanswered, withdrawn>>

-----------------------------------------------------------------------------
(* registryClient.updateTokenStatus                                        *)

\* What follows when the registry has not answered an update with success: a
\* reissue revokes the token it made, once, and fails.
UpdateFailed(r) ==
    IF req[r].update = "supersede" THEN Ask(r, "rollback") ELSE Goto(r, "failed")

UpdateSucceeded(r) ==
    CASE req[r].update = "revoke"   -> Goto(r, "revoked")
      [] req[r].update = "rollback" -> Goto(r, "failed")
      [] OTHER                      -> Goto(r, "done")

\* A new token that stays ACTIVE when its reissue failed.
Stranded(r) == IF req[r].update = "rollback" THEN {req[r].token} ELSE {}

\* The registry reads the row and judges the transition.
JudgeStatus(r) ==
    /\ req[r].pc = "ask"
    /\ record[Target(r)] = "ACTIVE"
    /\ Goto(r, "judged")
    /\ UNCHANGED <<tokens, registry, revocations, history>>

\* It refuses: the row is not ACTIVE (any more).
RefuseStatus(r) ==
    /\ req[r].pc = "ask"
    /\ record[Target(r)] # "ACTIVE"
    /\ UpdateFailed(r)
    /\ UNCHANGED <<tokens, registry, revocations, history>>

\* Mutant: a failed reissue leaves the token it made.
UpdateCallFailsQuietly(r) ==
    /\ req[r].pc \in {"ask", "judged"}
    /\ Goto(r, "failed")
    /\ abandoned' = abandoned \cup Stranded(r)
    /\ UNCHANGED <<tokens, registry, revocations, unanswered, withdrawn>>

\* The call fails with no effect.
UpdateCallFails(r) ==
    /\ req[r].pc \in {"ask", "judged"}
    /\ UpdateFailed(r)
    /\ abandoned' = abandoned \cup Stranded(r)
    /\ UNCHANGED <<tokens, registry, revocations, unanswered, withdrawn>>

\* The registry writes the row, whatever it has become since it was judged.
UpdateStatus(r) ==
    /\ req[r].pc = "judged"
    /\ WriteStatus(r)
    /\ UpdateSucceeded(r)
    /\ withdrawn' = (withdrawn \/ req[r].update = "revoke")
    /\ UNCHANGED <<tokens, revocations, unanswered, abandoned>>

\* It does, and its answer is lost.
UpdateUnanswered(r) ==
    /\ req[r].pc = "judged"
    /\ WriteStatus(r)
    /\ UpdateFailed(r)
    /\ withdrawn' = TRUE
    /\ UNCHANGED <<tokens, revocations, unanswered, abandoned>>

-----------------------------------------------------------------------------
(* Revocations, sweeps, crashes                                            *)

\* POST /v1/issuer/token/:tokenId/revoke: the token has an entry.
Revoke(r, t) ==
    /\ IsNew(r)
    /\ IsKnown(t)
    /\ vault[t] = "KEPT"
    /\ req' = [req EXCEPT ![r] = [New EXCEPT !.pc = "ask", !.update = "revoke", !.token = t]]
    /\ UNCHANGED <<tokens, registry, revocations, history>>

\* revocationStore.revoke, when the registry has answered.
StoreRevocation(r) ==
    /\ req[r].pc = "revoked"
    /\ revocations' = revocations \cup {req[r].token}
    /\ Goto(r, "done")
    /\ UNCHANGED <<tokens, registry, history>>

\* A sweep of the registry's own finds the row due ...
FindDue(t) ==
    /\ record[t] = "ACTIVE"
    /\ due' = due \cup {t}
    /\ UNCHANGED <<tokens, record, supersededBy, created, revocations, req, history>>

\* ... and writes it, whatever it has become meanwhile.  Other sweeps may have found
\* it too.
ExpireDue(t) ==
    /\ t \in due
    /\ record' = [record EXCEPT ![t] = "EXPIRED"]
    /\ supersededBy' = [supersededBy EXCEPT ![t] = 0]
    /\ withdrawn' = TRUE
    /\ UNCHANGED <<tokens, created, due, revocations, req, unanswered, abandoned>>

\* The issuer dies with the request.
Die(r) ==
    /\ req[r].pc \in {"stored", "undo", "ask", "judged", "revoked"}
    /\ Goto(r, "failed")
    /\ abandoned' = IF req[r].update = "revoke" THEN abandoned
                    ELSE abandoned \cup {req[r].token}
    /\ UNCHANGED <<tokens, registry, revocations, unanswered, withdrawn>>

-----------------------------------------------------------------------------
(* Properties                                                              *)

\* The shape of the state; the tokens are those that were made.
IssuerTypeOK ==
    /\ made \in Tokens \cup {0}
    /\ vault \in [Tokens -> {"NONE", "KEPT", "DELETED"}]
    /\ kyc \in [Tokens -> Versions \cup {0}]
    /\ record \in [Tokens -> {"ABSENT", "ACTIVE", "REVOKED", "SUPERSEDED", "EXPIRED"}]
    /\ supersededBy \in [Tokens -> Tokens \cup {0}]
    /\ \A t \in Tokens : vault[t] # "NONE" <=> t <= made
    /\ \A t \in Tokens : record[t] # "ABSENT" => t <= made
    /\ due \subseteq 1 .. made
    /\ revocations \subseteq 1 .. made
    /\ req \in [Requests -> RequestRecords]
    /\ \A r \in Requests : req[r].token <= made /\ req[r].old <= made
    /\ unanswered \subseteq 1 .. made
    /\ abandoned \subseteq 1 .. made
    /\ withdrawn \in BOOLEAN

\* The three stores agree.  Who holds a token can be served: its row in the registry has
\* its entry in the vault, except where the answer to its creation was lost and the
\* issuer undid what the registry had accepted; an entry without a row is one that is
\* being made or undone, or that could not be; and the revocation store tells of no token
\* the registry still calls ACTIVE.
StoresAgree ==
    /\ \A t \in Tokens : record[t] # "ABSENT" => vault[t] = "KEPT" \/ t \in unanswered
    /\ \A t \in Tokens : vault[t] = "KEPT" /\ record[t] = "ABSENT" =>
          \/ \E r \in Requests : req[r].token = t /\ req[r].pc \in {"stored", "undo"}
          \/ t \in abandoned
    /\ \A t \in revocations : record[t] # "ACTIVE"

\* However a reissue ends, it leaves one of its two tokens at most: the old one is
\* not ACTIVE when it succeeded; the new one is not when it failed, unless the
\* issuer never knew of it, could not undo it or died.  A row that is SUPERSEDED names
\* a successor the registry knows: the new token is there before the old one goes.
ReissueSettles ==
    /\ \A r \in Requests : req[r].old # 0 =>
          /\ req[r].pc = "done" => record[req[r].old] # "ACTIVE"
          /\ req[r].pc = "failed" => \/ record[req[r].token] # "ACTIVE"
                                     \/ req[r].token \in unanswered \cup abandoned
    /\ \A t \in Tokens : record[t] = "SUPERSEDED" =>
          supersededBy[t] > t /\ record[supersededBy[t]] # "ABSENT"

\* Reissues, whether they succeed, fail, die or race, never leave a user who had a
\* token without an ACTIVE one; only revocations, the sweep and lost answers do.
UserKeepsAToken ==
    (\E t \in Tokens : record[t] # "ABSENT") /\ ~withdrawn => HasActiveToken

=============================================================================
