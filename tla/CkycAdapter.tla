----------------------------- MODULE CkycAdapter -----------------------------
(***************************************************************************)
(* ckyc-adapter (apps/ckyc-adapter), on top of IssuerService: the CKYC     *)
(* profile of one user, simulated updates of it, and the sync that         *)
(* reissues the user's token with the profile's address.                   *)
(* A sync reads the profile, finds the ACTIVE token, fetches its payload,  *)
(* has it superseded, looks both tokens up again and only then writes what *)
(* it has synced, from what it read at its start.                          *)
(*                                                                         *)
(* The hash of a profile is that of its version and payload, and the       *)
(* payload follows from the version, so a hash is modelled by the version. *)
(* Audit events and the mock connectors are left out.                      *)
(***************************************************************************)
EXTENDS IssuerService

CONSTANTS
    Callers,        \* requests in flight at once at ckyc-adapter
    NoRequest

ASSUME CkycAssumption ==
    /\ NoRequest \notin Requests
    /\ 1 \in Versions

VARIABLES
    profile,        \* version of the profile's row, 0 without a row
    synced,         \* its lastSyncedHash, lastSyncedVersion and lastSyncedTokenId
    caller          \* the requests in flight

vars == <<issuerVars, profile, synced, caller>>

NewCaller == [pc |-> "new", version |-> 0, token |-> 0, call |-> NoRequest]

Callings ==
    [pc: {"new", "updating", "changed", "found", "called", "verified"},
     version: Versions \cup {0}, token: Tokens \cup {0}, call: Requests \cup {NoRequest}]

NeverSynced == [hash |-> 0, version |-> 0, token |-> 0]

Init ==
    /\ IssuerInit
    /\ profile = 0
    /\ synced = NeverSynced
    /\ caller = [s \in Callers |-> NewCaller]

\* The next request takes its place.
End(s) == caller' = [caller EXCEPT ![s] = NewCaller]

-----------------------------------------------------------------------------
(* The profile                                                             *)

\* ensureProfile: the row is made when there is none.
Current == IF profile = 0 THEN 1 ELSE profile

\* Mutant: only the version is compared.
UnsyncedByVersion(version) == version > synced.version

\* A profile is due for a sync when its hash or its version has moved; a version
\* that went back moves the hash only.
Unsynced(version) == synced.hash # version \/ version > synced.version

\* GET /v1/ckyc/profile/:userId.
ReadProfile ==
    /\ profile' = Current
    /\ UNCHANGED <<issuerVars, synced, caller>>

\* POST /v1/ckyc/simulate-update/:userId: the row is read ...
ReadForUpdate(s) ==
    /\ caller[s].pc = "new"
    /\ Current + 1 \in Versions
    /\ profile' = Current
    /\ caller' = [caller EXCEPT ![s].pc = "updating", ![s].version = Current + 1]
    /\ UNCHANGED <<issuerVars, synced>>

\* ... and written, one version past what was read.
WriteUpdate(s) ==
    /\ caller[s].pc = "updating"
    /\ profile' = caller[s].version
    /\ End(s)
    /\ UNCHANGED <<issuerVars, synced>>

-----------------------------------------------------------------------------
(* POST /v1/ckyc/sync/:userId                                              *)

\* NO_CHANGE ends here.
StartSync(s) ==
    /\ caller[s].pc = "new"
    /\ profile' = Current
    /\ IF Unsynced(Current)
       THEN caller' = [caller EXCEPT ![s].pc = "changed", ![s].version = Current]
       ELSE End(s)
    /\ UNCHANGED <<issuerVars, synced>>

\* The registry's active-token.
FindActiveToken(s, t) ==
    /\ caller[s].pc = "changed"
    /\ IsActiveToken(t)
    /\ caller' = [caller EXCEPT ![s].pc = "found", ![s].token = t]
    /\ UNCHANGED <<issuerVars, profile, synced>>

\* Mutant: the sync has a token issued, and none superseded.
CallIssue(s, r) ==
    /\ caller[s].pc = "found"
    /\ Issue(r, caller[s].version)
    /\ caller' = [caller EXCEPT ![s].pc = "called", ![s].token = 0, ![s].call = r]
    /\ UNCHANGED <<profile, synced>>

\* The payload of the token is fetched from the issuer, which has it in its vault;
\* the token is then to be superseded by one with the address of the profile as
\* it was read.
CallSupersede(s, r) ==
    /\ caller[s].pc = "found"
    /\ Supersede(r, caller[s].token, caller[s].version)
    /\ caller' = [caller EXCEPT ![s].pc = "called", ![s].token = 0, ![s].call = r]
    /\ UNCHANGED <<profile, synced>>

\* The issuer has answered, and both rows are looked up and say what it answered.
IsSuperseded(s) ==
    /\ caller[s].pc = "called"
    /\ LET call == req[caller[s].call]
       IN  /\ call.pc = "done"
           /\ record[call.old] = "SUPERSEDED" /\ supersededBy[call.old] = call.token
           /\ record[call.token] = "ACTIVE"

\* The lookups, two at once.  A row that is SUPERSEDED stays so, hence both may
\* be taken at the moment the other one is ACTIVE.
VerifyTokens(s) ==
    /\ IsSuperseded(s)
    /\ caller' = [caller EXCEPT ![s].pc = "verified",
                                ![s].token = req[caller[s].call].token, ![s].call = NoRequest]
    /\ UNCHANGED <<issuerVars, profile, synced>>

\* lastSynced*, from what was read when the sync began.
WriteSynced(s) ==
    /\ caller[s].pc = "verified"
    /\ synced' = [hash |-> caller[s].version, version |-> caller[s].version,
                  token |-> caller[s].token]
    /\ End(s)
    /\ UNCHANGED <<issuerVars, profile>>

\* Nothing is found, a call fails, its answer is lost or not what was expected, or
\* the adapter dies: the profile stays unsynced, whatever the issuer goes on to do.
CallerFails(s) ==
    /\ caller[s].pc # "new"
    /\ End(s)
    /\ UNCHANGED <<issuerVars, profile, synced>>

CallerStep(s) ==
    \/ ReadForUpdate(s)
    \/ WriteUpdate(s)
    \/ StartSync(s)
    \/ \E t \in Tokens : FindActiveToken(s, t)
    \/ \E r \in Requests : CallSupersede(s, r)
    \/ VerifyTokens(s)
    \/ WriteSynced(s)
    \/ CallerFails(s)

\* Callers of the issuer itself, the console and the scripts: their KYC records
\* carry no profile.
DirectIssue(r) == Issue(r, 0)

DirectReissue(r, t) == Supersede(r, t, 0)

Apart == UNCHANGED <<profile, synced, caller>>

Issuer(r) ==
    \/ DirectIssue(r) /\ Apart
    \/ \E t \in Tokens : DirectReissue(r, t) /\ Apart
    \/ \E t \in Tokens : Revoke(r, t) /\ Apart
    \/ CreateRecord(r) /\ Apart
    \/ CreateRecordFails(r) /\ Apart
    \/ CreateRecordUnanswered(r) /\ Apart
    \/ UndoVault(r) /\ Apart
    \/ JudgeStatus(r) /\ Apart
    \/ RefuseStatus(r) /\ Apart
    \/ UpdateCallFails(r) /\ Apart
    \/ UpdateStatus(r) /\ Apart
    \/ UpdateUnanswered(r) /\ Apart
    \/ StoreRevocation(r) /\ Apart
    \/ Die(r) /\ Apart

Next ==
    \/ ReadProfile
    \/ \E s \in Callers : CallerStep(s)
    \/ \E r \in Requests : Issuer(r)
    \/ \E t \in Tokens : FindDue(t) /\ Apart
    \/ \E t \in Tokens : ExpireDue(t) /\ Apart

Spec == Init /\ [][Next]_vars

-----------------------------------------------------------------------------
(* Properties                                                              *)

\* The shape of the state.
TypeOK ==
    /\ IssuerTypeOK
    /\ profile \in Versions \cup {0}
    /\ synced \in [hash: Versions \cup {0}, version: Versions \cup {0}, token: Tokens \cup {0}]
    /\ caller \in [Callers -> Callings]
    /\ \A s \in Callers : caller[s].pc = "called" =>
          caller[s].call \in Requests /\ req[caller[s].call].old # 0

\* A sync that is answered NO_CHANGE tells the truth, although updates that overlap
\* may set the profile's version back and syncs write what they read long before:
\* the token synced last was issued with the profile as it is now.
NoChangeIsTrue == profile # 0 /\ ~Unsynced(profile) => kyc[synced.token] = profile

=============================================================================
