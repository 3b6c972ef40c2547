# Verification of HaRBInger 3.0 (tokenised KYC)

This directory holds TLA+ models of the services and of the console under
`src/`, the TLC configurations that check them, and TLAPS proofs about them. The
models are written from the TypeScript code; file and line references are to
`src/`.

## 1. The system

A user's KYC record is kept by an issuer and represented by a *token*. A
financial institution (FI) that wants some fields of it asks for a *consent*;
the user, or a nominee the user delegated to, approves it; the approval signs a
short-lived *assertion* (an ES256 JWT of 180 s) which the FI verifies. Each
service is an Express process that shares one PostgreSQL database (Prisma) and
one Redis with its replicas. A React console drives all of it from one browser.

| Component | State it keeps | Operations that change it | Talks to |
|---|---|---|---|
| registry-service | one row per token (status, version, expiry), a hash-linked audit trail per token | create token, update status, expire-due sweep | called by issuer, consent-manager, fi-service |
| issuer-service | encrypted KYC vault, revocation store | issue, revoke, reissue | registry-service |
| consent-manager | consents, their audit events, the nonce and jti guards in Redis, the owner's review row | create, renew, approve, reject, revoke, expire-due sweep | registry, issuer, Redis |
| wallet-service | nominees, delegations; it inserts the consents of request-reconsent | add, enable and disable nominees, create and revoke delegations, request a re-consent, sweep what is listed; the rest are proxies | consent-manager, issuer |
| fi-service | KYC requests of the FI, their audit events, its own jti and nonce guards | create request, revoke, onboard, verify-assertion | consent-manager, registry, issuer, Redis |
| ckyc-adapter | CKYC profiles, their versions, what was synced last | read or simulate an update, sync (reissues the token) | issuer, registry |
| review-scheduler | review customers (tier, next review, requiresReconsent) | import, run cycle, lifecycle run, demo reset | ckyc-adapter, registry and consent sweeps |
| packages/common | the JWKS cache of each process | resolve a key, refresh | Keycloak |
| web-ui session | the password session and SSO session of each portal | login, logout, refresh, reload | Keycloak |
| web-ui console | what is shown, the operation shown as running, the coverage checklist, the guided walkthrough | thirty-odd operations, rows of them, the walkthrough | all services |

What is hard in it: except for the registry's writes no handler runs in a
transaction; every handler reads a row, awaits calls to other services and
then writes with no condition on what it read; replicas (the GKE values scale
consent-manager from two to eight) and sweeps interleave at each of these
steps; a replica may die between any two of them; a call may take effect and
lose its answer; guards in Redis run out. In the browser every operation is a
callback of one rendering: it goes on with what was shown when it began, while
refreshes of the session, logins, logouts and other operations come between.

What makes each component correct:

- *registry-service*: the events of a token form one hash chain, and tell every
  version of the row once; a token that is not ACTIVE never becomes
  ACTIVE again; accepted requests end.
- *issuer-service*: vault, registry and revocation store agree up to what was
  undone; a reissue leaves one of its two tokens at most and never leaves the
  user without one.
- *consent-manager*: at most one live assertion of a consent, and none outside
  of what was requested and delegated; the row always describes one assertion
  that exists; the trail tells nothing that did not happen, and misses nothing a finished
  request did.
- *wallet-service*: disabling sweeps what the nominee holds, granting replaces,
  save for requests that overlap; a revoked delegation stays revoked.
- *fi-service*: an assertion is accepted at most once, and the trail tells every
  acceptance.
- *ckyc-adapter*: NO_CHANGE is the truth, whatever updates and syncs overlap.
- *review-scheduler*: a required re-consent is not forgotten unless decisions
  overlap, and who is due is reviewed in the end.
- *JWKS cache*: one fetch at a time, no newer key is lost, whoever waits gets an
  answer.
- *web-ui session*: the session is that of the last login, a logout ends both
  portals' sessions.
- *web-ui console*: nothing is shown as running that is over; no box is ticked
  whose deed was not done; the walkthrough skips no step.

## 2. Modules

| Module | Models |
|---|---|
| `Registry` | registry-service (`apps/registry-service/src`) |
| `MCRegistry` | its instance for TLC: `MCRegistry.cfg`, `MCRegistryRace.cfg` |
| `RegistryLedger` | what the registry promises its readers: versions and histories |
| `RegistryProofs` | theorems about `Registry`, and that it implements `RegistryLedger` |
| `ConsentManager` | consent-manager (`apps/consent-manager/src`) and the wallet's request-reconsent, which writes its tables, with the wallet's delegations, the registry's answer and the review scheduler as environment |
| `MCConsentManager` | its instances: `MCConsentManager.cfg`, `MCConsentOverwrite.cfg` |
| `AssertionIssuing` | what consent-manager promises to fi-service: consents with fixed terms, assertions with a jti of their own |
| `ConsentProofs` | theorems about `ConsentManager`, and that it implements `AssertionIssuing` |
| `FiService` | fi-service (`apps/fi-service/src`), over `AssertionIssuing` as its environment |
| `MCFiService` | its instances: `MCFiVerify.cfg`, `MCFiRevoked.cfg` |
| `FiProofs` | theorems about `FiService` |
| `WalletDelegation` | wallet-service's nominees and delegations, write by write |
| `MCWalletDelegation`, `WalletProofs` | its instance, theorems about it |
| `IssuerService` | issuer-service: vault, registry rows and revocation store of one user |
| `CkycAdapter` | ckyc-adapter, on top of `IssuerService` |
| `MCCkycAdapter` | the instance of both: `MCTokens.cfg` |
| `TokenProofs` | theorems about both |
| `ReviewScheduler` | review-scheduler, with the wallet's and consent-manager's writes to its rows |
| `MCReviewScheduler`, `ReviewProofs` | its instance, theorems about it |
| `JwksCache` | `packages/common/src/jwks-cache.ts` and the validators that use it |
| `MCJwksCache`, `JwksProofs` | its instance, theorems about it |
| `WebSession` | the browser's sessions (`lib/keycloak.ts`, the login pages) |
| `Console` | the console (`ConsoleProvider.tsx` and the pages), on top of `WebSession` |
| `MCConsole`, `ConsoleProofs` | the instance of both: `MCConsole.cfg`, theorems about both |

How they fit together. `CkycAdapter` EXTENDS `IssuerService` and `Console`
EXTENDS `WebSession`: callers and what they call are checked and proved about as
one system. `FiService` does not run on top of `ConsentManager`, whose states
are far too many for that: it instantiates `AssertionIssuing`, and
`ConsentManager` is shown to implement the same module. What the registry does
to a token is, in `FiService` and `ConsentManager`, that a token that stopped
being ACTIVE never is again, which is `NeverReactivated` of `Registry`;
`IssuerService` has the registry's two steps of an update and of a sweep itself, without the
trail. The console sees the services through one atomic step a call; what
happens inside a call is the services' modules' business.

### Registry

`record` is the table of rows, `audit` the events of each token in the order of
their ids, `rowLock` the row locks PostgreSQL holds for open transactions, `req`
the requests in flight. A status update is four steps: `CheckStatusUpdate`
(the read and `assertValidStatusTransition`, outside of any transaction),
`UpdateRow` (the transaction's UPDATE, which waits for and takes the row lock
and does not look at the status again), `ChainEvent` (`appendAuditEvent` reads
the latest event and then the clock) and `CommitRow` (the event is created, the
transaction commits, the lock is released). The sweep is `ReadExpireDue`
followed by the last three for each row of its batch. `CreateToken` is one step
because its transaction creates the row: nobody else can touch the token before
it commits. `Abort` is a rollback at any point.

A hash is modelled by what goes into it that tells events apart, or the event that
is hashed from the one that is stored: version, status and detail. A detail is the
set of its fields' names. `AuditEvent` does what `appendAuditEvent` does
(`index.ts:108-134`): it hashes the detail it was given (`ChangeDetail` of a change,
none of a creation) and stores that detail with five fields added (`AddedDetail`).
`VerifyAuditHashChain` hashes what it is handed, as the code's does, so that the
events as they are stored do not pass it; `AuditChainLinks` says that they form one
chain once the added fields are left out (`AsHashed`).

### ConsentManager

A request is one record of `req` that walks through the steps of its handler:
`ReadPending` or `ReadApproved` (the read of the row and the checks on it),
`Authorise` (owner or delegate, the delegation's constraints), `CheckToken`
(registry and issuer), `ReserveNonce` (Redis SET NX EX), `SignAssertion`,
`WriteApproval` or `WriteDenial` (unconditional UPDATE), `UpdateReview`,
`WriteAudit` once per event. `Refuse` is the 4xx answers, `Fail` a call that
throws or a replica that dies: it stops there and leaves what was written.
`CreateConsent` and `RenewConsent` are the insert, and then owe their audit
events; what they read before it cannot change in a way the insert depends on,
apart from the token's status, which `CheckToken` looks up again. The wallet's
request-reconsent is a second writer of these tables: `AskReconsent` (the review asks
for one), `FindNonePending` (the clock, then no periodic update that waits) and
`InsertReconsent` (the ACTIVE token and the row, whatever other row there is by now), which
owes the event PERIODIC_RECONSENT_REQUESTED in place of CONSENT_CREATED; `insertedBy` tells
the two kinds of rows apart. Sweeps read
their rows first (`ReadBatch`) and write them one by one (`ExpireRow`):
`ReadExpireDue` takes at most `BatchLimit` and writes an event for each,
`ListConsents` is the listing that sweeps what it has found.
`Delegate`, `RevokeDelegation`, `ChangeToken` and `RequireReconsent` are the
steps of other services that consent-manager reads; they may happen between any
two of its own.

The nonce of a consent never changes, so its Redis key is modelled by
`reserved[c]`, the times at which it was reserved: the key exists until
`AssertionTtl` after the last. `Delegate` replaces an earlier delegation in one
step; that these are two writes of wallet-service is `WalletDelegation`'s
subject, and the properties here do not depend on how many delegations are
ACTIVE.

### FiService

`fiRequest` is the status of the FI's row of a consent, `jtiGuard` and
`nonceGuard` are when the keys in Redis run out, `accepted` is what `verifyAssertion`
returned and when (a history variable: the code answers with it and keeps only
the row and the event), `trail` counts the success events of a row. A
verification walks through `ReadRequest` (the row), `FetchBinding` (the answer
of consent-manager and `evaluateConsentStatusForVerification` on it),
`CheckAssertion` (signature, exp, audience, purpose, scope, and the life of the
guards), `LookupToken`, `TakeJti`, `TakeNonce`, `WriteVerified` and
`WriteSuccess`; a failure is `Refuse` followed by `WriteFailed`. `CallFails` is
the catch around the last six, which also catches a failure after the assertion
was accepted; `BindingUnreachable` is the answer 502 and `Die` a replica that
dies or a call outside of the try block. `RecordRequest` is what `request-kyc`
and `renew-consent` do once consent-manager has made the consent: its id is
new, and the events they write besides are not kept. `CallRevoke` and
`WriteRevoked` are `revoke-consent`.

The terms of row and consent are the same from the start and never change
(`AssertionIssuing`), so the answer `consent_binding_mismatch` does not occur.
Which consent an assertion belongs to is not compared with the row: an
assertion of another consent of the same purpose and fields verifies it.

### WalletDelegation

`nominee` is the status of each nominee's row, `delegations` the table in the
order of its inserts. Disabling is `DisableNominee` (the nominee's row) and then
`RevokeDelegations` (the updateMany); granting is `CheckNominee` (the read of
the nominee), `ReplaceDelegations` (the updateMany over what it replaces) and
`CreateDelegation` (the insert, of a nominee who may have been disabled since);
revoking is `FindDelegation` and `RevokeDelegation`. `ExpireDelegations` is the
sweep the listing makes. `Die` stops a request between any two of its writes.
`sweptUpTo`, `seenBy`, `replaced` and `interrupted` are history.

### IssuerService and CkycAdapter

A token has an entry in `vault`, the profile version that entry holds (`kyc`)
and a row in the registry (`record`, `supersededBy`, in the order of
`created`). Issuing and reissuing write the vault (`StoreVault`), call the
registry (`CreateRecord`) and, when reissuing, ask it to supersede the old row;
the registry judges and writes in two steps (`JudgeStatus`, `UpdateStatus`).
Every call may fail (`CreateRecordFails`, `UpdateCallFails`), or take effect and
lose its answer (`CreateRecordUnanswered`, `UpdateUnanswered`); the issuer then
undoes the vault entry (`UndoVault`) or asks for the new row to be REVOKED
(`update = "rollback"`). `Revoke` is the registry's update, and only then
`StoreRevocation`. `Die` is a process that dies. The registry's sweep finds a row due
(`FindDue`) and writes it later, whatever it is by then (`ExpireDue`); a write of a
status other than SUPERSEDED empties `supersededBy`.

`CkycAdapter` has the callers: `ReadForUpdate` and `WriteUpdate` (a simulated
update writes the version it read plus one, so two may write the same),
`StartSync`, `FindActiveToken`, `CallSupersede`, `VerifyTokens` (the two lookups) and
`WriteSynced`, which writes what was read at the start. fi-service's onboard-user and the
wallet's tokens/renew are no callers of it: the `userId` they put into the KYC record
is refused by the issuer's strict schema before anything is written.

### ReviewScheduler

`customer` is the table; a cycle (`cycle[k]`) has the batch it read at its start
and reviews it customer by customer: `RequireReconsent` for those of tier HIGH,
`Sync`, `SyncRefused` or `ReviewFails` for the others; it writes the row it has
in hand, whatever is there by now. `UpsertCustomer`, `ResetDemoData` and
`SeedDemoData` write rows too. An approval or revocation of a periodic consent
(`ApproveConsent`, `RevokeConsent`) writes the consent, and its handler writes
the review later (`ClearFlag`, `RaiseFlag`) or dies between. `owed` remembers
what the last decision left owed: nothing after an approval, a re-consent after a
cycle's review of tier HIGH, and OPEN after a revocation, of which the code and its
comment say opposite things (see below). `crossed` is who was decided on while an
earlier decision was still on its way or never arrived, or whose row a cycle wrote
over from a reading older than the last decision, which `behind` keeps; such a write is
no decision. `FlagFollowsDecisions` is silent on these until the next decision.

### JwksCache

`resolver`, `expiresAt` and `pending` are the cache entry; a verification looks
(`Look`), loads (`Load`: it shares the fetch in flight or begins one), and looks
once more with a forced refresh when its key is missing (`ForceRefresh`).
`FetchSucceeds` and `FetchFails` settle everyone who waits. The issuer rotates
and withdraws keys at any moment its answer is not being written.

### WebSession and Console

`direct[p]` is the password session of a portal as keycloak.ts keeps it,
`sso[p]` what its keycloak-js client found, `realm` who is signed in to the
realm. `ask[r]` is a request for an access token: granted at once by a fresh
session, else a refresh (`RefreshSucceeds` writes the session of the user it was
begun for, `RefreshFails` deletes whatever session there is and asks the SSO
client). Requests for a token are not shared: several refreshes of one session may
be in flight. `Login`, `Logout`, `SsoLogin`, `Reload` are the pages' ways in and
out.

In `Console` a caller is a row of operations in flight (`run[r]`): a button's
one operation, a scenario, a page's row, or the walkthrough. Each of its
operations is a sequence of calls (`Calls`), each after the portal whose token it
asks for. `run[r].saw` is the rendering whose callbacks it runs: all reads of
state go through it (`Reads`), all writes to what is shown by now. `Serve...` is
a service's answer, `IssueToken`, `ApproveConsent` etc. what the operation does
with it, `CallFails`, `Refused` a call that throws: `Throw` ends the row, ends
what is shown as running as the operation's `finally` does and stops the
walkthrough. `BeginStep`, `StepDone` and `Wake` are the walkthrough's loop;
`StartGuidedWalkthrough`, `ResumeGuidedWalkthrough` and `ResumeAfterLogin` start
it. `covered` is the checklist, `facts` (history) what the services have really
done of it. The services are as far as the console can tell them apart: the
ACTIVE tokens, the consents with their token and status, the accepted
assertions, what the nominee is to the owner.

## 3. What TLC checks

| Run | Instance | Checks |
|---|---|---|
| `registry` | 2 tokens, 2 requests, clock 0..1, batch of 2 | `TypeOK`, `AuditChainLinks`, `AuditMatchesRecord`, `NeverReactivated`, `RequestsEnd` under `FairSpec`, `ImplementsLedger` |
| `registry_race` | the same | `TerminalStatusIsFinal` is violated |
| `consents` | 3 requests about 1 consent of the owner, or 2 about 2 consents with a delegate, 2 delegations and a token that changes; assertion life 2, clock 0..2, batch of 1 | `TypeOK`, `OneLiveAssertion`, `RowShowsAnAssertion`, `IssuedWithinMandate`, `TrailIsComplete`, `ImplementsIssuing` |
| `consent_overwrite` | 1 consent, 3 requests | `ApprovesOnlyPending` is violated |
| `fi_verify` | 2 consents of one purpose and two fields, 2 assertions, 2 requests, assertion life 1, clock 0..1 | `TypeOK`, `AcceptedApart`, `VerifiedWasAccepted`, `AuditTellsAcceptances` |
| `fi_revoked` | the same | `VerifiesOnlyApproved` is violated |
| `wallet` | 1 nominee, 2 scopes, 4 requests, 3 delegations, clock 0..1 | `TypeOK`, `TwoActiveOnlyIfOverlapping`, `DisabledHoldsOnlyLaterOnes`, `ReplacementArrives` |
| `tokens` | 3 tokens, 3 profile versions, 2 requests of the issuer, 2 callers | `TypeOK`, `StoresAgree`, `ReissueSettles`, `UserKeepsAToken`, `NoChangeIsTrue` |
| `reviews` | 2 customers, 2 tiers, 2 cycles (one of the CronJob), batch of 1, 2 handlers, 1 consent, clock 0..1 | `TypeOK`, `StatusTellsFlag`, `FlagFollowsDecisions`, `HighIsNotSynced`, `DueIsReviewed` under `FairSpec` |
| `jwks` | 3 verifications, 2 keys, life 1, clock 0..2 | `TypeOK`, `OneFetch`, `NewKeyIsFound`, `KeysNeverGetOlder`, `VerificationEnds` under `FairSpec` |
| `console` | 2 callers, 3 rows in all of which 2 may overlap, 2 tokens, 2 consents, 1 login, 1 lapse, 1 leave | `TypeOK`, `NothingLeftRunning`, `CoverageTellsTruth`, `SessionIsLastLogin` |
| `console_scenario` | 1 caller: a request for a consent, then a scenario | `GoesOnWithItsConsent` is violated |

Bounds, and why they are enough.

- *registry*. The hazards are between two requests on one row; the second token
  lets a sweep hold a batch while an update works on the row it has not come to
  yet, and a token expire before it was swept. `MaxTime = 1` makes every token
  due or not due. A request becomes idle again and starts over; the versions are
  finite because only a row that was judged ACTIVE is written and each such
  judgement is used once.
- *consent-manager*. A request is used once (a retry is another request): three
  requests are an insert by either writer and two decisions, of which one may die and
  be retried, or a decision and a sweep; the clock runs to the end of a guard of 2,
  so that a second assertion is really signed when the first has died. Two requests
  are what it takes for a decision of a delegate and another row (a renewal, a
  re-consent that another request has inserted) while delegations and the token
  change. `Bounded` in `MCConsentManager` keeps these two cases apart; `MaxGrants`
  bounds the delegations ever made.
- *fi-service*. Two requests verify (or one verifies and one revokes) over two
  consents, so that both assertions may be of one consent or each of its own; the
  clock runs to the end of an assertion's life, which is when a guard must not be
  over yet. `MaxAssertions` bounds what is signed. The environment approves; it
  revokes through `CallRevoke`. One token suffices: both consents are of one user.
- *wallet*. Two overlapping grants, a revocation and a disabling are four
  requests; rows of different nominees share nothing.
- *tokens*. A first token and the two that two reissues at once make; the
  constraint `Bounded` keeps apart what takes a third token and what takes a
  profile whose version goes back, and lets sweeps find one token due: it is the row
  a sweep holds while an update or a reissue works on it that matters.
- *reviews*. A batch of one over two customers is what starvation takes; one
  customer has a wallet and consents, one has not.
- *jwks*. One rotation, keys that get too old once, and a third verification
  that joins a fetch two others argue about.
- *console*. `Bounded` in `MCConsole` says how much of anything happens in all,
  in the comment above it: any two rows or a row and the walkthrough overlap with
  up to one disturbance (a login, a logout, a lapse, a reload, an expiry, a reset
  of the checklist), or one with two; `StoredSteps` lets a walkthrough be resumed
  at the steps whose prerequisites would take more rows than that.

Symmetry of requests or callers is used where only invariants are checked.
Deadlock is not checked: requests are used up, clocks are bounded, and a service
may have nothing left to do.

Fairness. `RequestsEnd`: an accepted request keeps running, and PostgreSQL grants
a row lock in the order of arrival, so a waiter is not overtaken for ever: strong
fairness of `UpdateRow`, weak fairness of the steps inside a transaction.
`DueIsReviewed`: the CronJob starts the cycle on its schedule and again when it
failed (`restartPolicy: OnFailure`), and a sync that is tried again and again is not
refused for ever: strong fairness of the CronJob's `StartCycle`, `RequireReconsent`
and `Sync`, of no other cycle. `VerificationEnds`: fetch has a time limit of its
own and the thread goes on with an answer. Nothing is assumed about callers,
clocks or failures.

Each property has a mutant in `PROJECT.json`: a definition of the model changed
as a bug in that code would change it (a reinstating transition, the wrong
order of the event lookup, an UPDATE outside of the transaction, a guard one
second short, requested for approved fields, a key set without NX, a status or a token not
looked at, a flag dropped by an upsert, a sweep of one scope only, an undo that is forgotten, a call that is
not awaited, a `finally` that is not one), which TLC finds.

### Findings

- *A terminal status is not final* (`registry-service/src/index.ts:387`). The
  transition is judged on a row read before the transaction, and the UPDATE
  names only the token id. Two updates, or an update and the sweep, both pass
  while the row is ACTIVE; the second overwrites the first, against the table
  in `registry-domain.ts:7-12`. The trail records both. What still holds is that
  nothing becomes ACTIVE again (`NeverReactivated`), because no request writes
  ACTIVE.
- *An approval overwrites a rejection* (`consent-manager/src/index.ts:875`).
  approve checks for PENDING once and then calls three other services before an
  unconditional update; a consent rejected or expired in between becomes
  APPROVED and its assertion is handed out.
- *A revoked consent is verified* (`fi-service/src/index.ts:823`). The consent is
  judged on an answer of consent-manager that is several calls old when the row
  becomes VERIFIED and the claims are disclosed, against "Consent status must be
  APPROVED before verification" (`consent-policy.ts:39`). What still holds is that
  the consent had been approved once (`VerifiedWasAccepted`).
- *A scenario approves and verifies another consent than it has requested*
  (`web-ui/src/console/pages/ScenarioOrchestrationPage.tsx:150`). A row of awaited
  operations keeps the callbacks of the rendering it was started in, and with them
  the token, consent and assertion shown then. The page says "Runs issue -> request
  -> approve -> verify -> revoke -> TOKEN_NOT_ACTIVE" (549-553), the walkthrough's panel
  "Verification succeeds against consent assertion and registry ACTIVE token"
  (`GuidedWalkthroughPanel.tsx:37-42`), and `README.md:193` a "Scenario A verification".
  On a fresh console the loop throws "Create consent first." at its approval, because
  nothing was shown when it began; when an older consent was shown it decides on that
  one, which is the trace of `console_scenario`, and verifies an older assertion.
  Each error or login pause re-renders; resumed step by step, the walkthrough gets
  through.

### What else the models show

Two places where the code says two things itself. No run judges between them; the
properties leave them open.

- A comment in the revoke handler says "If this consent was a periodic KYC update
  re-consent, close the review requirement" (`consent-manager/src/index.ts:1142`); the
  code under it sets `requiresReconsent: true` (1149), which opens it. The model raises the
  flag as the code does, and `FlagFollowsDecisions` says nothing of a customer whose
  last decision was a revocation (`owed` is OPEN).
- `verifyAuditHashChain` (`registry-domain.ts:67`) hashes the detail of the event it is
  given, `appendAuditEvent` stores another detail than it has hashed: the events of the
  audit endpoint do not verify with it as they are. Only its unit test calls it, on
  events of its own; the documents say "hash-linked" (`README.md:42`, the audit page), which
  `AuditChainLinks` shows them to be.

Behaviour that no document or test of the repository contradicts, so that it is
stated in the properties' exceptions and not as a violation:

- A DISABLED nominee may hold an ACTIVE delegation: a grant that had found him
  ACTIVE inserts after the disabling has revoked (`DisabledHoldsOnlyLaterOnes`
  says that this is the only way).
- Two requests for a re-consent at once insert two periodic updates, both having found
  none that waits.
- A request that dies loses the events it still owed: the row shows what no event tells
  (`TrailIsComplete` excepts the consents of `interrupted` from completeness, and from
  nothing else).
- Two syncs that overlap may leave the user two ACTIVE tokens; of one reissue only one
  stays (`ReissueSettles`).
- The login page of an SSO login unloads the console: the walkthrough that then
  resumes by itself has nothing shown, and its nominee's step throws. It never
  creates the nominee its delegation step needs, either.
- The box `expiredThenRenew` is ticked for a renewal of any consent once some
  consent was seen refused as expired; `crossReuse` although another token may
  be the newest by then; `nomineeApproval` for an approval in the owner's name when
  sessions of both are mixed (`mixed`).
- A refresh in flight across a logout brings the session back
  (`SessionIsLastLogin`, `crossed`).
- A cycle overwrites a review an approval has just settled, and an approval and a
  revocation that overlap leave the flag of whichever writes it last
  (`FlagFollowsDecisions` excepts both, `crossed`). One deleted customer ends the cycle.
- `/v1/wallet/tokens/renew`, and `/v1/fi/onboard-user` for a user without an ACTIVE token,
  are always refused: their payload has a `userId` the issuer's strict schema
  (`issuer-service/src/index.ts:86`) does not know. `simulate-and-run` and the demo's
  reset answer 500 where they write a `ReviewJob` without its required status.
  `resetDemoData` deletes every nominee and delegation of its wallet user, against
  its comment to keep to demo ids.

## 4. What is proved

The theorems hold for every value of the constants that satisfies the modules'
`ASSUME`s, which say no more than the code needs: tokens and consents are finite
sets where the proofs count over them, a batch takes at least one row, a
guard's life is positive, who consents is a user, and the like. TLC evaluates
them in every run. Each invariant that a theorem rests on was checked by TLC on
the run's instance before it was proved.

| Theorems | State |
|---|---|
| `RegistryProofs` | `TypeCorrect`, `ChainAlwaysLinks`, `TrailIsHistory`, `NoReactivation`, `RegistryImplementsLedger`, `NoCircularWait` |
| `ConsentProofs` | `TypeCorrect`, `GuardSeparatesAssertions`, `AssertionsHaveAMandate`, `RowsShowAssertions`, `TrailTellsAll`, `ConsentImplementsIssuing`, `NoStepTakesBack` |
| `FiProofs` | `TypeCorrect`, `GuardsSeparateAcceptances`, `VerifiedRowsWereAccepted`, `TrailTellsAcceptances` |
| `WalletProofs` | `TypeCorrect`, `TwoActiveOverlap`, `DisablingSweeps`, `ReplacedHasSuccessor`, `RevocationIsFinal` |
| `TokenProofs` | `TypeCorrect`, `StoresInStep`, `ReissuesSettle`, `TokenIsKept`, `NoChangeTrue`, `RowsOfALedger` |
| `ReviewProofs` | `TypeCorrect`, `ShownIsAskable`, `FlagIsLastDecision`, `HighNeedsConsent` |
| `JwksProofs` | `TypeCorrect`, `FetchIsShared`, `NewestKeyIsFound`, `EntryOnlyGetsNewer` |
| `ConsoleProofs` | `TypeCorrect`, `NothingStaysRunning`, `CoverageIsTrue`, `SessionOfLastLogin` |

**Registry.** `RegistryInv`, which `Invariance` shows inductive, is `TypeOK` with
what the two safety invariants do not say by themselves: a request that is
"updated" or "chained" holds the lock of its token and a lock is held by such a
request only; while it is held the row and the trail do not move, so the version
the request has computed is still the next one, and the predecessor it has read
is still the last event; event times do not run past the clock, which makes the
latest event by (createdAt, id) the last one; no request carries ACTIVE as its
next status. The refinement adds `SuccessorInv` (a request names a successor
exactly when it will write SUPERSEDED): `CreateToken` and `CommitRow` are the two
steps of the ledger, every other step is invisible to its readers. `NoCircularWait` is
the half of `RequestsEnd` that is about states: whoever waits for a row holds none and
has a next row to write (`HeldInv`: the holder of a lock is in its transaction, on that
row), and whoever holds one can go on without waiting. Fairness does the rest, in TLC.

**Consent-manager.** `ConsentInv` is `TypeOK`; `RequestInv`, that what each request
has read is sound at the point it has reached (its approved fields are within
the immutable requested fields of its row, its delegation covers them, its
reservation is its own); `ReservationInv`, that reservations of one consent are
at least a guard's life apart; `IssuedInv`, that each assertion has its
reservation and its mandate; `RowInv` and `RowShowsAnAssertion`. The rows' terms
and the delegations' limits never change once written, which is why stale reads
of them are harmless; `Preserves` names that frame once and every action cites
it. The rows of the wallet's
request-reconsent are among these, under their own event. `TrailTellsAll` needs more than
the property says: `TrailInv` is that of each
consent and event the events written and those still owed by requests are as
many as what the table tells, so that a write of the row and a write of the
event balance. The refinement adds `SigningInv`: a jti that was reserved belongs
to one request until it has signed, and an approval under way discloses
something. `NoStepTakesBack` is the frame as an action property: terms, decisions,
assertions and events stay, however decisions and sweeps overlap. `ConsentImplementsIssuing` discharges what `FiService` takes for
granted of its environment.

**Fi-service.** `FiInv` is `TypeOK`; `RequestOK`, what a verification remembers at
each point (its assertion is a signed one that matches the row, an assertion of
the row's consent was signed, and a guard taken now would last until its
assertion expires); `RowInv`, that a VERIFIED row was accepted; and `GuardInv`,
that the nonce of an accepted assertion is guarded until it expires. Because the
life of the guards is computed before the registry is asked and counted from the
moment the key is set, a slow registry only makes a guard outlive its assertion.
`TrailTellsAcceptances` counts acceptances, success events and the requests
between the two with `Cardinality`, one request at a time.

**Wallet.** `WalletInv` adds to the properties `ReplacingSees`, that a grant which has
replaced sees as ACTIVE only delegations made after its updateMany, and `Swept`,
that of a nominee swept once only later delegations are ACTIVE; the second does
not mention that he is DISABLED, because enabling and disabling him again comes
between. `RevocationIsFinal` is an action property of its own.

**Tokens.** `TokensInv` is about both modules: each row has one maker (`OneMaker`);
rows go from absent through ACTIVE to over; what a request may do next is right
for the row it made and the row it replaces (`RequestOK`); vault, registry and
revocation store agree up to what is owed (`StoresOK`); successors are later
rows that were made (`SuccessorsOK`). `TokenIsKept` is not inductive by itself,
since the one ACTIVE token may be about to be revoked by the reissue that made
it: `KeepsOK` says that without revocations, expiries and lost answers there is
an ACTIVE token no request is about to revoke (`IsSafe`), and one after each
superseded token. `CallerOK` and `SyncedOK` carry the profile version from the read
of a sync through the reissue to what is written as synced. `RowsOfALedger` says
of every step of issuer, ckyc-adapter and sweep what `RegistryImplementsLedger` says of the
registry's own: a row is issued once, changed only to a status that is not ACTIVE, and
names a successor exactly when it is SUPERSEDED. Versions and histories are not in
this model, so the ledger's actions are restated for the rows.

**Reviews.** `FlagFollowsDecisions` speaks of moments when nobody is between two
writes. `PendingInv` carries it over the others: of a user who was not crossed at
most one decision is on its way to the row, and it is the last that was taken.

**JWKS.** `JwksInv` adds that no token is signed with a key yet to be made, that the
entry is not newer than what the issuer publishes, and `FetchOK`: an answer is as
new as its fetch's beginning, and everyone who waits remembers when the fetch he
waits for began.

**Console and sessions.** `ConsoleInv` is about both modules and holds for any number
of callers and any rows started together. Sixty actions over one record would be
sixty proofs of one kind; instead `RunOK` says of a row in flight what it knows
and what its answered calls have done (`DeedsOK`), in terms of what only grows
(`Grow`: consents are made and decided on, tokens are made, deeds are done), so
that a step of anybody else keeps it by one lemma (`RunStays`), and what follows
an answer is one of few `Outcome`s, whichever operation it is, each of which
keeps the invariant by one lemma (`GoOnKeeps`, `StartKeeps`). `RowOK` says which rows
there are, for `RowsAreRows` and `StepsAreRows` (every row a page or the walkthrough
starts): a reuse check is a row of its own, and a row that was given its consent only
decides on it. `BusyInv` and `GuidedInv`
tie what is shown as running, and the walkthrough's place, to somebody in flight:
one walks at most, because starting asks for a walkthrough that rests, and who
walks shows as running until he stops. `CoverInv` needs `OneUserInv` for the box of
the nominee: unless sessions were mixed, all that is in flight has one user of
the wallet, from the rendering a row is of through the refresh to the call.
`SessionInv` adds to `SessionIsLastLogin` that a refresh in flight is for who signed in
last, or was crossed.

Only model-checked. `RequestsEnd`, `DueIsReviewed` and `VerificationEnds`: liveness under
fairness, and ENABLED with it, is out of reach of what TLAPS proves here. No
module uses RECURSIVE operators, and no theorem is about what a recursion over
data computes. The runs that expect a violation have nothing to prove.

Proving changed the models in two places. `Ambiguous` of `Console`, the history of
whether someone acted as another than shown, left out that an SSO session of
the FI portal may show the nominee's role while the wallet's session is the
owner's. No state of the checked instance has it; the invariant `OneUserInv`
cannot be carried over it, and it counts now. And stating `RowsOfALedger` showed that
the sweep of `IssuerService` found and wrote a row in one step, and that its updates
left a successor behind in a row they overwrote, where the registry empties it; both
are as in the registry now.

## 5. Abstractions, and what is not modelled

- One clock. Replicas, Redis and PostgreSQL share it; the order of `createdAt`
  and the length of a guard depend on it.
- Cryptography, HTTP and OIDC: a signature verifies iff it was made; a caller
  has the scopes its route requires and is who its token says.
- One wallet owner, one user of the FI: rows of different owners share nothing.
  Of the demo's second customer only the loss of his row matters.
- Rows a service did not make: the demo's data put an ACTIVE row into the registry
  without vault entry or audit events (`review-scheduler/src/index.ts:229-250`) and
  consents that are APPROVED without an assertion; `Registry`, `ConsentManager` and
  `IssuerService`, and what is said of their tables, leave these out.
- The contents of an event's detail other than the names of its fields, of a claim or
  of a KYC record; lists, logs,
  messages and health checks.
- The browser: one tab; requests the page sends all at once to refresh lists are
  sent one after the other; the idle timer of the portal's layout only warns.
- Code no routed page uses: `revokeFiConsent`, `renewWalletToken`,
  `requestPeriodicReconsent`, `stopGuidedWalkthrough`, and the pages
  `WalletOpsPage` and `VerifierPage`.
- Oddities that were left as they are, because nothing said of the system here
  depends on them: `refreshFiConsentBinding` sets a status without the consent it
  is of; `pendingSubmission` may be attached to an earlier response;
  `revokeFiConsent` is refused for an FI analyst; review-scheduler's
  `runLifecycle` asks for an access token with a function that is defined nowhere
  (`index.ts:850`), catches that and goes on without one.
- Deployment and scripts: they start processes and create rows, and keep no state
  of their own afterwards.

Components marked `not_modelled` or `partly` in `PROJECT.json` each have their reason
there.

## 6. Plan

Every component that keeps state of its own is modelled, in whole or for the part that
matters here, and every invariant a run checks is the subject of a theorem; the
three liveness properties stay with TLC, the parts of them about states being theorems
(`NoCircularWait` for `RequestsEnd`, `FetchIsShared` for `VerificationEnds`: whoever waits
for keys waits for a fetch in flight). What is left to prove, in this order:

1. The part about states of `DueIsReviewed`: that a cycle's batch leaves out only who
   falls due later than those in it, or was written since. It takes a history of who
   was written.
2. `RowsOfALedger` as a refinement by INSTANCE, with versions and histories of
   the rows as auxiliary variables of `IssuerService`.
3. A theorem across `ConsentManager` and `FiService`: that what fi-service accepts was
   approved by who had the mandate for it, which each module says of its half.
