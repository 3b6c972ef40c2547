------------------------------- MODULE Console -------------------------------
(***************************************************************************)
(* The console (web-ui, ConsoleProvider.tsx and the pages that run several *)
(* operations in a row): what it shows, the operations in flight, the      *)
(* guided walkthrough and its coverage checklist, over the sessions of     *)
(* WebSession and the services as the console sees them.                   *)
(*                                                                         *)
(* An operation is a callback of one rendering: what it read of the        *)
(* console's state when it began, or when the row of operations it is in   *)
(* began, it keeps, whatever is shown meanwhile.  It asks for a token,     *)
(* calls a service, shows the answer, mostly fetches evidence, and then    *)
(* ticks its box of the checklist.  The page is one thread: what follows   *)
(* an answer, up to the next question, is done at once.                    *)
(*                                                                         *)
(* One customer, the wallet's owner.  Lists, logs, messages, health checks *)
(* and operations that only fetch are left out, and so is the demo's flag  *)
(* to do without a wallet login, which is off unless it is set.            *)
(***************************************************************************)
EXTENDS WebSession, Sequences, FiniteSets

CONSTANTS
    Rows,           \* the rows of operations started when nothing is shown as running
    PageRows,       \* the rows pages of their own start
    StoredSteps,    \* the steps a walkthrough found in the storage may be at
    StoredNominee,  \* what the nominee may be to the owner before
    MaxRuns,        \* bound on rows and walkthroughs ever started
    MaxTogether,    \* bound on those that start while another is in flight
    MaxTokens, MaxConsents  \* bounds on what is made

\* The scenarios that want a wallet login; the flows, the steps and the workflows.
Scenarios ==
    { <<"issue", "request", "approve", "verify", "revokeToken", "failNotActive">>,
      <<"request", "approve", "verify">>, <<"request", "reject", "failRejected">> }
LifecyclePolish == <<"due", "review", "renew">>
Flows ==
    { <<"revokeToken", "failNotActive">>, <<"failExpired", "renew">>, <<"due", "review">>,
      <<"renew">>, LifecyclePolish }
Steps ==
    { <<op>> : op \in {"issue", "request", "approve", "verify", "revokeToken", "failNotActive",
                       "reuse", "ckyc", "delegate", "nominee"} }
Workflows ==
    { <<"revokeToken", "failNotActive">> }
    \cup { <<op>> : op \in {"issue", "request", "ckyc", "review", "delegate"} }
CommandHome == { <<"simulateDemo">>, <<"lifecycle">> }
AuditPage == { <<"health">> }
FiForm == { <<"request", "precheck">> }

\* Rows that pages of their own start, whatever else is running.
IssuePage == { <<"issue">> }
HomePage == { <<op>> : op \in {"list", "tokens", "reviewStatus", "delegations"} }
NomineesPage ==
    { <<op, "nominees">> : op \in {"saveNominee", "enable", "disable"} }
    \cup { <<"delegate", "delegations">> }
DelegationsPage == { <<"undelegate", "delegations">> }
CommandPage == { <<"jobs">> }
FiHomePage == { <<"coverage">>, <<"onboard", "coverage">> }
FiConsolePage == { <<"precheck">>, <<"binding">> }
WalletPages == HomePage \cup NomineesPage \cup DelegationsPage
FiPages == FiHomePage \cup FiConsolePage
Pages == IssuePage \cup CommandPage \cup WalletPages \cup FiPages

Ops ==
    {"issue", "request", "approve", "reject", "revoke", "verify", "failNotActive",
     "failRejected", "failExpired", "revokeToken", "renew", "reuse", "delegate", "undelegate",
     "nominee", "saveNominee", "enable", "disable", "list", "tokens", "reviewStatus",
     "delegations", "nominees", "coverage", "binding", "precheck", "onboard", "simulateDemo",
     "lifecycle", "jobs", "health", "due", "ckyc", "review"}

NomineeStates == {"none", "active", "disabled", "delegated"}

ASSUME ConsoleAssumption ==
    /\ MaxRuns \in Nat /\ MaxTogether \in 0 .. MaxRuns
    /\ MaxTokens \in Nat \ {0} /\ MaxConsents \in Nat \ {0}
    /\ StoredSteps \subseteq 0 .. 10
    /\ StoredNominee \subseteq NomineeStates
    /\ Rows \subseteq Scenarios \cup Flows \cup Steps \cup Workflows \cup CommandHome
                 \cup AuditPage \cup FiForm
    /\ PageRows \subseteq Pages

VARIABLES
    active,         \* registry: the tokens that are ACTIVE
    made,           \* how many tokens there are
    consent,        \* consent-manager's rows, in the order they were made
    accepted,       \* fi-service: the consents it has accepted the assertion of
    nominee,        \* wallet-service: what the nominee is to the owner
    ahead,          \* ckyc-adapter: the profile is ahead of the token
    facts,          \* the boxes whose deed the services have done (history)
    shown,          \* token, consent and assertion the console shows, and whether it
                    \* has seen a consent refused as expired
    busy,           \* runningAction: the operation shown as running
    covered,        \* the checklist
    guided,         \* the walkthrough
    run,            \* the rows and walkthroughs in flight, one for each caller
    started,        \* how many were started
    resetAt,        \* the walkthrough's step when the checklist was last reset (history)
    mixed           \* someone acted as another than shown, or may have (history)

services == <<active, made, consent, accepted, nominee, ahead, facts>>
history == <<started, resetAt, mixed>>
consoleVars == <<services, shown, busy, covered, guided, run, history>>
vars == <<sessionVars, consoleVars>>

Tokens == 1 .. MaxTokens
Consents == 1 .. MaxConsents
NewestToken == CHOOSE t \in active : \A u \in active : u <= t

\* The walkthrough: each step a row of operations, and the box of the checklist that is
\* ticked once it is done; step 9 only waits for a login.
GuidedSteps ==
    << <<"issue">>, <<"request">>, <<"approve">>, <<"verify">>, <<"revokeToken">>,
       <<"failNotActive">>, <<"ckyc">>, <<"review">>, <<"delegate", "request">>, <<>>,
       <<"nominee">> >>
GuidedBoxes ==
    << "issueToken", "requestConsent", "walletApprove", "fiVerifySuccess", "revokeToken",
       "postRevokeFail", "none", "periodicReview", "requestConsent", "none",
       "nomineeApproval" >>
LastStep == Len(GuidedSteps)

Boxes ==
    {"issueToken", "requestConsent", "walletApprove", "fiVerifySuccess", "revokeToken",
     "postRevokeFail", "rejectedFail", "expiredThenRenew", "crossReuse", "ckycSupersede",
     "periodicReview", "nomineeApproval"}

\* Whose login a step waits for.
LoginFor(k) == IF k \in {2, 8} THEN Owner ELSE IF k = 9 THEN Nominee ELSE NoUser

\* The calls of an operation, each after the portal whose token is asked for before it:
\* "none" when no token is needed or the operation still has one.  Some only fetch, and
\* of these some may fail and nothing comes of it.  A simulated demo's lists and those of
\* the FI's home page are fetched all at once; here it is one after the other.
Fetches == {"evidence", "list", "precheck", "binding", "settle", "refresh"}
MayFail == {"settle", "refresh"}
Evidence == <<"wallet", "evidence">>
Settle == <<"wallet", "settle">>
Calls ==
  [op \in Ops |->
    CASE op = "issue" -> << <<"wallet", "issue">>, Evidence >>
      [] op = "request" -> << <<"fi", "request">> >>
      [] op \in {"approve", "nominee"} -> << <<"wallet", "approve">>, Settle >>
      [] op = "reject" -> << <<"wallet", "reject">>, Settle >>
      [] op = "revoke" -> << <<"wallet", "revoke">>, Settle >>
      [] op = "verify" -> << <<"fi", "verify">>, Evidence >>
      [] op \in {"failNotActive", "failRejected", "failExpired"} -> << <<"fi", "verify">> >>
      [] op = "revokeToken" -> << <<"wallet", "revokeToken">>, Evidence >>
      [] op = "renew" -> << <<"fi", "renew">> >>
      [] op = "reuse" -> << <<"fi", "request">>, <<"wallet", "approve">>, <<"none", "verify">> >>
      [] op \in {"delegate", "undelegate", "saveNominee"}
           -> << <<"wallet", op>>, <<"none", "list">> >>
      [] op \in {"enable", "disable"}
           -> << <<"wallet", op>>, <<"none", "list">>, <<"none", "list">> >>
      [] op \in {"list", "tokens", "reviewStatus", "delegations", "nominees"}
           -> << <<"wallet", "list">> >>
      [] op \in {"due", "jobs", "health"} -> << <<"none", "list">> >>
      [] op = "coverage" -> << <<"fi", "refresh">>, <<"wallet", "refresh">> >>
      [] op = "binding" -> << <<"fi", "binding">> >>
      [] op = "onboard" -> << <<"fi", "onboard">>, <<"fi", "precheck">> >>
      [] op = "precheck" -> << <<"fi", "precheck">> >>
      [] op = "simulateDemo"
           -> << <<"none", "simulateDemo">>, <<"wallet", "refresh">>, <<"fi", "refresh">> >>
      [] op = "lifecycle" -> << <<"none", "lifecycle">>, <<"none", "list">> >>
      [] op = "ckyc" -> << <<"none", "simulate">>, <<"wallet", "sync">>, Evidence >>
      [] op = "review" -> << <<"none", "review">> >>]

\* The answer an operation calls for: it throws on any other.
Expected(op) ==
    CASE op = "failNotActive" -> "TOKEN_NOT_ACTIVE"
      [] op = "failRejected" -> "CONSENT_REJECTED"
      [] op = "failExpired" -> "CONSENT_EXPIRED"
      [] OTHER -> "OK"
Codes == {"OK", "TOKEN_NOT_ACTIVE", "CONSENT_REJECTED", "CONSENT_EXPIRED"}

\* What a rendering shows, as the callbacks made in it keep it.
Rendering ==
    [shown |-> shown, owner |-> HasOwnerRole, nominee |-> HasNomineeRole, fi |-> HasFiRole,
     auth |-> Authenticated("wallet")]

NothingShown == [token |-> 0, consent |-> 0, assertion |-> 0, expired |-> FALSE]
NoRendering == [shown |-> NothingShown, owner |-> FALSE, nominee |-> FALSE, fi |-> FALSE,
                auth |-> FALSE]

\* A row or the walkthrough in flight: its operations, which of them it is at and which
\* call of that; the walkthrough's step; the rendering it is of; the consents its first
\* operations were given or have made; whose token it got; what was made and answered;
\* the consents it has requested or had approved (history).
Idle ==
    [pc |-> "idle", ops |-> <<>>, at |-> 1, call |-> 1, guided |-> FALSE, step |-> 0,
     saw |-> NoRendering, on |-> <<>>, user |-> NoUser, got |-> 0, code |-> "OK",
     own |-> {}]

InFlight == {r \in Callers : run[r].pc # "idle"}
Walking == {r \in InFlight : run[r].guided}

\* What an operation reads of the console.
Reads(rec) == rec.saw.shown

Op(r) == run[r].ops[run[r].at]
Call(r) == Calls[Op(r)][run[r].call][2]
IsLastCall(r) == run[r].call = Len(Calls[Op(r)])
Given(rec) == rec.at \in DOMAIN rec.on
Target(rec) == IF Given(rec) THEN rec.on[rec.at] ELSE Reads(rec).consent

\* What an operation shows as running at its n-th call: a nominee's approval is one, and
\* to refresh lists is an operation of its own, which ends in nothing being shown.
Label(op, n) ==
    CASE op = "nominee" -> "approve"
      [] op = "simulateDemo" /\ n > 1 -> "coverage"
      [] op = "lifecycle" /\ n > 1 -> "jobs"
      [] OTHER -> op

\* Some show nothing; what is shown as running after an operation.
Unlabelled == {"precheck", "binding"}
After(rec) == IF rec.ops[rec.at] \in Unlabelled THEN busy ELSE "none"

DefaultGuided ==
    [step |-> 0, running |-> FALSE, status |-> "idle", blocked |-> FALSE, waitsFor |-> NoUser]

Stopped(k) == [DefaultGuided EXCEPT !.step = k, !.status = "error", !.blocked = TRUE]
Paused(k) == [DefaultGuided EXCEPT !.step = k, !.status = "paused", !.blocked = TRUE,
                                   !.waitsFor = LoginFor(k)]
Going(k) == [DefaultGuided EXCEPT !.step = k, !.running = TRUE, !.status = "running"]

\* A console that was opened before may find a walkthrough in its storage, and the
\* tokens of that time may be gone.
Init ==
    /\ SessionInit
    /\ made \in 0 .. 1
    /\ active \in SUBSET (1 .. made)
    /\ consent = <<>>
    /\ accepted = {}
    /\ nominee \in StoredNominee
    /\ ahead = FALSE
    /\ shown = NothingShown
    /\ busy = "none"
    /\ \E k \in StoredSteps :
          /\ guided \in IF k = 0 THEN {DefaultGuided}
                        ELSE {Stopped(k)} \cup IF LoginFor(k) = NoUser THEN {} ELSE {Paused(k)}
          /\ covered = {GuidedBoxes[i] : i \in 1 .. k} \ {"none"}
    /\ facts = covered
    /\ run = [r \in Callers |-> Idle]
    /\ started = 0
    /\ resetAt = 0
    /\ mixed = FALSE

-----------------------------------------------------------------------------
(* What follows an answer                                                  *)

\* Mutant: only an operation that succeeds ends in setRunningAction(null).
ThrowKeepsBusy(r, rec, b) ==
    /\ run' = [run EXCEPT ![r] = Idle]
    /\ ask' = [ask EXCEPT ![r] = NotAsking]
    /\ guided' = IF rec.guided THEN Stopped(rec.step) ELSE guided
    /\ UNCHANGED busy

\* Something throws: the row is over, the walkthrough stops at its step.  b is what is
\* shown as running from then on, since an operation that has begun ends its finally.
Throw(r, rec, b) ==
    /\ run' = [run EXCEPT ![r] = Idle]
    /\ ask' = [ask EXCEPT ![r] = NotAsking]
    /\ guided' = IF rec.guided THEN Stopped(rec.step) ELSE guided
    /\ busy' = b

\* rec makes its next call, asking for a token first when it needs one: after a
\* decision, only to refresh the evidence of a token that was shown.
CallNext(r, rec) ==
    LET next == Calls[rec.ops[rec.at]][rec.call]
        portal == next[1]
    IN  IF portal \in Portals /\ ~(next = Settle /\ Reads(rec).token = 0)
        THEN /\ ask' = [ask EXCEPT ![r] = Ask(portal)]
             /\ run' = [run EXCEPT ![r] = [rec EXCEPT !.pc = "asking"]]
        ELSE /\ ask' = [ask EXCEPT ![r] = NotAsking]
             /\ run' = [run EXCEPT ![r] = [rec EXCEPT !.pc = "called"]]

\* What an operation wants to be shown, or it throws before it begins.
Ready(rec, op) ==
    LET s == Reads(rec)
    IN  /\ op \in {"approve", "reject", "revoke", "nominee"} => Target(rec) # 0
        /\ op = "nominee" => rec.saw.nominee
        /\ op \in {"verify", "failNotActive", "failRejected", "failExpired"}
             => s.consent # 0 /\ s.assertion # 0
        /\ op = "renew" => s.consent # 0
        /\ op \in {"revokeToken", "reuse", "ckyc"} => s.token # 0

\* rec begins its operation; b is what was shown as running before.
BeginOp(r, rec, b) ==
    LET op == rec.ops[rec.at]
    IN  IF ~Ready(rec, op) THEN Throw(r, rec, b)
        ELSE IF op \in {"delegate", "undelegate"} /\ ~rec.saw.owner THEN Throw(r, rec, "none")
        ELSE /\ CallNext(r, [rec EXCEPT !.call = 1, !.got = 0, !.user = NoUser, !.code = "OK"])
             /\ busy' = IF op \in Unlabelled THEN b ELSE Label(op, 1)
             /\ guided' = IF rec.guided THEN Going(rec.step) ELSE guided

\* The walkthrough has done a step, and sleeps.
StepDone(r, rec, b) ==
    /\ run' = [run EXCEPT ![r] = [Idle EXCEPT !.pc = "asleep", !.guided = TRUE,
                                              !.step = rec.step + 1, !.saw = rec.saw,
                                              !.own = rec.own]]
    /\ ask' = [ask EXCEPT ![r] = NotAsking]
    /\ guided' = Going(rec.step + 1)
    /\ busy' = b

\* The operation is through its calls: its finally, then the next one, or the end.
OpDone(r, rec) ==
    IF rec.at < Len(rec.ops) THEN BeginOp(r, [rec EXCEPT !.at = @ + 1], After(rec))
    ELSE IF rec.guided THEN StepDone(r, rec, After(rec))
    ELSE /\ run' = [run EXCEPT ![r] = Idle]
         /\ ask' = [ask EXCEPT ![r] = NotAsking]
         /\ busy' = After(rec)
         /\ UNCHANGED guided

\* The operation goes on after an answer.
Proceed(r, rec) ==
    IF rec.call = Len(Calls[rec.ops[rec.at]]) THEN OpDone(r, rec)
    ELSE /\ CallNext(r, [rec EXCEPT !.call = @ + 1])
         /\ LET label == Label(Op(r), rec.call + 1)
            IN  busy' = IF Call(r) = "refresh" THEN "none"
                        ELSE IF label # Label(Op(r), rec.call) THEN label ELSE busy
         /\ UNCHANGED guided

\* The walkthrough comes to step k: it waits for a login, or begins.
BeginStep(r, k, saw, own, b) ==
    LET rec == [Idle EXCEPT !.guided = TRUE, !.step = k, !.saw = saw, !.own = own,
                            !.ops = GuidedSteps[k + 1]]
        waits == \/ k \in {2, 8} /\ ~(saw.auth /\ saw.owner)
                 \/ k = 9 /\ ~(saw.auth /\ saw.nominee)
    IN  IF waits
        THEN /\ run' = [run EXCEPT ![r] = Idle]
             /\ ask' = [ask EXCEPT ![r] = NotAsking]
             /\ guided' = Paused(k)
             /\ busy' = b
        ELSE IF rec.ops = <<>> THEN StepDone(r, rec, b)
        ELSE BeginOp(r, rec, b)

\* A token was granted or refused, and the page has not gone on yet: it does so before
\* anything else happens.
Answered == {r \in Callers : ask[r].pc \in {"granted", "refused"}}
Quiet == Answered = {}

\* What is only to refresh lists may fail.
NoToken(r) ==
    IF Call(r) \notin MayFail THEN Throw(r, run[r], After(run[r]))
    ELSE /\ run' = [run EXCEPT ![r].pc = "answered"]
         /\ ask' = [ask EXCEPT ![r] = NotAsking]
         /\ UNCHANGED <<busy, guided>>

Granted(r) ==
    /\ ask[r].pc = "granted"
    /\ IF ask[r].portal = "fi" /\ ~run[r].saw.fi THEN NoToken(r)
       ELSE /\ run' = [run EXCEPT ![r].pc = "called", ![r].user = ask[r].user]
            /\ ask' = [ask EXCEPT ![r] = NotAsking]
            /\ UNCHANGED <<busy, guided>>
    /\ UNCHANGED <<session, leaving, lastLogin, crossed, budget, services, shown, covered,
                   history>>

Refused(r) ==
    /\ ask[r].pc = "refused"
    /\ NoToken(r)
    /\ UNCHANGED <<session, leaving, lastLogin, crossed, budget, services, shown, covered,
                   history>>

-----------------------------------------------------------------------------
(* The services answer                                                     *)

\* The call is answered, with what was made or with the service's code.
Answers(r, got, code) ==
    /\ run' = [run EXCEPT ![r].pc = "answered", ![r].got = got, ![r].code = code,
                          ![r].user = NoUser]
    /\ UNCHANGED <<sessionVars, shown, busy, covered, guided, history>>

Did(boxes) == facts' = facts \cup boxes

Calling(r, call) == run[r].pc = "called" /\ Call(r) = call /\ Quiet

\* A consent for the newest ACTIVE token.
NewConsent(t) == [status |-> "PENDING", token |-> t, by |-> NoUser]

ServeIssue(r) ==
    /\ Calling(r, "issue")
    /\ made < MaxTokens
    /\ made' = made + 1
    /\ active' = active \cup {made + 1}
    /\ Did({"issueToken"})
    /\ Answers(r, made + 1, "OK")
    /\ UNCHANGED <<consent, accepted, nominee, ahead>>

ServeRequest(r) ==
    /\ Calling(r, "request")
    /\ active # {}
    /\ Len(consent) < MaxConsents
    /\ consent' = Append(consent, NewConsent(NewestToken))
    /\ Did({"requestConsent"})
    /\ Answers(r, Len(consent) + 1, "OK")
    /\ UNCHANGED <<active, made, accepted, nominee, ahead>>

\* Whose token the console has got decides, whatever role it shows.
MayDecide(r) == run[r].user = Owner \/ (run[r].user = Nominee /\ nominee = "delegated")

Decides(r, status) ==
    LET c == Target(run[r])
        by == IF status = "APPROVED" THEN run[r].user ELSE consent[c].by
    IN  consent' = [consent EXCEPT ![c].status = status, ![c].by = by]

ServeApprove(r) ==
    LET c == Target(run[r])
    IN  /\ Calling(r, "approve")
        /\ MayDecide(r)
        /\ consent[c].status = "PENDING"
        /\ active # {} /\ consent[c].token = NewestToken
        /\ Decides(r, "APPROVED")
        /\ Did({"walletApprove"} \cup IF run[r].user = Nominee THEN {"nomineeApproval"} ELSE {})
        /\ Answers(r, c, "OK")
        /\ UNCHANGED <<active, made, accepted, nominee, ahead>>

ServeReject(r) ==
    /\ Calling(r, "reject")
    /\ MayDecide(r)
    /\ consent[Target(run[r])].status = "PENDING"
    /\ Decides(r, "REJECTED")
    /\ Answers(r, 0, "OK")
    /\ UNCHANGED <<active, made, accepted, nominee, ahead, facts>>

\* A nominee revokes what a nominee has approved.
ServeRevoke(r) ==
    /\ Calling(r, "revoke")
    /\ MayDecide(r)
    /\ run[r].user \in {Owner, consent[Target(run[r])].by}
    /\ consent[Target(run[r])].status = "APPROVED"
    /\ Decides(r, "REVOKED")
    /\ Answers(r, 0, "OK")
    /\ UNCHANGED <<active, made, accepted, nominee, ahead, facts>>

\* What fi-service verifies: the consent shown and the assertion shown, which may be of
\* an older consent with the same terms; a reuse check its own.
Verified(rec) ==
    IF Given(rec) THEN [consent |-> Target(rec), assertion |-> Target(rec)]
    ELSE [consent |-> Reads(rec).consent, assertion |-> Reads(rec).assertion]

\* The consent's status is judged first, then the assertion, its token and its replay.
VerifyCode(v) ==
    LET status == consent[v.consent].status
    IN  IF status \in {"EXPIRED", "REJECTED"} THEN "CONSENT_" \o status
        ELSE IF status = "APPROVED" /\ consent[v.assertion].token \notin active
        THEN "TOKEN_NOT_ACTIVE"
        ELSE IF status = "APPROVED" /\ v.assertion \notin accepted THEN "OK"
        ELSE "OTHER"

Box(code) ==
    CASE code = "OK" -> "fiVerifySuccess"
      [] code = "TOKEN_NOT_ACTIVE" -> "postRevokeFail"
      [] code = "CONSENT_REJECTED" -> "rejectedFail"
      [] OTHER -> "expired"

\* Codes nobody waits for are those of a call that fails (CallFails).
ServeVerify(r) ==
    LET v == Verified(run[r])
        code == VerifyCode(v)
    IN  /\ Calling(r, "verify")
        /\ code \in Codes
        /\ accepted' = IF code = "OK" THEN accepted \cup {v.assertion} ELSE accepted
        /\ Did({IF Op(r) = "reuse" /\ code = "OK" THEN "crossReuse" ELSE Box(code)} \cap Boxes)
        /\ Answers(r, 0, code)
        /\ UNCHANGED <<active, made, consent, nominee, ahead>>

\* Revoking a token that is not ACTIVE any more is a call that fails.
ServeRevokeToken(r) ==
    /\ Calling(r, "revokeToken")
    /\ Reads(run[r]).token \in active
    /\ active' = active \ {Reads(run[r]).token}
    /\ Did({"revokeToken"})
    /\ Answers(r, 0, "OK")
    /\ UNCHANGED <<made, consent, accepted, nominee, ahead>>

ServeRenew(r) ==
    /\ Calling(r, "renew")
    /\ active # {}
    /\ NewestToken = consent[Reads(run[r]).consent].token
    /\ Len(consent) < MaxConsents
    /\ consent' = Append(consent, NewConsent(NewestToken))
    /\ Did(IF consent[Reads(run[r]).consent].status = "EXPIRED" THEN {"expiredThenRenew"} ELSE {})
    /\ Answers(r, Len(consent) + 1, "OK")
    /\ UNCHANGED <<active, made, accepted, nominee, ahead>>

ServeSimulate(r) ==
    /\ Calling(r, "simulate")
    /\ ahead' = TRUE
    /\ Answers(r, 0, "OK")
    /\ UNCHANGED <<active, made, consent, accepted, nominee, facts>>

\* The newest token is superseded by one of the new profile.
Supersede ==
    /\ ahead
    /\ active # {}
    /\ made < MaxTokens
    /\ made' = made + 1
    /\ active' = (active \ {NewestToken}) \cup {made + 1}
    /\ ahead' = FALSE

ServeSync(r) ==
    /\ Calling(r, "sync")
    /\ \/ /\ Supersede
          /\ Did({"ckycSupersede"})
          /\ Answers(r, made + 1, "OK")
       \/ /\ ~ahead
          /\ Answers(r, 0, "OK")
          /\ UNCHANGED <<active, made, ahead, facts>>
    /\ UNCHANGED <<consent, accepted, nominee>>

\* The scheduler has the profile of a customer that is due synced.
ServeReview(r) ==
    /\ Calling(r, "review")
    /\ Did({"periodicReview"})
    /\ Supersede \/ UNCHANGED <<active, made, ahead>>
    /\ Answers(r, 0, "OK")
    /\ UNCHANGED <<consent, accepted, nominee>>

\* The owner's calls about the nominee; what they leave of it.
ServesNominee(r, call, to) ==
    /\ Calling(r, call)
    /\ run[r].user = Owner
    /\ nominee' = to
    /\ Answers(r, 0, "OK")
    /\ UNCHANGED <<active, made, consent, accepted, ahead, facts>>

ActiveAgain == IF nominee = "delegated" THEN nominee ELSE "active"

ServeSaveNominee(r) == ServesNominee(r, "saveNominee", ActiveAgain)

ServeEnable(r) ==
    /\ nominee # "none"
    /\ ServesNominee(r, "enable", ActiveAgain)

ServeDisable(r) ==
    /\ nominee # "none"
    /\ ServesNominee(r, "disable", "disabled")

ServeDelegate(r) ==
    /\ nominee \in {"active", "delegated"}
    /\ ServesNominee(r, "delegate", "delegated")

ServeUndelegate(r) ==
    /\ nominee = "delegated"
    /\ ServesNominee(r, "undelegate", "active")

\* Who has an ACTIVE token is onboarded already.  For anyone else fi-service sends issuer-
\* service a userId among the KYC data, which its schema refuses: that call fails.
ServeOnboard(r) ==
    /\ Calling(r, "onboard")
    /\ active # {}
    /\ Answers(r, 0, "OK")
    /\ UNCHANGED services

\* The demo's nominee is the nominee, and goes with the demo's data.
ServeSimulateDemo(r) ==
    /\ Calling(r, "simulateDemo")
    /\ nominee' = "none"
    /\ Answers(r, 0, "OK")
    /\ UNCHANGED <<active, made, consent, accepted, ahead, facts>>

\* The sweeps make EXPIRED what is so already for whoever looks.
ServeLifecycle(r) ==
    /\ Calling(r, "lifecycle")
    /\ Answers(r, 0, "OK")
    /\ UNCHANGED services

\* The service refuses, is not reached, or its answer is lost: an onboarding then looks
\* whether there is a token all the same.
CallFails(r) ==
    /\ Quiet
    /\ run[r].pc \in {"called", "answered"}
    /\ Call(r) \notin MayFail
    /\ IF Call(r) = "onboard"
       THEN CallNext(r, [run[r] EXCEPT !.call = 2]) /\ UNCHANGED <<busy, guided>>
       ELSE Throw(r, run[r], After(run[r]))
    /\ UNCHANGED <<session, leaving, lastLogin, crossed, budget, services, shown, covered,
                   history>>

\* Its time is over, which counts before what was decided.
ExpireConsent(c) ==
    /\ Quiet
    /\ c <= Len(consent)
    /\ consent[c].status # "EXPIRED"
    /\ consent' = [consent EXCEPT ![c].status = "EXPIRED"]
    /\ UNCHANGED <<sessionVars, active, made, accepted, nominee, ahead, facts, shown, busy,
                   covered, guided, run, history>>

-----------------------------------------------------------------------------
(* The operations go on                                                    *)

\* Mutant: the call is not awaited.
BackAtOnce(r, ops) ==
    /\ run[r].pc \in {"called", "answered"}
    /\ Op(r) \in ops
    /\ Quiet

\* An answer comes back; one to what only fetches changes nothing before it does.
Back(r, ops) ==
    /\ run[r].pc \in {"called", "answered"}
    /\ Op(r) \in ops
    /\ Quiet
    /\ run[r].pc = "called" => Call(r) \in Fetches

Tick(boxes) == covered' = covered \cup boxes

\* What is left alone while the page goes on.
Elsewhere == <<session, leaving, lastLogin, crossed, budget, services, history>>

\* An operation of which the first answer is shown, and the rest ticks boxes.
IssueToken(r) ==
    /\ Back(r, {"issue"})
    /\ IF IsLastCall(r) THEN Tick({"issueToken"}) /\ UNCHANGED shown
       ELSE shown' = [shown EXCEPT !.token = run[r].got] /\ UNCHANGED covered
    /\ Proceed(r, run[r])
    /\ UNCHANGED Elsewhere

\* The consent of the answer is the row's own.
Owning(rec) == [rec EXCEPT !.own = @ \cup {rec.got}]

\* Mutant: the answer's tokenId is shown as the consent's id.
RequestConsentSwapped(r) ==
    /\ Back(r, {"request"})
    /\ shown' = [shown EXCEPT !.consent = consent[run[r].got].token]
    /\ Tick({"requestConsent"})
    /\ Proceed(r, Owning(run[r]))
    /\ UNCHANGED Elsewhere

\* The token is shown when the rendering showed none; the assertion stays what it is.
RequestConsent(r) ==
    /\ Back(r, {"request"})
    /\ shown' = [shown EXCEPT !.consent = run[r].got,
                              !.token = IF Reads(run[r]).token = 0 THEN consent[run[r].got].token
                                        ELSE @]
    /\ Tick({"requestConsent"})
    /\ Proceed(r, Owning(run[r]))
    /\ UNCHANGED Elsewhere

\* approveAsNominee approves like anyone, and has a box of its own.
ApprovalBoxes(op) ==
    {"walletApprove"} \cup IF op = "nominee" THEN {"nomineeApproval"} ELSE {}

ApproveConsent(r) ==
    /\ Back(r, {"approve", "nominee"})
    /\ IF IsLastCall(r)
       THEN /\ Tick(ApprovalBoxes(Op(r)))
            /\ UNCHANGED shown
            /\ Proceed(r, run[r])
       ELSE /\ shown' = [shown EXCEPT !.consent = run[r].got, !.assertion = run[r].got]
            /\ UNCHANGED covered
            /\ Proceed(r, Owning(run[r]))
    /\ UNCHANGED Elsewhere

RejectOrRevokeConsent(r) ==
    /\ Back(r, {"reject", "revoke"})
    /\ shown' = IF IsLastCall(r) THEN shown
                ELSE [shown EXCEPT !.consent = Target(run[r]), !.assertion = 0]
    /\ Proceed(r, run[r])
    /\ UNCHANGED <<covered, Elsewhere>>

VerifyAssertionSuccess(r) ==
    /\ Back(r, {"verify"})
    /\ IF run[r].code # "OK" THEN Throw(r, run[r], "none") /\ UNCHANGED covered
       ELSE /\ Tick(IF IsLastCall(r) THEN {"fiVerifySuccess"} ELSE {})
            /\ Proceed(r, run[r])
    /\ UNCHANGED <<shown, Elsewhere>>

VerifyExpectedFailure(r) ==
    /\ Back(r, {"failNotActive", "failRejected", "failExpired"})
    /\ IF run[r].code # Expected(Op(r))
       THEN Throw(r, run[r], "none") /\ UNCHANGED <<shown, covered>>
       ELSE /\ shown' = [shown EXCEPT !.expired = @ \/ Op(r) = "failExpired"]
            /\ Tick({Box(run[r].code)} \cap Boxes)
            /\ Proceed(r, run[r])
    /\ UNCHANGED Elsewhere

RevokeToken(r) ==
    /\ Back(r, {"revokeToken"})
    /\ Tick(IF IsLastCall(r) THEN {"revokeToken"} ELSE {})
    /\ Proceed(r, run[r])
    /\ UNCHANGED <<shown, Elsewhere>>

\* Having seen some consent refused as expired is enough for the box.
RenewConsent(r) ==
    /\ Back(r, {"renew"})
    /\ shown' = [shown EXCEPT !.consent = run[r].got]
    /\ Tick(IF Reads(run[r]).expired THEN {"expiredThenRenew"} ELSE {})
    /\ Proceed(r, run[r])
    /\ UNCHANGED Elsewhere

\* It goes on with the consent it has requested, and shows none of it.
RunFi2Reuse(r) ==
    /\ Back(r, {"reuse"})
    /\ IF run[r].code # "OK" THEN Throw(r, run[r], "none") /\ UNCHANGED covered
       ELSE /\ Tick(IF IsLastCall(r) THEN {"crossReuse"} ELSE {})
            /\ Proceed(r, [run[r] EXCEPT !.on = IF Call(r) = "request" THEN <<run[r].got>> ELSE @])
    /\ UNCHANGED <<shown, Elsewhere>>

\* Operations of which nothing but lists is shown.
GoesOn(r, ops) ==
    /\ Back(r, ops)
    /\ Proceed(r, run[r])
    /\ UNCHANGED <<shown, covered, Elsewhere>>

AddNomineeDelegation(r) == GoesOn(r, {"delegate"})
RevokeDelegation(r) == GoesOn(r, {"undelegate"})
CreateNominee(r) == GoesOn(r, {"saveNominee"})
SetNomineeStatus(r) == GoesOn(r, {"enable", "disable"})
RefreshWalletConsents(r) == GoesOn(r, {"list"})
RefreshWalletTokens(r) == GoesOn(r, {"tokens"})
RefreshWalletReviewStatus(r) == GoesOn(r, {"reviewStatus"})
RefreshDelegations(r) == GoesOn(r, {"delegations"})
RefreshNominees(r) == GoesOn(r, {"nominees"})
RefreshLifecycleJobs(r) == GoesOn(r, {"jobs"})
RefreshServiceHealth(r) == GoesOn(r, {"health"})
RefreshFiTokenCoverage(r) == GoesOn(r, {"coverage"})
RefreshFiConsentBinding(r) == GoesOn(r, {"binding"})
CheckActiveToken(r) == GoesOn(r, {"precheck"})
RunLifecycleNow(r) == GoesOn(r, {"lifecycle"})
LoadDueUsers(r) == GoesOn(r, {"due"})
SimulateDemoData(r) == GoesOn(r, {"simulateDemo"})

\* GET /v1/consent/precheck-token finds a token.
HasActiveToken == active # {}

\* The answer was lost: there must be an ACTIVE token by now.
OnboardUserFromFi(r) ==
    /\ Back(r, {"onboard"})
    /\ Call(r) = "precheck" => HasActiveToken
    /\ OpDone(r, run[r])
    /\ UNCHANGED <<shown, covered, Elsewhere>>

\* The evidence of the new token is fetched when there is one.
RunCkycSupersede(r) ==
    /\ Back(r, {"ckyc"})
    /\ shown' = IF Call(r) = "sync" /\ run[r].got # 0
                THEN [shown EXCEPT !.token = run[r].got] ELSE shown
    /\ Tick(IF IsLastCall(r) THEN {"ckycSupersede"} ELSE {})
    /\ IF Call(r) = "sync" /\ run[r].got = 0 THEN OpDone(r, run[r]) ELSE Proceed(r, run[r])
    /\ UNCHANGED Elsewhere

RunReviewOnce(r) ==
    /\ Back(r, {"review"})
    /\ Tick({"periodicReview"})
    /\ Proceed(r, run[r])
    /\ UNCHANGED <<shown, Elsewhere>>

-----------------------------------------------------------------------------
(* The page                                                                *)

\* The wallet's calls go in the name of another than is shown as signed in, or than the
\* nominee the FI's SSO session shows.
Ambiguous ==
    \/ direct["wallet"].user \notin {NoUser, ShownUser("wallet")}
    \/ HasNomineeRole /\ ShownUser("wallet") # Nominee

Expired == {c \in DOMAIN consent : consent[c].status = "EXPIRED"}

\* The portals' pages are for who is signed in there; the command portal's for anyone.
OnWalletPortal == Authenticated("wallet")
OnFiPortal == Authenticated("fi") /\ HasFiRole

Starts(r) ==
    /\ Quiet /\ ~leaving
    /\ run[r].pc = "idle"
    /\ started < IF InFlight = {} THEN MaxRuns ELSE MaxTogether
    /\ started' = started + 1
    /\ mixed' = (mixed \/ Ambiguous)

NewRow(ops, on) == [Idle EXCEPT !.ops = ops, !.saw = Rendering, !.on = on]

Begins(r, ops, on) ==
    /\ BeginOp(r, NewRow(ops, on), busy)
    /\ UNCHANGED <<session, leaving, lastLogin, crossed, budget, services, shown, covered,
                   resetAt>>

StartRow(r, ops) ==
    /\ Starts(r) /\ busy = "none"
    /\ ops \in Scenarios \cup {<<"simulateDemo">>} => Authenticated("wallet")
    /\ ops \in FiForm => OnFiPortal
    /\ ops = LifecyclePolish => Expired # {}
    /\ Begins(r, ops, <<>>)

StartPageRow(r, ops) ==
    /\ Starts(r)
    /\ ops \in FiPages => OnFiPortal
    /\ ops \in WalletPages => OnWalletPortal
    /\ ops = <<"binding">> => shown.consent # 0
    /\ Begins(r, ops, <<>>)

\* The wallet's inbox and history decide on any consent, whatever else is running, or on
\* several, the newest first.
DecideOn(r, op, c) ==
    /\ Starts(r)
    /\ OnWalletPortal
    /\ Begins(r, <<op, "list">>, <<c>>)

DecideInBulk(r, op) ==
    /\ Starts(r)
    /\ OnWalletPortal
    /\ Len(consent) = 2
    /\ Begins(r, <<op, op, "list">>, <<2, 1>>)

\* The FI's page verifies by itself when the consent shown has become APPROVED.
AutoVerify(r) ==
    /\ Starts(r)
    /\ OnFiPortal
    /\ shown.consent # 0 /\ shown.assertion # 0
    /\ consent[shown.consent].by # NoUser
    /\ Begins(r, <<"verify">>, <<>>)

WalksFrom(r, k) ==
    /\ Starts(r)
    /\ BeginStep(r, k, Rendering, {}, busy)
    /\ UNCHANGED <<session, leaving, lastLogin, crossed, budget, services, shown, covered>>

StartGuidedWalkthrough(r) ==
    /\ busy = "none" /\ ~guided.running
    /\ WalksFrom(r, 0)
    /\ resetAt' = 0

ResumeGuidedWalkthrough(r) ==
    /\ busy = "none" /\ ~guided.running /\ guided.blocked
    /\ WalksFrom(r, guided.step)
    /\ UNCHANGED resetAt

\* Who is signed in to the wallet as far as its SSO client knows.
WalletAuthSnapshot == sso["wallet"]

\* The page looks every now and then whether the one it waits for is signed in, by SSO.
ResumeAfterLogin(r) ==
    /\ guided.status = "paused"
    /\ WalletAuthSnapshot = guided.waitsFor
    /\ WalksFrom(r, guided.step)
    /\ UNCHANGED resetAt

\* The walkthrough wakes up for its next step, with the rendering it has had all along.
Wake(r) ==
    /\ Quiet
    /\ run[r].pc = "asleep"
    /\ IF run[r].step < LastStep THEN BeginStep(r, run[r].step, run[r].saw, run[r].own, busy)
       ELSE /\ run' = [run EXCEPT ![r] = Idle]
            /\ guided' = [DefaultGuided EXCEPT !.step = LastStep, !.status = "done"]
            /\ UNCHANGED <<ask, busy>>
    /\ UNCHANGED <<session, leaving, lastLogin, crossed, budget, services, shown, covered,
                   history>>

ResetCoverage ==
    /\ Quiet /\ ~leaving
    /\ covered # {} \/ shown.expired
    /\ covered' = {}
    /\ shown' = [shown EXCEPT !.expired = FALSE]
    /\ resetAt' = guided.step
    /\ UNCHANGED <<sessionVars, services, busy, guided, run, started, mixed>>

\* Somebody signs in or out while something is in flight: it goes on as another.
SignInOrOut ==
    /\ Quiet
    /\ \/ \E p \in Portals : Logout(p) \/ \E u \in UsersOf(p) : Login(p, u)
    /\ mixed' = (mixed \/ InFlight # {})
    /\ UNCHANGED <<services, shown, busy, covered, guided, run, started, resetAt>>

\* All the page had in memory goes; the checklist and the walkthrough's place are kept.
LeavePage ==
    /\ Quiet
    /\ Reload \/ \E p \in Portals, u \in Users : u \in UsersOf(p) /\ SsoLogin(p, u)
    /\ run' = [r \in Callers |-> Idle]
    /\ shown' = NothingShown
    /\ busy' = "none"
    /\ guided' = [guided EXCEPT !.running = FALSE,
                                !.status = IF @ = "running" THEN "idle" ELSE @]
    /\ UNCHANGED <<services, covered, history>>

SessionStep ==
    /\ Quiet
    /\ \/ \E r \in Callers : \/ RefreshSucceeds(r) \/ RefreshFails(r)
                             \/ SsoGrants(r) \/ SsoRefuses(r)
       \/ \E p \in Portals : Lapse(p)
    /\ UNCHANGED consoleVars

Start(r) ==
    \/ \E ops \in Rows : StartRow(r, ops)
    \/ \E ops \in PageRows : StartPageRow(r, ops)
    \/ \E op \in {"approve", "reject", "revoke"}, c \in 1 .. Len(consent) : DecideOn(r, op, c)
    \/ \E op \in {"approve", "reject"} : DecideInBulk(r, op)
    \/ AutoVerify(r)
    \/ StartGuidedWalkthrough(r)
    \/ ResumeAfterLogin(r)
    \/ ResumeGuidedWalkthrough(r)

Serve(r) ==
    \/ ServeIssue(r)
    \/ ServeRequest(r)
    \/ ServeApprove(r)
    \/ ServeReject(r)
    \/ ServeRevoke(r)
    \/ ServeVerify(r)
    \/ ServeRevokeToken(r)
    \/ ServeRenew(r)
    \/ ServeSimulate(r)
    \/ ServeSync(r)
    \/ ServeReview(r)
    \/ ServeSaveNominee(r)
    \/ ServeEnable(r)
    \/ ServeDisable(r)
    \/ ServeDelegate(r)
    \/ ServeUndelegate(r)
    \/ ServeOnboard(r)
    \/ ServeSimulateDemo(r)
    \/ ServeLifecycle(r)

GoOn(r) ==
    \/ Granted(r)
    \/ Refused(r)
    \/ CallFails(r)
    \/ IssueToken(r)
    \/ RequestConsent(r)
    \/ ApproveConsent(r)
    \/ RejectOrRevokeConsent(r)
    \/ VerifyAssertionSuccess(r)
    \/ VerifyExpectedFailure(r)
    \/ RevokeToken(r)
    \/ RenewConsent(r)
    \/ RunFi2Reuse(r)
    \/ AddNomineeDelegation(r)
    \/ RevokeDelegation(r)
    \/ CreateNominee(r)
    \/ SetNomineeStatus(r)
    \/ RefreshWalletConsents(r)
    \/ RefreshWalletTokens(r)
    \/ RefreshWalletReviewStatus(r)
    \/ RefreshDelegations(r)
    \/ RefreshNominees(r)
    \/ RefreshLifecycleJobs(r)
    \/ RefreshServiceHealth(r)
    \/ RefreshFiTokenCoverage(r)
    \/ RefreshFiConsentBinding(r)
    \/ CheckActiveToken(r)
    \/ OnboardUserFromFi(r)
    \/ RunLifecycleNow(r)
    \/ LoadDueUsers(r)
    \/ SimulateDemoData(r)
    \/ RunCkycSupersede(r)
    \/ RunReviewOnce(r)
    \/ Wake(r)

Next ==
    \/ \E r \in Callers : Start(r) \/ Serve(r) \/ GoOn(r)
    \/ \E c \in Consents : ExpireConsent(c)
    \/ ResetCoverage
    \/ SignInOrOut
    \/ LeavePage
    \/ SessionStep

Spec == Init /\ [][Next]_vars

-----------------------------------------------------------------------------
(* Properties                                                              *)

\* The shape of the state.
TypeOK ==
    /\ SessionTypeOK
    /\ made \in 0 .. MaxTokens
    /\ active \subseteq 1 .. made
    /\ consent \in Seq([status: {"PENDING", "APPROVED", "REJECTED", "REVOKED", "EXPIRED"},
                        token: 1 .. made, by: Users \cup {NoUser}])
    /\ Len(consent) <= MaxConsents
    /\ accepted \subseteq 1 .. Len(consent)
    /\ nominee \in NomineeStates
    /\ ahead \in BOOLEAN /\ mixed \in BOOLEAN
    /\ facts \subseteq Boxes /\ covered \subseteq Boxes
    /\ shown.token \in 0 .. made
    /\ shown.consent \in 0 .. Len(consent) /\ shown.assertion \in 0 .. Len(consent)
    /\ guided.step \in 0 .. LastStep /\ resetAt \in 0 .. LastStep
    /\ started \in 0 .. MaxRuns
    /\ \A r \in Callers :
          /\ run[r].pc \in {"idle", "asking", "called", "answered", "asleep"}
          /\ run[r].pc = "asking" <=> ask[r].pc # "idle"
          /\ run[r].ops \in Seq(Ops)
          /\ run[r].on \in Seq(1 .. Len(consent))
          /\ run[r].own \subseteq 1 .. Len(consent)

\* What is shown as running is an operation that still is in flight, and the walkthrough
\* is shown as running exactly while one is.  Whatever fails, no button stays disabled.
NothingLeftRunning ==
    /\ busy # "none" =>
          \E r \in Callers :
             /\ run[r].pc \in {"asking", "called", "answered"}
             /\ busy = Label(Op(r), run[r].call)
    /\ guided.running <=> Walking # {}
    /\ guided.running <=> guided.status = "running"
    /\ Cardinality(Walking) <= 1

\* The walkthrough has passed a step only when what the step is to show was done, unless
\* the checklist was reset since: neither errors nor reloads nor resumptions skip one.
StepsDoneAreCovered ==
    \A k \in resetAt .. guided.step - 1 :
        GuidedBoxes[k + 1] # "none" => GuidedBoxes[k + 1] \in covered

\* A box is ticked only when the services have done its deed, and every step done has its
\* box ticked.  A nominee's approval may have been somebody else's when sessions of
\* several users mix; a renewal need not have been of the consent that had expired.
CoverageTellsTruth ==
    /\ StepsDoneAreCovered
    /\ covered \ {"expiredThenRenew"} \subseteq
           facts \cup IF mixed THEN {"nomineeApproval"} ELSE {}

\* A row or walkthrough that has requested a consent decides on that one, and verifies
\* the assertion it has had approved, as the pages say: "Runs issue -> request -> approve
\* -> verify".  It does neither (run console_scenario): it keeps the rendering it was
\* started in, and what that shows as consent and assertion is older.
GoesOnWithItsConsent ==
    \A r \in InFlight :
        run[r].pc = "called" /\ run[r].own # {} /\ ~Given(run[r]) =>
            /\ Call(r) \in {"approve", "reject"} => Target(run[r]) \in run[r].own
            /\ Call(r) = "verify" => Verified(run[r]).assertion \in run[r].own

=============================================================================
