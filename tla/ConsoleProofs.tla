---------------------------- MODULE ConsoleProofs ----------------------------
(***************************************************************************)
(* Theorems about Console and the WebSession under it, for any number of   *)
(* rows in flight and any rows the pages start.                            *)
(*                                                                         *)
(* What an operation knows at each of its calls is said of its record and  *)
(* of what only grows: consents are made and decided on, tokens are made,  *)
(* deeds are done.  So what comes between two of its calls does not matter *)
(* (RunOK, RunGrows), and what it does next is one of few outcomes         *)
(* (Outcome), whichever operation it is.                                   *)
(***************************************************************************)
EXTENDS Console, FiniteSetTheorems, SequenceTheorems, TLAPS

-----------------------------------------------------------------------------
(* What is so of what is shown, of a row in flight, of its operation       *)

Shows == [token: Nat, consent: Nat, assertion: Nat, expired: BOOLEAN]

Renderings == [shown: Shows, owner: BOOLEAN, nominee: BOOLEAN, fi: BOOLEAN, auth: BOOLEAN]

AtWork == {"asking", "called", "answered"}

Runs ==
    [pc: AtWork \cup {"idle", "asleep"}, ops: Seq(Ops), at: Nat, call: Nat, guided: BOOLEAN,
     step: Nat, saw: Renderings, on: Seq(Nat), user: Users \cup {NoUser}, got: Nat, code: Codes,
     own: SUBSET Nat]

Walks ==
    [step: Nat, running: BOOLEAN, status: {"idle", "running", "paused", "error", "done"},
     blocked: BOOLEAN, waitsFor: Users \cup {NoUser}]

ConsentRows ==
    [status: {"PENDING", "APPROVED", "REJECTED", "REVOKED", "EXPIRED"}, token: Nat,
     by: Users \cup {NoUser}]

\* What is shown is there.
ShownOK(s, cs, m) ==
    /\ s.token \in 0 .. m
    /\ s.consent \in 0 .. Len(cs)
    /\ s.assertion \in 0 .. Len(cs)

\* Consents are given to rows that decide on them or made by the reuse check, which is
\* a row of its own.
RowOK(ops, on) ==
    /\ ops \in Seq(Ops)
    /\ Len(ops) >= 1
    /\ \A i \in 1 .. Len(ops) : ops[i] = "reuse" => Len(ops) = 1
    /\ on # <<>> => \A i \in 1 .. Len(ops) :
                        ops[i] \in {"approve", "reject", "revoke", "list", "reuse"}

OpOf(R) == R.ops[R.at]

\* Whether the n-th call of R's operation is answered.
Past(R, n) == R.call > n \/ (R.call = n /\ R.pc = "answered")

\* What the calls of an operation that are answered have done.
DeedsOK(R, cs, m, fs, mx) ==
    /\ OpOf(R) = "issue" /\ Past(R, 1) => "issueToken" \in fs /\ R.got \in 1 .. m
    /\ OpOf(R) = "request" /\ Past(R, 1) => "requestConsent" \in fs /\ R.got \in 1 .. Len(cs)
    /\ OpOf(R) \in {"approve", "nominee"} /\ Past(R, 1) =>
          /\ "walletApprove" \in fs
          /\ R.got \in 1 .. Len(cs)
          /\ OpOf(R) = "nominee" => "nomineeApproval" \in fs \/ mx
    /\ OpOf(R) = "nominee" /\ R.call = 1 /\ R.pc = "called" => R.user \in {Nominee, NoUser} \/ mx
    /\ OpOf(R) = "verify" /\ Past(R, 1) /\ R.code = "OK" => "fiVerifySuccess" \in fs
    /\ OpOf(R) \in {"failNotActive", "failRejected", "failExpired"} /\ Past(R, 1)
          /\ R.code = Expected(OpOf(R)) => Box(R.code) \in fs \cup {"expired"}
    /\ OpOf(R) = "revokeToken" /\ Past(R, 1) => "revokeToken" \in fs
    /\ OpOf(R) = "renew" /\ Past(R, 1) => R.got \in 1 .. Len(cs)
    /\ OpOf(R) = "reuse" =>
          /\ R.call = 1 /\ Past(R, 1) => R.got \in 1 .. Len(cs)
          /\ R.call > 1 => R.on # <<>>
          /\ Past(R, 3) /\ R.code = "OK" => "crossReuse" \in fs
    /\ OpOf(R) = "ckyc" =>
          /\ R.call = 2 /\ Past(R, 2) /\ R.got # 0 => R.got \in 1 .. m /\ "ckycSupersede" \in fs
          /\ R.call > 2 => "ckycSupersede" \in fs
    /\ OpOf(R) = "review" /\ Past(R, 1) => "periodicReview" \in fs

\* What a row is about, wherever it is: what it keeps was there when it began.
KeepsOK(R, cs, m) ==
    /\ R \in Runs
    /\ ShownOK(R.saw.shown, cs, m)
    /\ \A i \in 1 .. Len(R.on) : R.on[i] \in 1 .. Len(cs)
    /\ R.own \subseteq 1 .. Len(cs)

\* A row at an operation; one of the walkthrough is at its step.
PlaceOK(R) ==
    /\ RowOK(R.ops, R.on)
    /\ R.at \in 1 .. Len(R.ops)
    /\ R.call \in 1 .. Len(Calls[OpOf(R)])
    /\ R.guided => R.step \in 0 .. LastStep - 1 /\ R.ops = GuidedSteps[R.step + 1]
    /\ Ready(R, OpOf(R))

RunOK(R, cs, m, fs, mx) ==
    /\ KeepsOK(R, cs, m)
    /\ R.pc = "idle" => R = Idle
    /\ R.pc = "asleep" => R.guided /\ R.step \in 1 .. LastStep
    /\ R.pc \in AtWork => PlaceOK(R) /\ DeedsOK(R, cs, m, fs, mx)

-----------------------------------------------------------------------------
(* The invariants                                                          *)

\* A refresh in flight is for who signed in last, unless a login or logout came between.
SessionInv ==
    /\ SessionTypeOK
    /\ SessionIsLastLogin
    /\ \A c \in Callers :
          /\ ask[c].pc = "refreshing" =>
                ask[c].user = lastLogin[ask[c].portal] \/ crossed[ask[c].portal]
          /\ ask[c].pc = "idle" => ask[c] = NotAsking

\* The newest of any first tokens that are ACTIVE is one of them.
NewestInv ==
    \A k \in 0 .. made : (\E t \in active : t <= k) =>
        \E t \in active : t <= k /\ \A u \in active : u <= k => u <= t

ServicesInv ==
    /\ made \in 0 .. MaxTokens
    /\ active \subseteq 1 .. made
    /\ NewestInv
    /\ consent \in Seq(ConsentRows)
    /\ Len(consent) <= MaxConsents
    /\ \A c \in 1 .. Len(consent) : consent[c].token \in 1 .. made
    /\ accepted \subseteq 1 .. Len(consent)
    /\ nominee \in NomineeStates
    /\ ahead \in BOOLEAN /\ mixed \in BOOLEAN
    /\ facts \subseteq Boxes
    /\ started \in 0 .. MaxRuns

\* A row asks for the token of the portal its call is for.
RunsInv ==
    /\ run \in [Callers -> Runs]
    /\ \A r \in Callers :
          /\ RunOK(run[r], consent, made, facts, mixed)
          /\ run[r].pc = "asking" <=> ask[r].pc # "idle"
          /\ run[r].pc = "asking" => ask[r].portal = Calls[Op(r)][run[r].call][1]

\* b is what somebody other than r shows as running, or nothing.
OthersBusy(r, b) ==
    b # "none" => /\ b \notin Unlabelled
                  /\ \E q \in Callers \ {r} :
                        run[q].pc \in AtWork /\ b = Label(Op(q), run[q].call)

BusyInv ==
    busy # "none" => /\ busy \notin Unlabelled
                     /\ \E r \in Callers : run[r].pc \in AtWork /\ busy = Label(Op(r), run[r].call)

\* The walkthrough's place is that of the one who walks; where it stopped, or waits, it
\* can be resumed.
Resting ==
    /\ guided \in Walks
    /\ ~guided.running /\ guided.status # "running"
    /\ guided.blocked \/ guided.status = "paused" => guided.step < LastStep

GuidedInv ==
    /\ guided.step \in 0 .. LastStep
    /\ \A q, r \in Callers : run[q].guided /\ run[r].guided => q = r
    /\ \A r \in Callers : run[r].guided => guided = Going(run[r].step)
    /\ (\A r \in Callers : ~run[r].guided) => Resting

CoverInv ==
    /\ ShownOK(shown, consent, made) /\ shown \in Shows
    /\ covered \subseteq Boxes
    /\ resetAt \in 0 .. LastStep
    /\ CoverageTellsTruth

\* Unless mixed, what is in flight has one user of the wallet, the nominee for what began
\* when he was shown.
WalletUsers ==
    {direct["wallet"].user, sso["wallet"]}
        \cup {ask[c].user : c \in {d \in Callers : ask[d].portal = "wallet"}}

OneUserInv ==
    mixed \/ \E u \in Users :
        /\ InFlight # {} => WalletUsers \subseteq {u, NoUser}
        /\ \A r \in InFlight : run[r].saw.nominee => u = Nominee

ConsoleInv ==
    /\ SessionInv
    /\ ServicesInv
    /\ RunsInv
    /\ BusyInv
    /\ GuidedInv
    /\ CoverInv
    /\ OneUserInv


-----------------------------------------------------------------------------
(* The tables: calls, rows, steps of the walkthrough                       *)

\* The calls of each operation.
LEMMA CallsAre ==
    /\ Calls["issue"] = << <<"wallet", "issue">>, <<"wallet", "evidence">> >>
    /\ Calls["request"] = << <<"fi", "request">> >>
    /\ \A op \in {"approve", "nominee"} :
          Calls[op] = << <<"wallet", "approve">>, <<"wallet", "settle">> >>
    /\ Calls["reject"] = << <<"wallet", "reject">>, <<"wallet", "settle">> >>
    /\ Calls["revoke"] = << <<"wallet", "revoke">>, <<"wallet", "settle">> >>
    /\ Calls["verify"] = << <<"fi", "verify">>, <<"wallet", "evidence">> >>
    /\ \A op \in {"failNotActive", "failRejected", "failExpired"} :
          Calls[op] = << <<"fi", "verify">> >>
    /\ Calls["revokeToken"] = << <<"wallet", "revokeToken">>, <<"wallet", "evidence">> >>
    /\ Calls["renew"] = << <<"fi", "renew">> >>
    /\ Calls["reuse"] = << <<"fi", "request">>, <<"wallet", "approve">>, <<"none", "verify">> >>
    /\ \A op \in {"delegate", "undelegate", "saveNominee"} :
          Calls[op] = << <<"wallet", op>>, <<"none", "list">> >>
    /\ \A op \in {"enable", "disable"} :
          Calls[op] = << <<"wallet", op>>, <<"none", "list">>, <<"none", "list">> >>
    /\ \A op \in {"list", "tokens", "reviewStatus", "delegations", "nominees"} :
          Calls[op] = << <<"wallet", "list">> >>
    /\ \A op \in {"due", "jobs", "health"} : Calls[op] = << <<"none", "list">> >>
    /\ Calls["coverage"] = << <<"fi", "refresh">>, <<"wallet", "refresh">> >>
    /\ Calls["binding"] = << <<"fi", "binding">> >>
    /\ Calls["onboard"] = << <<"fi", "onboard">>, <<"fi", "precheck">> >>
    /\ Calls["precheck"] = << <<"fi", "precheck">> >>
    /\ Calls["simulateDemo"] =
          << <<"none", "simulateDemo">>, <<"wallet", "refresh">>, <<"fi", "refresh">> >>
    /\ Calls["lifecycle"] = << <<"none", "lifecycle">>, <<"none", "list">> >>
    /\ Calls["ckyc"] = << <<"none", "simulate">>, <<"wallet", "sync">>, <<"wallet", "evidence">> >>
    /\ Calls["review"] = << <<"none", "review">> >>
<1> USE DEF Calls, Ops, Evidence, Settle
<1>1. /\ Calls["issue"] = << <<"wallet", "issue">>, <<"wallet", "evidence">> >>
      /\ Calls["request"] = << <<"fi", "request">> >>
      /\ \A op \in {"approve", "nominee"} :
            Calls[op] = << <<"wallet", "approve">>, <<"wallet", "settle">> >>
      /\ Calls["reject"] = << <<"wallet", "reject">>, <<"wallet", "settle">> >>
      /\ Calls["revoke"] = << <<"wallet", "revoke">>, <<"wallet", "settle">> >>
      /\ Calls["verify"] = << <<"fi", "verify">>, <<"wallet", "evidence">> >>
  OBVIOUS
<1>2. /\ \A op \in {"failNotActive", "failRejected", "failExpired"} :
            Calls[op] = << <<"fi", "verify">> >>
      /\ Calls["revokeToken"] = << <<"wallet", "revokeToken">>, <<"wallet", "evidence">> >>
      /\ Calls["renew"] = << <<"fi", "renew">> >>
      /\ Calls["reuse"] = << <<"fi", "request">>, <<"wallet", "approve">>, <<"none", "verify">> >>
  OBVIOUS
<1>3. /\ \A op \in {"delegate", "undelegate", "saveNominee"} :
            Calls[op] = << <<"wallet", op>>, <<"none", "list">> >>
      /\ \A op \in {"enable", "disable"} :
            Calls[op] = << <<"wallet", op>>, <<"none", "list">>, <<"none", "list">> >>
      /\ \A op \in {"list", "tokens", "reviewStatus", "delegations", "nominees"} :
            Calls[op] = << <<"wallet", "list">> >>
      /\ \A op \in {"due", "jobs", "health"} : Calls[op] = << <<"none", "list">> >>
  OBVIOUS
<1>4. /\ Calls["coverage"] = << <<"fi", "refresh">>, <<"wallet", "refresh">> >>
      /\ Calls["binding"] = << <<"fi", "binding">> >>
      /\ Calls["onboard"] = << <<"fi", "onboard">>, <<"fi", "precheck">> >>
      /\ Calls["precheck"] = << <<"fi", "precheck">> >>
      /\ Calls["simulateDemo"] =
            << <<"none", "simulateDemo">>, <<"wallet", "refresh">>, <<"fi", "refresh">> >>
  OBVIOUS
<1>5. /\ Calls["lifecycle"] = << <<"none", "lifecycle">>, <<"none", "list">> >>
      /\ Calls["ckyc"] =
            << <<"none", "simulate">>, <<"wallet", "sync">>, <<"wallet", "evidence">> >>
      /\ Calls["review"] = << <<"none", "review">> >>
  OBVIOUS
<1> QED
  BY <1>1, <1>2, <1>3, <1>4, <1>5

\* The operations that do something the checklist tells of, or make something.
Telling ==
    {"issue", "request", "approve", "nominee", "verify", "failNotActive", "failRejected",
     "failExpired", "revokeToken", "renew", "reuse", "ckyc", "review"}

\* Which calls are whose.
LEMMA CallIs ==
    ASSUME NEW op \in Ops, NEW n \in 1 .. Len(Calls[op]), NEW call, call = Calls[op][n][2]
    PROVE  /\ Len(Calls[op]) \in 1 .. 3
           /\ Calls[op][n][1] \in Portals \cup {"none"}
           /\ op = "nominee" /\ n = 1 => Calls[op][n][1] = "wallet"
           /\ call \in {"issue", "reject", "revoke", "revokeToken", "renew", "review"}
                => op = call /\ n = 1
           /\ call = "request" => op \in {"request", "reuse"} /\ n = 1
           /\ call = "approve" => \/ op \in {"approve", "nominee"} /\ n = 1
                                  \/ op = "reuse" /\ n = 2
           /\ call = "verify" =>
                 \/ n = 1 /\ op \in {"verify", "failNotActive", "failRejected", "failExpired"}
                 \/ n = 3 /\ op = "reuse"
           /\ call = "simulate" => op = "ckyc" /\ n = 1
           /\ call = "onboard" => op = "onboard" /\ n = 1
           /\ call = "sync" => op = "ckyc" /\ n = 2
           /\ call \in {"saveNominee", "enable", "disable", "delegate", "undelegate", "onboard",
                        "simulateDemo", "lifecycle"} => op \notin Telling
           /\ call \in Fetches =>
                 \/ op \notin Telling
                 \/ n = 2 /\ op \in {"issue", "approve", "nominee", "verify", "revokeToken"}
                 \/ n = 3 /\ op = "ckyc"
           /\ call \in MayFail => op \notin Telling \/ (n = 2 /\ op \in {"approve", "nominee"})
<1> USE DEF Portals, Telling, Fetches, MayFail
<1>1. CASE op = "issue"
  <2>1. Calls[op] = << <<"wallet", "issue">>, <<"wallet", "evidence">> >>
    BY <1>1, CallsAre
  <2>2. n \in 1 .. 2 /\ Len(Calls[op]) = 2
    BY <2>1
  <2> QED
    BY <1>1, <2>1, <2>2
<1>2. CASE op = "request"
  <2>1. Calls[op] = << <<"fi", "request">> >>
    BY <1>2, CallsAre
  <2>2. n \in 1 .. 1 /\ Len(Calls[op]) = 1
    BY <2>1
  <2> QED
    BY <1>2, <2>1, <2>2
<1>3. CASE op \in {"approve", "nominee"}
  <2>1. Calls[op] = << <<"wallet", "approve">>, <<"wallet", "settle">> >>
    BY <1>3, CallsAre
  <2>2. n \in 1 .. 2 /\ Len(Calls[op]) = 2
    BY <2>1
  <2> QED
    BY <1>3, <2>1, <2>2
<1>4. CASE op = "reject"
  <2>1. Calls[op] = << <<"wallet", "reject">>, <<"wallet", "settle">> >>
    BY <1>4, CallsAre
  <2>2. n \in 1 .. 2 /\ Len(Calls[op]) = 2
    BY <2>1
  <2> QED
    BY <1>4, <2>1, <2>2
<1>5. CASE op = "revoke"
  <2>1. Calls[op] = << <<"wallet", "revoke">>, <<"wallet", "settle">> >>
    BY <1>5, CallsAre
  <2>2. n \in 1 .. 2 /\ Len(Calls[op]) = 2
    BY <2>1
  <2> QED
    BY <1>5, <2>1, <2>2
<1>6. CASE op = "verify"
  <2>1. Calls[op] = << <<"fi", "verify">>, <<"wallet", "evidence">> >>
    BY <1>6, CallsAre
  <2>2. n \in 1 .. 2 /\ Len(Calls[op]) = 2
    BY <2>1
  <2> QED
    BY <1>6, <2>1, <2>2
<1>7. CASE op \in {"failNotActive", "failRejected", "failExpired"}
  <2>1. Calls[op] = << <<"fi", "verify">> >>
    BY <1>7, CallsAre
  <2>2. n \in 1 .. 1 /\ Len(Calls[op]) = 1
    BY <2>1
  <2> QED
    BY <1>7, <2>1, <2>2
<1>8. CASE op = "revokeToken"
  <2>1. Calls[op] = << <<"wallet", "revokeToken">>, <<"wallet", "evidence">> >>
    BY <1>8, CallsAre
  <2>2. n \in 1 .. 2 /\ Len(Calls[op]) = 2
    BY <2>1
  <2> QED
    BY <1>8, <2>1, <2>2
<1>9. CASE op = "renew"
  <2>1. Calls[op] = << <<"fi", "renew">> >>
    BY <1>9, CallsAre
  <2>2. n \in 1 .. 1 /\ Len(Calls[op]) = 1
    BY <2>1
  <2> QED
    BY <1>9, <2>1, <2>2
<1>10. CASE op = "reuse"
  <2>1. Calls[op] = << <<"fi", "request">>, <<"wallet", "approve">>, <<"none", "verify">> >>
    BY <1>10, CallsAre
  <2>2. n \in 1 .. 3 /\ Len(Calls[op]) = 3
    BY <2>1
  <2> QED
    BY <1>10, <2>1, <2>2
<1>11. CASE op \in {"delegate", "undelegate", "saveNominee"}
  <2>1. Calls[op] = << <<"wallet", op>>, <<"none", "list">> >>
    BY <1>11, CallsAre
  <2>2. n \in 1 .. 2 /\ Len(Calls[op]) = 2
    BY <2>1
  <2> QED
    BY <1>11, <2>1, <2>2
<1>12. CASE op \in {"enable", "disable"}
  <2>1. Calls[op] = << <<"wallet", op>>, <<"none", "list">>, <<"none", "list">> >>
    BY <1>12, CallsAre
  <2>2. n \in 1 .. 3 /\ Len(Calls[op]) = 3
    BY <2>1
  <2> QED
    BY <1>12, <2>1, <2>2
<1>13. CASE op \in {"list", "tokens", "reviewStatus", "delegations", "nominees"}
  <2>1. Calls[op] = << <<"wallet", "list">> >>
    BY <1>13, CallsAre
  <2>2. n \in 1 .. 1 /\ Len(Calls[op]) = 1
    BY <2>1
  <2> QED
    BY <1>13, <2>1, <2>2
<1>14. CASE op \in {"due", "jobs", "health"}
  <2>1. Calls[op] = << <<"none", "list">> >>
    BY <1>14, CallsAre
  <2>2. n \in 1 .. 1 /\ Len(Calls[op]) = 1
    BY <2>1
  <2> QED
    BY <1>14, <2>1, <2>2
<1>15. CASE op = "coverage"
  <2>1. Calls[op] = << <<"fi", "refresh">>, <<"wallet", "refresh">> >>
    BY <1>15, CallsAre
  <2>2. n \in 1 .. 2 /\ Len(Calls[op]) = 2
    BY <2>1
  <2> QED
    BY <1>15, <2>1, <2>2
<1>16. CASE op = "binding"
  <2>1. Calls[op] = << <<"fi", "binding">> >>
    BY <1>16, CallsAre
  <2>2. n \in 1 .. 1 /\ Len(Calls[op]) = 1
    BY <2>1
  <2> QED
    BY <1>16, <2>1, <2>2
<1>17. CASE op = "onboard"
  <2>1. Calls[op] = << <<"fi", "onboard">>, <<"fi", "precheck">> >>
    BY <1>17, CallsAre
  <2>2. n \in 1 .. 2 /\ Len(Calls[op]) = 2
    BY <2>1
  <2> QED
    BY <1>17, <2>1, <2>2
<1>18. CASE op = "precheck"
  <2>1. Calls[op] = << <<"fi", "precheck">> >>
    BY <1>18, CallsAre
  <2>2. n \in 1 .. 1 /\ Len(Calls[op]) = 1
    BY <2>1
  <2> QED
    BY <1>18, <2>1, <2>2
<1>19. CASE op = "simulateDemo"
  <2>1. Calls[op] = << <<"none", "simulateDemo">>, <<"wallet", "refresh">>, <<"fi", "refresh">> >>
    BY <1>19, CallsAre
  <2>2. n \in 1 .. 3 /\ Len(Calls[op]) = 3
    BY <2>1
  <2> QED
    BY <1>19, <2>1, <2>2
<1>20. CASE op = "lifecycle"
  <2>1. Calls[op] = << <<"none", "lifecycle">>, <<"none", "list">> >>
    BY <1>20, CallsAre
  <2>2. n \in 1 .. 2 /\ Len(Calls[op]) = 2
    BY <2>1
  <2> QED
    BY <1>20, <2>1, <2>2
<1>21. CASE op = "ckyc"
  <2>1. Calls[op] = << <<"none", "simulate">>, <<"wallet", "sync">>, <<"wallet", "evidence">> >>
    BY <1>21, CallsAre
  <2>2. n \in 1 .. 3 /\ Len(Calls[op]) = 3
    BY <2>1
  <2> QED
    BY <1>21, <2>1, <2>2
<1>22. CASE op = "review"
  <2>1. Calls[op] = << <<"none", "review">> >>
    BY <1>22, CallsAre
  <2>2. n \in 1 .. 1 /\ Len(Calls[op]) = 1
    BY <2>1
  <2> QED
    BY <1>22, <2>1, <2>2
<1> QED
  BY <1>1, <1>2, <1>3, <1>4, <1>5, <1>6, <1>7, <1>8, <1>9, <1>10, <1>11, <1>12, <1>13, <1>14,
     <1>15, <1>16, <1>17, <1>18, <1>19, <1>20, <1>21, <1>22 DEF Ops

LEMMA CallsHaveLength ==
    ASSUME NEW op \in Ops
    PROVE  Len(Calls[op]) \in 1 .. 3
<1>1. CASE op \in {"request", "failNotActive", "failRejected", "failExpired", "renew", "binding",
                   "precheck", "review"}
  <2>1. \E a : Calls[op] = <<a>>
    BY <1>1, CallsAre
  <2> QED
    BY <2>1
<1>4. CASE op \in {"due", "jobs", "health", "list", "tokens", "reviewStatus", "delegations",
                   "nominees"}
  <2>1. \E a : Calls[op] = <<a>>
    BY <1>4, CallsAre
  <2> QED
    BY <2>1
<1>2. CASE op \in {"issue", "approve", "nominee", "reject", "revoke", "verify", "revokeToken",
                   "delegate", "undelegate", "saveNominee", "coverage", "onboard", "lifecycle"}
  <2>1. \E a, b : Calls[op] = <<a, b>>
    BY <1>2, CallsAre
  <2> QED
    BY <2>1
<1>3. CASE op \in {"reuse", "enable", "disable", "simulateDemo", "ckyc"}
  <2>1. \E a, b, c : Calls[op] = <<a, b, c>>
    BY <1>3, CallsAre
  <2> QED
    BY <2>1
<1> QED
  BY <1>1, <1>2, <1>3, <1>4 DEF Ops

LEMMA RowSizes ==
    /\ LastStep = 11
    /\ \A a \in Ops : \A n \in 1 .. Len(<<a>>) : <<a>>[n] = a
    /\ \A a \in Ops : Len(<<a>>) = 1
BY DEF LastStep, GuidedSteps

LEMMA OneIsRow ==
    ASSUME NEW a \in Ops, NEW on,
           on # <<>> => a \in {"approve", "reject", "revoke", "list", "reuse"}
    PROVE  RowOK(<<a>>, on)
BY DEF RowOK

LEMMA TwoAreRow ==
    ASSUME NEW a \in Ops \ {"reuse"}, NEW b \in Ops \ {"reuse"}, NEW on,
           on # <<>> => {a, b} \subseteq {"approve", "reject", "revoke", "list"}
    PROVE  RowOK(<<a, b>>, on)
BY DEF RowOK

LEMMA ThreeAreRow ==
    ASSUME NEW a \in Ops \ {"reuse"}, NEW b \in Ops \ {"reuse"}, NEW c \in Ops \ {"reuse"}, NEW on,
           on # <<>> => {a, b, c} \subseteq {"approve", "reject", "revoke", "list"}
    PROVE  RowOK(<<a, b, c>>, on)
BY DEF RowOK

LEMMA SixAreRow ==
    ASSUME NEW a \in Ops \ {"reuse"}, NEW b \in Ops \ {"reuse"}, NEW c \in Ops \ {"reuse"},
           NEW d \in Ops \ {"reuse"}, NEW e \in Ops \ {"reuse"}, NEW f \in Ops \ {"reuse"}
    PROVE  RowOK(<<a, b, c, d, e, f>>, <<>>)
BY DEF RowOK

\* Rows that are given no consents.
LEMMA BareRows ==
    /\ \A a \in Ops : RowOK(<<a>>, <<>>)
    /\ \A a, b \in Ops \ {"reuse"} : RowOK(<<a, b>>, <<>>)
    /\ \A a, b, c \in Ops \ {"reuse"} : RowOK(<<a, b, c>>, <<>>)
<1>1. \A a \in Ops : RowOK(<<a>>, <<>>)
  BY OneIsRow
<1>2. \A a, b \in Ops \ {"reuse"} : RowOK(<<a, b>>, <<>>)
  BY TwoAreRow, Zenon
<1>3. \A a, b, c \in Ops \ {"reuse"} : RowOK(<<a, b, c>>, <<>>)
  BY ThreeAreRow, Zenon
<1> QED
  BY <1>1, <1>2, <1>3

\* What is started anywhere is a row.
LEMMA RowsAreRows ==
    ASSUME NEW ops \in Rows \cup PageRows
    PROVE  RowOK(ops, <<>>)
<1>1. \/ ops \in Scenarios \cup Flows \cup Steps \cup Workflows
      \/ ops \in CommandHome \cup AuditPage \cup FiForm \cup Pages
  BY ConsoleAssumption
<1>2. CASE ops \in Scenarios
  <2>1. \/ \E a, b, c, d, e, f \in Ops \ {"reuse"} : ops = <<a, b, c, d, e, f>>
        \/ \E a, b, c \in Ops \ {"reuse"} : ops = <<a, b, c>>
    BY <1>2 DEF Scenarios, Ops
  <2>2. CASE \E a, b, c \in Ops \ {"reuse"} : ops = <<a, b, c>>
    BY <2>2, BareRows
  <2>3. CASE \E a, b, c, d, e, f \in Ops \ {"reuse"} : ops = <<a, b, c, d, e, f>>
    <3>1. PICK a, b, c, d, e, f \in Ops \ {"reuse"} : ops = <<a, b, c, d, e, f>>
      BY <2>3
    <3>2. RowOK(<<a, b, c, d, e, f>>, <<>>)
      BY SixAreRow
    <3> QED
      BY <3>1, <3>2
  <2> QED
    BY <2>1, <2>2, <2>3
<1>3. CASE ops \in Flows
  <2>1. \/ \E a \in Ops : ops = <<a>>
        \/ \E a, b \in Ops \ {"reuse"} : ops = <<a, b>>
        \/ \E a, b, c \in Ops \ {"reuse"} : ops = <<a, b, c>>
    BY <1>3 DEF Flows, LifecyclePolish, Ops
  <2> QED
    BY <2>1, BareRows
<1>4. CASE ops \in Steps \cup Workflows
  <2>1. (\E a \in Ops : ops = <<a>>) \/ ops = <<"revokeToken", "failNotActive">>
    BY <1>4 DEF Steps, Workflows, Ops
  <2>2. RowOK(<<"revokeToken", "failNotActive">>, <<>>)
    BY TwoAreRow DEF Ops
  <2>3. \A a \in Ops : RowOK(<<a>>, <<>>)
    BY BareRows
  <2> QED
    BY <2>1, <2>2, <2>3
<1>5. CASE ops \in CommandHome \cup AuditPage \cup FiForm
  <2>1. \/ \E a \in Ops : ops = <<a>>
        \/ \E a, b \in Ops \ {"reuse"} : ops = <<a, b>>
    BY <1>5 DEF CommandHome, AuditPage, FiForm, Ops
  <2> QED
    BY <2>1, BareRows
<1>6. CASE ops \in IssuePage \cup CommandPage \cup HomePage \cup FiPages
  <2>1. \/ \E a \in Ops : ops = <<a>>
        \/ \E a, b \in Ops \ {"reuse"} : ops = <<a, b>>
    BY <1>6 DEF IssuePage, CommandPage, HomePage, FiPages, FiHomePage, FiConsolePage, Ops
  <2> QED
    BY <2>1, BareRows
<1>7. CASE ops \in NomineesPage \cup DelegationsPage
  <2>1. \E a, b \in Ops \ {"reuse"} : ops = <<a, b>>
    BY <1>7 DEF NomineesPage, DelegationsPage, Ops
  <2> QED
    BY <2>1, BareRows
<1> QED
  BY <1>1, <1>2, <1>3, <1>4, <1>5, <1>6, <1>7 DEF Pages, WalletPages

\* What the steps of the walkthrough end with; the box a step ticks is that of it.
Walked ==
    {"issue", "request", "approve", "verify", "revokeToken", "failNotActive", "ckyc", "review",
     "nominee"}

OwnBox(op) ==
    CASE op = "issue" -> "issueToken"
      [] op = "request" -> "requestConsent"
      [] op = "approve" -> "walletApprove"
      [] op = "verify" -> "fiVerifySuccess"
      [] op = "failNotActive" -> "postRevokeFail"
      [] op = "ckyc" -> "none"
      [] op = "review" -> "periodicReview"
      [] op = "nominee" -> "nomineeApproval"
      [] OTHER -> op

LEMMA StepsAreRows ==
    ASSUME NEW k \in 0 .. LastStep - 1
    PROVE  /\ GuidedBoxes[k + 1] \in Boxes \cup {"none"}
           /\ GuidedSteps[k + 1] = <<>> <=> k = 9
           /\ k = 9 => GuidedBoxes[k + 1] = "none"
           /\ GuidedSteps[k + 1] # <<>> =>
                 /\ RowOK(GuidedSteps[k + 1], <<>>)
                 /\ LET op == GuidedSteps[k + 1][Len(GuidedSteps[k + 1])]
                    IN  /\ op \in Walked
                        /\ GuidedBoxes[k + 1] = OwnBox(op)
<1>1. k \in 0 .. 10
  BY RowSizes
<1>2. /\ GuidedSteps[k + 1] = <<>> <=> k = 9
      /\ k = 8 => GuidedSteps[k + 1] = <<"delegate", "request">>
      /\ k \notin {8, 9} => \E op \in Ops \cap Walked : /\ GuidedSteps[k + 1] = <<op>>
                                                       /\ GuidedBoxes[k + 1] = OwnBox(op)
  <2>1. CASE k \in {8, 9}
    BY <2>1 DEF GuidedSteps
  <2>2. CASE k \in 0 .. 3
    BY <2>2 DEF GuidedSteps, GuidedBoxes, OwnBox, Ops, Walked
  <2>3. CASE k \in {4, 5, 6, 7, 10}
    BY <2>3 DEF GuidedSteps, GuidedBoxes, OwnBox, Ops, Walked
  <2> QED
    BY <1>1, <2>1, <2>2, <2>3
<1>3. /\ GuidedBoxes[k + 1] \in Boxes \cup {"none"}
      /\ k = 9 => GuidedBoxes[k + 1] = "none"
      /\ k = 8 => GuidedBoxes[k + 1] = OwnBox("request")
  BY <1>1 DEF GuidedBoxes, Boxes, OwnBox
<1>4. CASE k = 8
  <2> DEFINE row == <<"delegate", "request">>
  <2>1. RowOK(row, <<>>)
    BY BareRows DEF Ops
  <2>2. Len(row) = 2 /\ row[2] = "request" /\ row # <<>>
    OBVIOUS
  <2>3. GuidedSteps[k + 1] = row
    BY <1>2, <1>4
  <2> HIDE DEF row
  <2> QED
    BY <1>2, <1>3, <1>4, <2>1, <2>2, <2>3 DEF Walked
<1>5. CASE k = 9
  BY <1>2, <1>3, <1>5
<1>6. CASE k \notin {8, 9}
  <2>1. PICK op \in Ops \cap Walked : GuidedSteps[k + 1] = <<op>> /\ GuidedBoxes[k + 1] = OwnBox(op)
    BY <1>2, <1>6
  <2>2. RowOK(<<op>>, <<>>)
    BY BareRows
  <2>3. Len(<<op>>) = 1 /\ <<op>>[1] = op
    OBVIOUS
  <2> QED
    BY <1>2, <1>3, <1>6, <2>1, <2>2, <2>3
<1> QED
  BY <1>4, <1>5, <1>6

-----------------------------------------------------------------------------
(* Records: nothing in flight, what grows, what an operation begins with    *)

LEMMA IdleFacts ==
    /\ Idle \in Runs /\ Idle.pc = "idle" /\ ~Idle.guided /\ Idle.at = 1 /\ Idle.call = 1
    /\ Idle.step = 0 /\ Idle.saw = NoRendering /\ Idle.on = <<>> /\ Idle.own = {}
    /\ Idle.user = NoUser /\ Idle.got = 0 /\ Idle.code = "OK" /\ Idle.ops = <<>>
    /\ NothingShown \in Shows /\ NoRendering \in Renderings
    /\ NoRendering.shown = NothingShown
<1>1. /\ NothingShown \in Shows /\ NoRendering \in Renderings
      /\ NoRendering.shown = NothingShown
  BY DEF NothingShown, NoRendering, Shows, Renderings
<1>2. <<>> \in Seq(Ops) /\ <<>> \in Seq(Nat)
  OBVIOUS
<1> QED
  BY <1>1, <1>2 DEF Idle, Runs, Codes

LEMMA NothingShownOK ==
    ASSUME NEW cs \in Seq(ConsentRows), NEW m \in Nat
    PROVE  ShownOK(NothingShown, cs, m)
BY DEF NothingShown, ShownOK

LEMMA IdleOK ==
    ASSUME NEW cs \in Seq(ConsentRows), NEW m \in Nat, NEW fs, NEW mx
    PROVE  RunOK(Idle, cs, m, fs, mx)
BY IdleFacts, NothingShownOK DEF RunOK, KeepsOK, AtWork

\* Consents are made and decided on, tokens are made, deeds are done.
Grow ==
    /\ Len(consent) <= Len(consent')
    /\ made <= made'
    /\ facts \subseteq facts'
    /\ mixed => mixed'

LEMMA ShownStays ==
    ASSUME Grow, ServicesInv, ServicesInv', NEW s \in Shows, ShownOK(s, consent, made)
    PROVE  ShownOK(s, consent', made')
BY DEF ShownOK, Grow, ServicesInv, Shows

LEMMA DeedsStay ==
    ASSUME Grow, ServicesInv, ServicesInv', NEW R \in Runs,
           DeedsOK(R, consent, made, facts, mixed)
    PROVE  DeedsOK(R, consent', made', facts', mixed')
<1>1. /\ Len(consent) \in Nat /\ Len(consent') \in Nat /\ made \in Nat /\ made' \in Nat
      /\ R.got \in Nat
  BY DEF ServicesInv, Runs
<1>2. /\ 1 .. Len(consent) \subseteq 1 .. Len(consent')
      /\ 1 .. made \subseteq 1 .. made'
      /\ facts \subseteq facts'
      /\ mixed => mixed'
  BY <1>1 DEF Grow
<1> QED
  BY <1>2 DEF DeedsOK, Grow

LEMMA RunStays ==
    ASSUME Grow, ServicesInv, ServicesInv', NEW R, RunOK(R, consent, made, facts, mixed)
    PROVE  RunOK(R, consent', made', facts', mixed')
<1>1. R \in Runs /\ R.saw.shown \in Shows
  BY DEF RunOK, KeepsOK, Runs, Renderings
<1>2. ShownOK(R.saw.shown, consent', made')
  BY <1>1, ShownStays DEF RunOK, KeepsOK
<1>3. 1 .. Len(consent) \subseteq 1 .. Len(consent')
  BY DEF ServicesInv, Grow
<1>4. KeepsOK(R, consent', made')
  BY <1>1, <1>2, <1>3 DEF RunOK, KeepsOK
<1>5. R.pc \in AtWork => DeedsOK(R, consent', made', facts', mixed')
  BY <1>1, DeedsStay DEF RunOK
<1> QED
  BY <1>4, <1>5 DEF RunOK

\* Where R makes its n-th call, asking or called: nothing of it is answered.
LEMMA NothingPast ==
    ASSUME NEW R \in Runs, R.pc \in {"asking", "called"}, NEW n \in Nat, R.call <= n
    PROVE  ~Past(R, n)
BY DEF Past, Runs

\* rec is about to begin an operation.
BeginsOK(rec, cs, m) ==
    /\ KeepsOK(rec, cs, m)
    /\ RowOK(rec.ops, rec.on)
    /\ rec.at \in 1 .. Len(rec.ops)
    /\ rec.guided => rec.step \in 0 .. LastStep - 1 /\ rec.ops = GuidedSteps[rec.step + 1]

\* An operation at its first call.
LEMMA FirstCallOK ==
    ASSUME NEW cs \in Seq(ConsentRows), NEW m \in Nat, NEW fs, NEW mx,
           NEW rec, BeginsOK(rec, cs, m), Ready(rec, OpOf(rec)),
           NEW R \in Runs, R.pc \in {"asking", "called"},
           R.call = 1, R.user = NoUser,
           R.ops = rec.ops, R.at = rec.at, R.guided = rec.guided, R.step = rec.step,
           R.saw = rec.saw, R.on = rec.on, R.own = rec.own
    PROVE  RunOK(R, cs, m, fs, mx)
<1>1. KeepsOK(R, cs, m)
  BY DEF BeginsOK, KeepsOK
<1>2. OpOf(R) = OpOf(rec) /\ OpOf(R) \in Ops
  BY DEF BeginsOK, KeepsOK, Runs, OpOf, RowOK
<1>3. Len(Calls[OpOf(R)]) \in 1 .. 3
  BY <1>2, CallsHaveLength
<1>4. Ready(R, OpOf(R))
  BY <1>2 DEF Ready, Reads, Target, Given
<1>5. PlaceOK(R)
  <2>1. RowOK(R.ops, R.on) /\ R.at \in 1 .. Len(R.ops)
    BY DEF BeginsOK
  <2>2. R.call \in 1 .. Len(Calls[OpOf(R)])
    <3>1. PICK n \in 1 .. 3 : Len(Calls[OpOf(R)]) = n
      BY <1>3
    <3>2. 1 \in 1 .. n
      BY <3>1
    <3> QED
      BY <3>1, <3>2
  <2>3. R.guided => R.step \in 0 .. LastStep - 1 /\ R.ops = GuidedSteps[R.step + 1]
    BY DEF BeginsOK
  <2> QED
    BY <1>4, <2>1, <2>2, <2>3 DEF PlaceOK
<1>6. ~Past(R, 1) /\ ~Past(R, 2) /\ ~Past(R, 3)
  BY NothingPast
<1>7. DeedsOK(R, cs, m, fs, mx)
  BY <1>6 DEF DeedsOK
<1> QED
  BY <1>1, <1>5, <1>7 DEF RunOK, AtWork

-----------------------------------------------------------------------------
(* What follows an answer                                                  *)

\* The row of r is now R; it asks for the token of its call, or for none.
Moves(r, R) ==
    /\ run' = [run EXCEPT ![r] = R]
    /\ ask' = [ask EXCEPT ![r] = IF R.pc = "asking" THEN Ask(Calls[OpOf(R)][R.call][1])
                                 ELSE NotAsking]
    /\ R.pc = "asking" => Calls[OpOf(R)][R.call][1] \in Portals

\* What is shown as running is what R is at, or another's.
BusyAfter(r, R) ==
    \/ OthersBusy(r, busy')
    \/ R.pc \in AtWork /\ busy' = Label(OpOf(R), R.call) /\ busy' \notin Unlabelled

\* The walkthrough goes on where R is, or rests where rec was.
GuidedAfter(rec, R) ==
    IF rec.guided THEN \/ R.guided /\ guided' = Going(R.step)
                       \/ ~R.guided /\ Resting' /\ guided'.step = rec.step
    ELSE ~R.guided /\ guided' = guided

\* From rec, the row of r comes to R; the walkthrough is a step further only at the last.
Outcome(r, rec, R, last) ==
    /\ Moves(r, R)
    /\ BusyAfter(r, R)
    /\ GuidedAfter(rec, R)
    /\ RunOK(R, consent, made, facts, mixed')
    /\ R = Idle \/ R.saw = rec.saw
    /\ R.guided => R.step = rec.step \/ (last /\ R.step = rec.step + 1)

LEMMA GuidedStates ==
    ASSUME NEW k
    PROVE  /\ Going(k).step = k /\ Going(k).running /\ Going(k).status = "running"
           /\ Stopped(k).step = k /\ ~Stopped(k).running /\ Stopped(k).status = "error"
           /\ Stopped(k).blocked
           /\ Paused(k).step = k /\ ~Paused(k).running /\ Paused(k).status = "paused"
           /\ Paused(k).blocked
           /\ DefaultGuided.step = 0 /\ ~DefaultGuided.running /\ DefaultGuided.status = "idle"
           /\ ~DefaultGuided.blocked /\ DefaultGuided \in Walks
           /\ k \in Nat => Going(k) \in Walks /\ Stopped(k) \in Walks /\ Paused(k) \in Walks
<1>1. LoginFor(k) \in Users \cup {NoUser}
  BY DEF LoginFor, Users
<1> QED
  BY <1>1 DEF Going, Stopped, Paused, DefaultGuided, Walks

LEMMA ServicesTyped ==
    ASSUME ServicesInv
    PROVE  consent \in Seq(ConsentRows) /\ made \in Nat
BY DEF ServicesInv

LEMMA ThrowEnds ==
    ASSUME ServicesInv, NEW r \in Callers, NEW rec, NEW b, OthersBusy(r, b),
           rec.guided => rec.step \in 0 .. LastStep - 1,
           Throw(r, rec, b)
    PROVE  Outcome(r, rec, Idle, FALSE)
<1>1. Moves(r, Idle) /\ busy' = b
  BY IdleFacts DEF Throw, Moves
<1>2. GuidedAfter(rec, Idle)
  <2>1. rec.guided => rec.step \in Nat
    BY RowSizes
  <2> QED
    BY <2>1, RowSizes, IdleFacts, GuidedStates DEF Throw, GuidedAfter, Resting
<1>3. RunOK(Idle, consent, made, facts, mixed')
  BY IdleOK, ServicesTyped
<1> QED
  BY <1>1, <1>2, <1>3, IdleFacts DEF Outcome, BusyAfter

\* rec with its call asked for a token, or made.
AtCall(rec) == {[rec EXCEPT !.pc = "asking"], [rec EXCEPT !.pc = "called"]}

LEMMA AtCallFacts ==
    ASSUME NEW rec \in Runs, NEW R \in AtCall(rec)
    PROVE  /\ R \in Runs /\ R.pc \in {"asking", "called"}
           /\ R.ops = rec.ops /\ R.at = rec.at /\ R.call = rec.call /\ R.guided = rec.guided
           /\ R.step = rec.step /\ R.saw = rec.saw /\ R.on = rec.on /\ R.user = rec.user
           /\ R.got = rec.got /\ R.code = rec.code /\ R.own = rec.own
BY DEF AtCall, Runs, AtWork

LEMMA CallNextMoves ==
    ASSUME NEW r \in Callers, NEW rec \in Runs, CallNext(r, rec)
    PROVE  \E R \in AtCall(rec) : Moves(r, R)
<1> DEFINE next == Calls[rec.ops[rec.at]][rec.call]
           asking == [rec EXCEPT !.pc = "asking"]
           called == [rec EXCEPT !.pc = "called"]
<1>1. /\ asking.pc = "asking" /\ OpOf(asking) = rec.ops[rec.at] /\ asking.call = rec.call
      /\ called.pc = "called"
  BY DEF Runs, OpOf
<1>2. asking \in AtCall(rec) /\ called \in AtCall(rec)
  BY DEF AtCall
<1>3. CASE next[1] \in Portals /\ ~(next = Settle /\ Reads(rec).token = 0)
  <2>1. run' = [run EXCEPT ![r] = asking] /\ ask' = [ask EXCEPT ![r] = Ask(next[1])]
    BY <1>3 DEF CallNext
  <2> HIDE DEF asking
  <2>2. Moves(r, asking)
    BY <1>1, <1>3, <2>1 DEF Moves
  <2> QED
    BY <1>2, <2>2
<1>4. CASE ~(next[1] \in Portals /\ ~(next = Settle /\ Reads(rec).token = 0))
  <2>1. run' = [run EXCEPT ![r] = called] /\ ask' = [ask EXCEPT ![r] = NotAsking]
    BY <1>4 DEF CallNext
  <2> HIDE DEF called
  <2>2. Moves(r, called)
    BY <1>1, <2>1 DEF Moves
  <2> QED
    BY <1>2, <2>2
<1> QED
  BY <1>3, <1>4

LEMMA LabelsShown ==
    ASSUME NEW op, NEW n \in Nat
    PROVE  /\ op \notin Unlabelled => Label(op, n) \notin Unlabelled
           /\ Label(op, n + 1) # Label(op, n) => Label(op, n + 1) \notin Unlabelled
BY DEF Label, Unlabelled

LEMMA BeginOpBegins ==
    ASSUME ServicesInv, NEW r \in Callers, NEW rec, NEW b, OthersBusy(r, b),
           BeginsOK(rec, consent, made), BeginOp(r, rec, b)
    PROVE  \E R : Outcome(r, rec, R, FALSE)
<1> DEFINE op == rec.ops[rec.at]
           first == [rec EXCEPT !.call = 1, !.got = 0, !.user = NoUser, !.code = "OK"]
<1>1. rec \in Runs /\ (rec.guided => rec.step \in 0 .. LastStep - 1) /\ op = OpOf(rec)
  BY DEF BeginsOK, KeepsOK, OpOf
<1>2. CASE \/ ~Ready(rec, op)
           \/ op \in {"delegate", "undelegate"} /\ ~rec.saw.owner
  <2>1. Throw(r, rec, b) \/ Throw(r, rec, "none")
    BY <1>2 DEF BeginOp
  <2>2. OthersBusy(r, "none")
    BY DEF OthersBusy
  <2> QED
    BY <1>1, <2>1, <2>2, ThrowEnds
<1>3. CASE Ready(rec, op) /\ ~(op \in {"delegate", "undelegate"} /\ ~rec.saw.owner)
  <2>1. /\ CallNext(r, first)
        /\ busy' = IF op \in Unlabelled THEN b ELSE Label(op, 1)
        /\ guided' = IF rec.guided THEN Going(rec.step) ELSE guided
    BY <1>3 DEF BeginOp
  <2>2. /\ first \in Runs /\ first.call = 1 /\ first.user = NoUser
        /\ first.ops = rec.ops /\ first.at = rec.at /\ first.guided = rec.guided
        /\ first.step = rec.step /\ first.saw = rec.saw /\ first.on = rec.on
        /\ first.own = rec.own
    BY <1>1 DEF Runs, Codes
  <2> HIDE DEF first
  <2>3. PICK R \in AtCall(first) : Moves(r, R)
    BY <2>1, <2>2, CallNextMoves
  <2>4. /\ R \in Runs /\ R.pc \in {"asking", "called"} /\ R.call = 1 /\ R.user = NoUser
        /\ R.ops = rec.ops /\ R.at = rec.at /\ R.guided = rec.guided /\ R.step = rec.step
        /\ R.saw = rec.saw /\ R.on = rec.on /\ R.own = rec.own
    BY <2>2, <2>3, AtCallFacts
  <2>5. RunOK(R, consent, made, facts, mixed')
    BY <1>1, <1>3, <2>4, FirstCallOK, ServicesTyped
  <2>6. OpOf(R) = op
    BY <2>4 DEF OpOf
  <2>7. BusyAfter(r, R)
    BY <2>1, <2>4, <2>6, LabelsShown DEF BusyAfter, AtWork
  <2>8. GuidedAfter(rec, R)
    BY <2>1, <2>4 DEF GuidedAfter
  <2> QED
    BY <2>3, <2>4, <2>5, <2>7, <2>8 DEF Outcome
<1> QED
  BY <1>2, <1>3

LEMMA StepDoneSleeps ==
    ASSUME ServicesInv, NEW r \in Callers, NEW rec, NEW b, OthersBusy(r, b),
           KeepsOK(rec, consent, made), rec.guided, rec.step \in 0 .. LastStep - 1,
           StepDone(r, rec, b)
    PROVE  \E R : Outcome(r, rec, R, TRUE)
<1> DEFINE R == [Idle EXCEPT !.pc = "asleep", !.guided = TRUE, !.step = rec.step + 1,
                             !.saw = rec.saw, !.own = rec.own]
<1>1. rec.step + 1 \in 1 .. LastStep /\ rec.step + 1 \in Nat
  BY RowSizes
<1>2. rec.saw \in Renderings /\ rec.own \in SUBSET Nat
  BY DEF KeepsOK, Runs
<1>3. /\ R \in Runs /\ R.pc = "asleep" /\ R.guided /\ R.step = rec.step + 1
      /\ R.saw = rec.saw /\ R.own = rec.own /\ R.on = <<>>
  BY <1>1, <1>2, IdleFacts DEF Runs
<1>4. run' = [run EXCEPT ![r] = R] /\ ask' = [ask EXCEPT ![r] = NotAsking]
  BY DEF StepDone
<1>5. guided' = Going(rec.step + 1) /\ busy' = b
  BY DEF StepDone
<1> HIDE DEF R
<1>6. Moves(r, R)
  BY <1>3, <1>4 DEF Moves
<1>7. RunOK(R, consent, made, facts, mixed')
  BY <1>1, <1>3 DEF RunOK, KeepsOK, AtWork
<1>8. Outcome(r, rec, R, TRUE)
  BY <1>3, <1>5, <1>6, <1>7 DEF Outcome, BusyAfter, GuidedAfter
<1> QED
  BY <1>8

LEMMA OpDoneGoesOn ==
    ASSUME ServicesInv, NEW r \in Callers, NEW rec, OthersBusy(r, After(rec)),
           BeginsOK(rec, consent, made), OpDone(r, rec)
    PROVE  \E R : Outcome(r, rec, R, rec.at = Len(rec.ops))
<1>1. /\ rec \in Runs /\ rec.at \in 1 .. Len(rec.ops) /\ Len(rec.ops) \in Nat
      /\ KeepsOK(rec, consent, made)
  BY DEF BeginsOK, KeepsOK, Runs
<1>2. CASE rec.at < Len(rec.ops)
  <2> DEFINE rec2 == [rec EXCEPT !.at = @ + 1]
  <2>1. BeginOp(r, rec2, After(rec))
    BY <1>2 DEF OpDone
  <2>2. /\ rec2 \in Runs /\ rec2.at = rec.at + 1 /\ rec2.ops = rec.ops /\ rec2.on = rec.on
        /\ rec2.guided = rec.guided /\ rec2.step = rec.step /\ rec2.saw = rec.saw
        /\ rec2.own = rec.own
    <3>1. rec.at + 1 \in Nat
      BY <1>1
    <3> QED
      BY <1>1, <3>1 DEF Runs
  <2> HIDE DEF rec2
  <2>3. rec2.at \in 1 .. Len(rec2.ops)
    BY <1>1, <1>2, <2>2
  <2>4. BeginsOK(rec2, consent, made)
    BY <2>2, <2>3 DEF BeginsOK, KeepsOK
  <2>5. PICK R : Outcome(r, rec2, R, FALSE)
    BY <2>1, <2>4, BeginOpBegins
  <2>6. Outcome(r, rec, R, rec.at = Len(rec.ops))
    BY <2>2, <2>5 DEF Outcome, GuidedAfter
  <2> QED
    BY <2>6
<1>3. CASE rec.at >= Len(rec.ops) /\ rec.guided
  <2>1. StepDone(r, rec, After(rec)) /\ rec.step \in 0 .. LastStep - 1
    BY <1>1, <1>3 DEF OpDone, BeginsOK
  <2>2. PICK R : Outcome(r, rec, R, TRUE)
    BY <1>1, <1>3, <2>1, StepDoneSleeps
  <2>3. rec.at = Len(rec.ops)
    BY <1>1, <1>3
  <2>4. Outcome(r, rec, R, rec.at = Len(rec.ops))
    BY <2>2, <2>3 DEF Outcome
  <2> QED
    BY <2>4
<1>4. CASE rec.at >= Len(rec.ops) /\ ~rec.guided
  <2>1. /\ run' = [run EXCEPT ![r] = Idle] /\ ask' = [ask EXCEPT ![r] = NotAsking]
        /\ busy' = After(rec) /\ guided' = guided
    BY <1>1, <1>4 DEF OpDone
  <2>2. RunOK(Idle, consent, made, facts, mixed')
    BY IdleOK, ServicesTyped
  <2>3. Outcome(r, rec, Idle, rec.at = Len(rec.ops))
    BY <1>4, <2>1, <2>2, IdleFacts DEF Outcome, Moves, BusyAfter, GuidedAfter
  <2> QED
    BY <2>3
<1> QED
  BY <1>1, <1>2, <1>3, <1>4

\* What is shown as running after an operation of r is not r's.
LEMMA AfterIsOthers ==
    ASSUME BusyInv, NEW r \in Callers, NEW rec, rec.ops[rec.at] = Op(r)
    PROVE  OthersBusy(r, After(rec))
<1>1. CASE Op(r) \notin Unlabelled
  BY <1>1 DEF After, OthersBusy
<1>2. CASE Op(r) \in Unlabelled
  <2>1. After(rec) = busy
    BY <1>2 DEF After
  <2>2. Label(Op(r), run[r].call) \in Unlabelled
    BY <1>2 DEF Label, Unlabelled
  <2> QED
    BY <2>1, <2>2 DEF OthersBusy, BusyInv
<1> QED
  BY <1>1, <1>2

LEMMA BusyOfOthers ==
    ASSUME BusyInv, NEW r \in Callers, run[r].pc \notin AtWork
    PROVE  OthersBusy(r, busy)
BY DEF OthersBusy, BusyInv

LEMMA BusyStays ==
    ASSUME BusyInv, NEW r \in Callers, NEW R, R.pc \in AtWork,
           Label(OpOf(R), R.call) = Label(Op(r), run[r].call), busy' = busy
    PROVE  BusyAfter(r, R)
BY DEF BusyAfter, OthersBusy, BusyInv

LEMMA UntoldDeeds ==
    ASSUME NEW R, OpOf(R) \notin Telling, NEW cs, NEW m, NEW fs, NEW mx
    PROVE  DeedsOK(R, cs, m, fs, mx)
BY DEF DeedsOK, Telling

LEMMA CallsEnd ==
    /\ \A op \in {"issue", "approve", "nominee", "verify", "revokeToken"} : Len(Calls[op]) = 2
    /\ Len(Calls["ckyc"]) = 3
    /\ \A op \in {"failNotActive", "request", "review", "renew"} : Len(Calls[op]) = 1
    /\ Len(Calls["reuse"]) = 3
<1>1. \A op \in {"issue", "approve", "nominee", "verify", "revokeToken"} :
          \E a, b : Calls[op] = <<a, b>>
  BY CallsAre
<1>2. Calls["ckyc"] = << <<"none", "simulate">>, <<"wallet", "sync">>, <<"wallet", "evidence">> >>
  BY CallsAre
<1>5. Calls["reuse"] = << <<"fi", "request">>, <<"wallet", "approve">>, <<"none", "verify">> >>
  BY CallsAre
<1>3. \A op \in {"failNotActive", "request", "review", "renew"} : \E a : Calls[op] = <<a>>
  BY CallsAre
<1>4. /\ \A a : Len(<<a>>) = 1
      /\ \A a, b : Len(<<a, b>>) = 2
      /\ \A a, b, c : Len(<<a, b, c>>) = 3
  OBVIOUS
<1>6. Len(Calls["ckyc"]) = 3 /\ Len(Calls["reuse"]) = 3
  BY <1>2, <1>4, <1>5
<1> QED
  BY <1>1, <1>3, <1>4, <1>6, Zenon

\* The next call of an operation: what is done is done.
LEMMA NextCallDeeds ==
    ASSUME NEW rec \in Runs, NEW R \in Runs, NEW cs, NEW m, NEW fs, NEW mx,
           DeedsOK(rec, cs, m, fs, mx),
           OpOf(rec) \in Ops, rec.call \in 1 .. Len(Calls[OpOf(rec)]) - 1,
           rec.pc = "answered" \/ Calls[OpOf(rec)][rec.call][2] \in Fetches,
           OpOf(rec) = "reuse" => rec.on # <<>>,
           OpOf(rec) = "ckyc" /\ rec.call = 2 => rec.got # 0,
           R.pc \in {"asking", "called"}, R.call = rec.call + 1,
           R.ops = rec.ops, R.at = rec.at, R.saw = rec.saw, R.on = rec.on, R.user = rec.user,
           R.got = rec.got, R.code = rec.code
    PROVE  DeedsOK(R, cs, m, fs, mx)
<1>1. OpOf(R) = OpOf(rec) /\ rec.call \in Nat /\ Len(Calls[OpOf(rec)]) \in 1 .. 3
  BY CallsHaveLength DEF OpOf, Runs
<1>2. CASE Calls[OpOf(rec)][rec.call][2] \in Fetches
  <2>1. rec.call \in 1 .. Len(Calls[OpOf(rec)]) /\ rec.call < Len(Calls[OpOf(rec)])
    BY <1>1
  <2>2. \/ OpOf(rec) \notin Telling
        \/ rec.call = 2 /\ OpOf(rec) \in {"issue", "approve", "nominee", "verify", "revokeToken"}
        \/ rec.call = 3 /\ OpOf(rec) = "ckyc"
    BY <1>2, <2>1, CallIs
  <2>3. OpOf(R) \notin Telling
    <3>0. PICK len \in 1 .. 3 : len = Len(Calls[OpOf(rec)])
      BY <1>1
    <3>1. rec.call < len /\ rec.call \in Nat
      BY <1>1, <2>1, <3>0
    <3>2. len = 2 => rec.call # 2
      BY <3>1
    <3>3. len = 3 => rec.call # 3
      BY <3>1
    <3>4. OpOf(rec) \in {"issue", "approve", "nominee", "verify", "revokeToken"} => len = 2
      BY <3>0, CallsEnd
    <3>5. OpOf(rec) = "ckyc" => len = 3
      BY <3>0, CallsEnd
    <3> QED
      BY <1>1, <2>2, <3>2, <3>3, <3>4, <3>5
  <2> QED
    BY <2>3, UntoldDeeds
<1>3. CASE rec.pc = "answered"
  <2>1. \A n \in 1 .. 3 : Past(R, n) <=> Past(rec, n)
    BY <1>1, <1>3 DEF Past
  <2>2. /\ Past(R, 1) <=> Past(rec, 1)
        /\ Past(R, 3) => Past(rec, 3)
        /\ ~(R.call = 2 /\ Past(R, 2))
        /\ R.call > 2 => rec.call > 2 \/ (rec.call = 2 /\ Past(rec, 2))
        /\ R.call # 1
    BY <1>1, <1>3, <2>1 DEF Past
  <2>3. /\ OpOf(R) = "ckyc" =>
              /\ R.call = 2 /\ Past(R, 2) /\ R.got # 0 => R.got \in 1 .. m /\ "ckycSupersede" \in fs
              /\ R.call > 2 => "ckycSupersede" \in fs
        /\ OpOf(R) = "reuse" =>
              /\ R.call = 1 /\ Past(R, 1) => R.got \in 1 .. Len(cs)
              /\ R.call > 1 => R.on # <<>>
              /\ Past(R, 3) /\ R.code = "OK" => "crossReuse" \in fs
    BY <1>1, <2>2 DEF DeedsOK
  <2> QED
    BY <1>1, <2>2, <2>3 DEF DeedsOK
<1> QED
  BY <1>2, <1>3

\* rec is where r's row is.
AtRun(r, rec) ==
    /\ run[r].pc \in AtWork /\ rec.pc \in {"called", "answered"}
    /\ rec.ops = run[r].ops /\ rec.at = run[r].at /\ rec.call = run[r].call
    /\ rec.guided => guided = Going(rec.step)

\* rec moves on to its next call.
LEMMA NextCallGoes ==
    ASSUME ServicesInv, NEW r \in Callers, NEW rec,
           RunOK(rec, consent, made, facts, mixed'), AtRun(r, rec),
           rec.call \in 1 .. Len(Calls[OpOf(rec)]) - 1,
           NEW R \in Runs, R.pc \in {"asking", "called"}, R.call = rec.call + 1,
           R.ops = rec.ops, R.at = rec.at, R.guided = rec.guided, R.step = rec.step,
           R.saw = rec.saw, R.on = rec.on, R.own = rec.own,
           DeedsOK(R, consent, made, facts, mixed'),
           Moves(r, R), BusyAfter(r, R), guided' = guided
    PROVE  Outcome(r, rec, R, FALSE)
<1>1. rec.pc \in AtWork /\ R.pc \in AtWork /\ rec \in Runs
  BY DEF AtRun, AtWork, RunOK, KeepsOK
<1>2. KeepsOK(R, consent, made)
  BY DEF RunOK, KeepsOK
<1>3. OpOf(R) = OpOf(rec) /\ PlaceOK(rec)
  BY <1>1 DEF OpOf, RunOK
<1>4. Ready(R, OpOf(R))
  BY <1>3 DEF PlaceOK, Ready, Reads, Target, Given
<1>5. R.call \in 1 .. Len(Calls[OpOf(R)])
  <2>1. OpOf(rec) \in Ops
    BY <1>3 DEF PlaceOK, RowOK, OpOf
  <2>2. PICK n \in 1 .. 3 : n = Len(Calls[OpOf(rec)])
    BY <2>1, CallsHaveLength
  <2>3. rec.call + 1 \in 1 .. n
    BY <2>2
  <2> QED
    BY <1>3, <2>2, <2>3
<1>6. PlaceOK(R)
  BY <1>3, <1>4, <1>5 DEF PlaceOK
<1>7. RunOK(R, consent, made, facts, mixed')
  BY <1>1, <1>2, <1>6 DEF RunOK, AtWork
<1>8. GuidedAfter(rec, R)
  BY DEF GuidedAfter, AtRun
<1> QED
  BY <1>7, <1>8 DEF Outcome

LEMMA ProceedGoesOn ==
    ASSUME ServicesInv, BusyInv, NEW r \in Callers, NEW rec,
           RunOK(rec, consent, made, facts, mixed'), AtRun(r, rec),
           rec.pc = "answered" \/ Calls[OpOf(rec)][rec.call][2] \in Fetches,
           OpOf(rec) = "reuse" => rec.on # <<>>,
           OpOf(rec) = "ckyc" /\ rec.call = 2 => rec.got # 0,
           Proceed(r, rec)
    PROVE  \E R : Outcome(r, rec, R, rec.at = Len(rec.ops) /\ rec.call = Len(Calls[OpOf(rec)]))
<1>1. /\ rec \in Runs /\ rec.pc \in AtWork /\ PlaceOK(rec) /\ OpOf(rec) \in Ops
      /\ KeepsOK(rec, consent, made) /\ DeedsOK(rec, consent, made, facts, mixed')
  <2>1. rec.pc \in AtWork
    BY DEF AtRun, AtWork
  <2>2. /\ PlaceOK(rec) /\ KeepsOK(rec, consent, made)
        /\ DeedsOK(rec, consent, made, facts, mixed')
    BY <2>1 DEF RunOK
  <2>3. rec \in Runs
    BY <2>2 DEF KeepsOK
  <2>4. OpOf(rec) \in Ops
    BY <2>2 DEF PlaceOK, RowOK, OpOf
  <2> QED
    BY <2>1, <2>2, <2>3, <2>4
<1>2. OpOf(rec) = Op(r) /\ rec.ops[rec.at] = Op(r) /\ rec.call = run[r].call
  BY DEF AtRun, OpOf, Op
<1>3. PICK n \in 1 .. 3 : n = Len(Calls[OpOf(rec)])
  BY <1>1, CallsHaveLength
<1>4. rec.call \in 1 .. n
  BY <1>1, <1>3 DEF PlaceOK
<1>5. CASE rec.call = n
  <2>1. OpDone(r, rec)
    BY <1>3, <1>5 DEF Proceed, OpOf
  <2>2. OthersBusy(r, After(rec))
    BY <1>2, AfterIsOthers
  <2>3. BeginsOK(rec, consent, made)
    BY <1>1 DEF BeginsOK, PlaceOK
  <2>4. PICK R : Outcome(r, rec, R, rec.at = Len(rec.ops))
    BY <2>1, <2>2, <2>3, OpDoneGoesOn
  <2>5. Outcome(r, rec, R, rec.at = Len(rec.ops) /\ rec.call = Len(Calls[OpOf(rec)]))
    BY <1>3, <1>5, <2>4 DEF Outcome
  <2> QED
    BY <2>5
<1>6. CASE rec.call # n
  <2> DEFINE next == [rec EXCEPT !.call = @ + 1]
             label == Label(Op(r), rec.call + 1)
  <2>1. /\ CallNext(r, next)
        /\ busy' = IF Call(r) = "refresh" THEN "none"
                   ELSE IF label # Label(Op(r), rec.call) THEN label ELSE busy
        /\ guided' = guided
    BY <1>3, <1>6 DEF Proceed, OpOf
  <2>2. /\ next \in Runs /\ next.call = rec.call + 1 /\ next.ops = rec.ops /\ next.at = rec.at
        /\ next.guided = rec.guided /\ next.step = rec.step /\ next.saw = rec.saw
        /\ next.on = rec.on /\ next.user = rec.user /\ next.got = rec.got
        /\ next.code = rec.code /\ next.own = rec.own
    <3>1. rec.call + 1 \in Nat
      BY <1>4
    <3> QED
      BY <1>1, <3>1 DEF Runs
  <2> HIDE DEF next
  <2>3. PICK R \in AtCall(next) : Moves(r, R)
    BY <2>1, <2>2, CallNextMoves
  <2>4. /\ R \in Runs /\ R.pc \in {"asking", "called"} /\ R.call = rec.call + 1
        /\ R.ops = rec.ops /\ R.at = rec.at /\ R.guided = rec.guided /\ R.step = rec.step
        /\ R.saw = rec.saw /\ R.on = rec.on /\ R.user = rec.user /\ R.got = rec.got
        /\ R.code = rec.code /\ R.own = rec.own
    BY <2>2, <2>3, AtCallFacts
  <2>5. rec.call \in 1 .. Len(Calls[OpOf(rec)]) - 1
    <3>1. rec.call \in 1 .. n - 1
      BY <1>4, <1>6
    <3> QED
      BY <1>3, <3>1
  <2>6. DeedsOK(R, consent, made, facts, mixed')
    BY <1>1, <2>4, <2>5, NextCallDeeds
  <2>7. BusyAfter(r, R)
    <3>1. OpOf(R) = Op(r) /\ R.pc \in AtWork /\ rec.call \in Nat
      BY <1>2, <1>4, <2>4 DEF OpOf, AtWork
    <3>2. CASE busy' = "none"
      BY <3>2 DEF BusyAfter, OthersBusy
    <3>3. CASE busy' = label /\ label # Label(Op(r), rec.call)
      BY <2>4, <3>1, <3>3, LabelsShown DEF BusyAfter
    <3>4. CASE busy' = busy /\ label = Label(Op(r), rec.call)
      BY <1>2, <2>4, <3>1, <3>4, BusyStays
    <3> QED
      BY <2>1, <3>2, <3>3, <3>4
  <2>8. Outcome(r, rec, R, FALSE)
    BY <2>1, <2>3, <2>4, <2>5, <2>6, <2>7, NextCallGoes
  <2>9. Outcome(r, rec, R, rec.at = Len(rec.ops) /\ rec.call = Len(Calls[OpOf(rec)]))
    BY <2>8 DEF Outcome
  <2> QED
    BY <2>9
<1> QED
  BY <1>5, <1>6

\* The walkthrough's row of step k.
StepRow(k, saw, own) ==
    [Idle EXCEPT !.guided = TRUE, !.step = k, !.saw = saw, !.own = own,
                 !.ops = GuidedSteps[k + 1]]

LEMMA BeginStepBegins ==
    ASSUME ServicesInv, NEW r \in Callers, NEW k \in 0 .. LastStep - 1, NEW saw \in Renderings,
           ShownOK(saw.shown, consent, made),
           NEW own \in SUBSET (1 .. Len(consent)),
           NEW b, OthersBusy(r, b), BeginStep(r, k, saw, own, b)
    PROVE  /\ StepRow(k, saw, own).guided /\ StepRow(k, saw, own).step = k
           /\ StepRow(k, saw, own).saw = saw
           /\ \E R : Outcome(r, StepRow(k, saw, own), R, k = 9)
<1> DEFINE rec == StepRow(k, saw, own)
           waits == \/ k \in {2, 8} /\ ~(saw.auth /\ saw.owner)
                    \/ k = 9 /\ ~(saw.auth /\ saw.nominee)
<1>1. /\ k \in Nat /\ GuidedSteps[k + 1] \in Seq(Ops) /\ (GuidedSteps[k + 1] = <<>> <=> k = 9)
      /\ GuidedSteps[k + 1] # <<>> => RowOK(GuidedSteps[k + 1], <<>>)
  <2>1. GuidedSteps[k + 1] = <<>> => GuidedSteps[k + 1] \in Seq(Ops)
    OBVIOUS
  <2>2. /\ GuidedSteps[k + 1] = <<>> <=> k = 9
        /\ GuidedSteps[k + 1] # <<>> => RowOK(GuidedSteps[k + 1], <<>>)
    BY StepsAreRows
  <2>3. GuidedSteps[k + 1] # <<>> => GuidedSteps[k + 1] \in Seq(Ops)
    BY <2>2 DEF RowOK
  <2>4. k \in Nat
    BY RowSizes
  <2> QED
    BY <2>1, <2>2, <2>3, <2>4
<1>2. /\ rec \in Runs /\ rec.guided /\ rec.step = k /\ rec.saw = saw /\ rec.own = own
      /\ rec.ops = GuidedSteps[k + 1] /\ rec.on = <<>> /\ rec.at = 1
  <2>1. own \in SUBSET Nat
    OBVIOUS
  <2> QED
    BY <1>1, <2>1, IdleFacts DEF StepRow, Runs
<1>3. KeepsOK(rec, consent, made)
  BY <1>2 DEF KeepsOK
<1>4. CASE waits
  <2>1. /\ run' = [run EXCEPT ![r] = Idle] /\ ask' = [ask EXCEPT ![r] = NotAsking]
        /\ guided' = Paused(k) /\ busy' = b
    BY <1>4 DEF BeginStep
  <2>2. GuidedAfter(rec, Idle)
    BY <1>1, <1>2, <2>1, GuidedStates, IdleFacts, RowSizes DEF GuidedAfter, Resting
  <2>3. RunOK(Idle, consent, made, facts, mixed')
    BY IdleOK, ServicesTyped
  <2>4. Outcome(r, rec, Idle, k = 9)
    BY <2>1, <2>2, <2>3, IdleFacts DEF Outcome, Moves, BusyAfter
  <2> QED
    BY <1>2, <2>4
<1>5. CASE ~waits /\ k = 9
  <2>1. StepDone(r, rec, b)
    BY <1>1, <1>5, IdleFacts DEF BeginStep, StepRow
  <2>2. PICK R : Outcome(r, rec, R, TRUE)
    BY <1>2, <1>3, <2>1, StepDoneSleeps
  <2>3. Outcome(r, rec, R, k = 9)
    BY <1>5, <2>2 DEF Outcome
  <2> QED
    BY <1>2, <2>3
<1>6. CASE ~waits /\ k # 9
  <2>1. BeginOp(r, rec, b)
    BY <1>1, <1>2, <1>6 DEF BeginStep, StepRow
  <2>2. RowOK(rec.ops, rec.on) /\ 1 \in 1 .. Len(rec.ops)
    BY <1>1, <1>2, <1>6 DEF RowOK
  <2>3. BeginsOK(rec, consent, made)
    BY <1>2, <1>3, <2>2 DEF BeginsOK
  <2>4. PICK R : Outcome(r, rec, R, FALSE)
    BY <2>1, <2>3, BeginOpBegins
  <2>5. Outcome(r, rec, R, k = 9)
    BY <2>4 DEF Outcome
  <2> QED
    BY <1>2, <2>5
<1> QED
  BY <1>4, <1>5, <1>6

-----------------------------------------------------------------------------
(* The sessions                                                            *)

sessionFrame == <<session, leaving, lastLogin, crossed, budget>>

LEMMA AskFacts ==
    ASSUME SessionInv, NEW p \in Portals
    PROVE  /\ Ask(p) \in Askings /\ Ask(p).portal = p /\ Ask(p).pc # "idle"
           /\ Ask(p).pc \in {"refreshing", "granted"} => Ask(p).user # NoUser
           /\ Ask(p).pc = "refreshing" => Ask(p).user = lastLogin[p] \/ crossed[p]
           /\ Ask(p).user \in {direct[p].user, sso[p]}
           /\ AskSso(p) \in Askings /\ AskSso(p).portal = p
           /\ AskSso(p).pc \in {"refused", "sso"} /\ AskSso(p).user = sso[p]
<1>1. /\ direct[p] \in [user: Users \cup {NoUser}, fresh: BOOLEAN]
      /\ direct[p].user = NoUser => direct[p] = NoSession
      /\ sso[p] \in Users \cup {NoUser}
      /\ direct[p].user \in {NoUser, lastLogin[p]} \/ crossed[p]
  BY DEF SessionInv, SessionTypeOK, SessionIsLastLogin
<1>2. /\ AskSso(p) \in Askings /\ AskSso(p).portal = p /\ AskSso(p).user = sso[p]
      /\ AskSso(p).pc \in {"refused", "sso"}
  BY <1>1 DEF AskSso, NotAsking, Askings
<1>3. CASE direct[p] = NoSession
  BY <1>2, <1>3 DEF Ask
<1>4. CASE direct[p] # NoSession
  BY <1>1, <1>2, <1>4 DEF Ask, Askings
<1> QED
  BY <1>3, <1>4

LEMMA NotAskingFacts ==
    NotAsking \in Askings /\ NotAsking.pc = "idle" /\ NotAsking.user = NoUser
    /\ NotAsking.portal = "wallet"
BY DEF NotAsking, Askings, Portals

\* A request for a token that is as the invariant says, at portals p whose last login
\* is last[p].
AskOK(a, last, cross) ==
    /\ a \in Askings
    /\ a.pc \in {"refreshing", "granted"} => a.user # NoUser
    /\ a.pc = "refreshing" => a.user = last[a.portal] \/ cross[a.portal]
    /\ a.pc = "idle" => a = NotAsking

\* SessionInv, part by part.
SessionParts ==
    /\ direct \in [Portals -> [user: Users \cup {NoUser}, fresh: BOOLEAN]]
    /\ \A p \in Portals : /\ direct[p].user = NoUser => direct[p] = NoSession
                          /\ direct[p].user \in {NoUser, lastLogin[p]} \/ crossed[p]
    /\ realm \in Users \cup {NoUser}
    /\ sso \in [Portals -> Users \cup {NoUser}]
    /\ ask \in [Callers -> Askings]
    /\ \A c \in Callers : AskOK(ask[c], lastLogin, crossed)
    /\ leaving \in BOOLEAN
    /\ lastLogin \in [Portals -> Users \cup {NoUser}]
    /\ crossed \in [Portals -> BOOLEAN]
    /\ logins \in 0 .. MaxLogins /\ lapses \in 0 .. MaxLapses /\ leaves \in 0 .. MaxLeaves

LEMMA SessionByParts == SessionInv <=> SessionParts
BY Zenon DEF SessionInv, SessionParts, SessionTypeOK, SessionIsLastLogin, AskOK

LEMMA MovesKeepSession ==
    ASSUME SessionInv, NEW r \in Callers, NEW R, Moves(r, R), UNCHANGED sessionFrame
    PROVE  SessionInv'
<1>1. SessionParts
  BY SessionByParts
<1>2. \E a : AskOK(a, lastLogin, crossed) /\ ask' = [ask EXCEPT ![r] = a]
  <2>1. CASE R.pc = "asking"
    <3>1. PICK p \in Portals : p = Calls[OpOf(R)][R.call][1]
      BY <2>1 DEF Moves
    <3>2. ask' = [ask EXCEPT ![r] = Ask(p)]
      BY <2>1, <3>1 DEF Moves
    <3>3. AskOK(Ask(p), lastLogin, crossed)
      BY AskFacts DEF AskOK
    <3> QED
      BY <3>2, <3>3
  <2>2. CASE R.pc # "asking"
    <3>1. ask' = [ask EXCEPT ![r] = NotAsking]
      BY <2>2 DEF Moves
    <3> QED
      BY <3>1, NotAskingFacts DEF AskOK
  <2> QED
    BY <2>1, <2>2
<1>3. PICK a : AskOK(a, lastLogin, crossed) /\ ask' = [ask EXCEPT ![r] = a]
  BY <1>2
<1>4. /\ ask' \in [Callers -> Askings]
      /\ \A c \in Callers : AskOK(ask'[c], lastLogin', crossed')
  BY <1>1, <1>3 DEF SessionParts, AskOK, sessionFrame
<1>5. SessionParts'
  BY <1>1, <1>4 DEF SessionParts, sessionFrame, session, budget
<1> QED
  BY <1>5, SessionByParts, PTL

\* The steps of a request for a token: the session of its portal may become d, its own
\* record a, what the SSO client has found f.
LEMMA AskStepKeepsSession ==
    ASSUME SessionInv, NEW c \in Callers,
           RefreshSucceeds(c) \/ RefreshFails(c) \/ SsoGrants(c) \/ SsoRefuses(c)
    PROVE  SessionInv'
<1>1. SessionParts
  BY SessionByParts
<1> DEFINE p == ask[c].portal
<1>2. /\ ask[c] \in Askings /\ p \in Portals
      /\ AskOK(ask[c], lastLogin, crossed)
  BY <1>1 DEF SessionParts, Askings
<1>3. UNCHANGED <<leaving, lastLogin, crossed, budget, realm>>
  BY DEF RefreshSucceeds, RefreshFails, SsoGrants, SsoRefuses, session
<1>4. PICK a : AskOK(a, lastLogin, crossed) /\ ask' = [ask EXCEPT ![c] = a]
  <2>1. CASE RefreshSucceeds(c)
    <3> DEFINE a == [ask[c] EXCEPT !.pc = "granted"]
    <3>1. AskOK(a, lastLogin, crossed)
      BY <1>2, <2>1 DEF RefreshSucceeds, AskOK, Askings
    <3>2. ask' = [ask EXCEPT ![c] = a]
      BY <2>1 DEF RefreshSucceeds
    <3> QED
      BY <3>1, <3>2
  <2>2. CASE RefreshFails(c)
    <3>1. AskOK(AskSso(p), lastLogin, crossed)
      BY <1>2, AskFacts DEF AskOK
    <3> QED
      BY <2>2, <3>1 DEF RefreshFails
  <2>3. CASE SsoGrants(c)
    <3> DEFINE a == [ask[c] EXCEPT !.pc = "granted", !.user = sso[p]]
    <3>1. AskOK(a, lastLogin, crossed)
      BY <1>1, <1>2, <2>3 DEF SsoGrants, AskOK, Askings, SessionParts
    <3>2. ask' = [ask EXCEPT ![c] = a]
      BY <2>3 DEF SsoGrants
    <3> QED
      BY <3>1, <3>2
  <2>4. CASE SsoRefuses(c)
    <3> DEFINE a == [ask[c] EXCEPT !.pc = "refused", !.user = NoUser]
    <3>1. AskOK(a, lastLogin, crossed)
      BY <1>2, <2>4 DEF SsoRefuses, AskOK, Askings
    <3>2. ask' = [ask EXCEPT ![c] = a]
      BY <2>4 DEF SsoRefuses
    <3> QED
      BY <3>1, <3>2
  <2> QED
    BY <2>1, <2>2, <2>3, <2>4
<1>5. /\ ask' \in [Callers -> Askings]
      /\ \A d \in Callers : AskOK(ask'[d], lastLogin', crossed')
  BY <1>1, <1>3, <1>4 DEF SessionParts, AskOK
<1>6. /\ direct' \in [Portals -> [user: Users \cup {NoUser}, fresh: BOOLEAN]]
      /\ \A q \in Portals : /\ direct'[q].user = NoUser => direct'[q] = NoSession
                            /\ direct'[q].user \in {NoUser, lastLogin[q]} \/ crossed[q]
  <2>1. CASE RefreshSucceeds(c)
    <3> DEFINE s == NewSession(ask[c].user)
    <3>1. /\ s \in [user: Users \cup {NoUser}, fresh: BOOLEAN] /\ s.user # NoUser
          /\ s.user = lastLogin[p] \/ crossed[p]
      BY <1>2, <2>1 DEF RefreshSucceeds, NewSession, AskOK, Askings
    <3>2. direct' = [direct EXCEPT ![p] = s]
      BY <2>1 DEF RefreshSucceeds, SetSession
    <3> HIDE DEF s
    <3> QED
      BY <1>1, <1>2, <3>1, <3>2 DEF SessionParts
  <2>2. CASE RefreshFails(c)
    <3>1. /\ NoSession \in [user: Users \cup {NoUser}, fresh: BOOLEAN] /\ NoSession.user = NoUser
      BY DEF NoSession
    <3>2. direct' = [direct EXCEPT ![p] = NoSession]
      BY <2>2 DEF RefreshFails, SetSession
    <3> QED
      BY <1>1, <1>2, <3>1, <3>2 DEF SessionParts
  <2>3. CASE SsoGrants(c) \/ SsoRefuses(c)
    BY <1>1, <2>3 DEF SsoGrants, SsoRefuses, SessionParts, session
  <2> QED
    BY <2>1, <2>2, <2>3
<1>7. sso' \in [Portals -> Users \cup {NoUser}]
  BY <1>1, <1>2 DEF SessionParts, RefreshSucceeds, RefreshFails, SsoGrants, SsoRefuses, session
<1>8. SessionParts'
  BY <1>1, <1>3, <1>5, <1>6, <1>7 DEF SessionParts, budget
<1> QED
  BY <1>8, SessionByParts, PTL

LEMMA LapseKeepsSession ==
    ASSUME SessionInv, NEW p \in Portals, Lapse(p)
    PROVE  SessionInv'
<1>1. SessionParts
  BY SessionByParts
<1> DEFINE s == [direct[p] EXCEPT !.fresh = FALSE]
<1>2. direct[p] \in [user: Users \cup {NoUser}, fresh: BOOLEAN] /\ direct[p].user # NoUser
  BY <1>1 DEF SessionParts, Lapse, NoSession
<1>3. /\ s \in [user: Users \cup {NoUser}, fresh: BOOLEAN]
      /\ s.user = direct[p].user
  BY <1>2
<1>4. direct' = [direct EXCEPT ![p] = s]
  BY DEF Lapse
<1> HIDE DEF s
<1>5. /\ direct' \in [Portals -> [user: Users \cup {NoUser}, fresh: BOOLEAN]]
      /\ \A q \in Portals : direct'[q].user = direct[q].user /\ (q # p => direct'[q] = direct[q])
  BY <1>1, <1>3, <1>4 DEF SessionParts
<1>6. lapses' \in 0 .. MaxLapses
  BY <1>1, SessionAssumption DEF SessionParts, Lapse
<1>7. UNCHANGED <<realm, sso, ask, leaving, lastLogin, crossed, logins, leaves>>
  BY DEF Lapse
<1>8. SessionParts'
  BY <1>1, <1>2, <1>5, <1>6, <1>7 DEF SessionParts
<1> QED
  BY <1>8, SessionByParts, PTL

LEMMA CrossingTells ==
    ASSUME SessionParts, NEW ports \in SUBSET Portals, crossed' = Crossing(ports),
           \A q \in Portals \ ports : lastLogin'[q] = lastLogin[q],
           NEW c \in Callers
    PROVE  /\ crossed' \in [Portals -> BOOLEAN]
           /\ AskOK(ask[c], lastLogin', crossed')
<1>1. crossed' \in [Portals -> BOOLEAN]
  BY DEF Crossing, SessionParts
<1>2. AskOK(ask[c], lastLogin, crossed) /\ ask[c].portal \in Portals
  BY DEF SessionParts, Askings
<1>3. CASE ask[c].portal \notin ports
  BY <1>1, <1>2, <1>3 DEF Crossing, AskOK
<1>4. CASE ask[c].portal \in ports /\ ask[c].pc = "refreshing"
  <2>1. c \in Refreshing(ask[c].portal)
    BY <1>4 DEF Refreshing
  <2>2. crossed'[ask[c].portal]
    BY <1>2, <1>4, <2>1 DEF Crossing
  <2> QED
    BY <1>1, <1>2, <2>2 DEF AskOK
<1>5. CASE ask[c].pc # "refreshing"
  BY <1>1, <1>2, <1>5 DEF AskOK
<1> QED
  BY <1>3, <1>4, <1>5

LEMMA LoginKeepsSession ==
    ASSUME SessionInv, NEW p \in Portals, NEW u \in UsersOf(p), Login(p, u)
    PROVE  SessionInv'
<1>1. SessionParts
  BY SessionByParts
<1>2. u \in Users /\ u # NoUser
  BY SessionAssumption DEF UsersOf, Users
<1> DEFINE s == NewSession(u)
<1>3. s \in [user: Users \cup {NoUser}, fresh: BOOLEAN] /\ s.user = u
  BY <1>2 DEF NewSession
<1>4. /\ direct' = [direct EXCEPT ![p] = s] /\ lastLogin' = [lastLogin EXCEPT ![p] = u]
      /\ crossed' = Crossing({p}) /\ logins' = logins + 1 /\ logins < MaxLogins
      /\ UNCHANGED <<realm, sso, ask, leaving, lapses, leaves>>
  BY DEF Login, SetSession
<1> HIDE DEF s
<1>5. lastLogin' \in [Portals -> Users \cup {NoUser}] /\ logins' \in 0 .. MaxLogins
  BY <1>1, <1>2, <1>4, SessionAssumption DEF SessionParts
<1>6. /\ crossed' \in [Portals -> BOOLEAN]
      /\ \A c \in Callers : AskOK(ask'[c], lastLogin', crossed')
  <2>1. \A q \in Portals \ {p} : lastLogin'[q] = lastLogin[q]
    BY <1>1, <1>4 DEF SessionParts
  <2>2. crossed' \in [Portals -> BOOLEAN]
    BY <1>1, <1>4 DEF Crossing, SessionParts
  <2> QED
    BY <1>1, <1>4, <2>1, <2>2, CrossingTells
<1>7. /\ direct' \in [Portals -> [user: Users \cup {NoUser}, fresh: BOOLEAN]]
      /\ \A q \in Portals : /\ direct'[q].user = NoUser => direct'[q] = NoSession
                            /\ direct'[q].user \in {NoUser, lastLogin'[q]} \/ crossed'[q]
  BY <1>1, <1>2, <1>3, <1>4 DEF SessionParts, Crossing
<1>8. SessionParts'
  BY <1>1, <1>4, <1>5, <1>6, <1>7 DEF SessionParts
<1> QED
  BY <1>8, SessionByParts, PTL

LEMMA LogoutKeepsSession ==
    ASSUME SessionInv, NEW p \in Portals, Logout(p)
    PROVE  SessionInv'
<1>1. SessionParts
  BY SessionByParts
<1>2. /\ direct' = [q \in Portals |-> NoSession] /\ lastLogin' = [q \in Portals |-> NoUser]
      /\ crossed' = Crossing(Portals) /\ leaving' = TRUE
      /\ UNCHANGED <<ask, logins, lapses, leaves>>
  BY DEF Logout, budget
<1>3. /\ crossed' \in [Portals -> BOOLEAN]
      /\ \A c \in Callers : AskOK(ask'[c], lastLogin', crossed')
  <2>1. crossed' \in [Portals -> BOOLEAN]
    BY <1>1, <1>2 DEF Crossing, SessionParts
  <2> QED
    BY <1>1, <1>2, <2>1, CrossingTells
<1>4. realm' \in Users \cup {NoUser} /\ sso' \in [Portals -> Users \cup {NoUser}]
  BY <1>1 DEF SessionParts, Logout
<1>5. NoSession \in [user: Users \cup {NoUser}, fresh: BOOLEAN] /\ NoSession.user = NoUser
  BY DEF NoSession
<1>6. SessionParts'
  BY <1>1, <1>2, <1>3, <1>4, <1>5 DEF SessionParts
<1> QED
  BY <1>6, SessionByParts, PTL

\* The page is left: nobody asks any more.
LEMMA LeavingKeepsSession ==
    ASSUME SessionInv,
           Reload \/ \E p \in Portals, u \in Users : u \in UsersOf(p) /\ SsoLogin(p, u)
    PROVE  SessionInv'
<1>1. SessionParts
  BY SessionByParts
<1>2. /\ ask' = [c \in Callers |-> NotAsking]
      /\ UNCHANGED <<direct, lastLogin, crossed, lapses>>
      /\ leaving' \in BOOLEAN
      /\ realm' \in Users \cup {NoUser}
      /\ sso' \in [Portals -> Users \cup {NoUser}]
      /\ logins' \in 0 .. MaxLogins /\ leaves' \in 0 .. MaxLeaves
  <2>1. CASE Reload
    <3>1. sso' \in [Portals -> Users \cup {NoUser}] /\ leaves' \in 0 .. MaxLeaves
      BY <1>1, <2>1, SessionAssumption DEF Reload, Find, SessionParts
    <3> QED
      BY <1>1, <2>1, <3>1 DEF Reload, SessionParts
  <2>2. ASSUME NEW p \in Portals, NEW u \in Users, SsoLogin(p, u)
        PROVE  /\ sso' \in [Portals -> Users \cup {NoUser}] /\ realm' \in Users \cup {NoUser}
               /\ logins' \in 0 .. MaxLogins /\ leaves' \in 0 .. MaxLeaves
    BY <1>1, <2>2, SessionAssumption DEF SsoLogin, Find, SessionParts
  <2>3. CASE \E p \in Portals, u \in Users : u \in UsersOf(p) /\ SsoLogin(p, u)
    BY <1>1, <2>2, <2>3 DEF SsoLogin, SessionParts
  <2> QED
    BY <2>1, <2>3
<1>3. AskOK(NotAsking, lastLogin, crossed)
  BY NotAskingFacts DEF AskOK
<1>4. SessionParts'
  BY <1>1, <1>2, <1>3, NotAskingFacts DEF SessionParts
<1> QED
  BY <1>4, SessionByParts, PTL

LEMMA InitSession == SessionInit => SessionInv
<1> SUFFICES ASSUME SessionInit PROVE SessionInv
  OBVIOUS
<1>1. AskOK(NotAsking, lastLogin, crossed)
  BY NotAskingFacts DEF AskOK
<1>2. \A s \in {NoSession} \cup {NewSession(u) : u \in Users} :
          /\ s \in [user: Users \cup {NoUser}, fresh: BOOLEAN]
          /\ s.user = NoUser => s = NoSession
  <2>1. NoSession \in [user: Users \cup {NoUser}, fresh: BOOLEAN]
    BY DEF NoSession
  <2>2. ASSUME NEW u \in Users
        PROVE  /\ NewSession(u) \in [user: Users \cup {NoUser}, fresh: BOOLEAN]
               /\ NewSession(u).user # NoUser
    BY SessionAssumption DEF NewSession, Users
  <2> QED
    BY <2>1, <2>2
<1>3. direct \in [Portals -> {NoSession} \cup {NewSession(u) : u \in Users}]
  BY DEF SessionInit
<1>4. /\ direct \in [Portals -> [user: Users \cup {NoUser}, fresh: BOOLEAN]]
      /\ \A p \in Portals : direct[p].user = NoUser => direct[p] = NoSession
  BY <1>2, <1>3
<1>5. SessionParts
  <2>1. /\ lastLogin = [p \in Portals |-> direct[p].user] /\ ask = [c \in Callers |-> NotAsking]
        /\ realm = NoUser /\ sso = [p \in Portals |-> NoUser] /\ leaving = FALSE
        /\ crossed = [p \in Portals |-> FALSE] /\ logins = 0 /\ lapses = 0 /\ leaves = 0
    BY DEF SessionInit
  <2>2. lastLogin \in [Portals -> Users \cup {NoUser}]
    BY <1>4, <2>1
  <2>3. /\ ask \in [Callers -> Askings]
        /\ \A c \in Callers : AskOK(ask[c], lastLogin, crossed)
    BY <1>1, <2>1, NotAskingFacts
  <2>4. /\ logins \in 0 .. MaxLogins /\ lapses \in 0 .. MaxLapses /\ leaves \in 0 .. MaxLeaves
    BY <2>1, SessionAssumption
  <2>5. \A p \in Portals : direct[p].user \in {NoUser, lastLogin[p]} \/ crossed[p]
    BY <2>1
  <2> QED
    BY <1>4, <2>1, <2>2, <2>3, <2>4, <2>5 DEF SessionParts
<1> QED
  BY <1>5, SessionByParts

LEMMA FrameKeepsSession ==
    ASSUME SessionInv, UNCHANGED sessionVars
    PROVE  SessionInv'
<1>1. SessionParts
  BY SessionByParts
<1>2. SessionParts'
  BY <1>1 DEF SessionParts, sessionVars, session, budget
<1> QED
  BY <1>2, SessionByParts, PTL

-----------------------------------------------------------------------------
(* What an outcome keeps                                                   *)

LEMMA RunsTyped ==
    ASSUME RunsInv, NEW r \in Callers
    PROVE  /\ run \in [Callers -> Runs] /\ run[r] \in Runs
           /\ RunOK(run[r], consent, made, facts, mixed)
           /\ KeepsOK(run[r], consent, made)
           /\ run[r].pc = "idle" => run[r] = Idle
           /\ run[r].pc \in AtWork => /\ PlaceOK(run[r])
                                      /\ DeedsOK(run[r], consent, made, facts, mixed)
           /\ OpOf(run[r]) = Op(r)
BY DEF RunsInv, RunOK, OpOf, Op

\* Where the walkthrough's rows are.
LEMMA GuidedPlace ==
    ASSUME NEW R, NEW cs, NEW m, NEW fs, NEW mx, RunOK(R, cs, m, fs, mx), R.guided
    PROVE  R.step \in 0 .. LastStep /\ R.pc # "idle"
<1>1. R.pc # "idle"
  BY IdleFacts DEF RunOK
<1>2. R.pc \in AtWork \/ R.pc = "asleep"
  BY <1>1 DEF RunOK, KeepsOK, Runs
<1> QED
  BY <1>1, <1>2, RowSizes DEF RunOK, PlaceOK

LEMMA OutcomeKeepsRuns ==
    ASSUME SessionInv, ServicesInv, ServicesInv', RunsInv,
           NEW r \in Callers, NEW rec, NEW R, NEW last,
           Outcome(r, rec, R, last), UNCHANGED services, mixed => mixed'
    PROVE  RunsInv'
<1>1. Grow
  <2>1. Len(consent) \in Nat /\ made \in Nat
    BY DEF ServicesInv
  <2> QED
    BY <2>1 DEF Grow, services
<1>2. /\ R \in Runs /\ run' = [run EXCEPT ![r] = R] /\ run \in [Callers -> Runs]
      /\ RunOK(R, consent', made', facts', mixed')
  BY DEF Outcome, Moves, RunOK, KeepsOK, RunsInv, services
<1>3. run' \in [Callers -> Runs] /\ run'[r] = R /\ \A q \in Callers \ {r} : run'[q] = run[q]
  BY <1>2
<1>4. \A q \in Callers : RunOK(run'[q], consent', made', facts', mixed')
  BY <1>1, <1>2, <1>3, RunStays DEF RunsInv
<1>5. ask \in [Callers -> Askings]
  BY DEF SessionInv, SessionTypeOK
<1>6. \A q \in Callers \ {r} : ask'[q] = ask[q]
  BY <1>5 DEF Outcome, Moves
<1>7. /\ R.pc = "asking" <=> ask'[r].pc # "idle"
      /\ R.pc = "asking" => ask'[r].portal = Calls[OpOf(R)][R.call][1]
  <2>1. CASE R.pc = "asking"
    <3>1. PICK p \in Portals : p = Calls[OpOf(R)][R.call][1]
      BY <2>1 DEF Outcome, Moves
    <3>2. ask'[r] = Ask(p)
      BY <1>5, <2>1, <3>1 DEF Outcome, Moves
    <3> QED
      BY <2>1, <3>1, <3>2, AskFacts
  <2>2. CASE R.pc # "asking"
    BY <1>5, <2>2, NotAskingFacts DEF Outcome, Moves
  <2> QED
    BY <2>1, <2>2
<1>8. \A q \in Callers :
          /\ run'[q].pc = "asking" <=> ask'[q].pc # "idle"
          /\ run'[q].pc = "asking" => ask'[q].portal = Calls[OpOf(run'[q])][run'[q].call][1]
  BY <1>3, <1>6, <1>7 DEF RunsInv, OpOf, Op
<1> QED
  BY <1>3, <1>4, <1>8 DEF RunsInv, OpOf, Op

LEMMA OutcomeKeepsBusy ==
    ASSUME RunsInv, NEW r \in Callers, NEW rec, NEW R, NEW last, Outcome(r, rec, R, last)
    PROVE  BusyInv'
<1>1. run'[r] = R /\ \A q \in Callers \ {r} : run'[q] = run[q]
  BY DEF Outcome, Moves, RunsInv
<1>2. CASE OthersBusy(r, busy')
  BY <1>1, <1>2 DEF OthersBusy, BusyInv, Op
<1>3. CASE R.pc \in AtWork /\ busy' = Label(OpOf(R), R.call) /\ busy' \notin Unlabelled
  BY <1>1, <1>3 DEF BusyInv, Op, OpOf
<1> QED
  BY <1>2, <1>3 DEF Outcome, BusyAfter

LEMMA OutcomeKeepsGuided ==
    ASSUME RunsInv, GuidedInv, NEW r \in Callers, NEW rec, NEW R, NEW last,
           Outcome(r, rec, R, last),
           rec.guided => /\ rec.step \in 0 .. LastStep
                         /\ \A q \in Callers \ {r} : ~run[q].guided,
           ~rec.guided => ~run[r].guided
    PROVE  GuidedInv'
<1>1. run'[r] = R /\ \A q \in Callers \ {r} : run'[q] = run[q]
  BY DEF Outcome, Moves, RunsInv
<1>2. R.guided => R.step \in 0 .. LastStep
  BY GuidedPlace DEF Outcome
<1>3. CASE ~rec.guided
  <2>1. guided' = guided /\ ~R.guided /\ ~run[r].guided
    BY <1>3 DEF Outcome, GuidedAfter
  <2>2. Resting => Resting'
    BY <2>1 DEF Resting
  <2> QED
    BY <1>1, <2>1, <2>2 DEF GuidedInv
<1>4. CASE rec.guided /\ R.guided
  <2>1. guided' = Going(R.step)
    BY <1>4 DEF Outcome, GuidedAfter
  <2> QED
    BY <1>1, <1>2, <1>4, <2>1, GuidedStates DEF GuidedInv
<1>5. CASE rec.guided /\ ~R.guided
  <2>1. Resting' /\ guided'.step = rec.step
    BY <1>5 DEF Outcome, GuidedAfter
  <2> QED
    BY <1>1, <1>5, <2>1 DEF GuidedInv
<1> QED
  BY <1>3, <1>4, <1>5

\* Where the walkthrough is after an outcome.
LEMMA OutcomeSteps ==
    ASSUME GuidedInv, NEW r \in Callers, NEW rec, NEW R, NEW last, Outcome(r, rec, R, last),
           rec.guided => guided.step = rec.step
    PROVE  \/ guided'.step = guided.step
           \/ last /\ rec.guided /\ guided'.step = guided.step + 1
BY GuidedStates DEF Outcome, GuidedAfter

\* Boxes are ticked for what was done, and a step that is done has its own.
LEMMA CoverGrows ==
    ASSUME ServicesInv, GuidedInv, CoverInv,
           shown' \in Shows, ShownOK(shown', consent', made'),
           NEW T \in SUBSET Boxes, covered' = covered \cup T,
           T \ {"expiredThenRenew"} \subseteq facts \cup IF mixed THEN {"nomineeApproval"} ELSE {},
           facts \subseteq facts', mixed => mixed', resetAt' = resetAt,
           \/ guided'.step = guided.step
           \/ /\ guided'.step = guided.step + 1
              /\ GuidedBoxes[guided.step + 1] \in covered' \cup {"none"}
    PROVE  CoverInv'
<1>1. guided.step \in Nat /\ resetAt \in Nat
  BY RowSizes DEF GuidedInv, CoverInv
<1>2. StepsDoneAreCovered'
  BY <1>1 DEF CoverInv, CoverageTellsTruth, StepsDoneAreCovered
<1>3. covered' \ {"expiredThenRenew"}
          \subseteq facts' \cup IF mixed' THEN {"nomineeApproval"} ELSE {}
  BY DEF CoverInv, CoverageTellsTruth
<1> QED
  BY <1>2, <1>3 DEF CoverInv, CoverageTellsTruth

\* The wallet's users are u, or nobody.
OnlyUser(u) == WalletUsers \subseteq {u, NoUser}

LEMMA OutcomeKeepsUser ==
    ASSUME SessionInv, RunsInv, NEW r \in Callers, NEW rec, NEW R, NEW last,
           Outcome(r, rec, R, last), UNCHANGED <<direct, sso>>,
           NEW u \in Users, OnlyUser(u),
           \A q \in InFlight \ {r} : run[q].saw.nominee => u = Nominee,
           rec.saw.nominee => u = Nominee
    PROVE  OneUserInv'
<1>1. run'[r] = R /\ \A q \in Callers \ {r} : run'[q] = run[q]
  BY DEF Outcome, Moves, RunsInv
<1>2. ask \in [Callers -> Askings]
  BY DEF SessionInv, SessionTypeOK
<1>3. /\ \A q \in Callers \ {r} : ask'[q] = ask[q]
      /\ ask'[r].portal = "wallet" =>
            ask'[r].user \in {direct["wallet"].user, sso["wallet"], NoUser}
  <2>1. CASE R.pc = "asking"
    <3>1. PICK p \in Portals : p = Calls[OpOf(R)][R.call][1]
      BY <2>1 DEF Outcome, Moves
    <3>2. ask' = [ask EXCEPT ![r] = Ask(p)]
      BY <2>1, <3>1 DEF Outcome, Moves
    <3>3. Ask(p).portal = p /\ Ask(p).user \in {direct[p].user, sso[p]}
      BY AskFacts
    <3> QED
      BY <1>2, <3>2, <3>3
  <2>2. CASE R.pc # "asking"
    BY <1>2, <2>2, NotAskingFacts DEF Outcome, Moves
  <2> QED
    BY <2>1, <2>2
<1>4. WalletUsers' \subseteq WalletUsers \cup {NoUser}
  BY <1>3 DEF WalletUsers
<1>5. \A q \in InFlight' : run'[q].saw.nominee => u = Nominee
  BY <1>1, IdleFacts DEF InFlight, Outcome
<1> QED
  BY <1>4, <1>5 DEF OneUserInv, OnlyUser

-----------------------------------------------------------------------------
(* The page goes on                                                        *)

\* What a caller has in flight, by the invariant.
LEMMA RunFacts ==
    ASSUME ConsoleInv, NEW r \in Callers
    PROVE  /\ run[r] \in Runs /\ RunOK(run[r], consent, made, facts, mixed)
           /\ KeepsOK(run[r], consent, made)
           /\ run[r].pc = "idle" => run[r] = Idle
           /\ run[r].pc \in AtWork =>
                 /\ PlaceOK(run[r]) /\ DeedsOK(run[r], consent, made, facts, mixed)
                 /\ Op(r) \in Ops
                 /\ run[r].call \in 1 .. Len(Calls[Op(r)])
           /\ OpOf(run[r]) = Op(r)
           /\ run[r].guided =>
                 /\ guided = Going(run[r].step) /\ guided.step = run[r].step
                 /\ run[r].step \in 0 .. LastStep
                 /\ \A q \in Callers \ {r} : ~run[q].guided
<1>1. /\ run[r] \in Runs /\ RunOK(run[r], consent, made, facts, mixed)
      /\ KeepsOK(run[r], consent, made)
      /\ run[r].pc = "idle" => run[r] = Idle
      /\ run[r].pc \in AtWork => PlaceOK(run[r]) /\ DeedsOK(run[r], consent, made, facts, mixed)
      /\ OpOf(run[r]) = Op(r)
  BY RunsTyped DEF ConsoleInv
<1>2. run[r].pc \in AtWork => Op(r) \in Ops /\ run[r].call \in 1 .. Len(Calls[Op(r)])
  BY <1>1 DEF PlaceOK, RowOK, OpOf
<1>3. run[r].guided => run[r].step \in 0 .. LastStep
  BY <1>1, GuidedPlace
<1> QED
  BY <1>1, <1>2, <1>3, GuidedStates DEF ConsoleInv, GuidedInv

LEMMA ServicesStay ==
    ASSUME ServicesInv, UNCHANGED <<services, history>>
    PROVE  ServicesInv' /\ Grow
<1>1. ServicesInv'
  BY DEF ServicesInv, NewestInv, services, history
<1>2. Len(consent) \in Nat /\ made \in Nat
  BY DEF ServicesInv
<1> QED
  BY <1>1, <1>2 DEF Grow, services, history

LEMMA GoOnKeeps ==
    ASSUME ConsoleInv, NEW r \in Callers, run[r].pc # "idle",
           NEW rec, rec.guided <=> run[r].guided, rec.step = run[r].step, rec.saw = run[r].saw,
           NEW R, NEW last, Outcome(r, rec, R, last),
           UNCHANGED Elsewhere,
           shown' \in Shows, ShownOK(shown', consent, made),
           NEW T \in SUBSET Boxes, covered' = covered \cup T,
           T \ {"expiredThenRenew"} \subseteq facts \cup IF mixed THEN {"nomineeApproval"} ELSE {},
           last /\ run[r].guided => GuidedBoxes[run[r].step + 1] \in T \cup {"none"}
    PROVE  ConsoleInv'
<1>1. /\ SessionInv /\ ServicesInv /\ RunsInv /\ BusyInv /\ GuidedInv /\ CoverInv /\ OneUserInv
      /\ UNCHANGED <<services, history>> /\ UNCHANGED sessionFrame
      /\ UNCHANGED <<direct, sso, mixed, resetAt>> /\ UNCHANGED services
  BY DEF ConsoleInv, Elsewhere, sessionFrame, session, history
<1>2. SessionInv'
  BY <1>1, MovesKeepSession DEF Outcome
<1>3. ServicesInv'
  BY <1>1, ServicesStay
<1>4. RunsInv'
  BY <1>1, <1>3, OutcomeKeepsRuns
<1>5. BusyInv'
  BY <1>1, OutcomeKeepsBusy
<1>6. /\ rec.guided => /\ rec.step \in 0 .. LastStep
                       /\ \A q \in Callers \ {r} : ~run[q].guided
      /\ rec.guided => guided.step = rec.step
  BY RunFacts
<1>7. GuidedInv'
  BY <1>1, <1>6, OutcomeKeepsGuided
<1>8. CoverInv'
  <2>1. \/ guided'.step = guided.step
        \/ last /\ rec.guided /\ guided'.step = guided.step + 1
    BY <1>1, <1>6, OutcomeSteps
  <2>2. \/ guided'.step = guided.step
        \/ /\ guided'.step = guided.step + 1
           /\ GuidedBoxes[guided.step + 1] \in covered' \cup {"none"}
    BY <1>6, <2>1
  <2>3. ShownOK(shown', consent', made') /\ facts \subseteq facts' /\ (mixed => mixed')
    BY <1>1 DEF services
  <2> QED
    BY <1>1, <2>2, <2>3, CoverGrows
<1>9. OneUserInv'
  <2>1. CASE mixed
    BY <1>1, <2>1 DEF OneUserInv
  <2>2. CASE ~mixed
    <3>1. r \in InFlight
      BY DEF InFlight
    <3>2. PICK u \in Users : /\ WalletUsers \subseteq {u, NoUser}
                             /\ \A q \in InFlight : run[q].saw.nominee => u = Nominee
      BY <1>1, <2>2, <3>1 DEF OneUserInv
    <3>3. \A q \in InFlight \ {r} : run[q].saw.nominee => u = Nominee
      BY <3>2
    <3>4. UNCHANGED <<direct, sso>>
      BY <1>1
    <3>5. OnlyUser(u) /\ (rec.saw.nominee => u = Nominee)
      BY <3>1, <3>2 DEF OnlyUser
    <3> QED
      BY <1>1, <3>3, <3>4, <3>5, OutcomeKeepsUser
  <2> QED
    BY <2>1, <2>2
<1> QED
  BY <1>2, <1>3, <1>4, <1>5, <1>7, <1>8, <1>9 DEF ConsoleInv

\* The same when nothing is shown or ticked and no step is done.
LEMMA QuietlyKeeps ==
    ASSUME ConsoleInv, NEW r \in Callers, run[r].pc # "idle",
           NEW rec, rec.guided <=> run[r].guided, rec.step = run[r].step, rec.saw = run[r].saw,
           NEW R, Outcome(r, rec, R, FALSE),
           UNCHANGED <<shown, covered>>, UNCHANGED Elsewhere
    PROVE  ConsoleInv'
<1>1. /\ shown' \in Shows /\ ShownOK(shown', consent, made)
      /\ {} \in SUBSET Boxes /\ covered' = covered \cup {}
      /\ {} \ {"expiredThenRenew"} \subseteq facts \cup IF mixed THEN {"nomineeApproval"} ELSE {}
  BY DEF ConsoleInv, CoverInv
<1> QED
  BY <1>1, GoOnKeeps

\* The row of r throws: what is shown as running after that is nothing or another's.
LEMMA ThrowKeeps ==
    ASSUME ConsoleInv, NEW r \in Callers, run[r].pc \in AtWork,
           NEW b \in {"none", After(run[r])}, Throw(r, run[r], b),
           UNCHANGED <<shown, covered>>, UNCHANGED Elsewhere
    PROVE  ConsoleInv'
<1>1. ServicesInv /\ BusyInv
  BY DEF ConsoleInv
<1>2. OthersBusy(r, b)
  <2>1. OthersBusy(r, "none")
    BY DEF OthersBusy
  <2>2. OthersBusy(r, After(run[r]))
    BY <1>1, AfterIsOthers DEF Op
  <2> QED
    BY <2>1, <2>2
<1>3. run[r].guided => run[r].step \in 0 .. LastStep - 1
  BY RunFacts DEF PlaceOK
<1>4. Outcome(r, run[r], Idle, FALSE)
  BY <1>1, <1>2, <1>3, ThrowEnds
<1>5. run[r].pc # "idle"
  BY DEF AtWork
<1> QED
  BY <1>4, <1>5, QuietlyKeeps

\* The row of r stays at its call.
LEMMA StayingIs ==
    ASSUME ConsoleInv, NEW r \in Callers, run[r].pc \in AtWork,
           NEW R \in Runs, R.pc \in {"called", "answered"},
           R.ops = run[r].ops, R.at = run[r].at, R.call = run[r].call,
           R.guided = run[r].guided, R.step = run[r].step, R.saw = run[r].saw,
           R.on = run[r].on, R.own = run[r].own,
           DeedsOK(R, consent, made, facts, mixed),
           run' = [run EXCEPT ![r] = R], ask' = [ask EXCEPT ![r] = NotAsking],
           UNCHANGED <<busy, guided, mixed>>
    PROVE  Outcome(r, run[r], R, FALSE)
<1>1. /\ PlaceOK(run[r]) /\ KeepsOK(run[r], consent, made) /\ BusyInv /\ OpOf(R) = Op(r)
      /\ OpOf(run[r]) = Op(r)
  BY RunFacts DEF ConsoleInv, OpOf, Op
<1>2. Moves(r, R)
  BY DEF Moves
<1>3. BusyAfter(r, R)
  <2>1. R.pc \in AtWork /\ Label(OpOf(R), R.call) = Label(Op(r), run[r].call) /\ busy' = busy
    BY <1>1 DEF AtWork
  <2> QED
    BY <1>1, <2>1, BusyStays
<1>4. GuidedAfter(run[r], R)
  BY RunFacts DEF GuidedAfter
<1>5. RunOK(R, consent, made, facts, mixed')
  <2>1. KeepsOK(R, consent, made)
    BY <1>1 DEF KeepsOK
  <2>2. Ready(R, OpOf(R))
    BY <1>1 DEF PlaceOK, Ready, Reads, Target, Given
  <2>3. PlaceOK(R)
    BY <1>1, <2>2 DEF PlaceOK
  <2> QED
    BY <2>1, <2>3 DEF RunOK, AtWork
<1> QED
  BY <1>2, <1>3, <1>4, <1>5 DEF Outcome

LEMMA NoTokenKeeps ==
    ASSUME ConsoleInv, NEW r \in Callers, ask[r].pc # "idle", NoToken(r),
           UNCHANGED <<shown, covered>>, UNCHANGED Elsewhere
    PROVE  ConsoleInv'
<1>1. run[r].pc = "asking"
  BY DEF ConsoleInv, RunsInv
<1>2. run[r].pc \in AtWork /\ run[r].pc # "idle"
  BY <1>1 DEF AtWork
<1>3. CASE Call(r) \notin MayFail
  BY <1>2, <1>3, ThrowKeeps DEF NoToken
<1>4. CASE Call(r) \in MayFail
  <2> DEFINE R == [run[r] EXCEPT !.pc = "answered"]
  <2>1. /\ run' = [run EXCEPT ![r] = R] /\ ask' = [ask EXCEPT ![r] = NotAsking]
        /\ UNCHANGED <<busy, guided, mixed>>
    BY <1>4 DEF NoToken, Elsewhere, history
  <2>2. run[r] \in Runs /\ DeedsOK(run[r], consent, made, facts, mixed) /\ OpOf(run[r]) = Op(r)
    BY <1>2, RunFacts
  <2>3. /\ R \in Runs /\ R.pc = "answered"
        /\ R.ops = run[r].ops /\ R.at = run[r].at /\ R.call = run[r].call
        /\ R.guided = run[r].guided /\ R.step = run[r].step /\ R.saw = run[r].saw
        /\ R.on = run[r].on /\ R.own = run[r].own /\ R.got = run[r].got
        /\ R.code = run[r].code /\ R.user = run[r].user
    BY <2>2 DEF Runs, AtWork
  <2> HIDE DEF R
  <2>4. Op(r) \notin Telling \/ (run[r].call = 2 /\ Op(r) \in {"approve", "nominee"})
    BY <1>2, <1>4, RunFacts, CallIs DEF Call
  <2>5. DeedsOK(R, consent, made, facts, mixed)
    <3>1. OpOf(R) = Op(r)
      BY <2>3 DEF OpOf, Op
    <3>2. CASE Op(r) \notin Telling
      BY <3>1, <3>2, UntoldDeeds
    <3>3. CASE run[r].call = 2 /\ Op(r) \in {"approve", "nominee"}
      BY <2>2, <2>3, <3>1, <3>3 DEF DeedsOK, Past
    <3> QED
      BY <2>4, <3>2, <3>3
  <2>6. Outcome(r, run[r], R, FALSE)
    BY <1>2, <2>1, <2>3, <2>5, StayingIs
  <2> QED
    BY <1>2, <2>6, QuietlyKeeps
<1> QED
  BY <1>3, <1>4

LEMMA RefusedKeeps ==
    ASSUME ConsoleInv, NEW r \in Callers, Refused(r)
    PROVE  ConsoleInv'
<1>1. ask[r].pc # "idle" /\ NoToken(r) /\ UNCHANGED <<shown, covered>> /\ UNCHANGED Elsewhere
  BY DEF Refused, Elsewhere
<1> QED
  BY <1>1, NoTokenKeeps

LEMMA GrantedKeeps ==
    ASSUME ConsoleInv, NEW r \in Callers, Granted(r)
    PROVE  ConsoleInv'
<1>1. ask[r].pc # "idle" /\ UNCHANGED <<shown, covered>> /\ UNCHANGED Elsewhere
  BY DEF Granted, Elsewhere
<1>2. CASE ask[r].portal = "fi" /\ ~run[r].saw.fi
  BY <1>1, <1>2, NoTokenKeeps DEF Granted
<1>3. CASE ~(ask[r].portal = "fi" /\ ~run[r].saw.fi)
  <2> DEFINE R == [run[r] EXCEPT !.pc = "called", !.user = ask[r].user]
  <2>1. /\ run' = [run EXCEPT ![r] = R] /\ ask' = [ask EXCEPT ![r] = NotAsking]
        /\ UNCHANGED <<busy, guided, mixed>>
    BY <1>1, <1>3 DEF Granted, Elsewhere, history
  <2>2. run[r].pc = "asking" /\ run[r].pc \in AtWork /\ run[r].pc # "idle"
    BY <1>1 DEF ConsoleInv, RunsInv, AtWork
  <2>3. /\ run[r] \in Runs /\ DeedsOK(run[r], consent, made, facts, mixed) /\ OpOf(run[r]) = Op(r)
        /\ PlaceOK(run[r]) /\ Op(r) \in Ops
    BY <2>2, RunFacts
  <2>4. ask[r] \in Askings
    BY DEF ConsoleInv, SessionInv, SessionTypeOK
  <2>5. /\ R \in Runs /\ R.pc = "called"
        /\ R.ops = run[r].ops /\ R.at = run[r].at /\ R.call = run[r].call
        /\ R.guided = run[r].guided /\ R.step = run[r].step /\ R.saw = run[r].saw
        /\ R.on = run[r].on /\ R.own = run[r].own /\ R.got = run[r].got
        /\ R.code = run[r].code /\ R.user = ask[r].user
    BY <2>3, <2>4 DEF Runs, AtWork, Askings
  <2> HIDE DEF R
  <2>6. OpOf(R) = "nominee" /\ R.call = 1 => R.user \in {Nominee, NoUser} \/ mixed
    <3> SUFFICES ASSUME OpOf(R) = "nominee", R.call = 1, ~mixed
                 PROVE  R.user \in {Nominee, NoUser}
      OBVIOUS
    <3>1. Op(r) = "nominee" /\ run[r].call = 1
      BY <2>5 DEF OpOf, Op
    <3>2. ask[r].portal = Calls[Op(r)][run[r].call][1]
      BY <2>2 DEF ConsoleInv, RunsInv
    <3>3. ask[r].portal = "wallet"
      <4>1. Calls["nominee"] = << <<"wallet", "approve">>, <<"wallet", "settle">> >>
        BY CallsAre
      <4> QED
        BY <3>1, <3>2, <4>1
    <3>4. run[r].saw.nominee
      BY <2>3, <3>1 DEF PlaceOK, Ready
    <3>5. r \in InFlight
      BY <2>2 DEF InFlight
    <3>6. PICK u \in Users : /\ WalletUsers \subseteq {u, NoUser}
                             /\ \A q \in InFlight : run[q].saw.nominee => u = Nominee
      BY <3>5 DEF ConsoleInv, OneUserInv
    <3>7. ask[r].user \in WalletUsers
      BY <3>3 DEF WalletUsers
    <3> QED
      BY <2>5, <3>4, <3>5, <3>6, <3>7
  <2>7. DeedsOK(R, consent, made, facts, mixed)
    <3>1. \A n \in {1, 2, 3} : Past(R, n) <=> Past(run[r], n)
      BY <2>2, <2>5 DEF Past
    <3>2. OpOf(R) = OpOf(run[r])
      BY <2>5 DEF OpOf
    <3> QED
      BY <2>3, <2>5, <2>6, <3>1, <3>2 DEF DeedsOK
  <2>8. Outcome(r, run[r], R, FALSE)
    BY <2>1, <2>2, <2>5, <2>7, StayingIs
  <2> QED
    BY <1>1, <2>2, <2>8, QuietlyKeeps
<1> QED
  BY <1>2, <1>3

LEMMA CallFailsKeeps ==
    ASSUME ConsoleInv, NEW r \in Callers, CallFails(r)
    PROVE  ConsoleInv'
<1>1. /\ run[r].pc \in {"called", "answered"} /\ run[r].pc \in AtWork /\ run[r].pc # "idle"
      /\ UNCHANGED <<shown, covered>> /\ UNCHANGED Elsewhere
  BY DEF CallFails, Elsewhere, AtWork
<1>2. CASE Call(r) # "onboard"
  BY <1>1, <1>2, ThrowKeeps DEF CallFails
<1>3. CASE Call(r) = "onboard"
  <2>1. /\ run[r] \in Runs /\ RunOK(run[r], consent, made, facts, mixed) /\ OpOf(run[r]) = Op(r)
        /\ Op(r) \in Ops /\ run[r].call \in 1 .. Len(Calls[Op(r)])
    BY <1>1, RunFacts
  <2>2. Op(r) \notin Telling /\ Op(r) = "onboard" /\ run[r].call = 1 /\ Len(Calls[Op(r)]) = 2
    <3>1. Op(r) = "onboard" /\ run[r].call = 1
      BY <1>3, <2>1, CallIs DEF Call
    <3>2. Calls["onboard"] = << <<"fi", "onboard">>, <<"fi", "precheck">> >>
      BY CallsAre
    <3> QED
      BY <3>1, <3>2 DEF Telling
  <2> DEFINE next == [run[r] EXCEPT !.call = 2]
  <2>3. CallNext(r, next) /\ UNCHANGED <<busy, guided>>
    BY <1>3 DEF CallFails
  <2>4. /\ next \in Runs /\ next.call = 2 /\ next.ops = run[r].ops /\ next.at = run[r].at
        /\ next.guided = run[r].guided /\ next.step = run[r].step /\ next.saw = run[r].saw
        /\ next.on = run[r].on /\ next.own = run[r].own
    BY <2>1 DEF Runs
  <2> HIDE DEF next
  <2>5. PICK R \in AtCall(next) : Moves(r, R)
    BY <2>3, <2>4, CallNextMoves
  <2>6. /\ R \in Runs /\ R.pc \in {"asking", "called"} /\ R.call = run[r].call + 1
        /\ R.ops = run[r].ops /\ R.at = run[r].at /\ R.guided = run[r].guided
        /\ R.step = run[r].step /\ R.saw = run[r].saw /\ R.on = run[r].on
        /\ R.own = run[r].own
    BY <2>2, <2>4, <2>5, AtCallFacts
  <2>7. OpOf(R) = Op(r) /\ R.pc \in AtWork
    BY <2>6 DEF OpOf, Op, AtWork
  <2>8. DeedsOK(R, consent, made, facts, mixed')
    BY <2>2, <2>7, UntoldDeeds
  <2>9. BusyAfter(r, R)
    <3>1. Label(OpOf(R), R.call) = Label(Op(r), run[r].call)
      BY <2>2, <2>7 DEF Label
    <3> QED
      BY <2>3, <2>7, <3>1, BusyStays DEF ConsoleInv
  <2>10. AtRun(r, run[r])
    BY <1>1, RunFacts DEF AtRun
  <2>11. run[r].call \in 1 .. Len(Calls[OpOf(run[r])]) - 1
    BY <2>1, <2>2
  <2>12. ServicesInv /\ RunOK(run[r], consent, made, facts, mixed') /\ guided' = guided
    BY <1>1, <2>1, <2>3 DEF ConsoleInv, Elsewhere, history
  <2>13. Outcome(r, run[r], R, FALSE)
    BY <2>5, <2>6, <2>8, <2>9, <2>10, <2>11, <2>12, NextCallGoes
  <2> QED
    BY <1>1, <2>13, QuietlyKeeps
<1> QED
  BY <1>2, <1>3

\* The box of the step the walkthrough is through with, at the last of its operations.
LEMMA StepBox ==
    ASSUME ConsoleInv, NEW r \in Callers, run[r].pc \in AtWork, run[r].guided,
           run[r].at = Len(run[r].ops)
    PROVE  Op(r) \in Walked /\ GuidedBoxes[run[r].step + 1] = OwnBox(Op(r))
<1>1. /\ run[r].step \in 0 .. LastStep - 1 /\ run[r].ops = GuidedSteps[run[r].step + 1]
      /\ Len(run[r].ops) >= 1
  BY RunFacts DEF PlaceOK, RowOK
<1>2. run[r].ops # <<>>
  BY <1>1
<1> QED
  BY <1>1, <1>2, StepsAreRows DEF Op

LEMMA BackFacts ==
    ASSUME ConsoleInv, NEW r \in Callers, NEW ops, Back(r, ops)
    PROVE  /\ Op(r) \in ops /\ Op(r) \in Ops
           /\ run[r].pc \in {"called", "answered"} /\ run[r].pc \in AtWork /\ run[r].pc # "idle"
           /\ run[r].pc = "answered" \/ Call(r) \in Fetches
           /\ run[r].call \in 1 .. Len(Calls[Op(r)])
           /\ Op(r) \in Telling =>
                 /\ Past(run[r], 1)
                 /\ run[r].call = 1 \/ Op(r) = "reuse" => run[r].pc = "answered"
                 /\ Op(r) = "ckyc" /\ run[r].call = 2 => run[r].pc = "answered"
<1>1. /\ Op(r) \in ops /\ run[r].pc \in {"called", "answered"}
      /\ run[r].pc \in AtWork /\ run[r].pc # "idle"
      /\ run[r].pc = "answered" \/ Call(r) \in Fetches
  BY DEF Back, AtWork
<1>2. Op(r) \in Ops /\ run[r].call \in 1 .. Len(Calls[Op(r)]) /\ Len(Calls[Op(r)]) \in 1 .. 3
  BY <1>1, RunFacts, CallsHaveLength
<1>3. CASE run[r].pc = "answered"
  BY <1>1, <1>2, <1>3 DEF Past
<1>4. CASE run[r].pc # "answered"
  <2>1. Call(r) \in Fetches
    BY <1>1, <1>4
  <2>2. Op(r) \in Telling =>
           \/ run[r].call = 2 /\ Op(r) \in {"issue", "approve", "nominee", "verify", "revokeToken"}
           \/ run[r].call = 3 /\ Op(r) = "ckyc"
    BY <1>2, <2>1, CallIs DEF Call
  <2> QED
    BY <1>1, <1>2, <2>2 DEF Past
<1> QED
  BY <1>3, <1>4

\* The operation of r goes on after an answer, as rec, what it shows and ticks being as
\* the services have it.
LEMMA ProceedKeeps ==
    ASSUME ConsoleInv, NEW r \in Callers, NEW ops, Back(r, ops),
           NEW rec, RunOK(rec, consent, made, facts, mixed), rec.pc = run[r].pc,
           rec.ops = run[r].ops, rec.at = run[r].at, rec.call = run[r].call,
           rec.guided = run[r].guided, rec.step = run[r].step, rec.saw = run[r].saw,
           Op(r) = "reuse" => rec.on # <<>>,
           Op(r) = "ckyc" /\ run[r].call = 2 => rec.got # 0,
           Proceed(r, rec), UNCHANGED Elsewhere,
           shown' \in Shows, ShownOK(shown', consent, made),
           NEW T \in SUBSET Boxes, covered' = covered \cup T,
           T \ {"expiredThenRenew"} \subseteq facts \cup IF mixed THEN {"nomineeApproval"} ELSE {},
           IsLastCall(r) /\ Op(r) \in Walked => OwnBox(Op(r)) \in T \cup {"none"}
    PROVE  ConsoleInv'
<1>1. /\ run[r].pc \in {"called", "answered"} /\ run[r].pc \in AtWork /\ run[r].pc # "idle"
      /\ run[r].pc = "answered" \/ Call(r) \in Fetches
  BY BackFacts
<1>2. OpOf(rec) = Op(r) /\ Call(r) = Calls[OpOf(rec)][rec.call][2]
  BY DEF OpOf, Op, Call
<1>3. AtRun(r, rec)
  BY <1>1, RunFacts DEF AtRun
<1>4. /\ ServicesInv /\ BusyInv
      /\ RunOK(rec, consent, made, facts, mixed')
  BY DEF ConsoleInv, Elsewhere, history
<1>5. rec.pc = "answered" \/ Calls[OpOf(rec)][rec.call][2] \in Fetches
  BY <1>1, <1>2
<1>6. /\ OpOf(rec) = "reuse" => rec.on # <<>>
      /\ OpOf(rec) = "ckyc" /\ rec.call = 2 => rec.got # 0
  BY <1>2
<1> DEFINE last == rec.at = Len(rec.ops) /\ rec.call = Len(Calls[OpOf(rec)])
<1>7. \E R : Outcome(r, rec, R, last)
  BY <1>3, <1>4, <1>5, <1>6, ProceedGoesOn
<1>8. PICK R : Outcome(r, rec, R, last)
  BY <1>7
<1>9. last /\ run[r].guided => GuidedBoxes[run[r].step + 1] \in T \cup {"none"}
  <2> SUFFICES ASSUME last, run[r].guided
               PROVE  GuidedBoxes[run[r].step + 1] \in T \cup {"none"}
    OBVIOUS
  <2>1. IsLastCall(r) /\ run[r].at = Len(run[r].ops)
    BY <1>2 DEF IsLastCall
  <2> QED
    BY <1>1, <2>1, StepBox
<1> HIDE DEF last
<1> QED
  BY <1>1, <1>8, <1>9, GoOnKeeps

\* The same when its record stays what it is.
LEMMA ProceedsKeep ==
    ASSUME ConsoleInv, NEW r \in Callers, NEW ops, Back(r, ops),
           Op(r) # "reuse", Op(r) = "ckyc" /\ run[r].call = 2 => run[r].got # 0,
           Proceed(r, run[r]), UNCHANGED Elsewhere,
           shown' \in Shows, ShownOK(shown', consent, made),
           NEW T \in SUBSET Boxes, covered' = covered \cup T,
           T \ {"expiredThenRenew"} \subseteq facts \cup IF mixed THEN {"nomineeApproval"} ELSE {},
           IsLastCall(r) /\ Op(r) \in Walked => OwnBox(Op(r)) \in T \cup {"none"}
    PROVE  ConsoleInv'
<1>1. RunOK(run[r], consent, made, facts, mixed)
  BY RunFacts
<1> QED
  BY <1>1, ProceedKeeps

\* The operation of r is done before its last call.
LEMMA OpDoneKeeps ==
    ASSUME ConsoleInv, NEW r \in Callers, run[r].pc \in AtWork,
           Op(r) \in Walked => OwnBox(Op(r)) = "none",
           OpDone(r, run[r]), UNCHANGED <<shown, covered>>, UNCHANGED Elsewhere
    PROVE  ConsoleInv'
<1>1. /\ ServicesInv /\ BusyInv /\ CoverInv
  BY DEF ConsoleInv
<1>2. BeginsOK(run[r], consent, made)
  BY RunFacts DEF BeginsOK, PlaceOK
<1>3. OthersBusy(r, After(run[r]))
  BY <1>1, AfterIsOthers DEF Op
<1>4. PICK R : Outcome(r, run[r], R, run[r].at = Len(run[r].ops))
  BY <1>1, <1>2, <1>3, OpDoneGoesOn
<1> DEFINE last == run[r].at = Len(run[r].ops)
<1>5. last /\ run[r].guided => GuidedBoxes[run[r].step + 1] \in {} \cup {"none"}
  BY StepBox
<1>6. /\ shown' \in Shows /\ ShownOK(shown', consent, made)
      /\ {} \in SUBSET Boxes /\ covered' = covered \cup {}
      /\ {} \ {"expiredThenRenew"} \subseteq facts \cup IF mixed THEN {"nomineeApproval"} ELSE {}
  BY <1>1 DEF CoverInv
<1>7. run[r].pc # "idle" /\ Outcome(r, run[r], R, last)
  BY <1>4 DEF AtWork
<1> HIDE DEF last
<1> QED
  BY <1>5, <1>6, <1>7, GoOnKeeps

-----------------------------------------------------------------------------
(* Each operation's going on                                               *)

LEMMA ShownFacts ==
    ASSUME ConsoleInv
    PROVE  /\ shown \in Shows /\ ShownOK(shown, consent, made)
           /\ Len(consent) \in Nat /\ made \in Nat /\ consent \in Seq(ConsentRows)
           /\ shown.token \in 0 .. made /\ shown.consent \in 0 .. Len(consent)
           /\ shown.assertion \in 0 .. Len(consent) /\ shown.expired \in BOOLEAN
BY DEF ConsoleInv, CoverInv, ServicesInv, ShownOK, Shows

\* What is shown with another token, consent, assertion, which are there.
LEMMA ShownBecomes ==
    ASSUME ConsoleInv, NEW t \in 0 .. made, NEW c \in 0 .. Len(consent),
           NEW a \in 0 .. Len(consent),
           NEW e \in BOOLEAN, NEW s,
           s = [token |-> t, consent |-> c, assertion |-> a, expired |-> e]
    PROVE  s \in Shows /\ ShownOK(s, consent, made)
<1>1. t \in Nat /\ c \in Nat /\ a \in Nat
  BY ShownFacts
<1> QED
  BY <1>1 DEF Shows, ShownOK

LEMMA IssueTokenKeeps ==
    ASSUME ConsoleInv, NEW r \in Callers, IssueToken(r)
    PROVE  ConsoleInv'
<1>1. /\ Back(r, {"issue"}) /\ Proceed(r, run[r]) /\ UNCHANGED Elsewhere
      /\ Op(r) = "issue" /\ Past(run[r], 1)
  BY BackFacts DEF IssueToken, Telling
<1>2. "issueToken" \in facts /\ run[r].got \in 1 .. made
  BY <1>1, BackFacts, RunFacts DEF DeedsOK
<1>3. CASE IsLastCall(r)
  <2>1. /\ {"issueToken"} \in SUBSET Boxes /\ covered' = covered \cup {"issueToken"}
        /\ {"issueToken"} \ {"expiredThenRenew"}
              \subseteq facts \cup IF mixed THEN {"nomineeApproval"} ELSE {}
        /\ OwnBox(Op(r)) \in {"issueToken"} \cup {"none"} /\ shown' = shown
        /\ Op(r) # "reuse" /\ Op(r) # "ckyc"
    BY <1>1, <1>2, <1>3 DEF IssueToken, Tick, Boxes, OwnBox
  <2> QED
    BY <1>1, <2>1, ShownFacts, ProceedsKeep
<1>4. CASE ~IsLastCall(r)
  <2>1. /\ {} \in SUBSET Boxes /\ covered' = covered \cup {}
        /\ {} \ {"expiredThenRenew"}
              \subseteq facts \cup IF mixed THEN {"nomineeApproval"} ELSE {}
        /\ shown' = [shown EXCEPT !.token = run[r].got]
        /\ Op(r) # "reuse" /\ Op(r) # "ckyc"
    BY <1>1, <1>4 DEF IssueToken
  <2>2. /\ run[r].got \in 0 .. made
        /\ shown' = [token |-> run[r].got, consent |-> shown.consent,
                     assertion |-> shown.assertion, expired |-> shown.expired]
    BY <1>2, <2>1, ShownFacts DEF Shows
  <2>3. shown' \in Shows /\ ShownOK(shown', consent, made)
    BY <2>2, ShownFacts, ShownBecomes
  <2> QED
    BY <1>1, <1>4, <2>1, <2>3, ProceedsKeep
<1> QED
  BY <1>3, <1>4

\* A row that counts a consent there is among its own is otherwise what it was.
LEMMA OwningKeeps ==
    ASSUME ConsoleInv, NEW r \in Callers, run[r].pc \in AtWork,
           run[r].got \in 1 .. Len(consent)
    PROVE  LET rec == Owning(run[r])
           IN  /\ RunOK(rec, consent, made, facts, mixed)
               /\ rec \in Runs /\ rec.pc = run[r].pc /\ rec.ops = run[r].ops
               /\ rec.at = run[r].at /\ rec.call = run[r].call /\ rec.guided = run[r].guided
               /\ rec.step = run[r].step /\ rec.saw = run[r].saw /\ rec.on = run[r].on
               /\ rec.user = run[r].user /\ rec.got = run[r].got /\ rec.code = run[r].code
<1> DEFINE rec == Owning(run[r])
<1>1. /\ run[r] \in Runs /\ RunOK(run[r], consent, made, facts, mixed)
      /\ KeepsOK(run[r], consent, made)
  BY RunFacts
<1>2. /\ rec \in Runs /\ rec.pc = run[r].pc /\ rec.ops = run[r].ops /\ rec.at = run[r].at
      /\ rec.call = run[r].call /\ rec.guided = run[r].guided /\ rec.step = run[r].step
      /\ rec.saw = run[r].saw /\ rec.on = run[r].on /\ rec.user = run[r].user
      /\ rec.got = run[r].got /\ rec.code = run[r].code
      /\ rec.own = run[r].own \cup {run[r].got}
  BY <1>1, ShownFacts DEF Runs, Owning
<1> HIDE DEF rec
<1>3. KeepsOK(rec, consent, made)
  BY <1>1, <1>2 DEF KeepsOK
<1>4. OpOf(rec) = OpOf(run[r]) /\ \A n \in {1, 2, 3} : Past(rec, n) <=> Past(run[r], n)
  BY <1>2 DEF OpOf, Past
<1>5. Ready(rec, OpOf(rec))
  BY <1>1, <1>2, <1>4 DEF RunOK, PlaceOK, Ready, Reads, Target, Given
<1>6. PlaceOK(rec)
  BY <1>1, <1>2, <1>4, <1>5 DEF RunOK, PlaceOK
<1>7. DeedsOK(rec, consent, made, facts, mixed)
  BY <1>1, <1>2, <1>4 DEF RunOK, DeedsOK
<1>8. RunOK(rec, consent, made, facts, mixed)
  BY <1>1, <1>2, <1>3, <1>6, <1>7 DEF RunOK, AtWork
<1> QED
  BY <1>2, <1>8 DEF rec

LEMMA RequestConsentKeeps ==
    ASSUME ConsoleInv, NEW r \in Callers, RequestConsent(r)
    PROVE  ConsoleInv'
<1> DEFINE rec == Owning(run[r])
<1>1. /\ Back(r, {"request"}) /\ Proceed(r, rec) /\ UNCHANGED Elsewhere
      /\ Op(r) = "request" /\ Past(run[r], 1) /\ run[r].pc \in AtWork
  BY BackFacts DEF RequestConsent, Telling
<1>2. "requestConsent" \in facts /\ run[r].got \in 1 .. Len(consent)
  BY <1>1, BackFacts, RunFacts DEF DeedsOK
<1>3. /\ {"requestConsent"} \in SUBSET Boxes /\ covered' = covered \cup {"requestConsent"}
      /\ {"requestConsent"} \ {"expiredThenRenew"}
            \subseteq facts \cup IF mixed THEN {"nomineeApproval"} ELSE {}
      /\ OwnBox(Op(r)) \in {"requestConsent"} \cup {"none"}
      /\ Op(r) # "reuse" /\ Op(r) # "ckyc"
  BY <1>1, <1>2 DEF RequestConsent, Tick, Boxes, OwnBox
<1>4. consent[run[r].got].token \in 1 .. made
  BY <1>2 DEF ConsoleInv, ServicesInv
<1>5. \E t \in 0 .. made :
          shown' = [token |-> t, consent |-> run[r].got, assertion |-> shown.assertion,
                    expired |-> shown.expired]
  <2>1. shown' = [shown EXCEPT !.consent = run[r].got,
                               !.token = IF Reads(run[r]).token = 0 THEN consent[run[r].got].token
                                         ELSE shown.token]
    BY DEF RequestConsent
  <2>2. CASE Reads(run[r]).token = 0
    <3>1. shown' = [token |-> consent[run[r].got].token, consent |-> run[r].got,
                    assertion |-> shown.assertion, expired |-> shown.expired]
      BY <2>1, <2>2, ShownFacts DEF Shows
    <3>2. consent[run[r].got].token \in 0 .. made
      BY <1>4, ShownFacts
    <3> QED
      BY <3>1, <3>2
  <2>3. CASE Reads(run[r]).token # 0
    <3>1. shown' = [token |-> shown.token, consent |-> run[r].got,
                    assertion |-> shown.assertion, expired |-> shown.expired]
      BY <2>1, <2>3, ShownFacts DEF Shows
    <3> QED
      BY <3>1, ShownFacts
  <2> QED
    BY <2>2, <2>3
<1>6. shown' \in Shows /\ ShownOK(shown', consent, made)
  <2>1. run[r].got \in 0 .. Len(consent)
    BY <1>2, ShownFacts
  <2> QED
    BY <1>5, <2>1, ShownFacts, ShownBecomes
<1>7. /\ RunOK(rec, consent, made, facts, mixed) /\ rec.pc = run[r].pc
      /\ rec.ops = run[r].ops /\ rec.at = run[r].at /\ rec.call = run[r].call
      /\ rec.guided = run[r].guided /\ rec.step = run[r].step /\ rec.saw = run[r].saw
  BY <1>1, <1>2, OwningKeeps
<1> HIDE DEF rec
<1> QED
  BY <1>1, <1>3, <1>6, <1>7, ProceedKeeps

LEMMA ApproveConsentKeeps ==
    ASSUME ConsoleInv, NEW r \in Callers, ApproveConsent(r)
    PROVE  ConsoleInv'
<1>1. /\ Back(r, {"approve", "nominee"}) /\ UNCHANGED Elsewhere
      /\ Op(r) \in {"approve", "nominee"} /\ Past(run[r], 1)
      /\ Op(r) # "reuse" /\ Op(r) # "ckyc"
  BY BackFacts DEF ApproveConsent, Telling
<1>2. /\ "walletApprove" \in facts /\ run[r].got \in 1 .. Len(consent)
      /\ Op(r) = "nominee" => "nomineeApproval" \in facts \/ mixed
  BY <1>1, BackFacts, RunFacts DEF DeedsOK
<1>3. CASE IsLastCall(r)
  <2> DEFINE T == ApprovalBoxes(Op(r))
  <2>1. /\ T \in SUBSET Boxes /\ covered' = covered \cup T
        /\ T \ {"expiredThenRenew"} \subseteq facts \cup IF mixed THEN {"nomineeApproval"} ELSE {}
        /\ OwnBox(Op(r)) \in T \cup {"none"} /\ shown' = shown /\ Proceed(r, run[r])
    BY <1>1, <1>2, <1>3 DEF ApproveConsent, ApprovalBoxes, Tick, Boxes, OwnBox
  <2> HIDE DEF T
  <2> QED
    BY <1>1, <2>1, ShownFacts, ProceedsKeep
<1>4. CASE ~IsLastCall(r)
  <2> DEFINE rec == Owning(run[r])
  <2>1. /\ {} \in SUBSET Boxes /\ covered' = covered \cup {}
        /\ {} \ {"expiredThenRenew"}
              \subseteq facts \cup IF mixed THEN {"nomineeApproval"} ELSE {}
        /\ shown' = [shown EXCEPT !.consent = run[r].got, !.assertion = run[r].got]
        /\ Proceed(r, rec)
    BY <1>1, <1>4 DEF ApproveConsent
  <2>2. run[r].pc \in AtWork
    BY <1>1, BackFacts
  <2>3. /\ rec \in Runs /\ rec.pc = run[r].pc /\ rec.ops = run[r].ops /\ rec.at = run[r].at
        /\ rec.call = run[r].call /\ rec.guided = run[r].guided /\ rec.step = run[r].step
        /\ rec.saw = run[r].saw /\ rec.on = run[r].on /\ rec.user = run[r].user
        /\ rec.got = run[r].got /\ rec.code = run[r].code
        /\ RunOK(rec, consent, made, facts, mixed)
    BY <1>2, <2>2, OwningKeeps
  <2> HIDE DEF rec
  <2>5. shown' = [token |-> shown.token, consent |-> run[r].got, assertion |-> run[r].got,
                  expired |-> shown.expired]
    BY <2>1, ShownFacts DEF Shows
  <2>6. shown' \in Shows /\ ShownOK(shown', consent, made)
    <3>1. run[r].got \in 0 .. Len(consent)
      BY <1>2, ShownFacts
    <3> QED
      BY <1>2, <2>5, <3>1, ShownFacts, ShownBecomes
  <2> QED
    BY <1>1, <1>4, <2>1, <2>3, <2>6, ProceedKeeps
<1> QED
  BY <1>3, <1>4

\* A row's consents are there.
LEMMA TargetIsThere ==
    ASSUME ConsoleInv, NEW r \in Callers
    PROVE  Target(run[r]) \in 0 .. Len(consent)
<1>1. run[r] \in Runs /\ KeepsOK(run[r], consent, made) /\ Len(consent) \in Nat
  BY RunFacts, ShownFacts
<1>2. CASE Given(run[r])
  <2>1. run[r].at \in 1 .. Len(run[r].on)
    BY <1>1, <1>2 DEF Given, Runs
  <2> QED
    BY <1>1, <1>2, <2>1 DEF Target, KeepsOK
<1>3. CASE ~Given(run[r])
  BY <1>1, <1>3 DEF Target, Reads, KeepsOK, ShownOK
<1> QED
  BY <1>2, <1>3

LEMMA RejectOrRevokeConsentKeeps ==
    ASSUME ConsoleInv, NEW r \in Callers, RejectOrRevokeConsent(r)
    PROVE  ConsoleInv'
<1>1. /\ Back(r, {"reject", "revoke"}) /\ Proceed(r, run[r]) /\ UNCHANGED Elsewhere
      /\ Op(r) \in {"reject", "revoke"} /\ covered' = covered
  BY BackFacts DEF RejectOrRevokeConsent
<1>2. /\ {} \in SUBSET Boxes /\ covered' = covered \cup {}
      /\ {} \ {"expiredThenRenew"} \subseteq facts \cup IF mixed THEN {"nomineeApproval"} ELSE {}
      /\ Op(r) # "reuse" /\ Op(r) # "ckyc" /\ Op(r) \notin Walked
  BY <1>1 DEF Walked
<1>3. shown' \in Shows /\ ShownOK(shown', consent, made)
  <2>1. CASE IsLastCall(r)
    BY <2>1, ShownFacts DEF RejectOrRevokeConsent
  <2>2. CASE ~IsLastCall(r)
    <3>1. shown' = [shown EXCEPT !.consent = Target(run[r]), !.assertion = 0]
      BY <2>2 DEF RejectOrRevokeConsent
    <3>2. shown' = [token |-> shown.token, consent |-> Target(run[r]), assertion |-> 0,
                    expired |-> shown.expired]
      BY <3>1, ShownFacts DEF Shows
    <3>3. 0 \in 0 .. Len(consent)
      BY ShownFacts
    <3> QED
      BY <3>2, <3>3, ShownFacts, TargetIsThere, ShownBecomes
  <2> QED
    BY <2>1, <2>2
<1> QED
  BY <1>1, <1>2, <1>3, ProceedsKeep

LEMMA VerifyAssertionSuccessKeeps ==
    ASSUME ConsoleInv, NEW r \in Callers, VerifyAssertionSuccess(r)
    PROVE  ConsoleInv'
<1>1. /\ Back(r, {"verify"}) /\ UNCHANGED Elsewhere /\ shown' = shown
      /\ Op(r) = "verify" /\ Past(run[r], 1) /\ run[r].pc \in AtWork
  BY BackFacts DEF VerifyAssertionSuccess, Telling
<1>2. CASE run[r].code # "OK"
  <2>1. Throw(r, run[r], "none") /\ UNCHANGED <<shown, covered>>
    BY <1>2 DEF VerifyAssertionSuccess
  <2> QED
    BY <1>1, <2>1, ThrowKeeps
<1>3. CASE run[r].code = "OK"
  <2>1. "fiVerifySuccess" \in facts
    BY <1>1, <1>3, RunFacts DEF DeedsOK
  <2> DEFINE T == IF IsLastCall(r) THEN {"fiVerifySuccess"} ELSE {}
  <2>2. /\ T \in SUBSET Boxes /\ covered' = covered \cup T
        /\ T \ {"expiredThenRenew"} \subseteq facts \cup IF mixed THEN {"nomineeApproval"} ELSE {}
        /\ IsLastCall(r) => OwnBox(Op(r)) \in T \cup {"none"}
        /\ Proceed(r, run[r])
        /\ Op(r) # "reuse" /\ Op(r) # "ckyc"
    BY <1>1, <1>3, <2>1 DEF VerifyAssertionSuccess, Tick, Boxes, OwnBox
  <2> HIDE DEF T
  <2> QED
    BY <1>1, <2>2, ShownFacts, ProceedsKeep
<1> QED
  BY <1>2, <1>3

LEMMA VerifyExpectedFailureKeeps ==
    ASSUME ConsoleInv, NEW r \in Callers, VerifyExpectedFailure(r)
    PROVE  ConsoleInv'
<1> DEFINE failing == {"failNotActive", "failRejected", "failExpired"}
<1>1. /\ Back(r, failing) /\ UNCHANGED Elsewhere
      /\ Op(r) \in failing /\ Past(run[r], 1) /\ run[r].pc \in AtWork
  BY BackFacts DEF VerifyExpectedFailure, Telling
<1>2. CASE run[r].code # Expected(Op(r))
  <2>1. Throw(r, run[r], "none") /\ UNCHANGED <<shown, covered>>
    BY <1>2 DEF VerifyExpectedFailure
  <2> QED
    BY <1>1, <2>1, ThrowKeeps
<1>3. CASE run[r].code = Expected(Op(r))
  <2>1. Box(run[r].code) \in facts \cup {"expired"}
    BY <1>1, <1>3, RunFacts DEF DeedsOK
  <2> DEFINE T == {Box(run[r].code)} \cap Boxes
  <2>2. /\ shown' = [shown EXCEPT !.expired = @ \/ Op(r) = "failExpired"]
        /\ covered' = covered \cup T /\ Proceed(r, run[r])
    BY <1>3 DEF VerifyExpectedFailure, Tick
  <2>3. /\ T \in SUBSET Boxes
        /\ T \ {"expiredThenRenew"} \subseteq facts \cup IF mixed THEN {"nomineeApproval"} ELSE {}
    BY <2>1 DEF Boxes
  <2>4. Op(r) \in Walked => OwnBox(Op(r)) \in T \cup {"none"}
    BY <1>1, <1>3 DEF Walked, OwnBox, Box, Expected, Boxes
  <2>5. Op(r) # "reuse" /\ Op(r) # "ckyc"
    BY <1>1
  <2>6. shown' \in Shows /\ ShownOK(shown', consent, made)
    <3>1. PICK e \in BOOLEAN : e <=> (shown.expired \/ Op(r) = "failExpired")
      OBVIOUS
    <3>2. shown' = [token |-> shown.token, consent |-> shown.consent,
                    assertion |-> shown.assertion, expired |-> e]
      BY <2>2, <3>1, ShownFacts DEF Shows
    <3> QED
      BY <3>2, ShownFacts, ShownBecomes
  <2> HIDE DEF T, failing
  <2> QED
    BY <1>1, <2>2, <2>3, <2>4, <2>5, <2>6, ProceedsKeep
<1> QED
  BY <1>2, <1>3

LEMMA RevokeTokenKeeps ==
    ASSUME ConsoleInv, NEW r \in Callers, RevokeToken(r)
    PROVE  ConsoleInv'
<1>1. /\ Back(r, {"revokeToken"}) /\ UNCHANGED Elsewhere /\ shown' = shown
      /\ Proceed(r, run[r])
      /\ Op(r) = "revokeToken" /\ Past(run[r], 1) /\ run[r].pc \in AtWork
  BY BackFacts DEF RevokeToken, Telling
<1>2. "revokeToken" \in facts
  BY <1>1, RunFacts DEF DeedsOK
<1> DEFINE T == IF IsLastCall(r) THEN {"revokeToken"} ELSE {}
<1>3. /\ T \in SUBSET Boxes /\ covered' = covered \cup T
      /\ T \ {"expiredThenRenew"} \subseteq facts \cup IF mixed THEN {"nomineeApproval"} ELSE {}
      /\ IsLastCall(r) => OwnBox(Op(r)) \in T \cup {"none"}
      /\ Op(r) # "reuse" /\ Op(r) # "ckyc"
  BY <1>1, <1>2 DEF RevokeToken, Tick, Boxes, OwnBox
<1> HIDE DEF T
<1> QED
  BY <1>1, <1>3, ShownFacts, ProceedsKeep

LEMMA RenewConsentKeeps ==
    ASSUME ConsoleInv, NEW r \in Callers, RenewConsent(r)
    PROVE  ConsoleInv'
<1>1. /\ Back(r, {"renew"}) /\ UNCHANGED Elsewhere /\ Proceed(r, run[r])
      /\ Op(r) = "renew" /\ Past(run[r], 1) /\ run[r].pc \in AtWork
      /\ shown' = [shown EXCEPT !.consent = run[r].got]
  BY BackFacts DEF RenewConsent, Telling
<1>2. run[r].got \in 1 .. Len(consent)
  BY <1>1, RunFacts DEF DeedsOK
<1> DEFINE T == IF Reads(run[r]).expired THEN {"expiredThenRenew"} ELSE {}
<1>3. /\ T \in SUBSET Boxes /\ covered' = covered \cup T
      /\ T \ {"expiredThenRenew"} \subseteq facts \cup IF mixed THEN {"nomineeApproval"} ELSE {}
      /\ Op(r) \notin Walked
      /\ Op(r) # "reuse" /\ Op(r) # "ckyc"
  BY <1>1 DEF RenewConsent, Tick, Boxes, Walked
<1>4. shown' \in Shows /\ ShownOK(shown', consent, made)
  <2>1. shown' = [token |-> shown.token, consent |-> run[r].got,
                  assertion |-> shown.assertion, expired |-> shown.expired]
    BY <1>1, ShownFacts DEF Shows
  <2>2. run[r].got \in 0 .. Len(consent)
    BY <1>2, ShownFacts
  <2> QED
    BY <2>1, <2>2, ShownFacts, ShownBecomes
<1> HIDE DEF T
<1> QED
  BY <1>1, <1>3, <1>4, ProceedsKeep

LEMMA RunFi2ReuseKeeps ==
    ASSUME ConsoleInv, NEW r \in Callers, RunFi2Reuse(r)
    PROVE  ConsoleInv'
<1>1. /\ Back(r, {"reuse"}) /\ UNCHANGED Elsewhere /\ shown' = shown
      /\ Op(r) = "reuse" /\ Past(run[r], 1) /\ run[r].pc \in AtWork /\ run[r].pc = "answered"
      /\ run[r].call \in 1 .. Len(Calls[Op(r)])
  BY BackFacts DEF RunFi2Reuse, Telling
<1>2. CASE run[r].code # "OK"
  <2>1. Throw(r, run[r], "none") /\ UNCHANGED <<shown, covered>>
    BY <1>2 DEF RunFi2Reuse
  <2> QED
    BY <1>1, <2>1, ThrowKeeps
<1>3. CASE run[r].code = "OK"
  <2>0. Calls["reuse"] = << <<"fi", "request">>, <<"wallet", "approve">>, <<"none", "verify">> >>
    BY CallsAre
  <2>1. /\ run[r].call \in 1 .. 3 /\ (Call(r) = "request" <=> run[r].call = 1)
        /\ IsLastCall(r) <=> run[r].call = 3
    BY <1>1, <2>0 DEF Call, IsLastCall
  <2>2. /\ run[r].call = 1 => run[r].got \in 1 .. Len(consent)
        /\ run[r].call > 1 => run[r].on # <<>>
        /\ run[r].call = 3 => "crossReuse" \in facts
    BY <1>1, <1>3, RunFacts DEF DeedsOK, Past
  <2> DEFINE T == IF IsLastCall(r) THEN {"crossReuse"} ELSE {}
             on == IF Call(r) = "request" THEN <<run[r].got>> ELSE run[r].on
             rec == [run[r] EXCEPT !.on = IF Call(r) = "request" THEN <<run[r].got>> ELSE @]
  <2>3. /\ T \in SUBSET Boxes /\ covered' = covered \cup T
        /\ T \ {"expiredThenRenew"} \subseteq facts \cup IF mixed THEN {"nomineeApproval"} ELSE {}
        /\ Op(r) \notin Walked /\ Op(r) # "ckyc"
    BY <1>1, <1>3, <2>1, <2>2 DEF RunFi2Reuse, Tick, Boxes, Walked
  <2>4. Proceed(r, rec)
    BY <1>3 DEF RunFi2Reuse
  <2>5. /\ run[r] \in Runs /\ RunOK(run[r], consent, made, facts, mixed)
        /\ KeepsOK(run[r], consent, made) /\ run[r].pc \in AtWork
    BY <1>1, RunFacts
  <2>6. /\ on \in Seq(Nat) /\ on # <<>> /\ \A i \in 1 .. Len(on) : on[i] \in 1 .. Len(consent)
    <3>1. CASE run[r].call = 1
      <4>1. on = <<run[r].got>> /\ run[r].got \in 1 .. Len(consent) /\ run[r].got \in Nat
        BY <2>1, <2>2, <3>1, ShownFacts
      <4> HIDE DEF on
      <4> QED
        BY <4>1
    <3>2. CASE run[r].call # 1
      BY <2>1, <2>2, <2>5, <3>2 DEF Runs, KeepsOK
    <3> QED
      BY <3>1, <3>2
  <2>7. rec = [run[r] EXCEPT !.on = on]
    OBVIOUS
  <2> HIDE DEF rec, on
  <2>8. /\ rec \in Runs /\ rec.pc = run[r].pc /\ rec.ops = run[r].ops /\ rec.at = run[r].at
        /\ rec.call = run[r].call /\ rec.guided = run[r].guided /\ rec.step = run[r].step
        /\ rec.saw = run[r].saw /\ rec.on = on /\ rec.user = run[r].user
        /\ rec.got = run[r].got /\ rec.code = run[r].code
        /\ rec.own = run[r].own
    BY <2>5, <2>6, <2>7 DEF Runs
  <2>9. RunOK(rec, consent, made, facts, mixed)
    <3>1. KeepsOK(rec, consent, made)
      BY <2>5, <2>6, <2>8 DEF KeepsOK
    <3>2. /\ OpOf(rec) = "reuse" /\ OpOf(run[r]) = "reuse"
          /\ \A n \in {1, 2, 3} : Past(rec, n) <=> Past(run[r], n)
      BY <1>1, <2>8 DEF OpOf, Past, Op
    <3>3. RowOK(rec.ops, rec.on)
      <4>1. RowOK(run[r].ops, run[r].on) /\ run[r].at \in 1 .. Len(run[r].ops)
        BY <2>5 DEF RunOK, PlaceOK
      <4>2. Len(run[r].ops) = 1
        BY <3>2, <4>1 DEF RowOK, OpOf
      <4>3. \A i \in 1 .. Len(run[r].ops) : run[r].ops[i] = "reuse"
        <5>1. run[r].ops[1] = "reuse"
          BY <3>2, <4>1, <4>2 DEF OpOf
        <5> QED
          BY <4>2, <5>1
      <4> QED
        BY <2>8, <4>1, <4>3 DEF RowOK
    <3>4. Ready(rec, OpOf(rec))
      BY <2>5, <2>8, <3>2 DEF RunOK, PlaceOK, Ready, Reads
    <3>5. PlaceOK(rec)
      BY <2>5, <2>8, <3>2, <3>3, <3>4 DEF RunOK, PlaceOK
    <3>6. DeedsOK(rec, consent, made, facts, mixed)
      BY <2>2, <2>5, <2>6, <2>8, <3>2 DEF RunOK, DeedsOK
    <3> QED
      BY <2>5, <2>8, <3>1, <3>5, <3>6 DEF RunOK, AtWork
  <2>10. Op(r) = "reuse" => rec.on # <<>>
    BY <2>6, <2>8
  <2> HIDE DEF T
  <2> QED
    BY <1>1, <2>3, <2>4, <2>8, <2>9, <2>10, ShownFacts, ProceedKeeps
<1> QED
  BY <1>2, <1>3

\* Operations of which nothing but lists is shown are no steps.
LEMMA GoesOnKeeps ==
    ASSUME ConsoleInv, NEW r \in Callers, NEW ops, ops \cap (Walked \cup {"reuse"}) = {},
           GoesOn(r, ops)
    PROVE  ConsoleInv'
<1>1. /\ Back(r, ops) /\ UNCHANGED Elsewhere /\ shown' = shown /\ Proceed(r, run[r])
      /\ Op(r) \notin Walked \cup {"reuse"}
      /\ {} \in SUBSET Boxes /\ covered' = covered \cup {}
      /\ {} \ {"expiredThenRenew"} \subseteq facts \cup IF mixed THEN {"nomineeApproval"} ELSE {}
  BY BackFacts DEF GoesOn
<1>2. Op(r) # "ckyc"
  BY <1>1 DEF Walked
<1> QED
  BY <1>1, <1>2, ShownFacts, ProceedsKeep

LEMMA ListsKeep ==
    ASSUME ConsoleInv, NEW r \in Callers,
           \/ AddNomineeDelegation(r) \/ RevokeDelegation(r) \/ CreateNominee(r)
           \/ SetNomineeStatus(r) \/ RefreshWalletConsents(r) \/ RefreshWalletTokens(r)
           \/ RefreshWalletReviewStatus(r) \/ RefreshDelegations(r) \/ RefreshNominees(r)
           \/ RefreshLifecycleJobs(r) \/ RefreshServiceHealth(r) \/ RefreshFiTokenCoverage(r)
           \/ RefreshFiConsentBinding(r) \/ CheckActiveToken(r) \/ RunLifecycleNow(r)
           \/ LoadDueUsers(r) \/ SimulateDemoData(r)
    PROVE  ConsoleInv'
<1>1. PICK ops \in SUBSET {"delegate", "undelegate", "saveNominee", "enable", "disable", "list",
                           "tokens", "reviewStatus", "delegations", "nominees", "jobs", "health",
                           "coverage", "binding", "precheck", "lifecycle", "due", "simulateDemo"} :
          GoesOn(r, ops)
  BY DEF AddNomineeDelegation, RevokeDelegation, CreateNominee, SetNomineeStatus,
         RefreshWalletConsents, RefreshWalletTokens, RefreshWalletReviewStatus,
         RefreshDelegations, RefreshNominees, RefreshLifecycleJobs, RefreshServiceHealth,
         RefreshFiTokenCoverage, RefreshFiConsentBinding, CheckActiveToken, RunLifecycleNow,
         LoadDueUsers, SimulateDemoData
<1>2. ops \cap (Walked \cup {"reuse"}) = {}
  BY <1>1 DEF Walked
<1> QED
  BY <1>1, <1>2, GoesOnKeeps

LEMMA OnboardUserFromFiKeeps ==
    ASSUME ConsoleInv, NEW r \in Callers, OnboardUserFromFi(r)
    PROVE  ConsoleInv'
<1>1. /\ Back(r, {"onboard"}) /\ UNCHANGED Elsewhere /\ UNCHANGED <<shown, covered>>
      /\ OpDone(r, run[r]) /\ Op(r) \notin Walked /\ run[r].pc \in AtWork
  BY BackFacts DEF OnboardUserFromFi, Walked
<1> QED
  BY <1>1, OpDoneKeeps

LEMMA RunCkycSupersedeKeeps ==
    ASSUME ConsoleInv, NEW r \in Callers, RunCkycSupersede(r)
    PROVE  ConsoleInv'
<1>1. /\ Back(r, {"ckyc"}) /\ UNCHANGED Elsewhere
      /\ Op(r) = "ckyc" /\ run[r].pc \in AtWork
      /\ run[r].call = 2 => run[r].pc = "answered"
      /\ run[r].call \in 1 .. Len(Calls[Op(r)])
  BY BackFacts DEF RunCkycSupersede, Telling
<1>2. Calls["ckyc"] = << <<"none", "simulate">>, <<"wallet", "sync">>, <<"wallet", "evidence">> >>
  BY CallsAre
<1>3. /\ run[r].call \in 1 .. 3 /\ (Call(r) = "sync" <=> run[r].call = 2)
      /\ IsLastCall(r) <=> run[r].call = 3
  BY <1>1, <1>2 DEF Call, IsLastCall
<1>4. /\ run[r].call = 2 /\ run[r].got # 0 => run[r].got \in 1 .. made
      /\ run[r].call > 2 => "ckycSupersede" \in facts
  BY <1>1, RunFacts DEF DeedsOK, Past
<1> DEFINE T == IF IsLastCall(r) THEN {"ckycSupersede"} ELSE {}
<1>5. /\ T \in SUBSET Boxes /\ covered' = covered \cup T
      /\ T \ {"expiredThenRenew"} \subseteq facts \cup IF mixed THEN {"nomineeApproval"} ELSE {}
      /\ OwnBox(Op(r)) = "none" /\ Op(r) # "reuse"
  BY <1>1, <1>3, <1>4 DEF RunCkycSupersede, Tick, Boxes, OwnBox
<1>6. CASE Call(r) = "sync" /\ run[r].got = 0
  <2>1. OpDone(r, run[r]) /\ shown' = shown /\ covered' = covered
    BY <1>3, <1>5, <1>6 DEF RunCkycSupersede
  <2> QED
    BY <1>1, <1>5, <2>1, OpDoneKeeps
<1>7. CASE ~(Call(r) = "sync" /\ run[r].got = 0)
  <2>1. Proceed(r, run[r]) /\ (Op(r) = "ckyc" /\ run[r].call = 2 => run[r].got # 0)
    BY <1>3, <1>7 DEF RunCkycSupersede
  <2>2. shown' \in Shows /\ ShownOK(shown', consent, made)
    <3>1. CASE Call(r) = "sync"
      <4>1. shown' = [shown EXCEPT !.token = run[r].got]
        BY <1>7, <3>1 DEF RunCkycSupersede
      <4>2. shown' = [token |-> run[r].got, consent |-> shown.consent,
                      assertion |-> shown.assertion, expired |-> shown.expired]
        BY <4>1, ShownFacts DEF Shows
      <4>3. run[r].got \in 0 .. made
        BY <1>3, <1>4, <1>7, <3>1, ShownFacts
      <4> QED
        BY <4>2, <4>3, ShownFacts, ShownBecomes
    <3>2. CASE Call(r) # "sync"
      BY <3>2, ShownFacts DEF RunCkycSupersede
    <3> QED
      BY <3>1, <3>2
  <2> HIDE DEF T
  <2> QED
    BY <1>1, <1>5, <2>1, <2>2, ProceedsKeep
<1> QED
  BY <1>6, <1>7

LEMMA RunReviewOnceKeeps ==
    ASSUME ConsoleInv, NEW r \in Callers, RunReviewOnce(r)
    PROVE  ConsoleInv'
<1>1. /\ Back(r, {"review"}) /\ Proceed(r, run[r]) /\ UNCHANGED Elsewhere /\ shown' = shown
      /\ Op(r) = "review" /\ Past(run[r], 1) /\ run[r].pc \in AtWork
  BY BackFacts DEF RunReviewOnce, Telling
<1>2. "periodicReview" \in facts
  BY <1>1, RunFacts DEF DeedsOK
<1>3. /\ {"periodicReview"} \in SUBSET Boxes /\ covered' = covered \cup {"periodicReview"}
      /\ {"periodicReview"} \ {"expiredThenRenew"}
            \subseteq facts \cup IF mixed THEN {"nomineeApproval"} ELSE {}
      /\ OwnBox(Op(r)) \in {"periodicReview"} \cup {"none"}
      /\ Op(r) # "reuse" /\ Op(r) # "ckyc"
  BY <1>1, <1>2 DEF RunReviewOnce, Tick, Boxes, OwnBox
<1> QED
  BY <1>1, <1>3, ShownFacts, ProceedsKeep

\* The walkthrough wakes up for its next step, or is over.
LEMMA WakeKeeps ==
    ASSUME ConsoleInv, NEW r \in Callers, Wake(r)
    PROVE  ConsoleInv'
<1>1. /\ run[r].pc = "asleep" /\ run[r].pc # "idle" /\ run[r].pc \notin AtWork
      /\ UNCHANGED Elsewhere /\ UNCHANGED <<shown, covered>>
  BY DEF Wake, Elsewhere, AtWork
<1>2. /\ ServicesInv /\ BusyInv /\ run[r] \in Runs /\ KeepsOK(run[r], consent, made)
      /\ run[r].guided /\ run[r].step \in 1 .. LastStep
  BY <1>1, RunFacts DEF RunOK, ConsoleInv
<1>3. /\ shown' \in Shows /\ ShownOK(shown', consent, made)
      /\ {} \in SUBSET Boxes /\ covered' = covered \cup {}
      /\ {} \ {"expiredThenRenew"} \subseteq facts \cup IF mixed THEN {"nomineeApproval"} ELSE {}
  BY <1>1, ShownFacts
<1>4. CASE run[r].step < LastStep
  <2> DEFINE k == run[r].step
             rec == StepRow(k, run[r].saw, run[r].own)
  <2>1. BeginStep(r, k, run[r].saw, run[r].own, busy) /\ OthersBusy(r, busy)
    BY <1>1, <1>2, <1>4, BusyOfOthers DEF Wake
  <2>2. /\ k \in 0 .. LastStep - 1 /\ run[r].saw \in Renderings
        /\ ShownOK(run[r].saw.shown, consent, made)
        /\ run[r].own \in SUBSET (1 .. Len(consent))
    BY <1>2, <1>4, RowSizes DEF KeepsOK, Runs
  <2>3. /\ rec.guided /\ rec.step = k /\ rec.saw = run[r].saw
        /\ \E R : Outcome(r, rec, R, k = 9)
    BY <1>2, <2>1, <2>2, BeginStepBegins
  <2>4. PICK R : Outcome(r, rec, R, k = 9)
    BY <2>3
  <2>5. k = 9 /\ run[r].guided => GuidedBoxes[k + 1] \in {} \cup {"none"}
    BY <2>2, StepsAreRows
  <2> HIDE DEF rec
  <2>6. (rec.guided <=> run[r].guided) /\ rec.step = run[r].step /\ rec.saw = run[r].saw
    BY <1>2, <2>3
  <2> QED
    BY <1>1, <1>3, <2>4, <2>5, <2>6, GoOnKeeps
<1>5. CASE ~(run[r].step < LastStep)
  <2>1. /\ run' = [run EXCEPT ![r] = Idle]
        /\ guided' = [DefaultGuided EXCEPT !.step = LastStep, !.status = "done"]
        /\ UNCHANGED <<ask, busy>> /\ run[r].step = LastStep
    BY <1>2, <1>5, RowSizes DEF Wake
  <2>2. ask' = [ask EXCEPT ![r] = NotAsking]
    <3>1. ask[r] = NotAsking /\ ask \in [Callers -> Askings]
      BY <1>1 DEF ConsoleInv, RunsInv, SessionInv, SessionTypeOK
    <3> QED
      BY <2>1, <3>1
  <2>3. Moves(r, Idle)
    BY <2>1, <2>2, IdleFacts DEF Moves
  <2>4. BusyAfter(r, Idle)
    <3>1. OthersBusy(r, busy)
      BY <1>1, <1>2, BusyOfOthers
    <3>2. busy' = busy
      BY <2>1
    <3> QED
      BY <3>1, <3>2 DEF BusyAfter
  <2>5. GuidedAfter(run[r], Idle)
    <3>1. /\ guided'.step = LastStep /\ guided'.status = "done"
          /\ ~guided'.running /\ ~guided'.blocked
      BY <2>1 DEF DefaultGuided
    <3>2. guided' = [step |-> LastStep, running |-> FALSE, status |-> "done", blocked |-> FALSE,
                     waitsFor |-> NoUser]
      BY <2>1 DEF DefaultGuided
    <3>3. LastStep \in Nat
      BY RowSizes
    <3>4. guided' \in Walks
      BY <3>2, <3>3 DEF Walks
    <3> QED
      BY <1>2, <2>1, <3>1, <3>4, IdleFacts DEF GuidedAfter, Resting
  <2>6. Outcome(r, run[r], Idle, FALSE)
    BY <2>3, <2>4, <2>5, IdleOK, ServicesTyped, <1>2, IdleFacts DEF Outcome
  <2> QED
    BY <1>1, <2>6, QuietlyKeeps
<1> QED
  BY <1>4, <1>5

\* What follows an answer, whatever operation it is of.
LEMMA GoOnIsKept ==
    ASSUME ConsoleInv, NEW r \in Callers, GoOn(r)
    PROVE  ConsoleInv'
BY GrantedKeeps, RefusedKeeps, CallFailsKeeps, IssueTokenKeeps, RequestConsentKeeps,
   ApproveConsentKeeps, RejectOrRevokeConsentKeeps, VerifyAssertionSuccessKeeps,
   VerifyExpectedFailureKeeps, RevokeTokenKeeps, RenewConsentKeeps, RunFi2ReuseKeeps, ListsKeep,
   OnboardUserFromFiKeeps, RunCkycSupersedeKeeps, RunReviewOnceKeeps, WakeKeeps DEF GoOn

-----------------------------------------------------------------------------
(* The services answer                                                     *)

\* The newest of any first tokens of S that are among m is one of them.
NewestOf(S, m) ==
    \A k \in 0 .. m : (\E t \in S : t <= k) =>
        \E t \in S : t <= k /\ \A u \in S : u <= k => u <= t

LEMMA NewestIs == NewestInv <=> NewestOf(active, made)
BY DEF NewestInv, NewestOf

LEMMA NewestAdded ==
    ASSUME NEW m \in Nat, NEW S \in SUBSET (1 .. m), NewestOf(S, m)
    PROVE  NewestOf(S \cup {m + 1}, m + 1)
<1> SUFFICES ASSUME NEW k \in 0 .. m + 1, NEW w \in S \cup {m + 1}, w <= k
             PROVE  \E t \in S \cup {m + 1} :
                        t <= k /\ \A u \in S \cup {m + 1} : u <= k => u <= t
  BY DEF NewestOf
<1>1. CASE k = m + 1
  <2>1. \A u \in S \cup {m + 1} : u <= m + 1
    OBVIOUS
  <2> QED
    BY <1>1, <2>1
<1>2. CASE k # m + 1
  <2>1. k \in 0 .. m /\ w \in S
    BY <1>2
  <2>2. PICK t \in S : t <= k /\ \A u \in S : u <= k => u <= t
    BY <2>1 DEF NewestOf
  <2> QED
    BY <2>1, <2>2
<1> QED
  BY <1>1, <1>2

LEMMA NewestRemoved ==
    ASSUME NEW m \in Nat, NEW S \in SUBSET (1 .. m), NewestOf(S, m), NEW x \in S
    PROVE  NewestOf(S \ {x}, m)
<1> SUFFICES ASSUME NEW k \in 0 .. m, NEW w \in S \ {x}, w <= k
             PROVE  \E t \in S \ {x} : t <= k /\ \A u \in S \ {x} : u <= k => u <= t
  BY DEF NewestOf
<1>1. PICK t \in S : t <= k /\ \A u \in S : u <= k => u <= t
  BY DEF NewestOf
<1>2. CASE t # x
  BY <1>1, <1>2
<1>3. CASE t = x
  <2>1. x - 1 \in 0 .. m /\ x \in Nat /\ w \in Nat
    OBVIOUS
  <2>2. w <= x - 1 /\ w \in S
    BY <1>1, <1>3, <2>1
  <2>3. PICK v \in S : v <= x - 1 /\ \A u \in S : u <= x - 1 => u <= v
    BY <2>1, <2>2 DEF NewestOf
  <2>4. v # x /\ v <= k /\ v \in Nat
    BY <1>1, <1>3, <2>1, <2>3
  <2>5. ASSUME NEW u \in S \ {x}, u <= k
        PROVE  u <= v
    <3>1. u <= x /\ u \in Nat
      BY <1>1, <1>3, <2>5
    <3>2. u <= x - 1
      BY <2>1, <3>1
    <3> QED
      BY <2>3, <3>2
  <2> QED
    BY <2>4, <2>5
<1> QED
  BY <1>2, <1>3

LEMMA NewestTokenIs ==
    ASSUME ServicesInv, active # {}
    PROVE  NewestToken \in active /\ NewestToken \in 1 .. made
<1>1. made \in 0 .. made /\ active \subseteq 1 .. made
  BY DEF ServicesInv
<1>2. PICK w \in active : TRUE
  OBVIOUS
<1>3. w <= made
  BY <1>1, <1>2
<1>4. \E t \in active : t <= made /\ \A u \in active : u <= made => u <= t
  BY <1>1, <1>3 DEF ServicesInv, NewestInv
<1>5. \E t \in active : \A u \in active : u <= t
  BY <1>1, <1>4
<1>6. NewestToken \in active
  BY <1>5 DEF NewestToken
<1> QED
  BY <1>1, <1>6

LEMMA ServicesGrow ==
    ASSUME ServicesInv, UNCHANGED history,
           made' \in made .. MaxTokens, active' \subseteq 1 .. made', NewestInv',
           consent' \in Seq(ConsentRows), Len(consent) <= Len(consent'),
           Len(consent') <= MaxConsents,
           \A c \in 1 .. Len(consent') : consent'[c].token \in 1 .. made',
           accepted' \subseteq 1 .. Len(consent'), nominee' \in NomineeStates,
           ahead' \in BOOLEAN, facts \subseteq facts', facts' \subseteq Boxes
    PROVE  ServicesInv' /\ Grow
<1>1. made \in Nat /\ made <= made' /\ made' \in 0 .. MaxTokens
  BY ConsoleAssumption DEF ServicesInv
<1>2. mixed' = mixed /\ started' = started
  BY DEF history
<1> QED
  BY <1>1, <1>2 DEF ServicesInv, Grow

\* Only tokens change, the nominee, the profile.
LEMMA TokensGrow ==
    ASSUME ServicesInv, UNCHANGED history, UNCHANGED <<consent, accepted>>,
           made' \in made .. MaxTokens, active' \subseteq 1 .. made', NewestOf(active', made'),
           nominee' \in NomineeStates, ahead' \in BOOLEAN,
           facts \subseteq facts', facts' \subseteq Boxes
    PROVE  ServicesInv' /\ Grow
<1>1. NewestInv'
  BY DEF NewestInv, NewestOf
<1>2. made \in Nat /\ 1 .. made \subseteq 1 .. made' /\ Len(consent) \in Nat
  BY DEF ServicesInv
<1>3. /\ consent' \in Seq(ConsentRows) /\ Len(consent) <= Len(consent')
      /\ Len(consent') <= MaxConsents
      /\ \A c \in 1 .. Len(consent') : consent'[c].token \in 1 .. made'
      /\ accepted' \subseteq 1 .. Len(consent')
  BY <1>2 DEF ServicesInv
<1> QED
  BY <1>1, <1>3, ServicesGrow

\* Only consents change: one is made, for a token there is.
LEMMA ConsentMade ==
    ASSUME ServicesInv, UNCHANGED history, UNCHANGED <<active, made, accepted, nominee, ahead>>,
           active # {}, Len(consent) < MaxConsents,
           consent' = Append(consent, NewConsent(NewestToken)),
           facts \subseteq facts', facts' \subseteq Boxes
    PROVE  /\ ServicesInv' /\ Grow
           /\ Len(consent') = Len(consent) + 1 /\ Len(consent) + 1 \in 1 .. Len(consent')
           /\ Len(consent) + 1 \in Nat
<1> DEFINE new == NewConsent(NewestToken)
<1>1. /\ consent \in Seq(ConsentRows) /\ Len(consent) \in Nat /\ made \in 0 .. MaxTokens
      /\ made \in Nat /\ MaxConsents \in Nat /\ NewestToken \in 1 .. made
      /\ \A c \in 1 .. Len(consent) : consent[c].token \in 1 .. made
      /\ accepted \subseteq 1 .. Len(consent)
  BY NewestTokenIs, ConsoleAssumption DEF ServicesInv
<1>2. new \in ConsentRows /\ new.token = NewestToken
  BY <1>1 DEF NewConsent, ConsentRows
<1> HIDE DEF new
<1>3. /\ consent' \in Seq(ConsentRows) /\ Len(consent') = Len(consent) + 1
      /\ \A c \in 1 .. Len(consent) : consent'[c] = consent[c]
      /\ consent'[Len(consent) + 1] = new
  <2>1. consent' = Append(consent, new)
    BY DEF new
  <2> QED
    BY <1>1, <1>2, <2>1
<1>4. /\ Len(consent) <= Len(consent') /\ Len(consent') <= MaxConsents
      /\ Len(consent) + 1 \in 1 .. Len(consent') /\ Len(consent) + 1 \in Nat
      /\ 1 .. Len(consent) \subseteq 1 .. Len(consent')
      /\ \A c \in 1 .. Len(consent') : c \in 1 .. Len(consent) \/ c = Len(consent) + 1
  BY <1>1, <1>3
<1>5. \A c \in 1 .. Len(consent') : consent'[c].token \in 1 .. made'
  BY <1>1, <1>2, <1>3, <1>4
<1>6. /\ accepted' \subseteq 1 .. Len(consent')
      /\ made' \in made .. MaxTokens /\ active' \subseteq 1 .. made' /\ NewestInv'
      /\ nominee' \in NomineeStates /\ ahead' \in BOOLEAN
  BY <1>1, <1>3, <1>4 DEF ServicesInv, NewestInv
<1> QED
  BY <1>3, <1>4, <1>5, <1>6, ServicesGrow

\* A consent is decided on, or its time is over.
LEMMA ConsentDecided ==
    ASSUME ServicesInv, UNCHANGED history,
           UNCHANGED <<active, made, nominee, ahead>>, accepted' = accepted,
           NEW c \in 1 .. Len(consent),
           NEW status \in {"APPROVED", "REJECTED", "REVOKED", "EXPIRED"},
           NEW by \in Users \cup {NoUser},
           consent' = [consent EXCEPT ![c] =
                          [status |-> status, token |-> consent[c].token, by |-> by]],
           facts \subseteq facts', facts' \subseteq Boxes
    PROVE  ServicesInv' /\ Grow /\ consent'[c].status = status /\ Len(consent') = Len(consent)
<1> DEFINE row == [status |-> status, token |-> consent[c].token, by |-> by]
<1>1. /\ consent \in Seq(ConsentRows) /\ Len(consent) \in Nat /\ made \in 0 .. MaxTokens
      /\ made \in Nat /\ Len(consent) <= MaxConsents
      /\ \A d \in 1 .. Len(consent) : consent[d].token \in 1 .. made
      /\ accepted \subseteq 1 .. Len(consent)
  BY DEF ServicesInv
<1>2. /\ row \in ConsentRows /\ row.token = consent[c].token /\ row.status = status
  BY <1>1 DEF ConsentRows
<1> HIDE DEF row
<1>3. /\ consent' \in Seq(ConsentRows) /\ Len(consent') = Len(consent)
      /\ \A d \in 1 .. Len(consent) : d # c => consent'[d] = consent[d]
      /\ consent'[c] = row
  <2>1. consent' = [consent EXCEPT ![c] = row]
    BY DEF row
  <2> QED
    BY <1>1, <1>2, <2>1
<1>4. \A d \in 1 .. Len(consent') : consent'[d].token \in 1 .. made'
  BY <1>1, <1>2, <1>3
<1>5. /\ accepted' \subseteq 1 .. Len(consent')
      /\ made' \in made .. MaxTokens /\ active' \subseteq 1 .. made' /\ NewestInv'
      /\ nominee' \in NomineeStates /\ ahead' \in BOOLEAN
      /\ Len(consent) <= Len(consent') /\ Len(consent') <= MaxConsents
  BY <1>1, <1>2, <1>3 DEF ServicesInv, NewestInv
<1> QED
  BY <1>2, <1>3, <1>4, <1>5, ServicesGrow

\* The record of a call that is answered.
AnswerTo(r, got, code) ==
    [run[r] EXCEPT !.pc = "answered", !.got = got, !.code = code, !.user = NoUser]

LEMMA AnswerFacts ==
    ASSUME ConsoleInv, NEW r \in Callers, run[r].pc = "called",
           NEW got \in Nat, NEW code \in Codes, NEW R, R = AnswerTo(r, got, code)
    PROVE  /\ R \in Runs /\ R.pc = "answered" /\ R.got = got /\ R.code = code
           /\ R.ops = run[r].ops /\ R.at = run[r].at /\ R.call = run[r].call
           /\ R.guided = run[r].guided /\ R.step = run[r].step /\ R.saw = run[r].saw
           /\ R.on = run[r].on /\ R.own = run[r].own
           /\ OpOf(R) = Op(r)
           /\ Past(R, run[r].call)
<1>1. run[r] \in Runs
  BY RunFacts
<1>2. /\ R \in Runs /\ R.pc = "answered" /\ R.got = got /\ R.code = code
      /\ R.ops = run[r].ops /\ R.at = run[r].at /\ R.call = run[r].call
      /\ R.guided = run[r].guided /\ R.step = run[r].step /\ R.saw = run[r].saw
      /\ R.on = run[r].on /\ R.own = run[r].own
  BY <1>1 DEF AnswerTo, Runs, AtWork
<1> QED
  BY <1>2 DEF OpOf, Op, Past

LEMMA CallingFacts ==
    ASSUME ConsoleInv, NEW r \in Callers, NEW call, Calling(r, call)
    PROVE  /\ run[r].pc = "called" /\ run[r].pc \in AtWork
           /\ Op(r) \in Ops /\ run[r].call \in 1 .. Len(Calls[Op(r)])
           /\ call = Calls[Op(r)][run[r].call][2]
           /\ run[r].call \in Nat /\ ServicesInv
<1>1. run[r].pc = "called" /\ run[r].pc \in AtWork /\ Call(r) = call
  BY DEF Calling, AtWork
<1> QED
  BY <1>1, RunFacts DEF Call, Runs, ConsoleInv

\* An answer, and what the services have become.
LEMMA ServeKeeps ==
    ASSUME ConsoleInv, NEW r \in Callers, run[r].pc = "called",
           NEW got \in Nat, NEW code \in Codes, Answers(r, got, code),
           ServicesInv', Grow,
           NEW R, R = AnswerTo(r, got, code), DeedsOK(R, consent', made', facts', mixed')
    PROVE  ConsoleInv'
<1>1. /\ SessionInv /\ ServicesInv /\ RunsInv /\ BusyInv /\ GuidedInv /\ CoverInv /\ OneUserInv
  BY DEF ConsoleInv
<1>2. /\ run' = [run EXCEPT ![r] = R]
      /\ UNCHANGED sessionVars /\ UNCHANGED <<shown, busy, covered, guided>> /\ UNCHANGED history
      /\ ask' = ask /\ direct' = direct /\ sso' = sso /\ mixed' = mixed /\ resetAt' = resetAt
  BY DEF Answers, AnswerTo, sessionVars, session, history
<1>3. /\ R \in Runs /\ R.pc = "answered" /\ R.got = got /\ R.code = code
      /\ R.ops = run[r].ops /\ R.at = run[r].at /\ R.call = run[r].call
      /\ R.guided = run[r].guided /\ R.step = run[r].step /\ R.saw = run[r].saw
      /\ R.on = run[r].on /\ R.own = run[r].own
      /\ OpOf(R) = Op(r)
  BY AnswerFacts
<1>4. /\ run' \in [Callers -> Runs] /\ run'[r] = R
      /\ \A q \in Callers \ {r} : run'[q] = run[q]
  BY <1>1, <1>2, <1>3 DEF RunsInv
<1>5. SessionInv'
  <2>1. SessionParts
    BY <1>1, SessionByParts
  <2>2. SessionParts'
    BY <1>2, <2>1 DEF SessionParts, sessionVars, session, budget
  <2> QED
    BY <2>2, SessionByParts, PTL
<1>6. RunOK(R, consent', made', facts', mixed')
  <2>1. RunOK(run[r], consent', made', facts', mixed')
    BY <1>1, RunStays DEF RunsInv
  <2>2. KeepsOK(R, consent', made')
    BY <1>3, <2>1 DEF RunOK, KeepsOK
  <2>3. PlaceOK(run[r])
    BY RunFacts DEF AtWork
  <2>4. OpOf(run[r]) = Op(r)
    BY RunFacts
  <2>5. Ready(R, OpOf(R))
    BY <1>3, <2>3, <2>4 DEF PlaceOK, Ready, Reads, Target, Given
  <2>6. PlaceOK(R)
    BY <1>3, <2>3, <2>4, <2>5 DEF PlaceOK
  <2> QED
    BY <1>3, <2>2, <2>6 DEF RunOK, AtWork
<1>7. RunsInv'
  <2>1. \A q \in Callers : RunOK(run'[q], consent', made', facts', mixed')
    <3>1. ASSUME NEW q \in Callers \ {r}
          PROVE  RunOK(run'[q], consent', made', facts', mixed')
      <4>1. RunOK(run[q], consent, made, facts, mixed)
        BY <1>1 DEF RunsInv
      <4>2. RunOK(run[q], consent', made', facts', mixed')
        BY <1>1, <4>1, RunStays
      <4> QED
        BY <1>4, <4>2
    <3> QED
      BY <1>4, <1>6, <3>1
  <2>2. \A q \in Callers :
            /\ run'[q].pc = "asking" <=> ask'[q].pc # "idle"
            /\ run'[q].pc = "asking" => ask'[q].portal = Calls[OpOf(run'[q])][run'[q].call][1]
    BY <1>1, <1>2, <1>3, <1>4 DEF RunsInv, OpOf, Op
  <2> QED
    BY <1>4, <2>1, <2>2 DEF RunsInv, OpOf, Op
<1>8. BusyInv'
  <2>1. \A q \in Callers : /\ run[q].pc \in AtWork => run'[q].pc \in AtWork
                           /\ run'[q].ops = run[q].ops /\ run'[q].at = run[q].at
                           /\ run'[q].call = run[q].call
    BY <1>3, <1>4 DEF AtWork
  <2> QED
    BY <1>1, <1>2, <2>1 DEF BusyInv, Op
<1>9. GuidedInv'
  <2>1. \A q \in Callers : run'[q].guided = run[q].guided /\ run'[q].step = run[q].step
    BY <1>3, <1>4
  <2>2. Resting => Resting'
    BY <1>2 DEF Resting
  <2> QED
    BY <1>1, <1>2, <2>1, <2>2 DEF GuidedInv
<1>10. CoverInv'
  <2>1. ShownOK(shown, consent', made')
    BY <1>1, ShownStays DEF CoverInv
  <2>2. facts \subseteq facts'
    BY DEF Grow
  <2> QED
    BY <1>1, <1>2, <2>1, <2>2 DEF CoverInv, CoverageTellsTruth, StepsDoneAreCovered
<1>11. OneUserInv'
  <2>1. WalletUsers' = WalletUsers
    BY <1>2 DEF WalletUsers
  <2>2. \A q \in Callers : (run'[q].pc # "idle" <=> run[q].pc # "idle") /\ run'[q].saw = run[q].saw
    BY <1>3, <1>4
  <2>3. InFlight' = InFlight
    BY <2>2 DEF InFlight
  <2>4. CASE mixed
    BY <1>2, <2>4 DEF OneUserInv
  <2>5. CASE ~mixed
    <3>1. PICK u \in Users : /\ InFlight # {} => WalletUsers \subseteq {u, NoUser}
                             /\ \A q \in InFlight : run[q].saw.nominee => u = Nominee
      BY <1>1, <2>5 DEF OneUserInv
    <3>2. \A q \in InFlight' : run'[q].saw.nominee => u = Nominee
      BY <2>2, <2>3, <3>1 DEF InFlight
    <3> QED
      BY <2>1, <2>3, <3>1, <3>2 DEF OneUserInv
  <2> QED
    BY <2>4, <2>5
<1> QED
  BY <1>5, <1>7, <1>8, <1>9, <1>10, <1>11 DEF ConsoleInv

\* The answer to a call that makes nothing the checklist tells of.
LEMMA UntoldKeeps ==
    ASSUME ConsoleInv, NEW r \in Callers, run[r].pc = "called", Op(r) \notin Telling,
           NEW got \in Nat, NEW code \in Codes, Answers(r, got, code), ServicesInv', Grow
    PROVE  ConsoleInv'
<1>1. OpOf(AnswerTo(r, got, code)) = Op(r)
  BY AnswerFacts
<1>2. DeedsOK(AnswerTo(r, got, code), consent', made', facts', mixed')
  BY <1>1, UntoldDeeds
<1> QED
  BY <1>2, ServeKeeps

LEMMA ServeIssueKeeps ==
    ASSUME ConsoleInv, NEW r \in Callers, ServeIssue(r)
    PROVE  ConsoleInv'
<1>1. /\ Calling(r, "issue") /\ Answers(r, made + 1, "OK") /\ "OK" \in Codes
      /\ made' = made + 1 /\ active' = active \cup {made + 1} /\ made < MaxTokens
      /\ facts' = facts \cup {"issueToken"}
      /\ UNCHANGED <<consent, accepted, nominee, ahead>> /\ UNCHANGED history
  BY DEF ServeIssue, Did, Answers, Codes, history
<1>2. /\ run[r].pc = "called" /\ Op(r) = "issue" /\ run[r].call = 1 /\ ServicesInv
  BY <1>1, CallingFacts, CallIs
<1>3. made \in Nat /\ made + 1 \in Nat /\ active \subseteq 1 .. made /\ NewestOf(active, made)
  BY <1>2, NewestIs DEF ServicesInv
<1>4. NewestOf(active', made')
  BY <1>1, <1>3, NewestAdded
<1>5. ServicesInv' /\ Grow
  <2>1. made' \in made .. MaxTokens /\ active' \subseteq 1 .. made'
    BY <1>1, <1>3, ConsoleAssumption
  <2>2. /\ nominee' \in NomineeStates /\ ahead' \in BOOLEAN
        /\ facts \subseteq facts' /\ facts' \subseteq Boxes
    BY <1>1, <1>2 DEF ServicesInv, Boxes
  <2> QED
    BY <1>1, <1>2, <1>4, <2>1, <2>2, TokensGrow
<1> DEFINE R == AnswerTo(r, made + 1, "OK")
<1>6. /\ R.pc = "answered" /\ R.call = run[r].call /\ OpOf(R) = Op(r) /\ R.got = made + 1
  BY <1>1, <1>2, <1>3, AnswerFacts
<1>7. DeedsOK(R, consent', made', facts', mixed')
  <2>1. R.got \in 1 .. made' /\ "issueToken" \in facts'
    BY <1>1, <1>3, <1>6
  <2> HIDE DEF R
  <2> QED
    BY <1>2, <1>6, <2>1 DEF DeedsOK
<1> QED
  BY <1>1, <1>2, <1>3, <1>5, <1>7, ServeKeeps

LEMMA ServeRequestKeeps ==
    ASSUME ConsoleInv, NEW r \in Callers, ServeRequest(r)
    PROVE  ConsoleInv'
<1>1. /\ Calling(r, "request") /\ Answers(r, Len(consent) + 1, "OK") /\ "OK" \in Codes
      /\ active # {} /\ Len(consent) < MaxConsents
      /\ consent' = Append(consent, NewConsent(NewestToken))
      /\ facts' = facts \cup {"requestConsent"}
      /\ UNCHANGED <<active, made, accepted, nominee, ahead>> /\ UNCHANGED history
  BY DEF ServeRequest, Did, Answers, Codes, history
<1>2. /\ run[r].pc = "called" /\ Op(r) \in {"request", "reuse"} /\ run[r].call = 1 /\ ServicesInv
  BY <1>1, CallingFacts, CallIs
<1>3. facts \subseteq facts' /\ facts' \subseteq Boxes
  BY <1>1, <1>2 DEF ServicesInv, Boxes
<1>4. /\ ServicesInv' /\ Grow
      /\ Len(consent) + 1 \in 1 .. Len(consent') /\ Len(consent) + 1 \in Nat
  BY <1>1, <1>2, <1>3, ConsentMade
<1> DEFINE R == AnswerTo(r, Len(consent) + 1, "OK")
<1>5. /\ R.pc = "answered" /\ R.call = run[r].call /\ OpOf(R) = Op(r)
      /\ R.got = Len(consent) + 1
  BY <1>1, <1>2, <1>4, AnswerFacts
<1>6. DeedsOK(R, consent', made', facts', mixed')
  <2>1. R.got \in 1 .. Len(consent') /\ "requestConsent" \in facts'
    BY <1>1, <1>4, <1>5
  <2> HIDE DEF R
  <2>2. ~Past(R, 3)
    BY <1>2, <1>5 DEF Past
  <2> QED
    BY <1>2, <1>5, <2>1, <2>2 DEF DeedsOK
<1> QED
  BY <1>1, <1>2, <1>4, <1>6, ServeKeeps

LEMMA ServeRenewKeeps ==
    ASSUME ConsoleInv, NEW r \in Callers, ServeRenew(r)
    PROVE  ConsoleInv'
<1>1. /\ Calling(r, "renew") /\ Answers(r, Len(consent) + 1, "OK") /\ "OK" \in Codes
      /\ active # {} /\ Len(consent) < MaxConsents
      /\ consent' = Append(consent, NewConsent(NewestToken))
      /\ facts' \in {facts, facts \cup {"expiredThenRenew"}}
      /\ UNCHANGED <<active, made, accepted, nominee, ahead>> /\ UNCHANGED history
  BY DEF ServeRenew, Did, Answers, Codes, history
<1>2. /\ run[r].pc = "called" /\ Op(r) = "renew" /\ run[r].call = 1 /\ ServicesInv
  BY <1>1, CallingFacts, CallIs
<1>3. facts \subseteq facts' /\ facts' \subseteq Boxes
  BY <1>1, <1>2 DEF ServicesInv, Boxes
<1>4. /\ ServicesInv' /\ Grow
      /\ Len(consent) + 1 \in 1 .. Len(consent') /\ Len(consent) + 1 \in Nat
  BY <1>1, <1>2, <1>3, ConsentMade
<1> DEFINE R == AnswerTo(r, Len(consent) + 1, "OK")
<1>5. R.call = run[r].call /\ OpOf(R) = Op(r) /\ R.got = Len(consent) + 1
  BY <1>1, <1>2, <1>4, AnswerFacts
<1>6. DeedsOK(R, consent', made', facts', mixed')
  <2>1. R.got \in 1 .. Len(consent')
    BY <1>4, <1>5
  <2> HIDE DEF R
  <2> QED
    BY <1>2, <1>5, <2>1 DEF DeedsOK
<1> QED
  BY <1>1, <1>2, <1>4, <1>6, ServeKeeps

\* What is decided on is there.
LEMMA DecidedIsThere ==
    ASSUME ConsoleInv, NEW r \in Callers, NEW call \in {"approve", "reject", "revoke"},
           Calling(r, call)
    PROVE  Target(run[r]) \in 1 .. Len(consent)
<1>1. /\ run[r].pc = "called" /\ run[r].pc \in AtWork /\ Op(r) \in Ops
      /\ call = Calls[Op(r)][run[r].call][2] /\ run[r].call \in 1 .. Len(Calls[Op(r)])
  BY CallingFacts
<1>2. \/ Op(r) \in {"approve", "nominee", "reject", "revoke"}
      \/ Op(r) = "reuse" /\ run[r].call = 2
  BY <1>1, CallIs
<1>3. /\ PlaceOK(run[r]) /\ DeedsOK(run[r], consent, made, facts, mixed)
      /\ OpOf(run[r]) = Op(r) /\ run[r] \in Runs
  BY <1>1, RunFacts
<1>4. Target(run[r]) # 0
  <2>1. CASE Op(r) \in {"approve", "nominee", "reject", "revoke"}
    BY <1>3, <2>1 DEF PlaceOK, Ready
  <2>2. CASE Op(r) = "reuse" /\ run[r].call = 2
    <3>1. run[r].on # <<>>
      BY <1>3, <2>2 DEF DeedsOK
    <3>2. run[r].at = 1
      BY <1>3, <2>2 DEF PlaceOK, RowOK, OpOf
    <3>3. run[r].on \in Seq(Nat) /\ 1 \in 1 .. Len(run[r].on)
      BY <1>3, <3>1 DEF Runs
    <3>4. Given(run[r])
      BY <3>2, <3>3 DEF Given
    <3>5. run[r].on[1] \in 1 .. Len(consent)
      BY <3>3, RunFacts DEF KeepsOK
    <3> QED
      BY <3>2, <3>4, <3>5, ShownFacts DEF Target
  <2> QED
    BY <1>2, <2>1, <2>2
<1> QED
  BY <1>4, TargetIsThere, ShownFacts

\* A decision.
LEMMA DecidesIs ==
    ASSUME ConsoleInv, NEW r \in Callers, Target(run[r]) \in 1 .. Len(consent), MayDecide(r),
           NEW status \in {"APPROVED", "REJECTED", "REVOKED"}, Decides(r, status),
           UNCHANGED history, UNCHANGED <<active, made, nominee, ahead>>, accepted' = accepted,
           facts \subseteq facts', facts' \subseteq Boxes
    PROVE  /\ ServicesInv' /\ Grow
           /\ consent'[Target(run[r])].status = status /\ Len(consent') = Len(consent)
<1> DEFINE c == Target(run[r])
           by == IF status = "APPROVED" THEN run[r].user ELSE consent[c].by
<1>1. /\ ServicesInv /\ consent \in Seq(ConsentRows) /\ consent[c] \in ConsentRows
      /\ run[r].user \in Users
  BY ShownFacts DEF MayDecide, Users, ConsoleInv
<1>2. by \in Users \cup {NoUser}
  BY <1>1 DEF ConsentRows
<1>3. consent' = [consent EXCEPT ![c].status = status, ![c].by = by]
  BY DEF Decides
<1>4. c \in 1 .. Len(consent)
  OBVIOUS
<1> HIDE DEF by, c
<1>5. consent' = [consent EXCEPT ![c] = [status |-> status, token |-> consent[c].token, by |-> by]]
  <2> DEFINE mid == [consent EXCEPT ![c] = [consent[c] EXCEPT !.status = status]]
  <2>1. consent' = [mid EXCEPT ![c] = [mid[c] EXCEPT !.by = by]]
    BY <1>3
  <2>2. mid[c] = [status |-> status, token |-> consent[c].token, by |-> consent[c].by]
    BY <1>1, <1>4 DEF ConsentRows
  <2>3. [mid[c] EXCEPT !.by = by] = [status |-> status, token |-> consent[c].token, by |-> by]
    BY <2>2
  <2>4. /\ DOMAIN mid = DOMAIN consent
        /\ \A d \in DOMAIN consent : d # c => mid[d] = consent[d]
    OBVIOUS
  <2> HIDE DEF mid
  <2> QED
    BY <1>1, <1>4, <2>1, <2>3, <2>4
<1> SUFFICES /\ ServicesInv' /\ Grow
             /\ consent'[c].status = status /\ Len(consent') = Len(consent)
  BY DEF c
<1> QED
  BY <1>1, <1>2, <1>4, <1>5, ConsentDecided

LEMMA ServeApproveKeeps ==
    ASSUME ConsoleInv, NEW r \in Callers, ServeApprove(r)
    PROVE  ConsoleInv'
<1> DEFINE c == Target(run[r])
<1>1. /\ Calling(r, "approve") /\ MayDecide(r) /\ consent[c].status = "PENDING"
      /\ Decides(r, "APPROVED") /\ Answers(r, c, "OK") /\ "OK" \in Codes
      /\ facts' = facts \cup ({"walletApprove"}
                       \cup IF run[r].user = Nominee THEN {"nomineeApproval"} ELSE {})
      /\ UNCHANGED <<active, made, accepted, nominee, ahead>> /\ UNCHANGED history
  BY DEF ServeApprove, Did, Answers, Codes, history
<1>2. /\ run[r].pc = "called" /\ run[r].pc \in AtWork /\ ServicesInv
      /\ \/ Op(r) \in {"approve", "nominee"} /\ run[r].call = 1
         \/ Op(r) = "reuse" /\ run[r].call = 2
  BY <1>1, CallingFacts, CallIs
<1>3. c \in 1 .. Len(consent) /\ c \in Nat
  BY <1>1, DecidedIsThere, ShownFacts
<1>4. facts \subseteq facts' /\ facts' \subseteq Boxes
  BY <1>1, <1>2 DEF ServicesInv, Boxes
<1>5. /\ ServicesInv' /\ Grow /\ consent'[c].status = "APPROVED"
      /\ Len(consent') = Len(consent)
  BY <1>1, <1>3, <1>4, DecidesIs
<1>6. /\ DeedsOK(run[r], consent, made, facts, mixed) /\ OpOf(run[r]) = Op(r)
      /\ KeepsOK(run[r], consent, made)
  BY <1>2, RunFacts
<1> DEFINE R == AnswerTo(r, c, "OK")
<1>8. /\ R.pc = "answered" /\ R.call = run[r].call /\ OpOf(R) = Op(r) /\ R.got = c
      /\ R.saw = run[r].saw /\ R.on = run[r].on
  BY <1>1, <1>2, <1>3, AnswerFacts
<1>9. Op(r) = "nominee" => "nomineeApproval" \in facts' \/ mixed'
  <2> SUFFICES ASSUME Op(r) = "nominee", ~mixed
               PROVE  "nomineeApproval" \in facts'
    BY <1>1 DEF history
  <2>1. run[r].user \in {Nominee, NoUser}
    BY <1>2, <1>6 DEF DeedsOK
  <2>2. run[r].user = Nominee
    BY <1>1, <2>1, SessionAssumption DEF MayDecide
  <2> QED
    BY <1>1, <2>2
<1>10. DeedsOK(R, consent', made', facts', mixed')
  <2>1. /\ "walletApprove" \in facts' /\ c \in 1 .. Len(consent')
    BY <1>1, <1>3, <1>5
  <2>2. Op(r) = "reuse" => R.on # <<>> /\ ~Past(R, 3)
    BY <1>2, <1>6, <1>8 DEF DeedsOK, Past
  <2> HIDE DEF R, c
  <2> QED
    BY <1>2, <1>8, <1>9, <2>1, <2>2 DEF DeedsOK
<1> QED
  BY <1>1, <1>2, <1>3, <1>5, <1>10, ServeKeeps

LEMMA ServeRejectOrRevokeKeeps ==
    ASSUME ConsoleInv, NEW r \in Callers, ServeReject(r) \/ ServeRevoke(r)
    PROVE  ConsoleInv'
<1>1. PICK call \in {"reject", "revoke"}, status \in {"REJECTED", "REVOKED"} :
          Calling(r, call) /\ MayDecide(r) /\ Decides(r, status)
  BY DEF ServeReject, ServeRevoke
<1>2. /\ Answers(r, 0, "OK") /\ "OK" \in Codes /\ 0 \in Nat
      /\ UNCHANGED <<active, made, accepted, nominee, ahead, facts>> /\ UNCHANGED history
  BY DEF ServeReject, ServeRevoke, Answers, Codes, history
<1>3. /\ run[r].pc = "called" /\ Op(r) \in {"reject", "revoke"}
      /\ facts \subseteq facts' /\ facts' \subseteq Boxes
  <2>1. run[r].pc = "called" /\ Op(r) \in {"reject", "revoke"}
    BY <1>1, CallingFacts, CallIs
  <2>2. facts \subseteq Boxes
    BY DEF ConsoleInv, ServicesInv
  <2> QED
    BY <1>2, <2>1, <2>2
<1>4. Target(run[r]) \in 1 .. Len(consent)
  BY <1>1, DecidedIsThere
<1>5. ServicesInv' /\ Grow
  BY <1>1, <1>2, <1>3, <1>4, DecidesIs
<1>6. Op(r) \notin Telling
  BY <1>3 DEF Telling
<1> QED
  BY <1>2, <1>3, <1>5, <1>6, UntoldKeeps

\* What is verified is there.
LEMMA VerifiedIsThere ==
    ASSUME ConsoleInv, NEW r \in Callers, Calling(r, "verify")
    PROVE  Verified(run[r]).assertion \in 1 .. Len(consent)
<1>1. /\ run[r].pc = "called" /\ run[r].pc \in AtWork /\ Op(r) \in Ops
      /\ \/ Op(r) \in {"verify", "failNotActive", "failRejected", "failExpired"}
         \/ Op(r) = "reuse" /\ run[r].call = 3
  BY CallingFacts, CallIs
<1>2. /\ PlaceOK(run[r]) /\ DeedsOK(run[r], consent, made, facts, mixed)
      /\ OpOf(run[r]) = Op(r) /\ run[r] \in Runs /\ KeepsOK(run[r], consent, made)
  BY <1>1, RunFacts
<1>3. CASE Op(r) = "reuse" /\ run[r].call = 3
  <2>1. run[r].on # <<>>
    BY <1>2, <1>3 DEF DeedsOK
  <2>2. run[r].at = 1
    BY <1>2, <1>3 DEF PlaceOK, RowOK, OpOf
  <2>3. run[r].on \in Seq(Nat) /\ 1 \in 1 .. Len(run[r].on)
    BY <1>2, <2>1 DEF Runs
  <2>4. Given(run[r])
    BY <2>2, <2>3 DEF Given
  <2>5. run[r].on[1] \in 1 .. Len(consent)
    BY <1>2, <2>3 DEF KeepsOK
  <2> QED
    BY <2>2, <2>4, <2>5 DEF Verified, Target
<1>4. CASE Op(r) \in {"verify", "failNotActive", "failRejected", "failExpired"}
  <2>1. run[r].on = <<>>
    BY <1>2, <1>4 DEF PlaceOK, RowOK, OpOf
  <2>2. ~Given(run[r])
    BY <2>1 DEF Given
  <2>3. run[r].saw.shown.assertion # 0
    BY <1>2, <1>4 DEF PlaceOK, Ready, Reads
  <2>4. run[r].saw.shown.assertion \in 1 .. Len(consent)
    BY <1>2, <2>3, ShownFacts DEF KeepsOK, ShownOK
  <2> QED
    BY <2>2, <2>4 DEF Verified, Reads
<1> QED
  BY <1>1, <1>3, <1>4

LEMMA ServeVerifyKeeps ==
    ASSUME ConsoleInv, NEW r \in Callers, ServeVerify(r)
    PROVE  ConsoleInv'
<1>1. PICK code \in Codes :
          /\ Answers(r, 0, code)
          /\ facts' = facts \cup ({IF Op(r) = "reuse" /\ code = "OK" THEN "crossReuse"
                                   ELSE Box(code)} \cap Boxes)
  BY DEF ServeVerify, Did
<1>2. /\ Calling(r, "verify") /\ 0 \in Nat
      /\ accepted' \in {accepted, accepted \cup {Verified(run[r]).assertion}}
      /\ UNCHANGED <<active, made, consent, nominee, ahead>> /\ UNCHANGED history
  BY DEF ServeVerify, Answers, history
<1>3. /\ run[r].pc = "called" /\ run[r].pc \in AtWork /\ ServicesInv
      /\ \/ Op(r) \in {"verify", "failNotActive", "failRejected", "failExpired"} /\ run[r].call = 1
         \/ Op(r) = "reuse" /\ run[r].call = 3
  BY <1>2, CallingFacts, CallIs
<1>4. facts \subseteq facts' /\ facts' \subseteq Boxes
  BY <1>1, <1>3 DEF ServicesInv
<1>5. accepted' \subseteq 1 .. Len(consent')
  BY <1>2, <1>3, VerifiedIsThere DEF ServicesInv
<1>6. ServicesInv' /\ Grow
  <2>1. /\ made' \in made .. MaxTokens /\ active' \subseteq 1 .. made' /\ NewestInv'
        /\ nominee' \in NomineeStates /\ ahead' \in BOOLEAN
        /\ consent' \in Seq(ConsentRows) /\ Len(consent) <= Len(consent')
        /\ Len(consent') <= MaxConsents
        /\ \A c \in 1 .. Len(consent') : consent'[c].token \in 1 .. made'
    BY <1>2, <1>3, ShownFacts DEF ServicesInv, NewestInv
  <2> QED
    BY <1>2, <1>3, <1>4, <1>5, <2>1, ServicesGrow
<1> DEFINE R == AnswerTo(r, 0, code)
<1>7. /\ R.pc = "answered" /\ R.call = run[r].call /\ OpOf(R) = Op(r) /\ R.code = code
      /\ R.on = run[r].on
  BY <1>2, <1>3, AnswerFacts
<1>8. DeedsOK(R, consent', made', facts', mixed')
  <2>1. Op(r) = "verify" /\ code = "OK" => "fiVerifySuccess" \in facts'
    BY <1>1 DEF Box, Boxes
  <2>2. Op(r) \in {"failNotActive", "failRejected", "failExpired"}
            => Box(code) \in facts' \cup {"expired"}
    BY <1>1 DEF Box, Boxes, Codes
  <2>3. Op(r) = "reuse" => /\ R.on # <<>>
                           /\ code = "OK" => "crossReuse" \in facts'
    <3>1. DeedsOK(run[r], consent, made, facts, mixed) /\ OpOf(run[r]) = Op(r)
      BY <1>3, RunFacts
    <3>2. Op(r) = "reuse" => run[r].on # <<>>
      BY <1>3, <3>1 DEF DeedsOK
    <3> QED
      BY <1>1, <1>7, <3>2 DEF Boxes
  <2> HIDE DEF R
  <2> QED
    BY <1>3, <1>7, <2>1, <2>2, <2>3 DEF DeedsOK
<1> QED
  BY <1>1, <1>2, <1>3, <1>6, <1>8, ServeKeeps

LEMMA ServeRevokeTokenKeeps ==
    ASSUME ConsoleInv, NEW r \in Callers, ServeRevokeToken(r)
    PROVE  ConsoleInv'
<1>1. /\ Calling(r, "revokeToken") /\ Answers(r, 0, "OK") /\ "OK" \in Codes /\ 0 \in Nat
      /\ facts' = facts \cup {"revokeToken"}
      /\ UNCHANGED <<made, consent, accepted, nominee, ahead>> /\ UNCHANGED history
  BY DEF ServeRevokeToken, Did, Answers, Codes, history
<1>2. PICK t \in active : active' = active \ {t}
  BY DEF ServeRevokeToken
<1>3. /\ run[r].pc = "called" /\ Op(r) = "revokeToken" /\ run[r].call = 1 /\ ServicesInv
  BY <1>1, CallingFacts, CallIs
<1>4. made \in Nat /\ active \subseteq 1 .. made /\ NewestOf(active, made)
  BY <1>3, NewestIs DEF ServicesInv
<1>5. NewestOf(active', made')
  BY <1>1, <1>2, <1>4, NewestRemoved
<1>6. ServicesInv' /\ Grow
  <2>1. /\ made' \in made .. MaxTokens /\ active' \subseteq 1 .. made'
        /\ nominee' \in NomineeStates /\ ahead' \in BOOLEAN
        /\ facts \subseteq facts' /\ facts' \subseteq Boxes
    BY <1>1, <1>2, <1>3, <1>4 DEF ServicesInv, Boxes
  <2> QED
    BY <1>1, <1>3, <1>5, <2>1, TokensGrow
<1> DEFINE R == AnswerTo(r, 0, "OK")
<1>7. OpOf(R) = Op(r)
  BY <1>1, <1>3, AnswerFacts
<1>8. DeedsOK(R, consent', made', facts', mixed')
  <2>1. "revokeToken" \in facts'
    BY <1>1
  <2> HIDE DEF R
  <2> QED
    BY <1>3, <1>7, <2>1 DEF DeedsOK
<1> QED
  BY <1>1, <1>3, <1>6, <1>8, ServeKeeps

\* The newest token is superseded.
LEMMA SupersedeGrows ==
    ASSUME ServicesInv, Supersede, UNCHANGED history, UNCHANGED <<consent, accepted>>,
           nominee' = nominee, facts \subseteq facts', facts' \subseteq Boxes
    PROVE  ServicesInv' /\ Grow /\ made + 1 \in 1 .. made' /\ made + 1 \in Nat
<1>1. /\ active # {} /\ made < MaxTokens /\ made' = made + 1 /\ ahead' \in BOOLEAN
      /\ active' = (active \ {NewestToken}) \cup {made + 1}
  BY DEF Supersede
<1>2. made \in Nat /\ active \subseteq 1 .. made /\ NewestOf(active, made)
  BY NewestIs DEF ServicesInv
<1>3. NewestToken \in active
  BY <1>1, NewestTokenIs
<1>4. NewestOf(active \ {NewestToken}, made)
  BY <1>2, <1>3, NewestRemoved
<1>5. NewestOf(active', made')
  <2>1. active \ {NewestToken} \in SUBSET (1 .. made)
    BY <1>2
  <2> QED
    BY <1>1, <1>2, <1>4, <2>1, NewestAdded
<1>6. made' \in made .. MaxTokens /\ active' \subseteq 1 .. made'
  <2>1. MaxTokens \in Nat
    BY ConsoleAssumption
  <2>2. made + 1 \in made .. MaxTokens /\ made + 1 \in 1 .. made + 1
    BY <1>1, <1>2, <2>1
  <2>3. \A t \in active : t \in 1 .. made + 1
    BY <1>2
  <2>4. \A t \in active' : t \in 1 .. made + 1
    BY <1>1, <2>2, <2>3
  <2> QED
    BY <1>1, <2>2, <2>4
<1>7. ServicesInv' /\ Grow
  <2>1. nominee' \in NomineeStates
    BY DEF ServicesInv
  <2> QED
    BY <1>1, <1>5, <1>6, <2>1, TokensGrow
<1> QED
  BY <1>1, <1>2, <1>7

LEMMA ServeSimulateKeeps ==
    ASSUME ConsoleInv, NEW r \in Callers, ServeSimulate(r)
    PROVE  ConsoleInv'
<1>1. /\ Calling(r, "simulate") /\ Answers(r, 0, "OK") /\ "OK" \in Codes /\ 0 \in Nat
      /\ ahead' = TRUE
      /\ UNCHANGED <<active, made, consent, accepted, nominee, facts>> /\ UNCHANGED history
  BY DEF ServeSimulate, Answers, Codes, history
<1>2. /\ run[r].pc = "called" /\ Op(r) = "ckyc" /\ run[r].call = 1 /\ ServicesInv
  BY <1>1, CallingFacts, CallIs
<1>3. ServicesInv' /\ Grow
  <2>1. /\ made' \in made .. MaxTokens /\ active' \subseteq 1 .. made' /\ NewestOf(active', made')
        /\ nominee' \in NomineeStates /\ ahead' \in BOOLEAN
        /\ facts \subseteq facts' /\ facts' \subseteq Boxes
    BY <1>1, <1>2, NewestIs DEF ServicesInv
  <2> QED
    BY <1>1, <1>2, <2>1, TokensGrow
<1> DEFINE R == AnswerTo(r, 0, "OK")
<1>4. OpOf(R) = Op(r) /\ R.call = run[r].call
  BY <1>1, <1>2, AnswerFacts
<1>5. DeedsOK(R, consent', made', facts', mixed')
  <2> HIDE DEF R
  <2> QED
    BY <1>2, <1>4 DEF DeedsOK
<1> QED
  BY <1>1, <1>2, <1>3, <1>5, ServeKeeps

LEMMA ServeSyncKeeps ==
    ASSUME ConsoleInv, NEW r \in Callers, ServeSync(r)
    PROVE  ConsoleInv'
<1>1. /\ Calling(r, "sync") /\ "OK" \in Codes /\ 0 \in Nat
      /\ UNCHANGED <<consent, accepted>> /\ nominee' = nominee /\ UNCHANGED history
  BY DEF ServeSync, Answers, Calling, Codes, history
<1>2. /\ run[r].pc = "called" /\ Op(r) = "ckyc" /\ run[r].call = 2 /\ ServicesInv
  BY <1>1, CallingFacts, CallIs
<1>3. CASE Supersede /\ facts' = facts \cup {"ckycSupersede"} /\ Answers(r, made + 1, "OK")
  <2>1. facts \subseteq facts' /\ facts' \subseteq Boxes
    BY <1>2, <1>3 DEF ServicesInv, Boxes
  <2>2. ServicesInv' /\ Grow /\ made + 1 \in 1 .. made' /\ made + 1 \in Nat
    BY <1>1, <1>2, <1>3, <2>1, SupersedeGrows
  <2> DEFINE R == AnswerTo(r, made + 1, "OK")
  <2>3. OpOf(R) = Op(r) /\ R.call = run[r].call /\ R.got = made + 1
    BY <1>1, <1>2, <2>2, AnswerFacts
  <2>4. DeedsOK(R, consent', made', facts', mixed')
    <3>1. R.got \in 1 .. made' /\ "ckycSupersede" \in facts'
      BY <1>3, <2>2, <2>3
    <3> HIDE DEF R
    <3> QED
      BY <1>2, <2>3, <3>1 DEF DeedsOK
  <2> QED
    BY <1>1, <1>2, <1>3, <2>2, <2>4, ServeKeeps
<1>4. CASE Answers(r, 0, "OK") /\ UNCHANGED <<active, made, ahead, facts>>
  <2>1. ServicesInv' /\ Grow
    <3>1. /\ made' \in made .. MaxTokens /\ active' \subseteq 1 .. made' /\ NewestOf(active', made')
          /\ nominee' \in NomineeStates /\ ahead' \in BOOLEAN
          /\ facts \subseteq facts' /\ facts' \subseteq Boxes
      BY <1>1, <1>2, <1>4, NewestIs DEF ServicesInv
    <3> QED
      BY <1>1, <1>2, <3>1, TokensGrow
  <2> DEFINE R == AnswerTo(r, 0, "OK")
  <2>2. OpOf(R) = Op(r) /\ R.call = run[r].call /\ R.got = 0
    BY <1>1, <1>2, AnswerFacts
  <2>3. DeedsOK(R, consent', made', facts', mixed')
    <3> HIDE DEF R
    <3> QED
      BY <1>2, <2>2 DEF DeedsOK
  <2> QED
    BY <1>1, <1>2, <1>4, <2>1, <2>3, ServeKeeps
<1> QED
  BY <1>3, <1>4 DEF ServeSync, Did

LEMMA ServeReviewKeeps ==
    ASSUME ConsoleInv, NEW r \in Callers, ServeReview(r)
    PROVE  ConsoleInv'
<1>1. /\ Calling(r, "review") /\ Answers(r, 0, "OK") /\ "OK" \in Codes /\ 0 \in Nat
      /\ facts' = facts \cup {"periodicReview"}
      /\ UNCHANGED <<consent, accepted>> /\ nominee' = nominee /\ UNCHANGED history
  BY DEF ServeReview, Did, Answers, Codes, history
<1>2. /\ run[r].pc = "called" /\ Op(r) = "review" /\ run[r].call = 1 /\ ServicesInv
  BY <1>1, CallingFacts, CallIs
<1>3. facts \subseteq facts' /\ facts' \subseteq Boxes
  BY <1>1, <1>2 DEF ServicesInv, Boxes
<1>4. ServicesInv' /\ Grow
  <2>1. CASE Supersede
    BY <1>1, <1>2, <1>3, <2>1, SupersedeGrows
  <2>2. CASE UNCHANGED <<active, made, ahead>>
    <3>1. /\ made' \in made .. MaxTokens /\ active' \subseteq 1 .. made' /\ NewestOf(active', made')
          /\ nominee' \in NomineeStates /\ ahead' \in BOOLEAN
      BY <1>1, <1>2, <2>2, NewestIs DEF ServicesInv
    <3> QED
      BY <1>1, <1>2, <1>3, <3>1, TokensGrow
  <2> QED
    BY <2>1, <2>2 DEF ServeReview
<1> DEFINE R == AnswerTo(r, 0, "OK")
<1>5. OpOf(R) = Op(r)
  BY <1>1, <1>2, AnswerFacts
<1>6. DeedsOK(R, consent', made', facts', mixed')
  <2>1. "periodicReview" \in facts'
    BY <1>1
  <2> HIDE DEF R
  <2> QED
    BY <1>2, <1>5, <2>1 DEF DeedsOK
<1> QED
  BY <1>1, <1>2, <1>4, <1>6, ServeKeeps

\* The calls about the nominee, a demo's data, the sweeps, the onboarding.
LEMMA ServeOthersKeeps ==
    ASSUME ConsoleInv, NEW r \in Callers,
           \/ ServeSaveNominee(r) \/ ServeEnable(r) \/ ServeDisable(r) \/ ServeDelegate(r)
           \/ ServeUndelegate(r) \/ ServeSimulateDemo(r) \/ ServeLifecycle(r) \/ ServeOnboard(r)
    PROVE  ConsoleInv'
<1>1. \E call \in {"saveNominee", "enable", "disable", "delegate", "undelegate", "simulateDemo",
                   "lifecycle", "onboard"} : Calling(r, call)
  BY DEF ServeSaveNominee, ServeEnable, ServeDisable, ServeDelegate, ServeUndelegate,
         ServesNominee, ServeSimulateDemo, ServeLifecycle, ServeOnboard
<1>2. ServicesInv
  BY DEF ConsoleInv
<1>3. /\ Answers(r, 0, "OK") /\ "OK" \in Codes /\ 0 \in Nat
      /\ UNCHANGED <<active, made, consent, accepted, ahead, facts>> /\ UNCHANGED history
      /\ nominee' \in NomineeStates
  <2>1. nominee \in NomineeStates /\ ActiveAgain \in NomineeStates
    BY <1>2 DEF ServicesInv, ActiveAgain, NomineeStates
  <2>2. CASE \/ ServeSaveNominee(r) \/ ServeEnable(r) \/ ServeDisable(r) \/ ServeDelegate(r)
             \/ ServeUndelegate(r)
    BY <2>1, <2>2 DEF ServeSaveNominee, ServeEnable, ServeDisable, ServeDelegate,
         ServeUndelegate, ServesNominee, Answers, history, Codes, NomineeStates
  <2>3. CASE ServeSimulateDemo(r)
    BY <2>3 DEF ServeSimulateDemo, Answers, history, Codes, NomineeStates
  <2>4. CASE ServeLifecycle(r) \/ ServeOnboard(r)
    BY <2>1, <2>4 DEF ServeLifecycle, ServeOnboard, services, Answers, history, Codes
  <2> QED
    BY <2>2, <2>3, <2>4
<1>4. run[r].pc = "called" /\ Op(r) \notin Telling
  BY <1>1, CallingFacts, CallIs
<1>5. ServicesInv' /\ Grow
  <2>1. /\ made' \in made .. MaxTokens /\ active' \subseteq 1 .. made' /\ NewestOf(active', made')
        /\ ahead' \in BOOLEAN /\ facts \subseteq facts' /\ facts' \subseteq Boxes
    BY <1>2, <1>3, NewestIs DEF ServicesInv
  <2> QED
    BY <1>2, <1>3, <2>1, TokensGrow
<1> QED
  BY <1>3, <1>4, <1>5, UntoldKeeps

LEMMA ServeIsKept ==
    ASSUME ConsoleInv, NEW r \in Callers, Serve(r)
    PROVE  ConsoleInv'
BY ServeIssueKeeps, ServeRequestKeeps, ServeApproveKeeps, ServeRejectOrRevokeKeeps,
   ServeVerifyKeeps, ServeRevokeTokenKeeps, ServeRenewKeeps, ServeSimulateKeeps, ServeSyncKeeps,
   ServeReviewKeeps, ServeOthersKeeps DEF Serve

-----------------------------------------------------------------------------
(* What is started                                                         *)

LEMMA RenderingFacts ==
    ASSUME ConsoleInv
    PROVE  Rendering \in Renderings /\ Rendering.shown = shown
           /\ (Rendering.nominee <=> HasNomineeRole)
<1>1. shown \in Shows
  BY ShownFacts
<1>2. /\ HasOwnerRole \in BOOLEAN /\ HasNomineeRole \in BOOLEAN /\ HasFiRole \in BOOLEAN
      /\ Authenticated("wallet") \in BOOLEAN
  BY DEF HasOwnerRole, HasNomineeRole, HasFiRole, Authenticated
<1> QED
  BY <1>1, <1>2 DEF Rendering, Renderings

\* Who the wallet's calls of what is started go in the name of.
LEMMA StartsAsOne ==
    ASSUME ConsoleInv, ~mixed, ~Ambiguous
    PROVE  \E u \in Users : /\ OnlyUser(u)
                            /\ \A q \in InFlight : run[q].saw.nominee => u = Nominee
                            /\ HasNomineeRole => u = Nominee
<1>1. /\ sso["wallet"] \in Users \cup {NoUser} /\ direct["wallet"].user \in Users \cup {NoUser}
  BY DEF ConsoleInv, SessionInv, SessionTypeOK, Portals
<1>2. /\ direct["wallet"].user \in {NoUser, ShownUser("wallet")}
      /\ HasNomineeRole => ShownUser("wallet") = Nominee
      /\ ShownUser("wallet") \in {direct["wallet"].user, sso["wallet"]}
      /\ sso["wallet"] \in {NoUser, ShownUser("wallet")}
      /\ Nominee # NoUser /\ Owner \in Users
  BY SessionAssumption DEF Ambiguous, ShownUser, Users
<1>3. CASE InFlight = {}
  <2>1. \A c \in Callers : ask[c].user = NoUser
    <3>1. \A c \in Callers : run[c].pc = "idle"
      BY <1>3 DEF InFlight
    <3>2. \A c \in Callers : ask[c] = NotAsking
      BY <3>1 DEF ConsoleInv, RunsInv, SessionInv
    <3> QED
      BY <3>2, NotAskingFacts
  <2>2. WalletUsers \subseteq {ShownUser("wallet"), NoUser}
    BY <1>2, <2>1 DEF WalletUsers
  <2>3. CASE ShownUser("wallet") = NoUser
    BY <1>2, <1>3, <2>2, <2>3 DEF OnlyUser
  <2>4. CASE ShownUser("wallet") # NoUser
    BY <1>1, <1>2, <1>3, <2>2, <2>4 DEF OnlyUser
  <2> QED
    BY <2>3, <2>4
<1>4. CASE InFlight # {}
  <2>1. PICK u \in Users : /\ WalletUsers \subseteq {u, NoUser}
                           /\ \A q \in InFlight : run[q].saw.nominee => u = Nominee
    BY <1>4 DEF ConsoleInv, OneUserInv
  <2>2. direct["wallet"].user \in {u, NoUser} /\ sso["wallet"] \in {u, NoUser}
    BY <2>1 DEF WalletUsers
  <2>3. HasNomineeRole => u = Nominee
    BY <1>2, <2>2
  <2> QED
    BY <2>1, <2>3 DEF OnlyUser
<1> QED
  BY <1>3, <1>4

LEMMA StartsFacts ==
    ASSUME ConsoleInv, NEW r \in Callers, Starts(r)
    PROVE  /\ run[r] = Idle /\ run[r].pc = "idle" /\ OthersBusy(r, busy)
           /\ started' \in 0 .. MaxRuns /\ mixed' \in BOOLEAN /\ (mixed => mixed')
           /\ ~mixed' => ~mixed /\ ~Ambiguous
<1>1. run[r].pc = "idle" /\ run[r].pc \notin AtWork
  BY DEF Starts, AtWork
<1>2. run[r] = Idle
  BY <1>1, RunFacts
<1>3. OthersBusy(r, busy)
  BY <1>1, BusyOfOthers DEF ConsoleInv
<1>4. started' \in 0 .. MaxRuns
  <2>1. MaxRuns \in Nat /\ MaxTogether \in 0 .. MaxRuns
    BY ConsoleAssumption
  <2>2. started \in 0 .. MaxRuns /\ started' = started + 1 /\ started < MaxRuns
    BY <2>1 DEF Starts, ConsoleInv, ServicesInv
  <2> QED
    BY <2>1, <2>2
<1>5. mixed' = (mixed \/ Ambiguous) /\ mixed \in BOOLEAN
  BY DEF Starts, ConsoleInv, ServicesInv
<1>6. mixed' \in BOOLEAN /\ (mixed => mixed') /\ (~mixed' => ~mixed /\ ~Ambiguous)
  BY <1>5, Zenon
<1> QED
  BY <1>1, <1>2, <1>3, <1>4, <1>6

\* Something is started and comes to R; if it is the walkthrough, nobody else walks.
LEMMA StartKeeps ==
    ASSUME ConsoleInv, NEW r \in Callers, Starts(r),
           NEW rec, rec.saw = Rendering, NEW R, NEW last, Outcome(r, rec, R, last),
           rec.guided => /\ rec.step \in 0 .. LastStep
                         /\ \A q \in Callers : ~run[q].guided,
           UNCHANGED <<session, leaving, lastLogin, crossed, budget, services, shown, covered>>,
           \/ resetAt' = resetAt /\ guided'.step = guided.step
           \/ resetAt' = resetAt /\ guided'.step = guided.step + 1
              /\ GuidedBoxes[guided.step + 1] \in covered \cup {"none"}
           \/ resetAt' = 0 /\ guided'.step = 0
    PROVE  ConsoleInv'
<1>1. /\ SessionInv /\ ServicesInv /\ RunsInv /\ BusyInv /\ GuidedInv /\ CoverInv /\ OneUserInv
      /\ UNCHANGED sessionFrame /\ UNCHANGED <<direct, sso>> /\ UNCHANGED services
      /\ shown' = shown /\ covered' = covered
  BY DEF ConsoleInv, sessionFrame, session
<1>2. /\ run[r] = Idle /\ started' \in 0 .. MaxRuns /\ mixed' \in BOOLEAN /\ (mixed => mixed')
      /\ (~mixed' => ~mixed /\ ~Ambiguous)
  BY StartsFacts
<1>3. SessionInv'
  BY <1>1, MovesKeepSession DEF Outcome
<1>4. ServicesInv'
  BY <1>1, <1>2 DEF ServicesInv, NewestInv, services
<1>5. RunsInv'
  BY <1>1, <1>2, <1>4, OutcomeKeepsRuns
<1>6. BusyInv'
  BY <1>1, OutcomeKeepsBusy
<1>7. GuidedInv'
  <2>1. /\ rec.guided => /\ rec.step \in 0 .. LastStep
                         /\ \A q \in Callers \ {r} : ~run[q].guided
        /\ ~rec.guided => ~run[r].guided
    BY <1>2, IdleFacts
  <2> QED
    BY <1>1, <2>1, OutcomeKeepsGuided
<1>8. CoverInv'
  <2>1. ShownOK(shown', consent', made') /\ shown' \in Shows /\ covered' \subseteq Boxes
    BY <1>1 DEF CoverInv, services
  <2>2. guided.step \in Nat /\ resetAt \in Nat /\ resetAt' \in 0 .. LastStep
    BY <1>1, RowSizes DEF GuidedInv, CoverInv
  <2>3. StepsDoneAreCovered'
    <3>1. StepsDoneAreCovered
      BY <1>1 DEF CoverInv, CoverageTellsTruth
    <3>2. CASE resetAt' = resetAt /\ guided'.step = guided.step
      BY <1>1, <3>1, <3>2 DEF StepsDoneAreCovered
    <3>3. CASE /\ resetAt' = resetAt /\ guided'.step = guided.step + 1
               /\ GuidedBoxes[guided.step + 1] \in covered \cup {"none"}
      BY <1>1, <2>2, <3>1, <3>3 DEF StepsDoneAreCovered
    <3>4. CASE resetAt' = 0 /\ guided'.step = 0
      BY <3>4 DEF StepsDoneAreCovered
    <3> QED
      BY <3>2, <3>3, <3>4
  <2>4. covered' \ {"expiredThenRenew"}
            \subseteq facts' \cup IF mixed' THEN {"nomineeApproval"} ELSE {}
    BY <1>1, <1>2 DEF CoverInv, CoverageTellsTruth, services
  <2> QED
    BY <2>1, <2>2, <2>3, <2>4 DEF CoverInv, CoverageTellsTruth
<1>9. OneUserInv'
  <2>1. CASE mixed'
    BY <2>1 DEF OneUserInv
  <2>2. CASE ~mixed'
    <3>1. PICK u \in Users : /\ OnlyUser(u)
                             /\ \A q \in InFlight : run[q].saw.nominee => u = Nominee
                             /\ HasNomineeRole => u = Nominee
      BY <1>2, <2>2, StartsAsOne
    <3>2. /\ rec.saw.nominee => u = Nominee
          /\ \A q \in InFlight \ {r} : run[q].saw.nominee => u = Nominee
      BY <3>1, RenderingFacts
    <3>3. UNCHANGED <<direct, sso>>
      BY <1>1
    <3> QED
      BY <1>1, <3>1, <3>2, <3>3, OutcomeKeepsUser
  <2> QED
    BY <2>1, <2>2
<1> QED
  BY <1>3, <1>4, <1>5, <1>6, <1>7, <1>8, <1>9 DEF ConsoleInv

LEMMA RowStarts ==
    ASSUME ConsoleInv, NEW r \in Callers, Starts(r), NEW ops, NEW on \in Seq(Nat), RowOK(ops, on),
           \A i \in 1 .. Len(on) : on[i] \in 1 .. Len(consent), Begins(r, ops, on)
    PROVE  ConsoleInv'
<1> DEFINE rec == NewRow(ops, on)
<1>1. /\ BeginOp(r, rec, busy) /\ resetAt' = resetAt
      /\ UNCHANGED <<session, leaving, lastLogin, crossed, budget, services, shown, covered>>
  BY DEF Begins
<1>2. ops \in Seq(Ops) /\ Len(ops) >= 1 /\ Rendering \in Renderings
  BY RenderingFacts DEF RowOK
<1>3. /\ rec \in Runs /\ rec.ops = ops /\ rec.on = on /\ rec.saw = Rendering /\ rec.at = 1
      /\ ~rec.guided /\ rec.own = {}
  BY <1>2, IdleFacts DEF NewRow, Runs
<1> HIDE DEF rec
<1>4. ServicesInv /\ OthersBusy(r, busy)
  BY StartsFacts DEF ConsoleInv
<1>5. BeginsOK(rec, consent, made)
  <2>1. ShownOK(rec.saw.shown, consent, made)
    BY <1>3, RenderingFacts, ShownFacts
  <2>2. KeepsOK(rec, consent, made)
    BY <1>3, <2>1 DEF KeepsOK
  <2>3. 1 \in 1 .. Len(ops)
    BY <1>2
  <2> QED
    BY <1>3, <2>2, <2>3 DEF BeginsOK
<1>6. PICK R : Outcome(r, rec, R, FALSE)
  BY <1>1, <1>4, <1>5, BeginOpBegins
<1>7. guided'.step = guided.step
  BY <1>3, <1>6 DEF Outcome, GuidedAfter
<1> QED
  BY <1>1, <1>3, <1>6, <1>7, StartKeeps

LEMMA RowsAreStarted ==
    ASSUME ConsoleInv, NEW r \in Callers,
           \/ \E ops \in Rows : StartRow(r, ops)
           \/ \E ops \in PageRows : StartPageRow(r, ops)
           \/ \E op \in {"approve", "reject", "revoke"}, c \in 1 .. Len(consent) :
                  DecideOn(r, op, c)
           \/ \E op \in {"approve", "reject"} : DecideInBulk(r, op)
           \/ AutoVerify(r)
    PROVE  ConsoleInv'
<1>1. Starts(r)
  BY DEF StartRow, StartPageRow, DecideOn, DecideInBulk, AutoVerify
<1>2. \E ops, on : /\ on \in Seq(Nat) /\ RowOK(ops, on) /\ Begins(r, ops, on)
                   /\ \A i \in 1 .. Len(on) : on[i] \in 1 .. Len(consent)
  <2>0. <<>> \in Seq(Nat) /\ \A i \in 1 .. Len(<<>>) : <<>>[i] \in 1 .. Len(consent)
    OBVIOUS
  <2>1. CASE \/ \E ops \in Rows : StartRow(r, ops)
             \/ \E ops \in PageRows : StartPageRow(r, ops)
    <3>1. PICK ops \in Rows \cup PageRows : Begins(r, ops, <<>>)
      BY <2>1 DEF StartRow, StartPageRow
    <3>2. RowOK(ops, <<>>)
      BY RowsAreRows
    <3> QED
      BY <2>0, <3>1, <3>2
  <2>2. ASSUME NEW op \in {"approve", "reject", "revoke"}, NEW c \in 1 .. Len(consent),
               DecideOn(r, op, c)
        PROVE  /\ <<c>> \in Seq(Nat) /\ RowOK(<<op, "list">>, <<c>>)
               /\ Begins(r, <<op, "list">>, <<c>>)
               /\ \A i \in 1 .. Len(<<c>>) : <<c>>[i] \in 1 .. Len(consent)
    <3>1. Begins(r, <<op, "list">>, <<c>>)
      BY <2>2 DEF DecideOn
    <3>2. op \in Ops \ {"reuse"} /\ "list" \in Ops \ {"reuse"}
          /\ {op, "list"} \subseteq {"approve", "reject", "revoke", "list"}
      BY DEF Ops
    <3>3. RowOK(<<op, "list">>, <<c>>)
      BY <3>2, TwoAreRow
    <3>4. c \in Nat
      BY ShownFacts
    <3> QED
      BY <3>1, <3>3, <3>4
  <2>3. ASSUME NEW op \in {"approve", "reject"}, DecideInBulk(r, op)
        PROVE  /\ <<2, 1>> \in Seq(Nat) /\ RowOK(<<op, op, "list">>, <<2, 1>>)
               /\ Begins(r, <<op, op, "list">>, <<2, 1>>)
               /\ \A i \in 1 .. Len(<<2, 1>>) : <<2, 1>>[i] \in 1 .. Len(consent)
    <3>1. Begins(r, <<op, op, "list">>, <<2, 1>>) /\ Len(consent) = 2
      BY <2>3 DEF DecideInBulk
    <3>2. op \in Ops \ {"reuse"} /\ "list" \in Ops \ {"reuse"}
          /\ {op, op, "list"} \subseteq {"approve", "reject", "revoke", "list"}
      BY DEF Ops
    <3>3. RowOK(<<op, op, "list">>, <<2, 1>>)
      BY <3>2, ThreeAreRow
    <3> QED
      BY <3>1, <3>3
  <2>4. CASE AutoVerify(r)
    <3>1. Begins(r, <<"verify">>, <<>>)
      BY <2>4 DEF AutoVerify
    <3>2. RowOK(<<"verify">>, <<>>)
      BY BareRows DEF Ops
    <3> QED
      BY <2>0, <3>1, <3>2
  <2>5. CASE \E op \in {"approve", "reject", "revoke"}, c \in 1 .. Len(consent) : DecideOn(r, op, c)
    BY <2>2, <2>5, Zenon
  <2>6. CASE \E op \in {"approve", "reject"} : DecideInBulk(r, op)
    BY <2>3, <2>6, Zenon
  <2> QED
    BY <2>1, <2>4, <2>5, <2>6
<1>3. PICK ops, on : /\ on \in Seq(Nat) /\ RowOK(ops, on) /\ Begins(r, ops, on)
                     /\ \A i \in 1 .. Len(on) : on[i] \in 1 .. Len(consent)
  BY <1>2
<1> QED
  BY <1>1, <1>3, RowStarts

\* The walkthrough is started or resumed.
LEMMA WalkStarts ==
    ASSUME ConsoleInv, NEW r \in Callers, NEW k \in 0 .. LastStep - 1, WalksFrom(r, k),
           \A q \in Callers : ~run[q].guided,
           \/ k = guided.step /\ resetAt' = resetAt
           \/ k = 0 /\ resetAt' = 0
    PROVE  ConsoleInv'
<1>1. /\ Starts(r) /\ BeginStep(r, k, Rendering, {}, busy)
      /\ UNCHANGED <<session, leaving, lastLogin, crossed, budget, services, shown, covered>>
  BY DEF WalksFrom
<1>2. ServicesInv /\ OthersBusy(r, busy)
  BY <1>1, StartsFacts DEF ConsoleInv
<1>3. /\ Rendering \in Renderings /\ ShownOK(Rendering.shown, consent, made)
      /\ {} \in SUBSET ((1 .. Len(consent)) \ {Rendering.shown.assertion})
  BY RenderingFacts, ShownFacts
<1> DEFINE rec == StepRow(k, Rendering, {})
<1>4. /\ rec.guided /\ rec.step = k /\ rec.saw = Rendering
      /\ \E R : Outcome(r, rec, R, k = 9)
  BY <1>1, <1>2, <1>3, BeginStepBegins
<1>5. PICK R : Outcome(r, rec, R, k = 9)
  BY <1>4
<1> HIDE DEF rec
<1>6. guided'.step = k \/ (k = 9 /\ guided'.step = k + 1)
  BY <1>4, <1>5, GuidedStates DEF Outcome, GuidedAfter
<1>7. \/ resetAt' = resetAt /\ guided'.step = guided.step
      \/ resetAt' = resetAt /\ guided'.step = guided.step + 1
         /\ GuidedBoxes[guided.step + 1] \in covered \cup {"none"}
      \/ resetAt' = 0 /\ guided'.step = 0
  BY <1>6, StepsAreRows
<1>8. rec.guided => rec.step \in 0 .. LastStep /\ \A q \in Callers : ~run[q].guided
  BY <1>4, RowSizes
<1> QED
  BY <1>1, <1>4, <1>5, <1>7, <1>8, StartKeeps

LEMMA WalksAreStarted ==
    ASSUME ConsoleInv, NEW r \in Callers,
           StartGuidedWalkthrough(r) \/ ResumeGuidedWalkthrough(r) \/ ResumeAfterLogin(r)
    PROVE  ConsoleInv'
<1>1. ~guided.running \/ guided.status = "paused"
  BY DEF StartGuidedWalkthrough, ResumeGuidedWalkthrough, ResumeAfterLogin
<1>2. \A q \in Callers : ~run[q].guided
  <2> SUFFICES ASSUME NEW q \in Callers, run[q].guided
               PROVE  FALSE
    BY RunFacts
  <2>1. guided = Going(run[q].step)
    BY DEF ConsoleInv, GuidedInv
  <2>2. guided.running /\ guided.status = "running"
    BY <2>1, GuidedStates
  <2> QED
    BY <1>1, <2>2
<1>3. Resting /\ guided.step \in 0 .. LastStep
  BY <1>2 DEF ConsoleInv, GuidedInv
<1>4. CASE StartGuidedWalkthrough(r)
  <2>1. 0 \in 0 .. LastStep - 1 /\ WalksFrom(r, 0) /\ resetAt' = 0
    BY <1>4, RowSizes DEF StartGuidedWalkthrough
  <2> QED
    BY <1>2, <2>1, WalkStarts
<1>5. CASE ResumeGuidedWalkthrough(r) \/ ResumeAfterLogin(r)
  <2>1. guided.step < LastStep /\ WalksFrom(r, guided.step) /\ resetAt' = resetAt
    BY <1>3, <1>5 DEF ResumeGuidedWalkthrough, ResumeAfterLogin, Resting
  <2>2. guided.step \in 0 .. LastStep - 1
    BY <1>3, <2>1, RowSizes
  <2> QED
    BY <1>2, <2>1, <2>2, WalkStarts
<1> QED
  BY <1>4, <1>5

LEMMA StartIsKept ==
    ASSUME ConsoleInv, NEW r \in Callers, Start(r)
    PROVE  ConsoleInv'
BY RowsAreStarted, WalksAreStarted DEF Start

-----------------------------------------------------------------------------
(* What comes from elsewhere                                               *)

\* What is in flight goes on as it was, whatever becomes of the sessions and services.
LEMMA FlightStays ==
    ASSUME ConsoleInv, ServicesInv', Grow, UNCHANGED <<busy, guided, run>>,
           \A c \in Callers : /\ ask'[c].pc = "idle" <=> ask[c].pc = "idle"
                              /\ ask'[c].portal = ask[c].portal
    PROVE  RunsInv' /\ BusyInv' /\ GuidedInv'
<1>1. ServicesInv /\ RunsInv /\ BusyInv /\ GuidedInv
  BY DEF ConsoleInv
<1>2. RunsInv'
  <2>1. ASSUME NEW r \in Callers
        PROVE  RunOK(run[r], consent', made', facts', mixed')
    BY <1>1, RunStays DEF RunsInv
  <2>2. \A r \in Callers : RunOK(run'[r], consent', made', facts', mixed')
    BY <2>1
  <2>3. \A r \in Callers :
            /\ run'[r].pc = "asking" <=> ask'[r].pc # "idle"
            /\ run'[r].pc = "asking" => ask'[r].portal = Calls[OpOf(run'[r])][run'[r].call][1]
    BY <1>1 DEF RunsInv, OpOf, Op
  <2> QED
    BY <1>1, <2>2, <2>3 DEF RunsInv, OpOf, Op
<1>3. BusyInv'
  BY <1>1 DEF BusyInv, Op
<1>4. GuidedInv'
  BY <1>1 DEF GuidedInv, Resting
<1> QED
  BY <1>2, <1>3, <1>4

LEMMA ServicesStill ==
    ASSUME ServicesInv, UNCHANGED services, started' = started, mixed' \in BOOLEAN, mixed => mixed'
    PROVE  ServicesInv' /\ Grow
BY DEF ServicesInv, NewestInv, services, Grow

\* The console shows and has ticked what it has.
LEMMA CoverStays ==
    ASSUME ConsoleInv, ServicesInv', Grow, UNCHANGED <<shown, covered, guided, resetAt>>
    PROVE  CoverInv'
<1>1. ServicesInv /\ GuidedInv /\ CoverInv /\ (mixed => mixed') /\ facts \subseteq facts'
  BY DEF ConsoleInv, Grow
<1>2. shown' \in Shows /\ ShownOK(shown', consent', made')
  BY <1>1, ShownStays DEF CoverInv
<1>3. covered' = covered \cup {} /\ {} \in SUBSET Boxes
      /\ {} \ {"expiredThenRenew"} \subseteq facts \cup IF mixed THEN {"nomineeApproval"} ELSE {}
  OBVIOUS
<1> QED
  BY <1>1, <1>2, <1>3, CoverGrows

\* The wallet's users are no others than before.
LEMMA UsersStay ==
    ASSUME OneUserInv, UNCHANGED <<run, mixed>>, WalletUsers' \subseteq WalletUsers \cup {NoUser}
    PROVE  OneUserInv'
BY DEF OneUserInv, InFlight

LEMMA ExpireConsentKeeps ==
    ASSUME ConsoleInv, NEW c \in Consents, ExpireConsent(c)
    PROVE  ConsoleInv'
<1>1. /\ c \in 1 .. Len(consent)
      /\ consent' = [consent EXCEPT ![c].status = "EXPIRED"]
      /\ UNCHANGED <<sessionVars, active, made, accepted, nominee, ahead, facts, shown, busy,
                     covered, guided, run, history>>
  BY ShownFacts DEF ExpireConsent, Consents
<1>2. /\ UNCHANGED history /\ UNCHANGED <<active, made, nominee, ahead>> /\ accepted' = accepted
      /\ facts' = facts /\ UNCHANGED <<busy, guided, run>> /\ UNCHANGED sessionVars
      /\ UNCHANGED <<shown, covered, guided, resetAt>> /\ UNCHANGED <<run, mixed>>
      /\ ask' = ask /\ direct' = direct /\ sso' = sso
  BY <1>1 DEF history, sessionVars, session
<1>3. /\ ServicesInv /\ facts \subseteq facts' /\ facts' \subseteq Boxes
      /\ consent[c] \in ConsentRows
  BY <1>1, <1>2, ShownFacts DEF ConsoleInv, ServicesInv
<1>4. consent' = [consent EXCEPT ![c] = [status |-> "EXPIRED", token |-> consent[c].token,
                                         by |-> consent[c].by]]
  <2>1. [consent[c] EXCEPT !.status = "EXPIRED"]
          = [status |-> "EXPIRED", token |-> consent[c].token, by |-> consent[c].by]
    BY <1>3 DEF ConsentRows
  <2> QED
    BY <1>1, <2>1
<1>5. consent[c].by \in Users \cup {NoUser}
  BY <1>3 DEF ConsentRows
<1>6. ServicesInv' /\ Grow
  BY <1>1, <1>2, <1>3, <1>4, <1>5, ConsentDecided
<1>7. SessionInv'
  BY <1>2, FrameKeepsSession DEF ConsoleInv
<1>8. RunsInv' /\ BusyInv' /\ GuidedInv'
  BY <1>2, <1>6, FlightStays
<1>9. CoverInv'
  BY <1>2, <1>6, CoverStays
<1>10. OneUserInv'
  BY <1>2, UsersStay DEF ConsoleInv, WalletUsers
<1> QED
  BY <1>6, <1>7, <1>8, <1>9, <1>10 DEF ConsoleInv

LEMMA ResetCoverageKeeps ==
    ASSUME ConsoleInv, ResetCoverage
    PROVE  ConsoleInv'
<1>1. /\ covered' = {} /\ shown' = [shown EXCEPT !.expired = FALSE] /\ resetAt' = guided.step
      /\ UNCHANGED <<sessionVars, services, busy, guided, run, started, mixed>>
  BY DEF ResetCoverage
<1>2. /\ UNCHANGED sessionVars /\ UNCHANGED services /\ UNCHANGED <<busy, guided, run>>
      /\ UNCHANGED <<run, mixed>> /\ started' = started /\ mixed' = mixed
      /\ ask' = ask /\ direct' = direct /\ sso' = sso /\ guided' = guided
      /\ consent' = consent /\ made' = made
  BY <1>1 DEF sessionVars, session, services
<1>3. ServicesInv' /\ Grow
  BY <1>2, ServicesStill DEF ConsoleInv, ServicesInv
<1>4. SessionInv'
  BY <1>2, FrameKeepsSession DEF ConsoleInv
<1>5. RunsInv' /\ BusyInv' /\ GuidedInv'
  BY <1>2, <1>3, FlightStays
<1>6. CoverInv'
  <2>1. shown' \in Shows /\ ShownOK(shown', consent', made')
    BY <1>1, <1>2, ShownFacts DEF Shows, ShownOK
  <2>2. guided.step \in 0 .. LastStep
    BY DEF ConsoleInv, GuidedInv
  <2>3. StepsDoneAreCovered'
    BY <1>1, <1>2, <2>2, RowSizes DEF StepsDoneAreCovered
  <2> QED
    BY <1>1, <2>1, <2>2, <2>3 DEF CoverInv, CoverageTellsTruth
<1>7. OneUserInv'
  BY <1>2, UsersStay DEF ConsoleInv, WalletUsers
<1> QED
  BY <1>3, <1>4, <1>5, <1>6, <1>7 DEF ConsoleInv

LEMMA SignInOrOutKeeps ==
    ASSUME ConsoleInv, SignInOrOut
    PROVE  ConsoleInv'
<1>1. /\ \E p \in Portals : Logout(p) \/ \E u \in UsersOf(p) : Login(p, u)
      /\ mixed' = (mixed \/ InFlight # {})
      /\ UNCHANGED <<services, shown, busy, covered, guided, run, started, resetAt>>
  BY DEF SignInOrOut
<1>2. ask' = ask
  BY <1>1 DEF Logout, Login
<1>3. /\ UNCHANGED services /\ started' = started /\ UNCHANGED <<busy, guided, run>>
      /\ UNCHANGED <<shown, covered, guided, resetAt>> /\ run' = run
  BY <1>1
<1>4. mixed' \in BOOLEAN /\ (mixed => mixed')
  <2>1. mixed \in BOOLEAN
    BY DEF ConsoleInv, ServicesInv
  <2> QED
    BY <1>1, <2>1, Zenon
<1>5. SessionInv'
  <2>1. SessionInv
    BY DEF ConsoleInv
  <2> QED
    BY <1>1, <2>1, LoginKeepsSession, LogoutKeepsSession
<1>6. ServicesInv' /\ Grow
  BY <1>3, <1>4, ServicesStill DEF ConsoleInv
<1>7. RunsInv' /\ BusyInv' /\ GuidedInv'
  BY <1>2, <1>3, <1>6, FlightStays
<1>8. CoverInv'
  BY <1>3, <1>6, CoverStays
<1>9. OneUserInv'
  <2>1. CASE InFlight = {}
    <3>1. InFlight' = {}
      BY <1>3, <2>1 DEF InFlight
    <3> QED
      BY <3>1 DEF OneUserInv, Users
  <2>2. CASE InFlight # {}
    BY <1>1, <2>2, Zenon DEF OneUserInv
  <2> QED
    BY <2>1, <2>2
<1> QED
  BY <1>5, <1>6, <1>7, <1>8, <1>9 DEF ConsoleInv

\* The page is left: nothing is in flight, and the walkthrough rests at its step.
LEMMA LeavePageKeeps ==
    ASSUME ConsoleInv, LeavePage
    PROVE  ConsoleInv'
<1>1. /\ Reload \/ \E p \in Portals, u \in Users : u \in UsersOf(p) /\ SsoLogin(p, u)
      /\ run' = [r \in Callers |-> Idle] /\ shown' = NothingShown /\ busy' = "none"
      /\ guided' = [guided EXCEPT !.running = FALSE,
                                  !.status = IF @ = "running" THEN "idle" ELSE @]
      /\ UNCHANGED <<services, history>> /\ covered' = covered /\ mixed' = mixed
      /\ resetAt' = resetAt
  BY DEF LeavePage, history
<1>2. ask' = [c \in Callers |-> NotAsking]
  BY <1>1 DEF Reload, SsoLogin
<1>3. SessionInv'
  <2>1. SessionInv
    BY DEF ConsoleInv
  <2> QED
    BY <1>1, <2>1, LeavingKeepsSession
<1>4. ServicesInv' /\ Grow
  BY <1>1, ServicesStay DEF ConsoleInv
<1>5. consent' \in Seq(ConsentRows) /\ made' \in Nat
  BY <1>4 DEF ServicesInv
<1>6. RunsInv'
  <2>1. \A r \in Callers : run'[r] = Idle /\ ask'[r] = NotAsking
    BY <1>1, <1>2
  <2>2. RunOK(Idle, consent', made', facts', mixed')
    BY <1>5, IdleOK
  <2>3. run' \in [Callers -> Runs]
    BY <1>1, IdleFacts
  <2> QED
    BY <2>1, <2>2, <2>3, IdleFacts, NotAskingFacts DEF RunsInv
<1>7. BusyInv'
  BY <1>1 DEF BusyInv
<1>8. /\ guided \in Walks /\ guided.step \in 0 .. LastStep
      /\ guided.blocked \/ guided.status = "paused" => guided.step < LastStep
  <2>1. CASE \E r \in Callers : run[r].guided
    <3>1. PICK r \in Callers : run[r].guided
      BY <2>1
    <3>2. /\ guided = Going(run[r].step) /\ guided.step = run[r].step
          /\ run[r].step \in 0 .. LastStep
      BY <3>1, RunFacts
    <3>3. run[r].step \in Nat
      BY <3>2, RowSizes
    <3>4. guided \in Walks
      BY <3>2, <3>3, GuidedStates
    <3>5. ~guided.blocked /\ guided.status = "running"
      BY <3>2 DEF Going, DefaultGuided
    <3> QED
      BY <3>2, <3>4, <3>5
  <2>2. CASE \A r \in Callers : ~run[r].guided
    BY <2>2 DEF ConsoleInv, GuidedInv, Resting
  <2> QED
    BY <2>1, <2>2, RunFacts
<1> DEFINE status == IF guided.status = "running" THEN "idle" ELSE guided.status
<1>9. /\ guided'.step = guided.step /\ guided'.blocked = guided.blocked
      /\ ~guided'.running /\ guided' \in Walks /\ guided'.status = status
  <2>1. guided' = [guided EXCEPT !.running = FALSE, !.status = status]
    BY <1>1
  <2>2. status \in {"idle", "running", "paused", "error", "done"}
    BY <1>8 DEF Walks
  <2> HIDE DEF status
  <2> QED
    BY <1>8, <2>1, <2>2 DEF Walks
<1>10. GuidedInv'
  <2>1. Resting'
    BY <1>8, <1>9 DEF Resting
  <2>2. \A r \in Callers : ~run'[r].guided
    BY <1>1, IdleFacts
  <2>3. guided'.step \in 0 .. LastStep
    BY <1>8, <1>9
  <2> QED
    BY <2>1, <2>2, <2>3 DEF GuidedInv
<1>11. CoverInv'
  <2>1. shown' \in Shows /\ ShownOK(shown', consent', made')
    BY <1>1, <1>5, IdleFacts, NothingShownOK
  <2>2. CoverInv
    BY DEF ConsoleInv
  <2> QED
    BY <1>1, <1>9, <2>1, <2>2 DEF CoverInv, CoverageTellsTruth, StepsDoneAreCovered, services
<1>12. OneUserInv'
  <2>1. InFlight' = {}
    BY <1>1, IdleFacts DEF InFlight
  <2> QED
    BY <2>1 DEF OneUserInv, Users
<1> QED
  BY <1>3, <1>4, <1>6, <1>7, <1>10, <1>11, <1>12 DEF ConsoleInv

\* A session's own step brings nobody new to the wallet.
LEMMA SessionStepUsers ==
    ASSUME SessionInv,
           \/ \E r \in Callers : \/ RefreshSucceeds(r) \/ RefreshFails(r)
                               \/ SsoGrants(r) \/ SsoRefuses(r)
           \/ \E p \in Portals : Lapse(p)
    PROVE  /\ WalletUsers' \subseteq WalletUsers \cup {NoUser}
           /\ \A c \in Callers : /\ ask'[c].pc = "idle" <=> ask[c].pc = "idle"
                                 /\ ask'[c].portal = ask[c].portal
<1>1. /\ direct \in [Portals -> [user: Users \cup {NoUser}, fresh: BOOLEAN]]
      /\ sso \in [Portals -> Users \cup {NoUser}] /\ ask \in [Callers -> Askings]
  BY DEF SessionInv, SessionTypeOK
<1>2. "wallet" \in Portals /\ \A c \in Callers : ask[c] \in Askings /\ ask[c].portal \in Portals
  BY <1>1 DEF Portals, Askings
<1>3. /\ \A c \in Callers : ask[c].portal = "wallet" => ask[c].user \in WalletUsers
      /\ direct["wallet"].user \in WalletUsers /\ sso["wallet"] \in WalletUsers
  BY DEF WalletUsers
<1>4. SUFFICES /\ direct'["wallet"].user \in WalletUsers \cup {NoUser}
               /\ sso'["wallet"] \in WalletUsers \cup {NoUser}
               /\ \A c \in Callers :
                     /\ ask'[c].portal = "wallet" => ask'[c].user \in WalletUsers \cup {NoUser}
                     /\ ask'[c].pc = "idle" <=> ask[c].pc = "idle"
                     /\ ask'[c].portal = ask[c].portal
  BY DEF WalletUsers
<1>5. ASSUME NEW r \in Callers, RefreshSucceeds(r)
      PROVE  /\ direct'["wallet"].user \in WalletUsers \cup {NoUser} /\ sso' = sso
             /\ ask[r].pc # "idle" /\ ask'[r].pc = "granted" /\ ask'[r].user = ask[r].user
             /\ ask'[r].portal = ask[r].portal
             /\ \A c \in Callers \ {r} : ask'[c] = ask[c]
  BY <1>1, <1>2, <1>3, <1>5 DEF RefreshSucceeds, SetSession, NewSession, Askings
<1>6. ASSUME NEW r \in Callers, RefreshFails(r)
      PROVE  /\ direct'["wallet"].user \in WalletUsers \cup {NoUser} /\ sso' = sso
             /\ ask[r].pc # "idle" /\ ask'[r].pc # "idle" /\ ask'[r].user = sso[ask[r].portal]
             /\ ask'[r].portal = ask[r].portal
             /\ \A c \in Callers \ {r} : ask'[c] = ask[c]
  <2>1. /\ AskSso(ask[r].portal).portal = ask[r].portal
        /\ AskSso(ask[r].portal).pc # "idle"
        /\ AskSso(ask[r].portal).user = sso[ask[r].portal]
    BY <1>2, AskFacts
  <2>2. /\ direct' = [direct EXCEPT ![ask[r].portal] = NoSession] /\ sso' = sso
        /\ ask' = [ask EXCEPT ![r] = AskSso(ask[r].portal)] /\ ask[r].pc = "refreshing"
    BY <1>6 DEF RefreshFails, SetSession
  <2>3. direct'["wallet"].user \in {direct["wallet"].user, NoUser}
    BY <1>1, <1>2, <2>2 DEF NoSession
  <2> QED
    BY <1>1, <1>3, <2>1, <2>2, <2>3
<1>7. ASSUME NEW r \in Callers, SsoGrants(r)
      PROVE  /\ direct' = direct /\ sso' = sso
             /\ ask[r].pc # "idle" /\ ask'[r].pc = "granted" /\ ask'[r].user = sso[ask[r].portal]
             /\ ask'[r].portal = ask[r].portal
             /\ \A c \in Callers \ {r} : ask'[c] = ask[c]
  BY <1>1, <1>2, <1>7 DEF SsoGrants, session, Askings
<1>8. ASSUME NEW r \in Callers, SsoRefuses(r)
      PROVE  /\ direct' = direct /\ sso'["wallet"] \in {NoUser, sso["wallet"]}
             /\ ask[r].pc # "idle" /\ ask'[r].pc = "refused" /\ ask'[r].user = NoUser
             /\ ask'[r].portal = ask[r].portal
             /\ \A c \in Callers \ {r} : ask'[c] = ask[c]
  BY <1>1, <1>2, <1>8 DEF SsoRefuses, Askings
<1>9. ASSUME NEW p \in Portals, Lapse(p)
      PROVE  direct'["wallet"].user = direct["wallet"].user /\ sso' = sso /\ ask' = ask
  BY <1>1, <1>2, <1>9 DEF Lapse
<1>10. CASE \E r \in Callers : \/ RefreshSucceeds(r) \/ RefreshFails(r)
                               \/ SsoGrants(r) \/ SsoRefuses(r)
  <2>1. PICK r \in Callers : RefreshSucceeds(r) \/ RefreshFails(r) \/ SsoGrants(r) \/ SsoRefuses(r)
    BY <1>10
  <2>2. /\ direct'["wallet"].user \in WalletUsers \cup {NoUser}
        /\ sso'["wallet"] \in WalletUsers \cup {NoUser}
        /\ ask[r].pc # "idle" /\ ask'[r].pc # "idle" /\ ask'[r].portal = ask[r].portal
        /\ ask'[r].user \in {ask[r].user, sso[ask[r].portal], NoUser}
        /\ \A c \in Callers \ {r} : ask'[c] = ask[c]
    BY <1>3, <1>5, <1>6, <1>7, <1>8, <2>1
  <2> QED
    BY <1>3, <2>2
<1>11. CASE \E p \in Portals : Lapse(p)
  BY <1>3, <1>9, <1>11
<1> QED
  BY <1>10, <1>11

LEMMA SessionStepKeeps ==
    ASSUME ConsoleInv, SessionStep
    PROVE  ConsoleInv'
<1>1. /\ \/ \E r \in Callers : \/ RefreshSucceeds(r) \/ RefreshFails(r)
                               \/ SsoGrants(r) \/ SsoRefuses(r)
         \/ \E p \in Portals : Lapse(p)
      /\ UNCHANGED consoleVars
  BY DEF SessionStep
<1>2. /\ UNCHANGED <<services, history>> /\ UNCHANGED <<busy, guided, run>>
      /\ UNCHANGED <<shown, covered, guided, resetAt>> /\ UNCHANGED <<run, mixed>>
  BY <1>1 DEF consoleVars, history
<1>3. SessionInv
  BY DEF ConsoleInv
<1>4. SessionInv'
  BY <1>1, <1>3, AskStepKeepsSession, LapseKeepsSession
<1>5. ServicesInv' /\ Grow
  BY <1>2, ServicesStay DEF ConsoleInv
<1>6. /\ WalletUsers' \subseteq WalletUsers \cup {NoUser}
      /\ \A c \in Callers : /\ ask'[c].pc = "idle" <=> ask[c].pc = "idle"
                            /\ ask'[c].portal = ask[c].portal
  BY <1>1, <1>3, SessionStepUsers
<1>7. RunsInv' /\ BusyInv' /\ GuidedInv'
  BY <1>2, <1>5, <1>6, FlightStays
<1>8. CoverInv'
  BY <1>2, <1>5, CoverStays
<1>9. OneUserInv'
  BY <1>2, <1>6, UsersStay DEF ConsoleInv
<1> QED
  BY <1>4, <1>5, <1>7, <1>8, <1>9 DEF ConsoleInv

-----------------------------------------------------------------------------
(* The invariant holds                                                     *)

\* The walkthrough a console finds in its storage, and the boxes of what it has done.
LEMMA StoredWalk ==
    ASSUME NEW k \in StoredSteps,
           guided \in IF k = 0 THEN {DefaultGuided}
                      ELSE {Stopped(k)} \cup IF LoginFor(k) = NoUser THEN {} ELSE {Paused(k)},
           covered = {GuidedBoxes[i] : i \in 1 .. k} \ {"none"}
    PROVE  /\ guided.step = k /\ k \in 0 .. LastStep /\ Resting
           /\ covered \subseteq Boxes
           /\ \A i \in 0 .. k - 1 : GuidedBoxes[i + 1] # "none" => GuidedBoxes[i + 1] \in covered
<1>1. k \in 0 .. 10 /\ k \in Nat /\ k < LastStep /\ k \in 0 .. LastStep
  BY ConsoleAssumption, RowSizes
<1>2. guided.step = k /\ Resting
  BY <1>1, GuidedStates DEF Resting
<1>3. ASSUME NEW i \in 1 .. k
      PROVE  GuidedBoxes[i] \in Boxes \cup {"none"}
  <2>1. i - 1 \in 0 .. LastStep - 1 /\ (i - 1) + 1 = i
    BY <1>1, RowSizes
  <2> QED
    BY <2>1, StepsAreRows
<1>4. covered \subseteq Boxes
  BY <1>3
<1>5. ASSUME NEW i \in 0 .. k - 1
      PROVE  GuidedBoxes[i + 1] # "none" => GuidedBoxes[i + 1] \in covered
  <2>1. i + 1 \in 1 .. k
    BY <1>1
  <2> QED
    BY <2>1
<1> QED
  BY <1>1, <1>2, <1>4, <1>5

LEMMA InitIsKept == Init => ConsoleInv
<1> SUFFICES ASSUME Init PROVE ConsoleInv
  OBVIOUS
<1>1. /\ consent = <<>> /\ shown = NothingShown /\ busy = "none" /\ facts = covered
      /\ run = [r \in Callers |-> Idle] /\ resetAt = 0 /\ mixed = FALSE /\ started = 0
      /\ ask = [c \in Callers |-> NotAsking] /\ accepted = {} /\ ahead = FALSE
      /\ made \in 0 .. 1 /\ active \in SUBSET (1 .. made) /\ nominee \in StoredNominee
  BY DEF Init, SessionInit
<1>2. PICK k \in StoredSteps :
          /\ guided \in IF k = 0 THEN {DefaultGuided}
                        ELSE {Stopped(k)} \cup IF LoginFor(k) = NoUser THEN {} ELSE {Paused(k)}
          /\ covered = {GuidedBoxes[i] : i \in 1 .. k} \ {"none"}
  BY DEF Init
<1>3. /\ guided.step = k /\ k \in 0 .. LastStep /\ Resting /\ covered \subseteq Boxes
      /\ \A i \in 0 .. k - 1 : GuidedBoxes[i + 1] # "none" => GuidedBoxes[i + 1] \in covered
  BY <1>2, StoredWalk
<1>4. SessionInv
  BY InitSession DEF Init
<1>5. ServicesInv
  <2>1. /\ MaxTokens \in Nat \ {0} /\ MaxConsents \in Nat \ {0} /\ MaxRuns \in Nat
        /\ StoredNominee \subseteq NomineeStates
    BY ConsoleAssumption
  <2>2. made \in 0 .. MaxTokens /\ active \subseteq 1 .. made
    BY <1>1, <2>1
  <2>3. NewestInv
    BY <1>1 DEF NewestInv
  <2>4. consent \in Seq(ConsentRows) /\ Len(consent) = 0
    BY <1>1
  <2>5. Len(consent) <= MaxConsents /\ started \in 0 .. MaxRuns
    BY <1>1, <2>1, <2>4
  <2>6. (\A c \in 1 .. Len(consent) : consent[c].token \in 1 .. made)
        /\ accepted \subseteq 1 .. Len(consent)
    BY <1>1, <2>4
  <2>7. ahead \in BOOLEAN /\ mixed \in BOOLEAN /\ nominee \in NomineeStates /\ facts \subseteq Boxes
    BY <1>1, <1>3, <2>1
  <2> QED
    BY <2>2, <2>3, <2>4, <2>5, <2>6, <2>7 DEF ServicesInv
<1>6. consent \in Seq(ConsentRows) /\ made \in Nat
  BY <1>5, ServicesTyped
<1>7. RunsInv
  <2>1. \A r \in Callers : run[r] = Idle /\ ask[r] = NotAsking
    BY <1>1
  <2>2. RunOK(Idle, consent, made, facts, mixed)
    BY <1>6, IdleOK
  <2>3. run \in [Callers -> Runs]
    BY <1>1, IdleFacts
  <2> QED
    BY <2>1, <2>2, <2>3, IdleFacts, NotAskingFacts DEF RunsInv
<1>8. BusyInv
  BY <1>1 DEF BusyInv
<1>9. GuidedInv
  BY <1>1, <1>3, IdleFacts DEF GuidedInv
<1>10. CoverInv
  <2>1. shown \in Shows /\ ShownOK(shown, consent, made)
    BY <1>1, <1>6, IdleFacts, NothingShownOK
  <2>2. StepsDoneAreCovered
    BY <1>1, <1>3 DEF StepsDoneAreCovered
  <2>3. resetAt \in 0 .. LastStep
    BY <1>1, RowSizes
  <2> QED
    BY <1>1, <1>3, <2>1, <2>2, <2>3 DEF CoverInv, CoverageTellsTruth
<1>11. OneUserInv
  <2>1. InFlight = {}
    BY <1>1, IdleFacts DEF InFlight
  <2> QED
    BY <2>1 DEF OneUserInv, Users
<1> QED
  BY <1>4, <1>5, <1>7, <1>8, <1>9, <1>10, <1>11 DEF ConsoleInv

\* Every step keeps it, and so does one in which nothing happens.
LEMMA StepKeeps == ConsoleInv /\ [Next]_vars => ConsoleInv'
<1> SUFFICES ASSUME ConsoleInv, [Next]_vars PROVE ConsoleInv'
  OBVIOUS
<1>1. ASSUME NEW r \in Callers, Start(r) \/ Serve(r) \/ GoOn(r)
      PROVE  ConsoleInv'
  BY <1>1, StartIsKept, ServeIsKept, GoOnIsKept
<1>2. ASSUME NEW c \in Consents, ExpireConsent(c)
      PROVE  ConsoleInv'
  BY <1>2, ExpireConsentKeeps
<1>3. CASE ResetCoverage
  BY <1>3, ResetCoverageKeeps
<1>4. CASE SignInOrOut
  BY <1>4, SignInOrOutKeeps
<1>5. CASE LeavePage
  BY <1>5, LeavePageKeeps
<1>6. CASE SessionStep
  BY <1>6, SessionStepKeeps
<1>7. CASE UNCHANGED vars
  <2>1. /\ UNCHANGED <<services, history>> /\ UNCHANGED <<busy, guided, run>>
        /\ UNCHANGED <<shown, covered, guided, resetAt>> /\ UNCHANGED <<run, mixed>>
        /\ UNCHANGED sessionVars /\ ask' = ask /\ direct' = direct /\ sso' = sso
    BY <1>7 DEF vars, consoleVars, history, sessionVars, session
  <2>2. ServicesInv' /\ Grow
    BY <2>1, ServicesStay DEF ConsoleInv
  <2>3. SessionInv'
    BY <2>1, FrameKeepsSession DEF ConsoleInv
  <2>4. RunsInv' /\ BusyInv' /\ GuidedInv'
    BY <2>1, <2>2, FlightStays
  <2>5. CoverInv'
    BY <2>1, <2>2, CoverStays
  <2>6. OneUserInv'
    BY <2>1, UsersStay DEF ConsoleInv, WalletUsers
  <2> QED
    BY <2>2, <2>3, <2>4, <2>5, <2>6 DEF ConsoleInv
<1> QED
  BY <1>1, <1>2, <1>3, <1>4, <1>5, <1>6, <1>7 DEF Next

LEMMA Invariance == Spec => []ConsoleInv
BY InitIsKept, StepKeeps, PTL DEF Spec

-----------------------------------------------------------------------------
(* The theorems                                                            *)

LEMMA SeqOfSubset ==
    ASSUME NEW S, NEW T, NEW s \in Seq(S), \A i \in 1 .. Len(s) : s[i] \in T
    PROVE  s \in Seq(T)
BY LenProperties

LEMMA Typed == ConsoleInv => TypeOK
<1> SUFFICES ASSUME ConsoleInv PROVE TypeOK
  OBVIOUS
<1>1. /\ SessionTypeOK /\ ServicesInv /\ CoverInv /\ guided.step \in 0 .. LastStep
  BY DEF ConsoleInv, SessionInv, GuidedInv
<1>2. consent \in Seq([status: {"PENDING", "APPROVED", "REJECTED", "REVOKED", "EXPIRED"},
                       token: 1 .. made, by: Users \cup {NoUser}])
  <2>1. consent \in Seq(ConsentRows)
    BY <1>1 DEF ServicesInv
  <2>2. ASSUME NEW c \in 1 .. Len(consent)
        PROVE  consent[c] \in [status: {"PENDING", "APPROVED", "REJECTED", "REVOKED", "EXPIRED"},
                               token: 1 .. made, by: Users \cup {NoUser}]
    <3>1. consent[c] \in ConsentRows
      BY <2>1, ElementOfSeq
    <3>2. consent[c].token \in 1 .. made
      BY <1>1 DEF ServicesInv
    <3> QED
      BY <3>1, <3>2 DEF ConsentRows
  <2> QED
    BY <2>1, <2>2, SeqOfSubset
<1>3. /\ shown.token \in 0 .. made /\ shown.consent \in 0 .. Len(consent)
      /\ shown.assertion \in 0 .. Len(consent) /\ covered \subseteq Boxes
      /\ resetAt \in 0 .. LastStep
  BY <1>1 DEF CoverInv, ShownOK
<1>4. ASSUME NEW r \in Callers
      PROVE  /\ run[r].pc \in {"idle", "asking", "called", "answered", "asleep"}
             /\ run[r].pc = "asking" <=> ask[r].pc # "idle"
             /\ run[r].ops \in Seq(Ops)
             /\ run[r].on \in Seq(1 .. Len(consent))
             /\ run[r].own \subseteq 1 .. Len(consent)
  <2>1. run[r] \in Runs /\ KeepsOK(run[r], consent, made)
    BY RunFacts
  <2>2. run[r].on \in Seq(Nat) /\ \A i \in 1 .. Len(run[r].on) : run[r].on[i] \in 1 .. Len(consent)
    BY <2>1 DEF Runs, KeepsOK
  <2>3. run[r].on \in Seq(1 .. Len(consent))
    BY <2>2, SeqOfSubset
  <2>4. run[r].pc = "asking" <=> ask[r].pc # "idle"
    BY DEF ConsoleInv, RunsInv
  <2> QED
    BY <2>1, <2>3, <2>4 DEF Runs, AtWork, KeepsOK
<1> QED
  BY <1>1, <1>2, <1>3, <1>4 DEF TypeOK, ServicesInv

LEMMA NothingIsLeft == ConsoleInv => NothingLeftRunning
<1> SUFFICES ASSUME ConsoleInv PROVE NothingLeftRunning
  OBVIOUS
<1>1. busy # "none" => \E r \in Callers : /\ run[r].pc \in {"asking", "called", "answered"}
                                          /\ busy = Label(Op(r), run[r].call)
  BY DEF ConsoleInv, BusyInv, AtWork
<1>2. \A r \in Callers : run[r].guided => r \in Walking
  BY RunFacts, IdleFacts DEF Walking, InFlight
<1>3. \A r \in Walking : r \in Callers /\ run[r].guided
  BY DEF Walking, InFlight
<1>4. CASE Walking = {}
  <2>1. Resting
    BY <1>2, <1>4 DEF ConsoleInv, GuidedInv
  <2>2. Cardinality(Walking) <= 1
    BY <1>4, FS_EmptySet
  <2> QED
    BY <1>1, <1>4, <2>1, <2>2 DEF NothingLeftRunning, Resting
<1>5. CASE Walking # {}
  <2>1. PICK r \in Callers : r \in Walking /\ run[r].guided
    BY <1>3, <1>5
  <2>2. Walking = {r}
    BY <1>3, <2>1 DEF ConsoleInv, GuidedInv
  <2>3. guided.running /\ guided.status = "running"
    BY <2>1, RunFacts, GuidedStates
  <2>4. Cardinality({r}) = 1
    BY FS_Singleton, Zenon
  <2>5. Cardinality(Walking) <= 1
    BY <2>2, <2>4
  <2> QED
    BY <1>1, <1>5, <2>3, <2>5 DEF NothingLeftRunning
<1> QED
  BY <1>4, <1>5

\* The shape of the state: what is shown, read or decided on is a consent there is, and
\* who asks for a token is who is about to call.
THEOREM TypeCorrect == Spec => []TypeOK
BY Invariance, Typed, PTL

\* Whatever answers, throws, signs in or leaves, runningAction is that of an operation
\* still in flight, and guidedState.running that of the one walkthrough there is.
THEOREM NothingStaysRunning == Spec => []NothingLeftRunning
BY Invariance, NothingIsLeft, PTL

\* A ticked box of the checklist says what the services did, and the guided walkthrough
\* has no step behind it whose box is not ticked.
THEOREM CoverageIsTrue == Spec => []CoverageTellsTruth
<1>1. ConsoleInv => CoverageTellsTruth
  BY DEF ConsoleInv, CoverInv
<1> QED
  BY <1>1, Invariance, PTL

\* The password session of a portal is nobody's but that of who signed in last, except
\* for a refresh in flight across a login or a logout, whatever the console does.
THEOREM SessionOfLastLogin == Spec => []SessionIsLastLogin
<1>1. ConsoleInv => SessionIsLastLogin
  BY DEF ConsoleInv, SessionInv
<1> QED
  BY <1>1, Invariance, PTL

=============================================================================
