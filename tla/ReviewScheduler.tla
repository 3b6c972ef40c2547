--------------------------- MODULE ReviewScheduler ---------------------------
(***************************************************************************)
(* review-scheduler (apps/review-scheduler): the customers and when they   *)
(* are to be reviewed, and the cycles that review those who are due, each  *)
(* from the rows it read at its start.  The rows are also written by       *)
(* upserts, by the demo data and, for a re-consent, by consent-manager,    *)
(* whose approvals and revocations write the consent first and the review  *)
(* later; the wallet asks the customer for the re-consent.                 *)
(*                                                                         *)
(* The clock counts years.  A consent lives for days: it may lapse at any  *)
(* moment.  How it is approved is ConsentManager's; here an approval is    *)
(* its writes to the consent and to the review.  Audit events, jobs and    *)
(* lastKycUpdateAt, which nothing reads but a person, are left out.        *)
(***************************************************************************)
EXTENDS Integers, Sequences

CONSTANTS
    Users,
    Consenting,     \* those of them whose tokens are ACTIVE: others give no consent
    DemoUser,       \* the user whose review the demo data hold
    Interval,       \* of each risk tier, the years between reviews
    BatchLimit,     \* how many customers a cycle takes
    Cycles,         \* cycles in flight at once
    Cron,           \* those of the CronJob; the others are started by run-once
    Handlers,       \* requests in flight at once at the wallet and consent-manager
    ConsentIds,     \* periodic consents that may wait or stand at once
    MaxTime, MaxWrites  \* bounds on the clock, and on upserts and demo data

Tiers == DOMAIN Interval

ASSUME ReviewAssumption ==
    /\ Interval \in [Tiers -> Nat \ {0}]
    /\ "HIGH" \in Tiers
    /\ BatchLimit \in Nat \ {0}
    /\ MaxTime \in Nat /\ MaxWrites \in Nat
    /\ DemoUser \in Users /\ Consenting \subseteq Users
    /\ Cron \in Cycles

VARIABLES
    now,
    writes,         \* upserts and demo data so far
    customer,       \* the row of each user
    cycle,          \* of each cycle, what it has yet to review, and its runAt
    consent,        \* periodic consents
    handler,        \* requests at the wallet and consent-manager
    seeding,        \* demo data are being made: the reset is done
    owed,           \* of each user, whether the last who decided on it left a
                    \* re-consent to be given: NO, YES, or OPEN after a revocation,
                    \* of which the code's comment and the code say opposite things
                    \* (history)
    crossed,        \* users whose decisions crossed: one was taken while another was
                    \* not yet written, or never was, or was written over by a cycle
                    \* that had read the row before (history)
    behind          \* of each cycle, the customers of its batch whose rows it read
                    \* before the last decision on them was there (history)

rows == <<customer, owed, crossed, behind>>
vars == <<now, writes, rows, cycle, consent, handler, seeding>>

Absent == [tier |-> "NONE", next |-> 0, requires |-> FALSE, status |-> "NONE"]

Statuses == {"ACTIVE", "DUE", "SYNCED", "RECONSENT_REQUIRED"}

Customers ==
    [tier: Tiers, next: Nat, requires: BOOLEAN, status: Statuses]

Exists(u) == customer[u] # Absent

NewCustomer(tier, last) ==
    [tier |-> tier, next |-> last + Interval[tier], requires |-> FALSE, status |-> "ACTIVE"]

NoCycle == [batch |-> <<>>, runAt |-> 0]

NoConsent == [user |-> DemoUser, status |-> "NONE"]

Idle == [pc |-> "idle", user |-> DemoUser]

Init ==
    /\ now = 0
    /\ writes = 0
    /\ customer = [u \in Users |-> Absent]
    /\ cycle = [k \in Cycles |-> NoCycle]
    /\ consent = [c \in ConsentIds |-> NoConsent]
    /\ handler = [h \in Handlers |-> Idle]
    /\ seeding = FALSE
    /\ owed = [u \in Users |-> "NO"]
    /\ crossed = {}
    /\ behind = [k \in Cycles |-> {}]

-----------------------------------------------------------------------------
(* Writers of a customer's row                                             *)

\* A decision on a re-consent of u is taken, but not yet in u's row.
IsPending(u) == \E h \in Handlers : handler[h].user = u /\ handler[h].pc \in {"clear", "raise"}

UsersOf(batch) == {batch[i].user : i \in DOMAIN batch}

\* The cycles in flight have read the rows of us before what is decided on them now.
Overtakes(us) ==
    behind' = [k \in Cycles |-> (behind[k] \cup us) \cap UsersOf(cycle'[k].batch)]

\* A decision is taken: whether a re-consent is owed.
Decide(u, isOwed) ==
    /\ owed' = [owed EXCEPT ![u] = isOwed]
    /\ crossed' = IF IsPending(u) THEN crossed \cup {u} ELSE crossed \ {u}
    /\ Overtakes({u})

\* Mutant: an upsert drops the flag.
UpsertCustomerAnew(u, tier, last) ==
    /\ writes < MaxWrites
    /\ writes' = writes + 1
    /\ customer' = [customer EXCEPT ![u] =
           NewCustomer(tier, last)]
    /\ UNCHANGED <<now, cycle, consent, handler, seeding>>
    /\ IF Exists(u) THEN UNCHANGED <<owed, crossed, behind>> ELSE Decide(u, "NO")

\* POST /v1/review/upsert-customer.  The flag of a row that exists is kept.
UpsertCustomer(u, tier, last) ==
    /\ writes < MaxWrites
    /\ writes' = writes + 1
    /\ customer' = [customer EXCEPT ![u] =
           [NewCustomer(tier, last) EXCEPT !.requires = customer[u].requires]]
    /\ UNCHANGED <<now, cycle, consent, handler, seeding>>
    /\ IF Exists(u) THEN UNCHANGED <<owed, crossed, behind>> ELSE Decide(u, "NO")

\* resetDemoData, one transaction, for the demo's reset or as the first step of its
\* data.  The customer's consents to the demo's FI go with it; those to others stay.
\* The demo's second customer, who only loses the row, is not among the users.
ResetDemoData ==
    /\ writes < MaxWrites
    /\ writes' = writes + 1
    /\ customer' = [customer EXCEPT ![DemoUser] = Absent]
    /\ \E gone \in SUBSET {c \in ConsentIds : consent[c].user = DemoUser} :
          consent' = [c \in ConsentIds |-> IF c \in gone THEN NoConsent ELSE consent[c]]
    /\ seeding' \in BOOLEAN
    /\ UNCHANGED <<now, cycle, handler, owed, crossed, behind>>

\* Of the demo's consents one is a periodic update that waits.  It may not come to it,
\* the row's audit event coming first; and what happens in between happens with a consent
\* of CreateOther too.
SeedConsents ==
    \/ \E c \in ConsentIds :
          /\ consent[c] = NoConsent
          /\ consent' = [consent EXCEPT ![c] = [user |-> DemoUser, status |-> "PENDING"]]
    \/ UNCHANGED consent

\* seedDemoData goes on: the customer is overdue and owes a re-consent.  A row that
\* is there already makes it fail, as may anything before it.
SeedDemoData ==
    /\ seeding
    /\ seeding' = FALSE
    /\ UNCHANGED <<now, writes, cycle, handler>>
    /\ \/ /\ ~Exists(DemoUser)
          /\ customer' = [customer EXCEPT ![DemoUser] =
                 [tier |-> "HIGH", next |-> 0, requires |-> TRUE, status |-> "DUE"]]
          /\ Decide(DemoUser, "YES")
          /\ SeedConsents
       \/ UNCHANGED <<rows, consent>>

-----------------------------------------------------------------------------
(* runReviewCycle                                                          *)

Due(asOf) == {u \in Users : Exists(u) /\ customer[u].next <= asOf}

\* findDueCustomers: those due first, in the order they fall due.
IsBatch(us, asOf) ==
    LET taken == {us[i] : i \in DOMAIN us}
    IN  /\ \A i, j \in DOMAIN us : i < j =>
              us[i] # us[j] /\ customer[us[i]].next <= customer[us[j]].next
        /\ taken \subseteq Due(asOf)
        /\ Len(us) = BatchLimit \/ taken = Due(asOf)
        /\ \A u \in Due(asOf) \ taken : \A i \in DOMAIN us :
              customer[us[i]].next <= customer[u].next

\* A cycle reads the customers due at asOf; that of the CronJob at the moment it
\* runs.  One that finds none, or gets no service token, does nothing.
StartCycle(k, asOf) ==
    /\ cycle[k].batch = <<>>
    /\ k = Cron => asOf = now
    /\ \E n \in 1 .. BatchLimit : \E us \in [1 .. n -> Users] :
          /\ IsBatch(us, asOf)
          /\ cycle' = [cycle EXCEPT ![k] =
                 [batch |-> [i \in 1 .. n |-> [user |-> us[i], tier |-> customer[us[i]].tier]],
                  runAt |-> now]]
    /\ behind' = [behind EXCEPT ![k] = {u \in UsersOf(cycle'[k].batch) : IsPending(u)}]
    /\ UNCHANGED <<now, writes, customer, owed, crossed, consent, handler, seeding>>

\* The customer whose turn it is, as the row was read.
Current(k) == Head(cycle[k].batch)

\* An audit event refers to the customer's row, and cannot be written when it is gone.
IsAudited(u) == Exists(u)

IsTurn(k) == cycle[k].batch # <<>> /\ IsAudited(Current(k).user)

Advance(k) ==
    LET rest == Tail(cycle[k].batch)
    IN  cycle' = [cycle EXCEPT ![k] =
            IF rest = <<>> THEN NoCycle ELSE [@ EXCEPT !.batch = rest]]

\* A decision, unless the row was read before another was in it.
Reviews(k, isRequired) ==
    LET u == Current(k).user
    IN  IF u \notin behind[k] THEN Decide(u, IF isRequired THEN "YES" ELSE "NO")
        ELSE /\ crossed' = crossed \cup {u}
             /\ Overtakes({})
             /\ UNCHANGED owed

\* Mutant: the next review is not moved.
WriteReviewOnly(k, isRequired, status) ==
    /\ customer' = [customer EXCEPT ![Current(k).user] =
           [@ EXCEPT !.requires = isRequired, !.status = status]]
    /\ Reviews(k, isRequired)

\* The row is written over, whatever has become of it.
WriteReview(k, isRequired, status) ==
    LET next == cycle[k].runAt + Interval[Current(k).tier]
    IN  /\ customer' = [customer EXCEPT ![Current(k).user] =
               [@ EXCEPT !.requires = isRequired, !.status = status, !.next = next]]
        /\ Reviews(k, isRequired)

\* Mutant: HIGH is reviewed like the others.
IsSyncedAlways(tier) == TRUE

\* decideReviewAction
IsSynced(tier) == tier # "HIGH"

\* A customer of tier HIGH is to give the consent again.
RequireReconsent(k) ==
    /\ IsTurn(k)
    /\ ~IsSynced(Current(k).tier)
    /\ Advance(k)
    /\ WriteReview(k, TRUE, "RECONSENT_REQUIRED")
    /\ UNCHANGED <<now, writes, consent, handler, seeding>>

\* ckyc-adapter has answered a sync, changed or not.
Sync(k) ==
    /\ IsTurn(k)
    /\ IsSynced(Current(k).tier)
    /\ Advance(k)
    /\ WriteReview(k, FALSE, "SYNCED")
    /\ UNCHANGED <<now, writes, consent, handler, seeding>>

\* It has answered with an error.
SyncRefused(k) ==
    /\ IsTurn(k)
    /\ IsSynced(Current(k).tier)
    /\ Advance(k)
    /\ WriteReview(k, TRUE, "RECONSENT_REQUIRED")
    /\ UNCHANGED <<now, writes, consent, handler, seeding>>

\* It has not answered, or the write fails: the customer stays due.
ReviewFails(k) ==
    /\ IsTurn(k)
    /\ Advance(k)
    /\ Overtakes({})
    /\ UNCHANGED <<now, writes, customer, owed, crossed, consent, handler, seeding>>

\* The process dies; or an audit event refers to a customer who is gone, and the
\* cycle is given up, the rest of the batch with it.
Abort(k) ==
    /\ cycle[k].batch # <<>>
    /\ cycle' = [cycle EXCEPT ![k] = NoCycle]
    /\ Overtakes({})
    /\ UNCHANGED <<now, writes, customer, owed, crossed, consent, handler, seeding>>

-----------------------------------------------------------------------------
(* The re-consent: wallet-service and consent-manager                      *)

\* A PERIODIC_KYC_UPDATE consent of u that waits for an answer.
IsWaiting(c, u) == consent[c].user = u /\ consent[c].status = "PENDING"

CreateConsent(u, c) ==
    /\ consent[c] = NoConsent
    /\ consent' = [consent EXCEPT ![c] = [user |-> u, status |-> "PENDING"]]
    /\ UNCHANGED <<now, writes, rows, cycle, handler, seeding>>

\* POST /v1/wallet/:userId/review/request-reconsent: a re-consent is owed, and none
\* waits.  The consent is made later than the look: what two requests at once make
\* of that, a second consent, CreateOther makes too.
RequestReconsent(u, c) ==
    /\ customer[u].requires
    /\ ~\E d \in ConsentIds : IsWaiting(d, u)
    /\ CreateConsent(u, c)

\* An FI asks for a periodic update of its own accord.
CreateOther(u, c) == CreateConsent(u, c)

\* It is approved; ClearFlag follows.
ApproveConsent(h, c) ==
    /\ handler[h].pc = "idle"
    /\ consent[c].status = "PENDING"
    /\ consent' = [consent EXCEPT ![c].status = "APPROVED"]
    /\ handler' = [handler EXCEPT ![h] = [Idle EXCEPT !.pc = "clear", !.user = consent[c].user]]
    /\ UNCHANGED <<now, writes, customer, cycle, seeding>>
    /\ Decide(consent[c].user, "NO")

\* Mutant: the status is left.
ClearFlagOnly(h) ==
    /\ handler[h].pc = "clear"
    /\ LET u == handler[h].user
       IN  customer' = IF Exists(u) THEN [customer EXCEPT ![u].requires = FALSE] ELSE customer
    /\ handler' = [handler EXCEPT ![h] = Idle]
    /\ UNCHANGED <<now, writes, owed, crossed, behind, cycle, consent, seeding>>

\* The review of a customer who has one is settled, by the tier the row has now.
ClearFlag(h) ==
    /\ handler[h].pc = "clear"
    /\ LET u == handler[h].user
       IN  customer' = IF ~Exists(u) THEN customer
                       ELSE [customer EXCEPT ![u] =
                              [@ EXCEPT !.requires = FALSE, !.status = "ACTIVE",
                                        !.next = now + Interval[customer[u].tier]]]
    /\ handler' = [handler EXCEPT ![h] = Idle]
    /\ UNCHANGED <<now, writes, owed, crossed, behind, cycle, consent, seeding>>

\* An approved consent is revoked; RaiseFlag follows.
RevokeConsent(h, c) ==
    /\ handler[h].pc = "idle"
    /\ consent[c].status = "APPROVED"
    /\ consent' = [consent EXCEPT ![c] = NoConsent]
    /\ handler' = [handler EXCEPT ![h] = [Idle EXCEPT !.pc = "raise", !.user = consent[c].user]]
    /\ UNCHANGED <<now, writes, customer, cycle, seeding>>
    /\ Decide(consent[c].user, "OPEN")

\* Mutant: it is not asked whether the customer has a review.
RaiseFlagBlindly(h) ==
    /\ handler[h].pc = "raise"
    /\ customer' = [customer EXCEPT ![handler[h].user].requires = TRUE]
    /\ handler' = [handler EXCEPT ![h] = Idle]
    /\ UNCHANGED <<now, writes, owed, crossed, behind, cycle, consent, seeding>>

\* Only the flag: when the next review is, and the status, stay.  The comment in the
\* code speaks of closing the review requirement; this raises it.
RaiseFlag(h) ==
    /\ handler[h].pc = "raise"
    /\ LET u == handler[h].user
       IN  customer' = IF Exists(u) THEN [customer EXCEPT ![u].requires = TRUE] ELSE customer
    /\ handler' = [handler EXCEPT ![h] = Idle]
    /\ UNCHANGED <<now, writes, owed, crossed, behind, cycle, consent, seeding>>

\* A handler dies, and its second write is never made.
HandlerDies(h) ==
    /\ handler[h].pc # "idle"
    /\ handler' = [handler EXCEPT ![h] = Idle]
    /\ crossed' = crossed \cup {handler[h].user}
    /\ UNCHANGED <<now, writes, customer, owed, behind, cycle, consent, seeding>>

\* A consent is rejected, or its seven days are over.
CloseConsent(c) ==
    /\ consent[c] # NoConsent
    /\ consent' = [consent EXCEPT ![c] = NoConsent]
    /\ UNCHANGED <<now, writes, rows, cycle, handler, seeding>>

Tick ==
    /\ now < MaxTime
    /\ now' = now + 1
    /\ UNCHANGED <<writes, rows, cycle, consent, handler, seeding>>

CycleStep(k) ==
    \/ \E asOf \in 0 .. MaxTime : StartCycle(k, asOf)
    \/ RequireReconsent(k)
    \/ Sync(k)
    \/ SyncRefused(k)
    \/ ReviewFails(k)
    \/ Abort(k)

HandlerStep(h) ==
    \/ \E c \in ConsentIds : ApproveConsent(h, c)
    \/ ClearFlag(h)
    \/ \E c \in ConsentIds : RevokeConsent(h, c)
    \/ RaiseFlag(h)
    \/ HandlerDies(h)

Next ==
    \/ \E u \in Users, tier \in Tiers : \E last \in 0 .. now : UpsertCustomer(u, tier, last)
    \/ ResetDemoData
    \/ SeedDemoData
    \/ \E k \in Cycles : CycleStep(k)
    \/ \E h \in Handlers : HandlerStep(h)
    \/ \E u \in Consenting, c \in ConsentIds : RequestReconsent(u, c)
    \/ \E u \in Consenting, c \in ConsentIds : CreateOther(u, c)
    \/ \E c \in ConsentIds : CloseConsent(c)
    \/ Tick

\* The CronJob starts again and again, and is started again when it failed; neither
\* it nor ckyc-adapter fails for ever.  Nothing else is promised.
Fairness ==
    /\ SF_vars(StartCycle(Cron, now))
    /\ SF_vars(RequireReconsent(Cron))
    /\ SF_vars(Sync(Cron))

Spec == Init /\ [][Next]_vars

FairSpec == Spec /\ Fairness

-----------------------------------------------------------------------------
(* Properties                                                              *)

\* The shape of the state.
TypeOK ==
    /\ now \in 0 .. MaxTime
    /\ writes \in 0 .. MaxWrites
    /\ customer \in [Users -> Customers \cup {Absent}]
    /\ cycle \in [Cycles -> [batch: Seq([user: Users, tier: Tiers]), runAt: 0 .. MaxTime]]
    /\ \A k \in Cycles : Len(cycle[k].batch) <= BatchLimit
    /\ consent \in [ConsentIds -> [user: Users, status: {"NONE", "PENDING", "APPROVED"}]]
    /\ handler \in [Handlers -> [pc: {"idle", "clear", "raise"}, user: Users]]
    /\ seeding \in BOOLEAN
    /\ owed \in [Users -> {"NO", "YES", "OPEN"}]
    /\ crossed \subseteq Users
    /\ behind \in [Cycles -> SUBSET Users]

\* Who is shown as RECONSENT_REQUIRED can ask for the re-consent, whichever of the
\* six writers of a row wrote last.
StatusTellsFlag ==
    \A u \in Users : customer[u].status \in {"RECONSENT_REQUIRED", "DUE"} => customer[u].requires

\* When nobody is between his writes, the flag is what the last decision made it: an
\* approval that none is owed, a review or the demo data what they found; of a revocation
\* nothing is said.  A decision taken while another was on its way, a handler that died
\* or a cycle that wrote over a decision it had not read can leave it wrong, and the next
\* decision rights it.  Upserts, resets and refused requests never do.
FlagFollowsDecisions ==
    \A u \in Users : Exists(u) /\ ~IsPending(u) /\ u \notin crossed =>
        /\ owed[u] = "YES" => customer[u].requires
        /\ owed[u] = "NO" => ~customer[u].requires

\* What a customer of tier HIGH owes is settled by an approval, or by a cycle that
\* read the row when the tier was another.
HighIsNotSynced ==
    [][\A u \in Users :
          customer[u].tier = "HIGH" /\ customer[u].requires /\ customer'[u] # Absent
              /\ ~customer'[u].requires
          => \/ \E h \in Handlers : handler[h].pc = "clear" /\ handler[h].user = u
             \/ \E k \in Cycles : cycle[k].batch # <<>> /\ Current(k).user = u
                                  /\ Current(k).tier # "HIGH"]_vars

IsOverdue(u) == Exists(u) /\ customer[u].next <= now

\* Who is due is reviewed: syncs that fail keep a customer due and first in order,
\* and a cycle takes a limited number, but in the end each gets a turn.
DueIsReviewed == \A u \in Users : IsOverdue(u) ~> ~IsOverdue(u)

=============================================================================
