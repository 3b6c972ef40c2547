--------------------------- MODULE WalletDelegation ---------------------------
(***************************************************************************)
(* wallet-service (apps/wallet-service): the nominees of one owner and the *)
(* delegations made to them.  Disabling a nominee is two writes, the       *)
(* nominee's row and then an updateMany over his delegations; granting a   *)
(* delegation is a read of the nominee, an updateMany that revokes the one *)
(* it replaces, and the insert.  No transaction is around either, so       *)
(* requests of any replica interleave between them.                        *)
(*                                                                         *)
(* Rows of two owners share nothing.  A delegation's purposes and fields   *)
(* matter to consent-manager only (ConsentManager, Delegate).              *)
(***************************************************************************)
EXTENDS Integers, FiniteSets

CONSTANTS
    Nominees,       \* users the owner may make nominees
    Scopes,         \* delegationScopes
    Lifetimes,      \* time from the request to the expiresAt of its body
    MaxDelegations, \* bound on the delegations ever made
    Requests,       \* requests ever made, to any replica
    MaxTime,        \* bound on the clock
    NoNominee, NoScope

ASSUME WalletAssumption ==
    /\ Lifetimes \subseteq Nat \ {0}
    /\ MaxDelegations \in Nat
    /\ NoNominee \notin Nominees /\ NoScope \notin Scopes

VARIABLES
    now,
    nominee,        \* status of the row of each nominee, "NONE" without one
    delegations,    \* the table of delegations, in the order they were made
    made,           \* how many there are
    req,            \* the requests in flight
    sweptUpTo,      \* of each nominee, how many delegations there were when a
                    \* disable last revoked his; all there can be, from a disable's
                    \* first write until one has (history)
    seenBy,         \* of each delegation, how many there were when its request
                    \* revoked those it replaces (history)
    replaced,       \* delegations that a request for another revoked (history)
    interrupted     \* nominee and scope a request died on between its two writes;
                    \* NoScope when it was disabling (history)

table == <<delegations, made>>
history == <<sweptUpTo, seenBy, replaced, interrupted>>
vars == <<now, nominee, table, req, history>>

Ids == 1 .. MaxDelegations

Absent == [delegate |-> NoNominee, scope |-> NoScope, expiresAt |-> 0, status |-> "ABSENT"]

Delegations ==
    [delegate: Nominees, scope: Scopes, expiresAt: Nat, status: {"ACTIVE", "REVOKED", "EXPIRED"}]

\* A request: how far it is, whom and which scope it is about, the expiry it asks
\* for, the delegation it has found, and what it saw when it revoked.
New == [pc |-> "new", delegate |-> NoNominee, scope |-> NoScope, expiresAt |-> 0,
        id |-> 0, saw |-> 0]

Done == [New EXCEPT !.pc = "done"]

RequestRecords ==
    [pc: {"new", "disabled", "checked", "replaced", "found", "done"},
     delegate: Nominees \cup {NoNominee}, scope: Scopes \cup {NoScope}, expiresAt: Nat,
     id: Ids \cup {0}, saw: Ids \cup {0}]

IsNew(r) == req[r].pc = "new"

Goto(r, pc) == req' = [req EXCEPT ![r].pc = pc]

Finish(r) == req' = [req EXCEPT ![r] = Done]

-----------------------------------------------------------------------------
(* The table of delegations                                                *)

Exists(i) == delegations[i].status # "ABSENT"

Active(i) == delegations[i].status = "ACTIVE"

ActiveOf(d, s) == {i \in Ids : Active(i) /\ delegations[i].delegate = d /\ delegations[i].scope = s}

\* updateMany: one statement over the rows that match it now.
SetStatus(ids, status) ==
    delegations' = [i \in Ids |-> IF i \in ids THEN [delegations[i] EXCEPT !.status = status]
                                  ELSE delegations[i]]

Init ==
    /\ now = 0
    /\ nominee = [d \in Nominees |-> "NONE"]
    /\ delegations = [i \in Ids |-> Absent]
    /\ made = 0
    /\ req = [r \in Requests |-> New]
    /\ sweptUpTo = [d \in Nominees |-> 0]
    /\ seenBy = [i \in Ids |-> 0]
    /\ replaced = {}
    /\ interrupted = {}

Tick ==
    /\ now < MaxTime
    /\ now' = now + 1
    /\ UNCHANGED <<nominee, table, req, history>>

-----------------------------------------------------------------------------
(* Nominees                                                                *)

\* POST /nominees: the upsert makes the row, or makes it ACTIVE again.
SaveNominee(d) ==
    /\ nominee' = [nominee EXCEPT ![d] = "ACTIVE"]
    /\ UNCHANGED <<now, table, req, history>>

\* POST /nominees/:id/enable.
EnableNominee(d) ==
    /\ nominee[d] # "NONE"
    /\ nominee' = [nominee EXCEPT ![d] = "ACTIVE"]
    /\ UNCHANGED <<now, table, req, history>>

\* POST /nominees/:id/disable, its first write.
DisableNominee(r, d) ==
    /\ IsNew(r)
    /\ nominee[d] # "NONE"
    /\ nominee' = [nominee EXCEPT ![d] = "DISABLED"]
    /\ req' = [req EXCEPT ![r] = [New EXCEPT !.pc = "disabled", !.delegate = d]]
    /\ sweptUpTo' = [sweptUpTo EXCEPT ![d] = MaxDelegations]
    /\ UNCHANGED <<now, table, seenBy, replaced, interrupted>>

\* Mutant: only the delegations to approve are revoked.
RevokeDelegationsOfOneScope(r) ==
    LET d == req[r].delegate
    IN  /\ req[r].pc = "disabled"
        /\ \E s \in Scopes : SetStatus(ActiveOf(d, s), "REVOKED")
        /\ sweptUpTo' = [sweptUpTo EXCEPT ![d] = made]
        /\ interrupted' = interrupted \ {<<d, NoScope>>}
        /\ Finish(r)
        /\ UNCHANGED <<now, nominee, made, seenBy, replaced>>

\* The second: every ACTIVE delegation to the nominee, "for safety".
RevokeDelegations(r) ==
    LET d == req[r].delegate
    IN  /\ req[r].pc = "disabled"
        /\ SetStatus(UNION {ActiveOf(d, s) : s \in Scopes}, "REVOKED")
        /\ sweptUpTo' = [sweptUpTo EXCEPT ![d] = made]
        /\ interrupted' = interrupted \ {<<d, NoScope>>}
        /\ Finish(r)
        /\ UNCHANGED <<now, nominee, made, seenBy, replaced>>

-----------------------------------------------------------------------------
(* Delegations                                                             *)

\* POST /delegations: the nominee is found ACTIVE, the expiry is in the future.
CheckNominee(r, d, s, lifetime) ==
    /\ IsNew(r)
    /\ nominee[d] = "ACTIVE"
    /\ req' = [req EXCEPT ![r] = [New EXCEPT !.pc = "checked", !.delegate = d, !.scope = s,
                                             !.expiresAt = now + lifetime]]
    /\ UNCHANGED <<now, nominee, table, history>>

\* Mutant: a delegation that has run out is not replaced.
ReplaceUnexpired(r) ==
    LET old == {i \in ActiveOf(req[r].delegate, req[r].scope) : delegations[i].expiresAt > now}
    IN  /\ req[r].pc = "checked"
        /\ SetStatus(old, "REVOKED")
        /\ replaced' = replaced \cup old
        /\ req' = [req EXCEPT ![r].pc = "replaced", ![r].saw = made]
        /\ UNCHANGED <<now, nominee, made, sweptUpTo, seenBy, interrupted>>

\* The delegation it replaces is revoked.
ReplaceDelegations(r) ==
    LET old == ActiveOf(req[r].delegate, req[r].scope)
    IN  /\ req[r].pc = "checked"
        /\ SetStatus(old, "REVOKED")
        /\ replaced' = replaced \cup old
        /\ req' = [req EXCEPT ![r].pc = "replaced", ![r].saw = made]
        /\ UNCHANGED <<now, nominee, made, sweptUpTo, seenBy, interrupted>>

\* Mutant: the expiry is looked at when the old delegation is gone.
CreateDelegationIfNotExpired(r) ==
    /\ req[r].pc = "replaced"
    /\ made < MaxDelegations
    /\ IF req[r].expiresAt > now
       THEN /\ delegations' = [delegations EXCEPT ![made + 1] =
                 [delegate |-> req[r].delegate, scope |-> req[r].scope,
                  expiresAt |-> req[r].expiresAt, status |-> "ACTIVE"]]
            /\ made' = made + 1
            /\ seenBy' = [seenBy EXCEPT ![made + 1] = req[r].saw]
       ELSE UNCHANGED <<delegations, made, seenBy>>
    /\ Finish(r)
    /\ UNCHANGED <<now, nominee, sweptUpTo, replaced, interrupted>>

\* The new one is there, whatever the nominee has become.
CreateDelegation(r) ==
    /\ req[r].pc = "replaced"
    /\ made < MaxDelegations
    /\ delegations' = [delegations EXCEPT ![made + 1] =
          [delegate |-> req[r].delegate, scope |-> req[r].scope,
           expiresAt |-> req[r].expiresAt, status |-> "ACTIVE"]]
    /\ made' = made + 1
    /\ seenBy' = [seenBy EXCEPT ![made + 1] = req[r].saw]
    /\ Finish(r)
    /\ UNCHANGED <<now, nominee, sweptUpTo, replaced, interrupted>>

\* GET /delegations first marks those that have run out.
ExpireDelegations ==
    /\ SetStatus({i \in Ids : Active(i) /\ delegations[i].expiresAt <= now}, "EXPIRED")
    /\ UNCHANGED <<now, nominee, made, req, history>>

\* POST /delegations/:id/revoke: the row is there and ACTIVE.
FindDelegation(r, i) ==
    /\ IsNew(r)
    /\ Active(i)
    /\ req' = [req EXCEPT ![r] = [New EXCEPT !.pc = "found", !.id = i]]
    /\ UNCHANGED <<now, nominee, table, history>>

\* Mutant: the row is deleted.
DeleteDelegation(r) ==
    /\ req[r].pc = "found"
    /\ delegations' = [delegations EXCEPT ![req[r].id] = Absent]
    /\ Finish(r)
    /\ UNCHANGED <<now, nominee, made, history>>

\* It is REVOKED, whatever it is by now.
RevokeDelegation(r) ==
    /\ req[r].pc = "found"
    /\ SetStatus({req[r].id}, "REVOKED")
    /\ Finish(r)
    /\ UNCHANGED <<now, nominee, made, history>>

\* A write fails or the replica dies.
Die(r) ==
    /\ req[r].pc \notin {"new", "done"}
    /\ interrupted' = interrupted \cup
          CASE req[r].pc = "disabled" -> {<<req[r].delegate, NoScope>>}
            [] req[r].pc = "replaced" -> {<<req[r].delegate, req[r].scope>>}
            [] OTHER -> {}
    /\ Finish(r)
    /\ UNCHANGED <<now, nominee, table, sweptUpTo, seenBy, replaced>>

Begin(r) ==
    \/ \E d \in Nominees : DisableNominee(r, d)
    \/ \E d \in Nominees, s \in Scopes, lifetime \in Lifetimes : CheckNominee(r, d, s, lifetime)
    \/ \E i \in Ids : FindDelegation(r, i)

Step(r) ==
    \/ RevokeDelegations(r)
    \/ ReplaceDelegations(r)
    \/ CreateDelegation(r)
    \/ RevokeDelegation(r)
    \/ Die(r)

Next ==
    \/ Tick
    \/ \E d \in Nominees : SaveNominee(d) \/ EnableNominee(d)
    \/ ExpireDelegations
    \/ \E r \in Requests : Begin(r) \/ Step(r)

Spec == Init /\ [][Next]_vars

-----------------------------------------------------------------------------
(* Properties                                                              *)

\* The shape of the state: rows fill the table from its start and none is changed
\* before it was made.
TypeOK ==
    /\ now \in Nat
    /\ nominee \in [Nominees -> {"NONE", "ACTIVE", "DISABLED"}]
    /\ made \in Ids \cup {0}
    /\ delegations \in [Ids -> Delegations \cup {Absent}]
    /\ \A i \in Ids : i <= made <=> Exists(i)
    /\ req \in [Requests -> RequestRecords]
    /\ \A r \in Requests :
          /\ req[r].pc \in {"disabled", "checked", "replaced"} => req[r].delegate \in Nominees
          /\ req[r].pc \in {"checked", "replaced"} => req[r].scope \in Scopes
          /\ req[r].pc = "found" => req[r].id \in 1 .. made
    /\ sweptUpTo \in [Nominees -> Ids \cup {0}]
    /\ seenBy \in [Ids -> Ids \cup {0}]
    /\ replaced \subseteq 1 .. made
    /\ interrupted \subseteq Nominees \X (Scopes \cup {NoScope})

\* Two ACTIVE delegations of one scope to one nominee come only of requests that
\* overlapped: the older one was made after the other's request had revoked what
\* it found.  In any other order granting replaces.
TwoActiveOnlyIfOverlapping ==
    \A d \in Nominees, s \in Scopes :
        \A i, j \in ActiveOf(d, s) : i < j => seenBy[j] < i

\* "Also revoke active delegations to this nominee for safety": when no disabling
\* of a DISABLED nominee is under way or died half way, the delegations he still
\* holds are those of requests that had found him ACTIVE and wrote only after the
\* disabling had revoked; none that was there escapes it.
DisabledHoldsOnlyLaterOnes ==
    \A d \in Nominees : nominee[d] = "DISABLED" =>
        \/ \E r \in Requests : req[r].pc = "disabled" /\ req[r].delegate = d
        \/ <<d, NoScope>> \in interrupted
        \/ \A s \in Scopes : \A i \in ActiveOf(d, s) : sweptUpTo[d] < i

\* A delegation that was revoked to be replaced has a newer one of its scope,
\* unless the request that revokes is between its two writes or died there.
ReplacementArrives ==
    \A i \in replaced : LET d == delegations[i].delegate  s == delegations[i].scope IN
        \/ \E j \in Ids : i < j /\ delegations[j].delegate = d /\ delegations[j].scope = s
        \/ \E r \in Requests : req[r].pc = "replaced" /\ req[r].delegate = d /\ req[r].scope = s
        \/ <<d, s>> \in interrupted

=============================================================================
