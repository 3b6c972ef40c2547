------------------------------ MODULE JwksCache ------------------------------
(***************************************************************************)
(* The JWKS cache of a service (packages/common/src/jwks-cache.ts): the    *)
(* keys an issuer published, kept for a while, with which the service's    *)
(* OIDC validator and its assertion verifier check the tokens they are     *)
(* given.  Verifications that find no fresh keys share one fetch; one      *)
(* whose key is missing has them fetched again, once, whatever their age.  *)
(*                                                                         *)
(* The service is one thread: what follows an answer, up to the next       *)
(* fetch, is done before anything else happens.  The issuer publishes its  *)
(* newest key and for some time the one before.  Entries of several        *)
(* issuers share nothing.  Keys are counted from 1, in order of age.       *)
(***************************************************************************)
EXTENDS Integers

CONSTANTS
    Verifiers,      \* verifications in flight at once
    Ttl,            \* how long fetched keys are used
    MaxKey, MaxTime, \* bounds on rotations and on the clock
    NoVerifier

ASSUME JwksAssumption ==
    /\ Ttl \in Nat \ {0}
    /\ MaxKey \in Nat \ {0} /\ MaxTime \in Nat
    /\ NoVerifier \notin Verifiers

VARIABLES
    now,
    current,        \* the issuer's newest key
    oldest,         \* the oldest key it still publishes
    resolver,       \* the keys in the entry, as of when the issuer answered
    expiresAt,      \* of the entry
    pending,        \* whose fetch the entry says is in flight
    verifier

entry == <<resolver, expiresAt, pending>>
issuer == <<current, oldest>>
vars == <<now, issuer, entry, verifier>>

Keys == 1 .. MaxKey

\* What the issuer publishes: the keys from one to another, none at all without an entry.
Published == [from |-> oldest, to |-> current]
NoKeys == [from |-> 1, to |-> 0]
KeySets == [from: Keys, to: Keys \cup {0}]

HasKey(keys, k) == keys.from <= k /\ k <= keys.to

\* A verification: the key its token is signed with, whose fetch it waits for, the
\* answer to its own, whether it is its second look; whether its key was published
\* when it began, the newest key at that time, and the newest when the fetch it
\* waits for was begun (history).
Idle == [pc |-> "idle", key |-> 1, on |-> NoVerifier, answer |-> NoKeys, forced |-> FALSE,
         asOf |-> 1, fetchAsOf |-> 1]

VerifierRecords ==
    [pc: {"idle", "fetching", "answered", "waiting", "again", "accepted", "rejected", "failed"},
     key: Keys, on: Verifiers \cup {NoVerifier}, answer: KeySets, forced: BOOLEAN,
     asOf: Keys, fetchAsOf: Keys]

Init ==
    /\ now = 0
    /\ current = 1
    /\ oldest = 1
    /\ resolver = NoKeys
    /\ expiresAt = 0
    /\ pending = NoVerifier
    /\ verifier = [v \in Verifiers |-> Idle]

IsFresh == resolver # NoKeys /\ expiresAt > now

-----------------------------------------------------------------------------
(* loadResolver and createRemoteJwksResolver                               *)

\* Mutant: no second look.
LookOnce(record, keys) ==
    [record EXCEPT !.pc = IF HasKey(keys, record.key) THEN "accepted" ELSE "rejected",
                   !.on = NoVerifier, !.answer = NoKeys]

\* What a verification becomes when it has keys to look into.
Look(record, keys) ==
    IF HasKey(keys, record.key) THEN [Idle EXCEPT !.pc = "accepted", !.key = record.key]
    ELSE IF record.forced THEN [record EXCEPT !.pc = "rejected", !.answer = NoKeys]
    ELSE [record EXCEPT !.pc = "again", !.on = NoVerifier, !.answer = NoKeys]

\* Mutant: a forced refresh is not shared.
LoadAlone(v, record) ==
    IF ~record.forced /\ pending # NoVerifier
    THEN /\ verifier' = [verifier EXCEPT ![v] = [record EXCEPT
                !.pc = "waiting", !.on = pending, !.fetchAsOf = verifier[pending].fetchAsOf]]
         /\ UNCHANGED pending
    ELSE /\ verifier' = [verifier EXCEPT ![v] = [record EXCEPT
                !.pc = "fetching", !.fetchAsOf = current]]
         /\ pending' = v

\* A fetch that is in flight is shared, by a forced refresh too; else one is begun.
Load(v, record) ==
    IF pending # NoVerifier
    THEN /\ verifier' = [verifier EXCEPT ![v] = [record EXCEPT
                !.pc = "waiting", !.on = pending, !.fetchAsOf = verifier[pending].fetchAsOf]]
         /\ UNCHANGED pending
    ELSE /\ verifier' = [verifier EXCEPT ![v] = [record EXCEPT
                !.pc = "fetching", !.fetchAsOf = current]]
         /\ pending' = v

\* A token comes in, signed with one of the issuer's keys, old or new.
Begin(v, k) ==
    /\ verifier[v].pc = "idle"
    /\ k <= current
    /\ LET record == [Idle EXCEPT !.key = k, !.asOf = current, !.fetchAsOf = current]
       IN  IF IsFresh
           THEN /\ verifier' = [verifier EXCEPT ![v] = Look(record, resolver)]
                /\ UNCHANGED pending
           ELSE Load(v, record)
    /\ UNCHANGED <<now, issuer, resolver, expiresAt>>

\* Its key is missing: the keys are to be fetched again.
ForceRefresh(v) ==
    /\ verifier[v].pc = "again"
    /\ Load(v, [verifier[v] EXCEPT !.forced = TRUE])
    /\ UNCHANGED <<now, issuer, resolver, expiresAt>>

\* Whom the outcome of v's fetch concerns: itself, and who shares it.
Sharing(v) == {w \in Verifiers : w = v \/ (verifier[w].pc = "waiting" /\ verifier[w].on = v)}

\* Mutant: the keys are kept for twice as long.
FetchSucceedsLong(v) ==
    /\ verifier[v].pc = "answered"
    /\ resolver' = verifier[v].answer
    /\ expiresAt' = now + 2 * Ttl
    /\ pending' = NoVerifier
    /\ verifier' = [w \in Verifiers |->
           IF w \in Sharing(v) THEN Look(verifier[w], verifier[v].answer) ELSE verifier[w]]
    /\ UNCHANGED <<now, issuer>>

\* The answer arrives: the entry is written, and all look into the keys.
FetchSucceeds(v) ==
    /\ verifier[v].pc = "answered"
    /\ resolver' = verifier[v].answer
    /\ expiresAt' = now + Ttl
    /\ pending' = NoVerifier
    /\ verifier' = [w \in Verifiers |->
           IF w \in Sharing(v) THEN Look(verifier[w], verifier[v].answer) ELSE verifier[w]]
    /\ UNCHANGED <<now, issuer>>

\* Mutant: the entry is left as it was.
FetchFailsOnly(v) ==
    /\ verifier[v].pc \in {"fetching", "answered"}
    /\ verifier' = [w \in Verifiers |->
           IF w \in Sharing(v) THEN [Idle EXCEPT !.pc = "failed"] ELSE verifier[w]]
    /\ UNCHANGED <<now, issuer, entry>>

\* The request or its answer fails: the entry goes, keys that are fresh with it, and
\* so does everyone.
FetchFails(v) ==
    /\ verifier[v].pc \in {"fetching", "answered"}
    /\ resolver' = NoKeys
    /\ expiresAt' = 0
    /\ pending' = NoVerifier
    /\ verifier' = [w \in Verifiers |->
           IF w \in Sharing(v) THEN [Idle EXCEPT !.pc = "failed"] ELSE verifier[w]]
    /\ UNCHANGED <<now, issuer>>

\* The caller has its answer, 401 unless the token was accepted.
End(v) ==
    /\ verifier[v].pc \in {"accepted", "rejected", "failed"}
    /\ verifier' = [verifier EXCEPT ![v] = Idle]
    /\ UNCHANGED <<now, issuer, entry>>

-----------------------------------------------------------------------------
(* The issuer, and time                                                    *)

\* The thread runs before it waits again.
Waits == \A v \in Verifiers : verifier[v].pc # "again"

\* The issuer answers a fetch.
Answer(v) ==
    /\ Waits
    /\ verifier[v].pc = "fetching"
    /\ verifier' = [verifier EXCEPT ![v].pc = "answered", ![v].answer = Published]
    /\ UNCHANGED <<now, issuer, entry>>

\* It has a new key; the one before stays for a while.
Rotate ==
    /\ Waits
    /\ current < MaxKey
    /\ oldest' = current
    /\ current' = current + 1
    /\ UNCHANGED <<now, entry, verifier>>

\* It withdraws the old key.
Withdraw ==
    /\ Waits
    /\ oldest < current
    /\ oldest' = current
    /\ UNCHANGED <<now, current, entry, verifier>>

Tick ==
    /\ Waits
    /\ now < MaxTime
    /\ now' = now + 1
    /\ UNCHANGED <<issuer, entry, verifier>>

Next ==
    \/ \E v \in Verifiers, k \in Keys : Begin(v, k)
    \/ \E v \in Verifiers : ForceRefresh(v)
    \/ \E v \in Verifiers : Answer(v)
    \/ \E v \in Verifiers : FetchSucceeds(v)
    \/ \E v \in Verifiers : FetchFails(v)
    \/ \E v \in Verifiers : End(v)
    \/ Rotate
    \/ Withdraw
    \/ Tick

\* A fetch ends, if only by fetch's own time limit, and the thread goes on.
Fairness ==
    \A v \in Verifiers :
        WF_vars(ForceRefresh(v)) /\ WF_vars(Answer(v)) /\ WF_vars(FetchSucceeds(v))

Spec == Init /\ [][Next]_vars

FairSpec == Spec /\ Fairness

-----------------------------------------------------------------------------
(* Properties                                                              *)

\* The shape of the state.
TypeOK ==
    /\ now \in 0 .. MaxTime
    /\ current \in Keys /\ oldest \in Keys /\ oldest <= current
    /\ resolver \in KeySets
    /\ expiresAt \in 0 .. MaxTime + Ttl
    /\ pending \in Verifiers \cup {NoVerifier}
    /\ verifier \in [Verifiers -> VerifierRecords]

IsFetching(v) == verifier[v].pc \in {"fetching", "answered"}

\* However many verifications find the keys missing or too old, one fetch is in
\* flight, and the entry knows of it; who waits, waits for that one.
OneFetch ==
    /\ \A v \in Verifiers : IsFetching(v) <=> pending = v
    /\ \A v \in Verifiers : verifier[v].pc = "waiting" => verifier[v].on = pending /\ pending # NoVerifier

\* A token signed with the newest key is refused for its key only when the fetch it
\* shared was begun before that key was made, however old the keys in the entry were.
NewKeyIsFound ==
    \A v \in Verifiers :
        verifier[v].pc = "rejected" /\ verifier[v].key = verifier[v].asOf /\ verifier[v].key = current
            => verifier[v].fetchAsOf < verifier[v].key

\* The entry never goes back to keys older than those it holds.
KeysNeverGetOlder ==
    [][resolver' # NoKeys => resolver'.to >= resolver.to /\ resolver'.from >= resolver.from]_vars

\* Every verification is answered, also those that waited for a fetch that failed.
VerificationEnds ==
    \A v \in Verifiers :
        verifier[v].pc \in {"fetching", "answered", "waiting", "again"}
            ~> verifier[v].pc \in {"accepted", "rejected", "failed"}

=============================================================================
