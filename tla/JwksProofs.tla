------------------------------ MODULE JwksProofs ------------------------------
(***************************************************************************)
(* Theorems about JwksCache, for any number of verifications and any life  *)
(* of the keys.                                                            *)
(***************************************************************************)
EXTENDS JwksCache, TLAPS

\* What a fetch that is answered brings is not older than what the issuer published
\* when it was begun, and who shares a fetch remembers when that was.
FetchOK(v) ==
    /\ verifier[v].pc = "fetching" => verifier[v].fetchAsOf <= current
    /\ verifier[v].pc = "answered" =>
          /\ verifier[v].fetchAsOf <= verifier[v].answer.to
          /\ verifier[v].answer.from <= verifier[v].answer.to
          /\ verifier[v].answer.to <= current
          /\ resolver.from <= verifier[v].answer.from
          /\ verifier[v].answer.from <= oldest
          /\ resolver.to <= verifier[v].answer.to
    /\ verifier[v].pc = "waiting" =>
          verifier[v].fetchAsOf = verifier[verifier[v].on].fetchAsOf

\* No token is signed with a key that is yet to be made, and the entry is as old as what
\* the issuer publishes, or older.
JwksInv ==
    /\ TypeOK
    /\ OneFetch
    /\ NewKeyIsFound
    /\ resolver.from <= oldest /\ resolver.to <= current
    /\ \A v \in Verifiers : verifier[v].key <= current /\ FetchOK(v)

-----------------------------------------------------------------------------

\* What Look makes of a record, and what it leaves of it.
LEMMA LookResult ==
    ASSUME NEW record \in VerifierRecords, NEW keys \in KeySets
    PROVE  /\ Look(record, keys) \in VerifierRecords
           /\ Look(record, keys).pc \in {"accepted", "rejected", "again"}
           /\ Look(record, keys).key = record.key
           /\ Look(record, keys).pc = "rejected" =>
                 /\ record.forced /\ ~HasKey(keys, record.key)
                 /\ Look(record, keys).asOf = record.asOf
                 /\ Look(record, keys).fetchAsOf = record.fetchAsOf
<1>1. NoKeys \in KeySets /\ 1 \in Keys
  BY JwksAssumption DEF NoKeys, KeySets, Keys
<1> QED
  BY <1>1 DEF Look, VerifierRecords, Idle

LEMMA IdleIsRecord == Idle \in VerifierRecords
BY JwksAssumption DEF VerifierRecords, Idle, KeySets, Keys, NoKeys

LEMMA InitInv == Init => JwksInv
<1> SUFFICES ASSUME Init PROVE JwksInv
  OBVIOUS
<1>1. NoKeys \in KeySets /\ 1 \in Keys
  BY JwksAssumption DEF NoKeys, KeySets, Keys
<1>2. \A v \in Verifiers : verifier[v] = Idle
  BY DEF Init
<1>3. TypeOK
  BY <1>1, JwksAssumption DEF Init, TypeOK, VerifierRecords, Idle, Keys
<1>4. OneFetch /\ NewKeyIsFound
  BY <1>2, JwksAssumption DEF Init, OneFetch, IsFetching, NewKeyIsFound, Idle
<1> QED
  BY <1>2, <1>3, <1>4 DEF Init, JwksInv, FetchOK, Idle, NoKeys

\* Load begins a fetch or shares the one that is in flight.
LEMMA LoadKeepsInv ==
    ASSUME JwksInv, NEW v \in Verifiers, verifier[v].pc \in {"idle", "again"},
           NEW record \in VerifierRecords, record.key <= current,
           Load(v, record), UNCHANGED <<now, issuer, resolver, expiresAt>>
    PROVE  JwksInv'
<1> USE DEF JwksInv
<1>0. v # NoVerifier
  BY JwksAssumption
<1>1. CASE pending # NoVerifier
  <2> DEFINE rec == [record EXCEPT !.pc = "waiting", !.on = pending,
                                   !.fetchAsOf = verifier[pending].fetchAsOf]
  <2>1. pending \in Verifiers /\ pending # v /\ IsFetching(pending)
    BY <1>1 DEF TypeOK, OneFetch, IsFetching
  <2>2. /\ rec \in VerifierRecords /\ rec.pc = "waiting" /\ rec.on = pending
        /\ rec.key = record.key /\ rec.fetchAsOf = verifier[pending].fetchAsOf
    BY <2>1 DEF VerifierRecords, TypeOK
  <2>3. verifier' = [verifier EXCEPT ![v] = rec] /\ pending' = pending
    BY <1>1 DEF Load
  <2> HIDE DEF rec
  <2>4. /\ verifier'[v] = rec
        /\ \A w \in Verifiers \ {v} : verifier'[w] = verifier[w]
        /\ verifier' \in [Verifiers -> VerifierRecords]
    BY <2>2, <2>3 DEF TypeOK
  <2>5. TypeOK' /\ NewKeyIsFound'
    BY <2>2, <2>3, <2>4 DEF TypeOK, NewKeyIsFound, issuer
  <2>6. OneFetch'
    <3>1. \A w \in Verifiers \ {v} : IsFetching(w)' <=> pending' = w
      BY <2>3, <2>4 DEF OneFetch, IsFetching
    <3>2. ~IsFetching(v)' /\ pending' # v
      BY <2>1, <2>2, <2>3, <2>4 DEF IsFetching
    <3>3. \A w \in Verifiers : verifier'[w].pc = "waiting" =>
              verifier'[w].on = pending' /\ pending' # NoVerifier
      BY <1>1, <2>2, <2>3, <2>4 DEF OneFetch
    <3> QED
      BY <3>1, <3>2, <3>3 DEF OneFetch
  <2>7. \A w \in Verifiers : (verifier[w].key <= current /\ FetchOK(w))'
    BY <2>1, <2>2, <2>3, <2>4 DEF FetchOK, OneFetch, IsFetching, issuer
  <2> QED
    BY <2>5, <2>6, <2>7 DEF issuer
<1>2. CASE pending = NoVerifier
  <2> DEFINE rec == [record EXCEPT !.pc = "fetching", !.fetchAsOf = current]
  <2>1. /\ rec \in VerifierRecords /\ rec.pc = "fetching"
        /\ rec.key = record.key /\ rec.fetchAsOf = current
    BY DEF VerifierRecords, TypeOK
  <2>2. verifier' = [verifier EXCEPT ![v] = rec] /\ pending' = v
    BY <1>2 DEF Load
  <2> HIDE DEF rec
  <2>3. /\ verifier'[v] = rec
        /\ \A w \in Verifiers \ {v} : verifier'[w] = verifier[w]
        /\ verifier' \in [Verifiers -> VerifierRecords]
    BY <2>1, <2>2 DEF TypeOK
  <2>4. \A w \in Verifiers : verifier[w].pc \notin {"fetching", "answered", "waiting"}
    BY <1>0, <1>2, JwksAssumption DEF OneFetch, IsFetching
  <2>5. TypeOK' /\ OneFetch' /\ NewKeyIsFound'
    BY <1>0, <2>1, <2>2, <2>3, <2>4 DEF TypeOK, OneFetch, IsFetching, NewKeyIsFound, issuer
  <2>6. \A w \in Verifiers : (verifier[w].key <= current /\ FetchOK(w))'
    BY <2>1, <2>3, <2>4 DEF FetchOK, issuer, TypeOK, Keys
  <2> QED
    BY <2>5, <2>6 DEF issuer
<1> QED
  BY <1>1, <1>2

LEMMA BeginKeepsInv ==
    ASSUME JwksInv, NEW v \in Verifiers, NEW k \in Keys, Begin(v, k)
    PROVE  JwksInv'
<1> DEFINE record == [Idle EXCEPT !.key = k, !.asOf = current, !.fetchAsOf = current]
<1>1. /\ record \in VerifierRecords /\ record.key = k /\ ~record.forced
      /\ k <= current /\ verifier[v].pc = "idle"
  <2>1. k <= current /\ verifier[v].pc = "idle" /\ current \in Keys /\ ~Idle.forced
    BY DEF Begin, JwksInv, TypeOK, Idle
  <2> QED
    BY <2>1, IdleIsRecord DEF VerifierRecords
<1>2. UNCHANGED <<now, issuer, resolver, expiresAt>>
  BY DEF Begin
<1>3. CASE ~IsFresh
  <2>1. Load(v, record)
    BY <1>3 DEF Begin
  <2> HIDE DEF record
  <2> QED
    BY <1>1, <1>2, <2>1, LoadKeepsInv
<1>4. CASE IsFresh
  <2> DEFINE rec == Look(record, resolver)
  <2>1. verifier' = [verifier EXCEPT ![v] = rec] /\ pending' = pending
    BY <1>4 DEF Begin
  <2> HIDE DEF record
  <2>2. rec \in VerifierRecords /\ rec.pc \in {"accepted", "again"} /\ rec.key = k
    BY <1>1, LookResult DEF JwksInv, TypeOK
  <2> HIDE DEF rec
  <2>3. /\ verifier'[v] = rec
        /\ \A w \in Verifiers \ {v} : verifier'[w] = verifier[w]
        /\ verifier' \in [Verifiers -> VerifierRecords]
    BY <2>1, <2>2 DEF JwksInv, TypeOK
  <2>4. TypeOK' /\ OneFetch' /\ NewKeyIsFound'
    BY <1>1, <1>2, <2>1, <2>2, <2>3
    DEF JwksInv, TypeOK, OneFetch, IsFetching, NewKeyIsFound, issuer
  <2>5. \A w \in Verifiers : verifier[w].pc = "waiting" =>
            verifier[w].on # v /\ verifier[w].on \in Verifiers
    BY <1>1, JwksAssumption DEF JwksInv, TypeOK, OneFetch, IsFetching
  <2>6. \A w \in Verifiers : (verifier[w].key <= current /\ FetchOK(w))'
    BY <1>1, <1>2, <2>2, <2>3, <2>5 DEF JwksInv, FetchOK, issuer
  <2> QED
    BY <1>2, <2>4, <2>6 DEF JwksInv, issuer
<1> QED
  BY <1>3, <1>4

LEMMA ForceRefreshKeepsInv ==
    ASSUME JwksInv, NEW v \in Verifiers, ForceRefresh(v)
    PROVE  JwksInv'
<1> DEFINE record == [verifier[v] EXCEPT !.forced = TRUE]
<1>1. record \in VerifierRecords /\ record.key <= current
  BY DEF JwksInv, TypeOK, VerifierRecords
<1>2. verifier[v].pc = "again" /\ Load(v, record) /\ UNCHANGED <<now, issuer, resolver, expiresAt>>
  BY DEF ForceRefresh
<1> HIDE DEF record
<1> QED
  BY <1>1, <1>2, LoadKeepsInv

\* Nobody else fetches or waits, so the fetch's outcome reaches all there are.
LEMMA FetchEnds ==
    ASSUME JwksInv, NEW v \in Verifiers, IsFetching(v)
    PROVE  /\ pending = v /\ v # NoVerifier
           /\ \A w \in Verifiers \ Sharing(v) :
                 verifier[w].pc \notin {"fetching", "answered", "waiting"}
           /\ \A w \in Sharing(v) :
                 w \in Verifiers /\ verifier[w].fetchAsOf = verifier[v].fetchAsOf
BY JwksAssumption DEF JwksInv, OneFetch, IsFetching, Sharing, FetchOK

LEMMA FetchSucceedsKeepsInv ==
    ASSUME JwksInv, NEW v \in Verifiers, FetchSucceeds(v)
    PROVE  JwksInv'
<1> DEFINE answer == verifier[v].answer
<1>1. /\ verifier[v].pc = "answered" /\ resolver' = answer /\ pending' = NoVerifier
      /\ expiresAt' = now + Ttl
      /\ now' = now /\ current' = current /\ oldest' = oldest
      /\ \A w \in Verifiers : verifier'[w] =
            IF w \in Sharing(v) THEN Look(verifier[w], answer) ELSE verifier[w]
  BY DEF FetchSucceeds, issuer
<1>2. verifier' = [w \in Verifiers |->
          IF w \in Sharing(v) THEN Look(verifier[w], answer) ELSE verifier[w]]
  BY DEF FetchSucceeds
<1>3. /\ \A w \in Verifiers \ Sharing(v) :
            verifier[w].pc \notin {"fetching", "answered", "waiting"}
      /\ \A w \in Sharing(v) :
            w \in Verifiers /\ verifier[w].fetchAsOf = verifier[v].fetchAsOf
  BY <1>1, FetchEnds DEF IsFetching
<1>4. /\ verifier[v].fetchAsOf <= answer.to /\ answer.from <= answer.to
      /\ answer.to <= current
  BY <1>1 DEF JwksInv, FetchOK
<1>5. answer \in KeySets /\ \A w \in Verifiers : verifier[w] \in VerifierRecords
  BY DEF JwksInv, TypeOK, VerifierRecords
<1> HIDE DEF answer
<1>6. \A w \in Sharing(v) :
         /\ verifier'[w] \in VerifierRecords
         /\ verifier'[w].pc \in {"accepted", "rejected", "again"}
         /\ verifier'[w].key = verifier[w].key
         /\ verifier'[w].pc = "rejected" =>
               /\ ~HasKey(answer, verifier[w].key)
               /\ verifier'[w].fetchAsOf = verifier[w].fetchAsOf
  BY <1>1, <1>3, <1>5, LookResult
<1>7. /\ current \in Int /\ answer.from \in Int /\ answer.to \in Int
      /\ \A w \in Verifiers : verifier[w].key \in Int /\ verifier[w].key <= current
                                /\ verifier[w].fetchAsOf \in Int
  BY <1>5 DEF JwksInv, TypeOK, Keys, KeySets, VerifierRecords
<1>8. NewKeyIsFound'
  <2> SUFFICES ASSUME NEW w \in Verifiers, verifier'[w].pc = "rejected",
                      verifier'[w].key = verifier'[w].asOf, verifier'[w].key = current
               PROVE  verifier'[w].fetchAsOf < verifier'[w].key
    BY <1>1 DEF NewKeyIsFound
  <2>1. CASE w \in Sharing(v)
    BY <1>3, <1>4, <1>6, <1>7, <2>1 DEF HasKey
  <2>2. CASE w \notin Sharing(v)
    BY <1>1, <2>2 DEF JwksInv, NewKeyIsFound
  <2> QED
    BY <2>1, <2>2
<1>9. TypeOK'
  <2>1. verifier' \in [Verifiers -> VerifierRecords]
    BY <1>1, <1>2, <1>5, <1>6
  <2>2. now + Ttl \in 0 .. MaxTime + Ttl
    BY JwksAssumption DEF JwksInv, TypeOK
  <2> QED
    BY <1>1, <1>5, <2>1, <2>2 DEF JwksInv, TypeOK
<1>10. OneFetch'
  BY <1>1, <1>3, <1>6, JwksAssumption DEF OneFetch, IsFetching
<1>11. resolver'.from <= oldest' /\ resolver'.to <= current'
  BY <1>1 DEF JwksInv, FetchOK, answer
<1>12. \A w \in Verifiers : (verifier[w].key <= current /\ FetchOK(w))'
  BY <1>1, <1>3, <1>6, <1>7 DEF FetchOK
<1> QED
  BY <1>8, <1>9, <1>10, <1>11, <1>12 DEF JwksInv

LEMMA FetchFailsKeepsInv ==
    ASSUME JwksInv, NEW v \in Verifiers, FetchFails(v)
    PROVE  JwksInv'
<1>1. IsFetching(v) /\ pending' = NoVerifier /\ resolver' = NoKeys /\ expiresAt' = 0
      /\ now' = now /\ current' = current /\ oldest' = oldest
  BY DEF FetchFails, IsFetching, issuer
<1> DEFINE failed == [Idle EXCEPT !.pc = "failed"]
<1>2. failed \in VerifierRecords /\ failed.pc = "failed" /\ failed.key = 1
  BY IdleIsRecord DEF VerifierRecords, Idle
<1>3. verifier' = [w \in Verifiers |-> IF w \in Sharing(v) THEN failed ELSE verifier[w]]
  BY DEF FetchFails
<1> HIDE DEF failed
<1>4. \A w \in Verifiers \ Sharing(v) :
          verifier[w].pc \notin {"fetching", "answered", "waiting"}
  BY <1>1, FetchEnds
<1>5. TypeOK'
  <2>1. NoKeys \in KeySets /\ 0 \in 0 .. MaxTime + Ttl
    BY JwksAssumption DEF NoKeys, KeySets, Keys
  <2> QED
    BY <1>1, <1>2, <1>3, <2>1 DEF JwksInv, TypeOK
<1>6. OneFetch' /\ NewKeyIsFound'
  BY <1>1, <1>2, <1>3, <1>4, JwksAssumption DEF JwksInv, OneFetch, NewKeyIsFound, IsFetching
<1>7. resolver'.from <= oldest' /\ resolver'.to <= current'
  BY <1>1 DEF JwksInv, TypeOK, Keys, NoKeys
<1>8. \A w \in Verifiers : (verifier[w].key <= current /\ FetchOK(w))'
  BY <1>1, <1>2, <1>3, <1>4 DEF JwksInv, TypeOK, Keys, FetchOK
<1> QED
  BY <1>5, <1>6, <1>7, <1>8 DEF JwksInv
LEMMA EndKeepsInv ==
    ASSUME JwksInv, NEW v \in Verifiers, End(v)
    PROVE  JwksInv'
<1>1. /\ verifier[v].pc \in {"accepted", "rejected", "failed"}
      /\ verifier' = [verifier EXCEPT ![v] = Idle]
      /\ UNCHANGED <<now, issuer, entry>>
  BY DEF End
<1>2. /\ verifier'[v] = Idle /\ Idle.pc = "idle" /\ Idle.key = 1
      /\ \A w \in Verifiers \ {v} : verifier'[w] = verifier[w]
      /\ verifier' \in [Verifiers -> VerifierRecords]
  BY <1>1, IdleIsRecord DEF JwksInv, TypeOK, Idle
<1>3. TypeOK' /\ OneFetch' /\ NewKeyIsFound'
  BY <1>1, <1>2 DEF JwksInv, TypeOK, OneFetch, IsFetching, NewKeyIsFound, issuer, entry
<1>4. \A w \in Verifiers : verifier[w].pc = "waiting" => verifier[w].on # v
  BY <1>1 DEF JwksInv, OneFetch, IsFetching
<1>5. \A w \in Verifiers : verifier[w].pc = "waiting" => verifier[w].on \in Verifiers
  BY DEF JwksInv, TypeOK, OneFetch
<1>6. \A w \in Verifiers : (verifier[w].key <= current /\ FetchOK(w))'
  BY <1>1, <1>2, <1>4, <1>5 DEF JwksInv, TypeOK, Keys, FetchOK, issuer, entry
<1> QED
  BY <1>1, <1>3, <1>6 DEF JwksInv, issuer, entry

LEMMA AnswerKeepsInv ==
    ASSUME JwksInv, NEW v \in Verifiers, Answer(v)
    PROVE  JwksInv'
<1> DEFINE rec == [verifier[v] EXCEPT !.pc = "answered", !.answer = Published]
<1>1. verifier[v].pc = "fetching" /\ UNCHANGED <<now, issuer, entry>>
  BY DEF Answer
<1>2. verifier' = [verifier EXCEPT ![v] = rec]
  BY DEF Answer
<1>3. /\ Published \in KeySets
      /\ Published.from = oldest /\ Published.to = current
  BY DEF Published, KeySets, JwksInv, TypeOK
<1>4. /\ rec \in VerifierRecords /\ rec.pc = "answered" /\ rec.answer = Published
      /\ rec.key = verifier[v].key /\ rec.fetchAsOf = verifier[v].fetchAsOf
  BY <1>3 DEF JwksInv, TypeOK, VerifierRecords
<1> HIDE DEF rec
<1>5. /\ verifier'[v] = rec
      /\ \A w \in Verifiers \ {v} : verifier'[w] = verifier[w]
      /\ verifier' \in [Verifiers -> VerifierRecords]
  BY <1>2, <1>4 DEF JwksInv, TypeOK
<1>6. TypeOK' /\ OneFetch' /\ NewKeyIsFound'
  BY <1>1, <1>4, <1>5 DEF JwksInv, TypeOK, OneFetch, IsFetching, NewKeyIsFound, issuer, entry
<1>7. \A w \in Verifiers : verifier[w].pc = "waiting" => verifier[w].on \in Verifiers
  BY DEF JwksInv, TypeOK, OneFetch
<1>8. \A w \in Verifiers : verifier[w].key <= current /\ FetchOK(w)
  BY DEF JwksInv
<1>9. \A w \in Verifiers : verifier'[w].fetchAsOf = verifier[w].fetchAsOf
  BY <1>4, <1>5
<1>10. FetchOK(v)'
  BY <1>1, <1>3, <1>4, <1>5, <1>8 DEF JwksInv, TypeOK, FetchOK, issuer, entry, Keys
<1>11. \A w \in Verifiers \ {v} : FetchOK(w)'
  BY <1>1, <1>5, <1>7, <1>8, <1>9 DEF FetchOK, issuer, entry
<1> QED
  BY <1>1, <1>4, <1>5, <1>6, <1>8, <1>10, <1>11 DEF JwksInv, issuer, entry

\* The issuer's keys only get newer.
LEMMA IssuerKeepsInv ==
    ASSUME JwksInv, Rotate \/ Withdraw
    PROVE  JwksInv'
<1>1. /\ current \in Keys /\ oldest \in Keys /\ oldest <= current
      /\ UNCHANGED <<now, entry, verifier>>
  BY DEF JwksInv, TypeOK, Rotate, Withdraw
<1>2. /\ current' \in Keys /\ oldest' \in Keys /\ oldest' <= current'
      /\ current <= current' /\ oldest <= oldest'
  BY <1>1, JwksAssumption DEF Rotate, Withdraw, Keys
<1>3. TypeOK' /\ OneFetch'
  BY <1>1, <1>2 DEF JwksInv, TypeOK, OneFetch, IsFetching, entry
<1>4. \A v \in Verifiers :
         /\ verifier[v] \in VerifierRecords
         /\ verifier[v].key <= current /\ FetchOK(v)
  BY DEF JwksInv, TypeOK
<1>5. NewKeyIsFound'
  <2> SUFFICES ASSUME NEW v \in Verifiers, verifier[v].pc = "rejected",
                      verifier[v].key = verifier[v].asOf, verifier[v].key = current'
               PROVE  verifier[v].fetchAsOf < verifier[v].key
    BY <1>1 DEF NewKeyIsFound
  <2>1. verifier[v].key = current
    BY <1>1, <1>2, <1>4 DEF Keys
  <2> QED
    BY <2>1 DEF JwksInv, NewKeyIsFound
<1>6. resolver \in KeySets /\ resolver.from <= oldest /\ resolver.to <= current
  BY DEF JwksInv, TypeOK
<1>7. \A v \in Verifiers : (verifier[v].key <= current /\ FetchOK(v))'
  BY <1>1, <1>2, <1>4 DEF FetchOK, VerifierRecords, KeySets, Keys, entry
<1> QED
  BY <1>1, <1>2, <1>3, <1>5, <1>6, <1>7 DEF JwksInv, entry, KeySets, Keys

LEMMA TickKeepsInv ==
    ASSUME JwksInv, Tick \/ UNCHANGED vars
    PROVE  JwksInv'
<1>1. UNCHANGED <<issuer, entry, verifier>> /\ now' \in 0 .. MaxTime
  BY JwksAssumption DEF Tick, vars, JwksInv, TypeOK
<1> QED
  BY <1>1 DEF JwksInv, TypeOK, OneFetch, IsFetching, NewKeyIsFound, FetchOK, issuer, entry

LEMMA StepKeepsInv == JwksInv /\ [Next]_vars => JwksInv'
<1> SUFFICES ASSUME JwksInv, [Next]_vars PROVE JwksInv'
  OBVIOUS
<1>1. CASE \E v \in Verifiers, k \in Keys : Begin(v, k)
  BY <1>1, BeginKeepsInv
<1>2. CASE \E v \in Verifiers : ForceRefresh(v)
  BY <1>2, ForceRefreshKeepsInv
<1>3. CASE \E v \in Verifiers : Answer(v)
  BY <1>3, AnswerKeepsInv
<1>4. CASE \E v \in Verifiers : FetchSucceeds(v)
  BY <1>4, FetchSucceedsKeepsInv
<1>5. CASE \E v \in Verifiers : FetchFails(v)
  BY <1>5, FetchFailsKeepsInv
<1>6. CASE \E v \in Verifiers : End(v)
  BY <1>6, EndKeepsInv
<1>7. CASE Rotate \/ Withdraw
  BY <1>7, IssuerKeepsInv
<1>8. CASE Tick \/ UNCHANGED vars
  BY <1>8, TickKeepsInv
<1> QED
  BY <1>1, <1>2, <1>3, <1>4, <1>5, <1>6, <1>7, <1>8 DEF Next

LEMMA Invariance == Spec => []JwksInv
BY InitInv, StepKeepsInv, PTL DEF Spec

-----------------------------------------------------------------------------
(* The theorems                                                            *)

\* The state of the cache and of its verifications keeps its shape.
THEOREM TypeCorrect == Spec => []TypeOK
<1>1. JwksInv => TypeOK
  BY DEF JwksInv
<1> QED
  BY <1>1, Invariance, PTL

\* At no time are two fetches in flight, forced or not, and nobody waits for one that
\* the entry has lost sight of (loadResolver, createRemoteJwksResolver).
THEOREM FetchIsShared == Spec => []OneFetch
<1>1. JwksInv => OneFetch
  BY DEF JwksInv
<1> QED
  BY <1>1, Invariance, PTL

\* A token of the newest key is refused only by a fetch that was begun before the key
\* was made: the second look finds every other.
THEOREM NewestKeyIsFound == Spec => []NewKeyIsFound
<1>1. JwksInv => NewKeyIsFound
  BY DEF JwksInv
<1> QED
  BY <1>1, Invariance, PTL

\* An answer that arrives never replaces newer keys: the only fetch in flight is newer
\* than the entry.
THEOREM EntryOnlyGetsNewer == Spec => KeysNeverGetOlder
<1> DEFINE Newer == resolver' # NoKeys =>
                        resolver'.to >= resolver.to /\ resolver'.from >= resolver.from
<1>1. JwksInv /\ [Next]_vars => [Newer]_vars
  <2> SUFFICES ASSUME JwksInv, Next PROVE Newer
    OBVIOUS
  <2>1. resolver.to \in Int /\ resolver.from \in Int
    BY DEF JwksInv, TypeOK, KeySets, Keys
  <2>2. ASSUME NEW v \in Verifiers, FetchSucceeds(v) PROVE Newer
    <3>1. verifier[v].answer \in KeySets
      BY DEF JwksInv, TypeOK, VerifierRecords
    <3> QED
      BY <2>1, <2>2, <3>1 DEF FetchSucceeds, JwksInv, FetchOK, KeySets, Keys
  <2>3. ASSUME NEW v \in Verifiers, FetchFails(v) PROVE Newer
    BY <2>3 DEF FetchFails
  <2>4. resolver' = resolver => Newer
    BY <2>1
  <2> QED
    BY <2>2, <2>3, <2>4
    DEF Next, Begin, ForceRefresh, Answer, End, Rotate, Withdraw, Tick, entry
<1> QED
  BY <1>1, Invariance, PTL DEF Spec, KeysNeverGetOlder

=============================================================================
