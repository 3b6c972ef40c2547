---------------------------- MODULE ReviewProofs ----------------------------
(***************************************************************************)
(* What review-scheduler and those who write its rows guarantee, for any   *)
(* number of customers, tiers, cycles, handlers and consents, and any size *)
(* of a batch.                                                             *)
(*                                                                         *)
(* FlagFollowsDecisions speaks of the moments when nobody is between two   *)
(* writes.  What carries it over the others is PendingInv: of a user who   *)
(* is not marked as crossed at most one decision is on its way to the row, *)
(* and it is the last that was taken.                                      *)
(***************************************************************************)
EXTENDS ReviewScheduler, TLAPS

Pending(h, u) == handler[h].user = u /\ handler[h].pc \in {"clear", "raise"}

\* What was decided when a write of that kind follows.
AsDecided(pc) == IF pc = "raise" THEN "OPEN" ELSE "NO"

\* The one decision that is on its way is the last one.
PendingInv ==
    \A u \in Users \ crossed :
        /\ \A h \in Handlers : Pending(h, u) => owed[u] = AsDecided(handler[h].pc)
        /\ \A g, h \in Handlers : Pending(g, u) /\ Pending(h, u) => g = h

ReviewInv ==
    /\ TypeOK
    /\ StatusTellsFlag
    /\ PendingInv
    /\ FlagFollowsDecisions

-----------------------------------------------------------------------------
(* Rows and batches                                                        *)

LEMMA CustomerTyped ==
    ASSUME TypeOK, NEW u \in Users, Exists(u)
    PROVE  customer[u] \in Customers
BY DEF TypeOK, Exists

LEMMA NewCustomerTyped ==
    ASSUME NEW tier \in Tiers, NEW last \in Nat
    PROVE  /\ NewCustomer(tier, last) \in Customers
           /\ NewCustomer(tier, last).status = "ACTIVE"
           /\ ~NewCustomer(tier, last).requires
<1>1. last + Interval[tier] \in Nat
  BY ReviewAssumption DEF Tiers
<1> QED
  BY <1>1 DEF NewCustomer, Customers, Statuses

\* The customer whose turn it is.
LEMMA CurrentTyped ==
    ASSUME TypeOK, NEW k \in Cycles, cycle[k].batch # <<>>
    PROVE  Current(k) \in [user: Users, tier: Tiers]
<1> DEFINE S == [user: Users, tier: Tiers]
           b == cycle[k].batch
<1>1. b \in Seq(S) /\ b # <<>>
  BY DEF TypeOK
<1> HIDE DEF S, b
<1>2. Head(b) \in S
  BY <1>1
<1> QED
  BY <1>2 DEF S, b, Current

-----------------------------------------------------------------------------
(* The type of the state                                                   *)

\* A cycle that starts has taken customers that exist, as many as it may.
LEMMA StartCycleTyped ==
    ASSUME TypeOK, NEW k \in Cycles, NEW asOf \in 0 .. MaxTime, StartCycle(k, asOf)
    PROVE  TypeOK'
<1>0. PICK n \in 1 .. BatchLimit : \E us \in [1 .. n -> Users] :
          /\ IsBatch(us, asOf)
          /\ cycle' = [cycle EXCEPT ![k] =
                 [batch |-> [i \in 1 .. n |-> [user |-> us[i], tier |-> customer[us[i]].tier]],
                  runAt |-> now]]
  BY DEF StartCycle
<1>1. PICK us \in [1 .. n -> Users] :
          /\ IsBatch(us, asOf)
          /\ cycle' = [cycle EXCEPT ![k] =
                 [batch |-> [i \in 1 .. n |-> [user |-> us[i], tier |-> customer[us[i]].tier]],
                  runAt |-> now]]
  BY <1>0
<1>2. \A i \in 1 .. n : us[i] \in Users /\ Exists(us[i])
  BY <1>1 DEF IsBatch, Due
<1>3. \A i \in 1 .. n : customer[us[i]].tier \in Tiers
  BY <1>2, CustomerTyped DEF Customers
<1> DEFINE batch == [i \in 1 .. n |-> [user |-> us[i], tier |-> customer[us[i]].tier]]
<1>4. n \in Nat /\ n <= BatchLimit
  BY ReviewAssumption
<1>5. batch \in Seq([user: Users, tier: Tiers]) /\ Len(batch) = n
  <2>1. \A i \in 1 .. n : [user |-> us[i], tier |-> customer[us[i]].tier] \in [user: Users, tier: Tiers]
    BY <1>2, <1>3
  <2> QED
    BY <1>4, <2>1
<1>t. UsersOf(batch) \subseteq Users
  <2>1. DOMAIN batch = 1 .. n /\ \A i \in 1 .. n : batch[i].user = us[i]
    OBVIOUS
  <2>2. \A i \in DOMAIN batch : batch[i].user \in Users
    BY <1>2, <2>1
  <2> HIDE DEF batch
  <2> QED
    BY <2>2 DEF UsersOf
<1> HIDE DEF batch
<1>6. cycle' = [cycle EXCEPT ![k] = [batch |-> batch, runAt |-> now]]
  BY <1>1 DEF batch
<1>7. UNCHANGED <<now, writes, customer, owed, crossed, consent, handler, seeding>>
  BY DEF StartCycle
<1>8. behind' \in [Cycles -> SUBSET Users]
  <2>1. cycle'[k].batch = batch
    BY <1>6 DEF TypeOK
  <2>2. behind' = [behind EXCEPT ![k] = {u \in UsersOf(batch) : IsPending(u)}]
    BY <2>1 DEF StartCycle
  <2> QED
    BY <1>t, <2>2 DEF TypeOK
<1> QED
  BY <1>4, <1>5, <1>6, <1>7, <1>8 DEF TypeOK

LEMMA AdvanceTyped ==
    ASSUME TypeOK, NEW k \in Cycles, cycle[k].batch # <<>>, Advance(k)
    PROVE  /\ cycle' \in [Cycles -> [batch: Seq([user: Users, tier: Tiers]), runAt: 0 .. MaxTime]]
           /\ \A j \in Cycles : Len(cycle'[j].batch) <= BatchLimit
<1> DEFINE S == [user: Users, tier: Tiers]
           b == cycle[k].batch
<1>1. b \in Seq(S) /\ b # <<>> /\ Len(b) <= BatchLimit /\ cycle[k].runAt \in 0 .. MaxTime
  BY DEF TypeOK
<1>2. Tail(b) \in Seq(S) /\ Len(Tail(b)) <= BatchLimit
  <2> HIDE DEF b, S
  <2> QED
    BY <1>1, ReviewAssumption
<1>3. NoCycle \in [batch: Seq(S), runAt: 0 .. MaxTime] /\ Len(NoCycle.batch) <= BatchLimit
  BY ReviewAssumption DEF NoCycle
<1>4. PICK new \in [batch: Seq(S), runAt: 0 .. MaxTime] :
          Len(new.batch) <= BatchLimit /\ cycle' = [cycle EXCEPT ![k] = new]
  <2>1. CASE Tail(b) = <<>>
    BY <1>3, <2>1 DEF Advance, TypeOK
  <2>2. CASE Tail(b) # <<>>
    <3> DEFINE new == [cycle[k] EXCEPT !.batch = Tail(b)]
    <3>1. new \in [batch: Seq(S), runAt: 0 .. MaxTime] /\ Len(new.batch) <= BatchLimit
      BY ZenonT(30), <1>2 DEF TypeOK
    <3>2. cycle' = [cycle EXCEPT ![k] = IF Tail(b) = <<>> THEN NoCycle ELSE new]
      BY DEF Advance
    <3> HIDE DEF new
    <3> QED
      BY <2>2, <3>1, <3>2
  <2> QED
    BY <2>1, <2>2
<1> QED
  BY <1>4 DEF TypeOK

OwedStates == {"NO", "YES", "OPEN"}

LEMMA OvertakesTyped ==
    ASSUME TypeOK, NEW us \in SUBSET Users, Overtakes(us)
    PROVE  behind' \in [Cycles -> SUBSET Users]
BY DEF Overtakes, TypeOK

LEMMA DecideTyped ==
    ASSUME TypeOK, NEW u \in Users, NEW isOwed \in OwedStates, Decide(u, isOwed)
    PROVE  /\ owed' \in [Users -> OwedStates] /\ crossed' \subseteq Users
           /\ behind' \in [Cycles -> SUBSET Users]
BY OvertakesTyped DEF Decide, TypeOK, OwedStates

\* A cycle writes the row of a customer who is there; whether that is a decision.
LEMMA WriteReviewTyped ==
    ASSUME TypeOK, NEW k \in Cycles, IsTurn(k), NEW isRequired \in BOOLEAN,
           NEW status \in Statuses, WriteReview(k, isRequired, status)
    PROVE  /\ Current(k).user \in Users /\ Exists(Current(k).user)
           /\ Reviews(k, isRequired)
           /\ \E row \in Customers :
                 /\ row.requires = isRequired /\ row.status = status
                 /\ customer' = [customer EXCEPT ![Current(k).user] = row]
<1>1. Current(k) \in [user: Users, tier: Tiers] /\ Exists(Current(k).user)
  BY CurrentTyped DEF IsTurn, IsAudited
<1>2. customer[Current(k).user] \in Customers
  BY <1>1, CustomerTyped
<1>3. cycle[k].runAt + Interval[Current(k).tier] \in Nat
  BY <1>1, ReviewAssumption DEF TypeOK, Tiers
<1> DEFINE row == [customer[Current(k).user] EXCEPT !.requires = isRequired, !.status = status,
                      !.next = cycle[k].runAt + Interval[Current(k).tier]]
<1>4. row \in Customers /\ row.requires = isRequired /\ row.status = status
  BY <1>2, <1>3 DEF Customers
<1>5. customer' = [customer EXCEPT ![Current(k).user] = row] /\ Reviews(k, isRequired)
  BY DEF WriteReview
<1> HIDE DEF row
<1> QED
  BY <1>1, <1>4, <1>5

LEMMA ReviewsTyped ==
    ASSUME TypeOK, NEW k \in Cycles, Current(k).user \in Users, NEW isRequired \in BOOLEAN,
           Reviews(k, isRequired)
    PROVE  /\ owed' \in [Users -> OwedStates] /\ crossed' \subseteq Users
           /\ behind' \in [Cycles -> SUBSET Users]
           /\ \/ Decide(Current(k).user, IF isRequired THEN "YES" ELSE "NO")
              \/ crossed' = crossed \cup {Current(k).user} /\ UNCHANGED owed
<1>1. CASE Current(k).user \notin behind[k]
  <2>1. (IF isRequired THEN "YES" ELSE "NO") \in OwedStates
    BY DEF OwedStates
  <2>2. Decide(Current(k).user, IF isRequired THEN "YES" ELSE "NO")
    BY <1>1 DEF Reviews
  <2> QED
    BY <2>1, <2>2, DecideTyped
<1>2. CASE Current(k).user \in behind[k]
  <2>1. /\ crossed' = crossed \cup {Current(k).user} /\ UNCHANGED owed
        /\ Overtakes({})
    BY <1>2 DEF Reviews
  <2> QED
    BY <2>1, OvertakesTyped DEF TypeOK, OwedStates
<1> QED
  BY <1>1, <1>2

-----------------------------------------------------------------------------
(* What the kinds of steps do to the flags                                 *)

Flags == StatusTellsFlag /\ PendingInv /\ FlagFollowsDecisions

\* Rows and handlers stay as they are.
LEMMA NothingWritten ==
    ASSUME ReviewInv, UNCHANGED <<customer, owed, crossed, handler>>
    PROVE  Flags'
BY DEF ReviewInv, Flags, StatusTellsFlag, PendingInv, FlagFollowsDecisions, Exists, Pending,
       IsPending

\* A decision is taken and in the row at once.
LEMMA RowDecided ==
    ASSUME ReviewInv, NEW u \in Users, NEW row \in Customers,
           row.status \in {"RECONSENT_REQUIRED", "DUE"} => row.requires,
           customer' = [customer EXCEPT ![u] = row],
           Decide(u, IF row.requires THEN "YES" ELSE "NO"),
           UNCHANGED handler
    PROVE  Flags'
<1>1. /\ customer'[u] = row /\ \A v \in Users : v # u => customer'[v] = customer[v]
      /\ owed'[u] = (IF row.requires THEN "YES" ELSE "NO")
      /\ \A v \in Users : v # u => owed'[v] = owed[v]
      /\ crossed' = IF IsPending(u) THEN crossed \cup {u} ELSE crossed \ {u}
  BY DEF Decide, ReviewInv, TypeOK
<1>2. StatusTellsFlag'
  BY <1>1 DEF ReviewInv, StatusTellsFlag
<1>3. PendingInv'
  BY <1>1 DEF ReviewInv, PendingInv, Pending, IsPending
<1>4. FlagFollowsDecisions'
  BY <1>1 DEF ReviewInv, FlagFollowsDecisions, IsPending, Exists
<1> QED
  BY <1>2, <1>3, <1>4 DEF Flags

\* A row is written over, and its user marked.
LEMMA RowCrossed ==
    ASSUME ReviewInv, NEW u \in Users, NEW row \in Customers,
           row.status \in {"RECONSENT_REQUIRED", "DUE"} => row.requires,
           customer' = [customer EXCEPT ![u] = row], crossed' = crossed \cup {u},
           UNCHANGED <<owed, handler>>
    PROVE  Flags'
<1>1. customer'[u] = row /\ \A v \in Users : v # u => customer'[v] = customer[v]
  BY DEF ReviewInv, TypeOK
<1>2. StatusTellsFlag'
  BY <1>1 DEF ReviewInv, StatusTellsFlag
<1>3. PendingInv'
  BY DEF ReviewInv, PendingInv, Pending
<1>4. FlagFollowsDecisions'
  BY <1>1 DEF ReviewInv, FlagFollowsDecisions, IsPending, Exists
<1> QED
  BY <1>2, <1>3, <1>4 DEF Flags

\* A row is written, its flag kept.
LEMMA FlagKept ==
    ASSUME ReviewInv, NEW u \in Users, Exists(u), NEW row \in Customers, row.status = "ACTIVE",
           row.requires = customer[u].requires,
           customer' = [customer EXCEPT ![u] = row], UNCHANGED <<owed, crossed, handler>>
    PROVE  Flags'
<1>1. customer'[u] = row /\ \A v \in Users : v # u => customer'[v] = customer[v]
  BY DEF ReviewInv, TypeOK
<1> QED
  BY <1>1 DEF ReviewInv, Flags, StatusTellsFlag, PendingInv, FlagFollowsDecisions, Exists, Pending,
              IsPending

\* A row goes.
LEMMA RowGone ==
    ASSUME ReviewInv, NEW u \in Users,
           customer' = [customer EXCEPT ![u] = Absent], UNCHANGED <<owed, crossed, handler>>
    PROVE  Flags'
<1>1. customer'[u] = Absent /\ \A v \in Users : v # u => customer'[v] = customer[v]
  BY DEF ReviewInv, TypeOK
<1>2. StatusTellsFlag'
  BY <1>1 DEF ReviewInv, StatusTellsFlag, Absent
<1>3. PendingInv'
  BY DEF ReviewInv, PendingInv, Pending
<1>4. FlagFollowsDecisions'
  BY <1>1 DEF ReviewInv, FlagFollowsDecisions, Exists, IsPending
<1> QED
  BY <1>2, <1>3, <1>4 DEF Flags

\* A decision is taken, and its write is on its way.
LEMMA DecisionTaken ==
    ASSUME ReviewInv, NEW u \in Users, NEW h \in Handlers, handler[h].pc = "idle",
           NEW pc \in {"clear", "raise"},
           handler' = [handler EXCEPT ![h] = [pc |-> pc, user |-> u]],
           Decide(u, AsDecided(pc)), UNCHANGED customer
    PROVE  Flags'
<1>1. /\ handler'[h] = [pc |-> pc, user |-> u]
      /\ \A g \in Handlers : g # h => handler'[g] = handler[g]
      /\ owed'[u] = AsDecided(pc) /\ \A v \in Users : v # u => owed'[v] = owed[v]
      /\ crossed' = IF IsPending(u) THEN crossed \cup {u} ELSE crossed \ {u}
  BY DEF Decide, ReviewInv, TypeOK
<1>2. /\ Pending(h, u)'
      /\ \A v \in Users : v # u => ~Pending(h, v)' /\ ~Pending(h, v)
      /\ \A v \in Users, g \in Handlers : g # h => (Pending(g, v)' <=> Pending(g, v))
  BY <1>1 DEF Pending
<1>3. StatusTellsFlag'
  BY DEF ReviewInv, StatusTellsFlag
<1>4. PendingInv'
  <2> SUFFICES ASSUME NEW v \in Users \ crossed'
               PROVE  /\ \A g \in Handlers : Pending(g, v)' => owed'[v] = AsDecided(handler'[g].pc)
                      /\ \A f, g \in Handlers : Pending(f, v)' /\ Pending(g, v)' => f = g
    BY DEF PendingInv
  <2>1. CASE v = u
    <3>1. \A g \in Handlers : ~Pending(g, u)
      BY <1>1, <2>1 DEF IsPending, Pending
    <3>2. \A g \in Handlers : Pending(g, v)' => g = h
      BY <1>2, <2>1, <3>1
    <3>3. owed'[v] = AsDecided(handler'[h].pc)
      BY <1>1, <2>1
    <3> QED
      BY <3>2, <3>3
  <2>2. CASE v # u
    BY <1>1, <1>2, <2>2 DEF ReviewInv, PendingInv
  <2> QED
    BY <2>1, <2>2
<1>5. FlagFollowsDecisions'
  <2> SUFFICES ASSUME NEW v \in Users, Exists(v)', ~IsPending(v)', v \notin crossed'
               PROVE  /\ owed'[v] = "YES" => customer'[v].requires
                      /\ owed'[v] = "NO" => ~customer'[v].requires
    BY DEF FlagFollowsDecisions
  <2>1. v # u
    BY <1>2 DEF IsPending, Pending
  <2>2. ~IsPending(v)
    BY <1>2, <2>1 DEF IsPending, Pending
  <2> QED
    BY <1>1, <2>1, <2>2 DEF ReviewInv, FlagFollowsDecisions, Exists
<1> QED
  BY <1>3, <1>4, <1>5 DEF Flags

\* A handler is through with u: the row is as it decided, or there is none; or nothing
\* is in the row and u is marked.
LEMMA DecisionOver ==
    ASSUME ReviewInv, NEW h \in Handlers, handler[h].pc # "idle",
           handler' = [handler EXCEPT ![h] = Idle],
           NEW row \in Customers \cup {Absent},
           customer' = [customer EXCEPT ![handler[h].user] = row],
           row # Absent => /\ row.requires = (handler[h].pc = "raise")
                           /\ row.status \in {"RECONSENT_REQUIRED", "DUE"} => row.requires,
           UNCHANGED <<owed, crossed>>
    PROVE  Flags'
<1> DEFINE u == handler[h].user
<1>1. /\ u \in Users /\ Pending(h, u)
      /\ handler'[h].pc = "idle" /\ \A g \in Handlers : g # h => handler'[g] = handler[g]
      /\ customer'[u] = row /\ \A v \in Users : v # u => customer'[v] = customer[v]
  BY DEF ReviewInv, TypeOK, Pending, Idle
<1> HIDE DEF u
<1>2. /\ \A v \in Users : ~Pending(h, v)'
      /\ \A v \in Users, g \in Handlers : g # h => (Pending(g, v)' <=> Pending(g, v))
      /\ \A v \in Users : v # u => ~Pending(h, v)
  BY <1>1 DEF Pending, u
<1>3. StatusTellsFlag'
  BY <1>1 DEF ReviewInv, StatusTellsFlag, Absent
<1>4. PendingInv'
  BY <1>1, <1>2 DEF ReviewInv, PendingInv
<1>5. FlagFollowsDecisions'
  <2> SUFFICES ASSUME NEW v \in Users, Exists(v)', ~IsPending(v)', v \notin crossed
               PROVE  /\ owed[v] = "YES" => customer'[v].requires
                      /\ owed[v] = "NO" => ~customer'[v].requires
    BY DEF FlagFollowsDecisions
  <2>1. CASE v = u
    <3>1. owed[u] = AsDecided(handler[h].pc)
      BY <1>1, <2>1 DEF ReviewInv, PendingInv
    <3>2. row.requires = (handler[h].pc = "raise")
      BY <1>1, <2>1 DEF Exists
    <3> QED
      BY <1>1, <2>1, <3>1, <3>2 DEF AsDecided
  <2>2. CASE v # u
    <3>1. ~IsPending(v)
      BY <1>2, <2>2 DEF IsPending, Pending
    <3> QED
      BY <1>1, <2>2, <3>1 DEF ReviewInv, FlagFollowsDecisions, Exists
  <2> QED
    BY <2>1, <2>2
<1> QED
  BY <1>3, <1>4, <1>5 DEF Flags

LEMMA DecisionLost ==
    ASSUME ReviewInv, NEW h \in Handlers, HandlerDies(h)
    PROVE  Flags'
<1>1. /\ handler'[h].pc = "idle" /\ \A g \in Handlers : g # h => handler'[g] = handler[g]
      /\ crossed' = crossed \cup {handler[h].user} /\ UNCHANGED <<customer, owed>>
  BY DEF ReviewInv, TypeOK, Idle, HandlerDies
<1>2. \A v \in Users, g \in Handlers :
          v # handler[h].user => (Pending(g, v)' <=> Pending(g, v))
  BY <1>1 DEF Pending
<1>3. StatusTellsFlag'
  BY <1>1 DEF ReviewInv, StatusTellsFlag
<1>4. PendingInv'
  <2> SUFFICES ASSUME NEW v \in Users \ crossed'
               PROVE  /\ \A g \in Handlers : Pending(g, v)' => owed'[v] = AsDecided(handler'[g].pc)
                      /\ \A f, g \in Handlers : Pending(f, v)' /\ Pending(g, v)' => f = g
    BY DEF PendingInv
  <2>1. \A g \in Handlers : Pending(g, v)' => g # h
    BY <1>1 DEF Pending
  <2> QED
    BY <1>1, <1>2, <2>1 DEF ReviewInv, PendingInv
<1>5. FlagFollowsDecisions'
  BY <1>1, <1>2 DEF ReviewInv, FlagFollowsDecisions, Exists, IsPending, Pending
<1> QED
  BY <1>3, <1>4, <1>5 DEF Flags

-----------------------------------------------------------------------------
(* The steps                                                               *)

\* What a step that leaves rows and handlers does to the rest of the state.
LEMMA OtherStepsKeep ==
    ASSUME ReviewInv, TypeOK', UNCHANGED <<customer, owed, crossed, handler>>
    PROVE  ReviewInv'
BY NothingWritten DEF ReviewInv, Flags

LEMMA UpsertCustomerKeeps ==
    ASSUME ReviewInv, NEW u \in Users, NEW tier \in Tiers, NEW last \in 0 .. now,
           UpsertCustomer(u, tier, last)
    PROVE  ReviewInv'
<1>1. last \in Nat
  BY DEF ReviewInv, TypeOK
<1> DEFINE row == [NewCustomer(tier, last) EXCEPT !.requires = customer[u].requires]
<1>2. customer[u].requires \in BOOLEAN /\ (~Exists(u) => customer[u].requires = FALSE)
  <2>1. CASE Exists(u)
    BY <2>1, CustomerTyped DEF ReviewInv, Customers
  <2>2. CASE ~Exists(u)
    <3>1. customer[u] = Absent
      BY <2>2 DEF Exists
    <3> QED
      BY <2>2, <3>1 DEF Absent
  <2> QED
    BY <2>1, <2>2
<1>3. row \in Customers /\ row.requires = customer[u].requires /\ row.status = "ACTIVE"
  BY <1>1, <1>2, NewCustomerTyped DEF Customers
<1>4. /\ customer' = [customer EXCEPT ![u] = row]
      /\ IF Exists(u) THEN UNCHANGED <<owed, crossed, behind>> ELSE Decide(u, "NO")
      /\ writes < MaxWrites /\ writes' = writes + 1
      /\ UNCHANGED <<now, cycle, consent, handler, seeding>>
  BY DEF UpsertCustomer
<1> HIDE DEF row
<1>5. /\ owed' \in [Users -> OwedStates] /\ crossed' \subseteq Users
      /\ behind' \in [Cycles -> SUBSET Users]
  BY <1>4, DecideTyped DEF ReviewInv, TypeOK, OwedStates
<1>6. TypeOK'
  <2>1. writes' \in 0 .. MaxWrites
    BY <1>4, ReviewAssumption DEF ReviewInv, TypeOK
  <2> QED
    BY <1>3, <1>4, <1>5, <2>1 DEF ReviewInv, TypeOK, OwedStates
<1>7. Flags'
  <2>1. CASE Exists(u)
    BY <1>3, <1>4, <2>1, FlagKept
  <2>2. CASE ~Exists(u)
    BY <1>2, <1>3, <1>4, <2>2, RowDecided
  <2> QED
    BY <2>1, <2>2
<1> QED
  BY <1>6, <1>7 DEF ReviewInv, Flags

LEMMA ResetDemoDataKeeps ==
    ASSUME ReviewInv, ResetDemoData
    PROVE  ReviewInv'
<1>1. NoConsent \in [user: Users, status: {"NONE", "PENDING", "APPROVED"}] /\ DemoUser \in Users
  BY ReviewAssumption DEF NoConsent
<1>2. consent' \in [ConsentIds -> [user: Users, status: {"NONE", "PENDING", "APPROVED"}]]
  BY <1>1 DEF ResetDemoData, ReviewInv, TypeOK
<1>3. /\ customer' = [customer EXCEPT ![DemoUser] = Absent] /\ seeding' \in BOOLEAN
      /\ writes' \in 0 .. MaxWrites /\ UNCHANGED <<now, cycle, handler, owed, crossed, behind>>
  BY ReviewAssumption DEF ResetDemoData, ReviewInv, TypeOK
<1>4. TypeOK'
  BY <1>2, <1>3 DEF ReviewInv, TypeOK
<1>5. Flags'
  BY <1>1, <1>3, RowGone
<1> QED
  BY <1>4, <1>5 DEF ReviewInv, Flags

LEMMA SeedDemoDataKeeps ==
    ASSUME ReviewInv, SeedDemoData
    PROVE  ReviewInv'
<1>1. DemoUser \in Users
  BY ReviewAssumption
<1>2. /\ consent' \in [ConsentIds -> [user: Users, status: {"NONE", "PENDING", "APPROVED"}]]
      /\ seeding' = FALSE /\ UNCHANGED <<now, writes, cycle, handler>>
  <2>1. CASE UNCHANGED consent
    BY <2>1 DEF SeedDemoData, ReviewInv, TypeOK
  <2>2. ASSUME NEW c \in ConsentIds,
               consent' = [consent EXCEPT ![c] = [user |-> DemoUser, status |-> "PENDING"]]
        PROVE  consent' \in [ConsentIds -> [user: Users, status: {"NONE", "PENDING", "APPROVED"}]]
    BY <1>1, <2>2 DEF ReviewInv, TypeOK
  <2> QED
    BY <2>1, <2>2 DEF SeedDemoData, SeedConsents
<1>3. CASE UNCHANGED rows
  BY <1>2, <1>3, NothingWritten DEF ReviewInv, Flags, TypeOK, rows
<1>4. CASE ~Exists(DemoUser) /\ ~UNCHANGED rows
  <2> DEFINE row == [tier |-> "HIGH", next |-> 0, requires |-> TRUE, status |-> "DUE"]
  <2>1. row \in Customers /\ row.requires
    BY ReviewAssumption DEF Customers, Statuses
  <2>2. customer' = [customer EXCEPT ![DemoUser] = row] /\ Decide(DemoUser, "YES")
    BY <1>4 DEF SeedDemoData
  <2> HIDE DEF row
  <2>3. /\ owed' \in [Users -> OwedStates] /\ crossed' \subseteq Users
        /\ behind' \in [Cycles -> SUBSET Users]
    BY <1>1, <2>2, DecideTyped DEF ReviewInv, OwedStates
  <2>4. TypeOK'
    BY <1>1, <1>2, <2>1, <2>2, <2>3 DEF ReviewInv, TypeOK, OwedStates
  <2>5. Flags'
    BY <1>1, <1>2, <2>1, <2>2, RowDecided
  <2> QED
    BY <2>4, <2>5 DEF ReviewInv, Flags
<1> QED
  BY <1>3, <1>4 DEF SeedDemoData

LEMMA ReviewKeeps ==
    ASSUME ReviewInv, NEW k \in Cycles, RequireReconsent(k) \/ Sync(k) \/ SyncRefused(k)
    PROVE  ReviewInv'
<1>1. PICK isRequired \in BOOLEAN, status \in {"SYNCED", "RECONSENT_REQUIRED"} :
          /\ WriteReview(k, isRequired, status)
          /\ status = "RECONSENT_REQUIRED" => isRequired
  BY DEF RequireReconsent, Sync, SyncRefused
<1>2. IsTurn(k) /\ Advance(k) /\ UNCHANGED <<now, writes, consent, handler, seeding>>
  BY DEF RequireReconsent, Sync, SyncRefused
<1>3. TypeOK /\ status \in Statuses
  BY DEF ReviewInv, Statuses
<1>4. PICK row \in Customers :
          /\ row.requires = isRequired /\ row.status = status
          /\ customer' = [customer EXCEPT ![Current(k).user] = row]
  BY <1>1, <1>2, <1>3, WriteReviewTyped
<1>5. Current(k).user \in Users /\ Reviews(k, isRequired)
  BY <1>1, <1>2, <1>3, WriteReviewTyped
<1>10. /\ owed' \in [Users -> OwedStates] /\ crossed' \subseteq Users
      /\ behind' \in [Cycles -> SUBSET Users]
      /\ \/ Decide(Current(k).user, IF isRequired THEN "YES" ELSE "NO")
         \/ crossed' = crossed \cup {Current(k).user} /\ UNCHANGED owed
  BY <1>3, <1>5, ReviewsTyped
<1>6. TypeOK'
  <2>1. /\ cycle' \in [Cycles -> [batch: Seq([user: Users, tier: Tiers]), runAt: 0 .. MaxTime]]
        /\ \A j \in Cycles : Len(cycle'[j].batch) <= BatchLimit
    BY <1>2, <1>3, AdvanceTyped DEF IsTurn
  <2>3. customer' \in [Users -> Customers \cup {Absent}]
    BY <1>3, <1>4, <1>5 DEF TypeOK
  <2> QED
    BY <1>2, <1>3, <1>10, <2>1, <2>3 DEF TypeOK, OwedStates
<1>7. row.status \in {"RECONSENT_REQUIRED", "DUE"} => row.requires
  BY <1>1, <1>4
<1>8. CASE Decide(Current(k).user, IF isRequired THEN "YES" ELSE "NO")
  <2>1. Flags'
    BY <1>2, <1>4, <1>5, <1>7, <1>8, RowDecided
  <2> QED
    BY <1>6, <2>1 DEF ReviewInv, Flags
<1>9. CASE crossed' = crossed \cup {Current(k).user} /\ UNCHANGED owed
  <2>1. Flags'
    BY <1>2, <1>4, <1>5, <1>7, <1>9, RowCrossed
  <2> QED
    BY <1>6, <2>1 DEF ReviewInv, Flags
<1> QED
  BY <1>10, <1>8, <1>9

LEMMA DecideOnConsentKeeps ==
    ASSUME ReviewInv, NEW h \in Handlers, NEW c \in ConsentIds,
           ApproveConsent(h, c) \/ RevokeConsent(h, c)
    PROVE  ReviewInv'
<1> DEFINE u == consent[c].user
<1>1. u \in Users /\ NoConsent \in [user: Users, status: {"NONE", "PENDING", "APPROVED"}]
  BY ReviewAssumption DEF ReviewInv, TypeOK, NoConsent
<1>2. PICK pc \in {"clear", "raise"} :
          handler' = [handler EXCEPT ![h] = [pc |-> pc, user |-> u]] /\ Decide(u, AsDecided(pc))
  BY DEF ApproveConsent, RevokeConsent, Idle, AsDecided
<1>3. consent' \in [ConsentIds -> [user: Users, status: {"NONE", "PENDING", "APPROVED"}]]
  <2>1. consent[c] \in [user: Users, status: {"NONE", "PENDING", "APPROVED"}]
    BY DEF ReviewInv, TypeOK
  <2>2. PICK new \in [user: Users, status: {"NONE", "PENDING", "APPROVED"}] :
            consent' = [consent EXCEPT ![c] = new]
    <3>1. CASE ApproveConsent(h, c)
      <4> DEFINE new == [consent[c] EXCEPT !.status = "APPROVED"]
      <4>1. new \in [user: Users, status: {"NONE", "PENDING", "APPROVED"}]
        BY <2>1
      <4>2. consent' = [consent EXCEPT ![c] = new]
        BY <3>1 DEF ApproveConsent
      <4> HIDE DEF new
      <4> QED
        BY <4>1, <4>2
    <3>2. CASE RevokeConsent(h, c)
      BY <1>1, <3>2 DEF RevokeConsent
    <3> QED
      BY <3>1, <3>2
  <2> QED
    BY <2>2 DEF ReviewInv, TypeOK
<1>4. handler[h].pc = "idle" /\ UNCHANGED <<now, writes, customer, cycle, seeding>>
  BY DEF ApproveConsent, RevokeConsent
<1> HIDE DEF u
<1>5. /\ owed' \in [Users -> OwedStates] /\ crossed' \subseteq Users
      /\ behind' \in [Cycles -> SUBSET Users]
  BY <1>1, <1>2, DecideTyped DEF ReviewInv, AsDecided, OwedStates
<1>6. TypeOK'
  BY <1>1, <1>2, <1>3, <1>4, <1>5 DEF ReviewInv, TypeOK, OwedStates
<1>7. Flags'
  BY <1>1, <1>2, <1>4, DecisionTaken
<1> QED
  BY <1>6, <1>7 DEF ReviewInv, Flags

LEMMA FlagWrittenKeeps ==
    ASSUME ReviewInv, NEW h \in Handlers, ClearFlag(h) \/ RaiseFlag(h)
    PROVE  ReviewInv'
<1> DEFINE u == handler[h].user
<1>1. u \in Users /\ handler[h].pc # "idle" /\ Idle \in [pc: {"idle", "clear", "raise"}, user: Users]
  BY ReviewAssumption DEF ClearFlag, RaiseFlag, ReviewInv, TypeOK, Idle
<1>2. handler' = [handler EXCEPT ![h] = Idle]
      /\ UNCHANGED <<now, writes, owed, crossed, behind, cycle, consent, seeding>>
  BY DEF ClearFlag, RaiseFlag
<1>3. \E row \in Customers \cup {Absent} :
          /\ customer' = [customer EXCEPT ![u] = row]
          /\ row # Absent => /\ row.requires = (handler[h].pc = "raise")
                             /\ row.status \in {"RECONSENT_REQUIRED", "DUE"} => row.requires
  <2>1. CASE ~Exists(u)
    <3>1. customer' = [customer EXCEPT ![u] = Absent]
      BY <2>1 DEF ClearFlag, RaiseFlag, ReviewInv, TypeOK, Exists
    <3> QED
      BY <3>1
  <2>2. CASE Exists(u) /\ ClearFlag(h)
    <3> DEFINE row == [customer[u] EXCEPT !.requires = FALSE, !.status = "ACTIVE",
                                          !.next = now + Interval[customer[u].tier]]
    <3>1. customer[u] \in Customers
      BY <1>1, <2>2, CustomerTyped DEF ReviewInv
    <3>2. now + Interval[customer[u].tier] \in Nat
      BY <3>1, ReviewAssumption DEF Customers, Tiers, ReviewInv, TypeOK
    <3>3. row \in Customers /\ row.requires = FALSE /\ row.status = "ACTIVE"
      BY <3>1, <3>2 DEF Customers, Statuses
    <3>4. customer' = [customer EXCEPT ![u] = row] /\ handler[h].pc = "clear"
      BY <2>2 DEF ClearFlag
    <3> HIDE DEF row
    <3> QED
      BY <3>3, <3>4
  <2>3. CASE Exists(u) /\ RaiseFlag(h)
    <3> DEFINE row == [customer[u] EXCEPT !.requires = TRUE]
    <3>1. customer[u] \in Customers
      BY <1>1, <2>3, CustomerTyped DEF ReviewInv
    <3>2. row \in Customers /\ row.requires = TRUE
      BY <3>1 DEF Customers
    <3>3. customer' = [customer EXCEPT ![u] = row] /\ handler[h].pc = "raise"
      BY <2>3 DEF RaiseFlag, ReviewInv, TypeOK
    <3> HIDE DEF row
    <3> QED
      BY <3>2, <3>3
  <2> QED
    BY <2>1, <2>2, <2>3
<1>4. Flags'
  BY <1>1, <1>2, <1>3, DecisionOver
<1>5. TypeOK'
  <2>1. customer' \in [Users -> Customers \cup {Absent}]
    <3>1. PICK row \in Customers \cup {Absent} : customer' = [customer EXCEPT ![u] = row]
      BY <1>3
    <3> QED
      BY <3>1 DEF ReviewInv, TypeOK
  <2> QED
    BY <1>1, <1>2, <2>1 DEF ReviewInv, TypeOK
<1> QED
  BY <1>4, <1>5 DEF ReviewInv, Flags

LEMMA HandlerDiesKeeps ==
    ASSUME ReviewInv, NEW h \in Handlers, HandlerDies(h)
    PROVE  ReviewInv'
<1>1. Idle \in [pc: {"idle", "clear", "raise"}, user: Users]
  BY ReviewAssumption DEF Idle
<1>2. TypeOK'
  BY <1>1 DEF HandlerDies, ReviewInv, TypeOK
<1> QED
  BY <1>2, DecisionLost DEF ReviewInv, Flags

\* Steps that write no row and move no handler.
LEMMA ConsentStepsKeep ==
    ASSUME ReviewInv,
           \/ \E u \in Consenting, c \in ConsentIds : RequestReconsent(u, c) \/ CreateOther(u, c)
           \/ \E c \in ConsentIds : CloseConsent(c)
           \/ Tick
    PROVE  ReviewInv'
<1> DEFINE S == [user: Users, status: {"NONE", "PENDING", "APPROVED"}]
<1>1. UNCHANGED <<writes, rows, cycle, handler, seeding>>
  BY DEF RequestReconsent, CreateOther, CreateConsent, CloseConsent, Tick
<1>2. now' \in 0 .. MaxTime
  BY ReviewAssumption
  DEF RequestReconsent, CreateOther, CreateConsent, CloseConsent, Tick, ReviewInv, TypeOK
<1>3. \/ UNCHANGED consent
      \/ \E c \in ConsentIds, new \in S : consent' = [consent EXCEPT ![c] = new]
  <2>1. NoConsent \in S /\ \A u \in Consenting : [user |-> u, status |-> "PENDING"] \in S
    BY ReviewAssumption DEF NoConsent
  <2> HIDE DEF S
  <2> QED
    BY <2>1 DEF RequestReconsent, CreateOther, CreateConsent, CloseConsent, Tick
<1>4. consent' \in [ConsentIds -> S]
  BY <1>3 DEF ReviewInv, TypeOK
<1>5. TypeOK'
  BY <1>1, <1>2, <1>4 DEF ReviewInv, TypeOK, rows
<1>6. UNCHANGED <<customer, owed, crossed, handler>>
  BY <1>1 DEF rows
<1> QED
  BY <1>5, <1>6, OtherStepsKeep

LEMMA CycleStepKeeps ==
    ASSUME ReviewInv, NEW k \in Cycles, CycleStep(k)
    PROVE  ReviewInv'
<1>1. CASE \E asOf \in 0 .. MaxTime : StartCycle(k, asOf)
  <2>1. TypeOK'
    BY <1>1, StartCycleTyped DEF ReviewInv
  <2> QED
    BY <1>1, <2>1, OtherStepsKeep DEF StartCycle
<1>2. CASE RequireReconsent(k) \/ Sync(k) \/ SyncRefused(k)
  BY <1>2, ReviewKeeps
<1>3. CASE ReviewFails(k)
  <2>1. /\ cycle' \in [Cycles -> [batch: Seq([user: Users, tier: Tiers]), runAt: 0 .. MaxTime]]
        /\ \A j \in Cycles : Len(cycle'[j].batch) <= BatchLimit
    BY <1>3, AdvanceTyped DEF ReviewInv, ReviewFails, IsTurn
  <2>2. TypeOK'
    BY <1>3, <2>1, OvertakesTyped DEF ReviewFails, ReviewInv, TypeOK
  <2> QED
    BY <1>3, <2>2, OtherStepsKeep DEF ReviewFails
<1>4. CASE Abort(k)
  <2>1. /\ NoCycle \in [batch: Seq([user: Users, tier: Tiers]), runAt: 0 .. MaxTime]
        /\ Len(NoCycle.batch) <= BatchLimit
    BY ReviewAssumption DEF NoCycle
  <2>2. TypeOK'
    BY <1>4, <2>1, OvertakesTyped DEF Abort, ReviewInv, TypeOK
  <2> QED
    BY <1>4, <2>2, OtherStepsKeep DEF Abort
<1> QED
  BY <1>1, <1>2, <1>3, <1>4 DEF CycleStep

-----------------------------------------------------------------------------
(* The theorems                                                            *)

LEMMA InitEstablishesInv == Init => ReviewInv
<1> SUFFICES ASSUME Init PROVE ReviewInv
  OBVIOUS
<1>1. TypeOK
  <2>1. /\ NoCycle \in [batch: Seq([user: Users, tier: Tiers]), runAt: 0 .. MaxTime]
        /\ Len(NoCycle.batch) <= BatchLimit
    BY ReviewAssumption DEF NoCycle
  <2>2. /\ NoConsent \in [user: Users, status: {"NONE", "PENDING", "APPROVED"}]
        /\ Idle \in [pc: {"idle", "clear", "raise"}, user: Users]
    BY ReviewAssumption DEF NoConsent, Idle
  <2>3. now \in 0 .. MaxTime /\ writes \in 0 .. MaxWrites
    BY ReviewAssumption DEF Init
  <2> QED
    BY <2>1, <2>2, <2>3 DEF Init, TypeOK
<1>2. StatusTellsFlag /\ PendingInv /\ FlagFollowsDecisions
  BY DEF Init, StatusTellsFlag, PendingInv, FlagFollowsDecisions, Absent, Exists, Pending, Idle
<1> QED
  BY <1>1, <1>2 DEF ReviewInv

LEMMA NextKeepsInv == ReviewInv /\ [Next]_vars => ReviewInv'
<1> SUFFICES ASSUME ReviewInv, [Next]_vars PROVE ReviewInv'
  OBVIOUS
<1>1. CASE UNCHANGED vars
  <2>1. TypeOK'
    BY <1>1 DEF vars, rows, ReviewInv, TypeOK
  <2>2. UNCHANGED <<customer, owed, crossed, handler>>
    BY <1>1 DEF vars, rows
  <2> QED
    BY <2>1, <2>2, OtherStepsKeep
<1>2. CASE \E u \in Users, tier \in Tiers : \E last \in 0 .. now : UpsertCustomer(u, tier, last)
  BY <1>2, UpsertCustomerKeeps
<1>3. CASE ResetDemoData \/ SeedDemoData
  BY <1>3, ResetDemoDataKeeps, SeedDemoDataKeeps
<1>4. CASE \E k \in Cycles : CycleStep(k)
  BY <1>4, CycleStepKeeps
<1>5. CASE \E h \in Handlers : HandlerStep(h)
  BY <1>5, DecideOnConsentKeeps, FlagWrittenKeeps, HandlerDiesKeeps DEF HandlerStep
<1>6. CASE \/ \E u \in Consenting, c \in ConsentIds : RequestReconsent(u, c) \/ CreateOther(u, c)
           \/ \E c \in ConsentIds : CloseConsent(c)
           \/ Tick
  BY <1>6, ConsentStepsKeep
<1> QED
  BY <1>1, <1>2, <1>3, <1>4, <1>5, <1>6 DEF Next

\* What is true of rows, flags and handlers in every reachable state.
THEOREM Invariance == Spec => []ReviewInv
BY InitEstablishesInv, NextKeepsInv, PTL DEF Spec

\* The state keeps its shape.
THEOREM TypeCorrect == Spec => []TypeOK
<1>1. ReviewInv => TypeOK
  BY DEF ReviewInv
<1> QED
  BY Invariance, <1>1, PTL

\* Whoever writes a row last, who is shown as owing a re-consent may ask for it.
THEOREM ShownIsAskable == Spec => []StatusTellsFlag
<1>1. ReviewInv => StatusTellsFlag
  BY DEF ReviewInv
<1> QED
  BY Invariance, <1>1, PTL

\* However approvals, revocations and cycles interleave, the flag is the last decision's
\* unless two decisions were on their way at once, a handler died or a cycle wrote over
\* one it had not read; of a revocation nothing is said.
THEOREM FlagIsLastDecision == Spec => []FlagFollowsDecisions
<1>1. ReviewInv => FlagFollowsDecisions
  BY DEF ReviewInv
<1> QED
  BY Invariance, <1>1, PTL

\* What a customer of tier HIGH owes is settled by no sync of a cycle that read the row
\* as it is, by no upsert and by no data of the demo.
THEOREM HighNeedsConsent == Spec => HighIsNotSynced
<1> DEFINE Settled(u) ==
        customer[u].tier = "HIGH" /\ customer[u].requires /\ customer'[u] # Absent
            /\ ~customer'[u].requires
        => \/ \E h \in Handlers : handler[h].pc = "clear" /\ handler[h].user = u
           \/ \E k \in Cycles : cycle[k].batch # <<>> /\ Current(k).user = u
                                /\ Current(k).tier # "HIGH"
<1>1. ReviewInv /\ [Next]_vars => [\A u \in Users : Settled(u)]_vars
  <2> SUFFICES ASSUME ReviewInv, [Next]_vars, NEW u \in Users PROVE Settled(u)
    OBVIOUS
  <2> USE DEF ReviewInv, TypeOK
  <2>1. CASE UNCHANGED customer
    BY <2>1
  <2>2. ASSUME NEW v \in Users, NEW tier \in Tiers, NEW last \in 0 .. now,
               UpsertCustomer(v, tier, last)
        PROVE  Settled(u)
    BY <2>2 DEF UpsertCustomer, NewCustomer
  <2>3. CASE ResetDemoData
    BY <2>3, ReviewAssumption DEF ResetDemoData
  <2>4. CASE SeedDemoData
    <3>1. UNCHANGED customer \/ u = DemoUser \/ customer'[u] = customer[u]
      BY <2>4 DEF SeedDemoData, rows
    <3>2. UNCHANGED customer \/ ~Exists(DemoUser)
      BY <2>4 DEF SeedDemoData, rows
    <3> QED
      BY <3>1, <3>2 DEF Exists, Absent
  <2>5. ASSUME NEW k \in Cycles, RequireReconsent(k) \/ Sync(k) \/ SyncRefused(k)
        PROVE  Settled(u)
    <3>1. CASE Sync(k)
      <4>1. IsTurn(k) /\ Current(k).tier # "HIGH" /\ WriteReview(k, FALSE, "SYNCED")
        BY <3>1 DEF Sync, IsSynced
      <4>2. u # Current(k).user => customer'[u] = customer[u]
        BY <4>1 DEF WriteReview
      <4> QED
        BY <4>1, <4>2 DEF IsTurn
    <3>2. CASE RequireReconsent(k) \/ SyncRefused(k)
      <4>1. IsTurn(k) /\ WriteReview(k, TRUE, "RECONSENT_REQUIRED")
        BY <3>2 DEF RequireReconsent, SyncRefused
      <4>2. "RECONSENT_REQUIRED" \in Statuses
        BY DEF Statuses
      <4>3. PICK row \in Customers : /\ row.requires = TRUE
                                     /\ customer' = [customer EXCEPT ![Current(k).user] = row]
        <5> HIDE DEF TypeOK
        <5> QED
          BY <4>1, <4>2, WriteReviewTyped
      <4> QED
        BY <4>3
    <3> QED
      BY <2>5, <3>1, <3>2
  <2>6. ASSUME NEW h \in Handlers, ClearFlag(h) PROVE Settled(u)
    BY <2>6 DEF ClearFlag
  <2>7. ASSUME NEW h \in Handlers, RaiseFlag(h) PROVE Settled(u)
    BY <2>7 DEF RaiseFlag
  <2>8. \/ UNCHANGED customer
        \/ \E v \in Users, tier \in Tiers : \E last \in 0 .. now : UpsertCustomer(v, tier, last)
        \/ ResetDemoData \/ SeedDemoData
        \/ \E k \in Cycles : RequireReconsent(k) \/ Sync(k) \/ SyncRefused(k)
        \/ \E h \in Handlers : ClearFlag(h) \/ RaiseFlag(h)
    BY DEF Next, CycleStep, StartCycle, ReviewFails, Abort, HandlerStep, ApproveConsent,
           RevokeConsent, HandlerDies, RequestReconsent, CreateOther, CreateConsent, CloseConsent,
           Tick, rows, vars
  <2> QED
    BY <2>1, <2>2, <2>3, <2>4, <2>5, <2>6, <2>7, <2>8
<1> QED
  BY Invariance, <1>1, PTL DEF Spec, HighIsNotSynced

=============================================================================
