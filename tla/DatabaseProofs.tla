---------------------------- MODULE DatabaseProofs ---------------------------
(***************************************************************************)
(* Theorems about the two components that share the application's          *)
(* PostgreSQL transactions: Outbox for any number of events, relays and    *)
(* failures and any batch size, AuditChain for any number of appenders,    *)
(* payloads, appends and failed statements.                                *)
(***************************************************************************)
EXTENDS Outbox, AuditChain, FiniteSetTheorems, WellFoundedInduction, TLAPS

(* The outbox.                                                             *)

(* The empty outbox satisfies the invariant.                               *)
LEMMA OutboxInitInv == OutboxInit => OutboxTypeOK /\ OutboxInv
BY DEF OutboxInit, OutboxTypeOK, OutboxInv, DisjointBatches, PublishedWasEnqueued, EnqueuedOnce

(* Every step of a relay, a worker or an inserting transaction keeps the   *)
(* types.                                                                  *)
LEMMA OutboxNextTypeOK == OutboxTypeOK /\ [OutboxNext]_outboxVars => OutboxTypeOK'
<1> SUFFICES ASSUME OutboxTypeOK, [OutboxNext]_outboxVars PROVE OutboxTypeOK'
  OBVIOUS
<1> USE DEF OutboxTypeOK, relayVars, queueVars
<1>1. ASSUME NEW e \in Events, InsertOutboxEvent(e)
      PROVE  OutboxTypeOK'
  BY <1>1 DEF InsertOutboxEvent
<1>2. ASSUME NEW e \in Events, ProcessTask(e)
      PROVE  OutboxTypeOK'
  BY <1>2 DEF ProcessTask
<1>3. ASSUME NEW e \in Events, Expire(e)
      PROVE  OutboxTypeOK'
  BY <1>3 DEF Expire
<1>4. ASSUME NEW r \in Relays, SelectBatch(r)
      PROVE  OutboxTypeOK'
  BY <1>4 DEF SelectBatch, Unpublished, Locked, Oldest
<1>5. ASSUME NEW r \in Relays, NEW e \in Events, Publish(r, e)
      PROVE  OutboxTypeOK'
  BY <1>5 DEF Publish, Enqueue, Marks
<1>6. ASSUME NEW r \in Relays, NEW e \in Events, PublishFails(r, e)
      PROVE  OutboxTypeOK'
  BY <1>6 DEF PublishFails, Enqueue, Marks, Failure
<1>7. ASSUME NEW r \in Relays, Commit(r)
      PROVE  OutboxTypeOK'
  BY <1>7 DEF Commit, Release, Committed
<1>8. ASSUME NEW r \in Relays, Crash(r)
      PROVE  OutboxTypeOK'
  BY <1>8 DEF Crash, Release, Failure
<1>9. ASSUME NEW e \in Events, TaskFails(e)
      PROVE  OutboxTypeOK'
  BY <1>9 DEF TaskFails, Failure
<1>10. CASE UNCHANGED outboxVars
  BY <1>10 DEF outboxVars
<1>11. QED
  BY <1>1, <1>2, <1>3, <1>4, <1>5, <1>6, <1>7, <1>8, <1>9, <1>10 DEF OutboxNext,
     ProcessBatch

(* Every step keeps the invariant: a relay enqueues only rows it holds,    *)
(* which are unpublished, so a task the queue has forgotten has lapsed.    *)
LEMMA OutboxNextInv == OutboxTypeOK /\ OutboxInv /\ [OutboxNext]_outboxVars => OutboxInv'
<1> SUFFICES ASSUME OutboxTypeOK, OutboxInv, [OutboxNext]_outboxVars PROVE OutboxInv'
  OBVIOUS
<1> USE DEF OutboxTypeOK, OutboxInv, DisjointBatches, PublishedWasEnqueued, EnqueuedOnce,
            relayVars, queueVars
<1>1. ASSUME NEW e \in Events, InsertOutboxEvent(e)
      PROVE  OutboxInv'
  BY <1>1 DEF InsertOutboxEvent
<1>2. ASSUME NEW e \in Events, ProcessTask(e)
      PROVE  OutboxInv'
  BY <1>2 DEF ProcessTask
<1>3. ASSUME NEW e \in Events, Expire(e)
      PROVE  OutboxInv'
  BY <1>3 DEF Expire
<1>4. ASSUME NEW r \in Relays, SelectBatch(r)
      PROVE  OutboxInv'
  BY <1>4 DEF SelectBatch, Unpublished, Locked, Oldest
<1>5. ASSUME NEW r \in Relays, NEW e \in Events, Publish(r, e)
      PROVE  OutboxInv'
  BY <1>5 DEF Publish, Enqueue, Marks
<1>6. ASSUME NEW r \in Relays, NEW e \in Events, PublishFails(r, e)
      PROVE  OutboxInv'
  BY <1>6 DEF PublishFails, Enqueue, Marks, Failure
<1>7. ASSUME NEW r \in Relays, Commit(r)
      PROVE  OutboxInv'
  BY <1>7 DEF Commit, Release, Committed
<1>8. ASSUME NEW r \in Relays, Crash(r)
      PROVE  OutboxInv'
  BY <1>8 DEF Crash, Release, Failure
<1>9. ASSUME NEW e \in Events, TaskFails(e)
      PROVE  OutboxInv'
  BY <1>9 DEF TaskFails, Failure
<1>10. CASE UNCHANGED outboxVars
  BY <1>10 DEF outboxVars
<1>11. QED
  BY <1>1, <1>2, <1>3, <1>4, <1>5, <1>6, <1>7, <1>8, <1>9, <1>10 DEF OutboxNext,
     ProcessBatch

(* The inductive invariant holds of every behaviour.                       *)
LEMMA OutboxInvariance == OutboxSpec => [](OutboxTypeOK /\ OutboxInv)
BY OutboxInitInv, OutboxNextTypeOK, OutboxNextInv, PTL DEF OutboxSpec

(* No published event is lost (outbox.go:149-171).                         *)
THEOREM NothingLost == OutboxSpec => []PublishedWasEnqueued
BY OutboxInvariance, PTL DEF OutboxInv

(* An event enters the queue twice only after its retention lapsed         *)
(* unpublished (outbox.go:139-147).                                        *)
THEOREM EnqueuedAtMostOnce == OutboxSpec => []EnqueuedOnce
BY OutboxInvariance, PTL DEF OutboxInv

(* Every step of the relays is a step of TransactionalOutbox or invisible  *)
(* to it: an Enqueue that the queue accepts delivers an event whose row    *)
(* the relay holds, hence nobody has published, and a commit settles its   *)
(* marks.                                                                  *)
LEMMA StepSimulation ==
  OutboxTypeOK /\ OutboxInv /\ [OutboxNext]_outboxVars => [Promise!Next]_(Promise!vars)
<1> SUFFICES ASSUME OutboxTypeOK, OutboxInv, [OutboxNext]_outboxVars
             PROVE  [Promise!Next]_(Promise!vars)
  OBVIOUS
<1>1. SUFFICES \/ UNCHANGED <<table, enqueued, published>>
               \/ \E e \in Events : Promise!Record(e) \/ Promise!Deliver(e)
               \/ \E S \in SUBSET Events : Promise!Settle(S)
  BY DEF Promise!Next, Promise!vars
<1>2. ASSUME NEW e \in Events, InsertOutboxEvent(e)
      PROVE  Promise!Record(e)
  BY <1>2 DEF InsertOutboxEvent, Promise!Record, queueVars
<1>3. ASSUME NEW r \in Relays, NEW e \in Events, Publish(r, e) \/ PublishFails(r, e)
      PROVE  UNCHANGED <<table, enqueued, published>> \/ Promise!Deliver(e)
  <2>1. UNCHANGED <<table, published>> /\ e \in table \ published
    BY <1>3 DEF Publish, PublishFails, OutboxTypeOK, OutboxInv, DisjointBatches
  <2>2. enqueued' = enqueued \/ enqueued' = [enqueued EXCEPT ![e] = @ + 1]
    BY <1>3 DEF Publish, PublishFails, Enqueue
  <2>3. QED
    BY <2>1, <2>2 DEF Promise!Deliver
<1>4. ASSUME NEW r \in Relays, Commit(r)
      PROVE  \E S \in SUBSET Events : Promise!Settle(S)
  <2>1. Committed(r) \in SUBSET Events
    BY DEF Committed, OutboxTypeOK
  <2>2. \A e \in Committed(r) : enqueued[e] > 0
    BY DEF Committed, OutboxInv
  <2>3. Promise!Settle(Committed(r))
    BY <1>4, <2>2 DEF Commit, Promise!Settle, queueVars
  <2>4. QED
    BY <2>1, <2>3
<1>5. ASSUME NEW r \in Relays, SelectBatch(r) \/ Crash(r)
      PROVE  UNCHANGED <<table, enqueued, published>>
  BY <1>5 DEF SelectBatch, Crash, queueVars
<1>6. ASSUME NEW e \in Events, ProcessTask(e) \/ TaskFails(e) \/ Expire(e)
      PROVE  UNCHANGED <<table, enqueued, published>>
  BY <1>6 DEF ProcessTask, TaskFails, Expire
<1>7. CASE UNCHANGED outboxVars
  BY <1>7 DEF outboxVars
<1>8. QED
  BY <1>2, <1>3, <1>4, <1>5, <1>6, <1>7 DEF OutboxNext, ProcessBatch

(* The relays implement the outbox's promise: the queue accepts committed  *)
(* events only, and none whose row is published (outbox.go:94-180).        *)
THEOREM RelaysImplementOutbox == OutboxSpec => ImplementsOutbox
<1>1. OutboxInit => Promise!Init
  BY DEF OutboxInit, Promise!Init
<1>2. QED
  BY <1>1, OutboxInvariance, StepSimulation, PTL DEF OutboxSpec, ImplementsOutbox, Promise!Spec

-----------------------------------------------------------------------------
(* The audit ledger.                                                       *)

(* A finite set of integers that is not empty has a largest element: among *)
(* the sets of elements above one of its own, which are finite, one is     *)
(* minimal for inclusion.                                                  *)
LEMMA MaxFinite ==
  ASSUME NEW S \in SUBSET Int, IsFiniteSet(S), S # {}
  PROVE  Max(S) \in S /\ \A y \in S : Max(S) >= y
<1> DEFINE Above(x) == {y \in S : y > x}
           Family == {Above(x) : x \in S}
<1>1. Family \subseteq FiniteSubsetsOf(S) /\ Family # {}
  <2>1. ASSUME NEW x \in S PROVE Above(x) \in FiniteSubsetsOf(S)
    <3>1. Above(x) \in SUBSET S
      OBVIOUS
    <3>2. IsFiniteSet(Above(x))
      BY <3>1, FS_Subset
    <3>3. QED
      BY <3>1, <3>2 DEF FiniteSubsetsOf
  <2>2. QED
    BY <2>1
<1>2. IsWellFoundedOn(StrictSubsetOrdering(S), FiniteSubsetsOf(S))
  BY FS_StrictSubsetOrderingWellFounded
<1>3. PICK U \in Family : \A V \in Family : <<V, U>> \notin StrictSubsetOrdering(S)
  <2> HIDE DEF Family
  <2>1. QED
    BY <1>1, <1>2, WFMin
<1>4. PICK x \in S : U = Above(x)
  BY <1>3
<1>5. \A y \in S : x >= y
  <2>1. SUFFICES ASSUME NEW y \in S, y > x PROVE FALSE
    OBVIOUS
  <2>2. Above(y) \subseteq Above(x) /\ y \in Above(x) /\ y \notin Above(y)
    <3>1. \A z \in S : z \in Int
      OBVIOUS
    <3>2. \A z \in S : z > y => z > x
      BY <2>1, <3>1
    <3>3. ~(y > y)
      BY <3>1
    <3>4. QED
      BY <2>1, <3>2, <3>3
  <2>3. <<Above(y), U>> \in StrictSubsetOrdering(S)
    BY <1>4, <2>2 DEF StrictSubsetOrdering
  <2>4. QED
    BY <1>3, <2>3
<1>6. QED
  BY <1>5 DEF Max

(* Likewise a smallest one.                                                *)
LEMMA MinFinite ==
  ASSUME NEW S \in SUBSET Int, IsFiniteSet(S), S # {}
  PROVE  \E x \in S : \A y \in S : x <= y
<1> DEFINE Below(x) == {y \in S : y < x}
           Family == {Below(x) : x \in S}
<1>1. Family \subseteq FiniteSubsetsOf(S) /\ Family # {}
  <2>1. ASSUME NEW x \in S PROVE Below(x) \in FiniteSubsetsOf(S)
    <3>1. Below(x) \in SUBSET S
      OBVIOUS
    <3>2. IsFiniteSet(Below(x))
      BY <3>1, FS_Subset
    <3>3. QED
      BY <3>1, <3>2 DEF FiniteSubsetsOf
  <2>2. QED
    BY <2>1
<1>2. IsWellFoundedOn(StrictSubsetOrdering(S), FiniteSubsetsOf(S))
  BY FS_StrictSubsetOrderingWellFounded
<1>3. PICK U \in Family : \A V \in Family : <<V, U>> \notin StrictSubsetOrdering(S)
  <2> HIDE DEF Family
  <2>1. QED
    BY <1>1, <1>2, WFMin
<1>4. PICK x \in S : U = Below(x)
  BY <1>3
<1>5. \A y \in S : x <= y
  <2>1. SUFFICES ASSUME NEW y \in S, y < x PROVE FALSE
    OBVIOUS
  <2>2. Below(y) \subseteq Below(x) /\ y \in Below(x) /\ y \notin Below(y)
    <3>1. \A z \in S : z \in Int
      OBVIOUS
    <3>2. \A z \in S : z < y => z < x
      BY <2>1, <3>1
    <3>3. ~(y < y)
      BY <3>1
    <3>4. QED
      BY <2>1, <3>2, <3>3
  <2>3. <<Below(y), U>> \in StrictSubsetOrdering(S)
    BY <1>4, <2>2 DEF StrictSubsetOrdering
  <2>4. QED
    BY <1>3, <2>3
<1>6. QED
  BY <1>5

(* The largest element is the only one above all others.                   *)
LEMMA MaxIs ==
  ASSUME NEW S \in SUBSET Int, NEW x \in S, \A y \in S : x >= y
  PROVE  Max(S) = x
<1>1. Max(S) \in S /\ \A y \in S : Max(S) >= y
  BY DEF Max
<1>2. Max(S) \in Int /\ x \in Int /\ Max(S) >= x /\ x >= Max(S)
  BY <1>1
<1>3. QED
  BY <1>2

(* The timestamps of a ledger and of any part of it.                       *)
LEMMA LedgerFinite ==
  ASSUME TypeOK, NEW T \in SUBSET DOMAIN ledger
  PROVE  T \in SUBSET Int /\ IsFiniteSet(T)
<1>1. clock \in Int /\ 1 \in Int /\ T \in SUBSET 1..clock
  BY DEF TypeOK
<1>2. IsFiniteSet(T)
  BY <1>1, FS_Interval, FS_Subset
<1>3. T \in SUBSET Int
  BY <1>1
<1>4. QED
  BY <1>2, <1>3

(* The hash of the newest row is a hash.                                   *)
LEMMA NewestHashType == TypeOK => NewestHash \in Seq(Payloads)
<1> SUFFICES ASSUME TypeOK PROVE NewestHash \in Seq(Payloads)
  OBVIOUS
<1>1. CASE DOMAIN ledger = {}
  BY <1>1 DEF NewestHash, Nil
<1>2. CASE DOMAIN ledger # {}
  <2>1. Max(DOMAIN ledger) \in DOMAIN ledger
    BY <1>2, LedgerFinite, MaxFinite
  <2>2. ledger[Max(DOMAIN ledger)] \in Row
    BY <2>1 DEF TypeOK
  <2>3. QED
    BY <1>2, <2>2 DEF NewestHash, Row
<1>3. QED
  BY <1>1, <1>2

(* Appending to a hash is reversible, and never gives the same hash.       *)
LEMMA HashInjective ==
  ASSUME NEW h \in Seq(Payloads), NEW p \in Payloads, NEW q \in Payloads
  PROVE  /\ EventHash(h, p) # h
         /\ EventHash(h, p) # Nil
         /\ EventHash(h, p) = EventHash(h, q) => p = q
         /\ EventHash(h, p) \in Seq(Payloads)
<1> USE DEF EventHash
<1>1. /\ Len(h) \in Nat
      /\ Len(EventHash(h, p)) = Len(h) + 1
      /\ EventHash(h, p)[Len(h) + 1] = p
      /\ EventHash(h, q)[Len(h) + 1] = q
      /\ EventHash(h, p) \in Seq(Payloads)
  OBVIOUS
<1>2. Len(Nil) = 0
  BY DEF Nil
<1> HIDE DEF EventHash
<1>3. QED
  BY <1>1, <1>2

(* The empty ledger satisfies the invariant.                               *)
LEMMA InitInv == Init => TypeOK /\ AuditInv
<1> SUFFICES ASSUME Init PROVE TypeOK /\ AuditInv
  OBVIOUS
<1>1. DOMAIN ledger = {}
  BY DEF Init
<1>2. TypeOK
  <2>1. /\ DOMAIN ledger \subseteq 1..clock
        /\ \A t \in DOMAIN ledger : ledger[t] \in Row
    BY <1>1
  <2>2. start \in [Appenders -> 0..clock]
    BY DEF Init
  <2>3. prev \in [Appenders -> Seq(Payloads)]
    <3>1. Nil \in Seq(Payloads)
      BY DEF Nil
    <3>2. QED
      BY <3>1 DEF Init
  <2>4. QED
    BY <2>1, <2>2, <2>3 DEF Init, TypeOK
<1>3. AuditInv
  BY <1>1 DEF Init, AuditInv
<1>4. QED
  BY <1>2, <1>3

(* The row an appender writes is a row, and verifies by itself.            *)
LEMMA NewRowType ==
  ASSUME NEW p \in Payloads, NEW h \in Seq(Payloads)
  PROVE  /\ NewRow(p, h) \in Row
         /\ NewRow(p, h).prev = h
         /\ NewRow(p, h).payloadHash = NewRow(p, h).payload
         /\ NewRow(p, h).hash = EventHash(NewRow(p, h).prev, NewRow(p, h).payloadHash)
<1>1. EventHash(h, p) \in Seq(Payloads)
  BY HashInjective
<1>2. QED
  BY <1>1 DEF NewRow, Row

(* Every step keeps the types.                                             *)
LEMMA NextTypeOK == TypeOK /\ AuditInv /\ [Next]_vars => TypeOK'
<1> SUFFICES ASSUME TypeOK, AuditInv, [Next]_vars PROVE TypeOK'
  OBVIOUS
<1>1. ASSUME NEW a \in Appenders, NEW p \in Payloads, Begin(a, p)
      PROVE  TypeOK'
  BY <1>1 DEF Begin, TypeOK, AuditInv
<1>2. ASSUME NEW a \in Appenders, ReadPrevious(a)
      PROVE  TypeOK'
  BY <1>2, NewestHashType DEF ReadPrevious, TypeOK
<1>3. ASSUME NEW a \in Appenders, Insert(a)
      PROVE  TypeOK'
  <2>1. start[a] \in 1..clock
    <3>1. start[a] \in 0..clock /\ start[a] > 0
      BY <1>3 DEF Insert, TypeOK, AuditInv
    <3>2. QED
      BY <3>1 DEF TypeOK
  <2>2. NewRow(payload[a], prev[a]) \in Row
    BY <1>3, NewRowType DEF Insert, TypeOK
  <2>3. DOMAIN ledger' \subseteq 1..clock' /\ \A t \in DOMAIN ledger' : ledger'[t] \in Row
    BY <1>3, <2>1, <2>2 DEF Insert, End, Timestamp, TypeOK
  <2>4. QED
    <3>1. start' \in [Appenders -> 0..clock'] /\ prev' \in [Appenders -> Seq(Payloads)]
      BY <1>3 DEF Insert, End, TypeOK, Nil
    <3>2. /\ pc' \in [Appenders -> {"idle", "read", "insert"}]
          /\ \A b \in Appenders : pc'[b] # "idle" => payload'[b] \in Payloads
      BY <1>3 DEF Insert, End, TypeOK, AuditInv
    <3>3. QED
      BY <1>3, <2>3, <3>1, <3>2 DEF Insert, End, TypeOK
<1>4. ASSUME NEW a \in Appenders, Fail(a)
      PROVE  TypeOK'
  BY <1>4 DEF Fail, End, TypeOK, AuditInv, Nil
<1>5. CASE UNCHANGED vars
  BY <1>5 DEF vars, TypeOK
<1>6. QED
  BY <1>1, <1>2, <1>3, <1>4, <1>5 DEF Next

(* An append that began after every row and read the newest hash extends   *)
(* the chain; the rows before it are linked as they were.                  *)
LEMMA InsertLinks ==
  ASSUME TypeOK, NEW s \in Nat, NEW r,
         \A t \in DOMAIN ledger : t < s,
         ledger' = [t \in DOMAIN ledger \cup {s} |-> IF t = s THEN r ELSE ledger[t]],
         r.prev = NewestHash,
         r.payloadHash = r.payload,
         r.hash = EventHash(r.prev, r.payloadHash),
         \A t \in DOMAIN ledger : Linked(ledger, t) /\ Hashed(ledger, t)
  PROVE  \A t \in DOMAIN ledger' : Linked(ledger', t) /\ Hashed(ledger', t)
<1>1. /\ DOMAIN ledger' = DOMAIN ledger \cup {s}
      /\ ledger'[s] = r
      /\ \A t \in DOMAIN ledger : ledger'[t] = ledger[t] /\ t # s /\ t \in Int
  BY LedgerFinite
<1>2. \A t \in DOMAIN ledger' : Hashed(ledger', t)
  BY <1>1 DEF Hashed
<1>3. ASSUME NEW t \in DOMAIN ledger PROVE Linked(ledger', t)
  <2> DEFINE before == {u \in DOMAIN ledger : u < t}
             after == {u \in DOMAIN ledger' : u < t}
  <2>1. after = before
    BY <1>1
  <2>2. before # {} => Max(before) \in DOMAIN ledger
    <3>1. before \in SUBSET DOMAIN ledger
      OBVIOUS
    <3> HIDE DEF before
    <3>2. QED
      BY <3>1, LedgerFinite, MaxFinite
  <2>3. ledger[t].prev = IF before = {} THEN Nil ELSE ledger[Max(before)].hash
    BY DEF Linked
  <2>4. ledger'[t].prev = IF after = {} THEN Nil ELSE ledger'[Max(after)].hash
    <3> HIDE DEF before, after
    <3>1. QED
      BY <1>1, <2>1, <2>2, <2>3
  <2>5. QED
    BY <2>4 DEF Linked
<1>4. Linked(ledger', s)
  <2> DEFINE after == {u \in DOMAIN ledger' : u < s}
  <2>1. after = DOMAIN ledger
    BY <1>1
  <2>2. DOMAIN ledger # {} => Max(DOMAIN ledger) \in DOMAIN ledger
    BY LedgerFinite, MaxFinite
  <2>3. ledger'[s].prev = IF after = {} THEN Nil ELSE ledger'[Max(after)].hash
    <3> HIDE DEF after
    <3>1. QED
      BY <1>1, <2>1, <2>2 DEF NewestHash
  <2>4. QED
    BY <2>3 DEF Linked
<1>5. QED
  BY <1>1, <1>2, <1>3, <1>4

(* Every step keeps the invariant.                                         *)
LEMMA NextInv == TypeOK /\ AuditInv /\ [Next]_vars => AuditInv'
<1> SUFFICES ASSUME TypeOK, AuditInv, [Next]_vars PROVE AuditInv'
  OBVIOUS
<1>1. ASSUME NEW a \in Appenders, NEW p \in Payloads, Begin(a, p)
      PROVE  AuditInv'
  <2>1. clock \in Nat /\ \A t \in DOMAIN ledger : t < clock + 1
    BY DEF TypeOK
  <2>2. payload' \in [Appenders -> Payloads \cup {None}]
    BY <1>1 DEF Begin, AuditInv
  <2>3. /\ pc' = [pc EXCEPT ![a] = "read"] /\ start' = [start EXCEPT ![a] = clock + 1]
        /\ ledger' = ledger /\ prev' = prev /\ NewestHash' = NewestHash
        /\ ~overlapped' => ~overlapped /\ \A b \in Appenders : pc[b] = "idle"
    BY <1>1 DEF Begin, NewestHash
  <2>4. \A b \in Appenders : pc'[b] # "idle" => start'[b] > 0
    BY <2>1, <2>3 DEF TypeOK, AuditInv
  <2>5. ASSUME ~overlapped'
        PROVE  /\ \A b, c \in Appenders : pc'[b] # "idle" /\ pc'[c] # "idle" => b = c
               /\ \A b \in Appenders :
                    pc'[b] # "idle" => \A t \in DOMAIN ledger' : t < start'[b]
               /\ \A b \in Appenders : pc'[b] = "insert" => prev'[b] = NewestHash'
               /\ \A t \in DOMAIN ledger' : Linked(ledger', t) /\ Hashed(ledger', t)
    <3>1. pc'[a] = "read" /\ start'[a] = clock + 1 /\ \A b \in Appenders \ {a} : pc'[b] = "idle"
      BY <2>3, <2>5 DEF TypeOK
    <3>2. QED
      BY <2>1, <2>3, <2>5, <3>1 DEF AuditInv
  <2>6. QED
    BY <2>2, <2>4, <2>5 DEF AuditInv
<1>2. ASSUME NEW a \in Appenders, ReadPrevious(a)
      PROVE  AuditInv'
  <2>1. /\ pc' = [pc EXCEPT ![a] = "insert"] /\ prev' = [prev EXCEPT ![a] = NewestHash]
        /\ pc[a] # "idle"
        /\ UNCHANGED <<ledger, start, payload, overlapped>> /\ NewestHash' = NewestHash
    BY <1>2 DEF ReadPrevious, NewestHash
  <2>2. \A b \in Appenders : pc'[b] # "idle" <=> pc[b] # "idle"
    BY <2>1 DEF TypeOK
  <2>3. \A b \in Appenders : b # a => pc'[b] = pc[b] /\ prev'[b] = prev[b]
    BY <2>1 DEF TypeOK
  <2>4. prev'[a] = NewestHash
    BY <2>1 DEF TypeOK
  <2>5. QED
    BY <2>1, <2>2, <2>3, <2>4 DEF AuditInv
<1>3. ASSUME NEW a \in Appenders, Insert(a)
      PROVE  AuditInv'
  <2>1. /\ pc[a] = "insert" /\ pc' = [pc EXCEPT ![a] = "idle"]
        /\ start' = [start EXCEPT ![a] = 0] /\ overlapped' = overlapped
    BY <1>3 DEF Insert, End
  <2>2. payload' \in [Appenders -> Payloads \cup {None}]
    BY <1>3 DEF Insert, End, AuditInv
  <2>3. \A b \in Appenders : pc'[b] # "idle" => b # a /\ pc[b] # "idle" /\ start'[b] = start[b]
    BY <2>1 DEF TypeOK
  <2>4. ASSUME ~overlapped
        PROVE  /\ \A b \in Appenders : pc'[b] = "idle"
               /\ \A t \in DOMAIN ledger' : Linked(ledger', t) /\ Hashed(ledger', t)
    <3>1. \A b \in Appenders : pc'[b] = "idle"
      BY <2>1, <2>3, <2>4 DEF AuditInv
    <3> DEFINE r == NewRow(payload[a], prev[a])
    <3>2. /\ payload[a] \in Payloads /\ prev[a] \in Seq(Payloads)
          /\ prev[a] = NewestHash
          /\ \A t \in DOMAIN ledger : t < start[a]
          /\ \A t \in DOMAIN ledger : Linked(ledger, t) /\ Hashed(ledger, t)
      BY <2>1, <2>4 DEF TypeOK, AuditInv
    <3>3. start[a] \in Nat
      BY DEF TypeOK
    <3>4. ledger' = [t \in DOMAIN ledger \cup {start[a]} |->
                       IF t = start[a] THEN r ELSE ledger[t]]
      BY <1>3 DEF Insert, Timestamp
    <3>5. /\ r.prev = NewestHash
          /\ r.payloadHash = r.payload
          /\ r.hash = EventHash(r.prev, r.payloadHash)
      BY <3>2, NewRowType
    <3> HIDE DEF r
    <3>6. \A t \in DOMAIN ledger' : Linked(ledger', t) /\ Hashed(ledger', t)
      BY <3>2, <3>3, <3>4, <3>5, InsertLinks
    <3>7. QED
      BY <3>1, <3>6
  <2>5. QED
    BY <2>1, <2>2, <2>3, <2>4 DEF AuditInv
<1>4. ASSUME NEW a \in Appenders, Fail(a)
      PROVE  AuditInv'
  <2>1. /\ pc' = [pc EXCEPT ![a] = "idle"] /\ start' = [start EXCEPT ![a] = 0]
        /\ prev' = [prev EXCEPT ![a] = Nil]
        /\ overlapped' = overlapped /\ ledger' = ledger /\ NewestHash' = NewestHash
    BY <1>4 DEF Fail, End, NewestHash
  <2>2. payload' \in [Appenders -> Payloads \cup {None}]
    BY <1>4 DEF Fail, End, AuditInv
  <2>3. \A b \in Appenders :
          pc'[b] # "idle" => /\ pc'[b] = pc[b]
                             /\ start'[b] = start[b]
                             /\ prev'[b] = prev[b]
    BY <2>1 DEF TypeOK
  <2>4. QED
    BY <2>1, <2>2, <2>3 DEF AuditInv
<1>5. CASE UNCHANGED vars
  BY <1>5 DEF vars, AuditInv, NewestHash
<1>6. QED
  BY <1>1, <1>2, <1>3, <1>4, <1>5 DEF Next

(* The inductive invariant holds of every behaviour.                       *)
LEMMA Invariance == Spec => [](TypeOK /\ AuditInv)
BY InitInv, NextTypeOK, NextInv, PTL DEF Spec

(* Whatever is appended and whatever fails, a ledger whose appends did not *)
(* overlap passes VerifyChain (audit.go:60-110 against 113-192).           *)
THEOREM SerialLedgerVerifies == Spec => []SerialAppendsVerify
<1>1. AuditInv => SerialAppendsVerify
  BY DEF AuditInv, SerialAppendsVerify, VerifyChain
<1>2. QED
  BY <1>1, Invariance, PTL

(* A row before the newest has a successor, whose prev is its hash in any  *)
(* ledger with the same timestamps that verifies.                          *)
LEMMA Successor ==
  ASSUME TypeOK, NEW t \in DOMAIN ledger, t < Max(DOMAIN ledger)
  PROVE  \E n \in DOMAIN ledger :
           /\ n # t /\ t < n
           /\ \A u \in DOMAIN ledger : u < n <=> u < t \/ u = t
<1> DEFINE later == {u \in DOMAIN ledger : t < u}
<1>1. /\ DOMAIN ledger \in SUBSET Int /\ IsFiniteSet(DOMAIN ledger)
      /\ later \in SUBSET Int /\ IsFiniteSet(later)
  BY LedgerFinite
<1>2. later # {}
  BY <1>1, MaxFinite
<1>3. PICK n \in later : \A u \in later : n <= u
  <2> HIDE DEF later
  <2>1. QED
    BY <1>1, <1>2, MinFinite
<1>4. n \in Int /\ t \in Int /\ t < n /\ n \in DOMAIN ledger
  BY <1>1
<1>5. ASSUME NEW u \in DOMAIN ledger
      PROVE  u < n <=> u < t \/ u = t
  <2>1. u \in Int /\ (t < u => n <= u)
    BY <1>1, <1>3
  <2>2. QED
    BY <1>4, <2>1
<1>6. QED
  BY <1>4, <1>5

(* The link of that successor in a ledger that verifies.                   *)
LEMMA SuccessorLink ==
  ASSUME NEW l, DOMAIN l \in SUBSET Int, NEW t \in DOMAIN l, NEW n \in DOMAIN l, t < n,
         \A u \in DOMAIN l : u < n <=> u < t \/ u = t,
         VerifyChain(l)
  PROVE  l[n].prev = l[t].hash
<1> DEFINE before == {u \in DOMAIN l : u < n}
<1>1. before \in SUBSET Int /\ t \in before
  OBVIOUS
<1>2. \A u \in before : t >= u
  <2>1. \A u \in before : u \in Int /\ t \in Int /\ (u < t \/ u = t)
    OBVIOUS
  <2>2. QED
    BY <2>1
<1>3. l[n].prev = IF before = {} THEN Nil ELSE l[Max(before)].hash
  BY DEF VerifyChain, Linked
<1> HIDE DEF before
<1>4. Max(before) = t /\ before # {}
  BY <1>1, <1>2, MaxIs
<1>5. QED
  BY <1>3, <1>4

(* Editing or removing a row of a verified ledger breaks a hash or a link: *)
(* a row's hash is computed from its payload and its predecessor's hash,   *)
(* and its successor stores it.                                            *)
LEMMA TamperingBreaksChain == TypeOK => TamperingDetected
<1> SUFFICES ASSUME TypeOK, VerifyChain(ledger), NEW t \in DOMAIN ledger
             PROVE  /\ \A p \in Payloads \ {ledger[t].payload} :
                         /\ ~VerifyChain(With(ledger, t, [ledger[t] EXCEPT !.payload = p]))
                         /\ t < Max(DOMAIN ledger)
                              => ~VerifyChain(With(ledger, t, NewRow(p, ledger[t].prev)))
                    /\ t < Max(DOMAIN ledger) => ~VerifyChain(Without(ledger, t))
  BY DEF TamperingDetected
<1>1. DOMAIN ledger \in SUBSET Int
  BY LedgerFinite
<1>2. ledger[t] \in Row
  BY DEF TypeOK
<1>3. /\ ledger[t].payloadHash = ledger[t].payload
      /\ ledger[t].hash = EventHash(ledger[t].prev, ledger[t].payload)
      /\ ledger[t].payload \in Payloads
      /\ ledger[t].prev \in Seq(Payloads)
  BY <1>2 DEF VerifyChain, Hashed, Row
<1>4. ASSUME NEW p \in Payloads, p # ledger[t].payload
      PROVE  ~VerifyChain(With(ledger, t, [ledger[t] EXCEPT !.payload = p]))
  <2> DEFINE r == [ledger[t] EXCEPT !.payload = p]
             l == With(ledger, t, r)
  <2>1. r.payload = p /\ r.payloadHash = ledger[t].payloadHash
    BY <1>2 DEF Row
  <2>2. DOMAIN l = DOMAIN ledger /\ l[t] = r
    BY DEF With
  <2>3. ~Hashed(l, t)
    BY <1>3, <1>4, <2>1, <2>2 DEF Hashed
  <2>4. QED
    BY <2>2, <2>3 DEF VerifyChain
<1>5. ASSUME NEW p \in Payloads, p # ledger[t].payload, t < Max(DOMAIN ledger),
             VerifyChain(With(ledger, t, NewRow(p, ledger[t].prev)))
      PROVE  FALSE
  <2> DEFINE r == NewRow(p, ledger[t].prev)
             l == With(ledger, t, r)
  <2>1. PICK n \in DOMAIN ledger :
          /\ n # t /\ t < n
          /\ \A u \in DOMAIN ledger : u < n <=> u < t \/ u = t
    BY <1>5, Successor
  <2>2. DOMAIN l = DOMAIN ledger /\ l[t] = r /\ l[n] = ledger[n]
    BY <2>1 DEF With
  <2>3. r.hash = EventHash(ledger[t].prev, p)
    BY DEF NewRow
  <2>4. VerifyChain(l)
    BY <1>5
  <2> HIDE DEF l
  <2>5. l[n].prev = l[t].hash
    BY <1>1, <2>1, <2>2, <2>4, SuccessorLink
  <2>6. ledger[n].prev = ledger[t].hash
    BY <1>1, <2>1, SuccessorLink
  <2>7. EventHash(ledger[t].prev, p) = EventHash(ledger[t].prev, ledger[t].payload)
    BY <1>3, <2>2, <2>3, <2>5, <2>6
  <2>8. QED
    BY <1>3, <1>5, <2>7, HashInjective
<1>6. ASSUME t < Max(DOMAIN ledger), VerifyChain(Without(ledger, t))
      PROVE  FALSE
  <2> DEFINE l == Without(ledger, t)
             before == {u \in DOMAIN ledger : u < t}
  <2>1. PICK n \in DOMAIN ledger :
          /\ n # t /\ t < n
          /\ \A u \in DOMAIN ledger : u < n <=> u < t \/ u = t
    BY <1>6, Successor
  <2>2. DOMAIN l = DOMAIN ledger \ {t} /\ \A u \in DOMAIN l : l[u] = ledger[u]
    BY DEF Without
  <2>3. {u \in DOMAIN l : u < n} = before
    <3>1. \A u \in DOMAIN ledger : u < t => u # t
      BY <1>1
    <3>2. QED
      BY <2>1, <2>2, <3>1
  <2>4. before # {} => Max(before) \in before
    BY LedgerFinite, MaxFinite
  <2>5. ledger[t].prev = IF before = {} THEN Nil ELSE ledger[Max(before)].hash
    BY DEF VerifyChain, Linked
  <2>6. l[n].prev = IF before = {} THEN Nil ELSE l[Max(before)].hash
    <3>1. Linked(l, n)
      BY <1>6, <2>1, <2>2 DEF VerifyChain
    <3> HIDE DEF l
    <3>2. QED
      BY <2>3, <3>1 DEF Linked
  <2>7. before # {} => l[Max(before)] = ledger[Max(before)]
    <3>1. before \subseteq DOMAIN l
      BY <2>2, <1>1
    <3>2. QED
      BY <2>2, <2>4, <3>1
  <2>8. ledger[n].prev = ledger[t].prev
    BY <2>1, <2>2, <2>5, <2>6, <2>7
  <2>9. ledger[n].prev = ledger[t].hash
    BY <1>1, <2>1, SuccessorLink
  <2>10. QED
    BY <1>3, <2>8, <2>9, HashInjective
<1>7. QED
  BY <1>4, <1>5, <1>6

(* In every reachable ledger that verifies, an edited payload, a row       *)
(* rewritten with matching hashes and a removed row are found, for ledgers *)
(* of any length (audit.go:146-184).                                       *)
THEOREM TamperingIsDetected == Spec => []TamperingDetected
BY Invariance, TamperingBreaksChain, PTL
=============================================================================
