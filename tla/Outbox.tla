------------------------------- MODULE Outbox -------------------------------
(***************************************************************************)
(* packages/utils/outbox: events inserted by application transactions and  *)
(* several relays (one per worker process) that publish them to asynq.     *)
(*                                                                         *)
(* A relay's ProcessBatch is one database transaction: SELECT ... FOR      *)
(* UPDATE SKIP LOCKED, then per event an EnqueueContext, which takes       *)
(* effect at once, and an UPDATE, which takes effect with the commit.      *)
(* Between any two of these the relay may die, and the other relays and    *)
(* the workers that consume the tasks run on.                              *)
(***************************************************************************)
EXTENDS Integers, FiniteSets

CONSTANTS
  N,          \* number of events; an event is its position by created_at
  Relays,     \* relay instances
  BatchSize,  \* LIMIT of the SELECT
  Routed,     \* events whose type the worker's mux has a handler for
  MaxRetry,   \* asynq.MaxRetry: how often a failed task is tried again
  MaxFailures \* bound on failed calls, failed handlers and relay crashes

ASSUME OutboxAssumption ==
  /\ N \in Nat
  /\ BatchSize \in Nat \ {0}
  /\ Routed \subseteq 1..N
  /\ {MaxRetry, MaxFailures} \subseteq Nat

Events == 1..N

VARIABLES
  table,      \* events whose inserting transaction has committed
  published,  \* events with published_at set
  held,       \* held[r]: rows locked by the transaction of relay r
  todo,       \* todo[r]: rows of its batch it has not come to
  marks,      \* marks[r]: published_at updates of its open transaction
  aborted,    \* aborted[r]: a statement failed, so the commit will roll back
  task,       \* the asynq task with TaskID outbox:<event>
  retried,    \* failed attempts at that task
  enqueued,   \* how often the queue accepted the event
  handled,    \* events whose task a worker has processed
  archived,   \* events whose task has been given up
  lapsed,     \* events whose task expired before the row was published
  failures    \* failed calls and crashes so far

relayVars == <<held, todo, marks, aborted>>
queueVars == <<task, retried, enqueued, handled, archived, lapsed>>
outboxVars == <<table, published, held, todo, marks, aborted, task, retried, enqueued, handled,
                archived, lapsed, failures>>

OutboxTypeOK ==
  /\ table \subseteq Events
  /\ published \subseteq Events
  /\ held \in [Relays -> SUBSET Events]
  /\ todo \in [Relays -> SUBSET Events]
  /\ marks \in [Relays -> SUBSET Events]
  /\ aborted \in [Relays -> BOOLEAN]
  /\ task \in [Events -> {"none", "pending", "retained", "archived"}]
  /\ retried \in [Events -> Nat]
  /\ enqueued \in [Events -> Nat]
  /\ handled \subseteq Events
  /\ archived \subseteq Events
  /\ lapsed \subseteq Events
  /\ failures \in Nat

OutboxInit ==
  /\ table = {}
  /\ published = {}
  /\ held = [r \in Relays |-> {}]
  /\ todo = [r \in Relays |-> {}]
  /\ marks = [r \in Relays |-> {}]
  /\ aborted = [r \in Relays |-> FALSE]
  /\ task = [e \in Events |-> "none"]
  /\ retried = [e \in Events |-> 0]
  /\ enqueued = [e \in Events |-> 0]
  /\ handled = {}
  /\ archived = {}
  /\ lapsed = {}
  /\ failures = 0

Failure == failures < MaxFailures /\ failures' = failures + 1

-----------------------------------------------------------------------------
(* The transaction that inserted the event commits.  created_at is the     *)
(* time it began, so events become visible in any order.                   *)
InsertOutboxEvent(e) ==
  /\ e \notin table
  /\ table' = table \cup {e}
  /\ UNCHANGED <<published, relayVars, queueVars, failures>>

Locked == UNION {held[r] : r \in Relays}

(* A bug variant of Unpublished: no FOR UPDATE SKIP LOCKED.                *)
UnpublishedUnlocked == table \ published

Unpublished == table \ (published \cup Locked)

(* ORDER BY created_at LIMIT n.                                            *)
Oldest(S, n) == {e \in S : Cardinality({f \in S : f < e}) < n}

(* ProcessBatch begins; with nothing to do it returns at once.             *)
SelectBatch(r) ==
  /\ held[r] = {}
  /\ Unpublished # {}
  /\ held' = [held EXCEPT ![r] = Oldest(Unpublished, BatchSize)]
  /\ todo' = [todo EXCEPT ![r] = Oldest(Unpublished, BatchSize)]
  /\ UNCHANGED <<table, published, marks, aborted, queueVars, failures>>

(* A bug variant of Enqueue: no TaskID, so the queue cannot tell a repeat. *)
EnqueueAnonymous(e) ==
  /\ task' = [task EXCEPT ![e] = "pending"]
  /\ retried' = [retried EXCEPT ![e] = 0]
  /\ enqueued' = [enqueued EXCEPT ![e] = @ + 1]

(* EnqueueContext with a TaskID: asynq refuses an id it still keeps with   *)
(* ErrTaskIDConflict, which the relay takes for success.                   *)
Enqueue(e) ==
  IF task[e] = "none"
  THEN /\ task' = [task EXCEPT ![e] = "pending"]
       /\ retried' = [retried EXCEPT ![e] = 0]
       /\ enqueued' = [enqueued EXCEPT ![e] = @ + 1]
  ELSE UNCHANGED <<task, retried, enqueued>>

(* A bug variant of Marks: an event is marked whatever the queue answered. *)
MarksAlways(sent) == TRUE

(* Whether published_at is set after EnqueueContext.                       *)
Marks(sent) == sent

(* The next event of the batch: it is enqueued (or was already) and marked *)
(* as published in the open transaction.                                   *)
Publish(r, e) ==
  /\ e \in todo[r] /\ \A f \in todo[r] : e <= f
  /\ todo' = [todo EXCEPT ![r] = @ \ {e}]
  /\ Enqueue(e)
  /\ marks' = [marks EXCEPT ![r] = IF Marks(TRUE) THEN @ \cup {e} ELSE @]
  /\ UNCHANGED <<table, published, held, aborted, handled, archived, lapsed, failures>>

(* EnqueueContext answers with an error, whether or not the queue got the  *)
(* task; or the UPDATE after it fails, which aborts the transaction.       *)
PublishFails(r, e) ==
  /\ e \in todo[r] /\ \A f \in todo[r] : e <= f
  /\ Failure
  /\ todo' = [todo EXCEPT ![r] = @ \ {e}]
  /\ Enqueue(e) \/ UNCHANGED <<task, retried, enqueued>>
  /\ marks' = [marks EXCEPT ![r] = IF Marks(FALSE) THEN @ \cup {e} ELSE @]
  /\ \E abort \in BOOLEAN : aborted' = [aborted EXCEPT ![r] = @ \/ abort]
  /\ UNCHANGED <<table, published, held, handled, archived, lapsed>>

(* The transaction of relay r is over and its locks are released.          *)
Release(r) ==
  /\ held' = [held EXCEPT ![r] = {}]
  /\ todo' = [todo EXCEPT ![r] = {}]
  /\ marks' = [marks EXCEPT ![r] = {}]
  /\ aborted' = [aborted EXCEPT ![r] = FALSE]

(* A bug variant of Committed: the whole batch counts as published.        *)
CommittedBatch(r) == held[r]

(* The rows a commit publishes: none when a statement of it failed.        *)
Committed(r) == IF aborted[r] THEN {} ELSE marks[r]

Commit(r) ==
  /\ held[r] # {} /\ todo[r] = {}
  /\ published' = published \cup Committed(r)
  /\ Release(r)
  /\ UNCHANGED <<table, queueVars, failures>>

(* The relay dies or its commit fails: the open updates are lost, what was *)
(* enqueued is not.                                                        *)
Crash(r) ==
  /\ held[r] # {}
  /\ Failure
  /\ Release(r)
  /\ UNCHANGED <<table, published, queueVars>>

(* External: a worker of asynq processes the task, which stays known for   *)
(* its retention, 24 hours.                                                *)
ProcessTask(e) ==
  /\ task[e] = "pending" /\ e \in Routed
  /\ task' = [task EXCEPT ![e] = "retained"]
  /\ handled' = handled \cup {e}
  /\ UNCHANGED <<table, published, relayVars, retried, enqueued, archived, lapsed, failures>>

(* An attempt ends with an error: the handler's, or that of the mux, which *)
(* finds none for the type (PAYMENT_FAILED of v1_events.go:225).  The task *)
(* is retried, or archived after MaxRetry retries.                         *)
TaskFails(e) ==
  /\ task[e] = "pending"
  /\ IF e \in Routed THEN Failure ELSE UNCHANGED failures
  /\ IF retried[e] < MaxRetry
     THEN retried' = [retried EXCEPT ![e] = @ + 1] /\ UNCHANGED <<task, archived>>
     ELSE /\ task' = [task EXCEPT ![e] = "archived"]
          /\ archived' = archived \cup {e}
          /\ UNCHANGED retried
  /\ UNCHANGED <<table, published, relayVars, enqueued, handled, lapsed>>

(* External: the retention of a finished or archived task ends.            *)
Expire(e) ==
  /\ task[e] \in {"retained", "archived"}
  /\ task' = [task EXCEPT ![e] = "none"]
  /\ lapsed' = IF e \in published THEN lapsed ELSE lapsed \cup {e}
  /\ UNCHANGED <<table, published, relayVars, retried, enqueued, handled, archived, failures>>

ProcessBatch(r) ==
  \/ SelectBatch(r)
  \/ \E e \in Events : Publish(r, e)
  \/ Commit(r)

OutboxNext ==
  \/ \E r \in Relays : \/ ProcessBatch(r)
                       \/ \E e \in Events : PublishFails(r, e)
                       \/ Crash(r)
  \/ \E e \in Events : InsertOutboxEvent(e) \/ ProcessTask(e) \/ TaskFails(e) \/ Expire(e)

OutboxSpec == OutboxInit /\ [][OutboxNext]_outboxVars

(* Relay.Start polls as long as its process lives, and asynq hands every   *)
(* pending task to a worker, again when the attempt failed.                *)
Fairness ==
  /\ \A r \in Relays : WF_outboxVars(ProcessBatch(r))
  /\ \A e \in Events : WF_outboxVars(ProcessTask(e) \/ TaskFails(e))

FairSpec == OutboxSpec /\ Fairness

-----------------------------------------------------------------------------
(* A published row was accepted by the queue: an event is never marked and *)
(* lost, also when the mark follows an ErrTaskIDConflict, the relay died   *)
(* in between, or a later relay repeats the batch (outbox.go:149-171).     *)
PublishedWasEnqueued == \A e \in published : enqueued[e] > 0

(* The TaskID makes delivery exactly-once: an event enters the queue twice *)
(* only if no relay published its row during the 24 hours for which asynq  *)
(* remembers the task (outbox.go:139-147).                                 *)
EnqueuedOnce == \A e \in Events : enqueued[e] > 1 => e \in lapsed

(* Two relays never work on the same row, and none on a published row, so  *)
(* no row is claimed by two open transactions (outbox.go:100).             *)
DisjointBatches ==
  /\ \A r, s \in Relays : r # s => held[r] \cap held[s] = {}
  /\ \A r \in Relays : held[r] \cap published = {}

(* What the proofs carry along: batches consist of unpublished committed   *)
(* rows, marks and published rows are enqueued, and a task that the queue  *)
(* no longer knows was published or has lapsed.                            *)
OutboxInv ==
  /\ published \subseteq table
  /\ DisjointBatches
  /\ \A r \in Relays : /\ held[r] \subseteq table
                       /\ todo[r] \subseteq held[r]
                       /\ marks[r] \subseteq held[r]
                       /\ \A e \in marks[r] : enqueued[e] > 0
  /\ PublishedWasEnqueued
  /\ EnqueuedOnce
  /\ \A e \in Events : /\ enqueued[e] > 0 => e \in table
                       /\ enqueued[e] = 0 => task[e] = "none"
                       /\ enqueued[e] > 0 /\ task[e] = "none" => e \in published \cup lapsed

(* Refinement: the relays implement TransactionalOutbox.                   *)
Promise == INSTANCE TransactionalOutbox
             WITH recorded <- table, deliveries <- enqueued, settled <- published

(* The relays deliver only committed events, settle a row only after the   *)
(* queue has its event, and never deliver an event whose row another relay *)
(* has published meanwhile (outbox.go:94-180).                             *)
ImplementsOutbox == Promise!Spec

(* The row of a committed event is published, whatever fails a bounded     *)
(* number of times, and a worker handles its task, unless MaxRetry + 1     *)
(* attempts at it have failed: that is how every event ends whose type has *)
(* no route (outbox.go:144-147, tasks/handlers.go:30-41).                  *)
EveryEventHandled ==
  \A e \in Events :
    e \in table ~> e \in published /\ e \in (IF e \in Routed THEN handled \cup archived ELSE archived)
=============================================================================
