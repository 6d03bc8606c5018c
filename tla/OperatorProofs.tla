--------------------------- MODULE OperatorProofs ---------------------------
(***************************************************************************)
(* Theorems about OperatorConsole for any number of analyse tasks,         *)
(* workflows, retries, decisions, refreshes and faults.                    *)
(***************************************************************************)
EXTENDS OperatorConsole, FiniteSetTheorems, TLAPS

(* The kinds of a request.                                                 *)
LEMMA KindFacts == Kinds = {"approve", "reject"} /\ "load" \notin Kinds
BY DEF Kinds

(* The views and rows a page or the API starts from.                       *)
LEMMA ConstantFacts ==
  /\ NoRow \in Row /\ NoRow.ver = 0
  /\ SyntheticDetail \in View /\ ~SyntheticDetail.real
  /\ ~NoView.real /\ NoView \notin View
  /\ \A w \in Slots : w # Absent
<1>1. NoRow \in Row /\ NoRow.ver = 0
  BY DEF NoRow, Row, WorkflowStatus
<1>2. SyntheticDetail = [real |-> FALSE, status |-> "ESCALATED", ver |-> 0, old |-> FALSE]
  BY DEF SyntheticDetail, FirstSynthetic
<1>3. SyntheticDetail \in View /\ ~SyntheticDetail.real
  BY <1>2 DEF View, WorkflowStatus
<1>4. ~NoView.real /\ NoView \notin View
  <2>1. ~NoView.real /\ NoView.status = "none"
    BY <1>2 DEF NoView
  <2>2. \A x \in View : x.status # "none"
    BY DEF View, WorkflowStatus
  <2>3. QED
    BY <2>1, <2>2
<1>5. \A w \in Slots : w # Absent
  BY DEF Slots, Absent
<1>6. QED
  BY <1>1, <1>3, <1>4, <1>5

(* The fields of the requests.                                             *)
LEMMA MessageFacts ==
  ASSUME TypeOK, NEW q \in net
  PROVE  /\ q \in Message /\ q.id \in Nat /\ q.tab \in {"detail", "queue"}
         /\ q.kind \in Kinds \cup {"load"} /\ q.w \in Slots
         /\ q.action \in Strategy \cup {NoAction}
         /\ q.holds \in BOOLEAN /\ q.old \in BOOLEAN /\ q.executed \in BOOLEAN
         /\ q.pc \in {"sent", "charge", "write", "reply"} /\ q.ok \in BOOLEAN
         /\ q.data \in [Slots -> Row]
BY ConstantFacts DEF TypeOK, Message

(* The rows and their versions.                                            *)
LEMMA RowFacts ==
  ASSUME TypeOK, NEW w \in Slots
  PROVE  /\ rows[w] \in Row /\ rows[w].ver \in Nat /\ rows[w].status \in WorkflowStatus
         /\ rows[w].action \in Strategy \cup {NoAction}
<1>1. rows[w] \in Row
  BY ConstantFacts DEF TypeOK
<1>2. QED
  BY <1>1 DEF Row

(* There is a number no request under way has: more are tried than there   *)
(* are requests.                                                           *)
LEMMA FreeIdIsFree ==
  ASSUME TypeOK, IsFiniteSet(net)
  PROVE  FreeId \in Nat /\ \A q \in net : q.id # FreeId
<1> DEFINE n == Cardinality(net)
           ids == {q.id : q \in net}
<1>1. n \in Nat
  BY FS_CardinalityType
<1>2. IsFiniteSet(ids) /\ Cardinality(ids) <= n /\ Cardinality(ids) \in Nat
  <2>1. IsFiniteSet(ids) /\ Cardinality(ids) <= n
    <3> DEFINE f == [q \in net |-> q.id]
    <3>1. f \in Surjection(net, ids)
      BY DEF Surjection
    <3>2. QED
      BY <3>1, FS_Surjection
  <2>2. QED
    BY <2>1, FS_CardinalityType
<1>3. Cardinality(1..(n + 1)) = n + 1
  BY <1>1, FS_Interval
<1>4. ~(1..(n + 1) \subseteq ids)
  <2> HIDE DEF ids
  <2>1. QED
    BY <1>1, <1>2, <1>3, FS_Subset
<1>5. \E i \in 1..(n + 1) : \A q \in net : q.id # i
  BY <1>4
<1>6. FreeId \in 1..(n + 1) /\ \A q \in net : q.id # FreeId
  BY <1>5 DEF FreeId
<1>7. QED
  BY <1>1, <1>6

(* What a new request is made of.                                          *)
LEMMA RequestFacts ==
  ASSUME TypeOK, NetInv
  PROVE  /\ FreeId \in Nat /\ \A o \in net : o.id # FreeId
         /\ [v \in Slots |-> NoRow] \in [Slots -> Row \cup {NoRow}]
<1>1. FreeId \in Nat /\ \A o \in net : o.id # FreeId
  BY FreeIdIsFree DEF NetInv
<1>2. QED
  BY <1>1

(* What the API never changes of a request.                                *)
SameRequest(q, r) ==
  /\ r.id = q.id /\ r.tab = q.tab /\ r.kind = q.kind /\ r.w = q.w
  /\ r.holds = q.holds /\ r.old = q.old

(* A request that the API has answered without data.                       *)
LEMMA AnswerFacts ==
  ASSUME NEW q \in Message, NEW ok \in BOOLEAN, NEW r,
         r = [q EXCEPT !.pc = "reply", !.executed = FALSE, !.action = NoAction, !.ok = ok]
  PROVE  /\ r \in Message /\ SameRequest(q, r) /\ r.pc = "reply" /\ r.ok = ok
         /\ r.data = q.data
BY DEF Message, SameRequest

(* A load that has been answered.                                          *)
LEMMA LoadFacts ==
  ASSUME NEW q \in Message, NEW data \in [Slots -> Row]
  PROVE  LET r == [q EXCEPT !.pc = "reply", !.ok = TRUE, !.data = data]
         IN  r \in Message /\ SameRequest(q, r) /\ r.pc = "reply" /\ r.ok /\ r.data = data
<1>1. data \in [Slots -> Row \cup {NoRow}]
  OBVIOUS
<1>2. QED
  BY <1>1 DEF Message, SameRequest

(* What is known of a request answered with the version a decision left.   *)
Versioned(q, r, n) ==
  /\ r \in Message /\ SameRequest(q, r) /\ r.pc = "reply" /\ r.ok
  /\ r.data[q.w].ver = n /\ \A v \in Slots : v # q.w => r.data[v] = q.data[v]

(* A decision that has been answered with the version it has left behind.  *)
LEMMA VersionFacts ==
  ASSUME NEW q \in Message, NEW n \in Nat
  PROVE  /\ Versioned(q, [q EXCEPT !.pc = "reply", !.ok = TRUE, !.data[q.w].ver = n], n)
         /\ Versioned(q, [q EXCEPT !.pc = "reply", !.executed = FALSE, !.action = NoAction,
                                   !.ok = TRUE, !.data[q.w].ver = n], n)
<1>1. q.w \in Slots /\ q.data \in [Slots -> Row \cup {NoRow}]
  BY DEF Message
<1>2. q.data[q.w] \in Row
  BY <1>1, ConstantFacts
<1>3. [q.data[q.w] EXCEPT !.ver = n] \in Row /\ [q.data[q.w] EXCEPT !.ver = n].ver = n
  BY <1>2 DEF Row
<1> DEFINE d == [q.data EXCEPT ![q.w] = [q.data[q.w] EXCEPT !.ver = n]]
           r == [q EXCEPT !.pc = "reply", !.ok = TRUE, !.data = d]
           s == [q EXCEPT !.pc = "reply", !.executed = FALSE, !.action = NoAction,
                          !.ok = TRUE, !.data = d]
<1>4. /\ d \in [Slots -> Row \cup {NoRow}] /\ d[q.w].ver = n
      /\ \A v \in Slots : v # q.w => d[v] = q.data[v]
  BY <1>1, <1>3
<1> HIDE DEF d
<1>5. Versioned(q, r, n) /\ Versioned(q, s, n)
  BY <1>4 DEF Message, SameRequest, Versioned
<1>6. QED
  BY <1>5 DEF d

(* The rows are rows after a write, which raises the version by one.       *)
LEMMA WriteFacts ==
  ASSUME TypeOK, NEW w \in Slots, NEW status \in WorkflowStatus,
         NEW action \in Strategy \cup {NoAction}, Write(w, status, action)
  PROVE  /\ rows' \in [Slots -> Row \cup {NoRow}]
         /\ rows'[w].ver = rows[w].ver + 1
         /\ \A v \in Slots : v # w => rows'[v] = rows[v]
<1>1. rows[w].ver \in Nat
  BY RowFacts
<1>2. [status |-> status, action |-> action, ver |-> rows[w].ver + 1] \in Row
  BY <1>1 DEF Row
<1>3. QED
  BY <1>2 DEF Write, TypeOK

(* Every row stays as it is, or has one more write.                        *)
Grown == \A w \in Slots : rows'[w] = rows[w] \/ rows'[w].ver = rows[w].ver + 1

(* The states a task goes on to.                                           *)
LEMMA TaskFacts ==
  ASSUME NEW x \in Task
  PROVE  /\ \A p \in {"idle", "create", "analyse", "execute", "running", "done"} :
              [x EXCEPT !.pc = p] \in Task
         /\ \A w \in Slots : [x EXCEPT !.pc = "analyse", !.w = w] \in Task
         /\ [x EXCEPT !.pc = "create", !.blind = x.blind + 1] \in Task
         /\ \A w \in Slots :
              [x EXCEPT !.pc = "analyse", !.w = w, !.created = x.created + 1] \in Task
         /\ x.tries < MaxRetries =>
              [x EXCEPT !.pc = "idle", !.w = Absent, !.tries = x.tries + 1] \in Task
         /\ [x EXCEPT !.pc = "done", !.w = Absent, !.tries = 0] \in Task
<1>1. x.tries \in 0..MaxRetries /\ x.created \in Nat /\ x.blind \in Nat /\ MaxRetries \in Nat
  BY ConsoleAssumption DEF Task
<1>2. /\ x.created + 1 \in Nat /\ x.blind + 1 \in Nat /\ 0 \in 0..MaxRetries
      /\ x.tries < MaxRetries => x.tries + 1 \in 0..MaxRetries
  BY <1>1
<1>3. QED
  BY <1>2 DEF Task

(* A fault that happens stays within its bound.                            *)
LEMMA FaultFacts ==
  ASSUME TypeOK, Fault
  PROVE  faults' = faults + 1 /\ faults' \in 0..MaxFaults
BY ConsoleAssumption DEF TypeOK, Fault

(* What the worker's steps leave alone.                                    *)
Untouched ==
  /\ UNCHANGED <<trail, told, detail, queue, net, clicks>>
  /\ UNCHANGED provider \/ (~provider.terminal /\ provider' = [provider EXCEPT !.captured = TRUE])
  /\ faults' = faults \/ faults' = faults + 1

(* The worker's steps keep the types and only add writes.                  *)
LEMMA WorkerTypes ==
  ASSUME TypeOK, WorkerInv, NEW t \in Tasks, Worker(t)
  PROVE  TypeOK' /\ Grown /\ Untouched
<1> USE DEF server
<1>0. /\ tasks[t] \in Task
      /\ rows \in [Slots -> Row \cup {NoRow}]
      /\ TaskInv(tasks[t])
  BY DEF TypeOK, WorkerInv
<1>t. [tasks[t] EXCEPT !.pc = "done", !.w = Absent, !.tries = 0] \in Task
  BY <1>0, TaskFacts
<1>1. CASE FindWorkflow(t)
  <2>1. LatestWorkflow # {} => (CHOOSE w \in LatestWorkflow : TRUE) \in Slots
    BY DEF LatestWorkflow
  <2>2. UNCHANGED <<rows, provider, trail, told, detail, queue, net, clicks, faults>>
    BY <1>1 DEF FindWorkflow
  <2>3. tasks' \in [Tasks -> Task]
    <3>1. [tasks[t] EXCEPT !.pc = "create"] \in Task
      BY <1>0, TaskFacts
    <3>2. \A w \in Slots : [tasks[t] EXCEPT !.pc = "analyse", !.w = w] \in Task
      BY <1>0, TaskFacts
    <3>3. QED
      BY <1>1, <2>1, <3>1, <3>2 DEF FindWorkflow, TypeOK
  <2>4. QED
    BY <2>2, <2>3 DEF TypeOK, Grown, Untouched
<1>2. CASE LookupFails(t)
  <2>1. /\ UNCHANGED <<rows, provider, trail, told, detail, queue, net, clicks>>
        /\ tasks' = [tasks EXCEPT ![t].pc = "create", ![t].blind = @ + 1]
        /\ faults' = faults + 1 /\ faults' \in 0..MaxFaults
    BY <1>2, FaultFacts DEF LookupFails
  <2>2. [tasks[t] EXCEPT !.pc = "create", !.blind = tasks[t].blind + 1] \in Task
    BY <1>0, TaskFacts
  <2>3. tasks' \in [Tasks -> Task]
    BY <2>1, <2>2 DEF TypeOK
  <2>4. QED
    BY <2>1, <2>3 DEF TypeOK, Grown, Untouched
<1>3. CASE CreateWorkflow(t)
  <2>1. PICK w \in Slots :
          /\ Write(w, "ANALYZING", NoAction)
          /\ tasks' = [tasks EXCEPT ![t].pc = "analyse", ![t].w = w, ![t].created = @ + 1]
    BY <1>3 DEF CreateWorkflow
  <2>2. UNCHANGED <<provider, trail, told, detail, queue, net, clicks, faults>>
    BY <1>3 DEF CreateWorkflow
  <2>3. rows' \in [Slots -> Row \cup {NoRow}] /\ Grown
    BY <2>1, WriteFacts DEF WorkflowStatus, Grown
  <2>4. tasks' \in [Tasks -> Task]
    <3>1. [tasks[t] EXCEPT !.pc = "analyse", !.w = w, !.created = tasks[t].created + 1] \in Task
      BY <1>0, TaskFacts
    <3>2. QED
      BY <2>1, <3>1 DEF TypeOK
  <2>5. QED
    BY <2>2, <2>3, <2>4 DEF TypeOK, Untouched
<1>4. CASE FinishAnalysis(t)
  <2> DEFINE w == tasks[t].w
             status == IF rows[w].status = "ANALYZING" THEN "SCHEDULED" ELSE rows[w].status
  <2>1. w \in Slots
    BY <1>0, <1>4 DEF FinishAnalysis, TaskInv
  <2>2. /\ UNCHANGED <<provider, trail, told, detail, queue, net, clicks>>
        /\ tasks' = [tasks EXCEPT ![t].pc = "execute"]
        /\ \/ (\E a \in Recommended : Write(w, status, a)) /\ UNCHANGED faults
           \/ Fault /\ UNCHANGED rows
    BY <1>4 DEF FinishAnalysis
  <2>3. status \in WorkflowStatus
    BY <2>1, RowFacts DEF WorkflowStatus
  <2> HIDE DEF w, status
  <2>4. /\ rows' \in [Slots -> Row \cup {NoRow}] /\ Grown
        /\ faults' = faults \/ faults' = faults + 1
        /\ faults' \in 0..MaxFaults
    <3>1. CASE (\E a \in Recommended : Write(w, status, a)) /\ UNCHANGED faults
      <4>1. PICK a \in Recommended : Write(w, status, a)
        BY <3>1
      <4>2. a \in Strategy \cup {NoAction}
        BY ConsoleAssumption
      <4>3. rows' \in [Slots -> Row \cup {NoRow}] /\ Grown
        BY <2>1, <2>3, <4>1, <4>2, WriteFacts DEF Grown
      <4>4. QED
        BY <3>1, <4>3 DEF TypeOK
    <3>2. CASE Fault /\ UNCHANGED rows
      BY <1>0, <3>2, FaultFacts DEF Grown
    <3>3. QED
      BY <2>2, <3>1, <3>2
  <2>5. [tasks[t] EXCEPT !.pc = "execute"] \in Task
    BY <1>0, TaskFacts
  <2>6. tasks' \in [Tasks -> Task]
    BY <2>2, <2>5 DEF TypeOK
  <2>7. QED
    BY <2>2, <2>4, <2>6 DEF TypeOK, Untouched
<1>5. CASE RetryTask(t)
  <2>1. /\ UNCHANGED <<rows, provider, trail, told, detail, queue, net, clicks, faults>>
        /\ tasks' = IF tasks[t].tries < MaxRetries
                    THEN [tasks EXCEPT ![t].pc = "idle", ![t].w = Absent, ![t].tries = @ + 1]
                    ELSE [tasks EXCEPT ![t].pc = "done", ![t].w = Absent, ![t].tries = 0]
    BY <1>5 DEF RetryTask, TaskEnded
  <2>2. tasks[t].tries < MaxRetries =>
          [tasks[t] EXCEPT !.pc = "idle", !.w = Absent, !.tries = tasks[t].tries + 1] \in Task
    BY <1>0, TaskFacts
  <2>3. tasks' \in [Tasks -> Task]
    BY <1>t, <2>1, <2>2 DEF TypeOK
  <2>4. QED
    BY <2>1, <2>3 DEF TypeOK, Grown, Untouched
<1>6. CASE StartExecution(t)
  <2>1. [tasks[t] EXCEPT !.pc = "running"] \in Task
    BY <1>0, TaskFacts
  <2>2. tasks' \in [Tasks -> Task]
    BY <1>t, <1>6, <2>1 DEF StartExecution, TaskEnded, TypeOK
  <2>3. QED
    BY <1>6, <2>2 DEF StartExecution, TypeOK, Grown, Untouched
<1>7. CASE ExecutionCharges(t)
  <2>1. provider' \in [captured : BOOLEAN, terminal : BOOLEAN, byDetail : Nat]
    BY <1>7 DEF ExecutionCharges, TypeOK
  <2>2. QED
    BY <1>7, <2>1 DEF ExecutionCharges, TypeOK, Grown, Untouched
<1>8. CASE EndExecution(t)
  <2> DEFINE w == tasks[t].w
  <2>1. w \in Slots
    BY <1>0, <1>8 DEF EndExecution, TaskInv
  <2>2. PICK s \in Outcomes : Write(w, s, rows[w].action)
    BY <1>8 DEF EndExecution
  <2>3. s \in WorkflowStatus /\ rows[w].action \in Strategy \cup {NoAction}
    BY <2>1, ConsoleAssumption, RowFacts
  <2>4. rows' \in [Slots -> Row \cup {NoRow}] /\ Grown
    <3> HIDE DEF w
    <3>1. QED
      BY <2>1, <2>2, <2>3, WriteFacts DEF Grown
  <2>5. /\ UNCHANGED <<provider, trail, told, detail, queue, net, clicks, faults>>
        /\ tasks' = [tasks EXCEPT ![t].pc = "done", ![t].w = Absent, ![t].tries = 0]
    BY <1>8 DEF EndExecution, TaskEnded
  <2>6. tasks' \in [Tasks -> Task]
    BY <1>t, <2>5 DEF TypeOK
  <2>7. QED
    BY <2>4, <2>5, <2>6 DEF TypeOK, Untouched
<1>9. QED
  BY <1>1, <1>2, <1>3, <1>4, <1>5, <1>6, <1>7, <1>8 DEF Worker
-----------------------------------------------------------------------------
(* The worker.                                                             *)

(* A step that brings no workflow into being and leaves the tasks alone.   *)
LEMMA WorkerKept ==
  ASSUME WorkerInv, UNCHANGED tasks, \A w \in Slots : Exists(w)' <=> Exists(w)
  PROVE  WorkerInv'
<1>1. LatestWorkflow' = LatestWorkflow
  BY DEF LatestWorkflow
<1>2. (\A v, w \in Slots : Exists(w) /\ v < w => Exists(v))'
  BY DEF WorkerInv
<1>3. ((\E w \in Slots : Exists(w)) => LatestWorkflow # {})'
  BY <1>1 DEF WorkerInv
<1>4. \A t \in Tasks : TaskInv(tasks[t])'
  BY DEF WorkerInv, TaskInv
<1>5. QED
  BY <1>2, <1>3, <1>4 DEF WorkerInv

(* A write to an existing workflow brings none into being.                 *)
LEMMA WriteKeepsExists ==
  ASSUME TypeOK, NEW w \in Slots, Exists(w), NEW status \in WorkflowStatus,
         NEW action \in Strategy \cup {NoAction}, Write(w, status, action)
  PROVE  \A v \in Slots : Exists(v)' <=> Exists(v)
BY WriteFacts, RowFacts DEF Exists

(* A task goes on with a workflow that exists, or gives up.                *)
LEMMA TaskMoves ==
  ASSUME TypeOK, WorkerInv, NEW t \in Tasks, \A w \in Slots : Exists(w)' <=> Exists(w),
         NEW x, tasks' = [tasks EXCEPT ![t] = x], TaskInv(x)
  PROVE  WorkerInv'
<1>1. LatestWorkflow' = LatestWorkflow
  BY DEF LatestWorkflow
<1>2. (\A v, w \in Slots : Exists(w) /\ v < w => Exists(v))'
  BY DEF WorkerInv
<1>3. ((\E w \in Slots : Exists(w)) => LatestWorkflow # {})'
  BY <1>1 DEF WorkerInv
<1>4. ASSUME NEW u \in Tasks
      PROVE  TaskInv(tasks[u])'
  <2>1. tasks'[u] = IF u = t THEN x ELSE tasks[u]
    BY DEF TypeOK
  <2>2. TaskInv(tasks[u]) /\ TaskInv(x)
    BY DEF WorkerInv
  <2>3. CASE u = t
    BY <2>1, <2>2, <2>3 DEF TaskInv
  <2>4. CASE u # t
    BY <2>1, <2>2, <2>4 DEF TaskInv
  <2>5. QED
    BY <2>3, <2>4
<1>5. QED
  BY <1>2, <1>3, <1>4 DEF WorkerInv

(* The worker's steps keep the worker's invariant.                         *)
LEMMA WorkerKeepsWorkerInv ==
  ASSUME TypeOK, WorkerInv, NEW t \in Tasks, Worker(t)
  PROVE  WorkerInv'
<1> USE DEF server
<1>0. /\ tasks[t] \in Task /\ tasks \in [Tasks -> Task]
      /\ rows \in [Slots -> Row \cup {NoRow}]
      /\ tasks[t].created \in Nat /\ tasks[t].blind \in Nat
      /\ TaskInv(tasks[t])
  BY DEF TypeOK, Task, WorkerInv
<1>t. TaskInv([tasks[t] EXCEPT !.pc = "done", !.w = Absent, !.tries = 0])
  BY <1>0 DEF Task, TaskInv
<1>1. CASE FindWorkflow(t)
  <2>1. \A w \in Slots : Exists(w)' <=> Exists(w)
    BY <1>1 DEF FindWorkflow, Exists
  <2>2. CASE LatestWorkflow = {}
    <3> DEFINE x == [tasks[t] EXCEPT !.pc = "create"]
    <3>1. tasks' = [tasks EXCEPT ![t] = x]
      BY <1>1, <2>2 DEF FindWorkflow
    <3>2. x.pc = "create" /\ x.created = tasks[t].created /\ x.blind = tasks[t].blind
      BY <1>0 DEF Task
    <3>3. x.created <= x.blind
      BY <1>0, <2>2, <3>2 DEF WorkerInv, TaskInv
    <3> HIDE DEF x
    <3>4. TaskInv(x)
      BY <1>0, <3>2, <3>3 DEF TaskInv
    <3>5. QED
      BY <2>1, <3>1, <3>4, TaskMoves
  <2>3. CASE LatestWorkflow # {}
    <3> DEFINE w == CHOOSE w \in LatestWorkflow : TRUE
               x == [tasks[t] EXCEPT !.pc = "analyse", !.w = w]
    <3>1. tasks' = [tasks EXCEPT ![t] = x]
      BY <1>1, <2>3 DEF FindWorkflow
    <3>2. w \in Slots /\ Exists(w)
      BY <2>3 DEF LatestWorkflow
    <3>3. /\ x.pc = "analyse" /\ x.created = tasks[t].created /\ x.blind = tasks[t].blind
          /\ x.w = w
      BY <1>0 DEF Task
    <3> HIDE DEF x, w
    <3>4. TaskInv(x)
      BY <1>0, <3>2, <3>3 DEF TaskInv
    <3>5. QED
      BY <2>1, <3>1, <3>4, TaskMoves
  <2>4. QED
    BY <2>2, <2>3
<1>2. CASE LookupFails(t)
  <2>1. \A w \in Slots : Exists(w)' <=> Exists(w)
    BY <1>2 DEF LookupFails, Exists
  <2> DEFINE x == [tasks[t] EXCEPT !.pc = "create", !.blind = tasks[t].blind + 1]
  <2>2. tasks' = [tasks EXCEPT ![t] = x]
    BY <1>2 DEF LookupFails
  <2>3. x.pc = "create" /\ x.created = tasks[t].created /\ x.blind = tasks[t].blind + 1
    BY <1>0 DEF Task
  <2> HIDE DEF x
  <2>4. TaskInv(x)
    BY <1>0, <2>3 DEF TaskInv
  <2>5. QED
    BY <2>1, <2>2, <2>4, TaskMoves
<1>3. CASE CreateWorkflow(t)
  <2>1. PICK w \in Slots :
          /\ ~Exists(w)
          /\ \A v \in 1..(w - 1) : Exists(v)
          /\ Write(w, "ANALYZING", NoAction)
          /\ tasks' = [tasks EXCEPT ![t].pc = "analyse", ![t].w = w, ![t].created = @ + 1]
    BY <1>3 DEF CreateWorkflow
  <2>2. Exists(w)' /\ \A v \in Slots : v # w => (Exists(v)' <=> Exists(v))
    BY <2>1, WriteFacts, RowFacts DEF WorkflowStatus, Exists
  <2>3. \A v \in Slots : Exists(v)' <=> v <= w
    <3> SUFFICES ASSUME NEW v \in Slots PROVE Exists(v)' <=> v <= w
      OBVIOUS
    <3>1. v \in Int /\ w \in Int /\ v >= 1
      BY DEF Slots
    <3>2. CASE v = w
      BY <2>2, <3>1, <3>2
    <3>3. CASE v < w
      BY <2>1, <2>2, <3>1, <3>3
    <3>4. CASE w < v
      BY <2>1, <2>2, <3>1, <3>4 DEF WorkerInv
    <3>5. QED
      BY <3>1, <3>2, <3>3, <3>4
  <2>4. w \in LatestWorkflow'
    BY <2>3, <2>2 DEF LatestWorkflow
  <2>5. (\A u, v \in Slots : Exists(v) /\ u < v => Exists(u))'
    <3> SUFFICES ASSUME NEW u \in Slots, NEW v \in Slots, Exists(v)', u < v PROVE Exists(u)'
      OBVIOUS
    <3>1. u \in Int /\ v \in Int /\ w \in Int
      BY DEF Slots
    <3>2. QED
      BY <2>3, <3>1
  <2>6. /\ tasks'[t].pc = "analyse" /\ tasks'[t].w = w
        /\ tasks'[t].created = tasks[t].created + 1 /\ tasks'[t].blind = tasks[t].blind
        /\ \A u \in Tasks : u # t => tasks'[u] = tasks[u]
    <3>1. tasks'[t] = [tasks[t] EXCEPT !.pc = "analyse", !.w = w, !.created = tasks[t].created + 1]
      BY <1>0, <2>1
    <3>2. \A u \in Tasks : u # t => tasks'[u] = tasks[u]
      BY <1>0, <2>1
    <3>3. QED
      BY <1>0, <3>1, <3>2 DEF Task
  <2>7. tasks[t].created <= tasks[t].blind
    BY <1>0, <1>3 DEF TaskInv, CreateWorkflow
  <2>8. ASSUME NEW u \in Tasks
        PROVE  TaskInv(tasks[u])'
    <3>1. CASE u = t
      BY <1>0, <2>2, <2>6, <2>7, <3>1 DEF TaskInv
    <3>2. CASE u # t
      <4>1. tasks'[u] = tasks[u] /\ TaskInv(tasks[u])
        BY <2>6, <3>2 DEF WorkerInv
      <4>2. \A v \in Slots : Exists(v) => Exists(v)'
        BY <2>2
      <4>3. QED
        BY <4>1, <4>2 DEF TaskInv
    <3>3. QED
      BY <3>1, <3>2
  <2>9. QED
    BY <2>4, <2>5, <2>8 DEF WorkerInv
<1>4. CASE FinishAnalysis(t)
  <2> DEFINE w == tasks[t].w
             status == IF rows[w].status = "ANALYZING" THEN "SCHEDULED" ELSE rows[w].status
             x == [tasks[t] EXCEPT !.pc = "execute"]
  <2>1. w \in Slots /\ Exists(w)
    BY <1>0, <1>4 DEF FinishAnalysis, TaskInv
  <2>2. \/ \E a \in Recommended : Write(w, status, a)
        \/ UNCHANGED rows
    BY <1>4 DEF FinishAnalysis
  <2>3. status \in WorkflowStatus /\ Recommended \subseteq Strategy \cup {NoAction}
    BY <2>1, ConsoleAssumption, RowFacts DEF WorkflowStatus
  <2>4. tasks' = [tasks EXCEPT ![t] = x]
    BY <1>4 DEF FinishAnalysis
  <2>5. /\ x.pc = "execute" /\ x.created = tasks[t].created /\ x.blind = tasks[t].blind
        /\ x.w = w
    BY <1>0 DEF Task
  <2> HIDE DEF w, status, x
  <2>6. \A v \in Slots : Exists(v)' <=> Exists(v)
    <3>1. CASE \E a \in Recommended : Write(w, status, a)
      BY <2>1, <2>3, <3>1, WriteKeepsExists
    <3>2. CASE UNCHANGED rows
      BY <3>2 DEF Exists
    <3>3. QED
      BY <2>2, <3>1, <3>2
  <2>7. TaskInv(x)
    BY <1>0, <2>1, <2>5 DEF TaskInv
  <2>8. QED
    BY <2>4, <2>6, <2>7, TaskMoves
<1>5. CASE RetryTask(t)
  <2>1. \A w \in Slots : Exists(w)' <=> Exists(w)
    BY <1>5 DEF RetryTask, Exists
  <2> DEFINE y == [tasks[t] EXCEPT !.pc = "idle", !.w = Absent, !.tries = @ + 1]
  <2>2. \/ tasks' = [tasks EXCEPT ![t] = y]
        \/ tasks' = [tasks EXCEPT ![t] = [tasks[t] EXCEPT !.pc = "done", !.w = Absent, !.tries = 0]]
    BY <1>5 DEF RetryTask, TaskEnded
  <2>3. y.pc = "idle" /\ y.created = tasks[t].created /\ y.blind = tasks[t].blind
    BY <1>0 DEF Task
  <2> HIDE DEF y
  <2>4. TaskInv(y)
    BY <1>0, <2>3 DEF TaskInv
  <2>5. QED
    BY <1>t, <2>1, <2>2, <2>4, TaskMoves
<1>6. CASE StartExecution(t)
  <2>1. \A w \in Slots : Exists(w)' <=> Exists(w)
    BY <1>6 DEF StartExecution, Exists
  <2> DEFINE y == [tasks[t] EXCEPT !.pc = "running"]
  <2>2. \/ tasks' = [tasks EXCEPT ![t] = y]
        \/ tasks' = [tasks EXCEPT ![t] = [tasks[t] EXCEPT !.pc = "done", !.w = Absent, !.tries = 0]]
    BY <1>6 DEF StartExecution, TaskEnded
  <2>3. /\ y.pc = "running" /\ y.created = tasks[t].created /\ y.blind = tasks[t].blind
        /\ y.w = tasks[t].w
    BY <1>0 DEF Task
  <2>4. tasks[t].w \in Slots /\ Exists(tasks[t].w)
    BY <1>0, <1>6 DEF StartExecution, TaskInv
  <2> HIDE DEF y
  <2>5. TaskInv(y)
    BY <1>0, <2>3, <2>4 DEF TaskInv
  <2>6. QED
    BY <1>t, <2>1, <2>2, <2>5, TaskMoves
<1>7. CASE ExecutionCharges(t)
  BY <1>7, WorkerKept DEF ExecutionCharges, Exists
<1>8. CASE EndExecution(t)
  <2> DEFINE w == tasks[t].w
  <2>1. w \in Slots /\ Exists(w)
    BY <1>0, <1>8 DEF EndExecution, TaskInv
  <2>2. PICK s \in Outcomes : Write(w, s, rows[w].action)
    BY <1>8 DEF EndExecution
  <2>3. s \in WorkflowStatus /\ rows[w].action \in Strategy \cup {NoAction}
    BY <2>1, ConsoleAssumption, RowFacts
  <2>4. tasks' = [tasks EXCEPT ![t] = [tasks[t] EXCEPT !.pc = "done", !.w = Absent, !.tries = 0]]
    BY <1>8 DEF EndExecution, TaskEnded
  <2> HIDE DEF w
  <2>5. \A v \in Slots : Exists(v)' <=> Exists(v)
    BY <2>1, <2>2, <2>3, WriteKeepsExists
  <2>6. QED
    BY <1>t, <2>4, <2>5, TaskMoves
<1>9. QED
  BY <1>1, <1>2, <1>3, <1>4, <1>5, <1>6, <1>7, <1>8 DEF Worker
-----------------------------------------------------------------------------
(* The API.                                                                *)

(* The steps of the API and of the network move one request on: it keeps   *)
(* what the page made of it, and what it is answered are the rows.         *)
Moves(q, r) ==
  /\ r \in Message /\ SameRequest(q, r)
  /\ net' = (net \ {q}) \cup {r}
  /\ r.pc \in {"charge", "write", "reply"} /\ (r.pc # "reply" => r.kind = "approve")
  /\ \A w \in Slots : r.data[w].ver <= rows'[w].ver
  /\ r.kind = "load" /\ r.ok => r.data = Answered(q) /\ UNCHANGED rows

(* An approval that was answered as dispatched.                            *)
Dispatch(q) == q.kind = "approve" /\ q.pc = "reply" /\ q.ok

(* What the move does to the charges and to their record: an approval is   *)
(* answered as dispatched by the step that records it or fails to.         *)
Charging(q, r) ==
  /\ UNCHANGED provider \/ (q.pc = "charge" /\ Attempt(q))
  /\ r.pc = "charge" => UNCHANGED provider /\ ~provider.captured
  /\ r.executed => q.executed \/ provider'.captured
  /\ faults' \in {faults, faults + 1}
  /\ \/ UNCHANGED trail /\ ~Dispatch(r)
     \/ UNCHANGED trail /\ faults' = faults + 1
     \/ /\ UNCHANGED provider /\ provider.captured
        /\ trail' = [trail EXCEPT !.executed = @ + 1]
     \/ trail' = [trail EXCEPT !.failed = @ + 1]

(* The action an approval executes is one of the actions.                  *)
LEMMA ActionFacts ==
  ASSUME TypeOK, NEW q \in net
  PROVE  ActionToExecute(q) \in Strategy \cup {NoAction}
BY MessageFacts, RowFacts DEF ActionToExecute, Strategy

(* The provider after an attempt.                                          *)
LEMMA AttemptFacts ==
  ASSUME TypeOK, NEW q, Attempt(q)
  PROVE  /\ provider' \in [captured : BOOLEAN, terminal : BOOLEAN, byDetail : Nat]
         /\ provider'.terminal = provider.terminal
         /\ provider'.captured <=> ~provider.terminal
         /\ provider'.byDetail = provider.byDetail
              \/ (q.tab = "detail" /\ ~provider.terminal
                    /\ provider'.byDetail = provider.byDetail + 1)
<1>1. /\ provider \in [captured : BOOLEAN, terminal : BOOLEAN, byDetail : Nat]
      /\ provider' = [provider EXCEPT
           !.captured = ~provider.terminal,
           !.byDetail = IF q.tab = "detail" /\ ~provider.terminal THEN provider.byDetail + 1
                        ELSE provider.byDetail]
  BY DEF TypeOK, Attempt
<1>2. (~provider.terminal) \in BOOLEAN /\ provider.byDetail + 1 \in Nat
  BY <1>1
<1>3. CASE q.tab = "detail" /\ ~provider.terminal
  BY <1>1, <1>2, <1>3
<1>4. CASE ~(q.tab = "detail" /\ ~provider.terminal)
  BY <1>1, <1>2, <1>4
<1>5. QED
  BY <1>3, <1>4

(* The record after one more row.                                          *)
LEMMA TrailFacts ==
  ASSUME TypeOK
  PROVE  /\ [trail EXCEPT !.executed = @ + 1] \in [executed : Nat, failed : Nat]
         /\ [trail EXCEPT !.failed = @ + 1] \in [executed : Nat, failed : Nat]
         /\ [trail EXCEPT !.failed = @ + 1].failed = trail.failed + 1
         /\ [trail EXCEPT !.failed = @ + 1].executed = trail.executed
BY DEF TypeOK

(* Versions do not fall.                                                   *)
LEMMA VersionsGrow ==
  ASSUME TypeOK, Grown, NEW w \in Slots
  PROVE  rows[w].ver <= rows'[w].ver /\ rows'[w].ver \in Nat /\ (Exists(w) => Exists(w)')
BY RowFacts DEF Grown, Exists

(* The versions a request knows stay within the rows.                      *)
LEMMA DataKept ==
  ASSUME TypeOK, Grown, CopiesInv, NEW q \in net
  PROVE  \A w \in Slots : q.data[w].ver <= rows'[w].ver
<1> SUFFICES ASSUME NEW w \in Slots PROVE q.data[w].ver <= rows'[w].ver
  OBVIOUS
<1>1. q.data[w].ver \in Nat /\ q.data[w].ver <= rows[w].ver
  BY MessageFacts DEF Row, CopiesInv, RequestCopies
<1>2. QED
  BY <1>1, RowFacts, VersionsGrow

(* A step of the API or of the network.                                    *)
LEMMA ApiStep ==
  ASSUME TypeOK, NetInv, ChargeInv, CopiesInv, NEW q \in net, Serve(q) \/ Disconnect(q)
  PROVE  /\ TypeOK' /\ Grown /\ UNCHANGED <<tasks, detail, queue, told>>
         /\ \A w \in Slots : Exists(w)' <=> Exists(w)
         /\ \E r : Moves(q, r) /\ Charging(q, r)
<1> USE DEF server
<1>0. /\ q \in Message /\ q.w \in Slots /\ q.kind \in Kinds \cup {"load"} /\ net \subseteq Message
      /\ q.pc \in {"sent", "charge", "write", "reply"} /\ q.ok \in BOOLEAN
      /\ q.executed \in BOOLEAN
      /\ q.kind \in Kinds => Exists(q.w)
      /\ q.pc \in {"charge", "write"} => q.kind = "approve"
      /\ provider.terminal \in BOOLEAN /\ provider.captured \in BOOLEAN
  BY MessageFacts DEF TypeOK, NetInv
<1>a. /\ UNCHANGED rows => Grown /\ \A w \in Slots : Exists(w)' <=> Exists(w)
      /\ UNCHANGED rows => rows' \in [Slots -> Row \cup {NoRow}]
  BY DEF Grown, Exists, TypeOK
<1>b. \A r \in Message : net' = (net \ {q}) \cup {r} => net' \subseteq Message
  BY <1>0
<1>c. UNCHANGED rows => \A w \in Slots : q.data[w].ver <= rows'[w].ver
  BY <1>a, DataKept
<1>1. CASE ServeLoad(q)
  <2> DEFINE r == [q EXCEPT !.pc = "reply", !.ok = TRUE, !.data = Answered(q)]
  <2>1. /\ Answered(q) \in [Slots -> Row]
        /\ \A w \in Slots : Answered(q)[w].ver <= rows[w].ver
    BY RowFacts, ConstantFacts DEF Answered
  <2>2. /\ q.kind = "load" /\ q.pc = "sent" /\ net' = (net \ {q}) \cup {r}
        /\ UNCHANGED <<rows, provider, trail, told, tasks, detail, queue, clicks, faults>>
    BY <1>1 DEF ServeLoad, Step
  <2>3. /\ r \in Message /\ SameRequest(q, r) /\ r.pc = "reply" /\ r.ok /\ r.data = Answered(q)
    BY <1>0, <2>1, LoadFacts
  <2>4. r.executed = q.executed
    BY <1>0 DEF Message
  <2> HIDE DEF r
  <2>5. r.kind = "load"
    BY <2>2, <2>3 DEF SameRequest
  <2>6. Moves(q, r)
    BY <2>1, <2>2, <2>3, <2>5, KindFacts DEF Moves
  <2>7. Charging(q, r)
    BY <1>0, <2>2, <2>3, <2>4, <2>5 DEF Charging, Dispatch
  <2>8. TypeOK'
    BY <1>b, <2>2, <2>3 DEF TypeOK
  <2>9. QED
    BY <1>a, <2>2, <2>6, <2>7, <2>8
<1>2. CASE ApproveWorkflow(q)
  <2> DEFINE a == ActionToExecute(q)
             c == [q EXCEPT !.pc = "charge", !.action = a]
  <2>1. /\ q.kind = "approve" /\ q.pc = "sent"
        /\ UNCHANGED <<rows, provider, trail, told, tasks, detail, queue, clicks>>
        /\ IF OptOut /\ a = "PAYMENT_LINK"
           THEN Answer(q, FALSE) /\ UNCHANGED faults
           ELSE \/ /\ Step(q, IF provider.captured
                               THEN [c EXCEPT !.pc = "write", !.executed = TRUE]
                               ELSE c)
                   /\ UNCHANGED faults
                \/ Fault /\ Step(q, [c EXCEPT !.pc = "write"])
    BY <1>2 DEF ApproveWorkflow
  <2>2. a \in Strategy \cup {NoAction}
    BY ActionFacts
  <2> HIDE DEF a
  <2>3. CASE Answer(q, FALSE) /\ UNCHANGED faults
    <3> DEFINE r == [q EXCEPT !.pc = "reply", !.executed = FALSE, !.action = NoAction,
                              !.ok = FALSE]
    <3>1. net' = (net \ {q}) \cup {r}
      BY <2>3 DEF Answer, Step
    <3>2. r \in Message /\ SameRequest(q, r) /\ r.pc = "reply" /\ ~r.ok /\ r.data = q.data
      BY <1>0, AnswerFacts
    <3>3. ~r.executed
      BY <1>0 DEF Message
    <3> HIDE DEF r
    <3>4. Moves(q, r)
      BY <1>c, <2>1, <3>1, <3>2 DEF Moves
    <3>5. Charging(q, r)
      BY <2>1, <2>3, <3>2, <3>3 DEF Charging, Dispatch
    <3>6. TypeOK'
      BY <1>b, <2>1, <2>3, <3>1, <3>2 DEF TypeOK
    <3>7. QED
      BY <1>a, <2>1, <3>4, <3>5, <3>6
  <2>4. ASSUME NEW r, Step(q, r), r \in Message, SameRequest(q, r), r.data = q.data,
               r.pc \in {"charge", "write"}, r.pc = "charge" => ~provider.captured,
               r.executed => q.executed \/ provider.captured,
               faults' \in {faults, faults + 1}, faults' \in 0..MaxFaults
        PROVE  /\ TypeOK' /\ Grown /\ UNCHANGED <<tasks, detail, queue, told>>
               /\ \A w \in Slots : Exists(w)' <=> Exists(w)
               /\ \E o : Moves(q, o) /\ Charging(q, o)
    <3>1. net' = (net \ {q}) \cup {r} /\ r.kind = "approve"
      BY <2>1, <2>4 DEF Step, SameRequest
    <3>2. Moves(q, r)
      BY <1>c, <2>1, <2>4, <3>1 DEF Moves
    <3>3. Charging(q, r)
      BY <2>1, <2>4 DEF Charging, Dispatch
    <3>4. TypeOK'
      BY <1>b, <2>1, <2>4, <3>1 DEF TypeOK
    <3>5. QED
      BY <1>a, <2>1, <3>2, <3>3, <3>4
  <2>5. CASE /\ Step(q, IF provider.captured THEN [c EXCEPT !.pc = "write", !.executed = TRUE]
                         ELSE c)
             /\ UNCHANGED faults
    <3>1. faults' \in {faults, faults + 1} /\ faults' \in 0..MaxFaults
      BY <2>5 DEF TypeOK
    <3>2. CASE provider.captured
      <4> DEFINE r == [c EXCEPT !.pc = "write", !.executed = TRUE]
      <4>1. /\ r \in Message /\ SameRequest(q, r) /\ r.pc = "write" /\ r.data = q.data
        BY <1>0, <2>2 DEF Message, SameRequest
      <4>2. Step(q, r)
        BY <2>5, <3>2
      <4> HIDE DEF r, c
      <4>3. QED
        BY <2>4, <3>1, <3>2, <4>1, <4>2
    <3>3. CASE ~provider.captured
      <4>1. /\ c \in Message /\ SameRequest(q, c) /\ c.pc = "charge" /\ c.data = q.data
            /\ c.executed = q.executed
        BY <1>0, <2>2 DEF Message, SameRequest
      <4>2. Step(q, c)
        BY <2>5, <3>3
      <4> HIDE DEF c
      <4>3. QED
        BY <2>4, <3>1, <3>3, <4>1, <4>2
    <3>4. QED
      BY <3>2, <3>3
  <2>6. CASE Fault /\ Step(q, [c EXCEPT !.pc = "write"])
    <3> DEFINE r == [c EXCEPT !.pc = "write"]
    <3>1. faults' \in {faults, faults + 1} /\ faults' \in 0..MaxFaults
      BY <2>6, FaultFacts
    <3>2. /\ r \in Message /\ SameRequest(q, r) /\ r.pc = "write" /\ r.data = q.data
          /\ r.executed = q.executed
      BY <1>0, <2>2 DEF Message, SameRequest
    <3>3. Step(q, r)
      BY <2>6
    <3> HIDE DEF r, c
    <3>4. QED
      BY <2>4, <3>1, <3>2, <3>3
  <2>7. QED
    BY <2>1, <2>3, <2>5, <2>6
<1>3. CASE ApproveCharge(q)
  <2>1. /\ q.pc = "charge" /\ q.kind = "approve"
        /\ UNCHANGED <<rows, trail, told, tasks, detail, queue, clicks>>
    BY <1>0, <1>3 DEF ApproveCharge
  <2>2. ASSUME NEW r, Step(q, r), r \in Message, SameRequest(q, r), r.data = q.data,
               r.pc = "write", Attempt(q) \/ UNCHANGED provider,
               r.executed => q.executed \/ provider'.captured,
               faults' \in {faults, faults + 1}, faults' \in 0..MaxFaults
        PROVE  /\ TypeOK' /\ Grown /\ UNCHANGED <<tasks, detail, queue, told>>
               /\ \A w \in Slots : Exists(w)' <=> Exists(w)
               /\ \E o : Moves(q, o) /\ Charging(q, o)
    <3>1. net' = (net \ {q}) \cup {r} /\ r.kind = "approve"
      BY <2>1, <2>2 DEF Step, SameRequest
    <3>2. Moves(q, r)
      BY <1>c, <2>1, <2>2, <3>1 DEF Moves
    <3>3. Charging(q, r)
      BY <2>1, <2>2 DEF Charging, Dispatch
    <3>4. provider' \in [captured : BOOLEAN, terminal : BOOLEAN, byDetail : Nat]
      BY <2>2, AttemptFacts DEF TypeOK
    <3>5. TypeOK'
      BY <1>b, <2>1, <2>2, <3>1, <3>4 DEF TypeOK
    <3>6. QED
      BY <1>a, <2>1, <3>2, <3>3, <3>5
  <2>3. CASE /\ Attempt(q)
             /\ Step(q, [q EXCEPT !.pc = "write", !.executed = ~provider.terminal])
             /\ UNCHANGED faults
    <3> DEFINE e == ~provider.terminal
               r == [q EXCEPT !.pc = "write", !.executed = e]
    <3>1. /\ r \in Message /\ SameRequest(q, r) /\ r.pc = "write" /\ r.data = q.data
          /\ r.executed = e
      BY <1>0 DEF Message, SameRequest
    <3>2. faults' \in {faults, faults + 1} /\ faults' \in 0..MaxFaults
      BY <2>3 DEF TypeOK
    <3>3. Step(q, r)
      BY <2>3
    <3>4. r.executed => provider'.captured
      BY <2>3, <3>1, AttemptFacts
    <3> HIDE DEF r
    <3>5. QED
      BY <2>2, <2>3, <3>1, <3>2, <3>3, <3>4
  <2>4. CASE Fault /\ (Attempt(q) \/ UNCHANGED provider) /\ Step(q, [q EXCEPT !.pc = "write"])
    <3> DEFINE r == [q EXCEPT !.pc = "write"]
    <3>1. /\ r \in Message /\ SameRequest(q, r) /\ r.pc = "write" /\ r.data = q.data
          /\ r.executed = q.executed
      BY <1>0 DEF Message, SameRequest
    <3>2. faults' \in {faults, faults + 1} /\ faults' \in 0..MaxFaults
      BY <2>4, FaultFacts
    <3>3. Step(q, r)
      BY <2>4
    <3> HIDE DEF r
    <3>4. QED
      BY <2>2, <2>4, <3>1, <3>2, <3>3
  <2>5. QED
    BY <1>3, <2>3, <2>4 DEF ApproveCharge
<1>4. CASE ApproveWrite(q)
  <2> DEFINE r == [q EXCEPT !.pc = "reply", !.executed = FALSE, !.action = NoAction,
                            !.ok = TRUE, !.data[q.w].ver = rows'[q.w].ver]
             status == IF q.executed THEN "executed" ELSE "failed"
  <2>1. /\ q.pc = "write" /\ q.kind = "approve" /\ Exists(q.w) /\ net' = (net \ {q}) \cup {r}
        /\ UNCHANGED <<provider, told, tasks, detail, queue, clicks>>
    BY <1>0, <1>4, KindFacts DEF ApproveWrite, Step
  <2>2. PICK recorded \in BOOLEAN, updated \in BOOLEAN :
          /\ IF recorded /\ updated THEN UNCHANGED faults ELSE Fault
          /\ trail' = IF recorded THEN [trail EXCEPT ![status] = @ + 1] ELSE trail
          /\ IF updated THEN Write(q.w, "SCHEDULED", q.action) ELSE UNCHANGED rows
    BY <1>4 DEF ApproveWrite
  <2>3. /\ rows' \in [Slots -> Row \cup {NoRow}] /\ Grown
        /\ \A w \in Slots : Exists(w)' <=> Exists(w)
    <3>1. CASE Write(q.w, "SCHEDULED", q.action)
      <4>1. q.action \in Strategy \cup {NoAction} /\ "SCHEDULED" \in WorkflowStatus
        BY MessageFacts DEF WorkflowStatus
      <4>2. rows' \in [Slots -> Row \cup {NoRow}] /\ Grown
        BY <1>0, <3>1, <4>1, WriteFacts DEF Grown
      <4>3. \A w \in Slots : Exists(w)' <=> Exists(w)
        BY <1>0, <2>1, <3>1, <4>1, WriteKeepsExists
      <4>4. QED
        BY <4>2, <4>3
    <3>2. QED
      BY <1>a, <2>2, <3>1
  <2>4. /\ faults' \in {faults, faults + 1} /\ faults' \in 0..MaxFaults
        /\ ~recorded => faults' = faults + 1
    BY <2>2, FaultFacts DEF TypeOK
  <2>5. /\ \/ UNCHANGED trail /\ faults' = faults + 1
           \/ provider.captured /\ trail' = [trail EXCEPT !.executed = @ + 1]
           \/ trail' = [trail EXCEPT !.failed = @ + 1]
        /\ trail' \in [executed : Nat, failed : Nat]
    <3>1. CASE ~recorded
      BY <2>2, <2>4, <3>1 DEF TypeOK
    <3>2. CASE recorded /\ q.executed
      <4>1. provider.captured
        BY <3>2 DEF ChargeInv
      <4>2. trail' = [trail EXCEPT !.executed = @ + 1]
        BY <2>2, <3>2
      <4>3. QED
        BY <4>1, <4>2, TrailFacts
    <3>3. CASE recorded /\ ~q.executed
      <4>1. trail' = [trail EXCEPT !.failed = @ + 1]
        BY <2>2, <3>3
      <4>2. QED
        BY <4>1, TrailFacts
    <3>4. QED
      BY <1>0, <3>1, <3>2, <3>3
  <2>6. rows'[q.w].ver \in Nat
    BY <1>0, <2>3, ConstantFacts DEF Row
  <2>7. /\ r \in Message /\ SameRequest(q, r) /\ r.pc = "reply" /\ r.ok
        /\ r.data[q.w].ver = rows'[q.w].ver
        /\ \A v \in Slots : v # q.w => r.data[v] = q.data[v]
    <3>1. PICK n \in Nat : n = rows'[q.w].ver
      BY <2>6
    <3>2. r = [q EXCEPT !.pc = "reply", !.executed = FALSE, !.action = NoAction,
                        !.ok = TRUE, !.data[q.w].ver = n]
      BY <3>1
    <3> HIDE DEF r
    <3>3. Versioned(q, r, n)
      BY <1>0, <3>2, VersionFacts
    <3>4. QED
      BY <3>1, <3>3 DEF Versioned
  <2>8. ~r.executed
    BY <1>0 DEF Message
  <2> HIDE DEF r, status
  <2>9. r.kind = "approve"
    BY <2>1, <2>7 DEF SameRequest
  <2>10. \A w \in Slots : r.data[w].ver <= rows'[w].ver
    BY <2>3, <2>6, <2>7, DataKept
  <2>11. Moves(q, r)
    BY <2>1, <2>7, <2>9, <2>10 DEF Moves
  <2>12. Charging(q, r)
    BY <2>1, <2>4, <2>5, <2>7, <2>8 DEF Charging
  <2>13. TypeOK'
    BY <1>b, <2>1, <2>3, <2>4, <2>5, <2>7 DEF TypeOK
  <2>14. QED
    BY <2>1, <2>3, <2>11, <2>12, <2>13
<1>5. CASE RejectWorkflow(q)
  <2>1. /\ q.pc = "sent" /\ q.kind = "reject" /\ Exists(q.w)
        /\ UNCHANGED <<provider, trail, told, tasks, detail, queue, clicks>>
    BY <1>0, <1>5, KindFacts DEF RejectWorkflow
  <2>2. CASE /\ Write(q.w, "HALTED", rows[q.w].action)
             /\ Step(q, [q EXCEPT !.pc = "reply", !.ok = TRUE, !.data[q.w].ver = rows'[q.w].ver])
             /\ UNCHANGED faults
    <3> DEFINE r == [q EXCEPT !.pc = "reply", !.ok = TRUE, !.data[q.w].ver = rows'[q.w].ver]
    <3>1. net' = (net \ {q}) \cup {r}
      BY <2>2 DEF Step
    <3>2. rows[q.w].action \in Strategy \cup {NoAction} /\ "HALTED" \in WorkflowStatus
      BY <1>0, RowFacts DEF WorkflowStatus
    <3>3. rows' \in [Slots -> Row \cup {NoRow}] /\ Grown
      BY <1>0, <2>2, <3>2, WriteFacts DEF Grown
    <3>4. \A w \in Slots : Exists(w)' <=> Exists(w)
      BY <1>0, <2>1, <2>2, <3>2, WriteKeepsExists
    <3>5. rows'[q.w].ver \in Nat
      BY <1>0, <3>3, ConstantFacts DEF Row
    <3>6. /\ r \in Message /\ SameRequest(q, r) /\ r.pc = "reply" /\ r.ok
          /\ r.data[q.w].ver = rows'[q.w].ver
          /\ \A v \in Slots : v # q.w => r.data[v] = q.data[v]
      <4>1. PICK n \in Nat : n = rows'[q.w].ver
        BY <3>5
      <4>2. r = [q EXCEPT !.pc = "reply", !.ok = TRUE, !.data[q.w].ver = n]
        BY <4>1
      <4> HIDE DEF r
      <4>3. Versioned(q, r, n)
        BY <1>0, <4>2, VersionFacts
      <4>4. QED
        BY <4>1, <4>3 DEF Versioned
    <3>7. r.executed = q.executed
      BY <1>0 DEF Message
    <3> HIDE DEF r
    <3>8. r.kind = "reject"
      BY <2>1, <3>6 DEF SameRequest
    <3>9. \A w \in Slots : r.data[w].ver <= rows'[w].ver
      BY <3>3, <3>5, <3>6, DataKept
    <3>10. Moves(q, r)
      BY <3>1, <3>6, <3>8, <3>9 DEF Moves
    <3>11. Charging(q, r)
      BY <2>1, <2>2, <3>6, <3>7, <3>8 DEF Charging, Dispatch
    <3>12. TypeOK'
      BY <1>b, <2>1, <2>2, <3>1, <3>3, <3>6 DEF TypeOK
    <3>13. QED
      BY <2>1, <3>3, <3>4, <3>10, <3>11, <3>12
  <2>3. CASE Fault /\ Answer(q, FALSE) /\ UNCHANGED rows
    <3> DEFINE r == [q EXCEPT !.pc = "reply", !.executed = FALSE, !.action = NoAction,
                              !.ok = FALSE]
    <3>1. net' = (net \ {q}) \cup {r}
      BY <2>3 DEF Answer, Step
    <3>2. r \in Message /\ SameRequest(q, r) /\ r.pc = "reply" /\ ~r.ok /\ r.data = q.data
      BY <1>0, AnswerFacts
    <3>3. ~r.executed
      BY <1>0 DEF Message
    <3> HIDE DEF r
    <3>4. faults' = faults + 1 /\ faults' \in 0..MaxFaults
      BY <2>3, FaultFacts
    <3>5. Moves(q, r)
      BY <1>c, <2>3, <3>1, <3>2 DEF Moves
    <3>6. Charging(q, r)
      BY <2>1, <3>2, <3>3, <3>4 DEF Charging
    <3>7. TypeOK'
      BY <1>b, <1>a, <2>1, <2>3, <3>1, <3>2, <3>4 DEF TypeOK
    <3>8. QED
      BY <1>a, <2>1, <2>3, <3>5, <3>6, <3>7
  <2>4. QED
    BY <1>5, <2>2, <2>3 DEF RejectWorkflow
<1>6. CASE Disconnect(q)
  <2> DEFINE r == [q EXCEPT !.pc = "reply", !.executed = FALSE, !.action = NoAction,
                            !.ok = FALSE]
  <2>1. /\ net' = (net \ {q}) \cup {r} /\ Fault
        /\ UNCHANGED <<rows, provider, trail, told, tasks, detail, queue, clicks>>
    BY <1>6 DEF Disconnect, Answer, Step
  <2>2. r \in Message /\ SameRequest(q, r) /\ r.pc = "reply" /\ ~r.ok /\ r.data = q.data
    BY <1>0, AnswerFacts
  <2>3. ~r.executed
    BY <1>0 DEF Message
  <2> HIDE DEF r
  <2>4. faults' = faults + 1 /\ faults' \in 0..MaxFaults
    BY <2>1, FaultFacts
  <2>5. Moves(q, r)
    BY <1>c, <2>1, <2>2 DEF Moves
  <2>6. Charging(q, r)
    BY <2>1, <2>2, <2>3, <2>4 DEF Charging
  <2>7. TypeOK'
    BY <1>b, <2>1, <2>2, <2>4 DEF TypeOK
  <2>8. QED
    BY <1>a, <2>1, <2>5, <2>6, <2>7
<1>7. QED
  BY <1>1, <1>2, <1>3, <1>4, <1>5, <1>6 DEF Serve
-----------------------------------------------------------------------------
(* Copies and counts.                                                      *)

(* What the detail page keeps.                                             *)
DetailPage == [w : {Absent} \cup Slots, view : View \cup {NoView},
               actionLoading : BOOLEAN, wrote : Nat]
QueuePage == [items : SUBSET Slots, actionLoadingId : {Absent} \cup Slots]

(* The fields of the pages.                                                *)
LEMMA PageFacts ==
  ASSUME TypeOK
  PROVE  /\ detail \in DetailPage /\ queue \in QueuePage
         /\ detail.w \in {Absent} \cup Slots /\ detail.view \in View \cup {NoView}
         /\ detail.wrote \in Nat /\ detail.view.ver \in Nat /\ detail.view.real \in BOOLEAN
         /\ detail.view.old \in BOOLEAN
         /\ detail.actionLoading \in BOOLEAN /\ queue.items \subseteq Slots
<1>1. /\ detail \in DetailPage /\ queue \in QueuePage
      /\ detail.w \in {Absent} \cup Slots /\ detail.view \in View \cup {NoView}
      /\ detail.wrote \in Nat /\ detail.actionLoading \in BOOLEAN /\ queue.items \subseteq Slots
  BY DEF TypeOK, DetailPage, QueuePage
<1>2. NoView.ver \in Nat /\ NoView.real \in BOOLEAN /\ NoView.old \in BOOLEAN
  BY DEF NoView
<1>3. \A x \in View : x.ver \in Nat /\ x.real \in BOOLEAN /\ x.old \in BOOLEAN
  BY DEF View
<1>4. QED
  BY <1>1, <1>2, <1>3

(* The copies a request has, after a step that leaves it and the version   *)
(* of the last decision alone.                                             *)
LEMMA RequestKept ==
  ASSUME TypeOK, Grown, CopiesInv, detail'.wrote = detail.wrote, NEW q \in net
  PROVE  RequestCopies(q)'
<1>1. RequestCopies(q)
  BY DEF CopiesInv
<1>2. \A w \in Slots : q.data[w].ver <= rows'[w].ver
  BY DataKept
<1>3. QED
  BY <1>1, <1>2 DEF RequestCopies

(* The copies the pages show, after a step that leaves the pages alone.    *)
LEMMA PagesKept ==
  ASSUME TypeOK, Grown, CopiesInv, UNCHANGED <<detail, queue>>
  PROVE  /\ (IF detail.w = Absent THEN detail.wrote = 0
             ELSE detail.wrote <= rows[detail.w].ver)'
         /\ (detail.view.real /\ ~detail.view.old => detail.view.ver >= detail.wrote)'
         /\ (\A w \in queue.items : Exists(w))'
<1>1. (IF detail.w = Absent THEN detail.wrote = 0 ELSE detail.wrote <= rows[detail.w].ver)'
  <2> SUFFICES ASSUME detail.w # Absent PROVE detail.wrote <= rows'[detail.w].ver
    BY DEF CopiesInv
  <2>1. detail.w \in Slots /\ detail.wrote \in Nat
    BY PageFacts
  <2>2. detail.wrote <= rows[detail.w].ver
    BY DEF CopiesInv
  <2>3. QED
    BY <2>1, <2>2, RowFacts, VersionsGrow
<1>2. (detail.view.real /\ ~detail.view.old => detail.view.ver >= detail.wrote)'
  BY DEF CopiesInv
<1>3. (\A w \in queue.items : Exists(w))'
  BY PageFacts, VersionsGrow DEF CopiesInv
<1>4. QED
  BY <1>1, <1>2, <1>3

(* The dispatched approvals can be counted.                                *)
LEMMA DispatchedFinite ==
  ASSUME IsFiniteSet(net)
  PROVE  IsFiniteSet(Dispatched) /\ Cardinality(Dispatched) \in Nat
BY FS_Subset, FS_CardinalityType DEF Dispatched

(* A step of the pages neither charges nor records: what is known of the   *)
(* requests that charge stays, and no dispatched approval gets lost.       *)
LEMMA ChargeKept ==
  ASSUME ChargeInv, UNCHANGED <<provider, trail, faults>>,
         \A o \in net' :
            \/ o.pc # "charge" /\ ~o.executed
            \/ \E p \in net : o.pc = p.pc /\ o.tab = p.tab /\ o.executed = p.executed,
         told' + Cardinality(Dispatched') = told + Cardinality(Dispatched)
  PROVE  ChargeInv'
<1>1. /\ (provider.captured => ~provider.terminal)'
      /\ (provider.byDetail > 0 => provider.captured)'
      /\ DetailCapturesOnce'
      /\ (trail.executed > 0 => provider.captured)'
  BY DEF ChargeInv, DetailCapturesOnce
<1>2. (\A q \in net : /\ q.pc = "charge" /\ q.tab = "detail" => provider.byDetail = 0
                      /\ q.executed => provider.captured)'
  BY DEF ChargeInv
<1>3. (~provider.captured => told + Cardinality(Dispatched) <= trail.failed + faults)'
  BY DEF ChargeInv
<1>4. QED
  BY <1>1, <1>2, <1>3 DEF ChargeInv

(* Steps that touch neither the pages nor their requests.                  *)
LEMMA RowsOnly ==
  ASSUME TypeOK, NetInv, CopiesInv, ChargeInv, Grown,
         UNCHANGED <<trail, told, detail, queue, net>>,
         UNCHANGED provider
           \/ (~provider.terminal /\ provider' = [provider EXCEPT !.captured = TRUE]),
         faults' = faults \/ faults' = faults + 1
  PROVE  NetInv' /\ CopiesInv' /\ ChargeInv'
<1>1. NetInv'
  <2>1. \A w \in Slots : Exists(w) => Exists(w)'
    BY VersionsGrow
  <2>2. Held' = Held
    BY DEF Held
  <2>3. detail.w \in {Absent} \cup Slots /\ \A q \in net : q.w \in Slots
    BY PageFacts, MessageFacts
  <2>4. QED
    BY <2>1, <2>2, <2>3 DEF NetInv
<1>2. CopiesInv'
  <2>1. \A q \in net : RequestCopies(q)'
    BY RequestKept
  <2>2. QED
    BY <2>1, PagesKept DEF CopiesInv
<1>3. ChargeInv'
  <2>1. Dispatched' = Dispatched
    BY DEF Dispatched
  <2>2. /\ provider'.terminal = provider.terminal /\ provider'.byDetail = provider.byDetail
        /\ provider.captured => provider'.captured
        /\ provider'.captured => ~provider'.terminal
    <3>1. CASE UNCHANGED provider
      BY <3>1 DEF ChargeInv
    <3>2. CASE ~provider.terminal /\ provider' = [provider EXCEPT !.captured = TRUE]
      BY <3>2 DEF TypeOK
    <3>3. QED
      BY <3>1, <3>2
  <2>3. /\ faults \in Nat /\ faults' \in Nat /\ faults <= faults' /\ trail.failed \in Nat
        /\ told \in Nat /\ Cardinality(Dispatched) \in Nat
    BY DispatchedFinite DEF TypeOK, NetInv
  <2>4. (~provider.captured => told + Cardinality(Dispatched) <= trail.failed + faults)'
    BY <2>1, <2>2, <2>3 DEF ChargeInv
  <2>5. QED
    BY <2>2, <2>4 DEF ChargeInv, DetailCapturesOnce
<1>4. QED
  BY <1>1, <1>2, <1>3

(* The requests after one was moved on.                                    *)
LEMMA MovedNet ==
  ASSUME TypeOK, NetInv, UNCHANGED detail, NEW q \in net, NEW r, Moves(q, r),
         \A w \in Slots : Exists(w)' <=> Exists(w)
  PROVE  NetInv'
<1>0. /\ net' = (net \ {q}) \cup {r} /\ r \in Message /\ r.id = q.id /\ r.tab = q.tab
      /\ r.kind = q.kind /\ r.w = q.w /\ r.holds = q.holds
      /\ r.pc \in {"charge", "write"} => r.kind = "approve"
  BY DEF Moves, SameRequest
<1>1. \A o \in net \ {q} : o.id # r.id /\ o # r
  BY <1>0 DEF NetInv
<1>2. IsFiniteSet(net')
  BY <1>0, FS_RemoveElement, FS_AddElement DEF NetInv
<1>3. \A o, p \in net' : o.id = p.id => o = p
  BY <1>0, <1>1 DEF NetInv
<1>4. ASSUME NEW o \in net'
      PROVE  /\ o.tab = "detail" => o.w = detail'.w
             /\ o.kind \in Kinds => o.holds /\ Exists(o.w)'
             /\ o.pc \in {"charge", "write"} => o.kind = "approve"
  <2>1. q.w \in Slots
    BY MessageFacts
  <2>2. CASE o = r
    BY <1>0, <2>1, <2>2 DEF NetInv
  <2>3. CASE o \in net
    BY <2>3, MessageFacts DEF NetInv
  <2>4. QED
    BY <1>0, <2>2, <2>3
<1>5. (detail.w # Absent => Exists(detail.w))'
  BY PageFacts DEF NetInv
<1>6. /\ (detail.actionLoading <=> Held # {})'
      /\ (\A o, p \in Held : o = p)'
  <2>1. CASE q \in Held
    <3>1. Held' = {r}
      BY <1>0, <2>1 DEF Held, NetInv
    <3>2. QED
      BY <2>1, <3>1 DEF NetInv
  <2>2. CASE q \notin Held
    <3>1. Held' = Held
      BY <1>0, <2>2 DEF Held
    <3>2. QED
      BY <3>1 DEF NetInv
  <2>3. QED
    BY <2>1, <2>2
<1>7. QED
  BY <1>2, <1>3, <1>4, <1>5, <1>6 DEF NetInv

(* The copies of a request that was moved on.                              *)
LEMMA MovedCopies ==
  ASSUME TypeOK, NetInv, CopiesInv, Grown, UNCHANGED <<detail, queue>>,
         NEW q \in net, NEW r, Moves(q, r)
  PROVE  CopiesInv'
<1>0. /\ net' = (net \ {q}) \cup {r} /\ r.tab = q.tab /\ r.kind = q.kind /\ r.w = q.w
      /\ q.w \in Slots
  BY MessageFacts DEF Moves, SameRequest
<1>1. \A o \in net : RequestCopies(o)'
  BY RequestKept
<1>2. RequestCopies(r)'
  <2>1. ASSUME r.kind = "load", r.ok, r.tab = "detail"
        PROVE  r.data[r.w].ver >= detail'.wrote
    <3>1. r.data[r.w] = rows[r.w]
      BY <1>0, <2>1 DEF Moves, Answered
    <3>2. detail.wrote <= rows[r.w].ver
      BY <1>0, <2>1, ConstantFacts DEF NetInv, CopiesInv
    <3>3. detail.wrote \in Nat /\ rows[r.w].ver \in Nat
      BY <1>0, PageFacts, RowFacts
    <3>4. QED
      BY <3>1, <3>2, <3>3
  <2>2. \A w \in Slots : r.data[w].ver <= rows'[w].ver
    BY DEF Moves
  <2>3. QED
    BY <2>1, <2>2 DEF RequestCopies
<1>3. QED
  BY <1>0, <1>1, <1>2, PagesKept DEF CopiesInv

(* The charges after a request was moved on: only the request the handler  *)
(* of the detail page waits for charges for this page.                     *)
LEMMA MovedCharges ==
  ASSUME TypeOK, NetInv, ChargeInv, UNCHANGED told,
         NEW q \in net, NEW r, Moves(q, r), Charging(q, r)
  PROVE  ChargeInv'
<1>0. /\ net' = (net \ {q}) \cup {r} /\ r.tab = q.tab
      /\ provider.terminal \in BOOLEAN /\ provider.captured \in BOOLEAN
      /\ provider.byDetail \in Nat
  BY DEF Moves, SameRequest, TypeOK
<1>2. /\ provider'.terminal = provider.terminal
      /\ provider.captured => provider'.captured
      /\ provider'.captured => ~provider'.terminal
      /\ provider'.byDetail > 0 => provider'.captured
      /\ DetailCapturesOnce'
      /\ provider'.byDetail # provider.byDetail => q.pc = "charge" /\ q.tab = "detail"
  <2>1. CASE UNCHANGED provider
    BY <2>1 DEF ChargeInv, DetailCapturesOnce
  <2>2. CASE q.pc = "charge" /\ Attempt(q)
    <3>1. /\ provider'.terminal = provider.terminal
          /\ provider'.captured <=> ~provider.terminal
          /\ provider'.byDetail = provider.byDetail
               \/ (q.tab = "detail" /\ ~provider.terminal
                     /\ provider'.byDetail = provider.byDetail + 1)
      BY <2>2, AttemptFacts
    <3>2. CASE provider'.byDetail = provider.byDetail
      BY <1>0, <3>1, <3>2 DEF ChargeInv, DetailCapturesOnce
    <3>3. CASE /\ q.tab = "detail" /\ ~provider.terminal
               /\ provider'.byDetail = provider.byDetail + 1
      <4>1. provider.byDetail = 0
        BY <2>2, <3>3 DEF ChargeInv
      <4>2. provider'.byDetail = 1 /\ provider'.captured
        BY <3>1, <3>3, <4>1
      <4>3. ~provider'.terminal
        BY <3>1, <3>3
      <4>4. QED
        BY <2>2, <3>1, <3>3, <4>2, <4>3 DEF DetailCapturesOnce
    <3>4. QED
      BY <3>1, <3>2, <3>3
  <2>3. QED
    BY <2>1, <2>2 DEF Charging
<1>3. ASSUME NEW o \in net'
      PROVE  /\ o.pc = "charge" /\ o.tab = "detail" => provider'.byDetail = 0
             /\ o.executed => provider'.captured
  <2>1. CASE o = r
    <3>1. r.pc = "charge" => provider'.byDetail = 0
      BY <1>0, <1>2 DEF Charging, ChargeInv
    <3>2. r.executed => provider'.captured
      BY <1>2 DEF Charging, ChargeInv
    <3>3. QED
      BY <2>1, <3>1, <3>2
  <2>2. CASE o \in net /\ o # q
    <3>1. o.executed => provider'.captured
      BY <1>2, <2>2 DEF ChargeInv
    <3>2. ASSUME o.pc = "charge", o.tab = "detail"
          PROVE  provider'.byDetail = 0
      <4>1. o \in Held
        BY <2>2, <3>2 DEF NetInv, Held, Kinds
      <4>2. q.pc = "charge" /\ q.tab = "detail" => q \in Held
        BY DEF NetInv, Held, Kinds
      <4>3. ~(q.pc = "charge" /\ q.tab = "detail")
        BY <2>2, <4>1, <4>2 DEF NetInv
      <4>4. QED
        BY <1>2, <2>2, <3>2, <4>3 DEF ChargeInv
    <3>3. QED
      BY <3>1, <3>2
  <2>3. QED
    BY <1>0, <2>1, <2>2
<1>4. trail'.executed > 0 => provider'.captured
  <2>1. CASE UNCHANGED trail
    BY <1>2, <2>1 DEF ChargeInv
  <2>2. CASE trail' = [trail EXCEPT !.failed = @ + 1]
    BY <1>2, <2>2, TrailFacts DEF ChargeInv
  <2>3. CASE provider.captured
    BY <1>2, <2>3
  <2>4. QED
    BY <2>1, <2>2, <2>3 DEF Charging
<1>5. /\ Cardinality(Dispatched') \in Nat
      /\ Cardinality(Dispatched') <= Cardinality(Dispatched) + 1
      /\ ~Dispatch(r) => Cardinality(Dispatched') <= Cardinality(Dispatched)
  <2> DEFINE D == Dispatched
             E == D \ {q}
  <2>1. D' = E \cup (IF Dispatch(r) THEN {r} ELSE {})
    BY <1>0 DEF Dispatched, Dispatch
  <2>2. IsFiniteSet(D) /\ Cardinality(D) \in Nat
    BY DispatchedFinite DEF NetInv
  <2> HIDE DEF D
  <2>3. IsFiniteSet(E) /\ Cardinality(E) \in Nat /\ Cardinality(E) <= Cardinality(D)
    <3>1. E \subseteq D
      OBVIOUS
    <3>2. QED
      BY <2>2, <3>1, FS_Subset, FS_CardinalityType
  <2> HIDE DEF E
  <2>4. ~Dispatch(r) => D' = E
    BY <2>1
  <2>5. Dispatch(r) => /\ Cardinality(D') \in Nat
                       /\ Cardinality(D') <= Cardinality(E) + 1
    <3>1. Dispatch(r) => D' = E \cup {r}
      BY <2>1
    <3>2. /\ Cardinality(E \cup {r}) = Cardinality(E)
               \/ Cardinality(E \cup {r}) = Cardinality(E) + 1
      BY <2>3, FS_AddElement
    <3>3. QED
      BY <2>3, <3>1, <3>2
  <2>6. QED
    BY <2>2, <2>3, <2>4, <2>5 DEF D
<1>6. ~provider'.captured => told' + Cardinality(Dispatched') <= trail'.failed + faults'
  <2> SUFFICES ASSUME ~provider'.captured
               PROVE  told + Cardinality(Dispatched') <= trail'.failed + faults'
    OBVIOUS
  <2> DEFINE m == Cardinality(Dispatched)
             n == Cardinality(Dispatched')
  <2>1. /\ told + m <= trail.failed + faults /\ ~provider.captured
        /\ told \in Nat /\ trail.failed \in Nat /\ faults \in Nat /\ m \in Nat
    BY <1>2, DispatchedFinite DEF ChargeInv, TypeOK, NetInv
  <2>2. n \in Nat /\ n <= m + 1 /\ (~Dispatch(r) => n <= m)
    BY <1>5
  <2>3. faults' \in {faults, faults + 1}
    BY DEF Charging
  <2> HIDE DEF m, n
  <2>4. CASE UNCHANGED trail /\ ~Dispatch(r)
    <3>1. told + n <= trail.failed + faults'
      BY <2>1, <2>2, <2>3, <2>4
    <3>2. QED
      BY <2>4, <3>1 DEF n
  <2>5. CASE UNCHANGED trail /\ faults' = faults + 1
    <3>1. told + n <= trail.failed + faults'
      BY <2>1, <2>2, <2>5
    <3>2. QED
      BY <2>5, <3>1 DEF n
  <2>6. CASE trail' = [trail EXCEPT !.failed = @ + 1]
    <3>1. trail'.failed = trail.failed + 1
      BY <2>6, TrailFacts
    <3>2. told + n <= trail'.failed + faults'
      BY <2>1, <2>2, <2>3, <3>1
    <3>3. QED
      BY <3>2 DEF n
  <2>7. QED
    BY <2>1, <2>4, <2>5, <2>6 DEF Charging
<1>7. QED
  BY <1>2, <1>3, <1>4, <1>6 DEF ChargeInv
-----------------------------------------------------------------------------
(* The operator.                                                           *)

(* A click on a button stays within its bound.                             *)
LEMMA ClickFacts ==
  ASSUME TypeOK
  PROVE  /\ clicks.loads < MaxLoads /\ Click("loads") =>
              clicks' \in [decisions : 0..MaxDecisions, loads : 0..MaxLoads]
         /\ clicks.decisions < MaxDecisions /\ Click("decisions") =>
              clicks' \in [decisions : 0..MaxDecisions, loads : 0..MaxLoads]
<1>1. /\ MaxLoads \in Nat /\ MaxDecisions \in Nat
      /\ clicks \in [decisions : 0..MaxDecisions, loads : 0..MaxLoads]
  BY ConsoleAssumption DEF TypeOK
<1>2. clicks.loads < MaxLoads => clicks.loads + 1 \in 0..MaxLoads
  BY <1>1
<1>3. clicks.decisions < MaxDecisions => clicks.decisions + 1 \in 0..MaxDecisions
  BY <1>1
<1>4. QED
  BY <1>1, <1>2, <1>3 DEF Click

(* A new request.                                                          *)
Issued(r) ==
  /\ r \in Message /\ (\A o \in net : o.id # r.id) /\ r.old = FALSE /\ r.pc = "sent"
  /\ r.executed = FALSE /\ \A w \in Slots : r.data[w].ver = 0
  /\ net' = net \cup {r}

(* The requests have numbers of their own after one more, and nothing was  *)
(* charged for it yet.                                                     *)
LEMMA IssuedNet ==
  ASSUME TypeOK, NetInv, ChargeInv, NEW r, Issued(r),
         UNCHANGED <<provider, trail, told, faults>>
  PROVE  /\ IsFiniteSet(net') /\ net' \subseteq Message
         /\ \A o, p \in net' : o.id = p.id => o = p
         /\ ChargeInv'
<1>1. IsFiniteSet(net') /\ net' \subseteq Message
  BY FS_AddElement DEF Issued, NetInv, TypeOK
<1>2. \A o, p \in net' : o.id = p.id => o = p
  BY DEF Issued, NetInv
<1>3. Dispatched' = Dispatched
  BY DEF Dispatched, Issued
<1>4. ChargeInv'
  BY <1>3, ChargeKept DEF Issued
<1>5. QED
  BY <1>1, <1>2, <1>4

(* The copies of the requests after one more that is not answered yet.     *)
LEMMA IssuedCopies ==
  ASSUME TypeOK, CopiesInv, NEW r, Issued(r), UNCHANGED rows, detail'.wrote = detail.wrote
  PROVE  \A o \in net' : RequestCopies(o)'
<1>1. Grown
  BY DEF Grown
<1>2. \A o \in net : RequestCopies(o)'
  BY <1>1, RequestKept
<1>3. RequestCopies(r)'
  BY RowFacts DEF Issued, RequestCopies
<1>4. QED
  BY <1>2, <1>3 DEF Issued

(* The whole of what is kept.                                              *)
Inv == TypeOK /\ WorkerInv /\ NetInv /\ ChargeInv /\ CopiesInv

(* The detail page after an EXCEPT.                                        *)
LEMMA DetailFacts ==
  ASSUME TypeOK
  PROVE  /\ \A w \in Slots : LET d == [detail EXCEPT !.w = w]
              IN /\ d \in DetailPage /\ d.w = w /\ d.view = detail.view
                 /\ d.actionLoading = detail.actionLoading /\ d.wrote = detail.wrote
         /\ \A b \in BOOLEAN : LET d == [detail EXCEPT !.actionLoading = b]
              IN /\ d \in DetailPage /\ d.w = detail.w /\ d.view = detail.view
                 /\ d.actionLoading = b /\ d.wrote = detail.wrote
BY DEF TypeOK, DetailPage

(* A load of the detail page.                                              *)
LEMMA LoadWorkflowKeeps ==
  ASSUME Inv, NEW w \in Slots, LoadWorkflow(w)
  PROVE  Inv'
<1> DEFINE r == Request("detail", "load", w, NoAction, FALSE)
<1> USE DEF Inv, server
<1>1. /\ Exists(w) /\ detail.w \in {Absent, w} /\ net' = net \cup {r}
      /\ detail' = [detail EXCEPT !.w = w]
      /\ clicks' \in [decisions : 0..MaxDecisions, loads : 0..MaxLoads]
      /\ UNCHANGED <<rows, provider, trail, told, tasks, queue, faults>>
  BY ClickFacts DEF LoadWorkflow, Issue
<1>2. /\ r \in Message /\ (\A o \in net : o.id # r.id) /\ r.tab = "detail" /\ r.kind = "load"
      /\ r.w = w /\ r.holds = FALSE /\ r.old = FALSE /\ r.pc = "sent" /\ r.executed = FALSE
      /\ \A v \in Slots : r.data[v].ver = 0
  BY RequestFacts, ConstantFacts DEF Request, Message
<1> HIDE DEF r
<1>3. Issued(r)
  BY <1>1, <1>2 DEF Issued
<1>4. /\ detail' \in DetailPage
      /\ detail'.w = w /\ detail'.view = detail.view
      /\ detail'.actionLoading = detail.actionLoading /\ detail'.wrote = detail.wrote
  BY <1>1, DetailFacts
<1>5. TypeOK'
  BY <1>1, <1>3, <1>4, IssuedNet DEF TypeOK, DetailPage
<1>6. WorkerInv'
  BY <1>1, WorkerKept DEF Exists
<1>7. NetInv'
  <2>1. Held' = Held
    BY <1>1, <1>2 DEF Held
  <2>2. \A o \in net : o.tab = "detail" => o.w = w
    BY <1>1, MessageFacts, ConstantFacts DEF NetInv
  <2>3. \A v \in Slots : Exists(v)' <=> Exists(v)
    BY <1>1 DEF Exists
  <2>4. \A o \in net' : /\ o.tab = "detail" => o.w = detail'.w
                        /\ o.kind \in Kinds => o.holds /\ Exists(o.w)'
                        /\ o.pc \in {"charge", "write"} => o.kind = "approve"
    BY <1>1, <1>2, <1>4, <2>2, <2>3, KindFacts, MessageFacts DEF NetInv
  <2>5. IsFiniteSet(net') /\ \A o, p \in net' : o.id = p.id => o = p
    BY <1>1, <1>3, IssuedNet
  <2>6. /\ (detail.w # Absent => Exists(detail.w))'
        /\ (detail.view # NoView => detail.w # Absent)'
    BY <1>1, <1>4, <2>3, ConstantFacts
  <2>7. /\ (detail.actionLoading => detail.view # NoView)'
        /\ (detail.actionLoading <=> Held # {})'
        /\ (\A o, p \in Held : o = p)'
    BY <1>4, <2>1 DEF NetInv
  <2>8. QED
    BY <2>4, <2>5, <2>6, <2>7 DEF NetInv
<1>8. CopiesInv'
  <2>1. \A o \in net' : RequestCopies(o)'
    BY <1>1, <1>3, <1>4, IssuedCopies
  <2>2. detail.wrote <= rows[w].ver
    <3>1. CASE detail.w = w
      BY <3>1, ConstantFacts DEF CopiesInv
    <3>2. CASE detail.w = Absent
      BY <3>2, RowFacts DEF CopiesInv
    <3>3. QED
      BY <1>1, <3>1, <3>2
  <2>3. QED
    BY <1>1, <1>4, <2>1, <2>2, ConstantFacts DEF CopiesInv, Exists
<1>9. ChargeInv'
  BY <1>1, <1>3, IssuedNet
<1>10. QED
  BY <1>5, <1>6, <1>7, <1>8, <1>9

(* A decision on the detail page: none is under way.                       *)
LEMMA HandleDecisionKeeps ==
  ASSUME Inv, NEW kind \in Kinds, NEW a \in Strategy \cup {NoAction}, HandleDecision(kind, a)
  PROVE  Inv'
<1> DEFINE r == Request("detail", kind, detail.w, a, TRUE)
<1> USE DEF Inv, server
<1>1. /\ detail.view # NoView /\ ~detail.actionLoading
      /\ detail' = [detail EXCEPT !.actionLoading = TRUE] /\ net' = net \cup {r}
      /\ clicks' \in [decisions : 0..MaxDecisions, loads : 0..MaxLoads]
      /\ UNCHANGED <<rows, provider, trail, told, tasks, queue, faults>>
  BY ClickFacts DEF HandleDecision, Issue, DecisionOffered, HubOffered
<1>2. detail.w \in Slots /\ Exists(detail.w)
  BY <1>1, PageFacts DEF NetInv
<1>3. /\ r \in Message /\ (\A o \in net : o.id # r.id) /\ r.tab = "detail" /\ r.kind = kind
      /\ r.w = detail.w /\ r.holds = TRUE /\ r.old = FALSE /\ r.pc = "sent"
      /\ r.executed = FALSE /\ \A v \in Slots : r.data[v].ver = 0
  BY <1>2, RequestFacts, ConstantFacts DEF Request, Message
<1> HIDE DEF r
<1>4. Issued(r)
  BY <1>1, <1>3 DEF Issued
<1>5. /\ detail' \in DetailPage
      /\ detail'.w = detail.w /\ detail'.view = detail.view
      /\ detail'.actionLoading = TRUE /\ detail'.wrote = detail.wrote
  BY <1>1, DetailFacts
<1>6. TypeOK'
  BY <1>1, <1>4, <1>5, IssuedNet DEF TypeOK, DetailPage
<1>7. WorkerInv'
  BY <1>1, WorkerKept DEF Exists
<1>8. NetInv'
  <2>1. Held' = {r}
    BY <1>1, <1>3 DEF Held, NetInv
  <2>2. \A v \in Slots : Exists(v)' <=> Exists(v)
    BY <1>1 DEF Exists
  <2>3. \A o \in net' : /\ o.tab = "detail" => o.w = detail'.w
                        /\ o.kind \in Kinds => o.holds /\ Exists(o.w)'
                        /\ o.pc \in {"charge", "write"} => o.kind = "approve"
    BY <1>1, <1>2, <1>3, <1>5, <2>2, MessageFacts DEF NetInv
  <2>4. IsFiniteSet(net') /\ \A o, p \in net' : o.id = p.id => o = p
    BY <1>1, <1>4, IssuedNet
  <2>5. /\ (detail.w # Absent => Exists(detail.w))'
        /\ (detail.view # NoView => detail.w # Absent)'
    BY <1>2, <1>5, <2>2 DEF NetInv
  <2>6. /\ (detail.actionLoading => detail.view # NoView)'
        /\ (detail.actionLoading <=> Held # {})'
        /\ (\A o, p \in Held : o = p)'
    BY <1>1, <1>5, <2>1
  <2>7. QED
    BY <2>3, <2>4, <2>5, <2>6 DEF NetInv
<1>9. CopiesInv'
  <2>1. \A o \in net' : RequestCopies(o)'
    BY <1>1, <1>4, <1>5, IssuedCopies
  <2>2. QED
    BY <1>1, <1>5, <2>1 DEF CopiesInv, Exists
<1>10. ChargeInv'
  BY <1>1, <1>4, IssuedNet
<1>11. QED
  BY <1>6, <1>7, <1>8, <1>9, <1>10

(* A request of the queue page, which holds none of the detail page.       *)
LEMMA QueueRequest ==
  ASSUME Inv, NEW r, Issued(r), r.tab = "queue", r.kind \in Kinds => r.holds /\ Exists(r.w),
         r.w \in Slots,
         clicks' \in [decisions : 0..MaxDecisions, loads : 0..MaxLoads],
         queue' \in QueuePage, queue'.items = queue.items,
         UNCHANGED <<rows, provider, trail, told, tasks, detail, faults>>
  PROVE  Inv'
<1> USE DEF Inv
<1>1. TypeOK'
  BY IssuedNet DEF TypeOK, QueuePage
<1>2. WorkerInv'
  BY WorkerKept DEF Exists
<1>3. NetInv'
  <2>1. Held' = Held
    BY DEF Held, Issued
  <2>2. \A v \in Slots : Exists(v)' <=> Exists(v)
    BY DEF Exists
  <2>3. \A o \in net' : /\ o.tab = "detail" => o.w = detail'.w
                        /\ o.kind \in Kinds => o.holds /\ Exists(o.w)'
                        /\ o.pc \in {"charge", "write"} => o.kind = "approve"
    BY <2>2, MessageFacts DEF NetInv, Issued
  <2>4. IsFiniteSet(net') /\ \A o, p \in net' : o.id = p.id => o = p
    BY IssuedNet
  <2>5. (detail.w # Absent => Exists(detail.w))'
    BY <2>2, PageFacts DEF NetInv
  <2>6. QED
    BY <2>1, <2>3, <2>4, <2>5 DEF NetInv
<1>4. CopiesInv'
  <2>1. \A o \in net' : RequestCopies(o)'
    BY IssuedCopies
  <2>2. QED
    BY <2>1 DEF CopiesInv, Exists
<1>5. ChargeInv'
  BY IssuedNet
<1>6. QED
  BY <1>1, <1>2, <1>3, <1>4, <1>5

(* A refresh of the queue page.                                            *)
LEMMA LoadDataKeeps ==
  ASSUME Inv, LoadData
  PROVE  Inv'
<1> DEFINE r == Request("queue", "load", 1, NoAction, FALSE)
<1> USE DEF Inv, server
<1>1. /\ net' = net \cup {r}
      /\ clicks' \in [decisions : 0..MaxDecisions, loads : 0..MaxLoads]
      /\ UNCHANGED <<rows, provider, trail, told, tasks, detail, queue, faults>>
  BY ClickFacts DEF LoadData, Issue
<1>2. /\ r \in Message /\ (\A o \in net : o.id # r.id) /\ r.tab = "queue" /\ r.kind = "load"
      /\ r.w = 1 /\ 1 \in Slots /\ r.old = FALSE /\ r.pc = "sent" /\ r.executed = FALSE
      /\ \A v \in Slots : r.data[v].ver = 0
  <2>1. 1 \in Slots
    BY ConsoleAssumption DEF Slots
  <2>2. QED
    BY <2>1, RequestFacts, ConstantFacts DEF Request, Message
<1> HIDE DEF r
<1>3. Issued(r)
  BY <1>1, <1>2 DEF Issued
<1>4. queue' \in QueuePage /\ queue'.items = queue.items
  BY <1>1, PageFacts
<1>5. QED
  BY <1>1, <1>2, <1>3, <1>4, QueueRequest, KindFacts

(* A decision on the queue page: its workflow exists.                      *)
LEMMA HandleInlineKeeps ==
  ASSUME Inv, NEW kind \in Kinds, NEW w \in Slots, HandleInline(kind, w)
  PROVE  Inv'
<1> DEFINE r == Request("queue", kind, w, NoAction, TRUE)
<1> USE DEF Inv, server
<1>1. /\ Listed(w) /\ net' = net \cup {r} /\ queue' = [queue EXCEPT !.actionLoadingId = w]
      /\ clicks' \in [decisions : 0..MaxDecisions, loads : 0..MaxLoads]
      /\ UNCHANGED <<rows, provider, trail, told, tasks, detail, faults>>
  BY ClickFacts DEF HandleInline, Issue, InlineOffered
<1>2. Exists(w)
  BY <1>1 DEF CopiesInv, Listed
<1>3. /\ r \in Message /\ (\A o \in net : o.id # r.id) /\ r.tab = "queue" /\ r.kind = kind
      /\ r.w = w /\ r.holds = TRUE /\ r.old = FALSE /\ r.pc = "sent" /\ r.executed = FALSE
      /\ \A v \in Slots : r.data[v].ver = 0
  BY RequestFacts, ConstantFacts DEF Request, Message
<1> HIDE DEF r
<1>4. Issued(r)
  BY <1>1, <1>3 DEF Issued
<1>5. queue' \in QueuePage /\ queue'.items = queue.items
  BY <1>1, PageFacts DEF QueuePage
<1>6. QED
  BY <1>1, <1>2, <1>3, <1>4, <1>5, QueueRequest

(* An override through the API.                                            *)
LEMMA OverrideKeeps ==
  ASSUME Inv, NEW w \in Slots, NEW a \in Strategy, OverrideWorkflow(w, a)
  PROVE  Inv'
<1> USE DEF Inv, server
<1>1. /\ Exists(w) /\ Write(w, "SCHEDULED", a)
      /\ clicks' \in [decisions : 0..MaxDecisions, loads : 0..MaxLoads]
      /\ UNCHANGED <<provider, trail, told, tasks, detail, queue, net, faults>>
  BY ClickFacts DEF OverrideWorkflow
<1>2. "SCHEDULED" \in WorkflowStatus /\ a \in Strategy \cup {NoAction}
  BY DEF WorkflowStatus
<1>3. rows' \in [Slots -> Row \cup {NoRow}] /\ Grown
  BY <1>1, <1>2, WriteFacts DEF Grown
<1>4. \A v \in Slots : Exists(v)' <=> Exists(v)
  BY <1>1, <1>2, WriteKeepsExists
<1>5. TypeOK'
  BY <1>1, <1>3 DEF TypeOK
<1>6. WorkerInv'
  BY <1>1, <1>4, WorkerKept
<1>7. NetInv' /\ CopiesInv' /\ ChargeInv'
  BY <1>1, <1>3, RowsOnly
<1>8. QED
  BY <1>5, <1>6, <1>7
-----------------------------------------------------------------------------
(* The answers.                                                            *)

(* The answer of q is taken, and the loads in R are sent.                  *)
Taken(q, R) ==
  /\ net' = (net \ {q}) \cup R
  /\ R = {} \/ \E r \in Message : R = {r} /\ \A o \in net : o.id # r.id
  /\ \A r \in R : /\ r.kind = "load" /\ r.pc = "sent" /\ r.old = FALSE /\ r.executed = FALSE
                  /\ \A w \in Slots : r.data[w].ver = 0

(* What a dispatched approval counts for moves from the requests to those  *)
(* the operator was told of.                                               *)
LEMMA ToldCount ==
  ASSUME TypeOK, NetInv, NEW q \in net, q.pc = "reply", Tell(q),
         Cardinality(Dispatched') = Cardinality(Dispatched \ {q})
  PROVE  /\ told' \in Nat
         /\ told' + Cardinality(Dispatched') = told + Cardinality(Dispatched)
<1>1. told \in Nat /\ IsFiniteSet(Dispatched) /\ Cardinality(Dispatched) \in Nat
  BY DispatchedFinite DEF TypeOK, NetInv
<1>2. CASE q \in Dispatched
  <2>1. told' = told + 1
    BY <1>2 DEF Tell, Dispatched
  <2>2. Cardinality(Dispatched') = Cardinality(Dispatched) - 1
    BY <1>1, <1>2, FS_RemoveElement
  <2>3. QED
    BY <1>1, <2>1, <2>2
<1>3. CASE q \notin Dispatched
  <2>1. told' = told
    BY <1>3 DEF Tell, Dispatched
  <2>2. Dispatched \ {q} = Dispatched
    BY <1>3
  <2>3. QED
    BY <1>1, <2>1, <2>2
<1>4. QED
  BY <1>2, <1>3

(* The requests after an answer was taken.                                 *)
LEMMA TakenNet ==
  ASSUME TypeOK, NetInv, CopiesInv, ChargeInv, NEW q \in net, q.pc = "reply",
         NEW R, Taken(q, R), Tell(q), UNCHANGED <<provider, trail, faults>>
  PROVE  /\ IsFiniteSet(net') /\ net' \subseteq Message
         /\ \A o, p \in net' : o.id = p.id => o = p
         /\ told' \in Nat /\ ChargeInv'
         /\ UNCHANGED rows /\ detail'.wrote = detail.wrote => \A o \in net' : RequestCopies(o)'
<1>1. IsFiniteSet(net \ {q}) /\ IsFiniteSet(R) /\ R \subseteq Message
  <2>1. IsFiniteSet(net \ {q})
    BY FS_RemoveElement DEF NetInv
  <2>2. R = {} \/ \E r \in Message : R = {r}
    BY DEF Taken
  <2>3. IsFiniteSet(R)
    BY <2>2, FS_Singleton, FS_EmptySet
  <2>4. QED
    BY <2>1, <2>2, <2>3
<1>2. IsFiniteSet(net') /\ net' \subseteq Message
  BY <1>1, FS_Union DEF Taken, TypeOK
<1>3. \A o, p \in net' : o.id = p.id => o = p
  BY DEF Taken, NetInv
<1>4. Dispatched' = Dispatched \ {q}
  BY DEF Taken, Dispatched
<1>5. told' \in Nat /\ told' + Cardinality(Dispatched') = told + Cardinality(Dispatched)
  BY <1>4, ToldCount
<1>6. ChargeInv'
  <2>1. \A o \in net' : o \in net \/ (o.pc # "charge" /\ ~o.executed)
    BY DEF Taken
  <2>2. QED
    BY <1>5, <2>1, ChargeKept
<1>7. ASSUME UNCHANGED rows, detail'.wrote = detail.wrote, NEW o \in net'
      PROVE  RequestCopies(o)'
  <2>1. Grown
    BY <1>7 DEF Grown
  <2>2. CASE o \in net
    BY <1>7, <2>1, <2>2, RequestKept
  <2>3. CASE o \in R
    BY <1>7, <2>3, RowFacts DEF Taken, RequestCopies
  <2>4. QED
    BY <1>7, <2>2, <2>3 DEF Taken
<1>8. QED
  BY <1>2, <1>3, <1>5, <1>6, <1>7

(* An answer that the queue page takes.                                    *)
LEMMA QueueTakes ==
  ASSUME Inv, NEW q \in net, q.tab = "queue", q.pc = "reply", Tell(q),
         NEW R, Taken(q, R), \A r \in R : r.tab = "queue",
         queue' \in QueuePage, \A w \in queue'.items : Exists(w),
         UNCHANGED <<rows, provider, trail, tasks, detail, clicks, faults>>
  PROVE  Inv'
<1> USE DEF Inv
<1>1. /\ IsFiniteSet(net') /\ net' \subseteq Message
      /\ \A o, p \in net' : o.id = p.id => o = p
      /\ told' \in Nat /\ ChargeInv'
      /\ \A o \in net' : RequestCopies(o)'
  BY TakenNet
<1>2. TypeOK'
  BY <1>1 DEF TypeOK, QueuePage
<1>3. WorkerInv'
  BY WorkerKept DEF Exists
<1>4. NetInv'
  <2>1. Held' = Held
    BY DEF Held, Taken
  <2>2. \A v \in Slots : Exists(v)' <=> Exists(v)
    BY DEF Exists
  <2>3. ASSUME NEW o \in net'
        PROVE  /\ o.tab = "detail" => o.w = detail'.w
               /\ o.kind \in Kinds => o.holds /\ Exists(o.w)'
               /\ o.pc \in {"charge", "write"} => o.kind = "approve"
    <3>1. CASE o \in net
      BY <2>2, <3>1, MessageFacts DEF NetInv
    <3>2. CASE o \in R
      BY <3>2, KindFacts DEF Taken
    <3>3. QED
      BY <3>1, <3>2 DEF Taken
  <2>4. (detail.w # Absent => Exists(detail.w))'
    BY <2>2, PageFacts DEF NetInv
  <2>5. QED
    BY <1>1, <2>1, <2>3, <2>4 DEF NetInv
<1>5. CopiesInv'
  BY <1>1 DEF CopiesInv, Exists
<1>6. QED
  BY <1>1, <1>2, <1>3, <1>4, <1>5

(* The list of the queue page is loaded.                                   *)
LEMMA LandDataKeeps ==
  ASSUME Inv, NEW q \in net, LandData(q)
  PROVE  Inv'
<1> USE DEF Inv, server
<1>1. /\ q.tab = "queue" /\ q.kind = "load" /\ q.pc = "reply" /\ net' = net \ {q}
      /\ queue' = [queue EXCEPT !.items = InterventionsOf(q),
                                !.actionLoadingId = IF q.holds THEN Absent ELSE @]
      /\ UNCHANGED <<rows, provider, trail, told, tasks, detail, clicks, faults>>
  BY DEF LandData
<1>2. Taken(q, {}) /\ Tell(q)
  BY <1>1 DEF Taken, Tell
<1>3. InterventionsOf(q) \subseteq Slots
  BY DEF InterventionsOf
<1>4. queue' \in QueuePage /\ queue'.items = InterventionsOf(q)
  BY <1>1, <1>3, PageFacts DEF QueuePage
<1>5. ASSUME NEW w \in InterventionsOf(q)
      PROVE  Exists(w)
  <2>1. w \in Slots /\ q.data[w].ver > 0
    BY DEF InterventionsOf
  <2>2. q.data[w].ver <= rows[w].ver /\ q.data[w].ver \in Nat
    BY <2>1, MessageFacts DEF CopiesInv, RequestCopies, Row
  <2>3. QED
    BY <2>1, <2>2, RowFacts DEF Exists
<1>6. QED
  BY <1>1, <1>2, <1>4, <1>5, QueueTakes

(* The end of a decision on the queue page.                                *)
LEMMA InlineAnsweredKeeps ==
  ASSUME Inv, NEW q \in net, InlineAnswered(q)
  PROVE  Inv'
<1> USE DEF Inv, server
<1>1. /\ q.tab = "queue" /\ q.kind \in Kinds /\ q.pc = "reply" /\ Tell(q)
      /\ UNCHANGED <<rows, provider, trail, tasks, detail, clicks, faults>>
  BY DEF InlineAnswered
<1>2. CASE q.ok
  <2> DEFINE r == Request("queue", "load", 1, NoAction, TRUE)
  <2>1. net' = (net \ {q}) \cup {r} /\ UNCHANGED queue
    BY <1>2 DEF InlineAnswered
  <2>2. /\ r \in Message /\ (\A o \in net : o.id # r.id) /\ r.tab = "queue" /\ r.kind = "load"
        /\ r.old = FALSE /\ r.pc = "sent" /\ r.executed = FALSE
        /\ \A v \in Slots : r.data[v].ver = 0
    <3>1. 1 \in Slots
      BY ConsoleAssumption DEF Slots
    <3>2. QED
      BY <3>1, RequestFacts, ConstantFacts DEF Request, Message
  <2> HIDE DEF r
  <2>3. Taken(q, {r})
    BY <2>1, <2>2 DEF Taken
  <2>4. queue' \in QueuePage /\ \A w \in queue'.items : Exists(w)
    BY <2>1, PageFacts DEF CopiesInv
  <2>5. QED
    BY <1>1, <2>2, <2>3, <2>4, QueueTakes
<1>3. CASE ~q.ok
  <2>1. net' = net \ {q} /\ queue' = [queue EXCEPT !.actionLoadingId = Absent]
    BY <1>3 DEF InlineAnswered
  <2>2. Taken(q, {})
    BY <2>1 DEF Taken
  <2>3. queue' \in QueuePage /\ queue'.items = queue.items
    BY <2>1, PageFacts DEF QueuePage
  <2>4. \A w \in queue'.items : Exists(w)
    BY <2>3 DEF CopiesInv
  <2>5. QED
    BY <1>1, <2>2, <2>3, <2>4, QueueTakes
<1>4. QED
  BY <1>2, <1>3

(* The view a load gives.                                                  *)
LEMMA DetailOfFacts ==
  ASSUME TypeOK, NEW q \in net
  PROVE  /\ DetailOf(q) \in View
         /\ q.ok => DetailOf(q).ver = q.data[q.w].ver /\ DetailOf(q).old = q.old
         /\ ~q.ok => ~DetailOf(q).real
<1>1. q.ok \in BOOLEAN /\ q.old \in BOOLEAN /\ q.data[q.w] \in Row
  BY MessageFacts
<1>2. CASE q.ok
  BY <1>1, <1>2 DEF DetailOf, View, Row
<1>3. CASE ~q.ok
  <2>1. [SyntheticDetail EXCEPT !.old = q.old] \in View
    BY <1>1, ConstantFacts DEF View
  <2>2. ~[SyntheticDetail EXCEPT !.old = q.old].real
    BY <1>1, ConstantFacts DEF View
  <2>3. QED
    BY <1>3, <2>1, <2>2 DEF DetailOf
<1>4. QED
  BY <1>1, <1>2, <1>3

(* What an answer of the detail page that starts no load leaves.           *)
LEMMA DetailTakes ==
  ASSUME Inv, NEW q \in net, q.tab = "detail", q.pc = "reply", Tell(q), Taken(q, {}),
         detail' \in DetailPage, detail'.w = detail.w, detail'.wrote = detail.wrote,
         detail'.actionLoading = (detail.actionLoading /\ ~q.holds),
         detail'.view = NoView => detail.view = NoView,
         detail'.view.real /\ ~detail'.view.old => detail'.view.ver >= detail.wrote,
         UNCHANGED <<rows, provider, trail, tasks, queue, clicks, faults>>
  PROVE  Inv'
<1> USE DEF Inv
<1>1. /\ IsFiniteSet(net') /\ net' \subseteq Message /\ net' = net \ {q}
      /\ \A o, p \in net' : o.id = p.id => o = p
      /\ told' \in Nat /\ ChargeInv'
      /\ \A o \in net' : RequestCopies(o)'
  <2>1. net' = net \ {q}
    BY DEF Taken
  <2>2. QED
    BY <2>1, TakenNet
<1>2. TypeOK'
  BY <1>1 DEF TypeOK, DetailPage
<1>3. WorkerInv'
  BY WorkerKept DEF Exists
<1>4. NetInv'
  <2>1. \A v \in Slots : Exists(v)' <=> Exists(v)
    BY DEF Exists
  <2>2. detail.w \in Slots
    BY MessageFacts DEF NetInv
  <2>3. \A o \in net' : /\ o.tab = "detail" => o.w = detail'.w
                        /\ o.kind \in Kinds => o.holds /\ Exists(o.w)'
                        /\ o.pc \in {"charge", "write"} => o.kind = "approve"
    BY <1>1, <2>1, MessageFacts DEF NetInv
  <2>4. /\ (detail.w # Absent => Exists(detail.w))'
        /\ (detail.view # NoView => detail.w # Absent)'
    BY <2>1, <2>2, ConstantFacts DEF NetInv
  <2>5. (detail.actionLoading => detail.view # NoView)'
    BY DEF NetInv
  <2>6. Held' = Held \ {q}
    BY <1>1 DEF Held
  <2>7. /\ (detail.actionLoading <=> Held # {})'
        /\ (\A o, p \in Held : o = p)'
    <3>1. q.holds \in BOOLEAN /\ detail.actionLoading \in BOOLEAN
      BY MessageFacts, PageFacts
    <3>2. CASE q.holds
      <4>1. q \in Held
        BY <3>2 DEF Held
      <4>2. Held' = {}
        BY <2>6, <4>1 DEF NetInv
      <4>3. QED
        BY <3>2, <4>2
    <3>3. CASE ~q.holds
      <4>1. Held' = Held
        BY <2>6, <3>3 DEF Held
      <4>2. QED
        BY <3>1, <3>3, <4>1 DEF NetInv
    <3>4. QED
      BY <3>1, <3>2, <3>3
  <2>8. QED
    BY <1>1, <2>3, <2>4, <2>5, <2>7 DEF NetInv
<1>5. CopiesInv'
  <2>1. (IF detail.w = Absent THEN detail.wrote = 0 ELSE detail.wrote <= rows[detail.w].ver)'
    BY DEF CopiesInv
  <2>2. QED
    BY <1>1, <2>1 DEF CopiesInv, Exists
<1>6. QED
  BY <1>1, <1>2, <1>3, <1>4, <1>5

(* A load of the detail page ends.                                         *)
LEMMA LandWorkflowKeeps ==
  ASSUME Inv, NEW q \in net, LandWorkflow(q)
  PROVE  Inv'
<1> USE DEF Inv, server
<1> DEFINE x == DetailOf(q)
<1>1. /\ q.tab = "detail" /\ q.kind = "load" /\ q.pc = "reply" /\ net' = net \ {q}
      /\ detail' = [detail EXCEPT !.view = x,
                                  !.actionLoading = detail.actionLoading /\ ~q.holds]
      /\ UNCHANGED <<rows, provider, trail, told, tasks, queue, clicks, faults>>
  BY DEF LandWorkflow
<1>2. Taken(q, {}) /\ Tell(q)
  BY <1>1 DEF Taken, Tell
<1>3. /\ x \in View
      /\ q.ok => x.ver = q.data[q.w].ver /\ x.old = q.old
      /\ ~q.ok => ~x.real
  BY DetailOfFacts
<1> HIDE DEF x
<1>4. detail.actionLoading \in BOOLEAN /\ q.holds \in BOOLEAN /\ q.ok \in BOOLEAN
  BY PageFacts, MessageFacts
<1>5. /\ detail' \in DetailPage
      /\ detail'.w = detail.w /\ detail'.wrote = detail.wrote /\ detail'.view = x
      /\ detail'.actionLoading = (detail.actionLoading /\ ~q.holds)
  BY <1>1, <1>3, <1>4, PageFacts DEF DetailPage
<1>6. x # NoView
  BY <1>3, ConstantFacts
<1>7. x.real /\ ~x.old => x.ver >= detail.wrote
  BY <1>1, <1>3, <1>4 DEF CopiesInv, RequestCopies
<1>8. QED
  BY <1>1, <1>2, <1>5, <1>6, <1>7, DetailTakes

(* A request after the page has had news of a decision.                    *)
Aged(o) == [o EXCEPT !.old = (o.tab = "detail")]

LEMMA AgedFacts ==
  ASSUME NEW o \in Message
  PROVE  /\ Aged(o) \in Message /\ Aged(o).id = o.id /\ Aged(o).tab = o.tab
         /\ Aged(o).kind = o.kind /\ Aged(o).w = o.w /\ Aged(o).executed = o.executed
         /\ Aged(o).holds = o.holds /\ Aged(o).pc = o.pc /\ Aged(o).ok = o.ok
         /\ Aged(o).data = o.data /\ (o.tab = "detail" => Aged(o).old)
BY DEF Aged, Message

(* Ageing loses no request.                                                *)
LEMMA AgedCount ==
  ASSUME NEW S, IsFiniteSet(S), S \subseteq Message, \A o, p \in S : o.id = p.id => o = p
  PROVE  LET T == {Aged(o) : o \in S} IN IsFiniteSet(T) /\ Cardinality(T) = Cardinality(S)
<1> DEFINE T == {Aged(o) : o \in S}
           f == [o \in S |-> Aged(o)]
<1>1. f \in Surjection(S, T)
  BY DEF Surjection
<1>2. f \in Injection(S, T)
  <2>1. \A o, p \in S : Aged(o) = Aged(p) => o = p
    BY AgedFacts
  <2>2. QED
    BY <2>1 DEF Injection, IsInjective
<1>3. QED
  BY <1>1, <1>2, FS_Surjection

(* A decision of the detail page has succeeded: what is shown and what is  *)
(* being loaded are older than it, and the page reloads.                   *)
LEMMA DecisionSucceeds ==
  ASSUME Inv, NEW q \in net, DecisionAnswered(q), q.ok
  PROVE  Inv'
<1> USE DEF Inv, server
<1> DEFINE S == net \ {q}
           n == q.data[q.w].ver
<1>0. PICK r : r = Request("detail", "load", q.w, NoAction, TRUE)
  OBVIOUS
<1>1. /\ q.tab = "detail" /\ q.kind \in Kinds /\ q.pc = "reply" /\ Tell(q)
      /\ detail' = [detail EXCEPT !.wrote = n, !.view.old = TRUE]
      /\ net' = {Aged(o) : o \in S} \cup {r}
      /\ UNCHANGED <<rows, provider, trail, tasks, queue, clicks, faults>>
  BY <1>0 DEF DecisionAnswered, Aged
<1>2. q.w \in Slots /\ q.w = detail.w /\ q.holds /\ q \in Held /\ n \in Nat
  <2>1. q.w \in Slots /\ q.data \in [Slots -> Row]
    BY MessageFacts
  <2>2. n \in Nat
    BY <2>1 DEF Row
  <2>3. QED
    BY <1>1, <2>1, <2>2 DEF NetInv, Held
<1>3. Held = {q} /\ detail.actionLoading /\ detail.view \in View
  BY <1>2, PageFacts DEF NetInv
<1>4. /\ r \in Message /\ (\A o \in net : o.id # r.id) /\ r.tab = "detail" /\ r.kind = "load"
      /\ r.w = q.w /\ r.holds = TRUE /\ r.old = FALSE /\ r.pc = "sent" /\ r.executed = FALSE
      /\ \A v \in Slots : r.data[v].ver = 0
  BY <1>0, <1>2, RequestFacts, ConstantFacts DEF Request, Message
<1> HIDE DEF n
<1>5. /\ detail' \in DetailPage
      /\ detail'.w = detail.w /\ detail'.wrote = n
      /\ detail'.actionLoading = detail.actionLoading
      /\ detail'.view \in View /\ detail'.view.old
  <2> DEFINE x == [detail.view EXCEPT !.old = TRUE]
  <2>1. x \in View /\ x.old
    BY <1>3 DEF View
  <2>2. detail' = [detail EXCEPT !.wrote = n, !.view = x]
    BY <1>1, PageFacts DEF DetailPage
  <2> HIDE DEF x
  <2>3. /\ detail' \in DetailPage
        /\ detail'.w = detail.w /\ detail'.wrote = n
        /\ detail'.actionLoading = detail.actionLoading /\ detail'.view = x
    BY <1>2, <2>1, <2>2, PageFacts DEF DetailPage
  <2>4. QED
    BY <2>1, <2>3
<1>6. /\ S \subseteq Message /\ IsFiniteSet(S) /\ \A o, p \in S : o.id = p.id => o = p
  BY FS_RemoveElement DEF NetInv, TypeOK
<1>7. IsFiniteSet(net') /\ net' \subseteq Message
  <2> DEFINE T == {Aged(o) : o \in S}
  <2>1. IsFiniteSet(T) /\ T \subseteq Message
    BY <1>6, AgedCount, AgedFacts
  <2>2. net' = T \cup {r}
    BY <1>1
  <2> HIDE DEF T
  <2>3. QED
    BY <1>4, <2>1, <2>2, FS_AddElement
<1>8. \A o, p \in net' : o.id = p.id => o = p
  BY <1>1, <1>4, <1>6, AgedFacts
<1>9. Cardinality(Dispatched') = Cardinality(Dispatched \ {q})
  <2> DEFINE U == Dispatched \ {q}
  <2>1. U = {o \in S : o.kind = "approve" /\ o.pc = "reply" /\ o.ok}
    BY DEF Dispatched
  <2>2. Dispatched' = {Aged(o) : o \in U}
    BY <1>1, <1>4, <1>6, <2>1, AgedFacts DEF Dispatched
  <2>3. U \subseteq S /\ IsFiniteSet(U)
    BY <1>6, <2>1, FS_Subset
  <2>4. U \subseteq Message /\ \A o, p \in U : o.id = p.id => o = p
    BY <1>6, <2>3
  <2> HIDE DEF U
  <2>5. Cardinality({Aged(o) : o \in U}) = Cardinality(U)
    BY <2>3, <2>4, AgedCount
  <2>6. QED
    BY <2>2, <2>5 DEF U
<1>10. ChargeInv' /\ told' \in Nat
  <2>1. told' \in Nat /\ told' + Cardinality(Dispatched') = told + Cardinality(Dispatched)
    BY <1>1, <1>9, ToldCount
  <2>2. ASSUME NEW o \in net'
        PROVE  \/ o.pc # "charge" /\ ~o.executed
               \/ \E p \in net : o.pc = p.pc /\ o.tab = p.tab /\ o.executed = p.executed
    <3>1. CASE o = r
      BY <1>4, <3>1
    <3>2. CASE \E p \in S : o = Aged(p)
      BY <1>6, <3>2, AgedFacts
    <3>3. QED
      BY <1>1, <3>1, <3>2
  <2>3. QED
    BY <1>1, <2>1, <2>2, ChargeKept
<1>11. TypeOK'
  BY <1>1, <1>5, <1>7, <1>10 DEF TypeOK, DetailPage
<1>12. WorkerInv'
  BY <1>1, WorkerKept DEF Exists
<1>13. NetInv'
  <2>1. \A v \in Slots : Exists(v)' <=> Exists(v)
    BY <1>1 DEF Exists
  <2>2. ASSUME NEW o \in net'
        PROVE  /\ o.tab = "detail" => o.w = detail'.w
               /\ o.kind \in Kinds => o.holds /\ Exists(o.w)'
               /\ o.pc \in {"charge", "write"} => o.kind = "approve"
    <3>1. CASE o = r
      BY <1>2, <1>4, <1>5, <3>1, KindFacts
    <3>2. CASE \E p \in S : o = Aged(p)
      <4>1. PICK p \in S : o = Aged(p)
        BY <3>2
      <4>2. /\ p.tab = "detail" => p.w = detail.w
            /\ p.kind \in Kinds => p.holds /\ Exists(p.w)
            /\ p.pc \in {"charge", "write"} => p.kind = "approve"
            /\ p.w \in Slots
        BY MessageFacts DEF NetInv
      <4>3. /\ o.tab = p.tab /\ o.w = p.w /\ o.kind = p.kind /\ o.holds = p.holds
            /\ o.pc = p.pc
        BY <1>6, <4>1, AgedFacts
      <4>4. QED
        BY <1>5, <2>1, <4>2, <4>3
    <3>3. QED
      BY <1>1, <3>1, <3>2
  <2>3. Held' = {r}
    <3>1. \A o \in S : ~(o.tab = "detail" /\ o.holds)
      BY <1>3 DEF Held
    <3>2. QED
      BY <1>1, <1>4, <1>6, <3>1, AgedFacts DEF Held
  <2>4. /\ (detail.w # Absent => Exists(detail.w))'
        /\ (detail.view # NoView => detail.w # Absent)'
        /\ (detail.actionLoading => detail.view # NoView)'
    BY <1>2, <1>5, <2>1, ConstantFacts DEF NetInv
  <2>5. /\ (detail.actionLoading <=> Held # {})'
        /\ (\A o, p \in Held : o = p)'
    BY <1>3, <1>5, <2>3
  <2>6. QED
    BY <1>7, <1>8, <2>2, <2>4, <2>5 DEF NetInv
<1>14. CopiesInv'
  <2>1. ASSUME NEW p \in S
        PROVE  RequestCopies(Aged(p))'
    <3>1. RequestCopies(p) /\ p \in Message
      BY <1>6 DEF CopiesInv
    <3>2. /\ Aged(p).tab = p.tab /\ Aged(p).data = p.data
          /\ (p.tab = "detail" => Aged(p).old)
      BY <3>1, AgedFacts
    <3>3. QED
      BY <1>1, <3>1, <3>2 DEF RequestCopies
  <2>2. RequestCopies(r)'
    BY <1>1, <1>4, RowFacts DEF RequestCopies
  <2>3. \A o \in net' : RequestCopies(o)'
    BY <1>1, <2>1, <2>2
  <2>4. n <= rows[q.w].ver
    BY <1>2 DEF CopiesInv, RequestCopies, n
  <2>5. (IF detail.w = Absent THEN detail.wrote = 0 ELSE detail.wrote <= rows[detail.w].ver)'
    BY <1>1, <1>2, <1>5, <2>4, ConstantFacts
  <2>6. (detail.view.real /\ ~detail.view.old => detail.view.ver >= detail.wrote)'
    BY <1>5
  <2>7. (\A w \in queue.items : Exists(w))'
    BY <1>1 DEF CopiesInv, Exists
  <2>8. QED
    BY <2>3, <2>5, <2>6, <2>7 DEF CopiesInv
<1>15. QED
  BY <1>10, <1>11, <1>12, <1>13, <1>14

(* A decision of the detail page has failed: its buttons come back.        *)
LEMMA DecisionFails ==
  ASSUME Inv, NEW q \in net, DecisionAnswered(q), ~q.ok
  PROVE  Inv'
<1> USE DEF Inv, server
<1>1. /\ q.tab = "detail" /\ q.kind \in Kinds /\ q.pc = "reply" /\ Tell(q)
      /\ detail' = [detail EXCEPT !.actionLoading = FALSE] /\ net' = net \ {q}
      /\ UNCHANGED <<rows, provider, trail, tasks, queue, clicks, faults>>
  BY DEF DecisionAnswered
<1>2. q.holds
  BY <1>1 DEF NetInv
<1>3. Taken(q, {})
  BY <1>1 DEF Taken
<1>4. /\ detail' \in DetailPage
      /\ detail'.w = detail.w /\ detail'.view = detail.view
      /\ detail'.actionLoading = FALSE /\ detail'.wrote = detail.wrote
  BY <1>1, DetailFacts
<1>5. detail'.actionLoading = (detail.actionLoading /\ ~q.holds)
  BY <1>2, <1>4
<1>6. detail'.view.real /\ ~detail'.view.old => detail'.view.ver >= detail.wrote
  BY <1>4 DEF CopiesInv
<1>7. QED
  BY <1>1, <1>3, <1>4, <1>5, <1>6, DetailTakes
-----------------------------------------------------------------------------
(* The invariant holds initially.                                          *)
LEMMA InitInv == Init => Inv
<1> SUFFICES ASSUME Init PROVE Inv
  OBVIOUS
<1>0. PICK b \in BOOLEAN : provider = [captured |-> FALSE, terminal |-> b, byDetail |-> 0]
  BY DEF Init
<1> USE DEF Init
<1>1. TypeOK
  <2>1. /\ [pc |-> "idle", w |-> Absent, created |-> 0, blind |-> 0, tries |-> 0] \in Task
        /\ MaxRetries \in Nat /\ MaxDecisions \in Nat /\ MaxLoads \in Nat /\ MaxFaults \in Nat
    BY ConsoleAssumption DEF Task
  <2>p. provider \in [captured : BOOLEAN, terminal : BOOLEAN, byDetail : Nat]
    BY <1>0
  <2>2. /\ detail \in [w : {Absent} \cup Slots, view : View \cup {NoView},
                       actionLoading : BOOLEAN, wrote : Nat]
        /\ queue \in [items : SUBSET Slots, actionLoadingId : {Absent} \cup Slots]
        /\ clicks \in [decisions : 0..MaxDecisions, loads : 0..MaxLoads]
        /\ trail \in [executed : Nat, failed : Nat]
    BY <2>1
  <2>3. QED
    BY <2>1, <2>2, <2>p DEF TypeOK
<1>2. \A w \in Slots : ~Exists(w)
  BY DEF Exists, NoRow
<1>3. WorkerInv
  BY <1>2 DEF WorkerInv, TaskInv
<1>4. NetInv
  BY FS_EmptySet DEF NetInv, Held
<1>5. CopiesInv
  BY ConstantFacts DEF CopiesInv
<1>6. ChargeInv
  <2>1. Dispatched = {}
    BY DEF Dispatched
  <2>2. QED
    BY <1>0, <2>1, FS_EmptySet DEF ChargeInv, DetailCapturesOnce
<1>7. QED
  BY <1>1, <1>3, <1>4, <1>5, <1>6 DEF Inv

(* Every step keeps it.                                                    *)
LEMMA NextInv == Inv /\ [Next]_vars => Inv'
<1> SUFFICES ASSUME Inv, [Next]_vars PROVE Inv'
  OBVIOUS
<1>1. CASE \E t \in Tasks : Worker(t)
  <2>1. PICK t \in Tasks : Worker(t)
    BY <1>1
  <2>2. TypeOK' /\ Grown /\ Untouched
    BY <2>1, WorkerTypes DEF Inv
  <2>3. WorkerInv'
    BY <2>1, WorkerKeepsWorkerInv DEF Inv
  <2>4. NetInv' /\ CopiesInv' /\ ChargeInv'
    BY <2>2, RowsOnly DEF Inv, Untouched
  <2>5. QED
    BY <2>2, <2>3, <2>4 DEF Inv
<1>2. CASE Operator
  BY <1>2, LoadWorkflowKeeps, HandleDecisionKeeps, LoadDataKeeps, HandleInlineKeeps,
     OverrideKeeps DEF Operator
<1>3. CASE \E q \in net : Serve(q) \/ Disconnect(q)
  <2>1. PICK q \in net : Serve(q) \/ Disconnect(q)
    BY <1>3
  <2>2. /\ TypeOK' /\ Grown /\ UNCHANGED <<tasks, detail, queue, told>>
        /\ \A w \in Slots : Exists(w)' <=> Exists(w)
        /\ \E r : Moves(q, r) /\ Charging(q, r)
    BY <2>1, ApiStep DEF Inv
  <2>3. PICK r : Moves(q, r) /\ Charging(q, r)
    BY <2>2
  <2>4. WorkerInv'
    BY <2>2, WorkerKept DEF Inv
  <2>5. NetInv'
    BY <2>2, <2>3, MovedNet DEF Inv
  <2>6. CopiesInv'
    BY <2>2, <2>3, MovedCopies DEF Inv
  <2>7. ChargeInv'
    BY <2>2, <2>3, MovedCharges DEF Inv
  <2>8. QED
    BY <2>2, <2>4, <2>5, <2>6, <2>7 DEF Inv
<1>4. CASE \E q \in net : Land(q)
  <2>1. PICK q \in net : Land(q)
    BY <1>4
  <2>2. CASE LandWorkflow(q)
    BY <2>2, LandWorkflowKeeps
  <2>3. CASE DecisionAnswered(q)
    BY <2>3, DecisionSucceeds, DecisionFails
  <2>4. CASE LandData(q)
    BY <2>4, LandDataKeeps
  <2>5. CASE InlineAnswered(q)
    BY <2>5, InlineAnsweredKeeps
  <2>6. QED
    BY <2>1, <2>2, <2>3, <2>4, <2>5 DEF Land
<1>5. CASE UNCHANGED vars
  <2>1. UNCHANGED <<rows, provider, trail, told, tasks, detail, queue, net, clicks, faults>>
    BY <1>5 DEF vars
  <2>2. Grown /\ \A w \in Slots : Exists(w)' <=> Exists(w)
    BY <2>1 DEF Grown, Exists
  <2>3. TypeOK'
    BY <2>1 DEF Inv, TypeOK
  <2>4. WorkerInv'
    BY <2>1, <2>2, WorkerKept DEF Inv
  <2>5. QED
    BY <2>1, <2>2, <2>3, <2>4, RowsOnly DEF Inv
<1>6. QED
  BY <1>1, <1>2, <1>3, <1>4, <1>5 DEF Next

LEMMA Invariance == Spec => []Inv
BY InitInv, NextInv, PTL DEF Spec

(* The detail page's buttons are disabled exactly while one handler of the *)
(* page is at work, whatever loads, answers and faults meet.               *)
THEOREM ButtonsGuardDecisions == Spec => []OneDecisionAtATime
<1>1. Inv => OneDecisionAtATime
  <2> SUFFICES ASSUME Inv PROVE OneDecisionAtATime
    OBVIOUS
  <2>1. (detail.actionLoading <=> Held # {}) /\ \A q, r \in Held : q = r
    BY DEF Inv, NetInv
  <2>2. Held = {} \/ \E q : Held = {q}
    BY <2>1
  <2>3. Cardinality(Held) <= 1
    <3>1. CASE Held = {}
      BY <3>1, FS_EmptySet
    <3>2. CASE \E q : Held = {q}
      <4>1. PICK q : Held = {q}
        BY <3>2
      <4>2. Cardinality({q}) = 1
        BY FS_Singleton
      <4>3. QED
        BY <4>1, <4>2
    <3>3. QED
      BY <2>2, <3>1, <3>2
  <2>4. QED
    BY <2>1, <2>3 DEF OneDecisionAtATime
<1>2. QED
  BY <1>1, Invariance, PTL

(* The detail page shows the effect of its last decision, or a later       *)
(* state, unless an older load has overtaken the reload.                   *)
THEOREM DecisionsAreSeen == Spec => []ReadYourWrites
<1>1. Inv => ReadYourWrites
  BY DEF Inv, CopiesInv, ReadYourWrites
<1>2. QED
  BY <1>1, Invariance, PTL

(* The approvals of one detail page capture the payment at most once, with *)
(* the worker, the queue page and failing statements in between.           *)
THEOREM DetailPageCapturesOnce == Spec => []DetailCapturesOnce
<1>1. Inv => DetailCapturesOnce
  BY DEF Inv, ChargeInv
<1>2. QED
  BY <1>1, Invariance, PTL

(* An action is recorded as executed only for a captured payment, and an   *)
(* approval that is told as dispatched without a capture has a row of its  *)
(* failure, or a statement of its own has failed.                          *)
THEOREM ApprovalsAreRecorded == Spec => []ApprovalsOnRecord
<1>1. Inv => ApprovalsOnRecord
  <2> SUFFICES ASSUME Inv, ~provider.captured PROVE told <= trail.failed + faults
    BY DEF ApprovalsOnRecord, Inv, ChargeInv
  <2> DEFINE n == Cardinality(Dispatched)
  <2>1. /\ told + n <= trail.failed + faults /\ n \in Nat
        /\ told \in Nat /\ trail.failed \in Nat /\ faults \in Nat
    BY DispatchedFinite DEF Inv, ChargeInv, NetInv, TypeOK
  <2> HIDE DEF n
  <2>2. QED
    BY <2>1
<1>2. QED
  BY <1>1, Invariance, PTL

(* A task that is delivered again goes on with the workflow it created, or *)
(* a lookup of its own has failed.                                         *)
THEOREM OneWorkflowPerTask == Spec => []RetriesReuseWorkflow
<1>1. Inv => RetriesReuseWorkflow
  BY DEF Inv, WorkerInv, TaskInv, RetriesReuseWorkflow
<1>2. QED
  BY <1>1, Invariance, PTL
=============================================================================
