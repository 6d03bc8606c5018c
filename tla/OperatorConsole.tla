-------------------------- MODULE OperatorConsole --------------------------
(***************************************************************************)
(* One payment's recovery workflows under the operator: the detail page    *)
(* (app/workflows/[id]/page.tsx) in one tab, the intervention queue        *)
(* (app/workflows/page.tsx) in another, the workflow operations of the API *)
(* (handlers/workflows.go) with the payment provider they charge, and the  *)
(* worker's tasks that create, analyse and execute the workflow meanwhile. *)
(*                                                                         *)
(* Nothing orders the answers of a page's requests, and no write of the    *)
(* API or of the worker looks at the status it replaces.                   *)
(***************************************************************************)
EXTENDS Integers, FiniteSets

CONSTANTS
  Tasks,         \* deliveries of the analyse task for the payment
  Recommended,   \* the strategies analyses recommend
  Outcomes,      \* the statuses executions leave behind
  OptOut,        \* customers.communication_opt_out
  MaxWorkflows,  \* bound on the payment's workflows
  MaxRetries,    \* retries of one task
  MaxDecisions,  \* bound on the operator's approvals, rejections and overrides
  MaxLoads,      \* bound on the operator's refreshes
  MaxFaults      \* bound on the failures of requests and of the database

WorkflowStatus == {"ANALYZING", "SCHEDULED", "ESCALATED", "RECOVERED", "HALTED", "FAILED"}
Strategy == {"PAYMENT_LINK", "IMMEDIATE_RETRY"}

ASSUME ConsoleAssumption ==
  /\ Recommended \subseteq Strategy
  /\ OptOut \in BOOLEAN
  /\ Outcomes \subseteq WorkflowStatus \ {"ANALYZING"}
  /\ MaxWorkflows \in Nat \ {0}
  /\ {MaxRetries, MaxDecisions, MaxLoads, MaxFaults} \subseteq Nat

VARIABLES
  rows,     \* recovery_workflows, by creation
  provider, \* the payment in local_provider_payments
  trail,    \* what approvals left in recovery_actions
  told,     \* approvals the operator was told of as dispatched
  tasks,    \* the worker's tasks
  detail,   \* the detail page
  queue,    \* the queue page
  net,      \* the pages' requests that have not been answered
  clicks,   \* decisions and refreshes so far
  faults    \* faults so far

server == <<rows, provider, trail, told>>
vars == <<rows, provider, trail, told, tasks, detail, queue, net, clicks, faults>>

NoAction == "none"
Slots == 1..MaxWorkflows
Absent == 0

(* A row and the number of writes it has had.                              *)
Row == [status : WorkflowStatus, action : Strategy \cup {NoAction}, ver : Nat]
Exists(w) == rows[w].ver > 0
NoRow == [status |-> "ANALYZING", action |-> NoAction, ver |-> 0]

(* The first of the synthetic workflows: the generated ones come after the *)
(* interventions, all of them escalated.                                   *)
FirstSynthetic == "ESCALATED"

(* What getSyntheticWorkflowDetail answers for an id it does not know.     *)
SyntheticDetail == [real |-> FALSE, status |-> FirstSynthetic, ver |-> 0, old |-> FALSE]
NoView == [real |-> FALSE, status |-> "none", ver |-> 0, old |-> FALSE]
View == [real : BOOLEAN, status : WorkflowStatus, ver : Nat, old : BOOLEAN]

Kinds == {"approve", "reject"}
Message == [id : Nat, tab : {"detail", "queue"}, kind : Kinds \cup {"load"}, w : Slots,
            action : Strategy \cup {NoAction}, holds : BOOLEAN, old : BOOLEAN,
            pc : {"sent", "charge", "write", "reply"}, executed : BOOLEAN, ok : BOOLEAN,
            data : [Slots -> Row \cup {NoRow}]]

(* A delivered task, the workflows it has created and how often it did not *)
(* find out whether there is one.                                          *)
Task == [pc : {"idle", "create", "analyse", "execute", "running", "done"},
         w : {Absent} \cup Slots, created : Nat, blind : Nat, tries : 0..MaxRetries]

TypeOK ==
  /\ rows \in [Slots -> Row \cup {NoRow}]
  /\ provider \in [captured : BOOLEAN, terminal : BOOLEAN, byDetail : Nat]
  /\ trail \in [executed : Nat, failed : Nat]
  /\ told \in Nat
  /\ tasks \in [Tasks -> Task]
  /\ detail \in [w : {Absent} \cup Slots, view : View \cup {NoView},
                 actionLoading : BOOLEAN, wrote : Nat]
  /\ queue \in [items : SUBSET Slots, actionLoadingId : {Absent} \cup Slots]
  /\ net \subseteq Message
  /\ clicks \in [decisions : 0..MaxDecisions, loads : 0..MaxLoads]
  /\ faults \in 0..MaxFaults

Init ==
  /\ rows = [w \in Slots |-> NoRow]
  /\ provider \in [captured : {FALSE}, terminal : BOOLEAN, byDetail : {0}]
  /\ trail = [executed |-> 0, failed |-> 0]
  /\ told = 0
  /\ tasks = [t \in Tasks |-> [pc |-> "idle", w |-> Absent, created |-> 0, blind |-> 0,
                                 tries |-> 0]]
  /\ detail = [w |-> Absent, view |-> NoView, actionLoading |-> FALSE, wrote |-> 0]
  /\ queue = [items |-> {}, actionLoadingId |-> Absent]
  /\ net = {}
  /\ clicks = [decisions |-> 0, loads |-> 0]
  /\ faults = 0

(* An UPDATE of recovery_workflows, whatever the row holds.                *)
Write(w, status, action) ==
  rows' = [rows EXCEPT ![w] = [status |-> status, action |-> action, ver |-> @.ver + 1]]

Fault == faults < MaxFaults /\ faults' = faults + 1
-----------------------------------------------------------------------------
(* The worker: HandleAnalyze of one delivered task.                        *)

TaskEnded(t) == [tasks EXCEPT ![t].pc = "done", ![t].w = Absent, ![t].tries = 0]

(* A bug variant of LatestWorkflow: only open workflows are looked for.    *)
LatestOpenWorkflow ==
  {w \in Slots : /\ Exists(w) /\ rows[w].status # "HALTED"
                 /\ \A v \in Slots : Exists(v) => v <= w}

(* The newest workflow of the payment, as a set of at most one.            *)
LatestWorkflow == {w \in Slots : Exists(w) /\ \A v \in Slots : Exists(v) => v <= w}

FindWorkflow(t) ==
  /\ tasks[t].pc = "idle"
  /\ tasks' = [tasks EXCEPT ![t] =
       IF LatestWorkflow = {} THEN [@ EXCEPT !.pc = "create"]
       ELSE [@ EXCEPT !.pc = "analyse", !.w = CHOOSE w \in LatestWorkflow : TRUE]]
  /\ UNCHANGED <<server, detail, queue, net, clicks, faults>>

(* The SELECT fails, which is taken for a payment without a workflow.      *)
LookupFails(t) ==
  /\ tasks[t].pc = "idle"
  /\ Fault
  /\ tasks' = [tasks EXCEPT ![t].pc = "create", ![t].blind = @ + 1]
  /\ UNCHANGED <<server, detail, queue, net, clicks>>

(* The INSERT, in the first free slot.                                     *)
CreateWorkflow(t) ==
  /\ tasks[t].pc = "create"
  /\ \E w \in Slots :
       /\ ~Exists(w)
       /\ \A v \in 1..(w - 1) : Exists(v)
       /\ Write(w, "ANALYZING", NoAction)
       /\ tasks' = [tasks EXCEPT ![t].pc = "analyse", ![t].w = w, ![t].created = @ + 1]
  /\ UNCHANGED <<provider, trail, told, detail, queue, net, clicks, faults>>

(* The end of AnalyzePayment: the recommendation replaces the action; if   *)
(* the UPDATE fails, the old action is executed.                           *)
FinishAnalysis(t) ==
  LET w == tasks[t].w
  IN /\ tasks[t].pc = "analyse"
     /\ \/ /\ \E a \in Recommended :
               Write(w, IF rows[w].status = "ANALYZING" THEN "SCHEDULED" ELSE rows[w].status, a)
           /\ UNCHANGED faults
        \/ Fault /\ UNCHANGED rows
     /\ tasks' = [tasks EXCEPT ![t].pc = "execute"]
     /\ UNCHANGED <<provider, trail, told, detail, queue, net, clicks>>

(* AnalyzePayment fails to create the workflow or to store the prediction: *)
(* the task is delivered again, or given up.                               *)
RetryTask(t) ==
  /\ tasks[t].pc \in {"create", "analyse"}
  /\ tasks' = IF tasks[t].tries < MaxRetries
              THEN [tasks EXCEPT ![t].pc = "idle", ![t].w = Absent, ![t].tries = @ + 1]
              ELSE TaskEnded(t)
  /\ UNCHANGED <<server, detail, queue, net, clicks, faults>>

(* ExecuteWorkflow (module Executor), as far as operator and API see it: a *)
(* resolved workflow is left alone; for any other one the provider may     *)
(* capture the payment, and the workflow gets an outcome.                  *)
StartExecution(t) ==
  /\ tasks[t].pc = "execute"
  /\ tasks' = IF rows[tasks[t].w].status \in {"RECOVERED", "HALTED", "FAILED"}
              THEN TaskEnded(t) ELSE [tasks EXCEPT ![t].pc = "running"]
  /\ UNCHANGED <<server, detail, queue, net, clicks, faults>>

ExecutionCharges(t) ==
  /\ tasks[t].pc = "running"
  /\ ~provider.terminal
  /\ provider' = [provider EXCEPT !.captured = TRUE]
  /\ UNCHANGED <<rows, trail, told, tasks, detail, queue, net, clicks, faults>>

EndExecution(t) ==
  LET w == tasks[t].w
  IN /\ tasks[t].pc = "running"
     /\ \E s \in Outcomes :
          /\ s = "RECOVERED" => provider.captured
          /\ Write(w, s, rows[w].action)
     /\ tasks' = TaskEnded(t)
     /\ UNCHANGED <<provider, trail, told, detail, queue, net, clicks, faults>>

Worker(t) ==
  \/ FindWorkflow(t)
  \/ LookupFails(t)
  \/ CreateWorkflow(t)
  \/ FinishAnalysis(t)
  \/ RetryTask(t)
  \/ StartExecution(t)
  \/ ExecutionCharges(t)
  \/ EndExecution(t)
-----------------------------------------------------------------------------
(* The pages: what they show and which buttons they offer.                 *)

(* isIntervention: the statuses for which the header and the intervention  *)
(* hub offer decisions (the API sends no policy_decision and nothing       *)
(* writes REQUIRES_HUMAN_REVIEW).                                          *)
Intervention == {"ESCALATED", "ANALYZING", "SCHEDULED"}

(* The hub with its strategy list and its two buttons.                     *)
HubOffered == detail.view # NoView /\ detail.view.status \in Intervention
DecisionOffered == HubOffered /\ ~detail.actionLoading

(* The rows the operator can bring up with the tabs, the filter and the    *)
(* search of the queue page: hiding a row is not clicking it.              *)
Listed(w) == w \in queue.items

(* The buttons of a row, unless this row is being decided.                 *)
InlineOffered(w) == Listed(w) /\ queue.actionLoadingId # w

(* A number no request under way has.                                      *)
FreeId == CHOOSE i \in 1..(Cardinality(net) + 1) : \A q \in net : q.id # i

Request(tab, kind, w, action, holds) ==
  [id |-> FreeId, tab |-> tab, kind |-> kind, w |-> w, action |-> action, holds |-> holds,
   old |-> FALSE, pc |-> "sent", executed |-> FALSE, ok |-> FALSE,
   data |-> [v \in Slots |-> NoRow]]

Issue(q) == net' = net \cup {q}
Click(what) == clicks' = [clicks EXCEPT ![what] = @ + 1]

(* The page is opened for a workflow and its effect runs loadWorkflow; the *)
(* Refresh button runs it again, whatever is under way.                    *)
LoadWorkflow(w) ==
  /\ Exists(w)
  /\ detail.w \in {Absent, w}
  /\ clicks.loads < MaxLoads
  /\ Click("loads")
  /\ detail' = [detail EXCEPT !.w = w]
  /\ Issue(Request("detail", "load", w, NoAction, FALSE))
  /\ UNCHANGED <<server, tasks, queue, faults>>

(* handleApprove, with the strategy selected in the hub last, which any    *)
(* load may have replaced, and handleReject.                               *)
HandleDecision(kind, strategy) ==
  /\ DecisionOffered
  /\ clicks.decisions < MaxDecisions
  /\ Click("decisions")
  /\ detail' = [detail EXCEPT !.actionLoading = TRUE]
  /\ strategy = NoAction <=> kind = "reject"
  /\ Issue(Request("detail", kind, detail.w, strategy, TRUE))
  /\ UNCHANGED <<server, tasks, queue, faults>>

(* loadData of the queue page.                                             *)
LoadData ==
  /\ clicks.loads < MaxLoads
  /\ Click("loads")
  /\ Issue(Request("queue", "load", 1, NoAction, FALSE))
  /\ UNCHANGED <<server, tasks, detail, queue, faults>>

(* handleInlineApprove and handleInlineReject: no strategy is sent.        *)
HandleInline(kind, w) ==
  /\ InlineOffered(w)
  /\ clicks.decisions < MaxDecisions
  /\ Click("decisions")
  /\ queue' = [queue EXCEPT !.actionLoadingId = w]
  /\ Issue(Request("queue", kind, w, NoAction, TRUE))
  /\ UNCHANGED <<server, tasks, detail, faults>>
-----------------------------------------------------------------------------
(* The API.                                                                *)

Step(q, r) == net' = (net \ {q}) \cup {r}

(* The answer, with which goes what the API has learnt meanwhile.          *)
Answer(q, ok) == Step(q, [q EXCEPT !.pc = "reply", !.executed = FALSE, !.action = NoAction,
                                   !.ok = ok])

(* What a load is answered: its workflow, or for the queue all of them.    *)
Answered(q) == [w \in Slots |-> IF q.tab = "queue" \/ w = q.w THEN rows[w] ELSE NoRow]

(* GET /workflows/:id and GET /workflows/interventions.                    *)
ServeLoad(q) ==
  /\ q.pc = "sent"
  /\ q.kind = "load"
  /\ Step(q, [q EXCEPT !.pc = "reply", !.ok = TRUE, !.data = Answered(q)])
  /\ UNCHANGED <<server, tasks, detail, queue, clicks, faults>>

(* The action approveWorkflow executes: the one sent, or the row's.        *)
ActionToExecute(q) ==
  CASE q.action # NoAction -> q.action
    [] q.action = NoAction /\ rows[q.w].action # NoAction -> rows[q.w].action
    [] OTHER -> "PAYMENT_LINK"

(* A bug variant of ApproveWorkflow: a captured payment is charged again.  *)
ApproveWorkflowUnchecked(q) ==
  LET charging == [q EXCEPT !.pc = "charge", !.action = ActionToExecute(q)]
  IN /\ q.pc = "sent" /\ q.kind = "approve"
     /\ IF OptOut /\ ActionToExecute(q) = "PAYMENT_LINK"
        THEN Answer(q, FALSE) /\ UNCHANGED faults
        ELSE \/ Step(q, charging) /\ UNCHANGED faults
             \/ Fault /\ Step(q, [charging EXCEPT !.pc = "write"])
     /\ UNCHANGED <<server, tasks, detail, queue, clicks>>

(* approveWorkflow: the lookup, the refusal of a customer who opted out of *)
(* what the action would send, and what CreateRetryAttemptWithCustomer     *)
(* reads: for a captured payment it succeeds without an attempt, and an    *)
(* error makes the action FAILED.                                          *)
ApproveWorkflow(q) ==
  LET charging == [q EXCEPT !.pc = "charge", !.action = ActionToExecute(q)]
  IN /\ q.pc = "sent" /\ q.kind = "approve"
     /\ IF OptOut /\ ActionToExecute(q) = "PAYMENT_LINK"
        THEN Answer(q, FALSE) /\ UNCHANGED faults
        ELSE \/ /\ Step(q, IF provider.captured
                            THEN [charging EXCEPT !.pc = "write", !.executed = TRUE]
                            ELSE charging)
                /\ UNCHANGED faults
             \/ Fault /\ Step(q, [charging EXCEPT !.pc = "write"])
     /\ UNCHANGED <<server, tasks, detail, queue, clicks>>

(* The provider's attempt, which a terminal failure code declines.         *)
Attempt(q) ==
  provider' = [provider EXCEPT
    !.captured = ~provider.terminal,
    !.byDetail = IF q.tab = "detail" /\ ~provider.terminal THEN @ + 1 ELSE @]

(* A bug variant of ApproveCharge: a declined attempt counts as executed.  *)
ApproveChargeErrorsOnly(q) ==
  /\ q.pc = "charge"
  /\ \/ /\ Attempt(q)
        /\ Step(q, [q EXCEPT !.pc = "write", !.executed = TRUE])
        /\ UNCHANGED faults
     \/ /\ Fault
        /\ Attempt(q) \/ UNCHANGED provider
        /\ Step(q, [q EXCEPT !.pc = "write"])
  /\ UNCHANGED <<rows, trail, told, tasks, detail, queue, clicks>>

(* The provider's transaction: a decline makes the action FAILED, and so   *)
(* does an error, of a commit that has happened too.                       *)
ApproveCharge(q) ==
  /\ q.pc = "charge"
  /\ \/ /\ Attempt(q)
        /\ Step(q, [q EXCEPT !.pc = "write", !.executed = ~provider.terminal])
        /\ UNCHANGED faults
     \/ /\ Fault
        /\ Attempt(q) \/ UNCHANGED provider
        /\ Step(q, [q EXCEPT !.pc = "write"])
  /\ UNCHANGED <<rows, trail, told, tasks, detail, queue, clicks>>

(* The recovery_actions row and the workflow's new status (the audit entry *)
(* is the matter of module AuditChain): whatever became of the charge and  *)
(* of these statements, the answer is 200.                                 *)
ApproveWrite(q) ==
  LET status == IF q.executed THEN "executed" ELSE "failed"
  IN /\ q.pc = "write"
     /\ \E recorded, updated \in BOOLEAN :
          /\ IF recorded /\ updated THEN UNCHANGED faults ELSE Fault
          /\ trail' = IF recorded THEN [trail EXCEPT ![status] = @ + 1] ELSE trail
          /\ IF updated THEN Write(q.w, "SCHEDULED", q.action) ELSE UNCHANGED rows
     /\ Step(q, [q EXCEPT !.pc = "reply", !.executed = FALSE, !.action = NoAction,
                          !.ok = TRUE, !.data[q.w].ver = rows'[q.w].ver])
     /\ UNCHANGED <<provider, told, tasks, detail, queue, clicks>>

(* A bug variant of RejectWorkflow: it waits for a running execution.      *)
RejectWorkflowWaiting(q) ==
  /\ q.pc = "sent"
  /\ \A t \in Tasks : tasks[t].pc # "running"
  /\ q.kind = "reject"
  /\ \/ /\ Write(q.w, "HALTED", rows[q.w].action)
        /\ Step(q, [q EXCEPT !.pc = "reply", !.ok = TRUE, !.data[q.w].ver = rows'[q.w].ver])
        /\ UNCHANGED faults
     \/ /\ Fault
        /\ Answer(q, FALSE)
        /\ UNCHANGED rows
  /\ UNCHANGED <<provider, trail, told, tasks, detail, queue, clicks>>

(* rejectWorkflow: here a failing UPDATE is an error.                      *)
RejectWorkflow(q) ==
  /\ q.pc = "sent"
  /\ q.kind = "reject"
  /\ \/ /\ Write(q.w, "HALTED", rows[q.w].action)
        /\ Step(q, [q EXCEPT !.pc = "reply", !.ok = TRUE, !.data[q.w].ver = rows'[q.w].ver])
        /\ UNCHANGED faults
     \/ /\ Fault
        /\ Answer(q, FALSE)
        /\ UNCHANGED rows
  /\ UNCHANGED <<provider, trail, told, tasks, detail, queue, clicks>>

(* overrideWorkflow: no page calls it, clients of the API do.              *)
OverrideWorkflow(w, a) ==
  /\ Exists(w)
  /\ clicks.decisions < MaxDecisions
  /\ Click("decisions")
  /\ Write(w, "SCHEDULED", a)
  /\ UNCHANGED <<provider, trail, told, tasks, detail, queue, net, faults>>

(* The connection fails: before the request arrives, while it is served    *)
(* (its context is cancelled and what remains of it fails), or after it.   *)
Disconnect(q) ==
  /\ q.pc # "reply" \/ q.ok
  /\ Fault
  /\ Answer(q, FALSE)
  /\ UNCHANGED <<server, tasks, detail, queue, clicks>>

Serve(q) ==
  \/ ServeLoad(q)
  \/ ApproveWorkflow(q)
  \/ ApproveCharge(q)
  \/ ApproveWrite(q)
  \/ RejectWorkflow(q)
-----------------------------------------------------------------------------
(* Answers arriving at the pages, in any order.                            *)

(* getWorkflowDetail: any error gives a synthetic workflow.                *)
DetailOf(q) ==
  IF q.ok THEN [real |-> TRUE, status |-> q.data[q.w].status, ver |-> q.data[q.w].ver,
                old |-> q.old]
  ELSE [SyntheticDetail EXCEPT !.old = q.old]

(* A bug variant of LandWorkflow: every load enables the buttons.          *)
LandWorkflowUnlocking(q) ==
  /\ q.tab = "detail" /\ q.kind = "load" /\ q.pc = "reply"
  /\ detail' = [detail EXCEPT !.view = DetailOf(q), !.actionLoading = FALSE]
  /\ net' = net \ {q}
  /\ UNCHANGED <<server, tasks, queue, clicks, faults>>

(* The rest of loadWorkflow; the load a handler waits for ends the handler.*)
LandWorkflow(q) ==
  /\ q.tab = "detail" /\ q.kind = "load" /\ q.pc = "reply"
  /\ detail' = [detail EXCEPT !.view = DetailOf(q),
                              !.actionLoading = @ /\ ~q.holds]
  /\ net' = net \ {q}
  /\ UNCHANGED <<server, tasks, queue, clicks, faults>>

Tell(q) ==
  told' = IF q.ok /\ q.kind = "approve" THEN told + 1 ELSE told

(* A bug variant of DecisionAnswered: the page is not reloaded.            *)
DecisionAnsweredNoReload(q) ==
  /\ q.tab = "detail" /\ q.kind \in Kinds /\ q.pc = "reply"
  /\ detail' = [detail EXCEPT !.actionLoading = FALSE,
                              !.wrote = IF q.ok THEN q.data[q.w].ver ELSE @]
  /\ net' = net \ {q}
  /\ Tell(q)
  /\ UNCHANGED <<rows, provider, trail, tasks, queue, clicks, faults>>

(* The rest of handleApprove and handleReject: the operator is told of the *)
(* success, then the page reloads; an error ends the handler at once.      *)
DecisionAnswered(q) ==
  /\ q.tab = "detail" /\ q.kind \in Kinds /\ q.pc = "reply"
  /\ IF q.ok
     THEN /\ detail' = [detail EXCEPT !.wrote = q.data[q.w].ver,
                                      !.view.old = TRUE]
          /\ net' = {[o EXCEPT !.old = (o.tab = "detail")] : o \in net \ {q}}
                      \cup {Request("detail", "load", q.w, NoAction, TRUE)}
     ELSE /\ detail' = [detail EXCEPT !.actionLoading = FALSE]
          /\ net' = net \ {q}
  /\ Tell(q)
  /\ UNCHANGED <<rows, provider, trail, tasks, queue, clicks, faults>>

(* getInterventions: the escalated workflows above the synthetic ones,     *)
(* which alone remain after an error.                                      *)
InterventionsOf(q) ==
  {w \in Slots : q.ok /\ q.data[w].ver > 0 /\ q.data[w].status = "ESCALATED"}

LandData(q) ==
  /\ q.tab = "queue" /\ q.kind = "load" /\ q.pc = "reply"
  /\ queue' = [queue EXCEPT !.items = InterventionsOf(q),
                            !.actionLoadingId = IF q.holds THEN Absent ELSE @]
  /\ net' = net \ {q}
  /\ UNCHANGED <<server, tasks, detail, clicks, faults>>

InlineAnswered(q) ==
  /\ q.tab = "queue" /\ q.kind \in Kinds /\ q.pc = "reply"
  /\ IF q.ok
     THEN /\ net' = (net \ {q}) \cup {Request("queue", "load", 1, NoAction, TRUE)}
          /\ UNCHANGED queue
     ELSE /\ queue' = [queue EXCEPT !.actionLoadingId = Absent]
          /\ net' = net \ {q}
  /\ Tell(q)
  /\ UNCHANGED <<rows, provider, trail, tasks, detail, clicks, faults>>

Land(q) ==
  \/ LandWorkflow(q)
  \/ DecisionAnswered(q)
  \/ LandData(q)
  \/ InlineAnswered(q)
-----------------------------------------------------------------------------
Operator ==
  \/ \E w \in Slots : LoadWorkflow(w)
  \/ \E kind \in Kinds, a \in Strategy \cup {NoAction} : HandleDecision(kind, a)
  \/ LoadData
  \/ \E kind \in Kinds, w \in Slots : HandleInline(kind, w)
  \/ \E w \in Slots, a \in Strategy : OverrideWorkflow(w, a)

Next ==
  \/ \E t \in Tasks : Worker(t)
  \/ Operator
  \/ \E q \in net : Serve(q) \/ Land(q) \/ Disconnect(q)

Spec == Init /\ [][Next]_vars

(* The API serves what it has received and the browser runs the handlers   *)
(* of what has arrived; the operator and the worker owe nothing.           *)
FairSpec ==
  /\ Spec
  /\ WF_vars(\E q \in net : Serve(q))
  /\ WF_vars(\E q \in net : Land(q))
-----------------------------------------------------------------------------
(* The requests a handler of the detail page waits for.                    *)
Held == {q \in net : q.tab = "detail" /\ q.holds}

(* Approvals that were answered, and of which the operator may be told.    *)
Dispatched == {q \in net : q.kind = "approve" /\ q.pc = "reply" /\ q.ok}

(* The detail page's buttons are disabled exactly while one handler is at  *)
(* work, from its click to the end of its reload: no load of the Refresh   *)
(* button enables them early, and no second decision is under way.         *)
OneDecisionAtATime ==
  /\ detail.actionLoading <=> Held # {}
  /\ Cardinality(Held) <= 1

(* Once a decision of the detail page is over, the page shows its effect   *)
(* or a later state, provided that what it shows comes from the reload or  *)
(* from a later load and not from an older one overtaken by it.            *)
ReadYourWrites ==
  ~detail.actionLoading /\ detail.view.real /\ ~detail.view.old
    => detail.view.ver >= detail.wrote

(* However often the operator approves on one detail page, and whatever    *)
(* fails in between, the page's approvals capture the payment once: each   *)
(* finds what the one before it did. (The queue page, whose rows do not    *)
(* wait for one another, or the worker may capture it once more.)          *)
DetailCapturesOnce == provider.byDetail <= 1

(* What the operator is told of as dispatched is on record. An action is   *)
(* recorded as EXECUTED only if the provider has captured the payment.     *)
(* While it has not, each approval told as dispatched has a FAILED row, or *)
(* a failure of its own lost it.                                           *)
ApprovalsOnRecord ==
  /\ trail.executed > 0 => provider.captured
  /\ ~provider.captured => told <= trail.failed + faults

(* The retries of a task go on with the workflow the task has created,     *)
(* whatever became of it: each task creates at most one, and one more for  *)
(* every lookup that failed.                                               *)
RetriesReuseWorkflow == \A t \in Tasks : tasks[t].created <= 1 + tasks[t].blind

(* What is kept of a task: it works on a workflow that exists, and if it   *)
(* has created one it creates another only after a failed lookup.          *)
TaskInv(x) ==
  /\ x.pc \in {"analyse", "execute", "running"} => x.w \in Slots /\ Exists(x.w)
  /\ x.created <= 1 + x.blind
  /\ x.pc = "create" => x.created <= x.blind
  /\ x.created > x.blind => \E w \in Slots : Exists(w)

(* What the worker's steps keep: slots are filled in order, and the newest *)
(* workflow can be found.                                                  *)
WorkerInv ==
  /\ \A v, w \in Slots : Exists(w) /\ v < w => Exists(v)
  /\ (\E w \in Slots : Exists(w)) => LatestWorkflow # {}
  /\ \A t \in Tasks : TaskInv(tasks[t])

(* What the provider and the API keep: a payment the provider declines is  *)
(* never captured, an attempt of the detail page is made before any other  *)
(* of this page succeeded, and answered approvals are on record.           *)
ChargeInv ==
  /\ provider.captured => ~provider.terminal
  /\ provider.byDetail > 0 => provider.captured
  /\ DetailCapturesOnce
  /\ \A q \in net :
       /\ q.pc = "charge" /\ q.tab = "detail" => provider.byDetail = 0
       /\ q.executed => provider.captured
  /\ trail.executed > 0 => provider.captured
  /\ ~provider.captured => told + Cardinality(Dispatched) <= trail.failed + faults

(* What the pages and the API keep of the requests: they have numbers of   *)
(* their own, a decision is held by its handler and is about a workflow    *)
(* that exists, and at most one is held by the detail page.                *)
NetInv ==
  /\ IsFiniteSet(net)
  /\ \A q, r \in net : q.id = r.id => q = r
  /\ \A q \in net : /\ q.tab = "detail" => q.w = detail.w
                    /\ q.kind \in Kinds => q.holds /\ Exists(q.w)
                    /\ q.pc \in {"charge", "write"} => q.kind = "approve"
  /\ detail.w # Absent => Exists(detail.w)
  /\ detail.view # NoView => detail.w # Absent
  /\ detail.actionLoading => detail.view # NoView
  /\ detail.actionLoading <=> Held # {}
  /\ \A q, r \in Held : q = r

(* What a request was answered is not newer than the rows, and an answered *)
(* load that is not older than the last decision has what it wrote.        *)
RequestCopies(q) ==
  /\ \A w \in Slots : q.data[w].ver <= rows[w].ver
  /\ q.kind = "load" /\ q.tab = "detail" /\ q.pc = "reply" /\ q.ok /\ ~q.old
       => q.data[q.w].ver >= detail.wrote

(* So is what the pages show.                                              *)
CopiesInv ==
  /\ IF detail.w = Absent THEN detail.wrote = 0 ELSE detail.wrote <= rows[detail.w].ver
  /\ detail.view.real /\ ~detail.view.old => detail.view.ver >= detail.wrote
  /\ \A w \in queue.items : Exists(w)
  /\ \A q \in net : RequestCopies(q)

(* Whatever happens to the requests, the detail page's buttons come back.  *)
ButtonsComeBack == detail.actionLoading ~> ~detail.actionLoading
=============================================================================
