------------------------------ MODULE Executor ------------------------------
(***************************************************************************)
(* RecoveryExecutor.ExecuteWorkflow (apps/worker/internal/executor) run by *)
(* several asynq workers for one recovery workflow of one payment, against *)
(* the local payment provider.                                             *)
(*                                                                         *)
(* The function takes no lock and opens no transaction around its checks:  *)
(* every SELECT, UPDATE, INSERT, short transaction and provider call is a  *)
(* step of its own here, named by the program counter pc[w], and the       *)
(* steps of different workers interleave freely.  Each step has the        *)
(* parameter ok: ok = FALSE is the failure of the statement or call, with  *)
(* what the code then does (nearly always: log it and go on).              *)
(***************************************************************************)
EXTENDS LocalProvider, PolicyEngine, FiniteSets, Sequences

CONSTANTS
  Workers,     \* goroutines that may execute the workflow at the same time
  MaxRetries,  \* policies.max_retries of the merchant
  Confidence,  \* policies.confidence_threshold, in percent
  AmountLimit, \* policies.amount_threshold
  MaxRuns,     \* bound on the number of task deliveries
  MaxFaults,   \* bound on failed statements and worker crashes
  Inputs       \* what the rows may say that the executor never writes

ASSUME ConstantsAssumption ==
  /\ IsFiniteSet(Workers)
  /\ MaxRetries \in Nat \ {0}
  /\ Confidence \in 0..100
  /\ AmountLimit \in Int
  /\ MaxRuns \in Nat
  /\ MaxFaults \in Nat
  /\ Inputs \subseteq [action : ActionTypes \cup {"none"}, code : STRING,
                       amount : Int, confidence : 0..100, fraud : 0..100,
                       optOut : BOOLEAN, email : BOOLEAN]

VARIABLES
  wf,            \* recovery_workflows.status
  payment,       \* payments.status
  subscription,  \* subscriptions.status of the payment's subscription
  actions,       \* the workflow's recovery_actions rows, in insertion order
  outcomes,      \* recovery_outcomes rows; row 0 is a NULL action_id
  trail,         \* audit_events: how many rows of each action
  input,         \* the member of Inputs this behaviour is about
  pc,            \* the step each worker's call is at
  row,           \* actionUUID: the recovery_actions row it inserted, or 0
  count,         \* previousAttemptsCount
  limit,         \* merchantPol.MaxRetries
  seen,          \* the provider's last answer
  act,           \* actionStr
  entry,         \* the audit entry about to be appended
  runs,          \* deliveries so far
  faults         \* failed statements and crashes so far

dbVars == <<wf, payment, subscription, actions, outcomes, trail, input>>
callVars == <<row, count, limit, seen, act, entry>>
vars == <<local, charges, wf, payment, subscription, actions, outcomes, trail, input,
          pc, row, count, limit, seen, act, entry, runs, faults>>

WorkflowStatus == {"ANALYZING", "SCHEDULED", "ESCALATED", "RECOVERED", "HALTED", "FAILED"}

(* CHECK 1 skips these. *)
Resolved == {"RECOVERED", "HALTED", "FAILED"}

AuditActions == {"RECONCILIATION_ALREADY_CAPTURED", "POLICY_EVALUATED_OPT_OUT",
                 "MAX_RETRIES_EXCEEDED", "POLICY_EVALUATED_BLOCK",
                 "POLICY_EVALUATED_ESCALATE", "RECOVERY_EXECUTED",
                 "CUSTOMER_NOTIFICATION_SENT", "RECOVERY_OUTCOME_RECORDED"}

ActionRow == [status : {"PENDING", "EXECUTED", "FAILED"}, type : ActionTypes,
              attempt : Nat \ {0}]
OutcomeRow == [row : Nat, recovered : BOOLEAN]

Steps == {"idle", "get", "getRead", "getInit", "reconcile", "optOut", "count",
          "exhausted", "policy", "block", "escalate", "insert", "log", "retry",
          "retryRead", "retryInit", "charge", "mark", "notify", "verify", "recover", "fail", "outcome"}

Answers == PaymentStatus \cup {"none", "ERR", "SUCCESS"}

TablesOK ==
  /\ ProviderTypeOK
  /\ wf \in WorkflowStatus
  /\ payment \in PaymentStatus
  /\ subscription \in {"PAST_DUE", "ACTIVE"}
  /\ actions \in Seq(ActionRow)
  /\ outcomes \in Seq(OutcomeRow)
  /\ trail \in [AuditActions -> Nat]
  /\ input \in Inputs

CallsOK ==
  /\ pc \in [Workers -> Steps]
  /\ row \in [Workers -> Nat]
  /\ count \in [Workers -> Nat]
  /\ limit \in [Workers -> Nat]
  /\ seen \in [Workers -> Answers]
  /\ act \in [Workers -> ActionTypes]
  /\ entry \in [Workers -> AuditActions \cup {"none"}]

TypeOK == TablesOK /\ CallsOK /\ runs \in Nat /\ faults \in Nat

(* A workflow the pipeline, a webhook or an operator left open, with the   *)
(* payment in any state: an approval may reopen a captured payment.        *)
Init ==
  /\ ProviderInit
  /\ wf \in WorkflowStatus \ Resolved
  /\ payment \in PaymentStatus
  /\ subscription = "PAST_DUE"
  /\ actions = <<>>
  /\ outcomes = <<>>
  /\ trail = [a \in AuditActions |-> 0]
  /\ input \in Inputs
  /\ pc = [w \in Workers |-> "idle"]
  /\ row = [w \in Workers |-> 0]
  /\ count = [w \in Workers |-> 0]
  /\ limit = [w \in Workers |-> 0]
  /\ seen = [w \in Workers |-> "none"]
  /\ act = [w \in Workers |-> "NO_ACTION"]
  /\ entry = [w \in Workers |-> "none"]
  /\ runs = 0
  /\ faults = 0

-----------------------------------------------------------------------------
(* Failure of the statement or call of the current step.                   *)
Fault(ok) ==
  /\ ok \/ faults < MaxFaults
  /\ faults' = IF ok THEN faults ELSE faults + 1

(* The call goes on at step p.                                             *)
Goto(w, p) == pc' = [pc EXCEPT ![w] = p]

(* The call goes on by appending an audit entry.                           *)
GotoLog(w, e) ==
  /\ Goto(w, "log")
  /\ entry' = [entry EXCEPT ![w] = e]
  /\ UNCHANGED <<row, count, limit, seen, act>>

(* The call ends and its locals with it.                                   *)
Return(w) ==
  /\ Goto(w, "idle")
  /\ row' = [row EXCEPT ![w] = 0]
  /\ count' = [count EXCEPT ![w] = 0]
  /\ limit' = [limit EXCEPT ![w] = 0]
  /\ seen' = [seen EXCEPT ![w] = "none"]
  /\ act' = [act EXCEPT ![w] = "NO_ACTION"]
  /\ entry' = [entry EXCEPT ![w] = "none"]

(* selected_action, or DELAYED_RETRY when the column is NULL or empty.     *)
SelectedAction == IF input.action = "none" THEN "DELAYED_RETRY" ELSE input.action

(* Step 1 and CHECK 1: load the context, skip a resolved workflow.  A load *)
(* that fails returns the error, which is all a delivery then does.        *)
Load(w, ok) ==
  /\ pc[w] = "idle"
  /\ runs < MaxRuns
  /\ runs' = runs + 1
  /\ Fault(ok)
  /\ IF ok /\ wf \notin Resolved
     THEN /\ Goto(w, "get")
          /\ act' = [act EXCEPT ![w] = SelectedAction]
     ELSE UNCHANGED <<pc, act>>
  /\ UNCHANGED <<dbVars, providerVars, row, count, limit, seen, entry>>

(* What follows the provider's answer in CHECK 2 and CHECK 3.              *)
AfterReconciliation(status, action) ==
  IF status = "CAPTURED" THEN "reconcile"
  ELSE IF input.optOut /\ action \in Communication THEN "optOut"
  ELSE "count"

(* A bug variant of AfterRetryRead: the captured test is dropped.          *)
AfterRetryReadUnchecked(status) == IF status = "ERR" THEN "mark" ELSE "charge"

(* What follows GetPayment inside CreateRetryAttemptWithCustomer: an error *)
(* and a captured payment return at once.                                  *)
AfterRetryRead(status) == IF status \in {"ERR", "CAPTURED"} THEN "mark" ELSE "charge"

(* The answer of GetPayment, in either of its two callers.                 *)
Answer(w, status) ==
  \/ /\ pc[w] \in {"get", "getRead", "getInit"}
     /\ Goto(w, AfterReconciliation(status, act[w]))
     /\ seen' = [seen EXCEPT ![w] = "none"]
  \/ /\ pc[w] \in {"retry", "retryRead", "retryInit"}
     /\ Goto(w, AfterRetryRead(status))
     /\ seen' = [seen EXCEPT ![w] = IF status = "CAPTURED" THEN "SUCCESS" ELSE status]

(* LocalPaymentProvider.GetPayment: the provider's row, or, when there is  *)
(* none yet, what initializeFromApplicationPayment makes of payments.      *)
GetPayment(w, ok) ==
  /\ pc[w] \in {"get", "retry"}
  /\ Fault(ok)
  /\ \/ ~ok /\ Answer(w, "ERR")
     \/ ok /\ local # "ABSENT" /\ Answer(w, local)
     \/ /\ ok /\ local = "ABSENT"
        /\ Goto(w, IF pc[w] = "get" THEN "getRead" ELSE "retryRead")
        /\ UNCHANGED seen
  /\ UNCHANGED <<dbVars, providerVars, row, count, limit, act, entry, runs>>

(* Its SELECT from payments; the upsert is a later step.                   *)
ReadPayment(w, ok) ==
  /\ pc[w] \in {"getRead", "retryRead"}
  /\ Fault(ok)
  /\ \/ ~ok /\ Answer(w, "ERR")
     \/ /\ ok
        /\ Goto(w, IF pc[w] = "getRead" THEN "getInit" ELSE "retryInit")
        /\ seen' = [seen EXCEPT ![w] = payment]
  /\ UNCHANGED <<dbVars, providerVars, row, count, limit, act, entry, runs>>

(* initializeFromApplicationPayment answers with the status it read, not   *)
(* with the one the row has after the upsert.                              *)
StoreInitial(w, ok) ==
  /\ pc[w] \in {"getInit", "retryInit"}
  /\ Fault(ok)
  /\ \/ ok /\ InitializeFromApplicationPayment(seen[w]) /\ Answer(w, seen[w])
     \/ ~ok /\ Answer(w, "ERR") /\ UNCHANGED providerVars
  /\ UNCHANGED <<dbVars, row, count, limit, act, entry, runs>>

(* The reconciliation transaction: it does not touch the subscription.     *)
Reconcile(w, ok) ==
  /\ pc[w] = "reconcile"
  /\ Fault(ok)
  /\ IF ok THEN /\ payment' = "CAPTURED"
                /\ wf' = "RECOVERED"
                /\ outcomes' = Append(outcomes, [row |-> 0, recovered |-> TRUE])
           ELSE UNCHANGED <<payment, wf, outcomes>>
  /\ GotoLog(w, "RECONCILIATION_ALREADY_CAPTURED")
  /\ UNCHANGED <<subscription, actions, trail, input, providerVars, runs>>

(* An unconditional UPDATE of the workflow status followed by its audit    *)
(* entry: how every refused execution ends.                                *)
Refuse(w, ok, at, status, e) ==
  /\ pc[w] = at
  /\ Fault(ok)
  /\ wf' = IF ok THEN status ELSE wf
  /\ GotoLog(w, e)
  /\ UNCHANGED <<payment, subscription, actions, outcomes, trail, input, providerVars, runs>>

RefuseOptOut(w, ok)    == Refuse(w, ok, "optOut", "HALTED", "POLICY_EVALUATED_OPT_OUT")
RefuseExhausted(w, ok) == Refuse(w, ok, "exhausted", "FAILED", "MAX_RETRIES_EXCEEDED")
RefuseBlocked(w, ok)   == Refuse(w, ok, "block", "HALTED", "POLICY_EVALUATED_BLOCK")
RefuseEscalate(w, ok)  == Refuse(w, ok, "escalate", "ESCALATED", "POLICY_EVALUATED_ESCALATE")

(* A bug variant of Exhausted: off by one.                                 *)
ExhaustedOffByOne(n, max) == n > max

(* A bug variant of Exhausted: the attempt under way is counted in both    *)
(* comparisons.                                                            *)
ExhaustedEarly(n, max) == n + 1 >= max

(* The comparison of CHECK 4 and of step 9.                                *)
Exhausted(n, max) == n >= max

(* SELECT COUNT of the workflow's recovery_actions, whatever their status. *)
PreviousAttempts == Len(actions)

(* CHECK 4: the number of the workflow's actions against the policy.  A    *)
(* failed count reads as 0, a failed policy read as the default policy.    *)
CountAttempts(w, ok) ==
  /\ pc[w] = "count"
  /\ Fault(ok)
  /\ \E c \in {PreviousAttempts} \cup (IF ok THEN {} ELSE {0}),
        l \in {MaxRetries} \cup (IF ok THEN {} ELSE {DefaultPolicy.maxRetries}) :
       /\ Goto(w, IF Exhausted(c, l) THEN "exhausted" ELSE "policy")
       /\ count' = [count EXCEPT ![w] = c]
       /\ limit' = [limit EXCEPT ![w] = l]
  /\ UNCHANGED <<dbVars, providerVars, row, seen, act, entry, runs>>

DefaultConfidence == 85

(* The merchant's policies row.                                            *)
MerchantPolicy ==
  [maxRetries |-> MaxRetries, confidence |-> Confidence, amount |-> AmountLimit]

(* Actions of the type already EXECUTED for the payment.                   *)
ExecutedCount(type) ==
  Cardinality({i \in 1..Len(actions) : actions[i].type = type /\ actions[i].status = "EXECUTED"})

(* The policy engine called with what the executor passes on: no attempt   *)
(* number and no customer history, so neither the engine's own retry limit *)
(* nor its MODIFY rule can apply here.                                     *)
PolicyDecision(pol, action, confidence, db) ==
  Evaluate(pol,
           db,
           [amount |-> input.amount, attempt |-> 0, failedPayments |-> 0],
           [action |-> action, confidence |-> confidence])

(* What follows the decision in CHECK 5.                                   *)
AfterPolicy(decision) ==
  IF decision = "BLOCK" THEN "block"
  ELSE IF decision = "ESCALATE" THEN "escalate"
  ELSE "insert"

(* CHECK 5.  A query of the engine that fails lets its check pass; without *)
(* an ai_decisions row the confidence is DefaultConfidence.                *)
EvaluatePolicy(w, ok) ==
  /\ pc[w] = "policy"
  /\ Fault(ok)
  /\ \E pol \in {MerchantPolicy} \cup (IF ok THEN {} ELSE {DefaultPolicy}),
        optOut \in {input.optOut} \cup (IF ok THEN {} ELSE {FALSE}),
        fraud \in {input.fraud} \cup (IF ok THEN {} ELSE {0}),
        executed \in {ExecutedCount(act[w])} \cup (IF ok THEN {} ELSE {0}),
        confidence \in {input.confidence} \cup (IF ok THEN {} ELSE {DefaultConfidence}) :
       LET decision == PolicyDecision(pol, act[w], confidence,
                         [optOut |-> optOut, fraud |-> fraud, executed |-> executed])
       IN /\ Goto(w, AfterPolicy(decision))
          /\ act' = [act EXCEPT ![w] = EffectiveAction(decision, act[w])]
  /\ UNCHANGED <<dbVars, providerVars, row, count, limit, seen, entry, runs>>

(* Step 7: the PENDING row; its failure is the only one that is returned.  *)
InsertAction(w, ok) ==
  /\ pc[w] = "insert"
  /\ Fault(ok)
  /\ IF ok THEN /\ actions' = Append(actions, [status |-> "PENDING", type |-> act[w],
                                               attempt |-> count[w] + 1])
                /\ Goto(w, "log")
                /\ row' = [row EXCEPT ![w] = Len(actions) + 1]
                /\ entry' = [entry EXCEPT ![w] = "RECOVERY_EXECUTED"]
                /\ UNCHANGED <<count, limit, seen, act>>
           ELSE Return(w) /\ UNCHANGED actions
  /\ UNCHANGED <<wf, payment, subscription, outcomes, trail, input, providerVars, runs>>

(* Where the call goes on after an entry that does not end it.             *)
AfterEntry(e) == IF e = "RECOVERY_EXECUTED" THEN "retry" ELSE "verify"

(* The entries after which the function goes on; it returns after others.  *)
Continues(e) == e \in {"RECOVERY_EXECUTED", "CUSTOMER_NOTIFICATION_SENT"}

(* AppendAuditLog; an append that fails is ignored.                        *)
AppendAuditLog(w, ok) ==
  /\ pc[w] = "log"
  /\ Fault(ok)
  /\ trail' = IF ok THEN [trail EXCEPT ![entry[w]] = @ + 1] ELSE trail
  /\ IF Continues(entry[w])
     THEN /\ Goto(w, AfterEntry(entry[w]))
          /\ entry' = [entry EXCEPT ![w] = "none"]
          /\ UNCHANGED <<row, count, limit, seen, act>>
     ELSE Return(w)
  /\ UNCHANGED <<wf, payment, subscription, actions, outcomes, input, providerVars, runs>>

(* The provider's charge.  A failed commit leaves it open whether the      *)
(* transaction took effect.                                                *)
Charge(w, ok) ==
  /\ pc[w] = "charge"
  /\ Fault(ok)
  /\ LET success == RetrySuccess(input.code, input.amount)
     IN /\ RecordAttempt(success) \/ (~ok /\ UNCHANGED providerVars)
        /\ seen' = [seen EXCEPT ![w] = IF ~ok THEN "ERR"
                                       ELSE IF success THEN "SUCCESS" ELSE "FAILED"]
  /\ Goto(w, "mark")
  /\ UNCHANGED <<dbVars, row, count, limit, act, entry, runs>>

(* The row of an action whose provider call answered s.                    *)
Marked(action, s) ==
  [status |-> IF s \in {"ERR", "FAILED"} THEN "FAILED" ELSE "EXECUTED",
   type |-> action.type, attempt |-> action.attempt]

(* The result is stored in the row; then the customer is notified unless   *)
(* there is nothing to say, nobody to say it to, or an opt-out.            *)
MarkAction(w, ok) ==
  /\ pc[w] = "mark"
  /\ Fault(ok)
  /\ actions' = IF ok THEN [actions EXCEPT ![row[w]] = Marked(actions[row[w]], seen[w])]
                      ELSE actions
  /\ Goto(w, IF act[w] # "NO_ACTION" /\ ~input.optOut /\ input.email
             THEN "notify" ELSE "verify")
  /\ seen' = [seen EXCEPT ![w] = "none"]
  /\ UNCHANGED <<wf, payment, subscription, outcomes, trail, input, providerVars,
                 row, count, limit, act, entry, runs>>

(* SendRecoveryNotification; only a dispatch that was sent is audited.     *)
Notify(w, ok) ==
  /\ pc[w] = "notify"
  /\ Fault(ok)
  /\ IF ok THEN GotoLog(w, "CUSTOMER_NOTIFICATION_SENT")
           ELSE Goto(w, "verify") /\ UNCHANGED callVars
  /\ UNCHANGED <<dbVars, providerVars, runs>>

(* A bug variant of AfterVerification: the retry's success is trusted      *)
(* without asking the provider.                                            *)
AfterVerificationTrusting(ok) == "recover"

(* A bug variant of AfterVerification: another charge at once, without a   *)
(* new action.                                                             *)
AfterVerificationRetrying(ok) == IF ok /\ local = "CAPTURED" THEN "recover" ELSE "retry"

(* A bug variant of AfterVerification: the application's own row is asked. *)
AfterVerificationLocal(ok) == IF ok /\ payment = "CAPTURED" THEN "recover" ELSE "fail"

(* Step 8: only a CAPTURED row of the provider leads to a recovery.        *)
AfterVerification(ok) == IF ok /\ local = "CAPTURED" THEN "recover" ELSE "fail"

VerifyPayment(w, ok) ==
  /\ pc[w] = "verify"
  /\ Fault(ok)
  /\ Goto(w, AfterVerification(ok))
  /\ UNCHANGED <<dbVars, providerVars, callVars, runs>>

(* A bug variant of RecoveryWrites: payments is forgotten.                 *)
RecoveryWritesNoPayment(w) ==
  /\ payment' = payment
  /\ wf' = "RECOVERED"
  /\ subscription' = "ACTIVE"
  /\ outcomes' = Append(outcomes, [row |-> row[w], recovered |-> TRUE])

(* The transaction of a verified recovery.                                 *)
RecoveryWrites(w) ==
  /\ payment' = "CAPTURED"
  /\ wf' = "RECOVERED"
  /\ subscription' = "ACTIVE"
  /\ outcomes' = Append(outcomes, [row |-> row[w], recovered |-> TRUE])

RecordRecovery(w, ok) ==
  /\ pc[w] = "recover"
  /\ Fault(ok)
  /\ IF ok THEN RecoveryWrites(w) ELSE UNCHANGED <<payment, wf, subscription, outcomes>>
  /\ GotoLog(w, "RECOVERY_OUTCOME_RECORDED")
  /\ UNCHANGED <<actions, trail, input, providerVars, runs>>

(* Step 9: the workflow status, whatever another worker made of it.        *)
RecordFailure(w, ok) ==
  /\ pc[w] = "fail"
  /\ Fault(ok)
  /\ wf' = IF ~ok THEN wf
           ELSE IF Exhausted(count[w] + 1, limit[w]) THEN "FAILED" ELSE "SCHEDULED"
  /\ Goto(w, "outcome")
  /\ UNCHANGED <<payment, subscription, actions, outcomes, trail, input, providerVars,
                 callVars, runs>>

RecordFailedOutcome(w, ok) ==
  /\ pc[w] = "outcome"
  /\ Fault(ok)
  /\ outcomes' = IF ok THEN Append(outcomes, [row |-> row[w], recovered |-> FALSE])
                       ELSE outcomes
  /\ GotoLog(w, "RECOVERY_OUTCOME_RECORDED")
  /\ UNCHANGED <<wf, payment, subscription, actions, trail, input, providerVars, runs>>

(* The worker process dies; what it wrote stays.                           *)
Crash(w) ==
  /\ pc[w] # "idle"
  /\ Fault(FALSE)
  /\ Return(w)
  /\ UNCHANGED <<dbVars, providerVars, runs>>

Step(w, ok) ==
  \/ GetPayment(w, ok)      \/ ReadPayment(w, ok)     \/ StoreInitial(w, ok)
  \/ Reconcile(w, ok)
  \/ RefuseOptOut(w, ok)    \/ CountAttempts(w, ok)   \/ RefuseExhausted(w, ok)
  \/ EvaluatePolicy(w, ok)  \/ RefuseBlocked(w, ok)   \/ RefuseEscalate(w, ok)
  \/ InsertAction(w, ok)    \/ AppendAuditLog(w, ok)  \/ Charge(w, ok)
  \/ MarkAction(w, ok)      \/ Notify(w, ok)          \/ VerifyPayment(w, ok)
  \/ RecordRecovery(w, ok)  \/ RecordFailure(w, ok)   \/ RecordFailedOutcome(w, ok)

Next ==
  \E w \in Workers :
    \/ \E ok \in BOOLEAN : Load(w, ok) \/ Step(w, ok)
    \/ Crash(w)

Spec == Init /\ [][Next]_vars

(* asynq keeps delivering while a task is queued, and a worker that has    *)
(* begun a call goes on with it; neither failures nor crashes are owed.    *)
Fairness ==
  /\ WF_vars(\E w \in Workers : Load(w, TRUE))
  /\ \A w \in Workers : WF_vars(Step(w, TRUE))

FairSpec == Spec /\ Fairness

-----------------------------------------------------------------------------
(* Safety.                                                                 *)

(* No false recovery: a RECOVERED workflow and an outcome row that claims  *)
(* money mean that the provider's own record is CAPTURED, for any          *)
(* interleaving of executions and any failed statement (executor.go, step  *)
(* 3, 8 and 9).                                                            *)
NoFalseRecovery ==
  (wf = "RECOVERED" \/ \E i \in 1..Len(outcomes) : outcomes[i].recovered)
    => local = "CAPTURED"

(* The retry limit is checked (CHECK 4) before the row is inserted and no  *)
(* lock spans the two, so the limit can be overrun, but by less than one   *)
(* attempt per worker plus one per failed read of the count.               *)
AttemptBound == Len(actions) <= MaxRetries + Cardinality(Workers) - 1 + faults

TotalCharges == charges["SUCCESS"] + charges["FAILED"]

(* Write-ahead: the provider is never asked to charge more often than      *)
(* recovery_actions has rows, nor, statement failures aside, than the      *)
(* audit trail has RECOVERY_EXECUTED entries (step 7).                     *)
ChargesAccountedFor ==
  /\ TotalCharges <= Len(actions)
  /\ TotalCharges <= trail["RECOVERY_EXECUTED"] + faults

(* The customer is charged at most once per worker, crashes, redeliveries  *)
(* and undecided commits included: CreateRetryAttemptWithCustomer re-reads *)
(* the provider's row, and only calls already past that read can charge a  *)
(* captured payment again.                                                 *)
SuccessBound == charges["SUCCESS"] <= Cardinality(Workers)

(* Once the provider has captured the payment no step takes that back: not *)
(* the unconditional UPDATE of a later attempt, nor the upsert of a worker *)
(* that read the application's row before (local.go).                      *)
CapturedIsFinal == [][local = "CAPTURED" => local' = "CAPTURED"]_local

AllIdle == \A w \in Workers : pc[w] = "idle"

(* When every execution has ended and nothing failed, a capture at the     *)
(* provider is known to the application, whichever worker made it and      *)
(* whatever the others wrote (step 9 after step 8).                        *)
CaptureIsRecorded ==
  AllIdle /\ faults = 0 /\ local = "CAPTURED" => payment = "CAPTURED"

(* A workflow is given up only after the merchant's number of attempts,    *)
(* although step 9 compares a count that is several calls old.             *)
NoEarlyFailure == wf = "FAILED" /\ faults = 0 => Len(actions) >= MaxRetries

-----------------------------------------------------------------------------
(* The inductive invariant behind these properties.                        *)

Storing(w) == pc[w] \in {"getInit", "retryInit"}

HoldsRow(w) ==
  \/ pc[w] \in {"retry", "retryRead", "retryInit", "charge", "mark", "notify",
                "verify", "recover", "fail", "outcome"}
  \/ pc[w] = "log" /\ entry[w] \in {"RECOVERY_EXECUTED", "CUSTOMER_NOTIFICATION_SENT"}

(* What a call holds when it is at a step.                                 *)
LocalsInv ==
  \A w \in Workers :
    /\ Storing(w) => seen[w] \in PaymentStatus
    /\ pc[w] = "log" => entry[w] \in AuditActions
    /\ HoldsRow(w) => row[w] \in 1..Len(actions)

Declined == ~RetrySuccess(input.code, input.amount)

(* How the provider's row, the application's row and the reads in flight   *)
(* agree.  payments cannot change while the provider has no row, so every  *)
(* worker about to store the initial status read the same one; and a call  *)
(* about to charge a card that will be declined has not been overtaken by  *)
(* a capture, since then only payments itself can be its source.           *)
CaptureInv ==
  /\ payment = "CAPTURED" => local \in {"ABSENT", "CAPTURED"}
  /\ Declined /\ local = "CAPTURED" => payment = "CAPTURED"
  /\ \A w \in Workers :
       /\ Storing(w) /\ local = "ABSENT" => seen[w] = payment
       /\ Storing(w) /\ local # "ABSENT" /\ seen[w] = "CAPTURED" => local = "CAPTURED"
       /\ Storing(w) /\ Declined /\ local = "CAPTURED" => seen[w] = "CAPTURED"
       /\ pc[w] = "charge" => local # "ABSENT"
       /\ pc[w] = "charge" /\ Declined => local # "CAPTURED"
       /\ pc[w] \in {"reconcile", "recover"} => local = "CAPTURED"

(* Calls past CHECK 4 that have yet to insert their row.                   *)
PastLimitCheck == {w \in Workers : pc[w] \in {"policy", "insert"}}

AttemptInv ==
  Len(actions) + Cardinality(PastLimitCheck)
    <= MaxRetries + Cardinality(Workers) - 1 + faults

(* Calls that may still charge a payment another call has captured.        *)
AboutToCharge ==
  {w \in Workers : \/ pc[w] \in {"retryRead", "charge"}
                   \/ pc[w] = "retryInit" /\ seen[w] # "CAPTURED"}

SuccessInv ==
  /\ charges["SUCCESS"] > 0 => local = "CAPTURED"
  /\ charges["SUCCESS"] + Cardinality(AboutToCharge) <= Cardinality(Workers)

(* Everything the proofs of NoFalseRecovery, CapturedIsFinal, AttemptBound *)
(* and SuccessBound carry along, in the states of every execution.         *)
IInv == LocalsInv /\ CaptureInv /\ NoFalseRecovery /\ AttemptInv /\ SuccessInv

(* Calls whose row is inserted, and calls whose audit entry was tried, and *)
(* that have yet to charge.                                                *)
Announced == {w \in Workers : pc[w] \in {"retry", "retryRead", "retryInit", "charge"}}
Recorded == Announced \cup {w \in Workers : pc[w] = "log" /\ entry[w] = "RECOVERY_EXECUTED"}

ChargeInv ==
  /\ TotalCharges + Cardinality(Recorded) <= Len(actions)
  /\ TotalCharges + Cardinality(Announced) <= trail["RECOVERY_EXECUTED"] + faults

(* A call on its way from the provider to the transaction of step 9.       *)
Reporting(w) ==
  \/ pc[w] \in {"mark", "notify", "verify", "recover"}
  \/ pc[w] = "log" /\ entry[w] = "CUSTOMER_NOTIFICATION_SENT"

(* While payments does not say so yet, some call is about to record the    *)
(* provider's capture.                                                     *)
ReportInv ==
  faults = 0 /\ local = "CAPTURED" /\ payment # "CAPTURED" => \E w \in Workers : Reporting(w)

(* The count a call carries along may be old, but attempts are only added, *)
(* and its own row makes one more.                                         *)
FailureInv ==
  faults = 0 =>
    /\ NoEarlyFailure
    /\ \A w \in Workers :
         /\ pc[w] = "exhausted" => Len(actions) >= MaxRetries
         /\ w \in PastLimitCheck => limit[w] = MaxRetries /\ count[w] <= Len(actions)
         /\ HoldsRow(w) => limit[w] = MaxRetries /\ count[w] + 1 <= Len(actions)

-----------------------------------------------------------------------------
(* Liveness.                                                               *)

(* The policy lets the first attempt through and the provider accepts it.  *)
Recoverable ==
  /\ RetrySuccess(input.code, input.amount)
  /\ PolicyDecision(MerchantPolicy, SelectedAction, input.confidence,
       [optOut |-> input.optOut, fraud |-> input.fraud, executed |-> 0]) = "ALLOW"

(* Without failures, an open workflow whose payment can be recovered       *)
(* becomes RECOVERED and the payment stays CAPTURED, however many workers  *)
(* execute it at once.                                                     *)
RecoverableRecovers ==
  Recoverable => <>(wf = "RECOVERED") /\ <>[](payment = "CAPTURED")

(* Without failures, a successful charge is followed by the reactivation   *)
(* of the subscription, also when another worker reconciles first.         *)
ChargeRestoresSubscription == charges["SUCCESS"] > 0 ~> subscription = "ACTIVE"

-----------------------------------------------------------------------------
(* What the repository says and the code does not keep.                    *)

(* README.md:859: workflow handling is idempotent: one payment is charged  *)
(* once, however often its task is delivered.                              *)
ChargedOnce == charges["SUCCESS"] <= 1
=============================================================================
