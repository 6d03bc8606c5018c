--------------------------- MODULE ExecutorProofs ---------------------------
(***************************************************************************)
(* Theorems about Executor for every set of workers, every retry limit,    *)
(* every number of deliveries and failures and every input.                *)
(***************************************************************************)
EXTENDS Executor, FiniteSetTheorems, TLAPS

(* Rewriting one row of recovery_actions (MarkAction) gives the same       *)
(* number of rows, all well formed.                                        *)
LEMMA MarkedRows ==
  ASSUME NEW s \in Seq(ActionRow), NEW i \in 1..Len(s), NEW a
  PROVE  /\ [s EXCEPT ![i] = Marked(s[i], a)] \in Seq(ActionRow)
         /\ Len([s EXCEPT ![i] = Marked(s[i], a)]) = Len(s)
<1>1. s[i] \in ActionRow
  OBVIOUS
<1>2. Marked(s[i], a) \in ActionRow
  BY <1>1 DEF Marked, ActionRow
<1>3. QED
  BY <1>2

(* The initial state is well typed.                                        *)
LEMMA InitTypeOK == Init => TypeOK /\ LocalsInv
BY DEF Init, TypeOK, TablesOK, CallsOK, LocalsInv, ProviderInit, ProviderTypeOK, Steps,
       Answers, PaymentStatus, ActionTypes, AuditActions, WorkflowStatus, Storing, HoldsRow

(* The policy engine answers with one of its four decisions.               *)
LEMMA EffectiveActionType ==
  ASSUME NEW d, NEW a \in ActionTypes
  PROVE  EffectiveAction(d, a) \in ActionTypes
BY DEF EffectiveAction, ActionTypes

(* A row added to a table.                                                 *)
LEMMA AppendTyped ==
  ASSUME NEW S, NEW s \in Seq(S), NEW e \in S
  PROVE  /\ Append(s, e) \in Seq(S)
         /\ Len(s) \in Nat
         /\ Len(Append(s, e)) = Len(s) + 1
OBVIOUS

(* The entries the executor appends to the audit trail.                    *)
LEMMA EntryNames ==
  /\ {"RECONCILIATION_ALREADY_CAPTURED", "POLICY_EVALUATED_OPT_OUT",
      "MAX_RETRIES_EXCEEDED", "POLICY_EVALUATED_BLOCK", "POLICY_EVALUATED_ESCALATE",
      "RECOVERY_EXECUTED", "CUSTOMER_NOTIFICATION_SENT",
      "RECOVERY_OUTCOME_RECORDED"} \subseteq AuditActions
BY DEF AuditActions

(* Every step of a call keeps the tables and the locals of the calls well  *)
(* typed (one step per action of ExecuteWorkflow).                         *)
LEMMA NextTypeOK == TypeOK /\ LocalsInv /\ [Next]_vars => TypeOK' /\ LocalsInv'
<1> SUFFICES ASSUME TypeOK, LocalsInv, [Next]_vars
             PROVE  TypeOK' /\ LocalsInv'
  OBVIOUS
<1> USE DEF Fault, Goto, dbVars, providerVars, callVars
<1>1. ASSUME NEW w \in Workers, NEW ok \in BOOLEAN, Load(w, ok)
      PROVE  TypeOK' /\ LocalsInv'
  <2>1. SelectedAction \in ActionTypes
    BY ConstantsAssumption DEF SelectedAction, ActionTypes, TypeOK, TablesOK
  <2>2. TablesOK'
    BY <1>1 DEF Load, TypeOK, TablesOK, ProviderTypeOK
  <2>3. CallsOK'
    BY <1>1, <2>1 DEF Load, TypeOK, CallsOK, Steps, Answers
  <2>4. runs' \in Nat /\ faults' \in Nat
    BY <1>1 DEF Load, TypeOK
  <2>5. LocalsInv'
    BY <1>1 DEF Load, TypeOK, TablesOK, CallsOK, LocalsInv, Storing, HoldsRow,
       Steps
  <2>6. QED
    BY <2>2, <2>3, <2>4, <2>5 DEF TypeOK
<1>2. ASSUME NEW w \in Workers, NEW ok \in BOOLEAN, GetPayment(w, ok)
      PROVE  TypeOK' /\ LocalsInv'
  <2>1. TablesOK'
    BY <1>2 DEF GetPayment, Answer, AfterReconciliation, AfterRetryRead,
       TypeOK, TablesOK, ProviderTypeOK
  <2>2. CallsOK'
    BY <1>2 DEF GetPayment, Answer, AfterReconciliation, AfterRetryRead,
       TypeOK, CallsOK, Steps, Answers, ProviderTypeOK, TablesOK,
       PaymentStatus
  <2>3. runs' \in Nat /\ faults' \in Nat
    BY <1>2 DEF GetPayment, Answer, AfterReconciliation, AfterRetryRead,
       TypeOK
  <2>4. LocalsInv'
    BY <1>2 DEF GetPayment, Answer, AfterReconciliation, AfterRetryRead,
       TypeOK, TablesOK, CallsOK, LocalsInv, Storing, HoldsRow, Steps,
       ProviderTypeOK, PaymentStatus
  <2>5. QED
    BY <2>1, <2>2, <2>3, <2>4 DEF TypeOK
<1>2a. ASSUME NEW w \in Workers, NEW ok \in BOOLEAN, ReadPayment(w, ok)
      PROVE  TypeOK' /\ LocalsInv'
  <2>1. TablesOK'
    BY <1>2a DEF ReadPayment, Answer, AfterReconciliation, AfterRetryRead,
       TypeOK, TablesOK, ProviderTypeOK
  <2>2. CallsOK'
    BY <1>2a DEF ReadPayment, Answer, AfterReconciliation, AfterRetryRead,
       TypeOK, CallsOK, Steps, Answers, TablesOK, PaymentStatus
  <2>3. runs' \in Nat /\ faults' \in Nat
    BY <1>2a DEF ReadPayment, Answer, AfterReconciliation, AfterRetryRead,
       TypeOK
  <2>4. LocalsInv'
    BY <1>2a DEF ReadPayment, Answer, AfterReconciliation, AfterRetryRead,
       TypeOK, TablesOK, CallsOK, LocalsInv, Storing, HoldsRow, Steps,
       PaymentStatus
  <2>5. QED
    BY <2>1, <2>2, <2>3, <2>4 DEF TypeOK
<1>3. ASSUME NEW w \in Workers, NEW ok \in BOOLEAN, StoreInitial(w, ok)
      PROVE  TypeOK' /\ LocalsInv'
  <2>1. TablesOK'
    BY <1>3 DEF StoreInitial, InitializeFromApplicationPayment, Answer,
       AfterReconciliation, AfterRetryRead, TypeOK, TablesOK, ProviderTypeOK,
       LocalsInv, Storing
  <2>2. CallsOK'
    BY <1>3 DEF StoreInitial, InitializeFromApplicationPayment, Answer,
       AfterReconciliation, AfterRetryRead, TypeOK, CallsOK, Steps, Answers,
       PaymentStatus, LocalsInv, Storing
  <2>3. runs' \in Nat /\ faults' \in Nat
    BY <1>3 DEF StoreInitial, InitializeFromApplicationPayment, Answer,
       AfterReconciliation, AfterRetryRead, TypeOK
  <2>4. LocalsInv'
    BY <1>3 DEF StoreInitial, InitializeFromApplicationPayment, Answer,
       AfterReconciliation, AfterRetryRead, TypeOK, TablesOK, CallsOK,
       LocalsInv, Storing, HoldsRow, Steps
  <2>5. QED
    BY <2>1, <2>2, <2>3, <2>4 DEF TypeOK
<1>4. ASSUME NEW w \in Workers, NEW ok \in BOOLEAN, Reconcile(w, ok)
      PROVE  TypeOK' /\ LocalsInv'
  <2>1. [row |-> 0, recovered |-> TRUE] \in OutcomeRow
    BY DEF OutcomeRow, TypeOK, CallsOK
  <2>2. PICK o \in OutcomeRow : outcomes' = Append(outcomes, o) \/ outcomes' = outcomes
    BY <1>4, <2>1, Zenon DEF Reconcile
  <2>3. outcomes' \in Seq(OutcomeRow)
    BY <2>2, AppendTyped DEF TypeOK, TablesOK
  <2>4. TablesOK'
    BY <1>4, <2>3 DEF Reconcile, GotoLog, TypeOK, TablesOK, ProviderTypeOK,
       PaymentStatus, WorkflowStatus
  <2>5. CallsOK'
    BY <1>4, EntryNames DEF Reconcile, GotoLog, TypeOK, CallsOK, Steps,
       Answers
  <2>6. runs' \in Nat /\ faults' \in Nat
    BY <1>4 DEF Reconcile, GotoLog, TypeOK
  <2>7. LocalsInv'
    BY <1>4, EntryNames DEF Reconcile, GotoLog, TypeOK, TablesOK, CallsOK,
       LocalsInv, Storing, HoldsRow, Steps
  <2>8. QED
    BY <2>4, <2>5, <2>6, <2>7 DEF TypeOK
<1>5. ASSUME NEW w \in Workers, NEW ok \in BOOLEAN,
             \/ RefuseOptOut(w, ok) \/ RefuseExhausted(w, ok)
             \/ RefuseBlocked(w, ok) \/ RefuseEscalate(w, ok)
      PROVE  TypeOK' /\ LocalsInv'
  <2>1. TablesOK'
    BY <1>5 DEF RefuseOptOut, RefuseExhausted, RefuseBlocked, RefuseEscalate,
       Refuse, GotoLog, TypeOK, TablesOK, ProviderTypeOK, WorkflowStatus
  <2>2. CallsOK'
    BY <1>5, EntryNames DEF RefuseOptOut, RefuseExhausted, RefuseBlocked,
       RefuseEscalate, Refuse, GotoLog, TypeOK, CallsOK, Steps, Answers
  <2>3. runs' \in Nat /\ faults' \in Nat
    BY <1>5 DEF RefuseOptOut, RefuseExhausted, RefuseBlocked, RefuseEscalate,
       Refuse, GotoLog, TypeOK
  <2>4. LocalsInv'
    BY <1>5, EntryNames DEF RefuseOptOut, RefuseExhausted, RefuseBlocked,
       RefuseEscalate, Refuse, GotoLog, TypeOK, TablesOK, CallsOK, LocalsInv,
       Storing, HoldsRow, Steps
  <2>5. QED
    BY <2>1, <2>2, <2>3, <2>4 DEF TypeOK
<1>6. ASSUME NEW w \in Workers, NEW ok \in BOOLEAN, CountAttempts(w, ok)
      PROVE  TypeOK' /\ LocalsInv'
  <2>1. TablesOK'
    BY <1>6 DEF CountAttempts, PreviousAttempts, TypeOK, TablesOK, ProviderTypeOK
  <2>2. CallsOK'
    BY <1>6, ConstantsAssumption DEF CountAttempts, PreviousAttempts, TypeOK, CallsOK, Steps,
       Answers, DefaultPolicy, TablesOK
  <2>3. runs' \in Nat /\ faults' \in Nat
    BY <1>6 DEF CountAttempts, PreviousAttempts, TypeOK
  <2>4. LocalsInv'
    BY <1>6 DEF CountAttempts, PreviousAttempts, TypeOK, TablesOK, CallsOK, LocalsInv, Storing,
       HoldsRow, Steps
  <2>5. QED
    BY <2>1, <2>2, <2>3, <2>4 DEF TypeOK
<1>7. ASSUME NEW w \in Workers, NEW ok \in BOOLEAN, EvaluatePolicy(w, ok)
      PROVE  TypeOK' /\ LocalsInv'
  <2>1. act' \in [Workers -> ActionTypes]
    BY <1>7, EffectiveActionType DEF EvaluatePolicy, TypeOK, CallsOK
  <2>2. TablesOK'
    BY <1>7 DEF EvaluatePolicy, AfterPolicy, TypeOK, TablesOK, ProviderTypeOK
  <2>3. CallsOK'
    BY <1>7, <2>1 DEF EvaluatePolicy, AfterPolicy, TypeOK, CallsOK, Steps,
       Answers
  <2>4. runs' \in Nat /\ faults' \in Nat
    BY <1>7 DEF EvaluatePolicy, AfterPolicy, TypeOK
  <2>5. LocalsInv'
    BY <1>7 DEF EvaluatePolicy, AfterPolicy, TypeOK, TablesOK, CallsOK,
       LocalsInv, Storing, HoldsRow, Steps
  <2>6. QED
    BY <2>2, <2>3, <2>4, <2>5 DEF TypeOK
<1>8. ASSUME NEW w \in Workers, NEW ok \in BOOLEAN, InsertAction(w, ok)
      PROVE  TypeOK' /\ LocalsInv'
  <2>1. /\ runs' \in Nat /\ faults' \in Nat
        /\ UNCHANGED <<wf, payment, subscription, outcomes, trail, input, local, charges>>
    BY <1>8 DEF InsertAction, TypeOK
  <2>2. CASE ok
    <3> DEFINE a == [status |-> "PENDING", type |-> act[w], attempt |-> count[w] + 1]
    <3>1. a \in ActionRow
      BY DEF ActionRow, TypeOK, CallsOK
    <3>2. /\ actions' = Append(actions, a)
          /\ pc' = [pc EXCEPT ![w] = "log"]
          /\ row' = [row EXCEPT ![w] = Len(actions) + 1]
          /\ entry' = [entry EXCEPT ![w] = "RECOVERY_EXECUTED"]
          /\ UNCHANGED <<count, limit, seen, act>>
      BY <1>8, <2>2 DEF InsertAction
    <3> HIDE DEF a
    <3>3. /\ actions' \in Seq(ActionRow)
          /\ Len(actions) \in Nat
          /\ Len(actions') = Len(actions) + 1
      BY <3>1, <3>2, AppendTyped DEF TypeOK, TablesOK
    <3>4. TablesOK'
      BY <2>1, <3>3 DEF TypeOK, TablesOK, ProviderTypeOK
    <3>5. CallsOK'
      BY <3>2, <3>3, EntryNames DEF TypeOK, CallsOK, Steps
    <3>6. LocalsInv'
      BY <3>2, <3>3, EntryNames DEF TypeOK, CallsOK, LocalsInv, Storing, HoldsRow
    <3>7. QED
      BY <2>1, <3>4, <3>5, <3>6 DEF TypeOK
  <2>3. CASE ~ok
    <3>1. Return(w) /\ UNCHANGED actions
      BY <1>8, <2>3 DEF InsertAction
    <3>2. TablesOK'
      BY <2>1, <3>1 DEF TypeOK, TablesOK, ProviderTypeOK
    <3>3. CallsOK'
      BY <3>1 DEF Return, TypeOK, CallsOK, Steps, Answers, ActionTypes
    <3>4. LocalsInv'
      BY <3>1 DEF Return, TypeOK, CallsOK, LocalsInv, Storing, HoldsRow
    <3>5. QED
      BY <2>1, <3>2, <3>3, <3>4 DEF TypeOK
  <2>4. QED
    BY <2>2, <2>3
<1>9. ASSUME NEW w \in Workers, NEW ok \in BOOLEAN, AppendAuditLog(w, ok)
      PROVE  TypeOK' /\ LocalsInv'
  <2>1. TablesOK'
    BY <1>9 DEF AppendAuditLog, Continues, AfterEntry, Return, TypeOK,
       TablesOK, ProviderTypeOK, LocalsInv
  <2>2. CallsOK'
    BY <1>9 DEF AppendAuditLog, Continues, AfterEntry, Return, TypeOK,
       CallsOK, Steps, Answers, ActionTypes
  <2>3. runs' \in Nat /\ faults' \in Nat
    BY <1>9 DEF AppendAuditLog, Continues, AfterEntry, Return, TypeOK
  <2>4. LocalsInv'
    <3>1. CASE Continues(entry[w])
      <4>1. /\ pc' = [pc EXCEPT ![w] = AfterEntry(entry[w])]
            /\ entry' = [entry EXCEPT ![w] = "none"]
            /\ UNCHANGED <<row, seen, actions>>
        BY <1>9, <3>1 DEF AppendAuditLog
      <4>2. HoldsRow(w)
        BY <1>9, <3>1 DEF AppendAuditLog, HoldsRow, Continues
      <4>3. QED
        BY <4>1, <4>2 DEF AfterEntry, TypeOK, CallsOK, LocalsInv, Storing, HoldsRow
    <3>2. CASE ~Continues(entry[w])
      <4>1. Return(w) /\ UNCHANGED actions
        BY <1>9, <3>2 DEF AppendAuditLog
      <4>2. QED
        BY <4>1 DEF Return, TypeOK, CallsOK, LocalsInv, Storing, HoldsRow
    <3>3. QED
      BY <3>1, <3>2
  <2>5. QED
    BY <2>1, <2>2, <2>3, <2>4 DEF TypeOK
<1>10. ASSUME NEW w \in Workers, NEW ok \in BOOLEAN, Charge(w, ok)
      PROVE  TypeOK' /\ LocalsInv'
  <2>1. TablesOK'
    BY <1>10 DEF Charge, RecordAttempt, TypeOK, TablesOK, ProviderTypeOK,
       PaymentStatus
  <2>2. CallsOK'
    BY <1>10 DEF Charge, RecordAttempt, TypeOK, CallsOK, Steps, Answers,
       PaymentStatus
  <2>3. runs' \in Nat /\ faults' \in Nat
    BY <1>10 DEF Charge, RecordAttempt, TypeOK
  <2>4. LocalsInv'
    BY <1>10 DEF Charge, RecordAttempt, TypeOK, TablesOK, CallsOK, LocalsInv,
       Storing, HoldsRow, Steps
  <2>5. QED
    BY <2>1, <2>2, <2>3, <2>4 DEF TypeOK
<1>11. ASSUME NEW w \in Workers, NEW ok \in BOOLEAN, MarkAction(w, ok)
      PROVE  TypeOK' /\ LocalsInv'
  <2>1. actions' \in Seq(ActionRow) /\ Len(actions') = Len(actions)
    BY <1>11, MarkedRows DEF MarkAction, TypeOK, TablesOK, CallsOK, LocalsInv, HoldsRow
  <2>2. TablesOK'
    BY <1>11, <2>1 DEF MarkAction, TypeOK, TablesOK, ProviderTypeOK
  <2>3. CallsOK'
    BY <1>11 DEF MarkAction, TypeOK, CallsOK, Steps, Answers
  <2>4. runs' \in Nat /\ faults' \in Nat
    BY <1>11 DEF MarkAction, TypeOK
  <2>5. LocalsInv'
    BY <1>11, <2>1 DEF MarkAction, TypeOK, TablesOK, CallsOK, LocalsInv,
       Storing, HoldsRow, Steps
  <2>6. QED
    BY <2>2, <2>3, <2>4, <2>5 DEF TypeOK
<1>12. ASSUME NEW w \in Workers, NEW ok \in BOOLEAN, Notify(w, ok)
      PROVE  TypeOK' /\ LocalsInv'
  <2>1. TablesOK'
    BY <1>12 DEF Notify, GotoLog, TypeOK, TablesOK, ProviderTypeOK
  <2>2. CallsOK'
    BY <1>12, EntryNames DEF Notify, GotoLog, TypeOK, CallsOK, Steps, Answers
  <2>3. runs' \in Nat /\ faults' \in Nat
    BY <1>12 DEF Notify, GotoLog, TypeOK
  <2>4. LocalsInv'
    BY <1>12, EntryNames DEF Notify, GotoLog, TypeOK, TablesOK, CallsOK,
       LocalsInv, Storing, HoldsRow, Steps
  <2>5. QED
    BY <2>1, <2>2, <2>3, <2>4 DEF TypeOK
<1>13. ASSUME NEW w \in Workers, NEW ok \in BOOLEAN, VerifyPayment(w, ok)
      PROVE  TypeOK' /\ LocalsInv'
  <2>1. TablesOK'
    BY <1>13 DEF VerifyPayment, AfterVerification, TypeOK, TablesOK,
       ProviderTypeOK
  <2>2. CallsOK'
    BY <1>13 DEF VerifyPayment, AfterVerification, TypeOK, CallsOK, Steps,
       Answers
  <2>3. runs' \in Nat /\ faults' \in Nat
    BY <1>13 DEF VerifyPayment, AfterVerification, TypeOK
  <2>4. LocalsInv'
    BY <1>13 DEF VerifyPayment, AfterVerification, TypeOK, TablesOK, CallsOK,
       LocalsInv, Storing, HoldsRow, Steps
  <2>5. QED
    BY <2>1, <2>2, <2>3, <2>4 DEF TypeOK
<1>14. ASSUME NEW w \in Workers, NEW ok \in BOOLEAN, RecordRecovery(w, ok)
      PROVE  TypeOK' /\ LocalsInv'
  <2>1. [row |-> row[w], recovered |-> TRUE] \in OutcomeRow
    BY DEF OutcomeRow, TypeOK, CallsOK
  <2>2. PICK o \in OutcomeRow : outcomes' = Append(outcomes, o) \/ outcomes' = outcomes
    BY <1>14, <2>1, Zenon DEF RecordRecovery, RecoveryWrites
  <2>3. outcomes' \in Seq(OutcomeRow)
    BY <2>2, AppendTyped DEF TypeOK, TablesOK
  <2>4. TablesOK'
    BY <1>14, <2>3 DEF RecordRecovery, RecoveryWrites, GotoLog, TypeOK, TablesOK,
       ProviderTypeOK, PaymentStatus, WorkflowStatus
  <2>5. CallsOK'
    BY <1>14, EntryNames DEF RecordRecovery, RecoveryWrites, GotoLog, TypeOK, CallsOK, Steps,
       Answers
  <2>6. runs' \in Nat /\ faults' \in Nat
    BY <1>14 DEF RecordRecovery, RecoveryWrites, GotoLog, TypeOK
  <2>7. LocalsInv'
    BY <1>14, EntryNames DEF RecordRecovery, RecoveryWrites, GotoLog, TypeOK, TablesOK,
       CallsOK, LocalsInv, Storing, HoldsRow, Steps
  <2>8. QED
    BY <2>4, <2>5, <2>6, <2>7 DEF TypeOK
<1>15. ASSUME NEW w \in Workers, NEW ok \in BOOLEAN, RecordFailure(w, ok)
      PROVE  TypeOK' /\ LocalsInv'
  <2>1. TablesOK'
    BY <1>15 DEF RecordFailure, TypeOK, TablesOK, ProviderTypeOK,
       WorkflowStatus
  <2>2. CallsOK'
    BY <1>15 DEF RecordFailure, TypeOK, CallsOK, Steps, Answers
  <2>3. runs' \in Nat /\ faults' \in Nat
    BY <1>15 DEF RecordFailure, TypeOK
  <2>4. LocalsInv'
    BY <1>15 DEF RecordFailure, TypeOK, TablesOK, CallsOK, LocalsInv, Storing,
       HoldsRow, Steps
  <2>5. QED
    BY <2>1, <2>2, <2>3, <2>4 DEF TypeOK
<1>16. ASSUME NEW w \in Workers, NEW ok \in BOOLEAN, RecordFailedOutcome(w, ok)
      PROVE  TypeOK' /\ LocalsInv'
  <2>1. [row |-> row[w], recovered |-> FALSE] \in OutcomeRow
    BY DEF OutcomeRow, TypeOK, CallsOK
  <2>2. PICK o \in OutcomeRow : outcomes' = Append(outcomes, o) \/ outcomes' = outcomes
    BY <1>16, <2>1, Zenon DEF RecordFailedOutcome
  <2>3. outcomes' \in Seq(OutcomeRow)
    BY <2>2, AppendTyped DEF TypeOK, TablesOK
  <2>4. TablesOK'
    BY <1>16, <2>3 DEF RecordFailedOutcome, GotoLog, TypeOK, TablesOK,
       ProviderTypeOK
  <2>5. CallsOK'
    BY <1>16, EntryNames DEF RecordFailedOutcome, GotoLog, TypeOK, CallsOK,
       Steps, Answers
  <2>6. runs' \in Nat /\ faults' \in Nat
    BY <1>16 DEF RecordFailedOutcome, GotoLog, TypeOK
  <2>7. LocalsInv'
    BY <1>16, EntryNames DEF RecordFailedOutcome, GotoLog, TypeOK, TablesOK,
       CallsOK, LocalsInv, Storing, HoldsRow, Steps
  <2>8. QED
    BY <2>4, <2>5, <2>6, <2>7 DEF TypeOK
<1>17. ASSUME NEW w \in Workers, Crash(w)
      PROVE  TypeOK' /\ LocalsInv'
  <2>1. TablesOK'
    BY <1>17 DEF Crash, Return, TypeOK, TablesOK, ProviderTypeOK
  <2>2. CallsOK'
    BY <1>17 DEF Crash, Return, TypeOK, CallsOK, Steps, Answers, ActionTypes
  <2>3. runs' \in Nat /\ faults' \in Nat
    BY <1>17 DEF Crash, Return, TypeOK
  <2>4. LocalsInv'
    BY <1>17 DEF Crash, Return, TypeOK, TablesOK, CallsOK, LocalsInv, Storing,
       HoldsRow, Steps
  <2>5. QED
    BY <2>1, <2>2, <2>3, <2>4 DEF TypeOK
<1>18. CASE UNCHANGED vars
  BY <1>18 DEF vars, TypeOK, TablesOK, CallsOK, ProviderTypeOK, LocalsInv, Storing, HoldsRow
<1>19. QED
  BY <1>1, <1>2, <1>2a, <1>3, <1>4, <1>5, <1>6, <1>7, <1>8, <1>9, <1>10, <1>11,
     <1>12, <1>13, <1>14, <1>15, <1>16, <1>17, <1>18 DEF Next, Step

(* Type correctness: whatever interleaves and whatever fails, the tables   *)
(* and the locals of the executor stay within their types.                 *)
THEOREM TypeCorrect == Spec => []TypeOK
<1>1. Spec => [](TypeOK /\ LocalsInv)
  BY InitTypeOK, NextTypeOK, PTL DEF Spec
<1>2. QED
  BY <1>1, PTL

(* The initial state satisfies the agreement of provider and application.  *)
LEMMA InitCapture == Init => CaptureInv /\ NoFalseRecovery
BY DEF Init, CaptureInv, NoFalseRecovery, Storing, ProviderInit, WorkflowStatus, Resolved

(* Appending to recovery_outcomes adds at most one claim of money.         *)
LEMMA AppendClaim ==
  ASSUME NEW s \in Seq(OutcomeRow), NEW o \in OutcomeRow,
         \E i \in 1..Len(Append(s, o)) : Append(s, o)[i].recovered
  PROVE  o.recovered \/ \E i \in 1..Len(s) : s[i].recovered
OBVIOUS

(* Every step keeps the provider's row, the application's row and the      *)
(* reads in flight in agreement, and no step takes a capture back.         *)
LEMMA NextCapture ==
  TypeOK /\ LocalsInv /\ CaptureInv /\ NoFalseRecovery /\ [Next]_vars
    => CaptureInv' /\ (local = "CAPTURED" => local' = "CAPTURED")
<1> SUFFICES ASSUME TypeOK, LocalsInv, CaptureInv, [Next]_vars
             PROVE  CaptureInv' /\ (local = "CAPTURED" => local' = "CAPTURED")
  OBVIOUS
<1> USE DEF Fault, Goto, dbVars, providerVars, callVars
<1>1. ASSUME NEW w \in Workers, NEW ok \in BOOLEAN, Load(w, ok)
      PROVE  CaptureInv' /\ (local = "CAPTURED" => local' = "CAPTURED")
  BY <1>1 DEF Load, TypeOK, TablesOK, CallsOK, ProviderTypeOK, LocalsInv,
     CaptureInv, Storing, Declined, PaymentStatus
<1>2. ASSUME NEW w \in Workers, NEW ok \in BOOLEAN, GetPayment(w, ok)
      PROVE  CaptureInv' /\ (local = "CAPTURED" => local' = "CAPTURED")
  BY <1>2 DEF GetPayment, Answer, AfterReconciliation, AfterRetryRead, TypeOK,
     TablesOK, CallsOK, ProviderTypeOK, LocalsInv, CaptureInv, Storing,
     Declined, PaymentStatus
<1>2a. ASSUME NEW w \in Workers, NEW ok \in BOOLEAN, ReadPayment(w, ok)
      PROVE  CaptureInv' /\ (local = "CAPTURED" => local' = "CAPTURED")
  BY <1>2a DEF ReadPayment, Answer, AfterReconciliation, AfterRetryRead, TypeOK,
     TablesOK, CallsOK, ProviderTypeOK, LocalsInv, CaptureInv, Storing,
     Declined, PaymentStatus
<1>3. ASSUME NEW w \in Workers, NEW ok \in BOOLEAN, StoreInitial(w, ok)
      PROVE  CaptureInv' /\ (local = "CAPTURED" => local' = "CAPTURED")
  BY <1>3 DEF StoreInitial, InitializeFromApplicationPayment, Answer,
     AfterReconciliation, AfterRetryRead, TypeOK, TablesOK, CallsOK,
     ProviderTypeOK, LocalsInv, CaptureInv, Storing, Declined, PaymentStatus
<1>4. ASSUME NEW w \in Workers, NEW ok \in BOOLEAN, Reconcile(w, ok)
      PROVE  CaptureInv' /\ (local = "CAPTURED" => local' = "CAPTURED")
  BY <1>4 DEF Reconcile, GotoLog, TypeOK, TablesOK, CallsOK, ProviderTypeOK,
     LocalsInv, CaptureInv, Storing, Declined, PaymentStatus
<1>5. ASSUME NEW w \in Workers, NEW ok \in BOOLEAN, 
             \/ RefuseOptOut(w, ok) \/ RefuseExhausted(w, ok)
             \/ RefuseBlocked(w, ok) \/ RefuseEscalate(w, ok)
      PROVE  CaptureInv' /\ (local = "CAPTURED" => local' = "CAPTURED")
  BY <1>5 DEF RefuseOptOut, RefuseExhausted, RefuseBlocked, RefuseEscalate,
     Refuse, GotoLog, TypeOK, TablesOK, CallsOK, ProviderTypeOK, LocalsInv,
     CaptureInv, Storing, Declined, PaymentStatus
<1>6. ASSUME NEW w \in Workers, NEW ok \in BOOLEAN, CountAttempts(w, ok)
      PROVE  CaptureInv' /\ (local = "CAPTURED" => local' = "CAPTURED")
  BY <1>6 DEF CountAttempts, PreviousAttempts, TypeOK, TablesOK, CallsOK, ProviderTypeOK,
     LocalsInv, CaptureInv, Storing, Declined, PaymentStatus
<1>7. ASSUME NEW w \in Workers, NEW ok \in BOOLEAN, EvaluatePolicy(w, ok)
      PROVE  CaptureInv' /\ (local = "CAPTURED" => local' = "CAPTURED")
  BY <1>7 DEF EvaluatePolicy, AfterPolicy, TypeOK, TablesOK, CallsOK,
     ProviderTypeOK, LocalsInv, CaptureInv, Storing, Declined, PaymentStatus
<1>8. ASSUME NEW w \in Workers, NEW ok \in BOOLEAN, InsertAction(w, ok)
      PROVE  CaptureInv' /\ (local = "CAPTURED" => local' = "CAPTURED")
  BY <1>8 DEF InsertAction, Return, TypeOK, TablesOK, CallsOK, ProviderTypeOK,
     LocalsInv, CaptureInv, Storing, Declined, PaymentStatus
<1>9. ASSUME NEW w \in Workers, NEW ok \in BOOLEAN, AppendAuditLog(w, ok)
      PROVE  CaptureInv' /\ (local = "CAPTURED" => local' = "CAPTURED")
  BY <1>9 DEF AppendAuditLog, AfterEntry, Return, TypeOK, TablesOK, CallsOK,
     ProviderTypeOK, LocalsInv, CaptureInv, Storing, Declined, PaymentStatus
<1>10. ASSUME NEW w \in Workers, NEW ok \in BOOLEAN, Charge(w, ok)
      PROVE  CaptureInv' /\ (local = "CAPTURED" => local' = "CAPTURED")
  BY <1>10 DEF Charge, RecordAttempt, TypeOK, TablesOK, CallsOK,
     ProviderTypeOK, LocalsInv, CaptureInv, Storing, Declined, PaymentStatus
<1>11. ASSUME NEW w \in Workers, NEW ok \in BOOLEAN, MarkAction(w, ok)
      PROVE  CaptureInv' /\ (local = "CAPTURED" => local' = "CAPTURED")
  BY <1>11 DEF MarkAction, TypeOK, TablesOK, CallsOK, ProviderTypeOK,
     LocalsInv, CaptureInv, Storing, Declined, PaymentStatus
<1>12. ASSUME NEW w \in Workers, NEW ok \in BOOLEAN, Notify(w, ok)
      PROVE  CaptureInv' /\ (local = "CAPTURED" => local' = "CAPTURED")
  BY <1>12 DEF Notify, GotoLog, TypeOK, TablesOK, CallsOK, ProviderTypeOK,
     LocalsInv, CaptureInv, Storing, Declined, PaymentStatus
<1>13. ASSUME NEW w \in Workers, NEW ok \in BOOLEAN, VerifyPayment(w, ok)
      PROVE  CaptureInv' /\ (local = "CAPTURED" => local' = "CAPTURED")
  BY <1>13 DEF VerifyPayment, AfterVerification, TypeOK, TablesOK, CallsOK,
     ProviderTypeOK, LocalsInv, CaptureInv, Storing, Declined, PaymentStatus
<1>14. ASSUME NEW w \in Workers, NEW ok \in BOOLEAN, RecordRecovery(w, ok)
      PROVE  CaptureInv' /\ (local = "CAPTURED" => local' = "CAPTURED")
  BY <1>14 DEF RecordRecovery, RecoveryWrites, GotoLog, TypeOK, TablesOK, CallsOK,
     ProviderTypeOK, LocalsInv, CaptureInv, Storing, Declined, PaymentStatus
<1>15. ASSUME NEW w \in Workers, NEW ok \in BOOLEAN, RecordFailure(w, ok)
      PROVE  CaptureInv' /\ (local = "CAPTURED" => local' = "CAPTURED")
  BY <1>15 DEF RecordFailure, TypeOK, TablesOK, CallsOK, ProviderTypeOK,
     LocalsInv, CaptureInv, Storing, Declined, PaymentStatus
<1>16. ASSUME NEW w \in Workers, NEW ok \in BOOLEAN, RecordFailedOutcome(w, ok)
      PROVE  CaptureInv' /\ (local = "CAPTURED" => local' = "CAPTURED")
  BY <1>16 DEF RecordFailedOutcome, GotoLog, TypeOK, TablesOK, CallsOK,
     ProviderTypeOK, LocalsInv, CaptureInv, Storing, Declined, PaymentStatus
<1>17. ASSUME NEW w \in Workers, Crash(w)
      PROVE  CaptureInv' /\ (local = "CAPTURED" => local' = "CAPTURED")
  BY <1>17 DEF Crash, Return, TypeOK, TablesOK, CallsOK, ProviderTypeOK,
     LocalsInv, CaptureInv, Storing, Declined, PaymentStatus
<1>18. CASE UNCHANGED vars
  BY <1>18 DEF vars, CaptureInv, Storing, Declined
<1>19. QED
  BY <1>1, <1>2, <1>2a, <1>3, <1>4, <1>5, <1>6, <1>7, <1>8, <1>9, <1>10, <1>11,
     <1>12, <1>13, <1>14, <1>15, <1>16, <1>17, <1>18 DEF Next, Step

(* No step makes a recovery up: reconciliation and the verified recovery   *)
(* are the only ones that claim money, and they need a captured payment.   *)
LEMMA NextNoFalseRecovery ==
  TypeOK /\ LocalsInv /\ CaptureInv /\ NoFalseRecovery /\ [Next]_vars => NoFalseRecovery'
<1> SUFFICES ASSUME TypeOK, LocalsInv, CaptureInv, NoFalseRecovery, [Next]_vars
             PROVE  NoFalseRecovery'
  OBVIOUS
<1> DEFINE Claim == \E i \in 1..Len(outcomes) : outcomes[i].recovered
           Goal == local # "CAPTURED" => /\ wf' = "RECOVERED" => wf = "RECOVERED"
                                         /\ Claim' => Claim
<1>1. local = "CAPTURED" => local' = "CAPTURED"
  BY NextCapture
<1>2. SUFFICES Goal
  BY <1>1 DEF NoFalseRecovery
<1> USE DEF Fault, Goto, dbVars, providerVars, callVars
<1>3. ASSUME NEW w \in Workers, NEW ok \in BOOLEAN, Reconcile(w, ok) \/ RecordRecovery(w, ok)
      PROVE  Goal
  BY <1>3 DEF Reconcile, RecordRecovery, RecoveryWrites, CaptureInv
<1>4. ASSUME NEW w \in Workers, NEW ok \in BOOLEAN, RecordFailedOutcome(w, ok)
      PROVE  Goal
  <2> DEFINE o == [row |-> row[w], recovered |-> FALSE]
  <2>1. o \in OutcomeRow /\ ~o.recovered
    BY DEF OutcomeRow, TypeOK, CallsOK
  <2>2. wf' = wf /\ (outcomes' = Append(outcomes, o) \/ outcomes' = outcomes)
    BY <1>4 DEF RecordFailedOutcome
  <2> HIDE DEF o
  <2>3. Claim' => Claim
    BY <2>1, <2>2, AppendClaim DEF TypeOK, TablesOK
  <2>4. QED
    BY <2>2, <2>3
<1>5. ASSUME NEW w \in Workers, NEW ok \in BOOLEAN, Load(w, ok)
      PROVE  Goal
  BY <1>5 DEF Load
<1>6. ASSUME NEW w \in Workers, NEW ok \in BOOLEAN, GetPayment(w, ok)
      PROVE  Goal
  BY <1>6 DEF GetPayment, Answer, AfterReconciliation, AfterRetryRead
<1>6a. ASSUME NEW w \in Workers, NEW ok \in BOOLEAN, ReadPayment(w, ok)
      PROVE  Goal
  BY <1>6a DEF ReadPayment, Answer, AfterReconciliation, AfterRetryRead
<1>7. ASSUME NEW w \in Workers, NEW ok \in BOOLEAN, StoreInitial(w, ok)
      PROVE  Goal
  BY <1>7 DEF StoreInitial, InitializeFromApplicationPayment, Answer,
     AfterReconciliation, AfterRetryRead
<1>8. ASSUME NEW w \in Workers, NEW ok \in BOOLEAN, 
             \/ RefuseOptOut(w, ok) \/ RefuseExhausted(w, ok)
             \/ RefuseBlocked(w, ok) \/ RefuseEscalate(w, ok)
      PROVE  Goal
  BY <1>8 DEF RefuseOptOut, RefuseExhausted, RefuseBlocked, RefuseEscalate,
     Refuse, GotoLog
<1>9. ASSUME NEW w \in Workers, NEW ok \in BOOLEAN, CountAttempts(w, ok)
      PROVE  Goal
  BY <1>9 DEF CountAttempts, PreviousAttempts
<1>10. ASSUME NEW w \in Workers, NEW ok \in BOOLEAN, EvaluatePolicy(w, ok)
      PROVE  Goal
  BY <1>10 DEF EvaluatePolicy, AfterPolicy
<1>11. ASSUME NEW w \in Workers, NEW ok \in BOOLEAN, InsertAction(w, ok)
      PROVE  Goal
  BY <1>11 DEF InsertAction, Return
<1>12. ASSUME NEW w \in Workers, NEW ok \in BOOLEAN, AppendAuditLog(w, ok)
      PROVE  Goal
  BY <1>12 DEF AppendAuditLog, AfterEntry, Return
<1>13. ASSUME NEW w \in Workers, NEW ok \in BOOLEAN, Charge(w, ok)
      PROVE  Goal
  BY <1>13 DEF Charge, RecordAttempt
<1>14. ASSUME NEW w \in Workers, NEW ok \in BOOLEAN, MarkAction(w, ok)
      PROVE  Goal
  BY <1>14 DEF MarkAction
<1>15. ASSUME NEW w \in Workers, NEW ok \in BOOLEAN, Notify(w, ok)
      PROVE  Goal
  BY <1>15 DEF Notify, GotoLog
<1>16. ASSUME NEW w \in Workers, NEW ok \in BOOLEAN, VerifyPayment(w, ok)
      PROVE  Goal
  BY <1>16 DEF VerifyPayment, AfterVerification
<1>17. ASSUME NEW w \in Workers, NEW ok \in BOOLEAN, RecordFailure(w, ok)
      PROVE  Goal
  BY <1>17 DEF RecordFailure
<1>18. ASSUME NEW w \in Workers, Crash(w)
      PROVE  Goal
  BY <1>18 DEF Crash, Return
<1>19. CASE UNCHANGED vars
  BY <1>19 DEF vars
<1>20. QED
  BY <1>3, <1>4, <1>5, <1>6, <1>6a, <1>7, <1>8, <1>9, <1>10, <1>11, <1>12, <1>13,
     <1>14, <1>15, <1>16, <1>17, <1>18, <1>19 DEF Next, Step

(* The inductive invariant without its counting parts.                     *)
LEMMA CaptureInvariant == Spec => [](TypeOK /\ LocalsInv /\ CaptureInv /\ NoFalseRecovery)
BY InitTypeOK, InitCapture, NextTypeOK, NextCapture, NextNoFalseRecovery, PTL DEF Spec

(* No false recovery: a RECOVERED workflow, and every outcome row that     *)
(* claims money, has a captured payment at the provider, however many      *)
(* workers execute the workflow at once and whatever fails (executor.go,   *)
(* steps 3, 8 and 9).                                                      *)
THEOREM NeverFalselyRecovered == Spec => []NoFalseRecovery
BY CaptureInvariant, PTL

(* A capture is final at the provider: neither a concurrent attempt nor a  *)
(* late upsert overwrites it (local.go).                                   *)
THEOREM CaptureIsFinal == Spec => CapturedIsFinal
<1>1. TypeOK /\ LocalsInv /\ CaptureInv /\ NoFalseRecovery /\ [Next]_vars
        => [local = "CAPTURED" => local' = "CAPTURED"]_local
  BY NextCapture
<1>2. QED
  BY <1>1, CaptureInvariant, PTL DEF Spec, CapturedIsFinal

(* Adding and removing one worker, and taking a subset, in terms of        *)
(* numbers of workers.                                                     *)
LEMMA WorkerCounts ==
  ASSUME NEW S \in SUBSET Workers
  PROVE  /\ Cardinality(S) \in Nat
         /\ Cardinality(Workers) \in Nat
         /\ Cardinality(S) <= Cardinality(Workers)
         /\ \A w : w \in S => Cardinality(S \ {w}) = Cardinality(S) - 1
         /\ \A T : T \subseteq S => Cardinality(T) <= Cardinality(S)
         /\ \A T, w : T \subseteq S \cup {w} /\ T \subseteq Workers
                => Cardinality(T) <= Cardinality(S) + 1
<1>1. IsFiniteSet(Workers) /\ IsFiniteSet(S)
  BY ConstantsAssumption, FS_Subset
<1>2. Cardinality(S) \in Nat /\ Cardinality(Workers) \in Nat
  BY <1>1, FS_CardinalityType
<1>3. \A T : T \subseteq S => Cardinality(T) <= Cardinality(S)
  BY <1>1, FS_Subset
<1>4. ASSUME NEW T, NEW w, T \subseteq S \cup {w}, T \subseteq Workers
      PROVE  Cardinality(T) <= Cardinality(S) + 1
  <2> DEFINE U == S \cup {w}
  <2>1. IsFiniteSet(U) /\ Cardinality(U) \in {Cardinality(S), Cardinality(S) + 1}
    BY <1>1, FS_AddElement
  <2> HIDE DEF U
  <2>2. Cardinality(T) \in Nat /\ Cardinality(T) <= Cardinality(U)
    BY <1>4, <2>1, FS_Subset, FS_CardinalityType DEF U
  <2>3. QED
    BY <1>2, <2>1, <2>2
<1>5. \A w : w \in S => Cardinality(S \ {w}) = Cardinality(S) - 1
  BY <1>1, FS_RemoveElement
<1>6. Cardinality(S) <= Cardinality(Workers)
  BY <1>1, FS_Subset
<1>7. QED
  BY <1>2, <1>3, <1>4, <1>5, <1>6

(* A step after which no more calls are past the limit check or about to   *)
(* charge than before, and neither table has grown.                        *)
Quiet ==
  /\ charges' = charges
  /\ AboutToCharge' \subseteq AboutToCharge
  /\ Len(actions') = Len(actions)
  /\ PastLimitCheck' \subseteq PastLimitCheck
  /\ faults' \in Nat /\ faults' >= faults

(* A quiet step keeps both counting invariants.                            *)
LEMMA QuietStep ==
  ASSUME TypeOK, SuccessInv, AttemptInv, Quiet,
         local = "CAPTURED" => local' = "CAPTURED"
  PROVE  SuccessInv' /\ AttemptInv'
<1>1. /\ AboutToCharge \subseteq Workers
      /\ PastLimitCheck \subseteq Workers
      /\ AboutToCharge' \subseteq Workers
      /\ PastLimitCheck' \subseteq Workers
  BY DEF AboutToCharge, PastLimitCheck
<1>2. /\ Cardinality(AboutToCharge') \in Nat /\ Cardinality(AboutToCharge) \in Nat
      /\ Cardinality(AboutToCharge') <= Cardinality(AboutToCharge)
      /\ Cardinality(PastLimitCheck') \in Nat /\ Cardinality(PastLimitCheck) \in Nat
      /\ Cardinality(PastLimitCheck') <= Cardinality(PastLimitCheck)
      /\ Cardinality(Workers) \in Nat
  BY <1>1, WorkerCounts DEF Quiet
<1>3. SuccessInv'
  BY <1>2 DEF SuccessInv, Quiet, TypeOK, TablesOK, ProviderTypeOK
<1>4. Len(actions) \in Nat
  BY DEF TypeOK, TablesOK
<1>5. AttemptInv'
  BY <1>2, <1>4, ConstantsAssumption DEF AttemptInv, Quiet, TypeOK
<1>6. QED
  BY <1>3, <1>5

(* The counting invariants hold initially.                                 *)
LEMMA InitCounts == Init => SuccessInv /\ AttemptInv
<1> SUFFICES ASSUME Init PROVE SuccessInv /\ AttemptInv
  OBVIOUS
<1>1. AboutToCharge = {} /\ PastLimitCheck = {}
  BY DEF Init, AboutToCharge, PastLimitCheck
<1>2. Cardinality({}) = 0 /\ Cardinality(Workers) \in Nat
  BY FS_EmptySet, FS_CardinalityType, ConstantsAssumption
<1>3. charges["SUCCESS"] = 0 /\ Len(actions) = 0 /\ faults = 0
  BY DEF Init, ProviderInit
<1>4. QED
  BY <1>1, <1>2, <1>3, ConstantsAssumption DEF SuccessInv, AttemptInv

(* Every step keeps the counting invariants: a call joins AboutToCharge    *)
(* only while the provider has captured nothing, and a call passes CHECK 4 *)
(* without a failed read only while there is room below the limit.         *)
LEMMA NextCounts == TypeOK /\ IInv /\ [Next]_vars => SuccessInv' /\ AttemptInv'
<1> SUFFICES ASSUME TypeOK, IInv, [Next]_vars
             PROVE  SuccessInv' /\ AttemptInv'
  OBVIOUS
<1> DEFINE Goal == SuccessInv' /\ AttemptInv'
<1>1. local = "CAPTURED" => local' = "CAPTURED"
  BY NextCapture DEF IInv
<1>2. Quiet => Goal
  BY <1>1, QuietStep DEF IInv
<1>3. /\ PastLimitCheck \in SUBSET Workers /\ PastLimitCheck' \in SUBSET Workers
      /\ AboutToCharge \in SUBSET Workers /\ AboutToCharge' \in SUBSET Workers
  BY DEF PastLimitCheck, AboutToCharge
<1>4. /\ Cardinality(PastLimitCheck) \in Nat /\ Cardinality(PastLimitCheck') \in Nat
      /\ Cardinality(AboutToCharge) \in Nat /\ Cardinality(AboutToCharge') \in Nat
      /\ Cardinality(Workers) \in Nat
      /\ Cardinality(PastLimitCheck') <= Cardinality(Workers)
      /\ Cardinality(AboutToCharge') <= Cardinality(Workers)
  BY <1>3, WorkerCounts
<1>5. /\ Len(actions) \in Nat /\ faults \in Nat /\ MaxRetries \in Nat \ {0}
      /\ charges["SUCCESS"] \in Nat
  BY ConstantsAssumption DEF TypeOK, TablesOK, ProviderTypeOK
<1> USE DEF Fault, Goto, dbVars, providerVars, callVars
<1>6. ASSUME NEW w \in Workers, NEW ok \in BOOLEAN, GetPayment(w, ok)
      PROVE  Goal
  <2>1. /\ charges' = charges /\ Len(actions') = Len(actions)
        /\ PastLimitCheck' \subseteq PastLimitCheck
        /\ faults' \in Nat /\ faults' >= faults
    BY <1>6 DEF GetPayment, Answer, AfterReconciliation, AfterRetryRead, PastLimitCheck,
                TypeOK, CallsOK
  <2>2. CASE local = "CAPTURED"
    <3>1. AboutToCharge' \subseteq AboutToCharge
      BY <1>6, <2>2 DEF GetPayment, Answer, AfterReconciliation, AfterRetryRead,
                        AboutToCharge, TypeOK, CallsOK
    <3>2. QED
      BY <1>2, <2>1, <3>1 DEF Quiet
  <2>3. CASE local # "CAPTURED"
    <3>1. SuccessInv'
      BY <1>1, <1>4, <1>5, <2>1, <2>3 DEF IInv, SuccessInv
    <3>2. Cardinality(PastLimitCheck') <= Cardinality(PastLimitCheck)
      BY <1>3, <2>1, WorkerCounts
    <3>3. AttemptInv'
      BY <1>4, <1>5, <2>1, <3>2 DEF IInv, AttemptInv
    <3>4. QED
      BY <3>1, <3>3
  <2>4. QED
    BY <2>2, <2>3
<1>7. ASSUME NEW w \in Workers, NEW ok \in BOOLEAN, CountAttempts(w, ok)
      PROVE  Goal
  <2>1. /\ charges' = charges /\ local' = local /\ Len(actions') = Len(actions)
        /\ AboutToCharge' \subseteq AboutToCharge
        /\ PastLimitCheck' \subseteq PastLimitCheck \cup {w}
    BY <1>7 DEF CountAttempts, PreviousAttempts, AboutToCharge, PastLimitCheck, TypeOK, CallsOK
  <2>2. Cardinality(AboutToCharge') <= Cardinality(AboutToCharge)
    BY <1>3, <2>1, WorkerCounts
  <2>3. SuccessInv'
    BY <1>4, <1>5, <2>1, <2>2 DEF IInv, SuccessInv
  <2>4. CASE ok
    <3>1. faults' = faults
      BY <1>7, <2>4 DEF CountAttempts, PreviousAttempts
    <3>2. CASE Exhausted(Len(actions), MaxRetries)
      <4>1. pc' = [pc EXCEPT ![w] = "exhausted"]
        BY <1>7, <2>4, <3>2 DEF CountAttempts, PreviousAttempts
      <4>2. PastLimitCheck' \subseteq PastLimitCheck
        BY <4>1 DEF PastLimitCheck, TypeOK, CallsOK
      <4>3. QED
        BY <1>2, <1>5, <2>1, <3>1, <4>2 DEF Quiet
    <3>3. CASE ~Exhausted(Len(actions), MaxRetries)
      <4>1. AttemptInv'
        BY <1>4, <1>5, <2>1, <3>1, <3>3 DEF AttemptInv, Exhausted
      <4>2. QED
        BY <2>3, <4>1
    <3>4. QED
      BY <3>2, <3>3
  <2>5. CASE ~ok
    <3>1. faults' = faults + 1
      BY <1>7, <2>5 DEF CountAttempts, PreviousAttempts
    <3>2. Cardinality(PastLimitCheck') <= Cardinality(PastLimitCheck) + 1
      BY <1>3, <2>1, WorkerCounts
    <3>3. AttemptInv'
      BY <1>4, <1>5, <2>1, <3>1, <3>2 DEF IInv, AttemptInv
    <3>4. QED
      BY <2>3, <3>3
  <2>6. QED
    BY <2>4, <2>5
<1>8. ASSUME NEW w \in Workers, NEW ok \in BOOLEAN, InsertAction(w, ok)
      PROVE  Goal
  <2>1. /\ charges' = charges /\ local' = local
        /\ AboutToCharge' \subseteq AboutToCharge
        /\ PastLimitCheck' = PastLimitCheck \ {w} /\ w \in PastLimitCheck
        /\ faults' \in Nat /\ faults' >= faults
    BY <1>8 DEF InsertAction, Return, AboutToCharge, PastLimitCheck, TypeOK, CallsOK
  <2>2. /\ Cardinality(AboutToCharge') <= Cardinality(AboutToCharge)
        /\ Cardinality(PastLimitCheck') = Cardinality(PastLimitCheck) - 1
    BY <1>3, <2>1, WorkerCounts
  <2>3. SuccessInv'
    BY <1>4, <1>5, <2>1, <2>2 DEF IInv, SuccessInv
  <2>4. Len(actions') \in Nat /\ Len(actions') <= Len(actions) + 1
    <3> DEFINE a == [status |-> "PENDING", type |-> act[w], attempt |-> count[w] + 1]
    <3>1. a \in ActionRow
      BY DEF ActionRow, TypeOK, CallsOK
    <3>2. actions' = Append(actions, a) \/ actions' = actions
      BY <1>8 DEF InsertAction
    <3> HIDE DEF a
    <3>3. QED
      BY <3>1, <3>2, AppendTyped DEF TypeOK, TablesOK
  <2>5. AttemptInv'
    BY <1>4, <1>5, <2>1, <2>2, <2>4 DEF IInv, AttemptInv
  <2>6. QED
    BY <2>3, <2>5
<1>9. ASSUME NEW w \in Workers, NEW ok \in BOOLEAN, Charge(w, ok)
      PROVE  Goal
  <2>1. /\ AboutToCharge' = AboutToCharge \ {w} /\ w \in AboutToCharge
        /\ PastLimitCheck' \subseteq PastLimitCheck
        /\ Len(actions') = Len(actions)
        /\ faults' \in Nat /\ faults' >= faults
    BY <1>9 DEF Charge, AboutToCharge, PastLimitCheck, TypeOK, CallsOK
  <2>2. /\ Cardinality(AboutToCharge') = Cardinality(AboutToCharge) - 1
        /\ Cardinality(PastLimitCheck') <= Cardinality(PastLimitCheck)
    BY <1>3, <2>1, WorkerCounts
  <2>3. /\ charges'["SUCCESS"] \in Nat
        /\ charges'["SUCCESS"] <= charges["SUCCESS"] + 1
        /\ charges'["SUCCESS"] # charges["SUCCESS"] => local' = "CAPTURED"
    BY <1>9, <1>5 DEF Charge, RecordAttempt, TypeOK, TablesOK, ProviderTypeOK
  <2>4. SuccessInv'
    BY <1>1, <1>4, <1>5, <2>2, <2>3 DEF IInv, SuccessInv
  <2>5. AttemptInv'
    BY <1>4, <1>5, <2>1, <2>2 DEF IInv, AttemptInv
  <2>6. QED
    BY <2>4, <2>5
<1>10. ASSUME NEW w \in Workers, NEW ok \in BOOLEAN, Load(w, ok)
      PROVE  Goal
  BY <1>2, <1>10 DEF Load, Quiet, AboutToCharge, PastLimitCheck, TypeOK,
     CallsOK
<1>10a. ASSUME NEW w \in Workers, NEW ok \in BOOLEAN, ReadPayment(w, ok)
      PROVE  Goal
  BY <1>2, <1>10a DEF ReadPayment, Answer, AfterReconciliation, AfterRetryRead,
     Quiet, AboutToCharge, PastLimitCheck, TypeOK, CallsOK
<1>11. ASSUME NEW w \in Workers, NEW ok \in BOOLEAN, StoreInitial(w, ok)
      PROVE  Goal
  BY <1>2, <1>11 DEF StoreInitial, InitializeFromApplicationPayment, Answer,
     AfterReconciliation, AfterRetryRead, Quiet, AboutToCharge,
     PastLimitCheck, TypeOK, CallsOK
<1>12. ASSUME NEW w \in Workers, NEW ok \in BOOLEAN, Reconcile(w, ok)
      PROVE  Goal
  BY <1>2, <1>12 DEF Reconcile, GotoLog, Quiet, AboutToCharge, PastLimitCheck,
     TypeOK, CallsOK
<1>13. ASSUME NEW w \in Workers, NEW ok \in BOOLEAN, 
             \/ RefuseOptOut(w, ok) \/ RefuseExhausted(w, ok)
             \/ RefuseBlocked(w, ok) \/ RefuseEscalate(w, ok)
      PROVE  Goal
  BY <1>2, <1>13 DEF RefuseOptOut, RefuseExhausted, RefuseBlocked,
     RefuseEscalate, Refuse, GotoLog, Quiet, AboutToCharge, PastLimitCheck,
     TypeOK, CallsOK
<1>14. ASSUME NEW w \in Workers, NEW ok \in BOOLEAN, EvaluatePolicy(w, ok)
      PROVE  Goal
  BY <1>2, <1>14 DEF EvaluatePolicy, AfterPolicy, Quiet, AboutToCharge,
     PastLimitCheck, TypeOK, CallsOK
<1>15. ASSUME NEW w \in Workers, NEW ok \in BOOLEAN, AppendAuditLog(w, ok)
      PROVE  Goal
  BY <1>2, <1>15 DEF AppendAuditLog, AfterEntry, Return, Quiet, AboutToCharge,
     PastLimitCheck, TypeOK, CallsOK
<1>16. ASSUME NEW w \in Workers, NEW ok \in BOOLEAN, MarkAction(w, ok)
      PROVE  Goal
  <2>1. Len(actions') = Len(actions)
    BY <1>16, MarkedRows DEF MarkAction, IInv, TypeOK, TablesOK, CallsOK, LocalsInv, HoldsRow
  <2>2. QED
    BY <1>2, <1>16, <2>1 DEF MarkAction, Quiet, AboutToCharge, PastLimitCheck,
       TypeOK, CallsOK
<1>17. ASSUME NEW w \in Workers, NEW ok \in BOOLEAN, Notify(w, ok)
      PROVE  Goal
  BY <1>2, <1>17 DEF Notify, GotoLog, Quiet, AboutToCharge, PastLimitCheck,
     TypeOK, CallsOK
<1>18. ASSUME NEW w \in Workers, NEW ok \in BOOLEAN, VerifyPayment(w, ok)
      PROVE  Goal
  BY <1>2, <1>18 DEF VerifyPayment, AfterVerification, Quiet, AboutToCharge,
     PastLimitCheck, TypeOK, CallsOK
<1>19. ASSUME NEW w \in Workers, NEW ok \in BOOLEAN, RecordRecovery(w, ok)
      PROVE  Goal
  BY <1>2, <1>19 DEF RecordRecovery, RecoveryWrites, GotoLog, Quiet, AboutToCharge,
     PastLimitCheck, TypeOK, CallsOK
<1>20. ASSUME NEW w \in Workers, NEW ok \in BOOLEAN, RecordFailure(w, ok)
      PROVE  Goal
  BY <1>2, <1>20 DEF RecordFailure, Quiet, AboutToCharge, PastLimitCheck,
     TypeOK, CallsOK
<1>21. ASSUME NEW w \in Workers, NEW ok \in BOOLEAN, RecordFailedOutcome(w, ok)
      PROVE  Goal
  BY <1>2, <1>21 DEF RecordFailedOutcome, GotoLog, Quiet, AboutToCharge,
     PastLimitCheck, TypeOK, CallsOK
<1>22. ASSUME NEW w \in Workers, Crash(w)
      PROVE  Goal
  BY <1>2, <1>22 DEF Crash, Return, Quiet, AboutToCharge, PastLimitCheck,
     TypeOK, CallsOK
<1>23. CASE UNCHANGED vars
  BY <1>2, <1>23 DEF vars, Quiet, AboutToCharge, PastLimitCheck, TypeOK
<1>24. QED
  BY <1>6, <1>7, <1>8, <1>9, <1>10, <1>10a, <1>11, <1>12, <1>13, <1>14, <1>15,
     <1>16, <1>17, <1>18, <1>19, <1>20, <1>21, <1>22, <1>23 DEF Next, Step

(* The inductive invariant.                                                *)
LEMMA InductiveInvariant == Spec => [](TypeOK /\ IInv)
<1>1. Init => TypeOK /\ IInv
  BY InitTypeOK, InitCapture, InitCounts DEF IInv
<1>2. TypeOK /\ IInv /\ [Next]_vars => TypeOK' /\ IInv'
  BY NextTypeOK, NextCapture, NextNoFalseRecovery, NextCounts DEF IInv
<1>3. QED
  BY <1>1, <1>2, PTL DEF Spec

(* The retry limit is overrun by less than one attempt per worker plus one *)
(* per failed statement (CHECK 4 of executor.go), whatever the policy.     *)
THEOREM AttemptsBounded == Spec => []AttemptBound
<1>1. TypeOK /\ IInv => AttemptBound
  <2> SUFFICES ASSUME TypeOK, IInv PROVE AttemptBound
    OBVIOUS
  <2>1. Cardinality(PastLimitCheck) \in Nat /\ Cardinality(Workers) \in Nat
    BY WorkerCounts DEF PastLimitCheck
  <2>2. Len(actions) \in Nat /\ faults \in Nat /\ MaxRetries \in Nat
    BY ConstantsAssumption DEF TypeOK, TablesOK
  <2>3. QED
    BY <2>1, <2>2 DEF IInv, AttemptInv, AttemptBound
<1>2. QED
  BY <1>1, InductiveInvariant, PTL

(* A payment is charged successfully at most once per worker, crashes,     *)
(* redeliveries and undecided commits included (local.go:145-238).         *)
THEOREM ChargesBounded == Spec => []SuccessBound
<1>1. TypeOK /\ IInv => SuccessBound
  <2> SUFFICES ASSUME TypeOK, IInv PROVE SuccessBound
    OBVIOUS
  <2>1. Cardinality(AboutToCharge) \in Nat /\ Cardinality(Workers) \in Nat
    BY WorkerCounts DEF AboutToCharge
  <2>2. charges["SUCCESS"] \in Nat
    BY DEF TypeOK, TablesOK, ProviderTypeOK
  <2>3. QED
    BY <2>1, <2>2 DEF IInv, SuccessInv, SuccessBound
<1>2. QED
  BY <1>1, InductiveInvariant, PTL
(* No step removes an attempt, takes back an audit entry or a fault.       *)
LEMMA NextMonotone ==
  ASSUME TypeOK, LocalsInv, [Next]_vars
  PROVE  /\ Len(actions) \in Nat /\ Len(actions') \in Nat /\ Len(actions') >= Len(actions)
         /\ faults \in Nat /\ faults' \in Nat /\ faults' >= faults
         /\ trail["RECOVERY_EXECUTED"] \in Nat /\ trail'["RECOVERY_EXECUTED"] \in Nat
         /\ trail'["RECOVERY_EXECUTED"] >= trail["RECOVERY_EXECUTED"]
<1> DEFINE Kept == Len(actions') >= Len(actions) /\ faults' >= faults
                     /\ trail'["RECOVERY_EXECUTED"] >= trail["RECOVERY_EXECUTED"]
<1>1. /\ actions \in Seq(ActionRow) /\ Len(actions) \in Nat /\ faults \in Nat
      /\ trail \in [AuditActions -> Nat] /\ "RECOVERY_EXECUTED" \in AuditActions
      /\ trail["RECOVERY_EXECUTED"] \in Nat
  BY EntryNames DEF TypeOK, TablesOK
<1>2. TypeOK'
  BY NextTypeOK
<1>3. Len(actions') \in Nat /\ faults' \in Nat /\ trail' \in [AuditActions -> Nat]
  BY <1>2 DEF TypeOK, TablesOK
<1> USE DEF Fault, dbVars
<1>4. ASSUME NEW w \in Workers, NEW ok \in BOOLEAN, Load(w, ok)
      PROVE  Kept
  BY <1>1, <1>4 DEF Load
<1>5. ASSUME NEW w \in Workers, NEW ok \in BOOLEAN, GetPayment(w, ok)
      PROVE  Kept
  BY <1>1, <1>5 DEF GetPayment, Answer, AfterReconciliation, AfterRetryRead
<1>6. ASSUME NEW w \in Workers, NEW ok \in BOOLEAN, ReadPayment(w, ok)
      PROVE  Kept
  BY <1>1, <1>6 DEF ReadPayment, Answer, AfterReconciliation, AfterRetryRead
<1>7. ASSUME NEW w \in Workers, NEW ok \in BOOLEAN, StoreInitial(w, ok)
      PROVE  Kept
  BY <1>1, <1>7 DEF StoreInitial, InitializeFromApplicationPayment, Answer,
     AfterReconciliation, AfterRetryRead
<1>8. ASSUME NEW w \in Workers, NEW ok \in BOOLEAN, Reconcile(w, ok)
      PROVE  Kept
  BY <1>1, <1>8 DEF Reconcile, GotoLog
<1>9. ASSUME NEW w \in Workers, NEW ok \in BOOLEAN,
             \/ RefuseOptOut(w, ok) \/ RefuseExhausted(w, ok)
             \/ RefuseBlocked(w, ok) \/ RefuseEscalate(w, ok)
      PROVE  Kept
  BY <1>1, <1>9 DEF RefuseOptOut, RefuseExhausted, RefuseBlocked, RefuseEscalate,
     Refuse, GotoLog
<1>10. ASSUME NEW w \in Workers, NEW ok \in BOOLEAN, CountAttempts(w, ok)
      PROVE  Kept
  BY <1>1, <1>10 DEF CountAttempts, PreviousAttempts
<1>11. ASSUME NEW w \in Workers, NEW ok \in BOOLEAN, EvaluatePolicy(w, ok)
      PROVE  Kept
  BY <1>1, <1>11 DEF EvaluatePolicy, AfterPolicy
<1>12. ASSUME NEW w \in Workers, NEW ok \in BOOLEAN, InsertAction(w, ok)
      PROVE  Kept
  <2> DEFINE a == [status |-> "PENDING", type |-> act[w], attempt |-> count[w] + 1]
  <2>1. a \in ActionRow
    BY DEF ActionRow, TypeOK, CallsOK
  <2>2. /\ actions' = Append(actions, a) \/ actions' = actions
        /\ trail' = trail /\ faults' >= faults
    BY <1>1, <1>12 DEF InsertAction
  <2> HIDE DEF a
  <2>3. QED
    BY <1>1, <2>1, <2>2, AppendTyped
<1>13. ASSUME NEW w \in Workers, NEW ok \in BOOLEAN, AppendAuditLog(w, ok)
      PROVE  Kept
  BY <1>1, <1>13 DEF AppendAuditLog, AfterEntry, Continues, Return
<1>14. ASSUME NEW w \in Workers, NEW ok \in BOOLEAN, Charge(w, ok)
      PROVE  Kept
  BY <1>1, <1>14 DEF Charge, RecordAttempt
<1>15. ASSUME NEW w \in Workers, NEW ok \in BOOLEAN, MarkAction(w, ok)
      PROVE  Kept
  <2>1. Len(actions') = Len(actions)
    BY <1>15, MarkedRows DEF MarkAction, TypeOK, TablesOK, CallsOK, LocalsInv, HoldsRow
  <2>2. QED
    BY <1>1, <2>1, <1>15 DEF MarkAction
<1>16. ASSUME NEW w \in Workers, NEW ok \in BOOLEAN, Notify(w, ok)
      PROVE  Kept
  BY <1>1, <1>16 DEF Notify, GotoLog
<1>17. ASSUME NEW w \in Workers, NEW ok \in BOOLEAN, VerifyPayment(w, ok)
      PROVE  Kept
  BY <1>1, <1>17 DEF VerifyPayment, AfterVerification
<1>18. ASSUME NEW w \in Workers, NEW ok \in BOOLEAN, RecordRecovery(w, ok)
      PROVE  Kept
  BY <1>1, <1>18 DEF RecordRecovery, RecoveryWrites, GotoLog
<1>19. ASSUME NEW w \in Workers, NEW ok \in BOOLEAN, RecordFailure(w, ok)
      PROVE  Kept
  BY <1>1, <1>19 DEF RecordFailure
<1>20. ASSUME NEW w \in Workers, NEW ok \in BOOLEAN, RecordFailedOutcome(w, ok)
      PROVE  Kept
  BY <1>1, <1>20 DEF RecordFailedOutcome, GotoLog
<1>21. ASSUME NEW w \in Workers, Crash(w)
      PROVE  Kept
  BY <1>1, <1>21 DEF Crash, Return
<1>22. CASE UNCHANGED vars
  BY <1>1, <1>22 DEF vars
<1>23. Kept
  BY <1>4, <1>5, <1>6, <1>7, <1>8, <1>9, <1>10, <1>11, <1>12, <1>13, <1>14, <1>15,
     <1>16, <1>17, <1>18, <1>19, <1>20, <1>21, <1>22 DEF Next, Step
<1>24. QED
  BY <1>1, <1>3, <1>23

(* Every step keeps the two counts ahead of the charges: a call is counted *)
(* among them from its row, and from its audit entry, to its charge.       *)
LEMMA NextCharges == TypeOK /\ IInv /\ ChargeInv /\ [Next]_vars => ChargeInv'
<1> SUFFICES ASSUME TypeOK, IInv, ChargeInv, [Next]_vars
             PROVE  ChargeInv'
  OBVIOUS
<1> DEFINE Settled == charges' = charges /\ Recorded' \subseteq Recorded
                        /\ Announced' \subseteq Announced
<1>1. /\ Len(actions) \in Nat /\ Len(actions') \in Nat /\ Len(actions') >= Len(actions)
      /\ faults \in Nat /\ faults' \in Nat /\ faults' >= faults
      /\ trail["RECOVERY_EXECUTED"] \in Nat /\ trail'["RECOVERY_EXECUTED"] \in Nat
      /\ trail'["RECOVERY_EXECUTED"] >= trail["RECOVERY_EXECUTED"]
  BY NextMonotone DEF IInv
<1>2. /\ Recorded \in SUBSET Workers /\ Recorded' \in SUBSET Workers
      /\ Announced \in SUBSET Workers /\ Announced' \in SUBSET Workers
  BY DEF Recorded, Announced
<1>3. /\ Cardinality(Recorded) \in Nat /\ Cardinality(Recorded') \in Nat
      /\ Cardinality(Announced) \in Nat /\ Cardinality(Announced') \in Nat
  BY <1>2, WorkerCounts
<1>4. charges \in [{"SUCCESS", "FAILED"} -> Nat] /\ TotalCharges \in Nat
  BY DEF TypeOK, TablesOK, ProviderTypeOK, TotalCharges
<1>4a. /\ TotalCharges + Cardinality(Recorded) <= Len(actions)
       /\ TotalCharges + Cardinality(Announced) <= trail["RECOVERY_EXECUTED"] + faults
  BY DEF ChargeInv
<1>4b. /\ trail["RECOVERY_EXECUTED"] + faults <= trail'["RECOVERY_EXECUTED"] + faults'
       /\ trail["RECOVERY_EXECUTED"] + faults \in Nat
       /\ trail'["RECOVERY_EXECUTED"] + faults' \in Nat
  BY <1>1
<1>5. Settled => ChargeInv'
  <2> SUFFICES ASSUME Settled PROVE ChargeInv'
    OBVIOUS
  <2>1. /\ Cardinality(Recorded') <= Cardinality(Recorded)
        /\ Cardinality(Announced') <= Cardinality(Announced)
    BY <1>2, WorkerCounts
  <2>2. TotalCharges' = TotalCharges
    BY DEF TotalCharges
  <2>3. TotalCharges' + Cardinality(Recorded') <= Len(actions')
    BY <1>1, <1>3, <1>4, <1>4a, <2>1, <2>2
  <2>4. TotalCharges' + Cardinality(Announced') <= trail'["RECOVERY_EXECUTED"] + faults'
    BY <1>1, <1>3, <1>4, <1>4a, <2>1, <2>2
  <2>5. QED
    BY <2>3, <2>4 DEF ChargeInv
<1> USE DEF Fault, Goto, dbVars, providerVars, callVars
<1>6. ASSUME NEW w \in Workers, NEW ok \in BOOLEAN, Load(w, ok)
      PROVE  ChargeInv'
  BY <1>5, <1>6 DEF Load,
     Recorded, Announced, TypeOK, CallsOK
<1>7. ASSUME NEW w \in Workers, NEW ok \in BOOLEAN, GetPayment(w, ok)
      PROVE  ChargeInv'
  BY <1>5, <1>7 DEF GetPayment, Answer, AfterReconciliation, AfterRetryRead,
     Recorded, Announced, TypeOK, CallsOK
<1>8. ASSUME NEW w \in Workers, NEW ok \in BOOLEAN, ReadPayment(w, ok)
      PROVE  ChargeInv'
  BY <1>5, <1>8 DEF ReadPayment, Answer, AfterReconciliation, AfterRetryRead,
     Recorded, Announced, TypeOK, CallsOK
<1>9. ASSUME NEW w \in Workers, NEW ok \in BOOLEAN, StoreInitial(w, ok)
      PROVE  ChargeInv'
  BY <1>5, <1>9 DEF StoreInitial, InitializeFromApplicationPayment, Answer,
     AfterReconciliation, AfterRetryRead,
     Recorded, Announced, TypeOK, CallsOK
<1>10. ASSUME NEW w \in Workers, NEW ok \in BOOLEAN, Reconcile(w, ok)
      PROVE  ChargeInv'
  BY <1>5, <1>10 DEF Reconcile, GotoLog,
     Recorded, Announced, TypeOK, CallsOK
<1>11. ASSUME NEW w \in Workers, NEW ok \in BOOLEAN,
             \/ RefuseOptOut(w, ok) \/ RefuseExhausted(w, ok)
             \/ RefuseBlocked(w, ok) \/ RefuseEscalate(w, ok)
      PROVE  ChargeInv'
  BY <1>5, <1>11 DEF RefuseOptOut, RefuseExhausted, RefuseBlocked,
     RefuseEscalate, Refuse, GotoLog,
     Recorded, Announced, TypeOK, CallsOK
<1>12. ASSUME NEW w \in Workers, NEW ok \in BOOLEAN, CountAttempts(w, ok)
      PROVE  ChargeInv'
  BY <1>5, <1>12 DEF CountAttempts, PreviousAttempts,
     Recorded, Announced, TypeOK, CallsOK
<1>13. ASSUME NEW w \in Workers, NEW ok \in BOOLEAN, EvaluatePolicy(w, ok)
      PROVE  ChargeInv'
  BY <1>5, <1>13 DEF EvaluatePolicy, AfterPolicy,
     Recorded, Announced, TypeOK, CallsOK
<1>14. ASSUME NEW w \in Workers, NEW ok \in BOOLEAN, InsertAction(w, ok)
      PROVE  ChargeInv'
  <2>1. charges' = charges /\ Announced' \subseteq Announced
    BY <1>14 DEF InsertAction, Return, Announced, TypeOK, CallsOK
  <2>2. CASE ok
    <3>1. Recorded' \subseteq Recorded \cup {w}
      BY <1>14, <2>2 DEF InsertAction, Recorded, Announced, TypeOK, CallsOK
    <3>2. Len(actions') = Len(actions) + 1
      <4> DEFINE a == [status |-> "PENDING", type |-> act[w], attempt |-> count[w] + 1]
      <4>1. a \in ActionRow
        BY DEF ActionRow, TypeOK, CallsOK
      <4>2. actions' = Append(actions, a)
        BY <1>14, <2>2 DEF InsertAction
      <4> HIDE DEF a
      <4>3. QED
        BY <4>1, <4>2, AppendTyped DEF TypeOK, TablesOK
    <3>3. /\ Cardinality(Recorded') <= Cardinality(Recorded) + 1
          /\ Cardinality(Announced') <= Cardinality(Announced)
      BY <1>2, <2>1, <3>1, WorkerCounts
    <3>4. TotalCharges' = TotalCharges
      BY <2>1 DEF TotalCharges
    <3>5. TotalCharges' + Cardinality(Recorded') <= Len(actions')
      BY <1>1, <1>3, <1>4, <1>4a, <3>2, <3>3, <3>4
    <3>6. TotalCharges' + Cardinality(Announced') <= trail'["RECOVERY_EXECUTED"] + faults'
      BY <1>3, <1>4, <1>4a, <1>4b, <3>3, <3>4
    <3>7. QED
      BY <3>5, <3>6 DEF ChargeInv
  <2>3. CASE ~ok
    <3>1. Recorded' \subseteq Recorded
      BY <1>14, <2>3 DEF InsertAction, Return, Recorded, Announced, TypeOK, CallsOK
    <3>2. QED
      BY <1>5, <2>1, <3>1
  <2>4. QED
    BY <2>2, <2>3
<1>15. ASSUME NEW w \in Workers, NEW ok \in BOOLEAN, AppendAuditLog(w, ok)
      PROVE  ChargeInv'
  <2>1. charges' = charges /\ Recorded' \subseteq Recorded
    BY <1>15 DEF AppendAuditLog, AfterEntry, Continues, Return, Recorded, Announced,
                  TypeOK, CallsOK
  <2>2. CASE entry[w] = "RECOVERY_EXECUTED"
    <3>1. Announced' \subseteq Announced \cup {w}
      BY <1>15, <2>2 DEF AppendAuditLog, Continues, AfterEntry, Announced, TypeOK, CallsOK
    <3>2. trail'["RECOVERY_EXECUTED"] + faults' = trail["RECOVERY_EXECUTED"] + faults + 1
      BY <1>15, <1>1, <2>2, EntryNames DEF AppendAuditLog, TypeOK, TablesOK
    <3>3. /\ Cardinality(Recorded') <= Cardinality(Recorded)
          /\ Cardinality(Announced') <= Cardinality(Announced) + 1
      BY <1>2, <2>1, <3>1, WorkerCounts
    <3>4. TotalCharges' = TotalCharges
      BY <2>1 DEF TotalCharges
    <3>5. TotalCharges' + Cardinality(Recorded') <= Len(actions')
      BY <1>1, <1>3, <1>4, <1>4a, <3>2, <3>3, <3>4
    <3>6. TotalCharges' + Cardinality(Announced') <= trail'["RECOVERY_EXECUTED"] + faults'
      BY <1>1, <1>3, <1>4, <1>4a, <3>2, <3>3, <3>4
    <3>7. QED
      BY <3>5, <3>6 DEF ChargeInv
  <2>3. CASE entry[w] # "RECOVERY_EXECUTED"
    <3>1. Announced' \subseteq Announced
      BY <1>15, <2>3 DEF AppendAuditLog, Continues, AfterEntry, Return, Announced, TypeOK, CallsOK
    <3>2. QED
      BY <1>5, <2>1, <3>1
  <2>4. QED
    BY <2>2, <2>3
<1>16. ASSUME NEW w \in Workers, NEW ok \in BOOLEAN, Charge(w, ok)
      PROVE  ChargeInv'
  <2>1. /\ Recorded' = Recorded \ {w} /\ w \in Recorded
        /\ Announced' = Announced \ {w} /\ w \in Announced
    BY <1>16 DEF Charge, Recorded, Announced, TypeOK, CallsOK
  <2>2. /\ Cardinality(Recorded') = Cardinality(Recorded) - 1
        /\ Cardinality(Announced') = Cardinality(Announced) - 1
    BY <1>2, <2>1, WorkerCounts
  <2>3. TotalCharges' = TotalCharges \/ TotalCharges' = TotalCharges + 1
    BY <1>16, <1>4 DEF Charge, RecordAttempt, TotalCharges
  <2>4. TotalCharges' + Cardinality(Recorded') <= Len(actions')
    BY <1>1, <1>3, <1>4, <1>4a, <2>2, <2>3
  <2>5. TotalCharges' + Cardinality(Announced') <= trail'["RECOVERY_EXECUTED"] + faults'
    <3>1. TotalCharges' + Cardinality(Announced') <= TotalCharges + Cardinality(Announced)
      BY <1>3, <1>4, <2>2, <2>3
    <3>2. QED
      BY <1>3, <1>4, <1>4a, <1>4b, <2>3, <3>1
  <2>6. QED
    BY <2>4, <2>5 DEF ChargeInv
<1>17. ASSUME NEW w \in Workers, NEW ok \in BOOLEAN, MarkAction(w, ok)
      PROVE  ChargeInv'
  BY <1>5, <1>17 DEF MarkAction,
     Recorded, Announced, TypeOK, CallsOK
<1>18. ASSUME NEW w \in Workers, NEW ok \in BOOLEAN, Notify(w, ok)
      PROVE  ChargeInv'
  BY <1>5, <1>18 DEF Notify, GotoLog,
     Recorded, Announced, TypeOK, CallsOK
<1>19. ASSUME NEW w \in Workers, NEW ok \in BOOLEAN, VerifyPayment(w, ok)
      PROVE  ChargeInv'
  BY <1>5, <1>19 DEF VerifyPayment, AfterVerification,
     Recorded, Announced, TypeOK, CallsOK
<1>20. ASSUME NEW w \in Workers, NEW ok \in BOOLEAN, RecordRecovery(w, ok)
      PROVE  ChargeInv'
  BY <1>5, <1>20 DEF RecordRecovery, RecoveryWrites, GotoLog,
     Recorded, Announced, TypeOK, CallsOK
<1>21. ASSUME NEW w \in Workers, NEW ok \in BOOLEAN, RecordFailure(w, ok)
      PROVE  ChargeInv'
  BY <1>5, <1>21 DEF RecordFailure,
     Recorded, Announced, TypeOK, CallsOK
<1>22. ASSUME NEW w \in Workers, NEW ok \in BOOLEAN, RecordFailedOutcome(w, ok)
      PROVE  ChargeInv'
  BY <1>5, <1>22 DEF RecordFailedOutcome, GotoLog,
     Recorded, Announced, TypeOK, CallsOK
<1>23. ASSUME NEW w \in Workers, Crash(w)
      PROVE  ChargeInv'
  BY <1>5, <1>23 DEF Crash, Return,
     Recorded, Announced, TypeOK, CallsOK
<1>24. CASE UNCHANGED vars
  BY <1>5, <1>24 DEF vars, Recorded, Announced, TypeOK, CallsOK
<1>25. QED
  BY <1>6, <1>7, <1>8, <1>9, <1>10, <1>11, <1>12, <1>13, <1>14, <1>15, <1>16, <1>17,
     <1>18, <1>19, <1>20, <1>21, <1>22, <1>23, <1>24 DEF Next, Step

(* What the customer was charged is accounted for: the provider is never   *)
(* asked more often than recovery_actions has rows nor, failed statements  *)
(* aside, than the audit trail announces (executor.go, step 7).            *)
THEOREM ChargesAreAccountedFor == Spec => []ChargesAccountedFor
<1>1. Init => ChargeInv
  <2> SUFFICES ASSUME Init PROVE ChargeInv
    OBVIOUS
  <2>1. Recorded = {} /\ Announced = {}
    BY DEF Init, Recorded, Announced
  <2>2. TotalCharges = 0 /\ Len(actions) = 0 /\ trail["RECOVERY_EXECUTED"] = 0 /\ faults = 0
    BY EntryNames DEF Init, ProviderInit, TotalCharges
  <2>3. QED
    BY <2>1, <2>2, FS_EmptySet DEF ChargeInv
<1>2. TypeOK /\ ChargeInv => ChargesAccountedFor
  <2> SUFFICES ASSUME TypeOK, ChargeInv PROVE ChargesAccountedFor
    OBVIOUS
  <2>1. Cardinality(Recorded) \in Nat /\ Cardinality(Announced) \in Nat
    BY WorkerCounts DEF Recorded, Announced
  <2>2. /\ TotalCharges \in Nat /\ Len(actions) \in Nat /\ faults \in Nat
        /\ trail["RECOVERY_EXECUTED"] \in Nat
    BY EntryNames DEF TypeOK, TablesOK, ProviderTypeOK, TotalCharges
  <2>3. QED
    BY <2>1, <2>2 DEF ChargeInv, ChargesAccountedFor
<1>3. QED
  BY <1>1, <1>2, NextCharges, InductiveInvariant, PTL DEF Spec

(* Every step keeps a call on its way to report a capture, until that call *)
(* stores it: a charge leaves its caller there, and the upsert of the      *)
(* initial status can only store what payments says already.               *)
LEMMA NextReport == TypeOK /\ IInv /\ ReportInv /\ [Next]_vars => ReportInv'
<1> SUFFICES ASSUME TypeOK, IInv, ReportInv, [Next]_vars,
                    faults' = 0, local' = "CAPTURED", payment' # "CAPTURED"
             PROVE  \E v \in Workers : Reporting(v)'
  BY DEF ReportInv
<1> DEFINE Goal == \E v \in Workers : Reporting(v)'
<1>1. faults \in Nat /\ faults' >= faults
  BY NextMonotone DEF IInv
<1>2. faults = 0 /\ faults' = 0 /\ local' = "CAPTURED" /\ payment' # "CAPTURED"
  BY <1>1
<1>3. local = "CAPTURED" /\ payment # "CAPTURED" => \E v \in Workers : Reporting(v)
  BY <1>2 DEF ReportInv
<1>4. /\ local' = local
      /\ payment' = payment
      /\ \A v \in Workers : Reporting(v) => Reporting(v)'
      => Goal
  BY <1>2, <1>3
<1> USE DEF Fault, Goto, dbVars, providerVars, callVars
<1>5. ASSUME NEW w \in Workers, NEW ok \in BOOLEAN, Load(w, ok)
      PROVE  Goal
  BY <1>2, <1>4, <1>5 DEF Load, Reporting, TypeOK, CallsOK
<1>6. ASSUME NEW w \in Workers, NEW ok \in BOOLEAN, GetPayment(w, ok)
      PROVE  Goal
  BY <1>2, <1>4, <1>6 DEF GetPayment, Answer, AfterReconciliation, AfterRetryRead,
     Reporting, TypeOK, CallsOK
<1>7. ASSUME NEW w \in Workers, NEW ok \in BOOLEAN, ReadPayment(w, ok)
      PROVE  Goal
  BY <1>2, <1>4, <1>7 DEF ReadPayment, Answer, AfterReconciliation, AfterRetryRead,
     Reporting, TypeOK, CallsOK
<1>8. ASSUME NEW w \in Workers, NEW ok \in BOOLEAN, StoreInitial(w, ok)
      PROVE  Goal
  <2>1. payment' = payment /\ (Reporting(w) => FALSE)
    BY <1>8 DEF StoreInitial, Reporting
  <2>2. \A v \in Workers : Reporting(v) => Reporting(v)'
    BY <1>8 DEF StoreInitial, Answer, Reporting, TypeOK, CallsOK
  <2>3. local' = local
    <3>1. local = "ABSENT" => seen[w] = payment
      BY <1>8 DEF IInv, CaptureInv, Storing, StoreInitial
    <3>2. QED
      BY <1>8, <1>2, <2>1, <3>1 DEF StoreInitial, InitializeFromApplicationPayment
  <2>4. QED
    BY <1>4, <2>1, <2>2, <2>3
<1>9. ASSUME NEW w \in Workers, NEW ok \in BOOLEAN, Reconcile(w, ok)
      PROVE  Goal
  BY <1>2, <1>9 DEF Reconcile
<1>10. ASSUME NEW w \in Workers, NEW ok \in BOOLEAN,
             \/ RefuseOptOut(w, ok) \/ RefuseExhausted(w, ok)
             \/ RefuseBlocked(w, ok) \/ RefuseEscalate(w, ok)
      PROVE  Goal
  BY <1>2, <1>4, <1>10 DEF RefuseOptOut, RefuseExhausted, RefuseBlocked, RefuseEscalate,
     Refuse, GotoLog, Reporting, TypeOK, CallsOK
<1>11. ASSUME NEW w \in Workers, NEW ok \in BOOLEAN, CountAttempts(w, ok)
      PROVE  Goal
  BY <1>2, <1>4, <1>11 DEF CountAttempts, PreviousAttempts, Reporting, TypeOK, CallsOK
<1>12. ASSUME NEW w \in Workers, NEW ok \in BOOLEAN, EvaluatePolicy(w, ok)
      PROVE  Goal
  BY <1>2, <1>4, <1>12 DEF EvaluatePolicy, AfterPolicy, Reporting, TypeOK, CallsOK
<1>13. ASSUME NEW w \in Workers, NEW ok \in BOOLEAN, InsertAction(w, ok)
      PROVE  Goal
  BY <1>2, <1>4, <1>13 DEF InsertAction, Return, Reporting, TypeOK, CallsOK
<1>14. ASSUME NEW w \in Workers, NEW ok \in BOOLEAN, AppendAuditLog(w, ok)
      PROVE  Goal
  BY <1>2, <1>4, <1>14 DEF AppendAuditLog, AfterEntry, Continues, Return, Reporting,
     TypeOK, CallsOK
<1>15. ASSUME NEW w \in Workers, NEW ok \in BOOLEAN, Charge(w, ok)
      PROVE  Goal
  BY <1>15 DEF Charge, Reporting, TypeOK, CallsOK
<1>16. ASSUME NEW w \in Workers, NEW ok \in BOOLEAN, MarkAction(w, ok)
      PROVE  Goal
  BY <1>2, <1>4, <1>16 DEF MarkAction, Reporting, TypeOK, CallsOK
<1>17. ASSUME NEW w \in Workers, NEW ok \in BOOLEAN, Notify(w, ok)
      PROVE  Goal
  BY <1>2, <1>4, <1>17 DEF Notify, GotoLog, Reporting, TypeOK, CallsOK
<1>18. ASSUME NEW w \in Workers, NEW ok \in BOOLEAN, VerifyPayment(w, ok)
      PROVE  Goal
  BY <1>2, <1>4, <1>18 DEF VerifyPayment, AfterVerification, Reporting, TypeOK, CallsOK
<1>19. ASSUME NEW w \in Workers, NEW ok \in BOOLEAN, RecordRecovery(w, ok)
      PROVE  Goal
  BY <1>2, <1>19 DEF RecordRecovery, RecoveryWrites
<1>20. ASSUME NEW w \in Workers, NEW ok \in BOOLEAN, RecordFailure(w, ok)
      PROVE  Goal
  BY <1>2, <1>4, <1>20 DEF RecordFailure, Reporting, TypeOK, CallsOK
<1>21. ASSUME NEW w \in Workers, NEW ok \in BOOLEAN, RecordFailedOutcome(w, ok)
      PROVE  Goal
  BY <1>2, <1>4, <1>21 DEF RecordFailedOutcome, GotoLog, Reporting, TypeOK, CallsOK
<1>22. ASSUME NEW w \in Workers, Crash(w)
      PROVE  Goal
  BY <1>2, <1>22 DEF Crash
<1>23. CASE UNCHANGED vars
  BY <1>2, <1>4, <1>23 DEF vars, Reporting, TypeOK, CallsOK
<1>24. QED
  BY <1>5, <1>6, <1>7, <1>8, <1>9, <1>10, <1>11, <1>12, <1>13, <1>14, <1>15, <1>16,
     <1>17, <1>18, <1>19, <1>20, <1>21, <1>22, <1>23 DEF Next, Step

(* When all calls have ended and no statement failed, a capture at the     *)
(* provider is known to payments, whichever worker made it and whatever    *)
(* the others wrote (executor.go, step 9 after step 8).                    *)
THEOREM CapturesAreRecorded == Spec => []CaptureIsRecorded
<1>1. Init => ReportInv
  BY DEF Init, ProviderInit, ReportInv
<1>2. ReportInv => CaptureIsRecorded
  BY DEF ReportInv, CaptureIsRecorded, Reporting, AllIdle
<1>3. QED
  BY <1>1, <1>2, NextReport, InductiveInvariant, PTL DEF Spec

(* Every step keeps the count of a call within the rows there are: rows    *)
(* are only added, and without failed statements every call compares them  *)
(* with the merchant's own limit.                                          *)
LEMMA NextFailure == TypeOK /\ IInv /\ FailureInv /\ [Next]_vars => FailureInv'
<1> DEFINE Sound(v) ==
      /\ pc[v] = "exhausted" => Len(actions) >= MaxRetries
      /\ v \in PastLimitCheck => limit[v] = MaxRetries /\ count[v] <= Len(actions)
      /\ HoldsRow(v) => limit[v] = MaxRetries /\ count[v] + 1 <= Len(actions)
    Goal == NoEarlyFailure' /\ \A v \in Workers : Sound(v)'
<1> SUFFICES ASSUME TypeOK, IInv, FailureInv, [Next]_vars, faults' = 0
             PROVE  Goal
  BY DEF FailureInv
<1> DEFINE Carries(v) ==
      \/ pc'[v] = "idle"
      \/ /\ count'[v] = count[v] /\ limit'[v] = limit[v]
         /\ pc'[v] = "exhausted" => pc[v] = "exhausted"
         /\ v \in PastLimitCheck' => v \in PastLimitCheck
         /\ HoldsRow(v)' => HoldsRow(v)
<1>1. /\ Len(actions) \in Nat /\ Len(actions') \in Nat /\ Len(actions') >= Len(actions)
      /\ faults \in Nat /\ faults' >= faults
      /\ MaxRetries \in Nat
  BY NextMonotone, ConstantsAssumption DEF IInv
<1>2. faults = 0 /\ faults' = 0
  BY <1>1
<1>3. \A v \in Workers : count[v] \in Nat
  BY DEF TypeOK, CallsOK
<1>4. /\ wf = "FAILED" => Len(actions) >= MaxRetries
      /\ \A v \in Workers : Sound(v)
  BY <1>2 DEF FailureInv, NoEarlyFailure
<1>4a. \A v \in Workers : Carries(v) => Sound(v)'
  <2> SUFFICES ASSUME NEW v \in Workers, Carries(v) PROVE Sound(v)'
    OBVIOUS
  <2>1. CASE pc'[v] = "idle"
    BY <2>1 DEF HoldsRow, PastLimitCheck
  <2>2. CASE pc'[v] # "idle"
    BY <1>1, <1>3, <1>4, <2>2
  <2>3. QED
    BY <2>1, <2>2
<1>5. (wf' = "FAILED" => Len(actions') >= MaxRetries) /\ (\A v \in Workers : Carries(v)) => Goal
  BY <1>4a DEF NoEarlyFailure
<1>6. ASSUME NEW w \in Workers, wf' = wf, \A v \in Workers \ {w} : Carries(v), Sound(w)'
      PROVE  Goal
  BY <1>1, <1>4, <1>4a, <1>6 DEF NoEarlyFailure
<1>7. (wf' = wf \/ wf' # "FAILED") /\ (\A v \in Workers : Carries(v)) => Goal
  BY <1>1, <1>4, <1>5
<1> HIDE DEF Goal
<1> USE DEF Fault, Goto, dbVars, providerVars, callVars
<1>8. ASSUME NEW w \in Workers, NEW ok \in BOOLEAN, Load(w, ok)
      PROVE  Goal
  <2>1. wf' = wf \/ wf' # "FAILED"
    BY <1>2, <1>8 DEF Load
  <2>2. \A v \in Workers : Carries(v)
    BY <1>2, <1>8 DEF Load, HoldsRow, PastLimitCheck, TypeOK, CallsOK
  <2>3. QED
    BY <1>7, <2>1, <2>2
<1>9. ASSUME NEW w \in Workers, NEW ok \in BOOLEAN, GetPayment(w, ok)
      PROVE  Goal
  <2>1. wf' = wf \/ wf' # "FAILED"
    BY <1>2, <1>9 DEF GetPayment, Answer, AfterReconciliation, AfterRetryRead
  <2>2. \A v \in Workers : Carries(v)
    BY <1>2, <1>9 DEF GetPayment, Answer, AfterReconciliation, AfterRetryRead, HoldsRow,
       PastLimitCheck, TypeOK, CallsOK
  <2>3. QED
    BY <1>7, <2>1, <2>2
<1>10. ASSUME NEW w \in Workers, NEW ok \in BOOLEAN, ReadPayment(w, ok)
      PROVE  Goal
  <2>1. wf' = wf \/ wf' # "FAILED"
    BY <1>2, <1>10 DEF ReadPayment, Answer, AfterReconciliation, AfterRetryRead
  <2>2. \A v \in Workers : Carries(v)
    BY <1>2, <1>10 DEF ReadPayment, Answer, AfterReconciliation, AfterRetryRead, HoldsRow,
       PastLimitCheck, TypeOK, CallsOK
  <2>3. QED
    BY <1>7, <2>1, <2>2
<1>11. ASSUME NEW w \in Workers, NEW ok \in BOOLEAN, StoreInitial(w, ok)
      PROVE  Goal
  <2>1. wf' = wf \/ wf' # "FAILED"
    BY <1>2, <1>11 DEF StoreInitial, InitializeFromApplicationPayment, Answer,
       AfterReconciliation, AfterRetryRead
  <2>2. \A v \in Workers : Carries(v)
    BY <1>2, <1>11 DEF StoreInitial, InitializeFromApplicationPayment, Answer,
       AfterReconciliation, AfterRetryRead, HoldsRow, PastLimitCheck, TypeOK, CallsOK
  <2>3. QED
    BY <1>7, <2>1, <2>2
<1>12. ASSUME NEW w \in Workers, NEW ok \in BOOLEAN, Reconcile(w, ok)
      PROVE  Goal
  <2>1. wf' = wf \/ wf' # "FAILED"
    BY <1>2, <1>12 DEF Reconcile, GotoLog
  <2>2. \A v \in Workers : Carries(v)
    BY <1>2, <1>12 DEF Reconcile, GotoLog, HoldsRow, PastLimitCheck, TypeOK, CallsOK
  <2>3. QED
    BY <1>7, <2>1, <2>2
<1>13. ASSUME NEW w \in Workers, NEW ok \in BOOLEAN,
             \/ RefuseOptOut(w, ok) \/ RefuseExhausted(w, ok)
             \/ RefuseBlocked(w, ok) \/ RefuseEscalate(w, ok)
      PROVE  Goal
  <2>1. \A v \in Workers : Carries(v)
    BY <1>2, <1>13 DEF RefuseOptOut, RefuseExhausted, RefuseBlocked, RefuseEscalate, Refuse,
       GotoLog, HoldsRow, PastLimitCheck, TypeOK, CallsOK
  <2>2. wf' = "FAILED" => Len(actions') >= MaxRetries
    BY <1>2, <1>4, <1>13 DEF RefuseOptOut, RefuseExhausted, RefuseBlocked, RefuseEscalate, Refuse
  <2>3. QED
    BY <1>5, <2>1, <2>2
<1>14. ASSUME NEW w \in Workers, NEW ok \in BOOLEAN, CountAttempts(w, ok)
      PROVE  Goal
  <2>1. wf' = wf /\ actions' = actions
    BY <1>14 DEF CountAttempts
  <2>2. /\ count' = [count EXCEPT ![w] = Len(actions)]
        /\ limit' = [limit EXCEPT ![w] = MaxRetries]
        /\ pc' = [pc EXCEPT ![w] = IF Len(actions) >= MaxRetries THEN "exhausted" ELSE "policy"]
    <3>1. ok
      BY <1>1, <1>2, <1>14 DEF CountAttempts
    <3>2. {PreviousAttempts} \cup (IF ok THEN {} ELSE {0}) = {Len(actions)}
      BY <3>1 DEF PreviousAttempts
    <3>3. {MaxRetries} \cup (IF ok THEN {} ELSE {DefaultPolicy.maxRetries}) = {MaxRetries}
      BY <3>1
    <3>4. QED
      BY <1>14, <3>2, <3>3 DEF CountAttempts, Exhausted
  <2>3. \A v \in Workers \ {w} : Carries(v)
    BY <1>14, <2>2 DEF CountAttempts, HoldsRow, PastLimitCheck, TypeOK, CallsOK
  <2>4. Sound(w)'
    BY <1>1, <2>1, <2>2 DEF HoldsRow, PastLimitCheck, TypeOK, CallsOK
  <2>5. QED
    BY <1>2, <1>4, <1>6, <2>1, <2>3, <2>4
<1>15. ASSUME NEW w \in Workers, NEW ok \in BOOLEAN, EvaluatePolicy(w, ok)
      PROVE  Goal
  <2>1. wf' = wf \/ wf' # "FAILED"
    BY <1>2, <1>15 DEF EvaluatePolicy, AfterPolicy
  <2>2. \A v \in Workers : Carries(v)
    BY <1>2, <1>15 DEF EvaluatePolicy, AfterPolicy, HoldsRow, PastLimitCheck, TypeOK,
       CallsOK
  <2>3. QED
    BY <1>7, <2>1, <2>2
<1>16. ASSUME NEW w \in Workers, NEW ok \in BOOLEAN, InsertAction(w, ok)
      PROVE  Goal
  <2>1. /\ wf' = wf /\ Len(actions') = Len(actions) + 1
        /\ count' = count /\ limit' = limit /\ pc[w] = "insert"
        /\ pc' = [pc EXCEPT ![w] = "log"] /\ entry' = [entry EXCEPT ![w] = "RECOVERY_EXECUTED"]
    <3> DEFINE a == [status |-> "PENDING", type |-> act[w], attempt |-> count[w] + 1]
    <3>1. a \in ActionRow
      BY DEF ActionRow, TypeOK, CallsOK
    <3>2. actions' = Append(actions, a)
      BY <1>2, <1>16 DEF InsertAction
    <3> HIDE DEF a
    <3>3. Len(actions') = Len(actions) + 1
      BY <3>1, <3>2, AppendTyped DEF TypeOK, TablesOK
    <3>4. QED
      BY <1>2, <3>3, <1>16 DEF InsertAction
  <2>2. \A v \in Workers \ {w} : Carries(v)
    BY <2>1 DEF HoldsRow, PastLimitCheck, TypeOK, CallsOK
  <2>3. Sound(w)'
    <3>1. limit[w] = MaxRetries /\ count[w] <= Len(actions)
      BY <1>4, <2>1 DEF PastLimitCheck
    <3>2. pc'[w] = "log" /\ count[w] \in Nat
      BY <2>1 DEF TypeOK, CallsOK
    <3>3. count'[w] + 1 <= Len(actions') /\ limit'[w] = MaxRetries
      BY <1>1, <2>1, <3>1, <3>2
    <3>4. QED
      BY <3>2, <3>3 DEF PastLimitCheck
  <2>4. QED
    BY <1>2, <1>4, <1>6, <2>1, <2>2, <2>3
<1>17. ASSUME NEW w \in Workers, NEW ok \in BOOLEAN, AppendAuditLog(w, ok)
      PROVE  Goal
  <2>1. wf' = wf \/ wf' # "FAILED"
    BY <1>2, <1>17 DEF AppendAuditLog, AfterEntry, Continues, Return
  <2>2. \A v \in Workers : Carries(v)
    BY <1>2, <1>17 DEF AppendAuditLog, AfterEntry, Continues, Return, HoldsRow,
       PastLimitCheck, TypeOK, CallsOK
  <2>3. QED
    BY <1>7, <2>1, <2>2
<1>18. ASSUME NEW w \in Workers, NEW ok \in BOOLEAN, Charge(w, ok)
      PROVE  Goal
  <2>1. wf' = wf \/ wf' # "FAILED"
    BY <1>2, <1>18 DEF Charge, RecordAttempt
  <2>2. \A v \in Workers : Carries(v)
    BY <1>2, <1>18 DEF Charge, RecordAttempt, HoldsRow, PastLimitCheck, TypeOK, CallsOK
  <2>3. QED
    BY <1>7, <2>1, <2>2
<1>19. ASSUME NEW w \in Workers, NEW ok \in BOOLEAN, MarkAction(w, ok)
      PROVE  Goal
  <2>1. wf' = wf \/ wf' # "FAILED"
    BY <1>2, <1>19 DEF MarkAction
  <2>2. \A v \in Workers : Carries(v)
    BY <1>2, <1>19 DEF MarkAction, HoldsRow, PastLimitCheck, TypeOK, CallsOK
  <2>3. QED
    BY <1>7, <2>1, <2>2
<1>20. ASSUME NEW w \in Workers, NEW ok \in BOOLEAN, Notify(w, ok)
      PROVE  Goal
  <2>1. wf' = wf \/ wf' # "FAILED"
    BY <1>2, <1>20 DEF Notify, GotoLog
  <2>2. \A v \in Workers : Carries(v)
    BY <1>2, <1>20 DEF Notify, GotoLog, HoldsRow, PastLimitCheck, TypeOK, CallsOK
  <2>3. QED
    BY <1>7, <2>1, <2>2
<1>21. ASSUME NEW w \in Workers, NEW ok \in BOOLEAN, VerifyPayment(w, ok)
      PROVE  Goal
  <2>1. wf' = wf \/ wf' # "FAILED"
    BY <1>2, <1>21 DEF VerifyPayment, AfterVerification
  <2>2. \A v \in Workers : Carries(v)
    BY <1>2, <1>21 DEF VerifyPayment, AfterVerification, HoldsRow, PastLimitCheck, TypeOK,
       CallsOK
  <2>3. QED
    BY <1>7, <2>1, <2>2
<1>22. ASSUME NEW w \in Workers, NEW ok \in BOOLEAN, RecordRecovery(w, ok)
      PROVE  Goal
  <2>1. wf' = wf \/ wf' # "FAILED"
    BY <1>2, <1>22 DEF RecordRecovery, RecoveryWrites, GotoLog
  <2>2. \A v \in Workers : Carries(v)
    BY <1>2, <1>22 DEF RecordRecovery, RecoveryWrites, GotoLog, HoldsRow, PastLimitCheck,
       TypeOK, CallsOK
  <2>3. QED
    BY <1>7, <2>1, <2>2
<1>23. ASSUME NEW w \in Workers, NEW ok \in BOOLEAN, RecordFailure(w, ok)
      PROVE  Goal
  <2>1. \A v \in Workers : Carries(v)
    BY <1>2, <1>23 DEF RecordFailure, HoldsRow, PastLimitCheck, TypeOK, CallsOK
  <2>2. limit[w] = MaxRetries /\ count[w] + 1 <= Len(actions) /\ count[w] \in Nat
    BY <1>4, <1>23 DEF RecordFailure, HoldsRow, TypeOK, CallsOK
  <2>3. wf' = "FAILED" => Len(actions') >= MaxRetries
    BY <1>1, <1>2, <2>2, <1>23, ConstantsAssumption DEF RecordFailure, Exhausted
  <2>4. QED
    BY <1>5, <2>1, <2>3
<1>24. ASSUME NEW w \in Workers, NEW ok \in BOOLEAN, RecordFailedOutcome(w, ok)
      PROVE  Goal
  <2>1. wf' = wf \/ wf' # "FAILED"
    BY <1>2, <1>24 DEF RecordFailedOutcome, GotoLog
  <2>2. \A v \in Workers : Carries(v)
    BY <1>2, <1>24 DEF RecordFailedOutcome, GotoLog, HoldsRow, PastLimitCheck, TypeOK,
       CallsOK
  <2>3. QED
    BY <1>7, <2>1, <2>2
<1>25. ASSUME NEW w \in Workers, Crash(w)
      PROVE  Goal
  <2>1. wf' = wf \/ wf' # "FAILED"
    BY <1>2, <1>25 DEF Crash, Return
  <2>2. \A v \in Workers : Carries(v)
    BY <1>2, <1>25 DEF Crash, Return, HoldsRow, PastLimitCheck, TypeOK, CallsOK
  <2>3. QED
    BY <1>7, <2>1, <2>2
<1>26. CASE UNCHANGED vars
  <2>1. \A v \in Workers : Carries(v)
    BY <1>26 DEF vars, HoldsRow, PastLimitCheck, TypeOK, CallsOK
  <2>2. QED
    BY <1>7, <1>26, <2>1 DEF vars
<1>27. QED
  BY <1>8, <1>9, <1>10, <1>11, <1>12, <1>13, <1>14, <1>15, <1>16, <1>17, <1>18, <1>19,
     <1>20, <1>21, <1>22, <1>23, <1>24, <1>25, <1>26 DEF Next, Step

(* No workflow is given up before the merchant's number of attempts was    *)
(* made, unless a statement failed, although step 9 compares a count that  *)
(* is several statements old (executor.go, CHECK 4 and step 9).            *)
THEOREM NeverGivenUpEarly == Spec => []NoEarlyFailure
<1>1. Init => FailureInv
  BY DEF Init, FailureInv, NoEarlyFailure, PastLimitCheck, HoldsRow, Resolved
<1>2. FailureInv => NoEarlyFailure
  BY DEF FailureInv, NoEarlyFailure
<1>3. QED
  BY <1>1, <1>2, NextFailure, InductiveInvariant, PTL DEF Spec
=============================================================================
