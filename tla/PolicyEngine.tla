---------------------------- MODULE PolicyEngine ----------------------------
(***************************************************************************)
(* services/policy-engine: the deterministic gate between an AI            *)
(* recommendation and its execution.  Evaluate is a pure function of what  *)
(* the engine reads: the merchant's policy row, three facts of the         *)
(* database, the failure event and the recommendation.  Probabilities and  *)
(* confidences are percentages.                                            *)
(***************************************************************************)
EXTENDS Integers

(* recovery.ActionType *)
ActionTypes == {"IMMEDIATE_RETRY", "DELAYED_RETRY", "PAYMENT_METHOD_UPDATE",
                "PAYMENT_LINK", "CUSTOMER_NOTIFICATION", "ESCALATION", "NO_ACTION"}

Decisions == {"ALLOW", "BLOCK", "MODIFY", "ESCALATE"}

(* Actions that reach the customer, refused once the customer opted out. *)
Communication == {"CUSTOMER_NOTIFICATION", "PAYMENT_LINK"}

(* Actions executed at most once per payment. *)
OncePerPayment == {"PAYMENT_METHOD_UPDATE", "PAYMENT_LINK"}

FraudThreshold == 70

(* The policy used when the merchant's row cannot be read. *)
DefaultPolicy == [maxRetries |-> 3, confidence |-> 70, amount |-> 50000]

(***************************************************************************)
(* Engine.Evaluate.  db is what its queries return: the customer's opt-out *)
(* flag, the fraud percentage of the newest workflow and the number of     *)
(* EXECUTED actions of the recommended type for this payment.  A query     *)
(* that fails makes its check pass, which is what FALSE and 0 stand for.   *)
(***************************************************************************)
Evaluate(pol, db, event, rec) ==
  IF db.optOut /\ rec.action \in Communication THEN "BLOCK"
  ELSE IF db.fraud >= FraudThreshold THEN "ESCALATE"
  ELSE IF \/ event.failedPayments >= pol.maxRetries
          \/ event.attempt > pol.maxRetries THEN "BLOCK"
  ELSE IF db.executed > 0 /\ rec.action \in OncePerPayment THEN "BLOCK"
  ELSE IF rec.confidence < pol.confidence THEN "ESCALATE"
  ELSE IF event.amount > pol.amount THEN "ESCALATE"
  ELSE IF rec.action = "IMMEDIATE_RETRY" /\ event.attempt > 1 THEN "MODIFY"
  ELSE "ALLOW"

(* The action that runs after the decision: MODIFY only ever delays.       *)
EffectiveAction(decision, action) ==
  IF decision = "MODIFY" THEN "DELAYED_RETRY" ELSE action

Proceeds(decision) == decision \in {"ALLOW", "MODIFY"}
=============================================================================
