----------------------------- MODULE MCExecutor -----------------------------
(* Instances of Executor for TLC.                                          *)
EXTENDS Executor

Base == [action |-> "DELAYED_RETRY", code |-> "BANK_UNAVAILABLE", amount |-> 4500,
         confidence |-> 85, fraud |-> 10, optOut |-> FALSE, email |-> FALSE]

(* A soft and a hard decline, an empty column, an action executed once per *)
(* payment, an opted-out customer, and the two escalations.                *)
MCInputs == {Base,
             [Base EXCEPT !.action = "none", !.code = "EXPIRED_CARD", !.email = TRUE],
             [Base EXCEPT !.action = "PAYMENT_LINK"],
             [Base EXCEPT !.action = "PAYMENT_LINK", !.optOut = TRUE],
             [Base EXCEPT !.confidence = 75],
             [Base EXCEPT !.code = "INSUFFICIENT_FUNDS", !.amount = 0, !.fraud = 90]}
=============================================================================
