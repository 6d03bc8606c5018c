--------------------------- MODULE MCWebhookIngest ---------------------------
(* Instances of WebhookIngest for TLC.                                     *)
EXTENDS WebhookIngest

Event(i, t, p, l) == [id |-> i, type |-> t, pay |-> p, link |-> l, sub |-> i = 2]

(* A link, two failed attempts (one names the link), the payment through   *)
(* the link, its cancellation, and a type no branch takes.                 *)
Checkout == {Event(1, "created", FALSE, TRUE), Event(2, "failed", TRUE, TRUE),
             Event(3, "failed", TRUE, FALSE), Event(4, "captured", TRUE, TRUE),
             Event(5, "cancelled", FALSE, TRUE), Event(6, "other", TRUE, FALSE)}

(* The failures and the payment are delivered twice, the others once.      *)
Deliveries == [e \in Checkout |-> IF e.type \in {"failed", "captured"} THEN 2 ELSE 1]
=============================================================================
