------------------------- MODULE TransactionalOutbox -------------------------
(***************************************************************************)
(* What packages/utils/outbox promises to the code that inserts events:    *)
(* the queue gets an event after its transaction committed, at least once  *)
(* before its row counts as published, and never after that.               *)
(***************************************************************************)
EXTENDS Naturals

CONSTANT Events

VARIABLES
  recorded,    \* events of committed transactions
  deliveries,  \* how often the queue has accepted an event
  settled      \* events whose row is published

Init ==
  /\ recorded = {}
  /\ deliveries = [e \in Events |-> 0]
  /\ settled = {}

Record(e) ==
  /\ e \notin recorded
  /\ recorded' = recorded \cup {e}
  /\ UNCHANGED <<deliveries, settled>>

Deliver(e) ==
  /\ e \in recorded \ settled
  /\ deliveries' = [deliveries EXCEPT ![e] = @ + 1]
  /\ UNCHANGED <<recorded, settled>>

(* A relay commits: the events of a batch are settled together.            *)
Settle(S) ==
  /\ \A e \in S : deliveries[e] > 0
  /\ settled' = settled \cup S
  /\ UNCHANGED <<recorded, deliveries>>

Next ==
  \/ \E e \in Events : Record(e) \/ Deliver(e)
  \/ \E S \in SUBSET Events : Settle(S)

vars == <<recorded, deliveries, settled>>

Spec == Init /\ [][Next]_vars
=============================================================================
