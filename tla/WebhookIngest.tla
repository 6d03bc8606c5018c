---------------------------- MODULE WebhookIngest ----------------------------
(***************************************************************************)
(* RazorpayWebhookHandler (apps/api/handlers/webhook.go): the events of    *)
(* one checkout, a payment link L and the payment P made through it,       *)
(* delivered by Razorpay at least once, in any order, to several handlers. *)
(*                                                                         *)
(* A delivery with a valid signature commits its payment_events row first  *)
(* (Receive), then opens a second transaction that looks the payment up    *)
(* (Lookup) and writes and commits (Apply).  Under READ COMMITTED other    *)
(* transactions commit between the lookup and the writes; the writes       *)
(* themselves are serialised by the row lock of payments.                  *)
(***************************************************************************)
EXTENDS Integers, Sequences

CONSTANTS
  Handlers,       \* requests served at the same time
  Events,         \* Razorpay's events, records of EventType
  MaxDeliveries,  \* bound on the deliveries of each event
  MaxFaults       \* bound on failed statements and crashes

(* pay and link: whether the event carries the id of P and of L; sub:      *)
(* whether it names a subscription.  "other" is any type the handler does  *)
(* not know, payment.authorized say.                                       *)
EventType == [id : Nat, type : {"failed", "captured", "cancelled", "created", "other"},
              pay : BOOLEAN, link : BOOLEAN, sub : BOOLEAN]

ASSUME WebhookAssumption ==
  /\ Events \subseteq EventType
  /\ MaxDeliveries \in [Events -> Nat]
  /\ MaxFaults \in Nat

VARIABLES
  status,        \* payment_events.processing_status of each event, or "absent"
  rows,          \* the payments rows with their recovery_workflows row
  outbox,        \* recovery:analyze events: the webhook event and the row
  outcomes,      \* recovery_outcomes: the webhook event and the row
  subscription,  \* subscriptions.status
  pc,            \* the step each handler is at
  ev,            \* the event it serves
  found,         \* the row its lookup found, or 0
  acked,         \* events answered with 200
  broken,        \* events with a request that failed or died after its row
  deliveries,    \* deliveries of each event so far
  faults         \* failed statements and crashes so far

tables == <<rows, outbox, outcomes, subscription>>
vars == <<status, rows, outbox, outcomes, subscription, pc, ev, found, acked, broken,
          deliveries, faults>>

Row == [ref : {"P", "L"}, payment : {"PENDING", "FAILED", "CAPTURED", "CANCELLED"},
        wf : {"SCHEDULED", "RECOVERED", "HALTED"}]
Effect == [event : Events, row : Nat]

TypeOK ==
  /\ status \in [Events -> {"absent", "PENDING", "PROCESSED"}]
  /\ rows \in Seq(Row)
  /\ outbox \in Seq(Effect)
  /\ outcomes \in Seq(Effect)
  /\ subscription \in {"ACTIVE", "PAST_DUE"}
  /\ pc \in [Handlers -> {"idle", "lookup", "apply"}]
  /\ \A h \in Handlers : pc[h] # "idle" => ev[h] \in Events
  /\ \A h \in Handlers : found[h] \in 0..Len(rows)
  /\ acked \subseteq Events
  /\ broken \subseteq Events
  /\ deliveries \in [Events -> Nat]
  /\ faults \in Nat

NoEvent == [id |-> 0]

Init ==
  /\ status = [e \in Events |-> "absent"]
  /\ rows = <<>>
  /\ outbox = <<>>
  /\ outcomes = <<>>
  /\ subscription = "ACTIVE"
  /\ pc = [h \in Handlers |-> "idle"]
  /\ ev = [h \in Handlers |-> NoEvent]
  /\ found = [h \in Handlers |-> 0]
  /\ acked = {}
  /\ broken = {}
  /\ deliveries = [e \in Events |-> 0]
  /\ faults = 0

Fault(ok) ==
  /\ ok \/ faults < MaxFaults
  /\ faults' = IF ok THEN faults ELSE faults + 1

-----------------------------------------------------------------------------
(* The handler returns; the payment.failed branch is the only one that     *)
(* answers 500 when its transaction fails, the others answer 200.          *)
Respond(h, ok) ==
  /\ pc' = [pc EXCEPT ![h] = "idle"]
  /\ ev' = [ev EXCEPT ![h] = NoEvent]
  /\ found' = [found EXCEPT ![h] = 0]
  /\ acked' = IF ok \/ ev[h].type # "failed" THEN acked \cup {ev[h]} ELSE acked
  /\ broken' = IF ok THEN broken ELSE broken \cup {ev[h]}

(* A bug variant of IsNew: the unique index is not consulted.              *)
IsNewUnchecked(e) == TRUE

(* INSERT ... ON CONFLICT (razorpay_event_id) DO NOTHING returns a row.    *)
IsNew(e) == status[e] = "absent"

(* Whether one of the four branches takes the event: those for links and   *)
(* failures want an id, a failure takes the link's when it has no other.   *)
HasBranch(e) ==
  \/ e.type = "captured"
  \/ e.type \in {"created", "cancelled"} /\ e.link
  \/ e.type = "failed" /\ (e.pay \/ e.link)

(* Deduplication.  A conflict and a failed INSERT both end in              *)
(* duplicate_ignored; a failed one may have been committed.  An event no   *)
(* branch takes is answered 200 and left PENDING.                          *)
Receive(h, e, ok) ==
  /\ pc[h] = "idle"
  /\ deliveries[e] < MaxDeliveries[e]
  /\ deliveries' = [deliveries EXCEPT ![e] = @ + 1]
  /\ Fault(ok)
  /\ IF ok /\ IsNew(e)
     THEN /\ status' = [status EXCEPT ![e] = "PENDING"]
          /\ IF HasBranch(e)
             THEN /\ pc' = [pc EXCEPT ![h] = "lookup"]
                  /\ ev' = [ev EXCEPT ![h] = e]
                  /\ UNCHANGED acked
             ELSE acked' = acked \cup {e} /\ UNCHANGED <<pc, ev>>
          /\ UNCHANGED broken
     ELSE /\ \/ UNCHANGED status
             \/ ~ok /\ IsNew(e) /\ status' = [status EXCEPT ![e] = "PENDING"]
          /\ acked' = acked \cup {e}
          /\ broken' = IF ok THEN broken ELSE broken \cup {e}
          /\ UNCHANGED <<pc, ev>>
  /\ UNCHANGED <<tables, found>>

(* razorpayPaymentID: the payment's id, or else the link's.                *)
Ref(e) == IF e.pay THEN "P" ELSE "L"

RowsWith(ref) == {i \in 1..Len(rows) : rows[i].ref = ref}

(* The rows each branch's lookup can return: payment.captured tries the    *)
(* payment's id first, payment.failed takes either id in one query.        *)
Candidates(e) ==
  IF e.type \in {"created", "cancelled"} THEN RowsWith("L")
  ELSE IF e.type = "captured"
  THEN IF e.pay /\ RowsWith("P") # {} THEN RowsWith("P")
       ELSE IF e.link THEN RowsWith("L") ELSE {}
  ELSE RowsWith(Ref(e)) \cup (IF e.link THEN RowsWith("L") ELSE {})

(* A bug variant of Lookup: the handler returns when nothing is found.     *)
LookupOrReturn(h, ok) ==
  /\ pc[h] = "lookup"
  /\ Fault(ok)
  /\ \/ /\ ok
        /\ \E i \in Candidates(ev[h]) : found' = [found EXCEPT ![h] = i]
        /\ pc' = [pc EXCEPT ![h] = "apply"]
        /\ UNCHANGED <<ev, acked, broken>>
     \/ (~ok \/ Candidates(ev[h]) = {}) /\ Respond(h, ok)
  /\ UNCHANGED <<status, tables, deliveries>>

(* LIMIT 1.  A transaction that cannot begin ends the request.             *)
Lookup(h, ok) ==
  /\ pc[h] = "lookup"
  /\ Fault(ok)
  /\ \/ /\ ok
        /\ \/ \E i \in Candidates(ev[h]) : found' = [found EXCEPT ![h] = i]
           \/ Candidates(ev[h]) = {} /\ found' = [found EXCEPT ![h] = 0]
        /\ pc' = [pc EXCEPT ![h] = "apply"]
        /\ UNCHANGED <<ev, acked, broken>>
     \/ ~ok /\ Respond(h, FALSE)
  /\ UNCHANGED <<status, tables, deliveries>>

(* The row is updated, or appended when the lookup found none.             *)
Put(h, new) ==
  rows' = IF found[h] = 0 THEN Append(rows, new) ELSE [rows EXCEPT ![found[h]] = new]

(* The index of the row a handler has written.                             *)
Written(h) == IF found[h] = 0 THEN Len(rows) + 1 ELSE found[h]

(* payment_link.created, .issued, invoice.created, .issued: a row and a    *)
(* workflow unless there are some.                                         *)
IngestLink(h) ==
  /\ ev[h].type = "created"
  /\ rows' = IF found[h] = 0
             THEN Append(rows, [ref |-> "L", payment |-> "PENDING", wf |-> "SCHEDULED"])
             ELSE rows
  /\ UNCHANGED <<outbox, outcomes, subscription>>

(* payment.captured, payment_link.paid, order.paid: nothing is recorded    *)
(* for a payment that is not known yet.                                    *)
MarkCaptured(h) ==
  /\ ev[h].type = "captured"
  /\ IF found[h] = 0
     THEN UNCHANGED <<rows, outcomes>>
     ELSE /\ Put(h, [ref |-> rows[found[h]].ref, payment |-> "CAPTURED", wf |-> "RECOVERED"])
          /\ outcomes' = Append(outcomes, [event |-> ev[h], row |-> found[h]])
  /\ UNCHANGED <<outbox, subscription>>

(* payment_link.cancelled, .expired.                                       *)
MarkCancelled(h) ==
  /\ ev[h].type = "cancelled"
  /\ IF found[h] = 0
     THEN UNCHANGED rows
     ELSE Put(h, [ref |-> rows[found[h]].ref, payment |-> "CANCELLED", wf |-> "HALTED"])
  /\ UNCHANGED <<outbox, outcomes, subscription>>

(* A bug variant of IngestFailure: no analysis is queued for a payment     *)
(* that is already known.                                                  *)
IngestFailureOnce(h) ==
  /\ ev[h].type = "failed"
  /\ Put(h, [ref |-> Ref(ev[h]), payment |-> "FAILED", wf |-> "SCHEDULED"])
  /\ outbox' = IF found[h] = 0 THEN Append(outbox, [event |-> ev[h], row |-> Written(h)])
                               ELSE outbox
  /\ UNCHANGED <<outcomes, subscription>>

(* A bug variant of IngestFailure: an existing workflow stays as it is.    *)
IngestFailureKeepingWorkflow(h) ==
  /\ ev[h].type = "failed"
  /\ Put(h, [ref |-> Ref(ev[h]), payment |-> "FAILED",
             wf |-> IF found[h] = 0 THEN "SCHEDULED" ELSE rows[found[h]].wf])
  /\ outbox' = Append(outbox, [event |-> ev[h], row |-> Written(h)])
  /\ UNCHANGED <<outcomes, subscription>>

(* payment.failed: the row takes over the payment's id, its workflow is    *)
(* (re)opened whatever its status, and the analysis is queued in the same  *)
(* transaction.                                                            *)
IngestFailure(h) ==
  /\ ev[h].type = "failed"
  /\ Put(h, [ref |-> Ref(ev[h]), payment |-> "FAILED", wf |-> "SCHEDULED"])
  /\ outbox' = Append(outbox, [event |-> ev[h], row |-> Written(h)])
  /\ subscription' = IF ev[h].sub THEN "PAST_DUE" ELSE subscription
  /\ UNCHANGED outcomes

(* The writes of the branch, the PROCESSED mark and the commit.  A commit  *)
(* that fails may have taken effect.                                       *)
Apply(h, ok) ==
  /\ pc[h] = "apply"
  /\ Fault(ok)
  /\ \/ /\ IngestLink(h) \/ MarkCaptured(h) \/ MarkCancelled(h) \/ IngestFailure(h)
        /\ status' = [status EXCEPT ![ev[h]] = "PROCESSED"]
     \/ ~ok /\ UNCHANGED <<tables, status>>
  /\ Respond(h, ok)
  /\ UNCHANGED deliveries

(* The API process dies: no answer.                                        *)
Crash(h) ==
  /\ pc[h] # "idle"
  /\ Fault(FALSE)
  /\ pc' = [pc EXCEPT ![h] = "idle"]
  /\ ev' = [ev EXCEPT ![h] = NoEvent]
  /\ found' = [found EXCEPT ![h] = 0]
  /\ broken' = broken \cup {ev[h]}
  /\ UNCHANGED <<status, tables, acked, deliveries>>

Next ==
  \E h \in Handlers :
    \/ \E ok \in BOOLEAN : \/ \E e \in Events : Receive(h, e, ok)
                           \/ Lookup(h, ok) \/ Apply(h, ok)
    \/ Crash(h)

Spec == Init /\ [][Next]_vars

(* Razorpay delivers every event, and a handler that has begun goes on.    *)
Fairness ==
  /\ \A e \in Events : WF_vars(e \notin acked /\ \E h \in Handlers : Receive(h, e, TRUE))
  /\ \A h \in Handlers : WF_vars(Lookup(h, TRUE) \/ Apply(h, TRUE))

FairSpec == Spec /\ Fairness

-----------------------------------------------------------------------------
(* A webhook event has its effects exactly once, and exactly if it is      *)
(* marked PROCESSED, whatever is delivered again, fails or dies: every     *)
(* processed payment.failed has queued one analysis, no other event has,   *)
(* and no event is entered into recovery_outcomes twice.  This is per      *)
(* event: payment.captured and payment_link.paid of one capture are two    *)
(* events with an outcome each (webhook.go:184-200, 289, 334-342,          *)
(* 604-631).                                                               *)
EffectsOnce ==
  /\ \A e \in Events :
       e.type = "failed" /\ status[e] = "PROCESSED"
         <=> \E i \in 1..Len(outbox) : outbox[i].event = e
  /\ \A i, j \in 1..Len(outbox) : outbox[i].event = outbox[j].event => i = j
  /\ \A i, j \in 1..Len(outcomes) : outcomes[i].event = outcomes[j].event => i = j
  /\ \A i \in 1..Len(outcomes) : status[outcomes[i].event] = "PROCESSED"

(* A payment that a webhook made FAILED has an analysis queued for that    *)
(* very row, so that it does not wait for ever (webhook.go:604-613).       *)
FailureIsQueued ==
  \A i \in 1..Len(rows) :
    rows[i].payment = "FAILED" => \E j \in 1..Len(outbox) : outbox[j].row = i

(* Payment and workflow change together: no interleaving of the branches   *)
(* leaves a captured payment with an open workflow, or a failed or         *)
(* cancelled one with a RECOVERED workflow (webhook.go:332-333, 356-357,   *)
(* 562-602).                                                               *)
WorkflowFollowsPayment ==
  \A i \in 1..Len(rows) :
    /\ rows[i].payment = "CAPTURED" <=> rows[i].wf = "RECOVERED"
    /\ rows[i].payment = "CANCELLED" <=> rows[i].wf = "HALTED"

(* What the handlers' steps keep: a request is under way only for an event *)
(* recorded and still PENDING, no two serve the same event, and what is    *)
(* queued or counted belongs to a PROCESSED one.                           *)
WebhookInv ==
  /\ ev \in [Handlers -> Events \cup {NoEvent}]
  /\ found \in [Handlers -> Nat]
  /\ \A h \in Handlers : pc[h] # "idle" => status[ev[h]] = "PENDING"
  /\ \A h, k \in Handlers :
       pc[h] # "idle" /\ pc[k] # "idle" /\ ev[h] = ev[k] => h = k
  /\ EffectsOnce /\ FailureIsQueued /\ WorkflowFollowsPayment

(* Every event that has a branch is processed, except that a failure of    *)
(* its own request may lose it; other events are recorded and answered.    *)
(* The deduplication row makes that loss final: no later delivery of the   *)
(* event gets past it, and nothing else can lose an event, not the failure *)
(* of another one's request (webhook.go:184-200, 274, 340-342, 622-638).   *)
EveryEventProcessed ==
  \A e \in Events :
    <>(IF HasBranch(e) THEN status[e] = "PROCESSED" \/ e \in broken
                       ELSE status[e] = "PENDING" \/ e \in broken)
=============================================================================
