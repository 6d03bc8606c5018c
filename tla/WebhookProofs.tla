---------------------------- MODULE WebhookProofs ----------------------------
(***************************************************************************)
(* Theorems about WebhookIngest for any set of events and handlers and any *)
(* number of deliveries, failed statements and crashes.                    *)
(***************************************************************************)
EXTENDS WebhookIngest, TLAPS

(* Before the first delivery nothing is recorded.                          *)
LEMMA InitInv == Init => TypeOK /\ WebhookInv
BY DEF Init, TypeOK, WebhookInv, EffectsOnce, FailureIsQueued, WorkflowFollowsPayment

(* Appending to a sequence of a table's rows.                              *)
LEMMA AppendFacts ==
  ASSUME NEW S, NEW s \in Seq(S), NEW x \in S
  PROVE  /\ Len(s) \in Nat
         /\ Append(s, x) \in Seq(S)
         /\ Len(Append(s, x)) = Len(s) + 1
         /\ Append(s, x)[Len(s) + 1] = x
         /\ \A i \in 1..Len(s) : Append(s, x)[i] = s[i]
OBVIOUS

(* An effect of an event that had none leaves every event with one.        *)
LEMMA UniqueAppend ==
  ASSUME NEW s \in Seq(Effect), NEW x \in Effect,
         \A i, j \in 1..Len(s) : s[i].event = s[j].event => i = j,
         \A i \in 1..Len(s) : s[i].event # x.event
  PROVE  \A i, j \in 1..Len(Append(s, x)) :
           Append(s, x)[i].event = Append(s, x)[j].event => i = j
<1> DEFINE t == Append(s, x)
<1>1. /\ Len(s) \in Nat
      /\ Len(t) = Len(s) + 1
      /\ t[Len(s) + 1] = x
      /\ \A i \in 1..Len(s) : t[i] = s[i]
  BY AppendFacts
<1> HIDE DEF t
<1>2. QED
  BY <1>1 DEF t

(* The members of the tables.                                              *)
LEMMA TableFacts ==
  ASSUME TypeOK
  PROVE  /\ Len(rows) \in Nat /\ Len(outbox) \in Nat /\ Len(outcomes) \in Nat
         /\ \A i \in 1..Len(rows) : rows[i] \in Row
         /\ \A i \in 1..Len(outbox) : outbox[i].event \in Events
         /\ \A i \in 1..Len(outcomes) : outcomes[i].event \in Events
<1>1. /\ Len(rows) \in Nat /\ Len(outbox) \in Nat /\ Len(outcomes) \in Nat
      /\ \A i \in 1..Len(rows) : rows[i] \in Row
      /\ \A i \in 1..Len(outbox) : outbox[i] \in Effect
      /\ \A i \in 1..Len(outcomes) : outcomes[i] \in Effect
  BY DEF TypeOK
<1>2. \A x \in Effect : x.event \in Events
  BY DEF Effect
<1>3. QED
  BY <1>1, <1>2

(* A row that Put writes is a row; the others stay, and one may be new.    *)
LEMMA PutRows ==
  ASSUME TypeOK, NEW h \in Handlers, NEW new \in Row, Put(h, new)
  PROVE  /\ rows' \in Seq(Row)
         /\ Written(h) \in 1..Len(rows')
         /\ Len(rows) <= Len(rows')
         /\ rows'[Written(h)] = new
         /\ \A i \in 1..Len(rows') : i # Written(h) => i \in 1..Len(rows) /\ rows'[i] = rows[i]
<1>1. CASE found[h] = 0
  BY <1>1 DEF TypeOK, Put, Written
<1>2. CASE found[h] # 0
  BY <1>2 DEF TypeOK, Put, Written
<1>3. QED
  BY <1>1, <1>2

(* What a branch writes: rows keep the invariants that relate payment,     *)
(* workflow and queue, and the new effect, if any, is the event's own.     *)
LEMMA BranchWrites ==
  ASSUME TypeOK, WebhookInv, NEW h \in Handlers, pc[h] = "apply",
         IngestLink(h) \/ MarkCaptured(h) \/ MarkCancelled(h) \/ IngestFailure(h)
  PROVE  /\ rows' \in Seq(Row)
         /\ Len(rows) <= Len(rows')
         /\ subscription' \in {"ACTIVE", "PAST_DUE"}
         /\ FailureIsQueued' /\ WorkflowFollowsPayment'
         /\ \/ outbox' = outbox /\ ev[h].type # "failed"
            \/ /\ ev[h].type = "failed"
               /\ \E i \in Nat : outbox' = Append(outbox, [event |-> ev[h], row |-> i])
         /\ \/ outcomes' = outcomes
            \/ \E i \in Nat : outcomes' = Append(outcomes, [event |-> ev[h], row |-> i])
<1> USE DEF FailureIsQueued, WorkflowFollowsPayment
<1>0. FailureIsQueued /\ WorkflowFollowsPayment
  BY DEF WebhookInv
<1>1. CASE IngestLink(h)
  <2> DEFINE new == [ref |-> "L", payment |-> "PENDING", wf |-> "SCHEDULED"]
  <2>1. new \in Row
    BY DEF Row
  <2>2. CASE found[h] = 0
    <3>1. Put(h, new)
      BY <1>1, <2>2 DEF IngestLink, Put
    <3>2. /\ rows' \in Seq(Row)
          /\ Len(rows) <= Len(rows')
          /\ \A i \in 1..Len(rows') :
               rows'[i] = new \/ (i \in 1..Len(rows) /\ rows'[i] = rows[i])
      <4> HIDE DEF new
      <4>1. QED
        BY <2>1, <3>1, PutRows
    <3>3. FailureIsQueued'
      BY <1>0, <1>1, <3>2 DEF IngestLink
    <3>4. WorkflowFollowsPayment'
      BY <1>0, <3>2
    <3>5. QED
      BY <1>1, <3>2, <3>3, <3>4 DEF IngestLink, TypeOK
  <2>3. CASE found[h] # 0
    BY <1>0, <1>1, <2>3 DEF IngestLink, TypeOK
  <2>4. QED
    BY <2>2, <2>3
<1>2. CASE MarkCaptured(h)
  <2> DEFINE new == [ref |-> rows[found[h]].ref, payment |-> "CAPTURED", wf |-> "RECOVERED"]
  <2>1. CASE found[h] = 0
    BY <1>0, <1>2, <2>1 DEF MarkCaptured, TypeOK
  <2>2. CASE found[h] # 0
    <3>1. new \in Row
      <4>1. rows[found[h]] \in Row
        BY <2>2, TableFacts DEF TypeOK
      <4>2. QED
        BY <4>1 DEF Row
    <3>2. Put(h, new)
      BY <1>2, <2>2 DEF MarkCaptured
    <3>3. /\ rows' \in Seq(Row)
          /\ Len(rows) <= Len(rows')
          /\ \A i \in 1..Len(rows') :
               rows'[i] = new \/ (i \in 1..Len(rows) /\ rows'[i] = rows[i])
      <4> HIDE DEF new
      <4>1. QED
        BY <3>1, <3>2, PutRows
    <3>4. FailureIsQueued' /\ WorkflowFollowsPayment'
      <4>1. outbox' = outbox /\ FailureIsQueued /\ WorkflowFollowsPayment
        BY <1>0, <1>2 DEF MarkCaptured
      <4>2. FailureIsQueued'
        BY <3>3, <4>1
      <4>3. WorkflowFollowsPayment'
        BY <3>3, <4>1
      <4>4. QED
        BY <4>2, <4>3
    <3>5. QED
      BY <1>2, <2>2, <3>3, <3>4 DEF MarkCaptured, TypeOK
  <2>3. QED
    BY <2>1, <2>2
<1>3. CASE MarkCancelled(h)
  <2> DEFINE new == [ref |-> rows[found[h]].ref, payment |-> "CANCELLED", wf |-> "HALTED"]
  <2>1. CASE found[h] = 0
    BY <1>0, <1>3, <2>1 DEF MarkCancelled, TypeOK
  <2>2. CASE found[h] # 0
    <3>1. new \in Row
      <4>1. rows[found[h]] \in Row
        BY <2>2, TableFacts DEF TypeOK
      <4>2. QED
        BY <4>1 DEF Row
    <3>2. Put(h, new)
      BY <1>3, <2>2 DEF MarkCancelled
    <3>3. /\ rows' \in Seq(Row)
          /\ Len(rows) <= Len(rows')
          /\ \A i \in 1..Len(rows') :
               rows'[i] = new \/ (i \in 1..Len(rows) /\ rows'[i] = rows[i])
      <4> HIDE DEF new
      <4>1. QED
        BY <3>1, <3>2, PutRows
    <3>4. FailureIsQueued' /\ WorkflowFollowsPayment'
      <4>1. outbox' = outbox /\ FailureIsQueued /\ WorkflowFollowsPayment
        BY <1>0, <1>3 DEF MarkCancelled
      <4>2. FailureIsQueued'
        BY <3>3, <4>1
      <4>3. WorkflowFollowsPayment'
        BY <3>3, <4>1
      <4>4. QED
        BY <4>2, <4>3
    <3>5. QED
      BY <1>3, <2>2, <3>3, <3>4 DEF MarkCancelled, TypeOK
  <2>3. QED
    BY <2>1, <2>2
<1>4. CASE IngestFailure(h)
  <2> DEFINE new == [ref |-> Ref(ev[h]), payment |-> "FAILED", wf |-> "SCHEDULED"]
             eff == [event |-> ev[h], row |-> Written(h)]
  <2>1. new \in Row /\ Put(h, new) /\ outbox' = Append(outbox, eff)
    BY <1>4 DEF Row, Ref, IngestFailure
  <2>2. /\ rows' \in Seq(Row)
        /\ Written(h) \in 1..Len(rows')
        /\ Len(rows) <= Len(rows')
        /\ rows'[Written(h)] = new
        /\ \A i \in 1..Len(rows') :
             i # Written(h) => i \in 1..Len(rows) /\ rows'[i] = rows[i]
    BY <2>1, PutRows
  <2>3. FailureIsQueued'
    <3> SUFFICES ASSUME NEW i \in 1..Len(rows'), rows'[i].payment = "FAILED"
                 PROVE  \E j \in 1..Len(outbox') : outbox'[j].row = i
      OBVIOUS
    <3> HIDE DEF eff
    <3>0. /\ Len(outbox) \in Nat
          /\ Len(outbox') = Len(outbox) + 1
          /\ outbox'[Len(outbox) + 1] = eff
          /\ \A j \in 1..Len(outbox) : outbox'[j] = outbox[j]
      <4>1. eff \in Effect
        BY <2>2 DEF eff, Effect, TypeOK
      <4>2. QED
        BY <2>1, <4>1, AppendFacts DEF TypeOK
    <3>1. CASE i = Written(h)
      <4>1. Len(outbox') \in 1..Len(outbox')
        BY <3>0
      <4>2. outbox'[Len(outbox')].row = i
        BY <3>0, <3>1 DEF eff
      <4>3. QED
        BY <4>1, <4>2
    <3>2. CASE i # Written(h)
      BY <1>0, <2>2, <3>0, <3>2
    <3>3. QED
      BY <3>1, <3>2
  <2>4. WorkflowFollowsPayment'
    BY <1>0, <2>2
  <2>5. QED
    BY <1>4, <2>1, <2>2, <2>3, <2>4 DEF IngestFailure, TypeOK
<1>5. QED
  BY <1>1, <1>2, <1>3, <1>4

(* The handler that returns leaves the others as they were.                *)
LEMMA RespondKeeps ==
  ASSUME TypeOK, WebhookInv, NEW h \in Handlers, pc[h] # "idle",
         pc' = [pc EXCEPT ![h] = "idle"],
         ev' = [ev EXCEPT ![h] = NoEvent],
         found' = [found EXCEPT ![h] = 0]
  PROVE  /\ pc' \in [Handlers -> {"idle", "lookup", "apply"}]
         /\ ev' \in [Handlers -> Events \cup {NoEvent}]
         /\ found' \in [Handlers -> Nat]
         /\ pc'[h] = "idle" /\ found'[h] = 0
         /\ \A k \in Handlers \ {h} : /\ pc'[k] = pc[k]
                                      /\ ev'[k] = ev[k]
                                      /\ found'[k] = found[k]
BY DEF TypeOK, WebhookInv

(* A delivery keeps the invariant: it starts a request for an absent event *)
(* only, and every event being served is PENDING.                          *)
LEMMA ReceiveInv ==
  ASSUME TypeOK, WebhookInv, NEW h \in Handlers, NEW e \in Events, NEW ok \in BOOLEAN,
         Receive(h, e, ok)
  PROVE  TypeOK' /\ WebhookInv'
<1>1. /\ rows' = rows /\ outbox' = outbox /\ outcomes' = outcomes
      /\ subscription' = subscription /\ found' = found
      /\ deliveries' = [deliveries EXCEPT ![e] = @ + 1]
      /\ faults' \in Nat
  BY DEF Receive, tables, Fault, TypeOK
<1>2. \/ status' = status
      \/ status[e] = "absent" /\ status' = [status EXCEPT ![e] = "PENDING"]
  BY DEF Receive, IsNew
<1>3. \/ pc' = pc /\ ev' = ev /\ acked' = acked \cup {e}
      \/ /\ pc' = [pc EXCEPT ![h] = "lookup"]
         /\ ev' = [ev EXCEPT ![h] = e]
         /\ status[e] = "absent"
         /\ status' = [status EXCEPT ![e] = "PENDING"]
         /\ acked' = acked
  BY DEF Receive, IsNew
<1>4. TypeOK'
  <2>1. status' \in [Events -> {"absent", "PENDING", "PROCESSED"}]
    BY <1>2 DEF TypeOK
  <2>2. deliveries' \in [Events -> Nat] /\ acked' \subseteq Events
    BY <1>1, <1>3 DEF TypeOK
  <2>3. /\ pc' \in [Handlers -> {"idle", "lookup", "apply"}]
        /\ \A k \in Handlers : pc'[k] # "idle" => ev'[k] \in Events
    <3>1. CASE pc' = pc /\ ev' = ev
      BY <3>1 DEF TypeOK
    <3>2. CASE pc' = [pc EXCEPT ![h] = "lookup"] /\ ev' = [ev EXCEPT ![h] = e]
      BY <3>2 DEF TypeOK, WebhookInv
    <3>3. QED
      BY <1>3, <3>1, <3>2
  <2>4. broken' \subseteq Events
    BY DEF Receive, TypeOK
  <2>5. QED
    BY <1>1, <2>1, <2>2, <2>3, <2>4 DEF TypeOK
<1>5. FailureIsQueued' /\ WorkflowFollowsPayment'
  BY <1>1 DEF WebhookInv, FailureIsQueued, WorkflowFollowsPayment
<1>6. \A f \in Events : status'[f] = "PROCESSED" <=> status[f] = "PROCESSED"
  BY <1>2 DEF TypeOK
<1>7. EffectsOnce'
  <2>1. EffectsOnce /\ outbox' = outbox /\ outcomes' = outcomes
    BY <1>1 DEF WebhookInv
  <2>2. \A f \in Events :
          f.type = "failed" /\ status'[f] = "PROCESSED"
            <=> \E i \in 1..Len(outbox) : outbox[i].event = f
    BY <1>6, <2>1 DEF EffectsOnce
  <2>3. \A i \in 1..Len(outcomes) : status'[outcomes[i].event] = "PROCESSED"
    BY <1>6, <2>1, TableFacts DEF EffectsOnce
  <2>4. QED
    BY <2>1, <2>2, <2>3 DEF EffectsOnce
<1>8. ev' \in [Handlers -> Events \cup {NoEvent}] /\ found' \in [Handlers -> Nat]
  BY <1>1, <1>3 DEF WebhookInv
<1>9. \A k \in Handlers : pc'[k] # "idle" => status'[ev'[k]] = "PENDING"
  <2>1. \A f \in Events : status[f] = "PENDING" => status'[f] = "PENDING"
    BY <1>2 DEF TypeOK
  <2>2. CASE pc' = pc /\ ev' = ev
    BY <2>1, <2>2 DEF WebhookInv, TypeOK
  <2>3. CASE /\ pc' = [pc EXCEPT ![h] = "lookup"]
             /\ ev' = [ev EXCEPT ![h] = e]
             /\ status' = [status EXCEPT ![e] = "PENDING"]
    <3>1. status'[e] = "PENDING" /\ ev'[h] = e
      BY <2>3 DEF TypeOK, WebhookInv
    <3>2. \A k \in Handlers \ {h} : pc'[k] = pc[k] /\ ev'[k] = ev[k]
      BY <2>3 DEF TypeOK, WebhookInv
    <3>3. QED
      BY <2>1, <3>1, <3>2 DEF WebhookInv, TypeOK
  <2>4. QED
    BY <1>3, <2>2, <2>3
<1>10. \A j, k \in Handlers :
         pc'[j] # "idle" /\ pc'[k] # "idle" /\ ev'[j] = ev'[k] => j = k
  BY <1>3 DEF WebhookInv, TypeOK
<1>11. QED
  BY <1>4, <1>5, <1>7, <1>8, <1>9, <1>10 DEF WebhookInv

(* A lookup, and a request that ends without a write, keep the invariant.  *)
LEMMA QuietInv ==
  ASSUME TypeOK, WebhookInv, NEW h \in Handlers, pc[h] # "idle",
         UNCHANGED <<status, tables, deliveries>>,
         faults' \in Nat,
         acked' \subseteq Events,
         broken' \subseteq Events,
         \/ /\ pc' = [pc EXCEPT ![h] = "apply"]
            /\ ev' = ev
            /\ \E i \in 0..Len(rows) : found' = [found EXCEPT ![h] = i]
         \/ /\ pc' = [pc EXCEPT ![h] = "idle"]
            /\ ev' = [ev EXCEPT ![h] = NoEvent]
            /\ found' = [found EXCEPT ![h] = 0]
  PROVE  TypeOK' /\ WebhookInv'
<1>0. /\ ev' \in [Handlers -> Events \cup {NoEvent}]
      /\ found' \in [Handlers -> Nat]
      /\ pc'[h] # "idle" => ev'[h] = ev[h]
      /\ found'[h] \in 0..Len(rows)
      /\ \A k \in Handlers \ {h} : /\ pc'[k] = pc[k]
                                   /\ ev'[k] = ev[k]
                                   /\ found'[k] = found[k]
  <2>1. CASE /\ pc' = [pc EXCEPT ![h] = "apply"]
             /\ ev' = ev
             /\ \E i \in 0..Len(rows) : found' = [found EXCEPT ![h] = i]
    <3>1. PICK i \in 0..Len(rows) : found' = [found EXCEPT ![h] = i]
      BY <2>1
    <3>2. i \in Nat
      BY TableFacts
    <3>3. QED
      BY <2>1, <3>1, <3>2 DEF TypeOK, WebhookInv
  <2>2. CASE /\ pc' = [pc EXCEPT ![h] = "idle"]
             /\ ev' = [ev EXCEPT ![h] = NoEvent]
             /\ found' = [found EXCEPT ![h] = 0]
    <3>1. 0 \in 0..Len(rows)
      BY TableFacts
    <3>2. QED
      BY <2>2, <3>1, RespondKeeps
  <2>3. QED
    BY <2>1, <2>2
<1>1. TypeOK'
  <2>1. pc' \in [Handlers -> {"idle", "lookup", "apply"}]
    BY DEF TypeOK
  <2>2. \A k \in Handlers : pc'[k] # "idle" => ev'[k] \in Events
    BY <1>0 DEF TypeOK
  <2>3. \A k \in Handlers : found'[k] \in 0..Len(rows')
    BY <1>0, TableFacts DEF TypeOK, tables
  <2>4. QED
    BY <2>1, <2>2, <2>3 DEF TypeOK, tables
<1>2. EffectsOnce' /\ FailureIsQueued' /\ WorkflowFollowsPayment'
  BY DEF WebhookInv, EffectsOnce, FailureIsQueued, WorkflowFollowsPayment, tables
<1>3. \A k \in Handlers : pc'[k] # "idle" => status'[ev'[k]] = "PENDING"
  BY <1>0 DEF WebhookInv
<1>4. \A j, k \in Handlers :
         pc'[j] # "idle" /\ pc'[k] # "idle" /\ ev'[j] = ev'[k] => j = k
  <2>1. \A j \in Handlers : pc'[j] # "idle" => pc[j] # "idle" /\ ev'[j] = ev[j]
    BY <1>0
  <2>2. QED
    BY <2>1 DEF WebhookInv
<1>5. QED
  BY <1>0, <1>1, <1>2, <1>3, <1>4 DEF WebhookInv

(* The writes of a branch keep the invariant: the event was PENDING, so it *)
(* had no effect yet, and no other request serves it.                      *)
LEMMA WriteInv ==
  ASSUME TypeOK, WebhookInv, NEW h \in Handlers, pc[h] = "apply",
         IngestLink(h) \/ MarkCaptured(h) \/ MarkCancelled(h) \/ IngestFailure(h),
         status' = [status EXCEPT ![ev[h]] = "PROCESSED"],
         faults' \in Nat, UNCHANGED deliveries,
         NEW ok \in BOOLEAN, Respond(h, ok)
  PROVE  TypeOK' /\ WebhookInv'
<1> DEFINE e == ev[h]
<1>1. e \in Events /\ status[e] = "PENDING"
  BY DEF TypeOK, WebhookInv
<1>2. /\ rows' \in Seq(Row)
      /\ Len(rows) <= Len(rows')
      /\ subscription' \in {"ACTIVE", "PAST_DUE"}
      /\ FailureIsQueued' /\ WorkflowFollowsPayment'
      /\ \/ outbox' = outbox /\ e.type # "failed"
         \/ /\ e.type = "failed"
            /\ \E i \in Nat : outbox' = Append(outbox, [event |-> e, row |-> i])
      /\ \/ outcomes' = outcomes
         \/ \E i \in Nat : outcomes' = Append(outcomes, [event |-> e, row |-> i])
  BY BranchWrites
<1>3. /\ pc' \in [Handlers -> {"idle", "lookup", "apply"}]
      /\ ev' \in [Handlers -> Events \cup {NoEvent}]
      /\ found' \in [Handlers -> Nat]
      /\ pc'[h] = "idle" /\ found'[h] = 0
      /\ \A k \in Handlers \ {h} : pc'[k] = pc[k] /\ ev'[k] = ev[k] /\ found'[k] = found[k]
  BY RespondKeeps DEF Respond
<1>4. acked' \subseteq Events /\ broken' \subseteq Events
  BY <1>1 DEF Respond, TypeOK
<1>5. \A f \in Events : status'[f] = IF f = e THEN "PROCESSED" ELSE status[f]
  BY <1>1 DEF TypeOK
<1>6. outbox' \in Seq(Effect) /\ outcomes' \in Seq(Effect)
  <2>1. \A i \in Nat : [event |-> e, row |-> i] \in Effect
    BY <1>1 DEF Effect
  <2>2. QED
    <3>1. outbox \in Seq(Effect) /\ outcomes \in Seq(Effect)
      BY DEF TypeOK
    <3> HIDE DEF e
    <3>2. \A i \in Nat : /\ Append(outbox, [event |-> e, row |-> i]) \in Seq(Effect)
                        /\ Append(outcomes, [event |-> e, row |-> i]) \in Seq(Effect)
      BY <2>1, <3>1, AppendFacts
    <3>3. QED
      BY <1>2, <3>1, <3>2
<1>7. TypeOK'
  <2>1. status' \in [Events -> {"absent", "PENDING", "PROCESSED"}]
    BY <1>1 DEF TypeOK
  <2>2. \A k \in Handlers : pc'[k] # "idle" => ev'[k] \in Events
    BY <1>3 DEF TypeOK
  <2>3. \A k \in Handlers : found'[k] \in 0..Len(rows')
    <3>1. Len(rows') \in Nat
      BY <1>2
    <3>2. \A k \in Handlers : found[k] \in 0..Len(rows) /\ Len(rows) \in Nat
      BY TableFacts DEF TypeOK
    <3>3. \A k \in Handlers : found'[k] = 0 \/ found'[k] = found[k]
      BY <1>3
    <3>4. Len(rows) <= Len(rows')
      BY <1>2
    <3>5. QED
      BY <3>1, <3>2, <3>3, <3>4
  <2>4. QED
    BY <1>2, <1>3, <1>4, <1>6, <2>1, <2>2, <2>3 DEF TypeOK
<1>8. EffectsOnce'
  <2>1. \A i \in 1..Len(outbox) : outbox[i].event \in Events /\ outbox[i].event # e
    BY <1>1, TableFacts DEF WebhookInv, EffectsOnce
  <2>2. \A i \in 1..Len(outcomes) : outcomes[i].event \in Events /\ outcomes[i].event # e
    BY <1>1, TableFacts DEF WebhookInv, EffectsOnce
  <2>3. \A f \in Events :
          f.type = "failed" /\ status'[f] = "PROCESSED"
            <=> \E i \in 1..Len(outbox') : outbox'[i].event = f
    <3>1. CASE outbox' = outbox /\ e.type # "failed"
      BY <1>5, <2>1, <3>1 DEF WebhookInv, EffectsOnce
    <3>2. ASSUME NEW n \in Nat, e.type = "failed",
                 outbox' = Append(outbox, [event |-> e, row |-> n])
          PROVE  \A f \in Events :
                   f.type = "failed" /\ status'[f] = "PROCESSED"
                     <=> \E i \in 1..Len(outbox') : outbox'[i].event = f
      <4> USE <1>5, <3>2
      <4>1. Len(outbox') = Len(outbox) + 1 /\ outbox'[Len(outbox) + 1].event = e
        BY DEF TypeOK
      <4>2. \A i \in 1..Len(outbox) : outbox'[i] = outbox[i]
        BY DEF TypeOK
      <4>3. Len(outbox) \in Nat
        BY DEF TypeOK
      <4>4. ASSUME NEW f \in Events
            PROVE  f.type = "failed" /\ status'[f] = "PROCESSED"
                     <=> \E i \in 1..Len(outbox') : outbox'[i].event = f
        <5>1. CASE f = e
          BY <4>1, <4>3, <5>1
        <5>2. CASE f # e
          BY <4>1, <4>2, <4>3, <5>2 DEF WebhookInv, EffectsOnce
        <5>3. QED
          BY <5>1, <5>2
      <4>5. QED
        BY <4>4
    <3>3. QED
      BY <1>2, <3>1, <3>2
  <2>4. \A i, j \in 1..Len(outbox') : outbox'[i].event = outbox'[j].event => i = j
    <3>1. CASE outbox' = outbox
      BY <3>1 DEF WebhookInv, EffectsOnce
    <3>2. ASSUME NEW n \in Nat, outbox' = Append(outbox, [event |-> e, row |-> n])
          PROVE  \A i, j \in 1..Len(outbox') : outbox'[i].event = outbox'[j].event => i = j
      <4>1. [event |-> e, row |-> n] \in Effect
        BY <1>1 DEF Effect
      <4>2. \A i, j \in 1..Len(outbox) : outbox[i].event = outbox[j].event => i = j
        BY DEF WebhookInv, EffectsOnce
      <4>3. [event |-> e, row |-> n].event = e
        OBVIOUS
      <4>4. outbox \in Seq(Effect)
        BY DEF TypeOK
      <4> HIDE DEF e
      <4>5. QED
        BY <3>2, <2>1, <4>1, <4>2, <4>3, <4>4, UniqueAppend
    <3>3. QED
      BY <1>2, <3>1, <3>2
  <2>5. \A i, j \in 1..Len(outcomes') : outcomes'[i].event = outcomes'[j].event => i = j
    <3>1. CASE outcomes' = outcomes
      BY <3>1 DEF WebhookInv, EffectsOnce
    <3>2. ASSUME NEW n \in Nat, outcomes' = Append(outcomes, [event |-> e, row |-> n])
          PROVE  \A i, j \in 1..Len(outcomes') : outcomes'[i].event = outcomes'[j].event => i = j
      <4>1. [event |-> e, row |-> n] \in Effect
        BY <1>1 DEF Effect
      <4>2. \A i, j \in 1..Len(outcomes) : outcomes[i].event = outcomes[j].event => i = j
        BY DEF WebhookInv, EffectsOnce
      <4>3. [event |-> e, row |-> n].event = e
        OBVIOUS
      <4>4. outcomes \in Seq(Effect)
        BY DEF TypeOK
      <4> HIDE DEF e
      <4>5. QED
        BY <3>2, <2>2, <4>1, <4>2, <4>3, <4>4, UniqueAppend
    <3>3. QED
      BY <1>2, <3>1, <3>2
  <2>6. \A i \in 1..Len(outcomes') : status'[outcomes'[i].event] = "PROCESSED"
    <3>1. CASE outcomes' = outcomes
      BY <1>5, <2>2, <3>1 DEF WebhookInv, EffectsOnce
    <3>2. ASSUME NEW n \in Nat, outcomes' = Append(outcomes, [event |-> e, row |-> n])
          PROVE  \A i \in 1..Len(outcomes') : status'[outcomes'[i].event] = "PROCESSED"
      <4> HIDE DEF e
      <4>1. [event |-> e, row |-> n] \in Effect
        BY <1>1 DEF Effect
      <4>2. /\ Len(outcomes) \in Nat
            /\ Len(outcomes') = Len(outcomes) + 1
            /\ outcomes'[Len(outcomes) + 1] = [event |-> e, row |-> n]
            /\ \A i \in 1..Len(outcomes) : outcomes'[i] = outcomes[i]
        BY <3>2, <4>1, AppendFacts DEF TypeOK
      <4>3. QED
        BY <1>1, <1>5, <2>2, <4>2 DEF WebhookInv, EffectsOnce
    <3>3. QED
      BY <1>2, <3>1, <3>2
  <2>7. QED
    BY <2>3, <2>4, <2>5, <2>6 DEF EffectsOnce
<1>9. \A k \in Handlers : pc'[k] # "idle" => status'[ev'[k]] = "PENDING"
  <2>1. \A k \in Handlers \ {h} : pc[k] # "idle" => ev[k] \in Events /\ ev[k] # e
    BY DEF TypeOK, WebhookInv
  <2>2. QED
    BY <1>3, <1>5, <2>1 DEF WebhookInv
<1>10. \A j, k \in Handlers :
         pc'[j] # "idle" /\ pc'[k] # "idle" /\ ev'[j] = ev'[k] => j = k
  BY <1>3 DEF WebhookInv
<1>11. QED
  BY <1>2, <1>3, <1>7, <1>8, <1>9, <1>10 DEF WebhookInv

(* Every step keeps the types and the invariant.                           *)
LEMMA NextInv == TypeOK /\ WebhookInv /\ [Next]_vars => TypeOK' /\ WebhookInv'
<1> SUFFICES ASSUME TypeOK, WebhookInv, [Next]_vars PROVE TypeOK' /\ WebhookInv'
  OBVIOUS
<1>1. ASSUME NEW h \in Handlers, NEW e \in Events, NEW ok \in BOOLEAN, Receive(h, e, ok)
      PROVE  TypeOK' /\ WebhookInv'
  BY <1>1, ReceiveInv
<1>2. ASSUME NEW h \in Handlers, NEW ok \in BOOLEAN, Lookup(h, ok)
      PROVE  TypeOK' /\ WebhookInv'
  <2>1. Candidates(ev[h]) \subseteq 0..Len(rows)
    BY DEF Candidates, RowsWith, TypeOK
  <2>2. /\ pc[h] # "idle"
        /\ UNCHANGED <<status, tables, deliveries>>
        /\ faults' \in Nat
        /\ acked' \subseteq Events
        /\ broken' \subseteq Events
    BY <1>2 DEF Lookup, Fault, Respond, TypeOK
  <2>3. \/ /\ pc' = [pc EXCEPT ![h] = "apply"]
           /\ ev' = ev
           /\ \E i \in 0..Len(rows) : found' = [found EXCEPT ![h] = i]
        \/ /\ pc' = [pc EXCEPT ![h] = "idle"]
           /\ ev' = [ev EXCEPT ![h] = NoEvent]
           /\ found' = [found EXCEPT ![h] = 0]
    BY <1>2, <2>1 DEF Lookup, Respond, TypeOK
  <2>4. QED
    BY <2>2, <2>3, QuietInv
<1>3. ASSUME NEW h \in Handlers, NEW ok \in BOOLEAN, Apply(h, ok)
      PROVE  TypeOK' /\ WebhookInv'
  <2>1. pc[h] = "apply" /\ faults' \in Nat /\ Respond(h, ok) /\ UNCHANGED deliveries
    BY <1>3 DEF Apply, Fault, TypeOK
  <2>2. CASE /\ IngestLink(h) \/ MarkCaptured(h) \/ MarkCancelled(h) \/ IngestFailure(h)
             /\ status' = [status EXCEPT ![ev[h]] = "PROCESSED"]
    BY <2>1, <2>2, WriteInv
  <2>3. CASE UNCHANGED <<tables, status>>
    <3>1. acked' \subseteq Events /\ broken' \subseteq Events
      BY <2>1 DEF Respond, TypeOK
    <3>2. QED
      BY <2>1, <2>3, <3>1, QuietInv DEF Respond
  <2>4. QED
    BY <1>3, <2>2, <2>3 DEF Apply
<1>4. ASSUME NEW h \in Handlers, Crash(h)
      PROVE  TypeOK' /\ WebhookInv'
  <2>1. /\ faults' \in Nat
        /\ acked' \subseteq Events /\ broken' \subseteq Events
    BY <1>4 DEF Crash, Fault, TypeOK
  <2>2. QED
    BY <1>4, <2>1, QuietInv DEF Crash
<1>5. CASE UNCHANGED vars
  <2>1. TypeOK'
    BY <1>5 DEF vars, TypeOK
  <2>2. WebhookInv'
    BY <1>5 DEF vars, WebhookInv, EffectsOnce, FailureIsQueued, WorkflowFollowsPayment
  <2>3. QED
    BY <2>1, <2>2
<1>6. QED
  BY <1>1, <1>2, <1>3, <1>4, <1>5 DEF Next

(* The inductive invariant holds of every behaviour.                       *)
LEMMA Invariance == Spec => [](TypeOK /\ WebhookInv)
BY InitInv, NextInv, PTL DEF Spec

(* However often Razorpay repeats an event and wherever a request dies, a  *)
(* processed payment.failed has queued exactly one analysis, and no event  *)
(* is counted twice among the outcomes; one capture announced by two       *)
(* events is (webhook.go:184-200, 289, 334-342, 604-631).                  *)
THEOREM EventsTakeEffectOnce == Spec => []EffectsOnce
BY Invariance, PTL DEF WebhookInv

(* A payment that a webhook made FAILED has its analysis queued, for any   *)
(* interleaving of lookups and writes (webhook.go:604-613).                *)
THEOREM FailedPaymentIsQueued == Spec => []FailureIsQueued
BY Invariance, PTL DEF WebhookInv

(* No interleaving of the branches separates a payment's status from its   *)
(* workflow's (webhook.go:332-333, 356-357, 562-602).                      *)
THEOREM PaymentAndWorkflowAgree == Spec => []WorkflowFollowsPayment
BY Invariance, PTL DEF WebhookInv
=============================================================================
