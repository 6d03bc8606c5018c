---------------------------- MODULE ConsoleViews ----------------------------
(***************************************************************************)
(* The pages of the console that show what the API has: analytics,         *)
(* dashboard and system, the Header over all of them, and the receivables  *)
(* page (module Receivables).  The Header, the dashboard and the system    *)
(* page ask again on a timer, whether the last answer has come or not, and *)
(* show whatever is answered last.  Where the API gives no answer, they    *)
(* show data of their own, as analytics and the dashboard do when the API  *)
(* counts less than a thousand payments.                                   *)
(***************************************************************************)
EXTENDS Receivables

CONSTANTS
  InitialPayments,  \* payments at first
  MaxPayments,      \* bound on the payments that come in
  MaxPolls,         \* bound on the calls of one kind under way
  MaxFaults         \* bound on the calls that fail

ASSUME ViewsAssumption ==
  /\ {InitialPayments, MaxPayments, MaxFaults} \subseteq Nat
  /\ MaxPolls \in Nat \ {0}

VARIABLES
  at,        \* the page the tab shows
  shown,     \* what it shows
  header,    \* what the Header shows
  polls,     \* the calls under way, by kind
  payments,  \* those the API has; each makes a new state to be shown
  faults     \* failures so far

views == <<at, shown, header, polls, payments, faults>>
vars == <<views, receivables>>

Views == {"analytics", "dashboard", "system"}
Polled == {"health", "dashboard", "system"}
Ops == Views \cup Polled

(* Something shown: the payments the API had when it answered, or nothing, *)
(* or data of the application's own.                                       *)
Nothing == -2
Demo == -1
Shown == {Nothing, Demo} \cup InitialPayments..(InitialPayments + MaxPayments)

(* A call is overtaken when another one of its kind ends while it is under *)
(* way.                                                                    *)
Call == [pc : {"sent", "served", "failed"}, data : Shown, overtaken : BOOLEAN]
Sent == [pc |-> "sent", data |-> Nothing, overtaken |-> FALSE]

TypeOK ==
  /\ ReceivablesTypeOK
  /\ at \in Views \cup {"receivables"}
  /\ shown \in Shown /\ header \in Shown
  /\ polls \in [Ops -> Seq(Call)] /\ \A op \in Ops : Len(polls[op]) <= MaxPolls
  /\ payments \in InitialPayments..(InitialPayments + MaxPayments)
  /\ faults \in 0..MaxFaults

(* The tab comes from the login page: the shell and the analytics page are *)
(* mounted.                                                                *)
Init ==
  /\ ReceivablesInit
  /\ at = "analytics" /\ shown = Demo /\ header = Nothing
  /\ polls = [op \in Ops |-> IF op \in {"analytics", "health"} THEN <<Sent>> ELSE <<>>]
  /\ payments = InitialPayments
  /\ faults = 0

Fault == faults < MaxFaults /\ faults' = faults + 1
-----------------------------------------------------------------------------
(* A page is mounted in the place of another, and loads; the answers to    *)
(* the other one are not waited for.                                       *)
Navigate(p) ==
  /\ p # at
  /\ at' = p
  /\ shown' = IF p = "analytics" THEN Demo ELSE Nothing
  /\ polls' = [op \in Ops |-> CASE op = p -> <<Sent>>
                                [] op = "health" -> polls[op]
                                [] OTHER -> <<>>]
  /\ IF p = "receivables" THEN OpenReceivables
     ELSE book' = Closed /\ UNCHANGED <<shelf, kept>>
  /\ UNCHANGED <<header, payments, faults>>

Send(op) ==
  /\ op \in {at, "health"}
  /\ Len(polls[op]) < MaxPolls
  /\ polls' = [polls EXCEPT ![op] = Append(polls[op], Sent)]
  /\ UNCHANGED <<at, shown, header, payments, faults, receivables>>

(* setInterval, every 15, 6 or 10 seconds; the Sync and Refresh buttons of *)
(* these views do the same.                                                *)
Poll(op) == op \in Polled /\ Send(op)

(* The Refresh button of the analytics page.                               *)
LoadAnalytics == Send("analytics")

PaymentComesIn ==
  /\ payments < InitialPayments + MaxPayments
  /\ payments' = payments + 1
  /\ UNCHANGED <<at, shown, header, polls, faults, receivables>>

(* A bug variant of Serve: without cache: 'no-store', the browser gives an *)
(* answer it has kept.                                                     *)
ServeKept(op, i) ==
  /\ polls[op][i].pc = "sent"
  /\ \E old \in InitialPayments..payments :
       polls' = [polls EXCEPT ![op][i] = [polls[op][i] EXCEPT !.pc = "served", !.data = old]]
  /\ UNCHANGED <<at, shown, header, payments, faults, receivables>>

(* The API answers with what it has, or the call fails before or after.    *)
Serve(op, i) ==
  /\ polls[op][i].pc = "sent"
  /\ polls' = [polls EXCEPT ![op][i] = [polls[op][i] EXCEPT !.pc = "served", !.data = payments]]
  /\ UNCHANGED <<at, shown, header, payments, faults, receivables>>

Fail(op, i) ==
  /\ polls[op][i].pc \in {"sent", "served"}
  /\ Fault
  /\ polls' = [polls EXCEPT ![op][i] = [polls[op][i] EXCEPT !.pc = "failed", !.data = Nothing]]
  /\ UNCHANGED <<at, shown, header, payments, receivables>>

(* getAnalyticsOverview never fails: it makes the figures up when there    *)
(* are none, or too few.                                                   *)
GetAnalyticsOverview(c) == IF c.pc = "served" /\ c.data >= 1000 THEN c.data ELSE Demo

(* getSystemHealth and getSystemQueues do not fail either.                 *)
Fetched(op, c) ==
  IF op \in {"analytics", "dashboard"} THEN GetAnalyticsOverview(c)
  ELSE IF c.pc = "served" THEN c.data ELSE Demo

(* The calls still under way when one ends.                                *)
Others(calls, i) ==
  [j \in 1..(Len(calls) - 1) |-> [RemoveAt(calls, i)[j] EXCEPT !.overtaken = TRUE]]

(* checkHealth, fetchData, loadSystemInfo and loadAnalytics.               *)
Land(op, i) ==
  LET c == polls[op][i]
  IN /\ c.pc # "sent"
     /\ polls' = [polls EXCEPT ![op] = Others(polls[op], i)]
     /\ IF op = "health" THEN header' = Fetched(op, c) /\ UNCHANGED shown
        ELSE shown' = Fetched(op, c) /\ UNCHANGED header
     /\ UNCHANGED <<at, payments, faults, receivables>>

Invoices ==
  \/ ReceivablesNext /\ UNCHANGED views
  \/ ServeReceivables(TRUE) /\ UNCHANGED views
  \/ /\ \/ ServeReceivables(FALSE)
        \/ \E num \in Numbers, amount \in Amounts : HandleSaveInvoice(num, amount, FALSE)
     /\ Fault
     /\ UNCHANGED <<at, shown, header, polls, payments>>

Next ==
  \/ \E p \in Views \cup {"receivables"} : Navigate(p)
  \/ \E op \in Polled : Poll(op)
  \/ LoadAnalytics
  \/ PaymentComesIn
  \/ \E op \in Ops : \E i \in DOMAIN polls[op] : Serve(op, i)
  \/ \E op \in Ops : \E i \in DOMAIN polls[op] : Fail(op, i)
  \/ \E op \in Ops : \E i \in DOMAIN polls[op] : Land(op, i)
  \/ Invoices

Spec == Init /\ [][Next]_vars
-----------------------------------------------------------------------------
OvertakenLands(op, data) ==
  /\ Len(polls'[op]) < Len(polls[op])
  /\ \E i \in DOMAIN polls[op] : polls[op][i].overtaken /\ polls[op][i].data = data

(* A view shows an older state of the API than it did before only when two *)
(* of its calls overlapped, and it is the overtaken one's answer it shows: *)
(* the timer asked again before the answer came.                           *)
ViewsGoForward ==
  [][/\ header' \in InitialPayments..(header - 1) => OvertakenLands("health", header')
     /\ at' = at /\ shown' \in InitialPayments..(shown - 1) => OvertakenLands(at, shown')]_vars

(* A call that was not overtaken was served after what its view shows was  *)
(* set, and the API's state only grows; no page but the one shown has      *)
(* calls under way.                                                        *)
ViewsInv ==
  /\ \A op \in Views \ {at} : polls[op] = <<>>
  /\ header <= payments /\ shown <= payments
  /\ \A op \in Ops : \A i \in DOMAIN polls[op] :
       polls[op][i].pc = "served" =>
         /\ polls[op][i].data <= payments
         /\ ~polls[op][i].overtaken =>
              (IF op = "health" THEN header ELSE shown) <= polls[op][i].data
=============================================================================
