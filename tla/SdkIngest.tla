----------------------------- MODULE SdkIngest -----------------------------
(***************************************************************************)
(* A merchant's server with the handler the CLI generated: Razorpay's      *)
(* notifications go through the SDK (packages/sdk) to POST /v1/events of   *)
(* the ReviveOS API (apps/api/handlers/v1_events.go).  The merchant's own  *)
(* code also calls recovery.execute and payments.get.                      *)
(*                                                                         *)
(* A call is one SDK promise; it makes up to MaxRetries + 1 requests.  A   *)
(* request that times out is abandoned by the client and goes on in the    *)
(* API, whose context is cancelled: from then on each of its statements    *)
(* may fail.                                                               *)
(***************************************************************************)
EXTENDS ReviveCli, FiniteSets

CONSTANTS
  Notifications,  \* Razorpay's notifications, records of NotificationType
  MaxRetries,     \* options.maxRetries of the SDK
  MaxDeliveries,  \* bound on the deliveries of one notification
  MaxCalls,       \* bound on the other calls of the merchant's code
  MaxOpen,        \* bound on the promises of the SDK that are open at a time
  MaxFaults       \* bound on timeouts, lost connections and failed statements

(* at: created_at in seconds, or 0 when the payload has none.              *)
NotificationType == [pay : Nat, type : {"payment.failed", "payment.captured"}, at : Nat]

ASSUME SdkAssumption ==
  /\ Notifications \subseteq NotificationType
  /\ MaxRetries \in Nat
  /\ MaxDeliveries \in Nat \ {0}
  /\ MaxCalls \in Nat
  /\ MaxOpen \in Nat \ {0}
  /\ MaxFaults \in Nat

VARIABLES
  config,      \* the SDK's options once the server runs, or Stopped
  known,       \* payments rows by razorpay_payment_id
  events,      \* payment_events rows of /v1/events: their idempotency keys
  queued,      \* outbox rows PAYMENT_FAILED written for each notification
  terminal,    \* payments whose failure code the provider always declines
  paid,        \* payments whose capture a webhook has reported
  local,       \* status of the provider's row of each payment, or "ABSENT"
  charges,     \* attempts the payment provider made for each execute call
  phase,       \* what each call is doing
  attempt,     \* the attempt it is at
  requests,    \* requests the API is serving or has answered
  acked,       \* notifications answered with 200
  missed,      \* notifications whose payments row was not found or not written
  faults       \* faults so far

provider == <<terminal, paid, local, charges>>
apiVars == <<known, events, queued, provider, missed>>
sdkVars == <<config, phase, attempt, acked>>
vars == <<cliVars, config, known, events, queued, provider, phase, attempt, requests,
          acked, missed, faults>>

Stopped == [key |-> "none", secret |-> "none", mode |-> "stopped", router |-> "none"]

Calls == [kind : {"process"}, n : Notifications, k : 1..MaxDeliveries]
           \cup [kind : {"execute", "get"}, n : Notifications, k : {1}]
Payments == {n.pay : n \in Notifications}

(* How a call has ended: with a value, which for execute may say that the  *)
(* payment is not verified, or with one of the SDK's errors.               *)
Settled == {"ok", "unverified", "signature", "rejected", "failed"}
Statuses == {0, 200, 202, 401, 404, 502}
Request == [call : Calls, attempt : 0..MaxRetries, orphan : BOOLEAN, found : BOOLEAN,
            pc : {"start", "persist", "store", "init", "charge", "reply"},
            status : Statuses, verified : BOOLEAN]

TypeOK ==
  /\ CliTypeOK
  /\ config = Stopped \/ config \in [key : {"none", "seeded"}, router : Routers,
                                     secret : {"none", "placeholder", "real"},
                                     mode : {"live", "mock"}]
  /\ known \subseteq Payments
  /\ events \subseteq Payments \X Nat
  /\ queued \in [Notifications -> Nat]
  /\ terminal \subseteq Payments
  /\ paid \subseteq Payments
  /\ local \in [Payments -> {"ABSENT", "FAILED", "CAPTURED"}]
  /\ charges \in [Notifications -> Nat]
  /\ phase \in [Calls -> {"unused", "send", "wait"} \cup Settled]
  /\ attempt \in [Calls -> 0..MaxRetries]
  /\ requests \subseteq Request
  /\ acked \subseteq Notifications
  /\ missed \subseteq Notifications
  /\ faults \in 0..MaxFaults

Init ==
  /\ CliInit
  /\ config = Stopped
  /\ known = {}
  /\ events = {}
  /\ queued = [n \in Notifications |-> 0]
  /\ terminal \in SUBSET Payments
  /\ paid = {}
  /\ local = [p \in Payments |-> "ABSENT"]
  /\ charges = [n \in Notifications |-> 0]
  /\ phase = [c \in Calls |-> "unused"]
  /\ attempt = [c \in Calls |-> 0]
  /\ requests = {}
  /\ acked = {}
  /\ missed = {}
  /\ faults = 0
-----------------------------------------------------------------------------
(* The merchant's server.                                                  *)

(* The SDK reads its options from the environment when the server starts.  *)
StartServer ==
  /\ config = Stopped
  /\ \E p \in handlers :
       config' = [key |-> env.key, secret |-> env.secret, router |-> p.router,
                 mode |-> IF env.mode = "mock" THEN "mock" ELSE "live"]
  /\ UNCHANGED <<cliVars, apiVars, phase, attempt, requests, acked, faults>>

(* verifyAndNormalize: Razorpay signs with the dashboard's secret, so the  *)
(* signature is refused exactly when another secret is configured.         *)
SignatureAccepted == config.secret \in {"none", "real"}

(* The event id, which is also the idempotency key: generated handlers     *)
(* pass no headers, so it is the payment and created_at, or the time of    *)
(* this delivery.                                                          *)
EventId(c) == <<c.n.pay, IF c.n.at # 0 THEN c.n.at ELSE 1000 + c.k>>

(* A bug variant of HandlerStatus: errors are swallowed.                   *)
HandlerStatusSwallowing(ending) == IF ending = "signature" THEN 401 ELSE 200

(* The status a generated handler answers Razorpay with.                   *)
HandlerStatus(ending) ==
  CASE ending = "ok" -> 200
    [] ending = "signature" /\ config.router = "nextjs-app" -> 401
    [] OTHER -> 400

(* A call ends; a handler answers Razorpay.                                *)
Settle(c, ending) ==
  /\ phase' = [phase EXCEPT ![c] = ending]
  /\ acked' = IF c.kind = "process" /\ HandlerStatus(ending) = 200
              THEN acked \cup {c.n} ELSE acked

(* The end of a call in mock mode: MockReviveOSEngine makes its answers up *)
(* from the arguments, and never throws.                                   *)
MockEnding == "ok"

Open == {c \in Calls : phase[c] \in {"send", "wait"}}

(* The delivery of a notification: the first or a repeated one.            *)
Deliver(c) ==
  /\ config # Stopped
  /\ c.kind = "process"
  /\ phase[c] = "unused"
  /\ Cardinality(Open) < MaxOpen
  /\ c.k > 1 => phase[[c EXCEPT !.k = @ - 1]] # "unused"
  /\ CASE ~SignatureAccepted -> Settle(c, "signature")
       [] SignatureAccepted /\ config.mode = "mock" -> Settle(c, MockEnding)
       [] SignatureAccepted /\ config.mode = "live" ->
            phase' = [phase EXCEPT ![c] = "send"] /\ UNCHANGED acked
  /\ UNCHANGED <<cliVars, config, apiVars, attempt, requests, faults>>

(* recovery.execute or payments.get, up to MaxCalls of them; the mock mode *)
(* answers by itself.  payments.get stands for the calls that only read:   *)
(* payments.analyze, recovery.decision and customers.getRecoveryProfile.   *)
Call(c) ==
  /\ config # Stopped
  /\ c.kind # "process"
  /\ phase[c] = "unused"
  /\ Cardinality(Open) < MaxOpen
  /\ Cardinality({d \in Calls : d.kind # "process" /\ phase[d] # "unused"}) < MaxCalls
  /\ phase' = [phase EXCEPT ![c] = IF config.mode = "mock" THEN MockEnding ELSE "send"]
  /\ UNCHANGED <<cliVars, config, apiVars, attempt, requests, acked, faults>>

(* One attempt of request().                                               *)
Send(c) ==
  /\ phase[c] = "send"
  /\ phase' = [phase EXCEPT ![c] = "wait"]
  /\ requests' = requests \cup {[call |-> c, attempt |-> attempt[c], orphan |-> FALSE,
                                 found |-> FALSE, pc |-> "start", status |-> 0,
                                 verified |-> FALSE]}
  /\ UNCHANGED <<cliVars, config, apiVars, attempt, acked, faults>>

(* A bug variant of RetryOrThrow: only responses are retried, timeouts and *)
(* broken connections are thrown at once.                                  *)
RetryResponsesOnly(c, status) ==
  IF status \notin {0, 400, 401, 403} /\ attempt[c] < MaxRetries
  THEN /\ attempt' = [attempt EXCEPT ![c] = @ + 1]
       /\ phase' = [phase EXCEPT ![c] = "send"]
       /\ UNCHANGED acked
  ELSE /\ Settle(c, IF status \in {400, 401, 403} THEN "rejected" ELSE "failed")
       /\ UNCHANGED attempt

(* What request() does with an attempt that brought no 2xx: the errors     *)
(* that are neither authentication nor validation, 404 among them, are     *)
(* tried again while attempts are left.                                    *)
RetryOrThrow(c, status) ==
  IF status \notin {400, 401, 403} /\ attempt[c] < MaxRetries
  THEN /\ attempt' = [attempt EXCEPT ![c] = @ + 1]
       /\ phase' = [phase EXCEPT ![c] = "send"]
       /\ UNCHANGED acked
  ELSE /\ Settle(c, IF status \in {400, 401, 403} THEN "rejected" ELSE "failed")
       /\ UNCHANGED attempt

(* What the promise resolves to; only execute answers carry verified.      *)
Ending(q) == IF q.call.kind = "execute" /\ ~q.verified THEN "unverified" ELSE "ok"

(* The response arrives.                                                   *)
Receive(q) ==
  /\ q.pc = "reply"
  /\ ~q.orphan
  /\ requests' = requests \ {q}
  /\ IF q.status \in 200..299
     THEN Settle(q.call, Ending(q)) /\ UNCHANGED attempt
     ELSE RetryOrThrow(q.call, q.status)
  /\ UNCHANGED <<cliVars, config, apiVars, faults>>

(* The request times out or its connection breaks: it was not sent, or the *)
(* API goes on with it, or its response is lost.                           *)
TimeOut(q) ==
  /\ ~q.orphan
  /\ faults < MaxFaults
  /\ faults' = faults + 1
  /\ \/ requests' = requests \ {q}
     \/ q.pc # "reply" /\ requests' = (requests \ {q}) \cup {[q EXCEPT !.orphan = TRUE]}
  /\ RetryOrThrow(q.call, 0)
  /\ UNCHANGED <<cliVars, config, apiVars>>
-----------------------------------------------------------------------------
(* The ReviveOS API.                                                       *)

(* The schema of database/migrations, as far as /v1/events uses it.        *)
EventColumns == {"id", "razorpay_event_id", "event_type", "razorpay_payment_id",
                 "raw_payload", "processed", "created_at", "processing_status",
                 "received_at", "processed_at"}
UniquePaymentColumns == {"id"}

(* Whether the API finds a row by the key, and which statements the schema *)
(* accepts at all: a statement naming a column that does not exist fails,  *)
(* and so does ON CONFLICT on a column without a unique index.             *)
DuplicateCheckRuns == {"event_id", "idempotency_key"} \subseteq EventColumns
EventInsertRuns ==
  {"payment_id", "event_id", "event_type", "idempotency_key", "payload"} \subseteq EventColumns
PaymentUpsertRuns == "razorpay_payment_id" \in UniquePaymentColumns

Move(q, r) == requests' = (requests \ {q}) \cup {r}
Reply(q, code) ==
  IF q.orphan THEN requests' = requests \ {q}
  ELSE Move(q, [q EXCEPT !.pc = "reply", !.status = code])

(* A statement of request q succeeds or fails; failing costs a fault       *)
(* unless its context is cancelled.                                        *)
Statement(q, ok) ==
  IF ok \/ q.orphan THEN UNCHANGED faults
  ELSE faults < MaxFaults /\ faults' = faults + 1

(* APIKeyAuthMiddleware: the seeded key is accepted even when its lookup   *)
(* fails.                                                                  *)
Authorised == config.key = "seeded"

Refuse(q) ==
  /\ q.pc = "start"
  /\ ~Authorised
  /\ Reply(q, 401)
  /\ UNCHANGED <<cliVars, sdkVars, apiVars, faults>>

Accepts(q, kind) == q.pc = "start" /\ Authorised /\ q.call.kind = kind

(* The idempotency check: a failing query counts as no duplicate.          *)
CheckDuplicate(q) ==
  /\ Accepts(q, "process")
  /\ \E ok \in BOOLEAN :
       /\ Statement(q, ok)
       /\ IF ok /\ DuplicateCheckRuns /\ EventId(q.call) \in events
          THEN Reply(q, 200)
          ELSE Move(q, [q EXCEPT !.pc = "persist"])
  /\ UNCHANGED <<cliVars, sdkVars, apiVars>>

(* The upsert of the payment, or else the search for it.                   *)
PersistPayment(q) ==
  /\ q.pc = "persist"
  /\ \E ok \in BOOLEAN :
       /\ Statement(q, ok)
       /\ known' = IF ok /\ PaymentUpsertRuns THEN known \cup {q.call.n.pay} ELSE known
       /\ Move(q, [q EXCEPT !.pc = "store", !.found = ok /\ q.call.n.pay \in known'])
  /\ UNCHANGED <<cliVars, sdkVars, events, queued, provider, missed>>

(* The payment_events row, the outbox row of a failure, and the answer,    *)
(* which is 202 whatever was written.                                      *)
StoreEvent(q) ==
  LET n == q.call.n
  IN /\ q.pc = "store"
     /\ \E ok \in BOOLEAN :
          /\ Statement(q, ok)
          /\ events' = IF q.found /\ ok /\ EventInsertRuns
                       THEN events \cup {EventId(q.call)} ELSE events
          /\ queued' = IF q.found /\ ok /\ n.type = "payment.failed"
                       THEN [queued EXCEPT ![n] = @ + 1] ELSE queued
          /\ missed' = IF q.found /\ ok THEN missed ELSE missed \cup {n}
     /\ Reply(q, 202)
     /\ UNCHANGED <<cliVars, sdkVars, known, provider>>

(* V1RecoveryExecuteHandler; its idempotencyKey is not read.               *)
Executed(q, verified) ==
  IF q.orphan THEN requests' = requests \ {q}
  ELSE Move(q, [q EXCEPT !.pc = "reply", !.status = 200, !.verified = verified])

(* GetPayment: a row that is CAPTURED is answered as a success without an  *)
(* attempt; without a row it is initialised first.                         *)
ReadProvider(q) ==
  LET p == q.call.n.pay
  IN /\ Accepts(q, "execute")
     /\ \E ok \in BOOLEAN :
          /\ Statement(q, ok)
          /\ CASE ~ok -> Reply(q, 502)
               [] ok /\ local[p] = "ABSENT" -> Move(q, [q EXCEPT !.pc = "init"])
               [] ok /\ local[p] = "FAILED" -> Move(q, [q EXCEPT !.pc = "charge"])
               [] ok /\ local[p] = "CAPTURED" -> Executed(q, TRUE)
     /\ UNCHANGED <<cliVars, sdkVars, apiVars>>

(* initializeFromApplicationPayment: the row is inserted unless there is   *)
(* one by now; the answer is the application's status all the same.  That  *)
(* of a paid payment may be FAILED again after a late webhook.             *)
InitProvider(q) ==
  LET p == q.call.n.pay
  IN /\ q.pc = "init"
     /\ \E ok \in BOOLEAN, status \in {"FAILED"} \cup (IF p \in paid THEN {"CAPTURED"} ELSE {}) :
          /\ Statement(q, ok)
          /\ IF ok /\ p \in known
             THEN /\ local' = [local EXCEPT ![p] = IF @ = "ABSENT" THEN status ELSE @]
                  /\ IF status = "CAPTURED" THEN Executed(q, TRUE)
                                            ELSE Move(q, [q EXCEPT !.pc = "charge"])
             ELSE Reply(q, 502) /\ UNCHANGED local
     /\ UNCHANGED <<cliVars, sdkVars, known, events, queued, terminal, paid, charges, missed>>

(* The provider's transaction: one more attempt and its outcome.           *)
RecordAttempt(n) ==
  /\ local' = [local EXCEPT ![n.pay] = IF n.pay \in terminal THEN "FAILED" ELSE "CAPTURED"]
  /\ charges' = [charges EXCEPT ![n] = @ + 1]

(* A bug variant of ChargePayment: the provider's error is answered 200.   *)
ChargePaymentIgnoringErrors(q) ==
  LET n == q.call.n
  IN /\ q.pc = "charge"
     /\ \E ok \in BOOLEAN :
          /\ Statement(q, ok)
          /\ RecordAttempt(n) \/ (~ok /\ UNCHANGED <<local, charges>>)
          /\ Executed(q, n.pay \notin terminal)
     /\ UNCHANGED <<cliVars, sdkVars, known, events, queued, terminal, paid, missed>>

(* The attempt, whatever happened since the row was read.  A decline is    *)
(* answered 200 too, as not verified; a commit that fails may have taken   *)
(* effect.                                                                 *)
ChargePayment(q) ==
  LET n == q.call.n
  IN /\ q.pc = "charge"
     /\ \E ok \in BOOLEAN :
          /\ Statement(q, ok)
          /\ RecordAttempt(n) \/ (~ok /\ UNCHANGED <<local, charges>>)
          /\ IF ok THEN Executed(q, n.pay \notin terminal) ELSE Reply(q, 502)
     /\ UNCHANGED <<cliVars, sdkVars, known, events, queued, terminal, paid, missed>>

(* V1GetPaymentHandler: any error of its query is answered 404.            *)
LookupPayment(q) ==
  /\ Accepts(q, "get")
  /\ \E ok \in BOOLEAN :
       /\ Statement(q, ok)
       /\ Reply(q, IF ok /\ q.call.n.pay \in known THEN 200 ELSE 404)
  /\ UNCHANGED <<cliVars, sdkVars, apiVars>>

(* The payments row comes from the API's own Razorpay webhook (module      *)
(* WebhookIngest).                                                         *)
PaymentBecomesKnown(p) ==
  /\ p \notin known
  /\ known' = known \cup {p}
  /\ UNCHANGED <<cliVars, sdkVars, requests, events, queued, provider, missed, faults>>

(* Its capture is reported by a webhook, or the worker's executor charges  *)
(* it at the same provider (module Executor).                              *)
PaymentIsPaid(p) ==
  /\ p \in known
  /\ \/ p \notin paid /\ paid' = paid \cup {p} /\ UNCHANGED local
     \/ /\ local[p] # "CAPTURED" /\ p \notin terminal
        /\ local' = [local EXCEPT ![p] = "CAPTURED"] /\ UNCHANGED paid
  /\ UNCHANGED <<cliVars, sdkVars, requests, known, events, queued, terminal, charges,
                 missed, faults>>

Serve(q) ==
  \/ Refuse(q)
  \/ CheckDuplicate(q)
  \/ PersistPayment(q)
  \/ StoreEvent(q)
  \/ ReadProvider(q)
  \/ InitProvider(q)
  \/ ChargePayment(q)
  \/ LookupPayment(q)
-----------------------------------------------------------------------------
SetUp ==
  /\ config = Stopped
  /\ CliNext
  /\ UNCHANGED <<sdkVars, apiVars, requests, faults>>

Next ==
  \/ SetUp
  \/ StartServer
  \/ \E c \in Calls : Deliver(c) \/ Call(c) \/ Send(c)
  \/ \E q \in requests : Receive(q) \/ TimeOut(q) \/ Serve(q)
  \/ \E p \in Payments : PaymentBecomesKnown(p) \/ PaymentIsPaid(p)

Spec == Init /\ [][Next]_vars

(* Razorpay repeats a notification until it is answered with 2xx.          *)
Redeliver(n) ==
  /\ n \notin acked
  /\ \E c \in Calls : c.n = n /\ Deliver(c)

(* A request being served proceeds, a promise of the SDK is driven by its  *)
(* event loop, and Razorpay keeps delivering; nothing obliges the merchant *)
(* or the faults.                                                          *)
FairSpec ==
  /\ Spec
  /\ WF_vars(\E c \in Calls : Send(c))
  /\ WF_vars(\E q \in requests : Receive(q))
  /\ WF_vars(\E q \in requests : Serve(q))
  /\ \A n \in Notifications : WF_vars(Redeliver(n))
-----------------------------------------------------------------------------
(* A failure Razorpay was told is taken care of is in the outbox, unless   *)
(* the API did not know the payment or lost a statement: no error on the   *)
(* way, of whichever attempt, is reported as success.                      *)
AckedFailureIsQueued ==
  \A n \in acked :
    n.type = "payment.failed" /\ config.mode = "live" => queued[n] > 0 \/ n \in missed

(* The money of a payment has been captured, as far as the provider's row  *)
(* or a webhook tells.                                                     *)
Captured(p) == local[p] = "CAPTURED" \/ p \in paid

(* What a resolved execute call says of its payment is so.                 *)
Honest(c) ==
  /\ phase[c] = "ok" /\ config.mode = "live" => Captured(c.n.pay)
  /\ phase[c] = "unverified" => charges[c.n] > 0 /\ c.n.pay \in terminal

(* An execute call that resolved as verified is of a captured payment,     *)
(* which it need not have charged itself; one that resolved as not         *)
(* verified has made an attempt, and the payment is of a code that every   *)
(* attempt is declined for.  However the attempts of a call overlap with   *)
(* those it gave up, with the executor and with webhooks, no error of the  *)
(* provider becomes an outcome, and it charges at most once per attempt.   *)
ExecuteEffects ==
  \A c \in Calls : c.kind = "execute" => Honest(c) /\ charges[c.n] <= attempt[c] + 1

(* The attempts of a call that may still charge.                           *)
Started(c) == {q \in requests : q.call = c /\ q.pc \in {"start", "init", "charge"}}

(* The attempts a call has begun.                                          *)
Begun(c) == attempt[c] + (IF phase[c] \in {"unused", "send"} THEN 0 ELSE 1)

(* What an answer with a 2xx status promises.                              *)
KeepsPromise(q) ==
  /\ q.call.kind = "process" /\ q.call.n.type = "payment.failed"
       => queued[q.call.n] > 0 \/ q.call.n \in missed
  /\ q.call.kind = "execute" =>
       IF q.verified THEN Captured(q.call.n.pay)
                     ELSE charges[q.call.n] > 0 /\ q.call.n.pay \in terminal

(* What the steps of the client and the API keep: a call waits for the one *)
(* request it has not abandoned, an answer with 2xx is backed by what the  *)
(* API wrote, and the charges of an execute call and the attempts that may *)
(* still charge are together no more than the attempts it has begun.       *)
SdkInv ==
  /\ IsFiniteSet(requests)
  /\ config = Stopped =>
       requests = {} /\ acked = {} /\ \A c \in Calls : phase[c] = "unused"
  /\ \A q \in requests : ~q.orphan => phase[q.call] = "wait"
  /\ \A q, r \in requests : ~q.orphan /\ ~r.orphan /\ q.call = r.call => q = r
  /\ \A q \in requests : q.pc \in {"persist", "store"} => q.call.kind = "process"
  /\ \A q \in requests : q.pc \in {"init", "charge"} => q.call.kind = "execute"
  /\ \A p \in terminal : local[p] = "CAPTURED" => p \in paid
  /\ \A q \in requests : q.pc = "reply" /\ q.status \in 200..299 => KeepsPromise(q)
  /\ \A c \in Calls :
       c.kind = "execute" => charges[c.n] + Cardinality(Started(c)) <= Begun(c)
  /\ \A c \in Calls : c.kind = "execute" => Honest(c)
  /\ AckedFailureIsQueued

(* A delivered notification is acknowledged in the end once the project is *)
(* set up, although attempts time out and the handler answers 400.         *)
EventuallyAcked ==
  \A n \in Notifications :
    (/\ config # Stopped /\ SignatureAccepted
     /\ config.mode = "mock" \/ config.key = "seeded") ~> n \in acked

(* If the same event is received twice, redundant recoveries are prevented *)
(* (the documentation page of the web application).                        *)
QueuedOnce == \A n \in Notifications : queued[n] <= 1
=============================================================================
