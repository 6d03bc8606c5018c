# ReviveOS in TLA+

ReviveOS recovers failed payments. A Razorpay webhook or an API call reports a failure; an outbox hands it to a
worker; the worker analyses it (classification, risk, an AI recommendation), checks it against the merchant's policy,
retries the charge through a payment provider, verifies the result and records the outcome in a hash-chained audit
ledger. Operators approve, reject or override a workflow in a web console, where they also dial customers, track their
promises, keep invoices and create subscriptions. Merchants connect through a CLI that sets up their project and an SDK
that forwards their webhooks.

This directory holds TLA+ models of the parts on which money and the promises of the documentation depend, TLC
configurations that check them on small instances, and TLAPS proofs for arbitrary instances. `PROJECT.json` maps every
definition to the lines it stands for.

## 1. The system and its parts

| component | state | operations | interacts with |
|---|---|---|---|
| webhook handler (`apps/api/handlers/webhook.go`) | `payment_events`, `payments`, `recovery_workflows`, `subscriptions`, `recovery_outcomes` | verify signature, deduplicate, four branches by event type | inserts `outbox_events` in its transaction |
| `/v1` API (`handlers/v1_*.go`) | `payment_events`, `payments`, `api_keys`, `outbox_events` | check the key, ingest an event, execute a recovery | SDK; outbox |
| operator's API (`workflows.go`, `voice.go`, `ptp.go`, `receivables.go`, `checkout_dropoff.go`, `merchants.go`) | `recovery_workflows`, `recovery_actions`, `promise_to_pay_records`, `voice_recovery_calls`, `b2b_invoices`, `checkout_sessions` | approve, reject, override, dial, honour, extend, dispatch, create | web console; provider; audit |
| transactional outbox (`packages/utils/outbox`) | `outbox_events`, asynq tasks in Redis | insert, `ProcessBatch`, `Start` | every writer of events; asynq |
| worker (`apps/worker`) | asynq server, 10 goroutines per process | `HandleAnalyze`, `HandleExecute`, `HandleVerify`, ... | pipeline, then executor |
| analysis pipeline (`internal/pipeline`) | `recovery_workflows`, `risk_assessments`, `model_predictions`, `ai_decisions` | `AnalyzePayment` | classifier, risk client, probability model, AI provider |
| policy engine (`services/policy-engine`) | `policies` (read; defaults inserted) | `GetMerchantPolicy`, `Evaluate` | called by the executor |
| recovery executor (`internal/executor`) | `recovery_workflows`, `recovery_actions`, `recovery_outcomes`, `payments`, `subscriptions` | `ExecuteWorkflow` | policy engine, payment provider, notifications, audit |
| payment providers (`services/payment-provider`) | `local_provider_payments`, `local_provider_attempts`; Razorpay's API | `GetPayment`, `CreateRetryAttemptWithCustomer`, `VerifyPayment` | called by the executor |
| audit ledger (`packages/utils/audit`) | `audit_events` | `AppendAuditLog`, `VerifyChain` | appended to by executor and API |
| pure rules (`packages/{types,recovery,ptp,receivables,checkout,voice}`) | none | classify, choose the next action, age an invoice, evaluate a promise | called by handlers and pipeline |
| SDK (`packages/sdk`) | options; one promise per call | signature check, `events.process`, `recovery.execute`, reading calls; timeouts and retries; mock mode | `/v1` API |
| CLI (`packages/cli`) | `.env`, `.env.reviveos`, the webhook handler in the merchant's project | `init`, `doctor` | its handler calls the SDK |
| workflow pages (`app/workflows`) | the workflow shown, the list, the buttons' loading flags | load, approve, reject, override | `lib/api.ts`, operator's API |
| voice page and promise tracker | dial form, call list, promise list; `localStorage` dispatches | dial, load, verify, extend | `voice.go`, `ptp.go` |
| receivables page | invoices, cards; `localStorage` invoices | load and merge, create, edit | `receivables.go` |
| merchant, checkout, developer, login pages, Sidebar | what the page shows, its forms; `localStorage` user | create, dispatch, ask, sign in and out | the API's handlers |
| analytics, dashboard, system pages, Header | the figures shown | load, poll on timers | `analytics.go`, `health.go`, `system.go` |
| simulator, `cmd` | none of the above | generate data | API |

What is hard here:

* **Concurrency without locks.** Two `payment.failed` events of one payment give two analysis tasks, which two of the
  ten worker goroutines execute at the same time. `ExecuteWorkflow` makes about twenty separate statements and calls
  and no transaction spans a check and what depends on it. The same holds for `AppendAuditLog` and for the webhook's
  find-or-create of `payments`.
* **Failure between two steps.** A worker may die between the charge and its record, a relay between the enqueue and
  the commit, a handler between the deduplication row and the processing. The executor ignores the error of nearly
  every statement.
* **Delivery.** Razorpay repeats and reorders webhooks; asynq redelivers; the relay repeats a batch.
* **Overlapping calls of a page.** A page starts a request from a timer, a button or the end of another request,
  without cancelling or numbering them; the answers come in any order, also after the page was left.
* **State read before an await.** The voice page, the tracker and the receivables page read `localStorage`, wait for the
  API and write or show what they read before. Nearly every page makes up data when the API does not answer.
* **A client that gives up.** The SDK abandons a request after its timeout and repeats it; the API goes on with the first one.
* **Limits.** The retry bound is a count read early and used late, in two places.

## 2. Modules

| module | models | role |
|---|---|---|
| `PolicyEngine` | `Evaluate`, the default policy | pure operators |
| `LocalProvider` | one payment of the local provider: its row and its charges | operators for single statements and transactions |
| `Executor` | `ExecuteWorkflow` run by several workers for one workflow | composes the two above |
| `TransactionalOutbox` | what the outbox promises | abstract specification |
| `Outbox` | relays, batches, asynq's task ids and retention | implements `TransactionalOutbox` |
| `WebhookIngest` | the webhook handler for one checkout | |
| `AuditChain` | appends and verification of one workflow's ledger | |
| `ReviveCli` | `reviveos init` in a merchant's project | variables and actions that `SdkIngest` extends |
| `SdkIngest` | the generated handler, the SDK and the `/v1` handlers | composes CLI, SDK and API |
| `OperatorConsole` | detail page and queue, workflow operations, the worker's analyse task | composes pages, API and worker |
| `PromiseCalls` | voice page and promise tracker with their API | composes two tabs, `localStorage` and API |
| `ConsolePages` | merchant, checkout, developer and login pages, Sidebar | one tab and the API |
| `Receivables` | the receivables page | variables and actions that `ConsoleViews` extends |
| `ConsoleViews` | analytics, dashboard, system, Header | composes them with the receivables page |
| `ExecutorProofs`, `WebhookProofs`, `SdkProofs`, `OperatorProofs`, `PromiseProofs`, `PagesProofs`, `ViewsProofs` | theorems about `Executor`, `WebhookIngest`, `SdkIngest`, `OperatorConsole`, `PromiseCalls`, `ConsolePages`, `ConsoleViews` with `Receivables` | each extends the module it is about |
| `DatabaseProofs` | theorems about `Outbox` and `AuditChain`, the two that write in the application's database transactions | extends both |
| `MCExecutor`, `MCWebhookIngest`, `MCAuditChain`, `MCSdkIngest` | values of the constants for TLC | |

Definitions marked "a bug variant of D" are what `D` would be if the code had a plausible mistake. No specification
uses them; substituting one for `D` must make a property fail, which shows that the property depends on that code.
`TypeOK` of each module says what its variables hold. Modules that are extended together have names of their own
(`OutboxSpec`, `OutboxTypeOK`, `ReceivablesTypeOK`).

### Executor

State: the workflow's, the payment's and the subscription's status, the sequences of `recovery_actions` and
`recovery_outcomes`, a count of audit entries per action, the provider's row (`local`, `"ABSENT"` until the first
`GetPayment` copies it from `payments`) and a count of its attempts. `input` holds what the executor reads and never
writes: selected action, failure code, amount, AI confidence, fraud score, opt-out and whether there is an email.
Per worker: the program counter `pc` and the function's locals that outlive a step: `row` (actionUUID), `count`, `limit`,
`seen` (the provider's last answer), `act` (actionStr) and `entry` (the audit entry to append).

Every SELECT, UPDATE, INSERT, short transaction and provider call is one action; `Step(w, ok)` with `ok = FALSE` is its
failure followed by what the code does then. The engine's reads in CHECK 5 and the two reads of CHECK 4 are one
step each: between them only rows of the same workflow can change, and reading them at the last possible moment gives
the decisions the code can take. An UPDATE or short transaction that reports a failure leaves no effect, except
for the charge, where it is left open whether the commit took effect: this is where it matters, since the money has moved.
`Crash` ends a call at any step. `Load` is a delivery of a task; `MaxRuns` bounds deliveries and `MaxFaults` failures
and crashes. The workflow starts in any open status and the payment in any status, as the pipeline, a webhook or an
operator may have left them; other components do not write while the executions run, which the planned
composition will lift.

### Outbox

An event is its position by `created_at`. A relay's transaction holds row locks (`held`), goes through its batch
(`todo`) and collects `marks`, which become `published` when it commits. Enqueuing takes effect at once: `task` is what asynq
knows under the event's task id. `ProcessTask`, `TaskFails` and `Expire` are asynq's, modelled from how `outbox.go` uses it: an
id is refused while its task is pending, retained or archived; an attempt that ends with an error is repeated `MaxRetry` times
and then archived; the retention of what has ended runs out some time later. `Routed` are the events whose type the worker's mux
has a handler for (`tasks/handlers.go:30-41`): every attempt at another one fails. `lapsed` remembers that the retention ended
while the row was unpublished. The columns `attempts` and `last_error` are write-only and left out.

### WebhookIngest

One checkout: a payment link L and the payment P made through it, delivered as six events, one of them of a type the handler
does not know. `Receive` commits the `payment_events` row; `Lookup` begins the second transaction and finds a row; `Apply` writes
and commits. `HasBranch` says which events any branch takes: types and, for links and failures, an id; the others are answered with
200 after `Receive` and stay PENDING. The lookup and the writes are separate because other transactions commit between them (READ
COMMITTED); the writes of one branch are atomic because they follow an UPDATE or INSERT of `payments`, whose row lock the other
branches wait for. A row carries its workflow, which every branch writes in the same transaction. `broken` remembers the events
one of whose own requests failed or died. Left out: rejected signatures and bodies (no state changes), amounts and names, the
merchant and customer rows, more than one subscription.

### AuditChain

SHA-256 is an injective function: an event's hash is the sequence of payloads it was computed from. A row is stored under
the timestamp of its transaction's BEGIN (`DEFAULT CURRENT_TIMESTAMP`), which is what both queries order by.

### ReviveCli and SdkIngest

A project is what `scanProject` tells apart: dependencies, a Next.js configuration, an `app` directory, TypeScript, a `src`
directory. `SetUp` is `init` or an edit of `.env` by the merchant; a file's content is the settings it gives. `StartServer`
fixes the SDK's `config`; after that the generated handler is served. A notification goes through `Deliver` (the signature
check, normalisation, a call of `events.process`); `Call` is `recovery.execute` or `payments.get`, which stands for the
calls that only read. `Send`, `TimeOut` and `Receive` are one attempt: an abandoned request stays in `requests` as an orphan,
whose statements may still take effect or fail because its context is cancelled. `Serve` takes the API's statements one at a
time, against the columns the migrations create: the idempotency check and the insert of the event name columns that do
not exist, so both always fail and the failure is ignored, as in the code. An execute request goes through the local provider
(`local.go`): `ReadProvider` answers a row that is CAPTURED as a success without an attempt, `InitProvider` makes the row from
`payments`, `ChargePayment` is the attempt, which a payment with a `terminal` failure code has declined; both outcomes are
answered with 200, as verified or not, and the SDK's promise resolves to `ok` or `unverified`. `PaymentBecomesKnown` and
`PaymentIsPaid` are the Razorpay webhook of section *WebhookIngest* writing `payments` and the worker's executor charging at the
same provider. The figures of the mock engine are not modelled, only that it answers locally.

### OperatorConsole

One payment and its workflows (`rows`, with a version that every write increases). `tasks` are deliveries of the analyse
task: find or create the workflow, analyse, execute; asynq retries a task that failed. A SELECT that fails is taken for a payment
without a workflow (`LookupFails`, counted in `blind`). `ExecutionCharges` and `EndExecution` are the executor at the provider and
its last write. `detail` and `queue` are two tabs. `net` holds their requests from the click to the handler's continuation; a
request may fail on its way (`Disconnect`) or in a statement. An approval is three steps in the API: `ApproveWorkflow` reads
workflow and provider, and finds a captured payment successful without an attempt; `ApproveCharge` is the attempt, declined for a
terminal failure code; `ApproveWrite` inserts the recovery_actions row (`trail`) and updates the workflow, each of which may fail
unnoticed, and answers 200 whatever became of the charge. What JSX renders is the guard of what the operator can do:
`HubOffered`, `InlineOffered`, `Listed` (tabs and filters of the queue only choose among rows, so a row is available if some choice
of them shows it). `wrote`, `told`, `old` and `provider.byDetail` record what the properties speak of.

### PromiseCalls

A placed call is lodged in `promise_to_pay_records`, in `voice_recovery_calls` (`db`) and in the browser (`store`), under
two identities, and as an action and an audit entry of the workflow it is filed with: the one chosen, or for a call without link
the newest of a customer with its number or e-mail (`LodgedWith`). Each of the four inserts may fail unnoticed. A form names the
workflows whose customer's number and e-mail it carries; `HandleSelectWorkflow` keeps either when the chosen one has none
(`NoPhone`, `NoEmail`). `net` holds dials, loads and the tracker's writes; a load carries the browser's list as read before the
await. Every placed call yields a promise, as both voice providers of the code do. `KeepLocal` and `PageSize` are 50 in the code.

### ConsolePages

One tab. `visit` numbers the mounted pages: a handler whose page is gone still runs and may call again or redirect, but sets
nothing (`Here`). `db.v` is a version of everything the API lists, `db.cart` the status of one checkout session, which
`TrackSession` (the shop) changes too. `calls` holds the calls under way by kind; a call is served, refused or lost, or served
`Empty`: the dashboard and the checkout list answer 200 without their rows when a query fails (`merchants.go:245-262`), and a
recovery answers 200 when its UPDATE does. Analytics stands for the pages without a form.

### Receivables and ConsoleViews

Invoices are created and edited in the browser only; `shelf` is its list and `book` the page. A load puts `shelf`, read before
the await, above the API's rows and the demo invoices, the first row with a number winning. `HandleSaveInvoice` has the save
that the browser refuses (`stored = FALSE`), which the page reports as a success. The API ages invoices into five buckets, the page
into three cards (`RecalcSummary`) and the API's own summary into four figures (`CalculateAgingSummary`). `polls` are the calls of the timers; the two requests that a dashboard or system poll makes in one `Promise.all` are one
call. `payments` counts the API's payments; below 1000 `getAnalyticsOverview` answers with data of its own.

## 3. Runs

`tlc -config X.cfg M` for each.

| run | shows | result |
|---|---|---|
| `executor_concurrent` | two workers, four deliveries, two failures or crashes, six inputs, three starting states by four: safety | holds |
| `executor_live` | two workers, no failures, weak fairness: a recoverable payment is recovered, a charge reactivates its subscription | holds |
| `executor_charged_once` | `README.md:859`: workflow handling is idempotent | violated |
| `outbox_relays` | two relays, three events, one without route, one retry, batches of two, two failures: safety, refinement and delivery | holds |
| `webhook_checkout` | two handlers, six events delivered up to twice in any order, one failure: safety and processing | holds |
| `audit_ledger` | two appenders, four appends, one failure: serial appends verify, tampering is detected | holds |
| `sdk_ingest` | three projects, one failure notification delivered twice, one retry, one other call, two faults: acknowledgements, effects, liveness | holds |
| `sdk_duplicate` | `docs/page.tsx:226`: an event received twice is acknowledged and not acted on again | violated |
| `operator_console` | one task with a retry, two workflows, two decisions, two loads, one fault: what pages show, send and capture, liveness | holds |
| `promise_calls` | two workflows, one without e-mail, two calls, two changes of the form, one opening, one write, one fault | holds |
| `console_session` | three pages opened, two clicks, one change from outside, one fault, two calls at once | holds |
| `console_views` | two invoice numbers, the API's aged over 90 days, two saves, two polls at once, one new payment, one fault | holds |

The properties of the passing runs:

* `NoFalseRecovery`: a RECOVERED workflow and a recovered outcome imply a capture at the provider.
* `CapturedIsFinal`: no later attempt or initialisation takes a capture back. It rests on a card being
  declined or accepted for good: the decision depends on the failure code and the amount only.
* `AttemptBound`, `SuccessBound`: what remains true of the retry limit and of charging once, given that both can be
  overrun: by less than one attempt per worker (plus one per failed read), and one charge per worker.
* `ChargesAccountedFor`: money moves only behind a row and an audit entry.
* `CaptureIsRecorded`, `NoEarlyFailure`: at rest the application knows of every capture; a workflow is not given up before
  its number of attempts.
* `RecoverableRecovers`, `ChargeRestoresSubscription`: the liveness counterparts. The status itself does not
  stay RECOVERED (see below), so the first says that it is reached and that the payment stays CAPTURED.
* `PublishedWasEnqueued`, `EnqueuedOnce`, `ImplementsOutbox`, `EveryEventHandled`: no event is lost, none delivered
  twice unless the retention ended first, none delivered that was not committed or that another relay has published. Every
  committed event is published and ends handled, or archived after `MaxRetry + 1` failed attempts; one without a route always does.
* `EffectsOnce`, `FailureIsQueued`, `WorkflowFollowsPayment`, `EveryEventProcessed`: an event acts exactly once and
  exactly if it is marked; a failed payment has an analysis queued; payment and workflow of a row agree; an event with a branch is
  processed unless a request of its own failed, whatever happens to the others. `EffectsOnce` is per event, not per capture.
* `SerialAppendsVerify`, `TamperingDetected`: `AppendAuditLog` and `VerifyChain` agree, and no edit, recomputed row or
  removal before the newest row passes. The newest row has no successor that would reveal its removal.
* `AckedFailureIsQueued`: what the merchant's handler answers with 200 is in the outbox, unless the API did not know the payment
  or lost a statement. `ExecuteEffects`: a `recovery.execute` that resolved as verified is of a captured payment, which it need
  not have charged itself; one that resolved otherwise made an attempt and was declined; and a call charges at most once per
  attempt, orphaned attempts included. `EventuallyAcked`: a notification is acknowledged in the end, whatever attempts time out.
* `OneDecisionAtATime`, `ButtonsComeBack`: the detail page's buttons are disabled exactly while one decision or its reload is
  under way, and always come back. `ReadYourWrites`: once a decision is over the page shows its effect or a later state, unless an
  older load's answer came after the reload's. `DetailCapturesOnce`: the approvals of one detail page capture the payment once,
  because each finds what the one before did; the queue page or the worker may capture it once more. `ApprovalsOnRecord`: an
  action is recorded as EXECUTED only if the provider captured; while it has not, every approval told as dispatched has a FAILED
  row, or a failure lost it. `RetriesReuseWorkflow`: a retried task makes no second workflow but by a failed lookup.
* `PromiseNotForgotten`, `CallShownOnce`: a commitment of one of the browser's latest calls is in the tracker, and a call in the
  call list once, even if the API is down or lost an insert. `CallIsForItsWorkflow`: the calls among a workflow's actions (which
  the executor counts as attempts) and audit entries are its own, and a linked call carries its customer's number and e-mail as far
  as the customer has them. `HonouredWasVerified`: no promise becomes HONORED, and no recovery action is inserted, without a click
  on it.
* `AnswersTheQuestion`: the answer shown belongs to the question unless two lookups overlapped. `ReportedOverFreshList`: when a
  subscription is reported as created, the page that asked shows no list read before it was written. `NoBlindDispatch`: a
  recovered checkout is set back to dispatched only from a list older than the recovery.
* `SavedIsKept`, `CardsMatchList`: a saved invoice and its amount are lost only by a save the browser refused or by one made from
  a list without it, and the cards are the API's figures for the list under them, its last two added up. `ViewsGoForward`: a view
  goes back to an older state only by the answer of a call that another one overtook.

Several of these have an exception in their statement (`unless two lookups overlapped`, `or a failure lost it`). It is what the
code really does: nothing numbers or cancels requests, and most errors are dropped. The property says that this is the only way to
the bad state; that the way exists is listed under the divergences. Where nothing prevents a hazard at all (a decision written over
an outcome, a login that outlives the logout) there is no property, and `PROJECT.json` says so.

**What the violations show.** `executor_charged_once`: both workers read the provider's row as FAILED before either charges.
`sdk_duplicate`: the idempotency check of `/v1/events` asks for a column that no migration creates; its error is ignored, the
second delivery is treated as new and a second PAYMENT_FAILED is put into the outbox.

**Divergences seen, without a run.** The models show these as well; they are the reason for the exceptions above.

* `state.go:68` says that terminal states have no outbound transitions. Worker 1 can recover the workflow between the CHECK 1
  and the policy check of worker 2, whose PAYMENT_LINK is now a duplicate, and HALTED replaces RECOVERED (`executor.go:500`).
* `README.md:1059`, retry bounds are never bypassed: both workers count before either inserts (`AttemptBound` says by how much).
* `executor.go:462` restores the subscription; the reconciliation after a crash does not touch `subscriptions`.
* `webhook.go:195`: an event whose processing failed after its deduplication row was committed is ignored for good.
* `webhook.go:184-202`: an event that no branch takes stays PENDING in `payment_events`.
* `webhook.go:289` and `334-337`: outcomes are counted per event; `payment.captured` and `payment_link.paid` of one capture give two.
* `v1_events.go:225` enqueues PAYMENT_FAILED, for which `tasks/handlers.go:30-41` has no handler: a failure reported through the SDK
  is retried and archived, never analysed.
* `local.go:150` answers a captured payment as a success without an attempt, and a decline is answered with 200: a resolved
  `recovery.execute` need not have charged.
* `pipeline.go:159` takes any error of its SELECT for a payment without a workflow and inserts a second one.
* `workflows.go:963-1025` answers an approval as dispatched also when the charge failed; of a captured payment it records EXECUTED
  without an attempt. Decisions are written whatever an execution has done since the page was loaded.
* Approvals from two tabs or two rows, or beside the worker, may read the provider's row before either charges, as in
  `executor_charged_once`.
* `voice-recovery/page.tsx:74` keeps the e-mail of the workflow chosen before when the new one has none, and a call that the voice
  page files with a workflow counts as an attempt of the executor (`executor.go:226`).
* `merchants.go:245-262` answers 200 with an empty list when the query of the subscriptions fails; over the page's own data a
  subscription is created for the first sample merchant (`api.ts:265`), which need not be the one the reload lists.
* `checkout_dropoff.go:107-115` ignores the error of its UPDATE and reports the dispatch.
* `receivables/page.tsx:232-240` swallows the error of `setItem` and reports success; an edit that changed the number is reported
  under the number typed (188, 240) although the row keeps its own; a save on a page that is still loading drops the earlier ones.
* `receivables/page.tsx:150` puts invoices older than 60 days into the 31-60 card, `receivables.go:157-165` keeps them apart.
* A login still under way at a logout signs the tab in again (`login/page.tsx:44-56`).
* A second `init` keeps `.env` (`generator.ts:34`) but rewrites `.env.reviveos` (30), whatever was filled in there.
* `README.md:1067`: `payment.captured` before `payment.failed` opens a workflow for a paid payment.
* `audit.go:30`: two concurrent appends read the same newest row and fork the chain.
* `ptp.go:140` turns an honoured promise into EXTENDED when the tracker's list is stale.
* `client.ts` says that 5xx are retried; a 404 is retried as well, since only 400, 401 and 403 are excepted.
* `workflows/page.tsx:308`: the queue has one `actionLoadingId`, so that a decision on a second row enables the first one's
  buttons while its request is under way. A failed load of the detail page shows a synthetic workflow under the real id.
* Every branch of `triggerDunning` reports success, and `getSystemHealth` answers HEALTHY when the API does not.
* A workflow left SCHEDULED is executed again by nobody: no component enqueues it.

**Bounds.** Two workers, relays, handlers or appenders are the smallest number for every race above; the theorems
of section 4 remove the bounds for safety in every module. Four deliveries let both workers overlap and later ones
find what they left, and are one more than `AttemptBound` allows without failures; `MaxRetries = 2` makes the second
attempt the last one and separates the limit from the default of 3 that a failed
policy read falls back to; `Confidence = 80` does the same for the default of 70. Three events with batches of two
give a full and a partial batch. Two deliveries of each webhook give a duplicate of every event. In the clients two
calls under way are the least that can overtake each other, and one fault the least that takes each fallback; `SdkIngest` has two
faults so that a timeout meets a failing statement, and one `payment.failed` (a `payment.captured` takes a part of the same
path and queues nothing; with both the state space is too large for a run). `MaxRetry = 1` is asynq's 5: one retry and the archive.
`KeepLocal = 1` and
`InitialPayments = 999` put the runs at the limits that the code has at 50 dispatches and 1000 payments. Below 1000 analytics and
dashboard show data of their own, so what the run says of views going back it says of the Header and the system page; the theorem
`OnlyOvertakenGoBack` has all four and any numbers. One of the two customers of `promise_calls` has no e-mail address; a missing
number is the same rule in the other field. `Ages = {"90_PLUS"}` is the age at which page and API differ. `CHECK_DEADLOCK FALSE`
everywhere: with bounded deliveries the systems come to rest, which is not an error.

**Fairness.** A worker that has begun a call goes on with it and asynq keeps delivering queued tasks (weak fairness of
`Step` and `Load` for `ok = TRUE`); a relay polls every 250 ms while its process lives and asynq hands pending tasks to
workers; Razorpay delivers an event it has no answer to. In `sdk_ingest` the event loop drives the SDK's promises and the API
serves its requests; in `operator_console` the API serves and the browser runs the continuations. Merchant, operator and
worker owe nothing. Failures and crashes are never owed.

## 4. Proofs

Checked by `tlapm` for every value of the constants allowed by the assumptions.

Except for liveness, every property of the passing runs of section 3 is a theorem. A theorem `Spec => []P` is proved from an
inductive invariant, which stands in the module it is about, after the properties, and which TLC has checked on the run's
instance before it was proved. A proof module has lemmas about the operators, a lemma per group of actions, and one
per conjunct of the invariant with a step per action; the theorems are at the end.

**`ExecutorProofs`** (assuming `ConstantsAssumption`: finitely many workers, a positive retry limit, inputs of the right
type): `TypeCorrect`, `NeverFalselyRecovered`, `CaptureIsFinal`, `AttemptsBounded`, `ChargesBounded`, from `TypeOK /\ IInv`, and
on top of that `ChargesAreAccountedFor`, `CapturesAreRecorded`, `NeverGivenUpEarly`.

* `LocalsInv`: what a call holds at each step (a read status, an audit action, the index of its row).
* `CaptureInv`: the heart. `NoFalseRecovery` alone is not inductive: it needs that a call at `reconcile` or `recover`
  has seen a capture that is still there, hence that captures are final, hence that no call stores a stale initial
  status over one and that no call that will be declined is about to write FAILED over one. The latter holds because a
  payment that is declined can only have been captured from the start, so that `payments` itself says so.
* `AttemptInv`: the rows plus the calls past CHECK 4 that have yet to insert stay within the bound; a call
  passes CHECK 4 only while there is room, or by a failed statement.
* `SuccessInv`: successful charges plus calls past the captured test never exceed the workers, since
  a call can get past it only while nothing has been captured.
* `ChargeInv`: charges plus the calls that have announced one never exceed the rows, nor the audit entries and faults.
* `ReportInv`: while `payments` does not know of a capture some call is on its way to record it; it needs that no call
  writes FAILED over it on that way.
* `FailureInv`: the count a call carries is at most the number of rows, and its own row makes one more.

Counting uses the theorems on cardinalities of finite sets; `Quiet` names the steps that change no count.

**`DatabaseProofs`**, on the outbox (assuming `OutboxAssumption`): `NothingLost`, `EnqueuedAtMostOnce` and
`RelaysImplementOutbox`, from `OutboxInv`: batches are disjoint and unpublished (what SKIP LOCKED is for), marked rows are enqueued, and an enqueued event whose task asynq has
forgotten is published or lapsed.

On the ledger (assuming `AuditAssumption`): `SerialLedgerVerifies` and `TamperingIsDetected`, for ledgers of any length. `AuditInv` says that until two appends
overlap one at most is open, it began after every row was written, and the hash it has read is the newest when it
inserts. The detection needs the types only: a hash determines what it was made from and is longer than its predecessor's,
and the row after a changed or removed one still names the old hash.

**`WebhookProofs`** (assuming `WebhookAssumption`): `EventsTakeEffectOnce`, `FailedPaymentIsQueued`, `PaymentAndWorkflowAgree`, for any handlers and events. `WebhookInv` adds
to the properties that a request is under way only for an event that is recorded and PENDING, and that no two serve the
same one: what the unique key of `payment_events` is for.

**`SdkProofs`** (assuming `CliAssumption` and `SdkAssumption`): `AcknowledgedFailureIsQueued`, `ExecuteChargesPerAttempt`. `SdkInv`: a call waits for the one request
it has not abandoned; an answer with 2xx is backed by what the API wrote, whichever attempt it belongs to (`KeepsPromise`: queued,
captured, or attempted and declined); a payment with a terminal code is captured only by a webhook; the charges of a
call and its requests that may still charge are together no more than the attempts begun. The last is a count, not a bound,
which is why orphaned requests appear in it.

**`OperatorProofs`** (assuming its `ConsoleAssumption`): `ButtonsGuardDecisions`, `DecisionsAreSeen`, `DetailPageCapturesOnce`,
`ApprovalsAreRecorded`, `OneWorkflowPerTask`. `NetInv`: requests are numbered, and the detail page holds one decision at most.
`CopiesInv`: every copy of a workflow, in an answer under way or on a page, is not newer than the row, and a load begun after a
decision brings at least what the decision wrote. `ChargeInv`: while an approval of the detail page is before its attempt, no
earlier one of this page has captured, which needs `NetInv`; the approvals answered and told are together no more than the FAILED
rows and the faults. `TaskInv` and `WorkerInv` are about the analyse task: slots are filled in order, and a task that has created a
workflow creates another one only after a failed lookup.

**`PromiseProofs`** (assuming `CallsAssumption`): `PromisesAreVerified`, `CallsReachTheirCustomer`, `PromisesAreShown`, `CallsAreShownOnce`, for any
number of calls and any `KeepLocal` and `PageSize`. `RequestInv` and `CountInv` count the verifications under way against the clicks.
`FormInv`: every form, on the page, in a request, in the browser's record or behind an entry of a workflow, is filled with its workflow's
customer as far as there is something to fill in. `SnapshotInv`: what
a load has read of the browser's record is that record as of the number of calls it knew; `ShownInv`: so is what a page shows.
The lists of the model are stated in closed form so that no induction over a list is needed: `Ascending` picks the element with
k - 1 smaller ones, and a counting argument (`AscendingFacts`) shows that it lists each element once.

**`PagesProofs`** (assuming `ConsoleAssumption`): `PagesTypeCorrect`, `AnswersAreToTheQuestion`, `ReportsFollowTheReload`,
`DispatchFollowsTheList`. `CallInv` is what stays true of a call from the click to its answer, whatever other calls do meanwhile:
its page is not a later one; data it brings are as old as their version says (`Seen`); the reload after a form reads
at least what the form wrote, unless it brings no rows; a recovery was asked for on a list that did not show the session as recovered, so that if the
session is recovered now, the list is older than that. `AskInv`: one simulation at most is under way for the page shown, while its
button is disabled, and the calls of both forms are about the question shown unless two lookups overlapped.

**`ViewsProofs`** (assuming `ReceivablesAssumption` and `ViewsAssumption`): `SavedInvoicesAreKept`, `CardsAddUp`, `ViewsTyped`,
`OnlyOvertakenGoBack`, for lists of any length and any number of saves, polls and payments.

* `PageInv`: the types with `IdInv`, `EditInv`, `SavedIsKept` and `CardsInv`. An edit changes the rows with the id or the number of
  the edited invoice and appends nothing, so `SavedIsKept` alone is not inductive: it needs that no id stands for two numbers, in any
  list, in an answer under way or in the modal (`IdInv`), and that the edited invoice is still in the list although a load may
  have replaced the list behind the modal (`EditInv`). `CardsInv`: the cards are those of the list shown.
* `ViewsInv`: an answer that was not overtaken is at least as new as what its view shows, and a page that is left has no calls.
* The merging loop (`FirstByNumber`) and the sums (`Total`) are recursive functions. That they exist, and what they compute for
  every list, is shown by induction over the positions of the list: `IndexInduction` takes the set of positions at which a fact fails and its
  least element (`WFMin`), so that no theorem with an operator as its parameter is needed. `MergeStep` and `FirstByNumberFacts`: the
  merged list has each number once, with the row that came first; `TotalSplits`: the sum over some
  buckets is what its parts add up to, which takes the page's last card apart into the API's two figures.

**Only model-checked.** The liveness properties `RecoverableRecovers`, `ChargeRestoresSubscription`, `EveryEventHandled`,
`EveryEventProcessed`, `EventuallyAcked` and `ButtonsComeBack`: fairness and ENABLED are out of the prover's reach.

## 5. Not modelled, and the plan

In this order:

1. `RecoverySystem`: webhook, operator and payment sync writing while the executor's steps run; which of its properties
   survive. `OperatorConsole` has the worker's writes to a workflow, not its steps.
2. Pure rules checked against reference definitions: classifier, next best action, drop-off score, aging of invoices in Go.

Not planned:

* the landing page, the documentation, the visual components and the theme: text, layout and animation without system state;
  the panels of the detail page that lay out a loaded workflow, exports and printouts;
* `doctor` and the terminal output of the CLI; the figures made up by the mock engine and the synthetic data set, beyond
  which rows and statuses they have;
* the dunning dispatch, which writes nothing, and the evaluation functions of `packages/ptp`, which no handler calls;
* the Razorpay provider (a payment link; what becomes of it comes in through the webhook), the ML service and the logistic
  model (floating-point statistics), the AI and notification providers (stateless calls whose success or failure the executor's
  model has), the queries of analytics, token signing, the simulator.
