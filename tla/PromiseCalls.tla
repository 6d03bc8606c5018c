---------------------------- MODULE PromiseCalls ----------------------------
(***************************************************************************)
(* Recovery calls and the promises customers make in them: the voice page  *)
(* (app/voice-recovery/page.tsx) and the promise tracker                   *)
(* (app/ptp-tracker/page.tsx) in two tabs of one browser, the browser's    *)
(* record of its dispatches (localStorage revive_voice_dispatches), and    *)
(* the API behind them (handlers/voice.go, handlers/ptp.go).               *)
(*                                                                         *)
(* A call is lodged three times, in promise_to_pay_records, in             *)
(* voice_recovery_calls and in the browser, under two identities; the      *)
(* pages merge the lists they get and read the browser's one before they   *)
(* wait for the API's.                                                     *)
(***************************************************************************)
EXTENDS Integers, Sequences, FiniteSets, SequencesExt

CONSTANTS
  Workflows,   \* workflows the dial form lists, of the API and synthetic
  NoPhone,     \* the workflows whose customer has no phone number
  NoEmail,     \* the workflows whose customer has no e-mail address
  Synthetic,   \* the workflows only the browser knows: their ids are no UUIDs
  KeepLocal,   \* dispatches the browser keeps (50)
  PageSize,    \* rows the API lists (50)
  MaxCalls,    \* bound on the calls dialled
  MaxEdits,    \* bound on the changes of the dial form
  MaxLoads,    \* bound on the pages' openings
  MaxWrites,   \* bound on Verify Paid and +3 Days
  MaxFaults    \* bound on failing requests and statements

ASSUME CallsAssumption ==
  /\ {NoPhone, NoEmail, Synthetic} \subseteq SUBSET Workflows
  /\ {"none", "default", "typed"} \cap Workflows = {}
  /\ {KeepLocal, PageSize} \subseteq Nat \ {0}
  /\ {MaxCalls, MaxEdits, MaxLoads, MaxWrites, MaxFaults} \subseteq Nat

VARIABLES
  db,       \* the tables of the API
  store,    \* the browser's dispatches, newest first
  voice,    \* the voice page
  tracker,  \* the promise tracker
  net,      \* requests that have not been answered
  lodged,   \* calls the browser has lodged so far, oldest first
  asked,    \* Verify Paid clicks on the promises the API lists
  clicks,   \* dials, changes of the form, page openings and writes so far
  faults    \* faults so far

vars == <<db, store, voice, tracker, net, lodged, asked, clicks, faults>>

Calls == 1..MaxCalls
None == "none"
Default == "default"   \* what the dial form holds before anything is chosen
Typed == "typed"       \* a number the operator typed

(* A call as the dial form describes it: the workflow it is linked to and  *)
(* the workflows whose customer's number and e-mail it carries.            *)
Form == [workflow : Workflows \cup {None}, phone : Workflows \cup {Default, Typed},
         email : Workflows \cup {Default}]
Dispatch == [sid : Calls, form : Form]

PromiseStatus == {"PENDING", "HONORED", "EXTENDED"}
RowId == [kind : {"local", "db"}, call : Calls] \cup {[kind |-> "demo", call |-> 0]}
PromiseRow == [id : RowId, status : PromiseStatus]
Sid == Calls \cup {0}  \* 0 stands for the demo calls
CallRow == [id : Sid]

DemoPromises == <<[id |-> [kind |-> "demo", call |-> 0], status |-> "PENDING"]>>
DemoCalls == <<[id |-> 0]>>

Message == [id : Nat, kind : {"dial", "calls", "promises", "verify", "extend"},
            pc : {"sent", "placed", "reply"}, ok : BOOLEAN, holds : BOOLEAN,
            form : Form, sid : Sid, row : RowId, local : Seq(Dispatch), asof : Nat,
            calls : Seq(CallRow), promises : Seq(PromiseRow)]

(* What a workflow's recovery_actions and audit_events say of a call.      *)
Entry == [workflow : Workflows, sid : Calls, form : Form]

Database == [placed : Nat, calls : SUBSET Calls,
             promises : [Calls -> PromiseStatus \cup {None}], honours : [Calls -> Nat],
             actions : SUBSET Entry, audits : SUBSET Entry]
VoicePage == [calling : BOOLEAN, form : Form, calls : Seq(CallRow), asof : Nat]
TrackerPage == [promises : Seq(PromiseRow), asof : Nat]
Controls == {"dials", "edits", "loads", "writes"}

TypeOK ==
  /\ db \in Database
  /\ store \in Seq(Dispatch) /\ Len(store) <= KeepLocal
  /\ voice \in VoicePage
  /\ tracker \in TrackerPage
  /\ net \subseteq Message
  /\ lodged \in Seq(Calls)
  /\ asked \in [Calls -> Nat]
  /\ clicks \in [Controls -> Nat]
  /\ clicks["dials"] <= MaxCalls /\ clicks["writes"] <= MaxWrites
  /\ faults \in Nat

EmptyForm == [workflow |-> None, phone |-> Default, email |-> Default]

Init ==
  /\ db = [placed |-> 0, calls |-> {},
           promises |-> [c \in Calls |-> None], honours |-> [c \in Calls |-> 0],
           actions |-> {}, audits |-> {}]
  /\ store = <<>>
  /\ voice = [calling |-> FALSE, form |-> EmptyForm, calls |-> DemoCalls, asof |-> 0]
  /\ tracker = [promises |-> DemoPromises, asof |-> 0]
  /\ net = {}
  /\ lodged = <<>>
  /\ asked = [c \in Calls |-> 0]
  /\ clicks = [what \in Controls |-> 0]
  /\ faults = 0

Click(what, bound) == clicks[what] < bound /\ clicks' = [clicks EXCEPT ![what] = @ + 1]
Fault == faults < MaxFaults /\ faults' = faults + 1

(* A number no request under way has.                                      *)
FreeId(under) == CHOOSE i \in 1..(Cardinality(under) + 1) : \A q \in under : q.id # i

(* A request issued among those under way; a load carries what the page    *)
(* read of the browser's dispatches before it asked the API.               *)
Request(under, kind, form, row, holds) ==
  [id |-> FreeId(under), kind |-> kind, pc |-> "sent", ok |-> FALSE, holds |-> holds,
   form |-> form, sid |-> 0, row |-> row, local |-> <<>>, asof |-> 0,
   calls |-> <<>>, promises |-> <<>>]
Load(under, kind, stored, seen, holds) ==
  [Request(under, kind, EmptyForm, DemoPromises[1].id, holds)
     EXCEPT !.local = stored, !.asof = Len(seen)]
Issue(q) == net' = net \cup {q}
-----------------------------------------------------------------------------
(* The voice page.                                                         *)

Open(kind) ==
  /\ Click("loads", MaxLoads)
  /\ Issue(Load(net, kind, store, lodged, FALSE))

(* The page's effect, up to its requests.                                  *)
OpenVoice ==
  /\ Open("calls")
  /\ UNCHANGED <<db, store, voice, tracker, lodged, asked, faults>>

(* The Dial button opens the modal unless a call is under way, and dialling *)
(* closes it: the form can be changed and submitted between calls.         *)
DialOffered == ~voice.calling

(* A bug variant of HandleSelectWorkflow: it fills empty fields only.      *)
HandleSelectWorkflowOnce(form, w) ==
  [workflow |-> w,
   phone |-> IF w \in NoPhone \/ form.phone # Default THEN form.phone ELSE w,
   email |-> IF w \in NoEmail \/ form.email # Default THEN form.email ELSE w]

(* The form after a workflow was selected: a field the workflow does not   *)
(* have keeps what the form held.                                          *)
HandleSelectWorkflow(form, w) ==
  [workflow |-> w, phone |-> IF w \in NoPhone THEN form.phone ELSE w,
   email |-> IF w \in NoEmail THEN form.email ELSE w]

(* The list of the modal; its empty choice only takes the link away.       *)
ChooseWorkflow(w) ==
  /\ DialOffered
  /\ Click("edits", MaxEdits)
  /\ voice' = [voice EXCEPT !.form = IF w = None THEN [voice.form EXCEPT !.workflow = None]
                                     ELSE HandleSelectWorkflow(voice.form, w)]
  /\ UNCHANGED <<db, store, tracker, net, lodged, asked, faults>>

TypePhone ==
  /\ DialOffered
  /\ Click("edits", MaxEdits)
  /\ voice' = [voice EXCEPT !.form.phone = Typed]
  /\ UNCHANGED <<db, store, tracker, net, lodged, asked, faults>>

(* triggerCallSimulation, up to its request.                               *)
TriggerCallSimulation ==
  /\ DialOffered
  /\ Click("dials", MaxCalls)
  /\ voice' = [voice EXCEPT !.calling = TRUE]
  /\ Issue(Request(net, "dial", voice.form, DemoPromises[1].id, TRUE))
  /\ UNCHANGED <<db, store, tracker, lodged, asked, faults>>
-----------------------------------------------------------------------------
(* The promise tracker.                                                    *)

OpenTracker ==
  /\ Open("promises")
  /\ UNCHANGED <<db, store, voice, tracker, lodged, asked, faults>>

(* The rows with their buttons: all but the honoured ones.                 *)
Offered == {r \in ToSet(tracker.promises) : r.status # "HONORED"}

Write(kind, r) ==
  /\ r \in Offered
  /\ Click("writes", MaxWrites)
  /\ Issue(Request(net, kind, EmptyForm, r.id, FALSE))

(* verifyPayment and extendPromise: no row is disabled meanwhile.          *)
VerifyPayment(r) ==
  /\ Write("verify", r)
  /\ asked' = [c \in Calls |->
       asked[c] + (IF r.id = [kind |-> "db", call |-> c] THEN 1 ELSE 0)]
  /\ UNCHANGED <<db, store, voice, tracker, lodged, faults>>

ExtendPromise(r) ==
  /\ Write("extend", r)
  /\ UNCHANGED <<db, store, voice, tracker, lodged, asked, faults>>
-----------------------------------------------------------------------------
(* The API.                                                                *)

Step(q, r) == net' = (net \ {q}) \cup {r}
Answer(q, ok) == Step(q, [q EXCEPT !.pc = "reply", !.ok = ok])

(* A statement whose error nobody looks at.                                *)
Lodge(new) == \/ db' = new /\ UNCHANGED faults
              \/ db' = db /\ Fault

(* InitiateCall of the provider; only its error is answered as one.        *)
InitiateCall(q) ==
  /\ q.kind = "dial" /\ q.pc = "sent"
  /\ \/ /\ db' = [db EXCEPT !.placed = @ + 1]
        /\ Step(q, [q EXCEPT !.pc = "placed", !.sid = db.placed + 1])
        /\ UNCHANGED faults
     \/ /\ Fault
        /\ Answer(q, FALSE)
        /\ UNCHANGED db
  /\ UNCHANGED <<store, voice, tracker, lodged, asked, clicks>>

(* The workflows of a customer with the number or the e-mail of a call.    *)
Reached(form) == {w \in Workflows : \/ form.phone = w /\ w \notin NoPhone
                                    \/ form.email = w /\ w \notin NoEmail}

(* The workflow a call is lodged with: the chosen one if the API knows it; *)
(* for a call without link the newest of a customer it reached.            *)
LodgedWith(form) == (IF form.workflow # None THEN {form.workflow} ELSE Reached(form)) \ Synthetic

Entries(q) ==
  LET with == LodgedWith(q.form)
  IN IF with = {} THEN {{}}
     ELSE {{[workflow |-> w, sid |-> q.sid, form |-> q.form]} : w \in with}

(* Four inserts, each of which may fail unnoticed: the promise, which every *)
(* simulated and every Twilio call yields, the call, and the action and the *)
(* audit entry of the workflow the call is lodged with.                    *)
LodgeCall(q) ==
  /\ q.pc = "placed"
  /\ \E failed \in SUBSET {"promise", "call", "action", "audit"}, entries \in Entries(q) :
       /\ IF failed = {} THEN UNCHANGED faults ELSE Fault
       /\ db' = [db EXCEPT
            !.promises[q.sid] = IF "promise" \in failed THEN @ ELSE "PENDING",
            !.calls = IF "call" \in failed THEN @ ELSE @ \cup {q.sid},
            !.actions = IF "action" \in failed THEN @ ELSE @ \cup entries,
            !.audits = IF "audit" \in failed THEN @ ELSE @ \cup entries]
  /\ Answer(q, TRUE)
  /\ UNCHANGED <<store, voice, tracker, lodged, asked, clicks>>

(* A finite set of numbers in ascending order.                             *)
Ascending(S) ==
  [k \in 1..Cardinality(S) |->
     CHOOSE i \in S : Cardinality({j \in S : j <= i}) = k]

(* The newest rows of a table, newest first.                               *)
Newest(table) ==
  LET rows == Reverse(Ascending(table))
  IN SubSeq(rows, 1, Min({Len(rows), PageSize}))

(* GET /v1/voice and GET /v1/ptp.                                          *)
ServeList(q) ==
  LET calls == Newest(db.calls)
      promises == Newest({c \in Calls : db.promises[c] # None})
  IN /\ q.pc = "sent"
     /\ \/ /\ q.kind = "calls"
           /\ Step(q, [q EXCEPT !.pc = "reply", !.ok = TRUE,
                !.calls = [i \in DOMAIN calls |-> [id |-> calls[i]]]])
        \/ /\ q.kind = "promises"
           /\ Step(q, [q EXCEPT !.pc = "reply", !.ok = TRUE,
                !.promises = [i \in DOMAIN promises |->
                                [id |-> [kind |-> "db", call |-> promises[i]],
                                 status |-> db.promises[promises[i]]]]])
     /\ UNCHANGED <<db, store, voice, tracker, lodged, asked, clicks, faults>>

(* The promises an UPDATE by id finds.                                     *)
Matches(q) == {c \in Calls : q.row = [kind |-> "db", call |-> c] /\ db.promises[c] # None}

(* A bug variant of ServeVerify: the promise is looked up by its customer. *)
ServeVerifyByContact(q) ==
  /\ q.kind = "verify" /\ q.pc = "sent"
  /\ Lodge([db EXCEPT !.promises = [c \in Calls |-> IF @[c] # None THEN "HONORED" ELSE None]])
  /\ Answer(q, TRUE)
  /\ UNCHANGED <<store, voice, tracker, lodged, asked, clicks>>

(* POST /v1/ptp/verify: the UPDATE whatever the status is, and for a       *)
(* promise it found whose number is some workflow's the recovery_actions   *)
(* row there; always answered as honoured.                                 *)
ServeVerify(q) ==
  /\ q.kind = "verify" /\ q.pc = "sent"
  /\ \E known \in SUBSET Matches(q) : Lodge([db EXCEPT
       !.promises = [c \in Calls |-> IF c \in Matches(q) THEN "HONORED" ELSE db.promises[c]],
       !.honours = [c \in Calls |-> db.honours[c] + (IF c \in known THEN 1 ELSE 0)]])
  /\ Answer(q, TRUE)
  /\ UNCHANGED <<store, voice, tracker, lodged, asked, clicks>>

(* POST /v1/ptp/extend, likewise.                                          *)
ServeExtend(q) ==
  /\ q.kind = "extend" /\ q.pc = "sent"
  /\ Lodge([db EXCEPT !.promises = [c \in Calls |->
                          IF c \in Matches(q) THEN "EXTENDED" ELSE db.promises[c]]])
  /\ Answer(q, TRUE)
  /\ UNCHANGED <<store, voice, tracker, lodged, asked, clicks>>

Serve(q) ==
  \/ InitiateCall(q)
  \/ LodgeCall(q)
  \/ ServeList(q)
  \/ ServeVerify(q)
  \/ ServeExtend(q)

(* The connection fails before the request arrives or after its answer.    *)
Disconnect(q) ==
  /\ q.pc = "sent" \/ (q.pc = "reply" /\ q.ok)
  /\ Fault
  /\ Answer(q, FALSE)
  /\ UNCHANGED <<db, store, voice, tracker, lodged, asked, clicks>>
-----------------------------------------------------------------------------
(* Answers arriving at the pages, in any order.                            *)

(* A bug variant of FirstSeen: the lists are only put together.            *)
AllSeen(list) == list

(* The merging loops: of the entries with one identity, the first.         *)
FirstSeen(list) ==
  LET first == Ascending({i \in DOMAIN list : \A j \in 1..(i - 1) : list[j].id # list[i].id})
  IN [k \in DOMAIN first |-> list[first[k]]]

(* The rest of fetchVoiceData: the browser's calls, the API's unless the   *)
(* load failed, the demo calls; a load a handler waits for ends it.        *)
LandCalls(q) ==
  LET local == [i \in DOMAIN q.local |-> [id |-> q.local[i].sid]]
  IN /\ q.kind = "calls" /\ q.pc = "reply"
     /\ voice' = [voice EXCEPT
          !.calls = FirstSeen(local \o (IF q.ok THEN q.calls ELSE <<>>) \o DemoCalls),
          !.asof = q.asof,
          !.calling = voice.calling /\ ~q.holds]
     /\ net' = net \ {q}
     /\ UNCHANGED <<db, store, tracker, lodged, asked, clicks, faults>>

(* A promise as the tracker derives it from a dispatch: under an identity  *)
(* of its own and always pending.                                          *)
LocalPromise(d) == [id |-> [kind |-> "local", call |-> d.sid], status |-> "PENDING"]

(* A bug variant of LandPromises: without the API only demo rows are left. *)
LandPromisesOnline(q) ==
  LET local == [i \in DOMAIN q.local |-> LocalPromise(q.local[i])]
  IN /\ q.kind = "promises" /\ q.pc = "reply"
     /\ tracker' = [promises |-> IF q.ok THEN FirstSeen(local \o q.promises \o DemoPromises)
                                 ELSE DemoPromises,
                    asof |-> q.asof]
     /\ net' = net \ {q}
     /\ UNCHANGED <<db, store, voice, lodged, asked, clicks, faults>>

(* The rest of fetchPTP.                                                   *)
LandPromises(q) ==
  LET local == [i \in DOMAIN q.local |-> LocalPromise(q.local[i])]
  IN /\ q.kind = "promises" /\ q.pc = "reply"
     /\ tracker' = [promises |-> FirstSeen(local \o (IF q.ok THEN q.promises ELSE <<>>)
                                             \o DemoPromises),
                    asof |-> q.asof]
     /\ net' = net \ {q}
     /\ UNCHANGED <<db, store, voice, lodged, asked, clicks, faults>>

(* The browser's dispatches with one more, cut to the newest ones.         *)
Lodged(d) == SubSeq(<<d>> \o store, 1, Min({Len(store) + 1, KeepLocal}))

(* The rest of triggerCallSimulation: the call is lodged in the browser    *)
(* and the page reloaded; an error ends the handler.                       *)
DialAnswered(q) ==
  /\ q.kind = "dial" /\ q.pc = "reply"
  /\ IF q.ok
     THEN LET d == [sid |-> q.sid, form |-> q.form]
          IN /\ store' = Lodged(d)
             /\ lodged' = Append(lodged, q.sid)
             /\ net' = (net \ {q}) \cup {Load(net \ {q}, "calls", Lodged(d), lodged', TRUE)}
             /\ UNCHANGED voice
     ELSE /\ voice' = [voice EXCEPT !.calling = FALSE]
          /\ net' = net \ {q}
          /\ UNCHANGED <<store, lodged>>
  /\ UNCHANGED <<db, tracker, asked, clicks, faults>>

(* The rest of verifyPayment and extendPromise: a success reloads.         *)
WriteAnswered(q) ==
  /\ q.kind \in {"verify", "extend"} /\ q.pc = "reply"
  /\ net' = (net \ {q}) \cup
       (IF q.ok THEN {Load(net \ {q}, "promises", store, lodged, FALSE)} ELSE {})
  /\ UNCHANGED <<db, store, voice, tracker, lodged, asked, clicks, faults>>

Land(q) ==
  \/ LandCalls(q)
  \/ LandPromises(q)
  \/ DialAnswered(q)
  \/ WriteAnswered(q)
-----------------------------------------------------------------------------
Operator ==
  \/ OpenVoice
  \/ OpenTracker
  \/ \E w \in Workflows \cup {None} : ChooseWorkflow(w)
  \/ TypePhone
  \/ TriggerCallSimulation
  \/ \E r \in ToSet(tracker.promises) : VerifyPayment(r) \/ ExtendPromise(r)

Next ==
  \/ Operator
  \/ \E q \in net : Serve(q) \/ Land(q) \/ Disconnect(q)

Spec == Init /\ [][Next]_vars
-----------------------------------------------------------------------------
(* The calls lodged when a page's load began which the browser still had.  *)
Kept(asof) == {lodged[i] : i \in {j \in 1..asof : asof - j < KeepLocal}}

(* A commitment a customer made in one of the browser's latest calls is in *)
(* the tracker once a load begun after the call has landed, even when the  *)
(* API did not answer or failed to store the promise.                      *)
PromiseNotForgotten ==
  \A c \in Kept(tracker.asof) :
    [kind |-> "local", call |-> c] \in {r.id : r \in ToSet(tracker.promises)}

(* The voice page shows each of the browser's latest calls exactly once,   *)
(* although the API may list it too, and no call twice.                    *)
CallShownOnce ==
  /\ Kept(voice.asof) \subseteq {r.id : r \in ToSet(voice.calls)}
  /\ \A i, j \in DOMAIN voice.calls : voice.calls[i].id = voice.calls[j].id => i = j

(* A form linked to a workflow carries its customer's number, unless the   *)
(* operator typed one, and e-mail: what was chosen before shows through    *)
(* only in a field this customer does not have.                            *)
FilledIn(form) ==
  LET w == form.workflow
  IN w # None => /\ w \in NoPhone \/ form.phone \in {w, Typed}
                 /\ w \in NoEmail \/ form.email = w

(* The calls among a workflow's actions, which the executor counts as its  *)
(* attempts, and in its audit trail are the workflow's own: chosen for it, *)
(* or chosen for none and made to its customer's number or e-mail, however *)
(* the operator changed the selection before and whatever was lost. The    *)
(* same holds of the browser's dispatches, which the detail page adds.     *)
CallIsForItsWorkflow ==
  /\ \A e \in db.actions \cup db.audits :
       /\ FilledIn(e.form)
       /\ \/ e.form.workflow = e.workflow
          \/ e.form.workflow = None /\ e.workflow \in Reached(e.form)
  /\ \A d \in ToSet(store) : FilledIn(d.form)

(* A promise is honoured only if the operator verified it, and it has no   *)
(* more recovery actions than it was verified: verifying the copy that     *)
(* only the browser knows, or a demo row, changes no promise.              *)
HonouredWasVerified ==
  \A c \in Calls :
    /\ db.promises[c] = "HONORED" => asked[c] > 0
    /\ db.honours[c] <= asked[c]

-----------------------------------------------------------------------------
(* The inductive invariants behind these properties.                       *)

Dialling == {q \in net : q.kind = "dial" /\ q.pc = "sent"}
Verifying(c) ==
  {q \in net : q.kind = "verify" /\ q.pc = "sent" /\ q.row = [kind |-> "db", call |-> c]}

(* The requests under way: only dials are placed, under the provider's     *)
(* number.                                                                 *)
RequestInv ==
  /\ IsFiniteSet(net)
  /\ \A q \in net :
       /\ q.pc = "placed" => q.kind = "dial"
       /\ q.kind = "dial" /\ (q.pc = "placed" \/ (q.pc = "reply" /\ q.ok)) => q.sid \in Calls

(* Every call placed or about to be was dialled, and every promise         *)
(* honoured or about to be was asked about.                                *)
CountInv ==
  /\ db.placed + Cardinality(Dialling) <= clicks["dials"]
  /\ \A c \in Calls :
       /\ db.honours[c] + Cardinality(Verifying(c)) <= asked[c]
       /\ db.promises[c] = "HONORED" => asked[c] > 0

(* Every form and every call is filled in for the workflow it is linked to. *)
FormInv ==
  /\ FilledIn(voice.form)
  /\ \A q \in net : FilledIn(q.form)
  /\ CallIsForItsWorkflow

(* A list of dispatches is what the browser kept of the first n calls.     *)
Snapshot(list, n) ==
  /\ n <= Len(lodged)
  /\ \A j \in 1..n :
       n - j < KeepLocal => n + 1 - j <= Len(list) /\ list[n + 1 - j].sid = lodged[j]

(* What the browser keeps and what the loads under way have read of it.    *)
SnapshotInv ==
  /\ Snapshot(store, Len(lodged))
  /\ \A q \in net : q.kind \in {"calls", "promises"} => Snapshot(q.local, q.asof)

(* What the pages show.                                                    *)
ShownInv ==
  /\ tracker.asof <= Len(lodged) /\ PromiseNotForgotten
  /\ voice.asof <= Len(lodged) /\ CallShownOnce
=============================================================================
