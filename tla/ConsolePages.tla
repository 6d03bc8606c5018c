---------------------------- MODULE ConsolePages ----------------------------
(***************************************************************************)
(* The pages of the web application with which the operator creates and    *)
(* sends things - merchant, checkout-recovery, developer - and the way in  *)
(* and out of the console (login, Sidebar), in one browser tab.  One page  *)
(* is mounted at a time; leaving it forgets its state, but not the calls   *)
(* it has made: their handlers still run, may call again or redirect, and  *)
(* set nothing on the page that is gone.  Calls overlap and are answered   *)
(* in any order.  Where the API gives no answer, a page makes one up.      *)
(***************************************************************************)
EXTENDS Integers, Sequences, FiniteSets, SequencesExt

CONSTANTS
  Questions,   \* what a simulation or a lookup can be about
  MaxVisits,   \* bound on the pages opened
  MaxClicks,   \* bound on the refreshes, forms and buttons used
  MaxChanges,  \* bound on the changes made elsewhere
  MaxFaults,   \* bound on the calls that fail
  MaxFlight    \* bound on the calls under way

ASSUME ConsoleAssumption ==
  /\ Questions \subseteq Nat \ {0}
  /\ {MaxVisits, MaxClicks, MaxChanges, MaxFaults} \subseteq Nat
  /\ MaxFlight \in Nat \ {0, 1}

VARIABLES
  at,       \* the page the tab shows
  visit,    \* how many pages were opened: the number of the one shown
  view,     \* its state
  user,     \* the one the Sidebar shows, if any
  calls,    \* the calls under way, by kind
  db,       \* the API's data; every change gives it a new version
  session,  \* localStorage's revive_user, and the redirect of a login
  told,     \* the subscription reported last as created: its version, and the
            \* page that asked for it
  tally     \* clicks, changes and faults so far

vars == <<at, visit, view, user, calls, db, session, told, tally>>

(* The analytics page stands for every page without a form.                *)
Pages == {"login", "analytics", "merchant", "checkout", "developer"}
Views == {"merchant", "checkout"}  \* the pages that load at once
Forms == {"newSub", "newLink"}
Asked == {"simulate", "lookup"}
Ops == Views \cup Forms \cup Asked \cup {"recover", "keys", "newKey", "login"}
Tabs == {"quickstart", "apikeys", "simulator", "customerMemory"}

(* What an answer or a page holds of the API's data: the version, and the  *)
(* status of the one checkout session followed here.  Demo stands for      *)
(* everything the application makes up itself, Empty for an answer in      *)
(* which the API leaves out the rows because a query failed unnoticed.     *)
CartStatus == {"DROPPED_OFF", "RECOVERY_DISPATCHED", "RECOVERED"}
Data == [v : Int, cart : CartStatus \cup {"none"}]
Nothing == [v |-> -2, cart |-> "none"]
Demo == [v |-> -1, cart |-> "none"]
Empty == [v |-> -3, cart |-> "none"]

Call == [visit : Nat, pc : {"sent", "served", "refused", "lost"}, data : Data,
         then : Forms \cup {"none", "cart", "demo"}, mark : Int]
NewCall(n, then, mark) ==
  [visit |-> n, pc |-> "sent", data |-> Nothing, then |-> then, mark |-> mark]

(* The initial state of a page.  Question and answer are those of the two  *)
(* forms of the developer page, mixed when two lookups overlapped.         *)
Opened(p) ==
  [data |-> IF p = "checkout" THEN Demo ELSE Nothing, busy |-> {}, tab |-> "quickstart",
   keys |-> [v |-> -1, local |-> 0], secret |-> "none",
   question |-> [op \in Asked |-> 0], answer |-> [op \in Asked |-> 0], mixed |-> FALSE]

View == [data : Data, busy : SUBSET (Forms \cup {"simulate"}), tab : Tabs,
         keys : [v : Int, local : Nat], secret : {"none", "server", "local"},
         question : [Asked -> {0} \cup Questions], answer : [Asked -> {0} \cup Questions],
         mixed : BOOLEAN]

TypeOK ==
  /\ at \in Pages /\ visit \in 1..(MaxVisits + 1)
  /\ view \in View
  /\ user \in BOOLEAN
  /\ calls \in [Ops -> Seq(Call)]
  /\ db \in [v : Nat, cart : CartStatus, since : Nat, from : Int]
  /\ session \in [user : {"none", "server", "local"}, redirect : BOOLEAN]
  /\ told \in [v : Int, visit : Nat]
  /\ tally \in [clicks : 0..MaxClicks, changes : 0..MaxChanges, faults : 0..MaxFaults]

Init ==
  /\ at = "login" /\ visit = 1
  /\ db = [v |-> 0, cart |-> "DROPPED_OFF", since |-> 0, from |-> 0]
  /\ view = Opened("login")
  /\ user = FALSE
  /\ calls = [op \in Ops |-> <<>>]
  /\ session = [user |-> "none", redirect |-> FALSE]
  /\ told = [v |-> 0, visit |-> 0]
  /\ tally = [clicks |-> 0, changes |-> 0, faults |-> 0]

InFlight(cs) == Cardinality(UNION {{op} \X DOMAIN cs[op] : op \in Ops})
Send(op, c) == InFlight(calls) < MaxFlight /\ calls' = [calls EXCEPT ![op] = Append(@, c)]
Click == tally.clicks < MaxClicks /\ tally' = [tally EXCEPT !.clicks = @ + 1]
Fault == tally.faults < MaxFaults /\ tally' = [tally EXCEPT !.faults = @ + 1]
-----------------------------------------------------------------------------
(* Navigation.                                                             *)

(* The calls that matter when their page is gone: those that write, and    *)
(* the reload a form's handler waits for.  The answers of the others set   *)
(* the state of a page that is not there.  The order of calls is of no     *)
(* consequence: they are answered in any.                                  *)
Outlives(op) ==
  LET kept == SetToSeq({i \in DOMAIN calls[op] :
                          \/ op \in Forms \cup {"recover", "newKey", "login"}
                          \/ calls[op][i].then \in Forms})
  IN [k \in DOMAIN kept |-> calls[op][kept[k]]]

(* A page is mounted in the place of another, and loads.  The Sidebar is   *)
(* beside every page but login; it reads the user at every navigation, and *)
(* forgets none until it is mounted anew.                                  *)
Mount(p) ==
  LET kept == [op \in Ops |-> Outlives(op)]
      loads == {p} \cap Views
  IN /\ p # at
     /\ visit <= MaxVisits
     /\ InFlight(kept) + Cardinality(loads) <= MaxFlight
     /\ at' = p /\ visit' = visit + 1 /\ view' = Opened(p)
     /\ calls' = [op \in Ops |-> IF op \in loads THEN Append(kept[op], NewCall(visit + 1, "none", 0))
                                 ELSE kept[op]]
     /\ user' = (session'.user # "none" \/ (user /\ at # "login"))

Navigate(p) == UNCHANGED <<db, session, told, tally>> /\ Mount(p)

(* The redirect of a login, 400 ms after it was answered, from wherever    *)
(* the tab is by then.                                                     *)
Redirect ==
  /\ session.redirect
  /\ session' = [session EXCEPT !.redirect = FALSE]
  /\ UNCHANGED <<db, told, tally>>
  /\ IF at # "analytics" THEN Mount("analytics")
     ELSE UNCHANGED <<at, visit, view, user, calls>>

(* handleLogout.  A login still under way may sign in once more.           *)
HandleLogout ==
  /\ at # "login" /\ user
  /\ session' = [session EXCEPT !.user = "none"]
  /\ Mount("login")
  /\ UNCHANGED <<db, told, tally>>
-----------------------------------------------------------------------------
(* What the operator does on a page.                                       *)
calling == <<at, visit, user, db, session, told>>

(* The Refresh buttons of the merchant page and of the list of keys.       *)
RefreshDashboard ==
  /\ at = "merchant"
  /\ Click
  /\ Send("merchant", NewCall(visit, "none", 0))
  /\ UNCHANGED <<calling, view>>

RefreshKeys ==
  /\ at = "developer" /\ view.tab = "apikeys"
  /\ Click
  /\ Send("keys", NewCall(visit, "none", 0))
  /\ UNCHANGED <<calling, view>>

(* handleCreateSubscription and handleCreateSandboxLink, up to the await:  *)
(* once the page has data, real or not, it knows the merchant.             *)
HandleCreate(op) ==
  /\ at = "merchant" /\ view.data # Nothing /\ op \notin view.busy
  /\ Click
  /\ view' = [view EXCEPT !.busy = @ \cup {op}]
  /\ Send(op, NewCall(visit, "none", 0))
  /\ UNCHANGED calling

(* A bug variant of DispatchOffered: every row has the button.             *)
DispatchOfferedAlways(row) == row = "demo" \/ view.data.v >= 0

(* The rows with a Dispatch Link button: demo sessions have one, and the   *)
(* real one unless the list shows it as recovered.                         *)
DispatchOffered(row) ==
  row = "demo" \/ view.data.cart \in CartStatus \ {"RECOVERED"}

(* dispatchRecovery: nothing is disabled meanwhile.                        *)
DispatchRecovery(row) ==
  /\ at = "checkout" /\ DispatchOffered(row)
  /\ Click
  /\ Send("recover", NewCall(visit, row, view.data.v))
  /\ UNCHANGED <<calling, view>>

(* The tabs of the developer page; the keys are fetched on theirs.         *)
SelectTab(t) ==
  /\ at = "developer" /\ view.tab # t
  /\ view' = [view EXCEPT !.tab = t]
  /\ IF t = "apikeys" THEN Send("keys", NewCall(visit, "none", 0)) ELSE UNCHANGED calls
  /\ UNCHANGED <<calling, tally>>

HandleCreateKey ==
  /\ at = "developer" /\ view.tab = "apikeys"
  /\ Click
  /\ Send("newKey", NewCall(visit, "none", 0))
  /\ UNCHANGED <<calling, view>>

(* A bug variant of HandleRunSimulation: the button stays enabled.         *)
HandleRunSimulationAgain(q) ==
  /\ at = "developer" /\ view.tab = "simulator"
  /\ Click
  /\ view' = [view EXCEPT !.question["simulate"] = q, !.answer["simulate"] = 0]
  /\ Send("simulate", NewCall(visit, "none", q))
  /\ UNCHANGED calling

(* handleRunSimulation: the form can be changed meanwhile, the button not  *)
(* be used.  The result shown before is cleared.                           *)
HandleRunSimulation(q) ==
  /\ at = "developer" /\ view.tab = "simulator" /\ "simulate" \notin view.busy
  /\ Click
  /\ view' = [view EXCEPT !.busy = @ \cup {"simulate"}, !.question["simulate"] = q,
                          !.answer["simulate"] = 0]
  /\ Send("simulate", NewCall(visit, "none", q))
  /\ UNCHANGED calling

(* handleLookupCustomer: a second lookup may start before the first ends.  *)
HandleLookupCustomer(q) ==
  /\ at = "developer" /\ view.tab = "customerMemory"
  /\ Click
  /\ view' = [view EXCEPT !.question["lookup"] = q, !.answer["lookup"] = 0,
               !.mixed = @ \/ \E i \in DOMAIN calls["lookup"] : calls["lookup"][i].visit = visit]
  /\ Send("lookup", NewCall(visit, "none", q))
  /\ UNCHANGED calling

HandleLogin ==
  /\ at = "login" /\ \A i \in DOMAIN calls["login"] : calls["login"][i].visit # visit
  /\ Click
  /\ Send("login", NewCall(visit, "none", 0))
  /\ UNCHANGED <<calling, view>>
-----------------------------------------------------------------------------
(* The API, and what happens meanwhile.                                    *)

(* A customer's checkout session is tracked in a new status.               *)
TrackSession ==
  /\ tally.changes < MaxChanges
  /\ tally' = [tally EXCEPT !.changes = @ + 1]
  /\ \E s \in CartStatus \ {db.cart} :
       db' = [db EXCEPT !.v = @ + 1, !.cart = s, !.since = db.v + 1]
  /\ UNCHANGED <<at, visit, view, user, calls, session, told>>

(* The handlers that write: a subscription, a sandbox link or a key is     *)
(* inserted; a recovery sets the status of the session with the token,     *)
(* whatever it is.                                                         *)
Written(op, c) ==
  IF op \in Forms \cup {"newKey"} THEN [db EXCEPT !.v = @ + 1]
  ELSE IF op = "recover" /\ c.then = "cart"
  THEN [db EXCEPT !.v = @ + 1, !.cart = "RECOVERY_DISPATCHED", !.since = db.v + 1, !.from = c.mark]
  ELSE db

Answer(op, i, d) ==
  calls' = [calls EXCEPT ![op][i] = [calls[op][i] EXCEPT !.pc = "served", !.data = d]]

(* The API serves a call.  Where it ignores a statement's error it answers *)
(* as if nothing had happened: a load without the rows, a recovery that    *)
(* has set no status.                                                      *)
Serve(op, i) ==
  /\ calls[op][i].pc = "sent"
  /\ \/ /\ db' = Written(op, calls[op][i])
        /\ Answer(op, i, [v |-> db'.v, cart |-> db'.cart])
        /\ UNCHANGED tally
     \/ /\ op \in Views \cup {"recover"} /\ Fault
        /\ Answer(op, i, Empty)
        /\ UNCHANGED db
  /\ UNCHANGED <<at, visit, view, user, session, told>>

(* A call is refused, or lost before or after it was served.               *)
Fail(op, i) ==
  /\ calls[op][i].pc \in {"sent", "served"}
  /\ Fault
  /\ \E pc \in {"lost"} \cup (IF calls[op][i].pc = "sent" THEN {"refused"} ELSE {}) :
       calls' = [calls EXCEPT ![op][i] = [calls[op][i] EXCEPT !.pc = pc]]
  /\ UNCHANGED <<at, visit, view, user, db, session, told>>
-----------------------------------------------------------------------------
(* The rest of the handlers, when an answer or a failure arrives.  A page  *)
(* that is gone takes no answer.                                           *)
Here(c) == c.visit = visit
Without(op, i) == [calls EXCEPT ![op] = RemoveAt(@, i)]
Then(op, i, next, c) ==
  calls' = IF Here(c) \/ c.then # "none" THEN [Without(op, i) EXCEPT ![next] = Append(@, c)]
           ELSE Without(op, i)

(* What a load makes a page show: a checkout list that is refused leaves   *)
(* what is shown.                                                          *)
Loaded(op, c) ==
  IF c.pc = "served" THEN c.data
  ELSE IF op = "checkout" /\ c.pc = "refused" THEN view.data ELSE Demo

(* fetchDashboard and fetchCheckoutData.  The reload after a form ends its *)
(* handler: a subscription is reported and the button enabled.             *)
LandView(op, i) ==
  LET c == calls[op][i]
  IN /\ c.pc # "sent"
     /\ view' = IF Here(c)
                THEN [view EXCEPT !.data = Loaded(op, c), !.busy = @ \ {c.then}]
                ELSE view
     /\ calls' = Without(op, i)
     /\ told' = IF c.then = "newSub" THEN [v |-> c.mark, visit |-> c.visit] ELSE told
     /\ UNCHANGED <<at, visit, user, db, session, tally>>

(* A bug variant of LandForm: the creation is reported at once, and the    *)
(* list left as it is.                                                     *)
LandFormAtOnce(op, i) ==
  LET c == calls[op][i]
  IN /\ c.pc # "sent"
     /\ calls' = Without(op, i)
     /\ told' = IF op = "newSub" /\ c.pc = "served"
                THEN [v |-> c.data.v, visit |-> c.visit] ELSE told
     /\ view' = [view EXCEPT !.busy = @ \ {op}]
     /\ UNCHANGED <<at, visit, user, db, session, tally>>

LandForm(op, i) ==
  LET c == calls[op][i]
  IN /\ \/ /\ c.pc = "served"
           /\ Then(op, i, "merchant", NewCall(c.visit, op, c.data.v))
           /\ UNCHANGED view
        \/ /\ c.pc \in {"refused", "lost"}
           /\ calls' = Without(op, i)
           /\ view' = IF Here(c) THEN [view EXCEPT !.busy = @ \ {op}] ELSE view
     /\ UNCHANGED <<at, visit, user, db, session, told, tally>>

LandRecover(i) ==
  LET c == calls["recover"][i]
  IN /\ \/ c.pc = "served" /\ Then("recover", i, "checkout", NewCall(c.visit, "none", 0))
        \/ c.pc \in {"refused", "lost"} /\ calls' = Without("recover", i)
     /\ UNCHANGED <<at, visit, view, user, db, session, told, tally>>

(* fetchKeys: the list is the API's, which knows no local key.             *)
LandKeys(i) ==
  LET c == calls["keys"][i]
  IN /\ c.pc # "sent"
     /\ view' = IF Here(c) /\ c.pc = "served"
                THEN [view EXCEPT !.keys = [v |-> c.data.v, local |-> 0]] ELSE view
     /\ calls' = Without("keys", i)
     /\ UNCHANGED <<at, visit, user, db, session, told, tally>>

LocalKey == [view EXCEPT !.keys.local = @ + 1, !.secret = "local"]

(* handleCreateKey: the secret shown is the API's, or one made up here     *)
(* when there was no answer to that effect.                                *)
LandNewKey(i) ==
  LET c == calls["newKey"][i]
  IN /\ \/ /\ c.pc = "served"
           /\ Then("newKey", i, "keys", NewCall(c.visit, "none", 0))
           /\ view' = IF Here(c) THEN [view EXCEPT !.secret = "server"] ELSE view
        \/ /\ c.pc \in {"refused", "lost"}
           /\ calls' = Without("newKey", i)
           /\ view' = IF Here(c) THEN LocalKey ELSE view
     /\ UNCHANGED <<at, visit, user, db, session, told, tally>>

(* The result of a simulation or a lookup, the API's or a local one.       *)
LandAnswer(op, i) ==
  LET c == calls[op][i]
  IN /\ c.pc # "sent"
     /\ view' = IF Here(c)
                THEN [view EXCEPT !.answer[op] = c.mark, !.busy = @ \ {op}]
                ELSE view
     /\ calls' = Without(op, i)
     /\ UNCHANGED <<at, visit, user, db, session, told, tally>>

(* The rest of handleLogin: whatever the answer, the tab is signed in and  *)
(* will be redirected.                                                     *)
LandLogin(i) ==
  LET c == calls["login"][i]
  IN /\ c.pc # "sent"
     /\ session' = [session EXCEPT !.user = IF c.pc = "served" THEN "server" ELSE "local",
                                   !.redirect = TRUE]
     /\ calls' = Without("login", i)
     /\ UNCHANGED <<at, visit, view, user, db, told, tally>>

Land(op, i) ==
  \/ op \in Views /\ LandView(op, i)
  \/ op \in Forms /\ LandForm(op, i)
  \/ op = "recover" /\ LandRecover(i)
  \/ op = "keys" /\ LandKeys(i)
  \/ op = "newKey" /\ LandNewKey(i)
  \/ op \in Asked /\ LandAnswer(op, i)
  \/ op = "login" /\ LandLogin(i)

Operator ==
  \/ \E p \in Pages : Navigate(p)
  \/ HandleLogin
  \/ HandleLogout
  \/ RefreshDashboard
  \/ RefreshKeys
  \/ \E op \in Forms : HandleCreate(op)
  \/ \E row \in {"cart", "demo"} : DispatchRecovery(row)
  \/ \E t \in Tabs : SelectTab(t)
  \/ HandleCreateKey
  \/ \E q \in Questions : HandleRunSimulation(q)
  \/ \E q \in Questions : HandleLookupCustomer(q)

Next ==
  \/ Operator
  \/ Redirect
  \/ TrackSession
  \/ \E op \in Ops : \E i \in DOMAIN calls[op] : Serve(op, i)
  \/ \E op \in Ops : \E i \in DOMAIN calls[op] : Fail(op, i)
  \/ \E op \in Ops : \E i \in DOMAIN calls[op] : Land(op, i)

Spec == Init /\ [][Next]_vars
-----------------------------------------------------------------------------
(* Data the API once gave, or none of its data: data as new as the status  *)
(* of the session have that status.                                        *)
Seen(d) == d.v <= db.v /\ (d.v >= db.since => d.cart = db.cart)

(* What is known of a call under way, from the state it was made in to the *)
(* one its answer arrives in: the reload after a form reads what the form  *)
(* wrote, unless it reads no rows; a recovery was asked for on a list that *)
(* did not show the session as recovered; a simulation or a lookup is      *)
(* about a question.                                                       *)
SoundCall(op, c) ==
  /\ c.visit <= visit
  /\ Seen(c.data)
  /\ c.then \in Forms
       => /\ op = "merchant" /\ c.mark <= db.v
          /\ c.pc = "served" /\ c.data # Empty => c.mark <= c.data.v
  /\ op = "recover" /\ c.then = "cart"
       => c.mark <= db.v /\ (c.mark >= db.since => db.cart # "RECOVERED")
  /\ op \in Asked => c.mark \in Questions

CallInv ==
  /\ db.since <= db.v
  /\ Seen(view.data)
  /\ \A op \in Ops : \A i \in DOMAIN calls[op] : SoundCall(op, calls[op][i])

(* One simulation at most is under way for the page shown, and the button  *)
(* is disabled meanwhile; the calls of both forms are about the question   *)
(* shown, unless two lookups overlapped.                                   *)
AskInv ==
  /\ \A i, j \in DOMAIN calls["simulate"] :
       calls["simulate"][i].visit = visit /\ calls["simulate"][j].visit = visit => i = j
  /\ \A i \in DOMAIN calls["simulate"] :
       calls["simulate"][i].visit = visit
         => "simulate" \in view.busy /\ calls["simulate"][i].mark = view.question["simulate"]
  /\ \A i \in DOMAIN calls["lookup"] :
       calls["lookup"][i].visit = visit
         => view.mixed \/ calls["lookup"][i].mark = view.question["lookup"]

(* When a subscription is reported as created, the page that asked for it  *)
(* shows no list read before it was written, whatever other reloads it     *)
(* overlaps: a list read since, one without rows because a query failed,   *)
(* or the page's own data because the reload failed.  That the list has    *)
(* the new row is not promised: over its own data the page creates for the *)
(* first sample merchant, and loads the merchant that is first in the      *)
(* database.                                                               *)
ReportedOverFreshList ==
  [][told' # told /\ told'.visit = visit /\ view'.data \notin {Demo, Empty}
       => view'.data.v >= told'.v]_vars

(* A session that has been recovered is set back to dispatched only by an  *)
(* operator whose list was loaded before it was recovered.                 *)
NoBlindDispatch ==
  [][db.cart = "RECOVERED" /\ db'.cart = "RECOVERY_DISPATCHED" /\ tally' = tally
       => db'.from < db.since]_vars

(* The result shown on the developer page answers the last question of     *)
(* that form, unless a second lookup was started before the first ended.   *)
AnswersTheQuestion ==
  \A op \in Asked :
    view.answer[op] # 0 /\ (op = "lookup" => ~view.mixed)
      => view.answer[op] = view.question[op]
=============================================================================
