----------------------------- MODULE Receivables -----------------------------
(***************************************************************************)
(* The receivables page (app/receivables/page.tsx): invoices are created   *)
(* and edited in the browser only.  A save writes the whole list the page  *)
(* shows to localStorage (revive_b2b_invoices) - or fails to, and says     *)
(* nothing - and a load puts that list above the API's                     *)
(* (handlers/receivables.go) and the demo invoices.  The load reads        *)
(* localStorage before it waits for the API, so a save made meanwhile is   *)
(* missing from the list it shows.                                         *)
(***************************************************************************)
EXTENDS Integers, Sequences, FiniteSets, SequencesExt

CONSTANTS
  Numbers,      \* invoice numbers
  DemoNumber,   \* the one of the demo invoice, which the API lists too
  Amounts,      \* amounts of invoices
  Ages,         \* the ages the API finds for the row of b2b_invoices
  MaxSaves      \* bound on the invoices created and edited

Bucket == {"CURRENT", "1_30", "31_60", "61_90", "90_PLUS"}

ASSUME ReceivablesAssumption ==
  /\ DemoNumber \in Numbers
  /\ Amounts \subseteq Nat \ {0} /\ Amounts # {}
  /\ Ages \subseteq Bucket
  /\ MaxSaves \in Nat

VARIABLES
  shelf,   \* the browser's list
  book,    \* the page
  kept     \* the amount saved last for each number, the saves so far, and the
           \* numbers whose last save is lost

receivables == <<shelf, book, kept>>

Invoice == [num : Numbers, id : Nat, amount : Amounts, bucket : Bucket]
Summary == [total : Nat, current_due : Nat, bucket_1_30 : Nat, bucket_31_60 : Nat]
NoSummary == [total |-> 0, current_due |-> 0, bucket_1_30 |-> 0, bucket_31_60 |-> 0]

DemoInvoice == [num |-> DemoNumber, id |-> 0, amount |-> CHOOSE a \in Amounts : TRUE,
                bucket |-> "1_30"]
(* The row of b2b_invoices the page can see; nothing writes the table, but *)
(* its age is found anew whenever it is read.                              *)
LedgerInvoice(age) ==
  [num |-> DemoNumber, id |-> MaxSaves + 1, amount |-> CHOOSE a \in Amounts : TRUE,
   bucket |-> age]
NoInvoice == [DemoInvoice EXCEPT !.num = "none"]

NoLoad == [pc |-> "none", local |-> <<>>, count |-> 0, ok |-> FALSE, data |-> <<>>]

(* The page before it is opened and right after, with the demo invoice     *)
(* alone.  Its list is overtaken until the first load lands, when the      *)
(* browser has a list of its own, and after a load during which a save was *)
(* made.  A list as the API gave it is fresh.                              *)
Closed == [mounted |-> FALSE, invoices |-> <<DemoInvoice>>, summary |-> NoSummary,
           load |-> NoLoad, modal |-> "none", editing |-> NoInvoice, overtaken |-> FALSE,
           fresh |-> FALSE]

ReceivablesTypeOK ==
  /\ shelf \in Seq(Invoice)
  /\ book \in [mounted : BOOLEAN, invoices : Seq(Invoice), summary : Summary,
               load : [pc : {"none", "sent", "reply"}, local : Seq(Invoice), count : Nat,
                       ok : BOOLEAN, data : Seq(Invoice)],
               modal : {"none", "create", "edit"}, editing : Invoice \cup {NoInvoice},
               overtaken : BOOLEAN, fresh : BOOLEAN]
  /\ kept \in [saved : [Numbers -> Amounts \cup {0}], count : 0..MaxSaves,
              lost : SUBSET Numbers]

ReceivablesInit ==
  /\ shelf = <<>>
  /\ book = Closed
  /\ kept = [saved |-> [n \in Numbers |-> 0], count |-> 0, lost |-> {}]

NumbersOf(list) == {list[i].num : i \in DOMAIN list}

(* The merging loops: of the invoices with one number, the first.          *)
FirstByNumber(list) ==
  LET merged[i \in 0..Len(list)] ==
        IF i = 0 THEN <<>>
        ELSE LET done == merged[i - 1]
             IN IF \E j \in DOMAIN done : done[j].num = list[i].num
                THEN done ELSE Append(done, list[i])
  IN merged[Len(list)]

(* What the invoices of some buckets add up to.                            *)
Total(w) ==
  LET sum[i \in 0..Len(w)] == IF i = 0 THEN 0 ELSE sum[i - 1] + w[i]
  IN sum[Len(w)]
Outstanding(list, buckets) ==
  Total([i \in DOMAIN list |-> IF list[i].bucket \in buckets THEN list[i].amount ELSE 0])

(* recalcSummary: every age beyond 30 days counts as 31-60.                *)
RecalcSummary(list) ==
  [total |-> Outstanding(list, Bucket), current_due |-> Outstanding(list, {"CURRENT"}),
   bucket_1_30 |-> Outstanding(list, {"1_30"}),
   bucket_31_60 |-> Outstanding(list, Bucket \ {"CURRENT", "1_30"})]

(* calculateAgingSummary, the API's figures for a list: what is older than *)
(* 60 days is kept apart.                                                  *)
CalculateAgingSummary(list) ==
  [total |-> Outstanding(list, Bucket), current_due |-> Outstanding(list, {"CURRENT"}),
   bucket_1_30 |-> Outstanding(list, {"1_30"}), bucket_31_60 |-> Outstanding(list, {"31_60"}),
   bucket_90_plus |-> Outstanding(list, Bucket \ {"CURRENT", "1_30", "31_60"})]
-----------------------------------------------------------------------------
(* The page is opened: the effect reads the browser's list and asks the    *)
(* API.                                                                    *)
OpenReceivables ==
  /\ book' = [Closed EXCEPT !.mounted = TRUE, !.overtaken = shelf # <<>>,
                            !.load = [NoLoad EXCEPT !.pc = "sent", !.local = shelf,
                                                   !.count = kept.count]]
  /\ UNCHANGED <<shelf, kept>>

(* GET /v1/receivables, or its failure: without a row the API answers with *)
(* samples, the demo invoices.                                             *)
ServeReceivables(ok) ==
  /\ book.load.pc = "sent"
  /\ \E data \in IF ok THEN {<<LedgerInvoice(age)>> : age \in Ages} \cup {<<DemoInvoice>>} ELSE {<<>>} :
       book' = [book EXCEPT !.load = [pc |-> "reply", local |-> book.load.local,
                                      count |-> book.load.count, ok |-> ok, data |-> data]]
  /\ UNCHANGED <<shelf, kept>>

(* The rest of fetchReceivables.  Without the API, the browser's list is   *)
(* not merged with itself.                                                 *)
LandReceivables ==
  LET load == book.load
      offline == load.local \o (IF DemoNumber \in NumbersOf(load.local) THEN <<>>
                                ELSE <<DemoInvoice>>)
      merged == IF load.ok THEN FirstByNumber(load.local \o load.data \o <<DemoInvoice>>)
                ELSE offline
  IN /\ load.pc = "reply"
     /\ book' = [book EXCEPT !.load = NoLoad, !.invoices = merged,
                             !.summary = RecalcSummary(merged),
                             !.overtaken = load.count # kept.count, !.fresh = load.ok]
     /\ UNCHANGED <<shelf, kept>>

(* openCreate and openEdit, and the modal's close buttons, which keep the  *)
(* invoice being edited.                                                   *)
OpenCreate ==
  /\ book.mounted /\ book.modal = "none"
  /\ book' = [book EXCEPT !.modal = "create", !.editing = NoInvoice]
  /\ UNCHANGED <<shelf, kept>>

OpenEdit(inv) ==
  /\ book.mounted /\ book.modal = "none"
  /\ book' = [book EXCEPT !.modal = "edit", !.editing = inv]
  /\ UNCHANGED <<shelf, kept>>

CloseModal ==
  /\ book.modal # "none"
  /\ book' = [book EXCEPT !.modal = "none"]
  /\ UNCHANGED <<shelf, kept>>

(* The list after the form was submitted: an edit reaches every invoice    *)
(* with the edited one's id or number and keeps its number; a new invoice  *)
(* goes to the top, with the number the form proposed or the operator      *)
(* typed, whoever has that number.                                         *)
Edited(amount) ==
  [i \in DOMAIN book.invoices |->
     LET r == book.invoices[i]
     IN IF r.id = book.editing.id \/ r.num = book.editing.num
        THEN [r EXCEPT !.amount = amount] ELSE r]
Created(num, amount) ==
  <<[num |-> num, id |-> kept.count + 1, amount |-> amount, bucket |-> "CURRENT"]>> \o book.invoices

Submitted(num, amount) == IF book.modal = "edit" THEN Edited(amount) ELSE Created(num, amount)
Key(num) == IF book.modal = "edit" THEN book.editing.num ELSE num

(* What the browser keeps when the form is submitted.  A save that it      *)
(* refuses is lost; one made from an overtaken list loses all the others,  *)
(* and itself when the invoice it edits is not in that list.               *)
Store(key, list, amount, stored) ==
  /\ shelf' = IF stored THEN list ELSE shelf
  /\ kept' = [saved |-> [kept.saved EXCEPT ![key] = amount], count |-> kept.count + 1,
              lost |-> IF ~stored THEN kept.lost \cup {key}
                       ELSE IF book.overtaken THEN Numbers \ ({key} \cap NumbersOf(list))
                       ELSE kept.lost \ {key}]

(* A bug variant of HandleSaveInvoice: the cards are not brought up to     *)
(* date.                                                                   *)
HandleSaveInvoiceOnly(num, amount, stored) ==
  LET list == Submitted(num, amount)
  IN /\ book.modal # "none"
     /\ kept.count < MaxSaves
     /\ book' = [book EXCEPT !.invoices = list, !.modal = "none", !.editing = NoInvoice,
                             !.overtaken = @ /\ ~stored, !.fresh = FALSE]
     /\ Store(Key(num), list, amount, stored)

(* A bug variant of HandleSaveInvoice: only the submitted invoice is kept. *)
HandleSaveInvoiceAlone(num, amount, stored) ==
  LET list == Submitted(num, amount)
  IN /\ book.modal # "none"
     /\ kept.count < MaxSaves
     /\ book' = [book EXCEPT !.invoices = list, !.summary = RecalcSummary(list),
                             !.modal = "none", !.editing = NoInvoice,
                             !.overtaken = @ /\ ~stored, !.fresh = FALSE]
     /\ Store(Key(num), SelectSeq(list, LAMBDA r : r.num = Key(num)), amount, stored)

(* handleSaveInvoice.  Success is reported whether the browser stored the  *)
(* list or not, and under the number typed, also when an edit has changed  *)
(* it and the invoice keeps its own.                                       *)
HandleSaveInvoice(num, amount, stored) ==
  LET list == Submitted(num, amount)
  IN /\ book.modal # "none"
     /\ kept.count < MaxSaves
     /\ book' = [book EXCEPT !.invoices = list, !.summary = RecalcSummary(list),
                             !.modal = "none", !.editing = NoInvoice,
                             !.overtaken = @ /\ ~stored, !.fresh = FALSE]
     /\ Store(Key(num), list, amount, stored)

ReceivablesNext ==
  \/ LandReceivables
  \/ OpenCreate
  \/ \E inv \in ToSet(book.invoices) : OpenEdit(inv)
  \/ CloseModal
  \/ \E num \in Numbers, amount \in Amounts : HandleSaveInvoice(num, amount, TRUE)
-----------------------------------------------------------------------------
(* The amount a list gives for a number: that of the first such invoice.   *)
AmountOf(list, n) ==
  LET rows == {i \in DOMAIN list : list[i].num = n}
  IN IF rows = {} THEN 0 ELSE list[Min(rows)].amount

(* An invoice stays in the browser's list with the amount saved for it     *)
(* last, and on the page, through every load, edit and later save, with or *)
(* without the API.  It is lost only when the browser refused that save,   *)
(* or by a save made from a list without it: that of a page still loading, *)
(* or one that was loading when it was saved.                              *)
SavedIsKept ==
  \A n \in Numbers : kept.saved[n] # 0 /\ n \notin kept.lost =>
    /\ AmountOf(shelf, n) = kept.saved[n]
    /\ book.mounted /\ ~book.overtaken => AmountOf(book.invoices, n) = kept.saved[n]

(* The cards are a second copy of the figures of the list under them, and  *)
(* follow it through loads, edits and new invoices: they are what the API  *)
(* would give for that list, but for the last card, which adds to the      *)
(* 31-60 days all that the API keeps apart as older.  A list that comes    *)
(* from the API counts no invoice twice, although the browser, the API and *)
(* the demo data know the same ones and new ones take a number in use.     *)
CardsMatchList ==
  book.summary # NoSummary =>
    LET api == CalculateAgingSummary(book.invoices)
    IN /\ book.summary = [total |-> api.total, current_due |-> api.current_due,
                          bucket_1_30 |-> api.bucket_1_30,
                          bucket_31_60 |-> api.bucket_31_60 + api.bucket_90_plus]
       /\ book.fresh => \A i, j \in DOMAIN book.invoices :
                          book.invoices[i].num = book.invoices[j].num => i = j
-----------------------------------------------------------------------------
(* The invoices an edit can meet.                                          *)
Given == {DemoInvoice} \cup {LedgerInvoice(age) : age \in Ages}
Known ==
  ToSet(shelf) \cup ToSet(book.invoices) \cup ToSet(book.load.local)
    \cup (IF book.modal = "edit" THEN {book.editing} ELSE {}) \cup Given

(* An edit reaches the invoices with the id of the edited one, so no id is *)
(* given to two numbers; the next new id is in no list.                    *)
IdInv ==
  /\ \A r, s \in Known : r.id = s.id => r.num = s.num
  /\ \A r \in Known : r.id \in 0..kept.count \cup {MaxSaves + 1}
  /\ ToSet(book.load.data) \subseteq Given

(* A load under way has read the browser's list as it is, and the page     *)
(* shows the demo invoice alone, unless there was a save since.  The       *)
(* invoice being edited is in the list, unless it was replaced by one that *)
(* is overtaken.                                                           *)
EditInv ==
  /\ book.modal # "none" => book.mounted
  /\ book.load.count <= kept.count
  /\ book.load.pc # "none" /\ book.load.count = kept.count
       => book.load.local = shelf /\ book.invoices = <<DemoInvoice>>
  /\ book.modal = "edit" =>
       /\ book.editing \in Invoice
       /\ book.load.pc # "none" \/ ~book.overtaken => book.editing.num \in NumbersOf(book.invoices)

(* The cards are those of the list they were made from, which is the one   *)
(* shown.                                                                  *)
CardsInv ==
  /\ book.summary # NoSummary => book.summary = RecalcSummary(book.invoices)
  /\ book.fresh => \A i, j \in DOMAIN book.invoices :
                     book.invoices[i].num = book.invoices[j].num => i = j
=============================================================================
