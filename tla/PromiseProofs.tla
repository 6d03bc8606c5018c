---------------------------- MODULE PromiseProofs ----------------------------
(***************************************************************************)
(* Theorems about PromiseCalls for any workflows, any number of calls,     *)
(* loads, writes and faults, and any size of the browser's record and of   *)
(* the API's lists.                                                        *)
(***************************************************************************)
EXTENDS PromiseCalls, FiniteSetTheorems, WellFoundedInduction, TLAPS

(* The smaller of two numbers.                                             *)
LEMMA MinOfTwo ==
  ASSUME NEW a \in Nat, NEW b \in Nat
  PROVE  /\ Min({a, b}) \in Nat /\ Min({a, b}) <= a /\ Min({a, b}) <= b
         /\ Min({a, b}) = a \/ Min({a, b}) = b
<1>1. \E x \in {a, b} : \A y \in {a, b} : x <= y
  <2>1. a <= b \/ b <= a
    OBVIOUS
  <2>2. QED
    BY <2>1
<1>2. Min({a, b}) \in {a, b} /\ \A y \in {a, b} : Min({a, b}) <= y
  BY <1>1 DEF Min
<1>3. QED
  BY <1>2

(* A finite set of numbers that is not empty has a smallest member.        *)
LEMMA MinFinite ==
  ASSUME NEW S \in SUBSET Int, IsFiniteSet(S), S # {}
  PROVE  \E x \in S : \A y \in S : x <= y
<1> DEFINE Below(x) == {y \in S : y < x}
           Family == {Below(x) : x \in S}
<1>1. Family \subseteq FiniteSubsetsOf(S) /\ Family # {}
  <2>1. ASSUME NEW x \in S PROVE Below(x) \in FiniteSubsetsOf(S)
    <3>1. Below(x) \in SUBSET S
      OBVIOUS
    <3>2. IsFiniteSet(Below(x))
      BY <3>1, FS_Subset
    <3>3. QED
      BY <3>1, <3>2 DEF FiniteSubsetsOf
  <2>2. QED
    BY <2>1
<1>2. IsWellFoundedOn(StrictSubsetOrdering(S), FiniteSubsetsOf(S))
  BY FS_StrictSubsetOrderingWellFounded
<1>3. PICK U \in Family : \A V \in Family : <<V, U>> \notin StrictSubsetOrdering(S)
  <2> HIDE DEF Family
  <2>1. QED
    BY <1>1, <1>2, WFMin
<1>4. PICK x \in S : U = Below(x)
  BY <1>3
<1>5. \A y \in S : x <= y
  <2>1. SUFFICES ASSUME NEW y \in S, y < x PROVE FALSE
    OBVIOUS
  <2>2. Below(y) \subseteq Below(x) /\ y \in Below(x) /\ y \notin Below(y)
    <3>1. \A z \in S : z \in Int
      OBVIOUS
    <3>2. \A z \in S : z < y => z < x
      BY <2>1, <3>1
    <3>3. ~(y < y)
      BY <3>1
    <3>4. QED
      BY <2>1, <3>2, <3>3
  <2>3. <<Below(y), U>> \in StrictSubsetOrdering(S)
    BY <1>4, <2>2 DEF StrictSubsetOrdering
  <2>4. QED
    BY <1>3, <2>3
<1>6. QED
  BY <1>5

(* Ascending lists every member of a finite set of numbers exactly once:   *)
(* the members below each one are counted, and no two have the same count. *)
LEMMA AscendingFacts ==
  ASSUME NEW n \in Nat, NEW S \in SUBSET (1..n)
  PROVE  /\ Cardinality(S) \in Nat
         /\ \A k \in 1..Cardinality(S) : Ascending(S)[k] \in S
         /\ \A k, l \in 1..Cardinality(S) : Ascending(S)[k] = Ascending(S)[l] => k = l
         /\ \A i \in S : \E k \in 1..Cardinality(S) : Ascending(S)[k] = i
<1> DEFINE Upto(i) == {j \in S : j <= i}
           m == Cardinality(S)
<1>1. IsFiniteSet(S) /\ m \in Nat
  <2>1. IsFiniteSet(1..n)
    BY FS_Interval
  <2>2. QED
    BY <2>1, FS_Subset, FS_CardinalityType
<1>2. \A i \in S : i \in Int
  OBVIOUS
<1>3. \A i \in S : /\ IsFiniteSet(Upto(i)) /\ Cardinality(Upto(i)) \in Nat
                   /\ Cardinality(Upto(i)) <= m
  <2> SUFFICES ASSUME NEW i \in S
               PROVE  /\ IsFiniteSet(Upto(i)) /\ Cardinality(Upto(i)) \in Nat
                      /\ Cardinality(Upto(i)) <= m
    OBVIOUS
  <2>1. Upto(i) \in SUBSET S
    OBVIOUS
  <2> HIDE DEF Upto
  <2>2. QED
    BY <1>1, <2>1, FS_Subset, FS_CardinalityType
<1>4. \A i \in S : Cardinality(Upto(i)) \in 1..m
  <2> SUFFICES ASSUME NEW i \in S PROVE Cardinality(Upto(i)) \in 1..m
    OBVIOUS
  <2>1. i \in Upto(i)
    BY <1>2
  <2>2. Upto(i) # {}
    BY <2>1
  <2> HIDE DEF Upto
  <2>3. Cardinality(Upto(i)) # 0
    BY <1>3, <2>2, FS_EmptySet
  <2>4. QED
    BY <1>1, <1>3, <2>3
<1>5. ASSUME NEW i \in S, NEW j \in S, i < j
      PROVE  Cardinality(Upto(i)) # Cardinality(Upto(j))
  <2>1. Upto(i) \in SUBSET Upto(j)
    <3>1. \A z \in S : z <= i => z <= j
      BY <1>2, <1>5
    <3>2. QED
      BY <3>1
  <2>2. j \in Upto(j) /\ j \notin Upto(i)
    BY <1>2, <1>5
  <2>3. Upto(i) # Upto(j)
    BY <2>2
  <2> HIDE DEF Upto
  <2>4. QED
    BY <1>3, <2>1, <2>3, FS_Subset
<1> DEFINE f == [i \in S |-> Cardinality(Upto(i))]
<1>6. f \in Injection(S, 1..m)
  <2> HIDE DEF Upto
  <2>1. f \in [S -> 1..m]
    BY <1>4
  <2>2. \A i, j \in S : f[i] = f[j] => i = j
    <3> SUFFICES ASSUME NEW i \in S, NEW j \in S, f[i] = f[j] PROVE i = j
      OBVIOUS
    <3>1. ~(i < j) /\ ~(j < i)
      BY <1>5
    <3>2. QED
      BY <1>2, <3>1
  <2> HIDE DEF f
  <2>3. QED
    BY <2>1, <2>2 DEF Injection, IsInjective
<1>7. \A k \in 1..m : \E i \in S : Cardinality(Upto(i)) = k
  <2>1. IsFiniteSet(1..m) /\ Cardinality(1..m) = m
    BY <1>1, FS_Interval
  <2>2. f \in Surjection(S, 1..m)
    <3> HIDE DEF f
    <3>1. QED
      BY <1>1, <1>6, <2>1, FS_Injection
  <2> HIDE DEF Upto
  <2>3. QED
    BY <2>2 DEF Surjection
<1>8. \A k \in 1..m : Ascending(S)[k] \in S /\ Cardinality(Upto(Ascending(S)[k])) = k
  BY <1>7 DEF Ascending
<1>9. \A i \in S : Ascending(S)[Cardinality(Upto(i))] = i
  <2> SUFFICES ASSUME NEW i \in S PROVE Ascending(S)[Cardinality(Upto(i))] = i
    OBVIOUS
  <2> DEFINE k == Cardinality(Upto(i))
             a == Ascending(S)[k]
  <2>1. a \in S /\ Cardinality(Upto(a)) = k
    BY <1>4, <1>8
  <2> HIDE DEF Upto, a
  <2>2. ~(a < i) /\ ~(i < a)
    BY <1>5, <2>1
  <2>3. a = i
    BY <1>2, <2>1, <2>2
  <2>4. QED
    BY <2>3 DEF a
<1> HIDE DEF Upto
<1>10. QED
  BY <1>1, <1>4, <1>8, <1>9

(* The merging loop keeps one entry of every identity in the lists, and    *)
(* never two.                                                              *)
LEMMA FirstSeenFacts ==
  ASSUME NEW S, NEW list \in Seq(S)
  PROVE  /\ FirstSeen(list) \in Seq(S)
         /\ \A i \in DOMAIN list :
              \E k \in DOMAIN FirstSeen(list) : FirstSeen(list)[k].id = list[i].id
         /\ \A k, l \in DOMAIN FirstSeen(list) :
              FirstSeen(list)[k].id = FirstSeen(list)[l].id => k = l
<1> DEFINE n == Len(list)
           T == {i \in DOMAIN list : \A j \in 1..(i - 1) : list[j].id # list[i].id}
           first == Ascending(T)
           m == Cardinality(T)
<1>1. n \in Nat /\ DOMAIN list = 1..n /\ \A i \in 1..n : list[i] \in S
  OBVIOUS
<1>2. T \in SUBSET (1..n)
  BY <1>1
<1>3. /\ m \in Nat
      /\ \A k \in 1..m : first[k] \in T
      /\ \A k, l \in 1..m : first[k] = first[l] => k = l
      /\ \A i \in T : \E k \in 1..m : first[k] = i
  <2> HIDE DEF T
  <2>1. QED
    BY <1>1, <1>2, AscendingFacts
<1>4. DOMAIN first = 1..m
  BY DEF Ascending
<1>5. FirstSeen(list) = [k \in 1..m |-> list[first[k]]]
  BY <1>4 DEF FirstSeen
<1>6. FirstSeen(list) \in Seq(S)
  <2> HIDE DEF T, first
  <2>1. \A k \in 1..m : list[first[k]] \in S
    BY <1>1, <1>2, <1>3
  <2>2. m \in Nat
    BY <1>3
  <2> HIDE DEF m
  <2>3. QED
    BY <1>5, <2>1, <2>2
<1>7. ASSUME NEW i \in 1..n
      PROVE  \E k \in 1..m : list[first[k]].id = list[i].id
  <2> DEFINE Same == {j \in 1..n : list[j].id = list[i].id}
  <2>1. Same \in SUBSET Int /\ IsFiniteSet(Same) /\ i \in Same
    <3>1. Same \in SUBSET (1..n)
      OBVIOUS
    <3>2. IsFiniteSet(1..n)
      BY <1>1, FS_Interval
    <3>3. QED
      BY <1>1, <3>1, <3>2, FS_Subset
  <2>2. PICK x \in Same : \A y \in Same : x <= y
    <3> HIDE DEF Same
    <3>1. QED
      BY <2>1, MinFinite
  <2>3. \A j \in 1..(x - 1) : j \in 1..n /\ ~(x <= j)
    BY <1>1, <2>2
  <2>4. \A j \in 1..(x - 1) : list[j].id # list[x].id
    BY <2>2, <2>3
  <2>5. x \in T
    BY <1>1, <2>2, <2>4
  <2> HIDE DEF T, first
  <2>6. QED
    BY <1>3, <2>2, <2>5
<1>8. ASSUME NEW k \in 1..m, NEW l \in 1..m, list[first[k]].id = list[first[l]].id
      PROVE  k = l
  <2>1. first[k] \in T /\ first[l] \in T
    <3> HIDE DEF T, first
    <3>1. QED
      BY <1>3
  <2>2. PICK a \in T, b \in T : a = first[k] /\ b = first[l]
    BY <2>1
  <2> HIDE DEF first
  <2>3. ~(a < b) /\ ~(b < a)
    <3>1. a \in 1..n /\ b \in 1..n
      BY <1>2
    <3>2. a < b => a \in 1..(b - 1)
      BY <1>1, <3>1
    <3>3. b < a => b \in 1..(a - 1)
      BY <1>1, <3>1
    <3>4. QED
      BY <1>8, <2>2, <3>2, <3>3
  <2>4. a = b
    BY <1>1, <1>2, <2>3
  <2> HIDE DEF T
  <2>5. QED
    BY <1>3, <2>2, <2>4
<1> HIDE DEF T, first, m, n
<1>9. DOMAIN FirstSeen(list) = 1..m /\ \A k \in 1..m : FirstSeen(list)[k] = list[first[k]]
  BY <1>5
<1>10. \A i \in DOMAIN list :
         \E k \in DOMAIN FirstSeen(list) : FirstSeen(list)[k].id = list[i].id
  BY <1>1, <1>7, <1>9
<1>11. \A k, l \in DOMAIN FirstSeen(list) :
         FirstSeen(list)[k].id = FirstSeen(list)[l].id => k = l
  BY <1>8, <1>9
<1>12. QED
  BY <1>6, <1>10, <1>11

(* There is a number no request under way has.                             *)
LEMMA FreeIdType ==
  ASSUME NEW under, IsFiniteSet(under)
  PROVE  FreeId(under) \in Nat
<1> DEFINE n == Cardinality(under)
           ids == {q.id : q \in under}
<1>1. n \in Nat
  BY FS_CardinalityType
<1>2. IsFiniteSet(ids) /\ Cardinality(ids) <= n /\ Cardinality(ids) \in Nat
  <2>1. IsFiniteSet(ids) /\ Cardinality(ids) <= n
    <3> DEFINE f == [q \in under |-> q.id]
    <3>1. f \in Surjection(under, ids)
      BY DEF Surjection
    <3>2. QED
      BY <3>1, FS_Surjection
  <2>2. QED
    BY <2>1, FS_CardinalityType
<1>3. Cardinality(1..(n + 1)) = n + 1
  BY <1>1, FS_Interval
<1>4. ~(1..(n + 1) \subseteq ids)
  <2> HIDE DEF ids
  <2>1. QED
    BY <1>1, <1>2, <1>3, FS_Subset
<1>5. \E i \in 1..(n + 1) : \A q \in under : q.id # i
  BY <1>4
<1>6. FreeId(under) \in 1..(n + 1)
  BY <1>5 DEF FreeId
<1>7. QED
  BY <1>1, <1>6

(* The types of what the pages and the forms start from.                   *)
LEMMA ConstantFacts ==
  /\ EmptyForm \in Form /\ EmptyForm.workflow = None
  /\ DemoPromises \in Seq(PromiseRow) /\ DemoPromises[1].id \in RowId
  /\ DemoPromises[1].id = [kind |-> "demo", call |-> 0]
  /\ DemoCalls \in Seq(CallRow)
<1>1. EmptyForm \in Form /\ EmptyForm.workflow = None
  BY DEF EmptyForm, Form
<1> DEFINE demo == [kind |-> "demo", call |-> 0]
<1>2. demo \in RowId
  BY DEF RowId
<1>3. [id |-> demo, status |-> "PENDING"] \in PromiseRow
  BY <1>2 DEF PromiseRow, PromiseStatus
<1>4. DemoPromises \in Seq(PromiseRow) /\ DemoPromises[1] = [id |-> demo, status |-> "PENDING"]
  BY <1>3 DEF DemoPromises
<1>5. DemoPromises[1].id = demo
  BY <1>4
<1>6. [id |-> 0] \in CallRow
  BY DEF CallRow, Sid
<1>7. DemoCalls \in Seq(CallRow)
  BY <1>6 DEF DemoCalls
<1>8. QED
  BY <1>1, <1>2, <1>4, <1>5, <1>7

(* The fields of a request.                                                *)
LEMMA MessageFacts ==
  ASSUME NEW q \in Message
  PROVE  /\ q.id \in Nat /\ q.kind \in {"dial", "calls", "promises", "verify", "extend"}
         /\ q.pc \in {"sent", "placed", "reply"} /\ q.ok \in BOOLEAN /\ q.holds \in BOOLEAN
         /\ q.form \in Form /\ q.sid \in Sid /\ q.row \in RowId
         /\ q.local \in Seq(Dispatch) /\ q.asof \in Nat
         /\ q.calls \in Seq(CallRow) /\ q.promises \in Seq(PromiseRow)
BY DEF Message

(* What a new request is made of.                                          *)
LEMMA RequestFacts ==
  ASSUME NEW under, IsFiniteSet(under)
  PROVE  /\ FreeId(under) \in Nat /\ 0 \in Sid /\ <<>> \in Seq(Dispatch)
         /\ <<>> \in Seq(CallRow) /\ <<>> \in Seq(PromiseRow)
         /\ EmptyForm \in Form /\ DemoPromises[1].id \in RowId
<1>1. 0 \in Sid
  BY DEF Sid
<1>2. QED
  BY <1>1, FreeIdType, ConstantFacts

(* What the API and the network never change of a request.                 *)
SameRequest(q, r) ==
  /\ r.kind = q.kind /\ r.form = q.form /\ r.row = q.row
  /\ r.local = q.local /\ r.asof = q.asof

(* A request that has been answered.                                       *)
LEMMA AnswerFacts ==
  ASSUME NEW q \in Message, NEW ok \in BOOLEAN
  PROVE  LET r == [q EXCEPT !.pc = "reply", !.ok = ok]
         IN  r \in Message /\ SameRequest(q, r) /\ r.pc = "reply" /\ r.ok = ok /\ r.sid = q.sid
BY DEF Message, SameRequest

(* A call that has been placed.                                            *)
LEMMA PlacedFacts ==
  ASSUME NEW q \in Message, NEW c \in Calls
  PROVE  LET r == [q EXCEPT !.pc = "placed", !.sid = c]
         IN  r \in Message /\ SameRequest(q, r) /\ r.pc = "placed" /\ r.sid = c
<1>1. c \in Sid
  BY DEF Sid
<1>2. QED
  BY <1>1 DEF Message, SameRequest

(* The beginning of a sequence.                                            *)
LEMMA PrefixFacts ==
  ASSUME NEW S, NEW s \in Seq(S), NEW m \in Nat, m <= Len(s)
  PROVE  /\ SubSeq(s, 1, m) \in Seq(S) /\ Len(SubSeq(s, 1, m)) = m
         /\ \A i \in 1..m : SubSeq(s, 1, m)[i] = s[i]
<1>1. \A i \in 1..m : s[i] \in S
  OBVIOUS
<1>2. SubSeq(s, 1, m) = [i \in 1..m |-> s[i]]
  OBVIOUS
<1>3. QED
  BY <1>1, <1>2

(* The lists of the API.                                                   *)
LEMMA NewestType ==
  ASSUME NEW table \in SUBSET Calls
  PROVE  Newest(table) \in Seq(table)
<1>1. MaxCalls \in Nat /\ PageSize \in Nat
  BY CallsAssumption
<1>2. /\ Cardinality(table) \in Nat
      /\ \A k \in 1..Cardinality(table) : Ascending(table)[k] \in table
  BY <1>1, AscendingFacts DEF Calls
<1>3. Ascending(table) \in Seq(table)
  <2> DEFINE entry(k) == CHOOSE i \in table : Cardinality({j \in table : j <= i}) = k
  <2>1. Ascending(table) = [k \in 1..Cardinality(table) |-> entry(k)]
    BY DEF Ascending
  <2> HIDE DEF entry
  <2>2. \A k \in 1..Cardinality(table) : entry(k) \in table
    BY <1>2, <2>1
  <2>3. QED
    BY <1>2, <2>1, <2>2
<1> DEFINE rows == Reverse(Ascending(table))
<1>4. rows \in Seq(table) /\ Len(rows) \in Nat
  <2>1. PICK s \in Seq(table) : s = Ascending(table)
    BY <1>3
  <2>2. \A i \in 1..Len(s) : (Len(s) - i) + 1 \in 1..Len(s)
    OBVIOUS
  <2>3. Reverse(s) \in Seq(table)
    BY <2>2 DEF Reverse
  <2>4. QED
    BY <2>1, <2>3
<1>5. Min({Len(rows), PageSize}) \in Nat /\ Min({Len(rows), PageSize}) <= Len(rows)
  <2> HIDE DEF rows
  <2>1. QED
    BY <1>1, <1>4, MinOfTwo
<1>6. Newest(table) = SubSeq(rows, 1, Min({Len(rows), PageSize}))
  BY DEF Newest
<1> HIDE DEF rows
<1>7. QED
  BY <1>4, <1>5, <1>6, PrefixFacts

(* What RequestInv says of one request.                                    *)
SoundRequest(r) ==
  /\ r \in Message
  /\ r.pc = "placed" => r.kind = "dial"
  /\ r.kind = "dial" /\ (r.pc = "placed" \/ (r.pc = "reply" /\ r.ok)) => r.sid \in Calls

LEMMA AllSound == ASSUME TypeOK, RequestInv PROVE \A q \in net : SoundRequest(q)
BY DEF TypeOK, RequestInv, SoundRequest

(* Requests may be issued, moved on and answered one at a time.            *)
LEMMA NetKept ==
  ASSUME TypeOK, RequestInv, NEW x, NEW r,
         \/ net' = net
         \/ net' = net \ {x}
         \/ SoundRequest(r) /\ net' = net \cup {r}
         \/ SoundRequest(r) /\ net' = (net \ {x}) \cup {r}
  PROVE  net' \subseteq Message /\ RequestInv'
<1>1. IsFiniteSet(net) /\ \A q \in net : SoundRequest(q)
  BY AllSound DEF RequestInv
<1>2. IsFiniteSet(net')
  <2>1. IsFiniteSet(net \ {x})
    BY <1>1, FS_RemoveElement
  <2>2. IsFiniteSet(net \cup {r}) /\ IsFiniteSet((net \ {x}) \cup {r})
    BY <1>1, <2>1, FS_AddElement
  <2>3. QED
    BY <1>1, <2>1, <2>2
<1>3. \A q \in net' : SoundRequest(q)
  BY <1>1
<1>4. QED
  BY <1>2, <1>3 DEF SoundRequest, RequestInv

(* The calls placed so far leave room for those being dialled.             *)
LEMMA RoomForCall ==
  ASSUME TypeOK, RequestInv, CountInv, NEW q \in Dialling
  PROVE  db.placed + 1 \in Calls /\ Cardinality(Dialling) \in Nat /\ Cardinality(Dialling) > 0
<1>1. IsFiniteSet(Dialling)
  <2>1. Dialling \in SUBSET net
    BY DEF Dialling
  <2>2. QED
    BY <2>1, FS_Subset DEF RequestInv
<1>2. Cardinality(Dialling) \in Nat /\ Cardinality(Dialling) # 0
  BY <1>1, FS_CardinalityType, FS_EmptySet
<1>3. db.placed \in Nat /\ clicks["dials"] \in Nat /\ clicks["dials"] <= MaxCalls /\ MaxCalls \in Nat
  BY CallsAssumption DEF TypeOK, Database, Controls
<1>4. db.placed + Cardinality(Dialling) <= clicks["dials"]
  BY DEF CountInv
<1>5. QED
  BY <1>2, <1>3, <1>4 DEF Calls

(* The types of the variables other than the tables and the pages.         *)
LEMMA ClickFacts ==
  ASSUME TypeOK, NEW what \in Controls, NEW bound \in Nat, Click(what, bound)
  PROVE  /\ clicks' \in [Controls -> Nat] /\ clicks'[what] = clicks[what] + 1
         /\ clicks'[what] <= bound
         /\ \A other \in Controls \ {what} : clicks'[other] = clicks[other]
BY DEF Click, TypeOK

(* A list of dispatches as the two pages read it.                          *)
LEMMA LocalLists ==
  ASSUME NEW list \in Seq(Dispatch)
  PROVE  /\ [i \in DOMAIN list |-> [id |-> list[i].sid]] \in Seq(CallRow)
         /\ [i \in DOMAIN list |-> LocalPromise(list[i])] \in Seq(PromiseRow)
<1>1. DOMAIN list = 1..Len(list) /\ Len(list) \in Nat /\ \A i \in 1..Len(list) : list[i] \in Dispatch
  OBVIOUS
<1>2. \A d \in Dispatch : [id |-> d.sid] \in CallRow
  BY DEF Dispatch, CallRow, Sid
<1>3. \A d \in Dispatch : LocalPromise(d) \in PromiseRow
  <2> SUFFICES ASSUME NEW d \in Dispatch PROVE LocalPromise(d) \in PromiseRow
    OBVIOUS
  <2>1. [kind |-> "local", call |-> d.sid] \in RowId
    BY DEF Dispatch, RowId
  <2>2. QED
    BY <2>1 DEF LocalPromise, PromiseRow, PromiseStatus
<1>4. \A i \in 1..Len(list) : [id |-> list[i].sid] \in CallRow /\ LocalPromise(list[i]) \in PromiseRow
  BY <1>1, <1>2, <1>3
<1>5. [i \in DOMAIN list |-> [id |-> list[i].sid]] \in Seq(CallRow)
  BY <1>1, <1>4
<1>6. [i \in DOMAIN list |-> LocalPromise(list[i])] \in Seq(PromiseRow)
  <2> DEFINE f == [i \in DOMAIN list |-> LocalPromise(list[i])]
  <2>1. f \in [1..Len(list) -> PromiseRow]
    BY <1>1, <1>4, Zenon
  <2> HIDE DEF f
  <2>2. f \in Seq(PromiseRow)
    BY <1>1, <2>1
  <2>3. QED
    BY <2>2 DEF f
<1>7. QED
  BY <1>5, <1>6

(* The API's lists as it sends them.                                       *)
LEMMA ServedLists ==
  ASSUME TypeOK
  PROVE  LET calls == Newest(db.calls)
             promises == Newest({c \in Calls : db.promises[c] # None})
         IN  /\ [i \in DOMAIN calls |-> [id |-> calls[i]]] \in Seq(CallRow)
             /\ [i \in DOMAIN promises |->
                   [id |-> [kind |-> "db", call |-> promises[i]],
                    status |-> db.promises[promises[i]]]] \in Seq(PromiseRow)
<1> DEFINE calls == Newest(db.calls)
           table == {c \in Calls : db.promises[c] # None}
           promises == Newest(table)
<1>1. calls \in Seq(db.calls) /\ db.calls \in SUBSET Calls
  BY NewestType DEF TypeOK, Database
<1>2. promises \in Seq(table)
  <2>1. table \in SUBSET Calls
    OBVIOUS
  <2> HIDE DEF table
  <2>2. QED
    BY <2>1, NewestType
<1>3. \A c \in Calls : [id |-> c] \in CallRow
  BY DEF CallRow, Sid
<1>4. [i \in DOMAIN calls |-> [id |-> calls[i]]] \in Seq(CallRow)
  <2> HIDE DEF calls
  <2>1. \A i \in 1..Len(calls) : [id |-> calls[i]] \in CallRow
    BY <1>1, <1>3
  <2>2. QED
    BY <1>1, <2>1
<1> DEFINE rows == [i \in DOMAIN promises |->
                      [id |-> [kind |-> "db", call |-> promises[i]],
                       status |-> db.promises[promises[i]]]]
<1>5. \A i \in 1..Len(promises) : promises[i] \in table
  <2> HIDE DEF table, promises
  <2>1. QED
    BY <1>2
<1>6. rows \in Seq(PromiseRow)
  <2> HIDE DEF promises
  <2>1. \A c \in table : [id |-> [kind |-> "db", call |-> c], status |-> db.promises[c]] \in PromiseRow
    <3> SUFFICES ASSUME NEW c \in table
                 PROVE  [id |-> [kind |-> "db", call |-> c], status |-> db.promises[c]] \in PromiseRow
      OBVIOUS
    <3>1. [kind |-> "db", call |-> c] \in RowId
      BY DEF RowId
    <3>2. db.promises[c] \in PromiseStatus
      BY DEF TypeOK, Database
    <3>3. QED
      BY <3>1, <3>2 DEF PromiseRow
  <2>2. DOMAIN promises = 1..Len(promises) /\ Len(promises) \in Nat
    BY <1>2
  <2> HIDE DEF table
  <2>3. QED
    BY <1>5, <2>1, <2>2
<1>7. QED
  BY <1>4, <1>6

(* A load that the API answers.                                            *)
LEMMA ListAnswered ==
  ASSUME TypeOK, NEW q \in net, ServeList(q)
  PROVE  \E r \in Message : /\ net' = (net \ {q}) \cup {r} /\ SameRequest(q, r)
                            /\ r.pc = "reply" /\ q.kind \in {"calls", "promises"}
<1> DEFINE calls == Newest(db.calls)
           promises == Newest({c \in Calls : db.promises[c] # None})
           callRows == [i \in DOMAIN calls |-> [id |-> calls[i]]]
           promiseRows == [i \in DOMAIN promises |->
                             [id |-> [kind |-> "db", call |-> promises[i]],
                              status |-> db.promises[promises[i]]]]
<1>1. callRows \in Seq(CallRow) /\ promiseRows \in Seq(PromiseRow)
  BY ServedLists
<1>2. q.kind \in {"calls", "promises"} /\
      \E r : /\ net' = (net \ {q}) \cup {r}
            /\ \/ r = [q EXCEPT !.pc = "reply", !.ok = TRUE, !.calls = callRows]
               \/ r = [q EXCEPT !.pc = "reply", !.ok = TRUE, !.promises = promiseRows]
  BY DEF ServeList, Step
<1> HIDE DEF callRows, promiseRows
<1>3. PICK r : /\ net' = (net \ {q}) \cup {r}
               /\ \/ r = [q EXCEPT !.pc = "reply", !.ok = TRUE, !.calls = callRows]
                  \/ r = [q EXCEPT !.pc = "reply", !.ok = TRUE, !.promises = promiseRows]
  BY <1>2
<1>4. q \in Message
  BY DEF TypeOK
<1>5. r \in Message /\ SameRequest(q, r) /\ r.pc = "reply"
  <2>1. CASE r = [q EXCEPT !.pc = "reply", !.ok = TRUE, !.calls = callRows]
    BY <1>1, <1>4, <2>1 DEF Message, SameRequest
  <2>2. CASE r = [q EXCEPT !.pc = "reply", !.ok = TRUE, !.promises = promiseRows]
    BY <1>1, <1>4, <2>2 DEF Message, SameRequest
  <2>3. QED
    BY <1>3, <2>1, <2>2
<1>6. QED
  BY <1>2, <1>3, <1>5

(* The dial form after a change.                                           *)
LEMMA FormFacts ==
  ASSUME NEW form \in Form
  PROVE  /\ [form EXCEPT !.workflow = None] \in Form
         /\ [form EXCEPT !.phone = Typed] \in Form
         /\ \A w \in Workflows : HandleSelectWorkflow(form, w) \in Form
BY DEF Form, HandleSelectWorkflow

(* What the API writes about a call: at most a pending promise, and an     *)
(* entry of the workflow it is lodged with.                                *)
Lodges(q, ps, cs, as, us) ==
  /\ db' = [db EXCEPT !.promises = ps, !.calls = cs, !.actions = as, !.audits = us]
  /\ \A c \in Calls : ps[c] = "HONORED" => db.promises[c] = "HONORED"
  /\ \A e \in as \cup us : \/ e \in db.actions \cup db.audits
                           \/ e.form = q.form /\ e.workflow \in LodgedWith(q.form)
  /\ UNCHANGED faults \/ Fault

LEMMA CallRows ==
  ASSUME TypeOK, RequestInv, NEW q \in net, LodgeCall(q)
  PROVE  \E ps \in [Calls -> PromiseStatus \cup {None}], cs \in SUBSET Calls,
            as \in SUBSET Entry, us \in SUBSET Entry : Lodges(q, ps, cs, as, us)
<1>1. q \in Message /\ q.sid \in Calls /\ q.form \in Form /\ db \in Database
  BY AllSound, MessageFacts DEF TypeOK, LodgeCall, SoundRequest
<1>2. PICK failed \in SUBSET {"promise", "call", "action", "audit"}, entries \in Entries(q) :
        /\ IF failed = {} THEN UNCHANGED faults ELSE Fault
        /\ db' = [db EXCEPT
             !.promises[q.sid] = IF "promise" \in failed THEN @ ELSE "PENDING",
             !.calls = IF "call" \in failed THEN @ ELSE @ \cup {q.sid},
             !.actions = IF "action" \in failed THEN @ ELSE @ \cup entries,
             !.audits = IF "audit" \in failed THEN @ ELSE @ \cup entries]
  BY DEF LodgeCall
<1>3. \A e \in entries : e \in Entry /\ e.form = q.form /\ e.workflow \in LodgedWith(q.form)
  <2>1. LodgedWith(q.form) \subseteq Workflows
    BY <1>1 DEF LodgedWith, Reached, Form
  <2>2. CASE LodgedWith(q.form) = {}
    BY <1>2, <2>2 DEF Entries
  <2>3. CASE LodgedWith(q.form) # {}
    <3>1. PICK w \in LodgedWith(q.form) :
            entries = {[workflow |-> w, sid |-> q.sid, form |-> q.form]}
      BY <1>2, <2>3 DEF Entries
    <3>2. QED
      BY <1>1, <2>1, <3>1 DEF Entry
  <2>4. QED
    BY <2>2, <2>3
<1> DEFINE ps == [db.promises EXCEPT ![q.sid] = IF "promise" \in failed THEN @ ELSE "PENDING"]
           cs == IF "call" \in failed THEN db.calls ELSE db.calls \cup {q.sid}
           as == IF "action" \in failed THEN db.actions ELSE db.actions \cup entries
           us == IF "audit" \in failed THEN db.audits ELSE db.audits \cup entries
<1>4. ps \in [Calls -> PromiseStatus \cup {None}] /\ cs \in SUBSET Calls
  BY <1>1 DEF Database, PromiseStatus
<1>5. as \in SUBSET Entry /\ us \in SUBSET Entry
  BY <1>1, <1>3 DEF Database
<1>6. db' = [db EXCEPT !.promises = ps, !.calls = cs, !.actions = as, !.audits = us]
  BY <1>1, <1>2 DEF Database
<1>7. \A c \in Calls : ps[c] = "HONORED" => db.promises[c] = "HONORED"
  BY <1>1 DEF Database
<1>8. \A e \in as \cup us : \/ e \in db.actions \cup db.audits
                            \/ e.form = q.form /\ e.workflow \in LodgedWith(q.form)
  <2>1. as \subseteq db.actions \cup entries /\ us \subseteq db.audits \cup entries
    OBVIOUS
  <2> HIDE DEF as, us
  <2>2. ASSUME NEW e \in as \cup us
        PROVE  \/ e \in db.actions \cup db.audits
               \/ e.form = q.form /\ e.workflow \in LodgedWith(q.form)
    <3>1. e \in db.actions \cup db.audits \/ e \in entries
      BY <2>1, <2>2
    <3>2. QED
      BY <1>3, <3>1
  <2>3. QED
    BY <2>2
<1>9. UNCHANGED faults \/ Fault
  BY <1>2
<1> HIDE DEF ps, cs, as, us
<1>10. Lodges(q, ps, cs, as, us)
  BY <1>6, <1>7, <1>8, <1>9 DEF Lodges
<1>11. QED
  BY <1>4, <1>5, <1>10

(* The browser's record with one more dispatch.                            *)
LEMMA LodgedFacts ==
  ASSUME TypeOK, NEW d \in Dispatch
  PROVE  /\ Lodged(d) \in Seq(Dispatch) /\ Len(Lodged(d)) <= KeepLocal
         /\ Len(Lodged(d)) <= Len(store) + 1
         /\ Len(Lodged(d)) = Len(store) + 1 \/ Len(Lodged(d)) = KeepLocal
         /\ \A i \in 1..Len(Lodged(d)) : Lodged(d)[i] = IF i = 1 THEN d ELSE store[i - 1]
<1> DEFINE all == <<d>> \o store
           m == Min({Len(store) + 1, KeepLocal})
<1>1. store \in Seq(Dispatch) /\ Len(store) \in Nat /\ KeepLocal \in Nat
  BY CallsAssumption DEF TypeOK
<1>2. /\ all \in Seq(Dispatch) /\ Len(all) = Len(store) + 1
      /\ \A i \in 1..(Len(store) + 1) : all[i] = IF i = 1 THEN d ELSE store[i - 1]
  BY <1>1
<1>3. /\ m \in Nat /\ m <= Len(store) + 1 /\ m <= KeepLocal
      /\ m = Len(store) + 1 \/ m = KeepLocal
  BY <1>1, MinOfTwo
<1>4. Lodged(d) = SubSeq(all, 1, m)
  BY DEF Lodged
<1> HIDE DEF all, m
<1>5. /\ SubSeq(all, 1, m) \in Seq(Dispatch) /\ Len(SubSeq(all, 1, m)) = m
      /\ \A i \in 1..m : SubSeq(all, 1, m)[i] = all[i]
  BY <1>2, <1>3, PrefixFacts
<1>6. \A i \in 1..m : i \in 1..(Len(store) + 1)
  BY <1>1, <1>3
<1>7. QED
  BY <1>1, <1>2, <1>3, <1>4, <1>5, <1>6

(* A sequence with one more entry.                                         *)
LEMMA AppendFacts ==
  ASSUME NEW S, NEW s \in Seq(S), NEW x \in S
  PROVE  /\ Append(s, x) \in Seq(S) /\ Len(Append(s, x)) = Len(s) + 1 /\ Len(s) \in Nat
         /\ \A i \in 1..Len(s) : Append(s, x)[i] = s[i]
         /\ Append(s, x)[Len(s) + 1] = x
OBVIOUS

(* The lists the pages show after a load.                                  *)
LEMMA MergedTypes ==
  ASSUME NEW q \in Message
  PROVE  /\ [i \in DOMAIN q.local |-> [id |-> q.local[i].sid]]
               \o (IF q.ok THEN q.calls ELSE <<>>) \o DemoCalls \in Seq(CallRow)
         /\ [i \in DOMAIN q.local |-> LocalPromise(q.local[i])]
               \o (IF q.ok THEN q.promises ELSE <<>>) \o DemoPromises \in Seq(PromiseRow)
<1> DEFINE calls == [i \in DOMAIN q.local |-> [id |-> q.local[i].sid]]
           promises == [i \in DOMAIN q.local |-> LocalPromise(q.local[i])]
<1>1. /\ q.local \in Seq(Dispatch) /\ q.calls \in Seq(CallRow) /\ q.promises \in Seq(PromiseRow)
      /\ DemoCalls \in Seq(CallRow) /\ DemoPromises \in Seq(PromiseRow)
  BY MessageFacts, ConstantFacts
<1>2. calls \in Seq(CallRow) /\ promises \in Seq(PromiseRow)
  BY <1>1, LocalLists
<1> HIDE DEF calls, promises
<1>3. calls \o (IF q.ok THEN q.calls ELSE <<>>) \o DemoCalls \in Seq(CallRow)
  BY <1>1, <1>2
<1>4. promises \o (IF q.ok THEN q.promises ELSE <<>>) \o DemoPromises \in Seq(PromiseRow)
  BY <1>1, <1>2
<1>5. QED
  BY <1>3, <1>4 DEF calls, promises

(* Types and requests are kept by every step.                              *)
LEMMA NextTypes ==
  TypeOK /\ RequestInv /\ CountInv /\ [Next]_vars => TypeOK' /\ RequestInv'
<1> SUFFICES ASSUME TypeOK, RequestInv, CountInv, [Next]_vars
             PROVE  TypeOK' /\ RequestInv'
  OBVIOUS
<1> DEFINE Goal == TypeOK' /\ RequestInv'
<1>1. /\ MaxCalls \in Nat /\ MaxEdits \in Nat /\ MaxLoads \in Nat /\ MaxWrites \in Nat
      /\ Controls = {"dials", "edits", "loads", "writes"}
  BY CallsAssumption DEF Controls
<1>2. /\ db \in Database /\ store \in Seq(Dispatch) /\ Len(store) <= KeepLocal
      /\ voice \in VoicePage /\ tracker \in TrackerPage /\ net \subseteq Message
      /\ lodged \in Seq(Calls) /\ Len(lodged) \in Nat /\ asked \in [Calls -> Nat]
      /\ clicks \in [Controls -> Nat] /\ clicks["dials"] <= MaxCalls
      /\ clicks["writes"] <= MaxWrites /\ faults \in Nat /\ IsFiniteSet(net)
  BY DEF TypeOK, RequestInv
<1>3. \A q \in net : SoundRequest(q) /\ q \in Message
  BY <1>2, AllSound
<1>4. voice.form \in Form /\ voice.calling \in BOOLEAN
  BY <1>2 DEF VoicePage
<1>5. /\ \A q \in net : net' = net \ {q} => net' \subseteq Message /\ RequestInv'
      /\ \A q \in net : \A r : SoundRequest(r) /\ net' = (net \ {q}) \cup {r}
                              => net' \subseteq Message /\ RequestInv'
      /\ \A r : SoundRequest(r) /\ net' = net \cup {r} => net' \subseteq Message /\ RequestInv'
      /\ net' = net => net' \subseteq Message /\ RequestInv'
  BY NetKept
<1>6. Fault => faults' \in Nat
  BY <1>2 DEF Fault
<1>7. \A q \in net, ok \in BOOLEAN :
        Answer(q, ok) /\ (q.kind = "dial" /\ ok => q.sid \in Calls)
          => net' \subseteq Message /\ RequestInv'
  <2> SUFFICES ASSUME NEW q \in net, NEW ok \in BOOLEAN, Answer(q, ok),
                      q.kind = "dial" /\ ok => q.sid \in Calls
               PROVE  net' \subseteq Message /\ RequestInv'
    OBVIOUS
  <2>1. PICK r : r = [q EXCEPT !.pc = "reply", !.ok = ok]
    OBVIOUS
  <2>2. r \in Message /\ SameRequest(q, r) /\ r.pc = "reply" /\ r.ok = ok /\ r.sid = q.sid
    BY <1>3, <2>1, AnswerFacts
  <2>3. SoundRequest(r)
    BY <2>2 DEF SoundRequest, SameRequest
  <2>4. net' = (net \ {q}) \cup {r}
    BY <2>1 DEF Answer, Step
  <2>5. QED
    BY <1>5, <2>3, <2>4
<1>8. ASSUME NEW kind \in {"calls", "promises"}, Open(kind),
             UNCHANGED <<db, store, voice, tracker, lodged, asked, faults>>
      PROVE  Goal
  <2>1. PICK r : r = Load(net, kind, store, lodged, FALSE)
    OBVIOUS
  <2>2. r \in Message /\ r.kind = kind /\ r.pc = "sent"
    BY <1>2, <2>1, RequestFacts DEF Load, Request, Message
  <2>3. SoundRequest(r)
    BY <2>2 DEF SoundRequest
  <2>4. net' \subseteq Message /\ RequestInv'
    BY <1>5, <1>8, <2>1, <2>3 DEF Open, Issue
  <2>5. clicks' \in [Controls -> Nat] /\ clicks'["dials"] <= MaxCalls /\ clicks'["writes"] <= MaxWrites
    BY <1>1, <1>2, <1>8, ClickFacts DEF Open
  <2>6. QED
    BY <1>2, <1>8, <2>4, <2>5 DEF TypeOK
<1>9. ASSUME OpenVoice PROVE Goal
  BY <1>8, <1>9 DEF OpenVoice
<1>10. ASSUME OpenTracker PROVE Goal
  BY <1>8, <1>10 DEF OpenTracker
<1>11. ASSUME Click("edits", MaxEdits), voice' \in VoicePage,
             UNCHANGED <<db, store, tracker, net, lodged, asked, faults>>
      PROVE  Goal
  <2>1. clicks' \in [Controls -> Nat] /\ clicks'["dials"] <= MaxCalls /\ clicks'["writes"] <= MaxWrites
    BY <1>1, <1>2, <1>11, ClickFacts
  <2>2. QED
    BY <1>2, <1>5, <1>11, <2>1 DEF TypeOK
<1>12. ASSUME NEW w \in Workflows \cup {None}, ChooseWorkflow(w) PROVE Goal
  <2>1. PICK form \in Form : voice' = [voice EXCEPT !.form = form]
    BY <1>4, <1>12, FormFacts DEF ChooseWorkflow
  <2>2. voice' \in VoicePage
    BY <1>2, <2>1 DEF VoicePage
  <2>3. QED
    BY <1>11, <1>12, <2>2 DEF ChooseWorkflow
<1>13. ASSUME TypePhone PROVE Goal
  <2>1. voice' = [voice EXCEPT !.form = [voice.form EXCEPT !.phone = Typed]]
    BY <1>13 DEF TypePhone
  <2>2. PICK form \in Form : voice' = [voice EXCEPT !.form = form]
    BY <1>4, <2>1, FormFacts
  <2>3. voice' \in VoicePage
    BY <1>2, <2>2 DEF VoicePage
  <2>4. QED
    BY <1>11, <1>13, <2>3 DEF TypePhone
<1>14. ASSUME TriggerCallSimulation PROVE Goal
  <2>1. PICK r : r = Request(net, "dial", voice.form, DemoPromises[1].id, TRUE)
    OBVIOUS
  <2>2. r \in Message /\ r.pc = "sent"
    BY <1>2, <1>4, <2>1, RequestFacts DEF Request, Message
  <2>3. SoundRequest(r)
    BY <2>2 DEF SoundRequest
  <2>4. net' \subseteq Message /\ RequestInv'
    BY <1>5, <1>14, <2>1, <2>3 DEF TriggerCallSimulation, Issue
  <2>5. clicks' \in [Controls -> Nat] /\ clicks'["dials"] <= MaxCalls /\ clicks'["writes"] <= MaxWrites
    BY <1>1, <1>2, <1>14, ClickFacts DEF TriggerCallSimulation
  <2>6. voice' \in VoicePage
    BY <1>2, <1>14 DEF TriggerCallSimulation, VoicePage
  <2>7. QED
    BY <1>2, <1>14, <2>4, <2>5, <2>6 DEF TypeOK, TriggerCallSimulation
<1>15. ASSUME NEW r \in ToSet(tracker.promises), NEW kind \in {"verify", "extend"}, Write(kind, r),
             asked' \in [Calls -> Nat], UNCHANGED <<db, store, voice, tracker, lodged, faults>>
      PROVE  Goal
  <2>1. r.id \in RowId
    <3>1. tracker.promises \in Seq(PromiseRow)
      BY <1>2 DEF TrackerPage
    <3>2. r \in PromiseRow
      BY <3>1 DEF ToSet
    <3>3. QED
      BY <3>2 DEF PromiseRow
  <2>2. PICK q : q = Request(net, kind, EmptyForm, r.id, FALSE)
    OBVIOUS
  <2>3. q \in Message /\ q.pc = "sent"
    BY <1>2, <2>1, <2>2, RequestFacts DEF Request, Message
  <2>4. SoundRequest(q)
    BY <2>3 DEF SoundRequest
  <2>5. net' \subseteq Message /\ RequestInv'
    BY <1>5, <1>15, <2>2, <2>4 DEF Write, Issue
  <2>6. clicks' \in [Controls -> Nat] /\ clicks'["dials"] <= MaxCalls /\ clicks'["writes"] <= MaxWrites
    BY <1>1, <1>2, <1>15, ClickFacts DEF Write
  <2>7. QED
    BY <1>2, <1>15, <2>5, <2>6 DEF TypeOK
<1>16. ASSUME NEW r \in ToSet(tracker.promises), VerifyPayment(r) PROVE Goal
  <2>1. asked' \in [Calls -> Nat]
    BY <1>2, <1>16 DEF VerifyPayment
  <2>2. QED
    BY <1>15, <1>16, <2>1 DEF VerifyPayment
<1>17. ASSUME NEW r \in ToSet(tracker.promises), ExtendPromise(r) PROVE Goal
  BY <1>2, <1>15, <1>17 DEF ExtendPromise
<1>18. ASSUME NEW q \in net, InitiateCall(q) PROVE Goal
  <2>1. CASE Fault /\ Answer(q, FALSE) /\ UNCHANGED db
    <3>1. net' \subseteq Message /\ RequestInv'
      BY <1>7, <2>1
    <3>2. QED
      BY <1>2, <1>6, <1>18, <2>1, <3>1 DEF InitiateCall, TypeOK
  <2>2. CASE /\ db' = [db EXCEPT !.placed = @ + 1]
             /\ Step(q, [q EXCEPT !.pc = "placed", !.sid = db.placed + 1])
             /\ UNCHANGED faults
    <3>1. q \in Dialling
      BY <1>18 DEF InitiateCall, Dialling
    <3>2. PICK c \in Calls : c = db.placed + 1
      BY <3>1, RoomForCall
    <3>3. PICK r : r = [q EXCEPT !.pc = "placed", !.sid = c]
      OBVIOUS
    <3>4. r \in Message /\ SameRequest(q, r) /\ r.pc = "placed" /\ r.sid = c
      BY <1>3, <3>3, PlacedFacts
    <3>5. SoundRequest(r)
      BY <1>18, <3>4 DEF SoundRequest, SameRequest, InitiateCall
    <3>6. net' = (net \ {q}) \cup {r}
      BY <2>2, <3>2, <3>3 DEF Step
    <3>7. net' \subseteq Message /\ RequestInv'
      BY <1>5, <3>5, <3>6
    <3>8. db' \in Database
      <4>1. db' = [db EXCEPT !.placed = db.placed + 1] /\ db.placed + 1 \in Nat
        BY <1>2, <2>2 DEF Database
      <4>2. PICK n \in Nat : db' = [db EXCEPT !.placed = n]
        BY <4>1
      <4>3. QED
        BY <1>2, <4>2 DEF Database
    <3>9. QED
      BY <1>2, <1>18, <2>2, <3>7, <3>8 DEF InitiateCall, TypeOK
  <2>3. QED
    BY <1>18, <2>1, <2>2 DEF InitiateCall
<1>19. ASSUME NEW q \in net, LodgeCall(q) PROVE Goal
  <2>1. q.sid \in Calls
    BY <1>3, <1>19 DEF LodgeCall, SoundRequest
  <2>2. net' \subseteq Message /\ RequestInv'
    BY <1>7, <1>19, <2>1 DEF LodgeCall
  <2>3. PICK ps \in [Calls -> PromiseStatus \cup {None}], cs \in SUBSET Calls,
             as \in SUBSET Entry, us \in SUBSET Entry : Lodges(q, ps, cs, as, us)
    BY <1>19, CallRows
  <2>4. db' \in Database
    BY <1>2, <2>3 DEF Database, Lodges
  <2>5. db' \in Database /\ faults' \in Nat
    BY <1>2, <1>6, <2>3, <2>4 DEF Lodges
  <2>6. QED
    BY <1>2, <1>19, <2>2, <2>5 DEF LodgeCall, TypeOK
<1>20. ASSUME NEW q \in net, ServeList(q) PROVE Goal
  <2>1. PICK r \in Message : /\ net' = (net \ {q}) \cup {r} /\ SameRequest(q, r)
                             /\ r.pc = "reply" /\ q.kind \in {"calls", "promises"}
    BY <1>20, ListAnswered
  <2>2. SoundRequest(r)
    BY <2>1 DEF SoundRequest, SameRequest
  <2>3. net' \subseteq Message /\ RequestInv'
    BY <1>5, <2>1, <2>2
  <2>4. QED
    BY <1>2, <1>20, <2>3 DEF ServeList, TypeOK
<1>21. ASSUME NEW q \in net, ServeVerify(q) PROVE Goal
  <2>1. net' \subseteq Message /\ RequestInv'
    BY <1>7, <1>21 DEF ServeVerify
  <2>2. PICK ps \in [Calls -> PromiseStatus \cup {None}], hs \in [Calls -> Nat] :
          \/ db' = [db EXCEPT !.promises = ps, !.honours = hs] /\ UNCHANGED faults
          \/ db' = db /\ Fault
    <3>0. PICK known \in SUBSET Matches(q) : Lodge([db EXCEPT
            !.promises = [c \in Calls |-> IF c \in Matches(q) THEN "HONORED" ELSE db.promises[c]],
            !.honours = [c \in Calls |-> db.honours[c] + (IF c \in known THEN 1 ELSE 0)]])
      BY <1>21 DEF ServeVerify
    <3> DEFINE ps == [c \in Calls |-> IF c \in Matches(q) THEN "HONORED" ELSE db.promises[c]]
               hs == [c \in Calls |-> db.honours[c] + (IF c \in known THEN 1 ELSE 0)]
    <3>1. ps \in [Calls -> PromiseStatus \cup {None}] /\ hs \in [Calls -> Nat]
      BY <1>2 DEF Database, PromiseStatus
    <3>2. \/ db' = [db EXCEPT !.promises = ps, !.honours = hs] /\ UNCHANGED faults
          \/ db' = db /\ Fault
      BY <3>0 DEF Lodge
    <3> HIDE DEF ps, hs
    <3>3. QED
      BY <3>1, <3>2
  <2>3. db' \in Database /\ faults' \in Nat
    BY <1>2, <1>6, <2>2 DEF Database
  <2>4. QED
    BY <1>2, <1>21, <2>1, <2>3 DEF ServeVerify, TypeOK
<1>22. ASSUME NEW q \in net, ServeExtend(q) PROVE Goal
  <2>1. net' \subseteq Message /\ RequestInv'
    BY <1>7, <1>22 DEF ServeExtend
  <2>2. PICK ps \in [Calls -> PromiseStatus \cup {None}] :
          \/ db' = [db EXCEPT !.promises = ps] /\ UNCHANGED faults
          \/ db' = db /\ Fault
    <3> DEFINE ps == [c \in Calls |-> IF c \in Matches(q) THEN "EXTENDED" ELSE db.promises[c]]
    <3>1. ps \in [Calls -> PromiseStatus \cup {None}]
      BY <1>2 DEF Database, PromiseStatus
    <3>2. \/ db' = [db EXCEPT !.promises = ps] /\ UNCHANGED faults
          \/ db' = db /\ Fault
      BY <1>22 DEF ServeExtend, Lodge
    <3> HIDE DEF ps
    <3>3. QED
      BY <3>1, <3>2
  <2>3. db' \in Database /\ faults' \in Nat
    BY <1>2, <1>6, <2>2 DEF Database
  <2>4. QED
    BY <1>2, <1>22, <2>1, <2>3 DEF ServeExtend, TypeOK
<1>23. ASSUME NEW q \in net, Disconnect(q) PROVE Goal
  <2>1. net' \subseteq Message /\ RequestInv'
    BY <1>7, <1>23 DEF Disconnect
  <2>2. QED
    BY <1>2, <1>6, <1>23, <2>1 DEF Disconnect, TypeOK
<1>24. ASSUME NEW q \in net, LandCalls(q) PROVE Goal
  <2> DEFINE list == [i \in DOMAIN q.local |-> [id |-> q.local[i].sid]]
                       \o (IF q.ok THEN q.calls ELSE <<>>) \o DemoCalls
  <2>1. list \in Seq(CallRow)
    BY <1>3, MergedTypes
  <2>2. voice' = [voice EXCEPT !.calls = FirstSeen(list), !.asof = q.asof,
                               !.calling = voice.calling /\ ~q.holds]
    BY <1>24 DEF LandCalls
  <2> HIDE DEF list
  <2>3. FirstSeen(list) \in Seq(CallRow)
    BY <2>1, FirstSeenFacts
  <2>4. PICK merged \in Seq(CallRow) : merged = FirstSeen(list)
    BY <2>3
  <2>5. q.asof \in Nat
    BY <1>3, MessageFacts
  <2>6. voice' \in VoicePage
    BY <1>2, <2>2, <2>4, <2>5 DEF VoicePage
  <2>7. net' \subseteq Message /\ RequestInv'
    BY <1>5, <1>24 DEF LandCalls
  <2>8. QED
    BY <1>2, <1>24, <2>6, <2>7 DEF LandCalls, TypeOK
<1>25. ASSUME NEW q \in net, LandPromises(q) PROVE Goal
  <2> DEFINE list == [i \in DOMAIN q.local |-> LocalPromise(q.local[i])]
                       \o (IF q.ok THEN q.promises ELSE <<>>) \o DemoPromises
  <2>1. list \in Seq(PromiseRow)
    BY <1>3, MergedTypes
  <2>2. tracker' = [promises |-> FirstSeen(list), asof |-> q.asof]
    BY <1>25 DEF LandPromises
  <2> HIDE DEF list
  <2>3. FirstSeen(list) \in Seq(PromiseRow)
    BY <2>1, FirstSeenFacts
  <2>4. q.asof \in Nat
    BY <1>3, MessageFacts
  <2>5. tracker' \in TrackerPage
    BY <2>2, <2>3, <2>4 DEF TrackerPage
  <2>6. net' \subseteq Message /\ RequestInv'
    BY <1>5, <1>25 DEF LandPromises
  <2>7. QED
    BY <1>2, <1>25, <2>5, <2>6 DEF LandPromises, TypeOK
<1>26. ASSUME NEW q \in net, DialAnswered(q) PROVE Goal
  <2>1. CASE q.ok
    <3>1. PICK d : d = [sid |-> q.sid, form |-> q.form]
      OBVIOUS
    <3>2. q.sid \in Calls /\ q.form \in Form
      BY <1>3, <1>26, <2>1, MessageFacts DEF SoundRequest, DialAnswered
    <3>3. d \in Dispatch
      BY <3>1, <3>2 DEF Dispatch
    <3>4. /\ store' = Lodged(d) /\ lodged' = Append(lodged, q.sid) /\ voice' = voice
          /\ net' = (net \ {q}) \cup {Load(net \ {q}, "calls", Lodged(d), lodged', TRUE)}
      BY <1>26, <2>1, <3>1 DEF DialAnswered
    <3>5. store' \in Seq(Dispatch) /\ Len(store') <= KeepLocal
      BY <3>3, <3>4, LodgedFacts
    <3>6. lodged' \in Seq(Calls) /\ Len(lodged') \in Nat
      BY <1>2, <3>2, <3>4, AppendFacts
    <3>7. PICK r : r = Load(net \ {q}, "calls", store', lodged', TRUE)
      OBVIOUS
    <3>8. IsFiniteSet(net \ {q})
      BY <1>2, FS_RemoveElement
    <3>9. r \in Message /\ r.kind = "calls"
      BY <3>5, <3>6, <3>7, <3>8, RequestFacts DEF Load, Request, Message
    <3>10. r.pc = "sent"
      BY <3>7 DEF Load, Request
    <3>11. SoundRequest(r)
      BY <3>9, <3>10 DEF SoundRequest
    <3>12. net' \subseteq Message /\ RequestInv'
      BY <1>5, <3>4, <3>7, <3>11
    <3>13. QED
      BY <1>2, <1>26, <3>4, <3>5, <3>6, <3>12 DEF DialAnswered, TypeOK
  <2>2. CASE ~q.ok
    <3>1. voice' \in VoicePage
      BY <1>2, <1>26, <2>2 DEF DialAnswered, VoicePage
    <3>2. net' \subseteq Message /\ RequestInv'
      BY <1>5, <1>26, <2>2 DEF DialAnswered
    <3>3. QED
      BY <1>2, <1>26, <2>2, <3>1, <3>2 DEF DialAnswered, TypeOK
  <2>3. QED
    BY <2>1, <2>2
<1>27. ASSUME NEW q \in net, WriteAnswered(q) PROVE Goal
  <2>1. net' \subseteq Message /\ RequestInv'
    <3>1. CASE q.ok
      <4>1. PICK r : r = Load(net \ {q}, "promises", store, lodged, FALSE)
        OBVIOUS
      <4>2. IsFiniteSet(net \ {q})
        BY <1>2, FS_RemoveElement
      <4>3. r \in Message /\ r.kind = "promises"
        BY <1>2, <4>1, <4>2, RequestFacts DEF Load, Request, Message
      <4>4. r.pc = "sent"
        BY <4>1 DEF Load, Request
      <4>5. SoundRequest(r)
        BY <4>3, <4>4 DEF SoundRequest
      <4>6. QED
        BY <1>5, <1>27, <3>1, <4>1, <4>5 DEF WriteAnswered
    <3>2. CASE ~q.ok
      <4>1. net' = net \ {q}
        BY <1>27, <3>2 DEF WriteAnswered
      <4>2. QED
        BY <1>5, <4>1
    <3>3. QED
      BY <3>1, <3>2
  <2>2. QED
    BY <1>2, <1>27, <2>1 DEF WriteAnswered, TypeOK
<1>28. CASE UNCHANGED vars
  BY <1>2, <1>5, <1>28 DEF vars, TypeOK
<1>29. QED
  BY <1>9, <1>10, <1>12, <1>13, <1>14, <1>16, <1>17, <1>18, <1>19, <1>20, <1>21, <1>22,
     <1>23, <1>24, <1>25, <1>26, <1>27, <1>28 DEF Next, Operator, Serve, Land

(* How the size of a finite set changes with its elements.                 *)
LEMMA SetCounts ==
  ASSUME NEW S, IsFiniteSet(S), NEW T, NEW x
  PROVE  /\ Cardinality(S) \in Nat
         /\ T \subseteq S => Cardinality(T) \in Nat /\ Cardinality(T) <= Cardinality(S)
         /\ T \subseteq S \cup {x} => Cardinality(T) \in Nat /\ Cardinality(T) <= Cardinality(S) + 1
         /\ T \subseteq S \ {x} /\ x \in S
              => Cardinality(T) \in Nat /\ Cardinality(T) <= Cardinality(S) - 1
<1>1. Cardinality(S) \in Nat
  BY FS_CardinalityType
<1>2. /\ IsFiniteSet(S \cup {x}) /\ Cardinality(S \cup {x}) \in Nat
      /\ Cardinality(S \cup {x}) <= Cardinality(S) + 1
  BY <1>1, FS_AddElement, FS_CardinalityType
<1>3. /\ IsFiniteSet(S \ {x}) /\ Cardinality(S \ {x}) \in Nat
      /\ x \in S => Cardinality(S \ {x}) = Cardinality(S) - 1
  BY <1>1, FS_RemoveElement, FS_CardinalityType
<1>4. T \subseteq S => Cardinality(T) \in Nat /\ Cardinality(T) <= Cardinality(S)
  BY FS_Subset, FS_CardinalityType
<1>5. T \subseteq S \cup {x} => Cardinality(T) \in Nat /\ Cardinality(T) <= Cardinality(S \cup {x})
  BY <1>2, FS_Subset, FS_CardinalityType
<1>6. T \subseteq S \ {x} => Cardinality(T) \in Nat /\ Cardinality(T) <= Cardinality(S \ {x})
  BY <1>3, FS_Subset, FS_CardinalityType
<1>7. QED
  BY <1>1, <1>2, <1>3, <1>4, <1>5, <1>6

(* Every step keeps the counts: a placed call was being dialled, and a     *)
(* promise is honoured by a request that was under way.                    *)
LEMMA NextCounts ==
  TypeOK /\ RequestInv /\ CountInv /\ [Next]_vars => CountInv'
<1> SUFFICES ASSUME TypeOK, RequestInv, CountInv, [Next]_vars
             PROVE  CountInv'
  OBVIOUS
<1>1. /\ db \in Database /\ asked \in [Calls -> Nat] /\ clicks \in [Controls -> Nat]
      /\ IsFiniteSet(net) /\ MaxCalls \in Nat /\ MaxLoads \in Nat /\ MaxEdits \in Nat
      /\ MaxWrites \in Nat /\ Controls = {"dials", "edits", "loads", "writes"}
  BY CallsAssumption DEF TypeOK, RequestInv, Controls
<1>2. /\ db.placed \in Nat /\ clicks["dials"] \in Nat
      /\ \A c \in Calls : asked[c] \in Nat /\ db.honours[c] \in Nat
  BY <1>1 DEF Database
<1>3. IsFiniteSet(Dialling) /\ \A c : IsFiniteSet(Verifying(c))
  <2>1. Dialling \in SUBSET net /\ \A c : Verifying(c) \in SUBSET net
    BY DEF Dialling, Verifying
  <2>2. QED
    BY <1>1, <2>1, FS_Subset
<1>4. /\ db.placed + Cardinality(Dialling) <= clicks["dials"]
      /\ \A c \in Calls : /\ db.honours[c] + Cardinality(Verifying(c)) <= asked[c]
                          /\ db.promises[c] = "HONORED" => asked[c] > 0
  BY DEF CountInv
<1> DEFINE DialsFit == db'.placed + Cardinality(Dialling') <= clicks'["dials"]
           HonoursFit == \A c \in Calls :
                           /\ db'.honours[c] + Cardinality(Verifying(c)') <= asked'[c]
                           /\ db'.promises[c] = "HONORED" => asked'[c] > 0
<1>5. DialsFit /\ HonoursFit => CountInv'
  BY DEF CountInv
<1>6. db'.placed = db.placed /\ Dialling' \subseteq Dialling /\ clicks'["dials"] = clicks["dials"]
        => DialsFit
  <2> HIDE DEF DialsFit
  <2> SUFFICES ASSUME db'.placed = db.placed, Dialling' \subseteq Dialling,
                      clicks'["dials"] = clicks["dials"]
               PROVE  DialsFit
    OBVIOUS
  <2>1. Cardinality(Dialling') \in Nat /\ Cardinality(Dialling) \in Nat
        /\ Cardinality(Dialling') <= Cardinality(Dialling)
    BY <1>3, SetCounts
  <2>2. QED
    BY <1>2, <1>4, <2>1 DEF DialsFit
<1>7. /\ db'.honours = db.honours /\ asked' = asked
      /\ \A c \in Calls : db'.promises[c] = "HONORED" => db.promises[c] = "HONORED"
      /\ \A c \in Calls : Verifying(c)' \subseteq Verifying(c)
      => HonoursFit
  <2> HIDE DEF HonoursFit
  <2> SUFFICES ASSUME db'.honours = db.honours, asked' = asked,
                      \A c \in Calls : db'.promises[c] = "HONORED" => db.promises[c] = "HONORED",
                      \A c \in Calls : Verifying(c)' \subseteq Verifying(c)
               PROVE  HonoursFit
    OBVIOUS
  <2>1. ASSUME NEW c \in Calls
        PROVE  db'.honours[c] + Cardinality(Verifying(c)') <= asked'[c]
    <3>1. /\ Cardinality(Verifying(c)') \in Nat /\ Cardinality(Verifying(c)) \in Nat
          /\ Cardinality(Verifying(c)') <= Cardinality(Verifying(c))
      BY <1>3, SetCounts
    <3>2. QED
      BY <1>2, <1>4, <3>1
  <2>2. QED
    BY <1>4, <2>1 DEF HonoursFit
<1> HIDE DEF DialsFit, HonoursFit
\* A step that issues at most a load, and removes or answers a request.
<1>8. \A q \in net, ok \in BOOLEAN : Answer(q, ok) =>
        /\ Dialling' \subseteq Dialling \ {q}
        /\ \A c \in Calls : Verifying(c)' \subseteq Verifying(c) \ {q}
  <2> SUFFICES ASSUME NEW q \in net, NEW ok \in BOOLEAN, Answer(q, ok)
               PROVE  /\ Dialling' \subseteq Dialling \ {q}
                      /\ \A c \in Calls : Verifying(c)' \subseteq Verifying(c) \ {q}
    OBVIOUS
  <2>1. PICK r : r = [q EXCEPT !.pc = "reply", !.ok = ok]
    OBVIOUS
  <2>2. q \in Message
    BY DEF TypeOK
  <2>3. r.pc = "reply"
    BY <2>1, <2>2, AnswerFacts
  <2>4. net' = (net \ {q}) \cup {r}
    BY <2>1 DEF Answer, Step
  <2>5. QED
    BY <2>3, <2>4 DEF Dialling, Verifying
<1>9. ASSUME NEW x, NEW r, net' \subseteq (net \ {x}) \cup {r} \/ net' \subseteq net \cup {r},
             r.kind \in {"calls", "promises", "extend"}
      PROVE  Dialling' \subseteq Dialling /\ \A c \in Calls : Verifying(c)' \subseteq Verifying(c)
  BY <1>9 DEF Dialling, Verifying
<1>10. ASSUME net' \subseteq net
       PROVE  Dialling' \subseteq Dialling /\ \A c \in Calls : Verifying(c)' \subseteq Verifying(c)
  BY <1>10 DEF Dialling, Verifying
<1>11. ASSUME db' = db, asked' = asked, clicks'["dials"] = clicks["dials"],
              Dialling' \subseteq Dialling, \A c \in Calls : Verifying(c)' \subseteq Verifying(c)
       PROVE  CountInv'
  BY <1>5, <1>6, <1>7, <1>11
<1>12. ASSUME NEW kind \in {"calls", "promises"}, Open(kind), db' = db, asked' = asked
       PROVE  CountInv'
  <2>1. PICK r : r = Load(net, kind, store, lodged, FALSE)
    OBVIOUS
  <2>2. r.kind = kind
    BY <2>1 DEF Load, Request
  <2>3. net' = net \cup {r}
    BY <1>12, <2>1 DEF Open, Issue
  <2>4. Dialling' \subseteq Dialling /\ \A c \in Calls : Verifying(c)' \subseteq Verifying(c)
    BY <1>9, <2>2, <2>3
  <2>5. clicks'["dials"] = clicks["dials"]
    BY <1>1, <1>12 DEF Open, Click
  <2>6. QED
    BY <1>11, <1>12, <2>4, <2>5
<1>13. ASSUME OpenVoice PROVE CountInv'
  BY <1>12, <1>13 DEF OpenVoice
<1>14. ASSUME OpenTracker PROVE CountInv'
  BY <1>12, <1>14 DEF OpenTracker
<1>15. ASSUME NEW w \in Workflows \cup {None}, ChooseWorkflow(w) PROVE CountInv'
  <2>1. clicks'["dials"] = clicks["dials"]
    BY <1>1, <1>15 DEF ChooseWorkflow, Click
  <2>2. QED
    BY <1>10, <1>11, <1>15, <2>1 DEF ChooseWorkflow
<1>16. ASSUME TypePhone PROVE CountInv'
  <2>1. clicks'["dials"] = clicks["dials"]
    BY <1>1, <1>16 DEF TypePhone, Click
  <2>2. QED
    BY <1>10, <1>11, <1>16, <2>1 DEF TypePhone
<1>17. ASSUME TriggerCallSimulation PROVE CountInv'
  <2>1. PICK r : r = Request(net, "dial", voice.form, DemoPromises[1].id, TRUE)
    OBVIOUS
  <2>2. r.kind = "dial" /\ net' = net \cup {r}
    BY <1>17, <2>1 DEF TriggerCallSimulation, Issue, Request
  <2>3. Dialling' \subseteq Dialling \cup {r} /\ \A c \in Calls : Verifying(c)' \subseteq Verifying(c)
    BY <2>2 DEF Dialling, Verifying
  <2>4. clicks'["dials"] = clicks["dials"] + 1
    BY <1>1, <1>17 DEF TriggerCallSimulation, Click
  <2>5. /\ Cardinality(Dialling') \in Nat /\ Cardinality(Dialling) \in Nat
        /\ Cardinality(Dialling') <= Cardinality(Dialling) + 1
    BY <1>3, <2>3, SetCounts
  <2>6. db' = db /\ asked' = asked
    BY <1>17 DEF TriggerCallSimulation
  <2>7. DialsFit
    BY <1>2, <1>4, <2>4, <2>5, <2>6 DEF DialsFit
  <2>8. QED
    BY <1>5, <1>7, <2>3, <2>6, <2>7
<1>18. ASSUME NEW r \in ToSet(tracker.promises), VerifyPayment(r) PROVE CountInv'
  <2>1. PICK q : q = Request(net, "verify", EmptyForm, r.id, FALSE)
    OBVIOUS
  <2>2. q.kind = "verify" /\ q.row = r.id /\ net' = net \cup {q}
    BY <1>18, <2>1 DEF VerifyPayment, Write, Issue, Request
  <2>3. Dialling' \subseteq Dialling
    BY <2>2 DEF Dialling
  <2>4. clicks'["dials"] = clicks["dials"] /\ db' = db
    BY <1>1, <1>18 DEF VerifyPayment, Write, Click
  <2>5. ASSUME NEW c \in Calls
        PROVE  /\ db'.honours[c] + Cardinality(Verifying(c)') <= asked'[c]
               /\ db'.promises[c] = "HONORED" => asked'[c] > 0
    <3>1. CASE r.id = [kind |-> "db", call |-> c]
      <4>1. asked'[c] = asked[c] + 1
        BY <1>2, <1>18, <3>1 DEF VerifyPayment
      <4>2. Verifying(c)' \subseteq Verifying(c) \cup {q}
        BY <2>2 DEF Verifying
      <4>3. /\ Cardinality(Verifying(c)') \in Nat /\ Cardinality(Verifying(c)) \in Nat
            /\ Cardinality(Verifying(c)') <= Cardinality(Verifying(c)) + 1
        BY <1>3, <4>2, SetCounts
      <4>4. QED
        BY <1>2, <1>4, <2>4, <4>1, <4>3
    <3>2. CASE r.id # [kind |-> "db", call |-> c]
      <4>1. asked'[c] = asked[c]
        BY <1>2, <1>18, <3>2 DEF VerifyPayment
      <4>2. Verifying(c)' \subseteq Verifying(c)
        BY <2>2, <3>2 DEF Verifying
      <4>3. /\ Cardinality(Verifying(c)') \in Nat /\ Cardinality(Verifying(c)) \in Nat
            /\ Cardinality(Verifying(c)') <= Cardinality(Verifying(c))
        BY <1>3, <4>2, SetCounts
      <4>4. QED
        BY <1>2, <1>4, <2>4, <4>1, <4>3
    <3>3. QED
      BY <3>1, <3>2
  <2>6. HonoursFit
    BY <2>5 DEF HonoursFit
  <2>7. QED
    BY <1>5, <1>6, <2>3, <2>4, <2>6
<1>19. ASSUME NEW r \in ToSet(tracker.promises), ExtendPromise(r) PROVE CountInv'
  <2>1. PICK q : q = Request(net, "extend", EmptyForm, r.id, FALSE)
    OBVIOUS
  <2>2. q.kind = "extend" /\ net' = net \cup {q}
    BY <1>19, <2>1 DEF ExtendPromise, Write, Issue, Request
  <2>3. Dialling' \subseteq Dialling /\ \A c \in Calls : Verifying(c)' \subseteq Verifying(c)
    BY <1>9, <2>2
  <2>4. clicks'["dials"] = clicks["dials"]
    BY <1>1, <1>19 DEF ExtendPromise, Write, Click
  <2>5. QED
    BY <1>11, <1>19, <2>3, <2>4 DEF ExtendPromise
<1>20. ASSUME NEW q \in net, InitiateCall(q) PROVE CountInv'
  <2>1. CASE Fault /\ Answer(q, FALSE) /\ UNCHANGED db
    <3>1. Dialling' \subseteq Dialling /\ \A c \in Calls : Verifying(c)' \subseteq Verifying(c)
      BY <1>8, <2>1
    <3>2. QED
      BY <1>11, <1>20, <2>1, <3>1 DEF InitiateCall
  <2>2. CASE /\ db' = [db EXCEPT !.placed = @ + 1]
             /\ Step(q, [q EXCEPT !.pc = "placed", !.sid = db.placed + 1])
    <3>1. q \in Dialling /\ q \in Message
      BY <1>20 DEF InitiateCall, Dialling, TypeOK
    <3>2. PICK r : r = [q EXCEPT !.pc = "placed", !.sid = db.placed + 1]
      OBVIOUS
    <3>3. r.pc = "placed" /\ net' = (net \ {q}) \cup {r}
      BY <2>2, <3>1, <3>2 DEF Step, Message
    <3>4. /\ Dialling' \subseteq Dialling \ {q}
          /\ \A c \in Calls : Verifying(c)' \subseteq Verifying(c)
      BY <3>3 DEF Dialling, Verifying
    <3>5. /\ Cardinality(Dialling') \in Nat /\ Cardinality(Dialling) \in Nat
          /\ Cardinality(Dialling') <= Cardinality(Dialling) - 1
      BY <1>3, <3>1, <3>4, SetCounts
    <3>6. db'.placed = db.placed + 1 /\ db'.honours = db.honours /\ db'.promises = db.promises
      BY <1>1, <2>2 DEF Database
    <3>7. clicks' = clicks /\ asked' = asked
      BY <1>20 DEF InitiateCall
    <3>8. DialsFit
      BY <1>2, <1>4, <3>5, <3>6, <3>7 DEF DialsFit
    <3>9. QED
      BY <1>5, <1>7, <3>4, <3>6, <3>7, <3>8
  <2>3. QED
    BY <1>20, <2>1, <2>2 DEF InitiateCall
<1>21. ASSUME NEW q \in net, LodgeCall(q) PROVE CountInv'
  <2>1. Dialling' \subseteq Dialling /\ \A c \in Calls : Verifying(c)' \subseteq Verifying(c)
    BY <1>8, <1>21 DEF LodgeCall
  <2>2. /\ db'.placed = db.placed /\ db'.honours = db.honours
        /\ \A c \in Calls : db'.promises[c] = "HONORED" => db.promises[c] = "HONORED"
    <3>1. PICK ps \in [Calls -> PromiseStatus \cup {None}], cs \in SUBSET Calls,
               as \in SUBSET Entry, us \in SUBSET Entry : Lodges(q, ps, cs, as, us)
      BY <1>21, CallRows
    <3>2. QED
      BY <1>1, <3>1 DEF Database, Lodges
  <2>3. clicks' = clicks /\ asked' = asked
    BY <1>21 DEF LodgeCall
  <2>4. QED
    BY <1>5, <1>6, <1>7, <2>1, <2>2, <2>3
<1>22. ASSUME NEW q \in net, ServeList(q) PROVE CountInv'
  <2>1. PICK r \in Message : /\ net' = (net \ {q}) \cup {r} /\ SameRequest(q, r)
                             /\ q.kind \in {"calls", "promises"}
    BY <1>22, ListAnswered
  <2>2. Dialling' \subseteq Dialling /\ \A c \in Calls : Verifying(c)' \subseteq Verifying(c)
    BY <1>9, <2>1 DEF SameRequest
  <2>3. QED
    BY <1>11, <1>22, <2>2 DEF ServeList
<1>23. ASSUME NEW q \in net, ServeVerify(q) PROVE CountInv'
  <2>1. /\ Dialling' \subseteq Dialling
        /\ \A c \in Calls : Verifying(c)' \subseteq Verifying(c) \ {q}
    BY <1>8, <1>23 DEF ServeVerify
  <2>2. clicks' = clicks /\ asked' = asked
    BY <1>23 DEF ServeVerify
  <2>0. PICK known \in SUBSET Matches(q) : Lodge([db EXCEPT
          !.promises = [c \in Calls |-> IF c \in Matches(q) THEN "HONORED" ELSE db.promises[c]],
          !.honours = [c \in Calls |-> db.honours[c] + (IF c \in known THEN 1 ELSE 0)]])
    BY <1>23 DEF ServeVerify
  <2> DEFINE ps == [c \in Calls |-> IF c \in Matches(q) THEN "HONORED" ELSE db.promises[c]]
             hs == [c \in Calls |-> db.honours[c] + (IF c \in known THEN 1 ELSE 0)]
  <2>3. db' = [db EXCEPT !.promises = ps, !.honours = hs] \/ db' = db
    BY <2>0 DEF Lodge
  <2>4. CASE db' = db
    BY <1>11, <2>1, <2>2, <2>4
  <2>5. CASE db' = [db EXCEPT !.promises = ps, !.honours = hs]
    <3>1. db'.placed = db.placed /\ db'.promises = ps /\ db'.honours = hs
      <4> HIDE DEF ps, hs
      <4>1. QED
        BY <1>1, <2>5 DEF Database
    <3>2. ASSUME NEW c \in Calls
          PROVE  /\ db'.honours[c] + Cardinality(Verifying(c)') <= asked'[c]
                 /\ db'.promises[c] = "HONORED" => asked'[c] > 0
      <4>1. CASE c \in Matches(q)
        <5>1. q \in Verifying(c)
          BY <1>23, <4>1 DEF ServeVerify, Matches, Verifying
        <5>2. db'.honours[c] \in {db.honours[c], db.honours[c] + 1}
          BY <1>2, <3>1
        <5>3. /\ Cardinality(Verifying(c)') \in Nat /\ Cardinality(Verifying(c)) \in Nat
              /\ Cardinality(Verifying(c)') <= Cardinality(Verifying(c)) - 1
          BY <1>3, <2>1, <5>1, SetCounts
        <5>4. QED
          BY <1>2, <1>4, <2>2, <5>2, <5>3
      <4>2. CASE c \notin Matches(q)
        <5>1. db'.honours[c] = db.honours[c] /\ db'.promises[c] = db.promises[c]
          BY <1>2, <3>1, <4>2
        <5>2. Verifying(c)' \subseteq Verifying(c)
          BY <2>1
        <5>3. /\ Cardinality(Verifying(c)') \in Nat /\ Cardinality(Verifying(c)) \in Nat
              /\ Cardinality(Verifying(c)') <= Cardinality(Verifying(c))
          BY <1>3, <5>2, SetCounts
        <5>4. QED
          BY <1>2, <1>4, <2>2, <5>1, <5>3
      <4>3. QED
        BY <4>1, <4>2
    <3>3. HonoursFit
      BY <3>2 DEF HonoursFit
    <3>4. QED
      BY <1>5, <1>6, <2>1, <2>2, <3>1, <3>3
  <2>6. QED
    BY <2>3, <2>4, <2>5
<1>24. ASSUME NEW q \in net, ServeExtend(q) PROVE CountInv'
  <2>1. Dialling' \subseteq Dialling /\ \A c \in Calls : Verifying(c)' \subseteq Verifying(c)
    BY <1>8, <1>24 DEF ServeExtend
  <2>2. /\ db'.placed = db.placed /\ db'.honours = db.honours
        /\ \A c \in Calls : db'.promises[c] = "HONORED" => db.promises[c] = "HONORED"
    BY <1>1, <1>24 DEF ServeExtend, Lodge, Database
  <2>3. clicks' = clicks /\ asked' = asked
    BY <1>24 DEF ServeExtend
  <2>4. QED
    BY <1>5, <1>6, <1>7, <2>1, <2>2, <2>3
<1>25. ASSUME NEW q \in net, Disconnect(q) PROVE CountInv'
  <2>1. Dialling' \subseteq Dialling /\ \A c \in Calls : Verifying(c)' \subseteq Verifying(c)
    BY <1>8, <1>25 DEF Disconnect
  <2>2. QED
    BY <1>11, <1>25, <2>1 DEF Disconnect
<1>26. ASSUME NEW q \in net, LandCalls(q) PROVE CountInv'
  BY <1>10, <1>11, <1>26 DEF LandCalls
<1>27. ASSUME NEW q \in net, LandPromises(q) PROVE CountInv'
  BY <1>10, <1>11, <1>27 DEF LandPromises
<1>28. ASSUME NEW q \in net, DialAnswered(q) PROVE CountInv'
  <2>1. Dialling' \subseteq Dialling /\ \A c \in Calls : Verifying(c)' \subseteq Verifying(c)
    <3>1. CASE q.ok
      <4>1. PICK r : r = Load(net \ {q}, "calls", Lodged([sid |-> q.sid, form |-> q.form]), lodged', TRUE)
        OBVIOUS
      <4>2. r.kind = "calls" /\ net' = (net \ {q}) \cup {r}
        BY <1>28, <3>1, <4>1 DEF DialAnswered, Load, Request
      <4>3. QED
        BY <1>9, <4>2
    <3>2. CASE ~q.ok
      BY <1>10, <1>28, <3>2 DEF DialAnswered
    <3>3. QED
      BY <3>1, <3>2
  <2>2. QED
    BY <1>11, <1>28, <2>1 DEF DialAnswered
<1>29. ASSUME NEW q \in net, WriteAnswered(q) PROVE CountInv'
  <2>1. PICK r : r = Load(net \ {q}, "promises", store, lodged, FALSE)
    OBVIOUS
  <2>2. r.kind = "promises" /\ net' \subseteq (net \ {q}) \cup {r}
    BY <1>29, <2>1 DEF WriteAnswered, Load, Request
  <2>3. Dialling' \subseteq Dialling /\ \A c \in Calls : Verifying(c)' \subseteq Verifying(c)
    BY <1>9, <2>2
  <2>4. QED
    BY <1>11, <1>29, <2>3 DEF WriteAnswered
<1>30. CASE UNCHANGED vars
  BY <1>10, <1>11, <1>30 DEF vars
<1>31. QED
  BY <1>13, <1>14, <1>15, <1>16, <1>17, <1>18, <1>19, <1>20, <1>21, <1>22, <1>23, <1>24,
     <1>25, <1>26, <1>27, <1>28, <1>29, <1>30 DEF Next, Operator, Serve, Land

(* The invariant of the requests, the tables and what was asked for.       *)
LEMMA RequestsInvariant == Spec => [](TypeOK /\ RequestInv /\ CountInv)
<1>1. Init => TypeOK /\ RequestInv /\ CountInv
  <2> SUFFICES ASSUME Init PROVE TypeOK /\ RequestInv /\ CountInv
    OBVIOUS
  <2>1. MaxCalls \in Nat /\ MaxWrites \in Nat /\ KeepLocal \in Nat
    BY CallsAssumption
  <2>2. db \in Database
    BY DEF Init, Database, PromiseStatus
  <2>3. voice \in VoicePage /\ tracker \in TrackerPage
    BY ConstantFacts DEF Init, VoicePage, TrackerPage
  <2>4. store \in Seq(Dispatch) /\ Len(store) = 0 /\ lodged \in Seq(Calls)
    BY DEF Init
  <2>5. TypeOK
    BY <2>1, <2>2, <2>3, <2>4 DEF Init, TypeOK, Controls
  <2>6. RequestInv
    BY FS_EmptySet DEF Init, RequestInv
  <2>7. Cardinality(Dialling) = 0 /\ \A c : Cardinality(Verifying(c)) = 0
    BY FS_EmptySet DEF Init, Dialling, Verifying
  <2>8. CountInv
    BY <2>7 DEF Init, CountInv, Controls, None
  <2>9. QED
    BY <2>5, <2>6, <2>8
<1>2. QED
  BY <1>1, NextTypes, NextCounts, PTL DEF Spec

(* A promise is honoured only if the operator verified it, and no more     *)
(* often than that: a copy only the browser knows changes no promise       *)
(* (handlers/ptp.go, PTPHandler).                                          *)
THEOREM PromisesAreVerified == Spec => []HonouredWasVerified
<1>1. TypeOK /\ RequestInv /\ CountInv => HonouredWasVerified
  <2> SUFFICES ASSUME TypeOK, RequestInv, CountInv, NEW c \in Calls
               PROVE  /\ db.promises[c] = "HONORED" => asked[c] > 0
                      /\ db.honours[c] <= asked[c]
    BY DEF HonouredWasVerified
  <2>1. Verifying(c) \in SUBSET net /\ IsFiniteSet(net)
    BY DEF Verifying, RequestInv
  <2>2. Cardinality(Verifying(c)) \in Nat
    BY <2>1, FS_Subset, FS_CardinalityType
  <2>3. db.honours[c] \in Nat /\ asked[c] \in Nat
    BY DEF TypeOK, Database
  <2>4. QED
    BY <2>2, <2>3 DEF CountInv
<1>2. QED
  BY <1>1, RequestsInvariant, PTL

(* Where the requests under way come from: the API and the network only    *)
(* move them on, a dial carries the form, and a load what the browser's    *)
(* record is when it is issued.                                            *)
Origin(r) ==
  \/ \E q \in net : SameRequest(q, r)
  \/ r.form = voice.form /\ r.kind = "dial"
  \/ /\ r.form = EmptyForm
     /\ r.kind \in {"calls", "promises"} => r.local = store' /\ r.asof = Len(lodged')

LEMMA NetOrigins ==
  TypeOK /\ RequestInv /\ CountInv /\ [Next]_vars => \A r \in net' : Origin(r)
<1> SUFFICES ASSUME TypeOK, RequestInv, CountInv, [Next]_vars
             PROVE  \A r \in net' : Origin(r)
  OBVIOUS
<1> DEFINE Goal == \A r \in net' : Origin(r)
<1>1. \A q \in net : q \in Message
  BY DEF TypeOK
<1>2. \A q \in net : Origin(q)
  BY DEF Origin, SameRequest
<1>3. ASSUME NEW r, Origin(r), net' \subseteq net \cup {r} PROVE Goal
  BY <1>2, <1>3
<1>4. ASSUME net' \subseteq net PROVE Goal
  BY <1>2, <1>4
<1>5. ASSUME NEW q \in net, NEW ok \in BOOLEAN, Answer(q, ok) PROVE Goal
  <2>1. PICK r : r = [q EXCEPT !.pc = "reply", !.ok = ok]
    OBVIOUS
  <2>2. SameRequest(q, r)
    BY <1>1, <2>1, AnswerFacts
  <2>3. net' = (net \ {q}) \cup {r}
    BY <1>5, <2>1 DEF Answer, Step
  <2>4. Origin(r)
    BY <2>2 DEF Origin
  <2>5. QED
    BY <1>3, <2>3, <2>4
<1>6. ASSUME NEW kind \in {"calls", "promises"}, Open(kind), store' = store, lodged' = lodged
      PROVE  Goal
  <2>1. PICK r : r = Load(net, kind, store, lodged, FALSE)
    OBVIOUS
  <2>2. r.form = EmptyForm /\ r.local = store /\ r.asof = Len(lodged)
    BY <2>1 DEF Load, Request
  <2>3. Origin(r)
    BY <1>6, <2>2 DEF Origin
  <2>4. QED
    BY <1>3, <1>6, <2>1, <2>3 DEF Open, Issue
<1>7. OpenVoice \/ OpenTracker => Goal
  BY <1>6 DEF OpenVoice, OpenTracker
<1>8. ASSUME NEW w \in Workflows \cup {None}, ChooseWorkflow(w) PROVE Goal
  BY <1>4, <1>8 DEF ChooseWorkflow
<1>9. ASSUME TypePhone PROVE Goal
  BY <1>4, <1>9 DEF TypePhone
<1>10. ASSUME TriggerCallSimulation PROVE Goal
  <2>1. PICK r : r = Request(net, "dial", voice.form, DemoPromises[1].id, TRUE)
    OBVIOUS
  <2>2. r.form = voice.form /\ r.kind = "dial"
    BY <2>1 DEF Request
  <2>3. Origin(r)
    BY <2>2 DEF Origin
  <2>4. QED
    BY <1>3, <1>10, <2>1, <2>3 DEF TriggerCallSimulation, Issue
<1>11. ASSUME NEW p, NEW kind \in {"verify", "extend"}, Write(kind, p) PROVE Goal
  <2>1. PICK r : r = Request(net, kind, EmptyForm, p.id, FALSE)
    OBVIOUS
  <2>2. r.form = EmptyForm /\ r.kind = kind
    BY <2>1 DEF Request
  <2>3. Origin(r)
    BY <2>2 DEF Origin
  <2>4. QED
    BY <1>3, <1>11, <2>1, <2>3 DEF Write, Issue
<1>12. ASSUME NEW p \in ToSet(tracker.promises), VerifyPayment(p) \/ ExtendPromise(p) PROVE Goal
  BY <1>11, <1>12 DEF VerifyPayment, ExtendPromise
<1>13. ASSUME NEW q \in net, InitiateCall(q) PROVE Goal
  <2>1. CASE Answer(q, FALSE)
    BY <1>5, <2>1
  <2>2. CASE Step(q, [q EXCEPT !.pc = "placed", !.sid = db.placed + 1])
    <3>1. PICK r : r = [q EXCEPT !.pc = "placed", !.sid = db.placed + 1]
      OBVIOUS
    <3>2. SameRequest(q, r)
      BY <1>1, <3>1 DEF Message, SameRequest
    <3>3. Origin(r)
      BY <3>2 DEF Origin
    <3>4. QED
      BY <1>3, <2>2, <3>1, <3>3 DEF Step
  <2>3. QED
    BY <1>13, <2>1, <2>2 DEF InitiateCall
<1>14. ASSUME NEW q \in net, ServeList(q) PROVE Goal
  <2>1. PICK r \in Message : net' = (net \ {q}) \cup {r} /\ SameRequest(q, r)
    BY <1>14, ListAnswered
  <2>2. Origin(r)
    BY <2>1 DEF Origin
  <2>3. QED
    BY <1>3, <2>1, <2>2
<1>15. ASSUME NEW q \in net, LodgeCall(q) \/ ServeVerify(q) \/ ServeExtend(q) \/ Disconnect(q)
       PROVE  Goal
  BY <1>5, <1>15 DEF LodgeCall, ServeVerify, ServeExtend, Disconnect
<1>16. ASSUME NEW q \in net, LandCalls(q) \/ LandPromises(q) PROVE Goal
  BY <1>4, <1>16 DEF LandCalls, LandPromises
<1>17. ASSUME NEW q \in net, DialAnswered(q) PROVE Goal
  <2>1. CASE q.ok
    <3>1. PICK d : d = [sid |-> q.sid, form |-> q.form]
      OBVIOUS
    <3>2. store' = Lodged(d)
      BY <1>17, <2>1, <3>1 DEF DialAnswered
    <3>3. PICK r : r = Load(net \ {q}, "calls", Lodged(d), lodged', TRUE)
      OBVIOUS
    <3>4. net' = (net \ {q}) \cup {r}
      BY <1>17, <2>1, <3>1, <3>3 DEF DialAnswered
    <3>5. r.form = EmptyForm /\ r.local = store' /\ r.asof = Len(lodged')
      BY <3>2, <3>3 DEF Load, Request
    <3>6. Origin(r)
      BY <3>5 DEF Origin
    <3>7. QED
      BY <1>3, <3>4, <3>6
  <2>2. CASE ~q.ok
    BY <1>4, <1>17, <2>2 DEF DialAnswered
  <2>3. QED
    BY <2>1, <2>2
<1>18. ASSUME NEW q \in net, WriteAnswered(q) PROVE Goal
  <2>1. PICK r : r = Load(net \ {q}, "promises", store, lodged, FALSE)
    OBVIOUS
  <2>2. r.form = EmptyForm /\ r.local = store /\ r.asof = Len(lodged)
    BY <2>1 DEF Load, Request
  <2>3. Origin(r)
    BY <1>18, <2>2 DEF Origin, WriteAnswered
  <2>4. net' \subseteq net \cup {r}
    BY <1>18, <2>1 DEF WriteAnswered
  <2>5. QED
    BY <1>3, <2>3, <2>4
<1>19. CASE UNCHANGED vars
  BY <1>4, <1>19 DEF vars
<1>20. QED
  BY <1>7, <1>8, <1>9, <1>10, <1>12, <1>13, <1>14, <1>15, <1>16, <1>17, <1>18, <1>19
     DEF Next, Operator, Serve, Land

(* What a step does to the browser's record: nothing, or one dispatch of   *)
(* a call that a dial was answered with.                                   *)
LEMMA RecordSteps ==
  ASSUME TypeOK, RequestInv, [Next]_vars
  PROVE  \/ store' = store /\ lodged' = lodged
         \/ \E q \in net : /\ DialAnswered(q) /\ q.sid \in Calls /\ q.form \in Form
                           /\ store' = Lodged([sid |-> q.sid, form |-> q.form])
                           /\ lodged' = Append(lodged, q.sid)
<1>1. ASSUME NEW q \in net, DialAnswered(q), q.ok
      PROVE  /\ q.sid \in Calls /\ q.form \in Form
             /\ store' = Lodged([sid |-> q.sid, form |-> q.form])
             /\ lodged' = Append(lodged, q.sid)
  <2>1. SoundRequest(q)
    BY AllSound
  <2>2. QED
    BY <1>1, <2>1, MessageFacts DEF DialAnswered, SoundRequest
<1>2. ASSUME NEW q \in net, DialAnswered(q), ~q.ok
      PROVE  store' = store /\ lodged' = lodged
  BY <1>2 DEF DialAnswered
<1>3. ASSUME NEW q \in net, Serve(q) \/ Disconnect(q) \/ LandCalls(q) \/ LandPromises(q)
                              \/ WriteAnswered(q)
      PROVE  store' = store /\ lodged' = lodged
  BY <1>3 DEF Serve, Disconnect, LandCalls, LandPromises, WriteAnswered, InitiateCall,
     LodgeCall, ServeList, ServeVerify, ServeExtend
<1>4. ASSUME Operator PROVE store' = store /\ lodged' = lodged
  BY <1>4 DEF Operator, OpenVoice, OpenTracker, ChooseWorkflow, TypePhone,
     TriggerCallSimulation, VerifyPayment, ExtendPromise
<1>5. CASE UNCHANGED vars
  BY <1>5 DEF vars
<1>6. QED
  BY <1>1, <1>2, <1>3, <1>4, <1>5 DEF Next, Land

(* What a step does to the dial form.                                      *)
LEMMA FormSteps ==
  ASSUME TypeOK, [Next]_vars
  PROVE  \/ voice'.form = voice.form
         \/ voice'.form = [voice.form EXCEPT !.workflow = None]
         \/ voice'.form = [voice.form EXCEPT !.phone = Typed]
         \/ \E w \in Workflows : voice'.form = HandleSelectWorkflow(voice.form, w)
<1>1. voice \in VoicePage /\ voice.form \in Form
  BY DEF TypeOK, VoicePage
<1>2. ASSUME NEW q \in net, LandCalls(q) PROVE voice'.form = voice.form
  BY <1>1, <1>2 DEF LandCalls, VoicePage
<1>3. ASSUME NEW q \in net, DialAnswered(q) PROVE voice'.form = voice.form
  BY <1>1, <1>3 DEF DialAnswered, VoicePage
<1>4. ASSUME NEW q \in net, Serve(q) \/ Disconnect(q) \/ LandPromises(q) \/ WriteAnswered(q)
      PROVE  voice' = voice
  BY <1>4 DEF Serve, Disconnect, LandPromises, WriteAnswered, InitiateCall,
     LodgeCall, ServeList, ServeVerify, ServeExtend
<1>5. ASSUME OpenVoice \/ OpenTracker
             \/ \E r \in ToSet(tracker.promises) : VerifyPayment(r) \/ ExtendPromise(r)
      PROVE  voice' = voice
  BY <1>5 DEF OpenVoice, OpenTracker, VerifyPayment, ExtendPromise
<1>6. ASSUME TriggerCallSimulation PROVE voice'.form = voice.form
  BY <1>1, <1>6 DEF TriggerCallSimulation, VoicePage
<1>7. ASSUME TypePhone PROVE voice'.form = [voice.form EXCEPT !.phone = Typed]
  BY <1>1, <1>7 DEF TypePhone, VoicePage
<1>8. ASSUME NEW w \in Workflows \cup {None}, ChooseWorkflow(w)
      PROVE  voice'.form = IF w = None THEN [voice.form EXCEPT !.workflow = None]
                           ELSE HandleSelectWorkflow(voice.form, w)
  BY <1>1, <1>8 DEF ChooseWorkflow, VoicePage
<1>9. CASE UNCHANGED vars
  BY <1>9 DEF vars
<1>10. QED
  BY <1>2, <1>3, <1>4, <1>5, <1>6, <1>7, <1>8, <1>9 DEF Next, Operator, Land

(* The API's entries stay those of the workflows they are lodged with.     *)
LEMMA EntrySteps ==
  ASSUME TypeOK, RequestInv, FormInv, [Next]_vars
  PROVE  \A e \in db'.actions \cup db'.audits :
           /\ FilledIn(e.form)
           /\ \/ e.form.workflow = e.workflow
              \/ e.form.workflow = None /\ e.workflow \in Reached(e.form)
<1> DEFINE Fits(d) ==
      \A e \in d.actions \cup d.audits :
        /\ FilledIn(e.form)
        /\ \/ e.form.workflow = e.workflow
           \/ e.form.workflow = None /\ e.workflow \in Reached(e.form)
<1>1. Fits(db) /\ db \in Database
  BY DEF FormInv, CallIsForItsWorkflow, TypeOK
<1>2. ASSUME NEW q \in net, LodgeCall(q) PROVE Fits(db')
  <2>1. PICK ps \in [Calls -> PromiseStatus \cup {None}], cs \in SUBSET Calls,
             as \in SUBSET Entry, us \in SUBSET Entry : Lodges(q, ps, cs, as, us)
    BY <1>2, CallRows
  <2>2. db'.actions = as /\ db'.audits = us
    BY <1>1, <2>1 DEF Database, Lodges
  <2>3. FilledIn(q.form)
    BY DEF FormInv
  <2>4. \A w \in LodgedWith(q.form) :
          \/ q.form.workflow = w
          \/ q.form.workflow = None /\ w \in Reached(q.form)
    BY DEF LodgedWith
  <2>5. QED
    BY <1>1, <2>1, <2>2, <2>3, <2>4 DEF Lodges
<1>3. ASSUME db'.actions = db.actions, db'.audits = db.audits PROVE Fits(db')
  BY <1>1, <1>3
<1>4. ASSUME NEW new, Lodge(new), new.actions = db.actions, new.audits = db.audits
      PROVE  Fits(db')
  BY <1>3, <1>4 DEF Lodge
<1>5. ASSUME NEW q \in net, ServeVerify(q) PROVE Fits(db')
  <2>1. PICK known \in SUBSET Matches(q) : Lodge([db EXCEPT
          !.promises = [c \in Calls |-> IF c \in Matches(q) THEN "HONORED" ELSE db.promises[c]],
          !.honours = [c \in Calls |-> db.honours[c] + (IF c \in known THEN 1 ELSE 0)]])
    BY <1>5 DEF ServeVerify
  <2>2. PICK new : new = [db EXCEPT
          !.promises = [c \in Calls |-> IF c \in Matches(q) THEN "HONORED" ELSE db.promises[c]],
          !.honours = [c \in Calls |-> db.honours[c] + (IF c \in known THEN 1 ELSE 0)]]
    OBVIOUS
  <2>3. new.actions = db.actions /\ new.audits = db.audits
    BY <1>1, <2>2 DEF Database
  <2>4. QED
    BY <1>4, <2>1, <2>2, <2>3
<1>6. ASSUME NEW q \in net, ServeExtend(q) PROVE Fits(db')
  <2>1. PICK new : new = [db EXCEPT !.promises = [c \in Calls |->
                            IF c \in Matches(q) THEN "EXTENDED" ELSE db.promises[c]]]
    OBVIOUS
  <2>2. new.actions = db.actions /\ new.audits = db.audits /\ Lodge(new)
    BY <1>1, <1>6, <2>1 DEF Database, ServeExtend
  <2>3. QED
    BY <1>4, <2>2
<1>7. ASSUME NEW q \in net, InitiateCall(q) PROVE Fits(db')
  BY <1>1, <1>3, <1>7 DEF InitiateCall, Database
<1>8. ASSUME NEW q \in net, ServeList(q) \/ Disconnect(q) \/ Land(q) PROVE db' = db
  BY <1>8 DEF ServeList, Disconnect, Land, LandCalls, LandPromises, DialAnswered, WriteAnswered
<1>9. ASSUME Operator PROVE db' = db
  BY <1>9 DEF Operator, OpenVoice, OpenTracker, ChooseWorkflow, TypePhone,
     TriggerCallSimulation, VerifyPayment, ExtendPromise
<1>10. CASE UNCHANGED vars
  BY <1>3, <1>10 DEF vars
<1>11. Fits(db')
  BY <1>2, <1>3, <1>5, <1>6, <1>7, <1>8, <1>9, <1>10 DEF Next, Serve
<1>12. QED
  BY <1>11

(* Every form and every call stays filled in for its workflow.             *)
LEMMA NextForms ==
  TypeOK /\ RequestInv /\ CountInv /\ FormInv /\ [Next]_vars => FormInv'
<1> SUFFICES ASSUME TypeOK, RequestInv, CountInv, FormInv, [Next]_vars
             PROVE  FormInv'
  OBVIOUS
<1>1. /\ FilledIn(voice.form) /\ \A q \in net : FilledIn(q.form)
      /\ \A d \in ToSet(store) : FilledIn(d.form)
  BY DEF FormInv, CallIsForItsWorkflow
<1>2. voice.form \in Form /\ store \in Seq(Dispatch)
  BY DEF TypeOK, VoicePage
<1>3. FilledIn(voice'.form)
  <2>1. FilledIn([voice.form EXCEPT !.workflow = None])
    BY <1>2 DEF FilledIn, Form
  <2>2. FilledIn([voice.form EXCEPT !.phone = Typed])
    BY <1>1, <1>2 DEF FilledIn, Form
  <2>3. \A w \in Workflows : FilledIn(HandleSelectWorkflow(voice.form, w))
    BY DEF FilledIn, HandleSelectWorkflow
  <2>4. QED
    BY <1>1, <2>1, <2>2, <2>3, FormSteps
<1>4. \A r \in net' : FilledIn(r.form)
  <2>1. FilledIn(EmptyForm)
    BY DEF FilledIn, EmptyForm
  <2>2. \A r \in net' : Origin(r)
    BY NetOrigins
  <2>3. \A q \in net : \A r : SameRequest(q, r) => r.form = q.form
    BY DEF SameRequest
  <2>4. QED
    BY <1>1, <2>1, <2>2, <2>3 DEF Origin
<1>5. \A d \in ToSet(store') : FilledIn(d.form)
  <2>1. CASE store' = store
    BY <1>1, <2>1
  <2>2. ASSUME NEW q \in net, q.sid \in Calls, q.form \in Form,
               store' = Lodged([sid |-> q.sid, form |-> q.form])
        PROVE  \A d \in ToSet(store') : FilledIn(d.form)
    <3>1. PICK d \in Dispatch : d = [sid |-> q.sid, form |-> q.form] /\ d.form = q.form
      BY <2>2 DEF Dispatch
    <3>2. /\ store' \in Seq(Dispatch) /\ Len(store') <= Len(store) + 1
          /\ \A i \in 1..Len(store') : store'[i] = IF i = 1 THEN d ELSE store[i - 1]
      BY <2>2, <3>1, LodgedFacts
    <3>3. SUFFICES ASSUME NEW i \in 1..Len(store') PROVE FilledIn(store'[i].form)
      BY <3>2 DEF ToSet
    <3>4. CASE i = 1
      BY <1>1, <3>1, <3>2, <3>4
    <3>5. CASE i # 1
      <4>1. i - 1 \in DOMAIN store
        BY <1>2, <3>2, <3>5
      <4>2. store[i - 1] \in ToSet(store)
        BY <4>1 DEF ToSet
      <4>3. QED
        BY <1>1, <3>2, <3>5, <4>2
    <3>6. QED
      BY <3>4, <3>5
  <2>3. QED
    BY <2>1, <2>2, RecordSteps
<1>6. CallIsForItsWorkflow'
  BY <1>5, EntrySteps DEF CallIsForItsWorkflow, Reached
<1>7. QED
  BY <1>3, <1>4, <1>6 DEF FormInv

(* The calls the API records among a workflow's actions and in its trail   *)
(* are the workflow's own, and a call linked to a workflow carries its     *)
(* customer's number and e-mail where the customer has them, however the   *)
(* operator changed the selection before and whatever was lost             *)
(* (app/voice-recovery/page.tsx, handleSelectWorkflow; handlers/voice.go,  *)
(* VoiceHandler).                                                          *)
THEOREM CallsReachTheirCustomer == Spec => []CallIsForItsWorkflow
<1>1. Init => FormInv
  BY DEF Init, FormInv, CallIsForItsWorkflow, FilledIn, EmptyForm, ToSet
<1>2. FormInv => CallIsForItsWorkflow
  BY DEF FormInv
<1>3. QED
  BY <1>1, <1>2, NextForms, RequestsInvariant, PTL DEF Spec

(* Calls are only added to those lodged before.                            *)
LEMMA LodgedGrows ==
  ASSUME TypeOK, RequestInv, [Next]_vars
  PROVE  /\ Len(lodged) \in Nat /\ Len(lodged') \in Nat /\ Len(lodged) <= Len(lodged')
         /\ \A j \in 1..Len(lodged) : lodged'[j] = lodged[j]
<1>1. lodged \in Seq(Calls) /\ Len(lodged) \in Nat
  BY DEF TypeOK
<1>2. CASE lodged' = lodged
  BY <1>1, <1>2
<1>3. ASSUME NEW c \in Calls, lodged' = Append(lodged, c)
      PROVE  /\ Len(lodged') \in Nat /\ Len(lodged) <= Len(lodged')
             /\ \A j \in 1..Len(lodged) : lodged'[j] = lodged[j]
  BY <1>1, <1>3, AppendFacts
<1>4. QED
  BY <1>1, <1>2, <1>3, RecordSteps

(* So a list that was a snapshot of the record stays one.                  *)
LEMMA SnapshotsLast ==
  ASSUME TypeOK, RequestInv, [Next]_vars, NEW list, NEW n \in Nat, Snapshot(list, n)
  PROVE  /\ n <= Len(lodged')
         /\ \A j \in 1..n :
              n - j < KeepLocal => n + 1 - j <= Len(list) /\ list[n + 1 - j].sid = lodged'[j]
<1>1. n <= Len(lodged) /\ n <= Len(lodged')
  BY LodgedGrows DEF Snapshot
<1>2. \A j \in 1..n : j \in 1..Len(lodged) /\ lodged'[j] = lodged[j]
  BY <1>1, LodgedGrows
<1>3. QED
  BY <1>1, <1>2 DEF Snapshot

(* The browser's record and the loads under way remain snapshots.          *)
LEMMA NextSnapshots ==
  TypeOK /\ RequestInv /\ CountInv /\ SnapshotInv /\ [Next]_vars => SnapshotInv'
<1> SUFFICES ASSUME TypeOK, RequestInv, CountInv, SnapshotInv, [Next]_vars
             PROVE  SnapshotInv'
  OBVIOUS
<1> DEFINE Taken(list, n) ==
      /\ n <= Len(lodged')
      /\ \A j \in 1..n :
           n - j < KeepLocal => n + 1 - j <= Len(list) /\ list[n + 1 - j].sid = lodged'[j]
<1>1. /\ Len(lodged) \in Nat /\ Len(lodged') \in Nat /\ KeepLocal \in Nat \ {0}
      /\ store \in Seq(Dispatch) /\ Len(store) \in Nat /\ lodged \in Seq(Calls)
  BY LodgedGrows, CallsAssumption DEF TypeOK
<1>2. Taken(store', Len(lodged'))
  <2>1. CASE store' = store /\ lodged' = lodged
    BY <2>1 DEF SnapshotInv, Snapshot
  <2>2. ASSUME NEW q \in net, q.sid \in Calls, q.form \in Form,
               store' = Lodged([sid |-> q.sid, form |-> q.form]),
               lodged' = Append(lodged, q.sid)
        PROVE  Taken(store', Len(lodged'))
    <3>1. PICK d \in Dispatch : d = [sid |-> q.sid, form |-> q.form] /\ d.sid = q.sid
      BY <2>2 DEF Dispatch
    <3>2. /\ store' \in Seq(Dispatch) /\ Len(store') \in Nat
          /\ Len(store') = Len(store) + 1 \/ Len(store') = KeepLocal
          /\ \A i \in 1..Len(store') : store'[i] = IF i = 1 THEN d ELSE store[i - 1]
      BY <2>2, <3>1, LodgedFacts
    <3>3. PICK n \in Nat : n = Len(lodged)
      BY <1>1
    <3>4. Len(lodged') = n + 1 /\ lodged'[n + 1] = q.sid /\ \A j \in 1..n : lodged'[j] = lodged[j]
      BY <1>1, <2>2, <3>3, AppendFacts
    <3>5. \A j \in 1..n : n - j < KeepLocal => n + 1 - j <= Len(store) /\ store[n + 1 - j].sid = lodged[j]
      BY <3>3 DEF SnapshotInv, Snapshot
    <3>6. ASSUME NEW j \in 1..(n + 1), (n + 1) - j < KeepLocal
          PROVE  (n + 1) + 1 - j <= Len(store') /\ store'[(n + 1) + 1 - j].sid = lodged'[j]
      <4>1. CASE j = n + 1
        <5>1. (n + 1) + 1 - j = 1
          BY <4>1
        <5>2. 1 <= Len(store')
          BY <1>1, <3>2
        <5>3. QED
          BY <3>1, <3>2, <3>4, <4>1, <5>1, <5>2
      <4>2. CASE j # n + 1
        <5>1. j \in 1..n /\ n - j < KeepLocal
          BY <1>1, <3>6, <4>2
        <5>2. n + 1 - j <= Len(store) /\ store[n + 1 - j].sid = lodged[j] /\ lodged'[j] = lodged[j]
          BY <3>4, <3>5, <5>1
        <5>3. PICK i \in Nat : i = (n + 1) + 1 - j
          BY <5>1
        <5>4. i \in 1..Len(store') /\ i # 1 /\ i - 1 = n + 1 - j
          BY <1>1, <3>2, <3>6, <5>1, <5>2, <5>3
        <5>5. store'[i] = store[i - 1]
          BY <3>2, <5>4
        <5>6. QED
          BY <5>2, <5>3, <5>4, <5>5
      <4>3. QED
        BY <4>1, <4>2
    <3>7. QED
      BY <3>4, <3>6
  <2>3. QED
    BY <2>1, <2>2, RecordSteps
<1>3. ASSUME NEW r \in net', r.kind \in {"calls", "promises"} PROVE Taken(r.local, r.asof)
  <2>1. CASE \E q \in net : SameRequest(q, r)
    <3>1. PICK q \in net : SameRequest(q, r)
      BY <2>1
    <3>2. Snapshot(q.local, q.asof) /\ q.asof \in Nat
      BY <1>3, <3>1, MessageFacts DEF SnapshotInv, SameRequest, TypeOK
    <3>3. Taken(q.local, q.asof)
      BY <3>2, SnapshotsLast
    <3>4. QED
      BY <3>1, <3>3 DEF SameRequest
  <2>2. CASE r.local = store' /\ r.asof = Len(lodged')
    BY <1>2, <2>2
  <2>3. Origin(r)
    BY NetOrigins
  <2>4. QED
    BY <1>3, <2>1, <2>2, <2>3 DEF Origin
<1>4. QED
  BY <1>2, <1>3 DEF SnapshotInv, Snapshot

(* A load that lands shows what the browser had when it began.             *)
LEMMA MergedIds ==
  ASSUME TypeOK, SnapshotInv, NEW q \in net, q.kind \in {"calls", "promises"},
         NEW c \in Kept(q.asof)
  PROVE  \E i \in DOMAIN q.local : q.local[i].sid = c
<1>1. q \in Message /\ q.asof \in Nat /\ q.local \in Seq(Dispatch) /\ Snapshot(q.local, q.asof)
  BY MessageFacts DEF TypeOK, SnapshotInv
<1>2. PICK j \in 1..q.asof : q.asof - j < KeepLocal /\ c = lodged[j]
  BY DEF Kept
<1>3. q.asof + 1 - j <= Len(q.local) /\ q.local[q.asof + 1 - j].sid = c
  BY <1>1, <1>2 DEF Snapshot
<1>4. q.asof + 1 - j \in 1..Len(q.local)
  BY <1>1, <1>2, <1>3
<1>5. QED
  BY <1>1, <1>3, <1>4

(* The merged list begins with the browser's part.                         *)
LEMMA MergedHead ==
  ASSUME NEW S, NEW a \in Seq(S), NEW b \in Seq(S), NEW c \in Seq(S)
  PROVE  /\ a \o b \o c \in Seq(S)
         /\ \A i \in DOMAIN a : i \in DOMAIN (a \o b \o c) /\ (a \o b \o c)[i] = a[i]
OBVIOUS

(* Every step keeps what the pages show complete, and the calls distinct.  *)
LEMMA NextShown ==
  TypeOK /\ RequestInv /\ SnapshotInv /\ ShownInv /\ [Next]_vars => ShownInv'
<1> SUFFICES ASSUME TypeOK, RequestInv, SnapshotInv, ShownInv, [Next]_vars
             PROVE  ShownInv'
  OBVIOUS
<1>1. /\ Len(lodged) \in Nat /\ Len(lodged') \in Nat /\ Len(lodged) <= Len(lodged')
      /\ \A j \in 1..Len(lodged) : lodged'[j] = lodged[j]
  BY LodgedGrows
<1>2. ASSUME NEW n \in Nat, n <= Len(lodged)
      PROVE  n <= Len(lodged') /\ {lodged'[i] : i \in {j \in 1..n : n - j < KeepLocal}} = Kept(n)
  <2>1. \A j \in 1..n : j \in 1..Len(lodged) /\ lodged'[j] = lodged[j]
    BY <1>1, <1>2
  <2>2. QED
    BY <1>1, <1>2, <2>1 DEF Kept
<1>3. tracker.asof \in Nat /\ voice.asof \in Nat
  BY DEF TypeOK, TrackerPage, VoicePage
<1>4. /\ tracker.asof <= Len(lodged) /\ PromiseNotForgotten
      /\ voice.asof <= Len(lodged) /\ CallShownOnce
  BY DEF ShownInv
<1> DEFINE TrackerShown == tracker'.asof <= Len(lodged') /\ PromiseNotForgotten'
           VoiceShown == voice'.asof <= Len(lodged') /\ CallShownOnce'
<1>5. tracker'.asof = tracker.asof /\ tracker'.promises = tracker.promises => TrackerShown
  BY <1>2, <1>3, <1>4 DEF PromiseNotForgotten, Kept
<1>6. voice'.asof = voice.asof /\ voice'.calls = voice.calls => VoiceShown
  BY <1>2, <1>3, <1>4 DEF CallShownOnce, Kept
<1>7. ASSUME NEW q \in net, LandCalls(q) PROVE VoiceShown
  <2> DEFINE own == [i \in DOMAIN q.local |-> [id |-> q.local[i].sid]]
             api == IF q.ok THEN q.calls ELSE <<>>
             list == own \o api \o DemoCalls
  <2>1. q \in Message /\ q.asof \in Nat /\ q.kind = "calls" /\ q.asof <= Len(lodged)
    BY <1>7, MessageFacts DEF TypeOK, LandCalls, SnapshotInv, Snapshot
  <2>2. own \in Seq(CallRow) /\ api \in Seq(CallRow) /\ DemoCalls \in Seq(CallRow)
    <3>1. q.local \in Seq(Dispatch) /\ q.calls \in Seq(CallRow) /\ DemoCalls \in Seq(CallRow)
      BY <2>1, MessageFacts, ConstantFacts
    <3>2. own \in Seq(CallRow)
      BY <3>1, LocalLists
    <3>3. <<>> \in Seq(CallRow)
      OBVIOUS
    <3>4. api \in Seq(CallRow)
      BY <3>1, <3>3
    <3>5. QED
      BY <3>1, <3>2, <3>4
  <2>3. list \in Seq(CallRow) /\ \A i \in DOMAIN own : i \in DOMAIN list /\ list[i] = own[i]
    <3> HIDE DEF own, api
    <3>1. QED
      BY <2>2, MergedHead
  <2>4. voice' = [voice EXCEPT !.calls = FirstSeen(list), !.asof = q.asof,
                               !.calling = voice.calling /\ ~q.holds]
    BY <1>7 DEF LandCalls
  <2>5. voice'.calls = FirstSeen(list) /\ voice'.asof = q.asof
    <3> HIDE DEF list
    <3>1. QED
      BY <2>4 DEF TypeOK, VoicePage
  <2>6. \A c \in Kept(q.asof) : \E i \in DOMAIN list : list[i].id = c
    <3> SUFFICES ASSUME NEW c \in Kept(q.asof) PROVE \E i \in DOMAIN list : list[i].id = c
      OBVIOUS
    <3>1. PICK i \in DOMAIN q.local : q.local[i].sid = c
      BY <2>1, MergedIds
    <3>2. i \in DOMAIN own /\ own[i].id = c
      BY <3>1
    <3> HIDE DEF own, list
    <3>3. QED
      BY <2>3, <3>2
  <2> HIDE DEF list
  <2>7. /\ \A i \in DOMAIN list : \E k \in DOMAIN FirstSeen(list) : FirstSeen(list)[k].id = list[i].id
        /\ \A k, l \in DOMAIN FirstSeen(list) : FirstSeen(list)[k].id = FirstSeen(list)[l].id => k = l
    BY <2>3, FirstSeenFacts
  <2>8. \A c \in Kept(q.asof) : \E k \in DOMAIN FirstSeen(list) : FirstSeen(list)[k].id = c
    BY <2>6, <2>7
  <2>9. Kept(voice.asof)' = Kept(q.asof)
    BY <1>2, <2>1, <2>5 DEF Kept
  <2>10. Kept(voice.asof)' \subseteq {r.id : r \in ToSet(voice'.calls)}
    BY <2>5, <2>8, <2>9 DEF ToSet
  <2>11. QED
    BY <1>2, <2>1, <2>5, <2>7, <2>10 DEF CallShownOnce
<1>8. ASSUME NEW q \in net, LandPromises(q) PROVE TrackerShown
  <2> DEFINE own == [i \in DOMAIN q.local |-> LocalPromise(q.local[i])]
             api == IF q.ok THEN q.promises ELSE <<>>
             list == own \o api \o DemoPromises
  <2>1. q \in Message /\ q.asof \in Nat /\ q.kind = "promises" /\ q.asof <= Len(lodged)
    BY <1>8, MessageFacts DEF TypeOK, LandPromises, SnapshotInv, Snapshot
  <2>2. own \in Seq(PromiseRow) /\ api \in Seq(PromiseRow) /\ DemoPromises \in Seq(PromiseRow)
    <3>1. q.local \in Seq(Dispatch) /\ q.promises \in Seq(PromiseRow) /\ DemoPromises \in Seq(PromiseRow)
      BY <2>1, MessageFacts, ConstantFacts
    <3>2. own \in Seq(PromiseRow)
      BY <3>1, LocalLists
    <3>3. <<>> \in Seq(PromiseRow)
      OBVIOUS
    <3>4. api \in Seq(PromiseRow)
      BY <3>1, <3>3
    <3>5. QED
      BY <3>1, <3>2, <3>4
  <2>3. list \in Seq(PromiseRow) /\ \A i \in DOMAIN own : i \in DOMAIN list /\ list[i] = own[i]
    <3> HIDE DEF own, api
    <3>1. QED
      BY <2>2, MergedHead
  <2>4. tracker' = [promises |-> FirstSeen(list), asof |-> q.asof]
    BY <1>8 DEF LandPromises
  <2>5. tracker'.promises = FirstSeen(list) /\ tracker'.asof = q.asof
    <3> HIDE DEF list
    <3>1. QED
      BY <2>4
  <2>6. \A c \in Kept(q.asof) : \E i \in DOMAIN list : list[i].id = [kind |-> "local", call |-> c]
    <3> SUFFICES ASSUME NEW c \in Kept(q.asof)
                 PROVE  \E i \in DOMAIN list : list[i].id = [kind |-> "local", call |-> c]
      OBVIOUS
    <3>1. PICK i \in DOMAIN q.local : q.local[i].sid = c
      BY <2>1, MergedIds
    <3>2. i \in DOMAIN own /\ own[i].id = [kind |-> "local", call |-> c]
      BY <3>1 DEF LocalPromise
    <3> HIDE DEF own, list
    <3>3. QED
      BY <2>3, <3>2
  <2> HIDE DEF list
  <2>7. \A i \in DOMAIN list : \E k \in DOMAIN FirstSeen(list) : FirstSeen(list)[k].id = list[i].id
    BY <2>3, FirstSeenFacts
  <2>8. \A c \in Kept(q.asof) :
          \E k \in DOMAIN FirstSeen(list) : FirstSeen(list)[k].id = [kind |-> "local", call |-> c]
    BY <2>6, <2>7
  <2>9. Kept(tracker.asof)' = Kept(q.asof)
    BY <1>2, <2>1, <2>5 DEF Kept
  <2>10. PromiseNotForgotten'
    BY <2>5, <2>8, <2>9 DEF ToSet, PromiseNotForgotten
  <2>11. QED
    BY <1>2, <2>1, <2>5, <2>10
<1> HIDE DEF TrackerShown, VoiceShown
<1>9. tracker' = tracker \/ \E q \in net : LandPromises(q)
  BY DEF Next, vars, Operator, OpenVoice, OpenTracker, ChooseWorkflow, TypePhone,
     TriggerCallSimulation, VerifyPayment, ExtendPromise, Serve, Disconnect, Land, LandCalls,
     WriteAnswered, DialAnswered, InitiateCall, LodgeCall, ServeList, ServeVerify, ServeExtend
<1>10. (voice'.asof = voice.asof /\ voice'.calls = voice.calls) \/ \E q \in net : LandCalls(q)
  <2>1. voice \in VoicePage
    BY DEF TypeOK
  <2>2. ASSUME NEW q \in net, DialAnswered(q)
        PROVE  voice'.asof = voice.asof /\ voice'.calls = voice.calls
    BY <2>1, <2>2 DEF DialAnswered, VoicePage
  <2>3. ASSUME NEW q \in net, Serve(q) \/ Disconnect(q) \/ LandPromises(q) \/ WriteAnswered(q)
        PROVE  voice' = voice
    BY <2>3 DEF Serve, Disconnect, LandPromises, WriteAnswered, InitiateCall,
       LodgeCall, ServeList, ServeVerify, ServeExtend
  <2>4. ASSUME OpenVoice \/ OpenTracker
               \/ \E r \in ToSet(tracker.promises) : VerifyPayment(r) \/ ExtendPromise(r)
        PROVE  voice' = voice
    BY <2>4 DEF OpenVoice, OpenTracker, VerifyPayment, ExtendPromise
  <2>5. ASSUME TriggerCallSimulation \/ TypePhone
        PROVE  voice'.asof = voice.asof /\ voice'.calls = voice.calls
    BY <2>1, <2>5 DEF TriggerCallSimulation, TypePhone, VoicePage
  <2>6. ASSUME NEW w \in Workflows \cup {None}, ChooseWorkflow(w)
        PROVE  voice'.asof = voice.asof /\ voice'.calls = voice.calls
    BY <2>1, <2>6 DEF ChooseWorkflow, VoicePage
  <2>7. CASE UNCHANGED vars
    BY <2>7 DEF vars
  <2>8. QED
    BY <2>2, <2>3, <2>4, <2>5, <2>6, <2>7 DEF Next, Operator, Land
<1>11. TrackerShown /\ VoiceShown
  BY <1>5, <1>6, <1>7, <1>8, <1>9, <1>10
<1>12. QED
  BY <1>11 DEF ShownInv, TrackerShown, VoiceShown

(* The invariant of the browser's record and of the pages that show it.    *)
LEMMA PagesInvariant == Spec => [](SnapshotInv /\ ShownInv)
<1>1. Init => SnapshotInv /\ ShownInv
  <2> SUFFICES ASSUME Init PROVE SnapshotInv /\ ShownInv
    OBVIOUS
  <2>1. Len(lodged) = 0 /\ tracker.asof = 0 /\ voice.asof = 0 /\ net = {}
    BY DEF Init
  <2>2. SnapshotInv
    BY <2>1 DEF SnapshotInv, Snapshot
  <2>3. Kept(0) = {}
    BY DEF Kept
  <2>4. DOMAIN voice.calls = {1}
    BY DEF Init, DemoCalls
  <2>5. ShownInv
    BY <2>1, <2>3, <2>4 DEF ShownInv, PromiseNotForgotten, CallShownOnce
  <2>6. QED
    BY <2>2, <2>5
<1>2. QED
  BY <1>1, NextSnapshots, NextShown, RequestsInvariant, PTL DEF Spec

(* A commitment made in one of the browser's latest calls is in the        *)
(* tracker once a load begun after the call has landed, with or without    *)
(* the API (app/ptp-tracker/page.tsx, fetchPTP).                           *)
THEOREM PromisesAreShown == Spec => []PromiseNotForgotten
BY PagesInvariant, PTL DEF ShownInv

(* The voice page shows each of the browser's latest calls, and no call    *)
(* twice, although the API lists the same calls (app/voice-recovery/       *)
(* page.tsx, fetchVoiceData).                                              *)
THEOREM CallsAreShownOnce == Spec => []CallShownOnce
BY PagesInvariant, PTL DEF ShownInv
=============================================================================
