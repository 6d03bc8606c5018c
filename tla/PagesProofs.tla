---------------------------- MODULE PagesProofs ----------------------------
(***************************************************************************)
(* Theorems about ConsolePages for any questions and any number of pages,  *)
(* clicks, changes, faults and calls under way.                            *)
(***************************************************************************)
EXTENDS ConsolePages, FiniteSetTheorems, SequenceTheorems, TLAPS

(* The fields of a call, and the type of a new one.                        *)
LEMMA CallFacts ==
  ASSUME NEW c \in Call
  PROVE  /\ c.visit \in Nat /\ c.pc \in {"sent", "served", "refused", "lost"}
         /\ c.data \in Data /\ c.data.v \in Int /\ c.mark \in Int
         /\ c.then \in Forms \cup {"none", "cart", "demo"}
BY DEF Call, Data

LEMMA NewCallFacts ==
  ASSUME NEW n \in Nat, NEW then \in Forms \cup {"none", "cart", "demo"}, NEW mark \in Int
  PROVE  /\ NewCall(n, then, mark) \in Call
         /\ NewCall(n, then, mark).visit = n
         /\ NewCall(n, then, mark).pc = "sent"
         /\ NewCall(n, then, mark).then = then
         /\ NewCall(n, then, mark).mark = mark
         /\ NewCall(n, then, mark).data.v = -2
<1>1. Nothing \in Data
  BY DEF Nothing, Data
<1>2. QED
  BY <1>1 DEF NewCall, Call, Nothing

(* A sequence without the element at a place: the elements after it move   *)
(* one place to the front.                                                 *)
LEMMA RemoveFacts ==
  ASSUME NEW S, NEW s \in Seq(S), NEW i \in DOMAIN s
  PROVE  /\ RemoveAt(s, i) \in Seq(S)
         /\ \A k \in DOMAIN RemoveAt(s, i) :
              \/ k < i /\ k \in DOMAIN s /\ RemoveAt(s, i)[k] = s[k]
              \/ k >= i /\ k + 1 \in DOMAIN s /\ RemoveAt(s, i)[k] = s[k + 1]
         /\ DOMAIN RemoveAt(s, i) \subseteq Nat
<1> DEFINE a == SubSeq(s, 1, i - 1)
           b == SubSeq(s, i + 1, Len(s))
           t == a \o b
           n == Len(s)
<1>1. DOMAIN s = 1..n /\ n \in Nat /\ i \in 1..n
  OBVIOUS
<1>2. /\ a \in Seq(S) /\ Len(a) = i - 1
      /\ \A k \in 1..(i - 1) : a[k] = s[k]
  BY <1>1
<1>3. /\ b \in Seq(S) /\ Len(b) = n - i
      /\ \A k \in 1..(n - i) : b[k] = s[i + k]
  BY <1>1
<1> HIDE DEF a, b
<1>4. /\ t \in Seq(S) /\ Len(t) = Len(a) + Len(b)
      /\ \A k \in 1..(Len(a) + Len(b)) :
           t[k] = IF k <= Len(a) THEN a[k] ELSE b[k - Len(a)]
  BY <1>2, <1>3, ConcatProperties
<1> HIDE DEF t, n
<1>5. Len(t) = n - 1 /\ DOMAIN t = 1..(n - 1)
  <2>1. DOMAIN t = 1..Len(t)
    BY <1>4
  <2>2. QED
    BY <1>1, <1>2, <1>3, <1>4, <2>1
<1>6. \A k \in 1..(n - 1) : t[k] = IF k <= i - 1 THEN a[k] ELSE b[k - (i - 1)]
  BY <1>1, <1>2, <1>3, <1>4
<1>7. ASSUME NEW k \in 1..(n - 1)
      PROVE  \/ k < i /\ k \in DOMAIN s /\ t[k] = s[k]
             \/ k >= i /\ k + 1 \in DOMAIN s /\ t[k] = s[k + 1]
  <2>1. CASE k < i
    <3>1. k \in 1..(i - 1) /\ k \in 1..n /\ k <= i - 1
      BY <1>1, <2>1
    <3>2. QED
      BY <1>1, <1>2, <1>6, <2>1, <3>1
  <2>2. CASE k >= i
    <3>1. /\ k - (i - 1) \in 1..(n - i) /\ i + (k - (i - 1)) = k + 1
          /\ k + 1 \in 1..n /\ ~(k <= i - 1)
      BY <1>1, <2>2
    <3>2. t[k] = b[k - (i - 1)]
      BY <1>6, <3>1
    <3>3. b[k - (i - 1)] = s[i + (k - (i - 1))]
      BY <1>3, <3>1
    <3>4. QED
      BY <1>1, <2>2, <3>1, <3>2, <3>3
  <2>3. QED
    BY <1>1, <2>1, <2>2
<1>8. RemoveAt(s, i) = t
  BY DEF RemoveAt, a, b, t
<1>9. DOMAIN t \subseteq Nat
  BY <1>1, <1>5
<1>10. QED
  BY <1>4, <1>5, <1>7, <1>8, <1>9

(* The calls that outlive their page are calls that were under way.        *)
LEMMA OutlivesFacts ==
  ASSUME TypeOK, NEW op \in Ops
  PROVE  /\ Outlives(op) \in Seq(Call)
         /\ \A k \in DOMAIN Outlives(op) :
              \E j \in DOMAIN calls[op] : Outlives(op)[k] = calls[op][j]
<1> DEFINE K == {i \in DOMAIN calls[op] :
                   \/ op \in Forms \cup {"recover", "newKey", "login"}
                   \/ calls[op][i].then \in Forms}
           m == Cardinality(K)
<1>1. calls[op] \in Seq(Call) /\ Len(calls[op]) \in Nat /\ DOMAIN calls[op] = 1..Len(calls[op])
  BY DEF TypeOK
<1>2. K \subseteq 1..Len(calls[op])
  BY <1>1
<1>3. IsFiniteSet(K)
  <2> HIDE DEF K
  <2>1. IsFiniteSet(1..Len(calls[op]))
    BY <1>1, FS_Interval
  <2>2. QED
    BY <1>2, <2>1, FS_Subset
<1>4. m \in Nat /\ ExistsBijection(1..m, K)
  <2> HIDE DEF K
  <2>1. QED
    BY <1>3, FS_CardinalityType
<1>5. \E f \in [1..m -> K] : IsInjective(f)
  <2> HIDE DEF K
  <2>1. QED
    BY <1>4 DEF ExistsBijection, Bijection, Injection
<1>6. SetToSeq(K) \in [1..m -> K]
  <2> HIDE DEF K
  <2>1. QED
    BY <1>5 DEF SetToSeq
<1>7. Outlives(op) = [k \in 1..m |-> calls[op][SetToSeq(K)[k]]]
  BY <1>6 DEF Outlives
<1>8. \A k \in 1..m : SetToSeq(K)[k] \in DOMAIN calls[op]
  <2> HIDE DEF K
  <2>1. QED
    BY <1>1, <1>2, <1>6
<1> HIDE DEF K
<1>9. \A k \in 1..m : calls[op][SetToSeq(K)[k]] \in Call
  BY <1>1, <1>8
<1>10. QED
  BY <1>4, <1>7, <1>8, <1>9

-----------------------------------------------------------------------------
(* What a step leaves of the calls under way.                              *)

(* A call that is under way.                                               *)
UnderWay(op, c) == \E j \in DOMAIN calls[op] : calls[op][j] = c

(* The number of a page, and the places of the calls, are numbers.         *)
LEMMA CallsType ==
  ASSUME TypeOK
  PROVE  /\ visit \in Nat
         /\ \A op \in Ops : /\ calls[op] \in Seq(Call) /\ Len(calls[op]) \in Nat
                            /\ DOMAIN calls[op] = 1..Len(calls[op])
         /\ \A op \in Ops : \A i \in DOMAIN calls[op] : calls[op][i] \in Call
<1>1. visit \in Nat
  BY ConsoleAssumption DEF TypeOK
<1>2. \A op \in Ops : calls[op] \in Seq(Call)
  BY DEF TypeOK
<1>3. QED
  BY <1>1, <1>2

(* A call is added.                                                        *)
LEMMA SendFacts ==
  ASSUME TypeOK, NEW op \in Ops, NEW c \in Call, Send(op, c)
  PROVE  /\ calls' \in [Ops -> Seq(Call)]
         /\ \A o \in Ops \ {op} : calls'[o] = calls[o]
         /\ \A k \in DOMAIN calls'[op] :
              \/ k \in DOMAIN calls[op] /\ calls'[op][k] = calls[op][k]
              \/ k = Len(calls[op]) + 1 /\ calls'[op][k] = c
         /\ \A o \in Ops : \A k \in DOMAIN calls'[o] :
              UnderWay(o, calls'[o][k]) \/ (o = op /\ calls'[o][k] = c)
<1> DEFINE s == calls[op]
           t == Append(s, c)
<1>1. calls \in [Ops -> Seq(Call)] /\ s \in Seq(Call)
  BY DEF TypeOK
<1>2. calls' = [calls EXCEPT ![op] = t]
  BY DEF Send
<1>3. /\ t \in Seq(Call) /\ DOMAIN t = 1..(Len(s) + 1) /\ Len(s) \in Nat
      /\ DOMAIN s = 1..Len(s)
      /\ \A k \in 1..Len(s) : t[k] = s[k]
      /\ t[Len(s) + 1] = c
  <2> HIDE DEF s
  <2>1. QED
    BY <1>1, AppendProperties
<1>4. calls' \in [Ops -> Seq(Call)] /\ calls'[op] = t /\ \A o \in Ops \ {op} : calls'[o] = calls[o]
  <2> HIDE DEF t, s
  <2>1. QED
    BY <1>1, <1>2, <1>3
<1>5. ASSUME NEW k \in DOMAIN t
      PROVE  \/ k \in DOMAIN s /\ t[k] = s[k]
             \/ k = Len(s) + 1 /\ t[k] = c
  <2> HIDE DEF t, s
  <2>1. k \in 1..Len(s) \/ k = Len(s) + 1
    BY <1>3
  <2>2. QED
    BY <1>3, <2>1
<1> HIDE DEF t
<1>6. QED
  BY <1>4, <1>5 DEF UnderWay

(* A call is taken away.                                                   *)
LEMMA WithoutFacts ==
  ASSUME TypeOK, NEW op \in Ops, NEW i \in DOMAIN calls[op]
  PROVE  /\ Without(op, i) \in [Ops -> Seq(Call)]
         /\ \A o \in Ops \ {op} : Without(op, i)[o] = calls[o]
         /\ \A k \in DOMAIN Without(op, i)[op] :
              \/ k < i /\ k \in DOMAIN calls[op] /\ Without(op, i)[op][k] = calls[op][k]
              \/ k >= i /\ k + 1 \in DOMAIN calls[op] /\ Without(op, i)[op][k] = calls[op][k + 1]
         /\ DOMAIN Without(op, i)[op] \subseteq Nat
         /\ \A o \in Ops : \A k \in DOMAIN Without(op, i)[o] : UnderWay(o, Without(op, i)[o][k])
<1> DEFINE t == RemoveAt(calls[op], i)
<1>1. calls \in [Ops -> Seq(Call)] /\ calls[op] \in Seq(Call)
  BY DEF TypeOK
<1>2. /\ t \in Seq(Call) /\ DOMAIN t \subseteq Nat
      /\ \A k \in DOMAIN t :
           \/ k < i /\ k \in DOMAIN calls[op] /\ t[k] = calls[op][k]
           \/ k >= i /\ k + 1 \in DOMAIN calls[op] /\ t[k] = calls[op][k + 1]
  BY <1>1, RemoveFacts
<1>3. Without(op, i) = [calls EXCEPT ![op] = t]
  BY DEF Without
<1> HIDE DEF t
<1>4. /\ Without(op, i) \in [Ops -> Seq(Call)] /\ Without(op, i)[op] = t
      /\ \A o \in Ops \ {op} : Without(op, i)[o] = calls[o]
  BY <1>1, <1>2, <1>3
<1>5. QED
  BY <1>2, <1>4 DEF UnderWay

(* A handler goes on with another call.                                    *)
LEMMA ThenFacts ==
  ASSUME TypeOK, NEW op \in Ops, NEW i \in DOMAIN calls[op], NEW next \in Ops, next # op,
         NEW c \in Call, Then(op, i, next, c)
  PROVE  /\ calls' \in [Ops -> Seq(Call)]
         /\ \A o \in Ops \ {op, next} : calls'[o] = calls[o]
         /\ \A o \in Ops : \A k \in DOMAIN calls'[o] :
              UnderWay(o, calls'[o][k]) \/ (o = next /\ calls'[o][k] = c)
<1> DEFINE w == Without(op, i)
           t == Append(w[next], c)
<1>1. /\ w \in [Ops -> Seq(Call)]
      /\ \A o \in Ops \ {op} : w[o] = calls[o]
      /\ \A o \in Ops : \A k \in DOMAIN w[o] : UnderWay(o, w[o][k])
  BY WithoutFacts
<1>2. calls' = w \/ calls' = [w EXCEPT ![next] = t]
  BY DEF Then
<1> HIDE DEF w
<1>3. CASE calls' = w
  BY <1>1, <1>3
<1>4. CASE calls' = [w EXCEPT ![next] = t]
  <2>1. /\ t \in Seq(Call) /\ Len(w[next]) \in Nat /\ DOMAIN w[next] = 1..Len(w[next])
        /\ DOMAIN t = 1..(Len(w[next]) + 1)
        /\ \A k \in 1..Len(w[next]) : t[k] = w[next][k]
        /\ t[Len(w[next]) + 1] = c
    BY <1>1, AppendProperties
  <2>2. \A k \in DOMAIN t : (k \in DOMAIN w[next] /\ t[k] = w[next][k]) \/ t[k] = c
    <3> HIDE DEF t
    <3>1. \A k \in DOMAIN t : k \in 1..Len(w[next]) \/ k = Len(w[next]) + 1
      BY <2>1
    <3>2. QED
      BY <2>1, <3>1
  <2> HIDE DEF t
  <2>3. /\ calls' \in [Ops -> Seq(Call)] /\ calls'[next] = t
        /\ \A o \in Ops \ {next} : calls'[o] = w[o]
    BY <1>1, <1>4, <2>1
  <2>4. \A k \in DOMAIN t : UnderWay(next, t[k]) \/ t[k] = c
    BY <1>1, <2>2
  <2>5. QED
    BY <1>1, <2>3, <2>4
<1>5. QED
  BY <1>2, <1>3, <1>4

(* Another page is mounted.                                                *)
LEMMA MountFacts ==
  ASSUME TypeOK, NEW p \in Pages, Mount(p)
  PROVE  /\ calls' \in [Ops -> Seq(Call)]
         /\ \A o \in Ops \ Views : \A k \in DOMAIN calls'[o] : UnderWay(o, calls'[o][k])
         /\ \A o \in Ops : \A k \in DOMAIN calls'[o] :
              UnderWay(o, calls'[o][k])
                \/ (o \in Views /\ calls'[o][k] = NewCall(visit + 1, "none", 0))
<1> DEFINE c == NewCall(visit + 1, "none", 0)
           New(o) == Append(Outlives(o), c)
           loads == {p} \cap Views
<1>1. c \in Call
  <2>1. visit + 1 \in Nat /\ "none" \in Forms \cup {"none", "cart", "demo"} /\ 0 \in Int
    BY CallsType
  <2>2. QED
    BY <2>1, NewCallFacts
<1>2. calls' = [o \in Ops |-> IF o \in loads THEN New(o) ELSE Outlives(o)]
  BY DEF Mount
<1>3. \A o \in Ops : /\ Outlives(o) \in Seq(Call)
                     /\ \A k \in DOMAIN Outlives(o) : UnderWay(o, Outlives(o)[k])
  BY OutlivesFacts DEF UnderWay
<1> HIDE DEF c
<1>4. ASSUME NEW o \in Ops
      PROVE  /\ New(o) \in Seq(Call)
             /\ \A k \in DOMAIN New(o) : UnderWay(o, New(o)[k]) \/ New(o)[k] = c
  <2>1. PICK s \in Seq(Call) : s = Outlives(o)
    BY <1>3
  <2>2. /\ New(o) = Append(s, c) /\ Append(s, c) \in Seq(Call)
        /\ Len(s) \in Nat /\ DOMAIN s = 1..Len(s) /\ DOMAIN Append(s, c) = 1..(Len(s) + 1)
        /\ \A k \in 1..Len(s) : Append(s, c)[k] = s[k]
        /\ Append(s, c)[Len(s) + 1] = c
    BY <1>1, <2>1, AppendProperties
  <2>3. \A k \in 1..(Len(s) + 1) : k \in 1..Len(s) \/ k = Len(s) + 1
    BY <2>2
  <2>4. \A k \in 1..Len(s) : UnderWay(o, s[k])
    BY <1>3, <2>1, <2>2
  <2> HIDE DEF New
  <2>5. QED
    BY <2>2, <2>3, <2>4
<1> HIDE DEF New, loads
<1>5. \A o \in Ops : (calls'[o] = New(o) /\ o \in loads) \/ calls'[o] = Outlives(o)
  BY <1>2
<1>6. calls' \in [Ops -> Seq(Call)]
  BY <1>2, <1>3, <1>4
<1>7. loads \subseteq Views
  BY DEF loads
<1>8. QED
  BY <1>3, <1>4, <1>5, <1>6, <1>7 DEF c

(* A call is answered by the API, or fails.                                *)
LEMMA AnsweredFacts ==
  ASSUME TypeOK, NEW op \in Ops, NEW i \in DOMAIN calls[op], NEW c \in Call,
         calls' = [calls EXCEPT ![op][i] = c]
  PROVE  /\ calls' \in [Ops -> Seq(Call)]
         /\ \A o \in Ops : DOMAIN calls'[o] = DOMAIN calls[o]
         /\ \A o \in Ops : \A k \in DOMAIN calls[o] :
              IF o = op /\ k = i THEN calls'[o][k] = c ELSE calls'[o][k] = calls[o][k]
<1> DEFINE s == calls[op]
           t == [s EXCEPT ![i] = c]
<1>1. calls \in [Ops -> Seq(Call)] /\ s \in Seq(Call)
  BY DEF TypeOK
<1>2. calls' = [calls EXCEPT ![op] = t]
  OBVIOUS
<1>3. /\ t \in Seq(Call) /\ DOMAIN t = DOMAIN s /\ t[i] = c
      /\ \A k \in DOMAIN s \ {i} : t[k] = s[k]
  <2> HIDE DEF s
  <2>1. s \in [1..Len(s) -> Call] /\ Len(s) \in Nat
    BY <1>1
  <2>2. i \in 1..Len(s)
    BY <1>1 DEF s
  <2>3. t \in [1..Len(s) -> Call]
    BY <2>1, <2>2
  <2>4. QED
    BY <2>1, <2>2, <2>3
<1> HIDE DEF t
<1>4. /\ calls' \in [Ops -> Seq(Call)] /\ calls'[op] = t
      /\ \A o \in Ops \ {op} : calls'[o] = calls[o]
  BY <1>1, <1>2, <1>3
<1>5. QED
  BY <1>3, <1>4
-----------------------------------------------------------------------------
(* What a step does to the API's data, the pages and the session.          *)

(* The data only grow newer; the session's status changes at the newest    *)
(* version.                                                                *)
Newer ==
  /\ db'.v >= db.v
  /\ (db'.since = db.since /\ db'.cart = db.cart) \/ (db'.since = db.v + 1 /\ db'.since <= db'.v)

DB == [v : Nat, cart : CartStatus, since : Nat, from : Int]

(* What is known of data stays known when the API's data change.           *)
LEMMA SeenKept ==
  ASSUME db \in DB, db' \in DB, Newer, NEW d \in Data, Seen(d)
  PROVE  Seen(d)'
<1>1. db.v \in Nat /\ db'.v \in Nat /\ db.since \in Nat /\ db'.since \in Nat /\ d.v \in Int
  BY DEF DB, Data
<1>2. QED
  BY <1>1 DEF Seen, Newer

(* What is known of a call stays known.                                    *)
LEMMA SoundKept ==
  ASSUME db \in DB, db' \in DB, Newer, visit \in Nat, visit' \in Nat, visit <= visit',
         NEW op \in Ops, NEW c \in Call, SoundCall(op, c)
  PROVE  SoundCall(op, c)'
<1>1. db.v \in Nat /\ db'.v \in Nat /\ db.since \in Nat /\ db'.since \in Nat
  BY DEF DB
<1>2. c.visit \in Nat /\ c.mark \in Int /\ c.data \in Data
  BY CallFacts
<1>3. (c.visit <= visit)'
  BY <1>2 DEF SoundCall
<1>4. Seen(c.data)'
  BY <1>2, SeenKept DEF SoundCall
<1>5. (c.then \in Forms => /\ op = "merchant" /\ c.mark <= db.v
                           /\ c.pc = "served" /\ c.data # Empty => c.mark <= c.data.v)'
  BY <1>1, <1>2 DEF SoundCall, Newer, Empty
<1>6. (op = "recover" /\ c.then = "cart"
         => c.mark <= db.v /\ (c.mark >= db.since => db.cart # "RECOVERED"))'
  BY <1>1, <1>2 DEF SoundCall, Newer
<1>7. (op \in Asked => c.mark \in Questions)'
  BY DEF SoundCall
<1>8. QED
  BY <1>3, <1>4, <1>5, <1>6, <1>7 DEF SoundCall

Session == [user : {"none", "server", "local"}, redirect : BOOLEAN]
Tally == [clicks : 0..MaxClicks, changes : 0..MaxChanges, faults : 0..MaxFaults]
Told == [v : Int, visit : Nat]

(* The counters stay within their bounds.                                  *)
LEMMA TallyFacts ==
  ASSUME TypeOK, Click \/ Fault
  PROVE  tally' \in Tally
<1>1. tally \in Tally
  BY DEF TypeOK, Tally
<1>2. MaxClicks \in Nat /\ MaxFaults \in Nat
  BY ConsoleAssumption
<1>3. CASE Click
  <2>1. tally.clicks + 1 \in 0..MaxClicks
    BY <1>1, <1>2, <1>3 DEF Click, Tally
  <2>2. QED
    BY <1>1, <1>3, <2>1 DEF Click, Tally
<1>4. CASE Fault
  <2>1. tally.faults + 1 \in 0..MaxFaults
    BY <1>1, <1>2, <1>4 DEF Fault, Tally
  <2>2. QED
    BY <1>1, <1>4, <2>1 DEF Fault, Tally
<1>5. QED
  BY <1>3, <1>4

(* A page is opened in its type.                                           *)
LEMMA OpenedFacts ==
  ASSUME NEW p
  PROVE  /\ Opened(p) \in View
         /\ Opened(p).data \in {Demo, Nothing} /\ Opened(p).busy = {} /\ Opened(p).mixed = FALSE
         /\ \A op \in Asked : Opened(p).answer[op] = 0
<1>1. Demo \in Data /\ Nothing \in Data
  BY DEF Demo, Nothing, Data
<1>2. [op \in Asked |-> 0] \in [Asked -> {0} \cup Questions]
  OBVIOUS
<1>3. [v |-> -1, local |-> 0] \in [v : Int, local : Nat]
  OBVIOUS
<1>4. "quickstart" \in Tabs
  BY DEF Tabs
<1>5. QED
  BY <1>1, <1>2, <1>3, <1>4 DEF Opened, View

(* A step that mounts a page keeps the types.                              *)
LEMMA MountTypes ==
  ASSUME TypeOK, NEW p \in Pages, Mount(p), session' \in Session, UNCHANGED <<db, told, tally>>
  PROVE  TypeOK'
<1>1. calls' \in [Ops -> Seq(Call)]
  BY MountFacts
<1>2. at' \in Pages /\ view' \in View
  BY OpenedFacts DEF Mount
<1>3. (visit \in 1..(MaxVisits + 1))'
  BY ConsoleAssumption DEF TypeOK, Mount
<1>4. user' \in BOOLEAN
  BY DEF Mount
<1>5. QED
  BY <1>1, <1>2, <1>3, <1>4 DEF TypeOK, Session

(* A step of the operator on the page shown keeps the types.               *)
LEMMA SendTypes ==
  ASSUME TypeOK, NEW op \in Ops, NEW then \in Forms \cup {"none", "cart", "demo"},
         NEW mark \in Int, Send(op, NewCall(visit, then, mark)),
         view' \in View, session' \in Session, Click \/ UNCHANGED tally,
         UNCHANGED <<at, visit, user, db, told>>
  PROVE  TypeOK'
<1>1. visit \in Nat
  BY CallsType
<1>2. NewCall(visit, then, mark) \in Call
  BY <1>1, NewCallFacts
<1>3. calls' \in [Ops -> Seq(Call)]
  BY <1>2, SendFacts
<1>4. tally' \in Tally
  BY TallyFacts DEF TypeOK, Tally
<1>5. QED
  BY <1>3, <1>4 DEF TypeOK, Session, Tally

(* The names of the calls.                                                 *)
LEMMA OpFacts ==
  /\ Views \subseteq Ops /\ Forms \subseteq Ops /\ Asked \subseteq Ops
  /\ {"recover", "keys", "newKey", "login"} \subseteq Ops
  /\ "merchant" \in Ops /\ "checkout" \in Ops /\ "simulate" \in Ops /\ "lookup" \in Ops
  /\ "none" \in Forms \cup {"none", "cart", "demo"} /\ "cart" \in Forms \cup {"none", "cart", "demo"}
  /\ "demo" \in Forms \cup {"none", "cart", "demo"} /\ 0 \in Int
  /\ Questions \subseteq Int
BY ConsoleAssumption DEF Ops, Views, Forms, Asked

LEMMA OperatorTypes ==
  ASSUME TypeOK, Operator
  PROVE  TypeOK'
<1>1. /\ view \in View /\ session \in Session /\ visit \in Nat
  BY CallsType DEF TypeOK, Session
<1>2. /\ view.data \in Data /\ view.data.v \in Int /\ view.busy \in SUBSET (Forms \cup {"simulate"})
      /\ view.question \in [Asked -> {0} \cup Questions]
      /\ view.answer \in [Asked -> {0} \cup Questions] /\ view.mixed \in BOOLEAN
  BY <1>1 DEF View, Data
<1>3. ASSUME NEW p \in Pages, Navigate(p) PROVE TypeOK'
  BY <1>1, <1>3, MountTypes DEF Navigate
<1>4. CASE HandleLogin
  BY <1>1, <1>4, SendTypes, OpFacts DEF HandleLogin, calling
<1>5. CASE HandleLogout
  <2>1. session' \in Session
    BY <1>1, <1>5 DEF HandleLogout, Session
  <2>2. "login" \in Pages
    BY DEF Pages
  <2>3. QED
    BY <1>5, <2>1, <2>2, MountTypes DEF HandleLogout
<1>6. CASE RefreshDashboard
  BY <1>1, <1>6, SendTypes, OpFacts DEF RefreshDashboard, calling
<1>7. CASE RefreshKeys
  BY <1>1, <1>7, SendTypes, OpFacts DEF RefreshKeys, calling
<1>8. ASSUME NEW op \in Forms, HandleCreate(op) PROVE TypeOK'
  <2>1. view' \in View
    BY <1>1, <1>2, <1>8 DEF HandleCreate, View
  <2>2. QED
    BY <1>1, <1>8, <2>1, SendTypes, OpFacts DEF HandleCreate, calling
<1>9. ASSUME NEW row \in {"cart", "demo"}, DispatchRecovery(row) PROVE TypeOK'
  BY <1>1, <1>2, <1>9, SendTypes, OpFacts DEF DispatchRecovery, calling
<1>10. ASSUME NEW t \in Tabs, SelectTab(t) PROVE TypeOK'
  <2>1. view' \in View
    BY <1>1, <1>10 DEF SelectTab, View
  <2>2. CASE t = "apikeys"
    BY <1>1, <1>10, <2>1, <2>2, SendTypes, OpFacts DEF SelectTab, calling
  <2>3. CASE t # "apikeys"
    BY <1>1, <1>10, <2>1, <2>3 DEF SelectTab, calling, TypeOK
  <2>4. QED
    BY <2>2, <2>3
<1>11. CASE HandleCreateKey
  BY <1>1, <1>11, SendTypes, OpFacts DEF HandleCreateKey, calling
<1>12. ASSUME NEW q \in Questions, HandleRunSimulation(q) PROVE TypeOK'
  <2>1. view' \in View
    BY <1>1, <1>2, <1>12 DEF HandleRunSimulation, View
  <2>2. q \in Int
    BY OpFacts
  <2>3. QED
    BY <1>1, <1>12, <2>1, <2>2, SendTypes, OpFacts DEF HandleRunSimulation, calling
<1>13. ASSUME NEW q \in Questions, HandleLookupCustomer(q) PROVE TypeOK'
  <2>1. view' \in View
    BY <1>1, <1>2, <1>13 DEF HandleLookupCustomer, View
  <2>2. q \in Int
    BY OpFacts
  <2>3. QED
    BY <1>1, <1>13, <2>1, <2>2, SendTypes, OpFacts DEF HandleLookupCustomer, calling
<1>14. QED
  BY <1>3, <1>4, <1>5, <1>6, <1>7, <1>8, <1>9, <1>10, <1>11, <1>12, <1>13 DEF Operator

(* A call is served with these data.                                       *)
Served(op, i, d) ==
  LET c == [calls[op][i] EXCEPT !.pc = "served", !.data = d]
  IN calls' = [calls EXCEPT ![op][i] = c]

(* What serving a call does to the API's data, and with what it answers.   *)
LEMMA ServeFacts ==
  ASSUME TypeOK, NEW op \in Ops, NEW i \in DOMAIN calls[op], Serve(op, i)
  PROVE  /\ db' \in DB /\ Newer
         /\ \E d \in Data : Served(op, i, d) /\ (d = Empty \/ d = [v |-> db'.v, cart |-> db'.cart])
<1>1. db \in DB
  BY DEF TypeOK, DB
<1>2. PICK c \in Call : c = calls[op][i]
  BY CallsType
<1>3. c.mark \in Int
  BY CallFacts
<1>4. db.v + 1 \in Nat /\ db.v + 1 >= db.v /\ "RECOVERY_DISPATCHED" \in CartStatus
  BY <1>1 DEF DB, CartStatus
<1>5. CASE db' = Written(op, c) /\ Answer(op, i, [v |-> db'.v, cart |-> db'.cart])
  <2>1. db' \in DB
    BY <1>1, <1>3, <1>4, <1>5 DEF DB, Written
  <2>2. Newer
    BY <1>1, <1>3, <1>5 DEF DB, Written, Newer
  <2>3. [v |-> db'.v, cart |-> db'.cart] \in Data
    BY <2>1 DEF DB, Data
  <2>4. Served(op, i, [v |-> db'.v, cart |-> db'.cart])
    BY <1>5 DEF Answer, Served
  <2>5. QED
    BY <2>1, <2>2, <2>3, <2>4
<1>6. CASE UNCHANGED db /\ Answer(op, i, Empty)
  <2>1. db' \in DB /\ Newer
    BY <1>1, <1>6 DEF DB, Newer
  <2>2. Empty \in Data
    BY DEF Empty, Data
  <2>3. Served(op, i, Empty)
    BY <1>6 DEF Answer, Served
  <2>4. QED
    BY <2>1, <2>2, <2>3
<1>7. QED
  BY <1>2, <1>5, <1>6 DEF Serve

(* The answered call.                                                      *)
LEMMA ServedFacts ==
  ASSUME TypeOK, NEW op \in Ops, NEW i \in DOMAIN calls[op], NEW d \in Data, Served(op, i, d),
         NEW old, old = calls[op][i]
  PROVE  \E c \in Call : /\ calls' = [calls EXCEPT ![op][i] = c]
                         /\ c.visit = old.visit /\ c.then = old.then /\ c.mark = old.mark
                         /\ c.pc = "served" /\ c.data = d
<1>1. old \in Call
  BY CallsType
<1>2. PICK c : c = [old EXCEPT !.pc = "served", !.data = d]
  OBVIOUS
<1>3. /\ c \in Call /\ c.visit = old.visit /\ c.then = old.then /\ c.mark = old.mark
      /\ c.pc = "served" /\ c.data = d
  BY <1>1, <1>2 DEF Call
<1>4. calls' = [calls EXCEPT ![op][i] = c]
  BY <1>2 DEF Served
<1>5. QED
  BY <1>3, <1>4

(* The steps of the API, and the failures, keep the types.                 *)
LEMMA ServeTypes ==
  ASSUME TypeOK, NEW op \in Ops, NEW i \in DOMAIN calls[op], Serve(op, i)
  PROVE  TypeOK'
<1>1. PICK d \in Data : Served(op, i, d)
  BY ServeFacts
<1>2. PICK c \in Call : calls' = [calls EXCEPT ![op][i] = c]
  BY <1>1, ServedFacts
<1>3. calls' \in [Ops -> Seq(Call)]
  BY <1>2, AnsweredFacts
<1>4. db' \in DB
  BY ServeFacts
<1>5. tally' \in Tally
  BY TallyFacts DEF Serve, TypeOK, Tally
<1>6. QED
  BY <1>3, <1>4, <1>5 DEF TypeOK, Serve, DB, Tally

LEMMA FailTypes ==
  ASSUME TypeOK, NEW op \in Ops, NEW i \in DOMAIN calls[op], Fail(op, i)
  PROVE  TypeOK'
<1>1. PICK pc \in {"lost", "refused"} : calls' = [calls EXCEPT ![op][i] = [calls[op][i] EXCEPT !.pc = pc]]
  BY DEF Fail
<1>2. PICK c \in Call : c = [calls[op][i] EXCEPT !.pc = pc]
  <2>1. calls[op][i] \in Call
    BY CallsType
  <2>2. QED
    BY <2>1 DEF Call
<1>3. calls' \in [Ops -> Seq(Call)]
  BY <1>1, <1>2, AnsweredFacts
<1>4. tally' \in Tally
  BY TallyFacts DEF Fail
<1>5. QED
  BY <1>3, <1>4 DEF TypeOK, Fail, Tally

(* The call an answer arrives for, as a value.                             *)
LEMMA LandTypes ==
  ASSUME TypeOK, CallInv, NEW op \in Ops, NEW i \in DOMAIN calls[op], Land(op, i)
  PROVE  TypeOK'
<1>1. PICK c \in Call : c = calls[op][i]
  BY CallsType
<1>2. /\ view \in View /\ session \in Session /\ told \in Told
      /\ view.data \in Data /\ view.busy \in SUBSET (Forms \cup {"simulate"})
      /\ view.answer \in [Asked -> {0} \cup Questions] /\ view.keys.local \in Nat
  BY DEF TypeOK, Session, Told, View
<1>3. c.visit \in Nat /\ c.mark \in Int /\ c.data \in Data /\ c.data.v \in Int /\ Demo \in Data
  BY CallFacts DEF Demo, Data
<1>4. op \in Asked => c.mark \in Questions
  BY <1>1 DEF CallInv, SoundCall
<1>5. Without(op, i) \in [Ops -> Seq(Call)]
  BY WithoutFacts
<1>6. \A then \in Forms \cup {"none", "cart", "demo"}, mark \in Int : NewCall(c.visit, then, mark) \in Call
  BY <1>3, NewCallFacts
<1>7. ASSUME NEW next \in Ops, next # op, NEW then \in Forms \cup {"none", "cart", "demo"}, NEW mark \in Int,
             Then(op, i, next, NewCall(c.visit, then, mark))
      PROVE  calls' \in [Ops -> Seq(Call)]
  BY <1>6, <1>7, ThenFacts
<1>8. CASE op \in Views /\ LandView(op, i)
  <2>1. view' \in View
    BY <1>1, <1>2, <1>3, <1>8 DEF LandView, Loaded, View
  <2>2. told' \in Told
    BY <1>1, <1>2, <1>3, <1>8 DEF LandView, Told
  <2>3. QED
    BY <1>5, <1>8, <2>1, <2>2 DEF LandView, TypeOK, Told
<1>9. CASE op \in Forms /\ LandForm(op, i)
  <2>1. view' \in View
    BY <1>1, <1>2, <1>9 DEF LandForm, View
  <2>2. calls' \in [Ops -> Seq(Call)]
    <3>1. "merchant" # op
      BY <1>9 DEF Forms
    <3>2. QED
      BY <1>1, <1>3, <1>5, <1>7, <1>9, <3>1, OpFacts DEF LandForm
  <2>3. QED
    BY <1>9, <2>1, <2>2 DEF LandForm, TypeOK
<1>10. CASE op = "recover" /\ LandRecover(i)
  <2>1. calls' \in [Ops -> Seq(Call)]
    BY <1>1, <1>5, <1>7, <1>10, OpFacts DEF LandRecover
  <2>2. QED
    BY <1>10, <2>1 DEF LandRecover, TypeOK
<1>11. CASE op = "keys" /\ LandKeys(i)
  <2>1. view' \in View
    BY <1>1, <1>2, <1>3, <1>11 DEF LandKeys, View
  <2>2. QED
    BY <1>5, <1>11, <2>1 DEF LandKeys, TypeOK
<1>12. CASE op = "newKey" /\ LandNewKey(i)
  <2>1. calls' \in [Ops -> Seq(Call)]
    BY <1>1, <1>5, <1>7, <1>12, OpFacts DEF LandNewKey
  <2>2. LocalKey \in View
    <3>1. PICK k \in [v : Int, local : Nat] : k = view.keys
      BY <1>2 DEF View
    <3>2. [k EXCEPT !.local = @ + 1] \in [v : Int, local : Nat]
      OBVIOUS
    <3>3. LocalKey = [view EXCEPT !.keys = [k EXCEPT !.local = @ + 1], !.secret = "local"]
      BY <3>1 DEF LocalKey
    <3>4. QED
      BY <1>2, <3>2, <3>3 DEF View
  <2>3. view' \in View
    BY <1>1, <1>2, <1>12, <2>2 DEF LandNewKey, View
  <2>4. QED
    BY <1>12, <2>1, <2>3 DEF LandNewKey, TypeOK
<1>13. CASE op \in Asked /\ LandAnswer(op, i)
  <2>1. view' \in View
    BY <1>1, <1>2, <1>4, <1>13 DEF LandAnswer, View
  <2>2. QED
    BY <1>5, <1>13, <2>1 DEF LandAnswer, TypeOK
<1>14. CASE op = "login" /\ LandLogin(i)
  <2>1. session' \in Session
    BY <1>2, <1>14 DEF LandLogin, Session
  <2>2. QED
    BY <1>5, <1>14, <2>1 DEF LandLogin, TypeOK, Session
<1>15. QED
  BY <1>8, <1>9, <1>10, <1>11, <1>12, <1>13, <1>14 DEF Land

(* Every step keeps the types.                                             *)
LEMMA NextTypes ==
  ASSUME TypeOK, CallInv, [Next]_vars
  PROVE  TypeOK'
<1>1. CASE Operator
  BY <1>1, OperatorTypes
<1>2. CASE Redirect
  <2>1. session' \in Session
    BY <1>2 DEF Redirect, TypeOK, Session
  <2>2. CASE at # "analytics"
    BY <1>2, <2>1, <2>2, MountTypes DEF Redirect, Pages
  <2>3. CASE at = "analytics"
    BY <1>2, <2>1, <2>3 DEF Redirect, TypeOK, Session
  <2>4. QED
    BY <2>2, <2>3
<1>3. CASE TrackSession
  <2>1. db' \in DB
    <3>1. db \in DB /\ db.v + 1 \in Nat
      BY DEF TypeOK, DB
    <3>2. PICK st \in CartStatus : db' = [db EXCEPT !.v = db.v + 1, !.cart = st, !.since = db.v + 1]
      BY <1>3 DEF TrackSession
    <3>3. QED
      BY <3>1, <3>2 DEF DB
  <2>2. tally' \in Tally
    <3>1. tally \in Tally /\ tally.changes < MaxChanges /\ MaxChanges \in Nat
      BY <1>3, ConsoleAssumption DEF TrackSession, TypeOK, Tally
    <3>2. tally.changes + 1 \in 0..MaxChanges
      BY <3>1 DEF Tally
    <3>3. QED
      BY <1>3, <3>1, <3>2 DEF TrackSession, Tally
  <2>3. QED
    BY <1>3, <2>1, <2>2 DEF TrackSession, TypeOK, DB, Tally
<1>4. CASE UNCHANGED vars
  BY <1>4 DEF vars, TypeOK
<1>5. QED
  BY <1>1, <1>2, <1>3, <1>4, ServeTypes, FailTypes, LandTypes DEF Next
-----------------------------------------------------------------------------
(* The calls under way stay sound.                                         *)

(* A new call is sound.                                                    *)
LEMMA NewSound ==
  ASSUME TypeOK', NEW op \in Ops, NEW n \in Call, n.visit <= visit', n.data.v = -2, n.pc = "sent",
         n.then \in Forms => op = "merchant" /\ n.mark <= db'.v,
         op = "recover" /\ n.then = "cart"
           => n.mark <= db'.v /\ (n.mark >= db'.since => db'.cart # "RECOVERED"),
         op \in Asked => n.mark \in Questions
  PROVE  SoundCall(op, n)'
<1>1. db'.v \in Nat /\ db'.since \in Nat
  BY DEF TypeOK
<1>2. Seen(n.data)'
  BY <1>1 DEF Seen
<1>3. QED
  BY <1>2 DEF SoundCall

(* The calls that stay under way are sound when the new ones are.          *)
LEMMA CallsKept ==
  ASSUME TypeOK, CallInv, TypeOK', Newer, visit <= visit',
         NEW N \in SUBSET Ops, NEW n \in Call, \A o \in N : SoundCall(o, n)',
         \A o \in Ops : \A k \in DOMAIN calls'[o] :
           UnderWay(o, calls'[o][k]) \/ (o \in N /\ calls'[o][k] = n)
  PROVE  (\A o \in Ops : \A k \in DOMAIN calls[o] : SoundCall(o, calls[o][k]))'
<1>1. SUFFICES ASSUME NEW o \in Ops, NEW k \in DOMAIN calls'[o]
               PROVE  (SoundCall(o, calls[o][k]))'
  OBVIOUS
<1>2. db \in DB /\ db' \in DB /\ visit \in Nat
  BY CallsType DEF TypeOK, DB
<1>3. visit' \in Nat
  BY ConsoleAssumption DEF TypeOK
<1>4. PICK c : c = calls'[o][k]
  OBVIOUS
<1>5. SoundCall(o, c)'
  <2>1. CASE UnderWay(o, c)
    <3>1. PICK j \in DOMAIN calls[o] : calls[o][j] = c
      BY <2>1 DEF UnderWay
    <3>2. c \in Call /\ SoundCall(o, c)
      BY <3>1, CallsType DEF CallInv
    <3>3. QED
      BY <1>2, <1>3, <3>2, SoundKept
  <2>2. CASE o \in N /\ c = n
    BY <2>2
  <2>3. QED
    BY <1>4, <2>1, <2>2
<1>6. QED
  BY <1>4, <1>5 DEF SoundCall, Seen

(* The API's data, and what the page shows of them.                        *)
LEMMA DataKept ==
  ASSUME TypeOK, CallInv, TypeOK', Newer,
         view'.data \in {view.data, Demo, Nothing} \/ Seen(view'.data)
  PROVE  (db.since <= db.v)' /\ Seen(view.data)'
<1>1. db \in DB /\ db' \in DB /\ view'.data \in Data
  BY DEF TypeOK, DB, View
<1>2. db.v \in Nat /\ db'.v \in Nat /\ db.since \in Nat /\ db'.since \in Nat
  BY <1>1 DEF DB
<1>3. (db.since <= db.v)'
  BY <1>2 DEF CallInv, Newer
<1>4. PICK d \in Data : d = view'.data
  BY <1>1
<1>5. Seen(Demo) /\ Seen(Nothing)
  BY <1>2 DEF Seen, Demo, Nothing
<1>6. Seen(d)
  BY <1>4, <1>5 DEF CallInv
<1>7. Seen(d)'
  BY <1>1, <1>6, SeenKept
<1>8. QED
  BY <1>3, <1>4, <1>7 DEF Seen

(* A step of the operator on the page shown keeps the calls sound.         *)
LEMMA SendSound ==
  ASSUME TypeOK, CallInv, TypeOK', NEW op \in Ops,
         NEW then \in Forms \cup {"none", "cart", "demo"}, NEW mark \in Int,
         Send(op, NewCall(visit, then, mark)),
         then \notin Forms,
         op = "recover" /\ then = "cart"
           => mark <= db.v /\ (mark >= db.since => db.cart # "RECOVERED"),
         op \in Asked => mark \in Questions,
         view'.data = view.data, UNCHANGED <<visit, db>>
  PROVE  CallInv'
<1>1. visit \in Nat
  BY CallsType
<1>2. PICK n \in Call : /\ n = NewCall(visit, then, mark) /\ n.visit = visit /\ n.pc = "sent"
                        /\ n.then = then /\ n.mark = mark /\ n.data.v = -2
  <2>1. PICK v \in Nat : v = visit
    BY <1>1
  <2>2. /\ NewCall(v, then, mark) \in Call /\ NewCall(v, then, mark).visit = v
        /\ NewCall(v, then, mark).pc = "sent" /\ NewCall(v, then, mark).then = then
        /\ NewCall(v, then, mark).mark = mark /\ NewCall(v, then, mark).data.v = -2
    BY NewCallFacts
  <2>3. QED
    BY <2>1, <2>2
<1>3. SoundCall(op, n)'
  BY <1>1, <1>2, NewSound
<1>4. Newer
  BY DEF Newer, TypeOK
<1>5. \A o \in Ops : \A k \in DOMAIN calls'[o] :
        UnderWay(o, calls'[o][k]) \/ (o \in {op} /\ calls'[o][k] = n)
  BY <1>2, SendFacts
<1>6. (\A o \in Ops : \A k \in DOMAIN calls[o] : SoundCall(o, calls[o][k]))'
  <2>1. {op} \in SUBSET Ops /\ visit <= visit' /\ \A o \in {op} : SoundCall(o, n)'
    BY <1>1, <1>3
  <2>2. QED
    BY <1>4, <1>5, <2>1, CallsKept
<1>7. (db.since <= db.v)' /\ Seen(view.data)'
  BY <1>4, DataKept
<1>8. QED
  BY <1>6, <1>7 DEF CallInv

(* Mounting a page keeps the calls sound.                                  *)
LEMMA MountSound ==
  ASSUME TypeOK, CallInv, TypeOK', NEW p \in Pages, Mount(p), UNCHANGED db
  PROVE  CallInv'
<1>1. visit \in Nat /\ visit' = visit + 1 /\ visit + 1 \in Nat /\ visit <= visit'
  BY CallsType DEF Mount
<1>2. PICK n \in Call : /\ n = NewCall(visit + 1, "none", 0) /\ n.visit = visit + 1 /\ n.pc = "sent"
                        /\ n.then = "none" /\ n.data.v = -2
  <2>1. PICK m \in Nat, then \in Forms \cup {"none", "cart", "demo"}, mark \in Int :
          m = visit + 1 /\ then = "none" /\ mark = 0
    BY <1>1, OpFacts
  <2>2. /\ NewCall(m, then, mark) \in Call /\ NewCall(m, then, mark).visit = m
        /\ NewCall(m, then, mark).pc = "sent" /\ NewCall(m, then, mark).then = then
        /\ NewCall(m, then, mark).data.v = -2
    BY NewCallFacts
  <2>3. QED
    BY <2>1, <2>2
<1>3. ASSUME NEW o \in Views PROVE SoundCall(o, n)'
  <2>1. o \in Ops /\ o \notin Asked /\ o # "recover" /\ "none" \notin Forms
    BY DEF Ops, Views, Asked, Forms
  <2>2. QED
    BY <1>1, <1>2, <2>1, NewSound
<1>4. Newer
  BY DEF Newer, TypeOK
<1>5. \A o \in Ops : \A k \in DOMAIN calls'[o] :
        UnderWay(o, calls'[o][k]) \/ (o \in Views /\ calls'[o][k] = n)
  BY <1>2, MountFacts
<1>6. (\A o \in Ops : \A k \in DOMAIN calls[o] : SoundCall(o, calls[o][k]))'
  BY <1>1, <1>3, <1>4, <1>5, CallsKept, OpFacts
<1>7. view'.data \in {Demo, Nothing}
  BY OpenedFacts DEF Mount
<1>8. (db.since <= db.v)' /\ Seen(view.data)'
  BY <1>4, <1>7, DataKept
<1>9. QED
  BY <1>6, <1>8 DEF CallInv

LEMMA OperatorSound ==
  ASSUME TypeOK, CallInv, TypeOK', Operator
  PROVE  CallInv'
<1>1. /\ view \in View /\ visit \in Nat /\ view.data \in Data /\ view.data.v \in Int
      /\ db.v \in Nat /\ db.since \in Nat /\ db.cart \in CartStatus
  BY CallsType DEF TypeOK, View, Data
<1>2. "none" \notin Forms /\ "cart" \notin Forms /\ "demo" \notin Forms
  BY DEF Forms
<1>3. ASSUME NEW p \in Pages, Navigate(p) PROVE CallInv'
  BY <1>3, MountSound DEF Navigate
<1>4. CASE HandleLogin
  <2>1. "login" \notin Asked /\ "login" # "recover"
    BY DEF Asked
  <2>2. QED
    BY <1>2, <1>4, <2>1, SendSound, OpFacts DEF HandleLogin, calling
<1>5. CASE HandleLogout
  BY <1>5, MountSound DEF HandleLogout, Pages
<1>6. CASE RefreshDashboard
  <2>1. "merchant" \notin Asked
    BY DEF Asked
  <2>2. QED
    BY <1>2, <1>6, <2>1, SendSound, OpFacts DEF RefreshDashboard, calling
<1>7. CASE RefreshKeys
  <2>1. "keys" \notin Asked
    BY DEF Asked
  <2>2. QED
    BY <1>2, <1>7, <2>1, SendSound, OpFacts DEF RefreshKeys, calling
<1>8. ASSUME NEW op \in Forms, HandleCreate(op) PROVE CallInv'
  <2>1. op \notin Asked /\ op # "recover" /\ op \in Ops
    BY DEF Asked, Forms, Ops
  <2>2. view'.data = view.data
    BY <1>1, <1>8 DEF HandleCreate, View
  <2>3. QED
    BY <1>2, <1>8, <2>1, <2>2, SendSound, OpFacts DEF HandleCreate, calling
<1>9. ASSUME NEW row \in {"cart", "demo"}, DispatchRecovery(row) PROVE CallInv'
  <2>1. row = "cart" => view.data.v <= db.v /\ (view.data.v >= db.since => db.cart # "RECOVERED")
    BY <1>1, <1>9 DEF DispatchRecovery, DispatchOffered, CallInv, Seen
  <2>2. row \in Forms \cup {"none", "cart", "demo"} /\ row \notin Forms /\ "recover" \notin Asked
    BY DEF Forms, Asked
  <2>3. QED
    BY <1>1, <1>9, <2>1, <2>2, SendSound, OpFacts DEF DispatchRecovery, calling
<1>10. ASSUME NEW t \in Tabs, SelectTab(t) PROVE CallInv'
  <2>1. view'.data = view.data /\ "keys" \notin Asked
    BY <1>1, <1>10 DEF SelectTab, View, Asked
  <2>2. CASE t = "apikeys"
    BY <1>2, <1>10, <2>1, <2>2, SendSound, OpFacts DEF SelectTab, calling
  <2>3. CASE t # "apikeys"
    BY <1>10, <2>1, <2>3 DEF SelectTab, calling, CallInv, SoundCall, Seen
  <2>4. QED
    BY <2>2, <2>3
<1>11. CASE HandleCreateKey
  <2>1. "newKey" \notin Asked
    BY DEF Asked
  <2>2. QED
    BY <1>2, <1>11, <2>1, SendSound, OpFacts DEF HandleCreateKey, calling
<1>12. ASSUME NEW q \in Questions, HandleRunSimulation(q) PROVE CallInv'
  <2>1. view'.data = view.data /\ q \in Int
    BY <1>1, <1>12, OpFacts DEF HandleRunSimulation, View
  <2>2. QED
    BY <1>2, <1>12, <2>1, SendSound, OpFacts DEF HandleRunSimulation, calling
<1>13. ASSUME NEW q \in Questions, HandleLookupCustomer(q) PROVE CallInv'
  <2>1. view'.data = view.data /\ q \in Int
    BY <1>1, <1>13, OpFacts DEF HandleLookupCustomer, View
  <2>2. QED
    BY <1>2, <1>13, <2>1, SendSound, OpFacts DEF HandleLookupCustomer, calling
<1>14. QED
  BY <1>3, <1>4, <1>5, <1>6, <1>7, <1>8, <1>9, <1>10, <1>11, <1>12, <1>13 DEF Operator

(* A call is answered or fails: the others stay sound, and so does it.     *)
LEMMA AnsweredSound ==
  ASSUME TypeOK, CallInv, TypeOK', Newer, NEW op \in Ops, NEW i \in DOMAIN calls[op], NEW c \in Call,
         calls' = [calls EXCEPT ![op][i] = c], SoundCall(op, c)', UNCHANGED <<visit, view>>
  PROVE  CallInv'
<1>1. (\A o \in Ops : \A k \in DOMAIN calls[o] : SoundCall(o, calls[o][k]))'
  <2>1. \A o \in Ops : \A k \in DOMAIN calls'[o] :
          UnderWay(o, calls'[o][k]) \/ (o \in {op} /\ calls'[o][k] = c)
    BY AnsweredFacts DEF UnderWay
  <2>2. {op} \in SUBSET Ops /\ visit <= visit' /\ \A o \in {op} : SoundCall(o, c)'
    BY CallsType
  <2>3. QED
    BY <2>1, <2>2, CallsKept
<1>2. (db.since <= db.v)' /\ Seen(view.data)'
  BY DataKept
<1>3. QED
  BY <1>1, <1>2 DEF CallInv

LEMMA ServeSound ==
  ASSUME TypeOK, CallInv, TypeOK', NEW op \in Ops, NEW i \in DOMAIN calls[op], Serve(op, i)
  PROVE  CallInv'
<1>1. PICK old \in Call : old = calls[op][i] /\ SoundCall(op, old)
  BY CallsType DEF CallInv
<1>2. PICK d \in Data : Served(op, i, d) /\ (d = Empty \/ d = [v |-> db'.v, cart |-> db'.cart])
  BY ServeFacts
<1>3. PICK c \in Call : /\ calls' = [calls EXCEPT ![op][i] = c]
                       /\ c.visit = old.visit /\ c.then = old.then /\ c.mark = old.mark
                       /\ c.pc = "served" /\ c.data = d
  BY <1>1, <1>2, ServedFacts
<1>4. Newer /\ db' \in DB /\ db \in DB
  BY ServeFacts DEF TypeOK, DB
<1>5. SoundCall(op, c)'
  <2>1. visit \in Nat /\ visit <= visit' /\ visit' \in Nat
    BY CallsType DEF Serve
  <2>2. SoundCall(op, old)'
    BY <1>1, <1>4, <2>1, SoundKept
  <2>3. db'.v \in Nat /\ db'.since \in Nat
    BY <1>4 DEF DB
  <2>4. Seen(c.data)'
    BY <1>2, <1>3, <2>3 DEF Seen, Empty
  <2>5. (c.then \in Forms => /\ op = "merchant" /\ c.mark <= db.v
                             /\ c.pc = "served" /\ c.data # Empty => c.mark <= c.data.v)'
    BY <1>2, <1>3, <2>2 DEF SoundCall, Empty
  <2>6. QED
    BY <1>3, <2>2, <2>4, <2>5 DEF SoundCall
<1>6. QED
  BY <1>3, <1>4, <1>5, AnsweredSound DEF Serve

LEMMA FailSound ==
  ASSUME TypeOK, CallInv, TypeOK', NEW op \in Ops, NEW i \in DOMAIN calls[op], Fail(op, i)
  PROVE  CallInv'
<1>1. PICK old \in Call : old = calls[op][i] /\ SoundCall(op, old)
  BY CallsType DEF CallInv
<1>2. PICK pc \in {"lost", "refused"} : calls' = [calls EXCEPT ![op][i] = [old EXCEPT !.pc = pc]]
  BY <1>1 DEF Fail
<1>3. PICK c \in Call : c = [old EXCEPT !.pc = pc]
  BY <1>1 DEF Call
<1>4. /\ c.visit = old.visit /\ c.then = old.then /\ c.mark = old.mark /\ c.data = old.data
      /\ c.pc # "served"
  BY <1>1, <1>2, <1>3 DEF Call
<1>5. SoundCall(op, c)'
  BY <1>1, <1>4 DEF SoundCall, Seen, Fail, Empty
<1>6. Newer
  BY DEF Newer, Fail, TypeOK
<1>7. QED
  BY <1>2, <1>3, <1>5, <1>6, AnsweredSound DEF Fail

(* A handler ends: what it shows is the API's data or none of them.        *)
LEMMA EndSound ==
  ASSUME TypeOK, CallInv, TypeOK', NEW op \in Ops, NEW i \in DOMAIN calls[op],
         calls' = Without(op, i), UNCHANGED <<visit, db>>,
         view'.data \in {view.data, Demo, Nothing, calls[op][i].data}
  PROVE  CallInv'
<1>1. Newer /\ visit <= visit'
  BY CallsType DEF Newer, TypeOK
<1>2. PICK c \in Call : c = calls[op][i] /\ SoundCall(op, c)
  BY CallsType DEF CallInv
<1>3. (\A o \in Ops : \A k \in DOMAIN calls[o] : SoundCall(o, calls[o][k]))'
  <2>1. \A o \in Ops : \A k \in DOMAIN calls'[o] :
          UnderWay(o, calls'[o][k]) \/ (o \in {} /\ calls'[o][k] = c)
    BY WithoutFacts
  <2>2. {} \in SUBSET Ops /\ \A o \in {} : SoundCall(o, c)'
    OBVIOUS
  <2>3. QED
    BY <1>1, <2>1, <2>2, CallsKept
<1>4. (db.since <= db.v)' /\ Seen(view.data)'
  BY <1>1, <1>2, DataKept DEF SoundCall
<1>5. QED
  BY <1>3, <1>4 DEF CallInv

(* A handler goes on with another call.                                    *)
LEMMA ThenSound ==
  ASSUME TypeOK, CallInv, TypeOK', NEW op \in Ops, NEW i \in DOMAIN calls[op],
         NEW next \in Ops, next # op, next \notin {"recover"} \cup Asked,
         NEW then \in Forms \cup {"none", "cart", "demo"}, NEW mark \in Int,
         then \in Forms => next = "merchant" /\ mark <= db.v,
         Then(op, i, next, NewCall(calls[op][i].visit, then, mark)),
         UNCHANGED <<visit, db>>, view'.data = view.data
  PROVE  CallInv'
<1>1. Newer /\ visit <= visit'
  BY CallsType DEF Newer, TypeOK
<1>2. PICK c \in Call : c = calls[op][i] /\ SoundCall(op, c)
  BY CallsType DEF CallInv
<1>3. c.visit \in Nat /\ c.visit <= visit
  BY <1>2, CallFacts DEF SoundCall
<1>4. PICK n \in Call : /\ n = NewCall(c.visit, then, mark) /\ n.visit = c.visit /\ n.pc = "sent"
                        /\ n.then = then /\ n.mark = mark /\ n.data.v = -2
  BY <1>3, NewCallFacts
<1>5. SoundCall(next, n)'
  BY <1>3, <1>4, NewSound
<1>6. (\A o \in Ops : \A k \in DOMAIN calls[o] : SoundCall(o, calls[o][k]))'
  <2>1. \A o \in Ops : \A k \in DOMAIN calls'[o] :
          UnderWay(o, calls'[o][k]) \/ (o \in {next} /\ calls'[o][k] = n)
    BY <1>2, <1>4, ThenFacts
  <2>2. {next} \in SUBSET Ops /\ \A o \in {next} : SoundCall(o, n)'
    BY <1>5
  <2>3. QED
    BY <1>1, <2>1, <2>2, CallsKept
<1>7. (db.since <= db.v)' /\ Seen(view.data)'
  BY <1>1, DataKept
<1>8. QED
  BY <1>6, <1>7 DEF CallInv

LEMMA LandSound ==
  ASSUME TypeOK, CallInv, TypeOK', NEW op \in Ops, NEW i \in DOMAIN calls[op], Land(op, i)
  PROVE  CallInv'
<1>1. PICK c \in Call : c = calls[op][i] /\ SoundCall(op, c)
  BY CallsType DEF CallInv
<1>2. /\ view \in View /\ c.data.v \in Int /\ c.data.v <= db.v
  BY <1>1, CallFacts DEF TypeOK, SoundCall, Seen
<1>3. CASE op \in Views /\ LandView(op, i)
  <2>1. view'.data \in {view.data, Demo, Nothing, calls[op][i].data}
    BY <1>1, <1>2, <1>3 DEF LandView, Loaded, View
  <2>2. QED
    BY <1>3, <2>1, EndSound DEF LandView
<1>4. CASE op \in Forms /\ LandForm(op, i)
  <2>1. view'.data = view.data
    BY <1>2, <1>4 DEF LandForm, View
  <2>2. CASE c.pc = "served"
    <3>1. "merchant" # op /\ "merchant" \notin {"recover"} \cup Asked
      BY <1>4 DEF Forms, Asked
    <3>2. Then(op, i, "merchant", NewCall(calls[op][i].visit, op, c.data.v))
      BY <1>1, <1>4, <2>2 DEF LandForm
    <3>3. UNCHANGED <<visit, db>> /\ op \in Forms \cup {"none", "cart", "demo"}
      BY <1>4 DEF LandForm
    <3>4. QED
      BY <1>2, <2>1, <3>1, <3>2, <3>3, ThenSound, OpFacts
  <2>3. CASE c.pc # "served"
    BY <1>1, <1>4, <2>1, <2>3, EndSound DEF LandForm
  <2>4. QED
    BY <2>2, <2>3
<1>5. CASE op = "recover" /\ LandRecover(i)
  <2>1. CASE c.pc = "served"
    <3>1. "checkout" # op /\ "checkout" \notin {"recover"} \cup Asked /\ "none" \notin Forms
      BY <1>5 DEF Forms, Asked
    <3>2. Then(op, i, "checkout", NewCall(calls[op][i].visit, "none", 0))
      BY <1>1, <1>5, <2>1 DEF LandRecover
    <3>3. UNCHANGED <<visit, db, view>>
      BY <1>5 DEF LandRecover
    <3>4. QED
      BY <3>1, <3>2, <3>3, ThenSound, OpFacts
  <2>2. CASE c.pc # "served"
    BY <1>1, <1>5, <2>2, EndSound DEF LandRecover
  <2>3. QED
    BY <2>1, <2>2
<1>6. CASE op = "keys" /\ LandKeys(i)
  <2>1. view'.data = view.data
    BY <1>2, <1>6 DEF LandKeys, View
  <2>2. QED
    BY <1>6, <2>1, EndSound DEF LandKeys
<1>7. CASE op = "newKey" /\ LandNewKey(i)
  <2>1. view'.data = view.data
    BY <1>2, <1>7 DEF LandNewKey, LocalKey, View
  <2>2. CASE c.pc = "served"
    <3>1. "keys" # op /\ "keys" \notin {"recover"} \cup Asked /\ "none" \notin Forms
      BY <1>7 DEF Forms, Asked
    <3>2. Then(op, i, "keys", NewCall(calls[op][i].visit, "none", 0))
      BY <1>1, <1>7, <2>2 DEF LandNewKey
    <3>3. UNCHANGED <<visit, db>>
      BY <1>7 DEF LandNewKey
    <3>4. QED
      BY <2>1, <3>1, <3>2, <3>3, ThenSound, OpFacts
  <2>3. CASE c.pc # "served"
    BY <1>1, <1>7, <2>1, <2>3, EndSound DEF LandNewKey
  <2>4. QED
    BY <2>2, <2>3
<1>8. CASE op \in Asked /\ LandAnswer(op, i)
  <2>1. view'.data = view.data
    BY <1>2, <1>8 DEF LandAnswer, View
  <2>2. QED
    BY <1>8, <2>1, EndSound DEF LandAnswer
<1>9. CASE op = "login" /\ LandLogin(i)
  BY <1>9, EndSound DEF LandLogin
<1>10. QED
  BY <1>3, <1>4, <1>5, <1>6, <1>7, <1>8, <1>9 DEF Land

(* Every step keeps the calls sound.                                       *)
LEMMA NextSound ==
  ASSUME TypeOK, CallInv, TypeOK', [Next]_vars
  PROVE  CallInv'
<1>1. CASE Operator
  BY <1>1, OperatorSound
<1>2. CASE Redirect
  <2>1. CASE at # "analytics"
    BY <1>2, <2>1, MountSound DEF Redirect, Pages
  <2>2. CASE at = "analytics"
    BY <1>2, <2>2 DEF Redirect, CallInv, SoundCall, Seen
  <2>3. QED
    BY <2>1, <2>2
<1>3. CASE TrackSession
  <2>1. Newer
    <3>1. db \in DB
      BY DEF TypeOK, DB
    <3>2. PICK st \in CartStatus : db' = [db EXCEPT !.v = db.v + 1, !.cart = st, !.since = db.v + 1]
      BY <1>3 DEF TrackSession
    <3>3. QED
      BY <3>1, <3>2 DEF DB, Newer
  <2>2. (db.since <= db.v)' /\ Seen(view.data)'
    BY <1>3, <2>1, DataKept DEF TrackSession
  <2>3. (\A o \in Ops : \A k \in DOMAIN calls[o] : SoundCall(o, calls[o][k]))'
    <3>1. \A o \in Ops : \A k \in DOMAIN calls'[o] :
            UnderWay(o, calls'[o][k]) \/ (o \in {} /\ calls'[o][k] = NewCall(0, "none", 0))
      BY <1>3 DEF TrackSession, UnderWay
    <3>2. /\ NewCall(0, "none", 0) \in Call /\ {} \in SUBSET Ops
          /\ \A o \in {} : SoundCall(o, NewCall(0, "none", 0))'
      BY NewCallFacts, OpFacts
    <3>3. visit <= visit'
      BY <1>3, CallsType DEF TrackSession
    <3>4. QED
      BY <2>1, <3>1, <3>2, <3>3, CallsKept
  <2>4. QED
    BY <2>2, <2>3 DEF CallInv
<1>4. CASE UNCHANGED vars
  BY <1>4 DEF vars, CallInv, SoundCall, Seen
<1>5. QED
  BY <1>1, <1>2, <1>3, <1>4, ServeSound, FailSound, LandSound DEF Next
-----------------------------------------------------------------------------
(* The answers on the developer page.                                      *)

(* A step that leaves the two forms and their calls as they are, but for   *)
(* the progress of the calls.                                              *)
LEMMA AskKept ==
  ASSUME AskInv, AnswersTheQuestion, visit' = visit,
         view'.question = view.question, view'.answer = view.answer, view'.mixed = view.mixed,
         "simulate" \in view.busy => "simulate" \in view'.busy,
         \A o \in Asked : /\ DOMAIN calls'[o] = DOMAIN calls[o]
                          /\ \A k \in DOMAIN calls[o] : /\ calls'[o][k].visit = calls[o][k].visit
                                                        /\ calls'[o][k].mark = calls[o][k].mark
  PROVE  AskInv' /\ AnswersTheQuestion'
<1>1. "simulate" \in Asked /\ "lookup" \in Asked
  BY DEF Asked
<1>2. AskInv'
  BY <1>1 DEF AskInv
<1>3. AnswersTheQuestion'
  BY DEF AnswersTheQuestion
<1>4. QED
  BY <1>2, <1>3

(* A page is mounted: no call under way is its own.                        *)
LEMMA MountAsks ==
  ASSUME TypeOK, CallInv, NEW p \in Pages, Mount(p)
  PROVE  AskInv' /\ AnswersTheQuestion'
<1>1. visit \in Nat /\ visit' = visit + 1
  BY CallsType DEF Mount
<1>2. ASSUME NEW o \in Asked, NEW k \in DOMAIN calls'[o] PROVE calls'[o][k].visit # visit'
  <2>1. o \in Ops \ Views
    BY DEF Asked, Ops, Views
  <2>2. PICK j \in DOMAIN calls[o] : calls[o][j] = calls'[o][k]
    BY <2>1, MountFacts DEF UnderWay
  <2>3. calls[o][j].visit \in Nat /\ calls[o][j].visit <= visit
    <3>1. PICK c \in Call : c = calls[o][j] /\ SoundCall(o, c)
      BY <2>1, CallsType DEF CallInv
    <3>2. QED
      BY <3>1, CallFacts DEF SoundCall
  <2>4. QED
    BY <1>1, <2>2, <2>3
<1>3. "simulate" \in Asked /\ "lookup" \in Asked
  BY DEF Asked
<1>4. AskInv'
  BY <1>2, <1>3 DEF AskInv
<1>5. \A op \in Asked : view'.answer[op] = 0
  BY OpenedFacts DEF Mount
<1>6. AnswersTheQuestion'
  BY <1>5 DEF AnswersTheQuestion
<1>7. QED
  BY <1>4, <1>6

(* A call of another kind is made on the page shown.                       *)
LEMMA SendAsks ==
  ASSUME TypeOK, AskInv, AnswersTheQuestion, NEW op \in Ops \ Asked,
         NEW then \in Forms \cup {"none", "cart", "demo"}, NEW mark \in Int,
         Send(op, NewCall(visit, then, mark)), visit' = visit,
         view'.question = view.question, view'.answer = view.answer, view'.mixed = view.mixed,
         "simulate" \in view.busy => "simulate" \in view'.busy
  PROVE  AskInv' /\ AnswersTheQuestion'
<1>1. NewCall(visit, then, mark) \in Call
  BY CallsType, NewCallFacts
<1>2. \A o \in Ops \ {op} : calls'[o] = calls[o]
  BY <1>1, SendFacts
<1>3. \A o \in Asked : calls'[o] = calls[o]
  BY <1>2, OpFacts
<1>4. QED
  BY <1>3, AskKept

(* handleRunSimulation: the button was enabled, so no simulation of this   *)
(* page was under way.                                                     *)
LEMMA SimulationAsks ==
  ASSUME TypeOK, AskInv, AnswersTheQuestion, NEW q \in Questions, HandleRunSimulation(q)
  PROVE  AskInv' /\ AnswersTheQuestion'
<1>1. PICK n \in Call : n = NewCall(visit, "none", q) /\ n.visit = visit /\ n.mark = q
  <2>1. q \in Int /\ visit \in Nat
    BY CallsType, OpFacts
  <2>2. QED
    BY <2>1, NewCallFacts, OpFacts
<1>2. /\ \A o \in Ops \ {"simulate"} : calls'[o] = calls[o]
      /\ \A k \in DOMAIN calls'["simulate"] :
           \/ k \in DOMAIN calls["simulate"] /\ calls'["simulate"][k] = calls["simulate"][k]
           \/ k = Len(calls["simulate"]) + 1 /\ calls'["simulate"][k] = n
  BY <1>1, SendFacts, OpFacts DEF HandleRunSimulation
<1>3. calls'["lookup"] = calls["lookup"] /\ visit' = visit
  BY <1>2, OpFacts DEF HandleRunSimulation, calling
<1>4. \A k \in DOMAIN calls["simulate"] : calls["simulate"][k].visit # visit
  BY DEF AskInv, HandleRunSimulation
<1>5. /\ view'.question["simulate"] = q /\ view'.answer["simulate"] = 0
      /\ view'.question["lookup"] = view.question["lookup"]
      /\ view'.answer["lookup"] = view.answer["lookup"]
      /\ view'.mixed = view.mixed /\ "simulate" \in view'.busy
  BY DEF HandleRunSimulation, TypeOK, View, Asked
<1>6. \A k \in DOMAIN calls'["simulate"] :
        calls'["simulate"][k].visit = visit'
          => k = Len(calls["simulate"]) + 1 /\ calls'["simulate"][k] = n
  BY <1>2, <1>3, <1>4
<1>7. AskInv'
  BY <1>1, <1>3, <1>5, <1>6 DEF AskInv
<1>8. AnswersTheQuestion'
  BY <1>5 DEF AnswersTheQuestion, Asked
<1>9. QED
  BY <1>7, <1>8

(* handleLookupCustomer: lookups of this page that are under way are mixed *)
(* from now on.                                                            *)
LEMMA LookupAsks ==
  ASSUME TypeOK, AskInv, AnswersTheQuestion, NEW q \in Questions, HandleLookupCustomer(q)
  PROVE  AskInv' /\ AnswersTheQuestion'
<1>1. PICK n \in Call : n = NewCall(visit, "none", q) /\ n.visit = visit /\ n.mark = q
  <2>1. q \in Int /\ visit \in Nat
    BY CallsType, OpFacts
  <2>2. QED
    BY <2>1, NewCallFacts, OpFacts
<1>2. /\ \A o \in Ops \ {"lookup"} : calls'[o] = calls[o]
      /\ \A k \in DOMAIN calls'["lookup"] :
           \/ k \in DOMAIN calls["lookup"] /\ calls'["lookup"][k] = calls["lookup"][k]
           \/ k = Len(calls["lookup"]) + 1 /\ calls'["lookup"][k] = n
  BY <1>1, SendFacts, OpFacts DEF HandleLookupCustomer
<1>3. calls'["simulate"] = calls["simulate"] /\ visit' = visit
  BY <1>2, OpFacts DEF HandleLookupCustomer, calling
<1>4. /\ view'.question["lookup"] = q /\ view'.answer["lookup"] = 0
      /\ view'.question["simulate"] = view.question["simulate"]
      /\ view'.answer["simulate"] = view.answer["simulate"]
      /\ view'.busy = view.busy
      /\ view'.mixed = (view.mixed \/ \E k \in DOMAIN calls["lookup"] : calls["lookup"][k].visit = visit)
  BY DEF HandleLookupCustomer, TypeOK, View, Asked
<1>5. \A k \in DOMAIN calls'["lookup"] :
        calls'["lookup"][k].visit = visit' => view'.mixed \/ calls'["lookup"][k].mark = q
  BY <1>1, <1>2, <1>3, <1>4
<1>6. AskInv'
  BY <1>3, <1>4, <1>5 DEF AskInv
<1>7. AnswersTheQuestion'
  BY <1>4 DEF AnswersTheQuestion, Asked
<1>8. QED
  BY <1>6, <1>7

(* A simulation is answered.  It was the only one of this page.            *)
LEMMA SimulationAnswered ==
  ASSUME TypeOK, AskInv, AnswersTheQuestion, NEW i \in DOMAIN calls["simulate"],
         LandAnswer("simulate", i)
  PROVE  AskInv' /\ AnswersTheQuestion'
<1> DEFINE old == calls["simulate"]
           new == calls'["simulate"]
<1>1. /\ \A o \in Ops \ {"simulate"} : calls'[o] = calls[o]
      /\ \A k \in DOMAIN new : \/ k < i /\ k \in DOMAIN old /\ new[k] = old[k]
                               \/ k >= i /\ k + 1 \in DOMAIN old /\ new[k] = old[k + 1]
      /\ DOMAIN new \subseteq Nat
  BY WithoutFacts, OpFacts DEF LandAnswer
<1>2. i \in Nat /\ DOMAIN old \subseteq Nat /\ i \in DOMAIN old
  BY CallsType, OpFacts
<1>3. calls'["lookup"] = calls["lookup"] /\ visit' = visit
  BY <1>1, OpFacts DEF LandAnswer
<1>4. /\ view'.question = view.question /\ view'.mixed = view.mixed
      /\ view'.answer["lookup"] = view.answer["lookup"]
      /\ view'.answer["simulate"] = IF old[i].visit = visit THEN old[i].mark ELSE view.answer["simulate"]
      /\ old[i].visit # visit => view'.busy = view.busy
  BY DEF LandAnswer, Here, TypeOK, View, Asked
<1>5. \A j, k \in DOMAIN old : old[j].visit = visit /\ old[k].visit = visit => j = k
  BY DEF AskInv
<1>6. \A j \in DOMAIN old :
        old[j].visit = visit => "simulate" \in view.busy /\ old[j].mark = view.question["simulate"]
  BY DEF AskInv
<1> HIDE DEF old, new
<1>7. \A k \in DOMAIN new : \E j \in DOMAIN old \ {i} : new[k] = old[j]
  BY <1>1, <1>2
<1>8. \A j, k \in DOMAIN new : new[j].visit = visit /\ new[k].visit = visit => j = k
  <2> SUFFICES ASSUME NEW j \in DOMAIN new, NEW k \in DOMAIN new,
                      new[j].visit = visit, new[k].visit = visit
               PROVE  j = k
    OBVIOUS
  <2>1. j \in Nat /\ k \in Nat
    BY <1>1
  <2>2. CASE j < i /\ k < i
    BY <1>1, <1>2, <1>5, <2>1, <2>2
  <2>3. CASE j < i /\ k >= i
    <3>1. j = k + 1
      BY <1>1, <1>2, <1>5, <2>1, <2>3
    <3>2. QED
      BY <1>2, <2>1, <2>3, <3>1
  <2>4. CASE j >= i /\ k < i
    <3>1. j + 1 = k
      BY <1>1, <1>2, <1>5, <2>1, <2>4
    <3>2. QED
      BY <1>2, <2>1, <2>4, <3>1
  <2>5. CASE j >= i /\ k >= i
    <3>1. j + 1 = k + 1
      BY <1>1, <1>2, <1>5, <2>1, <2>5
    <3>2. QED
      BY <2>1, <3>1
  <2>6. QED
    BY <1>2, <2>1, <2>2, <2>3, <2>4, <2>5
<1>9. \A k \in DOMAIN new :
        new[k].visit = visit => "simulate" \in view'.busy /\ new[k].mark = view.question["simulate"]
  BY <1>2, <1>4, <1>5, <1>6, <1>7
<1>10. AskInv'
  <2>1. \A k \in DOMAIN calls["lookup"] :
          calls["lookup"][k].visit = visit => view.mixed \/ calls["lookup"][k].mark = view.question["lookup"]
    BY DEF AskInv
  <2>2. QED
    BY <1>3, <1>4, <1>8, <1>9, <2>1 DEF AskInv, new
<1>11. AnswersTheQuestion'
  BY <1>2, <1>4, <1>6 DEF AnswersTheQuestion, Asked
<1>12. QED
  BY <1>10, <1>11

(* A lookup is answered.                                                   *)
LEMMA LookupAnswered ==
  ASSUME TypeOK, AskInv, AnswersTheQuestion, NEW i \in DOMAIN calls["lookup"],
         LandAnswer("lookup", i)
  PROVE  AskInv' /\ AnswersTheQuestion'
<1> DEFINE old == calls["lookup"]
           new == calls'["lookup"]
<1>1. /\ \A o \in Ops \ {"lookup"} : calls'[o] = calls[o]
      /\ \A o \in Ops : \A k \in DOMAIN calls'[o] : UnderWay(o, calls'[o][k])
  BY WithoutFacts, OpFacts DEF LandAnswer
<1>2. \A k \in DOMAIN new : \E j \in DOMAIN old : new[k] = old[j]
  BY <1>1, OpFacts DEF UnderWay
<1>3. calls'["simulate"] = calls["simulate"] /\ visit' = visit
  BY <1>1, OpFacts DEF LandAnswer
<1>4. /\ view'.question = view.question /\ view'.mixed = view.mixed
      /\ view'.answer["simulate"] = view.answer["simulate"]
      /\ view'.answer["lookup"] = IF old[i].visit = visit THEN old[i].mark ELSE view.answer["lookup"]
      /\ "simulate" \in view.busy => "simulate" \in view'.busy
  BY DEF LandAnswer, Here, TypeOK, View, Asked
<1>5. \A j \in DOMAIN old :
        old[j].visit = visit => view.mixed \/ old[j].mark = view.question["lookup"]
  BY DEF AskInv
<1>6. \A k \in DOMAIN new :
        new[k].visit = visit => view.mixed \/ new[k].mark = view.question["lookup"]
  BY <1>2, <1>5
<1>7. AskInv'
  BY <1>3, <1>4, <1>6 DEF AskInv
<1>8. AnswersTheQuestion'
  BY <1>4, <1>5 DEF AnswersTheQuestion, Asked
<1>9. QED
  BY <1>7, <1>8

(* A handler of another kind ends or goes on.                              *)
LEMMA LandAsks ==
  ASSUME TypeOK, AskInv, AnswersTheQuestion, NEW op \in Ops, NEW i \in DOMAIN calls[op], Land(op, i)
  PROVE  AskInv' /\ AnswersTheQuestion'
<1>1. PICK c \in Call : c = calls[op][i]
  BY CallsType
<1>2. view \in View /\ c.visit \in Nat /\ c.data.v \in Int /\ c.then # "simulate"
  BY CallFacts DEF TypeOK, Forms
<1>3. \A o \in Ops \ {op} : Without(op, i)[o] = calls[o]
  BY WithoutFacts
<1>4. ASSUME NEW next \in Ops \ Asked, next # op, op \notin Asked,
             NEW then \in Forms \cup {"none", "cart", "demo"}, NEW mark \in Int,
             Then(op, i, next, NewCall(c.visit, then, mark))
      PROVE  \A o \in Asked : calls'[o] = calls[o]
  <2>1. NewCall(c.visit, then, mark) \in Call
    BY <1>2, NewCallFacts
  <2>2. \A o \in Ops \ {op, next} : calls'[o] = calls[o]
    BY <1>4, <2>1, ThenFacts
  <2>3. QED
    BY <1>4, <2>2, OpFacts
<1>5. ASSUME op \notin Asked, calls' = Without(op, i)
      PROVE  \A o \in Asked : calls'[o] = calls[o]
  BY <1>3, <1>5, OpFacts
<1>6. CASE op \in Views /\ LandView(op, i)
  <2>1. op \notin Asked
    BY <1>6 DEF Views, Asked
  <2>2. \A o \in Asked : calls'[o] = calls[o]
    BY <1>5, <1>6, <2>1 DEF LandView
  <2>3. /\ view'.question = view.question /\ view'.answer = view.answer /\ view'.mixed = view.mixed
        /\ "simulate" \in view.busy => "simulate" \in view'.busy
    BY <1>1, <1>2, <1>6 DEF LandView, View
  <2>4. QED
    BY <1>6, <2>2, <2>3, AskKept DEF LandView
<1>7. CASE op \in Forms /\ LandForm(op, i)
  <2>1. op \notin Asked /\ op # "simulate" /\ "merchant" \in Ops \ Asked /\ "merchant" # op
    BY <1>7, OpFacts DEF Forms, Asked
  <2>2. \A o \in Asked : calls'[o] = calls[o]
    <3>1. op \in Forms \cup {"none", "cart", "demo"}
      BY <1>7
    <3>2. QED
      BY <1>1, <1>2, <1>4, <1>5, <1>7, <2>1, <3>1 DEF LandForm
  <2>3. /\ view'.question = view.question /\ view'.answer = view.answer /\ view'.mixed = view.mixed
        /\ "simulate" \in view.busy => "simulate" \in view'.busy
    BY <1>2, <1>7, <2>1 DEF LandForm, View
  <2>4. QED
    BY <1>7, <2>2, <2>3, AskKept DEF LandForm
<1>8. CASE op = "recover" /\ LandRecover(i)
  <2>1. op \notin Asked /\ "checkout" \in Ops \ Asked /\ "checkout" # op
    BY <1>8, OpFacts DEF Asked
  <2>2. \A o \in Asked : calls'[o] = calls[o]
    BY <1>1, <1>4, <1>5, <1>8, <2>1, OpFacts DEF LandRecover
  <2>3. QED
    BY <1>8, <2>2, AskKept DEF LandRecover
<1>9. CASE op = "keys" /\ LandKeys(i)
  <2>1. op \notin Asked
    BY <1>9 DEF Asked
  <2>2. \A o \in Asked : calls'[o] = calls[o]
    BY <1>5, <1>9, <2>1 DEF LandKeys
  <2>3. /\ view'.question = view.question /\ view'.answer = view.answer /\ view'.mixed = view.mixed
        /\ view'.busy = view.busy
    BY <1>2, <1>9 DEF LandKeys, View
  <2>4. QED
    BY <1>9, <2>2, <2>3, AskKept DEF LandKeys
<1>10. CASE op = "newKey" /\ LandNewKey(i)
  <2>1. op \notin Asked /\ "keys" \in Ops \ Asked /\ "keys" # op
    BY <1>10, OpFacts DEF Asked
  <2>2. \A o \in Asked : calls'[o] = calls[o]
    BY <1>1, <1>4, <1>5, <1>10, <2>1, OpFacts DEF LandNewKey
  <2>3. /\ view'.question = view.question /\ view'.answer = view.answer /\ view'.mixed = view.mixed
        /\ view'.busy = view.busy
    BY <1>2, <1>10 DEF LandNewKey, LocalKey, View
  <2>4. QED
    BY <1>10, <2>2, <2>3, AskKept DEF LandNewKey
<1>11. CASE op \in Asked /\ LandAnswer(op, i)
  BY <1>11, SimulationAnswered, LookupAnswered DEF Asked
<1>12. CASE op = "login" /\ LandLogin(i)
  <2>1. op \notin Asked
    BY <1>12 DEF Asked
  <2>2. \A o \in Asked : calls'[o] = calls[o]
    BY <1>5, <1>12, <2>1 DEF LandLogin
  <2>3. QED
    BY <1>12, <2>2, AskKept DEF LandLogin
<1>13. QED
  BY <1>6, <1>7, <1>8, <1>9, <1>10, <1>11, <1>12 DEF Land

(* Every step keeps the answers to their questions.                        *)
LEMMA NextAsks ==
  ASSUME TypeOK, CallInv, AskInv, AnswersTheQuestion, [Next]_vars
  PROVE  AskInv' /\ AnswersTheQuestion'
<1>1. view \in View /\ view.data.v \in Int
  BY DEF TypeOK, View, Data
<1>2. /\ Forms \subseteq Ops \ Asked /\ {"recover", "keys", "newKey", "login", "merchant"} \subseteq Ops \ Asked
      /\ Asked \subseteq Ops
  BY DEF Forms, Ops, Asked, Views
<1>3. ASSUME NEW p \in Pages, Navigate(p) PROVE AskInv' /\ AnswersTheQuestion'
  BY <1>3, MountAsks DEF Navigate
<1>4. CASE HandleLogin
  BY <1>2, <1>4, SendAsks, OpFacts DEF HandleLogin, calling
<1>5. CASE HandleLogout
  BY <1>5, MountAsks DEF HandleLogout, Pages
<1>6. CASE RefreshDashboard
  BY <1>2, <1>6, SendAsks, OpFacts DEF RefreshDashboard, calling
<1>7. CASE RefreshKeys
  BY <1>2, <1>7, SendAsks, OpFacts DEF RefreshKeys, calling
<1>8. ASSUME NEW op \in Forms, HandleCreate(op) PROVE AskInv' /\ AnswersTheQuestion'
  <2>1. /\ view'.question = view.question /\ view'.answer = view.answer /\ view'.mixed = view.mixed
        /\ "simulate" \in view.busy => "simulate" \in view'.busy
    BY <1>1, <1>8 DEF HandleCreate, View
  <2>2. QED
    BY <1>2, <1>8, <2>1, SendAsks, OpFacts DEF HandleCreate, calling
<1>9. ASSUME NEW row \in {"cart", "demo"}, DispatchRecovery(row) PROVE AskInv' /\ AnswersTheQuestion'
  <2>1. row \in Forms \cup {"none", "cart", "demo"}
    OBVIOUS
  <2>2. QED
    BY <1>1, <1>2, <1>9, <2>1, SendAsks DEF DispatchRecovery, calling
<1>10. ASSUME NEW t \in Tabs, SelectTab(t) PROVE AskInv' /\ AnswersTheQuestion'
  <2>1. /\ view'.question = view.question /\ view'.answer = view.answer /\ view'.mixed = view.mixed
        /\ view'.busy = view.busy
    BY <1>1, <1>10 DEF SelectTab, View
  <2>2. CASE t = "apikeys"
    BY <1>2, <1>10, <2>1, <2>2, SendAsks, OpFacts DEF SelectTab, calling
  <2>3. CASE t # "apikeys"
    BY <1>10, <2>1, <2>3, AskKept DEF SelectTab, calling
  <2>4. QED
    BY <2>2, <2>3
<1>11. CASE HandleCreateKey
  BY <1>2, <1>11, SendAsks, OpFacts DEF HandleCreateKey, calling
<1>12. CASE Operator
  BY <1>3, <1>4, <1>5, <1>6, <1>7, <1>8, <1>9, <1>10, <1>11, <1>12, SimulationAsks, LookupAsks
     DEF Operator
<1>13. CASE Redirect
  <2>1. CASE at # "analytics"
    BY <1>13, <2>1, MountAsks DEF Redirect, Pages
  <2>2. CASE at = "analytics"
    BY <1>13, <2>2, AskKept DEF Redirect
  <2>3. QED
    BY <2>1, <2>2
<1>14. CASE TrackSession
  BY <1>14, AskKept DEF TrackSession
<1>15. ASSUME NEW op \in Ops, NEW i \in DOMAIN calls[op], NEW c \in Call,
              calls' = [calls EXCEPT ![op][i] = c],
              c.visit = calls[op][i].visit, c.mark = calls[op][i].mark, UNCHANGED <<visit, view>>
       PROVE  AskInv' /\ AnswersTheQuestion'
  <2>1. \A o \in Asked : /\ DOMAIN calls'[o] = DOMAIN calls[o]
                         /\ \A k \in DOMAIN calls[o] : /\ calls'[o][k].visit = calls[o][k].visit
                                                       /\ calls'[o][k].mark = calls[o][k].mark
    BY <1>2, <1>15, AnsweredFacts
  <2>2. QED
    BY <1>15, <2>1, AskKept
<1>16. ASSUME NEW op \in Ops, NEW i \in DOMAIN calls[op], Serve(op, i) PROVE AskInv' /\ AnswersTheQuestion'
  <2>1. PICK d \in Data : Served(op, i, d)
    BY <1>16, ServeFacts
  <2>2. PICK c \in Call : /\ calls' = [calls EXCEPT ![op][i] = c]
                         /\ c.visit = calls[op][i].visit /\ c.mark = calls[op][i].mark
    BY <2>1, ServedFacts
  <2>3. UNCHANGED <<visit, view>>
    BY <1>16 DEF Serve
  <2>4. QED
    BY <1>15, <2>2, <2>3
<1>17. ASSUME NEW op \in Ops, NEW i \in DOMAIN calls[op], Fail(op, i) PROVE AskInv' /\ AnswersTheQuestion'
  <2>1. PICK old \in Call : old = calls[op][i]
    BY CallsType
  <2>2. PICK pc \in {"lost", "refused"} : calls' = [calls EXCEPT ![op][i] = [old EXCEPT !.pc = pc]]
    BY <1>17, <2>1 DEF Fail
  <2>3. PICK c \in Call : c = [old EXCEPT !.pc = pc]
    BY <2>1 DEF Call
  <2>4. c.visit = old.visit /\ c.mark = old.mark
    BY <2>1, <2>3 DEF Call
  <2>5. calls' = [calls EXCEPT ![op][i] = c] /\ UNCHANGED <<visit, view>>
    BY <1>17, <2>2, <2>3 DEF Fail
  <2>6. QED
    BY <1>15, <2>1, <2>4, <2>5
<1>18. CASE UNCHANGED vars
  BY <1>18, AskKept DEF vars
<1>19. QED
  BY <1>12, <1>13, <1>14, <1>16, <1>17, <1>18, LandAsks DEF Next
-----------------------------------------------------------------------------
(* The theorems.                                                           *)

(* The types, the calls under way, and the answers.                        *)
LEMMA PagesInvariant == Spec => [](TypeOK /\ CallInv /\ AskInv /\ AnswersTheQuestion)
<1> DEFINE Inv == TypeOK /\ CallInv /\ AskInv /\ AnswersTheQuestion
<1>1. Init => Inv
  <2> SUFFICES ASSUME Init PROVE Inv
    OBVIOUS
  <2>1. TypeOK
    <3>1. calls \in [Ops -> Seq(Call)]
      BY DEF Init
    <3>2. view \in View
      BY OpenedFacts DEF Init
    <3>3. /\ visit \in 1..(MaxVisits + 1)
          /\ tally \in [clicks : 0..MaxClicks, changes : 0..MaxChanges, faults : 0..MaxFaults]
      BY ConsoleAssumption DEF Init
    <3>4. db \in [v : Nat, cart : CartStatus, since : Nat, from : Int]
      BY DEF Init, CartStatus
    <3>5. session \in Session /\ told \in Told
      BY DEF Init, Session, Told
    <3>6. at \in Pages /\ user \in BOOLEAN
      BY DEF Init, Pages
    <3>7. QED
      BY <3>1, <3>2, <3>3, <3>4, <3>5, <3>6 DEF TypeOK, Session, Told
  <2>2. \A op \in Ops : DOMAIN calls[op] = {}
    BY DEF Init
  <2>3. CallInv
    <3>1. view.data \in {Demo, Nothing}
      BY OpenedFacts DEF Init
    <3>2. Seen(view.data)
      BY <3>1 DEF Init, Seen, Demo, Nothing
    <3>3. QED
      BY <2>2, <3>2 DEF Init, CallInv
  <2>4. AskInv
    BY <2>2, OpFacts DEF AskInv
  <2>5. AnswersTheQuestion
    BY OpenedFacts DEF Init, AnswersTheQuestion
  <2>6. QED
    BY <2>1, <2>3, <2>4, <2>5
<1>2. Inv /\ [Next]_vars => Inv'
  BY NextTypes, NextSound, NextAsks
<1>3. QED
  BY <1>1, <1>2, PTL DEF Spec

(* Every variable of the pages keeps its type.                             *)
THEOREM PagesTypeCorrect == Spec => []TypeOK
BY PagesInvariant, PTL

(* The result shown on the developer page answers the last question of its *)
(* form: handleRunSimulation disables its button while a simulation is     *)
(* under way, and an answer that comes to another page is not shown.  Only *)
(* lookups that overlap can mix.                                           *)
THEOREM AnswersAreToTheQuestion == Spec => []AnswersTheQuestion
BY PagesInvariant, PTL

(* What a handler does not report.                                         *)
LEMMA Reports ==
  ASSUME [Next]_vars, told' # told
  PROVE  \E op \in Views : \E i \in DOMAIN calls[op] : LandView(op, i)
<1>1. CASE Operator
  BY <1>1
     DEF Operator, Navigate, HandleLogin, HandleLogout, RefreshDashboard, RefreshKeys, HandleCreate,
         DispatchRecovery, SelectTab, HandleCreateKey, HandleRunSimulation, HandleLookupCustomer, calling
<1>2. ASSUME NEW op \in Ops, NEW i \in DOMAIN calls[op], Land(op, i)
      PROVE  op \in Views /\ LandView(op, i)
  BY <1>2 DEF Land, LandForm, LandRecover, LandKeys, LandNewKey, LandAnswer, LandLogin
<1>3. QED
  BY <1>1, <1>2 DEF Next, Redirect, TrackSession, Serve, Fail, vars

(* handleCreateSubscription reports a subscription only after the reload   *)
(* it waits for, which was served after the write: the page that asked     *)
(* shows no older list, whatever other reloads it overlaps.  The reload    *)
(* may have failed, or found no rows.                                      *)
THEOREM ReportsFollowTheReload == Spec => ReportedOverFreshList
<1>1. ASSUME TypeOK, CallInv, [Next]_vars, told' # told, told'.visit = visit,
              view'.data \notin {Demo, Empty}
      PROVE  view'.data.v >= told'.v
  <2>1. PICK op \in Views : \E i \in DOMAIN calls[op] : LandView(op, i)
    BY <1>1, Reports
  <2>2. PICK i \in DOMAIN calls[op] : LandView(op, i)
    BY <2>1
  <2>3. PICK c \in Call : c = calls[op][i] /\ SoundCall(op, c)
    BY <1>1, CallsType, OpFacts DEF CallInv
  <2>4. told' = [v |-> c.mark, visit |-> c.visit] /\ c.then = "newSub"
    BY <1>1, <2>2, <2>3 DEF LandView
  <2>5. c.then \in Forms /\ op = "merchant"
    BY <2>3, <2>4 DEF SoundCall, Forms
  <2>6. c.visit = visit /\ view \in View
    BY <1>1, <2>4 DEF TypeOK
  <2>7. view'.data = Loaded(op, c)
    BY <2>2, <2>3, <2>6 DEF LandView, Here, View
  <2>8. c.pc = "served" /\ view'.data = c.data /\ c.data # Empty
    BY <1>1, <2>5, <2>7 DEF Loaded
  <2>9. c.mark <= c.data.v /\ c.mark \in Int /\ c.data.v \in Int
    BY <2>3, <2>5, <2>8, CallFacts DEF SoundCall
  <2>10. QED
    BY <2>4, <2>8, <2>9
<1>2. TypeOK /\ CallInv /\ [Next]_vars
        => [told' # told /\ told'.visit = visit /\ view'.data \notin {Demo, Empty}
              => view'.data.v >= told'.v]_vars
  BY <1>1
<1>3. QED
  BY <1>2, PagesInvariant, PTL DEF Spec, ReportedOverFreshList

(* A recovered session is set back to dispatched only on behalf of an      *)
(* operator whose list was loaded before it was recovered: the Dispatch    *)
(* Link button is not offered on a list that shows it as recovered.        *)
THEOREM DispatchFollowsTheList == Spec => NoBlindDispatch
<1>1. ASSUME TypeOK, CallInv, [Next]_vars, db.cart = "RECOVERED", db'.cart = "RECOVERY_DISPATCHED",
             tally' = tally
      PROVE  db'.from < db.since
  <2>1. db \in DB /\ tally \in Tally /\ db' # db
    BY <1>1 DEF TypeOK, DB, Tally
  <2>2. ~TrackSession
    <3>1. SUFFICES ASSUME TrackSession PROVE FALSE
      OBVIOUS
    <3>2. tally'.changes = tally.changes + 1 /\ tally.changes \in Int
      BY <2>1, <3>1 DEF TrackSession, Tally
    <3>3. QED
      BY <1>1, <3>2
  <2>3. ~Operator
    BY <2>1
       DEF Operator, Navigate, HandleLogin, HandleLogout, RefreshDashboard, RefreshKeys, HandleCreate,
           DispatchRecovery, SelectTab, HandleCreateKey, HandleRunSimulation, HandleLookupCustomer, calling
  <2>4. PICK op \in Ops : \E i \in DOMAIN calls[op] : Serve(op, i)
    <3>1. ~Redirect /\ vars' # vars
      BY <2>1 DEF Redirect, vars
    <3>2. ASSUME NEW op \in Ops, NEW i \in DOMAIN calls[op] PROVE ~Fail(op, i)
      BY <2>1 DEF Fail
    <3>3. ASSUME NEW op \in Ops, NEW i \in DOMAIN calls[op] PROVE ~Land(op, i)
      BY <2>1 DEF Land, LandView, LandForm, LandRecover, LandKeys, LandNewKey, LandAnswer, LandLogin
    <3>4. Next
      BY <1>1, <3>1
    <3>5. QED
      BY <2>2, <2>3, <3>1, <3>2, <3>3, <3>4 DEF Next
  <2>5. PICK i \in DOMAIN calls[op] : Serve(op, i)
    BY <2>4
  <2>6. PICK c \in Call : c = calls[op][i] /\ SoundCall(op, c)
    BY <1>1, CallsType DEF CallInv
  <2>7. db' = Written(op, c)
    BY <2>1, <2>5, <2>6 DEF Serve
  <2>8. op = "recover" /\ c.then = "cart"
    BY <1>1, <2>1, <2>7 DEF Written, DB
  <2>9. db'.from = c.mark
    BY <2>1, <2>7, <2>8 DEF Written, DB, Forms
  <2>10. c.mark \in Int /\ db.since \in Nat
    BY <2>1, CallFacts DEF DB
  <2>11. QED
    BY <1>1, <2>6, <2>8, <2>9, <2>10 DEF SoundCall
<1>2. TypeOK /\ CallInv /\ [Next]_vars
        => [db.cart = "RECOVERED" /\ db'.cart = "RECOVERY_DISPATCHED" /\ tally' = tally
              => db'.from < db.since]_vars
  BY <1>1
<1>3. QED
  BY <1>2, PagesInvariant, PTL DEF Spec, NoBlindDispatch
=============================================================================
