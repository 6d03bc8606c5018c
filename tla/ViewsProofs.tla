----------------------------- MODULE ViewsProofs -----------------------------
(***************************************************************************)
(* Theorems about Receivables and ConsoleViews for any invoices, saves,    *)
(* payments, calls under way and failures.                                 *)
(***************************************************************************)
EXTENDS ConsoleViews, WellFoundedInduction, SequenceTheorems, TLAPS

(* A set of indices has a least one.                                       *)
LEMMA LeastIndex ==
  ASSUME NEW T \in SUBSET Nat, T # {}
  PROVE  \E x \in T : \A y \in T : x <= y
<1> DEFINE R == {p \in Nat \X Nat : p[1] < p[2]}
<1>1. IsWellFoundedOn(R, Nat)
  BY NatLessThanWellFounded DEF OpToRel
<1>2. PICK x \in T : \A y \in T : <<y, x>> \notin R
  <2> HIDE DEF R
  <2>1. QED
    BY <1>1, WFMin
<1>3. ASSUME NEW y \in T, ~(x <= y) PROVE FALSE
  <2>1. x \in Nat /\ y \in Nat
    OBVIOUS
  <2>2. y < x
    BY <1>3, <2>1
  <2>3. <<y, x>> \in R
    BY <2>1, <2>2
  <2>4. QED
    BY <1>2, <2>3
<1>4. QED
  BY <1>3

(* What holds at 0 and goes from each index of a list to the next one      *)
(* holds at every index.                                                   *)
LEMMA IndexInduction ==
  ASSUME NEW n \in Nat, NEW S, 0 \in S, \A i \in 0..(n - 1) : i \in S => i + 1 \in S
  PROVE  \A i \in 0..n : i \in S
<1> DEFINE T == {i \in 0..n : i \notin S}
<1>1. SUFFICES ASSUME T # {} PROVE FALSE
  OBVIOUS
<1>2. T \in SUBSET Nat
  OBVIOUS
<1>3. PICK x \in T : \A y \in T : x <= y
  <2> HIDE DEF T
  <2>1. QED
    BY <1>1, <1>2, LeastIndex
<1>4. x \in 0..n /\ x \notin S /\ x # 0
  BY <1>3
<1>5. x - 1 \in 0..(n - 1) /\ x - 1 \in 0..n /\ (x - 1) + 1 = x /\ ~(x <= x - 1)
  BY <1>4
<1>6. x - 1 \notin S
  BY <1>4, <1>5
<1>7. QED
  BY <1>3, <1>5, <1>6

(* The elements of a list of a given length.                               *)
LEMMA ElementsFacts ==
  ASSUME NEW S, NEW s \in Seq(S), NEW n, Len(s) = n
  PROVE  \A j \in 1..n : s[j] \in S
OBVIOUS

(* The running sum behind Total exists, starts at 0 and adds one amount at *)
(* a time.                                                                 *)
LEMMA TotalFacts ==
  ASSUME NEW w \in Seq(Nat)
  PROVE  \E sum \in [0..Len(w) -> Nat] :
           /\ sum[0] = 0 /\ \A i \in 1..Len(w) : sum[i] = sum[i - 1] + w[i]
           /\ Total(w) = sum[Len(w)]
<1> DEFINE n == Len(w)
           Sums(k, g) == g[0] = 0 /\ \A i \in 1..k : g[i] = g[i - 1] + w[i]
           S == {k \in 0..n : \E g \in [0..k -> Nat] : Sums(k, g)}
           f == CHOOSE s : s = [i \in 0..n |-> IF i = 0 THEN 0 ELSE s[i - 1] + w[i]]
<1>1. n \in Nat /\ \A i \in 1..n : w[i] \in Nat
  OBVIOUS
<1> HIDE DEF n
<1>2. 0 \in S
  <2>1. PICK g : g = [i \in 0..0 |-> 0]
    OBVIOUS
  <2>2. g \in [0..0 -> Nat] /\ Sums(0, g) /\ 0 \in 0..n
    BY <1>1, <2>1
  <2>3. QED
    BY <2>2
<1>3. ASSUME NEW k \in 0..(n - 1), k \in S PROVE k + 1 \in S
  <2>1. PICK g \in [0..k -> Nat] : Sums(k, g)
    BY <1>3
  <2> DEFINE h == [i \in 0..(k + 1) |-> IF i = k + 1 THEN g[k] + w[k + 1] ELSE g[i]]
  <2>2. k \in Nat /\ k + 1 \in 1..n /\ k + 1 \in 0..n /\ w[k + 1] \in Nat
    BY <1>1, <1>3
  <2>3. h \in [0..(k + 1) -> Nat]
    BY <2>1, <2>2
  <2>4. h[0] = 0
    BY <2>1, <2>2
  <2>5. ASSUME NEW i \in 1..(k + 1) PROVE h[i] = h[i - 1] + w[i]
    <3>1. CASE i = k + 1
      BY <2>2, <3>1
    <3>2. CASE i # k + 1
      <4>1. i \in 1..k /\ i \in 0..(k + 1) /\ i - 1 \in 0..(k + 1) /\ i - 1 # k + 1
        BY <2>2, <3>2
      <4>2. QED
        BY <2>1, <3>2, <4>1
    <3>3. QED
      BY <3>1, <3>2
  <2>6. QED
    BY <2>2, <2>3, <2>4, <2>5
<1>4. n \in S
  <2> HIDE DEF S
  <2>1. \A i \in 0..n : i \in S
    BY <1>1, <1>2, <1>3, IndexInduction
  <2>2. QED
    BY <1>1, <2>1
<1>5. PICK g \in [0..n -> Nat] : Sums(n, g)
  BY <1>4
<1>6. g = [i \in 0..n |-> IF i = 0 THEN 0 ELSE g[i - 1] + w[i]]
  <2>1. \A i \in 0..n : g[i] = IF i = 0 THEN 0 ELSE g[i - 1] + w[i]
    BY <1>1, <1>5
  <2>2. QED
    BY <1>5, <2>1
<1>7. f = [i \in 0..n |-> IF i = 0 THEN 0 ELSE f[i - 1] + w[i]]
  <2>1. \E s : s = [i \in 0..n |-> IF i = 0 THEN 0 ELSE s[i - 1] + w[i]]
    BY <1>6
  <2>2. QED
    BY <2>1
<1>8. Total(w) = f[n]
  BY DEF Total, n
<1> HIDE DEF f
<1>9. f[0] = 0 /\ \A i \in 1..n : f[i] = f[i - 1] + w[i]
  BY <1>1, <1>7
<1>10. \A i \in 0..n : f[i] \in Nat
  <2> DEFINE U == {i \in 0..n : f[i] \in Nat}
  <2>1. 0 \in U
    BY <1>1, <1>9
  <2>2. ASSUME NEW i \in 0..(n - 1), i \in U PROVE i + 1 \in U
    <3>1. i + 1 \in 1..n /\ (i + 1) - 1 = i /\ i + 1 \in 0..n
      BY <1>1
    <3>2. f[i + 1] = f[i] + w[i + 1] /\ w[i + 1] \in Nat
      BY <1>1, <1>9, <3>1
    <3>3. QED
      BY <2>2, <3>1, <3>2
  <2>3. \A i \in 0..n : i \in U
    <3> HIDE DEF U
    <3>1. QED
      BY <1>1, <2>1, <2>2, IndexInduction
  <2>4. QED
    BY <2>3
<1>11. f \in [0..n -> Nat]
  BY <1>7, <1>10
<1>12. QED
  BY <1>8, <1>9, <1>11 DEF n

(* Amounts that are split into two.                                        *)
Splits(n, w, x, y) ==
  /\ n \in Nat /\ Len(w) = n /\ Len(x) = n /\ Len(y) = n
  /\ w \in Seq(Nat) /\ x \in Seq(Nat) /\ y \in Seq(Nat)
  /\ \A i \in 1..n : w[i] = x[i] + y[i]

(* They add up to the sums of the parts.                                   *)
LEMMA TotalSplits ==
  ASSUME NEW n, NEW w, NEW x, NEW y, Splits(n, w, x, y)
  PROVE  Total(w) = Total(x) + Total(y)
<1>0. /\ n \in Nat /\ Len(w) = n /\ Len(x) = n /\ Len(y) = n
      /\ w \in Seq(Nat) /\ x \in Seq(Nat) /\ y \in Seq(Nat)
      /\ \A i \in 1..n : w[i] = x[i] + y[i]
  BY DEF Splits
<1>1. PICK f \in [0..n -> Nat] :
        f[0] = 0 /\ (\A i \in 1..n : f[i] = f[i - 1] + w[i]) /\ Total(w) = f[n]
  BY <1>0, TotalFacts
<1>2. PICK a \in [0..n -> Nat] :
        a[0] = 0 /\ (\A i \in 1..n : a[i] = a[i - 1] + x[i]) /\ Total(x) = a[n]
  BY <1>0, TotalFacts
<1>3. PICK b \in [0..n -> Nat] :
        b[0] = 0 /\ (\A i \in 1..n : b[i] = b[i - 1] + y[i]) /\ Total(y) = b[n]
  BY <1>0, TotalFacts
<1> DEFINE S == {i \in 0..n : f[i] = a[i] + b[i]}
<1>4. 0 \in S
  BY <1>0, <1>1, <1>2, <1>3
<1>5. ASSUME NEW i \in 0..(n - 1), i \in S PROVE i + 1 \in S
  <2>1. i + 1 \in 1..n /\ (i + 1) - 1 = i /\ i + 1 \in 0..n /\ i \in 0..n
    BY <1>0
  <2>2. /\ f[i + 1] = f[i] + w[i + 1] /\ a[i + 1] = a[i] + x[i + 1]
        /\ b[i + 1] = b[i] + y[i + 1]
    BY <1>1, <1>2, <1>3, <2>1
  <2>3. /\ f[i] \in Nat /\ a[i] \in Nat /\ b[i] \in Nat
        /\ x[i + 1] \in Nat /\ y[i + 1] \in Nat
    <3>1. (\A j \in 1..n : x[j] \in Nat) /\ (\A j \in 1..n : y[j] \in Nat)
      BY <1>0, ElementsFacts
    <3>2. f[i] \in Nat /\ a[i] \in Nat /\ b[i] \in Nat
      BY <2>1
    <3>3. QED
      BY <2>1, <3>1, <3>2
  <2>4. w[i + 1] = x[i + 1] + y[i + 1] /\ f[i] = a[i] + b[i]
    BY <1>0, <1>5, <2>1
  <2>5. f[i + 1] = a[i + 1] + b[i + 1]
    <3>1. PICK fi \in Nat, ai \in Nat, bi \in Nat : fi = f[i] /\ ai = a[i] /\ bi = b[i]
      BY <2>3
    <3>2. PICK xi \in Nat, yi \in Nat : xi = x[i + 1] /\ yi = y[i + 1]
      BY <2>3
    <3>3. fi = ai + bi
      BY <2>4, <3>1
    <3>4. fi + (xi + yi) = (ai + xi) + (bi + yi)
      BY <3>3
    <3>5. QED
      BY <2>2, <2>4, <3>1, <3>2, <3>4
  <2>6. QED
    BY <2>1, <2>5
<1>6. \A i \in 0..n : i \in S
  <2> HIDE DEF S
  <2>1. QED
    BY <1>0, <1>4, <1>5, IndexInduction
<1>7. f[n] = a[n] + b[n]
  BY <1>0, <1>6
<1>8. QED
  BY <1>1, <1>2, <1>3, <1>7

(* The amounts of the invoices in some buckets, and 0 for the others.      *)
Weighs(w, list, buckets) ==
  /\ w \in Seq(Nat) /\ Len(w) = Len(list)
  /\ \A i \in 1..Len(list) : w[i] = IF list[i].bucket \in buckets THEN list[i].amount ELSE 0

(* They are a sequence of numbers, whose total is outstanding.             *)
LEMMA OutstandingFacts ==
  ASSUME NEW list \in Seq(Invoice), NEW buckets
  PROVE  \E w : Weighs(w, list, buckets) /\ Outstanding(list, buckets) = Total(w)
<1> DEFINE w == [i \in DOMAIN list |-> IF list[i].bucket \in buckets THEN list[i].amount ELSE 0]
<1>1. \A i \in 1..Len(list) : list[i] \in Invoice
  OBVIOUS
<1>2. \A i \in 1..Len(list) : list[i].amount \in Nat
  BY <1>1, ReceivablesAssumption DEF Invoice
<1>3. DOMAIN list = 1..Len(list) /\ Len(list) \in Nat
  OBVIOUS
<1>4. w \in Seq(Nat) /\ Len(w) = Len(list)
  BY <1>2, <1>3
<1>5. \A i \in 1..Len(list) : w[i] = IF list[i].bucket \in buckets THEN list[i].amount ELSE 0
  BY <1>3
<1>6. Outstanding(list, buckets) = Total(w)
  BY DEF Outstanding
<1> HIDE DEF w
<1>7. QED
  BY <1>4, <1>5, <1>6 DEF Weighs

(* A total is a number.                                                    *)
LEMMA TotalType ==
  ASSUME NEW w \in Seq(Nat)
  PROVE  Total(w) \in Nat
<1>1. PICK sum \in [0..Len(w) -> Nat] : Total(w) = sum[Len(w)]
  BY TotalFacts
<1>2. Len(w) \in 0..Len(w)
  OBVIOUS
<1>3. QED
  BY <1>1, <1>2

(* The cards recalcSummary makes of a list are the API's figures for it,   *)
(* its two last ages put into one.                                         *)
ApiCards(list) ==
  LET api == CalculateAgingSummary(list)
  IN [total |-> api.total, current_due |-> api.current_due, bucket_1_30 |-> api.bucket_1_30,
      bucket_31_60 |-> api.bucket_31_60 + api.bucket_90_plus]

LEMMA RecalcFacts ==
  ASSUME NEW list \in Seq(Invoice)
  PROVE  RecalcSummary(list) \in Summary /\ RecalcSummary(list) = ApiCards(list)
<1> DEFINE n == Len(list)
           beyond == Bucket \ {"CURRENT", "1_30"}
           older == Bucket \ {"CURRENT", "1_30", "31_60"}
<1>1. n \in Nat /\ DOMAIN list = 1..n
  OBVIOUS
<1>2. \A i \in 1..n : list[i].bucket \in Bucket /\ list[i].amount \in Nat
  <2>1. \A i \in 1..n : list[i] \in Invoice
    OBVIOUS
  <2>2. QED
    BY <2>1, ReceivablesAssumption DEF Invoice
<1> HIDE DEF beyond, older
<1>3. PICK w : Weighs(w, list, beyond) /\ Outstanding(list, beyond) = Total(w)
  BY OutstandingFacts
<1>4. PICK x : Weighs(x, list, {"31_60"}) /\ Outstanding(list, {"31_60"}) = Total(x)
  BY OutstandingFacts
<1>5. PICK y : Weighs(y, list, older) /\ Outstanding(list, older) = Total(y)
  BY OutstandingFacts
<1>6. \A i \in 1..n : w[i] = x[i] + y[i]
  <2> SUFFICES ASSUME NEW i \in 1..n PROVE w[i] = x[i] + y[i]
    OBVIOUS
  <2>1. PICK b, a : b = list[i].bucket /\ a = list[i].amount
    OBVIOUS
  <2>2. b \in Bucket /\ a \in Nat
    BY <1>2, <2>1
  <2>3. /\ w[i] = (IF b \in beyond THEN a ELSE 0) /\ x[i] = (IF b = "31_60" THEN a ELSE 0)
        /\ y[i] = (IF b \in older THEN a ELSE 0)
    BY <1>3, <1>4, <1>5, <2>1, <2>2 DEF Weighs
  <2>4. QED
    BY <2>2, <2>3 DEF beyond, older, Bucket
<1>7. w \in Seq(Nat) /\ x \in Seq(Nat) /\ y \in Seq(Nat)
  BY <1>3, <1>4, <1>5 DEF Weighs
<1>8. Len(w) = n /\ Len(x) = n /\ Len(y) = n
  BY <1>3, <1>4, <1>5 DEF Weighs
<1> HIDE DEF n
<1>9. Total(w) = Total(x) + Total(y)
  <2>1. Splits(n, w, x, y)
    BY <1>1, <1>6, <1>7, <1>8 DEF Splits
  <2>2. QED
    BY <2>1, TotalSplits
<1>10. \A buckets : Outstanding(list, buckets) \in Nat
  <2> SUFFICES ASSUME NEW buckets PROVE Outstanding(list, buckets) \in Nat
    OBVIOUS
  <2>1. PICK v : Weighs(v, list, buckets) /\ Outstanding(list, buckets) = Total(v)
    BY OutstandingFacts
  <2>2. QED
    BY <2>1, TotalType DEF Weighs
<1>11. PICK all \in Nat, due \in Nat, late \in Nat :
         /\ all = Outstanding(list, Bucket) /\ due = Outstanding(list, {"CURRENT"})
         /\ late = Outstanding(list, {"1_30"})
  BY <1>10
<1>12. RecalcSummary(list) = [total |-> all, current_due |-> due, bucket_1_30 |-> late,
                              bucket_31_60 |-> Total(w)]
  BY <1>3, <1>11 DEF RecalcSummary, beyond
<1>13. CalculateAgingSummary(list) = [total |-> all, current_due |-> due, bucket_1_30 |-> late,
                                      bucket_31_60 |-> Total(x), bucket_90_plus |-> Total(y)]
  BY <1>4, <1>5, <1>11 DEF CalculateAgingSummary, older
<1>14. ApiCards(list) = [total |-> all, current_due |-> due, bucket_1_30 |-> late,
                         bucket_31_60 |-> Total(x) + Total(y)]
  BY <1>13 DEF ApiCards
<1>15. Total(w) \in Nat
  BY <1>7, TotalType
<1>16. QED
  BY <1>9, <1>12, <1>14, <1>15 DEF Summary

(* One turn of the merging loops, and what they have made of the first k   *)
(* invoices of a list: no number twice, nothing that is not in the list,   *)
(* and the first invoice of every number.                                  *)
Merge(done, r) ==
  IF \E j \in DOMAIN done : done[j].num = r.num THEN done ELSE Append(done, r)
IsFirst(list, l) == \A j \in 1..(l - 1) : list[j].num # list[l].num
Merged(m, list, k) ==
  /\ m \in Seq(Invoice)
  /\ \A i, j \in DOMAIN m : m[i].num = m[j].num => i = j
  /\ \A i \in DOMAIN m : \E l \in 1..k : m[i] = list[l]
  /\ \A l \in 1..k : IsFirst(list, l) => \E i \in DOMAIN m : m[i] = list[l]

(* A turn of the loops merges one more invoice.                            *)
LEMMA MergeStep ==
  ASSUME NEW list \in Seq(Invoice), NEW k \in 0..(Len(list) - 1), NEW m, Merged(m, list, k)
  PROVE  Merged(Merge(m, list[k + 1]), list, k + 1)
<1>1. PICK r : r = list[k + 1]
  OBVIOUS
<1>2. k \in Nat /\ k + 1 \in 1..(k + 1) /\ r \in Invoice
  <2>1. k + 1 \in 1..Len(list) /\ k \in Nat
    OBVIOUS
  <2>2. QED
    BY <1>1, <2>1
<1>3. m \in Seq(Invoice) /\ DOMAIN m = 1..Len(m) /\ Len(m) \in Nat
  BY DEF Merged
<1>4. CASE \E j \in DOMAIN m : m[j].num = r.num
  <2>1. PICK j \in DOMAIN m : m[j].num = r.num
    BY <1>4
  <2>2. PICK l \in 1..k : m[j] = list[l]
    BY DEF Merged
  <2>3. ~IsFirst(list, k + 1)
    <3>1. l \in 1..((k + 1) - 1)
      BY <1>2
    <3>2. list[l].num = list[k + 1].num
      BY <1>1, <2>1, <2>2
    <3>3. QED
      BY <3>1, <3>2 DEF IsFirst
  <2>4. \A i \in 1..(k + 1) : i \in 1..k \/ i = k + 1
    BY <1>2
  <2>5. 1..k \subseteq 1..(k + 1)
    BY <1>2
  <2>6. Merged(m, list, k + 1)
    BY <2>3, <2>4, <2>5 DEF Merged
  <2>7. QED
    BY <1>1, <1>4, <2>6 DEF Merge
<1>5. CASE ~\E j \in DOMAIN m : m[j].num = r.num
  <2>1. PICK n \in Nat, a \in {Append(m, r)} : n = Len(m) /\ a = Append(m, r)
    BY <1>3
  <2>2. /\ a \in Seq(Invoice) /\ DOMAIN a = 1..(n + 1) /\ a[n + 1] = r
        /\ \A i \in 1..n : a[i] = m[i]
    BY <1>2, <1>3, <2>1, AppendProperties
  <2>3. DOMAIN m = 1..n
    BY <1>3, <2>1
  <2>4. \A i \in 1..(n + 1) : i \in 1..n \/ i = n + 1
    OBVIOUS
  <2>5. \A i, j \in DOMAIN a : a[i].num = a[j].num => i = j
    <3>1. \A i \in 1..n : a[i].num # a[n + 1].num
      BY <1>5, <2>2, <2>3
    <3>2. \A i, j \in 1..n : a[i].num = a[j].num => i = j
      BY <2>2, <2>3 DEF Merged
    <3>3. QED
      BY <2>2, <2>4, <3>1, <3>2
  <2>6. \A i \in DOMAIN a : \E l \in 1..(k + 1) : a[i] = list[l]
    <3>1. 1..k \subseteq 1..(k + 1)
      BY <1>2
    <3>2. ASSUME NEW i \in 1..n PROVE \E l \in 1..(k + 1) : a[i] = list[l]
      <4>1. PICK l \in 1..k : m[i] = list[l]
        BY <2>3 DEF Merged
      <4>2. a[i] = list[l] /\ l \in 1..(k + 1)
        BY <2>2, <3>1, <4>1
      <4>3. QED
        BY <4>2
    <3>3. QED
      BY <1>1, <1>2, <2>2, <2>4, <3>2
  <2>7. \A l \in 1..(k + 1) : IsFirst(list, l) => \E i \in DOMAIN a : a[i] = list[l]
    <3>1. \A l \in 1..(k + 1) : l \in 1..k \/ l = k + 1
      BY <1>2
    <3>2. \A i \in 1..n : i \in 1..(n + 1)
      OBVIOUS
    <3>3. \A l \in 1..k : IsFirst(list, l) => \E i \in DOMAIN a : a[i] = list[l]
      BY <2>2, <2>3, <3>2 DEF Merged
    <3>4. n + 1 \in DOMAIN a /\ a[n + 1] = list[k + 1]
      BY <1>1, <2>2
    <3>5. QED
      BY <3>1, <3>3, <3>4
  <2>8. Merged(a, list, k + 1)
    BY <2>2, <2>5, <2>6, <2>7 DEF Merged
  <2>9. QED
    BY <1>1, <1>5, <2>1, <2>8 DEF Merge
<1>6. QED
  BY <1>4, <1>5

(* What the merging loops make of a whole list.                            *)
LEMMA FirstByNumberFacts ==
  ASSUME NEW list \in Seq(Invoice)
  PROVE  Merged(FirstByNumber(list), list, Len(list))
<1> DEFINE n == Len(list)
           Turns(k, g) == g[0] = <<>> /\ \A i \in 1..k : g[i] = Merge(g[i - 1], list[i])
           S == {k \in 0..n : \E g : g = [i \in 0..k |-> g[i]] /\ Turns(k, g)}
           f == CHOOSE s : s = [i \in 0..n |-> IF i = 0 THEN <<>> ELSE Merge(s[i - 1], list[i])]
<1>1. n \in Nat
  OBVIOUS
<1>2. FirstByNumber(list) = f[n]
  BY DEF FirstByNumber, Merge
<1> HIDE DEF n
<1>3. 0 \in S
  <2>1. PICK g : g = [i \in 0..0 |-> <<>>]
    OBVIOUS
  <2>2. g = [i \in 0..0 |-> g[i]] /\ Turns(0, g) /\ 0 \in 0..n
    BY <1>1, <2>1
  <2>3. QED
    BY <2>2
<1>4. ASSUME NEW k \in 0..(n - 1), k \in S PROVE k + 1 \in S
  <2>1. PICK g : g = [i \in 0..k |-> g[i]] /\ Turns(k, g)
    BY <1>4
  <2>2. PICK last : last = Merge(g[k], list[k + 1])
    OBVIOUS
  <2>3. PICK h : h = [i \in 0..(k + 1) |-> IF i = k + 1 THEN last ELSE g[i]]
    OBVIOUS
  <2>4. k \in Nat /\ k + 1 \in 0..n /\ k \in 0..(k + 1) /\ k # k + 1
    BY <1>1
  <2>5. h = [i \in 0..(k + 1) |-> h[i]] /\ h[0] = <<>>
    BY <2>1, <2>3, <2>4
  <2>6. ASSUME NEW i \in 1..(k + 1) PROVE h[i] = Merge(h[i - 1], list[i])
    <3>1. CASE i = k + 1
      <4>1. h[k + 1] = last /\ h[k] = g[k] /\ i - 1 = k
        BY <2>3, <2>4, <3>1
      <4>2. QED
        BY <2>2, <3>1, <4>1
    <3>2. CASE i # k + 1
      <4>1. i \in 1..k /\ i \in 0..(k + 1) /\ i - 1 \in 0..(k + 1) /\ i - 1 # k + 1
        BY <2>4, <3>2
      <4>2. h[i] = g[i] /\ h[i - 1] = g[i - 1]
        BY <2>3, <3>2, <4>1
      <4>3. QED
        BY <2>1, <4>1, <4>2
    <3>3. QED
      BY <3>1, <3>2
  <2>7. QED
    BY <2>4, <2>5, <2>6
<1>5. n \in S
  <2> HIDE DEF S
  <2>1. \A i \in 0..n : i \in S
    BY <1>1, <1>3, <1>4, IndexInduction
  <2>2. QED
    BY <1>1, <2>1
<1>6. PICK g : g = [i \in 0..n |-> g[i]] /\ Turns(n, g)
  BY <1>5
<1>7. g = [i \in 0..n |-> IF i = 0 THEN <<>> ELSE Merge(g[i - 1], list[i])]
  <2>1. g[0] = <<>> /\ \A i \in 1..n : g[i] = Merge(g[i - 1], list[i])
    BY <1>6
  <2>2. \A i \in 0..n : i = 0 \/ (i \in 1..n /\ i # 0)
    BY <1>1
  <2>3. \A i \in 0..n : g[i] = IF i = 0 THEN <<>> ELSE Merge(g[i - 1], list[i])
    BY <2>1, <2>2
  <2>4. QED
    BY <1>6, <2>3
<1>8. f = [i \in 0..n |-> IF i = 0 THEN <<>> ELSE Merge(f[i - 1], list[i])]
  <2>1. \E s : s = [i \in 0..n |-> IF i = 0 THEN <<>> ELSE Merge(s[i - 1], list[i])]
    BY <1>7
  <2>2. QED
    BY <2>1
<1> HIDE DEF f
<1>9. f[0] = <<>> /\ \A i \in 1..n : f[i] = Merge(f[i - 1], list[i])
  BY <1>1, <1>8
<1> DEFINE U == {k \in 0..n : Merged(f[k], list, k)}
<1>10. 0 \in U
  <2>1. Merged(<<>>, list, 0)
    BY DEF Merged
  <2>2. QED
    BY <1>1, <1>9, <2>1
<1>11. ASSUME NEW k \in 0..(n - 1), k \in U PROVE k + 1 \in U
  <2>1. Merged(f[k], list, k) /\ k + 1 \in 1..n /\ (k + 1) - 1 = k /\ k + 1 \in 0..n
    BY <1>1, <1>11
  <2>2. f[k + 1] = Merge(f[k], list[k + 1])
    BY <1>9, <2>1
  <2>3. PICK m : m = f[k]
    OBVIOUS
  <2>4. Merged(m, list, k) /\ k \in 0..(Len(list) - 1)
    BY <2>1, <2>3 DEF n
  <2>5. Merged(Merge(m, list[k + 1]), list, k + 1)
    BY <2>4, MergeStep
  <2>6. QED
    BY <2>1, <2>2, <2>3, <2>5
<1>12. \A k \in 0..n : k \in U
  <2> HIDE DEF U
  <2>1. QED
    BY <1>1, <1>10, <1>11, IndexInduction
<1>13. n \in U
  BY <1>1, <1>12
<1>14. QED
  BY <1>2, <1>13 DEF n

(* A number in a list has a first invoice.                                 *)
LEMMA FirstExists ==
  ASSUME NEW list \in Seq(Invoice), NEW n \in NumbersOf(list)
  PROVE  \E l \in DOMAIN list : list[l].num = n /\ IsFirst(list, l)
<1> DEFINE T == {i \in DOMAIN list : list[i].num = n}
<1>1. T # {} /\ T \in SUBSET Nat
  BY DEF NumbersOf
<1>2. PICK l \in T : \A y \in T : l <= y
  <2> HIDE DEF T
  <2>1. QED
    BY <1>1, LeastIndex
<1>3. l \in DOMAIN list /\ list[l].num = n /\ DOMAIN list = 1..Len(list) /\ Len(list) \in Nat
  BY <1>2
<1>4. ASSUME NEW j \in 1..(l - 1) PROVE list[j].num # list[l].num
  <2>1. j \in DOMAIN list /\ ~(l <= j)
    BY <1>3
  <2>2. QED
    BY <1>2, <1>3, <2>1
<1>5. QED
  BY <1>3, <1>4 DEF IsFirst

(* The amount a list gives for a number is that of its first invoice.      *)
LEMMA AmountFirst ==
  ASSUME NEW list \in Seq(Invoice), NEW l \in DOMAIN list, IsFirst(list, l)
  PROVE  AmountOf(list, list[l].num) = list[l].amount
<1> DEFINE rows == {i \in DOMAIN list : list[i].num = list[l].num}
<1>1. DOMAIN list = 1..Len(list) /\ Len(list) \in Nat /\ l \in rows
  OBVIOUS
<1>2. \A y \in rows : l <= y
  <2>1. SUFFICES ASSUME NEW y \in rows, ~(l <= y) PROVE FALSE
    OBVIOUS
  <2>2. y \in 1..(l - 1)
    BY <1>1, <2>1
  <2>3. QED
    BY <2>1, <2>2 DEF IsFirst
<1>3. \A y \in rows : y \in Int
  OBVIOUS
<1>4. AmountOf(list, list[l].num) = IF rows = {} THEN 0 ELSE list[Min(rows)].amount
  BY DEF AmountOf
<1> HIDE DEF rows
<1>5. Min(rows) = l
  <2>1. \A x \in rows : (\A y \in rows : x <= y) => x = l
    BY <1>1, <1>2, <1>3
  <2>2. QED
    BY <1>1, <1>2, <2>1 DEF Min
<1>6. QED
  BY <1>1, <1>4, <1>5

(* And 0 when there is none.                                               *)
LEMMA AmountNone ==
  ASSUME NEW list, NEW n, n \notin NumbersOf(list)
  PROVE  AmountOf(list, n) = 0
BY DEF AmountOf, NumbersOf

(* A list that has the first invoice of a number where another one has it  *)
(* gives the same amount.                                                  *)
LEMMA AmountSame ==
  ASSUME NEW a \in Seq(Invoice), NEW b \in Seq(Invoice), NEW i \in DOMAIN a, NEW j \in DOMAIN b,
         a[i].num = b[j].num, a[i].amount = b[j].amount, IsFirst(a, i), IsFirst(b, j)
  PROVE  AmountOf(a, a[i].num) = AmountOf(b, a[i].num)
BY AmountFirst

(* The merged list gives every number the amount the list gives it.        *)
LEMMA AmountMerged ==
  ASSUME NEW list \in Seq(Invoice), NEW m, Merged(m, list, Len(list)), NEW n \in NumbersOf(list)
  PROVE  AmountOf(m, n) = AmountOf(list, n) /\ n \in NumbersOf(m)
<1>1. PICK l \in DOMAIN list : list[l].num = n /\ IsFirst(list, l)
  BY FirstExists
<1>2. l \in 1..Len(list) /\ m \in Seq(Invoice) /\ DOMAIN m = 1..Len(m) /\ Len(m) \in Nat
  BY DEF Merged
<1>3. PICK i \in DOMAIN m : m[i] = list[l]
  BY <1>1, <1>2 DEF Merged
<1>4. IsFirst(m, i)
  <2>1. ASSUME NEW j \in 1..(i - 1) PROVE m[j].num # m[i].num
    <3>1. j \in DOMAIN m /\ j # i
      BY <1>2
    <3>2. QED
      BY <3>1 DEF Merged
  <2>2. QED
    BY <2>1 DEF IsFirst
<1>5. AmountOf(m, m[i].num) = AmountOf(list, m[i].num)
  BY <1>1, <1>2, <1>3, <1>4, AmountSame
<1>6. QED
  BY <1>1, <1>3, <1>5 DEF NumbersOf

(* Lists one after the other: what comes first decides.                    *)
LEMMA ConcatFacts ==
  ASSUME NEW a \in Seq(Invoice), NEW b \in Seq(Invoice)
  PROVE  /\ a \o b \in Seq(Invoice)
         /\ ToSet(a \o b) = ToSet(a) \cup ToSet(b)
         /\ NumbersOf(a \o b) = NumbersOf(a) \cup NumbersOf(b)
         /\ \A n \in NumbersOf(a) : AmountOf(a \o b, n) = AmountOf(a, n)
<1>1. PICK c \in {a \o b}, p \in Nat, q \in Nat : c = a \o b /\ p = Len(a) /\ q = Len(b)
  OBVIOUS
<1>2. /\ c \in Seq(Invoice) /\ DOMAIN c = 1..(p + q) /\ DOMAIN a = 1..p /\ DOMAIN b = 1..q
      /\ \A i \in 1..p : c[i] = a[i]
      /\ \A i \in 1..q : c[p + i] = b[i]
  BY <1>1, ConcatProperties
<1>3. /\ \A i \in 1..p : i \in DOMAIN c
      /\ \A i \in 1..q : p + i \in DOMAIN c
      /\ \A i \in DOMAIN c : i \in 1..p \/ \E j \in 1..q : i = p + j
  <2>1. ASSUME NEW i \in 1..(p + q), i \notin 1..p PROVE \E j \in 1..q : i = p + j
    <3>1. i - p \in 1..q /\ i = p + (i - p)
      BY <2>1
    <3>2. QED
      BY <3>1
  <2>2. (\A i \in 1..p : i \in 1..(p + q)) /\ \A i \in 1..q : p + i \in 1..(p + q)
    OBVIOUS
  <2>3. QED
    BY <1>2, <2>1, <2>2
<1>4. ToSet(c) = ToSet(a) \cup ToSet(b)
  <2>1. ToSet(c) = {c[i] : i \in DOMAIN c} /\ ToSet(a) = {a[i] : i \in 1..p}
        /\ ToSet(b) = {b[i] : i \in 1..q}
    BY <1>2 DEF ToSet
  <2>2. ToSet(c) \subseteq ToSet(a) \cup ToSet(b)
    <3>1. ASSUME NEW i \in DOMAIN c PROVE c[i] \in ToSet(a) \cup ToSet(b)
      <4>1. CASE i \in 1..p
        BY <1>2, <2>1, <4>1
      <4>2. ASSUME NEW j \in 1..q, i = p + j PROVE c[i] \in ToSet(b)
        <5>1. c[i] = b[j]
          BY <1>2, <4>2
        <5>2. QED
          BY <2>1, <5>1
      <4>3. QED
        BY <1>3, <4>1, <4>2
    <3>2. QED
      BY <2>1, <3>1
  <2>3. ToSet(a) \cup ToSet(b) \subseteq ToSet(c)
    BY <1>2, <1>3, <2>1
  <2>4. QED
    BY <2>2, <2>3
<1>5. NumbersOf(c) = NumbersOf(a) \cup NumbersOf(b)
  <2>1. NumbersOf(c) = {c[i].num : i \in DOMAIN c} /\ NumbersOf(a) = {a[i].num : i \in 1..p}
        /\ NumbersOf(b) = {b[i].num : i \in 1..q}
    BY <1>2 DEF NumbersOf
  <2>2. NumbersOf(c) \subseteq NumbersOf(a) \cup NumbersOf(b)
    BY <1>2, <1>3, <2>1
  <2>3. NumbersOf(a) \cup NumbersOf(b) \subseteq NumbersOf(c)
    BY <1>2, <1>3, <2>1
  <2>4. QED
    BY <2>2, <2>3
<1>6. ASSUME NEW n \in NumbersOf(a) PROVE AmountOf(c, n) = AmountOf(a, n)
  <2>1. PICK l \in DOMAIN a : a[l].num = n /\ IsFirst(a, l)
    BY FirstExists
  <2>2. l \in DOMAIN c /\ c[l] = a[l] /\ l \in Nat
    BY <1>2, <1>3
  <2>3. IsFirst(c, l)
    <3>1. \A j \in 1..(l - 1) : j \in 1..p
      BY <1>2
    <3>2. QED
      BY <1>2, <2>1, <2>2, <3>1 DEF IsFirst
  <2>4. QED
    BY <1>2, <2>1, <2>2, <2>3, AmountSame
<1>7. QED
  BY <1>1, <1>2, <1>4, <1>5, <1>6

(* The list after an edit: the numbers stay where they were, the edited    *)
(* one has the new amount, and the others have theirs when no other number *)
(* has the edited one's id.                                                *)
LEMMA EditedFacts ==
  ASSUME ReceivablesTypeOK, NEW amount \in Amounts
  PROVE  /\ Edited(amount) \in Seq(Invoice) /\ NumbersOf(Edited(amount)) = NumbersOf(book.invoices)
         /\ \A r \in ToSet(Edited(amount)) : \E s \in ToSet(book.invoices) :
              r.id = s.id /\ r.num = s.num
         /\ book.editing.num \in NumbersOf(book.invoices) =>
              AmountOf(Edited(amount), book.editing.num) = amount
         /\ (\A s \in ToSet(book.invoices) :
                s.id = book.editing.id => s.num = book.editing.num) =>
              \A n \in NumbersOf(book.invoices) \ {book.editing.num} :
                AmountOf(Edited(amount), n) = AmountOf(book.invoices, n)
<1>1. PICK list, e, c : list = book.invoices /\ e = Edited(amount) /\ c = book.editing
  OBVIOUS
<1>2. list \in Seq(Invoice)
  BY <1>1 DEF ReceivablesTypeOK
<1>3. PICK n \in Nat : DOMAIN list = 1..n /\ n = Len(list)
  BY <1>2
<1>4. e = [i \in 1..n |-> IF list[i].id = c.id \/ list[i].num = c.num
                          THEN [list[i] EXCEPT !.amount = amount] ELSE list[i]]
  BY <1>1, <1>3 DEF Edited
<1>5. \A i \in 1..n : list[i] \in Invoice
  BY <1>2, <1>3
<1>6. ASSUME NEW i \in 1..n
      PROVE  /\ e[i] \in Invoice /\ e[i].num = list[i].num /\ e[i].id = list[i].id
             /\ list[i].id = c.id \/ list[i].num = c.num => e[i].amount = amount
             /\ ~(list[i].id = c.id \/ list[i].num = c.num) => e[i].amount = list[i].amount
  <2>1. list[i] \in Invoice
    BY <1>5
  <2>2. CASE list[i].id = c.id \/ list[i].num = c.num
    <3>1. e[i] = [list[i] EXCEPT !.amount = amount]
      BY <1>4, <2>2
    <3>2. QED
      BY <2>1, <2>2, <3>1 DEF Invoice
  <2>3. CASE ~(list[i].id = c.id \/ list[i].num = c.num)
    <3>1. e[i] = list[i]
      BY <1>4, <2>3
    <3>2. QED
      BY <2>1, <2>3, <3>1
  <2>4. QED
    BY <2>2, <2>3
<1>7. DOMAIN e = 1..n /\ e \in Seq(Invoice)
  <2>1. e \in [1..n -> Invoice]
    BY <1>4, <1>6
  <2>2. QED
    BY <2>1
<1>8. NumbersOf(e) = NumbersOf(list)
  BY <1>3, <1>6, <1>7 DEF NumbersOf
<1>9. \A r \in ToSet(e) : \E s \in ToSet(list) : r.id = s.id /\ r.num = s.num
  BY <1>3, <1>6, <1>7 DEF ToSet
<1>10. ASSUME NEW k \in NumbersOf(list)
       PROVE  \E l \in 1..n : list[l].num = k /\ IsFirst(list, l) /\ IsFirst(e, l)
  <2>1. PICK l \in DOMAIN list : list[l].num = k /\ IsFirst(list, l)
    BY <1>2, FirstExists
  <2>2. \A j \in 1..(l - 1) : j \in 1..n
    BY <1>3
  <2>3. IsFirst(e, l)
    BY <1>3, <1>6, <2>1, <2>2 DEF IsFirst
  <2>4. QED
    BY <1>3, <2>1, <2>3
<1>11. c.num \in NumbersOf(list) => AmountOf(e, c.num) = amount
  <2> SUFFICES ASSUME c.num \in NumbersOf(list) PROVE AmountOf(e, c.num) = amount
    OBVIOUS
  <2>1. PICK l \in 1..n : list[l].num = c.num /\ IsFirst(e, l)
    BY <1>10
  <2>2. e[l].num = c.num /\ e[l].amount = amount /\ l \in DOMAIN e
    BY <1>6, <1>7, <2>1
  <2>3. AmountOf(e, e[l].num) = e[l].amount
    BY <1>7, <2>1, <2>2, AmountFirst
  <2>4. QED
    BY <2>2, <2>3
<1>12. ASSUME \A s \in ToSet(list) : s.id = c.id => s.num = c.num, NEW k \in NumbersOf(list) \ {c.num}
       PROVE  AmountOf(e, k) = AmountOf(list, k)
  <2>1. PICK l \in 1..n : list[l].num = k /\ IsFirst(list, l) /\ IsFirst(e, l)
    BY <1>10
  <2>2. list[l] \in ToSet(list)
    BY <1>3 DEF ToSet
  <2>3. list[l].id # c.id /\ list[l].num # c.num
    BY <1>12, <2>1, <2>2
  <2>4. e[l].num = k /\ e[l].num = list[l].num /\ e[l].amount = list[l].amount
    BY <1>6, <2>1, <2>3
  <2>5. AmountOf(e, e[l].num) = AmountOf(list, e[l].num)
    BY <1>2, <1>3, <1>7, <2>1, <2>4, AmountSame
  <2>6. QED
    BY <2>4, <2>5
<1>13. QED
  BY <1>1, <1>7, <1>8, <1>9, <1>11, <1>12

(* The list after a new invoice, which is the first of its number.         *)
LEMMA CreatedFacts ==
  ASSUME ReceivablesTypeOK, NEW num \in Numbers, NEW amount \in Amounts
  PROVE  /\ Created(num, amount) \in Seq(Invoice)
         /\ NumbersOf(book.invoices) \subseteq NumbersOf(Created(num, amount))
         /\ \A r \in ToSet(Created(num, amount)) :
              r \in ToSet(book.invoices) \/ (r.id = kept.count + 1 /\ r.num = num)
         /\ AmountOf(Created(num, amount), num) = amount
         /\ \A n \in NumbersOf(book.invoices) \ {num} :
              AmountOf(Created(num, amount), n) = AmountOf(book.invoices, n)
<1>1. PICK list, new, e :
        /\ list = book.invoices /\ e = <<new>> \o list /\ e = Created(num, amount)
        /\ new = [num |-> num, id |-> kept.count + 1, amount |-> amount, bucket |-> "CURRENT"]
  BY DEF Created
<1>2. list \in Seq(Invoice) /\ kept.count + 1 \in Nat
  BY <1>1, ReceivablesAssumption DEF ReceivablesTypeOK
<1>3. new \in Invoice /\ new.num = num /\ new.id = kept.count + 1 /\ new.amount = amount
  BY <1>1, <1>2 DEF Invoice, Bucket
<1>4. PICK one \in Seq(Invoice) : one = <<new>> /\ Len(one) = 1 /\ one[1] = new
  <2>1. <<new>> \in Seq(Invoice)
    BY <1>3
  <2>2. Len(<<new>>) = 1 /\ <<new>>[1] = new
    OBVIOUS
  <2>3. QED
    BY <2>1, <2>2
<1>5. DOMAIN one = 1..1 /\ NumbersOf(one) = {num} /\ ToSet(one) = {new}
  BY <1>3, <1>4 DEF NumbersOf, ToSet
<1>6. PICK n \in Nat : DOMAIN list = 1..n /\ n = Len(list)
  BY <1>2
<1>7. /\ e \in Seq(Invoice) /\ ToSet(e) = ToSet(one) \cup ToSet(list)
      /\ NumbersOf(e) = NumbersOf(one) \cup NumbersOf(list)
  <2>1. e = one \o list
    BY <1>1, <1>4
  <2>2. QED
    BY <1>2, <2>1, ConcatFacts
<1>8. /\ DOMAIN e = 1..(n + 1) /\ e[1] = new
      /\ \A i \in 1..n : e[i + 1] = list[i]
  <2>1. e = one \o list
    BY <1>1, <1>4
  <2>2. Len(e) = 1 + n /\ \A i \in 1..(1 + n) : e[i] = IF i <= 1 THEN one[i] ELSE list[i - 1]
    BY <1>2, <1>4, <1>6, <2>1, ConcatProperties
  <2>3. DOMAIN e = 1..(n + 1)
    BY <1>7, <2>2
  <2>4. QED
    BY <1>4, <2>2, <2>3
<1>9. AmountOf(e, num) = amount
  <2>1. IsFirst(e, 1) /\ 1 \in DOMAIN e
    BY <1>8 DEF IsFirst
  <2>2. AmountOf(e, e[1].num) = e[1].amount
    BY <1>7, <2>1, AmountFirst
  <2>3. QED
    BY <1>3, <1>8, <2>2
<1>10. ASSUME NEW k \in NumbersOf(list) \ {num} PROVE AmountOf(e, k) = AmountOf(list, k)
  <2>1. PICK l \in 1..n : list[l].num = k /\ IsFirst(list, l)
    BY <1>2, <1>6, FirstExists
  <2>2. l + 1 \in DOMAIN e /\ e[l + 1] = list[l]
    BY <1>8
  <2>3. IsFirst(e, l + 1)
    <3>1. ASSUME NEW j \in 1..((l + 1) - 1) PROVE e[j].num # e[l + 1].num
      <4>1. CASE j = 1
        BY <1>3, <1>8, <2>1, <2>2, <4>1
      <4>2. CASE j # 1
        <5>1. j - 1 \in 1..(l - 1) /\ j - 1 \in 1..n /\ (j - 1) + 1 = j
          BY <4>2
        <5>2. e[j] = list[j - 1]
          BY <1>8, <5>1
        <5>3. QED
          BY <2>1, <2>2, <5>1, <5>2 DEF IsFirst
      <4>3. QED
        BY <4>1, <4>2
    <3>2. QED
      BY <3>1 DEF IsFirst
  <2>4. AmountOf(e, e[l + 1].num) = AmountOf(list, e[l + 1].num)
    BY <1>2, <1>6, <1>7, <2>1, <2>2, <2>3, AmountSame
  <2>5. QED
    BY <2>1, <2>2, <2>4
<1>11. QED
  BY <1>1, <1>3, <1>5, <1>7, <1>9, <1>10

(* The empty list.                                                         *)
LEMMA EmptyFacts == <<>> \in Seq(Invoice)
OBVIOUS

(* The constants of the page.                                              *)
LEMMA ConstantFacts ==
  /\ DemoInvoice \in Invoice /\ DemoInvoice.num = DemoNumber /\ DemoInvoice.id = 0
  /\ NoSummary \in Summary
  /\ <<DemoInvoice>> \in Seq(Invoice) /\ ToSet(<<DemoInvoice>>) = {DemoInvoice}
  /\ NumbersOf(<<DemoInvoice>>) = {DemoNumber}
  /\ \A age \in Ages :
       LedgerInvoice(age) \in Invoice /\ LedgerInvoice(age).num = DemoNumber
         /\ LedgerInvoice(age).id = MaxSaves + 1
         /\ <<LedgerInvoice(age)>> \in Seq(Invoice)
         /\ ToSet(<<LedgerInvoice(age)>>) = {LedgerInvoice(age)}
<1>1. (CHOOSE a \in Amounts : TRUE) \in Amounts
  BY ReceivablesAssumption
<1>2. DemoInvoice \in Invoice /\ DemoInvoice.num = DemoNumber /\ DemoInvoice.id = 0
  BY <1>1, ReceivablesAssumption DEF DemoInvoice, Invoice, Bucket
<1>3. \A age \in Ages :
        LedgerInvoice(age) \in Invoice /\ LedgerInvoice(age).num = DemoNumber
          /\ LedgerInvoice(age).id = MaxSaves + 1
  BY <1>1, ReceivablesAssumption DEF LedgerInvoice, Invoice
<1>4. NoSummary \in Summary
  BY DEF NoSummary, Summary
<1>5. ASSUME NEW r \in Invoice
      PROVE  <<r>> \in Seq(Invoice) /\ ToSet(<<r>>) = {r} /\ NumbersOf(<<r>>) = {r.num}
  <2>1. <<r>> \in Seq(Invoice)
    OBVIOUS
  <2>2. DOMAIN <<r>> = {1} /\ <<r>>[1] = r
    OBVIOUS
  <2>3. PICK s : s = <<r>>
    OBVIOUS
  <2>4. DOMAIN s = {1} /\ s[1] = r
    BY <2>2, <2>3
  <2>5. ToSet(s) = {r} /\ NumbersOf(s) = {r.num}
    BY <2>4 DEF ToSet, NumbersOf
  <2>6. QED
    BY <2>1, <2>3, <2>5
<1>6. \A age \in Ages :
        /\ <<LedgerInvoice(age)>> \in Seq(Invoice)
        /\ ToSet(<<LedgerInvoice(age)>>) = {LedgerInvoice(age)}
  BY <1>3, <1>5
<1>7. QED
  BY <1>2, <1>3, <1>4, <1>5, <1>6

(* The invoices that are in no list of the browser's at first.             *)
LEMMA GivenFacts ==
  /\ \A r \in Given : r \in Invoice /\ r.num = DemoNumber /\ r.id \in {0, MaxSaves + 1}
  /\ DemoInvoice \in Given
<1>1. \A age \in Ages : /\ LedgerInvoice(age) \in Invoice /\ LedgerInvoice(age).num = DemoNumber
                        /\ LedgerInvoice(age).id = MaxSaves + 1
  BY ConstantFacts
<1>2. DemoInvoice \in Invoice /\ DemoInvoice.num = DemoNumber /\ DemoInvoice.id = 0
  BY ConstantFacts
<1>3. DemoInvoice \in Given /\ \A r \in Given : r = DemoInvoice \/ \E age \in Ages : r = LedgerInvoice(age)
  BY DEF Given
<1>4. QED
  BY <1>1, <1>2, <1>3

(* The list a load puts on the page: what the browser had when it was read *)
(* keeps its amounts, the demo invoice's number is there, and with the API *)
(* no number is there twice.                                               *)
Landed(load) ==
  IF load.ok THEN FirstByNumber(load.local \o load.data \o <<DemoInvoice>>)
  ELSE load.local \o (IF DemoNumber \in NumbersOf(load.local) THEN <<>> ELSE <<DemoInvoice>>)

LEMMA LandedFacts ==
  ASSUME NEW load, NEW local \in Seq(Invoice), NEW data \in Seq(Invoice),
         local = load.local, data = load.data, NEW m, m = Landed(load)
  PROVE  /\ m \in Seq(Invoice) /\ ToSet(m) \subseteq ToSet(local) \cup ToSet(data) \cup {DemoInvoice}
         /\ NumbersOf(local) \cup {DemoNumber} \subseteq NumbersOf(m)
         /\ \A n \in NumbersOf(local) : AmountOf(m, n) = AmountOf(local, n)
         /\ load.ok => \A i, j \in DOMAIN m : m[i].num = m[j].num => i = j
<1>1. PICK demo \in Seq(Invoice) :
        demo = <<DemoInvoice>> /\ ToSet(demo) = {DemoInvoice} /\ NumbersOf(demo) = {DemoNumber}
  BY ConstantFacts
<1>2. CASE load.ok
  <2>1. PICK half : half = local \o data
    OBVIOUS
  <2>2. /\ half \in Seq(Invoice) /\ ToSet(half) = ToSet(local) \cup ToSet(data)
        /\ NumbersOf(half) = NumbersOf(local) \cup NumbersOf(data)
        /\ \A n \in NumbersOf(local) : AmountOf(half, n) = AmountOf(local, n)
    BY <2>1, ConcatFacts
  <2>3. PICK all : all = half \o demo
    OBVIOUS
  <2>4. /\ all \in Seq(Invoice) /\ ToSet(all) = ToSet(half) \cup ToSet(demo)
        /\ NumbersOf(all) = NumbersOf(half) \cup NumbersOf(demo)
        /\ \A n \in NumbersOf(half) : AmountOf(all, n) = AmountOf(half, n)
    BY <2>2, <2>3, ConcatFacts
  <2>5. m = FirstByNumber(all)
    BY <1>1, <1>2, <2>1, <2>3 DEF Landed
  <2>6. Merged(m, all, Len(all))
    BY <2>4, <2>5, FirstByNumberFacts
  <2>7. \A n \in NumbersOf(all) : AmountOf(m, n) = AmountOf(all, n) /\ n \in NumbersOf(m)
    BY <2>4, <2>6, AmountMerged
  <2>8. m \in Seq(Invoice) /\ ToSet(m) \subseteq ToSet(all)
    <3>1. m \in Seq(Invoice) /\ \A i \in DOMAIN m : \E l \in 1..Len(all) : m[i] = all[l]
      BY <2>6 DEF Merged
    <3>2. DOMAIN all = 1..Len(all)
      BY <2>4
    <3>3. ASSUME NEW i \in DOMAIN m PROVE m[i] \in ToSet(all)
      BY <3>1, <3>2 DEF ToSet
    <3>4. QED
      BY <3>1, <3>3 DEF ToSet
  <2>9. \A i, j \in DOMAIN m : m[i].num = m[j].num => i = j
    BY <2>6 DEF Merged
  <2>10. QED
    BY <1>1, <2>2, <2>4, <2>7, <2>8, <2>9
<1>3. CASE ~load.ok
  <2>1. PICK rest : rest = IF DemoNumber \in NumbersOf(local) THEN <<>> ELSE demo
    OBVIOUS
  <2>2. m = local \o rest
    BY <1>1, <1>3, <2>1 DEF Landed
  <2>3. CASE DemoNumber \in NumbersOf(local)
    <3>1. m = local
      BY <2>1, <2>2, <2>3
    <3>2. QED
      BY <1>3, <2>3, <3>1
  <2>4. CASE DemoNumber \notin NumbersOf(local)
    <3>1. m = local \o demo
      BY <2>1, <2>2, <2>4
    <3>2. /\ m \in Seq(Invoice) /\ ToSet(m) = ToSet(local) \cup ToSet(demo)
          /\ NumbersOf(m) = NumbersOf(local) \cup NumbersOf(demo)
          /\ \A n \in NumbersOf(local) : AmountOf(m, n) = AmountOf(local, n)
      BY <3>1, ConcatFacts
    <3>3. QED
      BY <1>1, <1>3, <3>2
  <2>5. QED
    BY <2>3, <2>4
<1>4. QED
  BY <1>2, <1>3
-----------------------------------------------------------------------------
(* The inductive invariant of the receivables page.                        *)
PageInv == ReceivablesTypeOK /\ IdInv /\ EditInv /\ SavedIsKept /\ CardsInv

(* What a page knows of its load.                                          *)
Loads == [pc : {"none", "sent", "reply"}, local : Seq(Invoice), count : Nat,
          ok : BOOLEAN, data : Seq(Invoice)]

(* None is under way.                                                      *)
LEMMA NoLoadFacts ==
  /\ NoLoad \in Loads /\ NoLoad.pc = "none" /\ NoLoad.count = 0
  /\ NoLoad.local = <<>> /\ NoLoad.data = <<>> /\ ToSet(<<>>) = {}
<1>1. PICK none \in Seq(Invoice) : none = <<>>
  BY EmptyFacts
<1>2. NoLoad = [pc |-> "none", local |-> none, count |-> 0, ok |-> FALSE, data |-> none]
  BY <1>1 DEF NoLoad
<1>3. ToSet(<<>>) = {}
  BY DEF ToSet
<1>4. QED
  BY <1>1, <1>2, <1>3 DEF Loads

(* The page's fields.                                                      *)
LEMMA BookFacts ==
  ASSUME ReceivablesTypeOK
  PROVE  /\ shelf \in Seq(Invoice)
         /\ book.mounted \in BOOLEAN /\ book.invoices \in Seq(Invoice) /\ book.summary \in Summary
         /\ book.load.pc \in {"none", "sent", "reply"} /\ book.load.local \in Seq(Invoice)
         /\ book.load.ok \in BOOLEAN /\ book.load.data \in Seq(Invoice) /\ book.load.count \in Nat
         /\ book.modal \in {"none", "create", "edit"} /\ book.editing \in Invoice \cup {NoInvoice}
         /\ book.overtaken \in BOOLEAN /\ book.fresh \in BOOLEAN
         /\ kept.saved \in [Numbers -> Amounts \cup {0}] /\ kept.count \in 0..MaxSaves
         /\ kept.lost \in SUBSET Numbers
BY DEF ReceivablesTypeOK

(* Invoices with the ids and numbers of known ones have no id in common.   *)
LEMMA SameIds ==
  ASSUME IdInv, NEW K, \A r \in K : \E s \in Known : r.id = s.id /\ r.num = s.num
  PROVE  /\ \A r, s \in K : r.id = s.id => r.num = s.num
         /\ \A r \in K : r.id \in 0..kept.count \cup {MaxSaves + 1}
<1>1. ASSUME NEW r \in K, NEW s \in K, r.id = s.id PROVE r.num = s.num
  <2>1. PICK x \in Known : r.id = x.id /\ r.num = x.num
    OBVIOUS
  <2>2. PICK y \in Known : s.id = y.id /\ s.num = y.num
    OBVIOUS
  <2>3. x.id = y.id => x.num = y.num
    BY DEF IdInv
  <2>4. QED
    BY <1>1, <2>1, <2>2, <2>3
<1>2. ASSUME NEW r \in K PROVE r.id \in 0..kept.count \cup {MaxSaves + 1}
  <2>1. PICK x \in Known : r.id = x.id
    OBVIOUS
  <2>2. QED
    BY <2>1 DEF IdInv
<1>3. QED
  BY <1>1, <1>2

(* Nor has a new invoice, whose id is the next one.                        *)
LEMMA NewId ==
  ASSUME ReceivablesTypeOK, IdInv, kept.count < MaxSaves, NEW num, NEW K,
         \A r \in K :
           (\E s \in Known : r.id = s.id /\ r.num = s.num) \/ (r.id = kept.count + 1 /\ r.num = num)
  PROVE  /\ \A r, s \in K : r.id = s.id => r.num = s.num
         /\ \A r \in K : r.id \in 0..(kept.count + 1) \cup {MaxSaves + 1}
<1>1. PICK c \in 0..MaxSaves : c = kept.count
  BY BookFacts
<1>2. MaxSaves \in Nat /\ c \in Nat /\ c < MaxSaves
  BY <1>1, ReceivablesAssumption
<1>3. \A s \in Known : s.id # c + 1
  BY <1>1, <1>2 DEF IdInv
<1>4. ASSUME NEW r \in K, NEW s \in K, r.id = s.id PROVE r.num = s.num
  <2>1. CASE r.id = c + 1
    <3>1. ASSUME NEW x \in K, x.id = c + 1 PROVE x.num = num
      BY <1>1, <1>3, <3>1
    <3>2. QED
      BY <1>4, <2>1, <3>1
  <2>2. CASE r.id # c + 1
    <3>1. PICK x \in Known : r.id = x.id /\ r.num = x.num
      BY <1>1, <2>2
    <3>2. PICK y \in Known : s.id = y.id /\ s.num = y.num
      BY <1>1, <1>4, <2>2
    <3>3. x.id = y.id => x.num = y.num
      BY DEF IdInv
    <3>4. QED
      BY <1>4, <3>1, <3>2, <3>3
  <2>3. QED
    BY <2>1, <2>2
<1>5. ASSUME NEW r \in K PROVE r.id \in 0..(c + 1) \cup {MaxSaves + 1}
  <2>1. CASE r.id = c + 1
    BY <1>2, <2>1
  <2>2. CASE r.id # c + 1
    <3>1. PICK x \in Known : r.id = x.id
      BY <1>1, <2>2
    <3>2. x.id \in 0..c \cup {MaxSaves + 1}
      BY <1>1 DEF IdInv
    <3>3. QED
      BY <1>2, <3>1, <3>2
  <2>3. QED
    BY <2>1, <2>2
<1>6. QED
  BY <1>1, <1>4, <1>5

(* A step that leaves the browser's list and what is saved alone keeps the *)
(* ids apart when every invoice it leaves is a known one.                  *)
LEMMA KnownStays ==
  ASSUME IdInv, kept' = kept, Known' \subseteq Known, ToSet(book.load.data)' \subseteq Given
  PROVE  IdInv'
<1>1. PICK K : K = Known'
  OBVIOUS
<1>2. \A r \in K : \E s \in Known : r.id = s.id /\ r.num = s.num
  BY <1>1
<1>3. /\ \A r, s \in K : r.id = s.id => r.num = s.num
      /\ \A r \in K : r.id \in 0..kept.count \cup {MaxSaves + 1}
  BY <1>2, SameIds
<1>4. QED
  BY <1>1, <1>3 DEF IdInv

(* The page is opened, or left.                                            *)
LEMMA OpenInv ==
  ASSUME PageInv, \/ OpenReceivables
                  \/ book' = Closed /\ UNCHANGED <<shelf, kept>>
  PROVE  PageInv'
<1> USE DEF PageInv
<1>1. PICK mounted \in BOOLEAN, load \in Loads, overtaken \in BOOLEAN :
        /\ book' = [mounted |-> mounted, invoices |-> <<DemoInvoice>>, summary |-> NoSummary,
                    load |-> load, modal |-> "none", editing |-> NoInvoice,
                    overtaken |-> overtaken, fresh |-> FALSE]
        /\ load.local \in {shelf, <<>>} /\ load.data = <<>> /\ load.count <= kept.count
        /\ load.pc # "none" => load.local = shelf
        /\ mounted => overtaken = (shelf # <<>>)
        /\ shelf' = shelf /\ kept' = kept
  <2>1. CASE OpenReceivables
    <3>1. PICK over \in BOOLEAN, c \in 0..MaxSaves : over = (shelf # <<>>) /\ c = kept.count
      BY BookFacts
    <3>2. PICK none \in Seq(Invoice) : none = <<>>
      BY EmptyFacts
    <3>3. PICK load : load = [pc |-> "sent", local |-> shelf, count |-> c, ok |-> FALSE, data |-> none]
      OBVIOUS
    <3>4. /\ load \in Loads /\ load.local = shelf /\ load.data = <<>> /\ load.count = kept.count
          /\ load.count <= kept.count /\ load.pc = "sent"
      BY <3>1, <3>2, <3>3, BookFacts, ReceivablesAssumption DEF Loads
    <3>5. book' = [mounted |-> TRUE, invoices |-> <<DemoInvoice>>, summary |-> NoSummary,
                   load |-> load, modal |-> "none", editing |-> NoInvoice,
                   overtaken |-> over, fresh |-> FALSE]
      BY <2>1, <3>1, <3>2, <3>3 DEF OpenReceivables, Closed, NoLoad
    <3>6. QED
      BY <2>1, <3>1, <3>4, <3>5 DEF OpenReceivables
  <2>2. CASE book' = Closed /\ UNCHANGED <<shelf, kept>>
    <3>1. book' = [mounted |-> FALSE, invoices |-> <<DemoInvoice>>, summary |-> NoSummary,
                   load |-> NoLoad, modal |-> "none", editing |-> NoInvoice,
                   overtaken |-> FALSE, fresh |-> FALSE]
      BY <2>2 DEF Closed
    <3>2. 0 <= kept.count
      BY BookFacts, ReceivablesAssumption
    <3>3. QED
      BY <2>2, <3>1, <3>2, NoLoadFacts
  <2>3. QED
    BY <2>1, <2>2
<1>2. ReceivablesTypeOK'
  <2>1. /\ shelf \in Seq(Invoice) /\ NoInvoice \in Invoice \cup {NoInvoice}
        /\ <<DemoInvoice>> \in Seq(Invoice) /\ NoSummary \in Summary
    BY BookFacts, ConstantFacts
  <2>2. kept' \in [saved : [Numbers -> Amounts \cup {0}], count : 0..MaxSaves, lost : SUBSET Numbers]
    BY <1>1 DEF ReceivablesTypeOK
  <2> HIDE DEF PageInv
  <2>3. QED
    BY <1>1, <2>1, <2>2 DEF ReceivablesTypeOK, Loads
<1>3. /\ book'.invoices = <<DemoInvoice>> /\ book'.summary = NoSummary /\ book'.modal = "none"
      /\ book'.editing = NoInvoice /\ book'.fresh = FALSE /\ book'.load = load
      /\ book'.mounted = mounted /\ book'.overtaken = overtaken
  BY <1>1
<1>4. IdInv'
  <2>1. ToSet(<<>>) = {} /\ ToSet(<<DemoInvoice>>) = {DemoInvoice}
    BY NoLoadFacts, ConstantFacts
  <2>2. ToSet(book.load.data)' = {} /\ ToSet(book.invoices)' = {DemoInvoice} /\ ToSet(shelf)' = ToSet(shelf)
        /\ ToSet(book.load.local)' \subseteq ToSet(shelf)
    BY <1>1, <1>3, <2>1
  <2>3. Known' \subseteq Known
    BY <1>1, <1>3, <2>2, GivenFacts DEF Known
  <2>4. QED
    BY <1>1, <1>3, <2>2, <2>3, KnownStays
<1>5. EditInv'
  BY <1>1, <1>3 DEF EditInv
<1>6. SavedIsKept'
  <2>1. NumbersOf(<<>>) = {}
    BY DEF NumbersOf
  <2>2. ASSUME NEW n \in Numbers, kept.saved[n] # 0, n \notin kept.lost, shelf = <<>> PROVE FALSE
    BY <2>1, <2>2, AmountNone DEF SavedIsKept
  <2>3. QED
    BY <1>1, <1>3, <2>2 DEF SavedIsKept
<1>7. CardsInv'
  BY <1>1, <1>3 DEF CardsInv
<1>8. QED
  BY <1>2, <1>4, <1>5, <1>6, <1>7

(* The API answers, or does not.                                           *)
LEMMA ServeInv ==
  ASSUME PageInv, NEW ok \in BOOLEAN, ServeReceivables(ok)
  PROVE  PageInv'
<1> USE DEF PageInv
<1>1. PICK data : /\ data \in Seq(Invoice) /\ ToSet(data) \subseteq Given
                  /\ book' = [book EXCEPT !.load = [pc |-> "reply", local |-> book.load.local,
                                                    count |-> book.load.count, ok |-> ok, data |-> data]]
  <2>1. PICK data \in IF ok THEN {<<LedgerInvoice(age)>> : age \in Ages} \cup {<<DemoInvoice>>} ELSE {<<>>} :
          book' = [book EXCEPT !.load = [pc |-> "reply", local |-> book.load.local,
                                         count |-> book.load.count, ok |-> ok, data |-> data]]
    BY DEF ServeReceivables
  <2>2. CASE data = <<>>
    BY <2>1, <2>2, EmptyFacts, NoLoadFacts
  <2>3. CASE data = <<DemoInvoice>>
    BY <2>1, <2>3, ConstantFacts, GivenFacts
  <2>4. ASSUME NEW age \in Ages, data = <<LedgerInvoice(age)>>
        PROVE  data \in Seq(Invoice) /\ ToSet(data) \subseteq Given
    BY <2>4, ConstantFacts DEF Given
  <2>5. QED
    BY <2>1, <2>2, <2>3, <2>4
<1>2. ToSet(data) \subseteq Given
  BY <1>1
<1>3. PICK load : load = [pc |-> "reply", local |-> book.load.local, count |-> book.load.count,
                          ok |-> ok, data |-> data]
  OBVIOUS
<1>4. book' = [book EXCEPT !.load = load] /\ shelf' = shelf /\ kept' = kept /\ book.load.pc = "sent"
  BY <1>1, <1>3 DEF ServeReceivables
<1>5. ReceivablesTypeOK'
  <2>1. book.load.local \in Seq(Invoice) /\ book.load.count \in Nat
    BY BookFacts
  <2>2. load \in Loads
    BY <1>1, <1>3, <2>1 DEF Loads
  <2>3. QED
    BY <1>4, <2>2 DEF ReceivablesTypeOK, Loads
<1>6. /\ book'.load = load /\ book'.mounted = book.mounted /\ book'.invoices = book.invoices
      /\ book'.summary = book.summary /\ book'.modal = book.modal /\ book'.editing = book.editing
      /\ book'.overtaken = book.overtaken /\ book'.fresh = book.fresh
  BY <1>4 DEF ReceivablesTypeOK
<1>7. load.local = book.load.local /\ load.data = data /\ load.pc = "reply" /\ load.count = book.load.count
  BY <1>3
<1>8. IdInv'
  <2>1. Known' \subseteq Known
    BY <1>4, <1>6, <1>7 DEF Known
  <2>2. QED
    BY <1>2, <1>4, <1>6, <1>7, <2>1, KnownStays
<1>9. EditInv'
  BY <1>4, <1>6, <1>7 DEF EditInv
<1>10. SavedIsKept' /\ CardsInv'
  BY <1>4, <1>6 DEF SavedIsKept, CardsInv
<1>11. QED
  BY <1>5, <1>8, <1>9, <1>10

(* The modal is opened or closed.                                          *)
LEMMA ModalInv ==
  ASSUME PageInv, \/ OpenCreate \/ CloseModal
                  \/ \E inv \in ToSet(book.invoices) : OpenEdit(inv)
  PROVE  PageInv'
<1> USE DEF PageInv
<1>1. PICK modal \in {"none", "create", "edit"}, editing \in Invoice \cup {NoInvoice} :
        /\ book' = [book EXCEPT !.modal = modal, !.editing = editing] /\ shelf' = shelf /\ kept' = kept
        /\ modal # "none" => book.mounted
        /\ modal = "edit" => editing \in ToSet(book.invoices) /\ editing \in Invoice
  <2>1. CASE OpenCreate
    BY <2>1 DEF OpenCreate
  <2>2. CASE CloseModal
    <3>1. book.editing \in Invoice \cup {NoInvoice} /\ book' = [book EXCEPT !.modal = "none"]
      BY <2>2, BookFacts DEF CloseModal
    <3>2. book' = [book EXCEPT !.modal = "none", !.editing = book.editing]
      BY <3>1 DEF ReceivablesTypeOK
    <3>3. QED
      BY <2>2, <3>1, <3>2 DEF CloseModal
  <2>3. ASSUME NEW inv \in ToSet(book.invoices), OpenEdit(inv) PROVE inv \in Invoice
    <3>1. book.invoices \in Seq(Invoice)
      BY BookFacts
    <3>2. QED
      BY <3>1 DEF ToSet
  <2>4. QED
    BY <2>1, <2>2, <2>3 DEF OpenEdit
<1>2. ReceivablesTypeOK'
  BY <1>1 DEF ReceivablesTypeOK
<1>3. /\ book'.load = book.load /\ book'.mounted = book.mounted /\ book'.invoices = book.invoices
      /\ book'.summary = book.summary /\ book'.modal = modal /\ book'.editing = editing
      /\ book'.overtaken = book.overtaken /\ book'.fresh = book.fresh
  BY <1>1 DEF ReceivablesTypeOK
<1>4. IdInv'
  <2>1. Known' \subseteq Known
    BY <1>1, <1>3 DEF Known
  <2>2. ToSet(book.load.data)' \subseteq Given
    BY <1>3 DEF IdInv
  <2>3. QED
    BY <1>1, <2>1, <2>2, KnownStays
<1>5. EditInv'
  <2>1. \A r \in ToSet(book.invoices) : r.num \in NumbersOf(book.invoices)
    BY DEF ToSet, NumbersOf
  <2>2. QED
    BY <1>1, <1>3, <2>1 DEF EditInv
<1>6. SavedIsKept' /\ CardsInv'
  BY <1>1, <1>3 DEF SavedIsKept, CardsInv
<1>7. QED
  BY <1>2, <1>4, <1>5, <1>6

(* A load lands: it replaces the list and the cards.                       *)
LEMMA LandInv ==
  ASSUME PageInv, LandReceivables
  PROVE  PageInv'
<1> USE DEF PageInv
<1>1. PICK local \in Seq(Invoice), data \in Seq(Invoice) :
        local = book.load.local /\ data = book.load.data
  BY BookFacts
<1>2. PICK ok \in BOOLEAN, over \in BOOLEAN : ok = book.load.ok /\ over = (book.load.count # kept.count)
  BY BookFacts
<1>3. PICK load, m : load = book.load /\ m = Landed(load)
  OBVIOUS
<1>4. PICK cards : cards = RecalcSummary(m)
  OBVIOUS
<1>5. /\ book' = [book EXCEPT !.load = NoLoad, !.invoices = m, !.summary = cards,
                              !.overtaken = over, !.fresh = ok]
      /\ shelf' = shelf /\ kept' = kept /\ book.load.pc = "reply"
  BY <1>1, <1>2, <1>3, <1>4 DEF LandReceivables, Landed
<1>6. /\ m \in Seq(Invoice) /\ ToSet(m) \subseteq ToSet(local) \cup ToSet(data) \cup {DemoInvoice}
      /\ NumbersOf(local) \cup {DemoNumber} \subseteq NumbersOf(m)
      /\ \A n \in NumbersOf(local) : AmountOf(m, n) = AmountOf(local, n)
      /\ load.ok => \A i, j \in DOMAIN m : m[i].num = m[j].num => i = j
  <2>1. local = load.local /\ data = load.data
    BY <1>1, <1>3
  <2>2. QED
    BY <1>3, <2>1, LandedFacts
<1>7. cards \in Summary
  BY <1>4, <1>6, RecalcFacts
<1>8. ReceivablesTypeOK'
  <2>1. NoLoad \in Loads
    BY NoLoadFacts
  <2>2. QED
    BY <1>5, <1>6, <1>7, <2>1 DEF ReceivablesTypeOK, Loads
<1>9. /\ book'.load = NoLoad /\ book'.mounted = book.mounted /\ book'.invoices = m
      /\ book'.summary = cards /\ book'.modal = book.modal /\ book'.editing = book.editing
      /\ book'.overtaken = over /\ book'.fresh = ok
  BY <1>5 DEF ReceivablesTypeOK
<1>10. NoLoad.local = <<>> /\ NoLoad.data = <<>> /\ NoLoad.pc = "none" /\ NoLoad.count = 0 /\ ToSet(<<>>) = {}
  BY NoLoadFacts
<1>11. IdInv'
  <2>1. ToSet(book.load.local)' = {} /\ ToSet(book.load.data)' = {}
    BY <1>9, <1>10
  <2>2. ToSet(data) \subseteq Given
    BY <1>1 DEF IdInv
  <2>3. Known' \subseteq Known
    BY <1>1, <1>5, <1>6, <1>9, <2>1, <2>2, GivenFacts DEF Known
  <2>4. QED
    BY <1>5, <2>1, <2>3, KnownStays
<1>12. EditInv'
  <2>1. ASSUME book.modal = "edit", ~over PROVE book.editing.num \in NumbersOf(m)
    <3>1. book.editing.num \in NumbersOf(<<DemoInvoice>>)
      BY <1>2, <1>5, <2>1 DEF EditInv
    <3>2. QED
      BY <1>6, <3>1, ConstantFacts
  <2>2. 0 <= kept.count
    BY BookFacts, ReceivablesAssumption
  <2>3. QED
    BY <1>5, <1>9, <1>10, <2>1, <2>2 DEF EditInv
<1>13. SavedIsKept'
  <2>1. ASSUME NEW n \in Numbers, kept.saved[n] # 0, n \notin kept.lost, ~over
        PROVE  AmountOf(m, n) = kept.saved[n]
    <3>1. AmountOf(shelf, n) = kept.saved[n]
      BY <2>1 DEF SavedIsKept
    <3>2. n \in NumbersOf(shelf)
      BY <2>1, <3>1, AmountNone
    <3>3. local = shelf
      BY <1>1, <1>2, <1>5, <2>1 DEF EditInv
    <3>4. QED
      BY <1>6, <3>1, <3>2, <3>3
  <2>2. QED
    BY <1>5, <1>9, <2>1 DEF SavedIsKept
<1>14. CardsInv'
  BY <1>2, <1>3, <1>4, <1>6, <1>9 DEF CardsInv
<1>15. QED
  BY <1>8, <1>11, <1>12, <1>13, <1>14

(* An invoice is saved, or the browser refuses it: the list shown, with    *)
(* the edited or the new one, is the browser's from now on, or not.        *)
LEMMA SaveInv ==
  ASSUME PageInv, NEW num \in Numbers, NEW amount \in Amounts, NEW stored \in BOOLEAN,
         HandleSaveInvoice(num, amount, stored)
  PROVE  PageInv'
<1> USE DEF PageInv
<1>1. PICK list, cards, key :
        list = Submitted(num, amount) /\ cards = RecalcSummary(list) /\ key = Key(num)
  OBVIOUS
<1>2. PICK count \in 0..MaxSaves, lost \in SUBSET Numbers, over \in BOOLEAN :
        count = kept.count /\ lost = kept.lost /\ over = book.overtaken
  BY BookFacts
<1>3. PICK still \in BOOLEAN : still = (over /\ ~stored)
  OBVIOUS
<1>4. /\ book' = [book EXCEPT !.invoices = list, !.summary = cards, !.modal = "none",
                              !.editing = NoInvoice, !.overtaken = still, !.fresh = FALSE]
      /\ book.modal # "none" /\ kept.count < MaxSaves
      /\ Store(key, list, amount, stored)
  BY <1>1, <1>2, <1>3 DEF HandleSaveInvoice
<1>5. key \in Numbers /\ list \in Seq(Invoice)
  <2>1. CASE book.modal = "edit"
    <3>1. book.editing \in Invoice
      BY <2>1 DEF EditInv
    <3>2. QED
      BY <1>1, <2>1, <3>1, EditedFacts DEF Invoice, Submitted, Key
  <2>2. CASE book.modal # "edit"
    BY <1>1, <2>2, CreatedFacts DEF Submitted, Key
  <2>3. QED
    BY <2>1, <2>2
<1>6. cards \in Summary
  BY <1>1, <1>5, RecalcFacts
<1>7. PICK saved \in [Numbers -> Amounts \cup {0}] : saved = [kept.saved EXCEPT ![key] = amount]
  BY <1>5, BookFacts
<1>8. PICK gone \in SUBSET Numbers :
        gone = IF ~stored THEN lost \cup {key}
               ELSE IF over THEN Numbers \ ({key} \cap NumbersOf(list)) ELSE lost \ {key}
  BY <1>5
<1>9. /\ kept' = [saved |-> saved, count |-> count + 1, lost |-> gone]
      /\ shelf' = IF stored THEN list ELSE shelf
  BY <1>2, <1>4, <1>7, <1>8 DEF Store
<1>10. ReceivablesTypeOK'
  <2>1. count + 1 \in 0..MaxSaves
    BY <1>2, <1>4, ReceivablesAssumption
  <2>2. kept' \in [saved : [Numbers -> Amounts \cup {0}], count : 0..MaxSaves, lost : SUBSET Numbers]
    BY <1>9, <2>1
  <2>3. NoInvoice \in Invoice \cup {NoInvoice}
    OBVIOUS
  <2>4. shelf' \in Seq(Invoice)
    BY <1>5, <1>9, BookFacts
  <2>5. QED
    BY <1>4, <1>5, <1>6, <2>2, <2>3, <2>4 DEF ReceivablesTypeOK
<1>11. /\ book'.load = book.load /\ book'.mounted = book.mounted /\ book'.invoices = list
       /\ book'.summary = cards /\ book'.modal = "none" /\ book'.editing = NoInvoice
       /\ book'.overtaken = still /\ book'.fresh = FALSE
       /\ kept'.saved = saved /\ kept'.count = count + 1 /\ kept'.lost = gone
  BY <1>4, <1>9 DEF ReceivablesTypeOK
<1>12. ToSet(book.invoices) \subseteq Known /\ ToSet(shelf) \subseteq Known
       /\ ToSet(book.load.local) \subseteq Known /\ Given \subseteq Known
  BY DEF Known
<1>13. IdInv'
  <2>1. PICK K : K = Known'
    OBVIOUS
  <2>2. \A r \in ToSet(list) :
          (\E s \in Known : r.id = s.id /\ r.num = s.num) \/ (r.id = kept.count + 1 /\ r.num = num)
    <3>1. CASE book.modal = "edit"
      <4>1. list = Edited(amount)
        BY <1>1, <3>1 DEF Submitted
      <4>2. \A r \in ToSet(list) : \E s \in ToSet(book.invoices) : r.id = s.id /\ r.num = s.num
        BY <4>1, EditedFacts
      <4>3. QED
        BY <1>12, <4>2
    <3>2. CASE book.modal # "edit"
      <4>1. list = Created(num, amount)
        BY <1>1, <3>2 DEF Submitted
      <4>2. \A r \in ToSet(list) :
              r \in ToSet(book.invoices) \/ (r.id = kept.count + 1 /\ r.num = num)
        BY <4>1, CreatedFacts
      <4>3. QED
        BY <1>12, <4>2
    <3>3. QED
      BY <3>1, <3>2
  <2>3. K \subseteq ToSet(list) \cup Known
    BY <1>9, <1>11, <1>12, <2>1 DEF Known
  <2>4. \A r \in K :
          (\E s \in Known : r.id = s.id /\ r.num = s.num) \/ (r.id = kept.count + 1 /\ r.num = num)
    <3>1. ASSUME NEW r \in K
          PROVE  (\E s \in Known : r.id = s.id /\ r.num = s.num) \/ (r.id = kept.count + 1 /\ r.num = num)
      <4>1. CASE r \in ToSet(list)
        BY <2>2, <4>1
      <4>2. CASE r \in Known
        BY <4>2
      <4>3. QED
        BY <2>3, <4>1, <4>2
    <3>2. QED
      BY <3>1
  <2>5. /\ \A r, s \in K : r.id = s.id => r.num = s.num
        /\ \A r \in K : r.id \in 0..(kept.count + 1) \cup {MaxSaves + 1}
    BY <1>4, <2>4, NewId
  <2>6. ToSet(book.load.data)' \subseteq Given
    BY <1>11 DEF IdInv
  <2>7. QED
    BY <1>2, <1>11, <2>1, <2>5, <2>6 DEF IdInv
<1>14. EditInv'
  <2>1. PICK c \in Nat : c = book.load.count
    BY BookFacts
  <2>2. c <= count /\ count \in Nat
    BY <1>2, <2>1, ReceivablesAssumption DEF EditInv
  <2>3. c <= count + 1 /\ c # count + 1
    BY <2>1, <2>2
  <2>4. book.mounted
    BY <1>4 DEF EditInv
  <2>5. QED
    BY <1>11, <2>1, <2>3, <2>4 DEF EditInv
<1>15. /\ \A n \in NumbersOf(book.invoices) \ {key} : AmountOf(list, n) = AmountOf(book.invoices, n)
       /\ key \in NumbersOf(list) => AmountOf(list, key) = amount
       /\ ~over => AmountOf(list, key) = amount
  <2>1. CASE book.modal = "edit"
    <3>1. key = book.editing.num /\ list = Edited(amount)
      BY <1>1, <2>1 DEF Submitted, Key
    <3>2. \A s \in ToSet(book.invoices) : s.id = book.editing.id => s.num = book.editing.num
      <4>1. book.editing \in Known
        BY <2>1 DEF Known
      <4>2. QED
        BY <1>12, <4>1 DEF IdInv
    <3>3. ~over => key \in NumbersOf(book.invoices)
      BY <1>2, <2>1, <3>1 DEF EditInv
    <3>4. QED
      BY <3>1, <3>2, <3>3, EditedFacts
  <2>2. CASE book.modal # "edit"
    BY <1>1, <2>2, CreatedFacts DEF Submitted, Key
  <2>3. QED
    BY <2>1, <2>2
<1>16. saved[key] = amount /\ \A n \in Numbers \ {key} : saved[n] = kept.saved[n]
  BY <1>5, <1>7, BookFacts
<1>17. ASSUME NEW n \in Numbers, saved[n] # 0, n \notin gone
       PROVE  /\ AmountOf(IF stored THEN list ELSE shelf, n) = saved[n]
              /\ ~still => AmountOf(list, n) = saved[n]
  <2>1. ASSUME n # key, n \notin lost, ~over
        PROVE  AmountOf(list, n) = saved[n]
    <3>1. AmountOf(book.invoices, n) = saved[n]
      <4>1. book.mounted
        BY <1>4 DEF EditInv
      <4>2. kept.saved[n] = saved[n]
        BY <1>16, <2>1
      <4>3. QED
        BY <1>2, <1>17, <2>1, <4>1, <4>2 DEF SavedIsKept
    <3>2. n \in NumbersOf(book.invoices)
      BY <1>17, <3>1, AmountNone
    <3>3. QED
      BY <1>15, <2>1, <3>1, <3>2
  <2>2. CASE ~stored
    <3>1. n \notin lost /\ n # key
      BY <1>8, <1>17, <2>2
    <3>2. AmountOf(shelf, n) = saved[n]
      BY <1>2, <1>16, <1>17, <3>1 DEF SavedIsKept
    <3>3. QED
      BY <1>3, <2>1, <2>2, <3>1, <3>2
  <2>3. CASE stored /\ over
    BY <1>8, <1>15, <1>16, <1>17, <2>3
  <2>4. CASE stored /\ ~over
    <3>1. n = key \/ n \notin lost
      BY <1>8, <1>17, <2>4
    <3>2. AmountOf(list, n) = saved[n]
      BY <1>15, <1>16, <2>1, <2>4, <3>1
    <3>3. QED
      BY <2>4, <3>2
  <2>5. QED
    BY <2>2, <2>3, <2>4
<1>18. SavedIsKept'
  BY <1>9, <1>11, <1>17 DEF SavedIsKept
<1>19. CardsInv'
  BY <1>1, <1>11 DEF CardsInv
<1>20. QED
  BY <1>10, <1>13, <1>14, <1>18, <1>19

(* The page before anything was saved.                                     *)
LEMMA ReceivablesStarts == ReceivablesInit => PageInv
<1> SUFFICES ASSUME ReceivablesInit PROVE PageInv
  OBVIOUS
<1>1. /\ shelf = <<>> /\ kept = [saved |-> [n \in Numbers |-> 0], count |-> 0, lost |-> {}]
      /\ book = [mounted |-> FALSE, invoices |-> <<DemoInvoice>>, summary |-> NoSummary,
                 load |-> NoLoad, modal |-> "none", editing |-> NoInvoice,
                 overtaken |-> FALSE, fresh |-> FALSE]
  BY DEF ReceivablesInit, Closed
<1>2. NoLoad \in Loads
  BY NoLoadFacts
<1>3. ReceivablesTypeOK
  <2>1. kept \in [saved : [Numbers -> Amounts \cup {0}], count : 0..MaxSaves, lost : SUBSET Numbers]
    BY <1>1, ReceivablesAssumption
  <2>2. NoInvoice \in Invoice \cup {NoInvoice}
    OBVIOUS
  <2>3. shelf \in Seq(Invoice)
    BY <1>1, EmptyFacts
  <2>4. QED
    BY <1>1, <1>2, <2>1, <2>2, <2>3, ConstantFacts DEF ReceivablesTypeOK, Loads
<1>4. /\ ToSet(<<>>) = {} /\ NoLoad.local = <<>> /\ NoLoad.data = <<>> /\ NoLoad.pc = "none"
      /\ NoLoad.count = 0
  BY NoLoadFacts
<1>5. Known = Given /\ ToSet(book.load.data) = {}
  <2>1. /\ book.invoices = <<DemoInvoice>> /\ book.modal = "none" /\ book.load = NoLoad
        /\ shelf = <<>>
    BY <1>1
  <2>2. ToSet(book.invoices) = {DemoInvoice} /\ ToSet(shelf) = {} /\ ToSet(book.load.local) = {}
    BY <1>4, <2>1, ConstantFacts
  <2>3. QED
    BY <1>4, <2>1, <2>2, GivenFacts DEF Known
<1>6. IdInv
  <2>1. kept.count = 0 /\ MaxSaves \in Nat
    BY <1>1, ReceivablesAssumption
  <2>2. \A r \in Known : r.num = DemoNumber /\ r.id \in {0, MaxSaves + 1}
    BY <1>5, GivenFacts
  <2>3. QED
    BY <1>5, <2>1, <2>2 DEF IdInv
<1>7. EditInv /\ CardsInv
  BY <1>1, <1>4 DEF EditInv, CardsInv
<1>8. SavedIsKept
  BY <1>1 DEF SavedIsKept
<1>9. QED
  BY <1>3, <1>6, <1>7, <1>8 DEF PageInv

(* Every step of the console keeps it.                                     *)
LEMMA PageInvKept == PageInv /\ [Next]_vars => PageInv'
<1> SUFFICES ASSUME PageInv, [Next]_vars PROVE PageInv'
  OBVIOUS
<1>1. CASE UNCHANGED receivables
  <2>1. shelf' = shelf /\ book' = book /\ kept' = kept
    BY <1>1 DEF receivables
  <2>2. ReceivablesTypeOK' /\ EditInv' /\ SavedIsKept' /\ CardsInv'
    BY <2>1 DEF PageInv, ReceivablesTypeOK, EditInv, SavedIsKept, CardsInv
  <2>3. IdInv'
    BY <2>1 DEF PageInv, IdInv, Known
  <2>4. QED
    BY <2>2, <2>3 DEF PageInv
<1>2. ASSUME NEW p \in Views \cup {"receivables"}, Navigate(p) PROVE PageInv'
  BY <1>2, OpenInv DEF Navigate
<1>3. CASE Invoices
  <2>1. CASE LandReceivables
    BY <2>1, LandInv
  <2>2. CASE OpenCreate \/ CloseModal \/ \E inv \in ToSet(book.invoices) : OpenEdit(inv)
    BY <2>2, ModalInv
  <2>3. ASSUME NEW num \in Numbers, NEW amount \in Amounts, NEW stored \in BOOLEAN,
               HandleSaveInvoice(num, amount, stored)
        PROVE  PageInv'
    BY <2>3, SaveInv
  <2>4. ASSUME NEW ok \in BOOLEAN, ServeReceivables(ok) PROVE PageInv'
    BY <2>4, ServeInv
  <2>5. QED
    BY <1>3, <2>1, <2>2, <2>3, <2>4 DEF Invoices, ReceivablesNext
<1>4. QED
  BY <1>1, <1>2, <1>3 DEF Next, vars, Poll, Send, LoadAnalytics, PaymentComesIn, Serve, Fail, Land

(* For any number of invoices, saves, loads and edits in any order: an     *)
(* invoice stays in the browser's list with the amount saved last for it,  *)
(* and on a page that is not overtaken, unless the browser refused that    *)
(* save or one was made from a list without the invoice                    *)
(* (handleSaveInvoice, fetchReceivables).                                  *)
THEOREM SavedInvoicesAreKept == Spec => []SavedIsKept
<1>1. Init => PageInv
  BY ReceivablesStarts DEF Init
<1>2. PageInv => SavedIsKept
  BY DEF PageInv
<1>3. QED
  BY <1>1, <1>2, PageInvKept, PTL DEF Spec

(* For any list of invoices, however long: the cards are the API's figures *)
(* for the list under them, what it keeps apart as older than 60 days      *)
(* added to the last card, and a list from the API has no number twice     *)
(* (recalcSummary, calculateAgingSummary, fetchReceivables).               *)
THEOREM CardsAddUp == Spec => []CardsMatchList
<1>1. Init => PageInv
  BY ReceivablesStarts DEF Init
<1>2. PageInv => CardsMatchList
  <2> SUFFICES ASSUME PageInv, book.summary # NoSummary PROVE CardsMatchList
    BY DEF CardsMatchList
  <2>1. book.summary = ApiCards(book.invoices)
    BY BookFacts, RecalcFacts DEF PageInv, CardsInv
  <2>2. QED
    BY <2>1 DEF PageInv, CardsInv, CardsMatchList, ApiCards
<1>3. QED
  BY <1>1, <1>2, PageInvKept, PTL DEF Spec
-----------------------------------------------------------------------------
(* The types of the views, without the page of invoices.                   *)
ViewTypes ==
  /\ at \in Views \cup {"receivables"}
  /\ shown \in Shown /\ header \in Shown
  /\ polls \in [Ops -> Seq(Call)] /\ \A op \in Ops : Len(polls[op]) <= MaxPolls
  /\ payments \in InitialPayments..(InitialPayments + MaxPayments)
  /\ faults \in 0..MaxFaults

(* The constants of the views.                                             *)
LEMMA ViewConstants ==
  /\ InitialPayments \in Nat /\ MaxPayments \in Nat /\ MaxFaults \in Nat
  /\ MaxPolls \in Nat /\ 1 <= MaxPolls
  /\ Shown \subseteq Int /\ Nothing \in Shown /\ Demo \in Shown
  /\ Nothing < InitialPayments /\ Demo < InitialPayments
  /\ Sent \in Call /\ Sent.pc = "sent" /\ <<>> \in Seq(Call)
  /\ <<Sent>> \in Seq(Call) /\ Len(<<Sent>>) = 1 /\ <<Sent>>[1] = Sent
<1>1. /\ InitialPayments \in Nat /\ MaxPayments \in Nat /\ MaxFaults \in Nat
      /\ MaxPolls \in Nat /\ 1 <= MaxPolls
  BY ViewsAssumption
<1>2. /\ Shown \subseteq Int /\ Nothing \in Shown /\ Demo \in Shown
      /\ Nothing < InitialPayments /\ Demo < InitialPayments
  BY <1>1 DEF Shown, Nothing, Demo
<1>3. Sent \in Call /\ Sent.pc = "sent"
  BY <1>2 DEF Sent, Call
<1>4. <<>> \in Seq(Call)
  OBVIOUS
<1>5. <<Sent>> \in Seq(Call) /\ Len(<<Sent>>) = 1 /\ <<Sent>>[1] = Sent
  BY <1>3
<1>6. QED
  BY <1>1, <1>2, <1>3, <1>4, <1>5

(* What a call asks for is set, or not, by the answer.                     *)
LEMMA FetchedFacts ==
  ASSUME NEW op, NEW c \in Call
  PROVE  Fetched(op, c) \in Shown /\ (Fetched(op, c) = Demo \/ (c.pc = "served" /\ Fetched(op, c) = c.data))
BY ViewConstants DEF Fetched, GetAnalyticsOverview, Call

(* Calls that another one has overtaken.                                   *)
StillUnderWay(t, s) ==
  \A j \in DOMAIN t :
    t[j].overtaken /\ \E k \in DOMAIN s : t[j].pc = s[k].pc /\ t[j].data = s[k].data

(* Taking a call out of those under way.                                   *)
LEMMA LandedCalls ==
  ASSUME NEW s \in Seq(Call), NEW i \in DOMAIN s,
         NEW t, t = Others(s, i)
  PROVE  /\ t \in Seq(Call) /\ Len(t) = Len(s) - 1 /\ Len(t) < Len(s)
         /\ StillUnderWay(t, s)
<1>1. PICK n \in Nat : n = Len(s) /\ DOMAIN s = 1..n
  OBVIOUS
<1>2. i \in 1..n /\ n - 1 \in Nat
  BY <1>1
<1> DEFINE a == SubSeq(s, 1, i - 1)
           b == SubSeq(s, i + 1, Len(s))
           r == a \o b
<1>3. a \in Seq(Call) /\ Len(a) = i - 1 /\ \A k \in 1..(i - 1) : a[k] = s[k]
  BY <1>1, <1>2
<1>4. b \in Seq(Call) /\ Len(b) = n - i /\ \A k \in 1..(n - i) : b[k] = s[i + k]
  BY <1>1, <1>2
<1>5. RemoveAt(s, i) = r
  BY DEF RemoveAt
<1> HIDE DEF a, b
<1>6. \A k \in 1..(Len(a) + Len(b)) : r[k] = IF k <= Len(a) THEN a[k] ELSE b[k - Len(a)]
  BY <1>3, <1>4, ConcatProperties
<1> HIDE DEF r
<1>7. Len(a) + Len(b) = n - 1
  BY <1>2, <1>3, <1>4
<1>8. ASSUME NEW k \in 1..(n - 1) PROVE \E l \in 1..n : r[k] = s[l]
  <2>1. r[k] = IF k <= i - 1 THEN a[k] ELSE b[k - (i - 1)]
    BY <1>3, <1>6, <1>7
  <2>2. CASE k <= i - 1
    <3>1. k \in 1..(i - 1) /\ k \in 1..n
      BY <1>2, <2>2
    <3>2. QED
      BY <1>3, <2>1, <2>2, <3>1
  <2>3. CASE ~(k <= i - 1)
    <3>1. k - (i - 1) \in 1..(n - i) /\ i + (k - (i - 1)) = k + 1 /\ k + 1 \in 1..n
      BY <1>2, <2>3
    <3>2. b[k - (i - 1)] = s[k + 1]
      BY <1>4, <3>1
    <3>3. QED
      BY <2>1, <2>3, <3>1, <3>2
  <2>4. QED
    BY <2>2, <2>3
<1>9. t = [j \in 1..(n - 1) |-> [r[j] EXCEPT !.overtaken = TRUE]]
  BY <1>1, <1>5 DEF Others
<1>10. ASSUME NEW j \in 1..(n - 1)
       PROVE  /\ t[j] \in Call /\ t[j].overtaken
              /\ \E k \in DOMAIN s : t[j].pc = s[k].pc /\ t[j].data = s[k].data
  <2>1. PICK l \in 1..n : r[j] = s[l]
    BY <1>8
  <2>2. PICK c \in Call : c = s[l]
    BY <1>1
  <2>3. t[j] = [c EXCEPT !.overtaken = TRUE]
    BY <1>9, <2>1, <2>2
  <2>4. t[j] \in Call /\ t[j].overtaken /\ t[j].pc = c.pc /\ t[j].data = c.data
    BY <2>3 DEF Call
  <2>5. QED
    BY <1>1, <2>2, <2>4
<1>11. t \in Seq(Call) /\ Len(t) = n - 1 /\ DOMAIN t = 1..(n - 1)
  <2>1. t \in [1..(n - 1) -> Call]
    BY <1>9, <1>10
  <2>2. QED
    BY <1>2, <2>1
<1>12. QED
  BY <1>1, <1>10, <1>11 DEF StillUnderWay

(* One call under way is answered or fails.                                *)
LEMMA ReplacedCall ==
  ASSUME ViewTypes, NEW op \in Ops, NEW i \in DOMAIN polls[op], NEW c \in Call,
         polls' = [polls EXCEPT ![op][i] = c]
  PROVE  /\ polls' \in [Ops -> Seq(Call)]
         /\ \A o \in Ops : Len(polls'[o]) = Len(polls[o]) /\ DOMAIN polls'[o] = DOMAIN polls[o]
         /\ polls'[op][i] = c
         /\ \A o \in Ops : \A j \in DOMAIN polls[o] :
              polls'[o][j] = polls[o][j] \/ (o = op /\ j = i)
<1>1. PICK s \in Seq(Call) : s = polls[op]
  BY DEF ViewTypes
<1>2. PICK t : t = [s EXCEPT ![i] = c]
  OBVIOUS
<1>3. PICK n \in Nat : n = Len(s) /\ DOMAIN s = 1..n /\ i \in 1..n
  BY <1>1
<1>4. t \in Seq(Call) /\ Len(t) = n /\ DOMAIN t = 1..n /\ t[i] = c
      /\ \A j \in 1..n : j # i => t[j] = s[j]
  BY <1>2, <1>3
<1>5. polls \in [Ops -> Seq(Call)] /\ polls' = [polls EXCEPT ![op] = t]
  BY <1>1, <1>2 DEF ViewTypes
<1>6. polls' \in [Ops -> Seq(Call)] /\ polls'[op] = t /\ \A o \in Ops \ {op} : polls'[o] = polls[o]
  BY <1>4, <1>5
<1>7. QED
  BY <1>1, <1>3, <1>4, <1>6

(* What the API has when it answers is at least what a view shows.         *)
CallOK(op, c) ==
  c.pc = "served" => /\ c.data <= payments
                     /\ ~c.overtaken => (IF op = "health" THEN header ELSE shown) <= c.data

(* The kinds of calls.                                                     *)
LEMMA OpFacts == Ops = {"analytics", "dashboard", "system", "health"} /\ Views \subseteq Ops
                 /\ \A op \in Ops : op \in Views \/ op = "health"
BY DEF Ops, Views, Polled

(* A call is answered or fails.                                            *)
LEMMA AnswerKeeps ==
  ASSUME ViewTypes, ViewsInv, NEW op \in Ops, NEW i \in DOMAIN polls[op],
         Serve(op, i) \/ Fail(op, i)
  PROVE  ViewTypes' /\ ViewsInv'
<1>1. PICK s \in Seq(Call) : s = polls[op] /\ i \in DOMAIN s
  BY DEF ViewTypes
<1>2. PICK old \in Call : old = polls[op][i]
  BY <1>1
<1>3. /\ payments \in Shown /\ payments \in Int /\ shown \in Int /\ header \in Int
      /\ Nothing \in Shown /\ InitialPayments <= payments
  BY ViewConstants DEF ViewTypes, Shown
<1>4. /\ at' = at /\ shown' = shown /\ header' = header /\ payments' = payments
      /\ faults' \in 0..MaxFaults
  <2>1. CASE Serve(op, i)
    BY <2>1 DEF Serve, ViewTypes
  <2>2. CASE Fail(op, i)
    <3>1. at' = at /\ shown' = shown /\ header' = header /\ payments' = payments /\ Fault
      BY <2>2 DEF Fail
    <3>2. faults' \in 0..MaxFaults
      BY <3>1, ViewsAssumption DEF Fault, ViewTypes
    <3>3. QED
      BY <3>1, <3>2
  <2>3. QED
    BY <2>1, <2>2
<1>5. PICK c \in Call : polls' = [polls EXCEPT ![op][i] = c] /\ CallOK(op, c)
  <2>1. CASE Serve(op, i)
    <3>1. PICK c : c = [old EXCEPT !.pc = "served", !.data = payments]
      OBVIOUS
    <3>2. c \in Call /\ c.data = payments
      BY <1>3, <3>1 DEF Call
    <3>3. polls' = [polls EXCEPT ![op][i] = c]
      BY <1>2, <2>1, <3>1 DEF Serve
    <3>4. CallOK(op, c)
      BY <1>3, <3>2 DEF CallOK, ViewsInv
    <3>5. QED
      BY <3>2, <3>3, <3>4
  <2>2. CASE Fail(op, i)
    <3>1. PICK c : c = [old EXCEPT !.pc = "failed", !.data = Nothing]
      OBVIOUS
    <3>2. c \in Call /\ c.pc = "failed"
      BY <1>3, <3>1 DEF Call
    <3>3. polls' = [polls EXCEPT ![op][i] = c]
      BY <1>2, <2>2, <3>1 DEF Fail
    <3>4. QED
      BY <3>2, <3>3 DEF CallOK
  <2>3. QED
    BY <2>1, <2>2
<1>6. /\ polls' \in [Ops -> Seq(Call)]
      /\ \A o \in Ops : Len(polls'[o]) = Len(polls[o]) /\ DOMAIN polls'[o] = DOMAIN polls[o]
      /\ polls'[op][i] = c
      /\ \A o \in Ops : \A j \in DOMAIN polls[o] :
           polls'[o][j] = polls[o][j] \/ (o = op /\ j = i)
  BY <1>5, ReplacedCall
<1>7. ViewTypes'
  BY <1>4, <1>6 DEF ViewTypes
<1>8. \A o \in Views \ {at'} : polls'[o] = <<>>
  <2>1. SUFFICES ASSUME NEW o \in Views \ {at} PROVE polls'[o] = <<>>
    BY <1>4
  <2>2. o \in Ops /\ polls[o] = <<>>
    BY OpFacts DEF ViewsInv
  <2>3. Len(polls'[o]) = 0 /\ polls'[o] \in Seq(Call)
    BY <1>6, <2>2
  <2>4. QED
    BY <2>3
<1>9. ASSUME NEW o \in Ops, NEW j \in DOMAIN polls'[o] PROVE CallOK(o, polls'[o][j])
  <2>1. j \in DOMAIN polls[o]
    BY <1>6
  <2>2. CallOK(o, polls[o][j])
    BY <2>1 DEF ViewsInv, CallOK
  <2>3. QED
    BY <1>5, <1>6, <2>1, <2>2
<1>10. ViewsInv'
  BY <1>3, <1>4, <1>8, <1>9 DEF ViewsInv, CallOK
<1>11. QED
  BY <1>7, <1>10

(* The calls of one kind are replaced, the others left as they are.        *)
LEMMA ReplacedCalls ==
  ASSUME ViewTypes, NEW op \in Ops, NEW s \in Seq(Call), polls' = [polls EXCEPT ![op] = s]
  PROVE  /\ polls' \in [Ops -> Seq(Call)] /\ polls'[op] = s
         /\ \A o \in Ops \ {op} : polls'[o] = polls[o]
BY DEF ViewTypes

(* A call is sent, by the timer or a button.                               *)
LEMMA SendKeeps ==
  ASSUME ViewTypes, ViewsInv, NEW op \in Ops, Send(op)
  PROVE  ViewTypes' /\ ViewsInv'
<1>1. /\ at' = at /\ shown' = shown /\ header' = header /\ payments' = payments /\ faults' = faults
      /\ op \in {at, "health"} /\ Len(polls[op]) < MaxPolls
  BY DEF Send
<1>2. PICK s \in Seq(Call), n \in Nat : s = polls[op] /\ n = Len(s) /\ DOMAIN s = 1..n
  BY DEF ViewTypes
<1>3. PICK t : t = Append(s, Sent)
  OBVIOUS
<1>4. /\ t \in Seq(Call) /\ Len(t) = n + 1 /\ DOMAIN t = 1..(n + 1) /\ t[n + 1] = Sent
      /\ \A j \in 1..n : t[j] = s[j]
  BY <1>2, <1>3, ViewConstants, AppendProperties
<1>5. polls' = [polls EXCEPT ![op] = t]
  BY <1>2, <1>3 DEF Send
<1>6. polls' \in [Ops -> Seq(Call)] /\ polls'[op] = t /\ \A o \in Ops \ {op} : polls'[o] = polls[o]
  BY <1>4, <1>5, ReplacedCalls
<1>7. ViewTypes'
  <2>1. \A o \in Ops : Len(polls'[o]) <= MaxPolls
    BY <1>1, <1>2, <1>4, <1>6, ViewConstants DEF ViewTypes
  <2>2. QED
    BY <1>1, <1>6, <2>1 DEF ViewTypes
<1>8. \A o \in Views \ {at'} : polls'[o] = <<>>
  <2>1. SUFFICES ASSUME NEW o \in Views \ {at} PROVE polls'[o] = <<>>
    BY <1>1
  <2>2. o \in Ops /\ polls[o] = <<>> /\ o # op
    BY <1>1, OpFacts DEF ViewsInv, Views
  <2>3. QED
    BY <1>6, <2>2
<1>9. ASSUME NEW o \in Ops, NEW j \in DOMAIN polls'[o] PROVE CallOK(o, polls'[o][j])
  <2>1. CASE o # op
    BY <1>6, <2>1 DEF ViewsInv, CallOK
  <2>2. CASE o = op /\ j = n + 1
    BY <1>4, <1>6, <2>2, ViewConstants DEF CallOK
  <2>3. CASE o = op /\ j # n + 1
    <3>1. j \in 1..n /\ polls'[o][j] = polls[o][j]
      BY <1>2, <1>4, <1>6, <2>3
    <3>2. QED
      BY <1>2, <2>3, <3>1 DEF ViewsInv, CallOK
  <2>4. QED
    BY <2>1, <2>2, <2>3
<1>10. ViewsInv'
  BY <1>1, <1>8, <1>9 DEF ViewsInv, CallOK
<1>11. QED
  BY <1>7, <1>10

(* An answer, or a failure, is shown.                                      *)
LEMMA LandKeeps ==
  ASSUME ViewTypes, ViewsInv, NEW op \in Ops, NEW i \in DOMAIN polls[op], Land(op, i)
  PROVE  ViewTypes' /\ ViewsInv'
<1>1. PICK s \in Seq(Call), c \in Call : s = polls[op] /\ c = s[i] /\ i \in DOMAIN s
  BY DEF ViewTypes
<1>2. PICK t : t = Others(s, i)
  OBVIOUS
<1>3. t \in Seq(Call) /\ Len(t) = Len(s) - 1 /\ StillUnderWay(t, s)
  BY <1>1, <1>2, LandedCalls
<1>4. PICK now : now = Fetched(op, c)
  OBVIOUS
<1>5. /\ polls' = [polls EXCEPT ![op] = t] /\ at' = at /\ payments' = payments /\ faults' = faults
      /\ op = "health" => header' = now /\ shown' = shown
      /\ op # "health" => shown' = now /\ header' = header
  BY <1>1, <1>2, <1>4 DEF Land
<1>6. polls' \in [Ops -> Seq(Call)] /\ polls'[op] = t /\ \A o \in Ops \ {op} : polls'[o] = polls[o]
  BY <1>3, <1>5, ReplacedCalls
<1>7. now \in Shown /\ (now = Demo \/ (c.pc = "served" /\ now = c.data))
  BY <1>4, FetchedFacts
<1>8. payments \in Int /\ InitialPayments <= payments
  BY ViewConstants DEF ViewTypes
<1>9. now <= payments
  <2>1. c.pc = "served" => c.data <= payments
    BY <1>1 DEF ViewsInv
  <2>2. Demo <= payments
    BY <1>8, ViewConstants DEF Demo
  <2>3. QED
    BY <1>7, <2>1, <2>2
<1>10. ViewTypes'
  <2>1. \A o \in Ops : Len(polls'[o]) <= MaxPolls
    <3>1. Len(s) <= MaxPolls /\ Len(s) \in Nat
      BY <1>1 DEF ViewTypes
    <3>2. Len(t) <= MaxPolls
      BY <1>3, <3>1, ViewConstants
    <3>3. QED
      BY <1>6, <3>2 DEF ViewTypes
  <2>2. shown' \in Shown /\ header' \in Shown
    BY <1>5, <1>7 DEF ViewTypes
  <2>3. QED
    BY <1>5, <1>6, <2>1, <2>2 DEF ViewTypes
<1>11. op = "health" \/ op = at
  <2>1. polls[op] # <<>>
    BY <1>1
  <2>2. QED
    BY <2>1, OpFacts DEF ViewsInv
<1>12. \A o \in Views \ {at'} : polls'[o] = <<>>
  BY <1>5, <1>6, <1>11, OpFacts DEF ViewsInv, Views
<1>13. ASSUME NEW o \in Ops, NEW j \in DOMAIN polls'[o], polls'[o][j].pc = "served"
       PROVE  /\ polls'[o][j].data <= payments
              /\ ~polls'[o][j].overtaken =>
                   (IF o = "health" THEN header' ELSE shown') <= polls'[o][j].data
  <2>1. CASE o = op
    <3>1. PICK k \in DOMAIN s : t[j].pc = s[k].pc /\ t[j].data = s[k].data
      BY <1>3, <1>6, <2>1 DEF StillUnderWay
    <3>2. s[k].pc = "served" => s[k].data <= payments
      BY <1>1 DEF ViewsInv
    <3>3. QED
      BY <1>3, <1>6, <1>13, <2>1, <3>1, <3>2 DEF StillUnderWay
  <2>2. CASE o # op
    <3>1. j \in DOMAIN polls[o] /\ polls'[o][j] = polls[o][j] /\ polls[o] # <<>>
      BY <1>6, <2>2
    <3>2. IF o = "health" THEN header' = header ELSE shown' = shown
      <4>1. CASE o = "health"
        BY <1>5, <2>2, <4>1
      <4>2. CASE o # "health"
        <5>1. o = at
          BY <3>1, <4>2, OpFacts DEF ViewsInv
        <5>2. op = "health"
          BY <1>11, <2>2, <5>1
        <5>3. QED
          BY <1>5, <4>2, <5>2
      <4>3. QED
        BY <4>1, <4>2
    <3>3. QED
      BY <1>13, <3>1, <3>2 DEF ViewsInv
  <2>3. QED
    BY <2>1, <2>2
<1>14. header' <= payments' /\ shown' <= payments'
  BY <1>5, <1>9 DEF ViewsInv
<1>15. ViewsInv'
  BY <1>5, <1>12, <1>13, <1>14 DEF ViewsInv
<1>16. QED
  BY <1>10, <1>15

(* Another page is opened.                                                 *)
LEMMA NavigateKeeps ==
  ASSUME ViewTypes, ViewsInv, NEW p \in Views \cup {"receivables"}, Navigate(p)
  PROVE  ViewTypes' /\ ViewsInv'
<1>1. /\ at' = p /\ header' = header /\ payments' = payments /\ faults' = faults
      /\ shown' \in {Demo, Nothing}
  BY DEF Navigate
<1>2. PICK one \in Seq(Call) : one = <<Sent>> /\ Len(one) = 1 /\ one[1] = Sent
  BY ViewConstants
<1>3. PICK none \in Seq(Call) : none = <<>> /\ Len(none) = 0
  BY ViewConstants
<1>4. polls' = [op \in Ops |-> CASE op = p -> one [] op = "health" -> polls[op] [] OTHER -> none]
  BY <1>2, <1>3 DEF Navigate
<1>5. p # "health"
  BY DEF Views
<1>6. ASSUME NEW op \in Ops
      PROVE  /\ op = p => polls'[op] = one
             /\ op = "health" => polls'[op] = polls[op]
             /\ op # p /\ op # "health" => polls'[op] = none
  BY <1>4, <1>5
<1>7. polls' \in [Ops -> Seq(Call)]
  <2>1. \A op \in Ops : polls'[op] \in Seq(Call)
    BY <1>6 DEF ViewTypes
  <2>2. QED
    BY <1>4, <2>1
<1>8. payments \in Int /\ InitialPayments <= payments
  BY ViewConstants DEF ViewTypes
<1>9. ViewTypes'
  <2>1. \A op \in Ops : Len(polls'[op]) <= MaxPolls
    <3>1. SUFFICES ASSUME NEW op \in Ops PROVE Len(polls'[op]) <= MaxPolls
      OBVIOUS
    <3>2. CASE op = p
      BY <1>2, <1>6, <3>2, ViewConstants
    <3>3. CASE op = "health"
      BY <1>6, <3>3 DEF ViewTypes
    <3>4. CASE op # p /\ op # "health"
      BY <1>3, <1>6, <3>4, ViewConstants
    <3>5. QED
      BY <3>2, <3>3, <3>4
  <2>2. shown' \in Shown
    BY <1>1, ViewConstants
  <2>3. QED
    BY <1>1, <1>7, <2>1, <2>2 DEF ViewTypes
<1>10. \A o \in Views \ {at'} : polls'[o] = <<>>
  BY <1>1, <1>3, <1>6, OpFacts DEF Views
<1>11. ASSUME NEW o \in Ops, NEW j \in DOMAIN polls'[o], polls'[o][j].pc = "served"
       PROVE  /\ polls'[o][j].data <= payments
              /\ ~polls'[o][j].overtaken =>
                   (IF o = "health" THEN header' ELSE shown') <= polls'[o][j].data
  <2>1. CASE o = "health"
    BY <1>1, <1>6, <1>11, <2>1 DEF ViewsInv
  <2>2. CASE o = p
    <3>1. j = 1 /\ polls'[o][j] = Sent
      BY <1>2, <1>6, <2>2
    <3>2. QED
      BY <1>11, <3>1, ViewConstants
  <2>3. CASE o # p /\ o # "health"
    BY <1>3, <1>6, <1>11, <2>3
  <2>4. QED
    BY <2>1, <2>2, <2>3
<1>12. header' <= payments' /\ shown' <= payments'
  <2>1. Demo <= payments /\ Nothing <= payments
    BY <1>8, ViewConstants DEF Demo, Nothing
  <2>2. QED
    BY <1>1, <2>1 DEF ViewsInv
<1>13. ViewsInv'
  BY <1>1, <1>10, <1>11, <1>12 DEF ViewsInv
<1>14. QED
  BY <1>9, <1>13

(* The tab as it comes from the login page.                                *)
LEMMA ViewsStart == Init => ViewTypes /\ ViewsInv
<1> SUFFICES ASSUME Init PROVE ViewTypes /\ ViewsInv
  OBVIOUS
<1>1. PICK one \in Seq(Call) : one = <<Sent>> /\ Len(one) = 1 /\ one[1] = Sent
  BY ViewConstants
<1>2. PICK none \in Seq(Call) : none = <<>> /\ Len(none) = 0
  BY ViewConstants
<1>3. polls = [op \in Ops |-> IF op \in {"analytics", "health"} THEN one ELSE none]
  BY <1>1, <1>2 DEF Init
<1>4. at = "analytics" /\ shown = Demo /\ header = Nothing /\ payments = InitialPayments /\ faults = 0
  BY DEF Init
<1>5. \A op \in Ops : polls[op] = one \/ polls[op] = none
  BY <1>3
<1>6. ViewTypes
  <2>1. polls \in [Ops -> Seq(Call)]
    BY <1>3
  <2>2. \A op \in Ops : Len(polls[op]) <= MaxPolls
    <3>1. Len(one) <= MaxPolls
      BY <1>1, ViewConstants
    <3>2. Len(none) <= MaxPolls
      BY <1>2, ViewConstants
    <3>3. QED
      BY <1>5, <3>1, <3>2
  <2>3. payments \in InitialPayments..(InitialPayments + MaxPayments) /\ faults \in 0..MaxFaults
    BY <1>4, ViewConstants
  <2>4. at \in Views \cup {"receivables"}
    BY <1>4 DEF Views
  <2>5. QED
    BY <1>4, <2>1, <2>2, <2>3, <2>4, ViewConstants DEF ViewTypes
<1>7. \A op \in Views \ {at} : polls[op] = <<>>
  BY <1>2, <1>3, <1>4, OpFacts DEF Views
<1>8. header <= payments /\ shown <= payments
  BY <1>4, ViewConstants DEF Demo, Nothing
<1>9. ASSUME NEW op \in Ops, NEW i \in DOMAIN polls[op] PROVE polls[op][i].pc # "served"
  <2>1. polls[op] = one /\ i = 1
    BY <1>1, <1>2, <1>5
  <2>2. QED
    BY <1>1, <2>1, ViewConstants
<1>10. ViewsInv
  BY <1>7, <1>8, <1>9 DEF ViewsInv
<1>11. QED
  BY <1>6, <1>10

(* Every step keeps the views' invariant.                                  *)
LEMMA ViewsKept == ViewTypes /\ ViewsInv /\ [Next]_vars => ViewTypes' /\ ViewsInv'
<1> SUFFICES ASSUME ViewTypes, ViewsInv, [Next]_vars PROVE ViewTypes' /\ ViewsInv'
  OBVIOUS
<1>1. ASSUME NEW p \in Views \cup {"receivables"}, Navigate(p) PROVE ViewTypes' /\ ViewsInv'
  BY <1>1, NavigateKeeps
<1>2. ASSUME NEW op \in Ops, Send(op) PROVE ViewTypes' /\ ViewsInv'
  BY <1>2, SendKeeps
<1>3. CASE PaymentComesIn
  <2>1. /\ at' = at /\ shown' = shown /\ header' = header /\ polls' = polls /\ faults' = faults
        /\ payments' = payments + 1 /\ payments < InitialPayments + MaxPayments
    BY <1>3 DEF PaymentComesIn
  <2>2. payments \in Int /\ shown \in Int /\ header \in Int
    BY ViewConstants DEF ViewTypes
  <2>3. ViewTypes'
    BY <2>1, ViewConstants DEF ViewTypes
  <2>4. header <= payments' /\ shown <= payments'
    BY <2>1, <2>2 DEF ViewsInv
  <2>5. ASSUME NEW op \in Ops, NEW i \in DOMAIN polls[op], polls[op][i].pc = "served"
        PROVE  polls[op][i].data <= payments'
    <3>1. polls[op][i] \in Call
      BY DEF ViewTypes
    <3>2. polls[op][i].data \in Int
      BY <3>1, ViewConstants DEF Call
    <3>3. polls[op][i].data <= payments
      BY <2>5 DEF ViewsInv
    <3>4. QED
      BY <2>1, <2>2, <3>2, <3>3
  <2>6. ViewsInv'
    BY <2>1, <2>4, <2>5 DEF ViewsInv
  <2>7. QED
    BY <2>3, <2>6
<1>4. ASSUME NEW op \in Ops, NEW i \in DOMAIN polls[op], Serve(op, i) \/ Fail(op, i)
      PROVE  ViewTypes' /\ ViewsInv'
  BY <1>4, AnswerKeeps
<1>5. ASSUME NEW op \in Ops, NEW i \in DOMAIN polls[op], Land(op, i)
      PROVE  ViewTypes' /\ ViewsInv'
  BY <1>5, LandKeeps
<1>6. CASE Invoices
  <2>1. /\ at' = at /\ shown' = shown /\ header' = header /\ polls' = polls /\ payments' = payments
        /\ faults' = faults \/ Fault
    BY <1>6 DEF Invoices, views
  <2>2. faults' \in 0..MaxFaults
    BY <2>1, ViewConstants DEF ViewTypes, Fault
  <2>3. QED
    BY <2>1, <2>2 DEF ViewTypes, ViewsInv
<1>7. CASE UNCHANGED vars
  BY <1>7 DEF vars, views, ViewTypes, ViewsInv
<1>8. Polled \subseteq Ops /\ "analytics" \in Ops
  BY DEF Ops, Polled, Views
<1>9. QED
  BY <1>1, <1>2, <1>3, <1>4, <1>5, <1>6, <1>7, <1>8 DEF Next, Poll, LoadAnalytics

(* The state of the tab and of the receivables page has its type.          *)
THEOREM ViewsTyped == Spec => []TypeOK
<1>1. Init => PageInv /\ ViewTypes /\ ViewsInv
  BY ReceivablesStarts, ViewsStart DEF Init
<1>2. PageInv /\ ViewTypes => TypeOK
  BY DEF PageInv, ViewTypes, TypeOK
<1>3. QED
  BY <1>1, <1>2, PageInvKept, ViewsKept, PTL DEF Spec

(* For any number of calls under way, payments and failures: when the      *)
(* Header or a page shows an older state of the API than before, it shows  *)
(* the answer to a call that another one of its kind overtook (checkHealth,*)
(* fetchData, loadSystemInfo, loadAnalytics).                              *)
THEOREM OnlyOvertakenGoBack == Spec => ViewsGoForward
<1> DEFINE Forward ==
      /\ header' \in InitialPayments..(header - 1) => OvertakenLands("health", header')
      /\ at' = at /\ shown' \in InitialPayments..(shown - 1) => OvertakenLands(at, shown')
<1>1. ViewTypes /\ ViewsInv /\ [Next]_vars => [Forward]_vars
  <2> SUFFICES ASSUME ViewTypes, ViewsInv, Next PROVE Forward
    BY DEF vars
  <2>1. header \in Int /\ shown \in Int /\ InitialPayments \in Nat
    BY ViewConstants DEF ViewTypes
  <2>2. header \notin InitialPayments..(header - 1) /\ shown \notin InitialPayments..(shown - 1)
    BY <2>1
  <2>3. CASE header' = header /\ (shown' = shown \/ at' # at)
    BY <2>2, <2>3
  <2>4. ASSUME NEW op \in Ops, NEW i \in DOMAIN polls[op], Land(op, i) PROVE Forward
    <3>1. PICK s \in Seq(Call), c \in Call : s = polls[op] /\ c = s[i] /\ i \in DOMAIN s
      BY DEF ViewTypes
    <3>2. PICK t : t = Others(s, i)
      OBVIOUS
    <3>3. t \in Seq(Call) /\ Len(t) < Len(s)
      BY <3>1, <3>2, LandedCalls
    <3>4. PICK now : now = Fetched(op, c)
      OBVIOUS
    <3>5. /\ polls' = [polls EXCEPT ![op] = t] /\ at' = at
          /\ op = "health" => header' = now /\ shown' = shown
          /\ op # "health" => shown' = now /\ header' = header
      BY <2>4, <3>1, <3>2, <3>4 DEF Land
    <3>6. polls'[op] = t
      BY <3>3, <3>5, ReplacedCalls
    <3>7. op # "health" => op = at
      <4>1. polls[op] # <<>>
        BY <3>1
      <4>2. QED
        BY <4>1, OpFacts DEF ViewsInv
    <3>8. ASSUME now \in InitialPayments..((IF op = "health" THEN header ELSE shown) - 1)
          PROVE  OvertakenLands(op, now)
      <4>1. PICK was \in Int : was = IF op = "health" THEN header ELSE shown
        BY <2>1
      <4>2. InitialPayments <= now /\ now < was /\ now \in Int
        BY <2>1, <3>8, <4>1
      <4>3. now # Demo
        BY <4>2, ViewConstants DEF Demo
      <4>4. c.pc = "served" /\ now = c.data
        BY <3>4, <4>3, FetchedFacts
      <4>5. ~c.overtaken => was <= c.data
        BY <3>1, <4>1, <4>4 DEF ViewsInv
      <4>6. c.overtaken
        BY <4>2, <4>4, <4>5
      <4>7. QED
        BY <3>1, <3>3, <3>6, <4>4, <4>6 DEF OvertakenLands
    <3>9. CASE op = "health"
      BY <2>2, <3>5, <3>8, <3>9
    <3>10. CASE op # "health"
      BY <2>2, <3>5, <3>7, <3>8, <3>10
    <3>11. QED
      BY <3>9, <3>10
  <2>5. QED
    BY <2>3, <2>4 DEF Next, Navigate, Poll, Send, LoadAnalytics, PaymentComesIn, Serve, Fail, Invoices, views
<1>2. QED
  BY <1>1, ViewsStart, ViewsKept, PTL DEF Spec, ViewsGoForward
=============================================================================
