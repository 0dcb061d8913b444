------------------------- MODULE WebSettings_proofs -------------------------
(***************************************************************************)
(* Theorems about the settings. First what sorting and filtering do to a   *)
(* list of any length, then the drafts and the server.                     *)
(***************************************************************************)
EXTENDS WebSettings, FiniteSetTheorems, SequenceTheorems, TLAPS

-----------------------------------------------------------------------------
(* Places in an order.                                                     *)

Orders(order, I) ==
  /\ \A i, j \in I : <<i, j>> \in order \/ <<j, i>> \in order
  /\ \A i, j \in I : <<i, j>> \in order /\ <<j, i>> \in order => i = j
  /\ \A i, j, k \in I : <<i, j>> \in order /\ <<j, k>> \in order => <<i, k>> \in order

(* Ranks are numbers from 1, of the same order, and all different.         *)
LEMMA RankOrder ==
  ASSUME NEW I, IsFiniteSet(I), NEW order, Orders(order, I)
  PROVE  /\ Cardinality(I) \in Nat
         /\ \A i \in I : Rank(i, I, order) \in 1 .. Cardinality(I)
         /\ \A i, j \in I : <<i, j>> \in order <=> Rank(i, I, order) <= Rank(j, I, order)
         /\ \A i, j \in I : Rank(i, I, order) = Rank(j, I, order) => i = j
<1> DEFINE Below(i) == {j \in I : <<j, i>> \in order}
<1>1. \A i \in I : Rank(i, I, order) = Cardinality(Below(i))
  BY DEF Rank
<1>2. Cardinality(I) \in Nat
  BY FS_CardinalityType
<1>3. ASSUME NEW i \in I
      PROVE  /\ IsFiniteSet(Below(i)) /\ Cardinality(Below(i)) \in 1 .. Cardinality(I)
             /\ i \in Below(i)
  <2>1. Below(i) \in SUBSET I /\ i \in Below(i)
    BY DEF Orders
  <2> HIDE DEF Below
  <2>2. IsFiniteSet(Below(i)) /\ Cardinality(Below(i)) <= Cardinality(I)
    BY <2>1, FS_Subset
  <2>3. Cardinality(Below(i)) \in Nat /\ Cardinality(Below(i)) # 0
    BY <2>1, <2>2, FS_CardinalityType, FS_EmptySet
  <2> QED
    BY <1>2, <2>1, <2>2, <2>3
<1>4. ASSUME NEW i \in I, NEW j \in I, <<i, j>> \in order
      PROVE  Cardinality(Below(i)) <= Cardinality(Below(j))
  <2>1. Below(i) \in SUBSET Below(j)
    BY <1>4 DEF Orders
  <2> QED
    BY <1>3, <2>1, FS_Subset
<1>5. ASSUME NEW i \in I, NEW j \in I, <<i, j>> \in order, i # j
      PROVE  Cardinality(Below(i)) # Cardinality(Below(j))
  <2>1. Below(i) \in SUBSET Below(j) /\ j \notin Below(i) /\ j \in Below(j)
    BY <1>3, <1>5 DEF Orders
  <2>2. Below(i) # Below(j)
    BY <2>1
  <2> QED
    BY <1>3, <2>1, <2>2, FS_Subset
<1>6. \A i, j \in I : <<i, j>> \in order \/ <<j, i>> \in order
  BY DEF Orders
<1> HIDE DEF Below
<1>7. ASSUME NEW i \in I, NEW j \in I
      PROVE  /\ <<i, j>> \in order <=> Cardinality(Below(i)) <= Cardinality(Below(j))
             /\ Cardinality(Below(i)) = Cardinality(Below(j)) => i = j
  <2>1. Cardinality(Below(i)) \in Int /\ Cardinality(Below(j)) \in Int
    BY <1>2, <1>3
  <2>2. CASE i = j
    BY <1>6, <2>1, <2>2
  <2>3. CASE i # j /\ <<i, j>> \in order
    <3>1. Cardinality(Below(i)) <= Cardinality(Below(j)) /\ Cardinality(Below(i)) # Cardinality(Below(j))
      BY <1>4, <1>5, <2>3
    <3> QED
      BY <2>1, <2>3, <3>1
  <2>4. CASE i # j /\ <<i, j>> \notin order
    <3>1. <<j, i>> \in order
      BY <1>6, <2>4
    <3>2. Cardinality(Below(j)) <= Cardinality(Below(i)) /\ Cardinality(Below(j)) # Cardinality(Below(i))
      BY <1>4, <1>5, <2>4, <3>1
    <3> QED
      BY <2>1, <2>4, <3>2
  <2> QED
    BY <2>2, <2>3, <2>4
<1> QED
  BY <1>1, <1>2, <1>3, <1>7

(* Every number up to the number of places is the rank of one.             *)
LEMMA RankReached ==
  ASSUME NEW I, IsFiniteSet(I), NEW order, Orders(order, I), NEW k \in 1 .. Cardinality(I)
  PROVE  \E i \in I : Rank(i, I, order) = k
<1> DEFINE n == Cardinality(I)
           f == [i \in I |-> Rank(i, I, order)]
<1>1. n \in Nat /\ IsFiniteSet(1 .. n) /\ Cardinality(1 .. n) = n
  BY RankOrder, FS_Interval
<1>2. f \in Injection(I, 1 .. n)
  <2>1. /\ \A i \in I : Rank(i, I, order) \in 1 .. n
        /\ \A i, j \in I : Rank(i, I, order) = Rank(j, I, order) => i = j
    BY RankOrder
  <2> HIDE DEF n
  <2>2. f \in [I -> 1 .. n]
    BY <2>1
  <2>3. \A i \in I : f[i] = Rank(i, I, order)
    OBVIOUS
  <2> HIDE DEF f
  <2>4. \A i, j \in I : f[i] = f[j] => i = j
    BY <2>1, <2>3
  <2> QED
    BY <2>2, <2>4 DEF Injection, IsInjective
<1> HIDE DEF f, n
<1>3. f \in Surjection(I, 1 .. n)
  BY <1>1, <1>2, FS_Injection DEF n
<1> QED
  BY <1>3 DEF Surjection, f, n

(* An arranged list has one element for each place, that of rank k at k.   *)
LEMMA ArrangedElements ==
  ASSUME NEW I, IsFiniteSet(I), NEW order, Orders(order, I), NEW s
  PROVE  /\ Cardinality(I) \in Nat
         /\ DOMAIN Arranged(s, I, order) = 1 .. Cardinality(I)
         /\ \A i \in I : Arranged(s, I, order)[Rank(i, I, order)] = s[i]
         /\ \A k \in 1 .. Cardinality(I) : \E i \in I :
              Rank(i, I, order) = k /\ Arranged(s, I, order)[k] = s[i]
<1>1. /\ Cardinality(I) \in Nat
      /\ \A i \in I : Rank(i, I, order) \in 1 .. Cardinality(I)
      /\ \A i, j \in I : Rank(i, I, order) = Rank(j, I, order) => i = j
  BY RankOrder
<1>2. \A i \in I : (CHOOSE j \in I : Rank(j, I, order) = Rank(i, I, order)) = i
  BY <1>1
<1>3. \A i \in I : Arranged(s, I, order)[Rank(i, I, order)] = s[i]
  BY <1>1, <1>2 DEF Arranged
<1>4. ASSUME NEW k \in 1 .. Cardinality(I)
      PROVE  \E i \in I : Rank(i, I, order) = k /\ Arranged(s, I, order)[k] = s[i]
  <2> PICK i \in I : Rank(i, I, order) = k
    BY RankReached
  <2> QED
    BY <1>3
<1> QED
  BY <1>1, <1>3, <1>4 DEF Arranged

LEMMA ArrangedTyped ==
  ASSUME NEW S, NEW s \in Seq(S), NEW I \in SUBSET (DOMAIN s), NEW order, Orders(order, I)
  PROVE  /\ IsFiniteSet(I) /\ Cardinality(I) \in Nat
         /\ Arranged(s, I, order) \in Seq(S)
         /\ Len(Arranged(s, I, order)) = Cardinality(I)
         /\ Range(Arranged(s, I, order)) = {s[i] : i \in I}
<1>1. DOMAIN s = 1 .. Len(s) /\ Len(s) \in Nat /\ \A i \in DOMAIN s : s[i] \in S
  BY LenProperties
<1>2. IsFiniteSet(I)
  <2>1. IsFiniteSet(1 .. Len(s)) /\ I \in SUBSET (1 .. Len(s))
    BY <1>1, FS_Interval
  <2> QED
    BY <2>1, FS_Subset
<1> DEFINE a == Arranged(s, I, order)
<1>3. /\ Cardinality(I) \in Nat /\ DOMAIN a = 1 .. Cardinality(I)
      /\ \A i \in I : a[Rank(i, I, order)] = s[i]
      /\ \A k \in 1 .. Cardinality(I) : \E i \in I : Rank(i, I, order) = k /\ a[k] = s[i]
  BY <1>2, ArrangedElements
<1>4. \A i \in I : Rank(i, I, order) \in 1 .. Cardinality(I)
  BY <1>2, RankOrder
<1> DEFINE g(k) == s[CHOOSE i \in I : Rank(i, I, order) = k]
<1>5. a = [k \in 1 .. Cardinality(I) |-> g(k)]
  BY DEF Arranged
<1> HIDE DEF a, g
<1>6. \A k \in 1 .. Cardinality(I) : a[k] \in S
  BY <1>1, <1>3
<1>7. a \in [1 .. Cardinality(I) -> S]
  <2>1. \A k \in 1 .. Cardinality(I) : g(k) \in S
    BY <1>5, <1>6
  <2> QED
    BY <1>5, <2>1
<1>8. a \in Seq(S)
  BY <1>3, <1>7, SeqDef
<1>9. Len(a) = Cardinality(I)
  BY <1>3, <1>8, LenProperties
<1>10. Range(a) = {s[i] : i \in I}
  <2>1. Range(a) = {a[k] : k \in 1 .. Cardinality(I)}
    BY <1>3 DEF Range
  <2>2. \A k \in 1 .. Cardinality(I) : a[k] \in {s[i] : i \in I}
    BY <1>3
  <2>3. \A i \in I : s[i] \in {a[k] : k \in 1 .. Cardinality(I)}
    BY <1>3, <1>4
  <2> QED
    BY <2>1, <2>2, <2>3
<1> QED
  BY <1>2, <1>3, <1>8, <1>9, <1>10 DEF a

(* By one number, then by another, then by place.                          *)
LEMMA NumbersOrder ==
  ASSUME NEW I \in SUBSET Int, NEW f, NEW h, NEW order,
         \A i \in I : f[i] \in Int /\ h[i] \in Int,
         \A i, j \in I : <<i, j>> \in order <=>
           \/ f[i] < f[j]
           \/ f[i] = f[j] /\ h[i] < h[j]
           \/ f[i] = f[j] /\ h[i] = h[j] /\ i <= j
  PROVE  Orders(order, I)
<1>1. ASSUME NEW i \in I, NEW j \in I, <<i, j>> \notin order
      PROVE  <<j, i>> \in order
  <2>1. i \in Int /\ j \in Int /\ f[i] \in Int /\ f[j] \in Int /\ h[i] \in Int /\ h[j] \in Int
    OBVIOUS
  <2>2. /\ ~(f[i] < f[j])
        /\ ~(f[i] = f[j] /\ h[i] < h[j])
        /\ ~(f[i] = f[j] /\ h[i] = h[j] /\ i <= j)
    BY <1>1
  <2>3. \/ f[j] < f[i]
        \/ f[j] = f[i] /\ h[j] < h[i]
        \/ f[j] = f[i] /\ h[j] = h[i] /\ j <= i
    BY <2>1, <2>2
  <2> QED
    BY <2>3
<1>2. ASSUME NEW i \in I, NEW j \in I, <<i, j>> \in order, <<j, i>> \in order
      PROVE  i = j
  <2>1. i \in Int /\ j \in Int /\ f[i] \in Int /\ f[j] \in Int /\ h[i] \in Int /\ h[j] \in Int
    OBVIOUS
  <2>2. \/ f[i] < f[j]
        \/ f[i] = f[j] /\ h[i] < h[j]
        \/ f[i] = f[j] /\ h[i] = h[j] /\ i <= j
    BY <1>2
  <2>3. \/ f[j] < f[i]
        \/ f[j] = f[i] /\ h[j] < h[i]
        \/ f[j] = f[i] /\ h[j] = h[i] /\ j <= i
    BY <1>2
  <2> QED
    BY <2>1, <2>2, <2>3
<1>3. ASSUME NEW i \in I, NEW j \in I, NEW k \in I, <<i, j>> \in order, <<j, k>> \in order
      PROVE  <<i, k>> \in order
  <2>1. /\ i \in Int /\ j \in Int /\ k \in Int
        /\ f[i] \in Int /\ f[j] \in Int /\ f[k] \in Int
        /\ h[i] \in Int /\ h[j] \in Int /\ h[k] \in Int
    OBVIOUS
  <2>2. \/ f[i] < f[j]
        \/ f[i] = f[j] /\ h[i] < h[j]
        \/ f[i] = f[j] /\ h[i] = h[j] /\ i <= j
    BY <1>3
  <2>3. \/ f[j] < f[k]
        \/ f[j] = f[k] /\ h[j] < h[k]
        \/ f[j] = f[k] /\ h[j] = h[k] /\ j <= k
    BY <1>3
  <2>4. \/ f[i] < f[k]
        \/ f[i] = f[k] /\ h[i] < h[k]
        \/ f[i] = f[k] /\ h[i] = h[k] /\ i <= k
    BY <2>1, <2>2, <2>3
  <2> QED
    BY <2>4
<1> QED
  BY <1>1, <1>2, <1>3 DEF Orders

-----------------------------------------------------------------------------
(* Filtering and sorting.                                                  *)

PlaceOrder(I) == {q \in I \X I : q[1] <= q[2]}

LEMMA PlacesOrder ==
  ASSUME NEW I \in SUBSET Int
  PROVE  /\ Orders(PlaceOrder(I), I)
         /\ \A i, j \in I : <<i, j>> \in PlaceOrder(I) <=> i <= j
<1>1. \A i, j \in I : <<i, j>> \in PlaceOrder(I) <=> i <= j
  BY DEF PlaceOrder
<1> DEFINE f == [i \in I |-> 0]
<1>2. \A i \in I : f[i] = 0
  OBVIOUS
<1> HIDE DEF f
<1>3. Orders(PlaceOrder(I), I)
  <2>1. \A i \in I : f[i] \in Int
    BY <1>2
  <2>2. ASSUME NEW i \in I, NEW j \in I
        PROVE  <<i, j>> \in PlaceOrder(I) <=>
                 \/ f[i] < f[j]
                 \/ f[i] = f[j] /\ f[i] < f[j]
                 \/ f[i] = f[j] /\ f[i] = f[j] /\ i <= j
    <3>1. f[i] = 0 /\ f[j] = 0
      BY <1>2
    <3> QED
      BY <1>1, <3>1
  <2> QED
    BY <2>1, <2>2, NumbersOrder
<1> QED
  BY <1>1, <1>3

LEMMA FilteredTyped ==
  ASSUME NEW S, NEW s \in Seq(S), NEW I \in SUBSET (DOMAIN s)
  PROVE  /\ Filtered(s, I) = Arranged(s, I, PlaceOrder(I)) /\ Orders(PlaceOrder(I), I)
         /\ Filtered(s, I) \in Seq(S) /\ Range(Filtered(s, I)) = {s[i] : i \in I}
<1>1. DOMAIN s = 1 .. Len(s) /\ Len(s) \in Nat
  BY LenProperties
<1>2. I \in SUBSET Int
  BY <1>1
<1>3. Orders(PlaceOrder(I), I)
  BY <1>2, PlacesOrder
<1>4. Filtered(s, I) = Arranged(s, I, PlaceOrder(I))
  BY DEF Filtered, PlaceOrder
<1>5. /\ Arranged(s, I, PlaceOrder(I)) \in Seq(S)
      /\ Range(Arranged(s, I, PlaceOrder(I))) = {s[i] : i \in I}
  BY <1>3, ArrangedTyped
<1> QED
  BY <1>3, <1>4, <1>5

(* The order of the nodes of a list by disk and name.                      *)
PayloadOrder(s) ==
  {q \in (DOMAIN s) \X (DOMAIN s) :
     \/ ByGroupAndName(s[q[1]], s[q[2]])
     \/ ~ByGroupAndName(s[q[2]], s[q[1]]) /\ q[1] <= q[2]}

LEMMA NodesHaveNumbers ==
  ASSUME NEW s \in Seq(Nodes), NEW i \in DOMAIN s
  PROVE  /\ i \in Int /\ s[i] \in Nodes /\ s[i].group \in GroupIds
         /\ GroupName[s[i].group] \in Int /\ s[i].name \in Int
<1>1. DOMAIN s = 1 .. Len(s) /\ Len(s) \in Nat /\ s[i] \in Nodes
  BY LenProperties
<1>2. s[i].group \in GroupIds /\ s[i].name \in Nat
  BY <1>1, NamesAssumption DEF Nodes
<1> QED
  BY <1>1, <1>2, GroupAssumption

LEMMA PayloadOrders ==
  ASSUME NEW s \in Seq(Nodes)
  PROVE  Orders(PayloadOrder(s), DOMAIN s)
<1> DEFINE I == DOMAIN s
           f == [i \in I |-> GroupName[s[i].group]]
           h == [i \in I |-> s[i].name]
           order == PayloadOrder(s)
<1>1. \A i \in I : /\ i \in Int /\ f[i] \in Int /\ h[i] \in Int
                   /\ f[i] = GroupName[s[i].group] /\ h[i] = s[i].name
  BY NodesHaveNumbers
<1>2. \A i, j \in I : <<i, j>> \in order <=>
        \/ ByGroupAndName(s[i], s[j])
        \/ ~ByGroupAndName(s[j], s[i]) /\ i <= j
  BY DEF PayloadOrder
<1> HIDE DEF f, h, order, I
<1>3. ASSUME NEW i \in I, NEW j \in I
      PROVE  <<i, j>> \in order <=>
               \/ f[i] < f[j]
               \/ f[i] = f[j] /\ h[i] < h[j]
               \/ f[i] = f[j] /\ h[i] = h[j] /\ i <= j
  <2>1. /\ i \in Int /\ f[i] \in Int /\ h[i] \in Int
        /\ j \in Int /\ f[j] \in Int /\ h[j] \in Int
    BY <1>1
  <2>2. /\ ByGroupAndName(s[i], s[j]) <=> f[i] < f[j] \/ (f[i] = f[j] /\ h[i] < h[j])
        /\ ByGroupAndName(s[j], s[i]) <=> f[j] < f[i] \/ (f[j] = f[i] /\ h[j] < h[i])
    BY <1>1 DEF ByGroupAndName
  <2> QED
    BY <1>2, <2>1, <2>2
<1>4. I \in SUBSET Int
  BY <1>1
<1>5. Orders(order, I)
  BY <1>1, <1>3, <1>4, NumbersOrder
<1> QED
  BY <1>5 DEF order, I

(* Sorting changes the order of the nodes and nothing else.                *)
LEMMA SortedNodes ==
  ASSUME NEW s \in Seq(Nodes)
  PROVE  /\ Sorted(s, ByGroupAndName) = Arranged(s, DOMAIN s, PayloadOrder(s))
         /\ Sorted(s, ByGroupAndName) \in Seq(Nodes)
         /\ Range(Sorted(s, ByGroupAndName)) = Range(s)
<1>1. Sorted(s, ByGroupAndName) = Arranged(s, DOMAIN s, PayloadOrder(s))
  BY DEF Sorted, PayloadOrder
<1>2. /\ Arranged(s, DOMAIN s, PayloadOrder(s)) \in Seq(Nodes)
      /\ Range(Arranged(s, DOMAIN s, PayloadOrder(s))) = {s[i] : i \in DOMAIN s}
  BY PayloadOrders, ArrangedTyped
<1> QED
  BY <1>1, <1>2 DEF Range

-----------------------------------------------------------------------------
(* The invariant.                                                          *)

(* Every node is on a disk and every rule has its target, or none.         *)
Consistent(d) ==
  /\ \A i \in DOMAIN d.nodes : d.nodes[i].group \in GroupsOf(d)
  /\ \A r \in DOMAIN d.rules :
       d.rules[r].target \in Candidates(d, d.rules[r].type) \cup {NoTarget}

(* What the server stores and sends.                                       *)
Good(d) == Consistent(d) /\ d.zone # ""

(* The rules that are not marked are as they were got, in the zone that    *)
(* was got.                                                                *)
Marked(d, got, marked) ==
  \A r \in (DOMAIN d.rules) \ marked : /\ r \in DOMAIN got.rules
                                       /\ d.rules[r] = got.rules[r]
                                       /\ d.zone = got.zone

PageInv(d, got, marked, shown) ==
  /\ Consistent(d) /\ Good(got) /\ Marked(d, got, marked)
  /\ shown \in GroupsOf(d) \cup {NoGroup}

(* A checked draft is one the server may store.                            *)
CallInv(call) ==
  /\ call.sent.zone # "" /\ Good(call.answer)
  /\ call.phase = "checked" => WellFormed(call.sent)

IInv ==
  /\ TypeOK /\ Good(server)
  /\ \A c \in Calls : CallInv(calls[c])
  /\ \A p \in Pages : PageInv(draft[p], received[p], dirty[p], selected[p])

-----------------------------------------------------------------------------
(* Lists, tables and drafts.                                               *)

LEMMA RangeTyped ==
  ASSUME NEW S, NEW s \in Seq(S)
  PROVE  /\ \A x \in Range(s) : x \in S
         /\ \A i \in DOMAIN s : s[i] \in S /\ s[i] \in Range(s)
         /\ \A x : First(s, x) \in Range(s) \cup {x}
<1>1. DOMAIN s = 1 .. Len(s) /\ Len(s) \in Nat /\ \A i \in DOMAIN s : s[i] \in S
  BY LenProperties
<1>2. s # <<>> => 1 \in DOMAIN s
  BY <1>1
<1> QED
  BY <1>1, <1>2 DEF Range, First

LEMMA AppendRange ==
  ASSUME NEW S, NEW s \in Seq(S), NEW e \in S
  PROVE  Append(s, e) \in Seq(S) /\ Range(Append(s, e)) = Range(s) \cup {e}
<1> DEFINE a == Append(s, e)
           n == Len(s)
<1>1. n \in Nat /\ DOMAIN s = 1 .. n
  BY LenProperties
<1>2. a \in Seq(S) /\ Len(a) = n + 1 /\ DOMAIN a = 1 .. n + 1
  BY LenProperties
<1>3. a[n + 1] = e /\ \A i \in 1 .. n : a[i] = s[i]
  BY <1>1
<1> HIDE DEF a, n
<1>4. \A i \in 1 .. n + 1 : i = n + 1 \/ i \in 1 .. n
  BY <1>1
<1>5. 1 .. n \subseteq 1 .. n + 1 /\ n + 1 \in 1 .. n + 1
  BY <1>1
<1>6. Range(a) = Range(s) \cup {e}
  BY <1>1, <1>2, <1>3, <1>4, <1>5 DEF Range
<1> QED
  BY <1>2, <1>6 DEF a

LEMMA ConcatRange ==
  ASSUME NEW S, NEW s \in Seq(S), NEW t \in Seq(S)
  PROVE  s \o t \in Seq(S) /\ Range(s \o t) = Range(s) \cup Range(t)
<1> DEFINE a == s \o t
           m == Len(s)
           n == Len(t)
<1>1. m \in Nat /\ n \in Nat /\ DOMAIN s = 1 .. m /\ DOMAIN t = 1 .. n
  BY LenProperties
<1>2. /\ a \in Seq(S) /\ Len(a) = m + n
      /\ \A i \in 1 .. m + n : a[i] = IF i <= m THEN s[i] ELSE t[i - m]
  BY ConcatProperties
<1>3. DOMAIN a = 1 .. m + n
  BY <1>2, LenProperties
<1> HIDE DEF a, m, n
<1>4. \A i \in 1 .. m : i \in 1 .. m + n /\ a[i] = s[i]
  BY <1>1, <1>2
<1>5. \A i \in 1 .. n : m + i \in 1 .. m + n /\ a[m + i] = t[i]
  <2> SUFFICES ASSUME NEW i \in 1 .. n
               PROVE  m + i \in 1 .. m + n /\ a[m + i] = t[i]
    OBVIOUS
  <2>1. m + i \in 1 .. m + n /\ ~(m + i <= m) /\ (m + i) - m = i
    BY <1>1
  <2> QED
    BY <1>2, <2>1
<1>6. \A i \in 1 .. m + n : i \in 1 .. m \/ (i - m \in 1 .. n /\ a[i] = t[i - m])
  BY <1>1, <1>2
<1>7. \A x \in Range(a) : x \in Range(s) \/ x \in Range(t)
  BY <1>1, <1>3, <1>4, <1>6 DEF Range
<1>8. \A x \in Range(s) : x \in Range(a)
  BY <1>1, <1>3, <1>4 DEF Range
<1>9. \A x \in Range(t) : x \in Range(a)
  BY <1>1, <1>3, <1>5 DEF Range
<1>10. Range(a) = Range(s) \cup Range(t)
  BY <1>7, <1>8, <1>9
<1> QED
  BY <1>2, <1>10 DEF a

LEMMA RuleTable ==
  /\ \A t \in RuleTables : /\ DOMAIN t \in SUBSET RuleIds
                           /\ t \in [DOMAIN t -> Rules]
                           /\ \A r \in DOMAIN t : t[r] \in Rules
  /\ \A ids \in SUBSET RuleIds : \A t \in [ids -> Rules] : t \in RuleTables
BY DEF RuleTables

LEMMA DraftTyped ==
  ASSUME NEW d \in Settings
  PROVE  /\ d.groups \in Seq(GroupIds) /\ d.nodes \in Seq(Nodes)
         /\ d.rules \in RuleTables /\ d.zone \in Zones \cup {Unloaded}
         /\ \A x \in Seq(GroupIds) : LET e == [d EXCEPT !.groups = x] IN
              /\ e \in Settings /\ e.groups = x /\ e.nodes = d.nodes
              /\ e.rules = d.rules /\ e.zone = d.zone
         /\ \A x \in Seq(Nodes) : LET e == [d EXCEPT !.nodes = x] IN
              /\ e \in Settings /\ e.groups = d.groups /\ e.nodes = x
              /\ e.rules = d.rules /\ e.zone = d.zone
         /\ \A x \in RuleTables : LET e == [d EXCEPT !.rules = x] IN
              /\ e \in Settings /\ e.groups = d.groups /\ e.nodes = d.nodes
              /\ e.rules = x /\ e.zone = d.zone
         /\ \A x \in Zones \cup {Unloaded} : LET e == [d EXCEPT !.zone = x] IN
              /\ e \in Settings /\ e.groups = d.groups /\ e.nodes = d.nodes
              /\ e.rules = d.rules /\ e.zone = x
<1>1. /\ d.groups \in Seq(GroupIds) /\ d.nodes \in Seq(Nodes)
      /\ d.rules \in RuleTables /\ d.zone \in Zones \cup {Unloaded}
  BY DEF Settings
<1>2. d = [groups |-> d.groups, nodes |-> d.nodes, rules |-> d.rules, zone |-> d.zone]
  BY DEF Settings
<1>3. ASSUME NEW x \in Seq(GroupIds)
      PROVE  LET e == [d EXCEPT !.groups = x] IN
              /\ e \in Settings /\ e.groups = x /\ e.nodes = d.nodes
              /\ e.rules = d.rules /\ e.zone = d.zone
  BY <1>1, <1>2 DEF Settings
<1>4. ASSUME NEW x \in Seq(Nodes)
      PROVE  LET e == [d EXCEPT !.nodes = x] IN
              /\ e \in Settings /\ e.groups = d.groups /\ e.nodes = x
              /\ e.rules = d.rules /\ e.zone = d.zone
  BY <1>1, <1>2 DEF Settings
<1>5. ASSUME NEW x \in RuleTables
      PROVE  LET e == [d EXCEPT !.rules = x] IN
              /\ e \in Settings /\ e.groups = d.groups /\ e.nodes = d.nodes
              /\ e.rules = x /\ e.zone = d.zone
  BY <1>1, <1>2 DEF Settings
<1>6. ASSUME NEW x \in Zones \cup {Unloaded}
      PROVE  LET e == [d EXCEPT !.zone = x] IN
              /\ e \in Settings /\ e.groups = d.groups /\ e.nodes = d.nodes
              /\ e.rules = d.rules /\ e.zone = x
  BY <1>1, <1>2 DEF Settings
<1> QED
  BY <1>1, <1>3, <1>4, <1>5, <1>6, Zenon

(* The empty draft of a page that has no settings yet.                     *)
LEMMA NoDraftGood ==
  /\ NoDraft \in Settings /\ Good(NoDraft) /\ NoDraft.zone # ""
  /\ DOMAIN NoDraft.rules = {} /\ GroupsOf(NoDraft) = {}
<1>1. <<>> \in Seq(GroupIds) /\ <<>> \in Seq(Nodes) /\ DOMAIN <<>> = {}
  OBVIOUS
<1>2. <<>> \in RuleTables
  <2>1. <<>> \in [{} -> Rules]
    OBVIOUS
  <2> QED
    BY <2>1, RuleTable
<1>3. /\ NoDraft.groups = <<>> /\ NoDraft.nodes = <<>> /\ NoDraft.rules = <<>>
      /\ NoDraft.zone = Unloaded
  BY DEF NoDraft
<1>4. Unloaded # ""
  BY ZonesAssumption
<1>5. NoDraft \in Settings
  BY <1>1, <1>2 DEF NoDraft, Settings
<1> QED
  BY <1>1, <1>3, <1>4, <1>5 DEF Good, Consistent, GroupsOf, Range

-----------------------------------------------------------------------------
(* Edits.                                                                  *)

LEMMA SpendTyped ==
  ASSUME TypeOK, NEW kind \in BudgetKinds, Spend(kind)
  PROVE  budget' \in [BudgetKinds -> Nat]
  BY DEF TypeOK, Spend

LEMMA PageFacts ==
  ASSUME IInv, NEW p \in Pages
  PROVE  /\ draft[p] \in Settings /\ received[p] \in Settings
         /\ dirty[p] \in SUBSET RuleIds /\ selected[p] \in GroupIds \cup {NoGroup}
         /\ Consistent(draft[p]) /\ Good(received[p])
         /\ Marked(draft[p], received[p], dirty[p])
         /\ selected[p] \in GroupsOf(draft[p]) \cup {NoGroup}
  BY DEF IInv, TypeOK, PageInv

(* What a step that leaves the server and the calls alone has to show.     *)
LEMMA PageStep ==
  ASSUME IInv, UNCHANGED <<server, keys, calls>>, budget' \in [BudgetKinds -> Nat],
         draft' \in [Pages -> Settings], received' \in [Pages -> Settings],
         dirty' \in [Pages -> SUBSET RuleIds], selected' \in [Pages -> GroupIds \cup {NoGroup}],
         \A p \in Pages : PageInv(draft'[p], received'[p], dirty'[p], selected'[p])
  PROVE  IInv'
<1>1. TypeOK'
  BY DEF IInv, TypeOK
<1>2. Good(server)'
  BY DEF IInv, Good, Consistent, GroupsOf, Candidates, IdsOf
<1>3. \A c \in Calls : CallInv(calls[c])'
  <2> SUFFICES ASSUME NEW c \in Calls
               PROVE  CallInv(calls[c])'
    OBVIOUS
  <2>1. CallInv(calls[c])
    BY DEF IInv
  <2> QED
    BY <2>1 DEF CallInv
<1> QED
  BY <1>1, <1>2, <1>3 DEF IInv

LEMMA EditStep ==
  ASSUME IInv, NEW p \in Pages, NEW d \in Settings, NEW marked \in SUBSET RuleIds,
         NEW shown \in GroupIds \cup {NoGroup}, Edit(p, d, marked, shown),
         Consistent(d), Marked(d, received[p], marked), shown \in GroupsOf(d) \cup {NoGroup}
  PROVE  IInv'
<1>1. /\ UNCHANGED <<server, keys, calls, received>> /\ Spend("edits")
      /\ draft' = [draft EXCEPT ![p] = d] /\ dirty' = [dirty EXCEPT ![p] = marked]
      /\ selected' = [selected EXCEPT ![p] = shown]
  BY DEF Edit, serverVars
<1>2. /\ TypeOK /\ draft \in [Pages -> Settings] /\ received \in [Pages -> Settings]
      /\ dirty \in [Pages -> SUBSET RuleIds] /\ selected \in [Pages -> GroupIds \cup {NoGroup}]
  BY DEF IInv, TypeOK
<1>3. budget' \in [BudgetKinds -> Nat]
  BY <1>1, <1>2, SpendTyped DEF BudgetKinds
<1>4. /\ draft' \in [Pages -> Settings] /\ dirty' \in [Pages -> SUBSET RuleIds]
      /\ selected' \in [Pages -> GroupIds \cup {NoGroup}] /\ received' \in [Pages -> Settings]
  BY <1>1, <1>2
<1>5. ASSUME NEW q \in Pages PROVE PageInv(draft'[q], received'[q], dirty'[q], selected'[q])
  <2>1. CASE q = p
    <3>1. /\ draft'[q] = d /\ received'[q] = received[p] /\ dirty'[q] = marked
          /\ selected'[q] = shown
      BY <1>1, <1>2, <2>1
    <3>2. Good(received[p])
      BY PageFacts
    <3> QED
      BY <3>1, <3>2 DEF PageInv
  <2>2. CASE q # p
    <3>1. /\ draft'[q] = draft[q] /\ received'[q] = received[q] /\ dirty'[q] = dirty[q]
          /\ selected'[q] = selected[q]
      BY <1>1, <1>2, <2>2
    <3> QED
      BY <3>1 DEF IInv
  <2> QED
    BY <2>1, <2>2
<1> QED
  BY <1>1, <1>3, <1>4, <1>5, PageStep

LEMMA IdsInRange ==
  ASSUME NEW nodes
  PROVE  \A n : n \in IdsOf(nodes) <=> \E node \in Range(nodes) : node.id = n
  BY DEF IdsOf, Range

(* An edit that takes nothing away that a rule could refer to.             *)
LEMMA Grown ==
  ASSUME NEW d, NEW e, Consistent(d), e.rules = d.rules,
         \A n \in IdsOf(d.nodes) : n \in IdsOf(e.nodes), \A g \in GroupsOf(d) : g \in GroupsOf(e),
         \A node \in Range(e.nodes) : node.group \in GroupsOf(e)
  PROVE  Consistent(e)
<1>1. \A i \in DOMAIN e.nodes : e.nodes[i].group \in GroupsOf(e)
  BY DEF Range
<1>2. ASSUME NEW r \in DOMAIN e.rules
      PROVE  e.rules[r].target \in Candidates(e, e.rules[r].type) \cup {NoTarget}
  BY DEF Consistent, Candidates
<1> QED
  BY <1>1, <1>2 DEF Consistent

LEMMA SameRules ==
  ASSUME NEW d, NEW e, NEW got, NEW marked, Marked(d, got, marked),
         e.rules = d.rules, e.zone = d.zone
  PROVE  Marked(e, got, marked)
  BY DEF Marked

LEMMA AddGroupStep ==
  ASSUME IInv, NEW p \in Pages, NEW g \in GroupIds, AddGroup(p, g)
  PROVE  IInv'
<1> DEFINE d == draft[p]
           e == [d EXCEPT !.groups = Append(d.groups, g)]
<1>1. Edit(p, e, dirty[p], g)
  BY DEF AddGroup
<1>2. d \in Settings /\ Consistent(d) /\ dirty[p] \in SUBSET RuleIds /\ Marked(d, received[p], dirty[p])
  BY PageFacts
<1> HIDE DEF d
<1>3. /\ e \in Settings /\ e.nodes = d.nodes /\ e.rules = d.rules /\ e.zone = d.zone
      /\ e.groups = Append(d.groups, g)
      /\ Range(Append(d.groups, g)) = Range(d.groups) \cup {g}
  <2>1. d.groups \in Seq(GroupIds)
    BY <1>2, DraftTyped
  <2>2. /\ Append(d.groups, g) \in Seq(GroupIds)
        /\ Range(Append(d.groups, g)) = Range(d.groups) \cup {g}
    BY <2>1, AppendRange
  <2> QED
    BY <1>2, <2>2, DraftTyped
<1> HIDE DEF e
<1>4. GroupsOf(e) = GroupsOf(d) \cup {g}
  BY <1>3 DEF GroupsOf
<1>5. \A node \in Range(e.nodes) : node.group \in GroupsOf(e)
  BY <1>2, <1>3, <1>4 DEF Consistent, Range
<1>6. Consistent(e)
  BY <1>2, <1>3, <1>4, <1>5, Grown
<1>7. Marked(e, received[p], dirty[p])
  BY <1>2, <1>3, SameRules
<1> QED
  BY <1>1, <1>2, <1>3, <1>4, <1>6, <1>7, EditStep

LEMMA DeleteGroupStep ==
  ASSUME IInv, NEW p \in Pages, NEW g \in GroupIds, DeleteGroup(p, g)
  PROVE  IInv'
<1> DEFINE d == draft[p]
           I == {i \in DOMAIN d.groups : d.groups[i] # g}
           e == [d EXCEPT !.groups = Filtered(d.groups, I)]
           shown == IF selected[p] = g THEN First(e.groups, NoGroup) ELSE selected[p]
<1>1. /\ Edit(p, e, dirty[p], shown)
      /\ \A i \in DOMAIN d.nodes : d.nodes[i].group # g
      /\ \A r \in DOMAIN d.rules : d.rules[r].target # g
  BY DEF DeleteGroup
<1>2. /\ d \in Settings /\ Consistent(d) /\ dirty[p] \in SUBSET RuleIds
      /\ Marked(d, received[p], dirty[p]) /\ selected[p] \in GroupsOf(d) \cup {NoGroup}
      /\ selected[p] \in GroupIds \cup {NoGroup}
  BY PageFacts
<1> HIDE DEF d
<1>3. d.groups \in Seq(GroupIds)
  BY <1>2, DraftTyped
<1>4. Filtered(d.groups, I) \in Seq(GroupIds) /\ Range(Filtered(d.groups, I)) = {d.groups[i] : i \in I}
  <2>1. I \in SUBSET (DOMAIN d.groups)
    OBVIOUS
  <2> QED
    BY <1>3, <2>1, FilteredTyped
<1>5. /\ e \in Settings /\ e.nodes = d.nodes /\ e.rules = d.rules /\ e.zone = d.zone
      /\ e.groups = Filtered(d.groups, I)
  BY <1>2, <1>4, DraftTyped
<1> HIDE DEF e
<1>6. \A h : h \in GroupsOf(e) <=> h \in GroupsOf(d) /\ h # g
  <2>1. GroupsOf(e) = {d.groups[i] : i \in I}
    BY <1>4, <1>5 DEF GroupsOf
  <2>2. GroupsOf(d) = {d.groups[i] : i \in DOMAIN d.groups}
    BY DEF GroupsOf, Range
  <2> QED
    BY <2>1, <2>2
<1>7. First(e.groups, NoGroup) \in GroupsOf(e) \cup {NoGroup}
  BY <1>4, <1>5, RangeTyped DEF GroupsOf
<1>8. \A h \in GroupsOf(e) : h \in GroupIds
  BY <1>4, <1>5, RangeTyped DEF GroupsOf
<1>9. shown \in GroupsOf(e) \cup {NoGroup}
  BY <1>2, <1>6, <1>7
<1>10. Consistent(e)
  <2>1. \A i \in DOMAIN e.nodes : e.nodes[i].group \in GroupsOf(e)
    BY <1>1, <1>2, <1>5, <1>6 DEF Consistent
  <2>2. ASSUME NEW r \in DOMAIN e.rules
        PROVE  e.rules[r].target \in Candidates(e, e.rules[r].type) \cup {NoTarget}
    <3>1. e.rules[r].target # g /\ e.rules[r].target \in Candidates(d, e.rules[r].type) \cup {NoTarget}
      BY <1>1, <1>2, <1>5 DEF Consistent
    <3> QED
      BY <1>5, <1>6, <3>1 DEF Candidates
  <2> QED
    BY <2>1, <2>2 DEF Consistent
<1>11. Marked(e, received[p], dirty[p])
  BY <1>2, <1>5, SameRules
<1> HIDE DEF shown
<1>12. shown \in GroupIds \cup {NoGroup}
  BY <1>8, <1>9
<1> QED
  BY <1>1, <1>2, <1>5, <1>9, <1>10, <1>11, <1>12, EditStep

(* An edit of the nodes, and what it has to show of them.                  *)
LEMMA NodesStep ==
  ASSUME IInv, NEW p \in Pages, NEW nodes \in Seq(Nodes), NEW shown,
         Edit(p, [draft[p] EXCEPT !.nodes = nodes], dirty[p], shown),
         shown = selected[p] \/ shown \in GroupsOf(draft[p]),
         \A node \in Range(nodes) : node.group \in GroupsOf(draft[p]),
         \A n : \A r \in DOMAIN draft[p].rules :
           n = draft[p].rules[r].target /\ n \in IdsOf(draft[p].nodes) => n \in IdsOf(nodes)
  PROVE  IInv'
<1> DEFINE d == draft[p]
           e == [d EXCEPT !.nodes = nodes]
<1>1. /\ d \in Settings /\ Consistent(d) /\ dirty[p] \in SUBSET RuleIds
      /\ Marked(d, received[p], dirty[p]) /\ selected[p] \in GroupsOf(d) \cup {NoGroup}
      /\ selected[p] \in GroupIds \cup {NoGroup}
  BY PageFacts
<1>2. Edit(p, e, dirty[p], shown)
  OBVIOUS
<1>3. /\ e \in Settings /\ e.groups = d.groups /\ e.rules = d.rules /\ e.zone = d.zone
      /\ e.nodes = nodes
  BY <1>1, DraftTyped
<1> HIDE DEF e
<1>4. GroupsOf(e) = GroupsOf(d)
  BY <1>3 DEF GroupsOf
<1>5. \A h \in GroupsOf(d) : h \in GroupIds
  BY <1>1, DraftTyped, RangeTyped DEF GroupsOf
<1>6. Consistent(e)
  <2>1. \A i \in DOMAIN e.nodes : e.nodes[i].group \in GroupsOf(e)
    BY <1>3, <1>4 DEF Range
  <2>2. ASSUME NEW r \in DOMAIN e.rules
        PROVE  e.rules[r].target \in Candidates(e, e.rules[r].type) \cup {NoTarget}
    <3>1. e.rules[r].target \in Candidates(d, e.rules[r].type) \cup {NoTarget}
      BY <1>1, <1>3 DEF Consistent
    <3> QED
      BY <1>3, <1>4, <3>1 DEF Candidates
  <2> QED
    BY <2>1, <2>2 DEF Consistent
<1>7. Marked(e, received[p], dirty[p])
  BY <1>1, <1>3, SameRules
<1>8. shown \in GroupsOf(e) \cup {NoGroup} /\ shown \in GroupIds \cup {NoGroup}
  BY <1>1, <1>4, <1>5
<1> HIDE DEF d
<1> QED
  BY <1>1, <1>2, <1>3, <1>6, <1>7, <1>8, EditStep

LEMMA NewIdIsOne ==
  ASSUME NEW ids, NEW id \in NewId(ids)
  PROVE  id \in ids
<1>1. ids # {}
  BY DEF NewId
<1>2. (CHOOSE x \in ids : TRUE) \in ids
  BY <1>1
<1> QED
  BY <1>1, <1>2 DEF NewId

LEMMA NodesOfDraft ==
  ASSUME IInv, NEW p \in Pages
  PROVE  /\ draft[p].nodes \in Seq(Nodes)
         /\ \A node \in Range(draft[p].nodes) :
              /\ node \in Nodes /\ node.group \in GroupsOf(draft[p])
              /\ node.id \in IdsOf(draft[p].nodes)
         /\ \A i \in DOMAIN draft[p].nodes :
              /\ draft[p].nodes[i] \in Nodes /\ draft[p].nodes[i] \in Range(draft[p].nodes)
              /\ draft[p].nodes[i].group \in GroupsOf(draft[p])
         /\ \A g \in GroupsOf(draft[p]) : g \in GroupIds
<1>1. draft[p] \in Settings /\ Consistent(draft[p])
  BY PageFacts
<1>2. draft[p].nodes \in Seq(Nodes) /\ draft[p].groups \in Seq(GroupIds)
  BY <1>1, DraftTyped
<1>3. \A node \in Range(draft[p].nodes) : \E i \in DOMAIN draft[p].nodes : node = draft[p].nodes[i]
  BY DEF Range
<1>4. \A i \in DOMAIN draft[p].nodes : draft[p].nodes[i].group \in GroupsOf(draft[p])
  BY <1>1 DEF Consistent
<1>5. \A node \in Range(draft[p].nodes) :
        node.group \in GroupsOf(draft[p]) /\ node.id \in IdsOf(draft[p].nodes)
  BY <1>3, <1>4 DEF IdsOf
<1>6. \A g \in GroupsOf(draft[p]) : g \in GroupIds
  BY <1>2, RangeTyped DEF GroupsOf
<1> QED
  BY <1>2, <1>4, <1>5, <1>6, RangeTyped

LEMMA AddNodeStep ==
  ASSUME IInv, NEW p \in Pages, NEW n \in NodeIds, NEW g \in GroupIds, AddNode(p, n, g)
  PROVE  IInv'
<1> DEFINE d == draft[p]
           node == [id |-> n, name |-> NoName, address |-> "", group |-> g, key |-> NoKey,
                    enabled |-> TRUE]
           nodes == Append(d.nodes, node)
<1>1. /\ d.groups # <<>> /\ Edit(p, [d EXCEPT !.nodes = nodes], dirty[p], g)
      /\ \/ g \in GroupsOf(d)
         \/ g = IF selected[p] # NoGroup THEN selected[p] ELSE d.groups[1]
  BY DEF AddNode
<1>2. g \in GroupsOf(d)
  <2>1. selected[p] \in GroupsOf(d) \cup {NoGroup} /\ d.groups \in Seq(GroupIds)
    BY PageFacts, DraftTyped
  <2>2. d.groups[1] \in GroupsOf(d)
    <3>1. 1 \in DOMAIN d.groups
      <4>1. Len(d.groups) \in Nat \ {0} /\ DOMAIN d.groups = 1 .. Len(d.groups)
        BY <1>1, <2>1, EmptySeq, LenProperties
      <4> QED
        BY <4>1
    <3> QED
      BY <2>1, <3>1, RangeTyped DEF GroupsOf
  <2> QED
    BY <1>1, <2>1, <2>2
<1>3. node \in Nodes
  BY NamesAssumption, AddressAssumption DEF Nodes
<1>4. node.group = g /\ d.nodes \in Seq(Nodes)
  BY NodesOfDraft
<1> HIDE DEF node
<1>5. nodes \in Seq(Nodes) /\ Range(nodes) = Range(d.nodes) \cup {node}
  BY <1>3, <1>4, AppendRange
<1> HIDE DEF nodes
<1>6. \A x \in Range(nodes) : x.group \in GroupsOf(d)
  BY <1>2, <1>4, <1>5, NodesOfDraft
<1>7. \A m : m \in IdsOf(d.nodes) => m \in IdsOf(nodes)
  BY <1>5, IdsInRange
<1> QED
  BY <1>1, <1>2, <1>5, <1>6, <1>7, NodesStep

LEMMA WithoutNode ==
  ASSUME NEW nodes \in Seq(Nodes), NEW n
  PROVE  /\ Without(nodes, n) \in Seq(Nodes)
         /\ \A node : node \in Range(Without(nodes, n)) <=> node \in Range(nodes) /\ node.id # n
<1> DEFINE I == {i \in DOMAIN nodes : nodes[i].id # n}
<1>1. I \in SUBSET (DOMAIN nodes) /\ Without(nodes, n) = Filtered(nodes, I)
  BY DEF Without
<1>2. Filtered(nodes, I) \in Seq(Nodes) /\ Range(Filtered(nodes, I)) = {nodes[i] : i \in I}
  BY <1>1, FilteredTyped
<1>3. Range(nodes) = {nodes[i] : i \in DOMAIN nodes}
  BY DEF Range
<1> QED
  BY <1>1, <1>2, <1>3

LEMMA DeleteNodeStep ==
  ASSUME IInv, NEW p \in Pages, NEW n \in NodeIds, DeleteNode(p, n)
  PROVE  IInv'
<1> DEFINE d == draft[p]
           nodes == Without(d.nodes, n)
<1>1. /\ Edit(p, [d EXCEPT !.nodes = nodes], dirty[p], selected[p])
      /\ \A r \in DOMAIN d.rules : d.rules[r].target # n
  BY DEF DeleteNode
<1>2. d.nodes \in Seq(Nodes)
  BY NodesOfDraft
<1>3. /\ nodes \in Seq(Nodes)
      /\ \A node : node \in Range(nodes) <=> node \in Range(d.nodes) /\ node.id # n
  BY <1>2, WithoutNode
<1> HIDE DEF nodes
<1>4. \A node \in Range(nodes) : node.group \in GroupsOf(d)
  BY <1>3, NodesOfDraft
<1>5. \A m : m \in IdsOf(d.nodes) /\ m # n => m \in IdsOf(nodes)
  BY <1>3, IdsInRange
<1> QED
  BY <1>1, <1>3, <1>4, <1>5, NodesStep

(* One entry of a list is replaced.                                        *)
LEMMA ReplacedNode ==
  ASSUME NEW nodes \in Seq(Nodes), NEW i \in DOMAIN nodes, NEW node \in Nodes
  PROVE  LET e == [nodes EXCEPT ![i] = node] IN
         /\ e \in Seq(Nodes)
         /\ \A x \in Range(e) : x \in Range(nodes) \/ x = node
         /\ node.id = nodes[i].id => IdsOf(e) = IdsOf(nodes)
<1> DEFINE e == [nodes EXCEPT ![i] = node]
<1>1. e \in Seq(Nodes) /\ DOMAIN e = DOMAIN nodes
  BY ExceptSeq, LenProperties
<1>2. e[i] = node /\ \A j \in DOMAIN nodes : j # i => e[j] = nodes[j]
  OBVIOUS
<1> HIDE DEF e
<1>3. \A x \in Range(e) : x \in Range(nodes) \/ x = node
  BY <1>1, <1>2 DEF Range
<1>4. ASSUME node.id = nodes[i].id PROVE IdsOf(e) = IdsOf(nodes)
  <2>1. \A j \in DOMAIN nodes : e[j].id = nodes[j].id
    BY <1>2, <1>4
  <2> QED
    BY <1>1, <2>1 DEF IdsOf
<1> QED
  BY <1>1, <1>3, <1>4 DEF e

LEMMA EditNodeStep ==
  ASSUME IInv, NEW p \in Pages, NEW i \in DOMAIN draft[p].nodes, NEW field, NEW value,
         \/ field = "name" /\ value \in Names
         \/ field = "address" /\ value \in Addresses
         \/ field = "key" /\ value \in Keys \cup {NoKey}
         \/ field = "enabled" /\ value \in BOOLEAN,
         EditNode(p, i, field, value)
  PROVE  IInv'
<1> DEFINE d == draft[p]
           old == d.nodes[i]
           node == [old EXCEPT ![field] = value]
           nodes == [d.nodes EXCEPT ![i] = node]
<1>1. d.nodes \in Seq(Nodes) /\ old \in Nodes /\ old.group \in GroupsOf(d)
  BY NodesOfDraft
<1>2. Edit(p, [d EXCEPT !.nodes = nodes], dirty[p], selected[p])
  BY DEF EditNode
<1>3. node \in Nodes /\ node.id = old.id /\ node.group = old.group
  <2>1. CASE field = "name" /\ value \in Names
    BY <1>1, <2>1 DEF Nodes
  <2>2. CASE field = "address" /\ value \in Addresses
    BY <1>1, <2>2 DEF Nodes
  <2>3. CASE field = "key" /\ value \in Keys \cup {NoKey}
    BY <1>1, <2>3 DEF Nodes
  <2>4. CASE field = "enabled" /\ value \in BOOLEAN
    BY <1>1, <2>4 DEF Nodes
  <2> QED
    BY <2>1, <2>2, <2>3, <2>4
<1> HIDE DEF node
<1>4. /\ nodes \in Seq(Nodes) /\ IdsOf(nodes) = IdsOf(d.nodes)
      /\ \A x \in Range(nodes) : x \in Range(d.nodes) \/ x = node
  BY <1>1, <1>3, ReplacedNode
<1> HIDE DEF nodes
<1>5. \A x \in Range(nodes) : x.group \in GroupsOf(d)
  BY <1>1, <1>3, <1>4, NodesOfDraft
<1> QED
  BY <1>2, <1>4, <1>5, NodesStep

LEMMA MoveNodeStep ==
  ASSUME IInv, NEW p \in Pages, NEW i \in DOMAIN draft[p].nodes, NEW g \in GroupIds,
         MoveNode(p, i, g)
  PROVE  IInv'
<1> DEFINE d == draft[p]
           old == d.nodes[i]
           node == [old EXCEPT !.group = g]
           rest == Without(d.nodes, old.id)
           nodes == Append(rest, node)
<1>1. d.nodes \in Seq(Nodes) /\ old \in Nodes
  BY NodesOfDraft
<1>2. g \in GroupsOf(d) /\ Edit(p, [d EXCEPT !.nodes = nodes], dirty[p], selected[p])
  BY DEF MoveNode
<1>3. node \in Nodes /\ node.id = old.id /\ node.group = g
  BY <1>1 DEF Nodes
<1> HIDE DEF node
<1>4. /\ rest \in Seq(Nodes)
      /\ \A x : x \in Range(rest) <=> x \in Range(d.nodes) /\ x.id # old.id
  BY <1>1, WithoutNode
<1> HIDE DEF rest
<1>5. nodes \in Seq(Nodes) /\ Range(nodes) = Range(rest) \cup {node}
  BY <1>3, <1>4, AppendRange
<1> HIDE DEF nodes
<1>6. \A x \in Range(nodes) : x.group \in GroupsOf(d)
  BY <1>2, <1>3, <1>4, <1>5, NodesOfDraft
<1>7. ASSUME NEW m, m \in IdsOf(d.nodes) PROVE m \in IdsOf(nodes)
  <2>1. PICK x \in Range(d.nodes) : x.id = m
    BY <1>7, IdsInRange
  <2>2. x \in Range(nodes) \/ (x.id = node.id /\ node \in Range(nodes))
    BY <1>3, <1>4, <1>5
  <2> QED
    BY <2>1, <2>2, IdsInRange
<1> QED
  BY <1>2, <1>5, <1>6, <1>7, NodesStep

-----------------------------------------------------------------------------
(* Importing.                                                              *)

LEMMA ImportedNodes ==
  ASSUME NEW d \in Settings, NEW list \in Seq(RawNodes), NEW ids \in Seq(NodeIds),
         Len(ids) = Len(list), ImportAccepted(d, list)
  PROVE  LET new == [i \in DOMAIN list |-> ImportedNode(d, list[i], ids[i])] IN
         /\ new \in Seq(Nodes) /\ DOMAIN new = DOMAIN list /\ Len(list) \in Nat \ {0}
         /\ \A i \in DOMAIN list :
              /\ new[i].id = ids[i] /\ new[i].group \in GroupsOf(d)
              /\ new[i].address = Clean[list[i].address] /\ new[i].address \in PageTakes
              /\ new[i].name # NoName /\ new[i].key \in ValidKeys
              /\ list[i].address \in Addresses
<1> DEFINE new == [i \in DOMAIN list |-> ImportedNode(d, list[i], ids[i])]
<1>1. /\ DOMAIN list = 1 .. Len(list) /\ DOMAIN ids = 1 .. Len(list) /\ Len(list) \in Nat
      /\ \A i \in DOMAIN list : list[i] \in RawNodes /\ ids[i] \in NodeIds
  BY LenProperties
<1>2. Len(list) # 0
  BY <1>1, EmptySeq DEF ImportAccepted
<1>3. ASSUME NEW i \in DOMAIN list
      PROVE  /\ new[i] \in Nodes /\ new[i].id = ids[i] /\ new[i].group \in GroupsOf(d)
             /\ new[i].address = Clean[list[i].address] /\ new[i].address \in PageTakes
             /\ new[i].name # NoName /\ new[i].key \in ValidKeys
             /\ list[i].address \in Addresses
  <2> DEFINE raw == list[i]
             g == CHOOSE h \in ResolvedGroups(d, raw) : TRUE
  <2>1. /\ raw.name \in Names /\ raw.address \in Addresses /\ raw.key \in Keys \cup {NoKey}
        /\ raw.enabled \in BOOLEAN
    BY <1>1, RawAssumption
  <2>2. /\ raw.name # NoName /\ raw.key \in ValidKeys /\ Clean[raw.address] \in PageTakes
        /\ Cardinality(ResolvedGroups(d, raw)) = 1
    BY DEF ImportAccepted
  <2> HIDE DEF raw
  <2>3. ResolvedGroups(d, raw) # {}
    <3>1. Cardinality({}) # 1
      BY FS_EmptySet
    <3> QED
      BY <2>2, <3>1, Zenon
  <2>4. g \in ResolvedGroups(d, raw)
    BY <2>3, Zenon
  <2>5. g \in GroupsOf(d)
    BY <2>4 DEF ResolvedGroups
  <2>6. g \in GroupIds
    BY <2>5, DraftTyped, RangeTyped DEF GroupsOf
  <2>7. Clean[raw.address] \in Addresses
    BY <2>1, AddressAssumption
  <2>8. new[i] = [id |-> ids[i], name |-> raw.name, address |-> Clean[raw.address],
                  group |-> g, key |-> raw.key, enabled |-> raw.enabled]
    BY DEF ImportedNode, raw
  <2> HIDE DEF new, g
  <2>9. new[i] \in Nodes
    BY <1>1, <2>1, <2>6, <2>7, <2>8 DEF Nodes
  <2>10. /\ new[i].id = ids[i] /\ new[i].group = g /\ new[i].address = Clean[raw.address]
         /\ new[i].name = raw.name /\ new[i].key = raw.key
    BY <2>8
  <2> QED
    BY <2>1, <2>2, <2>5, <2>9, <2>10 DEF raw
<1>4. new \in Seq(Nodes)
  <2>1. new \in [1 .. Len(list) -> Nodes]
    BY <1>1, <1>3
  <2> HIDE DEF new
  <2> QED
    BY <1>1, <2>1, SeqDef
<1> QED
  BY <1>1, <1>2, <1>3, <1>4

LEMMA ImportStep ==
  ASSUME IInv, NEW p \in Pages, NEW list \in Seq(RawNodes), NEW ids \in Seq(NodeIds),
         Len(ids) = Len(list), Import(p, list, ids)
  PROVE  IInv'
<1> DEFINE d == draft[p]
           new == [i \in DOMAIN list |-> ImportedNode(d, list[i], ids[i])]
           nodes == d.nodes \o new
<1>1. ImportAccepted(d, list) /\ Edit(p, [d EXCEPT !.nodes = nodes], dirty[p], new[1].group)
  BY DEF Import
<1>2. d \in Settings /\ d.nodes \in Seq(Nodes)
  BY PageFacts, NodesOfDraft
<1>3. /\ new \in Seq(Nodes) /\ DOMAIN new = DOMAIN list /\ Len(list) \in Nat \ {0}
      /\ \A i \in DOMAIN list : new[i].group \in GroupsOf(d)
  <2>1. /\ new \in Seq(Nodes) /\ DOMAIN new = DOMAIN list /\ Len(list) \in Nat \ {0}
        /\ \A i \in DOMAIN list :
             /\ new[i].id = ids[i] /\ new[i].group \in GroupsOf(d)
             /\ new[i].address = Clean[list[i].address] /\ new[i].address \in PageTakes
             /\ new[i].name # NoName /\ new[i].key \in ValidKeys
             /\ list[i].address \in Addresses
    BY <1>1, <1>2, ImportedNodes
  <2> HIDE DEF new
  <2> QED
    BY <2>1
<1>4. new[1].group \in GroupsOf(d)
  <2>1. 1 \in DOMAIN list
    BY <1>3, LenProperties
  <2> QED
    BY <1>3, <2>1
<1> HIDE DEF new
<1>5. nodes \in Seq(Nodes) /\ Range(nodes) = Range(d.nodes) \cup Range(new)
  BY <1>2, <1>3, ConcatRange
<1> HIDE DEF nodes
<1>6. \A node \in Range(new) : node.group \in GroupsOf(d)
  BY <1>3 DEF Range
<1>7. \A node \in Range(nodes) : node.group \in GroupsOf(d)
  BY <1>5, <1>6, NodesOfDraft
<1>8. \A n : n \in IdsOf(d.nodes) => n \in IdsOf(nodes)
  BY <1>5, IdsInRange
<1> QED
  BY <1>1, <1>4, <1>5, <1>7, <1>8, NodesStep

(* One entry or two, with ids that nobody uses.                            *)
LEMMA ImportNextLists ==
  ASSUME NEW p, ImportNext(p)
  PROVE  \E list \in Seq(RawNodes), ids \in Seq(NodeIds) :
           /\ Len(ids) = Len(list) /\ Import(p, list, ids)
           /\ \A i \in DOMAIN ids : Unmentioned(ids[i])
           /\ \A i, j \in DOMAIN ids : i # j => ids[i] # ids[j]
<1> PICK n \in NewNode, raw \in RawNodes :
      \/ Import(p, <<raw>>, <<n>>)
      \/ \E m \in NewId(UnusedNodes \ {n}), other \in RawNodes :
           Import(p, <<raw, other>>, <<n, m>>)
  BY DEF ImportNext
<1>1. n \in NodeIds /\ Unmentioned(n)
  <2>1. n \in UnusedNodes
    BY NewIdIsOne DEF NewNode
  <2> QED
    BY <2>1 DEF UnusedNodes
<1>2. CASE Import(p, <<raw>>, <<n>>)
  <2>1. <<raw>> \in Seq(RawNodes) /\ <<n>> \in Seq(NodeIds) /\ Len(<<n>>) = Len(<<raw>>)
    BY <1>1
  <2>2. \A i \in DOMAIN <<n>> : i = 1 /\ <<n>>[i] = n
    OBVIOUS
  <2>3. \A i \in DOMAIN <<n>> : Unmentioned(<<n>>[i])
    BY <1>1, <2>2
  <2>4. \A i, j \in DOMAIN <<n>> : i = j
    BY <2>2
  <2> QED
    BY <1>2, <2>1, <2>3, <2>4
<1>3. CASE \E m \in NewId(UnusedNodes \ {n}), other \in RawNodes :
             Import(p, <<raw, other>>, <<n, m>>)
  <2> PICK m \in NewId(UnusedNodes \ {n}), other \in RawNodes :
        Import(p, <<raw, other>>, <<n, m>>)
    BY <1>3
  <2>1. m \in NodeIds /\ Unmentioned(m) /\ m # n
    <3>1. m \in UnusedNodes \ {n}
      BY NewIdIsOne
    <3> QED
      BY <3>1 DEF UnusedNodes
  <2> DEFINE list == <<raw, other>>
             ids == <<n, m>>
  <2>2. list \in Seq(RawNodes) /\ ids \in Seq(NodeIds) /\ Len(ids) = Len(list)
    BY <1>1, <2>1
  <2>3. DOMAIN ids = {1, 2} /\ ids[1] = n /\ ids[2] = m
    OBVIOUS
  <2>4. Import(p, list, ids)
    OBVIOUS
  <2> HIDE DEF list, ids
  <2>5. \A i \in DOMAIN ids : Unmentioned(ids[i])
    BY <1>1, <2>1, <2>3
  <2>6. \A i, j \in DOMAIN ids : i # j => ids[i] # ids[j]
    BY <2>1, <2>3
  <2> QED
    BY <2>2, <2>4, <2>5, <2>6
<1> QED
  BY <1>2, <1>3

-----------------------------------------------------------------------------
(* Rules.                                                                  *)

LEMMA CandidatesTyped ==
  ASSUME NEW d \in Settings, NEW type \in {"group", "node"}
  PROVE  /\ \A t \in Candidates(d, type) : t \in GroupIds \cup NodeIds
         /\ FirstCandidate(d, type) \in Candidates(d, type) \cup {NoTarget}
<1>1. d.groups \in Seq(GroupIds) /\ d.nodes \in Seq(Nodes)
  BY DraftTyped
<1>2. \A g \in GroupsOf(d) : g \in GroupIds
  BY <1>1, RangeTyped DEF GroupsOf
<1>3. \A i \in DOMAIN d.nodes : d.nodes[i].id \in NodeIds
  <2>1. \A i \in DOMAIN d.nodes : d.nodes[i] \in Nodes
    BY <1>1, RangeTyped
  <2> QED
    BY <2>1 DEF Nodes
<1>4. First(d.groups, NoTarget) \in GroupsOf(d) \cup {NoTarget}
  BY <1>1, RangeTyped DEF GroupsOf
<1>5. d.nodes # <<>> => d.nodes[1].id \in IdsOf(d.nodes)
  <2>1. d.nodes # <<>> => 1 \in DOMAIN d.nodes
    <3>1. d.nodes # <<>> => Len(d.nodes) \in Nat \ {0}
      BY <1>1, EmptySeq
    <3>2. DOMAIN d.nodes = 1 .. Len(d.nodes)
      BY <1>1, LenProperties
    <3> QED
      BY <3>1, <3>2
  <2> QED
    BY <2>1 DEF IdsOf
<1> QED
  BY <1>2, <1>3, <1>4, <1>5 DEF Candidates, FirstCandidate, IdsOf

LEMMA RulesStep ==
  ASSUME IInv, NEW p \in Pages, NEW rules \in RuleTables, NEW marked \in SUBSET RuleIds,
         Edit(p, [draft[p] EXCEPT !.rules = rules], marked, selected[p]),
         \A r \in DOMAIN rules :
           rules[r].target \in Candidates(draft[p], rules[r].type) \cup {NoTarget},
         \A r \in (DOMAIN rules) \ marked :
           r \in (DOMAIN draft[p].rules) \ dirty[p] /\ rules[r] = draft[p].rules[r]
  PROVE  IInv'
<1> DEFINE d == draft[p]
           e == [d EXCEPT !.rules = rules]
<1>1. /\ d \in Settings /\ Consistent(d) /\ Marked(d, received[p], dirty[p])
      /\ selected[p] \in GroupsOf(d) \cup {NoGroup}
      /\ selected[p] \in GroupIds \cup {NoGroup}
  BY PageFacts
<1>2. /\ e \in Settings /\ e.groups = d.groups /\ e.nodes = d.nodes /\ e.rules = rules
      /\ e.zone = d.zone
  BY <1>1, DraftTyped
<1>3. Edit(p, e, marked, selected[p])
  OBVIOUS
<1> HIDE DEF e
<1>4. GroupsOf(e) = GroupsOf(d) /\ \A type : Candidates(e, type) = Candidates(d, type)
  BY <1>2 DEF GroupsOf, Candidates
<1>5. Consistent(e)
  BY <1>1, <1>2, <1>4 DEF Consistent
<1>6. Marked(e, received[p], marked)
  BY <1>1, <1>2 DEF Marked
<1> HIDE DEF d
<1> QED
  BY <1>1, <1>2, <1>3, <1>4, <1>5, <1>6, EditStep

LEMMA RulesOfDraft ==
  ASSUME IInv, NEW p \in Pages
  PROVE  /\ draft[p] \in Settings /\ draft[p].rules \in RuleTables
         /\ DOMAIN draft[p].rules \in SUBSET RuleIds /\ dirty[p] \in SUBSET RuleIds
         /\ \A r \in DOMAIN draft[p].rules :
              /\ draft[p].rules[r] \in Rules /\ draft[p].rules[r].type \in {"group", "node"}
              /\ draft[p].rules[r].target
                   \in Candidates(draft[p], draft[p].rules[r].type) \cup {NoTarget}
<1>1. draft[p] \in Settings /\ Consistent(draft[p]) /\ dirty[p] \in SUBSET RuleIds
  BY PageFacts
<1>2. draft[p].rules \in RuleTables
  BY <1>1, DraftTyped
<1>3. /\ DOMAIN draft[p].rules \in SUBSET RuleIds
      /\ \A r \in DOMAIN draft[p].rules : draft[p].rules[r] \in Rules
  BY <1>2, RuleTable
<1>4. \A rule \in Rules : rule.type \in {"group", "node"}
  BY DEF Rules
<1> QED
  BY <1>1, <1>2, <1>3, <1>4 DEF Consistent

(* A rule is put into the table, and marked.                               *)
LEMMA PutRuleStep ==
  ASSUME IInv, NEW p \in Pages, NEW r \in RuleIds, NEW rule \in Rules, NEW rules,
         DOMAIN rules = DOMAIN draft[p].rules \cup {r}, rules \in [DOMAIN rules -> Rules],
         rules[r] = rule, \A q \in DOMAIN draft[p].rules : q # r => rules[q] = draft[p].rules[q],
         rule.target \in Candidates(draft[p], rule.type) \cup {NoTarget},
         Edit(p, [draft[p] EXCEPT !.rules = rules], dirty[p] \cup {r}, selected[p])
  PROVE  IInv'
<1>1. /\ DOMAIN draft[p].rules \in SUBSET RuleIds /\ dirty[p] \in SUBSET RuleIds
      /\ \A q \in DOMAIN draft[p].rules : draft[p].rules[q].target
           \in Candidates(draft[p], draft[p].rules[q].type) \cup {NoTarget}
  BY RulesOfDraft
<1>2. rules \in RuleTables
  <2>1. DOMAIN rules \in SUBSET RuleIds
    BY <1>1
  <2> QED
    BY <2>1, RuleTable
<1>3. \A q \in DOMAIN rules :
        rules[q].target \in Candidates(draft[p], rules[q].type) \cup {NoTarget}
  BY <1>1
<1>4. \A q \in (DOMAIN rules) \ (dirty[p] \cup {r}) :
        q \in (DOMAIN draft[p].rules) \ dirty[p] /\ rules[q] = draft[p].rules[q]
  OBVIOUS
<1>5. dirty[p] \cup {r} \in SUBSET RuleIds
  BY <1>1
<1> QED
  BY <1>2, <1>3, <1>4, <1>5, RulesStep

LEMMA AddRuleStep ==
  ASSUME IInv, NEW p \in Pages, NEW r \in NewRuleId, NEW rule, AddRule(p, r, rule)
  PROVE  IInv'
<1> DEFINE d == draft[p]
           ids == DOMAIN d.rules \cup {r}
           rules == [q \in ids |-> IF q = r THEN rule ELSE d.rules[q]]
<1>1. /\ rule \in Range(d.rules) \cup {NewRule(d)}
      /\ Edit(p, [d EXCEPT !.rules = rules], dirty[p] \cup {r}, selected[p])
  BY DEF AddRule
<1>2. r \in RuleIds
  <2>1. r \in {q \in RuleIds : Unmentioned(q)}
    BY NewIdIsOne DEF NewRuleId
  <2> QED
    BY <2>1
<1>3. rule \in Rules /\ rule.target \in Candidates(d, rule.type) \cup {NoTarget}
  <2>1. CASE rule \in Range(d.rules)
    BY <2>1, RulesOfDraft DEF Range
  <2>2. CASE rule = NewRule(d)
    <3>1. First(d.groups, NoTarget) \in Candidates(d, "group") \cup {NoTarget}
      BY RulesOfDraft, CandidatesTyped DEF FirstCandidate
    <3>2. First(d.groups, NoTarget) \in GroupIds \cup NodeIds \cup {NoTarget}
      BY <3>1, RulesOfDraft, CandidatesTyped
    <3>3. rule = [named |-> FALSE, enabled |-> TRUE, type |-> "group",
                  target |-> First(d.groups, NoTarget), mode |-> "weekly", days |-> TRUE]
      BY <2>2 DEF NewRule
    <3> QED
      BY <3>1, <3>2, <3>3 DEF Rules
  <2> QED
    BY <1>1, <2>1, <2>2
<1>4. DOMAIN rules = ids /\ rules[r] = rule /\ \A q \in DOMAIN d.rules : q # r => rules[q] = d.rules[q]
  OBVIOUS
<1>5. rules \in [ids -> Rules]
  BY <1>3, RulesOfDraft
<1> HIDE DEF rules
<1> QED
  BY <1>1, <1>2, <1>3, <1>4, <1>5, PutRuleStep

LEMMA EditedRuleTyped ==
  ASSUME NEW d \in Settings, NEW old \in Rules, NEW rule \in EditedRules(d, old),
         old.target \in Candidates(d, old.type) \cup {NoTarget}
  PROVE  rule \in Rules /\ rule.target \in Candidates(d, rule.type) \cup {NoTarget}
<1>1. /\ old.type \in {"group", "node"} /\ old.mode \in {"weekly", "interval"}
      /\ old.named \in BOOLEAN /\ old.enabled \in BOOLEAN /\ old.days \in BOOLEAN
      /\ old.target \in GroupIds \cup NodeIds \cup {NoTarget}
      /\ old = [named |-> old.named, enabled |-> old.enabled, type |-> old.type,
                target |-> old.target, mode |-> old.mode, days |-> old.days]
  BY DEF Rules
<1>2. CASE rule = [old EXCEPT !.named = ~old.named]
  BY <1>1, <1>2 DEF Rules
<1>3. CASE rule = [old EXCEPT !.enabled = ~old.enabled]
  BY <1>1, <1>3 DEF Rules
<1>4. ASSUME NEW t \in Candidates(d, old.type), rule = [old EXCEPT !.target = t]
      PROVE  rule \in Rules /\ rule.target \in Candidates(d, rule.type) \cup {NoTarget}
  <2>1. t \in GroupIds \cup NodeIds
    BY <1>1, CandidatesTyped
  <2>2. rule.target = t /\ rule.type = old.type
    BY <1>1, <1>4
  <2>3. rule \in Rules
    BY <1>1, <1>4, <2>1 DEF Rules
  <2> QED
    BY <2>2, <2>3
<1>5. ASSUME NEW t \in {"group", "node"},
             rule = [old EXCEPT !.type = t, !.target = FirstCandidate(d, t)]
      PROVE  rule \in Rules /\ rule.target \in Candidates(d, rule.type) \cup {NoTarget}
  <2>1. /\ FirstCandidate(d, t) \in Candidates(d, t) \cup {NoTarget}
        /\ FirstCandidate(d, t) \in GroupIds \cup NodeIds \cup {NoTarget}
    BY CandidatesTyped
  <2>2. rule.target = FirstCandidate(d, t) /\ rule.type = t
    BY <1>1, <1>5
  <2>3. rule \in Rules
    BY <1>1, <1>5, <2>1 DEF Rules
  <2> QED
    BY <2>1, <2>2, <2>3
<1>6. CASE rule = [old EXCEPT !.days = ~old.days] \/ rule = [old EXCEPT !.mode = "interval"]
  BY <1>1, <1>6 DEF Rules
<1>7. CASE rule = [old EXCEPT !.mode = "weekly", !.days = TRUE]
  BY <1>1, <1>7 DEF Rules
<1>8. \/ rule = [old EXCEPT !.named = ~old.named]
      \/ rule = [old EXCEPT !.enabled = ~old.enabled]
      \/ \E t \in Candidates(d, old.type) : rule = [old EXCEPT !.target = t]
      \/ \E t \in {"group", "node"} :
           rule = [old EXCEPT !.type = t, !.target = FirstCandidate(d, t)]
      \/ rule = [old EXCEPT !.days = ~old.days] \/ rule = [old EXCEPT !.mode = "interval"]
      \/ rule = [old EXCEPT !.mode = "weekly", !.days = TRUE]
  BY DEF EditedRules
<1> QED
  BY <1>2, <1>3, <1>4, <1>5, <1>6, <1>7, <1>8

LEMMA EditRuleStep ==
  ASSUME IInv, NEW p \in Pages, NEW r \in DOMAIN draft[p].rules, NEW rule, EditRule(p, r, rule)
  PROVE  IInv'
<1> DEFINE d == draft[p]
           rules == [d.rules EXCEPT ![r] = rule]
<1>1. /\ rule \in EditedRules(d, d.rules[r])
      /\ Edit(p, [d EXCEPT !.rules = rules], dirty[p] \cup {r}, selected[p])
  BY DEF EditRule
<1>2. /\ d \in Settings /\ d.rules \in RuleTables /\ DOMAIN d.rules \in SUBSET RuleIds
      /\ d.rules[r] \in Rules
      /\ d.rules[r].target \in Candidates(d, d.rules[r].type) \cup {NoTarget}
  BY RulesOfDraft
<1>3. rule \in Rules /\ rule.target \in Candidates(d, rule.type) \cup {NoTarget}
  BY <1>1, <1>2, EditedRuleTyped
<1>4. d.rules \in [DOMAIN d.rules -> Rules]
  BY <1>2, RuleTable
<1>5. /\ DOMAIN rules = DOMAIN d.rules \cup {r} /\ rules \in [DOMAIN rules -> Rules]
      /\ rules[r] = rule /\ \A q \in DOMAIN d.rules : q # r => rules[q] = d.rules[q]
  BY <1>3, <1>4
<1>6. r \in RuleIds
  BY <1>2
<1> HIDE DEF rules
<1> QED
  BY <1>1, <1>3, <1>5, <1>6, PutRuleStep

LEMMA DeleteRuleStep ==
  ASSUME IInv, NEW p \in Pages, NEW r \in DOMAIN draft[p].rules, DeleteRule(p, r)
  PROVE  IInv'
<1> DEFINE d == draft[p]
           ids == (DOMAIN d.rules) \ {r}
           rules == Restrict(d.rules, ids)
<1>1. Edit(p, [d EXCEPT !.rules = rules], dirty[p] \ {r}, selected[p])
  BY DEF DeleteRule
<1>2. /\ DOMAIN d.rules \in SUBSET RuleIds /\ dirty[p] \in SUBSET RuleIds
      /\ \A q \in DOMAIN d.rules :
           /\ d.rules[q] \in Rules
           /\ d.rules[q].target \in Candidates(d, d.rules[q].type) \cup {NoTarget}
  BY RulesOfDraft
<1>3. DOMAIN rules = ids /\ \A q \in ids : rules[q] = d.rules[q]
  BY DEF Restrict
<1>4. rules \in [ids -> Rules] /\ ids \in SUBSET RuleIds
  BY <1>2 DEF Restrict
<1> HIDE DEF rules
<1>5. rules \in RuleTables
  BY <1>4, RuleTable
<1>6. \A q \in DOMAIN rules : rules[q].target \in Candidates(d, rules[q].type) \cup {NoTarget}
  BY <1>2, <1>3
<1>7. \A q \in (DOMAIN rules) \ (dirty[p] \ {r}) :
        q \in (DOMAIN d.rules) \ dirty[p] /\ rules[q] = d.rules[q]
  BY <1>3
<1>8. dirty[p] \ {r} \in SUBSET RuleIds
  BY <1>2
<1> QED
  BY <1>1, <1>5, <1>6, <1>7, <1>8, RulesStep

LEMMA EditZoneStep ==
  ASSUME IInv, NEW p \in Pages, NEW zone \in Zones, EditZone(p, zone)
  PROVE  IInv'
<1> DEFINE d == draft[p]
           e == [d EXCEPT !.zone = zone]
           marked == dirty[p] \cup DOMAIN d.rules
<1>1. Edit(p, e, marked, selected[p])
  BY DEF EditZone
<1>2. /\ d \in Settings /\ Consistent(d) /\ selected[p] \in GroupsOf(d) \cup {NoGroup}
      /\ selected[p] \in GroupIds \cup {NoGroup}
  BY PageFacts
<1>3. marked \in SUBSET RuleIds
  BY RulesOfDraft
<1>4. /\ e \in Settings /\ e.groups = d.groups /\ e.nodes = d.nodes /\ e.rules = d.rules
  BY <1>2, DraftTyped
<1> HIDE DEF e
<1>5. GroupsOf(e) = GroupsOf(d) /\ \A type : Candidates(e, type) = Candidates(d, type)
  BY <1>4 DEF GroupsOf, Candidates
<1>6. Consistent(e)
  BY <1>2, <1>4, <1>5 DEF Consistent
<1>7. Marked(e, received[p], marked)
  BY <1>4 DEF Marked
<1> HIDE DEF d, marked
<1> QED
  BY <1>1, <1>2, <1>3, <1>4, <1>5, <1>6, <1>7, EditStep

-----------------------------------------------------------------------------
(* Calls.                                                                  *)

LEMMA CallFacts ==
  ASSUME IInv, NEW c \in Calls
  PROVE  /\ calls[c] \in CallRecords /\ calls[c].page \in Pages \cup {NoPage}
         /\ calls[c].sent \in Settings /\ calls[c].answer \in Settings
         /\ calls[c].filled \in KeyTables /\ CallInv(calls[c])
<1>1. calls[c] \in CallRecords /\ CallInv(calls[c])
  BY DEF IInv, TypeOK
<1> QED
  BY <1>1 DEF CallRecords

(* The calls there are, and that they are in order.                        *)
LEMMA NewCalls ==
  ASSUME NEW page \in Pages \cup {NoPage}
  PROVE  /\ Over \in CallRecords /\ CallInv(Over) /\ Over.phase = "closed"
         /\ Unused \in CallRecords /\ CallInv(Unused)
         /\ LET new == [Unused EXCEPT !.page = page, !.phase = "committed"] IN
              new \in CallRecords /\ CallInv(new)
         /\ \A kind \in {"get", "put"} : \A sent \in Settings :
              LET new == [Unused EXCEPT !.page = page, !.kind = kind, !.phase = "sent",
                                        !.sent = sent] IN
              new \in CallRecords /\ (sent.zone # "" => CallInv(new))
         /\ \A ok \in BOOLEAN : \A answer \in Settings :
              LET new == [Unused EXCEPT !.page = page, !.phase = "answered", !.ok = ok,
                                        !.answer = answer] IN
              new \in CallRecords /\ (Good(answer) => CallInv(new))
<1>1. NoDraft \in Settings /\ Good(NoDraft) /\ NoDraft.zone # ""
  BY NoDraftGood
<1>2. Unused \in CallRecords
  <2>1. [n \in NodeIds |-> NoKey] \in KeyTables
    BY DEF KeyTables
  <2> QED
    BY <1>1, <2>1 DEF Unused, CallRecords
<1>3. Unused.sent = NoDraft /\ Unused.answer = NoDraft /\ Unused.phase # "checked"
  BY DEF Unused
<1>4. Over \in CallRecords
  BY <1>2 DEF Over, CallRecords
<1>5. /\ Over.sent = NoDraft /\ Over.answer = NoDraft /\ Over.phase = "closed"
      /\ Over.phase # "checked"
  BY <1>2, <1>3 DEF Over, CallRecords
<1>6. CallInv(Unused) /\ CallInv(Over)
  BY <1>1, <1>3, <1>5, Zenon DEF CallInv
<1>7. LET new == [Unused EXCEPT !.page = page, !.phase = "committed"] IN
      new \in CallRecords /\ CallInv(new)
  <2> DEFINE new == [Unused EXCEPT !.page = page, !.phase = "committed"]
  <2>1. new \in CallRecords
    BY <1>2 DEF CallRecords
  <2>2. new.sent = NoDraft /\ new.answer = NoDraft /\ new.phase # "checked"
    BY <1>2, <1>3 DEF CallRecords
  <2>3. CallInv(new)
    BY <1>1, <2>2, Zenon DEF CallInv
  <2> QED
    BY <2>1, <2>3
<1>8. ASSUME NEW kind \in {"get", "put"}, NEW sent \in Settings
      PROVE  LET new == [Unused EXCEPT !.page = page, !.kind = kind, !.phase = "sent",
                                       !.sent = sent] IN
             new \in CallRecords /\ (sent.zone # "" => CallInv(new))
  <2> DEFINE new == [Unused EXCEPT !.page = page, !.kind = kind, !.phase = "sent",
                                   !.sent = sent]
  <2>1. new \in CallRecords
    BY <1>2 DEF CallRecords
  <2>2. new.sent = sent /\ new.answer = NoDraft /\ new.phase # "checked"
    BY <1>2, <1>3 DEF CallRecords
  <2>3. sent.zone # "" => CallInv(new)
    BY <1>1, <2>2, Zenon DEF CallInv
  <2> QED
    BY <2>1, <2>3
<1>9. ASSUME NEW ok \in BOOLEAN, NEW answer \in Settings
      PROVE  LET new == [Unused EXCEPT !.page = page, !.phase = "answered", !.ok = ok,
                                       !.answer = answer] IN
             new \in CallRecords /\ (Good(answer) => CallInv(new))
  <2> DEFINE new == [Unused EXCEPT !.page = page, !.phase = "answered", !.ok = ok,
                                   !.answer = answer]
  <2>1. new \in CallRecords
    BY <1>2 DEF CallRecords
  <2>2. new.sent = NoDraft /\ new.answer = answer /\ new.phase # "checked"
    BY <1>2, <1>3 DEF CallRecords
  <2>3. Good(answer) => CallInv(new)
    BY <1>1, <2>2, Zenon DEF CallInv
  <2> QED
    BY <2>1, <2>3
<1> QED
  BY <1>2, <1>4, <1>5, <1>6, <1>7, <1>8, <1>9, Zenon

(* What a step of a page or a call has to show that stores nothing.        *)
LEMMA CallsStep ==
  ASSUME IInv, UNCHANGED <<server, keys>>, budget' \in [BudgetKinds -> Nat],
         calls' \in [Calls -> CallRecords], \A c \in Calls : CallInv(calls'[c]),
         draft' \in [Pages -> Settings], received' \in [Pages -> Settings],
         dirty' \in [Pages -> SUBSET RuleIds], selected' \in [Pages -> GroupIds \cup {NoGroup}],
         \A p \in Pages : PageInv(draft'[p], received'[p], dirty'[p], selected'[p])
  PROVE  IInv'
<1>1. TypeOK'
  BY DEF IInv, TypeOK
<1>2. Good(server)'
  BY DEF IInv, Good, Consistent, GroupsOf, Candidates, IdsOf
<1>3. \A c \in Calls : CallInv(calls[c])'
  <2> SUFFICES ASSUME NEW c \in Calls
               PROVE  CallInv(calls[c])'
    OBVIOUS
  <2>1. CallInv(calls'[c])
    OBVIOUS
  <2> QED
    BY <2>1 DEF CallInv
<1> QED
  BY <1>1, <1>2, <1>3 DEF IInv

(* One call changes and no page does.                                      *)
LEMMA OneCallStep ==
  ASSUME IInv, NEW c \in Calls, NEW new \in CallRecords, CallInv(new),
         calls' = [calls EXCEPT ![c] = new], budget' \in [BudgetKinds -> Nat],
         UNCHANGED <<server, keys, draft, received, dirty, selected>>
  PROVE  IInv'
<1>1. /\ calls \in [Calls -> CallRecords]
      /\ draft \in [Pages -> Settings] /\ received \in [Pages -> Settings]
      /\ dirty \in [Pages -> SUBSET RuleIds] /\ selected \in [Pages -> GroupIds \cup {NoGroup}]
  BY DEF IInv, TypeOK
<1>2. calls' \in [Calls -> CallRecords]
  BY <1>1
<1>3. \A k \in Calls : CallInv(calls'[k])
  <2> SUFFICES ASSUME NEW k \in Calls
               PROVE  CallInv(calls'[k])
    OBVIOUS
  <2>1. CASE k = c
    BY <1>1, <2>1
  <2>2. CASE k # c
    <3>1. calls'[k] = calls[k]
      BY <1>1, <2>2
    <3> QED
      BY <3>1, CallFacts
  <2> QED
    BY <2>1, <2>2
<1>4. \A p \in Pages : PageInv(draft'[p], received'[p], dirty'[p], selected'[p])
  BY DEF IInv
<1> QED
  BY <1>1, <1>2, <1>3, <1>4, CallsStep

LEMMA LoadStep ==
  ASSUME IInv, NEW p \in Pages, NEW c \in Calls, Load(p, c)
  PROVE  IInv'
<1> DEFINE new == [Unused EXCEPT !.page = p, !.kind = "get", !.phase = "sent", !.sent = NoDraft]
<1>1. /\ calls' = [calls EXCEPT ![c] = new] /\ Spend("calls")
      /\ UNCHANGED <<server, keys, draft, received, dirty, selected>>
  BY DEF Load, Call, serverVars, pageVars
<1>2. new \in CallRecords /\ CallInv(new)
  BY NewCalls, NoDraftGood
<1>3. budget' \in [BudgetKinds -> Nat]
  BY <1>1, SpendTyped DEF IInv, BudgetKinds
<1> QED
  BY <1>1, <1>2, <1>3, OneCallStep

(* Cleaning the timezone changes it only if all rules are marked.          *)
LEMMA PayloadZoneDraft ==
  ASSUME NEW d \in Settings, NEW got \in Settings, NEW marked, NEW shown,
         PageInv(d, got, marked, shown)
  PROVE  /\ PayloadZone(d) \in Settings /\ PayloadZone(d).nodes = d.nodes
         /\ PayloadZone(d).zone # "" /\ PageInv(PayloadZone(d), got, marked, shown)
<1> DEFINE zone == IF d.zone = "" THEN DefaultZone ELSE d.zone
           e == [d EXCEPT !.zone = zone]
<1>1. PayloadZone(d) = e
  BY DEF PayloadZone
<1>2. zone \in Zones \cup {Unloaded} /\ zone # ""
  <2>1. d.zone \in Zones \cup {Unloaded}
    BY DraftTyped
  <2> QED
    BY <2>1, ZonesAssumption DEF DefaultZone
<1>3. d.zone # "" => zone = d.zone
  OBVIOUS
<1> HIDE DEF zone
<1>4. /\ e \in Settings /\ e.groups = d.groups /\ e.nodes = d.nodes /\ e.rules = d.rules
      /\ e.zone = zone
  <2>1. \A x \in Zones \cup {Unloaded} : LET f == [d EXCEPT !.zone = x] IN
           /\ f \in Settings /\ f.groups = d.groups /\ f.nodes = d.nodes
           /\ f.rules = d.rules /\ f.zone = x
    BY DraftTyped
  <2> QED
    BY <1>2, <2>1
<1> HIDE DEF e
<1>5. GroupsOf(e) = GroupsOf(d) /\ \A type : Candidates(e, type) = Candidates(d, type)
  BY <1>4 DEF GroupsOf, Candidates
<1>6. Consistent(e)
  BY <1>4, <1>5 DEF PageInv, Consistent
<1>7. Marked(e, got, marked)
  <2> SUFFICES ASSUME NEW r \in (DOMAIN e.rules) \ marked
               PROVE  /\ r \in DOMAIN got.rules /\ e.rules[r] = got.rules[r]
                      /\ e.zone = got.zone
    BY DEF Marked
  <2>1. /\ r \in DOMAIN got.rules /\ d.rules[r] = got.rules[r] /\ d.zone = got.zone
    BY <1>4 DEF PageInv, Marked
  <2>2. got.zone # ""
    BY DEF PageInv, Good
  <2> QED
    BY <1>3, <1>4, <2>1, <2>2
<1> QED
  BY <1>1, <1>2, <1>4, <1>5, <1>6, <1>7 DEF PageInv

LEMMA SaveStep ==
  ASSUME IInv, NEW p \in Pages, NEW c \in Calls, Save(p, c)
  PROVE  IInv'
<1> DEFINE d == PayloadZone(draft[p])
           sent == Payload(draft[p])
           new == [Unused EXCEPT !.page = p, !.kind = "put", !.phase = "sent", !.sent = sent]
<1>1. /\ calls' = [calls EXCEPT ![c] = new] /\ Spend("calls")
      /\ draft' = [draft EXCEPT ![p] = d]
      /\ UNCHANGED <<server, keys, received, dirty, selected>>
  BY DEF Save, Call, serverVars
<1>2. /\ calls \in [Calls -> CallRecords]
      /\ draft \in [Pages -> Settings] /\ received \in [Pages -> Settings]
      /\ dirty \in [Pages -> SUBSET RuleIds] /\ selected \in [Pages -> GroupIds \cup {NoGroup}]
  BY DEF IInv, TypeOK
<1>3. /\ d \in Settings /\ d.zone # ""
      /\ PageInv(d, received[p], dirty[p], selected[p])
  <2>1. PageInv(draft[p], received[p], dirty[p], selected[p])
    BY DEF IInv
  <2> QED
    BY <1>2, <2>1, PayloadZoneDraft
<1>4. sent = [d EXCEPT !.nodes = Sorted(d.nodes, ByGroupAndName)]
  BY DEF Payload
<1> HIDE DEF d
<1>5. sent \in Settings /\ sent.zone # ""
  <2>1. Sorted(d.nodes, ByGroupAndName) \in Seq(Nodes)
    BY <1>3, DraftTyped, SortedNodes
  <2>2. \A x \in Seq(Nodes) : LET e == [d EXCEPT !.nodes = x] IN
           e \in Settings /\ e.zone = d.zone
    BY <1>3, DraftTyped
  <2> QED
    BY <1>3, <1>4, <2>1, <2>2
<1> HIDE DEF sent
<1>6. new \in CallRecords /\ CallInv(new)
  BY <1>5, NewCalls
<1> HIDE DEF new
<1>7. calls' \in [Calls -> CallRecords] /\ draft' \in [Pages -> Settings]
  BY <1>1, <1>2, <1>3, <1>6
<1>8. \A k \in Calls : CallInv(calls'[k])
  <2> SUFFICES ASSUME NEW k \in Calls
               PROVE  CallInv(calls'[k])
    OBVIOUS
  <2>1. calls'[k] = IF k = c THEN new ELSE calls[k]
    BY <1>1, <1>2
  <2> QED
    BY <1>6, <2>1, CallFacts
<1>9. \A q \in Pages : PageInv(draft'[q], received'[q], dirty'[q], selected'[q])
  <2> SUFFICES ASSUME NEW q \in Pages
               PROVE  PageInv(draft'[q], received'[q], dirty'[q], selected'[q])
    OBVIOUS
  <2>1. CASE q = p
    <3>1. draft'[q] = d
      BY <1>1, <1>2, <2>1
    <3> QED
      BY <1>1, <1>3, <2>1, <3>1
  <2>2. CASE q # p
    <3>1. draft'[q] = draft[q]
      BY <1>1, <1>2, <2>2
    <3> QED
      BY <1>1, <3>1 DEF IInv
  <2> QED
    BY <2>1, <2>2
<1>10. budget' \in [BudgetKinds -> Nat]
  BY <1>1, SpendTyped DEF IInv, BudgetKinds
<1> QED
  BY <1>1, <1>2, <1>7, <1>8, <1>9, <1>10, CallsStep

(* An answer, be it to a page or to nobody.                                *)
LEMMA RespondStep ==
  ASSUME IInv, NEW c \in Calls, NEW ok \in BOOLEAN, NEW answer \in Settings, Good(answer),
         Respond(c, ok, answer),
         UNCHANGED <<server, keys, draft, received, dirty, selected, budget>>
  PROVE  IInv'
<1> DEFINE page == calls[c].page
           new == [Unused EXCEPT !.page = page, !.phase = "answered", !.ok = ok,
                                 !.answer = answer]
<1>1. page \in Pages \cup {NoPage} /\ calls \in [Calls -> CallRecords]
  BY CallFacts DEF IInv, TypeOK
<1>2. budget' \in [BudgetKinds -> Nat]
  BY DEF IInv, TypeOK
<1>3. CASE page = NoPage
  <2>1. calls' = [calls EXCEPT ![c] = Over]
    BY <1>1, <1>3 DEF Respond
  <2>2. Over \in CallRecords /\ CallInv(Over)
    BY <1>1, NewCalls
  <2> QED
    BY <1>2, <2>1, <2>2, OneCallStep
<1>4. CASE page # NoPage
  <2>1. calls' = [calls EXCEPT ![c] = new]
    BY <1>1, <1>4 DEF Respond
  <2>2. new \in CallRecords /\ CallInv(new)
    BY <1>1, NewCalls
  <2> HIDE DEF new
  <2> QED
    BY <1>2, <2>1, <2>2, OneCallStep
<1> QED
  BY <1>3, <1>4

(* The keys filled in for a node are its own, or those of its id.          *)
LEMMA FilledTyped ==
  ASSUME NEW d \in Settings, NEW existing \in KeyTables
  PROVE  FilledKeys(d, existing) \in KeyTables
<1> SUFFICES ASSUME NEW n \in NodeIds
             PROVE  FilledKeys(d, existing)[n] \in Keys \cup {NoKey}
  BY DEF FilledKeys, KeyTables
<1> DEFINE node == CHOOSE x \in Range(d.nodes) : x.id = n
<1>1. existing[n] \in Keys \cup {NoKey}
  BY DEF KeyTables
<1>2. CASE n \in IdsOf(d.nodes)
  <2>1. node \in Range(d.nodes)
    BY <1>2, IdsInRange, Zenon
  <2>2. node \in Nodes
    BY <2>1, DraftTyped, RangeTyped
  <2>3. FilledKeys(d, existing)[n] = IF node.key # NoKey THEN node.key ELSE existing[n]
    BY <1>2 DEF FilledKeys
  <2> HIDE DEF node
  <2>4. node.key \in Keys \cup {NoKey}
    BY <2>2 DEF Nodes
  <2> QED
    BY <1>1, <2>3, <2>4
<1>3. CASE n \notin IdsOf(d.nodes)
  BY <1>3 DEF FilledKeys
<1> QED
  BY <1>2, <1>3

LEMMA CheckStep ==
  ASSUME IInv, NEW c \in Calls, Check(c)
  PROVE  IInv'
<1> DEFINE d == calls[c].sent
           filled == FilledKeys(d, keys)
           new == [calls[c] EXCEPT !.phase = "checked", !.filled = filled]
<1>1. UNCHANGED <<server, keys, draft, received, dirty, selected, budget>>
  BY DEF Check, serverVars, pageVars
<1>2. /\ calls \in [Calls -> CallRecords] /\ calls[c] \in CallRecords /\ CallInv(calls[c])
      /\ d \in Settings /\ keys \in KeyTables
  BY CallFacts DEF IInv, TypeOK
<1>3. budget' \in [BudgetKinds -> Nat]
  BY <1>1 DEF IInv, TypeOK
<1>4. CASE WellFormed(d) /\ Complete(d, filled)
  <2>1. calls' = [calls EXCEPT ![c] = new]
    BY <1>2, <1>4 DEF Check
  <2>2. filled \in KeyTables
    BY <1>2, FilledTyped
  <2> HIDE DEF filled
  <2>3. new \in CallRecords
    BY <1>2, <2>2 DEF CallRecords
  <2>4. new.sent = d /\ new.answer = calls[c].answer
    BY <1>2 DEF CallRecords
  <2>5. CallInv(new)
    <3>1. d.zone # "" /\ Good(calls[c].answer)
      BY <1>2 DEF CallInv
    <3> HIDE DEF new, d
    <3> QED
      BY <1>4, <2>4, <3>1, Zenon DEF CallInv
  <2> HIDE DEF new
  <2> QED
    BY <1>1, <1>3, <2>1, <2>3, <2>5, OneCallStep
<1>5. CASE ~(WellFormed(d) /\ Complete(d, filled))
  <2>1. Respond(c, FALSE, NoDraft)
    BY <1>5 DEF Check, Refuse
  <2> QED
    BY <1>1, <2>1, NoDraftGood, RespondStep
<1> QED
  BY <1>4, <1>5

LEMMA CommitRefusedStep ==
  ASSUME IInv, NEW c \in Calls, CommitRefused(c)
  PROVE  IInv'
<1>1. /\ UNCHANGED <<server, keys, draft, received, dirty, selected, budget>>
      /\ Respond(c, FALSE, NoDraft)
  BY DEF CommitRefused, Refuse, serverVars, pageVars
<1> QED
  BY <1>1, NoDraftGood, RespondStep

LEMMA AnswerStep ==
  ASSUME IInv, NEW c \in Calls, Answer(c)
  PROVE  IInv'
<1>1. /\ UNCHANGED <<server, keys, draft, received, dirty, selected, budget>>
      /\ Respond(c, TRUE, server)
  BY DEF Answer, serverVars, pageVars
<1>2. server \in Settings /\ Good(server)
  BY DEF IInv, TypeOK
<1> QED
  BY <1>1, <1>2, RespondStep

(* What is stored of a draft the server accepts.                           *)
LEMMA StoredGood ==
  ASSUME NEW d \in Settings, WellFormed(d), d.zone # ""
  PROVE  Stored(d) \in Settings /\ Good(Stored(d))
<1> DEFINE nodes == [i \in DOMAIN d.nodes |->
                       [d.nodes[i] EXCEPT !.address = Clean[@], !.key = NoKey]]
           rules == [r \in DOMAIN d.rules |->
                       [d.rules[r] EXCEPT !.days = @ /\ d.rules[r].mode = "weekly"]]
           e == Stored(d)
<1>1. /\ d.groups \in Seq(GroupIds) /\ d.nodes \in Seq(Nodes) /\ d.rules \in RuleTables
      /\ d.zone \in Zones \cup {Unloaded}
  BY DraftTyped
<1>2. d = [groups |-> d.groups, nodes |-> d.nodes, rules |-> d.rules, zone |-> d.zone]
  BY DEF Settings
<1>3. e = [groups |-> d.groups, nodes |-> nodes, rules |-> rules, zone |-> d.zone]
  <2> HIDE DEF nodes, rules
  <2>1. e = [d EXCEPT !.nodes = nodes, !.rules = rules]
    BY DEF Stored, nodes, rules
  <2> QED
    BY <1>2, <2>1
<1>4. ASSUME NEW i \in DOMAIN d.nodes
      PROVE  nodes[i] \in Nodes /\ nodes[i].id = d.nodes[i].id /\ nodes[i].group = d.nodes[i].group
  <2>1. d.nodes[i] \in Nodes
    BY <1>1, RangeTyped
  <2>2. Clean[d.nodes[i].address] \in Addresses
    BY <2>1, AddressAssumption DEF Nodes
  <2>3. nodes[i] = [d.nodes[i] EXCEPT !.address = Clean[d.nodes[i].address], !.key = NoKey]
    BY <2>1 DEF Nodes
  <2> QED
    BY <2>1, <2>2, <2>3 DEF Nodes
<1>5. nodes \in Seq(Nodes) /\ DOMAIN nodes = DOMAIN d.nodes
  <2>1. DOMAIN d.nodes = 1 .. Len(d.nodes) /\ Len(d.nodes) \in Nat
    BY <1>1, LenProperties
  <2>2. nodes \in [1 .. Len(d.nodes) -> Nodes]
    BY <1>4, <2>1
  <2> HIDE DEF nodes
  <2> QED
    BY <2>1, <2>2, SeqDef
<1>6. ASSUME NEW r \in DOMAIN d.rules
      PROVE  /\ rules[r] \in Rules /\ rules[r].type = d.rules[r].type
             /\ rules[r].target = d.rules[r].target
  <2>1. d.rules[r] \in Rules
    BY <1>1, RuleTable
  <2> QED
    BY <2>1 DEF Rules
<1>7. rules \in RuleTables /\ DOMAIN rules = DOMAIN d.rules
  <2>1. DOMAIN d.rules \in SUBSET RuleIds
    BY <1>1, RuleTable
  <2>2. rules \in [DOMAIN d.rules -> Rules]
    BY <1>6
  <2> HIDE DEF rules
  <2> QED
    BY <2>1, <2>2, RuleTable
<1>8. e \in Settings
  <2> HIDE DEF nodes, rules, e
  <2> QED
    BY <1>1, <1>3, <1>5, <1>7 DEF Settings
<1>9. e.groups = d.groups /\ e.nodes = nodes /\ e.rules = rules /\ e.zone = d.zone
  <2> HIDE DEF nodes, rules, e
  <2> QED
    BY <1>3
<1> HIDE DEF nodes, rules, e
<1>10. GroupsOf(e) = GroupsOf(d) /\ IdsOf(e.nodes) = IdsOf(d.nodes)
  BY <1>4, <1>5, <1>9 DEF GroupsOf, IdsOf
<1>11. Consistent(e)
  <2>1. \A i \in DOMAIN e.nodes : e.nodes[i].group \in GroupsOf(e)
    BY <1>4, <1>5, <1>9, <1>10 DEF WellFormed
  <2>2. ASSUME NEW r \in DOMAIN e.rules
        PROVE  e.rules[r].target \in Candidates(e, e.rules[r].type)
    <3>1. d.rules[r].target \in Candidates(d, d.rules[r].type)
      BY <1>7, <1>9 DEF WellFormed
    <3> QED
      BY <1>6, <1>7, <1>9, <1>10, <3>1 DEF Candidates
  <2> QED
    BY <2>1, <2>2 DEF Consistent
<1> QED
  BY <1>8, <1>9, <1>11 DEF Good, e

LEMMA CommitStep ==
  ASSUME IInv, NEW c \in Calls, Commit(c)
  PROVE  IInv'
<1> DEFINE d == calls[c].sent
           page == calls[c].page
           new == [Unused EXCEPT !.page = page, !.phase = "committed"]
<1>1. /\ server' = Stored(d) /\ keys' = calls[c].filled
      /\ calls' = [calls EXCEPT ![c] = new]
      /\ UNCHANGED <<draft, received, dirty, selected, budget>>
  BY DEF Commit, pageVars
<1>2. /\ d \in Settings /\ WellFormed(d) /\ d.zone # "" /\ page \in Pages \cup {NoPage}
      /\ calls[c].filled \in KeyTables
  <2>1. calls[c].phase = "checked"
    BY DEF Commit
  <2>2. /\ CallInv(calls[c]) /\ d \in Settings /\ page \in Pages \cup {NoPage}
        /\ calls[c].filled \in KeyTables
    BY CallFacts
  <2>3. WellFormed(d) /\ d.zone # ""
    BY <2>1, <2>2 DEF CallInv
  <2> QED
    BY <2>2, <2>3
<1>3. calls \in [Calls -> CallRecords]
  BY DEF IInv, TypeOK
<1>4. server' \in Settings /\ Good(server') /\ keys' \in KeyTables
  <2>1. Stored(d) \in Settings /\ Good(Stored(d))
    BY <1>2, StoredGood
  <2> QED
    BY <1>1, <1>2, <2>1, Zenon
<1>5. new \in CallRecords /\ CallInv(new) /\ new.phase = "committed"
  <2>1. new \in CallRecords /\ CallInv(new)
    BY <1>2, NewCalls
  <2>2. Unused \in CallRecords
    BY NewCalls
  <2> QED
    BY <2>1, <2>2 DEF CallRecords
<1> HIDE DEF new
<1>6. calls' \in [Calls -> CallRecords]
  BY <1>1, <1>3, <1>5
<1>7. TypeOK'
  BY <1>1, <1>4, <1>6 DEF IInv, TypeOK
<1>8. Good(server)'
  BY <1>4 DEF Good, Consistent, GroupsOf, Candidates, IdsOf
<1>9. \A k \in Calls : CallInv(calls[k])'
  <2> SUFFICES ASSUME NEW k \in Calls
               PROVE  CallInv(calls[k])'
    OBVIOUS
  <2>1. CASE k = c
    <3>1. calls'[k] = new /\ new.phase # "checked"
      BY <1>1, <1>3, <1>5, <2>1
    <3>2. new.sent.zone # "" /\ Good(new.answer)
      BY <1>5 DEF CallInv
    <3> QED
      BY <3>1, <3>2 DEF CallInv
  <2>2. CASE k # c
    <3>1. calls'[k] = calls[k] /\ CallInv(calls[k])
      BY <1>1, <1>3, <2>2, CallFacts
    <3> QED
      BY <3>1 DEF CallInv
  <2> QED
    BY <2>1, <2>2
<1>10. \A p \in Pages : PageInv(draft'[p], received'[p], dirty'[p], selected'[p])
  BY <1>1 DEF IInv
<1> QED
  BY <1>7, <1>8, <1>9, <1>10 DEF IInv

(* The disk that is selected after an answer is one of it, if there is any. *)
LEMMA SelectionValid ==
  ASSUME NEW d \in Settings, NEW s \in GroupIds \cup {NoGroup}
  PROVE  /\ ValidSelection(d, s) \in GroupsOf(d) \cup {NoGroup}
         /\ ValidSelection(d, s) \in GroupIds \cup {NoGroup}
<1> DEFINE list == d.groups
           sorted == Sorted(list, LAMBDA g, h : GroupName[g] < GroupName[h])
           order == {q \in (DOMAIN list) \X (DOMAIN list) :
                       \/ GroupName[list[q[1]]] < GroupName[list[q[2]]]
                       \/ ~(GroupName[list[q[2]]] < GroupName[list[q[1]]]) /\ q[1] <= q[2]}
           f == [i \in DOMAIN list |-> GroupName[list[i]]]
<1>1. list \in Seq(GroupIds) /\ \A i \in DOMAIN list : i \in Int /\ list[i] \in GroupIds
  <2>1. list \in Seq(GroupIds)
    BY DraftTyped
  <2> QED
    BY <2>1, LenProperties
<1>2. sorted = Arranged(list, DOMAIN list, order)
  BY DEF Sorted
<1>3. \A i \in DOMAIN list : i \in Int /\ f[i] \in Int /\ f[i] = GroupName[list[i]]
  BY <1>1, GroupAssumption
<1>4. DOMAIN list \in SUBSET Int
  BY <1>1
<1>5. ASSUME NEW i \in DOMAIN list, NEW j \in DOMAIN list
      PROVE  <<i, j>> \in order <=>
               \/ f[i] < f[j]
               \/ f[i] = f[j] /\ f[i] < f[j]
               \/ f[i] = f[j] /\ f[i] = f[j] /\ i <= j
  <2>1. <<i, j>> \in order <=>
          \/ GroupName[list[i]] < GroupName[list[j]]
          \/ ~(GroupName[list[j]] < GroupName[list[i]]) /\ i <= j
    OBVIOUS
  <2>2. i \in Int /\ j \in Int /\ f[i] \in Int /\ f[j] \in Int
    BY <1>3
  <2> HIDE DEF f, order
  <2> QED
    BY <1>3, <2>1, <2>2
<1> HIDE DEF f, order, sorted, list
<1>6. Orders(order, DOMAIN list)
  BY <1>3, <1>4, <1>5, NumbersOrder
<1>7. sorted \in Seq(GroupIds) /\ Range(sorted) = {list[i] : i \in DOMAIN list}
  BY <1>1, <1>2, <1>6, ArrangedTyped
<1>8. Range(sorted) = GroupsOf(d) /\ \A g \in GroupsOf(d) : g \in GroupIds
  <2>1. GroupsOf(d) = {list[i] : i \in DOMAIN list}
    BY DEF GroupsOf, Range, list
  <2>2. \A g \in Range(sorted) : g \in GroupIds
    BY <1>7, RangeTyped
  <2> QED
    BY <1>7, <2>1, <2>2
<1>9. First(sorted, NoGroup) \in Range(sorted) \cup {NoGroup}
  BY <1>7, RangeTyped
<1>10. ValidSelection(d, s) = IF s \in GroupsOf(d) THEN s ELSE First(sorted, NoGroup)
  BY DEF ValidSelection, sorted, list
<1> QED
  BY <1>8, <1>9, <1>10

LEMMA ReceiveStep ==
  ASSUME IInv, NEW c \in Calls, Receive(c)
  PROVE  IInv'
<1> DEFINE p == calls[c].page
           d == calls[c].answer
           shown == ValidSelection(d, selected[p])
<1>1. /\ draft' = [draft EXCEPT ![p] = d] /\ received' = [received EXCEPT ![p] = d]
      /\ dirty' = [dirty EXCEPT ![p] = {}] /\ calls' = [calls EXCEPT ![c] = Over]
      /\ selected' = [selected EXCEPT ![p] = ValidSelection(d, @)]
      /\ UNCHANGED <<server, keys, budget>> /\ p # NoPage
  BY DEF Receive, Closed, serverVars
<1>2. p \in Pages /\ d \in Settings /\ Good(d)
  <2>1. /\ p \in Pages \cup {NoPage} /\ d \in Settings /\ CallInv(calls[c])
    BY CallFacts
  <2> QED
    BY <1>1, <2>1 DEF CallInv
<1>3. /\ calls \in [Calls -> CallRecords]
      /\ draft \in [Pages -> Settings] /\ received \in [Pages -> Settings]
      /\ dirty \in [Pages -> SUBSET RuleIds] /\ selected \in [Pages -> GroupIds \cup {NoGroup}]
      /\ budget' \in [BudgetKinds -> Nat]
  BY <1>1 DEF IInv, TypeOK
<1>4. selected' = [selected EXCEPT ![p] = shown]
  BY <1>1, <1>2, <1>3
<1>5. shown \in GroupsOf(d) \cup {NoGroup} /\ shown \in GroupIds \cup {NoGroup}
  BY <1>2, <1>3, SelectionValid
<1> HIDE DEF p, d, shown
<1>6. Over \in CallRecords /\ CallInv(Over)
  BY <1>2, NewCalls
<1>7. /\ calls' \in [Calls -> CallRecords] /\ draft' \in [Pages -> Settings]
      /\ received' \in [Pages -> Settings] /\ dirty' \in [Pages -> SUBSET RuleIds]
      /\ selected' \in [Pages -> GroupIds \cup {NoGroup}]
  BY <1>1, <1>2, <1>3, <1>4, <1>5, <1>6
<1>8. ASSUME NEW k \in Calls PROVE CallInv(calls'[k])
  <2>1. calls'[k] = IF k = c THEN Over ELSE calls[k]
    BY <1>1, <1>3
  <2> QED
    BY <1>6, <2>1, CallFacts
<1>9. ASSUME NEW q \in Pages
      PROVE  PageInv(draft'[q], received'[q], dirty'[q], selected'[q])
  <2>1. CASE q = p
    <3>1. draft'[q] = d /\ received'[q] = d /\ dirty'[q] = {} /\ selected'[q] = shown
      BY <1>1, <1>3, <1>4, <2>1
    <3>2. Consistent(d) /\ Marked(d, d, {})
      BY <1>2 DEF Good, Marked
    <3> QED
      BY <1>2, <1>5, <3>1, <3>2 DEF PageInv
  <2>2. CASE q # p
    <3>1. /\ draft'[q] = draft[q] /\ received'[q] = received[q] /\ dirty'[q] = dirty[q]
          /\ selected'[q] = selected[q]
      BY <1>1, <1>3, <1>4, <2>2
    <3> QED
      BY <3>1 DEF IInv
  <2> QED
    BY <2>1, <2>2
<1> QED
  BY <1>1, <1>3, <1>7, <1>8, <1>9, CallsStep

LEMMA ReceiveErrorStep ==
  ASSUME IInv, NEW c \in Calls, ReceiveError(c)
  PROVE  IInv'
<1>1. /\ UNCHANGED <<server, keys, draft, received, dirty, selected, budget>>
      /\ calls' = [calls EXCEPT ![c] = Over]
  BY DEF ReceiveError, Closed, serverVars, pageVars
<1>2. Over \in CallRecords /\ CallInv(Over)
  <2>1. NoPage \in Pages \cup {NoPage}
    OBVIOUS
  <2> QED
    BY <2>1, NewCalls
<1>3. budget' \in [BudgetKinds -> Nat]
  BY <1>1 DEF IInv, TypeOK
<1> QED
  BY <1>1, <1>2, <1>3, OneCallStep

(* A call that nobody waits for any more is a call.                        *)
LEMMA AbandonedCall ==
  ASSUME NEW call \in CallRecords, CallInv(call)
  PROVE  Abandoned(call) \in CallRecords /\ CallInv(Abandoned(call))
<1>1. CASE call.phase = "answered"
  <2>1. Over \in CallRecords /\ CallInv(Over)
    <3>1. NoPage \in Pages \cup {NoPage}
      OBVIOUS
    <3> QED
      BY <3>1, NewCalls
  <2> QED
    BY <1>1, <2>1 DEF Abandoned
<1>2. CASE call.phase # "answered"
  <2> DEFINE new == [call EXCEPT !.page = NoPage]
  <2>1. Abandoned(call) = new
    BY <1>2 DEF Abandoned
  <2>2. /\ new \in CallRecords /\ new.sent = call.sent /\ new.answer = call.answer
        /\ new.phase = call.phase
    BY DEF CallRecords
  <2> HIDE DEF new
  <2>3. CallInv(new)
    BY <2>2 DEF CallInv
  <2> QED
    BY <2>1, <2>2, <2>3
<1> QED
  BY <1>1, <1>2

LEMMA LoseStep ==
  ASSUME IInv, NEW c \in Calls, Lose(c)
  PROVE  IInv'
<1> DEFINE new == Abandoned(calls[c])
<1>1. /\ UNCHANGED <<server, keys, draft, received, dirty, selected>>
      /\ Spend("losses") /\ calls' = [calls EXCEPT ![c] = Abandoned(@)]
  BY DEF Lose, serverVars, pageVars
<1>2. calls' = [calls EXCEPT ![c] = new]
  BY <1>1 DEF IInv, TypeOK
<1>3. new \in CallRecords /\ CallInv(new)
  BY CallFacts, AbandonedCall
<1>4. budget' \in [BudgetKinds -> Nat]
  BY <1>1, SpendTyped DEF IInv, BudgetKinds
<1> HIDE DEF new
<1> QED
  BY <1>1, <1>2, <1>3, <1>4, OneCallStep

LEMMA ReloadStep ==
  ASSUME IInv, NEW p \in Pages, Reload(p)
  PROVE  IInv'
<1>1. /\ draft' = [draft EXCEPT ![p] = NoDraft] /\ received' = [received EXCEPT ![p] = NoDraft]
      /\ dirty' = [dirty EXCEPT ![p] = {}] /\ selected' = [selected EXCEPT ![p] = NoGroup]
      /\ calls' = [c \in Calls |-> IF calls[c].page = p THEN Abandoned(calls[c]) ELSE calls[c]]
      /\ UNCHANGED <<server, keys>> /\ Spend("losses")
  BY DEF Reload, serverVars
<1>2. /\ calls \in [Calls -> CallRecords]
      /\ draft \in [Pages -> Settings] /\ received \in [Pages -> Settings]
      /\ dirty \in [Pages -> SUBSET RuleIds] /\ selected \in [Pages -> GroupIds \cup {NoGroup}]
  BY DEF IInv, TypeOK
<1>3. budget' \in [BudgetKinds -> Nat]
  BY <1>1, SpendTyped DEF IInv, BudgetKinds
<1>4. ASSUME NEW c \in Calls PROVE calls'[c] \in CallRecords /\ CallInv(calls'[c])
  <2>1. calls[c] \in CallRecords /\ CallInv(calls[c])
    BY CallFacts
  <2>2. calls'[c] = Abandoned(calls[c]) \/ calls'[c] = calls[c]
    BY <1>1
  <2> QED
    BY <2>1, <2>2, AbandonedCall
<1>5. calls' \in [Calls -> CallRecords]
  BY <1>1, <1>4
<1>6. NoDraft \in Settings
  BY NoDraftGood
<1>7. /\ draft' \in [Pages -> Settings] /\ received' \in [Pages -> Settings]
      /\ dirty' \in [Pages -> SUBSET RuleIds] /\ selected' \in [Pages -> GroupIds \cup {NoGroup}]
  BY <1>1, <1>2, <1>6
<1>8. ASSUME NEW q \in Pages
      PROVE  PageInv(draft'[q], received'[q], dirty'[q], selected'[q])
  <2>1. CASE q = p
    <3>1. draft'[q] = NoDraft /\ received'[q] = NoDraft /\ dirty'[q] = {} /\ selected'[q] = NoGroup
      BY <1>1, <1>2, <2>1
    <3>2. Consistent(NoDraft) /\ Good(NoDraft) /\ Marked(NoDraft, NoDraft, {})
      BY NoDraftGood DEF Good, Marked
    <3> QED
      BY <3>1, <3>2 DEF PageInv
  <2>2. CASE q # p
    <3>1. /\ draft'[q] = draft[q] /\ received'[q] = received[q] /\ dirty'[q] = dirty[q]
          /\ selected'[q] = selected[q]
      BY <1>1, <1>2, <2>2
    <3> QED
      BY <3>1 DEF IInv
  <2> QED
    BY <2>1, <2>2
<1> QED
  BY <1>1, <1>3, <1>4, <1>5, <1>7, <1>8, CallsStep

-----------------------------------------------------------------------------
(* All steps.                                                              *)

LEMMA InitIInv ==
  ASSUME Init
  PROVE  IInv
<1>1. /\ server = Initial.settings /\ keys = Initial.keys
      /\ calls = [c \in Calls |-> Unused]
      /\ draft = [p \in Pages |-> NoDraft] /\ received = [p \in Pages |-> NoDraft]
      /\ dirty = [p \in Pages |-> {}] /\ selected = [p \in Pages |-> NoGroup]
      /\ budget \in Budgets
  BY DEF Init
<1>2. server \in Settings /\ keys \in KeyTables /\ WellFormed(server) /\ server.zone # ""
  BY <1>1, InitialAssumption
<1>3. Good(server)
  <2>1. \A r \in DOMAIN server.rules :
          server.rules[r].target \in Candidates(server, server.rules[r].type)
    BY <1>2 DEF WellFormed
  <2>2. \A i \in DOMAIN server.nodes : server.nodes[i].group \in GroupsOf(server)
    BY <1>2 DEF WellFormed
  <2> QED
    BY <1>2, <2>1, <2>2 DEF Good, Consistent
<1>4. Unused \in CallRecords /\ CallInv(Unused)
  <2>1. NoPage \in Pages \cup {NoPage}
    OBVIOUS
  <2> QED
    BY <2>1, NewCalls
<1>5. NoDraft \in Settings /\ PageInv(NoDraft, NoDraft, {}, NoGroup)
  BY NoDraftGood DEF PageInv, Good, Marked
<1>6. budget \in [BudgetKinds -> Nat]
  BY <1>1, BudgetAssumption
<1>7. TypeOK
  BY <1>1, <1>2, <1>4, <1>5, <1>6 DEF TypeOK
<1>8. \A c \in Calls : CallInv(calls[c])
  BY <1>1, <1>4
<1>9. \A p \in Pages : PageInv(draft[p], received[p], dirty[p], selected[p])
  BY <1>1, <1>5
<1> QED
  BY <1>3, <1>7, <1>8, <1>9 DEF IInv

LEMMA UnchangedStep ==
  ASSUME IInv, UNCHANGED vars
  PROVE  IInv'
<1>1. UNCHANGED <<server, keys, calls, draft, received, dirty, selected, budget>>
  BY DEF vars, serverVars, pageVars
<1>2. /\ budget' \in [BudgetKinds -> Nat]
      /\ draft' \in [Pages -> Settings] /\ received' \in [Pages -> Settings]
      /\ dirty' \in [Pages -> SUBSET RuleIds] /\ selected' \in [Pages -> GroupIds \cup {NoGroup}]
  BY <1>1 DEF IInv, TypeOK
<1>3. \A p \in Pages : PageInv(draft'[p], received'[p], dirty'[p], selected'[p])
  BY <1>1 DEF IInv
<1> QED
  BY <1>1, <1>2, <1>3, PageStep

LEMMA GroupEditStep ==
  ASSUME IInv, NEW p \in Pages, GroupEdit(p)
  PROVE  IInv'
<1>1. ASSUME NEW g \in NewGroup, AddGroup(p, g) PROVE IInv'
  <2>1. g \in GroupIds
    BY DEF NewGroup
  <2> QED
    BY <1>1, <2>1, AddGroupStep
<1>2. ASSUME NEW g \in GroupIds, DeleteGroup(p, g) PROVE IInv'
  BY <1>2, DeleteGroupStep
<1> QED
  BY <1>1, <1>2 DEF GroupEdit

LEMMA NodeEditStep ==
  ASSUME IInv, NEW p \in Pages, NodeEdit(p)
  PROVE  IInv'
<1>1. ASSUME NEW n \in NewNode, NEW g \in GroupIds, AddNode(p, n, g) PROVE IInv'
  <2>1. n \in NodeIds
    <3>1. n \in UnusedNodes
      BY NewIdIsOne DEF NewNode
    <3> QED
      BY <3>1 DEF UnusedNodes
  <2> QED
    BY <1>1, <2>1, AddNodeStep
<1>2. ASSUME ImportNext(p) PROVE IInv'
  <2> PICK list \in Seq(RawNodes), ids \in Seq(NodeIds) :
        Len(ids) = Len(list) /\ Import(p, list, ids)
    BY <1>2, ImportNextLists
  <2> QED
    BY ImportStep
<1>3. ASSUME NEW n \in NodeIds, DeleteNode(p, n) PROVE IInv'
  BY <1>3, DeleteNodeStep
<1>4. ASSUME NEW i \in DOMAIN draft[p].nodes, NEW name \in Names, EditNode(p, i, "name", name)
      PROVE  IInv'
  BY <1>4, EditNodeStep
<1>5. ASSUME NEW i \in DOMAIN draft[p].nodes, NEW a \in Addresses, EditNode(p, i, "address", a)
      PROVE  IInv'
  BY <1>5, EditNodeStep
<1>6. ASSUME NEW i \in DOMAIN draft[p].nodes, NEW k \in Keys \cup {NoKey},
             EditNode(p, i, "key", k)
      PROVE  IInv'
  BY <1>6, EditNodeStep
<1>7. ASSUME NEW i \in DOMAIN draft[p].nodes, NEW switch \in BOOLEAN,
             EditNode(p, i, "enabled", switch)
      PROVE  IInv'
  BY <1>7, EditNodeStep
<1>8. ASSUME NEW i \in DOMAIN draft[p].nodes, NEW g \in GroupIds, MoveNode(p, i, g) PROVE IInv'
  BY <1>8, MoveNodeStep
<1> QED
  BY <1>1, <1>2, <1>3, <1>4, <1>5, <1>6, <1>7, <1>8 DEF NodeEdit

LEMMA RuleEditStep ==
  ASSUME IInv, NEW p \in Pages, RuleEdit(p)
  PROVE  IInv'
<1>1. ASSUME NEW r \in NewRuleId, NEW rule, AddRule(p, r, rule) PROVE IInv'
  BY <1>1, AddRuleStep
<1>2. ASSUME NEW r \in DOMAIN draft[p].rules, NEW rule, EditRule(p, r, rule) PROVE IInv'
  BY <1>2, EditRuleStep
<1>3. ASSUME NEW r \in DOMAIN draft[p].rules, DeleteRule(p, r) PROVE IInv'
  BY <1>3, DeleteRuleStep
<1>4. ASSUME NEW zone \in Zones, EditZone(p, zone) PROVE IInv'
  BY <1>4, EditZoneStep
<1> QED
  BY <1>1, <1>2, <1>3, <1>4 DEF RuleEdit

LEMMA Inductive ==
  ASSUME IInv, [Next]_vars
  PROVE  IInv'
<1>1. ASSUME NEW p \in Pages, PageNext(p) PROVE IInv'
  <2>1. CASE GroupEdit(p)
    BY <2>1, GroupEditStep
  <2>2. CASE NodeEdit(p)
    BY <2>2, NodeEditStep
  <2>3. CASE RuleEdit(p)
    BY <2>3, RuleEditStep
  <2>4. ASSUME NEW c \in Calls, Load(p, c) \/ Save(p, c) PROVE IInv'
    BY <2>4, LoadStep, SaveStep
  <2>5. CASE Reload(p)
    BY <2>5, ReloadStep
  <2> QED
    BY <1>1, <2>1, <2>2, <2>3, <2>4, <2>5 DEF PageNext
<1>2. ASSUME NEW c \in Calls, Check(c) PROVE IInv'
  BY <1>2, CheckStep
<1>3. ASSUME NEW c \in Calls, Commit(c) PROVE IInv'
  BY <1>3, CommitStep
<1>4. ASSUME NEW c \in Calls, CommitRefused(c) PROVE IInv'
  BY <1>4, CommitRefusedStep
<1>5. ASSUME NEW c \in Calls, Answer(c) PROVE IInv'
  BY <1>5, AnswerStep
<1>6. ASSUME NEW c \in Calls, Receive(c) PROVE IInv'
  BY <1>6, ReceiveStep
<1>7. ASSUME NEW c \in Calls, ReceiveError(c) PROVE IInv'
  BY <1>7, ReceiveErrorStep
<1>8. ASSUME NEW c \in Calls, Lose(c) PROVE IInv'
  BY <1>8, LoseStep
<1>9. CASE UNCHANGED vars
  BY <1>9, UnchangedStep
<1> QED
  BY <1>1, <1>2, <1>3, <1>4, <1>5, <1>6, <1>7, <1>8, <1>9 DEF Next

LEMMA InvariantHolds == Spec => []IInv
<1>1. Init => IInv
  BY InitIInv
<1>2. IInv /\ [Next]_vars => IInv'
  BY Inductive
<1> QED
  BY <1>1, <1>2, PTL DEF Spec

-----------------------------------------------------------------------------
(* Theorems.                                                               *)

(* The drafts, the calls and what is stored have their types, whatever is  *)
(* edited, saved, answered or lost in whatever order (app.js 1371-1419,    *)
(* orchestrator.go 327-462).                                               *)
THEOREM TypeCorrect == Spec => []TypeOK
<1>1. IInv => TypeOK
  BY DEF IInv
<1> QED
  BY <1>1, InvariantHolds, PTL

(* In every draft each node is on a disk of the draft and each rule has    *)
(* its target in it, or none (app.js 739-745, 964-998, 1156-1212).         *)
THEOREM DraftsAreConsistent == Spec => []DraftIsConsistent
<1>1. IInv => DraftIsConsistent
  <2> SUFFICES ASSUME IInv PROVE DraftIsConsistent
    OBVIOUS
  <2>1. \A p \in Pages : Consistent(draft[p])
    BY PageFacts
  <2> QED
    BY <2>1 DEF DraftIsConsistent, Consistent
<1> QED
  BY <1>1, InvariantHolds, PTL

(* A rule that the calendar shows is the one the page got, in the timezone *)
(* that it got (app.js 806-808, 866-885, 1255-1290).                       *)
THEOREM CalendarIsSaved == Spec => []CalendarShowsSavedRules
<1>1. IInv => CalendarShowsSavedRules
  <2> SUFFICES ASSUME IInv, NEW p \in Pages, NEW r \in InCalendar(p)
               PROVE  /\ r \in DOMAIN received[p].rules
                      /\ draft[p].rules[r] = received[p].rules[r]
                      /\ draft[p].zone = received[p].zone
    BY DEF CalendarShowsSavedRules
  <2>1. r \in (DOMAIN draft[p].rules) \ dirty[p]
    BY DEF InCalendar
  <2>2. Marked(draft[p], received[p], dirty[p])
    BY PageFacts
  <2> QED
    BY <2>1, <2>2 DEF Marked
<1> QED
  BY <1>1, InvariantHolds, PTL

(* Of a draft of which no two nodes have one id, each node gets its key or *)
(* the one its id has.                                                     *)
LEMMA FilledOfNode ==
  ASSUME NEW d \in Settings, Distinct([i \in DOMAIN d.nodes |-> d.nodes[i].id]),
         NEW existing, NEW i \in DOMAIN d.nodes
  PROVE  /\ d.nodes[i].id \in NodeIds
         /\ FilledKeys(d, existing)[d.nodes[i].id] =
              IF d.nodes[i].key # NoKey THEN d.nodes[i].key ELSE existing[d.nodes[i].id]
<1> DEFINE n == d.nodes[i].id
           node == CHOOSE x \in Range(d.nodes) : x.id = n
<1>1. d.nodes[i] \in Nodes /\ d.nodes[i] \in Range(d.nodes)
  BY DraftTyped, RangeTyped
<1>2. n \in NodeIds /\ n \in IdsOf(d.nodes)
  BY <1>1 DEF Nodes, IdsOf
<1>3. node \in Range(d.nodes) /\ node.id = n
  BY <1>1, Zenon
<1>4. node = d.nodes[i]
  <2> HIDE DEF node
  <2>1. PICK j \in DOMAIN d.nodes : node = d.nodes[j]
    BY <1>3 DEF Range
  <2>2. j = i
    BY <1>3, <2>1 DEF Distinct
  <2> QED
    BY <2>1, <2>2
<1>5. FilledKeys(d, existing)[n] = IF node.key # NoKey THEN node.key ELSE existing[n]
  BY <1>2 DEF FilledKeys
<1> HIDE DEF node
<1> QED
  BY <1>2, <1>4, <1>5

-----------------------------------------------------------------------------
(* What an import can make of an acceptable draft.                         *)

LEMMA ConcatParts ==
  ASSUME NEW S, NEW s \in Seq(S), NEW t \in Seq(S)
  PROVE  \A k \in DOMAIN (s \o t) :
           \/ k \in DOMAIN s /\ (s \o t)[k] = s[k]
           \/ \E i \in DOMAIN t : k = Len(s) + i /\ (s \o t)[k] = t[i]
<1> DEFINE a == s \o t
           m == Len(s)
           n == Len(t)
<1>1. m \in Nat /\ n \in Nat /\ DOMAIN s = 1 .. m /\ DOMAIN t = 1 .. n
  BY LenProperties
<1>2. /\ a \in Seq(S) /\ Len(a) = m + n
      /\ \A i \in 1 .. m + n : a[i] = IF i <= m THEN s[i] ELSE t[i - m]
  BY ConcatProperties
<1>3. DOMAIN a = 1 .. m + n
  BY <1>2, LenProperties
<1> HIDE DEF a, m, n
<1>4. ASSUME NEW k \in DOMAIN a
      PROVE  \/ k \in DOMAIN s /\ a[k] = s[k]
             \/ \E i \in DOMAIN t : k = m + i /\ a[k] = t[i]
  <2>1. k \in 1 .. m + n /\ k \in Int
    BY <1>1, <1>3
  <2>2. CASE k <= m
    BY <1>1, <1>2, <2>1, <2>2
  <2>3. CASE ~(k <= m)
    <3>1. k - m \in 1 .. n /\ k = m + (k - m)
      BY <1>1, <2>1, <2>3
    <3> QED
      BY <1>1, <1>2, <2>1, <2>3, <3>1
  <2> QED
    BY <2>2, <2>3
<1> QED
  BY <1>4 DEF a, m

(* An accepted list, whose nodes get ids that nobody uses and addresses    *)
(* that the server takes too, leaves a draft that the server would take    *)
(* one that it would take.                                                 *)
LEMMA ImportSavable ==
  ASSUME IInv, NEW p \in Pages, NEW list \in Seq(RawNodes), NEW ids \in Seq(NodeIds),
         Len(ids) = Len(list), Import(p, list, ids), Savable(draft[p]),
         \A i \in DOMAIN ids : Unmentioned(ids[i]),
         \A i, j \in DOMAIN ids : i # j => ids[i] # ids[j],
         \A k \in DOMAIN draft'[p].nodes :
           k > Len(draft[p].nodes) => draft'[p].nodes[k].address \notin PageTakes \ ServerTakes
  PROVE  Savable(draft'[p])
<1> DEFINE d == draft[p]
           new == [i \in DOMAIN list |-> ImportedNode(d, list[i], ids[i])]
           old == d.nodes
           m == Len(old)
           nodes == old \o new
           e == [d EXCEPT !.nodes = nodes]
<1>1. ImportAccepted(d, list) /\ draft'[p] = e
  <2>1. ImportAccepted(d, list) /\ draft' = [draft EXCEPT ![p] = e]
    BY DEF Import, Edit
  <2> QED
    BY <2>1 DEF IInv, TypeOK
<1>2. d \in Settings /\ old \in Seq(Nodes)
  BY PageFacts, NodesOfDraft
<1>3. /\ new \in Seq(Nodes) /\ DOMAIN new = DOMAIN list
      /\ \A i \in DOMAIN list :
           /\ new[i].id = ids[i] /\ new[i].group \in GroupsOf(d)
           /\ new[i].address = Clean[list[i].address] /\ new[i].address \in PageTakes
           /\ new[i].name # NoName /\ new[i].key \in ValidKeys /\ list[i].address \in Addresses
  <2>1. /\ new \in Seq(Nodes) /\ DOMAIN new = DOMAIN list /\ Len(list) \in Nat \ {0}
        /\ \A i \in DOMAIN list :
             /\ new[i].id = ids[i] /\ new[i].group \in GroupsOf(d)
             /\ new[i].address = Clean[list[i].address] /\ new[i].address \in PageTakes
             /\ new[i].name # NoName /\ new[i].key \in ValidKeys
             /\ list[i].address \in Addresses
    BY <1>1, <1>2, ImportedNodes
  <2> QED
    BY <2>1
<1>4. DOMAIN ids = DOMAIN list /\ \A i \in DOMAIN list : i \in Nat \ {0}
  <2>1. DOMAIN ids = 1 .. Len(ids) /\ DOMAIN list = 1 .. Len(list)
    BY LenProperties
  <2> QED
    BY <2>1
<1> HIDE DEF new
<1>5. nodes \in Seq(Nodes) /\ Range(nodes) = Range(old) \cup Range(new)
  <2>1. new \in Seq(Nodes)
    BY <1>3
  <2> QED
    BY <1>2, <2>1, ConcatRange
(* Each node is an old one or a new one.                                   *)
<1>6. \A k \in DOMAIN nodes :
        \/ k \in DOMAIN old /\ nodes[k] = old[k]
        \/ \E i \in DOMAIN list : k = m + i /\ nodes[k] = new[i]
  <2>1. new \in Seq(Nodes) /\ DOMAIN new = DOMAIN list
    BY <1>3
  <2>2. \A k \in DOMAIN (old \o new) :
          \/ k \in DOMAIN old /\ (old \o new)[k] = old[k]
          \/ \E i \in DOMAIN new : k = Len(old) + i /\ (old \o new)[k] = new[i]
    BY <1>2, <2>1, ConcatParts
  <2> QED
    BY <2>1, <2>2, Zenon
<1> HIDE DEF nodes
<1>7. /\ e \in Settings /\ e.groups = d.groups /\ e.nodes = nodes
      /\ e.rules = d.rules /\ e.zone = d.zone
  <2>1. \A x \in Seq(Nodes) : LET f == [d EXCEPT !.nodes = x] IN
           /\ f \in Settings /\ f.groups = d.groups /\ f.nodes = x
           /\ f.rules = d.rules /\ f.zone = d.zone
    BY <1>2, DraftTyped
  <2> QED
    BY <1>5, <2>1
<1> HIDE DEF e
<1>8. \A i \in DOMAIN list : (\E k \in DOMAIN nodes : k = m + i /\ nodes[k] = new[i]) =>
         new[i].address \in ServerTakes
  <2> SUFFICES ASSUME NEW i \in DOMAIN list, NEW k \in DOMAIN nodes, k = m + i, nodes[k] = new[i]
               PROVE  new[i].address \in ServerTakes
    OBVIOUS
  <2>1. m \in Nat
    BY <1>2, LenProperties
  <2>2. k > m
    BY <1>4, <2>1
  <2>3. nodes[k].address \notin PageTakes \ ServerTakes
    BY <1>1, <1>7, <2>2
  <2> QED
    BY <1>3, <2>3
<1> HIDE DEF m
<1>9. WellFormed(d) /\ Complete(d, FilledKeys(d, keys))
  BY DEF Savable
<1>10. GroupsOf(e) = GroupsOf(d)
  BY <1>7 DEF GroupsOf
<1>11. \A n : n \in IdsOf(old) => n \in IdsOf(nodes)
  BY <1>5, IdsInRange
(* No two nodes have one id.                                               *)
<1>12. /\ \A i \in DOMAIN list : ids[i] \notin IdsOf(old)
       /\ \A i, j \in DOMAIN list : i # j => ids[i] # ids[j]
       /\ \A i \in DOMAIN old : old[i].id \in IdsOf(old)
       /\ \A i, j \in DOMAIN old : i # j => old[i].id # old[j].id
  <2>1. \A i \in DOMAIN list : ~Mentions(d, ids[i])
    BY <1>4 DEF Unmentioned
  <2>2. Distinct([i \in DOMAIN old |-> old[i].id])
    BY <1>9 DEF WellFormed
  <2> QED
    BY <1>4, <2>1, <2>2 DEF Mentions, IdsOf, Distinct
<1>13. \A i, j \in DOMAIN nodes : i # j => nodes[i].id # nodes[j].id
  <2> SUFFICES ASSUME NEW i \in DOMAIN nodes, NEW j \in DOMAIN nodes, i # j
               PROVE  nodes[i].id # nodes[j].id
    OBVIOUS
  <2>1. ASSUME NEW k \in DOMAIN nodes, NEW a \in DOMAIN list, k = m + a, nodes[k] = new[a]
        PROVE  nodes[k].id = ids[a] /\ nodes[k].id \notin IdsOf(old)
    BY <1>3, <1>12, <2>1
  <2>2. ASSUME NEW k \in DOMAIN nodes, k \in DOMAIN old, nodes[k] = old[k]
        PROVE  nodes[k].id \in IdsOf(old)
    BY <1>12, <2>2
  <2>3. CASE i \in DOMAIN old /\ nodes[i] = old[i]
    <3>1. CASE j \in DOMAIN old /\ nodes[j] = old[j]
      BY <1>12, <2>3, <3>1
    <3>2. CASE \E b \in DOMAIN list : j = m + b /\ nodes[j] = new[b]
      BY <2>1, <2>2, <2>3, <3>2
    <3> QED
      BY <1>6, <3>1, <3>2
  <2>4. CASE \E a \in DOMAIN list : i = m + a /\ nodes[i] = new[a]
    <3>1. CASE j \in DOMAIN old /\ nodes[j] = old[j]
      BY <2>1, <2>2, <2>4, <3>1
    <3>2. ASSUME NEW b \in DOMAIN list, j = m + b, nodes[j] = new[b]
          PROVE  nodes[i].id # nodes[j].id
      <4> PICK a \in DOMAIN list : i = m + a /\ nodes[i] = new[a]
        BY <2>4
      <4>1. a # b
        BY <3>2
      <4>2. nodes[i].id = ids[a] /\ nodes[j].id = ids[b]
        BY <2>1, <3>2
      <4> QED
        BY <1>12, <4>1, <4>2
    <3> QED
      BY <1>6, <3>1, <3>2
  <2> QED
    BY <1>6, <2>3, <2>4
(* No two nodes have one address.                                          *)
<1> DEFINE folded(k) == Fold[Clean[nodes[k].address]]
<1>14. /\ \A i \in DOMAIN list :
            /\ Clean[new[i].address] = Clean[list[i].address]
            /\ Clean[new[i].address] = new[i].address
            /\ Fold[Clean[list[i].address]] \notin FoldedAddresses(old)
       /\ \A i, j \in DOMAIN list :
            i # j => Fold[Clean[list[i].address]] # Fold[Clean[list[j].address]]
       /\ \A i \in DOMAIN old : Fold[Clean[old[i].address]] \in FoldedAddresses(old)
       /\ \A i, j \in DOMAIN old : i # j => Clean[old[i].address] # Clean[old[j].address]
  <2>1. \A i \in DOMAIN list :
          /\ Clean[new[i].address] = Clean[list[i].address]
          /\ Clean[new[i].address] = new[i].address
    <3> SUFFICES ASSUME NEW i \in DOMAIN list
                 PROVE  /\ Clean[new[i].address] = Clean[list[i].address]
                        /\ Clean[new[i].address] = new[i].address
      OBVIOUS
    <3>1. list[i].address \in Addresses /\ new[i].address = Clean[list[i].address]
      BY <1>3
    <3>2. Clean[Clean[list[i].address]] = Clean[list[i].address]
      BY <3>1, AddressAssumption
    <3> QED
      BY <3>1, <3>2
  <2>2. /\ Distinct([i \in DOMAIN list |-> Fold[Clean[list[i].address]]])
        /\ FoldedAddresses(list) \cap FoldedAddresses(old) = {}
    BY <1>1 DEF ImportAccepted
  <2>3. \A i \in DOMAIN list : Fold[Clean[list[i].address]] \in FoldedAddresses(list)
    BY DEF FoldedAddresses
  <2>4. \A i \in DOMAIN old : Fold[Clean[old[i].address]] \in FoldedAddresses(old)
    BY DEF FoldedAddresses
  <2>5. Distinct([i \in DOMAIN old |-> Clean[old[i].address]])
    BY <1>9 DEF WellFormed
  <2>6. \A i, j \in DOMAIN list :
          i # j => Fold[Clean[list[i].address]] # Fold[Clean[list[j].address]]
    BY <2>2 DEF Distinct
  <2>7. \A i, j \in DOMAIN old : i # j => Clean[old[i].address] # Clean[old[j].address]
    BY <2>5 DEF Distinct
  <2>8. \A i \in DOMAIN list : Fold[Clean[list[i].address]] \notin FoldedAddresses(old)
    BY <2>2, <2>3
  <2> QED
    BY <2>1, <2>4, <2>6, <2>7, <2>8
<1>15. \A i, j \in DOMAIN nodes : i # j => Clean[nodes[i].address] # Clean[nodes[j].address]
  <2> SUFFICES ASSUME NEW i \in DOMAIN nodes, NEW j \in DOMAIN nodes, i # j
               PROVE  Clean[nodes[i].address] # Clean[nodes[j].address]
    OBVIOUS
  <2>1. ASSUME NEW k \in DOMAIN nodes, NEW a \in DOMAIN list, k = m + a, nodes[k] = new[a]
        PROVE  folded(k) = Fold[Clean[list[a].address]] /\ folded(k) \notin FoldedAddresses(old)
    BY <1>14, <2>1
  <2>2. ASSUME NEW k \in DOMAIN nodes, k \in DOMAIN old, nodes[k] = old[k]
        PROVE  folded(k) \in FoldedAddresses(old)
    BY <1>14, <2>2
  <2>3. CASE i \in DOMAIN old /\ nodes[i] = old[i]
    <3>1. CASE j \in DOMAIN old /\ nodes[j] = old[j]
      <4>1. Clean[old[i].address] # Clean[old[j].address]
        BY <1>14, <2>3, <3>1
      <4> QED
        BY <2>3, <3>1, <4>1
    <3>2. CASE \E b \in DOMAIN list : j = m + b /\ nodes[j] = new[b]
      <4>1. folded(i) # folded(j)
        BY <2>1, <2>2, <2>3, <3>2, Zenon
      <4> QED
        BY <4>1
    <3> QED
      BY <1>6, <3>1, <3>2
  <2>4. CASE \E a \in DOMAIN list : i = m + a /\ nodes[i] = new[a]
    <3>1. CASE j \in DOMAIN old /\ nodes[j] = old[j]
      <4>1. folded(i) # folded(j)
        BY <2>1, <2>2, <2>4, <3>1, Zenon
      <4> QED
        BY <4>1
    <3>2. ASSUME NEW b \in DOMAIN list, j = m + b, nodes[j] = new[b]
          PROVE  Clean[nodes[i].address] # Clean[nodes[j].address]
      <4> PICK a \in DOMAIN list : i = m + a /\ nodes[i] = new[a]
        BY <2>4
      <4>1. a # b
        BY <3>2
      <4>2. folded(i) = Fold[Clean[list[a].address]] /\ folded(j) = Fold[Clean[list[b].address]]
        BY <2>1, <3>2, Zenon
      <4>3. Fold[Clean[list[a].address]] # Fold[Clean[list[b].address]]
        BY <1>14, <4>1
      <4>4. folded(i) # folded(j)
        BY <4>2, <4>3
      <4> QED
        BY <4>4
    <3> QED
      BY <1>6, <3>1, <3>2
  <2> QED
    BY <1>6, <2>3, <2>4
<1>16. \A k \in DOMAIN nodes : /\ nodes[k].group \in GroupsOf(d) /\ nodes[k].name # NoName
                               /\ Clean[nodes[k].address] \in ServerTakes
  <2> SUFFICES ASSUME NEW k \in DOMAIN nodes
               PROVE  /\ nodes[k].group \in GroupsOf(d) /\ nodes[k].name # NoName
                      /\ Clean[nodes[k].address] \in ServerTakes
    OBVIOUS
  <2>1. CASE k \in DOMAIN old /\ nodes[k] = old[k]
    <3>1. \A i \in DOMAIN old : /\ old[i].group \in GroupsOf(d) /\ old[i].name # NoName
                               /\ Clean[old[i].address] \in ServerTakes
      BY <1>9 DEF WellFormed
    <3> QED
      BY <2>1, <3>1
  <2>2. ASSUME NEW i \in DOMAIN list, k = m + i, nodes[k] = new[i]
        PROVE  /\ nodes[k].group \in GroupsOf(d) /\ nodes[k].name # NoName
               /\ Clean[nodes[k].address] \in ServerTakes
    <3>1. new[i].group \in GroupsOf(d) /\ new[i].name # NoName
      BY <1>3
    <3>2. Clean[new[i].address] \in ServerTakes
      <4>1. new[i].address \in ServerTakes
        BY <1>8, <2>2, Zenon
      <4> QED
        BY <1>14, <4>1
    <3> QED
      BY <2>2, <3>1, <3>2
  <2> QED
    BY <1>6, <2>1, <2>2
<1>17. \A r \in DOMAIN e.rules :
         /\ e.rules[r].named /\ e.rules[r].target \in Candidates(e, e.rules[r].type)
         /\ e.rules[r].mode = "weekly" => e.rules[r].days
  <2> SUFFICES ASSUME NEW r \in DOMAIN d.rules
               PROVE  /\ d.rules[r].named /\ d.rules[r].target \in Candidates(e, d.rules[r].type)
                      /\ d.rules[r].mode = "weekly" => d.rules[r].days
    BY <1>7
  <2>1. /\ d.rules[r].named /\ d.rules[r].target \in Candidates(d, d.rules[r].type)
        /\ d.rules[r].mode = "weekly" => d.rules[r].days
    BY <1>9 DEF WellFormed
  <2>2. d.rules[r].target \in Candidates(e, d.rules[r].type)
    BY <1>7, <1>10, <1>11, <2>1 DEF Candidates
  <2> QED
    BY <2>1, <2>2
<1>18. Distinct([i \in DOMAIN nodes |-> nodes[i].id])
  BY <1>13 DEF Distinct
<1>19. Distinct([i \in DOMAIN nodes |-> Clean[nodes[i].address]])
  BY <1>15 DEF Distinct
<1>20. WellFormed(e)
  <2>1. /\ Distinct(e.groups) /\ e.zone # Unloaded
        /\ \A g \in GroupsOf(e) : GroupName[g] # NoName
    BY <1>10, <1>7, <1>9 DEF WellFormed
  <2> QED
    BY <1>7, <1>10, <1>16, <1>17, <1>18, <1>19, <2>1 DEF WellFormed
<1>21. Complete(e, FilledKeys(e, keys))
  <2> SUFFICES ASSUME NEW n \in IdsOf(e.nodes)
               PROVE  FilledKeys(e, keys)[n] \in ValidKeys
    BY DEF Complete
  <2>1. PICK k \in DOMAIN nodes : n = nodes[k].id
    BY <1>7 DEF IdsOf
  <2>2. FilledKeys(e, keys)[n] = IF nodes[k].key # NoKey THEN nodes[k].key ELSE keys[n]
    BY <1>7, <1>18, <2>1, FilledOfNode
  <2>3. CASE k \in DOMAIN old /\ nodes[k] = old[k]
    <3>1. n \in IdsOf(old)
      BY <1>12, <2>1, <2>3
    <3>2. FilledKeys(d, keys)[n] \in ValidKeys
      BY <1>9, <3>1 DEF Complete
    <3>3. Distinct([i \in DOMAIN old |-> old[i].id])
      BY <1>9 DEF WellFormed
    <3>4. FilledKeys(d, keys)[old[k].id] =
            IF old[k].key # NoKey THEN old[k].key ELSE keys[old[k].id]
      <4>1. k \in DOMAIN d.nodes
        BY <2>3
      <4> QED
        BY <1>2, <3>3, <4>1, FilledOfNode
    <3> QED
      BY <2>1, <2>2, <2>3, <3>2, <3>4
  <2>4. ASSUME NEW i \in DOMAIN list, nodes[k] = new[i]
        PROVE  FilledKeys(e, keys)[n] \in ValidKeys
    BY <1>3, <2>2, <2>4, KeysAssumption
  <2> QED
    BY <1>6, <2>3, <2>4
<1> QED
  BY <1>1, <1>20, <1>21 DEF Savable

(* A list that a page accepts makes an acceptable draft unacceptable to    *)
(* the server only by an address that the page takes and the server        *)
(* refuses: everything else that the two check in ways of their own agrees *)
(* (app.js 1072-1154; orchestrator.go 343-407).                            *)
THEOREM ImportsFailOnlyForAddress == Spec => ImportFailsOnlyForAddress
<1> DEFINE Kept ==
      \A p \in Pages :
        (Savable(draft[p]) /\ Len(draft'[p].nodes) > Len(draft[p].nodes) /\ ImportNext(p)) =>
          \/ Savable(draft'[p])
          \/ \E i \in DOMAIN draft'[p].nodes :
               /\ i > Len(draft[p].nodes)
               /\ draft'[p].nodes[i].address \in PageTakes \ ServerTakes
<1>1. IInv /\ [Next]_vars => Kept
  <2> SUFFICES ASSUME IInv, NEW p \in Pages, Savable(draft[p]), ImportNext(p),
                      \A i \in DOMAIN draft'[p].nodes :
                        i > Len(draft[p].nodes) =>
                          draft'[p].nodes[i].address \notin PageTakes \ ServerTakes
               PROVE  Savable(draft'[p])
    BY Zenon
  <2>1. PICK list \in Seq(RawNodes), ids \in Seq(NodeIds) :
          /\ Len(ids) = Len(list) /\ Import(p, list, ids)
          /\ \A i \in DOMAIN ids : Unmentioned(ids[i])
          /\ \A i, j \in DOMAIN ids : i # j => ids[i] # ids[j]
    BY ImportNextLists
  <2> QED
    BY <2>1, ImportSavable
<1>2. Spec => [][Kept]_vars
  BY <1>1, InvariantHolds, PTL DEF Spec
<1> QED
  BY <1>2 DEF ImportFailsOnlyForAddress
=============================================================================
