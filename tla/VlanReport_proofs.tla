--------------------------- MODULE VlanReport_proofs ---------------------------
(* The form and the nightly report are right for every listing of reservations:  *)
(* group_pairs loses no value to a later run of the same key, whatever order the *)
(* pairs arrive in, and the ranges shown are of exactly the VLANs grouped.       *)
EXTENDS VlanReport, FiniteSetTheorems, WellFoundedInduction, TLAPS

-----------------------------------------------------------------------------
(* Sorting numbers *)

LEMMA LeastOf ==
  ASSUME NEW T, T \subseteq Nat, T # {}
  PROVE  \E x \in T : \A y \in T : x <= y
<1>1. PICK x \in T : \A y \in T : ~ (<<y, x>> \in OpToRel(<, Nat))
  BY NatLessThanWellFounded, WFMin, Zenon
<1>2. \A y \in T : ~(y < x)
  BY <1>1 DEF OpToRel
<1>3. QED
  BY <1>2

IsRising(s, set) ==
  /\ s \in [1..Cardinality(set) -> set]
  /\ \A i, j \in 1..Cardinality(set) : i < j => s[i] < s[j]

\* The least number comes first, and the rest is sorted after it.
LEMMA PrependLeast ==
  ASSUME NEW set \in SUBSET Nat, IsFiniteSet(set), NEW x \in set, \A y \in set : x <= y,
         NEW s, IsRising(s, set \ {x})
  PROVE  \E t : IsRising(t, set)
<1> DEFINE n == Cardinality(set)
           t == [i \in 1..n |-> IF i = 1 THEN x ELSE s[i - 1]]
<1>1. n \in Nat /\ Cardinality(set \ {x}) = n - 1 /\ n - 1 \in Nat
  <2>1. n \in Nat /\ n # 0
    BY FS_CardinalityType, FS_EmptySet
  <2>2. Cardinality(set \ {x}) = n - 1
    BY FS_RemoveElement
  <2>3. QED
    BY <2>1, <2>2
<1>2. /\ \A i \in 1..n - 1 : s[i] \in set /\ s[i] # x
      /\ \A i, j \in 1..n - 1 : i < j => s[i] < s[j]
  BY <1>1 DEF IsRising
<1>3. \A i \in 1..n : t[i] = IF i = 1 THEN x ELSE s[i - 1]
  OBVIOUS
<1>4. \A i \in 1..n : i # 1 => i - 1 \in 1..n - 1
  BY <1>1
<1>5. t \in [1..n -> set]
  BY <1>2, <1>4
<1>6. ASSUME NEW i \in 1..n, NEW j \in 1..n, i < j PROVE t[i] < t[j]
  <2> HIDE DEF t, n
  <2>1. j # 1 /\ t[j] = s[j - 1] /\ j - 1 \in 1..n - 1
    BY <1>1, <1>3, <1>4, <1>6
  <2>2. CASE i = 1
    <3>1. t[i] = x /\ s[j - 1] \in set /\ s[j - 1] # x
      BY <1>2, <1>3, <2>1, <2>2
    <3>2. x <= s[j - 1] /\ x \in Nat /\ s[j - 1] \in Nat
      BY <3>1
    <3>3. QED
      BY <2>1, <3>1, <3>2
  <2>3. CASE i # 1
    <3>1. t[i] = s[i - 1] /\ i - 1 \in 1..n - 1 /\ i - 1 < j - 1
      BY <1>1, <1>3, <1>4, <1>6, <2>3
    <3>2. QED
      BY <1>2, <2>1, <3>1
  <2>4. QED
    BY <2>2, <2>3
<1>7. QED
  BY <1>5, <1>6 DEF IsRising

\* A set of numbers without a sorted list has a smallest one, which then has one.
LEMMA SortedExists ==
  ASSUME NEW set \in SUBSET Nat, IsFiniteSet(set)
  PROVE  \E s : IsRising(s, set)
<1> DEFINE Fails(S) == S \in SUBSET Nat /\ IsFiniteSet(S) /\ ~ \E s : IsRising(s, S)
           T == {Cardinality(S) : S \in {S \in SUBSET Nat : Fails(S)}}
<1>1. SUFFICES ASSUME Fails(set) PROVE FALSE
  OBVIOUS
<1>2. T \subseteq Nat /\ T # {}
  BY <1>1, FS_CardinalityType
<1>3. PICK n \in T : \A m \in T : n <= m
  BY <1>2, LeastOf
<1>4. PICK S \in SUBSET Nat : Fails(S) /\ Cardinality(S) = n
  BY <1>3
<1>5. S # {}
  <2>1. SUFFICES ASSUME S = {} PROVE FALSE
    OBVIOUS
  <2>2. Cardinality(S) = 0
    BY <2>1, FS_EmptySet
  <2>3. [i \in 1..0 |-> i] \in [1..Cardinality(S) -> S]
    BY <2>2
  <2>4. IsRising([i \in 1..0 |-> i], S)
    BY <2>2, <2>3 DEF IsRising
  <2>5. QED
    BY <1>4, <2>4
<1>6. PICK x \in S : \A y \in S : x <= y
  BY <1>5, LeastOf
<1>7. S \ {x} \in SUBSET Nat /\ IsFiniteSet(S \ {x}) /\ Cardinality(S \ {x}) = n - 1 /\ n \in Nat
  BY <1>2, <1>4, FS_RemoveElement
<1>8. ~ Fails(S \ {x})
  <2>1. SUFFICES ASSUME Fails(S \ {x}) PROVE FALSE
    OBVIOUS
  <2>2. n - 1 \in T
    BY <1>7, <2>1
  <2>3. QED
    BY <1>3, <1>7, <2>2
<1>9. \E s : IsRising(s, S)
  BY <1>4, <1>6, <1>7, <1>8, PrependLeast
<1>10. QED
  BY <1>4, <1>9

\* What Python's sorted returns of a set of numbers: all of them, rising.
LEMMA SortedIsRising ==
  ASSUME NEW set \in SUBSET Nat, IsFiniteSet(set)
  PROVE  /\ IsRising(Sorted(set), set)
         /\ \A v \in set : \E i \in 1..Cardinality(set) : Sorted(set)[i] = v
         /\ Len(Sorted(set)) = Cardinality(set) /\ Cardinality(set) \in Nat
<1> DEFINE n == Cardinality(set)
<1>1. n \in Nat
  BY FS_CardinalityType
<1>2. PICK s : IsRising(s, set)
  BY SortedExists
<1>3. s \in SetToSeqs(set)
  <2>1. s \in [1..n -> set] /\ \A i, j \in 1..n : i < j => s[i] < s[j]
    BY <1>2 DEF IsRising
  <2>2. \A i \in 1..n : s[i] \in Nat
    BY <2>1
  <2>3. ASSUME NEW i \in 1..n, NEW j \in 1..n, i # j PROVE s[i] # s[j]
    BY <1>1, <2>1, <2>2, <2>3
  <2>4. QED
    BY <2>1, <2>3 DEF SetToSeqs
<1>4. \A t \in SetToSeqs(set) : t \in [1..n -> set] /\ DOMAIN t = 1..n /\ (\A i, j \in 1..n : i # j => t[i] # t[j])
  BY DEF SetToSeqs
<1>5. \E t \in SetToSeqs(set) : \A i, j \in DOMAIN t : i < j => t[i] < t[j]
  BY <1>2, <1>3, <1>4 DEF IsRising
<1>6. Sorted(set) \in SetToSeqs(set) /\ \A i, j \in DOMAIN Sorted(set) : i < j => Sorted(set)[i] < Sorted(set)[j]
  BY <1>5 DEF Sorted
<1> DEFINE r == Sorted(set)
<1> HIDE DEF r
<1>7. r \in [1..n -> set] /\ DOMAIN r = 1..n /\ (\A i, j \in 1..n : i # j => r[i] # r[j])
      /\ \A i, j \in 1..n : i < j => r[i] < r[j]
  BY <1>4, <1>6 DEF r
<1>8. \A v \in set : \E i \in 1..n : r[i] = v
  <2>1. r \in Injection(1..n, set)
    BY <1>7 DEF Injection, IsInjective
  <2>2. IsFiniteSet(1..n) /\ Cardinality(1..n) = n
    BY <1>1, FS_Interval
  <2>3. r \in Surjection(1..n, set)
    BY <2>1, <2>2, FS_Injection
  <2>4. QED
    BY <2>3 DEF Surjection
<1>9. Len(r) = n
  BY <1>1, <1>7
<1>10. QED
  BY <1>1, <1>7, <1>8, <1>9 DEF r, IsRising

-----------------------------------------------------------------------------
(* Ranges *)

\* Along a rising list of numbers, the number less its place never falls.
LEMMA OffsetNeverFalls ==
  ASSUME NEW n \in Nat, NEW r \in [1..n -> Nat], \A i, j \in 1..n : i < j => r[i] < r[j],
         NEW i \in 1..n, NEW j \in 1..n, i <= j
  PROVE  r[j] >= r[i] + (j - i)
<1> DEFINE Bad == {k \in 1..n : i <= k /\ ~(r[k] >= r[i] + (k - i))}
<1>1. SUFFICES ASSUME Bad # {} PROVE FALSE
  OBVIOUS
<1>2. PICK k \in Bad : \A l \in Bad : k <= l
  <2>1. Bad \subseteq Nat
    OBVIOUS
  <2> HIDE DEF Bad
  <2>2. QED
    BY <1>1, <2>1, LeastOf
<1>3. k # i /\ k \in 1..n /\ i <= k
  <2>1. r[i] \in Nat /\ k \in 1..n /\ i <= k /\ ~(r[k] >= r[i] + (k - i))
    BY <1>2
  <2>2. QED
    BY <2>1
<1>4. k - 1 \in 1..n /\ i <= k - 1 /\ k - 1 \notin Bad
  BY <1>2, <1>3
<1>5. r[k - 1] >= r[i] + (k - 1 - i)
  BY <1>4
<1>6. r[k] > r[k - 1] /\ r[k] \in Nat /\ r[k - 1] \in Nat /\ r[i] \in Nat
  BY <1>3, <1>4
<1>7. r[k] >= r[i] + (k - i)
  BY <1>5, <1>6, <1>3
<1>8. QED
  BY <1>2, <1>7

LEMMA MinOf ==
  ASSUME NEW S, S \subseteq Nat, S # {}
  PROVE  Min(S) \in S /\ \A y \in S : Min(S) <= y
<1>1. \E x \in S : \A y \in S : x <= y
  BY LeastOf
<1>2. QED
  BY <1>1 DEF Min

\* The greatest of a bounded set has the least distance to the bound.
LEMMA MaxOf ==
  ASSUME NEW n \in Nat, NEW S \in SUBSET (1..n), S # {}
  PROVE  Max(S) \in S /\ \A y \in S : Max(S) >= y
<1> DEFINE D == {n - y : y \in S}
<1>1. D \subseteq Nat /\ D # {}
  <2>1. \A y \in S : n - y \in Nat
    OBVIOUS
  <2>2. PICK y : y \in S
    OBVIOUS
  <2>3. n - y \in D
    BY <2>2
  <2>4. QED
    BY <2>1, <2>3
<1>2. PICK d \in D : \A e \in D : d <= e
  BY <1>1, LeastOf
<1>3. PICK x \in S : d = n - x
  BY <1>2
<1>4. \A y \in S : n - x <= n - y
  BY <1>2, <1>3
<1>5. \A y \in S : x >= y
  BY <1>4
<1>6. QED
  BY <1>5 DEF Max

\* collapse_ranges of a rising list: the runs cover what is in the list and nothing else.
LEMMA CollapseCovers ==
  ASSUME NEW set \in SUBSET Nat, NEW r, IsRising(r, set), NEW n \in Nat, n = Cardinality(set), Len(r) = n,
         \A v \in set : \E i \in 1..n : r[i] = v
  PROVE  VlanSet(CollapseRanges(r)) = set
<1> DEFINE Offset(i) == r[i] + Len(r) - i
           Run(i) == {j \in DOMAIN r : Offset(j) = Offset(i)}
<1>1. DOMAIN r = 1..n /\ r \in [1..n -> set] /\ r \in [1..n -> Nat] /\ \A i, j \in 1..n : i < j => r[i] < r[j]
  BY DEF IsRising
<1>2. CollapseRanges(r) = {<<r[Min(Run(i))], r[Max(Run(i))]>> : i \in 1..n}
  BY <1>1 DEF CollapseRanges
<1>3. \A v : v \in VlanSet(CollapseRanges(r)) <=> \E i \in 1..n : v \in r[Min(Run(i))]..r[Max(Run(i))]
  <2> HIDE DEF Run
  <2>1. \A low, high, C, v : C = {<<low[i], high[i]>> : i \in 1..n} =>
          (v \in VlanSet(C) <=> \E i \in 1..n : v \in low[i]..high[i])
    <3>1. SUFFICES ASSUME NEW low, NEW high, NEW C, C = {<<low[i], high[i]>> : i \in 1..n}, NEW v
                   PROVE  v \in VlanSet(C) <=> \E i \in 1..n : v \in low[i]..high[i]
      OBVIOUS
    <3>2. v \in VlanSet(C) <=> \E range \in C : v \in range[1]..range[2]
      BY DEF VlanSet
    <3>3. ASSUME NEW i \in 1..n, v \in low[i]..high[i] PROVE \E range \in C : v \in range[1]..range[2]
      <4>1. <<low[i], high[i]>> \in C
        BY <3>1
      <4>2. <<low[i], high[i]>>[1] = low[i] /\ <<low[i], high[i]>>[2] = high[i]
        OBVIOUS
      <4>3. QED
        BY <3>3, <4>1, <4>2, Zenon
    <3>4. ASSUME NEW range \in C, v \in range[1]..range[2] PROVE \E i \in 1..n : v \in low[i]..high[i]
      BY <3>1, <3>4
    <3>5. QED
      BY <3>2, <3>3, <3>4
  <2>2. PICK low, high : low = [i \in 1..n |-> r[Min(Run(i))]] /\ high = [i \in 1..n |-> r[Max(Run(i))]]
    OBVIOUS
  <2>3. \A i \in 1..n : low[i] = r[Min(Run(i))] /\ high[i] = r[Max(Run(i))]
    BY <2>2
  <2>4. CollapseRanges(r) = {<<low[i], high[i]>> : i \in 1..n}
    BY <1>2, <2>3
  <2>5. \A v : v \in VlanSet(CollapseRanges(r)) <=> \E i \in 1..n : v \in low[i]..high[i]
    BY <2>1, <2>4, Zenon
  <2>6. QED
    BY <2>3, <2>5
<1>4. ASSUME NEW i \in 1..n
      PROVE  \E a, b \in 1..n : /\ a = Min(Run(i)) /\ b = Max(Run(i)) /\ a <= i /\ i <= b
                                /\ r[b] - b = r[a] - a
  <2>1. \A j \in 1..n : r[j] \in Nat
    BY <1>1
  <2>2. Run(i) = {j \in 1..n : r[j] + n - j = r[i] + n - i}
    BY <1>1
  <2> HIDE DEF Run
  <2>3. i \in Run(i) /\ Run(i) \in SUBSET (1..n) /\ Run(i) \subseteq Nat /\ Run(i) # {}
    BY <2>2
  <2>4. Min(Run(i)) \in Run(i) /\ Max(Run(i)) \in Run(i) /\ Min(Run(i)) <= i /\ Max(Run(i)) >= i
    BY <2>3, MinOf, MaxOf
  <2>5. PICK a, b \in 1..n : a = Min(Run(i)) /\ b = Max(Run(i))
    BY <2>3, <2>4
  <2>6. r[a] + n - a = r[i] + n - i /\ r[b] + n - b = r[i] + n - i
    BY <2>2, <2>4, <2>5
  <2>7. r[b] - b = r[a] - a
    <3>1. \A x, y, z \in Nat : x + n - a = z /\ y + n - b = z => y - b = x - a
      OBVIOUS
    <3>2. r[a] \in Nat /\ r[b] \in Nat /\ r[i] + n - i \in Nat
      BY <2>1
    <3>3. QED
      BY <2>6, <3>1, <3>2
  <2>8. QED
    BY <2>4, <2>5, <2>7
<1> HIDE DEF Run, Offset
<1>5. ASSUME NEW i \in 1..n PROVE r[i] \in r[Min(Run(i))]..r[Max(Run(i))]
  <2>1. PICK a, b \in 1..n : a = Min(Run(i)) /\ b = Max(Run(i)) /\ a <= i /\ i <= b
    BY <1>4
  <2>2. r[a] \in Nat /\ r[i] \in Nat /\ r[b] \in Nat /\ r[a] <= r[i] /\ r[i] <= r[b]
    BY <1>1, <2>1
  <2>3. QED
    BY <2>1, <2>2
<1>6. ASSUME NEW i \in 1..n, NEW v \in r[Min(Run(i))]..r[Max(Run(i))] PROVE v \in set
  <2>1. PICK a, b \in 1..n : a = Min(Run(i)) /\ b = Max(Run(i)) /\ a <= b /\ r[b] - b = r[a] - a
    BY <1>4
  <2>2. r[a] \in Nat /\ r[b] \in Nat /\ v \in r[a]..r[b]
    BY <1>1, <1>6, <2>1
  <2>3. PICK k \in 1..n : k = a + (v - r[a]) /\ a <= k /\ k <= b
    <3>1. a <= a + (v - r[a]) /\ a + (v - r[a]) <= b
      BY <2>1, <2>2
    <3>2. a + (v - r[a]) \in 1..n
      BY <2>2, <3>1
    <3>3. QED
      BY <3>1, <3>2
  <2>4. r[k] >= r[a] + (k - a) /\ r[b] >= r[k] + (b - k)
    BY <1>1, <2>3, OffsetNeverFalls
  <2>5. r[k] \in Nat
    BY <1>1
  <2>6. v = r[a] + (k - a) /\ v \in Nat
    BY <2>2, <2>3
  <2>7. r[k] <= r[a] + (k - a)
    <3>1. \A x, y, z \in Nat : y - b = x - a /\ y >= z + (b - k) => z <= x + (k - a)
      OBVIOUS
    <3>2. QED
      BY <2>1, <2>2, <2>4, <2>5, <3>1
  <2>8. r[k] = v
    BY <2>2, <2>4, <2>5, <2>6, <2>7
  <2>9. QED
    BY <1>1, <2>8
<1>7. ASSUME NEW v \in set PROVE v \in VlanSet(CollapseRanges(r))
  BY <1>3, <1>5
<1>8. ASSUME NEW v \in VlanSet(CollapseRanges(r)) PROVE v \in set
  BY <1>3, <1>6
<1>9. QED
  BY <1>7, <1>8

\* sorted, then collapse_ranges: the ranges are of exactly the numbers of the set.
THEOREM RangesAreExact ==
  ASSUME NEW set \in SUBSET Nat, IsFiniteSet(set)
  PROVE  VlanSet(CollapseRanges(Sorted(set))) = set
BY SortedIsRising, CollapseCovers

-----------------------------------------------------------------------------
(* What is grouped *)

Held == AtAggregator \cup AtUpas

\* The pairs of the call of group_pairs that runs.
Pairs ==
  CASE call = "group_by_stp" -> PairsOf(AtAggregator)
    [] call = "_holders" -> Held
    [] call = "_findings" -> {<<<<h[1][1], h[2]>>, h[1][2]>> : h \in {h \in Held : h[1] \in section}}
    [] OTHER -> {}

Grouping == call \in {"group_by_stp", "_holders", "_findings"}

Taken == Pairs \ rest

Precedes(j, k) == Before(SortKey(j), SortKey(k))

CallOK == call \in {"none", "group_by_stp", "_holders", "_findings", "form", "report"}

ListedOK == aggregator \subseteq AggregatorReservations /\ upas \subseteq UpaReservations

SectionOK == call \in {"_holders", "_findings"} => section \subseteq PairsOf(Held)

\* Nothing that is still to be taken sorts before what was taken.
RestIsBehind == rest \subseteq Pairs /\ \A t \in Taken, r \in rest : ~Precedes(r[1], t[1])

\* The last run is of a key that no taken key sorts after.
CurrentIsLast ==
  IF Taken = {} THEN current = <<>>
  ELSE \E t \in Taken : current = <<t[1]>> /\ \A o \in Taken : ~Precedes(t[1], o[1])

\* The dict has the values of all that was taken, by key.
GroupedSoFar ==
  /\ DOMAIN grouped = {t[1] : t \in Taken}
  /\ \A k \in DOMAIN grouped : grouped[k] = {t[2] : t \in {t \in Taken : t[1] = k}}

GroupingOK == Grouping => RestIsBehind /\ CurrentIsLast /\ GroupedSoFar

ReportInv ==
  /\ CallOK /\ ListedOK /\ SectionOK /\ GroupingOK
  /\ OffersExactlyTheFree /\ ReportNamesEveryHolder


-----------------------------------------------------------------------------
(* The order of the keys *)

\* Two keys of one length that neither sorts before the other are the same.
LEMMA OrderIsTotal ==
  ASSUME NEW n \in Nat, NEW s \in [1..n -> Nat], NEW t \in [1..n -> Nat], ~Before(s, t), ~Before(t, s)
  PROVE  s = t
<1> DEFINE D == {i \in 1..n : s[i] # t[i]}
<1>1. SUFFICES ASSUME D # {} PROVE FALSE
  OBVIOUS
<1>2. D \subseteq Nat
  OBVIOUS
<1>3. PICK i \in D : \A j \in D : i <= j
  <2> HIDE DEF D
  <2>1. QED
    BY <1>1, <1>2, LeastOf
<1>4. i \in 1..n /\ s[i] # t[i] /\ s[i] \in Nat /\ t[i] \in Nat
  BY <1>3
<1>5. \A j \in 1..i - 1 : s[j] = t[j]
  BY <1>3, <1>4
<1>6. DOMAIN s = 1..n /\ DOMAIN t = 1..n
  OBVIOUS
<1>7. s[i] < t[i] \/ t[i] < s[i]
  BY <1>4
<1>8. QED
  BY <1>4, <1>5, <1>6, <1>7 DEF Before

LEMMA NothingBeforeItself == ASSUME NEW n \in Nat, NEW s \in [1..n -> Nat] PROVE ~Before(s, s)
<1>1. \A i \in DOMAIN s : ~(s[i] < s[i])
  OBVIOUS
<1>2. QED
  BY <1>1 DEF Before

HolderSet == [side : {"aggregator", "uPA"}, connection_id : Nat, child_connection_id : Nat]

\* Who holds what: an STP and a VLAN of numbers, and a holder whose side its id tells.
LEMMA HeldTyped ==
  ASSUME ListedOK
  PROVE  /\ Held \subseteq (Nat \X Vlans) \X HolderSet
         /\ AtAggregator \subseteq (Nat \X Vlans) \X HolderSet
         /\ \A h \in Held : \/ h[2].side = "aggregator" /\ \E r \in AggregatorReservations : h[2].connection_id = r.connection_id
                            \/ h[2].side = "uPA" /\ \E u \in UpaReservations : h[2].connection_id = u.connection_id
<1>1. ASSUME NEW endpoints, \A e \in endpoints : e[1] \in Nat /\ VlanSet(e[2]) \subseteq Vlans, NEW holder \in HolderSet
      PROVE  HeldAs(endpoints, holder) \subseteq (Nat \X Vlans) \X {holder}
  <2>1. \A e \in endpoints : EndpointVlanPairs(e) \subseteq Nat \X Vlans
    BY <1>1 DEF EndpointVlanPairs
  <2>2. UNION {EndpointVlanPairs(e) : e \in endpoints} \subseteq Nat \X Vlans
    BY <2>1
  <2>3. QED
    BY <2>2 DEF HeldAs
<1>2. ASSUME NEW r \in AggregatorReservations, NEW h \in ReservationHeldVlans(r)
      PROVE  /\ h \in (Nat \X Vlans) \X HolderSet
             /\ h[2].side = "aggregator" /\ h[2].connection_id = r.connection_id
  <2>1. /\ r.connection_id \in Nat /\ \A e \in r.endpoints : e[1] \in Nat /\ VlanSet(e[2]) \subseteq Vlans
        /\ \A s \in r.segments : s.connection_id \in Nat /\ \A e \in s.endpoints : e[1] \in Nat /\ VlanSet(e[2]) \subseteq Vlans
    BY EndpointsAssumption
  <2>2. \A c \in Nat : /\ Holder("aggregator", r.connection_id, c) \in HolderSet
                       /\ Holder("aggregator", r.connection_id, c).side = "aggregator"
                       /\ Holder("aggregator", r.connection_id, c).connection_id = r.connection_id
    BY <2>1 DEF Holder, HolderSet
  <2>3. \/ h \in HeldAs(r.endpoints, Holder("aggregator", r.connection_id, 0))
        \/ \E s \in r.segments : h \in HeldAs(s.endpoints, Holder("aggregator", r.connection_id, s.connection_id))
    BY <1>2 DEF ReservationHeldVlans
  <2>4. \E c \in Nat : h \in (Nat \X Vlans) \X {Holder("aggregator", r.connection_id, c)}
    <3>1. CASE h \in HeldAs(r.endpoints, Holder("aggregator", r.connection_id, 0))
      BY <1>1, <2>1, <2>2, <3>1
    <3>2. ASSUME NEW s \in r.segments, h \in HeldAs(s.endpoints, Holder("aggregator", r.connection_id, s.connection_id))
          PROVE  \E c \in Nat : h \in (Nat \X Vlans) \X {Holder("aggregator", r.connection_id, c)}
      BY <1>1, <2>1, <2>2, <3>2
    <3>3. QED
      BY <2>3, <3>1, <3>2
  <2>5. PICK c \in Nat : h \in (Nat \X Vlans) \X {Holder("aggregator", r.connection_id, c)}
    BY <2>4
  <2>6. h[2] = Holder("aggregator", r.connection_id, c)
    BY <2>5
  <2>7. QED
    BY <2>2, <2>5, <2>6
<1>3. ASSUME NEW u \in UpaReservations, NEW h \in UpaHeldVlans(u)
      PROVE  /\ h \in (Nat \X Vlans) \X HolderSet
             /\ h[2].side = "uPA" /\ h[2].connection_id = u.connection_id
  <2>1. u.connection_id \in Nat /\ \A e \in u.endpoints : e[1] \in Nat /\ VlanSet(e[2]) \subseteq Vlans
    BY EndpointsAssumption
  <2>2. /\ Holder("uPA", u.connection_id, 0) \in HolderSet
        /\ Holder("uPA", u.connection_id, 0).side = "uPA"
        /\ Holder("uPA", u.connection_id, 0).connection_id = u.connection_id
    BY <2>1 DEF Holder, HolderSet
  <2>3. h \in (Nat \X Vlans) \X {Holder("uPA", u.connection_id, 0)}
    BY <1>1, <1>3, <2>1, <2>2 DEF UpaHeldVlans
  <2>4. h[2] = Holder("uPA", u.connection_id, 0)
    BY <2>3
  <2>5. QED
    BY <2>2, <2>3, <2>4
<1>4. AtAggregator \subseteq (Nat \X Vlans) \X HolderSet
  BY <1>2 DEF AtAggregator, ListedOK
<1>5. AtUpas \subseteq (Nat \X Vlans) \X HolderSet
  BY <1>3 DEF AtUpas, ListedOK
<1>6. ASSUME NEW h \in Held
      PROVE  \/ h[2].side = "aggregator" /\ \E r \in AggregatorReservations : h[2].connection_id = r.connection_id
             \/ h[2].side = "uPA" /\ \E u \in UpaReservations : h[2].connection_id = u.connection_id
  <2>1. CASE h \in AtAggregator
    BY <1>2, <2>1 DEF AtAggregator, ListedOK
  <2>2. CASE h \in AtUpas
    BY <1>3, <2>2 DEF AtUpas, ListedOK
  <2>3. QED
    BY <1>6, <2>1, <2>2 DEF Held
<1>7. QED
  BY <1>4, <1>5, <1>6 DEF Held


\* The sort keys of the pairs are lists of numbers of one length, one for each key.
LEMMA SortKeysTyped ==
  ASSUME ListedOK, Grouping
  PROVE  \E n \in Nat : \A p \in Pairs : SortKey(p[1]) \in [1..n -> Nat]
                      /\ \A q \in Pairs : SortKey(p[1]) = SortKey(q[1]) => p[1] = q[1]
<1>0. \A a, b, c \in Nat : <<a>> \in [1..1 -> Nat] /\ <<a, b>> \in [1..2 -> Nat] /\ <<a, b, c>> \in [1..3 -> Nat]
  OBVIOUS
<1>1. CASE call = "group_by_stp"
  <2>1. Pairs = {h[1] : h \in AtAggregator}
    BY <1>1 DEF Pairs, PairsOf
  <2>2. \A p \in Pairs : p[1] \in Nat
    BY <2>1, HeldTyped
  <2>3. \A k : SortKey(k) = <<k>>
    BY <1>1 DEF SortKey
  <2>4. QED
    BY <1>0, <2>2, <2>3
<1>2. CASE call = "_holders"
  <2>1. Pairs = Held
    BY <1>2 DEF Pairs
  <2>2. \A p \in Pairs : p[1] \in Nat \X Nat
    BY <2>1, HeldTyped, VlansAssumption
  <2>3. \A k : SortKey(k) = k
    BY <1>2 DEF SortKey
  <2>4. \A k \in Nat \X Nat : k \in [1..2 -> Nat]
    BY <1>0
  <2>5. \A p \in Pairs : SortKey(p[1]) \in [1..2 -> Nat] /\ \A q \in Pairs : SortKey(p[1]) = SortKey(q[1]) => p[1] = q[1]
    BY <2>2, <2>3, <2>4
  <2>6. QED
    BY <2>5
<1>3. CASE call = "_findings"
  <2>1. Pairs = {<<<<h[1][1], h[2]>>, h[1][2]>> : h \in {h \in Held : h[1] \in section}}
    BY <1>3 DEF Pairs
  <2>2. \A p \in Pairs : \E h \in Held : p[1] = <<h[1][1], h[2]>>
    BY <2>1
  <2>3. \A a, b : SortKey(<<a, b>>) = <<a, b.connection_id, b.child_connection_id>>
    BY <1>3 DEF SortKey
  <2>4. \A p \in Pairs : SortKey(p[1]) \in [1..3 -> Nat]
    <3>1. SUFFICES ASSUME NEW p \in Pairs PROVE SortKey(p[1]) \in [1..3 -> Nat]
      OBVIOUS
    <3>2. PICK h \in Held : p[1] = <<h[1][1], h[2]>>
      BY <2>2
    <3>3. h[1][1] \in Nat /\ h[2].connection_id \in Nat /\ h[2].child_connection_id \in Nat
      BY HeldTyped DEF HolderSet
    <3>4. SortKey(p[1]) = <<h[1][1], h[2].connection_id, h[2].child_connection_id>>
      BY <2>3, <3>2
    <3>5. QED
      BY <1>0, <3>3, <3>4
  <2>5. ASSUME NEW p \in Pairs, NEW q \in Pairs, SortKey(p[1]) = SortKey(q[1]) PROVE p[1] = q[1]
    <3>1. PICK h \in Held : p[1] = <<h[1][1], h[2]>>
      BY <2>2
    <3>2. PICK g \in Held : q[1] = <<g[1][1], g[2]>>
      BY <2>2
    <3>0. /\ SortKey(p[1]) = <<h[1][1], h[2].connection_id, h[2].child_connection_id>>
          /\ SortKey(q[1]) = <<g[1][1], g[2].connection_id, g[2].child_connection_id>>
      BY <2>3, <3>1, <3>2
    <3>3. h[1][1] = g[1][1] /\ h[2].connection_id = g[2].connection_id /\ h[2].child_connection_id = g[2].child_connection_id
      <4>1. \A a, b, c, x, y, z : <<a, b, c>> = <<x, y, z>> => a = x /\ b = y /\ c = z
        OBVIOUS
      <4>2. <<h[1][1], h[2].connection_id, h[2].child_connection_id>> = <<g[1][1], g[2].connection_id, g[2].child_connection_id>>
        BY <2>5, <3>0, Zenon
      <4> HIDE <2>5, <3>0
      <4>3. QED
        BY <4>1, <4>2
    <3>4. h[2].side = g[2].side
      BY <3>3, HeldTyped, IdsAssumption
    <3>5. h[2] \in HolderSet /\ g[2] \in HolderSet
      BY HeldTyped
    <3>6. h[2] = g[2]
      BY <3>3, <3>4, <3>5 DEF HolderSet
    <3>7. QED
      BY <3>1, <3>2, <3>3, <3>6
  <2>6. QED
    BY <2>4, <2>5
<1>4. QED
  BY <1>1, <1>2, <1>3 DEF Grouping

LEMMA PrecedesOrdersKeys ==
  ASSUME ListedOK, Grouping, NEW p \in Pairs, NEW q \in Pairs
  PROVE  ~Precedes(p[1], p[1]) /\ (~Precedes(p[1], q[1]) /\ ~Precedes(q[1], p[1]) => p[1] = q[1])
<1>1. PICK n \in Nat : /\ SortKey(p[1]) \in [1..n -> Nat] /\ SortKey(q[1]) \in [1..n -> Nat]
                       /\ SortKey(p[1]) = SortKey(q[1]) => p[1] = q[1]
  BY SortKeysTyped
<1>2. ~Before(SortKey(p[1]), SortKey(p[1]))
  BY <1>1, NothingBeforeItself
<1>3. ~Before(SortKey(p[1]), SortKey(q[1])) /\ ~Before(SortKey(q[1]), SortKey(p[1])) => SortKey(p[1]) = SortKey(q[1])
  BY <1>1, OrderIsTotal
<1>4. QED
  BY <1>1, <1>2, <1>3 DEF Precedes


-----------------------------------------------------------------------------
(* The runs of group_pairs *)

LEMMA SameCall ==
  ASSUME UNCHANGED <<aggregator, upas, call, section>>
  PROVE  Pairs' = Pairs /\ Grouping' = Grouping /\ \A j, k : Precedes(j, k)' <=> Precedes(j, k)
<1>1. Pairs' = Pairs
  BY Zenon DEF Pairs, Held, AtAggregator, AtUpas
<1>2. \A k : SortKey(k)' = SortKey(k)
  BY DEF SortKey
<1>3. \A j, k : Precedes(j, k)' <=> Precedes(j, k)
  BY <1>2 DEF Precedes, Before
<1>4. QED
  BY <1>1, <1>3 DEF Grouping

\* A pair whose key was taken before goes on with that key's run: the sort brings all
\* pairs of a key together, so that no run starts over and loses the values before.
LEMMA RunsAreWhole ==
  ASSUME ListedOK, Grouping, RestIsBehind, CurrentIsLast, GroupedSoFar, NEW pair \in rest
  PROVE  current = <<pair[1]>> <=> pair[1] \in DOMAIN grouped
<1>1. ASSUME current = <<pair[1]>> PROVE pair[1] \in DOMAIN grouped
  <2>1. Taken # {}
    BY <1>1 DEF CurrentIsLast
  <2>2. PICK t \in Taken : current = <<t[1]>>
    BY <2>1 DEF CurrentIsLast
  <2>3. t[1] = pair[1]
    BY <1>1, <2>2
  <2>4. QED
    BY <2>2, <2>3 DEF GroupedSoFar
<1>2. ASSUME pair[1] \in DOMAIN grouped PROVE current = <<pair[1]>>
  <2>1. PICK o \in Taken : o[1] = pair[1]
    BY <1>2 DEF GroupedSoFar
  <2>2. PICK t \in Taken : current = <<t[1]>> /\ ~Precedes(t[1], o[1])
    BY <2>1 DEF CurrentIsLast
  <2>3. ~Precedes(t[1], pair[1]) /\ ~Precedes(pair[1], t[1])
    BY <2>1, <2>2 DEF RestIsBehind
  <2>4. t \in Pairs /\ pair \in Pairs
    BY DEF Taken, RestIsBehind
  <2>5. t[1] = pair[1]
    BY <2>3, <2>4, PrecedesOrdersKeys
  <2>6. QED
    BY <2>2, <2>5
<1>3. QED
  BY <1>1, <1>2

LEMMA TakeKeepsGroups == ASSUME ListedOK, GroupingOK, Take PROVE GroupingOK'
<1>1. PICK pair \in rest :
         /\ \A other \in rest : ~Precedes(other[1], pair[1])
         /\ grouped' = [k \in DOMAIN grouped \cup {pair[1]} |->
                          IF k = pair[1] THEN (IF current = <<pair[1]>> THEN grouped[pair[1]] ELSE {}) \cup {pair[2]}
                          ELSE grouped[k]]
         /\ current' = <<pair[1]>> /\ rest' = rest \ {pair}
         /\ UNCHANGED <<aggregator, upas, call, section, shown>>
  BY Zenon DEF Take, Precedes
<1>2. Pairs' = Pairs /\ Grouping' = Grouping /\ \A j, k : Precedes(j, k)' <=> Precedes(j, k)
  BY <1>1, SameCall
<1>3. SUFFICES ASSUME Grouping PROVE RestIsBehind' /\ CurrentIsLast' /\ GroupedSoFar'
  BY <1>2 DEF GroupingOK
<1>4. RestIsBehind /\ CurrentIsLast /\ GroupedSoFar /\ rest \subseteq Pairs
  BY <1>3 DEF GroupingOK, RestIsBehind
<1>5. Taken' = Taken \cup {pair} /\ pair \notin Taken /\ Taken \subseteq Pairs
  BY <1>1, <1>2, <1>4 DEF Taken
<1>6. \A t \in Taken : ~Precedes(pair[1], t[1])
  BY <1>4 DEF RestIsBehind
<1>7. ~Precedes(pair[1], pair[1])
  BY <1>3, <1>4, PrecedesOrdersKeys
<1>8. RestIsBehind'
  <2>1. rest' \subseteq Pairs'
    BY <1>1, <1>2, <1>4
  <2>2. ASSUME NEW t \in Taken \cup {pair}, NEW r \in rest' PROVE ~Precedes(r[1], t[1])
    BY <1>1, <1>4, <2>2 DEF RestIsBehind
  <2>3. QED
    BY <1>2, <1>5, <2>1, <2>2 DEF RestIsBehind
<1>9. CurrentIsLast'
  <2>1. pair \in Taken' /\ Taken' # {}
    BY <1>5
  <2>2. \A o \in Taken' : ~Precedes(pair[1], o[1])
    BY <1>5, <1>6, <1>7
  <2>3. QED
    BY <1>1, <1>2, <2>1, <2>2 DEF CurrentIsLast
<1>10. GroupedSoFar'
  <2>1. current = <<pair[1]>> <=> pair[1] \in DOMAIN grouped
    BY <1>3, <1>4, RunsAreWhole
  <2>2. /\ DOMAIN grouped' = DOMAIN grouped \cup {pair[1]}
        /\ \A k \in DOMAIN grouped : k # pair[1] => grouped'[k] = grouped[k]
        /\ grouped'[pair[1]] = (IF pair[1] \in DOMAIN grouped THEN grouped[pair[1]] ELSE {}) \cup {pair[2]}
    BY <1>1, <2>1
  <2>3. /\ DOMAIN grouped = {t[1] : t \in Taken}
        /\ \A k \in DOMAIN grouped : grouped[k] = {t[2] : t \in {t \in Taken : t[1] = k}}
    BY <1>4 DEF GroupedSoFar
  <2>4. DOMAIN grouped' = {t[1] : t \in Taken'}
    BY <1>5, <2>2, <2>3
  <2>5. ASSUME NEW k \in DOMAIN grouped' PROVE grouped'[k] = {t[2] : t \in {t \in Taken' : t[1] = k}}
    <3>1. CASE k # pair[1]
      <4>1. k \in DOMAIN grouped /\ grouped'[k] = grouped[k]
        BY <2>2, <2>5, <3>1
      <4>2. {t \in Taken' : t[1] = k} = {t \in Taken : t[1] = k}
        BY <1>5, <3>1
      <4>3. QED
        BY <2>3, <4>1, <4>2
    <3>2. CASE k = pair[1]
      <4>1. {t \in Taken' : t[1] = k} = {t \in Taken : t[1] = k} \cup {pair}
        BY <1>5, <3>2
      <4>2. {t[2] : t \in {t \in Taken' : t[1] = k}} = {t[2] : t \in {t \in Taken : t[1] = k}} \cup {pair[2]}
        BY <4>1
      <4>3. (IF pair[1] \in DOMAIN grouped THEN grouped[pair[1]] ELSE {}) = {t[2] : t \in {t \in Taken : t[1] = k}}
        BY <2>3, <3>2
      <4>4. QED
        BY <2>2, <3>2, <4>2, <4>3
    <3>3. QED
      BY <3>1, <3>2
  <2>6. QED
    BY <2>4, <2>5 DEF GroupedSoFar
<1>11. QED
  BY <1>8, <1>9, <1>10

\* A call starts with nothing taken.
LEMMA CallStartsGroups ==
  ASSUME NEW caller, GroupPairs(caller, Pairs')
  PROVE  GroupingOK'
<1>1. rest' = Pairs' /\ current' = <<>> /\ grouped' = <<>>
  BY DEF GroupPairs
<1>2. Taken' = {}
  BY <1>1 DEF Taken
<1>3. DOMAIN grouped' = {}
  <2>1. \A f : f = <<>> => DOMAIN f = {}
    OBVIOUS
  <2>2. QED
    BY <1>1, <2>1
<1>4. RestIsBehind' /\ CurrentIsLast'
  BY <1>1, <1>2 DEF RestIsBehind, CurrentIsLast
<1>5. GroupedSoFar'
  BY <1>2, <1>3 DEF GroupedSoFar
<1>6. QED
  BY <1>4, <1>5 DEF GroupingOK

\* When all pairs are taken, the dict has every key with all its values.
LEMMA GroupsAreComplete ==
  ASSUME GroupingOK, Grouping, rest = {}
  PROVE  /\ DOMAIN grouped = {p[1] : p \in Pairs}
         /\ \A k \in DOMAIN grouped : grouped[k] = {p[2] : p \in {p \in Pairs : p[1] = k}}
<1>1. Taken = Pairs
  BY DEF Taken
<1>2. QED
  BY <1>1 DEF GroupingOK, GroupedSoFar


-----------------------------------------------------------------------------
(* What is shown *)

\* The dict of the VLANs in use has an STP's VLANs, which stp_selector takes off.
LEMMA SelectorOffersFree == ASSUME ListedOK, GroupingOK, StpSelector PROVE OffersExactlyTheFree'
<1>1. /\ call = "group_by_stp" /\ rest = {} /\ call' = "form" /\ AtAggregator' = AtAggregator
      /\ shown' = {[stp |-> stp, vlans |-> AvailableVlanRanges(stp, IF stp \in DOMAIN grouped THEN grouped[stp] ELSE {})] :
                      stp \in Stps}
  BY DEF StpSelector, Grouped, AtAggregator
<1>2. /\ Grouping /\ Pairs = {h[1] : h \in AtAggregator}
  BY <1>1 DEF Grouping, Pairs, PairsOf
<1>3. /\ DOMAIN grouped = {p[1] : p \in Pairs}
      /\ \A k \in DOMAIN grouped : grouped[k] = {p[2] : p \in {p \in Pairs : p[1] = k}}
  BY <1>1, <1>2, GroupsAreComplete
<1>4. \A p \in Pairs : p = <<p[1], p[2]>>
  BY <1>2, HeldTyped
<1>5. ASSUME NEW stp \in Stps, NEW v
      PROVE  v \in (IF stp \in DOMAIN grouped THEN grouped[stp] ELSE {}) <=> <<stp, v>> \in Pairs
  BY <1>3, <1>4
<1>6. ASSUME NEW stp \in Stps
      PROVE  VlanSet(AvailableVlanRanges(stp, IF stp \in DOMAIN grouped THEN grouped[stp] ELSE {})) =
               {v \in VlanSet(label_group[stp]) : <<stp, v>> \notin Pairs}
  <2> DEFINE free == VlanSet(label_group[stp]) \ (IF stp \in DOMAIN grouped THEN grouped[stp] ELSE {})
  <2>1. free = {v \in VlanSet(label_group[stp]) : <<stp, v>> \notin Pairs}
    BY <1>5
  <2>2. free \in SUBSET Vlans
    BY LabelsAssumption
  <2>3. free \in SUBSET Nat /\ IsFiniteSet(free)
    BY <2>2, VlansAssumption, FS_Subset
  <2> HIDE DEF free
  <2>4. VlanSet(CollapseRanges(Sorted(free))) = free
    BY <2>3, RangesAreExact
  <2>5. QED
    BY <2>1, <2>4 DEF AvailableVlanRanges, free
<1>7. PairsOf(AtAggregator') = Pairs
  BY <1>1, <1>2 DEF PairsOf
<1>8. ASSUME NEW option \in shown'
      PROVE  VlanSet(option.vlans) = {v \in VlanSet(label_group[option.stp]) : <<option.stp, v>> \notin Pairs}
  BY <1>1, <1>6, <1>8
<1>9. QED
  BY <1>7, <1>8 DEF OffersExactlyTheFree

\* _findings takes the holders of each pair of the section from the dict of _holders:
\* together they are the reservations that hold it, on either side.
LEMMA FindingsGroupTheHeld ==
  ASSUME ListedOK, SectionOK, GroupingOK, Findings
  PROVE  GroupPairs("_findings", Pairs')
<1>1. /\ call = "_holders" /\ rest = {} /\ UNCHANGED <<aggregator, upas, section>>
      /\ GroupPairs("_findings", UNION {{<<<<p[1], h>>, p[2]>> : h \in grouped[p]} : p \in section})
  BY DEF Findings, Grouped
<1>2. Grouping /\ Pairs = Held
  BY <1>1 DEF Grouping, Pairs
<1>3. /\ DOMAIN grouped = {p[1] : p \in Held}
      /\ \A k \in DOMAIN grouped : grouped[k] = {p[2] : p \in {p \in Held : p[1] = k}}
  BY <1>1, <1>2, GroupsAreComplete
<1>4. section \subseteq DOMAIN grouped
  BY <1>1, <1>3 DEF SectionOK, PairsOf
<1>5. \A p \in section : \A h : h \in grouped[p] <=> <<p, h>> \in Held
  <2>1. \A x \in Held : x = <<x[1], x[2]>>
    BY HeldTyped
  <2>2. QED
    BY <1>3, <1>4, <2>1
<1>6. Pairs' = {<<<<h[1][1], h[2]>>, h[1][2]>> : h \in {h \in Held : h[1] \in section}}
  <2>1. call' = "_findings" /\ Held' = Held /\ section' = section
    BY <1>1 DEF GroupPairs, Held, AtAggregator, AtUpas
  <2>2. QED
    BY <2>1 DEF Pairs
<1>7. UNION {{<<<<p[1], h>>, p[2]>> : h \in grouped[p]} : p \in section} = Pairs'
  <2>1. ASSUME NEW p \in section, NEW h \in grouped[p] PROVE <<<<p[1], h>>, p[2]>> \in Pairs'
    <3>1. PICK x \in Held : x = <<p, h>>
      BY <1>5, <2>1
    <3>2. x[1] = p /\ x[2] = h
      BY <3>1
    <3>3. QED
      BY <1>6, <3>2
  <2>2. ASSUME NEW x \in Held, x[1] \in section
        PROVE  <<<<x[1][1], x[2]>>, x[1][2]>> \in UNION {{<<<<p[1], h>>, p[2]>> : h \in grouped[p]} : p \in section}
    <3>1. x = <<x[1], x[2]>>
      BY HeldTyped
    <3>2. x[2] \in grouped[x[1]]
      BY <1>5, <2>2, <3>1
    <3>3. QED
      BY <2>2, <3>2
  <2>3. QED
    BY <1>6, <2>1, <2>2
<1>8. QED
  BY <1>1, <1>7


\* A finding per STP and holder, with the VLANs of the section that it holds there.
LEMMA ReportNamesTheHeld == ASSUME ListedOK, GroupingOK, Report PROVE ReportNamesEveryHolder'
<1> DEFINE F(key) == [stp |-> key[1], holder |-> key[2], vlans |-> CollapseRanges(Sorted(grouped[key]))]
           L(f) == ({f.stp} \X VlanSet(f.vlans)) \X {f.holder}
           named == {held \in Held : held[1] \in section}
<1>1. /\ call = "_findings" /\ rest = {} /\ call' = "report" /\ UNCHANGED <<aggregator, upas, section>>
      /\ shown' = {F(key) : key \in DOMAIN grouped}
  BY DEF Report, Grouped
<1>2. Grouping /\ Pairs = {<<<<h[1][1], h[2]>>, h[1][2]>> : h \in named}
  BY <1>1 DEF Grouping, Pairs, named
<1>3. /\ DOMAIN grouped = {p[1] : p \in Pairs}
      /\ \A k \in DOMAIN grouped : grouped[k] = {p[2] : p \in {p \in Pairs : p[1] = k}}
  BY <1>1, <1>2, GroupsAreComplete
<1>4. \A h \in named : h \in (Nat \X Vlans) \X HolderSet /\ h = <<<<h[1][1], h[1][2]>>, h[2]>>
  BY HeldTyped
<1> HIDE DEF named, F, L
<1>5. \A key, v : <<key, v>> \in Pairs <=> \E h \in named : <<h[1][1], h[2]>> = key /\ h[1][2] = v
  <2>1. \A k, w, key, v : <<key, v>> = <<k, w>> <=> k = key /\ w = v
    OBVIOUS
  <2>2. \A x : x \in Pairs <=> \E h \in named : x = <<<<h[1][1], h[2]>>, h[1][2]>>
    BY <1>2
  <2>3. \A h, key, v : <<key, v>> = <<<<h[1][1], h[2]>>, h[1][2]>> <=> <<h[1][1], h[2]>> = key /\ h[1][2] = v
    BY <2>1, Zenon
  <2>4. \A key, v : <<key, v>> \in Pairs <=> \E h \in named : <<key, v>> = <<<<h[1][1], h[2]>>, h[1][2]>>
    BY <2>2, Zenon
  <2>5. ASSUME NEW key, NEW v
        PROVE  <<key, v>> \in Pairs <=> \E h \in named : <<h[1][1], h[2]>> = key /\ h[1][2] = v
    <3>1. ASSUME <<key, v>> \in Pairs PROVE \E h \in named : <<h[1][1], h[2]>> = key /\ h[1][2] = v
      <4>1. PICK h \in named : <<key, v>> = <<<<h[1][1], h[2]>>, h[1][2]>>
        BY <2>4, <3>1
      <4>2. QED
        BY <2>3, <4>1, Zenon
    <3>2. ASSUME NEW h \in named, <<h[1][1], h[2]>> = key, h[1][2] = v PROVE <<key, v>> \in Pairs
      BY <2>3, <2>4, <3>2, Zenon
    <3>3. QED
      BY <3>1, <3>2
  <2>6. QED
    BY <2>5
<1>6. /\ \A p \in Pairs : p = <<p[1], p[2]>>
      /\ \A key \in DOMAIN grouped : \E h \in named : key = <<h[1][1], h[2]>>
      /\ \A h \in named : <<h[1][1], h[2]>> \in DOMAIN grouped
  <2>1. \A p \in Pairs : \E h \in named : p = <<<<h[1][1], h[2]>>, h[1][2]>>
    BY <1>2
  <2>2. \A h \in named : <<<<h[1][1], h[2]>>, h[1][2]>> \in Pairs
    BY <1>2
  <2>3. \A p \in Pairs : p = <<p[1], p[2]>> /\ \E h \in named : p[1] = <<h[1][1], h[2]>>
    BY <2>1
  <2>4. \A h \in named : \E p \in Pairs : p[1] = <<h[1][1], h[2]>>
    BY <2>2
  <2>5. \A key : key \in DOMAIN grouped <=> \E p \in Pairs : key = p[1]
    BY <1>3
  <2>6. \A p \in Pairs : p = <<p[1], p[2]>>
    BY <2>3
  <2>7. ASSUME NEW key \in DOMAIN grouped PROVE \E h \in named : key = <<h[1][1], h[2]>>
    BY <2>3, <2>5
  <2>8. ASSUME NEW h \in named PROVE <<h[1][1], h[2]>> \in DOMAIN grouped
    BY <2>4, <2>5
  <2>9. QED
    BY <2>6, <2>7, <2>8
<1>7. ASSUME NEW key \in DOMAIN grouped, NEW v PROVE v \in grouped[key] <=> <<<<key[1], v>>, key[2]>> \in named
  <2>1. v \in grouped[key] <=> \E h \in named : <<h[1][1], h[2]>> = key /\ h[1][2] = v
    <3>1. v \in grouped[key] <=> \E p \in Pairs : p[1] = key /\ p[2] = v
      BY <1>3
    <3>2. v \in grouped[key] <=> <<key, v>> \in Pairs
      BY <1>6, <3>1
    <3>3. QED
      BY <1>5, <3>2
  <2>2. key = <<key[1], key[2]>>
    BY <1>6
  <2>3. ASSUME NEW h \in named, <<h[1][1], h[2]>> = key, h[1][2] = v PROVE <<<<key[1], v>>, key[2]>> \in named
    BY <1>4, <2>3
  <2>4. ASSUME <<<<key[1], v>>, key[2]>> \in named PROVE \E h \in named : <<h[1][1], h[2]>> = key /\ h[1][2] = v
    <3>1. PICK h \in named : h = <<<<key[1], v>>, key[2]>>
      BY <2>4
    <3>2. h[1][1] = key[1] /\ h[2] = key[2] /\ h[1][2] = v
      BY <3>1
    <3>3. QED
      BY <2>2, <3>2
  <2>5. QED
    BY <2>1, <2>3, <2>4
<1>8. ASSUME NEW key \in DOMAIN grouped PROVE VlanSet(CollapseRanges(Sorted(grouped[key]))) = grouped[key]
  <2>1. grouped[key] \subseteq Vlans
    <3>1. ASSUME NEW v \in grouped[key] PROVE v \in Vlans
      <4>1. PICK h \in named : h = <<<<key[1], v>>, key[2]>>
        BY <1>7, <3>1
      <4>2. h[1][2] = v /\ h[1][2] \in Vlans
        BY <1>4, <4>1
      <4>3. QED
        BY <4>2
    <3>2. QED
      BY <3>1
  <2>2. PICK set : set = grouped[key]
    OBVIOUS
  <2>3. set \in SUBSET Nat /\ IsFiniteSet(set)
    BY <2>1, <2>2, VlansAssumption, FS_Subset
  <2>4. VlanSet(CollapseRanges(Sorted(set))) = set
    BY <2>3, RangesAreExact
  <2>5. QED
    BY <2>2, <2>4
<1>9. ASSUME NEW key \in DOMAIN grouped PROVE L(F(key)) = ({key[1]} \X grouped[key]) \X {key[2]}
  <2>1. F(key).stp = key[1] /\ F(key).holder = key[2] /\ F(key).vlans = CollapseRanges(Sorted(grouped[key]))
    BY DEF F
  <2>2. QED
    BY <1>8, <2>1 DEF L
<1>10. ASSUME NEW f \in shown', NEW x \in L(f) PROVE x \in named
  <2>1. PICK key \in DOMAIN grouped : f = F(key)
    BY <1>1
  <2>2. x \in ({key[1]} \X grouped[key]) \X {key[2]}
    BY <1>9, <1>10, <2>1
  <2>3. PICK v \in grouped[key] : x = <<<<key[1], v>>, key[2]>>
    BY <2>2
  <2>4. QED
    BY <1>7, <2>3
<1>11. ASSUME NEW h \in named PROVE \E f \in shown' : h \in L(f)
  <2>1. PICK key \in DOMAIN grouped : key = <<h[1][1], h[2]>>
    BY <1>6
  <2>2. h = <<<<key[1], h[1][2]>>, key[2]>>
    BY <1>4, <2>1
  <2>3. h[1][2] \in grouped[key]
    BY <1>7, <2>2
  <2>4. h \in ({key[1]} \X grouped[key]) \X {key[2]}
    BY <2>2, <2>3
  <2>5. F(key) \in shown' /\ h \in L(F(key))
    BY <1>1, <1>9, <2>4
  <2>6. QED
    BY <2>5
<1>12. (AtAggregator \cup AtUpas)' = Held /\ section' = section
  BY <1>1 DEF Held, AtAggregator, AtUpas
<1>13. UNION {L(f) : f \in shown'} = named
  BY <1>10, <1>11
<1>14. QED
  BY <1>12, <1>13 DEF ReportNamesEveryHolder, L, named

-----------------------------------------------------------------------------
(* The theorems *)

LEMMA InitIsReportInv == Init => ReportInv
<1> SUFFICES ASSUME Init PROVE ReportInv
  OBVIOUS
<1>1. call = "none" /\ aggregator \subseteq AggregatorReservations /\ upas \subseteq UpaReservations
  BY DEF Init, Listing
<1>2. CallOK /\ ListedOK /\ SectionOK /\ GroupingOK
  BY <1>1 DEF CallOK, ListedOK, SectionOK, GroupingOK, Grouping
<1>3. OffersExactlyTheFree /\ ReportNamesEveryHolder
  BY <1>1 DEF OffersExactlyTheFree, ReportNamesEveryHolder
<1>4. QED
  BY <1>2, <1>3 DEF ReportInv

LEMMA StepKeepsReportInv == ReportInv /\ [Next]_vars => ReportInv'
<1> SUFFICES ASSUME ReportInv, [Next]_vars PROVE ReportInv'
  OBVIOUS
<1>0. CallOK /\ ListedOK /\ SectionOK /\ GroupingOK /\ OffersExactlyTheFree /\ ReportNamesEveryHolder
  BY DEF ReportInv
<1>1. UNCHANGED <<aggregator, upas>>
  BY DEF Next, vars, VlansInUseByStp, StpSelector, Holders, Findings, Report, Take
<1>2. ListedOK'
  BY <1>0, <1>1 DEF ListedOK
<1>3. ASSUME call' \notin {"form", "report"} PROVE OffersExactlyTheFree' /\ ReportNamesEveryHolder'
  BY <1>3 DEF OffersExactlyTheFree, ReportNamesEveryHolder
<1>4. CASE VlansInUseByStp
  <2>1. call' = "group_by_stp" /\ GroupPairs("group_by_stp", PairsOf(AtAggregator))
    BY <1>4 DEF VlansInUseByStp, GroupPairs
  <2>2. Pairs' = PairsOf(AtAggregator)
    BY <1>1, <2>1 DEF Pairs, PairsOf, AtAggregator
  <2>3. GroupingOK'
    BY <2>1, <2>2, CallStartsGroups
  <2>4. CallOK' /\ SectionOK'
    BY <2>1 DEF CallOK, SectionOK
  <2>5. QED
    BY <1>2, <1>3, <2>1, <2>3, <2>4 DEF ReportInv
<1>5. CASE StpSelector
  <2>1. call' = "form"
    BY <1>5 DEF StpSelector
  <2>2. CallOK' /\ SectionOK' /\ GroupingOK' /\ ReportNamesEveryHolder'
    BY <2>1 DEF CallOK, SectionOK, GroupingOK, Grouping, ReportNamesEveryHolder
  <2>3. OffersExactlyTheFree'
    BY <1>0, <1>5, SelectorOffersFree
  <2>4. QED
    BY <1>2, <2>2, <2>3 DEF ReportInv
<1>6. CASE Holders
  <2>1. /\ call' = "_holders" /\ GroupPairs("_holders", Held)
        /\ section' \in {PairsOf(AtAggregator) \ PairsOf(AtUpas), PairsOf(AtUpas) \ PairsOf(AtAggregator),
                         PairsOf(AtAggregator) \cup PairsOf(AtUpas)}
    BY <1>6 DEF Holders, GroupPairs, Held
  <2>2. Held' = Held
    BY <1>1 DEF Held, AtAggregator, AtUpas
  <2>3. Pairs' = Held
    BY <2>1, <2>2 DEF Pairs
  <2>4. GroupingOK'
    BY <2>1, <2>3, CallStartsGroups
  <2>5. section' \subseteq PairsOf(Held)
    BY <2>1 DEF PairsOf, Held
  <2>6. CallOK' /\ SectionOK'
    BY <2>1, <2>2, <2>5 DEF CallOK, SectionOK, PairsOf
  <2>7. QED
    BY <1>2, <1>3, <2>1, <2>4, <2>6 DEF ReportInv
<1>7. CASE Findings
  <2>1. GroupPairs("_findings", Pairs')
    BY <1>0, <1>7, FindingsGroupTheHeld
  <2>2. call' = "_findings" /\ call = "_holders" /\ section' = section
    BY <1>7, <2>1 DEF Findings, Grouped, GroupPairs
  <2>3. GroupingOK'
    BY <2>1, CallStartsGroups
  <2>4. PairsOf(Held)' = PairsOf(Held)
    BY <1>1 DEF Held, AtAggregator, AtUpas, PairsOf
  <2>5. CallOK' /\ SectionOK'
    BY <1>0, <2>2, <2>4 DEF CallOK, SectionOK
  <2>6. QED
    BY <1>2, <1>3, <2>2, <2>3, <2>5 DEF ReportInv
<1>8. CASE Report
  <2>1. call' = "report"
    BY <1>8 DEF Report
  <2>2. CallOK' /\ SectionOK' /\ GroupingOK' /\ OffersExactlyTheFree'
    BY <2>1 DEF CallOK, SectionOK, GroupingOK, Grouping, OffersExactlyTheFree
  <2>3. ReportNamesEveryHolder'
    BY <1>0, <1>8, ReportNamesTheHeld
  <2>4. QED
    BY <1>2, <2>2, <2>3 DEF ReportInv
<1>9. ASSUME UNCHANGED <<call, section, shown>> PROVE CallOK' /\ SectionOK' /\ OffersExactlyTheFree' /\ ReportNamesEveryHolder'
  <2>1. AtAggregator' = AtAggregator /\ AtUpas' = AtUpas /\ Held' = Held
    BY <1>1 DEF Held, AtAggregator, AtUpas
  <2>2. CallOK' /\ SectionOK'
    BY <1>0, <1>9, <2>1 DEF CallOK, SectionOK, PairsOf
  <2>3. OffersExactlyTheFree' /\ ReportNamesEveryHolder'
    BY <1>0, <1>9, <2>1 DEF OffersExactlyTheFree, ReportNamesEveryHolder, PairsOf
  <2>4. QED
    BY <2>2, <2>3
<1>10. CASE Take
  <2>1. GroupingOK'
    BY <1>0, <1>10, TakeKeepsGroups
  <2>2. UNCHANGED <<call, section, shown>>
    BY <1>10 DEF Take
  <2>3. QED
    BY <1>2, <1>9, <2>1, <2>2 DEF ReportInv
<1>11. CASE UNCHANGED vars
  <2>1. UNCHANGED <<aggregator, upas, call, section, rest, current, grouped, shown>>
    BY <1>11 DEF vars
  <2>2. Pairs' = Pairs /\ Grouping' = Grouping /\ \A j, k : Precedes(j, k)' <=> Precedes(j, k)
    BY <2>1, SameCall
  <2>3. Taken' = Taken
    BY <2>1, <2>2 DEF Taken
  <2>4. GroupingOK'
    BY <1>0, <2>1, <2>2, <2>3 DEF GroupingOK, RestIsBehind, CurrentIsLast, GroupedSoFar
  <2>5. QED
    BY <1>2, <1>9, <2>1, <2>4 DEF ReportInv
<1>12. QED
  BY <1>4, <1>5, <1>6, <1>7, <1>8, <1>10, <1>11 DEF Next

\* Every state of the form and of the report keeps the invariant: what group_pairs has
\* taken is in its dict, whole, and what is shown is right.
THEOREM ReportIsInductive == Spec => []ReportInv
BY InitIsReportInv, StepKeepsReportInv, PTL DEF Spec

\* The form offers, for each STP, the VLANs of its label group that no listed
\* reservation holds, whatever reservations are listed (stp_selector).
THEOREM FormOffersExactlyTheFree == Spec => []OffersExactlyTheFree
<1>1. ReportInv => OffersExactlyTheFree
  BY DEF ReportInv
<1>2. QED
  BY <1>1, ReportIsInductive, PTL

\* The nightly report names every reservation that holds a VLAN of its section, with
\* exactly the VLANs it holds, whatever reservations are listed (_holders, _findings).
THEOREM ReportNamesAllHolders == Spec => []ReportNamesEveryHolder
<1>1. ReportInv => ReportNamesEveryHolder
  BY DEF ReportInv
<1>2. QED
  BY <1>1, ReportIsInductive, PTL

=============================================================================
