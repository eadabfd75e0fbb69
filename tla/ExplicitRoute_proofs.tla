------------------------- MODULE ExplicitRoute_proofs -------------------------
(* ero_stps is right for every graph and every request: the orientations are all *)
(* searched, each search finds a shortest route without a network twice, or that *)
(* there is none, and the STPs named are those of a shortest one of all.         *)
EXTENDS ExplicitRoute, FiniteSetTheorems, WellFoundedInduction, TLAPS

-----------------------------------------------------------------------------
(* Naturals, sequences without repetition *)

LEMMA LeastOf ==
  ASSUME NEW T, T \subseteq Nat, T # {}
  PROVE  \E x \in T : \A y \in T : x <= y
<1>1. PICK x \in T : \A y \in T : ~ (<<y, x>> \in OpToRel(<, Nat))
  BY NatLessThanWellFounded, WFMin, Zenon
<1>2. \A y \in T : ~(y < x)
  BY <1>1 DEF OpToRel
<1>3. QED
  BY <1>2

\* A sequence over a set that is as long as the set is large, and one element more.
LEMMA OverIsSeq ==
  ASSUME NEW S, IsFiniteSet(S), NEW r \in SetToSeqs(S)
  PROVE  /\ r \in Seq(S) /\ Len(r) = Cardinality(S) /\ DOMAIN r = 1..Len(r)
         /\ \A i, j \in 1..Len(r) : r[i] = r[j] => i = j
<1>1. Cardinality(S) \in Nat
  BY FS_CardinalityType
<1>2. r \in [1..Cardinality(S) -> S] /\ \A i, j \in 1..Cardinality(S) : i # j => r[i] # r[j]
  BY DEF SetToSeqs
<1>3. r \in Seq(S) /\ Len(r) = Cardinality(S)
  BY <1>1, <1>2
<1>4. QED
  BY <1>2, <1>3

LEMMA OneLonger ==
  ASSUME NEW S, IsFiniteSet(S), NEW r \in SetToSeqs(S), NEW x, x \notin S
  PROVE  /\ Append(r, x) \in SetToSeqs(S \cup {x})
         /\ Len(Append(r, x)) = Len(r) + 1 /\ Append(r, x)[Len(r) + 1] = x
         /\ \A i \in 1..Len(r) : Append(r, x)[i] = r[i]
<1>1. /\ r \in Seq(S) /\ Len(r) = Cardinality(S) /\ Cardinality(S) \in Nat
      /\ \A i, j \in 1..Len(r) : r[i] = r[j] => i = j
  BY OverIsSeq, FS_CardinalityType
<1>2. Cardinality(S \cup {x}) = Len(r) + 1
  BY <1>1, FS_AddElement
<1>3. /\ Append(r, x) \in [1..Len(r) + 1 -> S \cup {x}]
      /\ Len(Append(r, x)) = Len(r) + 1 /\ Append(r, x)[Len(r) + 1] = x
      /\ \A i \in 1..Len(r) : Append(r, x)[i] = r[i]
  <2>1. r \in Seq(S \cup {x})
    BY <1>1
  <2>2. Append(r, x) \in Seq(S \cup {x}) /\ Len(Append(r, x)) = Len(r) + 1
    BY <2>1
  <2>3. Append(r, x) \in [1..Len(r) + 1 -> S \cup {x}]
    <3>1. \A T : \A q \in Seq(T) : q \in [1..Len(q) -> T]
      OBVIOUS
    <3>2. QED
      BY <2>2, <3>1, Zenon
  <2>4. QED
    BY <2>1, <2>2, <2>3
<1>4. \A i \in 1..Len(r) : r[i] \in S
  BY <1>1
<1>5. \A i, j \in 1..Len(r) + 1 : i # j => Append(r, x)[i] # Append(r, x)[j]
  <2>1. \A i \in 1..Len(r) + 1 : i \in 1..Len(r) \/ i = Len(r) + 1
    BY <1>1
  <2>2. QED
    BY <1>1, <1>3, <1>4, <2>1
<1>6. QED
  BY <1>2, <1>3, <1>5 DEF SetToSeqs

LEMMA OverIsAll ==
  ASSUME NEW S, IsFiniteSet(S), NEW r \in SetToSeqs(S), NEW x \in S
  PROVE  \E i \in 1..Len(r) : r[i] = x
<1>1. /\ r \in [1..Len(r) -> S] /\ Len(r) = Cardinality(S) /\ Cardinality(S) \in Nat
      /\ \A i, j \in 1..Len(r) : r[i] = r[j] => i = j
  BY OverIsSeq, FS_CardinalityType
<1>2. r \in Injection(1..Len(r), S)
  BY <1>1 DEF Injection, IsInjective
<1>3. Cardinality(1..Len(r)) = Cardinality(S)
  BY <1>1, FS_Interval
<1>4. r \in Surjection(1..Len(r), S)
  BY <1>2, <1>3, FS_Injection
<1>5. QED
  BY <1>4 DEF Surjection

\* A queue after its head was taken and others were appended.
LEMMA QueueAfter ==
  ASSUME NEW S, NEW q \in Seq(S), q # <<>>, NEW order \in Seq(S)
  PROVE  LET after == Tail(q) \o order
         IN /\ after \in Seq(S) /\ Len(after) = Len(q) - 1 + Len(order)
            /\ Len(q) \in Nat \ {0} /\ Len(order) \in Nat
            /\ \A i \in 1..Len(q) - 1 : after[i] = q[i + 1]
            /\ \A i \in 1..Len(order) : after[Len(q) - 1 + i] = order[i]
            /\ \A i \in 1..Len(after) : i \in 1..Len(q) - 1 \/ i - (Len(q) - 1) \in 1..Len(order)
<1>1. Tail(q) \in Seq(S) /\ Len(Tail(q)) = Len(q) - 1 /\ \A i \in 1..Len(q) - 1 : Tail(q)[i] = q[i + 1]
  OBVIOUS
<1>2. Len(q) \in Nat \ {0} /\ Len(order) \in Nat
  OBVIOUS
<1>3. QED
  BY <1>1, <1>2

-----------------------------------------------------------------------------
(* The request *)

RequestOK ==
  /\ request.source \in Stps /\ request.dest \in Stps /\ request.pairs \subseteq Sdps
  /\ request.included \in Seq(Stps \X Stps) /\ N <= MaxIncluded
  /\ \A i \in 1..N : {request.included[i][1], request.included[i][2]} \in request.pairs

LEMMA RequestTyped == Init => RequestOK
<1> SUFFICES ASSUME Init PROVE RequestOK
  OBVIOUS
<1>1. PICK pairs \in SUBSET Sdps :
        request \in [source : Sources, dest : Destinations, included : Inclusions(pairs), pairs : {pairs}]
  BY DEF Init
<1>2. /\ request.source \in Stps /\ request.dest \in Stps /\ request.pairs = pairs
      /\ request.included \in SeqOf(Stored(pairs), MaxIncluded)
  BY <1>1, StpAssumption DEF Inclusions
<1>3. PICK m \in 0..MaxIncluded : request.included \in [1..m -> Stored(pairs)]
  BY <1>2 DEF SeqOf
<1>4. Stored(pairs) \subseteq Stps \X Stps /\ \A pair \in Stored(pairs) : {pair[1], pair[2]} \in pairs
  BY DEF Stored
<1>5. m \in Nat /\ m <= MaxIncluded
  BY <1>3, BoundAssumption
<1>6. request.included \in [1..m -> Stps \X Stps]
  BY <1>3, <1>4
<1>7. request.included \in Seq(Stps \X Stps) /\ N = m
  BY <1>5, <1>6 DEF N
<1>8. QED
  BY <1>2, <1>3, <1>4, <1>5, <1>7 DEF RequestOK

\* An included SDP leads from the network of its near to that of its far end.
LEMMA SdpConnects ==
  ASSUME RequestOK, NEW f, NEW i \in 1..N
  PROVE  /\ Oriented(f)[i][1] \in Stps /\ Oriented(f)[i][2] \in Stps
         /\ network_of[Oriented(f)[i][2]] \in Adjacency(network_of[Oriented(f)[i][1]])
<1> DEFINE sdp == request.included[i]
<1>1. sdp \in Stps \X Stps /\ {sdp[1], sdp[2]} \in request.pairs
  <2>1. i \in 1..Len(request.included) /\ request.included \in Seq(Stps \X Stps)
    BY DEF RequestOK, N
  <2>2. sdp \in Stps \X Stps
    BY <2>1
  <2>3. QED
    BY <2>2 DEF RequestOK
<1>2. Cardinality({sdp[1], sdp[2]}) = 2
  BY <1>1, StpAssumption DEF RequestOK
<1>3. sdp[1] # sdp[2]
  <2>1. ASSUME sdp[1] = sdp[2] PROVE FALSE
    <3>1. {sdp[1], sdp[2]} = {sdp[1]}
      BY <2>1
    <3>2. Cardinality({sdp[1], sdp[2]}) = 1
      BY <3>1, FS_Singleton
    <3>3. QED
      BY <1>2, <3>2
  <2>2. QED
    BY <2>1
<1>4. Oriented(f)[i] = sdp \/ Oriented(f)[i] = <<sdp[2], sdp[1]>>
  BY DEF Oriented
<1>5. /\ Oriented(f)[i][1] \in Stps /\ Oriented(f)[i][2] \in Stps
      /\ Oriented(f)[i][1] # Oriented(f)[i][2]
      /\ {Oriented(f)[i][1], Oriented(f)[i][2]} = {sdp[1], sdp[2]}
  BY <1>1, <1>3, <1>4
<1>6. QED
  BY <1>1, <1>5, StpAssumption DEF Adjacency

LEMMA LegsOfOriented ==
  ASSUME RequestOK, NEW f
  PROVE  LET ls == Legs(Oriented(f))
         IN /\ N \in Nat /\ ls \in Seq(Networks \X Networks) /\ Len(ls) = N + 1 /\ ls # <<>>
            /\ ls[1][1] = network_of[request.source] /\ ls[N + 1][2] = network_of[request.dest]
            /\ \A i \in 1..N : /\ ls[i][2] = network_of[Oriented(f)[i][1]]
                              /\ ls[i + 1][1] = network_of[Oriented(f)[i][2]]
<1> DEFINE ls == Legs(Oriented(f))
<1>1. N \in Nat
  BY DEF RequestOK, N
<1>2. \A i \in 1..N : Oriented(f)[i][1] \in Stps /\ Oriented(f)[i][2] \in Stps
  BY SdpConnects
<1>3. network_of[request.source] \in Networks /\ network_of[request.dest] \in Networks
  BY StpAssumption DEF RequestOK
<1>4. \A i \in 1..N : network_of[Oriented(f)[i][1]] \in Networks /\ network_of[Oriented(f)[i][2]] \in Networks
  BY <1>2, StpAssumption
<1>5. ls \in [1..N + 1 -> Networks \X Networks]
  BY <1>1, <1>3, <1>4 DEF Legs
<1>6. ls \in Seq(Networks \X Networks) /\ Len(ls) = N + 1
  BY <1>1, <1>5
<1>7. ls[1][1] = network_of[request.source] /\ ls[N + 1][2] = network_of[request.dest]
  BY <1>1 DEF Legs
<1>8. \A i \in 1..N : /\ ls[i][2] = network_of[Oriented(f)[i][1]]
                     /\ ls[i + 1][1] = network_of[Oriented(f)[i][2]]
  BY <1>1 DEF Legs
<1>9. QED
  BY <1>1, <1>6, <1>7, <1>8

-----------------------------------------------------------------------------
(* A step of a search *)

Start == [leg |-> 1, current |-> legs[1][1], visited |-> {legs[1][1]}]

\* The types of a search, and what the queue has of what was seen.
SearchOK ==
  /\ Searching => N \in 1..MaxSdps /\ ~AllSearched /\ legs = Legs(Oriented(Flips)) /\ Start \in seen
  /\ ~Searching => queue = <<>> /\ seen = {}
  /\ queue \in Seq(SearchState) /\ seen \subseteq SearchState
  /\ \A i \in DOMAIN queue : queue[i] \in seen
  /\ \A s \in seen : s.leg <= N + 1 /\ s.current \in s.visited

\* The search goes from s to t by entering the network h.
Enters(s, t, h) ==
  /\ h \in Networks \ s.visited
  /\ t.current = h /\ t.visited = s.visited \cup {h}
  /\ \/ /\ s.current # legs[s.leg][2] /\ h \in Adjacency(s.current)
        /\ t.leg = s.leg
     \/ /\ s.current = legs[s.leg][2] /\ s.leg <= N /\ h = legs[s.leg + 1][1]
        /\ t.leg = s.leg + 1

LEMMA SearchLegs ==
  ASSUME RequestOK, SearchOK, Searching
  PROVE  /\ N \in Nat \ {0} /\ legs \in Seq(Networks \X Networks) /\ Len(legs) = N + 1
         /\ legs[1][1] = network_of[request.source] /\ legs[N + 1][2] = network_of[request.dest]
         /\ \A i \in 1..N : /\ legs[i][2] = network_of[Oriented(Flips)[i][1]]
                           /\ legs[i + 1][1] = network_of[Oriented(Flips)[i][2]]
                           /\ legs[i + 1][1] \in Adjacency(legs[i][2])
         /\ \A i \in 1..N + 1 : legs[i][1] \in Networks /\ legs[i][2] \in Networks
<1>1. legs = Legs(Oriented(Flips)) /\ N \in Nat \ {0}
  BY DEF SearchOK
<1>2. /\ legs \in Seq(Networks \X Networks) /\ Len(legs) = N + 1
      /\ legs[1][1] = network_of[request.source] /\ legs[N + 1][2] = network_of[request.dest]
      /\ \A i \in 1..N : /\ legs[i][2] = network_of[Oriented(Flips)[i][1]]
                        /\ legs[i + 1][1] = network_of[Oriented(Flips)[i][2]]
  BY <1>1, LegsOfOriented
<1>3. \A i \in 1..N + 1 : legs[i] \in Networks \X Networks
  BY <1>1, <1>2
<1>4. \A i \in 1..N : legs[i + 1][1] \in Adjacency(legs[i][2])
  BY <1>2, SdpConnects
<1>5. QED
  BY <1>1, <1>2, <1>3, <1>4

LEMMA SuccessorEnters ==
  ASSUME RequestOK, SearchOK, Searching, NEW s \in seen, ~AtDestination(s), NEW t \in Successors(s)
  PROVE  /\ t \in SearchState /\ t.leg <= N + 1 /\ t.current \in t.visited
         /\ \E h : Enters(s, t, h)
<1>1. s \in SearchState /\ s.leg \in 1..N + 1 /\ N \in Nat \ {0} /\ N <= MaxIncluded /\ MaxIncluded \in Nat
  BY SearchLegs, BoundAssumption DEF SearchOK, RequestOK, SearchState
<1>2. CASE s.current = legs[s.leg][2]
  <2>1. s.leg \in 1..N
    BY <1>1, <1>2, SearchLegs DEF AtDestination
  <2>2. /\ legs[s.leg + 1][1] \notin s.visited /\ legs[s.leg + 1][1] \in Networks
        /\ t = [leg |-> s.leg + 1, current |-> legs[s.leg + 1][1], visited |-> s.visited \cup {legs[s.leg + 1][1]}]
    BY <1>1, <1>2, <2>1, SearchLegs DEF Successors, Crossings
  <2>3. t \in SearchState
    BY <1>1, <2>1, <2>2 DEF SearchState
  <2>4. QED
    BY <1>1, <1>2, <2>1, <2>2, <2>3 DEF Enters
<1>3. CASE s.current # legs[s.leg][2]
  <2>1. PICK h \in Adjacency(s.current) \ s.visited : t = [s EXCEPT !.current = h, !.visited = @ \cup {h}]
    BY <1>3 DEF Successors, Hops
  <2>2. h \in Networks
    BY DEF Adjacency
  <2>3. t = [leg |-> s.leg, current |-> h, visited |-> s.visited \cup {h}]
    BY <1>1, <2>1 DEF SearchState
  <2>4. t \in SearchState
    BY <1>1, <2>2, <2>3 DEF SearchState
  <2>5. QED
    BY <1>1, <1>3, <2>1, <2>2, <2>3, <2>4 DEF Enters
<1>4. QED
  BY <1>2, <1>3

LEMMA EntersIsSuccessor ==
  ASSUME RequestOK, SearchOK, Searching, NEW s \in seen, NEW t \in SearchState, NEW h, Enters(s, t, h)
  PROVE  t \in Successors(s)
<1>1. s \in SearchState
  BY DEF SearchOK
<1>2. CASE s.current = legs[s.leg][2]
  <2>1. t = [leg |-> s.leg + 1, current |-> legs[s.leg + 1][1], visited |-> s.visited \cup {legs[s.leg + 1][1]}]
    BY <1>2 DEF Enters, SearchState
  <2>2. QED
    BY <1>2, <2>1 DEF Enters, Successors, Crossings
<1>3. CASE s.current # legs[s.leg][2]
  <2>1. t = [s EXCEPT !.current = h, !.visited = @ \cup {h}]
    BY <1>1, <1>3 DEF Enters, SearchState
  <2>2. QED
    BY <1>3, <2>1 DEF Enters, Successors, Hops
<1>4. QED
  BY <1>2, <1>3

\* There are finitely many search states, so that the fresh ones can be queued.
LEMMA VisitedFinite == ASSUME NEW s \in SearchState PROVE IsFiniteSet(s.visited) /\ Cardinality(s.visited) \in Nat
<1>1. s.visited \in SUBSET Networks
  BY DEF SearchState
<1>2. IsFiniteSet(s.visited)
  BY <1>1, StpAssumption, FS_Subset
<1>3. QED
  BY <1>2, FS_CardinalityType

LEMMA SuccessorsFinite == ASSUME NEW s PROVE IsFiniteSet(Successors(s))
<1>1. IsFiniteSet(Crossings(s))
  BY FS_EmptySet, FS_Singleton DEF Crossings
<1>2. IsFiniteSet(Hops(s))
  <2> DEFINE To == Adjacency(s.current) \ s.visited
             f == [h \in To |-> [s EXCEPT !.current = h, !.visited = @ \cup {h}]]
  <2>1. To \in SUBSET Networks
    BY DEF Adjacency
  <2>2. IsFiniteSet(To)
    BY <2>1, StpAssumption, FS_Subset
  <2>3. f \in Surjection(To, Hops(s))
    BY DEF Surjection, Hops
  <2>4. QED
    BY <2>2, <2>3, FS_Surjection
<1>3. QED
  BY <1>1, <1>2 DEF Successors

-----------------------------------------------------------------------------
(* What is seen was reached by a route *)

\* r crosses the first n SDPs at the positions at.
CrossesAt(r, n, at) ==
  /\ at \in [1..n -> 1..Len(r) - 1]
  /\ \A i, j \in 1..n : i < j => at[i] < at[j]
  /\ \A i \in 1..n : /\ r[at[i]] = network_of[Oriented(Flips)[i][1]]
                     /\ r[at[i] + 1] = network_of[Oriented(Flips)[i][2]]

ReachedBy(s, r) ==
  /\ r \in SetToSeqs(s.visited) /\ IsPath(r) /\ r[1] = legs[1][1] /\ r[Len(r)] = s.current
  /\ \E at : CrossesAt(r, s.leg - 1, at)

LEMMA OrientedIsSeq ==
  ASSUME RequestOK, NEW f
  PROVE  Oriented(f) \in Seq(Stps \X Stps) /\ Len(Oriented(f)) = N /\ DOMAIN Oriented(f) = 1..N /\ N \in Nat
<1>1. N \in Nat
  BY DEF RequestOK, N
<1>2. ASSUME NEW i \in 1..N PROVE Oriented(f)[i] \in Stps \X Stps
  <2>1. i \in 1..Len(request.included) /\ request.included \in Seq(Stps \X Stps)
    BY DEF RequestOK, N
  <2>2. request.included[i] \in Stps \X Stps
    BY <2>1
  <2>3. QED
    BY <2>2 DEF Oriented
<1>3. DOMAIN Oriented(f) = 1..N /\ Oriented(f) = [i \in 1..N |-> Oriented(f)[i]]
  BY DEF Oriented
<1>4. Oriented(f) \in [1..N -> Stps \X Stps]
  BY <1>2, <1>3
<1>5. QED
  BY <1>1, <1>3, <1>4

LEMMA CrossesFirst ==
  ASSUME RequestOK, NEW r, NEW n \in 0..N
  PROVE  Crosses(r, SubSeq(Oriented(Flips), 1, n)) <=> \E at : CrossesAt(r, n, at)
<1> DEFINE o == Oriented(Flips)
           first == SubSeq(o, 1, n)
<1>1. o \in Seq(Stps \X Stps) /\ Len(o) = N /\ N \in Nat
  BY OrientedIsSeq
<1>2. first \in Seq(Stps \X Stps) /\ Len(first) = n /\ DOMAIN first = 1..n /\ \A i \in 1..n : first[i] = o[i]
  <2> HIDE DEF o
  <2>1. QED
    BY <1>1
<1> HIDE DEF o, first
<1>3. ASSUME Crosses(r, first) PROVE \E at : CrossesAt(r, n, at)
  <2>1. PICK at \in [DOMAIN first -> 1..Len(r) - 1] :
          /\ \A i, j \in DOMAIN first : i < j => at[i] < at[j]
          /\ \A i \in DOMAIN first : /\ r[at[i]] = network_of[first[i][1]]
                                    /\ r[at[i] + 1] = network_of[first[i][2]]
    BY <1>3, Zenon DEF Crosses
  <2>2. /\ at \in [1..n -> 1..Len(r) - 1]
        /\ \A i, j \in 1..n : i < j => at[i] < at[j]
        /\ \A i \in 1..n : r[at[i]] = network_of[first[i][1]] /\ r[at[i] + 1] = network_of[first[i][2]]
    BY <1>2, <2>1
  <2>3. CrossesAt(r, n, at)
    BY <1>2, <2>2 DEF CrossesAt, o
  <2>4. QED
    BY <2>3
<1>4. ASSUME NEW at, CrossesAt(r, n, at) PROVE Crosses(r, first)
  <2>1. /\ at \in [1..n -> 1..Len(r) - 1]
        /\ \A i, j \in 1..n : i < j => at[i] < at[j]
        /\ \A i \in 1..n : r[at[i]] = network_of[first[i][1]] /\ r[at[i] + 1] = network_of[first[i][2]]
    BY <1>2, <1>4 DEF CrossesAt, o
  <2>2. QED
    BY <1>2, <2>1, Zenon DEF Crosses
<1>5. QED
  BY <1>3, <1>4 DEF o, first

LEMMA EnteringExtends ==
  ASSUME RequestOK, SearchOK, Searching, NEW s \in seen, NEW t \in SearchState, NEW h, Enters(s, t, h),
         NEW r, ReachedBy(s, r)
  PROVE  ReachedBy(t, Append(r, h))
<1> DEFINE a == Append(r, h)
<1>0. s \in SearchState /\ s.leg \in 1..N + 1 /\ N \in Nat \ {0} /\ t.leg \in Nat
  BY SearchLegs DEF SearchOK, SearchState
<1>1. /\ r \in SetToSeqs(s.visited) /\ IsFiniteSet(s.visited) /\ h \notin s.visited
      /\ t.visited = s.visited \cup {h} /\ s.current \in s.visited
  BY <1>0, VisitedFinite DEF ReachedBy, Enters, SearchOK
<1>2. /\ Len(r) \in Nat \ {0} /\ a \in SetToSeqs(t.visited) /\ Len(a) = Len(r) + 1
      /\ a[Len(r) + 1] = h /\ \A i \in 1..Len(r) : a[i] = r[i]
  <2>1. Len(r) = Cardinality(s.visited) /\ Cardinality(s.visited) \in Nat \ {0}
    BY <1>1, OverIsSeq, FS_CardinalityType, FS_EmptySet
  <2>2. QED
    BY <1>1, <2>1, OneLonger
<1> HIDE DEF a
<1>3. PICK at : CrossesAt(r, s.leg - 1, at)
  BY DEF ReachedBy
<1>4. h \in Adjacency(s.current)
  BY <1>0, SearchLegs DEF Enters
<1>5. IsPath(a)
  <2>1. SUFFICES ASSUME NEW i \in 1..Len(r) PROVE a[i + 1] \in Adjacency(a[i])
    BY <1>2 DEF IsPath
  <2>2. CASE i < Len(r)
    BY <1>2, <2>2 DEF ReachedBy, IsPath
  <2>3. CASE i = Len(r)
    BY <1>2, <1>4, <2>3 DEF ReachedBy
  <2>4. QED
    BY <1>2, <2>2, <2>3
<1>6. CASE t.leg = s.leg
  <2>1. CrossesAt(a, t.leg - 1, at)
    <3>1. \A i \in 1..s.leg - 1 : /\ at[i] \in 1..Len(r) - 1 /\ at[i] \in 1..Len(a) - 1
                                  /\ a[at[i]] = r[at[i]] /\ a[at[i] + 1] = r[at[i] + 1]
      BY <1>2, <1>3 DEF CrossesAt
    <3>2. at \in [1..s.leg - 1 -> 1..Len(a) - 1]
      BY <1>3, <3>1 DEF CrossesAt
    <3>3. QED
      BY <1>3, <1>6, <3>1, <3>2 DEF CrossesAt
  <2>2. QED
    BY <1>2, <1>5, <2>1 DEF ReachedBy, Enters, a
<1>7. CASE s.current = legs[s.leg][2] /\ s.leg <= N /\ h = legs[s.leg + 1][1] /\ t.leg = s.leg + 1
  <2> DEFINE l == s.leg
             to == [i \in 1..l |-> IF i = l THEN Len(r) ELSE at[i]]
  <2>1. l \in 1..N /\ at \in [1..l - 1 -> 1..Len(r) - 1]
    BY <1>0, <1>3, <1>7 DEF CrossesAt
  <2>2. to \in [1..l -> 1..Len(a) - 1] /\ to[l] = Len(r) /\ \A i \in 1..l - 1 : to[i] = at[i]
    BY <1>0, <1>2, <2>1
  <2>3. \A i, j \in 1..l : i < j => to[i] < to[j]
    <3>1. \A i \in 1..l : i \in 1..l - 1 \/ i = l
      BY <2>1
    <3>2. \A i \in 1..l - 1 : at[i] \in Nat /\ at[i] < Len(r)
      BY <1>2, <2>1
    <3>3. \A i, j \in 1..l - 1 : i < j => at[i] < at[j]
      BY <1>3 DEF CrossesAt
    <3>4. QED
      BY <2>1, <2>2, <3>1, <3>2, <3>3
  <2>4. ASSUME NEW i \in 1..l
        PROVE  a[to[i]] = network_of[Oriented(Flips)[i][1]] /\ a[to[i] + 1] = network_of[Oriented(Flips)[i][2]]
    <3>1. CASE i = l
      <4>1. r[Len(r)] = legs[l][2] /\ legs[l][2] = network_of[Oriented(Flips)[l][1]]
        BY <1>7, <2>1, SearchLegs DEF ReachedBy
      <4>2. h = network_of[Oriented(Flips)[l][2]]
        BY <1>7, <2>1, SearchLegs
      <4>3. a[Len(r)] = r[Len(r)] /\ a[Len(r) + 1] = h /\ to[i] = Len(r)
        BY <1>2, <2>2, <3>1
      <4>4. QED
        BY <3>1, <4>1, <4>2, <4>3
    <3>2. CASE i # l
      <4>1. i \in 1..l - 1 /\ at[i] \in 1..Len(r) - 1
        BY <2>1, <3>2
      <4>2. a[at[i]] = r[at[i]] /\ a[at[i] + 1] = r[at[i] + 1]
        BY <1>2, <4>1
      <4>3. QED
        BY <1>3, <2>2, <4>1, <4>2 DEF CrossesAt
    <3>3. QED
      BY <3>1, <3>2
  <2>5. CrossesAt(a, t.leg - 1, to)
    <3>1. t.leg - 1 = l
      BY <1>7, <2>1
    <3>2. QED
      BY <2>2, <2>3, <2>4, <3>1 DEF CrossesAt
  <2>6. QED
    BY <1>2, <1>5, <2>5 DEF ReachedBy, Enters, a
<1>8. QED
  BY <1>6, <1>7 DEF Enters

-----------------------------------------------------------------------------
(* A route is followed until it is queued *)

\* What was seen is queued, or has been expanded.
Expanded(s) == ~AtDestination(s) /\ Successors(s) \subseteq seen
Closed == \A s \in seen : (\E i \in DOMAIN queue : queue[i] = s) \/ Expanded(s)

\* The search state of the first i networks of r, on the leg l.
Prefix(r, i, l) == [leg |-> l, current |-> r[i], visited |-> {r[j] : j \in 1..i}]
LegAt(at, i, l) == l \in 1..N + 1 /\ \A j \in 1..N : j < l <=> at[j] < i

LEMMA RouteIsSeq ==
  ASSUME NEW r \in Routes
  PROVE  /\ r \in Seq(Networks) /\ Len(r) \in Nat \ {0} /\ DOMAIN r = 1..Len(r)
         /\ \A i, j \in 1..Len(r) : r[i] = r[j] => i = j
         /\ \A i \in 1..Len(r) : r[i] \in Networks
<1>1. PICK over \in (SUBSET Networks) \ {{}} : r \in SetToSeqs(over)
  BY DEF Routes
<1>2. IsFiniteSet(over) /\ over # {}
  <2>1. IsFiniteSet(Networks) /\ over \in SUBSET Networks /\ over # {}
    BY <1>1, StpAssumption
  <2>2. QED
    BY <2>1, FS_Subset
<1>3. Cardinality(over) \in Nat \ {0}
  BY <1>2, FS_CardinalityType, FS_EmptySet
<1>4. /\ r \in Seq(over) /\ Len(r) = Cardinality(over) /\ DOMAIN r = 1..Len(r)
      /\ \A i, j \in 1..Len(r) : r[i] = r[j] => i = j
  BY <1>1, <1>2, OverIsSeq
<1>5. r \in Seq(Networks)
  BY <1>1, <1>4
<1>6. QED
  BY <1>3, <1>4, <1>5

LEMMA CrossesAll ==
  ASSUME RequestOK, NEW r
  PROVE  Crosses(r, Oriented(Flips)) <=> \E at : CrossesAt(r, N, at)
<1> DEFINE o == Oriented(Flips)
<1>1. o \in Seq(Stps \X Stps) /\ Len(o) = N /\ N \in Nat
  BY OrientedIsSeq
<1>2. SubSeq(o, 1, N) = o
  <2> HIDE DEF o
  <2>1. QED
    BY <1>1
<1>3. N \in 0..N
  BY <1>1
<1>4. Crosses(r, SubSeq(o, 1, N)) <=> \E at : CrossesAt(r, N, at)
  BY <1>3, CrossesFirst
<1>5. QED
  BY <1>2, <1>4

LEMMA PrefixSize ==
  ASSUME NEW r \in Routes, NEW i \in 1..Len(r), NEW l
  PROVE  Cardinality(Prefix(r, i, l).visited) = i
<1> DEFINE V == {r[j] : j \in 1..i}
           f == [j \in 1..i |-> r[j]]
<1>1. i \in Nat /\ \A j \in 1..i : j \in 1..Len(r)
  BY RouteIsSeq
<1>2. f \in Bijection(1..i, V)
  BY <1>1, RouteIsSeq DEF Bijection, Injection, IsInjective, Surjection
<1>3. IsFiniteSet(1..i) /\ Cardinality(1..i) = i
  BY <1>1, FS_Interval
<1>4. Cardinality(V) = i
  BY <1>2, <1>3, FS_Bijection DEF ExistsBijection
<1>5. QED
  BY <1>4 DEF Prefix

\* From what a route starts with the search goes on along the route.
LEMMA RouteIsFollowed ==
  ASSUME RequestOK, SearchOK, Searching, NEW r \in Routes, NEW at, CrossesAt(r, N, at),
         NEW i \in 1..Len(r) - 1, NEW l, LegAt(at, i, l)
  PROVE  \E m : LegAt(at, i + 1, m) /\ Enters(Prefix(r, i, l), Prefix(r, i + 1, m), r[i + 1])
<1>0. N \in Nat \ {0} /\ l \in 1..N + 1
  BY SearchLegs DEF LegAt
<1>1. /\ Len(r) \in Nat \ {0} /\ i \in 1..Len(r) /\ i + 1 \in 1..Len(r)
      /\ \A j, k \in 1..Len(r) : r[j] = r[k] => j = k
      /\ \A j \in 1..Len(r) : r[j] \in Networks
  BY RouteIsSeq
<1>2. /\ r[i + 1] \in Adjacency(r[i]) /\ r[Len(r)] = legs[N + 1][2]
  BY SearchLegs DEF Routes, IsPath
<1>3. /\ \A j \in 1..N : at[j] \in 1..Len(r) - 1
      /\ \A j, k \in 1..N : j < k => at[j] < at[k]
      /\ \A j \in 1..N : r[at[j]] = legs[j][2] /\ r[at[j] + 1] = legs[j + 1][1]
  BY SearchLegs DEF CrossesAt
<1>4. \A m : /\ Prefix(r, i + 1, m).visited = Prefix(r, i, l).visited \cup {r[i + 1]}
             /\ r[i + 1] \in Networks \ Prefix(r, i, l).visited
  <2>1. {r[j] : j \in 1..i + 1} = {r[j] : j \in 1..i} \cup {r[i + 1]}
    BY <1>1
  <2>2. r[i + 1] \notin {r[j] : j \in 1..i}
    <3>1. ASSUME NEW j \in 1..i PROVE r[i + 1] # r[j]
      BY <1>1
    <3>2. QED
      BY <3>1
  <2>3. QED
    BY <1>1, <2>1, <2>2 DEF Prefix
<1>5. CASE l <= N /\ at[l] = i
  <2>1. LegAt(at, i + 1, l + 1)
    <3>1. ASSUME NEW j \in 1..N PROVE j < l + 1 <=> at[j] < i + 1
      <4>1. CASE j < l
        BY <1>0, <1>1, <1>3, <1>5, <4>1
      <4>2. CASE j = l
        BY <1>0, <1>1, <1>5, <4>2
      <4>3. CASE j > l
        <5>1. l \in 1..N /\ at[l] < at[j] /\ at[j] \in Nat
          BY <1>0, <1>1, <1>3, <1>5, <4>3
        <5>2. QED
          BY <1>0, <1>1, <1>5, <4>3, <5>1
      <4>4. QED
        BY <1>0, <4>1, <4>2, <4>3
    <3>2. QED
      BY <1>0, <1>5, <3>1 DEF LegAt
  <2>2. r[i] = legs[l][2] /\ r[i + 1] = legs[l + 1][1]
    BY <1>0, <1>3, <1>5
  <2>3. Enters(Prefix(r, i, l), Prefix(r, i + 1, l + 1), r[i + 1])
    BY <1>0, <1>4, <1>5, <2>2 DEF Enters, Prefix
  <2>4. QED
    BY <2>1, <2>3
<1>6. CASE ~(l <= N /\ at[l] = i)
  <2>1. l <= N => at[l] > i
    <3>1. l <= N => ~(at[l] < i)
      BY <1>0 DEF LegAt
    <3>2. QED
      BY <1>0, <1>1, <1>3, <1>6, <3>1
  <2>2. LegAt(at, i + 1, l)
    <3>1. ASSUME NEW j \in 1..N PROVE j < l <=> at[j] < i + 1
      <4>1. CASE j < l
        <5>1. at[j] < i
          BY <4>1 DEF LegAt
        <5>2. QED
          BY <1>1, <1>3, <4>1, <5>1
      <4>2. CASE ~(j < l)
        <5>1. l \in 1..N /\ (l = j \/ l < j)
          BY <1>0, <4>2
        <5>2. at[j] > i
          BY <1>1, <1>3, <2>1, <5>1
        <5>3. QED
          BY <1>1, <1>3, <4>2, <5>2
      <4>3. QED
        BY <4>1, <4>2
    <3>2. QED
      BY <1>0, <3>1 DEF LegAt
  <2>3. r[i] # legs[l][2]
    <3>1. CASE l <= N
      <4>1. l \in 1..N /\ legs[l][2] = r[at[l]] /\ at[l] \in 1..Len(r) /\ at[l] # i
        BY <1>0, <1>1, <1>3, <2>1, <3>1
      <4>2. QED
        BY <1>1, <4>1
    <3>2. CASE l = N + 1
      BY <1>1, <1>2, <3>2
    <3>3. QED
      BY <1>0, <3>1, <3>2
  <2>4. Enters(Prefix(r, i, l), Prefix(r, i + 1, l), r[i + 1])
    BY <1>2, <1>4, <2>3 DEF Enters, Prefix
  <2>5. QED
    BY <2>2, <2>4
<1>7. QED
  BY <1>5, <1>6

\* Of a route over the SDPs as they are oriented, something that is not longer is queued.
LEMMA RouteIsQueued ==
  ASSUME RequestOK, SearchOK, Closed, Searching, NEW r \in Routes, Crosses(r, Oriented(Flips))
  PROVE  \E k \in DOMAIN queue : Cardinality(queue[k].visited) \in Nat
                                 /\ Cardinality(queue[k].visited) <= Len(r)
<1>1. PICK at : CrossesAt(r, N, at)
  BY CrossesAll
<1> DEFINE Done(i) == \E l : LegAt(at, i, l) /\ Prefix(r, i, l) \in seen /\ Expanded(Prefix(r, i, l))
           Rest == {i \in 1..Len(r) : ~Done(i)}
<1>2. N \in Nat \ {0} /\ Len(r) \in Nat \ {0} /\ \A j \in 1..N : at[j] \in 1..Len(r) - 1
  BY <1>1, SearchLegs, RouteIsSeq DEF CrossesAt
<1>3. Len(r) \in Rest
  <2>1. ASSUME NEW l, LegAt(at, Len(r), l) PROVE AtDestination(Prefix(r, Len(r), l))
    <3>1. \A j \in 1..N : j < l
      BY <1>2, <2>1 DEF LegAt
    <3>2. l \in 1..N + 1 /\ N \in 1..N
      BY <1>2, <2>1 DEF LegAt
    <3>3. l = N + 1
      BY <1>2, <3>1, <3>2
    <3>4. r[Len(r)] = legs[N + 1][2] /\ Len(legs) = N + 1
      BY SearchLegs DEF Routes
    <3>5. QED
      BY <3>3, <3>4 DEF AtDestination, Prefix
  <2>2. ~Done(Len(r))
    BY <2>1 DEF Expanded
  <2>3. QED
    BY <1>2, <2>2
<1>4. PICK i \in Rest : \A j \in Rest : i <= j
  <2>1. Rest \subseteq Nat /\ Rest # {}
    BY <1>2, <1>3
  <2> HIDE DEF Rest
  <2>2. QED
    BY <2>1, LeastOf
<1>5. \E l : LegAt(at, i, l) /\ Prefix(r, i, l) \in seen
  <2>1. CASE i = 1
    <3>1. LegAt(at, 1, 1)
      BY <1>2 DEF LegAt
    <3>2. Prefix(r, 1, 1) = Start
      <4>1. r[1] = legs[1][1]
        BY SearchLegs DEF Routes
      <4>2. {r[j] : j \in 1..1} = {r[1]}
        OBVIOUS
      <4>3. QED
        BY <4>1, <4>2 DEF Prefix, Start
    <3>3. QED
      BY <2>1, <3>1, <3>2 DEF SearchOK
  <2>2. CASE i # 1
    <3>1. i - 1 \in 1..Len(r) - 1 /\ (i - 1) + 1 = i /\ i - 1 \notin Rest
      BY <1>2, <1>4, <2>2
    <3>2. PICK l : LegAt(at, i - 1, l) /\ Prefix(r, i - 1, l) \in seen /\ Expanded(Prefix(r, i - 1, l))
      BY <1>2, <3>1
    <3>3. PICK m : LegAt(at, i, m) /\ Enters(Prefix(r, i - 1, l), Prefix(r, i, m), r[i])
      <4>1. \E m : LegAt(at, (i - 1) + 1, m)
                    /\ Enters(Prefix(r, i - 1, l), Prefix(r, (i - 1) + 1, m), r[(i - 1) + 1])
        BY <1>1, <3>1, <3>2, RouteIsFollowed
      <4>2. QED
        BY <3>1, <4>1
    <3>4. Prefix(r, i, m) \in SearchState
      <4>1. m \in 1..MaxIncluded + 1
        BY <1>2, <3>3, BoundAssumption DEF LegAt, RequestOK
      <4>2. i \in 1..Len(r) /\ {r[j] : j \in 1..i} \subseteq Networks /\ r[i] \in Networks
        BY <1>2, <1>4, RouteIsSeq
      <4>3. QED
        BY <4>1, <4>2 DEF Prefix, SearchState
    <3>5. Prefix(r, i, m) \in Successors(Prefix(r, i - 1, l))
      BY <3>2, <3>3, <3>4, EntersIsSuccessor
    <3>6. QED
      BY <3>2, <3>3, <3>5 DEF Expanded
  <2>3. QED
    BY <2>1, <2>2
<1>6. PICK l : LegAt(at, i, l) /\ Prefix(r, i, l) \in seen /\ ~Expanded(Prefix(r, i, l))
  BY <1>4, <1>5
<1>7. PICK k \in DOMAIN queue : queue[k] = Prefix(r, i, l)
  BY <1>6 DEF Closed
<1>8. Cardinality(queue[k].visited) = i
  BY <1>4, <1>7, PrefixSize
<1>9. QED
  BY <1>2, <1>4, <1>8

-----------------------------------------------------------------------------
(* The orientations, in their order *)

\* The order of product((False, True), repeat=n): the first SDP that differs is flipped in g.
Before(f, g) == \E i \in 1..N : i \in g \ f /\ \A j \in 1..i - 1 : j \in f <=> j \in g

LEMMA FollowingIsNext ==
  ASSUME N \in Nat, NEW f \in SUBSET (1..N), NEW g \in SUBSET (1..N), g # 1..N
  PROVE  Before(f, Following(g)) <=> f = g \/ Before(f, g)
<1> DEFINE Ends == {i \in 0..N : \A j \in i + 1..N : j \in g}
           next == Following(g)
<1>1. N \in Ends
  OBVIOUS
<1>2. PICK last \in Ends : \A i \in Ends : last <= i
  <2>1. Ends \subseteq Nat /\ Ends # {}
    BY <1>1
  <2> HIDE DEF Ends
  <2>2. QED
    BY <2>1, LeastOf
<1>3. last \in 1..N /\ last \notin g /\ \A j \in last + 1..N : j \in g
  <2>1. last # 0
    <3>1. ASSUME last = 0 PROVE 1..N \subseteq g
      BY <1>2, <3>1
    <3>2. ~(1..N \subseteq g)
      OBVIOUS
    <3>3. QED
      BY <3>1, <3>2
  <2>2. last \in 0..N /\ \A j \in last + 1..N : j \in g
    BY <1>2
  <2>3. ASSUME last \in g PROVE FALSE
    <3>1. last - 1 \in 0..N
      BY <2>1, <2>2
    <3>2. \A j \in (last - 1) + 1..N : j \in g
      BY <2>1, <2>2, <2>3
    <3>3. last - 1 \in Ends
      BY <3>1, <3>2
    <3>4. QED
      BY <1>2, <2>2, <3>3
  <2>4. QED
    BY <2>1, <2>2, <2>3
<1>4. \A i \in 1..N : i \in next <=> (i \in g /\ i < last) \/ i = last
  <2>1. ASSUME NEW i \in 1..N PROVE (i + 1..N \subseteq g) <=> last <= i
    BY <1>3, <2>1
  <2>2. \A i \in 1..N : i \in next <=> (i \in g <=> ~(last <= i))
    BY <2>1 DEF Following
  <2>3. \A i \in 1..N : last < i => i \in g
    BY <1>3
  <2>4. QED
    BY <1>3, <2>2, <2>3
<1>5. ASSUME f = g PROVE Before(f, next)
  BY <1>3, <1>4, <1>5 DEF Before
<1>6. ASSUME Before(f, g) PROVE Before(f, next)
  <2>1. PICK i \in 1..N : i \in g \ f /\ \A j \in 1..i - 1 : j \in f <=> j \in g
    BY <1>6 DEF Before
  <2>2. CASE i < last
    BY <1>4, <2>1, <2>2 DEF Before
  <2>3. CASE last < i
    <3>1. last \notin f /\ \A j \in 1..last - 1 : j \in f <=> j \in g
      BY <1>3, <2>1, <2>3
    <3>2. QED
      BY <1>3, <1>4, <3>1 DEF Before
  <2>4. QED
    BY <1>3, <2>1, <2>2, <2>3
<1>7. ASSUME Before(f, next), f # g PROVE Before(f, g)
  <2>1. PICK i \in 1..N : i \in next \ f /\ \A j \in 1..i - 1 : j \in f <=> j \in next
    BY <1>7 DEF Before
  <2>2. CASE i < last
    BY <1>3, <1>4, <2>1, <2>2 DEF Before
  <2>3. CASE i = last
    <3> DEFINE Differ == {j \in 1..N : ~(j \in f <=> j \in g)}
    <3>1. PICK j \in Differ : \A k \in Differ : j <= k
      <4>1. Differ \subseteq Nat /\ Differ # {}
        <5>1. \E j : ~(j \in f <=> j \in g)
          BY <1>7
        <5>2. \E j : j \in Differ
          BY <5>1
        <5>3. Differ \subseteq Nat
          OBVIOUS
        <5>4. QED
          BY <5>2, <5>3
      <4> HIDE DEF Differ
      <4>2. QED
        BY <4>1, LeastOf
    <3>2. j > last
      BY <1>3, <1>4, <2>1, <2>3, <3>1
    <3>3. j \in g \ f
      BY <1>3, <3>1, <3>2
    <3>4. QED
      BY <3>1, <3>3 DEF Before
  <2>4. QED
    BY <1>3, <1>4, <2>1, <2>2, <2>3
<1>8. QED
  BY <1>5, <1>6, <1>7

LEMMA BeforeIsStrict == ASSUME NEW f PROVE ~Before(f, f)
BY DEF Before

-----------------------------------------------------------------------------
(* The invariant of the searches *)

AllReached == \A s \in seen : \E r : ReachedBy(s, r)

SearchInv == RequestOK /\ SearchOK /\ ShortestFirst /\ AllReached /\ Closed

LEMMA ExpandKeepsSearch == ASSUME SearchInv, Expand PROVE SearchInv'
<1> DEFINE s == Head(queue)
           fresh == Successors(s) \ seen
<1>0. RequestOK /\ SearchOK /\ ShortestFirst /\ AllReached /\ Closed
  BY DEF SearchInv
<1>1. /\ Searching /\ queue \in Seq(SearchState) /\ queue # <<>> /\ s = queue[1] /\ 1 \in DOMAIN queue
      /\ DOMAIN queue = 1..Len(queue) /\ Len(queue) \in Nat \ {0}
      /\ ~AtDestination(s) /\ seen' = seen \cup fresh
  BY <1>0 DEF Expand, SearchOK
<1>2. s \in seen /\ s \in SearchState
  BY <1>0, <1>1 DEF SearchOK
<1>3. PICK order \in SetToSeqs(fresh) : queue' = Tail(queue) \o order
  BY DEF Expand
<1>4. /\ UNCHANGED <<request, legs, scored>> /\ N' = N /\ Searching' = Searching
      /\ AllSearched' = AllSearched /\ Flips' = Flips /\ Start' = Start
      /\ Legs(Oriented(Flips))' = Legs(Oriented(Flips))
  BY DEF Expand, N, Searching, AllSearched, Flips, Following, Start, Legs, Oriented
<1> HIDE DEF s
<1>5. ASSUME NEW t \in fresh
      PROVE  /\ t \in SearchState /\ t.leg <= N + 1 /\ t.current \in t.visited
             /\ \E h : Enters(s, t, h)
  BY <1>0, <1>1, <1>2, SuccessorEnters
<1>6. IsFiniteSet(fresh)
  BY SuccessorsFinite, FS_Subset
<1> HIDE DEF fresh
<1>7. /\ order \in Seq(fresh) /\ Len(order) \in Nat /\ \A i \in 1..Len(order) : order[i] \in fresh
      /\ \A t \in fresh : \E i \in 1..Len(order) : order[i] = t
  BY <1>6, OverIsSeq, OverIsAll
<1>8. order \in Seq(SearchState)
  <2>1. fresh \subseteq SearchState
    BY <1>5
  <2>2. QED
    BY <1>7, <2>1
<1>9. /\ queue' \in Seq(SearchState) /\ Len(queue') = Len(queue) - 1 + Len(order) /\ DOMAIN queue' = 1..Len(queue')
      /\ \A i \in 1..Len(queue) - 1 : queue'[i] = queue[i + 1]
      /\ \A i \in 1..Len(order) : queue'[Len(queue) - 1 + i] = order[i]
      /\ \A i \in 1..Len(queue') : i \in 1..Len(queue) - 1 \/ i - (Len(queue) - 1) \in 1..Len(order)
  <2>1. LET after == Tail(queue) \o order
        IN /\ after \in Seq(SearchState) /\ Len(after) = Len(queue) - 1 + Len(order)
           /\ \A i \in 1..Len(queue) - 1 : after[i] = queue[i + 1]
           /\ \A i \in 1..Len(order) : after[Len(queue) - 1 + i] = order[i]
           /\ \A i \in 1..Len(after) : i \in 1..Len(queue) - 1 \/ i - (Len(queue) - 1) \in 1..Len(order)
    BY <1>1, <1>8, QueueAfter
  <2>2. \A S : \A q \in Seq(S) : DOMAIN q = 1..Len(q)
    OBVIOUS
  <2>3. QED
    BY <1>3, <2>1, <2>2
<1>10. \A i \in 1..Len(queue') :
         \/ i \in 1..Len(queue) - 1 /\ i + 1 \in DOMAIN queue /\ queue'[i] = queue[i + 1]
         \/ ~(i \in 1..Len(queue) - 1) /\ queue'[i] \in fresh
  <2>1. SUFFICES ASSUME NEW i \in 1..Len(queue'), ~(i \in 1..Len(queue) - 1) PROVE queue'[i] \in fresh
    BY <1>1, <1>9
  <2>2. PICK j \in 1..Len(order) : i = Len(queue) - 1 + j
    <3>1. i - (Len(queue) - 1) \in 1..Len(order) /\ i = Len(queue) - 1 + (i - (Len(queue) - 1))
      BY <1>1, <1>7, <1>9, <2>1
    <3>2. QED
      BY <3>1
  <2>3. QED
    BY <1>7, <1>9, <2>2
<1>11. SearchOK'
  <2>1. Searching' => N' \in 1..MaxSdps /\ ~AllSearched' /\ legs' = Legs(Oriented(Flips))' /\ Start' \in seen'
    BY <1>0, <1>1, <1>4 DEF SearchOK
  <2>2. seen' \subseteq SearchState
    BY <1>0, <1>1, <1>5 DEF SearchOK
  <2>3. \A i \in DOMAIN queue' : queue'[i] \in seen'
    BY <1>0, <1>1, <1>9, <1>10 DEF SearchOK
  <2>4. \A t \in seen' : t.leg <= N' + 1 /\ t.current \in t.visited
    BY <1>0, <1>1, <1>4, <1>5 DEF SearchOK
  <2>5. QED
    BY <1>1, <1>4, <1>9, <2>1, <2>2, <2>3, <2>4 DEF SearchOK
<1>12. ShortestFirst'
  <2> DEFINE c == Cardinality(s.visited)
             Size(t) == Cardinality(t.visited)
  <2>1. c \in Nat /\ IsFiniteSet(s.visited)
    BY <1>2, VisitedFinite
  <2>2. ASSUME NEW t \in fresh PROVE Size(t) = c + 1
    <3>1. PICK h : h \notin s.visited /\ t.visited = s.visited \cup {h}
      BY <1>5, <2>2 DEF Enters
    <3>2. QED
      BY <2>1, <3>1, FS_AddElement
  <2>3. \A i \in DOMAIN queue : Size(queue[i]) \in Nat
    <3>1. \A i \in DOMAIN queue : queue[i] \in SearchState
      BY <1>1
    <3>2. QED
      BY <3>1, VisitedFinite
  <2>4. \A i, j \in DOMAIN queue : i < j => Size(queue[j]) - Size(queue[i]) \in {0, 1}
    BY <1>0 DEF ShortestFirst
  <2> HIDE DEF c, Size
  <2>5. Size(queue[1]) = c
    BY <1>1 DEF Size, c
  <2>6. \A i \in DOMAIN queue : Size(queue[i]) \in {c, c + 1}
    <3>1. ASSUME NEW i \in DOMAIN queue PROVE Size(queue[i]) \in {c, c + 1}
      <4>1. CASE i = 1
        BY <2>5, <4>1
      <4>2. CASE i # 1
        <5>1. 1 < i
          BY <1>1, <3>1, <4>2
        <5>2. Size(queue[i]) - Size(queue[1]) \in {0, 1}
          BY <1>1, <2>4, <5>1
        <5>3. QED
          BY <2>1, <2>3, <2>5, <5>2
      <4>3. QED
        BY <4>1, <4>2
    <3>2. QED
      BY <3>1
  <2>7. ASSUME NEW i \in DOMAIN queue', NEW j \in DOMAIN queue', i < j
        PROVE  Size(queue'[j]) - Size(queue'[i]) \in {0, 1}
    <3>1. CASE j \in 1..Len(queue) - 1
      <4>1. i \in 1..Len(queue) - 1
        BY <1>9, <2>7, <3>1
      <4>2. i + 1 \in DOMAIN queue /\ j + 1 \in DOMAIN queue /\ i + 1 < j + 1
        BY <1>1, <2>7, <3>1, <4>1
      <4>3. QED
        BY <1>9, <2>4, <3>1, <4>1, <4>2
    <3>2. CASE ~(j \in 1..Len(queue) - 1)
      <4>1. Size(queue'[j]) = c + 1
        BY <1>9, <1>10, <2>2, <3>2
      <4>2. Size(queue'[i]) \in {c, c + 1}
        BY <1>9, <1>10, <2>2, <2>6
      <4>3. QED
        BY <2>1, <4>1, <4>2
    <3>3. QED
      BY <3>1, <3>2
  <2>8. QED
    BY <2>7 DEF ShortestFirst, Size
<1>13. AllReached'
  <2>1. \A t, r : ReachedBy(t, r)' <=> ReachedBy(t, r)
    BY <1>4 DEF ReachedBy, CrossesAt, IsPath, Adjacency, Oriented
  <2>2. ASSUME NEW t \in fresh PROVE \E r : ReachedBy(t, r)
    BY <1>0, <1>1, <1>2, <1>5, EnteringExtends DEF AllReached
  <2>3. QED
    BY <1>0, <1>1, <2>1, <2>2 DEF AllReached
<1>14. Closed'
  <2>1. \A t : AtDestination(t)' <=> AtDestination(t)
    BY <1>4 DEF AtDestination
  <2>2. \A t : Successors(t)' = Successors(t)
    BY <1>4 DEF Successors, Crossings, Hops, Adjacency
  <2>3. SUFFICES ASSUME NEW t \in seen' PROVE (\E i \in DOMAIN queue' : queue'[i] = t) \/ Expanded(t)'
    BY DEF Closed
  <2>4. CASE t \in fresh
    <3>1. PICK i \in 1..Len(order) : order[i] = t
      BY <1>7, <2>4
    <3>2. Len(queue) - 1 + i \in 1..Len(queue')
      BY <1>1, <1>7, <1>9, <3>1
    <3>3. queue'[Len(queue) - 1 + i] = t
      BY <1>9, <3>1
    <3>4. QED
      BY <1>9, <3>2, <3>3
  <2>5. CASE Expanded(t)
    BY <1>1, <2>1, <2>2, <2>5 DEF Expanded
  <2>6. CASE \E i \in DOMAIN queue : queue[i] = t
    <3>1. PICK i \in DOMAIN queue : queue[i] = t
      BY <2>6
    <3>2. CASE i = 1
      <4>1. t = s /\ Successors(s) \subseteq seen \cup fresh
        BY <1>1, <3>1, <3>2 DEF fresh
      <4>2. QED
        BY <1>1, <2>1, <2>2, <4>1 DEF Expanded
    <3>3. CASE i # 1
      <4>1. i - 1 \in 1..Len(queue) - 1 /\ (i - 1) + 1 = i /\ i - 1 \in DOMAIN queue'
        BY <1>1, <1>7, <1>9, <3>1, <3>3
      <4>2. queue'[i - 1] = t
        BY <1>9, <3>1, <4>1
      <4>3. QED
        BY <4>1, <4>2
    <3>4. QED
      BY <3>2, <3>3
  <2>7. QED
    BY <1>0, <1>1, <2>3, <2>4, <2>5, <2>6 DEF Closed
<1>15. RequestOK'
  BY <1>0, <1>4 DEF RequestOK
<1>16. QED
  BY <1>11, <1>12, <1>13, <1>14, <1>15 DEF SearchInv

LEMMA SameRequest ==
  ASSUME request' = request
  PROVE  /\ N' = N /\ (\A f : Oriented(f)' = Oriented(f)) /\ (\A o : Legs(o)' = Legs(o))
         /\ scored' = scored => AllSearched' = AllSearched /\ Flips' = Flips
<1>1. N' = N
  BY DEF N
<1>2. \A f : Oriented(f)' = Oriented(f)
  BY <1>1 DEF Oriented
<1>3. \A o : Legs(o)' = Legs(o)
  BY <1>1 DEF Legs
<1>4. \A f : Following(f)' = Following(f)
  BY <1>1 DEF Following
<1>5. ASSUME scored' = scored PROVE AllSearched' = AllSearched /\ Flips' = Flips
  BY <1>1, <1>4, <1>5 DEF AllSearched, Flips
<1>6. QED
  BY <1>1, <1>2, <1>3, <1>5

LEMMA OneIsSeq == ASSUME NEW x PROVE <<x>> \in SetToSeqs({x}) /\ Len(<<x>>) = 1 /\ <<x>>[1] = x
<1>1. Cardinality({x}) = 1
  BY FS_Singleton
<1>2. <<x>> \in [1..1 -> {x}]
  OBVIOUS
<1>3. QED
  BY <1>1, <1>2 DEF SetToSeqs

\* A search that starts has seen, and queued, where it starts.
LEMMA StartIsSearch == ASSUME RequestOK, SearchOK, StartSearch PROVE SearchInv'
<1>0. PICK n : n = legs'[1][1]
  OBVIOUS
<1> DEFINE start == [leg |-> 1, current |-> n, visited |-> {n}]
<1>1. /\ N \in 1..MaxSdps /\ ~AllSearched /\ legs' = Legs(Oriented(Flips))
      /\ queue' = <<start>> /\ seen' = {start} /\ UNCHANGED <<request, scored>>
  BY <1>0 DEF StartSearch
<1>2. /\ N' = N /\ AllSearched' = AllSearched /\ Flips' = Flips
      /\ Legs(Oriented(Flips))' = Legs(Oriented(Flips))
  BY <1>1, SameRequest
<1>3. /\ N \in Nat \ {0} /\ legs' # <<>> /\ n \in Networks
  <2>1. N \in Nat \ {0}
    BY <1>1
  <2>2. legs' # <<>> /\ legs'[1][1] = network_of[request.source]
    BY <1>1, LegsOfOriented
  <2>3. QED
    BY <1>0, <2>1, <2>2, StpAssumption DEF RequestOK
<1>4. start \in SearchState /\ start = Start'
  BY <1>0, <1>1, <1>3, BoundAssumption DEF SearchState, Start, RequestOK
<1>5. queue' \in Seq(SearchState) /\ DOMAIN queue' = {1} /\ queue'[1] = start
  <2> HIDE DEF start
  <2>1. \A x : DOMAIN <<x>> = {1} /\ <<x>>[1] = x
    OBVIOUS
  <2>2. QED
    BY <1>1, <1>4, <2>1
<1>6. SearchOK'
  <2>1. Searching' /\ N' \in 1..MaxSdps /\ ~AllSearched' /\ legs' = Legs(Oriented(Flips))' /\ Start' \in seen'
    <3>1. Searching'
      BY <1>3 DEF Searching
    <3>2. QED
      BY <1>1, <1>2, <1>4, <3>1
  <2>2. start.leg = 1 /\ start.current \in start.visited
    OBVIOUS
  <2> HIDE DEF start
  <2>3. seen' \subseteq SearchState /\ \A i \in DOMAIN queue' : queue'[i] \in seen'
    BY <1>1, <1>4, <1>5
  <2>4. \A s \in seen' : s.leg <= N' + 1 /\ s.current \in s.visited
    BY <1>1, <1>2, <1>3, <2>2
  <2>5. QED
    BY <1>5, <2>1, <2>3, <2>4 DEF SearchOK
<1>7. ShortestFirst'
  <2>1. \A i, j \in DOMAIN queue' : ~(i < j)
    BY <1>5
  <2>2. QED
    BY <2>1 DEF ShortestFirst
<1>8. AllReached'
  <2> DEFINE r == <<n>>
  <2>1. r \in SetToSeqs({n}) /\ Len(r) = 1 /\ r[1] = n
    BY OneIsSeq
  <2>2. start.leg - 1 = 0 /\ start.current = n /\ start.visited = {n}
    OBVIOUS
  <2> HIDE DEF r, start
  <2>3. IsPath(r)'
    BY <2>1 DEF IsPath
  <2>4. CrossesAt(r, 0, <<>>)'
    BY DEF CrossesAt
  <2>5. ReachedBy(start, r)'
    <3>1. (\E at : CrossesAt(r, start.leg - 1, at))'
      BY <2>2, <2>4
    <3>2. QED
      BY <1>0, <2>1, <2>2, <2>3, <3>1 DEF ReachedBy
  <2>6. QED
    BY <1>1, <2>5 DEF AllReached
<1>9. Closed'
  BY <1>1, <1>5 DEF Closed
<1>10. RequestOK'
  BY <1>1, <1>2 DEF RequestOK
<1>11. QED
  BY <1>6, <1>7, <1>8, <1>9, <1>10 DEF SearchInv

\* Between two searches nothing is queued or seen.
LEMMA NoSearchIsSearch ==
  ASSUME RequestOK, request' = request, ~Searching', queue' = <<>>, seen' = {}
  PROVE  SearchInv'
<1>1. RequestOK'
  BY DEF RequestOK, N
<1>2. SearchOK' /\ ShortestFirst' /\ AllReached' /\ Closed'
  BY DEF SearchOK, ShortestFirst, AllReached, Closed
<1>3. QED
  BY <1>1, <1>2 DEF SearchInv

-----------------------------------------------------------------------------
(* The scores *)

\* The length is that of a shortest route over the SDPs as they are oriented, 0 if there is none.
Right(flips, length) ==
  /\ length # 0 => \E r \in Routes : Crosses(r, Oriented(flips)) /\ Len(r) = length
  /\ \A r \in Routes : Crosses(r, Oriented(flips)) => length # 0 /\ length <= Len(r)

ScoreRecord == [flips : SUBSET (1..N), length : 0..Cardinality(Networks)]

ScoresOK ==
  /\ scored \in Seq(ScoreRecord)
  /\ \A i, j \in DOMAIN scored : scored[i].flips = scored[j].flips => i = j
  /\ \A f \in SUBSET (1..N) :
        (\E k \in DOMAIN scored : scored[k].flips = f)
          <=> scored # <<>> /\ (f = Last(scored).flips \/ Before(f, Last(scored).flips))
  /\ \A k \in DOMAIN scored : Right(scored[k].flips, scored[k].length)

LEMMA FlipsAreNext ==
  ASSUME RequestOK, ScoresOK, ~AllSearched
  PROVE  /\ Flips \in SUBSET (1..N)
         /\ \A f \in SUBSET (1..N) : (\E k \in DOMAIN scored : scored[k].flips = f) <=> Before(f, Flips)
<1>1. CASE scored = <<>>
  <2>1. Flips = {} /\ \A f : ~Before(f, {})
    BY <1>1 DEF Flips, Before
  <2>2. QED
    BY <1>1, <2>1
<1>2. CASE scored # <<>>
  <2> DEFINE g == Last(scored).flips
  <2>1. g \in SUBSET (1..N) /\ g # 1..N /\ N \in Nat
    <3>1. Last(scored) \in ScoreRecord
      BY <1>2 DEF ScoresOK, Last
    <3>2. QED
      BY <1>2, <3>1 DEF ScoreRecord, AllSearched, RequestOK, N
  <2>2. Flips = Following(g)
    BY <1>2 DEF Flips
  <2>3. Following(g) \in SUBSET (1..N)
    BY DEF Following
  <2>4. \A f \in SUBSET (1..N) : (\E k \in DOMAIN scored : scored[k].flips = f) <=> f = g \/ Before(f, g)
    BY <1>2 DEF ScoresOK
  <2> HIDE DEF g
  <2>5. QED
    BY <2>1, <2>2, <2>3, <2>4, FollowingIsNext
<1>3. QED
  BY <1>1, <1>2

LEMMA ScoreKeepsScores ==
  ASSUME RequestOK, ScoresOK, ~AllSearched, NEW length \in 0..Cardinality(Networks), Score(length),
         Right(Flips, length)
  PROVE  ScoresOK'
<1> DEFINE new == [flips |-> Flips, length |-> length]
<1>1. scored' = Append(scored, new) /\ request' = request /\ N' = N
  BY DEF Score, N
<1>2. scored \in Seq(ScoreRecord) /\ Flips \in SUBSET (1..N) /\ new \in ScoreRecord /\ ScoreRecord' = ScoreRecord
  BY <1>1, FlipsAreNext DEF ScoresOK, ScoreRecord
<1> HIDE DEF ScoreRecord
<1>3. /\ scored' \in Seq(ScoreRecord) /\ scored' # <<>> /\ Last(scored') = new /\ Len(scored) \in Nat
      /\ DOMAIN scored = 1..Len(scored) /\ DOMAIN scored' = 1..Len(scored) + 1
      /\ scored'[Len(scored) + 1] = new /\ \A k \in 1..Len(scored) : scored'[k] = scored[k]
  <2> HIDE DEF new
  <2>1. QED
    BY <1>1, <1>2 DEF Last
<1>4. \A k \in DOMAIN scored' : k \in DOMAIN scored \/ k = Len(scored) + 1
  BY <1>3
<1>5. \A k \in DOMAIN scored : scored[k].flips # Flips
  BY <1>2, FlipsAreNext, BeforeIsStrict
<1>6. \A i, j \in DOMAIN scored' : scored'[i].flips = scored'[j].flips => i = j
  <2>1. \A i, j \in DOMAIN scored : scored[i].flips = scored[j].flips => i = j
    BY DEF ScoresOK
  <2>2. new.flips = Flips
    OBVIOUS
  <2> HIDE DEF new
  <2>3. QED
    BY <1>3, <1>4, <1>5, <2>1, <2>2
<1>7. ASSUME NEW f \in SUBSET (1..N)
      PROVE  (\E k \in DOMAIN scored' : scored'[k].flips = f) <=> f = new.flips \/ Before(f, new.flips)
  <2>1. (\E k \in DOMAIN scored : scored[k].flips = f) <=> Before(f, new.flips)
    BY FlipsAreNext
  <2> HIDE DEF new
  <2>2. (\E k \in DOMAIN scored' : scored'[k].flips = f)
          <=> (\E k \in DOMAIN scored : scored[k].flips = f) \/ new.flips = f
    BY <1>3, <1>4
  <2>3. QED
    BY <2>1, <2>2
<1>8. \A f, l : Right(f, l)' <=> Right(f, l)
  BY <1>1 DEF Right, Routes, IsPath, Adjacency, Crosses, Oriented
<1>9. \A k \in DOMAIN scored' : Right(scored'[k].flips, scored'[k].length)
  <2>1. \A k \in DOMAIN scored : Right(scored[k].flips, scored[k].length)
    BY DEF ScoresOK
  <2>2. Right(new.flips, new.length)
    OBVIOUS
  <2> HIDE DEF new
  <2>3. QED
    BY <1>3, <1>4, <2>1, <2>2
<1>10. \A f, g : Before(f, g)' <=> Before(f, g)
  BY <1>1 DEF Before
<1> HIDE DEF new
<1>11. QED
  BY <1>1, <1>2, <1>3, <1>6, <1>7, <1>8, <1>9, <1>10 DEF ScoresOK

\* A search that ends has found a shortest route, or there is none.
LEMMA FoundIsRight ==
  ASSUME SearchInv, Searching, queue # <<>>, AtDestination(Head(queue))
  PROVE  /\ Cardinality(Head(queue).visited) \in 0..Cardinality(Networks)
         /\ Right(Flips, Cardinality(Head(queue).visited))
<1> DEFINE s == Head(queue)
           length == Cardinality(s.visited)
<1>0. RequestOK /\ SearchOK /\ ShortestFirst /\ AllReached /\ Closed
  BY DEF SearchInv
<1>1. /\ s = queue[1] /\ 1 \in DOMAIN queue /\ DOMAIN queue = 1..Len(queue) /\ Len(queue) \in Nat
      /\ queue \in Seq(SearchState)
  BY <1>0 DEF SearchOK
<1>2. s \in seen /\ s \in SearchState /\ AtDestination(s)
  BY <1>0, <1>1 DEF SearchOK
<1> HIDE DEF s
<1>3. s.visited \in (SUBSET Networks) \ {{}} /\ s.leg = N + 1 /\ N \in Nat /\ s.current = legs[N + 1][2]
  BY <1>0, <1>2, SearchLegs DEF SearchOK, SearchState, AtDestination
<1>4. IsFiniteSet(s.visited) /\ length \in Nat \ {0} /\ length <= Cardinality(Networks)
      /\ Cardinality(Networks) \in Nat
  <2>1. IsFiniteSet(Networks)
    BY StpAssumption
  <2>2. QED
    BY <1>2, <1>3, <2>1, VisitedFinite, FS_Subset, FS_EmptySet, FS_CardinalityType
<1>5. \E r \in Routes : Crosses(r, Oriented(Flips)) /\ Len(r) = length
  <2>1. PICK r : ReachedBy(s, r)
    BY <1>0, <1>2 DEF AllReached
  <2>2. r \in SetToSeqs(s.visited) /\ IsPath(r) /\ r[1] = legs[1][1] /\ r[Len(r)] = s.current
    BY <2>1 DEF ReachedBy
  <2>3. r \in Routes
    BY <1>0, <1>3, <2>2, SearchLegs DEF Routes
  <2>4. \E at : CrossesAt(r, N, at)
    BY <1>3, <2>1 DEF ReachedBy
  <2>5. Crosses(r, Oriented(Flips))
    BY <1>0, <2>4, CrossesAll
  <2>6. Len(r) = length
    BY <1>4, <2>2, OverIsSeq
  <2>7. QED
    BY <2>3, <2>5, <2>6
<1>6. ASSUME NEW r \in Routes, Crosses(r, Oriented(Flips)) PROVE length <= Len(r)
  <2>1. PICK k \in DOMAIN queue : /\ Cardinality(queue[k].visited) \in Nat
                                 /\ Cardinality(queue[k].visited) <= Len(r)
    BY <1>0, <1>6, RouteIsQueued
  <2>2. Len(r) \in Nat
    BY RouteIsSeq
  <2>3. CASE k = 1
    BY <1>1, <1>4, <2>1, <2>2, <2>3
  <2>4. CASE k # 1
    <3>1. Cardinality(queue[k].visited) - Cardinality(queue[1].visited) \in {0, 1}
      BY <1>0, <1>1, <2>4 DEF ShortestFirst
    <3>2. Cardinality(queue[1].visited) = length
      BY <1>1
    <3> HIDE DEF length
    <3>3. QED
      BY <1>4, <2>1, <2>2, <3>1, <3>2
  <2>5. QED
    BY <2>3, <2>4
<1>7. QED
  BY <1>4, <1>5, <1>6 DEF Right, s

LEMMA NoRouteIsRight == ASSUME SearchInv, Searching, queue = <<>> PROVE Right(Flips, 0)
<1>1. DOMAIN queue = {}
  OBVIOUS
<1>2. \A r \in Routes : ~Crosses(r, Oriented(Flips))
  BY <1>1, RouteIsQueued DEF SearchInv
<1>3. QED
  BY <1>2 DEF Right

-----------------------------------------------------------------------------
(* The answer *)

LEMMA AnyIsOriented ==
  ASSUME RequestOK, NEW o
  PROVE  o \in AnyOrientation <=> \E f \in SUBSET (1..N) : o = Oriented(f)
<1>1. ASSUME NEW i \in 1..N
      PROVE  Reverse(request.included[i]) = <<request.included[i][2], request.included[i][1]>>
  <2>1. i \in 1..Len(request.included) /\ request.included \in Seq(Stps \X Stps)
    BY DEF RequestOK, N
  <2>2. PICK a \in Stps, z \in Stps : request.included[i] = <<a, z>>
    BY <2>1
  <2>3. Reverse(<<a, z>>) = <<z, a>>
    BY DEF Reverse
  <2>4. QED
    BY <2>2, <2>3
<1>2. \A f : [i \in 1..N |-> IF i \in f THEN Reverse(request.included[i]) ELSE request.included[i]] = Oriented(f)
  BY <1>1 DEF Oriented
<1>3. QED
  BY <1>2 DEF AnyOrientation

\* Once they are all searched, every orientation has its score.
LEMMA AllAreScored ==
  ASSUME RequestOK, ScoresOK, AllSearched, NEW f \in SUBSET (1..N)
  PROVE  \E k \in DOMAIN scored : scored[k].flips = f
<1>1. scored # <<>> /\ Last(scored).flips = 1..N
  BY DEF AllSearched
<1>2. f = 1..N \/ Before(f, 1..N)
  <2>1. SUFFICES ASSUME f # 1..N PROVE Before(f, 1..N)
    OBVIOUS
  <2> DEFINE Unflipped == {i \in 1..N : i \notin f}
  <2>2. PICK i \in Unflipped : \A j \in Unflipped : i <= j
    <3>1. Unflipped \subseteq Nat /\ Unflipped # {}
      <4>1. \E i \in 1..N : i \notin f
        BY <2>1
      <4>2. QED
        BY <4>1
    <3> HIDE DEF Unflipped
    <3>2. QED
      BY <3>1, LeastOf
  <2>3. N \in Nat
    BY DEF RequestOK, N
  <2>4. \A j \in 1..i - 1 : j \in 1..N /\ j \in f
    BY <2>2, <2>3
  <2>5. QED
    BY <2>2, <2>4 DEF Before
<1>3. QED
  BY <1>1, <1>2 DEF ScoresOK

LEMMA RefusalIsRight ==
  ASSUME RequestOK, ScoresOK, AllSearched, Routable = {}, NEW r \in Routes, NEW o \in AnyOrientation
  PROVE  ~Crosses(r, o)
<1>1. PICK f \in SUBSET (1..N) : o = Oriented(f)
  BY AnyIsOriented
<1>2. PICK k \in DOMAIN scored : scored[k].flips = f
  BY AllAreScored
<1>3. Right(f, scored[k].length) /\ scored[k].length = 0
  BY <1>2 DEF ScoresOK, Routable
<1>4. QED
  BY <1>1, <1>3 DEF Right

LEMMA ChoiceIsRight ==
  ASSUME RequestOK, ScoresOK, AllSearched, NEW k \in Routable, Best(k)
  PROVE  /\ Named(k) \in Seq(Stps)
         /\ \E o \in AnyOrientation :
              /\ Named(k) = [i \in 1..N |-> o[i][1]]
              /\ \E r \in Routes :
                   /\ Crosses(r, o)
                   /\ \A other \in Routes :
                        (\E q \in AnyOrientation : Crosses(other, q)) => Len(r) <= Len(other)
<1> DEFINE o == Oriented(scored[k].flips)
<1>1. /\ k \in DOMAIN scored /\ scored[k].length # 0
      /\ \A j \in DOMAIN scored : /\ scored[j].flips \in SUBSET (1..N) /\ scored[j].length \in Nat
                                 /\ Right(scored[j].flips, scored[j].length)
  <2>1. k \in DOMAIN scored /\ scored[k].length # 0
    BY DEF Routable
  <2>2. \A j \in DOMAIN scored : scored[j] \in ScoreRecord
    BY DEF ScoresOK
  <2>3. \A j \in DOMAIN scored : Right(scored[j].flips, scored[j].length)
    BY DEF ScoresOK
  <2>4. QED
    BY <2>1, <2>2, <2>3 DEF ScoreRecord
<1>2. o \in AnyOrientation
  BY <1>1, AnyIsOriented
<1>3. N \in Nat /\ \A i \in 1..N : o[i][1] \in Stps
  BY SdpConnects DEF RequestOK, N
<1> HIDE DEF o
<1>4. Named(k) = [i \in 1..N |-> o[i][1]]
  BY DEF Named, o
<1>5. Named(k) \in Seq(Stps)
  BY <1>3, <1>4
<1>6. PICK r \in Routes : Crosses(r, o) /\ Len(r) = scored[k].length
  BY <1>1 DEF Right, o
<1>7. ASSUME NEW other \in Routes, NEW q \in AnyOrientation, Crosses(other, q) PROVE Len(r) <= Len(other)
  <2>1. PICK f \in SUBSET (1..N) : q = Oriented(f)
    BY AnyIsOriented
  <2>2. PICK j \in DOMAIN scored : scored[j].flips = f
    BY AllAreScored
  <2>3. scored[j].length # 0 /\ scored[j].length <= Len(other)
    BY <1>1, <1>7, <2>1, <2>2 DEF Right
  <2>4. scored[k].length <= scored[j].length
    BY <1>1, <2>3 DEF Best, Routable
  <2>5. Len(other) \in Nat
    BY RouteIsSeq
  <2>6. QED
    BY <1>1, <1>6, <2>3, <2>4, <2>5
<1>8. QED
  BY <1>2, <1>4, <1>5, <1>6, <1>7

-----------------------------------------------------------------------------
(* The theorems *)

AnswerTyped == answer.kind \in {"pending", "ero", "ValueError"} /\ answer.stps \in Seq(Stps)

RouteInv ==
  SearchInv /\ ScoresOK /\ AnswerTyped /\ RefusesOnlyUnroutable /\ NamesShortestRoute

LEMMA SearchUnchanged ==
  ASSUME SearchInv, UNCHANGED <<request, legs, queue, seen, scored>>
  PROVE  SearchInv'
<1>1. /\ N' = N /\ AllSearched' = AllSearched /\ Flips' = Flips
      /\ Legs(Oriented(Flips))' = Legs(Oriented(Flips))
  BY SameRequest
<1>2. Searching' = Searching /\ Start' = Start
  BY DEF Searching, Start
<1>3. RequestOK'
  BY <1>1 DEF SearchInv, RequestOK
<1>4. SearchOK'
  BY <1>1, <1>2 DEF SearchInv, SearchOK
<1>5. ShortestFirst'
  BY DEF SearchInv, ShortestFirst
<1>6. AllReached'
  <2>1. \A s, r : ReachedBy(s, r)' <=> ReachedBy(s, r)
    BY <1>1 DEF ReachedBy, CrossesAt, IsPath, Adjacency, Oriented
  <2>2. QED
    BY <2>1 DEF SearchInv, AllReached
<1>7. Closed'
  <2>1. \A s : Expanded(s)' <=> Expanded(s)
    BY DEF Expanded, AtDestination, Successors, Crossings, Hops, Adjacency
  <2>2. QED
    BY <2>1 DEF SearchInv, Closed
<1>8. QED
  BY <1>3, <1>4, <1>5, <1>6, <1>7 DEF SearchInv

LEMMA ScoresUnchanged ==
  ASSUME ScoresOK, request' = request, scored' = scored
  PROVE  ScoresOK'
<1>1. N' = N /\ ScoreRecord' = ScoreRecord
  BY SameRequest DEF ScoreRecord
<1>2. \A f, l : Right(f, l)' <=> Right(f, l)
  BY <1>1 DEF Right, Routes, IsPath, Adjacency, Crosses, Oriented
<1>3. \A f, g : Before(f, g)' <=> Before(f, g)
  BY <1>1 DEF Before
<1>4. QED
  BY <1>1, <1>2, <1>3 DEF ScoresOK

LEMMA AnswerUnchanged ==
  ASSUME AnswerTyped, RefusesOnlyUnroutable, NamesShortestRoute, request' = request, answer' = answer
  PROVE  AnswerTyped' /\ RefusesOnlyUnroutable' /\ NamesShortestRoute'
<1>1. N' = N /\ Routes' = Routes /\ AnyOrientation' = AnyOrientation
  BY SameRequest DEF Routes, IsPath, Adjacency, AnyOrientation
<1>2. \A r, o : Crosses(r, o)' <=> Crosses(r, o)
  BY DEF Crosses
<1>3. RefusesOnlyUnroutable'
  BY <1>1, <1>2 DEF RefusesOnlyUnroutable
<1>4. NamesShortestRoute'
  BY <1>1, <1>2 DEF NamesShortestRoute
<1>5. QED
  BY <1>3, <1>4 DEF AnswerTyped

LEMMA ScoreKeepsInv ==
  ASSUME RouteInv, Searching, NEW length \in 0..Cardinality(Networks), Right(Flips, length), Score(length)
  PROVE  RouteInv'
<1>1. RequestOK /\ ~AllSearched
  BY DEF RouteInv, SearchInv, SearchOK
<1>2. request' = request /\ legs' = <<>> /\ queue' = <<>> /\ seen' = {} /\ answer' = answer
  BY DEF Score
<1>3. SearchInv'
  BY <1>1, <1>2, NoSearchIsSearch DEF Searching
<1>4. ScoresOK'
  BY <1>1, ScoreKeepsScores DEF RouteInv
<1>5. QED
  BY <1>2, <1>3, <1>4, AnswerUnchanged DEF RouteInv

\* What ero_stps has done so far is right, whatever it does next.
THEOREM RouteInvariance == Spec => []RouteInv
<1>1. Init => RouteInv
  <2> SUFFICES ASSUME Init PROVE RouteInv
    OBVIOUS
  <2>1. legs = <<>> /\ queue = <<>> /\ seen = {} /\ scored = <<>> /\ answer = Pending
    BY DEF Init
  <2>2. RequestOK
    BY RequestTyped
  <2>3. SearchInv
    BY <2>1, <2>2 DEF SearchInv, SearchOK, Searching, ShortestFirst, AllReached, Closed
  <2>4. ScoresOK
    BY <2>1 DEF ScoresOK
  <2>5. AnswerTyped /\ answer.kind = "pending" /\ answer # ValueError
    BY <2>1 DEF AnswerTyped, Pending, ValueError
  <2>6. QED
    BY <2>3, <2>4, <2>5 DEF RouteInv, RefusesOnlyUnroutable, NamesShortestRoute
<1>2. ASSUME RouteInv, [Next]_vars PROVE RouteInv'
  <2>0. RequestOK /\ SearchInv /\ SearchOK /\ ScoresOK
    BY <1>2 DEF RouteInv, SearchInv
  <2>1. CASE NothingIncluded
    <3>1. /\ UNCHANGED <<request, legs, queue, seen, scored>> /\ N' = 0
          /\ answer' = [kind |-> "ero", stps |-> <<>>]
      BY <2>1, SameRequest DEF NothingIncluded, Returned
    <3>2. AnswerTyped' /\ answer' # ValueError
      BY <3>1 DEF AnswerTyped, ValueError
    <3>3. RefusesOnlyUnroutable' /\ NamesShortestRoute'
      BY <3>1, <3>2 DEF RefusesOnlyUnroutable, NamesShortestRoute, ValueError
    <3>4. QED
      BY <2>0, <3>1, <3>2, <3>3, SearchUnchanged, ScoresUnchanged DEF RouteInv
  <2>2. CASE TooManyIncluded
    <3>1. /\ UNCHANGED <<request, legs, queue, seen, scored>> /\ N' = N /\ N > MaxSdps /\ N \in Nat
          /\ answer' = [kind |-> "ValueError", stps |-> <<>>]
      BY <2>0, <2>2, SameRequest DEF TooManyIncluded, ValueError, RequestOK, N
    <3>2. AnswerTyped'
      BY <3>1 DEF AnswerTyped
    <3>3. RefusesOnlyUnroutable' /\ NamesShortestRoute'
      BY <3>1, BoundAssumption DEF RefusesOnlyUnroutable, NamesShortestRoute
    <3>4. QED
      BY <2>0, <3>1, <3>2, <3>3, SearchUnchanged, ScoresUnchanged DEF RouteInv
  <2>3. CASE StartSearch
    <3>1. request' = request /\ scored' = scored /\ answer' = answer
      BY <2>3 DEF StartSearch
    <3>2. QED
      BY <1>2, <2>0, <2>3, <3>1, StartIsSearch, ScoresUnchanged, AnswerUnchanged DEF RouteInv
  <2>4. CASE Expand
    <3>1. request' = request /\ scored' = scored /\ answer' = answer
      BY <2>4 DEF Expand
    <3>2. QED
      BY <1>2, <2>0, <2>4, <3>1, ExpandKeepsSearch, ScoresUnchanged, AnswerUnchanged DEF RouteInv
  <2>5. CASE Found
    <3>1. /\ Searching /\ queue # <<>> /\ AtDestination(Head(queue))
          /\ Score(Cardinality(Head(queue).visited))
      BY <2>5 DEF Found
    <3>2. QED
      BY <1>2, <2>0, <3>1, FoundIsRight, ScoreKeepsInv
  <2>6. CASE NoRoute
    <3>1. Searching /\ queue = <<>> /\ Score(0)
      BY <2>6 DEF NoRoute
    <3>2. 0 \in 0..Cardinality(Networks)
      BY StpAssumption, FS_CardinalityType
    <3>3. QED
      BY <1>2, <2>0, <3>1, <3>2, NoRouteIsRight, ScoreKeepsInv
  <2>7. CASE Choose
    <3>1. UNCHANGED <<request, legs, queue, seen, scored>> /\ N' = N /\ AllSearched
      BY <2>7, SameRequest DEF Choose
    <3>2. Routes' = Routes /\ AnyOrientation' = AnyOrientation /\ \A r, o : Crosses(r, o)' <=> Crosses(r, o)
      BY <3>1, SameRequest DEF Routes, IsPath, Adjacency, AnyOrientation, Crosses
    <3>3. CASE Routable = {}
      <4>1. answer' = [kind |-> "ValueError", stps |-> <<>>]
        BY <2>7, <3>3 DEF Choose, ValueError
      <4>2. AnswerTyped' /\ NamesShortestRoute'
        BY <4>1 DEF AnswerTyped, NamesShortestRoute
      <4>3. RefusesOnlyUnroutable'
        BY <2>0, <3>1, <3>2, <3>3, RefusalIsRight DEF RefusesOnlyUnroutable
      <4>4. QED
        BY <2>0, <3>1, <4>2, <4>3, SearchUnchanged, ScoresUnchanged DEF RouteInv
    <3>4. CASE Routable # {}
      <4>1. PICK k \in Routable : Best(k) /\ answer' = [kind |-> "ero", stps |-> Named(k)]
        BY <2>7, <3>4 DEF Choose, Returned
      <4>2. answer'.kind = "ero" /\ answer'.stps = Named(k) /\ answer' # ValueError
        BY <4>1 DEF ValueError
      <4>3. RefusesOnlyUnroutable'
        BY <4>2 DEF RefusesOnlyUnroutable, ValueError
      <4>4. /\ Named(k) \in Seq(Stps)
            /\ \E o \in AnyOrientation :
                 /\ Named(k) = [i \in 1..N |-> o[i][1]]
                 /\ \E r \in Routes :
                      /\ Crosses(r, o)
                      /\ \A other \in Routes :
                           (\E q \in AnyOrientation : Crosses(other, q)) => Len(r) <= Len(other)
        BY <2>0, <3>1, <4>1, ChoiceIsRight
      <4>5. NamesShortestRoute'
        BY <3>1, <3>2, <4>2, <4>4 DEF NamesShortestRoute
      <4>6. AnswerTyped'
        BY <4>2, <4>4 DEF AnswerTyped
      <4>7. QED
        BY <2>0, <3>1, <4>3, <4>5, <4>6, SearchUnchanged, ScoresUnchanged DEF RouteInv
    <3>5. QED
      BY <3>3, <3>4
  <2>8. CASE UNCHANGED vars
    <3>1. UNCHANGED <<request, legs, queue, seen, scored>> /\ answer' = answer
      BY <2>8 DEF vars
    <3>2. QED
      BY <1>2, <2>0, <3>1, SearchUnchanged, ScoresUnchanged, AnswerUnchanged DEF RouteInv
  <2>9. QED
    BY <1>2, <2>1, <2>2, <2>3, <2>4, <2>5, <2>6, <2>7, <2>8 DEF Next
<1>3. QED
  BY <1>1, <1>2, PTL DEF Spec

\* Every variable keeps its type, and no orientation is searched twice.
THEOREM RouteTyped == Spec => []TypeOK
<1>1. ASSUME RouteInv PROVE TypeOK
  <2>1. RequestOK /\ SearchOK /\ ScoresOK /\ AnswerTyped
    BY <1>1 DEF RouteInv, SearchInv
  <2>2. legs \in Seq(Networks \X Networks)
    <3>1. CASE Searching
      BY <2>1, <3>1, SearchLegs
    <3>2. CASE ~Searching
      BY <3>2 DEF Searching
    <3>3. QED
      BY <3>1, <3>2
  <2>3. QED
    BY <2>1, <2>2 DEF TypeOK, RequestOK, SearchOK, ScoresOK, ScoreRecord, AnswerTyped
<1>2. QED
  BY <1>1, RouteInvariance, PTL

\* States are expanded in the order of their length.
THEOREM SearchesInOrder == Spec => []ShortestFirst
<1>1. RouteInv => ShortestFirst
  BY DEF RouteInv, SearchInv
<1>2. QED
  BY <1>1, RouteInvariance, PTL

\* What is queued was reached by a route over the visited networks and the SDPs of its legs.
THEOREM SearchesByRoute == Spec => []ReachedByRoute
<1>1. ASSUME RouteInv PROVE ReachedByRoute
  <2>1. RequestOK /\ SearchOK /\ AllReached
    BY <1>1 DEF RouteInv, SearchInv
  <2>2. SUFFICES ASSUME NEW s \in seen
                 PROVE  \E r \in SetToSeqs(s.visited) :
                          /\ IsPath(r) /\ r[1] = legs[1][1] /\ r[Len(r)] = s.current
                          /\ Crosses(r, SubSeq(Oriented(Flips), 1, s.leg - 1))
    BY DEF ReachedByRoute
  <2>3. PICK r : ReachedBy(s, r)
    BY <2>1 DEF AllReached
  <2>4. s.leg - 1 \in 0..N
    <3>1. s.leg \in Nat \ {0} /\ s.leg <= N + 1 /\ N \in Nat
      BY <2>1 DEF SearchOK, SearchState, RequestOK, N
    <3>2. QED
      BY <3>1
  <2>5. Crosses(r, SubSeq(Oriented(Flips), 1, s.leg - 1))
    BY <2>1, <2>3, <2>4, CrossesFirst DEF ReachedBy
  <2>6. QED
    BY <2>3, <2>5 DEF ReachedBy
<1>2. QED
  BY <1>1, RouteInvariance, PTL

\* The STPs that are named belong to an orientation that a route without doubling back
\* follows, and no orientation has a shorter one.
THEOREM ShortestIsNamed == Spec => []NamesShortestRoute
<1>1. RouteInv => NamesShortestRoute
  BY DEF RouteInv
<1>2. QED
  BY <1>1, RouteInvariance, PTL

\* An order of SDPs is refused only if no orientation of them has a route.
THEOREM RefusalsAreRight == Spec => []RefusesOnlyUnroutable
<1>1. RouteInv => RefusesOnlyUnroutable
  BY DEF RouteInv
<1>2. QED
  BY <1>1, RouteInvariance, PTL

=============================================================================
