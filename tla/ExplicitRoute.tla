---------------------------- MODULE ExplicitRoute ----------------------------
(***************************************************************************)
(* ero_stps of workflows/mdp2p/shared/ero.py: which end of every SDP that  *)
(* a user includes in a path is named in the Explicit Route Object.        *)
(*                                                                         *)
(* A request is what the connection form passes: two STPs, the included    *)
(* SDPs in the user's order, and the known SDPs.  Every orientation of the *)
(* included SDPs is tried in turn; for each one _route_length searches,    *)
(* breadth first, for a route that enters no network twice.  A step of the *)
(* model is one turn of its loop.  The successors of a search state are a  *)
(* Python set, so they are queued in any order.                            *)
(***************************************************************************)
EXTENDS Naturals, Sequences, FiniteSets, SequencesExt

CONSTANTS
  Networks,     \* network ids
  Stps,         \* STP ids
  network_of,   \* STP id -> the network it is on
  Sources,      \* bound: the STPs a request starts from,
  Destinations, \* the STPs it leads to,
  Sdps,         \* the SDPs there can be, as sets of two STPs, and
  MaxIncluded,  \* how many of them it includes
  MaxSdps       \* MAX_INCLUDED_SDPS

ASSUME StpAssumption ==
  /\ network_of \in [Stps -> Networks]
  /\ Sources \cup Destinations \subseteq Stps
  /\ \A sdp \in Sdps : sdp \subseteq Stps /\ Cardinality(sdp) = 2
  /\ IsFiniteSet(Networks)
ASSUME BoundAssumption == MaxIncluded \in Nat /\ MaxSdps \in Nat

VARIABLES
  request,   \* the arguments of ero_stps
  legs,      \* the legs of the orientation that is searched, <<>> between searches
  queue,     \* the search states to expand, and
  seen,      \* all that were ever queued
  scored,    \* the orientations searched, [flips, length]: length 0 for None
  answer     \* what ero_stps returns or raises

vars == <<request, legs, queue, seen, scored, answer>>

Pending == [kind |-> "pending", stps |-> <<>>]
Returned(stps) == [kind |-> "ero", stps |-> stps]
ValueError == [kind |-> "ValueError", stps |-> <<>>]

\* An SDP subscription stores its two STPs in some order: (stp_a, stp_z).
Stored(pairs) == {pair \in Stps \X Stps : {pair[1], pair[2]} \in pairs}

\* choice_list(unique_items=True): no SDP twice.
Inclusions(pairs) ==
  {inc \in SeqOf(Stored(pairs), MaxIncluded) :
     \A i, j \in DOMAIN inc : {inc[i][1], inc[i][2]} = {inc[j][1], inc[j][2]} => i = j}

Init ==
  /\ \E pairs \in SUBSET Sdps :
       request \in [source : Sources, dest : Destinations,
                    included : Inclusions(pairs), pairs : {pairs}]
  /\ legs = <<>> /\ queue = <<>> /\ seen = {} /\ scored = <<>>
  /\ answer = Pending

-----------------------------------------------------------------------------
N == Len(request.included)

\* Undirected: an SDP connects the networks of its two STPs, in both directions.
Adjacency(n) ==
  {m \in Networks : \E sdp \in request.pairs : \E a, z \in sdp :
     a # z /\ network_of[a] = n /\ network_of[z] = m}

\* The SDPs that are flipped, of product((False, True), repeat=n): an SDP is turned
\* whenever all behind it have been, so that the last one flips first.
Following(flips) == {i \in 1..N : i \in flips <=> ~(i + 1..N \subseteq flips)}

\* Those of the orientation that is or will be searched.
Flips == IF scored = <<>> THEN {} ELSE Following(Last(scored).flips)

AllSearched == scored # <<>> /\ Last(scored).flips = 1..N

\* Fault for the sensitivity check: the far end is not turned with the near one.
OrientedHalf(flips) ==
  [i \in 1..N |-> LET sdp == request.included[i]
                  IN IF i \in flips THEN <<sdp[2], sdp[2]>> ELSE sdp]

\* The included SDPs, each as <<near, far>>.
Oriented(flips) ==
  [i \in 1..N |-> LET sdp == request.included[i]
                  IN IF i \in flips THEN <<sdp[2], sdp[1]>> ELSE sdp]

\* The stretches between source, SDPs and destination, as <<entry, exit>>.
Legs(oriented) ==
  [i \in 1..N + 1 |->
     << network_of[IF i = 1 THEN request.source ELSE oriented[i - 1][2]],
        network_of[IF i = N + 1 THEN request.dest ELSE oriented[i][1]] >>]

-----------------------------------------------------------------------------
(* ero_stps: the early returns, and the searches one after the other *)

NothingIncluded ==
  /\ answer = Pending /\ N = 0
  /\ answer' = Returned(<<>>)
  /\ UNCHANGED <<request, legs, queue, seen, scored>>

TooManyIncluded ==
  /\ answer = Pending /\ N > MaxSdps
  /\ answer' = ValueError
  /\ UNCHANGED <<request, legs, queue, seen, scored>>

Searching == legs # <<>>

\* Fault for the sensitivity check: one orientation too many is searched.
StartSearchAgain ==
  /\ answer = Pending /\ ~Searching
  /\ N \in 1..MaxSdps
  /\ legs' = Legs(Oriented(Flips))
  /\ LET start == [leg |-> 1, current |-> legs'[1][1], visited |-> {legs'[1][1]}]
     IN queue' = <<start>> /\ seen' = {start}
  /\ UNCHANGED <<request, scored, answer>>

\* Start _route_length for the next orientation.
StartSearch ==
  /\ answer = Pending /\ ~Searching
  /\ N \in 1..MaxSdps /\ ~AllSearched
  /\ legs' = Legs(Oriented(Flips))
  /\ LET start == [leg |-> 1, current |-> legs'[1][1], visited |-> {legs'[1][1]}]
     IN queue' = <<start>> /\ seen' = {start}
  /\ UNCHANGED <<request, scored, answer>>

Score(length) ==
  /\ scored' = Append(scored, [flips |-> Flips, length |-> length])
  /\ legs' = <<>> /\ queue' = <<>> /\ seen' = {}
  /\ UNCHANGED <<request, answer>>

\* Cross the SDP into the entry network of the next leg, unless it was visited.
Crossings(s) ==
  LET entry == legs[s.leg + 1][1]
  IN IF entry \in s.visited THEN {}
     ELSE {[leg |-> s.leg + 1, current |-> entry, visited |-> s.visited \cup {entry}]}

Hops(s) ==
  {[s EXCEPT !.current = hop, !.visited = @ \cup {hop}] : hop \in Adjacency(s.current) \ s.visited}

\* Fault for the sensitivity check: the SDP is crossed back into a visited network.
SuccessorsHairpin(s) ==
  IF s.current = legs[s.leg][2]
  THEN {[leg |-> s.leg + 1, current |-> legs[s.leg + 1][1],
         visited |-> s.visited \cup {legs[s.leg + 1][1]}]}
  ELSE Hops(s)

Successors(s) == IF s.current = legs[s.leg][2] THEN Crossings(s) ELSE Hops(s)

AtDestination(s) == s.leg = Len(legs) /\ s.current = legs[s.leg][2]

\* Fault for the sensitivity check: a stack instead of a queue.
ExpandDepthFirst ==
  /\ Searching /\ queue # <<>> /\ ~AtDestination(Head(queue))
  /\ LET fresh == Successors(Head(queue)) \ seen
     IN /\ seen' = seen \cup fresh
        /\ \E order \in SetToSeqs(fresh) : queue' = order \o Tail(queue)
  /\ UNCHANGED <<request, legs, scored, answer>>

Expand ==
  /\ Searching /\ queue # <<>> /\ ~AtDestination(Head(queue))
  /\ LET fresh == Successors(Head(queue)) \ seen
     IN /\ seen' = seen \cup fresh
        /\ \E order \in SetToSeqs(fresh) : queue' = Tail(queue) \o order
  /\ UNCHANGED <<request, legs, scored, answer>>

Found ==
  /\ Searching /\ queue # <<>> /\ AtDestination(Head(queue))
  /\ Score(Cardinality(Head(queue).visited))

NoRoute == Searching /\ queue = <<>> /\ Score(0)

-----------------------------------------------------------------------------
(* The choice among the orientations *)

Routable == {k \in DOMAIN scored : scored[k].length # 0}

\* min() returns the first of the shortest.
Best(k) ==
  /\ k \in Routable
  /\ \A j \in Routable : \/ scored[k].length < scored[j].length
                         \/ scored[k].length = scored[j].length /\ k <= j

\* Fault for the sensitivity check: the near and the far ends are mixed up.
NamedFar(k) == [i \in 1..N |-> Oriented(scored[k].flips)[i][2]]

\* The source-facing STP of every SDP in the orientation scored k-th.
Named(k) == [i \in 1..N |-> Oriented(scored[k].flips)[i][1]]

Choose ==
  /\ answer = Pending /\ ~Searching
  /\ N \in 1..MaxSdps /\ AllSearched
  /\ IF Routable = {} THEN answer' = ValueError
     ELSE \E k \in Routable : Best(k) /\ answer' = Returned(Named(k))
  /\ UNCHANGED <<request, legs, queue, seen, scored>>

Next ==
  \/ NothingIncluded \/ TooManyIncluded
  \/ StartSearch \/ Expand \/ Found \/ NoRoute
  \/ Choose

Spec == Init /\ [][Next]_vars

-----------------------------------------------------------------------------
(* Properties *)

SearchState == [leg : 1..MaxIncluded + 1, current : Networks, visited : SUBSET Networks]

\* Every variable has the type of the value it stands for, and no orientation is
\* searched twice.
TypeOK ==
  /\ request.source \in Stps /\ request.dest \in Stps /\ request.pairs \subseteq Sdps
  /\ legs \in Seq(Networks \X Networks) /\ queue \in Seq(SearchState)
  /\ seen \subseteq SearchState
  /\ scored \in Seq([flips : SUBSET (1..N), length : 0..Cardinality(Networks)])
  /\ \A i, j \in DOMAIN scored : scored[i].flips = scored[j].flips => i = j
  /\ answer.kind \in {"pending", "ero", "ValueError"} /\ answer.stps \in Seq(Stps)

\* The reference: a route is a sequence of adjacent networks without repetition.
IsPath(r) == \A i \in 1..Len(r) - 1 : r[i + 1] \in Adjacency(r[i])

Routes == {r \in UNION {SetToSeqs(over) : over \in (SUBSET Networks) \ {{}}} :
            /\ IsPath(r)
            /\ r[1] = network_of[request.source]
            /\ r[Len(r)] = network_of[request.dest]}

\* The route crosses the SDPs <<near, far>> of o, in this order and direction.
Crosses(r, o) ==
  \E at \in [DOMAIN o -> 1..Len(r) - 1] :
    /\ \A i, j \in DOMAIN o : i < j => at[i] < at[j]
    /\ \A i \in DOMAIN o : /\ r[at[i]] = network_of[o[i][1]]
                           /\ r[at[i] + 1] = network_of[o[i][2]]

\* Every way to turn the included SDPs.
AnyOrientation ==
  {[i \in 1..N |-> IF i \in turned THEN Reverse(request.included[i]) ELSE request.included[i]] :
     turned \in SUBSET (1..N)}

\* The STPs that are named belong to an orientation that a route without doubling
\* back follows, and no orientation has a shorter route (ero.py:16-19: a wrong
\* orientation is not refused, it silently returns a path that hairpins).
NamesShortestRoute ==
  answer.kind = "ero" /\ N > 0 =>
    \E o \in AnyOrientation :
      /\ answer.stps = [i \in 1..N |-> o[i][1]]
      /\ \E r \in Routes :
           /\ Crosses(r, o)
           /\ \A other \in Routes : (\E q \in AnyOrientation : Crosses(other, q)) => Len(r) <= Len(other)

\* An order of SDPs is refused only if no orientation of them has a route.
RefusesOnlyUnroutable ==
  answer = ValueError /\ N <= MaxSdps =>
    ~ \E r \in Routes, o \in AnyOrientation : Crosses(r, o)

\* "BFS over (leg index, current network, networks visited), so the first hit is
\* the shortest" (ero.py:77): states are expanded in the order of their length.
ShortestFirst ==
  \A i, j \in DOMAIN queue : i < j =>
    Cardinality(queue[j].visited) - Cardinality(queue[i].visited) \in {0, 1}

\* What is queued has been reached by a route over exactly the visited networks
\* that crossed the SDPs of the legs behind it.
ReachedByRoute ==
  \A s \in seen :
    \E r \in SetToSeqs(s.visited) :
      /\ IsPath(r) /\ r[1] = legs[1][1] /\ r[Len(r)] = s.current
      /\ Crosses(r, SubSeq(Oriented(Flips), 1, s.leg - 1))

=============================================================================
