------------------------------ MODULE VlanReport ------------------------------
(***************************************************************************)
(* From reservations to ranges of VLANs: the free ranges that the          *)
(* connection form shows per STP, and the lines of the nightly uPA report, *)
(* which name every reservation that holds a VLAN.                         *)
(*                                                                         *)
(* Both group pairs with group_pairs: it sorts them by a key of the        *)
(* caller's, takes runs of equal keys, and makes a dict of the runs, where *)
(* a later run of the same key replaces an earlier one.  The pairs come    *)
(* from sets, so they arrive in any order, and what the sort leaves open   *)
(* stays open: the model takes the pairs one at a time, any of the least.  *)
(***************************************************************************)
EXTENDS Naturals, SequencesExt

CONSTANTS
  Stps, Vlans,
  label_group,             \* STP -> its VLAN ranges
  AggregatorReservations,  \* bound: reservations that hold VLANs, at the aggregator
  UpaReservations          \* and at the uPAs

\* A spec is a set of ranges <<low, high>>.
VlanSet(spec) == UNION {range[1]..range[2] : range \in spec}

\* VLANs are numbers, at most 4094 of them.
ASSUME VlansAssumption == Vlans \subseteq Nat /\ IsFiniteSet(Vlans)

ASSUME LabelsAssumption == \A stp \in Stps : VlanSet(label_group[stp]) \subseteq Vlans

\* STP ids and connection ids are strings that only sorting compares: numbers in their
\* order stand for them.  An end may be of an STP that nobody subscribed to.
ASSUME EndpointsAssumption ==
  LET InOrder(r) == r.connection_id \in Nat
                    /\ \A e \in r.endpoints : e[1] \in Nat /\ VlanSet(e[2]) \subseteq Vlans
  IN /\ \A r \in AggregatorReservations \cup UpaReservations : InOrder(r)
     /\ \A r \in AggregatorReservations : \A s \in r.segments : InOrder(s)

\* Connection ids are UUIDs that the aggregator and the uPAs make up on their own.
ASSUME IdsAssumption ==
  \A r \in AggregatorReservations, u \in UpaReservations : r.connection_id # u.connection_id

VARIABLES
  aggregator, upas,  \* the reservations listed
  call,              \* the caller of group_pairs, or what came of it
  section,           \* the <<STP, VLAN>> pairs to report
  rest,              \* the <<key, value>> pairs not taken yet
  current,           \* the key of the run that was taken last
  grouped,           \* key -> values
  shown              \* what the user gets to see

vars == <<aggregator, upas, call, section, rest, current, grouped, shown>>

-----------------------------------------------------------------------------
(* Ranges *)

\* Fault for the sensitivity check: a range ends before its last VLAN.
CollapseRangesHalfOpen(values) ==
  LET Offset(i) == values[i] + Len(values) - i
      Run(i) == {j \in DOMAIN values : Offset(j) = Offset(i)}
  IN {<<values[Min(Run(i))], values[Max(Run(i))] - 1>> : i \in DOMAIN values}

\* In a sorted list without duplicates, value - index is constant along a run only.
CollapseRanges(values) ==
  LET Offset(i) == values[i] + Len(values) - i
      Run(i) == {j \in DOMAIN values : Offset(j) = Offset(i)}
  IN {<<values[Min(Run(i))], values[Max(Run(i))]>> : i \in DOMAIN values}

Sorted(set) == CHOOSE s \in SetToSeqs(set) : \A i, j \in DOMAIN s : i < j => s[i] < s[j]

AvailableVlanRanges(stp, in_use) == CollapseRanges(Sorted(VlanSet(label_group[stp]) \ in_use))

-----------------------------------------------------------------------------
(* Holders *)

Holder(side, connection_id, child) == [side |-> side, connection_id |-> connection_id, child_connection_id |-> child]

\* <<STP, spec>>
EndpointVlanPairs(endpoint) == {endpoint[1]} \X VlanSet(endpoint[2])

HeldAs(endpoints, holder) == (UNION {EndpointVlanPairs(e) : e \in endpoints}) \X {holder}

ReservationHeldVlans(r) ==
  LET segments == UNION {HeldAs(s.endpoints, Holder("aggregator", r.connection_id, s.connection_id)) : s \in r.segments}
      covered == {held[1] : held \in segments}
  IN segments \cup {held \in HeldAs(r.endpoints, Holder("aggregator", r.connection_id, 0)) : held[1] \notin covered}

UpaHeldVlans(u) == HeldAs(u.endpoints, Holder("uPA", u.connection_id, 0))

AtAggregator == UNION {ReservationHeldVlans(r) : r \in aggregator}
AtUpas == UNION {UpaHeldVlans(u) : u \in upas}
PairsOf(held) == {h[1] : h \in held}

-----------------------------------------------------------------------------
(* group_pairs *)

\* Fault for the sensitivity check: findings are sorted by STP alone.
SortKeyStp(key) ==
  CASE call = "group_by_stp" -> <<key>>
    [] call = "_holders" -> key
    [] call = "_findings" -> <<key[1]>>

SortKey(key) ==
  CASE call = "group_by_stp" -> <<key>>
    [] call = "_holders" -> key
    [] call = "_findings" -> <<key[1], key[2].connection_id, key[2].child_connection_id>>

\* Lexicographic order of two keys of one length.
Before(s, t) == \E i \in DOMAIN s : s[i] < t[i] /\ \A j \in 1..(i - 1) : s[j] = t[j]

GroupPairs(caller, pairs) ==
  /\ call' = caller /\ rest' = pairs
  /\ current' = <<>> /\ grouped' = <<>>

\* One pair of the sorted list: it goes on with the run, or starts another.
Take ==
  \E pair \in rest :
    /\ \A other \in rest : ~Before(SortKey(other[1]), SortKey(pair[1]))
    /\ LET key == pair[1]
           run == IF current = <<key>> THEN grouped[key] ELSE {}
       IN /\ grouped' = [k \in DOMAIN grouped \cup {key} |-> IF k = key THEN run \cup {pair[2]} ELSE grouped[k]]
          /\ current' = <<key>>
    /\ rest' = rest \ {pair}
    /\ UNCHANGED <<aggregator, upas, call, section, shown>>

Grouped(caller) == call = caller /\ rest = {}

-----------------------------------------------------------------------------
(* The callers *)

\* Reservations with a connection id each.
Listing(reservations) ==
  {some \in SUBSET reservations : \A r, s \in some : r.connection_id = s.connection_id => r = s}

Init ==
  /\ aggregator \in Listing(AggregatorReservations) /\ upas \in Listing(UpaReservations)
  /\ call = "none" /\ section = {} /\ rest = {} /\ current = <<>> /\ grouped = <<>> /\ shown = {}

\* vlans_in_use_by_stp
VlansInUseByStp ==
  /\ call = "none" /\ GroupPairs("group_by_stp", PairsOf(AtAggregator))
  /\ UNCHANGED <<aggregator, upas, section, shown>>

\* stp_selector: the label of each option
StpSelector ==
  /\ Grouped("group_by_stp") /\ call' = "form"
  /\ shown' = {[stp |-> stp, vlans |-> AvailableVlanRanges(stp, IF stp \in DOMAIN grouped THEN grouped[stp] ELSE {})] :
                 stp \in Stps}
  /\ UNCHANGED <<aggregator, upas, section, rest, current, grouped>>

\* compare_upa_vlans, with any of its sections: held by one side only, or by both
\* outside the range.
Holders ==
  /\ call = "none" /\ GroupPairs("_holders", AtAggregator \cup AtUpas)
  /\ section' \in {PairsOf(AtAggregator) \ PairsOf(AtUpas), PairsOf(AtUpas) \ PairsOf(AtAggregator),
                   PairsOf(AtAggregator) \cup PairsOf(AtUpas)}
  /\ UNCHANGED <<aggregator, upas, shown>>

Findings ==
  /\ Grouped("_holders")
  /\ GroupPairs("_findings", UNION {{<<<<p[1], h>>, p[2]>> : h \in grouped[p]} : p \in section})
  /\ UNCHANGED <<aggregator, upas, section, shown>>

Report ==
  /\ Grouped("_findings") /\ call' = "report"
  /\ shown' = {[stp |-> key[1], holder |-> key[2], vlans |-> CollapseRanges(Sorted(grouped[key]))] :
                 key \in DOMAIN grouped}
  /\ UNCHANGED <<aggregator, upas, section, rest, current, grouped>>

Next == VlansInUseByStp \/ StpSelector \/ Holders \/ Findings \/ Report \/ Take

Spec == Init /\ [][Next]_vars

-----------------------------------------------------------------------------

\* The ranges that the form shows for an STP are the VLANs of its label group that
\* no listed reservation holds, on a segment or an end: none too few, none too many
\* (stp_selector, available_vlan_ranges, group_by_stp).
OffersExactlyTheFree ==
  call = "form" => \A option \in shown :
    VlanSet(option.vlans) =
      {v \in VlanSet(label_group[option.stp]) : <<option.stp, v>> \notin PairsOf(AtAggregator)}

\* The report names every reservation that holds a VLAN of the section, at the
\* aggregator and at the uPAs, with exactly the VLANs it holds (_holders, _findings).
ReportNamesEveryHolder ==
  call = "report" =>
    UNION {({f.stp} \X VlanSet(f.vlans)) \X {f.holder} : f \in shown} =
      {held \in AtAggregator \cup AtUpas : held[1] \in section}

=============================================================================
