----------------------------- MODULE MCVlanReport -----------------------------
(***************************************************************************)
(* Two STPs with four VLANs.  Circuits that share STPs, one that overlaps  *)
(* its segments, one that has none, and uPA reservations with the ids of   *)
(* segments and with one that the aggregator does not know.                *)
(***************************************************************************)
EXTENDS VlanReport

McStps == {1, 2}
McVlans == 1..4
McLabelGroup == <<{<<1, 2>>, <<4, 4>>}, {<<1, 4>>}>>

One == {<<1, 1>>}
Middle == {<<2, 3>>}
Gap == {<<1, 1>>, <<3, 4>>}

Segment(id, endpoints) == [connection_id |-> id, endpoints |-> endpoints]
Reservation(id, endpoints, segments) == [connection_id |-> id, endpoints |-> endpoints, segments |-> segments]

McAggregatorReservations ==
  { Reservation(1, {<<1, One>>, <<2, One>>}, {Segment(11, {<<1, One>>, <<2, Middle>>}), Segment(12, {<<2, One>>})}),
    Reservation(1, {<<1, Gap>>, <<2, One>>}, {Segment(11, {<<1, One>>}), Segment(12, {<<1, Middle>>})}),
    Reservation(2, {<<1, Middle>>, <<2, Gap>>}, {}),
    Reservation(2, {<<1, One>>, <<2, {}>>}, {Segment(21, {<<1, Gap>>})}) }

McUpaReservations ==
  { Segment(11, {<<1, One>>, <<2, Middle>>}),
    Segment(12, {<<1, Middle>>}),
    Segment(5, {<<2, Gap>>}) }

=============================================================================
