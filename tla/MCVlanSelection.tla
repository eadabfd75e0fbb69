---------------------------- MODULE MCVlanSelection ----------------------------
(***************************************************************************)
(* Two circuits between the STPs a and z, and the SDP d between x and y,   *)
(* whose two ends have one VLAN in common.                                 *)
(***************************************************************************)
EXTENDS VlanInductive, TLC

CONSTANTS a, z, x, y, d

McStps == {a, z, x, y}
McLabelGroup == (a :> {1, 2}) @@ (z :> {1, 2}) @@ (x :> {1, 2}) @@ (y :> {2, 3})
McSdps == {d}
McStpsOf == d :> {x, y}
McRoutable == {<<a, z, {d}>>, <<x, z, {d}>>}

Enter(source, destination, allowed, pins, excluded) ==
  [source |-> source, destination |-> destination, allow_stps_in_sdp |-> allowed,
   pins |-> pins, exclude_sdps |-> excluded]

NoSdp == <<>>

\* The SDP with a pinned VLAN, with one that the aggregator chooses, and one of its
\* STPs as an end: each two of them cannot both be reserved, for a VLAN that only
\* one of them names.  The last five are refused whatever is in use.
McRequests ==
  { Enter(<<a, 1>>, <<z, 1>>, FALSE, d :> 2, {}),
    Enter(<<a, 2>>, <<z, 2>>, FALSE, d :> 0, {}),
    Enter(<<x, 2>>, <<z, 2>>, TRUE, NoSdp, {}),
    Enter(<<a, 2>>, <<z, 1>>, FALSE, d :> 1, {}),
    Enter(<<a, 3>>, <<z, 1>>, FALSE, NoSdp, {}),
    Enter(<<x, 1>>, <<z, 1>>, FALSE, NoSdp, {}),
    Enter(<<a, 1>>, <<a, 2>>, FALSE, NoSdp, {}),
    Enter(<<a, 1>>, <<z, 1>>, FALSE, NoSdp, {d}) }

Symmetry == Permutations(Circuits) \cup Permutations(Procs)

=============================================================================
