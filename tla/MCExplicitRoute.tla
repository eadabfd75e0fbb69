--------------------------- MODULE MCExplicitRoute ---------------------------
(***************************************************************************)
(* ExplicitRoute over every graph of SDPs on a few networks: an STP is a   *)
(* network with what it leads to, another network or an endpoint.          *)
(***************************************************************************)
EXTENDS ExplicitRoute, TLC

CONSTANTS in, out

MCSources == Networks \X {in}
MCDestinations == Networks \X {out}
MCSdps == {{<<n, m>>, <<m, n>>} : <<n, m>> \in {p \in Networks \X Networks : p[1] # p[2]}}
MCStps == (Networks \X {in, out}) \cup UNION MCSdps
MCNetworkOf == [stp \in MCStps |-> stp[1]]

Symmetry == Permutations(Networks)

=============================================================================
