----------------------------- MODULE MCUpaDrift -----------------------------
(***************************************************************************)
(* A path from one STP over another, each of its own uPA.  Two reserva-    *)
(* tions may be for it, at the aggregator and at each uPA, so that one may *)
(* have failed or ended for what the other one holds.  At first both STPs  *)
(* are subscribed and the aggregator peers with the first one's uPA.       *)
(***************************************************************************)
EXTENDS UpaDrift, TLC

CONSTANTS a, m, ua, um, v

MCUpaOf == (a :> ua) @@ (m :> um)
MCPaths == {[ends |-> {<<a, v>>}, segments |-> {<<a, v>>, <<m, v>>}]}
MCUpaStates == {<<"ReserveHeld", "Created">>, <<"ReserveStart", "PassedEndTime">>}

InScope == Init /\ (\A stp \in Stps : stps[stp].subscribed) /\ ua \in peers
FromInScope == InScope /\ [][Next]_vars

Symmetry == Permutations(Connections) \cup Permutations(UpaConnections)

=============================================================================
