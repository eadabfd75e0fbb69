-------------------------- MODULE MCMdp2pConnection --------------------------
(***************************************************************************)
(* Mdp2pConnection for TLC.                                                *)
(***************************************************************************)
EXTENDS Mdp2pInductive, TLC

\* Process slots are interchangeable.
Symmetry == Permutations(Procs)

\* Nobody overrides the lock and no reservation lapses by itself: whatever goes
\* wrong here is the doing of the workflows alone.
QuietNext ==
  \/ \E p \in Procs : UserStep(p) \/ Work(p) \/ Callback(p) \/ Timeout(p)
  \/ OpenRetry
  \/ \E g \in ReservationId : AggregatorStep(g)

QuietSpec == Init /\ [][QuietNext]_vars

=============================================================================
