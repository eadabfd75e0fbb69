--------------------------- MODULE Mdp2pInductive ----------------------------
(***************************************************************************)
(* The inductive invariant behind the safety theorems of Mdp2pConnection.  *)
(* TLC checks it as an invariant, Mdp2pConnection_proofs proves it.        *)
(***************************************************************************)
EXTENDS Mdp2pConnection

\* Before create, nothing exists and nothing runs.
Unborn ==
  sub.status = "none" => /\ sub.gid = 0 /\ sub.conn = NoConn /\ ~sub.insync
                         /\ sub.state = "CREATED"
                         /\ \A p \in Procs : ~Unfinished(p)

\* Ids not handed out yet are unknown to the aggregator.
FreshIds == \A g \in ReservationId : g > sub.gid => agg[g].status = "none"

\* A stored connection id is the current one, and the aggregator knows it.
ConnKnown == sub.conn # NoConn => sub.conn = sub.gid /\ agg[sub.conn].status # "none"

\* No route is used before it is handed out.
RoutesHandedOut ==
  /\ \A g \in ReservationId : agg[g].callback <= callbacks
  /\ \A m \in posted : m.callback <= callbacks
  /\ \A p \in Procs : proc[p].callback <= callbacks

\* Only form and task workflows lock, and only four of them set PROVISIONING.
WorkflowShape ==
  \A p \in Procs :
    /\ Unfinished(p) /\ proc[p].step = "lock" => proc[p].wf \in FormWorkflow \cup TaskWorkflow
    /\ proc[p].step = "provisioning" => proc[p].wf \in {"provision", "release", "retry", "modify"}
    /\ proc[p].wf = "retry" => forms # {}
    /\ proc[p].step = "update" => proc[p].wf = "retry"

\* What a retry form read is still so, or was terminated since.
FormsKnown == \A r \in forms : r = sub.conn \/ agg[r].status = "TERMINATED"

\* Where the process that holds the lock has a connection id.  A process other than
\* retry that still waits for the lock, and loaded the id in its form, finds it when
\* it gets the lock: whoever held it in between left one behind.
HolderHasConnection ==
  \A p \in Procs :
    /\ Holding(p) /\ proc[p].step \notin {"provisioning", "reserve", "update", "reconcile", "validate"}
         => LoadsActive
    /\ proc[p].step = "provisioning" /\ proc[p].wf # "retry" => LoadsActive
    /\ proc[p].step = "reserve" /\ (proc[p].run = "awaiting" \/ HasResult(p)) => LoadsActive
    /\ Unfinished(p) /\ proc[p].step = "lock" /\ proc[p].wf \in FormWorkflow \ {"retry"} /\ sub.insync
         => LoadsActive

\* Without an override, a retry that goes on to reserve has torn down what there was.
LostByOverride ==
  ~drifted /\ sub.conn = NoConn =>
    /\ ~sub.insync
    /\ \A p \in Procs : /\ proc[p].step # "provisioning"
                        /\ proc[p].step = "update" => HoldsNothing

\* The result that ends the wait of a terminate step is about the stored
\* connection, and it is there only once that connection is TERMINATED.
TerminateResult ==
  \A p \in Procs : proc[p].step = "terminate" =>
    /\ proc[p].run = "awaiting" =>
         /\ \A g \in ReservationId : agg[g].callback = proc[p].callback =>
              g = sub.conn /\ agg[g].status \in {"TERMINATING", "TERMINATED"}
         /\ \A m \in posted : m.callback = proc[p].callback => agg[sub.conn].status = "TERMINATED"
    /\ HasResult(p) => agg[sub.conn].status = "TERMINATED"

\* What the steps of the holder know about the subscription.
StepKnows ==
  \A p \in Procs :
    /\ proc[p].step = "update" => sub.conn = NoConn
    /\ proc[p].step = "reserve" => sub.state = "CREATED"
    /\ proc[p].step = "close" => sub.state = "TERMINATED"

\* The state TERMINATED means that nothing is held under the circuit's id, and a
\* closed subscription is in that state.
EndedHoldsNothing ==
  /\ sub.state = "TERMINATED" => HoldsNothing
  /\ sub.status = "TERMINATED" => sub.state = "TERMINATED"

\* An idle slot carries nothing over from its last process.
IdleClean == \A p \in Procs : ~Unfinished(p) => proc[p] = IdleProc

IInv ==
  /\ TypeOK
  /\ LockExclusive
  /\ Unborn
  /\ FreshIds
  /\ ConnKnown
  /\ RoutesHandedOut
  /\ WorkflowShape
  /\ HolderHasConnection
  /\ TerminateResult
  /\ StepKnows
  /\ EndedHoldsNothing
  /\ IdleClean
  /\ FormsKnown
  /\ LostByOverride

-----------------------------------------------------------------------------
(* The invariant behind InSyncAgrees and NoErrorWhileUp, on top of IInv *)

\* Steps at which nothing is under way for the holder of the lock.
RestingSteps == {"provisioning", "relabel", "activate", "close", "reconcile", "validate", "resync"}

Agrees == sub.conn = sub.gid /\ sub.gid # 0 /\ agg[sub.conn].status = sub.state

\* Both sides agree while the subscription is in sync, and under the lock whenever
\* nothing is under way.
AgreesAtRest ==
  ~drifted /\ (sub.insync \/ \E p \in Procs : proc[p].step \in RestingSteps) => Agrees

\* A reservation that is asked for may be there already, but cannot have moved on.
ReserveKnows ==
  ~drifted => \A p \in Procs : proc[p].step = "reserve" =>
    agg[sub.gid].status \in {"none", "RESERVING", "RESERVED", "FAILED"}

\* The route of a wait belongs to the stored connection alone, and results are those
\* of callback steps that have not failed.
WaitIsForConnection ==
  \A p \in Procs :
    /\ proc[p].run = "awaiting" => /\ proc[p].step \in Operation
                                  /\ \A g \in ReservationId : agg[g].callback = proc[p].callback => g = sub.conn
    /\ HasResult(p) => proc[p].step \in Operation /\ proc[p].run = "running"

\* What ends a wait, and what ended it, is the state that the awaited operation left
\* the connection in.
AnswerIsState ==
  ~drifted => \A p \in Procs :
    /\ proc[p].run = "awaiting" =>
         /\ agg[sub.conn].status \in {Begun[proc[p].step]} \cup Outcome[Begun[proc[p].step]]
         /\ \A m \in posted : m.callback = proc[p].callback => m.status = agg[sub.conn].status
    /\ HasResult(p) => proc[p].result = agg[sub.conn].status /\ proc[p].result \in Outcome[Begun[proc[p].step]]

Agreement ==
  /\ AgreesAtRest
  /\ ReserveKnows
  /\ WaitIsForConnection
  /\ AnswerIsState
  /\ NoErrorWhileUp

=============================================================================
