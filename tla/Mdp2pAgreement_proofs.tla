---- MODULE Mdp2pAgreement_proofs ----
(* Both sides agree: proofs of InSyncAgrees and NoErrorWhileUp, for every      *)
(* number of processes, reservation ids and callback routes.                   *)
(*   1. Agreement of Mdp2pInductive is preserved by the steps that leave ids,  *)
(*      state and the aggregator alone (KeepingStep), and by those of the      *)
(*      holder of the lock that leave the aggregator alone (HoldingStep);      *)
(*   2. requests, results and the aggregator's own steps, one lemma each;      *)
(*   3. the theorems, from Agreement and IInv.                                 *)
EXTENDS Mdp2pConnection_proofs

\* The step rewrites the slot of p, which then neither waits nor has a result, and
\* touches neither another slot nor the aggregator.
Quiet(p) ==
  /\ proc'[p].run # "awaiting" /\ proc'[p].result = "none"
  /\ \A q \in Procs : q # p => proc'[q] = proc[q]
  /\ agg' = agg /\ posted' = posted

\* Neither the circuit's ids nor its state change.
Keeps ==
  /\ sub'.state = sub.state /\ sub'.conn = sub.conn /\ sub'.gid = sub.gid
  /\ sub'.lastError = sub.lastError /\ drifted' = drifted

-----------------------------------------------------------------------------
(* Steps that leave the aggregator alone *)

\* A quiet step that changes neither ids nor state keeps the agreement, if it comes
\* to rest only from rest.
LEMMA KeepingStep ==
  ASSUME IInv, Agreement, NEW p \in Procs, Quiet(p), Keeps,
         sub'.insync \/ proc'[p].step \in RestingSteps => sub.insync \/ proc[p].step \in RestingSteps,
         proc'[p].step = "reserve" => proc[p].step = "reserve"
  PROVE  Agreement'
<1>1. AgreesAtRest'
  <2> SUFFICES ASSUME ~drifted', sub'.insync \/ \E q \in Procs : proc'[q].step \in RestingSteps
               PROVE  Agrees'
    BY DEF AgreesAtRest
  <2>1. sub.insync \/ \E q \in Procs : proc[q].step \in RestingSteps
    BY DEF Quiet
  <2>2. Agrees
    BY <2>1 DEF Agreement, AgreesAtRest, Keeps
  <2>3. QED
    BY <2>2 DEF Agrees, Keeps, Quiet
<1>2. ReserveKnows'
  BY DEF Agreement, ReserveKnows, Keeps, Quiet
<1>3. WaitIsForConnection'
  BY DEF Agreement, WaitIsForConnection, HasResult, Keeps, Quiet
<1>4. AnswerIsState'
  BY DEF Agreement, AnswerIsState, HasResult, Keeps, Quiet
<1>5. NoErrorWhileUp'
  BY DEF Agreement, NoErrorWhileUp, Keeps
<1>6. QED
  BY <1>1, <1>2, <1>3, <1>4, <1>5 DEF Agreement

\* The holder of the lock may change ids and state with a quiet step: nobody else
\* waits for the connection or has a result.
LEMMA HoldingStep ==
  ASSUME IInv, Agreement, NEW p \in Procs, Holding(p), Quiet(p), sub'.insync = FALSE,
         ~drifted' /\ proc'[p].step \in RestingSteps => Agrees',
         ~drifted' /\ proc'[p].step = "reserve" => agg[sub'.gid].status = "none",
         NoErrorWhileUp'
  PROVE  Agreement'
<1>1. \A q \in Procs : q # p => proc'[q] = proc[q] /\ proc[q].step \in {"none", "lock"}
  BY OthersBlocked DEF Quiet
<1>2. \A q \in Procs : q # p => proc[q].run # "awaiting" /\ ~HasResult(q)
  BY <1>1 DEF Agreement, WaitIsForConnection, Operation
<1>3. AgreesAtRest'
  BY <1>1 DEF AgreesAtRest, RestingSteps
<1>4. ReserveKnows'
  BY <1>1 DEF ReserveKnows, Quiet
<1>5. WaitIsForConnection' /\ AnswerIsState'
  BY <1>1, <1>2 DEF WaitIsForConnection, AnswerIsState, HasResult, Quiet
<1>6. QED
  BY <1>3, <1>4, <1>5 DEF Agreement

\* Create starts from nothing: no process, and no reservation under the first id.
LEMMA ConstructMdp2pModelAgrees ==
  ASSUME IInv, Agreement, NEW p \in Procs, ConstructMdp2pModel(p)
  PROVE  Agreement'
<1>1. ~Unfinished(p) /\ sub.status = "none" /\ sub.gid = 0 /\ ~sub.insync /\ sub.conn = NoConn
  BY DEF IInv, Unborn, ConstructMdp2pModel
<1>2. ProcType' /\ SlotBecomes(p, "create", "reserve", "running", 0, "none")
  BY <1>1, EnterEffect DEF IInv, TypeOK, ConstructMdp2pModel, Step, Workflow,
     FormWorkflow, TaskWorkflow
<1>3. /\ sub'.insync = FALSE /\ sub'.state = "CREATED" /\ sub'.gid = 1
      /\ agg' = agg /\ posted' = posted /\ 1 \in ReservationId
  BY <1>1, ReservationsAssumption DEF IInv, TypeOK, SubType, ConstructMdp2pModel, aggVars, ReservationId
<1>4. \A q \in Procs : proc[q].step = "none" /\ proc[q].run = "idle" /\ proc[q].result = "none"
  BY <1>1 DEF IInv, Unborn, IdleClean, IdleProc
<1>5. agg[1].status = "none"
  BY <1>1, <1>3 DEF IInv, FreshIds
<1>6. AgreesAtRest' /\ NoErrorWhileUp'
  BY <1>2, <1>3, <1>4 DEF AgreesAtRest, RestingSteps, NoErrorWhileUp, SlotBecomes
<1>7. ReserveKnows'
  BY <1>2, <1>3, <1>4, <1>5 DEF ReserveKnows, SlotBecomes
<1>8. WaitIsForConnection' /\ AnswerIsState'
  BY <1>2, <1>4 DEF WaitIsForConnection, AnswerIsState, HasResult, SlotBecomes
<1>9. QED
  BY <1>6, <1>7, <1>8 DEF Agreement

\* A form or a task only adds a process that waits for the lock.
LEMMA StartsAgree ==
  ASSUME IInv, Agreement, NEW p \in Procs, NEW wf \in FormWorkflow \cup TaskWorkflow,
         Enter(p, wf, "lock"), UNCHANGED <<sub, drifted, aggVars>>
  PROVE  Agreement'
<1>1. sub' = sub /\ drifted' = drifted /\ agg' = agg /\ posted' = posted
  BY DEF aggVars
<1>2. SlotBecomes(p, wf, "lock", "running", 0, "none")
  BY EnterEffect DEF IInv, TypeOK, Step, Workflow
<1>3. Quiet(p) /\ Keeps
  BY <1>1, <1>2 DEF Quiet, Keeps, SlotBecomes
<1>4. QED
  BY <1>1, <1>2, <1>3, KeepingStep DEF SlotBecomes, RestingSteps

\* Taking the lock of an in-sync subscription starts from agreement.
LEMMA LockAgrees ==
  ASSUME IInv, Agreement, NEW p \in Procs, Lock(p)
  PROVE  Agreement'
<1> DEFINE s == AfterLock(proc[p].wf)
<1>1. proc[p].run = "running" /\ proc[p].step = "lock" /\ sub.insync /\ Advance(p, s)
  BY DEF Lock, At
<1>2. proc[p].wf \in FormWorkflow \cup TaskWorkflow
  BY <1>1 DEF IInv, WorkflowShape, Unfinished
<1>3. s \in Step /\ s # "reserve"
  BY <1>2 DEF AfterLock, FormWorkflow, TaskWorkflow, Step
<1> HIDE DEF s
<1>4. SlotBecomes(p, proc[p].wf, s, "running", proc[p].callback, "none")
  BY <1>1, <1>3, AdvanceEffect DEF IInv, TypeOK
<1>5. Quiet(p) /\ Keeps
  BY <1>4 DEF Lock, Quiet, Keeps, SlotBecomes, aggVars, IInv, TypeOK, SubType
<1>6. QED
  BY <1>1, <1>3, <1>4, <1>5, KeepingStep DEF SlotBecomes

\* The steps that move on without touching ids or state.
LEMMA PassingStepsAgree ==
  ASSUME IInv, Agreement, NEW p \in Procs,
         \/ SetStatusProvisioning(p) \/ UpdateLabel(p) \/ SetStatusActive(p)
         \/ SetStatusTerminated(p) \/ ValidateReservation(p)
  PROVE  Agreement'
<1>1. PICK s \in Step \ {"reserve"} : Advance(p, s)
  <2>1. CASE SetStatusProvisioning(p)
    <3>1. proc[p].wf \in {"provision", "release", "retry", "modify"}
      BY <2>1 DEF IInv, WorkflowShape, SetStatusProvisioning, At
    <3>2. AfterProvisioning(proc[p].wf) \in Step \ {"reserve"}
      BY <3>1 DEF AfterProvisioning, Step
    <3>3. QED
      BY <2>1, <3>2 DEF SetStatusProvisioning
  <2>2. CASE UpdateLabel(p)
    BY <2>2 DEF UpdateLabel, Step
  <2>3. CASE SetStatusActive(p) \/ SetStatusTerminated(p) \/ ValidateReservation(p)
    BY <2>3 DEF SetStatusActive, SetStatusTerminated, ValidateReservation, Step
  <2>4. QED
    BY <2>1, <2>2, <2>3
<1>2. proc[p].run = "running" /\ proc[p].step \in RestingSteps
  BY DEF SetStatusProvisioning, UpdateLabel, SetStatusActive, SetStatusTerminated,
     ValidateReservation, At, RestingSteps
<1>3. SlotBecomes(p, proc[p].wf, s, "running", proc[p].callback, "none")
  BY <1>1, <1>2, AdvanceEffect DEF IInv, TypeOK
<1>4. Keeps /\ agg' = agg /\ posted' = posted
  BY DEF SetStatusProvisioning, UpdateLabel, SetStatusActive, SetStatusTerminated,
     ValidateReservation, Keeps, aggVars, IInv, TypeOK, SubType
<1>5. Quiet(p)
  BY <1>3, <1>4 DEF Quiet, SlotBecomes
<1>6. QED
  BY <1>1, <1>2, <1>3, <1>4, <1>5, KeepingStep DEF SlotBecomes

\* A process ends, or is aborted, with an idle slot.
LEMMA EndsAgree ==
  ASSUME IInv, Agreement, NEW p \in Procs, Resync(p) \/ Abort(p)
  PROVE  Agreement'
<1>1. Finish(p)
  BY DEF Resync, Abort
<1>2. SlotBecomes(p, "none", "none", "idle", 0, "none")
  BY <1>1, FinishEffect DEF IInv, TypeOK
<1>3. /\ Keeps /\ agg' = agg /\ posted' = posted
      /\ sub'.insync = sub.insync \/ proc[p].step \in RestingSteps
  BY DEF Resync, Abort, At, RestingSteps, Keeps, aggVars, IInv, TypeOK, SubType
<1>4. Quiet(p)
  BY <1>2, <1>3 DEF Quiet, SlotBecomes
<1>5. QED
  BY <1>2, <1>3, <1>4, KeepingStep DEF SlotBecomes, RestingSteps

\* A failed or resumed step stays where it is, without a result.
LEMMA FailuresAgree ==
  ASSUME IInv, Agreement, NEW p \in Procs, StepFails(p) \/ Timeout(p) \/ Retry(p)
  PROVE  Agreement'
<1>1. /\ proc'[p].step = proc[p].step /\ proc'[p].run \in {"failed", "running"}
      /\ proc'[p].result = "none"
      /\ \A q \in Procs : q # p => proc'[q] = proc[q]
  <2>1. CASE StepFails(p) \/ Timeout(p)
    BY <2>1, FailEffect DEF StepFails, Timeout, IInv, TypeOK, SlotBecomes
  <2>2. CASE Retry(p)
    <3>1. proc[p].result = "none"
      BY <2>2 DEF Retry, Agreement, WaitIsForConnection, HasResult
    <3>2. QED
      BY <2>2, <3>1, RetryEffect DEF IInv, TypeOK, SlotBecomes
  <2>3. QED
    BY <2>1, <2>2
<1>2. sub' = sub /\ drifted' = drifted /\ agg' = agg /\ posted' = posted
  BY DEF StepFails, Timeout, Retry, aggVars
<1>3. Quiet(p) /\ Keeps
  BY <1>1, <1>2 DEF Quiet, Keeps
<1>4. QED
  BY <1>1, <1>2, <1>3, KeepingStep

-----------------------------------------------------------------------------
(* Steps of the holder that change ids or state *)

\* A step that records a result stores the state the aggregator answered with.
LEMMA RecordAgrees ==
  ASSUME IInv, Agreement, NEW p \in Procs, NEW op \in Operation, NEW event \in DOMAIN Transition,
         NEW error \in ErrorSource, NEW next \in {"activate", "close"},
         Record(p, op, event, error, next),
         ~drifted => agg[sub.conn].status = Transition[event].to,
         Transition[event].to \in {"RESERVED", "ACTIVATED"} => error # "callback",
         Transition[event].to \in ConnectionState
  PROVE  Agreement'
<1>1. proc[p].run = "running" /\ proc[p].step = op /\ HasResult(p) /\ Advance(p, next)
  BY DEF Record, At
<1>2. Holding(p)
  BY <1>1 DEF Holding, Unfinished, Operation
<1>3. SlotBecomes(p, proc[p].wf, next, "running", proc[p].callback, "none")
  BY <1>1, AdvanceEffect DEF IInv, TypeOK, Step
<1>4. /\ SubBecomes(sub.status, sub.insync, Transition[event].to, sub.conn, sub.gid)
      /\ sub'.lastError = error /\ drifted' = drifted /\ agg' = agg /\ posted' = posted
  BY DEF Record, Apply, SubBecomes, aggVars, IInv, TypeOK, SubType
<1>5. sub'.insync = FALSE
  BY <1>2, <1>4 DEF IInv, LockExclusive, SubBecomes, TypeOK, SubType
<1>6. sub.conn # NoConn /\ sub.conn = sub.gid
  BY <1>1, <1>2 DEF IInv, HolderHasConnection, LoadsActive, ConnKnown, Operation
<1>7. ~drifted' => Agrees'
  BY <1>4, <1>6 DEF Agrees, SubBecomes, NoConn
<1>8. NoErrorWhileUp'
  BY <1>4 DEF NoErrorWhileUp, SubBecomes
<1>9. Quiet(p)
  BY <1>3, <1>4 DEF Quiet, SlotBecomes
<1>10. QED
  BY <1>2, <1>3, <1>5, <1>7, <1>8, <1>9, HoldingStep DEF SlotBecomes

\* What a result can be, for the step that has it.
LEMMA ResultIsOutcome ==
  ASSUME IInv, Agreement, NEW p \in Procs, NEW op \in Operation, At(p, op), HasResult(p), ~drifted
  PROVE  proc[p].result = agg[sub.conn].status /\ proc[p].result \in Outcome[Begun[op]]
  BY DEF Agreement, AnswerIsState, At

\* The answer to a reserve request is recorded as it was given.
LEMMA ProcessReservationResultAgrees ==
  ASSUME IInv, Agreement, NEW p \in Procs, ProcessReservationResult(p)
  PROVE  Agreement'
<1>1. At(p, "reserve") /\ HasResult(p) /\ "reserve" \in Operation
  BY DEF ProcessReservationResult, Record, Operation
<1>2. ~drifted => proc[p].result = agg[sub.conn].status /\ proc[p].result \in {"RESERVED", "FAILED"}
  BY <1>1, ResultIsOutcome DEF Outcome, Begun
<1>3. /\ {"reserve_confirmed", "reserve_failed"} \subseteq DOMAIN Transition
      /\ Transition["reserve_confirmed"].to = "RESERVED" /\ Transition["reserve_failed"].to = "FAILED"
      /\ {"RESERVED", "FAILED"} \subseteq ConnectionState
  BY DEF Transition, ConnectionState
<1>4. CASE proc[p].result = "RESERVED"
  <2>1. Record(p, "reserve", "reserve_confirmed", "none", "activate")
    BY <1>4 DEF ProcessReservationResult
  <2>2. "none" \in ErrorSource
    BY DEF ErrorSource
  <2>3. QED
    BY <1>1, <1>2, <1>3, <1>4, <2>1, <2>2, RecordAgrees
<1>5. CASE proc[p].result # "RESERVED"
  <2>1. Record(p, "reserve", "reserve_failed", ResultError(p), "activate") /\ ResultError(p) \in ErrorSource
    BY <1>5 DEF ProcessReservationResult, ResultError, ErrorSource
  <2>2. QED
    BY <1>1, <1>2, <1>3, <1>5, <2>1, RecordAgrees
<1>6. QED
  BY <1>4, <1>5

\* So is the answer to a provision request.
LEMMA ProcessProvisionResultAgrees ==
  ASSUME IInv, Agreement, NEW p \in Procs, ProcessProvisionResult(p)
  PROVE  Agreement'
<1>1. At(p, "provision") /\ HasResult(p) /\ "provision" \in Operation
  BY DEF ProcessProvisionResult, Record, Operation
<1>2. ~drifted => proc[p].result = agg[sub.conn].status /\ proc[p].result \in {"ACTIVATED", "FAILED"}
  BY <1>1, ResultIsOutcome DEF Outcome, Begun
<1>3. /\ {"provision_confirmed", "provision_failed"} \subseteq DOMAIN Transition
      /\ Transition["provision_confirmed"].to = "ACTIVATED" /\ Transition["provision_failed"].to = "FAILED"
      /\ {"ACTIVATED", "FAILED"} \subseteq ConnectionState
  BY DEF Transition, ConnectionState
<1>4. CASE proc[p].result = "ACTIVATED"
  <2>1. Record(p, "provision", "provision_confirmed", "none", "activate")
    BY <1>4 DEF ProcessProvisionResult
  <2>2. "none" \in ErrorSource
    BY DEF ErrorSource
  <2>3. QED
    BY <1>1, <1>2, <1>3, <1>4, <2>1, <2>2, RecordAgrees
<1>5. CASE proc[p].result # "ACTIVATED"
  <2>1. Record(p, "provision", "provision_failed", ResultError(p), "activate") /\ ResultError(p) \in ErrorSource
    BY <1>5 DEF ProcessProvisionResult, ResultError, ErrorSource
  <2>2. QED
    BY <1>1, <1>2, <1>3, <1>5, <2>1, RecordAgrees
<1>6. QED
  BY <1>4, <1>5

\* So is the answer to a release request.
LEMMA ProcessReleaseResultAgrees ==
  ASSUME IInv, Agreement, NEW p \in Procs, ProcessReleaseResult(p)
  PROVE  Agreement'
<1>1. At(p, "release") /\ HasResult(p) /\ "release" \in Operation
  BY DEF ProcessReleaseResult, Record, Operation
<1>2. ~drifted => proc[p].result = agg[sub.conn].status /\ proc[p].result \in {"RESERVED", "FAILED"}
  BY <1>1, ResultIsOutcome DEF Outcome, Begun
<1>3. /\ {"release_confirmed", "release_failed"} \subseteq DOMAIN Transition
      /\ Transition["release_confirmed"].to = "RESERVED" /\ Transition["release_failed"].to = "FAILED"
      /\ {"RESERVED", "FAILED"} \subseteq ConnectionState
  BY DEF Transition, ConnectionState
<1>4. CASE proc[p].result = "RESERVED"
  <2>1. Record(p, "release", "release_confirmed", "none", "activate")
    BY <1>4 DEF ProcessReleaseResult
  <2>2. "none" \in ErrorSource
    BY DEF ErrorSource
  <2>3. QED
    BY <1>1, <1>2, <1>3, <1>4, <2>1, <2>2, RecordAgrees
<1>5. CASE proc[p].result # "RESERVED"
  <2>1. Record(p, "release", "release_failed", ResultError(p), "activate") /\ ResultError(p) \in ErrorSource
    BY <1>5 DEF ProcessReleaseResult, ResultError, ErrorSource
  <2>2. QED
    BY <1>1, <1>2, <1>3, <1>5, <2>1, RecordAgrees
<1>6. QED
  BY <1>4, <1>5

\* The only answer to a terminate request is TERMINATED.
LEMMA ProcessTerminateResultAgrees ==
  ASSUME IInv, Agreement, NEW p \in Procs, ProcessTerminateResult(p)
  PROVE  Agreement'
<1>1. At(p, "terminate") /\ HasResult(p) /\ "terminate" \in Operation
  BY DEF ProcessTerminateResult, Record, Operation
<1>2. ~drifted => agg[sub.conn].status = "TERMINATED"
  BY <1>1, ResultIsOutcome DEF Outcome, Begun
<1>3. /\ "terminate" \in DOMAIN Transition /\ Transition["terminate"].to = "TERMINATED"
      /\ "TERMINATED" \in ConnectionState /\ sub.lastError \in ErrorSource
  BY DEF Transition, ConnectionState, IInv, TypeOK, SubType
<1>4. Record(p, "terminate", "terminate", sub.lastError, "close")
  BY DEF ProcessTerminateResult
<1>5. QED
  BY <1>1, <1>2, <1>3, <1>4, RecordAgrees

\* Retry drops its connection while it is under way.
LEMMA DropConnectionAgrees ==
  ASSUME IInv, Agreement, NEW p \in Procs, DropConnection(p)
  PROVE  Agreement'
<1>1. proc[p].run = "running" /\ proc[p].step = "terminate" /\ Advance(p, "update")
  BY DEF DropConnection, At
<1>2. Holding(p) /\ SlotBecomes(p, proc[p].wf, "update", "running", proc[p].callback, "none")
  BY <1>1, AdvanceEffect DEF Holding, Unfinished, IInv, TypeOK, Step
<1>3. /\ sub'.insync = sub.insync /\ sub'.state = sub.state /\ sub'.lastError = sub.lastError
      /\ agg' = agg /\ posted' = posted
  BY DEF DropConnection, aggVars, IInv, TypeOK, SubType
<1>4. sub'.insync = FALSE /\ NoErrorWhileUp'
  BY <1>2, <1>3 DEF IInv, LockExclusive, TypeOK, SubType, Agreement, NoErrorWhileUp
<1>5. Quiet(p)
  BY <1>2, <1>3 DEF Quiet, SlotBecomes
<1>6. QED
  BY <1>2, <1>4, <1>5, HoldingStep DEF SlotBecomes, RestingSteps

\* A fresh id is unknown to the aggregator.
LEMMA UpdateSubscriptionAgrees ==
  ASSUME IInv, Agreement, NEW p \in Procs, UpdateSubscription(p)
  PROVE  Agreement'
<1>1. proc[p].run = "running" /\ proc[p].step = "update" /\ Advance(p, "reserve")
  BY DEF UpdateSubscription, At
<1>2. Holding(p) /\ SlotBecomes(p, proc[p].wf, "reserve", "running", proc[p].callback, "none")
  BY <1>1, AdvanceEffect DEF Holding, Unfinished, IInv, TypeOK, Step
<1>3. /\ sub'.insync = sub.insync /\ sub'.state = "CREATED" /\ sub'.gid = sub.gid + 1
      /\ agg' = agg /\ posted' = posted /\ sub.gid + 1 \in ReservationId /\ sub.gid \in Nat
  BY ReservationsAssumption DEF UpdateSubscription, Apply, Transition, aggVars, IInv, TypeOK, SubType,
     ReservationId
<1>4. sub'.insync = FALSE /\ NoErrorWhileUp'
  BY <1>2, <1>3 DEF IInv, LockExclusive, TypeOK, SubType, NoErrorWhileUp
<1>5. agg[sub'.gid].status = "none"
  BY <1>3 DEF IInv, FreshIds
<1>6. Quiet(p)
  BY <1>2, <1>3 DEF Quiet, SlotBecomes
<1>7. QED
  BY <1>2, <1>4, <1>5, <1>6, HoldingStep DEF SlotBecomes, RestingSteps

\* Reconcile copies what the aggregator has, or changes nothing.
LEMMA ReconcileConnectionStateAgrees ==
  ASSUME IInv, Agreement, NEW p \in Procs, ReconcileConnectionState(p)
  PROVE  Agreement'
<1> DEFINE status == agg[sub.conn].status
<1>1. /\ proc[p].run = "running" /\ proc[p].step = "reconcile" /\ Advance(p, "resync")
      /\ sub.conn # NoConn /\ agg' = agg /\ posted' = posted
  BY DEF ReconcileConnectionState, At, LoadsActive, aggVars
<1>2. Holding(p) /\ SlotBecomes(p, proc[p].wf, "resync", "running", proc[p].callback, "none")
  BY <1>1, AdvanceEffect DEF Holding, Unfinished, IInv, TypeOK, Step
<1>3. Quiet(p)
  BY <1>1, <1>2 DEF Quiet, SlotBecomes
<1>4. CASE status \in StableStatus
  <2>1. /\ sub'.insync = sub.insync /\ sub'.state = status /\ sub'.conn = sub.conn /\ sub'.gid = sub.gid
        /\ sub'.lastError \in {"none", "aggregator"}
    BY <1>4 DEF ReconcileConnectionState, IInv, TypeOK, SubType
  <2>2. sub'.insync = FALSE /\ NoErrorWhileUp'
    BY <1>2, <2>1 DEF IInv, LockExclusive, TypeOK, SubType, NoErrorWhileUp
  <2>3. Agrees'
    BY <1>1, <2>1 DEF Agrees, IInv, ConnKnown, NoConn
  <2>4. QED
    BY <1>2, <1>3, <2>2, <2>3, HoldingStep DEF SlotBecomes
<1>5. CASE status \notin StableStatus
  <2>1. sub' = sub /\ drifted' = drifted
    BY <1>5 DEF ReconcileConnectionState
  <2>2. QED
    BY <1>1, <1>2, <1>3, <2>1, KeepingStep DEF Keeps, SlotBecomes, RestingSteps
<1>6. QED
  BY <1>4, <1>5

-----------------------------------------------------------------------------
(* Requests and answers *)

\* A request leaves its reservation in a state that the wait for it allows, and its
\* route leads to that reservation alone.
LEMMA RequestAgrees ==
  ASSUME IInv, Agreement, NEW p \in Procs, NEW op \in Operation, NEW g \in ReservationId,
         NEW c \in 0..MaxCallbacks, c = callbacks + 1, Request(op, g, c),
         ~drifted /\ op = "reserve" => agg[g].status \in {"none", "RESERVING", "RESERVED", "FAILED"}
  PROVE  /\ \A h \in ReservationId : agg'[h].callback = c => h = g
         /\ ~drifted => agg'[g].status \in {Begun[op]} \cup Outcome[Begun[op]]
         /\ \A m \in posted' : m.callback = c => m.status = agg'[g].status
<1>1. /\ \A h \in ReservationId : h # g => agg'[h] = agg[h]
      /\ \/ agg[g].status \in Legal[op] /\ agg'[g].status = Begun[op]
         \/ agg[g].status \in Repeated[op] /\ agg'[g].status = agg[g].status
      /\ \A m \in posted' : \/ m \in posted
                            \/ m.status = agg[g].status /\ agg'[g].status = agg[g].status
  BY RequestEffect DEF IInv, TypeOK
<1>2. callbacks \in Nat /\ c > callbacks
  BY DEF IInv, TypeOK, CounterType
<1>3. \A h \in ReservationId : agg[h].callback # c
  BY <1>2 DEF IInv, TypeOK, AggType, RoutesHandedOut
<1>4. \A m \in posted : m.callback # c
  BY <1>2 DEF IInv, TypeOK, PostedType, RoutesHandedOut
<1>5. ~drifted => agg'[g].status \in {Begun[op]} \cup Outcome[Begun[op]]
  <2>1. CASE op = "reserve"
    BY <1>1, <2>1 DEF Begun, Outcome, Legal, Repeated
  <2>2. CASE op # "reserve"
    BY <1>1, <2>2 DEF Operation, Begun, Outcome, Repeated
  <2>3. QED
    BY <2>1, <2>2
<1>6. QED
  BY <1>1, <1>3, <1>4, <1>5

\* A provision, release or terminate request waits for the stored connection.
LEMMA FireOnConnectionAgrees ==
  ASSUME IInv, Agreement, NEW p \in Procs, NEW op \in {"provision", "release", "terminate"},
         FireOnConnection(p, op)
  PROVE  Agreement'
<1> DEFINE c == callbacks + 1
<1>1. /\ proc[p].run = "running" /\ proc[p].step = op /\ ~HasResult(p) /\ drifted' = drifted
      /\ sub.conn \in ReservationId /\ c \in 0..MaxCallbacks /\ callbacks' = c
      /\ Request(op, sub.conn, c) /\ sub' = sub /\ op \in Operation
  BY CallbacksAssumption, ReservationsAssumption DEF FireOnConnection, Fire, At, NoConn, Operation,
     ReservationId, IInv, TypeOK, SubType, CounterType
<1>2. \/ SlotBecomes(p, proc[p].wf, op, "awaiting", c, "none")
      \/ SlotBecomes(p, proc[p].wf, op, "failed", 0, "none")
  BY <1>1, AwaitEffect, FailEffect DEF FireOnConnection, IInv, TypeOK, HasResult
<1>3. /\ \A h \in ReservationId : agg'[h].callback = c => h = sub.conn
      /\ ~drifted => agg'[sub.conn].status \in {Begun[op]} \cup Outcome[Begun[op]]
      /\ \A m \in posted' : m.callback = c => m.status = agg'[sub.conn].status
  BY <1>1, RequestAgrees
<1>4. Holding(p) /\ ~sub.insync
  BY <1>1 DEF IInv, LockExclusive, Holding, Unfinished
<1>5. \A q \in Procs : q # p => proc[q].step \in {"none", "lock"}
  BY <1>4, OthersBlocked
<1>6. \A q \in Procs : q # p => proc[q].run # "awaiting" /\ ~HasResult(q)
  BY <1>5 DEF Agreement, WaitIsForConnection, Operation
<1>7. AgreesAtRest' /\ ReserveKnows'
  BY <1>1, <1>2, <1>4, <1>5 DEF AgreesAtRest, ReserveKnows, RestingSteps, SlotBecomes
<1> HIDE DEF c
<1>8. WaitIsForConnection'
  BY <1>1, <1>2, <1>3, <1>6 DEF WaitIsForConnection, HasResult, SlotBecomes
<1>9. AnswerIsState'
  BY <1>1, <1>2, <1>3, <1>6 DEF AnswerIsState, HasResult, SlotBecomes
<1>10. NoErrorWhileUp'
  BY <1>1 DEF Agreement, NoErrorWhileUp
<1>11. QED
  BY <1>7, <1>8, <1>9, <1>10 DEF Agreement

\* A reserve request waits for the connection it stores, or fails with its answer lost.
LEMMA ReserveConnectionAgrees ==
  ASSUME IInv, Agreement, NEW p \in Procs, ReserveConnection(p)
  PROVE  Agreement'
<1> DEFINE c == callbacks + 1
<1>1. /\ proc[p].run = "running" /\ proc[p].step = "reserve" /\ ~HasResult(p) /\ drifted' = drifted
      /\ sub.gid \in ReservationId /\ c \in 0..MaxCallbacks /\ callbacks' = c
      /\ Request("reserve", sub.gid, c) /\ "reserve" \in Operation
  BY CallbacksAssumption, ReservationsAssumption DEF ReserveConnection, Fire, At, NoConn, Operation,
     ReservationId, IInv, TypeOK, SubType, CounterType
<1>2. /\ sub'.state = sub.state /\ sub'.insync = sub.insync /\ sub'.lastError = sub.lastError
      /\ sub'.gid = sub.gid
      /\ \/ SlotBecomes(p, proc[p].wf, "reserve", "awaiting", c, "none") /\ sub'.conn = sub.gid
         \/ SlotBecomes(p, proc[p].wf, "reserve", "failed", 0, "none")
  BY <1>1, AwaitEffect, FailEffect DEF ReserveConnection, IInv, TypeOK, SubType, HasResult
<1>3. ~drifted => agg[sub.gid].status \in {"none", "RESERVING", "RESERVED", "FAILED"}
  BY <1>1 DEF Agreement, ReserveKnows
<1>4. /\ \A h \in ReservationId : agg'[h].callback = c => h = sub.gid
      /\ ~drifted => agg'[sub.gid].status \in {"RESERVING"} \cup Outcome["RESERVING"]
      /\ \A m \in posted' : m.callback = c => m.status = agg'[sub.gid].status
  BY <1>1, <1>3, RequestAgrees DEF Begun
<1>5. Holding(p) /\ ~sub.insync
  BY <1>1 DEF IInv, LockExclusive, Holding, Unfinished
<1>6. \A q \in Procs : q # p => proc[q].step \in {"none", "lock"}
  BY <1>5, OthersBlocked
<1>7. \A q \in Procs : q # p => proc[q].run # "awaiting" /\ ~HasResult(q)
  BY <1>6 DEF Agreement, WaitIsForConnection, Operation
<1>8. AgreesAtRest'
  BY <1>2, <1>5, <1>6 DEF AgreesAtRest, RestingSteps, SlotBecomes
<1>9. ReserveKnows'
  BY <1>1, <1>2, <1>4, <1>6 DEF ReserveKnows, Outcome, SlotBecomes
<1> HIDE DEF c
<1>10. WaitIsForConnection'
  BY <1>1, <1>2, <1>4, <1>7 DEF WaitIsForConnection, HasResult, SlotBecomes
<1>11. AnswerIsState'
  BY <1>1, <1>2, <1>4, <1>7 DEF AnswerIsState, HasResult, Begun, SlotBecomes
<1>12. NoErrorWhileUp'
  BY <1>2 DEF Agreement, NoErrorWhileUp
<1>13. QED
  BY <1>8, <1>9, <1>10, <1>11, <1>12 DEF Agreement

\* The result that resumes a process is the state its connection is in.
LEMMA CallbackAgrees ==
  ASSUME IInv, Agreement, NEW p \in Procs, Callback(p)
  PROVE  Agreement'
<1>1. proc[p].run = "awaiting" /\ proc[p].step \in Operation
  BY DEF Callback, Agreement, WaitIsForConnection
<1>2. PICK m \in posted :
        /\ m.callback = proc[p].callback /\ m.status \in StableStatus
        /\ SlotBecomes(p, proc[p].wf, proc[p].step, "running", 0, m.status)
  BY CallbackEffect DEF IInv
<1>3. sub' = sub /\ agg' = agg /\ posted' = posted /\ drifted' = drifted
  BY DEF Callback, aggVars
<1>4. ~drifted => m.status = agg[sub.conn].status
                  /\ m.status \in {Begun[proc[p].step]} \cup Outcome[Begun[proc[p].step]]
  BY <1>1, <1>2 DEF Agreement, AnswerIsState
<1>5. Begun[proc[p].step] \notin StableStatus
  BY <1>1 DEF Begun, Operation, StableStatus
<1>6. AgreesAtRest'
  BY <1>2, <1>3 DEF Agreement, AgreesAtRest, Agrees, SlotBecomes
<1>7. ReserveKnows'
  BY <1>2, <1>3 DEF Agreement, ReserveKnows, SlotBecomes
<1>8. WaitIsForConnection'
  BY <1>1, <1>2, <1>3 DEF Agreement, WaitIsForConnection, HasResult, SlotBecomes
<1>9. AnswerIsState'
  BY <1>2, <1>3, <1>4, <1>5 DEF Agreement, AnswerIsState, HasResult, SlotBecomes
<1>10. NoErrorWhileUp'
  BY <1>3 DEF Agreement, NoErrorWhileUp
<1>11. QED
  BY <1>6, <1>7, <1>8, <1>9, <1>10 DEF Agreement

-----------------------------------------------------------------------------
(* The user's override, and the aggregator by itself *)

\* The override says that the two sides may differ.
LEMMA SetInSyncAgrees == ASSUME IInv, Agreement, SetInSync PROVE Agreement'
<1>1. /\ drifted' /\ proc' = proc /\ agg' = agg /\ sub'.conn = sub.conn
      /\ sub'.state = sub.state /\ sub'.lastError = sub.lastError
  BY DEF SetInSync, aggVars, IInv, TypeOK, SubType
<1>2. AgreesAtRest' /\ ReserveKnows' /\ AnswerIsState'
  BY <1>1 DEF AgreesAtRest, ReserveKnows, AnswerIsState
<1>3. WaitIsForConnection' /\ NoErrorWhileUp'
  BY <1>1 DEF Agreement, WaitIsForConnection, HasResult, NoErrorWhileUp
<1>4. QED
  BY <1>2, <1>3 DEF Agreement

\* So does a lapse.
LEMMA AggregatorDriftAgrees ==
  ASSUME IInv, Agreement, NEW g \in ReservationId, AggregatorDrift(g)
  PROVE  Agreement'
<1>1. drifted' /\ proc' = proc /\ sub' = sub
  BY DEF AggregatorDrift
<1>2. \A h \in ReservationId : agg'[h].callback = agg[h].callback
  BY LapseEffect DEF AggregatorDrift, IInv, TypeOK
<1>3. AgreesAtRest' /\ ReserveKnows' /\ AnswerIsState'
  BY <1>1 DEF AgreesAtRest, ReserveKnows, AnswerIsState
<1>4. WaitIsForConnection' /\ NoErrorWhileUp'
  BY <1>1, <1>2 DEF Agreement, WaitIsForConnection, HasResult, NoErrorWhileUp
<1>5. QED
  BY <1>3, <1>4 DEF Agreement

\* An operation that completes was under way, so nothing rested on its reservation;
\* whoever waits for it gets the state it left.
LEMMA AggregatorStepAgrees ==
  ASSUME IInv, Agreement, NEW g \in ReservationId, AggregatorStep(g)
  PROVE  Agreement'
<1>1. sub' = sub /\ proc' = proc /\ drifted' = drifted /\ Complete(g)
  BY DEF AggregatorStep
<1>2. PICK s \in Outcome[agg[g].status] :
        /\ agg' = [agg EXCEPT ![g].status = s]
        /\ posted' = posted \cup {[callback |-> agg[g].callback, status |-> s]}
        /\ agg[g].status \in TransientStatus
  BY <1>1 DEF Complete
<1>3. /\ agg'[g].status = s /\ \A h \in ReservationId : agg'[h].callback = agg[h].callback
      /\ \A h \in ReservationId : h # g => agg'[h] = agg[h]
  BY <1>2 DEF IInv, TypeOK, AggType
<1>4. agg[g].status \notin StableStatus \cup {"CREATED", "none"}
  BY <1>2 DEF TransientStatus, StableStatus
<1>5. AgreesAtRest'
  <2> SUFFICES ASSUME ~drifted', sub'.insync \/ \E q \in Procs : proc'[q].step \in RestingSteps
               PROVE  Agrees'
    BY DEF AgreesAtRest
  <2>1. Agrees
    BY <1>1 DEF Agreement, AgreesAtRest
  <2>2. sub.state \in StableStatus \cup {"CREATED"} /\ sub.conn \in ReservationId
    BY <2>1, ReservationsAssumption DEF Agrees, IInv, TypeOK, SubType, ConnectionState, StableStatus,
       ReservationId
  <2>3. sub.conn # g
    BY <1>4, <2>1, <2>2 DEF Agrees
  <2>4. QED
    BY <1>1, <1>3, <2>1, <2>2, <2>3 DEF Agrees
<1>6. ReserveKnows'
  <2> SUFFICES ASSUME ~drifted', NEW p \in Procs, proc'[p].step = "reserve"
               PROVE  agg'[sub'.gid].status \in {"none", "RESERVING", "RESERVED", "FAILED"}
    BY DEF ReserveKnows
  <2>1. agg[sub.gid].status \in {"none", "RESERVING", "RESERVED", "FAILED"}
    BY <1>1 DEF Agreement, ReserveKnows
  <2>2. CASE sub.gid = g
    <3>1. agg[g].status = "RESERVING"
      BY <1>4, <2>1, <2>2 DEF StableStatus
    <3>2. QED
      BY <1>1, <1>2, <1>3, <2>2, <3>1 DEF Outcome
  <2>3. CASE sub.gid # g
    BY <1>1, <1>2, <2>1, <2>3 DEF IInv, TypeOK, AggType
  <2>4. QED
    BY <2>2, <2>3
<1>7. WaitIsForConnection'
  BY <1>1, <1>3 DEF Agreement, WaitIsForConnection, HasResult
<1>8. AnswerIsState'
  <2> SUFFICES ASSUME ~drifted', NEW p \in Procs
               PROVE  /\ proc[p].run = "awaiting" =>
                           /\ agg'[sub.conn].status \in {Begun[proc[p].step]} \cup Outcome[Begun[proc[p].step]]
                           /\ \A m \in posted' : m.callback = proc[p].callback => m.status = agg'[sub.conn].status
                      /\ HasResult(p) => /\ proc[p].result = agg'[sub.conn].status
                                         /\ proc[p].result \in Outcome[Begun[proc[p].step]]
    BY <1>1 DEF AnswerIsState, HasResult
  <2>1. ~drifted
    BY <1>1
  <2>2. ASSUME proc[p].run = "awaiting"
        PROVE  /\ agg'[sub.conn].status \in {Begun[proc[p].step]} \cup Outcome[Begun[proc[p].step]]
               /\ \A m \in posted' : m.callback = proc[p].callback => m.status = agg'[sub.conn].status
    <3>1. /\ agg[sub.conn].status \in {Begun[proc[p].step]} \cup Outcome[Begun[proc[p].step]]
          /\ \A m \in posted : m.callback = proc[p].callback => m.status = agg[sub.conn].status
          /\ agg[g].callback = proc[p].callback => g = sub.conn
          /\ proc[p].step \in Operation
      BY <2>1, <2>2 DEF Agreement, AnswerIsState, WaitIsForConnection
    <3>2. CASE sub.conn = g
      <4>1. Outcome[Begun[proc[p].step]] \subseteq StableStatus
        BY <3>1 DEF Outcome, Begun, Operation, StableStatus
      <4>2. agg[g].status = Begun[proc[p].step] /\ s \in Outcome[Begun[proc[p].step]]
        BY <1>2, <1>4, <3>1, <3>2, <4>1
      <4>3. \A m \in posted : m.callback # proc[p].callback
        BY <1>4, <3>1, <3>2 DEF IInv, TypeOK, PostedType
      <4>4. QED
        BY <1>2, <1>3, <3>2, <4>2, <4>3
    <3>3. CASE sub.conn # g
      <4>1. agg'[sub.conn] = agg[sub.conn]
        BY <1>2, <3>3 DEF IInv, TypeOK, AggType
      <4>2. QED
        BY <1>2, <3>1, <3>3, <4>1
    <3>4. QED
      BY <3>2, <3>3
  <2>3. ASSUME HasResult(p)
        PROVE  proc[p].result = agg'[sub.conn].status /\ proc[p].result \in Outcome[Begun[proc[p].step]]
    <3>1. /\ proc[p].result = agg[sub.conn].status /\ proc[p].result \in Outcome[Begun[proc[p].step]]
          /\ proc[p].result \in StableStatus
      BY <2>1, <2>3 DEF Agreement, AnswerIsState, HasResult, IInv, TypeOK, ProcType, Process
    <3>2. sub.conn # g
      BY <1>4, <3>1
    <3>3. agg'[sub.conn] = agg[sub.conn]
      BY <1>2, <3>2 DEF IInv, TypeOK, AggType
    <3>4. QED
      BY <3>1, <3>3
  <2>4. QED
    BY <2>2, <2>3
<1>9. NoErrorWhileUp'
  BY <1>1 DEF Agreement, NoErrorWhileUp
<1>10. QED
  BY <1>5, <1>6, <1>7, <1>8, <1>9 DEF Agreement

-----------------------------------------------------------------------------
(* The theorems *)

\* Before create, nobody knows anything.
LEMMA InitAgrees == ASSUME Init PROVE Agreement
<1>1. /\ ~sub.insync /\ sub.state = "CREATED"
      /\ \A p \in Procs : proc[p].step = "none" /\ proc[p].run = "idle" /\ proc[p].result = "none"
  BY DEF Init, IdleProc
<1>2. QED
  BY <1>1 DEF Agreement, AgreesAtRest, ReserveKnows, WaitIsForConnection, AnswerIsState, NoErrorWhileUp,
     RestingSteps, HasResult

\* What the worker does for a process keeps the agreement.
LEMMA WorkAgrees == ASSUME IInv, Agreement, NEW p \in Procs, Work(p) PROVE Agreement'
<1>1. CASE Lock(p) \/ SetStatusProvisioning(p) \/ UpdateLabel(p) \/ SetStatusActive(p)
           \/ SetStatusTerminated(p) \/ ValidateReservation(p)
  BY <1>1, LockAgrees, PassingStepsAgree
<1>2. CASE \/ ReserveConnection(p) \/ ProvisionConnection(p)
           \/ ReleaseConnection(p) \/ TerminateConnection(p)
  BY <1>2, ReserveConnectionAgrees, FireOnConnectionAgrees
     DEF ProvisionConnection, ReleaseConnection, TerminateConnection
<1>3. CASE \/ ProcessReservationResult(p) \/ ProcessProvisionResult(p)
           \/ ProcessReleaseResult(p) \/ ProcessTerminateResult(p)
  BY <1>3, ProcessReservationResultAgrees, ProcessProvisionResultAgrees,
     ProcessReleaseResultAgrees, ProcessTerminateResultAgrees
<1>4. CASE DropConnection(p) \/ UpdateSubscription(p) \/ ReconcileConnectionState(p)
  BY <1>4, DropConnectionAgrees, UpdateSubscriptionAgrees, ReconcileConnectionStateAgrees
<1>5. CASE Resync(p) \/ StepFails(p)
  BY <1>5, EndsAgree, FailuresAgree
<1>6. QED
  BY <1>1, <1>2, <1>3, <1>4, <1>5 DEF Work

\* So does what a user does.
LEMMA UserStepAgrees == ASSUME IInv, Agreement, NEW p \in Procs, UserStep(p) PROVE Agreement'
<1>1. CASE ConstructMdp2pModel(p)
  BY <1>1, ConstructMdp2pModelAgrees
<1>2. CASE \/ SubmitProvision(p) \/ SubmitRelease(p) \/ SubmitTerminate(p)
           \/ SubmitModify(p) \/ SubmitRetry(p)
  <2>1. \E wf \in FormWorkflow : Enter(p, wf, "lock") /\ UNCHANGED <<sub, drifted, aggVars>>
    BY <1>2 DEF SubmitProvision, SubmitRelease, SubmitTerminate, SubmitModify, SubmitForm,
       SubmitRetry, FormWorkflow
  <2>2. QED
    BY <2>1, StartsAgree
<1>3. ASSUME NEW wf \in TaskWorkflow, StartTask(p, wf) PROVE Agreement'
  BY <1>3, StartsAgree DEF StartTask
<1>4. CASE Retry(p) \/ Abort(p)
  BY <1>4, FailuresAgree, EndsAgree
<1>5. QED
  BY <1>1, <1>2, <1>3, <1>4 DEF UserStep

\* Agreement is preserved by every step from a state that satisfies IInv.
LEMMA NextAgrees == ASSUME IInv, Agreement, [Next]_vars PROVE Agreement'
<1>1. ASSUME NEW p \in Procs, UserStep(p) \/ Work(p) \/ Callback(p) \/ Timeout(p) PROVE Agreement'
  BY <1>1, UserStepAgrees, WorkAgrees, CallbackAgrees, FailuresAgree
<1>2. CASE SetInSync
  BY <1>2, SetInSyncAgrees
<1>3. ASSUME NEW g \in ReservationId, AggregatorStep(g) \/ AggregatorDrift(g) PROVE Agreement'
  BY <1>3, AggregatorStepAgrees, AggregatorDriftAgrees
<1>4. CASE OpenRetry \/ UNCHANGED vars
  BY <1>4 DEF OpenRetry, vars, aggVars, Agreement, AgreesAtRest, Agrees, ReserveKnows, WaitIsForConnection,
     AnswerIsState, NoErrorWhileUp, HasResult
<1>5. QED
  BY <1>1, <1>2, <1>3, <1>4 DEF Next

\* For any number of processes, reservations and callback routes, both sides agree
\* whenever nothing is under way, and a wait ends with the state of its connection.
THEOREM AgreementInvariance == Spec => []Agreement
<1>1. Init => Agreement
  BY InitAgrees
<1>2. IInv /\ Agreement /\ [Next]_vars => Agreement'
  BY NextAgrees
<1>3. QED
  BY <1>1, <1>2, Invariance, PTL DEF Spec

\* An in-sync subscription stores what the aggregator has, unless something outside
\* the workflows intervened: no lost, late or repeated result, timeout or retry lets a
\* workflow complete with the state of another request.
THEOREM InSyncMeansAgreement == Spec => []InSyncAgrees
<1>1. Agreement => InSyncAgrees
  BY DEF Agreement, AgreesAtRest, Agrees, InSyncAgrees
<1>2. QED
  BY <1>1, AgreementInvariance, PTL

\* A circuit that is up shows no error that a callback brought: one of an earlier
\* attempt is gone.  What it may show is an error that the aggregator has.
THEOREM UpMeansNoError == Spec => []NoErrorWhileUp
<1>1. Agreement => NoErrorWhileUp
  BY DEF Agreement
<1>2. QED
  BY <1>1, AgreementInvariance, PTL

=============================================================================
