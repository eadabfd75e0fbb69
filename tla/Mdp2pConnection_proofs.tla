---- MODULE Mdp2pConnection_proofs ----
(* Proofs about Mdp2pConnection, for every number of processes, reservation   *)
(* ids and callback routes.                                                   *)
(*   1. what each helper leaves in the process table, the subscription and    *)
(*      the aggregator (the ...Effect lemmas);                                *)
(*   2. every action preserves IInv (the ...Preserves lemmas), whose conjuncts*)
(*      are in Mdp2pInductive, one step per conjunct;                         *)
(*   3. the safety invariants follow from IInv;                               *)
(*   4. the action properties and the refinement of ReservationLedger: every  *)
(*      step leaves the circuit as it was, renews its id, drops its           *)
(*      connection id, ends it, requests it or reports on it (StepCases), so *)
(*   5. the refinement of SubscriptionLock: who holds the lock is the only    *)
(*      one that does (HeldByOne), so a step past the lock is that process's  *)
(*      change, completion or abandonment, and no other step moves a process  *)
(*      across the lock, except the one that takes it.                        *)
EXTENDS Mdp2pInductive, TLAPS
\* What a step leaves in the slot of p, and that it touches no other slot.
SlotBecomes(p, wf, s, run, c, x) ==
  /\ proc'[p].wf = wf /\ proc'[p].step = s /\ proc'[p].run = run
  /\ proc'[p].callback = c /\ proc'[p].result = x
  /\ \A q \in Procs : q # p => proc'[q] = proc[q]

\* What a step leaves in the subscription (the error flag aside).
SubBecomes(status, insync, state, conn, gid) ==
  /\ sub'.status = status /\ sub'.insync = insync /\ sub'.state = state
  /\ sub'.conn = conn /\ sub'.gid = gid

\* Writing one slot of the process table keeps its type and touches no other slot.
LEMMA SlotSet ==
  ASSUME ProcType, NEW p \in Procs, NEW r \in Process, proc' = [proc EXCEPT ![p] = r]
  PROVE  ProcType' /\ SlotBecomes(p, r.wf, r.step, r.run, r.callback, r.result)
  BY DEF ProcType, SlotBecomes

\* Starting a process fills an idle slot with a running process at its first step.
LEMMA EnterEffect ==
  ASSUME ProcType, NEW p \in Procs, NEW wf \in Workflow, NEW s \in Step, Enter(p, wf, s)
  PROVE  ProcType' /\ SlotBecomes(p, wf, s, "running", 0, "none")
<1> DEFINE r == [wf |-> wf, step |-> s, run |-> "running", callback |-> 0, result |-> "none"]
<1>1. proc[p] \in Process /\ 0 \in 0..MaxCallbacks
  BY CallbacksAssumption DEF ProcType
<1>2. r \in Process
  BY <1>1 DEF Process
<1>3. proc' = [proc EXCEPT ![p] = r]
  BY DEF Enter
<1>4. /\ <<r.wf, r.step, r.run>> = <<wf, s, "running">>
      /\ <<r.callback, r.result>> = << 0, "none">>
  BY <1>1 DEF Process
<1> HIDE DEF r
<1>5. QED
  BY <1>2, <1>3, <1>4, SlotSet

\* Committing a step moves the process on and forgets the callback result.
LEMMA AdvanceEffect ==
  ASSUME ProcType, NEW p \in Procs, NEW s \in Step, Advance(p, s)
  PROVE  ProcType' /\ SlotBecomes(p, proc[p].wf, s, proc[p].run, proc[p].callback, "none")
<1> DEFINE r == [proc[p] EXCEPT !.step = s, !.result = "none"]
<1>1. proc[p] \in Process /\ 0 \in 0..MaxCallbacks
  BY CallbacksAssumption DEF ProcType
<1>2. r \in Process
  BY <1>1 DEF Process
<1>3. proc' = [proc EXCEPT ![p] = r]
  BY DEF Advance
<1>4. /\ <<r.wf, r.step, r.run>> = <<proc[p].wf, s, proc[p].run>>
      /\ <<r.callback, r.result>> = << proc[p].callback, "none">>
  BY <1>1 DEF Process
<1> HIDE DEF r
<1>5. QED
  BY <1>2, <1>3, <1>4, SlotSet

\* A callback step parks the process on the route it gave the aggregator.
LEMMA AwaitEffect ==
  ASSUME ProcType, NEW p \in Procs, NEW c \in 0..MaxCallbacks, Await(p, c)
  PROVE  ProcType' /\ SlotBecomes(p, proc[p].wf, proc[p].step, "awaiting", c, proc[p].result)
<1> DEFINE r == [proc[p] EXCEPT !.run = "awaiting", !.callback = c]
<1>1. proc[p] \in Process /\ 0 \in 0..MaxCallbacks
  BY CallbacksAssumption DEF ProcType
<1>2. r \in Process
  BY <1>1 DEF Process
<1>3. proc' = [proc EXCEPT ![p] = r]
  BY DEF Await
<1>4. /\ <<r.wf, r.step, r.run>> = <<proc[p].wf, proc[p].step, "awaiting">>
      /\ <<r.callback, r.result>> = << c, proc[p].result>>
  BY <1>1 DEF Process
<1> HIDE DEF r
<1>5. QED
  BY <1>2, <1>3, <1>4, SlotSet

\* A failed step leaves the process where it was, with its result.
LEMMA FailEffect ==
  ASSUME ProcType, NEW p \in Procs, Fail(p)
  PROVE  ProcType' /\ SlotBecomes(p, proc[p].wf, proc[p].step, "failed", 0, "none")
<1> DEFINE r == [proc[p] EXCEPT !.run = "failed", !.callback = 0, !.result = "none"]
<1>1. proc[p] \in Process /\ 0 \in 0..MaxCallbacks
  BY CallbacksAssumption DEF ProcType
<1>2. r \in Process
  BY <1>1 DEF Process
<1>3. proc' = [proc EXCEPT ![p] = r]
  BY DEF Fail
<1>4. /\ <<r.wf, r.step, r.run>> = <<proc[p].wf, proc[p].step, "failed">>
      /\ <<r.callback, r.result>> = << 0, "none">>
  BY <1>1 DEF Process
<1> HIDE DEF r
<1>5. QED
  BY <1>2, <1>3, <1>4, SlotSet

\* Resuming a failed process runs the failed step again.
LEMMA RetryEffect ==
  ASSUME ProcType, NEW p \in Procs, Retry(p)
  PROVE  ProcType' /\ SlotBecomes(p, proc[p].wf, proc[p].step, "running", proc[p].callback, proc[p].result)
<1> DEFINE r == [proc[p] EXCEPT !.run = "running"]
<1>1. proc[p] \in Process /\ 0 \in 0..MaxCallbacks
  BY CallbacksAssumption DEF ProcType
<1>2. r \in Process
  BY <1>1 DEF Process
<1>3. proc' = [proc EXCEPT ![p] = r]
  BY DEF Retry
<1>4. /\ <<r.wf, r.step, r.run>> = <<proc[p].wf, proc[p].step, "running">>
      /\ <<r.callback, r.result>> = << proc[p].callback, proc[p].result>>
  BY <1>1 DEF Process
<1> HIDE DEF r
<1>5. QED
  BY <1>2, <1>3, <1>4, SlotSet

\* Completing or aborting a process empties its slot.
LEMMA FinishEffect ==
  ASSUME ProcType, NEW p \in Procs, Finish(p)
  PROVE  ProcType' /\ SlotBecomes(p, "none", "none", "idle", 0, "none") /\ proc'[p] = IdleProc
<1>1. IdleProc \in Process
  BY CallbacksAssumption DEF IdleProc, Process
<1>2. proc'[p] = IdleProc
  BY DEF Finish, ProcType
<1>3. QED
  BY <1>1, <1>2, SlotSet DEF Finish, IdleProc

\* A POSTed result makes the waiting process run again, with the result.
LEMMA CallbackEffect ==
  ASSUME TypeOK, NEW p \in Procs, Callback(p)
  PROVE  \E m \in posted :
           /\ m.callback = proc[p].callback /\ m.status \in StableStatus
           /\ ProcType'
           /\ SlotBecomes(p, proc[p].wf, proc[p].step, "running", 0, m.status)
<1>1. PICK m \in posted :
        /\ m.callback = proc[p].callback
        /\ proc' = [proc EXCEPT ![p] = [@ EXCEPT !.run = "running", !.callback = 0, !.result = m.status]]
  BY DEF Callback
<1> DEFINE r == [proc[p] EXCEPT !.run = "running", !.callback = 0, !.result = m.status]
<1>2. proc[p] \in Process /\ m.status \in StableStatus /\ 0 \in 0..MaxCallbacks
  BY CallbacksAssumption DEF TypeOK, ProcType, PostedType
<1>3. r \in Process
  BY <1>2 DEF Process
<1>4. proc' = [proc EXCEPT ![p] = r]
  BY <1>1
<1>5. /\ <<r.wf, r.step, r.run>> = <<proc[p].wf, proc[p].step, "running">>
      /\ <<r.callback, r.result>> = <<0, m.status>>
  BY <1>2 DEF Process
<1> HIDE DEF r
<1>6. ProcType' /\ SlotBecomes(p, r.wf, r.step, r.run, r.callback, r.result)
  BY <1>3, <1>4, SlotSet DEF TypeOK
<1>7. QED
  BY <1>1, <1>2, <1>5, <1>6

\* A request touches the reservation it is about and no other.
LEMMA RequestEffect ==
  ASSUME AggType, PostedType, NEW op \in Operation, NEW g \in ReservationId,
         NEW c \in 0..MaxCallbacks, Request(op, g, c)
  PROVE  /\ AggType' /\ PostedType'
         /\ \A h \in ReservationId : h # g => agg'[h] = agg[h]
         /\ agg'[g].callback = c
         /\ \/ agg[g].status \in Legal[op] /\ agg'[g].status = Begun[op]
            \/ agg[g].status \in Repeated[op] /\ agg'[g].status = agg[g].status
         /\ \A m \in posted' : \/ m \in posted
                               \/ m.callback = c /\ m.status = agg[g].status /\ agg'[g].status = agg[g].status
                                  /\ agg[g].status \in Repeated[op] \cap StableStatus
<1>1. agg[g] \in [status : AggStatus, callback : 0..MaxCallbacks]
  BY DEF AggType
<1>2. CASE /\ agg[g].status \in Legal[op]
           /\ agg' = [agg EXCEPT ![g] = [status |-> Begun[op], callback |-> c]]
           /\ UNCHANGED posted
  <2>1. Begun[op] \in AggStatus
    BY DEF Begun, Operation, AggStatus, TransientStatus
  <2>2. [status |-> Begun[op], callback |-> c] \in [status : AggStatus, callback : 0..MaxCallbacks]
    BY <2>1
  <2>3. QED
    BY <1>2, <2>2 DEF AggType, PostedType
<1>3. CASE /\ agg[g].status \in Repeated[op] \cap TransientStatus
           /\ agg' = [agg EXCEPT ![g].callback = c]
           /\ UNCHANGED posted
  BY <1>1, <1>3 DEF AggType, PostedType
<1>4. CASE /\ agg[g].status \in Repeated[op] \cap StableStatus
           /\ agg' = [agg EXCEPT ![g].callback = c]
           /\ posted' = posted \cup {[callback |-> c, status |-> agg[g].status]}
  BY <1>1, <1>4 DEF AggType, PostedType
<1>5. QED
  BY <1>2, <1>3, <1>4 DEF Request

\* A completion ends what was under way on one reservation and POSTs its status.
LEMMA CompleteEffect ==
  ASSUME AggType, PostedType, NEW g \in ReservationId, Complete(g)
  PROVE  /\ AggType' /\ PostedType'
         /\ \A h \in ReservationId : h # g => agg'[h] = agg[h]
         /\ agg'[g].callback = agg[g].callback
         /\ agg[g].status \in TransientStatus
         /\ agg'[g].status \in StableStatus
         /\ agg[g].status = "TERMINATING" => agg'[g].status = "TERMINATED"
         /\ \A m \in posted' : m \in posted \/ m.callback = agg[g].callback
<1>1. agg[g] \in [status : AggStatus, callback : 0..MaxCallbacks] /\ agg[g].status \in TransientStatus
  BY DEF AggType, Complete
<1>2. PICK s \in Outcome[agg[g].status] :
        /\ agg' = [agg EXCEPT ![g].status = s]
        /\ posted' = posted \cup {[callback |-> agg[g].callback, status |-> s]}
  BY DEF Complete
<1>3. s \in StableStatus /\ s \in AggStatus /\ (agg[g].status = "TERMINATING" => s = "TERMINATED")
  BY <1>1, <1>2 DEF Outcome, StableStatus, AggStatus, TransientStatus
<1>4. QED
  BY <1>1, <1>2, <1>3 DEF AggType, PostedType

\* A lapse leaves a reservation FAILED or TERMINATED, and no result.
LEMMA LapseEffect ==
  ASSUME AggType, NEW g \in ReservationId, Lapse(g)
  PROVE  /\ AggType' /\ posted' = posted
         /\ \A h \in ReservationId : h # g => agg'[h] = agg[h]
         /\ agg'[g].callback = agg[g].callback
         /\ agg[g].status \in {"RESERVED", "ACTIVATED", "FAILED"}
         /\ agg'[g].status \in {"FAILED", "TERMINATED"}
<1>1. agg[g] \in [status : AggStatus, callback : 0..MaxCallbacks]
  BY DEF AggType
<1>2. PICK s \in {"FAILED", "TERMINATED"} : agg' = [agg EXCEPT ![g].status = s]
  BY DEF Lapse
<1>3. s \in AggStatus
  BY DEF AggStatus, StableStatus
<1>4. QED
  BY <1>1, <1>2, <1>3 DEF AggType, Lapse

\* While p holds the lock, every other process is idle or waits for the lock.
LEMMA OthersBlocked ==
  ASSUME IInv, NEW p \in Procs, Holding(p)
  PROVE  \A q \in Procs : q # p => proc[q].step \in {"none", "lock"}
  BY DEF IInv, LockExclusive, IdleClean, IdleProc, Holding

-----------------------------------------------------------------------------
(* Every step preserves the invariant: one lemma per action *)

\* Create starts from nothing.
LEMMA ConstructMdp2pModelPreserves ==
  ASSUME IInv, NEW p \in Procs, ConstructMdp2pModel(p)
  PROVE  IInv'
<1>1. ~Unfinished(p) /\ sub.status = "none" /\ sub.gid + 1 \in 0..MaxReservations
  BY ReservationsAssumption DEF IInv, ConstructMdp2pModel, TypeOK, SubType
<1>2. ProcType' /\ SlotBecomes(p, "create", "reserve", "running", 0, "none")
  BY <1>1, EnterEffect DEF IInv, TypeOK, ConstructMdp2pModel, Step, Workflow,
     FormWorkflow, TaskWorkflow
<1>3. SubBecomes("PROVISIONING", sub.insync, "CREATED", sub.conn, sub.gid + 1)
  BY DEF SubBecomes, IInv, TypeOK, SubType, ConstructMdp2pModel
<1>4. /\ callbacks' = callbacks /\ forms' = forms /\ agg' = agg /\ posted' = posted
      /\ drifted' = drifted /\ drifted \in BOOLEAN
  BY DEF IInv, TypeOK, CounterType, aggVars, ConstructMdp2pModel
<1>5. TypeOK'
  BY <1>1, <1>2, <1>3, <1>4, ReservationsAssumption DEF IInv, TypeOK, SubType,
     CounterType, AggType, PostedType, ConnectionState, Lifecycle, StableStatus, NoConn,
     ConstructMdp2pModel
<1>6. \A q \in Procs : proc[q].step = "none"
  BY <1>1 DEF IInv, Unborn, IdleClean, IdleProc
<1>7. LockExclusive'
  BY <1>1, <1>2, <1>3, <1>4, <1>6 DEF IInv, SlotBecomes, SubBecomes, Unfinished,
     Holding, LockExclusive, Unborn
<1>8. Unborn'
  BY <1>1, <1>2, <1>3, <1>4, <1>6 DEF IInv, SlotBecomes, SubBecomes, Unfinished, Unborn
<1>9. FreshIds'
  BY <1>1, <1>2, <1>3, <1>4 DEF IInv, FreshIds, Unborn, ReservationId
<1>10. ConnKnown'
  BY <1>1, <1>2, <1>3, <1>4 DEF IInv, SubBecomes, ConnKnown, Unborn
<1>11. RoutesHandedOut'
  BY <1>1, <1>2, <1>3, <1>4, <1>6 DEF IInv, SlotBecomes, RoutesHandedOut, TypeOK,
     CounterType
<1>12. WorkflowShape'
  BY <1>1, <1>2, <1>3, <1>4 DEF IInv, SlotBecomes, Unfinished, WorkflowShape
<1>13. HolderHasConnection'
  BY <1>1, <1>2, <1>3, <1>4, <1>6 DEF IInv, SlotBecomes, SubBecomes, Unfinished,
     Holding, HasResult, LoadsActive, HolderHasConnection
<1>14. TerminateResult'
  BY <1>1, <1>2, <1>3, <1>4, <1>6 DEF IInv, SlotBecomes, SubBecomes, HasResult,
     TerminateResult
<1>15. StepKnows'
  BY <1>1, <1>2, <1>3, <1>4, <1>6 DEF IInv, SlotBecomes, SubBecomes, Live, StepKnows
<1>16. EndedHoldsNothing'
  BY <1>1, <1>2, <1>3, <1>4 DEF IInv, SubBecomes, Live, EndedHoldsNothing, HoldsNothing
<1>17. IdleClean'
  BY <1>1, <1>2, <1>3, <1>4 DEF IInv, SlotBecomes, Unfinished, IdleClean
<1>18. FormsKnown' /\ LostByOverride'
  <2>1. FormsKnown'
    BY <1>1, <1>2, <1>3, <1>4 DEF IInv, SubBecomes, FormsKnown
  <2>2. LostByOverride'
    BY <1>1, <1>2, <1>3, <1>4, <1>6 DEF IInv, SlotBecomes, SubBecomes, LostByOverride, Unborn
  <2>3. QED
    BY <2>1, <2>2
<1>19. QED
  BY <1>5, <1>7, <1>8, <1>9, <1>10, <1>11, <1>12, <1>13, <1>14, <1>15, <1>16, <1>17, <1>18 DEF IInv

\* A submitted form only adds a process that waits for the lock.
LEMMA SubmitFormPreserves ==
  ASSUME IInv, NEW p \in Procs, NEW wf \in FormWorkflow \ {"retry"}, NEW states,
         SubmitForm(p, wf, states)
  PROVE  IInv'
<1>1. ~Unfinished(p) /\ sub.insync /\ sub.status # "TERMINATED" /\ sub.conn # NoConn
  BY DEF SubmitForm, Finds, LoadsActive
<1>2. ProcType' /\ SlotBecomes(p, wf, "lock", "running", 0, "none")
  BY <1>1, EnterEffect DEF IInv, TypeOK, SubmitForm, Step, Workflow, FormWorkflow,
     TaskWorkflow
<1>3. SubBecomes(sub.status, sub.insync, sub.state, sub.conn, sub.gid)
  BY DEF SubBecomes, IInv, TypeOK, SubType, SubmitForm
<1>4. /\ callbacks' = callbacks /\ forms' = forms /\ agg' = agg /\ posted' = posted
      /\ drifted' = drifted /\ drifted \in BOOLEAN
  BY DEF IInv, TypeOK, CounterType, aggVars, SubmitForm
<1>5. TypeOK'
  BY <1>1, <1>2, <1>3, <1>4 DEF IInv, TypeOK, SubType, CounterType, AggType, PostedType,
     ConnectionState, Lifecycle, ErrorSource, StableStatus, NoConn, SubmitForm
<1>6. LockExclusive'
  BY <1>1, <1>2, <1>3, <1>4 DEF IInv, SlotBecomes, SubBecomes, Unfinished, Holding,
     LockExclusive
<1>7. Unborn'
  BY <1>1, <1>2, <1>3, <1>4 DEF IInv, SlotBecomes, SubBecomes, Unfinished, Unborn
<1>8. FreshIds'
  BY <1>1, <1>2, <1>3, <1>4 DEF IInv, SubBecomes, FreshIds
<1>9. ConnKnown'
  BY <1>1, <1>2, <1>3, <1>4 DEF IInv, SubBecomes, ConnKnown
<1>10. RoutesHandedOut'
  BY <1>1, <1>2, <1>3, <1>4 DEF IInv, SlotBecomes, RoutesHandedOut, TypeOK, CounterType
<1>11. WorkflowShape'
  BY <1>1, <1>2, <1>3, <1>4 DEF IInv, SlotBecomes, Unfinished, WorkflowShape
<1>12. HolderHasConnection'
  BY <1>1, <1>2, <1>3, <1>4 DEF IInv, SlotBecomes, SubBecomes, Unfinished, Holding,
     HasResult, LoadsActive, HolderHasConnection
<1>13. TerminateResult'
  BY <1>1, <1>2, <1>3, <1>4 DEF IInv, SlotBecomes, SubBecomes, HasResult,
     TerminateResult
<1>14. StepKnows'
  BY <1>1, <1>2, <1>3, <1>4 DEF IInv, SlotBecomes, SubBecomes, Live, StepKnows
<1>15. EndedHoldsNothing'
  BY <1>1, <1>2, <1>3, <1>4 DEF IInv, SubBecomes, Live, EndedHoldsNothing, HoldsNothing
<1>16. IdleClean'
  BY <1>1, <1>2, <1>3, <1>4 DEF IInv, SlotBecomes, Unfinished, IdleClean
<1>17. FormsKnown' /\ LostByOverride'
  <2>1. FormsKnown'
    BY <1>1, <1>2, <1>3, <1>4 DEF IInv, SubBecomes, FormsKnown
  <2>2. LostByOverride'
    BY <1>1, <1>2, <1>3, <1>4 DEF IInv, SlotBecomes, SubBecomes, Live, HoldsNothing, LostByOverride
  <2>3. QED
    BY <2>1, <2>2
<1>18. QED
  BY <1>5, <1>6, <1>7, <1>8, <1>9, <1>10, <1>11, <1>12, <1>13, <1>14, <1>15, <1>16, <1>17 DEF IInv

\* So does the form of retry, which has read some connection id.
LEMMA SubmitRetryPreserves ==
  ASSUME IInv, NEW p \in Procs, SubmitRetry(p)
  PROVE  IInv'
<1>1. ~Unfinished(p) /\ forms # {}
  BY DEF SubmitRetry
<1>2. ProcType' /\ SlotBecomes(p, "retry", "lock", "running", 0, "none")
  BY <1>1, EnterEffect DEF IInv, TypeOK, SubmitRetry, Step, Workflow, FormWorkflow,
     TaskWorkflow
<1>3. SubBecomes(sub.status, sub.insync, sub.state, sub.conn, sub.gid)
  BY DEF SubBecomes, IInv, TypeOK, SubType, SubmitRetry
<1>4. /\ callbacks' = callbacks /\ forms' = forms /\ agg' = agg /\ posted' = posted
      /\ drifted' = drifted /\ drifted \in BOOLEAN
  BY DEF IInv, TypeOK, CounterType, aggVars, SubmitRetry
<1>5. TypeOK'
  BY <1>1, <1>2, <1>3, <1>4 DEF IInv, TypeOK, SubType, CounterType, AggType, PostedType,
     ConnectionState, Lifecycle, ErrorSource, StableStatus, NoConn, SubmitRetry
<1>6. LockExclusive'
  BY <1>1, <1>2, <1>3, <1>4 DEF IInv, SlotBecomes, SubBecomes, Unfinished, Holding,
     LockExclusive
<1>7. Unborn'
  <2>1. sub.status # "none"
    <3>1. NoConn \notin ReservationId /\ \A r \in forms : r \in ReservationId /\ r > 0
      BY ReservationsAssumption DEF IInv, TypeOK, CounterType, NoConn, ReservationId
    <3>2. QED
      BY <1>1, <3>1 DEF IInv, Unborn, FreshIds, FormsKnown
  <2>2. QED
    BY <2>1, <1>3 DEF Unborn, SubBecomes
<1>8. FreshIds'
  BY <1>1, <1>2, <1>3, <1>4 DEF IInv, SubBecomes, FreshIds
<1>9. ConnKnown'
  BY <1>1, <1>2, <1>3, <1>4 DEF IInv, SubBecomes, ConnKnown
<1>10. RoutesHandedOut'
  BY <1>1, <1>2, <1>3, <1>4 DEF IInv, SlotBecomes, RoutesHandedOut, TypeOK, CounterType
<1>11. WorkflowShape'
  BY <1>1, <1>2, <1>3, <1>4 DEF IInv, SlotBecomes, Unfinished, WorkflowShape, FormWorkflow
<1>12. HolderHasConnection'
  BY <1>1, <1>2, <1>3, <1>4 DEF IInv, SlotBecomes, SubBecomes, Unfinished, Holding,
     HasResult, LoadsActive, HolderHasConnection, FormWorkflow
<1>13. TerminateResult'
  BY <1>1, <1>2, <1>3, <1>4 DEF IInv, SlotBecomes, SubBecomes, HasResult,
     TerminateResult
<1>14. StepKnows'
  BY <1>1, <1>2, <1>3, <1>4 DEF IInv, SlotBecomes, SubBecomes, Live, StepKnows
<1>15. EndedHoldsNothing'
  BY <1>1, <1>2, <1>3, <1>4 DEF IInv, SubBecomes, Live, EndedHoldsNothing, HoldsNothing
<1>16. IdleClean'
  BY <1>1, <1>2, <1>3, <1>4 DEF IInv, SlotBecomes, Unfinished, IdleClean
<1>17. FormsKnown' /\ LostByOverride'
  <2>1. FormsKnown'
    BY <1>1, <1>2, <1>3, <1>4 DEF IInv, SubBecomes, FormsKnown
  <2>2. LostByOverride'
    BY <1>1, <1>2, <1>3, <1>4 DEF IInv, SlotBecomes, SubBecomes, Live, HoldsNothing, LostByOverride
  <2>3. QED
    BY <2>1, <2>2
<1>18. QED
  BY <1>5, <1>6, <1>7, <1>8, <1>9, <1>10, <1>11, <1>12, <1>13, <1>14, <1>15, <1>16, <1>17 DEF IInv

\* So does a task.
LEMMA StartTaskPreserves ==
  ASSUME IInv, NEW p \in Procs, NEW wf \in TaskWorkflow, StartTask(p, wf)
  PROVE  IInv'
<1>1. ~Unfinished(p) /\ sub.insync /\ sub.status # "TERMINATED"
  BY DEF IInv, StartTask
<1>2. ProcType' /\ SlotBecomes(p, wf, "lock", "running", 0, "none")
  BY <1>1, EnterEffect DEF IInv, TypeOK, StartTask, Step, Workflow, FormWorkflow,
     TaskWorkflow
<1>3. SubBecomes(sub.status, sub.insync, sub.state, sub.conn, sub.gid)
  BY DEF SubBecomes, IInv, TypeOK, SubType, StartTask
<1>4. /\ callbacks' = callbacks /\ forms' = forms /\ agg' = agg /\ posted' = posted
      /\ drifted' = drifted /\ drifted \in BOOLEAN
  BY DEF IInv, TypeOK, CounterType, aggVars, StartTask
<1>5. TypeOK'
  BY <1>1, <1>2, <1>3, <1>4 DEF IInv, TypeOK, SubType, CounterType, AggType, PostedType,
     ConnectionState, Lifecycle, ErrorSource, StableStatus, NoConn, StartTask
<1>6. LockExclusive'
  BY <1>1, <1>2, <1>3, <1>4 DEF IInv, SlotBecomes, SubBecomes, Unfinished, Holding,
     LockExclusive
<1>7. Unborn'
  BY <1>1, <1>2, <1>3, <1>4 DEF IInv, SlotBecomes, SubBecomes, Unfinished, Unborn
<1>8. FreshIds'
  BY <1>1, <1>2, <1>3, <1>4 DEF IInv, SubBecomes, FreshIds
<1>9. ConnKnown'
  BY <1>1, <1>2, <1>3, <1>4 DEF IInv, SubBecomes, ConnKnown
<1>10. RoutesHandedOut'
  BY <1>1, <1>2, <1>3, <1>4 DEF IInv, SlotBecomes, RoutesHandedOut, TypeOK, CounterType
<1>11. WorkflowShape'
  BY <1>1, <1>2, <1>3, <1>4 DEF IInv, SlotBecomes, Unfinished, WorkflowShape, TaskWorkflow
<1>12. HolderHasConnection'
  BY <1>1, <1>2, <1>3, <1>4 DEF IInv, SlotBecomes, SubBecomes, Unfinished, Holding,
     LoadsActive, HolderHasConnection, LockExclusive, FormWorkflow, TaskWorkflow,
     IdleClean, IdleProc
<1>13. TerminateResult'
  BY <1>1, <1>2, <1>3, <1>4 DEF IInv, SlotBecomes, SubBecomes, HasResult,
     TerminateResult
<1>14. StepKnows'
  BY <1>1, <1>2, <1>3, <1>4 DEF IInv, SlotBecomes, SubBecomes, Live, StepKnows
<1>15. EndedHoldsNothing'
  BY <1>1, <1>2, <1>3, <1>4 DEF IInv, SubBecomes, Live, EndedHoldsNothing, HoldsNothing
<1>16. IdleClean'
  BY <1>1, <1>2, <1>3, <1>4 DEF IInv, SlotBecomes, Unfinished, IdleClean
<1>17. FormsKnown' /\ LostByOverride'
  <2>1. FormsKnown'
    BY <1>1, <1>2, <1>3, <1>4 DEF IInv, SubBecomes, FormsKnown
  <2>2. LostByOverride'
    BY <1>1, <1>2, <1>3, <1>4 DEF IInv, SlotBecomes, SubBecomes, Live, HoldsNothing, LostByOverride
  <2>3. QED
    BY <2>1, <2>2
<1>18. QED
  BY <1>5, <1>6, <1>7, <1>8, <1>9, <1>10, <1>11, <1>12, <1>13, <1>14, <1>15, <1>16, <1>17 DEF IInv

\* The lock is free, so nobody else holds it; the form's connection id is still there.
LEMMA LockPreserves ==
  ASSUME IInv, NEW p \in Procs, Lock(p)
  PROVE  IInv'
<1>1. proc[p].run = "running" /\ proc[p].step = "lock" /\ sub.insync /\ proc[p].wf \in FormWorkflow \cup TaskWorkflow
  BY DEF IInv, Lock, At, WorkflowShape, Unfinished
<1>2. ProcType' /\ SlotBecomes(p, proc[p].wf, AfterLock(proc[p].wf), "running", proc[p].callback, "none")
  BY <1>1, AdvanceEffect DEF IInv, TypeOK, Lock, AfterLock, Step, Workflow,
     FormWorkflow, TaskWorkflow
<1>3. SubBecomes(sub.status, FALSE, sub.state, sub.conn, sub.gid)
  BY DEF SubBecomes, IInv, TypeOK, SubType, Lock
<1>4. /\ callbacks' = callbacks /\ forms' = forms /\ agg' = agg /\ posted' = posted
      /\ drifted' = drifted /\ drifted \in BOOLEAN
  BY DEF IInv, TypeOK, CounterType, aggVars, Lock
<1>5. TypeOK'
  BY <1>1, <1>2, <1>3, <1>4 DEF IInv, TypeOK, SubType, CounterType, AggType, PostedType,
     ConnectionState, Lifecycle, ErrorSource, StableStatus, NoConn, Lock
<1>6. \A q \in Procs : proc[q].step \in {"none", "lock"}
  BY <1>1 DEF IInv, LockExclusive, Holding, IdleClean, IdleProc
<1>7. /\ AfterLock(proc[p].wf) \notin {"update", "reserve"}
      /\ AfterLock(proc[p].wf) = "close" => sub.state = "TERMINATED"
  BY <1>1 DEF AfterLock, FormWorkflow, TaskWorkflow
<1>8. LockExclusive'
  BY <1>1, <1>2, <1>3, <1>4, <1>6, <1>7 DEF IInv, SlotBecomes, SubBecomes, Unfinished,
     Holding, LockExclusive
<1>9. Unborn'
  BY <1>1, <1>2, <1>3, <1>4, <1>6, <1>7 DEF IInv, SlotBecomes, SubBecomes, Unfinished,
     Unborn
<1>10. FreshIds'
  BY <1>1, <1>2, <1>3, <1>4 DEF IInv, SubBecomes, FreshIds
<1>11. ConnKnown'
  BY <1>1, <1>2, <1>3, <1>4 DEF IInv, SubBecomes, ConnKnown
<1>12. RoutesHandedOut'
  BY <1>1, <1>2, <1>3, <1>4, <1>6, <1>7 DEF IInv, SlotBecomes, RoutesHandedOut
<1>13. WorkflowShape'
  BY <1>1, <1>2, <1>3, <1>4 DEF IInv, SlotBecomes, Unfinished, WorkflowShape,
     FormWorkflow, TaskWorkflow, AfterLock
<1>14. HolderHasConnection'
  BY <1>1, <1>2, <1>3, <1>4, <1>6, <1>7 DEF IInv, SlotBecomes, SubBecomes, Unfinished,
     Holding, LoadsActive, HolderHasConnection, TaskWorkflow, AfterLock
<1>15. TerminateResult'
  BY <1>1, <1>2, <1>3, <1>4, <1>6, <1>7 DEF IInv, SlotBecomes, SubBecomes, HasResult,
     TerminateResult
<1>16. StepKnows'
  BY <1>1, <1>2, <1>3, <1>4, <1>6, <1>7 DEF IInv, SlotBecomes, SubBecomes, Live,
     StepKnows
<1>17. EndedHoldsNothing'
  BY <1>1, <1>2, <1>3, <1>4 DEF IInv, SubBecomes, Live, EndedHoldsNothing, HoldsNothing
<1>18. IdleClean'
  BY <1>1, <1>2, <1>3, <1>4 DEF IInv, SlotBecomes, Unfinished, IdleClean
<1>19. FormsKnown' /\ LostByOverride'
  <2>1. FormsKnown'
    BY <1>1, <1>2, <1>3, <1>4 DEF IInv, SubBecomes, FormsKnown
  <2>2. LostByOverride'
    BY <1>1, <1>2, <1>3, <1>4 DEF IInv, SlotBecomes, SubBecomes, Live, HoldsNothing, LostByOverride
  <2>3. QED
    BY <2>1, <2>2
<1>20. QED
  BY <1>5, <1>8, <1>9, <1>10, <1>11, <1>12, <1>13, <1>14, <1>15, <1>16, <1>17, <1>18, <1>19 DEF IInv

\* set_status(PROVISIONING); retry finds a connection to terminate.
LEMMA SetStatusProvisioningPreserves ==
  ASSUME IInv, NEW p \in Procs, SetStatusProvisioning(p)
  PROVE  IInv'
<1>1. proc[p].run = "running" /\ proc[p].step = "provisioning" /\ proc[p].wf \in {"provision", "release", "retry", "modify"}
  BY DEF IInv, SetStatusProvisioning, At, WorkflowShape, Unfinished
<1>2. ProcType' /\ SlotBecomes(p, proc[p].wf, AfterProvisioning(proc[p].wf), "running", proc[p].callback, "none")
  BY <1>1, AdvanceEffect DEF IInv, TypeOK, SetStatusProvisioning, AfterProvisioning,
     Step, Workflow, FormWorkflow, TaskWorkflow
<1>3. SubBecomes("PROVISIONING", sub.insync, sub.state, sub.conn, sub.gid)
  BY DEF SubBecomes, IInv, TypeOK, SubType, SetStatusProvisioning
<1>4. /\ callbacks' = callbacks /\ forms' = forms /\ agg' = agg /\ posted' = posted
      /\ drifted' = drifted /\ drifted \in BOOLEAN
  BY DEF IInv, TypeOK, CounterType, aggVars, SetStatusProvisioning
<1>5. TypeOK'
  BY <1>1, <1>2, <1>3, <1>4 DEF IInv, TypeOK, SubType, CounterType, AggType, PostedType,
     ConnectionState, Lifecycle, ErrorSource, StableStatus, NoConn, SetStatusProvisioning
<1>6. /\ \A q \in Procs : q # p => proc[q].step \in {"none", "lock"}
      /\ AfterProvisioning(proc[p].wf) \in {"provision", "release", "relabel", "update", "terminate"}
      /\ AfterProvisioning(proc[p].wf) = "update" => proc[p].wf = "retry" /\ sub.conn = NoConn
      /\ AfterProvisioning(proc[p].wf) # "update" => sub.conn # NoConn
  <2>1. \A q \in Procs : q # p => proc[q].step \in {"none", "lock"}
    BY <1>1, OthersBlocked DEF Holding, Unfinished
  <2>2. proc[p].wf # "retry" => sub.conn # NoConn
    BY <1>1 DEF IInv, HolderHasConnection, LoadsActive
  <2>3. QED
    BY <1>1, <2>1, <2>2 DEF AfterProvisioning
<1>7. LockExclusive'
  BY <1>1, <1>2, <1>3, <1>4, <1>6 DEF IInv, SlotBecomes, SubBecomes, Unfinished,
     Holding, LockExclusive
<1>8. Unborn'
  BY <1>1, <1>2, <1>3, <1>4, <1>6 DEF IInv, SlotBecomes, SubBecomes, Unfinished, Unborn
<1>9. FreshIds'
  BY <1>1, <1>2, <1>3, <1>4 DEF IInv, SubBecomes, FreshIds
<1>10. ConnKnown'
  BY <1>1, <1>2, <1>3, <1>4 DEF IInv, SubBecomes, ConnKnown
<1>11. RoutesHandedOut'
  BY <1>1, <1>2, <1>3, <1>4, <1>6 DEF IInv, SlotBecomes, RoutesHandedOut
<1>12. WorkflowShape'
  BY <1>1, <1>2, <1>3, <1>4, <1>6 DEF IInv, SlotBecomes, Unfinished, WorkflowShape
<1>13. HolderHasConnection'
  BY <1>1, <1>2, <1>3, <1>4, <1>6 DEF IInv, SlotBecomes, SubBecomes, Unfinished,
     Holding, HasResult, LoadsActive, HolderHasConnection
<1>14. TerminateResult'
  BY <1>1, <1>2, <1>3, <1>4, <1>6 DEF IInv, SlotBecomes, SubBecomes, HasResult,
     TerminateResult
<1>15. StepKnows'
  BY <1>1, <1>2, <1>3, <1>4, <1>6 DEF IInv, SlotBecomes, SubBecomes, StepKnows
<1>16. EndedHoldsNothing'
  BY <1>1, <1>2, <1>3, <1>4 DEF IInv, SubBecomes, Live, EndedHoldsNothing, HoldsNothing
<1>17. IdleClean'
  BY <1>1, <1>2, <1>3, <1>4 DEF IInv, SlotBecomes, Unfinished, IdleClean
<1>18. FormsKnown' /\ LostByOverride'
  <2>1. FormsKnown'
    BY <1>1, <1>2, <1>3, <1>4 DEF IInv, SubBecomes, FormsKnown
  <2>2. LostByOverride'
    <3>1. drifted \/ sub.conn # NoConn
      BY <1>1 DEF IInv, LostByOverride
    <3>2. QED
      BY <1>3, <1>4, <3>1 DEF SubBecomes, LostByOverride
  <2>3. QED
    BY <2>1, <2>2
<1>19. QED
  BY <1>5, <1>7, <1>8, <1>9, <1>10, <1>11, <1>12, <1>13, <1>14, <1>15, <1>16, <1>17, <1>18 DEF IInv

\* Recording a result moves the state along the state machine, never to or from TERMINATED.
LEMMA ProcessReservationResultPreserves ==
  ASSUME IInv, NEW p \in Procs, ProcessReservationResult(p)
  PROVE  IInv'
<1>1. proc[p].run = "running" /\ proc[p].step = "reserve" /\ HasResult(p)
  BY DEF IInv, ProcessReservationResult, Record, At
<1>2. ProcType' /\ SlotBecomes(p, proc[p].wf, "activate", "running", proc[p].callback, "none")
  BY <1>1, AdvanceEffect DEF IInv, TypeOK, ProcessReservationResult, Record, Step
<1>3. SubBecomes(sub.status, sub.insync, sub'.state, sub.conn, sub.gid)
      /\ sub'.state \in ConnectionState \ {"TERMINATED"}
      /\ sub.state # "TERMINATED"
  BY DEF SubBecomes, IInv, TypeOK, SubType, ProcessReservationResult, Record,
     Transition, Apply, Allowed, ConnectionState, ResultError
<1>4. /\ callbacks' = callbacks /\ forms' = forms /\ agg' = agg /\ posted' = posted
      /\ drifted' = drifted /\ drifted \in BOOLEAN
  BY DEF IInv, TypeOK, CounterType, aggVars, ProcessReservationResult, Record,
     Transition, Apply, Allowed, ConnectionState, ResultError
<1>5. TypeOK'
  BY <1>1, <1>2, <1>3, <1>4 DEF IInv, TypeOK, SubType, CounterType, AggType, PostedType,
     ConnectionState, Lifecycle, ErrorSource, StableStatus, NoConn, ProcessReservationResult, Record,
     Transition, Apply, Allowed, ResultError
<1>6. \A q \in Procs : q # p => proc[q].step \in {"none", "lock"}
  BY <1>1, OthersBlocked DEF Holding, Unfinished
<1>7. LockExclusive'
  BY <1>1, <1>2, <1>3, <1>4, <1>6 DEF IInv, SlotBecomes, SubBecomes, Unfinished,
     Holding, LockExclusive
<1>8. Unborn'
  BY <1>1, <1>2, <1>3, <1>4, <1>6 DEF IInv, SlotBecomes, SubBecomes, Unfinished, Unborn
<1>9. FreshIds'
  BY <1>1, <1>2, <1>3, <1>4 DEF IInv, SubBecomes, FreshIds
<1>10. ConnKnown'
  BY <1>1, <1>2, <1>3, <1>4 DEF IInv, SubBecomes, ConnKnown
<1>11. RoutesHandedOut'
  BY <1>1, <1>2, <1>3, <1>4, <1>6 DEF IInv, SlotBecomes, RoutesHandedOut
<1>12. WorkflowShape'
  BY <1>1, <1>2, <1>3, <1>4 DEF IInv, SlotBecomes, Unfinished, WorkflowShape
<1>13. HolderHasConnection'
  BY <1>1, <1>2, <1>3, <1>4, <1>6 DEF IInv, SlotBecomes, SubBecomes, Unfinished,
     Holding, HasResult, LoadsActive, HolderHasConnection
<1>14. TerminateResult'
  BY <1>1, <1>2, <1>3, <1>4, <1>6 DEF IInv, SlotBecomes, SubBecomes, HasResult,
     TerminateResult
<1>15. StepKnows'
  BY <1>1, <1>2, <1>3, <1>4, <1>6 DEF IInv, SlotBecomes, SubBecomes, Live, StepKnows
<1>16. EndedHoldsNothing'
  BY <1>1, <1>2, <1>3, <1>4 DEF IInv, SubBecomes, Live, EndedHoldsNothing, HoldsNothing
<1>17. IdleClean'
  BY <1>1, <1>2, <1>3, <1>4 DEF IInv, SlotBecomes, Unfinished, IdleClean
<1>18. FormsKnown' /\ LostByOverride'
  <2>1. FormsKnown'
    BY <1>1, <1>2, <1>3, <1>4 DEF IInv, SubBecomes, FormsKnown
  <2>2. LostByOverride'
    BY <1>1, <1>2, <1>3, <1>4 DEF IInv, SlotBecomes, SubBecomes, Live, HoldsNothing, LostByOverride
  <2>3. QED
    BY <2>1, <2>2
<1>19. QED
  BY <1>5, <1>7, <1>8, <1>9, <1>10, <1>11, <1>12, <1>13, <1>14, <1>15, <1>16, <1>17, <1>18 DEF IInv

\* Recording the outcome of provision: no reservation and no id changes.
LEMMA ProcessProvisionResultPreserves ==
  ASSUME IInv, NEW p \in Procs, ProcessProvisionResult(p)
  PROVE  IInv'
<1>1. proc[p].run = "running" /\ proc[p].step = "provision" /\ HasResult(p)
  BY DEF IInv, ProcessProvisionResult, Record, At
<1>2. ProcType' /\ SlotBecomes(p, proc[p].wf, "activate", "running", proc[p].callback, "none")
  BY <1>1, AdvanceEffect DEF IInv, TypeOK, ProcessProvisionResult, Record, Step
<1>3. SubBecomes(sub.status, sub.insync, sub'.state, sub.conn, sub.gid)
      /\ sub'.state \in ConnectionState \ {"TERMINATED"}
      /\ sub.state # "TERMINATED"
  BY DEF SubBecomes, IInv, TypeOK, SubType, ProcessProvisionResult, Record, Transition,
     Apply, Allowed, ConnectionState, ResultError
<1>4. /\ callbacks' = callbacks /\ forms' = forms /\ agg' = agg /\ posted' = posted
      /\ drifted' = drifted /\ drifted \in BOOLEAN
  BY DEF IInv, TypeOK, CounterType, aggVars, ProcessProvisionResult, Record, Transition,
     Apply, Allowed, ConnectionState, ResultError
<1>5. TypeOK'
  BY <1>1, <1>2, <1>3, <1>4 DEF IInv, TypeOK, SubType, CounterType, AggType, PostedType,
     ConnectionState, Lifecycle, ErrorSource, StableStatus, NoConn, ProcessProvisionResult, Record,
     Transition, Apply, Allowed, ResultError
<1>6. \A q \in Procs : q # p => proc[q].step \in {"none", "lock"}
  BY <1>1, OthersBlocked DEF Holding, Unfinished
<1>7. LockExclusive'
  BY <1>1, <1>2, <1>3, <1>4, <1>6 DEF IInv, SlotBecomes, SubBecomes, Unfinished,
     Holding, LockExclusive
<1>8. Unborn'
  BY <1>1, <1>2, <1>3, <1>4, <1>6 DEF IInv, SlotBecomes, SubBecomes, Unfinished, Unborn
<1>9. FreshIds'
  BY <1>1, <1>2, <1>3, <1>4 DEF IInv, SubBecomes, FreshIds
<1>10. ConnKnown'
  BY <1>1, <1>2, <1>3, <1>4 DEF IInv, SubBecomes, ConnKnown
<1>11. RoutesHandedOut'
  BY <1>1, <1>2, <1>3, <1>4, <1>6 DEF IInv, SlotBecomes, RoutesHandedOut
<1>12. WorkflowShape'
  BY <1>1, <1>2, <1>3, <1>4 DEF IInv, SlotBecomes, Unfinished, WorkflowShape
<1>13. HolderHasConnection'
  BY <1>1, <1>2, <1>3, <1>4, <1>6 DEF IInv, SlotBecomes, SubBecomes, Unfinished,
     Holding, HasResult, LoadsActive, HolderHasConnection
<1>14. TerminateResult'
  BY <1>1, <1>2, <1>3, <1>4, <1>6 DEF IInv, SlotBecomes, SubBecomes, HasResult,
     TerminateResult
<1>15. StepKnows'
  BY <1>1, <1>2, <1>3, <1>4, <1>6 DEF IInv, SlotBecomes, SubBecomes, Live, StepKnows
<1>16. EndedHoldsNothing'
  BY <1>1, <1>2, <1>3, <1>4 DEF IInv, SubBecomes, Live, EndedHoldsNothing, HoldsNothing
<1>17. IdleClean'
  BY <1>1, <1>2, <1>3, <1>4 DEF IInv, SlotBecomes, Unfinished, IdleClean
<1>18. FormsKnown' /\ LostByOverride'
  <2>1. FormsKnown'
    BY <1>1, <1>2, <1>3, <1>4 DEF IInv, SubBecomes, FormsKnown
  <2>2. LostByOverride'
    BY <1>1, <1>2, <1>3, <1>4 DEF IInv, SlotBecomes, SubBecomes, Live, HoldsNothing, LostByOverride
  <2>3. QED
    BY <2>1, <2>2
<1>19. QED
  BY <1>5, <1>7, <1>8, <1>9, <1>10, <1>11, <1>12, <1>13, <1>14, <1>15, <1>16, <1>17, <1>18 DEF IInv

\* Recording the outcome of release: no reservation and no id changes.
LEMMA ProcessReleaseResultPreserves ==
  ASSUME IInv, NEW p \in Procs, ProcessReleaseResult(p)
  PROVE  IInv'
<1>1. proc[p].run = "running" /\ proc[p].step = "release" /\ HasResult(p)
  BY DEF IInv, ProcessReleaseResult, Record, At
<1>2. ProcType' /\ SlotBecomes(p, proc[p].wf, "activate", "running", proc[p].callback, "none")
  BY <1>1, AdvanceEffect DEF IInv, TypeOK, ProcessReleaseResult, Record, Step
<1>3. SubBecomes(sub.status, sub.insync, sub'.state, sub.conn, sub.gid)
      /\ sub'.state \in ConnectionState \ {"TERMINATED"}
      /\ sub.state # "TERMINATED"
  BY DEF SubBecomes, IInv, TypeOK, SubType, ProcessReleaseResult, Record, Transition,
     Apply, Allowed, ConnectionState, ResultError
<1>4. /\ callbacks' = callbacks /\ forms' = forms /\ agg' = agg /\ posted' = posted
      /\ drifted' = drifted /\ drifted \in BOOLEAN
  BY DEF IInv, TypeOK, CounterType, aggVars, ProcessReleaseResult, Record, Transition,
     Apply, Allowed, ConnectionState, ResultError
<1>5. TypeOK'
  BY <1>1, <1>2, <1>3, <1>4 DEF IInv, TypeOK, SubType, CounterType, AggType, PostedType,
     ConnectionState, Lifecycle, ErrorSource, StableStatus, NoConn, ProcessReleaseResult, Record,
     Transition, Apply, Allowed, ResultError
<1>6. \A q \in Procs : q # p => proc[q].step \in {"none", "lock"}
  BY <1>1, OthersBlocked DEF Holding, Unfinished
<1>7. LockExclusive'
  BY <1>1, <1>2, <1>3, <1>4, <1>6 DEF IInv, SlotBecomes, SubBecomes, Unfinished,
     Holding, LockExclusive
<1>8. Unborn'
  BY <1>1, <1>2, <1>3, <1>4, <1>6 DEF IInv, SlotBecomes, SubBecomes, Unfinished, Unborn
<1>9. FreshIds'
  BY <1>1, <1>2, <1>3, <1>4 DEF IInv, SubBecomes, FreshIds
<1>10. ConnKnown'
  BY <1>1, <1>2, <1>3, <1>4 DEF IInv, SubBecomes, ConnKnown
<1>11. RoutesHandedOut'
  BY <1>1, <1>2, <1>3, <1>4, <1>6 DEF IInv, SlotBecomes, RoutesHandedOut
<1>12. WorkflowShape'
  BY <1>1, <1>2, <1>3, <1>4 DEF IInv, SlotBecomes, Unfinished, WorkflowShape
<1>13. HolderHasConnection'
  BY <1>1, <1>2, <1>3, <1>4, <1>6 DEF IInv, SlotBecomes, SubBecomes, Unfinished,
     Holding, HasResult, LoadsActive, HolderHasConnection
<1>14. TerminateResult'
  BY <1>1, <1>2, <1>3, <1>4, <1>6 DEF IInv, SlotBecomes, SubBecomes, HasResult,
     TerminateResult
<1>15. StepKnows'
  BY <1>1, <1>2, <1>3, <1>4, <1>6 DEF IInv, SlotBecomes, SubBecomes, Live, StepKnows
<1>16. EndedHoldsNothing'
  BY <1>1, <1>2, <1>3, <1>4 DEF IInv, SubBecomes, Live, EndedHoldsNothing, HoldsNothing
<1>17. IdleClean'
  BY <1>1, <1>2, <1>3, <1>4 DEF IInv, SlotBecomes, Unfinished, IdleClean
<1>18. FormsKnown' /\ LostByOverride'
  <2>1. FormsKnown'
    BY <1>1, <1>2, <1>3, <1>4 DEF IInv, SubBecomes, FormsKnown
  <2>2. LostByOverride'
    BY <1>1, <1>2, <1>3, <1>4 DEF IInv, SlotBecomes, SubBecomes, Live, HoldsNothing, LostByOverride
  <2>3. QED
    BY <2>1, <2>2
<1>19. QED
  BY <1>5, <1>7, <1>8, <1>9, <1>10, <1>11, <1>12, <1>13, <1>14, <1>15, <1>16, <1>17, <1>18 DEF IInv

\* Terminate records TERMINATED only once the reservation is.
LEMMA ProcessTerminateResultPreserves ==
  ASSUME IInv, NEW p \in Procs, ProcessTerminateResult(p)
  PROVE  IInv'
<1>1. proc[p].run = "running" /\ proc[p].step = "terminate" /\ HasResult(p)
  BY DEF IInv, ProcessTerminateResult, Record, At
<1>2. ProcType' /\ SlotBecomes(p, proc[p].wf, "close", "running", proc[p].callback, "none")
  BY <1>1, AdvanceEffect DEF IInv, TypeOK, ProcessTerminateResult, Record, Step
<1>3. SubBecomes(sub.status, sub.insync, "TERMINATED", sub.conn, sub.gid)
  BY DEF SubBecomes, IInv, TypeOK, SubType, ProcessTerminateResult, Record, Transition,
     Apply, ConnectionState
<1>4. /\ callbacks' = callbacks /\ forms' = forms /\ agg' = agg /\ posted' = posted
      /\ drifted' = drifted /\ drifted \in BOOLEAN
  BY DEF IInv, TypeOK, CounterType, aggVars, ProcessTerminateResult, Record, Transition,
     Apply, ConnectionState
<1>5. TypeOK'
  BY <1>1, <1>2, <1>3, <1>4 DEF IInv, TypeOK, SubType, CounterType, AggType, PostedType,
     ConnectionState, Lifecycle, ErrorSource, StableStatus, NoConn, ProcessTerminateResult, Record,
     Transition, Apply
<1>6. \A q \in Procs : q # p => proc[q].step \in {"none", "lock"}
  BY <1>1, OthersBlocked DEF Holding, Unfinished
<1>7. LockExclusive'
  BY <1>1, <1>2, <1>3, <1>4, <1>6 DEF IInv, SlotBecomes, SubBecomes, Unfinished,
     Holding, LockExclusive
<1>8. Unborn'
  BY <1>1, <1>2, <1>3, <1>4, <1>6 DEF IInv, SlotBecomes, SubBecomes, Unfinished, Unborn
<1>9. FreshIds'
  BY <1>1, <1>2, <1>3, <1>4 DEF IInv, SubBecomes, FreshIds
<1>10. ConnKnown'
  BY <1>1, <1>2, <1>3, <1>4 DEF IInv, SubBecomes, ConnKnown
<1>11. RoutesHandedOut'
  BY <1>1, <1>2, <1>3, <1>4, <1>6 DEF IInv, SlotBecomes, RoutesHandedOut
<1>12. WorkflowShape'
  BY <1>1, <1>2, <1>3, <1>4 DEF IInv, SlotBecomes, Unfinished, WorkflowShape
<1>13. HolderHasConnection'
  BY <1>1, <1>2, <1>3, <1>4, <1>6 DEF IInv, SlotBecomes, SubBecomes, Unfinished,
     Holding, HasResult, LoadsActive, HolderHasConnection
<1>14. TerminateResult'
  BY <1>1, <1>2, <1>3, <1>4, <1>6 DEF IInv, SlotBecomes, SubBecomes, HasResult,
     TerminateResult
<1>15. StepKnows'
  BY <1>1, <1>2, <1>3, <1>4, <1>6 DEF IInv, SlotBecomes, SubBecomes, Live, StepKnows
<1>16. EndedHoldsNothing'
  BY <1>1, <1>2, <1>3, <1>4 DEF IInv, SubBecomes, Unfinished, Holding, Live,
     LoadsActive, EndedHoldsNothing, ConnKnown, TerminateResult, HoldsNothing,
     HolderHasConnection
<1>17. IdleClean'
  BY <1>1, <1>2, <1>3, <1>4 DEF IInv, SlotBecomes, Unfinished, IdleClean
<1>18. FormsKnown' /\ LostByOverride'
  <2>1. FormsKnown'
    BY <1>1, <1>2, <1>3, <1>4 DEF IInv, SubBecomes, FormsKnown
  <2>2. LostByOverride'
    BY <1>1, <1>2, <1>3, <1>4 DEF IInv, SlotBecomes, SubBecomes, Live, HoldsNothing, LostByOverride
  <2>3. QED
    BY <2>1, <2>2
<1>19. QED
  BY <1>5, <1>7, <1>8, <1>9, <1>10, <1>11, <1>12, <1>13, <1>14, <1>15, <1>16, <1>17, <1>18 DEF IInv

\* Retry drops the connection id only once the reservation is TERMINATED, and then holds nothing.
LEMMA DropConnectionPreserves ==
  ASSUME IInv, NEW p \in Procs, DropConnection(p)
  PROVE  IInv'
<1>1. /\ proc[p].run = "running" /\ proc[p].step = "terminate" /\ HasResult(p) /\ proc[p].wf = "retry"
      /\ agg[sub.conn].status = "TERMINATED" /\ sub.conn = sub.gid /\ ~sub.insync
  BY DEF IInv, DropConnection, At, TerminateResult, HolderHasConnection, Holding, Unfinished,
     LoadsActive, ConnKnown, LockExclusive
<1>2. ProcType' /\ SlotBecomes(p, proc[p].wf, "update", "running", proc[p].callback, "none")
  BY <1>1, AdvanceEffect DEF IInv, TypeOK, DropConnection, Step
<1>3. SubBecomes(sub.status, sub.insync, sub.state, NoConn, sub.gid)
  BY DEF SubBecomes, IInv, TypeOK, SubType, DropConnection
<1>4. /\ callbacks' = callbacks /\ forms' = forms /\ agg' = agg /\ posted' = posted
      /\ drifted' = drifted /\ drifted \in BOOLEAN
  BY DEF IInv, TypeOK, CounterType, aggVars, DropConnection
<1>5. TypeOK'
  BY <1>1, <1>2, <1>3, <1>4, ReservationsAssumption DEF IInv, TypeOK, SubType,
     CounterType, AggType, PostedType, ConnectionState, Lifecycle, StableStatus, NoConn,
     DropConnection
<1>6. \A q \in Procs : q # p => proc[q].step \in {"none", "lock"}
  BY <1>1, OthersBlocked DEF Holding, Unfinished
<1>7. LockExclusive'
  BY <1>1, <1>2, <1>3, <1>4, <1>6 DEF IInv, SlotBecomes, SubBecomes, Unfinished,
     Holding, LockExclusive
<1>8. Unborn'
  BY <1>1, <1>2, <1>3, <1>4, <1>6 DEF IInv, SlotBecomes, SubBecomes, Unfinished, Unborn
<1>9. FreshIds'
  BY <1>1, <1>2, <1>3, <1>4 DEF IInv, SubBecomes, FreshIds
<1>10. ConnKnown'
  BY <1>1, <1>2, <1>3, <1>4 DEF IInv, SubBecomes, ConnKnown
<1>11. RoutesHandedOut'
  BY <1>1, <1>2, <1>3, <1>4, <1>6 DEF IInv, SlotBecomes, RoutesHandedOut
<1>12. WorkflowShape'
  BY <1>1, <1>2, <1>3, <1>4 DEF IInv, SlotBecomes, Unfinished, WorkflowShape
<1>13. HolderHasConnection'
  BY <1>1, <1>2, <1>3, <1>4, <1>6 DEF IInv, SlotBecomes, SubBecomes, Unfinished,
     Holding, HolderHasConnection, LockExclusive
<1>14. TerminateResult'
  BY <1>1, <1>2, <1>3, <1>4, <1>6 DEF IInv, SlotBecomes, SubBecomes, HasResult,
     TerminateResult
<1>15. StepKnows'
  BY <1>1, <1>2, <1>3, <1>4, <1>6 DEF IInv, SlotBecomes, SubBecomes, Holding, Live,
     LoadsActive, StepKnows, HolderHasConnection, TerminateResult, ConnKnown, IdleClean,
     IdleProc, HoldsNothing
<1>16. EndedHoldsNothing'
  BY <1>1, <1>2, <1>3, <1>4 DEF IInv, SubBecomes, Live, EndedHoldsNothing, HoldsNothing
<1>17. IdleClean'
  BY <1>1, <1>2, <1>3, <1>4 DEF IInv, SlotBecomes, Unfinished, IdleClean
<1>18. FormsKnown' /\ LostByOverride'
  <2>1. FormsKnown'
    BY <1>1, <1>2, <1>3, <1>4 DEF IInv, SubBecomes, FormsKnown
  <2>2. LostByOverride'
    BY <1>1, <1>2, <1>3, <1>4, <1>6 DEF IInv, SlotBecomes, SubBecomes, Live, HoldsNothing, LostByOverride
  <2>3. QED
    BY <2>1, <2>2
<1>19. QED
  BY <1>5, <1>7, <1>8, <1>9, <1>10, <1>11, <1>12, <1>13, <1>14, <1>15, <1>16, <1>17, <1>18 DEF IInv

\* The new reservation id is fresh, and nothing is held under the old one.
LEMMA UpdateSubscriptionPreserves ==
  ASSUME IInv, NEW p \in Procs, UpdateSubscription(p)
  PROVE  IInv'
<1>1. proc[p].run = "running" /\ proc[p].step = "update" /\ sub.gid + 1 \in 0..MaxReservations /\ sub.state # "TERMINATED"
  BY ReservationsAssumption DEF IInv, UpdateSubscription, At, TypeOK, SubType, Allowed,
     Transition
<1>2. ProcType' /\ SlotBecomes(p, proc[p].wf, "reserve", "running", proc[p].callback, "none")
  BY <1>1, AdvanceEffect DEF IInv, TypeOK, UpdateSubscription, Step
<1>3. SubBecomes(sub.status, sub.insync, "CREATED", sub.conn, sub.gid + 1)
  BY DEF SubBecomes, IInv, TypeOK, SubType, UpdateSubscription, Transition, Apply,
     ConnectionState
<1>4. /\ callbacks' = callbacks /\ forms' = forms /\ agg' = agg /\ posted' = posted
      /\ drifted' = drifted /\ drifted \in BOOLEAN
  BY DEF IInv, TypeOK, CounterType, aggVars, UpdateSubscription, Transition, Apply,
     ConnectionState
<1>5. TypeOK'
  BY <1>1, <1>2, <1>3, <1>4, ReservationsAssumption DEF IInv, TypeOK, SubType,
     CounterType, AggType, PostedType, ConnectionState, Lifecycle, StableStatus, NoConn,
     UpdateSubscription, Transition, Apply
<1>6. \A q \in Procs : q # p => proc[q].step \in {"none", "lock"}
  BY <1>1, OthersBlocked DEF Holding, Unfinished
<1>7. LockExclusive'
  BY <1>1, <1>2, <1>3, <1>4, <1>6 DEF IInv, SlotBecomes, SubBecomes, Unfinished,
     Holding, LockExclusive
<1>8. Unborn'
  BY <1>1, <1>2, <1>3, <1>4, <1>6 DEF IInv, SlotBecomes, SubBecomes, Unfinished, Unborn
<1>9. FreshIds'
  BY <1>1, <1>2, <1>3, <1>4 DEF IInv, SubBecomes, FreshIds, SubType, ReservationId,
     TypeOK
<1>10. ConnKnown'
  BY <1>1, <1>2, <1>3, <1>4 DEF IInv, SubBecomes, ConnKnown, StepKnows
<1>11. RoutesHandedOut'
  BY <1>1, <1>2, <1>3, <1>4, <1>6 DEF IInv, SlotBecomes, RoutesHandedOut
<1>12. WorkflowShape'
  BY <1>1, <1>2, <1>3, <1>4 DEF IInv, SlotBecomes, Unfinished, WorkflowShape
<1>13. HolderHasConnection'
  BY <1>1, <1>2, <1>3, <1>4, <1>6 DEF IInv, SlotBecomes, SubBecomes, Unfinished,
     Holding, HasResult, LoadsActive, HolderHasConnection
<1>14. TerminateResult'
  BY <1>1, <1>2, <1>3, <1>4, <1>6 DEF IInv, SlotBecomes, SubBecomes, HasResult,
     TerminateResult
<1>15. StepKnows'
  BY <1>1, <1>2, <1>3, <1>4, <1>6 DEF IInv, SlotBecomes, SubBecomes, Live, StepKnows
<1>16. EndedHoldsNothing'
  BY <1>1, <1>2, <1>3, <1>4 DEF IInv, SubBecomes, Live, EndedHoldsNothing, HoldsNothing
<1>17. IdleClean'
  BY <1>1, <1>2, <1>3, <1>4 DEF IInv, SlotBecomes, Unfinished, IdleClean
<1>18. FormsKnown' /\ LostByOverride'
  <2>1. FormsKnown'
    BY <1>1, <1>2, <1>3, <1>4 DEF IInv, SubBecomes, FormsKnown
  <2>2. LostByOverride'
    BY <1>1, <1>2, <1>3, <1>4, <1>6 DEF IInv, SlotBecomes, SubBecomes, Live, HoldsNothing, LostByOverride
  <2>3. QED
    BY <2>1, <2>2
<1>19. QED
  BY <1>5, <1>7, <1>8, <1>9, <1>10, <1>11, <1>12, <1>13, <1>14, <1>15, <1>16, <1>17, <1>18 DEF IInv

\* Modify writes labels only; neither lock, id nor reservation changes.
LEMMA UpdateLabelPreserves ==
  ASSUME IInv, NEW p \in Procs, UpdateLabel(p)
  PROVE  IInv'
<1>1. proc[p].run = "running" /\ proc[p].step = "relabel" /\ sub.conn # NoConn
  BY DEF IInv, UpdateLabel, At, LoadsActive
<1>2. ProcType' /\ SlotBecomes(p, proc[p].wf, "activate", "running", proc[p].callback, "none")
  BY <1>1, AdvanceEffect DEF IInv, TypeOK, UpdateLabel, Step
<1>3. SubBecomes(sub.status, sub.insync, sub.state, sub.conn, sub.gid)
  BY DEF SubBecomes, IInv, TypeOK, SubType, UpdateLabel
<1>4. /\ callbacks' = callbacks /\ forms' = forms /\ agg' = agg /\ posted' = posted
      /\ drifted' = drifted /\ drifted \in BOOLEAN
  BY DEF IInv, TypeOK, CounterType, aggVars, UpdateLabel
<1>5. TypeOK'
  BY <1>1, <1>2, <1>3, <1>4 DEF IInv, TypeOK, SubType, CounterType, AggType, PostedType,
     ConnectionState, Lifecycle, ErrorSource, StableStatus, NoConn, UpdateLabel
<1>6. \A q \in Procs : q # p => proc[q].step \in {"none", "lock"}
  BY <1>1, OthersBlocked DEF Holding, Unfinished
<1>7. LockExclusive'
  BY <1>1, <1>2, <1>3, <1>4, <1>6 DEF IInv, SlotBecomes, SubBecomes, Unfinished,
     Holding, LockExclusive
<1>8. Unborn'
  BY <1>1, <1>2, <1>3, <1>4, <1>6 DEF IInv, SlotBecomes, SubBecomes, Unfinished, Unborn
<1>9. FreshIds'
  BY <1>1, <1>2, <1>3, <1>4 DEF IInv, SubBecomes, FreshIds
<1>10. ConnKnown'
  BY <1>1, <1>2, <1>3, <1>4 DEF IInv, SubBecomes, ConnKnown
<1>11. RoutesHandedOut'
  BY <1>1, <1>2, <1>3, <1>4, <1>6 DEF IInv, SlotBecomes, RoutesHandedOut
<1>12. WorkflowShape'
  BY <1>1, <1>2, <1>3, <1>4 DEF IInv, SlotBecomes, Unfinished, WorkflowShape
<1>13. HolderHasConnection'
  BY <1>1, <1>2, <1>3, <1>4, <1>6 DEF IInv, SlotBecomes, SubBecomes, Unfinished,
     Holding, HasResult, LoadsActive, HolderHasConnection
<1>14. TerminateResult'
  BY <1>1, <1>2, <1>3, <1>4, <1>6 DEF IInv, SlotBecomes, SubBecomes, HasResult,
     TerminateResult
<1>15. StepKnows'
  BY <1>1, <1>2, <1>3, <1>4, <1>6 DEF IInv, SlotBecomes, SubBecomes, Live, StepKnows
<1>16. EndedHoldsNothing'
  BY <1>1, <1>2, <1>3, <1>4 DEF IInv, SubBecomes, Live, EndedHoldsNothing, HoldsNothing
<1>17. IdleClean'
  BY <1>1, <1>2, <1>3, <1>4 DEF IInv, SlotBecomes, Unfinished, IdleClean
<1>18. FormsKnown' /\ LostByOverride'
  <2>1. FormsKnown'
    BY <1>1, <1>2, <1>3, <1>4 DEF IInv, SubBecomes, FormsKnown
  <2>2. LostByOverride'
    BY <1>1, <1>2, <1>3, <1>4 DEF IInv, SlotBecomes, SubBecomes, Live, HoldsNothing, LostByOverride
  <2>3. QED
    BY <2>1, <2>2
<1>19. QED
  BY <1>5, <1>7, <1>8, <1>9, <1>10, <1>11, <1>12, <1>13, <1>14, <1>15, <1>16, <1>17, <1>18 DEF IInv

\* set_status(ACTIVE) happens under the lock and never on a closed subscription.
LEMMA SetStatusActivePreserves ==
  ASSUME IInv, NEW p \in Procs, SetStatusActive(p)
  PROVE  IInv'
<1>1. proc[p].run = "running" /\ proc[p].step = "activate"
  BY DEF IInv, SetStatusActive, At
<1>2. ProcType' /\ SlotBecomes(p, proc[p].wf, "resync", "running", proc[p].callback, "none")
  BY <1>1, AdvanceEffect DEF IInv, TypeOK, SetStatusActive, Step
<1>3. SubBecomes("ACTIVE", sub.insync, sub.state, sub.conn, sub.gid)
  BY DEF SubBecomes, IInv, TypeOK, SubType, SetStatusActive
<1>4. /\ callbacks' = callbacks /\ forms' = forms /\ agg' = agg /\ posted' = posted
      /\ drifted' = drifted /\ drifted \in BOOLEAN
  BY DEF IInv, TypeOK, CounterType, aggVars, SetStatusActive
<1>5. TypeOK'
  BY <1>1, <1>2, <1>3, <1>4 DEF IInv, TypeOK, SubType, CounterType, AggType, PostedType,
     ConnectionState, Lifecycle, ErrorSource, StableStatus, NoConn, SetStatusActive
<1>6. \A q \in Procs : q # p => proc[q].step \in {"none", "lock"}
  BY <1>1, OthersBlocked DEF Holding, Unfinished
<1>7. LockExclusive'
  BY <1>1, <1>2, <1>3, <1>4, <1>6 DEF IInv, SlotBecomes, SubBecomes, Unfinished,
     Holding, LockExclusive
<1>8. Unborn'
  BY <1>1, <1>2, <1>3, <1>4, <1>6 DEF IInv, SlotBecomes, SubBecomes, Unfinished, Unborn
<1>9. FreshIds'
  BY <1>1, <1>2, <1>3, <1>4 DEF IInv, SubBecomes, FreshIds
<1>10. ConnKnown'
  BY <1>1, <1>2, <1>3, <1>4 DEF IInv, SubBecomes, ConnKnown
<1>11. RoutesHandedOut'
  BY <1>1, <1>2, <1>3, <1>4, <1>6 DEF IInv, SlotBecomes, RoutesHandedOut
<1>12. WorkflowShape'
  BY <1>1, <1>2, <1>3, <1>4 DEF IInv, SlotBecomes, Unfinished, WorkflowShape
<1>13. HolderHasConnection'
  BY <1>1, <1>2, <1>3, <1>4, <1>6 DEF IInv, SlotBecomes, SubBecomes, Unfinished,
     Holding, HasResult, LoadsActive, HolderHasConnection
<1>14. TerminateResult'
  BY <1>1, <1>2, <1>3, <1>4, <1>6 DEF IInv, SlotBecomes, SubBecomes, HasResult,
     TerminateResult
<1>15. StepKnows'
  BY <1>1, <1>2, <1>3, <1>4, <1>6 DEF IInv, SlotBecomes, SubBecomes, Live, StepKnows
<1>16. EndedHoldsNothing'
  BY <1>1, <1>2, <1>3, <1>4 DEF IInv, SubBecomes, Live, EndedHoldsNothing, HoldsNothing
<1>17. IdleClean'
  BY <1>1, <1>2, <1>3, <1>4 DEF IInv, SlotBecomes, Unfinished, IdleClean
<1>18. FormsKnown' /\ LostByOverride'
  <2>1. FormsKnown'
    BY <1>1, <1>2, <1>3, <1>4 DEF IInv, SubBecomes, FormsKnown
  <2>2. LostByOverride'
    BY <1>1, <1>2, <1>3, <1>4 DEF IInv, SlotBecomes, SubBecomes, Live, HoldsNothing, LostByOverride
  <2>3. QED
    BY <2>1, <2>2
<1>19. QED
  BY <1>5, <1>7, <1>8, <1>9, <1>10, <1>11, <1>12, <1>13, <1>14, <1>15, <1>16, <1>17, <1>18 DEF IInv

\* The subscription is closed only after its circuit has ended, so nothing is held.
LEMMA SetStatusTerminatedPreserves ==
  ASSUME IInv, NEW p \in Procs, SetStatusTerminated(p)
  PROVE  IInv'
<1>1. proc[p].run = "running" /\ proc[p].step = "close"
  BY DEF IInv, SetStatusTerminated, At
<1>2. ProcType' /\ SlotBecomes(p, proc[p].wf, "resync", "running", proc[p].callback, "none")
  BY <1>1, AdvanceEffect DEF IInv, TypeOK, SetStatusTerminated, Step
<1>3. SubBecomes("TERMINATED", sub.insync, sub.state, sub.conn, sub.gid)
  BY DEF SubBecomes, IInv, TypeOK, SubType, SetStatusTerminated
<1>4. /\ callbacks' = callbacks /\ forms' = forms /\ agg' = agg /\ posted' = posted
      /\ drifted' = drifted /\ drifted \in BOOLEAN
  BY DEF IInv, TypeOK, CounterType, aggVars, SetStatusTerminated
<1>5. TypeOK'
  BY <1>1, <1>2, <1>3, <1>4 DEF IInv, TypeOK, SubType, CounterType, AggType, PostedType,
     ConnectionState, Lifecycle, ErrorSource, StableStatus, NoConn, SetStatusTerminated
<1>6. \A q \in Procs : q # p => proc[q].step \in {"none", "lock"}
  BY <1>1, OthersBlocked DEF Holding, Unfinished
<1>7. LockExclusive'
  BY <1>1, <1>2, <1>3, <1>4, <1>6 DEF IInv, SlotBecomes, SubBecomes, Unfinished,
     Holding, LockExclusive
<1>8. Unborn'
  BY <1>1, <1>2, <1>3, <1>4, <1>6 DEF IInv, SlotBecomes, SubBecomes, Unfinished, Unborn
<1>9. FreshIds'
  BY <1>1, <1>2, <1>3, <1>4 DEF IInv, SubBecomes, FreshIds
<1>10. ConnKnown'
  BY <1>1, <1>2, <1>3, <1>4 DEF IInv, SubBecomes, ConnKnown
<1>11. RoutesHandedOut'
  BY <1>1, <1>2, <1>3, <1>4, <1>6 DEF IInv, SlotBecomes, RoutesHandedOut
<1>12. WorkflowShape'
  BY <1>1, <1>2, <1>3, <1>4 DEF IInv, SlotBecomes, Unfinished, WorkflowShape
<1>13. HolderHasConnection'
  BY <1>1, <1>2, <1>3, <1>4, <1>6 DEF IInv, SlotBecomes, SubBecomes, Unfinished,
     Holding, HasResult, LoadsActive, HolderHasConnection
<1>14. TerminateResult'
  BY <1>1, <1>2, <1>3, <1>4, <1>6 DEF IInv, SlotBecomes, SubBecomes, HasResult,
     TerminateResult
<1>15. StepKnows'
  BY <1>1, <1>2, <1>3, <1>4, <1>6 DEF IInv, SlotBecomes, SubBecomes, Live, StepKnows
<1>16. EndedHoldsNothing'
  BY <1>1, <1>2, <1>3, <1>4 DEF IInv, SubBecomes, Live, HoldsNothing, EndedHoldsNothing, StepKnows
<1>17. IdleClean'
  BY <1>1, <1>2, <1>3, <1>4 DEF IInv, SlotBecomes, Unfinished, IdleClean
<1>18. FormsKnown' /\ LostByOverride'
  <2>1. FormsKnown'
    BY <1>1, <1>2, <1>3, <1>4 DEF IInv, SubBecomes, FormsKnown
  <2>2. LostByOverride'
    BY <1>1, <1>2, <1>3, <1>4 DEF IInv, SlotBecomes, SubBecomes, Live, HoldsNothing, LostByOverride
  <2>3. QED
    BY <2>1, <2>2
<1>19. QED
  BY <1>5, <1>7, <1>8, <1>9, <1>10, <1>11, <1>12, <1>13, <1>14, <1>15, <1>16, <1>17, <1>18 DEF IInv

\* Reconcile copies a state the aggregator has; TERMINATED means that nothing is held.
LEMMA ReconcileConnectionStatePreserves ==
  ASSUME IInv, NEW p \in Procs, ReconcileConnectionState(p)
  PROVE  IInv'
<1>1. proc[p].run = "running" /\ proc[p].step = "reconcile" /\ sub.conn # NoConn
  BY DEF IInv, ReconcileConnectionState, At, LoadsActive
<1>2. ProcType' /\ SlotBecomes(p, proc[p].wf, "resync", "running", proc[p].callback, "none")
  BY <1>1, AdvanceEffect DEF IInv, TypeOK, ReconcileConnectionState, Step
<1>3. /\ SubBecomes(sub.status, sub.insync, sub'.state, sub.conn, sub.gid)
      /\ (sub'.state = sub.state \/ (sub'.state = agg[sub.conn].status /\ agg[sub.conn].status \in StableStatus))
  <2>1. CASE agg[sub.conn].status \in StableStatus
    BY <2>1 DEF ReconcileConnectionState, SubBecomes, IInv, TypeOK, SubType
  <2>2. CASE agg[sub.conn].status \notin StableStatus
    <3>1. sub' = sub
      BY <2>2, Zenon DEF ReconcileConnectionState
    <3>2. QED
      BY <3>1 DEF SubBecomes
  <2>3. QED
    BY <2>1, <2>2
<1>4. /\ callbacks' = callbacks /\ forms' = forms /\ agg' = agg /\ posted' = posted
      /\ drifted' \in BOOLEAN
  BY DEF IInv, TypeOK, CounterType, aggVars, ReconcileConnectionState
<1>5. TypeOK'
  BY <1>1, <1>2, <1>3, <1>4 DEF IInv, TypeOK, SubType, CounterType, AggType, PostedType,
     ConnectionState, Lifecycle, ErrorSource, StableStatus, NoConn, ReconcileConnectionState
<1>6. \A q \in Procs : q # p => proc[q].step \in {"none", "lock"}
  BY <1>1, OthersBlocked DEF Holding, Unfinished
<1>7. LockExclusive'
  BY <1>1, <1>2, <1>3, <1>4, <1>6 DEF IInv, SlotBecomes, SubBecomes, Unfinished,
     Holding, LockExclusive
<1>8. Unborn'
  BY <1>1, <1>2, <1>3, <1>4, <1>6 DEF IInv, SlotBecomes, SubBecomes, Unfinished, Unborn
<1>9. FreshIds'
  BY <1>1, <1>2, <1>3, <1>4 DEF IInv, SubBecomes, FreshIds
<1>10. ConnKnown'
  BY <1>1, <1>2, <1>3, <1>4 DEF IInv, SubBecomes, ConnKnown
<1>11. RoutesHandedOut'
  BY <1>1, <1>2, <1>3, <1>4, <1>6 DEF IInv, SlotBecomes, RoutesHandedOut
<1>12. WorkflowShape'
  BY <1>1, <1>2, <1>3, <1>4 DEF IInv, SlotBecomes, Unfinished, WorkflowShape
<1>13. HolderHasConnection'
  BY <1>1, <1>2, <1>3, <1>4, <1>6 DEF IInv, SlotBecomes, SubBecomes, Unfinished,
     Holding, HasResult, LoadsActive, HolderHasConnection
<1>14. TerminateResult'
  BY <1>1, <1>2, <1>3, <1>4, <1>6 DEF IInv, SlotBecomes, SubBecomes, HasResult,
     TerminateResult
<1>15. StepKnows'
  BY <1>1, <1>2, <1>3, <1>4, <1>6 DEF IInv, SlotBecomes, SubBecomes, Live, StepKnows
<1>16. EndedHoldsNothing'
  BY <1>1, <1>2, <1>3, <1>4 DEF IInv, SubBecomes, NoConn, Live, EndedHoldsNothing, HoldsNothing,
     ConnKnown, HoldsNothing, ReservationId, TypeOK, SubType
<1>17. IdleClean'
  BY <1>1, <1>2, <1>3, <1>4 DEF IInv, SlotBecomes, Unfinished, IdleClean
<1>18. FormsKnown' /\ LostByOverride'
  <2>1. FormsKnown'
    BY <1>1, <1>2, <1>3, <1>4 DEF IInv, SubBecomes, FormsKnown
  <2>2. LostByOverride'
    BY <1>1, <1>2, <1>3, <1>4 DEF IInv, SlotBecomes, SubBecomes, Live, HoldsNothing, LostByOverride
  <2>3. QED
    BY <2>1, <2>2
<1>19. QED
  BY <1>5, <1>7, <1>8, <1>9, <1>10, <1>11, <1>12, <1>13, <1>14, <1>15, <1>16, <1>17, <1>18 DEF IInv

\* The drift check reads; it moves its own process on or fails it.
LEMMA ValidateReservationPreserves ==
  ASSUME IInv, NEW p \in Procs, ValidateReservation(p)
  PROVE  IInv'
<1>1. proc[p].run = "running" /\ proc[p].step = "validate" /\ sub.conn # NoConn
  BY DEF IInv, ValidateReservation, At, LoadsActive
<1>2. ProcType' /\ SlotBecomes(p, proc[p].wf, "resync", "running", proc[p].callback, "none")
  BY <1>1, AdvanceEffect DEF IInv, TypeOK, ValidateReservation, Step
<1>3. SubBecomes(sub.status, sub.insync, sub.state, sub.conn, sub.gid)
  BY DEF SubBecomes, IInv, TypeOK, SubType, ValidateReservation
<1>4. /\ callbacks' = callbacks /\ forms' = forms /\ agg' = agg /\ posted' = posted
      /\ drifted' = drifted /\ drifted \in BOOLEAN
  BY DEF IInv, TypeOK, CounterType, aggVars, ValidateReservation
<1>5. TypeOK'
  BY <1>1, <1>2, <1>3, <1>4 DEF IInv, TypeOK, SubType, CounterType, AggType, PostedType,
     ConnectionState, Lifecycle, ErrorSource, StableStatus, NoConn, ValidateReservation
<1>6. \A q \in Procs : q # p => proc[q].step \in {"none", "lock"}
  BY <1>1, OthersBlocked DEF Holding, Unfinished
<1>7. LockExclusive'
  BY <1>1, <1>2, <1>3, <1>4, <1>6 DEF IInv, SlotBecomes, SubBecomes, Unfinished,
     Holding, LockExclusive
<1>8. Unborn'
  BY <1>1, <1>2, <1>3, <1>4, <1>6 DEF IInv, SlotBecomes, SubBecomes, Unfinished, Unborn
<1>9. FreshIds'
  BY <1>1, <1>2, <1>3, <1>4 DEF IInv, SubBecomes, FreshIds
<1>10. ConnKnown'
  BY <1>1, <1>2, <1>3, <1>4 DEF IInv, SubBecomes, ConnKnown
<1>11. RoutesHandedOut'
  BY <1>1, <1>2, <1>3, <1>4, <1>6 DEF IInv, SlotBecomes, RoutesHandedOut
<1>12. WorkflowShape'
  BY <1>1, <1>2, <1>3, <1>4 DEF IInv, SlotBecomes, Unfinished, WorkflowShape
<1>13. HolderHasConnection'
  BY <1>1, <1>2, <1>3, <1>4, <1>6 DEF IInv, SlotBecomes, SubBecomes, Unfinished,
     Holding, HasResult, LoadsActive, HolderHasConnection
<1>14. TerminateResult'
  BY <1>1, <1>2, <1>3, <1>4, <1>6 DEF IInv, SlotBecomes, SubBecomes, HasResult,
     TerminateResult
<1>15. StepKnows'
  BY <1>1, <1>2, <1>3, <1>4, <1>6 DEF IInv, SlotBecomes, SubBecomes, Live, StepKnows
<1>16. EndedHoldsNothing'
  BY <1>1, <1>2, <1>3, <1>4 DEF IInv, SubBecomes, Live, EndedHoldsNothing, HoldsNothing
<1>17. IdleClean'
  BY <1>1, <1>2, <1>3, <1>4 DEF IInv, SlotBecomes, Unfinished, IdleClean
<1>18. FormsKnown' /\ LostByOverride'
  <2>1. FormsKnown'
    BY <1>1, <1>2, <1>3, <1>4 DEF IInv, SubBecomes, FormsKnown
  <2>2. LostByOverride'
    BY <1>1, <1>2, <1>3, <1>4 DEF IInv, SlotBecomes, SubBecomes, Live, HoldsNothing, LostByOverride
  <2>3. QED
    BY <2>1, <2>2
<1>19. QED
  BY <1>5, <1>7, <1>8, <1>9, <1>10, <1>11, <1>12, <1>13, <1>14, <1>15, <1>16, <1>17, <1>18 DEF IInv

\* The holder leaves a connection id behind when it releases the lock.
LEMMA ResyncPreserves ==
  ASSUME IInv, NEW p \in Procs, Resync(p)
  PROVE  IInv'
<1>1. proc[p].run = "running" /\ proc[p].step = "resync"
  BY DEF IInv, Resync, At
<1>2. ProcType' /\ SlotBecomes(p, "none", "none", "idle", 0, "none") /\ proc'[p] = IdleProc
  BY <1>1, FinishEffect DEF IInv, TypeOK, Resync
<1>3. SubBecomes(sub.status, TRUE, sub.state, sub.conn, sub.gid)
  BY DEF SubBecomes, IInv, TypeOK, SubType, Resync
<1>4. /\ callbacks' = callbacks /\ forms' = forms /\ agg' = agg /\ posted' = posted
      /\ drifted' = drifted /\ drifted \in BOOLEAN
  BY DEF IInv, TypeOK, CounterType, aggVars, Resync
<1>5. TypeOK'
  BY <1>1, <1>2, <1>3, <1>4 DEF IInv, TypeOK, SubType, CounterType, AggType, PostedType,
     ConnectionState, Lifecycle, ErrorSource, StableStatus, NoConn, Resync
<1>6. \A q \in Procs : q # p => proc[q].step \in {"none", "lock"}
  BY <1>1, OthersBlocked DEF Holding, Unfinished
<1>7. LockExclusive'
  BY <1>1, <1>2, <1>3, <1>4, <1>6 DEF IInv, SlotBecomes, SubBecomes, Unfinished,
     Holding, LockExclusive
<1>8. Unborn'
  BY <1>1, <1>2, <1>3, <1>4, <1>6 DEF IInv, SlotBecomes, SubBecomes, Unfinished, Unborn
<1>9. FreshIds'
  BY <1>1, <1>2, <1>3, <1>4 DEF IInv, SubBecomes, FreshIds
<1>10. ConnKnown'
  BY <1>1, <1>2, <1>3, <1>4 DEF IInv, SubBecomes, ConnKnown
<1>11. RoutesHandedOut'
  BY <1>1, <1>2, <1>3, <1>4, <1>6 DEF IInv, SlotBecomes, RoutesHandedOut, TypeOK,
     CounterType
<1>12. WorkflowShape'
  BY <1>1, <1>2, <1>3, <1>4 DEF IInv, SlotBecomes, Unfinished, WorkflowShape
<1>13. HolderHasConnection'
  BY <1>1, <1>2, <1>3, <1>4, <1>6 DEF IInv, SlotBecomes, SubBecomes, Unfinished,
     Holding, HasResult, LoadsActive, HolderHasConnection
<1>14. TerminateResult'
  BY <1>1, <1>2, <1>3, <1>4, <1>6 DEF IInv, SlotBecomes, SubBecomes, HasResult,
     TerminateResult
<1>15. StepKnows'
  BY <1>1, <1>2, <1>3, <1>4, <1>6 DEF IInv, SlotBecomes, SubBecomes, Live, StepKnows
<1>16. EndedHoldsNothing'
  BY <1>1, <1>2, <1>3, <1>4 DEF IInv, SubBecomes, Live, EndedHoldsNothing, HoldsNothing
<1>17. IdleClean'
  BY <1>1, <1>2, <1>3, <1>4 DEF IInv, SlotBecomes, Unfinished, IdleClean
<1>18. FormsKnown' /\ LostByOverride'
  <2>1. FormsKnown'
    BY <1>1, <1>2, <1>3, <1>4 DEF IInv, SubBecomes, FormsKnown
  <2>2. LostByOverride'
    <3>1. sub.conn # NoConn
      BY <1>1 DEF IInv, HolderHasConnection, Holding, Unfinished, LoadsActive
    <3>2. QED
      BY <1>3, <3>1 DEF SubBecomes, LostByOverride
  <2>3. QED
    BY <2>1, <2>2
<1>19. QED
  BY <1>5, <1>7, <1>8, <1>9, <1>10, <1>11, <1>12, <1>13, <1>14, <1>15, <1>16, <1>17, <1>18 DEF IInv

\* A failing step leaves the lock with its process.
LEMMA StepFailsPreserves ==
  ASSUME IInv, NEW p \in Procs, StepFails(p)
  PROVE  IInv'
<1>1. proc[p].run = "running"
  BY DEF IInv, StepFails
<1>2. ProcType' /\ SlotBecomes(p, proc[p].wf, proc[p].step, "failed", 0, "none")
  BY <1>1, FailEffect DEF IInv, TypeOK, StepFails
<1>3. SubBecomes(sub.status, sub.insync, sub.state, sub.conn, sub.gid)
  BY DEF SubBecomes, IInv, TypeOK, SubType, StepFails
<1>4. /\ callbacks' = callbacks /\ forms' = forms /\ agg' = agg /\ posted' = posted
      /\ drifted' = drifted /\ drifted \in BOOLEAN
  BY DEF IInv, TypeOK, CounterType, aggVars, StepFails
<1>5. TypeOK'
  BY <1>1, <1>2, <1>3, <1>4 DEF IInv, TypeOK, SubType, CounterType, AggType, PostedType,
     ConnectionState, Lifecycle, ErrorSource, StableStatus, NoConn, StepFails
<1>6. LockExclusive'
  BY <1>1, <1>2, <1>3, <1>4 DEF IInv, SlotBecomes, SubBecomes, Unfinished, Holding,
     LockExclusive
<1>7. Unborn'
  BY <1>1, <1>2, <1>3, <1>4 DEF IInv, SlotBecomes, SubBecomes, Unfinished, Unborn
<1>8. FreshIds'
  BY <1>1, <1>2, <1>3, <1>4 DEF IInv, SubBecomes, FreshIds
<1>9. ConnKnown'
  BY <1>1, <1>2, <1>3, <1>4 DEF IInv, SubBecomes, ConnKnown
<1>10. RoutesHandedOut'
  BY <1>1, <1>2, <1>3, <1>4 DEF IInv, SlotBecomes, RoutesHandedOut, TypeOK, CounterType
<1>11. WorkflowShape'
  BY <1>1, <1>2, <1>3, <1>4 DEF IInv, SlotBecomes, Unfinished, WorkflowShape
<1>12. HolderHasConnection'
  BY <1>1, <1>2, <1>3, <1>4 DEF IInv, SlotBecomes, SubBecomes, Unfinished, Holding,
     HasResult, LoadsActive, HolderHasConnection
<1>13. TerminateResult'
  BY <1>1, <1>2, <1>3, <1>4 DEF IInv, SlotBecomes, SubBecomes, HasResult,
     TerminateResult
<1>14. StepKnows'
  BY <1>1, <1>2, <1>3, <1>4 DEF IInv, SlotBecomes, SubBecomes, Live, StepKnows
<1>15. EndedHoldsNothing'
  BY <1>1, <1>2, <1>3, <1>4 DEF IInv, SubBecomes, Live, EndedHoldsNothing, HoldsNothing
<1>16. IdleClean'
  BY <1>1, <1>2, <1>3, <1>4 DEF IInv, SlotBecomes, Unfinished, IdleClean
<1>17. FormsKnown' /\ LostByOverride'
  <2>1. FormsKnown'
    BY <1>1, <1>2, <1>3, <1>4 DEF IInv, SubBecomes, FormsKnown
  <2>2. LostByOverride'
    BY <1>1, <1>2, <1>3, <1>4 DEF IInv, SlotBecomes, SubBecomes, Live, HoldsNothing, LostByOverride
  <2>3. QED
    BY <2>1, <2>2
<1>18. QED
  BY <1>5, <1>6, <1>7, <1>8, <1>9, <1>10, <1>11, <1>12, <1>13, <1>14, <1>15, <1>16, <1>17 DEF IInv

\* A callback that never comes fails the process and keeps the lock.
LEMMA TimeoutPreserves ==
  ASSUME IInv, NEW p \in Procs, Timeout(p)
  PROVE  IInv'
<1>1. proc[p].run = "awaiting"
  BY DEF IInv, Timeout
<1>2. ProcType' /\ SlotBecomes(p, proc[p].wf, proc[p].step, "failed", 0, "none")
  BY <1>1, FailEffect DEF IInv, TypeOK, Timeout
<1>3. SubBecomes(sub.status, sub.insync, sub.state, sub.conn, sub.gid)
  BY DEF SubBecomes, IInv, TypeOK, SubType, Timeout
<1>4. /\ callbacks' = callbacks /\ forms' = forms /\ agg' = agg /\ posted' = posted
      /\ drifted' = drifted /\ drifted \in BOOLEAN
  BY DEF IInv, TypeOK, CounterType, aggVars, Timeout
<1>5. TypeOK'
  BY <1>1, <1>2, <1>3, <1>4 DEF IInv, TypeOK, SubType, CounterType, AggType, PostedType,
     ConnectionState, Lifecycle, ErrorSource, StableStatus, NoConn, Timeout
<1>6. LockExclusive'
  BY <1>1, <1>2, <1>3, <1>4 DEF IInv, SlotBecomes, SubBecomes, Unfinished, Holding,
     LockExclusive
<1>7. Unborn'
  BY <1>1, <1>2, <1>3, <1>4 DEF IInv, SlotBecomes, SubBecomes, Unfinished, Unborn
<1>8. FreshIds'
  BY <1>1, <1>2, <1>3, <1>4 DEF IInv, SubBecomes, FreshIds
<1>9. ConnKnown'
  BY <1>1, <1>2, <1>3, <1>4 DEF IInv, SubBecomes, ConnKnown
<1>10. RoutesHandedOut'
  BY <1>1, <1>2, <1>3, <1>4 DEF IInv, SlotBecomes, RoutesHandedOut, TypeOK, CounterType
<1>11. WorkflowShape'
  BY <1>1, <1>2, <1>3, <1>4 DEF IInv, SlotBecomes, Unfinished, WorkflowShape
<1>12. HolderHasConnection'
  BY <1>1, <1>2, <1>3, <1>4 DEF IInv, SlotBecomes, SubBecomes, Unfinished, Holding,
     HasResult, LoadsActive, HolderHasConnection
<1>13. TerminateResult'
  BY <1>1, <1>2, <1>3, <1>4 DEF IInv, SlotBecomes, SubBecomes, HasResult,
     TerminateResult
<1>14. StepKnows'
  BY <1>1, <1>2, <1>3, <1>4 DEF IInv, SlotBecomes, SubBecomes, Live, StepKnows
<1>15. EndedHoldsNothing'
  BY <1>1, <1>2, <1>3, <1>4 DEF IInv, SubBecomes, Live, EndedHoldsNothing, HoldsNothing
<1>16. IdleClean'
  BY <1>1, <1>2, <1>3, <1>4 DEF IInv, SlotBecomes, Unfinished, IdleClean
<1>17. FormsKnown' /\ LostByOverride'
  <2>1. FormsKnown'
    BY <1>1, <1>2, <1>3, <1>4 DEF IInv, SubBecomes, FormsKnown
  <2>2. LostByOverride'
    BY <1>1, <1>2, <1>3, <1>4 DEF IInv, SlotBecomes, SubBecomes, Live, HoldsNothing, LostByOverride
  <2>3. QED
    BY <2>1, <2>2
<1>18. QED
  BY <1>5, <1>6, <1>7, <1>8, <1>9, <1>10, <1>11, <1>12, <1>13, <1>14, <1>15, <1>16, <1>17 DEF IInv

\* A resumed process still holds what it held when it failed.
LEMMA RetryPreserves ==
  ASSUME IInv, NEW p \in Procs, Retry(p)
  PROVE  IInv'
<1>1. proc[p].run = "failed"
  BY DEF IInv, Retry
<1>2. ProcType' /\ SlotBecomes(p, proc[p].wf, proc[p].step, "running", proc[p].callback, proc[p].result)
  BY <1>1, RetryEffect DEF IInv, TypeOK, Retry
<1>3. SubBecomes(sub.status, sub.insync, sub.state, sub.conn, sub.gid)
  BY DEF SubBecomes, IInv, TypeOK, SubType, Retry
<1>4. /\ callbacks' = callbacks /\ forms' = forms /\ agg' = agg /\ posted' = posted
      /\ drifted' = drifted /\ drifted \in BOOLEAN
  BY DEF IInv, TypeOK, CounterType, aggVars, Retry
<1>5. TypeOK'
  BY <1>1, <1>2, <1>3, <1>4 DEF IInv, TypeOK, SubType, CounterType, AggType, PostedType,
     ConnectionState, Lifecycle, ErrorSource, StableStatus, NoConn, Retry
<1>6. LockExclusive'
  BY <1>1, <1>2, <1>3, <1>4 DEF IInv, SlotBecomes, SubBecomes, Unfinished, Holding,
     LockExclusive
<1>7. Unborn'
  BY <1>1, <1>2, <1>3, <1>4 DEF IInv, SlotBecomes, SubBecomes, Unfinished, Unborn
<1>8. FreshIds'
  BY <1>1, <1>2, <1>3, <1>4 DEF IInv, SubBecomes, FreshIds
<1>9. ConnKnown'
  BY <1>1, <1>2, <1>3, <1>4 DEF IInv, SubBecomes, ConnKnown
<1>10. RoutesHandedOut'
  BY <1>1, <1>2, <1>3, <1>4 DEF IInv, SlotBecomes, RoutesHandedOut
<1>11. WorkflowShape'
  BY <1>1, <1>2, <1>3, <1>4 DEF IInv, SlotBecomes, Unfinished, WorkflowShape
<1>12. HolderHasConnection'
  BY <1>1, <1>2, <1>3, <1>4 DEF IInv, SlotBecomes, SubBecomes, Unfinished, Holding,
     HasResult, LoadsActive, HolderHasConnection
<1>13. TerminateResult'
  BY <1>1, <1>2, <1>3, <1>4 DEF IInv, SlotBecomes, SubBecomes, HasResult,
     TerminateResult
<1>14. StepKnows'
  BY <1>1, <1>2, <1>3, <1>4 DEF IInv, SlotBecomes, SubBecomes, Live, StepKnows
<1>15. EndedHoldsNothing'
  BY <1>1, <1>2, <1>3, <1>4 DEF IInv, SubBecomes, Live, EndedHoldsNothing, HoldsNothing
<1>16. IdleClean'
  BY <1>1, <1>2, <1>3, <1>4 DEF IInv, SlotBecomes, Unfinished, IdleClean
<1>17. FormsKnown' /\ LostByOverride'
  <2>1. FormsKnown'
    BY <1>1, <1>2, <1>3, <1>4 DEF IInv, SubBecomes, FormsKnown
  <2>2. LostByOverride'
    BY <1>1, <1>2, <1>3, <1>4 DEF IInv, SlotBecomes, SubBecomes, Live, HoldsNothing, LostByOverride
  <2>3. QED
    BY <2>1, <2>2
<1>18. QED
  BY <1>5, <1>6, <1>7, <1>8, <1>9, <1>10, <1>11, <1>12, <1>13, <1>14, <1>15, <1>16, <1>17 DEF IInv

\* An aborted process leaves the subscription out of sync, and no process holds it.
LEMMA AbortPreserves ==
  ASSUME IInv, NEW p \in Procs, Abort(p)
  PROVE  IInv'
<1>1. proc[p].run = "failed"
  BY DEF IInv, Abort
<1>2. ProcType' /\ SlotBecomes(p, "none", "none", "idle", 0, "none") /\ proc'[p] = IdleProc
  BY <1>1, FinishEffect DEF IInv, TypeOK, Abort
<1>3. SubBecomes(sub.status, sub.insync, sub.state, sub.conn, sub.gid)
  BY DEF SubBecomes, IInv, TypeOK, SubType, Abort
<1>4. /\ callbacks' = callbacks /\ forms' = forms /\ agg' = agg /\ posted' = posted
      /\ drifted' = drifted /\ drifted \in BOOLEAN
  BY DEF IInv, TypeOK, CounterType, aggVars, Abort
<1>5. TypeOK'
  BY <1>1, <1>2, <1>3, <1>4 DEF IInv, TypeOK, SubType, CounterType, AggType, PostedType,
     ConnectionState, Lifecycle, ErrorSource, StableStatus, NoConn, Abort
<1>6. LockExclusive'
  BY <1>1, <1>2, <1>3, <1>4 DEF IInv, SlotBecomes, SubBecomes, Unfinished, Holding,
     LockExclusive
<1>7. Unborn'
  BY <1>1, <1>2, <1>3, <1>4 DEF IInv, SlotBecomes, SubBecomes, Unfinished, Unborn
<1>8. FreshIds'
  BY <1>1, <1>2, <1>3, <1>4 DEF IInv, SubBecomes, FreshIds
<1>9. ConnKnown'
  BY <1>1, <1>2, <1>3, <1>4 DEF IInv, SubBecomes, ConnKnown
<1>10. RoutesHandedOut'
  BY <1>1, <1>2, <1>3, <1>4 DEF IInv, SlotBecomes, RoutesHandedOut, TypeOK, CounterType
<1>11. WorkflowShape'
  BY <1>1, <1>2, <1>3, <1>4 DEF IInv, SlotBecomes, Unfinished, WorkflowShape
<1>12. HolderHasConnection'
  BY <1>1, <1>2, <1>3, <1>4 DEF IInv, SlotBecomes, SubBecomes, Unfinished, Holding,
     HasResult, LoadsActive, HolderHasConnection
<1>13. TerminateResult'
  BY <1>1, <1>2, <1>3, <1>4 DEF IInv, SlotBecomes, SubBecomes, HasResult,
     TerminateResult
<1>14. StepKnows'
  BY <1>1, <1>2, <1>3, <1>4 DEF IInv, SlotBecomes, SubBecomes, Live, StepKnows
<1>15. EndedHoldsNothing'
  BY <1>1, <1>2, <1>3, <1>4 DEF IInv, SubBecomes, Live, EndedHoldsNothing, HoldsNothing
<1>16. IdleClean'
  BY <1>1, <1>2, <1>3, <1>4 DEF IInv, SlotBecomes, Unfinished, IdleClean
<1>17. FormsKnown' /\ LostByOverride'
  <2>1. FormsKnown'
    BY <1>1, <1>2, <1>3, <1>4 DEF IInv, SubBecomes, FormsKnown
  <2>2. LostByOverride'
    BY <1>1, <1>2, <1>3, <1>4 DEF IInv, SlotBecomes, SubBecomes, Live, HoldsNothing, LostByOverride
  <2>3. QED
    BY <2>1, <2>2
<1>18. QED
  BY <1>5, <1>6, <1>7, <1>8, <1>9, <1>10, <1>11, <1>12, <1>13, <1>14, <1>15, <1>16, <1>17 DEF IInv

\* A request about the connection changes that reservation alone, and cannot bring
\* a TERMINATED one back; a terminate step waits on a route nobody had before.
LEMMA FireOnConnectionPreserves ==
  ASSUME IInv, NEW p \in Procs, NEW op \in {"provision", "release", "terminate"},
         FireOnConnection(p, op)
  PROVE  IInv'
<1> DEFINE c == callbacks + 1
<1>1. /\ proc[p].run = "running" /\ proc[p].step = op /\ ~HasResult(p)
      /\ sub.conn \in ReservationId /\ c \in 0..MaxCallbacks /\ callbacks' = c
      /\ forms' = forms
      /\ Request(op, sub.conn, c)
  BY CallbacksAssumption, ReservationsAssumption DEF FireOnConnection, Fire, At, NoConn,
     ReservationId, IInv, TypeOK, SubType, CounterType
<1>2. /\ ProcType'
      /\ \/ SlotBecomes(p, proc[p].wf, op, "awaiting", c, "none")
         \/ SlotBecomes(p, proc[p].wf, op, "failed", 0, "none")
  BY <1>1, AwaitEffect, FailEffect DEF FireOnConnection, IInv, TypeOK, HasResult
<1>3. SubBecomes(sub.status, sub.insync, sub.state, sub.conn, sub.gid)
  BY DEF SubBecomes, FireOnConnection
<1>4. /\ AggType' /\ PostedType'
      /\ \A h \in ReservationId : h # sub.conn => agg'[h] = agg[h]
      /\ agg'[sub.conn].callback = c
      /\ agg'[sub.conn].status # "none"
      /\ agg[sub.conn].status = "TERMINATED" => agg'[sub.conn].status = "TERMINATED"
      /\ op = "terminate" => agg'[sub.conn].status \in {"TERMINATING", "TERMINATED"}
      /\ \A m \in posted' :
           m \in posted \/ (m.callback = c /\ (op = "terminate" => agg'[sub.conn].status = "TERMINATED"))
  <2>1. op \in Operation
    BY DEF Operation
  <2>2. /\ AggType' /\ PostedType'
        /\ \A h \in ReservationId : h # sub.conn => agg'[h] = agg[h]
        /\ agg'[sub.conn].callback = c
        /\ \/ agg[sub.conn].status \in Legal[op] /\ agg'[sub.conn].status = Begun[op]
           \/ agg[sub.conn].status \in Repeated[op] /\ agg'[sub.conn].status = agg[sub.conn].status
        /\ \A m \in posted' :
             \/ m \in posted
             \/ /\ m.callback = c /\ agg'[sub.conn].status = agg[sub.conn].status
                /\ agg[sub.conn].status \in Repeated[op] \cap StableStatus
    BY <1>1, <2>1, RequestEffect DEF IInv, TypeOK
  <2>3. /\ Begun[op] # "none" /\ "none" \notin Repeated[op] /\ "TERMINATED" \notin Legal[op]
        /\ op = "terminate" => /\ Begun[op] = "TERMINATING"
                               /\ Repeated[op] = {"TERMINATING", "TERMINATED"}
    BY DEF Begun, Repeated, Legal
  <2>4. "TERMINATING" \notin StableStatus
    BY DEF StableStatus
  <2>5. /\ agg'[sub.conn].status # "none"
        /\ agg[sub.conn].status = "TERMINATED" => agg'[sub.conn].status = "TERMINATED"
        /\ op = "terminate" => agg'[sub.conn].status \in {"TERMINATING", "TERMINATED"}
    BY <2>2, <2>3
  <2>6. \A m \in posted' :
          m \in posted \/ (m.callback = c /\ (op = "terminate" => agg'[sub.conn].status = "TERMINATED"))
    <3>1. TAKE m \in posted'
    <3>2. CASE m \in posted
      BY <3>2
    <3>3. CASE /\ m.callback = c /\ agg'[sub.conn].status = agg[sub.conn].status
               /\ agg[sub.conn].status \in Repeated[op] \cap StableStatus
      BY <2>3, <2>4, <3>3
    <3>4. QED
      BY <2>2, <3>2, <3>3
  <2> HIDE DEF c
  <2>7. QED
    BY <2>2, <2>5, <2>6
<1>5. TypeOK'
  BY <1>1, <1>2, <1>4 DEF FireOnConnection, Fire, IInv, TypeOK, SubType, CounterType
<1>6. \A q \in Procs : q # p => proc[q].step \in {"none", "lock"}
  BY <1>1, OthersBlocked DEF Holding, Unfinished
<1>7. callbacks \in Nat /\ \A m \in posted : m.callback <= callbacks /\ m.callback \in Nat
  BY DEF IInv, TypeOK, CounterType, PostedType, RoutesHandedOut
<1>8. /\ \A h \in ReservationId : agg[h].callback <= callbacks /\ agg[h].callback \in Nat
      /\ \A q \in Procs : proc[q].callback <= callbacks /\ proc[q].callback \in Nat
  BY DEF IInv, TypeOK, AggType, ProcType, Process, RoutesHandedOut
<1>9. sub.conn = sub.gid /\ agg[sub.conn].status # "none"
  BY <1>1 DEF IInv, ConnKnown, ReservationId, NoConn
<1>10. sub.insync = FALSE
  BY <1>1 DEF IInv, LockExclusive, Holding, Unfinished, TypeOK, SubType
<1>11. c = callbacks + 1
  OBVIOUS
<1> HIDE DEF c
<1>12. LockExclusive'
  BY <1>1, <1>2, <1>3, <1>4, <1>6, <1>7, <1>8, <1>9, <1>10, <1>11 DEF IInv, SlotBecomes,
     SubBecomes, Unfinished, Holding, LockExclusive
<1>13. Unborn'
  BY <1>1, <1>2, <1>3, <1>4, <1>6, <1>7, <1>8, <1>9, <1>10, <1>11 DEF IInv, SlotBecomes,
     SubBecomes, Unfinished, Unborn
<1>14. FreshIds'
  BY <1>1, <1>2, <1>3, <1>4, <1>6, <1>7, <1>8, <1>9, <1>10, <1>11 DEF IInv, SubBecomes,
     FreshIds
<1>15. ConnKnown'
  BY <1>1, <1>2, <1>3, <1>4, <1>6, <1>7, <1>8, <1>9, <1>10, <1>11 DEF IInv, SubBecomes,
     ConnKnown
<1>16. RoutesHandedOut'
  BY <1>1, <1>2, <1>3, <1>4, <1>6, <1>7, <1>8, <1>9, <1>10, <1>11 DEF IInv, SlotBecomes,
     RoutesHandedOut
<1>17. WorkflowShape'
  BY <1>1, <1>2, <1>3, <1>4, <1>6, <1>7, <1>8, <1>9, <1>10, <1>11 DEF IInv, SlotBecomes,
     Unfinished, WorkflowShape
<1>18. HolderHasConnection'
  BY <1>1, <1>2, <1>3, <1>4, <1>6, <1>7, <1>8, <1>9, <1>10, <1>11 DEF IInv, SlotBecomes,
     SubBecomes, Unfinished, Holding, HasResult, LoadsActive, HolderHasConnection
<1>19. TerminateResult'
  BY <1>1, <1>2, <1>3, <1>4, <1>6, <1>7, <1>8, <1>9, <1>10, <1>11 DEF IInv, SlotBecomes,
     SubBecomes, HasResult, TerminateResult
<1>20. StepKnows'
  BY <1>1, <1>2, <1>3, <1>4, <1>6, <1>7, <1>8, <1>9, <1>10, <1>11 DEF IInv, SlotBecomes,
     SubBecomes, Live, StepKnows
<1>21. EndedHoldsNothing'
  BY <1>1, <1>2, <1>3, <1>4, <1>6, <1>7, <1>8, <1>9, <1>10, <1>11 DEF IInv, SubBecomes,
     Live, EndedHoldsNothing, HoldsNothing
<1>22. IdleClean'
  BY <1>1, <1>2, <1>3, <1>4, <1>6, <1>7, <1>8, <1>9, <1>10, <1>11 DEF IInv, SlotBecomes,
     Unfinished, IdleClean
<1>23. FormsKnown' /\ LostByOverride'
  <2>1. FormsKnown'
    <3>1. \A r \in forms : r \in ReservationId
      BY DEF IInv, TypeOK, CounterType
    <3>2. QED
      BY <1>1, <1>3, <1>4, <3>1 DEF IInv, SubBecomes, FormsKnown
  <2>2. LostByOverride'
    BY <1>1, <1>2, <1>3, <1>4, <1>6, <1>7, <1>8, <1>9, <1>10, <1>11 DEF IInv, SlotBecomes, SubBecomes, Live, HoldsNothing, LostByOverride
  <2>3. QED
    BY <2>1, <2>2
<1>24. QED
  BY <1>5, <1>12, <1>13, <1>14, <1>15, <1>16, <1>17, <1>18, <1>19, <1>20, <1>21, <1>22, <1>23 DEF IInv

\* Reserve creates or finds the reservation of the current id; its connection id is
\* stored unless the answer is lost.
LEMMA ReserveConnectionPreserves ==
  ASSUME IInv, NEW p \in Procs, ReserveConnection(p)
  PROVE  IInv'
<1> DEFINE c == callbacks + 1
<1>1. /\ proc[p].run = "running" /\ proc[p].step = "reserve" /\ ~HasResult(p)
      /\ sub.gid \in ReservationId /\ c \in 0..MaxCallbacks /\ callbacks' = c
      /\ forms' = forms
      /\ Request("reserve", sub.gid, c)
  BY CallbacksAssumption, ReservationsAssumption DEF ReserveConnection, Fire, At, NoConn,
     ReservationId, IInv, TypeOK, SubType, CounterType
<1>2. /\ ProcType'
      /\ \/ /\ SlotBecomes(p, proc[p].wf, "reserve", "awaiting", c, "none")
            /\ SubBecomes(sub.status, sub.insync, sub.state, sub.gid, sub.gid)
         \/ /\ SlotBecomes(p, proc[p].wf, "reserve", "failed", 0, "none")
            /\ SubBecomes(sub.status, sub.insync, sub.state, sub.conn, sub.gid)
  <2>1. CASE sub' = [sub EXCEPT !.conn = sub.gid] /\ Await(p, callbacks')
    <3>1. SubBecomes(sub.status, sub.insync, sub.state, sub.gid, sub.gid)
      BY <2>1 DEF SubBecomes, IInv, TypeOK, SubType
    <3>2. QED
      BY <1>1, <2>1, <3>1, AwaitEffect DEF IInv, TypeOK, HasResult
  <2>2. CASE Fail(p) /\ UNCHANGED sub
    BY <1>1, <2>2, FailEffect DEF IInv, TypeOK, SubBecomes
  <2>3. QED
    BY <2>1, <2>2 DEF ReserveConnection
<1>3. SubType'
  BY DEF ReserveConnection, IInv, TypeOK, SubType
<1>4. /\ AggType' /\ PostedType'
      /\ \A h \in ReservationId : h # sub.gid => agg'[h] = agg[h]
      /\ agg'[sub.gid].callback = c
      /\ agg'[sub.gid].status # "none"
      /\ agg[sub.gid].status = "TERMINATED" => agg'[sub.gid].status = "TERMINATED"
      /\ \A m \in posted' : m \in posted \/ m.callback = c
  <2>1. /\ AggType' /\ PostedType'
        /\ \A h \in ReservationId : h # sub.gid => agg'[h] = agg[h]
        /\ agg'[sub.gid].callback = c
        /\ \/ agg[sub.gid].status \in Legal["reserve"] /\ agg'[sub.gid].status = Begun["reserve"]
           \/ agg[sub.gid].status \in Repeated["reserve"] /\ agg'[sub.gid].status = agg[sub.gid].status
        /\ \A m \in posted' : m \in posted \/ m.callback = c
    BY <1>1, RequestEffect DEF IInv, TypeOK, Operation
  <2>2. /\ Begun["reserve"] # "none" /\ "none" \notin Repeated["reserve"]
        /\ "TERMINATED" \notin Legal["reserve"]
    BY DEF Begun, Repeated, Legal
  <2>3. QED
    BY <2>1, <2>2
<1>5. TypeOK'
  BY <1>1, <1>2, <1>3, <1>4 DEF ReserveConnection, Fire, IInv, TypeOK, CounterType
<1>6. \A q \in Procs : q # p => proc[q].step \in {"none", "lock"}
  BY <1>1, OthersBlocked DEF Holding, Unfinished
<1>7. callbacks \in Nat /\ \A m \in posted : m.callback <= callbacks /\ m.callback \in Nat
  BY DEF IInv, TypeOK, CounterType, PostedType, RoutesHandedOut
<1>8. /\ \A h \in ReservationId : agg[h].callback <= callbacks /\ agg[h].callback \in Nat
      /\ \A q \in Procs : proc[q].callback <= callbacks /\ proc[q].callback \in Nat
  BY DEF IInv, TypeOK, AggType, ProcType, Process, RoutesHandedOut
<1>9. sub.state = "CREATED" /\ sub.status # "TERMINATED"
  BY <1>1 DEF IInv, StepKnows, EndedHoldsNothing, HoldsNothing
<1>10. sub.insync = FALSE
  BY <1>1 DEF IInv, LockExclusive, Holding, Unfinished, TypeOK, SubType
<1>11. c = callbacks + 1
  OBVIOUS
<1> HIDE DEF c
<1>12. LockExclusive'
  BY <1>1, <1>2, <1>4, <1>6, <1>7, <1>8, <1>9, <1>10, <1>11 DEF IInv, SlotBecomes,
     SubBecomes, Unfinished, Holding, LockExclusive
<1>13. Unborn'
  BY <1>1, <1>2, <1>4, <1>6, <1>7, <1>8, <1>9, <1>10, <1>11 DEF IInv, SlotBecomes,
     SubBecomes, Unfinished, Unborn
<1>14. FreshIds'
  BY <1>1, <1>2, <1>4, <1>6, <1>7, <1>8, <1>9, <1>10, <1>11 DEF IInv, SubBecomes,
     FreshIds, TypeOK, SubType
<1>15. ConnKnown'
  BY <1>1, <1>2, <1>4, <1>6, <1>7, <1>8, <1>9, <1>10, <1>11 DEF IInv, SubBecomes,
     ConnKnown
<1>16. RoutesHandedOut'
  BY <1>1, <1>2, <1>4, <1>6, <1>7, <1>8, <1>9, <1>10, <1>11 DEF IInv, SlotBecomes,
     RoutesHandedOut
<1>17. WorkflowShape'
  BY <1>1, <1>2, <1>4, <1>6, <1>7, <1>8, <1>9, <1>10, <1>11 DEF IInv, SlotBecomes,
     Unfinished, WorkflowShape
<1>18. HolderHasConnection'
  BY <1>1, <1>2, <1>4, <1>6, <1>7, <1>8, <1>9, <1>10, <1>11 DEF IInv, SlotBecomes,
     SubBecomes, NoConn, Unfinished, Holding, HasResult, LoadsActive,
     HolderHasConnection, ReservationId
<1>19. TerminateResult'
  BY <1>1, <1>2, <1>4, <1>6, <1>7, <1>8, <1>9, <1>10, <1>11 DEF IInv, SlotBecomes,
     SubBecomes, HasResult, TerminateResult
<1>20. StepKnows'
  BY <1>1, <1>2, <1>4, <1>6, <1>7, <1>8, <1>9, <1>10, <1>11 DEF IInv, SlotBecomes,
     SubBecomes, Live, StepKnows
<1>21. EndedHoldsNothing'
  BY <1>1, <1>2, <1>4, <1>6, <1>7, <1>8, <1>9, <1>10, <1>11 DEF IInv, SubBecomes, Live,
     EndedHoldsNothing, HoldsNothing
<1>22. IdleClean'
  BY <1>1, <1>2, <1>4, <1>6, <1>7, <1>8, <1>9, <1>10, <1>11 DEF IInv, SlotBecomes,
     Unfinished, IdleClean
<1>23. FormsKnown' /\ LostByOverride'
  <2>1. FormsKnown'
    <3>1. \A r \in forms : r \in ReservationId /\ r # NoConn
      BY ReservationsAssumption DEF IInv, TypeOK, CounterType, ReservationId, NoConn
    <3>2. sub.conn # NoConn => sub.conn = sub.gid
      BY DEF IInv, ConnKnown
    <3>3. QED
      BY <1>1, <1>2, <1>4, <3>1, <3>2 DEF IInv, SubBecomes, FormsKnown
  <2>2. LostByOverride'
    BY <1>1, <1>2, <1>4, <1>6, <1>7, <1>8, <1>9, <1>10, <1>11 DEF IInv, SlotBecomes, SubBecomes, Live, HoldsNothing, LostByOverride
  <2>3. QED
    BY <2>1, <2>2
<1>24. QED
  BY <1>5, <1>12, <1>13, <1>14, <1>15, <1>16, <1>17, <1>18, <1>19, <1>20, <1>21, <1>22, <1>23 DEF IInv

\* A result reaches the process that waits for it: if that is a terminate step, the
\* connection is TERMINATED by then.
LEMMA CallbackPreserves ==
  ASSUME IInv, NEW p \in Procs, Callback(p)
  PROVE  IInv'
<1>1. proc[p].run = "awaiting"
  BY DEF Callback
<1>2. PICK m \in posted :
        /\ m.callback = proc[p].callback /\ m.status \in StableStatus
        /\ ProcType'
        /\ SlotBecomes(p, proc[p].wf, proc[p].step, "running", 0, m.status)
  BY CallbackEffect DEF IInv
<1>3. SubBecomes(sub.status, sub.insync, sub.state, sub.conn, sub.gid)
  BY DEF SubBecomes, Callback
<1>4. /\ callbacks' = callbacks /\ forms' = forms /\ agg' = agg /\ posted' = posted
      /\ drifted' = drifted /\ drifted \in BOOLEAN
  BY DEF IInv, TypeOK, CounterType, aggVars, Callback
<1>5. TypeOK'
  BY <1>2, <1>4 DEF IInv, TypeOK, SubType, CounterType, AggType, PostedType, Callback
<1>6. LockExclusive'
  BY <1>1, <1>2, <1>3, <1>4 DEF IInv, SlotBecomes, SubBecomes, Unfinished, Holding,
     LockExclusive
<1>7. Unborn'
  BY <1>1, <1>2, <1>3, <1>4 DEF IInv, SlotBecomes, SubBecomes, Unfinished, Unborn
<1>8. FreshIds'
  BY <1>1, <1>2, <1>3, <1>4 DEF IInv, SubBecomes, FreshIds
<1>9. ConnKnown'
  BY <1>1, <1>2, <1>3, <1>4 DEF IInv, SubBecomes, ConnKnown
<1>10. RoutesHandedOut'
  BY <1>1, <1>2, <1>3, <1>4 DEF IInv, SlotBecomes, RoutesHandedOut, TypeOK, CounterType
<1>11. WorkflowShape'
  BY <1>1, <1>2, <1>3, <1>4 DEF IInv, SlotBecomes, Unfinished, WorkflowShape
<1>12. HolderHasConnection'
  BY <1>1, <1>2, <1>3, <1>4 DEF IInv, SlotBecomes, SubBecomes, Unfinished, Holding,
     HasResult, LoadsActive, HolderHasConnection
<1>13. TerminateResult'
  BY <1>1, <1>2, <1>3, <1>4 DEF IInv, SlotBecomes, SubBecomes, HasResult,
     TerminateResult
<1>14. StepKnows'
  BY <1>1, <1>2, <1>3, <1>4 DEF IInv, SlotBecomes, SubBecomes, Live, StepKnows
<1>15. EndedHoldsNothing'
  BY <1>1, <1>2, <1>3, <1>4 DEF IInv, SubBecomes, Live, EndedHoldsNothing, HoldsNothing
<1>16. IdleClean'
  BY <1>1, <1>2, <1>3, <1>4 DEF IInv, SlotBecomes, Unfinished, IdleClean
<1>17. FormsKnown' /\ LostByOverride'
  <2>1. FormsKnown'
    BY <1>1, <1>2, <1>3, <1>4 DEF IInv, SubBecomes, FormsKnown
  <2>2. LostByOverride'
    BY <1>1, <1>2, <1>3, <1>4 DEF IInv, SlotBecomes, SubBecomes, Live, HoldsNothing, LostByOverride
  <2>3. QED
    BY <2>1, <2>2
<1>18. QED
  BY <1>5, <1>6, <1>7, <1>8, <1>9, <1>10, <1>11, <1>12, <1>13, <1>14, <1>15, <1>16, <1>17 DEF IInv

\* The override finds every process finished.
LEMMA SetInSyncPreserves ==
  ASSUME IInv, SetInSync
  PROVE  IInv'
<1>1. sub.status # "none" /\ \A p \in Procs : ~Unfinished(p) /\ proc[p] = IdleProc
  BY DEF SetInSync, IInv, IdleClean
<1>2. /\ proc' = proc /\ callbacks' = callbacks /\ forms' = forms /\ agg' = agg /\ posted' = posted
      /\ drifted' = TRUE
  BY DEF SetInSync, aggVars
<1>3. SubBecomes(sub.status, TRUE, sub.state, sub.conn, sub.gid)
  BY DEF SubBecomes, IInv, TypeOK, SubType, SetInSync
<1>4. \A p \in Procs : proc[p].step = "none" /\ proc[p].run = "idle" /\ proc[p].callback = 0
  BY <1>1 DEF IdleProc
<1>5. TypeOK'
  BY <1>2 DEF SetInSync, IInv, TypeOK, SubType, ProcType, CounterType, AggType, PostedType
<1>6. LockExclusive'
  BY <1>1, <1>2, <1>3, <1>4 DEF IInv, SlotBecomes, SubBecomes, Unfinished, Holding,
     LockExclusive
<1>7. Unborn'
  BY <1>1, <1>2, <1>3, <1>4 DEF IInv, SlotBecomes, SubBecomes, Unfinished, Unborn
<1>8. FreshIds'
  BY <1>1, <1>2, <1>3, <1>4 DEF IInv, SubBecomes, FreshIds
<1>9. ConnKnown'
  BY <1>1, <1>2, <1>3, <1>4 DEF IInv, SubBecomes, ConnKnown
<1>10. RoutesHandedOut'
  BY <1>1, <1>2, <1>3, <1>4 DEF IInv, SlotBecomes, RoutesHandedOut
<1>11. WorkflowShape'
  BY <1>1, <1>2, <1>3, <1>4 DEF IInv, SlotBecomes, Unfinished, WorkflowShape
<1>12. HolderHasConnection'
  BY <1>1, <1>2, <1>3, <1>4 DEF IInv, SlotBecomes, SubBecomes, Unfinished, Holding,
     HasResult, LoadsActive, HolderHasConnection
<1>13. TerminateResult'
  BY <1>1, <1>2, <1>3, <1>4 DEF IInv, SlotBecomes, SubBecomes, HasResult,
     TerminateResult
<1>14. StepKnows'
  BY <1>1, <1>2, <1>3, <1>4 DEF IInv, SlotBecomes, SubBecomes, Live, StepKnows
<1>15. EndedHoldsNothing'
  BY <1>1, <1>2, <1>3, <1>4 DEF IInv, SubBecomes, Live, EndedHoldsNothing, HoldsNothing
<1>16. IdleClean'
  BY <1>1, <1>2, <1>3, <1>4 DEF IInv, SlotBecomes, Unfinished, IdleClean
<1>17. FormsKnown' /\ LostByOverride'
  <2>1. FormsKnown'
    BY <1>1, <1>2, <1>3, <1>4 DEF IInv, SubBecomes, FormsKnown
  <2>2. LostByOverride'
    BY <1>1, <1>2, <1>3, <1>4 DEF IInv, SlotBecomes, SubBecomes, Live, HoldsNothing, LostByOverride
  <2>3. QED
    BY <2>1, <2>2
<1>18. QED
  BY <1>5, <1>6, <1>7, <1>8, <1>9, <1>10, <1>11, <1>12, <1>13, <1>14, <1>15, <1>16, <1>17 DEF IInv

\* A retry form that is opened has read the stored connection id.
LEMMA OpenRetryPreserves ==
  ASSUME IInv, OpenRetry
  PROVE  IInv'
<1>1. sub.insync /\ sub.conn # NoConn /\ forms' = forms \cup {sub.conn}
  BY DEF OpenRetry, Finds, LoadsActive
<1>2. /\ sub' = sub /\ proc' = proc /\ callbacks' = callbacks /\ drifted' = drifted
      /\ agg' = agg /\ posted' = posted
  BY DEF OpenRetry, aggVars
<1>3. TypeOK'
  <2>1. sub.conn \in ReservationId
    BY <1>1, ReservationsAssumption DEF IInv, TypeOK, SubType, NoConn, ReservationId
  <2>2. QED
    BY <1>1, <1>2, <2>1 DEF IInv, TypeOK, SubType, ProcType, CounterType, AggType, PostedType
<1>4. LockExclusive' /\ Unborn' /\ FreshIds' /\ ConnKnown' /\ IdleClean' /\ WorkflowShape'
  BY <1>1, <1>2 DEF IInv, LockExclusive, Unborn, FreshIds, ConnKnown, IdleClean, WorkflowShape,
     Holding, Unfinished
<1>5. HolderHasConnection' /\ TerminateResult' /\ StepKnows'
  BY <1>2 DEF IInv, HolderHasConnection, TerminateResult, StepKnows, Holding, Unfinished,
     HasResult, LoadsActive, Live
<1>6. RoutesHandedOut' /\ EndedHoldsNothing' /\ LostByOverride'
  BY <1>2 DEF IInv, RoutesHandedOut, EndedHoldsNothing, HoldsNothing, LostByOverride, Live
<1>7. FormsKnown'
  BY <1>1, <1>2 DEF IInv, FormsKnown
<1>8. QED
  BY <1>3, <1>4, <1>5, <1>6, <1>7 DEF IInv

\* A completion ends only what was under way, and ends a TERMINATING reservation as
\* TERMINATED.
LEMMA AggregatorStepPreserves ==
  ASSUME IInv, NEW g \in ReservationId, AggregatorStep(g)
  PROVE  IInv'
<1>1. /\ AggType' /\ PostedType'
      /\ \A h \in ReservationId : h # g => agg'[h] = agg[h]
      /\ agg'[g].callback = agg[g].callback
      /\ agg[g].status \notin {"none", "TERMINATED"} /\ agg'[g].status # "none"
      /\ agg[g].status = "TERMINATING" => agg'[g].status = "TERMINATED"
      /\ \A m \in posted' : m \in posted \/ m.callback = agg[g].callback
  BY CompleteEffect DEF AggregatorStep, IInv, TypeOK, TransientStatus, StableStatus
<1>2. proc' = proc /\ callbacks' = callbacks /\ forms' = forms /\ sub' = sub /\ drifted' = drifted
  BY DEF AggregatorStep
<1>3. TypeOK'
  BY <1>1, <1>2 DEF IInv, TypeOK, SubType, ProcType, CounterType
<1>4. \A p \in Procs : proc[p].step = "terminate" => sub.conn \in ReservationId
  BY ReservationsAssumption DEF IInv, HolderHasConnection, Holding, Unfinished, IdleClean,
     IdleProc, LoadsActive, NoConn, ReservationId, TypeOK, SubType
<1>5. LockExclusive'
  BY <1>1, <1>2, <1>4 DEF IInv, SlotBecomes, SubBecomes, Unfinished, Holding,
     LockExclusive
<1>6. Unborn'
  BY <1>1, <1>2, <1>4 DEF IInv, SlotBecomes, SubBecomes, Unfinished, Unborn
<1>7. FreshIds'
  BY <1>1, <1>2, <1>4 DEF IInv, SubBecomes, FreshIds
<1>8. ConnKnown'
  BY <1>1, <1>2, <1>4 DEF IInv, NoConn, ConnKnown, ReservationId, TypeOK, SubType
<1>9. RoutesHandedOut'
  BY <1>1, <1>2, <1>4 DEF IInv, SlotBecomes, RoutesHandedOut
<1>10. WorkflowShape'
  BY <1>1, <1>2, <1>4 DEF IInv, SlotBecomes, Unfinished, WorkflowShape
<1>11. HolderHasConnection'
  BY <1>1, <1>2, <1>4 DEF IInv, SlotBecomes, SubBecomes, Unfinished, Holding, HasResult,
     LoadsActive, HolderHasConnection
<1>12. TerminateResult'
  BY <1>1, <1>2, <1>4 DEF IInv, SlotBecomes, SubBecomes, HasResult, TerminateResult
<1>13. StepKnows'
  BY <1>1, <1>2, <1>4 DEF IInv, SlotBecomes, SubBecomes, Live, StepKnows
<1>14. EndedHoldsNothing'
  BY <1>1, <1>2, <1>4 DEF IInv, SubBecomes, Live, EndedHoldsNothing, HoldsNothing
<1>15. IdleClean'
  BY <1>1, <1>2, <1>4 DEF IInv, SlotBecomes, Unfinished, IdleClean
<1>16. FormsKnown' /\ LostByOverride'
  <2>1. FormsKnown'
    <3>1. \A r \in forms : r \in ReservationId
      BY DEF IInv, TypeOK, CounterType
    <3>2. QED
      BY <1>1, <1>2, <3>1 DEF IInv, FormsKnown
  <2>2. LostByOverride'
    BY <1>1, <1>2, <1>4 DEF IInv, SlotBecomes, SubBecomes, Live, HoldsNothing, LostByOverride
  <2>3. QED
    BY <2>1, <2>2
<1>17. QED
  BY <1>3, <1>5, <1>6, <1>7, <1>8, <1>9, <1>10, <1>11, <1>12, <1>13, <1>14, <1>15, <1>16 DEF IInv

\* A lapse leaves nothing under way behind, and touches nothing that is.
LEMMA AggregatorDriftPreserves ==
  ASSUME IInv, NEW g \in ReservationId, AggregatorDrift(g)
  PROVE  IInv'
<1>1. /\ AggType' /\ posted' = posted
      /\ \A h \in ReservationId : h # g => agg'[h] = agg[h]
      /\ agg'[g].callback = agg[g].callback
      /\ agg[g].status \notin {"none", "TERMINATING", "TERMINATED"} /\ agg'[g].status # "none"
  BY LapseEffect DEF AggregatorDrift, IInv, TypeOK
<1>2. proc' = proc /\ callbacks' = callbacks /\ forms' = forms /\ sub' = sub /\ drifted' = TRUE
  BY DEF AggregatorDrift
<1>3. TypeOK'
  BY <1>1, <1>2 DEF IInv, TypeOK, SubType, ProcType, CounterType, PostedType
<1>4. \A p \in Procs : proc[p].step = "terminate" => sub.conn \in ReservationId
  BY ReservationsAssumption DEF IInv, HolderHasConnection, Holding, Unfinished, IdleClean,
     IdleProc, LoadsActive, NoConn, ReservationId, TypeOK, SubType
<1>5. LockExclusive'
  BY <1>1, <1>2, <1>4 DEF IInv, SlotBecomes, SubBecomes, Unfinished, Holding,
     LockExclusive
<1>6. Unborn'
  BY <1>1, <1>2, <1>4 DEF IInv, SlotBecomes, SubBecomes, Unfinished, Unborn
<1>7. FreshIds'
  BY <1>1, <1>2, <1>4 DEF IInv, SubBecomes, FreshIds
<1>8. ConnKnown'
  BY <1>1, <1>2, <1>4 DEF IInv, NoConn, ConnKnown, ReservationId, TypeOK, SubType
<1>9. RoutesHandedOut'
  BY <1>1, <1>2, <1>4 DEF IInv, SlotBecomes, RoutesHandedOut
<1>10. WorkflowShape'
  BY <1>1, <1>2, <1>4 DEF IInv, SlotBecomes, Unfinished, WorkflowShape
<1>11. HolderHasConnection'
  BY <1>1, <1>2, <1>4 DEF IInv, SlotBecomes, SubBecomes, Unfinished, Holding, HasResult,
     LoadsActive, HolderHasConnection
<1>12. TerminateResult'
  BY <1>1, <1>2, <1>4 DEF IInv, SlotBecomes, SubBecomes, HasResult, TerminateResult
<1>13. StepKnows'
  BY <1>1, <1>2, <1>4 DEF IInv, SlotBecomes, SubBecomes, Live, StepKnows
<1>14. EndedHoldsNothing'
  BY <1>1, <1>2, <1>4 DEF IInv, SubBecomes, Live, EndedHoldsNothing, HoldsNothing
<1>15. IdleClean'
  BY <1>1, <1>2, <1>4 DEF IInv, SlotBecomes, Unfinished, IdleClean
<1>16. FormsKnown' /\ LostByOverride'
  <2>1. FormsKnown'
    <3>1. \A r \in forms : r \in ReservationId
      BY DEF IInv, TypeOK, CounterType
    <3>2. QED
      BY <1>1, <1>2, <3>1 DEF IInv, FormsKnown
  <2>2. LostByOverride'
    BY <1>2 DEF LostByOverride
  <2>3. QED
    BY <2>1, <2>2
<1>17. QED
  BY <1>3, <1>5, <1>6, <1>7, <1>8, <1>9, <1>10, <1>11, <1>12, <1>13, <1>14, <1>15, <1>16 DEF IInv

\* Nothing has happened yet.
LEMMA InitIInv == ASSUME Init PROVE IInv
<1>1. /\ sub = [status |-> "none", insync |-> FALSE, state |-> "CREATED",
                conn |-> NoConn, gid |-> 0, lastError |-> "none"]
      /\ proc = [p \in Procs |-> IdleProc]
      /\ callbacks = 0 /\ forms = {} /\ drifted = FALSE
      /\ agg = [g \in ReservationId |-> [status |-> "none", callback |-> 0]]
      /\ posted = {}
  BY DEF Init, AggInit
<1>2. TypeOK
  <2>1. SubType
    BY <1>1, ReservationsAssumption DEF SubType, NoConn, Lifecycle, ConnectionState, ErrorSource
  <2>2. ProcType
    BY <1>1, CallbacksAssumption DEF ProcType, Process, IdleProc
  <2>3. CounterType /\ PostedType
    <3>1. 0 \in 0..MaxCallbacks
      BY CallbacksAssumption
    <3>2. CounterType
      BY <1>1, <3>1 DEF CounterType
    <3>3. PostedType
      BY <1>1 DEF PostedType
    <3>4. QED
      BY <3>2, <3>3
  <2>4. AggType
    <3>1. "none" \in AggStatus /\ 0 \in 0..MaxCallbacks
      BY CallbacksAssumption DEF AggStatus
    <3>2. QED
      BY <1>1, <3>1 DEF AggType
  <2>5. QED
    BY <2>1, <2>2, <2>3, <2>4 DEF TypeOK
<1>3. \A p \in Procs : /\ proc[p] = IdleProc /\ proc[p].run = "idle" /\ proc[p].step = "none"
                       /\ proc[p].callback = 0 /\ proc[p].result = "none"
  BY <1>1 DEF IdleProc
<1>4. \A g \in ReservationId : agg[g].status = "none" /\ agg[g].callback = 0
  BY <1>1
<1>5. /\ sub.status = "none" /\ sub.insync = FALSE /\ sub.state = "CREATED"
      /\ sub.conn = NoConn /\ sub.gid = 0
  BY <1>1
<1>6. LockExclusive /\ Unborn /\ IdleClean /\ WorkflowShape
  BY <1>3, <1>5 DEF LockExclusive, Unborn, IdleClean, WorkflowShape, Holding, Unfinished, IdleProc
<1>7. FreshIds /\ ConnKnown /\ EndedHoldsNothing /\ FormsKnown /\ LostByOverride
  BY <1>1, <1>3, <1>4, <1>5 DEF FreshIds, ConnKnown, EndedHoldsNothing, FormsKnown, LostByOverride,
     HoldsNothing, Live
<1>8. RoutesHandedOut
  BY <1>1, <1>3, <1>4 DEF RoutesHandedOut
<1>9. HolderHasConnection /\ TerminateResult /\ StepKnows
  BY <1>3, <1>5 DEF HolderHasConnection, TerminateResult, StepKnows, Holding, Unfinished
<1>10. QED
  BY <1>2, <1>6, <1>7, <1>8, <1>9 DEF IInv

\* Neither does a step that changes nothing disturb it.
LEMMA StutterPreserves == ASSUME IInv, UNCHANGED vars PROVE IInv'
<1>1. /\ sub' = sub /\ proc' = proc /\ callbacks' = callbacks /\ drifted' = drifted
      /\ forms' = forms /\ agg' = agg /\ posted' = posted
  BY DEF vars
<1>2. TypeOK'
  BY <1>1 DEF IInv, TypeOK, SubType, ProcType, CounterType, AggType, PostedType
<1>3. LockExclusive' /\ Unborn' /\ FreshIds' /\ ConnKnown' /\ IdleClean' /\ WorkflowShape'
  BY <1>1 DEF IInv, LockExclusive, Unborn, FreshIds, ConnKnown, IdleClean, WorkflowShape,
     Holding, Unfinished
<1>4. HolderHasConnection' /\ TerminateResult' /\ StepKnows'
  BY <1>1 DEF IInv, HolderHasConnection, TerminateResult, StepKnows, Holding, Unfinished,
     HasResult, LoadsActive, Live
<1>5. RoutesHandedOut' /\ EndedHoldsNothing' /\ FormsKnown' /\ LostByOverride'
  BY <1>1 DEF IInv, RoutesHandedOut, EndedHoldsNothing, HoldsNothing, FormsKnown, LostByOverride, Live
<1>6. QED
  BY <1>2, <1>3, <1>4, <1>5 DEF IInv

\* So the invariant survives every step of a process.
LEMMA WorkPreserves == ASSUME IInv, NEW p \in Procs, Work(p) PROVE IInv'
<1>1. CASE Lock(p) \/ SetStatusProvisioning(p)
  BY <1>1, LockPreserves, SetStatusProvisioningPreserves
<1>2. CASE \/ ReserveConnection(p) \/ ProvisionConnection(p)
           \/ ReleaseConnection(p) \/ TerminateConnection(p)
  BY <1>2, ReserveConnectionPreserves, FireOnConnectionPreserves
     DEF ProvisionConnection, ReleaseConnection, TerminateConnection
<1>3. CASE \/ ProcessReservationResult(p) \/ ProcessProvisionResult(p)
           \/ ProcessReleaseResult(p) \/ ProcessTerminateResult(p)
  BY <1>3, ProcessReservationResultPreserves, ProcessProvisionResultPreserves,
     ProcessReleaseResultPreserves, ProcessTerminateResultPreserves
<1>4. CASE DropConnection(p) \/ UpdateSubscription(p) \/ UpdateLabel(p)
  BY <1>4, DropConnectionPreserves, UpdateSubscriptionPreserves, UpdateLabelPreserves
<1>5. CASE SetStatusActive(p) \/ SetStatusTerminated(p)
  BY <1>5, SetStatusActivePreserves, SetStatusTerminatedPreserves
<1>6. CASE ReconcileConnectionState(p) \/ ValidateReservation(p) \/ Resync(p) \/ StepFails(p)
  BY <1>6, ReconcileConnectionStatePreserves, ValidateReservationPreserves,
     ResyncPreserves, StepFailsPreserves
<1>7. QED
  BY <1>1, <1>2, <1>3, <1>4, <1>5, <1>6 DEF Work

\* So it survives what an operator or the engine does to a process.
LEMMA UserStepPreserves == ASSUME IInv, NEW p \in Procs, UserStep(p) PROVE IInv'
<1>1. CASE ConstructMdp2pModel(p)
  BY <1>1, ConstructMdp2pModelPreserves
<1>2. ASSUME NEW wf \in FormWorkflow \ {"retry"}, NEW states, SubmitForm(p, wf, states) PROVE IInv'
  BY <1>2, SubmitFormPreserves
<1>3. ASSUME NEW wf \in TaskWorkflow, StartTask(p, wf) PROVE IInv'
  BY <1>3, StartTaskPreserves
<1>4. CASE Retry(p) \/ Abort(p)
  BY <1>4, RetryPreserves, AbortPreserves
<1>5. CASE SubmitProvision(p) \/ SubmitRelease(p) \/ SubmitTerminate(p) \/ SubmitModify(p)
  BY <1>2, <1>5 DEF SubmitProvision, SubmitRelease, SubmitTerminate, SubmitModify, FormWorkflow
<1>6. CASE SubmitRetry(p)
  BY <1>6, SubmitRetryPreserves
<1>7. QED
  BY <1>1, <1>3, <1>4, <1>5, <1>6 DEF UserStep

\* So it is inductive: one case per disjunct of Next.
LEMMA NextPreserves == ASSUME IInv, [Next]_vars PROVE IInv'
<1>1. ASSUME NEW p \in Procs, UserStep(p) \/ Work(p) \/ Callback(p) \/ Timeout(p) PROVE IInv'
  BY <1>1, UserStepPreserves, WorkPreserves, CallbackPreserves, TimeoutPreserves
<1>2. CASE OpenRetry \/ SetInSync
  BY <1>2, OpenRetryPreserves, SetInSyncPreserves
<1>3. ASSUME NEW g \in ReservationId, AggregatorStep(g) \/ AggregatorDrift(g) PROVE IInv'
  BY <1>3, AggregatorStepPreserves, AggregatorDriftPreserves
<1>4. CASE UNCHANGED vars
  BY <1>4, StutterPreserves
<1>5. QED
  BY <1>1, <1>2, <1>3, <1>4 DEF Next

-----------------------------------------------------------------------------
(* The theorems *)

\* For any number of process slots, reservations and callbacks, the inductive
\* invariant holds in every reachable state.
THEOREM Invariance == Spec => []IInv
<1>1. Init => IInv
  BY InitIInv
<1>2. IInv /\ [Next]_vars => IInv'
  BY NextPreserves
<1>3. QED
  BY <1>1, <1>2, PTL DEF Spec

\* Every variable keeps its type: no route, reservation id or status outside the
\* tables' ranges is ever stored.
THEOREM TypeCorrect == Spec => []TypeOK
<1>1. IInv => TypeOK
  BY DEF IInv
<1>2. QED
  BY <1>1, Invariance, PTL

\* However many processes are started, fail, time out, are retried or aborted, the
\* steps of at most one of them work on the subscription.
THEOREM LockIsExclusive == Spec => []LockExclusive
<1>1. IInv => LockExclusive
  BY DEF IInv
<1>2. QED
  BY <1>1, Invariance, PTL

\* A circuit that has ended or is closed holds nothing under its id in the network.
THEOREM NothingHeldWhenClosed == Spec => []ClosedHoldsNothing
<1>1. IInv => ClosedHoldsNothing
  BY DEF IInv, EndedHoldsNothing, ClosedHoldsNothing
<1>2. QED
  BY <1>1, Invariance, PTL

\* A step that talks about the connection has its connection id, although the form
\* that checked it ran before the lock was taken.
THEOREM ConnectionStaysAtHand == Spec => []ConnectionAtHand
<1>1. IInv => ConnectionAtHand
  BY DEF IInv, HolderHasConnection, ConnectionAtHand
<1>2. QED
  BY <1>1, Invariance, PTL

-----------------------------------------------------------------------------
(* What a step does to the circuit's ids, its state and what is held for it *)

Ended == sub.state = "TERMINATED"
SameIds == sub'.gid = sub.gid /\ sub'.conn = sub.conn

\* Nothing changes of what is held and of who owns it.
Still == SameIds /\ agg' = agg /\ (Ended' <=> Ended)

\* The handle on what is held is lost, and no retry form knows it.
HandleLost ==
  /\ drifted /\ sub.conn = NoConn
  /\ forms # {} /\ \A r \in forms : r # sub.gid /\ agg[r].status = "TERMINATED"

\* A new reservation id, while nothing is held or the handle on it is lost.
Renewed ==
  /\ HoldsNothing \/ HandleLost
  /\ ~Ended
  /\ sub'.gid = sub.gid + 1 /\ sub'.conn = sub.conn /\ agg' = agg /\ ~Ended'

\* The connection id of a TERMINATED reservation is dropped.
Dropped ==
  /\ agg[sub.conn].status = "TERMINATED"
  /\ sub'.gid = sub.gid /\ agg' = agg /\ (Ended' <=> Ended)

\* The circuit ends, while nothing is held.
Closed == HoldsNothing /\ SameIds /\ agg' = agg /\ Ended'

\* A request: the reservation of the current id may become live.
Requested ==
  /\ sub'.gid = sub.gid /\ sub'.conn \in {sub.conn, sub.gid} /\ (Ended' <=> Ended)
  /\ \/ \A g \in ReservationId : Live(g)' <=> Live(g)
     \/ /\ sub.gid \in ReservationId /\ ~Ended /\ ~Live(sub.gid)
        /\ \A g \in ReservationId : Live(g)' <=> (Live(g) \/ g = sub.gid)

\* The aggregator at work: a live reservation stays live or ends.
Reported ==
  /\ sub' = sub
  /\ \E g \in ReservationId :
       /\ Live(g)
       /\ \A h \in ReservationId : h # g => (Live(h)' <=> Live(h))

\* What a step taken under the lock may assume: the connection is still at hand.
LEMMA LockedSteps ==
  ASSUME IInv, NEW p \in Procs,
         \/ Lock(p) \/ SetStatusProvisioning(p) \/ UpdateLabel(p) \/ SetStatusActive(p)
         \/ SetStatusTerminated(p) \/ ValidateReservation(p) \/ Resync(p)
  PROVE  Still
<1>1. CASE Lock(p)
  BY <1>1 DEF IInv, TypeOK, SubType, Still, SameIds, Ended, aggVars, Lock
<1>2. CASE SetStatusProvisioning(p)
  BY <1>2 DEF IInv, TypeOK, SubType, Still, SameIds, Ended, aggVars, SetStatusProvisioning
<1>3. CASE UpdateLabel(p)
  BY <1>3 DEF Still, SameIds, Ended, aggVars, UpdateLabel
<1>4. CASE SetStatusActive(p)
  BY <1>4 DEF IInv, TypeOK, SubType, Still, SameIds, Ended, aggVars, SetStatusActive
<1>5. CASE SetStatusTerminated(p)
  BY <1>5 DEF IInv, TypeOK, SubType, Still, SameIds, Ended, aggVars, SetStatusTerminated
<1>6. CASE ValidateReservation(p)
  BY <1>6 DEF Still, SameIds, Ended, aggVars, ValidateReservation
<1>7. CASE Resync(p)
  BY <1>7 DEF IInv, TypeOK, SubType, Still, SameIds, Ended, aggVars, Resync
<1>8. QED
  BY <1>1, <1>2, <1>3, <1>4, <1>5, <1>6, <1>7

\* Recording a reserve, provision or release result neither ends a circuit nor
\* revives one.
LEMMA RecordedResults ==
  ASSUME IInv, NEW p \in Procs,
         ProcessReservationResult(p) \/ ProcessProvisionResult(p) \/ ProcessReleaseResult(p)
  PROVE  Still
<1>1. CASE ProcessReservationResult(p)
  BY <1>1 DEF IInv, TypeOK, SubType, Still, SameIds, Ended, aggVars,
     ProcessReservationResult, Record, Transition, Apply, Allowed
<1>2. CASE ProcessProvisionResult(p)
  BY <1>2 DEF IInv, TypeOK, SubType, Still, SameIds, Ended, aggVars,
     ProcessProvisionResult, Record, Transition, Apply, Allowed
<1>3. CASE ProcessReleaseResult(p)
  BY <1>3 DEF IInv, TypeOK, SubType, Still, SameIds, Ended, aggVars,
     ProcessReleaseResult, Record, Transition, Apply, Allowed
<1>4. QED
  BY <1>1, <1>2, <1>3

\* A TERMINATED reservation is not held in the network.
LEMMA TerminatedIsNotLive ==
  ASSUME IInv, sub.conn # NoConn, agg[sub.conn].status = "TERMINATED"
  PROVE  HoldsNothing
  BY DEF IInv, ConnKnown, HoldsNothing, Live

\* Both ways into the state TERMINATED find the reservation terminated.
LEMMA Endings ==
  ASSUME IInv, NEW p \in Procs, ProcessTerminateResult(p) \/ ReconcileConnectionState(p)
  PROVE  Still \/ Closed
<1>1. CASE ProcessTerminateResult(p)
  <2>1. sub.conn # NoConn /\ agg[sub.conn].status = "TERMINATED"
    BY <1>1 DEF ProcessTerminateResult, Record, At, IInv, TerminateResult, HolderHasConnection,
       Holding, Unfinished, LoadsActive
  <2>2. SameIds /\ agg' = agg /\ Ended'
    BY <1>1 DEF IInv, TypeOK, SubType, SameIds, Ended, aggVars, ProcessTerminateResult,
       Record, Transition, Apply
  <2>3. QED
    BY <2>1, <2>2, TerminatedIsNotLive DEF Closed
<1>2. CASE ReconcileConnectionState(p)
  <2>1. sub.conn # NoConn /\ agg' = agg
    BY <1>2 DEF ReconcileConnectionState, LoadsActive, aggVars
  <2>2. CASE agg[sub.conn].status \notin StableStatus
    <3>1. sub' = sub
      BY <1>2, <2>2, Zenon DEF ReconcileConnectionState
    <3>2. QED
      BY <2>1, <3>1 DEF Still, SameIds, Ended
  <2>3. CASE agg[sub.conn].status \in StableStatus
    <3>1. SameIds /\ sub'.state = agg[sub.conn].status
      BY <1>2, <2>3 DEF ReconcileConnectionState, SameIds, IInv, TypeOK, SubType
    <3>2. CASE agg[sub.conn].status = "TERMINATED"
      BY <2>1, <3>1, <3>2, TerminatedIsNotLive DEF Closed, Ended
    <3>3. CASE agg[sub.conn].status # "TERMINATED"
      <4>1. sub.conn \in ReservationId
        BY <2>1, ReservationsAssumption DEF ReservationId, NoConn, IInv, TypeOK, SubType
      <4>2. Live(sub.conn)
        BY <2>1, <3>3 DEF Live, IInv, ConnKnown
      <4>3. ~Ended
        BY <2>1, <4>1, <4>2 DEF Ended, IInv, EndedHoldsNothing, HoldsNothing, ConnKnown
      <4>4. QED
        BY <2>1, <3>1, <3>3, <4>3 DEF Still, Ended
    <3>4. QED
      BY <3>2, <3>3
  <2>4. QED
    BY <2>2, <2>3
<1>3. QED
  BY <1>1, <1>2

\* A step that renews the reservation id finds nothing held under the old one, unless
\* a stale retry form gave the process nothing to tear down.
LEMMA Renewals ==
  ASSUME IInv, NEW p \in Procs, ConstructMdp2pModel(p) \/ UpdateSubscription(p)
  PROVE  Renewed
<1>1. CASE ConstructMdp2pModel(p)
  <2>1. HoldsNothing
    BY <1>1, ReservationsAssumption DEF ConstructMdp2pModel, IInv, Unborn, HoldsNothing, ReservationId
  <2>2. ~Ended
    BY <1>1 DEF ConstructMdp2pModel, IInv, Unborn, Ended
  <2>3. QED
    BY <1>1, <2>1, <2>2 DEF ConstructMdp2pModel, Renewed, Ended, aggVars, IInv, TypeOK, SubType
<1>2. CASE UpdateSubscription(p)
  <2>1. sub.conn = NoConn /\ forms # {} /\ NoConn \notin ReservationId
    BY <1>2, ReservationsAssumption DEF UpdateSubscription, At, IInv, StepKnows, WorkflowShape,
       NoConn, ReservationId
  <2>2. HoldsNothing \/ HandleLost
    <3>1. CASE ~drifted
      BY <1>2, <2>1, <3>1 DEF UpdateSubscription, At, IInv, LostByOverride
    <3>2. CASE drifted /\ ~HoldsNothing
      BY <2>1, <3>2 DEF HoldsNothing, Live, HandleLost, IInv, FormsKnown, TypeOK, CounterType
    <3>3. QED
      BY <3>1, <3>2
  <2>3. QED
    BY <1>2, <2>2 DEF UpdateSubscription, Renewed, Ended, aggVars, Transition, Apply, Allowed,
       IInv, TypeOK, SubType
<1>3. QED
  BY <1>1, <1>2

\* A step that drops the connection id finds its reservation terminated.
LEMMA Drops ==
  ASSUME IInv, NEW p \in Procs, DropConnection(p)
  PROVE  Dropped
  BY DEF DropConnection, At, Dropped, Ended, aggVars, IInv, TypeOK, SubType, TerminateResult

\* Only a reserve makes a reservation live, and only the one of the current id.
LEMMA Requests ==
  ASSUME IInv, NEW p \in Procs,
         \/ ReserveConnection(p) \/ ProvisionConnection(p)
         \/ ReleaseConnection(p) \/ TerminateConnection(p)
  PROVE  Requested
<1>1. CASE ReserveConnection(p)
  <2>1. /\ sub.gid \in ReservationId /\ callbacks + 1 \in 0..MaxCallbacks
        /\ Request("reserve", sub.gid, callbacks + 1) /\ sub.state = "CREATED"
    BY <1>1, CallbacksAssumption, ReservationsAssumption DEF ReserveConnection, Fire, At, NoConn,
       ReservationId, IInv, TypeOK, SubType, CounterType, StepKnows
  <2>2. sub'.gid = sub.gid /\ sub'.conn \in {sub.conn, sub.gid} /\ sub'.state = sub.state
    BY <1>1 DEF ReserveConnection, IInv, TypeOK, SubType
  <2>3. /\ \A h \in ReservationId : h # sub.gid => agg'[h] = agg[h]
        /\ \/ agg[sub.gid].status \in Legal["reserve"] /\ agg'[sub.gid].status = Begun["reserve"]
           \/ agg'[sub.gid].status = agg[sub.gid].status
    BY <2>1, RequestEffect DEF Operation, IInv, TypeOK
  <2>4. QED
    BY <2>1, <2>2, <2>3 DEF Requested, Ended, Live, Legal, Begun
<1>2. ASSUME NEW op \in {"provision", "release", "terminate"}, FireOnConnection(p, op)
      PROVE  Requested
  <2>1. /\ sub.conn \in ReservationId /\ callbacks + 1 \in 0..MaxCallbacks
        /\ Request(op, sub.conn, callbacks + 1) /\ sub' = sub
    BY <1>2, CallbacksAssumption, ReservationsAssumption DEF FireOnConnection, Fire, NoConn,
       ReservationId, IInv, TypeOK, SubType, CounterType
  <2>2. /\ \A h \in ReservationId : h # sub.conn => agg'[h] = agg[h]
        /\ \/ agg[sub.conn].status \in Legal[op] /\ agg'[sub.conn].status = Begun[op]
           \/ agg'[sub.conn].status = agg[sub.conn].status
    BY <2>1, RequestEffect DEF Operation, IInv, TypeOK
  <2>3. "none" \notin Legal[op] /\ "TERMINATED" \notin Legal[op] /\ Begun[op] \notin {"none", "TERMINATED"}
    BY DEF Legal, Begun
  <2>4. \A g \in ReservationId : Live(g)' <=> Live(g)
    BY <2>2, <2>3 DEF Live
  <2>5. QED
    BY <2>1, <2>4 DEF Requested, Ended
<1>3. QED
  BY <1>1, <1>2 DEF ProvisionConnection, ReleaseConnection, TerminateConnection

\* A step that records what the aggregator says keeps ids and reservations.
LEMMA Reports ==
  ASSUME IInv, NEW g \in ReservationId, AggregatorStep(g) \/ AggregatorDrift(g)
  PROVE  Reported
<1>1. CASE AggregatorStep(g)
  <2>1. /\ \A h \in ReservationId : h # g => agg'[h] = agg[h]
        /\ agg[g].status \in TransientStatus
    BY <1>1, CompleteEffect DEF AggregatorStep, IInv, TypeOK
  <2>2. QED
    BY <1>1, <2>1 DEF AggregatorStep, Reported, Live, TransientStatus
<1>2. CASE AggregatorDrift(g)
  <2>1. /\ \A h \in ReservationId : h # g => agg'[h] = agg[h]
        /\ agg[g].status \in {"RESERVED", "ACTIVATED", "FAILED"}
    BY <1>2, LapseEffect DEF AggregatorDrift, IInv, TypeOK
  <2>2. QED
    BY <1>2, <2>1 DEF AggregatorDrift, Reported, Live
<1>3. QED
  BY <1>1, <1>2

\* Every step is one of these.
LEMMA StepCases ==
  ASSUME IInv, [Next]_vars
  PROVE  Still \/ Renewed \/ Dropped \/ Closed \/ Requested \/ Reported
<1>1. ASSUME NEW p \in Procs, UserStep(p)
      PROVE  Still \/ Renewed
  BY <1>1, Renewals DEF UserStep, SubmitProvision, SubmitRelease, SubmitTerminate, SubmitModify,
     SubmitForm, SubmitRetry, StartTask, Retry, Abort, Still, SameIds, Ended, aggVars
<1>2. ASSUME NEW p \in Procs, Work(p)
      PROVE  Still \/ Renewed \/ Dropped \/ Closed \/ Requested
  <2>1. StepFails(p) => Still
    BY DEF StepFails, Still, SameIds, Ended, aggVars
  <2>2. QED
    BY <1>2, <2>1, LockedSteps, RecordedResults, Endings, Renewals, Drops, Requests DEF Work
<1>3. ASSUME NEW p \in Procs, Callback(p) \/ Timeout(p)
      PROVE  Still
  BY <1>3 DEF Callback, Timeout, Still, SameIds, Ended, aggVars
<1>4. CASE OpenRetry \/ SetInSync
  BY <1>4 DEF OpenRetry, SetInSync, Still, SameIds, Ended, aggVars, IInv, TypeOK, SubType
<1>5. ASSUME NEW g \in ReservationId, AggregatorStep(g) \/ AggregatorDrift(g)
      PROVE  Reported
  BY <1>5, Reports
<1>6. CASE UNCHANGED vars
  BY <1>6 DEF vars, Still, SameIds, Ended
<1>7. QED
  BY <1>1, <1>2, <1>3, <1>4, <1>5, <1>6 DEF Next

\* The connection id is never lost while its reservation is not terminated.
THEOREM HandleIsKept == Spec => HandleKept
<1>1. ASSUME IInv, [Next]_vars, sub.conn # NoConn, sub'.conn # sub.conn
      PROVE  agg[sub.conn].status = "TERMINATED"
  <2>1. sub.conn = sub.gid
    BY <1>1 DEF IInv, ConnKnown
  <2>2. QED
    BY <1>1, <2>1, StepCases DEF Still, SameIds, Renewed, Dropped, Closed, Requested, Reported
<1>2. IInv /\ [Next]_vars =>
        [sub.conn # NoConn /\ sub'.conn # sub.conn => agg[sub.conn].status = "TERMINATED"]_vars
  BY <1>1
<1>3. QED
  BY <1>2, Invariance, PTL DEF Spec, HandleKept

\* A circuit that has ended stays ended, reconcile and late workflows included.
THEOREM EndedForGood == Spec => TerminatedForGood
<1>1. ASSUME IInv, [Next]_vars, sub.state = "TERMINATED"
      PROVE  sub'.state = "TERMINATED"
  BY <1>1, StepCases DEF Still, Renewed, Dropped, Closed, Requested, Reported, Ended
<1>2. IInv /\ [Next]_vars => [sub.state = "TERMINATED" => sub'.state = "TERMINATED"]_vars
  BY <1>1
<1>3. QED
  BY <1>2, Invariance, PTL DEF Spec, TerminatedForGood

\* A reservation that is held is given up only by a stale retry form, after the user
\* overrode the lock on a circuit that had lost its connection id.
THEOREM OnlyStaleFormsLeaveBehind == Spec => LeftBehindOnlyByStaleForms
<1>1. ASSUME IInv, [Next]_vars, ~HoldsNothing, sub'.gid # sub.gid
      PROVE  HandleLost
  BY <1>1, StepCases DEF Still, SameIds, Renewed, Dropped, Closed, Requested, Reported
<1>2. IInv /\ [Next]_vars =>
        [ ~HoldsNothing /\ sub'.gid # sub.gid
            => /\ drifted /\ sub.conn = NoConn
               /\ forms # {} /\ \A r \in forms : r # sub.gid /\ agg[r].status = "TERMINATED" ]_vars
  BY <1>1 DEF HandleLost
<1>3. QED
  BY <1>2, Invariance, PTL DEF Spec, LeftBehindOnlyByStaleForms

\* The workflows and the aggregator together implement the ledger: only the current
\* reservation is acquired, ids are renewed only while nothing is held under them or
\* the handle is lost, and an ended circuit acquires nothing.
THEOREM LedgerImplemented == Spec => ImplementsLedger
<1>1. Init => Ledger!LedgerInit
  BY DEF Init, AggInit, Ledger!LedgerInit, Live, NoConn
<1>2. ASSUME IInv, [Next]_vars
      PROVE  Ledger!LedgerNext
  <2> DEFINE Lives == {g \in ReservationId : Live(g)}
  <2>1. (drifted /\ sub.conn = NoConn)' \in BOOLEAN
    OBVIOUS
  <2>2. CASE Still \/ Dropped
    <3>1. sub'.gid = sub.gid /\ Lives' = Lives /\ (Ended' <=> Ended)
      BY <2>2 DEF Still, SameIds, Dropped, Live
    <3>2. QED
      BY <2>1, <3>1 DEF Ended, Ledger!LedgerNext, Ledger!Told
  <2>3. CASE Renewed
    <3>1. /\ sub.gid \notin Lives \/ (drifted /\ sub.conn = NoConn)
          /\ ~Ended /\ sub'.gid = sub.gid + 1 /\ Lives' = Lives /\ ~Ended'
      BY <2>3 DEF Renewed, HoldsNothing, HandleLost, Live
    <3>2. QED
      BY <2>1, <3>1 DEF Ended, Ledger!LedgerNext, Ledger!Renew
  <2>4. CASE Closed
    <3>1. sub.gid \notin Lives /\ sub'.gid = sub.gid /\ Lives' = Lives /\ Ended'
      BY <2>4 DEF Closed, SameIds, HoldsNothing, Live
    <3>2. QED
      BY <2>1, <3>1 DEF Ended, Ledger!LedgerNext, Ledger!End
  <2>5. CASE Requested
    <3>1. CASE \A g \in ReservationId : Live(g)' <=> Live(g)
      <4>1. sub'.gid = sub.gid /\ Lives' = Lives /\ (Ended' <=> Ended)
        BY <2>5, <3>1 DEF Requested
      <4>2. QED
        BY <2>1, <4>1 DEF Ended, Ledger!LedgerNext, Ledger!Told
    <3>2. CASE /\ sub.gid \in ReservationId /\ ~Ended /\ ~Live(sub.gid)
               /\ \A g \in ReservationId : Live(g)' <=> (Live(g) \/ g = sub.gid)
      <4>1. /\ sub.gid \notin Lives /\ ~Ended /\ sub.gid # 0
            /\ sub'.gid = sub.gid /\ (Ended' <=> Ended)
        BY <2>5, <3>2, ReservationsAssumption DEF Requested, ReservationId
      <4>2. Lives' = Lives \cup {sub.gid}
        BY <3>2
      <4>3. QED
        BY <2>1, <4>1, <4>2 DEF Ended, Ledger!LedgerNext, Ledger!Acquire
    <3>3. QED
      BY <2>5, <3>1, <3>2 DEF Requested
  <2>6. CASE Reported
    <3>1. PICK g \in ReservationId : Live(g) /\ \A h \in ReservationId : h # g => (Live(h)' <=> Live(h))
      BY <2>6 DEF Reported
    <3>2. g \in Lives /\ (Lives' = Lives \/ Lives' = Lives \ {g})
      BY <3>1
    <3>3. sub'.gid = sub.gid /\ (Ended' <=> Ended)
      BY <2>6 DEF Reported, Ended
    <3>4. QED
      BY <2>1, <3>2, <3>3 DEF Ended, Ledger!LedgerNext, Ledger!Told, Ledger!Relinquish
  <2>7. QED
    BY <1>2, <2>2, <2>3, <2>4, <2>5, <2>6, StepCases
<1>3. QED
  BY <1>1, <1>2, Invariance, PTL DEF Spec, ImplementsLedger, Ledger!LedgerSpec

-----------------------------------------------------------------------------
(* The refinement of SubscriptionLock: what each step does to the lock *)

HeldIn(f) == {p \in Procs : f[p].run # "idle" /\ f[p].step # "lock"}
KeptIn(s) == IF s.status = "none" THEN {} ELSE {[s EXCEPT !.insync = FALSE]}

Untouched == HeldIn(proc') = HeldIn(proc) /\ sub'.insync = sub.insync /\ KeptIn(sub') = KeptIn(sub)

\* A step that touches neither the holder nor what is stored is none of the lock.
LEMMA NothingTouched ==
  ASSUME Untouched
  PROVE  UNCHANGED Locking!lockVars
  BY DEF Untouched, HeldIn, KeptIn, Holding, Unfinished, Locking!lockVars

\* There is one subscription, so a step cannot touch another.
LEMMA OnlyThis == Locking!Only("mdp2p")
<1> DEFINE Held == [s \in {"mdp2p"} |-> HeldIn(proc)]
           InSync == [s \in {"mdp2p"} |-> sub.insync]
           Stores == [s \in {"mdp2p"} |-> KeptIn(sub)]
<1>1. Held' = [Held EXCEPT !["mdp2p"] = Held'["mdp2p"]]
  OBVIOUS
<1>2. InSync' = [InSync EXCEPT !["mdp2p"] = InSync'["mdp2p"]]
  OBVIOUS
<1>3. Stores' = [Stores EXCEPT !["mdp2p"] = Stores'["mdp2p"]]
  OBVIOUS
<1>4. QED
  BY <1>1, <1>2, <1>3 DEF Locking!Only, HeldIn, KeptIn, Holding, Unfinished

\* The steps of the lock that a process takes: making, taking, changing, giving back.
LEMMA Touched ==
  ASSUME NEW p \in Procs,
         \/ /\ KeptIn(sub) = {} /\ KeptIn(sub') # {} /\ HeldIn(proc) = {} /\ HeldIn(proc') = {p}
            /\ ~sub.insync /\ ~sub'.insync
         \/ /\ KeptIn(sub') = KeptIn(sub) /\ HeldIn(proc) = {} /\ HeldIn(proc') = {p}
            /\ sub.insync /\ ~sub'.insync
         \/ /\ KeptIn(sub') \notin {{}, KeptIn(sub)} /\ HeldIn(proc) = {p} /\ HeldIn(proc') = {p}
            /\ ~sub.insync /\ ~sub'.insync
         \/ /\ KeptIn(sub') = KeptIn(sub) /\ HeldIn(proc) = {p} /\ HeldIn(proc') = {}
            /\ ~sub.insync /\ sub'.insync \in BOOLEAN
  PROVE  Locking!LockNext
<1>1. \/ Locking!Make("mdp2p") \/ Locking!Take("mdp2p") \/ Locking!Change("mdp2p")
      \/ Locking!Complete("mdp2p") \/ Locking!Abandon("mdp2p")
  BY DEF HeldIn, KeptIn, Holding, Unfinished, Locking!Make, Locking!Take, Locking!Change,
     Locking!Complete, Locking!Abandon, Locking!Free, Locking!Held
<1>2. QED
  BY <1>1, OnlyThis DEF Locking!LockNext

\* Who is past the lock is the only one, and the subscription is locked and made.
LEMMA HeldByOne ==
  ASSUME IInv, NEW p \in Procs, Holding(p)
  PROVE  HeldIn(proc) = {p} /\ ~sub.insync /\ sub.status # "none"
  BY DEF IInv, LockExclusive, Unborn, Holding, Unfinished, HeldIn

\* Nobody is past the lock of a subscription in sync.
LEMMA HeldByNone ==
  ASSUME IInv, sub.insync
  PROVE  HeldIn(proc) = {} /\ sub.status # "none"
  BY DEF IInv, LockExclusive, Unborn, Holding, Unfinished, HeldIn

\* A step under the lock writes to the subscription or leaves it alone.
LEMMA WrittenByHolder ==
  ASSUME IInv, IInv', NEW p \in Procs, Holding(p),
         proc'[p].run # "idle", proc'[p].step # "lock",
         \A q \in Procs : q # p => proc'[q] = proc[q],
         ~sub'.insync, sub'.status # "none"
  PROVE  [Locking!LockNext]_Locking!lockVars
<1>1. HeldIn(proc) = {p} /\ ~sub.insync /\ sub.status # "none"
  BY HeldByOne
<1>2. HeldIn(proc') = HeldIn(proc)
  BY DEF HeldIn, Holding, Unfinished
<1>3. sub.insync \in BOOLEAN /\ sub'.insync \in BOOLEAN
  BY DEF IInv, TypeOK, SubType
<1>4. KeptIn(sub') # {}
  BY DEF KeptIn
<1>5. CASE KeptIn(sub') = KeptIn(sub)
  BY <1>1, <1>2, <1>3, <1>5, NothingTouched DEF Untouched
<1>6. CASE KeptIn(sub') # KeptIn(sub)
  <2>1. KeptIn(sub') \notin {{}, KeptIn(sub)} /\ HeldIn(proc') = {p}
    BY <1>1, <1>2, <1>4, <1>6
  <2>2. QED
    BY <1>1, <2>1, Touched
<1>7. QED
  BY <1>5, <1>6

\* A step that commits under the lock keeps the lock.
LEMMA AdvancedByHolder ==
  ASSUME IInv, IInv', NEW p \in Procs, Holding(p), NEW s \in Step \ {"lock"}, Advance(p, s),
         ~sub'.insync, sub'.status # "none"
  PROVE  [Locking!LockNext]_Locking!lockVars
<1>1. SlotBecomes(p, proc[p].wf, s, proc[p].run, proc[p].callback, "none")
  BY AdvanceEffect DEF IInv, TypeOK
<1>2. QED
  BY <1>1, WrittenByHolder DEF SlotBecomes, Holding, Unfinished

\* Slots that stay on their side of the lock.
LEMMA SlotStays ==
  ASSUME NEW p \in Procs, UNCHANGED sub, \A q \in Procs : q # p => proc'[q] = proc[q],
         (proc'[p].run # "idle" /\ proc'[p].step # "lock") <=> Holding(p)
  PROVE  UNCHANGED Locking!lockVars
<1>1. HeldIn(proc') = HeldIn(proc)
  BY DEF HeldIn, Holding, Unfinished
<1>2. QED
  BY <1>1, NothingTouched DEF Untouched

\* The lifecycle steps and the steps that look at the aggregator, under the lock.
LEMMA LifecycleUnderLock ==
  ASSUME IInv, IInv', NEW p \in Procs,
         \/ SetStatusProvisioning(p) \/ SetStatusActive(p) \/ SetStatusTerminated(p)
         \/ UpdateLabel(p) \/ UpdateSubscription(p) \/ DropConnection(p)
         \/ ReconcileConnectionState(p) \/ ValidateReservation(p)
  PROVE  [Locking!LockNext]_Locking!lockVars
<1>1. /\ Holding(p) /\ proc[p].step \in Step \ {"lock"}
      /\ sub \in [status : Lifecycle, insync : BOOLEAN, state : ConnectionState,
                  conn : 0..MaxReservations, gid : 0..MaxReservations, lastError : ErrorSource]
  BY DEF SetStatusProvisioning, SetStatusActive, SetStatusTerminated, UpdateLabel,
     UpdateSubscription, DropConnection, ReconcileConnectionState, ValidateReservation,
     At, Holding, Unfinished, Step, IInv, TypeOK, SubType
<1>2. ~sub.insync /\ sub.status # "none"
  BY <1>1, HeldByOne
<1>3. ~sub'.insync /\ sub'.status # "none"
  BY <1>1, <1>2 DEF SetStatusProvisioning, SetStatusActive, SetStatusTerminated, UpdateLabel,
     UpdateSubscription, DropConnection, ReconcileConnectionState, ValidateReservation
<1>4. \E s \in Step \ {"lock"} : Advance(p, s)
  <2>1. CASE SetStatusProvisioning(p)
    <3>1. AfterProvisioning(proc[p].wf) \in Step \ {"lock"}
      BY <2>1 DEF SetStatusProvisioning, At, IInv, WorkflowShape, AfterProvisioning, Step
    <3>2. QED
      BY <2>1, <3>1 DEF SetStatusProvisioning
  <2>2. CASE SetStatusActive(p) \/ SetStatusTerminated(p)
    BY <2>2 DEF SetStatusActive, SetStatusTerminated, Step
  <2>3. CASE UpdateLabel(p) \/ UpdateSubscription(p) \/ DropConnection(p)
    BY <2>3 DEF UpdateLabel, UpdateSubscription, DropConnection, Step
  <2>4. CASE ReconcileConnectionState(p) \/ ValidateReservation(p)
    BY <2>4 DEF ReconcileConnectionState, ValidateReservation, Step
  <2>5. QED
    BY <2>1, <2>2, <2>3, <2>4
<1>5. QED
  BY <1>1, <1>3, <1>4, AdvancedByHolder

\* The validate steps of the callback steps, under the lock.
LEMMA ResultsUnderLock ==
  ASSUME IInv, IInv', NEW p \in Procs,
         \/ ProcessReservationResult(p) \/ ProcessProvisionResult(p)
         \/ ProcessReleaseResult(p) \/ ProcessTerminateResult(p)
  PROVE  [Locking!LockNext]_Locking!lockVars
<1>1. ASSUME NEW s \in Step \ {"lock"}, NEW event, NEW error, NEW next \in Step \ {"lock"},
             Record(p, s, event, error, next)
      PROVE  [Locking!LockNext]_Locking!lockVars
  <2>1. Holding(p) /\ Advance(p, next)
    BY <1>1 DEF Record, At, Holding, Unfinished
  <2>2. ~sub.insync /\ sub.status # "none"
    BY <2>1, HeldByOne
  <2>3. ~sub'.insync /\ sub'.status # "none"
    BY <1>1, <2>2 DEF Record, IInv, TypeOK, SubType
  <2>4. QED
    BY <2>1, <2>3, AdvancedByHolder
<1>2. {"reserve", "provision", "release", "terminate", "activate", "close"} \subseteq Step \ {"lock"}
  BY DEF Step
<1>3. CASE ProcessReservationResult(p)
  BY <1>1, <1>2, <1>3 DEF ProcessReservationResult
<1>4. CASE ProcessProvisionResult(p)
  BY <1>1, <1>2, <1>4 DEF ProcessProvisionResult
<1>5. CASE ProcessReleaseResult(p)
  BY <1>1, <1>2, <1>5 DEF ProcessReleaseResult
<1>6. CASE ProcessTerminateResult(p)
  BY <1>1, <1>2, <1>6 DEF ProcessTerminateResult
<1>7. QED
  BY <1>3, <1>4, <1>5, <1>6

\* The action steps of the callback steps, under the lock: a lost response leaves the
\* process failed at its step, which still holds it.
LEMMA RequestsUnderLock ==
  ASSUME IInv, IInv', NEW p \in Procs,
         \/ ReserveConnection(p) \/ ProvisionConnection(p)
         \/ ReleaseConnection(p) \/ TerminateConnection(p)
  PROVE  [Locking!LockNext]_Locking!lockVars
<1>1. PICK op \in {"reserve", "provision", "release", "terminate"} :
        /\ At(p, op) /\ callbacks' \in 0..MaxCallbacks
        /\ Await(p, callbacks') \/ Fail(p)
        /\ sub' = sub \/ sub' = [sub EXCEPT !.conn = sub.gid]
  BY DEF ReserveConnection, ProvisionConnection, ReleaseConnection, TerminateConnection,
     FireOnConnection, Fire, IInv, TypeOK, CounterType
<1>2. Holding(p)
  BY <1>1 DEF At, Holding, Unfinished
<1>3. /\ proc'[p].run # "idle" /\ proc'[p].step # "lock"
      /\ \A q \in Procs : q # p => proc'[q] = proc[q]
  <2>1. PICK c \in 0..MaxCallbacks : Await(p, c) \/ Fail(p)
    BY <1>1
  <2>2. QED
    BY <1>1, <2>1, AwaitEffect, FailEffect DEF SlotBecomes, At, IInv, TypeOK
<1>4. ~sub'.insync /\ sub'.status # "none"
  BY <1>1, <1>2, HeldByOne DEF IInv, TypeOK, SubType
<1>5. QED
  BY <1>2, <1>3, <1>4, WrittenByHolder

\* Create makes the subscription and works on it from then on.
LEMMA CreateMakes ==
  ASSUME IInv, IInv', NEW p \in Procs, ConstructMdp2pModel(p)
  PROVE  Locking!LockNext
<1>1. ~Unfinished(p) /\ sub.status = "none" /\ ~sub.insync /\ \A q \in Procs : ~Unfinished(q)
  BY DEF IInv, Unborn, ConstructMdp2pModel
<1>2. SlotBecomes(p, "create", "reserve", "running", 0, "none")
  BY EnterEffect DEF IInv, TypeOK, ConstructMdp2pModel, Step, Workflow, FormWorkflow, TaskWorkflow
<1>3. HeldIn(proc) = {} /\ HeldIn(proc') = {p}
  BY <1>1, <1>2 DEF HeldIn, Unfinished, SlotBecomes
<1>4. ~sub'.insync /\ sub'.status # "none"
  BY <1>1 DEF ConstructMdp2pModel, IInv, TypeOK, SubType
<1>5. KeptIn(sub) = {} /\ KeptIn(sub') # {}
  BY <1>1, <1>4 DEF KeptIn
<1>6. QED
  BY <1>1, <1>3, <1>4, <1>5, Touched

\* The insync flag is no part of what is stored.
LEMMA FlagNotStored ==
  ASSUME IInv, NEW x \in BOOLEAN, sub' = [sub EXCEPT !.insync = x]
  PROVE  KeptIn(sub') = KeptIn(sub) /\ sub'.insync = x
<1>1. sub \in [status : Lifecycle, insync : BOOLEAN, state : ConnectionState,
               conn : 0..MaxReservations, gid : 0..MaxReservations, lastError : ErrorSource]
  BY DEF IInv, TypeOK, SubType
<1>2. /\ sub'.insync = x /\ sub'.status = sub.status
      /\ [sub' EXCEPT !.insync = FALSE] = [sub EXCEPT !.insync = FALSE]
  BY <1>1
<1>3. QED
  BY <1>2 DEF KeptIn

\* The lock step finds the subscription in sync, so nobody else is past the lock.
LEMMA LockTakes ==
  ASSUME IInv, IInv', NEW p \in Procs, Lock(p)
  PROVE  Locking!LockNext
<1>1. /\ proc[p].run = "running" /\ proc[p].step = "lock" /\ sub.insync
      /\ proc[p].wf \in FormWorkflow \cup TaskWorkflow
  BY DEF IInv, Lock, At, WorkflowShape, Unfinished
<1>2. AfterLock(proc[p].wf) \in Step \ {"lock"}
  BY <1>1 DEF AfterLock, Step, FormWorkflow, TaskWorkflow
<1>3. SlotBecomes(p, proc[p].wf, AfterLock(proc[p].wf), proc[p].run, proc[p].callback, "none")
  BY <1>2, AdvanceEffect DEF IInv, TypeOK, Lock
<1>4. HeldIn(proc) = {} /\ HeldIn(proc') = {p}
  BY <1>1, <1>2, <1>3, HeldByNone DEF HeldIn, SlotBecomes
<1>5. KeptIn(sub') = KeptIn(sub) /\ ~sub'.insync
  BY FlagNotStored DEF Lock
<1>6. QED
  BY <1>1, <1>4, <1>5, Touched

\* The last step gives the subscription back, in sync.
LEMMA ResyncCompletes ==
  ASSUME IInv, IInv', NEW p \in Procs, Resync(p)
  PROVE  Locking!LockNext
<1>1. Holding(p)
  BY DEF Resync, At, Holding, Unfinished
<1>2. HeldIn(proc) = {p} /\ ~sub.insync
  BY <1>1, HeldByOne
<1>3. SlotBecomes(p, "none", "none", "idle", 0, "none")
  BY FinishEffect DEF IInv, TypeOK, Resync
<1>4. HeldIn(proc') = {}
  BY <1>2, <1>3 DEF HeldIn, SlotBecomes
<1>5. KeptIn(sub') = KeptIn(sub) /\ sub'.insync \in BOOLEAN
  BY FlagNotStored DEF Resync
<1>6. QED
  BY <1>2, <1>4, <1>5, Touched

\* An aborted process gives the lock up, if it had taken it.
LEMMA AbortAbandons ==
  ASSUME IInv, IInv', NEW p \in Procs, Abort(p)
  PROVE  [Locking!LockNext]_Locking!lockVars
<1>1. SlotBecomes(p, "none", "none", "idle", 0, "none") /\ sub' = sub
  BY FinishEffect DEF IInv, TypeOK, Abort
<1>2. CASE Holding(p)
  <2>1. HeldIn(proc) = {p} /\ ~sub.insync
    BY <1>2, HeldByOne
  <2>2. HeldIn(proc') = {}
    BY <1>1, <2>1 DEF HeldIn, SlotBecomes
  <2>3. KeptIn(sub') = KeptIn(sub) /\ sub'.insync \in BOOLEAN
    BY <1>1 DEF IInv, TypeOK, SubType
  <2>4. QED
    BY <2>1, <2>2, <2>3, Touched
<1>3. CASE ~Holding(p)
  BY <1>1, <1>3, SlotStays DEF SlotBecomes
<1>4. QED
  BY <1>2, <1>3

\* The user sets in sync only what nobody works on.
LEMMA SetInSyncOverrides ==
  ASSUME IInv, SetInSync
  PROVE  Locking!LockNext
<1>1. HeldIn(proc) = {} /\ HeldIn(proc') = {}
  BY DEF SetInSync, HeldIn, Unfinished
<1>2. ~sub.insync /\ sub.status # "none" /\ KeptIn(sub') = KeptIn(sub) /\ sub'.insync
  BY FlagNotStored DEF SetInSync
<1>3. Locking!Override("mdp2p")
  BY <1>1, <1>2 DEF HeldIn, KeptIn, Holding, Unfinished, Locking!Override, Locking!Free
<1>4. QED
  BY <1>3, OnlyThis DEF Locking!LockNext

\* Submitting, failing, timing out, retrying and being called back move no process
\* across the lock.
LEMMA OffTheLock ==
  ASSUME IInv, NEW p \in Procs,
         \/ \E wf \in FormWorkflow, states \in SUBSET ConnectionState : SubmitForm(p, wf, states)
         \/ SubmitRetry(p)
         \/ \E wf \in TaskWorkflow : StartTask(p, wf)
         \/ StepFails(p) \/ Timeout(p) \/ Retry(p) \/ Callback(p)
  PROVE  UNCHANGED Locking!lockVars
<1>1. TypeOK /\ ProcType /\ sub' = sub
  BY DEF IInv, TypeOK, SubmitForm, SubmitRetry, StartTask, StepFails, Timeout, Retry, Callback
<1>2. ASSUME NEW wf \in FormWorkflow \cup TaskWorkflow, ~Unfinished(p), Enter(p, wf, "lock")
      PROVE  UNCHANGED Locking!lockVars
  <2>1. SlotBecomes(p, wf, "lock", "running", 0, "none")
    BY <1>1, <1>2, EnterEffect DEF Workflow, Step
  <2>2. QED
    BY <1>1, <1>2, <2>1, SlotStays DEF SlotBecomes, Holding
<1>3. ASSUME NEW run \in {"running", "failed"}, NEW c, NEW x, Unfinished(p),
             SlotBecomes(p, proc[p].wf, proc[p].step, run, c, x)
      PROVE  UNCHANGED Locking!lockVars
  BY <1>1, <1>3, SlotStays DEF SlotBecomes, Holding
<1>4. CASE \/ \E wf \in FormWorkflow, states \in SUBSET ConnectionState : SubmitForm(p, wf, states)
           \/ SubmitRetry(p)
           \/ \E wf \in TaskWorkflow : StartTask(p, wf)
  BY <1>2, <1>4 DEF SubmitForm, SubmitRetry, StartTask, FormWorkflow
<1>5. CASE StepFails(p) \/ Timeout(p)
  BY <1>1, <1>3, <1>5, FailEffect DEF StepFails, Timeout, Unfinished
<1>6. CASE Retry(p)
  <2>1. Unfinished(p)
    BY <1>6 DEF Retry, Unfinished
  <2>2. QED
    BY <1>1, <1>3, <1>6, <2>1, RetryEffect
<1>7. CASE Callback(p)
  <2>1. Unfinished(p)
    BY <1>7 DEF Callback, Unfinished
  <2>2. QED
    BY <1>1, <1>3, <1>7, <2>1, CallbackEffect
<1>8. QED
  BY <1>4, <1>5, <1>6, <1>7

\* The eight workflows implement the lock: through failures, timeouts, retries, aborts
\* and overrides, what is stored of the circuit is written only by the one process that
\* took it in sync, or made it, and has not ended since.
THEOREM WorkflowsKeepLock == Spec => KeepsTheLock
<1>1. Init => Locking!LockInit
  BY DEF Init, IdleProc, Holding, Unfinished, Locking!LockInit
<1>2. ASSUME IInv, IInv', [Next]_vars
      PROVE  [Locking!LockNext]_Locking!lockVars
  <2>1. ASSUME NEW p \in Procs, UserStep(p) \/ Work(p) \/ Callback(p) \/ Timeout(p)
        PROVE  [Locking!LockNext]_Locking!lockVars
    <3>1. CASE SubmitProvision(p) \/ SubmitRelease(p) \/ SubmitTerminate(p) \/ SubmitModify(p)
      <4>1. \E wf \in FormWorkflow, states \in SUBSET ConnectionState : SubmitForm(p, wf, states)
        BY <3>1 DEF SubmitProvision, SubmitRelease, SubmitTerminate, SubmitModify, FormWorkflow,
           ConnectionState, StableStatus, TerminableStates
      <4>2. QED
        BY <1>2, <4>1, OffTheLock
    <3>2. CASE ~(SubmitProvision(p) \/ SubmitRelease(p) \/ SubmitTerminate(p) \/ SubmitModify(p))
      BY <1>2, <2>1, <3>2, CreateMakes, AbortAbandons, OffTheLock, LockTakes, ResyncCompletes,
         LifecycleUnderLock, ResultsUnderLock, RequestsUnderLock DEF UserStep, Work
    <3>3. QED
      BY <3>1, <3>2
  <2>2. CASE OpenRetry \/ SetInSync
    <3>1. CASE OpenRetry
      <4>1. Untouched
        BY <3>1 DEF OpenRetry, Untouched
      <4>2. QED
        BY <4>1, NothingTouched
    <3>2. CASE SetInSync
      BY <1>2, <3>2, SetInSyncOverrides
    <3>3. QED
      BY <2>2, <3>1, <3>2
  <2>3. ASSUME NEW g \in ReservationId, AggregatorStep(g) \/ AggregatorDrift(g)
        PROVE  UNCHANGED Locking!lockVars
    <3>1. Untouched
      BY <2>3 DEF AggregatorStep, AggregatorDrift, Untouched
    <3>2. QED
      BY <3>1, NothingTouched
  <2>4. CASE UNCHANGED vars
    <3>1. Untouched
      BY <2>4 DEF vars, Untouched
    <3>2. QED
      BY <3>1, NothingTouched
  <2>5. QED
    BY <1>2, <2>1, <2>2, <2>3, <2>4 DEF Next
<1>3. QED
  BY <1>1, <1>2, Invariance, PTL DEF Spec, KeepsTheLock, Locking!LockSpec

====
