--------------------------- MODULE Mdp2pConnection ---------------------------
(***************************************************************************)
(* One multi domain point-to-point subscription, the workflow processes    *)
(* that work on it concurrently, and its reservations at the aggregator.   *)
(*                                                                         *)
(* The workflows are those of workflows/mdp2p: create, provision, release, *)
(* modify, retry_reservation, terminate, reconcile and validate.  A        *)
(* process is a slot of Procs: when its workflow completes or is aborted,  *)
(* the slot is idle again and a new process may start in it.               *)
(*                                                                         *)
(* orchestrator-core, which runs the workflows, is a library.  What the    *)
(* model takes from it, as the workflows use it:                           *)
(*  - a start form is evaluated, and then the process is started, which    *)
(*    locks the subscription later, in a step of its own (Lock) that fails *)
(*    while the subscription is out of sync;                               *)
(*  - every step reads the subscription from the database and commits what *)
(*    it changed when it ends; a step that raises changes nothing there;   *)
(*  - a callback_step runs its action with a fresh callback route, waits,  *)
(*    and runs its validate step with the result POSTed to that route;     *)
(*  - a failed process keeps the subscription locked until the user        *)
(*    retries it, which repeats the failed (callback) step from its        *)
(*    start, or aborts it, which leaves the subscription out of sync;      *)
(*  - a user may set an out-of-sync subscription in sync when no process   *)
(*    is unfinished.                                                       *)
(***************************************************************************)
EXTENDS Aggregator, ConnectionFsm, FiniteSets

CONSTANTS
  Procs,         \* process slots
  MaxCallbacks   \* bound: requests that reach the aggregator in a run

ASSUME CallbacksAssumption == MaxCallbacks \in Nat

VARIABLES
  sub,        \* the subscription: lifecycle status, insync flag and vc block
  proc,       \* process slot -> [wf, step, run, callback, result]
  callbacks,  \* callback routes handed out so far
  forms,      \* connection ids that retry forms have read so far
  drifted     \* history: the two sides may differ for a reason outside the
              \* workflows (Lapse, or a user overriding the lock)

vars == <<sub, proc, callbacks, forms, drifted, agg, posted>>

NoConn == 0

Lifecycle == {"none", "PROVISIONING", "ACTIVE", "TERMINATED"}

\* Where the error comes from that is stored with the state of the connection.
ErrorSource == {"none", "callback", "aggregator"}

\* States of vc that two of the forms accept.
RetryableStates == {"CREATED", "FAILED"}
TerminableStates == {"RESERVED", "FAILED", "TERMINATED"}

FormWorkflow == {"provision", "release", "terminate", "retry", "modify"}
TaskWorkflow == {"reconcile", "validate"}
Workflow == FormWorkflow \cup TaskWorkflow \cup {"create"}

Step == {"lock", "provisioning", "reserve", "provision", "release", "terminate",
         "update", "relabel", "activate", "close", "reconcile", "validate", "resync"}

IdleProc == [wf |-> "none", step |-> "none", run |-> "idle", callback |-> 0, result |-> "none"]

Init ==
  /\ sub = [status |-> "none", insync |-> FALSE, state |-> "CREATED",
            conn |-> NoConn, gid |-> 0, lastError |-> "none"]
  /\ proc = [p \in Procs |-> IdleProc]
  /\ callbacks = 0 /\ forms = {}
  /\ drifted = FALSE
  /\ AggInit

-----------------------------------------------------------------------------
(* Processes *)

Unfinished(p) == proc[p].run # "idle"
Holding(p) == Unfinished(p) /\ proc[p].step # "lock"   \* has locked the subscription
At(p, s) == proc[p].run = "running" /\ proc[p].step = s
HasResult(p) == proc[p].result # "none"

Enter(p, wf, s) ==
  proc' = [proc EXCEPT ![p] = [wf |-> wf, step |-> s, run |-> "running",
                               callback |-> 0, result |-> "none"]]
Advance(p, s) ==
  proc' = [proc EXCEPT ![p] = [@ EXCEPT !.step = s, !.result = "none"]]
Await(p, c) ==
  proc' = [proc EXCEPT ![p] = [@ EXCEPT !.run = "awaiting", !.callback = c]]
Fail(p) ==
  proc' = [proc EXCEPT ![p] = [@ EXCEPT !.run = "failed", !.callback = 0, !.result = "none"]]
Finish(p) == proc' = [proc EXCEPT ![p] = IdleProc]

\* The MultiDomainPoint2Point class, whose connection_id is not optional, can
\* be built from the subscription.
LoadsActive == sub.conn # NoConn

\* The create form and construct_mdp2p_model, with the step that stores the process.
ConstructMdp2pModel(p) ==
  /\ ~Unfinished(p) /\ sub.status = "none" /\ sub.gid < MaxReservations
  /\ sub' = [sub EXCEPT !.status = "PROVISIONING", !.state = "CREATED", !.gid = @ + 1]
  /\ Enter(p, "create", "reserve")
  /\ UNCHANGED <<callbacks, forms, drifted, aggVars>>

\* What a form finds: an in-sync subscription that loads, in one of the given states.
Finds(states) ==
  sub.insync /\ sub.status # "TERMINATED" /\ LoadsActive /\ sub.state \in states

\* Fault for the sensitivity check: the form does not load the vc block.
SubmitFormUnloaded(p, wf, states) ==
  /\ ~Unfinished(p) /\ sub.insync /\ sub.status # "TERMINATED" /\ sub.state \in states
  /\ Enter(p, wf, "lock")
  /\ UNCHANGED <<sub, callbacks, forms, drifted, aggVars>>

\* A form that asks nobody but the database: it is evaluated once more when it is
\* submitted, right before the process starts.
SubmitForm(p, wf, states) ==
  /\ ~Unfinished(p) /\ Finds(states)
  /\ Enter(p, wf, "lock")
  /\ UNCHANGED <<sub, callbacks, forms, drifted, aggVars>>

SubmitProvision(p) == SubmitForm(p, "provision", {"RESERVED"})
SubmitRelease(p) == SubmitForm(p, "release", {"ACTIVATED"})
SubmitTerminate(p) == SubmitForm(p, "terminate", TerminableStates)
SubmitModify(p) == SubmitForm(p, "modify", ConnectionState)

\* The form of retry asks the dds-proxy and the aggregator after it has read the
\* subscription, which others may change before its process starts.  Several users
\* may be there with the same answer, so what was read may be submitted again.
OpenRetry ==
  /\ Finds(RetryableStates)
  /\ forms' = forms \cup {sub.conn}
  /\ UNCHANGED <<sub, proc, callbacks, drifted, aggVars>>

SubmitRetry(p) ==
  /\ ~Unfinished(p) /\ forms # {}
  /\ Enter(p, "retry", "lock")
  /\ UNCHANGED <<sub, callbacks, forms, drifted, aggVars>>

\* A user or the scheduler starts a workflow that has no form of its own.
StartTask(p, wf) ==
  /\ ~Unfinished(p) /\ sub.insync /\ sub.status # "TERMINATED"
  /\ Enter(p, wf, "lock")
  /\ UNCHANGED <<sub, callbacks, forms, drifted, aggVars>>

\* Fault for the sensitivity check: a FAILED connection is taken to hold nothing.
AfterLockSkipsFailed(wf) ==
  CASE wf \in {"provision", "release", "retry", "modify"} -> "provisioning"
    [] wf = "terminate" -> IF sub.state = "RESERVED" THEN "terminate" ELSE "close"
    [] wf \in TaskWorkflow -> wf

\* The step after the lock.  still_at_aggregator skips terminate's callback step.
AfterLock(wf) ==
  CASE wf \in {"provision", "release", "retry", "modify"} -> "provisioning"
    [] wf = "terminate" -> IF sub.state # "TERMINATED" THEN "terminate" ELSE "close"
    [] wf \in TaskWorkflow -> wf

\* Fault for the sensitivity check: the lock is taken without looking.
LockUnchecked(p) ==
  /\ At(p, "lock")
  /\ sub' = [sub EXCEPT !.insync = FALSE]
  /\ Advance(p, AfterLock(proc[p].wf))
  /\ UNCHANGED <<callbacks, forms, drifted, aggVars>>

Lock(p) ==
  /\ At(p, "lock") /\ sub.insync
  /\ sub' = [sub EXCEPT !.insync = FALSE]
  /\ Advance(p, AfterLock(proc[p].wf))
  /\ UNCHANGED <<callbacks, forms, drifted, aggVars>>

\* Fault for the sensitivity check: retry reserves again without terminating first.
AfterProvisioningNoTerminate(wf) ==
  CASE wf \in {"provision", "release"} -> wf
    [] wf = "modify" -> "relabel"
    [] wf = "retry" -> "update"

\* The step after set_status(PROVISIONING).  has_connection skips retry's
\* terminate step.
AfterProvisioning(wf) ==
  CASE wf \in {"provision", "release"} -> wf
    [] wf = "modify" -> "relabel"
    [] wf = "retry" -> IF sub.conn # NoConn THEN "terminate" ELSE "update"

SetStatusProvisioning(p) ==
  /\ At(p, "provisioning")
  /\ sub' = [sub EXCEPT !.status = "PROVISIONING"]
  /\ Advance(p, AfterProvisioning(proc[p].wf))
  /\ UNCHANGED <<callbacks, forms, drifted, aggVars>>

-----------------------------------------------------------------------------
(* Action steps of the callback steps: fire a request, then wait *)

Fire(p, op, g) ==
  /\ At(p, op) /\ ~HasResult(p)
  /\ g # NoConn /\ callbacks < MaxCallbacks
  /\ callbacks' = callbacks + 1
  /\ Request(op, g, callbacks')
  /\ UNCHANGED <<forms, drifted>>

\* The 202 response can be lost after the aggregator took the request (timeout,
\* connection reset, a worker restart): the step then fails with no connection
\* id stored.
ReserveConnection(p) ==
  /\ Fire(p, "reserve", sub.gid)
  /\ \/ /\ sub' = [sub EXCEPT !.conn = sub.gid]
        /\ Await(p, callbacks')
     \/ /\ Fail(p)
        /\ UNCHANGED sub

FireOnConnection(p, op) ==
  /\ Fire(p, op, sub.conn)
  /\ Await(p, callbacks') \/ Fail(p)
  /\ UNCHANGED sub

ProvisionConnection(p) == FireOnConnection(p, "provision")
ReleaseConnection(p) == FireOnConnection(p, "release")
TerminateConnection(p) == FireOnConnection(p, "terminate")

-----------------------------------------------------------------------------
(* Validate steps of the callback steps: record the result *)

\* apply() raises when the event is not allowed: the step then fails (StepFails).
Record(p, s, event, error, next) ==
  /\ At(p, s) /\ HasResult(p)
  /\ Allowed(sub.state, event)
  /\ sub' = [sub EXCEPT !.state = Apply(sub.state, event), !.lastError = error]
  /\ Advance(p, next)
  /\ UNCHANGED <<callbacks, forms, drifted, aggVars>>

\* lastError accompanies a result exactly when it is FAILED.
ResultError(p) == IF proc[p].result = "FAILED" THEN "callback" ELSE "none"

\* Fault for the sensitivity check: a success does not clear the last error.
ProcessReservationResultKeepsError(p) ==
  IF proc[p].result = "RESERVED"
  THEN Record(p, "reserve", "reserve_confirmed", sub.lastError, "activate")
  ELSE Record(p, "reserve", "reserve_failed", ResultError(p), "activate")

ProcessReservationResult(p) ==
  IF proc[p].result = "RESERVED"
  THEN Record(p, "reserve", "reserve_confirmed", "none", "activate")
  ELSE Record(p, "reserve", "reserve_failed", ResultError(p), "activate")

ProcessProvisionResult(p) ==
  IF proc[p].result = "ACTIVATED"
  THEN Record(p, "provision", "provision_confirmed", "none", "activate")
  ELSE Record(p, "provision", "provision_failed", ResultError(p), "activate")

ProcessReleaseResult(p) ==
  IF proc[p].result = "RESERVED"
  THEN Record(p, "release", "release_confirmed", "none", "activate")
  ELSE Record(p, "release", "release_failed", ResultError(p), "activate")

\* terminate_mdp2p
ProcessTerminateResult(p) ==
  /\ proc[p].wf = "terminate"
  /\ Record(p, "terminate", "terminate", sub.lastError, "close")

\* Fault for the sensitivity check: the connection id goes before the result is in.
DropConnectionEarly(p) ==
  /\ proc[p].wf = "retry" /\ At(p, "terminate")
  /\ sub' = [sub EXCEPT !.conn = NoConn]
  /\ Advance(p, "update")
  /\ UNCHANGED <<callbacks, forms, drifted, aggVars>>

\* retry_reservation: drop the old connection id
DropConnection(p) ==
  /\ proc[p].wf = "retry" /\ At(p, "terminate") /\ HasResult(p)
  /\ sub' = [sub EXCEPT !.conn = NoConn]
  /\ Advance(p, "update")
  /\ UNCHANGED <<callbacks, forms, drifted, aggVars>>

-----------------------------------------------------------------------------
(* The other steps *)

\* Fault for the sensitivity check: the state is set without the state machine.
UpdateSubscriptionUnguarded(p) ==
  /\ At(p, "update") /\ sub.gid < MaxReservations
  /\ sub' = [sub EXCEPT !.gid = @ + 1, !.state = "CREATED"]
  /\ Advance(p, "reserve")
  /\ UNCHANGED <<callbacks, forms, drifted, aggVars>>

\* retry_reservation: new input, a fresh global reservation id, state CREATED
UpdateSubscription(p) ==
  /\ At(p, "update") /\ sub.gid < MaxReservations
  /\ Allowed(sub.state, "retry")
  /\ sub' = [sub EXCEPT !.gid = @ + 1, !.state = Apply(sub.state, "retry")]
  /\ Advance(p, "reserve")
  /\ UNCHANGED <<callbacks, forms, drifted, aggVars>>

\* modify_mdp2p: the two update steps, of which the second loads the ACTIVE class
UpdateLabel(p) ==
  /\ At(p, "relabel") /\ LoadsActive
  /\ Advance(p, "activate")
  /\ UNCHANGED <<sub, callbacks, forms, drifted, aggVars>>

SetStatusActive(p) ==
  /\ At(p, "activate")
  /\ sub' = [sub EXCEPT !.status = "ACTIVE"]
  /\ Advance(p, "resync")
  /\ UNCHANGED <<callbacks, forms, drifted, aggVars>>

SetStatusTerminated(p) ==
  /\ At(p, "close")
  /\ sub' = [sub EXCEPT !.status = "TERMINATED"]
  /\ Advance(p, "resync")
  /\ UNCHANGED <<callbacks, forms, drifted, aggVars>>

\* Fault for the sensitivity check: transient states are copied as well.
ReconcileConnectionStateAny(p) ==
  /\ At(p, "reconcile") /\ LoadsActive
  /\ \E error \in {"none", "aggregator"} :
       sub' = [sub EXCEPT !.state = agg[sub.conn].status, !.lastError = error]
  /\ drifted' = FALSE
  /\ Advance(p, "resync")
  /\ UNCHANGED <<callbacks, forms, aggVars>>

\* Transient states are left alone; a stable one is copied past the state machine,
\* with the error that the aggregator has, in whatever state.  What is read of it
\* and what is committed later is one action: nobody reads vc.state in between.
ReconcileConnectionState(p) ==
  /\ At(p, "reconcile") /\ LoadsActive
  /\ LET status == agg[sub.conn].status IN
       IF status \in StableStatus
       THEN /\ \E error \in {"none", "aggregator"} :
                 sub' = [sub EXCEPT !.state = status, !.lastError = error]
            /\ drifted' = FALSE
       ELSE UNCHANGED <<sub, drifted>>
  /\ Advance(p, "resync")
  /\ UNCHANGED <<callbacks, forms, aggVars>>

\* InconsistentDataError fails the step (StepFails).
ValidateReservation(p) ==
  /\ At(p, "validate") /\ LoadsActive
  /\ agg[sub.conn].status = sub.state /\ sub.conn = sub.gid
  /\ Advance(p, "resync")
  /\ UNCHANGED <<sub, callbacks, forms, drifted, aggVars>>

Resync(p) ==
  /\ At(p, "resync")
  /\ sub' = [sub EXCEPT !.insync = TRUE]
  /\ Finish(p)
  /\ UNCHANGED <<callbacks, forms, drifted, aggVars>>

-----------------------------------------------------------------------------
(* The engine *)

\* Any step may raise: the subscription is already locked or does not load, a
\* proxy refuses or cannot be reached, TransitionNotAllowed, InconsistentDataError,
\* a database error, a worker that died.
StepFails(p) ==
  /\ proc[p].run = "running"
  /\ Fail(p)
  /\ UNCHANGED <<sub, callbacks, forms, drifted, aggVars>>

\* Fault for the sensitivity check: any result resumes a waiting process.
CallbackAnyRoute(p) ==
  /\ proc[p].run = "awaiting"
  /\ \E m \in posted :
       proc' = [proc EXCEPT ![p] = [@ EXCEPT !.run = "running", !.callback = 0, !.result = m.status]]
  /\ UNCHANGED <<sub, callbacks, forms, drifted, aggVars>>

\* Only a result POSTed to the route of the current wait resumes the process.
Callback(p) ==
  /\ proc[p].run = "awaiting"
  /\ \E m \in posted :
       /\ m.callback = proc[p].callback
       /\ proc' = [proc EXCEPT ![p] = [@ EXCEPT !.run = "running", !.callback = 0, !.result = m.status]]
  /\ UNCHANGED <<sub, callbacks, forms, drifted, aggVars>>

\* Fault for the sensitivity check: the sweep looks for running processes.
TimeoutRunning(p) ==
  /\ proc[p].run = "running" /\ HasResult(p)
  /\ Fail(p)
  /\ UNCHANGED <<sub, callbacks, forms, drifted, aggVars>>

\* The awaiting-callback sweep, after AGGREGATOR_CALLBACK_TIMEOUT.
Timeout(p) ==
  /\ proc[p].run = "awaiting"
  /\ Fail(p)
  /\ UNCHANGED <<sub, callbacks, forms, drifted, aggVars>>

Retry(p) ==
  /\ proc[p].run = "failed"
  /\ proc' = [proc EXCEPT ![p] = [@ EXCEPT !.run = "running"]]
  /\ UNCHANGED <<sub, callbacks, forms, drifted, aggVars>>

Abort(p) ==
  /\ proc[p].run = "failed"
  /\ Finish(p)
  /\ UNCHANGED <<sub, callbacks, forms, drifted, aggVars>>

\* Fault for the sensitivity check: the override does not look for unfinished processes.
SetInSyncUnchecked ==
  /\ ~sub.insync /\ sub.status # "none"
  /\ sub' = [sub EXCEPT !.insync = TRUE]
  /\ drifted' = TRUE
  /\ UNCHANGED <<proc, callbacks, forms, aggVars>>

\* The user's override; whether the two sides agree is then unknown.
SetInSync ==
  /\ ~sub.insync /\ sub.status # "none"
  /\ \A p \in Procs : ~Unfinished(p)
  /\ sub' = [sub EXCEPT !.insync = TRUE]
  /\ drifted' = TRUE
  /\ UNCHANGED <<proc, callbacks, forms, aggVars>>

AggregatorStep(g) == Complete(g) /\ UNCHANGED <<sub, proc, callbacks, forms, drifted>>
AggregatorDrift(g) == Lapse(g) /\ drifted' = TRUE /\ UNCHANGED <<sub, proc, callbacks, forms>>

-----------------------------------------------------------------------------
(* What the worker does for a process without anybody's help *)
Work(p) ==
  \/ Lock(p) \/ SetStatusProvisioning(p)
  \/ ReserveConnection(p) \/ ProvisionConnection(p)
  \/ ReleaseConnection(p) \/ TerminateConnection(p)
  \/ ProcessReservationResult(p) \/ ProcessProvisionResult(p)
  \/ ProcessReleaseResult(p) \/ ProcessTerminateResult(p)
  \/ DropConnection(p) \/ UpdateSubscription(p) \/ UpdateLabel(p)
  \/ SetStatusActive(p) \/ SetStatusTerminated(p)
  \/ ReconcileConnectionState(p) \/ ValidateReservation(p)
  \/ Resync(p) \/ StepFails(p)

UserStep(p) ==
  \/ ConstructMdp2pModel(p)
  \/ SubmitProvision(p) \/ SubmitRelease(p) \/ SubmitTerminate(p) \/ SubmitModify(p)
  \/ SubmitRetry(p)
  \/ \E wf \in TaskWorkflow : StartTask(p, wf)
  \/ Retry(p) \/ Abort(p)

Next ==
  \/ \E p \in Procs : UserStep(p) \/ Work(p) \/ Callback(p) \/ Timeout(p)
  \/ OpenRetry \/ SetInSync
  \/ \E g \in ReservationId : AggregatorStep(g) \/ AggregatorDrift(g)

Spec == Init /\ [][Next]_vars

\* The worker runs every process it has, and the scheduler sweeps the awaiting
\* ones; users, the aggregator and its callbacks owe nothing.
FairSpec == Spec /\ \A p \in Procs : WF_vars(Work(p)) /\ WF_vars(Timeout(p))

-----------------------------------------------------------------------------
(* Properties *)

Process == [wf : Workflow \cup {"none"}, step : Step \cup {"none"},
            run : {"idle", "running", "awaiting", "failed"},
            callback : 0..MaxCallbacks, result : StableStatus \cup {"none"}]

SubType ==
  sub \in [status : Lifecycle, insync : BOOLEAN, state : ConnectionState,
          conn : 0..MaxReservations, gid : 0..MaxReservations, lastError : ErrorSource]
ProcType == proc \in [Procs -> Process]
CounterType == callbacks \in 0..MaxCallbacks /\ drifted \in BOOLEAN /\ forms \subseteq ReservationId
AggType == agg \in [ReservationId -> [status : AggStatus, callback : 0..MaxCallbacks]]
PostedType == posted \subseteq [callback : 0..MaxCallbacks, status : StableStatus]

\* Every variable has the type of the table or record it stands for.
TypeOK == SubType /\ ProcType /\ CounterType /\ AggType /\ PostedType

\* At most one unfinished process is past its lock step, and none is while the
\* subscription is in sync: the steps of two workflows never interleave on one
\* subscription, whatever fails, is retried, is aborted or is overridden.
LockExclusive ==
  /\ \A p, q \in Procs : Holding(p) /\ Holding(q) => p = q
  /\ sub.insync => \A p \in Procs : ~Holding(p)

\* The reservation of the circuit's current id holds nothing.
HoldsNothing == sub.gid \in ReservationId => ~Live(sub.gid)

\* A circuit that has ended, or whose subscription is TERMINATED, holds nothing under
\* its id: also when terminate_mdp2p skipped its callback step, and when a workflow
\* submitted before sets the closed subscription PROVISIONING or ACTIVE again.
ClosedHoldsNothing ==
  "TERMINATED" \in {sub.status, sub.state} => HoldsNothing

\* "Terminating first [...] is what keeps the aggregator from holding an orphaned
\* reservation" (retry_reservation.py:21-23), with the one exception there is: a
\* retry gives up the id of a reservation that is held only after a user overrode
\* the lock, and if every connection that a retry form has read is TERMINATED.  Its
\* own form is then out of date; it finds no connection id and tears nothing down.
LeftBehindOnlyByStaleForms ==
  [][ ~HoldsNothing /\ sub'.gid # sub.gid
        => /\ drifted /\ sub.conn = NoConn
           /\ forms # {} /\ \A r \in forms : r # sub.gid /\ agg[r].status = "TERMINATED" ]_vars

\* An in-sync subscription stores the state the aggregator has, unless something
\* outside the workflows intervened since the last reconcile: no order of lost,
\* late or repeated results, timeouts and retries makes a completed workflow
\* store a state of another request.
InSyncAgrees ==
  sub.insync /\ ~drifted =>
    /\ sub.conn = sub.gid /\ sub.gid # 0
    /\ agg[sub.conn].status = sub.state

\* A circuit that is up shows no error of an earlier attempt (README: lastError is
\* "cleared when one succeeds"), through retries with new input too.  It can show
\* one that the aggregator has, which reconcile copies in every stable state.
NoErrorWhileUp ==
  sub.state \in {"RESERVED", "ACTIVATED"} => sub.lastError # "callback"

\* The only handle on a reservation, its connection id, is dropped or replaced
\* only once the aggregator has terminated that reservation.
HandleKept ==
  [][ sub.conn # NoConn /\ sub'.conn # sub.conn
        => agg[sub.conn].status = "TERMINATED" ]_vars

\* The state TERMINATED is final (fsm.py:47), although reconcile bypasses the state
\* machine and a workflow submitted before the circuit ended may run after it.
TerminatedForGood ==
  [][ sub.state = "TERMINATED" => sub'.state = "TERMINATED" ]_vars

\* A step that sends a request about the connection has its connection id
\* (provision_mdp2p.py:57, "set at reserve time"), although the form checked it
\* before the lock and retry clears it.
ConnectionAtHand ==
  \A p \in Procs : Holding(p) /\ proc[p].step \in {"provision", "release", "terminate", "relabel"}
                     => LoadsActive

\* The subscription and its reservations implement the ledger of one circuit.
Ledger == INSTANCE ReservationLedger WITH
            owner <- sub.gid,
            live  <- {g \in ReservationId : Live(g)},
            ended <- (sub.state = "TERMINATED"),
            lost  <- (drifted /\ sub.conn = NoConn)

\* Through failures, timeouts, stale forms, retries, aborts and overrides only the
\* current reservation is ever acquired, it is given up unterminated only while its
\* handle is lost, and a circuit that has ended acquires nothing.
ImplementsLedger == Ledger!LedgerSpec

\* The subscription as one that processes take and give back.
Locking == INSTANCE SubscriptionLock WITH
             Subscriptions <- {"mdp2p"},
             Processes <- Procs,
             holders <- [s \in {"mdp2p"} |-> {p \in Procs : Holding(p)}],
             insync <- [s \in {"mdp2p"} |-> sub.insync],
             stored <- [s \in {"mdp2p"} |-> IF sub.status = "none" THEN {} ELSE {[sub EXCEPT !.insync = FALSE]}]

\* The eight workflows implement the lock, through failures, timeouts, retries, aborts
\* and overrides: whatever is stored of a circuit is written by the one process that
\* found it in sync, or made it, and has not ended since.
KeepsTheLock == Locking!LockSpec

\* What retry's callers are told: "Retrying tears the connection down, so it must be
\* unreachable while one is actually held" (tests/workflows/test_mdp2p_workflows.py:229).
RetryTearsDownNothingHeld ==
  \A p \in Procs : proc[p].wf = "retry" /\ proc[p].step = "terminate" /\ proc[p].run = "awaiting"
                     => sub.state \notin {"RESERVED", "ACTIVATED"}

\* "Retry reservation - available while the connection holds nothing (CREATED or
\* FAILED)" (README.md): the form opens for such an in-sync subscription.
RetryAvailable ==
  sub.insync /\ sub.status # "TERMINATED" /\ sub.state \in RetryableStates => LoadsActive

\* A process that is running or waiting for the aggregator ends or fails, so that
\* the user can act on it: no lost callback leaves the subscription locked by a
\* process that waits for ever.
ProcessSettles ==
  \A p \in Procs : proc[p].run \in {"running", "awaiting"} ~> proc[p].run \in {"idle", "failed"}

=============================================================================
