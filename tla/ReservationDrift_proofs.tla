---- MODULE ReservationDrift_proofs ----
(* The nightly comparison next to the workflows, for every number of processes,  *)
(* reservation ids and callback routes and any ignored ids.  What the workflows  *)
(* guarantee by themselves (IInv, Agreement) still holds next to the task, which *)
(* changes none of their variables.                                              *)
(*   1. how a single reservation moves (ReservationSteps): only the circuit's    *)
(*      own is ever being torn down, so one left behind stays live;              *)
(*   2. while a run is quiet, nothing it compares can change (QuietStep), and    *)
(*      whatever happens, the connection stored at the listing was listed if it  *)
(*      is still live (KnownWasListed);                                          *)
(*   3. the theorems.                                                            *)
EXTENDS ReservationDrift, Mdp2pAgreement_proofs

\* Only the circuit's own connection is being torn down.
TerminatingIsOurs ==
  \A g \in ReservationId : agg[g].status = "TERMINATING" => g = sub.conn

\* What a quiet run has listed is still live, and nothing else is.
QuietListing ==
  quiet /\ task.step = "compare" => AtRest /\ task.live = {g \in ReservationId : Live(g)}

\* The connection that was stored at the listing is on the list, or has ended since.
KnownWasListed ==
  task.step = "compare" /\ known # NoConn =>
    agg[known].status # "none" /\ (Live(known) => known \in task.live)

\* The invariant of a run.
DriftInv == DriftTypeOK /\ TerminatingIsOurs /\ QuietListing /\ KnownWasListed

-----------------------------------------------------------------------------
(* The task changes nothing of the workflows *)

LEMMA DriftRunsWorkflows == DriftSpec => Spec
<1>1. DriftInit => Init
  BY DEF DriftInit
<1>2. [DriftNext]_driftVars => [Next]_vars
  BY DEF DriftNext, driftVars, ListReservations, ListFails, Compare, WorkflowStep
<1>3. QED
  BY <1>1, <1>2, PTL DEF DriftSpec, Spec

-----------------------------------------------------------------------------
(* How a reservation moves *)

\* A step leaves the status of a reservation alone, reserves it, has a request about
\* the stored connection taken, ends what was under way, or lets it lapse.
LEMMA ReservationSteps ==
  ASSUME IInv, [Next]_vars, NEW g \in ReservationId
  PROVE  \/ agg'[g].status = agg[g].status
         \/ agg[g].status = "none" /\ agg'[g].status = "RESERVING"
         \/ g = sub.conn /\ sub' = sub /\ agg[g].status \in {"RESERVED", "ACTIVATED", "FAILED"}
              /\ agg'[g].status \in {"ACTIVATING", "DEACTIVATING", "TERMINATING"}
         \/ agg[g].status \in TransientStatus /\ agg'[g].status \in StableStatus
              /\ sub' = sub /\ (agg'[g].status = "TERMINATED" => agg[g].status = "TERMINATING")
         \/ agg[g].status \in {"RESERVED", "ACTIVATED", "FAILED"}
              /\ agg'[g].status \in {"FAILED", "TERMINATED"} /\ sub' = sub /\ drifted'
<1> DEFINE Moves ==
         \/ agg'[g].status = agg[g].status
         \/ agg[g].status = "none" /\ agg'[g].status = "RESERVING"
         \/ g = sub.conn /\ sub' = sub /\ agg[g].status \in {"RESERVED", "ACTIVATED", "FAILED"}
              /\ agg'[g].status \in {"ACTIVATING", "DEACTIVATING", "TERMINATING"}
         \/ agg[g].status \in TransientStatus /\ agg'[g].status \in StableStatus
              /\ sub' = sub /\ (agg'[g].status = "TERMINATED" => agg[g].status = "TERMINATING")
         \/ agg[g].status \in {"RESERVED", "ACTIVATED", "FAILED"}
              /\ agg'[g].status \in {"FAILED", "TERMINATED"} /\ sub' = sub /\ drifted'
<1>1. ASSUME NEW p \in Procs, ReserveConnection(p) PROVE Moves
  <2>1. /\ sub.gid \in ReservationId /\ callbacks + 1 \in 0..MaxCallbacks
        /\ Request("reserve", sub.gid, callbacks + 1)
    BY <1>1, CallbacksAssumption, ReservationsAssumption DEF ReserveConnection, Fire, At, NoConn,
       ReservationId, IInv, TypeOK, SubType, CounterType
  <2>2. /\ \A h \in ReservationId : h # sub.gid => agg'[h] = agg[h]
        /\ \/ agg[sub.gid].status \in Legal["reserve"] /\ agg'[sub.gid].status = Begun["reserve"]
           \/ agg'[sub.gid].status = agg[sub.gid].status
    BY <2>1, RequestEffect DEF Operation, IInv, TypeOK
  <2>3. Legal["reserve"] = {"none"} /\ Begun["reserve"] = "RESERVING"
    BY DEF Legal, Begun
  <2>4. QED
    BY <2>2, <2>3
<1>2. ASSUME NEW p \in Procs, NEW op \in {"provision", "release", "terminate"}, FireOnConnection(p, op)
      PROVE  Moves
  <2>1. /\ sub.conn \in ReservationId /\ callbacks + 1 \in 0..MaxCallbacks
        /\ Request(op, sub.conn, callbacks + 1) /\ sub' = sub
    BY <1>2, CallbacksAssumption, ReservationsAssumption DEF FireOnConnection, Fire, NoConn,
       ReservationId, IInv, TypeOK, SubType, CounterType
  <2>2. /\ \A h \in ReservationId : h # sub.conn => agg'[h] = agg[h]
        /\ \/ agg[sub.conn].status \in Legal[op] /\ agg'[sub.conn].status = Begun[op]
           \/ agg'[sub.conn].status = agg[sub.conn].status
    BY <2>1, RequestEffect DEF Operation, IInv, TypeOK
  <2>3. /\ Legal[op] \subseteq {"RESERVED", "ACTIVATED", "FAILED"}
        /\ Begun[op] \in {"ACTIVATING", "DEACTIVATING", "TERMINATING"}
    BY DEF Legal, Begun
  <2>4. QED
    BY <2>1, <2>2, <2>3
<1>3. ASSUME NEW h \in ReservationId, AggregatorStep(h) PROVE Moves
  <2>1. sub' = sub /\ Complete(h) /\ agg[h].status \in TransientStatus
    BY <1>3 DEF AggregatorStep, Complete
  <2>2. PICK s \in Outcome[agg[h].status] : agg' = [agg EXCEPT ![h].status = s]
    BY <2>1 DEF Complete
  <2>3. s \in StableStatus /\ (s = "TERMINATED" => agg[h].status = "TERMINATING")
    BY <2>1, <2>2 DEF Outcome, TransientStatus, StableStatus
  <2>4. QED
    BY <2>1, <2>2, <2>3 DEF IInv, TypeOK, AggType
<1>4. ASSUME NEW h \in ReservationId, AggregatorDrift(h) PROVE Moves
  <2>1. /\ sub' = sub /\ drifted'
        /\ \A k \in ReservationId : k # h => agg'[k] = agg[k]
        /\ agg[h].status \in {"RESERVED", "ACTIVATED", "FAILED"}
        /\ agg'[h].status \in {"FAILED", "TERMINATED"}
    BY <1>4, LapseEffect DEF AggregatorDrift, IInv, TypeOK
  <2>2. QED
    BY <2>1
<1>5. agg' = agg => Moves
  OBVIOUS
<1> HIDE DEF Moves
<1>6. ASSUME NEW p \in Procs, UserStep(p) \/ Callback(p) \/ Timeout(p) PROVE Moves
  BY <1>5, <1>6 DEF UserStep, ConstructMdp2pModel, SubmitProvision, SubmitRelease, SubmitTerminate,
     SubmitModify, SubmitForm, SubmitRetry, StartTask, Retry, Abort, Callback, Timeout, aggVars
<1>7. ASSUME NEW p \in Procs, Work(p) PROVE Moves
  <2>1. CASE \/ Lock(p) \/ SetStatusProvisioning(p) \/ DropConnection(p) \/ UpdateSubscription(p)
             \/ UpdateLabel(p) \/ SetStatusActive(p) \/ SetStatusTerminated(p)
             \/ ReconcileConnectionState(p) \/ ValidateReservation(p) \/ Resync(p) \/ StepFails(p)
    BY <1>5, <2>1 DEF Lock, SetStatusProvisioning, DropConnection, UpdateSubscription, UpdateLabel,
       SetStatusActive, SetStatusTerminated, ReconcileConnectionState, ValidateReservation, Resync,
       StepFails, aggVars
  <2>2. CASE \/ ProcessReservationResult(p) \/ ProcessProvisionResult(p)
             \/ ProcessReleaseResult(p) \/ ProcessTerminateResult(p)
    BY <1>5, <2>2 DEF ProcessReservationResult, ProcessProvisionResult, ProcessReleaseResult,
       ProcessTerminateResult, Record, aggVars
  <2>3. CASE ReserveConnection(p) \/ ProvisionConnection(p) \/ ReleaseConnection(p) \/ TerminateConnection(p)
    BY <1>1, <1>2, <2>3 DEF ProvisionConnection, ReleaseConnection, TerminateConnection
  <2>4. QED
    BY <1>7, <2>1, <2>2, <2>3 DEF Work
<1>8. ASSUME OpenRetry \/ SetInSync \/ UNCHANGED vars PROVE Moves
  <2>1. agg' = agg
    BY <1>8 DEF OpenRetry, SetInSync, vars, aggVars
  <2>2. QED
    BY <1>5, <2>1
<1>9. Moves
  BY <1>3, <1>4, <1>6, <1>7, <1>8 DEF Next
<1>10. QED
  BY <1>9 DEF Moves

\* The connection is dropped or replaced only once it is TERMINATED.
LEMMA TerminatingIsOursKept ==
  ASSUME IInv, TerminatingIsOurs, [Next]_vars
  PROVE  TerminatingIsOurs'
<1> SUFFICES ASSUME NEW g \in ReservationId, agg'[g].status = "TERMINATING"
             PROVE  g = sub'.conn
  BY DEF TerminatingIsOurs
<1>1. g = sub.conn /\ (agg[g].status = "TERMINATING" \/ sub' = sub)
  BY ReservationSteps DEF TerminatingIsOurs, StableStatus
<1>2. CASE agg[g].status = "TERMINATING"
  <2>1. sub.conn # NoConn /\ sub.conn = sub.gid
    BY <1>1, ReservationsAssumption DEF ReservationId, NoConn, IInv, ConnKnown
  <2>2. QED
    BY <1>1, <1>2, <2>1, StepCases DEF Still, SameIds, Renewed, Dropped, Closed, Requested, Reported
<1>3. QED
  BY <1>1, <1>2

\* A reservation that has ended does not come back, and one that is known is not forgotten.
LEMMA EndedStays ==
  ASSUME IInv, [Next]_vars, NEW g \in ReservationId
  PROVE  /\ agg[g].status = "TERMINATED" => agg'[g].status = "TERMINATED"
         /\ agg[g].status # "none" => agg'[g].status # "none"
BY ReservationSteps DEF TransientStatus, StableStatus

-----------------------------------------------------------------------------
(* Quiet runs *)

\* A step of an in-sync subscription that leaves it in sync, and after which nothing
\* is left unreconciled, changes neither the subscription nor what is live.
LEMMA QuietStep ==
  ASSUME IInv, Agreement, TerminatingIsOurs, AtRest, AtRest', Next
  PROVE  sub' = sub /\ \A g \in ReservationId : Live(g)' <=> Live(g)
<1>1. \A p \in Procs : ~Holding(p)
  BY DEF AtRest, IInv, LockExclusive
<1>2. \A p \in Procs : proc[p].run # "idle" => proc[p].step = "lock"
  BY <1>1 DEF Holding, Unfinished
<1>3. sub.insync /\ sub'.insync /\ ~drifted' /\ sub.status # "none"
  BY DEF AtRest, IInv, Unborn
<1>4. ASSUME NEW p \in Procs, UserStep(p) PROVE sub' = sub /\ agg' = agg
  BY <1>3, <1>4 DEF UserStep, ConstructMdp2pModel, SubmitProvision, SubmitRelease, SubmitTerminate,
     SubmitModify, SubmitForm, SubmitRetry, StartTask, Retry, Abort, aggVars
<1>5. ASSUME NEW p \in Procs, Work(p) PROVE sub' = sub /\ agg' = agg
  <2>1. CASE Lock(p)
    <3>1. ~sub'.insync
      BY <2>1 DEF Lock, IInv, TypeOK, SubType
    <3>2. QED
      BY <1>3, <3>1
  <2>2. CASE StepFails(p)
    BY <2>2 DEF StepFails, aggVars
  <2>3. ASSUME NEW s, s # "lock", At(p, s) PROVE FALSE
    BY <1>2, <2>3 DEF At
  <2>4. CASE \/ SetStatusProvisioning(p) \/ UpdateSubscription(p) \/ UpdateLabel(p)
             \/ SetStatusActive(p) \/ SetStatusTerminated(p) \/ ReconcileConnectionState(p)
             \/ ValidateReservation(p) \/ Resync(p) \/ DropConnection(p)
    BY <2>3, <2>4 DEF SetStatusProvisioning, UpdateSubscription, UpdateLabel, SetStatusActive,
       SetStatusTerminated, ReconcileConnectionState, ValidateReservation, Resync, DropConnection
  <2>5. CASE ReserveConnection(p) \/ ProvisionConnection(p) \/ ReleaseConnection(p) \/ TerminateConnection(p)
    BY <2>3, <2>5 DEF ReserveConnection, ProvisionConnection, ReleaseConnection, TerminateConnection,
       FireOnConnection, Fire
  <2>6. CASE \/ ProcessReservationResult(p) \/ ProcessProvisionResult(p)
             \/ ProcessReleaseResult(p) \/ ProcessTerminateResult(p)
    BY <2>3, <2>6 DEF ProcessReservationResult, ProcessProvisionResult, ProcessReleaseResult,
       ProcessTerminateResult, Record
  <2>7. QED
    BY <1>5, <2>1, <2>2, <2>4, <2>5, <2>6 DEF Work
<1>6. ASSUME NEW p \in Procs, Callback(p) \/ Timeout(p) PROVE sub' = sub /\ agg' = agg
  BY <1>6 DEF Callback, Timeout, aggVars
<1>7. OpenRetry => sub' = sub /\ agg' = agg
  BY DEF OpenRetry, aggVars
<1>8. ~SetInSync
  BY <1>3 DEF SetInSync
<1>9. sub' = sub
  <2>1. ASSUME NEW g \in ReservationId, AggregatorStep(g) \/ AggregatorDrift(g) PROVE sub' = sub
    BY <2>1 DEF AggregatorStep, AggregatorDrift
  <2>2. QED
    BY <1>4, <1>5, <1>6, <1>7, <1>8, <2>1 DEF Next
<1>10. ASSUME NEW g \in ReservationId PROVE Live(g)' <=> Live(g)
  <2>1. CASE agg' = agg
    BY <2>1 DEF Live
  <2>2. CASE agg' # agg
    <3>1. PICK h \in ReservationId : Complete(h)
      BY <1>3, <1>4, <1>5, <1>6, <1>7, <1>8, <2>2 DEF Next, AggregatorStep, AggregatorDrift
    <3>2. agg[h].status \in TransientStatus /\ \A k \in ReservationId : k # h => agg'[k] = agg[k]
      BY <3>1, CompleteEffect DEF IInv, TypeOK
    <3>3. agg[h].status # "TERMINATING"
      <4>1. agg[sub.conn].status = sub.state /\ sub.state \in ConnectionState
        BY DEF Agreement, AgreesAtRest, Agrees, AtRest, IInv, TypeOK, SubType
      <4>2. QED
        BY <4>1 DEF TerminatingIsOurs, ConnectionState
    <3>4. PICK s \in Outcome[agg[h].status] : agg' = [agg EXCEPT ![h].status = s]
      BY <3>1 DEF Complete
    <3>5. s \notin {"none", "TERMINATED"} /\ agg[h].status \notin {"none", "TERMINATED"}
      BY <3>2, <3>3, <3>4 DEF Outcome, TransientStatus
    <3>6. QED
      BY <3>2, <3>4, <3>5 DEF Live, IInv, TypeOK, AggType
  <2>3. QED
    BY <2>1, <2>2
<1>11. QED
  BY <1>9, <1>10

\* The listing of a quiet run stays true until it is compared.
LEMMA QuietListingKept ==
  ASSUME IInv, Agreement, DriftInv, [DriftNext]_driftVars
  PROVE  DriftTypeOK' /\ QuietListing'
<1>1. CASE ListReservations
  <2>1. /\ task' = [step |-> "compare", live |-> {g \in ReservationId : Live(g)}]
        /\ quiet' = AtRest /\ known' = sub.conn /\ UNCHANGED vars
    BY <1>1 DEF ListReservations
  <2>2. AtRest \in BOOLEAN /\ sub.conn \in 0..MaxReservations
    BY DEF AtRest, IInv, TypeOK, SubType, CounterType
  <2>3. AtRest' = AtRest /\ (\A g \in ReservationId : Live(g)' <=> Live(g))
    BY <2>1 DEF vars, aggVars, AtRest, Live
  <2>4. QED
    BY <2>1, <2>2, <2>3 DEF DriftTypeOK, QuietListing
<1>2. CASE ListFails
  BY <1>2 DEF ListFails, Over, DriftInv, DriftTypeOK, QuietListing
<1>3. ASSUME NEW ignored \in SUBSET Ignorable, Compare(ignored) PROVE DriftTypeOK' /\ QuietListing'
  <2>1. /\ quiet' = FALSE /\ known' = NoConn
        /\ task' = Over("completed") \/ task' = Over("inconsistent_data")
    BY <1>3 DEF Compare
  <2>2. NoConn \in 0..MaxReservations
    BY ReservationsAssumption DEF NoConn
  <2>3. QED
    <3>1. /\ task'.step \in {"completed", "inconsistent_data"} /\ task'.live = {}
          /\ task' = [step |-> task'.step, live |-> {}]
      BY <2>1 DEF Over
    <3>2. task' = Over(task'.step) /\ {} \in SUBSET ReservationId
      BY <3>1 DEF Over
    <3>3. QED
      BY <2>1, <2>2, <3>1, <3>2 DEF DriftTypeOK, QuietListing
<1>4. CASE WorkflowStep
  <2>1. Next /\ quiet' = (quiet /\ AtRest') /\ task' = task /\ known' = known
    BY <1>4 DEF WorkflowStep
  <2>2. DriftTypeOK'
    BY <2>1 DEF DriftInv, DriftTypeOK
  <2>3. ASSUME quiet', task'.step = "compare"
        PROVE  AtRest' /\ task'.live = {g \in ReservationId : Live(g)'}
    <3>1. AtRest /\ AtRest' /\ task.live = {g \in ReservationId : Live(g)}
      BY <2>1, <2>3 DEF DriftInv, QuietListing
    <3>2. \A g \in ReservationId : Live(g)' <=> Live(g)
      BY <2>1, <3>1, QuietStep DEF DriftInv
    <3>3. QED
      BY <2>1, <3>1, <3>2
  <2>4. QED
    BY <2>2, <2>3 DEF QuietListing
<1>5. CASE UNCHANGED driftVars
  BY <1>5 DEF driftVars, vars, aggVars, DriftInv, DriftTypeOK, QuietListing, AtRest, Live
<1>6. QED
  BY <1>1, <1>2, <1>3, <1>4, <1>5 DEF DriftNext

\* The stored connection is listed if it is live, and what has ended stays ended.
LEMMA KnownWasListedKept ==
  ASSUME IInv, DriftInv, [DriftNext]_driftVars
  PROVE  KnownWasListed'
<1>1. CASE ListReservations
  <2>1. /\ task' = [step |-> "compare", live |-> {g \in ReservationId : Live(g)}]
        /\ known' = sub.conn /\ agg' = agg
    BY <1>1 DEF ListReservations, vars, aggVars
  <2>2. sub.conn # NoConn => sub.conn \in ReservationId /\ agg[sub.conn].status # "none"
    BY ReservationsAssumption DEF IInv, TypeOK, SubType, ConnKnown, NoConn, ReservationId
  <2>3. QED
    BY <2>1, <2>2 DEF KnownWasListed, Live
<1>2. CASE ListFails
  BY <1>2 DEF ListFails, Over, KnownWasListed
<1>3. ASSUME NEW ignored \in SUBSET Ignorable, Compare(ignored) PROVE KnownWasListed'
  BY <1>3 DEF Compare, KnownWasListed
<1>4. CASE WorkflowStep \/ UNCHANGED driftVars
  <2>1. [Next]_vars /\ task' = task /\ known' = known
    BY <1>4 DEF WorkflowStep, driftVars
  <2>2. known # NoConn => known \in ReservationId
    BY ReservationsAssumption DEF DriftInv, DriftTypeOK, ReservationId, NoConn
  <2>3. QED
    BY <2>1, <2>2, EndedStays DEF DriftInv, KnownWasListed, Live
<1>5. QED
  BY <1>1, <1>2, <1>3, <1>4 DEF DriftNext

-----------------------------------------------------------------------------
(* The theorems *)

\* The task has its types, a quiet run compares what is so, and any run has listed the
\* connection it found stored, unless that has ended.
THEOREM DriftInvariance == DriftSpec => []DriftInv
<1>1. DriftInit => DriftInv
  <2> SUFFICES ASSUME DriftInit PROVE DriftInv
    OBVIOUS
  <2>1. task = Over("idle") /\ known = NoConn /\ quiet = FALSE /\ NoConn \in 0..MaxReservations
    BY ReservationsAssumption DEF DriftInit, NoConn
  <2>2. DriftTypeOK /\ QuietListing /\ KnownWasListed
    BY <2>1 DEF Over, DriftTypeOK, QuietListing, KnownWasListed
  <2>3. TerminatingIsOurs
    BY DEF DriftInit, Init, AggInit, TerminatingIsOurs
  <2>4. QED
    BY <2>2, <2>3 DEF DriftInv
<1>2. IInv /\ Agreement /\ DriftInv /\ [DriftNext]_driftVars => DriftInv'
  <2> SUFFICES ASSUME IInv, Agreement, DriftInv, [DriftNext]_driftVars PROVE DriftInv'
    OBVIOUS
  <2>1. [Next]_vars
    BY DEF DriftNext, driftVars, ListReservations, ListFails, Compare, WorkflowStep
  <2>2. TerminatingIsOurs'
    BY <2>1, TerminatingIsOursKept DEF DriftInv
  <2>3. QED
    BY <2>2, QuietListingKept, KnownWasListedKept DEF DriftInv
<1>3. QED
  BY <1>1, <1>2, DriftRunsWorkflows, Invariance, AgreementInvariance, PTL DEF DriftSpec

\* Every variable of the task keeps its type, and only a run about to compare has a list.
THEOREM DriftTyped == DriftSpec => []DriftTypeOK
<1>1. DriftInv => DriftTypeOK
  BY DEF DriftInv
<1>2. QED
  BY <1>1, DriftInvariance, PTL

\* A run during which the subscription was in sync and nothing was left unreconciled
\* reports a difference exactly if there is one: a live reservation that is neither the
\* circuit's nor ignored, as a stale retry leaves one behind, or a circuit whose
\* reservation has ended while its subscription has not.
THEOREM VerdictsAreRight == DriftSpec => VerdictIsRight
<1>1. ASSUME IInv, Agreement, DriftInv, NEW ignored \in SUBSET Ignorable, Compare(ignored), quiet
      PROVE  task'.step = "inconsistent_data" <=> Unknown(ignored) \cup Gone # {}
  <2>1. AtRest /\ task.live = {g \in ReservationId : Live(g)}
    BY <1>1 DEF Compare, DriftInv, QuietListing
  <2>2. /\ sub.conn = sub.gid /\ agg[sub.conn].status = sub.state
        /\ sub.conn \in ReservationId /\ sub.conn # NoConn /\ sub.status # "none"
    BY <1>1, <2>1, ReservationsAssumption DEF AtRest, Agreement, AgreesAtRest, Agrees, IInv, TypeOK,
       SubType, ReservationId, Unborn, NoConn
  <2>3. sub.status = "TERMINATED" => ~Live(sub.conn)
    BY <1>1, <2>2 DEF IInv, EndedHoldsNothing, HoldsNothing
  <2>4. Live(sub.conn) <=> agg[sub.conn].status # "TERMINATED"
    BY <1>1, <2>2 DEF Live, IInv, TypeOK, SubType, ConnectionState
  <2>5. WithoutSubscription(ignored) = Unknown(ignored)
    BY <2>1, <2>2, <2>3 DEF WithoutSubscription, Subscribed, Unknown
  <2>6. WithoutReservation = Gone
    BY <2>1, <2>2, <2>4 DEF WithoutReservation, Subscribed, Gone
  <2>7. task'.step = "inconsistent_data" <=> WithoutSubscription(ignored) \cup WithoutReservation # {}
    BY <1>1 DEF Compare, Over
  <2>8. QED
    BY <2>5, <2>6, <2>7
<1>2. IInv /\ Agreement /\ DriftInv =>
        [ \A ignored \in SUBSET Ignorable : Compare(ignored) /\ quiet =>
            (task'.step = "inconsistent_data" <=> Unknown(ignored) \cup Gone # {}) ]_driftVars
  BY <1>1
<1>3. QED
  BY <1>2, DriftRunsWorkflows, Invariance, AgreementInvariance, DriftInvariance, PTL DEF VerdictIsRight

\* Whatever the workflows did between the listing and the comparison: a reservation that
\* is reported and still live is not the circuit's, and the circuit's live reservation is
\* reported as gone only if its connection id was stored after the listing.
THEOREM FalseReportsTrailChanges == DriftSpec => FalseReportsAreOfChanges
<1>1. ASSUME IInv, DriftInv, NEW ignored \in SUBSET Ignorable, Compare(ignored)
      PROVE  /\ \A g \in WithoutSubscription(ignored) : Live(g) => g \in Unknown(ignored)
             /\ \A g \in WithoutReservation : Live(g) => g # known
  <2>1. task.step = "compare" /\ task.live \subseteq ReservationId
    BY <1>1 DEF Compare, DriftInv, DriftTypeOK
  <2>2. ASSUME NEW g \in WithoutSubscription(ignored), Live(g) PROVE g \in Unknown(ignored)
    <3>1. g \in ReservationId \ ignored /\ g \notin Subscribed
      BY <2>1, <2>2 DEF WithoutSubscription
    <3>2. SUFFICES ASSUME g = sub.conn PROVE FALSE
      BY <2>2, <3>1 DEF Unknown
    <3>3. sub.conn # NoConn /\ sub.conn = sub.gid
      BY <3>1, <3>2, <1>1, ReservationsAssumption DEF ReservationId, NoConn, IInv, ConnKnown
    <3>4. sub.status = "TERMINATED"
      BY <1>1, <3>1, <3>2, <3>3 DEF Subscribed, IInv, Unborn
    <3>5. QED
      BY <1>1, <2>2, <3>1, <3>2, <3>3, <3>4 DEF IInv, EndedHoldsNothing, HoldsNothing
  <2>3. ASSUME NEW g \in WithoutReservation, Live(g), g = known PROVE FALSE
    <3>1. g # NoConn /\ g \notin task.live
      BY <2>3 DEF WithoutReservation, Subscribed
    <3>2. QED
      BY <1>1, <2>1, <2>3, <3>1 DEF DriftInv, KnownWasListed
  <2>4. QED
    BY <2>2, <2>3
<1>2. IInv /\ DriftInv =>
        [ \A ignored \in SUBSET Ignorable : Compare(ignored) =>
            /\ \A g \in WithoutSubscription(ignored) : Live(g) => g \in Unknown(ignored)
            /\ \A g \in WithoutReservation : Live(g) => g # known ]_driftVars
  BY <1>1
<1>3. QED
  BY <1>2, DriftRunsWorkflows, Invariance, DriftInvariance, PTL DEF FalseReportsAreOfChanges

=============================================================================
