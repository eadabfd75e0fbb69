------------------------------ MODULE UpaDrift ------------------------------
(***************************************************************************)
(* task_validate_upas_against_vlans, the nightly comparison of the VLANs   *)
(* that the uPAs hold with those that reservations at the aggregator hold. *)
(*                                                                         *)
(* The task is one step of a process, which reads, one after the other,    *)
(* the list of uPAs and of reservations from the aggregator, the           *)
(* reservations of each uPA, and the subscribed STPs from the database.    *)
(* The aggregator, the uPAs and the STP subscriptions go on meanwhile, in  *)
(* any way: any of their records may become any other.                     *)
(***************************************************************************)
EXTENDS Naturals, FiniteSets

CONSTANTS
  Stps, Vlans,
  Upas,
  upa_of,       \* STP -> the uPA that serves its network
  Connections,  \* bound: reservations at the aggregator, and
  UpaConnections, \* bound: reservations at each uPA
  Paths,        \* what they may be for, [ends, segments], sets of pairs each
  UpaStates,    \* what a uPA may report, as <<reservation_state, lifecycle_state>>
  MaxChanges    \* bound: changes around the task

Pairs == Stps \X Vlans

\* The states of NSI.
ReservationStates == {"ReserveStart", "ReserveChecking", "ReserveHeld", "ReserveCommitting",
                      "ReserveFailed", "ReserveTimeout", "ReserveAborting"}
LifecycleStates == {"Created", "Failed", "Terminating", "PassedEndTime", "Terminated"}

ASSUME UpasAssumption == upa_of \in [Stps -> Upas]
ASSUME PathsAssumption == Paths \subseteq [ends : SUBSET Pairs, segments : SUBSET Pairs]
ASSUME UpaStatesAssumption == UpaStates \subseteq ReservationStates \X LifecycleStates
ASSUME ChangesAssumption == MaxChanges \in Nat

VARIABLES
  agg,      \* connection -> [status, ends, segments]
  peers,    \* the uPAs the aggregator peers with
  upa,      \* uPA -> connection -> [reservation_state, lifecycle_state, pairs]
  stps,     \* STP -> whether it is subscribed and its stored range
  task,     \* [step, upas, todo]: what was read last, the uPAs listed and those to be read
  read,     \* what the task has read of each of the three
  report,   \* the sections of the last comparison
  steady,   \* history: the pairs nothing has changed for since the task started
  changes   \* changes so far

world == <<agg, peers, upa, stps>>
vars == <<agg, peers, upa, stps, task, read, report, steady, changes>>

-----------------------------------------------------------------------------
(* The records *)

\* RESERVED stands for every other status.
AggStatus == {"RESERVED", "FAILED", "TERMINATED"}

\* Segments are listed once the aggregator has asked the uPAs along the path.
AggRecord ==
  UNION {{[status |-> s, ends |-> path.ends, segments |-> g] : g \in {{}, path.segments}} :
           s \in AggStatus, path \in Paths}

On(u) == {pair \in Pairs : upa_of[pair[1]] = u}

\* A uPA serves its own STPs; a reservation that never got past reserving has none.
UpaRecord(u) ==
  {[reservation_state |-> "ReserveChecking", lifecycle_state |-> "Created", pairs |-> {}]} \cup
  {[reservation_state |-> s[1], lifecycle_state |-> s[2],
    pairs |-> (path.ends \cup path.segments) \cap On(u)] : s \in UpaStates, path \in Paths}

AnyUpaRecord(upas) == UNION {UpaRecord(u) : u \in upas}

Unsubscribed == [subscribed |-> FALSE, range |-> {}]
StpRecord == {Unsubscribed} \cup [subscribed : {TRUE}, range : SUBSET Vlans]

-----------------------------------------------------------------------------
(* vlans.py: what a reservation holds *)

\* A pair is yielded once, by the segment if there is one.
ReservationHeldVlans(r) == r.segments \cup (r.ends \ r.segments)

\* Fault for the sensitivity check: a failed reservation is taken to hold nothing.
HeldReservationsUp(reservations) == {r \in reservations : r.status \notin {"FAILED", "TERMINATED"}}

HeldReservations(reservations) == {r \in reservations : r.status # "TERMINATED"}

ReservationsVlanPairs(reservations) == UNION {ReservationHeldVlans(r) : r \in reservations}

UpaHoldsVlans(r) ==
  /\ r.lifecycle_state \notin {"Failed", "PassedEndTime", "Terminated"}
  /\ r.reservation_state \in {"ReserveHeld", "ReserveCommitting", "ReserveStart"}

UpaVlanPairs(reservations) == UNION {r.pairs : r \in {q \in reservations : UpaHoldsVlans(q)}}

-----------------------------------------------------------------------------
(* The task *)

Nothing == [aggregator |-> {}, upas |-> {}, ranges |-> [stp \in Stps |-> Unsubscribed]]
NoReport == [upaOnly |-> {}, aggregatorOnly |-> {}, failedOnly |-> {}, outside |-> {}]

Reading(step) == task.step = step /\ UNCHANGED <<world, report, steady, changes>>

\* list_upas: the run starts.
ListUpas ==
  /\ task.step \in {"idle", "completed", "inconsistent_data", "failed"}
  /\ task' = [step |-> "upas listed", upas |-> peers, todo |-> peers]
  /\ read' = Nothing /\ report' = NoReport /\ steady' = Pairs
  /\ UNCHANGED <<world, changes>>

ListReservations ==
  /\ Reading("upas listed")
  /\ read' = [read EXCEPT !.aggregator = {agg[c] : c \in Connections}]
  /\ task' = [task EXCEPT !.step = "reservations listed"]

ListUpaReservations(u) ==
  /\ Reading("reservations listed") /\ u \in task.todo
  /\ read' = [read EXCEPT !.upas = @ \cup {upa[u][c] : c \in UpaConnections}]
  /\ task' = [task EXCEPT !.todo = @ \ {u}]

\* _scope
ReadScope ==
  /\ Reading("reservations listed") /\ task.todo = {}
  /\ read' = [read EXCEPT !.ranges = stps]
  /\ task' = [task EXCEPT !.step = "scope read"]

\* Fault for the sensitivity check: what was read before the failure is kept.
FetchFailsKeeps ==
  /\ task.step \in {"upas listed", "reservations listed"}
  /\ task' = [step |-> "failed", upas |-> {}, todo |-> {}]
  /\ UNCHANGED <<world, read, report, steady, changes>>

\* AggregatorProxyError: nothing is compared.
FetchFails ==
  /\ task.step \in {"upas listed", "reservations listed"}
  /\ task' = [step |-> "failed", upas |-> {}, todo |-> {}]
  /\ read' = Nothing
  /\ UNCHANGED <<world, report, steady, changes>>

Checked(pair) == upa_of[pair[1]] \in task.upas /\ read.ranges[pair[1]].subscribed

\* _split
Inside(pairs) == {p \in pairs : Checked(p) /\ p[2] \in read.ranges[p[1]].range}
Outside(pairs) == {p \in pairs : Checked(p) /\ p[2] \notin read.ranges[p[1]].range}

Held == HeldReservations(read.aggregator)
InUse == ReservationsVlanPairs(Held)
Live == ReservationsVlanPairs({r \in Held : r.status # "FAILED"})
AtUpas == UpaVlanPairs(read.upas)

Sections ==
  [upaOnly        |-> Inside(AtUpas) \ Inside(InUse),
   aggregatorOnly |-> Inside(Live) \ Inside(AtUpas),
   failedOnly     |-> (Inside(InUse) \ Inside(Live)) \ Inside(AtUpas),
   outside        |-> Outside(AtUpas) \cup Outside(InUse)]

CompareUpaVlans ==
  /\ task.step = "scope read"
  /\ report' = Sections
  /\ task' = [task EXCEPT !.step = IF Sections = NoReport THEN "completed" ELSE "inconsistent_data"]
  /\ UNCHANGED <<world, read, steady, changes>>

-----------------------------------------------------------------------------
(* Around the task *)

\* What is so for a pair at this moment.
AtAggregator(p) == {c \in Connections : agg[c].status # "TERMINATED" /\ p \in agg[c].ends \cup agg[c].segments}
HoldingStates == {"ReserveHeld", "ReserveCommitting", "ReserveStart"} \X {"Created", "Terminating"}
HeldBy(r, p) == p \in r.pairs /\ <<r.reservation_state, r.lifecycle_state>> \in HoldingStates
AtUpa(p) == \E c \in UpaConnections : HeldBy(upa[upa_of[p[1]]][c], p)
FailedOnly(p) == \A c \in AtAggregator(p) : agg[c].status = "FAILED"
InRange(p) == p[2] \in stps[p[1]].range

Facts(p) == <<upa_of[p[1]] \in peers, AtAggregator(p) # {}, AtUpa(p), FailedOnly(p), InRange(p), stps[p[1]].subscribed>>

Changed ==
  /\ changes < MaxChanges /\ changes' = changes + 1
  /\ steady' = {p \in steady : Facts(p)' = Facts(p)}
  /\ UNCHANGED <<task, read, report>>

AggregatorChanges(c) ==
  /\ \E r \in AggRecord \ {agg[c]} : agg' = [agg EXCEPT ![c] = r]
  /\ UNCHANGED <<peers, upa, stps>> /\ Changed

UpaChanges(u) ==
  /\ \E c \in UpaConnections : \E r \in UpaRecord(u) \ {upa[u][c]} : upa' = [upa EXCEPT ![u][c] = r]
  /\ UNCHANGED <<agg, peers, stps>> /\ Changed

StpChanges(stp) ==
  /\ \E r \in StpRecord \ {stps[stp]} : stps' = [stps EXCEPT ![stp] = r]
  /\ UNCHANGED <<agg, peers, upa>> /\ Changed

PeersChange ==
  /\ \E p \in (SUBSET Upas) \ {peers} : peers' = p
  /\ UNCHANGED <<agg, upa, stps>> /\ Changed

-----------------------------------------------------------------------------
Init ==
  /\ agg \in [Connections -> AggRecord] /\ peers \in SUBSET Upas
  /\ upa \in {f \in [Upas -> [UpaConnections -> AnyUpaRecord(Upas)]] :
                \A u \in Upas, c \in UpaConnections : f[u][c] \in UpaRecord(u)}
  /\ stps \in [Stps -> StpRecord]
  /\ task = [step |-> "idle", upas |-> {}, todo |-> {}]
  /\ read = Nothing /\ report = NoReport /\ steady = {} /\ changes = 0

Next ==
  \/ PeersChange
  \/ ListUpas \/ ListReservations \/ ReadScope \/ FetchFails \/ CompareUpaVlans
  \/ \E u \in Upas : ListUpaReservations(u) \/ UpaChanges(u)
  \/ \E c \in Connections : AggregatorChanges(c)
  \/ \E stp \in Stps : StpChanges(stp)

Spec == Init /\ [][Next]_vars

-----------------------------------------------------------------------------
(* Properties *)

\* Every variable has the type of the value it stands for, and the uPAs that are
\* still to be read are among the listed ones.
TypeOK ==
  /\ agg \in [Connections -> AggRecord]
  /\ upa \in [Upas -> [UpaConnections -> AnyUpaRecord(Upas)]]
  /\ \A u \in Upas, c \in UpaConnections : upa[u][c] \in UpaRecord(u)
  /\ stps \in [Stps -> StpRecord]
  /\ task \in [step : {"idle", "upas listed", "reservations listed", "scope read",
                       "completed", "inconsistent_data", "failed"},
               upas : SUBSET Upas, todo : SUBSET Upas]
  /\ peers \subseteq Upas /\ task.todo \subseteq task.upas
  /\ read \in [aggregator : SUBSET AggRecord, upas : SUBSET AnyUpaRecord(task.upas), ranges : [Stps -> StpRecord]]
  /\ report \in [upaOnly : SUBSET Pairs, aggregatorOnly : SUBSET Pairs,
                 failedOnly : SUBSET Pairs, outside : SUBSET Pairs]
  /\ steady \subseteq Pairs /\ changes \in 0..MaxChanges

\* For a pair about which nothing changed while the task was reading, whatever
\* happened to the others, the report says exactly what is so: "It reports VLANs a
\* uPA holds that no aggregator reservation does, VLANs an aggregator reservation
\* holds that no uPA does, and" apart from these those that only FAILED reservations
\* hold and those outside the range (README.md), on subscribed STPs that a uPA
\* which was asked serves, and on no others.
SteadyPairsAreReported ==
  [][ CompareUpaVlans =>
        \A p \in steady :
          LET scope == stps[p[1]].subscribed /\ upa_of[p[1]] \in peers
              aggregator == AtAggregator(p) # {}
          IN /\ p \in report'.upaOnly <=> scope /\ InRange(p) /\ AtUpa(p) /\ ~aggregator
             /\ p \in report'.aggregatorOnly <=> scope /\ InRange(p) /\ aggregator /\ ~FailedOnly(p) /\ ~AtUpa(p)
             /\ p \in report'.failedOnly <=> scope /\ InRange(p) /\ aggregator /\ FailedOnly(p) /\ ~AtUpa(p)
             /\ p \in report'.outside <=> scope /\ ~InRange(p) /\ (aggregator \/ AtUpa(p)) ]_vars

=============================================================================
