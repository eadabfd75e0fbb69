----------------------------- MODULE Aggregator ------------------------------
(***************************************************************************)
(* The NSI aggregator behind its proxy, seen from the orchestrator.  It is *)
(* not part of the repository: its behaviour is what services/             *)
(* aggregator_proxy.py, the workflows' comments and the README rely on.    *)
(*                                                                         *)
(*  - POST /reservations dedups on globalReservationId, so there is at     *)
(*    most one reservation per global reservation id.  agg is therefore    *)
(*    indexed by that id, and the connection id the proxy returns is       *)
(*    identified with it.                                                  *)
(*  - An operation is accepted from the states listed in Legal, otherwise  *)
(*    rejected; repeating an operation that is under way or done is        *)
(*    idempotent and reports to the newest callback URL.                   *)
(*  - A result is POSTed to the callback URL given with the request.  The  *)
(*    set posted holds every result ever POSTed: one that is never read is *)
(*    lost, one read late is delayed, and nothing orders them.             *)
(*  - A reservation may fail or end by itself, with no callback (Drift).   *)
(***************************************************************************)
EXTENDS Naturals

CONSTANT MaxReservations  \* bound: global reservation ids (uuid4) in a run

ASSUME ReservationsAssumption == MaxReservations \in Nat

VARIABLES
  agg,     \* global reservation id -> [status, callback]
  posted   \* results POSTed so far: records [callback, status]

aggVars == <<agg, posted>>

ReservationId == 1..MaxReservations

\* States a reservation rests in; the others are an operation under way.
StableStatus == {"RESERVED", "ACTIVATED", "FAILED", "TERMINATED"}
TransientStatus == {"RESERVING", "ACTIVATING", "DEACTIVATING", "TERMINATING"}
AggStatus == {"none"} \cup StableStatus \cup TransientStatus

Operation == {"reserve", "provision", "release", "terminate"}

Legal == [ reserve   |-> {"none"},
           provision |-> {"RESERVED"},
           release   |-> {"ACTIVATED"},
           terminate |-> {"RESERVED", "FAILED"} ]

Begun == [ reserve   |-> "RESERVING",
           provision |-> "ACTIVATING",
           release   |-> "DEACTIVATING",
           terminate |-> "TERMINATING" ]

\* States in which the same request was evidently made before.
Repeated == [ reserve   |-> (AggStatus \ {"none"}),
              provision |-> {"ACTIVATING", "ACTIVATED"},
              release   |-> {"DEACTIVATING", "RESERVED"},
              terminate |-> {"TERMINATING", "TERMINATED"} ]

Outcome == [ RESERVING    |-> {"RESERVED", "FAILED"},
             ACTIVATING   |-> {"ACTIVATED", "FAILED"},
             DEACTIVATING |-> {"RESERVED", "FAILED"},
             TERMINATING  |-> {"TERMINATED"} ]

\* A reservation that holds bandwidth and VLANs somewhere along the path.
Live(g) == agg[g].status \notin {"none", "TERMINATED"}

AggInit == /\ agg = [g \in ReservationId |-> [status |-> "none", callback |-> 0]]
           /\ posted = {}

\* The proxy accepts request op on reservation g, to be reported at callback c.
Request(op, g, c) ==
  \/ /\ agg[g].status \in Legal[op]
     /\ agg' = [agg EXCEPT ![g] = [status |-> Begun[op], callback |-> c]]
     /\ UNCHANGED posted
  \/ /\ agg[g].status \in Repeated[op] \cap TransientStatus
     /\ agg' = [agg EXCEPT ![g].callback = c]
     /\ UNCHANGED posted
  \/ /\ agg[g].status \in Repeated[op] \cap StableStatus
     /\ agg' = [agg EXCEPT ![g].callback = c]
     /\ posted' = posted \cup {[callback |-> c, status |-> agg[g].status]}

\* The operation under way on g ends and its result is POSTed.
Complete(g) ==
  /\ agg[g].status \in TransientStatus
  /\ \E s \in Outcome[agg[g].status] :
       /\ agg' = [agg EXCEPT ![g].status = s]
       /\ posted' = posted \cup {[callback |-> agg[g].callback, status |-> s]}

\* A reservation fails or is ended from outside; nobody is called back.
Lapse(g) ==
  /\ \/ /\ agg[g].status \in {"RESERVED", "ACTIVATED"}
        /\ \E s \in {"FAILED", "TERMINATED"} : agg' = [agg EXCEPT ![g].status = s]
     \/ /\ agg[g].status = "FAILED"
        /\ agg' = [agg EXCEPT ![g].status = "TERMINATED"]
  /\ UNCHANGED posted

=============================================================================
