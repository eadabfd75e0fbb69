-------------------------- MODULE ReservationDrift --------------------------
(***************************************************************************)
(* task_validate_aggregator_against_subscriptions, the nightly comparison  *)
(* of the reservations at the aggregator with the connection ids that are  *)
(* subscribed, next to the workflows of Mdp2pConnection.                   *)
(*                                                                         *)
(* The task takes no lock.  Its one step first asks the aggregator and     *)
(* then reads the database, so it may compare moments between which        *)
(* workflows went on.                                                      *)
(***************************************************************************)
EXTENDS Mdp2pConnection

CONSTANT Ignorable  \* the ids settings.ignored_connection_ids may name

ASSUME IgnorableAssumption == Ignorable \subseteq ReservationId

VARIABLES
  task,   \* [step, live]: the run or its verdict, and the ids it listed
  known,  \* history: the connection id stored when the reservations were listed
  quiet   \* history: since the listing the subscription was in sync and no
          \* override or lapse was left unreconciled

driftVars == <<vars, task, known, quiet>>

Over(step) == [step |-> step, live |-> {}]

DriftInit == Init /\ task = Over("idle") /\ known = NoConn /\ quiet = FALSE

AtRest == sub.insync /\ ~drifted

\* Fault for the sensitivity check: reservations that are in transit are not taken for live.
ListReservationsStable ==
  /\ task.step # "compare"
  /\ task' = [step |-> "compare",
              live |-> {g \in ReservationId : Live(g) /\ agg[g].status \in StableStatus}]
  /\ known' = sub.conn
  /\ quiet' = AtRest
  /\ UNCHANGED vars

\* list_reservations, reduced to the live ones
ListReservations ==
  /\ task.step # "compare"
  /\ task' = [step |-> "compare", live |-> {g \in ReservationId : Live(g)}]
  /\ known' = sub.conn
  /\ quiet' = AtRest
  /\ UNCHANGED vars

\* Fault for the sensitivity check: the list of the run before is kept.
ListFailsKeeps ==
  /\ task.step # "compare"
  /\ task' = [Over("idle") EXCEPT !.live = {g \in ReservationId : Live(g)}]
  /\ UNCHANGED <<vars, known, quiet>>

\* AggregatorProxyError: the run fails, nothing is compared and there is no verdict.
ListFails ==
  /\ task.step # "compare"
  /\ task' = Over("idle")
  /\ UNCHANGED <<vars, known, quiet>>

\* subscribed_values: the connection ids of subscriptions that are not TERMINATED.
Subscribed ==
  IF sub.status \notin {"none", "TERMINATED"} /\ sub.conn # NoConn THEN {sub.conn} ELSE {}

\* Fault for the sensitivity check: only a reservation the circuit never had is unknown.
WithoutSubscriptionEver(ignored) == {g \in task.live \ ignored : g > sub.gid}

WithoutSubscription(ignored) == (task.live \ Subscribed) \ ignored

\* Ignoring applies to the other direction only.
WithoutReservation == Subscribed \ task.live

Compare(ignored) ==
  /\ task.step = "compare"
  /\ task' = Over(IF WithoutSubscription(ignored) \cup WithoutReservation = {}
                   THEN "completed" ELSE "inconsistent_data")
  /\ known' = NoConn /\ quiet' = FALSE
  /\ UNCHANGED vars

WorkflowStep == Next /\ quiet' = (quiet /\ AtRest') /\ UNCHANGED <<task, known>>

DriftNext == ListReservations \/ ListFails \/ WorkflowStep
             \/ \E ignored \in SUBSET Ignorable : Compare(ignored)

DriftSpec == DriftInit /\ [][DriftNext]_driftVars

-----------------------------------------------------------------------------
(* Properties *)

\* Every variable has the type of the value it stands for, and only a run that is
\* about to compare has listed anything.
DriftTypeOK ==
  /\ task \in [step : {"idle", "compare", "completed", "inconsistent_data"},
               live : SUBSET ReservationId]
  /\ task.step # "compare" => task = Over(task.step)
  /\ known \in 0..MaxReservations
  /\ quiet \in BOOLEAN

\* What differs at this moment: reservations that no subscription knows and that are
\* not ignored, and a subscribed connection whose reservation has ended.
Unknown(ignored) == {g \in ReservationId \ ignored : Live(g) /\ g # sub.conn}
Gone == {g \in ReservationId : g = sub.conn /\ sub.status # "TERMINATED" /\ agg[g].status = "TERMINATED"}

\* In a run during which the subscription was in sync and nothing was left
\* unreconciled, a difference is reported exactly if there is one: a reservation that
\* a stale retry left behind, unless it is ignored, or a circuit whose reservation
\* has ended while its subscription has not, ignored or not.
VerdictIsRight ==
  [][ \A ignored \in SUBSET Ignorable : Compare(ignored) /\ quiet =>
        (task'.step = "inconsistent_data" <=> Unknown(ignored) \cup Gone # {}) ]_driftVars

\* Whatever the workflows did between the listing and the comparison, what is reported
\* wrongly has changed meanwhile: a reported reservation that is still live is not the
\* circuit's, and a connection that is reported as gone, but is there, was stored
\* after the listing.
FalseReportsAreOfChanges ==
  [][ \A ignored \in SUBSET Ignorable : Compare(ignored) =>
        /\ \A g \in WithoutSubscription(ignored) : Live(g) => g \in Unknown(ignored)
        /\ \A g \in WithoutReservation : Live(g) => g # known ]_driftVars

\* "A terminated connection's subscription is terminated too"
\* (tests/workflows/test_tasks.py:115): stated for a subscription in sync, which
\* has been reconciled if its reservation lapsed.
TerminatedTogether ==
  AtRest /\ agg[sub.conn].status = "TERMINATED" => sub.status = "TERMINATED"

=============================================================================
