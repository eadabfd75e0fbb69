------------------------- MODULE MCReservationDrift -------------------------
(***************************************************************************)
(* ReservationDrift for TLC, from its initial states or from a state that  *)
(* DriftSpec reaches: a create ran to its end and the aggregator answered  *)
(* it with FAILED, so that a retry is next.                                *)
(***************************************************************************)
EXTENDS ReservationDrift

AfterFailedCreate ==
  /\ sub = [status |-> "ACTIVE", insync |-> TRUE, state |-> "FAILED",
            conn |-> 1, gid |-> 1, lastError |-> "callback"]
  /\ proc = [p \in Procs |-> IdleProc] /\ forms = {}
  /\ agg = [g \in ReservationId |-> IF g = 1 THEN [status |-> "FAILED", callback |-> 1]
                                    ELSE [status |-> "none", callback |-> 0]]
  /\ callbacks = 1 /\ posted = {[callback |-> 1, status |-> "FAILED"]}
  /\ drifted = FALSE
  /\ task = Over("idle") /\ known = NoConn /\ quiet = FALSE

FromFailedCreate == AfterFailedCreate /\ [][DriftNext]_driftVars

=============================================================================
