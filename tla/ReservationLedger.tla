-------------------------- MODULE ReservationLedger --------------------------
(***************************************************************************)
(* What a circuit promises about the reservations made for it, with no     *)
(* workflow, process, callback or timeout in sight: the circuit owns one   *)
(* reservation id at a time, only the reservation of that id is ever       *)
(* acquired, the id is renewed only while nothing is held under it, and a  *)
(* circuit that has ended holds nothing under its id and never acquires    *)
(* anything again.  One exception is granted: while the circuit has lost   *)
(* the handle on what it holds, it may renew its id and leave that behind. *)
(***************************************************************************)
EXTENDS Naturals

VARIABLES
  owner,   \* the reservation id the circuit owns, 0 before the first
  live,    \* the reservation ids the network holds resources for
  ended,   \* the circuit is over
  lost     \* told from outside: the handle on what the circuit holds is lost

ledgerVars == <<owner, live, ended, lost>>

LedgerInit == owner = 0 /\ live = {} /\ ended = FALSE /\ lost = FALSE

Renew ==
  /\ owner \notin live \/ lost
  /\ ~ended
  /\ owner' = owner + 1
  /\ UNCHANGED <<live, ended>>

Acquire ==
  /\ owner \notin live /\ ~ended /\ owner # 0
  /\ live' = live \cup {owner}
  /\ UNCHANGED <<owner, ended>>

Relinquish ==
  /\ \E g \in live : live' = live \ {g}
  /\ UNCHANGED <<owner, ended>>

End ==
  /\ owner \notin live
  /\ ended' = TRUE
  /\ UNCHANGED <<owner, live>>

Told == UNCHANGED <<owner, live, ended>>

LedgerNext ==
  /\ Renew \/ Acquire \/ Relinquish \/ End \/ Told
  /\ lost' \in BOOLEAN

LedgerSpec == LedgerInit /\ [][LedgerNext]_ledgerVars

=============================================================================
