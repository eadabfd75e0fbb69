---------------------------- MODULE ConnectionFsm ----------------------------
(***************************************************************************)
(* The connection state machine of workflows/mdp2p/shared/fsm.py: the      *)
(* resting states stored on vc.state, the events the workflows send, and   *)
(* where each event may be sent from.  Pure: no variables.                 *)
(***************************************************************************)

ConnectionState == {"CREATED", "RESERVED", "ACTIVATED", "FAILED", "TERMINATED"}

\* One row per attribute of ConnectionStateMachine.
Transition ==
  [ reserve_confirmed   |-> [from |-> {"CREATED"},            to |-> "RESERVED"],
    reserve_failed      |-> [from |-> {"CREATED"},            to |-> "FAILED"],
    provision_confirmed |-> [from |-> {"RESERVED"},           to |-> "ACTIVATED"],
    provision_failed    |-> [from |-> {"RESERVED"},           to |-> "FAILED"],
    release_confirmed   |-> [from |-> {"ACTIVATED"},          to |-> "RESERVED"],
    release_failed      |-> [from |-> {"ACTIVATED"},          to |-> "FAILED"],
    terminate           |-> [from |-> {"RESERVED", "FAILED"}, to |-> "TERMINATED"],
    retry               |-> [from |-> {"FAILED", "CREATED"},  to |-> "CREATED"] ]

\* FALSE where machine.send raises TransitionNotAllowed.
Allowed(state, event) == state \in Transition[event].from

\* The resulting state of apply(), for an event that is allowed.
Apply(state, event) == Transition[event].to

=============================================================================
