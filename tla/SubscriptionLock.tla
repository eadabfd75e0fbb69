--------------------------- MODULE SubscriptionLock ---------------------------
(***************************************************************************)
(* What the lock promises of a subscription, with no workflow, form or     *)
(* step in sight: it is taken by one process at a time, which must find it *)
(* in sync; only while it is taken is anything written to it; and it comes *)
(* back in sync when the process that took it has completed or, after that *)
(* process was aborted, by hand.  Whoever reads a subscription in sync has *)
(* therefore read what some process left behind, and never half of it.     *)
(***************************************************************************)
CONSTANTS Subscriptions, Processes

VARIABLES
  holders,  \* subscription -> the processes that have taken it
  insync,   \* subscription -> whether it may be taken
  stored    \* subscription -> the set of what is stored of it, empty until it is made

lockVars == <<holders, insync, stored>>

LockInit ==
  /\ holders = [s \in Subscriptions |-> {}]
  /\ insync \in [Subscriptions -> BOOLEAN]
  /\ \A s \in Subscriptions : insync[s] => stored[s] # {}

Free(s) == holders[s] = {}
Held(s) == holders[s] \in {{p} : p \in Processes}

\* A subscription is made by the process that goes on working on it.
Make(s) ==
  /\ stored[s] = {} /\ stored'[s] # {}
  /\ ~insync[s] /\ ~insync'[s]
  /\ Free(s) /\ Held(s)'

Take(s) ==
  /\ insync[s] /\ ~insync'[s]
  /\ Free(s) /\ Held(s)'
  /\ stored'[s] = stored[s]

Change(s) ==
  /\ stored'[s] \notin {{}, stored[s]}
  /\ ~insync[s] /\ ~insync'[s]
  /\ Held(s) /\ holders'[s] = holders[s]

Complete(s) ==
  /\ ~insync[s] /\ insync'[s]
  /\ Held(s) /\ Free(s)'
  /\ stored'[s] = stored[s]

Abandon(s) ==
  /\ Held(s) /\ Free(s)'
  /\ ~insync[s] /\ ~insync'[s]
  /\ stored'[s] = stored[s]

Override(s) ==
  /\ ~insync[s] /\ insync'[s]
  /\ Free(s) /\ Free(s)'
  /\ stored[s] # {} /\ stored'[s] = stored[s]

\* No other subscription is touched.
Only(s) ==
  /\ holders' = [holders EXCEPT ![s] = holders'[s]]
  /\ insync' = [insync EXCEPT ![s] = insync'[s]]
  /\ stored' = [stored EXCEPT ![s] = stored'[s]]

LockNext ==
  \E s \in Subscriptions :
    /\ Make(s) \/ Take(s) \/ Change(s) \/ Complete(s) \/ Abandon(s) \/ Override(s)
    /\ Only(s)

LockSpec == LockInit /\ [][LockNext]_lockVars

===============================================================================
