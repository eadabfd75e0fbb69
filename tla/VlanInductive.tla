---------------------------- MODULE VlanInductive -----------------------------
(***************************************************************************)
(* The inductive invariant behind the safety theorems of VlanSelection.    *)
(* TLC checks it as an invariant, VlanSelection_proofs proves it.          *)
(***************************************************************************)
EXTENDS VlanSelection

\* What a form may have accepted.
Entered == {Stored(r) : r \in Requests}

\* A process or form as the workflows make them: only create starts without a
\* circuit, only a retry has read a connection in its form, and create and retry
\* carry what was entered.
WellFormed(q) ==
  /\ q.run = "idle" => q = Idle
  /\ q.wf = "none" => q.run = "idle"
  /\ q.run = "form" <=> q.step \in {"list", "submit"}
  /\ q.run = "awaiting" => q.step \in {"terminate", "reserve"}
  /\ q.wf = "none" => q.step = "none"
  /\ q.wf = "create" => q.step \in {"submit", "construct", "reserve", "resync"}
  /\ q.wf = "retry" => q.step \in {"list", "submit", "lock", "terminate", "update", "reserve", "resync"}
  /\ q.wf = "terminate" => q.step \in {"lock", "terminate", "resync"}
  /\ q.wf \in {"retry", "terminate"} \/ q.step \in {"reserve", "resync"} <=> q.circuit \in Circuits
  /\ q.released # None <=> q.wf = "retry"
  /\ q.request \in IF q.run \in {"running", "awaiting"} /\ q.wf # "terminate" THEN Entered ELSE {NoRequest}

ProcessesWellFormed == \A p \in Procs : WellFormed(proc[p])

\* At most one process is past its lock on a circuit, and none while it is in sync.
OneAtWork ==
  /\ \A p, q \in Procs : Past(p) /\ Past(q) /\ proc[p].circuit = proc[q].circuit => p = q
  /\ \A p \in Procs : Past(p) => ~Mine(p).insync /\ Mine(p).state # "none"

\* What is not subscribed stores nothing; what is has an id and a request.
Subscriptions ==
  \A c \in Circuits :
    /\ sub[c].state = "none" => sub[c] = Unsubscribed
    /\ sub[c].state # "none" => sub[c].gid # None /\ sub[c].request \in Entered

\* No two circuits have one global reservation id.
GidsDiffer == \A c, e \in Circuits : sub[c].gid = sub[e].gid => c = e \/ sub[c].gid = None

\* The reservation of a circuit's id is the one that it stores, sent or not.
ReservedAsStored ==
  \A c \in Circuits :
    /\ sub[c].gid # None => LET g == sub[c].gid  r == sub[c].request IN
         agg[g].status # "none" => agg[g].ends = {r.source, r.destination} /\ agg[g].pins = r.pins
    /\ sub[c].conn # None => sub[c].conn = sub[c].gid /\ agg[sub[c].conn].status # "none"

\* What is held follows the status.
HeldAsPromised ==
  \A g \in Id :
    /\ agg[g].status \in {"none", "RESERVING", "TERMINATED"} => agg[g].segments = {}
    /\ agg[g].status = "RESERVED" => PinnedSdpVlans(agg[g].pins) \subseteq agg[g].segments \cup agg[g].ends

\* What the steps of a process know about the subscription.
StepKnows ==
  \A p \in Procs :
    /\ proc[p].step = "update" => Mine(p).conn = None
    /\ proc[p].step = "reserve" => Mine(p).request = proc[p].request

\* The connection that the form of a retry read is the circuit's until it is TERMINATED.
ReleasedIsOwn ==
  \A p \in Procs :
    proc[p].released # None => Mine(p).conn = proc[p].released \/ agg[proc[p].released].status = "TERMINATED"

\* The listing, and what was taken since, has all that is held.
ListingComplete ==
  \A p \in Procs : FormAt(p, "submit") =>
    \A g \in Id \ {proc[p].released} : agg[g].segments \subseteq proc[p].in_use \cup proc[p].raced

\* FreeWhenListed, with only the stored connection taken to be the process's own.
FreeButConnection ==
  \A p \in Procs : ~Sent(p) => \A g \in Id :
    (proc[p].circuit \in Circuits => g # Mine(p).conn)
      => agg[g].segments \cap Asked(proc[p].request) \subseteq proc[p].raced

IInv ==
  /\ TypeOK
  /\ ProcessesWellFormed
  /\ OneAtWork
  /\ Subscriptions
  /\ GidsDiffer
  /\ ReservedAsStored
  /\ HeldAsPromised
  /\ StepKnows
  /\ ReleasedIsOwn
  /\ ListingComplete
  /\ FreeButConnection

=============================================================================
