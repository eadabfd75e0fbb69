----------------------------- MODULE DdsInductive -----------------------------
(***************************************************************************)
(* The inductive invariant behind the safety theorems of DdsInventory.     *)
(* TLC checks it as an invariant, DdsInventory_proofs proves it.           *)
(***************************************************************************)
EXTENDS DdsInventory

\* What is advertised fits its object.
AdvertsFit == \A o \in Objects : dds[o] \in Adverts(o) \cup {Absent}

\* A process as the workflows make them: a create has an advertised object but no
\* subscription until it is constructed, all others have a subscription.
ProcessWellFormed(q) ==
  /\ q.run = "idle" => q = Idle
  /\ q.step = "none" => q.run = "idle"
  /\ q.step = "construct" => q.wf = "create" /\ q.object \in Objects /\ q.advert \in Adverts(q.object)
  /\ q.step \notin {"none", "construct"} => q.sub \in Sub
  /\ q.step = "lock" => q.wf \in DOMAIN AfterLock
  /\ q.step = "close" => q.wf = "terminate"
  /\ q.step \in {"reconcile", "store"} => q.wf = "reconcile"
  /\ q.step = "store" => q.advert \in Adverts(subs[q.sub].object) \cup {Absent}
  /\ q.wf = "reconcile" => subs[q.sub].object \in Stps
  /\ q.made <= Len(subs)

ProcessesWellFormed == \A p \in Procs : ProcessWellFormed(proc[p])

\* At most one process is past its lock on a subscription, and none while it is in sync.
OneAtWork ==
  /\ \A p, q \in Procs : Past(p) /\ Past(q) /\ proc[p].sub = proc[q].sub => p = q
  /\ \A p \in Procs : Past(p) => ~Mine(p).insync

\* Nothing is activated that is terminated.
ActivatesLive == \A p \in Procs : proc[p].step = "activate" => Live(proc[p].sub)

\* A subscription that was terminated, or has been since a workflow reopened it.
Gone(i) == ~Live(i) \/ subs[i].reopened

\* When its form was submitted, the object of a create had no subscription ...
FormSawNone ==
  \A p \in Procs : proc[p].step = "construct" =>
    \A i \in 1..proc[p].made : subs[i].object = proc[p].object => Gone(i)

\* ... and nothing was built on the subscription of a terminate.
FormSawUnused ==
  InUseGuard => \A p \in Procs : proc[p].wf = "terminate" /\ proc[p].step \in {"lock", "close"} =>
    \A j \in 1..proc[p].made : LinksTo(j, proc[p].sub) => Gone(j)

\* What the forms saw stays true of what they made and closed.
SecondIsRaced ==
  \A i, j \in Sub : i < j /\ subs[i].object = subs[j].object /\ i <= subs[j].made => Gone(i)

UnusedWhenClosed ==
  InUseGuard => \A i, j \in Sub : LinksTo(j, i) /\ ~Live(i) /\ j <= subs[i].closing => Gone(j)

\* IInv without the types, as TypeOK is an invariant of the same run.
Bookkeeping ==
  /\ AdvertsFit
  /\ ProcessesWellFormed
  /\ OneAtWork
  /\ ActivatesLive
  /\ FormSawNone
  /\ FormSawUnused
  /\ SecondIsRaced
  /\ UnusedWhenClosed

IInv == TypeOK /\ Bookkeeping

-----------------------------------------------------------------------------
(* The invariant behind StrandedOnlyInRaces, on top of IInv *)

\* A circuit chooses and stores VLANs of STPs that have had a subscription.
ChosenOfKnown ==
  \A c \in Circuits :
    /\ circuits[c].status \in {"PROVISIONING", "ACTIVE"} => \E i \in Sub : subs[i].object = circuits[c].stp
    /\ circuits[c].nextVlan # 0 => \E i \in Sub : subs[i].object = circuits[c].nextStp

\* An open form chose from the range that is stored, unless a reconcile came between.
OpenInRange ==
  \A i \in Sub, c \in Circuits :
    circuits[c].nextVlan # 0 /\ circuits[c].nextStp = subs[i].object /\ OnlyOne(i)
      => circuits[c].nextVlan \in subs[i].range \/ c \in raced.form

\* What a reconcile is about to store has the VLANs that were there when it checked.
CheckedInRange ==
  \A p \in Procs, c \in Circuits :
    /\ proc[p].step = "store" /\ proc[p].advert.listed
    /\ circuits[c].status \in {"PROVISIONING", "ACTIVE"} /\ circuits[c].stp = Mine(p).object
    => circuits[c].vlan \in proc[p].advert.range \/ c \in raced.stored

RangesInv == ChosenOfKnown /\ OpenInRange /\ CheckedInRange /\ StrandedOnlyInRaces

=============================================================================
