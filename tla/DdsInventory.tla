----------------------------- MODULE DdsInventory -----------------------------
(***************************************************************************)
(* The subscriptions for what the DDS advertises: topologies, switching    *)
(* services, service termination points (STPs) and service demarcation     *)
(* points (SDPs), with their create, modify, terminate and validate        *)
(* workflows and the reconcile workflow of STPs.                           *)
(*                                                                         *)
(* The form of a create workflow chooses an object that has no             *)
(* subscription and whose parents have one; the subscription is made in a  *)
(* later step, which finds the parents again.  The other workflows lock    *)
(* their subscription in a step between the form and the work, as in       *)
(* Mdp2pConnection, from which the treatment of processes is taken.        *)
(*                                                                         *)
(* The MDP2P circuits appear here with the VLAN they store on an STP.      *)
(***************************************************************************)
EXTENDS Naturals, Sequences, FiniteSets

CONSTANTS
  Topologies, Services, Stps,  \* ids
  Sdps,        \* an SDP has no id: it is known by
  EndsOf,      \* the set of its two STPs
  Ranges,      \* label groups, as sets of VLANs
  Circuits,    \* MDP2P subscriptions
  Procs,       \* process slots
  MaxSubs,     \* bound: subscriptions ever made
  MaxStarts,   \* bound: processes and circuit forms ever started
  MaxChanges,  \* bound: changes in the DDS of an object
  InUseGuard   \* whether orchestrator-core refuses to terminate a subscription
               \* that others use

Objects == Topologies \cup Services \cup Stps \cup Sdps

ASSUME ProductsAssumption ==
  /\ Topologies \cap Services = {} /\ (Topologies \cup Services) \cap Stps = {}
  /\ (Topologies \cup Services \cup Stps) \cap Sdps = {}
ASSUME RangesAssumption == {} \notin Ranges
ASSUME SdpAssumption == EndsOf \in [Sdps -> {ends \in SUBSET Stps : Cardinality(ends) = 2}]
ASSUME InventoryAssumption ==
  {MaxSubs, MaxStarts, MaxChanges} \subseteq Nat /\ InUseGuard \in BOOLEAN

VARIABLES
  dds,      \* object -> what the dds-proxy returns for it
  subs,     \* the subscriptions, in the order they were made
  proc,     \* process slot -> [wf, step, run, sub, object, advert, made]
  circuits, \* circuit -> what it stores, and what a form chose: stp and vlan each
  starts,   \* processes and circuit forms started so far
  changes,  \* object -> changes of it in the DDS so far
  raced     \* history: circuits whose open form, and whose stored VLAN, a reconcile
            \* of the STP may have missed

\* What only bounds and properties look at.
history == <<starts, changes, raced>>
vars == <<dds, subs, proc, circuits, history>>

-----------------------------------------------------------------------------
(* The DDS *)

Absent == [listed |-> FALSE, parents |-> <<>>, range |-> {}]
Listed(parents, range) == [listed |-> TRUE, parents |-> parents, range |-> range]

\* The topology of a service, the service of an STP and its range (which stands for
\* its capacity as well), and the two STPs of an SDP, in either order.
Adverts(o) ==
  IF o \in Topologies THEN {Listed(<<>>, {})}
  ELSE IF o \in Services THEN {Listed(<<t>>, {}) : t \in Topologies}
  ELSE IF o \in Stps THEN {Listed(<<s>>, r) : s \in Services, r \in Ranges}
  ELSE {Listed(ends, {}) : ends \in {e \in EndsOf[o] \X EndsOf[o] : e[1] # e[2]}}

\* A domain starts, stops or changes what it advertises.
Advertise(o) ==
  /\ \E advert \in Adverts(o) \cup {Absent} : dds' = [dds EXCEPT ![o] = advert]
  /\ dds' # dds /\ changes[o] < MaxChanges /\ changes' = [changes EXCEPT ![o] = @ + 1]
  /\ UNCHANGED <<subs, proc, circuits, starts, raced>>

-----------------------------------------------------------------------------
(* Subscription queries *)

Sub == DOMAIN subs

\* Fault for the sensitivity check: only subscriptions that are up are found.
LiveActive(i) == subs[i].status = "ACTIVE"

\* Every query leaves out TERMINATED subscriptions only.
Live(i) == subs[i].status # "TERMINATED"

\* subscribed_values, and subscribed_sdp_pairs for SDPs: an object determines its product.
Subscribed == {subs[i].object : i \in {j \in Sub : Live(j)}}

\* subscription_id_for_value returns the first of these, in no particular order.
Owners(o) == {i \in Sub : Live(i) /\ subs[i].object = o}

Parents(advert) == {advert.parents[k] : k \in DOMAIN advert.parents}

AvailableTopologies == {t \in Topologies : dds[t].listed /\ t \notin Subscribed}

\* The rest is offered only once its parents are subscribed.
Offered(objects) ==
  {o \in objects : dds[o].listed /\ o \notin Subscribed /\ Parents(dds[o]) \subseteq Subscribed}

AvailableSwitchingServices == Offered(Services)
AvailableServiceTerminationPoints == Offered(Stps)

\* Compared as pairs without an order.
AvailableServiceDemarcationPoints == Offered(Sdps)

-----------------------------------------------------------------------------
(* Processes *)

Idle == [wf |-> "none", step |-> "none", run |-> "idle", sub |-> 0,
         object |-> "none", advert |-> Absent, made |-> 0]

InitWith(advertised, subscriptions, started, changed) ==
  /\ dds = advertised
  /\ subs = subscriptions
  /\ proc = [p \in Procs |-> Idle]
  /\ circuits = [c \in Circuits |-> [status |-> "none", stp |-> "none", vlan |-> 0,
                                     nextStp |-> "none", nextVlan |-> 0]]
  /\ starts = started /\ changes = changed
  /\ raced = [form |-> {}, stored |-> {}]

Init == InitWith([o \in Objects |-> Absent], <<>>, 0, [o \in Objects |-> 0])

Unfinished(p) == proc[p].run # "idle"
CanStart == starts < MaxStarts /\ starts' = starts + 1
At(p, s) == proc[p].run = "running" /\ proc[p].step = s
Mine(p) == subs[proc[p].sub]

\* p runs a workflow on the subscription of one of the objects.
Working(p, objects) == proc[p].sub # 0 /\ Mine(p).object \in objects

Goto(p, s) == proc' = [proc EXCEPT ![p].step = s]
Set(p, field, value) == subs' = [subs EXCEPT ![proc[p].sub][field] = value]

-----------------------------------------------------------------------------
(* Create *)

\* The create form is submitted: it is evaluated once more, and the process starts.
SubmitCreate(p, o) ==
  /\ ~Unfinished(p)
  /\ proc' = [proc EXCEPT ![p] = [wf |-> "create", step |-> "construct", run |-> "running",
                                  sub |-> 0, object |-> o, advert |-> dds[o], made |-> Len(subs)]]
  /\ CanStart
  /\ UNCHANGED <<dds, subs, circuits, changes, raced>>

CreateTopology(p) == \E t \in AvailableTopologies : SubmitCreate(p, t)
CreateSwitchingService(p) == \E s \in AvailableSwitchingServices : SubmitCreate(p, s)
CreateStp(p) == \E s \in AvailableServiceTerminationPoints : SubmitCreate(p, s)
CreateSdp(p) == \E s \in AvailableServiceDemarcationPoints : SubmitCreate(p, s)

\* The construct step stores a new subscription with links to the given ones.
Construct(p, links) ==
  /\ At(p, "construct") /\ Len(subs) < MaxSubs
  /\ subs' = Append(subs, [object |-> proc[p].object, links |-> links,
                           range |-> proc[p].advert.range, status |-> "PROVISIONING",
                           insync |-> FALSE, made |-> proc[p].made, reopened |-> FALSE, closing |-> 0])
  /\ proc' = [proc EXCEPT ![p] = [Idle EXCEPT !.wf = "create", !.step = "activate",
                                              !.run = "running", !.sub = Len(subs')]]
  /\ UNCHANGED <<dds, circuits, history>>

ConstructTopology(p) == proc[p].object \in Topologies /\ Construct(p, <<>>)

\* topology_block_for and switchingservice_block_for assert that there is an owner
\* (the step fails otherwise, StepFails).
ConstructSwitchingService(p) ==
  proc[p].object \in Services /\ \E t \in Owners(proc[p].advert.parents[1]) : Construct(p, <<t>>)

ConstructStp(p) ==
  proc[p].object \in Stps /\ \E s \in Owners(proc[p].advert.parents[1]) : Construct(p, <<s>>)

ConstructSdp(p) ==
  /\ proc[p].object \in Sdps
  /\ \E a \in Owners(proc[p].advert.parents[1]), z \in Owners(proc[p].advert.parents[2]) :
       Construct(p, <<a, z>>)

-----------------------------------------------------------------------------
(* Workflows on a subscription *)

Submit(p, wf, i) ==
  /\ ~Unfinished(p) /\ subs[i].insync /\ Live(i)
  /\ proc' = [proc EXCEPT ![p] = [Idle EXCEPT !.wf = wf, !.step = "lock", !.run = "running",
                                              !.sub = i, !.made = Len(subs)]]
  /\ CanStart
  /\ UNCHANGED <<dds, subs, circuits, changes, raced>>

LinksTo(j, i) == \E k \in DOMAIN subs[j].links : subs[j].links[k] = i

\* The other subscriptions, circuits among them, that are built on i.
InUse(i) ==
  \/ \E j \in Sub : Live(j) /\ LinksTo(j, i)
  \/ \E c \in Circuits : circuits[c].status \in {"PROVISIONING", "ACTIVE"} /\ circuits[c].stp = subs[i].object

\* The four products have the same modify and the same terminate workflow.  What
\* modify changes, a name, is left out.
SubmitModify(p, i) == Submit(p, "modify", i)
SubmitTerminate(p, i) == (InUseGuard => ~InUse(i)) /\ Submit(p, "terminate", i)
StartValidate(p, i) == Submit(p, "validate", i)
StartReconcile(p, i) == subs[i].object \in Stps /\ Submit(p, "reconcile", i)

AfterLock == [modify |-> "provisioning", terminate |-> "close",
              validate |-> "validate", reconcile |-> "reconcile"]

\* Fault for the sensitivity check: the lock is taken without looking.
LockUnchecked(p) ==
  /\ At(p, "lock")
  /\ Set(p, "insync", FALSE)
  /\ Goto(p, AfterLock[proc[p].wf])
  /\ UNCHANGED <<dds, circuits, history>>

Lock(p) ==
  /\ At(p, "lock") /\ Mine(p).insync
  /\ Set(p, "insync", FALSE)
  /\ Goto(p, AfterLock[proc[p].wf])
  /\ UNCHANGED <<dds, circuits, history>>

\* modify: set_status(PROVISIONING), also of a subscription terminated since the form
SetStatusProvisioning(p) ==
  /\ At(p, "provisioning")
  /\ subs' = [subs EXCEPT ![proc[p].sub] =
                [@ EXCEPT !.status = "PROVISIONING", !.reopened = Mine(p).reopened \/ ~Live(proc[p].sub)]]
  /\ Goto(p, "activate")
  /\ UNCHANGED <<dds, circuits, history>>

SetStatusActive(p) ==
  /\ At(p, "activate")
  /\ Set(p, "status", "ACTIVE")
  /\ Goto(p, "resync")
  /\ UNCHANGED <<dds, circuits, history>>

SetStatusTerminated(p) ==
  /\ At(p, "close")
  /\ subs' = [subs EXCEPT ![proc[p].sub] =
                [@ EXCEPT !.status = "TERMINATED", !.closing = proc[p].made]]
  /\ Goto(p, "resync")
  /\ UNCHANGED <<dds, circuits, history>>

Resync(p) ==
  /\ At(p, "resync")
  /\ Set(p, "insync", TRUE)
  /\ proc' = [proc EXCEPT ![p] = Idle]
  /\ UNCHANGED <<dds, circuits, history>>

-----------------------------------------------------------------------------
(* Validate and reconcile.  InconsistentDataError fails the step (StepFails). *)

StoredParents(i) == [k \in DOMAIN subs[i].links |-> subs[subs[i].links[k]].object]

\* Fault for the sensitivity check: a circuit counts only once it is up.
StoredVlansActive(stp) ==
  {circuits[c].vlan : c \in {d \in Circuits : circuits[d].status = "ACTIVE" /\ circuits[d].stp = stp}}

\* The VLANs that MDP2P subscriptions which are not TERMINATED store on stp.
StoredVlans(stp) ==
  {circuits[c].vlan :
     c \in {d \in Circuits : circuits[d].status \in {"PROVISIONING", "ACTIVE"} /\ circuits[d].stp = stp}}

VlansOutside(stp, range) == StoredVlans(stp) \ range

Check(p, s, ok, next) ==
  /\ At(p, s) /\ ok
  /\ Goto(p, next)
  /\ UNCHANGED <<dds, subs, circuits, history>>

ValidateTopology(p) ==
  /\ Working(p, Topologies)
  /\ Check(p, "validate", dds[Mine(p).object].listed, "resync")

SameParents(p) == dds[Mine(p).object].parents = StoredParents(proc[p].sub)

ValidateSwitchingService(p) ==
  /\ Working(p, Services)
  /\ Check(p, "validate", dds[Mine(p).object].listed /\ SameParents(p), "resync")

ValidateStp(p) ==
  LET advert == dds[Mine(p).object] IN
    /\ Working(p, Stps)
    /\ Check(p, "validate", advert.listed /\ advert.range = Mine(p).range /\ SameParents(p), "vlans")

ValidateStpVlans(p) ==
  /\ Working(p, Stps)
  /\ Check(p, "vlans", VlansOutside(Mine(p).object, Mine(p).range) = {}, "resync")

ValidateSdp(p) ==
  /\ Working(p, Sdps)
  /\ Check(p, "validate", dds[Mine(p).object].listed, "vlans")

\* The STPs' own stored ranges must be equal.
ValidateSdpVlans(p) ==
  LET ends == Mine(p).links IN
    /\ Working(p, Sdps)
    /\ Check(p, "vlans", subs[ends[1]].range = subs[ends[2]].range, "resync")

\* Fetch and check: a range that leaves out a stored VLAN is refused.  What is fetched
\* is kept in the slot until the step ends.
ReconcileStp(p) ==
  /\ At(p, "reconcile")
  /\ LET advert == dds[Mine(p).object] IN
       /\ advert.listed => VlansOutside(Mine(p).object, advert.range) = {}
       /\ proc' = [proc EXCEPT ![p] = [@ EXCEPT !.step = "store", !.advert = advert]]
  /\ UNCHANGED <<dds, subs, circuits, history>>

\* Open forms that offered the range that is replaced.
Overtaken(stp) == {c \in Circuits : circuits[c].nextVlan # 0 /\ circuits[c].nextStp = stp}

Stored(p) == proc' = [proc EXCEPT ![p] = [@ EXCEPT !.step = "resync", !.advert = Absent]]

\* Fault for the sensitivity check: an STP that is gone is stored without a range.
StoreRangeGone(p) ==
  /\ At(p, "store")
  /\ Set(p, "range", proc[p].advert.range)
  /\ raced' = [raced EXCEPT !.form = @ \cup Overtaken(Mine(p).object)]
  /\ Stored(p)
  /\ UNCHANGED <<dds, circuits, starts, changes>>

\* The end of the same step, which commits what was fetched, whatever circuits have
\* stored since the check.  An STP that is gone keeps what it has, and the parent is
\* never changed.
StoreRange(p) ==
  /\ At(p, "store")
  /\ IF proc[p].advert.listed
     THEN /\ Set(p, "range", proc[p].advert.range)
          /\ raced' = [raced EXCEPT !.form = @ \cup Overtaken(Mine(p).object)]
     ELSE UNCHANGED <<subs, raced>>
  /\ Stored(p)
  /\ UNCHANGED <<dds, circuits, starts, changes>>

-----------------------------------------------------------------------------
(* The engine *)

\* A step is repeated from its start.
Restarted(q) == IF q.step = "store" THEN [q EXCEPT !.step = "reconcile", !.advert = Absent] ELSE q

StepFails(p) ==
  /\ proc[p].run = "running"
  /\ proc' = [proc EXCEPT ![p] = [Restarted(@) EXCEPT !.run = "failed"]]
  /\ UNCHANGED <<dds, subs, circuits, history>>

Retry(p) ==
  /\ proc[p].run = "failed"
  /\ proc' = [proc EXCEPT ![p].run = "running"]
  /\ UNCHANGED <<dds, subs, circuits, history>>

Abort(p) ==
  /\ proc[p].run = "failed"
  /\ proc' = [proc EXCEPT ![p] = Idle]
  /\ UNCHANGED <<dds, subs, circuits, history>>

\* The user's override, refused while a process on the subscription is unfinished.
SetInSync(i) ==
  /\ ~subs[i].insync /\ \A p \in Procs : Unfinished(p) => proc[p].sub # i
  /\ subs' = [subs EXCEPT ![i].insync = TRUE]
  /\ UNCHANGED <<dds, proc, circuits, history>>

-----------------------------------------------------------------------------
(* The circuits, as far as they store a VLAN on an STP *)

\* The form of create, and of retry for a circuit that exists, offers the VLANs in
\* the range of a subscribed STP.
SubmitCircuit(c) ==
  /\ circuits[c].status # "TERMINATED" /\ circuits[c].nextVlan = 0
  /\ \E i \in Sub : /\ Live(i) /\ subs[i].object \in Stps
                    /\ \E v \in subs[i].range :
                         circuits' = [circuits EXCEPT ![c] = [@ EXCEPT !.nextStp = subs[i].object, !.nextVlan = v]]
  /\ raced' = [raced EXCEPT !.form = @ \ {c}]
  /\ CanStart
  /\ UNCHANGED <<dds, subs, proc, changes>>

\* A reconcile of stp has checked and will store.
Reconciling(stp) == \E p \in Procs : proc[p].step = "store" /\ Mine(p).object = stp

\* construct_mdp2p_model, or update_subscription of retry: stp_block_for must find the
\* STP.  Its range is not looked at again.
StoreCircuit(c) ==
  /\ circuits[c].nextVlan # 0 /\ Owners(circuits[c].nextStp) # {}
  /\ circuits' = [circuits EXCEPT ![c] =
       [status |-> "PROVISIONING", stp |-> @.nextStp, vlan |-> @.nextVlan, nextStp |-> "none", nextVlan |-> 0]]
  /\ raced' = [form |-> raced.form \ {c},
               stored |-> IF c \in raced.form \/ Reconciling(circuits[c].nextStp)
                          THEN raced.stored \cup {c} ELSE raced.stored \ {c}]
  /\ UNCHANGED <<dds, subs, proc, starts, changes>>

FinishCircuit(c) ==
  /\ circuits[c].status \in {"PROVISIONING", "ACTIVE"} /\ circuits[c].nextVlan = 0
  /\ \E s \in {"ACTIVE", "TERMINATED"} : circuits' = [circuits EXCEPT ![c].status = s]
  /\ circuits' # circuits
  /\ UNCHANGED <<dds, subs, proc, history>>

-----------------------------------------------------------------------------
Work(p) ==
  \/ ConstructTopology(p) \/ ConstructSwitchingService(p) \/ ConstructStp(p) \/ ConstructSdp(p)
  \/ Lock(p) \/ SetStatusProvisioning(p) \/ SetStatusActive(p) \/ SetStatusTerminated(p)
  \/ ValidateTopology(p) \/ ValidateSwitchingService(p)
  \/ ValidateStp(p) \/ ValidateStpVlans(p) \/ ValidateSdp(p) \/ ValidateSdpVlans(p)
  \/ ReconcileStp(p) \/ StoreRange(p) \/ Resync(p) \/ StepFails(p)

UserStep(p) ==
  \/ CreateTopology(p) \/ CreateSwitchingService(p) \/ CreateStp(p) \/ CreateSdp(p)
  \/ \E i \in Sub : \/ SubmitModify(p, i) \/ SubmitTerminate(p, i)
                    \/ StartValidate(p, i) \/ StartReconcile(p, i)
  \/ Retry(p) \/ Abort(p)

Next ==
  \/ \E o \in Objects : Advertise(o)
  \/ \E p \in Procs : UserStep(p) \/ Work(p)
  \/ \E i \in Sub : SetInSync(i)
  \/ \E c \in Circuits : SubmitCircuit(c) \/ StoreCircuit(c) \/ FinishCircuit(c)

Spec == Init /\ [][Next]_vars

-----------------------------------------------------------------------------
(* Properties *)

Advert == {Absent} \cup UNION {Adverts(o) : o \in Objects}
VlanNo == {0} \cup UNION Ranges

Links == {<<>>} \cup {<<i>> : i \in 1..MaxSubs} \cup ((1..MaxSubs) \X (1..MaxSubs))

Subscription ==
  [object : Objects, links : Links, range : Ranges \cup {{}}, status : {"PROVISIONING", "ACTIVE", "TERMINATED"},
   insync : BOOLEAN, made : 0..MaxSubs, reopened : BOOLEAN, closing : 0..MaxSubs]

Process ==
  [wf : {"none", "create", "modify", "terminate", "validate", "reconcile"},
   step : {"none", "construct", "lock", "provisioning", "activate", "close",
           "validate", "vlans", "reconcile", "store", "resync"},
   run : {"idle", "running", "failed"}, sub : 0..MaxSubs,
   object : Objects \cup {"none"}, advert : Advert, made : 0..MaxSubs]

\* A subscription links to subscriptions of the products its own product is built on,
\* and it has a range if it is for an STP.
WellFormed(i) ==
  LET s == subs[i] IN
    /\ \A k \in DOMAIN s.links : s.links[k] \in Sub
    /\ [k \in DOMAIN s.links |-> subs[s.links[k]].object] \in {a.parents : a \in Adverts(s.object)}
    /\ s.object \in Stps <=> s.range # {}

\* Every variable has the type of the value it stands for.  An STP that the DDS no
\* longer lists keeps its range.
TypeOK ==
  /\ dds \in [Objects -> Advert]
  /\ subs \in Seq(Subscription) /\ Len(subs) <= MaxSubs /\ \A i \in Sub : WellFormed(i)
  /\ proc \in [Procs -> Process]
  /\ circuits \in [Circuits ->
       [status : {"none", "PROVISIONING", "ACTIVE", "TERMINATED"}, stp : Stps \cup {"none"},
        vlan : VlanNo, nextStp : Stps \cup {"none"}, nextVlan : VlanNo]]
  /\ starts \in 0..MaxStarts /\ changes \in [Objects -> 0..MaxChanges]
  /\ raced \in [form : SUBSET Circuits, stored : SUBSET Circuits]

\* An object gets a second subscription only if the first one was made after the
\* second one's form was submitted, or was terminated and reopened by a modify that
\* was submitted before: no order of failures, retries, changes in the DDS and half
\* done workflows makes a form offer an object that has a subscription.
DuplicatesOnlyFromRaces ==
  \A i, j \in Sub :
    /\ i < j /\ subs[i].object = subs[j].object
    /\ "TERMINATED" \notin {subs[i].status, subs[j].status}
    => i > subs[j].made \/ subs[i].reopened

\* A subscription is built on one that is terminated ("exactly two subscribed
\* ServiceTerminationPoints", README.md) only if the form that terminated the latter
\* was submitted before the former was made, or a modify reopened the former: half
\* made, failed and retried subscriptions count as users like any other.
LinksLostOnlyInRaces ==
  \A i, j \in Sub :
    Live(j) /\ LinksTo(j, i) /\ ~Live(i) => j > subs[i].closing \/ subs[j].reopened

\* The only subscription there ever was for an STP.
OnlyOne(i) == \A j \in Sub : subs[j].object = subs[i].object => j = i

\* "A range that would leave out a VLAN an MDP2P subscription stores is refused"
\* (README.md), so a circuit's VLAN, half made circuits included, stays in the range of
\* its STP.  The check of reconcile misses only a VLAN that a form offered before the
\* new range was stored and that was stored after, or that was stored between the
\* check and the end of the step: however steps fail and are repeated, whatever the DDS
\* advertises meanwhile, and for circuits that choose again as well.
StrandedOnlyInRaces ==
  \A i \in Sub, c \in Circuits :
    /\ circuits[c].status \in {"PROVISIONING", "ACTIVE"} /\ circuits[c].stp = subs[i].object
    /\ OnlyOne(i)
    => circuits[c].vlan \in subs[i].range \/ c \in raced.stored

\* "Only STPs without a subscription whose switching service is already subscribed,
\* so the switching_service link in the construct step always resolves"
\* (workflows/stp/create_stp.py:37), and the same for services and SDPs.
LinkResolves ==
  \A p \in Procs : At(p, "construct") => Parents(proc[p].advert) \subseteq Subscribed

\* Past its lock, or its construct step.
Past(p) == proc[p].step \notin {"none", "construct", "lock"}

\* The subscriptions that there may be, with what is stored of them.
Locking == INSTANCE SubscriptionLock WITH
             Subscriptions <- 1..MaxSubs,
             Processes <- Procs,
             holders <- [i \in 1..MaxSubs |-> {p \in Procs : Past(p) /\ proc[p].sub = i}],
             insync <- [i \in 1..MaxSubs |-> i \in Sub /\ subs[i].insync],
             stored <- [i \in 1..MaxSubs |->
                          IF i \in Sub THEN {<<subs[i].object, subs[i].links, subs[i].range, subs[i].status>>}
                          ELSE {}]

\* The workflows of the four products implement the lock: two of them never write to
\* one subscription at a time, and none writes to a subscription that is in sync.
KeepsTheLock == Locking!LockSpec

=============================================================================
