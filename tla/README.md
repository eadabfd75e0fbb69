# nsi-orchestrator in TLA+

The NSI orchestrator manages multi-domain point-to-point circuits (MDP2P) with
[orchestrator-core](https://workfloworchestrator.org): it keeps a subscription per circuit, reserves
and provisions the circuit at an NSI aggregator through a proxy, and keeps subscriptions for the
topologies, switching services, STPs and SDPs that the DDS advertises. This directory specifies
that program, model-checks it with TLC and proves its main safety properties with TLAPS.

## The system

| Component | State | Operations | Interacts with |
|---|---|---|---|
| MDP2P workflows (`workflows/mdp2p/*.py`) | the subscription: lifecycle status, `insync`, the `vc` block with `state`, `connection_id`, `global_reservation_id`, `last_error` | create, provision, release, modify, retry reservation, terminate, reconcile, validate | aggregator proxy (requests, callbacks), engine, forms |
| Connection state machine (`workflows/mdp2p/shared/fsm.py`) | none: `vc.state` is passed in | `apply(state, event)` | the workflows' validate steps |
| Aggregator proxy client (`services/aggregator_proxy.py`) | none | reserve, provision, release, terminate, get and list reservations, uPAs | the aggregator, which POSTs results back |
| orchestrator-core (library) | processes, their steps and state, the lock of a subscription | start, lock, run a step, wait for a callback, time out, retry, abort, set in sync | runs every workflow |
| VLAN accounting and connection form (`shared/vlans.py`, `shared/forms.py`) | none: snapshots taken when a page of a form is evaluated | free VLANs, endpoint and SDP validation | list of reservations, STP and SDP subscriptions |
| ERO orientation (`shared/ero.py`) | none | which STP of each included SDP to name | connection form |
| DDS products (`workflows/topology`, `switchingservice`, `stp`, `sdp`) | one subscription per DDS object | create, modify, terminate, validate, reconcile (STP) | DDS proxy, one another's subscriptions |
| Subscription queries (`workflows/shared.py`) | the database | values and ids of non-terminated subscriptions | forms, tasks |
| Drift tasks (`workflows/tasks`, `schedules.py`) | none | aggregator against subscriptions; uPA VLANs against aggregator | aggregator proxy, database |
| Authorization (`auth.py`, `services/edge_auth.py`) | none | accept or refuse a request | wsgi |
| Assembly, migrations, translations, chart | configuration | | |

What is hard in it:

* **Form, then lock.** A workflow's start form reads the subscription when it is evaluated. The
  subscription is locked later, in a step of its own, and the form of retry talks to the DDS and the
  aggregator in between. Whatever the form saw may be stale by then.
* **Asynchronous operations.** Each request to the aggregator gets a callback URL; the answer may
  be lost, late or repeated, the wait may time out, and a retry sends the request again.
* **Partial failure.** The aggregator may accept a request whose response is lost, so that the step
  fails and nothing is stored.
* **Two sources of truth.** The aggregator owns the reservation, `vc.state` is a local view that
  reconcile overwrites without the state machine; a reservation may fail or end by itself.
* **User overrides.** A failed process may be aborted, and the subscription then set in sync.
* **Snapshots.** The connection form checks VLANs, and the drift tasks compare lists, against data
  read at different moments.

What makes each part correct:

* *MDP2P*: two workflows never interleave on a subscription; a reservation that is held is forgotten
  only by a retry whose form was out of date, after an override; the connection id is never dropped while
  its reservation is held; a circuit that has ended holds nothing under its id, and its connection state
  stays TERMINATED (the lifecycle status of its subscription does not: see below); after a completed
  workflow the two sides agree; no process waits for ever.
* *VLANs*: a form offers what is free; a circuit's VLANs stay in the STP's range, but for two races with
  its reconcile.
* *DDS products*: at most one subscription per DDS object, and links that lead to live subscriptions,
  but for races of forms that were open together.
* *ERO*: the chosen orientation gives a route that enters no network twice, and one is found if there is one.
* *Drift tasks*: what did not change during a run is reported exactly as it is; what is reported wrongly
  has changed meanwhile.

## Modules

| Module | Models |
|---|---|
| `ConnectionFsm` | the table of `ConnectionStateMachine` and `apply()` |
| `Aggregator` | the aggregator behind its proxy; not part of the repository, modelled from how the client and the workflows use it |
| `Mdp2pConnection` | the eight MDP2P workflows, the engine around them, and the properties |
| `ReservationLedger` | the abstract specification: what a circuit promises about its reservations |
| `SubscriptionLock` | the abstract specification of orchestrator-core's lock as the workflows keep it: who may write to a subscription, and when; implemented by `Mdp2pConnection`, `VlanSelection` and `DdsInventory` |
| `Mdp2pInductive` | the inductive invariants of the proofs: `IInv`, and `Agreement` on top of it |
| `Mdp2pConnection_proofs`, `Mdp2pAgreement_proofs` | the theorems and their proofs |
| `MCMdp2pConnection` | symmetry and the environment without overrides and lapses, for TLC |
| `ReservationDrift`, `MCReservationDrift` | the nightly comparison of reservations and subscriptions, next to `Mdp2pConnection` |
| `ReservationDrift_proofs` | its theorems and their proofs |
| `UpaDrift`, `MCUpaDrift` | the nightly comparison of the VLANs held by the uPAs with those held at the aggregator |
| `UpaDrift_proofs` | its theorems and their proofs |
| `DdsInventory`, `MCDdsInventory` | the workflows of the four DDS products and the DDS itself |
| `DdsInductive`, `DdsInventory_proofs` | its inductive invariant, theorems and proofs |
| `ExplicitRoute`, `MCExplicitRoute` | `ero_stps`: the search for a route and the choice of an orientation |
| `ExplicitRoute_proofs` | its theorems and their proofs: the search is right for every graph |
| `VlanSelection`, `MCVlanSelection` | the VLANs of several circuits: the connection form, create and retry, and the aggregator that gives a VLAN out once |
| `VlanInductive`, `VlanSelection_proofs` | its inductive invariant, theorems and proofs |
| `VlanReport`, `MCVlanReport` | from reservations to the free ranges of the form and the lines of the nightly report (`group_pairs`, `collapse_ranges`) |
| `VlanReport_proofs` | its inductive invariant, theorems and proofs |

`Mdp2pConnection` is composed of `ConnectionFsm` and `Aggregator`; `ReservationDrift` extends it by the task.
`VlanSelection` extends `ConnectionFsm`, with the engine of `Mdp2pConnection` and a subscription per circuit.
The three modules with processes instantiate `SubscriptionLock` as `Locking`: what holds a subscription is a process
past its lock (or, for a create, its construct step), and what is stored of it is all but its `insync` flag.
`UpaDrift`, `VlanReport`, `DdsInventory` and `ExplicitRoute` stand on their own: the first compares networks
in which anything may happen, the second shows what a listing says, a circuit is in the third a VLAN that is
stored on an STP, and the fourth is the function that the connection form calls.

The next two sections are about `Mdp2pConnection`.

### State

* `sub` is the subscription. `status`, `insync`, `state`, `conn` (`connection_id`), `gid`
  (`global_reservation_id`) and `lastError` (whether `last_error` is set, and whether it came with a
  callback or was copied by reconcile). `gid` is a counter: a
  fresh `uuid4` is one that was never used. The aggregator keeps one reservation per global
  reservation id, so `conn` is identified with the `gid` it was reserved under; `0` is "none".
* `proc` has a slot per process that may be unfinished at the same time: its workflow, the step it
  is at, whether it runs, awaits a callback or has failed, its callback route and the result that
  arrived. A finished process frees its slot.
* `agg` is the aggregator's reservation per id, with the callback it will report to; `posted` is
  the set of results it has POSTed. Nothing is ever removed from `posted`, so a result may be read
  late, or never, in any order, and, if a retried wait had the same route, twice.
* `forms` is the set of connection ids that retry forms have read. Nothing is removed from it, as an
  evaluation may be held up for as long as one likes, and there may be several.
* `callbacks` counts the callback routes handed out, and `drifted` remembers that something outside
  the workflows (a reservation that lapsed, a user's override) may have made the two sides differ.

### Actions

There is one action per step function, named after it (`ReserveConnection`,
`ProcessReservationResult`, `DropConnection` for `process_terminate_result` of
`retry_reservation.py`, ...), one per engine step (`Lock`, `SetStatus...`, `Resync`) and one per event
around a process (`SubmitProvision` and the other forms, `StartTask`, `Callback`, `Timeout`,
`StepFails`, `Retry`, `Abort`, `SetInSync`). `AfterLock` and `AfterProvisioning` are the step lists with their `conditional`s.
`AggregatorStep` and `AggregatorDrift` are the environment.

What is taken from orchestrator-core, a library:

* a form is evaluated from its start when it is submitted, and then the process is started; it needs an
  in-sync subscription that is not TERMINATED and, as every MDP2P form loads `MultiDomainPoint2Point`, one
  with a connection id;
* the lock step fails if the subscription is out of sync, and then, like every failed step, may be
  retried; a failed process keeps the lock; an aborted one leaves the subscription out of sync;
* a step reads the subscription from the database and commits when it ends; one that raises commits nothing;
* a callback step fires with a fresh route; only a process that is awaiting, and only on the route
  of its current wait, is resumed; the sweep fails a wait that took too long; retrying a callback
  step starts at its action again;
* a subscription is set in sync by hand only when no process on it is unfinished.

The forms of provision, release, modify and terminate ask nobody but the database, and are evaluated and
submitted in one action (`SubmitForm`). The form of retry reads the subscription (`retry_reservation.py:62`)
and then asks the dds-proxy and the aggregator (71-74), so that anything may happen before its process starts:
`OpenRetry` reads, and `SubmitRetry` starts a process on whatever is there by then. Of what was read only the
connection id counts afterwards, and only in the properties: the process itself looks at the subscription again.

`ReconcileConnectionState` reads the reservation and commits in one action, although an answer of the
aggregator lies between: only `vc.state` and `vc.last_error` are written, which nobody but the holder of the
lock writes and the aggregator does not read, so a lapse between the two is the same as a lapse after both. It
copies the aggregator's `lastError` in every stable status, and that may be set or not in each of them, as
`reconcile_mdp2p.py:63` and the test at `tests/test_mdp2p_steps.py:124` have it.

That a task workflow, validate included, takes the lock and finds the subscription in sync is not in the code of
this repository: `validate_workflow` and `reconcile_workflow` are decorators of the library, and the model takes
from their use (`validate_mdp2p.py:74`, `reconcile_mdp2p.py:69`) that they lock like the others. What is proved
of the lock rests on this. `StepFails` covers every exception (a proxy that cannot be reached, an
operation refused, `TransitionNotAllowed`, `InconsistentDataError`, a class that does not load, a
worker that dies); it changes nothing in the database. That the request reached the aggregator
although the step failed is the second disjunct of `ReserveConnection` and of `FireOnConnection`.

### The other modules

* `ReservationDrift`: `task` is where the run is and the live ids it has listed. `ListReservations` and
  `Compare` are two actions of what the code does in one step, because the workflows go on between the answer
  of the aggregator and the query. `quiet` is a history variable: since the listing, the subscription was in
  sync and no lapse or override was left unreconciled. `known` is history as well: the connection id that was
  stored when the reservations were listed.
* `UpaDrift`: `agg`, `peers`, `upa` and `stps` are the world, of which any record may change at any moment; the
  aggregator and each uPA have any number of reservations, in any of the states of NSI that `UpaStates` names;
  `task` and `read` are what the run has read so far, one list after the other as `_fetch` and `_scope` do,
  and `report` is the four sections. `steady` is history: the pairs of an STP and a VLAN for which nothing
  has changed since the run started. Who holds a pair, which a finding names, is in
  `VlanReport`.
* `DdsInventory`: `dds` is what the proxy lists, `subs` the subscriptions in the order in which they were
  made, each with the object it is for, the subscriptions it links to and, for an STP, its range. `proc` and
  the engine's actions are those of `Mdp2pConnection`; a create process carries what its form saw (`object`,
  `advert`). The four products have the same modify and terminate workflow, so these are one action each;
  forms, construct steps and validate steps are one per product. `made`, `closing` and `reopened` are
  history: how many subscriptions there were when the create form was submitted, and when the form of the last
  terminate was, and whether a modify reopened a terminated one. A
  circuit stores a VLAN on an STP in two steps, form and construct, like everything else. The one step of
  reconcile is two actions: `ReconcileStp` fetches and checks (`reconcile_stp.py:37-39`), `StoreRange` is the commit
  when the step ends, and circuits go on in between; a step that is repeated fetches and checks again
  (`Restarted`). Fetch and check are one action, as circuits do not look at the DDS. `raced` is history: the open
  forms whose offer a reconcile has overtaken, and the circuits whose VLAN was stored from such a form or while a
  reconcile of the STP was between check and commit.
* `ExplicitRoute`: `request` holds the arguments. The actions are the early returns, the start of
  `_route_length` for the next orientation, a turn of its loop (`Expand`, `Found`, `NoRoute`), and the choice of
  the shortest. The orientations are tried in the order of `product` (`Following`). A set is put in the queue in any order, as the iteration order of a Python set is arbitrary.
* `VlanSelection`: `sub` has a subscription per circuit, with the ends and constraints it stores (`request`).
  `proc` has the processes and the forms that are open. A form is evaluated from its start with every page, so
  only the evaluation of the last page counts: it reads the subscription (`OpenRetryForm`), then the
  reservations (`ListReservations`, which fills `in_use`), then checks the input (`SubmitForm`). `raced` is
  history: the pairs that a reservation got since the listing and before the reserve was sent. A process whose
  step failed is taken as running, since what it may do next is the same. `released` is the connection that the
  retry's form read, and stays with the process. In `agg` a reservation has the two
  ends and the pins that were asked for, and the segments that it holds. The aggregator gives a pair out once, a
  path whole; a reservation that fails keeps what it got of a path. Lifecycle status, provisioning, reconcile and
  reservations that end by themselves are in `Mdp2pConnection`, changes of an STP's range in `DdsInventory`.
* `VlanReport`: `call` is the function that groups pairs, `rest` what it has not taken yet, `grouped` its dict.
  `Take` takes any of the least pairs, as the sort leaves open the order of pairs with equal keys and the pairs
  come from sets; a key that is met again after another one replaces its first run. Ids and STPs are naturals, because their order decides
  the sort. `IdsAssumption` says that the
  aggregator and the uPAs do not make up the same connection id: the sort key of a finding does not have
  the side.

## Model checking

| Run | Bounds | Shows |
|---|---|---|
| `MCMdp2pConnection.cfg` | 2 processes, 3 reservation ids, 3 requests, any number of retry forms | the safety properties below, the inductive invariants, both refinements |
| `Mdp2pLiveness.cfg` | 2 processes, 2 ids, 2 requests | `ProcessSettles` |
| `RetryTearsDown.cfg` | 2 processes, 3 ids, 5 requests, no override, no lapse | violated: a finding |
| `RetryAvailable.cfg` | 1 process, 2 ids, 3 requests | violated: a finding |
| `ReservationDrift.cfg` | 1 process after another, from a create that ended FAILED, 3 ids (one of them may be ignored), 3 more requests | `VerdictIsRight`, `FalseReportsAreOfChanges` |
| `TerminatedTogether.cfg` | 1 process, 2 ids, 3 requests | violated: a finding |
| `UpaDrift.cfg` | any state of 2 uPAs, one of them a peer, of 2 subscribed STPs with a VLAN each, of 2 reservations over both at the aggregator and of 2 at each uPA; 1 change | `SteadyPairsAreReported` |
| `Inventory.cfg` | from nothing, from a subscribed service, or from two subscribed STPs whose SDP is listed; 1 topology, 1 service, 2 STPs, 1 SDP, 2 ranges, 1 circuit; 2 processes, 6 subscriptions, 3 starts, 2 changes of an object of the level in the DDS | `DuplicatesOnlyFromRaces`, `LinksLostOnlyInRaces`, `StrandedOnlyInRaces`, `KeepsTheLock`, the inductive invariant |
| `LinkResolves.cfg` | from a subscribed service; 1 STP, 2 processes, 3 starts, 2 changes | violated: a finding |
| `ExplicitRoute.cfg` | every graph on 4 networks, up to 3 included SDPs, at most 2 allowed | the five properties of the route |
| `VlanSelection.cfg` | 2 circuits, 2 processes, 3 reservation ids, 3 start forms evaluated; 4 STPs, 1 SDP; 8 inputs, 3 of them acceptable | `FreeWhenListed`, `ConnectionIsForStored`, `OwnVlansAreOffered`, `LeftBehindOnlyByStaleForms`, `KeepsTheLock`, the inductive invariant |
| `VlanReport.cfg` | 2 STPs, 4 VLANs; every listing of up to 2 reservations at the aggregator and 3 at the uPAs | `OffersExactlyTheFree`, `ReportNamesEveryHolder` |

Two processes are what the lock is about: a third one waiting behaves like the second. Three ids let a retry
follow a retry; three requests let a reserve be lost, repeated and torn down, or a terminate of one retry be
followed by the reserve of another that loses its answer, which is what a stale form needs to leave that
reservation behind. That the third id is then reserved as well takes a fourth request: the run of the drift task
has it, and starts after the first one, from a create that the aggregator answered with FAILED; there one slot is
enough, as a form is kept without a process. TLC explores about a million states in two minutes. Deadlock is not
checked: a closed subscription with nothing running has nothing left to do, and the bounds stop the others.

* `LockExclusive`: at most one unfinished process is past its lock step, none while in sync.
* `LeftBehindOnlyByStaleForms` (action): the id of a reservation that is held is given up only after a user
  overrode the lock, by a subscription that has no connection id, when every connection that a retry form has
  read is TERMINATED: the form is out of date. See "What stale retry forms do" below.
* `HandleKept` (action): the connection id goes only after its reservation is TERMINATED there.
* `ClosedHoldsNothing`, `TerminatedForGood` (action): a circuit that has ended, or whose subscription is closed,
  holds nothing under its id, and `vc.state` stays TERMINATED. They say nothing of the lifecycle status: a modify,
  provision, release or retry that was submitted before the circuit was closed runs after it and sets the
  subscription PROVISIONING and, for a modify, ACTIVE again (`modify_mdp2p.py:58`). The code does that and no text
  of the repository excludes it, so no property forbids it; what is checked is that nothing but the status comes back.
* `InSyncAgrees`: unless something outside the workflows intervened, an in-sync subscription
  stores the aggregator's state, whatever was lost, late, repeated or retried.
* `NoErrorWhileUp`: a circuit that is up shows no error of an earlier attempt. It may show one that reconcile has
  copied from the aggregator, in whatever stable status.
* `ConnectionAtHand`: a step that needs the connection id has it, although only the form looked.
* `ImplementsLedger`: the refinement of `ReservationLedger`, where the owner is `gid`, the live
  reservations are those the aggregator holds, and the circuit has ended in state TERMINATED. The ledger is told
  (`lost`) when the subscription is without a connection id and the lock was overridden; only then may the id be
  renewed while something is held.
* `KeepsTheLock`: the refinement of `SubscriptionLock`, in the three modules with processes. A subscription is
  taken by one process, in sync; it is written to only while it is taken, or made; and it comes back in sync when
  that process completes, or by hand when that process was aborted and nobody is at work on it. Failures,
  timeouts and retries are no steps of the lock: a failed process keeps what it has taken. No step touches two
  subscriptions.
* `ProcessSettles`: a running or awaiting process ends or fails.
* `VerdictIsRight` (action): in a quiet run, the nightly comparison reports a difference exactly if there is one: a
  live reservation that no subscription knows and that is not ignored, which a stale retry may have left behind,
  or a circuit whose reservation has ended while its subscription has not. "Quiet" leaves out the interleaving at
  `validate_aggregator_against_subscriptions.py:41`, of which the next property speaks.
* `FalseReportsAreOfChanges` (action): whatever the workflows do between the listing and the comparison, a live
  reservation that is reported as unknown is not the circuit's and not ignored, and a connection that is reported
  as gone but is there was stored after the listing. A retry in between does make a run report its connection.
* `SteadyPairsAreReported` (action): of a VLAN that nothing changed about while the task was reading, the four
  sections say exactly what is so, whatever happened to the others. Of a VLAN that did change, anything may be
  reported: the snapshot that never existed (`validate_upas_against_vlans.py:59`) is in the model and not excluded.
* `DuplicatesOnlyFromRaces`: a DDS object has two subscriptions only if the forms of both were submitted
  before the first was stored, or a modify reopened one that was terminated. That this does happen is the
  hazard at `create_stp.py:39`; that nothing else makes it happen is what is checked.
* `LinksLostOnlyInRaces`: a subscription that is not terminated uses a terminated one only if the form that
  terminated the latter was submitted before the former was made, or a modify reopened the former. The in-use
  guard of orchestrator-core is assumed, which looks when a form is submitted.
* `StrandedOnlyInRaces`: the VLAN of a circuit, half made ones included, is outside the range of its STP only if it
  was stored between the check and the commit of a reconcile (`reconcile_stp.py:39`, 48), or chosen from a form
  before the commit and stored after. Both happen, as nothing looks at the range again when a circuit is stored;
  that nothing else strands a VLAN, however often steps fail and are repeated and whatever the DDS advertises, is
  what is checked. It speaks of STPs that have had one subscription, since a second one has a range of its own.
* `NamesShortestRoute`, `RefusesOnlyUnroutable`: the answer of `ero_stps` agrees with an exhaustive search over
  all routes without repetition; `ShortestFirst` and `ReachedByRoute` are the two invariants of the search
  that make it so.
* `FreeWhenListed`: what a form accepted was free when it listed the reservations, FAILED ones included: until
  the reserve is sent, any of its VLANs that another circuit holds was taken after the listing. That this can
  happen, to two forms that pass with the same VLAN, is the hazard at `forms.py:361`; the aggregator then
  refuses one of them.
* `ConnectionIsForStored`: a stored connection id is of a reservation with the ends that the subscription
  stores, and holds the pinned VLANs, whatever failed or was retried or entered anew in between. A retry that
  kept its global reservation id would be answered with the old reservation.
* `OwnVlansAreOffered` (action): a retry is offered the VLANs that its circuit stores, unless another
  reservation holds them.
* `LeftBehindOnlyByStaleForms` (action): a circuit gives up the id of a reservation that holds VLANs only in a
  retry whose form read another connection, which another retry has terminated since. That this can happen is the
  hazard at `retry_reservation.py:148`; that nothing else makes it happen is what is checked.
* `OffersExactlyTheFree`, `ReportNamesEveryHolder`: the ranges that are shown are those of exactly the pairs
  that are free, or held by the reservation that the line names, over sorting, grouping and collapsing.

`UpaDrift.cfg` starts from every state of the world in which the STPs are subscribed and the aggregator peers with
one of the two uPAs at least, so that one change is enough for each pair to change, or not, at each point of a
run. Two reservations, at the aggregator and at each uPA, let one have failed or been released for what the other
one holds, or both hold it; of the states of a uPA's reservation the run has one that holds, one that has passed
its end and one that never got past reserving, and the theorem has all.
A level of the inventory only asks whether its parents are subscribed, so `Inventory.cfg` has an initial state
per level, which the one before can reach, and leaves the changes of the DDS to the level at hand; at the top
level, of SDPs and circuits, nothing changes in the DDS, as nothing is built on what it lists there. One service
and one topology are enough for the link to be gone, taken or found again; a second object of a level would only
be offered next to the first. `InUseGuard` says that orchestrator-core refuses to terminate a subscription in
use; the runs assume it, and without it the links have no protection at all. In `ExplicitRoute.cfg` four networks
hold a ring, a branch and a detour, and two SDPs are the fewest whose order matters; `MAX_INCLUDED_SDPS` is 2
instead of 4, which only bounds the number of orientations, and a third included SDP reaches the refusal.
In `VlanSelection.cfg` the three acceptable inputs compete for VLANs in each way there is: an end against the
SDP's VLAN, pinned or chosen by the aggregator. Three start forms are two creates and a retry or a terminate,
or a create with two more of one circuit, which may be open at once; each is an id of a reservation at most. A
fourth form multiplies the states by ten and takes the run over four minutes; it was checked once and showed
nothing else, and the theorems hold for every number.

Fairness (`FairSpec`): the worker runs the processes it has (`WF(Work(p))`) and the sweep fails
overdue waits (`WF(Timeout(p))`). Nothing is assumed of users, the aggregator, or callbacks. Each
process's work is finite between two acts of a user, so no fairness among steps is needed.

Each property is paired in `PROJECT.json` with a fault (an operator next to the one it replaces,
commented as such) that breaks it.

### Findings

1. **A submitted retry tears down a reserved connection.** Two retries of a FAILED connection are
   submitted; the first reserves successfully; the second gets the lock and terminates that
   RESERVED connection, since only the form looked at the state (`retry_reservation.py:64`). The test
   at `tests/workflows/test_mdp2p_workflows.py:229` says it "must be unreachable while one is
   actually held". No reservation is left behind by this: `LeftBehindOnlyByStaleForms` and `HandleKept` hold.
2. **Retry is not available without a connection id.** The form loads a class whose
   `connection_id` is required (`vc.py:71`), so the case of `retry_reservation.py:147`, "A create
   that never got as far as a reserve", cannot be retried from the form; such a subscription is
   also refused by terminate, modify and reconcile.

3. **A reservation that ended leaves its subscription behind.** When a reservation ends by itself, reconcile
   stores TERMINATED in `vc.state` (`reconcile_mdp2p.py:60`) and the subscription stays ACTIVE until somebody
   terminates it. Until then the nightly comparison reports it, although
   `validate_aggregator_against_subscriptions.py:39` and `tests/workflows/test_tasks.py:115` say that the
   subscription of a terminated reservation is terminated too.
4. **The link in the construct step does not always resolve.** `create_stp.py:37` and the "never None" comments
   in `stp/shared/forms.py:47` and `sdp/shared/forms.py:70` rest on what the form saw; the parent may be
   terminated by a process that was submitted before the child existed. The step then fails on its assertion.

By the same race, one step later, an SDP may come to hold an STP that is not subscribed: `LinksLostOnlyInRaces`
says that it takes a race. The form also accepts, as an end, the VLAN that is pinned on an SDP of which the
end is an STP; such a reserve can only fail at the aggregator.

### What stale retry forms do

A retry form that read the connection id is still being evaluated while another retry drops that id, loses the
answer to its reserve, is aborted, and the subscription is set in sync by hand. The first retry then finds no
connection id after the lock (`retry_reservation.py:148`), terminates nothing and draws a new id; the reservation
that was made under the old one stays. "Terminating first [...] is what keeps the aggregator from holding an
orphaned reservation" (`retry_reservation.py:21`) has this exception. `Mdp2pConnection` and `VlanSelection` both
have it, the former with everything that else can happen to one circuit, the latter with several circuits and with
what each form read, and in both `LeftBehindOnlyByStaleForms` says that it is the only one. The nightly comparison
reports the reservation (`VerdictIsRight`). It takes an abort and an override by hand, so it is listed as a hazard
and not as a finding.

## Proofs

`Mdp2pConnection_proofs` proves, for every set of slots and all bounds, from the assumptions that
`MaxReservations` and `MaxCallbacks` are naturals:

* `Invariance`: `Spec => []IInv`, and from it `TypeCorrect`, `LockIsExclusive`, `NothingHeldWhenClosed`,
  `ConnectionStaysAtHand`;
* `OnlyStaleFormsLeaveBehind`, `HandleIsKept` and `EndedForGood`, action properties;
* `LedgerImplemented` and `WorkflowsKeepLock`: the refinements of `ReservationLedger` and of `SubscriptionLock`.

The properties are not inductive. That a retry which finds a connection id leaves nothing behind rests on the
connection having been TERMINATED when the result of the terminate step arrived. This rests on the
result being the one of the current wait, hence on routes being used once (`RoutesHandedOut`), and on
every route of a terminate step belonging to the stored connection alone (`TerminateResult`). The stored
connection must be the current one (`ConnKnown`), and nobody else may move it (`LockExclusive`). `StepKnows`
carries these facts from one step to the next. A retry that finds no id came with a form that read one, and what
a form read is the stored connection or has been terminated (`FormsKnown`); without an override such a retry never
gets the lock, because whoever drops the id keeps the subscription out of sync (`LostByOverride`). The other
workflows need an id and have one (`HolderHasConnection`, which must also speak of a process that still waits for
the lock and remembers nothing but its form); of retry it says nothing. The conjunction `IInv` is checked by TLC
as well.

The proof has a lemma per helper (what `Advance`, `Await`, `Request`, ... do to one slot or one
reservation), a lemma per action that it preserves `IInv`, with a step per conjunct, and for the
action properties and the refinement a case distinction of all steps by what they do to the ids, the
state and what is held (`StepCases`). For the lock, `LockExclusive` and `Unborn` make whoever is past the lock its
only holder (`HeldByOne`), so that a step of that process changes the subscription, gives it back or gives it up
(`WrittenByHolder`), and the lock and create steps find no holder (`HeldByNone`).

`VlanSelection_proofs` proves, for all circuits, processes, STPs, SDPs, requests and bounds, from the named
assumptions of the module (an SDP has two STPs, "none" is no circuit, requests are requests, the bounds are
naturals):

* `VlanInvariance`: `Spec => []IInv`, and from it `VlansTyped`, `AcceptedWasFree` and `ConnectionMatches`;
* `OwnVlansOffered` and `OnlyStaleFormsLeaveBehind`, action properties;
* `LockIsKept`: the refinement of `SubscriptionLock`, one lock per circuit.

That a stored connection is for what is stored needs that the reservation of a circuit's id was made from what
the circuit stores, sent or not (`ReservedAsStored`), which rests on ids being those of one circuit
(`GidsDiffer`), on the form's and the subscription's request being the same at the reserve step (`StepKnows`),
and on nobody else working on the circuit (`OneAtWork`). `FreeWhenListed` must be strengthened twice: while the
form is open, the listing and what was taken since have all that is held (`ListingComplete`, with
`ReleasedIsOwn` for the connection that is left out); from then on only the stored connection may be the
process's own (`FreeButConnection`), because the id is replaced before the reserve. There is a lemma for a step
of a slot (`ProcessStep`), one for a slot and the subscription of its circuit (`WorkStep`), one for a reservation
(`ReservationStep`), and a lemma per action that it is such a step. That only stale forms leave a reservation
behind rests on what a retry knows when it has come to the update without a stored connection: the connection
its form read is the circuit's own and TERMINATED (`ReleasedIsOwn`), so if the current id is held it is another
one's. For the lock, a step touches one circuit (`Untouched`, `OneTouched`), whose holder is the only one by
`OneAtWork`.

`Mdp2pAgreement_proofs` proves, from the same assumptions as `Mdp2pConnection_proofs`:

* `AgreementInvariance`: `Spec => []Agreement`, and from it `InSyncMeansAgreement` and `UpMeansNoError`.

An in-sync subscription agrees with the aggregator because the workflow that had the lock ended at a step at
which nothing is under way, so the agreement must hold there too (`AgreesAtRest`). It gets there by recording a
result, which must therefore be the state that the connection is still in (`AnswerIsState`): the route of the
wait belongs to the stored connection alone (`WaitIsForConnection`), a completed operation answers on the
newest route, and a repeated request is answered with the state it finds. A repeated reserve would find any
state; it finds one that a reserve leaves behind, since nobody else worked on the circuit (`ReserveKnows`, which
needs `IInv`). Most actions fall under two lemmas: steps that leave ids, state and aggregator alone
(`KeepingStep`), and steps of the holder of the lock that leave the aggregator alone (`HoldingStep`).

`ReservationDrift_proofs` proves, for every set of ignored ids, `DriftTyped`, `VerdictsAreRight` and
`FalseReportsTrailChanges`, of the task next to the workflows. The task changes nothing of theirs, so `IInv` and
`Agreement` hold next to it. A step that leaves an in-sync subscription in sync, with nothing left to reconcile,
changes neither the subscription nor what is live (`QuietStep`): nobody is past the lock, and by the agreement
nothing is under way at the aggregator for the circuit. The reserve of a reservation that was left behind may
still be under way, and ends in a status that is live as well; only the stored connection is ever being terminated
(`TerminatingIsOurs`). What a quiet run has listed is therefore still so when it is compared. For any other run,
the id that was stored at the listing is on the list or has ended (`KnownWasListed`), and what has ended stays
ended (`EndedStays`).

`DdsInventory_proofs` proves, for all objects, processes, circuits and bounds, from the named assumptions of the
module (an object belongs to one product, ranges are not empty, an SDP has two STPs, the bounds are naturals):

* `InventoryInvariance`: `Spec => []IInv`, and from it `InventoryTyped`, `BookkeepingIsKept`, `DuplicatesAreRaces`
  and, assuming `InUseGuard`, `LinksLostAreRaces`;
* `StrandedOnlyByRaces`, from a second invariant (`RangesInv`) on top of `IInv`;
* `InventoryKeepsLock`: the refinement of `SubscriptionLock`, in which the subscriptions that do not exist yet are
  there, not in sync, held by nobody and with nothing stored.

What a form saw is a statement about the subscriptions that there were: those for the object of a create, and
those built on what a terminate is for, were terminated, or reopened since (`Gone`). `Gone` is never undone by
a workflow but modify, which marks what it reopens, so it stays true of the process (`FormSawNone`,
`FormSawUnused`) and of what it made or closed (`SecondIsRaced`, `UnusedWhenClosed`). That no other step revives a
terminated subscription rests on the lock: what is being activated is live (`ActivatesLive`), because nobody
else can have closed it (`OneAtWork`). That every link leads to a subscription of the right product, which the
validate steps use without a check, is part of `TypeOK` (`WellFormed`). That a VLAN is stranded only in a race
follows a range from the check to the commit: what was fetched has every VLAN that was stored when it was checked
and those stored since are noted (`CheckedInRange`), and what an open form chose is in the stored range unless a
commit overtook it (`OpenInRange`); a circuit only chooses on STPs that have a subscription (`ChosenOfKnown`),
so that a new one finds nothing to strand.

`UpaDrift_proofs` proves, for all uPAs, STPs, VLANs, reservations and changes, from the assumptions that an
STP has a uPA, paths are sets of pairs, the states of a uPA's reservations are those of NSI and the bound is a
natural, `UpaDriftTyped` and `ReportsAreRight`. The
invariant behind them (`ReadIsSo`) says, of a pair nothing has changed for since the run started, that what was
read so far is what is so: a change to any of the facts ends the steadiness of the pair (`SteadyMeansSame`), and
reading a uPA decides its own pairs and no others, whichever of its reservations hold them (`UpaReadIsSo`). That
the two negative and positive lists of `_upa_holds_vlans` leave the states in `HoldingStates` is
`UpaServesItsOwn`.

`ExplicitRoute_proofs` proves, for every finite graph and every request, from the assumptions that an SDP has
two STPs and an STP a network:

* `RouteInvariance`: `Spec => []RouteInv`, and from it `RouteTyped`, `SearchesInOrder`, `SearchesByRoute`,
  `RefusalsAreRight` and `ShortestIsNamed`.

So the search is right, not only on four networks. It finds nothing but routes, since what was seen was
reached by one (`EnteringExtends`: a step of the search is a step of the route). It finds a shortest one, since
what was seen is queued or has its successors seen (`Closed`): along a route over the SDPs, the first prefix that
was not expanded is queued (`RouteIsQueued`), and the head of the queue is not longer. All orientations are
searched, as the one that follows is the next of their order (`FollowingIsNext`). Each of these arguments takes
a least element of a set of naturals (`LeastOf`), which follows from the theorems of `WellFoundedInduction`.

`VlanReport_proofs` proves, for all labels, STPs and reservations, from the assumptions that there are finitely
many VLANs, that labels and reservations are about these VLANs, that ids and STPs are naturals, and that
connection ids are not shared between aggregator and uPAs:

* `ReportIsInductive`: `Spec => []ReportInv`, and from it `FormOffersExactlyTheFree` and `ReportNamesAllHolders`;
* `RangesAreExact`: for every finite set of naturals, the ranges that its sorted list collapses to expand to it.

The dict of `group_pairs` loses nothing because a run is whole: all pairs with a key are taken one after the
other (`RunsAreWhole`), since the order that is sorted by is total and tells keys apart (`PrecedesOrdersKeys`);
this is where `IdsAssumption` is needed. The invariant (`GroupingOK`) says that nothing left precedes what was
taken, that the current key is the last of what was taken, and that what is grouped is what was taken. The ranges are exact because value minus index never falls along a sorted
list (`OffsetNeverFalls`), so that equal ones bound a run without gaps. That a finite set has a sorted list at
all (`SortedExists`) takes the least set that has none.

Model-checked only: `ProcessSettles`, as liveness under fairness is out of the prover's reach.

## Not modelled, and the plan

Every invariant, action property and refinement that a passing run checks is proved, and every component with
state of its own is modelled, so the plan has nothing left but what changes of the code will bring.

Left out: authorization (stateless checks of a request's headers), descriptions and translations
(text), assembly, migrations and deployment. The fields of the forms are abstracted to what decides a
branch; `validate_reservation` compares in `Mdp2pConnection` the state and the id, and its comparison of ends and pinned
VLANs is `ReservationMatches` in `VlanSelection`; that of the capacity may only fail the step, which `StepFails`
allows at any time. The parsing of a VLAN specification, the labels and the summary page are text.
