---------------------------- MODULE VlanSelection -----------------------------
(***************************************************************************)
(* The VLANs of MDP2P circuits: the connection form, which offers and      *)
(* accepts VLANs against the reservations that the aggregator listed; the  *)
(* steps of create and retry that store and reserve what the form          *)
(* accepted; and the aggregator, at which a VLAN of an STP is held once.   *)
(*                                                                         *)
(* A form is evaluated from its start whenever a page is submitted, so the *)
(* evaluation that counts is that of the last page.  It reads the          *)
(* subscription, then the reservations, then checks the input; what it     *)
(* accepts is reserved later, after other circuits have come and gone.     *)
(*                                                                         *)
(* There are several circuits here and only the steps that VLANs depend    *)
(* on.  The lifecycle status, the provisioning of a reserved circuit, the  *)
(* callback routes and reservations that end by themselves are left to     *)
(* Mdp2pConnection, from which the engine is taken: RESERVED stands for    *)
(* ACTIVATED too, and a result is the state that the operation ended in.   *)
(***************************************************************************)
EXTENDS ConnectionFsm, Naturals, FiniteSets

CONSTANTS
  Circuits,        \* bound: circuits in a run
  Procs,           \* process slots
  Stps,
  label_group,     \* STP -> the set of its VLANs
  Sdps,
  stps_of,         \* SDP -> the set of its two STPs
  Routable,        \* the <<source, destination, included SDPs>> for which ero() does not raise
  Requests,        \* bound: what users enter in the form
  MaxReservations, \* bound: global reservation ids
  MaxStarts        \* bound: start forms evaluated in a run

Vlan == UNION {label_group[s] : s \in Stps}
Pairs == Stps \X Vlan

\* A service access point, and the INCLUDE constraints: the included SDPs with the
\* VLAN pinned on each, 0 for none.
Sap == Pairs
SdpConstraints == UNION {[included -> Vlan \cup {0}] : included \in SUBSET Sdps}

\* What a user enters.
Request ==
  [source : Sap, destination : Sap, allow_stps_in_sdp : BOOLEAN,
   pins : SdpConstraints, exclude_sdps : SUBSET Sdps]

\* What a subscription keeps of it: both saps and the constraints.
Stored(r) == [source |-> r.source, destination |-> r.destination, pins |-> r.pins]

ASSUME StpsAssumption ==
  /\ \A s \in Stps : label_group[s] \subseteq Nat \ {0}
  /\ stps_of \in [Sdps -> {ends \in SUBSET Stps : Cardinality(ends) = 2}]
ASSUME NamesAssumption == "none" \notin Circuits
ASSUME RequestsAssumption == Requests \subseteq Request
ASSUME ReservationsAssumption == MaxReservations \in Nat
ASSUME StartsAssumption == MaxStarts \in Nat

VARIABLES
  sub,     \* circuit -> its subscription
  proc,    \* process slot -> the process, or the form that is open
  agg,     \* global reservation id -> the reservation at the aggregator
  started  \* start forms evaluated so far

vars == <<sub, proc, agg, started>>

None == 0
Id == 1..MaxReservations

-----------------------------------------------------------------------------
(* VLANs *)

\* The VLANs both ends of an SDP advertise.
SdpVlans(d) == {v \in Vlan : \A s \in stps_of[d] : v \in label_group[s]}

\* Both STPs of an SDP, with the VLAN on it.
OnSdp(d, v) == stps_of[d] \X {v}

PinnedSdpVlans(pins) == UNION {OnSdp(d, pins[d]) : d \in {e \in DOMAIN pins : pins[e] # 0}}

\* All that a request asks for by name.
Asked(r) == {r.source, r.destination} \cup PinnedSdpVlans(r.pins)

\* Segments, where there are any, and the two ends.
ReservationHeldVlans(g) == agg[g].segments \cup agg[g].ends

\* Fault for the sensitivity check: a failed reservation is taken to hold nothing.
HeldReservationsUp == {g \in Id : agg[g].status \notin {"none", "FAILED", "TERMINATED"}}

\* Every listed reservation but the TERMINATED ones.
HeldReservations == {g \in Id : agg[g].status \notin {"none", "TERMINATED"}}

\* Fault for the sensitivity check: the connection that is retried counts as well.
VlansInUseAll(released) == UNION {ReservationHeldVlans(g) : g \in HeldReservations}

VlansInUse(released) == UNION {ReservationHeldVlans(g) : g \in HeldReservations \ {released}}

-----------------------------------------------------------------------------
(* Processes.  A process whose step failed is running: the user retries    *)
(* the step or aborts, and a failed step has changed nothing here.         *)

NoRequest == [source |-> <<>>, destination |-> <<>>, pins |-> <<>>]
Idle == [wf |-> "none", step |-> "none", run |-> "idle", circuit |-> "none",
         released |-> None, in_use |-> {}, request |-> NoRequest, raced |-> {}]

Unsubscribed == [state |-> "none", insync |-> FALSE, conn |-> None, gid |-> None, request |-> NoRequest]
Unreserved == [status |-> "none", ends |-> {}, pins |-> <<>>, segments |-> {}]

Init ==
  /\ sub = [c \in Circuits |-> Unsubscribed]
  /\ proc = [p \in Procs |-> Idle]
  /\ agg = [g \in Id |-> Unreserved]
  /\ started = 0

Unfinished(p) == proc[p].run # "idle"
At(p, s) == proc[p].run = "running" /\ proc[p].step = s
Mine(p) == sub[proc[p].circuit]
Goto(p, s) == proc' = [proc EXCEPT ![p].step = s, ![p].run = "running"]
Store(p, new) == sub' = [sub EXCEPT ![proc[p].circuit] = new]

\* The class that the retry form and terminate's form load requires a connection id.
Loads(c) == sub[c].insync /\ sub[c].conn # None

-----------------------------------------------------------------------------
(* The form.  Until it is accepted it is no process: nothing of it is retried. *)

Start == started < MaxStarts /\ started' = started + 1
FormAt(p, s) == proc[p].run = "form" /\ proc[p].step = s

\* create_mdp2p: fetch_vlans_in_use without a released connection
OpenCreateForm(p) ==
  /\ ~Unfinished(p) /\ Start /\ \E c \in Circuits : sub[c].state = "none"
  /\ proc' = [proc EXCEPT ![p] = [Idle EXCEPT !.wf = "create", !.step = "submit", !.run = "form",
                                              !.in_use = VlansInUse(None)]]
  /\ UNCHANGED <<sub, agg>>

\* retry_reservation: the subscription is read, its state is one of RETRYABLE_STATES
OpenRetryForm(p, c) ==
  /\ ~Unfinished(p) /\ Start
  /\ Loads(c) /\ sub[c].state \in {"CREATED", "FAILED"}
  /\ proc' = [proc EXCEPT ![p] = [Idle EXCEPT !.wf = "retry", !.step = "list", !.run = "form",
                                              !.circuit = c, !.released = sub[c].conn]]
  /\ UNCHANGED <<sub, agg>>

\* retry_reservation: fetch_vlans_in_use
ListReservations(p) ==
  /\ FormAt(p, "list")
  /\ proc' = [proc EXCEPT ![p] = [@ EXCEPT !.step = "submit", !.in_use = VlansInUse(proc[p].released)]]
  /\ UNCHANGED <<sub, agg, started>>

\* The input is refused, or the proxy cannot be reached.
FormRefused(p) ==
  /\ proc[p].run = "form"
  /\ proc' = [proc EXCEPT ![p] = Idle]
  /\ UNCHANGED <<sub, agg, started>>

VlanWithinStpRange(pair, in_use) == pair[2] \in label_group[pair[1]] /\ pair \notin in_use

CheckEndpoints(r) ==
  LET ends == {r.source[1], r.destination[1]} IN
    /\ r.source[1] # r.destination[1]
    /\ r.allow_stps_in_sdp \/ ends \cap UNION {stps_of[d] : d \in Sdps} = {}
    /\ r.exclude_sdps = {}
    /\ DOMAIN r.pins # {} => <<r.source[1], r.destination[1], DOMAIN r.pins>> \in Routable

WithinSdp(d, v, in_use) == v # 0 => v \in SdpVlans(d) /\ OnSdp(d, v) \cap in_use = {}

Accepts(r, in_use) ==
  /\ VlanWithinStpRange(r.source, in_use) /\ VlanWithinStpRange(r.destination, in_use)
  /\ CheckEndpoints(r)
  /\ \A d \in DOMAIN r.pins : WithinSdp(d, r.pins[d], in_use)

\* The input is accepted: the process starts, with it in its state, the connection
\* of the subscription that the form read included.
SubmitForm(p) ==
  /\ FormAt(p, "submit")
  /\ \E r \in Requests :
       /\ Accepts(r, proc[p].in_use)
       /\ proc' = [proc EXCEPT ![p] =
            [proc[p] EXCEPT !.step = IF proc[p].wf = "create" THEN "construct" ELSE "lock", !.run = "running",
                      !.in_use = {}, !.raced = @ \cap Asked(r), !.request = Stored(r)]]
  /\ UNCHANGED <<sub, agg, started>>

\* terminate_mdp2p, whose form looks at the state only; a circuit that is TERMINATED
\* and in sync is closed here, and takes no more forms.
SubmitTerminate(p, c) ==
  /\ ~Unfinished(p) /\ Start
  /\ Loads(c) /\ sub[c].state \in {"RESERVED", "FAILED"}
  /\ proc' = [proc EXCEPT ![p] = [Idle EXCEPT !.wf = "terminate", !.step = "lock",
                                              !.run = "running", !.circuit = c]]
  /\ UNCHANGED <<sub, agg>>

-----------------------------------------------------------------------------
(* The steps *)

\* uuid4: an id that nothing bears.
Fresh(g) == agg[g].status = "none" /\ \A c \in Circuits : sub[c].gid # g

\* Fault for the sensitivity check: an id next to the fresh one is stored.
ConstructNextId(p) ==
  /\ At(p, "construct")
  /\ \E c \in Circuits, g \in Id :
       /\ sub[c].state = "none" /\ Fresh(g) /\ \A h \in 1..(g - 1) : ~Fresh(h)
       /\ sub' = [sub EXCEPT ![c] = [@ EXCEPT !.state = "CREATED", !.gid = g + 1, !.request = proc[p].request]]
       /\ proc' = [proc EXCEPT ![p] = [@ EXCEPT !.step = "reserve", !.circuit = c]]
  /\ UNCHANGED <<agg, started>>

\* construct_mdp2p_model, with the step that stores the process
Construct(p) ==
  /\ At(p, "construct")
  /\ \E c \in Circuits, g \in Id :
       /\ sub[c].state = "none" /\ Fresh(g) /\ \A h \in 1..(g - 1) : ~Fresh(h)
       /\ sub' = [sub EXCEPT ![c] = [@ EXCEPT !.state = "CREATED", !.gid = g, !.request = proc[p].request]]
       /\ proc' = [proc EXCEPT ![p] = [@ EXCEPT !.step = "reserve", !.circuit = c]]
  /\ UNCHANGED <<agg, started>>

\* Fault for the sensitivity check: the lock is taken without looking.
LockUnchecked(p) ==
  /\ At(p, "lock")
  /\ Store(p, [Mine(p) EXCEPT !.insync = FALSE])
  /\ Goto(p, IF proc[p].wf = "retry" /\ Mine(p).conn = None THEN "update" ELSE "terminate")
  /\ UNCHANGED <<agg, started>>

\* Fault for the sensitivity check: a failed connection is not torn down.
LockKeepsFailed(p) ==
  /\ At(p, "lock") /\ Mine(p).insync
  /\ Store(p, [Mine(p) EXCEPT !.insync = FALSE])
  /\ Goto(p, IF proc[p].wf = "retry" /\ (Mine(p).conn = None \/ Mine(p).state = "FAILED") THEN "update"
             ELSE IF proc[p].wf = "terminate" /\ Mine(p).state = "TERMINATED" THEN "resync"
             ELSE "terminate")
  /\ UNCHANGED <<agg, started>>

\* A retry without a connection has nothing to tear down.
Lock(p) ==
  /\ At(p, "lock") /\ Mine(p).insync
  /\ Store(p, [Mine(p) EXCEPT !.insync = FALSE])
  /\ Goto(p, IF proc[p].wf = "retry" /\ Mine(p).conn = None THEN "update"
             ELSE IF proc[p].wf = "terminate" /\ Mine(p).state = "TERMINATED" THEN "resync"
             ELSE "terminate")
  /\ UNCHANGED <<agg, started>>

Await(p) == proc' = [proc EXCEPT ![p].run = "awaiting"]

\* The response may be lost after the aggregator took the request; the step then
\* fails, and commits nothing.
TerminateConnection(p) ==
  /\ At(p, "terminate") /\ Mine(p).conn # None
  /\ LET g == Mine(p).conn IN
       \/ /\ agg[g].status \in {"RESERVED", "FAILED"}
          /\ agg' = [agg EXCEPT ![g].status = "TERMINATING"]
       \/ /\ agg[g].status \in {"TERMINATING", "TERMINATED"}
          /\ UNCHANGED agg
  /\ Await(p) \/ UNCHANGED proc
  /\ UNCHANGED <<sub, started>>

Result(p, s, status) == proc[p].run = "awaiting" /\ proc[p].step = s /\ agg[Mine(p).conn].status = status

\* terminate_mdp2p
ProcessTerminateResult(p) ==
  /\ proc[p].wf = "terminate" /\ Result(p, "terminate", "TERMINATED")
  /\ Allowed(Mine(p).state, "terminate")
  /\ Store(p, [Mine(p) EXCEPT !.state = Apply(@, "terminate")])
  /\ Goto(p, "resync")
  /\ UNCHANGED <<agg, started>>

\* retry_reservation
DropConnection(p) ==
  /\ proc[p].wf = "retry" /\ Result(p, "terminate", "TERMINATED")
  /\ Store(p, [Mine(p) EXCEPT !.conn = None])
  /\ Goto(p, "update")
  /\ UNCHANGED <<agg, started>>

\* Fault for the sensitivity check: the global reservation id is kept.
UpdateSubscriptionSameId(p) ==
  /\ At(p, "update") /\ Allowed(Mine(p).state, "retry")
  /\ Store(p, [Mine(p) EXCEPT !.state = Apply(@, "retry"), !.request = proc[p].request])
  /\ Goto(p, "reserve")
  /\ UNCHANGED <<agg, started>>

UpdateSubscription(p) ==
  /\ At(p, "update") /\ Allowed(Mine(p).state, "retry")
  /\ \E g \in Id :
       /\ Fresh(g) /\ \A h \in 1..(g - 1) : ~Fresh(h)
       /\ Store(p, [Mine(p) EXCEPT !.state = Apply(@, "retry"), !.gid = g, !.request = proc[p].request])
  /\ Goto(p, "reserve")
  /\ UNCHANGED <<agg, started>>

\* The aggregator has the request: nothing of the form counts any more.
Sent(p) ==
  \/ proc[p].step = "resync"
  \/ proc[p].step = "reserve" /\ agg[Mine(p).gid].status # "none"

\* The ends are those of the subscription, the VLANs of the ERO those of the form.
\* The aggregator hands back what it has for a global reservation id it knows.
ReserveConnection(p) ==
  /\ At(p, "reserve")
  /\ LET g == Mine(p).gid  r == Mine(p).request IN
       /\ agg' = IF agg[g].status # "none" THEN agg
                 ELSE [agg EXCEPT ![g] = [status |-> "RESERVING", ends |-> {r.source, r.destination},
                                          pins |-> proc[p].request.pins, segments |-> {}]]
       /\ \/ /\ proc' = [proc EXCEPT ![p] = [@ EXCEPT !.run = "awaiting", !.raced = {}]]
             /\ Store(p, [Mine(p) EXCEPT !.conn = g])
          \/ /\ proc' = [proc EXCEPT ![p].raced = {}]
             /\ UNCHANGED sub
  /\ UNCHANGED started

ProcessReservationResult(p) ==
  /\ \/ /\ Result(p, "reserve", "RESERVED") /\ Allowed(Mine(p).state, "reserve_confirmed")
        /\ Store(p, [Mine(p) EXCEPT !.state = Apply(@, "reserve_confirmed")])
     \/ /\ \E s \in {"FAILED", "TERMINATED"} : Result(p, "reserve", s)
        /\ Allowed(Mine(p).state, "reserve_failed")
        /\ Store(p, [Mine(p) EXCEPT !.state = Apply(@, "reserve_failed")])
  /\ Goto(p, "resync")
  /\ UNCHANGED <<agg, started>>

Resync(p) ==
  /\ At(p, "resync")
  /\ Store(p, [Mine(p) EXCEPT !.insync = TRUE])
  /\ proc' = [proc EXCEPT ![p] = Idle]
  /\ UNCHANGED <<agg, started>>

-----------------------------------------------------------------------------
(* The engine *)

\* A wait times out and the user retries the callback step from its start.
Timeout(p) ==
  /\ proc[p].run = "awaiting"
  /\ Goto(p, proc[p].step)
  /\ UNCHANGED <<sub, agg, started>>

\* Any step may raise, and the user may abort the process then.
Abort(p) ==
  /\ proc[p].run = "running"
  /\ proc' = [proc EXCEPT ![p] = Idle]
  /\ UNCHANGED <<sub, agg, started>>

SetInSync(c) ==
  /\ sub[c].state # "none" /\ ~sub[c].insync
  /\ \A p \in Procs : proc[p].circuit = c => proc[p].run \notin {"running", "awaiting"}
  /\ sub' = [sub EXCEPT ![c].insync = TRUE]
  /\ UNCHANGED <<proc, agg, started>>

-----------------------------------------------------------------------------
(* The aggregator *)

HeldByOthers(g) == UNION {agg[h].segments : h \in Id \ {g}}

\* The pairs along one path over the included SDPs and possibly others, with a
\* common VLAN on every SDP: the pinned one where there is one.
Paths(g) ==
  LET included == DOMAIN agg[g].pins IN
    {agg[g].ends \cup UNION {OnSdp(d, chosen[d]) : d \in DOMAIN chosen} :
       chosen \in {f \in UNION {[via -> Vlan] : via \in {w \in SUBSET Sdps : included \subseteq w}} :
                     /\ \A d \in DOMAIN f : f[d] \in SdpVlans(d) /\ OnSdp(d, f[d]) \cap agg[g].ends = {}
                     /\ \A d \in included : agg[g].pins[d] \in {0, f[d]}}}

\* g comes to hold the pairs: whoever listed the reservations before did not see them.
Hold(g, status, pairs) ==
  /\ agg' = [agg EXCEPT ![g].status = status, ![g].segments = pairs]
  /\ proc' = [p \in Procs |->
       IF FormAt(p, "submit") THEN [proc[p] EXCEPT !.raced = @ \cup pairs]
       ELSE IF Sent(p) THEN proc[p]
       ELSE [proc[p] EXCEPT !.raced = @ \cup (pairs \cap Asked(proc[p].request))]]
  /\ UNCHANGED sub

\* A path is reserved whole.  A reservation that fails keeps what it got of one.
Decide(g) ==
  \/ /\ agg[g].status = "RESERVING"
     /\ \E path \in Paths(g) : path \cap HeldByOthers(g) = {} /\ Hold(g, "RESERVED", path)
  \/ /\ agg[g].status = "RESERVING"
     /\ \E path \in IF Paths(g) = {} THEN {{}} ELSE Paths(g) : Hold(g, "FAILED", path \ HeldByOthers(g))
  \/ /\ agg[g].status = "TERMINATING"
     /\ agg' = [agg EXCEPT ![g].status = "TERMINATED", ![g].segments = {}]
     /\ UNCHANGED <<sub, proc>>

-----------------------------------------------------------------------------

FormStep(p) ==
  \/ OpenCreateForm(p) \/ ListReservations(p) \/ FormRefused(p) \/ SubmitForm(p)
  \/ \E c \in Circuits : OpenRetryForm(p, c) \/ SubmitTerminate(p, c)

Work(p) ==
  \/ Construct(p) \/ Lock(p)
  \/ TerminateConnection(p) \/ ProcessTerminateResult(p) \/ DropConnection(p)
  \/ UpdateSubscription(p) \/ ReserveConnection(p) \/ ProcessReservationResult(p) \/ Resync(p)

Next ==
  \/ \E p \in Procs : FormStep(p) \/ Work(p) \/ Timeout(p) \/ Abort(p)
  \/ \E c \in Circuits : SetInSync(c)
  \/ \E g \in Id : Decide(g) /\ UNCHANGED started

Spec == Init /\ [][Next]_vars

-----------------------------------------------------------------------------

Accepted == {NoRequest} \cup {Stored(r) : r \in Requests}

Process ==
  [wf : {"none", "create", "retry", "terminate"}, run : {"idle", "form", "running", "awaiting"},
   step : {"none", "list", "submit", "construct", "lock", "terminate", "update", "reserve", "resync"},
   circuit : Circuits \cup {"none"}, released : Id \cup {None},
   in_use : SUBSET Pairs, request : Accepted, raced : SUBSET Pairs]

Reservation ==
  [status : {"none", "RESERVING", "RESERVED", "FAILED", "TERMINATING", "TERMINATED"},
   ends : SUBSET Pairs, pins : {r.pins : r \in Accepted}, segments : SUBSET Pairs]

\* Every variable has its type: global reservation ids within their bound, states
\* of the connection state machine, requests that a form accepted.
TypeOK ==
  /\ sub \in [Circuits -> [state : ConnectionState \cup {"none"}, insync : BOOLEAN,
                           conn : Id \cup {None}, gid : Id \cup {None}, request : Accepted]]
  /\ proc \in [Procs -> Process]
  /\ agg \in [Id -> Reservation]
  /\ started \in 0..MaxStarts

\* The reservations of the circuit that process p works on.
OwnReservations(p) == IF proc[p].circuit = "none" THEN {} ELSE {Mine(p).conn, Mine(p).gid}

\* A form accepts no VLAN that another circuit was holding when it listed the
\* reservations, on a path or after a failure: until the reserve is sent, each
\* VLAN asked for that another reservation holds was taken after the listing
\* (_vlan_within_stp_range, within_sdp, vlans_in_use_by_stp, held_reservations).
FreeWhenListed ==
  \A p \in Procs : ~Sent(p) => \A g \in Id \ OwnReservations(p) :
    agg[g].segments \cap Asked(proc[p].request) \subseteq proc[p].raced

\* What validate_reservation compares of the ends and the pinned VLANs.
ReservationMatches(c) ==
  LET r == sub[c].request  g == sub[c].conn IN
    /\ g = sub[c].gid /\ agg[g].ends = {r.source, r.destination}
    /\ sub[c].state = "RESERVED" /\ agg[g].status = "RESERVED" => PinnedSdpVlans(r.pins) \subseteq ReservationHeldVlans(g)

\* Whatever fails, is retried or is entered anew, a connection id that the
\* subscription stores is of a reservation for the ends and pinned VLANs that it
\* stores as well; the aggregator answers an old global reservation id with the
\* old reservation (update_subscription, reserve_connection).
ConnectionIsForStored == \A c \in Circuits : sub[c].conn # None => ReservationMatches(c)

\* A user who retries can keep the VLANs: the listing takes no VLAN that the circuit
\* stores for in use unless another reservation holds it, while the connection that
\* it leaves out is still the circuit's (fetch_vlans_in_use, released_connection_id).
OwnVlansAreOffered ==
  [][\A p \in Procs :
       FormAt(p, "list") /\ FormAt(p, "submit")' /\ Mine(p).conn = proc[p].released =>
         \A pair \in proc'[p].in_use \cap Asked(Mine(p).request) :
           \E g \in Id \ OwnReservations(p) : pair \in ReservationHeldVlans(g)]_vars

\* A reservation that holds VLANs is left behind in one way only: a circuit gives up
\* the global reservation id of one in a retry whose form read another connection,
\* TERMINATED since by another retry.  Such a retry finds no connection id after its
\* lock, tears nothing down, and nobody can name what the other one reserved last
\* (has_connection, update_subscription).
LeftBehindOnlyByStaleForms ==
  [][\A c \in Circuits :
       LET g == sub[c].gid IN
         g \in HeldReservations /\ sub'[c].gid # g =>
           \E p \in Procs :
             /\ proc[p].circuit = c /\ proc[p].wf = "retry" /\ At(p, "update")
             /\ proc[p].released # g /\ agg[proc[p].released].status = "TERMINATED"]_vars

\* Past its lock, or its construct step.
Past(p) == proc[p].step \in {"terminate", "update", "reserve", "resync"}

\* The workflows keep the lock of each circuit, from which a form may be far away.
Locking == INSTANCE SubscriptionLock WITH
             Subscriptions <- Circuits,
             Processes <- Procs,
             holders <- [c \in Circuits |-> {p \in Procs : Past(p) /\ proc[p].circuit = c}],
             insync <- [c \in Circuits |-> sub[c].insync],
             stored <- [c \in Circuits |->
                          IF sub[c].state = "none" THEN {} ELSE {[sub[c] EXCEPT !.insync = FALSE]}]

\* Forms that are open next to each other, lost answers, aborts and overrides included,
\* the workflows implement the lock: what is stored of a circuit changes under it only.
KeepsTheLock == Locking!LockSpec

=============================================================================
