------------------------- MODULE VlanSelection_proofs -------------------------
(***************************************************************************)
(* The safety properties of VlanSelection, proved for all constants: the   *)
(* inductive invariant IInv of VlanInductive, what follows from it, the    *)
(* action properties about the VLANs that a retry is offered and about the *)
(* reservations that a retry leaves behind, and the refinement of          *)
(* SubscriptionLock.                                                       *)
(*                                                                         *)
(* Most steps change one process slot, and some the subscription of its    *)
(* circuit as well.  What such a step must respect is stated once, in      *)
(* ProcessStep and WorkStep; the action lemmas show that each action does. *)
(***************************************************************************)
EXTENDS VlanInductive, TLAPS

-----------------------------------------------------------------------------
(* Requests and pairs *)

Subscription ==
  [state : ConnectionState \cup {"none"}, insync : BOOLEAN,
   conn : Id \cup {None}, gid : Id \cup {None}, request : Accepted]

\* An empty tuple, which NoRequest has for its ends, is no pair.
LEMMA EmptyIsNoPair == <<>> \notin Pairs
BY DEF Pairs

\* Nothing that is held is asked for by NoRequest.
LEMMA NoRequestAsksNothing == ASSUME NEW held \in SUBSET Pairs PROVE held \cap Asked(NoRequest) = {}
<1>1. PinnedSdpVlans(NoRequest.pins) = {}
  BY DEF PinnedSdpVlans, NoRequest
<1>2. Asked(NoRequest) = {<<>>}
  BY <1>1 DEF Asked, NoRequest
<1> QED BY <1>2, EmptyIsNoPair

\* What is entered has pairs for its ends, and is accepted.
LEMMA EnteredTyped ==
  ASSUME NEW r \in Entered
  PROVE  r \in Accepted /\ r.source \in Pairs /\ r.destination \in Pairs
<1>1. PICK e \in Requests : r = Stored(e)
  BY DEF Entered
<1>2. e \in Request
  BY RequestsAssumption
<1> QED BY <1>1, <1>2 DEF Accepted, Stored, Request, Sap

LEMMA NoRequestTyped == NoRequest \in Accepted /\ Idle \in Process /\ WellFormed(Idle)
<1>1. NoRequest \in Accepted
  BY DEF Accepted
<1>2. Idle \in Process
  BY <1>1 DEF Idle, Process
<1>3. WellFormed(Idle)
  BY NamesAssumption DEF WellFormed, Idle
<1> QED BY <1>1, <1>2, <1>3

\* Only a circuit is the circuit of a process past its lock.
LEMMA PastHasCircuit ==
  ASSUME TypeOK, ProcessesWellFormed, NEW p \in Procs, Past(p)
  PROVE  proc[p].circuit \in Circuits /\ proc[p].run \in {"running", "awaiting"}
BY DEF TypeOK, ProcessesWellFormed, WellFormed, Past, Process, Idle

-----------------------------------------------------------------------------
(* Steps that change one process slot *)

\* The slot p becomes q, and nothing else changes.  A form comes with the connection
\* it releases and, once it has the listing, with all that is held; what asks for VLANs
\* knows those that are taken.
LEMMA ProcessStep ==
  ASSUME IInv, NEW p \in Procs, NEW q \in Process, WellFormed(q),
         proc' = [proc EXCEPT ![p] = q], UNCHANGED <<sub, agg>>, started' \in 0..MaxStarts,
         q.step \in {"terminate", "update", "reserve", "resync"} =>
           q.step = proc[p].step /\ q.circuit = proc[p].circuit /\ q.request = proc[p].request,
         q.released # None => sub[q.circuit].conn = q.released \/ agg[q.released].status = "TERMINATED",
         q.step = "submit" => \A g \in Id \ {q.released} : agg[g].segments \subseteq q.in_use \cup q.raced,
         ~Sent(p)' => \A g \in Id : (q.circuit \in Circuits => g # sub[q.circuit].conn)
                                      => agg[g].segments \cap Asked(q.request) \subseteq q.raced
  PROVE  IInv'
<1> USE DEF IInv
<1>1. /\ proc'[p] = q /\ \A r \in Procs \ {p} : proc'[r] = proc[r]
      /\ sub' = sub /\ agg' = agg
  BY DEF TypeOK
<1>2. TypeOK'
  BY DEF TypeOK
<1>3. ProcessesWellFormed'
  BY <1>1 DEF ProcessesWellFormed, WellFormed
<1>4. OneAtWork'
  BY <1>1 DEF OneAtWork, Past, Mine
<1>5. Subscriptions' /\ GidsDiffer' /\ ReservedAsStored' /\ HeldAsPromised'
  BY <1>1 DEF Subscriptions, GidsDiffer, ReservedAsStored, HeldAsPromised, PinnedSdpVlans
<1>6. StepKnows'
  BY <1>1 DEF StepKnows, Mine
<1>7. ReleasedIsOwn'
  BY <1>1 DEF ReleasedIsOwn, Mine
<1>8. ListingComplete'
  BY <1>1 DEF ListingComplete, FormAt
<1>9. FreeButConnection'
  <2> SUFFICES ASSUME NEW r \in Procs, ~Sent(r)', NEW g \in Id,
                      proc'[r].circuit \in Circuits => g # sub[proc'[r].circuit].conn
               PROVE  agg[g].segments \cap Asked(proc'[r].request) \subseteq proc'[r].raced
    BY <1>1 DEF FreeButConnection, Mine
  <2>1. CASE r = p
    BY <1>1, <2>1
  <2>2. CASE r # p
    <3>1. ~Sent(r)
      BY <1>1, <2>2 DEF Sent, Mine
    <3> QED BY <1>1, <2>2, <3>1 DEF FreeButConnection, Mine
  <2> QED BY <2>1, <2>2
<1> QED BY <1>2, <1>3, <1>4, <1>5, <1>6, <1>7, <1>8, <1>9

-----------------------------------------------------------------------------
(* Steps that change the subscription of their circuit *)

\* The slot p becomes q, and the subscription of its circuit c becomes new.  Nobody else
\* is past a lock on c.  Either the id is kept with the request, or it is a fresh one;
\* a connection is dropped only once it is TERMINATED.
WorkChange(p, q, c, new) ==
  /\ proc' = [proc EXCEPT ![p] = q]
  /\ sub' = [sub EXCEPT ![c] = new]
  /\ UNCHANGED <<agg, started>>
  /\ WellFormed(q)
  /\ q.step \notin {"list", "submit"}
  /\ q = Idle \/ q.circuit = c
  /\ q.released # None => q.released = proc[p].released /\ proc[p].circuit = c
  /\ \A r \in Procs \ {p} : Past(r) => proc[r].circuit # c
  /\ q # Idle => ~new.insync
  /\ new.state # "none" /\ new.gid # None /\ new.request \in Entered
  /\ \/ new.gid = sub[c].gid /\ new.request = sub[c].request
     \/ new.gid \in Id /\ Fresh(new.gid) /\ new.conn = None
  /\ \/ new.conn = sub[c].conn
     \/ new.conn = None /\ agg[sub[c].conn].status = "TERMINATED"
  /\ q.step = "update" => new.conn = None
  /\ q.step = "reserve" => new.request = q.request
  /\ \/ q.step = "resync" \/ q = Idle
     \/ /\ ~Sent(p) /\ q.request = proc[p].request /\ q.raced = proc[p].raced
        /\ proc[p].circuit = c \/ proc[p].circuit \notin Circuits

LEMMA WorkStep ==
  ASSUME IInv, NEW p \in Procs, NEW q \in Process, NEW c \in Circuits, NEW new \in Subscription,
         WorkChange(p, q, c, new)
  PROVE  IInv'
<1> USE DEF IInv, WorkChange
<1>1. /\ proc'[p] = q /\ \A r \in Procs \ {p} : proc'[r] = proc[r]
      /\ sub'[c] = new /\ \A e \in Circuits \ {c} : sub'[e] = sub[e]
      /\ agg' = agg
  BY DEF TypeOK
<1>2. TypeOK'
  BY DEF TypeOK, Subscription
<1>3. ProcessesWellFormed'
  BY <1>1 DEF ProcessesWellFormed, WellFormed
<1>4. OneAtWork'
  <2>1. \A r \in Procs \ {p} : Past(r)' => Past(r) /\ proc[r].circuit \in Circuits \ {c}
    BY <1>1, PastHasCircuit DEF Past
  <2>2. Past(p)' => q.circuit = c /\ q # Idle
    <3>1. Idle.step = "none"
      BY DEF Idle
    <3> QED BY <1>1, <3>1 DEF Past
  <2>3. ASSUME NEW r \in Procs, NEW t \in Procs, Past(r)', Past(t)', proc'[r].circuit = proc'[t].circuit
        PROVE  r = t
    BY <1>1, <2>1, <2>2, <2>3 DEF OneAtWork
  <2>4. ASSUME NEW r \in Procs, Past(r)'
        PROVE  ~Mine(r)'.insync /\ Mine(r)'.state # "none"
    BY <1>1, <2>1, <2>2, <2>4 DEF OneAtWork, Mine
  <2> QED BY <2>3, <2>4 DEF OneAtWork
<1>5. Subscriptions'
  BY <1>1 DEF Subscriptions
<1>6. GidsDiffer'
  BY <1>1 DEF GidsDiffer, Fresh
<1>7. ReservedAsStored'
  <2> SUFFICES ASSUME NEW e \in Circuits
               PROVE  /\ sub'[e].gid # None => LET g == sub'[e].gid  r == sub'[e].request IN
                           agg'[g].status # "none" => agg'[g].ends = {r.source, r.destination} /\ agg'[g].pins = r.pins
                      /\ sub'[e].conn # None => sub'[e].conn = sub'[e].gid /\ agg'[sub'[e].conn].status # "none"
    BY DEF ReservedAsStored
  <2>1. CASE e # c
    BY <1>1, <2>1 DEF ReservedAsStored
  <2>2. CASE e = c /\ new.gid = sub[c].gid /\ new.request = sub[c].request
    BY <1>1, <2>2 DEF ReservedAsStored
  <2>3. CASE e = c /\ Fresh(new.gid) /\ new.conn = None
    BY <1>1, <2>3 DEF Fresh
  <2> QED BY <2>1, <2>2, <2>3
<1>8. HeldAsPromised'
  BY <1>1 DEF HeldAsPromised, PinnedSdpVlans
<1>9. StepKnows'
  <2>1. \A r \in Procs \ {p} : Past(r) => proc[r].circuit \in Circuits \ {c}
    BY PastHasCircuit
  <2> QED BY <1>1, <2>1 DEF StepKnows, Mine, Past, Idle
<1>10. ReleasedIsOwn'
  <2>1. ASSUME q.released # None
        PROVE  q.circuit = c /\ (new.conn = q.released \/ agg[q.released].status = "TERMINATED")
    <3>1. q # Idle
      BY <2>1 DEF Idle
    <3>2. sub[c].conn = q.released \/ agg[q.released].status = "TERMINATED"
      BY <2>1 DEF ReleasedIsOwn, Mine
    <3> QED BY <3>1, <3>2
  <2>2. ASSUME NEW r \in Procs \ {p}, proc[r].released # None
        PROVE  proc[r].circuit \in Circuits
    BY <2>2 DEF ProcessesWellFormed, WellFormed, Idle
  <2> QED BY <1>1, <2>1, <2>2 DEF ReleasedIsOwn, Mine
<1>11. ListingComplete'
  BY <1>1 DEF ListingComplete, FormAt
<1>12. FreeButConnection'
  <2>1. ASSUME NEW g \in Id, NEW r \in Procs, r # p
        PROVE  Sent(r)' = Sent(r)
    BY <1>1, <2>1, PastHasCircuit DEF Sent, Mine, Past
  <2>2. ASSUME NEW g \in Id, g = sub[c].conn, g # new.conn
        PROVE  agg[g].segments = {}
    BY <2>2 DEF HeldAsPromised
  <2>3. ASSUME NEW g \in Id
        PROVE  agg[g].segments \in SUBSET Pairs
    BY <2>3 DEF TypeOK, Reservation
  <2> SUFFICES ASSUME NEW r \in Procs, ~Sent(r)', NEW g \in Id,
                      proc'[r].circuit \in Circuits => g # sub'[proc'[r].circuit].conn
               PROVE  agg[g].segments \cap Asked(proc'[r].request) \subseteq proc'[r].raced
    BY <1>1 DEF FreeButConnection, Mine
  <2>4. CASE r # p
    BY <1>1, <2>1, <2>2, <2>4 DEF FreeButConnection, Mine
  <2>5. CASE r = p /\ q = Idle
    BY <1>1, <2>3, <2>5, NoRequestAsksNothing DEF Idle
  <2>6. CASE r = p /\ q # Idle
    <3>1. q.step # "resync"
      BY <1>1, <2>6 DEF Sent
    <3> QED BY <1>1, <2>2, <2>6, <3>1 DEF FreeButConnection, Mine
  <2> QED BY <2>4, <2>5, <2>6
<1> QED BY <1>2, <1>3, <1>4, <1>5, <1>6, <1>7, <1>8, <1>9, <1>10, <1>11, <1>12

-----------------------------------------------------------------------------
(* Forms, timeouts and aborts *)

\* The listing has what is held by any reservation but the released one.
LEMMA ListingCovers ==
  ASSUME TypeOK, HeldAsPromised, NEW released
  PROVE  /\ VlansInUse(released) \in SUBSET Pairs
         /\ \A g \in Id \ {released} : agg[g].segments \subseteq VlansInUse(released)
<1>1. ASSUME NEW g \in Id
      PROVE  ReservationHeldVlans(g) \in SUBSET Pairs /\ agg[g].segments \subseteq ReservationHeldVlans(g)
  BY <1>1 DEF TypeOK, Reservation, ReservationHeldVlans
<1>2. ASSUME NEW g \in Id, g \notin HeldReservations
      PROVE  agg[g].segments = {}
  BY <1>2 DEF HeldAsPromised, HeldReservations
<1> QED BY <1>1, <1>2 DEF VlansInUse, HeldReservations

LEMMA StartCounts ==
  ASSUME TypeOK, Start \/ UNCHANGED started
  PROVE  started' \in 0..MaxStarts
BY StartsAssumption DEF TypeOK, Start

\* What carries no request asks for nothing that is held.
LEMMA AsksNothing ==
  ASSUME TypeOK, NEW q \in Process, q.request = NoRequest
  PROVE  \A g \in Id : agg[g].segments \cap Asked(q.request) \subseteq q.raced
BY NoRequestAsksNothing DEF TypeOK, Reservation

LEMMA OpenCreateFormStep == ASSUME IInv, NEW p \in Procs, OpenCreateForm(p) PROVE IInv'
<1> DEFINE q == [Idle EXCEPT !.wf = "create", !.step = "submit", !.run = "form", !.in_use = VlansInUse(None)]
<1> USE DEF IInv
<1>1. q \in Process
  BY NoRequestTyped, ListingCovers DEF Process, Idle
<1>2. WellFormed(q)
  BY NamesAssumption DEF WellFormed, Idle
<1>3. \A g \in Id \ {q.released} : agg[g].segments \subseteq q.in_use \cup q.raced
  BY ListingCovers DEF Idle
<1>4. \A g \in Id : agg[g].segments \cap Asked(q.request) \subseteq q.raced
  BY <1>1, AsksNothing DEF Idle
<1>5. q.step = "submit" /\ q.released = None
  BY DEF Idle
<1> HIDE DEF q
<1> QED BY <1>1, <1>2, <1>3, <1>4, <1>5, ProcessStep, StartCounts DEF OpenCreateForm, q

LEMMA OpenRetryFormStep == ASSUME IInv, NEW p \in Procs, NEW c \in Circuits, OpenRetryForm(p, c) PROVE IInv'
<1> DEFINE q == [Idle EXCEPT !.wf = "retry", !.step = "list", !.run = "form", !.circuit = c, !.released = sub[c].conn]
<1> USE DEF IInv
<1>1. q \in Process
  BY NoRequestTyped DEF Process, Idle, TypeOK
<1>2. WellFormed(q)
  BY DEF WellFormed, Idle, OpenRetryForm, Loads
<1>3. \A g \in Id : agg[g].segments \cap Asked(q.request) \subseteq q.raced
  BY <1>1, AsksNothing DEF Idle
<1>4. q.step = "list" /\ q.released = sub[q.circuit].conn
  BY DEF Idle
<1> HIDE DEF q
<1> QED BY <1>1, <1>2, <1>3, <1>4, ProcessStep, StartCounts DEF OpenRetryForm, q

LEMMA SubmitTerminateStep == ASSUME IInv, NEW p \in Procs, NEW c \in Circuits, SubmitTerminate(p, c) PROVE IInv'
<1> DEFINE q == [Idle EXCEPT !.wf = "terminate", !.step = "lock", !.run = "running", !.circuit = c]
<1> USE DEF IInv
<1>1. q \in Process
  BY NoRequestTyped DEF Process, Idle, TypeOK
<1>2. WellFormed(q)
  BY DEF WellFormed, Idle
<1>3. \A g \in Id : agg[g].segments \cap Asked(q.request) \subseteq q.raced
  BY <1>1, AsksNothing DEF Idle
<1>4. q.step = "lock" /\ q.released = None
  BY DEF Idle
<1> HIDE DEF q
<1> QED BY <1>1, <1>2, <1>3, <1>4, ProcessStep, StartCounts DEF SubmitTerminate, q

\* FormRefused, Abort
LEMMA ProcessEnds ==
  ASSUME IInv, NEW p \in Procs, proc' = [proc EXCEPT ![p] = Idle], UNCHANGED <<sub, agg, started>>
  PROVE  IInv'
<1> USE DEF IInv
<1>1. \A g \in Id : agg[g].segments \cap Asked(Idle.request) \subseteq Idle.raced
  BY NoRequestTyped, AsksNothing DEF Idle
<1>2. Idle.step = "none" /\ Idle.released = None
  BY DEF Idle
<1> QED BY <1>1, <1>2, NoRequestTyped, ProcessStep, StartCounts

LEMMA ListReservationsStep == ASSUME IInv, NEW p \in Procs, ListReservations(p) PROVE IInv'
<1> DEFINE q == [proc[p] EXCEPT !.step = "submit", !.in_use = VlansInUse(proc[p].released)]
<1> USE DEF IInv
<1>1. proc[p] \in Process /\ WellFormed(proc[p]) /\ FormAt(p, "list")
  BY DEF TypeOK, ProcessesWellFormed, ListReservations
<1>2. q \in Process
  BY <1>1, ListingCovers DEF Process
<1>3. /\ q.wf = proc[p].wf /\ q.step = "submit" /\ q.run = proc[p].run /\ q.circuit = proc[p].circuit
      /\ q.released = proc[p].released /\ q.request = proc[p].request /\ q.raced = proc[p].raced
      /\ q.in_use = VlansInUse(q.released)
  BY <1>1 DEF Process
<1>4. proc' = [proc EXCEPT ![p] = q]
  BY DEF ListReservations
<1> HIDE DEF q
<1>5. WellFormed(q)
  BY <1>1, <1>3 DEF WellFormed, FormAt, Idle
<1>6. \A g \in Id \ {q.released} : agg[g].segments \subseteq q.in_use \cup q.raced
  BY <1>3, ListingCovers
<1>7. q.request = NoRequest
  BY <1>1, <1>3 DEF WellFormed, FormAt
<1>8. q.released # None => sub[q.circuit].conn = q.released \/ agg[q.released].status = "TERMINATED"
  BY <1>3 DEF ReleasedIsOwn, Mine
<1> QED BY <1>2, <1>3, <1>4, <1>5, <1>6, <1>7, <1>8, AsksNothing, ProcessStep, StartCounts DEF ListReservations

\* A form accepts only what is not in use.
LEMMA AcceptedIsFree ==
  ASSUME NEW r \in Requests, NEW in_use, Accepts(r, in_use)
  PROVE  Asked(Stored(r)) \cap in_use = {}
<1>1. /\ Stored(r).source = r.source /\ Stored(r).destination = r.destination
      /\ Stored(r).pins = r.pins
  BY DEF Stored
<1>2. PinnedSdpVlans(r.pins) \cap in_use = {}
  BY DEF PinnedSdpVlans, Accepts, WithinSdp
<1>3. r.source \notin in_use /\ r.destination \notin in_use
  BY DEF Accepts, VlanWithinStpRange
<1> QED BY <1>1, <1>2, <1>3 DEF Asked

LEMMA SubmitFormStep == ASSUME IInv, NEW p \in Procs, SubmitForm(p) PROVE IInv'
<1> USE DEF IInv
<1>1. PICK r \in Requests :
        /\ Accepts(r, proc[p].in_use)
        /\ proc' = [proc EXCEPT ![p] =
             [proc[p] EXCEPT !.step = IF proc[p].wf = "create" THEN "construct" ELSE "lock", !.run = "running",
                       !.in_use = {}, !.raced = @ \cap Asked(r), !.request = Stored(r)]]
  BY DEF SubmitForm
<1> DEFINE q == [proc[p] EXCEPT !.step = IF proc[p].wf = "create" THEN "construct" ELSE "lock", !.run = "running",
                   !.in_use = {}, !.raced = @ \cap Asked(r), !.request = Stored(r)]
<1>2. proc[p] \in Process /\ WellFormed(proc[p]) /\ FormAt(p, "submit")
  BY DEF TypeOK, ProcessesWellFormed, SubmitForm
<1>3. Stored(r) \in Entered /\ Stored(r) \in Accepted /\ Asked(Stored(r)) = Asked(r)
  BY EnteredTyped DEF Entered, Stored, Asked
<1>4. q \in Process
  BY <1>2, <1>3 DEF Process
<1>5. /\ q.wf = proc[p].wf /\ q.step = IF proc[p].wf = "create" THEN "construct" ELSE "lock"
      /\ q.run = "running" /\ q.circuit = proc[p].circuit /\ q.released = proc[p].released
      /\ q.request = Stored(r) /\ q.raced = proc[p].raced \cap Asked(q.request)
  BY <1>2, <1>3 DEF Process
<1>6. proc' = [proc EXCEPT ![p] = q]
  BY <1>1
<1> HIDE DEF q
<1>7. WellFormed(q)
  BY <1>2, <1>3, <1>5 DEF WellFormed, FormAt, Idle
<1>8. ASSUME NEW g \in Id, q.circuit \in Circuits => g # sub[q.circuit].conn
      PROVE  agg[g].segments \cap Asked(q.request) \subseteq q.raced
  <2>1. CASE g # proc[p].released
    <3>1. agg[g].segments \subseteq proc[p].in_use \cup proc[p].raced
      BY <1>2, <2>1 DEF ListingComplete
    <3> QED BY <1>1, <1>5, <3>1, AcceptedIsFree
  <2>2. CASE g = proc[p].released
    <3>1. proc[p].circuit \in Circuits /\ proc[p].released # None
      BY <1>2, <2>2 DEF WellFormed, Id, None
    <3>2. agg[g].status = "TERMINATED"
      BY <1>5, <1>8, <2>2, <3>1 DEF ReleasedIsOwn, Mine
    <3> QED BY <3>2 DEF HeldAsPromised
  <2> QED BY <2>1, <2>2
<1>9. q.released # None => sub[q.circuit].conn = q.released \/ agg[q.released].status = "TERMINATED"
  BY <1>5 DEF ReleasedIsOwn, Mine
<1> QED BY <1>4, <1>5, <1>6, <1>7, <1>8, <1>9, ProcessStep, StartCounts DEF SubmitForm

LEMMA TimeoutStep == ASSUME IInv, NEW p \in Procs, Timeout(p) PROVE IInv'
<1> DEFINE q == [proc[p] EXCEPT !.run = "running"]
<1> USE DEF IInv
<1>1. proc[p] \in Process /\ WellFormed(proc[p]) /\ proc[p].run = "awaiting"
  BY DEF TypeOK, ProcessesWellFormed, Timeout
<1>2. q \in Process
  BY <1>1 DEF Process
<1>3. /\ q.wf = proc[p].wf /\ q.step = proc[p].step /\ q.run = "running" /\ q.circuit = proc[p].circuit
      /\ q.released = proc[p].released /\ q.request = proc[p].request /\ q.raced = proc[p].raced
  BY <1>1 DEF Process
<1>4. proc' = [proc EXCEPT ![p] = q]
  BY <1>1, <1>2 DEF Timeout, Goto, TypeOK, Process
<1> HIDE DEF q
<1>5. WellFormed(q)
  BY <1>1, <1>3 DEF WellFormed, Idle
<1>6. /\ q.released # None => sub[q.circuit].conn = q.released \/ agg[q.released].status = "TERMINATED"
      /\ q.step # "submit"
  BY <1>1, <1>3 DEF WellFormed, ReleasedIsOwn, Mine
<1>7. ~Sent(p)' => ~Sent(p)
  BY <1>2, <1>3, <1>4 DEF Sent, Mine, Timeout, TypeOK
<1> QED BY <1>2, <1>3, <1>4, <1>5, <1>6, <1>7, ProcessStep, StartCounts DEF Timeout, FreeButConnection, Mine

-----------------------------------------------------------------------------
(* The steps of a process *)

Steps == {"none", "list", "submit", "construct", "lock", "terminate", "update", "reserve", "resync"}

LEMMA GotoIs ==
  ASSUME TypeOK, NEW p \in Procs, NEW s \in Steps, Goto(p, s)
  PROVE  \E q \in Process :
           /\ proc' = [proc EXCEPT ![p] = q]
           /\ q.wf = proc[p].wf /\ q.step = s /\ q.run = "running" /\ q.circuit = proc[p].circuit
           /\ q.released = proc[p].released /\ q.request = proc[p].request /\ q.raced = proc[p].raced
<1> DEFINE q == [proc[p] EXCEPT !.step = s, !.run = "running"]
<1>1. proc[p] \in Process
  BY DEF TypeOK
<1>2. q \in Process
  BY <1>1 DEF Process, Steps
<1>3. proc' = [proc EXCEPT ![p] = q]
  BY <1>1, <1>2 DEF Goto, TypeOK, Process
<1>4. /\ q.wf = proc[p].wf /\ q.step = s /\ q.run = "running" /\ q.circuit = proc[p].circuit
      /\ q.released = proc[p].released /\ q.request = proc[p].request /\ q.raced = proc[p].raced
  BY <1>1 DEF Process
<1> HIDE DEF q
<1> QED BY <1>2, <1>3, <1>4

LEMMA NobodyElse ==
  ASSUME OneAtWork, NEW p \in Procs, Past(p) \/ Mine(p).insync
  PROVE  \A r \in Procs \ {p} : Past(r) => proc[r].circuit # proc[p].circuit
BY DEF OneAtWork, Mine

\* A step of p from one that is not "resync" to another, in which the subscription of
\* its circuit becomes new.
LEMMA GotoStep ==
  ASSUME IInv, NEW p \in Procs, NEW s \in Steps, NEW new \in Subscription,
         Goto(p, s), sub' = [sub EXCEPT ![proc[p].circuit] = new], UNCHANGED <<agg, started>>,
         proc[p].step \in {"lock", "terminate", "update", "reserve"},
         proc[p].run \in {"running", "awaiting"}, Past(p) \/ Mine(p).insync,
         \/ s = "resync"
         \/ s = "terminate" /\ proc[p].step = "lock"
         \/ s = "update" /\ proc[p].wf = "retry" /\ new.conn = None /\ proc[p].step # "reserve"
         \/ s = "reserve" /\ proc[p].wf = "retry" /\ new.request = proc[p].request /\ proc[p].step = "update",
         ~new.insync, new.state # "none", new.gid # None, new.request \in Entered,
         \/ new.gid = Mine(p).gid /\ new.request = Mine(p).request
         \/ new.gid \in Id /\ Fresh(new.gid) /\ new.conn = None,
         \/ new.conn = Mine(p).conn
         \/ new.conn = None /\ agg[Mine(p).conn].status = "TERMINATED"
  PROVE  IInv'
<1> USE DEF IInv
<1>1. PICK q \in Process :
        /\ proc' = [proc EXCEPT ![p] = q]
        /\ q.wf = proc[p].wf /\ q.step = s /\ q.run = "running" /\ q.circuit = proc[p].circuit
        /\ q.released = proc[p].released /\ q.request = proc[p].request /\ q.raced = proc[p].raced
  BY GotoIs
<1>2. WellFormed(proc[p]) /\ proc[p] \in Process
  BY DEF ProcessesWellFormed, TypeOK
<1>3. PICK c \in Circuits : proc[p].circuit = c /\ Mine(p) = sub[c]
  BY <1>2 DEF WellFormed, Process, Mine
<1>4. WellFormed(q)
  BY <1>1, <1>2 DEF WellFormed, Process
<1>5. s # "resync" => ~Sent(p)
  BY DEF Sent
<1>6. \A r \in Procs \ {p} : Past(r) => proc[r].circuit # c
  BY <1>3, NobodyElse
<1>7. WorkChange(p, q, c, new)
  BY <1>1, <1>3, <1>4, <1>5, <1>6 DEF WorkChange
<1> HIDE DEF IInv
<1> QED BY <1>7, WorkStep

LEMMA LockStep == ASSUME IInv, NEW p \in Procs, Lock(p) PROVE IInv'
<1> DEFINE new == [Mine(p) EXCEPT !.insync = FALSE]
<1> DEFINE s == IF proc[p].wf = "retry" /\ Mine(p).conn = None THEN "update"
                ELSE IF proc[p].wf = "terminate" /\ Mine(p).state = "TERMINATED" THEN "resync"
                ELSE "terminate"
<1> USE DEF IInv
<1>1. proc[p].step = "lock" /\ proc[p].run = "running" /\ proc[p].circuit \in Circuits
  <2>1. proc[p].step = "lock" /\ proc[p].run = "running"
    BY DEF Lock, At
  <2>2. WellFormed(proc[p]) /\ proc[p] \in Process
    BY DEF ProcessesWellFormed, TypeOK
  <2> QED BY <2>1, <2>2 DEF WellFormed, Process
<1>2. Mine(p) \in Subscription /\ Mine(p).insync
  BY <1>1 DEF TypeOK, Lock, Mine, Subscription
<1>3. new \in Subscription
  BY <1>2 DEF Subscription
<1>4. /\ ~new.insync /\ new.state = Mine(p).state /\ new.gid = Mine(p).gid
      /\ new.request = Mine(p).request /\ new.conn = Mine(p).conn
  BY <1>2 DEF Subscription
<1>5. Mine(p).state # "none" /\ Mine(p).gid # None /\ Mine(p).request \in Entered
  BY <1>1, <1>2 DEF Subscriptions, Mine, Unsubscribed
<1>6. /\ sub' = [sub EXCEPT ![proc[p].circuit] = new] /\ Goto(p, s) /\ UNCHANGED <<agg, started>>
  BY DEF Lock, Store
<1>7. s \in Steps
  BY DEF Steps
<1>8. \/ s = "resync" \/ s = "terminate"
      \/ s = "update" /\ proc[p].wf = "retry" /\ new.conn = None
  BY <1>4
<1> HIDE DEF new, s
<1> QED BY <1>1, <1>2, <1>3, <1>4, <1>5, <1>6, <1>7, <1>8, GotoStep

\* What a step past the lock finds.
LEMMA AtWork ==
  ASSUME IInv, NEW p \in Procs, Past(p)
  PROVE  /\ proc[p].circuit \in Circuits /\ proc[p].run \in {"running", "awaiting"}
         /\ Mine(p) \in Subscription /\ ~Mine(p).insync
         /\ Mine(p).state # "none" /\ Mine(p).gid # None /\ Mine(p).request \in Entered
BY PastHasCircuit DEF IInv, TypeOK, OneAtWork, Subscriptions, Mine, Subscription

LEMMA AppliedState ==
  ASSUME NEW state, NEW event \in DOMAIN Transition
  PROVE  Apply(state, event) \in ConnectionState /\ Apply(state, event) # "none"
BY DEF Apply, Transition, ConnectionState

\* process_terminate_result, process_reservation_result
LEMMA ResultStep ==
  ASSUME IInv, NEW p \in Procs, Past(p), proc[p].step \in {"terminate", "reserve"},
         NEW state \in ConnectionState, state # "none",
         Store(p, [Mine(p) EXCEPT !.state = state]), Goto(p, "resync"), UNCHANGED <<agg, started>>
  PROVE  IInv'
<1> DEFINE new == [Mine(p) EXCEPT !.state = state]
<1>1. new \in Subscription
  BY AtWork DEF Subscription
<1>2. /\ new.insync = Mine(p).insync /\ new.state = state /\ new.gid = Mine(p).gid
      /\ new.request = Mine(p).request /\ new.conn = Mine(p).conn
  BY AtWork DEF Subscription
<1>3. sub' = [sub EXCEPT ![proc[p].circuit] = new]
  BY DEF Store
<1> HIDE DEF new
<1> QED BY <1>1, <1>2, <1>3, AtWork, GotoStep DEF Steps

LEMMA ProcessTerminateResultStep == ASSUME IInv, NEW p \in Procs, ProcessTerminateResult(p) PROVE IInv'
<1>1. Past(p) /\ proc[p].step = "terminate"
  BY DEF ProcessTerminateResult, Result, Past
<1>2. Apply(Mine(p).state, "terminate") \in ConnectionState /\ Apply(Mine(p).state, "terminate") # "none"
  BY AppliedState DEF Transition
<1>3. Store(p, [Mine(p) EXCEPT !.state = Apply(Mine(p).state, "terminate")])
  BY DEF ProcessTerminateResult
<1> QED BY <1>1, <1>2, <1>3, ResultStep DEF ProcessTerminateResult

LEMMA ProcessReservationResultStep == ASSUME IInv, NEW p \in Procs, ProcessReservationResult(p) PROVE IInv'
<1>1. Past(p) /\ proc[p].step = "reserve"
  BY DEF ProcessReservationResult, Result, Past
<1>2. PICK event \in {"reserve_confirmed", "reserve_failed"} :
        Store(p, [Mine(p) EXCEPT !.state = Apply(Mine(p).state, event)])
  BY DEF ProcessReservationResult
<1>3. Apply(Mine(p).state, event) \in ConnectionState /\ Apply(Mine(p).state, event) # "none"
  BY AppliedState DEF Transition
<1> QED BY <1>1, <1>2, <1>3, ResultStep DEF ProcessReservationResult

LEMMA DropConnectionStep == ASSUME IInv, NEW p \in Procs, DropConnection(p) PROVE IInv'
<1> DEFINE new == [Mine(p) EXCEPT !.conn = None]
<1>1. Past(p) /\ proc[p].step = "terminate" /\ proc[p].wf = "retry" /\ agg[Mine(p).conn].status = "TERMINATED"
  BY DEF DropConnection, Result, Past
<1>2. new \in Subscription
  BY <1>1, AtWork DEF Subscription, None
<1>3. /\ new.insync = Mine(p).insync /\ new.state = Mine(p).state /\ new.gid = Mine(p).gid
      /\ new.request = Mine(p).request /\ new.conn = None
  BY <1>1, AtWork DEF Subscription
<1>4. sub' = [sub EXCEPT ![proc[p].circuit] = new] /\ Goto(p, "update") /\ UNCHANGED <<agg, started>>
  BY DEF DropConnection, Store
<1> HIDE DEF new
<1> QED BY <1>1, <1>2, <1>3, <1>4, AtWork, GotoStep DEF Steps

LEMMA UpdateSubscriptionStep == ASSUME IInv, NEW p \in Procs, UpdateSubscription(p) PROVE IInv'
<1>1. PICK g \in Id : /\ Fresh(g)
                      /\ Store(p, [Mine(p) EXCEPT !.state = Apply(Mine(p).state, "retry"), !.gid = g,
                                                  !.request = proc[p].request])
  BY DEF UpdateSubscription
<1> DEFINE state == Apply(Mine(p).state, "retry")
<1> DEFINE new == [Mine(p) EXCEPT !.state = state, !.gid = g, !.request = proc[p].request]
<1>2. Past(p) /\ proc[p].step = "update" /\ proc[p].run = "running" /\ Mine(p).conn = None
  BY DEF UpdateSubscription, At, Past, IInv, StepKnows
<1>3. proc[p].wf = "retry" /\ proc[p].request \in Entered /\ proc[p].request \in Accepted
  <2>1. proc[p] \in Process /\ WellFormed(proc[p])
    BY DEF IInv, TypeOK, ProcessesWellFormed
  <2> QED BY <1>2, <2>1, EnteredTyped DEF WellFormed, Process
<1>4. state \in ConnectionState /\ state # "none"
  BY AppliedState DEF Transition
<1>5. Mine(p) \in Subscription /\ ~Mine(p).insync
  BY <1>2, AtWork
<1> HIDE DEF state
<1>6. new \in Subscription
  BY <1>3, <1>4, <1>5 DEF Subscription
<1>7. /\ new.insync = Mine(p).insync /\ new.state = state /\ new.gid = g
      /\ new.request = proc[p].request /\ new.conn = Mine(p).conn
  BY <1>5 DEF Subscription
<1>8. sub' = [sub EXCEPT ![proc[p].circuit] = new] /\ Goto(p, "reserve") /\ UNCHANGED <<agg, started>>
  BY <1>1 DEF UpdateSubscription, Store, state
<1>9. new.gid # None
  BY <1>7 DEF Id, None
<1> HIDE DEF new
<1> QED BY <1>1, <1>2, <1>3, <1>4, <1>5, <1>6, <1>7, <1>8, <1>9, GotoStep DEF Steps

LEMMA ConstructStep == ASSUME IInv, NEW p \in Procs, Construct(p) PROVE IInv'
<1>1. PICK c \in Circuits, g \in Id :
        /\ sub[c].state = "none" /\ Fresh(g)
        /\ sub' = [sub EXCEPT ![c] = [sub[c] EXCEPT !.state = "CREATED", !.gid = g, !.request = proc[p].request]]
        /\ proc' = [proc EXCEPT ![p] = [proc[p] EXCEPT !.step = "reserve", !.circuit = c]]
  BY DEF Construct
<1> DEFINE new == [sub[c] EXCEPT !.state = "CREATED", !.gid = g, !.request = proc[p].request]
<1> DEFINE q == [proc[p] EXCEPT !.step = "reserve", !.circuit = c]
<1>2. proc[p] \in Process /\ WellFormed(proc[p]) /\ proc[p].step = "construct" /\ proc[p].run = "running"
  BY DEF IInv, TypeOK, ProcessesWellFormed, Construct, At
<1>3. /\ proc[p].wf = "create" /\ proc[p].released = None
      /\ proc[p].request \in Entered /\ proc[p].request \in Accepted
  BY <1>2, EnteredTyped DEF WellFormed, Process
<1>4. sub[c] \in Subscription /\ sub[c] = Unsubscribed
  BY <1>1 DEF IInv, TypeOK, Subscription, Subscriptions
<1>5. new \in Subscription
  BY <1>3, <1>4 DEF Subscription, ConnectionState
<1>6. /\ ~new.insync /\ new.state = "CREATED" /\ new.gid = g /\ new.request = proc[p].request
      /\ new.conn = None /\ sub[c].conn = None
  BY <1>4 DEF Subscription, Unsubscribed
<1>7. q \in Process
  BY <1>2 DEF Process
<1>8. /\ q.wf = "create" /\ q.step = "reserve" /\ q.run = "running" /\ q.circuit = c
      /\ q.released = proc[p].released /\ q.request = proc[p].request /\ q.raced = proc[p].raced
  BY <1>2, <1>3 DEF Process
<1>9. sub' = [sub EXCEPT ![c] = new] /\ proc' = [proc EXCEPT ![p] = q] /\ UNCHANGED <<agg, started>>
  BY <1>1 DEF Construct
<1> HIDE DEF new, q
<1>10. WellFormed(q)
  BY <1>2, <1>3, <1>8 DEF WellFormed
<1>11. \A r \in Procs \ {p} : Past(r) => proc[r].circuit # c
  BY <1>1 DEF IInv, OneAtWork, Mine
<1>12. proc[p].circuit \notin Circuits
  BY <1>2, <1>3 DEF WellFormed
<1>13. ~Sent(p) /\ g # None
  BY <1>2 DEF Sent, Id, None
<1>14. WorkChange(p, q, c, new)
  BY <1>1, <1>3, <1>6, <1>8, <1>9, <1>10, <1>11, <1>12, <1>13 DEF WorkChange
<1> QED BY <1>5, <1>7, <1>14, WorkStep

LEMMA ResyncStep == ASSUME IInv, NEW p \in Procs, Resync(p) PROVE IInv'
<1> DEFINE c == proc[p].circuit
<1> DEFINE new == [Mine(p) EXCEPT !.insync = TRUE]
<1>1. Past(p)
  BY DEF Resync, At, Past
<1>2. c \in Circuits /\ Mine(p) \in Subscription /\ Mine(p) = sub[c]
  BY <1>1, AtWork DEF Mine
<1>3. new \in Subscription
  BY <1>2 DEF Subscription
<1>4. /\ new.state = sub[c].state /\ new.gid = sub[c].gid
      /\ new.request = sub[c].request /\ new.conn = sub[c].conn
  BY <1>2 DEF Subscription
<1>5. sub' = [sub EXCEPT ![c] = new] /\ proc' = [proc EXCEPT ![p] = Idle] /\ UNCHANGED <<agg, started>>
  BY DEF Resync, Store
<1>6. \A r \in Procs \ {p} : Past(r) => proc[r].circuit # c
  BY <1>1, NobodyElse DEF IInv
<1>7. new.state # "none" /\ new.gid # None /\ new.request \in Entered
  BY <1>1, <1>2, <1>4, AtWork
<1>8. Idle.step = "none" /\ Idle.released = None
  BY DEF Idle
<1> HIDE DEF new
<1>9. WorkChange(p, Idle, c, new)
  BY <1>4, <1>5, <1>6, <1>7, <1>8, NoRequestTyped DEF WorkChange
<1> HIDE DEF c
<1> QED BY <1>2, <1>3, <1>9, NoRequestTyped, WorkStep

LEMMA SetInSyncStep == ASSUME IInv, NEW c \in Circuits, SetInSync(c) PROVE IInv'
<1> USE DEF IInv
<1>1. sub[c] \in Subscription
  BY DEF TypeOK, Subscription
<1> DEFINE new == [sub[c] EXCEPT !.insync = TRUE]
<1>2. /\ new \in Subscription /\ new.state = sub[c].state /\ new.conn = sub[c].conn
      /\ new.gid = sub[c].gid /\ new.request = sub[c].request
  BY <1>1 DEF Subscription
<1>3. /\ sub' = [sub EXCEPT ![c] = new] /\ proc' = proc /\ agg' = agg /\ started' = started
      /\ sub[c].state # "none"
  BY <1>1 DEF SetInSync, TypeOK, Subscription
<1> HIDE DEF new
<1>4. /\ sub'[c] = new /\ \A e \in Circuits \ {c} : sub'[e] = sub[e]
      /\ \A e \in Circuits : /\ sub'[e].state = sub[e].state /\ sub'[e].conn = sub[e].conn
                             /\ sub'[e].gid = sub[e].gid /\ sub'[e].request = sub[e].request
  BY <1>2, <1>3 DEF TypeOK
<1>5. TypeOK'
  BY <1>2, <1>3 DEF TypeOK, Subscription
<1>6. ProcessesWellFormed' /\ HeldAsPromised' /\ ListingComplete'
  BY <1>3 DEF ProcessesWellFormed, WellFormed, HeldAsPromised, PinnedSdpVlans, ListingComplete, FormAt
<1>7. OneAtWork'
  <2>1. \A p \in Procs : Past(p) => proc[p].circuit \in Circuits \ {c}
    BY PastHasCircuit DEF SetInSync
  <2> QED BY <1>3, <1>4, <2>1 DEF OneAtWork, Past, Mine
<1>8. Subscriptions'
  BY <1>2, <1>3, <1>4 DEF Subscriptions
<1>9. GidsDiffer' /\ ReservedAsStored'
  BY <1>3, <1>4 DEF GidsDiffer, ReservedAsStored
<1>10. StepKnows'
  BY <1>3, <1>4, PastHasCircuit DEF StepKnows, Mine, Past
<1>11. ReleasedIsOwn'
  <2>1. \A p \in Procs : proc[p].released # None => proc[p].circuit \in Circuits
    BY DEF ProcessesWellFormed, WellFormed
  <2> QED BY <1>3, <1>4, <2>1 DEF ReleasedIsOwn, Mine
<1>12. FreeButConnection'
  <2>1. \A p \in Procs : Sent(p)' = Sent(p)
    BY <1>3, <1>4, PastHasCircuit DEF Sent, Mine, Past
  <2> QED BY <1>3, <1>4, <2>1 DEF FreeButConnection, Mine
<1> QED BY <1>5, <1>6, <1>7, <1>8, <1>9, <1>10, <1>11, <1>12

-----------------------------------------------------------------------------
(* Steps of the aggregator *)

\* The reservation g, which exists, becomes h.  Slots keep what they are, and what g gets
\* is remembered by those that it concerns.
ReservationChange(g, h) ==
  /\ agg' = [agg EXCEPT ![g] = h] /\ UNCHANGED <<sub, started>>
  /\ agg[g].status # "none" /\ h.status # "none"
  /\ agg[g].status = "TERMINATED" => h.status = "TERMINATED"
  /\ h.ends = agg[g].ends /\ h.pins = agg[g].pins
  /\ h.status \in {"RESERVING", "TERMINATED"} => h.segments = {}
  /\ h.status = "RESERVED" => PinnedSdpVlans(h.pins) \subseteq h.segments \cup h.ends
  /\ proc' \in [Procs -> Process]
  /\ \A r \in Procs :
       LET got == h.segments \ agg[g].segments IN
         /\ WellFormed(proc'[r])
         /\ proc'[r].step = proc[r].step /\ proc'[r].circuit = proc[r].circuit
         /\ proc'[r].released = proc[r].released /\ proc'[r].request = proc[r].request
         /\ proc'[r].in_use = proc[r].in_use
         /\ proc'[r].run = "form" => proc[r].run = "form"
         /\ proc[r].raced \subseteq proc'[r].raced
         /\ ~Sent(r) => got \cap Asked(proc[r].request) \subseteq proc'[r].raced
         /\ FormAt(r, "submit") => got \subseteq proc'[r].raced

LEMMA ReservationStep ==
  ASSUME IInv, NEW g \in Id, NEW h \in Reservation, ReservationChange(g, h)
  PROVE  IInv'
<1> USE DEF IInv
<1> DEFINE got == h.segments \ agg[g].segments
<1>1. /\ agg'[g] = h /\ \A e \in Id \ {g} : agg'[e] = agg[e]
      /\ sub' = sub /\ started' = started /\ agg' \in [Id -> Reservation]
      /\ h.ends = agg[g].ends /\ h.pins = agg[g].pins
      /\ agg[g].status # "none" /\ h.status # "none"
      /\ agg[g].status = "TERMINATED" => h.status = "TERMINATED"
      /\ proc' \in [Procs -> Process]
  BY DEF ReservationChange, TypeOK
<1>2. \A r \in Procs :
         /\ WellFormed(proc'[r])
         /\ proc'[r].step = proc[r].step /\ proc'[r].circuit = proc[r].circuit
         /\ proc'[r].released = proc[r].released /\ proc'[r].request = proc[r].request
         /\ proc'[r].in_use = proc[r].in_use
         /\ proc'[r].run = "form" => proc[r].run = "form"
         /\ proc[r].raced \subseteq proc'[r].raced
         /\ ~Sent(r) => got \cap Asked(proc[r].request) \subseteq proc'[r].raced
         /\ FormAt(r, "submit") => got \subseteq proc'[r].raced
  BY DEF ReservationChange
<1>3. HeldAsPromised'
  BY <1>1 DEF HeldAsPromised, ReservationChange, PinnedSdpVlans
<1> HIDE DEF got
<1>4. TypeOK'
  BY <1>1 DEF TypeOK
<1>5. ProcessesWellFormed'
  BY <1>2 DEF ProcessesWellFormed, WellFormed
<1>6. OneAtWork' /\ Subscriptions' /\ GidsDiffer' /\ StepKnows'
  BY <1>1, <1>2 DEF OneAtWork, Subscriptions, GidsDiffer, StepKnows, Past, Mine
<1>7. ReservedAsStored'
  <2>1. \A c \in Circuits : sub[c].gid \in Id \cup {None}
    BY DEF TypeOK
  <2> QED BY <1>1, <2>1 DEF ReservedAsStored
<1>8. ReleasedIsOwn'
  <2>1. \A r \in Procs : proc[r].released \in Id \cup {None}
    BY DEF TypeOK, Process
  <2> QED BY <1>1, <1>2, <2>1 DEF ReleasedIsOwn, Mine
<1>9. \A e \in Id : agg'[e].segments \subseteq agg[e].segments \cup IF e = g THEN got ELSE {}
  BY <1>1 DEF got
<1>10. ListingComplete'
  <2>1. \A r \in Procs : FormAt(r, "submit")' => FormAt(r, "submit")
    BY <1>2 DEF FormAt
  <2> QED BY <1>2, <1>9, <2>1 DEF ListingComplete
<1>11. FreeButConnection'
  <2>1. \A r \in Procs : Sent(r) => Sent(r)'
    <3>1. \A r \in Procs : Past(r) => Mine(r).gid \in Id /\ Mine(r)' = Mine(r)
      BY <1>1, <1>2, AtWork DEF Subscription, Mine
    <3> QED BY <1>1, <1>2, <3>1 DEF Sent, Past
  <2> QED BY <1>1, <1>2, <1>9, <2>1 DEF FreeButConnection, Mine
<1> QED BY <1>3, <1>4, <1>5, <1>6, <1>7, <1>8, <1>10, <1>11

\* A process that waits, or goes on waiting, is well formed as before.
LEMMA AwaitIs ==
  ASSUME IInv, NEW p \in Procs, proc[p].step \in {"terminate", "reserve"}, proc[p].run = "running",
         Await(p) \/ UNCHANGED proc
  PROVE  /\ proc' \in [Procs -> Process]
         /\ \A r \in Procs :
              /\ WellFormed(proc'[r])
              /\ proc'[r].wf = proc[r].wf /\ proc'[r].step = proc[r].step /\ proc'[r].circuit = proc[r].circuit
              /\ proc'[r].released = proc[r].released /\ proc'[r].request = proc[r].request
              /\ proc'[r].in_use = proc[r].in_use /\ proc'[r].raced = proc[r].raced
              /\ proc'[r].run = "form" => proc[r].run = "form"
<1> DEFINE q == [proc[p] EXCEPT !.run = "awaiting"]
<1>1. proc[p] \in Process /\ WellFormed(proc[p]) /\ \A r \in Procs : WellFormed(proc[r])
  BY DEF IInv, TypeOK, ProcessesWellFormed
<1>2. q \in Process
  BY <1>1 DEF Process
<1>3. /\ q.wf = proc[p].wf /\ q.step = proc[p].step /\ q.run = "awaiting" /\ q.circuit = proc[p].circuit
      /\ q.released = proc[p].released /\ q.request = proc[p].request
      /\ q.in_use = proc[p].in_use /\ q.raced = proc[p].raced
  BY <1>1 DEF Process
<1>4. proc' = proc \/ proc' = [proc EXCEPT ![p] = q]
  BY <1>1 DEF Await, IInv, TypeOK, Process
<1> HIDE DEF q
<1>5. WellFormed(q)
  BY <1>1, <1>3 DEF WellFormed
<1> QED BY <1>1, <1>2, <1>3, <1>4, <1>5 DEF IInv, TypeOK

LEMMA TerminateConnectionStep == ASSUME IInv, NEW p \in Procs, TerminateConnection(p) PROVE IInv'
<1> DEFINE g == Mine(p).conn
<1>1. proc[p].step = "terminate" /\ proc[p].run = "running" /\ g # None /\ (Await(p) \/ UNCHANGED proc)
  BY DEF TerminateConnection, At
<1>2. g \in Id /\ agg[g] \in Reservation
  BY <1>1, AtWork DEF IInv, TypeOK, Subscription, Past
<1>3. PICK h \in Reservation :
        /\ agg' = [agg EXCEPT ![g] = h]
        /\ h.ends = agg[g].ends /\ h.pins = agg[g].pins /\ h.segments = agg[g].segments
        /\ \/ agg[g].status \in {"RESERVED", "FAILED", "TERMINATING"} /\ h.status = "TERMINATING"
           \/ agg[g].status = "TERMINATED" /\ h.status = "TERMINATED"
  <2>1. CASE agg[g].status \in {"RESERVED", "FAILED"} /\ agg' = [agg EXCEPT ![g].status = "TERMINATING"]
    <3> DEFINE h == [agg[g] EXCEPT !.status = "TERMINATING"]
    <3>1. h \in Reservation /\ h.ends = agg[g].ends /\ h.pins = agg[g].pins /\ h.segments = agg[g].segments
      BY <1>2 DEF Reservation
    <3>2. h.status = "TERMINATING" /\ agg' = [agg EXCEPT ![g] = h]
      BY <1>2, <2>1 DEF Reservation
    <3> HIDE DEF h
    <3> QED BY <2>1, <3>1, <3>2
  <2>2. CASE agg[g].status \in {"TERMINATING", "TERMINATED"} /\ UNCHANGED agg
    BY <1>2, <2>2 DEF IInv, TypeOK
  <2> QED BY <2>1, <2>2 DEF TerminateConnection
<1>4. UNCHANGED <<sub, started>>
  BY DEF TerminateConnection
<1>5. agg[g].status = "TERMINATED" => h.segments = {}
  BY <1>2, <1>3 DEF IInv, HeldAsPromised
<1> HIDE DEF g
<1>6. ReservationChange(g, h)
  BY <1>1, <1>3, <1>4, <1>5, AwaitIs DEF ReservationChange
<1> QED BY <1>2, <1>6, ReservationStep

\* What a path consists of.
LEMMA PathTyped ==
  ASSUME TypeOK, NEW g \in Id, NEW path \in Paths(g)
  PROVE  path \in SUBSET Pairs /\ PinnedSdpVlans(agg[g].pins) \subseteq path
<1>1. PICK via \in SUBSET Sdps : \E f \in [via -> Vlan] :
        /\ DOMAIN agg[g].pins \subseteq via
        /\ path = agg[g].ends \cup UNION {OnSdp(d, f[d]) : d \in DOMAIN f}
        /\ \A d \in DOMAIN agg[g].pins : agg[g].pins[d] \in {0, f[d]}
  BY DEF Paths
<1>2. PICK f \in [via -> Vlan] :
        /\ DOMAIN agg[g].pins \subseteq via
        /\ path = agg[g].ends \cup UNION {OnSdp(d, f[d]) : d \in DOMAIN f}
        /\ \A d \in DOMAIN agg[g].pins : agg[g].pins[d] \in {0, f[d]}
  BY <1>1
<1>3. \A d \in via : OnSdp(d, f[d]) \subseteq Pairs
  BY StpsAssumption DEF OnSdp, Pairs
<1>4. path \in SUBSET Pairs
  BY <1>2, <1>3 DEF TypeOK, Reservation
<1>5. PinnedSdpVlans(agg[g].pins) \subseteq path
  BY <1>2 DEF PinnedSdpVlans
<1> QED BY <1>4, <1>5

LEMMA HoldStep ==
  ASSUME IInv, NEW g \in Id, NEW status \in {"RESERVED", "FAILED"}, NEW pairs \in SUBSET Pairs,
         agg[g].status = "RESERVING", Hold(g, status, pairs), UNCHANGED started,
         status = "RESERVED" => PinnedSdpVlans(agg[g].pins) \subseteq pairs
  PROVE  IInv'
<1> DEFINE h == [agg[g] EXCEPT !.status = status, !.segments = pairs]
<1> DEFINE now(r) == IF FormAt(r, "submit") THEN proc[r].raced \cup pairs
                     ELSE IF Sent(r) THEN proc[r].raced
                     ELSE proc[r].raced \cup (pairs \cap Asked(proc[r].request))
<1>1. agg[g] \in Reservation
  BY DEF IInv, TypeOK
<1>2. h \in Reservation /\ h.status = status /\ h.segments = pairs /\ h.ends = agg[g].ends /\ h.pins = agg[g].pins
  BY <1>1 DEF Reservation
<1>3. agg' = [agg EXCEPT ![g] = h] /\ UNCHANGED <<sub, started>>
  BY <1>1 DEF Hold, Reservation, IInv, TypeOK
<1> HIDE DEF h
<1>4. ASSUME NEW r \in Procs
      PROVE  /\ proc'[r] \in Process /\ WellFormed(proc'[r])
             /\ proc'[r].step = proc[r].step /\ proc'[r].circuit = proc[r].circuit /\ proc'[r].run = proc[r].run
             /\ proc'[r].released = proc[r].released /\ proc'[r].request = proc[r].request
             /\ proc'[r].in_use = proc[r].in_use /\ proc'[r].raced = now(r)
  <2>1. proc[r] \in Process /\ WellFormed(proc[r])
    BY DEF IInv, TypeOK, ProcessesWellFormed
  <2>2. proc'[r] = [proc[r] EXCEPT !.raced = now(r)]
    BY <2>1 DEF Hold, Process
  <2>3. now(r) \in SUBSET Pairs
    BY <2>1 DEF Process
  <2> HIDE DEF now
  <2>4. /\ proc'[r] \in Process /\ proc'[r].wf = proc[r].wf
        /\ proc'[r].step = proc[r].step /\ proc'[r].circuit = proc[r].circuit /\ proc'[r].run = proc[r].run
        /\ proc'[r].released = proc[r].released /\ proc'[r].request = proc[r].request
        /\ proc'[r].in_use = proc[r].in_use /\ proc'[r].raced = now(r)
    BY <2>1, <2>2, <2>3 DEF Process
  <2>5. proc[r] = Idle => proc'[r] = Idle
    <3>1. proc[r] = Idle => now(r) = {}
      BY NoRequestAsksNothing DEF now, FormAt, Idle
    <3> QED BY <2>2, <3>1 DEF Idle
  <2> QED BY <2>1, <2>4, <2>5 DEF WellFormed
<1>5. proc' \in [Procs -> Process]
  BY <1>4 DEF Hold
<1>6. h.segments \ agg[g].segments = pairs
  BY <1>2 DEF IInv, HeldAsPromised
<1>7. ReservationChange(g, h)
  BY <1>2, <1>3, <1>4, <1>5, <1>6 DEF ReservationChange
<1> QED BY <1>2, <1>7, ReservationStep

LEMMA DecideStep == ASSUME IInv, NEW g \in Id, Decide(g), UNCHANGED started PROVE IInv'
<1>1. CASE /\ agg[g].status = "RESERVING"
           /\ \E path \in Paths(g) : path \cap HeldByOthers(g) = {} /\ Hold(g, "RESERVED", path)
  BY <1>1, PathTyped, HoldStep DEF IInv
<1>2. CASE /\ agg[g].status = "RESERVING"
           /\ \E path \in IF Paths(g) = {} THEN {{}} ELSE Paths(g) : Hold(g, "FAILED", path \ HeldByOthers(g))
  <2>1. PICK path \in IF Paths(g) = {} THEN {{}} ELSE Paths(g) : Hold(g, "FAILED", path \ HeldByOthers(g))
    BY <1>2
  <2>2. path \ HeldByOthers(g) \in SUBSET Pairs
    BY PathTyped DEF IInv
  <2> QED BY <1>2, <2>1, <2>2, HoldStep
<1>3. CASE /\ agg[g].status = "TERMINATING"
           /\ agg' = [agg EXCEPT ![g].status = "TERMINATED", ![g].segments = {}]
           /\ UNCHANGED <<sub, proc>>
  <2> DEFINE h == [agg[g] EXCEPT !.status = "TERMINATED", !.segments = {}]
  <2>1. agg[g] \in Reservation
    BY DEF IInv, TypeOK
  <2>2. /\ h \in Reservation /\ h.status = "TERMINATED" /\ h.segments = {}
        /\ h.ends = agg[g].ends /\ h.pins = agg[g].pins
    BY <2>1 DEF Reservation
  <2>3. agg' = [agg EXCEPT ![g] = h]
    BY <1>3, <2>1 DEF Reservation, IInv, TypeOK
  <2> HIDE DEF h
  <2>4. ReservationChange(g, h)
    BY <1>3, <2>2, <2>3 DEF ReservationChange, IInv, TypeOK, ProcessesWellFormed
  <2> QED BY <2>2, <2>4, ReservationStep
<1> QED BY <1>1, <1>2, <1>3 DEF Decide

LEMMA ReserveConnectionStep == ASSUME IInv, NEW p \in Procs, ReserveConnection(p) PROVE IInv'
<1> USE DEF IInv
<1> DEFINE g == Mine(p).gid
<1> DEFINE sent == [status |-> "RESERVING", ends |-> {Mine(p).request.source, Mine(p).request.destination},
                    pins |-> proc[p].request.pins, segments |-> {}]
<1>1. proc[p].step = "reserve" /\ proc[p].run = "running" /\ Past(p)
  BY DEF ReserveConnection, At, Past
<1>2. PICK c \in Circuits : /\ proc[p].circuit = c /\ Mine(p) = sub[c] /\ sub[c] \in Subscription /\ g \in Id
                            /\ sub[c].request \in Entered /\ sub[c].request = proc[p].request
                            /\ ~sub[c].insync /\ sub[c].state # "none"
  BY <1>1, AtWork DEF Mine, Subscription, StepKnows
<1>3. agg' = IF agg[g].status # "none" THEN agg ELSE [agg EXCEPT ![g] = sent]
  BY DEF ReserveConnection
<1>4. sent \in Reservation
  BY <1>2, EnteredTyped DEF Reservation
<1>5. /\ agg' \in [Id -> Reservation] /\ agg'[g].status # "none"
      /\ \A e \in Id \ {g} : agg'[e] = agg[e]
      /\ agg[g].status # "none" => agg'[g] = agg[g]
      /\ agg[g].status = "none" => agg'[g] = sent
  BY <1>2, <1>3, <1>4 DEF TypeOK
<1>6. PICK q \in Process :
        /\ proc' = [proc EXCEPT ![p] = q]
        /\ q.wf = proc[p].wf /\ q.step = "reserve" /\ q.run \in {"running", "awaiting"} /\ q.circuit = c
        /\ q.released = proc[p].released /\ q.request = proc[p].request
  <2> DEFINE stays == [proc[p] EXCEPT !.raced = {}]
  <2> DEFINE waits == [proc[p] EXCEPT !.run = "awaiting", !.raced = {}]
  <2>1. proc[p] \in Process
    BY DEF TypeOK
  <2>2. stays \in Process /\ waits \in Process
    BY <2>1 DEF Process
  <2>3. /\ stays.wf = proc[p].wf /\ stays.step = "reserve" /\ stays.run = "running" /\ stays.circuit = c
        /\ stays.released = proc[p].released /\ stays.request = proc[p].request
    BY <1>1, <1>2, <2>1 DEF Process
  <2>4. /\ waits.wf = proc[p].wf /\ waits.step = "reserve" /\ waits.run = "awaiting" /\ waits.circuit = c
        /\ waits.released = proc[p].released /\ waits.request = proc[p].request
    BY <1>1, <1>2, <2>1 DEF Process
  <2>5. proc' = [proc EXCEPT ![p] = stays] \/ proc' = [proc EXCEPT ![p] = waits]
    BY <2>1 DEF ReserveConnection, TypeOK, Process
  <2> HIDE DEF stays, waits
  <2> QED BY <2>2, <2>3, <2>4, <2>5
<1>7. PICK new \in Subscription :
        /\ sub' = [sub EXCEPT ![c] = new] /\ new.conn \in {sub[c].conn, g}
        /\ new.state = sub[c].state /\ new.insync = sub[c].insync
        /\ new.gid = g /\ new.request = sub[c].request
  <2> DEFINE stores == [sub[c] EXCEPT !.conn = g]
  <2>1. stores \in Subscription
    BY <1>2 DEF Subscription
  <2>2. /\ stores.conn = g /\ stores.state = sub[c].state /\ stores.insync = sub[c].insync
        /\ stores.gid = sub[c].gid /\ stores.request = sub[c].request
    BY <1>2 DEF Subscription
  <2>3. sub' = [sub EXCEPT ![c] = sub[c]] \/ sub' = [sub EXCEPT ![c] = stores]
    BY <1>2 DEF ReserveConnection, Store, TypeOK
  <2> HIDE DEF stores
  <2> QED BY <1>2, <2>1, <2>2, <2>3
<1>8. g = sub[c].gid
  BY <1>2
<1>9. /\ sent.segments = {} /\ sent.status = "RESERVING" /\ sent.pins = sub[c].request.pins
      /\ sent.ends = {sub[c].request.source, sub[c].request.destination}
  BY <1>2
<1> HIDE DEF g, sent
<1>10. /\ proc'[p] = q /\ \A r \in Procs \ {p} : proc'[r] = proc[r]
       /\ sub'[c] = new /\ \A e \in Circuits \ {c} : sub'[e] = sub[e]
       /\ started' = started
  BY <1>6, <1>7 DEF TypeOK, ReserveConnection
<1>11. \A r \in Procs \ {p} : Past(r) => proc[r].circuit \in Circuits \ {c}
  BY <1>1, <1>2, NobodyElse, PastHasCircuit
<1>12. \A e \in Id : agg'[e].segments \subseteq agg[e].segments
  BY <1>5, <1>9
<1>13. TypeOK'
  BY <1>5, <1>6, <1>7, <1>10 DEF TypeOK, Subscription
<1>14. ProcessesWellFormed'
  <2>1. WellFormed(proc[p]) /\ proc[p] \in Process
    BY DEF ProcessesWellFormed, TypeOK
  <2>2. WellFormed(q)
    BY <1>1, <1>2, <1>6, <2>1 DEF WellFormed, Process
  <2> QED BY <1>10, <2>2 DEF ProcessesWellFormed, WellFormed
<1>15. OneAtWork'
  BY <1>1, <1>2, <1>6, <1>7, <1>10, <1>11 DEF OneAtWork, Past, Mine
<1>16. Subscriptions' /\ GidsDiffer'
  BY <1>2, <1>7, <1>8, <1>10 DEF Subscriptions, GidsDiffer
<1>17. ReservedAsStored'
  <2>1. \A e \in Circuits \ {c} : sub[e].gid # g /\ sub[e].gid \in Id \cup {None}
    BY <1>2, <1>8 DEF GidsDiffer, TypeOK, Id, None
  <2>2. g # None
    BY <1>2 DEF Id, None
  <2>3. /\ agg'[g].ends = {new.request.source, new.request.destination} /\ agg'[g].pins = new.request.pins
        /\ new.conn # None => new.conn = new.gid /\ agg'[new.conn].status # "none"
    BY <1>5, <1>7, <1>8, <1>9, <2>2 DEF ReservedAsStored
  <2> SUFFICES ASSUME NEW e \in Circuits
               PROVE  /\ sub'[e].gid # None =>
                           (agg'[sub'[e].gid].status # "none" =>
                              /\ agg'[sub'[e].gid].ends = {sub'[e].request.source, sub'[e].request.destination}
                              /\ agg'[sub'[e].gid].pins = sub'[e].request.pins)
                      /\ sub'[e].conn # None => sub'[e].conn = sub'[e].gid /\ agg'[sub'[e].conn].status # "none"
    BY DEF ReservedAsStored
  <2>4. CASE e = c
    BY <1>7, <1>10, <2>3, <2>4
  <2>5. CASE e # c
    BY <1>5, <1>10, <2>1, <2>5 DEF ReservedAsStored
  <2> QED BY <2>4, <2>5
<1>18. HeldAsPromised'
  <2>1. \A e \in Id : agg'[e] = agg[e] \/ agg'[e] = sent
    BY <1>5
  <2> QED BY <1>9, <2>1 DEF HeldAsPromised, PinnedSdpVlans
<1>19. StepKnows'
  BY <1>1, <1>2, <1>6, <1>7, <1>10, <1>11 DEF StepKnows, Past, Mine
<1>20. ReleasedIsOwn'
  <2>1. \A r \in Procs : proc[r].released # None => proc[r].circuit \in Circuits /\ proc[r].released \in Id
    BY DEF ProcessesWellFormed, WellFormed, TypeOK, Process
  <2>2. \A e \in Id : agg[e].status = "TERMINATED" => agg'[e].status = "TERMINATED"
    BY <1>5
  <2>3. sub[c].conn # None => new.conn = sub[c].conn
    BY <1>7, <1>8 DEF ReservedAsStored
  <2>4. q.released # None => new.conn = q.released \/ agg[q.released].status = "TERMINATED"
    BY <1>2, <1>6, <2>3 DEF ReleasedIsOwn, Mine
  <2> QED BY <1>6, <1>10, <2>1, <2>2, <2>3, <2>4 DEF ReleasedIsOwn, Mine
<1>21. ListingComplete'
  BY <1>6, <1>10, <1>12 DEF ListingComplete, FormAt
<1>22. FreeButConnection'
  <2>1. Sent(p)'
    BY <1>5, <1>6, <1>7, <1>10 DEF Sent, Mine
  <2>2. \A r \in Procs \ {p} : Sent(r) => Sent(r)'
    <3>1. \A r \in Procs \ {p} : Past(r) => Mine(r).gid \in Id /\ Mine(r)' = Mine(r)
      BY <1>10, <1>11, AtWork DEF Subscription, Mine
    <3> QED BY <1>5, <1>10, <3>1 DEF Sent, Past
  <2>3. sub[c].conn \in Id => new.conn = sub[c].conn
    BY <1>7, <1>8 DEF ReservedAsStored, Id, None
  <2> QED BY <1>10, <1>12, <2>1, <2>2, <2>3 DEF FreeButConnection, Mine
<1> QED BY <1>13, <1>14, <1>15, <1>16, <1>17, <1>18, <1>19, <1>20, <1>21, <1>22

-----------------------------------------------------------------------------
(* The theorems *)

LEMMA InitInvariant == ASSUME Init PROVE IInv
<1>1. /\ sub = [c \in Circuits |-> Unsubscribed] /\ proc = [p \in Procs |-> Idle]
      /\ agg = [g \in Id |-> Unreserved] /\ started = 0
  BY DEF Init
<1>2. TypeOK
  <2>1. Unsubscribed \in Subscription
    BY NoRequestTyped DEF Unsubscribed, Subscription
  <2>2. Unreserved \in Reservation
    <3>1. NoRequest \in Accepted /\ NoRequest.pins = <<>>
      BY DEF Accepted, NoRequest
    <3>2. <<>> \in {r.pins : r \in Accepted}
      BY <3>1
    <3> QED BY <3>2 DEF Unreserved, Reservation
  <2>3. 0 \in 0..MaxStarts
    BY StartsAssumption
  <2> QED BY <1>1, <2>1, <2>2, <2>3, NoRequestTyped DEF TypeOK, Subscription
<1>3. ProcessesWellFormed
  BY <1>1, NoRequestTyped DEF ProcessesWellFormed
<1>4. /\ Idle.step = "none" /\ Idle.run = "idle" /\ Idle.released = None /\ Idle.request = NoRequest
      /\ Unreserved.status = "none" /\ Unreserved.segments = {}
      /\ Unsubscribed.state = "none" /\ Unsubscribed.conn = None /\ Unsubscribed.gid = None
  BY DEF Idle, Unreserved, Unsubscribed
<1>5. OneAtWork /\ Subscriptions /\ GidsDiffer /\ ReservedAsStored
  BY <1>1, <1>4 DEF OneAtWork, Subscriptions, GidsDiffer, ReservedAsStored, Past, Mine
<1>6. HeldAsPromised /\ StepKnows /\ ReleasedIsOwn /\ ListingComplete
  BY <1>1, <1>4 DEF HeldAsPromised, StepKnows, ReleasedIsOwn, ListingComplete, FormAt
<1>7. FreeButConnection
  BY <1>1, <1>4 DEF FreeButConnection
<1> QED BY <1>2, <1>3, <1>5, <1>6, <1>7 DEF IInv

LEMMA StutterStep == ASSUME IInv, UNCHANGED vars PROVE IInv'
<1> USE DEF IInv, vars
<1>1. TypeOK' /\ ProcessesWellFormed' /\ OneAtWork' /\ Subscriptions' /\ GidsDiffer' /\ ReservedAsStored'
  BY DEF TypeOK, ProcessesWellFormed, WellFormed, OneAtWork, Past, Mine, Subscriptions, GidsDiffer, ReservedAsStored
<1>2. HeldAsPromised' /\ StepKnows' /\ ReleasedIsOwn' /\ ListingComplete'
  BY DEF HeldAsPromised, PinnedSdpVlans, StepKnows, ReleasedIsOwn, ListingComplete, FormAt, Mine
<1>3. FreeButConnection'
  BY DEF FreeButConnection, Sent, Mine
<1> QED BY <1>1, <1>2, <1>3

LEMMA NextInvariant == ASSUME IInv, [Next]_vars PROVE IInv'
<1>1. ASSUME NEW p \in Procs, FormStep(p) PROVE IInv'
  <2>1. CASE OpenCreateForm(p)
    BY <2>1, OpenCreateFormStep
  <2>2. CASE ListReservations(p)
    BY <2>2, ListReservationsStep
  <2>3. CASE FormRefused(p)
    BY <2>3, ProcessEnds DEF FormRefused
  <2>4. CASE SubmitForm(p)
    BY <2>4, SubmitFormStep
  <2>5. CASE \E c \in Circuits : OpenRetryForm(p, c)
    BY <2>5, OpenRetryFormStep
  <2>6. CASE \E c \in Circuits : SubmitTerminate(p, c)
    BY <2>6, SubmitTerminateStep
  <2> QED BY <1>1, <2>1, <2>2, <2>3, <2>4, <2>5, <2>6 DEF FormStep
<1>2. ASSUME NEW p \in Procs, Work(p) PROVE IInv'
  <2>1. CASE Construct(p) \/ Lock(p)
    BY <2>1, ConstructStep, LockStep
  <2>2. CASE TerminateConnection(p) \/ ProcessTerminateResult(p) \/ DropConnection(p)
    BY <2>2, TerminateConnectionStep, ProcessTerminateResultStep, DropConnectionStep
  <2>3. CASE UpdateSubscription(p) \/ ReserveConnection(p) \/ ProcessReservationResult(p)
    BY <2>3, UpdateSubscriptionStep, ReserveConnectionStep, ProcessReservationResultStep
  <2>4. CASE Resync(p)
    BY <2>4, ResyncStep
  <2> QED BY <1>2, <2>1, <2>2, <2>3, <2>4 DEF Work
<1>3. ASSUME NEW p \in Procs, Timeout(p) \/ Abort(p) PROVE IInv'
  BY <1>3, TimeoutStep, ProcessEnds DEF Abort
<1>4. ASSUME NEW c \in Circuits, SetInSync(c) PROVE IInv'
  BY <1>4, SetInSyncStep
<1>5. ASSUME NEW g \in Id, Decide(g), UNCHANGED started PROVE IInv'
  BY <1>5, DecideStep
<1>6. CASE UNCHANGED vars
  BY <1>6, StutterStep
<1> QED BY <1>1, <1>2, <1>3, <1>4, <1>5, <1>6 DEF Next

\* The inductive invariant holds in every reachable state.
THEOREM VlanInvariance == Spec => []IInv
<1>1. Init => IInv
  BY InitInvariant
<1>2. IInv /\ [Next]_vars => IInv'
  BY NextInvariant
<1> QED BY <1>1, <1>2, PTL DEF Spec

\* Every variable keeps its type: ids and states stay within what the code stores.
THEOREM VlansTyped == Spec => []TypeOK
<1>1. IInv => TypeOK
  BY DEF IInv
<1> QED BY <1>1, VlanInvariance, PTL

\* A form accepts no VLAN that another circuit was holding when it listed the
\* reservations, for any number of circuits and forms (forms.py, vlans.py).
THEOREM AcceptedWasFree == Spec => []FreeWhenListed
<1>1. ASSUME IInv PROVE FreeWhenListed
  <2> SUFFICES ASSUME NEW p \in Procs, ~Sent(p), NEW g \in Id \ OwnReservations(p)
               PROVE  agg[g].segments \cap Asked(proc[p].request) \subseteq proc[p].raced
    BY DEF FreeWhenListed
  <2>1. proc[p].circuit \in Circuits => g # Mine(p).conn
    BY NamesAssumption DEF OwnReservations
  <2> QED BY <1>1, <2>1 DEF IInv, FreeButConnection
<1> QED BY <1>1, VlanInvariance, PTL

\* A stored connection id is of a reservation for the ends and the pinned VLANs that
\* the subscription stores (retry_reservation.py, create_mdp2p.py).
THEOREM ConnectionMatches == Spec => []ConnectionIsForStored
<1>1. ASSUME IInv PROVE ConnectionIsForStored
  <2> SUFFICES ASSUME NEW c \in Circuits, sub[c].conn # None
               PROVE  ReservationMatches(c)
    BY DEF ConnectionIsForStored
  <2> DEFINE g == sub[c].conn
  <2>1. g = sub[c].gid /\ g \in Id /\ agg[g].status # "none"
    BY <1>1 DEF IInv, TypeOK, ReservedAsStored
  <2>2. /\ agg[g].ends = {sub[c].request.source, sub[c].request.destination}
        /\ agg[g].pins = sub[c].request.pins
    BY <1>1, <2>1 DEF IInv, ReservedAsStored
  <2>3. agg[g].status = "RESERVED" => PinnedSdpVlans(sub[c].request.pins) \subseteq ReservationHeldVlans(g)
    BY <1>1, <2>1, <2>2 DEF IInv, HeldAsPromised, ReservationHeldVlans
  <2> QED BY <2>1, <2>2, <2>3 DEF ReservationMatches
<1> QED BY <1>1, VlanInvariance, PTL

\* Only the listing takes a form from its first to its last part.
LEMMA OnlyListing ==
  ASSUME IInv, [Next]_vars, NEW p \in Procs, FormAt(p, "list"), FormAt(p, "submit")'
  PROVE  ListReservations(p)
<1>1. proc \in [Procs -> Process] /\ proc[p].run = "form" /\ proc[p].step = "list" /\ proc'[p].step = "submit"
  BY DEF IInv, TypeOK, FormAt
<1>2. ASSUME NEW q \in Procs, FormStep(q) PROVE ListReservations(p)
  <2>1. CASE OpenCreateForm(q) \/ \E c \in Circuits : OpenRetryForm(q, c) \/ SubmitTerminate(q, c)
    BY <1>1, <2>1 DEF OpenCreateForm, OpenRetryForm, SubmitTerminate, Unfinished
  <2>2. CASE ListReservations(q)
    BY <1>1, <2>2 DEF ListReservations
  <2>3. CASE FormRefused(q)
    BY <1>1, <2>3 DEF FormRefused, Idle
  <2>4. CASE SubmitForm(q)
    BY <1>1, <2>4 DEF SubmitForm, FormAt
  <2> QED BY <1>2, <2>1, <2>2, <2>3, <2>4 DEF FormStep
<1>3. ASSUME NEW q \in Procs, Work(q) PROVE FALSE
  <2>1. \E new : proc' = [proc EXCEPT ![q] = new] \/ proc' = proc
    <3>1. CASE Construct(q) \/ TerminateConnection(q) \/ ReserveConnection(q) \/ Resync(q)
      BY <3>1 DEF Construct, TerminateConnection, Await, ReserveConnection, Resync
    <3>2. CASE Lock(q) \/ ProcessTerminateResult(q) \/ DropConnection(q) \/ UpdateSubscription(q)
                 \/ ProcessReservationResult(q)
      BY <3>2 DEF Lock, ProcessTerminateResult, DropConnection, UpdateSubscription, ProcessReservationResult, Goto
    <3> QED BY <1>3, <3>1, <3>2 DEF Work
  <2>2. q # p
    BY <1>1, <1>3 DEF Work, Construct, Lock, TerminateConnection, ProcessTerminateResult, DropConnection,
          UpdateSubscription, ReserveConnection, ProcessReservationResult, Resync, At, Result
  <2> QED BY <1>1, <2>1, <2>2
<1>4. ASSUME NEW q \in Procs, Timeout(q) \/ Abort(q) PROVE FALSE
  BY <1>1, <1>4 DEF Timeout, Abort, Goto
<1>5. ASSUME NEW c \in Circuits, SetInSync(c) PROVE FALSE
  BY <1>1, <1>5 DEF SetInSync
<1>6. ASSUME NEW g \in Id, Decide(g) PROVE FALSE
  <2>1. CASE UNCHANGED proc
    BY <1>1, <2>1
  <2>2. CASE \E status, pairs : Hold(g, status, pairs)
    BY <1>1, <2>2 DEF Hold, Process
  <2> QED BY <1>6, <2>1, <2>2 DEF Decide
<1>7. CASE UNCHANGED vars
  BY <1>1, <1>7 DEF vars
<1> QED BY <1>2, <1>3, <1>4, <1>5, <1>6, <1>7 DEF Next

\* A retry is offered the VLANs that its circuit stores, unless another reservation
\* holds them (retry_reservation.py, the released connection).
THEOREM OwnVlansOffered == Spec => OwnVlansAreOffered
<1>1. ASSUME IInv, [Next]_vars, NEW p \in Procs, FormAt(p, "list"), FormAt(p, "submit")',
             Mine(p).conn = proc[p].released, NEW pair \in proc'[p].in_use
      PROVE  \E g \in Id \ OwnReservations(p) : pair \in ReservationHeldVlans(g)
  <2>1. ListReservations(p)
    BY <1>1, OnlyListing
  <2>2. proc[p] \in Process /\ WellFormed(proc[p]) /\ proc[p].run = "form" /\ proc[p].step = "list"
    BY <1>1 DEF IInv, TypeOK, ProcessesWellFormed, FormAt
  <2>3. proc'[p].in_use = VlansInUse(proc[p].released)
    BY <1>1, <2>1, <2>2 DEF ListReservations, IInv, TypeOK, Process
  <2>4. PICK g \in HeldReservations \ {proc[p].released} : pair \in ReservationHeldVlans(g)
    BY <1>1, <2>3 DEF VlansInUse
  <2>5. proc[p].released # None /\ proc[p].circuit \in Circuits
    BY <2>2 DEF WellFormed, Process
  <2>6. Mine(p).conn = Mine(p).gid
    BY <1>1, <2>5 DEF IInv, ReservedAsStored, Mine
  <2>7. g \in Id \ OwnReservations(p)
    BY <1>1, <2>4, <2>6 DEF HeldReservations, OwnReservations
  <2> QED BY <2>4, <2>7
<1> DEFINE Offers == \A p \in Procs :
             FormAt(p, "list") /\ FormAt(p, "submit")' /\ Mine(p).conn = proc[p].released =>
               \A pair \in proc'[p].in_use \cap Asked(Mine(p).request) :
                 \E g \in Id \ OwnReservations(p) : pair \in ReservationHeldVlans(g)
<1>2. IInv /\ [Next]_vars => [Offers]_vars
  BY <1>1
<1> QED BY <1>2, VlanInvariance, PTL DEF Spec, OwnVlansAreOffered

\* Only a retry gives up a global reservation id.
LEMMA OnlyRetryRenames ==
  ASSUME IInv, [Next]_vars, NEW c \in Circuits, sub[c].gid # None, sub'[c].gid # sub[c].gid
  PROVE  \E p \in Procs : UpdateSubscription(p) /\ proc[p].circuit = c
<1>1. sub \in [Circuits -> Subscription] /\ sub[c].state # "none"
  BY DEF IInv, TypeOK, Subscription, Subscriptions, Unsubscribed
<1>2. sub' # sub
  OBVIOUS
<1>3. ASSUME NEW p \in Procs, FormStep(p) \/ Timeout(p) \/ Abort(p)
      PROVE  FALSE
  BY <1>2, <1>3 DEF FormStep, OpenCreateForm, ListReservations, FormRefused, SubmitForm, OpenRetryForm,
        SubmitTerminate, Timeout, Abort
<1>4. ASSUME NEW p \in Procs, Work(p)
      PROVE  UpdateSubscription(p) /\ proc[p].circuit = c
  <2>1. CASE Construct(p)
    <3>1. PICK e \in Circuits, g \in Id :
            /\ sub[e].state = "none"
            /\ sub' = [sub EXCEPT ![e] = [sub[e] EXCEPT !.state = "CREATED", !.gid = g, !.request = proc[p].request]]
      BY <2>1 DEF Construct
    <3>2. e # c
      BY <1>1, <3>1
    <3> QED BY <1>1, <3>1, <3>2
  <2>2. CASE TerminateConnection(p)
    BY <1>2, <2>2 DEF TerminateConnection
  <2>3. ASSUME NEW new, Store(p, new), new.gid = Mine(p).gid \/ proc[p].circuit # c
        PROVE  FALSE
    BY <1>1, <2>3 DEF Store, Mine
  <2>4. CASE ~TerminateConnection(p) /\ ~Construct(p) /\ proc[p].circuit # c
    <3>1. sub' = sub \/ \E new : Store(p, new)
      BY <1>4, <2>4 DEF Work, Lock, ProcessTerminateResult, DropConnection, UpdateSubscription, ReserveConnection,
            ProcessReservationResult, Resync
    <3> QED BY <1>2, <2>3, <2>4, <3>1
  <2>5. CASE ~TerminateConnection(p) /\ ~Construct(p) /\ ~UpdateSubscription(p) /\ proc[p].circuit = c
    <3>1. Mine(p) \in Subscription
      BY <1>1, <2>5 DEF Mine
    <3>2. ASSUME NEW x PROVE
            /\ [Mine(p) EXCEPT !.insync = x].gid = Mine(p).gid
            /\ [Mine(p) EXCEPT !.state = x].gid = Mine(p).gid
            /\ [Mine(p) EXCEPT !.conn = x].gid = Mine(p).gid
      BY <3>1 DEF Subscription
    <3>3. CASE Lock(p) \/ Resync(p)
      BY <2>3, <3>2, <3>3 DEF Lock, Resync
    <3>4. CASE ProcessTerminateResult(p) \/ ProcessReservationResult(p)
      <4>1. PICK state : Store(p, [Mine(p) EXCEPT !.state = state])
        BY <3>4 DEF ProcessTerminateResult, ProcessReservationResult
      <4> QED BY <2>3, <3>2, <4>1
    <3>5. CASE DropConnection(p)
      BY <2>3, <3>2, <3>5 DEF DropConnection
    <3>6. CASE ReserveConnection(p)
      <4>1. sub' = sub \/ \E x : Store(p, [Mine(p) EXCEPT !.conn = x])
        BY <3>6 DEF ReserveConnection
      <4> QED BY <1>2, <2>3, <3>2, <4>1
    <3> QED BY <1>4, <2>5, <3>3, <3>4, <3>5, <3>6 DEF Work
  <2> QED BY <2>1, <2>2, <2>4, <2>5
<1>5. ASSUME NEW e \in Circuits, SetInSync(e)
      PROVE  FALSE
  <2>1. PICK e1 \in Circuits : sub' = [sub EXCEPT ![e1].insync = TRUE]
    BY <1>5 DEF SetInSync
  <2>2. sub[e1] \in Subscription /\ sub'[c] = IF c = e1 THEN [sub[c] EXCEPT !.insync = TRUE] ELSE sub[c]
    BY <1>1, <2>1
  <2> QED BY <1>1, <2>2 DEF Subscription
<1>6. ASSUME NEW g \in Id, Decide(g)
      PROVE  FALSE
  BY <1>2, <1>6 DEF Decide, Hold
<1>7. ~UNCHANGED vars
  BY <1>2 DEF vars
<1> QED BY <1>3, <1>4, <1>5, <1>6, <1>7 DEF Next

\* Whatever the order of forms, retries, lost answers and aborts, a circuit gives up the
\* id of a reservation that holds VLANs only where the form of a retry read a connection
\* that another retry has terminated since: a retry whose form read the connection of the
\* id, or found the circuit as it is, tears down first (retry_reservation.py).
THEOREM OnlyStaleFormsLeaveBehind == Spec => LeftBehindOnlyByStaleForms
<1>1. ASSUME IInv, [Next]_vars, NEW c \in Circuits,
             sub[c].gid \in HeldReservations, sub'[c].gid # sub[c].gid
      PROVE  \E p \in Procs :
               /\ proc[p].circuit = c /\ proc[p].wf = "retry" /\ At(p, "update")
               /\ proc[p].released # sub[c].gid /\ agg[proc[p].released].status = "TERMINATED"
  <2>1. sub[c].gid # None /\ agg[sub[c].gid].status # "TERMINATED"
    BY <1>1 DEF HeldReservations, Id, None
  <2>2. PICK p \in Procs : UpdateSubscription(p) /\ proc[p].circuit = c
    BY <1>1, <2>1, OnlyRetryRenames
  <2>3. At(p, "update") /\ proc[p].step = "update"
    BY <2>2 DEF UpdateSubscription, At
  <2>4. proc[p] \in Process /\ WellFormed(proc[p])
    BY <1>1 DEF IInv, TypeOK, ProcessesWellFormed
  <2>5. proc[p].wf = "retry" /\ proc[p].released # None
    BY <2>3, <2>4 DEF WellFormed, Process
  <2>6. Mine(p).conn = None
    BY <1>1, <2>3 DEF IInv, StepKnows
  <2>7. agg[proc[p].released].status = "TERMINATED"
    BY <1>1, <2>5, <2>6 DEF IInv, ReleasedIsOwn
  <2> QED BY <2>1, <2>2, <2>3, <2>5, <2>7
<1> DEFINE Left == \A c \in Circuits :
             LET g == sub[c].gid IN
               g \in HeldReservations /\ sub'[c].gid # g =>
                 \E p \in Procs :
                   /\ proc[p].circuit = c /\ proc[p].wf = "retry" /\ At(p, "update")
                   /\ proc[p].released # g /\ agg[proc[p].released].status = "TERMINATED"
<1>2. IInv /\ [Next]_vars => [Left]_vars
  BY <1>1
<1> QED BY <1>2, VlanInvariance, PTL DEF Spec, LeftBehindOnlyByStaleForms

-----------------------------------------------------------------------------
(* The refinement of SubscriptionLock: what each step does to the lock *)

HeldIn(f, c) == {p \in Procs : f[p].step \in {"terminate", "update", "reserve", "resync"} /\ f[p].circuit = c}
KeptOf(s) == IF s.state = "none" THEN {} ELSE {[s EXCEPT !.insync = FALSE]}

Untouched(c) == HeldIn(proc', c) = HeldIn(proc, c) /\ sub'[c].insync = sub[c].insync /\ KeptOf(sub'[c]) = KeptOf(sub[c])

\* A step that touches neither holders nor what is stored is none of the lock.
LEMMA NoneTouched ==
  ASSUME \A c \in Circuits : Untouched(c)
  PROVE  UNCHANGED Locking!lockVars
BY DEF Untouched, HeldIn, KeptOf, Past, Locking!lockVars

\* A step about one circuit touches no other, and is a step of the lock if it is one of
\* that circuit's.
LEMMA OnlyOne ==
  ASSUME NEW c \in Circuits, \A e \in Circuits \ {c} : Untouched(e)
  PROVE  Locking!Only(c)
<1> DEFINE Held == [e \in Circuits |-> HeldIn(proc, e)]
           InSync == [e \in Circuits |-> sub[e].insync]
           Stores == [e \in Circuits |-> KeptOf(sub[e])]
<1>1. Held' = [Held EXCEPT ![c] = Held'[c]]
  BY DEF Untouched
<1>2. InSync' = [InSync EXCEPT ![c] = InSync'[c]]
  BY DEF Untouched
<1>3. Stores' = [Stores EXCEPT ![c] = Stores'[c]]
  BY DEF Untouched
<1> QED BY <1>1, <1>2, <1>3 DEF Locking!Only, HeldIn, KeptOf, Past

\* The steps of the lock that a process takes: making, taking, changing, giving back.
LEMMA OneTouched ==
  ASSUME NEW c \in Circuits, \A e \in Circuits \ {c} : Untouched(e), NEW p \in Procs,
         \/ /\ KeptOf(sub[c]) = {} /\ KeptOf(sub'[c]) # {} /\ HeldIn(proc, c) = {} /\ HeldIn(proc', c) = {p}
            /\ ~sub[c].insync /\ ~sub'[c].insync
         \/ /\ KeptOf(sub'[c]) = KeptOf(sub[c]) /\ HeldIn(proc, c) = {} /\ HeldIn(proc', c) = {p}
            /\ sub[c].insync /\ ~sub'[c].insync
         \/ /\ KeptOf(sub'[c]) \notin {{}, KeptOf(sub[c])} /\ HeldIn(proc, c) = {p} /\ HeldIn(proc', c) = {p}
            /\ ~sub[c].insync /\ ~sub'[c].insync
         \/ /\ KeptOf(sub'[c]) = KeptOf(sub[c]) /\ HeldIn(proc, c) = {p} /\ HeldIn(proc', c) = {}
            /\ ~sub[c].insync /\ sub'[c].insync \in BOOLEAN
  PROVE  Locking!LockNext
<1>1. \/ Locking!Make(c) \/ Locking!Take(c) \/ Locking!Change(c)
      \/ Locking!Complete(c) \/ Locking!Abandon(c)
  BY DEF HeldIn, KeptOf, Past, Locking!Make, Locking!Take, Locking!Change, Locking!Complete, Locking!Abandon,
         Locking!Free, Locking!Held
<1> QED BY <1>1, OnlyOne DEF Locking!LockNext

\* Slots stay on their side of the lock.
LEMMA SlotsStay ==
  ASSUME UNCHANGED sub,
         \A r \in Procs : Past(r)' = Past(r) /\ (Past(r) => proc'[r].circuit = proc[r].circuit)
  PROVE  UNCHANGED Locking!lockVars
<1>1. \A c \in Circuits : Untouched(c)
  BY DEF Untouched, HeldIn, KeptOf, Past
<1> QED BY <1>1, NoneTouched

\* Who is past the lock has the circuit for itself.
LEMMA HeldByOne ==
  ASSUME IInv, NEW p \in Procs, Past(p)
  PROVE  HeldIn(proc, proc[p].circuit) = {p}
BY DEF IInv, OneAtWork, HeldIn, Past

\* A step under the lock.
LEMMA WrittenByHolder ==
  ASSUME IInv, NEW p \in Procs, NEW q \in Process, NEW new \in Subscription, Past(p),
         proc' = [proc EXCEPT ![p] = q], sub' = [sub EXCEPT ![proc[p].circuit] = new],
         q.step \in {"terminate", "update", "reserve", "resync"}, q.circuit = proc[p].circuit,
         ~new.insync, new.state # "none"
  PROVE  [Locking!LockNext]_Locking!lockVars
<1>1. PICK c \in Circuits : c = proc[p].circuit /\ ~sub[c].insync /\ sub[c].state # "none"
  BY AtWork DEF Mine
<1>2. HeldIn(proc, c) = {p}
  BY <1>1, HeldByOne
<1>3. /\ sub'[c] = new /\ sub[c] \in Subscription /\ proc'[p] = q
      /\ \A e \in Circuits \ {c} : sub'[e] = sub[e]
      /\ \A r \in Procs \ {p} : proc'[r] = proc[r]
  <2>1. sub' = [sub EXCEPT ![c] = new]
    BY <1>1
  <2> QED BY <2>1 DEF IInv, TypeOK, Subscription
<1>4. \A e \in Circuits : HeldIn(proc', e) = HeldIn(proc, e)
  BY <1>1, <1>3 DEF HeldIn, Past
<1>5. KeptOf(sub'[c]) # {}
  BY <1>3 DEF KeptOf
<1>6. CASE KeptOf(sub'[c]) = KeptOf(sub[c])
  <2>1. \A e \in Circuits : Untouched(e)
    BY <1>1, <1>3, <1>4, <1>6 DEF Untouched, Subscription
  <2> QED BY <2>1, NoneTouched
<1>7. CASE KeptOf(sub'[c]) # KeptOf(sub[c])
  <2>1. \A e \in Circuits \ {c} : Untouched(e)
    BY <1>3, <1>4 DEF Untouched
  <2>2. HeldIn(proc', c) = {p} /\ KeptOf(sub'[c]) \notin {{}, KeptOf(sub[c])} /\ ~sub'[c].insync
    BY <1>1, <1>2, <1>3, <1>4, <1>5, <1>7
  <2> QED BY <1>1, <1>2, <2>1, <2>2, OneTouched
<1> QED BY <1>6, <1>7

LEMMA GotoByHolder ==
  ASSUME IInv, NEW p \in Procs, NEW new \in Subscription, Past(p),
         NEW s \in {"terminate", "update", "reserve", "resync"},
         Goto(p, s), Store(p, new), ~new.insync, new.state # "none"
  PROVE  [Locking!LockNext]_Locking!lockVars
<1>1. PICK q \in Process :
        /\ proc' = [proc EXCEPT ![p] = q]
        /\ q.wf = proc[p].wf /\ q.step = s /\ q.run = "running" /\ q.circuit = proc[p].circuit
        /\ q.released = proc[p].released /\ q.request = proc[p].request /\ q.raced = proc[p].raced
  BY GotoIs DEF IInv, Steps
<1> QED BY <1>1, WrittenByHolder DEF Store

\* Slots that keep their step and circuit, or change before the lock.
LEMMA SlotStays ==
  ASSUME IInv, NEW p \in Procs, NEW q \in Process, proc' = [proc EXCEPT ![p] = q], UNCHANGED sub,
         \/ q.step = proc[p].step /\ q.circuit = proc[p].circuit
         \/ ~Past(p) /\ q.step \notin {"terminate", "update", "reserve", "resync"}
  PROVE  UNCHANGED Locking!lockVars
<1>1. proc'[p] = q /\ \A r \in Procs \ {p} : proc'[r] = proc[r]
  BY DEF IInv, TypeOK
<1>2. \A r \in Procs : Past(r)' = Past(r) /\ (Past(r) => proc'[r].circuit = proc[r].circuit)
  BY <1>1 DEF Past
<1> QED BY <1>2, SlotsStay

\* A form changes no subscription and holds none.
LEMMA FormOffTheLock == ASSUME IInv, IInv', NEW p \in Procs, FormStep(p) PROVE UNCHANGED Locking!lockVars
<1>1. proc[p] \in Process /\ WellFormed(proc[p]) /\ proc'[p] \in Process
  BY DEF IInv, TypeOK, ProcessesWellFormed
<1>2. proc[p].run \in {"idle", "form"} /\ UNCHANGED sub
  BY <1>1 DEF FormStep, OpenCreateForm, ListReservations, FormRefused, SubmitForm, OpenRetryForm,
              SubmitTerminate, Unfinished, FormAt
<1>3. ~Past(p)
  BY <1>1, <1>2 DEF WellFormed, Past, Idle
<1>4. ASSUME NEW q, proc' = [proc EXCEPT ![p] = q], q.step \in {"none", "list", "submit", "construct", "lock"}
      PROVE  UNCHANGED Locking!lockVars
  <2>1. q \in Process
    BY <1>4 DEF IInv, TypeOK
  <2> QED BY <1>2, <1>3, <1>4, <2>1, SlotStays
<1>5. CASE OpenCreateForm(p)
  <2> DEFINE q == [Idle EXCEPT !.wf = "create", !.step = "submit", !.run = "form", !.in_use = VlansInUse(None)]
  <2>1. proc' = [proc EXCEPT ![p] = q] /\ q.step = "submit"
    BY <1>5 DEF OpenCreateForm, Idle
  <2> HIDE DEF q
  <2> QED BY <1>4, <2>1
<1>6. ASSUME NEW c \in Circuits, OpenRetryForm(p, c) \/ SubmitTerminate(p, c)
      PROVE  UNCHANGED Locking!lockVars
  <2>1. PICK q : proc' = [proc EXCEPT ![p] = q] /\ q.step \in {"list", "lock"}
    <3>1. CASE OpenRetryForm(p, c)
      <4> DEFINE q == [Idle EXCEPT !.wf = "retry", !.step = "list", !.run = "form", !.circuit = c, !.released = sub[c].conn]
      <4>1. proc' = [proc EXCEPT ![p] = q] /\ q.step = "list"
        BY <3>1 DEF OpenRetryForm, Idle
      <4> HIDE DEF q
      <4> QED BY <4>1
    <3>2. CASE SubmitTerminate(p, c)
      <4> DEFINE q == [Idle EXCEPT !.wf = "terminate", !.step = "lock", !.run = "running", !.circuit = c]
      <4>1. proc' = [proc EXCEPT ![p] = q] /\ q.step = "lock"
        BY <3>2 DEF SubmitTerminate, Idle
      <4> HIDE DEF q
      <4> QED BY <4>1
    <3> QED BY <1>6, <3>1, <3>2
  <2> QED BY <1>4, <2>1
<1>7. CASE ListReservations(p)
  <2> DEFINE q == [proc[p] EXCEPT !.step = "submit", !.in_use = VlansInUse(proc[p].released)]
  <2>1. proc' = [proc EXCEPT ![p] = q] /\ q.step = "submit"
    BY <1>1, <1>7 DEF ListReservations, Process
  <2> HIDE DEF q
  <2> QED BY <1>4, <2>1
<1>8. CASE FormRefused(p)
  <2>1. proc' = [proc EXCEPT ![p] = Idle] /\ Idle.step = "none"
    BY <1>8 DEF FormRefused, Idle
  <2> QED BY <1>4, <2>1
<1>9. CASE SubmitForm(p)
  <2>1. PICK r \in Requests :
          proc' = [proc EXCEPT ![p] =
            [proc[p] EXCEPT !.step = IF proc[p].wf = "create" THEN "construct" ELSE "lock", !.run = "running",
                      !.in_use = {}, !.raced = proc[p].raced \cap Asked(r), !.request = Stored(r)]]
    BY <1>9 DEF SubmitForm
  <2> DEFINE q == [proc[p] EXCEPT !.step = IF proc[p].wf = "create" THEN "construct" ELSE "lock", !.run = "running",
                      !.in_use = {}, !.raced = proc[p].raced \cap Asked(r), !.request = Stored(r)]
  <2>2. proc' = [proc EXCEPT ![p] = q] /\ q.step \in {"construct", "lock"}
    BY <1>1, <2>1 DEF Process
  <2> HIDE DEF q
  <2> QED BY <1>4, <2>2
<1> QED BY <1>5, <1>6, <1>7, <1>8, <1>9 DEF FormStep

\* Create makes the subscription and works on it from then on.
LEMMA ConstructMakes == ASSUME IInv, IInv', NEW p \in Procs, Construct(p) PROVE Locking!LockNext
<1>1. PICK c \in Circuits, g \in Id :
        /\ sub[c].state = "none"
        /\ sub' = [sub EXCEPT ![c] = [sub[c] EXCEPT !.state = "CREATED", !.gid = g, !.request = proc[p].request]]
        /\ proc' = [proc EXCEPT ![p] = [proc[p] EXCEPT !.step = "reserve", !.circuit = c]]
  BY DEF Construct
<1>2. sub[c] \in Subscription /\ sub'[c] \in Subscription /\ proc[p] \in Process /\ proc'[p] \in Process
  BY DEF IInv, TypeOK, Subscription
<1>3. /\ sub[c] = Unsubscribed /\ sub'[c] = [sub[c] EXCEPT !.state = "CREATED", !.gid = g, !.request = proc[p].request]
      /\ proc'[p] = [proc[p] EXCEPT !.step = "reserve", !.circuit = c]
  BY <1>1 DEF IInv, TypeOK, Subscriptions
<1>4. ~sub[c].insync /\ ~sub'[c].insync /\ sub'[c].state = "CREATED"
  BY <1>2, <1>3 DEF Unsubscribed, Subscription
<1>5. proc'[p].step = "reserve" /\ proc'[p].circuit = c
  BY <1>2, <1>3 DEF Process
<1>6. /\ \A e \in Circuits \ {c} : sub'[e] = sub[e]
      /\ \A r \in Procs \ {p} : proc'[r] = proc[r]
  BY <1>1, <1>2, <1>3 DEF IInv, TypeOK, Subscription
<1>7. HeldIn(proc, c) = {}
  BY <1>1 DEF IInv, OneAtWork, HeldIn, Mine, Past
<1>8. ~Past(p)
  BY <1>2 DEF Construct, At, Past
<1>9. HeldIn(proc', c) = {p} /\ \A e \in Circuits \ {c} : HeldIn(proc', e) = HeldIn(proc, e)
  BY <1>5, <1>6, <1>7, <1>8 DEF HeldIn, Past
<1>10. KeptOf(sub[c]) = {} /\ KeptOf(sub'[c]) # {}
  BY <1>1, <1>4 DEF KeptOf
<1>11. \A e \in Circuits \ {c} : Untouched(e)
  BY <1>6, <1>9 DEF Untouched
<1> QED BY <1>4, <1>7, <1>9, <1>10, <1>11, OneTouched

\* The lock step finds the subscription in sync, so nobody else is past the lock.
LEMMA LockTakes == ASSUME IInv, IInv', NEW p \in Procs, Lock(p) PROVE Locking!LockNext
<1>1. proc[p].step = "lock" /\ Mine(p).insync /\ proc[p] \in Process /\ WellFormed(proc[p])
  BY DEF Lock, At, IInv, TypeOK, ProcessesWellFormed
<1>2. PICK c \in Circuits : c = proc[p].circuit
  BY <1>1 DEF WellFormed, Process
<1> DEFINE new == [sub[c] EXCEPT !.insync = FALSE]
<1>3. sub[c] \in Subscription /\ sub[c].insync /\ sub' = [sub EXCEPT ![c] = new]
  BY <1>1, <1>2 DEF IInv, TypeOK, Subscription, Lock, Store, Mine
<1>4. PICK s \in {"update", "resync", "terminate"} : Goto(p, s)
  BY DEF Lock
<1>5. PICK q \in Process :
        /\ proc' = [proc EXCEPT ![p] = q]
        /\ q.wf = proc[p].wf /\ q.step = s /\ q.run = "running" /\ q.circuit = proc[p].circuit
        /\ q.released = proc[p].released /\ q.request = proc[p].request /\ q.raced = proc[p].raced
  BY <1>4, GotoIs DEF IInv, Steps
<1>6. new \in Subscription /\ ~new.insync /\ new.state = sub[c].state /\ [new EXCEPT !.insync = FALSE] = new
  BY <1>3 DEF Subscription
<1> HIDE DEF new
<1>7. /\ sub'[c] = new /\ proc'[p] = q
      /\ \A e \in Circuits \ {c} : sub'[e] = sub[e]
      /\ \A r \in Procs \ {p} : proc'[r] = proc[r]
  BY <1>3, <1>5, <1>6 DEF IInv, TypeOK, Subscription
<1>8. HeldIn(proc, c) = {} /\ ~Past(p)
  BY <1>1, <1>2 DEF IInv, OneAtWork, HeldIn, Mine, Past
<1>9. HeldIn(proc', c) = {p} /\ \A e \in Circuits \ {c} : HeldIn(proc', e) = HeldIn(proc, e)
  BY <1>2, <1>5, <1>7, <1>8 DEF HeldIn, Past
<1>10. KeptOf(sub'[c]) = KeptOf(sub[c])
  BY <1>6, <1>7 DEF KeptOf, new
<1>11. \A e \in Circuits \ {c} : Untouched(e)
  BY <1>7, <1>9 DEF Untouched
<1> QED BY <1>3, <1>6, <1>7, <1>8, <1>9, <1>10, <1>11, OneTouched

\* A step past the lock, the last one apart.
LEMMA WorkUnderLock ==
  ASSUME IInv, NEW p \in Procs,
         \/ TerminateConnection(p) \/ ProcessTerminateResult(p) \/ DropConnection(p)
         \/ UpdateSubscription(p) \/ ProcessReservationResult(p)
  PROVE  [Locking!LockNext]_Locking!lockVars
<1>1. Past(p)
  BY DEF TerminateConnection, ProcessTerminateResult, DropConnection, UpdateSubscription,
         ProcessReservationResult, Result, At, Past
<1>2. Mine(p) \in Subscription /\ ~Mine(p).insync /\ Mine(p).state # "none"
  BY <1>1, AtWork
<1>3. CASE TerminateConnection(p)
  <2>1. \A r \in Procs : Past(r)' = Past(r) /\ proc'[r].circuit = proc[r].circuit
    BY <1>3, AwaitIs DEF TerminateConnection, At, Past
  <2> QED BY <1>3, <2>1, SlotsStay DEF TerminateConnection
<1>4. ASSUME NEW state \in ConnectionState, state # "none",
             Store(p, [Mine(p) EXCEPT !.state = state]), Goto(p, "resync")
      PROVE  [Locking!LockNext]_Locking!lockVars
  <2> DEFINE new == [Mine(p) EXCEPT !.state = state]
  <2>1. new \in Subscription /\ new.insync = Mine(p).insync /\ new.state = state /\ Store(p, new)
    BY <1>2, <1>4 DEF Subscription
  <2> HIDE DEF new
  <2> QED BY <1>1, <1>2, <1>4, <2>1, GotoByHolder
<1>5. CASE ProcessTerminateResult(p) \/ ProcessReservationResult(p)
  <2>1. PICK event \in {"terminate", "reserve_confirmed", "reserve_failed"} :
          Store(p, [Mine(p) EXCEPT !.state = Apply(Mine(p).state, event)])
    BY <1>5 DEF ProcessTerminateResult, ProcessReservationResult
  <2>2. Apply(Mine(p).state, event) \in ConnectionState /\ Apply(Mine(p).state, event) # "none"
    BY AppliedState DEF Transition
  <2> QED BY <1>4, <1>5, <2>1, <2>2 DEF ProcessTerminateResult, ProcessReservationResult
<1>6. CASE DropConnection(p)
  <2> DEFINE new == [Mine(p) EXCEPT !.conn = None]
  <2>1. new \in Subscription /\ new.insync = Mine(p).insync /\ new.state = Mine(p).state
    <3>1. None \in Id \cup {None}
      OBVIOUS
    <3> QED BY <1>2, <3>1 DEF Subscription
  <2>2. Store(p, new) /\ Goto(p, "update")
    BY <1>6 DEF DropConnection
  <2> HIDE DEF new
  <2> QED BY <1>1, <1>2, <2>1, <2>2, GotoByHolder
<1>7. CASE UpdateSubscription(p)
  <2>1. PICK g \in Id : Store(p, [Mine(p) EXCEPT !.state = Apply(Mine(p).state, "retry"), !.gid = g,
                                                 !.request = proc[p].request])
    BY <1>7 DEF UpdateSubscription
  <2> DEFINE state == Apply(Mine(p).state, "retry")
             new == [Mine(p) EXCEPT !.state = state, !.gid = g, !.request = proc[p].request]
  <2>2. state \in ConnectionState /\ state # "none"
    BY AppliedState DEF Transition
  <2>3. Store(p, new) /\ Goto(p, "reserve")
    BY <1>7, <2>1 DEF UpdateSubscription
  <2>4. proc[p].request \in Accepted
    BY DEF IInv, TypeOK, Process
  <2> HIDE DEF state
  <2>5. new \in Subscription /\ new.insync = Mine(p).insync /\ new.state = state
    BY <1>2, <2>2, <2>4 DEF Subscription
  <2> HIDE DEF new
  <2> QED BY <1>1, <1>2, <2>2, <2>3, <2>5, GotoByHolder
<1> QED BY <1>3, <1>5, <1>6, <1>7

LEMMA ReserveUnderLock ==
  ASSUME IInv, NEW p \in Procs, ReserveConnection(p)
  PROVE  [Locking!LockNext]_Locking!lockVars
<1>1. Past(p) /\ proc[p].step = "reserve" /\ proc[p] \in Process
  BY DEF ReserveConnection, At, Past, IInv, TypeOK
<1>2. Mine(p) \in Subscription /\ ~Mine(p).insync /\ Mine(p).state # "none"
  BY <1>1, AtWork
<1>3. CASE /\ proc' = [proc EXCEPT ![p] = [proc[p] EXCEPT !.run = "awaiting", !.raced = {}]]
           /\ Store(p, [Mine(p) EXCEPT !.conn = Mine(p).gid])
  <2> DEFINE q == [proc[p] EXCEPT !.run = "awaiting", !.raced = {}]
             new == [Mine(p) EXCEPT !.conn = Mine(p).gid]
  <2>1. q \in Process /\ q.step = "reserve" /\ q.circuit = proc[p].circuit
    BY <1>1 DEF Process
  <2>2. new \in Subscription /\ new.insync = Mine(p).insync /\ new.state = Mine(p).state
    BY <1>2 DEF Subscription
  <2>3. proc' = [proc EXCEPT ![p] = q] /\ sub' = [sub EXCEPT ![proc[p].circuit] = new]
    BY <1>3 DEF Store
  <2> HIDE DEF q, new
  <2> QED BY <1>1, <1>2, <2>1, <2>2, <2>3, WrittenByHolder
<1>4. CASE proc' = [proc EXCEPT ![p].raced = {}] /\ UNCHANGED sub
  <2> DEFINE q == [proc[p] EXCEPT !.raced = {}]
  <2>1. q \in Process /\ q.step = proc[p].step /\ q.circuit = proc[p].circuit
    BY <1>1 DEF Process
  <2>2. proc' = [proc EXCEPT ![p] = q]
    BY <1>4 DEF IInv, TypeOK
  <2> HIDE DEF q
  <2> QED BY <1>4, <2>1, <2>2, SlotStays
<1> QED BY <1>3, <1>4 DEF ReserveConnection

\* Resync completes.
LEMMA ResyncCompletes == ASSUME IInv, NEW p \in Procs, Resync(p) PROVE Locking!LockNext
<1>1. Past(p)
  BY DEF Resync, At, Past
<1>2. PICK c \in Circuits : c = proc[p].circuit /\ sub[c] \in Subscription /\ ~sub[c].insync
  BY <1>1, AtWork DEF Mine
<1> DEFINE new == [sub[c] EXCEPT !.insync = TRUE]
<1>3. sub' = [sub EXCEPT ![c] = new] /\ proc' = [proc EXCEPT ![p] = Idle]
  BY <1>2 DEF Resync, Store, Mine
<1>4. /\ new \in Subscription /\ new.insync /\ new.state = sub[c].state
      /\ [new EXCEPT !.insync = FALSE] = [sub[c] EXCEPT !.insync = FALSE]
  BY <1>2 DEF Subscription
<1> HIDE DEF new
<1>5. /\ sub'[c] = new /\ proc'[p] = Idle
      /\ \A e \in Circuits \ {c} : sub'[e] = sub[e]
      /\ \A r \in Procs \ {p} : proc'[r] = proc[r]
  BY <1>3, <1>4 DEF IInv, TypeOK, Subscription
<1>6. HeldIn(proc, c) = {p}
  BY <1>1, <1>2, HeldByOne
<1>7. HeldIn(proc', c) = {} /\ \A e \in Circuits \ {c} : HeldIn(proc', e) = HeldIn(proc, e)
  BY <1>2, <1>5, <1>6 DEF HeldIn, Past, Idle
<1>8. KeptOf(sub'[c]) = KeptOf(sub[c])
  BY <1>4, <1>5 DEF KeptOf
<1>9. \A e \in Circuits \ {c} : Untouched(e)
  BY <1>5, <1>7 DEF Untouched
<1> QED BY <1>2, <1>4, <1>5, <1>6, <1>7, <1>8, <1>9, OneTouched

\* An abort past the lock abandons.
LEMMA AbortAbandons == ASSUME IInv, NEW p \in Procs, Abort(p) PROVE [Locking!LockNext]_Locking!lockVars
<1>1. proc' = [proc EXCEPT ![p] = Idle] /\ UNCHANGED sub
  BY DEF Abort
<1>2. CASE ~Past(p)
  BY <1>1, <1>2, NoRequestTyped, SlotStays DEF Idle
<1>3. CASE Past(p)
  <2>1. PICK c \in Circuits : c = proc[p].circuit /\ ~sub[c].insync /\ sub[c] \in Subscription
    BY <1>3, AtWork DEF Mine
  <2>2. proc'[p] = Idle /\ \A r \in Procs \ {p} : proc'[r] = proc[r]
    BY <1>1 DEF IInv, TypeOK
  <2>3. HeldIn(proc, c) = {p}
    BY <1>3, <2>1, HeldByOne
  <2>4. HeldIn(proc', c) = {} /\ \A e \in Circuits \ {c} : HeldIn(proc', e) = HeldIn(proc, e)
    BY <2>1, <2>2, <2>3 DEF HeldIn, Past, Idle
  <2>5. \A e \in Circuits : KeptOf(sub'[e]) = KeptOf(sub[e]) /\ sub'[e] = sub[e]
    BY <1>1 DEF KeptOf
  <2>6. \A e \in Circuits \ {c} : Untouched(e)
    BY <2>4, <2>5 DEF Untouched
  <2>7. sub'[c].insync \in BOOLEAN
    BY <2>1, <2>5 DEF Subscription
  <2> QED BY <2>1, <2>3, <2>4, <2>5, <2>6, <2>7, OneTouched
<1> QED BY <1>2, <1>3

\* A subscription is set in sync by hand only while nobody is past its lock.
LEMMA SetInSyncOverrides == ASSUME IInv, NEW c \in Circuits, SetInSync(c) PROVE Locking!LockNext
<1>1. /\ sub[c] \in Subscription /\ sub[c].state # "none" /\ ~sub[c].insync
      /\ sub' = [sub EXCEPT ![c].insync = TRUE] /\ UNCHANGED proc
  BY DEF IInv, TypeOK, Subscription, SetInSync
<1> DEFINE new == [sub[c] EXCEPT !.insync = TRUE]
<1>2. /\ new.insync /\ new.state = sub[c].state
      /\ [new EXCEPT !.insync = FALSE] = [sub[c] EXCEPT !.insync = FALSE]
  BY <1>1 DEF Subscription
<1>3. sub'[c] = new /\ \A e \in Circuits \ {c} : sub'[e] = sub[e]
  BY <1>1 DEF IInv, TypeOK
<1> HIDE DEF new
<1>4. HeldIn(proc, c) = {} /\ \A e \in Circuits : HeldIn(proc', e) = HeldIn(proc, e)
  BY <1>1, PastHasCircuit DEF HeldIn, Past, SetInSync, IInv
<1>5. KeptOf(sub'[c]) = KeptOf(sub[c]) /\ KeptOf(sub[c]) # {} /\ \A e \in Circuits \ {c} : KeptOf(sub'[e]) = KeptOf(sub[e])
  BY <1>1, <1>2, <1>3 DEF KeptOf
<1>6. \A e \in Circuits \ {c} : Untouched(e)
  BY <1>3, <1>4, <1>5 DEF Untouched
<1>7. Locking!Override(c)
  BY <1>1, <1>2, <1>3, <1>4, <1>5 DEF HeldIn, KeptOf, Past, Locking!Override, Locking!Free
<1> QED BY <1>6, <1>7, OnlyOne DEF Locking!LockNext

\* The VLAN workflows implement the lock of each circuit: open forms, lost answers,
\* aborts and overrides included, what is stored of a circuit changes only under it.
THEOREM LockIsKept == Spec => KeepsTheLock
<1>1. ASSUME Init PROVE Locking!LockInit
  <2>1. \A c \in Circuits : sub[c].insync = FALSE
    BY <1>1 DEF Init, Unsubscribed
  <2>2. \A p \in Procs : ~Past(p)
    BY <1>1 DEF Init, Idle, Past
  <2> QED BY <2>1, <2>2 DEF Locking!LockInit
<1>2. ASSUME IInv, IInv', [Next]_vars
      PROVE  [Locking!LockNext]_Locking!lockVars
  <2>1. ASSUME NEW p \in Procs, FormStep(p)
        PROVE  UNCHANGED Locking!lockVars
    BY <1>2, <2>1, FormOffTheLock
  <2>2. ASSUME NEW p \in Procs, Work(p)
        PROVE  [Locking!LockNext]_Locking!lockVars
    BY <1>2, <2>2, ConstructMakes, LockTakes, WorkUnderLock, ReserveUnderLock, ResyncCompletes DEF Work
  <2>3. ASSUME NEW p \in Procs, Abort(p)
        PROVE  [Locking!LockNext]_Locking!lockVars
    BY <1>2, <2>3, AbortAbandons
  <2>4. ASSUME NEW p \in Procs, Timeout(p)
        PROVE  UNCHANGED Locking!lockVars
    <3>1. proc[p].step \in Steps /\ Goto(p, proc[p].step) /\ UNCHANGED sub
      BY <1>2, <2>4 DEF Timeout, IInv, TypeOK, Process, Steps
    <3>2. PICK q \in Process :
            proc' = [proc EXCEPT ![p] = q] /\ q.step = proc[p].step /\ q.circuit = proc[p].circuit
      BY <1>2, <3>1, GotoIs DEF IInv
    <3> QED BY <1>2, <3>1, <3>2, SlotStays
  <2>5. ASSUME NEW c \in Circuits, SetInSync(c)
        PROVE  Locking!LockNext
    BY <1>2, <2>5, SetInSyncOverrides
  <2>6. ASSUME NEW g \in Id, Decide(g)
        PROVE  UNCHANGED Locking!lockVars
    <3>1. UNCHANGED sub /\ \A r \in Procs : proc'[r].step = proc[r].step /\ proc'[r].circuit = proc[r].circuit
      <4>1. ASSUME NEW pairs, NEW status, Hold(g, status, pairs), NEW r \in Procs
            PROVE  proc'[r].step = proc[r].step /\ proc'[r].circuit = proc[r].circuit
        <5>1. proc[r] \in Process
          BY <1>2 DEF IInv, TypeOK
        <5>2. proc'[r] = proc[r] \/ \E raced : proc'[r] = [proc[r] EXCEPT !.raced = raced]
          BY <4>1 DEF Hold
        <5> QED BY <5>1, <5>2 DEF Process
      <4>2. (\E status, pairs : Hold(g, status, pairs)) \/ UNCHANGED <<sub, proc>>
        BY <2>6 DEF Decide
      <4> QED BY <4>1, <4>2 DEF Hold
    <3>2. \A r \in Procs : Past(r)' = Past(r) /\ (Past(r) => proc'[r].circuit = proc[r].circuit)
      BY <3>1 DEF Past
    <3> QED BY <3>1, <3>2, SlotsStay
  <2>7. CASE UNCHANGED vars
    BY <2>7, SlotsStay DEF vars, Past
  <2> QED BY <1>2, <2>1, <2>2, <2>3, <2>4, <2>5, <2>6, <2>7 DEF Next
<1> QED BY <1>1, <1>2, VlanInvariance, PTL DEF Spec, KeepsTheLock, Locking!LockSpec

=============================================================================
