---------------------------- MODULE UpaDrift_proofs ----------------------------
(* The nightly comparison of VLANs is right about every pair that kept still,    *)
(* for every number of STPs, VLANs, uPAs, reservations and changes.  What makes  *)
(* it so is ReadIsSo: for a steady pair, what the task has read so far is what   *)
(* is so, since a change to anything the reading depends on ends the steadiness. *)
EXTENDS UpaDrift, TLAPS

\* How far the task has come, between its reads.
StepsOfReading ==
  /\ task.step = "upas listed" => task.todo = task.upas /\ read.upas = {}
  /\ task.step = "scope read" => task.todo = {}

ReservationsRead == task.step \in {"reservations listed", "scope read"}

ReadIsSo ==
  \A p \in steady :
    /\ task.step = "upas listed" \/ ReservationsRead => (upa_of[p[1]] \in task.upas <=> upa_of[p[1]] \in peers)
    /\ ReservationsRead =>
         /\ p \in InUse <=> AtAggregator(p) # {}
         /\ p \in Live <=> ~FailedOnly(p)
         /\ p \in AtUpas <=> upa_of[p[1]] \in task.upas \ task.todo /\ AtUpa(p)
    /\ task.step = "scope read" =>
         /\ read.ranges[p[1]].subscribed <=> stps[p[1]].subscribed
         /\ p[2] \in read.ranges[p[1]].range <=> InRange(p)

DriftInv == TypeOK /\ StepsOfReading /\ ReadIsSo

-----------------------------------------------------------------------------
(* The records *)

\* A uPA's reservation is for pairs that the uPA serves.
LEMMA UpaServesItsOwn ==
  ASSUME NEW u, NEW r \in UpaRecord(u)
  PROVE  /\ r.pairs \subseteq On(u)
         /\ UpaHoldsVlans(r) <=> <<r.reservation_state, r.lifecycle_state>> \in HoldingStates
<1> DEFINE Right(q) == /\ q.pairs \subseteq On(u)
                       /\ UpaHoldsVlans(q) <=> <<q.reservation_state, q.lifecycle_state>> \in HoldingStates
<1>0. ASSUME NEW s1 \in ReservationStates, NEW s2 \in LifecycleStates
      PROVE  /\ s2 \notin {"Failed", "PassedEndTime", "Terminated"}
             /\ s1 \in {"ReserveHeld", "ReserveCommitting", "ReserveStart"}
             <=> <<s1, s2>> \in HoldingStates
  BY DEF HoldingStates, ReservationStates, LifecycleStates
<1>1. CASE r = [reservation_state |-> "ReserveChecking", lifecycle_state |-> "Created", pairs |-> {}]
  <2>1. r.reservation_state = "ReserveChecking" /\ r.lifecycle_state = "Created" /\ r.pairs = {}
    BY <1>1
  <2>2. "ReserveChecking" \in ReservationStates /\ "Created" \in LifecycleStates
    BY DEF ReservationStates, LifecycleStates
  <2>3. QED
    BY <1>0, <2>1, <2>2 DEF UpaHoldsVlans
<1>2. ASSUME NEW s \in UpaStates, NEW path \in Paths,
             r = [reservation_state |-> s[1], lifecycle_state |-> s[2],
                  pairs |-> (path.ends \cup path.segments) \cap On(u)]
      PROVE  Right(r)
  <2>1. r.reservation_state = s[1] /\ r.lifecycle_state = s[2] /\ r.pairs \subseteq On(u)
    BY <1>2
  <2>2. s[1] \in ReservationStates /\ s[2] \in LifecycleStates
    BY UpaStatesAssumption
  <2>3. QED
    BY <1>0, <2>1, <2>2 DEF UpaHoldsVlans
<1>3. QED
  BY <1>1, <1>2 DEF UpaRecord

LEMMA UpaRecordIsAny == ASSUME NEW upas, NEW u \in upas PROVE UpaRecord(u) \subseteq AnyUpaRecord(upas)
BY DEF AnyUpaRecord

LEMMA NothingTyped ==
  /\ \A upas : Nothing \in [aggregator : SUBSET AggRecord, upas : SUBSET AnyUpaRecord(upas), ranges : [Stps -> StpRecord]]
  /\ NoReport \in [upaOnly : SUBSET Pairs, aggregatorOnly : SUBSET Pairs,
                   failedOnly : SUBSET Pairs, outside : SUBSET Pairs]
<1>1. [stp \in Stps |-> Unsubscribed] \in [Stps -> StpRecord]
  BY DEF StpRecord
<1>2. \A upas : {} \in SUBSET AggRecord /\ {} \in SUBSET AnyUpaRecord(upas) /\ {} \in SUBSET Pairs
  OBVIOUS
<1>3. QED
  BY <1>1, <1>2 DEF Nothing, NoReport

-----------------------------------------------------------------------------
(* Types *)

\* What the records hold are pairs, so the sections of a report are sets of pairs.
LEMMA SectionsTyped ==
  ASSUME TypeOK
  PROVE  Sections \in [upaOnly : SUBSET Pairs, aggregatorOnly : SUBSET Pairs,
                       failedOnly : SUBSET Pairs, outside : SUBSET Pairs]
<1>1. \A r \in AggRecord : r.ends \subseteq Pairs /\ r.segments \subseteq Pairs
  BY PathsAssumption DEF AggRecord
<1>2. read.aggregator \subseteq AggRecord /\ read.upas \subseteq AnyUpaRecord(task.upas)
  BY DEF TypeOK
<1>3. InUse \subseteq Pairs /\ Live \subseteq Pairs
  BY <1>1, <1>2 DEF InUse, Live, Held, HeldReservations, ReservationsVlanPairs, ReservationHeldVlans
<1>4. \A r \in AnyUpaRecord(task.upas) : r.pairs \subseteq Pairs
  <2>1. \A u : \A r \in UpaRecord(u) : r.pairs \subseteq Pairs
    <3>1. \A u : On(u) \subseteq Pairs
      BY DEF On
    <3>2. \A u : \A r \in UpaRecord(u) : r.pairs \subseteq On(u)
      BY UpaServesItsOwn
    <3>3. QED
      BY <3>1, <3>2
  <2>2. QED
    BY <2>1 DEF AnyUpaRecord
<1>5. AtUpas \subseteq Pairs
  BY <1>2, <1>4 DEF AtUpas, UpaVlanPairs
<1>6. QED
  BY <1>3, <1>5 DEF Sections, Inside, Outside

LEMMA TypeKept == ASSUME TypeOK, [Next]_vars PROVE TypeOK'
<1> DEFINE Steps == {"idle", "upas listed", "reservations listed", "scope read",
                     "completed", "inconsistent_data", "failed"}
<1>0. /\ task \in [step : Steps, upas : SUBSET Upas, todo : SUBSET Upas]
      /\ read \in [aggregator : SUBSET AggRecord, upas : SUBSET AnyUpaRecord(task.upas),
                   ranges : [Stps -> StpRecord]]
  BY DEF TypeOK
<1>1. CASE ListUpas
  <2>1. task' \in [step : Steps, upas : SUBSET Upas, todo : SUBSET Upas] /\ task'.todo \subseteq task'.upas
    BY <1>1 DEF ListUpas, TypeOK
  <2>2. QED
    BY <1>1, <2>1, NothingTyped DEF ListUpas, world, TypeOK
<1>2. CASE ListReservations
  <2>1. task' = [task EXCEPT !.step = "reservations listed"]
    BY <1>2 DEF ListReservations
  <2>2. /\ task' \in [step : Steps, upas : SUBSET Upas, todo : SUBSET Upas]
        /\ task'.upas = task.upas /\ task'.todo = task.todo
    BY <1>0, <2>1
  <2>3. {agg[c] : c \in Connections} \in SUBSET AggRecord
    <3>1. \A c \in Connections : agg[c] \in AggRecord
      BY DEF TypeOK
    <3>2. QED
      BY <3>1
  <2>4. read' \in [aggregator : SUBSET AggRecord, upas : SUBSET AnyUpaRecord(task.upas), ranges : [Stps -> StpRecord]]
    BY <1>0, <1>2, <2>3 DEF ListReservations
  <2>5. QED
    BY <1>2, <2>2, <2>4 DEF ListReservations, Reading, world, TypeOK
<1>3. ASSUME NEW u \in Upas, ListUpaReservations(u) PROVE TypeOK'
  <2>1. /\ task' \in [step : Steps, upas : SUBSET Upas, todo : SUBSET Upas]
        /\ task'.upas = task.upas /\ task'.todo \subseteq task.todo
    BY <1>0, <1>3 DEF ListUpaReservations
  <2>2. u \in task.upas /\ \A c \in UpaConnections : upa[u][c] \in UpaRecord(u)
    BY <1>3 DEF ListUpaReservations, TypeOK
  <2>3. {upa[u][c] : c \in UpaConnections} \subseteq AnyUpaRecord(task.upas)
    BY <2>2, UpaRecordIsAny
  <2>4. read' \in [aggregator : SUBSET AggRecord, upas : SUBSET AnyUpaRecord(task.upas), ranges : [Stps -> StpRecord]]
    BY <1>0, <1>3, <2>3 DEF ListUpaReservations
  <2>5. QED
    BY <1>3, <2>1, <2>4 DEF ListUpaReservations, Reading, world, TypeOK
<1>4. CASE ReadScope
  <2>1. /\ task' \in [step : Steps, upas : SUBSET Upas, todo : SUBSET Upas]
        /\ task'.upas = task.upas /\ task'.todo = task.todo
    BY <1>0, <1>4 DEF ReadScope
  <2>2. read' \in [aggregator : SUBSET AggRecord, upas : SUBSET AnyUpaRecord(task.upas), ranges : [Stps -> StpRecord]]
    BY <1>0, <1>4 DEF ReadScope, TypeOK
  <2>3. QED
    BY <1>4, <2>1, <2>2 DEF ReadScope, Reading, world, TypeOK
<1>5. CASE FetchFails
  <2>1. task' \in [step : Steps, upas : SUBSET Upas, todo : SUBSET Upas] /\ task'.todo \subseteq task'.upas
    BY <1>5 DEF FetchFails
  <2>2. QED
    BY <1>5, <2>1, NothingTyped DEF FetchFails, world, TypeOK
<1>6. CASE CompareUpaVlans
  <2>1. \A s \in Steps : task' = [task EXCEPT !.step = s]
          => /\ task' \in [step : Steps, upas : SUBSET Upas, todo : SUBSET Upas]
             /\ task'.upas = task.upas /\ task'.todo = task.todo
    BY <1>0
  <2>2. /\ task' \in [step : Steps, upas : SUBSET Upas, todo : SUBSET Upas]
        /\ task'.upas = task.upas /\ task'.todo = task.todo
    BY <1>6, <2>1 DEF CompareUpaVlans
  <2>3. QED
    BY <1>6, <2>2, SectionsTyped DEF CompareUpaVlans, world, TypeOK
<1>7. ASSUME Changed PROVE /\ UNCHANGED <<task, read, report>>
                           /\ steady' \subseteq Pairs /\ changes' \in 0..MaxChanges
  <2>1. steady' \subseteq steady /\ UNCHANGED <<task, read, report>>
    BY <1>7 DEF Changed
  <2>2. changes \in 0..MaxChanges /\ changes < MaxChanges /\ changes' = changes + 1
    BY <1>7 DEF Changed, TypeOK
  <2>3. changes' \in 0..MaxChanges
    BY <2>2, ChangesAssumption
  <2>4. QED
    BY <2>1, <2>3 DEF TypeOK
<1>8. ASSUME NEW c \in Connections, AggregatorChanges(c) PROVE TypeOK'
  BY <1>7, <1>8 DEF AggregatorChanges, TypeOK
<1>9. ASSUME NEW u \in Upas, UpaChanges(u) PROVE TypeOK'
  <2>1. UpaRecord(u) \subseteq AnyUpaRecord(Upas)
    BY UpaRecordIsAny
  <2>2. PICK c \in UpaConnections, r \in UpaRecord(u) : upa' = [upa EXCEPT ![u][c] = r]
    BY <1>9 DEF UpaChanges
  <2>3. /\ upa \in [Upas -> [UpaConnections -> AnyUpaRecord(Upas)]]
        /\ \A w \in Upas, d \in UpaConnections : upa[w][d] \in UpaRecord(w)
    BY DEF TypeOK
  <2>4. upa' \in [Upas -> [UpaConnections -> AnyUpaRecord(Upas)]]
    BY <2>1, <2>2, <2>3
  <2>5. \A w \in Upas, d \in UpaConnections : upa'[w][d] \in UpaRecord(w)
    BY <2>2, <2>3
  <2>6. QED
    BY <1>7, <1>9, <2>4, <2>5 DEF UpaChanges, TypeOK
<1>10. ASSUME NEW stp \in Stps, StpChanges(stp) PROVE TypeOK'
  BY <1>7, <1>10 DEF StpChanges, TypeOK
<1>11. CASE PeersChange
  BY <1>7, <1>11 DEF PeersChange, TypeOK
<1>12. CASE UNCHANGED vars
  BY <1>12 DEF vars, world, TypeOK
<1>13. QED
  BY <1>1, <1>2, <1>3, <1>4, <1>5, <1>6, <1>8, <1>9, <1>10, <1>11, <1>12 DEF Next

-----------------------------------------------------------------------------
(* What was read is what is so *)

\* A change leaves what is so of the pairs that stay steady as it was.
LEMMA SteadyMeansSame ==
  ASSUME Changed, NEW p \in steady'
  PROVE  /\ p \in steady
         /\ upa_of[p[1]] \in peers' <=> upa_of[p[1]] \in peers
         /\ AtAggregator(p)' # {} <=> AtAggregator(p) # {}
         /\ AtUpa(p)' <=> AtUpa(p)
         /\ FailedOnly(p)' <=> FailedOnly(p)
         /\ InRange(p)' <=> InRange(p)
         /\ stps'[p[1]].subscribed <=> stps[p[1]].subscribed
<1>1. p \in steady /\ Facts(p)' = Facts(p)
  BY DEF Changed
<1>2. QED
  BY <1>1 DEF Facts

LEMMA ChangeKeepsReading ==
  ASSUME StepsOfReading, ReadIsSo, Changed
  PROVE  StepsOfReading' /\ ReadIsSo'
<1>1. UNCHANGED <<task, read>>
  BY DEF Changed
<1>2. StepsOfReading'
  BY <1>1 DEF StepsOfReading
<1>3. /\ UNCHANGED <<ReservationsRead, AtUpas, InUse, Live>>
  BY <1>1 DEF ReservationsRead, AtUpas, InUse, Live, Held
<1>4. ReadIsSo'
  BY <1>1, <1>3, SteadyMeansSame DEF ReadIsSo
<1>5. QED
  BY <1>2, <1>4

\* The listed reservations hold what is held at the aggregator at that moment.
LEMMA ListingIsSo ==
  ASSUME TypeOK, ListReservations, NEW p \in Pairs
  PROVE  /\ (p \in InUse)' <=> AtAggregator(p) # {}
         /\ (p \in Live)' <=> ~FailedOnly(p)
<1>1. read'.aggregator = {agg[c] : c \in Connections}
  BY DEF ListReservations, TypeOK
<1>2. \A r : p \in ReservationHeldVlans(r) <=> p \in r.ends \cup r.segments
  BY DEF ReservationHeldVlans
<1>3. (p \in InUse)' <=> \E r \in read'.aggregator : r.status # "TERMINATED" /\ p \in ReservationHeldVlans(r)
  BY DEF InUse, Held, HeldReservations, ReservationsVlanPairs
<1>4. (p \in Live)' <=> \E r \in read'.aggregator :
                          r.status # "TERMINATED" /\ r.status # "FAILED" /\ p \in ReservationHeldVlans(r)
  BY DEF Live, Held, HeldReservations, ReservationsVlanPairs
<1>5. (p \in InUse)' <=> AtAggregator(p) # {}
  BY <1>1, <1>2, <1>3 DEF AtAggregator
<1>6. (p \in Live)' <=> \E c \in AtAggregator(p) : agg[c].status # "FAILED"
  BY <1>1, <1>2, <1>4 DEF AtAggregator
<1>7. QED
  BY <1>5, <1>6 DEF FailedOnly

\* Reading one uPA settles the pairs on its STPs and no others.
LEMMA UpaReadIsSo ==
  ASSUME TypeOK, NEW u \in Upas, ListUpaReservations(u), NEW p \in Pairs,
         p \in AtUpas <=> upa_of[p[1]] \in task.upas \ task.todo /\ AtUpa(p)
  PROVE  (p \in AtUpas)' <=> upa_of[p[1]] \in task'.upas \ task'.todo /\ AtUpa(p)
<1>1. read'.upas = read.upas \cup {upa[u][c] : c \in UpaConnections}
  BY DEF ListUpaReservations, TypeOK
<1>2. task'.upas = task.upas /\ task'.todo = task.todo \ {u} /\ u \in task.todo /\ u \in task.upas
  BY DEF ListUpaReservations, TypeOK
<1>3. (p \in AtUpas)' <=>
        p \in AtUpas \/ \E c \in UpaConnections : UpaHoldsVlans(upa[u][c]) /\ p \in upa[u][c].pairs
  BY <1>1 DEF AtUpas, UpaVlanPairs
<1>4. ASSUME NEW c \in UpaConnections
      PROVE  /\ p \in upa[u][c].pairs => upa_of[p[1]] = u
             /\ HeldBy(upa[u][c], p) <=> UpaHoldsVlans(upa[u][c]) /\ p \in upa[u][c].pairs
  <2>1. upa[u][c] \in UpaRecord(u)
    BY DEF TypeOK
  <2>2. QED
    BY <2>1, UpaServesItsOwn DEF HeldBy, On
<1>5. UNCHANGED upa
  BY DEF ListUpaReservations, Reading, world
<1>6. CASE upa_of[p[1]] = u
  BY <1>2, <1>3, <1>4, <1>5, <1>6 DEF AtUpa
<1>7. CASE upa_of[p[1]] # u
  BY <1>2, <1>3, <1>4, <1>7
<1>8. QED
  BY <1>6, <1>7

LEMMA ReadingKept ==
  ASSUME TypeOK, StepsOfReading, ReadIsSo, [Next]_vars
  PROVE  StepsOfReading' /\ ReadIsSo'
<1>0. steady \subseteq Pairs
  BY DEF TypeOK
<1> DEFINE Same(p) == /\ upa_of[p[1]] \in peers' <=> upa_of[p[1]] \in peers
                      /\ AtAggregator(p)' = AtAggregator(p)
                      /\ AtUpa(p)' <=> AtUpa(p)
                      /\ FailedOnly(p)' <=> FailedOnly(p)
                      /\ InRange(p)' <=> InRange(p)
                      /\ stps'[p[1]].subscribed <=> stps[p[1]].subscribed
<1>1. ASSUME UNCHANGED world, NEW p PROVE Same(p)
  BY <1>1 DEF world, AtAggregator, AtUpa, FailedOnly, InRange
<1>2. CASE ListUpas
  <2>1. /\ task'.step = "upas listed" /\ task'.upas = peers /\ task'.todo = peers
        /\ read'.upas = {} /\ peers' = peers
    BY <1>2 DEF ListUpas, Nothing, world
  <2>2. QED
    BY <2>1 DEF StepsOfReading, ReadIsSo, ReservationsRead
<1>3. CASE ListReservations
  <2>1. /\ task.step = "upas listed" /\ task'.step = "reservations listed"
        /\ task'.upas = task.upas /\ task'.todo = task.todo
        /\ read'.upas = read.upas /\ UNCHANGED world /\ steady' = steady
    BY <1>3 DEF ListReservations, Reading, TypeOK
  <2>2. AtUpas' = {}
    BY <2>1 DEF StepsOfReading, AtUpas, UpaVlanPairs
  <2>3. ASSUME NEW p \in steady' PROVE upa_of[p[1]] \in task'.upas <=> upa_of[p[1]] \in peers'
    BY <2>1, <2>3 DEF ReadIsSo, world
  <2>4. ASSUME NEW p \in steady'
        PROVE  /\ (p \in InUse)' <=> AtAggregator(p)' # {}
               /\ (p \in Live)' <=> ~FailedOnly(p)'
               /\ (p \in AtUpas)' <=> upa_of[p[1]] \in task'.upas \ task'.todo /\ AtUpa(p)'
    <3>1. p \in Pairs /\ Same(p)
      BY <1>0, <1>1, <2>1
    <3>2. QED
      BY <1>3, <2>1, <2>2, <3>1, ListingIsSo DEF StepsOfReading
  <2>5. QED
    BY <2>1, <2>3, <2>4 DEF StepsOfReading, ReadIsSo, ReservationsRead
<1>4. ASSUME NEW u \in Upas, ListUpaReservations(u) PROVE StepsOfReading' /\ ReadIsSo'
  <2>1. /\ task.step = "reservations listed" /\ task'.step = "reservations listed"
        /\ task'.upas = task.upas /\ UNCHANGED world /\ steady' = steady
        /\ read'.aggregator = read.aggregator
    BY <1>4 DEF ListUpaReservations, Reading, TypeOK
  <2>2. InUse' = InUse /\ Live' = Live
    BY <2>1 DEF InUse, Live, Held
  <2>3. ASSUME NEW p \in steady'
        PROVE  /\ upa_of[p[1]] \in task'.upas <=> upa_of[p[1]] \in peers'
               /\ (p \in InUse)' <=> AtAggregator(p)' # {}
               /\ (p \in Live)' <=> ~FailedOnly(p)'
               /\ (p \in AtUpas)' <=> upa_of[p[1]] \in task'.upas \ task'.todo /\ AtUpa(p)'
    <3>1. p \in Pairs /\ Same(p) /\ p \in steady
      BY <1>0, <1>1, <2>1
    <3>2. /\ upa_of[p[1]] \in task.upas <=> upa_of[p[1]] \in peers
          /\ p \in InUse <=> AtAggregator(p) # {}
          /\ p \in Live <=> ~FailedOnly(p)
          /\ p \in AtUpas <=> upa_of[p[1]] \in task.upas \ task.todo /\ AtUpa(p)
      BY <2>1, <3>1 DEF ReadIsSo, ReservationsRead
    <3>3. (p \in AtUpas)' <=> upa_of[p[1]] \in task'.upas \ task'.todo /\ AtUpa(p)
      BY <1>4, <3>1, <3>2, UpaReadIsSo
    <3>4. QED
      BY <2>1, <2>2, <3>1, <3>2, <3>3
  <2>4. QED
    BY <2>1, <2>3 DEF StepsOfReading, ReadIsSo, ReservationsRead
<1>5. CASE ReadScope
  <2>1. /\ task.step = "reservations listed" /\ task.todo = {} /\ task'.step = "scope read"
        /\ task'.upas = task.upas /\ task'.todo = task.todo /\ UNCHANGED world /\ steady' = steady
        /\ read'.aggregator = read.aggregator /\ read'.upas = read.upas /\ read'.ranges = stps
    BY <1>5 DEF ReadScope, Reading, TypeOK
  <2>2. InUse' = InUse /\ Live' = Live /\ AtUpas' = AtUpas
    BY <2>1 DEF InUse, Live, Held, AtUpas
  <2>3. \A p \in steady' : Same(p) /\ p \in steady
    BY <1>1, <2>1
  <2>4. \A p : InRange(p) <=> p[2] \in read'.ranges[p[1]].range
    BY <2>1 DEF InRange
  <2>5. QED
    BY <2>1, <2>2, <2>3, <2>4 DEF StepsOfReading, ReadIsSo, ReservationsRead
<1>6. CASE FetchFails \/ CompareUpaVlans
  <2>1. CompareUpaVlans => task'.step \in {"completed", "inconsistent_data"}
    BY DEF CompareUpaVlans, TypeOK
  <2>2. ASSUME FetchFails PROVE task'.step = "failed"
    <3>1. task' = [step |-> "failed", upas |-> {}, todo |-> {}]
      BY <2>2 DEF FetchFails
    <3>2. QED
      BY <3>1
  <2>3. QED
    BY <1>6, <2>1, <2>2 DEF StepsOfReading, ReadIsSo, ReservationsRead
<1>7. CASE Changed
  BY <1>7, ChangeKeepsReading
<1>8. CASE UNCHANGED vars
  <2>1. UNCHANGED <<world, task, read, steady>> /\ peers' = peers
    BY <1>8 DEF vars, world
  <2>2. UNCHANGED <<StepsOfReading, ReservationsRead, InUse, Live, AtUpas>>
    BY <2>1 DEF StepsOfReading, ReservationsRead, InUse, Live, Held, AtUpas
  <2>3. \A p \in steady : Same(p)
    BY <1>1, <2>1
  <2>4. QED
    BY <2>1, <2>2, <2>3 DEF ReadIsSo
<1>9. QED
  BY <1>2, <1>3, <1>4, <1>5, <1>6, <1>7, <1>8 DEF Next, AggregatorChanges, UpaChanges, StpChanges, PeersChange

-----------------------------------------------------------------------------
(* The theorems *)

\* The task has its types, and what it has read of a steady pair is what is so.
THEOREM UpaDriftInvariance == Spec => []DriftInv
<1>1. Init => DriftInv
  <2> SUFFICES ASSUME Init PROVE DriftInv
    OBVIOUS
  <2>1. /\ task = [step |-> "idle", upas |-> {}, todo |-> {}] /\ steady = {} /\ changes = 0
        /\ read = Nothing /\ report = NoReport
    BY DEF Init
  <2>2. task \in [step : {"idle", "upas listed", "reservations listed", "scope read",
                           "completed", "inconsistent_data", "failed"},
                  upas : SUBSET Upas, todo : SUBSET Upas] /\ task.todo \subseteq task.upas
    BY <2>1
  <2>3. TypeOK
    BY <2>1, <2>2, NothingTyped, ChangesAssumption DEF Init, TypeOK
  <2>4. QED
    BY <2>1, <2>3 DEF DriftInv, StepsOfReading, ReadIsSo
<1>2. DriftInv /\ [Next]_vars => DriftInv'
  BY TypeKept, ReadingKept DEF DriftInv
<1>3. QED
  BY <1>1, <1>2, PTL DEF Spec

\* Every variable keeps its type.
THEOREM UpaDriftTyped == Spec => []TypeOK
<1>1. DriftInv => TypeOK
  BY DEF DriftInv
<1>2. QED
  BY <1>1, UpaDriftInvariance, PTL

\* The report of a comparison says of every pair that kept still exactly what is so.
THEOREM ReportsAreRight == Spec => SteadyPairsAreReported
<1> DEFINE Scope(p) == stps[p[1]].subscribed /\ upa_of[p[1]] \in peers
           Right(p) ==
             /\ p \in report'.upaOnly <=> Scope(p) /\ InRange(p) /\ AtUpa(p) /\ AtAggregator(p) = {}
             /\ p \in report'.aggregatorOnly
                  <=> Scope(p) /\ InRange(p) /\ AtAggregator(p) # {} /\ ~FailedOnly(p) /\ ~AtUpa(p)
             /\ p \in report'.failedOnly
                  <=> Scope(p) /\ InRange(p) /\ AtAggregator(p) # {} /\ FailedOnly(p) /\ ~AtUpa(p)
             /\ p \in report'.outside <=> Scope(p) /\ ~InRange(p) /\ (AtAggregator(p) # {} \/ AtUpa(p))
<1>1. ASSUME DriftInv, CompareUpaVlans, NEW p \in steady PROVE Right(p)
  <2>1. task.step = "scope read" /\ task.todo = {} /\ report' = Sections
    BY <1>1 DEF CompareUpaVlans, DriftInv, StepsOfReading
  <2>2. /\ Checked(p) <=> Scope(p)
        /\ p[2] \in read.ranges[p[1]].range <=> InRange(p)
        /\ p \in InUse <=> AtAggregator(p) # {}
        /\ p \in Live <=> ~FailedOnly(p)
        /\ p \in AtUpas <=> upa_of[p[1]] \in peers /\ AtUpa(p)
    BY <1>1, <2>1 DEF DriftInv, ReadIsSo, ReservationsRead, Checked
  <2>3. ~FailedOnly(p) => AtAggregator(p) # {}
    BY DEF FailedOnly
  <2>4. \A S : /\ p \in Inside(S) <=> p \in S /\ Scope(p) /\ InRange(p)
               /\ p \in Outside(S) <=> p \in S /\ Scope(p) /\ ~InRange(p)
    BY <2>2 DEF Inside, Outside
  <2>5. QED
    BY <2>1, <2>2, <2>3, <2>4 DEF Sections
<1>2. DriftInv =>
        [ CompareUpaVlans =>
            \A p \in steady :
              LET scope == stps[p[1]].subscribed /\ upa_of[p[1]] \in peers
                  aggregator == AtAggregator(p) # {}
              IN /\ p \in report'.upaOnly <=> scope /\ InRange(p) /\ AtUpa(p) /\ ~aggregator
                 /\ p \in report'.aggregatorOnly <=> scope /\ InRange(p) /\ aggregator /\ ~FailedOnly(p) /\ ~AtUpa(p)
                 /\ p \in report'.failedOnly <=> scope /\ InRange(p) /\ aggregator /\ FailedOnly(p) /\ ~AtUpa(p)
                 /\ p \in report'.outside <=> scope /\ ~InRange(p) /\ (aggregator \/ AtUpa(p)) ]_vars
  BY <1>1
<1>3. QED
  BY <1>2, UpaDriftInvariance, PTL DEF SteadyPairsAreReported

=============================================================================
