-------------------------- MODULE DdsInventory_proofs --------------------------
(***************************************************************************)
(* The properties of DdsInventory, proved for all constants: the inductive *)
(* invariants IInv and RangesInv of DdsInductive, what follows from them,  *)
(* and the refinement of SubscriptionLock.                                 *)
(*                                                                         *)
(* A step changes a process slot, a slot and the subscription it works on, *)
(* or makes a subscription; ProcessStep, WorkStep and ConstructStep say    *)
(* what such a step must respect.                                          *)
(***************************************************************************)
EXTENDS DdsInductive, SequenceTheorems, TLAPS

-----------------------------------------------------------------------------
(* Adverts *)

\* What is advertised for an object of each product.
LEMMA AdvertOfTopology ==
  ASSUME NEW o \in Topologies, NEW a \in Adverts(o)
  PROVE  a = Listed(<<>>, {})
BY DEF Adverts

LEMMA AdvertOfService ==
  ASSUME NEW o \in Services, NEW a \in Adverts(o)
  PROVE  \E t \in Topologies : a = Listed(<<t>>, {})
BY ProductsAssumption DEF Adverts

LEMMA AdvertOfStp ==
  ASSUME NEW o \in Stps, NEW a \in Adverts(o)
  PROVE  \E s \in Services, r \in Ranges : a = Listed(<<s>>, r)
<1>1. o \notin Topologies /\ o \notin Services
  BY ProductsAssumption
<1>2. Adverts(o) = {Listed(<<s>>, r) : s \in Services, r \in Ranges}
  BY <1>1 DEF Adverts
<1> QED BY <1>2

LEMMA AdvertOfSdp ==
  ASSUME NEW o \in Sdps, NEW a \in Adverts(o)
  PROVE  \E x, y \in EndsOf[o] : a = Listed(<<x, y>>, {})
<1>1. \E ends \in {e \in EndsOf[o] \X EndsOf[o] : e[1] # e[2]} : a = Listed(ends, {})
  BY ProductsAssumption DEF Adverts
<1>2. PICK ends \in EndsOf[o] \X EndsOf[o] : a = Listed(ends, {})
  BY <1>1
<1>3. PICK x \in EndsOf[o], y \in EndsOf[o] : ends = <<x, y>>
  OBVIOUS
<1> QED BY <1>2, <1>3

\* An STP, and nothing else, is advertised with a range.
LEMMA AdvertRange ==
  ASSUME NEW o \in Objects, NEW a \in Adverts(o)
  PROVE  a.range \in Ranges \cup {{}} /\ (o \in Stps <=> a.range # {})
<1>1. CASE o \in Topologies
  BY <1>1, AdvertOfTopology, ProductsAssumption DEF Listed
<1>2. CASE o \in Services
  BY <1>2, AdvertOfService, ProductsAssumption DEF Listed
<1>3. CASE o \in Stps
  <2>1. PICK s \in Services, r \in Ranges : a = Listed(<<s>>, r)
    BY <1>3, AdvertOfStp
  <2>2. r # {}
    BY RangesAssumption
  <2> QED BY <1>3, <2>1, <2>2 DEF Listed
<1>4. CASE o \in Sdps
  BY <1>4, AdvertOfSdp, ProductsAssumption DEF Listed
<1> QED BY <1>1, <1>2, <1>3, <1>4 DEF Objects

LEMMA AdvertTyped ==
  ASSUME NEW o \in Objects
  PROVE  Adverts(o) \subseteq Advert /\ Absent \in Advert
BY DEF Advert

-----------------------------------------------------------------------------
(* Subscriptions *)

\* The part of TypeOK that is about subscriptions.
SubsTyped == subs \in Seq(Subscription) /\ Len(subs) <= MaxSubs /\ \A i \in Sub : WellFormed(i)

\* Subscriptions are numbered from 1.
LEMMA SubFacts ==
  ASSUME TypeOK
  PROVE  /\ Len(subs) \in Nat /\ Len(subs) \in 0..MaxSubs /\ Sub = 1..Len(subs)
         /\ \A i \in Sub : subs[i] \in Subscription
<1>1. subs \in Seq(Subscription) /\ Len(subs) <= MaxSubs
  BY DEF TypeOK
<1>2. Len(subs) \in Nat /\ Sub = 1..Len(subs)
  BY <1>1, LenProperties DEF Sub
<1>3. \A i \in Sub : subs[i] \in Subscription
  BY <1>1, <1>2, ElementOfSeq
<1> QED BY <1>1, <1>2, <1>3, InventoryAssumption

\* What a workflow may make of a subscription: it keeps its object, its links and when
\* it was made, an STP has a range, and what is gone stays gone or is reopened.
Reworked(s, old) ==
  /\ s \in Subscription
  /\ s.object = old.object /\ s.links = old.links /\ s.made = old.made
  /\ s.object \in Stps <=> s.range # {}
  /\ old.status = "TERMINATED" \/ old.reopened => s.status = "TERMINATED" \/ s.reopened

\* Subscriptions are neither lost nor exchanged when one is worked on.
LEMMA Rework ==
  ASSUME TypeOK, NEW i \in Sub, NEW s, Reworked(s, subs[i]), subs' = [subs EXCEPT ![i] = s]
  PROVE  /\ SubsTyped' /\ Sub' = Sub /\ Len(subs') = Len(subs)
         /\ subs'[i] = s /\ \A j \in Sub \ {i} : subs'[j] = subs[j]
         /\ \A j \in Sub : /\ subs'[j].object = subs[j].object /\ subs'[j].links = subs[j].links
                           /\ subs'[j].made = subs[j].made
                           /\ Gone(j) => Gone(j)'
                           /\ \A k : LinksTo(j, k)' <=> LinksTo(j, k)
<1>1. subs \in Seq(Subscription) /\ s \in Subscription /\ Sub = 1..Len(subs)
  BY SubFacts DEF TypeOK, Reworked
<1>2. subs' \in Seq(Subscription) /\ Len(subs') = Len(subs)
  BY <1>1, ExceptSeq
<1>3. \A j \in Sub : subs'[j] = IF j = i THEN s ELSE subs[j]
  BY <1>1, ExceptSeq
<1>4. Sub' = Sub
  BY <1>1, <1>2, LenProperties DEF Sub
<1>5. \A j \in Sub : subs'[j].object = subs[j].object /\ subs'[j].links = subs[j].links
                     /\ subs'[j].made = subs[j].made
  BY <1>3 DEF Reworked
<1>6. ASSUME NEW j \in Sub PROVE Gone(j) => Gone(j)'
  BY <1>3 DEF Gone, Live, Reworked
<1>7. ASSUME NEW j \in Sub, NEW k PROVE LinksTo(j, k)' <=> LinksTo(j, k)
  BY <1>5 DEF LinksTo
<1>8. ASSUME NEW j \in Sub PROVE WellFormed(j)'
  <2>1. WellFormed(j)
    BY DEF TypeOK
  <2>2. \A k \in DOMAIN subs[j].links : subs[j].links[k] \in Sub
    BY <2>1 DEF WellFormed
  <2>3. [k \in DOMAIN subs[j].links |-> subs'[subs[j].links[k]].object]
          = [k \in DOMAIN subs[j].links |-> subs[subs[j].links[k]].object]
    BY <1>5, <2>2
  <2>4. subs'[j].object \in Stps <=> subs'[j].range # {}
    BY <1>3, <2>1 DEF Reworked, WellFormed
  <2>5. \A k \in DOMAIN subs'[j].links : subs'[j].links[k] \in Sub'
    BY <1>4, <1>5, <2>2
  <2>6. [k \in DOMAIN subs[j].links |-> subs[subs[j].links[k]].object]
          \in {a.parents : a \in Adverts(subs[j].object)}
    BY <2>1 DEF WellFormed
  <2>7. subs'[j].links = subs[j].links /\ subs'[j].object = subs[j].object
    BY <1>5
  <2>8. [k \in DOMAIN subs'[j].links |-> subs'[subs'[j].links[k]].object]
          = [k \in DOMAIN subs[j].links |-> subs[subs[j].links[k]].object]
    BY <2>3, <2>7
  <2>9. [k \in DOMAIN subs'[j].links |-> subs'[subs'[j].links[k]].object]
          \in {a.parents : a \in Adverts(subs'[j].object)}
    BY <2>6, <2>7, <2>8
  <2> QED BY <2>4, <2>5, <2>9 DEF WellFormed
<1>9. Len(subs') <= MaxSubs
  BY <1>2 DEF TypeOK
<1> QED BY <1>2, <1>3, <1>4, <1>5, <1>6, <1>7, <1>8, <1>9 DEF SubsTyped

-----------------------------------------------------------------------------
(* Steps that change one process slot *)

Raced == [form : SUBSET Circuits, stored : SUBSET Circuits]

LEMMA IdleTyped ==
  Idle \in Process
BY InventoryAssumption DEF Idle, Process, Advert

\* The slot p becomes q and the subscriptions stay: a form that is submitted has seen
\* what it must, and nobody comes past a lock.
ProcessChange(p, q) ==
  /\ q \in Process /\ ProcessWellFormed(q)
  /\ q.step \notin {"none", "construct", "lock"} => Past(p) /\ q.sub = proc[p].sub
  /\ q.step = "activate" => proc[p].step = "activate"
  /\ q.step = "construct" => \A i \in 1..q.made : subs[i].object = q.object => Gone(i)
  /\ InUseGuard /\ q.wf = "terminate" /\ q.step \in {"lock", "close"} =>
       \A j \in 1..q.made : LinksTo(j, q.sub) => Gone(j)
  /\ proc' = [proc EXCEPT ![p] = q] /\ starts' \in 0..MaxStarts
  /\ raced' \in Raced
  /\ UNCHANGED <<dds, subs, circuits, changes>>

LEMMA ProcessStep ==
  ASSUME IInv, NEW p \in Procs, NEW q, ProcessChange(p, q)
  PROVE  IInv'
<1> USE DEF IInv, Bookkeeping
<1>1. /\ q \in Process /\ UNCHANGED <<dds, subs, circuits, changes>> /\ starts' \in 0..MaxStarts
      /\ proc' = [proc EXCEPT ![p] = q] /\ raced' \in Raced
  BY DEF ProcessChange
<1>2. TypeOK'
  BY <1>1 DEF TypeOK, Sub, WellFormed, Raced
<1>3. proc'[p] = q /\ \A r \in Procs \ {p} : proc'[r] = proc[r]
  BY <1>1 DEF TypeOK
<1>4. AdvertsFit'
  BY <1>1 DEF AdvertsFit
<1>5. ProcessesWellFormed'
  <2>1. \A r : ProcessWellFormed(r)' <=> ProcessWellFormed(r)
    BY <1>1 DEF ProcessWellFormed, Sub
  <2>2. \A r \in Procs : ProcessWellFormed(proc'[r])
    BY <1>3 DEF ProcessChange, ProcessesWellFormed
  <2> QED BY <2>1, <2>2 DEF ProcessesWellFormed
<1>6. OneAtWork'
  <2>1. \A r \in Procs : Past(r)' => Past(r) /\ proc'[r].sub = proc[r].sub
    BY <1>3 DEF ProcessChange, Past
  <2> QED BY <1>1, <2>1 DEF OneAtWork, Mine
<1>7. ActivatesLive'
  <2>1. \A r \in Procs : proc'[r].step = "activate" =>
          proc[r].step = "activate" /\ proc'[r].sub = proc[r].sub
    BY <1>3 DEF ProcessChange
  <2> QED BY <1>1, <2>1 DEF ActivatesLive, Live
<1>8. FormSawNone'
  BY <1>1, <1>3 DEF FormSawNone, ProcessChange, Gone, Live
<1>9. FormSawUnused'
  BY <1>1, <1>3 DEF FormSawUnused, ProcessChange, LinksTo, Gone, Live
<1>10. SecondIsRaced' /\ UnusedWhenClosed'
  BY <1>1 DEF SecondIsRaced, UnusedWhenClosed, Sub, LinksTo, Gone, Live
<1> QED BY <1>2, <1>4, <1>5, <1>6, <1>7, <1>8, <1>9, <1>10

-----------------------------------------------------------------------------
(* Steps that change a slot and the subscription it works on *)

\* The slot p becomes q, and its subscription s.  Who locks finds it in sync, who puts it
\* in sync ends; what is terminated was so before, or is now for what the form saw.
WorkChange(p, q, s) ==
  /\ proc[p].sub \in Sub /\ (Past(p) \/ (proc[p].step = "lock" /\ Mine(p).insync))
  /\ q \in Process /\ Reworked(s, Mine(p))
  /\ \/ q = Idle
     \/ /\ q.step \notin {"none", "construct", "lock"} /\ ~s.insync /\ q.run = "running"
        /\ q.sub = proc[p].sub /\ q.made = proc[p].made /\ q.wf = proc[p].wf
  /\ q.step = "activate" => s.status # "TERMINATED"
  /\ q.step = "close" => q.wf = "terminate" /\ proc[p].step = "lock"
  /\ q.step = "reconcile" => q.wf = "reconcile"
  /\ q.step # "store"
  /\ s.status = "TERMINATED" => \/ Mine(p).status = "TERMINATED" /\ s.closing = Mine(p).closing
                                \/ proc[p].step = "close" /\ s.closing = proc[p].made
  /\ proc' = [proc EXCEPT ![p] = q] /\ subs' = [subs EXCEPT ![proc[p].sub] = s]
  /\ raced' \in Raced
  /\ UNCHANGED <<dds, circuits, starts, changes>>

LEMMA WorkStep ==
  ASSUME IInv, NEW p \in Procs, NEW q, NEW s, WorkChange(p, q, s)
  PROVE  IInv'
<1> DEFINE i == proc[p].sub
<1> USE DEF IInv, Bookkeeping
<1>1. /\ i \in Sub /\ q \in Process /\ UNCHANGED <<dds, circuits, starts, changes>>
      /\ proc' = [proc EXCEPT ![p] = q] /\ raced' \in Raced
  BY DEF WorkChange
<1>2. Reworked(s, subs[i]) /\ subs' = [subs EXCEPT ![i] = s] /\ TypeOK
  BY DEF WorkChange, Mine
<1>3. /\ SubsTyped' /\ Sub' = Sub /\ Len(subs') = Len(subs)
      /\ subs'[i] = s /\ \A j \in Sub \ {i} : subs'[j] = subs[j]
      /\ \A j \in Sub : /\ subs'[j].object = subs[j].object /\ subs'[j].links = subs[j].links
                        /\ subs'[j].made = subs[j].made
                        /\ Gone(j) => Gone(j)'
                        /\ \A k : LinksTo(j, k)' <=> LinksTo(j, k)
  BY <1>1, <1>2, Rework
<1>4. TypeOK'
  BY <1>1, <1>3 DEF TypeOK, SubsTyped, Raced
<1>5. proc'[p] = q /\ \A r \in Procs \ {p} : proc'[r] = proc[r]
  BY <1>1 DEF TypeOK
<1>6. AdvertsFit'
  BY <1>1 DEF AdvertsFit
<1>7. \A r \in Procs : Past(r) => proc[r].sub \in Sub
  BY DEF ProcessesWellFormed, ProcessWellFormed, Past
<1>8. \A r \in Procs \ {p} : Past(r) => proc[r].sub # i
  BY DEF OneAtWork, WorkChange, Past, Mine
<1>9. ProcessesWellFormed'
  <2>1. ASSUME NEW r \in Procs \ {p} PROVE ProcessWellFormed(proc[r])'
    <3>1. ProcessWellFormed(proc[r]) /\ proc'[r] = proc[r]
      BY <1>5 DEF ProcessesWellFormed
    <3>2. proc[r].wf = "reconcile" => proc[r].sub \in Sub
      BY <3>1 DEF ProcessWellFormed, Idle, AfterLock
    <3> QED BY <1>3, <3>1, <3>2 DEF ProcessWellFormed
  <2>2. ProcessWellFormed(Idle)'
    BY <1>3, SubFacts DEF ProcessWellFormed, Idle
  <2>3. ASSUME q # Idle PROVE ProcessWellFormed(q)'
    <3>1. ProcessWellFormed(proc[p])
      BY DEF ProcessesWellFormed
    <3> QED BY <1>1, <1>3, <2>3, <3>1 DEF ProcessWellFormed, WorkChange
  <2> QED BY <1>5, <2>1, <2>2, <2>3 DEF ProcessesWellFormed
<1>10. OneAtWork'
  <2>1. Past(p)' => proc'[p].sub = i /\ ~s.insync
    BY <1>5 DEF WorkChange, Past, Idle
  <2>2. \A r \in Procs \ {p} : Past(r)' <=> Past(r)
    BY <1>5 DEF Past
  <2>3. \A r, t \in Procs : Past(r)' /\ Past(t)' /\ proc'[r].sub = proc'[t].sub => r = t
    BY <1>5, <1>8, <2>1, <2>2 DEF OneAtWork
  <2>4. \A r \in Procs : Past(r)' => ~subs'[proc'[r].sub].insync
    BY <1>3, <1>5, <1>7, <1>8, <2>1, <2>2 DEF OneAtWork, Mine
  <2> QED BY <2>3, <2>4 DEF OneAtWork, Mine
<1>11. ActivatesLive'
  <2>1. \A r \in Procs \ {p} : proc'[r].step = "activate" => Live(proc[r].sub)'
    BY <1>3, <1>5, <1>7, <1>8 DEF ActivatesLive, Live, Past
  <2>2. proc'[p].step = "activate" => Live(proc[p].sub)'
    BY <1>3, <1>5 DEF WorkChange, Live, Idle
  <2> QED BY <2>1, <2>2 DEF ActivatesLive
<1>12. \A r \in Procs : proc[r].made \in Nat /\ proc[r].made <= Len(subs) /\ 1..proc[r].made \subseteq Sub
  BY SubFacts, InventoryAssumption DEF TypeOK, Process, ProcessesWellFormed, ProcessWellFormed
<1>13. FormSawNone'
  <2>1. q.step # "construct"
    BY DEF WorkChange, Idle
  <2> QED BY <1>3, <1>5, <1>12, <2>1 DEF FormSawNone
<1>14. FormSawUnused'
  <2>1. q.wf = "terminate" /\ q.step \in {"lock", "close"} =>
          /\ proc[p].wf = "terminate" /\ proc[p].step \in {"lock", "close"}
          /\ q.sub = proc[p].sub /\ q.made = proc[p].made
    BY DEF WorkChange, Idle
  <2> QED BY <1>3, <1>5, <1>12, <2>1 DEF FormSawUnused
<1>15. SecondIsRaced'
  BY <1>3 DEF SecondIsRaced
<1>16. UnusedWhenClosed'
  <2>1. ASSUME InUseGuard, NEW j \in Sub, LinksTo(j, i), s.status = "TERMINATED", j <= s.closing
        PROVE  Gone(j)
    <3>1. CASE Mine(p).status = "TERMINATED" /\ s.closing = Mine(p).closing
      BY <1>1, <2>1, <3>1 DEF UnusedWhenClosed, Mine, Live
    <3>2. CASE proc[p].step = "close" /\ s.closing = proc[p].made
      <4>1. proc[p].wf = "terminate"
        BY <3>2 DEF ProcessesWellFormed, ProcessWellFormed
      <4>2. j \in 1..proc[p].made
        BY <1>12, <2>1, <3>2, SubFacts
      <4> QED BY <2>1, <3>2, <4>1, <4>2 DEF FormSawUnused
    <3> QED BY <2>1, <3>1, <3>2 DEF WorkChange
  <2>2. ASSUME InUseGuard, NEW k \in Sub, NEW j \in Sub, LinksTo(j, k), ~Live(k)', j <= subs'[k].closing
        PROVE  Gone(j)
    <3>1. CASE k = i
      BY <1>3, <2>1, <2>2, <3>1 DEF Live
    <3>2. CASE k # i
      BY <1>3, <2>2, <3>2 DEF UnusedWhenClosed, Live
    <3> QED BY <3>1, <3>2
  <2> QED BY <1>3, <2>2 DEF UnusedWhenClosed
<1> QED BY <1>4, <1>6, <1>9, <1>10, <1>11, <1>13, <1>14, <1>15, <1>16

-----------------------------------------------------------------------------
(* The step that makes a subscription *)

\* The links of a new subscription lead to live ones for the parents in the advert.
LinksFit(p, links) ==
  /\ links \in Links /\ \A k \in DOMAIN links : links[k] \in Sub /\ Live(links[k])
  /\ [k \in DOMAIN links |-> subs[links[k]].object] = proc[p].advert.parents

LEMMA ConstructStep ==
  ASSUME IInv, NEW p \in Procs, NEW links, LinksFit(p, links), Construct(p, links)
  PROVE  IInv'
<1> USE DEF IInv, Bookkeeping
<1>0. PICK n \in Nat : n = Len(subs) + 1
  BY SubFacts
<1> DEFINE o == proc[p].object
           s == [object |-> o, links |-> links,
                 range |-> proc[p].advert.range, status |-> "PROVISIONING",
                 insync |-> FALSE, made |-> proc[p].made, reopened |-> FALSE, closing |-> 0]
           q == [Idle EXCEPT !.wf = "create", !.step = "activate", !.run = "running", !.sub = n]
<1>1. /\ proc[p].step = "construct" /\ Len(subs) < MaxSubs /\ subs' = Append(subs, s)
      /\ UNCHANGED <<dds, circuits, starts, changes, raced>>
  BY DEF Construct, At, history
<1>2. /\ Len(subs) \in Nat /\ Sub = 1..Len(subs) /\ \A i \in Sub : subs[i] \in Subscription
      /\ subs \in Seq(Subscription) /\ MaxSubs \in Nat /\ 0 \in 0..MaxSubs
  BY SubFacts, InventoryAssumption DEF TypeOK
<1>3. /\ o \in Objects /\ proc[p].advert \in Adverts(o) /\ proc[p].made \in 0..MaxSubs
      /\ proc[p].made <= Len(subs)
  BY <1>1 DEF ProcessesWellFormed, ProcessWellFormed, TypeOK, Process
<1>4. proc[p].advert.range \in Ranges \cup {{}} /\ (o \in Stps <=> proc[p].advert.range # {})
  BY <1>3, AdvertRange
<1>5. s \in Subscription
  BY <1>2, <1>3, <1>4 DEF Subscription, LinksFit
<1>6. subs' \in Seq(Subscription) /\ Len(subs') = n /\ subs'[n] = s /\ \A i \in Sub : subs'[i] = subs[i]
  BY <1>0, <1>1, <1>2, <1>5, AppendProperties
<1>7. Sub' = 1..n /\ Sub' = Sub \cup {n} /\ n \notin Sub /\ n \in 0..MaxSubs
  <2>1. Sub' = 1..n
    BY <1>6, LenProperties DEF Sub
  <2> QED BY <1>0, <1>1, <1>2, <2>1
<1>8. q \in Process /\ q.sub = n /\ q.run = "running" /\ q.step = "activate" /\ q.made = 0 /\ q.wf = "create"
  BY <1>7, IdleTyped DEF Process, Idle
<1>9. proc' = [proc EXCEPT ![p] = q]
  BY <1>6 DEF Construct
<1>10. proc'[p] = q /\ \A r \in Procs \ {p} : proc'[r] = proc[r]
  BY <1>9 DEF TypeOK
<1>11. \A i \in Sub : i # n /\ (Gone(i)' <=> Gone(i)) /\ \A k : LinksTo(i, k)' <=> LinksTo(i, k)
  BY <1>6, <1>7 DEF Gone, Live, LinksTo
<1>12. ASSUME NEW i \in Sub PROVE /\ \A k \in DOMAIN subs[i].links : subs[i].links[k] \in Sub
                                  /\ WellFormed(i)'
  <2>1. /\ \A k \in DOMAIN subs[i].links : subs[i].links[k] \in Sub
        /\ [k \in DOMAIN subs[i].links |-> subs[subs[i].links[k]].object]
             \in {a.parents : a \in Adverts(subs[i].object)}
        /\ subs[i].object \in Stps <=> subs[i].range # {}
    BY DEF TypeOK, WellFormed
  <2>2. [k \in DOMAIN subs[i].links |-> subs'[subs[i].links[k]].object]
          = [k \in DOMAIN subs[i].links |-> subs[subs[i].links[k]].object]
    BY <1>6, <2>1
  <2>3. subs'[i] = subs[i]
    BY <1>6
  <2>4. [k \in DOMAIN subs'[i].links |-> subs'[subs'[i].links[k]].object]
          = [k \in DOMAIN subs[i].links |-> subs[subs[i].links[k]].object]
    BY <2>2, <2>3
  <2>5. [k \in DOMAIN subs'[i].links |-> subs'[subs'[i].links[k]].object]
          \in {a.parents : a \in Adverts(subs'[i].object)}
    BY <2>1, <2>3, <2>4
  <2> QED BY <1>7, <2>1, <2>3, <2>5 DEF WellFormed
<1>13. WellFormed(n)'
  <2>1. subs'[n].links = links /\ subs'[n].object = o /\ subs'[n].range = proc[p].advert.range
    BY <1>6
  <2>2. [k \in DOMAIN links |-> subs'[links[k]].object] = [k \in DOMAIN links |-> subs[links[k]].object]
    BY <1>6 DEF LinksFit
  <2>3. [k \in DOMAIN links |-> subs'[links[k]].object] = proc[p].advert.parents
    BY <2>2 DEF LinksFit
  <2>4. [k \in DOMAIN subs'[n].links |-> subs'[subs'[n].links[k]].object] = proc[p].advert.parents
    BY <2>1, <2>3
  <2>5. [k \in DOMAIN subs'[n].links |-> subs'[subs'[n].links[k]].object]
          \in {a.parents : a \in Adverts(subs'[n].object)}
    BY <1>3, <2>1, <2>4
  <2>6. \A k \in DOMAIN subs'[n].links : subs'[n].links[k] \in Sub'
    BY <1>7, <2>1 DEF LinksFit
  <2> QED BY <1>4, <2>1, <2>5, <2>6 DEF WellFormed
<1>14. TypeOK'
  <2>1. \A i \in Sub' : WellFormed(i)'
    BY <1>7, <1>12, <1>13
  <2>2. Len(subs') <= MaxSubs
    BY <1>1, <1>2, <1>6
  <2> QED BY <1>1, <1>6, <1>8, <1>9, <2>1, <2>2 DEF TypeOK
<1>15. AdvertsFit'
  BY <1>1 DEF AdvertsFit
<1>16. ProcessesWellFormed'
  <2>1. ASSUME NEW r \in Procs \ {p} PROVE ProcessWellFormed(proc[r])'
    <3>1. ProcessWellFormed(proc[r]) /\ proc'[r] = proc[r] /\ proc[r].made \in Nat
      BY <1>10, InventoryAssumption DEF ProcessesWellFormed, TypeOK, Process
    <3>2. proc[r].wf = "reconcile" => proc[r].sub \in Sub
      BY <3>1 DEF ProcessWellFormed, Idle
    <3> QED BY <1>2, <1>6, <1>7, <3>1, <3>2 DEF ProcessWellFormed
  <2>2. ProcessWellFormed(proc[p])'
    BY <1>6, <1>7, <1>8, <1>10, <1>2 DEF ProcessWellFormed
  <2> QED BY <2>1, <2>2 DEF ProcessesWellFormed
<1>17. \A r \in Procs : Past(r) => proc[r].sub \in Sub
  BY DEF ProcessesWellFormed, ProcessWellFormed, Past
<1>18. OneAtWork'
  <2>1. \A r \in Procs \ {p} : (Past(r)' <=> Past(r)) /\ (Past(r) => proc'[r].sub = proc[r].sub /\ proc[r].sub # n)
    BY <1>7, <1>10, <1>17 DEF Past
  <2>2. proc'[p].sub = n /\ ~subs'[n].insync
    BY <1>6, <1>8, <1>10
  <2>3. ASSUME NEW r \in Procs, NEW t \in Procs, Past(r)', Past(t)', proc'[r].sub = proc'[t].sub
        PROVE  r = t
    <3>1. CASE r # p /\ t # p
      BY <2>1, <2>3, <3>1 DEF OneAtWork
    <3>2. CASE r = p \/ t = p
      BY <2>1, <2>2, <2>3, <3>2
    <3> QED BY <3>1, <3>2
  <2>4. ASSUME NEW r \in Procs, Past(r)' PROVE ~subs'[proc'[r].sub].insync
    <3>1. CASE r # p
      BY <1>6, <1>17, <2>1, <2>4, <3>1 DEF OneAtWork, Mine
    <3>2. CASE r = p
      BY <2>2, <3>2
    <3> QED BY <3>1, <3>2
  <2> QED BY <2>3, <2>4 DEF OneAtWork, Mine
<1>19. ActivatesLive'
  <2>1. \A r \in Procs \ {p} : proc'[r].step = "activate" => Live(proc[r].sub)' /\ proc'[r].sub = proc[r].sub
    BY <1>6, <1>10, <1>17 DEF ActivatesLive, Live, Past
  <2>2. Live(n)'
    BY <1>6 DEF Live
  <2>3. ASSUME NEW r \in Procs, proc'[r].step = "activate" PROVE subs'[proc'[r].sub].status # "TERMINATED"
    <3>1. CASE r # p
      BY <2>1, <2>3, <3>1 DEF Live
    <3>2. CASE r = p
      BY <1>8, <1>10, <2>2, <3>2 DEF Live
    <3> QED BY <3>1, <3>2
  <2> QED BY <2>3 DEF ActivatesLive, Live
<1>20. \A r \in Procs : 1..proc[r].made \subseteq Sub
  BY <1>2, InventoryAssumption DEF TypeOK, Process, ProcessesWellFormed, ProcessWellFormed
<1>21. FormSawNone'
  BY <1>6, <1>8, <1>10, <1>11, <1>20 DEF FormSawNone
<1>22. FormSawUnused'
  BY <1>6, <1>8, <1>10, <1>11, <1>20 DEF FormSawUnused
<1>23. SecondIsRaced'
  <2>1. ASSUME NEW i \in Sub', NEW j \in Sub', i < j, subs'[i].object = subs'[j].object, i <= subs'[j].made
        PROVE  Gone(i)'
    <3>1. i \in Sub
      BY <1>2, <1>7, <2>1
    <3>2. CASE j \in Sub
      BY <1>6, <1>11, <2>1, <3>1, <3>2 DEF SecondIsRaced
    <3>3. CASE j = n
      <4>1. i \in 1..proc[p].made /\ subs[i].object = o
        BY <1>2, <1>3, <1>6, <2>1, <3>1, <3>3
      <4> QED BY <1>1, <1>11, <3>1, <4>1 DEF FormSawNone
    <3> QED BY <1>7, <3>2, <3>3
  <2> QED BY <2>1 DEF SecondIsRaced
<1>24. UnusedWhenClosed'
  <2>1. ASSUME InUseGuard, NEW i \in Sub', NEW j \in Sub', LinksTo(j, i)', ~Live(i)', j <= subs'[i].closing
        PROVE  Gone(j)'
    <3>1. i \in Sub
      BY <1>6, <1>7, <2>1 DEF Live
    <3>2. ~Live(i)
      BY <1>6, <2>1, <3>1 DEF Live
    <3>3. j # n
      BY <1>6, <2>1, <3>2 DEF LinksTo, LinksFit
    <3> QED BY <1>6, <1>7, <1>11, <2>1, <3>1, <3>2, <3>3 DEF UnusedWhenClosed
  <2> QED BY <2>1 DEF UnusedWhenClosed
<1> QED BY <1>14, <1>15, <1>16, <1>18, <1>19, <1>21, <1>22, <1>23, <1>24

-----------------------------------------------------------------------------
(* The actions of the create workflows *)

LEMMA SubmitCreateSafe ==
  ASSUME IInv, NEW p \in Procs, NEW o \in Objects, dds[o].listed, o \notin Subscribed, SubmitCreate(p, o)
  PROVE  IInv'
<1> USE DEF IInv, Bookkeeping
<1> DEFINE q == [wf |-> "create", step |-> "construct", run |-> "running",
                 sub |-> 0, object |-> o, advert |-> dds[o], made |-> Len(subs)]
<1>1. dds[o] \in Adverts(o)
  BY DEF AdvertsFit, Absent
<1>2. q \in Process
  BY <1>1, SubFacts, AdvertTyped, InventoryAssumption DEF Process
<1>3. ProcessWellFormed(q)
  BY <1>1, SubFacts DEF ProcessWellFormed, Idle
<1>4. \A i \in 1..Len(subs) : subs[i].object = o => Gone(i)
  BY SubFacts DEF Subscribed, Gone
<1>5. starts' \in 0..MaxStarts /\ raced' \in Raced
  BY InventoryAssumption DEF SubmitCreate, CanStart, TypeOK, Raced
<1>6. ProcessChange(p, q)
  BY <1>2, <1>3, <1>4, <1>5 DEF ProcessChange, SubmitCreate
<1> QED BY <1>6, ProcessStep

\* The four forms offer what is advertised and has no subscription.
LEMMA CreateSafe ==
  ASSUME IInv, NEW p \in Procs,
         CreateTopology(p) \/ CreateSwitchingService(p) \/ CreateStp(p) \/ CreateSdp(p)
  PROVE  IInv'
<1>1. \E o \in Objects : dds[o].listed /\ o \notin Subscribed /\ SubmitCreate(p, o)
  BY DEF CreateTopology, CreateSwitchingService, CreateStp, CreateSdp, AvailableTopologies,
         AvailableSwitchingServices, AvailableServiceTerminationPoints,
         AvailableServiceDemarcationPoints, Offered, Objects
<1> QED BY <1>1, SubmitCreateSafe

\* An owner is a live subscription.
LEMMA OwnerFacts ==
  ASSUME TypeOK, NEW o, NEW i \in Owners(o)
  PROVE  i \in Sub /\ Live(i) /\ subs[i].object = o /\ i \in 1..MaxSubs
BY SubFacts, InventoryAssumption DEF Owners

LEMMA ConstructTopologySafe ==
  ASSUME IInv, NEW p \in Procs, ConstructTopology(p)
  PROVE  IInv'
<1> USE DEF IInv, Bookkeeping
<1>1. proc[p].object \in Topologies /\ Construct(p, <<>>) /\ proc[p].step = "construct"
  BY DEF ConstructTopology, Construct, At
<1>2. proc[p].advert.parents = <<>>
  BY <1>1, AdvertOfTopology DEF ProcessesWellFormed, ProcessWellFormed, Listed
<1>3. LinksFit(p, <<>>)
  BY <1>2 DEF LinksFit, Links
<1> QED BY <1>1, <1>3, ConstructStep

\* One parent, one link.
LEMMA OneLinkFits ==
  ASSUME TypeOK, NEW p \in Procs, NEW x, proc[p].advert.parents = <<x>>, NEW i \in Owners(x)
  PROVE  LinksFit(p, <<i>>)
<1>1. i \in Sub /\ Live(i) /\ subs[i].object = x /\ i \in 1..MaxSubs
  BY OwnerFacts
<1>2. [k \in DOMAIN <<i>> |-> subs[<<i>>[k]].object] = <<x>>
  BY <1>1
<1>3. <<i>> \in Links
  BY <1>1 DEF Links
<1> QED BY <1>1, <1>2, <1>3 DEF LinksFit

LEMMA ConstructSwitchingServiceSafe ==
  ASSUME IInv, NEW p \in Procs, ConstructSwitchingService(p)
  PROVE  IInv'
<1> USE DEF IInv, Bookkeeping
<1>1. proc[p].object \in Services /\ proc[p].step = "construct"
  BY DEF ConstructSwitchingService, Construct, At
<1>2. PICK t \in Topologies : proc[p].advert = Listed(<<t>>, {})
  BY <1>1, AdvertOfService DEF ProcessesWellFormed, ProcessWellFormed
<1>3. proc[p].advert.parents = <<t>> /\ proc[p].advert.parents[1] = t
  BY <1>2 DEF Listed
<1>4. PICK i \in Owners(t) : Construct(p, <<i>>)
  BY <1>3 DEF ConstructSwitchingService
<1> QED BY <1>3, <1>4, OneLinkFits, ConstructStep

LEMMA ConstructStpSafe ==
  ASSUME IInv, NEW p \in Procs, ConstructStp(p)
  PROVE  IInv'
<1> USE DEF IInv, Bookkeeping
<1>1. proc[p].object \in Stps /\ proc[p].step = "construct"
  BY DEF ConstructStp, Construct, At
<1>2. PICK s \in Services, r \in Ranges : proc[p].advert = Listed(<<s>>, r)
  BY <1>1, AdvertOfStp DEF ProcessesWellFormed, ProcessWellFormed
<1>3. proc[p].advert.parents = <<s>> /\ proc[p].advert.parents[1] = s
  BY <1>2 DEF Listed
<1>4. PICK i \in Owners(s) : Construct(p, <<i>>)
  BY <1>3 DEF ConstructStp
<1> QED BY <1>3, <1>4, OneLinkFits, ConstructStep

LEMMA ConstructSdpSafe ==
  ASSUME IInv, NEW p \in Procs, ConstructSdp(p)
  PROVE  IInv'
<1> USE DEF IInv, Bookkeeping
<1>1. proc[p].object \in Sdps /\ proc[p].step = "construct"
  BY DEF ConstructSdp, Construct, At
<1>2. PICK x \in EndsOf[proc[p].object], y \in EndsOf[proc[p].object] :
        proc[p].advert = Listed(<<x, y>>, {})
  BY <1>1, AdvertOfSdp DEF ProcessesWellFormed, ProcessWellFormed
<1>3. proc[p].advert.parents = <<x, y>> /\ proc[p].advert.parents[1] = x /\ proc[p].advert.parents[2] = y
  BY <1>2 DEF Listed
<1>4. PICK i \in Owners(x), j \in Owners(y) : Construct(p, <<i, j>>)
  BY <1>3 DEF ConstructSdp
<1>5. /\ i \in Sub /\ Live(i) /\ subs[i].object = x /\ i \in 1..MaxSubs
      /\ j \in Sub /\ Live(j) /\ subs[j].object = y /\ j \in 1..MaxSubs
  BY OwnerFacts
<1>6. [k \in DOMAIN <<i, j>> |-> subs[<<i, j>>[k]].object] = <<x, y>>
  BY <1>5
<1>7. <<i, j>> \in Links
  BY <1>5 DEF Links
<1>8. LinksFit(p, <<i, j>>)
  BY <1>3, <1>5, <1>6, <1>7 DEF LinksFit
<1> QED BY <1>4, <1>8, ConstructStep

-----------------------------------------------------------------------------
(* The actions of the workflows on a subscription *)

LEMMA SubmitSafe ==
  ASSUME IInv, NEW p \in Procs, NEW i \in Sub, NEW wf \in DOMAIN AfterLock, Submit(p, wf, i),
         wf = "reconcile" => subs[i].object \in Stps,
         InUseGuard /\ wf = "terminate" => ~InUse(i)
  PROVE  IInv'
<1> USE DEF IInv, Bookkeeping
<1> DEFINE q == [Idle EXCEPT !.wf = wf, !.step = "lock", !.run = "running", !.sub = i, !.made = Len(subs)]
<1>0. i \in 0..MaxSubs /\ Len(subs) \in 0..MaxSubs /\ wf \in {"modify", "terminate", "validate", "reconcile"}
  BY SubFacts, InventoryAssumption DEF AfterLock
<1>1. q \in Process /\ q.wf = wf /\ q.step = "lock" /\ q.run = "running" /\ q.sub = i /\ q.made = Len(subs)
  BY <1>0, IdleTyped DEF Process, Idle
<1>2. ProcessWellFormed(q)
  BY <1>1, SubFacts DEF ProcessWellFormed
<1>3. InUseGuard /\ wf = "terminate" => \A j \in 1..Len(subs) : LinksTo(j, i) => Gone(j)
  BY SubFacts DEF InUse, Gone
<1>4. starts' \in 0..MaxStarts /\ raced' \in Raced
  BY InventoryAssumption DEF Submit, CanStart, TypeOK, Raced
<1>5. proc' = [proc EXCEPT ![p] = q] /\ UNCHANGED <<dds, subs, circuits, changes>>
  BY DEF Submit
<1>6. ProcessChange(p, q)
  BY <1>1, <1>2, <1>3, <1>4, <1>5 DEF ProcessChange
<1> QED BY <1>6, ProcessStep

\* Who is past the lock has a subscription; who waits for the lock has one, too.
LEMMA WorkerFacts ==
  ASSUME IInv, NEW p \in Procs, proc[p].step \notin {"none", "construct"}
  PROVE  /\ proc[p].sub \in Sub /\ proc[p] \in Process /\ Mine(p) \in Subscription
         /\ Mine(p).object \in Stps <=> Mine(p).range # {}
         /\ proc[p].step # "lock" => Past(p) /\ ~Mine(p).insync
         /\ ProcessWellFormed(proc[p])
<1> USE DEF IInv, Bookkeeping
<1>1. proc[p].sub \in Sub /\ proc[p] \in Process /\ ProcessWellFormed(proc[p])
  BY DEF TypeOK, ProcessesWellFormed, ProcessWellFormed
<1>2. Mine(p) \in Subscription
  BY <1>1, SubFacts DEF Mine
<1>3. Mine(p).object \in Stps <=> Mine(p).range # {}
  BY <1>1 DEF TypeOK, WellFormed, Mine
<1>4. proc[p].step # "lock" => Past(p) /\ ~Mine(p).insync
  BY DEF OneAtWork, Past
<1> QED BY <1>1, <1>2, <1>3, <1>4

LEMMA LockSafe ==
  ASSUME IInv, NEW p \in Procs, Lock(p)
  PROVE  IInv'
<1> DEFINE i == proc[p].sub
           q == [proc[p] EXCEPT !.step = AfterLock[proc[p].wf]]
           s == [subs[i] EXCEPT !.insync = FALSE]
<1>1. proc[p].step = "lock" /\ proc[p].run = "running" /\ Mine(p).insync
  BY DEF Lock, At
<1>2. /\ i \in Sub /\ proc[p] \in Process /\ Mine(p) \in Subscription
      /\ Mine(p).object \in Stps <=> Mine(p).range # {}
      /\ proc[p].wf \in {"modify", "terminate", "validate", "reconcile"}
  BY <1>1, WorkerFacts DEF ProcessWellFormed, AfterLock
<1>3. /\ proc' = [proc EXCEPT ![p] = q] /\ subs' = [subs EXCEPT ![i] = s]
      /\ UNCHANGED <<dds, circuits, history>>
  BY DEF Lock, Goto, Set
<1>4. /\ q \in Process /\ q.step \in {"provisioning", "close", "validate", "reconcile"}
      /\ q.run = "running" /\ q.sub = i /\ q.made = proc[p].made /\ q.wf = proc[p].wf
      /\ q.step = "close" => q.wf = "terminate"
      /\ q.step = "reconcile" => q.wf = "reconcile"
  BY <1>1, <1>2 DEF Process, AfterLock
<1>5. Reworked(s, Mine(p)) /\ ~s.insync /\ s.status = Mine(p).status /\ s.closing = Mine(p).closing
  BY <1>2 DEF Reworked, Mine, Subscription
<1>6. raced' \in Raced
  BY <1>3 DEF history, IInv, TypeOK, Raced
<1>7. WorkChange(p, q, s)
  BY <1>1, <1>2, <1>3, <1>4, <1>5, <1>6 DEF WorkChange, history
<1> QED BY <1>7, WorkStep

\* A step past the lock goes on to another one, which is no close and no reconcile.
LEMMA StepOn ==
  ASSUME IInv, NEW p \in Procs, proc[p].step \notin {"none", "construct", "lock"}, proc[p].run = "running",
         NEW next \in {"vlans", "activate", "resync"}, NEW s, Reworked(s, Mine(p)), ~s.insync,
         next = "activate" => s.status # "TERMINATED",
         s.status = "TERMINATED" => \/ Mine(p).status = "TERMINATED" /\ s.closing = Mine(p).closing
                                    \/ proc[p].step = "close" /\ s.closing = proc[p].made,
         Goto(p, next), subs' = [subs EXCEPT ![proc[p].sub] = s], UNCHANGED <<dds, circuits, history>>
  PROVE  IInv'
<1> DEFINE q == [proc[p] EXCEPT !.step = next]
<1>1. proc[p].sub \in Sub /\ proc[p] \in Process /\ Past(p)
  BY WorkerFacts
<1>2. /\ q \in Process /\ q.step = next /\ q.run = "running" /\ q.sub = proc[p].sub
      /\ q.made = proc[p].made /\ q.wf = proc[p].wf
  BY <1>1 DEF Process
<1>3. proc' = [proc EXCEPT ![p] = q]
  BY DEF Goto
<1> HIDE DEF q
<1>4. q.step \notin {"none", "construct", "lock", "close", "reconcile", "store"}
  BY <1>2
<1>5. raced' \in Raced
  BY DEF history, IInv, TypeOK, Raced
<1>6. WorkChange(p, q, s)
  BY <1>1, <1>2, <1>3, <1>4, <1>5 DEF WorkChange, history
<1> QED BY <1>6, WorkStep

LEMMA SetStatusProvisioningSafe ==
  ASSUME IInv, NEW p \in Procs, SetStatusProvisioning(p)
  PROVE  IInv'
<1> DEFINE i == proc[p].sub
           s == [subs[i] EXCEPT !.status = "PROVISIONING", !.reopened = @ \/ ~Live(i)]
<1>1. proc[p].step = "provisioning" /\ proc[p].run = "running"
  BY DEF SetStatusProvisioning, At
<1>2. Mine(p) \in Subscription /\ ~Mine(p).insync /\ (Mine(p).object \in Stps <=> Mine(p).range # {})
  BY <1>1, WorkerFacts
<1>3. Reworked(s, Mine(p)) /\ ~s.insync /\ s.status = "PROVISIONING"
  BY <1>2 DEF Reworked, Mine, Subscription, Live
<1>4. Goto(p, "activate") /\ UNCHANGED <<dds, circuits, history>>
  BY DEF SetStatusProvisioning
<1>5. subs' = [subs EXCEPT ![i] = s]
  BY DEF SetStatusProvisioning, Mine
<1> QED BY <1>1, <1>3, <1>4, <1>5, StepOn

LEMMA SetStatusActiveSafe ==
  ASSUME IInv, NEW p \in Procs, SetStatusActive(p)
  PROVE  IInv'
<1> DEFINE i == proc[p].sub
           s == [subs[i] EXCEPT !.status = "ACTIVE"]
<1>1. proc[p].step = "activate" /\ proc[p].run = "running"
  BY DEF SetStatusActive, At
<1>2. Mine(p) \in Subscription /\ ~Mine(p).insync /\ (Mine(p).object \in Stps <=> Mine(p).range # {})
  BY <1>1, WorkerFacts
<1>3. Mine(p).status # "TERMINATED"
  BY <1>1 DEF IInv, Bookkeeping, ActivatesLive, Live, Mine
<1>4. Reworked(s, Mine(p)) /\ ~s.insync /\ s.status = "ACTIVE"
  BY <1>2, <1>3 DEF Reworked, Mine, Subscription
<1>5. Goto(p, "resync") /\ subs' = [subs EXCEPT ![i] = s] /\ UNCHANGED <<dds, circuits, history>>
  BY DEF SetStatusActive, Set
<1> QED BY <1>1, <1>4, <1>5, StepOn

LEMMA SetStatusTerminatedSafe ==
  ASSUME IInv, NEW p \in Procs, SetStatusTerminated(p)
  PROVE  IInv'
<1> DEFINE i == proc[p].sub
           s == [subs[i] EXCEPT !.status = "TERMINATED", !.closing = proc[p].made]
<1>1. proc[p].step = "close" /\ proc[p].run = "running"
  BY DEF SetStatusTerminated, At
<1>2. /\ Mine(p) \in Subscription /\ ~Mine(p).insync /\ (Mine(p).object \in Stps <=> Mine(p).range # {})
      /\ proc[p].made \in 0..MaxSubs
  BY <1>1, WorkerFacts DEF Process
<1>3. Reworked(s, Mine(p)) /\ ~s.insync /\ s.status = "TERMINATED" /\ s.closing = proc[p].made
  BY <1>2 DEF Reworked, Mine, Subscription
<1>4. Goto(p, "resync") /\ subs' = [subs EXCEPT ![i] = s] /\ UNCHANGED <<dds, circuits, history>>
  BY DEF SetStatusTerminated
<1> QED BY <1>1, <1>3, <1>4, StepOn

LEMMA ResyncSafe ==
  ASSUME IInv, NEW p \in Procs, Resync(p)
  PROVE  IInv'
<1> DEFINE i == proc[p].sub
           s == [subs[i] EXCEPT !.insync = TRUE]
<1>1. proc[p].step = "resync"
  BY DEF Resync, At
<1>2. /\ i \in Sub /\ Mine(p) \in Subscription /\ (Mine(p).object \in Stps <=> Mine(p).range # {}) /\ Past(p)
  BY <1>1, WorkerFacts
<1>3. Reworked(s, Mine(p)) /\ s.status = Mine(p).status /\ s.closing = Mine(p).closing
  BY <1>2 DEF Reworked, Mine, Subscription
<1>4. Idle \in Process /\ Idle.step = "none"
  BY IdleTyped DEF Idle
<1>5. /\ proc' = [proc EXCEPT ![p] = Idle] /\ subs' = [subs EXCEPT ![i] = s]
      /\ UNCHANGED <<dds, circuits, history>>
  BY DEF Resync, Set
<1> HIDE DEF s
<1>6. raced' \in Raced
  BY <1>5 DEF history, IInv, TypeOK, Raced
<1>7. WorkChange(p, Idle, s)
  BY <1>2, <1>3, <1>4, <1>5, <1>6 DEF WorkChange, history
<1> QED BY <1>7, WorkStep

\* The checks of the validate workflows.
LEMMA CheckSafe ==
  ASSUME IInv, NEW p \in Procs, NEW step \in {"validate", "vlans"}, NEW ok,
         NEW next \in {"vlans", "resync"}, Check(p, step, ok, next)
  PROVE  IInv'
<1> USE DEF IInv, Bookkeeping
<1> DEFINE q == [proc[p] EXCEPT !.step = next]
<1>1. proc[p].step = step /\ proc[p].run = "running"
  BY DEF Check, At
<1>2. proc[p].sub \in Sub /\ proc[p] \in Process /\ Past(p) /\ ProcessWellFormed(proc[p])
  BY <1>1, WorkerFacts
<1>3. q \in Process /\ q.step = next /\ q.run = "running" /\ q.sub = proc[p].sub /\ q.made = proc[p].made
      /\ q.wf = proc[p].wf
  BY <1>1, <1>2 DEF Process
<1>4. ProcessWellFormed(q)
  BY <1>1, <1>2, <1>3 DEF ProcessWellFormed
<1>5. proc' = [proc EXCEPT ![p] = q] /\ UNCHANGED <<dds, subs, circuits, changes>> /\ starts' \in 0..MaxStarts
      /\ raced' \in Raced
  BY DEF Check, Goto, history, TypeOK, Raced
<1>6. ProcessChange(p, q)
  BY <1>2, <1>3, <1>4, <1>5 DEF ProcessChange
<1> QED BY <1>6, ProcessStep

LEMMA ValidateSafe ==
  ASSUME IInv, NEW p \in Procs,
         \/ ValidateTopology(p) \/ ValidateSwitchingService(p) \/ ValidateStp(p)
         \/ ValidateStpVlans(p) \/ ValidateSdp(p) \/ ValidateSdpVlans(p)
  PROVE  IInv'
BY CheckSafe DEF ValidateTopology, ValidateSwitchingService, ValidateStp, ValidateStpVlans,
                 ValidateSdp, ValidateSdpVlans

\* reconcile: what is fetched is kept for the end of the step.
LEMMA ReconcileStpSafe ==
  ASSUME IInv, NEW p \in Procs, ReconcileStp(p)
  PROVE  IInv'
<1> USE DEF IInv, Bookkeeping
<1> DEFINE o == Mine(p).object
           q == [proc[p] EXCEPT !.step = "store", !.advert = dds[o]]
<1>1. proc[p].step = "reconcile" /\ proc[p].run = "running"
  BY DEF ReconcileStp, At
<1>2. proc[p].sub \in Sub /\ proc[p] \in Process /\ Past(p) /\ ProcessWellFormed(proc[p]) /\ o \in Objects
  BY <1>1, WorkerFacts DEF Subscription
<1>3. dds[o] \in Adverts(o) \cup {Absent} /\ dds[o] \in Advert
  BY <1>2 DEF AdvertsFit, TypeOK
<1>4. /\ q \in Process /\ q.step = "store" /\ q.run = "running" /\ q.sub = proc[p].sub /\ q.advert = dds[o]
      /\ q.made = proc[p].made /\ q.wf = proc[p].wf /\ q.object = proc[p].object
  BY <1>1, <1>2, <1>3 DEF Process
<1>5. proc' = [proc EXCEPT ![p] = q] /\ UNCHANGED <<dds, subs, circuits, changes>> /\ starts' \in 0..MaxStarts
      /\ raced' \in Raced
  BY DEF ReconcileStp, history, TypeOK, Raced
<1> HIDE DEF q
<1>6. ProcessWellFormed(q)
  BY <1>1, <1>2, <1>3, <1>4 DEF ProcessWellFormed, Mine
<1>7. ProcessChange(p, q)
  BY <1>1, <1>2, <1>4, <1>5, <1>6 DEF ProcessChange
<1> QED BY <1>7, ProcessStep

\* The end of the step: an STP gets the range that was fetched, or keeps its own.
LEMMA StoreRangeSafe ==
  ASSUME IInv, NEW p \in Procs, StoreRange(p)
  PROVE  IInv'
<1> USE DEF IInv, Bookkeeping
<1> DEFINE i == proc[p].sub
           advert == proc[p].advert
           q == [proc[p] EXCEPT !.step = "resync", !.advert = Absent]
<1>1. proc[p].step = "store" /\ proc[p].run = "running"
  BY DEF StoreRange, At
<1>2. /\ i \in Sub /\ Mine(p) \in Subscription /\ ~Mine(p).insync /\ Past(p)
      /\ Mine(p).object \in Stps <=> Mine(p).range # {}
      /\ Mine(p).object \in Stps /\ advert \in Adverts(Mine(p).object) \cup {Absent}
      /\ proc[p] \in Process
  BY <1>1, WorkerFacts DEF ProcessWellFormed, Mine
<1>3. PICK s : /\ subs' = [subs EXCEPT ![i] = s]
               /\ Reworked(s, Mine(p)) /\ ~s.insync /\ s.status = Mine(p).status /\ s.closing = Mine(p).closing
  <2>1. CASE advert.listed
    <3> DEFINE s == [subs[i] EXCEPT !.range = advert.range]
    <3>1. subs' = [subs EXCEPT ![i] = s]
      BY <2>1 DEF StoreRange, Set
    <3>2. advert \in Adverts(Mine(p).object)
      BY <1>2, <2>1 DEF Absent
    <3>3. advert.range \in Ranges \cup {{}} /\ advert.range # {}
      BY <1>2, <3>2, AdvertRange DEF Objects
    <3>4. Reworked(s, Mine(p)) /\ ~s.insync /\ s.status = Mine(p).status /\ s.closing = Mine(p).closing
      BY <1>2, <3>3 DEF Reworked, Mine, Subscription
    <3> QED BY <3>1, <3>4
  <2>2. CASE ~advert.listed
    <3>1. subs' = [subs EXCEPT ![i] = subs[i]]
      BY <1>2, <2>2, LenProperties DEF StoreRange, TypeOK, Sub
    <3>2. Reworked(subs[i], Mine(p))
      BY <1>2 DEF Reworked, Mine
    <3> QED BY <1>2, <3>1, <3>2 DEF Mine
  <2> QED BY <2>1, <2>2
<1>4. /\ q \in Process /\ q.step = "resync" /\ q.run = "running" /\ q.sub = i
      /\ q.made = proc[p].made /\ q.wf = proc[p].wf
  BY <1>1, <1>2, AdvertTyped DEF Process, Advert
<1>5. proc' = [proc EXCEPT ![p] = q] /\ UNCHANGED <<dds, circuits, starts, changes>>
  BY DEF StoreRange, Stored
<1>6. raced' \in Raced
  <2>1. Overtaken(Mine(p).object) \subseteq Circuits /\ raced \in Raced
    BY DEF Overtaken, TypeOK, Raced
  <2>2. raced' = raced \/ raced' = [raced EXCEPT !.form = @ \cup Overtaken(Mine(p).object)]
    BY DEF StoreRange
  <2> QED BY <2>1, <2>2 DEF Raced
<1> HIDE DEF q
<1>7. WorkChange(p, q, s)
  BY <1>2, <1>3, <1>4, <1>5, <1>6 DEF WorkChange
<1> QED BY <1>7, WorkStep

-----------------------------------------------------------------------------
(* The engine, the circuits and the DDS *)

\* A process fails, is retried or is aborted.
LEMMA EngineSafe ==
  ASSUME IInv, NEW p \in Procs, StepFails(p) \/ Retry(p) \/ Abort(p)
  PROVE  IInv'
<1> USE DEF IInv, Bookkeeping
<1>1. proc[p] \in Process /\ ProcessWellFormed(proc[p]) /\ proc[p].run # "idle"
  BY DEF TypeOK, ProcessesWellFormed, StepFails, Retry, Abort
<1>2. UNCHANGED <<dds, subs, circuits, changes>> /\ starts' \in 0..MaxStarts /\ raced' \in Raced
  BY DEF StepFails, Retry, Abort, history, TypeOK, Raced
<1>3. ASSUME NEW run \in {"failed", "running"}, proc' = [proc EXCEPT ![p].run = run]
      PROVE  IInv'
  <2> DEFINE q == [proc[p] EXCEPT !.run = run]
  <2>1. /\ q \in Process /\ q.run = run /\ q.step = proc[p].step /\ q.wf = proc[p].wf /\ q.sub = proc[p].sub
        /\ q.object = proc[p].object /\ q.advert = proc[p].advert /\ q.made = proc[p].made
    BY <1>1 DEF Process
  <2>2. proc' = [proc EXCEPT ![p] = q]
    BY <1>3
  <2> HIDE DEF q
  <2>3. ProcessWellFormed(q)
    BY <1>1, <2>1 DEF ProcessWellFormed
  <2>4. ProcessChange(p, q)
    BY <1>2, <2>1, <2>2, <2>3 DEF ProcessChange, FormSawNone, FormSawUnused, Past
  <2> QED BY <2>4, ProcessStep
<1>4. ASSUME proc' = [proc EXCEPT ![p] = Idle]
      PROVE  IInv'
  <2>1. ProcessWellFormed(Idle) /\ Idle.step = "none"
    BY SubFacts DEF ProcessWellFormed, Idle
  <2>2. ProcessChange(p, Idle)
    BY <1>2, <1>4, <2>1, IdleTyped DEF ProcessChange
  <2> QED BY <2>2, ProcessStep
<1>5. ASSUME proc[p].step = "store",
             proc' = [proc EXCEPT ![p] = [proc[p] EXCEPT !.step = "reconcile", !.advert = Absent, !.run = "failed"]]
      PROVE  IInv'
  <2> DEFINE q == [proc[p] EXCEPT !.step = "reconcile", !.advert = Absent, !.run = "failed"]
  <2>1. /\ q \in Process /\ q.run = "failed" /\ q.step = "reconcile" /\ q.wf = proc[p].wf
        /\ q.sub = proc[p].sub /\ q.made = proc[p].made
    BY <1>1, AdvertTyped DEF Process, Advert
  <2>2. proc' = [proc EXCEPT ![p] = q]
    BY <1>5
  <2> HIDE DEF q
  <2>3. ProcessWellFormed(q)
    BY <1>1, <1>5, <2>1 DEF ProcessWellFormed
  <2>4. ProcessChange(p, q)
    BY <1>2, <1>5, <2>1, <2>2, <2>3 DEF ProcessChange, Past
  <2> QED BY <2>4, ProcessStep
<1>6. CASE StepFails(p)
  BY <1>1, <1>3, <1>5, <1>6 DEF StepFails, Restarted, Process
<1> QED BY <1>3, <1>4, <1>6 DEF Retry, Abort

LEMMA SetInSyncSafe ==
  ASSUME IInv, NEW i \in Sub, SetInSync(i)
  PROVE  IInv'
<1> USE DEF IInv, Bookkeeping
<1> DEFINE s == [subs[i] EXCEPT !.insync = TRUE]
<1>1. subs' = [subs EXCEPT ![i] = s] /\ UNCHANGED <<dds, proc, circuits, starts, changes, raced>>
  BY DEF SetInSync, history
<1>2. subs[i] \in Subscription /\ WellFormed(i)
  BY SubFacts DEF TypeOK
<1>3. Reworked(s, subs[i]) /\ s.status = subs[i].status /\ s.closing = subs[i].closing
  BY <1>2 DEF Reworked, Subscription, WellFormed
<1>4. /\ SubsTyped' /\ Sub' = Sub /\ Len(subs') = Len(subs)
      /\ subs'[i] = s /\ \A j \in Sub \ {i} : subs'[j] = subs[j]
      /\ \A j \in Sub : /\ subs'[j].object = subs[j].object /\ subs'[j].links = subs[j].links
                        /\ subs'[j].made = subs[j].made
                        /\ Gone(j) => Gone(j)'
                        /\ \A k : LinksTo(j, k)' <=> LinksTo(j, k)
  BY <1>1, <1>3, Rework
<1>5. \A j \in Sub : subs'[j].status = subs[j].status /\ subs'[j].closing = subs[j].closing
  BY <1>3, <1>4
<1>6. TypeOK' /\ AdvertsFit'
  BY <1>1, <1>4 DEF TypeOK, SubsTyped, AdvertsFit
<1>7. \A r \in Procs : /\ Past(r) => proc[r].sub \in Sub /\ proc[r].sub # i
                       /\ proc[r].wf = "reconcile" => proc[r].sub \in Sub
  BY DEF ProcessesWellFormed, ProcessWellFormed, Past, SetInSync, Unfinished, Idle
<1>8. ProcessesWellFormed'
  BY <1>1, <1>4, <1>7 DEF ProcessesWellFormed, ProcessWellFormed
<1>9. OneAtWork'
  BY <1>1, <1>4, <1>7 DEF OneAtWork, Mine, Past
<1>10. ActivatesLive'
  BY <1>1, <1>5, <1>7 DEF ActivatesLive, Live, Past
<1>11. \A r \in Procs : 1..proc[r].made \subseteq Sub
  BY SubFacts, InventoryAssumption DEF TypeOK, Process, ProcessesWellFormed, ProcessWellFormed
<1>12. FormSawNone' /\ FormSawUnused'
  BY <1>1, <1>4, <1>11 DEF FormSawNone, FormSawUnused
<1>13. SecondIsRaced' /\ UnusedWhenClosed'
  BY <1>4, <1>5 DEF SecondIsRaced, UnusedWhenClosed, Live
<1> QED BY <1>6, <1>8, <1>9, <1>10, <1>12, <1>13

\* What leaves the subscriptions and the processes alone.
LEMMA OthersStep ==
  ASSUME IInv, UNCHANGED <<subs, proc>>, TypeOK', AdvertsFit'
  PROVE  IInv'
BY DEF IInv, Bookkeeping, ProcessesWellFormed, ProcessWellFormed, OneAtWork, Past, Mine, ActivatesLive,
       FormSawNone, FormSawUnused, SecondIsRaced, UnusedWhenClosed, Gone, Live, LinksTo, Sub

LEMMA AdvertiseSafe ==
  ASSUME IInv, NEW o \in Objects, Advertise(o)
  PROVE  IInv'
<1> USE DEF IInv, Bookkeeping
<1>1. PICK advert \in Adverts(o) \cup {Absent} : dds' = [dds EXCEPT ![o] = advert]
  BY DEF Advertise
<1>2. advert \in Advert
  BY AdvertTyped
<1>3. changes' \in [Objects -> 0..MaxChanges]
  <2>1. changes[o] + 1 \in 0..MaxChanges
    BY InventoryAssumption DEF Advertise, TypeOK
  <2> QED BY <2>1 DEF Advertise, TypeOK
<1>4. UNCHANGED <<subs, proc, circuits, starts, raced>>
  BY DEF Advertise
<1>5. TypeOK'
  BY <1>1, <1>2, <1>3, <1>4 DEF TypeOK, Sub, WellFormed
<1>6. AdvertsFit'
  BY <1>1 DEF AdvertsFit, TypeOK
<1> QED BY <1>4, <1>5, <1>6, OthersStep

Circuit ==
  [status : {"none", "PROVISIONING", "ACTIVE", "TERMINATED"}, stp : Stps \cup {"none"},
   vlan : VlanNo, nextStp : Stps \cup {"none"}, nextVlan : VlanNo]

LEMMA CircuitSafe ==
  ASSUME IInv, NEW c \in Circuits, SubmitCircuit(c) \/ StoreCircuit(c) \/ FinishCircuit(c)
  PROVE  IInv'
<1> USE DEF IInv, Bookkeeping
<1>1. circuits[c] \in Circuit
  BY DEF TypeOK, Circuit
<1>2. UNCHANGED <<dds, subs, proc, changes>> /\ starts' \in 0..MaxStarts /\ raced' \in Raced
  <2>1. starts \in 0..MaxStarts /\ MaxStarts \in Nat
    BY InventoryAssumption DEF TypeOK
  <2>2. starts' = starts \/ (starts < MaxStarts /\ starts' = starts + 1)
    BY DEF SubmitCircuit, StoreCircuit, FinishCircuit, history, CanStart
  <2>3. UNCHANGED <<dds, subs, proc, changes>>
    BY DEF SubmitCircuit, StoreCircuit, FinishCircuit, history
  <2>4. raced \in Raced
    BY DEF TypeOK, Raced
  <2>5. CASE SubmitCircuit(c)
    <3>1. raced' = [raced EXCEPT !.form = @ \ {c}]
      BY <2>5 DEF SubmitCircuit
    <3> QED BY <2>1, <2>2, <2>3, <2>4, <3>1 DEF Raced
  <2>6. CASE StoreCircuit(c)
    <3>1. PICK stored \in {raced.stored \cup {c}, raced.stored \ {c}} :
            raced' = [form |-> raced.form \ {c}, stored |-> stored]
      BY <2>6 DEF StoreCircuit
    <3> QED BY <2>1, <2>2, <2>3, <2>4, <3>1 DEF Raced
  <2>7. CASE FinishCircuit(c)
    BY <2>1, <2>2, <2>3, <2>4, <2>7 DEF FinishCircuit, history
  <2> QED BY <2>5, <2>6, <2>7
<1>3. ASSUME NEW new \in Circuit, circuits' = [circuits EXCEPT ![c] = new]
      PROVE  IInv'
  <2>1. TypeOK'
    BY <1>2, <1>3 DEF TypeOK, Sub, WellFormed, Circuit, Raced
  <2>2. AdvertsFit'
    BY <1>2 DEF AdvertsFit
  <2> QED BY <1>2, <2>1, <2>2, OthersStep
<1>4. CASE SubmitCircuit(c)
  <2>0. PICK i \in Sub : /\ subs[i].object \in Stps
                         /\ \E v \in subs[i].range : circuits' = [circuits EXCEPT ![c] =
                              [circuits[c] EXCEPT !.nextStp = subs[i].object, !.nextVlan = v]]
    BY <1>4 DEF SubmitCircuit
  <2>1. PICK v \in subs[i].range :
          circuits' = [circuits EXCEPT ![c] = [circuits[c] EXCEPT !.nextStp = subs[i].object, !.nextVlan = v]]
    BY <2>0
  <2>2. v \in VlanNo
    BY SubFacts DEF Subscription, VlanNo
  <2>3. [circuits[c] EXCEPT !.nextStp = subs[i].object, !.nextVlan = v] \in Circuit
    BY <1>1, <2>0, <2>2 DEF Circuit
  <2> QED BY <1>3, <2>1, <2>3
<1>5. CASE StoreCircuit(c)
  <2> DEFINE new == [status |-> "PROVISIONING", stp |-> circuits[c].nextStp, vlan |-> circuits[c].nextVlan,
                     nextStp |-> "none", nextVlan |-> 0]
  <2>1. new \in Circuit
    BY <1>1 DEF Circuit, VlanNo
  <2>2. circuits' = [circuits EXCEPT ![c] = new]
    BY <1>5 DEF StoreCircuit
  <2> QED BY <1>3, <2>1, <2>2
<1>6. CASE FinishCircuit(c)
  <2>1. PICK status \in {"ACTIVE", "TERMINATED"} : circuits' = [circuits EXCEPT ![c].status = status]
    BY <1>6 DEF FinishCircuit
  <2>2. [circuits[c] EXCEPT !.status = status] \in Circuit
    BY <1>1 DEF Circuit
  <2> QED BY <1>3, <2>1, <2>2
<1> QED BY <1>4, <1>5, <1>6

-----------------------------------------------------------------------------
(* The theorems *)

LEMMA InitSafe == Init => IInv
<1> SUFFICES ASSUME Init PROVE IInv
  OBVIOUS
<1> USE DEF Init, InitWith
<1>1. subs = <<>> /\ subs \in Seq(Subscription) /\ Len(subs) = 0 /\ Sub = {}
  BY EmptySeq, LenProperties DEF Sub
<1>2. TypeOK
  BY <1>1, IdleTyped, InventoryAssumption DEF TypeOK, Advert, VlanNo
<1>3. \A p \in Procs : proc[p] = Idle
  OBVIOUS
<1>4. ProcessWellFormed(Idle)
  BY <1>1 DEF ProcessWellFormed, Idle
<1> QED
  BY <1>1, <1>2, <1>3, <1>4 DEF IInv, Bookkeeping, AdvertsFit, ProcessesWellFormed, OneAtWork, Past,
     ActivatesLive, FormSawNone, FormSawUnused, SecondIsRaced, UnusedWhenClosed, Idle

\* The start forms and tasks of the workflows on subscriptions.
LEMMA StartSafe ==
  ASSUME IInv, NEW p \in Procs, NEW i \in Sub,
         SubmitModify(p, i) \/ SubmitTerminate(p, i) \/ StartValidate(p, i) \/ StartReconcile(p, i)
  PROVE  IInv'
<1>1. DOMAIN AfterLock = {"modify", "terminate", "validate", "reconcile"}
  BY DEF AfterLock
<1>2. PICK wf \in DOMAIN AfterLock : /\ Submit(p, wf, i)
                                     /\ wf = "reconcile" => subs[i].object \in Stps
                                     /\ InUseGuard /\ wf = "terminate" => ~InUse(i)
  BY <1>1 DEF SubmitModify, SubmitTerminate, StartValidate, StartReconcile
<1> QED BY <1>2, SubmitSafe

\* Every step is one of the actions above.
LEMMA NextSafe == IInv /\ [Next]_vars => IInv'
<1> SUFFICES ASSUME IInv, [Next]_vars PROVE IInv'
  OBVIOUS
<1>1. CASE UNCHANGED vars
  <2>1. UNCHANGED <<subs, proc>> /\ TypeOK' /\ AdvertsFit'
    BY <1>1 DEF vars, history, IInv, Bookkeeping, TypeOK, AdvertsFit, Sub, WellFormed
  <2> QED BY <2>1, OthersStep
<1>2. ASSUME NEW o \in Objects, Advertise(o) PROVE IInv'
  BY <1>2, AdvertiseSafe
<1>3. ASSUME NEW p \in Procs, UserStep(p) PROVE IInv'
  BY <1>3, CreateSafe, StartSafe, EngineSafe DEF UserStep
<1>4. ASSUME NEW p \in Procs, Work(p) PROVE IInv'
  BY <1>4, ConstructTopologySafe, ConstructSwitchingServiceSafe, ConstructStpSafe, ConstructSdpSafe,
     LockSafe, SetStatusProvisioningSafe, SetStatusActiveSafe, SetStatusTerminatedSafe, ValidateSafe,
     ReconcileStpSafe, StoreRangeSafe, ResyncSafe, EngineSafe DEF Work
<1>5. ASSUME NEW i \in Sub, SetInSync(i) PROVE IInv'
  BY <1>5, SetInSyncSafe
<1>6. ASSUME NEW c \in Circuits, SubmitCircuit(c) \/ StoreCircuit(c) \/ FinishCircuit(c) PROVE IInv'
  BY <1>6, CircuitSafe
<1> QED BY <1>1, <1>2, <1>3, <1>4, <1>5, <1>6 DEF Next

\* The inductive invariant holds in every reachable state of the inventory.
THEOREM InventoryInvariance == Spec => []IInv
BY InitSafe, NextSafe, PTL DEF Spec

\* What the forms of running processes saw stays true, up to what the workflows made
\* and closed since; nobody works on a subscription next to another one.
THEOREM BookkeepingIsKept == Spec => []Bookkeeping
<1>1. IInv => Bookkeeping
  BY DEF IInv
<1> QED BY <1>1, InventoryInvariance, PTL

\* Every variable keeps its type, subscriptions link to subscriptions of the products
\* theirs is built on, and STPs keep a range, advertised or not.
THEOREM InventoryTyped == Spec => []TypeOK
<1>1. IInv => TypeOK
  BY DEF IInv
<1> QED BY <1>1, InventoryInvariance, PTL

\* Two live subscriptions for one object need two create forms open at once, or a
\* modify that reopened one (subscribed_values, subscribed_sdp_pairs).
THEOREM DuplicatesAreRaces == Spec => []DuplicatesOnlyFromRaces
<1>1. ASSUME IInv PROVE DuplicatesOnlyFromRaces
  <2>1. ASSUME NEW i \in Sub, NEW j \in Sub, i < j, subs[i].object = subs[j].object, Live(i), Live(j),
               ~(i > subs[j].made)
        PROVE  subs[i].reopened
    <3>1. TypeOK /\ SecondIsRaced
      BY <1>1 DEF IInv, Bookkeeping
    <3>2. i \in Nat /\ subs[j].made \in Nat
      BY <3>1, SubFacts, InventoryAssumption DEF Subscription
    <3> QED BY <2>1, <3>1, <3>2 DEF SecondIsRaced, Gone
  <2> QED BY <2>1 DEF DuplicatesOnlyFromRaces, Live
<1> QED BY <1>1, InventoryInvariance, PTL

\* Where orchestrator-core refuses to terminate what is in use, a subscription loses
\* what it is built on only in a race with a create or after a modify that reopened it.
THEOREM LinksLostAreRaces == ASSUME InUseGuard PROVE Spec => []LinksLostOnlyInRaces
<1>1. ASSUME IInv PROVE LinksLostOnlyInRaces
  <2>1. ASSUME NEW i \in Sub, NEW j \in Sub, Live(j), LinksTo(j, i), ~Live(i),
               ~(j > subs[i].closing)
        PROVE  subs[j].reopened
    <3>1. TypeOK /\ UnusedWhenClosed
      BY <1>1 DEF IInv, Bookkeeping
    <3>2. j \in Nat /\ subs[i].closing \in Nat
      BY <3>1, SubFacts, InventoryAssumption DEF Subscription
    <3> QED BY <2>1, <3>1, <3>2 DEF UnusedWhenClosed, Gone
  <2> QED BY <2>1 DEF LinksLostOnlyInRaces
<1> QED BY <1>1, InventoryInvariance, PTL

-----------------------------------------------------------------------------
(* The VLANs of circuits: RangesInv *)

\* What matters to RangesInv of a subscription.
SameSub(i) == subs'[i].object = subs[i].object /\ subs'[i].range = subs[i].range

\* Nobody comes to the end of a reconcile, and who is there keeps what was fetched.
NoneChecks ==
  \A r \in Procs : proc'[r].step = "store" =>
    proc[r].step = "store" /\ proc'[r].sub = proc[r].sub /\ proc'[r].advert = proc[r].advert

\* Who is about to store has a subscription.
LEMMA StorerFacts ==
  ASSUME IInv, NEW p \in Procs, proc[p].step = "store"
  PROVE  /\ proc[p].sub \in Sub /\ Mine(p) = subs[proc[p].sub] /\ Mine(p).object \in Stps
         /\ proc[p].advert \in Adverts(Mine(p).object) \cup {Absent}
BY WorkerFacts DEF ProcessWellFormed, Mine

\* Objects, ranges and circuits stay.
LEMMA RangesStay ==
  ASSUME IInv, RangesInv, UNCHANGED <<circuits, raced>>, Sub' = Sub, \A i \in Sub : SameSub(i), NoneChecks
  PROVE  RangesInv'
<1> USE DEF RangesInv
<1>1. \A i \in Sub : OnlyOne(i)' <=> OnlyOne(i)
  BY DEF OnlyOne, SameSub
<1>2. ChosenOfKnown'
  BY DEF ChosenOfKnown, SameSub
<1>3. OpenInRange'
  BY <1>1 DEF OpenInRange, SameSub
<1>4. StrandedOnlyInRaces'
  BY <1>1 DEF StrandedOnlyInRaces, SameSub
<1>5. CheckedInRange'
  <2>1. \A r \in Procs : proc'[r].step = "store" =>
          proc[r].step = "store" /\ proc'[r].advert = proc[r].advert /\ Mine(r)'.object = Mine(r).object
    BY StorerFacts DEF NoneChecks, SameSub, Mine
  <2> QED BY <2>1 DEF CheckedInRange
<1> QED BY <1>2, <1>3, <1>4, <1>5

\* A subscription that is worked on.
LEMMA ReworkKeepsRanges ==
  ASSUME IInv, RangesInv, NEW i \in Sub, NEW s, subs' = [subs EXCEPT ![i] = s],
         s.object = subs[i].object, s.range = subs[i].range, UNCHANGED <<circuits, raced>>, NoneChecks
  PROVE  RangesInv'
<1>1. Sub' = Sub /\ \A j \in Sub : subs'[j] = IF j = i THEN s ELSE subs[j]
  BY DEF Sub
<1>2. \A j \in Sub : SameSub(j)
  BY <1>1 DEF SameSub
<1> QED BY <1>1, <1>2, RangesStay

\* A subscription that is made: an STP that never had one is chosen by no circuit.
LEMMA ConstructKeepsRanges ==
  ASSUME IInv, RangesInv, NEW p \in Procs, NEW links, Construct(p, links)
  PROVE  RangesInv'
<1> USE DEF RangesInv
<1>1. subs \in Seq(Subscription) /\ Len(subs) \in Nat /\ Sub = 1..Len(subs)
  BY SubFacts DEF IInv, TypeOK
<1>2. PICK s : subs' = Append(subs, s)
  BY DEF Construct
<1>3. PICK n \in Nat : n = Len(subs) + 1
  BY <1>1
<1>4. Sub' = Sub \cup {n} /\ n \notin Sub /\ \A i \in Sub : subs'[i] = subs[i]
  BY <1>1, <1>2, <1>3 DEF Sub
<1>5. UNCHANGED <<circuits, raced>> /\ NoneChecks
  <2>1. proc' = [proc EXCEPT ![p] = [Idle EXCEPT !.wf = "create", !.step = "activate",
                                                 !.run = "running", !.sub = Len(subs')]]
    BY DEF Construct
  <2>2. proc'[p].step = "activate" /\ \A r \in Procs \ {p} : proc'[r] = proc[r]
    BY <2>1 DEF IInv, TypeOK, Idle
  <2> QED BY <2>2 DEF Construct, NoneChecks, history
<1>6. \A i \in Sub : OnlyOne(i)' => OnlyOne(i)
  BY <1>4 DEF OnlyOne
<1>7. OnlyOne(n)' => \A i \in Sub : subs[i].object # subs'[n].object
  BY <1>4 DEF OnlyOne
<1>8. ChosenOfKnown'
  BY <1>4, <1>5 DEF ChosenOfKnown
<1>9. OpenInRange'
  BY <1>4, <1>5, <1>6, <1>7 DEF OpenInRange, ChosenOfKnown
<1>10. StrandedOnlyInRaces'
  BY <1>4, <1>5, <1>6, <1>7 DEF StrandedOnlyInRaces, ChosenOfKnown
<1>11. CheckedInRange'
  <2>1. \A r \in Procs : proc'[r].step = "store" =>
          proc[r].step = "store" /\ proc'[r].advert = proc[r].advert /\ Mine(r)' = Mine(r)
    BY <1>4, <1>5, StorerFacts DEF NoneChecks, Mine
  <2> QED BY <1>5, <2>1 DEF CheckedInRange
<1> QED BY <1>8, <1>9, <1>10, <1>11

\* The check of a reconcile sees every VLAN that is stored.
LEMMA ReconcileChecks ==
  ASSUME IInv, RangesInv, NEW p \in Procs, ReconcileStp(p)
  PROVE  RangesInv'
<1> USE DEF RangesInv
<1> DEFINE o == Mine(p).object
           q == [proc[p] EXCEPT !.step = "store", !.advert = dds[o]]
<1>1. UNCHANGED <<subs, circuits, raced>>
  BY DEF ReconcileStp, history
<1>2. proc[p] \in Process
  BY DEF IInv, TypeOK
<1>3. q.advert = dds[o] /\ q.sub = proc[p].sub
  BY <1>2 DEF Process
<1>4. proc' = [proc EXCEPT ![p] = q]
  BY DEF ReconcileStp
<1> HIDE DEF q
<1>5. proc'[p] = q /\ \A r \in Procs \ {p} : proc'[r] = proc[r]
  BY <1>4 DEF IInv, TypeOK
<1>6. \A r \in Procs : Mine(r)' = Mine(r)
  BY <1>1, <1>3, <1>5 DEF Mine
<1>7. q.advert.listed => VlansOutside(o, q.advert.range) = {}
  BY <1>3 DEF ReconcileStp
<1>8. ASSUME NEW r \in Procs, NEW c \in Circuits, proc'[r].step = "store", proc'[r].advert.listed,
             circuits[c].status \in {"PROVISIONING", "ACTIVE"}, circuits[c].stp = Mine(r).object
      PROVE  circuits[c].vlan \in proc'[r].advert.range \/ c \in raced.stored
  <2>1. CASE r = p
    BY <1>5, <1>7, <1>8, <2>1 DEF VlansOutside, StoredVlans
  <2>2. CASE r # p
    BY <1>5, <1>8, <2>2 DEF CheckedInRange
  <2> QED BY <2>1, <2>2
<1>9. CheckedInRange'
  BY <1>1, <1>6, <1>8 DEF CheckedInRange
<1>10. ChosenOfKnown' /\ OpenInRange' /\ StrandedOnlyInRaces'
  BY <1>1 DEF ChosenOfKnown, OpenInRange, StrandedOnlyInRaces, OnlyOne, Sub
<1> QED BY <1>9, <1>10

\* A new range leaves out forms that are open, and what was stored since the check.
LEMMA StoreRangeKeeps ==
  ASSUME IInv, RangesInv, NEW p \in Procs, StoreRange(p)
  PROVE  RangesInv'
<1> USE DEF RangesInv
<1> DEFINE i == proc[p].sub
           advert == proc[p].advert
           q == [proc[p] EXCEPT !.step = "resync", !.advert = Absent]
           s == [subs[i] EXCEPT !.range = advert.range]
<1>1. proc[p].step = "store"
  BY DEF StoreRange, At
<1>2. i \in Sub /\ Mine(p) = subs[i] /\ subs[i] \in Subscription /\ proc[p] \in Process
  BY <1>1, StorerFacts, SubFacts DEF IInv, TypeOK
<1>3. q.step = "resync"
  BY <1>2 DEF Process
<1>4. proc' = [proc EXCEPT ![p] = q]
  BY DEF StoreRange, Stored
<1> HIDE DEF q
<1>5. proc'[p].step = "resync" /\ \A r \in Procs \ {p} : proc'[r] = proc[r]
  BY <1>3, <1>4 DEF IInv, TypeOK
<1>6. NoneChecks
  BY <1>5 DEF NoneChecks
<1>7. UNCHANGED circuits
  BY DEF StoreRange
<1>8. CASE ~advert.listed
  <2>1. UNCHANGED <<subs, raced>>
    BY <1>8 DEF StoreRange
  <2>2. Sub' = Sub /\ \A j \in Sub : SameSub(j)
    BY <2>1 DEF Sub, SameSub
  <2> QED BY <1>6, <1>7, <2>1, <2>2, RangesStay
<1>9. CASE advert.listed
  <2>1. subs' = [subs EXCEPT ![i] = s] /\ raced' = [raced EXCEPT !.form = @ \cup Overtaken(subs[i].object)]
    BY <1>2, <1>9 DEF StoreRange, Set
  <2>2. s.object = subs[i].object /\ s.range = advert.range
    BY <1>2 DEF Subscription
  <2> HIDE DEF s
  <2>3. Sub' = Sub /\ subs'[i] = s /\ \A j \in Sub \ {i} : subs'[j] = subs[j]
    BY <1>2, <2>1 DEF Sub
  <2>4. \A j \in Sub : subs'[j].object = subs[j].object
    BY <2>2, <2>3
  <2>5. \A j \in Sub : OnlyOne(j)' <=> OnlyOne(j)
    BY <2>3, <2>4 DEF OnlyOne
  <2>6. raced'.stored = raced.stored /\ raced'.form = raced.form \cup Overtaken(subs[i].object)
    BY <2>1 DEF IInv, TypeOK
  <2>7. ChosenOfKnown'
    BY <1>7, <2>3, <2>4 DEF ChosenOfKnown
  <2>8. ASSUME NEW j \in Sub, NEW c \in Circuits, circuits[c].nextVlan # 0,
               circuits[c].nextStp = subs[j].object, OnlyOne(j)
        PROVE  circuits[c].nextVlan \in subs'[j].range \/ c \in raced'.form
    <3>1. CASE j = i
      BY <2>6, <2>8, <3>1 DEF Overtaken
    <3>2. CASE j # i
      BY <2>3, <2>6, <2>8, <3>2 DEF OpenInRange
    <3> QED BY <3>1, <3>2
  <2>9. OpenInRange'
    BY <1>7, <2>3, <2>4, <2>5, <2>8 DEF OpenInRange
  <2>10. ASSUME NEW j \in Sub, NEW c \in Circuits, circuits[c].status \in {"PROVISIONING", "ACTIVE"},
                circuits[c].stp = subs[j].object, OnlyOne(j)
         PROVE  circuits[c].vlan \in subs'[j].range \/ c \in raced.stored
    <3>1. CASE j = i
      BY <1>1, <1>2, <1>9, <2>2, <2>3, <2>10, <3>1 DEF CheckedInRange
    <3>2. CASE j # i
      BY <2>3, <2>10, <3>2 DEF StrandedOnlyInRaces
    <3> QED BY <3>1, <3>2
  <2>11. StrandedOnlyInRaces'
    BY <1>7, <2>3, <2>4, <2>5, <2>6, <2>10 DEF StrandedOnlyInRaces
  <2>12. \A r \in Procs : proc'[r].step = "store" =>
           proc[r].step = "store" /\ proc'[r].advert = proc[r].advert /\ Mine(r)'.object = Mine(r).object
    BY <1>6, <2>3, <2>4, StorerFacts DEF NoneChecks, Mine
  <2>13. CheckedInRange'
    BY <1>7, <2>6, <2>12 DEF CheckedInRange
  <2> QED BY <2>7, <2>9, <2>11, <2>13
<1> QED BY <1>8, <1>9

\* The subscriptions and processes stay, and all circuits but one.
CircuitAlone(c) ==
  /\ UNCHANGED <<subs, proc>> /\ \A d \in Circuits \ {c} : circuits'[d] = circuits[d]
  /\ \A d \in Circuits \ {c} : /\ d \in raced'.form <=> d \in raced.form
                               /\ d \in raced'.stored <=> d \in raced.stored

\* Only what the circuit itself stores and chose has to be looked at.
LEMMA CircuitStep ==
  ASSUME IInv, RangesInv, NEW c \in Circuits, CircuitAlone(c),
         circuits'[c].status \in {"PROVISIONING", "ACTIVE"} => \E i \in Sub : subs[i].object = circuits'[c].stp,
         circuits'[c].nextVlan # 0 => \E i \in Sub : subs[i].object = circuits'[c].nextStp,
         \A i \in Sub : circuits'[c].nextVlan # 0 /\ circuits'[c].nextStp = subs[i].object /\ OnlyOne(i)
           => circuits'[c].nextVlan \in subs[i].range \/ c \in raced'.form,
         \A p \in Procs :
           /\ proc[p].step = "store" /\ proc[p].advert.listed
           /\ circuits'[c].status \in {"PROVISIONING", "ACTIVE"} /\ circuits'[c].stp = Mine(p).object
           => circuits'[c].vlan \in proc[p].advert.range \/ c \in raced'.stored,
         \A i \in Sub :
           /\ circuits'[c].status \in {"PROVISIONING", "ACTIVE"} /\ circuits'[c].stp = subs[i].object
           /\ OnlyOne(i)
           => circuits'[c].vlan \in subs[i].range \/ c \in raced'.stored
  PROVE  RangesInv'
<1> USE DEF RangesInv
<1>1. /\ UNCHANGED <<subs, proc>> /\ Sub' = Sub /\ \A d \in Circuits \ {c} : circuits'[d] = circuits[d]
      /\ \A d \in Circuits \ {c} : /\ d \in raced'.form <=> d \in raced.form
                                   /\ d \in raced'.stored <=> d \in raced.stored
  BY DEF CircuitAlone, Sub
<1>2. /\ \A i \in Sub : OnlyOne(i)' <=> OnlyOne(i)
      /\ \A p \in Procs : Mine(p)' = Mine(p)
  BY <1>1 DEF OnlyOne, Mine
<1>3. ChosenOfKnown'
  BY <1>1 DEF ChosenOfKnown
<1>4. OpenInRange'
  BY <1>1, <1>2 DEF OpenInRange
<1>5. CheckedInRange'
  BY <1>1, <1>2 DEF CheckedInRange
<1>6. StrandedOnlyInRaces'
  BY <1>1, <1>2 DEF StrandedOnlyInRaces
<1> QED BY <1>3, <1>4, <1>5, <1>6

\* A form chooses from the range that is stored.
LEMMA SubmitCircuitInRange ==
  ASSUME IInv, RangesInv, NEW c \in Circuits, SubmitCircuit(c)
  PROVE  RangesInv'
<1> USE DEF RangesInv
<1>1. circuits[c] \in Circuit /\ raced \in Raced
  BY DEF IInv, TypeOK, Circuit, Raced
<1>2. PICK i \in Sub : \E v \in subs[i].range : circuits' = [circuits EXCEPT ![c] =
                         [circuits[c] EXCEPT !.nextStp = subs[i].object, !.nextVlan = v]]
  BY DEF SubmitCircuit
<1>3. PICK v \in subs[i].range : circuits' = [circuits EXCEPT ![c] =
                         [circuits[c] EXCEPT !.nextStp = subs[i].object, !.nextVlan = v]]
  BY <1>2
<1> DEFINE new == [circuits[c] EXCEPT !.nextStp = subs[i].object, !.nextVlan = v]
<1>4. /\ new.status = circuits[c].status /\ new.stp = circuits[c].stp /\ new.vlan = circuits[c].vlan
      /\ new.nextStp = subs[i].object /\ new.nextVlan = v
  BY <1>1 DEF Circuit
<1>5. circuits' = [circuits EXCEPT ![c] = new]
  BY <1>3
<1> HIDE DEF new
<1>6. circuits'[c] = new /\ \A d \in Circuits \ {c} : circuits'[d] = circuits[d]
  BY <1>5 DEF IInv, TypeOK
<1>7. raced'.stored = raced.stored /\ raced'.form = raced.form \ {c} /\ UNCHANGED <<subs, proc>>
  <2>1. raced' = [raced EXCEPT !.form = @ \ {c}]
    BY DEF SubmitCircuit
  <2> QED BY <1>1, <2>1 DEF SubmitCircuit, Raced
<1>8. CircuitAlone(c)
  BY <1>6, <1>7 DEF CircuitAlone
<1>9. \A j \in Sub : new.nextStp = subs[j].object /\ OnlyOne(j) => new.nextVlan \in subs[j].range
  BY <1>3, <1>4 DEF OnlyOne
<1>10. new.status \in {"PROVISIONING", "ACTIVE"} => \E j \in Sub : subs[j].object = new.stp
  BY <1>4 DEF ChosenOfKnown
<1>11. \A p \in Procs :
         /\ proc[p].step = "store" /\ proc[p].advert.listed
         /\ new.status \in {"PROVISIONING", "ACTIVE"} /\ new.stp = Mine(p).object
         => new.vlan \in proc[p].advert.range \/ c \in raced'.stored
  BY <1>4, <1>7 DEF CheckedInRange
<1>12. \A j \in Sub :
         /\ new.status \in {"PROVISIONING", "ACTIVE"} /\ new.stp = subs[j].object /\ OnlyOne(j)
         => new.vlan \in subs[j].range \/ c \in raced'.stored
  BY <1>4, <1>7 DEF StrandedOnlyInRaces
<1> QED BY <1>4, <1>6, <1>8, <1>9, <1>10, <1>11, <1>12, CircuitStep

\* What is stored was chosen from the range, or one of the races is noted.
LEMMA StoreCircuitNoted ==
  ASSUME IInv, RangesInv, NEW c \in Circuits, StoreCircuit(c)
  PROVE  RangesInv'
<1> USE DEF RangesInv
<1> DEFINE new == [status |-> "PROVISIONING", stp |-> circuits[c].nextStp, vlan |-> circuits[c].nextVlan,
                   nextStp |-> "none", nextVlan |-> 0]
<1>1. circuits' = [circuits EXCEPT ![c] = new] /\ UNCHANGED <<subs, proc>> /\ circuits[c].nextVlan # 0
  BY DEF StoreCircuit
<1>2. /\ new.status = "PROVISIONING" /\ new.stp = circuits[c].nextStp /\ new.vlan = circuits[c].nextVlan
      /\ new.nextVlan = 0
  OBVIOUS
<1> HIDE DEF new
<1>3. circuits'[c] = new /\ \A d \in Circuits \ {c} : circuits'[d] = circuits[d]
  BY <1>1 DEF IInv, TypeOK
<1>4. PICK stored \in {raced.stored \cup {c}, raced.stored \ {c}} :
        /\ raced' = [form |-> raced.form \ {c}, stored |-> stored]
        /\ c \in raced.form \/ Reconciling(circuits[c].nextStp) => stored = raced.stored \cup {c}
  BY DEF StoreCircuit
<1>5. /\ raced'.form = raced.form \ {c} /\ raced'.stored = stored
      /\ c \in raced.form \/ Reconciling(circuits[c].nextStp) => c \in raced'.stored
  BY <1>4
<1>6. CircuitAlone(c)
  BY <1>1, <1>3, <1>4, <1>5 DEF CircuitAlone
<1>7. \E i \in Sub : subs[i].object = new.stp
  BY <1>1, <1>2 DEF ChosenOfKnown
<1>8. \A p \in Procs : proc[p].step = "store" /\ new.stp = Mine(p).object => c \in raced'.stored
  BY <1>2, <1>5 DEF Reconciling
<1>9. \A i \in Sub : new.stp = subs[i].object /\ OnlyOne(i) => new.vlan \in subs[i].range \/ c \in raced'.stored
  BY <1>1, <1>2, <1>5 DEF OpenInRange
<1> QED BY <1>2, <1>3, <1>6, <1>7, <1>8, <1>9, CircuitStep

\* Provisioning and terminating keep what is stored and chosen.
LEMMA FinishCircuitKeeps ==
  ASSUME IInv, RangesInv, NEW c \in Circuits, FinishCircuit(c)
  PROVE  RangesInv'
<1> USE DEF RangesInv
<1>1. PICK status \in {"ACTIVE", "TERMINATED"} : circuits' = [circuits EXCEPT ![c].status = status]
  BY DEF FinishCircuit
<1> DEFINE new == [circuits[c] EXCEPT !.status = status]
<1>2. circuits[c] \in Circuit
  BY DEF IInv, TypeOK, Circuit
<1>3. /\ new.stp = circuits[c].stp /\ new.vlan = circuits[c].vlan
      /\ new.nextStp = circuits[c].nextStp /\ new.nextVlan = circuits[c].nextVlan
  BY <1>2 DEF Circuit
<1>4. circuits' = [circuits EXCEPT ![c] = new]
  BY <1>1
<1> HIDE DEF new
<1>5. circuits'[c] = new /\ \A d \in Circuits \ {c} : circuits'[d] = circuits[d]
  BY <1>4 DEF IInv, TypeOK
<1>6. UNCHANGED <<subs, proc, raced>> /\ circuits[c].status \in {"PROVISIONING", "ACTIVE"}
  BY DEF FinishCircuit, history
<1>7. CircuitAlone(c)
  BY <1>5, <1>6 DEF CircuitAlone
<1>8. /\ \E i \in Sub : subs[i].object = new.stp
      /\ new.nextVlan # 0 => \E i \in Sub : subs[i].object = new.nextStp
  BY <1>3, <1>6 DEF ChosenOfKnown
<1>9. \A i \in Sub : new.nextVlan # 0 /\ new.nextStp = subs[i].object /\ OnlyOne(i)
        => new.nextVlan \in subs[i].range \/ c \in raced'.form
  BY <1>3, <1>6 DEF OpenInRange
<1>10. \A p \in Procs : proc[p].step = "store" /\ proc[p].advert.listed /\ new.stp = Mine(p).object
        => new.vlan \in proc[p].advert.range \/ c \in raced'.stored
  BY <1>3, <1>6 DEF CheckedInRange
<1>11. \A i \in Sub : new.stp = subs[i].object /\ OnlyOne(i)
        => new.vlan \in subs[i].range \/ c \in raced'.stored
  BY <1>3, <1>6 DEF StrandedOnlyInRaces
<1> QED BY <1>5, <1>7, <1>8, <1>9, <1>10, <1>11, CircuitStep

\* A slot that comes to another step than the end of a reconcile.
LEMMA SlotChecksNone ==
  ASSUME IInv, NEW p \in Procs, NEW q, proc' = [proc EXCEPT ![p] = q],
         q.step = "store" => proc[p].step = "store" /\ q.sub = proc[p].sub /\ q.advert = proc[p].advert
  PROVE  NoneChecks
<1>1. proc'[p] = q /\ \A r \in Procs \ {p} : proc'[r] = proc[r]
  BY DEF IInv, TypeOK
<1> QED BY <1>1 DEF NoneChecks

\* The subscriptions stay.
LEMMA SlotKeepsRanges ==
  ASSUME IInv, RangesInv, NEW p \in Procs, NEW q, proc' = [proc EXCEPT ![p] = q],
         q.step = "store" => proc[p].step = "store" /\ q.sub = proc[p].sub /\ q.advert = proc[p].advert,
         UNCHANGED <<subs, circuits, raced>>
  PROVE  RangesInv'
<1>1. Sub' = Sub /\ \A i \in Sub : SameSub(i)
  BY DEF Sub, SameSub
<1>2. NoneChecks
  BY SlotChecksNone
<1> QED BY <1>1, <1>2, RangesStay

\* Forms, retries and aborts.
LEMMA UserKeepsRanges ==
  ASSUME IInv, RangesInv, NEW p \in Procs, UserStep(p)
  PROVE  RangesInv'
<1>1. ASSUME NEW o, SubmitCreate(p, o) PROVE RangesInv'
  <2> DEFINE q == [wf |-> "create", step |-> "construct", run |-> "running",
                   sub |-> 0, object |-> o, advert |-> dds[o], made |-> Len(subs)]
  <2>1. q.step = "construct" /\ proc' = [proc EXCEPT ![p] = q] /\ UNCHANGED <<subs, circuits, raced>>
    BY <1>1 DEF SubmitCreate
  <2> HIDE DEF q
  <2> QED BY <2>1, SlotKeepsRanges
<1>2. ASSUME NEW wf, NEW i, Submit(p, wf, i) PROVE RangesInv'
  <2> DEFINE q == [Idle EXCEPT !.wf = wf, !.step = "lock", !.run = "running", !.sub = i, !.made = Len(subs)]
  <2>1. q.step = "lock" /\ proc' = [proc EXCEPT ![p] = q] /\ UNCHANGED <<subs, circuits, raced>>
    BY <1>2 DEF Submit, Idle
  <2> HIDE DEF q
  <2> QED BY <2>1, SlotKeepsRanges
<1>3. CASE Retry(p)
  <2> DEFINE q == [proc[p] EXCEPT !.run = "running"]
  <2>1. q.step = proc[p].step /\ q.sub = proc[p].sub /\ q.advert = proc[p].advert
    BY DEF IInv, TypeOK, Process
  <2>2. proc' = [proc EXCEPT ![p] = q] /\ UNCHANGED <<subs, circuits, raced>>
    BY <1>3 DEF Retry, history
  <2> HIDE DEF q
  <2> QED BY <2>1, <2>2, SlotKeepsRanges
<1>4. CASE Abort(p)
  <2>1. Idle.step = "none" /\ proc' = [proc EXCEPT ![p] = Idle] /\ UNCHANGED <<subs, circuits, raced>>
    BY <1>4 DEF Abort, Idle, history
  <2> QED BY <2>1, SlotKeepsRanges
<1> QED BY <1>1, <1>2, <1>3, <1>4 DEF UserStep, CreateTopology, CreateSwitchingService, CreateStp, CreateSdp,
      SubmitModify, SubmitTerminate, StartValidate, StartReconcile

\* The checks of validate, and a step that fails: a reconcile checks again.
LEMMA CheckKeepsRanges ==
  ASSUME IInv, RangesInv, NEW p \in Procs,
         \/ ValidateTopology(p) \/ ValidateSwitchingService(p) \/ ValidateStp(p)
         \/ ValidateStpVlans(p) \/ ValidateSdp(p) \/ ValidateSdpVlans(p) \/ StepFails(p)
  PROVE  RangesInv'
<1>1. proc[p] \in Process
  BY DEF IInv, TypeOK
<1>2. ASSUME NEW step, NEW ok, NEW next \in {"vlans", "resync"}, Check(p, step, ok, next) PROVE RangesInv'
  <2> DEFINE q == [proc[p] EXCEPT !.step = next]
  <2>1. q.step = next /\ proc' = [proc EXCEPT ![p] = q] /\ UNCHANGED <<subs, circuits, raced>>
    BY <1>1, <1>2 DEF Check, Goto, history, Process
  <2> HIDE DEF q
  <2> QED BY <2>1, SlotKeepsRanges
<1>3. CASE StepFails(p)
  <2> DEFINE q == [Restarted(proc[p]) EXCEPT !.run = "failed"]
  <2>1. q.step # "store"
    <3>1. CASE proc[p].step = "store"
      BY <1>1, <3>1 DEF Restarted, Process
    <3>2. CASE proc[p].step # "store"
      BY <1>1, <3>2 DEF Restarted, Process
    <3> QED BY <3>1, <3>2
  <2>2. proc' = [proc EXCEPT ![p] = q] /\ UNCHANGED <<subs, circuits, raced>>
    BY <1>3 DEF StepFails, history
  <2> HIDE DEF q
  <2> QED BY <2>1, <2>2, SlotKeepsRanges
<1> QED BY <1>2, <1>3 DEF ValidateTopology, ValidateSwitchingService, ValidateStp, ValidateStpVlans,
      ValidateSdp, ValidateSdpVlans

\* The steps that write to a subscription without its range.
LEMMA WorkKeepsRanges ==
  ASSUME IInv, RangesInv, NEW p \in Procs,
         \/ Lock(p) \/ SetStatusProvisioning(p) \/ SetStatusActive(p) \/ SetStatusTerminated(p) \/ Resync(p)
  PROVE  RangesInv'
<1> DEFINE j == proc[p].sub
<1>1. /\ j \in Sub /\ subs[j] \in Subscription /\ proc[p] \in Process
      /\ proc[p].step = "lock" => proc[p].wf \in DOMAIN AfterLock
  BY WorkerFacts DEF Lock, SetStatusProvisioning, SetStatusActive, SetStatusTerminated, Resync, At, Mine,
     ProcessWellFormed
<1>2. UNCHANGED <<circuits, raced>>
  BY DEF Lock, SetStatusProvisioning, SetStatusActive, SetStatusTerminated, Resync, history
<1>3. NoneChecks
  <2>1. ASSUME NEW next, next # "store", Goto(p, next) PROVE NoneChecks
    <3> DEFINE q == [proc[p] EXCEPT !.step = next]
    <3>1. q.step = next /\ proc' = [proc EXCEPT ![p] = q]
      BY <1>1, <2>1 DEF Goto, Process
    <3> HIDE DEF q
    <3> QED BY <2>1, <3>1, SlotChecksNone
  <2>2. CASE Lock(p)
    <3>1. AfterLock[proc[p].wf] # "store"
      BY <1>1, <2>2 DEF Lock, At, AfterLock
    <3> QED BY <2>1, <2>2, <3>1 DEF Lock
  <2>3. CASE SetStatusProvisioning(p) \/ SetStatusActive(p) \/ SetStatusTerminated(p)
    BY <2>1, <2>3 DEF SetStatusProvisioning, SetStatusActive, SetStatusTerminated
  <2>4. CASE Resync(p)
    <3>1. Idle.step = "none" /\ proc' = [proc EXCEPT ![p] = Idle]
      BY <2>4 DEF Resync, Idle
    <3> QED BY <3>1, SlotChecksNone
  <2> QED BY <2>2, <2>3, <2>4
<1>4. \E s : subs' = [subs EXCEPT ![j] = s] /\ s.range = subs[j].range /\ s.object = subs[j].object
  <2>1. CASE Lock(p) \/ Resync(p)
    <3>1. PICK b \in BOOLEAN : subs' = [subs EXCEPT ![j].insync = b]
      BY <2>1 DEF Lock, Resync, Set
    <3>2. [subs[j] EXCEPT !.insync = b].range = subs[j].range /\ [subs[j] EXCEPT !.insync = b].object = subs[j].object
      BY <1>1 DEF Subscription
    <3> QED BY <3>1, <3>2
  <2>2. CASE SetStatusProvisioning(p)
    <3> DEFINE t == [subs[j] EXCEPT !.status = "PROVISIONING", !.reopened = Mine(p).reopened \/ ~Live(j)]
    <3>1. subs' = [subs EXCEPT ![j] = t]
      BY <2>2 DEF SetStatusProvisioning
    <3>2. t.range = subs[j].range /\ t.object = subs[j].object
      BY <1>1 DEF Subscription
    <3> QED BY <3>1, <3>2
  <2>3. CASE SetStatusActive(p)
    <3> DEFINE t == [subs[j] EXCEPT !.status = "ACTIVE"]
    <3>1. subs' = [subs EXCEPT ![j] = t]
      BY <2>3 DEF SetStatusActive, Set
    <3>2. t.range = subs[j].range /\ t.object = subs[j].object
      BY <1>1 DEF Subscription
    <3> QED BY <3>1, <3>2
  <2>4. CASE SetStatusTerminated(p)
    <3> DEFINE t == [subs[j] EXCEPT !.status = "TERMINATED", !.closing = proc[p].made]
    <3>1. subs' = [subs EXCEPT ![j] = t]
      BY <2>4 DEF SetStatusTerminated
    <3>2. t.range = subs[j].range /\ t.object = subs[j].object
      BY <1>1 DEF Subscription
    <3> QED BY <3>1, <3>2
  <2> QED BY <2>1, <2>2, <2>3, <2>4
<1> QED BY <1>1, <1>2, <1>3, <1>4, ReworkKeepsRanges

\* The override.
LEMMA SetInSyncKeepsRanges ==
  ASSUME IInv, RangesInv, NEW i \in Sub, SetInSync(i)
  PROVE  RangesInv'
<1> DEFINE s == [subs[i] EXCEPT !.insync = TRUE]
<1>1. s.object = subs[i].object /\ s.range = subs[i].range
  BY SubFacts DEF IInv, Subscription
<1>2. subs' = [subs EXCEPT ![i] = s] /\ UNCHANGED <<circuits, raced>> /\ NoneChecks
  BY DEF SetInSync, history, NoneChecks
<1> QED BY <1>1, <1>2, ReworkKeepsRanges

\* RangesInv is inductive next to IInv.
LEMMA RangesNext == IInv /\ RangesInv /\ [Next]_vars => RangesInv'
<1> SUFFICES ASSUME IInv, RangesInv, [Next]_vars PROVE RangesInv'
  OBVIOUS
<1>1. ASSUME UNCHANGED <<subs, proc, circuits, raced>> PROVE RangesInv'
  <2>1. Sub' = Sub /\ NoneChecks /\ \A i \in Sub : SameSub(i)
    BY <1>1 DEF Sub, NoneChecks, SameSub
  <2> QED BY <1>1, <2>1, RangesStay
<1>2. CASE UNCHANGED vars
  BY <1>1, <1>2 DEF vars, history
<1>3. ASSUME NEW o \in Objects, Advertise(o) PROVE RangesInv'
  BY <1>1, <1>3 DEF Advertise
<1>4. ASSUME NEW p \in Procs, UserStep(p) PROVE RangesInv'
  BY <1>4, UserKeepsRanges
<1>5. ASSUME NEW p \in Procs, Work(p) PROVE RangesInv'
  <2>1. CASE ConstructTopology(p) \/ ConstructSwitchingService(p) \/ ConstructStp(p) \/ ConstructSdp(p)
    <3>1. \E links : Construct(p, links)
      BY <2>1 DEF ConstructTopology, ConstructSwitchingService, ConstructStp, ConstructSdp
    <3> QED BY <3>1, ConstructKeepsRanges
  <2> QED BY <1>5, <2>1, WorkKeepsRanges, CheckKeepsRanges, ReconcileChecks, StoreRangeKeeps DEF Work
<1>6. ASSUME NEW i \in Sub, SetInSync(i) PROVE RangesInv'
  BY <1>6, SetInSyncKeepsRanges
<1>7. ASSUME NEW c \in Circuits, SubmitCircuit(c) \/ StoreCircuit(c) \/ FinishCircuit(c) PROVE RangesInv'
  BY <1>7, SubmitCircuitInRange, StoreCircuitNoted, FinishCircuitKeeps
<1> QED BY <1>2, <1>3, <1>4, <1>5, <1>6, <1>7 DEF Next

\* The check of reconcile misses a circuit's VLAN only in its two races with circuits: a
\* form open when the new range was stored, and a VLAN stored between the check and the
\* end of the step (reconcile_stp, stp_block_for).
THEOREM StrandedOnlyByRaces == Spec => []StrandedOnlyInRaces
<1>1. Init => RangesInv
  <2> SUFFICES ASSUME Init PROVE RangesInv
    OBVIOUS
  <2>1. Sub = {}
    BY EmptySeq, LenProperties DEF Init, InitWith, Sub
  <2>2. \A c \in Circuits : circuits[c].status = "none" /\ circuits[c].nextVlan = 0
    BY DEF Init, InitWith
  <2>3. \A p \in Procs : proc[p].step = "none"
    BY DEF Init, InitWith, Idle
  <2> QED BY <2>1, <2>2, <2>3 DEF RangesInv, ChosenOfKnown, OpenInRange, CheckedInRange, StrandedOnlyInRaces
<1>2. RangesInv => StrandedOnlyInRaces
  BY DEF RangesInv
<1> QED BY <1>1, <1>2, RangesNext, InventoryInvariance, PTL DEF Spec

-----------------------------------------------------------------------------
(* The refinement of SubscriptionLock: what each step does to the lock *)

HeldIn(f, i) == {p \in Procs : f[p].step \notin {"none", "construct", "lock"} /\ f[p].sub = i}
InSyncIn(s, i) == i \in DOMAIN s /\ s[i].insync
KeptIn(s, i) == IF i \in DOMAIN s THEN {<<s[i].object, s[i].links, s[i].range, s[i].status>>} ELSE {}

Untouched(i) ==
  HeldIn(proc', i) = HeldIn(proc, i) /\ InSyncIn(subs', i) = InSyncIn(subs, i) /\ KeptIn(subs', i) = KeptIn(subs, i)

\* A step that touches neither holders nor what is stored is none of the lock.
LEMMA NoneTouched ==
  ASSUME \A i \in 1..MaxSubs : Untouched(i)
  PROVE  UNCHANGED Locking!lockVars
BY DEF Untouched, HeldIn, InSyncIn, KeptIn, Past, Sub, Locking!lockVars

\* A step about one subscription touches no other, and is a step of the lock if it is one
\* of that subscription's.
LEMMA OneAlone ==
  ASSUME NEW i \in 1..MaxSubs, \A j \in (1..MaxSubs) \ {i} : Untouched(j)
  PROVE  Locking!Only(i)
<1> DEFINE Held == [j \in 1..MaxSubs |-> HeldIn(proc, j)]
           InSync == [j \in 1..MaxSubs |-> InSyncIn(subs, j)]
           Stores == [j \in 1..MaxSubs |-> KeptIn(subs, j)]
<1>1. Held' = [Held EXCEPT ![i] = Held'[i]]
  BY DEF Untouched
<1>2. InSync' = [InSync EXCEPT ![i] = InSync'[i]]
  BY DEF Untouched
<1>3. Stores' = [Stores EXCEPT ![i] = Stores'[i]]
  BY DEF Untouched
<1> QED BY <1>1, <1>2, <1>3 DEF Locking!Only, HeldIn, InSyncIn, KeptIn, Past, Sub

\* The steps of the lock that a process takes: making, taking, changing, giving back.
LEMMA OneTouched ==
  ASSUME NEW i \in 1..MaxSubs, \A j \in (1..MaxSubs) \ {i} : Untouched(j), NEW p \in Procs,
         \/ /\ KeptIn(subs, i) = {} /\ KeptIn(subs', i) # {}
            /\ HeldIn(proc, i) = {} /\ HeldIn(proc', i) = {p} /\ ~InSyncIn(subs, i) /\ ~InSyncIn(subs', i)
         \/ /\ KeptIn(subs', i) = KeptIn(subs, i) /\ InSyncIn(subs, i) /\ ~InSyncIn(subs', i)
            /\ HeldIn(proc, i) = {} /\ HeldIn(proc', i) = {p}
         \/ /\ KeptIn(subs', i) \notin {{}, KeptIn(subs, i)} /\ ~InSyncIn(subs, i) /\ ~InSyncIn(subs', i)
            /\ HeldIn(proc, i) = {p} /\ HeldIn(proc', i) = {p}
         \/ /\ KeptIn(subs', i) = KeptIn(subs, i) /\ ~InSyncIn(subs, i)
            /\ HeldIn(proc, i) = {p} /\ HeldIn(proc', i) = {}
  PROVE  Locking!LockNext
<1>1. \/ Locking!Make(i) \/ Locking!Take(i) \/ Locking!Change(i)
      \/ Locking!Complete(i) \/ Locking!Abandon(i)
  BY DEF HeldIn, InSyncIn, KeptIn, Past, Sub, Locking!Make, Locking!Take, Locking!Change,
         Locking!Complete, Locking!Abandon, Locking!Free, Locking!Held
<1> QED BY <1>1, OneAlone DEF Locking!LockNext

\* Slots stay on their side of the lock.
LEMMA SlotsStay ==
  ASSUME UNCHANGED subs,
         \A r \in Procs : Past(r)' = Past(r) /\ (Past(r) => proc'[r].sub = proc[r].sub)
  PROVE  UNCHANGED Locking!lockVars
<1>1. \A i \in 1..MaxSubs : Untouched(i)
  BY DEF Untouched, HeldIn, Past
<1> QED BY <1>1, NoneTouched

LEMMA SlotStays ==
  ASSUME IInv, NEW p \in Procs, NEW q, proc' = [proc EXCEPT ![p] = q], UNCHANGED subs,
         \/ Past(p) /\ q.step \notin {"none", "construct", "lock"} /\ q.sub = proc[p].sub
         \/ ~Past(p) /\ q.step \in {"none", "construct", "lock"}
  PROVE  UNCHANGED Locking!lockVars
<1>1. proc'[p] = q /\ \A r \in Procs \ {p} : proc'[r] = proc[r]
  BY DEF IInv, TypeOK
<1>2. \A r \in Procs : Past(r)' = Past(r) /\ (Past(r) => proc'[r].sub = proc[r].sub)
  BY <1>1 DEF Past
<1> QED BY <1>2, SlotsStay

\* Who is past the lock has the subscription for itself.
LEMMA HeldByOne ==
  ASSUME IInv, NEW p \in Procs, Past(p)
  PROVE  \E i \in Sub : /\ i = proc[p].sub /\ i \in 1..MaxSubs /\ HeldIn(proc, i) = {p}
                        /\ subs[i] \in Subscription /\ ~subs[i].insync
<1>1. proc[p].sub \in Sub /\ Mine(p) \in Subscription /\ ~Mine(p).insync
  BY WorkerFacts DEF Past
<1>2. HeldIn(proc, proc[p].sub) = {p}
  BY DEF IInv, Bookkeeping, OneAtWork, HeldIn, Past
<1>3. Sub \subseteq 1..MaxSubs
  BY SubFacts, InventoryAssumption DEF IInv
<1> QED BY <1>1, <1>2, <1>3 DEF Mine

\* One slot and one subscription change.
LEMMA PairChange ==
  ASSUME IInv, NEW p \in Procs, NEW q, NEW i \in Sub, NEW s,
         proc' = [proc EXCEPT ![p] = q], subs' = [subs EXCEPT ![i] = s]
  PROVE  /\ proc'[p] = q /\ \A r \in Procs \ {p} : proc'[r] = proc[r]
         /\ DOMAIN subs = Sub /\ DOMAIN subs' = Sub /\ subs'[i] = s
         /\ \A j \in Sub \ {i} : subs'[j] = subs[j]
         /\ \A j : j # i => InSyncIn(subs', j) = InSyncIn(subs, j) /\ KeptIn(subs', j) = KeptIn(subs, j)
<1>1. /\ DOMAIN subs = Sub /\ DOMAIN subs' = Sub /\ subs'[i] = s
      /\ \A j \in Sub \ {i} : subs'[j] = subs[j]
  BY DEF Sub
<1>2. \A j : j # i => InSyncIn(subs', j) = InSyncIn(subs, j) /\ KeptIn(subs', j) = KeptIn(subs, j)
  BY <1>1 DEF InSyncIn, KeptIn
<1> QED BY <1>1, <1>2 DEF IInv, TypeOK

\* A step under the lock.
HolderChange(p, q, s) ==
  /\ Past(p) /\ q.step \in {"activate", "resync"} /\ q.sub = proc[p].sub /\ ~s.insync
  /\ proc' = [proc EXCEPT ![p] = q] /\ subs' = [subs EXCEPT ![proc[p].sub] = s]

LEMMA StepByHolder ==
  ASSUME IInv, NEW p \in Procs, NEW q, NEW s, HolderChange(p, q, s)
  PROVE  [Locking!LockNext]_Locking!lockVars
<1> USE DEF HolderChange
<1>1. PICK i \in Sub : /\ i = proc[p].sub /\ i \in 1..MaxSubs /\ HeldIn(proc, i) = {p}
                       /\ subs[i] \in Subscription /\ ~subs[i].insync
  BY HeldByOne
<1>2. q.step \in {"activate", "resync"} /\ q.sub = i /\ proc' = [proc EXCEPT ![p] = q]
  BY <1>1
<1>3. subs' = [subs EXCEPT ![i] = s]
  BY <1>1
<1>4. /\ proc'[p] = q /\ \A r \in Procs \ {p} : proc'[r] = proc[r]
      /\ DOMAIN subs = Sub /\ DOMAIN subs' = Sub /\ subs'[i] = s
      /\ \A j : j # i => InSyncIn(subs', j) = InSyncIn(subs, j) /\ KeptIn(subs', j) = KeptIn(subs, j)
  <2>1. proc' = [proc EXCEPT ![p] = q] /\ subs' = [subs EXCEPT ![i] = s]
    BY <1>2, <1>3
  <2> QED BY ONLY <2>1, IInv, PairChange
<1>5. \A j \in 1..MaxSubs : HeldIn(proc', j) = HeldIn(proc, j)
  BY <1>1, <1>2, <1>4 DEF HeldIn, Past
<1>6. ~InSyncIn(subs, i) /\ ~InSyncIn(subs', i) /\ KeptIn(subs', i) # {}
  BY <1>1, <1>4 DEF InSyncIn, KeptIn
<1>7. \A j \in (1..MaxSubs) \ {i} : Untouched(j)
  BY <1>4, <1>5 DEF Untouched
<1>8. CASE KeptIn(subs', i) = KeptIn(subs, i)
  <2>1. InSyncIn(subs', i) = InSyncIn(subs, i)
    BY <1>6 DEF InSyncIn
  <2>2. \A j \in 1..MaxSubs : Untouched(j)
    BY <1>5, <1>7, <1>8, <2>1 DEF Untouched
  <2> QED BY <2>2, NoneTouched
<1>9. CASE KeptIn(subs', i) # KeptIn(subs, i)
  BY <1>1, <1>5, <1>6, <1>7, <1>9, OneTouched
<1> QED BY <1>8, <1>9

\* The work on a subscription, from the lock to the last step but one.
LEMMA WorkUnderLock ==
  ASSUME IInv, NEW p \in Procs,
         SetStatusProvisioning(p) \/ SetStatusActive(p) \/ SetStatusTerminated(p) \/ StoreRange(p)
  PROVE  [Locking!LockNext]_Locking!lockVars
<1> DEFINE i == proc[p].sub
<1>1. proc[p].step \notin {"none", "construct", "lock"}
  BY DEF SetStatusProvisioning, SetStatusActive, SetStatusTerminated, StoreRange, At
<1>2. i \in Sub /\ Past(p) /\ subs[i] \in Subscription /\ ~subs[i].insync /\ proc[p] \in Process
  BY <1>1, WorkerFacts DEF Mine
<1>3. \E s : subs' = [subs EXCEPT ![i] = s] /\ ~s.insync
  <2>1. CASE SetStatusProvisioning(p)
    <3> DEFINE s == [subs[i] EXCEPT !.status = "PROVISIONING", !.reopened = Mine(p).reopened \/ ~Live(i)]
    <3>1. subs' = [subs EXCEPT ![i] = s] /\ ~s.insync
      BY <1>2, <2>1 DEF SetStatusProvisioning, Subscription
    <3> QED BY <3>1
  <2>2. CASE SetStatusActive(p)
    <3> DEFINE s == [subs[i] EXCEPT !.status = "ACTIVE"]
    <3>1. subs' = [subs EXCEPT ![i] = s] /\ ~s.insync
      BY <1>2, <2>2 DEF SetStatusActive, Set, Subscription
    <3> QED BY <3>1
  <2>3. CASE SetStatusTerminated(p)
    <3> DEFINE s == [subs[i] EXCEPT !.status = "TERMINATED", !.closing = proc[p].made]
    <3>1. subs' = [subs EXCEPT ![i] = s] /\ ~s.insync
      BY <1>2, <2>3 DEF SetStatusTerminated, Subscription
    <3> QED BY <3>1
  <2>4. CASE StoreRange(p) /\ proc[p].advert.listed
    <3> DEFINE s == [subs[i] EXCEPT !.range = proc[p].advert.range]
    <3>1. subs' = [subs EXCEPT ![i] = s] /\ ~s.insync
      BY <1>2, <2>4 DEF StoreRange, Set, Subscription
    <3> QED BY <3>1
  <2>5. CASE StoreRange(p) /\ ~proc[p].advert.listed
    <3>1. subs' = [subs EXCEPT ![i] = subs[i]]
      BY <1>2, <2>5, LenProperties DEF StoreRange, IInv, TypeOK, Sub
    <3> QED BY <1>2, <3>1
  <2> QED BY <2>1, <2>2, <2>3, <2>4, <2>5
<1>4. \E q : q.step \in {"activate", "resync"} /\ q.sub = i /\ proc' = [proc EXCEPT ![p] = q]
  <2>1. ASSUME NEW next \in {"activate", "resync"}
        PROVE  [proc[p] EXCEPT !.step = next].step = next /\ [proc[p] EXCEPT !.step = next].sub = i
    BY <1>2 DEF Process
  <2>2. CASE SetStatusProvisioning(p) \/ SetStatusActive(p) \/ SetStatusTerminated(p)
    <3>1. PICK next \in {"activate", "resync"} : proc' = [proc EXCEPT ![p] = [proc[p] EXCEPT !.step = next]]
      BY <2>2 DEF SetStatusProvisioning, SetStatusActive, SetStatusTerminated, Goto
    <3> QED BY <2>1, <3>1
  <2>3. CASE StoreRange(p)
    <3> DEFINE q == [proc[p] EXCEPT !.step = "resync", !.advert = Absent]
    <3>1. q.step = "resync" /\ q.sub = i
      BY <1>2 DEF Process
    <3>2. proc' = [proc EXCEPT ![p] = q]
      BY <2>3 DEF StoreRange, Stored
    <3> QED BY <3>1, <3>2
  <2> QED BY <2>2, <2>3
<1>5. PICK s : subs' = [subs EXCEPT ![i] = s] /\ ~s.insync
  BY <1>3
<1>6. PICK q : q.step \in {"activate", "resync"} /\ q.sub = i /\ proc' = [proc EXCEPT ![p] = q]
  BY <1>4
<1>7. HolderChange(p, q, s)
  BY <1>2, <1>5, <1>6 DEF HolderChange
<1> QED BY <1>7, StepByHolder

\* Where nothing is written, slots stay on their side.
LEMMA QuietStep ==
  ASSUME IInv, NEW p \in Procs,
         \/ UserStep(p) /\ ~Abort(p)
         \/ StepFails(p) \/ ReconcileStp(p)
         \/ ValidateTopology(p) \/ ValidateSwitchingService(p) \/ ValidateStp(p)
         \/ ValidateStpVlans(p) \/ ValidateSdp(p) \/ ValidateSdpVlans(p)
  PROVE  UNCHANGED Locking!lockVars
<1>1. proc[p] \in Process /\ ProcessWellFormed(proc[p])
  BY DEF IInv, Bookkeeping, TypeOK, ProcessesWellFormed
<1>2. ASSUME NEW run, proc' = [proc EXCEPT ![p].run = run], UNCHANGED subs
      PROVE  UNCHANGED Locking!lockVars
  <2> DEFINE q == [proc[p] EXCEPT !.run = run]
  <2>1. q.step = proc[p].step /\ q.sub = proc[p].sub /\ proc' = [proc EXCEPT ![p] = q]
    BY <1>1, <1>2 DEF Process
  <2> HIDE DEF q
  <2> QED BY <1>2, <2>1, SlotStays DEF Past
<1>3. ASSUME NEW q, proc' = [proc EXCEPT ![p] = q], q.step \in {"construct", "lock"}, ~Unfinished(p), UNCHANGED subs
      PROVE  UNCHANGED Locking!lockVars
  <2>1. ~Past(p)
    BY <1>1, <1>3 DEF ProcessWellFormed, Past, Unfinished, Idle
  <2> QED BY <1>3, <2>1, SlotStays
<1>4. ASSUME NEW step, step \notin {"none", "construct", "lock"}, NEW ok, NEW next \in {"vlans", "resync"},
             Check(p, step, ok, next)
      PROVE  UNCHANGED Locking!lockVars
  <2> DEFINE q == [proc[p] EXCEPT !.step = next]
  <2>1. q.step = next /\ q.sub = proc[p].sub /\ proc' = [proc EXCEPT ![p] = q]
    BY <1>1, <1>4 DEF Process, Check, Goto
  <2>2. Past(p) /\ UNCHANGED subs
    BY <1>4 DEF Check, At, Past
  <2> HIDE DEF q
  <2> QED BY <2>1, <2>2, SlotStays
<1>5. ASSUME NEW o, SubmitCreate(p, o)
      PROVE  UNCHANGED Locking!lockVars
  <2> DEFINE q == [wf |-> "create", step |-> "construct", run |-> "running",
                   sub |-> 0, object |-> o, advert |-> dds[o], made |-> Len(subs)]
  <2>1. q.step = "construct" /\ proc' = [proc EXCEPT ![p] = q] /\ ~Unfinished(p) /\ UNCHANGED subs
    BY <1>5 DEF SubmitCreate
  <2> HIDE DEF q
  <2> QED BY <1>3, <2>1
<1>6. ASSUME NEW wf, NEW i, Submit(p, wf, i)
      PROVE  UNCHANGED Locking!lockVars
  <2> DEFINE q == [Idle EXCEPT !.wf = wf, !.step = "lock", !.run = "running", !.sub = i, !.made = Len(subs)]
  <2>1. q.step = "lock" /\ proc' = [proc EXCEPT ![p] = q] /\ ~Unfinished(p) /\ UNCHANGED subs
    BY <1>6 DEF Submit, Idle
  <2> HIDE DEF q
  <2> QED BY <1>3, <2>1
<1>7. CASE UserStep(p) /\ ~Abort(p)
  BY <1>2, <1>5, <1>6, <1>7 DEF UserStep, CreateTopology, CreateSwitchingService, CreateStp, CreateSdp,
     SubmitModify, SubmitTerminate, StartValidate, StartReconcile, Retry
<1>8. CASE StepFails(p)
  <2> DEFINE q == [Restarted(proc[p]) EXCEPT !.run = "failed"]
  <2>1. q.sub = proc[p].sub /\ (q.step = proc[p].step \/ (q.step = "reconcile" /\ proc[p].step = "store"))
    <3>1. CASE proc[p].step = "store"
      BY <1>1, <3>1 DEF Restarted, Process
    <3>2. CASE proc[p].step # "store"
      BY <1>1, <3>2 DEF Restarted, Process
    <3> QED BY <3>1, <3>2
  <2>2. proc' = [proc EXCEPT ![p] = q] /\ UNCHANGED subs
    BY <1>8 DEF StepFails
  <2> HIDE DEF q
  <2> QED BY <2>1, <2>2, SlotStays DEF Past
<1>9. CASE \/ ValidateTopology(p) \/ ValidateSwitchingService(p) \/ ValidateStp(p)
           \/ ValidateStpVlans(p) \/ ValidateSdp(p) \/ ValidateSdpVlans(p)
  BY <1>4, <1>9 DEF ValidateTopology, ValidateSwitchingService, ValidateStp, ValidateStpVlans,
     ValidateSdp, ValidateSdpVlans
<1>10. CASE ReconcileStp(p)
  <2> DEFINE q == [proc[p] EXCEPT !.step = "store", !.advert = dds[Mine(p).object]]
  <2>1. q.step = "store" /\ q.sub = proc[p].sub
    BY <1>1 DEF Process
  <2>2. proc' = [proc EXCEPT ![p] = q] /\ UNCHANGED subs /\ Past(p)
    BY <1>10 DEF ReconcileStp, At, Past
  <2> HIDE DEF q
  <2> QED BY <2>1, <2>2, SlotStays
<1> QED BY <1>7, <1>8, <1>9, <1>10

\* A construct step makes the next subscription and works on it from then on.
LEMMA ConstructMakes == ASSUME IInv, IInv', NEW p \in Procs, NEW links, Construct(p, links) PROVE Locking!LockNext
<1> DEFINE s == [object |-> proc[p].object, links |-> links,
                 range |-> proc[p].advert.range, status |-> "PROVISIONING",
                 insync |-> FALSE, made |-> proc[p].made, reopened |-> FALSE, closing |-> 0]
<1>1. /\ Len(subs) \in Nat /\ Sub = 1..Len(subs) /\ Sub' = 1..Len(subs') /\ MaxSubs \in Nat
      /\ Len(subs) < MaxSubs /\ proc[p].step = "construct" /\ subs \in Seq(Subscription)
  <2>1. /\ Len(subs) \in Nat /\ Sub = 1..Len(subs) /\ MaxSubs \in Nat /\ subs \in Seq(Subscription)
    BY SubFacts, InventoryAssumption DEF IInv, TypeOK
  <2>2. subs' \in Seq(Subscription)
    BY DEF IInv, TypeOK
  <2>3. Sub' = 1..Len(subs')
    BY <2>2, LenProperties DEF Sub
  <2> QED BY <2>1, <2>3 DEF Construct, At
<1>2. PICK n \in 1..MaxSubs : n = Len(subs) + 1
  BY <1>1
<1>3. subs' = Append(subs, s)
  BY DEF Construct
<1>4. /\ Len(subs') = n /\ subs'[n] = s
      /\ \A j \in Sub : subs'[j] = subs[j]
  BY <1>1, <1>2, <1>3
<1>5. s.insync = FALSE
  OBVIOUS
<1> HIDE DEF s
<1>6. /\ Sub' = Sub \cup {n} /\ n \notin Sub /\ DOMAIN subs = Sub /\ DOMAIN subs' = Sub'
  BY <1>1, <1>2, <1>4 DEF Sub
<1> DEFINE q == [Idle EXCEPT !.wf = "create", !.step = "activate", !.run = "running", !.sub = Len(subs')]
<1>7. proc' = [proc EXCEPT ![p] = q] /\ q.step = "activate" /\ q.sub = n
  BY <1>4 DEF Construct, Idle
<1> HIDE DEF q
<1>8. proc'[p] = q /\ \A r \in Procs \ {p} : proc'[r] = proc[r]
  BY <1>7 DEF IInv, TypeOK
<1>9. \A r \in Procs : Past(r) => proc[r].sub \in Sub
  BY WorkerFacts DEF Past
<1>10. HeldIn(proc, n) = {} /\ HeldIn(proc', n) = {p}
  BY <1>1, <1>6, <1>7, <1>8, <1>9 DEF HeldIn, Past
<1>11. \A j \in (1..MaxSubs) \ {n} : HeldIn(proc', j) = HeldIn(proc, j)
  BY <1>1, <1>7, <1>8 DEF HeldIn
<1>12. /\ ~InSyncIn(subs, n) /\ ~InSyncIn(subs', n)
       /\ \A j \in (1..MaxSubs) \ {n} : InSyncIn(subs', j) = InSyncIn(subs, j)
  BY <1>4, <1>5, <1>6 DEF InSyncIn
<1>13. /\ KeptIn(subs, n) = {} /\ KeptIn(subs', n) # {}
       /\ \A j \in (1..MaxSubs) \ {n} : KeptIn(subs', j) = KeptIn(subs, j)
  BY <1>4, <1>6 DEF KeptIn
<1>14. \A j \in (1..MaxSubs) \ {n} : Untouched(j)
  BY <1>11, <1>12, <1>13 DEF Untouched
<1> QED BY <1>10, <1>12, <1>13, <1>14, OneTouched

\* The lock step finds the subscription in sync, so nobody else is past the lock.
LEMMA LockTakes == ASSUME IInv, NEW p \in Procs, Lock(p) PROVE Locking!LockNext
<1>1. proc[p].step = "lock" /\ Mine(p).insync
  BY DEF Lock, At
<1>2. PICK i \in Sub : /\ i = proc[p].sub /\ subs[i] \in Subscription /\ subs[i].insync /\ i \in 1..MaxSubs
                       /\ proc[p] \in Process /\ proc[p].wf \in {"modify", "terminate", "validate", "reconcile"}
  BY <1>1, WorkerFacts, SubFacts, InventoryAssumption DEF IInv, Mine, ProcessWellFormed, AfterLock
<1> DEFINE q == [proc[p] EXCEPT !.step = AfterLock[proc[p].wf]]
           s == [subs[i] EXCEPT !.insync = FALSE]
<1>3. proc' = [proc EXCEPT ![p] = q] /\ subs' = [subs EXCEPT ![i] = s]
  BY <1>2 DEF Lock, Goto, Set
<1>4. q.step \in {"provisioning", "close", "validate", "reconcile"} /\ q.sub = i
  BY <1>2 DEF Process, AfterLock
<1>5. /\ s.insync = FALSE /\ s.object = subs[i].object /\ s.links = subs[i].links
      /\ s.range = subs[i].range /\ s.status = subs[i].status
  BY <1>2 DEF Subscription
<1> HIDE DEF q, s
<1>6. /\ proc'[p] = q /\ \A r \in Procs \ {p} : proc'[r] = proc[r]
      /\ DOMAIN subs = Sub /\ DOMAIN subs' = Sub /\ subs'[i] = s
      /\ \A j : j # i => InSyncIn(subs', j) = InSyncIn(subs, j) /\ KeptIn(subs', j) = KeptIn(subs, j)
  BY ONLY <1>3, IInv, PairChange
<1>7. HeldIn(proc, i) = {}
  BY <1>2, WorkerFacts DEF HeldIn, Mine
<1>8. HeldIn(proc', i) = {p} /\ \A j \in (1..MaxSubs) \ {i} : HeldIn(proc', j) = HeldIn(proc, j)
  BY <1>1, <1>4, <1>6, <1>7 DEF HeldIn
<1>9. InSyncIn(subs, i) /\ ~InSyncIn(subs', i) /\ KeptIn(subs', i) = KeptIn(subs, i)
  BY <1>2, <1>5, <1>6 DEF InSyncIn, KeptIn
<1>10. \A j \in (1..MaxSubs) \ {i} : Untouched(j)
  BY <1>6, <1>8 DEF Untouched
<1> QED BY <1>2, <1>7, <1>8, <1>9, <1>10, OneTouched

\* Resync completes, an abort past the lock abandons.
LEMMA EndsWork ==
  ASSUME IInv, NEW p \in Procs, Resync(p) \/ Abort(p)
  PROVE  [Locking!LockNext]_Locking!lockVars
<1>1. proc' = [proc EXCEPT ![p] = Idle]
  BY DEF Resync, Abort
<1>2. CASE ~Past(p)
  <2>1. UNCHANGED subs
    BY <1>2 DEF Resync, Abort, At, Past
  <2> QED BY <1>1, <1>2, <2>1, SlotStays DEF Idle
<1>3. CASE Past(p)
  <2>1. PICK i \in Sub : /\ i = proc[p].sub /\ i \in 1..MaxSubs /\ HeldIn(proc, i) = {p}
                         /\ subs[i] \in Subscription /\ ~subs[i].insync
    BY <1>3, HeldByOne
  <2>2. \E s : /\ subs' = [subs EXCEPT ![i] = s]
               /\ s.object = subs[i].object /\ s.links = subs[i].links
               /\ s.range = subs[i].range /\ s.status = subs[i].status
    <3>1. CASE Resync(p)
      <4> DEFINE s == [subs[i] EXCEPT !.insync = TRUE]
      <4>1. /\ subs' = [subs EXCEPT ![i] = s]
            /\ s.object = subs[i].object /\ s.links = subs[i].links
            /\ s.range = subs[i].range /\ s.status = subs[i].status
        BY <2>1, <3>1 DEF Resync, Set, Subscription
      <4> QED BY <4>1
    <3>2. CASE Abort(p)
      <4>1. subs' = [subs EXCEPT ![i] = subs[i]]
        BY <2>1, <3>2, LenProperties DEF Abort, IInv, TypeOK, Sub
      <4> QED BY <4>1
    <3> QED BY <3>1, <3>2
  <2>3. PICK s : /\ subs' = [subs EXCEPT ![i] = s]
                 /\ s.object = subs[i].object /\ s.links = subs[i].links
                 /\ s.range = subs[i].range /\ s.status = subs[i].status
    BY <2>2
  <2>4. /\ proc'[p] = Idle /\ \A r \in Procs \ {p} : proc'[r] = proc[r]
        /\ DOMAIN subs = Sub /\ DOMAIN subs' = Sub /\ subs'[i] = s
        /\ \A j : j # i => InSyncIn(subs', j) = InSyncIn(subs, j) /\ KeptIn(subs', j) = KeptIn(subs, j)
    BY ONLY <1>1, <2>3, IInv, PairChange
  <2>5. HeldIn(proc', i) = {} /\ \A j \in (1..MaxSubs) \ {i} : HeldIn(proc', j) = HeldIn(proc, j)
    BY <2>1, <2>4 DEF HeldIn, Idle
  <2>6. ~InSyncIn(subs, i) /\ KeptIn(subs', i) = KeptIn(subs, i)
    BY <2>1, <2>3, <2>4 DEF InSyncIn, KeptIn
  <2>7. \A j \in (1..MaxSubs) \ {i} : Untouched(j)
    BY <2>4, <2>5 DEF Untouched
  <2> QED BY <2>1, <2>5, <2>6, <2>7, OneTouched
<1> QED BY <1>2, <1>3

\* A subscription is set in sync by hand only while nobody is past its lock.
LEMMA SetInSyncOverrides == ASSUME IInv, NEW i \in Sub, SetInSync(i) PROVE Locking!LockNext
<1> DEFINE s == [subs[i] EXCEPT !.insync = TRUE]
<1>1. subs' = [subs EXCEPT ![i] = s] /\ UNCHANGED proc /\ ~subs[i].insync
  BY DEF SetInSync
<1>2. subs[i] \in Subscription /\ i \in 1..MaxSubs
  BY SubFacts, InventoryAssumption DEF IInv
<1>3. /\ s.insync /\ s.object = subs[i].object /\ s.links = subs[i].links
      /\ s.range = subs[i].range /\ s.status = subs[i].status
  BY <1>2 DEF Subscription
<1> HIDE DEF s
<1>4. /\ DOMAIN subs = Sub /\ DOMAIN subs' = Sub /\ subs'[i] = s /\ \A j \in Sub \ {i} : subs'[j] = subs[j]
  BY <1>1 DEF Sub
<1>5. \A r \in Procs : Past(r) => proc[r].sub # i
  BY DEF IInv, Bookkeeping, ProcessesWellFormed, ProcessWellFormed, Past, SetInSync, Unfinished, Idle
<1>6. HeldIn(proc, i) = {} /\ \A j \in 1..MaxSubs : HeldIn(proc', j) = HeldIn(proc, j)
  BY <1>1, <1>5 DEF HeldIn, Past
<1>7. ~InSyncIn(subs, i) /\ InSyncIn(subs', i) /\ KeptIn(subs', i) = KeptIn(subs, i) /\ KeptIn(subs, i) # {}
  BY <1>1, <1>3, <1>4 DEF InSyncIn, KeptIn
<1>8. \A j \in (1..MaxSubs) \ {i} : Untouched(j)
  BY <1>4, <1>6 DEF Untouched, InSyncIn, KeptIn
<1>9. HeldIn(proc', i) = {}
  BY <1>2, <1>6
<1>10. Locking!Override(i)
  BY <1>2, <1>6, <1>7, <1>9 DEF HeldIn, InSyncIn, KeptIn, Past, Sub, Locking!Override, Locking!Free
<1> QED BY <1>2, <1>8, <1>10, OneAlone DEF Locking!LockNext

\* The workflows of the four products implement the lock of each subscription: failed,
\* retried and aborted processes included, two never write to one subscription at a time.
THEOREM InventoryKeepsLock == Spec => KeepsTheLock
<1>1. ASSUME Init PROVE Locking!LockInit
  <2>1. Sub = {} /\ subs = <<>>
    BY <1>1, EmptySeq, LenProperties DEF Init, InitWith, Sub
  <2>2. \A p \in Procs : ~Past(p)
    BY <1>1 DEF Init, InitWith, Idle, Past
  <2> QED BY <2>1, <2>2 DEF Locking!LockInit
<1>2. ASSUME IInv, IInv', [Next]_vars
      PROVE  [Locking!LockNext]_Locking!lockVars
  <2>1. ASSUME NEW p \in Procs, UserStep(p)
        PROVE  [Locking!LockNext]_Locking!lockVars
    BY <1>2, <2>1, QuietStep, EndsWork
  <2>2. ASSUME NEW p \in Procs, Work(p)
        PROVE  [Locking!LockNext]_Locking!lockVars
    <3>1. CASE ConstructTopology(p) \/ ConstructSwitchingService(p) \/ ConstructStp(p) \/ ConstructSdp(p)
      <4>1. \E links : Construct(p, links)
        BY <3>1 DEF ConstructTopology, ConstructSwitchingService, ConstructStp, ConstructSdp
      <4> QED BY <1>2, <4>1, ConstructMakes
    <3>2. CASE Lock(p)
      BY <1>2, <3>2, LockTakes
    <3>3. CASE SetStatusProvisioning(p) \/ SetStatusActive(p) \/ SetStatusTerminated(p) \/ StoreRange(p)
      BY <1>2, <3>3, WorkUnderLock
    <3>4. CASE Resync(p)
      BY <1>2, <3>4, EndsWork
    <3> QED BY <1>2, <2>2, <3>1, <3>2, <3>3, <3>4, QuietStep DEF Work
  <2>3. ASSUME NEW i \in Sub, SetInSync(i)
        PROVE  Locking!LockNext
    BY <1>2, <2>3, SetInSyncOverrides
  <2>4. ASSUME UNCHANGED <<subs, proc>>
        PROVE  UNCHANGED Locking!lockVars
    BY <2>4, SlotsStay DEF Past
  <2>5. ASSUME NEW o \in Objects, Advertise(o)
        PROVE  UNCHANGED <<subs, proc>>
    BY <2>5 DEF Advertise
  <2>6. ASSUME NEW c \in Circuits, SubmitCircuit(c) \/ StoreCircuit(c) \/ FinishCircuit(c)
        PROVE  UNCHANGED <<subs, proc>>
    BY <2>6 DEF SubmitCircuit, StoreCircuit, FinishCircuit
  <2>7. CASE UNCHANGED vars
    BY <2>4, <2>7 DEF vars
  <2> QED BY <1>2, <2>1, <2>2, <2>3, <2>4, <2>5, <2>6, <2>7 DEF Next
<1> QED BY <1>1, <1>2, InventoryInvariance, PTL DEF Spec, KeepsTheLock, Locking!LockSpec

=============================================================================
