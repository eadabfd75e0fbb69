---------------------------- MODULE MCDdsInventory ----------------------------
(***************************************************************************)
(* Bounded instances of DdsInventory, one for each level of products: the  *)
(* Grown ones start from states that Spec reaches, in which the levels     *)
(* below are subscribed; an initial state also says how often each object  *)
(* may still change.                                                       *)
(***************************************************************************)
EXTENDS DdsInductive, TLC

CONSTANTS t1, s1, a1, z1, d1

MCEndsOf == [d \in Sdps |-> {a1, z1}]
MCRanges == {{1}, {1, 2}}

Subscribing(o, links, range, made) ==
  [object |-> o, links |-> links, range |-> range, status |-> "ACTIVE",
   insync |-> TRUE, made |-> made, reopened |-> FALSE, closing |-> 0]

TopologySub == Subscribing(t1, <<>>, {}, 0)
ServiceSub == Subscribing(s1, <<1>>, {}, 1)
StpSub(o, made) == Subscribing(o, <<2>>, {1, 2}, made)

Known(objects) ==
  [o \in Objects |->
     IF o \notin objects THEN Absent
     ELSE IF o = t1 THEN Listed(<<>>, {})
     ELSE IF o = s1 THEN Listed(<<t1>>, {})
     ELSE IF o \in Stps THEN Listed(<<s1>>, {1, 2})
     ELSE Listed(<<a1, z1>>, {})]

\* An object may still change as often as left says.
Left(left) == [o \in Objects |-> IF o \in DOMAIN left THEN MaxChanges - left[o] ELSE MaxChanges]

\* Nothing; a topology and its switching service; and two STPs and their SDP as well.
FromNothing == InitWith([o \in Objects |-> Absent], <<>>, 0, Left((t1 :> 2) @@ (s1 :> 2)))
GrownToServices ==
  InitWith(Known({t1, s1}), <<TopologySub, ServiceSub>>, 0, Left(a1 :> 2))
GrownToStps ==
  InitWith(Known(Objects), <<TopologySub, ServiceSub, StpSub(a1, 2), StpSub(z1, 3)>>,
           0, Left(<<>>))

AnyLevel == (FromNothing \/ GrownToServices \/ GrownToStps) /\ [][Next]_vars
FromServices == GrownToServices /\ [][Next]_vars

Symmetry == Permutations(Procs)

=============================================================================
