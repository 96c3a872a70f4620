---------------------------- MODULE MCDeliveries ----------------------------
(***************************************************************************)
(* Instances of Deliveries for model checking.                             *)
(***************************************************************************)
EXTENDS Deliveries, TLC

CONSTANTS s1, s2, d1, d2, d3, l1, l2, a1, a2

\* The inputs of a leg: complete, complete but with partial modal coverage
\* (sea), too heavy for its equipment, and without carrier and start.
MCPlans == {"road", "sea", "heavy", "sketch"}
MCComplete == {"road", "sea", "heavy"}
MCCleared == {"road", "sea", "sketch"}
MCManual == {"sea"}
MCUnscheduled == [p \in Plans |-> "sketch"]

\* No operation tells the ids of follow-ups apart.
Symmetry == Permutations(Deliveries \ Fresh)

\* Nor of all deliveries where every one can be created.
Everyone == Permutations(Deliveries)

Goods(s, path, qty) == [shipment |-> s, path |-> path, qty |-> qty]
line(q, damaged, refused) == [quantity |-> q, damaged |-> damaged, refused |-> refused]

\* Legs without equipment and load unit.
NoBox == [p \in Plans |-> None]
NoEquipment == [p \in Plans |-> {}]

-----------------------------------------------------------------------------
(* Planning: two deliveries compete for one shipment whose stock shrinks   *)
(* with a new revision; the second revision declares dangerous goods.      *)

PlanningStock == (s1 :> <<2, 1>>) @@ (s2 :> <<1, 1>>)
PlanningDangerous == {<<s1, 2>>}
PlanningPayloads ==
  {[legs |-> l1 :> p, allocs |-> a1 :> Goods(s1, <<l1>>, l1 :> q)] :
     p \in {"road", "sea"}, q \in {1, 2}}
  \cup {[legs |-> l1 :> "road",
         allocs |-> (a1 :> Goods(s1, <<l1>>, l1 :> 1)) @@ (a2 :> Goods(s2, <<l1>>, l1 :> 1))]}
-----------------------------------------------------------------------------
(* Execution: one delivery of two units on one leg, with the follow-ups of  *)
(* its differences and their own follow-ups.                                *)

ExecutionStock == (s1 :> <<2>>)
ExecutionPayloads ==
  {[legs |-> l1 :> "road", allocs |-> a1 :> Goods(s1, <<l1>>, l1 :> 2)]}
FollowupLines == {line(2, 0, 0), line(1, 0, 0), line(0, 0, 1)}

-----------------------------------------------------------------------------
(* Transfer: goods change transport, so a second leg depends on the first.  *)

TransferPayloads ==
  {[legs |-> (l1 :> "road") @@ (l2 :> "road"),
    allocs |-> a1 :> Goods(s1, <<l1, l2>>, (l1 :> 2) @@ (l2 :> q))] : q \in {1, 2}}
  \cup {[legs |-> l1 :> "road", allocs |-> a1 :> Goods(s1, <<l1>>, l1 :> 2)]}
TransferLines == {line(2, 0, 0), line(1, 0, 0), line(1, 1, 1)}

-----------------------------------------------------------------------------
(* Units: two deliveries of one unit each want the same truck or container, *)
(* in overlapping periods or one after the other.                           *)

UnitsStock == (s1 :> <<2>>)
UnitsPlans == {"boxed", "later", "truck", "none"}
UnitsBox == [p \in UnitsPlans |-> IF p \in {"boxed", "later"} THEN "box" ELSE None]
UnitsEquipment == [p \in UnitsPlans |-> IF p \in {"later", "truck"} THEN {"truck"} ELSE {}]
UnitsBefore == {<<"boxed", "later">>, <<"truck", "later">>}
UnitsUnscheduled == [p \in UnitsPlans |-> "none"]
UnitsPayloads ==
  {[legs |-> l1 :> p, allocs |-> a1 :> Goods(s1, <<l1>>, l1 :> 1)] : p \in {"boxed", "later", "truck"}}
UnitsLines == {line(1, 0, 0), line(0, 0, 0)}

=============================================================================
