----------------------------- MODULE MCPlanning -----------------------------
(***************************************************************************)
(* What deliveries that are planned compete for: the goods of a shipment,  *)
(* and the trucks and containers.  The deliveries of the second want one   *)
(* unit of goods each, of which there is enough.                           *)
(***************************************************************************)
EXTENDS MCDeliveries

VARIABLES scene, unitShipments, unitDeliveries

Units == INSTANCE Deliveries WITH
  Shipments <- {s1}, Allocs <- {a1}, Revisions <- {1}, Stock <- UnitsStock,
  Dangerous <- {}, Plans <- UnitsPlans, Placed <- UnitsPlans, Assigned <- UnitsPlans,
  Manual <- {}, Cleared <- UnitsPlans, Fresh <- Deliveries, Box <- UnitsBox,
  Equipment <- UnitsEquipment, Before <- UnitsBefore, Unscheduled <- UnitsUnscheduled,
  Payloads <- UnitsPayloads, Lines <- UnitsLines, MaxQuantity <- 1, MaxEvents <- 4,
  shipments <- unitShipments, deliveries <- unitDeliveries

PlanningInit == scene \in {"goods", "units"} /\ Init /\ Units!Init

PlanningNext ==
  /\ UNCHANGED scene
  /\ \/ scene = "goods" /\ Next /\ UNCHANGED <<unitShipments, unitDeliveries>>
     \/ scene = "units" /\ Units!Next /\ UNCHANGED vars

PlanningSpec ==
  PlanningInit /\ [][PlanningNext]_<<scene, vars, unitShipments, unitDeliveries>>

\* Bound: the events of two deliveries together.
FewEvents ==
  \A d, o \in Deliveries :
    d # o => Len(unitDeliveries[d].events) + Len(unitDeliveries[o].events) <= 4

\* UnitsInTurn of Deliveries: no truck or container is used by two legs at a
\* time.
UnitsTakeTurns == Units!UnitsInTurn

\* BoxKnownEmpty of Deliveries: a container passes on to another delivery only
\* when the statements say that it is empty.
BoxPassedOnEmpty == Units!BoxKnownEmpty
=============================================================================
