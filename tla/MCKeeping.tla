----------------------------- MODULE MCKeeping -----------------------------
(***************************************************************************)
(* An instance of Keeping: one shipment, one delivery, two sessions.       *)
(***************************************************************************)
EXTENDS Keeping, TLC

CONSTANTS s1, d1, l1, a1, w1, w2

KeepingStock == s1 :> <<2, 2>>
KeepingPlans == "road" :> "road"
KeepingBox == "road" :> None
KeepingEquipment == "road" :> {}
KeepingPayloads ==
  {[legs   |-> l1 :> "road",
    allocs |-> a1 :> [shipment |-> s1, path |-> <<l1>>, qty |-> l1 :> 2]]}
=============================================================================
