---------------------------- MODULE StockLedger ----------------------------
(***************************************************************************)
(* What the deliveries together promise about the kept shipments ("Every   *)
(* write first acquires the inventory lock. This matters when two different *)
(* deliveries reserve the same shipment"): goods are taken from a shipment *)
(* only as far as it has them, and what goods have been taken from does    *)
(* not change.  Deliveries implements it.                                  *)
(***************************************************************************)
EXTENDS Integers, FiniteSets

CONSTANTS
  Shipments, Contents,  \* Contents: what a kept shipment can contain
  None,                 \* the contents of a shipment that is not kept
  Stock,                \* Stock[s][c]: the units shipment s has with contents c
  Units                 \* the names under which units are taken

VARIABLES
  contents,   \* contents[s] \in Contents \cup {None}
  taken       \* taken[s]: the units taken from shipment s

Fits(s, units) ==
  units # {} => contents[s] \in Contents /\ Cardinality(units) <= Stock[s][contents[s]]

\* Units go back to their shipments, or new ones are taken that fit.
Book ==
  /\ taken' \in [Shipments -> SUBSET Units]
  /\ \A s \in Shipments : taken'[s] \subseteq taken[s] \/ Fits(s, taken'[s])
  /\ UNCHANGED contents

Change(s) ==
  /\ taken[s] = {}
  /\ \E c \in Contents \cup {None} : contents' = [contents EXCEPT ![s] = c]
  /\ UNCHANGED taken

Clear ==
  /\ contents' = [s \in Shipments |-> None]
  /\ taken' = [s \in Shipments |-> {}]

Init ==
  /\ contents = [s \in Shipments |-> None]
  /\ taken = [s \in Shipments |-> {}]

Next == Book \/ Clear \/ \E s \in Shipments : Change(s)

Spec == Init /\ [][Next]_<<contents, taken>>

-----------------------------------------------------------------------------
TypeOK ==
  /\ contents \in [Shipments -> Contents \cup {None}]
  /\ taken \in [Shipments -> SUBSET Units]

\* What has been taken from a shipment is there.
Covered == \A s \in Shipments : Fits(s, taken[s])
=============================================================================
