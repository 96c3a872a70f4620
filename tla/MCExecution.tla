---------------------------- MODULE MCExecution ----------------------------
(***************************************************************************)
(* What happens to goods on their way: the differences of a delivery and   *)
(* their follow-ups, or a transfer, where a second leg depends on what the *)
(* first is said to have delivered.                                        *)
(***************************************************************************)
EXTENDS MCDeliveries

VARIABLES scene, transferShipments, transferDeliveries

Transfer == INSTANCE Deliveries WITH
  Deliveries <- {d1}, Legs <- {l1, l2}, Plans <- {"road"}, Placed <- {"road"},
  Cleared <- {"road"}, Box <- [p \in {"road"} |-> None], Equipment <- [p \in {"road"} |-> {}],
  Unscheduled <- [p \in {"road"} |-> p], Payloads <- TransferPayloads, Lines <- TransferLines,
  MaxEvents <- 5, shipments <- transferShipments, deliveries <- transferDeliveries

ExecutionInit == scene \in {"differences", "transfer"} /\ Init /\ Transfer!Init

ExecutionNext ==
  /\ UNCHANGED scene
  /\ \/ scene = "differences" /\ Next /\ UNCHANGED <<transferShipments, transferDeliveries>>
     \/ scene = "transfer" /\ Transfer!Next /\ UNCHANGED vars

ExecutionSpec ==
  ExecutionInit /\ [][ExecutionNext]_<<scene, vars, transferShipments, transferDeliveries>>

\* CompletionIsSettled of Deliveries: of two legs too, each is complete or
\* closed exactly when none of its goods has an open difference.
TransferSettled == Transfer!CompletionIsSettled

\* CorrectionsReplace of Deliveries: what a correction leaves in force says each
\* thing once.
TransferCorrected == Transfer!CorrectionsReplace

\* ForwardLoading of Deliveries: what the second leg loads has been received on
\* the first, however both are corrected.
TransferLoadsForward == Transfer!ForwardLoading

\* ExecutedFrozen of Deliveries: a leg that has started stays what it was,
\* whatever is edited around it.
TransferFrozen == Transfer!ExecutedFrozen
=============================================================================
