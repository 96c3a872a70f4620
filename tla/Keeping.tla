------------------------------ MODULE Keeping ------------------------------
(***************************************************************************)
(* Bringing a kept shipment up to date, in the steps that other requests   *)
(* can come between (services/history.py keep, PUT /shipments/{id}).  The  *)
(* handler compares the new contents with the row it loaded when the       *)
(* request arrived, and takes the inventory lock only when they differ.    *)
(* The writing handlers of Deliveries take that lock before they read, so  *)
(* they stay single steps.                                                 *)
(***************************************************************************)
EXTENDS Deliveries

CONSTANT Writers   \* the sessions that bring a shipment up to date

VARIABLE pending   \* pending[w]: the update w works on, NoUpdate when none

NoUpdate == [shipment |-> None, seen |-> None, contents |-> None]

\* The route loads the row (_record); nothing is locked.
load(w, s, r) ==
  /\ pending[w] = NoUpdate
  /\ shipments[s] # None
  /\ pending' = [pending EXCEPT ![w] = [shipment |-> s, seen |-> shipments[s], contents |-> r]]
  /\ UNCHANGED vars

\* The guard runs when the contents differ from the row as loaded; the update
\* itself is of whatever the row holds now, for as long as there is one.
write(w) ==
  LET u == pending[w]
  IN  /\ u # NoUpdate
      /\ shipments[u.shipment] # None
      /\ u.contents # u.seen => guard_source(u.shipment)
      /\ shipments' = [shipments EXCEPT ![u.shipment] = u.contents]
      /\ pending' = [pending EXCEPT ![w] = NoUpdate]
      /\ UNCHANGED deliveries

\* The request is refused, or its row is gone.
abandon(w) ==
  /\ pending[w] # NoUpdate
  /\ pending' = [pending EXCEPT ![w] = NoUpdate]
  /\ UNCHANGED vars

KeepingInit == Init /\ pending = [w \in Writers |-> NoUpdate]

KeepingNext ==
  \/ Next /\ UNCHANGED pending
  \/ \E w \in Writers :
       \/ \E s \in Shipments, r \in Revisions : load(w, s, r)
       \/ write(w)
       \/ abandon(w)

KeepingSpec == KeepingInit /\ [][KeepingNext]_<<vars, pending>>

-----------------------------------------------------------------------------
\* "Office edits and deletion cannot invalidate reserved operational goods"
\* (deliveries.py:820, guard_source): whatever the sessions' steps, reserved
\* goods keep the contents they were planned with.
ReservedStayValid == SourceIntact
=============================================================================
