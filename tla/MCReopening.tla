---------------------------- MODULE MCReopening ----------------------------
(***************************************************************************)
(* Kept shipments with a memory of what they were created with.            *)
(***************************************************************************)
EXTENDS DgReviews

VARIABLE created  \* until the shipment is brought up to date, or is gone

ReopeningInit == DgReviewsInit /\ created = [i \in Rows |-> Missing]

\* PUT is what brings a shipment up to date.
updates(i) == \E s \in Sessions : update_shipment(s) /\ doing[s].row = i

ReopeningNext ==
  /\ DgReviewsNext
  /\ created' = [i \in Rows |->
       IF rows'[i] = Missing \/ updates(i) THEN Missing
       ELSE IF rows[i] = Missing THEN rows'[i].contents ELSE created[i]]

ReopeningSpec == ReopeningInit /\ [][ReopeningNext]_<<dgVars, created>>

\* "Reopening and downloading the same released review reuses its kept
\* shipment" (docs/dg-review.md:52-53), not another one: a shipment that nobody
\* brings up to date keeps the contents it was created with.
ReusesItsOwn ==
  \A i \in Rows : rows[i] # Missing => created[i] \in {rows[i].contents, Missing}
=============================================================================
