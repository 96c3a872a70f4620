----------------------------- MODULE MCRequests -----------------------------
(***************************************************************************)
(* Requests of the office: the statements about a leg, the releases and    *)
(* the shipments kept under them, or an interview about a shipment that is *)
(* not kept yet.  The three share no row, and a wait for the other's       *)
(* commit is a step not taken, or a request that the database refuses,     *)
(* which the first two have.  Pages and notes, and sessions and contents   *)
(* with a routing, are interchangeable.                                    *)
(***************************************************************************)
EXTENDS DeliveryRequests, DgReviews, MCInterview

VARIABLE scene

OfficeInit ==
  /\ scene \in {"statements", "releases", "interview"}
  /\ RequestsInit /\ DgReviewsInit /\ InterviewInit

OfficeNext ==
  /\ UNCHANGED scene
  /\ \/ scene = "statements" /\ RequestsNext /\ UNCHANGED <<dgVars, interviewVars>>
     \/ scene = "releases" /\ DgReviewsNext /\ UNCHANGED <<requestsVars, interviewVars>>
     \/ scene = "interview" /\ InterviewNext /\ UNCHANGED <<requestsVars, dgVars>>

OfficeSpec == OfficeInit /\ [][OfficeNext]_<<scene, requestsVars, dgVars, interviewVars>>

\* The configuration gives Sessions the values of Pages, and Routed those of
\* Notes: they never meet, and one permutation serves both.  It moves no value
\* into Routed or out of it.
Alike == Permutations(Pages) \cup Permutations(Notes)

\* Bound: the requests of all pages that are on their way at a time.
FewUnderWay == Cardinality(flying) <= 2

\* What is under way, under review or kept.
in_use == {reviews[r].contents : r \in {q \in Reviews : kept(q)}}
          \cup {rows[i].contents : i \in {j \in Rows : rows[j] # Missing}}
          \cup {doing[s].contents : s \in {t \in Sessions : doing[t].op \notin {"idle", "decide"}}}

\* Bound: beside contents without a routing there are one other contents and
\* one review.
FewReviews ==
  \/ in_use \subseteq Routed
  \/ Cardinality(in_use) <= 2 /\ \A r \in Reviews \ {1} : reviews[r].status = "new"
=============================================================================
