--------------------------- MODULE DgReviewsProofs ---------------------------
(***************************************************************************)
(* Proofs about DgReviews, for any sessions, contents and bounds.          *)
(*                                                                         *)
(* KeptAsReleased is not inductive: a request is checked in one step and   *)
(* writes in another.  The invariant adds what the check leaves behind:    *)
(* what an approved review holds has been released, and so has what a      *)
(* request with a routing carries from the check to its write, even when   *)
(* the review has been forgotten in between.                               *)
(***************************************************************************)
EXTENDS DgReviews, TLAPS

\* A release is there, or none is asked.
cleared(c, given) == c \in Routed => c \in given

\* What is released, checked on its way to a row, or kept has been released.
Checked ==
  /\ \A r \in Reviews : reviews[r].status = "approved" => reviews[r].contents \in released
  /\ \A r \in Reviews : reviews[r].status = "pending" => reviews[r].contents \in Contents
  /\ \A s \in Sessions : doing[s].op = "enforced" => cleared(doing[s].contents, released)
  /\ KeptAsReleased

DgInv == DgReviewsTypeOK /\ Checked

-----------------------------------------------------------------------------
(* The requests by their operation *)

\* The shape of a request follows from its operation.
LEMMA Shape ==
  ASSUME DgReviewsTypeOK, NEW s \in Sessions
  PROVE  /\ doing[s].op \in {"arrived", "enforced", "updated"} => doing[s] \in Saving
         /\ doing[s].op = "insert" => doing[s] \in Inserting
         /\ doing[s].op = "decide" => doing[s] \in Deciding
  BY DEF DgReviewsTypeOK, Idle, Saving, Inserting, Deciding

\* A request that begins leaves the others alone.
LEMMA Begun ==
  ASSUME DgInv, NEW s \in Sessions, NEW request, start(s, request),
         request \in Saving \cup Inserting \cup Deciding, request.op # "enforced",
         UNCHANGED <<reviews, rows, released>>
  PROVE  DgInv'
  <1>1. DgReviewsTypeOK'
    BY DEF DgInv, DgReviewsTypeOK, start
  <1>2. \A t \in Sessions : doing'[t] = IF t = s THEN request ELSE doing[t]
    BY DEF DgInv, DgReviewsTypeOK, start
  <1>3. Checked'
    BY <1>2 DEF DgInv, Checked, KeptAsReleased, cleared
  <1>4. QED
    BY <1>1, <1>3 DEF DgInv

\* And so does one that ends.
LEMMA Ended ==
  ASSUME DgReviewsTypeOK, NEW s \in Sessions, finish(s)
  PROVE  /\ doing' \in [Sessions -> {Idle} \cup Saving \cup Inserting \cup Deciding]
         /\ \A t \in Sessions : doing'[t].op = "enforced" => doing'[t] = doing[t]
  BY DEF DgReviewsTypeOK, finish, Idle

LEMMA Dropped ==
  ASSUME DgInv, NEW s \in Sessions, drop(s)
  PROVE  DgInv'
  BY Ended DEF drop, DgInv, DgReviewsTypeOK, Checked, KeptAsReleased, cleared

-----------------------------------------------------------------------------
(* The steps *)

LEMMA Submitted ==
  ASSUME DgInv, NEW s \in Sessions, NEW c \in Contents, submit(s, c)
  PROVE  DgInv'
  BY Begun DEF submit, Inserting

LEMMA Inserted ==
  ASSUME DgInv, NEW s \in Sessions, NEW r \in Reviews, insert_review(s, r)
  PROVE  DgInv'
  <1> DEFINE review == [contents |-> doing[s].contents, status |-> "pending", row |-> 0]
  <1>1. review \in Review
    BY Shape DEF DgInv, insert_review, Review, Inserting
  <1>2. reviews' = [reviews EXCEPT ![r] = review] /\ finish(s) /\ UNCHANGED <<rows, released>>
    BY DEF insert_review
  <1>3. DgReviewsTypeOK'
    BY <1>1, <1>2, Ended DEF DgInv, DgReviewsTypeOK
  <1>4. \A q \in Reviews : /\ reviews'[q].status = "approved" => reviews'[q] = reviews[q]
                           /\ reviews'[q].status = "pending" => reviews'[q].contents \in Contents
    BY <1>2, Shape DEF insert_review, DgInv, DgReviewsTypeOK, Checked, Inserting
  <1>5. Checked'
    BY <1>2, <1>4, Ended DEF DgInv, Checked, KeptAsReleased, cleared
  <1>6. QED
    BY <1>3, <1>5 DEF DgInv

LEMMA ReviewRead ==
  ASSUME DgInv, NEW s \in Sessions, NEW r \in Reviews, NEW status \in Decisions,
         read_review(s, r, status)
  PROVE  DgInv'
  BY Begun DEF read_review, Deciding

LEMMA Decided ==
  ASSUME DgInv, NEW s \in Sessions, decide_review(s)
  PROVE  DgInv'
  <1> DEFINE d == doing[s]
  <1>1. d.review \in Reviews /\ d.status \in Decisions
    BY Shape DEF DgInv, decide_review, Deciding
  <1>2. CASE drop(s)
    BY <1>2, Dropped
  <1>3. CASE /\ undecided(d.review)
             /\ reviews' = [reviews EXCEPT ![d.review].status = d.status]
             /\ released' = IF d.status = "approved"
                            THEN released \cup {reviews[d.review].contents} ELSE released
             /\ finish(s) /\ UNCHANGED rows
    <2>1. reviews[d.review] \in Review /\ reviews[d.review].status = "pending"
      BY <1>1, <1>3 DEF DgInv, DgReviewsTypeOK, undecided
    <2>2. reviews' \in [Reviews -> Review]
      BY <1>1, <1>3 DEF DgInv, DgReviewsTypeOK, Review
    <2>3. DgReviewsTypeOK'
      <3>1. released' \subseteq Contents
        BY <1>1, <1>3, <2>1 DEF DgInv, DgReviewsTypeOK, Checked
      <3>2. QED
        BY <1>3, <2>2, <3>1, Ended DEF DgInv, DgReviewsTypeOK
    <2>4. ASSUME NEW r \in Reviews
          PROVE  /\ reviews'[r].status = "approved" => reviews'[r].contents \in released'
                 /\ reviews'[r].status = "pending" => reviews'[r].contents \in Contents
      BY <1>1, <1>3, <2>1 DEF DgInv, DgReviewsTypeOK, Checked, Review
    <2>5. Checked'
      BY <1>3, <2>4, Ended DEF DgInv, Checked, KeptAsReleased, cleared
    <2>6. QED
      BY <2>3, <2>5 DEF DgInv
  <1>4. QED
    BY <1>2, <1>3 DEF decide_review

LEMMA ReviewForgotten ==
  ASSUME DgInv, NEW r \in Reviews, forget_review(r)
  PROVE  DgInv'
  BY DEF forget_review, DgInv, DgReviewsTypeOK, Review, Checked, KeptAsReleased, cleared

LEMMA Arrived ==
  ASSUME DgInv, NEW s \in Sessions, NEW row \in Rows \cup {0}, NEW c \in Contents,
         NEW r \in Reviews \cup {0}, arrive(s, row, c, r)
  PROVE  DgInv'
  <1> DEFINE request ==
        [op |-> "arrived", contents |-> c, review |-> r, row |-> row, pointer |-> 0,
         seen |-> IF row = 0 THEN 0 ELSE rows[row].review]
  <1>1. row # 0 => rows[row] \in Row
    BY DEF arrive, DgInv, DgReviewsTypeOK
  <1>2. request \in Saving
    BY <1>1 DEF Saving, Row
  <1>3. QED
    BY <1>2, Begun DEF arrive

LEMMA Enforced ==
  ASSUME DgInv, NEW s \in Sessions, enforce_shipment(s)
  PROVE  DgInv'
  <1> DEFINE d == doing[s]
  <1>1. d \in Saving
    BY Shape DEF DgInv, enforce_shipment
  <1>2. CASE drop(s)
    BY <1>2, Dropped
  <1>3. CASE /\ ~(d.contents \in Routed /\ ~approved(d.review, d.contents))
             /\ doing' = [doing EXCEPT ![s].op = "enforced", ![s].pointer = pointer_of(d.review)]
             /\ UNCHANGED <<reviews, rows, released>>
    <2>1. cleared(d.contents, released)
      BY <1>1, <1>3 DEF approved, DgInv, Checked, Saving, cleared
    <2>2. pointer_of(d.review) \in Rows \cup {0}
      BY <1>1 DEF pointer_of, DgInv, DgReviewsTypeOK, Review, Saving
    <2>3. doing'[s] \in Saving /\ doing'[s].contents = d.contents
      BY <1>1, <1>3, <2>2 DEF DgInv, DgReviewsTypeOK, Saving
    <2>4. \A t \in Sessions \ {s} : doing'[t] = doing[t]
      BY <1>3 DEF DgInv, DgReviewsTypeOK
    <2>5. DgReviewsTypeOK'
      BY <1>3, <2>3, <2>4 DEF DgInv, DgReviewsTypeOK
    <2>6. \A t \in Sessions : doing'[t].op = "enforced" => cleared(doing'[t].contents, released)
      BY <2>1, <2>3, <2>4 DEF DgInv, Checked
    <2>7. Checked'
      BY <1>3, <2>6 DEF DgInv, Checked, KeptAsReleased, cleared
    <2>8. QED
      BY <2>5, <2>7 DEF DgInv
  <1>4. QED
    BY <1>2, <1>3 DEF enforce_shipment

\* Pointing a review at a row changes nothing else of it.
LEMMA Pointed ==
  ASSUME DgReviewsTypeOK, NEW r \in Reviews \cup {0}, NEW row \in Rows \cup {0},
         reviews' = point_at(r, row)
  PROVE  /\ reviews' \in [Reviews -> Review]
         /\ \A q \in Reviews : /\ reviews'[q].contents = reviews[q].contents
                              /\ reviews'[q].status = reviews[q].status
  <1>1. CASE r # 0 /\ kept(r)
    <2>1. r \in Reviews /\ reviews' = [reviews EXCEPT ![r].row = row]
      BY <1>1 DEF point_at
    <2>2. QED
      BY <2>1 DEF DgReviewsTypeOK, Review
  <1>2. CASE ~(r # 0 /\ kept(r))
    BY <1>2 DEF point_at, DgReviewsTypeOK
  <1>3. QED
    BY <1>1, <1>2

\* The row that keep_shipment writes.
target(s) == IF existing(s) # 0 THEN existing(s) ELSE next_id

LEMMA KeptRow ==
  ASSUME DgInv, NEW s \in Sessions, keep_shipment(s), ~drop(s)
  PROVE  /\ doing[s] \in Saving /\ doing[s].op = "enforced" /\ target(s) \in Rows
         /\ rows' = [rows EXCEPT ![target(s)] =
                       [contents |-> doing[s].contents, review |-> doing[s].review]]
         /\ reviews' = point_at(doing[s].review, target(s))
         /\ finish(s) /\ UNCHANGED released
  <1>1. doing[s] \in Saving
    BY Shape DEF DgInv, keep_shipment
  <1>2. QED
    BY <1>1 DEF keep_shipment, target

\* A shipment that is kept is what its request was checked with.
LEMMA Kept ==
  ASSUME DgInv, NEW s \in Sessions, keep_shipment(s)
  PROVE  DgInv'
  <1> DEFINE d == doing[s]
             new == [contents |-> d.contents, review |-> d.review]
  <1>1. CASE drop(s)
    BY <1>1, Dropped
  <1>2. CASE ~drop(s)
    <2>1. /\ d \in Saving /\ d.op = "enforced" /\ target(s) \in Rows
          /\ rows' = [rows EXCEPT ![target(s)] = new]
          /\ reviews' = point_at(d.review, target(s))
          /\ finish(s) /\ UNCHANGED released
      BY <1>2, KeptRow
    <2>2. new \in Row /\ cleared(new.contents, released)
      BY <2>1 DEF Row, Saving, DgInv, Checked
    <2>3. rows' \in [Rows -> Row \cup {Missing}]
      BY <2>1, <2>2 DEF DgInv, DgReviewsTypeOK
    <2>4. d.review \in Reviews \cup {0}
      BY <2>1 DEF Saving
    <2>5. /\ reviews' \in [Reviews -> Review]
          /\ \A r \in Reviews : /\ reviews'[r].contents = reviews[r].contents
                               /\ reviews'[r].status = reviews[r].status
      BY <2>1, <2>4, Pointed DEF DgInv
    <2>6. DgReviewsTypeOK'
      BY <2>1, <2>3, <2>5, Ended DEF DgInv, DgReviewsTypeOK
    <2>7. KeptAsReleased'
      BY <2>1, <2>2 DEF DgInv, DgReviewsTypeOK, Checked, KeptAsReleased, cleared
    <2>8. Checked'
      BY <2>1, <2>5, <2>7, Ended DEF DgInv, Checked
    <2>9. QED
      BY <2>6, <2>8 DEF DgInv
  <1>3. QED
    BY <1>1, <1>2

LEMMA Updated ==
  ASSUME DgInv, NEW s \in Sessions, update_shipment(s)
  PROVE  DgInv'
  <1> DEFINE d == doing[s]
             new == [rows[d.row] EXCEPT !.contents = d.contents,
                       !.review = IF d.review # d.seen THEN d.review ELSE rows[d.row].review]
  <1>1. d \in Saving /\ d.row \in Rows /\ cleared(d.contents, released)
    BY Shape DEF DgInv, Checked, update_shipment, Saving
  <1>2. CASE drop(s)
    BY <1>2, Dropped
  <1>3. CASE /\ rows[d.row] # Missing
             /\ rows' = [rows EXCEPT ![d.row] = new]
             /\ doing' = [doing EXCEPT ![s].op = "updated"]
             /\ UNCHANGED <<reviews, released>>
    <2>1. rows[d.row] \in Row
      BY <1>1, <1>3 DEF DgInv, DgReviewsTypeOK
    <2>2. new \in Row /\ new.contents = d.contents
      BY <1>1, <2>1 DEF Row, Saving
    <2>3. rows' \in [Rows -> Row \cup {Missing}]
      BY <1>3, <2>2 DEF DgInv, DgReviewsTypeOK
    <2>4. /\ doing'[s] \in Saving /\ doing'[s].op = "updated"
          /\ \A t \in Sessions \ {s} : doing'[t] = doing[t]
      BY <1>1, <1>3 DEF DgInv, DgReviewsTypeOK, Saving
    <2>5. DgReviewsTypeOK'
      BY <1>3, <2>3, <2>4 DEF DgInv, DgReviewsTypeOK
    <2>6. KeptAsReleased'
      BY <1>1, <1>3, <2>2 DEF DgInv, DgReviewsTypeOK, Checked, KeptAsReleased, cleared
    <2>7. Checked'
      BY <1>3, <2>4, <2>6 DEF DgInv, Checked
    <2>8. QED
      BY <2>5, <2>7 DEF DgInv
  <1>4. QED
    BY <1>2, <1>3 DEF update_shipment

LEMMA Published ==
  ASSUME DgInv, NEW s \in Sessions, publish(s)
  PROVE  DgInv'
  <1> DEFINE d == doing[s]
  <1>1. d \in Saving
    BY Shape DEF DgInv, publish
  <1>2. d.review \in Reviews \cup {0} /\ d.row \in Rows \cup {0}
    BY <1>1 DEF Saving
  <1>3. /\ reviews' \in [Reviews -> Review]
        /\ \A r \in Reviews : /\ reviews'[r].contents = reviews[r].contents
                             /\ reviews'[r].status = reviews[r].status
    BY <1>2, Pointed DEF publish, DgInv
  <1>4. DgReviewsTypeOK'
    BY <1>3, Ended DEF publish, DgInv, DgReviewsTypeOK
  <1>5. Checked'
    BY <1>3, Ended DEF publish, DgInv, Checked, KeptAsReleased, cleared
  <1>6. QED
    BY <1>4, <1>5 DEF DgInv

LEMMA ShipmentForgotten ==
  ASSUME DgInv, NEW row \in Rows, forget_shipment(row)
  PROVE  DgInv'
  BY DEF forget_shipment, DgInv, DgReviewsTypeOK, Checked, KeptAsReleased, cleared

-----------------------------------------------------------------------------
\* The inductive invariant.
THEOREM DgInvariance == DgReviewsSpec => []DgInv
  <1>1. DgReviewsInit => DgInv
    BY DgReviewsAssumption
    DEF DgReviewsInit, DgInv, DgReviewsTypeOK, Checked, KeptAsReleased, cleared, Review, Idle
  <1>2. DgInv /\ [DgReviewsNext]_dgVars => DgInv'
    <2> SUFFICES ASSUME DgInv, [DgReviewsNext]_dgVars
                 PROVE  DgInv'
      OBVIOUS
    <2>1. CASE UNCHANGED dgVars
      BY <2>1 DEF dgVars, DgInv, DgReviewsTypeOK, Checked, KeptAsReleased, cleared
    <2>2. CASE DgReviewsNext
      BY <2>2, Submitted, Inserted, ReviewRead, Decided, Arrived, Enforced, Kept, Updated,
         Published, ReviewForgotten, ShipmentForgotten DEF DgReviewsNext
    <2>3. QED
      BY <2>1, <2>2
  <1>3. QED
    BY <1>1, <1>2, PTL DEF DgReviewsSpec

\* Whatever sessions submit, decide, forget and keep at the same time, every
\* kept shipment with dangerous goods and a routing holds contents that a
\* specialist released (enforce_shipment, keep and the routes around them).
THEOREM OnlyReleasedIsKept == DgReviewsSpec => []KeptAsReleased
  <1>1. DgInv => KeptAsReleased
    BY DEF DgInv, Checked
  <1>2. QED
    BY <1>1, DgInvariance, PTL

\* A decision is never overturned (the conditional update of decide_review).
THEOREM DecisionsStand == DgReviewsSpec => DecisionFinal
  <1> DEFINE Stands(r) ==
        reviews[r].status \in Decisions => reviews'[r].status \in {reviews[r].status, "forgotten"}
  <1>1. ASSUME DgInv, [DgReviewsNext]_dgVars, NEW r \in Reviews
        PROVE  Stands(r)
    <2>1. ASSUME UNCHANGED reviews PROVE Stands(r)
      BY <2>1
    <2>2. ASSUME NEW s \in Sessions, NEW q \in Reviews, insert_review(s, q) PROVE Stands(r)
      BY <2>2 DEF insert_review, DgInv, DgReviewsTypeOK, Decisions
    <2>3. ASSUME NEW s \in Sessions, decide_review(s) PROVE Stands(r)
      <3>1. CASE drop(s)
        BY <3>1 DEF drop
      <3>2. CASE ~drop(s)
        <4>1. /\ reviews[doing[s].review].status = "pending"
              /\ reviews' = [reviews EXCEPT ![doing[s].review].status = doing[s].status]
          BY <2>3, <3>2 DEF decide_review, undecided
        <4>2. r # doing[s].review => reviews'[r] = reviews[r]
          BY <1>1, <4>1 DEF DgInv, DgReviewsTypeOK
        <4>3. QED
          BY <4>1, <4>2 DEF Decisions
      <3>3. QED
        BY <3>1, <3>2
    <2>4. ASSUME NEW s \in Sessions, keep_shipment(s) PROVE Stands(r)
      <3>1. CASE drop(s)
        BY <3>1 DEF drop
      <3>2. CASE ~drop(s)
        <4>1. /\ doing[s].review \in Reviews \cup {0} /\ target(s) \in Rows
              /\ reviews' = point_at(doing[s].review, target(s))
          BY <1>1, <2>4, <3>2, KeptRow DEF Saving
        <4>2. reviews'[r].status = reviews[r].status
          BY <1>1, <4>1, Pointed DEF DgInv
        <4>3. QED
          BY <4>2
      <3>3. QED
        BY <3>1, <3>2
    <2>5. ASSUME NEW s \in Sessions, publish(s) PROVE Stands(r)
      <3>1. doing[s] \in Saving /\ reviews' = point_at(doing[s].review, doing[s].row)
        BY <1>1, <2>5, Shape DEF publish, DgInv
      <3>2. doing[s].review \in Reviews \cup {0} /\ doing[s].row \in Rows \cup {0}
        BY <3>1 DEF Saving
      <3>3. reviews'[r].status = reviews[r].status
        BY <1>1, <3>1, <3>2, Pointed DEF DgInv
      <3>4. QED
        BY <3>3
    <2>6. ASSUME NEW q \in Reviews, forget_review(q) PROVE Stands(r)
      BY <2>6 DEF forget_review, DgInv, DgReviewsTypeOK, Review
    <2>7. QED
      BY <1>1, <2>1, <2>2, <2>3, <2>4, <2>5, <2>6
      DEF DgReviewsNext, dgVars, submit, read_review, arrive, enforce_shipment, drop,
          update_shipment, forget_shipment
  <1>2. DgInv /\ [DgReviewsNext]_dgVars
        => [\A r \in Reviews : Stands(r)]_dgVars
    BY <1>1
  <1>3. QED
    BY <1>2, DgInvariance, PTL DEF DgReviewsSpec, DecisionFinal

\* A review gets a second row only when the one it points at is gone
\* (keep_shipment reads the pointer again under the lock of the review).
THEOREM OneRowForEach == DgReviewsSpec => KeptOnce
  <1> DEFINE Once(i) ==
        rows[i] = Missing /\ rows'[i] # Missing
        => LET p == pointer_of(rows'[i].review) IN p = 0 \/ rows[p] = Missing
  <1>1. ASSUME DgInv, [DgReviewsNext]_dgVars, NEW i \in Rows
        PROVE  Once(i)
    <2>1. ASSUME UNCHANGED rows PROVE Once(i)
      BY <2>1
    <2>2. ASSUME NEW s \in Sessions, keep_shipment(s) PROVE Once(i)
      <3>1. CASE drop(s)
        BY <3>1 DEF drop
      <3>2. CASE ~drop(s) /\ i # target(s)
        BY <1>1, <2>2, <3>2, KeptRow DEF DgInv, DgReviewsTypeOK
      <3>3. CASE ~drop(s) /\ i = target(s)
        <4>1. rows'[i].review = doing[s].review
          BY <1>1, <2>2, <3>3, KeptRow DEF DgInv, DgReviewsTypeOK
        <4>2. rows[i] = Missing => existing(s) = 0
          BY <3>3 DEF existing, target
        <4>3. existing(s) = 0 => pointer(s) = 0 \/ rows[pointer(s)] = Missing
          BY DEF existing
        <4>4. QED
          BY <4>1, <4>2, <4>3 DEF pointer
      <3>4. QED
        BY <3>1, <3>2, <3>3
    <2>3. ASSUME NEW s \in Sessions, update_shipment(s) PROVE Once(i)
      <3>1. CASE drop(s)
        BY <3>1 DEF drop
      <3>2. CASE ~drop(s)
        <4>1. /\ rows[doing[s].row] # Missing
              /\ \A j \in Rows : j # doing[s].row => rows'[j] = rows[j]
          BY <1>1, <2>3, <3>2 DEF update_shipment, DgInv, DgReviewsTypeOK
        <4>2. QED
          BY <4>1
      <3>3. QED
        BY <3>1, <3>2
    <2>4. ASSUME NEW row \in Rows, forget_shipment(row) PROVE Once(i)
      BY <2>4 DEF forget_shipment, DgInv, DgReviewsTypeOK
    <2>5. QED
      BY <1>1, <2>1, <2>2, <2>3, <2>4
      DEF DgReviewsNext, dgVars, submit, insert_review, read_review, decide_review, arrive,
          enforce_shipment, drop, publish, forget_review
  <1>2. DgInv /\ [DgReviewsNext]_dgVars => [\A i \in Rows : Once(i)]_dgVars
    BY <1>1
  <1>3. QED
    BY <1>2, DgInvariance, PTL DEF DgReviewsSpec, KeptOnce
=============================================================================
