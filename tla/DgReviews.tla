----------------------------- MODULE DgReviews -----------------------------
(***************************************************************************)
(* Dangerous goods submitted for release, decided by a specialist and kept *)
(* in the shipment history (services/dg_review.py, the routes dg_reviews   *)
(* and history, services/history.py keep).  The requests run in threads of *)
(* their own.  What a request reads before it writes is a step of its own; *)
(* from its first write to its commit it holds the write lock of the       *)
(* database, which makes that one step.                                    *)
(*                                                                         *)
(* All requests are of one submitter and about dangerous goods, with the   *)
(* release policy on.  A shipment with a routing is kept only when it is   *)
(* released; one without is kept as it is (enforce_shipment).  Drafts,     *)
(* which need no release, and shipments with a cargo plan, which have an   *)
(* identity of their own, are left out.                                    *)
(***************************************************************************)
EXTENDS Integers, FiniteSets, FiniteSetsExt

CONSTANTS
  Sessions,    \* requests that are served at the same time
  Contents,    \* the document inputs; a fingerprint tells them apart
  Routed,      \* those with a routing, which is part of the inputs
  Missing,
  MaxReviews,  \* bound: submissions
  MaxRows      \* bound: shipments kept at a time

ASSUME DgReviewsAssumption ==
  /\ Missing \notin Contents /\ Routed \subseteq Contents
  /\ MaxReviews \in Nat /\ MaxRows \in Nat

Reviews == 1..MaxReviews
Rows == 1..MaxRows

VARIABLES
  reviews,  \* dg_reviews, in the order of submission
  rows,     \* shipments: their contents and the review they were kept with
  doing,    \* the request each session is in
  released  \* the contents that a specialist has ever released

dgVars == <<reviews, rows, doing, released>>

Idle == [op |-> "idle"]

Decisions == {"approved", "changes_requested"}
Review == [contents : Contents \cup {Missing}, row : Rows \cup {0},
           status : {"new", "pending", "forgotten"} \cup Decisions]
Row == [contents : Contents, review : Reviews \cup {0}]
Saving == [op : {"arrived", "enforced", "updated"}, contents : Contents,
           review : Reviews \cup {0}, row : Rows \cup {0}, seen : Reviews \cup {0}, pointer : Rows \cup {0}]

Inserting == [op : {"insert"}, contents : Contents]
Deciding == [op : {"decide"}, review : Reviews, status : Decisions]

DgReviewsTypeOK ==
  /\ reviews \in [Reviews -> Review]
  /\ rows \in [Rows -> Row \cup {Missing}]
  /\ released \subseteq Contents
  /\ doing \in [Sessions -> {Idle} \cup Saving \cup Inserting \cup Deciding]

-----------------------------------------------------------------------------
(* Submission and decision *)

start(s, request) == doing[s] = Idle /\ doing' = [doing EXCEPT ![s] = request]
finish(s) == doing' = [doing EXCEPT ![s] = Idle]
drop(s) == finish(s) /\ UNCHANGED <<reviews, rows, released>>

\* The reviews in the table.
kept(r) == reviews[r].status \notin {"new", "forgotten"}

\* submit answers with a review that waits or was released, if there is one.
existing_review(c) ==
  {r \in Reviews : reviews[r].contents = c /\ reviews[r].status \in {"pending", "approved"}}

submit(s, c) ==
  /\ existing_review(c) = {}
  /\ start(s, [op |-> "insert", contents |-> c])
  /\ UNCHANGED <<reviews, rows, released>>

\* A review id is never given out again.
insert_review(s, r) ==
  /\ doing[s].op = "insert" /\ reviews[r].status = "new"
  /\ r = Min({n \in Reviews : reviews[n].status = "new"})
  /\ reviews' = [reviews EXCEPT ![r] =
       [contents |-> doing[s].contents, status |-> "pending", row |-> 0]]
  /\ finish(s) /\ UNCHANGED <<rows, released>>

read_review(s, r, status) ==
  /\ kept(r)
  /\ start(s, [op |-> "decide", review |-> r, status |-> status])
  /\ UNCHANGED <<reviews, rows, released>>

\* Mutant: the last of two decisions counts.
undecided_any(r) == kept(r)

\* The conditional update.
undecided(r) == reviews[r].status = "pending"

decide_review(s) ==
  LET d == doing[s]
  IN  /\ d.op = "decide"
      /\ \/ ~undecided(d.review) /\ drop(s)
         \/ /\ undecided(d.review)
            /\ reviews' = [reviews EXCEPT ![d.review].status = d.status]
            /\ released' = IF d.status = "approved"
                           THEN released \cup {reviews[d.review].contents} ELSE released
            /\ finish(s) /\ UNCHANGED rows

forget_review(r) ==
  /\ kept(r)
  /\ reviews' = [reviews EXCEPT ![r] = [contents |-> Missing, row |-> 0, status |-> "forgotten"]]
  /\ UNCHANGED <<rows, doing, released>>

-----------------------------------------------------------------------------
(* Keeping: POST /shipments, and PUT /shipments/{id} for a row that it loads. *)

\* A page sends no review, or one that may have been forgotten.
arrive(s, row, c, r) ==
  /\ r # 0 => reviews[r].status # "new"
  /\ row # 0 => rows[row] # Missing
  /\ start(s, [op |-> "arrived", contents |-> c, review |-> r, row |-> row, pointer |-> 0,
               seen |-> IF row = 0 THEN 0 ELSE rows[row].review])
  /\ UNCHANGED <<reviews, rows, released>>

\* Mutant: a release of whatever contents will do.
approved_any(r, c) == r # 0 /\ reviews[r].status = "approved"

\* approved, and enforce_shipment's comparison of the fingerprints.
approved(r, c) ==
  r # 0 /\ reviews[r].status = "approved" /\ reviews[r].contents = c

\* The shipment a review points at.
pointer_of(r) == IF r = 0 THEN 0 ELSE reviews[r].row

\* Only a shipment with a routing has to be released.
enforce_shipment(s) ==
  LET d == doing[s]
      refused == d.contents \in Routed /\ ~approved(d.review, d.contents)
  IN  /\ d.op = "arrived"
      /\ \/ refused /\ drop(s)
         \/ /\ ~refused
            /\ doing' = [doing EXCEPT ![s].op = "enforced", ![s].pointer = pointer_of(d.review)]
            /\ UNCHANGED <<reviews, rows, released>>

\* Mutant: the pointer as it was before the review was locked.
pointer_loaded(s) == doing[s].pointer

\* The pointer is read again once the review is locked.
pointer(s) == pointer_of(doing[s].review)

existing(s) == IF pointer(s) # 0 /\ rows[pointer(s)] # Missing THEN pointer(s) ELSE 0

\* SQLite gives a new row the id after the largest in use.
next_id == 1 + Max({0} \cup {i \in Rows : rows[i] # Missing})

point_at(r, row) ==
  IF r # 0 /\ kept(r) THEN [reviews EXCEPT ![r].row = row] ELSE reviews

\* A review that goes between the check and the lock ends the request when
\* the route has found it, and is as good as none when it has not.
keep_shipment(s) ==
  LET d == doing[s]
      row == IF existing(s) # 0 THEN existing(s) ELSE next_id
  IN  /\ d.op = "enforced" /\ d.row = 0
      /\ \/ d.review # 0 /\ ~kept(d.review) /\ drop(s)
         \/ /\ row \in Rows
            /\ rows' = [rows EXCEPT ![row] =
                 [contents |-> d.contents, review |-> d.review]]
            /\ reviews' = point_at(d.review, row)
            /\ finish(s) /\ UNCHANGED released

\* PUT writes the documents whole, and of the columns beside them those that
\* differ from the row it loaded.
update_shipment(s) ==
  LET d == doing[s]
  IN  /\ d.op = "enforced" /\ d.row # 0
      /\ \/ rows[d.row] = Missing /\ drop(s)
         \/ /\ rows[d.row] # Missing
            /\ rows' = [rows EXCEPT ![d.row] =
                 [@ EXCEPT !.contents = d.contents,
                           !.review = IF d.review # d.seen THEN d.review
                                       ELSE rows[d.row].review]]
            /\ doing' = [doing EXCEPT ![s].op = "updated"]
            /\ UNCHANGED <<reviews, released>>

\* Its second commit: the review points at the row.
publish(s) ==
  LET d == doing[s]
  IN  /\ d.op = "updated"
      /\ reviews' = point_at(d.review, d.row)
      /\ finish(s) /\ UNCHANGED <<rows, released>>

forget_shipment(row) ==
  /\ rows[row] # Missing
  /\ rows' = [rows EXCEPT ![row] = Missing]
  /\ UNCHANGED <<reviews, doing, released>>

DgReviewsInit ==
  /\ reviews = [r \in Reviews |-> [contents |-> Missing, row |-> 0, status |-> "new"]]
  /\ rows = [i \in Rows |-> Missing]
  /\ doing = [s \in Sessions |-> Idle] /\ released = {}

DgReviewsNext ==
  \/ \E s \in Sessions :
       \/ \E c \in Contents : submit(s, c)
       \/ \E r \in Reviews : insert_review(s, r)
       \/ \E r \in Reviews, status \in Decisions : read_review(s, r, status)
       \/ decide_review(s)
       \/ \E row \in Rows \cup {0}, c \in Contents, r \in Reviews \cup {0} : arrive(s, row, c, r)
       \/ enforce_shipment(s)
       \/ keep_shipment(s)
       \/ update_shipment(s)
       \/ publish(s)
  \/ \E r \in Reviews : forget_review(r)
  \/ \E row \in Rows : forget_shipment(row)

DgReviewsSpec == DgReviewsInit /\ [][DgReviewsNext]_dgVars

-----------------------------------------------------------------------------
\* "Release applies to the exact submitted shipment" (docs/dg-review.md:41),
\* as far as the server asks for a release (dg_review.py:120-127): whatever is
\* decided, forgotten and saved in between, everything kept with a routing has
\* been released by a specialist.  Of what is kept without one it says nothing.
KeptAsReleased ==
  \A i \in Rows : rows[i] # Missing /\ rows[i].contents \in Routed
                 => rows[i].contents \in released

\* A decision stands until its review is forgotten, whatever the other tabs of
\* the specialists hold.
DecisionFinal ==
  [][\A r \in Reviews :
       reviews[r].status \in Decisions => reviews'[r].status \in {reviews[r].status, "forgotten"}]_dgVars

\* "Downloading two documents can finish at once [...] both requests reuse one
\* record instead of double-counting it" (api/routes/history.py:258): a row is
\* added for a review only when the row it points at is gone.
KeptOnce ==
  [][\A i \in Rows :
       rows[i] = Missing /\ rows'[i] # Missing
       => LET p == pointer_of(rows'[i].review) IN p = 0 \/ rows[p] = Missing]_dgVars
=============================================================================
