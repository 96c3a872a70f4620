-------------------------- MODULE DeliveriesProofs --------------------------
(***************************************************************************)
(* Theorems of Deliveries for every value of its constants.                *)
(***************************************************************************)
EXTENDS Deliveries, FiniteSetTheorems, SequenceTheorems, TLAPS

\* The records of all deliveries have their type.
Typed(recs) ==
  recs \in [Deliveries -> Range(recs)] /\ \A d \in Deliveries : IsValue(recs[d])

\* A follow-up continues a disposition on a leg that has been executed.
LinkOK(recs, x) ==
  LET link == recs[x].parent
  IN  link.kind # "none" =>
        /\ link.delivery \in Deliveries
        /\ link.event \in DOMAIN recs[link.delivery].events
        /\ part_of(recs, x) \in DOMAIN recs[link.delivery].legs
        /\ recs[link.delivery].legs[part_of(recs, x)].status \in Executed

Linked(recs) == \A x \in Deliveries : LinkOK(recs, x)

\* w is v with other statuses and evidence: it holds the same goods.
SameHold(w, v) ==
  /\ w.allocs = v.allocs /\ w.sources = v.sources /\ w.parent = v.parent
  /\ DOMAIN w.legs = DOMAIN v.legs
  /\ \A l \in DOMAIN v.legs : w.legs[l].status \in RESERVED <=> v.legs[l].status \in RESERVED

\* What was executed or recorded in v still is in w.
Continues(w, v) ==
  /\ w.parent = v.parent
  /\ \A n \in DOMAIN v.events : n \in DOMAIN w.events /\ w.events[n].leg = v.events[n].leg
  /\ \A l \in DOMAIN v.legs :
       v.legs[l].status \in Executed => l \in DOMAIN w.legs /\ w.legs[l].status \in Executed

-----------------------------------------------------------------------------
(* The type of a value under the updates that the handlers make *)

\* A value whose legs are replaced by at least as many stays a value.
LEMMA WithLegs ==
  ASSUME NEW v, IsValue(v), NEW legs, AreLegs(legs), DOMAIN v.legs \subseteq DOMAIN legs
  PROVE  /\ IsValue([v EXCEPT !.legs = legs])
         /\ [v EXCEPT !.legs = legs].legs = legs
         /\ [v EXCEPT !.legs = legs].allocs = v.allocs
         /\ [v EXCEPT !.legs = legs].sources = v.sources
         /\ [v EXCEPT !.legs = legs].events = v.events
         /\ [v EXCEPT !.legs = legs].parent = v.parent
         /\ [v EXCEPT !.legs = legs].unpacked = v.unpacked
<1> DEFINE w == [v EXCEPT !.legs = legs]
<1>1. /\ w \in [legs : {legs}, allocs : {v.allocs}, sources : {v.sources},
                events : {v.events}, parent : Parent, unpacked : BOOLEAN]
      /\ w.legs = legs /\ w.allocs = v.allocs /\ w.sources = v.sources
      /\ w.events = v.events /\ w.parent = v.parent /\ w.unpacked = v.unpacked
  BY DEF IsValue
<1> HIDE DEF w
<1>2. AreAllocations(w.allocs, DOMAIN w.legs)
  BY <1>1 DEF IsValue, AreAllocations
<1>3. IsValue(w)
  BY <1>1, <1>2 DEF IsValue
<1> QED
  BY <1>1, <1>3 DEF w

\* A value whose events are replaced stays a value.
LEMMA WithEvents ==
  ASSUME NEW v, IsValue(v), NEW events, AreEvents(events)
  PROVE  /\ IsValue([v EXCEPT !.events = events])
         /\ [v EXCEPT !.events = events].legs = v.legs
         /\ [v EXCEPT !.events = events].allocs = v.allocs
         /\ [v EXCEPT !.events = events].sources = v.sources
         /\ [v EXCEPT !.events = events].events = events
         /\ [v EXCEPT !.events = events].parent = v.parent
         /\ [v EXCEPT !.events = events].unpacked = v.unpacked
<1> DEFINE w == [v EXCEPT !.events = events]
<1>1. /\ w \in [legs : {v.legs}, allocs : {v.allocs}, sources : {v.sources},
                events : {events}, parent : Parent, unpacked : BOOLEAN]
      /\ w.legs = v.legs /\ w.allocs = v.allocs /\ w.sources = v.sources
      /\ w.events = events /\ w.parent = v.parent /\ w.unpacked = v.unpacked
  BY DEF IsValue
<1> HIDE DEF w
<1>2. IsValue(w)
  BY <1>1 DEF IsValue
<1> QED
  BY <1>1, <1>2 DEF w

\* Replacing one leg (set_leg) keeps the type of the legs.
LEMMA LegUpdate ==
  ASSUME NEW legs, AreLegs(legs), NEW l \in DOMAIN legs, NEW leg, IsLeg(leg)
  PROVE  /\ AreLegs([legs EXCEPT ![l] = leg])
         /\ DOMAIN [legs EXCEPT ![l] = leg] = DOMAIN legs
         /\ [legs EXCEPT ![l] = leg][l] = leg
         /\ \A k \in DOMAIN legs : k # l => [legs EXCEPT ![l] = leg][k] = legs[k]
BY DEF AreLegs, IsPartial, Range

\* Replacing one event (the completion sync_parent notes) keeps the type.
LEMMA EventUpdate ==
  ASSUME NEW events, AreEvents(events), NEW n \in DOMAIN events, NEW e, IsEvent(e)
  PROVE  /\ AreEvents([events EXCEPT ![n] = e])
         /\ DOMAIN [events EXCEPT ![n] = e] = DOMAIN events
         /\ [events EXCEPT ![n] = e][n] = e
         /\ \A i \in DOMAIN events : i # n => [events EXCEPT ![n] = e][i] = events[i]
<1> DEFINE new == [events EXCEPT ![n] = e]
<1>1. /\ DOMAIN new = DOMAIN events
      /\ new[n] = e /\ \A i \in DOMAIN events : i # n => new[i] = events[i]
  BY DEF AreEvents
<1>2. new \in Seq(Range(new))
  <2>1. PICK len \in Nat : DOMAIN events = 1..len
    BY DEF AreEvents
  <2>2. new = [i \in 1..len |-> new[i]]
    BY <2>1
  <2>3. new \in [1..len -> Range(new)]
    <3> HIDE DEF new
    <3> QED BY <1>1, <2>1, <2>2 DEF Range
  <2> HIDE DEF new
  <2> QED
    BY <2>1, <2>3, SeqDef
<1>3. \A i \in DOMAIN new : IsEvent(new[i])
  BY <1>1 DEF AreEvents
<1> QED
  BY <1>1, <1>2, <1>3 DEF AreEvents

\* Append extends the events and leaves the earlier ones alone.
LEMMA AppendAny ==
  ASSUME NEW events, events \in Seq(Range(events)), NEW e
  PROVE  /\ Append(events, e) \in Seq(Range(Append(events, e)))
         /\ Len(events) \in Nat /\ DOMAIN events = 1..Len(events)
         /\ DOMAIN Append(events, e) = 1..(Len(events) + 1)
         /\ Append(events, e)[Len(events) + 1] = e
         /\ \A i \in DOMAIN events : Append(events, e)[i] = events[i]
<1> DEFINE new == Append(events, e)
           S == Range(events) \cup {e}
<1>1. events \in Seq(S)
  OBVIOUS
<1>2. /\ new \in Seq(S) /\ Len(new) = Len(events) + 1 /\ new[Len(events) + 1] = e
      /\ \A i \in 1..Len(events) : new[i] = events[i]
  <2> HIDE DEF S
  <2>1. events \in Seq(S) /\ e \in S
    BY <1>1 DEF S
  <2> QED
    BY <2>1, AppendProperties
<1>3. Len(events) \in Nat /\ DOMAIN events = 1..Len(events)
  BY <1>1
<1> HIDE DEF new, S
<1>4. Len(new) \in Nat /\ DOMAIN new = 1..Len(new) /\ new = [i \in 1..Len(new) |-> new[i]]
  BY <1>2
<1>5. /\ Len(events) \in Nat /\ DOMAIN events = 1..Len(events)
      /\ DOMAIN new = 1..(Len(events) + 1) /\ new[Len(events) + 1] = e
      /\ \A i \in DOMAIN events : new[i] = events[i]
      /\ new = [i \in 1..(Len(events) + 1) |-> new[i]]
  BY <1>2, <1>3, <1>4
<1>6. new \in Seq(Range(new))
  <2>1. new \in [1..(Len(events) + 1) -> Range(new)]
    BY <1>5 DEF Range
  <2> QED
    BY <1>5, <2>1, SeqDef
<1> QED
  BY <1>5, <1>6 DEF new

\* Events to which one is appended are events.
LEMMA EventAppend ==
  ASSUME NEW events, AreEvents(events), NEW e, IsEvent(e)
  PROVE  AreEvents(Append(events, e))
<1>1. events \in Seq(Range(events))
  BY DEF AreEvents
<1> DEFINE new == Append(events, e)
<1>2. /\ new \in Seq(Range(new))
      /\ Len(events) \in Nat /\ DOMAIN events = 1..Len(events)
      /\ DOMAIN new = 1..(Len(events) + 1) /\ new[Len(events) + 1] = e
      /\ \A i \in DOMAIN events : new[i] = events[i]
  BY <1>1, AppendAny
<1> HIDE DEF new
<1>3. \A i \in DOMAIN new : IsEvent(new[i])
  BY <1>2 DEF AreEvents
<1> QED
  BY <1>2, <1>3 DEF AreEvents, new

-----------------------------------------------------------------------------
(* Saving *)

\* progress changes the status of one leg and nothing else.
LEMMA ProgressTyped ==
  ASSUME NEW v, IsValue(v), NEW l \in DOMAIN v.legs
  PROVE  /\ IsValue(progress(v, l))
         /\ progress(v, l).events = v.events
         /\ progress(v, l).parent = v.parent
         /\ progress(v, l).allocs = v.allocs
         /\ progress(v, l).sources = v.sources
         /\ progress(v, l).unpacked = v.unpacked
         /\ DOMAIN progress(v, l).legs = DOMAIN v.legs
         /\ progress(v, l).legs[l].status \in {"in_progress", "completed"}
         /\ \A k \in DOMAIN v.legs : k # l => progress(v, l).legs[k] = v.legs[k]
<1> DEFINE st   == IF unresolved(v, l) = {} THEN "completed" ELSE "in_progress"
           leg  == [v.legs[l] EXCEPT !.status = st]
           legs == [v.legs EXCEPT ![l] = leg]
<1>1. progress(v, l) = [v EXCEPT !.legs = legs]
  BY DEF progress
<1>2. st \in {"in_progress", "completed"}
  OBVIOUS
<1> HIDE DEF st
<1>3. AreLegs(v.legs) /\ IsLeg(v.legs[l])
  BY DEF IsValue, AreLegs
<1>4. IsLeg(leg) /\ leg.status = st
  BY <1>2, <1>3 DEF IsLeg, RESERVED
<1> HIDE DEF leg
<1>5. /\ AreLegs(legs) /\ DOMAIN legs = DOMAIN v.legs /\ legs[l] = leg
      /\ \A k \in DOMAIN v.legs : k # l => legs[k] = v.legs[k]
  BY <1>3, <1>4, LegUpdate
<1> HIDE DEF legs
<1> QED
  BY <1>1, <1>2, <1>4, <1>5, WithLegs

\* Saving a value of the right type keeps all records typed.
LEMMA TypedUpdate ==
  ASSUME NEW recs, Typed(recs), NEW d \in Deliveries, NEW w, IsValue(w)
  PROVE  /\ Typed([recs EXCEPT ![d] = w])
         /\ [recs EXCEPT ![d] = w][d] = w
         /\ \A x \in Deliveries : x # d => [recs EXCEPT ![d] = w][x] = recs[x]
BY DEF Typed, Range

\* The parent's value with the completion of its follow-up noted.
LEMMA TellTyped ==
  ASSUME NEW v, IsValue(v), NEW n \in DOMAIN v.events, NEW c \in BOOLEAN
  PROVE  /\ IsValue([v EXCEPT !.events[n].complete = c])
         /\ [v EXCEPT !.events[n].complete = c].legs = v.legs
         /\ [v EXCEPT !.events[n].complete = c].allocs = v.allocs
         /\ [v EXCEPT !.events[n].complete = c].sources = v.sources
         /\ [v EXCEPT !.events[n].complete = c].parent = v.parent
         /\ DOMAIN [v EXCEPT !.events[n].complete = c].events = DOMAIN v.events
         /\ \A i \in DOMAIN v.events :
              [v EXCEPT !.events[n].complete = c].events[i].leg = v.events[i].leg
<1> DEFINE e   == [v.events[n] EXCEPT !.complete = c]
           evs == [v.events EXCEPT ![n] = e]
<1>1. [v EXCEPT !.events[n].complete = c] = [v EXCEPT !.events = evs]
  OBVIOUS
<1>2. AreEvents(v.events) /\ IsEvent(v.events[n])
  BY DEF IsValue, AreEvents
<1>3. IsEvent(e) /\ e.leg = v.events[n].leg
  BY <1>2 DEF IsEvent
<1> HIDE DEF e
<1>4. /\ AreEvents(evs) /\ DOMAIN evs = DOMAIN v.events
      /\ \A i \in DOMAIN v.events : evs[i].leg = v.events[i].leg
  <2>1. /\ AreEvents(evs) /\ DOMAIN evs = DOMAIN v.events /\ evs[n] = e
        /\ \A i \in DOMAIN v.events : i # n => evs[i] = v.events[i]
    BY <1>2, <1>3, EventUpdate
  <2> HIDE DEF evs
  <2> QED
    BY <1>3, <2>1
<1> HIDE DEF evs
<1> QED
  BY <1>1, <1>4, WithEvents

\* A step of d that continues its value keeps every follow-up linked.
LEMMA LinksContinue ==
  ASSUME NEW old, NEW new, Linked(old),
         \A d \in Deliveries : Continues(new[d], old[d])
  PROVE  Linked(new)
<1> SUFFICES ASSUME NEW y \in Deliveries, new[y].parent.kind # "none" PROVE LinkOK(new, y)
  BY DEF Linked, LinkOK
<1>1. LinkOK(old, y) /\ new[y].parent = old[y].parent
  BY DEF Linked, Continues
<1> DEFINE p == old[y].parent.delivery
           n == old[y].parent.event
<1>2. /\ p \in Deliveries /\ n \in DOMAIN old[p].events
      /\ old[p].events[n].leg \in DOMAIN old[p].legs
      /\ old[p].legs[old[p].events[n].leg].status \in Executed
  BY <1>1 DEF LinkOK, part_of
<1>3. new[y].parent.delivery = p /\ new[y].parent.event = n
  BY <1>1
<1> HIDE DEF p, n
<1>4. /\ n \in DOMAIN new[p].events /\ new[p].events[n].leg = old[p].events[n].leg
      /\ old[p].events[n].leg \in DOMAIN new[p].legs
      /\ new[p].legs[old[p].events[n].leg].status \in Executed
  BY <1>2 DEF Continues
<1> QED
  BY <1>2, <1>3, <1>4 DEF LinkOK, part_of

\* sync_parent keeps the types, the links and what every delivery holds.
LEMMA SyncKeeps ==
  ASSUME NEW recs, Typed(recs), Linked(recs), NEW x \in Deliveries,
         recs[x].parent.kind # "none"
  PROVE  /\ Typed(sync_parent(recs, x)) /\ Linked(sync_parent(recs, x))
         /\ \A d \in Deliveries : SameHold(sync_parent(recs, x)[d], recs[d])
<1> DEFINE p == recs[x].parent.delivery
           n == recs[x].parent.event
           l == recs[p].events[n].leg
           told == [recs[p] EXCEPT !.events[n].complete = complete(recs[x])]
           w == progress(told, l)
           new == sync_parent(recs, x)
<1>1. /\ p \in Deliveries /\ n \in DOMAIN recs[p].events /\ l \in DOMAIN recs[p].legs
      /\ recs[p].legs[l].status \in Executed
  BY DEF Linked, LinkOK, part_of
<1>2. new = [recs EXCEPT ![p] = w]
  BY DEF sync_parent, part_of
<1>3. complete(recs[x]) \in BOOLEAN
  BY DEF complete
<1> HIDE DEF p, n
<1>4. IsValue(recs[p])
  BY <1>1 DEF Typed
<1>5. /\ IsValue(told) /\ told.legs = recs[p].legs /\ told.parent = recs[p].parent
      /\ told.allocs = recs[p].allocs /\ told.sources = recs[p].sources
      /\ DOMAIN told.events = DOMAIN recs[p].events
      /\ \A i \in DOMAIN told.events : told.events[i].leg = recs[p].events[i].leg
  BY <1>1, <1>3, <1>4, TellTyped
<1> HIDE DEF told, l
<1>6. /\ IsValue(w) /\ w.parent = recs[p].parent /\ w.allocs = recs[p].allocs
      /\ w.sources = recs[p].sources /\ w.events = told.events
      /\ DOMAIN w.legs = DOMAIN recs[p].legs
      /\ w.legs[l].status \in {"in_progress", "completed"}
      /\ \A k \in DOMAIN recs[p].legs : k # l => w.legs[k] = recs[p].legs[k]
  BY <1>1, <1>5, ProgressTyped
<1> HIDE DEF w, new
<1>7. Typed(new)
  BY <1>1, <1>2, <1>6, TypedUpdate
<1>8. SameHold(w, recs[p]) /\ Continues(w, recs[p])
  BY <1>1, <1>5, <1>6 DEF SameHold, Continues, RESERVED, Executed
<1>9. \A d \in Deliveries : SameHold(new[d], recs[d]) /\ Continues(new[d], recs[d])
  <2> TAKE d \in Deliveries
  <2>1. CASE d = p
    BY <1>1, <1>2, <1>8, <2>1 DEF Typed
  <2>2. CASE d # p
    <3>1. new[d] = recs[d]
      BY <1>2, <2>2 DEF Typed
    <3> QED
      BY <3>1 DEF SameHold, Continues
  <2> QED
    BY <2>1, <2>2
<1>10. Linked(new)
  BY <1>9, LinksContinue
<1> QED
  BY <1>7, <1>9, <1>10 DEF new

\* So does save_all, however many ancestors it tells.
LEMMA SaveKeeps ==
  ASSUME NEW recs, Typed(recs), Linked(recs), NEW d \in Deliveries, save_all(recs, d)
  PROVE  /\ Typed(deliveries') /\ Linked(deliveries')
         /\ \A x \in Deliveries : SameHold(deliveries'[x], recs[x])
<1> DEFINE up == recs[d].parent.delivery
           once == sync_parent(recs, d)
<1>0. \A x \in Deliveries : SameHold(recs[x], recs[x])
  BY DEF SameHold
<1>1. CASE ~reports(recs, d)
  BY <1>0, <1>1 DEF save_all
<1>2. CASE reports(recs, d)
  <2>1. recs[d].parent.kind # "none" /\ up \in Deliveries
    BY <1>2 DEF reports, Linked, LinkOK
  <2>2. Typed(once) /\ Linked(once) /\ \A x \in Deliveries : SameHold(once[x], recs[x])
    BY <2>1, SyncKeeps
  <2>3. deliveries' = once \/ (reports(once, up) /\ deliveries' = sync_parent(once, up))
    BY <1>2 DEF save_all
  <2> HIDE DEF up, once
  <2>4. CASE deliveries' = once
    BY <2>2, <2>4
  <2>5. CASE reports(once, up) /\ deliveries' = sync_parent(once, up)
    <3>1. once[up].parent.kind # "none"
      BY <2>5 DEF reports
    <3>2. /\ Typed(deliveries') /\ Linked(deliveries')
          /\ \A x \in Deliveries : SameHold(deliveries'[x], once[x])
      BY <2>1, <2>2, <2>5, <3>1, SyncKeeps
    <3> QED
      BY <2>2, <3>2 DEF SameHold
  <2> QED
    BY <2>3, <2>4, <2>5
<1> QED
  BY <1>1, <1>2

\* A saved value that continues the old one keeps the types and links; the
\* other deliveries hold what they held.
LEMMA SaveStep ==
  ASSUME Typed(deliveries), Linked(deliveries), NEW d \in Deliveries,
         NEW w, IsValue(w), Continues(w, deliveries[d]), save(d, w)
  PROVE  /\ Typed(deliveries') /\ Linked(deliveries')
         /\ SameHold(deliveries'[d], w)
         /\ \A x \in Deliveries : x # d => SameHold(deliveries'[x], deliveries[x])
<1> DEFINE recs == [deliveries EXCEPT ![d] = w]
<1>1. Typed(recs) /\ recs[d] = w /\ \A x \in Deliveries : x # d => recs[x] = deliveries[x]
  BY TypedUpdate
<1>2. save_all(recs, d)
  BY DEF save
<1> HIDE DEF recs
<1>3. \A x \in Deliveries : Continues(recs[x], deliveries[x])
  BY <1>1 DEF Continues
<1>4. Linked(recs)
  BY <1>3, LinksContinue
<1> QED
  BY <1>1, <1>2, <1>4, SaveKeeps

-----------------------------------------------------------------------------
(* Held units *)

\* Whatever w holds, v held already.
Yields(w, v) ==
  \A a \in active_allocations(w) :
    /\ a \in active_allocations(v) /\ w.allocs[a] = v.allocs[a]
    /\ w.sources[w.allocs[a].shipment] = v.sources[w.allocs[a].shipment]
    /\ reserved_quantity(w, a) = reserved_quantity(v, a)

\* A value that holds the same goods gives none back and takes none.
LEMMA SameHoldSame ==
  ASSUME NEW v, IsValue(v), NEW w, SameHold(w, v)
  PROVE  Yields(w, v) /\ Yields(v, w)
<1>1. \A a \in DOMAIN v.allocs : DOMAIN v.allocs[a].qty \subseteq DOMAIN v.legs
  BY DEF IsValue, AreAllocations
<1>2. active_allocations(w) = active_allocations(v)
  BY <1>1 DEF SameHold, active_allocations
<1> QED
  BY <1>2 DEF SameHold, Yields, reserved_quantity

\* Yields is transitive.
LEMMA YieldsTransitive ==
  ASSUME NEW u, NEW v, NEW w, Yields(w, v), Yields(v, u)
  PROVE  Yields(w, u)
BY DEF Yields

\* Deliveries that only give goods back hold a part of what they held.
LEMMA HeldMonotone ==
  ASSUME NEW new, NEW old, \A x \in Deliveries : Yields(new[x], old[x])
  PROVE  \A s : held(new, s) \subseteq held(old, s)
BY DEF held, Yields

\* The units of a shipment that are held are finitely many.
LEMMA HeldFinite ==
  ASSUME NEW recs, NEW s
  PROVE  IsFiniteSet(held(recs, s))
<1>1. IsFiniteSet(1..MaxQuantity)
  BY DeliveriesAssumption, FS_Interval
<1>2. IsFiniteSet(Allocs \X (1..MaxQuantity))
  BY <1>1, DeliveriesAssumption, FS_Product
<1> DEFINE pairs == Allocs \X (1..MaxQuantity)
           nested == Deliveries \X pairs
           units == Deliveries \X Allocs \X (1..MaxQuantity)
<1>3. IsFiniteSet(nested)
  BY <1>2, DeliveriesAssumption, FS_Product
<1>4. IsFiniteSet(units)
  <2> DEFINE f == [u \in nested |-> <<u[1], u[2][1], u[2][2]>>]
  <2>1. f \in Surjection(nested, units)
    <3>1. \A u \in nested : f[u] \in units
      OBVIOUS
    <3>2. \A u \in units : \E n \in nested : f[n] = u
      <4> TAKE u \in units
      <4>1. <<u[1], <<u[2], u[3]>>>> \in nested /\ f[<<u[1], <<u[2], u[3]>>>>] = u
        OBVIOUS
      <4> QED BY <4>1
    <3>3. f \in [nested -> units]
      BY <3>1
    <3> HIDE DEF f, nested, units
    <3> QED
      BY <3>2, <3>3 DEF Surjection
  <2> QED
    BY <1>3, <2>1, FS_Surjection
<1>5. held(recs, s) \subseteq units
  BY DEF held
<1> QED
  BY <1>4, <1>5, FS_Subset

-----------------------------------------------------------------------------
(* Steps *)

\* What recs holds of shipment s is kept, and fits.
Covered(recs, s) ==
  held(recs, s) # {} =>
    shipments[s] \in Revisions /\ Cardinality(held(recs, s)) <= Stock[s][shipments[s]]

\* The inductive invariant without the part on quantities.
Sound == TypeOK /\ Linked(deliveries) /\ SourceIntact

\* A request on the deliveries that gives goods back or books what fits.
Books ==
  /\ Sound' /\ UNCHANGED shipments
  /\ \A s \in Shipments : held(deliveries', s) \subseteq held(deliveries, s) \/ Covered(deliveries', s)

\* The type invariant, as the saving lemmas use it.
LEMMA TypeOKTyped == TypeOK <=> shipments \in [Shipments -> Revisions \cup {None}] /\ Typed(deliveries)
BY DEF TypeOK, Typed

\* Values that give goods back, saved.
LEMMA QuietSave ==
  ASSUME Sound, NEW recs, Typed(recs), Linked(recs), NEW d \in Deliveries, save_all(recs, d),
         UNCHANGED shipments, \A x \in Deliveries : Yields(recs[x], deliveries[x])
  PROVE  Books
<1>1. /\ Typed(deliveries') /\ Linked(deliveries')
      /\ \A x \in Deliveries : SameHold(deliveries'[x], recs[x])
  BY SaveKeeps
<1>2. \A x \in Deliveries : Yields(deliveries'[x], deliveries[x])
  <2> TAKE x \in Deliveries
  <2>1. IsValue(recs[x]) /\ SameHold(deliveries'[x], recs[x])
    BY <1>1 DEF Typed
  <2> QED
    BY <2>1, SameHoldSame, YieldsTransitive
<1>3. \A s : held(deliveries', s) \subseteq held(deliveries, s)
  BY <1>2, HeldMonotone
<1>4. SourceIntact'
  BY <1>2 DEF Sound, SourceIntact, Yields
<1>5. TypeOK'
  BY <1>1 DEF Sound, TypeOK, Typed
<1> QED
  BY <1>1, <1>3, <1>4, <1>5 DEF Books, Sound

\* A saved value that reserves nothing new keeps the books.
LEMMA QuietStep ==
  ASSUME Sound, NEW d \in Deliveries, NEW w, IsValue(w), Continues(w, deliveries[d]),
         Yields(w, deliveries[d]), save(d, w), UNCHANGED shipments
  PROVE  Books
<1> DEFINE recs == [deliveries EXCEPT ![d] = w]
<1>1. Typed(deliveries) /\ Linked(deliveries)
  BY TypeOKTyped DEF Sound
<1>2. Typed(recs) /\ recs[d] = w /\ \A x \in Deliveries : x # d => recs[x] = deliveries[x]
  BY <1>1, TypedUpdate
<1>3. save_all(recs, d)
  BY DEF save
<1> HIDE DEF recs
<1>4. \A x \in Deliveries : Continues(recs[x], deliveries[x])
  BY <1>2 DEF Continues
<1>5. Linked(recs)
  BY <1>1, <1>4, LinksContinue
<1>6. \A x \in Deliveries : Yields(recs[x], deliveries[x])
  BY <1>2 DEF Yields
<1> QED
  BY <1>2, <1>3, <1>5, <1>6, QuietSave

\* An office action on a leg that does not newly reserve goods.
LEMMA SetLegStep ==
  ASSUME Sound, NEW d \in Deliveries, NEW l \in DOMAIN deliveries[d].legs, NEW leg,
         IsLeg(leg), set_leg(d, l, leg),
         deliveries[d].legs[l].status \in Executed => leg.status \in Executed,
         leg.status \in RESERVED => deliveries[d].legs[l].status \in RESERVED
  PROVE  Books
<1> DEFINE v == deliveries[d]
           legs == [v.legs EXCEPT ![l] = leg]
           w == [v EXCEPT !.legs = legs]
<1>1. save(d, w) /\ UNCHANGED shipments
  BY DEF set_leg
<1>2. IsValue(v)
  BY DEF Sound, TypeOK
<1>3. AreLegs(v.legs)
  BY <1>2 DEF IsValue
<1> HIDE DEF v
<1>4. /\ AreLegs(legs) /\ DOMAIN legs = DOMAIN v.legs /\ legs[l] = leg
      /\ \A k \in DOMAIN v.legs : k # l => legs[k] = v.legs[k]
  BY <1>3, LegUpdate DEF v
<1> HIDE DEF legs
<1>5. /\ IsValue(w) /\ w.legs = legs /\ w.allocs = v.allocs /\ w.sources = v.sources
      /\ w.events = v.events /\ w.parent = v.parent
  BY <1>2, <1>4, WithLegs
<1> HIDE DEF w
<1>6. Continues(w, v)
  BY <1>4, <1>5 DEF Continues, v
<1>7. \A a \in DOMAIN v.allocs : DOMAIN v.allocs[a].qty \subseteq DOMAIN v.legs
  BY <1>2 DEF IsValue, AreAllocations
<1>8. active_allocations(w) \subseteq active_allocations(v)
  BY <1>4, <1>5, <1>7 DEF active_allocations, v
<1>9. Yields(w, v)
  BY <1>5, <1>8 DEF Yields, reserved_quantity
<1> QED
  BY <1>1, <1>5, <1>6, <1>9, QuietStep DEF v

\* The office actions other than plan reserve nothing new.
LEMMA OfficeStep ==
  ASSUME Sound, NEW d \in Deliveries, NEW l \in DOMAIN deliveries[d].legs,
         unplan(d, l) \/ review(d, l) \/ release(d, l) \/ start(d, l)
           \/ cancel(d, l) \/ close(d, l)
  PROVE  Books
<1> DEFINE leg == deliveries[d].legs[l]
<1>1. IsLeg(leg)
  BY DEF Sound, TypeOK, IsValue, AreLegs
<1>2. CASE unplan(d, l)
  <2>1. IsLeg(draft(leg.plan)) /\ draft(leg.plan).status = "draft"
    BY <1>1 DEF IsLeg, draft
  <2>2. set_leg(d, l, draft(leg.plan)) /\ leg.status \notin Executed
    BY <1>2 DEF unplan, Executed
  <2> QED
    BY <2>1, <2>2, SetLegStep DEF RESERVED
<1>3. CASE review(d, l)
  <2> DEFINE new == [leg EXCEPT !.review = fingerprint(deliveries[d], l)]
  <2>1. IsLeg(new) /\ new.status = leg.status
    BY <1>1 DEF IsLeg
  <2>2. set_leg(d, l, new)
    BY <1>3 DEF review
  <2> HIDE DEF new
  <2> QED
    BY <2>1, <2>2, SetLegStep
<1>4. ASSUME NEW st \in {"released", "in_progress", "cancelled", "closed"},
             set_leg(d, l, [leg EXCEPT !.status = st]),
             leg.status \in Executed => st = "closed",
             st # "cancelled" => leg.status \in RESERVED
      PROVE  Books
  <2> DEFINE new == [leg EXCEPT !.status = st]
  <2>1. IsLeg(new) /\ new.status = st
    BY <1>1 DEF IsLeg, RESERVED
  <2> HIDE DEF new
  <2>2. leg.status \in Executed => new.status \in Executed
    BY <1>4, <2>1 DEF Executed
  <2>3. new.status \in RESERVED => leg.status \in RESERVED
    BY <1>4, <2>1 DEF RESERVED
  <2> QED
    BY <1>4, <2>1, <2>2, <2>3, SetLegStep DEF new
<1>5. CASE release(d, l)
  BY <1>4, <1>5 DEF release, Executed, RESERVED
<1>6. CASE start(d, l)
  BY <1>4, <1>6 DEF start, Executed, RESERVED
<1>7. CASE cancel(d, l)
  BY <1>4, <1>7 DEF cancel, Executed
<1>8. CASE close(d, l)
  BY <1>4, <1>8 DEF close, RESERVED
<1> QED
  BY <1>2, <1>3, <1>5, <1>6, <1>7, <1>8

\* A saved value whose reservations were checked against the snapshots of
\* shipments that are unchanged.
LEMMA BookStep ==
  ASSUME Sound, NEW d \in Deliveries, NEW w, IsValue(w), Continues(w, deliveries[d]),
         save(d, w), UNCHANGED shipments, reserve(d, w),
         \A a \in active_allocations(w) :
           w.sources[w.allocs[a].shipment] = shipments[w.allocs[a].shipment]
  PROVE  Books
<1> DEFINE recs == [deliveries EXCEPT ![d] = w]
<1>1. Typed(deliveries) /\ Linked(deliveries)
  BY TypeOKTyped DEF Sound
<1>2. /\ Typed(deliveries') /\ Linked(deliveries') /\ SameHold(deliveries'[d], w)
      /\ \A x \in Deliveries : x # d => SameHold(deliveries'[x], deliveries[x])
  BY <1>1, SaveStep
<1>3. /\ Typed(recs) /\ recs[d] = w
      /\ \A x \in Deliveries : x # d => recs[x] = deliveries[x]
  BY <1>1, TypedUpdate
<1>4. \A a \in active_allocations(w) :
        Cardinality(held(recs, w.allocs[a].shipment))
          <= Stock[w.allocs[a].shipment][w.sources[w.allocs[a].shipment]]
  BY DEF reserve
<1> HIDE DEF recs
<1>5. \A x \in Deliveries : Yields(deliveries'[x], recs[x]) /\ Yields(recs[x], deliveries'[x])
  <2> TAKE x \in Deliveries
  <2>1. IsValue(recs[x]) /\ SameHold(deliveries'[x], recs[x])
    BY <1>1, <1>2, <1>3 DEF Typed
  <2> QED
    BY <2>1, SameHoldSame
<1>6. \A s : held(deliveries', s) = held(recs, s)
  <2>1. \A s : held(deliveries', s) \subseteq held(recs, s)
    BY <1>5, HeldMonotone
  <2>2. \A s : held(recs, s) \subseteq held(deliveries', s)
    <3> DEFINE new == deliveries'
    <3>1. \A x \in Deliveries : Yields(recs[x], new[x])
      BY <1>5
    <3> HIDE DEF new
    <3>2. \A s : held(recs, s) \subseteq held(new, s)
      BY <3>1, HeldMonotone
    <3> QED
      BY <3>2 DEF new
  <2> TAKE s
  <2>3. held(deliveries', s) \subseteq held(recs, s) /\ held(recs, s) \subseteq held(deliveries', s)
    BY <2>1, <2>2
  <2> QED
    BY <2>3, Zenon
<1>7. \A s \in Shipments : held(deliveries', s) \subseteq held(deliveries, s) \/ Covered(deliveries', s)
  <2> TAKE s \in Shipments
  <2>1. CASE \E a \in active_allocations(w) : w.allocs[a].shipment = s
    <3>1. PICK a \in active_allocations(w) : w.allocs[a].shipment = s
      BY <2>1
    <3>2. w.sources[s] \in Revisions /\ w.sources[s] = shipments[s]
      BY <3>1 DEF IsValue, IsPartial, active_allocations
    <3> QED
      BY <1>4, <1>6, <3>1, <3>2 DEF Covered
  <2>2. CASE ~\E a \in active_allocations(w) : w.allocs[a].shipment = s
    <3>1. \A u \in held(recs, s) : u[1] # d
      BY <1>3, <2>2 DEF held
    <3> QED
      BY <1>3, <1>6, <3>1 DEF held
  <2> QED
    BY <2>1, <2>2
<1>8. SourceIntact'
  <2> SUFFICES ASSUME NEW x \in Deliveries, NEW a \in active_allocations(deliveries'[x])
               PROVE  deliveries'[x].sources[deliveries'[x].allocs[a].shipment]
                        = shipments[deliveries'[x].allocs[a].shipment]
    BY DEF SourceIntact
  <2>1. /\ a \in active_allocations(recs[x])
        /\ deliveries'[x].allocs[a] = recs[x].allocs[a]
        /\ deliveries'[x].sources[deliveries'[x].allocs[a].shipment]
             = recs[x].sources[deliveries'[x].allocs[a].shipment]
    BY <1>5 DEF Yields
  <2>2. CASE x = d
    BY <1>3, <2>1, <2>2
  <2>3. CASE x # d
    BY <1>3, <2>1, <2>3 DEF Sound, SourceIntact
  <2> QED
    BY <2>2, <2>3
<1>9. TypeOK'
  BY <1>2 DEF Sound, TypeOK, Typed
<1> QED
  BY <1>2, <1>7, <1>8, <1>9 DEF Books, Sound

\* plan reserves goods it has checked against current snapshots.
LEMMA PlanStep ==
  ASSUME Sound, NEW d \in Deliveries, NEW l \in DOMAIN deliveries[d].legs, plan(d, l)
  PROVE  Books
<1> DEFINE v == deliveries[d]
           leg == [v.legs[l] EXCEPT !.status = "planned"]
           legs == [v.legs EXCEPT ![l] = leg]
           w == [v EXCEPT !.legs = legs]
<1>1. /\ save(d, w) /\ reserve(d, w) /\ validate_sources(v) /\ UNCHANGED shipments
      /\ v.legs[l].status = "draft"
  BY DEF plan, set_leg
<1>2. IsValue(v)
  BY DEF Sound, TypeOK
<1>3. AreLegs(v.legs) /\ IsLeg(leg) /\ leg.status = "planned"
  BY <1>2 DEF IsValue, AreLegs, IsLeg, RESERVED
<1> HIDE DEF v, leg
<1>4. /\ AreLegs(legs) /\ DOMAIN legs = DOMAIN v.legs /\ legs[l] = leg
      /\ \A k \in DOMAIN v.legs : k # l => legs[k] = v.legs[k]
  BY <1>3, LegUpdate DEF v
<1> HIDE DEF legs
<1>5. /\ IsValue(w) /\ w.legs = legs /\ w.allocs = v.allocs /\ w.sources = v.sources
      /\ w.events = v.events /\ w.parent = v.parent
  BY <1>2, <1>4, WithLegs
<1> HIDE DEF w
<1>6. Continues(w, v)
  BY <1>1, <1>4, <1>5 DEF Continues, v, Executed
<1>7. \A a \in active_allocations(w) :
        w.sources[w.allocs[a].shipment] = shipments[w.allocs[a].shipment]
  BY <1>1, <1>2, <1>5 DEF validate_sources, IsValue, active_allocations
<1> QED
  BY <1>1, <1>5, <1>6, <1>7, BookStep DEF v

\* What an edit writes.
edited(d, p) ==
  [deliveries[d] EXCEPT !.legs = merged(deliveries[d], p), !.allocs = p.allocs,
                        !.sources = load_sources(p.allocs)]

\* It is a value; a leg that is no draft keeps its state.
LEMMA EditTyped ==
  ASSUME Sound, NEW d \in Deliveries, NEW p, IsDeliveryIn(p), edit(d, p)
  PROVE  LET v == deliveries[d]
             w == edited(d, p)
         IN  /\ IsValue(w) /\ Continues(w, v) /\ save(d, w) /\ reserve(d, w) /\ UNCHANGED shipments
             /\ w.events = v.events /\ w.parent = v.parent /\ preserve(v, w) /\ keeps_frozen(v, w)
             /\ \A l \in DOMAIN w.legs :
                  IF l \in DOMAIN v.legs /\ v.legs[l].status # "draft"
                  THEN w.legs[l].status = v.legs[l].status /\ w.legs[l].review = v.legs[l].review
                  ELSE w.legs[l].status = "draft"
             /\ \A a \in active_allocations(w) :
                  w.sources[w.allocs[a].shipment] = shipments[w.allocs[a].shipment]
<1> DEFINE v == deliveries[d]
           legs == merged(v, p)
           w == [v EXCEPT !.legs = legs, !.allocs = p.allocs, !.sources = load_sources(p.allocs)]
<1>1. /\ save(d, w) /\ reserve(d, w) /\ UNCHANGED shipments /\ sources_kept(p.allocs)
      /\ preserve(v, w) /\ keeps_frozen(v, w)
      /\ \A l \in DOMAIN v.legs : v.legs[l].status # "draft" => l \in DOMAIN w.legs
  BY DEF edit, keeps_frozen
<1>2. IsValue(v)
  BY DEF Sound, TypeOK
<1>3. /\ w \in [legs : {legs}, allocs : {p.allocs}, sources : {load_sources(p.allocs)},
                events : {v.events}, parent : Parent, unpacked : BOOLEAN]
      /\ w.legs = legs /\ w.allocs = p.allocs /\ w.sources = load_sources(p.allocs)
      /\ w.events = v.events /\ w.parent = v.parent
  BY <1>2 DEF IsValue
<1> HIDE DEF v, w
<1>4. /\ DOMAIN legs = DOMAIN p.legs /\ AreLegs(legs)
      /\ \A l \in DOMAIN legs :
           IF l \in DOMAIN v.legs /\ v.legs[l].status # "draft"
           THEN legs[l].status = v.legs[l].status /\ legs[l].review = v.legs[l].review
           ELSE legs[l].status = "draft"
  <2>1. IsPartial(p.legs, Legs, Plans) /\ AreLegs(v.legs)
    BY <1>2 DEF IsDeliveryIn, IsValue
  <2>2. DOMAIN legs = DOMAIN p.legs
    BY DEF merged
  <2>3. \A l \in DOMAIN p.legs : IsLeg(legs[l])
    <3> TAKE l \in DOMAIN p.legs
    <3>1. CASE l \in DOMAIN v.legs /\ v.legs[l].status # "draft"
      <4>1. legs[l] = [v.legs[l] EXCEPT !.plan = p.legs[l]]
        BY <3>1 DEF merged
      <4>2. IsLeg(v.legs[l]) /\ p.legs[l] \in Plans
        BY <2>1, <3>1 DEF AreLegs, IsPartial
      <4> QED
        BY <4>1, <4>2 DEF IsLeg
    <3>2. CASE ~(l \in DOMAIN v.legs /\ v.legs[l].status # "draft")
      <4>1. legs[l] = draft(p.legs[l])
        BY <3>2 DEF merged
      <4>2. p.legs[l] \in Plans
        BY <2>1 DEF IsPartial
      <4> QED
        BY <4>1, <4>2 DEF IsLeg, draft
    <3> QED
      BY <3>1, <3>2
  <2>4. legs = [l \in DOMAIN legs |-> legs[l]]
    BY DEF merged
  <2>5. ASSUME NEW l \in DOMAIN legs
        PROVE  IF l \in DOMAIN v.legs /\ v.legs[l].status # "draft"
               THEN legs[l].status = v.legs[l].status /\ legs[l].review = v.legs[l].review
               ELSE legs[l].status = "draft"
    <3>1. CASE l \in DOMAIN v.legs /\ v.legs[l].status # "draft"
      <4>1. legs[l] = [v.legs[l] EXCEPT !.plan = p.legs[l]]
        BY <2>2, <3>1 DEF merged
      <4>2. IsLeg(v.legs[l])
        BY <2>1, <3>1 DEF AreLegs
      <4> QED
        BY <3>1, <4>1, <4>2 DEF IsLeg
    <3>2. CASE ~(l \in DOMAIN v.legs /\ v.legs[l].status # "draft")
      BY <2>2, <3>2 DEF merged, draft
    <3> QED
      BY <3>1, <3>2
  <2> HIDE DEF legs
  <2> QED
    BY <2>1, <2>2, <2>3, <2>4, <2>5 DEF AreLegs, IsPartial, Range
<1> HIDE DEF legs
<1>5. /\ AreAllocations(w.allocs, DOMAIN w.legs)
      /\ \A a \in DOMAIN w.allocs : w.allocs[a].shipment \in Shipments
  BY <1>3, <1>4 DEF IsDeliveryIn, AreAllocations, IsAllocation
<1>6. /\ DOMAIN w.sources = {w.allocs[a].shipment : a \in DOMAIN w.allocs}
      /\ \A s \in DOMAIN w.sources : w.sources[s] = shipments[s] /\ shipments[s] \in Revisions
      /\ w.sources = [s \in DOMAIN w.sources |-> w.sources[s]]
  BY <1>1, <1>3, <1>5 DEF load_sources, sources_kept, shipments_of, Sound, TypeOK
<1>7. IsValue(w)
  BY <1>2, <1>3, <1>4, <1>5, <1>6 DEF IsValue, IsPartial
<1>8. Continues(w, v)
  BY <1>1, <1>2, <1>3, <1>4 DEF Continues, Executed, v
<1>9. \A a \in active_allocations(w) :
        w.sources[w.allocs[a].shipment] = shipments[w.allocs[a].shipment]
  BY <1>6 DEF active_allocations
<1> QED
  BY <1>1, <1>3, <1>4, <1>7, <1>8, <1>9 DEF v, w, legs, edited

\* edit reserves goods it has checked against snapshots it has just taken.
LEMMA EditStep ==
  ASSUME Sound, NEW d \in Deliveries, NEW p, IsDeliveryIn(p), edit(d, p)
  PROVE  Books
<1> DEFINE v == deliveries[d]
           w == edited(d, p)
<1>1. /\ IsValue(w) /\ Continues(w, v) /\ save(d, w) /\ reserve(d, w) /\ UNCHANGED shipments
      /\ \A a \in active_allocations(w) :
           w.sources[w.allocs[a].shipment] = shipments[w.allocs[a].shipment]
  BY EditTyped
<1> QED
  BY <1>1, BookStep

\* What create writes is a value of drafts.
LEMMA CreateTyped ==
  ASSUME Sound, NEW d \in Deliveries, NEW p, IsDeliveryIn(p), create(d, p)
  PROVE  /\ UNCHANGED shipments /\ deliveries[d] = NoDelivery
         /\ \E w : /\ IsValue(w) /\ Continues(w, deliveries[d]) /\ save(d, w)
                  /\ w.events = <<>> /\ w.parent = NoParent /\ active_allocations(w) = {}
                  /\ \A l \in DOMAIN w.legs : w.legs[l].status = "draft"
<1> DEFINE legs == [l \in DOMAIN p.legs |-> draft(p.legs[l])]
           w == [legs |-> legs, allocs |-> p.allocs, sources |-> load_sources(p.allocs),
                 events |-> <<>>, parent |-> NoParent, unpacked |-> FALSE]
<1>1. /\ save(d, w) /\ UNCHANGED shipments /\ sources_kept(p.allocs)
      /\ deliveries[d] = NoDelivery
  BY DEF create
<1>2. AreLegs(legs) /\ DOMAIN legs = DOMAIN p.legs /\ \A l \in DOMAIN legs : legs[l].status = "draft"
  BY DEF IsDeliveryIn, IsPartial, AreLegs, IsLeg, draft, Range
<1> HIDE DEF legs
<1>3. /\ AreAllocations(w.allocs, DOMAIN w.legs)
      /\ \A a \in DOMAIN w.allocs : w.allocs[a].shipment \in Shipments
  BY <1>2 DEF IsDeliveryIn, AreAllocations, IsAllocation
<1>4. /\ DOMAIN w.sources = {w.allocs[a].shipment : a \in DOMAIN w.allocs}
      /\ \A s \in DOMAIN w.sources : w.sources[s] = shipments[s] /\ shipments[s] \in Revisions
      /\ w.sources = [s \in DOMAIN w.sources |-> w.sources[s]]
  BY <1>1, <1>3 DEF load_sources, sources_kept, shipments_of, Sound, TypeOK
<1>5. AreEvents(<<>>) /\ NoParent \in Parent
  BY DEF AreEvents, NoParent, Parent, Range
<1>6. IsValue(w)
  BY <1>2, <1>3, <1>4, <1>5 DEF IsValue, IsPartial
<1>7. Continues(w, deliveries[d])
  BY <1>1 DEF Continues, NoDelivery, NoParent
<1>8. active_allocations(w) = {}
  BY <1>2, <1>3 DEF active_allocations, AreAllocations, RESERVED
<1>9. w.events = <<>> /\ w.parent = NoParent /\ \A l \in DOMAIN w.legs : w.legs[l].status = "draft"
  BY <1>2
<1> HIDE DEF w
<1> QED
  BY <1>1, <1>6, <1>7, <1>8, <1>9

\* create reserves nothing: all its legs are drafts.
LEMMA CreateStep ==
  ASSUME Sound, NEW d \in Deliveries, NEW p, IsDeliveryIn(p), create(d, p)
  PROVE  Books
<1>1. PICK w : /\ IsValue(w) /\ Continues(w, deliveries[d]) /\ save(d, w)
               /\ active_allocations(w) = {}
  BY CreateTyped
<1>2. Yields(w, deliveries[d])
  BY <1>1 DEF Yields
<1> QED
  BY <1>1, <1>2, CreateTyped, QuietStep

-----------------------------------------------------------------------------
(* Evidence *)

\* A value with an event added differs in its events only.
LEMMA AppendedTyped ==
  ASSUME NEW v, IsValue(v), NEW e, IsEvent(e)
  PROVE  LET w == [v EXCEPT !.events = Append(v.events, e)]
         IN  /\ IsValue(w) /\ w.events = Append(v.events, e)
             /\ w.legs = v.legs /\ w.allocs = v.allocs /\ w.sources = v.sources
             /\ w.parent = v.parent /\ w.unpacked = v.unpacked
             /\ Len(v.events) \in Nat /\ DOMAIN v.events = 1..Len(v.events)
             /\ DOMAIN w.events = 1..(Len(v.events) + 1)
             /\ w.events[Len(v.events) + 1] = e
             /\ \A i \in DOMAIN v.events : w.events[i] = v.events[i]
<1> DEFINE evs == Append(v.events, e)
           w == [v EXCEPT !.events = evs]
<1>1. AreEvents(v.events) /\ v.events \in Seq(Range(v.events))
  BY DEF IsValue, AreEvents
<1>2. /\ AreEvents(evs)
      /\ Len(v.events) \in Nat /\ DOMAIN v.events = 1..Len(v.events)
      /\ DOMAIN evs = 1..(Len(v.events) + 1) /\ evs[Len(v.events) + 1] = e
      /\ \A i \in DOMAIN v.events : evs[i] = v.events[i]
  BY <1>1, EventAppend, AppendAny
<1> HIDE DEF evs
<1>3. /\ IsValue(w) /\ w.events = evs
      /\ w.legs = v.legs /\ w.allocs = v.allocs /\ w.sources = v.sources
      /\ w.parent = v.parent /\ w.unpacked = v.unpacked
  BY <1>2, WithEvents
<1> HIDE DEF w
<1>4. /\ IsValue(w) /\ w.events = evs
      /\ w.legs = v.legs /\ w.allocs = v.allocs /\ w.sources = v.sources
      /\ w.parent = v.parent /\ w.unpacked = v.unpacked
      /\ Len(v.events) \in Nat /\ DOMAIN v.events = 1..Len(v.events)
      /\ DOMAIN w.events = 1..(Len(v.events) + 1)
      /\ w.events[Len(v.events) + 1] = e
      /\ \A i \in DOMAIN v.events : w.events[i] = v.events[i]
  BY <1>2, <1>3
<1> QED
  BY <1>4 DEF w, evs

\* recorded gives a value that continues the old one and holds no more.
LEMMA RecordedTyped ==
  ASSUME NEW d, IsValue(deliveries[d]), NEW e, IsEvent(e),
         e.leg \in DOMAIN deliveries[d].legs,
         deliveries[d].legs[e.leg].status \in Executed \cup {"released"}
  PROVE  LET v == deliveries[d]
             w == recorded(d, e)
         IN  /\ IsValue(w) /\ Continues(w, v) /\ Yields(w, v)
             /\ w.allocs = v.allocs /\ w.sources = v.sources /\ w.parent = v.parent
             /\ Len(v.events) \in Nat /\ DOMAIN v.events = 1..Len(v.events)
             /\ DOMAIN w.events = 1..(Len(v.events) + 1) /\ w.events[Len(v.events) + 1] = e
             /\ \A i \in DOMAIN v.events : w.events[i] = v.events[i]
             /\ e.leg \in DOMAIN w.legs /\ w.legs[e.leg].status \in Executed
<1> DEFINE v == deliveries[d]
           u == [v EXCEPT !.events = Append(v.events, e)]
           w == recorded(d, e)
<1>1. w = progress(u, e.leg)
  BY DEF recorded
<1>2. IsValue(v) /\ e.leg \in DOMAIN v.legs /\ v.legs[e.leg].status \in Executed \cup {"released"}
  OBVIOUS
<1> HIDE DEF v
<1>3. /\ IsValue(u) /\ u.legs = v.legs /\ u.allocs = v.allocs /\ u.sources = v.sources
      /\ u.parent = v.parent
      /\ Len(v.events) \in Nat /\ DOMAIN v.events = 1..Len(v.events)
      /\ DOMAIN u.events = 1..(Len(v.events) + 1) /\ u.events[Len(v.events) + 1] = e
      /\ \A i \in DOMAIN v.events : u.events[i] = v.events[i]
  BY <1>2, AppendedTyped
<1> HIDE DEF u
<1>4. /\ IsValue(w) /\ w.events = u.events /\ w.parent = u.parent /\ w.allocs = u.allocs
      /\ w.sources = u.sources /\ DOMAIN w.legs = DOMAIN u.legs
      /\ w.legs[e.leg].status \in {"in_progress", "completed"}
      /\ \A k \in DOMAIN u.legs : k # e.leg => w.legs[k] = u.legs[k]
  BY <1>1, <1>2, <1>3, ProgressTyped
<1> HIDE DEF w
<1>5. Continues(w, v)
  BY <1>3, <1>4 DEF Continues, Executed
<1>6. \A l \in DOMAIN v.legs : w.legs[l].status \in RESERVED => v.legs[l].status \in RESERVED
  BY <1>2, <1>3, <1>4 DEF RESERVED, Executed
<1>7. \A a \in DOMAIN v.allocs : DOMAIN v.allocs[a].qty \subseteq DOMAIN v.legs
  BY <1>2 DEF IsValue, AreAllocations
<1>8. active_allocations(w) \subseteq active_allocations(v)
  BY <1>3, <1>4, <1>6, <1>7 DEF active_allocations
<1>9. Yields(w, v)
  BY <1>3, <1>4, <1>8 DEF Yields, reserved_quantity
<1>10. /\ DOMAIN w.events = 1..(Len(v.events) + 1) /\ w.events[Len(v.events) + 1] = e
       /\ \A i \in DOMAIN v.events : w.events[i] = v.events[i]
  BY <1>3, <1>4
<1>11. e.leg \in DOMAIN w.legs /\ w.legs[e.leg].status \in Executed
  BY <1>2, <1>3, <1>4 DEF Executed
<1> QED
  BY <1>3, <1>4, <1>5, <1>9, <1>10, <1>11 DEF v, w

\* Recording an event keeps the books.
LEMMA RecordStep ==
  ASSUME Sound, NEW d \in Deliveries, NEW e, IsEvent(e),
         e.leg \in DOMAIN deliveries[d].legs,
         deliveries[d].legs[e.leg].status \in Executed \cup {"released"},
         save(d, recorded(d, e)), UNCHANGED shipments
  PROVE  Books
<1>1. IsValue(deliveries[d])
  BY DEF Sound, TypeOK
<1>2. /\ IsValue(recorded(d, e)) /\ Continues(recorded(d, e), deliveries[d])
      /\ Yields(recorded(d, e), deliveries[d])
  BY <1>1, RecordedTyped
<1> QED
  BY <1>2, QuietStep

\* The lines of an event are about allocations of its leg.
LEMMA NamedLines ==
  ASSUME NEW v, IsValue(v), NEW l, NEW lines \in named_lines(v, l)
  PROVE  IsPartial(lines, Allocs, Line) /\ DOMAIN lines \subseteq selected(v, l)
<1>1. PICK named \in SUBSET selected(v, l) : lines \in [named -> Lines]
  BY DEF named_lines
<1>2. selected(v, l) \subseteq Allocs
  BY DEF selected, IsValue, AreAllocations, IsPartial
<1> QED
  BY <1>1, <1>2, DeliveriesAssumption DEF IsPartial

\* A registered statement is an event.
LEMMA EvidenceTyped ==
  ASSUME NEW l \in Legs, NEW kind \in {"load", "receipt", "unpack", "unload"},
         NEW lines, IsPartial(lines, Allocs, Line)
  PROVE  IsEvent(evidence(l, kind, lines)) /\ evidence(l, kind, lines).leg = l
<1> DEFINE e == evidence(l, kind, lines)
<1>1. e = [kind |-> kind, leg |-> l, lines |-> lines, corrects |-> 0, states |-> kind,
           resolution |-> "none", child |-> None, complete |-> FALSE]
  BY DEF evidence
<1> HIDE DEF e
<1> QED
  BY <1>1 DEF IsEvent, e

\* event_register keeps the books.
LEMMA RegisterStep ==
  ASSUME Sound, NEW d \in Deliveries, NEW l \in DOMAIN deliveries[d].legs,
         NEW kind \in {"load", "receipt"}, NEW lines \in named_lines(deliveries[d], l),
         event_register(d, l, kind, lines)
  PROVE  Books
<1> DEFINE e == evidence(l, kind, lines)
<1>1. IsValue(deliveries[d]) /\ l \in Legs
  BY DEF Sound, TypeOK, IsValue, AreLegs, IsPartial
<1>2. IsEvent(e) /\ e.leg = l
  BY <1>1, NamedLines, EvidenceTyped
<1>3. /\ deliveries[d].legs[l].status \in Executed \cup {"released"}
      /\ save(d, recorded(d, e)) /\ UNCHANGED shipments
  BY DEF event_register, Executed
<1> HIDE DEF e
<1> QED
  BY <1>2, <1>3, RecordStep

\* event_correct keeps the books.
LEMMA CorrectStep ==
  ASSUME Sound, NEW d \in Deliveries, NEW l \in DOMAIN deliveries[d].legs,
         NEW target \in DOMAIN deliveries[d].events,
         NEW lines \in named_lines(deliveries[d], l),
         event_correct(d, l, target, lines)
  PROVE  Books
<1> DEFINE v == deliveries[d]
           e == [evidence(l, "correction", lines) EXCEPT
                   !.corrects = target, !.states = v.events[target].states]
<1>1. IsValue(v) /\ l \in Legs
  BY DEF Sound, TypeOK, IsValue, AreLegs, IsPartial
<1>2. IsEvent(v.events[target]) /\ target \in Nat
  BY <1>1 DEF IsValue, AreEvents
<1>3. v.events[target].states \in {"load", "receipt", "unpack", "unload", "none"}
  BY <1>2 DEF IsEvent
<1>4. IsPartial(lines, Allocs, Line)
  BY <1>1, NamedLines
<1>5. /\ e.leg = l /\ e.lines = lines
      /\ e \in [kind : {"correction"}, leg : {l}, lines : {lines}, corrects : {target},
               states : {v.events[target].states}, resolution : {"none"}, child : {None},
               complete : {FALSE}]
  BY DEF evidence
<1>6. /\ v.legs[l].status \in Executed \cup {"released"}
      /\ save(d, recorded(d, e)) /\ UNCHANGED shipments
  BY DEF event_correct, Executed
<1> HIDE DEF e, v
<1>7. IsEvent(e)
  BY <1>1, <1>2, <1>3, <1>4, <1>5 DEF IsEvent
<1> QED
  BY <1>5, <1>6, <1>7, RecordStep DEF v

-----------------------------------------------------------------------------
(* Dispositions *)

\* Totals over the evidence are numbers.
LEMMA TotalNat ==
  ASSUME NEW v, IsValue(v), NEW I \in SUBSET DOMAIN v.events, NEW a, NEW field
  PROVE  total(v, I, a, field) \in Nat
<1>1. PICK n \in Nat : DOMAIN v.events = 1..n
  BY DEF IsValue, AreEvents
<1>2. IsFiniteSet(I)
  BY <1>1, FS_Interval, FS_Subset
<1>3. IsFiniteSet(1..MaxQuantity)
  BY DeliveriesAssumption, FS_Interval
<1>4. IsFiniteSet(I \X (1..MaxQuantity))
  BY <1>2, <1>3, FS_Product
<1> DEFINE U == {u \in I \X (1..MaxQuantity) : u[2] <= v.events[u[1]].lines[a][field]}
<1>5. IsFiniteSet(U)
  BY <1>4, FS_Subset
<1>6. Cardinality(U) \in Nat
  BY <1>5, FS_CardinalityType
<1> QED
  BY <1>6 DEF total

\* The loaded and received quantities are numbers.
LEMMA ReceiptsNat ==
  ASSUME NEW v, IsValue(v), NEW l, NEW a
  PROVE  /\ load_total(v, l, a) \in Nat
         /\ receipt_totals(v, l, a).quantity \in Nat
         /\ receipt_totals(v, l, a).damaged \in Nat
         /\ receipt_totals(v, l, a).refused \in Nat
<1>1. \A kind : statements(v, l, a, kind) \in SUBSET DOMAIN v.events
  BY DEF statements, effective_events
<1>2. \A kind, field : total(v, statements(v, l, a, kind), a, field) \in Nat
  BY <1>1, TotalNat
<1> QED
  BY <1>2 DEF load_total, receipt_totals

\* w has the events of v and one disposition more.
Disposed(w, v) ==
  \E n \in Nat :
    /\ DOMAIN v.events = 1..n /\ DOMAIN w.events = 1..(n + 1)
    /\ \A i \in DOMAIN v.events : w.events[i] = v.events[i]
    /\ w.events[n + 1].kind = "resolution"

\* A disposition states no load and no receipt.
LEMMA ResolutionSilent ==
  ASSUME NEW v, NEW w, Disposed(w, v), NEW l, NEW a
  PROVE  /\ load_total(w, l, a) = load_total(v, l, a)
         /\ receipt_totals(w, l, a) = receipt_totals(v, l, a)
<1>1. effective_events(w, l) = effective_events(v, l)
  BY DEF effective_events, Disposed
<1>2. \A i \in effective_events(v, l) : w.events[i] = v.events[i]
  BY DEF effective_events, Disposed
<1>3. \A kind : statements(w, l, a, kind) = statements(v, l, a, kind)
  BY <1>1, <1>2 DEF statements
<1>4. \A kind, field : total(w, statements(w, l, a, kind), a, field)
                        = total(v, statements(v, l, a, kind), a, field)
  <2> TAKE kind, field
  <2> DEFINE I == statements(v, l, a, kind)
  <2>1. \A i \in I : w.events[i] = v.events[i]
    BY <1>2 DEF statements
  <2> HIDE DEF I
  <2>2. total(w, I, a, field) = total(v, I, a, field)
    <3>1. {u \in I \X (1..MaxQuantity) : u[2] <= w.events[u[1]].lines[a][field]}
            = {u \in I \X (1..MaxQuantity) : u[2] <= v.events[u[1]].lines[a][field]}
      BY <2>1
    <3> QED
      BY <3>1 DEF total
  <2> QED
    BY <1>3, <2>2 DEF I
<1> QED
  BY <1>4 DEF load_total, receipt_totals

\* A difference that may be disposed of is a quantity an event can state
\* (the consistent evidence bounds it).
LEMMA DifferenceBounded ==
  ASSUME NEW v, IsValue(v), NEW w, NEW l, NEW a \in selected(v, l),
         w.allocs = v.allocs, consistent(w, l),
         load_total(w, l, a) = load_total(v, l, a),
         receipt_totals(w, l, a) = receipt_totals(v, l, a),
         NEW how \in {"accept", "redelivery", "return"}, resolvable(v, l, a, how)
  PROVE  difference(v, l, a, how) \in 1..MaxQuantity
<1> DEFINE r == receipt_totals(v, l, a)
           q == v.allocs[a].qty[l]
<1>1. q \in 1..MaxQuantity
  BY DEF selected, IsValue, AreAllocations, IsAllocation
<1>2. /\ load_total(v, l, a) \in Nat
      /\ r.quantity \in Nat /\ r.damaged \in Nat /\ r.refused \in Nat
  BY ReceiptsNat
<1>3. a \in selected(w, l)
  BY DEF selected
<1>4. /\ load_total(v, l, a) <= q /\ r.quantity + r.refused <= load_total(v, l, a)
      /\ r.damaged <= r.quantity
  BY <1>3 DEF consistent
<1>5. /\ difference(v, l, a, how) > 0
      /\ difference(v, l, a, how) = IF how = "return" THEN r.refused + r.damaged
                                    ELSE q - r.quantity + r.damaged
      /\ how = "return" => q - r.quantity = r.refused
  BY DEF resolvable, difference
<1> HIDE DEF r, q
<1> QED
  BY <1>1, <1>2, <1>4, <1>5, DeliveriesAssumption

\* e disposes of the given lines of leg l.
Disposes(e, l, how, lines, c) ==
  e \in [kind : {"resolution"}, leg : {l}, lines : {lines}, corrects : {0},
        states : {"none"}, resolution : {how}, child : {c}, complete : {FALSE}]

\* A disposition is an event.
LEMMA DispositionTyped ==
  ASSUME NEW l \in Legs, NEW how \in {"accept", "redelivery", "return"},
         NEW c \in Deliveries \cup {None}, NEW lines, IsPartial(lines, Allocs, Line),
         NEW e, Disposes(e, l, how, lines, c)
  PROVE  /\ IsEvent(e) /\ e.leg = l /\ e.kind = "resolution" /\ e.resolution = how
         /\ e.lines = lines
<1>1. /\ e.leg = l /\ e.kind = "resolution" /\ e.resolution = how /\ e.lines = lines
  BY DEF Disposes
<1>2. e.leg \in Legs /\ e.corrects \in Nat
  BY DEF Disposes
<1>3. e.resolution \in {"accept", "redelivery", "return"} /\ e.states = "none"
  BY DEF Disposes
<1>4. e.child \in Deliveries \cup {None}
  BY DEF Disposes
<1>5. e.complete \in BOOLEAN
  BY DEF Disposes
<1>6. e = [kind |-> e.kind, leg |-> e.leg, lines |-> e.lines, corrects |-> e.corrects,
           states |-> e.states, resolution |-> e.resolution, child |-> e.child,
           complete |-> e.complete]
  BY DEF Disposes
<1>7. IsEvent(e)
  BY <1>1, <1>2, <1>3, <1>4, <1>5, <1>6 DEF IsEvent
<1> QED
  BY <1>1, <1>7

\* The facts that both kinds of disposition step use.
LEMMA SettlesTyped ==
  ASSUME Sound, NEW d \in Deliveries, NEW l \in DOMAIN deliveries[d].legs,
         NEW how \in {"accept", "redelivery", "return"},
         NEW named \in SUBSET selected(deliveries[d], l),
         NEW c \in Deliveries \cup {None}, settles(d, l, how, named, c)
  PROVE  LET v == deliveries[d]
             e == disposition(v, l, how, named, c)
         IN  /\ IsEvent(e) /\ e.leg = l /\ e.resolution = how /\ DOMAIN e.lines = named
             /\ \A a \in named : e.lines[a].quantity \in 1..MaxQuantity
             /\ v.legs[l].status \in Executed \cup {"released"}
<1> DEFINE v == deliveries[d]
           e == disposition(v, l, how, named, c)
           w == recorded(d, e)
           u == [v EXCEPT !.events = Append(v.events, e)]
<1>1. IsValue(v) /\ l \in Legs
  BY DEF Sound, TypeOK, IsValue, AreLegs, IsPartial
<1>2. /\ v.legs[l].status \in Executed \cup {"released"}
      /\ \A a \in named : resolvable(v, l, a, how)
      /\ consistent(w, e.leg)
  BY DEF settles, admissible, Executed
<1>3. e.leg = l /\ e.kind = "resolution"
  BY DEF disposition, evidence
<1>4. w = progress(u, e.leg)
  BY DEF recorded
<1> DEFINE n == Len(v.events)
<1>5. /\ n \in Nat /\ DOMAIN v.events = 1..n /\ w.allocs = v.allocs
      /\ DOMAIN w.events = 1..(n + 1) /\ w.events[n + 1] = e
      /\ \A i \in DOMAIN v.events : w.events[i] = v.events[i]
  <2> HIDE DEF e, v, w
  <2>1. u.events = Append(v.events, e) /\ u.allocs = v.allocs
        /\ u \in [legs : {v.legs}, allocs : {v.allocs}, sources : {v.sources},
                 events : {Append(v.events, e)}, parent : Parent, unpacked : BOOLEAN]
    BY <1>1 DEF IsValue
  <2> HIDE DEF u
  <2>2. w.events = u.events /\ w.allocs = u.allocs
    BY <1>4, <2>1 DEF progress
  <2>3. v.events \in Seq(Range(v.events))
    BY <1>1 DEF IsValue, AreEvents
  <2> QED
    BY <2>1, <2>2, <2>3, AppendAny
<1> HIDE DEF e, v, w, u, n
<1>6. \A a : /\ load_total(w, l, a) = load_total(v, l, a)
             /\ receipt_totals(w, l, a) = receipt_totals(v, l, a)
  <2>1. Disposed(w, v)
    BY <1>3, <1>5 DEF Disposed
  <2> QED
    BY <2>1, ResolutionSilent
<1>7. \A a \in named : difference(v, l, a, how) \in 1..MaxQuantity
  <2> TAKE a \in named
  <2>1. a \in selected(v, l) /\ resolvable(v, l, a, how) /\ consistent(w, l)
    BY <1>2, <1>3 DEF v
  <2> QED
    BY <1>1, <1>5, <1>6, <2>1, DifferenceBounded
<1>8. \A a \in named : difference(v, l, a, how) \in 0..MaxQuantity
  BY <1>7, DeliveriesAssumption
<1>9. /\ IsEvent(e) /\ e.leg = l /\ e.resolution = how /\ DOMAIN e.lines = named
      /\ \A a \in named : e.lines[a].quantity = difference(v, l, a, how)
  <2> DEFINE lines == [a \in named |->
                        [quantity |-> difference(v, l, a, how), damaged |-> 0, refused |-> 0]]
  <2>1. named \subseteq Allocs
    BY <1>1 DEF v, selected, IsValue, AreAllocations, IsPartial
  <2>2. /\ IsPartial(lines, Allocs, Line) /\ DOMAIN lines = named
        /\ \A a \in named : lines[a].quantity = difference(v, l, a, how)
    BY <1>8, <2>1, DeliveriesAssumption DEF IsPartial, Line
  <2>3. Disposes(e, l, how, lines, c)
    BY DEF e, disposition, evidence, Disposes
  <2> HIDE DEF lines
  <2>4. IsPartial(lines, Allocs, Line) /\ l \in Legs
    BY <1>1, <2>2
  <2>5. IsEvent(e) /\ e.leg = l /\ e.resolution = how /\ e.lines = lines
    BY <2>3, <2>4, DispositionTyped
  <2> QED
    BY <2>2, <2>5
<1> QED
  BY <1>2, <1>7, <1>9 DEF e, v

\* event_accept keeps the books.
LEMMA AcceptStep ==
  ASSUME Sound, NEW d \in Deliveries, NEW l \in DOMAIN deliveries[d].legs,
         NEW named \in SUBSET selected(deliveries[d], l), event_accept(d, l, named)
  PROVE  Books
<1> DEFINE e == disposition(deliveries[d], l, "accept", named, None)
<1>1. /\ settles(d, l, "accept", named, None) /\ UNCHANGED shipments
      /\ save(d, recorded(d, e))
  BY DEF event_accept
<1>2. /\ IsEvent(e) /\ e.leg = l
      /\ deliveries[d].legs[l].status \in Executed \cup {"released"}
  BY <1>1, SettlesTyped
<1> HIDE DEF e
<1> QED
  BY <1>1, <1>2, RecordStep

\* A follow-up is a value that holds nothing and names its disposition.
LEMMA ChildTyped ==
  ASSUME NEW v, IsValue(v), NEW d \in Deliveries, NEW n \in Nat, NEW e, IsEvent(e),
         e.leg \in DOMAIN v.legs, e.resolution \in {"redelivery", "return"},
         DOMAIN e.lines \subseteq DOMAIN v.allocs,
         \A a \in DOMAIN e.lines : e.lines[a].quantity \in 1..MaxQuantity
  PROVE  LET w == create_followup(v, d, n, e)
         IN  /\ IsValue(w) /\ active_allocations(w) = {}
             /\ w.parent = [kind |-> e.resolution, delivery |-> d, event |-> n]
             /\ w.events = <<>> /\ DOMAIN w.legs = {e.leg} /\ w.legs[e.leg].status = "draft"
<1> DEFINE l == e.leg
           legs == [k \in {l} |-> draft(Unscheduled[v.legs[k].plan])]
           allocs == [a \in DOMAIN e.lines |->
                       [shipment |-> v.allocs[a].shipment, path |-> <<l>>,
                        qty |-> [k \in {l} |-> e.lines[a].quantity]]]
           sources == [s \in {v.allocs[a].shipment : a \in DOMAIN e.lines} |-> v.sources[s]]
           parent == [kind |-> e.resolution, delivery |-> d, event |-> n]
           w == create_followup(v, d, n, e)
<1>1. /\ w \in [legs : {legs}, allocs : {allocs}, sources : {sources},
                events : {<<>>}, parent : {parent}, unpacked : {v.unpacked}]
      /\ w.legs = legs /\ w.allocs = allocs /\ w.sources = sources /\ w.events = <<>>
      /\ w.parent = parent
  BY DEF create_followup
<1>2. l \in Legs /\ v.legs[l].plan \in Plans
  BY DEF IsValue, AreLegs, IsPartial, IsLeg
<1>3. /\ AreLegs(legs) /\ DOMAIN legs = {l} /\ legs[l].status = "draft"
  <2>1. IsLeg(legs[l]) /\ legs[l].status = "draft"
    BY <1>2, DeliveriesAssumption DEF IsLeg, draft
  <2>2. DOMAIN legs = {l} /\ legs = [k \in {l} |-> legs[k]]
    OBVIOUS
  <2> HIDE DEF legs, l
  <2> QED
    BY <1>2, <2>1, <2>2 DEF AreLegs, IsPartial, Range
<1>4. AreAllocations(allocs, {l})
  <2>1. DOMAIN allocs \subseteq Allocs
    BY DEF IsValue, AreAllocations, IsPartial
  <2>2. ASSUME NEW a \in DOMAIN e.lines
        PROVE  IsAllocation(allocs[a]) /\ DOMAIN allocs[a].qty = {l}
    <3> DEFINE x == allocs[a]
               q == [k \in {l} |-> e.lines[a].quantity]
    <3>1. x = [shipment |-> v.allocs[a].shipment, path |-> <<l>>, qty |-> q]
      BY <2>2
    <3>2. v.allocs[a].shipment \in Shipments
      BY <2>2 DEF IsValue, AreAllocations, IsAllocation
    <3>3. q \in [{l} -> 1..MaxQuantity] /\ DOMAIN q = {l}
      BY <2>2
    <3>4. <<l>> \in Seq(Legs) /\ <<l>> # <<>> /\ DOMAIN <<l>> = {1} /\ Range(<<l>>) = {l}
      BY <1>2 DEF Range
    <3> HIDE DEF x, q, l
    <3>5. /\ x.path = <<l>> /\ x.qty = q /\ DOMAIN x.qty = {l}
          /\ x \in [shipment : Shipments, path : Seq(Legs), qty : [DOMAIN x.qty -> 1..MaxQuantity]]
      BY <3>1, <3>2, <3>3, <3>4
    <3>6. \A i, j \in DOMAIN x.path : ~(i < j)
      BY <3>4, <3>5
    <3>7. IsAllocation(x)
      BY <3>3, <3>4, <3>5, <3>6 DEF IsAllocation
    <3> QED
      BY <3>5, <3>7 DEF x
  <2>3. allocs = [a \in DOMAIN allocs |-> allocs[a]] /\ DOMAIN allocs = DOMAIN e.lines
    OBVIOUS
  <2> HIDE DEF allocs, l
  <2> QED
    BY <2>1, <2>2, <2>3 DEF AreAllocations, IsPartial, Range
<1>5. /\ IsPartial(sources, {allocs[a].shipment : a \in DOMAIN allocs}, Revisions)
      /\ \A a \in DOMAIN allocs : allocs[a].shipment \in DOMAIN sources
  <2>1. \A a \in DOMAIN e.lines : v.sources[v.allocs[a].shipment] \in Revisions
    BY DEF IsValue, IsPartial
  <2>2. /\ DOMAIN allocs = DOMAIN e.lines
        /\ \A a \in DOMAIN allocs : allocs[a].shipment = v.allocs[a].shipment
    OBVIOUS
  <2> HIDE DEF allocs
  <2> QED
    BY <2>1, <2>2 DEF IsPartial
<1>6. parent \in Parent /\ v.unpacked \in BOOLEAN
  BY DEF Parent, IsValue
<1>7. AreEvents(<<>>)
  BY DEF AreEvents, Range
<1>9. w.events = <<>> /\ DOMAIN w.legs = {l} /\ w.legs[l].status = "draft"
  BY <1>1, <1>3
<1> HIDE DEF w, legs, allocs, sources, parent, l
<1>8. IsValue(w)
  BY <1>1, <1>3, <1>4, <1>5, <1>6, <1>7 DEF IsValue
<1>10. active_allocations(w) = {}
  BY <1>1, <1>3, <1>4 DEF active_allocations, AreAllocations, RESERVED
<1> QED
  BY <1>1, <1>8, <1>9, <1>10 DEF w, parent, l

\* recs has event e recorded in d, and a new draft c that e opened.
Followed(recs, d, e, c) ==
  /\ recs = [[deliveries EXCEPT ![d] = recorded(d, e)] EXCEPT ![c] = recs[c]]
  /\ c # d /\ deliveries[c] = NoDelivery
  /\ \E n \in DOMAIN recorded(d, e).events :
       /\ recorded(d, e).events[n] = e
       /\ recs[c].parent = [kind |-> e.resolution, delivery |-> d, event |-> n]
  /\ recs[c].events = <<>>
  /\ DOMAIN recs[c].legs = {e.leg} /\ recs[c].legs[e.leg].status = "draft"

\* That is what event_followup saves.
LEMMA FollowupTyped ==
  ASSUME Sound, NEW d \in Deliveries, NEW l \in DOMAIN deliveries[d].legs,
         NEW how \in {"redelivery", "return"},
         NEW named \in SUBSET selected(deliveries[d], l), NEW c \in Deliveries,
         event_followup(d, l, how, named, c)
  PROVE  \E recs : /\ Typed(recs) /\ Linked(recs) /\ save_all(recs, d) /\ UNCHANGED shipments
                   /\ \A x \in Deliveries : Yields(recs[x], deliveries[x])
                   /\ Followed(recs, d, disposition(deliveries[d], l, how, named, c), c)
<1> DEFINE v == deliveries[d]
           e == disposition(v, l, how, named, c)
           n == Len(v.events) + 1
           w == recorded(d, e)
           child == create_followup(v, d, n, e)
           recs == [deliveries EXCEPT ![d] = w, ![c] = child]
           half == [deliveries EXCEPT ![d] = w]
<1>1. /\ deliveries[c] = NoDelivery /\ settles(d, l, how, named, c) /\ UNCHANGED shipments
      /\ save_all(recs, d)
  BY DEF event_followup
<1>2. Typed(deliveries) /\ Linked(deliveries) /\ IsValue(v)
  BY TypeOKTyped DEF Sound, Typed
<1>3. /\ IsEvent(e) /\ e.leg = l /\ e.resolution = how /\ DOMAIN e.lines = named
      /\ \A a \in named : e.lines[a].quantity \in 1..MaxQuantity
      /\ v.legs[l].status \in Executed \cup {"released"}
  BY <1>1, SettlesTyped
<1>4. c # d /\ DOMAIN deliveries[c].events = {}
  <2>1. DOMAIN NoDelivery.legs = {} /\ DOMAIN NoDelivery.events = {}
    BY DEF NoDelivery
  <2> QED
    BY <1>1, <2>1
<1> HIDE DEF e
<1>5. /\ IsValue(w) /\ Continues(w, v) /\ Yields(w, v)
      /\ n \in Nat /\ n \in DOMAIN w.events /\ w.events[n] = e
      /\ l \in DOMAIN w.legs /\ w.legs[l].status \in Executed
  BY <1>2, <1>3, RecordedTyped
<1> HIDE DEF w
<1>6. /\ IsValue(child) /\ active_allocations(child) = {}
      /\ child.parent = [kind |-> how, delivery |-> d, event |-> n]
      /\ child.events = <<>> /\ DOMAIN child.legs = {l} /\ child.legs[l].status = "draft"
  <2>1. named \subseteq DOMAIN v.allocs
    BY DEF selected
  <2> HIDE DEF v, n
  <2> QED
    BY <1>2, <1>3, <1>5, <2>1, ChildTyped DEF v
<1> HIDE DEF child, n
<1>7. /\ Typed(half) /\ half[d] = w
      /\ \A x \in Deliveries : x # d => half[x] = deliveries[x]
  BY <1>2, <1>5, TypedUpdate
<1>8. recs = [half EXCEPT ![c] = child]
  BY DEF half
<1> HIDE DEF half, recs
<1>9. /\ Typed(recs) /\ recs[c] = child
      /\ \A x \in Deliveries : x # c => recs[x] = half[x]
  <2> DEFINE both == [half EXCEPT ![c] = child]
  <2>1. /\ Typed(both) /\ both[c] = child
        /\ \A x \in Deliveries : x # c => both[x] = half[x]
    BY <1>6, <1>7, TypedUpdate
  <2> QED
    BY <1>8, <2>1
<1>10. /\ recs[c] = child /\ recs[d] = w
       /\ \A x \in Deliveries : x # c /\ x # d => recs[x] = deliveries[x]
  BY <1>4, <1>7, <1>9
<1>11. Linked(recs)
  <2> SUFFICES ASSUME NEW y \in Deliveries, recs[y].parent.kind # "none" PROVE LinkOK(recs, y)
    BY DEF Linked, LinkOK
  <2>1. CASE y = c
    <3>1. recs[y].parent.delivery = d /\ recs[y].parent.event = n
      BY <1>6, <1>10, <2>1
    <3> QED
      BY <1>3, <1>5, <1>10, <3>1 DEF LinkOK, part_of
  <2>2. CASE y # c
    <3> DEFINE p == deliveries[y].parent.delivery
               m == deliveries[y].parent.event
               k == deliveries[p].events[m].leg
    <3>1. recs[y].parent = deliveries[y].parent
      BY <1>5, <1>10, <2>2 DEF Continues
    <3>2. /\ p \in Deliveries /\ m \in DOMAIN deliveries[p].events /\ k \in DOMAIN deliveries[p].legs
          /\ deliveries[p].legs[k].status \in Executed
      BY <1>2, <3>1 DEF Linked, LinkOK, part_of
    <3>3. recs[y].parent.delivery = p /\ recs[y].parent.event = m
      BY <3>1
    <3> HIDE DEF p, m
    <3>4. p # c
      BY <1>4, <3>2
    <3>5. /\ m \in DOMAIN recs[p].events /\ recs[p].events[m].leg = k
          /\ k \in DOMAIN recs[p].legs /\ recs[p].legs[k].status \in Executed
      BY <1>5, <1>10, <3>2, <3>4 DEF Continues
    <3> QED
      BY <3>2, <3>3, <3>5 DEF LinkOK, part_of
  <2> QED
    BY <2>1, <2>2
<1>12. \A x \in Deliveries : Yields(recs[x], deliveries[x])
  BY <1>5, <1>6, <1>10 DEF Yields
<1>13. recs = [[deliveries EXCEPT ![d] = recorded(d, e)] EXCEPT ![c] = recs[c]]
  BY <1>8, <1>9 DEF half, w
<1>14. Followed(recs, d, e, c)
  BY <1>1, <1>3, <1>4, <1>5, <1>6, <1>9, <1>13 DEF w, Followed
<1> QED
  BY <1>1, <1>9, <1>11, <1>12, <1>14 DEF e

\* event_followup keeps the books: the new delivery holds nothing.
LEMMA FollowupStep ==
  ASSUME Sound, NEW d \in Deliveries, NEW l \in DOMAIN deliveries[d].legs,
         NEW how \in {"redelivery", "return"},
         NEW named \in SUBSET selected(deliveries[d], l), NEW c \in Deliveries,
         event_followup(d, l, how, named, c)
  PROVE  Books
<1>1. PICK recs : /\ Typed(recs) /\ Linked(recs) /\ save_all(recs, d) /\ UNCHANGED shipments
                  /\ \A x \in Deliveries : Yields(recs[x], deliveries[x])
  BY FollowupTyped
<1> QED
  BY <1>1, QuietSave

\* w has one event more than v.
Appended(w, v, e) ==
  \E n \in Nat : /\ DOMAIN v.events = 1..n /\ DOMAIN w.events = 1..(n + 1)
                 /\ \A i \in DOMAIN v.events : w.events[i] = v.events[i]
                 /\ w.events[n + 1] = e

\* What event_unpack and event_unload save: one note more, on a draft of a
\* follow-up or on a leg that has started.
LEMMA NoteTyped ==
  ASSUME Sound, NEW d \in Deliveries, NEW l \in DOMAIN deliveries[d].legs,
         event_unpack(d, l) \/ event_unload(d, l)
  PROVE  LET v == deliveries[d]
         IN  \E w, e :
               /\ IsValue(w) /\ IsEvent(e) /\ Appended(w, v, e) /\ save(d, w) /\ UNCHANGED shipments
               /\ w.legs = v.legs /\ w.allocs = v.allocs /\ w.sources = v.sources
               /\ w.parent = v.parent
               /\ e.leg = l /\ e.states = e.kind /\ e.corrects = 0
               /\ \/ e.kind = "unpack" /\ v.parent.kind # "none" /\ v.legs[l].status = "draft"
                  \/ e.kind = "unload" /\ w.unpacked = v.unpacked /\ v.legs[l].status \in Executed
<1> DEFINE v == deliveries[d]
           whole == [a \in selected(v, l) |->
                      [quantity |-> v.allocs[a].qty[l], damaged |-> 0, refused |-> 0]]
           nothing == [a \in selected(v, l) |-> [quantity |-> 0, damaged |-> 0, refused |-> 0]]
<1>1. IsValue(v) /\ l \in Legs
  BY DEF Sound, TypeOK, IsValue, AreLegs, IsPartial
<1>2. IsPartial(whole, Allocs, Line) /\ IsPartial(nothing, Allocs, Line)
  <2>1. \A a \in selected(v, l) : a \in Allocs /\ v.allocs[a].qty[l] \in 1..MaxQuantity
    BY <1>1 DEF selected, IsValue, AreAllocations, IsPartial, IsAllocation
  <2> HIDE DEF v
  <2> QED
    BY <2>1, DeliveriesAssumption DEF IsPartial, Line
<1>3. ASSUME NEW kind \in {"unpack", "unload"}, NEW lines, IsPartial(lines, Allocs, Line)
      PROVE  LET e == evidence(l, kind, lines)
             IN  IsEvent(e) /\ e.leg = l /\ e.kind = kind /\ e.states = kind /\ e.corrects = 0
  BY <1>1, <1>3, EvidenceTyped DEF evidence
<1>4. ASSUME NEW e, IsEvent(e)
      PROVE  LET u == [v EXCEPT !.events = Append(v.events, e)]
             IN  /\ IsValue(u) /\ Appended(u, v, e) /\ u.legs = v.legs /\ u.allocs = v.allocs
                 /\ u.sources = v.sources /\ u.parent = v.parent /\ u.unpacked = v.unpacked
  <2> DEFINE u == [v EXCEPT !.events = Append(v.events, e)]
             n == Len(v.events)
  <2>1. /\ IsValue(u) /\ u.legs = v.legs /\ u.allocs = v.allocs
        /\ u.sources = v.sources /\ u.parent = v.parent /\ u.unpacked = v.unpacked
        /\ n \in Nat /\ DOMAIN v.events = 1..n /\ DOMAIN u.events = 1..(n + 1)
        /\ u.events[n + 1] = e /\ \A i \in DOMAIN v.events : u.events[i] = v.events[i]
    BY <1>1, <1>4, AppendedTyped
  <2> HIDE DEF u, n
  <2>2. Appended(u, v, e)
    BY <2>1 DEF Appended
  <2> QED
    BY <2>1, <2>2 DEF u
<1>5. CASE event_unload(d, l)
  <2> DEFINE e == evidence(l, "unload", nothing)
             u == [v EXCEPT !.events = Append(v.events, e)]
  <2>1. save(d, u) /\ UNCHANGED shipments /\ v.legs[l].status \in Executed
    BY <1>5 DEF event_unload
  <2>2. IsEvent(e) /\ e.leg = l /\ e.kind = "unload" /\ e.states = "unload" /\ e.corrects = 0
    BY <1>2, <1>3
  <2> HIDE DEF e, v
  <2>3. /\ IsValue(u) /\ Appended(u, v, e) /\ u.legs = v.legs /\ u.allocs = v.allocs
        /\ u.sources = v.sources /\ u.parent = v.parent /\ u.unpacked = v.unpacked
    BY <1>4, <2>2
  <2> HIDE DEF u
  <2> QED
    BY <2>1, <2>2, <2>3 DEF v
<1>6. CASE event_unpack(d, l)
  <2> DEFINE e == evidence(l, "unpack", whole)
             u == [v EXCEPT !.events = Append(v.events, e)]
             w == [v EXCEPT !.unpacked = TRUE, !.events = Append(v.events, e)]
  <2>1. save(d, w) /\ UNCHANGED shipments /\ v.parent.kind # "none" /\ v.legs[l].status = "draft"
    BY <1>6 DEF event_unpack
  <2>2. IsEvent(e) /\ e.leg = l /\ e.kind = "unpack" /\ e.states = "unpack" /\ e.corrects = 0
    BY <1>2, <1>3
  <2> HIDE DEF e, v
  <2>3. /\ IsValue(u) /\ Appended(u, v, e) /\ u.legs = v.legs /\ u.allocs = v.allocs
        /\ u.sources = v.sources /\ u.parent = v.parent
    BY <1>4, <2>2
  <2>4. w = [u EXCEPT !.unpacked = TRUE]
    BY <1>1 DEF IsValue
  <2> HIDE DEF u, w
  <2>5. /\ w.events = u.events /\ w.legs = u.legs /\ w.allocs = u.allocs
        /\ w.sources = u.sources /\ w.parent = u.parent
        /\ w \in [legs : {w.legs}, allocs : {w.allocs}, sources : {w.sources},
                  events : {w.events}, parent : Parent, unpacked : BOOLEAN]
    BY <2>3, <2>4 DEF IsValue
  <2>6. IsValue(w) /\ Appended(w, v, e)
    BY <2>3, <2>5 DEF IsValue, Appended
  <2> QED
    BY <2>1, <2>2, <2>3, <2>5, <2>6 DEF v
<1> QED
  BY <1>5, <1>6

\* Neither note disturbs the books.
LEMMA NoteStep ==
  ASSUME Sound, NEW d \in Deliveries, NEW l \in DOMAIN deliveries[d].legs,
         event_unpack(d, l) \/ event_unload(d, l)
  PROVE  Books
<1> DEFINE v == deliveries[d]
<1>1. PICK w, e : /\ IsValue(w) /\ Appended(w, v, e) /\ save(d, w) /\ UNCHANGED shipments
                  /\ w.legs = v.legs /\ w.allocs = v.allocs /\ w.sources = v.sources
                  /\ w.parent = v.parent
  BY NoteTyped
<1> HIDE DEF v
<1>2. Continues(w, v)
  BY <1>1 DEF Continues, Appended
<1>3. Yields(w, v)
  BY <1>1 DEF Yields, active_allocations, reserved_quantity
<1> QED
  BY <1>1, <1>2, <1>3, QuietStep DEF v

-----------------------------------------------------------------------------
(* The invariants *)

\* What a planner can send is accepted by the validator.
LEMMA EditsTyped ==
  ASSUME Sound, NEW d \in Deliveries, NEW p \in edits(deliveries[d])
  PROVE  IsDeliveryIn(p)
<1>1. CASE p \in Payloads
  BY <1>1, DeliveriesAssumption
<1>2. CASE p \notin Payloads
  <2> DEFINE v == deliveries[d]
  <2>1. PICK plans \in [DOMAIN v.legs -> Plans] : p = [legs |-> plans, allocs |-> v.allocs]
    BY <1>2 DEF edits
  <2>2. p.legs = plans /\ p.allocs = v.allocs /\ DOMAIN plans = DOMAIN v.legs
    BY <2>1
  <2>3. IsValue(v)
    BY DEF Sound, TypeOK
  <2> HIDE DEF v
  <2>4. AreAllocations(v.allocs, DOMAIN v.legs) /\ DOMAIN v.legs \subseteq Legs
    BY <2>3 DEF IsValue, AreLegs, IsPartial
  <2> QED
    BY <2>1, <2>2, <2>4 DEF IsDeliveryIn, IsPartial
<1> QED
  BY <1>1, <1>2

\* Every request on a delivery keeps the books.
LEMMA DeliveriesStep ==
  ASSUME Sound, NEW d \in Deliveries,
         planning(d) \/ \E l \in DOMAIN deliveries[d].legs : action(d, l) \/ event(d, l)
  PROVE  Books
<1>1. CASE planning(d)
  <2>1. CASE \E p \in Payloads : create(d, p)
    BY <2>1, CreateStep, DeliveriesAssumption
  <2>2. CASE \E p \in edits(deliveries[d]) : edit(d, p)
    BY <2>2, EditsTyped, EditStep
  <2> QED
    BY <1>1, <2>1, <2>2 DEF planning
<1>2. ASSUME NEW l \in DOMAIN deliveries[d].legs, action(d, l)
      PROVE  Books
  BY <1>2, PlanStep, OfficeStep DEF action
<1>3. ASSUME NEW l \in DOMAIN deliveries[d].legs, event(d, l)
      PROVE  Books
  <2>1. CASE \E kind \in {"load", "receipt"}, lines \in named_lines(deliveries[d], l) :
               event_register(d, l, kind, lines)
    BY <2>1, RegisterStep
  <2>2. CASE \E target \in DOMAIN deliveries[d].events : \E lines \in named_lines(deliveries[d], l) :
               event_correct(d, l, target, lines)
    BY <2>2, CorrectStep
  <2>3. CASE \E named \in (SUBSET selected(deliveries[d], l)) \ {{}} : event_accept(d, l, named)
    BY <2>3, AcceptStep
  <2>4. CASE \E named \in (SUBSET selected(deliveries[d], l)) \ {{}} :
               \E how \in {"redelivery", "return"}, c \in Deliveries :
                 event_followup(d, l, how, named, c)
    BY <2>4, FollowupStep
  <2>5. CASE event_unpack(d, l)
    BY <2>5, NoteStep
  <2>6. CASE event_unload(d, l)
    BY <2>6, NoteStep
  <2> QED
    BY <1>3, <2>1, <2>2, <2>3, <2>4, <2>5, <2>6 DEF event
<1> QED
  BY <1>1, <1>2, <1>3

\* Goods are held only of shipments that are kept.
LEMMA HeldKept ==
  ASSUME Sound, NEW s \in Shipments, held(deliveries, s) # {}
  PROVE  shipments[s] \in Revisions
<1>1. PICK u \in held(deliveries, s) : TRUE
  OBVIOUS
<1>2. /\ u[1] \in Deliveries /\ u[2] \in active_allocations(deliveries[u[1]])
      /\ deliveries[u[1]].allocs[u[2]].shipment = s
  BY DEF held
<1> DEFINE v == deliveries[u[1]]
<1>3. v.sources[s] = shipments[s]
  BY <1>2 DEF Sound, SourceIntact
<1>4. IsValue(v) /\ u[2] \in DOMAIN v.allocs /\ v.allocs[u[2]].shipment = s
  BY <1>2 DEF Sound, TypeOK, active_allocations
<1> HIDE DEF v
<1>5. v.sources[s] \in Revisions
  BY <1>4 DEF IsValue, IsPartial
<1> QED
  BY <1>3, <1>5

\* A shipment that guard_source lets go has no units held.
LEMMA Unguarded ==
  ASSUME Sound, NEW s \in Shipments, shipments[s] = None \/ guard_source(s)
  PROVE  /\ held(deliveries, s) = {}
         /\ \A d \in Deliveries : \A a \in active_allocations(deliveries[d]) :
              deliveries[d].allocs[a].shipment # s
<1>1. guard_source(s)
  <2>1. CASE shipments[s] = None
    <3> SUFFICES ASSUME NEW d \in Deliveries, NEW a \in active_allocations(deliveries[d]),
                        deliveries[d].allocs[a].shipment = s
                 PROVE  FALSE
      BY DEF guard_source
    <3> DEFINE v == deliveries[d]
    <3>1. v.sources[s] = None
      BY <2>1 DEF Sound, SourceIntact
    <3>2. IsValue(v) /\ a \in DOMAIN v.allocs /\ v.allocs[a].shipment = s
      BY DEF Sound, TypeOK, active_allocations
    <3> HIDE DEF v
    <3>3. v.sources[s] \in Revisions
      BY <3>2 DEF IsValue, IsPartial
    <3> QED
      BY <3>1, <3>3, DeliveriesAssumption
  <2> QED
    BY <2>1
<1> QED
  BY <1>1 DEF guard_source, held

\* A shipment none of whose goods are held takes other contents.
LEMMA RetentionStep ==
  ASSUME Sound, NEW s \in Shipments, NEW r \in Revisions \cup {None},
         shipments[s] = None \/ guard_source(s),
         shipments' = [shipments EXCEPT ![s] = r], UNCHANGED deliveries
  PROVE  /\ Sound' /\ held(deliveries, s) = {}
         /\ \A x \in Shipments : x # s => shipments'[x] = shipments[x]
<1>1. TypeOK' /\ \A x \in Shipments : x # s => shipments'[x] = shipments[x]
  BY DEF Sound, TypeOK
<1>2. /\ held(deliveries, s) = {}
      /\ \A d \in Deliveries : \A a \in active_allocations(deliveries[d]) :
           deliveries[d].allocs[a].shipment # s
  BY Unguarded
<1>3. SourceIntact'
  <2>1. \A d \in Deliveries : \A a \in active_allocations(deliveries[d]) :
          /\ deliveries[d].allocs[a].shipment \in Shipments
          /\ deliveries[d].sources[deliveries[d].allocs[a].shipment]
               = shipments[deliveries[d].allocs[a].shipment]
    BY DEF Sound, SourceIntact, TypeOK, IsValue, AreAllocations, IsAllocation, active_allocations
  <2> QED
    BY <1>1, <1>2, <2>1 DEF SourceIntact
<1>4. Linked(deliveries)'
  BY DEF Sound
<1> QED
  BY <1>1, <1>2, <1>3, <1>4 DEF Sound

\* An id that is not in use holds nothing and continues nothing.
LEMMA EmptyValue ==
  IsValue(NoDelivery) /\ active_allocations(NoDelivery) = {} /\ NoDelivery.parent.kind = "none"
<1>1. /\ NoDelivery.legs = <<>> /\ NoDelivery.allocs = <<>> /\ NoDelivery.sources = <<>>
      /\ NoDelivery.events = <<>> /\ NoDelivery.parent = NoParent
      /\ NoDelivery \in [legs : {<<>>}, allocs : {<<>>}, sources : {<<>>},
                         events : {<<>>}, parent : {NoParent}, unpacked : {FALSE}]
  BY DEF NoDelivery
<1>2. NoParent \in Parent /\ NoParent.kind = "none"
  BY DEF NoParent, Parent
<1>3. \A S, T : IsPartial(<<>>, S, T)
  <2> TAKE S, T
  <2>1. DOMAIN <<>> = {} /\ <<>> = [x \in {} |-> x]
    OBVIOUS
  <2> QED
    BY <2>1 DEF IsPartial
<1>4. AreEvents(<<>>) /\ AreLegs(<<>>) /\ AreAllocations(<<>>, {})
  BY <1>3 DEF AreEvents, AreLegs, AreAllocations, Range
<1> DEFINE v == NoDelivery
<1>5. IsValue(v)
  <2>1. DOMAIN v.legs = {} /\ DOMAIN v.allocs = {} /\ DOMAIN v.sources = {}
    BY <1>1
  <2>2. v \in [legs : {v.legs}, allocs : {v.allocs}, sources : {v.sources},
              events : {v.events}, parent : Parent, unpacked : BOOLEAN]
    BY <1>1, <1>2
  <2>3. /\ AreLegs(v.legs) /\ AreAllocations(v.allocs, DOMAIN v.legs) /\ AreEvents(v.events)
        /\ \A S, T : IsPartial(v.sources, S, T)
    BY <1>1, <1>3, <1>4, <2>1
  <2> HIDE DEF v
  <2> QED
    BY <2>1, <2>2, <2>3 DEF IsValue
<1>6. active_allocations(v) = {}
  BY <1>1 DEF active_allocations
<1> QED
  BY <1>1, <1>2, <1>5, <1>6

-----------------------------------------------------------------------------
(* The inductive invariant *)

IInv == Sound /\ NoOverallocation

\* The inductive invariant holds initially.
LEMMA InitIInv == Init => IInv
<1> SUFFICES ASSUME Init PROVE IInv
  OBVIOUS
<1>1. \A d \in Deliveries : deliveries[d] = NoDelivery
  BY DEF Init
<1>2. TypeOK
  BY <1>1, EmptyValue DEF Init, TypeOK, Range
<1>3. Linked(deliveries)
  BY <1>1, EmptyValue DEF Linked, LinkOK
<1>4. SourceIntact
  BY <1>1, EmptyValue DEF SourceIntact
<1>5. NoOverallocation
  BY <1>1, EmptyValue DEF NoOverallocation, held
<1> QED
  BY <1>2, <1>3, <1>4, <1>5 DEF IInv, Sound

\* Steps that keep the books do not overallocate.
LEMMA BooksFits ==
  ASSUME IInv, Books
  PROVE  NoOverallocation'
<1> SUFFICES ASSUME NEW s \in Shipments, held(deliveries', s) # {}
             PROVE  Cardinality(held(deliveries', s)) <= Stock[s][shipments[s]]
  BY DEF NoOverallocation, Books
<1>1. CASE Covered(deliveries', s)
  BY <1>1 DEF Covered
<1>2. CASE held(deliveries', s) \subseteq held(deliveries, s)
  <2> DEFINE new == held(deliveries', s)
             old == held(deliveries, s)
  <2>1. old # {}
    BY <1>2
  <2>2. IsFiniteSet(old)
    BY HeldFinite
  <2>3. Cardinality(old) <= Stock[s][shipments[s]] /\ shipments[s] \in Revisions
    BY <2>1, HeldKept DEF IInv, NoOverallocation
  <2>4. Stock[s][shipments[s]] \in Nat
    BY <2>3, DeliveriesAssumption
  <2> HIDE DEF new, old
  <2>5. Cardinality(new) <= Cardinality(old) /\ IsFiniteSet(new)
    BY <1>2, <2>2, FS_Subset DEF new, old
  <2>6. Cardinality(new) \in Nat /\ Cardinality(old) \in Nat
    BY <2>2, <2>5, FS_CardinalityType
  <2>7. Cardinality(new) <= Stock[s][shipments[s]]
    BY <2>3, <2>4, <2>5, <2>6
  <2> QED
    BY <2>7 DEF new
<1> QED
  BY <1>1, <1>2 DEF Books

\* What a step does, as far as the ledger can tell.
LEMMA NextSteps ==
  ASSUME IInv, Next
  PROVE  \/ Books
         \/ \E s \in Shipments : /\ Sound' /\ UNCHANGED deliveries /\ held(deliveries, s) = {}
                               /\ \E r \in Revisions \cup {None} : shipments' = [shipments EXCEPT ![s] = r]
         \/ UNCHANGED vars
         \/ discard_kept
<1> SUFFICES ASSUME ~discard_kept
             PROVE  \/ Books
                    \/ \E s \in Shipments :
                         /\ Sound' /\ UNCHANGED deliveries /\ held(deliveries, s) = {}
                         /\ \E r \in Revisions \cup {None} : shipments' = [shipments EXCEPT ![s] = r]
                    \/ UNCHANGED vars
  OBVIOUS
<1>1. Sound
  BY DEF IInv
<1>2. ASSUME NEW d \in Deliveries,
             planning(d) \/ \E l \in DOMAIN deliveries[d].legs : action(d, l) \/ event(d, l)
      PROVE  Books
  BY <1>1, <1>2, DeliveriesStep
<1>3. ASSUME NEW s \in Shipments, NEW r \in Revisions, keep(s, r)
      PROVE  \/ Sound' /\ UNCHANGED deliveries /\ held(deliveries, s) = {}
                /\ shipments' = [shipments EXCEPT ![s] = r]
             \/ UNCHANGED vars
  <2>1. CASE shipments[s] = r
    BY <1>1, <1>3, <2>1 DEF keep, vars, Sound, TypeOK
  <2>2. CASE shipments[s] # r
    <3>1. shipments[s] = None \/ guard_source(s)
      BY <1>3, <2>2 DEF keep
    <3> QED
      BY <1>1, <1>3, <3>1, RetentionStep DEF keep
  <2> QED
    BY <2>1, <2>2
<1>4. ASSUME NEW s \in Shipments, forget(s)
      PROVE  /\ Sound' /\ UNCHANGED deliveries /\ held(deliveries, s) = {}
             /\ shipments' = [shipments EXCEPT ![s] = None]
  BY <1>1, <1>4, RetentionStep DEF forget
<1> QED
  BY <1>2, <1>3, <1>4 DEF Next, retention

\* Every step keeps the inductive invariant.
LEMMA NextIInv == IInv /\ [Next]_vars => IInv'
<1> SUFFICES ASSUME IInv, [Next]_vars PROVE IInv'
  OBVIOUS
<1>1. CASE UNCHANGED vars
  BY <1>1 DEF vars, IInv, Sound, TypeOK, Linked, LinkOK, part_of, SourceIntact, NoOverallocation
<1>2. CASE Books
  BY <1>2, BooksFits DEF IInv, Books
<1>3. ASSUME NEW s \in Shipments, NEW r, Sound', UNCHANGED deliveries,
             held(deliveries, s) = {}, shipments' = [shipments EXCEPT ![s] = r]
      PROVE  IInv'
  <2>1. \A x \in Shipments : x # s => shipments'[x] = shipments[x]
    BY <1>3 DEF IInv, Sound, TypeOK
  <2>2. NoOverallocation'
    BY <1>3, <2>1 DEF IInv, NoOverallocation
  <2> QED
    BY <1>3, <2>2 DEF IInv
<1>4. CASE discard_kept
  <2>1. /\ \A d \in Deliveries : deliveries'[d] = NoDelivery
        /\ deliveries' = [d \in Deliveries |-> NoDelivery]
        /\ shipments' = [s \in Shipments |-> None]
    BY <1>4 DEF discard_kept
  <2>2. TypeOK'
    BY <2>1, EmptyValue DEF TypeOK, Range
  <2>3. Linked(deliveries)'
    BY <2>1, EmptyValue DEF Linked, LinkOK
  <2>4. SourceIntact'
    BY <2>1, EmptyValue DEF SourceIntact
  <2>5. NoOverallocation'
    BY <2>1, EmptyValue DEF NoOverallocation, held
  <2> QED
    BY <2>2, <2>3, <2>4, <2>5 DEF IInv, Sound
<1> QED
  BY <1>1, <1>2, <1>3, <1>4, NextSteps

-----------------------------------------------------------------------------
(* The theorems *)

\* The inductive invariant of the deliveries over kept shipments holds.
THEOREM Invariance == Spec => []IInv
BY InitIInv, NextIInv, PTL DEF Spec

\* The records keep their type: a delivery's itineraries stay within its legs
\* and every allocation has its snapshot.
THEOREM TypeCorrect == Spec => []TypeOK
<1>1. IInv => TypeOK
  BY DEF IInv, Sound
<1> QED
  BY <1>1, Invariance, PTL

\* Reserved, moving and moved goods keep the contents they were planned with.
THEOREM SourcesStayIntact == Spec => []SourceIntact
<1>1. IInv => SourceIntact
  BY DEF IInv, Sound
<1> QED
  BY <1>1, Invariance, PTL

\* All deliveries together never reserve more than a shipment has.
THEOREM NeverOverallocated == Spec => []NoOverallocation
<1>1. IInv => NoOverallocation
  BY DEF IInv
<1> QED
  BY <1>1, Invariance, PTL

-----------------------------------------------------------------------------
(* Refinement: every request is a step of the ledger *)

\* With nothing kept and nothing planned, nothing is taken.
LEMMA InitLedger == Init => Ledger!Init
<1> SUFFICES ASSUME Init PROVE Ledger!Init
  OBVIOUS
<1>1. \A s \in Shipments : held(deliveries, s) = {}
  BY EmptyValue DEF Init, held
<1> QED
  BY <1>1 DEF Init, Ledger!Init

\* Steps that keep the books are bookings of the ledger.
LEMMA BooksLedger ==
  ASSUME IInv, Books
  PROVE  Ledger!Book
<1>1. UNCHANGED shipments /\ Sound'
  BY DEF Books
<1>2. \A s \in Shipments : held(deliveries', s) \in SUBSET (Deliveries \X Allocs \X (1..MaxQuantity))
  BY DEF held
<1>3. ASSUME NEW s \in Shipments
      PROVE  held(deliveries', s) \subseteq held(deliveries, s) \/ Ledger!Fits(s, held(deliveries', s))
  <2> SUFFICES ASSUME ~ held(deliveries', s) \subseteq held(deliveries, s)
               PROVE  Ledger!Fits(s, held(deliveries', s))
    OBVIOUS
  <2>1. Covered(deliveries', s)
    BY DEF Books
  <2> QED
    BY <2>1 DEF Covered, Ledger!Fits, Cardinality, Ledger!Cardinality
<1> QED
  BY <1>1, <1>2, <1>3 DEF Ledger!Book

\* Every step is a step of the ledger or changes nothing it sees.
LEMMA NextLedger ==
  ASSUME IInv, [Next]_vars
  PROVE  [Ledger!Next]_<<shipments, [s \in Shipments |-> held(deliveries, s)]>>
<1>1. CASE UNCHANGED vars
  BY <1>1 DEF vars
<1>2. CASE Books
  BY <1>2, BooksLedger DEF Ledger!Next
<1>3. ASSUME NEW s \in Shipments, UNCHANGED deliveries, held(deliveries, s) = {},
             NEW r \in Revisions \cup {None}, shipments' = [shipments EXCEPT ![s] = r]
      PROVE  Ledger!Change(s)
  BY <1>3 DEF Ledger!Change
<1>4. CASE discard_kept
  <2>1. \A s \in Shipments : held(deliveries', s) = {}
    BY <1>4, EmptyValue DEF discard_kept, held
  <2> QED
    BY <1>4, <2>1 DEF discard_kept, Ledger!Clear, Ledger!Next
<1> QED
  BY <1>1, <1>2, <1>3, <1>4, NextSteps DEF Ledger!Next

\* The deliveries implement the ledger: requests that reserve fit, requests
\* that release only give back, and contents change while nothing is held.
THEOREM ImplementsTheLedger == Spec => ImplementsLedger
<1>1. Init => Ledger!Init
  BY InitLedger
<1>2. IInv /\ [Next]_vars =>
        [Ledger!Next]_<<shipments, [s \in Shipments |-> held(deliveries, s)]>>
  BY NextLedger
<1> QED
  BY <1>1, <1>2, Invariance, PTL DEF Spec, ImplementsLedger, Ledger!Spec
=============================================================================
