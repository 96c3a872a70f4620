----------------------------- MODULE Deliveries -----------------------------
(***************************************************************************)
(* Deliveries over kept shipments (services/deliveries.py,                 *)
(* services/delivery_followups.py and the parts of services/history.py     *)
(* that guard a shipment's contents).                                      *)
(*                                                                         *)
(* Every writing handler takes the inventory lock first and commits once,  *)
(* so one action is one accepted request; a refused request changes        *)
(* nothing and is not an action.  Who may send a request, stops, files and *)
(* the units a shipment was kept in are left out, times but for which plan *)
(* ends before which starts; quantities are whole units.                   *)
(***************************************************************************)
EXTENDS DeliveryValue

CONSTANTS
  Shipments, Deliveries, Legs, Allocs, \* identifiers
  None,            \* no delivery, no review, no shipment
  Revisions,       \* the contents a kept shipment can have
  Stock,           \* Stock[s][r]: its goods quantity in revision r
  Dangerous,       \* the <<s, r>> that declare dangerous goods
  Plans,           \* the inputs of a leg, as the guards tell them apart:
  Placed,          \*   origin and destination are known
  Assigned,        \*   carrier and planned start are known
  Manual,          \*   the modal coverage needs a review
  Cleared,         \*   mass, capacity and checks raise no refusal
  Fresh,           \* the ids create gives; follow-ups may take any id
  Box,             \* Box[p]: its load unit, None when it has none
  Equipment,       \* Equipment[p]: what else it uses
  Before,          \* the <<p, q>> where p is planned to end before q starts
  Unscheduled,     \* Unscheduled[p]: p without times, equipment and box
  Payloads,        \* the deliveries the planners send
  Lines,           \* the quantities an execution line can state
  MaxEvents        \* bound: the events of one delivery

\* f is a function from some part of S into T.
IsPartial(f, S, T) == DOMAIN f \subseteq S /\ f \in [DOMAIN f -> T]

\* An allocation as the DeliveryIn validator accepts it: the itinerary visits
\* no leg twice and its quantities do not increase.
IsAllocation(x) ==
  /\ x \in [shipment : Shipments, path : Seq(Legs), qty : [DOMAIN x.qty -> 1..MaxQuantity]]
  /\ x.path # <<>> /\ DOMAIN x.qty = Range(x.path)
  /\ \A i, j \in DOMAIN x.path :
       i < j => x.path[i] # x.path[j] /\ x.qty[x.path[i]] >= x.qty[x.path[j]]

AreAllocations(allocs, legs) ==
  /\ IsPartial(allocs, Allocs, Range(allocs))
  /\ \A a \in DOMAIN allocs : IsAllocation(allocs[a]) /\ DOMAIN allocs[a].qty \subseteq legs

IsDeliveryIn(p) ==
  IsPartial(p.legs, Legs, Plans) /\ AreAllocations(p.allocs, DOMAIN p.legs)

Line == [quantity : 0..MaxQuantity, damaged : 0..MaxQuantity, refused : 0..MaxQuantity]

IsEvent(e) ==
  /\ IsPartial(e.lines, Allocs, Line)
  /\ e \in [kind       : {"load", "receipt", "correction", "resolution", "unpack", "unload"},
            leg        : Legs,
            lines      : {e.lines},
            corrects   : Nat,                            \* 0 unless a correction
            states     : {"load", "receipt", "unpack", "unload", "none"},
            resolution : {"accept", "redelivery", "return", "none"},
            child      : Deliveries \cup {None},         \* followup_id
            complete   : BOOLEAN]                        \* followup_complete

AreEvents(events) ==
  events \in Seq(Range(events)) /\ \A i \in DOMAIN events : IsEvent(events[i])

IsLeg(x) ==
  x \in [status : {"draft", "cancelled"} \cup RESERVED, plan : Plans, review : {x.review}]

AreLegs(legs) ==
  IsPartial(legs, Legs, Range(legs)) /\ \A l \in DOMAIN legs : IsLeg(legs[l])

Parent ==
  [kind : {"none", "redelivery", "return"}, delivery : Deliveries \cup {None}, event : Nat]

IsValue(v) ==
  /\ v \in [legs : {v.legs}, allocs : {v.allocs}, sources : {v.sources},
            events : {v.events}, parent : Parent, unpacked : BOOLEAN]
  /\ AreLegs(v.legs)
  /\ AreAllocations(v.allocs, DOMAIN v.legs)
  /\ AreEvents(v.events)
  /\ IsPartial(v.sources, {v.allocs[a].shipment : a \in DOMAIN v.allocs}, Revisions)
  /\ \A a \in DOMAIN v.allocs : v.allocs[a].shipment \in DOMAIN v.sources

NoParent == [kind |-> "none", delivery |-> None, event |-> 0]

\* An id that is not in use.  A delivery without legs holds nothing either.
NoDelivery ==
  [legs |-> <<>>, allocs |-> <<>>, sources |-> <<>>, events |-> <<>>,
   parent |-> NoParent, unpacked |-> FALSE]

ASSUME DeliveriesAssumption ==
  /\ IsFiniteSet(Deliveries) /\ IsFiniteSet(Allocs)
  /\ Fresh \subseteq Deliveries
  /\ None \notin Deliveries /\ None \notin Revisions
  /\ MaxQuantity \in Nat /\ MaxEvents \in Nat
  /\ Stock \in [Shipments -> [Revisions -> Nat]]
  /\ Unscheduled \in [Plans -> Plans]
  /\ \A p \in Payloads : IsDeliveryIn(p)
  /\ Lines \subseteq Line

VARIABLES
  shipments,   \* shipments[s]: the revision kept, None when there is none
  deliveries   \* deliveries[d]: the value of delivery d

vars == <<shipments, deliveries>>

-----------------------------------------------------------------------------
(* Sources and reservations *)

shipments_of(allocs) == {allocs[a].shipment : a \in DOMAIN allocs}

\* The snapshots load_sources takes; it refuses a shipment that is not kept.
load_sources(allocs) == [s \in shipments_of(allocs) |-> shipments[s]]

sources_kept(allocs) == \A s \in shipments_of(allocs) : shipments[s] # None

validate_sources(v) == \A s \in DOMAIN v.sources : shipments[s] = v.sources[s]

\* The units of shipment s that are reserved: <<d, a, n>> is the n-th unit of
\* allocation a of delivery d.
held(recs, s) ==
  {u \in Deliveries \X Allocs \X (1..MaxQuantity) :
     /\ u[2] \in active_allocations(recs[u[1]])
     /\ recs[u[1]].allocs[u[2]].shipment = s
     /\ u[3] <= reserved_quantity(recs[u[1]], u[2])}

\* The allocations of one delivery fit its snapshots, and an onward quantity
\* is less than the earlier one only after a settled receipt of just that much.
validate_quantities(v) ==
  /\ \A s \in shipments_of(v.allocs) :
       Cardinality({u \in (DOMAIN v.allocs) \X (1..MaxQuantity) :
                      v.allocs[u[1]].shipment = s /\ u[2] <= quantity(v.allocs[u[1]])})
         <= Stock[s][v.sources[s]]
  /\ \A a \in DOMAIN v.allocs : \A l \in DOMAIN v.allocs[a].qty :
       \A before \in previous(v, a, l) :
         v.allocs[a].qty[l] < v.allocs[a].qty[before] =>
           /\ v.legs[before].status \in {"completed", "closed"}
           /\ receipt_totals(v, before, a).quantity = v.allocs[a].qty[l]

\* A follow-up continues the load of the deliveries it descends from.
ancestors(v) ==
  {o \in Deliveries :
     \/ o = v.parent.delivery
     \/ v.parent.delivery # None /\ o = deliveries[v.parent.delivery].parent.delivery}

\* Leg l of v needs a load unit or equipment that leg m of o has not given up:
\* a load unit is held until it is known to be empty.
needs(v, l, o, m) ==
  LET mine == v.legs[l].plan
      theirs == o.legs[m].plan
  IN  \/ /\ Box[mine] # None /\ Box[mine] = Box[theirs]
         /\ selected(v, l) # {} /\ selected(o, m) # {}
         /\ o.legs[m].status \in RESERVED /\ ~emptied(o, m)
      \/ /\ Equipment[mine] \cap Equipment[theirs] # {}
         /\ o.legs[m].status \in Live

apart(v, l, o, m) ==
  <<v.legs[l].plan, o.legs[m].plan>> \in Before \/ <<o.legs[m].plan, v.legs[l].plan>> \in Before

\* Two legs that have not started may use one unit in turn.
separate(v, l, o, m) ==
  {v.legs[l].status, o.legs[m].status} \subseteq {"planned", "released"} /\ apart(v, l, o, m)

\* Mutant: only the legs that have started are asked.
units_free_moving(d, v) ==
  \A l \in DOMAIN v.legs : v.legs[l].status \in Live =>
    \A o \in Deliveries \ ({d} \cup ancestors(v)) : \A m \in DOMAIN deliveries[o].legs :
      deliveries[o].legs[m].status \in Executed => ~needs(v, l, deliveries[o], m)

\* No leg of v, as delivery d, needs what another delivery still holds.
units_free(d, v) ==
  \A l \in DOMAIN v.legs : v.legs[l].status \in Live =>
    \A o \in Deliveries \ ({d} \cup ancestors(v)) : \A m \in DOMAIN deliveries[o].legs :
      needs(v, l, deliveries[o], m) => separate(v, l, deliveries[o], m)

\* Mutant: the other deliveries are not asked.
reserve_alone(d, v) == validate_quantities(v)

\* The reservations of all deliveries together fit, with v as delivery d.
reserve(d, v) ==
  /\ validate_quantities(v)
  /\ units_free(d, v)
  /\ \A a \in active_allocations(v) :
       LET s == v.allocs[a].shipment
       IN  Cardinality(held([deliveries EXCEPT ![d] = v], s)) <= Stock[s][v.sources[s]]

-----------------------------------------------------------------------------
(* Saving: a follow-up reports its completion to the delivery it continues *)

part_of(recs, x) == recs[recs[x].parent.delivery].events[recs[x].parent.event].leg

reports(recs, x) ==
  LET link == recs[x].parent
  IN  /\ link.kind # "none"
      /\ recs[link.delivery].events[link.event].complete # complete(recs[x])

\* A closed leg accepts a late completion, never a completion taken back.
frozen(recs, x) ==
  recs[recs[x].parent.delivery].legs[part_of(recs, x)].status = "closed" /\ ~complete(recs[x])

\* Mutant: a completed leg is never opened again.
progress_forward(v, l) ==
  IF unresolved(v, l) = {} THEN [v EXCEPT !.legs[l].status = "completed"]
  ELSE [v EXCEPT !.legs[l].status = IF @ = "released" THEN "in_progress" ELSE @]

\* The status a leg takes from its evidence.
progress(v, l) ==
  [v EXCEPT !.legs[l].status = IF unresolved(v, l) = {} THEN "completed" ELSE "in_progress"]

\* Mutant: the leg of the disposition keeps its status.
sync_parent_told(recs, x) ==
  LET link == recs[x].parent
  IN  [recs EXCEPT ![link.delivery].events[link.event].complete = complete(recs[x])]

sync_parent(recs, x) ==
  LET link == recs[x].parent
      told == [recs[link.delivery] EXCEPT !.events[link.event].complete = complete(recs[x])]
  IN  [recs EXCEPT ![link.delivery] = progress(told, part_of(recs, x))]

\* Mutant: only the delivery the follow-up continues is told, not that one's own.
save_all_once(recs, d) ==
  IF ~reports(recs, d) THEN deliveries' = recs
  ELSE ~frozen(recs, d) /\ deliveries' = sync_parent(recs, d)

\* The follow-up of a follow-up is the longest chain (create_followup below),
\* so the recursion of sync_parent takes at most two steps.
save_all(recs, d) ==
  LET up   == recs[d].parent.delivery
      once == sync_parent(recs, d)
  IN  IF ~reports(recs, d) THEN deliveries' = recs
      ELSE /\ ~frozen(recs, d)
           /\ IF ~reports(once, up) THEN deliveries' = once
              ELSE ~frozen(once, up) /\ deliveries' = sync_parent(once, up)

save(d, v) == save_all([deliveries EXCEPT ![d] = v], d)

-----------------------------------------------------------------------------
(* Planning *)

draft(plan) == [status |-> "draft", plan |-> plan, review |-> None]

create(d, p) ==
  /\ deliveries[d] = NoDelivery
  /\ sources_kept(p.allocs)
  /\ LET v == [legs    |-> [l \in DOMAIN p.legs |-> draft(p.legs[l])],
               allocs  |-> p.allocs,
               sources |-> load_sources(p.allocs),
               events  |-> <<>>,
               parent  |-> NoParent,
               unpacked |-> FALSE]
     IN  validate_quantities(v) /\ save(d, v)
  /\ UNCHANGED shipments

\* The legs of p; one that is not a draft keeps its recorded state.
merged(v, p) ==
  [l \in DOMAIN p.legs |->
     IF l \in DOMAIN v.legs /\ v.legs[l].status # "draft"
     THEN [v.legs[l] EXCEPT !.plan = p.legs[l]]
     ELSE draft(p.legs[l])]

\* A follow-up keeps its leg, goods and sources.
preserve(v, w) ==
  v.parent.kind # "none" =>
    DOMAIN w.legs = DOMAIN v.legs /\ w.allocs = v.allocs /\ w.sources = v.sources

\* Mutant: a leg that is left out is not compared.
keeps_frozen_inputs(v, w) ==
  \A l \in DOMAIN v.legs \cap DOMAIN w.legs :
    v.legs[l].status # "draft" => fingerprint(w, l) = fingerprint(v, l)

\* A leg that is no longer a draft stays, with the same inputs and goods.
keeps_frozen(v, w) ==
  \A l \in DOMAIN v.legs :
    v.legs[l].status # "draft" => l \in DOMAIN w.legs /\ fingerprint(w, l) = fingerprint(v, l)

edit(d, p) ==
  LET v == deliveries[d]
      w == [v EXCEPT !.legs = merged(v, p), !.allocs = p.allocs,
                     !.sources = load_sources(p.allocs)]
  IN  /\ v # NoDelivery
      /\ sources_kept(p.allocs)
      /\ preserve(v, w)
      /\ keeps_frozen(v, w)
      /\ reserve(d, w)
      /\ save(d, w)
      /\ UNCHANGED shipments

-----------------------------------------------------------------------------
(* Office actions on leg l of delivery d *)

set_leg(d, l, leg) ==
  save(d, [deliveries[d] EXCEPT !.legs[l] = leg]) /\ UNCHANGED shipments

\* An earlier leg does not move under a leg that is already planned.
guard_following(v, l) ==
  \A a \in selected(v, l) : \A f \in following(v, a, l) :
    v.legs[f].status \in {"draft", "cancelled"}

manual_required(v, l) ==
  \/ v.legs[l].plan \in Manual
  \/ \E a \in selected(v, l) :
       <<v.allocs[a].shipment, v.sources[v.allocs[a].shipment]>> \in Dangerous

\* Mutant: the snapshot may be of other contents than those kept now.
plan_stale(d, l) ==
  LET v    == deliveries[d]
      next == [v.legs[l] EXCEPT !.status = "planned"]
  IN  /\ v.legs[l].status = "draft"
      /\ selected(v, l) # {}
      /\ v.legs[l].plan \in Placed
      /\ reserve(d, [v EXCEPT !.legs[l] = next])
      /\ set_leg(d, l, next)

plan(d, l) ==
  LET v    == deliveries[d]
      next == [v.legs[l] EXCEPT !.status = "planned"]
  IN  /\ v.legs[l].status = "draft"
      /\ selected(v, l) # {}
      /\ v.legs[l].plan \in Placed
      /\ validate_sources(v)
      /\ reserve(d, [v EXCEPT !.legs[l] = next])
      /\ set_leg(d, l, next)

\* Also "reopen", which the code treats alike.
unplan(d, l) ==
  LET v == deliveries[d]
  IN  /\ v.legs[l].status \in {"planned", "released"}
      /\ guard_following(v, l)
      /\ set_leg(d, l, draft(v.legs[l].plan))

review(d, l) ==
  LET v == deliveries[d]
  IN  /\ v.legs[l].status = "planned"
      /\ validate_sources(v)
      /\ v.legs[l].plan \in Cleared
      /\ set_leg(d, l, [v.legs[l] EXCEPT !.review = fingerprint(v, l)])

\* Mutant: a leg is reviewed only where its modality asks for it.
reviewed_modal(v, l) ==
  v.legs[l].plan \in Manual => v.legs[l].review = fingerprint(v, l)

reviewed(v, l) ==
  manual_required(v, l) => v.legs[l].review = fingerprint(v, l)

release(d, l) ==
  LET v == deliveries[d]
  IN  /\ v.legs[l].status = "planned"
      /\ v.legs[l].plan \in Assigned \cap Cleared
      /\ validate_sources(v)
      /\ reviewed(v, l)
      /\ set_leg(d, l, [v.legs[l] EXCEPT !.status = "released"])

start(d, l) ==
  LET v == deliveries[d]
  IN  /\ v.legs[l].status = "released"
      /\ validate_sources(v)
      /\ set_leg(d, l, [v.legs[l] EXCEPT !.status = "in_progress"])

cancel(d, l) ==
  LET v == deliveries[d]
  IN  /\ v.parent.kind = "none"
      /\ v.legs[l].status \in {"draft", "planned", "released"}
      /\ guard_following(v, l)
      /\ set_leg(d, l, [v.legs[l] EXCEPT !.status = "cancelled"])

close(d, l) ==
  LET v == deliveries[d]
  IN  /\ v.legs[l].status = "completed"
      /\ unresolved(v, l) = {}
      /\ set_leg(d, l, [v.legs[l] EXCEPT !.status = "closed"])

-----------------------------------------------------------------------------
(* Execution evidence on leg l of delivery d *)

evidence(l, kind, lines) ==
  [kind |-> kind, leg |-> l, lines |-> lines, corrects |-> 0, states |-> kind,
   resolution |-> "none", child |-> None, complete |-> FALSE]

\* Mutant: it is enough that the earlier leg is over.
arrived_status(v, l, a) ==
  \A before \in previous(v, a, l) : v.legs[before].status \in {"completed", "closed"}

\* The goods of a later leg have arrived on the leg before it.
arrived(v, l, a) ==
  \A before \in previous(v, a, l) :
    /\ v.legs[before].status \in {"completed", "closed"}
    /\ receipt_totals(v, before, a).quantity >= v.allocs[a].qty[l]

\* No more is received than loaded, or loaded than allocated.
consistent(v, l) ==
  \A a \in selected(v, l) :
    LET received == receipt_totals(v, l, a)
    IN  /\ load_total(v, l, a) <= v.allocs[a].qty[l]
        /\ received.quantity + received.refused <= load_total(v, l, a)
        /\ received.damaged <= received.quantity

\* The delivery with event e added.
recorded(d, e) ==
  progress([deliveries[d] EXCEPT !.events = Append(deliveries[d].events, e)], e.leg)

admissible(d, e) ==
  LET v == deliveries[d]
  IN  /\ Len(v.events) < MaxEvents
      /\ DOMAIN e.lines # {} /\ DOMAIN e.lines \subseteq selected(v, e.leg)
      /\ \A a \in DOMAIN e.lines : arrived(v, e.leg, a)
      /\ consistent(recorded(d, e), e.leg)

\* Later legs have not started on what a correction or disposition changes.
not_followed(v, l) ==
  \A a \in selected(v, l) : \A f \in following(v, a, l) : v.legs[f].status \notin Executed

event_register(d, l, kind, lines) ==
  LET e == evidence(l, kind, lines)
  IN  /\ deliveries[d].legs[l].status \in {"released", "in_progress"}
      /\ admissible(d, e)
      /\ save(d, recorded(d, e))
      /\ UNCHANGED shipments

\* Mutant: a statement that was corrected can be corrected once more.
correctable_again(v, l, target, lines) ==
  /\ v.events[target].leg = l /\ v.events[target].kind \notin {"resolution", "unpack", "unload"}
  /\ DOMAIN lines = DOMAIN v.events[target].lines
  /\ \A a \in DOMAIN lines : resolutions(v, l, a) = {}

\* The lines restate a statement in force whose goods have no disposition.
correctable(v, l, target, lines) ==
  /\ target \in effective_events(v, l) /\ v.events[target].kind \notin {"unpack", "unload"}
  /\ DOMAIN lines = DOMAIN v.events[target].lines
  /\ \A a \in DOMAIN lines : resolutions(v, l, a) = {}

event_correct(d, l, target, lines) ==
  LET v == deliveries[d]
      e == [evidence(l, "correction", lines) EXCEPT
              !.corrects = target, !.states = v.events[target].states]
  IN  /\ v.legs[l].status \in {"released", "in_progress", "completed"}
      /\ not_followed(v, l)
      /\ correctable(v, l, target, lines)
      /\ admissible(d, e)
      /\ save(d, recorded(d, e))
      /\ UNCHANGED shipments

\* Mutant: refused goods count as missing and as refused.
difference_twice(v, l, a, how) ==
  LET received == receipt_totals(v, l, a)
  IN  v.allocs[a].qty[l] - received.quantity + received.damaged + received.refused

\* What a disposition of kind "how" must state for allocation a.
difference(v, l, a, how) ==
  LET received == receipt_totals(v, l, a)
  IN  IF how = "return" THEN received.refused + received.damaged
      ELSE v.allocs[a].qty[l] - received.quantity + received.damaged

resolvable(v, l, a, how) ==
  LET received == receipt_totals(v, l, a)
  IN  /\ a \in unresolved(v, l)
      /\ resolutions(v, l, a) = {}
      /\ difference(v, l, a, how) > 0
      /\ how = "return" => v.allocs[a].qty[l] - received.quantity = received.refused
      /\ how = "redelivery" => received.damaged = 0
      /\ how # "accept" => destination(v.allocs[a]) = l

\* A disposition of the named allocations; all but "accept" open follow-up c.
disposition(v, l, how, named, c) ==
  [evidence(l, "resolution",
            [a \in named |-> [quantity |-> difference(v, l, a, how), damaged |-> 0, refused |-> 0]])
     EXCEPT !.states = "none", !.resolution = how, !.child = c]

settles(d, l, how, named, c) ==
  LET v == deliveries[d]
  IN  /\ v.legs[l].status \in {"released", "in_progress", "completed"}
      /\ not_followed(v, l)
      /\ \E i \in effective_events(v, l) : v.events[i].states = "receipt"
      /\ \A a \in named : resolvable(v, l, a, how)
      /\ admissible(d, disposition(v, l, how, named, c))

event_accept(d, l, named) ==
  /\ settles(d, l, "accept", named, None)
  /\ save(d, recorded(d, disposition(deliveries[d], l, "accept", named, None)))
  /\ UNCHANGED shipments

\* An unplanned attempt to move the goods of event e, the n-th of delivery d.
create_followup(v, d, n, e) ==
  [legs    |-> [l \in {e.leg} |-> draft(Unscheduled[v.legs[l].plan])],
   allocs  |-> [a \in DOMAIN e.lines |->
                  [shipment |-> v.allocs[a].shipment, path |-> <<e.leg>>,
                   qty      |-> [l \in {e.leg} |-> e.lines[a].quantity]]],
   sources |-> [s \in {v.allocs[a].shipment : a \in DOMAIN e.lines} |-> v.sources[s]],
   events  |-> <<>>,
   parent  |-> [kind |-> e.resolution, delivery |-> d, event |-> n],
   unpacked |-> v.unpacked]

\* Bound: a follow-up may itself need a follow-up, but that one may not.
may_follow(v) == v.parent.kind # "none" => deliveries[v.parent.delivery].parent.kind = "none"

event_followup(d, l, how, named, c) ==
  LET v == deliveries[d]
      e == disposition(v, l, how, named, c)
      n == Len(v.events) + 1
  IN  /\ deliveries[c] = NoDelivery
      /\ may_follow(v)
      /\ settles(d, l, how, named, c)
      /\ save_all([deliveries EXCEPT ![d] = recorded(d, e), ![c] = create_followup(v, d, n, e)], d)
      /\ UNCHANGED shipments

\* Records that the goods of a follow-up left their original packing.
event_unpack(d, l) ==
  LET v == deliveries[d]
      lines == [a \in selected(v, l) |->
                  [quantity |-> v.allocs[a].qty[l], damaged |-> 0, refused |-> 0]]
  IN  /\ v.parent.kind # "none" /\ ~v.unpacked
      /\ v.legs[l].status = "draft"
      /\ Len(v.events) < MaxEvents
      /\ \A s \in DOMAIN v.sources : <<s, v.sources[s]>> \notin Dangerous
      /\ save(d, [v EXCEPT !.unpacked = TRUE,
                          !.events = Append(v.events, evidence(l, "unpack", lines))])
      /\ UNCHANGED shipments

\* Records that the load unit of the leg is empty (delivery_unloading.register).
event_unload(d, l) ==
  LET v == deliveries[d]
      nothing == [a \in selected(v, l) |-> [quantity |-> 0, damaged |-> 0, refused |-> 0]]
  IN  /\ v.legs[l].status \in Executed
      /\ Box[v.legs[l].plan] # None /\ selected(v, l) # {}
      /\ Len(v.events) < MaxEvents
      /\ save(d, [v EXCEPT !.events = Append(v.events, evidence(l, "unload", nothing))])
      /\ UNCHANGED shipments

-----------------------------------------------------------------------------
(* Kept shipments *)

guard_source(s) ==
  \A d \in Deliveries : \A a \in active_allocations(deliveries[d]) :
    deliveries[d].allocs[a].shipment # s

\* Keeps shipment s, new or brought up to date, with contents r.
keep(s, r) ==
  /\ shipments[s] \notin {None, r} => guard_source(s)
  /\ shipments' = [shipments EXCEPT ![s] = r]
  /\ UNCHANGED deliveries

\* Mutant: nobody asks whether the goods are reserved.
forget_unguarded(s) ==
  /\ shipments[s] # None
  /\ shipments' = [shipments EXCEPT ![s] = None]
  /\ UNCHANGED deliveries

forget(s) ==
  /\ shipments[s] # None
  /\ guard_source(s)
  /\ shipments' = [shipments EXCEPT ![s] = None]
  /\ UNCHANGED deliveries

\* The administrator deletes all retained history.
discard_kept ==
  /\ deliveries' = [d \in Deliveries |-> NoDelivery]
  /\ shipments' = [s \in Shipments |-> None]

-----------------------------------------------------------------------------
(* The specification *)

\* What a planner can send for v: new contents, or its own goods replanned.
edits(v) ==
  Payloads \cup {[legs |-> plans, allocs |-> v.allocs] : plans \in [DOMAIN v.legs -> Plans]}

named_lines(v, l) ==
  UNION {[named -> Lines] : named \in (SUBSET selected(v, l)) \ {{}}}

planning(d) ==
  \/ d \in Fresh /\ \E p \in Payloads : create(d, p)
  \/ \E p \in edits(deliveries[d]) : edit(d, p)

action(d, l) ==
  \/ plan(d, l) \/ unplan(d, l) \/ review(d, l) \/ release(d, l)
  \/ start(d, l) \/ cancel(d, l) \/ close(d, l)

event(d, l) ==
  LET v == deliveries[d]
  IN  \/ \E kind \in {"load", "receipt"}, lines \in named_lines(v, l) :
           event_register(d, l, kind, lines)
      \/ \E target \in DOMAIN v.events : \E lines \in named_lines(v, l) :
           event_correct(d, l, target, lines)
      \/ \E named \in (SUBSET selected(v, l)) \ {{}} :
           \/ event_accept(d, l, named)
           \/ \E how \in {"redelivery", "return"}, c \in Deliveries :
                event_followup(d, l, how, named, c)
      \/ event_unpack(d, l)
      \/ event_unload(d, l)

retention ==
  \/ \E s \in Shipments : (\E r \in Revisions : keep(s, r)) \/ forget(s)
  \/ discard_kept

Init ==
  /\ shipments = [s \in Shipments |-> None]
  /\ deliveries = [d \in Deliveries |-> NoDelivery]

Next ==
  \/ \E d \in Deliveries :
       planning(d) \/ \E l \in DOMAIN deliveries[d].legs : action(d, l) \/ event(d, l)
  \/ retention

Spec == Init /\ [][Next]_vars

-----------------------------------------------------------------------------
(* Properties *)

TypeOK ==
  /\ shipments \in [Shipments -> Revisions \cup {None}]
  /\ deliveries \in [Deliveries -> Range(deliveries)]
  /\ \A d \in Deliveries : IsValue(deliveries[d])

\* Goods that are reserved, moving or moved keep the contents they were
\* planned with: the shipment is still kept, in the revision of the snapshot
\* (validate_sources, guard_source).
SourceIntact ==
  \A d \in Deliveries : \A a \in active_allocations(deliveries[d]) :
    LET s == deliveries[d].allocs[a].shipment
    IN  deliveries[d].sources[s] = shipments[s]

\* All deliveries together never reserve more of a shipment than it has
\* (reserve, "These goods are already reserved or delivered").
NoOverallocation ==
  \A s \in Shipments :
    held(deliveries, s) # {} => Cardinality(held(deliveries, s)) <= Stock[s][shipments[s]]

\* A leg that needs a review and is released or beyond carries one that was
\* made of exactly its present inputs, goods and sources (release, edit).
ReleaseReviewed ==
  \A d \in Deliveries : \A l \in DOMAIN deliveries[d].legs :
    LET v == deliveries[d]
    IN  v.legs[l].status \in Executed \cup {"released"} /\ manual_required(v, l) =>
          v.legs[l].review = fingerprint(v, l)

\* A leg in execution is completed or closed exactly when none of its goods
\* has an open difference, also after corrections and after a follow-up
\* reports or withdraws its completion (event, sync_parent, unresolved).
CompletionIsSettled ==
  \A d \in Deliveries : \A l \in DOMAIN deliveries[d].legs :
    LET v == deliveries[d]
    IN  v.legs[l].status \in Executed =>
          (v.legs[l].status = "in_progress" <=> unresolved(v, l) # {})

\* The disposition that opened a follow-up names it and knows whether it is
\* complete (create_followup, sync_parent), whatever chain it is part of.
FollowupsMirrored ==
  \A d \in Deliveries :
    LET link == deliveries[d].parent
    IN  link.kind # "none" =>
          LET e == deliveries[link.delivery].events[link.event]
          IN  e.child = d /\ e.resolution = link.kind /\ e.complete = complete(deliveries[d])

\* What a later leg loads has been received on the leg before it, however
\* both are corrected ("Forward loading cannot exceed that actual receipt").
ForwardLoading ==
  \A d \in Deliveries : \A a \in DOMAIN deliveries[d].allocs :
    LET v == deliveries[d]
    IN  \A l \in DOMAIN v.allocs[a].qty : \A before \in previous(v, a, l) :
          load_total(v, l, a) <= receipt_totals(v, before, a).quantity

\* What a correction leaves in force says each thing once: corrections form
\* chains with one effective statement each (effective_events).
CorrectionsReplace ==
  \A d \in Deliveries : \A l \in DOMAIN deliveries[d].legs :
    LET v == deliveries[d]
    IN  Cardinality(effective_events(v, l)) =
          Cardinality({i \in DOMAIN v.events :
                         v.events[i].leg = l /\ v.events[i].kind \in {"load", "receipt", "unpack", "unload"}})

\* A statement of leg l or of a follow-up of it was corrected, which may open
\* it again after it was over.
reopened(v, l) ==
  \E i \in DOMAIN v.events :
    v.events[i].leg = l /\ (v.events[i].kind = "correction" \/ v.events[i].child # None)

\* Neither delivery continues the load of the other.
unrelated(d, o) ==
  d # o /\ o \notin ancestors(deliveries[d]) /\ d \notin ancestors(deliveries[o])

same_box(p, q) == Box[p] # None /\ Box[p] = Box[q]

\* Two live legs of deliveries that have nothing to do with each other never
\* need one load unit or one piece of equipment in overlapping periods, unless
\* a correction opened one of them again ("Its physical reservation applies
\* across deliveries and source shipments", reserve).
UnitsInTurn ==
  \A d, o \in Deliveries : unrelated(d, o) =>
    LET v == deliveries[d]
        w == deliveries[o]
    IN  \A l \in DOMAIN v.legs, m \in DOMAIN w.legs :
          /\ v.legs[l].status \in Live /\ w.legs[m].status \in Live
          /\ selected(v, l) # {} /\ selected(w, m) # {}
          /\ \/ same_box(v.legs[l].plan, w.legs[m].plan)
             \/ Equipment[v.legs[l].plan] \cap Equipment[w.legs[m].plan] # {}
          => apart(v, l, w, m) \/ reopened(v, l) \/ reopened(w, m)

\* A load unit in which loaded goods have not been accounted for carries no
\* other delivery's goods in an overlapping period, however the leg they
\* travelled on was settled (but for a correction as above), until somebody says it is empty ("Accepting a
\* shortage does not establish that an affected unit is empty",
\* delivery_unloading.released).
BoxKnownEmpty ==
  \A d, o \in Deliveries : unrelated(d, o) =>
    LET v == deliveries[d]
        w == deliveries[o]
    IN  \A l \in DOMAIN v.legs, m \in DOMAIN w.legs :
          /\ v.legs[l].status \in Live /\ selected(v, l) # {}
          /\ same_box(v.legs[l].plan, w.legs[m].plan)
          /\ \E a \in selected(w, m) : load_total(w, m, a) > receipt_totals(w, m, a).quantity
          => \/ apart(v, l, w, m) \/ reopened(v, l) \/ reopened(w, m)
             \/ \E i \in DOMAIN w.events : w.events[i].kind = "unload" /\ w.events[i].leg = m

\* Once a leg has started, its inputs, itinerary, quantities and sources stay
\* what they were, whatever is edited around it ("Previous leg inputs,
\* quantities, reviews and issued files remain unchanged").
ExecutedFrozen ==
  [][\A d \in Deliveries : \A l \in DOMAIN deliveries[d].legs :
       deliveries[d].legs[l].status \in Executed =>
         \/ deliveries'[d] = NoDelivery
         \/ /\ l \in DOMAIN deliveries'[d].legs
            /\ fingerprint(deliveries'[d], l) = fingerprint(deliveries[d], l)
            /\ deliveries'[d].legs[l].review = deliveries[d].legs[l].review]_vars

-----------------------------------------------------------------------------
(* The reservations as a ledger of stock *)

Ledger ==
  INSTANCE StockLedger WITH
    Contents <- Revisions,
    Units    <- Deliveries \X Allocs \X (1..MaxQuantity),
    contents <- shipments,
    taken    <- [s \in Shipments |-> held(deliveries, s)]

\* The deliveries and the history together keep the ledger's promise: every
\* request that reserves fits, every other one only gives back, and contents
\* change only while nothing is reserved (reserve, guard_source).
ImplementsLedger == Ledger!Spec

-----------------------------------------------------------------------------
(* What the documentation says and the code does not do *)

\* The units received at the end of their itinerary, but for returns.
delivered(s) ==
  {u \in Deliveries \X Allocs \X (1..MaxQuantity) :
     LET v == deliveries[u[1]]
     IN  /\ v.parent.kind # "return"
         /\ u[2] \in DOMAIN v.allocs /\ v.allocs[u[2]].shipment = s
         /\ u[3] <= receipt_totals(v, destination(v.allocs[u[2]]), u[2]).quantity}

\* A redelivery never delivers goods twice: "they never invent extra
\* warehouse stock" (docs/deliveries.md:63-64).
NoExtraStock ==
  \A s \in Shipments :
    delivered(s) # {} => Cardinality(delivered(s)) <= Stock[s][shipments[s]]

=============================================================================
