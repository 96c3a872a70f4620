--------------------------- MODULE DeliveryValue ---------------------------
(***************************************************************************)
(* The data of one delivery (Delivery.data_json) and the pure functions of *)
(* services/deliveries.py that read it.  A delivery value has              *)
(*   legs     a function from its leg ids to [status, plan, review]; the   *)
(*            plan stands for the planner's inputs of the leg              *)
(*   allocs   a function from its allocation ids to [shipment, path, qty]; *)
(*            path is the ordered itinerary (leg_ids), qty the amount on   *)
(*            each of those legs (quantity with leg_quantities applied)    *)
(*   sources  the snapshot of every allocated shipment, named by the       *)
(*            revision of its contents                                     *)
(*   events   the append-only evidence; a request id is the position       *)
(*   parent   the follow-up link: the delivery and the event it continues  *)
(*   unpacked whether a follow-up's goods left their original packing      *)
(***************************************************************************)
EXTENDS Integers, Sequences, FiniteSets, Functions

CONSTANT MaxQuantity   \* bound: the largest quantity a line or allocation states

RESERVED == {"planned", "released", "in_progress", "completed", "closed"}

\* The legs that use their equipment.
Live == {"planned", "released", "in_progress"}

\* The legs on which loading or receipt can have been recorded.
Executed == {"in_progress", "completed", "closed"}

\* The quantity an allocation takes from its source: that of its first leg.
quantity(alloc) == alloc.qty[alloc.path[1]]

\* The last leg of its itinerary.
destination(alloc) == alloc.path[Len(alloc.path)]

\* The allocations that travel on leg l.
selected(v, l) == {a \in DOMAIN v.allocs : l \in DOMAIN v.allocs[a].qty}

\* Mutant: goods that have arrived are no longer held.
active_allocations_moving(v) ==
  {a \in DOMAIN v.allocs :
     \E l \in DOMAIN v.allocs[a].qty : v.legs[l].status \in RESERVED \ {"completed", "closed"}}

\* The allocations that hold goods: some leg of their itinerary is reserved.
active_allocations(v) ==
  {a \in DOMAIN v.allocs :
     \E l \in DOMAIN v.allocs[a].qty : v.legs[l].status \in RESERVED}

\* A return or redelivery moves goods its ancestor has already consumed.
reserved_quantity(v, a) ==
  IF v.parent.kind # "none" THEN 0 ELSE quantity(v.allocs[a])

\* The legs after, and the leg before, leg l on the itinerary of a.
following(v, a, l) ==
  LET path == v.allocs[a].path
  IN  {path[j] : j \in {k \in DOMAIN path : \E i \in 1..(k - 1) : path[i] = l}}

previous(v, a, l) ==
  LET path == v.allocs[a].path
  IN  {path[i] : i \in {k \in DOMAIN path : k + 1 \in DOMAIN path /\ path[k + 1] = l}}

\* What a review is bound to: the inputs of the leg, its goods and their
\* sources, but neither its status nor its review.
fingerprint(v, l) ==
  [unpacked |-> v.unpacked,
   plan    |-> v.legs[l].plan,
   goods   |-> [a \in selected(v, l) |->
                  [shipment |-> v.allocs[a].shipment, path |-> v.allocs[a].path,
                   amount   |-> v.allocs[a].qty[l]]],
   sources |-> [s \in {v.allocs[a].shipment : a \in selected(v, l)} |-> v.sources[s]]]

-----------------------------------------------------------------------------
(* Evidence *)

\* The statements of leg l that no correction has replaced.
effective_events(v, l) ==
  {i \in DOMAIN v.events :
     /\ v.events[i].leg = l
     /\ v.events[i].kind # "resolution"
     /\ \A j \in DOMAIN v.events :
          ~(v.events[j].leg = l /\ v.events[j].kind = "correction" /\ v.events[j].corrects = i)}

\* "states" is corrected_kind on a correction and kind on any other event.
statements(v, l, a, kind) ==
  {i \in effective_events(v, l) : v.events[i].states = kind /\ a \in DOMAIN v.events[i].lines}

\* The sum of a field over events I, as the number of <<i, n>>: the n-th unit
\* that event i states.
total(v, I, a, field) ==
  Cardinality({u \in I \X (1..MaxQuantity) : u[2] <= v.events[u[1]].lines[a][field]})

load_total(v, l, a) == total(v, statements(v, l, a, "load"), a, "quantity")

receipt_totals(v, l, a) ==
  [field \in {"quantity", "damaged", "refused"} |->
     total(v, statements(v, l, a, "receipt"), a, field)]

\* Mutant: an accepted shortage shows that the load unit is empty.
emptied_settled(v, l) == v.legs[l].status \in {"completed", "closed"}

\* Leg l is over and its load unit known to be empty: somebody says so, or all
\* it carried was received.
emptied(v, l) ==
  /\ v.legs[l].status \in {"completed", "closed"}
  /\ \/ \E i \in DOMAIN v.events : v.events[i].kind = "unload" /\ v.events[i].leg = l
     \/ /\ selected(v, l) # {}
        /\ \A a \in selected(v, l) : receipt_totals(v, l, a).quantity = v.allocs[a].qty[l]

\* The dispositions of allocation a on leg l.
resolutions(v, l, a) ==
  {i \in DOMAIN v.events :
     v.events[i].leg = l /\ v.events[i].kind = "resolution" /\ a \in DOMAIN v.events[i].lines}

resolved(v, l, a) ==
  \E i \in resolutions(v, l, a) :
    v.events[i].resolution = "accept" \/ v.events[i].complete

\* The allocations of leg l whose difference is still open.
unresolved(v, l) ==
  {a \in selected(v, l) :
     /\ ~resolved(v, l, a)
     /\ receipt_totals(v, l, a) # [quantity |-> v.allocs[a].qty[l], damaged |-> 0, refused |-> 0]}

\* aggregate(v) is completed or closed: every leg is over and not all were
\* cancelled.  This is what sync_parent asks of a follow-up.
complete(v) ==
  LET statuses == {v.legs[l].status : l \in DOMAIN v.legs}
  IN  /\ statuses \subseteq {"completed", "closed", "cancelled"}
      /\ ~ statuses \subseteq {"cancelled"}
=============================================================================
