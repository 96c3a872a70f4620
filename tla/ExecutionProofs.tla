-------------------------- MODULE ExecutionProofs --------------------------
(***************************************************************************)
(* Theorems of Deliveries about what happens to goods on their way: the    *)
(* reviews, the evidence, the follow-ups and the load units, for every     *)
(* value of the constants.                                                 *)
(***************************************************************************)
EXTENDS DeliveriesProofs

\* The statuses that only a release leads to.
Committed == Executed \cup {"released"}

-----------------------------------------------------------------------------
(* The inductive invariant, part by part.  What one value says of its legs: *)

\* A leg carries the review it needs, its reservation is of goods, and its
\* execution is consistent and as far as its evidence says.
LegOK(v, l) ==
  LET status == v.legs[l].status
  IN  /\ status \in Committed /\ manual_required(v, l) => v.legs[l].review = fingerprint(v, l)
      /\ status \in RESERVED => selected(v, l) # {}
      /\ status \in Executed => /\ consistent(v, l)
                                /\ status = "in_progress" <=> unresolved(v, l) # {}

\* A follow-up has one leg, any other delivery no parent.
Rooted(v) ==
  IF v.parent.kind = "none" THEN v.parent = NoParent ELSE \E l \in Legs : DOMAIN v.legs = {l}

\* But for unpacking, only legs that have started have evidence.
Evidenced(v) ==
  \A i \in DOMAIN v.events : v.events[i].kind # "unpack" =>
    v.events[i].leg \in DOMAIN v.legs /\ v.legs[v.events[i].leg].status \in Executed

\* Corrections correct what is there; only they state something else.
Formed(v) ==
  \A i \in DOMAIN v.events :
    /\ v.events[i].corrects < i
    /\ v.events[i].kind \in {"unpack", "unload"} => v.events[i].states = v.events[i].kind

\* The statements that corrections replace, each by one.
original(v, l) ==
  {i \in DOMAIN v.events :
     v.events[i].leg = l /\ v.events[i].kind \in {"load", "receipt", "unpack", "unload"}}

\* ForwardLoading and CorrectionsReplace of one value.
LoadsForward(v) ==
  \A a \in DOMAIN v.allocs : \A l \in DOMAIN v.allocs[a].qty : \A before \in previous(v, a, l) :
    load_total(v, l, a) <= receipt_totals(v, before, a).quantity

Corrected(v) == \A l : Cardinality(effective_events(v, l)) = Cardinality(original(v, l))

Good(v) ==
  /\ \A l \in DOMAIN v.legs : LegOK(v, l)
  /\ Rooted(v) /\ Evidenced(v) /\ Formed(v) /\ LoadsForward(v) /\ Corrected(v)

(* What the values say of each other: *)

\* The disposition of a follow-up names it; the follow-up of a follow-up has
\* none of its own.
Named(recs) ==
  \A x \in Deliveries :
    LET link == recs[x].parent
    IN  link.kind # "none" =>
          /\ recs[link.delivery].events[link.event].child = x
          /\ recs[link.delivery].events[link.event].resolution = link.kind
          /\ recs[link.delivery].parent.kind # "none" =>
               recs[recs[link.delivery].parent.delivery].parent.kind = "none"

\* The disposition of x knows whether x is complete.
Told(recs, x) ==
  LET link == recs[x].parent
  IN  link.kind # "none" => recs[link.delivery].events[link.event].complete = complete(recs[x])

\* The deliveries d continues, and those that neither continues.
Kin(recs, d) ==
  LET up == recs[d].parent.delivery
  IN  {o \in Deliveries : o = up \/ (up # None /\ o = recs[up].parent.delivery)}

Strangers(recs, d, o) == d # o /\ o \notin Kin(recs, d) /\ d \notin Kin(recs, o)

\* What a live leg needs and another leg has not given up, they use in turn.
InTurn(recs) ==
  \A d, o \in Deliveries : Strangers(recs, d, o) =>
    \A l \in DOMAIN recs[d].legs, m \in DOMAIN recs[o].legs :
      recs[d].legs[l].status \in Live /\ needs(recs[d], l, recs[o], m) =>
        apart(recs[d], l, recs[o], m) \/ reopened(recs[d], l) \/ reopened(recs[o], m)

Sane(recs) ==
  /\ \A x \in Deliveries : Good(recs[x]) /\ Told(recs, x)
  /\ Named(recs) /\ InTurn(recs)

-----------------------------------------------------------------------------
(* Reading the evidence *)

unloaded(v, l) == \E i \in DOMAIN v.events : v.events[i].kind = "unload" /\ v.events[i].leg = l

\* Leg l of w has the evidence it has in v.
SameEvidence(w, v, l) ==
  /\ \A a : /\ load_total(w, l, a) = load_total(v, l, a)
            /\ receipt_totals(w, l, a) = receipt_totals(v, l, a)
            /\ resolved(w, l, a) <=> resolved(v, l, a)
  /\ unloaded(w, l) <=> unloaded(v, l)
  /\ reopened(v, l) => reopened(w, l)

\* Leg l of w is what it is in v.
Same(w, v, l) ==
  /\ l \in DOMAIN v.legs /\ l \in DOMAIN w.legs
  /\ w.legs[l].status = v.legs[l].status /\ w.legs[l].review = v.legs[l].review
  /\ fingerprint(w, l) = fingerprint(v, l)
  /\ SameEvidence(w, v, l)

\* Values whose events differ in what is known of follow-ups only.
SameStatements(w, v) ==
  /\ DOMAIN w.events = DOMAIN v.events
  /\ \A i \in DOMAIN v.events :
       /\ w.events[i].kind = v.events[i].kind /\ w.events[i].leg = v.events[i].leg
       /\ w.events[i].lines = v.events[i].lines /\ w.events[i].corrects = v.events[i].corrects
       /\ w.events[i].states = v.events[i].states /\ w.events[i].child = v.events[i].child
       /\ w.events[i].resolution = v.events[i].resolution

\* The totals of a kind of statement are read from those statements.
LEMMA TotalSame ==
  ASSUME NEW v, NEW w, NEW I, \A i \in I : w.events[i].lines = v.events[i].lines
  PROVE  \A a, field : total(w, I, a, field) = total(v, I, a, field)
<1> TAKE a, field
<1>1. {u \in I \X (1..MaxQuantity) : u[2] <= w.events[u[1]].lines[a][field]}
        = {u \in I \X (1..MaxQuantity) : u[2] <= v.events[u[1]].lines[a][field]}
  OBVIOUS
<1> QED
  BY <1>1 DEF total

\* Equal statements of loads and receipts give equal totals.
LEMMA TotalsSame ==
  ASSUME NEW v, NEW w, NEW l, NEW a,
         \A kind \in {"load", "receipt"} :
           /\ statements(w, l, a, kind) = statements(v, l, a, kind)
           /\ \A i \in statements(v, l, a, kind) : w.events[i].lines = v.events[i].lines
  PROVE  /\ load_total(w, l, a) = load_total(v, l, a)
         /\ receipt_totals(w, l, a) = receipt_totals(v, l, a)
<1>1. ASSUME NEW kind \in {"load", "receipt"}, NEW field
      PROVE  total(w, statements(w, l, a, kind), a, field)
               = total(v, statements(v, l, a, kind), a, field)
  <2> DEFINE I == statements(v, l, a, kind)
  <2>1. statements(w, l, a, kind) = I /\ \A i \in I : w.events[i].lines = v.events[i].lines
    OBVIOUS
  <2> HIDE DEF I
  <2>2. total(w, I, a, field) = total(v, I, a, field)
    BY <2>1, TotalSame
  <2> QED
    BY <2>1, <2>2 DEF I
<1> QED
  BY <1>1 DEF load_total, receipt_totals

\* What is known of the follow-ups of other legs says nothing of leg l.
LEMMA StatementsSame ==
  ASSUME NEW v, NEW w, SameStatements(w, v), NEW l,
         \A i \in DOMAIN v.events :
           v.events[i].leg = l => w.events[i].complete = v.events[i].complete
  PROVE  SameEvidence(w, v, l)
<1>1. effective_events(w, l) = effective_events(v, l)
  BY DEF effective_events, SameStatements
<1>2. \A a, kind : /\ statements(w, l, a, kind) = statements(v, l, a, kind)
                   /\ \A i \in statements(v, l, a, kind) : w.events[i].lines = v.events[i].lines
  BY <1>1 DEF statements, SameStatements, effective_events
<1>3. \A a : /\ load_total(w, l, a) = load_total(v, l, a)
             /\ receipt_totals(w, l, a) = receipt_totals(v, l, a)
  BY <1>2, TotalsSame
<1>4. \A a : resolved(w, l, a) <=> resolved(v, l, a)
  BY DEF resolved, resolutions, SameStatements
<1>5. (unloaded(w, l) <=> unloaded(v, l)) /\ (reopened(v, l) <=> reopened(w, l))
  BY DEF unloaded, reopened, SameStatements
<1> QED
  BY <1>3, <1>4, <1>5 DEF SameEvidence

\* A change of what is known of follow-ups leaves the totals alone.
LEMMA StatementsTotals ==
  ASSUME NEW v, NEW w, SameStatements(w, v), NEW l
  PROVE  /\ effective_events(w, l) = effective_events(v, l)
         /\ \A a : /\ load_total(w, l, a) = load_total(v, l, a)
                   /\ receipt_totals(w, l, a) = receipt_totals(v, l, a)
<1>1. effective_events(w, l) = effective_events(v, l)
  BY DEF effective_events, SameStatements
<1>2. \A a, kind : /\ statements(w, l, a, kind) = statements(v, l, a, kind)
                   /\ \A i \in statements(v, l, a, kind) : w.events[i].lines = v.events[i].lines
  BY <1>1 DEF statements, SameStatements, effective_events
<1> QED
  BY <1>1, <1>2, TotalsSame

\* An event on another leg says nothing of leg l.
LEMMA AppendOther ==
  ASSUME NEW v, NEW w, NEW e, Appended(w, v, e), NEW l, l # e.leg
  PROVE  /\ SameEvidence(w, v, l)
         /\ effective_events(w, l) = effective_events(v, l) /\ original(w, l) = original(v, l)
<1>1. effective_events(w, l) = effective_events(v, l)
  BY DEF effective_events, Appended
<1>2. \A a, kind : /\ statements(w, l, a, kind) = statements(v, l, a, kind)
                   /\ \A i \in statements(v, l, a, kind) : w.events[i].lines = v.events[i].lines
  BY <1>1 DEF statements, Appended, effective_events
<1>3. \A a : /\ load_total(w, l, a) = load_total(v, l, a)
             /\ receipt_totals(w, l, a) = receipt_totals(v, l, a)
  BY <1>2, TotalsSame
<1>4. \A a : resolved(w, l, a) <=> resolved(v, l, a)
  <2>1. \A a : resolutions(w, l, a) = resolutions(v, l, a)
    BY DEF resolutions, Appended
  <2> QED
    BY <2>1 DEF resolved, Appended, resolutions
<1>5. (unloaded(w, l) <=> unloaded(v, l)) /\ (reopened(v, l) <=> reopened(w, l))
  BY DEF unloaded, reopened, Appended
<1>6. original(w, l) = original(v, l)
  BY DEF original, Appended
<1> QED
  BY <1>1, <1>3, <1>4, <1>5, <1>6 DEF SameEvidence

\* An event that states no load and no receipt, and corrects none, leaves the
\* totals alone.
LEMMA AppendSilent ==
  ASSUME NEW v, NEW w, NEW e, Appended(w, v, e),
         e.kind # "correction", e.states \notin {"load", "receipt"}, NEW l, NEW a
  PROVE  /\ load_total(w, l, a) = load_total(v, l, a)
         /\ receipt_totals(w, l, a) = receipt_totals(v, l, a)
<1>1. \A i \in DOMAIN v.events : i \in effective_events(w, l) <=> i \in effective_events(v, l)
  BY DEF effective_events, Appended
<1>2. ASSUME NEW kind \in {"load", "receipt"}
      PROVE  /\ statements(w, l, a, kind) = statements(v, l, a, kind)
             /\ \A i \in statements(v, l, a, kind) : w.events[i].lines = v.events[i].lines
  <2>1. statements(v, l, a, kind) \subseteq DOMAIN v.events
    BY DEF statements, effective_events
  <2>2. statements(w, l, a, kind) \subseteq DOMAIN w.events
    BY DEF statements, effective_events
  <2>3. statements(w, l, a, kind) \subseteq DOMAIN v.events
    BY <2>2 DEF statements, Appended
  <2> QED
    BY <1>1, <2>1, <2>3 DEF statements, Appended
<1> QED
  BY <1>2, TotalsSame

\* Nor does an event touch the totals of goods that neither it nor what it
\* corrects is about.
LEMMA AppendElsewhere ==
  ASSUME NEW v, NEW w, NEW e, Appended(w, v, e), NEW l, NEW a, a \notin DOMAIN e.lines,
         e.kind = "correction" =>
           e.corrects \in DOMAIN v.events /\ a \notin DOMAIN v.events[e.corrects].lines
  PROVE  /\ load_total(w, l, a) = load_total(v, l, a)
         /\ receipt_totals(w, l, a) = receipt_totals(v, l, a)
<1>1. ASSUME NEW i \in DOMAIN v.events, a \in DOMAIN v.events[i].lines
      PROVE  i \in effective_events(w, l) <=> i \in effective_events(v, l)
  BY <1>1 DEF effective_events, Appended
<1>2. ASSUME NEW kind
      PROVE  /\ statements(w, l, a, kind) = statements(v, l, a, kind)
             /\ \A i \in statements(v, l, a, kind) : w.events[i].lines = v.events[i].lines
  <2>1. statements(v, l, a, kind) \subseteq DOMAIN v.events
    BY DEF statements, effective_events
  <2>2. statements(w, l, a, kind) \subseteq DOMAIN w.events
    BY DEF statements, effective_events
  <2>3. statements(w, l, a, kind) \subseteq DOMAIN v.events
    BY <2>2 DEF statements, Appended
  <2> QED
    BY <1>1, <2>1, <2>3 DEF statements, Appended
<1> QED
  BY <1>2, TotalsSame

\* A statement that corrects none only adds to what was received.
LEMMA AppendGrows ==
  ASSUME NEW v, IsValue(v), NEW w, IsValue(w), NEW e, Appended(w, v, e), e.kind # "correction",
         NEW l, NEW a
  PROVE  receipt_totals(v, l, a).quantity <= receipt_totals(w, l, a).quantity
<1> DEFINE I == statements(v, l, a, "receipt")
           J == statements(w, l, a, "receipt")
<1>1. I \subseteq J /\ \A i \in I : w.events[i] = v.events[i]
  BY DEF statements, effective_events, Appended
<1>2. J \subseteq DOMAIN w.events
  BY DEF statements, effective_events
<1> HIDE DEF I, J
<1> DEFINE U == {u \in I \X (1..MaxQuantity) : u[2] <= v.events[u[1]].lines[a]["quantity"]}
           W == {u \in J \X (1..MaxQuantity) : u[2] <= w.events[u[1]].lines[a]["quantity"]}
<1>3. U \subseteq W
  BY <1>1
<1>4. IsFiniteSet(W)
  <2>1. PICK n \in Nat : DOMAIN w.events = 1..n
    BY DEF IsValue, AreEvents
  <2>2. IsFiniteSet(J) /\ IsFiniteSet(1..MaxQuantity)
    BY <1>2, <2>1, FS_Interval, FS_Subset, DeliveriesAssumption
  <2>3. IsFiniteSet(J \X (1..MaxQuantity))
    BY <2>2, FS_Product
  <2> QED
    BY <2>3, FS_Subset
<1>5. Cardinality(U) <= Cardinality(W)
  <2> HIDE DEF U, W
  <2> QED BY <1>3, <1>4, FS_Subset
<1> QED
  BY <1>5 DEF receipt_totals, total, I, J

\* A leg without evidence but of unpacking has moved nothing.
LEMMA NothingStated ==
  ASSUME NEW v, Formed(v), NEW l, NEW a,
         \A i \in DOMAIN v.events : v.events[i].leg = l => v.events[i].kind = "unpack"
  PROVE  /\ load_total(v, l, a) = 0 /\ ~resolved(v, l, a)
         /\ receipt_totals(v, l, a).quantity = 0 /\ receipt_totals(v, l, a).damaged = 0
         /\ receipt_totals(v, l, a).refused = 0
<1>1. \A kind \in {"load", "receipt"} : statements(v, l, a, kind) = {}
  BY DEF statements, effective_events, Formed
<1>2. \A field : total(v, {}, a, field) = 0
  <2> TAKE field
  <2>1. {u \in {} \X (1..MaxQuantity) : u[2] <= v.events[u[1]].lines[a][field]} = {}
    OBVIOUS
  <2> QED
    BY <2>1, FS_EmptySet DEF total
<1>3. resolutions(v, l, a) = {}
  BY DEF resolutions
<1> QED
  BY <1>1, <1>2, <1>3 DEF load_total, receipt_totals, resolved

-----------------------------------------------------------------------------
(* Reading the inputs *)

\* A fingerprint tells the inputs of a leg and all that is asked of its goods.
LEMMA FingerprintTells ==
  ASSUME NEW v, NEW w, NEW l, fingerprint(w, l) = fingerprint(v, l)
  PROVE  /\ w.unpacked = v.unpacked /\ w.legs[l].plan = v.legs[l].plan
         /\ selected(w, l) = selected(v, l)
         /\ \A a \in selected(v, l) :
              /\ w.allocs[a].shipment = v.allocs[a].shipment
              /\ w.allocs[a].path = v.allocs[a].path
              /\ w.allocs[a].qty[l] = v.allocs[a].qty[l]
              /\ w.sources[v.allocs[a].shipment] = v.sources[v.allocs[a].shipment]
<1>1. /\ fingerprint(w, l).unpacked = w.unpacked /\ fingerprint(v, l).unpacked = v.unpacked
      /\ fingerprint(w, l).plan = w.legs[l].plan /\ fingerprint(v, l).plan = v.legs[l].plan
      /\ fingerprint(w, l).goods = [a \in selected(w, l) |->
                  [shipment |-> w.allocs[a].shipment, path |-> w.allocs[a].path,
                   amount   |-> w.allocs[a].qty[l]]]
      /\ fingerprint(v, l).goods = [a \in selected(v, l) |->
                  [shipment |-> v.allocs[a].shipment, path |-> v.allocs[a].path,
                   amount   |-> v.allocs[a].qty[l]]]
      /\ fingerprint(w, l).sources
           = [s \in {w.allocs[a].shipment : a \in selected(w, l)} |-> w.sources[s]]
      /\ fingerprint(v, l).sources
           = [s \in {v.allocs[a].shipment : a \in selected(v, l)} |-> v.sources[s]]
  BY DEF fingerprint
<1> DEFINE goods(x) == [a \in selected(x, l) |->
                         [shipment |-> x.allocs[a].shipment, path |-> x.allocs[a].path,
                          amount   |-> x.allocs[a].qty[l]]]
           src(x) == [s \in {x.allocs[a].shipment : a \in selected(x, l)} |-> x.sources[s]]
<1>2. goods(w) = goods(v) /\ src(w) = src(v)
  BY <1>1
<1>3. DOMAIN goods(w) = selected(w, l) /\ DOMAIN goods(v) = selected(v, l)
  OBVIOUS
<1>4. selected(w, l) = selected(v, l)
  BY <1>2, <1>3, Zenon
<1>5. ASSUME NEW a \in selected(v, l)
      PROVE  /\ w.allocs[a].shipment = v.allocs[a].shipment
             /\ w.allocs[a].path = v.allocs[a].path
             /\ w.allocs[a].qty[l] = v.allocs[a].qty[l]
  <2> DEFINE line(x) == [shipment |-> x.allocs[a].shipment, path |-> x.allocs[a].path,
                          amount   |-> x.allocs[a].qty[l]]
  <2>1. goods(w)[a] = line(w) /\ goods(v)[a] = line(v) /\ goods(w)[a] = goods(v)[a]
    BY <1>2, <1>4
  <2>2. line(w).shipment = line(v).shipment /\ line(w).path = line(v).path
        /\ line(w).amount = line(v).amount
    <3> HIDE DEF goods, line
    <3> QED BY <2>1
  <2> QED
    BY <2>2
<1>6. ASSUME NEW a \in selected(v, l)
      PROVE  w.sources[v.allocs[a].shipment] = v.sources[v.allocs[a].shipment]
  <2> DEFINE s == v.allocs[a].shipment
  <2>1. src(w)[s] = src(v)[s]
    BY <1>2
  <2>2. w.allocs[a].shipment = s
    BY <1>5
  <2> QED
    BY <1>4, <2>1, <2>2
<1> QED
  BY <1>1, <1>4, <1>5, <1>6

\* Equal inputs, goods and sources have equal fingerprints.
LEMMA FingerprintKept ==
  ASSUME NEW v, NEW w, NEW l, w.allocs = v.allocs, w.sources = v.sources,
         w.unpacked = v.unpacked, w.legs[l].plan = v.legs[l].plan
  PROVE  fingerprint(w, l) = fingerprint(v, l)
<1>1. selected(w, l) = selected(v, l)
  BY DEF selected
<1> QED
  BY <1>1 DEF fingerprint

\* What is asked of goods is asked alike of goods with one fingerprint.
LEMMA FingerprintReads ==
  ASSUME NEW v, NEW w, NEW l, fingerprint(w, l) = fingerprint(v, l)
  PROVE  /\ manual_required(w, l) <=> manual_required(v, l)
         /\ SameEvidence(w, v, l) =>
              /\ consistent(w, l) <=> consistent(v, l)
              /\ unresolved(w, l) = unresolved(v, l)
              /\ w.legs[l].status = v.legs[l].status => (emptied(w, l) <=> emptied(v, l))
<1>1. /\ w.legs[l].plan = v.legs[l].plan /\ selected(w, l) = selected(v, l)
      /\ \A a \in selected(v, l) :
           /\ w.allocs[a].shipment = v.allocs[a].shipment
           /\ w.allocs[a].qty[l] = v.allocs[a].qty[l]
           /\ w.sources[v.allocs[a].shipment] = v.sources[v.allocs[a].shipment]
  BY FingerprintTells
<1>2. manual_required(w, l) <=> manual_required(v, l)
  BY <1>1 DEF manual_required
<1> SUFFICES ASSUME SameEvidence(w, v, l)
             PROVE  /\ consistent(w, l) <=> consistent(v, l)
                    /\ unresolved(w, l) = unresolved(v, l)
                    /\ w.legs[l].status = v.legs[l].status => (emptied(w, l) <=> emptied(v, l))
  BY <1>2
<1>3. consistent(w, l) <=> consistent(v, l)
  BY <1>1 DEF consistent, SameEvidence
<1>4. unresolved(w, l) = unresolved(v, l)
  BY <1>1 DEF unresolved, SameEvidence
<1>5. w.legs[l].status = v.legs[l].status => (emptied(w, l) <=> emptied(v, l))
  BY <1>1 DEF emptied, SameEvidence, unloaded
<1> QED
  BY <1>3, <1>4, <1>5

\* A leg that is what it was is in order if it was.
LEMMA SameTells ==
  ASSUME NEW v, NEW w, NEW l, Same(w, v, l)
  PROVE  /\ LegOK(v, l) => LegOK(w, l)
         /\ w.legs[l].plan = v.legs[l].plan /\ selected(w, l) = selected(v, l)
         /\ emptied(w, l) <=> emptied(v, l)
<1>1. /\ w.legs[l].plan = v.legs[l].plan /\ selected(w, l) = selected(v, l)
  BY FingerprintTells DEF Same
<1>2. /\ w.legs[l].status = v.legs[l].status /\ w.legs[l].review = v.legs[l].review
      /\ fingerprint(w, l) = fingerprint(v, l)
      /\ manual_required(w, l) <=> manual_required(v, l)
      /\ consistent(w, l) <=> consistent(v, l)
      /\ unresolved(w, l) = unresolved(v, l)
      /\ emptied(w, l) <=> emptied(v, l)
  BY FingerprintReads DEF Same
<1>3. LegOK(v, l) => LegOK(w, l)
  BY <1>1, <1>2, Zenon DEF LegOK
<1> QED
  BY <1>1, <1>2, <1>3

\* A leg that is not reserved is in order.
LEMMA UnreservedOK ==
  ASSUME NEW v, NEW l, v.legs[l].status \notin RESERVED
  PROVE  LegOK(v, l)
BY DEF LegOK, RESERVED, Committed, Executed

-----------------------------------------------------------------------------
(* What a step may do to the legs of a delivery *)

\* What was executed stays what it was.
Frozen(w, v) ==
  \A l \in DOMAIN v.legs : v.legs[l].status \in Executed =>
    /\ l \in DOMAIN w.legs /\ w.legs[l].status \in Executed
    /\ fingerprint(w, l) = fingerprint(v, l) /\ w.legs[l].review = v.legs[l].review

\* Leg l of w needs no more than it needed in v, unless it was reopened.
MildLeg(w, v, l) ==
  /\ w.legs[l].status \in Live =>
       \/ reopened(w, l)
       \/ /\ l \in DOMAIN v.legs /\ v.legs[l].status \in Live
          /\ w.legs[l].plan = v.legs[l].plan /\ selected(w, l) = selected(v, l)
  /\ w.legs[l].status \in RESERVED /\ ~emptied(w, l) =>
       \/ reopened(w, l)
       \/ /\ l \in DOMAIN v.legs /\ v.legs[l].status \in RESERVED /\ ~emptied(v, l)
          /\ w.legs[l].plan = v.legs[l].plan /\ selected(w, l) = selected(v, l)

Mild(w, v) ==
  /\ \A l \in DOMAIN w.legs : MildLeg(w, v, l)
  /\ \A l : reopened(v, l) => reopened(w, l)

\* A leg that is what it was needs no more than before.
LEMMA SameMild ==
  ASSUME NEW v, NEW w, NEW l, Same(w, v, l)
  PROVE  MildLeg(w, v, l)
BY SameTells DEF MildLeg, Same, SameEvidence

\* So do steps after each other.
LEMMA MildTransitive ==
  ASSUME NEW u, NEW v, NEW w, Mild(w, v), Mild(v, u), Frozen(w, v), Frozen(v, u)
  PROVE  Mild(w, u) /\ Frozen(w, u)
<1>1. ASSUME NEW l \in DOMAIN w.legs PROVE MildLeg(w, u, l)
  <2>1. CASE l \in DOMAIN v.legs
    <3>1. MildLeg(w, v, l) /\ MildLeg(v, u, l) /\ (reopened(v, l) => reopened(w, l))
      BY <2>1 DEF Mild
    <3> QED
      BY <3>1 DEF MildLeg
  <2>2. CASE l \notin DOMAIN v.legs
    BY <2>2 DEF Mild, MildLeg
  <2> QED
    BY <2>1, <2>2
<1>2. Frozen(w, u)
  BY DEF Frozen
<1> QED
  BY <1>1, <1>2 DEF Mild

\* Doing nothing is such a step.
LEMMA MildReflexive ==
  ASSUME NEW v
  PROVE  Mild(v, v) /\ Frozen(v, v)
BY DEF Mild, MildLeg, Frozen

-----------------------------------------------------------------------------
(* Saving *)

\* Equal events are equal evidence.
LEMMA EqualEvents ==
  ASSUME NEW v, NEW w, w.events = v.events
  PROVE  \A l : /\ SameEvidence(w, v, l) /\ effective_events(w, l) = effective_events(v, l)
                /\ original(w, l) = original(v, l)
<1> TAKE l
<1>1. SameStatements(w, v)
  BY DEF SameStatements
<1>2. SameEvidence(w, v, l)
  BY <1>1, StatementsSame
<1>3. effective_events(w, l) = effective_events(v, l)
  BY DEF effective_events
<1>4. original(w, l) = original(v, l)
  BY DEF original
<1> QED
  BY <1>2, <1>3, <1>4

\* progress gives leg l the status its evidence says, and changes no more.
LEMMA ProgressExact ==
  ASSUME NEW v, IsValue(v), NEW l \in DOMAIN v.legs
  PROVE  LET w == progress(v, l)
         IN  /\ w.events = v.events /\ w.parent = v.parent /\ w.allocs = v.allocs
             /\ w.sources = v.sources /\ w.unpacked = v.unpacked
             /\ DOMAIN w.legs = DOMAIN v.legs
             /\ \A k \in DOMAIN v.legs :
                  /\ w.legs[k].plan = v.legs[k].plan /\ w.legs[k].review = v.legs[k].review
                  /\ k # l => w.legs[k] = v.legs[k]
             /\ w.legs[l].status = IF unresolved(w, l) = {} THEN "completed" ELSE "in_progress"
<1> DEFINE st   == IF unresolved(v, l) = {} THEN "completed" ELSE "in_progress"
           leg  == [v.legs[l] EXCEPT !.status = st]
           legs == [v.legs EXCEPT ![l] = leg]
           w == progress(v, l)
<1>1. w = [v EXCEPT !.legs = legs]
  BY DEF progress
<1>2. AreLegs(v.legs) /\ IsLeg(v.legs[l])
  BY DEF IsValue, AreLegs
<1>3. st \in {"completed", "in_progress"}
  OBVIOUS
<1> HIDE DEF st
<1>4. /\ IsLeg(leg) /\ leg.status = st
      /\ leg.plan = v.legs[l].plan /\ leg.review = v.legs[l].review
  BY <1>2, <1>3 DEF IsLeg, RESERVED
<1> HIDE DEF leg
<1>5. /\ AreLegs(legs) /\ DOMAIN legs = DOMAIN v.legs /\ legs[l] = leg
      /\ \A k \in DOMAIN v.legs : k # l => legs[k] = v.legs[k]
  BY <1>2, <1>4, LegUpdate
<1> HIDE DEF legs
<1>6. /\ w.legs = legs /\ w.events = v.events /\ w.parent = v.parent /\ w.allocs = v.allocs
      /\ w.sources = v.sources /\ w.unpacked = v.unpacked
  BY <1>1, <1>5, WithLegs
<1> HIDE DEF w
<1>7. unresolved(w, l) = unresolved(v, l)
  <2>1. SameEvidence(w, v, l)
    BY <1>6, EqualEvents
  <2>2. fingerprint(w, l) = fingerprint(v, l)
    BY <1>4, <1>5, <1>6, FingerprintKept
  <2> QED
    BY <2>1, <2>2, FingerprintReads
<1>8. w.legs[l].status = IF unresolved(w, l) = {} THEN "completed" ELSE "in_progress"
  BY <1>4, <1>5, <1>6, <1>7 DEF st
<1> QED
  BY <1>4, <1>5, <1>6, <1>8 DEF w

\* The parent's value with the completion of its follow-up noted differs in
\* that only.
LEMMA TellExact ==
  ASSUME NEW v, IsValue(v), NEW n \in DOMAIN v.events, NEW c \in BOOLEAN
  PROVE  LET w == [v EXCEPT !.events[n].complete = c]
         IN  /\ IsValue(w) /\ w.legs = v.legs /\ w.parent = v.parent /\ w.allocs = v.allocs
             /\ w.sources = v.sources /\ w.unpacked = v.unpacked
             /\ SameStatements(w, v) /\ w.events[n].complete = c
             /\ \A i \in DOMAIN v.events : i # n => w.events[i] = v.events[i]
<1> DEFINE e   == [v.events[n] EXCEPT !.complete = c]
           evs == [v.events EXCEPT ![n] = e]
           w   == [v EXCEPT !.events[n].complete = c]
<1>1. w = [v EXCEPT !.events = evs]
  OBVIOUS
<1>2. AreEvents(v.events) /\ IsEvent(v.events[n])
  BY DEF IsValue, AreEvents
<1>3. /\ IsEvent(e) /\ e.complete = c
      /\ e.kind = v.events[n].kind /\ e.leg = v.events[n].leg /\ e.lines = v.events[n].lines
      /\ e.corrects = v.events[n].corrects /\ e.states = v.events[n].states
      /\ e.child = v.events[n].child /\ e.resolution = v.events[n].resolution
  BY <1>2 DEF IsEvent
<1> HIDE DEF e
<1>4. /\ AreEvents(evs) /\ DOMAIN evs = DOMAIN v.events /\ evs[n] = e
      /\ \A i \in DOMAIN v.events : i # n => evs[i] = v.events[i]
  BY <1>2, <1>3, EventUpdate
<1> HIDE DEF evs, w
<1>5. /\ IsValue(w) /\ w.legs = v.legs /\ w.parent = v.parent /\ w.allocs = v.allocs
      /\ w.sources = v.sources /\ w.unpacked = v.unpacked /\ w.events = evs
  BY <1>1, <1>4, WithEvents
<1>6. SameStatements(w, v)
  BY <1>3, <1>4, <1>5 DEF SameStatements
<1>7. /\ w.events[n].complete = c
      /\ \A i \in DOMAIN v.events : i # n => w.events[i] = v.events[i]
  BY <1>3, <1>4, <1>5
<1> QED
  BY <1>5, <1>6, <1>7 DEF w

\* A delivery that is told about a follow-up stays in order, and only the leg
\* of the disposition moves.
LEMMA ToldGood ==
  ASSUME NEW v, IsValue(v), Good(v), NEW n \in DOMAIN v.events, NEW c \in BOOLEAN,
         v.events[n].leg \in DOMAIN v.legs, v.legs[v.events[n].leg].status \in Executed,
         v.events[n].child # None
  PROVE  LET w == progress([v EXCEPT !.events[n].complete = c], v.events[n].leg)
         IN  /\ Good(w) /\ Mild(w, v) /\ Frozen(w, v) /\ w.parent = v.parent
             /\ SameStatements(w, v) /\ w.events[n].complete = c
             /\ \A i \in DOMAIN v.events : i # n => w.events[i] = v.events[i]
<1> DEFINE l == v.events[n].leg
           u == [v EXCEPT !.events[n].complete = c]
           w == progress(u, l)
<1>1. /\ IsValue(u) /\ u.legs = v.legs /\ u.parent = v.parent /\ u.allocs = v.allocs
      /\ u.sources = v.sources /\ u.unpacked = v.unpacked
      /\ SameStatements(u, v) /\ u.events[n].complete = c
      /\ \A i \in DOMAIN v.events : i # n => u.events[i] = v.events[i]
  BY TellExact
<1> HIDE DEF u
<1>2. /\ w.events = u.events /\ w.parent = u.parent /\ w.allocs = u.allocs
      /\ w.sources = u.sources /\ w.unpacked = u.unpacked
      /\ DOMAIN w.legs = DOMAIN u.legs
      /\ \A k \in DOMAIN u.legs :
           /\ w.legs[k].plan = u.legs[k].plan /\ w.legs[k].review = u.legs[k].review
           /\ k # l => w.legs[k] = u.legs[k]
      /\ w.legs[l].status = IF unresolved(w, l) = {} THEN "completed" ELSE "in_progress"
  BY <1>1, ProgressExact
<1> HIDE DEF w
<1>3. /\ SameStatements(w, v) /\ w.events[n].complete = c
      /\ \A i \in DOMAIN v.events : i # n => w.events[i] = v.events[i]
  BY <1>1, <1>2 DEF SameStatements
<1>4. \A k \in DOMAIN v.legs : fingerprint(w, k) = fingerprint(v, k)
  BY <1>1, <1>2, FingerprintKept
<1>5. \A k : /\ effective_events(w, k) = effective_events(v, k)
             /\ \A a : /\ load_total(w, k, a) = load_total(v, k, a)
                       /\ receipt_totals(w, k, a) = receipt_totals(v, k, a)
  BY <1>3, StatementsTotals
<1>6. \A k \in DOMAIN v.legs : k # l => Same(w, v, k)
  <2> TAKE k \in DOMAIN v.legs
  <2> HAVE k # l
  <2>1. \A i \in DOMAIN v.events : v.events[i].leg = k => w.events[i].complete = v.events[i].complete
    BY <1>3
  <2>2. SameEvidence(w, v, k)
    BY <1>3, <2>1, StatementsSame
  <2> QED
    BY <1>1, <1>2, <1>4, <2>2 DEF Same
<1>7. /\ w.legs[l].status \in {"in_progress", "completed"}
      /\ w.legs[l].status = "in_progress" <=> unresolved(w, l) # {}
      /\ w.legs[l].review = v.legs[l].review
      /\ l \in DOMAIN v.legs /\ l \in DOMAIN w.legs /\ v.legs[l].status \in Executed
  BY <1>1, <1>2
<1>8. LegOK(w, l)
  <2>1. LegOK(v, l) /\ fingerprint(w, l) = fingerprint(v, l)
    BY <1>4, <1>7 DEF Good
  <2>2. /\ selected(w, l) = selected(v, l) /\ (manual_required(w, l) <=> manual_required(v, l))
        /\ \A a \in selected(v, l) : w.allocs[a].qty[l] = v.allocs[a].qty[l]
    <3> HIDE DEF l
    <3>1. /\ selected(w, l) = selected(v, l)
          /\ \A a \in selected(v, l) : w.allocs[a].qty[l] = v.allocs[a].qty[l]
      BY <2>1, FingerprintTells
    <3>2. manual_required(w, l) <=> manual_required(v, l)
      BY <2>1, FingerprintReads
    <3> QED BY <3>1, <3>2
  <2>3. consistent(w, l) <=> consistent(v, l)
    BY <1>5, <2>2 DEF consistent
  <2> HIDE DEF l
  <2> QED
    BY <1>7, <2>1, <2>2, <2>3 DEF LegOK, Executed, Committed, RESERVED
<1>9. \A k \in DOMAIN w.legs : LegOK(w, k)
  BY <1>1, <1>2, <1>6, <1>8, SameTells DEF Good
<1>10. \A k \in DOMAIN v.legs : v.legs[k].status \in Executed => w.legs[k].status \in Executed
  BY <1>6, <1>7 DEF Same, Executed
<1>11. Rooted(w)
  BY <1>1, <1>2 DEF Good, Rooted
<1>12. Evidenced(w) /\ Formed(w)
  BY <1>1, <1>2, <1>3, <1>10 DEF Good, Evidenced, Formed, SameStatements
<1>13. LoadsForward(w)
  BY <1>1, <1>2, <1>5 DEF Good, LoadsForward, previous
<1>14. Corrected(w)
  <2>1. \A k : original(w, k) = original(v, k)
    BY <1>3 DEF original, SameStatements
  <2> QED
    BY <1>5, <2>1 DEF Good, Corrected
<1>15. Good(w)
  BY <1>9, <1>11, <1>12, <1>13, <1>14 DEF Good
<1>16. Frozen(w, v)
  BY <1>1, <1>2, <1>4, <1>10 DEF Frozen
<1>17. Mild(w, v)
  <2>1. reopened(w, l)
    BY <1>3 DEF reopened, SameStatements
  <2>2. \A k : reopened(v, k) => reopened(w, k)
    BY <1>3 DEF reopened, SameStatements
  <2>3. \A k \in DOMAIN w.legs : MildLeg(w, v, k)
    BY <1>1, <1>2, <1>6, <2>1, SameMild DEF MildLeg
  <2> QED
    BY <2>2, <2>3 DEF Mild
<1> QED
  BY <1>1, <1>2, <1>3, <1>15, <1>16, <1>17 DEF w, u

\* Telling one parent keeps the deliveries in order, and all know of their
\* follow-ups but perhaps the parent of that parent.
LEMMA SyncSane ==
  ASSUME NEW recs, Typed(recs), Linked(recs), Named(recs), \A y \in Deliveries : Good(recs[y]),
         NEW x \in Deliveries, recs[x].parent.kind # "none",
         \A y \in Deliveries : y # x => Told(recs, y)
  PROVE  LET new == sync_parent(recs, x)
             p == recs[x].parent.delivery
         IN  /\ p \in Deliveries /\ p # x /\ Named(new)
             /\ \A y \in Deliveries :
                  /\ Good(new[y]) /\ Mild(new[y], recs[y]) /\ Frozen(new[y], recs[y])
                  /\ new[y].parent = recs[y].parent
                  /\ y # p => Told(new, y)
<1> DEFINE p == recs[x].parent.delivery
           n == recs[x].parent.event
           l == recs[p].events[n].leg
           c == complete(recs[x])
           w == progress([recs[p] EXCEPT !.events[n].complete = c], recs[p].events[n].leg)
           new == sync_parent(recs, x)
<1>1. /\ p \in Deliveries /\ n \in DOMAIN recs[p].events /\ l \in DOMAIN recs[p].legs
      /\ recs[p].legs[l].status \in Executed
  BY DEF Linked, LinkOK, part_of
<1>2. progress([recs[p] EXCEPT !.events[n].complete = c], l) = w
  <2> DEFINE told == [recs[p] EXCEPT !.events[n].complete = c]
  <2> HIDE DEF told
  <2> QED OBVIOUS
<1>3. new = [recs EXCEPT ![p] = w]
  BY <1>2 DEF sync_parent, part_of
<1>4. /\ recs[p].events[n].child = x
      /\ recs[p].parent.kind # "none" => recs[recs[p].parent.delivery].parent.kind = "none"
  BY DEF Named
<1>5. p # x
  BY <1>4
<1>6. c \in BOOLEAN
  BY DEF complete
<1>7. recs[x].parent.delivery = p /\ recs[x].parent.event = n /\ complete(recs[x]) = c
  OBVIOUS
<1> HIDE DEF p, n, c
<1>8. IsValue(recs[p]) /\ Good(recs[p]) /\ recs[p].events[n].child # None
  BY <1>1, <1>4, DeliveriesAssumption DEF Typed
<1>9. /\ Good(w) /\ Mild(w, recs[p]) /\ Frozen(w, recs[p]) /\ w.parent = recs[p].parent
      /\ SameStatements(w, recs[p]) /\ w.events[n].complete = c
      /\ \A i \in DOMAIN recs[p].events : i # n => w.events[i] = recs[p].events[i]
  BY <1>1, <1>6, <1>8, ToldGood DEF l
<1> HIDE DEF w, l, new
<1>10. /\ new[p] = w /\ \A y \in Deliveries : y # p => new[y] = recs[y]
  BY <1>1, <1>3 DEF Typed
<1>11. \A y \in Deliveries :
          /\ Good(new[y]) /\ Mild(new[y], recs[y]) /\ Frozen(new[y], recs[y])
          /\ new[y].parent = recs[y].parent
  BY <1>9, <1>10, MildReflexive
<1>12. Named(new)
  <2> SUFFICES ASSUME NEW y \in Deliveries, new[y].parent.kind # "none"
               PROVE  LET link == new[y].parent
                      IN  /\ new[link.delivery].events[link.event].child = y
                          /\ new[link.delivery].events[link.event].resolution = link.kind
                          /\ new[link.delivery].parent.kind # "none" =>
                               new[new[link.delivery].parent.delivery].parent.kind = "none"
    BY DEF Named
  <2> DEFINE q == recs[y].parent.delivery
             m == recs[y].parent.event
  <2>1. new[y].parent = recs[y].parent
    BY <1>11
  <2>2. /\ q \in Deliveries /\ m \in DOMAIN recs[q].events
        /\ recs[q].parent.kind # "none" => recs[q].parent.delivery \in Deliveries
    BY <2>1 DEF Linked, LinkOK
  <2>3. /\ recs[q].events[m].child = y /\ recs[q].events[m].resolution = recs[y].parent.kind
        /\ recs[q].parent.kind # "none" => recs[recs[q].parent.delivery].parent.kind = "none"
    BY <2>1 DEF Named
  <2> HIDE DEF q, m
  <2>4. /\ new[q].events[m].child = y /\ new[q].events[m].resolution = recs[y].parent.kind
    BY <1>9, <1>10, <2>2, <2>3 DEF SameStatements
  <2>5. new[q].parent.kind # "none" => new[new[q].parent.delivery].parent.kind = "none"
    BY <1>11, <2>2, <2>3
  <2> QED
    BY <2>1, <2>4, <2>5 DEF q, m
<1>13. ASSUME NEW y \in Deliveries, y # p PROVE Told(new, y)
  <2> SUFFICES ASSUME recs[y].parent.kind # "none"
               PROVE  new[recs[y].parent.delivery].events[recs[y].parent.event].complete
                        = complete(recs[y])
    BY <1>10, <1>13 DEF Told
  <2> DEFINE q == recs[y].parent.delivery
             m == recs[y].parent.event
  <2>1. /\ q \in Deliveries /\ m \in DOMAIN recs[q].events
        /\ recs[q].events[m].child = y
        /\ y # x => recs[q].events[m].complete = complete(recs[y])
        /\ y = x => q = p /\ m = n
    BY <1>7 DEF Linked, LinkOK, Named, Told
  <2> HIDE DEF q, m
  <2>2. new[q].events[m].complete = complete(recs[y])
    <3>1. CASE y = x
      BY <1>7, <1>9, <1>10, <2>1, <3>1
    <3>2. CASE y # x /\ q = p
      <4>1. m # n
        BY <1>4, <2>1, <3>2
      <4>2. new[q].events[m] = recs[q].events[m]
        BY <1>9, <1>10, <2>1, <3>2, <4>1
      <4> QED
        BY <2>1, <3>2, <4>2
    <3>3. CASE y # x /\ q # p
      BY <1>10, <2>1, <3>3
    <3> QED
      BY <3>1, <3>2, <3>3
  <2> QED
    BY <2>2 DEF q, m
<1> QED
  BY <1>1, <1>5, <1>11, <1>12, <1>13 DEF p, new

\* So does saving: in the end every delivery knows of its follow-ups.
LEMMA SaveSane ==
  ASSUME NEW recs, Typed(recs), Linked(recs), Named(recs), \A y \in Deliveries : Good(recs[y]),
         NEW d \in Deliveries, \A y \in Deliveries : y # d => Told(recs, y), save_all(recs, d)
  PROVE  /\ Named(deliveries')
         /\ \A y \in Deliveries :
              /\ Good(deliveries'[y]) /\ Told(deliveries', y)
              /\ Mild(deliveries'[y], recs[y]) /\ Frozen(deliveries'[y], recs[y])
              /\ deliveries'[y].parent = recs[y].parent
<1> DEFINE up == recs[d].parent.delivery
           once == sync_parent(recs, d)
<1>1. CASE ~reports(recs, d)
  <2>1. deliveries' = recs
    BY <1>1 DEF save_all
  <2>2. Told(recs, d)
    BY <1>1 DEF reports, Told
  <2> DEFINE new == deliveries'
  <2> HIDE DEF new
  <2>3. /\ Named(new)
        /\ \A y \in Deliveries :
              /\ Good(new[y]) /\ Told(new, y) /\ Mild(new[y], recs[y]) /\ Frozen(new[y], recs[y])
              /\ new[y].parent = recs[y].parent
    BY <2>1, <2>2, MildReflexive DEF new
  <2> QED
    BY <2>3 DEF new
<1>2. CASE reports(recs, d)
  <2>1. recs[d].parent.kind # "none"
    BY <1>2 DEF reports
  <2>2. /\ up \in Deliveries /\ up # d /\ Named(once)
        /\ \A y \in Deliveries :
             /\ Good(once[y]) /\ Mild(once[y], recs[y]) /\ Frozen(once[y], recs[y])
             /\ once[y].parent = recs[y].parent
             /\ y # up => Told(once, y)
    BY <2>1, SyncSane
  <2>3. Typed(once) /\ Linked(once)
    BY <2>1, SyncKeeps
  <2>4. recs[up].parent.kind # "none" => recs[recs[up].parent.delivery].parent.kind = "none"
    BY <2>1 DEF Named
  <2>5. \/ deliveries' = once /\ ~reports(once, up)
        \/ deliveries' = sync_parent(once, up) /\ reports(once, up)
    BY <1>2 DEF save_all
  <2> DEFINE new == deliveries'
  <2> HIDE DEF up, once, new
  <2>6. CASE new = once /\ ~reports(once, up)
    <3>1. Told(once, up)
      BY <2>6 DEF reports, Told
    <3>2. /\ Named(new)
          /\ \A y \in Deliveries :
                /\ Good(new[y]) /\ Told(new, y) /\ Mild(new[y], recs[y]) /\ Frozen(new[y], recs[y])
                /\ new[y].parent = recs[y].parent
      BY <2>2, <2>6, <3>1
    <3> QED
      BY <3>2 DEF new
  <2>7. CASE new = sync_parent(once, up) /\ reports(once, up)
    <3> DEFINE top == once[up].parent.delivery
    <3>1. once[up].parent.kind # "none"
      BY <2>7 DEF reports
    <3>2. /\ top \in Deliveries /\ top # up /\ Named(new)
          /\ \A y \in Deliveries :
               /\ Good(new[y]) /\ Mild(new[y], once[y]) /\ Frozen(new[y], once[y])
               /\ new[y].parent = once[y].parent
               /\ y # top => Told(new, y)
      BY <2>2, <2>3, <2>7, <3>1, SyncSane
    <3>3. once[up].parent = recs[up].parent /\ new[top].parent = recs[top].parent
      BY <2>2, <3>2
    <3> HIDE DEF top
    <3>4. new[top].parent.kind = "none"
      BY <2>4, <3>1, <3>3 DEF top
    <3>5. Told(new, top)
      BY <3>4 DEF Told
    <3>6. \A y \in Deliveries :
             /\ Good(new[y]) /\ Told(new, y) /\ Mild(new[y], recs[y]) /\ Frozen(new[y], recs[y])
             /\ new[y].parent = recs[y].parent
      BY <2>2, <3>2, <3>5, MildTransitive
    <3> QED
      BY <3>2, <3>6 DEF new
  <2> QED
    BY <2>5, <2>6, <2>7 DEF new
<1> QED
  BY <1>1, <1>2

-----------------------------------------------------------------------------
(* Load units and equipment *)

\* A value names a delivery as its parent, or none.
LEMMA ParentTyped ==
  ASSUME NEW recs, Typed(recs), NEW x \in Deliveries
  PROVE  recs[x].parent.delivery \in Deliveries \cup {None}
BY DEF Typed, IsValue, Parent

\* What a leg needs, it still needs in values that have not become milder.
LEMMA MildNeeds ==
  ASSUME NEW v, NEW w, NEW l, MildLeg(w, v, l), ~reopened(w, l),
         NEW o, NEW x, NEW m, MildLeg(x, o, m), ~reopened(x, m),
         w.legs[l].status \in Live, needs(w, l, x, m)
  PROVE  /\ l \in DOMAIN v.legs /\ m \in DOMAIN o.legs
         /\ v.legs[l].status \in Live /\ needs(v, l, o, m)
         /\ apart(v, l, o, m) => apart(w, l, x, m)
<1>1. /\ l \in DOMAIN v.legs /\ v.legs[l].status \in Live
      /\ w.legs[l].plan = v.legs[l].plan /\ selected(w, l) = selected(v, l)
  BY DEF MildLeg
<1>2. /\ m \in DOMAIN o.legs
      /\ x.legs[m].plan = o.legs[m].plan /\ selected(x, m) = selected(o, m)
      /\ x.legs[m].status \in Live => o.legs[m].status \in Live
      /\ x.legs[m].status \in RESERVED /\ ~emptied(x, m) =>
           o.legs[m].status \in RESERVED /\ ~emptied(o, m)
  BY DEF MildLeg, needs
<1>3. needs(v, l, o, m)
  BY <1>1, <1>2 DEF needs
<1>4. apart(v, l, o, m) => apart(w, l, x, m)
  BY <1>1, <1>2 DEF apart
<1> QED
  BY <1>1, <1>2, <1>3, <1>4

\* Deliveries that need no more than before, use what they need in turn.
LEMMA MildInTurn ==
  ASSUME NEW old, NEW new, Typed(old), InTurn(old),
         \A x \in Deliveries : Mild(new[x], old[x]) /\ new[x].parent = old[x].parent
  PROVE  InTurn(new)
<1>1. \A x \in Deliveries : Kin(new, x) = Kin(old, x)
  BY ParentTyped DEF Kin
<1> SUFFICES ASSUME NEW d \in Deliveries, NEW o \in Deliveries, Strangers(new, d, o),
                    NEW l \in DOMAIN new[d].legs, NEW m \in DOMAIN new[o].legs,
                    new[d].legs[l].status \in Live, needs(new[d], l, new[o], m),
                    ~reopened(new[d], l), ~reopened(new[o], m)
             PROVE  apart(new[d], l, new[o], m)
  BY DEF InTurn
<1>2. Strangers(old, d, o)
  BY <1>1 DEF Strangers
<1>3. MildLeg(new[d], old[d], l) /\ MildLeg(new[o], old[o], m)
  BY DEF Mild
<1>4. /\ l \in DOMAIN old[d].legs /\ m \in DOMAIN old[o].legs
      /\ old[d].legs[l].status \in Live /\ needs(old[d], l, old[o], m)
      /\ apart(old[d], l, old[o], m) => apart(new[d], l, new[o], m)
  BY <1>3, MildNeeds
<1>5. ~reopened(old[d], l) /\ ~reopened(old[o], m)
  BY DEF Mild
<1> QED
  BY <1>2, <1>4, <1>5 DEF InTurn

\* A live leg has not been emptied, and its load unit is reserved.
LEMMA LiveHolds ==
  ASSUME NEW v, NEW l, v.legs[l].status \in Live
  PROVE  v.legs[l].status \in RESERVED /\ ~emptied(v, l)
BY DEF Live, RESERVED, emptied

\* A value whose live legs were checked takes its turn (units_free).
LEMMA BoldInTurn ==
  ASSUME Typed(deliveries), InTurn(deliveries), NEW d \in Deliveries, NEW w, IsValue(w),
         w.parent = deliveries[d].parent, units_free(d, w),
         \A l \in DOMAIN w.legs :
           w.legs[l].status \in {"completed", "closed"} => Same(w, deliveries[d], l),
         \A l : reopened(deliveries[d], l) => reopened(w, l)
  PROVE  InTurn([deliveries EXCEPT ![d] = w])
<1> DEFINE recs == [deliveries EXCEPT ![d] = w]
<1>1. Typed(recs) /\ recs[d] = w /\ \A x \in Deliveries : x # d => recs[x] = deliveries[x]
  BY TypedUpdate
<1> HIDE DEF recs
<1>2. \A x \in Deliveries : recs[x].parent = deliveries[x].parent
  BY <1>1
<1>3. \A x \in Deliveries : Kin(recs, x) = Kin(deliveries, x)
  BY <1>2, ParentTyped DEF Kin
<1>4. ancestors(w) = Kin(deliveries, d)
  BY DEF ancestors, Kin
<1> SUFFICES ASSUME NEW x \in Deliveries, NEW o \in Deliveries, Strangers(recs, x, o),
                    NEW l \in DOMAIN recs[x].legs, NEW m \in DOMAIN recs[o].legs,
                    recs[x].legs[l].status \in Live, needs(recs[x], l, recs[o], m),
                    ~reopened(recs[x], l), ~reopened(recs[o], m)
             PROVE  apart(recs[x], l, recs[o], m)
  BY DEF InTurn, recs
<1>5. Strangers(deliveries, x, o)
  BY <1>3 DEF Strangers
<1>6. CASE x # d /\ o # d
  BY <1>1, <1>5, <1>6 DEF InTurn
<1>7. CASE x = d
  <2>1. o \in Deliveries \ ({d} \cup ancestors(w))
    BY <1>4, <1>5, <1>7 DEF Strangers
  <2> QED
    BY <1>1, <1>7, <2>1 DEF units_free, separate
<1>8. CASE o = d /\ x # d
  <2>1. x \in Deliveries \ ({d} \cup ancestors(w))
    BY <1>4, <1>5, <1>8 DEF Strangers
  <2>2. recs[o] = w /\ recs[x] = deliveries[x]
    BY <1>1, <1>8
  <2>3. CASE w.legs[m].status \in Live
    <3>1. deliveries[x].legs[l].status \in RESERVED /\ ~emptied(deliveries[x], l)
      BY <2>2, LiveHolds
    <3>2. needs(w, m, deliveries[x], l)
      BY <2>2, <2>3, <3>1 DEF needs
    <3>3. separate(w, m, deliveries[x], l)
      BY <2>1, <2>2, <2>3, <3>2 DEF units_free
    <3> QED
      BY <2>2, <3>3 DEF separate, apart
  <2>4. CASE w.legs[m].status \notin Live
    <3>1. w.legs[m].status \in {"completed", "closed"}
      BY <2>2, <2>4 DEF needs, RESERVED, Live
    <3>2. Same(w, deliveries[d], m)
      BY <2>2, <3>1
    <3>3. MildLeg(w, deliveries[d], m)
      BY <3>2, SameMild
    <3>4. MildLeg(deliveries[x], deliveries[x], l)
      BY <2>2 DEF MildLeg
    <3>5. /\ l \in DOMAIN deliveries[x].legs /\ m \in DOMAIN deliveries[d].legs
          /\ needs(deliveries[x], l, deliveries[d], m)
          /\ apart(deliveries[x], l, deliveries[d], m) => apart(deliveries[x], l, w, m)
      BY <2>2, <3>3, <3>4, MildNeeds
    <3> QED
      BY <1>5, <1>8, <2>2, <3>5 DEF InTurn
  <2> QED
    BY <2>3, <2>4
<1> QED
  BY <1>6, <1>7, <1>8

\* A new delivery that reserves nothing, and that none continues, takes no turn.
LEMMA DraftInTurn ==
  ASSUME NEW recs, Typed(recs), InTurn(recs), NEW c \in Deliveries, NEW child, IsValue(child),
         \A l \in DOMAIN child.legs : child.legs[l].status \notin RESERVED,
         \A x \in Deliveries : recs[x].parent.delivery # c
  PROVE  InTurn([recs EXCEPT ![c] = child])
<1> DEFINE new == [recs EXCEPT ![c] = child]
<1>1. Typed(new) /\ new[c] = child /\ \A x \in Deliveries : x # c => new[x] = recs[x]
  BY TypedUpdate
<1> HIDE DEF new
<1>2. \A x \in Deliveries : x # c => Kin(new, x) = Kin(recs, x)
  BY <1>1, ParentTyped DEF Kin
<1> SUFFICES ASSUME NEW d \in Deliveries, NEW o \in Deliveries, Strangers(new, d, o),
                    NEW l \in DOMAIN new[d].legs, NEW m \in DOMAIN new[o].legs,
                    new[d].legs[l].status \in Live, needs(new[d], l, new[o], m),
                    ~reopened(new[d], l), ~reopened(new[o], m)
             PROVE  apart(new[d], l, new[o], m)
  BY DEF InTurn, new
<1>3. new[d].legs[l].status \in RESERVED /\ new[o].legs[m].status \in RESERVED
  BY DEF needs, Live, RESERVED
<1>4. d # c /\ o # c
  BY <1>1, <1>3
<1>5. Strangers(recs, d, o)
  BY <1>2, <1>4 DEF Strangers
<1> QED
  BY <1>1, <1>4, <1>5 DEF InTurn

-----------------------------------------------------------------------------
(* Requests *)

\* What every request on a delivery keeps.
Proceeds ==
  /\ Sane(deliveries')
  /\ \A x \in Deliveries : Frozen(deliveries'[x], deliveries[x])

\* A value that is drafted, and of which nothing is recorded, is in order.
LEMMA DraftGood ==
  ASSUME NEW v, Rooted(v), v.events = <<>>, \A l \in DOMAIN v.legs : v.legs[l].status = "draft"
  PROVE  Good(v)
<1>1. DOMAIN v.events = {}
  OBVIOUS
<1>2. \A l \in DOMAIN v.legs : LegOK(v, l)
  BY UnreservedOK DEF RESERVED
<1>3. Evidenced(v) /\ Formed(v)
  BY <1>1 DEF Evidenced, Formed
<1>4. \A l, a : load_total(v, l, a) = 0 /\ receipt_totals(v, l, a).quantity = 0
  BY <1>1, <1>3, NothingStated
<1>5. LoadsForward(v)
  BY <1>4 DEF LoadsForward
<1>6. \A l : effective_events(v, l) = {} /\ original(v, l) = {}
  BY <1>1 DEF effective_events, original
<1>7. Corrected(v)
  BY <1>6 DEF Corrected
<1> QED
  BY <1>2, <1>3, <1>5, <1>7 DEF Good

\* An id that is not in use is in order too.
LEMMA EmptyGood == Good(NoDelivery)
<1>1. /\ NoDelivery.legs = <<>> /\ NoDelivery.events = <<>> /\ NoDelivery.parent = NoParent
      /\ NoParent.kind = "none"
  BY DEF NoDelivery, NoParent
<1>2. Rooted(NoDelivery) /\ \A l \in DOMAIN NoDelivery.legs : NoDelivery.legs[l].status = "draft"
  BY <1>1 DEF Rooted
<1> QED
  BY <1>1, <1>2, DraftGood

\* What v is told of its follow-ups, w knows as well.
Extends(w, v) ==
  \A n \in DOMAIN v.events : n \in DOMAIN w.events /\ w.events[n] = v.events[n]

\* Saving deliveries that are in order and take their turns keeps everything.
LEMMA SaveProceeds ==
  ASSUME NEW recs, Typed(recs), Linked(recs), Named(recs), InTurn(recs),
         \A y \in Deliveries : Good(recs[y]) /\ Frozen(recs[y], deliveries[y]),
         NEW d \in Deliveries, \A y \in Deliveries : y # d => Told(recs, y), save_all(recs, d)
  PROVE  Proceeds
<1>1. /\ Named(deliveries')
       /\ \A x \in Deliveries :
            /\ Good(deliveries'[x]) /\ Told(deliveries', x)
            /\ Mild(deliveries'[x], recs[x]) /\ Frozen(deliveries'[x], recs[x])
            /\ deliveries'[x].parent = recs[x].parent
  BY SaveSane
<1>2. InTurn(deliveries')
  <2> DEFINE new == deliveries'
  <2>1. \A x \in Deliveries : Mild(new[x], recs[x]) /\ new[x].parent = recs[x].parent
    BY <1>1
  <2> HIDE DEF new
  <2>2. InTurn(new)
    BY <2>1, MildInTurn
  <2> QED
    BY <2>2 DEF new
<1>3. \A x \in Deliveries : Frozen(deliveries'[x], deliveries[x])
  BY <1>1 DEF Frozen
<1> QED
  BY <1>1, <1>2, <1>3 DEF Proceeds, Sane

\* With a value that is in order and takes its turn, saving keeps everything.
LEMMA RequestSane ==
  ASSUME Sound, Sane(deliveries), NEW d \in Deliveries, NEW w, IsValue(w),
         Continues(w, deliveries[d]), Good(w), Frozen(w, deliveries[d]), Extends(w, deliveries[d]),
         InTurn([deliveries EXCEPT ![d] = w]), save(d, w)
  PROVE  Proceeds
<1> DEFINE recs == [deliveries EXCEPT ![d] = w]
<1>1. Typed(deliveries) /\ Linked(deliveries)
  BY TypeOKTyped DEF Sound
<1>2. /\ Typed(recs) /\ recs[d] = w /\ InTurn(recs)
      /\ \A x \in Deliveries : x # d => recs[x] = deliveries[x]
  BY <1>1, TypedUpdate
<1>3. save_all(recs, d)
  BY DEF save
<1> HIDE DEF recs
<1>4. /\ \A x \in Deliveries : Continues(recs[x], deliveries[x])
      /\ \A x \in Deliveries : Extends(recs[x], deliveries[x])
  BY <1>2 DEF Continues, Extends
<1>5. Linked(recs)
  BY <1>1, <1>4, LinksContinue
<1>6. \A x \in Deliveries : recs[x].parent = deliveries[x].parent
  BY <1>4 DEF Continues
<1>7. \A x \in Deliveries : deliveries[x].parent.kind # "none" =>
        LET q == deliveries[x].parent.delivery
            n == deliveries[x].parent.event
        IN  /\ q \in Deliveries
            /\ recs[q].events[n] = deliveries[q].events[n] /\ recs[q].parent = deliveries[q].parent
            /\ deliveries[q].parent.kind # "none" => deliveries[q].parent.delivery \in Deliveries
  BY <1>1, <1>4, <1>6 DEF Linked, LinkOK, Extends
<1>8. Named(recs)
  <2> SUFFICES ASSUME NEW x \in Deliveries, recs[x].parent.kind # "none"
               PROVE  LET link == recs[x].parent
                      IN  /\ recs[link.delivery].events[link.event].child = x
                          /\ recs[link.delivery].events[link.event].resolution = link.kind
                          /\ recs[link.delivery].parent.kind # "none" =>
                               recs[recs[link.delivery].parent.delivery].parent.kind = "none"
    BY DEF Named
  <2> DEFINE q == deliveries[x].parent.delivery
             n == deliveries[x].parent.event
  <2>1. recs[x].parent = deliveries[x].parent /\ deliveries[x].parent.kind # "none"
    BY <1>6
  <2>2. /\ q \in Deliveries
        /\ recs[q].events[n] = deliveries[q].events[n] /\ recs[q].parent = deliveries[q].parent
        /\ deliveries[q].parent.kind # "none" => deliveries[q].parent.delivery \in Deliveries
    BY <1>7, <2>1
  <2>3. /\ deliveries[q].events[n].child = x
        /\ deliveries[q].events[n].resolution = deliveries[x].parent.kind
        /\ deliveries[q].parent.kind # "none" =>
             deliveries[deliveries[q].parent.delivery].parent.kind = "none"
    BY <2>1 DEF Sane, Named
  <2> HIDE DEF q, n
  <2>4. recs[q].parent.kind # "none" => recs[recs[q].parent.delivery].parent.kind = "none"
    BY <1>6, <2>2, <2>3
  <2> QED
    BY <2>1, <2>2, <2>3, <2>4 DEF q, n
<1>9. \A x \in Deliveries : x # d => Told(recs, x)
  <2> TAKE x \in Deliveries
  <2> HAVE x # d
  <2>1. complete(recs[x]) = complete(deliveries[x]) /\ Told(deliveries, x)
    BY <1>2 DEF Sane
  <2> QED
    BY <1>6, <1>7, <2>1 DEF Told
<1>10. \A x \in Deliveries : Good(recs[x])
  BY <1>2 DEF Sane
<1>11. \A x \in Deliveries : Frozen(recs[x], deliveries[x])
  BY <1>2, MildReflexive
<1> QED
  BY <1>2, <1>3, <1>5, <1>8, <1>9, <1>10, <1>11, SaveProceeds

\* A value that needs no more than the one it replaces takes its turn.
LEMMA MildRequest ==
  ASSUME Typed(deliveries), InTurn(deliveries), NEW d \in Deliveries, NEW w, IsValue(w),
         w.parent = deliveries[d].parent, Mild(w, deliveries[d])
  PROVE  InTurn([deliveries EXCEPT ![d] = w])
<1> DEFINE recs == [deliveries EXCEPT ![d] = w]
<1>1. Typed(recs) /\ recs[d] = w /\ \A x \in Deliveries : x # d => recs[x] = deliveries[x]
  BY TypedUpdate
<1> HIDE DEF recs
<1>2. \A x \in Deliveries : Mild(recs[x], deliveries[x]) /\ recs[x].parent = deliveries[x].parent
  BY <1>1, MildReflexive
<1>3. InTurn(recs)
  BY <1>2, MildInTurn
<1> QED
  BY <1>3 DEF recs

-----------------------------------------------------------------------------
(* Office actions *)

\* Another status or review of one leg leaves the other legs what they are.
LEMMA SetLegExact ==
  ASSUME NEW v, IsValue(v), NEW l \in DOMAIN v.legs, NEW leg, IsLeg(leg),
         leg.plan = v.legs[l].plan
  PROVE  LET w == [v EXCEPT !.legs[l] = leg]
         IN  /\ IsValue(w) /\ w.events = v.events /\ w.parent = v.parent /\ w.allocs = v.allocs
             /\ w.sources = v.sources /\ w.unpacked = v.unpacked
             /\ DOMAIN w.legs = DOMAIN v.legs /\ w.legs[l] = leg
             /\ \A k \in DOMAIN v.legs : /\ fingerprint(w, k) = fingerprint(v, k)
                                         /\ SameEvidence(w, v, k)
                                         /\ k # l => Same(w, v, k)
<1> DEFINE legs == [v.legs EXCEPT ![l] = leg]
           w == [v EXCEPT !.legs[l] = leg]
<1>1. w = [v EXCEPT !.legs = legs]
  OBVIOUS
<1>2. AreLegs(v.legs)
  BY DEF IsValue
<1>3. /\ AreLegs(legs) /\ DOMAIN legs = DOMAIN v.legs /\ legs[l] = leg
      /\ \A k \in DOMAIN v.legs : k # l => legs[k] = v.legs[k]
  BY <1>2, LegUpdate
<1> HIDE DEF legs, w
<1>4. /\ IsValue(w) /\ w.legs = legs /\ w.events = v.events /\ w.parent = v.parent
      /\ w.allocs = v.allocs /\ w.sources = v.sources /\ w.unpacked = v.unpacked
  BY <1>1, <1>3, WithLegs
<1>5. \A k \in DOMAIN v.legs : w.legs[k].plan = v.legs[k].plan
  BY <1>3, <1>4
<1>6. \A k \in DOMAIN v.legs : fingerprint(w, k) = fingerprint(v, k)
  BY <1>4, <1>5, FingerprintKept
<1>7. \A k : SameEvidence(w, v, k)
  BY <1>4, EqualEvents
<1>8. \A k \in DOMAIN v.legs : k # l => Same(w, v, k)
  BY <1>3, <1>4, <1>6, <1>7 DEF Same
<1> QED
  BY <1>3, <1>4, <1>6, <1>7, <1>8 DEF w

\* An office action keeps everything if it leaves its leg in order.
LEMMA SetLegSane ==
  ASSUME Sound, Sane(deliveries), NEW d \in Deliveries, NEW l \in DOMAIN deliveries[d].legs,
         NEW leg, IsLeg(leg), set_leg(d, l, leg), leg.plan = deliveries[d].legs[l].plan,
         deliveries[d].legs[l].status \in Executed =>
           leg.status \in Executed /\ leg.review = deliveries[d].legs[l].review,
         LegOK([deliveries[d] EXCEPT !.legs[l] = leg], l),
         \/ InTurn([deliveries EXCEPT ![d] = [deliveries[d] EXCEPT !.legs[l] = leg]])
         \/ MildLeg([deliveries[d] EXCEPT !.legs[l] = leg], deliveries[d], l)
  PROVE  Proceeds
<1> DEFINE v == deliveries[d]
           w == [v EXCEPT !.legs[l] = leg]
<1>1. IsValue(v) /\ Good(v) /\ Typed(deliveries) /\ InTurn(deliveries)
  BY TypeOKTyped DEF Sound, TypeOK, Sane
<1>2. save(d, w)
  BY DEF set_leg
<1>3. /\ LegOK(w, l)
      /\ InTurn([deliveries EXCEPT ![d] = w]) \/ MildLeg(w, v, l)
  OBVIOUS
<1>4. /\ IsValue(w) /\ w.events = v.events /\ w.parent = v.parent /\ w.allocs = v.allocs
      /\ w.sources = v.sources /\ w.unpacked = v.unpacked
      /\ DOMAIN w.legs = DOMAIN v.legs /\ w.legs[l] = leg
      /\ \A k \in DOMAIN v.legs : /\ fingerprint(w, k) = fingerprint(v, k)
                                  /\ SameEvidence(w, v, k)
                                  /\ k # l => Same(w, v, k)
  BY <1>1, SetLegExact
<1> HIDE DEF w
<1>5. \A k \in DOMAIN w.legs : LegOK(w, k)
  BY <1>1, <1>3, <1>4, SameTells DEF Good
<1>6. \A k \in DOMAIN v.legs : v.legs[k].status \in Executed =>
        w.legs[k].status \in Executed /\ w.legs[k].review = v.legs[k].review
  BY <1>4 DEF Same
<1>7. Frozen(w, v) /\ Continues(w, v) /\ Extends(w, v)
  BY <1>4, <1>6 DEF Frozen, Continues, Extends
<1>8. Rooted(w) /\ Evidenced(w) /\ Formed(w)
  BY <1>1, <1>4, <1>6 DEF Good, Rooted, Evidenced, Formed
<1>9. /\ \A k : /\ effective_events(w, k) = effective_events(v, k)
                /\ original(w, k) = original(v, k)
                /\ SameEvidence(w, v, k)
  BY <1>4, EqualEvents
<1>10. LoadsForward(w) /\ Corrected(w)
  BY <1>1, <1>4, <1>9 DEF Good, LoadsForward, Corrected, previous, SameEvidence
<1>11. Good(w)
  BY <1>5, <1>8, <1>10 DEF Good
<1>12. InTurn([deliveries EXCEPT ![d] = w])
  <2> SUFFICES ASSUME MildLeg(w, v, l) PROVE InTurn([deliveries EXCEPT ![d] = w])
    BY <1>3
  <2>1. Mild(w, v)
    BY <1>4, <1>9, SameMild DEF Mild, SameEvidence
  <2> QED
    BY <1>1, <1>4, <2>1, MildRequest
<1> QED
  BY <1>2, <1>4, <1>7, <1>11, <1>12, RequestSane

\* A reserved leg of which nothing is recorded is unresolved and consistent.
LEMMA NothingRecorded ==
  ASSUME NEW v, IsValue(v), Formed(v), Evidenced(v), NEW l \in DOMAIN v.legs,
         v.legs[l].status \notin Executed, selected(v, l) # {}
  PROVE  consistent(v, l) /\ unresolved(v, l) # {}
<1>1. \A i \in DOMAIN v.events : v.events[i].leg = l => v.events[i].kind = "unpack"
  BY DEF Evidenced
<1>2. \A a : /\ load_total(v, l, a) = 0 /\ ~resolved(v, l, a)
             /\ receipt_totals(v, l, a).quantity = 0 /\ receipt_totals(v, l, a).damaged = 0
             /\ receipt_totals(v, l, a).refused = 0
  BY <1>1, NothingStated
<1>3. \A a \in selected(v, l) : v.allocs[a].qty[l] \in 1..MaxQuantity
  BY DEF selected, IsValue, AreAllocations, IsAllocation
<1>4. consistent(v, l)
  <2> SUFFICES ASSUME NEW a \in selected(v, l)
               PROVE  /\ load_total(v, l, a) <= v.allocs[a].qty[l]
                      /\ receipt_totals(v, l, a).quantity + receipt_totals(v, l, a).refused
                           <= load_total(v, l, a)
                      /\ receipt_totals(v, l, a).damaged <= receipt_totals(v, l, a).quantity
    BY DEF consistent
  <2>1. v.allocs[a].qty[l] \in Nat
    BY <1>3, DeliveriesAssumption
  <2> QED
    BY <1>2, <2>1
<1>5. unresolved(v, l) # {}
  <2>1. PICK a \in selected(v, l) : TRUE
    OBVIOUS
  <2>2. v.allocs[a].qty[l] \in Nat /\ v.allocs[a].qty[l] # 0
    BY <1>3, DeliveriesAssumption
  <2> DEFINE whole == [quantity |-> v.allocs[a].qty[l], damaged |-> 0, refused |-> 0]
  <2>3. whole.quantity = v.allocs[a].qty[l]
    OBVIOUS
  <2> HIDE DEF whole
  <2>4. receipt_totals(v, l, a) # whole
    BY <1>2, <2>2, <2>3
  <2> QED
    BY <1>2, <2>4 DEF unresolved, whole
<1> QED
  BY <1>4, <1>5

\* plan
LEMMA PlanSane ==
  ASSUME Sound, Sane(deliveries), NEW d \in Deliveries, NEW l \in DOMAIN deliveries[d].legs,
         plan(d, l)
  PROVE  Proceeds
<1> DEFINE v == deliveries[d]
           leg == [v.legs[l] EXCEPT !.status = "planned"]
           w == [v EXCEPT !.legs[l] = leg]
<1>1. IsValue(v) /\ Typed(deliveries) /\ InTurn(deliveries) /\ IsLeg(v.legs[l])
  BY TypeOKTyped DEF Sound, TypeOK, Sane, IsValue, AreLegs
<1>2. v.legs[l].status = "draft" /\ selected(v, l) # {} /\ reserve(d, w) /\ set_leg(d, l, leg)
  BY DEF plan
<1>3. IsLeg(leg) /\ leg.status = "planned" /\ leg.plan = v.legs[l].plan
  BY <1>1 DEF IsLeg, RESERVED
<1> HIDE DEF leg
<1>4. /\ IsValue(w) /\ w.events = v.events /\ w.parent = v.parent
      /\ DOMAIN w.legs = DOMAIN v.legs /\ w.legs[l] = leg /\ fingerprint(w, l) = fingerprint(v, l)
      /\ \A k \in DOMAIN v.legs : k # l => Same(w, v, k)
  BY <1>1, <1>3, SetLegExact
<1>5. LegOK(w, l) /\ InTurn([deliveries EXCEPT ![d] = w])
  <2>1. units_free(d, w)
    BY <1>2 DEF reserve
  <2> HIDE DEF w
  <2>2. selected(w, l) = selected(v, l)
    BY <1>4, FingerprintTells
  <2>3. LegOK(w, l)
    BY <1>2, <1>3, <1>4, <2>2 DEF LegOK, Committed, Executed
  <2>4. \A k \in DOMAIN w.legs : w.legs[k].status \in {"completed", "closed"} => Same(w, v, k)
    BY <1>3, <1>4
  <2>5. \A k : reopened(v, k) => reopened(w, k)
    BY <1>4 DEF reopened
  <2>6. InTurn([deliveries EXCEPT ![d] = w])
    BY <1>1, <1>4, <2>1, <2>4, <2>5, BoldInTurn
  <2> QED
    BY <2>3, <2>6
<1> QED
  BY <1>2, <1>3, <1>5, SetLegSane DEF Executed

\* The other office actions.
LEMMA OfficeSane ==
  ASSUME Sound, Sane(deliveries), NEW d \in Deliveries, NEW l \in DOMAIN deliveries[d].legs,
         unplan(d, l) \/ review(d, l) \/ release(d, l) \/ start(d, l)
           \/ cancel(d, l) \/ close(d, l)
  PROVE  Proceeds
<1> DEFINE v == deliveries[d]
           set(leg) == [v EXCEPT !.legs[l] = leg]
<1>1. IsValue(v) /\ Good(v) /\ IsLeg(v.legs[l]) /\ LegOK(v, l)
  BY TypeOKTyped DEF Sound, TypeOK, Sane, IsValue, AreLegs, Good
<1>2. ASSUME NEW leg, IsLeg(leg), leg.plan = v.legs[l].plan
      PROVE  /\ set(leg).legs[l] = leg /\ fingerprint(set(leg), l) = fingerprint(v, l)
             /\ selected(set(leg), l) = selected(v, l)
             /\ (manual_required(set(leg), l) <=> manual_required(v, l))
             /\ (consistent(set(leg), l) <=> consistent(v, l))
             /\ unresolved(set(leg), l) = unresolved(v, l)
             /\ SameEvidence(set(leg), v, l)
  <2>1. /\ set(leg).legs[l] = leg /\ fingerprint(set(leg), l) = fingerprint(v, l)
        /\ SameEvidence(set(leg), v, l)
    BY <1>1, <1>2, SetLegExact
  <2> HIDE DEF set
  <2>2. selected(set(leg), l) = selected(v, l)
    BY <2>1, FingerprintTells
  <2>3. /\ (manual_required(set(leg), l) <=> manual_required(v, l))
        /\ (consistent(set(leg), l) <=> consistent(v, l))
        /\ unresolved(set(leg), l) = unresolved(v, l)
    BY <2>1, FingerprintReads
  <2> QED
    BY <2>1, <2>2, <2>3
<1> HIDE DEF set
<1>3. ASSUME NEW leg, IsLeg(leg), leg.plan = v.legs[l].plan, set_leg(d, l, leg),
             v.legs[l].status \in Executed =>
               leg.status \in Executed /\ leg.review = v.legs[l].review,
             LegOK(set(leg), l), MildLeg(set(leg), v, l)
      PROVE  Proceeds
  BY <1>3, SetLegSane DEF set
<1>4. CASE unplan(d, l) \/ cancel(d, l)
  <2>1. PICK leg : /\ IsLeg(leg) /\ leg.plan = v.legs[l].plan /\ set_leg(d, l, leg)
                   /\ leg.status \in {"draft", "cancelled"} /\ v.legs[l].status \notin Executed
    <3>1. CASE unplan(d, l)
      <4> DEFINE leg == draft(v.legs[l].plan)
      <4>1. IsLeg(leg) /\ leg.plan = v.legs[l].plan /\ leg.status = "draft"
        BY <1>1 DEF IsLeg, draft
      <4>2. set_leg(d, l, leg) /\ v.legs[l].status \notin Executed
        BY <3>1 DEF unplan, Executed
      <4> QED
        BY <4>1, <4>2
    <3>2. CASE cancel(d, l)
      <4> DEFINE leg == [v.legs[l] EXCEPT !.status = "cancelled"]
      <4>1. IsLeg(leg) /\ leg.plan = v.legs[l].plan /\ leg.status = "cancelled"
        BY <1>1 DEF IsLeg
      <4>2. set_leg(d, l, leg) /\ v.legs[l].status \notin Executed
        BY <3>2 DEF cancel, Executed
      <4> QED
        BY <4>1, <4>2
    <3> QED
      BY <1>4, <3>1, <3>2
  <2>2. set(leg).legs[l] = leg
    BY <1>2, <2>1
  <2>3. LegOK(set(leg), l)
    BY <2>1, <2>2, UnreservedOK DEF RESERVED
  <2>4. MildLeg(set(leg), v, l)
    BY <2>1, <2>2 DEF MildLeg, Live, RESERVED
  <2> QED
    BY <1>3, <2>1, <2>3, <2>4
<1>5. CASE review(d, l)
  <2> DEFINE leg == [v.legs[l] EXCEPT !.review = fingerprint(v, l)]
  <2>1. /\ IsLeg(leg) /\ leg.plan = v.legs[l].plan /\ leg.status = "planned"
        /\ v.legs[l].status = "planned" /\ set_leg(d, l, leg)
    BY <1>1, <1>5 DEF IsLeg, review
  <2> HIDE DEF leg
  <2>2. /\ set(leg).legs[l] = leg /\ selected(set(leg), l) = selected(v, l)
    BY <1>2, <2>1
  <2>3. LegOK(set(leg), l)
    BY <1>1, <2>1, <2>2 DEF LegOK, Committed, Executed, RESERVED
  <2>4. MildLeg(set(leg), v, l)
    BY <2>1, <2>2, LiveHolds DEF MildLeg, Live, RESERVED
  <2> QED
    BY <1>3, <2>1, <2>3, <2>4 DEF Executed
<1>6. CASE release(d, l)
  <2> DEFINE leg == [v.legs[l] EXCEPT !.status = "released"]
  <2>1. /\ IsLeg(leg) /\ leg.plan = v.legs[l].plan /\ leg.status = "released"
        /\ leg.review = v.legs[l].review
        /\ v.legs[l].status = "planned" /\ set_leg(d, l, leg) /\ reviewed(v, l)
    BY <1>1, <1>6 DEF IsLeg, release, RESERVED
  <2> HIDE DEF leg
  <2>2. /\ set(leg).legs[l] = leg /\ selected(set(leg), l) = selected(v, l)
        /\ fingerprint(set(leg), l) = fingerprint(v, l)
        /\ (manual_required(set(leg), l) <=> manual_required(v, l))
    BY <1>2, <2>1
  <2>3. LegOK(set(leg), l)
    BY <1>1, <2>1, <2>2 DEF LegOK, Committed, Executed, RESERVED, reviewed
  <2>4. MildLeg(set(leg), v, l)
    BY <2>1, <2>2, LiveHolds DEF MildLeg, Live, RESERVED
  <2> QED
    BY <1>3, <2>1, <2>3, <2>4 DEF Executed
<1>7. CASE start(d, l)
  <2> DEFINE leg == [v.legs[l] EXCEPT !.status = "in_progress"]
  <2>1. /\ IsLeg(leg) /\ leg.plan = v.legs[l].plan /\ leg.status = "in_progress"
        /\ leg.review = v.legs[l].review
        /\ v.legs[l].status = "released" /\ set_leg(d, l, leg)
    BY <1>1, <1>7 DEF IsLeg, start, RESERVED
  <2> HIDE DEF leg
  <2>2. /\ set(leg).legs[l] = leg /\ selected(set(leg), l) = selected(v, l)
        /\ fingerprint(set(leg), l) = fingerprint(v, l)
        /\ (manual_required(set(leg), l) <=> manual_required(v, l))
        /\ (consistent(set(leg), l) <=> consistent(v, l))
        /\ unresolved(set(leg), l) = unresolved(v, l)
    BY <1>2, <2>1
  <2>3. selected(v, l) # {}
    BY <1>1, <2>1 DEF LegOK, RESERVED
  <2>4. consistent(v, l) /\ unresolved(v, l) # {}
    BY <1>1, <2>1, <2>3, NothingRecorded DEF Good, Executed
  <2>5. LegOK(set(leg), l)
    BY <1>1, <2>1, <2>2, <2>3, <2>4 DEF LegOK, Committed
  <2>6. MildLeg(set(leg), v, l)
    BY <2>1, <2>2, LiveHolds DEF MildLeg, Live, RESERVED
  <2> QED
    BY <1>3, <2>1, <2>5, <2>6 DEF Executed
<1>8. CASE close(d, l)
  <2> DEFINE leg == [v.legs[l] EXCEPT !.status = "closed"]
  <2>1. /\ IsLeg(leg) /\ leg.plan = v.legs[l].plan /\ leg.status = "closed"
        /\ leg.review = v.legs[l].review
        /\ v.legs[l].status = "completed" /\ set_leg(d, l, leg) /\ unresolved(v, l) = {}
    BY <1>1, <1>8 DEF IsLeg, close, RESERVED
  <2> HIDE DEF leg
  <2>2. /\ set(leg).legs[l] = leg /\ selected(set(leg), l) = selected(v, l)
        /\ fingerprint(set(leg), l) = fingerprint(v, l)
        /\ (manual_required(set(leg), l) <=> manual_required(v, l))
        /\ (consistent(set(leg), l) <=> consistent(v, l))
        /\ unresolved(set(leg), l) = unresolved(v, l)
        /\ SameEvidence(set(leg), v, l)
    BY <1>2, <2>1
  <2>3. LegOK(set(leg), l)
    BY <1>1, <2>1, <2>2 DEF LegOK, Committed, Executed, RESERVED
  <2>4. emptied(v, l) => emptied(set(leg), l)
    <3>1. \A a \in selected(v, l) : set(leg).allocs[a].qty[l] = v.allocs[a].qty[l]
      BY <2>2, FingerprintTells
    <3> QED
      BY <2>1, <2>2, <3>1 DEF emptied, SameEvidence, unloaded
  <2>5. MildLeg(set(leg), v, l)
    BY <2>1, <2>2, <2>4 DEF MildLeg, Live, RESERVED
  <2> QED
    BY <1>3, <2>1, <2>3, <2>5 DEF Executed
<1> QED
  BY <1>4, <1>5, <1>6, <1>7, <1>8

-----------------------------------------------------------------------------
(* Planning *)

\* edit
LEMMA EditSane ==
  ASSUME Sound, Sane(deliveries), NEW d \in Deliveries, NEW p, IsDeliveryIn(p), edit(d, p)
  PROVE  Proceeds
<1> DEFINE v == deliveries[d]
           w == edited(d, p)
<1>1. IsValue(v) /\ Good(v) /\ Typed(deliveries) /\ InTurn(deliveries)
  BY TypeOKTyped DEF Sound, TypeOK, Sane
<1>2. /\ IsValue(w) /\ Continues(w, v) /\ save(d, w) /\ reserve(d, w)
      /\ w.events = v.events /\ w.parent = v.parent /\ preserve(v, w) /\ keeps_frozen(v, w)
      /\ \A l \in DOMAIN w.legs :
           IF l \in DOMAIN v.legs /\ v.legs[l].status # "draft"
           THEN w.legs[l].status = v.legs[l].status /\ w.legs[l].review = v.legs[l].review
           ELSE w.legs[l].status = "draft"
  BY EditTyped
<1> HIDE DEF w
<1>3. \A l : /\ effective_events(w, l) = effective_events(v, l) /\ original(w, l) = original(v, l)
             /\ SameEvidence(w, v, l)
  BY <1>2, EqualEvents
<1>4. ASSUME NEW l \in DOMAIN v.legs, v.legs[l].status # "draft"
      PROVE  Same(w, v, l)
  <2>1. l \in DOMAIN w.legs /\ fingerprint(w, l) = fingerprint(v, l)
    BY <1>2, <1>4 DEF keeps_frozen
  <2> QED
    BY <1>2, <1>3, <1>4, <2>1 DEF Same
<1>5. \A l \in DOMAIN w.legs : Same(w, v, l) \/ w.legs[l].status = "draft"
  BY <1>2, <1>4
<1>6. ASSUME NEW l \in DOMAIN w.legs PROVE LegOK(w, l)
  <2>1. CASE Same(w, v, l)
    BY <1>1, <2>1, SameTells DEF Good, Same
  <2>2. CASE w.legs[l].status = "draft"
    BY <2>2, UnreservedOK DEF RESERVED
  <2> QED
    BY <1>5, <2>1, <2>2
<1>7. Frozen(w, v) /\ Extends(w, v)
  BY <1>2, <1>4 DEF Frozen, Extends, Same, Executed
<1>8. Rooted(w)
  BY <1>1, <1>2 DEF Good, Rooted, preserve
<1>9. Evidenced(w) /\ Formed(w) /\ Corrected(w)
  BY <1>1, <1>2, <1>3, <1>7 DEF Good, Evidenced, Formed, Corrected, Frozen
<1>10. LoadsForward(w)
  <2> SUFFICES ASSUME NEW a \in DOMAIN w.allocs, NEW l \in DOMAIN w.allocs[a].qty,
                      NEW before \in previous(w, a, l)
               PROVE  load_total(w, l, a) <= receipt_totals(w, before, a).quantity
    BY DEF LoadsForward
  <2>1. l \in DOMAIN w.legs /\ a \in selected(w, l)
    BY <1>2 DEF IsValue, AreAllocations, selected
  <2>2. /\ load_total(w, l, a) = load_total(v, l, a)
        /\ receipt_totals(w, before, a) = receipt_totals(v, before, a)
    BY <1>3 DEF SameEvidence
  <2>3. CASE Same(w, v, l)
    <3>1. fingerprint(w, l) = fingerprint(v, l)
      BY <2>3 DEF Same
    <3>2. selected(w, l) = selected(v, l) /\ w.allocs[a].path = v.allocs[a].path
      BY <2>1, <3>1, FingerprintTells
    <3>3. a \in DOMAIN v.allocs /\ l \in DOMAIN v.allocs[a].qty /\ before \in previous(v, a, l)
      BY <2>1, <3>2 DEF selected, previous
    <3> QED
      BY <1>1, <2>2, <3>3 DEF Good, LoadsForward
  <2>4. CASE w.legs[l].status = "draft"
    <3>1. \A i \in DOMAIN w.events : w.events[i].leg = l => w.events[i].kind = "unpack"
      BY <1>9, <2>4 DEF Evidenced, Executed
    <3>2. load_total(w, l, a) = 0
      BY <1>9, <3>1, NothingStated
    <3>3. receipt_totals(w, before, a).quantity \in Nat
      BY <1>2, ReceiptsNat
    <3> QED
      BY <3>2, <3>3
  <2> QED
    BY <1>5, <2>1, <2>3, <2>4
<1>11. Good(w)
  BY <1>6, <1>8, <1>9, <1>10 DEF Good
<1>12. InTurn([deliveries EXCEPT ![d] = w])
  <2>1. units_free(d, w)
    BY <1>2 DEF reserve
  <2>2. \A l \in DOMAIN w.legs : w.legs[l].status \in {"completed", "closed"} => Same(w, v, l)
    BY <1>5
  <2>3. \A l : reopened(v, l) => reopened(w, l)
    BY <1>3 DEF SameEvidence
  <2> QED
    BY <1>1, <1>2, <2>1, <2>2, <2>3, BoldInTurn
<1> QED
  BY <1>2, <1>7, <1>11, <1>12, RequestSane

\* create: drafts need nothing.
LEMMA CreateSane ==
  ASSUME Sound, Sane(deliveries), NEW d \in Deliveries, NEW p, IsDeliveryIn(p), create(d, p)
  PROVE  Proceeds
<1>1. PICK w : /\ IsValue(w) /\ Continues(w, deliveries[d]) /\ save(d, w)
               /\ w.events = <<>> /\ w.parent = NoParent
               /\ \A l \in DOMAIN w.legs : w.legs[l].status = "draft"
  BY CreateTyped
<1>2. deliveries[d] = NoDelivery
  BY CreateTyped
<1>3. /\ deliveries[d].legs = <<>> /\ deliveries[d].events = <<>>
      /\ deliveries[d].parent = NoParent /\ NoParent.kind = "none"
  BY <1>2 DEF NoDelivery, NoParent
<1>4. Good(w)
  BY <1>1, <1>3, DraftGood DEF Rooted
<1>5. Frozen(w, deliveries[d]) /\ Extends(w, deliveries[d])
  BY <1>1, <1>3 DEF Frozen, Extends
<1>6. Mild(w, deliveries[d])
  <2>1. \A l \in DOMAIN w.legs : MildLeg(w, deliveries[d], l)
    BY <1>1 DEF MildLeg, Live, RESERVED
  <2>2. \A l : ~reopened(deliveries[d], l)
    BY <1>3 DEF reopened
  <2> QED
    BY <2>1, <2>2 DEF Mild
<1>7. InTurn([deliveries EXCEPT ![d] = w])
  BY <1>1, <1>3, <1>6, MildRequest, TypeOKTyped DEF Sound, Sane
<1> QED
  BY <1>1, <1>4, <1>5, <1>7, RequestSane

-----------------------------------------------------------------------------
(* Recording evidence *)

\* recorded adds its event and moves the leg of that event, and no more.
LEMMA RecordedExact ==
  ASSUME NEW d, IsValue(deliveries[d]), NEW e, IsEvent(e),
         e.leg \in DOMAIN deliveries[d].legs, deliveries[d].legs[e.leg].status \in Committed
  PROVE  LET v == deliveries[d]
             w == recorded(d, e)
         IN  /\ IsValue(w) /\ Continues(w, v) /\ Extends(w, v) /\ Frozen(w, v) /\ Appended(w, v, e)
             /\ w.parent = v.parent /\ w.allocs = v.allocs
             /\ w.sources = v.sources /\ w.unpacked = v.unpacked
             /\ DOMAIN w.legs = DOMAIN v.legs
             /\ w.legs[e.leg].status = IF unresolved(w, e.leg) = {} THEN "completed" ELSE "in_progress"
             /\ w.legs[e.leg].review = v.legs[e.leg].review
             /\ \A k \in DOMAIN v.legs : /\ w.legs[k].plan = v.legs[k].plan
                                         /\ fingerprint(w, k) = fingerprint(v, k)
                                         /\ k # e.leg => Same(w, v, k)
<1> DEFINE v == deliveries[d]
           u == [v EXCEPT !.events = Append(v.events, e)]
           w == recorded(d, e)
           n == Len(v.events)
<1>1. IsValue(v) /\ e.leg \in DOMAIN v.legs /\ w = progress(u, e.leg)
  BY DEF recorded
<1>2. /\ IsValue(w) /\ Continues(w, v)
      /\ n \in Nat /\ DOMAIN v.events = 1..n /\ DOMAIN w.events = 1..(n + 1)
      /\ w.events[n + 1] = e /\ \A i \in DOMAIN v.events : w.events[i] = v.events[i]
  BY RecordedTyped DEF Committed
<1> HIDE DEF v, n
<1>3. /\ IsValue(u) /\ u.legs = v.legs /\ u.allocs = v.allocs /\ u.sources = v.sources
      /\ u.parent = v.parent /\ u.unpacked = v.unpacked
  BY <1>1, AppendedTyped
<1> HIDE DEF u
<1>4. /\ w.parent = u.parent /\ w.allocs = u.allocs
      /\ w.sources = u.sources /\ w.unpacked = u.unpacked
      /\ DOMAIN w.legs = DOMAIN u.legs
      /\ \A k \in DOMAIN u.legs :
           /\ w.legs[k].plan = u.legs[k].plan /\ w.legs[k].review = u.legs[k].review
           /\ k # e.leg => w.legs[k] = u.legs[k]
      /\ w.legs[e.leg].status = IF unresolved(w, e.leg) = {} THEN "completed" ELSE "in_progress"
  BY <1>1, <1>3, ProgressExact
<1> HIDE DEF w
<1>5. Appended(w, v, e) /\ Extends(w, v)
  <2>1. Appended(w, v, e)
    BY <1>2 DEF Appended
  <2>2. Extends(w, v)
    BY <1>2 DEF Extends
  <2> QED
    BY <2>1, <2>2
<1>6. \A k \in DOMAIN v.legs : fingerprint(w, k) = fingerprint(v, k)
  BY <1>3, <1>4, FingerprintKept
<1>7. \A k \in DOMAIN v.legs : k # e.leg => Same(w, v, k)
  BY <1>3, <1>4, <1>5, <1>6, AppendOther DEF Same
<1>8. Frozen(w, v)
  BY <1>1, <1>3, <1>4, <1>6 DEF Frozen, Executed
<1> QED
  BY <1>1, <1>2, <1>3, <1>4, <1>5, <1>6, <1>7, <1>8 DEF v, w

\* The leg before a leg on an itinerary is another one, and the leg follows it.
LEMMA PreviousFollowing ==
  ASSUME NEW v, IsValue(v), NEW a \in DOMAIN v.allocs, NEW f \in DOMAIN v.allocs[a].qty,
         NEW before \in previous(v, a, f)
  PROVE  before # f /\ a \in selected(v, before) /\ f \in following(v, a, before)
<1> DEFINE path == v.allocs[a].path
<1>1. IsAllocation(v.allocs[a])
  BY DEF IsValue, AreAllocations
<1>2. /\ path \in Seq(Legs) /\ DOMAIN v.allocs[a].qty = Range(path)
      /\ \A i, j \in DOMAIN path : i < j => path[i] # path[j]
  BY <1>1 DEF IsAllocation
<1>3. PICK i \in DOMAIN path : i + 1 \in DOMAIN path /\ path[i + 1] = f /\ path[i] = before
  BY DEF previous
<1>4. DOMAIN path = 1..Len(path) /\ Len(path) \in Nat
  BY <1>2
<1>5. path[i] # path[i + 1] /\ path[i] \in Range(path)
  BY <1>2, <1>3, <1>4 DEF Range
<1>6. i \in 1..((i + 1) - 1)
  BY <1>3, <1>4
<1>7. \E j \in DOMAIN path : (\E k \in 1..(j - 1) : path[k] = before) /\ path[j] = f
  BY <1>3, <1>6
<1>8. f \in following(v, a, before)
  BY <1>7 DEF following
<1> QED
  BY <1>2, <1>3, <1>5, <1>8 DEF selected

\* What is stated of goods that had arrived, and is consistent, loads no more
\* than the leg before it received.
LEMMA AppendForward ==
  ASSUME NEW v, IsValue(v), Formed(v), Evidenced(v), LoadsForward(v),
         NEW w, IsValue(w), w.allocs = v.allocs, NEW e, Appended(w, v, e),
         \A a \in DOMAIN e.lines : arrived(v, e.leg, a), consistent(w, e.leg),
         e.kind = "correction" => /\ not_followed(v, e.leg) /\ e.corrects \in DOMAIN v.events
                                  /\ DOMAIN v.events[e.corrects].lines = DOMAIN e.lines
  PROVE  LoadsForward(w)
<1> SUFFICES ASSUME NEW a \in DOMAIN v.allocs, NEW f \in DOMAIN v.allocs[a].qty,
                    NEW before \in previous(v, a, f)
             PROVE  load_total(w, f, a) <= receipt_totals(w, before, a).quantity
  BY DEF LoadsForward, previous
<1>1. before # f /\ a \in selected(v, before) /\ f \in following(v, a, before)
  BY PreviousFollowing
<1>2. load_total(v, f, a) <= receipt_totals(v, before, a).quantity
  BY DEF LoadsForward
<1>3. CASE f = e.leg
  <2>1. receipt_totals(w, before, a) = receipt_totals(v, before, a)
    BY <1>1, <1>3, AppendOther DEF SameEvidence
  <2>2. CASE a \in DOMAIN e.lines
    <3>1. receipt_totals(v, before, a).quantity >= v.allocs[a].qty[f]
      BY <1>3, <2>2 DEF arrived
    <3>2. load_total(w, f, a) <= v.allocs[a].qty[f]
      BY <1>3 DEF consistent, selected
    <3>3. v.allocs[a].qty[f] \in Nat
      <4>1. v.allocs[a].qty[f] \in 1..MaxQuantity
        BY DEF IsValue, AreAllocations, IsAllocation
      <4> QED
        BY <4>1, DeliveriesAssumption
    <3>4. load_total(w, f, a) \in Nat /\ receipt_totals(v, before, a).quantity \in Nat
      BY ReceiptsNat
    <3> QED
      BY <2>1, <3>1, <3>2, <3>3, <3>4
  <2>3. CASE a \notin DOMAIN e.lines
    <3>1. load_total(w, f, a) = load_total(v, f, a)
      BY <2>3, AppendElsewhere
    <3> QED
      BY <1>2, <2>1, <3>1
  <2> QED
    BY <2>2, <2>3
<1>4. CASE f # e.leg
  <2>1. load_total(w, f, a) = load_total(v, f, a)
    BY <1>4, AppendOther DEF SameEvidence
  <2>2. CASE before # e.leg
    BY <1>2, <2>1, <2>2, AppendOther DEF SameEvidence
  <2>3. CASE before = e.leg /\ e.kind # "correction"
    <3>1. receipt_totals(v, before, a).quantity <= receipt_totals(w, before, a).quantity
      BY <2>3, AppendGrows
    <3>2. /\ load_total(v, f, a) \in Nat /\ receipt_totals(v, before, a).quantity \in Nat
          /\ receipt_totals(w, before, a).quantity \in Nat
      BY ReceiptsNat
    <3> QED
      BY <1>2, <2>1, <3>1, <3>2
  <2>4. CASE before = e.leg /\ e.kind = "correction"
    <3>1. v.legs[f].status \notin Executed
      BY <1>1, <2>4 DEF not_followed
    <3>2. \A i \in DOMAIN v.events : v.events[i].leg = f => v.events[i].kind = "unpack"
      BY <3>1 DEF Evidenced
    <3>3. load_total(v, f, a) = 0
      BY <3>2, NothingStated
    <3>4. receipt_totals(w, before, a).quantity \in Nat
      BY ReceiptsNat
    <3> QED
      BY <2>1, <3>3, <3>4
  <2> QED
    BY <2>2, <2>3, <2>4
<1> QED
  BY <1>3, <1>4

\* A correction takes the place of the statement it corrects; another
\* statement is one more.
LEMMA AppendCorrected ==
  ASSUME NEW v, IsValue(v), Formed(v), Corrected(v), NEW w, NEW e, IsEvent(e), Appended(w, v, e),
         e.kind = "correction" => e.corrects \in effective_events(v, e.leg)
  PROVE  Corrected(w)
<1> SUFFICES ASSUME NEW l PROVE Cardinality(effective_events(w, l)) = Cardinality(original(w, l))
  BY DEF Corrected
<1> DEFINE E == effective_events(v, l)
           O == original(v, l)
<1>1. Cardinality(E) = Cardinality(O)
  BY DEF Corrected
<1>2. PICK n \in Nat : /\ DOMAIN v.events = 1..n /\ DOMAIN w.events = 1..(n + 1)
                       /\ \A i \in DOMAIN v.events : w.events[i] = v.events[i]
                       /\ w.events[n + 1] = e
  BY DEF Appended
<1>3. E \subseteq 1..n /\ O \subseteq 1..n
  BY <1>2 DEF effective_events, original
<1>4. IsFiniteSet(E) /\ IsFiniteSet(O) /\ n + 1 \notin E /\ n + 1 \notin O
  <2> HIDE DEF E, O
  <2>1. IsFiniteSet(1..n) /\ n + 1 \notin 1..n
    BY FS_Interval
  <2> QED
    BY <1>3, <2>1, FS_Subset
<1>5. CASE l # e.leg
  BY <1>1, <1>5, AppendOther
<1>6. CASE l = e.leg /\ e.kind = "resolution"
  <2>1. effective_events(w, l) = E
    BY <1>2, <1>6 DEF effective_events
  <2>2. original(w, l) = O
    BY <1>2, <1>6 DEF original
  <2> QED
    BY <1>1, <2>1, <2>2
<1>7. \A i \in DOMAIN v.events : v.events[i].corrects < i /\ v.events[i].corrects \in Nat
  BY DEF Formed, IsValue, AreEvents, IsEvent
<1>8. CASE l = e.leg /\ e.kind \in {"load", "receipt", "unpack", "unload"}
  <2>1. effective_events(w, l) = E \cup {n + 1}
    BY <1>2, <1>7, <1>8 DEF effective_events
  <2>2. original(w, l) = O \cup {n + 1}
    BY <1>2, <1>8 DEF original
  <2> HIDE DEF E, O
  <2>3. Cardinality(E \cup {n + 1}) = Cardinality(E) + 1 /\ Cardinality(O \cup {n + 1}) = Cardinality(O) + 1
    BY <1>4, FS_AddElement
  <2> QED
    BY <1>1, <2>1, <2>2, <2>3
<1>9. CASE l = e.leg /\ e.kind = "correction"
  <2> DEFINE t == e.corrects
  <2>1. t \in E /\ t \in 1..n
    BY <1>3, <1>9
  <2>2. effective_events(w, l) = (E \ {t}) \cup {n + 1}
    BY <1>2, <1>7, <1>9, <2>1 DEF effective_events
  <2>3. original(w, l) = O
    BY <1>2, <1>9 DEF original
  <2> HIDE DEF E, O, t
  <2>4. IsFiniteSet(E \ {t}) /\ Cardinality(E \ {t}) = Cardinality(E) - 1
    BY <1>4, <2>1, FS_RemoveElement
  <2>5. Cardinality((E \ {t}) \cup {n + 1}) = Cardinality(E \ {t}) + 1
    BY <1>4, <2>4, FS_AddElement
  <2>6. Cardinality(E) \in Nat
    BY <1>4, FS_CardinalityType
  <2> QED
    BY <1>1, <2>2, <2>3, <2>4, <2>5, <2>6
<1>10. e.kind \in {"load", "receipt", "correction", "resolution", "unpack", "unload"}
  BY DEF IsEvent
<1> QED
  BY <1>5, <1>6, <1>8, <1>9, <1>10

\* What an admissible event makes of a delivery: it stays in order, and the
\* leg needs no more than before unless it was corrected.
LEMMA RecordedSane ==
  ASSUME Sound, Sane(deliveries), NEW d \in Deliveries, NEW e, IsEvent(e),
         e.leg \in DOMAIN deliveries[d].legs,
         deliveries[d].legs[e.leg].status \in {"released", "in_progress", "completed"},
         e.kind \in {"load", "receipt", "correction", "resolution"}, admissible(d, e),
         deliveries[d].legs[e.leg].status = "completed" => e.kind = "correction",
         e.kind = "correction" =>
           /\ not_followed(deliveries[d], e.leg)
           /\ e.corrects \in effective_events(deliveries[d], e.leg)
           /\ DOMAIN deliveries[d].events[e.corrects].lines = DOMAIN e.lines,
         e.kind # "correction" => e.corrects = 0
  PROVE  LET v == deliveries[d]
             w == recorded(d, e)
         IN  Good(w) /\ Mild(w, v) /\ Frozen(w, v) /\ w.legs[e.leg].status \in Executed
<1> DEFINE v == deliveries[d]
           w == recorded(d, e)
           l == e.leg
<1>1. /\ IsValue(v) /\ Good(v) /\ l \in DOMAIN v.legs /\ v.legs[l].status \in Committed
      /\ consistent(w, l) /\ \A a \in DOMAIN e.lines : arrived(v, l, a)
  BY DEF Sound, TypeOK, Sane, Committed, Executed, admissible
<1>2. /\ IsValue(w) /\ Frozen(w, v) /\ Appended(w, v, e)
      /\ w.parent = v.parent /\ w.allocs = v.allocs
      /\ w.sources = v.sources /\ w.unpacked = v.unpacked
      /\ DOMAIN w.legs = DOMAIN v.legs
      /\ w.legs[l].status = IF unresolved(w, l) = {} THEN "completed" ELSE "in_progress"
      /\ w.legs[l].review = v.legs[l].review
      /\ \A k \in DOMAIN v.legs : /\ w.legs[k].plan = v.legs[k].plan
                                  /\ fingerprint(w, k) = fingerprint(v, k)
                                  /\ k # l => Same(w, v, k)
  BY <1>1, RecordedExact
<1>3. PICK n \in Nat : /\ DOMAIN v.events = 1..n /\ DOMAIN w.events = 1..(n + 1)
                       /\ \A i \in DOMAIN v.events : w.events[i] = v.events[i]
                       /\ w.events[n + 1] = e
  BY <1>2 DEF Appended
<1>4. e.kind = "correction" => e.corrects \in DOMAIN v.events
  BY DEF effective_events
<1> HIDE DEF w, l
<1>5. LegOK(v, l) /\ selected(v, l) # {} /\ selected(w, l) = selected(v, l)
  BY <1>1, <1>2, FingerprintTells DEF Good, LegOK, Committed, Executed, RESERVED
<1>6. LegOK(w, l)
  <2>1. manual_required(w, l) <=> manual_required(v, l)
    BY <1>1, <1>2, FingerprintReads
  <2>2. manual_required(v, l) => v.legs[l].review = fingerprint(v, l)
    BY <1>1, <1>5 DEF LegOK
  <2>3. /\ manual_required(w, l) => w.legs[l].review = fingerprint(w, l)
        /\ selected(w, l) # {} /\ consistent(w, l)
        /\ w.legs[l].status = "in_progress" <=> unresolved(w, l) # {}
    BY <1>1, <1>2, <1>5, <2>1, <2>2
  <2> QED
    BY <2>3 DEF LegOK
<1>7. \A k \in DOMAIN w.legs : LegOK(w, k)
  BY <1>1, <1>2, <1>6, SameTells DEF Good
<1>8. Rooted(w)
  BY <1>1, <1>2 DEF Good, Rooted
<1>9. w.legs[l].status \in Executed
  BY <1>2 DEF Executed
<1>10. Evidenced(w)
  BY <1>1, <1>2, <1>3, <1>9 DEF Good, Evidenced, Frozen, l
<1>11. Formed(w)
  BY <1>1, <1>3, <1>4 DEF Good, Formed
<1>12. LoadsForward(w)
  BY <1>1, <1>2, <1>4, AppendForward DEF Good, l
<1>13. Corrected(w)
  BY <1>1, <1>2, AppendCorrected DEF Good
<1>14. Good(w)
  BY <1>7, <1>8, <1>10, <1>11, <1>12, <1>13 DEF Good
<1>15. Mild(w, v)
  <2>1. \A k : reopened(v, k) => reopened(w, k)
    BY <1>3 DEF reopened
  <2>2. e.kind = "correction" => reopened(w, l)
    BY <1>3 DEF reopened, l
  <2>3. MildLeg(w, v, l)
    <3>1. CASE e.kind = "correction"
      BY <2>2, <3>1 DEF MildLeg
    <3>2. CASE e.kind # "correction"
      <4>1. v.legs[l].status \in Live
        BY <3>2 DEF Live, l
      <4>2. v.legs[l].status \in RESERVED /\ ~emptied(v, l)
        BY <4>1, LiveHolds
      <4> QED
        BY <1>1, <1>2, <1>5, <4>1, <4>2 DEF MildLeg
    <3> QED
      BY <3>1, <3>2
  <2>4. \A k \in DOMAIN w.legs : MildLeg(w, v, k)
    BY <1>2, <2>3, SameMild
  <2> QED
    BY <2>1, <2>4 DEF Mild
<1> QED
  BY <1>2, <1>9, <1>14, <1>15 DEF w, l

\* Saving such a delivery keeps everything.
LEMMA RecordSane ==
  ASSUME Sound, Sane(deliveries), NEW d \in Deliveries, NEW e, IsEvent(e),
         e.leg \in DOMAIN deliveries[d].legs, deliveries[d].legs[e.leg].status \in Committed,
         Good(recorded(d, e)), Mild(recorded(d, e), deliveries[d]), save(d, recorded(d, e))
  PROVE  Proceeds
<1> DEFINE w == recorded(d, e)
<1>1. IsValue(deliveries[d]) /\ Typed(deliveries) /\ InTurn(deliveries)
  BY TypeOKTyped DEF Sound, TypeOK, Sane
<1>2. /\ IsValue(w) /\ Continues(w, deliveries[d]) /\ Extends(w, deliveries[d])
      /\ Frozen(w, deliveries[d]) /\ w.parent = deliveries[d].parent
  BY <1>1, RecordedExact
<1> HIDE DEF w
<1>3. InTurn([deliveries EXCEPT ![d] = w])
  BY <1>1, <1>2, MildRequest DEF w
<1> QED
  BY <1>2, <1>3, RequestSane DEF w

\* event_register
LEMMA RegisterSane ==
  ASSUME Sound, Sane(deliveries), NEW d \in Deliveries, NEW l \in DOMAIN deliveries[d].legs,
         NEW kind \in {"load", "receipt"}, NEW lines \in named_lines(deliveries[d], l),
         event_register(d, l, kind, lines)
  PROVE  Proceeds
<1> DEFINE e == evidence(l, kind, lines)
<1>1. IsValue(deliveries[d]) /\ l \in Legs
  BY DEF Sound, TypeOK, IsValue, AreLegs, IsPartial
<1>2. IsEvent(e) /\ e.leg = l /\ e.kind = kind /\ e.corrects = 0
  BY <1>1, NamedLines, EvidenceTyped DEF evidence
<1>3. /\ deliveries[d].legs[l].status \in {"released", "in_progress"}
      /\ admissible(d, e) /\ save(d, recorded(d, e))
  BY DEF event_register
<1> HIDE DEF e
<1>4. Good(recorded(d, e)) /\ Mild(recorded(d, e), deliveries[d])
  BY <1>2, <1>3, RecordedSane
<1> QED
  BY <1>2, <1>3, <1>4, RecordSane DEF Committed, Executed

\* event_correct
LEMMA CorrectSane ==
  ASSUME Sound, Sane(deliveries), NEW d \in Deliveries, NEW l \in DOMAIN deliveries[d].legs,
         NEW target \in DOMAIN deliveries[d].events,
         NEW lines \in named_lines(deliveries[d], l),
         event_correct(d, l, target, lines)
  PROVE  Proceeds
<1> DEFINE v == deliveries[d]
           e == [evidence(l, "correction", lines) EXCEPT
                   !.corrects = target, !.states = v.events[target].states]
<1>1. IsValue(v) /\ l \in Legs
  BY DEF Sound, TypeOK, IsValue, AreLegs, IsPartial
<1>2. IsEvent(v.events[target]) /\ target \in Nat
  BY <1>1 DEF IsValue, AreEvents
<1>3. v.events[target].states \in {"load", "receipt", "unpack", "unload", "none"}
  BY <1>2 DEF IsEvent
<1>4. IsPartial(lines, Allocs, Line)
  BY <1>1, NamedLines
<1>5. /\ e.leg = l /\ e.lines = lines /\ e.kind = "correction" /\ e.corrects = target
      /\ e \in [kind : {"correction"}, leg : {l}, lines : {lines}, corrects : {target},
               states : {v.events[target].states}, resolution : {"none"}, child : {None},
               complete : {FALSE}]
  BY DEF evidence
<1>6. /\ v.legs[l].status \in {"released", "in_progress", "completed"}
      /\ not_followed(v, l) /\ correctable(v, l, target, lines) /\ admissible(d, e)
      /\ save(d, recorded(d, e))
  BY DEF event_correct
<1>7. /\ target \in effective_events(v, l)
      /\ DOMAIN lines = DOMAIN v.events[target].lines
  BY <1>6 DEF correctable
<1> HIDE DEF e, v
<1>8. IsEvent(e)
  BY <1>1, <1>2, <1>3, <1>4, <1>5 DEF IsEvent
<1>9. Good(recorded(d, e)) /\ Mild(recorded(d, e), deliveries[d])
  BY <1>5, <1>6, <1>7, <1>8, RecordedSane DEF v
<1> QED
  BY <1>5, <1>6, <1>8, <1>9, RecordSane DEF Committed, Executed, v

\* A disposition is admissible only while its leg is in progress.
LEMMA SettlesSane ==
  ASSUME Sound, Sane(deliveries), NEW d \in Deliveries, NEW l \in DOMAIN deliveries[d].legs,
         NEW how \in {"accept", "redelivery", "return"},
         NEW named \in SUBSET selected(deliveries[d], l), named # {},
         NEW c \in Deliveries \cup {None}, settles(d, l, how, named, c)
  PROVE  LET v == deliveries[d]
             e == disposition(v, l, how, named, c)
             w == recorded(d, e)
         IN  /\ IsEvent(e) /\ e.leg = l /\ e.child = c /\ e.resolution = how /\ ~e.complete
             /\ v.legs[l].status \in Committed
             /\ Good(w) /\ Mild(w, v) /\ Frozen(w, v) /\ w.legs[l].status \in Executed
<1> DEFINE v == deliveries[d]
           e == disposition(v, l, how, named, c)
<1>1. IsEvent(e) /\ e.leg = l /\ e.resolution = how /\ DOMAIN e.lines = named
  BY SettlesTyped
<1>2. /\ e.kind = "resolution" /\ e.corrects = 0 /\ e.child = c /\ ~e.complete
  BY DEF disposition, evidence
<1>3. /\ v.legs[l].status \in {"released", "in_progress", "completed"}
      /\ \A a \in named : a \in unresolved(v, l)
      /\ admissible(d, e)
  BY DEF settles, resolvable
<1> HIDE DEF e, v
<1>4. v.legs[l].status # "completed"
  <2>1. LegOK(v, l)
    BY DEF Sane, Good, v
  <2> QED
    BY <1>3, <2>1 DEF LegOK, Executed
<1>5. v.legs[l].status \in Committed
  BY <1>3 DEF Committed, Executed
<1>6. /\ Good(recorded(d, e)) /\ Mild(recorded(d, e), v) /\ Frozen(recorded(d, e), v)
      /\ recorded(d, e).legs[l].status \in Executed
  BY <1>1, <1>2, <1>3, <1>4, RecordedSane DEF v
<1> QED
  BY <1>1, <1>2, <1>5, <1>6 DEF e, v

\* event_accept
LEMMA AcceptSane ==
  ASSUME Sound, Sane(deliveries), NEW d \in Deliveries, NEW l \in DOMAIN deliveries[d].legs,
         NEW named \in SUBSET selected(deliveries[d], l), named # {}, event_accept(d, l, named)
  PROVE  Proceeds
<1> DEFINE e == disposition(deliveries[d], l, "accept", named, None)
<1>1. settles(d, l, "accept", named, None) /\ save(d, recorded(d, e))
  BY DEF event_accept
<1>2. /\ IsEvent(e) /\ e.leg = l /\ deliveries[d].legs[l].status \in Committed
      /\ Good(recorded(d, e)) /\ Mild(recorded(d, e), deliveries[d])
  BY <1>1, SettlesSane
<1> HIDE DEF e
<1> QED
  BY <1>1, <1>2, RecordSane

\* event_followup: the new delivery is a draft that nobody continues.
LEMMA FollowupSane ==
  ASSUME Sound, Sane(deliveries), NEW d \in Deliveries, NEW l \in DOMAIN deliveries[d].legs,
         NEW how \in {"redelivery", "return"},
         NEW named \in SUBSET selected(deliveries[d], l), named # {}, NEW c \in Deliveries,
         event_followup(d, l, how, named, c)
  PROVE  Proceeds
<1> DEFINE v == deliveries[d]
           e == disposition(v, l, how, named, c)
           w == recorded(d, e)
           half == [deliveries EXCEPT ![d] = w]
<1>1. PICK recs : Typed(recs) /\ Linked(recs) /\ save_all(recs, d) /\ Followed(recs, d, e, c)
  BY FollowupTyped
<1>2. Typed(deliveries) /\ Linked(deliveries) /\ IsValue(v) /\ l \in Legs
  BY TypeOKTyped DEF Sound, Typed, TypeOK, IsValue, AreLegs, IsPartial
<1>3. settles(d, l, how, named, c) /\ may_follow(v)
  BY DEF event_followup
<1>4. /\ IsEvent(e) /\ e.leg = l /\ e.child = c /\ e.resolution = how /\ ~e.complete
      /\ v.legs[l].status \in Committed
      /\ Good(w) /\ Mild(w, v) /\ Frozen(w, v)
  BY <1>3, SettlesSane
<1> HIDE DEF e, v
<1>5. IsValue(w) /\ Extends(w, v) /\ w.parent = v.parent
  BY <1>2, <1>4, RecordedExact DEF v
<1> HIDE DEF w
<1>6. PICK n \in DOMAIN w.events :
        w.events[n] = e /\ recs[c].parent = [kind |-> how, delivery |-> d, event |-> n]
  BY <1>1, <1>4 DEF Followed, w
<1>7. /\ recs = [half EXCEPT ![c] = recs[c]]
      /\ c # d /\ deliveries[c] = NoDelivery
      /\ recs[c].events = <<>>
      /\ DOMAIN recs[c].legs = {l} /\ recs[c].legs[l].status = "draft"
  BY <1>1, <1>4 DEF Followed, w
<1>8. /\ Typed(half) /\ half[d] = w /\ \A x \in Deliveries : x # d => half[x] = deliveries[x]
  BY <1>2, <1>5, TypedUpdate DEF v
<1>9. InTurn(half)
  BY <1>2, <1>4, <1>5, MildRequest DEF Sane, v
<1> HIDE DEF half
<1>10. \A x \in Deliveries : x # c => recs[x] = half[x]
  BY <1>7, <1>8 DEF Typed
<1>11. recs[d] = w /\ \A x \in Deliveries : x # c /\ x # d => recs[x] = deliveries[x]
  BY <1>7, <1>8, <1>10
<1>12. DOMAIN deliveries[c].events = {} /\ DOMAIN deliveries[c].legs = {}
  <2>1. NoDelivery.events = <<>> /\ NoDelivery.legs = <<>>
    BY DEF NoDelivery
  <2> QED
    BY <1>7, <2>1
<1>13. recs[c].parent.kind = how /\ recs[c].parent.delivery = d /\ recs[c].parent.event = n
  BY <1>6
<1>14. Good(recs[c])
  <2>1. Rooted(recs[c])
    BY <1>2, <1>7, <1>13 DEF Rooted
  <2> QED
    BY <1>7, <2>1, DraftGood
<1>15. \A y \in Deliveries : Good(recs[y]) /\ Frozen(recs[y], deliveries[y])
  <2>1. Frozen(recs[c], deliveries[c])
    BY <1>12 DEF Frozen
  <2> QED
    BY <1>4, <1>11, <1>14, <2>1, MildReflexive DEF Sane, v
<1>16. \A y \in Deliveries : y # c => recs[y].parent = deliveries[y].parent
  BY <1>5, <1>11 DEF v
<1>17. ASSUME NEW y \in Deliveries, deliveries[y].parent.kind # "none"
       PROVE  LET q == deliveries[y].parent.delivery
                  m == deliveries[y].parent.event
              IN  q \in Deliveries /\ q # c /\ m \in DOMAIN deliveries[q].events
  BY <1>2, <1>12, <1>17 DEF Linked, LinkOK
<1>18. Named(recs)
  <2> SUFFICES ASSUME NEW y \in Deliveries, recs[y].parent.kind # "none"
               PROVE  LET link == recs[y].parent
                      IN  /\ recs[link.delivery].events[link.event].child = y
                          /\ recs[link.delivery].events[link.event].resolution = link.kind
                          /\ recs[link.delivery].parent.kind # "none" =>
                               recs[recs[link.delivery].parent.delivery].parent.kind = "none"
    BY DEF Named
  <2>1. CASE y = c
    <3>1. recs[d].events[n].child = c /\ recs[d].events[n].resolution = how
      BY <1>4, <1>6, <1>11
    <3>2. recs[d].parent.kind # "none" => recs[recs[d].parent.delivery].parent.kind = "none"
      <4> SUFFICES ASSUME deliveries[d].parent.kind # "none"
                   PROVE  recs[deliveries[d].parent.delivery].parent.kind = "none"
        BY <1>7, <1>16
      <4>1. /\ deliveries[d].parent.delivery \in Deliveries /\ deliveries[d].parent.delivery # c
        BY <1>17
      <4>2. deliveries[deliveries[d].parent.delivery].parent.kind = "none"
        BY <1>3 DEF may_follow, v
      <4> QED
        BY <1>16, <4>1, <4>2
    <3> QED
      BY <1>13, <2>1, <3>1, <3>2
  <2>2. CASE y # c
    <3> DEFINE q == deliveries[y].parent.delivery
               m == deliveries[y].parent.event
    <3>1. recs[y].parent = deliveries[y].parent /\ deliveries[y].parent.kind # "none"
      BY <1>16, <2>2
    <3>2. /\ q \in Deliveries /\ q # c /\ m \in DOMAIN deliveries[q].events
          /\ deliveries[q].parent.kind # "none" =>
               deliveries[q].parent.delivery \in Deliveries /\ deliveries[q].parent.delivery # c
      BY <1>17, <3>1
    <3>3. /\ deliveries[q].events[m].child = y
          /\ deliveries[q].events[m].resolution = deliveries[y].parent.kind
          /\ deliveries[q].parent.kind # "none" =>
               deliveries[deliveries[q].parent.delivery].parent.kind = "none"
      BY <3>1 DEF Sane, Named
    <3> HIDE DEF q, m
    <3>4. recs[q].events[m] = deliveries[q].events[m]
      BY <1>5, <1>11, <3>2 DEF Extends, v
    <3>5. recs[q].parent.kind # "none" => recs[recs[q].parent.delivery].parent.kind = "none"
      BY <1>16, <3>2, <3>3
    <3> QED
      BY <3>1, <3>3, <3>4, <3>5 DEF q, m
  <2> QED
    BY <2>1, <2>2
<1>19. ASSUME NEW y \in Deliveries, y # d PROVE Told(recs, y)
  <2>1. CASE y = c
    <3>1. ~complete(recs[c])
      BY <1>7 DEF complete
    <3>2. ~recs[d].events[n].complete /\ recs[d].events[n].complete \in BOOLEAN
      BY <1>4, <1>6, <1>11 DEF IsEvent
    <3>3. complete(recs[c]) \in BOOLEAN
      BY DEF complete
    <3> QED
      BY <1>13, <2>1, <3>1, <3>2, <3>3 DEF Told
  <2>2. CASE y # c
    <3> SUFFICES ASSUME deliveries[y].parent.kind # "none"
                 PROVE  recs[deliveries[y].parent.delivery].events[deliveries[y].parent.event].complete
                          = complete(deliveries[y])
      BY <1>11, <1>19, <2>2 DEF Told
    <3> DEFINE q == deliveries[y].parent.delivery
               m == deliveries[y].parent.event
    <3>1. q \in Deliveries /\ q # c /\ m \in DOMAIN deliveries[q].events
      BY <1>17
    <3>2. deliveries[q].events[m].complete = complete(deliveries[y])
      BY DEF Sane, Told
    <3> HIDE DEF q, m
    <3>3. recs[q].events[m] = deliveries[q].events[m]
      BY <1>5, <1>11, <3>1 DEF Extends, v
    <3>4. recs[q].events[m].complete = complete(deliveries[y])
      BY <3>2, <3>3
    <3> QED
      BY <3>4 DEF q, m
  <2> QED
    BY <2>1, <2>2
<1>20. InTurn(recs)
  <2>1. \A x \in Deliveries : half[x].parent.delivery # c
    <3> TAKE x \in Deliveries
    <3>1. half[x].parent = deliveries[x].parent
      BY <1>5, <1>8 DEF v
    <3>2. CASE deliveries[x].parent.kind = "none"
      <4>1. deliveries[x].parent = NoParent
        BY <3>2 DEF Sane, Good, Rooted
      <4> QED
        BY <3>1, <4>1, DeliveriesAssumption DEF NoParent
    <3>3. CASE deliveries[x].parent.kind # "none"
      BY <1>17, <3>1, <3>3
    <3> QED
      BY <3>2, <3>3
  <2>2. IsValue(recs[c]) /\ \A k \in DOMAIN recs[c].legs : recs[c].legs[k].status \notin RESERVED
    BY <1>1, <1>7 DEF Typed, RESERVED
  <2>3. InTurn([half EXCEPT ![c] = recs[c]])
    BY <1>8, <1>9, <2>1, <2>2, DraftInTurn
  <2> QED
    BY <1>7, <2>3
<1> QED
  BY <1>1, <1>15, <1>18, <1>19, <1>20, SaveProceeds

\* event_unpack and event_unload move no goods.
LEMMA NoteSane ==
  ASSUME Sound, Sane(deliveries), NEW d \in Deliveries, NEW l \in DOMAIN deliveries[d].legs,
         event_unpack(d, l) \/ event_unload(d, l)
  PROVE  Proceeds
<1> DEFINE v == deliveries[d]
<1>1. IsValue(v) /\ Good(v) /\ Typed(deliveries) /\ InTurn(deliveries) /\ l \in DOMAIN v.legs
  BY TypeOKTyped DEF Sound, TypeOK, Sane
<1>2. PICK w, e :
        /\ IsValue(w) /\ IsEvent(e) /\ Appended(w, v, e) /\ save(d, w)
        /\ w.legs = v.legs /\ w.allocs = v.allocs /\ w.sources = v.sources
        /\ w.parent = v.parent
        /\ e.leg = l /\ e.states = e.kind /\ e.corrects = 0
        /\ \/ e.kind = "unpack" /\ v.parent.kind # "none" /\ v.legs[l].status = "draft"
           \/ e.kind = "unload" /\ w.unpacked = v.unpacked /\ v.legs[l].status \in Executed
  BY NoteTyped
<1> HIDE DEF v
<1>3. Continues(w, v) /\ Extends(w, v)
  BY <1>2 DEF Continues, Extends, Appended
<1>4. \A k, a : /\ load_total(w, k, a) = load_total(v, k, a)
                /\ receipt_totals(w, k, a) = receipt_totals(v, k, a)
  BY <1>2, AppendSilent
<1>5. \A k, a : resolved(w, k, a) <=> resolved(v, k, a)
  <2>1. \A k, a : resolutions(w, k, a) = resolutions(v, k, a)
    BY <1>2 DEF resolutions, Appended
  <2>2. \A k, a : \A i \in resolutions(v, k, a) : w.events[i] = v.events[i]
    BY <1>2 DEF resolutions, Appended
  <2> QED
    BY <2>1, <2>2 DEF resolved
<1>6. \A k : reopened(v, k) => reopened(w, k)
  BY <1>2 DEF reopened, Appended
<1>7. Rooted(w) /\ Formed(w)
  BY <1>1, <1>2 DEF Good, Rooted, Formed, Appended
<1>8. Evidenced(w)
  BY <1>1, <1>2 DEF Good, Evidenced, Appended
<1>9. LoadsForward(w)
  BY <1>1, <1>2, <1>4 DEF Good, LoadsForward, previous
<1>10. Corrected(w)
  BY <1>1, <1>2, AppendCorrected DEF Good
<1>11. (\A k \in DOMAIN w.legs : LegOK(w, k) /\ MildLeg(w, v, k)) /\ Frozen(w, v)
  <2>1. CASE v.legs[l].status = "draft" /\ v.parent.kind # "none"
    <3>1. \A k \in DOMAIN v.legs : v.legs[k].status = "draft"
      BY <1>1, <2>1 DEF Good, Rooted
    <3>2. \A k \in DOMAIN w.legs : LegOK(w, k)
      BY <1>2, <3>1, UnreservedOK DEF RESERVED
    <3>3. \A k \in DOMAIN w.legs : MildLeg(w, v, k)
      BY <1>2, <3>1 DEF MildLeg, Live, RESERVED
    <3> QED
      BY <3>1, <3>2, <3>3 DEF Frozen, Executed
  <2>2. CASE e.kind = "unload" /\ w.unpacked = v.unpacked
    <3>1. \A k \in DOMAIN v.legs : fingerprint(w, k) = fingerprint(v, k)
      BY <1>2, <2>2, FingerprintKept
    <3>2. ASSUME NEW k \in DOMAIN v.legs
          PROVE  /\ selected(w, k) = selected(v, k)
                 /\ manual_required(w, k) <=> manual_required(v, k)
                 /\ consistent(w, k) <=> consistent(v, k)
                 /\ unresolved(w, k) = unresolved(v, k)
                 /\ emptied(v, k) => emptied(w, k)
      <4>1. selected(w, k) = selected(v, k)
        BY <1>2 DEF selected
      <4>2. manual_required(w, k) <=> manual_required(v, k)
        BY <3>1, FingerprintReads
      <4>3. consistent(w, k) <=> consistent(v, k)
        BY <1>2, <1>4, <4>1 DEF consistent
      <4>4. unresolved(w, k) = unresolved(v, k)
        BY <1>2, <1>4, <1>5, <4>1 DEF unresolved
      <4>5. unloaded(v, k) => unloaded(w, k)
        BY <1>2 DEF unloaded, Appended
      <4>6. emptied(v, k) => emptied(w, k)
        BY <1>2, <1>4, <4>1, <4>5 DEF emptied, unloaded
      <4> QED
        BY <4>1, <4>2, <4>3, <4>4, <4>6
    <3>3. \A k \in DOMAIN w.legs : LegOK(w, k)
      BY <1>1, <1>2, <3>1, <3>2 DEF Good, LegOK
    <3>4. \A k \in DOMAIN w.legs : MildLeg(w, v, k)
      BY <1>2, <3>2 DEF MildLeg
    <3> QED
      BY <1>2, <3>1, <3>3, <3>4 DEF Frozen
  <2> QED
    BY <1>2, <2>1, <2>2
<1>12. Good(w) /\ Mild(w, v) /\ Frozen(w, v)
  BY <1>6, <1>7, <1>8, <1>9, <1>10, <1>11 DEF Good, Mild
<1>13. InTurn([deliveries EXCEPT ![d] = w])
  BY <1>1, <1>2, <1>12, MildRequest DEF v
<1> QED
  BY <1>2, <1>3, <1>12, <1>13, RequestSane DEF v

-----------------------------------------------------------------------------
(* The inductive invariant *)

\* Every request on a delivery keeps everything.
LEMMA RequestsProceed ==
  ASSUME Sound, Sane(deliveries), NEW d \in Deliveries,
         planning(d) \/ \E l \in DOMAIN deliveries[d].legs : action(d, l) \/ event(d, l)
  PROVE  Proceeds
<1>1. CASE planning(d)
  <2>1. CASE \E p \in Payloads : create(d, p)
    BY <2>1, CreateSane, DeliveriesAssumption
  <2>2. CASE \E p \in edits(deliveries[d]) : edit(d, p)
    BY <2>2, EditsTyped, EditSane
  <2> QED
    BY <1>1, <2>1, <2>2 DEF planning
<1>2. ASSUME NEW l \in DOMAIN deliveries[d].legs, action(d, l)
      PROVE  Proceeds
  BY <1>2, PlanSane, OfficeSane DEF action
<1>3. ASSUME NEW l \in DOMAIN deliveries[d].legs, event(d, l)
      PROVE  Proceeds
  <2>1. CASE \E kind \in {"load", "receipt"}, lines \in named_lines(deliveries[d], l) :
               event_register(d, l, kind, lines)
    BY <2>1, RegisterSane
  <2>2. CASE \E target \in DOMAIN deliveries[d].events : \E lines \in named_lines(deliveries[d], l) :
               event_correct(d, l, target, lines)
    BY <2>2, CorrectSane
  <2>3. CASE \E named \in (SUBSET selected(deliveries[d], l)) \ {{}} : event_accept(d, l, named)
    <3>1. PICK named \in (SUBSET selected(deliveries[d], l)) \ {{}} : event_accept(d, l, named)
      BY <2>3
    <3>2. named \in SUBSET selected(deliveries[d], l) /\ named # {}
      OBVIOUS
    <3> QED
      BY <3>1, <3>2, AcceptSane
  <2>4. CASE \E named \in (SUBSET selected(deliveries[d], l)) \ {{}} :
               \E how \in {"redelivery", "return"}, c \in Deliveries :
                 event_followup(d, l, how, named, c)
    <3>1. PICK named \in (SUBSET selected(deliveries[d], l)) \ {{}} :
            \E how \in {"redelivery", "return"}, c \in Deliveries :
              event_followup(d, l, how, named, c)
      BY <2>4
    <3>2. named \in SUBSET selected(deliveries[d], l) /\ named # {}
      OBVIOUS
    <3> QED
      BY <3>1, <3>2, FollowupSane
  <2>5. CASE event_unpack(d, l) \/ event_unload(d, l)
    BY <2>5, NoteSane
  <2> QED
    BY <1>3, <2>1, <2>2, <2>3, <2>4, <2>5 DEF event
<1> QED
  BY <1>1, <1>2, <1>3

\* Deliveries that are not in use are in order.
LEMMA EmptySane ==
  ASSUME NEW recs, \A d \in Deliveries : recs[d] = NoDelivery
  PROVE  Sane(recs)
<1>1. NoDelivery.parent.kind = "none" /\ DOMAIN NoDelivery.legs = {}
  <2>1. NoDelivery.legs = <<>>
    BY DEF NoDelivery
  <2> QED
    BY <2>1, EmptyValue
<1>2. \A d \in Deliveries : Good(recs[d]) /\ Told(recs, d)
  BY <1>1, EmptyGood DEF Told
<1>3. Named(recs)
  BY <1>1 DEF Named
<1>4. InTurn(recs)
  BY <1>1 DEF InTurn
<1> QED
  BY <1>2, <1>3, <1>4 DEF Sane

\* What a step does to the deliveries.
LEMMA NextProceeds ==
  ASSUME IInv, Sane(deliveries), [Next]_vars
  PROVE  Proceeds \/ UNCHANGED deliveries \/ \A d \in Deliveries : deliveries'[d] = NoDelivery
<1>1. Sound
  BY DEF IInv
<1>2. CASE UNCHANGED vars
  BY <1>2 DEF vars
<1>3. ASSUME NEW d \in Deliveries,
             planning(d) \/ \E l \in DOMAIN deliveries[d].legs : action(d, l) \/ event(d, l)
      PROVE  Proceeds
  BY <1>1, <1>3, RequestsProceed
<1>4. CASE retention
  BY <1>4 DEF retention, keep, forget, discard_kept
<1> QED
  BY <1>2, <1>3, <1>4 DEF Next

\* The deliveries are in order, whatever is done to them: the inductive
\* invariant of their execution, beside that of their books.
InOrder == IInv /\ Sane(deliveries)

\* The inductive invariant holds at every step.
THEOREM OrderKept == Spec => []InOrder
<1>1. Init => InOrder
  <2>1. Init => Sane(deliveries)
    BY EmptySane DEF Init
  <2> QED
    BY <2>1, InitIInv DEF InOrder
<1>2. InOrder /\ [Next]_vars => InOrder'
  <2> SUFFICES ASSUME InOrder, [Next]_vars PROVE InOrder'
    OBVIOUS
  <2>1. IInv'
    BY NextIInv DEF InOrder
  <2>2. Sane(deliveries')
    <3> DEFINE new == deliveries'
    <3>1. Proceeds \/ new = deliveries \/ \A d \in Deliveries : new[d] = NoDelivery
      BY NextProceeds DEF InOrder
    <3>2. Proceeds => Sane(new)
      BY DEF Proceeds
    <3> HIDE DEF new
    <3>3. Sane(new)
      BY <3>1, <3>2, EmptySane DEF InOrder
    <3> QED
      BY <3>3 DEF new
  <2> QED
    BY <2>1, <2>2 DEF InOrder
<1> QED
  BY <1>1, <1>2, PTL DEF Spec

-----------------------------------------------------------------------------
(* What the invariant says of a run *)

\* A leg that is released or has been carried out has the review that its own
\* inputs require: releasing asks for it, and nothing that is edited afterwards
\* reaches those inputs (action, keep_fingerprint).
THEOREM ReviewsPrecedeRelease == Spec => []ReleaseReviewed
<1>1. InOrder => ReleaseReviewed
  <2> SUFFICES ASSUME InOrder, NEW d \in Deliveries, NEW l \in DOMAIN deliveries[d].legs
               PROVE  deliveries[d].legs[l].status \in Committed
                        /\ manual_required(deliveries[d], l) =>
                        deliveries[d].legs[l].review = fingerprint(deliveries[d], l)
    BY DEF ReleaseReviewed, Committed
  <2>1. LegOK(deliveries[d], l)
    BY DEF InOrder, Sane, Good
  <2> QED
    BY <2>1 DEF LegOK
<1> QED
  BY <1>1, OrderKept, PTL

\* A leg is in progress while goods of it have an open difference, and no
\* longer, whatever corrections and follow-ups do to the differences (event,
\* sync_parent).
THEOREM CompletionSettled == Spec => []CompletionIsSettled
<1>1. InOrder => CompletionIsSettled
  <2> SUFFICES ASSUME InOrder, NEW d \in Deliveries, NEW l \in DOMAIN deliveries[d].legs,
                      deliveries[d].legs[l].status \in Executed
               PROVE  (deliveries[d].legs[l].status = "in_progress"
                         <=> unresolved(deliveries[d], l) # {})
    BY DEF CompletionIsSettled
  <2>1. LegOK(deliveries[d], l)
    BY DEF InOrder, Sane, Good
  <2> QED
    BY <2>1 DEF LegOK
<1> QED
  BY <1>1, OrderKept, PTL

\* Every follow-up is the child of the disposition it was created for, which
\* knows whether it is complete (create_followup, sync_parent).
THEOREM FollowupsMirror == Spec => []FollowupsMirrored
<1>1. InOrder => FollowupsMirrored
  <2> SUFFICES ASSUME InOrder, NEW d \in Deliveries, deliveries[d].parent.kind # "none"
               PROVE  LET link == deliveries[d].parent
                          e == deliveries[link.delivery].events[link.event]
                      IN  e.child = d /\ e.resolution = link.kind
                            /\ e.complete = complete(deliveries[d])
    BY DEF FollowupsMirrored
  <2>1. Named(deliveries) /\ Told(deliveries, d)
    BY DEF InOrder, Sane
  <2> QED
    BY <2>1 DEF Named, Told
<1> QED
  BY <1>1, OrderKept, PTL

\* A later leg never loads more than the leg before it received (event,
\* correct).
THEOREM LoadsGoForward == Spec => []ForwardLoading
<1>1. InOrder => ForwardLoading
  <2> SUFFICES ASSUME InOrder, NEW d \in Deliveries PROVE LoadsForward(deliveries[d])
    BY DEF ForwardLoading, LoadsForward
  <2> QED
    BY DEF InOrder, Sane, Good
<1> QED
  BY <1>1, OrderKept, PTL

\* Of a statement and its corrections one is in force (effective_events).
THEOREM CorrectionsInChains == Spec => []CorrectionsReplace
<1>1. InOrder => CorrectionsReplace
  <2> SUFFICES ASSUME InOrder, NEW d \in Deliveries, NEW l \in DOMAIN deliveries[d].legs
               PROVE  Cardinality(effective_events(deliveries[d], l))
                        = Cardinality(original(deliveries[d], l))
    BY DEF CorrectionsReplace, original
  <2>1. Corrected(deliveries[d])
    BY DEF InOrder, Sane, Good
  <2> QED
    BY <2>1 DEF Corrected
<1> QED
  BY <1>1, OrderKept, PTL

\* The deliveries that neither continues are strangers.
LEMMA UnrelatedStrangers ==
  ASSUME NEW d \in Deliveries, NEW o \in Deliveries, unrelated(d, o)
  PROVE  Strangers(deliveries, d, o)
BY DEF unrelated, ancestors, Strangers, Kin

\* Live legs of strangers use a load unit, or a piece of equipment, in turn
\* (reserve), until a correction reopens one of them.
THEOREM UnitsUsedInTurn == Spec => []UnitsInTurn
<1>1. InOrder => UnitsInTurn
  <2> SUFFICES ASSUME InOrder, NEW d \in Deliveries, NEW o \in Deliveries, unrelated(d, o),
                      NEW l \in DOMAIN deliveries[d].legs, NEW m \in DOMAIN deliveries[o].legs,
                      deliveries[d].legs[l].status \in Live, deliveries[o].legs[m].status \in Live,
                      selected(deliveries[d], l) # {}, selected(deliveries[o], m) # {},
                      \/ same_box(deliveries[d].legs[l].plan, deliveries[o].legs[m].plan)
                      \/ Equipment[deliveries[d].legs[l].plan]
                           \cap Equipment[deliveries[o].legs[m].plan] # {}
               PROVE  apart(deliveries[d], l, deliveries[o], m)
                        \/ reopened(deliveries[d], l) \/ reopened(deliveries[o], m)
    BY DEF UnitsInTurn
  <2>1. deliveries[o].legs[m].status \in RESERVED /\ ~emptied(deliveries[o], m)
    BY LiveHolds
  <2>2. needs(deliveries[d], l, deliveries[o], m)
    BY <2>1 DEF needs, same_box
  <2>3. Strangers(deliveries, d, o)
    BY UnrelatedStrangers
  <2> QED
    BY <2>2, <2>3 DEF InOrder, Sane, InTurn
<1> QED
  BY <1>1, OrderKept, PTL

\* Goods that are loaded and not received keep their load unit from strangers,
\* however their leg was settled, until the unit is said to be unloaded
\* (delivery_unloading.released).
LEMMA UnreceivedHolds ==
  ASSUME NEW v, IsValue(v), Good(v), NEW m \in DOMAIN v.legs, NEW a \in selected(v, m),
         load_total(v, m, a) > receipt_totals(v, m, a).quantity, ~unloaded(v, m)
  PROVE  v.legs[m].status \in RESERVED /\ ~emptied(v, m)
<1>1. PICK i \in DOMAIN v.events : v.events[i].leg = m /\ v.events[i].kind # "unpack"
  <2> SUFFICES ASSUME \A i \in DOMAIN v.events : v.events[i].leg = m => v.events[i].kind = "unpack"
               PROVE  FALSE
    OBVIOUS
  <2>1. load_total(v, m, a) = 0 /\ receipt_totals(v, m, a).quantity = 0
    BY NothingStated DEF Good
  <2> QED
    BY <2>1
<1>2. v.legs[m].status \in Executed
  BY <1>1 DEF Good, Evidenced
<1>3. consistent(v, m)
  BY <1>2 DEF Good, LegOK
<1>4. load_total(v, m, a) <= v.allocs[a].qty[m]
  BY <1>3 DEF consistent
<1>5. load_total(v, m, a) \in Nat /\ receipt_totals(v, m, a).quantity \in Nat
  BY ReceiptsNat
<1>6. receipt_totals(v, m, a).quantity # v.allocs[a].qty[m]
  BY <1>4, <1>5
<1> QED
  BY <1>2, <1>6 DEF emptied, unloaded, Executed, RESERVED

\* A load unit with goods nobody has accounted for carries no other delivery's
\* goods in an overlapping period, however their leg was settled, until it is
\* said to be empty (delivery_unloading.released, blocks_unit).
THEOREM BoxesKnownEmpty == Spec => []BoxKnownEmpty
<1>1. InOrder => BoxKnownEmpty
  <2> SUFFICES ASSUME InOrder, NEW d \in Deliveries, NEW o \in Deliveries, unrelated(d, o),
                      NEW l \in DOMAIN deliveries[d].legs, NEW m \in DOMAIN deliveries[o].legs,
                      deliveries[d].legs[l].status \in Live /\ selected(deliveries[d], l) # {},
                      same_box(deliveries[d].legs[l].plan, deliveries[o].legs[m].plan),
                      \E a \in selected(deliveries[o], m) :
                        load_total(deliveries[o], m, a)
                          > receipt_totals(deliveries[o], m, a).quantity
               PROVE  \/ apart(deliveries[d], l, deliveries[o], m)
                      \/ reopened(deliveries[d], l) \/ reopened(deliveries[o], m)
                      \/ unloaded(deliveries[o], m)
    BY Zenon DEF BoxKnownEmpty, unloaded
  <2>1. IsValue(deliveries[o]) /\ Good(deliveries[o])
    BY TypeOKTyped DEF InOrder, IInv, Sound, Typed, Sane
  <2>2. ~unloaded(deliveries[o], m)
        => deliveries[o].legs[m].status \in RESERVED /\ ~emptied(deliveries[o], m)
    BY <2>1, UnreceivedHolds
  <2>3. ~unloaded(deliveries[o], m) => needs(deliveries[d], l, deliveries[o], m)
    BY <2>2 DEF needs, same_box
  <2>4. Strangers(deliveries, d, o)
    BY UnrelatedStrangers
  <2> QED
    BY <2>3, <2>4 DEF InOrder, Sane, InTurn
<1> QED
  BY <1>1, OrderKept, PTL

\* A leg that has started keeps its inputs and its review until its delivery is
\* deleted, whatever request or upload comes (edit, sync_parent).
THEOREM ExecutedStaysFrozen == Spec => ExecutedFrozen
<1> DEFINE Stays ==
             \A d \in Deliveries : \A l \in DOMAIN deliveries[d].legs :
               deliveries[d].legs[l].status \in Executed =>
                 \/ deliveries'[d] = NoDelivery
                 \/ /\ l \in DOMAIN deliveries'[d].legs
                    /\ fingerprint(deliveries'[d], l) = fingerprint(deliveries[d], l)
                    /\ deliveries'[d].legs[l].review = deliveries[d].legs[l].review
<1>1. InOrder /\ [Next]_vars => [Stays]_vars
  <2> SUFFICES ASSUME InOrder, [Next]_vars PROVE Stays
    OBVIOUS
  <2> DEFINE new == deliveries'
  <2>1. \/ \A d \in Deliveries : Frozen(new[d], deliveries[d])
        \/ new = deliveries
        \/ \A d \in Deliveries : new[d] = NoDelivery
    BY NextProceeds DEF InOrder, Proceeds
  <2> HIDE DEF new
  <2> SUFFICES ASSUME NEW d \in Deliveries, NEW l \in DOMAIN deliveries[d].legs,
                      deliveries[d].legs[l].status \in Executed
               PROVE  \/ new[d] = NoDelivery
                      \/ /\ l \in DOMAIN new[d].legs
                         /\ fingerprint(new[d], l) = fingerprint(deliveries[d], l)
                         /\ new[d].legs[l].review = deliveries[d].legs[l].review
    BY DEF new
  <2> QED
    BY <2>1 DEF Frozen
<1> QED
  BY <1>1, OrderKept, PTL DEF Spec, ExecutedFrozen
=============================================================================
