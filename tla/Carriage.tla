------------------------------ MODULE Carriage ------------------------------
(***************************************************************************)
(* Dangerous goods of several consignments on one vehicle, judged by road  *)
(* rules (services/dg/trip.py check_trip and, of services/dg/compliance.py,*)
(* the points of 1.1.3.6, mixed loading of 7.5.2 and limited quantities).  *)
(* The checks are functions of the load; the load is put together step by  *)
(* step, and what a check said of a smaller or vaguer load has been acted  *)
(* on by then: plates are fitted, a delivery is reviewed.                  *)
(*                                                                         *)
(* Of excepted quantities only E0 is modelled.  The foodstuffs of 7.5.4    *)
(* and the conditions under which explosives of two groups may travel      *)
(* together are left out: they decide nothing here.  The class field of an *)
(* explosive is its classification code, as the lookup fills it in         *)
(* (enrichment.py:401-403), so that one subdivision stands for both.       *)
(***************************************************************************)
EXTENDS Integers, FiniteSets, FiniteSetsExt

CONSTANTS
  Goods,         \* products on declarations
  Declaration,   \* what is declared of each
  Consignments,
  ForbidsGroups, \* pairs of compatibility groups whose cell of 7.5.2.2 is empty
  UnitMasses,    \* permitted maximum masses, in tonnes
  Unknown,
  MaxAboard      \* bound: products on the vehicle

Product == [consignment : Consignments, un : STRING, class : STRING, subdivision : STRING,
            category : {"0", "1", "2", "3", "4"}, quantity : Nat, empty : BOOLEAN,
            forbidden : BOOLEAN, tank : BOOLEAN, e0 : BOOLEAN, limit : Nat \cup {Unknown},
            inner : Nat \cup {Unknown}, gross : Nat \cup {Unknown}, packages : Nat \cup {Unknown}]

\* What may be open on a declaration: the quantity for the points, and for the
\* limited quantities what is in an inner packaging, the gross mass of a
\* package and the number of packages.
Fields == {"quantity", "inner", "gross", "packages"}

ASSUME CarriageAssumption ==
  /\ Declaration \in [Goods -> Product] /\ IsFiniteSet(Goods) /\ IsFiniteSet(Consignments)
  /\ \A g \in ForbidsGroups : <<g[2], g[1]>> \in ForbidsGroups
  /\ Unknown \notin UnitMasses /\ MaxAboard \in Nat

VARIABLES
  aboard,  \* the products on the vehicle
  stated,  \* which fields of which of them are filled in
  mass     \* the permitted maximum mass of the vehicle

carriageVars == <<aboard, stated, mass>>

CarriageTypeOK ==
  /\ aboard \subseteq Goods /\ stated \subseteq aboard \X Fields
  /\ mass \in UnitMasses \cup {Unknown}

-----------------------------------------------------------------------------
(* Points: check_adr_points *)

Threshold == 1000

\* Nine substances of category 1 count 20 times.
NoteA == {"0081", "0082", "0084", "0241", "0331", "0332", "0482", "1005", "1017"}

\* An empty uncleaned packaging is category 4, unless it had category 0 in it.
transport_category(p) ==
  LET d == Declaration[p]
  IN  IF d.empty /\ ~(d.category = "0" /\ d.un # "2908") THEN "4" ELSE d.category

factor(p) ==
  CASE transport_category(p) = "1" -> IF Declaration[p].un \in NoteA THEN 20 ELSE 50
    [] transport_category(p) = "2" -> 3
    [] transport_category(p) = "3" -> 1
    [] OTHER -> 0

counted(load) == {p \in load : ~Declaration[p].forbidden}

\* Zero is read as not filled in; a packaging put in category 4 needs nothing.
usable(p, known) ==
  \/ <<p, "quantity">> \in known /\ Declaration[p].quantity > 0
  \/ Declaration[p].empty /\ transport_category(p) = "4"

total_points(load, known) ==
  MapThenSumSet(LAMBDA p : factor(p) * Declaration[p].quantity,
                {p \in counted(load) : usable(p, known)})

status(load, known) ==
  IF \E p \in load : Declaration[p].tank THEN "not_available_for_mode"
  ELSE IF \E p \in counted(load) : usable(p, known) /\ transport_category(p) = "0"
       THEN "not_exempt"
  ELSE IF \E p \in counted(load) : ~usable(p, known) THEN "incomplete"
  ELSE IF total_points(load, known) <= Threshold THEN "exempt_possible" ELSE "above_threshold"

\* Mutant: what is missing leaves the exemption undecided whatever is there.
exempt_status(load, known) ==
  CASE status(load, known) \in {"above_threshold", "not_exempt", "not_available_for_mode"} -> "no"
    [] status(load, known) = "exempt_possible" -> "yes"
    [] OTHER -> "undecided"

\* Three-valued; over the threshold is over it whatever is missing.
exempt(load, known) ==
  IF \/ status(load, known) \in {"above_threshold", "not_exempt", "not_available_for_mode"}
     \/ total_points(load, known) > Threshold
  THEN "no"
  ELSE IF status(load, known) = "exempt_possible" THEN "yes" ELSE "undecided"

apart(load, c) == {p \in load : Declaration[p].consignment = c}

\* Mutant: reported of a consignment that never was exempt.
exemption_lost_any(load, known) ==
  /\ exempt(load, known) = "no"
  /\ \E c \in Consignments : exempt(apart(load, c), known) = "yes"

\* Every consignment exempt, the load not.
exemption_lost(load, known) ==
  /\ exempt(load, known) = "no"
  /\ Cardinality(Consignments) >= 2
  /\ \A c \in Consignments : exempt(apart(load, c), known) = "yes"

-----------------------------------------------------------------------------
(* Mixed loading: check_adr_mixed_loading *)

explosive(p) == Declaration[p].class = "1"
\* 1.4S is left out of the comparison with other classes.
class1(load) == {p \in load : explosive(p) /\ Declaration[p].subdivision # "S"}
other_class(load) == {p \in load : ~explosive(p)}

Blasting == {"0081", "0082", "0084", "0241", "0331", "0332"}
Nitrates == {"1942", "2067", "3375", "1451", "2722", "1486", "1477", "1498", "1446", "2464",
             "1454", "1474", "1507"}
LifeSaving == {"2990", "3072", "3268"}

\* The footnotes to 7.5.2.1 that permit a pair.
footnote(p, q) ==
  LET un == Declaration[p].un  with == Declaration[q].un
  IN  \/ un \in Blasting /\ with \in Nitrates
      \/ un = "0503" /\ with = "3268"
      \/ Declaration[q].class = "9" /\ with \in LifeSaving

\* Mutant: one permitted combination makes the others all right.
forbidden_classes_unless(load) ==
  /\ class1(load) # {} /\ other_class(load) # {}
  /\ \A p \in class1(load), q \in other_class(load) : ~footnote(p, q)

\* Per pair: a permitted pair does not make the rest all right.
forbidden_classes(load) ==
  \E p \in class1(load), q \in other_class(load) : ~footnote(p, q)

group(p) == Declaration[p].subdivision
label(p) == <<Declaration[p].consignment, Declaration[p].un>>

\* By group: two packages, which have two labels, meet within their own.
forbidden_groups(load) ==
  LET known == {p \in load : explosive(p) /\ group(p) # ""}
  IN  \E g, h \in {group(p) : p \in known} :
        /\ <<g, h>> \in ForbidsGroups
        /\ g = h => Cardinality({label(p) : p \in {q \in known : group(q) = g}}) >= 2

-----------------------------------------------------------------------------
(* Limited quantities: check_lq_eq, and the mark on the unit: _lq_marking *)

GrossLimit == 30
Dispensation == 8000
MassTrigger == 12

entered(p, field, known) == IF <<p, field>> \in known THEN Declaration[p][field] ELSE Unknown

assess_lq(p, known) ==
  LET limit == Declaration[p].limit
      inner == entered(p, "inner", known)
      gross == entered(p, "gross", known)
  IN  IF limit = Unknown THEN "no_data"
      ELSE IF limit = 0 THEN "not_permitted"
      ELSE IF inner = Unknown THEN "incomplete"
      ELSE IF inner > limit THEN "not_within"
      ELSE IF gross = Unknown THEN "incomplete"
      ELSE IF gross > GrossLimit THEN "not_within" ELSE "within_limits"

\* What is not known to be within the limits, or how many there are of, is not
\* in the total.
totalled(load, known) ==
  {p \in counted(load) : assess_lq(p, known) = "within_limits"
                         /\ entered(p, "packages", known) # Unknown}

lq_gross_total(load, known) ==
  MapThenSumSet(LAMBDA p : Declaration[p].gross * Declaration[p].packages, totalled(load, known))

\* Mutant: without an answer there are no plates.
plates_flat(load, known) == IF exempt(load, known) = "no" THEN "yes" ELSE "no"

\* Orange plates are carried when the exemption is lost.
plates(load, known) ==
  CASE exempt(load, known) = "no" -> "yes"
    [] exempt(load, known) = "yes" -> "no"
    [] OTHER -> "undecided"

mark_reason(load, known, unit) ==
  IF unit = Unknown THEN "unit_mass_unknown"
  ELSE IF unit <= MassTrigger THEN "unit_at_or_below_12t"
  ELSE IF lq_gross_total(load, known) <= Dispensation THEN "within_8t_dispensation"
  ELSE IF plates(load, known) = "yes" THEN "orange_plates_instead"
  ELSE IF plates(load, known) = "undecided" THEN "required_unless_plates" ELSE "required"

mark_required(load, known, unit) ==
  CASE mark_reason(load, known, unit) \in {"unit_mass_unknown", "required_unless_plates"} -> "undecided"
    [] mark_reason(load, known, unit) = "required" -> "yes"
    [] OTHER -> "no"

\* What assessment reads as a prohibition in the findings of check_trip
\* (services/deliveries.py forbidden).
blocked(load, known) ==
  \/ forbidden_classes(load) \/ forbidden_groups(load)
  \/ \E p \in counted(load) : assess_lq(p, known) = "not_permitted" \/ Declaration[p].e0

-----------------------------------------------------------------------------
CarriageInit == aboard = {} /\ stated = {} /\ mass = Unknown

Load(p) ==
  /\ p \notin aboard /\ Cardinality(aboard) < MaxAboard
  /\ aboard' = aboard \cup {p} /\ UNCHANGED <<stated, mass>>

Unload(p) ==
  /\ p \in aboard
  /\ aboard' = aboard \ {p} /\ stated' = stated \ ({p} \X Fields) /\ UNCHANGED mass

FillIn(p, field) ==
  /\ p \in aboard /\ <<p, field>> \notin stated /\ Declaration[p][field] # Unknown
  /\ stated' = stated \cup {<<p, field>>} /\ UNCHANGED <<aboard, mass>>

Assign(m) == mass # m /\ mass' = m /\ UNCHANGED <<aboard, stated>>

CarriageNext ==
  \/ \E p \in Goods : Load(p) \/ Unload(p) \/ \E field \in Fields : FillIn(p, field)
  \/ \E m \in UnitMasses : Assign(m)

CarriageSpec == CarriageInit /\ [][CarriageNext]_carriageVars

-----------------------------------------------------------------------------
\* Neither more goods nor the answer to an open question gives a load the
\* exemption back, or lifts a prohibition: whoever fitted plates, or refused the
\* load, on a partial declaration was right.
RefusalStands ==
  [][aboard \subseteq aboard' /\ stated \subseteq stated' =>
       /\ exempt(aboard, stated) = "no" => exempt(aboard', stated') = "no"
       /\ blocked(aboard, stated) => blocked(aboard', stated')]_carriageVars

\* The loss that is reported is the combination's: each consignment is under the
\* threshold on its own, and their points together are over it.
LossIsReal ==
  exemption_lost(aboard, stated) <=>
    /\ \A c \in Consignments : exempt(apart(aboard, c), stated) = "yes"
    /\ MapThenSumSet(LAMBDA c : total_points(apart(aboard, c), stated), Consignments) > Threshold

\* Mixed loading is a matter of pairs: a load is refused exactly when two of its
\* products would be refused alone, whatever else travels with them.
PairsDecide ==
  (forbidden_classes(aboard) \/ forbidden_groups(aboard)) <=>
    \E p, q \in aboard : forbidden_classes({p, q}) \/ forbidden_groups({p, q})

\* A decision about the mark is not taken back when what was open is filled in,
\* plates and points and packages alike.  It is, where it rests on the 8 tonnes:
\* what is open counts nothing there.
MarkStands ==
  [][/\ aboard' = aboard /\ mass' = mass
     /\ mark_required(aboard, stated, mass) # "undecided"
     /\ mark_reason(aboard, stated, mass) # "within_8t_dispensation"
     => mark_required(aboard', stated', mass') = mark_required(aboard, stated, mass)]_carriageVars
=============================================================================
