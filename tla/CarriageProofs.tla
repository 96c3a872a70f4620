--------------------------- MODULE CarriageProofs ---------------------------
(***************************************************************************)
(* Theorems of Carriage, for any goods, declarations, consignments and     *)
(* table of compatibility groups, and of Stowage, for any goods, tables,   *)
(* provisions and lines.  Mixed loading is a matter of pairs: between two  *)
(* groups by definition; within one group the code counts labels, and two  *)
(* labels or more mean two products.  The points of a load are the points  *)
(* of its consignments, and never become fewer.  Of two lines whose names  *)
(* no other line has the consignment is told what they would be told       *)
(* alone; of any two lines it is told something of all that they would be. *)
(***************************************************************************)
EXTENDS Carriage, Stowage, FiniteSetTheorems, SequenceTheorems, TLAPS

\* Two different elements make a finite set count two, and the reverse.
LEMMA TwoElements ==
  ASSUME NEW S, Cardinality(S) >= 2
  PROVE  \E x, y \in S : x # y
  <1>1. S # {}
    BY FS_EmptySet
  <1>2. PICK x \in S : TRUE
    BY <1>1
  <1>3. S # {x}
    <2>1. Cardinality({x}) = 1
      BY FS_Singleton
    <2>2. QED
      BY <2>1
  <1>4. QED
    BY <1>2, <1>3

LEMMA CountsTwo ==
  ASSUME NEW S, IsFiniteSet(S), NEW x \in S, NEW y \in S, x # y
  PROVE  Cardinality(S) >= 2
  <1>1. IsFiniteSet({x}) /\ Cardinality({x}) = 1
    BY FS_Singleton
  <1>2. IsFiniteSet({x} \cup {y}) /\ Cardinality({x} \cup {y}) = 2
    <2>1. y \notin {x}
      OBVIOUS
    <2>2. QED
      BY <1>1, <2>1, FS_AddElement
  <1>3. {x} \cup {y} \in SUBSET S
    OBVIOUS
  <1>4. Cardinality({x} \cup {y}) <= Cardinality(S)
    BY <1>3, FS_Subset
  <1>5. Cardinality(S) \in Nat
    BY FS_CardinalityType
  <1>6. QED
    BY <1>2, <1>4, <1>5

\* The labels of finitely many products are finitely many.
labels(products) == {label(p) : p \in products}

LEMMA FiniteLabels ==
  ASSUME NEW products, IsFiniteSet(products)
  PROVE  IsFiniteSet(labels(products))
  <1> DEFINE f == [p \in products |-> label(p)]
  <1>1. f \in Surjection(products, labels(products))
    BY DEF Surjection, labels
  <1>2. QED
    BY <1>1, FS_Surjection

-----------------------------------------------------------------------------
\* The explosives of a load with a known group, and those of one group.
known(load) == {p \in load : explosive(p) /\ group(p) # ""}
of(load, g) == {q \in known(load) : group(q) = g}

LEMMA Groups ==
  ASSUME NEW load
  PROVE  forbidden_groups(load) <=>
           \E p, q \in known(load) :
             /\ <<group(p), group(q)>> \in ForbidsGroups
             /\ group(p) = group(q) => Cardinality(labels(of(load, group(p)))) >= 2
  BY DEF forbidden_groups, known, of, labels

LEMMA ClassesPairwise ==
  ASSUME NEW load
  PROVE  forbidden_classes(load) <=> \E p, q \in load : forbidden_classes({p, q})
  <1>1. ASSUME forbidden_classes(load)
        PROVE  \E p, q \in load : forbidden_classes({p, q})
    <2>1. PICK p \in class1(load), q \in other_class(load) : ~footnote(p, q)
      BY <1>1 DEF forbidden_classes
    <2>2. p \in load /\ q \in load /\ p \in class1({p, q}) /\ q \in other_class({p, q})
      BY DEF class1, other_class
    <2>3. QED
      BY <2>1, <2>2 DEF forbidden_classes
  <1>2. ASSUME NEW p \in load, NEW q \in load, forbidden_classes({p, q})
        PROVE  forbidden_classes(load)
    <2>1. class1({p, q}) \subseteq class1(load) /\ other_class({p, q}) \subseteq other_class(load)
      BY DEF class1, other_class
    <2>2. QED
      BY <1>2, <2>1 DEF forbidden_classes
  <1>3. QED
    BY <1>1, <1>2

LEMMA GroupsPairwise ==
  ASSUME NEW load, IsFiniteSet(load)
  PROVE  forbidden_groups(load) <=> \E p, q \in load : forbidden_groups({p, q})
  <1>1. ASSUME forbidden_groups(load)
        PROVE  \E p, q \in load : forbidden_groups({p, q})
    <2>1. PICK p \in known(load), q \in known(load) :
            /\ <<group(p), group(q)>> \in ForbidsGroups
            /\ group(p) = group(q) => Cardinality(labels(of(load, group(p)))) >= 2
      BY <1>1, Groups
    <2>2. CASE group(p) # group(q)
      <3>1. p \in load /\ q \in load /\ p \in known({p, q}) /\ q \in known({p, q})
        BY DEF known
      <3>2. forbidden_groups({p, q})
        BY <2>1, <2>2, <3>1, Groups
      <3>3. QED
        BY <3>1, <3>2
    <2>3. CASE group(p) = group(q)
      <3>1. \E x, y \in labels(of(load, group(p))) : x # y
        BY <2>1, <2>3, TwoElements
      <3>2. PICK r \in of(load, group(p)), s \in of(load, group(p)) : label(r) # label(s)
        BY <3>1 DEF labels
      <3>3. /\ r \in load /\ s \in load /\ r \in known({r, s}) /\ s \in known({r, s})
            /\ group(r) = group(p) /\ group(s) = group(p)
        BY DEF of, known
      <3>4. label(r) \in labels(of({r, s}, group(r))) /\ label(s) \in labels(of({r, s}, group(r)))
        BY <3>3 DEF of, labels
      <3>5. IsFiniteSet(labels({r, s})) /\ labels(of({r, s}, group(r))) \in SUBSET labels({r, s})
        <4>1. IsFiniteSet({r} \cup {s})
          BY FS_Singleton, FS_AddElement
        <4>2. {r} \cup {s} = {r, s}
          OBVIOUS
        <4>3. QED
          BY <4>1, <4>2, FiniteLabels DEF labels, of, known
      <3>6. IsFiniteSet(labels(of({r, s}, group(r))))
        BY <3>5, FS_Subset
      <3>7. Cardinality(labels(of({r, s}, group(r)))) >= 2
        BY <3>2, <3>4, <3>6, CountsTwo
      <3>8. forbidden_groups({r, s})
        BY <2>1, <2>3, <3>3, <3>7, Groups
      <3>9. QED
        BY <3>3, <3>8
    <2>4. QED
      BY <2>2, <2>3
  <1>2. ASSUME NEW p \in load, NEW q \in load, forbidden_groups({p, q})
        PROVE  forbidden_groups(load)
    <2>1. PICK r \in known({p, q}), s \in known({p, q}) :
            /\ <<group(r), group(s)>> \in ForbidsGroups
            /\ group(r) = group(s) => Cardinality(labels(of({p, q}, group(r)))) >= 2
      BY <1>2, Groups
    <2>2. r \in known(load) /\ s \in known(load)
      BY DEF known
    <2>3. ASSUME group(r) = group(s)
          PROVE  Cardinality(labels(of(load, group(r)))) >= 2
      <3>1. PICK x \in labels(of({p, q}, group(r))), y \in labels(of({p, q}, group(r))) : x # y
        BY <2>1, <2>3, TwoElements
      <3>2. x \in labels(of(load, group(r))) /\ y \in labels(of(load, group(r)))
        BY DEF labels, of, known
      <3>3. IsFiniteSet(of(load, group(r)))
        <4>1. of(load, group(r)) \in SUBSET load
          BY DEF of, known
        <4>2. QED
          BY <4>1, FS_Subset
      <3>4. QED
        BY <3>1, <3>2, <3>3, FiniteLabels, CountsTwo
    <2>4. QED
      BY <2>1, <2>2, <2>3, Groups
  <1>3. QED
    BY <1>1, <1>2

-----------------------------------------------------------------------------
\* Only goods that were declared are aboard.
LEMMA AboardAreGoods == CarriageSpec => [](aboard \subseteq Goods)
<1>1. CarriageInit => aboard \subseteq Goods
  BY DEF CarriageInit
<1>2. aboard \subseteq Goods /\ [CarriageNext]_carriageVars => (aboard \subseteq Goods)'
  BY DEF CarriageNext, carriageVars, Load, Unload, FillIn, Assign
<1> QED
  BY <1>1, <1>2, PTL DEF CarriageSpec

\* What is refused is refused for two of its products, and two products that
\* are refused alone are refused in any company (check_adr_mixed_loading).
THEOREM MixedLoadingIsPairwise == CarriageSpec => []PairsDecide
<1>1. aboard \subseteq Goods => PairsDecide
  <2> SUFFICES ASSUME aboard \subseteq Goods PROVE PairsDecide
    OBVIOUS
  <2>1. IsFiniteSet(aboard)
    BY CarriageAssumption, FS_Subset
  <2> QED
    BY <2>1, ClassesPairwise, GroupsPairwise DEF PairsDecide
<1> QED
  BY <1>1, AboardAreGoods, PTL

-----------------------------------------------------------------------------
(* Sums: MapThenSumSet takes the elements in an order of its own.  A sum of *)
(* natural numbers counts a set of marks, and sets know no order.          *)

\* The element that is taken next.
Choice(s) == CHOOSE x \in s : TRUE

\* f is the sum of w over each subset of S, as MapThenSumSet defines it.
Sums(S, w, f) ==
  f = [s \in SUBSET S |-> IF s = {} THEN 0 ELSE w[Choice(s)] + f[s \ {Choice(s)}]]

\* The definition is good for one function at most.
LEMMA SumsOnce ==
  ASSUME NEW S, IsFiniteSet(S), NEW w, NEW f, NEW g, Sums(S, w, f), Sums(S, w, g)
  PROVE  f = g
<1> DEFINE T == {s \in SUBSET S : f[s] # g[s]}
<1>1. IsWellFoundedOn(StrictSubsetOrdering(S), SUBSET S)
  BY FS_StrictSubsetOrderingWellFounded, FS_FiniteSubsetsOfFinite
<1>2. T = {}
  <2> SUFFICES ASSUME T # {} PROVE FALSE
    OBVIOUS
  <2>1. PICK s \in T : \A r \in T : ~ (<<r, s>> \in StrictSubsetOrdering(S))
    <3>1. T \subseteq SUBSET S
      OBVIOUS
    <3> HIDE DEF T
    <3> QED
      BY <1>1, <3>1, WFMin
  <2>2. CASE s = {}
    BY <2>2 DEF Sums
  <2>3. CASE s # {}
    <3>1. Choice(s) \in s
      BY <2>3 DEF Choice
    <3>2. <<s \ {Choice(s)}, s>> \in StrictSubsetOrdering(S)
      BY <3>1 DEF StrictSubsetOrdering
    <3>3. f[s \ {Choice(s)}] = g[s \ {Choice(s)}]
      BY <2>1, <3>2
    <3> QED
      BY <2>3, <3>3 DEF Sums
  <2> QED
    BY <2>2, <2>3
<1>3. \A s \in SUBSET S : f[s] = g[s]
  BY <1>2
<1> QED
  BY <1>3 DEF Sums

\* w[x] marks for each x in s.
marks(w, s) == UNION {{x} \X (1 .. w[x]) : x \in s}

\* There are as many marks as the numbers add up to, taken away one by one.
LEMMA MarksOfOne ==
  ASSUME NEW w, NEW x, w[x] \in Nat
  PROVE  IsFiniteSet({x} \X (1 .. w[x])) /\ Cardinality({x} \X (1 .. w[x])) = w[x]
<1> DEFINE n == w[x]
           I == 1 .. n
<1>1. IsFiniteSet({x}) /\ Cardinality({x}) = 1
  BY FS_Singleton
<1>2. n \in Nat
  OBVIOUS
<1> HIDE DEF n
<1>3. IsFiniteSet(I) /\ Cardinality(I) = n
  BY <1>2, FS_Interval
<1> HIDE DEF I
<1>4. IsFiniteSet({x} \X I) /\ Cardinality({x} \X I) = 1 * n
  BY <1>1, <1>3, FS_Product
<1>5. 1 * n = n
  BY <1>2
<1> QED
  BY <1>4, <1>5 DEF n, I

LEMMA MarksFinite ==
  ASSUME NEW s, IsFiniteSet(s), NEW w, \A x \in s : w[x] \in Nat
  PROVE  IsFiniteSet(marks(w, s)) /\ Cardinality(marks(w, s)) \in Nat
<1> DEFINE T == {{x} \X (1 .. w[x]) : x \in s}
           f == [x \in s |-> {x} \X (1 .. w[x])]
<1>1. f \in Surjection(s, T)
  BY DEF Surjection
<1>2. IsFiniteSet(T)
  BY <1>1, FS_Surjection
<1>3. \A t \in T : IsFiniteSet(t)
  BY MarksOfOne
<1>4. IsFiniteSet(UNION T)
  BY <1>2, <1>3, FS_UNION
<1> QED
  BY <1>4, FS_CardinalityType DEF marks

LEMMA MarksAdd ==
  ASSUME NEW s, IsFiniteSet(s), NEW w, \A x \in s : w[x] \in Nat, NEW x \in s
  PROVE  Cardinality(marks(w, s)) = w[x] + Cardinality(marks(w, s \ {x}))
<1> DEFINE here == {x} \X (1 .. w[x])
           rest == marks(w, s \ {x})
<1>1. marks(w, s) = here \cup rest
  BY DEF marks
<1>2. here \cap rest = {}
  BY DEF marks
<1>3. IsFiniteSet(s \ {x})
  BY FS_RemoveElement
<1>4. IsFiniteSet(rest) /\ Cardinality(rest) \in Nat
  BY <1>3, MarksFinite
<1>5. IsFiniteSet(here) /\ Cardinality(here) = w[x]
  BY MarksOfOne
<1>6. Cardinality(here \cap rest) = 0
  BY <1>2, FS_EmptySet
<1> HIDE DEF here, rest
<1>7. Cardinality(here \cup rest) = Cardinality(here) + Cardinality(rest) - Cardinality(here \cap rest)
  BY <1>4, <1>5, FS_Union
<1>8. Cardinality(here \cup rest) = w[x] + Cardinality(rest)
  BY <1>4, <1>5, <1>6, <1>7
<1>9. rest = marks(w, s \ {x})
  BY DEF rest
<1> HIDE DEF marks
<1> QED
  BY <1>1, <1>8, <1>9

\* The numbers of marks.
SumOf(w, S) == [s \in SUBSET S |-> Cardinality(marks(w, s))]

\* So they are such a sum.
LEMMA SumsCount ==
  ASSUME NEW S, IsFiniteSet(S), NEW w, \A x \in S : w[x] \in Nat
  PROVE  Sums(S, w, SumOf(w, S))
<1>1. ASSUME NEW s \in SUBSET S
      PROVE  Cardinality(marks(w, s)) =
               IF s = {} THEN 0 ELSE w[Choice(s)] + Cardinality(marks(w, s \ {Choice(s)}))
  <2>1. CASE s = {}
    BY <2>1, FS_EmptySet DEF marks
  <2>2. CASE s # {}
    <3>1. Choice(s) \in s
      BY <2>2 DEF Choice
    <3>2. IsFiniteSet(s) /\ \A x \in s : w[x] \in Nat
      BY FS_Subset
    <3> QED
      BY <2>2, <3>1, <3>2, MarksAdd
  <2> QED
    BY <2>1, <2>2
<1> QED
  BY <1>1 DEF Sums, SumOf

\* A sum of natural numbers counts marks, in whatever order it is taken.
LEMMA SumCounts ==
  ASSUME NEW S, IsFiniteSet(S), NEW w, \A x \in S : w[x] \in Nat, NEW f, Sums(S, w, f)
  PROVE  f[S] = Cardinality(marks(w, S))
<1>1. f = SumOf(w, S)
  BY SumsCount, SumsOnce
<1> QED
  BY <1>1 DEF SumOf

-----------------------------------------------------------------------------
(* Points *)

\* The products that count, and a mark for each of their points.
counting(load, has) == {p \in counted(load) : usable(p, has)}
points == [p \in Goods |-> factor(p) * Declaration[p].quantity]
collected(load, has) == marks(points, counting(load, has))

LEMMA PointsNat == ASSUME NEW p \in Goods PROVE points[p] \in Nat
<1>1. factor(p) \in Nat
  BY DEF factor
<1>2. Declaration[p].quantity \in Nat
  BY CarriageAssumption DEF Product
<1>3. \A m, n \in Nat : m * n \in Nat
  OBVIOUS
<1> QED
  BY <1>1, <1>2, <1>3 DEF points

\* The points of a load are counted by marks.
LEMMA PointsCounted ==
  ASSUME NEW load, load \subseteq Goods, NEW has
  PROVE  /\ total_points(load, has) = Cardinality(collected(load, has))
         /\ IsFiniteSet(collected(load, has)) /\ Cardinality(collected(load, has)) \in Nat
<1> DEFINE S == counting(load, has)
           g == SumOf(points, S)
<1>1. S \subseteq Goods /\ IsFiniteSet(S) /\ \A p \in S : points[p] \in Nat
  <2>1. S \in SUBSET Goods
    BY DEF counting, counted
  <2> QED
    BY <2>1, CarriageAssumption, FS_Subset, PointsNat
<1>2. Sums(S, points, g)
  BY <1>1, SumsCount
<1>3. \A s \in SUBSET S : s # {} =>
        points[Choice(s)] = factor(CHOOSE x \in s : TRUE) * Declaration[CHOOSE x \in s : TRUE].quantity
  BY <1>1 DEF points, Choice
<1> HIDE DEF g
<1>4. g = [s \in SUBSET S |-> IF s = {} THEN 0
            ELSE factor(CHOOSE x \in s : TRUE) * Declaration[CHOOSE x \in s : TRUE].quantity
                   + g[s \ {CHOOSE x \in s : TRUE}]]
  BY <1>2, <1>3 DEF Sums, Choice
<1>5. PICK h : /\ h = [s \in SUBSET S |-> IF s = {} THEN 0
                   ELSE factor(CHOOSE x \in s : TRUE) * Declaration[CHOOSE x \in s : TRUE].quantity
                     + h[s \ {CHOOSE x \in s : TRUE}]]
               /\ total_points(load, has) = h[S]
  BY <1>4 DEF total_points, MapThenSumSet, MapThenFoldSet, counting
<1>6. Sums(S, points, h)
  BY <1>3, <1>5 DEF Sums, Choice
<1>7. h[S] = Cardinality(marks(points, S))
  BY <1>1, <1>6, SumCounts
<1> QED
  BY <1>1, <1>5, <1>7, MarksFinite DEF collected

\* More goods, and more of them filled in, never count for less.
LEMMA CountingGrows ==
  ASSUME NEW load, NEW more, NEW has, NEW hold, load \subseteq more, has \subseteq hold
  PROVE  counting(load, has) \subseteq counting(more, hold)
BY DEF counting, counted, usable

LEMMA PointsGrow ==
  ASSUME NEW load, NEW more, NEW has, NEW hold,
         load \subseteq more, has \subseteq hold, more \subseteq Goods
  PROVE  total_points(load, has) <= total_points(more, hold)
<1>1. collected(load, has) \in SUBSET collected(more, hold)
  BY CountingGrows DEF collected, marks
<1>2. Cardinality(collected(load, has)) <= Cardinality(collected(more, hold))
  <2> HIDE DEF collected
  <2> QED
    BY <1>1, PointsCounted, FS_Subset
<1>3. load \subseteq Goods
  OBVIOUS
<1> QED
  BY <1>2, <1>3, PointsCounted

\* What the exemption depends on, whatever the order of the questions.
LEMMA Exempt ==
  ASSUME NEW load, load \subseteq Goods, NEW has
  PROVE  /\ exempt(load, has) = "no" <=>
              \/ \E p \in load : Declaration[p].tank
              \/ \E p \in counting(load, has) : transport_category(p) = "0"
              \/ total_points(load, has) > Threshold
         /\ exempt(load, has) = "yes" <=>
              exempt(load, has) # "no" /\ counting(load, has) = counted(load)
<1> DEFINE tank == \E p \in load : Declaration[p].tank
           zero == \E p \in counted(load) : usable(p, has) /\ transport_category(p) = "0"
           open == \E p \in counted(load) : ~usable(p, has)
           over == total_points(load, has) > Threshold
<1>1. /\ zero <=> \E p \in counting(load, has) : transport_category(p) = "0"
      /\ open <=> counting(load, has) # counted(load)
  BY DEF counting
<1>2. total_points(load, has) <= Threshold <=> ~over
  <2>1. total_points(load, has) \in Nat
    BY PointsCounted
  <2> QED
    BY <2>1 DEF Threshold
<1>3. /\ tank => status(load, has) = "not_available_for_mode"
      /\ ~tank /\ zero => status(load, has) = "not_exempt"
      /\ ~tank /\ ~zero /\ open => status(load, has) = "incomplete"
      /\ ~tank /\ ~zero /\ ~open /\ ~over => status(load, has) = "exempt_possible"
      /\ ~tank /\ ~zero /\ ~open /\ over => status(load, has) = "above_threshold"
  BY <1>2 DEF status
<1> HIDE DEF tank, zero, open
<1>4. exempt(load, has) =
        IF \/ status(load, has) \in {"above_threshold", "not_exempt", "not_available_for_mode"}
           \/ over
        THEN "no" ELSE IF status(load, has) = "exempt_possible" THEN "yes" ELSE "undecided"
  BY DEF exempt
<1> HIDE DEF over
<1>5. exempt(load, has) = "no" <=> tank \/ zero \/ over
  BY <1>3, <1>4
<1>6. exempt(load, has) = "yes" <=> ~(tank \/ zero \/ over) /\ ~open
  BY <1>3, <1>4
<1> QED
  BY <1>1, <1>5, <1>6 DEF tank, over

\* An exemption that is lost stays lost.
LEMMA NoStands ==
  ASSUME NEW load, NEW more, NEW has, NEW hold,
         load \subseteq more, has \subseteq hold, more \subseteq Goods,
         exempt(load, has) = "no"
  PROVE  exempt(more, hold) = "no"
<1>1. total_points(load, has) <= total_points(more, hold)
  BY PointsGrow
<1>2. counting(load, has) \subseteq counting(more, hold) /\ load \subseteq Goods
  BY CountingGrows
<1>3. total_points(load, has) \in Nat /\ total_points(more, hold) \in Nat
  BY <1>2, PointsCounted
<1> QED
  BY <1>1, <1>2, <1>3, Exempt DEF Threshold

\* What of a load belongs to the consignments of C.
shipped(load, C) == {p \in load : Declaration[p].consignment \in C}

\* The points of a load are those of its consignments together.
LEMMA SharesAdd ==
  ASSUME NEW load, load \subseteq Goods, NEW has, NEW C, NEW c \in C
  PROVE  Cardinality(collected(shipped(load, C), has)) =
           total_points(apart(load, c), has) + Cardinality(collected(shipped(load, C \ {c}), has))
<1> DEFINE all == collected(shipped(load, C), has)
           one == collected(apart(load, c), has)
           rest == collected(shipped(load, C \ {c}), has)
<1>1. /\ shipped(load, C) \subseteq Goods /\ apart(load, c) \subseteq Goods
      /\ shipped(load, C \ {c}) \subseteq Goods
  BY DEF shipped, apart
<1>2. /\ counting(shipped(load, C), has)
           = counting(apart(load, c), has) \cup counting(shipped(load, C \ {c}), has)
      /\ counting(apart(load, c), has) \cap counting(shipped(load, C \ {c}), has) = {}
  BY DEF counting, counted, shipped, apart
<1>3. all = one \cup rest /\ one \cap rest = {}
  BY <1>2 DEF collected, marks
<1>4. /\ IsFiniteSet(one) /\ Cardinality(one) \in Nat /\ Cardinality(one) = total_points(apart(load, c), has)
      /\ IsFiniteSet(rest) /\ Cardinality(rest) \in Nat
  BY <1>1, PointsCounted
<1> HIDE DEF all, one, rest
<1>5. Cardinality(one \cap rest) = 0
  BY <1>3, FS_EmptySet
<1>6. Cardinality(one \cup rest) = Cardinality(one) + Cardinality(rest) - Cardinality(one \cap rest)
  BY <1>4, FS_Union
<1>7. Cardinality(all) = Cardinality(one) + Cardinality(rest)
  BY <1>3, <1>4, <1>5, <1>6
<1> QED
  BY <1>4, <1>7 DEF all, rest

LEMMA SharesSum ==
  ASSUME NEW load, load \subseteq Goods, NEW has
  PROVE  MapThenSumSet(LAMBDA c : total_points(apart(load, c), has), Consignments)
           = total_points(load, has)
<1> DEFINE w == [c \in Consignments |-> total_points(apart(load, c), has)]
           g == [C \in SUBSET Consignments |-> Cardinality(collected(shipped(load, C), has))]
<1>1. ASSUME NEW C \in SUBSET Consignments
      PROVE  g[C] = IF C = {} THEN 0 ELSE w[Choice(C)] + g[C \ {Choice(C)}]
  <2>1. CASE C = {}
    <3>1. collected(shipped(load, C), has) = {}
      BY <2>1 DEF collected, marks, counting, counted, shipped
    <3> QED
      BY <2>1, <3>1, FS_EmptySet
  <2>2. CASE C # {}
    <3>1. Choice(C) \in C
      BY <2>2 DEF Choice
    <3>2. /\ w[Choice(C)] = total_points(apart(load, Choice(C)), has)
          /\ g[C \ {Choice(C)}] = Cardinality(collected(shipped(load, C \ {Choice(C)}), has))
          /\ g[C] = Cardinality(collected(shipped(load, C), has))
      BY <3>1
    <3>3. g[C] = w[Choice(C)] + g[C \ {Choice(C)}]
      BY <3>1, <3>2, SharesAdd
    <3> QED
      BY <2>2, <3>3
  <2> QED
    BY <2>1, <2>2
<1>2. \A C \in SUBSET Consignments : C # {} =>
        w[Choice(C)] = total_points(apart(load, CHOOSE x \in C : TRUE), has)
  BY DEF Choice
<1>3. g[Consignments] = total_points(load, has)
  <2>1. shipped(load, Consignments) = load
    BY CarriageAssumption DEF shipped, Product
  <2> QED
    BY <2>1, PointsCounted
<1>4. Sums(Consignments, w, g)
  BY <1>1 DEF Sums
<1> HIDE DEF w, g
<1>5. g = [s \in SUBSET Consignments |-> IF s = {} THEN 0
            ELSE total_points(apart(load, CHOOSE x \in s : TRUE), has) + g[s \ {CHOOSE x \in s : TRUE}]]
  BY <1>2, <1>4 DEF Sums, Choice
<1>6. PICK h : /\ h = [s \in SUBSET Consignments |-> IF s = {} THEN 0
                   ELSE total_points(apart(load, CHOOSE x \in s : TRUE), has)
                          + h[s \ {CHOOSE x \in s : TRUE}]]
               /\ MapThenSumSet(LAMBDA c : total_points(apart(load, c), has), Consignments)
                    = h[Consignments]
  BY <1>5 DEF MapThenSumSet, MapThenFoldSet
<1>7. Sums(Consignments, w, h)
  BY <1>2, <1>6 DEF Sums, Choice
<1>8. h = g
  BY <1>4, <1>7, SumsOnce, CarriageAssumption
<1> QED
  BY <1>3, <1>6, <1>8

\* The loss that is reported is that of the combination: each consignment is
\* exempt on its own, and their points together are over the threshold
\* (trip.py check_trip, exemption_lost).
THEOREM LossOfTheCombination == CarriageSpec => []LossIsReal
<1>1. aboard \subseteq Goods => LossIsReal
  <2> SUFFICES ASSUME aboard \subseteq Goods PROVE LossIsReal
    OBVIOUS
  <2> DEFINE each == \A c \in Consignments : exempt(apart(aboard, c), stated) = "yes"
             total == total_points(aboard, stated)
  <2>1. /\ MapThenSumSet(LAMBDA c : total_points(apart(aboard, c), stated), Consignments) = total
        /\ total \in Nat
    BY SharesSum, PointsCounted
  <2>2. \A c \in Consignments : apart(aboard, c) \subseteq Goods
    BY DEF apart
  <2>3. total > Threshold => exempt(aboard, stated) = "no"
    BY Exempt
  <2>4. ASSUME each PROVE exempt(aboard, stated) = "no" <=> total > Threshold
    <3>1. \A p \in aboard : \E c \in Consignments : p \in apart(aboard, c)
      BY CarriageAssumption DEF apart, Product
    <3>2. ASSUME NEW c \in Consignments
          PROVE  /\ \A p \in apart(aboard, c) : ~Declaration[p].tank
                 /\ \A p \in counting(apart(aboard, c), stated) : transport_category(p) # "0"
      BY <2>2, <2>4, Exempt
    <3>3. \A p \in aboard : ~Declaration[p].tank
      BY <3>1, <3>2
    <3>4. \A p \in counting(aboard, stated) : transport_category(p) # "0"
      <4> SUFFICES ASSUME NEW p \in counting(aboard, stated) PROVE transport_category(p) # "0"
        OBVIOUS
      <4>1. PICK c \in Consignments : p \in apart(aboard, c)
        BY <3>1 DEF counting, counted
      <4>2. p \in counting(apart(aboard, c), stated)
        BY <4>1 DEF counting, counted
      <4> QED
        BY <3>2, <4>2
    <3> QED
      BY <3>3, <3>4, Exempt
  <2>5. ASSUME each, total > Threshold PROVE Cardinality(Consignments) >= 2
    <3>1. ASSUME NEW c \in Consignments PROVE Consignments # {c}
      <4> SUFFICES ASSUME Consignments = {c} PROVE FALSE
        OBVIOUS
      <4>1. apart(aboard, c) = aboard
        BY CarriageAssumption DEF apart, Product
      <4> QED
        BY <2>3, <2>5, <4>1, Exempt
    <3>2. Consignments # {}
      <4> SUFFICES ASSUME Consignments = {} PROVE FALSE
        OBVIOUS
      <4>1. counting(aboard, stated) = {}
        BY CarriageAssumption DEF counting, counted, Product
      <4>2. Cardinality(collected(aboard, stated)) = 0
        BY <4>1, FS_EmptySet DEF collected, marks
      <4> QED
        BY <2>5, <4>2, PointsCounted DEF Threshold
    <3>3. PICK c \in Consignments : TRUE
      BY <3>2
    <3>4. PICK d \in Consignments : d # c
      BY <3>1
    <3> QED
      BY <3>4, CountsTwo, CarriageAssumption
  <2> HIDE DEF each, total
  <2>6. exemption_lost(aboard, stated) <=> each /\ total > Threshold
    BY <2>3, <2>4, <2>5 DEF exemption_lost, each
  <2> QED
    BY <2>1, <2>6 DEF LossIsReal, each
<1> QED
  BY <1>1, AboardAreGoods, PTL DEF CarriageSpec

\* A prohibition is a matter of some of the products.
LEMMA BlockedStands ==
  ASSUME NEW load, NEW more, load \subseteq more, IsFiniteSet(more), NEW has, NEW hold, blocked(load, has)
  PROVE  blocked(more, hold)
<1>1. IsFiniteSet(load)
  BY FS_Subset
<1>2. forbidden_classes(load) => forbidden_classes(more)
  BY DEF forbidden_classes, class1, other_class
<1>3. forbidden_groups(load) => forbidden_groups(more)
  BY <1>1, GroupsPairwise
<1>4. counted(load) \subseteq counted(more)
  BY DEF counted
<1>5. \A p \in load : assess_lq(p, has) = "not_permitted" <=> assess_lq(p, hold) = "not_permitted"
  BY DEF assess_lq
<1>6. counted(load) \subseteq load
  BY DEF counted
<1> QED
  BY <1>2, <1>3, <1>4, <1>5, <1>6 DEF blocked

\* More goods or more answers never give a load its exemption back, nor lift a
\* prohibition (check_adr_points, check_adr_mixed_loading, check_lq_eq).
THEOREM RefusalsStand == CarriageSpec => RefusalStands
<1>1. aboard \subseteq Goods /\ (aboard \subseteq Goods)' =>
        [aboard \subseteq aboard' /\ stated \subseteq stated' =>
           /\ exempt(aboard, stated) = "no" => exempt(aboard', stated') = "no"
           /\ blocked(aboard, stated) => blocked(aboard', stated')]_carriageVars
  <2> SUFFICES ASSUME aboard' \subseteq Goods, aboard \subseteq aboard', stated \subseteq stated'
               PROVE  /\ exempt(aboard, stated) = "no" => exempt(aboard', stated') = "no"
                      /\ blocked(aboard, stated) => blocked(aboard', stated')
    OBVIOUS
  <2>1. IsFiniteSet(aboard')
    BY CarriageAssumption, FS_Subset
  <2> QED
    BY <2>1, NoStands, BlockedStands
<1> QED
  BY <1>1, AboardAreGoods, PTL DEF CarriageSpec, RefusalStands

\* The gross mass of the packages of limited quantities.
masses == [p \in Goods |-> Declaration[p].gross * Declaration[p].packages]

LEMMA TotalledTyped ==
  ASSUME NEW load, load \subseteq Goods, NEW has
  PROVE  /\ totalled(load, has) \subseteq Goods /\ IsFiniteSet(totalled(load, has))
         /\ \A p \in totalled(load, has) : masses[p] \in Nat
<1>1. totalled(load, has) \in SUBSET Goods
  BY DEF totalled, counted
<1>2. ASSUME NEW p \in totalled(load, has) PROVE masses[p] \in Nat
  <2>1. p \in Goods /\ entered(p, "gross", has) # Unknown /\ entered(p, "packages", has) # Unknown
    BY <1>1 DEF totalled, assess_lq
  <2>2. Declaration[p].gross # Unknown /\ Declaration[p].packages # Unknown
    BY <2>1 DEF entered
  <2>3. Declaration[p].gross \in Nat /\ Declaration[p].packages \in Nat
    BY <2>1, <2>2, CarriageAssumption DEF Product
  <2>4. \A m, n \in Nat : m * n \in Nat
    OBVIOUS
  <2> QED
    BY <2>1, <2>3, <2>4 DEF masses
<1> QED
  BY <1>1, <1>2, CarriageAssumption, FS_Subset

LEMMA MassCounted ==
  ASSUME NEW load, load \subseteq Goods, NEW has
  PROVE  lq_gross_total(load, has) = Cardinality(marks(masses, totalled(load, has)))
<1> DEFINE S == totalled(load, has)
           g == SumOf(masses, S)
<1>1. S \subseteq Goods /\ IsFiniteSet(S) /\ \A p \in S : masses[p] \in Nat
  BY TotalledTyped
<1>2. Sums(S, masses, g)
  BY <1>1, SumsCount
<1>3. \A s \in SUBSET S : s # {} =>
        masses[Choice(s)] = Declaration[CHOOSE x \in s : TRUE].gross * Declaration[CHOOSE x \in s : TRUE].packages
  BY <1>1 DEF masses, Choice
<1> HIDE DEF g, S
<1>4. g = [s \in SUBSET S |-> IF s = {} THEN 0
            ELSE Declaration[CHOOSE x \in s : TRUE].gross * Declaration[CHOOSE x \in s : TRUE].packages
                   + g[s \ {CHOOSE x \in s : TRUE}]]
  BY <1>2, <1>3 DEF Sums, Choice
<1>5. PICK h : /\ h = [s \in SUBSET S |-> IF s = {} THEN 0
                   ELSE Declaration[CHOOSE x \in s : TRUE].gross * Declaration[CHOOSE x \in s : TRUE].packages
                     + h[s \ {CHOOSE x \in s : TRUE}]]
               /\ lq_gross_total(load, has) = h[S]
  BY <1>4 DEF lq_gross_total, MapThenSumSet, MapThenFoldSet, S
<1>6. Sums(S, masses, h)
  BY <1>3, <1>5 DEF Sums, Choice
<1> QED
  BY <1>1, <1>5, <1>6, SumCounts DEF S

\* What is within the limits stays so: it has been looked at whole.
LEMMA MassGrows ==
  ASSUME NEW load, load \subseteq Goods, NEW has, NEW hold, has \subseteq hold
  PROVE  /\ lq_gross_total(load, has) \in Nat /\ lq_gross_total(load, hold) \in Nat
         /\ lq_gross_total(load, has) <= lq_gross_total(load, hold)
<1>1. ASSUME NEW p, NEW field, entered(p, field, has) # Unknown
      PROVE  entered(p, field, hold) = entered(p, field, has)
  BY <1>1 DEF entered
<1>2. totalled(load, has) \subseteq totalled(load, hold)
  <2> SUFFICES ASSUME NEW p \in totalled(load, has) PROVE p \in totalled(load, hold)
    OBVIOUS
  <2>1. /\ entered(p, "inner", has) # Unknown /\ entered(p, "gross", has) # Unknown
        /\ entered(p, "packages", has) # Unknown
    BY DEF totalled, assess_lq
  <2>2. /\ entered(p, "inner", hold) = entered(p, "inner", has)
        /\ entered(p, "gross", hold) = entered(p, "gross", has)
        /\ entered(p, "packages", hold) = entered(p, "packages", has)
    BY <1>1, <2>1
  <2>3. assess_lq(p, hold) = assess_lq(p, has)
    BY <2>2 DEF assess_lq
  <2> QED
    BY <2>1, <2>2, <2>3 DEF totalled
<1>3. marks(masses, totalled(load, has)) \in SUBSET marks(masses, totalled(load, hold))
  BY <1>2 DEF marks
<1>4. /\ IsFiniteSet(marks(masses, totalled(load, hold)))
      /\ Cardinality(marks(masses, totalled(load, hold))) \in Nat
      /\ Cardinality(marks(masses, totalled(load, has))) \in Nat
  BY TotalledTyped, MarksFinite
<1>5. Cardinality(marks(masses, totalled(load, has))) <= Cardinality(marks(masses, totalled(load, hold)))
  <2> HIDE DEF marks
  <2> QED
    BY <1>3, <1>4, FS_Subset
<1> QED
  BY <1>4, <1>5, MassCounted

\* A decision about the mark for limited quantities that does not rest on the
\* 8 tonnes is not taken back when quantities, inner packagings, gross masses
\* or numbers of packages that were open are filled in (_lq_marking).
THEOREM MarksStand == CarriageSpec => MarkStands
<1>1. aboard \subseteq Goods /\ [CarriageNext]_carriageVars =>
        [/\ aboard' = aboard /\ mass' = mass
         /\ mark_required(aboard, stated, mass) # "undecided"
         /\ mark_reason(aboard, stated, mass) # "within_8t_dispensation"
         => mark_required(aboard', stated', mass') = mark_required(aboard, stated, mass)]_carriageVars
  <2> SUFFICES ASSUME aboard \subseteq Goods, [CarriageNext]_carriageVars,
                      aboard' = aboard, mass' = mass,
                      mark_required(aboard, stated, mass) # "undecided",
                      mark_reason(aboard, stated, mass) # "within_8t_dispensation"
               PROVE  mark_required(aboard, stated', mass) = mark_required(aboard, stated, mass)
    OBVIOUS
  <2>1. stated \subseteq stated'
    <3>1. ASSUME NEW p, NEW field, FillIn(p, field) PROVE stated \subseteq stated'
      BY <3>1 DEF FillIn
    <3>2. ASSUME NEW p, Load(p) \/ Unload(p) PROVE FALSE
      BY <3>2 DEF Load, Unload
    <3>3. ASSUME NEW m, Assign(m) PROVE FALSE
      BY <3>3 DEF Assign
    <3> QED
      BY <3>1, <3>2, <3>3 DEF CarriageNext, carriageVars
  <2>2. exempt(aboard, stated) = "no" => exempt(aboard, stated') = "no"
    BY <2>1, NoStands
  <2>3. ASSUME exempt(aboard, stated) = "yes" PROVE exempt(aboard, stated') = "yes"
    <3>1. counting(aboard, stated) = counted(aboard)
      BY <2>3, Exempt
    <3>2. counting(aboard, stated') = counting(aboard, stated)
      <4>1. counting(aboard, stated) \subseteq counting(aboard, stated')
        BY <2>1, CountingGrows
      <4> QED
        BY <3>1, <4>1 DEF counting
    <3>3. total_points(aboard, stated') = total_points(aboard, stated)
      BY <3>2, PointsCounted DEF collected
    <3> QED
      BY <2>3, <3>1, <3>2, <3>3, Exempt
  <2>4. /\ exempt(aboard, stated) \in {"yes", "no", "undecided"}
        /\ plates(aboard, stated) = "undecided" => exempt(aboard, stated) \notin {"yes", "no"}
    BY DEF exempt, plates
  <2>5. plates(aboard, stated) # "undecided" => plates(aboard, stated') = plates(aboard, stated)
    BY <2>2, <2>3, <2>4 DEF plates
  <2>6. ~(lq_gross_total(aboard, stated) <= Dispensation)
        => ~(lq_gross_total(aboard, stated') <= Dispensation)
    BY <2>1, MassGrows DEF Dispensation
  <2>7. \/ mass # Unknown /\ mass <= MassTrigger
        \/ /\ mass # Unknown /\ ~(mass <= MassTrigger)
           /\ ~(lq_gross_total(aboard, stated) <= Dispensation)
           /\ plates(aboard, stated) # "undecided"
    BY DEF mark_required, mark_reason
  <2>8. mark_reason(aboard, stated', mass) = mark_reason(aboard, stated, mass)
    BY <2>5, <2>6, <2>7 DEF mark_reason
  <2> QED
    BY <2>8 DEF mark_required
<1> QED
  BY <1>1, AboardAreGoods, PTL DEF CarriageSpec, MarkStands

-----------------------------------------------------------------------------
(* Stowage: what is said of two lines by themselves and in a consignment *)

\* A set of natural numbers that is not empty has a least one.
LEMMA Least ==
  ASSUME NEW S \in SUBSET Nat, S # {}
  PROVE  \E n \in S : \A m \in S : n <= m
  <1> DEFINE R == {ss \in Nat \X Nat : ss[1] < ss[2]}
  <1>1. IsWellFoundedOn(R, Nat)
    BY NatLessThanWellFounded DEF OpToRel
  <1>2. \A m, n \in Nat : <<m, n>> \in R <=> m < n
    OBVIOUS
  <1> HIDE DEF R
  <1>3. \E n \in S : \A m \in S : ~(<<m, n>> \in R)
    BY <1>1, WFMin
  <1>4. PICK n \in S : \A m \in S : ~(<<m, n>> \in R)
    BY <1>3
  <1>5. \A m \in S : n <= m
    <2> SUFFICES ASSUME NEW m \in S PROVE n <= m
      OBVIOUS
    <2>1. m \in Nat /\ n \in Nat
      OBVIOUS
    <2>2. ~(m < n)
      BY <1>2, <1>4, <2>1
    <2>3. QED
      BY <2>1, <2>2
  <1>6. QED
    BY <1>5

\* A consignment as its lines, and two of them.
ALoad(load) == load \in Seq(Cargo)

\* Of pairs that are found there is a first.
LEMMA FirstFound ==
  ASSUME NEW load, ALoad(load), NEW found \in SUBSET Pairs(load), NEW x \in found
  PROVE  \E y \in seen_first(load, found) : names(load, y) = names(load, x)
  <1> DEFINE alike == {y \in found : names(load, y) = names(load, x)}
             firsts == {y[1] : y \in alike}
  <1>1. \A y \in found : y = <<y[1], y[2]>> /\ y[1] \in Nat /\ y[2] \in Nat
    BY DEF ALoad, Pairs
  <1>2. firsts # {} /\ firsts \in SUBSET Nat
    BY <1>1
  <1>3. PICK a \in firsts : \A b \in firsts : a <= b
    BY <1>2, Least
  <1> DEFINE seconds == {y[2] : y \in {z \in alike : z[1] = a}}
  <1>4. seconds # {} /\ seconds \in SUBSET Nat
    BY <1>1
  <1>5. PICK c \in seconds : \A b \in seconds : c <= b
    BY <1>4, Least
  <1>6. PICK y \in alike : y[1] = a /\ y[2] = c
    OBVIOUS
  <1>7. \A z \in alike : ~earlier(z, y)
    <2> SUFFICES ASSUME NEW z \in alike, earlier(z, y) PROVE FALSE
      OBVIOUS
    <2>1. a <= z[1]
      BY <1>3
    <2>2. z[1] = a => c <= z[2]
      BY <1>5
    <2>3. QED
      BY <1>1, <1>6, <2>1, <2>2 DEF earlier
  <1>8. y \in seen_first(load, found)
    BY <1>7 DEF seen_first
  <1>9. QED
    BY <1>8

\* Two lines of a consignment, alone.
duo(load, x) == <<load[x[1]], load[x[2]]>>

LEMMA DuoPairs ==
  ASSUME NEW load, ALoad(load), NEW x \in Pairs(load)
  PROVE  /\ ALoad(duo(load, x)) /\ DOMAIN duo(load, x) = {1, 2}
         /\ duo(load, x)[1] = load[x[1]] /\ duo(load, x)[2] = load[x[2]]
         /\ Pairs(duo(load, x)) = {<<1, 2>>}
         /\ Directed(duo(load, x)) = {<<1, 2>>, <<2, 1>>}
         /\ names(duo(load, x), <<1, 2>>) = names(load, x)
         /\ names(duo(load, x), <<2, 1>>) = names(load, x)
         /\ x = <<x[1], x[2]>> /\ x[1] \in DOMAIN load /\ x[2] \in DOMAIN load
         /\ x \in Directed(load) /\ <<x[2], x[1]>> \in Directed(load)
         /\ names(load, <<x[2], x[1]>>) = names(load, x)
  <1> DEFINE d == duo(load, x)
  <1>1. x = <<x[1], x[2]>> /\ x[1] \in DOMAIN load /\ x[2] \in DOMAIN load
        /\ x[1] \in Nat /\ x[2] \in Nat /\ x[1] < x[2]
    BY DEF Pairs, ALoad
  <1>2. load[x[1]] \in Cargo /\ load[x[2]] \in Cargo
    BY <1>1 DEF ALoad
  <1>3. ALoad(d) /\ DOMAIN d = {1, 2} /\ d[1] = load[x[1]] /\ d[2] = load[x[2]]
    BY <1>2 DEF ALoad, duo
  <1> HIDE DEF d
  <1>4. Pairs(d) = {<<1, 2>>} /\ Directed(d) = {<<1, 2>>, <<2, 1>>}
    BY <1>3 DEF Pairs, Directed
  <1>5. names(d, <<1, 2>>) = names(load, x) /\ names(d, <<2, 1>>) = names(load, x)
        /\ names(load, <<x[2], x[1]>>) = names(load, x)
    BY <1>3 DEF names
  <1>6. x \in Directed(load) /\ <<x[2], x[1]>> \in Directed(load)
    BY <1>1 DEF Directed
  <1>7. QED
    BY <1>1, <1>3, <1>4, <1>5, <1>6 DEF d

\* Whatever has the shape of a finding.
AFinding(f) == f = Finding(f.source, f.names, f.provision, f.code, f.severity)

LEMMA FindingParts ==
  ASSUME NEW s, NEW n, NEW p, NEW c, NEW v
  PROVE  LET f == Finding(s, n, p, c, v)
         IN  /\ AFinding(f) /\ f.source = s /\ f.names = n /\ f.provision = p
             /\ f.code = c /\ f.severity = v
  BY DEF AFinding, Finding

\* What the checks find before column 16b is weighed against the class table.
checked(load) ==
  UNION {check_imdg_segregation(load), check_imdg_class1_compatibility(load),
         check_imdg_segregation_groups(load), check_imdg_segregation_provisions(load),
         cargo_requirements(load), check_imdg_segregation_exemptions(load)}

\* A finding is one of the sea, and a warning unless it is about an exemption.
Raised(f) ==
  /\ AFinding(f)
  /\ f.source \in {"table", "class1", "groups", "named", "column_16b", "cargo", "exemption"}
  /\ f.severity \in {"error", "warning", "info"}
  /\ f.source # "exemption" => f.severity # "info"
  /\ f.source = "exemption" => f.severity = "info"

LEMMA CheckedRaised ==
  ASSUME NEW load, NEW f \in checked(load)
  PROVE  Raised(f)
  <1>1. CASE f \in check_imdg_segregation(load)
    <2>1. PICK x : f = table_finding(load, x)
      BY <1>1 DEF check_imdg_segregation
    <2>2. QED
      BY <2>1, FindingParts DEF table_finding, Raised
  <1>2. CASE f \in check_imdg_class1_compatibility(load)
    <2>1. PICK x : f = Finding("class1", names(load, x), Nothing, Nothing,
                               IF permitted(load[x[1]], load[x[2]]) THEN "warning" ELSE "error")
      BY <1>2 DEF check_imdg_class1_compatibility
    <2>2. QED
      BY <2>1, FindingParts DEF Raised
  <1>3. CASE f \in check_imdg_segregation_groups(load)
    <2>1. PICK z : f = Finding("groups", names(load, z[1]), z[2], Nothing, "warning")
      BY <1>3 DEF check_imdg_segregation_groups
    <2>2. QED
      BY <2>1, FindingParts DEF Raised
  <1>4. CASE f \in check_imdg_segregation_provisions(load)
    <2>1. PICK y : f = Finding(IF Provision[y[2]].named THEN "named" ELSE "column_16b",
                               names(load, y[1]), <<name(load[y[1][1]]), y[2]>>,
                               Provision[y[2]].action, "warning")
      BY <1>4 DEF check_imdg_segregation_provisions
    <2>2. QED
      BY <2>1, FindingParts DEF Raised
  <1>5. CASE f \in cargo_requirements(load)
    <2>1. PICK y : f = Finding("cargo", {name(load[y[1]])}, <<name(load[y[1]]), y[2]>>, Nothing,
                               "warning")
      BY <1>5 DEF cargo_requirements
    <2>2. QED
      BY <2>1, FindingParts DEF Raised
  <1>6. CASE f \in check_imdg_segregation_exemptions(load)
    <2>1. PICK y : f = Finding("exemption", names(load, y[1]), <<y[2]>>, Nothing, "info")
      BY <1>6 DEF check_imdg_segregation_exemptions
    <2>2. QED
      BY <2>1, FindingParts DEF Raised
  <1>7. QED
    BY <1>1, <1>2, <1>3, <1>4, <1>5, <1>6 DEF checked

\* What a check says of two lines alone it says in the consignment, of the same
\* names; the pair that it says it of may be another.
LEMMA CheckedTells ==
  ASSUME NEW load, ALoad(load), NEW x \in Pairs(load), NEW f \in checked(duo(load, x)),
         f.source # "cargo"
  PROVE  \E g \in checked(load) : g.source = f.source /\ g.names = names(load, x)
  <1> DEFINE d == duo(load, x)
  <1>d. /\ DOMAIN d = {1, 2} /\ d[1] = load[x[1]] /\ d[2] = load[x[2]]
        /\ Pairs(d) = {<<1, 2>>} /\ Directed(d) = {<<1, 2>>, <<2, 1>>}
        /\ names(d, <<1, 2>>) = names(load, x) /\ names(d, <<2, 1>>) = names(load, x)
    BY DuoPairs
  <1>x. /\ x = <<x[1], x[2]>> /\ x \in Directed(load) /\ <<x[2], x[1]>> \in Directed(load)
        /\ names(load, <<x[2], x[1]>>) = names(load, x)
    BY DuoPairs
  <1> HIDE DEF d
  <1>1. CASE f \in check_imdg_segregation(d)
    <2> DEFINE found == {y \in Pairs(load) : worst(load[y[1]], load[y[2]]) # 0}
    <2>1. \E y \in Pairs(d) : f = table_finding(d, y) /\ worst(d[y[1]], d[y[2]]) # 0
      BY <1>1 DEF check_imdg_segregation, seen_first
    <2>2. f = table_finding(d, <<1, 2>>) /\ worst(d[1], d[2]) # 0
      BY <2>1, <1>d
    <2>3. x \in found
      BY <2>2, <1>d
    <2>4. PICK y \in seen_first(load, found) : names(load, y) = names(load, x)
      BY <2>3, FirstFound
    <2>5. table_finding(load, y) \in check_imdg_segregation(load)
      BY <2>4 DEF check_imdg_segregation
    <2>6. QED
      BY <2>2, <2>4, <2>5, FindingParts DEF table_finding, checked
  <1>2. CASE f \in check_imdg_class1_compatibility(d)
    <2> DEFINE grouped(l) == {y \in Pairs(l) : group_of(l[y[1]]) # Nothing /\ group_of(l[y[2]]) # Nothing}
               found(l) == {y \in grouped(l) : ~permitted(l[y[1]], l[y[2]]) \/ noted(l[y[1]], l[y[2]])}
               says(l, y) == Finding("class1", names(l, y), Nothing, Nothing,
                                     IF permitted(l[y[1]], l[y[2]]) THEN "warning" ELSE "error")
    <2>1. \E y \in found(d) : f = says(d, y)
      BY <1>2 DEF check_imdg_class1_compatibility, seen_first
    <2>2. f.source = "class1" /\ x \in found(load)
      BY <2>1, <1>d, FindingParts
    <2>3. PICK y \in seen_first(load, found(load)) : names(load, y) = names(load, x)
      BY <2>2, FirstFound
    <2>4. says(load, y) \in check_imdg_class1_compatibility(load)
      BY <2>3 DEF check_imdg_class1_compatibility
    <2>5. QED
      BY <2>2, <2>3, <2>4, FindingParts DEF checked
  <1>3. CASE f \in check_imdg_segregation_groups(d)
    <2>1. PICK c \in Conflicts :
            /\ f = Finding("groups", names(d, <<1, 2>>), c, Nothing, "warning")
            /\ across(Declared[d[1]].groups, Declared[d[2]].groups, c)
      BY <1>3, <1>d DEF check_imdg_segregation_groups
    <2>2. Finding("groups", names(load, x), c, Nothing, "warning")
            \in check_imdg_segregation_groups(load)
      <3>1. /\ <<x, c>> \in Pairs(load) \X Conflicts
            /\ across(Declared[load[x[1]]].groups, Declared[load[x[2]]].groups, c)
        BY <2>1, <1>d
      <3>2. /\ <<x, c>>[1] = x /\ <<x, c>>[2] = c
        OBVIOUS
      <3>3. QED
        BY <3>1, <3>2, Zenon DEF check_imdg_segregation_groups
    <2>3. QED
      BY <2>1, <2>2, FindingParts DEF checked
  <1>4. CASE f \in check_imdg_segregation_provisions(d)
    <2> DEFINE says(l, y, c) ==
                 Finding(IF Provision[c].named THEN "named" ELSE "column_16b", names(l, y),
                         <<name(l[y[1]]), c>>, Provision[c].action, "warning")
    <2>1. PICK y \in Directed(d), c \in DOMAIN Provision :
            f = says(d, y, c) /\ c \in Declared[d[y[1]]].codes /\ target_of(c, d[y[2]])
      BY <1>4 DEF check_imdg_segregation_provisions
    <2>2. \E z \in Directed(load) : /\ names(load, z) = names(load, x)
                                    /\ load[z[1]] = d[y[1]] /\ load[z[2]] = d[y[2]]
      <3>1. y = <<1, 2>> \/ y = <<2, 1>>
        BY <1>d
      <3>2. CASE y = <<1, 2>>
        BY <3>2, <1>d, <1>x
      <3>3. CASE y = <<2, 1>>
        BY <3>3, <1>d, <1>x
      <3>4. QED
        BY <3>1, <3>2, <3>3
    <2>3. PICK z \in Directed(load) : /\ names(load, z) = names(load, x)
                                      /\ load[z[1]] = d[y[1]] /\ load[z[2]] = d[y[2]]
      BY <2>2
    <2>4. says(load, z, c) \in check_imdg_segregation_provisions(load)
      <3>1. /\ <<z, c>> \in Directed(load) \X (DOMAIN Provision)
            /\ c \in Declared[load[z[1]]].codes /\ target_of(c, load[z[2]])
        BY <2>1, <2>3
      <3>2. /\ <<z, c>>[1] = z /\ <<z, c>>[2] = c
        OBVIOUS
      <3>3. QED
        BY <3>1, <3>2, Zenon DEF check_imdg_segregation_provisions
    <2>5. QED
      BY <2>1, <2>3, <2>4, FindingParts DEF checked
  <1>5. CASE f \in cargo_requirements(d)
    <2>1. PICK y : f = Finding("cargo", {name(d[y[1]])}, <<name(d[y[1]]), y[2]>>, Nothing,
                               "warning")
      BY <1>5 DEF cargo_requirements
    <2>2. QED
      BY <2>1, FindingParts
  <1>6. CASE f \in check_imdg_segregation_exemptions(d)
    <2>1. PICK t \in DOMAIN Exempting :
            /\ f = Finding("exemption", names(d, <<1, 2>>), <<t>>, Nothing, "info")
            /\ {un_number(d[1]), un_number(d[2])} \subseteq Exempting[t]
      <3>1. PICK z \in Pairs(d) \X (DOMAIN Exempting) :
              /\ f = Finding("exemption", names(d, z[1]), <<z[2]>>, Nothing, "info")
              /\ {un_number(d[z[1][1]]), un_number(d[z[1][2]])} \subseteq Exempting[z[2]]
        BY <1>6, Zenon DEF check_imdg_segregation_exemptions
      <3>2. z[1] = <<1, 2>> /\ z[2] \in DOMAIN Exempting
        BY <1>d
      <3>3. z[1][1] = 1 /\ z[1][2] = 2
        BY <3>2
      <3>4. QED
        BY <3>1, <3>2, <3>3, Zenon
    <2>2. Finding("exemption", names(load, x), <<t>>, Nothing, "info")
            \in check_imdg_segregation_exemptions(load)
      <3>1. /\ <<x, t>> \in Pairs(load) \X (DOMAIN Exempting)
            /\ {un_number(load[x[1]]), un_number(load[x[2]])} \subseteq Exempting[t]
        BY <2>1, <1>d
      <3>2. /\ <<x, t>>[1] = x /\ <<x, t>>[2] = t
        OBVIOUS
      <3>3. QED
        BY <3>1, <3>2, Zenon DEF check_imdg_segregation_exemptions
    <2>3. QED
      BY <2>1, <2>2, FindingParts DEF checked
  <1>7. QED
    BY <1>1, <1>2, <1>3, <1>4, <1>5, <1>6 DEF checked, d

\* What column 16b makes of a finding (apply_column_16b_precedence).
weighed(found, f) ==
  LET column(g) == of_source(found, "column_16b", g.names)
      table(g) == of_source(found, "table", g.names)
      superseded(g) == g.source = "table" /\ column(g) # {} /\ g.code # strictest(column(g))
      governing(g) == g.source = "column_16b" /\ table(g) # {} /\ g.code = strictest(column(g))
  IN  CASE superseded(f) -> [f EXCEPT !.severity = "info"]
        [] governing(f) /\ f.code >= 3 -> [f EXCEPT !.severity = "error"]
        [] OTHER -> f

LEMMA Precedence ==
  ASSUME NEW found
  PROVE  apply_column_16b_precedence(found) = {weighed(found, f) : f \in found}
  BY Zenon DEF apply_column_16b_precedence, weighed

LEMMA Severity ==
  ASSUME NEW f, AFinding(f), NEW v
  PROVE  LET g == [f EXCEPT !.severity = v]
         IN  AFinding(g) /\ g.source = f.source /\ g.names = f.names /\ g.severity = v
  BY DEF AFinding, Finding

\* Only what the class table says is taken back, and only where column 16b
\* speaks of the same goods.
LEMMA Weighing ==
  ASSUME NEW found, NEW f, Raised(f)
  PROVE  /\ weighed(found, f).source = f.source /\ weighed(found, f).names = f.names
         /\ f.source = "exemption" => weighed(found, f).severity = "info"
         /\ \/ f.source = "exemption" \/ weighed(found, f).severity # "info"
            \/ f.source = "table" /\ of_source(found, "column_16b", f.names) # {}
  <1> DEFINE column == of_source(found, "column_16b", f.names)
             table == of_source(found, "table", f.names)
             superseded == f.source = "table" /\ column # {} /\ f.code # strictest(column)
             governing == f.source = "column_16b" /\ table # {} /\ f.code = strictest(column)
  <1>1. weighed(found, f) = CASE superseded -> [f EXCEPT !.severity = "info"]
                              [] governing /\ f.code >= 3 -> [f EXCEPT !.severity = "error"]
                              [] OTHER -> f
    BY Zenon DEF weighed
  <1>2. ~(superseded /\ governing)
    OBVIOUS
  <1>3. superseded => f.source = "table" /\ column # {}
    OBVIOUS
  <1>4. governing => f.source = "column_16b"
    OBVIOUS
  <1> HIDE DEF superseded, governing, column
  <1>5. CASE superseded
    <2>1. weighed(found, f) = [f EXCEPT !.severity = "info"]
      BY <1>1, <1>2, <1>5
    <2>2. QED
      BY <1>3, <1>5, <2>1, Severity DEF Raised, column
  <1>6. CASE ~superseded /\ governing /\ f.code >= 3
    <2>1. weighed(found, f) = [f EXCEPT !.severity = "error"]
      BY <1>1, <1>6
    <2>2. QED
      BY <1>4, <1>6, <2>1, Severity DEF Raised
  <1>7. CASE ~superseded /\ ~(governing /\ f.code >= 3)
    <2>1. weighed(found, f) = f
      BY <1>1, <1>7
    <2>2. QED
      BY <2>1 DEF Raised
  <1>8. QED
    BY <1>5, <1>6, <1>7

\* What the checks of the sea say in the end, exceptions for class 8 aside.
sea(load) == apply_column_16b_precedence(checked(load))

LEMMA AllFindings ==
  ASSUME NEW load
  PROVE  findings(load) = append_class8_pair_exception(load, sea(load))
                          \cup check_air_forbidden(load) \cup check_iata_segregation(load)
  BY Zenon DEF findings, sea, checked

LEMMA Excepted ==
  ASSUME NEW load, NEW found
  PROVE  /\ found \subseteq append_class8_pair_exception(load, found)
         /\ \A f \in append_class8_pair_exception(load, found) :
              f \in found \/ (f.severity = "info" /\ f.source = "exception")
  <1> SUFFICES ASSUME NEW f \in append_class8_pair_exception(load, found), f \notin found
               PROVE  f.severity = "info" /\ f.source = "exception"
    BY DEF append_class8_pair_exception
  <1>1. PICK g : f = Finding("exception", g.names, Nothing, Nothing, "info")
    BY DEF append_class8_pair_exception
  <1>2. QED
    BY <1>1, FindingParts

\* In the air every pair is looked at, in both loads.
LEMMA AirTells ==
  ASSUME NEW load, ALoad(load), NEW x \in Pairs(load),
         NEW f \in check_iata_segregation(duo(load, x))
  PROVE  f \in check_iata_segregation(load) /\ f.names = names(load, x)
  <1> DEFINE d == duo(load, x)
             clash(l, y) == \E key \in AirPairs :
                 across({k \in {key[1], key[2]} : matches_iata_key(k, l[y[1]])},
                        {k \in {key[1], key[2]} : matches_iata_key(k, l[y[2]])}, key)
             says(source, l, y) == Finding(source, names(l, y), Nothing, Nothing, "error")
  <1>d. /\ d[1] = load[x[1]] /\ d[2] = load[x[2]] /\ Pairs(d) = {<<1, 2>>}
        /\ names(d, <<1, 2>>) = names(load, x)
    BY DuoPairs
  <1>a. \A l : check_iata_segregation(l) =
                 {says("air", l, y) : y \in {z \in Pairs(l) : clash(l, z)}} \cup
                 {says("lithium", l, y) : y \in {z \in Pairs(l) : lithium_clash(l[z[1]], l[z[2]])}}
    BY Zenon DEF check_iata_segregation
  <1>c. <<1, 2>>[1] = 1 /\ <<1, 2>>[2] = 2
    OBVIOUS
  <1>1. clash(d, <<1, 2>>) = clash(load, x)
    BY <1>d, <1>c, Zenon
  <1>2. says("air", d, <<1, 2>>) = says("air", load, x)
        /\ says("lithium", d, <<1, 2>>) = says("lithium", load, x)
    BY <1>d
  <1> HIDE DEF d, clash
  <1>3. \/ f = says("air", d, <<1, 2>>) /\ clash(d, <<1, 2>>)
        \/ f = says("lithium", d, <<1, 2>>) /\ lithium_clash(d[1], d[2])
    <2> HIDE DEF says
    <2>1. \E y \in Pairs(d) :
            \/ f = says("air", d, y) /\ clash(d, y)
            \/ f = says("lithium", d, y) /\ lithium_clash(d[y[1]], d[y[2]])
      <3>1. check_iata_segregation(d) =
              {says("air", d, y) : y \in {z \in Pairs(d) : clash(d, z)}} \cup
              {says("lithium", d, y) : y \in {z \in Pairs(d) : lithium_clash(d[z[1]], d[z[2]])}}
        BY <1>a DEF says
      <3>2. f \in check_iata_segregation(d)
        BY DEF d
      <3>3. QED
        BY <3>1, <3>2
    <2>2. QED
      BY <2>1, <1>d, <1>c
  <1>4. f \in check_iata_segregation(load)
    BY <1>1, <1>2, <1>3, <1>a, <1>d
  <1>5. QED
    BY <1>2, <1>3, <1>4, FindingParts

\* The pair of lines x is told all that is found of it alone.
LEMMA PairTold ==
  ASSUME NEW load, ALoad(load), NEW x \in Pairs(load),
         NEW f \in ThatNames(findings(duo(load, x)), names(load, x)), f.severity # "info"
  PROVE  /\ \E g \in ThatNames(findings(load), names(load, x)) : g.source = f.source
         /\ \E g \in ThatNames(findings(load), names(load, x)) : g.severity # "info"
  <1> DEFINE d == duo(load, x)
  <1>1. f \in sea(d) \/ f \in check_iata_segregation(d)
    <2>1. f \notin check_air_forbidden(d)
      <3> SUFFICES ASSUME f \in check_air_forbidden(d) PROVE FALSE
        OBVIOUS
      <3>1. PICK i : f = Finding("air_forbidden", {name(d[i])}, Nothing, Nothing, "error")
        BY DEF check_air_forbidden
      <3>2. QED
        BY <3>1, FindingParts DEF ThatNames
    <2>2. QED
      BY <2>1, AllFindings, Excepted DEF ThatNames
  <1>2. CASE f \in check_iata_segregation(d)
    <2>1. f \in findings(load) /\ f.names = names(load, x)
      BY <1>2, AirTells, AllFindings
    <2>2. f \in ThatNames(findings(load), names(load, x))
      BY <2>1 DEF ThatNames
    <2>3. QED
      BY <2>2
  <1>3. CASE f \in sea(d)
    <2>1. PICK h \in checked(d) : f = weighed(checked(d), h)
      BY <1>3, Precedence DEF sea
    <2>2. Raised(h)
      BY CheckedRaised
    <2>3. f.source = h.source /\ f.names = h.names /\ h.source # "exemption" /\ h.source # "cargo"
      BY <2>1, <2>2, Weighing DEF ThatNames
    <2>4. PICK g \in checked(load) : g.source = h.source /\ g.names = names(load, x)
      BY <2>3, CheckedTells
    <2> DEFINE w(k) == weighed(checked(load), k)
    <2>5. ASSUME NEW k \in checked(load), k.names = names(load, x), k.source # "cargo"
          PROVE  /\ Raised(k)
                 /\ w(k) \in ThatNames(findings(load), names(load, x))
                 /\ w(k).source = k.source
      <3>1. Raised(k)
        BY CheckedRaised
      <3>2. w(k).source = k.source /\ w(k).names = k.names
        BY <3>1, Weighing
      <3>3. w(k) \in sea(load)
        BY Precedence DEF sea
      <3>4. w(k) \in findings(load)
        BY <3>3, AllFindings, Excepted
      <3>5. k.source # "air_forbidden"
        BY <3>1 DEF Raised
      <3>6. QED
        BY <2>5, <3>1, <3>2, <3>4, <3>5 DEF ThatNames
    <2>6. w(g) \in ThatNames(findings(load), names(load, x)) /\ w(g).source = f.source /\ Raised(g)
      BY <2>3, <2>4, <2>5
    <2>7. \E k \in ThatNames(findings(load), names(load, x)) : k.severity # "info"
      <3>1. CASE w(g).severity # "info"
        BY <3>1, <2>6
      <3>2. CASE of_source(checked(load), "column_16b", g.names) # {}
        <4>1. PICK k \in checked(load) : k.source = "column_16b" /\ k.names = names(load, x)
          BY <3>2, <2>4 DEF of_source
        <4>2. Raised(k) /\ w(k) \in ThatNames(findings(load), names(load, x))
          BY <4>1, <2>5
        <4>3. w(k).severity # "info"
          BY <4>1, <4>2, Weighing
        <4>4. QED
          BY <4>2, <4>3
      <3>3. QED
        BY <3>1, <3>2, <2>3, <2>4, <2>6, Weighing
    <2>8. QED
      BY <2>6, <2>7
  <1>4. QED
    BY <1>1, <1>2, <1>3

LEMMA StowageTyped == StowageSpec => []ALoad(lines)
  <1>1. StowageInit => ALoad(lines)
    BY DEF StowageInit, ALoad
  <1>2. ALoad(lines) /\ [StowageNext]_lines => ALoad(lines)'
    <2> SUFFICES ASSUME ALoad(lines), [StowageNext]_lines PROVE ALoad(lines)'
      OBVIOUS
    <2>1. CASE UNCHANGED lines
      BY <2>1 DEF ALoad
    <2>2. ASSUME NEW p \in Cargo, AddLine(p) PROVE ALoad(lines)'
      BY <2>2 DEF AddLine, ALoad
    <2>3. ASSUME NEW i \in DOMAIN lines, RemoveLine(i) PROVE ALoad(lines)'
      <3>1. i \in 1..Len(lines) /\ Len(lines) \in Nat
        BY DEF ALoad
      <3>2. SubSeq(lines, 1, i - 1) \in Seq(Cargo) /\ SubSeq(lines, i + 1, Len(lines)) \in Seq(Cargo)
        BY <3>1, SubSeqProperties DEF ALoad
      <3>3. QED
        BY <2>3, <3>2 DEF RemoveLine, RemoveAt, ALoad
    <2>4. QED
      BY <2>1, <2>2, <2>3 DEF StowageNext
  <1>3. QED
    BY <1>1, <1>2, PTL DEF StowageSpec

\* Every check that warns of two lines alone warns of their names in whatever
\* consignment they are put, and a warning is left standing (check_compliance
\* for IMDG and IATA): what a shared name or column 16b takes back is replaced.
THEOREM NoPairUntold == StowageSpec => []EveryPairTold
  <1>1. ALoad(lines) => EveryPairTold
    <2> SUFFICES ASSUME ALoad(lines), NEW x \in Pairs(lines)
                 PROVE  LET warned == {f \in ThatNames(Alone(x), names(lines, x)) :
                                         f.severity # "info"}
                            said == ThatNames(findings(lines), names(lines, x))
                        IN  /\ {f.source : f \in warned} \subseteq {f.source : f \in said}
                            /\ warned # {} => \E f \in said : f.severity # "info"
      BY Zenon DEF EveryPairTold
    <2>1. Alone(x) = findings(duo(lines, x))
      BY Zenon DEF Alone, duo
    <2>2. QED
      BY <2>1, PairTold
  <1>2. QED
    BY <1>1, StowageTyped, PTL

\* The lines of the pair x are the only ones with their names.
Only(load, x) ==
  /\ x \in Pairs(load)
  /\ \A k \in {x[1], x[2]}, i \in DOMAIN load : name(load[i]) = name(load[k]) => i = k

\* What is said of goods with these names.
about(found, N) == {f \in found : f.names = N}
both(p, q) == {name(p), name(q)}

LEMMA OnlyPairs ==
  ASSUME NEW load, ALoad(load), NEW x, Only(load, x)
  PROVE  /\ \A y \in Pairs(load) : names(load, y) = names(load, x) => y = x
         /\ \A y \in Directed(load) : names(load, y) = names(load, x) => y = x \/ y = <<x[2], x[1]>>
         /\ \A i \in DOMAIN load : {name(load[i])} # names(load, x)
         /\ names(load, x) = both(load[x[1]], load[x[2]])
         /\ x[1] \in Nat /\ x[2] \in Nat /\ x[1] < x[2]
         /\ name(load[x[1]]) # name(load[x[2]])
  <1>1. /\ x = <<x[1], x[2]>> /\ x[1] \in DOMAIN load /\ x[2] \in DOMAIN load
        /\ x[1] \in Nat /\ x[2] \in Nat /\ x[1] < x[2]
    BY DEF Only, Pairs, ALoad
  <1>2. \A i \in DOMAIN load : /\ name(load[i]) = name(load[x[1]]) => i = x[1]
                               /\ name(load[i]) = name(load[x[2]]) => i = x[2]
    BY DEF Only
  <1>3. name(load[x[1]]) # name(load[x[2]])
    BY <1>1, <1>2
  <1>4. ASSUME NEW y \in Directed(load), names(load, y) = names(load, x)
        PROVE  y = x \/ y = <<x[2], x[1]>>
    <2>1. /\ y = <<y[1], y[2]>> /\ y[1] \in DOMAIN load /\ y[2] \in DOMAIN load /\ y[1] # y[2]
      BY DEF Directed
    <2>2. /\ name(load[y[1]]) \in {name(load[x[1]]), name(load[x[2]])}
          /\ name(load[y[2]]) \in {name(load[x[1]]), name(load[x[2]])}
      BY <1>4 DEF names
    <2>3. /\ y[1] = x[1] \/ y[1] = x[2]
          /\ y[2] = x[1] \/ y[2] = x[2]
      BY <1>2, <2>1, <2>2
    <2>4. QED
      BY <1>1, <2>1, <2>3
  <1>5. ASSUME NEW y \in Pairs(load), names(load, y) = names(load, x)
        PROVE  y = x
    <2>1. y \in Directed(load) /\ y[1] < y[2] /\ y[1] \in Nat /\ y[2] \in Nat
      BY DEF Pairs, Directed, ALoad
    <2>2. y = x \/ y = <<x[2], x[1]>>
      BY <1>4, <1>5, <2>1
    <2>3. QED
      BY <1>1, <2>1, <2>2
  <1>6. ASSUME NEW i \in DOMAIN load PROVE {name(load[i])} # names(load, x)
    BY <1>3 DEF names
  <1>7. QED
    BY <1>1, <1>3, <1>4, <1>5, <1>6 DEF names, both

\* The first of the pairs with these names is the only one.
LEMMA OnlyFirst ==
  ASSUME NEW load, ALoad(load), NEW x, Only(load, x), NEW found \in SUBSET Pairs(load), NEW y
  PROVE  y \in seen_first(load, found) /\ names(load, y) = names(load, x)
         <=> y = x /\ x \in found
  <1>1. \A z \in found : names(load, z) = names(load, x) => z = x
    BY OnlyPairs
  <1>2. ~earlier(x, x)
    BY OnlyPairs DEF earlier
  <1>3. QED
    BY <1>1, <1>2 DEF seen_first

\* What each check says of two goods when their names are theirs alone.
table_of(p, q) ==
  {f \in {Finding("table", both(p, q), Nothing, worst(p, q),
                  IF worst(p, q) \in {3, 4} THEN "error" ELSE "warning")} : worst(p, q) # 0}

class1_of(p, q) ==
  {f \in {Finding("class1", both(p, q), Nothing, Nothing,
                  IF permitted(p, q) THEN "warning" ELSE "error")} :
     /\ group_of(p) # Nothing /\ group_of(q) # Nothing
     /\ ~permitted(p, q) \/ noted(p, q)}

groups_of(p, q) ==
  {Finding("groups", both(p, q), c, Nothing, "warning") : c \in
     {k \in Conflicts : across(Declared[p].groups, Declared[q].groups, k)}}

provisions_of(p, q) ==
  {Finding(IF Provision[c].named THEN "named" ELSE "column_16b", both(p, q), <<name(p), c>>,
           Provision[c].action, "warning") : c \in
     {k \in DOMAIN Provision : k \in Declared[p].codes /\ target_of(k, q)}}

exemptions_of(p, q) ==
  {Finding("exemption", both(p, q), <<t>>, Nothing, "info") : t \in
     {k \in DOMAIN Exempting : {un_number(p), un_number(q)} \subseteq Exempting[k]}}

LEMMA OnlyTable ==
  ASSUME NEW load, ALoad(load), NEW x, Only(load, x)
  PROVE  about(check_imdg_segregation(load), names(load, x)) = table_of(load[x[1]], load[x[2]])
  <1> DEFINE found == {y \in Pairs(load) : worst(load[y[1]], load[y[2]]) # 0}
  <1>1. \A y : y \in seen_first(load, found) /\ names(load, y) = names(load, x)
               <=> y = x /\ x \in found
    BY OnlyFirst
  <1>2. x \in found <=> worst(load[x[1]], load[x[2]]) # 0
    BY DEF Only
  <1>3. check_imdg_segregation(load) = {table_finding(load, y) : y \in seen_first(load, found)}
    BY DEF check_imdg_segregation
  <1>4. \A y : table_finding(load, y).names = names(load, y)
    BY FindingParts DEF table_finding
  <1> HIDE DEF found
  <1>5. about(check_imdg_segregation(load), names(load, x)) =
          {f \in {table_finding(load, x)} : x \in found}
    BY <1>1, <1>3, <1>4 DEF about
  <1>6. table_finding(load, x) =
          Finding("table", both(load[x[1]], load[x[2]]), Nothing, worst(load[x[1]], load[x[2]]),
                  IF worst(load[x[1]], load[x[2]]) \in {3, 4} THEN "error" ELSE "warning")
    BY OnlyPairs DEF table_finding
  <1>7. QED
    BY <1>2, <1>5, <1>6 DEF table_of

LEMMA OnlyClass1 ==
  ASSUME NEW load, ALoad(load), NEW x, Only(load, x)
  PROVE  about(check_imdg_class1_compatibility(load), names(load, x))
           = class1_of(load[x[1]], load[x[2]])
  <1> DEFINE grouped == {y \in Pairs(load) : group_of(load[y[1]]) # Nothing
                                             /\ group_of(load[y[2]]) # Nothing}
             found == {y \in grouped : ~permitted(load[y[1]], load[y[2]])
                                       \/ noted(load[y[1]], load[y[2]])}
             says(y) == Finding("class1", names(load, y), Nothing, Nothing,
                                IF permitted(load[y[1]], load[y[2]]) THEN "warning" ELSE "error")
  <1>1. \A y : y \in seen_first(load, found) /\ names(load, y) = names(load, x)
               <=> y = x /\ x \in found
    BY OnlyFirst
  <1>2. x \in found <=> /\ group_of(load[x[1]]) # Nothing /\ group_of(load[x[2]]) # Nothing
                        /\ ~permitted(load[x[1]], load[x[2]]) \/ noted(load[x[1]], load[x[2]])
    BY DEF Only
  <1>3. check_imdg_class1_compatibility(load) = {says(y) : y \in seen_first(load, found)}
    BY Zenon DEF check_imdg_class1_compatibility
  <1>4. \A y : says(y).names = names(load, y)
    BY FindingParts
  <1>5. says(x) = Finding("class1", both(load[x[1]], load[x[2]]), Nothing, Nothing,
                          IF permitted(load[x[1]], load[x[2]]) THEN "warning" ELSE "error")
    BY OnlyPairs
  <1> HIDE DEF found, says
  <1>6. about(check_imdg_class1_compatibility(load), names(load, x)) =
          {f \in {says(x)} : x \in found}
    BY <1>1, <1>3, <1>4 DEF about
  <1>7. QED
    BY <1>2, <1>5, <1>6 DEF class1_of

LEMMA OnlyGroups ==
  ASSUME NEW load, ALoad(load), NEW x, Only(load, x)
  PROVE  about(check_imdg_segregation_groups(load), names(load, x))
           = groups_of(load[x[1]], load[x[2]])
  <1> DEFINE says(y, c) == Finding("groups", names(load, y), c, Nothing, "warning")
             clash(y, c) == across(Declared[load[y[1]]].groups, Declared[load[y[2]]].groups, c)
  <1>1. check_imdg_segregation_groups(load) =
          {says(z[1], z[2]) : z \in {w \in Pairs(load) \X Conflicts : clash(w[1], w[2])}}
    BY Zenon DEF check_imdg_segregation_groups
  <1>2. \A y, c : says(y, c).names = names(load, y)
    BY FindingParts
  <1>3. groups_of(load[x[1]], load[x[2]]) = {says(x, c) : c \in {k \in Conflicts : clash(x, k)}}
    BY OnlyPairs, Zenon DEF groups_of
  <1>4. x \in Pairs(load) /\ \A y \in Pairs(load) : names(load, y) = names(load, x) => y = x
    BY OnlyPairs DEF Only
  <1> HIDE DEF says, clash
  <1>5. \A f \in check_imdg_segregation_groups(load) :
          \E y \in Pairs(load), c \in Conflicts : f = says(y, c) /\ clash(y, c)
    BY <1>1
  <1>6. \A y \in Pairs(load), c \in Conflicts :
          clash(y, c) => says(y, c) \in check_imdg_segregation_groups(load)
    <2> SUFFICES ASSUME NEW y \in Pairs(load), NEW c \in Conflicts, clash(y, c)
                 PROVE  says(y, c) \in check_imdg_segregation_groups(load)
      OBVIOUS
    <2>1. <<y, c>> \in Pairs(load) \X Conflicts /\ <<y, c>>[1] = y /\ <<y, c>>[2] = c
      OBVIOUS
    <2>2. QED
      BY <1>1, <2>1, Zenon
  <1>7. QED
    BY <1>2, <1>3, <1>4, <1>5, <1>6 DEF about

LEMMA OnlyProvisions ==
  ASSUME NEW load, ALoad(load), NEW x, Only(load, x)
  PROVE  about(check_imdg_segregation_provisions(load), names(load, x))
           = provisions_of(load[x[1]], load[x[2]]) \cup provisions_of(load[x[2]], load[x[1]])
  <1> DEFINE says(y, c) == Finding(IF Provision[c].named THEN "named" ELSE "column_16b",
                                   names(load, y), <<name(load[y[1]]), c>>,
                                   Provision[c].action, "warning")
             clash(y, c) == c \in Declared[load[y[1]]].codes /\ target_of(c, load[y[2]])
             x_ == <<x[2], x[1]>>
  <1>1. check_imdg_segregation_provisions(load) =
          {says(z[1], z[2]) : z \in {w \in Directed(load) \X (DOMAIN Provision) : clash(w[1], w[2])}}
    BY Zenon DEF check_imdg_segregation_provisions
  <1>2. \A y, c : says(y, c).names = names(load, y)
    BY FindingParts
  <1>3. names(load, x) = both(load[x[1]], load[x[2]])
        /\ names(load, x_) = both(load[x[2]], load[x[1]]) /\ names(load, x_) = names(load, x)
        /\ x \in Directed(load) /\ x_ \in Directed(load)
        /\ x_[1] = x[2] /\ x_[2] = x[1]
    <2>1. x \in Directed(load) /\ x_ \in Directed(load) /\ names(load, x_) = names(load, x)
      BY DuoPairs DEF Only
    <2>2. QED
      BY <2>1, OnlyPairs DEF both
  <1>4. provisions_of(load[x[1]], load[x[2]]) =
          {says(x, c) : c \in {k \in DOMAIN Provision : clash(x, k)}}
    BY <1>3, Zenon DEF provisions_of
  <1>5. provisions_of(load[x[2]], load[x[1]]) =
          {says(x_, c) : c \in {k \in DOMAIN Provision : clash(x_, k)}}
    BY <1>3, Zenon DEF provisions_of
  <1>6. \A y \in Directed(load) : names(load, y) = names(load, x) => y = x \/ y = x_
    BY OnlyPairs
  <1> HIDE DEF says, clash, x_
  <1>7. \A f \in check_imdg_segregation_provisions(load) :
          \E y \in Directed(load), c \in DOMAIN Provision : f = says(y, c) /\ clash(y, c)
    BY <1>1
  <1>8. \A y \in Directed(load), c \in DOMAIN Provision :
          clash(y, c) => says(y, c) \in check_imdg_segregation_provisions(load)
    <2> SUFFICES ASSUME NEW y \in Directed(load), NEW c \in DOMAIN Provision, clash(y, c)
                 PROVE  says(y, c) \in check_imdg_segregation_provisions(load)
      OBVIOUS
    <2>1. <<y, c>> \in Directed(load) \X (DOMAIN Provision) /\ <<y, c>>[1] = y /\ <<y, c>>[2] = c
      OBVIOUS
    <2>2. QED
      BY <1>1, <2>1, Zenon
  <1>9. QED
    BY <1>2, <1>3, <1>4, <1>5, <1>6, <1>7, <1>8 DEF about

LEMMA OnlyExemptions ==
  ASSUME NEW load, ALoad(load), NEW x, Only(load, x)
  PROVE  about(check_imdg_segregation_exemptions(load), names(load, x))
           = exemptions_of(load[x[1]], load[x[2]])
  <1> DEFINE says(y, t) == Finding("exemption", names(load, y), <<t>>, Nothing, "info")
             listed(y, t) == {un_number(load[y[1]]), un_number(load[y[2]])} \subseteq Exempting[t]
  <1>1. check_imdg_segregation_exemptions(load) =
          {says(z[1], z[2]) : z \in {w \in Pairs(load) \X (DOMAIN Exempting) : listed(w[1], w[2])}}
    BY Zenon DEF check_imdg_segregation_exemptions
  <1>2. \A y, t : says(y, t).names = names(load, y)
    BY FindingParts
  <1>3. exemptions_of(load[x[1]], load[x[2]]) =
          {says(x, t) : t \in {k \in DOMAIN Exempting : listed(x, k)}}
    BY OnlyPairs, Zenon DEF exemptions_of
  <1>4. x \in Pairs(load) /\ \A y \in Pairs(load) : names(load, y) = names(load, x) => y = x
    BY OnlyPairs DEF Only
  <1> HIDE DEF says, listed
  <1>5. \A f \in check_imdg_segregation_exemptions(load) :
          \E y \in Pairs(load), t \in DOMAIN Exempting : f = says(y, t) /\ listed(y, t)
    BY <1>1
  <1>6. \A y \in Pairs(load), t \in DOMAIN Exempting :
          listed(y, t) => says(y, t) \in check_imdg_segregation_exemptions(load)
    <2> SUFFICES ASSUME NEW y \in Pairs(load), NEW t \in DOMAIN Exempting, listed(y, t)
                 PROVE  says(y, t) \in check_imdg_segregation_exemptions(load)
      OBVIOUS
    <2>1. <<y, t>> \in Pairs(load) \X (DOMAIN Exempting) /\ <<y, t>>[1] = y /\ <<y, t>>[2] = t
      OBVIOUS
    <2>2. QED
      BY <1>1, <2>1, Zenon
  <1>7. QED
    BY <1>2, <1>3, <1>4, <1>5, <1>6 DEF about

\* A requirement about ordinary cargo names one substance.
LEMMA OnlyCargo ==
  ASSUME NEW load, ALoad(load), NEW x, Only(load, x)
  PROVE  about(cargo_requirements(load), names(load, x)) = {}
  <1> SUFFICES ASSUME NEW f \in cargo_requirements(load), f.names = names(load, x) PROVE FALSE
    BY DEF about
  <1>1. PICK y \in (DOMAIN load) \X (DOMAIN BesideClasses) :
          f = Finding("cargo", {name(load[y[1]])}, <<name(load[y[1]]), y[2]>>, Nothing, "warning")
    BY Zenon DEF cargo_requirements
  <1>2. f.names = {name(load[y[1]])} /\ y[1] \in DOMAIN load
    BY <1>1, FindingParts
  <1>3. QED
    BY <1>2, OnlyPairs

\* All that the sea checks find of two goods, before column 16b is weighed.
found_of(p, q) ==
  table_of(p, q) \cup class1_of(p, q) \cup groups_of(p, q)
  \cup provisions_of(p, q) \cup provisions_of(q, p) \cup exemptions_of(p, q)

LEMMA OnlyChecked ==
  ASSUME NEW load, ALoad(load), NEW x, Only(load, x)
  PROVE  about(checked(load), names(load, x)) = found_of(load[x[1]], load[x[2]])
  <1> DEFINE N == names(load, x)
  <1>1. about(checked(load), N) =
          about(check_imdg_segregation(load), N)
          \cup about(check_imdg_class1_compatibility(load), N)
          \cup about(check_imdg_segregation_groups(load), N)
          \cup about(check_imdg_segregation_provisions(load), N)
          \cup about(cargo_requirements(load), N)
          \cup about(check_imdg_segregation_exemptions(load), N)
    BY DEF about, checked
  <1>2. /\ about(check_imdg_segregation(load), N) = table_of(load[x[1]], load[x[2]])
        /\ about(check_imdg_class1_compatibility(load), N) = class1_of(load[x[1]], load[x[2]])
        /\ about(check_imdg_segregation_groups(load), N) = groups_of(load[x[1]], load[x[2]])
        /\ about(check_imdg_segregation_provisions(load), N)
             = provisions_of(load[x[1]], load[x[2]]) \cup provisions_of(load[x[2]], load[x[1]])
        /\ about(cargo_requirements(load), N) = {}
        /\ about(check_imdg_segregation_exemptions(load), N)
             = exemptions_of(load[x[1]], load[x[2]])
    BY OnlyTable, OnlyClass1, OnlyGroups, OnlyProvisions, OnlyCargo, OnlyExemptions
  <1> HIDE DEF N
  <1>3. about(checked(load), N) = found_of(load[x[1]], load[x[2]])
    BY <1>1, <1>2 DEF found_of
  <1>4. QED
    BY <1>3 DEF N

\* Column 16b is weighed within the goods of a name: what is found of others
\* makes no difference.
LEMMA WeighedWithin ==
  ASSUME NEW found, \A f \in found : Raised(f), NEW N
  PROVE  about(apply_column_16b_precedence(found), N)
           = apply_column_16b_precedence(about(found, N))
  <1>1. ASSUME NEW f, f.names = N PROVE weighed(found, f) = weighed(about(found, N), f)
    <2>1. /\ of_source(found, "column_16b", f.names)
               = of_source(about(found, N), "column_16b", f.names)
          /\ of_source(found, "table", f.names) = of_source(about(found, N), "table", f.names)
      BY <1>1 DEF of_source, about
    <2>2. QED
      BY <2>1, Zenon DEF weighed
  <1>2. \A f \in found : weighed(found, f).names = f.names
    BY Weighing
  <1>3. about(apply_column_16b_precedence(found), N) = {weighed(found, f) : f \in about(found, N)}
    BY <1>2, Precedence DEF about
  <1>4. \A f \in about(found, N) : weighed(found, f) = weighed(about(found, N), f)
    BY <1>1 DEF about
  <1>5. apply_column_16b_precedence(about(found, N))
          = {weighed(about(found, N), f) : f \in about(found, N)}
    BY Precedence
  <1>6. QED
    BY <1>3, <1>4, <1>5

\* Goods that the exception for class 8 may be about.
acid(p) == Declared[p].class = "8" /\ Declared[p].packing_group \in {"II", "III"}

\* The exception is raised of two goods when both are such goods.
excepted(p, q, found) ==
  {f \in {Finding("exception", both(p, q), Nothing, Nothing, "info")} :
     acid(p) /\ acid(q) /\ \E g \in found : g.severity # "info" /\ g.source # "cargo"}

LEMMA OnlyException ==
  ASSUME NEW load, ALoad(load), NEW x, Only(load, x), NEW found
  PROVE  about(append_class8_pair_exception(load, found), names(load, x))
           = about(found, names(load, x))
             \cup excepted(load[x[1]], load[x[2]], about(found, names(load, x)))
  <1> DEFINE N == names(load, x)
             eligible == {name(load[i]) : i \in {j \in DOMAIN load :
                            /\ Declared[load[j]].class = "8"
                            /\ Declared[load[j]].packing_group \in {"II", "III"}}}
             concerned == {f \in found : /\ f.severity # "info" /\ f.source # "cargo"
                                         /\ f.names \subseteq eligible}
             says(f) == Finding("exception", f.names, Nothing, Nothing, "info")
  <1>1. append_class8_pair_exception(load, found) =
          IF Cardinality(eligible) < 2 THEN found ELSE found \cup {says(f) : f \in concerned}
    BY Zenon DEF append_class8_pair_exception
  <1>2. \A f : says(f).names = f.names
    BY FindingParts
  <1>3. N = both(load[x[1]], load[x[2]]) /\ x[1] \in DOMAIN load /\ x[2] \in DOMAIN load
    BY OnlyPairs, DuoPairs DEF Only
  <1>4. N \subseteq eligible <=> acid(load[x[1]]) /\ acid(load[x[2]])
    <2>1. \A i \in DOMAIN load : /\ name(load[i]) = name(load[x[1]]) => i = x[1]
                                 /\ name(load[i]) = name(load[x[2]]) => i = x[2]
      BY DEF Only
    <2>2. name(load[x[1]]) \in eligible <=> acid(load[x[1]])
      BY <1>3, <2>1 DEF acid
    <2>3. name(load[x[2]]) \in eligible <=> acid(load[x[2]])
      BY <1>3, <2>1 DEF acid
    <2>4. N = {name(load[x[1]]), name(load[x[2]])}
      BY DEF names
    <2> HIDE DEF N, eligible
    <2>5. QED
      BY <2>2, <2>3, <2>4
  <1>5. IsFiniteSet(eligible)
    <2>1. IsFiniteSet(DOMAIN load)
      BY FS_Interval DEF ALoad
    <2> DEFINE ones == {j \in DOMAIN load : /\ Declared[load[j]].class = "8"
                                            /\ Declared[load[j]].packing_group \in {"II", "III"}}
               f == [j \in ones |-> name(load[j])]
    <2>2. IsFiniteSet(ones)
      BY <2>1, FS_Subset
    <2>3. f \in Surjection(ones, eligible)
      BY DEF Surjection
    <2>4. QED
      BY <2>2, <2>3, FS_Surjection
  <1>6. N \subseteq eligible => ~(Cardinality(eligible) < 2)
    <2> SUFFICES ASSUME N \subseteq eligible PROVE ~(Cardinality(eligible) < 2)
      OBVIOUS
    <2>1. name(load[x[1]]) \in eligible /\ name(load[x[2]]) \in eligible
      BY DEF names
    <2>2. name(load[x[1]]) # name(load[x[2]])
      BY OnlyPairs
    <2> HIDE DEF eligible
    <2>3. Cardinality(eligible) >= 2
      BY <1>5, <2>1, <2>2, CountsTwo
    <2>4. Cardinality(eligible) \in Nat
      BY <1>5, FS_CardinalityType
    <2>5. QED
      BY <2>3, <2>4
  <1> HIDE DEF N, eligible
  <1>7. CASE ~(N \subseteq eligible)
    <2>1. \A f \in concerned : says(f).names # N
      BY <1>2, <1>7
    <2>2. excepted(load[x[1]], load[x[2]], about(found, N)) = {}
      BY <1>4, <1>7 DEF excepted
    <2> HIDE DEF concerned, says
    <2>3. about(append_class8_pair_exception(load, found), N) = about(found, N)
      BY <1>1, <2>1 DEF about
    <2>4. QED
      BY <2>2, <2>3 DEF N
  <1>8. CASE N \subseteq eligible
    <2> DEFINE new == Finding("exception", N, Nothing, Nothing, "info")
    <2>1. \A f \in concerned : says(f).names = N => says(f) = new
      BY <1>2
    <2>2. \A f \in concerned : says(f).names = f.names
      BY <1>2
    <2>3. append_class8_pair_exception(load, found) = found \cup {says(f) : f \in concerned}
      BY <1>1, <1>6, <1>8
    <2>4. (\E f \in concerned : f.names = N)
          <=> \E g \in about(found, N) : g.severity # "info" /\ g.source # "cargo"
      BY <1>8 DEF about
    <2>5. excepted(load[x[1]], load[x[2]], about(found, N)) =
            {f \in {new} : \E g \in concerned : g.names = N}
      <3>1. acid(load[x[1]]) /\ acid(load[x[2]])
        BY <1>4, <1>8
      <3>2. new = Finding("exception", both(load[x[1]], load[x[2]]), Nothing, Nothing, "info")
        BY <1>3
      <3> HIDE DEF new, concerned
      <3>3. QED
        BY <2>4, <3>1, <3>2 DEF excepted
    <2>6. new.names = N
      BY FindingParts
    <2> HIDE DEF concerned, says, new
    <2>7. about(append_class8_pair_exception(load, found), N)
            = about(found, N) \cup {f \in {new} : \E g \in concerned : g.names = N}
      BY <2>1, <2>2, <2>3, <2>6 DEF about
    <2>8. QED
      BY <2>5, <2>7 DEF N
  <1>9. QED
    BY <1>7, <1>8

\* What the air checks say of two goods when their names are theirs alone.
air_of(p, q) ==
  {f \in {Finding("air", both(p, q), Nothing, Nothing, "error")} :
     \E key \in AirPairs : across({k \in {key[1], key[2]} : matches_iata_key(k, p)},
                                  {k \in {key[1], key[2]} : matches_iata_key(k, q)}, key)}
  \cup {f \in {Finding("lithium", both(p, q), Nothing, Nothing, "error")} : lithium_clash(p, q)}

LEMMA OnlyAir ==
  ASSUME NEW load, ALoad(load), NEW x, Only(load, x)
  PROVE  about(check_iata_segregation(load), names(load, x)) = air_of(load[x[1]], load[x[2]])
  <1> DEFINE clash(p, q) == \E key \in AirPairs :
                 across({k \in {key[1], key[2]} : matches_iata_key(k, p)},
                        {k \in {key[1], key[2]} : matches_iata_key(k, q)}, key)
             says(source, y) == Finding(source, names(load, y), Nothing, Nothing, "error")
  <1>1. check_iata_segregation(load) =
          {says("air", y) : y \in {z \in Pairs(load) : clash(load[z[1]], load[z[2]])}} \cup
          {says("lithium", y) : y \in {z \in Pairs(load) : lithium_clash(load[z[1]], load[z[2]])}}
    BY Zenon DEF check_iata_segregation
  <1>2. \A source, y : says(source, y).names = names(load, y)
    BY FindingParts
  <1>3. air_of(load[x[1]], load[x[2]]) =
          {f \in {says("air", x)} : clash(load[x[1]], load[x[2]])} \cup
          {f \in {says("lithium", x)} : lithium_clash(load[x[1]], load[x[2]])}
    BY OnlyPairs, Zenon DEF air_of
  <1>4. x \in Pairs(load) /\ \A y \in Pairs(load) : names(load, y) = names(load, x) => y = x
    BY OnlyPairs DEF Only
  <1> HIDE DEF says, clash
  <1>5. QED
    BY <1>1, <1>2, <1>3, <1>4 DEF about

\* All that a consignment is told of two goods when their names are theirs alone.
told_of(p, q) ==
  LET weighed_of == apply_column_16b_precedence(found_of(p, q))
  IN  {f \in weighed_of \cup excepted(p, q, weighed_of) \cup air_of(p, q) :
         f.source \notin {"cargo", "air_forbidden"}}

LEMMA OnlyTold ==
  ASSUME NEW load, ALoad(load), NEW x, Only(load, x)
  PROVE  ThatNames(findings(load), names(load, x)) = told_of(load[x[1]], load[x[2]])
  <1> DEFINE N == names(load, x)
             W == apply_column_16b_precedence(found_of(load[x[1]], load[x[2]]))
  <1>1. about(sea(load), N) = W
    <2>1. \A f \in checked(load) : Raised(f)
      BY CheckedRaised
    <2>2. about(sea(load), N) = apply_column_16b_precedence(about(checked(load), N))
      BY <2>1, WeighedWithin DEF sea
    <2>3. QED
      BY <2>2, OnlyChecked
  <1>2. about(append_class8_pair_exception(load, sea(load)), N)
          = W \cup excepted(load[x[1]], load[x[2]], W)
    BY <1>1, OnlyException
  <1>3. about(check_iata_segregation(load), N) = air_of(load[x[1]], load[x[2]])
    BY OnlyAir
  <1>4. \A f \in check_air_forbidden(load) : f.source = "air_forbidden"
    <2> SUFFICES ASSUME NEW f \in check_air_forbidden(load) PROVE f.source = "air_forbidden"
      OBVIOUS
    <2>1. PICK i : f = Finding("air_forbidden", {name(load[i])}, Nothing, Nothing, "error")
      BY DEF check_air_forbidden
    <2>2. QED
      BY <2>1, FindingParts
  <1>5. told_of(load[x[1]], load[x[2]]) =
          {f \in W \cup excepted(load[x[1]], load[x[2]], W) \cup air_of(load[x[1]], load[x[2]]) :
             f.source \notin {"cargo", "air_forbidden"}}
    BY Zenon DEF told_of
  <1> HIDE DEF N, W
  <1>6. ThatNames(findings(load), N) = told_of(load[x[1]], load[x[2]])
    BY <1>2, <1>3, <1>4, <1>5, AllFindings DEF ThatNames, about
  <1>7. QED
    BY <1>6 DEF N

\* No provision of one pair governs another: what a consignment is told of two
\* goods whose names no other line has is what it would be told of them alone
\* (check_compliance and apply_column_16b_precedence, within a pair).
THEOREM PairsAreApart == StowageSpec => []PairsApart
  <1>1. ALoad(lines) => PairsApart
    <2> SUFFICES ASSUME ALoad(lines), NEW x \in Pairs(lines), Only(lines, x)
                 PROVE  ThatNames(findings(lines), names(lines, x))
                          = ThatNames(Alone(x), names(lines, x))
      BY DEF PairsApart, Only
    <2> DEFINE d == duo(lines, x)
    <2>1. /\ ALoad(d) /\ DOMAIN d = {1, 2}
          /\ d[1] = lines[x[1]] /\ d[2] = lines[x[2]]
          /\ Pairs(d) = {<<1, 2>>} /\ names(d, <<1, 2>>) = names(lines, x)
      BY DuoPairs
    <2>2. Alone(x) = findings(d)
      BY Zenon DEF Alone, duo
    <2>3. name(d[1]) # name(d[2])
      BY <2>1, OnlyPairs
    <2> HIDE DEF d
    <2>4. <<1, 2>>[1] = 1 /\ <<1, 2>>[2] = 2
      OBVIOUS
    <2>5. Only(d, <<1, 2>>)
      BY <2>1, <2>3, <2>4 DEF Only
    <2>6. ThatNames(findings(d), names(d, <<1, 2>>)) = told_of(d[1], d[2])
      BY <2>1, <2>4, <2>5, OnlyTold
    <2>7. ThatNames(findings(lines), names(lines, x)) = told_of(lines[x[1]], lines[x[2]])
      BY OnlyTold
    <2>8. QED
      BY <2>1, <2>2, <2>6, <2>7
  <1>2. QED
    BY <1>1, StowageTyped, PTL
=============================================================================
