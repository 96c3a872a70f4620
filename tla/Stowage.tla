------------------------------ MODULE Stowage ------------------------------
(***************************************************************************)
(* What a consignment of packages is told about keeping its goods apart at *)
(* sea and in the air (services/dg/compliance.py, the IMDG and IATA checks *)
(* of segregation).  The lines are put together one by one; each check     *)
(* goes through the pairs of lines in their order, and names the two goods *)
(* by UN number and shipping name: lines that share a name share what is   *)
(* said of them.                                                           *)
(*                                                                         *)
(* The tables and provisions are constants: they are data of the code.     *)
(* Left out: wording, the general notes and the differences of Amendment   *)
(* 42-24, and the provisions that are only quoted.                         *)
(***************************************************************************)
EXTENDS Integers, Sequences, SequencesExt, FiniteSets, FiniteSetsExt

CONSTANTS
  Cargo,         \* goods that can be on a line
  Declared,      \* what is declared of each
  Table,         \* IMDG 7.2.4: a code 1 to 4, 0 for none, Refer for "*"
  Refer,
  Together,      \* IMDG 7.2.7.1.4: the pairs of compatibility groups that may be mixed
  Noted,         \* the groups with a note of their own
  Conflicts,     \* IMDG 7.2.5: pairs of segregation groups
  Provision,     \* column 16b: what each code keeps its substance away from
  BesideClasses, \* codes about ordinary cargo: the classes they need beside them, if any
  Exempting,     \* IMDG 7.2.6.3: tables of UN numbers
  AirPairs,      \* IATA 9.3.A: pairs of keys
  Lithium, BesideLithium,
  Nothing,
  MaxLines       \* bound: lines of the consignment

Classes == {"1", "1.1", "1.2", "1.3", "1.4", "1.4S", "1.5", "1.6", "2.1", "2.2", "2.3", "3", "4.1",
            "4.2", "4.3", "5.1", "5.2", "6.1", "6.2", "7", "8", "9"}

Goods_ == [name : STRING, un : STRING, class : Classes \cup {"2", "6"}, subsidiary : SUBSET Classes,
           group : STRING \cup {Nothing}, packing_group : {"", "I", "II", "III"},
           groups : SUBSET STRING, codes : SUBSET STRING]

ASSUME StowageAssumption ==
  /\ Declared \in [Cargo -> Goods_] /\ MaxLines \in Nat
  /\ \A x \in DOMAIN Table : Table[x] = Table[<<x[2], x[1]>>]
  /\ \A x \in Together : <<x[2], x[1]>> \in Together

VARIABLE lines   \* the goods of the consignment, in the order of their lines

StowageTypeOK == lines \in Seq(Cargo) /\ Len(lines) <= MaxLines

-----------------------------------------------------------------------------
(* Pairs of lines, and what is said of them *)

name(p) == Declared[p].name
un_number(p) == Declared[p].un

\* The pairs in the order of the two loops.
Pairs(load) == {x \in (DOMAIN load) \X (DOMAIN load) : x[1] < x[2]}
Directed(load) == {x \in (DOMAIN load) \X (DOMAIN load) : x[1] # x[2]}
earlier(x, y) == x[1] < y[1] \/ (x[1] = y[1] /\ x[2] < y[2])
names(load, x) == {name(load[x[1]]), name(load[x[2]])}

\* Of the pairs with the same names only the first that is found is reported.
seen_first(load, found) ==
  {x \in found : \A y \in found : names(load, y) = names(load, x) => ~earlier(y, x)}

\* provision tells findings of one source apart; code is the distance, where
\* there is one.
Finding(source, about, provision, code, severity) ==
  [source |-> source, names |-> about, provision |-> provision, code |-> code,
   severity |-> severity]

-----------------------------------------------------------------------------
(* The class table: check_imdg_segregation *)

\* 1.4 has a row of its own; 2 and 6 without a division have none.
row_key(class) ==
  CASE class \in {"1", "1.1", "1.2", "1.5"} -> "1.1-1.2-1.5"
    [] class \in {"1.3", "1.6"} -> "1.3-1.6"
    [] class = "1.4S" -> "1.4"
    [] class \in {"2", "6"} -> Nothing
    [] OTHER -> class

Explosives == {"1", "1.1", "1.2", "1.3", "1.4", "1.4S", "1.5", "1.6"}

\* A subsidiary risk of class 1 counts as division 1.3.
keys(p) ==
  ({row_key(Declared[p].class)} \ {Nothing}) \cup
  {IF c \in Explosives THEN "1.3-1.6" ELSE row_key(c) : c \in Declared[p].subsidiary}

\* A digit beats "*", which refers on to 7.2.7 and states no distance.
worst(p, q) ==
  LET cells == {Table[<<k, l>>] : k \in keys(p), l \in keys(q)}
      digits == cells \ {0, Refer}
  IN  IF digits # {} THEN Max(digits) ELSE IF Refer \in cells THEN Refer ELSE 0

table_finding(load, x) ==
  LET code == worst(load[x[1]], load[x[2]])
  IN  Finding("table", names(load, x), Nothing, code,
              IF code \in {3, 4} THEN "error" ELSE "warning")

\* Mutant: a pair is marked as seen before it is known to need anything.
check_imdg_segregation_all(load) ==
  {table_finding(load, x) : x \in {y \in seen_first(load, Pairs(load)) :
                                     worst(load[y[1]], load[y[2]]) # 0}}

check_imdg_segregation(load) ==
  {table_finding(load, x) : x \in seen_first(load,
     {y \in Pairs(load) : worst(load[y[1]], load[y[2]]) # 0})}

-----------------------------------------------------------------------------
(* Class 1 and segregation groups *)

group_of(p) == Declared[p].group
permitted(p, q) == <<group_of(p), group_of(q)>> \in Together
noted(p, q) == group_of(p) # group_of(q) /\ {group_of(p), group_of(q)} \cap Noted # {}

check_imdg_class1_compatibility(load) ==
  LET grouped == {x \in Pairs(load) : group_of(load[x[1]]) # Nothing /\ group_of(load[x[2]]) # Nothing}
      found == {x \in grouped : ~permitted(load[x[1]], load[x[2]]) \/ noted(load[x[1]], load[x[2]])}
  IN  {Finding("class1", names(load, x), Nothing, Nothing,
               IF permitted(load[x[1]], load[x[2]]) THEN "warning" ELSE "error")
         : x \in seen_first(load, found)}

across(S, T, c) == (c[1] \in S /\ c[2] \in T) \/ (c[2] \in S /\ c[1] \in T)

check_imdg_segregation_groups(load) ==
  {Finding("groups", names(load, z[1]), z[2], Nothing, "warning") : z \in
     {y \in Pairs(load) \X Conflicts :
        across(Declared[load[y[1][1]]].groups, Declared[load[y[1][2]]].groups, y[2])}}

-----------------------------------------------------------------------------
(* Column 16b: check_imdg_segregation_provisions *)

classes_of(p) == {Declared[p].class} \cup Declared[p].subsidiary

\* "class 1" is every division of it, "class 5.1" that division.
matches_class(target, classes) ==
  \/ target \in classes
  \/ target = "1" /\ classes \cap Explosives # {}
  \/ target = "2" /\ classes \cap {"2.1", "2.2", "2.3"} # {}
  \/ target = "4" /\ classes \cap {"4.1", "4.2", "4.3"} # {}
  \/ target = "5" /\ classes \cap {"5.1", "5.2"} # {}
  \/ target = "6" /\ classes \cap {"6.1", "6.2"} # {}

\* Whether q is what provision c speaks of.
target_of(c, q) ==
  LET rule == Provision[c]
      by_class == \E t \in rule.classes : matches_class(t, classes_of(q))
      by_group == rule.groups \cap Declared[q].groups # {}
  IN  /\ rule.excepted \cap classes_of(q) = {}
      /\ IF rule.both THEN by_class /\ by_group
         ELSE by_class \/ by_group \/ un_number(q) \in rule.un

\* A provision that names a substance says nothing that can be compared with the
\* class table.
check_imdg_segregation_provisions(load) ==
  {Finding(IF Provision[y[2]].named THEN "named" ELSE "column_16b", names(load, y[1]),
           <<name(load[y[1][1]]), y[2]>>, Provision[y[2]].action, "warning") : y \in
     {z \in Directed(load) \X (DOMAIN Provision) :
        z[2] \in Declared[load[z[1][1]]].codes /\ target_of(z[2], load[z[1][2]])}}

\* Provisions about ordinary cargo, which is not declared: raised with the substance.
cargo_requirements(load) ==
  {Finding("cargo", {name(load[y[1]])}, <<name(load[y[1]]), y[2]>>, Nothing, "warning") : y \in
     {z \in (DOMAIN load) \X (DOMAIN BesideClasses) :
        /\ z[2] \in Declared[load[z[1]]].codes
        /\ BesideClasses[z[2]] # {} =>
             \E j \in (DOMAIN load) \ {z[1]}, t \in BesideClasses[z[2]] :
               matches_class(t, classes_of(load[j]))}}

-----------------------------------------------------------------------------
(* 7.2.3.1: column 16b prevails over the class table *)

of_source(found, source, about) == {f \in found : f.source = source /\ f.names = about}
strictest(column) == Max({f.code : f \in column})

\* Mutant: the strictest provision of the consignment governs every pair.
apply_column_16b_precedence_all(found) ==
  LET column == {f \in found : f.source = "column_16b"}
  IN  {IF column # {} /\ f.source = "table" /\ f.code # strictest(column)
       THEN [f EXCEPT !.severity = "info"] ELSE f : f \in found}

\* Within a pair; where both come out the same there is no conflict.
apply_column_16b_precedence(found) ==
  LET column(f) == of_source(found, "column_16b", f.names)
      table(f) == of_source(found, "table", f.names)
      superseded(f) == f.source = "table" /\ column(f) # {} /\ f.code # strictest(column(f))
      governing(f) == f.source = "column_16b" /\ table(f) # {} /\ f.code = strictest(column(f))
  IN  {CASE superseded(f) -> [f EXCEPT !.severity = "info"]
         [] governing(f) /\ f.code >= 3 -> [f EXCEPT !.severity = "error"]
         [] OTHER -> f : f \in found}

-----------------------------------------------------------------------------
(* What is permitted all the same: reported beside the findings *)

check_imdg_segregation_exemptions(load) ==
  {Finding("exemption", names(load, y[1]), <<y[2]>>, Nothing, "info") : y \in
     {z \in Pairs(load) \X (DOMAIN Exempting) :
        {un_number(load[z[1][1]]), un_number(load[z[1][2]])} \subseteq Exempting[z[2]]}}

\* 7.2.6.5, for goods of class 8 in packing group II or III.
append_class8_pair_exception(load, found) ==
  LET eligible == {name(load[i]) : i \in {j \in DOMAIN load :
                     /\ Declared[load[j]].class = "8"
                     /\ Declared[load[j]].packing_group \in {"II", "III"}}}
      excepted == {f \in found : /\ f.severity # "info" /\ f.source # "cargo"
                                 /\ f.names \subseteq eligible}
  IN  IF Cardinality(eligible) < 2 THEN found
      ELSE found \cup {Finding("exception", f.names, Nothing, Nothing, "info") : f \in excepted}

-----------------------------------------------------------------------------
(* Air: check_iata_segregation, check_air_forbidden *)

\* 1.4S is not class 1 here.
matches_iata_key(key, p) ==
  IF key = "1" THEN classes_of(p) \cap (Explosives \ {"1.4S"}) # {} ELSE key \in classes_of(p)

lithium_clash(p, q) ==
  LET other == IF un_number(p) \in Lithium THEN q ELSE p
  IN  /\ {un_number(p), un_number(q)} \cap Lithium # {}
      /\ \E key \in BesideLithium : matches_iata_key(key, other)

check_iata_segregation(load) ==
  LET clash(x) == \E key \in AirPairs :
        across({k \in {key[1], key[2]} : matches_iata_key(k, load[x[1]])},
               {k \in {key[1], key[2]} : matches_iata_key(k, load[x[2]])}, key)
      found(source, S) == {Finding(source, names(load, x), Nothing, Nothing, "error") : x \in S}
  IN  found("air", {x \in Pairs(load) : clash(x)}) \cup
      found("lithium", {x \in Pairs(load) : lithium_clash(load[x[1]], load[x[2]])})

check_air_forbidden(load) ==
  {Finding("air_forbidden", {name(load[i])}, Nothing, Nothing, "error")
     : i \in {j \in DOMAIN load : "2.3" \in classes_of(load[j])}}

\* All a consignment is told (check_compliance, for IMDG and IATA).
findings(load) ==
  append_class8_pair_exception(load, apply_column_16b_precedence(
    UNION {check_imdg_segregation(load), check_imdg_class1_compatibility(load),
           check_imdg_segregation_groups(load), check_imdg_segregation_provisions(load),
           cargo_requirements(load), check_imdg_segregation_exemptions(load)}))
  \cup check_air_forbidden(load) \cup check_iata_segregation(load)

-----------------------------------------------------------------------------
StowageInit == lines = <<>>

AddLine(p) == Len(lines) < MaxLines /\ lines' = Append(lines, p)

RemoveLine(i) == lines' = RemoveAt(lines, i)

StowageNext == (\E p \in Cargo : AddLine(p)) \/ (\E i \in DOMAIN lines : RemoveLine(i))

StowageSpec == StowageInit /\ [][StowageNext]_lines

-----------------------------------------------------------------------------
\* What is said of two lines by themselves.
Alone(x) == findings(<<lines[x[1]], lines[x[2]]>>)

ThatNames(found, about) == {f \in found : f.names = about /\ f.source \notin {"cargo", "air_forbidden"}}

\* What is said of two goods is what would be said of them alone, unless a third
\* line shares the name of one: no pair's provision governs another pair.
PairsApart ==
  \A x \in Pairs(lines) :
    (\A k \in {x[1], x[2]}, i \in DOMAIN lines : name(lines[i]) = name(lines[k]) => i = k)
    => ThatNames(findings(lines), names(lines, x)) = ThatNames(Alone(x), names(lines, x))

\* Whatever names are shared, every check that warns of two lines alone warns of
\* their names in the consignment, and one of those warnings is left standing.
EveryPairTold ==
  \A x \in Pairs(lines) :
    LET warned == {f \in ThatNames(Alone(x), names(lines, x)) : f.severity # "info"}
        said == ThatNames(findings(lines), names(lines, x))
    IN  /\ {f.source : f \in warned} \subseteq {f.source : f \in said}
        /\ warned # {} => \E f \in said : f.severity # "info"

\* "Subsidiary risks count too" (docs/dangerous-goods.md:224): the class table's
\* code that is reported for two goods is no less than any line of them needs.
SubsidiaryRisksCount ==
  \A x \in Pairs(lines) :
    LET code == worst(lines[x[1]], lines[x[2]])
    IN  code \in 1..4 =>
          \E f \in of_source(findings(lines), "table", names(lines, x)) : f.code \in code..4
=============================================================================
