----------------------------- MODULE MCCarriage -----------------------------
(***************************************************************************)
(* Substances of ADR table A, of two consignments, for model checking.     *)
(* Limited quantities are filled in of the paint, 10 tonnes of it.         *)
(***************************************************************************)
EXTENDS Carriage

\* A product in packages that is not exempted from anything by its quantity.
product(c, un, class, category, quantity) ==
  [consignment |-> c, un |-> un, class |-> class, subdivision |-> "", category |-> category,
   quantity |-> quantity, empty |-> FALSE, forbidden |-> FALSE, tank |-> FALSE, e0 |-> FALSE,
   limit |-> 1, inner |-> Unknown, gross |-> Unknown, packages |-> Unknown]

explosives(c, un, division, category, quantity) ==
  [product(c, un, "1", category, quantity) EXCEPT !.subdivision = division, !.limit = 0, !.e0 = TRUE]

MCDeclaration ==
  [petrol |-> product("A", "1203", "3", "2", 200),
   benzine |-> product("B", "1203", "3", "2", 200),
   chlorine |-> [product("B", "1017", "2.3", "1", 20) EXCEPT !.limit = 0, !.e0 = TRUE],
   blasting |-> explosives("A", "0081", "D", "1", 10),
   samples |-> explosives("B", "0190", "L", "0", 1),
   cartridges |-> explosives("B", "0012", "S", "4", 50),
   nitrate |-> product("B", "1942", "5.1", "3", 500),
   paint |-> [product("A", "1263", "3", "3", 300) EXCEPT
                !.limit = 5, !.inner = 3, !.gross = 20, !.packages = 500],
   drum |-> [product("B", "1203", "3", "2", 0) EXCEPT !.empty = TRUE],
   diesel |-> [product("A", "1202", "3", "3", 900) EXCEPT !.tank = TRUE]]

MCGoods == DOMAIN MCDeclaration

\* Of the groups D, L and S: L travels with no other.
MCForbidsGroups == {<<"D", "L">>, <<"L", "D">>, <<"L", "S">>, <<"S", "L">>}
=============================================================================
