----------------------------- MODULE MCStowage -----------------------------
(***************************************************************************)
(* Substances of the Dangerous Goods List, and the cells of the table and  *)
(* the provisions that concern them, for model checking.                   *)
(***************************************************************************)
EXTENDS Stowage

\* Goods of one class and nothing besides.
package(un, class) ==
  [name |-> un, un |-> un, class |-> class, subsidiary |-> {}, group |-> Nothing,
   packing_group |-> "", groups |-> {}, codes |-> {}]

NitricAcid == [package("2031", "8") EXCEPT !.packing_group = "II", !.groups = {"SGG1"},
                 !.codes = {"SG16", "SG17", "SG36", "SG49"}]

MCDeclared ==
  [weak_acid |-> NitricAcid,
   strong_acid |-> [NitricAcid EXCEPT !.subsidiary = {"5.1"}],
   soda |-> [package("1824", "8") EXCEPT !.packing_group = "II", !.groups = {"SGG18"},
               !.codes = {"SG35"}],
   gas |-> package("1965", "2.1"),
   sulphur |-> [package("1350", "4.1") EXCEPT !.packing_group = "III", !.codes = {"SG17"}],
   barium |-> [package("1449", "5.1") EXCEPT !.subsidiary = {"6.1"}, !.packing_group = "II",
                 !.groups = {"SGG16"}, !.codes = {"SG16", "SG26", "SG35"}],
   chlorine |-> [package("1017", "2.3") EXCEPT !.subsidiary = {"5.1", "8"}],
   ammonia |-> [package("1005", "2.3") EXCEPT !.subsidiary = {"8"}, !.groups = {"SGG18"},
                  !.codes = {"SG35", "SG46"}],
   blasting |-> [package("0081", "1.1") EXCEPT !.group = "D"],
   fireworks |-> [package("0336", "1.4") EXCEPT !.group = "G"],
   cartridges |-> [package("0012", "1.4S") EXCEPT !.group = "S"],
   battery |-> package("3480", "9")]

MCCargo == DOMAIN MCDeclared

\* The rows that occur, and the lower half of the table on them.
MCRows == <<"1.1-1.2-1.5", "1.4", "2.1", "2.3", "4.1", "5.1", "6.1", "8", "9">>
MCCells ==
  << <<Refer>>,
     <<Refer, Refer>>,
     <<4, 2, 0>>,
     <<2, 1, 0, 0>>,
     <<4, 2, 1, 0, 0>>,
     <<4, 2, 2, 0, 1, 0>>,
     <<2, 0, 0, 0, 0, 1, 0>>,
     <<4, 2, 1, 0, 1, 2, 0, 0>>,
     <<0, 0, 0, 0, 0, 0, 0, 0, 0>> >>
RowAt(key) == CHOOSE i \in DOMAIN MCRows : MCRows[i] = key
MCTable ==
  [x \in Range(MCRows) \X Range(MCRows) |->
     LET i == RowAt(x[1])  j == RowAt(x[2])
     IN  IF i >= j THEN MCCells[i][j] ELSE MCCells[j][i]]

\* D with D, G with G and D, S with all three.
MCTogether ==
  {<<"D", "D">>, <<"G", "G">>, <<"S", "S">>, <<"D", "G">>, <<"G", "D">>, <<"D", "S">>,
   <<"S", "D">>, <<"G", "S">>, <<"S", "G">>}

from(action, classes, groups) ==
  [named |-> FALSE, action |-> action, classes |-> classes, groups |-> groups, un |-> {},
   excepted |-> {}, both |-> FALSE]
MCProvision ==
  [SG16 |-> from(2, {"4.1"}, {}), SG17 |-> from(2, {"5.1"}, {}),
   SG35 |-> from(2, {}, {"SGG1"}), SG36 |-> from(2, {}, {"SGG18"}),
   SG49 |-> from(2, {}, {"SGG6"}),
   SG46 |-> [from(0, {}, {}) EXCEPT !.named = TRUE, !.un = {"1017"}]]

MCBesideClasses == [SG26 |-> {"2.1", "3"}]
MCConflicts == {<<"SGG1", "SGG18">>, <<"SGG16", "SGG1">>}
MCExempting == [t4 |-> {"1325", "3101"}]
MCAirPairs == {<<"1", "2.1">>, <<"1", "3">>, <<"1", "4.1">>, <<"1", "5.1">>, <<"4.3", "8">>}
=============================================================================
