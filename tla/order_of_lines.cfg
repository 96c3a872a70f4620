SPECIFICATION StowageSpec
CONSTANTS
  Cargo <- MCCargo
  Declared <- MCDeclared
  Table <- MCTable
  Refer = Refer
  Together <- MCTogether
  Noted = {"G", "L", "N"}
  Conflicts <- MCConflicts
  Provision <- MCProvision
  BesideClasses <- MCBesideClasses
  Exempting <- MCExempting
  AirPairs <- MCAirPairs
  Lithium = {"3090", "3480"}
  BesideLithium = {"1", "2.1", "3", "4.1", "5.1"}
  Nothing = Nothing
  MaxLines = 3
INVARIANT
  SubsidiaryRisksCount
CHECK_DEADLOCK FALSE
