SPECIFICATION ServerSpec
CONSTANTS
  Containers = {c1, c2, c3}
  Original = c1
  Helpers = {h1, h2}
  None = None
  Faults = {"refused", "raised", "lost", "unsound", "killed", "restarted"}
  MaxFaults = 1
  Uploads = {u1, u2, u3}
  Spooled = {u1, u2}
  Threads = {t1, t2}
  Nobody = Nobody
  Turns = {r1, r2}
  Installs = {i1, i2}
  Absent = Absent
  Chunks = 2
  MaxServers = 2
  Goods <- MCGoods
  Declaration <- MCDeclaration
  Consignments = {"A", "B"}
  ForbidsGroups <- MCForbidsGroups
  UnitMasses = {7, 40}
  Unknown = Unknown
  MaxAboard = 4
  Cargo <- MCCargo
  Declared <- MCDeclared
  Table <- MCTable
  Refer = Refer
  Together <- MCTogether
  Noted = {"G", "L", "N"}
  Conflicts <- MCConflicts
  Provision <- MCProvision
  BesideClasses <- MCBesideClasses
  Exempting <- MCExempting
  AirPairs <- MCAirPairs
  Lithium = {"3090", "3480"}
  BesideLithium = {"1", "2.1", "3", "4.1", "5.1"}
  Nothing = Nothing
  MaxLines = 3
INVARIANTS
  TypeOK
  OneRunning
  SingleUpdate
  WorkingInstallation
  DoneIsTrue
  OneServer
  ModelVerified
  LossIsReal
  PairsDecide
  PairsApart
  EveryPairTold
PROPERTIES
  ProgressEnds
  NothingOverwritten
  UploadsEnd
  TurnsEnd
  DownloadsEnd
  RefusalStands
  MarkStands
CHECK_DEADLOCK FALSE
