SPECIFICATION FairSpec
CONSTANTS
  Schemas = {"s1", "s2"}
  Tables = {"a"}
  Routines = {"r"}
  Special <- MCSpecial
  Long <- MCLong
  Flavors <- MCFlavors
  TableDefs <- MCTableDefs
  InitialTables <- MCInitialTables
  RoutineDefs <- MCRoutineDefs
  InitialRoutines <- MCInitialRoutines
  MaxDDL = 1
  MaxFaults = 1
INVARIANTS SupportedIsSnapshot UntouchedIsExact NothingMissing
PROPERTY Returns
CHECK_DEADLOCK FALSE
