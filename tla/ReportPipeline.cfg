SPECIFICATION Spec
CONSTANTS
  Reports = {"a1", "a2", "b", "d", "f"}
  Packages = {"A", "B", "D", "F"}
  NoReport = NoReport
  PackageOf <- MCPackageOf
  CoreOf <- MCCoreOf
  Needs <- MCNeeds
  Anchor <- MCAnchor
  C = 2
  E = 4
  H = 3
  U = 2
  MaxSlot = 7
  MaxCondemned = 1
INVARIANT PackageOnce
INVARIANT WaitsExactly
PROPERTY ReportedOnce
PROPERTY NoReportLost
PROPERTY CondemnedInTime
PROPERTY ImplementsLifecycle
CHECK_DEADLOCK FALSE
