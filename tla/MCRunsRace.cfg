\* Two workers race on a run and its successors, with two keys and three uuids.
CONSTANTS
  w1 = w1  w2 = w2
  t1 = t1  t2 = t2
  o1 = o1  o2 = o2
  r1 = r1  r2 = r2  r3 = r3
  k1 = k1  k2 = k2
  good = good  clean = clean  other = other  broken = broken
  Tenants = {t1}
  Opportunities = {o1, o2}
  OwnerOf <- BothMine
  RunIds = {r1, r2, r3}
  NoRun = NoRun
  Workers = {w1, w2}
  Keys = {k1, k2}
  Bundles = {clean}
  Reasons = {"stale"}
  Targets = {"RUNNING", "CANCELLED"}
  Versions = {1, 2, 3}
  OutcomesOf <- Outcomes
  Fits <- AllFits
SPECIFICATION Spec
SYMMETRY Symmetry
CONSTRAINTS
  OneRoot
  FewChanges
INVARIANTS
  TypeOK
  ReportGatesStatus
  LedgerMatchesReports
  ReviewClosesRun
  SuccessorLineage
  AcknowledgedIsRecorded
  OneWinnerPerVersion
PROPERTY VersionedRuns
