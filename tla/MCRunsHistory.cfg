\* One worker, long histories: failures and retries, several bundles and keys.
CONSTANTS
  w1 = w1  w2 = w2
  t1 = t1  t2 = t2
  o1 = o1  o2 = o2
  r1 = r1  r2 = r2  r3 = r3
  k1 = k1  k2 = k2
  good = good  clean = clean  other = other  broken = broken
  NoRun = NoRun
  Reasons = {"stale"}
  Fits <- AllFits
  Tenants = {t1}
  Opportunities = {o1}
  OwnerOf <- OneOwner
  RunIds = {r1, r2}
  Workers = {w1}
  Keys = {k1, k2}
  Bundles = {good, other, broken}
  Targets = {"RUNNING", "FAILED", "CANCELLED", "COMPLETED"}
  Versions = {1, 2, 3, 4}
  OutcomesOf <- Outcomes
SPECIFICATION Spec
INVARIANT CompletedOnlyByApproval
PROPERTY NothingRewritten
