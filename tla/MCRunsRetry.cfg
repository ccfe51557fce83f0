\* Two workers are given the same result twice.
CONSTANTS
  w1 = w1  w2 = w2
  t1 = t1  t2 = t2
  o1 = o1  o2 = o2
  r1 = r1  r2 = r2  r3 = r3
  k1 = k1  k2 = k2
  good = good  clean = clean  other = other  broken = broken
  NoRun = NoRun
  Reasons = {"stale"}
  Fits <- AllFits
  Tenants = {t1}
  Opportunities = {o1}
  OwnerOf <- OneOwner
  RunIds = {r1}
  Workers = {w1, w2}
  Keys = {k1}
  Bundles = {clean}
  Targets = {"RUNNING"}
  Versions = {1, 2}
  OutcomesOf <- Outcomes
SPECIFICATION FairSpec
PROPERTY ExactRetryReplays
