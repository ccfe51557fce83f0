\* Two reviewers race on three claims of two runs while a client walks the queue
\* page by page.
CONSTANTS
  w1 = w1  w2 = w2
  Tenants = {"acme"}
  RunIds = {"r1", "r2"}
  TenantOf <- OneTenant
  Claims = {1, 2, 3}
  RunOf <- Alternating
  Workers = {w1, w2}
  Versions = {0, 1}
  Decisions = {"INCONCLUSIVE"}
  Filters = {{"UNREVIEWED"}, {"UNREVIEWED", "INCONCLUSIVE"}}
  Limit = 1
  Watched = 2
SPECIFICATION Spec
SYMMETRY WorkerSymmetry
INVARIANTS
  LedgerIsAChain
  WalkNeverRepeats
  WalkMissesNothingSteady
PROPERTY VersionedClaim
