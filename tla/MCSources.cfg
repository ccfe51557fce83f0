\* Three workers, results that collide and deadlock on source names, and clients
\* that send again what failed.
CONSTANTS
  w1 = w1  w2 = w2  w3 = w3
  Names = {"a", "b", "c", "d"}
  Jobs <- Crossing
  Workers = {w1, w2, w3}
  MaxCrashes = 1
SPECIFICATION FairSpec
INVARIANTS
  SourcesMatchResults
  NamesStayUnique
PROPERTY EveryResultPersisted
