\* Two threads: misses at once, expiry, failures, health reads.
CONSTANTS
  p1 = p1  p2 = p2  p3 = p3
  Threads = {p1, p2}
  Currencies = {"USD", "GBP"}
  TTL = 2
  MaxAttempts = 2
  MaxTime = 4
  MaxRequests = 4
SPECIFICATION FairSpec
INVARIANTS
  ServedFresh
  NoStampede
  SnapshotTellsLastOutcome
PROPERTY FetchEnds
