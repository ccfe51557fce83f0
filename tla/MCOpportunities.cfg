\* Two workers race on one opportunity: stage changes against context updates, for
\* its tenant and for another one.
CONSTANTS
  w1 = w1  w2 = w2
  Tenants = {"acme", "globex"}
  OpportunityIds = {"o1"}
  Workers = {w1, w2}
  Fields = {"next_action", "notes"}
  Values = {"call"}
  NoValue = NoValue
  Targets = {"SOURCING", "LOST"}
  Versions = {1, 2}
SPECIFICATION Spec
SYMMETRY WorkerSymmetry
INVARIANTS
  OneWinnerPerVersion
  AcknowledgedStays
PROPERTIES
  VersionedOpportunities
  StepsTouchWhatTheyRecord
