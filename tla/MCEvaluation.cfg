\* Every bundle of the families, evaluated at and just past every limit.
CONSTANTS
  None = None  NaN = NaN  Naive = Naive  Absent = Absent  Malformed = Malformed
  HttpUrls = {"https://a", "https://registry", "https://bank"}
  CurrencyCodes = {"USD", "EUR", "CNY", "GBP", "AED"}
  ThreeCharacters = {"USD", "EUR", "CNY", "GBP", "AED", "U1D"}
  UnsafeTexts = {"unsafe"}
  Folded <- Fold
  Upper <- Capitals
  Holds <- ColumnHolds
  Cent = 10
  AmountStep = 5
  RateScale = 100
  KnownIncoterms = {"FOB", "CIF"}
  ReferenceComponentCodes = {"product_cost", "freight", "duty", "unexpected_cost"}
  MAX_OBSERVATIONS = 3
  MAX_FX_RATES = 5
  MAX_SCENARIOS = 3
  MAX_COSTS_PER_SCENARIO = 2
  MAX_NOTES_PER_KIND = 2
  MAX_PRODUCT_ATTRIBUTES = 2
  MAX_SUPPLIER_IDENTITY_CLAIMS = 2
  Bundles <- AllBundles
  Clock <- TwoReadings
  Opportunity <- Pipes
SPECIFICATION Spec
INVARIANTS
  NeverPassesAlone
  UnrankedHasReason
  RankIsCompetition
  ConversionTakesShortestPath
  RoundingStaysClose
  DatabaseRefusesNothingElse
  CatalogExplainsFreshness
  ViewsAgreeWithValidation
  ReportTellsWhatIsStored
PROPERTY ConcernOnlyGrows
\* A run has one report: the evaluation of a stored result is over.
CHECK_DEADLOCK FALSE
