\* The bundles whose offers differ in their names.
CONSTANTS
  None = None  NaN = NaN  Naive = Naive  Absent = Absent  Malformed = Malformed
  HttpUrls = {"https://a", "https://registry", "https://bank"}
  CurrencyCodes = {"USD", "EUR", "CNY", "GBP", "AED"}
  ThreeCharacters = {"USD", "EUR", "CNY", "GBP", "AED", "U1D"}
  UnsafeTexts = {"unsafe"}
  Folded <- Fold
  Upper <- Capitals
  Holds <- ColumnHolds
  Cent = 10
  AmountStep = 5
  RateScale = 100
  KnownIncoterms = {"FOB", "CIF"}
  ReferenceComponentCodes = {"product_cost", "freight", "duty", "unexpected_cost"}
  MAX_OBSERVATIONS = 3
  MAX_FX_RATES = 5
  MAX_SCENARIOS = 3
  MAX_COSTS_PER_SCENARIO = 2
  MAX_NOTES_PER_KIND = 2
  MAX_PRODUCT_ATTRIBUTES = 2
  MAX_SUPPLIER_IDENTITY_CLAIMS = 2
  Bundles <- OfferBundles
  Clock <- OneReading
  Opportunity <- Pipes
SPECIFICATION Spec
INVARIANT AnonymousNeverMerged
\* A run has one report: the evaluation of a stored result is over.
CHECK_DEADLOCK FALSE
