--------------------------- MODULE EvidenceBundle ---------------------------
(***************************************************************************)
(* The reading of a submitted evidence bundle into a research case.  A     *)
(* bundle has the fields of the case, each of which may be Absent, or      *)
(* Malformed: not of the JSON type the reader wants.                       *)
(***************************************************************************)
EXTENDS CaseModel, SequencesExt

CONSTANTS Absent, Malformed,
          MAX_OBSERVATIONS, MAX_FX_RATES, MAX_SCENARIOS, MAX_COSTS_PER_SCENARIO,
          MAX_NOTES_PER_KIND, MAX_PRODUCT_ATTRIBUTES, MAX_SUPPLIER_IDENTITY_CLAIMS

Default(value, default) == IF value = Absent THEN default ELSE value

\* _object_list: an array within its limit.  A required one is never Absent.
ObjectList(value, maximum) ==
  value \notin {Absent, Malformed} /\ Len(value) <= maximum

TextList(value) ==
  /\ ObjectList(value, MAX_NOTES_PER_KIND)
  /\ \A i \in DOMAIN value : Required(value[i])

Attributes(value) ==
  value # Malformed /\ Cardinality(DOMAIN value) <= MAX_PRODUCT_ATTRIBUTES

Present(record, fields) == \A f \in fields : record[f] # Absent

\* The optional texts of an observation must be texts, but may be blank.
ObservationReadable(o) ==
  /\ Present(o, {"observation_id", "product_name", "unit_price", "quantity", "unit", "evidence"})
  /\ \A f \in {"supplier_name", "incoterm", "incoterm_named_place", "incoterm_version",
               "payment_terms", "payment_method", "quote_valid_until", "product_variant"} :
       o[f] # Malformed
  /\ Attributes(Default(o.product_attributes, <<>>))

ScenarioReadable(s) ==
  /\ ObjectList(s.costs, MAX_COSTS_PER_SCENARIO)
  /\ s.fx_rates = Absent \/ ObjectList(s.fx_rates, MAX_FX_RATES)
  /\ Present(s, {"name", "purchase_unit_price", "target_currency"})

\* A scenario takes the quantity and the rates of the bundle where it has none.
ParsedScenario(raw, s) ==
  LET fx_rates == Default(s.fx_rates, Default(raw.fx_rates, <<>>)) IN
  [s EXCEPT !.quantity = Default(@, raw.quantity),
            !.purchase_unit_price = Money(@),
            !.costs = [i \in DOMAIN s.costs |-> CostInput(s.costs[i])],
            !.fx_rates = [i \in DOMAIN fx_rates |-> FXRate(fx_rates[i])],
            !.purchase_price_multiplier = Default(@, <<1, 1>>),
            !.cost_multiplier = Default(@, <<1, 1>>),
            !.unexpected_cost_rate = Default(@, <<0, 1>>)]

\* Every field has a form that its reader takes.
BundleReadable(raw) ==
  /\ ObjectList(raw.observations, MAX_OBSERVATIONS)
  /\ \A i \in DOMAIN raw.observations : ObservationReadable(raw.observations[i])
  /\ ObjectList(Default(raw.supplier_identity_claims, <<>>), MAX_SUPPLIER_IDENTITY_CLAIMS)
  /\ ObjectList(Default(raw.fx_rates, <<>>), MAX_FX_RATES)
  /\ ObjectList(raw.scenarios, MAX_SCENARIOS)
  /\ \A i \in DOMAIN raw.scenarios : ScenarioReadable(raw.scenarios[i])
  /\ Present(raw, {"case_id", "product_name", "quantity", "destination"})
  /\ TextList(Default(raw.assumptions, <<>>)) /\ TextList(Default(raw.unknowns, <<>>))
  /\ Attributes(Default(raw.product_attributes, <<>>))

\* An observation with what it leaves out filled in.
ParsedObservation(o) ==
  Observation([o EXCEPT !.product_attributes = Default(@, <<>>),
                        !.market_layer = Default(@, "UNKNOWN"),
                        !.evidence.confidence = Default(@, "UNKNOWN")])

ParsedCase(raw) ==
  [case_id |-> raw.case_id, product_name |-> raw.product_name, quantity |-> raw.quantity,
   destination |-> raw.destination,
   observations |-> [i \in DOMAIN raw.observations |-> ParsedObservation(raw.observations[i])],
   supplier_identity_claims |-> Default(raw.supplier_identity_claims, <<>>),
   scenarios |-> [i \in DOMAIN raw.scenarios |-> ParsedScenario(raw, raw.scenarios[i])],
   assumptions |-> Default(raw.assumptions, <<>>), unknowns |-> Default(raw.unknowns, <<>>),
   product_attributes |-> Default(raw.product_attributes, <<>>)]

\* The constructors refuse what no case can hold.
RecordsAccepted(case) ==
  /\ \A i \in DOMAIN case.observations : ObservationAccepted(case.observations[i])
  /\ \A i \in DOMAIN case.supplier_identity_claims :
       ClaimAccepted(case.supplier_identity_claims[i])
  /\ \A i \in DOMAIN case.scenarios : ScenarioAccepted(case.scenarios[i])
  /\ CaseAccepted(case)

\* None where the reader raises, and the request ends with an answer of 422.
ParseEvidenceBundle(raw) ==
  IF ~BundleReadable(raw) THEN None
  ELSE IF RecordsAccepted(ParsedCase(raw)) THEN ParsedCase(raw) ELSE None

-----------------------------------------------------------------------------
(* What a bundle is apart from that: a field that is neither Absent nor,   *)
(* where the reader refuses that, Malformed is of its type, and the record *)
(* of an object has every field.                                           *)

Given(value) == value \notin {Absent, Malformed}

Array(value) == value \in Seq(ToSet(value))

Ratio == Int \X (Nat \ {0})

EvidenceShape(e) ==
  /\ DOMAIN e = {"classification", "source_name", "source_url", "retrieved_at", "raw_value",
                 "confidence"}
  /\ e.retrieved_at \in Int \cup {Naive}

MoneyShape(money) ==
  DOMAIN money = {"amount", "currency"} /\ money.amount \in Int \cup {NaN}

ObservationShape(o) ==
  /\ DOMAIN o = {"observation_id", "product_name", "product_variant", "supplier_name",
                 "unit_price", "quantity", "unit", "minimum_order_quantity", "incoterm",
                 "incoterm_named_place", "incoterm_version", "payment_terms", "payment_method",
                 "quote_valid_until", "lead_time_days", "product_attributes", "market_layer",
                 "evidence"}
  /\ o.observation_id # Absent => o.observation_id \in Nat
  /\ o.product_name # Absent => Array(o.product_name)
  /\ o.unit_price # Absent => MoneyShape(o.unit_price)
  /\ Given(o.product_attributes) => IsFiniteSet(DOMAIN o.product_attributes)
  /\ o.evidence # Absent => EvidenceShape(o.evidence)

RateShape(fx) ==
  /\ DOMAIN fx = {"base_currency", "quote_currency", "rate", "rate_type", "effective_at",
                  "evidence"}
  /\ fx.rate \in Ratio \cup {NaN}
  /\ EvidenceShape(fx.evidence)

RatesShape(rates) ==
  Given(rates) => Array(rates) /\ \A i \in DOMAIN rates : RateShape(rates[i])

CostShape(cost) ==
  DOMAIN cost = {"code", "money", "basis", "evidence_class"} /\ MoneyShape(cost.money)

ScenarioShape(s) ==
  /\ DOMAIN s = {"name", "quantity", "purchase_unit_price", "target_currency",
                 "purchase_price_multiplier", "cost_multiplier", "unexpected_cost_rate",
                 "costs", "fx_rates"}
  /\ s.quantity \in Int \cup {Absent}
  /\ s.purchase_unit_price # Absent => MoneyShape(s.purchase_unit_price)
  /\ {s.purchase_price_multiplier, s.cost_multiplier, s.unexpected_cost_rate}
       \subseteq Ratio \cup {Absent}
  /\ Given(s.costs) => Array(s.costs) /\ \A i \in DOMAIN s.costs : CostShape(s.costs[i])
  /\ RatesShape(s.fx_rates)

ClaimShape(claim) ==
  /\ DOMAIN claim = {"claim_id", "observation_id", "claimed_legal_name", "jurisdiction",
                     "registration_number", "evidence"}
  /\ EvidenceShape(claim.evidence)

BundleShape(raw) ==
  /\ raw.quantity \in Int \cup {Absent}
  /\ raw.product_name # Absent => Array(raw.product_name)
  /\ Given(raw.product_attributes) => IsFiniteSet(DOMAIN raw.product_attributes)
  /\ Given(raw.observations) =>
       Array(raw.observations) /\ \A i \in DOMAIN raw.observations : ObservationShape(raw.observations[i])
  /\ Given(raw.supplier_identity_claims) =>
       /\ Array(raw.supplier_identity_claims)
       /\ \A i \in DOMAIN raw.supplier_identity_claims : ClaimShape(raw.supplier_identity_claims[i])
  /\ Given(raw.scenarios) =>
       Array(raw.scenarios) /\ \A i \in DOMAIN raw.scenarios : ScenarioShape(raw.scenarios[i])
  /\ RatesShape(raw.fx_rates)
=============================================================================
