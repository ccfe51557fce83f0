----------------------------- MODULE CaseModel -----------------------------
(***************************************************************************)
(* The records a research case is made of, with the conditions their       *)
(* constructors insist on.                                                 *)
(*                                                                         *)
(* A text is a string; "" and " " stand for the texts that strip to        *)
(* nothing.  A product name is the sequence of its normalised words, and   *)
(* the id of an observation or of a claim is a natural number, 0 the blank *)
(* one.  Amounts and rates are those of Decimals, times are seconds.       *)
(***************************************************************************)
EXTENDS Decimals, Sequences, FiniteSets

CONSTANTS None,          \* Python's None
          NaN,           \* an amount or a rate that is not finite
          Naive,         \* a timestamp without a timezone
          HttpUrls,      \* the texts that begin with http:// or https://
          CurrencyCodes, \* the three-letter codes
          ThreeCharacters, \* the texts of three characters, whatever they are
          UnsafeTexts,   \* longer than its field, or with control characters
          Folded(_),     \* case-folding of a text
          Upper(_)       \* upper-casing of a text

EvidenceClass == {"FACT", "ESTIMATE", "ASSUMPTION", "DERIVED_CALCULATION", "AI_INFERENCE"}

Confidence == {"HIGH", "MEDIUM", "LOW", "UNKNOWN"}

ScenarioName == {"OPTIMISTIC", "BASE", "CONSERVATIVE"}

ProductMatchClass == {"EXACT_PRODUCT", "EXACT_VARIANT", "COMPARABLE", "SIMILAR", "SUBSTITUTE"}

\* What Python takes for true: neither None nor the empty text.
Truthy(text) == text \notin {None, ""}

\* Something is left of the text when it is stripped.
Visible(text) == text \notin {None, "", " "}

\* An optional term as the constructor stores it: a blank one is none at all.
Term(text) == IF Visible(text) THEN text ELSE None

Safe(text) == text \notin UnsafeTexts

Required(text) == Visible(text) /\ Safe(text)

OptionalPositive(n) == n = None \/ n > 0

EvidenceAccepted(e) ==
  /\ e.classification \in EvidenceClass
  /\ e.confidence \in Confidence
  /\ e.retrieved_at # Naive
  /\ Visible(e.source_name)
  /\ e.source_url \in HttpUrls
  /\ Visible(e.raw_value)

\* Codes are stored in upper case.
Money(money) == [money EXCEPT !.currency = Upper(@)]

MoneyAccepted(money) == money.amount # NaN /\ money.currency \in CurrencyCodes

AttributesAccepted(attributes) ==
  \A k \in DOMAIN attributes : Visible(k) /\ Visible(attributes[k])

ObservationAccepted(o) ==
  /\ o.observation_id # 0
  /\ o.product_name # <<>>
  /\ o.quantity > 0
  /\ MoneyAccepted(o.unit_price) /\ o.unit_price.amount >= 0
  /\ OptionalPositive(o.minimum_order_quantity)
  /\ OptionalPositive(o.lead_time_days)
  /\ Required(o.unit)
  /\ \A text \in {o.incoterm, o.incoterm_named_place, o.incoterm_version,
                  o.payment_terms, o.payment_method} : Safe(text)
  /\ o.quote_valid_until # Naive
  /\ AttributesAccepted(o.product_attributes)
  /\ EvidenceAccepted(o.evidence)

\* The constructor strips the optional terms of an offer, but not the supplier.
Observation(o) ==
  [o EXCEPT !.unit_price = Money(@), !.unit = Upper(@),
            !.incoterm = IF Visible(@) THEN Upper(@) ELSE None, !.incoterm_named_place = Term(@),
            !.incoterm_version = Term(@), !.payment_terms = Term(@),
            !.payment_method = Term(@)]

ClaimAccepted(claim) ==
  /\ claim.claim_id # 0 /\ claim.observation_id # 0
  /\ \A text \in {claim.claimed_legal_name, claim.jurisdiction, claim.registration_number} :
       Required(text)
  /\ EvidenceAccepted(claim.evidence)

FXRate(fx) == [fx EXCEPT !.base_currency = Upper(@), !.quote_currency = Upper(@)]

RateAccepted(fx) ==
  /\ {fx.base_currency, fx.quote_currency} \subseteq ThreeCharacters
  /\ fx.rate # NaN /\ fx.rate[1] > 0
  /\ fx.effective_at # Naive
  /\ EvidenceAccepted(fx.evidence)

CostAccepted(cost) ==
  /\ MoneyAccepted(cost.money) /\ cost.money.amount >= 0
  /\ cost.basis \in {"TOTAL", "PER_UNIT"}
  /\ cost.evidence_class \in EvidenceClass

CostInput(cost) == [cost EXCEPT !.money = Money(@)]

ScenarioAccepted(s) ==
  /\ s.name \in ScenarioName
  /\ s.quantity > 0
  /\ MoneyAccepted(s.purchase_unit_price)
  /\ s.purchase_price_multiplier[1] > 0 /\ s.cost_multiplier[1] > 0
  /\ 0 <= s.unexpected_cost_rate[1] /\ s.unexpected_cost_rate[1] <= s.unexpected_cost_rate[2]
  /\ \A i \in DOMAIN s.costs : CostAccepted(s.costs[i])
  /\ \A i \in DOMAIN s.fx_rates : RateAccepted(s.fx_rates[i])

\* No two elements of the sequence have the same value under f.
Distinct(seq, f(_)) == \A i, j \in DOMAIN seq : i # j => f(seq[i]) # f(seq[j])

ObservationIds(observations) == {observations[i].observation_id : i \in DOMAIN observations}

CaseAccepted(case) ==
  /\ Visible(case.case_id) /\ case.product_name # <<>> /\ Visible(case.destination)
  /\ case.quantity > 0
  /\ case.scenarios # <<>>
  /\ Distinct(case.observations, LAMBDA o : o.observation_id)
  /\ Distinct(case.supplier_identity_claims, LAMBDA c : c.claim_id)
  /\ \A i \in DOMAIN case.supplier_identity_claims :
       case.supplier_identity_claims[i].observation_id \in ObservationIds(case.observations)
  /\ AttributesAccepted(case.product_attributes)

Scenario(case, name) ==
  case.scenarios[CHOOSE i \in DOMAIN case.scenarios : case.scenarios[i].name = name]
=============================================================================
