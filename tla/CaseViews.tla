------------------------------ MODULE CaseViews ------------------------------
(***************************************************************************)
(* The projections that the report and the read side of the API share:     *)
(* each is a function of points taken from an evaluated case.  Sorting is  *)
(* layout and left out: a view is a record of sets, functions and counts.  *)
(***************************************************************************)
EXTENDS ValidationPolicy

CONSTANT ReferenceComponentCodes

Count(S, P(_)) == Quantify(S, P)

-----------------------------------------------------------------------------
\* Mutant: evidence of exactly the maximum age is stale already.
FreshnessStatusInclusive(age) ==
  IF age < -MaxFutureClockSkew THEN "FUTURE_DATED"
  ELSE IF age < 0 THEN "WITHIN_ALLOWED_FUTURE_CLOCK_SKEW"
  ELSE IF age >= MaxEvidenceAge THEN "STALE" ELSE "CURRENT"

\* How fresh evidence of an age is, the age being negative for one from the future.
FreshnessStatus(age) ==
  IF age < -MaxFutureClockSkew THEN "FUTURE_DATED"
  ELSE IF age < 0 THEN "WITHIN_ALLOWED_FUTURE_CLOCK_SKEW"
  ELSE IF age > MaxEvidenceAge THEN "STALE" ELSE "CURRENT"

\* usage is a function from the evidence used to the number of its uses.
EvidenceFreshness(usage, evaluated_at) ==
  LET items == [e \in DOMAIN usage |->
                  [age |-> evaluated_at - e.retrieved_at, usage_count |-> usage[e],
                   freshness_status |-> FreshnessStatus(evaluated_at - e.retrieved_at)]]
      with(status) == Count(DOMAIN items, LAMBDA e : items[e].freshness_status = status)
  IN  [status |-> IF items = <<>> THEN "NO_EVIDENCE"
                  ELSE IF with("FUTURE_DATED") > 0 THEN "FUTURE_DATED_EVIDENCE_RECORDED"
                  ELSE IF with("STALE") > 0 THEN "STALE_EVIDENCE_RECORDED"
                  ELSE "EVIDENCE_WITHIN_FRESHNESS_POLICY",
       items |-> items,
       counts |-> [s \in {"CURRENT", "WITHIN_ALLOWED_FUTURE_CLOCK_SKEW", "STALE",
                          "FUTURE_DATED"} |-> with(s)]]

-----------------------------------------------------------------------------
\* unknowns is a bag of notes.
DataGaps(issues, unknowns) ==
  LET errors == Count(issues, LAMBDA i : i.severity = "ERROR")
      warnings == Count(issues, LAMBDA i : i.severity = "WARNING")
  IN  [status |-> IF errors > 0 THEN "GAPS_REQUIRE_HUMAN_REVIEW"
                  ELSE IF warnings > 0 \/ DOMAIN unknowns # {} THEN "GAPS_REQUIRE_VERIFICATION"
                  ELSE "NO_RECORDED_GAPS",
       issue_count |-> errors + warnings, error_count |-> errors, warning_count |-> warnings,
       issues |-> issues, declared_unknowns |-> unknowns]

\* The code raises unless the score, the base cost and the counts are in range.
ExecutiveSummary(validation, base, candidates, gaps) ==
  [decision_status |->
     CASE validation.disposition = "NEEDS_HUMAN_REVIEW" -> "HUMAN_REVIEW_REQUIRED"
       [] validation.disposition = "NEEDS_VERIFICATION" -> "VERIFICATION_REQUIRED"
       [] validation.disposition = "PASSED" -> "COMMERCIAL_REVIEW_REQUIRED",
   supplier_candidate_status |->
     IF candidates = {} THEN "NO_RANKED_SUPPLIER_CANDIDATE"
     ELSE IF Cardinality(candidates) = 1 THEN "SINGLE_UNVERIFIED_CANDIDATE"
     ELSE "MULTIPLE_LEADING_UNVERIFIED_CANDIDATES",
   leading_supplier_candidates |-> candidates,
   base_landed_cost |-> [amount |-> base.per_unit, currency |-> base.target_currency],
   data_gap_status |-> gaps.status, data_gap_issue_count |-> gaps.issue_count,
   confidence_score |-> validation.confidence_score,
   confidence_label |-> validation.confidence_label]

\* The quoted price of a candidate, which the report does not print, is left out.
Candidate(o, ranking) ==
  [observation_id |-> o.observation_id, supplier_name |-> o.supplier_name,
   normalized |-> ranking.normalized_unit_price,
   total_score |-> ranking.total_score, source_url |-> o.evidence.source_url,
   evidence_classification |-> o.evidence.classification,
   evidence_confidence |-> o.evidence.confidence]

-----------------------------------------------------------------------------
\* Percentages are in hundredths of a percent, rounded as the code rounds them.
Percent(delta, base) == Rounded(10000 * delta, base)

Spread(a, b, c) == Max({a, b, c}) - Min({a, b, c})

\* points is a function from the names of the three scenarios to their cost.
Sensitivity(points) ==
  LET o == points["OPTIMISTIC"].per_unit
      b == points["BASE"].per_unit
      c == points["CONSERVATIVE"].per_unit
      basis == {<<points[n].quantity, points[n].target_currency>> : n \in DOMAIN points}
  IN  IF Cardinality(basis) # 1 THEN [status |-> "MIXED_BASIS"]
      ELSE IF b = 0 THEN [status |-> "ZERO_BASE", basis |-> basis, base |-> b,
                          deltas |-> <<o - b, c - b, Spread(o, b, c)>>]
      ELSE [status |-> "COMPARABLE", basis |-> basis, base |-> b,
            deltas |-> <<o - b, c - b, Spread(o, b, c)>>,
            percents |-> <<Percent(o - b, b), Percent(c - b, b), Percent(Spread(o, b, c), b)>>]

\* What a scenario records of the reference vocabulary; components is a set.
ScenarioCoverage(components) ==
  LET codes == {c.code : c \in components} IN
  [recorded |-> codes,
   recognized |-> ReferenceComponentCodes \cap codes,
   unrecorded |-> ReferenceComponentCodes \ codes,
   unclassified |-> codes \ ReferenceComponentCodes,
   zero |-> {c.code : c \in {d \in components : d.amount = 0}},
   by_class |-> [k \in EvidenceClass |-> Count(components, LAMBDA c : c.evidence_class = k)]]

-----------------------------------------------------------------------------
\* An observation without the price that was quoted, which none of these views tells.
Unpriced(o) == [field \in DOMAIN o \ {"unit_price"} |-> o[field]]

\* A point of these views joins an observation with its ranking.
Point(o, ranking) == [observation |-> Unpriced(o), ranking |-> ranking]

ObservationIdsOf(points) == {p.observation.observation_id : p \in points}

SupplierCoverage(points) ==
  LET offers(n) == {p \in points : p.observation.supplier_name = n}
      names == {p.observation.supplier_name : p \in points} \ {None}
  IN  [status |-> IF points = {} THEN "NO_SUPPLIER_OBSERVATIONS"
                  ELSE IF names = {} THEN "NO_IDENTIFIED_SUPPLIERS"
                  ELSE "SUPPLIER_EVIDENCE_COVERAGE",
       suppliers |->
         [n \in names |->
            [observation_ids |-> ObservationIdsOf(offers(n)),
             source_urls |-> {p.observation.evidence.source_url : p \in offers(n)},
             moq_count |-> Count(offers(n),
                                 LAMBDA p : p.observation.minimum_order_quantity # None),
             incoterm_count |-> Count(offers(n), LAMBDA p : p.observation.incoterm # None),
             rankable_count |-> Count(offers(n), LAMBDA p : p.ranking.rankable),
             unknown_factors |-> UNION {p.ranking.unknown_factors : p \in offers(n)}]],
       unidentified |-> ObservationIdsOf(offers(None))]

\* The offers of each declared code, and what they leave undeclared.
IncotermCoverage(observations) ==
  LET declared == {o \in observations : Visible(o.incoterm)}
      codes == {o.incoterm : o \in declared}
      of(code) == {o \in declared : o.incoterm = code}
      ids(S) == {o.observation_id : o \in S}
  IN  [status |-> IF observations = {} THEN "NO_PRICE_OBSERVATIONS"
                  ELSE IF codes = {} THEN "NO_DECLARED_INCOTERMS"
                  ELSE "OBSERVED_INCOTERM_COVERAGE",
       recognized |-> codes \cap KnownIncoterms,
       unrecognized |-> codes \ KnownIncoterms,
       groups |->
         [c \in codes |->
            [observation_ids |-> ids(of(c)),
             supplier_names |-> {n \in {o.supplier_name : o \in of(c)} : Visible(n)},
             source_urls |-> {o.evidence.source_url : o \in of(c)},
             named_place |-> Count(of(c), LAMBDA o : Visible(o.incoterm_named_place)),
             version |-> Count(of(c), LAMBDA o : Visible(o.incoterm_version)),
             complete |-> Count(of(c), LAMBDA o : /\ Visible(o.incoterm_named_place)
                                                  /\ Visible(o.incoterm_version))]],
       missing_incoterm |-> ids(observations \ declared),
       missing_named_place |-> ids({o \in declared : ~Visible(o.incoterm_named_place)}),
       missing_version |-> ids({o \in declared : ~Visible(o.incoterm_version)})]

RecordedCoreTermFields ==
  {"supplier_identity", "minimum_order_quantity", "product_specification", "incoterm",
   "incoterm_named_place", "incoterm_version", "payment_terms", "payment_method",
   "quote_valid_until", "lead_time_days"}

Declares(o, field) ==
  CASE field = "supplier_identity" -> Visible(o.supplier_name)
    [] field = "product_specification" ->
         Visible(o.product_variant) \/ DOMAIN o.product_attributes # {}
    [] field \in {"minimum_order_quantity", "quote_valid_until", "lead_time_days"} ->
         o[field] # None
    [] OTHER -> Visible(o[field])

OfferTermsCoverage(points) ==
  LET missing(o) == {f \in RecordedCoreTermFields : ~Declares(o, f)} IN
  [status |-> IF points = {} THEN "NO_OFFERS"
              ELSE IF \E p \in points : missing(p.observation) # {}
              THEN "RECORDED_CORE_TERM_GAPS" ELSE "RECORDED_CORE_TERMS_PRESENT",
   offers |-> {[observation_id |-> p.observation.observation_id,
                missing |-> missing(p.observation),
                supplier_name |-> Term(p.observation.supplier_name),
                rankable |-> p.ranking.rankable,
                unknown_factors |-> p.ranking.unknown_factors] : p \in points}]

-----------------------------------------------------------------------------
ProductKey(o) == <<o.product_name, o.product_variant, o.product_attributes>>

\* Anonymous offers are never in a series with another.
SeriesKey(p) ==
  <<IF Truthy(p.observation.supplier_name) THEN <<"supplier", p.observation.supplier_name>>
    ELSE <<"anonymous", p.observation.observation_id>>,
    ProductKey(p.observation), p.ranking.comparison_group>>

ByQuantity(p, q) ==
  \/ p.observation.quantity < q.observation.quantity
  \/ /\ p.observation.quantity = q.observation.quantity
     /\ p.observation.observation_id < q.observation.observation_id

\* The change of the normalised price from the point before, where both have one.
Change(series, i) ==
  IF i = 1 THEN None
  ELSE LET previous == series[i - 1].ranking.normalized_unit_price
           amount == series[i].ranking.normalized_unit_price
       IN  IF previous \in {None, 0} \/ amount = None THEN None
           ELSE Percent(amount - previous, previous)

QuantityAnalysis(requested_quantity, points) ==
  LET series(key) == SetToSortSeq({p \in points : SeriesKey(p) = key}, ByQuantity) IN
  [status |-> IF points = {} THEN "NO_OBSERVED_QUOTES"
              ELSE IF \A p \in points : p.ranking.normalized_unit_price = None
              THEN "NO_COMPARABLE_PRICES" ELSE "OBSERVED_QUOTES_ONLY",
   requested_quantity |-> requested_quantity,
   series |-> {[i \in DOMAIN series(key) |->
                  [observation_id |-> series(key)[i].observation.observation_id,
                   eligible |-> series(key)[i].ranking.eligible_for_quantity,
                   normalized |-> series(key)[i].ranking.normalized_unit_price,
                   change |-> Change(series(key), i)]] :
                 key \in {SeriesKey(p) : p \in points}}]

DistributionKey(p) ==
  <<ProductKey(p.observation), p.observation.market_layer, p.ranking.comparison_group,
    p.observation.quantity>>

\* The statistics of each set of comparable prices.  Normalised prices are whole cents,
\* so that the mean of two of them needs no rounding.
PriceDistribution(points) ==
  LET comparable == {p \in points : p.ranking.normalized_unit_price # None}
      amount(p) == p.ranking.normalized_unit_price
      sorted(key) == SortSeq(SetToSeq({<<p.observation.observation_id, amount(p)>> :
                                         p \in {q \in comparable : DistributionKey(q) = key}}),
                             LAMBDA a, b : a[2] < b[2])
      prices(key) == [i \in DOMAIN sorted(key) |-> sorted(key)[i][2]]
  IN  [status |-> IF points = {} THEN "NO_OBSERVED_PRICES"
                  ELSE IF comparable = {} THEN "NO_COMPARABLE_PRICES"
                  ELSE "OBSERVED_DISTRIBUTIONS",
       groups |-> [key \in {DistributionKey(p) : p \in comparable} |->
                     [observation_ids |-> {s[1] : s \in ToSet(sorted(key))},
                      minimum |-> prices(key)[1], median |-> TwiceMedian(prices(key)) \div 2,
                      maximum |-> Last(prices(key)),
                      source_urls |-> {p.observation.evidence.source_url :
                                         p \in {q \in comparable : DistributionKey(q) = key}}]],
       excluded |-> ObservationIdsOf(points \ comparable)]

IdentityClaimItem(claim, o) ==
  [claim_id |-> claim.claim_id, observation_id |-> claim.observation_id,
   quoted_supplier_name |-> o.supplier_name, claimed_legal_name |-> claim.claimed_legal_name,
   evidence |-> claim.evidence, review_status |-> "UNREVIEWED"]

IdentityClaims(items) ==
  [status |-> IF items = {} THEN "NO_SUPPLIER_IDENTITY_CLAIMS"
              ELSE IF \E i \in items : i.review_status = "UNREVIEWED"
              THEN "UNREVIEWED_IDENTITY_CLAIMS" ELSE "REVIEWED_IDENTITY_CLAIMS",
   claim_count |-> Cardinality(items), claims |-> items]
=============================================================================
