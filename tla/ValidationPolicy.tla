-------------------------- MODULE ValidationPolicy --------------------------
(***************************************************************************)
(* The validation of a case, in its three stages: the evidence, then the   *)
(* product matches, then the supplier rankings.  Each stage adds issues;   *)
(* the disposition and the confidence follow from all of them.             *)
(*                                                                         *)
(* An issue is known by its code and its subject, so that the issues of a  *)
(* case are a set; a subject is a tuple that begins with its type.         *)
(***************************************************************************)
EXTENDS SupplierRanking

CONSTANT KnownIncoterms  \* INCOTERMS_2020_CODES

MaxEvidenceAge == 30 * 24 * 3600

MaxFutureClockSkew == 5 * 60

OutlierFactor == 3

Warning(code, subject) == [code |-> code, severity |-> "WARNING", subject |-> subject]

Error(code, subject) == [code |-> code, severity |-> "ERROR", subject |-> subject]

If(condition, issue) == IF condition THEN {issue} ELSE {}

PriceSubject(o) == <<"PRICE_OBSERVATION", o.observation_id>>

ClaimSubject(claim) == <<"SUPPLIER_IDENTITY_CLAIM", claim.claim_id>>

CaseSubject(case) == <<"RESEARCH_CASE", case.case_id>>

Normal(text) == IF Visible(text) THEN Folded(text) ELSE ""

\* Two observations with the same fingerprint are the same offer, sent twice.
ObservationFingerprint(o) ==
  <<o.product_name, Normal(o.product_variant), Normal(o.supplier_name), o.unit_price,
    o.quantity, o.unit, o.minimum_order_quantity, Normal(o.incoterm),
    Normal(o.incoterm_named_place), Normal(o.incoterm_version), Normal(o.payment_terms),
    Normal(o.payment_method), o.quote_valid_until, o.lead_time_days, Folded(o.market_layer),
    o.evidence.source_url, o.evidence.retrieved_at, o.evidence.raw_value>>

Retained(observations) ==
  FoldLeft(LAMBDA kept, o :
             IF \E i \in DOMAIN kept : ObservationFingerprint(kept[i]) = ObservationFingerprint(o)
               THEN kept ELSE Append(kept, o),
           <<>>, observations)

RetainedClaims(claims, observations) ==
  FoldLeft(LAMBDA kept, c :
             IF c.observation_id \in ObservationIds(observations) THEN Append(kept, c) ELSE kept,
           <<>>, claims)

\* The case without the duplicates and the claims about them.
CleanCase(case) ==
  LET observations == Retained(case.observations) IN
  [case EXCEPT !.observations = observations,
               !.supplier_identity_claims = RetainedClaims(@, observations)]

EvidenceIssues(e, subject, evaluated_at) ==
  LET age == evaluated_at - e.retrieved_at IN
  If(age > MaxEvidenceAge, Warning("STALE_EVIDENCE", subject)) \cup
  If(age < -MaxFutureClockSkew, Error("FUTURE_DATED_EVIDENCE", subject)) \cup
  If(e.confidence \in {"LOW", "UNKNOWN"}, Warning("LOW_EVIDENCE_CONFIDENCE", subject)) \cup
  If(e.classification \in {"ASSUMPTION", "AI_INFERENCE"}, Warning("NON_FACT_EVIDENCE", subject))

IncotermFields == {"incoterm", "incoterm_named_place", "incoterm_version"}

ObservationIssues(o, evaluated_at) ==
  If(o.unit_price.amount = 0, Error("ZERO_PRICE", PriceSubject(o))) \cup
  If(o.incoterm # None /\ o.incoterm \notin KnownIncoterms,
     Warning("UNKNOWN_INCOTERM", PriceSubject(o))) \cup
  If((\E f \in IncotermFields : o[f] # None) /\ (\E f \in IncotermFields : o[f] = None),
     Warning("INCOMPLETE_INCOTERM_TERMS", PriceSubject(o))) \cup
  If(o.quote_valid_until # None /\ o.quote_valid_until < evaluated_at,
     Warning("QUOTE_VALIDITY_EXPIRED", PriceSubject(o))) \cup
  EvidenceIssues(o.evidence, PriceSubject(o), evaluated_at)

ClaimIssues(claim, evaluated_at) ==
  EvidenceIssues(claim.evidence, ClaimSubject(claim), evaluated_at) \cup
  {Warning("SUPPLIER_IDENTITY_CLAIM_REQUIRES_REVIEW", ClaimSubject(claim))}

\* What the duplicates leave behind, and what the retained ones are as a whole.
DuplicateIssues(case, clean) ==
  {Warning("DUPLICATE_PRICE_OBSERVATION", PriceSubject(o)) :
     o \in ToSet(case.observations) \ ToSet(clean.observations)} \cup
  {Error("IDENTITY_CLAIM_FOR_EXCLUDED_OBSERVATION", ClaimSubject(c)) :
     c \in ToSet(case.supplier_identity_claims) \ ToSet(clean.supplier_identity_claims)} \cup
  If(clean.observations = <<>>, Error("NO_PRICE_OBSERVATIONS", CaseSubject(case))) \cup
  If(Cardinality({o.unit : o \in ToSet(clean.observations)}) > 1,
     Warning("MIXED_PRICE_UNITS", CaseSubject(case))) \cup
  If(/\ clean.observations # <<>>
     /\ \A o \in ToSet(clean.observations) : ~Eligible(case, o),
     Error("NO_QUANTITY_ELIGIBLE_PRICE", CaseSubject(case)))

\* Twice the median, so that the mean of the two middle prices is an integer.
TwiceMedian(prices) ==
  LET sorted == SortSeq(prices, <)
      n == Len(sorted)
  IN  sorted[(n + 1) \div 2] + sorted[n \div 2 + 1]

\* The observations comparable to o as they are quoted, with a positive price.
PriceGroup(observations, o) ==
  SelectSeq(observations, LAMBDA p : /\ p.unit_price.currency = o.unit_price.currency
                                     /\ p.unit = o.unit /\ p.unit_price.amount > 0)

Outlier(observations, o) ==
  LET group == PriceGroup(observations, o)
      twice == TwiceMedian([i \in DOMAIN group |-> group[i].unit_price.amount])
      amount == o.unit_price.amount
  IN  /\ amount > 0 /\ Len(group) >= 3
      /\ 2 * amount > OutlierFactor * twice \/ 2 * amount * OutlierFactor < twice

OutlierIssues(observations) ==
  {Warning("PRICE_OUTLIER", PriceSubject(o)) :
     o \in {p \in ToSet(observations) : Outlier(observations, p)}}

ScenarioIssues(case, clean, s) ==
  LET subject == <<"SCENARIO", s.name>>
      backed == {o.unit_price : o \in {p \in ToSet(clean.observations) : Eligible(case, p)}}
  IN  If(s.quantity # case.quantity, Error("SCENARIO_QUANTITY_MISMATCH", subject)) \cup
      If(s.purchase_unit_price \notin backed, Warning("UNBACKED_PURCHASE_PRICE", subject)) \cup
      If(\E cost \in ToSet(s.costs) : cost.evidence_class \in {"ASSUMPTION", "AI_INFERENCE"},
         Warning("ASSUMED_COST_COMPONENTS", subject))

\* A rate that several scenarios share is one subject, with their names.
FXSubject(case, fx) ==
  <<"FX_RATE", {s.name : s \in {t \in ToSet(case.scenarios) : fx \in ToSet(t.fx_rates)}},
    fx.base_currency, fx.quote_currency, fx.rate, fx.rate_type, fx.effective_at>>

FXIssues(case, evaluated_at) ==
  UNION {EvidenceIssues(fx.evidence, FXSubject(case, fx), evaluated_at) :
           fx \in UNION {ToSet(s.fx_rates) : s \in ToSet(case.scenarios)}}

CaseIssues(case, evaluated_at) ==
  LET clean == CleanCase(case) IN
  DuplicateIssues(case, clean) \cup
  (UNION {ObservationIssues(o, evaluated_at) : o \in ToSet(clean.observations)}) \cup
  (UNION {ClaimIssues(c, evaluated_at) : c \in ToSet(clean.supplier_identity_claims)}) \cup
  OutlierIssues(clean.observations) \cup
  (UNION {ScenarioIssues(case, clean, s) : s \in ToSet(case.scenarios)}) \cup
  FXIssues(case, evaluated_at) \cup
  If(case.unknowns # <<>>, Warning("DECLARED_UNKNOWNS", CaseSubject(case)))

MatchIssues(match) ==
  LET subject == <<"PRICE_OBSERVATION", match.observation_id>> IN
  If(match.conflicting_attributes # {}, Error("PRODUCT_ATTRIBUTE_CONFLICT", subject)) \cup
  If(/\ match.conflicting_attributes = {} /\ match.missing_attributes # {}
     /\ match.classification = "EXACT_PRODUCT",
     Warning("UNVERIFIED_PRODUCT_VARIANT", subject)) \cup
  If(match.classification = "COMPARABLE", Warning("COMPARABLE_PRODUCT_PRICE", subject)) \cup
  If(match.classification = "SIMILAR", Warning("SIMILAR_PRODUCT_PRICE", subject)) \cup
  If(match.classification = "SUBSTITUTE", Error("SUBSTITUTE_PRODUCT_PRICE", subject))

\* Mutant: only an offer without any name at all lacks the identity of its supplier.
RankingIssuesForNone(ranking) ==
  LET subject == <<"PRICE_OBSERVATION", ranking.observation_id>> IN
  If(ranking.supplier_name = None, Error("MISSING_SUPPLIER_IDENTITY", subject)) \cup
  If(ranking.supplier_name # None,
     Warning("SUPPLIER_DUE_DILIGENCE_REQUIRED", <<"SUPPLIER", ranking.supplier_name>>)) \cup
  If(~ranking.eligible_for_quantity, Warning("OFFER_BELOW_MINIMUM_ORDER", subject)) \cup
  If(ranking.normalized_unit_price = None, Error("UNCONVERTIBLE_OFFER_PRICE", subject))

\* Mutant: an offer that was compared with others needs no due diligence.
RankingIssuesTrusting(ranking) ==
  LET subject == <<"PRICE_OBSERVATION", ranking.observation_id>> IN
  If(~Truthy(ranking.supplier_name), Error("MISSING_SUPPLIER_IDENTITY", subject)) \cup
  If(~ranking.eligible_for_quantity, Warning("OFFER_BELOW_MINIMUM_ORDER", subject)) \cup
  If(ranking.normalized_unit_price = None, Error("UNCONVERTIBLE_OFFER_PRICE", subject))

\* The issues of one ranking; due diligence is asked for once per supplier name.
RankingIssues(ranking) ==
  LET subject == <<"PRICE_OBSERVATION", ranking.observation_id>> IN
  If(~Truthy(ranking.supplier_name), Error("MISSING_SUPPLIER_IDENTITY", subject)) \cup
  If(Truthy(ranking.supplier_name),
     Warning("SUPPLIER_DUE_DILIGENCE_REQUIRED", <<"SUPPLIER", ranking.supplier_name>>)) \cup
  If(~ranking.eligible_for_quantity, Warning("OFFER_BELOW_MINIMUM_ORDER", subject)) \cup
  If(ranking.normalized_unit_price = None, Error("UNCONVERTIBLE_OFFER_PRICE", subject))

GroupIssues(rankings) ==
  LET comparable(g) == {r \in rankings : r.comparison_group = g /\ r.rankable} IN
  {Warning("INSUFFICIENT_SUPPLIER_COMPARISON", <<"SUPPLIER_COMPARISON_GROUP", g>>) :
     g \in {h \in {r.comparison_group : r \in rankings} : Cardinality(comparable(h)) < 2}}

HasError(issues) == \E issue \in issues : issue.severity = "ERROR"

Disposition(issues) ==
  IF HasError(issues) THEN "NEEDS_HUMAN_REVIEW"
  ELSE IF issues # {} THEN "NEEDS_VERIFICATION" ELSE "PASSED"

\* How much a disposition asks for; the properties compare dispositions by it.
Severity(disposition) ==
  CASE disposition = "PASSED" -> 0
    [] disposition = "NEEDS_VERIFICATION" -> 1
    [] disposition = "NEEDS_HUMAN_REVIEW" -> 2

ConfidenceScore(issues) ==
  LET penalty == 30 * Quantify(issues, LAMBDA i : i.severity = "ERROR")
                   + 10 * Quantify(issues, LAMBDA i : i.severity = "WARNING")
  IN  IF penalty >= 100 THEN 0 ELSE 100 - penalty

ConfidenceLabel(score) ==
  IF score >= 80 THEN "HIGH" ELSE IF score >= 60 THEN "MEDIUM"
  ELSE IF score > 0 THEN "LOW" ELSE "UNKNOWN"

Validation(issues, evaluated_at) ==
  [evaluated_at |-> evaluated_at, disposition |-> Disposition(issues),
   confidence_score |-> ConfidenceScore(issues),
   confidence_label |-> ConfidenceLabel(ConfidenceScore(issues)), issues |-> issues]

\* The three stages.
ValidateResearchCase(case, evaluated_at) == Validation(CaseIssues(case, evaluated_at), evaluated_at)

ValidateProductMatches(validation, matches) ==
  Validation(validation.issues \cup UNION {MatchIssues(m) : m \in ToSet(matches)},
             validation.evaluated_at)

\* Mutant: the last stage starts over.
ValidateSupplierRankingsAnew(validation, rankings) ==
  Validation(GroupIssues(rankings) \cup UNION {RankingIssues(r) : r \in rankings},
             validation.evaluated_at)

ValidateSupplierRankings(validation, rankings) ==
  Validation(validation.issues \cup GroupIssues(rankings)
               \cup UNION {RankingIssues(r) : r \in rankings}, validation.evaluated_at)
=============================================================================
