-------------------------- MODULE SupplierRanking --------------------------
(***************************************************************************)
(* The ranking of the offers of a case: who is rankable, the points of     *)
(* each offer, and the competition ranks inside each comparison group.     *)
(***************************************************************************)
EXTENDS LandedCost, ProductMatching

ConfidencePoints ==
  [c \in Confidence |-> CASE c = "HIGH" -> 10 [] c = "MEDIUM" -> 7
                          [] c = "LOW" -> 3 [] c = "UNKNOWN" -> 0]

EvidenceClassPoints ==
  [c \in EvidenceClass |-> CASE c = "FACT" -> 10 [] c = "ESTIMATE" -> 6
                             [] c = "ASSUMPTION" -> 2 [] c = "DERIVED_CALCULATION" -> 5
                             [] c = "AI_INFERENCE" -> 1]

Eligible(case, o) ==
  o.minimum_order_quantity = None \/ case.quantity >= o.minimum_order_quantity

QuantityScore(case, o) ==
  LET points == IF o.quantity = case.quantity THEN 10
                ELSE IF o.quantity < case.quantity THEN 8 ELSE 5
  IN  IF ~Eligible(case, o) THEN 0
      ELSE IF o.minimum_order_quantity = None THEN Least(points, 7) ELSE points

Points(condition, n) == IF condition THEN n ELSE 0

TermsScore(o) ==
    Points(Truthy(o.supplier_name), 4)
  + Points(Truthy(o.incoterm), 1)
  + Points(Truthy(o.incoterm_named_place), 1)
  + Points(Truthy(o.incoterm_version), 1)
  + Points(o.minimum_order_quantity # None, 2)
  + Points(Truthy(o.product_variant) \/ DOMAIN o.product_attributes # {}, 1)

\* The price of an offer in the currency of the BASE scenario.
NormalizedPrice(case, o) ==
  LET base == Scenario(case, "BASE")
  IN  Converted(o.unit_price, Target(base), base.fx_rates)

UnknownFactors(case, o) ==
  {"supplier_reliability", "certifications"} \cup
  {f \in {"minimum_order_quantity", "quote_valid_until", "lead_time_days"} : o[f] = None} \cup
  {f \in {"incoterm", "incoterm_named_place", "incoterm_version", "payment_terms",
          "payment_method"} : ~Truthy(o[f])} \cup
  (IF Truthy(o.supplier_name) THEN {} ELSE {"supplier_identity"}) \cup
  (IF NormalizedPrice(case, o) = None THEN {"comparable_fx_rate"} ELSE {})

Rankable(case, o, match) ==
  LET price == NormalizedPrice(case, o) IN
  /\ Eligible(case, o) /\ Truthy(o.supplier_name)
  /\ price # None /\ price > 0
  /\ match.classification # "SUBSTITUTE" /\ match.conflicting_attributes = {}

\* The ranking of an offer as far as it does not depend on the other offers.
Draft(case, o, match) ==
  LET price == NormalizedPrice(case, o) IN
  [observation_id |-> o.observation_id,
   supplier_name |-> o.supplier_name,
   comparison_group |-> <<o.unit, Target(Scenario(case, "BASE"))>>,
   eligible_for_quantity |-> Eligible(case, o),
   rankable |-> Rankable(case, o, match),
   normalized_unit_price |-> price,
   total_score |-> Rounded(35 * match.score, 100)
                     + ConfidencePoints[o.evidence.confidence]
                     + EvidenceClassPoints[o.evidence.classification]
                     + QuantityScore(case, o) + TermsScore(o),
   rank |-> None,
   unknown_factors |-> UnknownFactors(case, o)]

Drafts(case, matches) ==
  [i \in DOMAIN case.observations |-> Draft(case, case.observations[i], matches[i])]

\* Observations have distinct ids, so that a set holds every offer of a group once.
GroupOf(drafts, comparison_group) ==
  {d \in ToSet(drafts) : d.rankable /\ d.comparison_group = comparison_group}

LowestPrice(group) == Min({d.normalized_unit_price : d \in group})

PricePoints(group, draft) ==
  IF Cardinality(group) = 1 THEN 12
  ELSE Rounded(25 * LowestPrice(group), draft.normalized_unit_price)

Scored(group) == {[d EXCEPT !.total_score = @ + PricePoints(group, d)] : d \in group}

\* Best score first, then the lower price, then the smaller id.
Ahead(a, b) ==
  \/ a.total_score > b.total_score
  \/ /\ a.total_score = b.total_score
     /\ \/ a.normalized_unit_price < b.normalized_unit_price
        \/ /\ a.normalized_unit_price = b.normalized_unit_price
           /\ a.observation_id < b.observation_id

\* The group as it is sorted.
Ordered(group) ==
  CHOOSE seq \in [1..Cardinality(group) -> group] :
    \A i, j \in DOMAIN seq : i < j => Ahead(seq[i], seq[j])

SamePlace(a, b) ==
  /\ a.total_score = b.total_score
  /\ a.normalized_unit_price = b.normalized_unit_price

\* Mutant: a tie does not use up the next rank.
DenselyRanked(group) ==
  LET ordered == Ordered(Scored(group))
      rank[i \in DOMAIN ordered] ==
        IF i = 1 THEN 1
        ELSE IF SamePlace(ordered[i], ordered[i - 1]) THEN rank[i - 1] ELSE rank[i - 1] + 1
  IN  {[ordered[i] EXCEPT !.rank = rank[i]] : i \in DOMAIN ordered}

\* The group in order; an offer ties with the one before it or takes its position.
Ranked(group) ==
  LET ordered == Ordered(Scored(group))
      rank[i \in DOMAIN ordered] ==
        IF i > 1 /\ SamePlace(ordered[i], ordered[i - 1]) THEN rank[i - 1] ELSE i
  IN  {[ordered[i] EXCEPT !.rank = rank[i]] : i \in DOMAIN ordered}

\* The rankings of all offers, as the set of their records.
RankSupplierOffers(case, matches) ==
  LET drafts == Drafts(case, matches) IN
  {d \in ToSet(drafts) : ~d.rankable} \cup
  UNION {Ranked(GroupOf(drafts, g)) : g \in {d.comparison_group : d \in ToSet(drafts)}}
=============================================================================
