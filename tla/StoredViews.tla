----------------------------- MODULE StoredViews -----------------------------
(***************************************************************************)
(* The read side of the API for one run: what TradeRepository rebuilds     *)
(* from the rows of the run, by joining them over their keys.              *)
(***************************************************************************)
EXTENDS ResultTables

\* The row joined with its evidence.
Joined(rows, row) ==
  Extended(Without(row, "evidence_id"), "evidence", rows.evidence[row.evidence_id])

Observations(rows) == {Joined(rows, o) : o \in ToSet(rows.observations)}

\* What the views tell of the observations that do not tell their price.
Quoted(rows) == {Unpriced(o) : o \in Observations(rows)}

\* The offers: every observation joined with its ranking.
Offers(rows) ==
  UNION {{Point(o, r) : r \in {s \in rows.rankings : s.observation_id = o.observation_id}} :
           o \in Observations(rows)}

StoredDataGaps(rows) == DataGaps(rows.issues, rows.notes.unknowns)

StoredValidation(rows) == Extended(rows.validation, "issues", rows.issues)

ComponentsOf(rows, name) == {c \in ToSet(rows.components) : c.scenario = name}

ScenarioView(rows, s) ==
  Extended(s, "components", {Component(c.code, c.amount, c.evidence_class) :
                               c \in ComponentsOf(rows, s.name)})

ScenarioNamed(rows, name) == CHOOSE s \in ToSet(rows.scenarios) : s.name = name

StoredSensitivity(rows) ==
  Sensitivity([name \in ScenarioName |-> ScenarioNamed(rows, name)])

StoredLandedCost(rows) == {ScenarioView(rows, s) : s \in ToSet(rows.scenarios)}

StoredCostCoverage(rows) ==
  [name \in {s.name : s \in ToSet(rows.scenarios)} |->
     ScenarioCoverage(ComponentsOf(rows, name))]

StoredFXRates(rows) == {Joined(rows, r) : r \in ToSet(rows.fx_rates)}

-----------------------------------------------------------------------------
FXUsage(r) == <<r.scenario, r.base_currency, r.quote_currency, r.rate_type, r.effective_at>>

\* Who uses an evidence row; each usage names what stands on it.
Usages(rows, id) ==
  LET of(table) == {r \in ToSet(table) : r.evidence_id = id} IN
  {<<"PRICE_OBSERVATION", o.observation_id>> : o \in of(rows.observations)} \cup
  {<<"SUPPLIER_IDENTITY_CLAIM", c.claim_id>> : c \in of(rows.claims)} \cup
  {<<"FX_RATE", FXUsage(r)>> : r \in of(rows.fx_rates)}

EvidenceCatalog(rows) == [id \in DOMAIN rows.evidence |-> Usages(rows, id)]

UsesIn(table, id) == Cardinality({i \in DOMAIN table : table[i].evidence_id = id})

\* Mutant: the evidence of the identity claims is not counted.
UsageCountWithoutClaims(rows, id) ==
  UsesIn(rows.observations, id) + UsesIn(rows.fx_rates, id)

\* get_evidence_freshness counts the rows of three tables.
UsageCount(rows, id) ==
  UsesIn(rows.observations, id) + UsesIn(rows.claims, id) + UsesIn(rows.fx_rates, id)

StoredFreshness(rows) ==
  LET IdOf(e) == CHOOSE id \in DOMAIN rows.evidence : rows.evidence[id] = e IN
  EvidenceFreshness([e \in ToSet(rows.evidence) |-> UsageCount(rows, IdOf(e))],
                    rows.validation.evaluated_at)

-----------------------------------------------------------------------------
\* A line on an observed price.
PriceLine(o) ==
  [observation_id |-> o.observation_id, unit_price |-> o.unit_price, unit |-> o.unit,
   source_url |-> o.evidence.source_url, classification |-> o.evidence.classification,
   confidence |-> o.evidence.confidence]

StoredPrices(rows) ==
  {PriceLine(o) :
     o \in {q \in Observations(rows) :
             /\ \E m \in ToSet(rows.matches) : m.observation_id = q.observation_id
             /\ \E r \in rows.rankings : r.observation_id = q.observation_id}}

\* The review of a claim is kept elsewhere; without one it is UNREVIEWED.
StoredIdentityClaims(rows) ==
  IdentityClaims({IdentityClaimItem(Joined(rows, p[1]), p[2]) :
                    p \in {q \in ToSet(rows.claims) \X Quoted(rows) :
                            q[1].observation_id = q[2].observation_id}})

\* The reader raises where a leading offer has no name or no price.
CandidateComplete(p) ==
  p.observation.supplier_name # None /\ p.ranking.normalized_unit_price # None

Leaders(rows) == {p \in Offers(rows) : p.ranking.rank = 1}

StoredExecutiveSummary(rows) ==
  IF \E p \in Leaders(rows) : ~CandidateComplete(p) THEN None
  ELSE ExecutiveSummary(rows.validation, ScenarioNamed(rows, "BASE"),
                        {Candidate(p.observation, p.ranking) : p \in Leaders(rows)},
                        StoredDataGaps(rows))

StoredQuantity(rows, requested_quantity) == QuantityAnalysis(requested_quantity, Offers(rows))

StoredDistribution(rows) == PriceDistribution(Offers(rows))

StoredIncoterms(rows) == IncotermCoverage(Quoted(rows))

StoredOfferTerms(rows) == OfferTermsCoverage(Offers(rows))

StoredMatches(rows) == ToSet(rows.matches)

\* An offer is listed with its observation; what it says of the ranking is the row.
StoredRankings(rows) == {p.ranking : p \in Offers(rows)}

StoredSupplierCoverage(rows) == SupplierCoverage(Offers(rows))

\* get_latest_opportunity_decision reads the same rows again, on its own.
Decision(rows) ==
  [validation |-> StoredValidation(rows), scenarios |-> ToSet(rows.scenarios),
   sensitivity |-> StoredSensitivity(rows), notes |-> rows.notes,
   leading_offers |-> {p.ranking : p \in Leaders(rows)},
   executive_summary |-> StoredExecutiveSummary(rows), report |-> rows.report]

\* Everything that the API tells of the run, but for the freshness.
Stored(rows, requested_quantity) ==
  [validation |-> StoredValidation(rows), data_gaps |-> StoredDataGaps(rows),
   executive_summary |-> StoredExecutiveSummary(rows),
   landed_cost |-> StoredLandedCost(rows), sensitivity |-> StoredSensitivity(rows),
   fx_rates |-> StoredFXRates(rows), cost_coverage |-> StoredCostCoverage(rows),
   prices |-> StoredPrices(rows), matches |-> StoredMatches(rows),
   rankings |-> StoredRankings(rows), supplier_coverage |-> StoredSupplierCoverage(rows),
   identity_claims |-> StoredIdentityClaims(rows), incoterms |-> StoredIncoterms(rows),
   offer_terms |-> StoredOfferTerms(rows),
   quantity |-> StoredQuantity(rows, requested_quantity),
   distribution |-> StoredDistribution(rows), notes |-> rows.notes]
=============================================================================
