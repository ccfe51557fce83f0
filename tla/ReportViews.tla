----------------------------- MODULE ReportViews -----------------------------
(***************************************************************************)
(* The decision report: what render_markdown tells of a result, section by *)
(* section.  It works from the result in memory, not from the rows.        *)
(***************************************************************************)
EXTENDS StoredViews

RankingOf(result, o) ==
  CHOOSE r \in result.rankings : r.observation_id = o.observation_id

ObservationOf(result, id) ==
  CHOOSE o \in ToSet(result.case.observations) : o.observation_id = id

ReportedOffers(result) ==
  {Point(o, RankingOf(result, o)) : o \in ToSet(result.case.observations)}

\* Mutant: only the errors of the validation reach the summary of the gaps.
ReportedErrors(result) ==
  DataGaps({i \in result.validation.issues : i.severity = "ERROR"},
           ToBag(result.case.unknowns))

ReportedDataGaps(result) == DataGaps(result.validation.issues, ToBag(result.case.unknowns))

\* The report leaves out a leading offer without a name or a price.
ReportedCandidates(result) ==
  {Candidate(p.observation, p.ranking) :
     p \in {q \in ReportedOffers(result) : q.ranking.rank = 1 /\ CandidateComplete(q)}}

ScenarioResult(result, name) ==
  CHOOSE s \in ToSet(result.scenarios) : s.name = name

ReportedExecutiveSummary(result) ==
  ExecutiveSummary(result.validation, ScenarioResult(result, "BASE"),
                   ReportedCandidates(result), ReportedDataGaps(result))

\* The evidence that the report counts: of the prices and of the rates.
ReportedUses(result) ==
  [i \in DOMAIN result.case.observations |-> result.case.observations[i].evidence] \o
  FlattenSeq([i \in DOMAIN result.case.scenarios |->
    LET rates == result.case.scenarios[i].fx_rates IN
    [j \in DOMAIN rates |-> rates[j].evidence]])

ReportedFreshness(result) ==
  EvidenceFreshness(ToBag(ReportedUses(result)), result.validation.evaluated_at)

ReportedLandedCost(result) ==
  {Extended(ScenarioRow(s), "components", ToSet(s.components)) : s \in ToSet(result.scenarios)}

ReportedSensitivity(result) ==
  Sensitivity([name \in ScenarioName |-> ScenarioResult(result, name)])

ReportedFXRates(result) ==
  UNION {{Extended(fx, "scenario", s.name) : fx \in ToSet(s.fx_rates)} :
           s \in ToSet(result.case.scenarios)}

ReportedCostCoverage(result) ==
  [name \in {s.name : s \in ToSet(result.scenarios)} |->
     ScenarioCoverage(ToSet(ScenarioResult(result, name).components))]

ReportedPrices(result) == {PriceLine(o) : o \in ToSet(result.case.observations)}

ReportedIdentityClaims(result) ==
  IdentityClaims({IdentityClaimItem(c, ObservationOf(result, c.observation_id)) :
                    c \in ToSet(result.case.supplier_identity_claims)})

ReportedSupplierCoverage(result) == SupplierCoverage(ReportedOffers(result))

ReportedIncoterms(result) ==
  IncotermCoverage({Unpriced(o) : o \in ToSet(result.case.observations)})

ReportedOfferTerms(result) == OfferTermsCoverage(ReportedOffers(result))

ReportedQuantity(result) == QuantityAnalysis(result.case.quantity, ReportedOffers(result))

ReportedDistribution(result) == PriceDistribution(ReportedOffers(result))

\* What a section of the report tells, with its prices and rates at the scale of the
\* columns: the report prints them in full.
AtScale(section, told) ==
  CASE section = "prices" -> {[line EXCEPT !.unit_price = StoredPrice(@)] : line \in told}
    [] section = "fx_rates" -> {[fx EXCEPT !.rate = StoredRate(@)] : fx \in told}
    [] OTHER -> told

\* The sections of the report; its freshness is last.
RenderMarkdown(result) ==
  [validation |-> result.validation, data_gaps |-> ReportedDataGaps(result),
   executive_summary |-> ReportedExecutiveSummary(result),
   landed_cost |-> ReportedLandedCost(result), sensitivity |-> ReportedSensitivity(result),
   fx_rates |-> ReportedFXRates(result), cost_coverage |-> ReportedCostCoverage(result),
   prices |-> ReportedPrices(result), matches |-> ToSet(result.matches),
   rankings |-> result.rankings,
   supplier_coverage |-> ReportedSupplierCoverage(result),
   identity_claims |-> ReportedIdentityClaims(result),
   incoterms |-> ReportedIncoterms(result),
   offer_terms |-> ReportedOfferTerms(result),
   quantity |-> ReportedQuantity(result),
   distribution |-> ReportedDistribution(result),
   notes |-> NoteRows(result.case),
   freshness |-> ReportedFreshness(result)]
=============================================================================
