----------------------------- MODULE Evaluation -----------------------------
(***************************************************************************)
(* The evaluation of an evidence bundle for a research run, from the       *)
(* request to the rows: parsing, the checks on the scenarios, the three    *)
(* stages of the validation around matching and ranking, the landed costs, *)
(* the report and its persistence.                                         *)
(*                                                                         *)
(* idle -> submitted -> parsed -> checked -> validated -> matched          *)
(*      -> ranked -> calculated -> rendered -> stored                      *)
(*                                                                         *)
(* and "refused" from any step that raises, after which another bundle may *)
(* be sent.  Who may persist a result and what happens to a request that   *)
(* races with another is the subject of ResearchRuns.                      *)
(***************************************************************************)
EXTENDS EvidenceBundle, ReportViews

CONSTANTS Bundles,     \* what clients send
          Clock,       \* what the server's clock may show during the validation
          Opportunity  \* [quantity, product_name, target_market] of the run

ASSUME BundlesAssumption ==
  /\ \A raw \in Bundles : BundleShape(raw)
  /\ Clock \subseteq Int
  /\ None \notin Nat /\ None \notin Ratio

VARIABLES stage,
          bundle,      \* the request
          case,        \* the research case, cleaned of duplicates by the validation
          validation, matches, rankings, scenarios,  \* the result so far
          report,      \* the rendered report
          rows         \* what is stored of the run

vars == <<stage, bundle, case, validation, matches, rankings, scenarios, report, rows>>

Init ==
  /\ stage = "idle" /\ bundle = None
  /\ case = None /\ validation = None /\ matches = None /\ rankings = None
  /\ scenarios = None /\ report = None /\ rows = None

-----------------------------------------------------------------------------
\* The request ends with an error; nothing of it is kept.
Refuse ==
  /\ stage' = "refused" /\ bundle' = None
  /\ case' = None /\ validation' = None /\ matches' = None /\ rankings' = None
  /\ scenarios' = None /\ report' = None
  /\ UNCHANGED rows

Submit ==
  /\ stage \in {"idle", "refused"}
  /\ bundle' \in Bundles
  /\ stage' = "submitted"
  /\ UNCHANGED <<case, validation, matches, rankings, scenarios, report, rows>>

Parse ==
  /\ stage = "submitted"
  /\ ParseEvidenceBundle(bundle) # None
  /\ case' = ParseEvidenceBundle(bundle)
  /\ stage' = "parsed"
  /\ UNCHANGED <<bundle, validation, matches, rankings, scenarios, report, rows>>

RefuseBundle == stage = "submitted" /\ ParseEvidenceBundle(bundle) = None /\ Refuse

RateKey(fx) == <<fx.base_currency, fx.quote_currency, fx.rate_type, fx.effective_at>>

\* Each of the three scenarios once, and no rate twice in one.
ScenariosComplete(c) ==
  /\ {c.scenarios[i].name : i \in DOMAIN c.scenarios} = ScenarioName
  /\ Len(c.scenarios) = Cardinality(ScenarioName)
  /\ \A i \in DOMAIN c.scenarios : Distinct(c.scenarios[i].fx_rates, RateKey)

CheckScenarios ==
  /\ stage = "parsed" /\ ScenariosComplete(case)
  /\ stage' = "checked"
  /\ UNCHANGED <<bundle, case, validation, matches, rankings, scenarios, report, rows>>

RefuseScenarios == stage = "parsed" /\ ~ScenariosComplete(case) /\ Refuse

\* The clock is read once; the rest of the evaluation keeps its reading.
Validate ==
  /\ stage = "checked"
  /\ \E now \in Clock : validation' = ValidateResearchCase(case, now)
  /\ case' = CleanCase(case)
  /\ stage' = "validated"
  /\ UNCHANGED <<bundle, matches, rankings, scenarios, report, rows>>

Match ==
  /\ stage = "validated"
  /\ matches' = MatchResearchCase(case)
  /\ validation' = ValidateProductMatches(validation, matches')
  /\ stage' = "matched"
  /\ UNCHANGED <<bundle, case, rankings, scenarios, report, rows>>

Rank ==
  /\ stage = "matched"
  /\ rankings' = RankSupplierOffers(case, matches)
  /\ validation' = ValidateSupplierRankings(validation, rankings')
  /\ stage' = "ranked"
  /\ UNCHANGED <<bundle, case, matches, scenarios, report, rows>>

AllComputable == \A i \in DOMAIN case.scenarios : Computable(case.scenarios[i])

Calculate ==
  /\ stage = "ranked" /\ AllComputable
  /\ scenarios' = [i \in DOMAIN case.scenarios |-> LandedCost(case.scenarios[i])]
  /\ stage' = "calculated"
  /\ UNCHANGED <<bundle, case, validation, matches, rankings, report, rows>>

RefuseCosts == stage = "ranked" /\ ~AllComputable /\ Refuse

Result == [case |-> case, validation |-> validation, matches |-> matches,
           rankings |-> rankings, scenarios |-> scenarios]

\* The summary of the report raises on a base cost below zero.
Presentable == ScenarioResult(Result, "BASE").per_unit >= 0

Render ==
  /\ stage = "calculated" /\ Presentable
  /\ report' = RenderMarkdown(Result)
  /\ stage' = "rendered"
  /\ UNCHANGED <<bundle, case, validation, matches, rankings, scenarios, rows>>

RefuseReport == stage = "calculated" /\ ~Presentable /\ Refuse

\* The case is about the opportunity of the run; texts are compared normalised.
AboutOpportunity ==
  /\ case.quantity = Opportunity.quantity
  /\ case.product_name = Opportunity.product_name
  /\ Folded(case.destination) = Folded(Opportunity.target_market)

Persistable == AboutOpportunity /\ CodesDistinct(Result)

RefuseResult == stage = "rendered" /\ ~Persistable /\ Refuse

Rows == ResultRows(Result, report)

\* The insert, which the database takes as a whole or not at all.
Persist ==
  /\ stage = "rendered" /\ Persistable
  /\ RowsFit(Rows)
  /\ rows' = Rows
  /\ stage' = "stored"
  /\ UNCHANGED <<bundle, case, validation, matches, rankings, scenarios, report>>

\* A DataError, or an IntegrityError with nothing in the ledger: 500, not 422.
RefuseRows == stage = "rendered" /\ Persistable /\ ~RowsFit(Rows) /\ Refuse

Next ==
  \/ Submit
  \/ Parse \/ RefuseBundle
  \/ CheckScenarios \/ RefuseScenarios
  \/ Validate \/ Match \/ Rank
  \/ Calculate \/ RefuseCosts
  \/ Render \/ RefuseReport
  \/ RefuseResult \/ Persist \/ RefuseRows

Spec == Init /\ [][Next]_vars
-----------------------------------------------------------------------------
(* Properties.                                                             *)

OffersRanked == stage \in {"ranked", "calculated", "rendered", "stored"}

\* From one stage of the validation to the next nothing found before is lost: the
\* issues are kept, the disposition never softens and the score never recovers.
ConcernOnlyGrows ==
  [][validation # None /\ validation' # None =>
       /\ validation.issues \subseteq validation'.issues
       /\ Severity(validation.disposition) <= Severity(validation'.disposition)
       /\ validation.confidence_score >= validation'.confidence_score
       /\ validation'.evaluated_at = validation.evaluated_at]_vars

\* No bundle passes on its own: what the three stages look at leaves a concern in
\* every case, so that a result always goes to a person before it is COMPLETED.
NeverPassesAlone == OffersRanked => validation.disposition # "PASSED"

\* An offer without a rank is explained by an issue about that very offer, save a
\* price that the conversion rounds to nothing.
UnrankedHasReason ==
  OffersRanked =>
    \A r \in rankings :
      r.rank = None =>
        \/ r.normalized_unit_price = 0
        \/ \E issue \in validation.issues :
             /\ issue.subject = <<"PRICE_OBSERVATION", r.observation_id>>
             /\ issue.code \in {"MISSING_SUPPLIER_IDENTITY", "OFFER_BELOW_MINIMUM_ORDER",
                               "UNCONVERTIBLE_OFFER_PRICE", "SUBSTITUTE_PRODUCT_PRICE",
                               "PRODUCT_ATTRIBUTE_CONFLICT"}

Better(r, s) ==
  \/ r.total_score > s.total_score
  \/ r.total_score = s.total_score /\ r.normalized_unit_price < s.normalized_unit_price

\* The rank of an offer is one more than the number of offers of its group that are
\* strictly better, whatever the order of the observations: ties share a place and
\* use up the places after it.
RankIsCompetition ==
  OffersRanked =>
    \A r \in {q \in rankings : q.rankable} :
      r.rank = 1 + Cardinality({s \in rankings : /\ s.rankable
                                                /\ s.comparison_group = r.comparison_group
                                                /\ Better(s, r)})

\* The currencies at most k arcs away.
Within(rates, from, k) ==
  LET near[n \in 0..k] ==
        IF n = 0 THEN {from}
        ELSE near[n - 1] \cup UNION {{arc.to : arc \in ToSet(Arcs(rates, c))} : c \in near[n - 1]}
  IN  near[k]

\* The products of the rates along the walks of k arcs: the definition that the
\* search is held against.
WalkRates(rates, from, k, target) ==
  LET Longer(near, shorter, c) ==
        UNION {{Times(p, arc.rate) : arc \in {a \in ToSet(Arcs(rates, d)) : a.to = c},
                                     p \in shorter[d]} : d \in near}
      walk[n \in 0..k] ==
        [c \in Within(rates, from, k) |->
           IF n = 0 THEN IF c = from THEN {<<1, 1>>} ELSE {}
           ELSE Longer(Within(rates, from, n - 1), walk[n - 1], c)]
  IN  walk[k][target]

\* The rate found for two currencies is that of a walk of the fewest rates, and none
\* is found only if no walk leads there: no conversion takes a detour.
ShortestWalk(rates, from, target) ==
  LET found == PathRate(from, target, rates)
      lengths == {k \in 0..Len(rates) : target \in Within(rates, from, k)}
  IN  IF lengths = {} THEN found = None
      ELSE found \in WalkRates(rates, from, Min(lengths), target)

ConversionTakesShortestPath ==
  stage = "checked" =>
    \A s \in ToSet(case.scenarios) :
      \A o \in ToSet(case.observations) :
        o.unit_price.currency # Target(s) =>
          ShortestWalk(s.fx_rates, o.unit_price.currency, Target(s))

\* Every component is at most half a cent, and half a cent per multiplied unit,
\* from the exact amount: rounding before the multiplication costs no more.
RoundingStaysClose ==
  stage = "calculated" =>
    \A i \in DOMAIN case.scenarios :
      LET s == case.scenarios[i]
          quantity(basis) == IF basis = "PER_UNIT" THEN s.quantity ELSE 1
          price == s.purchase_price_multiplier
      IN  /\ CostStaysClose(s.purchase_unit_price, scenarios[i].components[1].amount, s,
                            <<price[1] * s.quantity, price[2]>>)
          /\ \A j \in DOMAIN s.costs :
               CostStaysClose(s.costs[j].money, scenarios[i].components[j + 1].amount, s,
                              <<s.cost_multiplier[1] * quantity(s.costs[j].basis),
                                s.cost_multiplier[2]>>)

PurchasePrices == {s.purchase_unit_price.amount : s \in ToSet(case.scenarios)}

RatesAsStored ==
  {StoredRate(fx.rate)[1] : fx \in UNION {ToSet(s.fx_rates) : s \in ToSet(case.scenarios)}}

\* What the application accepts, the database refuses for three reasons and no other: a
\* value that its column has no room for, where nothing along the way measures it, a
\* negative purchase price, and a rate so small that its column keeps a 0.  Every key,
\* every other check and the width of every measured text hold before the insert:
\* whatever would break them was answered with 422.
DatabaseRefusesNothingElse ==
  stage = "rendered" /\ Persistable /\ WithinColumns(Rows)
    /\ (\A amount \in PurchasePrices : amount >= 0)
    /\ (\A rate \in RatesAsStored : rate > 0)
      => RowsFit(Rows)

\* Every row of evidence is there for a usage, and the catalog and the freshness
\* view, which read the tables apart, count the same usages.
CatalogExplainsFreshness ==
  stage = "stored" =>
    \A id \in DOMAIN rows.evidence :
      /\ EvidenceCatalog(rows)[id] # {}
      /\ Cardinality(EvidenceCatalog(rows)[id])
           = StoredFreshness(rows).items[rows.evidence[id]].usage_count

Raised(code) == \E issue \in validation.issues : issue.code = code

\* The views agree with the validation they do not share code with: the freshness
\* counts stale and future evidence exactly when the validation raised it, and the
\* status of the gaps is that of the disposition.
ViewsAgreeWithValidation ==
  stage = "stored" =>
    LET counts == StoredFreshness(rows).counts IN
    /\ counts["STALE"] > 0 <=> Raised("STALE_EVIDENCE")
    /\ counts["FUTURE_DATED"] > 0 <=> Raised("FUTURE_DATED_EVIDENCE")
    /\ StoredDataGaps(rows).status
         = (CASE validation.disposition = "PASSED" -> "NO_RECORDED_GAPS"
              [] validation.disposition = "NEEDS_VERIFICATION" -> "GAPS_REQUIRE_VERIFICATION"
              [] validation.disposition = "NEEDS_HUMAN_REVIEW" -> "GAPS_REQUIRE_HUMAN_REVIEW")

\* The report, rendered before anything was stored, and the API, which rebuilds its
\* views from the rows, in one view after the other and again in the decision of the
\* opportunity, tell the same of a run in every section but the freshness, up to the
\* scale of the columns: a quoted price or a rate that has more places than its column
\* is told in full by the report and rounded by the API, and nothing that is derived
\* from either differs.  No reader gives up on a stored run.
ReportTellsWhatIsStored ==
  stage = "stored" =>
    \A view \in {Stored(rows, Opportunity.quantity), Decision(rows)} :
      \A section \in DOMAIN view \cap DOMAIN rows.report :
        AtScale(section, rows.report[section]) = view[section]

\* What the documentation says of the freshness: evidence usage and freshness counts
\* include claims.  The report does not count them.
ReportFreshnessMatchesStored ==
  stage = "stored" => rows.report.freshness = StoredFreshness(rows)

\* What the documentation says of anonymous observations: they are listed separately
\* and never merged into a synthetic supplier.  The ranking takes a blank name for
\* none; the coverage of the suppliers does not.
AnonymousNeverMerged ==
  stage = "stored" =>
    LET coverage == Stored(rows, Opportunity.quantity).supplier_coverage IN
    \A r \in rankings :
      "supplier_identity" \in r.unknown_factors
        => r.observation_id \in coverage.unidentified
=============================================================================
