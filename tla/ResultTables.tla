---------------------------- MODULE ResultTables ----------------------------
(***************************************************************************)
(* What persisting a result writes: the rows of the tables that hang off a *)
(* research run.  A table is the sequence of its rows in the order they    *)
(* are added (the rankings are a set); the key of an observation, a claim  *)
(* or a scenario is the name the bundle gives it, that of an evidence row  *)
(* its position.                                                           *)
(*                                                                         *)
(* A result is a record of case, validation, matches, rankings, scenarios. *)
(***************************************************************************)
EXTENDS CaseViews

CONSTANT Holds(_, _)  \* Holds(column, value): the column has room for the value, a text
                      \* no longer than its width and without NUL, a number in its range

\* Every field of the evidence goes into its hash.
Fingerprint(e) == e

\* The evidence of a result, in the order in which the rows ask for it.
EvidenceUses(result) ==
  LET case == result.case IN
  [i \in DOMAIN case.observations |-> case.observations[i].evidence] \o
  [i \in DOMAIN case.supplier_identity_claims |-> case.supplier_identity_claims[i].evidence] \o
  FlattenSeq([i \in DOMAIN case.scenarios |->
    [j \in DOMAIN case.scenarios[i].fx_rates |-> case.scenarios[i].fx_rates[j].evidence]])

\* One row per fingerprint: that of the first use.
EvidenceRows(result) ==
  FoldLeft(LAMBDA cache, e :
             IF \E i \in DOMAIN cache : Fingerprint(cache[i]) = Fingerprint(e)
               THEN cache ELSE Append(cache, e),
           <<>>, EvidenceUses(result))

EvidenceId(evidence, e) ==
  CHOOSE i \in DOMAIN evidence : Fingerprint(evidence[i]) = Fingerprint(e)

\* The record with one field more, and with one field less.
Extended(record, field, value) ==
  [f \in DOMAIN record \cup {field} |-> IF f = field THEN value ELSE record[f]]

Without(record, field) == Restrict(record, DOMAIN record \ {field})

\* A record with the id of its evidence in place of the evidence.
WithEvidenceId(record, evidence) ==
  Extended(Without(record, "evidence"), "evidence_id", EvidenceId(evidence, record.evidence))

ScenarioRow(s) ==
  [name |-> s.name, quantity |-> s.quantity, target_currency |-> s.target_currency,
   total |-> s.total, per_unit |-> s.per_unit]

ComponentRow(s, component) ==
  [scenario |-> s.name, code |-> component.code, amount |-> component.amount,
   evidence_class |-> component.evidence_class]

\* A price as its column keeps it.
StoredPrice(money) == [money EXCEPT !.amount = StoredAmount(@)]

ObservationRow(o, evidence) ==
  [WithEvidenceId(o, evidence) EXCEPT !.unit_price = StoredPrice(@)]

FXRateRow(s, fx, evidence) ==
  Extended([WithEvidenceId(fx, evidence) EXCEPT !.rate = StoredRate(@)], "scenario", s.name)

ValidationRow(validation) ==
  [evaluated_at |-> validation.evaluated_at, disposition |-> validation.disposition,
   confidence_score |-> validation.confidence_score,
   confidence_label |-> validation.confidence_label]

\* The notes come back by kind and in no order of their own.
NoteRows(case) == [assumptions |-> ToBag(case.assumptions), unknowns |-> ToBag(case.unknowns)]

ComponentRows(result) ==
  FlattenSeq([i \in DOMAIN result.scenarios |->
    LET s == result.scenarios[i] IN
    [j \in DOMAIN s.components |-> ComponentRow(s, s.components[j])]])

FXRateRows(case, evidence) ==
  FlattenSeq([i \in DOMAIN case.scenarios |->
    LET s == case.scenarios[i] IN
    [j \in DOMAIN s.fx_rates |-> FXRateRow(s, s.fx_rates[j], evidence)]])

\* Calculated amounts are whole cents, which their columns hold as they are.
ResultRows(result, report) ==
  LET case == result.case
      evidence == EvidenceRows(result)
  IN
  [evidence |-> evidence,
   observations |-> [i \in DOMAIN case.observations |->
                       ObservationRow(case.observations[i], evidence)],
   matches |-> result.matches,
   rankings |-> result.rankings,
   claims |-> [i \in DOMAIN case.supplier_identity_claims |->
                 WithEvidenceId(case.supplier_identity_claims[i], evidence)],
   scenarios |-> [i \in DOMAIN result.scenarios |-> ScenarioRow(result.scenarios[i])],
   components |-> ComponentRows(result),
   fx_rates |-> FXRateRows(case, evidence),
   notes |-> NoteRows(case),
   validation |-> ValidationRow(result.validation),
   issues |-> result.validation.issues,
   case_id |-> case.case_id,
   report |-> report]

\* Mutant: only the costs of the bundle are compared, not what is added to them.
CodesDistinctOfCosts(result) ==
  \A i \in DOMAIN result.case.scenarios :
    Distinct(result.case.scenarios[i].costs, LAMBDA c : c.code)

\* No two components of a scenario share a code; the code raises ValueError otherwise.
CodesDistinct(result) ==
  \A i \in DOMAIN result.scenarios : Distinct(result.scenarios[i].components, LAMBDA c : c.code)

-----------------------------------------------------------------------------
(* What the database refuses: a value that its column does not hold, and a *)
(* violation of the unique and check constraints of the tables.            *)

\* The columns that take what nothing has measured before; the label of a component
\* goes with its code.
Unmeasured ==
  [evidence |-> {"source_name", "source_url", "raw_value"},
   observations |-> {"observation_id", "product_name", "product_variant", "supplier_name",
                     "market_layer", "unit_price", "quantity", "minimum_order_quantity",
                     "lead_time_days"},
   rankings |-> {"normalized_unit_price"},
   scenarios |-> {"quantity", "total", "per_unit"},
   components |-> {"code", "amount"},
   fx_rates |-> {"base_currency", "quote_currency", "rate", "rate_type"},
   issues |-> {"subject"}]

HeldBy(table, records) ==
  \A r \in records, column \in Unmeasured[table] : Holds(column, r[column])

WithinColumns(rows) ==
  /\ \A table \in {"evidence", "observations", "scenarios", "components", "fx_rates"} :
       HeldBy(table, ToSet(rows[table]))
  /\ HeldBy("rankings", rows.rankings) /\ HeldBy("issues", rows.issues)
  /\ \A text \in DOMAIN rows.notes.assumptions \cup DOMAIN rows.notes.unknowns :
       Holds("text", text)
  /\ Holds("case_id", rows.case_id) /\ Holds("content", rows.report)

Positive(n) == n # None => n > 0

Percentage(n) == 0 <= n /\ n <= 100

EvidenceFits(evidence) == Distinct(evidence, Fingerprint)

ObservationsFit(observations) ==
  /\ Distinct(observations, LAMBDA o : o.observation_id)
  /\ \A i \in DOMAIN observations :
       LET o == observations[i] IN
       /\ o.quantity > 0 /\ Positive(o.minimum_order_quantity) /\ Positive(o.lead_time_days)
       /\ {o.unit, o.incoterm, o.incoterm_named_place, o.incoterm_version,
           o.payment_terms, o.payment_method} \cap UnsafeTexts = {}

MatchesFit(matches) ==
  /\ Distinct(matches, LAMBDA m : m.observation_id)
  /\ \A i \in DOMAIN matches : Percentage(matches[i].score)

RankingsFit(rankings) ==
  /\ \A r, s \in rankings : r.observation_id = s.observation_id => r = s
  /\ \A r \in rankings : Percentage(r.total_score) /\ Positive(r.rank)

ClaimsFit(claims) ==
  /\ Distinct(claims, LAMBDA c : c.claim_id)
  /\ \A i \in DOMAIN claims :
       LET c == claims[i] IN
       \A text \in {c.claimed_legal_name, c.jurisdiction, c.registration_number} : Required(text)

ScenariosFit(scenarios) ==
  /\ Distinct(scenarios, LAMBDA s : s.name)
  /\ \A i \in DOMAIN scenarios :
       scenarios[i].quantity > 0 /\ scenarios[i].total >= 0 /\ scenarios[i].per_unit >= 0

ComponentsFit(components) ==
  /\ Distinct(components, LAMBDA c : <<c.scenario, c.code>>)
  /\ \A i \in DOMAIN components : components[i].amount >= 0

FXRatesFit(fx_rates) ==
  /\ Distinct(fx_rates, LAMBDA r : <<r.scenario, r.base_currency, r.quote_currency,
                                     r.rate_type, r.effective_at>>)
  /\ \A i \in DOMAIN fx_rates : fx_rates[i].rate[1] > 0

RowsFit(rows) ==
  /\ WithinColumns(rows)
  /\ EvidenceFits(rows.evidence) /\ ObservationsFit(rows.observations)
  /\ MatchesFit(rows.matches) /\ RankingsFit(rows.rankings) /\ ClaimsFit(rows.claims)
  /\ ScenariosFit(rows.scenarios) /\ ComponentsFit(rows.components)
  /\ FXRatesFit(rows.fx_rates) /\ Percentage(rows.validation.confidence_score)
=============================================================================
