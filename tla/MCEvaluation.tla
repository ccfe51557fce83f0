---------------------------- MODULE MCEvaluation ----------------------------
(***************************************************************************)
(* Small instances of Evaluation for TLC: a bundle that raises nothing but *)
(* the request for due diligence, and families of bundles that each vary   *)
(* it where the properties may turn on the outcome.                        *)
(***************************************************************************)
EXTENDS Evaluation

\* Case-folding, on the names that occur.
Fold(text) == IF text = "ACME" THEN "acme" ELSE text

\* Upper-casing, likewise.
Capitals(text) ==
  CASE text = "usd" -> "USD" [] text = "eur" -> "EUR" [] text = "fob" -> "FOB"
    [] text = "piece" -> "PIECE" [] OTHER -> text

\* The columns: a text of more than 200 characters and one of more than 300, and numbers
\* above what a column of integers or of decimals takes.
Long == "more than 200 characters"

Longer == "more than 300 characters"

ColumnHolds(column, value) ==
  CASE column \in {"quantity", "minimum_order_quantity", "lead_time_days"} ->
         value # None => value <= 1000
    [] column = "unit_price" -> value.amount <= 600000
    [] column \in {"normalized_unit_price", "total", "per_unit", "amount"} ->
         value # None => value <= 600000
    [] column = "rate" -> value[1] <= 100000
    [] column = "subject" -> value[1] = "SUPPLIER" => value[2] \notin {Long, Longer}
    [] column \in {"supplier_name", "product_variant", "source_name"} -> value # Longer
    [] column \in {"market_layer", "rate_type", "code", "case_id"} ->
         value \notin {Long, Longer}
    [] OTHER -> TRUE

Now == 3000000

\* The second reading is one second past every limit that the first one is at.
TwoReadings == {Now, Now + 1}

OneReading == {Now}

EmptyAttributes == <<>>

Evidence(url, raw_value) ==
  [classification |-> "FACT", source_name |-> url, source_url |-> url,
   retrieved_at |-> Now - 10, raw_value |-> raw_value, confidence |-> "HIGH"]

Usd(amount) == [amount |-> amount, currency |-> "USD"]

\* Ten units in a cent: 10 USD.
Offer(id, supplier) ==
  [observation_id |-> id, product_name |-> <<"steel", "pipe">>, product_variant |-> "DN50",
   supplier_name |-> supplier, unit_price |-> Usd(10000), quantity |-> 10, unit |-> "piece",
   minimum_order_quantity |-> 5, incoterm |-> "FOB", incoterm_named_place |-> "Shanghai",
   incoterm_version |-> "2020", payment_terms |-> "30 days", payment_method |-> "LC",
   quote_valid_until |-> Now, lead_time_days |-> 20,
   product_attributes |-> [grade |-> "A"], market_layer |-> "WHOLESALE",
   evidence |-> Evidence("https://a", "10")]

Cost(code, amount, basis) ==
  [code |-> code, money |-> Usd(amount), basis |-> basis, evidence_class |-> "ESTIMATE"]

ScenarioIn(name, multiplier) ==
  [name |-> name, quantity |-> Absent, purchase_unit_price |-> Usd(10000),
   target_currency |-> "USD", purchase_price_multiplier |-> Absent,
   cost_multiplier |-> multiplier, unexpected_cost_rate |-> <<1, 20>>,
   costs |-> <<Cost("freight", 255, "PER_UNIT")>>, fx_rates |-> Absent]

Scenarios == <<ScenarioIn("OPTIMISTIC", Absent), ScenarioIn("BASE", <<11, 10>>),
               ScenarioIn("CONSERVATIVE", <<5, 4>>)>>

Quiet ==
  [case_id |-> "case", product_name |-> <<"steel", "pipe">>, quantity |-> 10,
   destination |-> "Iran",
   observations |-> <<Offer(1, "acme"), [Offer(2, "beta") EXCEPT !.evidence.raw_value = "11"]>>,
   supplier_identity_claims |-> Absent, fx_rates |-> Absent, scenarios |-> Scenarios,
   assumptions |-> Absent, unknowns |-> Absent, product_attributes |-> [grade |-> "A"]]

WithOffer(o) == [Quiet EXCEPT !.observations = <<Offer(1, "acme"), o>>]

WithOffers(seq) == [Quiet EXCEPT !.observations = seq]

-----------------------------------------------------------------------------
\* Who offers, what, and at which price: the ranking, the matching, the names.
Names == {None, "", " ", "acme", "ACME"}

Products == {<<"steel", "pipe">>, <<"steel", "pipe", "fitting">>, <<"copper", "pipe">>, <<"valve">>}

OfferBundles ==
  {WithOffer([Offer(2, n) EXCEPT !.product_name = p, !.unit_price.amount = a,
                                 !.product_attributes = [grade |-> g]]) :
     n \in Names, p \in Products, a \in {0, 4, 10000}, g \in {"A", "B"}}

MissingAttribute ==
  {WithOffer([Offer(2, "beta") EXCEPT !.product_attributes = EmptyAttributes,
                                      !.product_name = p]) : p \in Products}

\* The terms of an offer, and the kinds of its evidence.
TermBundles ==
  {WithOffer([Offer(2, "beta") EXCEPT !.incoterm = i, !.incoterm_named_place = place,
                                      !.minimum_order_quantity = moq,
                                      !.quote_valid_until = until]) :
     i \in {None, "fob", "XYZ", ""}, place \in {None, " ", "Dubai"}, moq \in {None, 10, 11},
     until \in {None, Now - 1}}

EvidenceBundles ==
  {WithOffer([Offer(2, "beta") EXCEPT !.evidence.confidence = c,
                                      !.evidence.classification = k]) :
     c \in Confidence \cup {Absent}, k \in EvidenceClass}

\* The evidence at and around the limits of its age, of an offer, of a claim, of a rate.
EvidenceTimes == {Now - MaxEvidenceAge, Now - MaxEvidenceAge - 1, Now + 1,
                  Now + MaxFutureClockSkew, Now + MaxFutureClockSkew + 1, Naive}

Claim(id, observation_id, retrieved_at) ==
  [claim_id |-> id, observation_id |-> observation_id, claimed_legal_name |-> "Acme Ltd",
   jurisdiction |-> "HK", registration_number |-> "7",
   evidence |-> [Evidence("https://registry", "acme") EXCEPT !.retrieved_at = retrieved_at]]

Rate(base, quote, rate) ==
  [base_currency |-> base, quote_currency |-> quote, rate |-> rate, rate_type |-> "spot",
   effective_at |-> None, evidence |-> Evidence("https://bank", base)]

AgeBundles ==
  UNION {{WithOffer([Offer(2, "beta") EXCEPT !.evidence.retrieved_at = t]),
          [Quiet EXCEPT !.supplier_identity_claims = <<Claim(1, 1, t)>>],
          [Quiet EXCEPT !.fx_rates = <<[Rate("EUR", "USD", <<11, 10>>)
                                          EXCEPT !.evidence.retrieved_at = t]>>]} : t \in EvidenceTimes}

\* Claims: about nothing, blank, twice, sharing the evidence of an offer.
ClaimBundles ==
  {[Quiet EXCEPT !.supplier_identity_claims = claims] :
     claims \in {<<Claim(1, 3, Now)>>, <<Claim(0, 1, Now)>>,
                 <<Claim(1, 1, Now), Claim(1, 2, Now)>>, <<Claim(1, 1, Now), Claim(2, 1, Now)>>,
                 <<[Claim(1, 2, Now) EXCEPT !.evidence = Evidence("https://a", "10")]>>,
                 <<[Claim(1, 2, Now) EXCEPT !.jurisdiction = " "]>>}}

\* The same offer twice, with and without a claim about the second one.
Twice == <<Offer(1, "acme"), Offer(2, "ACME"), Offer(3, "beta")>>

DuplicateBundles ==
  {WithOffers(Twice),
   [WithOffers(Twice) EXCEPT !.supplier_identity_claims = <<Claim(1, 2, Now)>>],
   WithOffers(<<>>), WithOffers(<<Offer(1, "acme"), Offer(1, "beta")>>),
   WithOffer([Offer(2, "beta") EXCEPT !.unit = "kg"]),
   WithOffer([Offer(2, "beta") EXCEPT !.unit = "PIECE"]),
   WithOffer([Offer(2, "ACME") EXCEPT !.unit_price.currency = "usd", !.incoterm = "fob",
                                      !.evidence.raw_value = "10"]),
   WithOffers(<<[Offer(1, "acme") EXCEPT !.minimum_order_quantity = 11]>>)}

\* Three offers by price, confidence and quantity: ties, outliers, several groups.
Third(id, supplier, amount, c, q) ==
  [Offer(id, supplier) EXCEPT !.unit_price.amount = amount, !.evidence.confidence = c,
                              !.quantity = q]

GroupBundles ==
  {WithOffers(<<Third(1, "acme", 10000, "HIGH", 10), Third(2, "beta", a, c, 10),
                Third(3, n, b, d, q)>>) :
     a \in {10000, 3333, 3334, 30001}, b \in {10000, 3333, 3334, 30001},
     c \in {"HIGH", "LOW"}, d \in {"HIGH", "LOW"}, n \in {"gamma", "beta"}, q \in {10, 20}}

-----------------------------------------------------------------------------
\* Rates: every sequence of up to four of these, towards the currency of the target.
RateSet ==
  {Rate("CNY", "USD", <<1, 7>>), Rate("USD", "EUR", <<9, 10>>), Rate("EUR", "CNY", <<8, 1>>),
   Rate("CNY", "GBP", <<1, 9>>), Rate("GBP", "EUR", <<6, 5>>)}

InCurrency(target) ==
  [i \in 1..3 |-> [Scenarios[i] EXCEPT !.target_currency = target]]

RateBundles ==
  {[WithOffer([Offer(2, "beta") EXCEPT !.unit_price.currency = "CNY"]) EXCEPT
      !.fx_rates = rates, !.scenarios = InCurrency(target)] :
     rates \in {f \in UNION {[1..n -> RateSet] : n \in 0..3} :
                  \A i, j \in DOMAIN f : i # j => f[i] # f[j]}
               \cup {f \in [1..4 -> RateSet] : Cardinality({f[i] : i \in 1..4}) = 4},
     target \in {"USD", "eur"}}

\* A long way and a short way to the target, in every order of the five rates.
DetourSet ==
  {Rate("CNY", "USD", <<1, 7>>), Rate("USD", "EUR", <<9, 10>>), Rate("CNY", "GBP", <<1, 9>>),
   Rate("GBP", "AED", <<9, 2>>), Rate("AED", "EUR", <<1, 4>>)}

DetourBundles ==
  {[WithOffer([Offer(2, "beta") EXCEPT !.unit_price.currency = "CNY"]) EXCEPT
      !.fx_rates = rates, !.scenarios = InCurrency("EUR")] : rates \in SetToSeqs(DetourSet)}

BadRates ==
  {[Quiet EXCEPT !.fx_rates = rates] :
     rates \in {<<Rate("EUR", "USD", NaN)>>, <<Rate("EUR", "USD", <<0, 1>>)>>,
                <<Rate("EUR", "XX", <<1, 1>>)>>, Malformed,
                <<Rate("EUR", "USD", <<1, 1>>), Rate("EUR", "USD", <<2, 1>>)>>}}

\* Costs: roundings at every place, bases, multipliers, codes that meet again.
CostBundles ==
  {[Quiet EXCEPT !.fx_rates = <<Rate("EUR", "USD", <<11, 10>>)>>,
                 !.scenarios[2].costs =
                    <<[Cost(code, a, basis) EXCEPT !.money.currency = currency,
                                                   !.evidence_class = k]>>,
                 !.scenarios[2].cost_multiplier = m,
                 !.scenarios[2].purchase_price_multiplier = m] :
     code \in {"freight", "bribe", "product_cost", "unexpected_cost"},
     a \in {0, 4, 5, 19, 1995}, basis \in {"TOTAL", "PER_UNIT"}, currency \in {"USD", "EUR"},
     k \in {"ESTIMATE", "ASSUMPTION"}, m \in {<<1, 1>>, <<4, 3>>}}

ScenarioBundles ==
  {[Quiet EXCEPT !.scenarios = three] :
     three \in {Malformed, <<>>, SubSeq(Scenarios, 1, 2), Scenarios \o Scenarios,
                    [Scenarios EXCEPT ![3].name = "BASE"],
                    [Scenarios EXCEPT ![3].name = "WORST"],
                    [Scenarios EXCEPT ![3].quantity = 20],
                    [Scenarios EXCEPT ![3].quantity = 0],
                    [Scenarios EXCEPT ![1].target_currency = "EUR"],
                    [Scenarios EXCEPT ![2].purchase_unit_price.amount = 0,
                                      ![2].costs = <<>>],
                    [Scenarios EXCEPT ![2].purchase_unit_price.amount = -10000],
                    [Scenarios EXCEPT ![2].purchase_unit_price.amount = -100],
                    [Scenarios EXCEPT ![2].purchase_unit_price.amount = -4],
                    [Scenarios EXCEPT ![3].purchase_unit_price.amount = -10000],
                    [Scenarios EXCEPT ![2].unexpected_cost_rate = <<0, 1>>],
                    [Scenarios EXCEPT ![2].unexpected_cost_rate = <<2, 1>>],
                    [Scenarios EXCEPT ![1].costs = <<Cost("duty", 1, "TOTAL"),
                                                     Cost("duty", 2, "TOTAL")>>],
                    [Scenarios EXCEPT ![1].costs = <<Cost("duty", 1, "SHARE")>>]}}

\* Bundles that no reader or constructor takes, or about another opportunity.
OtherBundles ==
  {[Quiet EXCEPT !.case_id = Absent], [Quiet EXCEPT !.case_id = " "],
   [Quiet EXCEPT !.quantity = 20], [Quiet EXCEPT !.quantity = Absent],
   [Quiet EXCEPT !.product_name = <<"copper", "pipe">>], [Quiet EXCEPT !.product_name = <<>>],
   [Quiet EXCEPT !.destination = "Oman"],
   [Quiet EXCEPT !.observations = Malformed],
   [Quiet EXCEPT !.assumptions = <<"tax", "tax">>], [Quiet EXCEPT !.assumptions = <<"">>],
   [Quiet EXCEPT !.unknowns = <<"duty">>], [Quiet EXCEPT !.unknowns = Malformed],
   [Quiet EXCEPT !.product_attributes = Absent], [Quiet EXCEPT !.product_attributes = Malformed]} \cup
  {WithOffer(o) :
     o \in {[Offer(2, "beta") EXCEPT !.supplier_name = Malformed],
            [Offer(2, "beta") EXCEPT !.unit = "unsafe"],
            [Offer(2, "beta") EXCEPT !.quantity = 0],
            [Offer(2, "beta") EXCEPT !.unit_price.amount = NaN],
            [Offer(2, "beta") EXCEPT !.unit_price.currency = "US"],
            [Offer(2, "beta") EXCEPT !.evidence.source_url = "file:"],
            [Offer(2, "beta") EXCEPT !.product_variant = None],
            [Offer(2, "beta") EXCEPT !.product_attributes = [variant |-> "DN80"]],
            [Offer(2, "beta") EXCEPT !.market_layer = Absent],
            [Offer(2, "beta") EXCEPT !.evidence.confidence = "SURE"]}}

\* Prices and rates with more places than their columns, up to a rate that vanishes.
PreciseBundles ==
  {WithOffer([Offer(2, "beta") EXCEPT !.unit_price.amount = a]) : a \in {2, 3, 10003}} \cup
  {[Quiet EXCEPT !.fx_rates = <<Rate("EUR", quote, rate)>>] :
     quote \in {"USD", "U1D"}, rate \in {<<1, 7>>, <<1, 200>>, <<1, 201>>, <<1, 300>>}}

\* What nothing measures before the insert.
WideBundles ==
  {[Quiet EXCEPT !.case_id = Long],
   [Quiet EXCEPT !.fx_rates = <<[Rate("EUR", "USD", <<11, 10>>) EXCEPT !.rate_type = Long]>>],
   [Quiet EXCEPT !.fx_rates = <<Rate("EUR", "USD", <<100001, 100>>)>>],
   [Quiet EXCEPT !.scenarios[1].costs = <<Cost(Long, 255, "TOTAL")>>],
   [Quiet EXCEPT !.scenarios[1].costs = <<Cost("freight", 600001, "TOTAL")>>]} \cup
  {WithOffer(o) :
     o \in {[Offer(2, "beta") EXCEPT !.market_layer = Long],
            [Offer(2, "beta") EXCEPT !.evidence.source_name = Longer],
            [Offer(2, "beta") EXCEPT !.product_variant = Longer],
            [Offer(2, "beta") EXCEPT !.quantity = 1001],
            [Offer(2, "beta") EXCEPT !.lead_time_days = 1001],
            [Offer(2, "beta") EXCEPT !.unit_price.amount = 600003],
            Offer(2, Long), Offer(2, Longer)}}

AllBundles ==
  {Quiet} \cup OfferBundles \cup MissingAttribute \cup TermBundles \cup EvidenceBundles
    \cup AgeBundles \cup ClaimBundles \cup DuplicateBundles \cup GroupBundles
    \cup RateBundles \cup DetourBundles \cup BadRates \cup CostBundles \cup ScenarioBundles
    \cup OtherBundles \cup PreciseBundles \cup WideBundles

Pipes == [quantity |-> 10, product_name |-> <<"steel", "pipe">>, target_market |-> "Iran"]
=============================================================================
