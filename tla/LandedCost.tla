----------------------------- MODULE LandedCost -----------------------------
(***************************************************************************)
(* The conversion of money over the rates of a scenario, and the landed    *)
(* cost of a scenario.                                                     *)
(***************************************************************************)
EXTENDS CaseModel, SequencesExt

\* The arcs that leave a currency, in the order of the rates: each rate can
\* be used both ways, backwards at its reciprocal.
Arcs(rates, currency) ==
  FlattenSeq([i \in DOMAIN rates |->
    LET fx == rates[i] IN
    (IF fx.base_currency = currency
       THEN <<[to |-> fx.quote_currency, rate |-> fx.rate]>> ELSE <<>>) \o
    (IF fx.quote_currency = currency
       THEN <<[to |-> fx.base_currency, rate |-> Reciprocal(fx.rate)]>> ELSE <<>>)])

\* Mutant: the search takes the newest currency of the queue first.
FollowDeepFirst(search, arc, cumulative, target) ==
  IF arc.to \in search.visited \/ search.found # None THEN search
  ELSE IF arc.to = target THEN [search EXCEPT !.found = Times(cumulative, arc.rate)]
  ELSE [search EXCEPT !.visited = @ \cup {arc.to},
                      !.queue = <<<<arc.to, Times(cumulative, arc.rate)>>>> \o @]

\* One arc of the search: a currency met for the first time ends it when it
\* is the target, and joins the queue otherwise.
Follow(search, arc, cumulative, target) ==
  IF arc.to \in search.visited \/ search.found # None THEN search
  ELSE IF arc.to = target THEN [search EXCEPT !.found = Times(cumulative, arc.rate)]
  ELSE [search EXCEPT !.visited = @ \cup {arc.to},
                      !.queue = Append(@, <<arc.to, Times(cumulative, arc.rate)>>)]

\* One turn of the search: every arc of the currency at the head of the queue.
Expand(search, rates, target) ==
  IF search.queue = <<>> \/ search.found # None THEN search
  ELSE LET head == Head(search.queue) IN
       FoldLeft(LAMBDA s, arc : Follow(s, arc, head[2], target),
                [search EXCEPT !.queue = Tail(@)], Arcs(rates, head[1]))

\* The breadth-first search; a currency enters the queue at most once.
PathRate(from, target, rates) ==
  FoldLeft(LAMBDA search, i : Expand(search, rates, target),
           [queue |-> <<<<from, <<1, 1>>>>>>, visited |-> {from}, found |-> None],
           [i \in 1..(2 * Len(rates) + 1) |-> i]).found

\* The currency of a scenario, which its constructor takes as it comes.
Target(s) == Upper(s.target_currency)

\* The amount in the target currency, None where the code finds no path.
Converted(money, target, rates) ==
  IF money.currency = target THEN Cents(money.amount, 1)
  ELSE LET rate == PathRate(money.currency, target, rates) IN
       IF rate = None THEN None ELSE Cents(money.amount * rate[1], rate[2])

CostAmount(s, cost) ==
  LET normalized == Converted(cost.money, Target(s), s.fx_rates)
      basis_amount == IF cost.basis = "PER_UNIT" THEN normalized * s.quantity ELSE normalized
  IN  Cents(basis_amount * s.cost_multiplier[1], s.cost_multiplier[2])

PurchaseTotal(s) ==
  Cents(Converted(s.purchase_unit_price, Target(s), s.fx_rates)
          * s.purchase_price_multiplier[1] * s.quantity, s.purchase_price_multiplier[2])

Component(code, amount, evidence_class) ==
  [code |-> code, amount |-> amount, evidence_class |-> evidence_class]

Subtotal(components) == FoldLeft(LAMBDA sum, c : sum + c.amount, 0, components)

\* The price and every cost can be brought to the target currency.
Computable(s) ==
  \A money \in {s.purchase_unit_price} \cup {s.costs[i].money : i \in DOMAIN s.costs} :
     Converted(money, Target(s), s.fx_rates) # None

\* Defined for a scenario that is Computable; the code raises ValueError otherwise.
LandedCost(s) ==
  LET inputs ==
        <<Component("product_cost", PurchaseTotal(s), "DERIVED_CALCULATION")>> \o
        [i \in DOMAIN s.costs |->
           Component(s.costs[i].code, CostAmount(s, s.costs[i]), s.costs[i].evidence_class)]
      contingency ==
        IF s.unexpected_cost_rate[1] = 0 THEN <<>>
        ELSE <<Component("unexpected_cost",
                         Cents(Subtotal(inputs) * s.unexpected_cost_rate[1],
                               s.unexpected_cost_rate[2]), "ASSUMPTION")>>
      components == inputs \o contingency
      total == Cents(Subtotal(components), 1)
  IN  [name |-> s.name, quantity |-> s.quantity, target_currency |-> Target(s),
       components |-> components, total |-> total, per_unit |-> Cents(total, s.quantity)]

-----------------------------------------------------------------------------
(* The figures the calculation is held against.                            *)

\* The amount of a component without any rounding, as <<numerator, denominator>>.
ExactAmount(money, s, factor) ==
  LET rate == IF money.currency = Target(s) THEN <<1, 1>>
              ELSE PathRate(money.currency, Target(s), s.fx_rates)
  IN  <<money.amount * rate[1] * factor[1], rate[2] * factor[2]>>

CostStaysClose(money, amount, s, factor) ==
  LET exact == ExactAmount(money, s, factor) IN Close(amount, exact[1], exact[2], factor)
=============================================================================
