-------------------------- MODULE EvaluationProofs --------------------------
(***************************************************************************)
(* Proofs about the evaluation of a bundle, for all bundles, clocks and    *)
(* opportunities.                                                          *)
(*                                                                         *)
(* First what the calculations do: what the rounding costs, what the       *)
(* validation keeps, how offers are ranked, which rate the search finds.   *)
(* They rest on EvaluationInv, the types of the records at each stage.     *)
(* Then what is stored: which rows of evidence there are, that the rows    *)
(* pass the constraints of the tables, and that the views computed from    *)
(* them tell what the report told.  These rest on RecordInv, that all of a *)
(* result is told from the one bundle that was sent.                       *)
(***************************************************************************)
EXTENDS Evaluation, FiniteSetTheorems, FunctionTheorems, TLAPS

-----------------------------------------------------------------------------
(* Rounding.                                                               *)

LEMMA DivBounds ==
  ASSUME NEW a \in Nat, NEW b \in Nat \ {0}
  PROVE  /\ a \div b \in Nat
         /\ b * (a \div b) <= a
         /\ a < b * (a \div b) + b
  OBVIOUS

LEMMA RoundedNat ==
  ASSUME NEW n \in Nat, NEW d \in Nat \ {0}
  PROVE  /\ Rounded(n, d) \in Int
         /\ 2 * n - d < 2 * (d * Rounded(n, d))
         /\ 2 * (d * Rounded(n, d)) <= 2 * n + d
<1> DEFINE q == (2 * n + d) \div (2 * d)
<1>1. 2 * n + d \in Nat /\ 2 * d \in Nat \ {0}
  OBVIOUS
<1>2. q \in Nat /\ (2 * d) * q <= 2 * n + d /\ 2 * n + d < (2 * d) * q + 2 * d
  BY <1>1, DivBounds
<1>3. Rounded(n, d) = q
  BY DEF Rounded
<1> HIDE DEF q
<1>4. (2 * d) * q = 2 * (d * q) /\ d * q \in Int
  BY <1>2
<1>5. QED
  BY <1>2, <1>3, <1>4

LEMMA RoundedNegative ==
  ASSUME NEW n \in Int, n < 0, NEW d \in Nat \ {0}
  PROVE  /\ -n \in Nat
         /\ Rounded(n, d) = -Rounded(-n, d)
<1>1. -n \in Nat /\ -n >= 0 /\ ~(n >= 0)
  OBVIOUS
<1>2. 2 * (-n) + d = d - 2 * n
  OBVIOUS
<1>3. Rounded(-n, d) = (2 * (-n) + d) \div (2 * d)
  BY <1>1 DEF Rounded
<1>4. Rounded(n, d) = -((d - 2 * n) \div (2 * d))
  BY <1>1 DEF Rounded
<1>5. QED
  BY <1>1, <1>2, <1>3, <1>4

\* A rounded figure is an integer and half a quantum off at most.
THEOREM RoundingError ==
  ASSUME NEW n \in Int, NEW d \in Nat \ {0}
  PROVE  /\ Rounded(n, d) \in Int
         /\ 2 * (d * Rounded(n, d)) <= 2 * n + d
         /\ 2 * n - d <= 2 * (d * Rounded(n, d))
<1>1. CASE n >= 0
  <2>1. n \in Nat
    BY <1>1
  <2>2. d * Rounded(n, d) \in Int
    BY <2>1, RoundedNat
  <2>3. QED
    BY <2>1, <2>2, RoundedNat
<1>2. CASE n < 0
  <2> DEFINE r == Rounded(-n, d)
  <2>1. -n \in Nat /\ Rounded(n, d) = -r
    BY <1>2, RoundedNegative
  <2>2. r \in Int /\ 2 * (-n) - d < 2 * (d * r) /\ 2 * (d * r) <= 2 * (-n) + d
    BY <2>1, RoundedNat
  <2> HIDE DEF r
  <2>3. d * r \in Int /\ d * (-r) = -(d * r)
    BY <2>2
  <2>4. QED
    BY <2>1, <2>2, <2>3
<1>3. QED
  BY <1>1, <1>2

\* Rounding keeps an order: a lower amount is never rounded above a higher one.
THEOREM RoundingKeepsOrder ==
  ASSUME NEW m \in Int, NEW n \in Int, m <= n, NEW d \in Nat \ {0}
  PROVE  Rounded(m, d) <= Rounded(n, d)
<1> DEFINE x == Rounded(m, d)
           y == Rounded(n, d)
<1>0. /\ x \in Int /\ 2 * (d * x) <= 2 * m + d /\ 2 * m - d <= 2 * (d * x)
      /\ y \in Int /\ 2 * (d * y) <= 2 * n + d /\ 2 * n - d <= 2 * (d * y)
  BY RoundingError
<1>1. CASE m >= 0
  <2>1. m \in Nat /\ n \in Nat
    BY <1>1
  <2>2. 2 * n - d < 2 * (d * y)
    BY <2>1, RoundedNat
  <2> HIDE DEF x, y
  <2> SUFFICES ASSUME y < x PROVE FALSE
    BY <1>0 DEF x, y
  <2>3. d * (y + 1) <= d * x
    <3>1. \A a \in Int, b \in Int, k \in Nat : a <= b => k * a <= k * b
      OBVIOUS
    <3>2. y + 1 \in Int /\ y + 1 <= x
      BY <1>0
    <3>3. QED
      BY <1>0, <3>1, <3>2
  <2>4. d * (y + 1) = d * y + d /\ d * y \in Int /\ d * x \in Int
    BY <1>0
  <2>5. QED
    BY <1>0, <2>2, <2>3, <2>4
<1>2. CASE m < 0 /\ n < 0
  <2> DEFINE u == Rounded(-m, d)
             v == Rounded(-n, d)
  <2>1. -m \in Nat /\ -n \in Nat /\ x = -u /\ y = -v
    BY <1>2, RoundedNegative
  <2>2. /\ u \in Int /\ 2 * (-m) - d < 2 * (d * u)
        /\ v \in Int /\ 2 * (d * v) <= 2 * (-n) + d
    BY <2>1, RoundedNat
  <2> HIDE DEF u, v, x, y
  <2>3. ASSUME u < v PROVE FALSE
    <3>1. \A a \in Int, b \in Int, k \in Nat : a <= b => k * a <= k * b
      OBVIOUS
    <3>2. u + 1 \in Int /\ u + 1 <= v
      BY <2>2, <2>3
    <3>3. d * (u + 1) <= d * v
      BY <2>2, <3>1, <3>2
    <3>4. d * (u + 1) = d * u + d /\ d * u \in Int /\ d * v \in Int
      BY <2>2
    <3>5. QED
      BY <2>2, <3>3, <3>4
  <2>4. x <= y
    BY <2>1, <2>2, <2>3
  <2>5. QED
    BY <2>4 DEF x, y
<1>3. CASE m < 0 /\ n >= 0
  <2>1. y >= 0
    <3>1. n \in Nat
      BY <1>3
    <3>2. 2 * n - d < 2 * (d * y)
      BY <3>1, RoundedNat
    <3> HIDE DEF x, y
    <3>3. ASSUME y < 0 PROVE FALSE
      <4>1. \A a \in Int, k \in Nat : a <= -1 => k * a <= -k
        OBVIOUS
      <4>2. d * y <= -d /\ d * y \in Int
        BY <1>0, <3>3, <4>1
      <4>3. QED
        BY <3>1, <3>2, <4>2
    <3>4. QED
      BY <1>0, <3>3
  <2>2. x <= 0
    <3> DEFINE u == Rounded(-m, d)
    <3>1. -m \in Nat /\ x = -u
      BY <1>3, RoundedNegative
    <3>2. u \in Int /\ 2 * (-m) - d < 2 * (d * u)
      BY <3>1, RoundedNat
    <3> HIDE DEF u, x, y
    <3>3. ASSUME u < 0 PROVE FALSE
      <4>1. \A a \in Int, k \in Nat : a <= -1 => k * a <= -k
        OBVIOUS
      <4>2. d * u <= -d /\ d * u \in Int
        BY <3>2, <3>3, <4>1
      <4>3. QED
        BY <3>1, <3>2, <4>2
    <3>4. QED
      BY <3>1, <3>2, <3>3
  <2>3. QED
    BY <1>0, <2>1, <2>2
<1>4. QED
  BY <1>1, <1>2, <1>3

-----------------------------------------------------------------------------
(* The drift of the landed cost.                                           *)

LEMMA CentsInt ==
  ASSUME NEW n \in Int, NEW d \in Nat \ {0}
  PROVE  Cents(n, d) \in Int /\ (n >= 0 => Cents(n, d) \in Nat)
<1>0. Cent \in Nat \ {0}
  BY ScaleAssumption
<1>1. PICK D \in Nat \ {0} : D = Cent * d
  BY <1>0
<1>2. Rounded(n, D) \in Int
  BY <1>1, RoundingError
<1>3. ASSUME n >= 0 PROVE Rounded(n, D) \in Nat
  <2>1. n \in Nat
    BY <1>3
  <2>2. Rounded(n, D) = (2 * n + D) \div (2 * D)
    BY <1>3 DEF Rounded
  <2>3. 2 * n + D \in Nat /\ 2 * D \in Nat \ {0}
    BY <2>1
  <2>. QED
    BY <2>2, <2>3, DivBounds
<1>4. Cents(n, d) = Cent * Rounded(n, D)
  BY <1>1 DEF Cents
<1>. QED
  BY <1>0, <1>2, <1>3, <1>4

\* Half a cent is a number of units.
LEMMA HalfCent ==
  \E h \in Nat : Cent = 2 * h
  BY ScaleAssumption

LEMMA CentsError ==
  ASSUME NEW n \in Int, NEW d \in Nat \ {0}, NEW h \in Nat, Cent = 2 * h
  PROVE  /\ Cents(n, d) \in Int
         /\ d * Cents(n, d) <= n + h * d
         /\ n - h * d <= d * Cents(n, d)
<1>0. Cent \in Nat \ {0}
  BY ScaleAssumption
<1>1. PICK D \in Nat \ {0} : D = Cent * d
  BY <1>0
<1>2. PICK r \in Int : r = Rounded(n, D)
  BY <1>1, RoundingError
<1>3. 2 * (D * r) <= 2 * n + D /\ 2 * n - D <= 2 * (D * r)
  BY <1>1, <1>2, RoundingError
<1>4. Cents(n, d) = Cent * r
  BY <1>1, <1>2 DEF Cents
<1>5. PICK x \in Int : x = D * r
  OBVIOUS
<1>6. PICK e \in Int : e = h * d
  OBVIOUS
<1>7. D = 2 * e
  BY <1>1, <1>6
<1>8. 2 * x <= 2 * n + 2 * e /\ 2 * n - 2 * e <= 2 * x
  BY <1>3, <1>5, <1>7
<1>9. d * (Cent * r) = x /\ Cent * r \in Int
  BY <1>0, <1>1, <1>5
<1>. QED
  BY <1>4, <1>6, <1>8, <1>9

LEMMA Scaled ==
  ASSUME NEW a \in Int, NEW b \in Int, NEW k \in Nat, a <= b
  PROVE  k * a <= k * b
  OBVIOUS

LEMMA DivOf ==
  ASSUME NEW q \in Nat, NEW b \in Nat \ {0}, NEW r \in 0 .. (b - 1)
  PROVE  (b * q + r) \div b = q
<1>1. PICK a \in Nat : a = b * q + r
  OBVIOUS
<1>2. PICK x \in Nat : x = a \div b /\ b * x <= a /\ a < b * x + b
  BY DivBounds
<1>3. ASSUME x < q PROVE FALSE
  <2>1. b * (x + 1) <= b * q
    BY <1>3, Scaled
  <2>2. b * (x + 1) = b * x + b
    OBVIOUS
  <2>. QED
    BY <1>1, <1>2, <2>1, <2>2
<1>4. ASSUME q < x PROVE FALSE
  <2>1. b * (q + 1) <= b * x
    BY <1>4, Scaled
  <2>2. b * (q + 1) = b * q + b
    OBVIOUS
  <2>. QED
    BY <1>1, <1>2, <2>1, <2>2
<1>. QED
  BY <1>1, <1>2, <1>3, <1>4

\* A calculated amount is whole cents, which the columns hold as they are: persisting a
\* result loses nothing of it.
LEMMA CentsHeld ==
  ASSUME NEW n \in Int, NEW d \in Nat \ {0}
  PROVE  StoredAmount(Cents(n, d)) = Cents(n, d)
<1>0. AmountStep \in Nat \ {0} /\ Cent \in Nat \ {0}
  BY ScaleAssumption
<1>1. PICK A \in Nat \ {0} : A = AmountStep
  BY <1>0
<1>2. PICK k \in Nat : Cent = A * k
  BY <1>0, <1>1, ScaleAssumption
<1>3. PICK r \in Int : Cents(n, d) = Cent * r
  <2>1. PICK D \in Nat \ {0} : D = Cent * d
    BY <1>0
  <2>. QED
    BY <2>1, RoundingError DEF Cents
<1>4. PICK m \in Int : m = k * r
  OBVIOUS
<1>5. Cents(n, d) = A * m
  <2>1. (A * k) * r = A * (k * r)
    OBVIOUS
  <2>. QED
    BY <1>2, <1>3, <1>4, <2>1
<1>6. Rounded(A * m, A) = m
  <2>1. PICK b \in Nat \ {0} : b = 2 * A
    OBVIOUS
  <2>2. CASE m >= 0
    <3>1. A * m >= 0 /\ 2 * (A * m) + A = b * m + A
      BY <2>1, <2>2
    <3>2. (b * m + A) \div b = m
      BY <2>1, <2>2, DivOf
    <3>. QED
      BY <2>1, <3>1, <3>2 DEF Rounded
  <2>3. CASE m < 0
    <3>1. PICK q \in Nat \ {0} : q = -m
      BY <2>3
    <3>2. A * q > 0 /\ A * m = -(A * q)
      BY <3>1
    <3>3. A - 2 * (A * m) = b * q + A
      BY <2>1, <3>1, <3>2
    <3>4. (b * q + A) \div b = q
      BY <2>1, DivOf
    <3>. QED
      BY <2>1, <3>1, <3>2, <3>3, <3>4 DEF Rounded
  <2>. QED
    BY <2>2, <2>3
<1>. QED
  BY <1>1, <1>5, <1>6 DEF StoredAmount

\* A share of at most all is rounded to at most all.
LEMMA RoundedWithin ==
  ASSUME NEW n \in Nat, NEW d \in Nat \ {0}, NEW m \in Nat, n <= d * m
  PROVE  Rounded(n, d) \in 0 .. m
<1>1. PICK r \in Int : r = Rounded(n, d)
  BY RoundingError
<1>2. 2 * (d * r) <= 2 * n + d /\ 2 * n - d <= 2 * (d * r)
  BY <1>1, RoundingError
<1>3. ASSUME r > m PROVE FALSE
  <2>1. d * (m + 1) <= d * r
    BY <1>3, Scaled
  <2>2. d * (m + 1) = d * m + d
    OBVIOUS
  <2>. QED
    BY <1>2, <2>1, <2>2
<1>4. ASSUME r < 0 PROVE FALSE
  <2>1. d * r <= d * (-1)
    BY <1>4, Scaled
  <2>. QED
    BY <1>2, <2>1
<1>. QED
  BY <1>1, <1>3, <1>4

\* An amount that is converted at r1 / r2, rounded, multiplied by f1 / f2 and rounded
\* again is close to the exact one.
LEMMA TwoRoundingsClose ==
  ASSUME NEW a \in Int, NEW r1 \in Nat, NEW r2 \in Nat \ {0}, NEW f1 \in Nat, NEW f2 \in Nat \ {0}
  PROVE  Close(Cents(Cents(a * r1, r2) * f1, f2), (a * r1) * f1, r2 * f2, <<f1, f2>>)
<1>0. PICK h \in Nat : Cent = 2 * h
  BY HalfCent
<1> DEFINE n == a * r1
           x == Cents(n, r2)
           y == Cents(x * f1, f2)
<1>1. n \in Int
  OBVIOUS
<1> HIDE DEF n
<1>2. x \in Int /\ r2 * x <= n + h * r2 /\ n - h * r2 <= r2 * x
  BY <1>0, <1>1, CentsError
<1> HIDE DEF x
<1>3. x * f1 \in Int
  BY <1>2
<1>4. y \in Int /\ f2 * y <= x * f1 + h * f2 /\ x * f1 - h * f2 <= f2 * y
  BY <1>0, <1>3, CentsError
<1> HIDE DEF y
<1> DEFINE drift == y * (r2 * f2) - n * f1
<1>5. /\ r2 * (f2 * y) <= r2 * (x * f1 + h * f2) /\ r2 * (x * f1 - h * f2) <= r2 * (f2 * y)
  <2>1. f2 * y \in Int /\ x * f1 + h * f2 \in Int /\ x * f1 - h * f2 \in Int
    BY <1>3, <1>4
  <2>2. QED
    BY <1>4, <2>1, Scaled
<1>6. /\ f1 * (r2 * x) <= f1 * (n + h * r2) /\ f1 * (n - h * r2) <= f1 * (r2 * x)
  <2>1. r2 * x \in Int /\ n + h * r2 \in Int /\ n - h * r2 \in Int
    BY <1>1, <1>2
  <2>2. QED
    BY <1>2, <2>1, Scaled
<1> DEFINE A == y * (r2 * f2)
           B == n * f1
           C == (r2 * x) * f1
           E == r2 * f2
           F == r2 * f1
<1>7. /\ A \in Int /\ B \in Int /\ C \in Int /\ E \in Nat \ {0} /\ F \in Nat
      /\ r2 * (f2 * y) = A /\ r2 * (x * f1 + h * f2) = C + h * E /\ r2 * (x * f1 - h * f2) = C - h * E
      /\ f1 * (r2 * x) = C /\ f1 * (n + h * r2) = B + h * F /\ f1 * (n - h * r2) = B - h * F
  BY <1>1, <1>2, <1>3, <1>4
<1> HIDE DEF A, B, C, E, F
<1>8. A - B <= h * E + h * F /\ -(h * E + h * F) <= A - B
  BY <1>5, <1>6, <1>7
<1>9. drift = A - B
  BY DEF A, B
<1> HIDE DEF drift
<1> DEFINE abs == IF drift < 0 THEN -drift ELSE drift
<1>10. abs \in Int /\ abs <= h * E + h * F
  BY <1>7, <1>8, <1>9
<1> HIDE DEF abs
<1>11. f2 * abs <= f2 * (h * E + h * F)
  BY <1>7, <1>10, Scaled
<1>12. f2 * abs = abs * f2
  BY <1>10
<1>13. f2 * (h * E + h * F) = h * (f1 + f2) * (r2 * f2)
  BY DEF E, F
<1>14. PICK bound \in Int : bound = h * (f1 + f2) * (r2 * f2)
  OBVIOUS
<1>15. 2 * (abs * f2) <= 2 * bound
  BY <1>10, <1>11, <1>12, <1>13, <1>14
<1>16. Cent * (f1 + f2) * (r2 * f2) = 2 * bound
  BY <1>0, <1>14
<1>17. 2 * abs * f2 = 2 * (abs * f2)
  BY <1>10
<1>18. 2 * abs * f2 <= Cent * (f1 + f2) * (r2 * f2)
  BY <1>15, <1>16, <1>17
<1>19. QED
  BY <1>18 DEF Close, abs, drift, y, x, n

\* The rate between two currencies is positive, where there is one.
RateFound(money, s) ==
  money.currency # Target(s) =>
    LET rate == PathRate(money.currency, Target(s), s.fx_rates) IN
    rate # None /\ rate[1] \in Nat /\ rate[2] \in Nat \ {0}

LEMMA ConvertedCloses ==
  ASSUME NEW s, NEW money, money.amount \in Int, RateFound(money, s),
         NEW f1 \in Nat, NEW f2 \in Nat \ {0}
  PROVE  CostStaysClose(money, Cents(Converted(money, Target(s), s.fx_rates) * f1, f2), s, <<f1, f2>>)
<1> DEFINE rate == PathRate(money.currency, Target(s), s.fx_rates)
           a == money.amount
<1>1. CASE money.currency = Target(s)
  <2>1. a = a * 1 /\ 1 * f2 = f2
    OBVIOUS
  <2>2. Converted(money, Target(s), s.fx_rates) = Cents(a * 1, 1)
    BY <1>1, <2>1 DEF Converted
  <2>3. ExactAmount(money, s, <<f1, f2>>) = <<(a * 1) * f1, 1 * f2>>
    BY <1>1 DEF ExactAmount
  <2>4. a \in Int /\ 1 \in Nat /\ 1 \in Nat \ {0}
    OBVIOUS
  <2> HIDE DEF a
  <2>5. Close(Cents(Cents(a * 1, 1) * f1, f2), (a * 1) * f1, 1 * f2, <<f1, f2>>)
    BY <2>4, TwoRoundingsClose
  <2>6. QED
    BY <2>2, <2>3, <2>5 DEF CostStaysClose
<1>2. CASE money.currency # Target(s)
  <2>1. rate # None /\ rate[1] \in Nat /\ rate[2] \in Nat \ {0}
    BY <1>2 DEF RateFound
  <2>2. Converted(money, Target(s), s.fx_rates) = Cents(a * rate[1], rate[2])
    BY <1>2, <2>1 DEF Converted
  <2>3. ExactAmount(money, s, <<f1, f2>>) = <<(a * rate[1]) * f1, rate[2] * f2>>
    BY <1>2 DEF ExactAmount
  <2> HIDE DEF rate
  <2>4. Close(Cents(Cents(a * rate[1], rate[2]) * f1, f2), (a * rate[1]) * f1, rate[2] * f2, <<f1, f2>>)
    BY <2>1, TwoRoundingsClose
  <2>5. QED
    BY <2>2, <2>3, <2>4 DEF CostStaysClose
<1>3. QED
  BY <1>1, <1>2

\* The purchase total and the amount of every cost, each rounded after the conversion
\* and after the multiplication, are as close to the exact figures as those two
\* roundings allow, whatever the quantity, the multipliers and the rates.
THEOREM ComponentsStayClose ==
  ASSUME NEW s, s.quantity \in Nat \ {0},
         s.purchase_unit_price.amount \in Int, RateFound(s.purchase_unit_price, s),
         s.purchase_price_multiplier[1] \in Nat, s.purchase_price_multiplier[2] \in Nat \ {0},
         s.cost_multiplier[1] \in Nat, s.cost_multiplier[2] \in Nat \ {0},
         NEW cost, cost.money.amount \in Int, RateFound(cost.money, s)
  PROVE  /\ CostStaysClose(s.purchase_unit_price, PurchaseTotal(s), s,
              <<s.purchase_price_multiplier[1] * s.quantity, s.purchase_price_multiplier[2]>>)
         /\ CostStaysClose(cost.money, CostAmount(s, cost), s,
              <<s.cost_multiplier[1] * (IF cost.basis = "PER_UNIT" THEN s.quantity ELSE 1),
                s.cost_multiplier[2]>>)
<1>1. ASSUME NEW money, money.amount \in Int, RateFound(money, s)
      PROVE  Converted(money, Target(s), s.fx_rates) \in Int
  <2>1. CASE money.currency = Target(s)
    <3>1. Converted(money, Target(s), s.fx_rates) = Cents(money.amount, 1)
      BY <2>1 DEF Converted
    <3>2. 1 \in Nat \ {0}
      OBVIOUS
    <3>3. QED
      BY <1>1, <3>1, <3>2, CentsInt
  <2>2. CASE money.currency # Target(s)
    <3> DEFINE rate == PathRate(money.currency, Target(s), s.fx_rates)
    <3>1. rate # None /\ money.amount * rate[1] \in Int /\ rate[2] \in Nat \ {0}
      BY <1>1, <2>2 DEF RateFound
    <3>2. Converted(money, Target(s), s.fx_rates) = Cents(money.amount * rate[1], rate[2])
      BY <2>2, <3>1 DEF Converted
    <3> HIDE DEF rate
    <3>3. QED
      BY <3>1, <3>2, CentsInt
  <2>3. QED
    BY <2>1, <2>2
<1>2. CostStaysClose(s.purchase_unit_price, PurchaseTotal(s), s,
        <<s.purchase_price_multiplier[1] * s.quantity, s.purchase_price_multiplier[2]>>)
  <2> DEFINE x == Converted(s.purchase_unit_price, Target(s), s.fx_rates)
             p1 == s.purchase_price_multiplier[1]
             p2 == s.purchase_price_multiplier[2]
  <2>1. x \in Int
    BY <1>1
  <2>2. PurchaseTotal(s) = Cents(x * p1 * s.quantity, p2)
    BY DEF PurchaseTotal
  <2>3. CostStaysClose(s.purchase_unit_price, Cents(x * (p1 * s.quantity), p2), s, <<p1 * s.quantity, p2>>)
    <3>1. p1 * s.quantity \in Nat
      OBVIOUS
    <3>2. QED
      BY <3>1, ConvertedCloses
  <2> HIDE DEF x
  <2>4. x * p1 * s.quantity = x * (p1 * s.quantity)
    BY <2>1
  <2>5. QED
    BY <2>2, <2>3, <2>4
<1>3. CostStaysClose(cost.money, CostAmount(s, cost), s,
        <<s.cost_multiplier[1] * (IF cost.basis = "PER_UNIT" THEN s.quantity ELSE 1),
          s.cost_multiplier[2]>>)
  <2> DEFINE x == Converted(cost.money, Target(s), s.fx_rates)
             m1 == s.cost_multiplier[1]
             m2 == s.cost_multiplier[2]
             units == IF cost.basis = "PER_UNIT" THEN s.quantity ELSE 1
  <2>1. x \in Int /\ units \in Nat /\ m1 * units \in Nat
    BY <1>1
  <2>2. CostAmount(s, cost) = Cents((IF cost.basis = "PER_UNIT" THEN x * s.quantity ELSE x) * m1, m2)
    BY DEF CostAmount
  <2>3. CostStaysClose(cost.money, Cents(x * (m1 * units), m2), s, <<m1 * units, m2>>)
    BY <2>1, ConvertedCloses
  <2> HIDE DEF x
  <2>4. (IF cost.basis = "PER_UNIT" THEN x * s.quantity ELSE x) * m1 = x * (m1 * units)
    BY <2>1
  <2>5. QED
    BY <2>2, <2>3, <2>4
<1>4. QED
  BY <1>2, <1>3

-----------------------------------------------------------------------------
(* The verdict over the stages.                                            *)

LEMMA PenaltyGrows ==
  ASSUME NEW S, NEW T, S \subseteq T, IsFiniteSet(T)
  PROVE  /\ ConfidenceScore(S) \in 0..100
         /\ ConfidenceScore(T) <= ConfidenceScore(S)
<1> DEFINE Errors(I) == {i \in I : i.severity = "ERROR"}
           Warnings(I) == {i \in I : i.severity = "WARNING"}
<1>1. /\ IsFiniteSet(Errors(T)) /\ IsFiniteSet(Warnings(T))
      /\ Errors(S) \subseteq Errors(T) /\ Warnings(S) \subseteq Warnings(T)
  BY FS_Subset
<1>2. /\ IsFiniteSet(Errors(S)) /\ IsFiniteSet(Warnings(S))
      /\ Cardinality(Errors(S)) <= Cardinality(Errors(T))
      /\ Cardinality(Warnings(S)) <= Cardinality(Warnings(T))
  BY <1>1, FS_Subset
<1>3. /\ Cardinality(Errors(S)) \in Nat /\ Cardinality(Warnings(S)) \in Nat
      /\ Cardinality(Errors(T)) \in Nat /\ Cardinality(Warnings(T)) \in Nat
  BY <1>1, <1>2, FS_CardinalityType
<1> DEFINE penalty(I) == 30 * Cardinality(Errors(I)) + 10 * Cardinality(Warnings(I))
           score(I) == IF penalty(I) >= 100 THEN 0 ELSE 100 - penalty(I)
<1>4. ConfidenceScore(S) = score(S) /\ ConfidenceScore(T) = score(T)
  BY DEF ConfidenceScore, Quantify
<1>5. \A a, b, c, d \in Nat :
        a <= c /\ b <= d =>
          /\ 30 * a + 10 * b \in Nat
          /\ 30 * a + 10 * b <= 30 * c + 10 * d
          /\ 30 * c + 10 * d \in Nat
  OBVIOUS
<1>6. penalty(S) \in Nat /\ penalty(T) \in Nat /\ penalty(S) <= penalty(T)
  BY <1>2, <1>3, <1>5
<1>7. score(S) \in 0..100 /\ score(T) <= score(S)
  <2> HIDE DEF penalty
  <2>1. QED
    BY <1>6
<1>8. QED
  BY <1>4, <1>7

\* What a verdict is: its disposition, confidence and issues are of one set of issues.
IsValidation(v) == IsFiniteSet(v.issues) /\ v = Validation(v.issues, v.evaluated_at)

LEMMA VerdictFields ==
  ASSUME NEW issues, NEW at
  PROVE  /\ Validation(issues, at).issues = issues
         /\ Validation(issues, at).evaluated_at = at
         /\ Validation(issues, at).disposition = Disposition(issues)
         /\ Validation(issues, at).confidence_score = ConfidenceScore(issues)
  BY DEF Validation

LEMMA MoreIssuesAreWorse ==
  ASSUME NEW v, IsValidation(v), NEW more, IsFiniteSet(more)
  PROVE  LET w == Validation(v.issues \cup more, v.evaluated_at) IN
         /\ IsValidation(w)
         /\ v.issues \subseteq w.issues
         /\ Severity(w.disposition) >= Severity(v.disposition)
         /\ w.confidence_score <= v.confidence_score
         /\ w.evaluated_at = v.evaluated_at
<1> DEFINE S == v.issues
           T == v.issues \cup more
           w == Validation(T, v.evaluated_at)
<1>1. IsFiniteSet(S) /\ IsFiniteSet(T) /\ S \subseteq T
  BY FS_Union DEF IsValidation
<1>2. /\ v.disposition = Disposition(S) /\ v.confidence_score = ConfidenceScore(S)
      /\ w.disposition = Disposition(T) /\ w.confidence_score = ConfidenceScore(T)
      /\ w.issues = T /\ w.evaluated_at = v.evaluated_at
  BY VerdictFields DEF IsValidation
<1>3. Severity(Disposition(T)) >= Severity(Disposition(S))
  <2>1. HasError(S) => HasError(T)
    BY <1>1 DEF HasError
  <2>2. S # {} => T # {}
    OBVIOUS
  <2>3. QED
    BY <2>1, <2>2 DEF Severity, Disposition
<1>4. ConfidenceScore(T) <= ConfidenceScore(S)
  BY <1>1, PenaltyGrows
<1>5. IsValidation(w)
  BY <1>1, <1>2 DEF IsValidation
<1>6. QED
  BY <1>1, <1>2, <1>3, <1>4, <1>5

LEMMA IssuesOfMatchesFinite ==
  ASSUME NEW found, IsFiniteSet(DOMAIN found)
  PROVE  IsFiniteSet(UNION {MatchIssues(m) : m \in ToSet(found)})
<1> DEFINE T == {MatchIssues(m) : m \in ToSet(found)}
           f == [i \in DOMAIN found |-> MatchIssues(found[i])]
<1>1. f \in Surjection(DOMAIN found, T)
  BY DEF Surjection, ToSet
<1>2. IsFiniteSet(T)
  <2> HIDE DEF f, T
  <2>1. QED
    BY <1>1, FS_Surjection
<1>3. ASSUME NEW m PROVE IsFiniteSet(MatchIssues(m))
  BY FS_EmptySet, FS_Singleton, FS_Union DEF MatchIssues, If
<1>4. \A I \in T : IsFiniteSet(I)
  BY <1>3
<1>5. QED
  BY <1>2, <1>4, FS_UNION

LEMMA IssuesOfRankingsFinite ==
  ASSUME NEW ranked, IsFiniteSet(ranked)
  PROVE  /\ IsFiniteSet(GroupIssues(ranked))
         /\ IsFiniteSet(UNION {RankingIssues(r) : r \in ranked})
<1>1. IsFiniteSet(GroupIssues(ranked))
  <2> DEFINE comparable(g) == {r \in ranked : r.comparison_group = g /\ r.rankable}
             G == {r.comparison_group : r \in ranked}
             few == {h \in G : Cardinality(comparable(h)) < 2}
             T == {Warning("INSUFFICIENT_SUPPLIER_COMPARISON",
                           <<"SUPPLIER_COMPARISON_GROUP", g>>) : g \in few}
             f == [r \in ranked |-> r.comparison_group]
             h == [g \in few |-> Warning("INSUFFICIENT_SUPPLIER_COMPARISON",
                                         <<"SUPPLIER_COMPARISON_GROUP", g>>)]
  <2>1. f \in Surjection(ranked, G)
    BY DEF Surjection
  <2>2. IsFiniteSet(G)
    <3> HIDE DEF f, G
    <3>1. QED
      BY <2>1, FS_Surjection
  <2>3. IsFiniteSet(few)
    BY <2>2, FS_Subset
  <2>4. h \in Surjection(few, T)
    <3> HIDE DEF few
    <3>1. QED
      BY DEF Surjection
  <2>5. IsFiniteSet(T)
    <3> HIDE DEF few, T, h
    <3>1. QED
      BY <2>3, <2>4, FS_Surjection
  <2>6. GroupIssues(ranked) = T
    BY DEF GroupIssues
  <2>7. QED
    BY <2>5, <2>6
<1>2. IsFiniteSet(UNION {RankingIssues(r) : r \in ranked})
  <2> DEFINE T == {RankingIssues(r) : r \in ranked}
             f == [r \in ranked |-> RankingIssues(r)]
  <2>1. f \in Surjection(ranked, T)
    BY DEF Surjection
  <2>2. IsFiniteSet(T)
    <3> HIDE DEF f, T
    <3>1. QED
      BY <2>1, FS_Surjection
  <2>3. ASSUME NEW r PROVE IsFiniteSet(RankingIssues(r))
    BY FS_EmptySet, FS_Singleton, FS_Union DEF RankingIssues, If
  <2>4. \A I \in T : IsFiniteSet(I)
    BY <2>3
  <2>5. QED
    BY <2>2, <2>4, FS_UNION
<1>3. QED
  BY <1>1, <1>2

\* The stages after the first keep every issue found before them, never lower the
\* disposition, never raise the confidence and keep the time of the evaluation,
\* whatever the matches and the rankings are (validate_product_matches,
\* validate_supplier_rankings).
THEOREM LaterStagesOnlyAdd ==
  ASSUME NEW v, IsValidation(v),
         NEW w, \/ \E found : IsFiniteSet(DOMAIN found) /\ w = ValidateProductMatches(v, found)
                \/ \E ranked : IsFiniteSet(ranked) /\ w = ValidateSupplierRankings(v, ranked)
  PROVE  /\ IsValidation(w)
         /\ v.issues \subseteq w.issues
         /\ Severity(w.disposition) >= Severity(v.disposition)
         /\ w.confidence_score <= v.confidence_score
         /\ w.evaluated_at = v.evaluated_at
<1>1. PICK more : IsFiniteSet(more) /\ w = Validation(v.issues \cup more, v.evaluated_at)
  <2>1. CASE \E found : IsFiniteSet(DOMAIN found) /\ w = ValidateProductMatches(v, found)
    BY <2>1, IssuesOfMatchesFinite DEF ValidateProductMatches
  <2>2. CASE \E ranked : IsFiniteSet(ranked) /\ w = ValidateSupplierRankings(v, ranked)
    <3>1. PICK ranked : IsFiniteSet(ranked) /\ w = ValidateSupplierRankings(v, ranked)
      BY <2>2
    <3> DEFINE more == GroupIssues(ranked) \cup UNION {RankingIssues(r) : r \in ranked}
    <3>2. IsFiniteSet(more)
      BY <3>1, IssuesOfRankingsFinite, FS_Union
    <3>3. w = Validation(v.issues \cup more, v.evaluated_at)
      <4>1. v.issues \cup more = v.issues \cup GroupIssues(ranked)
                                  \cup UNION {RankingIssues(r) : r \in ranked}
        OBVIOUS
      <4>2. QED
        BY <3>1, <4>1 DEF ValidateSupplierRankings
    <3>4. QED
      BY <3>2, <3>3
  <2>3. QED
    BY <2>1, <2>2
<1>2. QED
  BY <1>1, MoreIssuesAreWorse

\* A case with an offer to rank is never PASSED: each offer lacks the name of its
\* supplier or asks for the due diligence of it (SUPPLIER_DUE_DILIGENCE_REQUIRED).
THEOREM OffersAlwaysAskForMore ==
  ASSUME NEW v, NEW ranked, ranked # {}
  PROVE  ValidateSupplierRankings(v, ranked).disposition # "PASSED"
<1>1. PICK r : r \in ranked
  OBVIOUS
<1>2. RankingIssues(r) # {}
  BY DEF RankingIssues, If
<1> DEFINE issues == v.issues \cup GroupIssues(ranked)
                       \cup UNION {RankingIssues(x) : x \in ranked}
<1>3. issues # {}
  BY <1>1, <1>2
<1>4. ValidateSupplierRankings(v, ranked).disposition = Disposition(issues)
  BY VerdictFields DEF ValidateSupplierRankings
<1> HIDE DEF issues
<1>5. QED
  BY <1>3, <1>4 DEF Disposition

-----------------------------------------------------------------------------
(* Induction over the numbers.                                             *)

\* Every non-empty set of numbers has a least one.
LEMMA LeastNumber ==
  ASSUME NEW T \in SUBSET Nat, T # {}
  PROVE  \E n \in T : \A m \in T : n <= m
<1> DEFINE U == {0 .. n : n \in T}
           R == StrictSubsetOrdering(Nat)
<1>1. U \subseteq FiniteSubsetsOf(Nat) /\ U # {}
  <2>1. \A n \in T : IsFiniteSet(0 .. n) /\ 0 .. n \in SUBSET Nat
    BY FS_Interval
  <2>. QED
    BY <2>1 DEF FiniteSubsetsOf
<1>2. IsWellFoundedOn(R, FiniteSubsetsOf(Nat))
  BY FS_StrictSubsetOrderingWellFounded
<1>3. PICK x \in U : \A y \in U : ~(<<y, x>> \in R)
  <2> HIDE DEF U, R
  <2>. QED
    BY <1>1, <1>2, WFMin
<1>4. PICK n \in T : x = 0 .. n
  OBVIOUS
<1>5. ASSUME NEW m \in T, m < n PROVE FALSE
  <2>1. 0 .. m \in U /\ 0 .. m \subseteq x /\ 0 .. m # x
    BY <1>4, <1>5
  <2>2. 0..m \in SUBSET Nat /\ x \in SUBSET Nat
    BY <1>4
  <2>. QED
    BY <1>3, <2>1, <2>2 DEF StrictSubsetOrdering
<1>. QED
  BY <1>5

\* Induction up to n, on a set in place of a predicate.
LEMMA UpTo ==
  ASSUME NEW n \in Nat, NEW G, 0 \in G, \A k \in 0 .. n - 1 : k \in G => k + 1 \in G
  PROVE  \A k \in 0 .. n : k \in G
<1> DEFINE T == {k \in 0 .. n : k \notin G}
<1> SUFFICES ASSUME T # {} PROVE FALSE
  OBVIOUS
<1>1. PICK m \in T : \A k \in T : m <= k
  <2>1. T \in SUBSET Nat
    OBVIOUS
  <2> HIDE DEF T
  <2>. QED
    BY <2>1, LeastNumber
<1>2. m \in 1 .. n
  OBVIOUS
<1>3. m - 1 \in 0 .. n - 1 /\ m - 1 \notin T
  BY <1>1, <1>2
<1>4. m - 1 \in G /\ (m - 1) + 1 = m
  BY <1>3
<1>. QED
  BY <1>3, <1>4

\* The hypothesis of FoldTheory.
LEMMA NumbersInduct ==
  \A n \in Nat : \A G :
    (0 \in G /\ \A k \in 0 .. n - 1 : k \in G => k + 1 \in G) => \A k \in 0 .. n : k \in G
  BY UpTo

-----------------------------------------------------------------------------
(* The records of a parsed case.                                           *)

\* No value counts the body of the loop twice: one parameter is not used.
RetainStep(p, kept, o) ==
  IF \E i \in DOMAIN kept : ObservationFingerprint(kept[i]) = ObservationFingerprint(o)
    THEN kept ELSE Append(kept, o)

Retaining == INSTANCE FoldTheory WITH Op <- RetainStep

PositiveRatio == (Nat \ {0}) \X (Nat \ {0})

TypedOffer(o) ==
  /\ o.observation_id \in Nat
  /\ IsFiniteSet(ToSet(o.product_name))
  /\ o.unit_price.amount \in Nat
  /\ IsFiniteSet(DOMAIN o.product_attributes)
  /\ o.evidence.confidence \in Confidence
  /\ o.evidence.classification \in EvidenceClass

TypedScenario(s) ==
  /\ s.name \in ScenarioName
  /\ s.quantity \in Nat \ {0}
  /\ s.purchase_unit_price.amount \in Int
  /\ s.purchase_price_multiplier \in PositiveRatio
  /\ s.cost_multiplier \in PositiveRatio
  /\ s.unexpected_cost_rate \in Nat \X (Nat \ {0})
  /\ Array(s.costs) /\ \A i \in DOMAIN s.costs : s.costs[i].money.amount \in Nat
  /\ Array(s.fx_rates) /\ \A i \in DOMAIN s.fx_rates : s.fx_rates[i].rate \in PositiveRatio

CaseFields == {"case_id", "product_name", "quantity", "destination", "observations",
               "supplier_identity_claims", "scenarios", "assumptions", "unknowns",
               "product_attributes"}

TypedCase(c) ==
  /\ DOMAIN c = CaseFields
  /\ IsFiniteSet(ToSet(c.product_name))
  /\ IsFiniteSet(DOMAIN c.product_attributes)
  /\ Array(c.observations)
  /\ \A i \in DOMAIN c.observations : TypedOffer(c.observations[i])
  /\ \A i, j \in DOMAIN c.observations :
       i # j => c.observations[i].observation_id # c.observations[j].observation_id
  /\ Array(c.supplier_identity_claims)
  /\ Array(c.scenarios)
  /\ \A i \in DOMAIN c.scenarios : TypedScenario(c.scenarios[i])

LEMMA ArrayFacts ==
  ASSUME NEW v, Array(v)
  PROVE  /\ DOMAIN v = 1 .. Len(v) /\ Len(v) \in Nat
         /\ v \in Seq(ToSet(v))
         /\ IsFiniteSet(ToSet(v)) /\ IsFiniteSet(DOMAIN v)
<1>1. v \in Seq(ToSet(v))
  BY DEF Array
<1>2. DOMAIN v = 1 .. Len(v) /\ Len(v) \in Nat
  BY <1>1
<1>3. IsFiniteSet(DOMAIN v)
  BY <1>2, FS_Interval
<1>4. IsFiniteSet({v[i] : i \in DOMAIN v})
  <2> DEFINE f == [i \in DOMAIN v |-> v[i]]
             T == {v[i] : i \in DOMAIN v}
  <2>1. f \in Surjection(DOMAIN v, T)
    BY DEF Surjection
  <2>. QED
    BY <1>3, <2>1, FS_Surjection
<1>. QED
  BY <1>1, <1>2, <1>3, <1>4 DEF ToSet

\* An array made from the numbers 1 .. n.
LEMMA ArrayOf ==
  ASSUME NEW n \in Nat, NEW f, f = [i \in 1 .. n |-> f[i]]
  PROVE  Array(f)
<1>1. f \in [1 .. n -> ToSet(f)]
  BY DEF ToSet
<1>. QED
  BY <1>1 DEF Array

LEMMA EmptyArray == Array(<<>>) /\ DOMAIN <<>> = {} /\ IsFiniteSet({})
  BY FS_EmptySet DEF Array

LEMMA ParsedOffer ==
  ASSUME NEW o, ObservationShape(o), ObservationReadable(o),
         ObservationAccepted(ParsedObservation(o))
  PROVE  TypedOffer(ParsedObservation(o))
<1> DEFINE q == [o EXCEPT !.product_attributes = Default(o.product_attributes, <<>>),
                          !.market_layer = Default(o.market_layer, "UNKNOWN"),
                          !.evidence = [o.evidence EXCEPT !.confidence = Default(o.evidence.confidence, "UNKNOWN")]]
           r == ParsedObservation(o)
<1>1. r = Observation(q)
  BY DEF ParsedObservation
<1>2. /\ q.observation_id = o.observation_id /\ q.product_name = o.product_name
      /\ q.unit_price = o.unit_price
      /\ q.product_attributes = Default(o.product_attributes, <<>>)
      /\ DOMAIN q = DOMAIN o
  BY DEF ObservationShape
<1>3. /\ r.observation_id = q.observation_id /\ r.product_name = q.product_name
      /\ r.unit_price = Money(q.unit_price) /\ r.product_attributes = q.product_attributes
  <2> HIDE DEF q, r
  <2>. QED
    BY <1>1, <1>2 DEF Observation, ObservationShape
<1> HIDE DEF q, r
<1>4. r.unit_price.amount \in Nat
  <2>1. o.unit_price # Absent
    BY DEF ObservationReadable, Present
  <2>2. o.unit_price.amount \in Int \cup {NaN} /\ DOMAIN o.unit_price = {"amount", "currency"}
    BY <2>1 DEF ObservationShape, MoneyShape
  <2>3. r.unit_price.amount = o.unit_price.amount
    BY <1>2, <1>3, <2>2 DEF Money
  <2>4. r.unit_price.amount # NaN /\ r.unit_price.amount >= 0
    BY DEF r, ObservationAccepted, MoneyAccepted
  <2>. QED
    BY <2>2, <2>3, <2>4
<1>5. r.observation_id \in Nat /\ IsFiniteSet(ToSet(r.product_name))
  <2>1. o.observation_id # Absent /\ o.product_name # Absent
    BY DEF ObservationReadable, Present
  <2>. QED
    BY <1>2, <1>3, <2>1, ArrayFacts DEF ObservationShape
<1>6. IsFiniteSet(DOMAIN r.product_attributes)
  <2>1. CASE o.product_attributes = Absent
    <3>1. r.product_attributes = <<>>
      BY <1>2, <1>3, <2>1 DEF Default
    <3>. QED
      BY <3>1, EmptyArray
  <2>2. CASE o.product_attributes # Absent
    <3>1. Default(o.product_attributes, <<>>) = o.product_attributes
      BY <2>2 DEF Default
    <3>2. Given(o.product_attributes)
      BY <2>2, <3>1 DEF ObservationReadable, Attributes, Given
    <3>. QED
      BY <1>2, <1>3, <3>1, <3>2 DEF ObservationShape
  <2>. QED
    BY <2>1, <2>2
<1>7. r.evidence.confidence \in Confidence /\ r.evidence.classification \in EvidenceClass
  BY DEF r, ObservationAccepted, EvidenceAccepted
<1>. QED
  BY <1>4, <1>5, <1>6, <1>7 DEF TypedOffer, r

LEMMA ParsedRates ==
  ASSUME NEW rates, RatesShape(rates), ObjectList(rates, MAX_FX_RATES),
         NEW parsed, parsed = [i \in DOMAIN rates |-> FXRate(rates[i])],
         \A i \in DOMAIN parsed : RateAccepted(parsed[i])
  PROVE  Array(parsed) /\ \A i \in DOMAIN parsed : parsed[i].rate \in PositiveRatio
<1>1. Array(rates) /\ \A i \in DOMAIN rates : RateShape(rates[i])
  BY DEF RatesShape, Given, ObjectList
<1>2. Array(parsed)
  <2>1. PICK n \in Nat : DOMAIN rates = 1 .. n
    BY <1>1, ArrayFacts
  <2>2. DOMAIN parsed = 1 .. n /\ parsed = [i \in 1 .. n |-> parsed[i]]
    BY <2>1
  <2>. QED
    BY <2>2, ArrayOf
<1>3. ASSUME NEW i \in DOMAIN parsed PROVE parsed[i].rate \in PositiveRatio
  <2>1. i \in DOMAIN rates /\ parsed[i] = FXRate(rates[i]) /\ RateShape(rates[i])
    BY <1>1
  <2>2. parsed[i].rate = rates[i].rate /\ rates[i].rate \in Ratio \cup {NaN}
    BY <2>1 DEF FXRate, RateShape
  <2>3. parsed[i].rate # NaN /\ parsed[i].rate[1] > 0
    BY DEF RateAccepted
  <2>. QED
    BY <2>2, <2>3 DEF Ratio, PositiveRatio
<1>. QED
  BY <1>2, <1>3

LEMMA ParsedScenarioTyped ==
  ASSUME NEW raw, BundleShape(raw), BundleReadable(raw),
         NEW s, ScenarioShape(s), ScenarioReadable(s),
         ScenarioAccepted(ParsedScenario(raw, s))
  PROVE  TypedScenario(ParsedScenario(raw, s))
<1> DEFINE rates == Default(s.fx_rates, Default(raw.fx_rates, <<>>))
           r == ParsedScenario(raw, s)
<1>1. /\ r.name = s.name
      /\ r.quantity = Default(s.quantity, raw.quantity)
      /\ r.purchase_unit_price = Money(s.purchase_unit_price)
      /\ r.costs = [i \in DOMAIN s.costs |-> CostInput(s.costs[i])]
      /\ r.fx_rates = [i \in DOMAIN rates |-> FXRate(rates[i])]
      /\ r.purchase_price_multiplier = Default(s.purchase_price_multiplier, <<1, 1>>)
      /\ r.cost_multiplier = Default(s.cost_multiplier, <<1, 1>>)
      /\ r.unexpected_cost_rate = Default(s.unexpected_cost_rate, <<0, 1>>)
  <2> HIDE DEF rates
  <2>. QED
    BY DEF ParsedScenario, ScenarioShape, rates
<1>2. r.name \in ScenarioName /\ r.quantity \in Nat \ {0}
  <2>1. r.quantity \in Int
    BY <1>1 DEF Default, ScenarioShape, BundleShape, BundleReadable, Present
  <2>. QED
    BY <2>1 DEF ScenarioAccepted
<1>3. r.purchase_unit_price.amount \in Int
  <2>1. s.purchase_unit_price # Absent
    BY DEF ScenarioReadable, Present
  <2>2. MoneyShape(s.purchase_unit_price)
    BY <2>1 DEF ScenarioShape
  <2>3. r.purchase_unit_price.amount = s.purchase_unit_price.amount
    BY <1>1, <2>2 DEF MoneyShape, Money
  <2>4. r.purchase_unit_price.amount # NaN
    BY DEF ScenarioAccepted, MoneyAccepted
  <2>. QED
    BY <2>2, <2>3, <2>4 DEF MoneyShape
<1>4. /\ r.purchase_price_multiplier \in PositiveRatio /\ r.cost_multiplier \in PositiveRatio
      /\ r.unexpected_cost_rate \in Nat \X (Nat \ {0})
  <2>1. /\ r.purchase_price_multiplier \in Ratio /\ r.cost_multiplier \in Ratio
        /\ r.unexpected_cost_rate \in Ratio
    BY <1>1 DEF Default, ScenarioShape, Ratio
  <2>2. /\ r.purchase_price_multiplier[1] > 0 /\ r.cost_multiplier[1] > 0
        /\ 0 <= r.unexpected_cost_rate[1]
    BY DEF ScenarioAccepted
  <2> HIDE DEF r
  <2>. QED
    BY <2>1, <2>2 DEF Ratio, PositiveRatio
<1>5. Array(r.costs) /\ \A i \in DOMAIN r.costs : r.costs[i].money.amount \in Nat
  <2>1. Array(s.costs) /\ \A i \in DOMAIN s.costs : CostShape(s.costs[i])
    BY DEF ScenarioShape, Given, ScenarioReadable, ObjectList
  <2>2. PICK n \in Nat : DOMAIN s.costs = 1 .. n
    BY <2>1, ArrayFacts
  <2> HIDE DEF r
  <2>3. DOMAIN r.costs = 1 .. n /\ r.costs = [i \in 1 .. n |-> r.costs[i]]
    BY <1>1, <2>2
  <2>4. ASSUME NEW i \in DOMAIN r.costs PROVE r.costs[i].money.amount \in Nat
    <3>1. r.costs[i] = CostInput(s.costs[i]) /\ CostShape(s.costs[i])
      BY <1>1, <2>1
    <3>2. r.costs[i].money = Money(s.costs[i].money)
      BY <3>1 DEF CostInput, CostShape
    <3>3. r.costs[i].money.amount = s.costs[i].money.amount
          /\ s.costs[i].money.amount \in Int \cup {NaN}
      BY <3>1, <3>2 DEF CostShape, MoneyShape, Money
    <3>4. CostAccepted(r.costs[i])
      BY DEF ScenarioAccepted, r
    <3>5. r.costs[i].money.amount # NaN /\ r.costs[i].money.amount >= 0
      BY <3>4 DEF CostAccepted, MoneyAccepted
    <3>. QED
      BY <3>3, <3>5
  <2>. QED
    BY <2>3, <2>4, ArrayOf
<1>6. Array(r.fx_rates) /\ \A i \in DOMAIN r.fx_rates : r.fx_rates[i].rate \in PositiveRatio
  <2>1. RatesShape(<<>>)
    BY EmptyArray DEF RatesShape
  <2>2. ObjectList(Default(raw.fx_rates, <<>>), MAX_FX_RATES)
    BY DEF BundleReadable
  <2>3. RatesShape(rates) /\ ObjectList(rates, MAX_FX_RATES)
    <3>1. CASE s.fx_rates = Absent
      <4>1. rates = Default(raw.fx_rates, <<>>)
        BY <3>1 DEF Default
      <4>2. RatesShape(Default(raw.fx_rates, <<>>))
        BY <2>1 DEF Default, BundleShape
      <4>. QED
        BY <2>2, <4>1, <4>2
    <3>2. CASE s.fx_rates # Absent
      <4>1. rates = s.fx_rates
        BY <3>2 DEF Default
      <4>. QED
        BY <3>2, <4>1 DEF ScenarioShape, ScenarioReadable
    <3>. QED
      BY <3>1, <3>2
  <2>4. \A i \in DOMAIN r.fx_rates : RateAccepted(r.fx_rates[i])
    BY DEF ScenarioAccepted
  <2> HIDE DEF r, rates
  <2>. QED
    BY <1>1, <2>3, <2>4, ParsedRates
<1>. QED
  <2> HIDE DEF r
  <2>1. TypedScenario(r)
    BY <1>2, <1>3, <1>4, <1>5, <1>6 DEF TypedScenario
  <2>. QED
    BY <2>1 DEF r

LEMMA ParsedIsTyped ==
  ASSUME NEW raw, BundleShape(raw), BundleReadable(raw), RecordsAccepted(ParsedCase(raw))
  PROVE  TypedCase(ParsedCase(raw))
<1> DEFINE c == ParsedCase(raw)
<1>1. /\ c.product_name = raw.product_name
      /\ c.observations = [i \in DOMAIN raw.observations |-> ParsedObservation(raw.observations[i])]
      /\ c.supplier_identity_claims = Default(raw.supplier_identity_claims, <<>>)
      /\ c.scenarios = [i \in DOMAIN raw.scenarios |-> ParsedScenario(raw, raw.scenarios[i])]
      /\ c.product_attributes = Default(raw.product_attributes, <<>>)
      /\ DOMAIN c = CaseFields
  BY DEF ParsedCase, CaseFields
<1>2. RecordsAccepted(c)
  OBVIOUS
<1> HIDE DEF c
<1>3. /\ Array(raw.observations)
      /\ \A i \in DOMAIN raw.observations : ObservationShape(raw.observations[i])
      /\ Array(raw.scenarios)
      /\ \A i \in DOMAIN raw.scenarios : ScenarioShape(raw.scenarios[i])
  BY DEF BundleShape, BundleReadable, ObjectList, Given
<1>4. IsFiniteSet(ToSet(c.product_name))
  <2>1. raw.product_name # Absent
    BY DEF BundleReadable, Present
  <2>. QED
    BY <1>1, <2>1, ArrayFacts DEF BundleShape
<1>5. IsFiniteSet(DOMAIN c.product_attributes)
  <2>1. CASE raw.product_attributes = Absent
    <3>1. c.product_attributes = <<>>
      BY <1>1, <2>1 DEF Default
    <3>. QED
      BY <3>1, EmptyArray
  <2>2. CASE raw.product_attributes # Absent
    <3>1. Default(raw.product_attributes, <<>>) = raw.product_attributes
      BY <2>2 DEF Default
    <3>2. Given(raw.product_attributes)
      BY <2>2, <3>1 DEF BundleReadable, Attributes, Given
    <3>. QED
      BY <1>1, <3>1, <3>2 DEF BundleShape
  <2>. QED
    BY <2>1, <2>2
<1>6. Array(c.observations) /\ \A i \in DOMAIN c.observations : TypedOffer(c.observations[i])
  <2>1. PICK n \in Nat : DOMAIN raw.observations = 1 .. n
    BY <1>3, ArrayFacts
  <2>2. DOMAIN c.observations = 1 .. n /\ c.observations = [i \in 1 .. n |-> c.observations[i]]
    BY <1>1, <2>1
  <2>3. ASSUME NEW i \in DOMAIN c.observations PROVE TypedOffer(c.observations[i])
    <3>1. i \in DOMAIN raw.observations
          /\ c.observations[i] = ParsedObservation(raw.observations[i])
      BY <1>1
    <3>2. ObservationReadable(raw.observations[i]) /\ ObservationAccepted(c.observations[i])
      BY <1>2, <3>1 DEF BundleReadable, RecordsAccepted
    <3>. QED
      BY <1>3, <3>1, <3>2, ParsedOffer
  <2>. QED
    BY <2>2, <2>3, ArrayOf
<1>7. Array(c.scenarios) /\ \A i \in DOMAIN c.scenarios : TypedScenario(c.scenarios[i])
  <2>1. PICK n \in Nat : DOMAIN raw.scenarios = 1 .. n
    BY <1>3, ArrayFacts
  <2>2. DOMAIN c.scenarios = 1 .. n /\ c.scenarios = [i \in 1 .. n |-> c.scenarios[i]]
    BY <1>1, <2>1
  <2>3. ASSUME NEW i \in DOMAIN c.scenarios PROVE TypedScenario(c.scenarios[i])
    <3>1. i \in DOMAIN raw.scenarios /\ c.scenarios[i] = ParsedScenario(raw, raw.scenarios[i])
      BY <1>1
    <3>2. ScenarioReadable(raw.scenarios[i]) /\ ScenarioAccepted(c.scenarios[i])
      BY <1>2, <3>1 DEF BundleReadable, RecordsAccepted
    <3>. QED
      BY <1>3, <3>1, <3>2, ParsedScenarioTyped
  <2>. QED
    BY <2>2, <2>3, ArrayOf
<1>8. Array(c.supplier_identity_claims)
  BY <1>1, EmptyArray DEF Default, BundleShape, BundleReadable, ObjectList, Given
<1>9. \A i, j \in DOMAIN c.observations :
        i # j => c.observations[i].observation_id # c.observations[j].observation_id
  BY <1>2 DEF RecordsAccepted, CaseAccepted, Distinct
<1>. QED
  <2>1. TypedCase(c)
    BY <1>1, <1>4, <1>5, <1>6, <1>7, <1>8, <1>9 DEF TypedCase
  <2>. QED
    BY <2>1 DEF c

-----------------------------------------------------------------------------
(* The case without its duplicates.                                        *)

LEMMA AppendFacts ==
  ASSUME NEW S, NEW s \in Seq(S), NEW x \in S
  PROVE  /\ Append(s, x) \in Seq(S)
         /\ DOMAIN Append(s, x) = DOMAIN s \cup {Len(s) + 1} /\ Len(s) + 1 \notin DOMAIN s
         /\ Append(s, x)[Len(s) + 1] = x
         /\ \A i \in DOMAIN s : Append(s, x)[i] = s[i]
  OBVIOUS

UniqueIds(s) ==
  \A i, j \in DOMAIN s : i # j => s[i].observation_id # s[j].observation_id

\* The first k elements are what a sequence is made of, with ids of their own.
Sifted(kept, s, k) ==
  /\ UniqueIds(kept)
  /\ \A i \in DOMAIN kept : \E m \in 1 .. k : kept[i] = s[m]

LEMMA RetainSifts ==
  ASSUME NEW s, Array(s), UniqueIds(s), NEW k \in 1 .. Len(s),
         NEW kept \in Seq(ToSet(s)), Sifted(kept, s, k - 1)
  PROVE  Sifted(RetainStep(0, kept, s[k]), s, k)
<1>1. DOMAIN s = 1 .. Len(s) /\ Len(s) \in Nat /\ s[k] \in ToSet(s) /\ k \in DOMAIN s
  BY ArrayFacts DEF ToSet
<1>2. Sifted(kept, s, k)
  BY DEF Sifted
<1>3. Sifted(Append(kept, s[k]), s, k)
  <2> DEFINE longer == Append(kept, s[k])
             n == Len(kept) + 1
  <2>1. /\ DOMAIN longer = DOMAIN kept \cup {n} /\ n \notin DOMAIN kept
        /\ longer[n] = s[k] /\ \A i \in DOMAIN kept : longer[i] = kept[i]
    BY <1>1, AppendFacts
  <2> HIDE DEF longer, n
  <2>2. \A i \in DOMAIN kept : kept[i].observation_id # s[k].observation_id
    <3> TAKE i \in DOMAIN kept
    <3>1. PICK m \in 1 .. k - 1 : kept[i] = s[m]
      BY DEF Sifted
    <3>2. m \in DOMAIN s /\ m # k
      BY <1>1
    <3>. QED
      BY <1>1, <3>1, <3>2 DEF UniqueIds
  <2>3. UniqueIds(longer)
    BY <2>1, <2>2 DEF UniqueIds, Sifted
  <2>4. \A i \in DOMAIN longer : \E m \in 1 .. k : longer[i] = s[m]
    BY <1>2, <2>1 DEF Sifted
  <2>5. Sifted(longer, s, k)
    BY <2>3, <2>4 DEF Sifted
  <2>. QED
    BY <2>5 DEF longer
<1>. QED
  BY <1>2, <1>3 DEF RetainStep

\* Removing the duplicates keeps an array of observations with ids of their own.
LEMMA RetainedFacts ==
  ASSUME NEW s, Array(s), UniqueIds(s)
  PROVE  Retained(s) \in Seq(ToSet(s)) /\ UniqueIds(Retained(s))
<1> DEFINE B == ToSet(s)
<1>1. s \in Seq(B) /\ <<>> \in Seq(B) /\ Len(s) \in Nat
  BY ArrayFacts
<1>2. PICK n \in Nat : n = Len(s)
  BY <1>1
<1>3. \A a \in Seq(B), x \in B : RetainStep(0, a, x) \in Seq(B)
  BY AppendFacts DEF RetainStep
<1>4. Retaining!Stepwise(Seq(B), 0, <<>>, s)
  <2> HIDE DEF B
  <2>. QED
    BY <1>1, <1>3, NumbersInduct, Retaining!FoldSteps
<1>5. PICK c \in [0 .. n -> Seq(B)] :
         /\ c[0] = <<>>
         /\ \A k \in 1 .. n : c[k] = RetainStep(0, c[k - 1], s[k])
         /\ Retaining!Fold(0, <<>>, s) = c[n]
  BY <1>2, <1>4 DEF Retaining!Stepwise
<1>6. Retained(s) = Retaining!Fold(0, <<>>, s)
  BY DEF Retained, Retaining!Fold, RetainStep, FoldLeft,
         MapThenFoldSet, Retaining!MapThenFoldSet, Max, Retaining!Top
<1> DEFINE G == {k \in 0 .. n : Sifted(c[k], s, k)}
<1>7. 0 \in G
  BY <1>5 DEF Sifted, UniqueIds
<1>8. ASSUME NEW k \in 0 .. n - 1, k \in G PROVE k + 1 \in G
  <2>1. /\ k \in 0 .. n /\ k + 1 \in 1 .. n /\ k + 1 \in 0 .. n /\ (k + 1) - 1 = k
        /\ c[k] \in Seq(B)
    OBVIOUS
  <2>2. c[k + 1] = RetainStep(0, c[k], s[k + 1])
    BY <1>5, <2>1
  <2>3. Sifted(c[k], s, k)
    BY <1>8
  <2>4. Sifted(c[k + 1], s, k + 1)
    BY <1>2, <2>1, <2>2, <2>3, RetainSifts
  <2>. QED
    BY <2>1, <2>4
<1>9. n \in G
  <2> HIDE DEF G
  <2>1. \A k \in 0 .. n : k \in G
    BY <1>7, <1>8, UpTo
  <2>. QED
    BY <2>1
<1>. QED
  BY <1>5, <1>6, <1>9 DEF Sifted

RetainClaim(observations, kept, c) ==
  IF c.observation_id \in ObservationIds(observations) THEN Append(kept, c) ELSE kept

Claiming == INSTANCE FoldTheory WITH Op <- RetainClaim

LEMMA RetainedClaimsFacts ==
  ASSUME NEW claims, Array(claims), NEW observations
  PROVE  RetainedClaims(claims, observations) \in Seq(ToSet(claims))
<1> DEFINE B == ToSet(claims)
<1>1. claims \in Seq(B) /\ <<>> \in Seq(B) /\ Len(claims) \in Nat
  BY ArrayFacts
<1>2. PICK n \in Nat : n = Len(claims)
  BY <1>1
<1>3. \A a \in Seq(B), x \in B : RetainClaim(observations, a, x) \in Seq(B)
  BY AppendFacts DEF RetainClaim
<1>4. Claiming!Stepwise(Seq(B), observations, <<>>, claims)
  <2> HIDE DEF B
  <2>. QED
    BY <1>1, <1>3, NumbersInduct, Claiming!FoldSteps
<1>5. PICK c \in [0 .. n -> Seq(B)] : Claiming!Fold(observations, <<>>, claims) = c[n]
  BY <1>2, <1>4 DEF Claiming!Stepwise
<1>6. RetainedClaims(claims, observations) = Claiming!Fold(observations, <<>>, claims)
  BY DEF RetainedClaims, Claiming!Fold, RetainClaim, FoldLeft,
         MapThenFoldSet, Claiming!MapThenFoldSet, Max, Claiming!Top
<1>. QED
  BY <1>5, <1>6

\* An array over the elements of another one is an array with some of its elements.
LEMMA SubArray ==
  ASSUME NEW v, Array(v), NEW w \in Seq(ToSet(v))
  PROVE  /\ Array(w) /\ \A i \in DOMAIN w : \E j \in DOMAIN v : w[i] = v[j]
<1>1. PICK n \in Nat : w \in [1 .. n -> ToSet(v)]
  OBVIOUS
<1>2. w = [i \in 1 .. n |-> w[i]] /\ DOMAIN w = 1 .. n
  BY <1>1
<1>3. Array(w)
  BY <1>2, ArrayOf
<1>4. \A i \in DOMAIN w : w[i] \in ToSet(v)
  BY <1>1
<1>. QED
  BY <1>3, <1>4 DEF ToSet

LEMMA CleanIsTyped ==
  ASSUME NEW c, TypedCase(c)
  PROVE  /\ TypedCase(CleanCase(c))
         /\ CleanCase(c).observations = Retained(c.observations)
         /\ CleanCase(c).scenarios = c.scenarios
<1> DEFINE d == CleanCase(c)
           s == c.observations
           kept == Retained(s)
           claims == RetainedClaims(c.supplier_identity_claims, kept)
<1>1. kept \in Seq(ToSet(s)) /\ UniqueIds(kept)
  BY RetainedFacts DEF TypedCase, UniqueIds
<1>2. claims \in Seq(ToSet(c.supplier_identity_claims))
  BY RetainedClaimsFacts DEF TypedCase
<1>3. /\ d.observations = kept /\ d.supplier_identity_claims = claims
      /\ d.product_name = c.product_name /\ d.product_attributes = c.product_attributes
      /\ d.scenarios = c.scenarios /\ DOMAIN d = CaseFields
  BY DEF CleanCase, TypedCase, CaseFields
<1> HIDE DEF d, kept, claims
<1>4. Array(kept) /\ \A i \in DOMAIN kept : \E j \in DOMAIN s : kept[i] = s[j]
  BY <1>1, SubArray DEF TypedCase
<1>5. Array(claims)
  BY <1>2, SubArray DEF TypedCase
<1>6. \A i \in DOMAIN kept : TypedOffer(kept[i])
  BY <1>4 DEF TypedCase
<1>7. TypedCase(d)
  BY <1>1, <1>3, <1>4, <1>5, <1>6 DEF TypedCase, UniqueIds
<1>. QED
  BY <1>3, <1>7 DEF d, kept, s

-----------------------------------------------------------------------------
(* The arcs of a currency.                                                 *)

JoinStep(p, joined, s) == joined \o s

Joining == INSTANCE FoldTheory WITH Op <- JoinStep

LEMMA ConcatFacts ==
  ASSUME NEW S, NEW s \in Seq(S), NEW t \in Seq(S)
  PROVE  /\ s \o t \in Seq(S)
         /\ ToSet(s \o t) = ToSet(s) \cup ToSet(t)
<1>1. s \o t \in Seq(S) /\ Len(s \o t) = Len(s) + Len(t)
      /\ \A i \in 1 .. Len(s) + Len(t) :
           (s \o t)[i] = IF i <= Len(s) THEN s[i] ELSE t[i - Len(s)]
  OBVIOUS
<1>2. PICK m \in Nat, n \in Nat : m = Len(s) /\ n = Len(t)
  OBVIOUS
<1>3. DOMAIN s = 1 .. m /\ DOMAIN t = 1 .. n /\ DOMAIN (s \o t) = 1 .. m + n
  BY <1>1, <1>2
<1>4. ASSUME NEW i \in 1 .. m + n PROVE (s \o t)[i] \in ToSet(s) \cup ToSet(t)
  <2>1. CASE i <= m
    BY <1>1, <1>2, <1>3, <2>1 DEF ToSet
  <2>2. CASE ~(i <= m)
    <3>1. i - m \in 1 .. n
      BY <2>2
    <3>. QED
      BY <1>1, <1>2, <1>3, <2>2, <3>1 DEF ToSet
  <2>. QED
    BY <2>1, <2>2
<1>5. ASSUME NEW i \in 1 .. m PROVE s[i] \in ToSet(s \o t)
  <2>1. i \in 1 .. m + n /\ i <= m /\ (s \o t)[i] = s[i]
    BY <1>1, <1>2
  <2>. QED
    BY <1>3, <2>1 DEF ToSet
<1>6. ASSUME NEW i \in 1 .. n PROVE t[i] \in ToSet(s \o t)
  <2>1. m + i \in 1 .. m + n /\ ~(m + i <= m) /\ (m + i) - m = i
    OBVIOUS
  <2>2. (s \o t)[m + i] = t[i]
    BY <1>1, <1>2, <2>1
  <2>. QED
    BY <1>3, <2>1, <2>2 DEF ToSet
<1>7. ToSet(s \o t) \subseteq ToSet(s) \cup ToSet(t)
  BY <1>3, <1>4 DEF ToSet
<1>8. ToSet(s) \subseteq ToSet(s \o t) /\ ToSet(t) \subseteq ToSet(s \o t)
  BY <1>3, <1>5, <1>6 DEF ToSet
<1>. QED
  BY <1>1, <1>7, <1>8

\* Flattening joins n parts one after the other.
JoinedUp(seqs, S, n) ==
  \E c \in [0 .. n -> Seq(S)] :
    /\ c[0] = <<>> /\ \A k \in 0 .. n - 1 : c[k + 1] = c[k] \o seqs[k + 1]
    /\ FlattenSeq(seqs) = c[n]

LEMMA FlattenChain ==
  ASSUME NEW S, NEW seqs \in Seq(Seq(S)), NEW n \in Nat, n = Len(seqs)
  PROVE  JoinedUp(seqs, S, n)
<1>1. DOMAIN seqs = 1 .. n
  OBVIOUS
<1>2. /\ <<>> \in Seq(S)
      /\ \A a \in Seq(S), x \in Seq(S) : JoinStep(0, a, x) \in Seq(S)
  BY DEF JoinStep
<1>3. Joining!Stepwise(Seq(S), 0, <<>>, seqs)
  BY <1>2, NumbersInduct, Joining!FoldSteps
<1>4. PICK c \in [0 .. n -> Seq(S)] :
        c[0] = <<>> /\ \A k \in 1 .. n : c[k] = c[k - 1] \o seqs[k]
  BY <1>3 DEF Joining!Stepwise, JoinStep
<1>5. ASSUME NEW k \in 0 .. n - 1 PROVE c[k + 1] = c[k] \o seqs[k + 1]
  <2>1. k + 1 \in 1 .. n /\ (k + 1) - 1 = k
    OBVIOUS
  <2>. QED
    BY <1>4, <2>1
<1>6. CASE n = 0
  <2>0. Len(seqs) = 0 /\ seqs = <<>>
    BY <1>1, <1>6
  <2>1. FlattenSeq(seqs) = seqs
    BY <2>0 DEF FlattenSeq
  <2>2. FlattenSeq(seqs) = c[n]
    BY <1>4, <1>6, <2>0, <2>1
  <2>. QED
    BY <1>4, <1>5, <2>2 DEF JoinedUp
<1>7. CASE n # 0
  <2> DEFINE Flat(f) == f = [i \in 1 .. n |-> IF i = 1 THEN seqs[i] ELSE f[i - 1] \o seqs[i]]
             g == [i \in 1 .. n |-> c[i]]
  <2>1. c[1] = seqs[1]
    <3>1. 1 \in 1 .. n /\ 1 - 1 = 0
      BY <1>7
    <3>2. c[1] = <<>> \o seqs[1]
      BY <1>4, <3>1
    <3>3. seqs[1] \in Seq(S)
      BY <1>1, <3>1
    <3>. QED
      BY <3>2, <3>3
  <2>2. Flat(g)
    <3>1. ASSUME NEW i \in 1 .. n
          PROVE  g[i] = IF i = 1 THEN seqs[i] ELSE g[i - 1] \o seqs[i]
      <4>1. CASE i = 1
        BY <2>1, <4>1
      <4>2. CASE i # 1
        <5>1. i - 1 \in 1 .. n
          BY <4>2
        <5>. QED
          BY <1>4, <4>2, <5>1
      <4>. QED
        BY <4>1, <4>2
    <3>. QED
      BY <3>1
  <2>3. FlattenSeq(seqs) = (CHOOSE f : Flat(f))[n]
    BY <1>1, <1>7 DEF FlattenSeq
  <2>4. PICK f : Flat(f) /\ (CHOOSE h : Flat(h))[n] = f[n]
    <3> HIDE DEF Flat
    <3>. QED
      BY <2>2
  <2>5. f[1] = seqs[1] /\ \A i \in 1 .. n - 1 : f[i + 1] = f[i] \o seqs[i + 1]
    <3>1. \A i \in 1 .. n : f[i] = IF i = 1 THEN seqs[i] ELSE f[i - 1] \o seqs[i]
      BY <2>4
    <3>2. f[1] = seqs[1]
      BY <1>7, <3>1
    <3>3. ASSUME NEW i \in 1 .. n - 1 PROVE f[i + 1] = f[i] \o seqs[i + 1]
      <4>1. i + 1 \in 1 .. n /\ i + 1 # 1 /\ (i + 1) - 1 = i
        OBVIOUS
      <4>. QED
        BY <3>1, <4>1
    <3>. QED
      BY <3>2, <3>3
  <2> DEFINE G == {k \in 0 .. n : k = 0 \/ f[k] = c[k]}
  <2> HIDE DEF Flat, g
  <2>6. 0 \in G
    OBVIOUS
  <2>7. ASSUME NEW k \in 0 .. n - 1, k \in G PROVE k + 1 \in G
    <3>1. CASE k = 0
      BY <2>1, <2>5, <3>1
    <3>2. CASE k # 0
      <4>1. k \in 1 .. n - 1 /\ k + 1 \in 0 .. n
        BY <3>2
      <4>2. f[k] = c[k]
        BY <2>7, <3>2
      <4>3. f[k + 1] = c[k + 1]
        BY <1>5, <2>5, <4>1, <4>2
      <4>. QED
        BY <4>1, <4>3
    <3>. QED
      BY <3>1, <3>2
  <2>8. n \in G
    <3> HIDE DEF G
    <3>1. \A k \in 0 .. n : k \in G
      BY <2>6, <2>7, UpTo
    <3>. QED
      BY <3>1
  <2>9. FlattenSeq(seqs) = c[n]
    BY <1>7, <2>3, <2>4, <2>8
  <2>. QED
    BY <1>4, <1>5, <2>9 DEF JoinedUp
<1>. QED
  BY <1>6, <1>7

\* A flattened sequence has the elements of its parts.
LEMMA FlattenFacts ==
  ASSUME NEW S, NEW seqs \in Seq(Seq(S))
  PROVE  /\ FlattenSeq(seqs) \in Seq(S)
         /\ ToSet(FlattenSeq(seqs)) = UNION {ToSet(seqs[i]) : i \in DOMAIN seqs}
<1>1. PICK n \in Nat : n = Len(seqs) /\ DOMAIN seqs = 1 .. n
  OBVIOUS
<1>2. PICK c \in [0 .. n -> Seq(S)] :
        /\ c[0] = <<>> /\ \A k \in 0 .. n - 1 : c[k + 1] = c[k] \o seqs[k + 1]
        /\ FlattenSeq(seqs) = c[n]
  BY <1>1, FlattenChain DEF JoinedUp
<1> DEFINE G == {k \in 0 .. n : ToSet(c[k]) = UNION {ToSet(seqs[i]) : i \in 1 .. k}}
<1>3. 0 \in G
  <2>1. ToSet(<<>>) = {} /\ 1 .. 0 = {}
    BY DEF ToSet
  <2>. QED
    BY <1>2, <2>1
<1>4. ASSUME NEW k \in 0 .. n - 1, k \in G PROVE k + 1 \in G
  <2>1. k + 1 \in 1 .. n /\ seqs[k + 1] \in Seq(S) /\ 1 .. k + 1 = (1 .. k) \cup {k + 1}
        /\ k \in 0 .. n /\ k + 1 \in 0 .. n
    BY <1>1
  <2>0. c[k] \in Seq(S) /\ c[k + 1] = c[k] \o seqs[k + 1]
    BY <1>2, <2>1
  <2>2. ToSet(c[k + 1]) = ToSet(c[k]) \cup ToSet(seqs[k + 1])
    <3>1. ToSet(c[k] \o seqs[k + 1]) = ToSet(c[k]) \cup ToSet(seqs[k + 1])
      BY <2>0, <2>1, ConcatFacts
    <3>. QED
      BY <2>0, <3>1
  <2>4. ToSet(c[k]) = UNION {ToSet(seqs[i]) : i \in 1 .. k}
    BY <1>4
  <2>3. ToSet(c[k + 1]) = UNION {ToSet(seqs[i]) : i \in 1 .. k + 1}
    BY <2>1, <2>2, <2>4
  <2>. QED
    BY <2>1, <2>3
<1>5. n \in G
  <2> HIDE DEF G
  <2>1. \A k \in 0 .. n : k \in G
    BY <1>3, <1>4, UpTo
  <2>. QED
    BY <2>1
<1>. QED
  BY <1>1, <1>2, <1>5

-----------------------------------------------------------------------------
(* The search for a rate.                                                  *)

Currencies(rates, from) ==
  {from} \cup {rates[i].base_currency : i \in DOMAIN rates}
         \cup {rates[i].quote_currency : i \in DOMAIN rates}

Arc(C) == [to : C, rate : PositiveRatio]

TypedRates(rates) == Array(rates) /\ \A i \in DOMAIN rates : rates[i].rate \in PositiveRatio

\* The arcs one rate has from a currency.
ArcsOf(fx, currency) ==
  (IF fx.base_currency = currency
     THEN <<[to |-> fx.quote_currency, rate |-> fx.rate]>> ELSE <<>>) \o
  (IF fx.quote_currency = currency
     THEN <<[to |-> fx.base_currency, rate |-> Reciprocal(fx.rate)]>> ELSE <<>>)

LEMMA ArcsFacts ==
  ASSUME NEW rates, TypedRates(rates), NEW from, NEW currency
  PROVE  /\ Arcs(rates, currency) \in Seq(Arc(Currencies(rates, from)))
         /\ ToSet(Arcs(rates, currency)) =
              UNION {ToSet(ArcsOf(rates[i], currency)) : i \in DOMAIN rates}
<1> DEFINE C == Currencies(rates, from)
           parts == [i \in DOMAIN rates |-> ArcsOf(rates[i], currency)]
<1>1. PICK n \in Nat : DOMAIN rates = 1 .. n
  BY ArrayFacts DEF TypedRates
<1>2. ASSUME NEW i \in DOMAIN rates PROVE parts[i] \in Seq(Arc(C))
  <2>1. rates[i].base_currency \in C /\ rates[i].quote_currency \in C
    BY DEF Currencies
  <2>2. rates[i].rate \in PositiveRatio /\ Reciprocal(rates[i].rate) \in PositiveRatio
    BY DEF TypedRates, PositiveRatio, Reciprocal
  <2> HIDE DEF C
  <2>3. /\ [to |-> rates[i].quote_currency, rate |-> rates[i].rate] \in Arc(C)
        /\ [to |-> rates[i].base_currency, rate |-> Reciprocal(rates[i].rate)] \in Arc(C)
    BY <2>1, <2>2 DEF Arc
  <2>. QED
    BY <2>3 DEF ArcsOf
<1>3. parts \in Seq(Seq(Arc(C)))
  <2> HIDE DEF C
  <2>1. parts = [i \in 1 .. n |-> parts[i]] /\ \A i \in 1 .. n : parts[i] \in Seq(Arc(C))
    BY <1>1, <1>2
  <2> HIDE DEF parts
  <2>. QED
    BY <2>1
<1>4. Arcs(rates, currency) = FlattenSeq(parts)
  BY DEF Arcs, ArcsOf
<1>5. /\ FlattenSeq(parts) \in Seq(Arc(C))
      /\ ToSet(FlattenSeq(parts)) = UNION {ToSet(parts[i]) : i \in DOMAIN parts}
  <2> HIDE DEF parts, C
  <2>. QED
    BY <1>3, FlattenFacts
<1>. QED
  BY <1>4, <1>5

Search(C) ==
  [queue : Seq(C \X PositiveRatio), visited : SUBSET C, found : PositiveRatio \cup {None}]

FollowStep(p, search, arc) == Follow(search, arc, p[1], p[2])

Following == INSTANCE FoldTheory WITH Op <- FollowStep

ExpandStep(p, search, i) == Expand(search, p[1], p[2])

Expanding == INSTANCE FoldTheory WITH Op <- ExpandStep

LEMMA TimesPositive ==
  ASSUME NEW p \in PositiveRatio, NEW q \in PositiveRatio
  PROVE  Times(p, q) \in PositiveRatio
<1>1. \A a, b \in Nat \ {0} : a * b \in Nat \ {0}
  OBVIOUS
<1>. QED
  BY <1>1 DEF Times, PositiveRatio

LEMMA FollowTyped ==
  ASSUME NEW C, NEW search \in Search(C), NEW arc \in Arc(C),
         NEW cumulative \in PositiveRatio, NEW target
  PROVE  Follow(search, arc, cumulative, target) \in Search(C)
<1> DEFINE r == Times(cumulative, arc.rate)
<1>1. r \in PositiveRatio /\ arc.to \in C
  BY TimesPositive DEF Arc
<1> HIDE DEF r
<1>2. <<arc.to, r>> \in C \X PositiveRatio
  BY <1>1
<1>3. Append(search.queue, <<arc.to, r>>) \in Seq(C \X PositiveRatio)
  BY <1>2 DEF Search
<1>4. [search EXCEPT !.found = r] \in Search(C)
  BY <1>1 DEF Search
<1>5. [search EXCEPT !.visited = search.visited \cup {arc.to},
                     !.queue = Append(search.queue, <<arc.to, r>>)] \in Search(C)
  BY <1>1, <1>3 DEF Search
<1>. QED
  BY <1>4, <1>5 DEF Follow, r

\* The head of the queue, and the search without it.
Popped(search) == [search EXCEPT !.queue = Tail(@)]

Chain(c, n, arcs, head, search, target) ==
  /\ c[0] = Popped(search)
  /\ \A k \in 1 .. n : c[k] = Follow(c[k - 1], arcs[k], head[2], target)

Unrolled(search, rates, target, C, head, arcs) ==
  /\ head \in C \X PositiveRatio /\ arcs \in Seq(Arc(C))
  /\ \E n \in Nat : \E c \in [0 .. n -> Search(C)] :
       /\ n = Len(arcs) /\ Chain(c, n, arcs, head, search, target)
       /\ Expand(search, rates, target) = c[n]

\* A turn follows the arcs of the head one after the other.
LEMMA ExpandIsChain ==
  ASSUME NEW rates, TypedRates(rates), NEW from, NEW C, C = Currencies(rates, from),
         NEW search \in Search(C), search.queue # <<>>, search.found = None, NEW target,
         NEW head, head = Head(search.queue), NEW arcs, arcs = Arcs(rates, head[1])
  PROVE  Unrolled(search, rates, target, C, head, arcs)
<1> DEFINE p == <<head[2], target>>
<1>1. search.queue \in Seq(C \X PositiveRatio)
  BY DEF Search
<1>2. head \in C \X PositiveRatio /\ Tail(search.queue) \in Seq(C \X PositiveRatio)
  BY <1>1
<1>3. arcs \in Seq(Arc(C))
  BY ArcsFacts
<1>4. Popped(search) \in Search(C)
  BY <1>2 DEF Search, Popped
<1>5. \A a \in Search(C), x \in Arc(C) : FollowStep(p, a, x) \in Search(C)
  BY <1>2, FollowTyped DEF FollowStep
<1>6. Following!Stepwise(Search(C), p, Popped(search), arcs)
  <2> HIDE DEF p
  <2>. QED
    BY <1>3, <1>4, <1>5, NumbersInduct, Following!FoldSteps
<1>7. PICK n \in Nat : n = Len(arcs)
  BY <1>3
<1>8. PICK c \in [0 .. n -> Search(C)] :
         /\ c[0] = Popped(search)
         /\ \A k \in 1 .. n : c[k] = FollowStep(p, c[k - 1], arcs[k])
         /\ Following!Fold(p, Popped(search), arcs) = c[n]
  BY <1>6, <1>7 DEF Following!Stepwise
<1>9. Expand(search, rates, target) =
        FoldLeft(LAMBDA s, arc : Follow(s, arc, head[2], target), Popped(search), arcs)
  BY DEF Expand, Popped
<1>10. FoldLeft(LAMBDA s, arc : Follow(s, arc, head[2], target), Popped(search), arcs)
         = Following!Fold(p, Popped(search), arcs)
  BY DEF Following!Fold, FollowStep, FoldLeft,
         MapThenFoldSet, Following!MapThenFoldSet, Max, Following!Top
<1>11. Chain(c, n, arcs, head, search, target)
  BY <1>8 DEF Chain, FollowStep
<1>. QED
  BY <1>2, <1>3, <1>7, <1>8, <1>9, <1>10, <1>11 DEF Unrolled

LEMMA ExpandTyped ==
  ASSUME NEW rates, TypedRates(rates), NEW from, NEW C, C = Currencies(rates, from),
         NEW search \in Search(C), NEW target
  PROVE  Expand(search, rates, target) \in Search(C)
<1>1. CASE search.queue = <<>> \/ search.found # None
  BY <1>1 DEF Expand
<1>2. CASE search.queue # <<>> /\ search.found = None
  <2>1. PICK head : head = Head(search.queue)
    OBVIOUS
  <2>2. PICK arcs : arcs = Arcs(rates, head[1])
    OBVIOUS
  <2>3. PICK n \in Nat : \E c \in [0 .. n -> Search(C)] : Expand(search, rates, target) = c[n]
    BY <1>2, <2>1, <2>2, ExpandIsChain DEF Unrolled
  <2>. QED
    BY <2>3
<1>. QED
  BY <1>1, <1>2

Start(from) == [queue |-> <<<<from, <<1, 1>>>>>>, visited |-> {from}, found |-> None]

Turns(rates) == 2 * Len(rates) + 1

\* The search is a chain of turns.
LEMMA PathIsChain ==
  ASSUME NEW rates, TypedRates(rates), NEW from, NEW C, C = Currencies(rates, from), NEW target
  PROVE  /\ Turns(rates) \in Nat /\ Start(from) \in Search(C)
         /\ \E c \in [0 .. Turns(rates) -> Search(C)] :
              /\ c[0] = Start(from)
              /\ \A k \in 1 .. Turns(rates) : c[k] = Expand(c[k - 1], rates, target)
              /\ PathRate(from, target, rates) = c[Turns(rates)].found
<1> DEFINE p == <<rates, target>>
           m == Turns(rates)
           turns == [i \in 1 .. m |-> i]
<1>1. m \in Nat
  <2>1. Len(rates) \in Nat
    BY ArrayFacts DEF TypedRates
  <2>. QED
    BY <2>1 DEF Turns
<1>2. Start(from) \in Search(C)
  <2>1. from \in C /\ <<1, 1>> \in PositiveRatio
    BY DEF Currencies, PositiveRatio
  <2>2. <<<<from, <<1, 1>>>>>> \in Seq(C \X PositiveRatio)
    BY <2>1
  <2>. QED
    BY <2>1, <2>2 DEF Start, Search
<1>3. \A a \in Search(C), x \in 1 .. m : ExpandStep(p, a, x) \in Search(C)
  BY ExpandTyped DEF ExpandStep
<1> HIDE DEF m
<1>4. turns \in Seq(1 .. m) /\ Len(turns) = m
  BY <1>1
<1>5. Expanding!Stepwise(Search(C), p, Start(from), turns)
  <2> HIDE DEF p, turns
  <2>. QED
    BY <1>2, <1>3, <1>4, NumbersInduct, Expanding!FoldSteps
<1>6. PICK c \in [0 .. m -> Search(C)] :
         /\ c[0] = Start(from)
         /\ \A k \in 1 .. m : c[k] = ExpandStep(p, c[k - 1], turns[k])
         /\ Expanding!Fold(p, Start(from), turns) = c[m]
  <2> HIDE DEF p, turns
  <2>. QED
    BY <1>4, <1>5 DEF Expanding!Stepwise
<1>7. PathRate(from, target, rates) = Expanding!Fold(p, Start(from), turns).found
  BY DEF PathRate, Start, m, Turns, Expanding!Fold, ExpandStep, FoldLeft,
         MapThenFoldSet, Expanding!MapThenFoldSet, Max, Expanding!Top
<1>8. \A k \in 1 .. m : c[k] = Expand(c[k - 1], rates, target)
  BY <1>6 DEF ExpandStep
<1>. QED
  BY <1>1, <1>2, <1>6, <1>7, <1>8 DEF m

\* A rate that is found is positive, whatever the rates of the scenario.
LEMMA PathRatePositive ==
  ASSUME NEW rates, TypedRates(rates), NEW from, NEW target
  PROVE  PathRate(from, target, rates) \in PositiveRatio \cup {None}
<1>1. PICK C : C = Currencies(rates, from)
  OBVIOUS
<1>2. PICK c \in [0 .. Turns(rates) -> Search(C)] :
        PathRate(from, target, rates) = c[Turns(rates)].found
  BY <1>1, PathIsChain
<1>3. Turns(rates) \in 0 .. Turns(rates)
  BY <1>1, PathIsChain
<1>. QED
  BY <1>2, <1>3 DEF Search

\* What a conversion yields: whole cents, and none below zero from a price.
LEMMA ConvertedTyped ==
  ASSUME NEW money, money.amount \in Int, NEW rates, TypedRates(rates), NEW target
  PROVE  /\ Converted(money, target, rates) \in Int \cup {None}
         /\ money.amount >= 0 => Converted(money, target, rates) \in Nat \cup {None}
<1> DEFINE rate == PathRate(money.currency, target, rates)
<1>1. CASE money.currency = target
  BY <1>1, CentsInt DEF Converted
<1>2. CASE money.currency # target
  <2>1. CASE rate = None
    BY <1>2, <2>1 DEF Converted
  <2>2. CASE rate # None
    <3>1. rate \in PositiveRatio
      BY <2>2, PathRatePositive
    <3>2. Converted(money, target, rates) = Cents(money.amount * rate[1], rate[2])
      BY <1>2, <2>2 DEF Converted
    <3> HIDE DEF rate
    <3>3. rate[1] \in Nat \ {0} /\ rate[2] \in Nat \ {0}
      BY <3>1 DEF PositiveRatio
    <3>4. /\ money.amount * rate[1] \in Int
          /\ money.amount >= 0 => money.amount * rate[1] >= 0
      <4>1. \A a \in Int, b \in Nat : a * b \in Int /\ (a >= 0 => a * b >= 0)
        OBVIOUS
      <4>. QED
        BY <3>3, <4>1
    <3>. QED
      BY <3>2, <3>3, <3>4, CentsInt
  <2>. QED
    BY <2>1, <2>2
<1>. QED
  BY <1>1, <1>2

-----------------------------------------------------------------------------
(* The matches and the drafts.                                             *)

LEMMA BoundedInt ==
  ASSUME NEW n \in Int, NEW high \in Nat
  PROVE  Bounded(n, 0, high) \in 0 .. high
  BY DEF Bounded, Least

LEMMA SimilarityTyped ==
  ASSUME NEW requested, NEW observed, IsFiniteSet(ToSet(requested)), IsFiniteSet(ToSet(observed))
  PROVE  NameSimilarity(requested, observed) \in Nat \X (Nat \ {0})
<1> DEFINE r == ToSet(requested)
           o == ToSet(observed)
<1>1. CASE r = {} \/ o = {}
  BY <1>1 DEF NameSimilarity
<1>2. CASE ~(r = {} \/ o = {})
  <2>1. IsFiniteSet(r \cap o) /\ IsFiniteSet(r \cup o)
    BY FS_Intersection, FS_Union
  <2>2. Cardinality(r \cap o) \in Nat /\ Cardinality(r \cup o) \in Nat
    BY <2>1, FS_CardinalityType
  <2>3. Cardinality(r \cup o) # 0
    <3>1. r \cup o # {}
      BY <1>2
    <3>. QED
      BY <2>1, <3>1, FS_EmptySet
  <2>. QED
    BY <1>2, <2>2, <2>3 DEF NameSimilarity
<1>. QED
  BY <1>1, <1>2

LEMMA MatchScoreWithin ==
  ASSUME NEW similarity \in Nat \X (Nat \ {0}), NEW requested \in Nat, NEW matched \in Nat,
         NEW supplied \in Nat, NEW conflicts \in Nat
  PROVE  MatchScore(similarity, requested, matched, supplied, conflicts) \in 0 .. 100
<1> DEFINE d == IF requested = 0 THEN similarity[2] ELSE similarity[2] * requested
           raw == IF requested = 0 THEN 100 * similarity[1]
                  ELSE 60 * similarity[1] * requested
                    + similarity[2] * (30 * matched + 10 * supplied - 20 * conflicts * requested)
<1>1. similarity[1] \in Nat /\ similarity[2] \in Nat \ {0}
  OBVIOUS
<1>2. \A a, b \in Int : a * b \in Int
  OBVIOUS
<1>3. \A a, b \in Nat \ {0} : a * b \in Nat \ {0}
  OBVIOUS
<1>4. d \in Nat \ {0}
  BY <1>1, <1>3
<1>5. raw \in Int
  <2>1. 60 * similarity[1] \in Int /\ 20 * conflicts \in Int
    BY <1>1
  <2>2. 60 * similarity[1] * requested \in Int /\ 20 * conflicts * requested \in Int
    BY <1>2, <2>1
  <2>3. 30 * matched + 10 * supplied - 20 * conflicts * requested \in Int
    BY <2>2
  <2>4. similarity[2] * (30 * matched + 10 * supplied - 20 * conflicts * requested) \in Int
    BY <1>1, <1>2, <2>3
  <2>. QED
    BY <1>1, <2>2, <2>4
<1>6. MatchScore(similarity, requested, matched, supplied, conflicts)
        = Rounded(Bounded(raw, 0, 100 * d), d)
  BY DEF MatchScore
<1> HIDE DEF d, raw
<1>7. PICK n \in Nat : n = Bounded(raw, 0, 100 * d) /\ n <= d * 100
  <2>1. PICK high \in Nat : high = 100 * d
    BY <1>4
  <2>2. Bounded(raw, 0, high) \in 0 .. high
    BY <1>5, BoundedInt
  <2>3. high = d * 100
    BY <1>4, <2>1
  <2>. QED
    BY <2>1, <2>2, <2>3
<1>8. Rounded(n, d) \in 0 .. 100
  BY <1>4, <1>7, RoundedWithin
<1>. QED
  BY <1>6, <1>7, <1>8

LEMMA MatchTyped ==
  ASSUME NEW c, TypedCase(c), NEW o, TypedOffer(o)
  PROVE  /\ MatchPriceObservation(c, o).score \in 0 .. 100
         /\ MatchPriceObservation(c, o).observation_id = o.observation_id
<1> DEFINE requested == c.product_attributes
           candidate == CandidateAttributes(o)
           keys == DOMAIN requested
           supplied == keys \cap DOMAIN candidate
           matched == {k \in supplied : candidate[k] = requested[k]}
           conflicting == supplied \ matched
           similarity == NameSimilarity(c.product_name, o.product_name)
<1>1. IsFiniteSet(keys)
  BY DEF TypedCase
<1>2. supplied \in SUBSET keys /\ matched \in SUBSET keys /\ conflicting \in SUBSET keys
  OBVIOUS
<1>3. similarity \in Nat \X (Nat \ {0})
  BY SimilarityTyped DEF TypedCase, TypedOffer
<1> HIDE DEF keys, supplied, matched, conflicting, similarity
<1>4. /\ Cardinality(keys) \in Nat /\ Cardinality(matched) \in Nat
      /\ Cardinality(supplied) \in Nat /\ Cardinality(conflicting) \in Nat
  BY <1>1, <1>2, FS_Subset, FS_CardinalityType
<1>5. MatchScore(similarity, Cardinality(keys), Cardinality(matched),
                 Cardinality(supplied), Cardinality(conflicting)) \in 0 .. 100
  BY <1>3, <1>4, MatchScoreWithin
<1>6. /\ MatchPriceObservation(c, o).score
           = MatchScore(similarity, Cardinality(keys), Cardinality(matched),
                        Cardinality(supplied), Cardinality(conflicting))
      /\ MatchPriceObservation(c, o).observation_id = o.observation_id
  BY DEF MatchPriceObservation, keys, supplied, matched, conflicting, similarity
<1>. QED
  BY <1>5, <1>6

DraftFields == {"observation_id", "supplier_name", "comparison_group", "eligible_for_quantity",
                "rankable", "normalized_unit_price", "total_score", "rank", "unknown_factors"}

\* A draft, before its group is looked at and after.
TypedDraft(d) ==
  /\ DOMAIN d = DraftFields
  /\ d.observation_id \in Nat
  /\ d.total_score \in Int
  /\ d.rankable \in BOOLEAN
  /\ d.normalized_unit_price \in Nat \cup {None}
  /\ d.rankable => d.normalized_unit_price \in Nat \ {0}

LEMMA BaseScenario ==
  ASSUME NEW c, TypedCase(c), ScenariosComplete(c)
  PROVE  TypedScenario(Scenario(c, "BASE")) /\ Scenario(c, "BASE").name = "BASE"
<1>1. \E i \in DOMAIN c.scenarios : c.scenarios[i].name = "BASE"
  BY DEF ScenariosComplete, ScenarioName
<1>. QED
  BY <1>1 DEF Scenario, TypedCase

LEMMA NormalizedTyped ==
  ASSUME NEW c, TypedCase(c), ScenariosComplete(c), NEW o, TypedOffer(o)
  PROVE  NormalizedPrice(c, o) \in Nat \cup {None}
<1>1. TypedRates(Scenario(c, "BASE").fx_rates)
  BY BaseScenario DEF TypedScenario, TypedRates
<1>2. o.unit_price.amount \in Int /\ o.unit_price.amount >= 0
  BY DEF TypedOffer
<1>. QED
  BY <1>1, <1>2, ConvertedTyped DEF NormalizedPrice

LEMMA PartsWithin ==
  ASSUME NEW c, NEW o, TypedOffer(o)
  PROVE  /\ ConfidencePoints[o.evidence.confidence] \in 0 .. 10
         /\ EvidenceClassPoints[o.evidence.classification] \in 0 .. 10
         /\ QuantityScore(c, o) \in 0 .. 10 /\ TermsScore(o) \in 0 .. 10
<1>1. ConfidencePoints[o.evidence.confidence] \in 0 .. 10
  BY DEF ConfidencePoints, Confidence, TypedOffer
<1>2. EvidenceClassPoints[o.evidence.classification] \in 0 .. 10
  BY DEF EvidenceClassPoints, EvidenceClass, TypedOffer
<1>3. QuantityScore(c, o) \in 0 .. 10
  BY DEF QuantityScore, Least
<1>5. TermsScore(o) \in 0 .. 10
  BY DEF TermsScore, Points
<1>. QED
  BY <1>1, <1>2, <1>3, <1>5

LEMMA DraftTyped ==
  ASSUME NEW c, TypedCase(c), ScenariosComplete(c), NEW o, TypedOffer(o),
         NEW match, match.score \in Int
  PROVE  /\ TypedDraft(Draft(c, o, match))
         /\ Draft(c, o, match).observation_id = o.observation_id
         /\ Draft(c, o, match).rank = None
         /\ Draft(c, o, match).rankable = Rankable(c, o, match)
         /\ Draft(c, o, match).normalized_unit_price = NormalizedPrice(c, o)
<1> DEFINE d == Draft(c, o, match)
           score == Rounded(35 * match.score, 100)
                     + ConfidencePoints[o.evidence.confidence]
                     + EvidenceClassPoints[o.evidence.classification]
                     + QuantityScore(c, o) + TermsScore(o)
<1>1. /\ DOMAIN d = DraftFields /\ d.observation_id = o.observation_id /\ d.rank = None
      /\ d.rankable = Rankable(c, o, match)
      /\ d.normalized_unit_price = NormalizedPrice(c, o)
      /\ d.total_score = score
  BY DEF Draft, DraftFields
<1> HIDE DEF d
<1>2. score \in Int
  <2>1. Rounded(35 * match.score, 100) \in Int
    <3>1. 35 * match.score \in Int /\ 100 \in Nat \ {0}
      OBVIOUS
    <3>. QED
      BY <3>1, RoundingError
  <2>. QED
    BY <2>1, PartsWithin
<1> HIDE DEF score
<1>3. Rankable(c, o, match) \in BOOLEAN
  BY DEF Rankable
<1>4. NormalizedPrice(c, o) \in Nat \cup {None}
  BY NormalizedTyped
<1>5. Rankable(c, o, match) => NormalizedPrice(c, o) \in Nat \ {0}
  BY <1>4 DEF Rankable
<1>6. TypedDraft(d)
  BY <1>1, <1>2, <1>3, <1>4, <1>5 DEF TypedDraft, TypedOffer
<1>. QED
  BY <1>1, <1>6 DEF d

-----------------------------------------------------------------------------
(* The order of a group.                                                   *)

\* Offers that Ahead can compare.
Scorable(x) ==
  x.total_score \in Int /\ x.normalized_unit_price \in Int /\ x.observation_id \in Int

Group(S) ==
  /\ IsFiniteSet(S)
  /\ \A x \in S : Scorable(x)
  /\ \A x, y \in S : x.observation_id = y.observation_id => x = y

LEMMA AheadIsAnOrder ==
  ASSUME NEW x, NEW y, NEW z, Scorable(x), Scorable(y), Scorable(z)
  PROVE  /\ ~Ahead(x, x)
         /\ Ahead(x, y) /\ Ahead(y, z) => Ahead(x, z)
         /\ x.observation_id # y.observation_id => Ahead(x, y) \/ Ahead(y, x)
         /\ Ahead(x, y) => Better(x, y) \/ SamePlace(x, y)
         /\ Better(x, y) => Ahead(x, y)
         /\ SamePlace(x, y) => ~Better(x, y) /\ ~Better(y, x)
  BY DEF Scorable, Ahead, Better, SamePlace

Before(S, x) == {y \in S : Ahead(y, x)}

Place(S, x) == Cardinality(Before(S, x)) + 1

LEMMA PlaceOrdered ==
  ASSUME NEW S, Group(S)
  PROVE  /\ Cardinality(S) \in Nat
         /\ \A x \in S : Place(S, x) \in 1 .. Cardinality(S)
         /\ \A x, y \in S : Ahead(x, y) => Place(S, x) < Place(S, y)
         /\ \A x, y \in S : Place(S, x) = Place(S, y) => x = y
<1>1. IsFiniteSet(S) /\ Cardinality(S) \in Nat
  BY FS_CardinalityType DEF Group
<1>2. ASSUME NEW x \in S
      PROVE  IsFiniteSet(Before(S, x)) /\ Cardinality(Before(S, x)) \in Nat
  <2>1. Before(S, x) \in SUBSET S
    BY DEF Before
  <2>. QED
    BY <1>1, <2>1, FS_Subset, FS_CardinalityType
<1>3. ASSUME NEW x \in S PROVE Place(S, x) \in 1 .. Cardinality(S)
  <2>1. Before(S, x) \in SUBSET S /\ x \notin Before(S, x)
    BY AheadIsAnOrder DEF Before, Group
  <2>2. Cardinality(Before(S, x)) <= Cardinality(S) /\ Cardinality(Before(S, x)) # Cardinality(S)
    BY <1>1, <2>1, FS_Subset
  <2>. QED
    BY <1>1, <1>2, <2>2 DEF Place
<1>4. ASSUME NEW x \in S, NEW y \in S, Ahead(x, y) PROVE Place(S, x) < Place(S, y)
  <2>1. Before(S, x) \in SUBSET Before(S, y)
    BY <1>4, AheadIsAnOrder DEF Before, Group
  <2>2. x \in Before(S, y) /\ x \notin Before(S, x)
    BY <1>4, AheadIsAnOrder DEF Before, Group
  <2>3. /\ Cardinality(Before(S, x)) <= Cardinality(Before(S, y))
        /\ Cardinality(Before(S, x)) # Cardinality(Before(S, y))
    BY <1>2, <2>1, <2>2, FS_Subset
  <2>. QED
    BY <1>2, <2>3 DEF Place
<1>5. ASSUME NEW x \in S, NEW y \in S, Place(S, x) = Place(S, y) PROVE x = y
  <2>1. Place(S, x) \in Int /\ Place(S, y) \in Int
    BY <1>2 DEF Place
  <2>2. ~Ahead(x, y) /\ ~Ahead(y, x)
    BY <1>4, <1>5, <2>1
  <2>. QED
    BY <2>2, AheadIsAnOrder DEF Group
<1>. QED
  BY <1>1, <1>3, <1>4, <1>5

InOrder(seq, S) ==
  /\ seq \in [1 .. Cardinality(S) -> S]
  /\ \A i, j \in 1 .. Cardinality(S) : i < j => Ahead(seq[i], seq[j])

LEMMA SortedExists ==
  ASSUME NEW S, Group(S)
  PROVE  \E seq : InOrder(seq, S)
<1> DEFINE n == Cardinality(S)
           place == [x \in S |-> Place(S, x)]
           seq == [i \in 1 .. n |-> CHOOSE x \in S : Place(S, x) = i]
<1>1. n \in Nat /\ IsFiniteSet(S)
  BY PlaceOrdered DEF Group
<1> HIDE DEF n
<1>2. place \in Injection(S, 1 .. n)
  <2>1. place \in [S -> 1 .. n]
    BY PlaceOrdered DEF n
  <2>2. \A x, y \in S : place[x] = place[y] => x = y
    BY PlaceOrdered
  <2> HIDE DEF place
  <2>. QED
    BY <2>1, <2>2, Fun_IsInj
<1>3. IsFiniteSet(1 .. n) /\ Cardinality(1 .. n) = n
  BY <1>1, FS_Interval
<1>4. place \in Surjection(S, 1 .. n)
  <2> HIDE DEF place
  <2>. QED
    BY <1>2, <1>3, FS_Injection DEF n
<1>5. ASSUME NEW i \in 1 .. n PROVE \E x \in S : Place(S, x) = i
  <2>1. PICK x \in S : place[x] = i
    <3> HIDE DEF place
    <3>. QED
      BY <1>4 DEF Surjection
  <2>. QED
    BY <2>1
<1>6. ASSUME NEW i \in 1 .. n PROVE seq[i] \in S /\ Place(S, seq[i]) = i
  BY <1>5
<1>7. seq \in [1 .. n -> S]
  BY <1>6
<1>8. ASSUME NEW i \in 1 .. n, NEW j \in 1 .. n, i < j PROVE Ahead(seq[i], seq[j])
  <2> HIDE DEF seq
  <2>1. seq[i] \in S /\ seq[j] \in S /\ Place(S, seq[i]) = i /\ Place(S, seq[j]) = j
    BY <1>6
  <2>2. PICK x \in S, y \in S : x = seq[i] /\ y = seq[j]
    BY <2>1
  <2>3. Place(S, x) = i /\ Place(S, y) = j
    BY <2>1, <2>2
  <2>4. x # y /\ ~Ahead(y, x)
    <3>1. i # j /\ ~(j < i)
      BY <1>8
    <3>. QED
      BY <2>3, <3>1, PlaceOrdered
  <2>5. Ahead(x, y)
    BY <2>4, AheadIsAnOrder DEF Group
  <2>. QED
    BY <2>2, <2>5
<1>. QED
  <2> HIDE DEF seq
  <2>. QED
    BY <1>7, <1>8 DEF InOrder, n

LEMMA OrderedIsSorted ==
  ASSUME NEW S, Group(S)
  PROVE  InOrder(Ordered(S), S)
<1>1. PICK seq : InOrder(seq, S)
  BY SortedExists
<1>2. /\ seq \in [1 .. Cardinality(S) -> S]
      /\ \A i, j \in DOMAIN seq : i < j => Ahead(seq[i], seq[j])
  BY <1>1 DEF InOrder
<1>3. /\ Ordered(S) \in [1 .. Cardinality(S) -> S]
      /\ \A i, j \in DOMAIN Ordered(S) : i < j => Ahead(Ordered(S)[i], Ordered(S)[j])
  BY <1>2 DEF Ordered
<1>. QED
  BY <1>3 DEF InOrder

LEMMA SortedIsBijection ==
  ASSUME NEW S, Group(S), NEW seq, InOrder(seq, S)
  PROVE  /\ \A i, j \in 1 .. Cardinality(S) : i # j => seq[i] # seq[j]
         /\ \A x \in S : \E i \in 1 .. Cardinality(S) : seq[i] = x
<1>1. PICK n \in Nat : n = Cardinality(S)
  BY PlaceOrdered
<1>2. ASSUME NEW i \in 1 .. n, NEW j \in 1 .. n, i # j PROVE seq[i] # seq[j]
  <2>1. seq[i] \in S /\ seq[j] \in S
    BY <1>1 DEF InOrder
  <2>2. Ahead(seq[i], seq[j]) \/ Ahead(seq[j], seq[i])
    <3>1. i < j \/ j < i
      BY <1>2
    <3>. QED
      BY <1>1, <3>1 DEF InOrder
  <2>3. ~Ahead(seq[i], seq[i])
    BY <2>1, AheadIsAnOrder DEF Group
  <2>. QED
    BY <2>2, <2>3
<1>3. seq \in Injection(1 .. n, S)
  BY <1>1, <1>2, Fun_IsInj DEF InOrder
<1>4. Cardinality(1 .. n) = Cardinality(S) /\ IsFiniteSet(S)
  BY <1>1, FS_Interval DEF Group
<1>5. seq \in Surjection(1 .. n, S)
  BY <1>3, <1>4, FS_Injection
<1>. QED
  BY <1>1, <1>2, <1>5 DEF Surjection

LEMMA ImageOf ==
  ASSUME NEW S, IsFiniteSet(S), NEW f, f = [x \in S |-> f[x]], NEW T, T = {f[x] : x \in S}
  PROVE  /\ IsFiniteSet(T)
         /\ (\A x, y \in S : f[x] = f[y] => x = y) => Cardinality(T) = Cardinality(S)
<1>1. f \in [S -> T]
  OBVIOUS
<1>2. f \in Surjection(S, T)
  BY <1>1 DEF Surjection
<1>3. ASSUME \A x, y \in S : f[x] = f[y] => x = y PROVE f \in Injection(S, T)
  BY <1>1, <1>3, Fun_IsInj
<1>. QED
  BY <1>2, <1>3, FS_Surjection

-----------------------------------------------------------------------------
(* The scores of a group.                                                  *)

\* The offers of one comparison group, before they are scored.
Rivals(S) ==
  /\ IsFiniteSet(S)
  /\ \A x \in S : TypedDraft(x) /\ x.rankable
  /\ \A x, y \in S : x.observation_id = y.observation_id => x = y

LEMMA LowestPositive ==
  ASSUME NEW S, Rivals(S), S # {}
  PROVE  LowestPrice(S) \in Nat
<1> DEFINE T == {d.normalized_unit_price : d \in S}
<1>1. T \in SUBSET Nat /\ T # {}
  BY DEF Rivals, TypedDraft
<1>2. \E n \in T : \A m \in T : n <= m
  <2> HIDE DEF T
  <2>. QED
    BY <1>1, LeastNumber
<1>. QED
  BY <1>1, <1>2 DEF LowestPrice, Min

LEMMA ScoredRivals ==
  ASSUME NEW S, Rivals(S)
  PROVE  /\ Rivals(Scored(S)) /\ Group(Scored(S))
         /\ \A x \in Scored(S) : \E d \in S : x = [d EXCEPT !.total_score = x.total_score]
         /\ \A d \in S : \E x \in Scored(S) : x.observation_id = d.observation_id
<1> DEFINE f == [d \in S |-> [d EXCEPT !.total_score = @ + PricePoints(S, d)]]
<1>1. Scored(S) = {f[d] : d \in S}
  BY DEF Scored
<1>2. IsFiniteSet(Scored(S))
  <2>1. f = [x \in S |-> f[x]]
    OBVIOUS
  <2> HIDE DEF f
  <2>. QED
    BY <1>1, <2>1, ImageOf DEF Rivals
<1>3. ASSUME NEW d \in S
      PROVE  /\ f[d] = [d EXCEPT !.total_score = f[d].total_score]
             /\ f[d].total_score \in Int
             /\ TypedDraft(f[d]) /\ f[d].rankable /\ f[d].observation_id = d.observation_id
             /\ Scorable(f[d])
  <2>1. TypedDraft(d) /\ d.rankable
    BY DEF Rivals
  <2>2. PricePoints(S, d) \in Int
    <3>1. PICK low \in Nat : low = 25 * LowestPrice(S)
      BY LowestPositive
    <3>2. PICK price \in Nat \ {0} : price = d.normalized_unit_price
      BY <2>1 DEF TypedDraft
    <3>3. Rounded(low, price) \in Int
      BY RoundedNat
    <3>. QED
      BY <3>1, <3>2, <3>3 DEF PricePoints
  <2>3. d.total_score + PricePoints(S, d) \in Int
    BY <2>1, <2>2 DEF TypedDraft
  <2> DEFINE new == d.total_score + PricePoints(S, d)
             e == [d EXCEPT !.total_score = new]
  <2>4. f[d] = e
    OBVIOUS
  <2>. HIDE DEF new, f
  <2>5. /\ DOMAIN e = DraftFields
        /\ e.total_score = new
        /\ e.observation_id = d.observation_id /\ e.rankable = d.rankable
        /\ e.normalized_unit_price = d.normalized_unit_price
    BY <2>1 DEF TypedDraft, DraftFields
  <2>6. new \in Int
    BY <2>3 DEF new
  <2>7. TypedDraft(e)
    BY <2>1, <2>5, <2>6 DEF TypedDraft
  <2>8. Scorable(e)
    BY <2>1, <2>5, <2>7 DEF TypedDraft, Scorable
  <2> HIDE DEF e
  <2>9. f[d] = [d EXCEPT !.total_score = f[d].total_score]
    BY <2>4, <2>5 DEF e
  <2>. QED
    BY <2>1, <2>4, <2>5, <2>6, <2>7, <2>8, <2>9
<1>. HIDE DEF f
<1>4. ASSUME NEW d \in S, NEW e \in S, f[d].observation_id = f[e].observation_id PROVE f[d] = f[e]
  <2>1. f[d].observation_id = d.observation_id /\ f[e].observation_id = e.observation_id
    BY <1>3
  <2>. QED
    BY <1>4, <2>1 DEF Rivals
<1>5. Rivals(Scored(S)) /\ Group(Scored(S))
  <2>1. \A x \in Scored(S) : TypedDraft(x) /\ x.rankable /\ Scorable(x)
    <3>1. \A d \in S : TypedDraft(f[d]) /\ f[d].rankable /\ Scorable(f[d])
      BY <1>3
    <3>. QED
      BY <1>1, <3>1
  <2>2. \A x, y \in Scored(S) : x.observation_id = y.observation_id => x = y
    BY <1>1, <1>4
  <2>. QED
    BY <1>2, <2>1, <2>2 DEF Rivals, Group
<1>6. \A x \in Scored(S) : \E d \in S : x = [d EXCEPT !.total_score = x.total_score]
  <2>1. \A d \in S : f[d] = [d EXCEPT !.total_score = f[d].total_score]
    BY <1>3
  <2>. QED
    BY <1>1, <2>1
<1>7. \A d \in S : \E x \in Scored(S) : x.observation_id = d.observation_id
  <2>1. \A d \in S : f[d].observation_id = d.observation_id
    BY <1>3
  <2>. QED
    BY <1>1, <2>1
<1>. QED
  BY <1>5, <1>6, <1>7

-----------------------------------------------------------------------------
(* The ranks of a sorted group.                                            *)

RankOf(s) ==
  CHOOSE rank :
    rank = [i \in DOMAIN s |-> IF i > 1 /\ SamePlace(s[i], s[i - 1]) THEN rank[i - 1] ELSE i]

Worthier(T, x) == {y \in T : Better(y, x)}

Standing(T, x) == 1 + Cardinality(Worthier(T, x))

LEMMA RankedByRankOf ==
  ASSUME NEW S
  PROVE  Ranked(S) = {[Ordered(Scored(S))[i] EXCEPT !.rank = RankOf(Ordered(Scored(S)))[i]] :
                        i \in DOMAIN Ordered(Scored(S))}
  BY DEF Ranked, RankOf

LEMMA StandingOfSorted ==
  ASSUME NEW T, Group(T), NEW s, InOrder(s, T), NEW n \in Nat, n = Cardinality(T),
         NEW i \in 1 .. n
  PROVE  /\ i > 1 /\ SamePlace(s[i], s[i - 1]) => Standing(T, s[i]) = Standing(T, s[i - 1])
         /\ ~(i > 1 /\ SamePlace(s[i], s[i - 1])) => Standing(T, s[i]) = i
<1>1. \A j \in 1 .. n : s[j] \in T /\ Scorable(s[j])
  BY DEF InOrder, Group
<1>2. ASSUME i > 1, SamePlace(s[i], s[i - 1]) PROVE Worthier(T, s[i]) = Worthier(T, s[i - 1])
  <2>1. i - 1 \in 1 .. n
    BY <1>2
  <2>2. \A y \in T : Better(y, s[i]) <=> Better(y, s[i - 1])
    BY <1>2 DEF SamePlace, Better
  <2>. QED
    BY <2>2 DEF Worthier
<1>3. ASSUME ~(i > 1 /\ SamePlace(s[i], s[i - 1])) PROVE Standing(T, s[i]) = i
  <2> DEFINE f == [j \in 1 .. i - 1 |-> s[j]]
             W == {f[j] : j \in 1 .. i - 1}
  <2>1. ASSUME NEW j \in 1 .. i - 1 PROVE Better(s[j], s[i])
    <3>1. i > 1 /\ i - 1 \in 1 .. n /\ j \in 1 .. n /\ i - 1 < i
      OBVIOUS
    <3>2. Ahead(s[i - 1], s[i])
      BY <3>1 DEF InOrder
    <3>3. Scorable(s[i - 1]) /\ Scorable(s[i]) /\ Scorable(s[j])
      BY <1>1, <3>1
    <3>4. Better(s[i - 1], s[i])
      BY <1>3, <3>1, <3>2, <3>3 DEF Ahead, Better, SamePlace, Scorable
    <3>5. j = i - 1 \/ j < i - 1
      OBVIOUS
    <3>6. CASE j < i - 1
      <4>1. Ahead(s[j], s[i - 1])
        BY <3>1, <3>6 DEF InOrder
      <4>. QED
        BY <3>3, <3>4, <4>1 DEF Ahead, Better, Scorable
    <3>. QED
      BY <3>4, <3>5, <3>6
  <2>2. ASSUME NEW j \in 1 .. n, Better(s[j], s[i]) PROVE j < i
    <3>1. CASE j = i
      BY <1>1, <2>2, <3>1 DEF Better, Scorable
    <3>2. CASE j > i
      <4>1. Ahead(s[i], s[j])
        BY <3>2 DEF InOrder
      <4>. QED
        BY <1>1, <2>2, <4>1 DEF Better, Ahead, Scorable
    <3>. QED
      BY <3>1, <3>2
  <2>3. Worthier(T, s[i]) = W
    <3>1. ASSUME NEW y \in Worthier(T, s[i]) PROVE y \in W
      <4>1. PICK j \in 1 .. n : s[j] = y
        BY SortedIsBijection DEF Worthier
      <4>2. j \in 1 .. i - 1
        BY <2>2, <4>1 DEF Worthier
      <4>3. f[j] = y
        BY <4>1, <4>2
      <4>. QED
        BY <4>2, <4>3
    <3>2. ASSUME NEW j \in 1 .. i - 1 PROVE s[j] \in Worthier(T, s[i])
      BY <1>1, <2>1 DEF Worthier
    <3>. QED
      BY <3>1, <3>2
  <2>4. \A j, k \in 1 .. i - 1 : f[j] = f[k] => j = k
    BY SortedIsBijection
  <2>5. IsFiniteSet(1 .. i - 1) /\ Cardinality(1 .. i - 1) = i - 1
    <3>1. PICK m \in Nat : m = i - 1
      OBVIOUS
    <3>2. 1 \in Int /\ m \in Int
      OBVIOUS
    <3>3. IsFiniteSet(1 .. m) /\ Cardinality(1 .. m) = IF 1 > m THEN 0 ELSE m - 1 + 1
      BY <3>2, FS_Interval, Zenon
    <3>. QED
      BY <3>1, <3>3
  <2>6. f = [j \in 1 .. i - 1 |-> f[j]]
    OBVIOUS
  <2>7. Cardinality(W) = i - 1
    <3> HIDE DEF f
    <3>. QED
      BY <2>4, <2>5, <2>6, ImageOf
  <2>. QED
    BY <2>3, <2>7 DEF Standing
<1>. QED
  BY <1>2, <1>3 DEF Standing

LEMMA RankIsStanding ==
  ASSUME NEW T, Group(T), NEW s, InOrder(s, T), NEW i \in DOMAIN s
  PROVE  RankOf(s)[i] = Standing(T, s[i])
<1>1. PICK n \in Nat : n = Cardinality(T) /\ DOMAIN s = 1 .. n
  BY PlaceOrdered DEF InOrder
<1> DEFINE place == [j \in DOMAIN s |-> Standing(T, s[j])]
           r == RankOf(s)
<1>2. place = [j \in DOMAIN s |-> IF j > 1 /\ SamePlace(s[j], s[j - 1]) THEN place[j - 1] ELSE j]
  <2>1. ASSUME NEW j \in DOMAIN s
        PROVE  place[j] = IF j > 1 /\ SamePlace(s[j], s[j - 1]) THEN place[j - 1] ELSE j
    <3>1. j > 1 => j - 1 \in DOMAIN s
      BY <1>1
    <3>2. j > 1 => place[j - 1] = Standing(T, s[j - 1])
      BY <3>1
    <3>3. place[j] = Standing(T, s[j])
      OBVIOUS
    <3> HIDE DEF place
    <3>. QED
      BY <1>1, <3>2, <3>3, StandingOfSorted
  <2>. QED
    BY <2>1
<1> HIDE DEF place
<1>3. r = [j \in DOMAIN s |-> IF j > 1 /\ SamePlace(s[j], s[j - 1]) THEN r[j - 1] ELSE j]
  BY <1>2 DEF RankOf
<1> HIDE DEF r
<1> DEFINE G == {k \in Nat : k = 0 \/ (k <= n => r[k] = place[k])}
<1>4. 0 \in G
  OBVIOUS
<1>5. ASSUME NEW k \in 0 .. n - 1, k \in G PROVE k + 1 \in G
  <2>1. k + 1 \in DOMAIN s /\ k + 1 - 1 = k
    BY <1>1
  <2>2. /\ r[k + 1] = IF k + 1 > 1 /\ SamePlace(s[k + 1], s[k]) THEN r[k] ELSE k + 1
        /\ place[k + 1] = IF k + 1 > 1 /\ SamePlace(s[k + 1], s[k]) THEN place[k] ELSE k + 1
    BY <1>2, <1>3, <2>1
  <2>3. k + 1 > 1 => r[k] = place[k]
    BY <1>5
  <2>. QED
    BY <2>2, <2>3
<1>6. \A k \in 0 .. n : k \in G
  <2> HIDE DEF G
  <2>. QED
    BY <1>4, <1>5, UpTo
<1>7. i \in 1 .. n
  BY <1>1
<1>8. r[i] = place[i]
  BY <1>6, <1>7
<1>. QED
  BY <1>8 DEF place, r

\* What the ranking makes of a group.
LEMMA RankedFacts ==
  ASSUME NEW S, Rivals(S)
  PROVE  Ranked(S) = {[x EXCEPT !.rank = Standing(Scored(S), x)] : x \in Scored(S)}
<1> DEFINE T == Scored(S)
           s == Ordered(T)
<1>1. Group(T) /\ InOrder(s, T)
  BY ScoredRivals, OrderedIsSorted
<1>2. DOMAIN s = 1 .. Cardinality(T) /\ \A i \in DOMAIN s : s[i] \in T
  BY <1>1 DEF InOrder
<1> HIDE DEF T, s
<1>3. \A i \in DOMAIN s : RankOf(s)[i] = Standing(T, s[i])
  BY <1>1, RankIsStanding
<1>4. \A x \in T : \E i \in DOMAIN s : s[i] = x
  <2>1. \A x \in T : \E i \in 1 .. Cardinality(T) : s[i] = x
    BY <1>1, SortedIsBijection
  <2>. QED
    BY <1>2, <2>1
<1>5. Ranked(S) = {[s[i] EXCEPT !.rank = RankOf(s)[i]] : i \in DOMAIN s}
  BY RankedByRankOf DEF s, T
<1>6. Ranked(S) = {[s[i] EXCEPT !.rank = Standing(T, s[i])] : i \in DOMAIN s}
  BY <1>3, <1>5
<1>7. {[s[i] EXCEPT !.rank = Standing(T, s[i])] : i \in DOMAIN s}
        = {[x EXCEPT !.rank = Standing(T, x)] : x \in T}
  BY <1>2, <1>4
<1>. QED
  BY <1>6, <1>7 DEF T

-----------------------------------------------------------------------------
(* The rankings of a case.                                                 *)

Matched(c) == [i \in DOMAIN c.observations |-> MatchPriceObservation(c, c.observations[i])]

\* The drafts of the offers of a case, each with an id of its own.
Drafted(D) ==
  /\ IsFiniteSet(D)
  /\ \A d \in D : TypedDraft(d) /\ d.rank = None
  /\ \A d, e \in D : d.observation_id = e.observation_id => d = e

LEMMA MatchesFacts ==
  ASSUME NEW c
  PROVE  MatchResearchCase(c) = Matched(c)
  BY DEF MatchResearchCase, Matched

LEMMA DraftsFacts ==
  ASSUME NEW c, TypedCase(c), ScenariosComplete(c)
  PROVE  /\ Drafted(ToSet(Drafts(c, Matched(c))))
         /\ \A d \in ToSet(Drafts(c, Matched(c))) :
              \E i \in DOMAIN c.observations :
                d = Draft(c, c.observations[i], MatchPriceObservation(c, c.observations[i]))
<1> DEFINE s == c.observations
           draft == Drafts(c, Matched(c))
           D == ToSet(draft)
<1>1. DOMAIN draft = DOMAIN s /\ IsFiniteSet(DOMAIN s)
  BY ArrayFacts DEF Drafts, TypedCase
<1>2. ASSUME NEW i \in DOMAIN s
      PROVE  draft[i] = Draft(c, s[i], MatchPriceObservation(c, s[i]))
  BY DEF Drafts, Matched
<1>3. ASSUME NEW i \in DOMAIN s
      PROVE  TypedDraft(draft[i]) /\ draft[i].rank = None /\ draft[i].observation_id = s[i].observation_id
  <2>1. TypedOffer(s[i])
    BY DEF TypedCase
  <2>2. MatchPriceObservation(c, s[i]).score \in Int
    BY <2>1, MatchTyped
  <2>. QED
    BY <1>2, <2>1, <2>2, DraftTyped
<1>4. D = {draft[i] : i \in DOMAIN s}
  BY <1>1 DEF ToSet
<1>5. IsFiniteSet(D)
  <2>1. draft = [i \in DOMAIN s |-> draft[i]]
    BY DEF Drafts
  <2> HIDE DEF draft
  <2>. QED
    BY <1>1, <1>4, <2>1, ImageOf
<1> HIDE DEF draft, D
<1>6. \A d \in D : TypedDraft(d) /\ d.rank = None
  <2>1. \A i \in DOMAIN s : TypedDraft(draft[i]) /\ draft[i].rank = None
    BY <1>3
  <2>. QED
    BY <1>4, <2>1
<1>7. ASSUME NEW d \in D, NEW e \in D, d.observation_id = e.observation_id PROVE d = e
  <2>1. PICK i \in DOMAIN s, j \in DOMAIN s : d = draft[i] /\ e = draft[j]
    BY <1>4
  <2>2. d.observation_id = s[i].observation_id /\ e.observation_id = s[j].observation_id
    BY <1>3, <2>1
  <2>3. i = j
    BY <1>7, <2>2 DEF TypedCase
  <2>. QED
    BY <2>1, <2>3
<1>8. Drafted(D)
  BY <1>5, <1>6, <1>7 DEF Drafted
<1>9. \A d \in D : \E i \in DOMAIN s : d = Draft(c, s[i], MatchPriceObservation(c, s[i]))
  BY <1>2, <1>4
<1>. QED
  BY <1>8, <1>9 DEF D, draft

LEMMA GroupRivals ==
  ASSUME NEW draft, Drafted(ToSet(draft)), NEW g
  PROVE  Rivals(GroupOf(draft, g)) /\ \A d \in GroupOf(draft, g) : d.comparison_group = g
<1>1. GroupOf(draft, g) \in SUBSET ToSet(draft)
  BY DEF GroupOf
<1>2. IsFiniteSet(GroupOf(draft, g))
  BY <1>1, FS_Subset DEF Drafted
<1>. QED
  BY <1>1, <1>2 DEF Drafted, Rivals, GroupOf

\* What a ranking owes to the draft it was made from.
Kept(r, d) ==
  /\ DOMAIN r = DraftFields
  /\ \A f \in DraftFields \ {"total_score", "rank"} : r[f] = d[f]

LEMMA RankedKeeps ==
  ASSUME NEW S, Rivals(S)
  PROVE  /\ \A r \in Ranked(S) : (\E d \in S : Kept(r, d)) /\ r.rank \in Nat \ {0}
         /\ \A d \in S : \E r \in Ranked(S) : Kept(r, d)
<1> DEFINE T == Scored(S)
<1>1. Ranked(S) = {[x EXCEPT !.rank = Standing(T, x)] : x \in T}
  BY RankedFacts
<1>2. /\ Rivals(T)
      /\ \A x \in T : \E d \in S : x = [d EXCEPT !.total_score = x.total_score]
      /\ \A d \in S : \E x \in T : x.observation_id = d.observation_id
  BY ScoredRivals
<1> HIDE DEF T
<1>3. ASSUME NEW x \in T, NEW d \in S, x = [d EXCEPT !.total_score = x.total_score]
      PROVE  Kept([x EXCEPT !.rank = Standing(T, x)], d)
  <2>1. DOMAIN d = DraftFields
    BY DEF Rivals, TypedDraft
  <2> DEFINE e == [d EXCEPT !.total_score = x.total_score]
  <2>2. DOMAIN e = DraftFields /\ \A f \in DraftFields \ {"total_score"} : e[f] = d[f]
    BY <2>1
  <2> HIDE DEF e
  <2>3. x = e
    BY <1>3 DEF e
  <2>. QED
    BY <2>2, <2>3 DEF Kept
<1>4. ASSUME NEW x \in T
      PROVE  /\ [x EXCEPT !.rank = Standing(T, x)].rank = Standing(T, x)
             /\ Standing(T, x) \in Nat \ {0}
  <2>1. "rank" \in DOMAIN x
    BY <1>2 DEF Rivals, TypedDraft, DraftFields
  <2>2. Worthier(T, x) \in SUBSET T
    BY DEF Worthier
  <2>3. Cardinality(Worthier(T, x)) \in Nat
    BY <1>2, <2>2, FS_Subset, FS_CardinalityType DEF Rivals
  <2>. QED
    BY <2>1, <2>3 DEF Standing
<1>5. ASSUME NEW r \in Ranked(S)
      PROVE  (\E d \in S : Kept(r, d)) /\ r.rank \in Nat \ {0}
  <2>1. PICK x \in T : r = [x EXCEPT !.rank = Standing(T, x)]
    BY <1>1
  <2>2. PICK d \in S : x = [d EXCEPT !.total_score = x.total_score]
    BY <1>2
  <2>3. Kept(r, d)
    BY <1>3, <2>1, <2>2
  <2>4. r.rank \in Nat \ {0}
    BY <1>4, <2>1
  <2>. QED
    BY <2>3, <2>4
<1>6. ASSUME NEW d \in S PROVE \E r \in Ranked(S) : Kept(r, d)
  <2>1. PICK x \in T : x.observation_id = d.observation_id
    BY <1>2
  <2>2. PICK e \in S : x = [e EXCEPT !.total_score = x.total_score]
    BY <1>2
  <2>3. e.observation_id = d.observation_id
    <3>1. DOMAIN e = DraftFields
      BY DEF Rivals, TypedDraft
    <3>2. [e EXCEPT !.total_score = x.total_score].observation_id = e.observation_id
      BY <3>1 DEF DraftFields
    <3>. QED
      BY <2>1, <2>2, <3>2
  <2>4. e = d
    BY <2>3 DEF Rivals
  <2>. QED
    BY <1>1, <1>3, <2>2, <2>4
<1>. QED
  BY <1>5, <1>6

Unrankable(D) == {d \in D : ~d.rankable}

Groups(D) == {d.comparison_group : d \in D}

\* The rankings of drafts; those of a case are the rankings of its drafts.
Rankings(draft) ==
  Unrankable(ToSet(draft)) \cup UNION {Ranked(GroupOf(draft, g)) : g \in Groups(ToSet(draft))}

LEMMA RankingsOfCase ==
  ASSUME NEW c, NEW found
  PROVE  RankSupplierOffers(c, found) = Rankings(Drafts(c, found))
  BY DEF RankSupplierOffers, Rankings, Unrankable, Groups

LEMMA RankingsFacts ==
  ASSUME NEW draft, Drafted(ToSet(draft))
  PROVE  /\ \A r \in Rankings(draft) :
              /\ \E d \in ToSet(draft) : Kept(r, d)
              /\ r.rankable => r \in Ranked(GroupOf(draft, r.comparison_group))
              /\ None \notin Nat => (r.rank = None <=> ~r.rankable)
         /\ \A d \in ToSet(draft) : \E r \in Rankings(draft) : Kept(r, d)
         /\ \A g : \A r \in Ranked(GroupOf(draft, g)) :
              r.rankable /\ r.comparison_group = g /\ r \in Rankings(draft)
<1> DEFINE D == ToSet(draft)
<1>1. ASSUME NEW d \in D PROVE Kept(d, d)
  BY DEF Drafted, TypedDraft, Kept
<1>2. ASSUME NEW g, NEW r \in Ranked(GroupOf(draft, g))
      PROVE  /\ \E d \in GroupOf(draft, g) : Kept(r, d)
             /\ r.rankable /\ r.comparison_group = g /\ r.rank \in Nat \ {0}
             /\ r \in Rankings(draft)
  <2>1. Rivals(GroupOf(draft, g)) /\ \A d \in GroupOf(draft, g) : d.comparison_group = g
    BY GroupRivals
  <2>2. (\E d \in GroupOf(draft, g) : Kept(r, d)) /\ r.rank \in Nat \ {0}
    BY <2>1, RankedKeeps
  <2>3. PICK d \in GroupOf(draft, g) : Kept(r, d)
    BY <2>2
  <2>4. r.rankable = d.rankable /\ r.comparison_group = d.comparison_group
    BY <2>3 DEF Kept, DraftFields
  <2>5. d.rankable /\ d.comparison_group = g /\ d \in D
    BY DEF GroupOf
  <2>6. r \in Rankings(draft)
    BY <2>5 DEF Rankings, Groups
  <2>. QED
    BY <2>2, <2>4, <2>5, <2>6
<1>3. ASSUME NEW r \in Rankings(draft)
      PROVE  /\ \E d \in D : Kept(r, d)
             /\ r.rankable => r \in Ranked(GroupOf(draft, r.comparison_group))
             /\ None \notin Nat => (r.rank = None <=> ~r.rankable)
  <2>1. CASE r \in Unrankable(D)
    BY <1>1, <2>1 DEF Unrankable, Drafted
  <2>2. CASE r \in UNION {Ranked(GroupOf(draft, g)) : g \in Groups(D)}
    <3>1. PICK g \in Groups(D) : r \in Ranked(GroupOf(draft, g))
      BY <2>2
    <3>2. PICK d \in GroupOf(draft, g) : Kept(r, d)
      BY <1>2, <3>1
    <3>3. r.rankable /\ r.comparison_group = g /\ r.rank \in Nat \ {0}
      BY <1>2, <3>1
    <3>4. d \in D
      BY DEF GroupOf
    <3>. QED
      BY <3>1, <3>2, <3>3, <3>4
  <2>. QED
    BY <2>1, <2>2 DEF Rankings
<1>4. ASSUME NEW d \in D PROVE \E r \in Rankings(draft) : Kept(r, d)
  <2>1. d.rankable \in BOOLEAN
    BY DEF Drafted, TypedDraft
  <2>2. CASE ~d.rankable
    BY <1>1, <2>2 DEF Rankings, Unrankable
  <2>3. CASE d.rankable
    <3>1. d \in GroupOf(draft, d.comparison_group)
      BY <2>3 DEF GroupOf
    <3>2. \E r \in Ranked(GroupOf(draft, d.comparison_group)) : Kept(r, d)
      BY <3>1, GroupRivals, RankedKeeps
    <3>. QED
      BY <1>2, <3>2
  <2>. QED
    BY <2>1, <2>2, <2>3
<1>. QED
  BY <1>2, <1>3, <1>4

Competes(draft, r) ==
  r.rank = 1 + Cardinality({s \in Rankings(draft) : /\ s.rankable
                                                   /\ s.comparison_group = r.comparison_group
                                                   /\ Better(s, r)})

LEMMA RanksCompete ==
  ASSUME NEW draft, Drafted(ToSet(draft)), NEW r \in Rankings(draft), r.rankable
  PROVE  Competes(draft, r)
<1> DEFINE g == r.comparison_group
           T == Scored(GroupOf(draft, g))
           placed == [x \in T |-> [x EXCEPT !.rank = Standing(T, x)]]
<1>1. Rivals(T) /\ Rivals(GroupOf(draft, g))
  BY GroupRivals, ScoredRivals
<1>2. Ranked(GroupOf(draft, g)) = {placed[x] : x \in T}
  BY <1>1, RankedFacts
<1>3. ASSUME NEW x \in T
      PROVE  /\ placed[x].observation_id = x.observation_id /\ placed[x].rank = Standing(T, x)
             /\ placed[x].total_score = x.total_score
             /\ placed[x].normalized_unit_price = x.normalized_unit_price
  <2>1. DOMAIN x = DraftFields
    BY <1>1 DEF Rivals, TypedDraft
  <2>. QED
    BY <2>1 DEF DraftFields
<1> HIDE DEF T
<1>4. placed = [x \in T |-> placed[x]]
  OBVIOUS
<1> HIDE DEF placed
<1>5. r \in Ranked(GroupOf(draft, g))
  BY RankingsFacts
<1>6. PICK x \in T : r = placed[x]
  BY <1>2, <1>5
<1> DEFINE W == Worthier(T, x)
           f == [y \in W |-> placed[y]]
           Q == {s \in Rankings(draft) : s.rankable /\ s.comparison_group = g /\ Better(s, r)}
<1>7. \A y \in T : Better(placed[y], r) <=> Better(y, x)
  <2>1. ASSUME NEW y \in T PROVE Better(placed[y], r) <=> Better(y, x)
    <3>1. r.total_score = x.total_score /\ r.normalized_unit_price = x.normalized_unit_price
      BY <1>3, <1>6
    <3>2. placed[y].total_score = y.total_score /\ placed[y].normalized_unit_price = y.normalized_unit_price
      BY <1>3
    <3>. QED
      BY <3>1, <3>2 DEF Better
  <2>. QED
    BY <2>1
<1>8. Q = {f[y] : y \in W}
  <2>1. ASSUME NEW s \in Q PROVE s \in {f[y] : y \in W}
    <3>1. s \in Ranked(GroupOf(draft, g))
      BY RankingsFacts
    <3>2. PICK y \in T : s = placed[y]
      BY <1>2, <3>1
    <3>3. y \in W
      BY <1>7, <3>2 DEF Worthier
    <3>. QED
      BY <3>2, <3>3
  <2>2. ASSUME NEW y \in W PROVE f[y] \in Q
    <3>1. y \in T /\ Better(y, x)
      BY DEF Worthier
    <3>2. placed[y] \in Ranked(GroupOf(draft, g)) /\ Better(placed[y], r)
      BY <1>2, <1>7, <3>1
    <3>. QED
      BY <3>2, RankingsFacts
  <2>. QED
    BY <2>1, <2>2
<1>9. Cardinality(Q) = Cardinality(W)
  <2>1. IsFiniteSet(W)
    <3>1. W \in SUBSET T
      BY DEF Worthier
    <3>. QED
      BY <1>1, <3>1, FS_Subset DEF Rivals
  <2>2. ASSUME NEW y \in W, NEW z \in W, f[y] = f[z] PROVE y = z
    <3>1. y \in T /\ z \in T
      BY DEF Worthier
    <3>2. y.observation_id = z.observation_id
      BY <1>3, <2>2, <3>1
    <3>. QED
      BY <1>1, <3>1, <3>2 DEF Rivals
  <2>3. f = [y \in W |-> f[y]]
    OBVIOUS
  <2> HIDE DEF f, W, Q
  <2>. QED
    BY <1>8, <2>1, <2>2, <2>3, ImageOf
<1>10. r.rank = 1 + Cardinality(W)
  BY <1>3, <1>6 DEF Standing
<1>. QED
  BY <1>9, <1>10 DEF Competes

-----------------------------------------------------------------------------
(* The first stage of the validation.                                      *)

LEMMA UnionOf ==
  ASSUME NEW S, IsFiniteSet(S), NEW f, f = [x \in S |-> f[x]], \A x \in S : IsFiniteSet(f[x])
  PROVE  IsFiniteSet(UNION {f[x] : x \in S})
<1> DEFINE T == {f[x] : x \in S}
<1>1. IsFiniteSet(T)
  BY ImageOf
<1>2. \A I \in T : IsFiniteSet(I)
  OBVIOUS
<1> HIDE DEF T
<1>3. IsFiniteSet(UNION T)
  BY <1>1, <1>2, FS_UNION
<1>. QED
  BY <1>3 DEF T

LEMMA IfFinite ==
  ASSUME NEW p, NEW issue
  PROVE  IsFiniteSet(If(p, issue))
  BY FS_EmptySet, FS_Singleton DEF If

LEMMA EvidenceIssuesFinite ==
  ASSUME NEW e, NEW subject, NEW at
  PROVE  IsFiniteSet(EvidenceIssues(e, subject, at))
  BY IfFinite, FS_Union DEF EvidenceIssues

LEMMA ObservationIssuesFinite ==
  ASSUME NEW o, NEW at
  PROVE  IsFiniteSet(ObservationIssues(o, at))
  BY IfFinite, EvidenceIssuesFinite, FS_Union DEF ObservationIssues

LEMMA ClaimIssuesFinite ==
  ASSUME NEW claim, NEW at
  PROVE  IsFiniteSet(ClaimIssues(claim, at))
  BY FS_Singleton, EvidenceIssuesFinite, FS_Union DEF ClaimIssues

LEMMA ScenarioIssuesFinite ==
  ASSUME NEW c, NEW clean, NEW s
  PROVE  IsFiniteSet(ScenarioIssues(c, clean, s))
  BY IfFinite, FS_Union DEF ScenarioIssues

LEMMA DuplicateIssuesFinite ==
  ASSUME NEW c, TypedCase(c), NEW clean
  PROVE  IsFiniteSet(DuplicateIssues(c, clean))
<1> DEFINE dropped == ToSet(c.observations) \ ToSet(clean.observations)
           silenced == ToSet(c.supplier_identity_claims) \ ToSet(clean.supplier_identity_claims)
           f == [o \in dropped |-> Warning("DUPLICATE_PRICE_OBSERVATION", PriceSubject(o))]
           g == [d \in silenced |-> Error("IDENTITY_CLAIM_FOR_EXCLUDED_OBSERVATION", ClaimSubject(d))]
           first == {Warning("DUPLICATE_PRICE_OBSERVATION", PriceSubject(o)) : o \in dropped}
           second == {Error("IDENTITY_CLAIM_FOR_EXCLUDED_OBSERVATION", ClaimSubject(d)) : d \in silenced}
<1>1. IsFiniteSet(dropped) /\ IsFiniteSet(silenced)
  <2>1. IsFiniteSet(ToSet(c.observations)) /\ IsFiniteSet(ToSet(c.supplier_identity_claims))
    BY ArrayFacts DEF TypedCase
  <2>. QED
    BY <2>1, FS_Subset
<1>2. first = {f[o] : o \in dropped} /\ f = [o \in dropped |-> f[o]]
  OBVIOUS
<1>3. second = {g[d] : d \in silenced} /\ g = [d \in silenced |-> g[d]]
  OBVIOUS
<1>4. IsFiniteSet(first) /\ IsFiniteSet(second)
  <2> HIDE DEF first, second, f, g, dropped, silenced
  <2>. QED
    BY <1>1, <1>2, <1>3, ImageOf
<1> DEFINE third == If(clean.observations = <<>>, Error("NO_PRICE_OBSERVATIONS", CaseSubject(c)))
           fourth == If(Cardinality({o.unit : o \in ToSet(clean.observations)}) > 1,
                        Warning("MIXED_PRICE_UNITS", CaseSubject(c)))
           fifth == If(/\ clean.observations # <<>>
                       /\ \A o \in ToSet(clean.observations) : ~Eligible(c, o),
                       Error("NO_QUANTITY_ELIGIBLE_PRICE", CaseSubject(c)))
<1>5. IsFiniteSet(third) /\ IsFiniteSet(fourth) /\ IsFiniteSet(fifth)
  BY IfFinite
<1>6. DuplicateIssues(c, clean) = first \cup second \cup third \cup fourth \cup fifth
  BY DEF DuplicateIssues
<1> HIDE DEF first, second, third, fourth, fifth
<1>. QED
  BY <1>4, <1>5, <1>6, FS_Union

LEMMA RateIssuesFinite ==
  ASSUME NEW c, TypedCase(c), NEW at
  PROVE  IsFiniteSet(FXIssues(c, at))
<1> DEFINE S == ToSet(c.scenarios)
           rates == [s \in S |-> ToSet(s.fx_rates)]
           all == UNION {ToSet(s.fx_rates) : s \in S}
           f == [fx \in all |-> EvidenceIssues(fx.evidence, FXSubject(c, fx), at)]
<1>1. IsFiniteSet(S) /\ \A s \in S : TypedScenario(s)
  BY ArrayFacts DEF TypedCase, ToSet
<1>2. \A s \in S : IsFiniteSet(rates[s])
  BY <1>1, ArrayFacts DEF TypedScenario
<1>3. rates = [s \in S |-> rates[s]] /\ all = UNION {rates[s] : s \in S}
  OBVIOUS
<1> HIDE DEF rates, S, all
<1>4. IsFiniteSet(all)
  BY <1>1, <1>2, <1>3, UnionOf
<1>5. f = [fx \in all |-> f[fx]] /\ \A fx \in all : IsFiniteSet(f[fx])
  BY EvidenceIssuesFinite
<1>6. FXIssues(c, at) = UNION {f[fx] : fx \in all}
  BY DEF FXIssues, all, S
<1> HIDE DEF f
<1>. QED
  BY <1>4, <1>5, <1>6, UnionOf

LEMMA CaseIssuesFinite ==
  ASSUME NEW c, TypedCase(c), NEW at
  PROVE  IsFiniteSet(CaseIssues(c, at))
<1> DEFINE clean == CleanCase(c)
           O == ToSet(clean.observations)
           K == ToSet(clean.supplier_identity_claims)
           S == ToSet(c.scenarios)
           P == {p \in O : Outlier(clean.observations, p)}
           f == [o \in O |-> ObservationIssues(o, at)]
           g == [k \in K |-> ClaimIssues(k, at)]
           h == [s \in S |-> ScenarioIssues(c, clean, s)]
           w == [o \in P |-> Warning("PRICE_OUTLIER", PriceSubject(o))]
<1>1. IsFiniteSet(O) /\ IsFiniteSet(K) /\ IsFiniteSet(S)
  BY CleanIsTyped, ArrayFacts DEF TypedCase
<1>2. IsFiniteSet(P)
  <2>1. P \in SUBSET O
    OBVIOUS
  <2> HIDE DEF O, P
  <2>. QED
    BY <1>1, <2>1, FS_Subset
<1>3. OutlierIssues(clean.observations) = {w[o] : o \in P} /\ w = [o \in P |-> w[o]]
  BY DEF OutlierIssues
<1>4. /\ f = [o \in O |-> f[o]] /\ \A o \in O : IsFiniteSet(f[o])
      /\ g = [k \in K |-> g[k]] /\ \A k \in K : IsFiniteSet(g[k])
      /\ h = [s \in S |-> h[s]] /\ \A s \in S : IsFiniteSet(h[s])
  <2> HIDE DEF clean, O, K, S
  <2>. QED
    BY ObservationIssuesFinite, ClaimIssuesFinite, ScenarioIssuesFinite
<1> DEFINE first == DuplicateIssues(c, clean)
           second == UNION {f[o] : o \in O}
           third == UNION {g[k] : k \in K}
           fourth == OutlierIssues(clean.observations)
           fifth == UNION {h[s] : s \in S}
           sixth == FXIssues(c, at)
           last == If(c.unknowns # <<>>, Warning("DECLARED_UNKNOWNS", CaseSubject(c)))
<1>5. CaseIssues(c, at) = first \cup second \cup third \cup fourth \cup fifth \cup sixth \cup last
  BY DEF CaseIssues
<1>6. IsFiniteSet(first) /\ IsFiniteSet(sixth) /\ IsFiniteSet(last)
  BY DuplicateIssuesFinite, RateIssuesFinite, IfFinite
<1> HIDE DEF O, K, S, P, f, g, h, w, clean
<1>7. IsFiniteSet(second) /\ IsFiniteSet(third) /\ IsFiniteSet(fifth)
  BY <1>1, <1>4, UnionOf
<1>8. IsFiniteSet(fourth)
  BY <1>2, <1>3, ImageOf
<1> HIDE DEF first, second, third, fourth, fifth, sixth, last
<1>. QED
  BY <1>5, <1>6, <1>7, <1>8, FS_Union

LEMMA NoOfferIsAnIssue ==
  ASSUME NEW c, TypedCase(c), NEW at
  PROVE  CaseIssues(c, at) # {} \/ DOMAIN CleanCase(c).observations # {}
<1> DEFINE kept == CleanCase(c).observations
<1>1. CASE DOMAIN kept = {}
  <2>1. kept \in Seq(ToSet(kept))
    BY CleanIsTyped, ArrayFacts DEF TypedCase
  <2> HIDE DEF kept
  <2>2. kept = <<>>
    BY <1>1, <2>1
  <2>3. Error("NO_PRICE_OBSERVATIONS", CaseSubject(c)) \in DuplicateIssues(c, CleanCase(c))
    BY <2>2 DEF kept, DuplicateIssues, If
  <2>. QED
    BY <2>3 DEF CaseIssues
<1>. QED
  BY <1>1

-----------------------------------------------------------------------------
(* What an evaluation has at each of its stages.                           *)

Parsed == {"parsed", "checked", "validated", "matched", "ranked", "calculated", "rendered", "stored"}

Checked == Parsed \ {"parsed"}

Validated == Checked \ {"checked"}

Compared == Validated \ {"validated"}

Placed == {"ranked", "calculated", "rendered", "stored"}

NothingYet ==
  stage \notin Validated => validation = None

CaseIsTyped ==
  /\ stage = "submitted" => bundle \in Bundles
  /\ stage \in Parsed => TypedCase(case)
  /\ stage \in Checked => ScenariosComplete(case)

Concerned ==
  stage \in Validated =>
    /\ IsValidation(validation)
    /\ validation.issues # {} \/ DOMAIN case.observations # {}

MatchesRecorded ==
  stage \in Compared =>
    /\ matches = Matched(case)
    /\ \A i \in DOMAIN case.observations :
         MatchIssues(MatchPriceObservation(case, case.observations[i])) \subseteq validation.issues

RankingsRecorded ==
  stage \in Placed =>
    /\ rankings = Rankings(Drafts(case, Matched(case)))
    /\ \A r \in rankings : RankingIssues(r) \subseteq validation.issues
    /\ validation.disposition # "PASSED"

CostsRecorded ==
  stage = "calculated" =>
    AllComputable /\ scenarios = [i \in DOMAIN case.scenarios |-> LandedCost(case.scenarios[i])]

EvaluationInv ==
  /\ CaseIsTyped /\ NothingYet /\ Concerned
  /\ MatchesRecorded /\ RankingsRecorded /\ CostsRecorded

LEMMA StageSets ==
  /\ \A s \in Checked : s \in Parsed
  /\ \A s \in Validated : s \in Checked /\ s \in Parsed
  /\ \A s \in Compared : s \in Validated /\ s \in Checked /\ s \in Parsed
  /\ \A s \in Placed : s \in Compared /\ s \in Validated /\ s \in Checked /\ s \in Parsed
  BY DEF Parsed, Checked, Validated, Compared, Placed

LEMMA ValidateConcerns ==
  ASSUME NEW c, TypedCase(c), NEW now, NEW v, v = ValidateResearchCase(c, now)
  PROVE  IsValidation(v) /\ (v.issues # {} \/ DOMAIN CleanCase(c).observations # {})
<1> DEFINE issues == CaseIssues(c, now)
<1>1. IsFiniteSet(issues) /\ (issues # {} \/ DOMAIN CleanCase(c).observations # {})
  BY CaseIssuesFinite, NoOfferIsAnIssue
<1>2. v = Validation(issues, now)
  BY DEF ValidateResearchCase
<1> HIDE DEF issues
<1>3. v.issues = issues /\ v.evaluated_at = now
  BY <1>2, VerdictFields
<1>. QED
  BY <1>1, <1>2, <1>3 DEF IsValidation

LEMMA MatchStage ==
  ASSUME NEW c, TypedCase(c), NEW v, IsValidation(v),
         NEW w, w = ValidateProductMatches(v, Matched(c))
  PROVE  /\ IsValidation(w) /\ v.issues \subseteq w.issues
         /\ \A i \in DOMAIN c.observations :
              MatchIssues(MatchPriceObservation(c, c.observations[i])) \subseteq w.issues
<1> DEFINE found == Matched(c)
<1>1. DOMAIN found = DOMAIN c.observations
      /\ \A i \in DOMAIN found : found[i] = MatchPriceObservation(c, c.observations[i])
  BY DEF Matched
<1>2. IsFiniteSet(DOMAIN found)
  BY <1>1, ArrayFacts DEF TypedCase
<1>3. IsValidation(w) /\ v.issues \subseteq w.issues
  BY <1>2, LaterStagesOnlyAdd
<1> HIDE DEF found
<1>4. w.issues = v.issues \cup UNION {MatchIssues(m) : m \in ToSet(found)}
  BY VerdictFields DEF ValidateProductMatches, found
<1>5. \A i \in DOMAIN found : found[i] \in ToSet(found)
  BY DEF ToSet
<1>6. \A i \in DOMAIN found : MatchIssues(found[i]) \subseteq w.issues
  BY <1>4, <1>5
<1>. QED
  BY <1>1, <1>3, <1>6

\* A group has as many ranks as offers.
LEMMA RankingsFinite ==
  ASSUME NEW draft, Drafted(ToSet(draft))
  PROVE  IsFiniteSet(Rankings(draft))
<1> DEFINE D == ToSet(draft)
           G == Groups(D)
           f == [d \in D |-> d.comparison_group]
           h == [g \in G |-> Ranked(GroupOf(draft, g))]
<1>1. IsFiniteSet(D) /\ IsFiniteSet(Unrankable(D))
  <2>1. Unrankable(D) \in SUBSET D
    BY DEF Unrankable
  <2>. QED
    BY <2>1, FS_Subset DEF Drafted
<1>2. IsFiniteSet(G)
  <2>1. f = [d \in D |-> f[d]] /\ G = {f[d] : d \in D}
    BY DEF Groups
  <2> HIDE DEF f, G, D
  <2>. QED
    BY <1>1, <2>1, ImageOf
<1>3. ASSUME NEW g PROVE IsFiniteSet(Ranked(GroupOf(draft, g)))
  <2> DEFINE T == Scored(GroupOf(draft, g))
             k == [x \in T |-> [x EXCEPT !.rank = Standing(T, x)]]
  <2>1. Rivals(GroupOf(draft, g)) /\ IsFiniteSet(T)
    BY GroupRivals, ScoredRivals DEF Rivals
  <2>2. Ranked(GroupOf(draft, g)) = {k[x] : x \in T} /\ k = [x \in T |-> k[x]]
    BY <2>1, RankedFacts
  <2> HIDE DEF T, k
  <2>. QED
    BY <2>1, <2>2, ImageOf
<1>4. h = [g \in G |-> h[g]] /\ \A g \in G : IsFiniteSet(h[g])
  BY <1>3
<1>5. Rankings(draft) = Unrankable(D) \cup UNION {h[g] : g \in G}
  BY DEF Rankings
<1> HIDE DEF h, G, D
<1> DEFINE first == Unrankable(D)
           second == UNION {h[g] : g \in G}
<1>6. IsFiniteSet(first) /\ IsFiniteSet(second) /\ Rankings(draft) = first \cup second
  BY <1>1, <1>2, <1>4, <1>5, UnionOf
<1> HIDE DEF first, second
<1>. QED
  BY <1>6, FS_Union

LEMMA RankStage ==
  ASSUME NEW c, TypedCase(c), ScenariosComplete(c), NEW v, IsValidation(v),
         v.issues # {} \/ DOMAIN c.observations # {},
         NEW R, R = Rankings(Drafts(c, Matched(c))),
         NEW w, w = ValidateSupplierRankings(v, R)
  PROVE  /\ IsValidation(w) /\ v.issues \subseteq w.issues
         /\ \A r \in R : RankingIssues(r) \subseteq w.issues
         /\ w.disposition # "PASSED"
<1> DEFINE draft == Drafts(c, Matched(c))
<1>1. Drafted(ToSet(draft))
  BY DraftsFacts
<1>2. DOMAIN draft = DOMAIN c.observations
  BY DEF Drafts
<1> HIDE DEF draft
<1>3. IsFiniteSet(R)
  BY <1>1, RankingsFinite DEF draft
<1>4. IsValidation(w) /\ v.issues \subseteq w.issues
  BY <1>3, LaterStagesOnlyAdd
<1>5. /\ w.issues = v.issues \cup GroupIssues(R) \cup UNION {RankingIssues(r) : r \in R}
      /\ w.disposition = Disposition(w.issues)
  BY VerdictFields DEF ValidateSupplierRankings
<1>6. \A r \in R : RankingIssues(r) \subseteq w.issues
  BY <1>5
<1>7. w.disposition # "PASSED"
  <2>1. CASE v.issues # {}
    BY <1>4, <1>5, <2>1 DEF Disposition
  <2>2. CASE DOMAIN c.observations # {}
    <3>1. PICK d : d \in ToSet(draft)
      BY <1>2, <2>2 DEF ToSet
    <3>2. R # {}
      BY <1>1, <3>1, RankingsFacts DEF draft
    <3>. QED
      BY <3>2, OffersAlwaysAskForMore
  <2>. QED
    BY <2>1, <2>2
<1>. QED
  BY <1>4, <1>6, <1>7

LEMMA EvaluationInductive == EvaluationInv /\ [Next]_vars => EvaluationInv'
<1> SUFFICES ASSUME EvaluationInv, [Next]_vars PROVE EvaluationInv'
  OBVIOUS
<1> USE DEF EvaluationInv
<1>1. CASE Refuse
  BY <1>1 DEF Refuse, CaseIsTyped, NothingYet, Concerned, MatchesRecorded, RankingsRecorded,
     CostsRecorded,
              Parsed, Checked, Validated, Compared, Placed
<1>2. CASE Submit
  BY <1>2 DEF Submit, CaseIsTyped, NothingYet, Concerned, MatchesRecorded, RankingsRecorded,
     CostsRecorded,
              Parsed, Checked, Validated, Compared, Placed
<1>3. CASE Parse
  <2>1. BundleShape(bundle)
    BY <1>3, BundlesAssumption DEF Parse, CaseIsTyped
  <2>2. BundleReadable(bundle) /\ RecordsAccepted(ParsedCase(bundle)) /\ case' = ParsedCase(bundle)
    BY <1>3 DEF Parse, ParseEvidenceBundle
  <2>3. TypedCase(case')
    BY <2>1, <2>2, ParsedIsTyped
  <2>. QED
    BY <1>3, <2>3 DEF Parse, CaseIsTyped, NothingYet, Concerned, MatchesRecorded,
       RankingsRecorded, CostsRecorded,
              Parsed, Checked, Validated, Compared, Placed
<1>4. CASE CheckScenarios
  BY <1>4 DEF CheckScenarios, CaseIsTyped, NothingYet, Concerned, MatchesRecorded,
     RankingsRecorded, CostsRecorded,
              Parsed, Checked, Validated, Compared, Placed, ScenariosComplete
<1>5. CASE Validate
  <2>1. TypedCase(case) /\ ScenariosComplete(case)
    BY <1>5 DEF Validate, CaseIsTyped, Parsed, Checked
  <2>2. PICK now \in Clock : validation' = ValidateResearchCase(case, now)
    BY <1>5 DEF Validate
  <2>3. case' = CleanCase(case)
    BY <1>5 DEF Validate
  <2>4. IsValidation(validation') /\ (validation'.issues # {} \/ DOMAIN case'.observations # {})
    BY <2>1, <2>2, <2>3, ValidateConcerns
  <2>5. TypedCase(case') /\ case'.scenarios = case.scenarios
    BY <2>1, <2>3, CleanIsTyped
  <2>6. ScenariosComplete(case')
    BY <2>1, <2>5 DEF ScenariosComplete
  <2>. QED
    BY <1>5, <2>4, <2>5, <2>6 DEF Validate, CaseIsTyped, NothingYet, Concerned, MatchesRecorded,
       RankingsRecorded, CostsRecorded, Parsed, Checked, Validated, Compared, Placed
<1>6. CASE Match
  <2>1. TypedCase(case) /\ ScenariosComplete(case) /\ IsValidation(validation)
        /\ (validation.issues # {} \/ DOMAIN case.observations # {})
    BY <1>6 DEF Match, CaseIsTyped, Concerned, Parsed, Checked, Validated
  <2>2. matches' = Matched(case) /\ validation' = ValidateProductMatches(validation, Matched(case))
    BY <1>6, MatchesFacts DEF Match
  <2>3. /\ IsValidation(validation') /\ validation.issues \subseteq validation'.issues
        /\ \A i \in DOMAIN case.observations :
              MatchIssues(MatchPriceObservation(case, case.observations[i])) \subseteq validation'.issues
    BY <2>1, <2>2, MatchStage
  <2>4. case' = case /\ stage' = "matched"
    BY <1>6 DEF Match
  <2>5. MatchesRecorded'
    BY <2>2, <2>3, <2>4 DEF MatchesRecorded
  <2>6. Concerned'
    BY <2>1, <2>3, <2>4 DEF Concerned
  <2>. QED
    BY <2>1, <2>4, <2>5, <2>6 DEF CaseIsTyped, NothingYet,
       RankingsRecorded, CostsRecorded, Parsed, Checked, Validated, Compared, Placed
<1>7. CASE Rank
  <2>1. TypedCase(case) /\ ScenariosComplete(case) /\ IsValidation(validation)
        /\ (validation.issues # {} \/ DOMAIN case.observations # {})
        /\ matches = Matched(case)
        /\ \A i \in DOMAIN case.observations :
             MatchIssues(MatchPriceObservation(case, case.observations[i])) \subseteq validation.issues
    BY <1>7 DEF Rank, CaseIsTyped, Concerned, MatchesRecorded, Parsed, Checked, Validated,
       Compared
  <2>2. rankings' = Rankings(Drafts(case, Matched(case)))
        /\ validation' = ValidateSupplierRankings(validation, rankings')
    BY <1>7, <2>1, RankingsOfCase DEF Rank
  <2>3. /\ IsValidation(validation') /\ validation.issues \subseteq validation'.issues
        /\ \A r \in rankings' : RankingIssues(r) \subseteq validation'.issues
        /\ validation'.disposition # "PASSED"
    BY <2>1, <2>2, RankStage
  <2>4. case' = case /\ stage' = "ranked" /\ matches' = matches
    BY <1>7 DEF Rank
  <2>5. MatchesRecorded'
    BY <2>1, <2>3, <2>4 DEF MatchesRecorded
  <2>6. Concerned'
    BY <2>1, <2>3, <2>4 DEF Concerned
  <2>7. RankingsRecorded'
    BY <2>2, <2>3, <2>4 DEF RankingsRecorded
  <2>. QED
    BY <2>1, <2>4, <2>5, <2>6, <2>7 DEF CaseIsTyped, NothingYet, CostsRecorded,
       Parsed, Checked, Validated, Compared, Placed
<1>8. CASE Calculate
  <2>1. /\ stage = "ranked" /\ stage' = "calculated" /\ AllComputable
        /\ case' = case /\ matches' = matches
        /\ validation' = validation /\ rankings' = rankings
        /\ scenarios' = [i \in DOMAIN case.scenarios |-> LandedCost(case.scenarios[i])]
    BY <1>8 DEF Calculate
  <2>2. CostsRecorded'
    BY <2>1 DEF CostsRecorded, AllComputable
  <2>. QED
    BY <2>1, <2>2 DEF CaseIsTyped, NothingYet, Concerned, MatchesRecorded,
       RankingsRecorded, Parsed, Checked, Validated, Compared, Placed
<1>9. CASE Render
  BY <1>9 DEF Render, CaseIsTyped, NothingYet, Concerned, MatchesRecorded, RankingsRecorded,
     CostsRecorded,
              Parsed, Checked, Validated, Compared, Placed
<1>10. CASE Persist
  BY <1>10 DEF Persist, CaseIsTyped, NothingYet, Concerned, MatchesRecorded, RankingsRecorded,
     CostsRecorded,
              Parsed, Checked, Validated, Compared, Placed
<1>11. CASE UNCHANGED vars
  BY <1>11 DEF vars, CaseIsTyped, NothingYet, Concerned, MatchesRecorded, RankingsRecorded,
     CostsRecorded, AllComputable
<1>. QED
  BY <1>1, <1>2, <1>3, <1>4, <1>5, <1>6, <1>7, <1>8, <1>9, <1>10, <1>11
     DEF Next, RefuseBundle, RefuseScenarios, RefuseCosts, RefuseReport, RefuseResult, RefuseRows

THEOREM EvaluationHolds == Spec => []EvaluationInv
<1>1. Init => EvaluationInv
  BY DEF Init, EvaluationInv, CaseIsTyped, NothingYet, Concerned, MatchesRecorded,
     RankingsRecorded, CostsRecorded,
         Parsed, Checked, Validated, Compared, Placed
<1>. QED
  BY <1>1, EvaluationInductive, PTL DEF Spec

-----------------------------------------------------------------------------
(* What the runs check, for every bundle.                                  *)

\* No bundle passes on its own: every ranked case leaves a concern, an issue about
\* an offer or the lack of any (validate_supplier_rankings, validate_research_case).
THEOREM NeverPasses == Spec => []NeverPassesAlone
<1>1. EvaluationInv => NeverPassesAlone
  BY DEF EvaluationInv, RankingsRecorded, NeverPassesAlone, OffersRanked, Placed
<1>. QED
  BY <1>1, EvaluationHolds, PTL

Explained(r) ==
  \/ r.normalized_unit_price = 0
  \/ \E issue \in validation.issues :
       /\ issue.subject = <<"PRICE_OBSERVATION", r.observation_id>>
       /\ issue.code \in {"MISSING_SUPPLIER_IDENTITY", "OFFER_BELOW_MINIMUM_ORDER",
                         "UNCONVERTIBLE_OFFER_PRICE", "SUBSTITUTE_PRODUCT_PRICE",
                         "PRODUCT_ATTRIBUTE_CONFLICT"}

LEMMA RankingFromOffer ==
  ASSUME EvaluationInv, OffersRanked, NEW r \in rankings
  PROVE  /\ r.rank = None <=> ~r.rankable
         /\ \E i \in DOMAIN case.observations :
              LET o == case.observations[i] IN
              /\ TypedOffer(o)
              /\ Kept(r, Draft(case, o, MatchPriceObservation(case, o)))
              /\ MatchIssues(MatchPriceObservation(case, o)) \subseteq validation.issues
         /\ RankingIssues(r) \subseteq validation.issues
<1>1. /\ stage \in Placed /\ TypedCase(case) /\ ScenariosComplete(case)
      /\ rankings = Rankings(Drafts(case, Matched(case)))
      /\ RankingIssues(r) \subseteq validation.issues
  BY StageSets DEF EvaluationInv, OffersRanked, Placed, RankingsRecorded, CaseIsTyped
<1>2. \A i \in DOMAIN case.observations :
         MatchIssues(MatchPriceObservation(case, case.observations[i])) \subseteq validation.issues
  BY <1>1, StageSets DEF EvaluationInv, MatchesRecorded
<1>3. Drafted(ToSet(Drafts(case, Matched(case))))
  BY <1>1, DraftsFacts
<1>4. r.rank = None <=> ~r.rankable
  BY <1>1, <1>3, RankingsFacts, BundlesAssumption
<1>5. PICK d \in ToSet(Drafts(case, Matched(case))) : Kept(r, d)
  BY <1>1, <1>3, RankingsFacts
<1>6. PICK i \in DOMAIN case.observations :
        d = Draft(case, case.observations[i], MatchPriceObservation(case, case.observations[i]))
  BY <1>1, DraftsFacts
<1>7. TypedOffer(case.observations[i])
  BY <1>1 DEF TypedCase
<1>. QED
  BY <1>1, <1>2, <1>4, <1>5, <1>6, <1>7

LEMMA UnrankedExplained ==
  ASSUME EvaluationInv, OffersRanked, NEW r \in rankings, r.rank = None
  PROVE  Explained(r)
<1>1. /\ ~r.rankable /\ RankingIssues(r) \subseteq validation.issues
      /\ TypedCase(case) /\ ScenariosComplete(case)
  BY RankingFromOffer, StageSets DEF EvaluationInv, OffersRanked, Placed, CaseIsTyped
<1>2. PICK i \in DOMAIN case.observations :
         LET o == case.observations[i] IN
           /\ TypedOffer(o)
           /\ Kept(r, Draft(case, o, MatchPriceObservation(case, o)))
           /\ MatchIssues(MatchPriceObservation(case, o)) \subseteq validation.issues
  BY RankingFromOffer
<1> DEFINE o == case.observations[i]
           match == MatchPriceObservation(case, o)
           d == Draft(case, o, match)
           subject == <<"PRICE_OBSERVATION", r.observation_id>>
<1>3. TypedOffer(o) /\ Kept(r, d) /\ MatchIssues(match) \subseteq validation.issues
  BY <1>2
<1>4. match.score \in Int /\ match.observation_id = o.observation_id
  BY <1>1, <1>3, MatchTyped
<1>5. /\ r.observation_id = o.observation_id
      /\ r.supplier_name = o.supplier_name
      /\ r.eligible_for_quantity = Eligible(case, o)
      /\ r.rankable = Rankable(case, o, match)
      /\ r.normalized_unit_price = NormalizedPrice(case, o)
  BY <1>3 DEF Kept, DraftFields, Draft
<1>6. NormalizedPrice(case, o) \in Nat \cup {None}
  BY <1>1, <1>3, NormalizedTyped
<1> HIDE DEF o, match, d
<1>7. CASE ~Eligible(case, o)
  <2>1. Warning("OFFER_BELOW_MINIMUM_ORDER", subject) \in RankingIssues(r)
    BY <1>5, <1>7 DEF RankingIssues, If
  <2>. QED
    BY <1>1, <2>1 DEF Explained, Warning
<1>8. CASE ~Truthy(o.supplier_name)
  <2>1. Error("MISSING_SUPPLIER_IDENTITY", subject) \in RankingIssues(r)
    BY <1>5, <1>8 DEF RankingIssues, If
  <2>. QED
    BY <1>1, <2>1 DEF Explained, Error
<1>9. CASE NormalizedPrice(case, o) = None
  <2>1. Error("UNCONVERTIBLE_OFFER_PRICE", subject) \in RankingIssues(r)
    BY <1>5, <1>9 DEF RankingIssues, If
  <2>. QED
    BY <1>1, <2>1 DEF Explained, Error
<1>10. CASE NormalizedPrice(case, o) = 0
  BY <1>5, <1>10 DEF Explained
<1>11. CASE match.classification = "SUBSTITUTE"
  <2>1. Error("SUBSTITUTE_PRODUCT_PRICE", subject) \in MatchIssues(match)
    BY <1>4, <1>5, <1>11 DEF MatchIssues, If
  <2>. QED
    BY <1>3, <2>1 DEF Explained, Error
<1>12. CASE match.conflicting_attributes # {}
  <2>1. Error("PRODUCT_ATTRIBUTE_CONFLICT", subject) \in MatchIssues(match)
    BY <1>4, <1>5, <1>12 DEF MatchIssues, If
  <2>. QED
    BY <1>3, <2>1 DEF Explained, Error
<1>13. NormalizedPrice(case, o) \notin {None, 0} => NormalizedPrice(case, o) > 0
  BY <1>6
<1>. QED
  BY <1>1, <1>5, <1>7, <1>8, <1>9, <1>10, <1>11, <1>12, <1>13 DEF Rankable

\* An offer without a rank has an issue of its own that says why, or a price that the
\* conversion rounds to nothing: what _rankable and the issues of the last two stages
\* look at is the same (rank_supplier_offers, validate_supplier_rankings).
THEOREM UnrankedIsExplained == Spec => []UnrankedHasReason
<1>1. EvaluationInv => UnrankedHasReason
  <2>1. ASSUME EvaluationInv, OffersRanked, NEW r \in rankings, r.rank = None PROVE Explained(r)
    BY <2>1, UnrankedExplained
  <2>. QED
    BY <2>1 DEF UnrankedHasReason, Explained
<1>. QED
  BY <1>1, EvaluationHolds, PTL

\* The ranks of every group are those of a competition, for every number of offers and
\* every choice of scores and prices (rank_supplier_offers).
THEOREM RanksAreCompetition == Spec => []RankIsCompetition
<1>1. EvaluationInv => RankIsCompetition
  <2> SUFFICES ASSUME EvaluationInv, OffersRanked, NEW r \in rankings, r.rankable
               PROVE  r.rank = 1 + Cardinality({s \in rankings : /\ s.rankable
                                                                /\ s.comparison_group = r.comparison_group
                                                                /\ Better(s, r)})
    BY DEF RankIsCompetition
  <2>1. /\ TypedCase(case) /\ ScenariosComplete(case)
        /\ rankings = Rankings(Drafts(case, Matched(case)))
    BY StageSets DEF EvaluationInv, OffersRanked, Placed, RankingsRecorded, CaseIsTyped
  <2>2. Competes(Drafts(case, Matched(case)), r)
    BY <2>1, DraftsFacts, RanksCompete
  <2>. QED
    BY <2>1, <2>2 DEF Competes
<1>. QED
  BY <1>1, EvaluationHolds, PTL

-----------------------------------------------------------------------------
(* The concern about a case.                                               *)

Grows ==
  validation # None /\ validation' # None =>
    /\ validation.issues \subseteq validation'.issues
    /\ Severity(validation.disposition) <= Severity(validation'.disposition)
    /\ validation.confidence_score >= validation'.confidence_score
    /\ validation'.evaluated_at = validation.evaluated_at

LEMMA StageGrows ==
  ASSUME NEW v, IsValidation(v),
         NEW w, \/ w = v
                \/ \E found : IsFiniteSet(DOMAIN found) /\ w = ValidateProductMatches(v, found)
                \/ \E ranked : IsFiniteSet(ranked) /\ w = ValidateSupplierRankings(v, ranked)
  PROVE  /\ v.issues \subseteq w.issues
         /\ Severity(v.disposition) <= Severity(w.disposition)
         /\ v.confidence_score >= w.confidence_score
         /\ w.evaluated_at = v.evaluated_at
<1>1. Severity(v.disposition) \in Int
  <2>1. v.disposition = Disposition(v.issues)
    BY VerdictFields DEF IsValidation
  <2>. QED
    BY <2>1 DEF Disposition, Severity
<1>2. v.confidence_score \in Int
  <2>1. v.confidence_score = ConfidenceScore(v.issues) /\ IsFiniteSet(v.issues)
    BY VerdictFields DEF IsValidation
  <2>2. ConfidenceScore(v.issues) \in 0 .. 100
    BY <2>1, PenaltyGrows
  <2>. QED
    BY <2>1, <2>2
<1>3. CASE w = v
  BY <1>1, <1>2, <1>3
<1>4. CASE w # v
  <2>1. /\ IsValidation(w)
        /\ v.issues \subseteq w.issues
        /\ Severity(w.disposition) >= Severity(v.disposition)
        /\ w.confidence_score <= v.confidence_score
        /\ w.evaluated_at = v.evaluated_at
    BY <1>4, LaterStagesOnlyAdd
  <2>2. Severity(w.disposition) \in Int /\ w.confidence_score \in Int
    <3>1. /\ w.disposition = Disposition(w.issues) /\ IsFiniteSet(w.issues)
          /\ w.confidence_score = ConfidenceScore(w.issues)
      BY <2>1, VerdictFields DEF IsValidation
    <3>2. ConfidenceScore(w.issues) \in 0 .. 100
      BY <3>1, PenaltyGrows
    <3>. QED
      BY <3>1, <3>2 DEF Disposition, Severity
  <2>. QED
    BY <1>1, <1>2, <2>1, <2>2
<1>. QED
  BY <1>3, <1>4

LEMMA StepGrows ==
  ASSUME EvaluationInv, [Next]_vars
  PROVE  Grows
<1> SUFFICES ASSUME validation # None, validation' # None
             PROVE  /\ validation.issues \subseteq validation'.issues
                    /\ Severity(validation.disposition) <= Severity(validation'.disposition)
                    /\ validation.confidence_score >= validation'.confidence_score
                    /\ validation'.evaluated_at = validation.evaluated_at
  BY DEF Grows
<1>1. stage \in Validated /\ IsValidation(validation)
  BY DEF EvaluationInv, NothingYet, Concerned
<1>2. CASE validation' = validation
  BY <1>1, <1>2, StageGrows
<1>3. CASE Match
  <2>1. matches' = Matched(case) /\ validation' = ValidateProductMatches(validation, Matched(case))
    BY <1>3, MatchesFacts DEF Match
  <2>2. IsFiniteSet(DOMAIN Matched(case))
    <3>1. TypedCase(case)
      BY <1>1, StageSets DEF EvaluationInv, CaseIsTyped
    <3>2. DOMAIN Matched(case) = DOMAIN case.observations
      BY DEF Matched
    <3>. QED
      BY <3>1, <3>2, ArrayFacts DEF TypedCase
  <2>. QED
    BY <1>1, <2>1, <2>2, StageGrows
<1>4. CASE Rank
  <2>1. stage = "matched" /\ rankings' = RankSupplierOffers(case, matches)
        /\ validation' = ValidateSupplierRankings(validation, rankings')
    BY <1>4 DEF Rank
  <2>2. TypedCase(case) /\ ScenariosComplete(case) /\ matches = Matched(case)
    BY <2>1 DEF EvaluationInv, CaseIsTyped, MatchesRecorded, Compared, Validated, Checked, Parsed
  <2>3. IsFiniteSet(rankings')
    BY <2>1, <2>2, RankingsOfCase, DraftsFacts, RankingsFinite
  <2>. QED
    BY <1>1, <2>1, <2>3, StageGrows
<1>5. ASSUME ~Match, ~Rank PROVE validation' = validation
  BY <1>1, <1>5 DEF Next, vars, Validated, Checked, Parsed, Submit, Parse, RefuseBundle,
     CheckScenarios, RefuseScenarios, Validate,
     Calculate, RefuseCosts, Render, RefuseReport, RefuseResult, Persist, RefuseRows, Refuse
<1>. QED
  BY <1>2, <1>3, <1>4, <1>5

\* From one stage of the validation to the next no issue is lost, the disposition never
\* softens and the confidence never recovers, whatever the case: the later stages add
\* to the issues and to nothing else (validate_product_matches,
\* validate_supplier_rankings).
THEOREM ConcernGrows == Spec => ConcernOnlyGrows
<1>1. EvaluationInv /\ [Next]_vars => [Grows]_vars
  BY StepGrows
<1>2. ConcernOnlyGrows <=> [][Grows]_vars
  BY DEF ConcernOnlyGrows, Grows
<1>. QED
  BY <1>1, <1>2, EvaluationHolds, PTL DEF Spec

-----------------------------------------------------------------------------
(* The landed costs.                                                       *)

LEMMA JoinedElements ==
  ASSUME NEW S, NEW s \in Seq(S), NEW t \in Seq(S)
  PROVE  s \o t \in Seq(S) /\ \A i \in 1 .. Len(s) : (s \o t)[i] = s[i]
  OBVIOUS

LEMMA ComponentsOfCost ==
  ASSUME NEW s, Array(s.costs)
  PROVE  /\ LandedCost(s).components[1].amount = PurchaseTotal(s)
         /\ \A j \in DOMAIN s.costs :
              LandedCost(s).components[j + 1].amount = CostAmount(s, s.costs[j])
<1> DEFINE first == Component("product_cost", PurchaseTotal(s), "DERIVED_CALCULATION")
           rest == [i \in DOMAIN s.costs |->
                      Component(s.costs[i].code, CostAmount(s, s.costs[i]), s.costs[i].evidence_class)]
           inputs == <<first>> \o rest
           reserve == Component("unexpected_cost",
                                Cents(Subtotal(inputs) * s.unexpected_cost_rate[1],
                                      s.unexpected_cost_rate[2]), "ASSUMPTION")
           contingency == IF s.unexpected_cost_rate[1] = 0 THEN <<>> ELSE <<reserve>>
           S == {first, reserve} \cup {rest[i] : i \in DOMAIN s.costs}
<1>1. PICK n \in Nat : DOMAIN s.costs = 1 .. n
  BY ArrayFacts
<1>2. rest \in Seq(S) /\ Len(rest) = n
  <2>1. rest \in [1 .. n -> S]
    BY <1>1
  <2>2. DOMAIN rest = 1 .. n
    BY <1>1
  <2> HIDE DEF rest, S
  <2>. QED
    BY <2>1, <2>2
<1>3. <<first>> \in Seq(S) /\ contingency \in Seq(S) /\ Len(<<first>>) = 1 /\ <<first>>[1] = first
  <2>1. first \in S /\ reserve \in S
    OBVIOUS
  <2> HIDE DEF first, reserve, S
  <2>2. <<first>> \in Seq(S) /\ <<reserve>> \in Seq(S) /\ <<>> \in Seq(S)
    BY <2>1
  <2>. QED
    BY <2>2
<1>4. LandedCost(s).components = inputs \o contingency
  BY DEF LandedCost
<1>5. first.amount = PurchaseTotal(s)
      /\ \A j \in DOMAIN s.costs : rest[j].amount = CostAmount(s, s.costs[j])
  BY DEF Component
<1> HIDE DEF first, reserve, rest, contingency, S
<1>6. /\ inputs \in Seq(S) /\ Len(inputs) = n + 1 /\ inputs[1] = first
      /\ \A j \in 1 .. n : inputs[j + 1] = rest[j]
  BY <1>2, <1>3
<1> HIDE DEF inputs
<1>7. \A i \in 1 .. n + 1 : (inputs \o contingency)[i] = inputs[i]
  BY <1>3, <1>6, JoinedElements
<1>8. (inputs \o contingency)[1] = first
      /\ \A j \in 1 .. n : (inputs \o contingency)[j + 1] = rest[j]
  <2>1. 1 \in 1 .. n + 1 /\ \A j \in 1 .. n : j + 1 \in 1 .. n + 1
    OBVIOUS
  <2>. QED
    BY <1>6, <1>7, <2>1
<1>. QED
  BY <1>1, <1>4, <1>5, <1>8

LEMMA RateIsFound ==
  ASSUME NEW s, TypedScenario(s), NEW money, money.amount \in Int,
         Converted(money, Target(s), s.fx_rates) # None
  PROVE  RateFound(money, s)
<1> SUFFICES ASSUME money.currency # Target(s)
             PROVE  LET rate == PathRate(money.currency, Target(s), s.fx_rates) IN
                    rate # None /\ rate[1] \in Nat /\ rate[2] \in Nat \ {0}
  BY DEF RateFound
<1> DEFINE rate == PathRate(money.currency, Target(s), s.fx_rates)
<1>1. rate \in PositiveRatio \cup {None}
  BY PathRatePositive DEF TypedScenario, TypedRates
<1>2. rate # None
  BY DEF Converted
<1> HIDE DEF rate
<1>3. rate[1] \in Nat /\ rate[2] \in Nat \ {0}
  BY <1>1, <1>2 DEF PositiveRatio
<1>. QED
  BY <1>2, <1>3 DEF rate

\* What RoundingStaysClose says of one scenario and its cost.
ScenarioCloses(s, cost) ==
  /\ CostStaysClose(s.purchase_unit_price, cost.components[1].amount, s,
                    <<s.purchase_price_multiplier[1] * s.quantity, s.purchase_price_multiplier[2]>>)
  /\ \A j \in DOMAIN s.costs :
       CostStaysClose(s.costs[j].money, cost.components[j + 1].amount, s,
                      <<s.cost_multiplier[1] * (IF s.costs[j].basis = "PER_UNIT" THEN s.quantity ELSE 1),
                        s.cost_multiplier[2]>>)

LEMMA CostOfScenarioCloses ==
  ASSUME NEW s, TypedScenario(s), Computable(s)
  PROVE  ScenarioCloses(s, LandedCost(s))
<1>1. /\ s.quantity \in Nat \ {0} /\ s.purchase_unit_price.amount \in Int
      /\ s.purchase_price_multiplier[1] \in Nat /\ s.purchase_price_multiplier[2] \in Nat \ {0}
      /\ s.cost_multiplier[1] \in Nat /\ s.cost_multiplier[2] \in Nat \ {0}
      /\ Array(s.costs) /\ \A j \in DOMAIN s.costs : s.costs[j].money.amount \in Int
  BY DEF TypedScenario, PositiveRatio
<1>2. RateFound(s.purchase_unit_price, s)
  BY <1>1, RateIsFound DEF Computable
<1>3. \A j \in DOMAIN s.costs : RateFound(s.costs[j].money, s)
  BY <1>1, RateIsFound DEF Computable
<1>4. LandedCost(s).components[1].amount = PurchaseTotal(s)
      /\ \A j \in DOMAIN s.costs : LandedCost(s).components[j + 1].amount = CostAmount(s, s.costs[j])
  BY <1>1, ComponentsOfCost
<1>5. CostStaysClose(s.purchase_unit_price, PurchaseTotal(s), s,
                    <<s.purchase_price_multiplier[1] * s.quantity, s.purchase_price_multiplier[2]>>)
  <2>1. PICK cost : cost = [money |-> s.purchase_unit_price, basis |-> "TOTAL"]
    OBVIOUS
  <2>2. cost.money.amount \in Int /\ RateFound(cost.money, s)
    BY <1>1, <1>2, <2>1
  <2>. QED
    BY <1>1, <1>2, <2>2, ComponentsStayClose
<1>6. ASSUME NEW j \in DOMAIN s.costs
      PROVE  CostStaysClose(s.costs[j].money, CostAmount(s, s.costs[j]), s,
               <<s.cost_multiplier[1] * (IF s.costs[j].basis = "PER_UNIT" THEN s.quantity ELSE 1),
                 s.cost_multiplier[2]>>)
  BY <1>1, <1>2, <1>3, ComponentsStayClose
<1>. QED
  BY <1>4, <1>5, <1>6 DEF ScenarioCloses

\* Every component of a landed cost is at most half a cent, and half a cent per
\* multiplied unit, from the exact amount, for every case, every rate the search finds
\* and every quantity (calculate_landed_cost, money).
THEOREM RoundingCloses == Spec => []RoundingStaysClose
<1>1. EvaluationInv => RoundingStaysClose
  <2> SUFFICES ASSUME EvaluationInv, stage = "calculated", NEW i \in DOMAIN case.scenarios
               PROVE  ScenarioCloses(case.scenarios[i], scenarios[i])
    BY DEF RoundingStaysClose, ScenarioCloses
  <2>1. TypedCase(case) /\ AllComputable
        /\ scenarios = [j \in DOMAIN case.scenarios |-> LandedCost(case.scenarios[j])]
    BY DEF EvaluationInv, CaseIsTyped, CostsRecorded, Parsed
  <2>2. TypedScenario(case.scenarios[i]) /\ Computable(case.scenarios[i])
        /\ scenarios[i] = LandedCost(case.scenarios[i])
    BY <2>1 DEF TypedCase, AllComputable
  <2>. QED
    BY <2>2, CostOfScenarioCloses
<1>. QED
  BY <1>1, EvaluationHolds, PTL

-----------------------------------------------------------------------------
(* What lies within so many arcs of a currency.                            *)

Succ(rates, c) == {arc.to : arc \in ToSet(Arcs(rates, c))}

NearStep(p, near, i) == near \cup UNION {Succ(p, c) : c \in near}

Nearing == INSTANCE FoldTheory WITH Op <- NearStep

NearOf(rates, from, k) ==
  CHOOSE near :
    near = [n \in 0 .. k |-> IF n = 0 THEN {from}
                             ELSE near[n - 1] \cup UNION {Succ(rates, c) : c \in near[n - 1]}]

\* What the recursive definition of Within asks of its function.
Nears(near, rates, from, k) ==
  near = [n \in 0 .. k |-> IF n = 0 THEN {from}
                           ELSE near[n - 1] \cup UNION {Succ(rates, c) : c \in near[n - 1]}]

LEMMA SuccInCurrencies ==
  ASSUME NEW rates, TypedRates(rates), NEW from, NEW c
  PROVE  Succ(rates, c) \subseteq Currencies(rates, from)
<1>1. Arcs(rates, c) \in Seq(Arc(Currencies(rates, from)))
  BY ArcsFacts
<1>2. \A arc \in ToSet(Arcs(rates, c)) : arc \in Arc(Currencies(rates, from))
  BY <1>1 DEF ToSet
<1>. QED
  BY <1>2 DEF Succ, Arc

LEMMA NearExists ==
  ASSUME NEW rates, TypedRates(rates), NEW from, NEW k \in Nat
  PROVE  \E near \in [0 .. k -> SUBSET Currencies(rates, from)] : Nears(near, rates, from, k)
<1> DEFINE C == Currencies(rates, from)
           seq == [i \in 1 .. k |-> i]
<1>1. from \in C
  BY DEF Currencies
<1>2. \A c : Succ(rates, c) \subseteq C
  BY SuccInCurrencies
<1> HIDE DEF C
<1>3. \A a \in SUBSET C, x \in 1 .. k : NearStep(rates, a, x) \in SUBSET C
  BY <1>2 DEF NearStep
<1>4. seq \in Seq(1 .. k) /\ Len(seq) = k /\ {from} \in SUBSET C
  BY <1>1
<1>5. Nearing!Stepwise(SUBSET C, rates, {from}, seq)
  <2> HIDE DEF seq
  <2>. QED
    BY <1>3, <1>4, NumbersInduct, Nearing!FoldSteps
<1>6. PICK near \in [0 .. k -> SUBSET C] :
         /\ near[0] = {from}
         /\ \A n \in 1 .. k : near[n] = NearStep(rates, near[n - 1], seq[n])
  <2> HIDE DEF seq
  <2>. QED
    BY <1>4, <1>5 DEF Nearing!Stepwise
<1>7. ASSUME NEW n \in 0 .. k
      PROVE  near[n] = IF n = 0 THEN {from}
                       ELSE near[n - 1] \cup UNION {Succ(rates, c) : c \in near[n - 1]}
  BY <1>6 DEF NearStep
<1>8. Nears(near, rates, from, k)
  BY <1>6, <1>7 DEF Nears
<1>. QED
  BY <1>6, <1>8 DEF C

LEMMA NearsAgree ==
  ASSUME NEW rates, NEW from, NEW k \in Nat, NEW m \in Nat, k <= m,
         NEW f, Nears(f, rates, from, k), NEW g, Nears(g, rates, from, m)
  PROVE  \A n \in 0 .. k : f[n] = g[n]
<1> DEFINE G == {n \in 0 .. k : f[n] = g[n]}
<1>1. f[0] = {from} /\ g[0] = {from}
  <2>1. 0 \in 0 .. k /\ 0 \in 0 .. m
    OBVIOUS
  <2>. QED
    BY <2>1, Zenon DEF Nears
<1>2. 0 \in G
  BY <1>1
<1>3. ASSUME NEW n \in 0 .. k - 1, n \in G PROVE n + 1 \in G
  <2>1. n + 1 \in 0 .. k /\ n + 1 \in 0 .. m /\ n + 1 # 0 /\ n + 1 - 1 = n
    OBVIOUS
  <2>2. /\ f[n + 1] = f[n] \cup UNION {Succ(rates, c) : c \in f[n]}
        /\ g[n + 1] = g[n] \cup UNION {Succ(rates, c) : c \in g[n]}
    BY <2>1 DEF Nears
  <2>. QED
    BY <1>3, <2>1, <2>2
<1>4. \A n \in 0 .. k : n \in G
  <2> HIDE DEF G
  <2>. QED
    BY <1>2, <1>3, UpTo
<1>. QED
  BY <1>4

LEMMA WithinIsNear ==
  ASSUME NEW rates, TypedRates(rates), NEW from, NEW k \in Nat
  PROVE  \E near \in [0 .. k -> SUBSET Currencies(rates, from)] :
           Nears(near, rates, from, k) /\ Within(rates, from, k) = near[k]
<1> DEFINE f == NearOf(rates, from, k)
<1>1. PICK near \in [0 .. k -> SUBSET Currencies(rates, from)] : Nears(near, rates, from, k)
  BY NearExists
<1>2. Nears(f, rates, from, k)
  BY <1>1 DEF Nears, NearOf
<1>3. Within(rates, from, k) = f[k]
  BY DEF Within, NearOf, Succ
<1> HIDE DEF f
<1>4. \A n \in 0 .. k : near[n] = f[n]
  BY <1>1, <1>2, NearsAgree
<1>. QED
  BY <1>1, <1>3, <1>4

LEMMA WithinSteps ==
  ASSUME NEW rates, TypedRates(rates), NEW from
  PROVE  /\ Within(rates, from, 0) = {from}
         /\ \A k \in Nat :
              Within(rates, from, k + 1)
                = Within(rates, from, k) \cup UNION {Succ(rates, c) : c \in Within(rates, from, k)}
         /\ \A k \in Nat : Within(rates, from, k) \subseteq Currencies(rates, from)
<1>1. Within(rates, from, 0) = {from}
  <2>1. PICK near : Nears(near, rates, from, 0) /\ Within(rates, from, 0) = near[0]
    BY WithinIsNear
  <2>. QED
    BY <2>1 DEF Nears
<1>2. ASSUME NEW k \in Nat
      PROVE  Within(rates, from, k + 1)
               = Within(rates, from, k) \cup UNION {Succ(rates, c) : c \in Within(rates, from, k)}
  <2>1. PICK f : Nears(f, rates, from, k) /\ Within(rates, from, k) = f[k]
    BY WithinIsNear
  <2>2. PICK g : Nears(g, rates, from, k + 1) /\ Within(rates, from, k + 1) = g[k + 1]
    <3>1. k + 1 \in Nat
      OBVIOUS
    <3>. QED
      BY <3>1, WithinIsNear
  <2>3. f[k] = g[k]
    <3>1. k + 1 \in Nat /\ k <= k + 1 /\ k \in 0 .. k
      OBVIOUS
    <3>. QED
      BY <2>1, <2>2, <3>1, NearsAgree
  <2>4. g[k + 1] = g[k] \cup UNION {Succ(rates, c) : c \in g[k]}
    <3>1. k + 1 \in 0 .. k + 1 /\ k + 1 # 0 /\ k + 1 - 1 = k
      OBVIOUS
    <3>. QED
      BY <2>2, <3>1 DEF Nears
  <2>. QED
    BY <2>1, <2>2, <2>3, <2>4
<1>3. \A k \in Nat : Within(rates, from, k) \subseteq Currencies(rates, from)
  <2>1. ASSUME NEW k \in Nat PROVE Within(rates, from, k) \subseteq Currencies(rates, from)
    <3>1. PICK near \in [0 .. k -> SUBSET Currencies(rates, from)] :
            Within(rates, from, k) = near[k]
      BY WithinIsNear
    <3>. QED
      BY <3>1
  <2>. QED
    BY <2>1
<1>. QED
  BY <1>1, <1>2, <1>3

LEMMA WithinGrows ==
  ASSUME NEW rates, TypedRates(rates), NEW from, NEW k \in Nat, NEW m \in Nat, k <= m
  PROVE  Within(rates, from, k) \subseteq Within(rates, from, m)
<1> DEFINE G == {n \in 0 .. m - k : Within(rates, from, k) \subseteq Within(rates, from, k + n)}
<1>1. 0 \in G
  OBVIOUS
<1>2. ASSUME NEW n \in 0 .. (m - k) - 1, n \in G PROVE n + 1 \in G
  <2>1. Within(rates, from, k + n) \subseteq Within(rates, from, (k + n) + 1)
    <3>1. k + n \in Nat
      OBVIOUS
    <3>. QED
      BY <3>1, WithinSteps
  <2>2. (k + n) + 1 = k + (n + 1) /\ n + 1 \in 0 .. m - k
    OBVIOUS
  <2>. QED
    BY <1>2, <2>1, <2>2
<1>3. m - k \in Nat /\ m - k \in 0 .. m - k /\ k + (m - k) = m
  OBVIOUS
<1>4. \A n \in 0 .. m - k : n \in G
  <2> HIDE DEF G
  <2>. QED
    BY <1>1, <1>2, <1>3, UpTo
<1>5. m - k \in G
  BY <1>3, <1>4
<1>. QED
  BY <1>3, <1>5

-----------------------------------------------------------------------------
(* The rates along the walks of so many arcs.                              *)

\* The rates of the walks to c that are one arc longer than those whose rates are given.
OneLonger(rates, near, shorter, c) ==
  UNION {{Times(q, arc.rate) : arc \in {a \in ToSet(Arcs(rates, d)) : a.to = c},
                               q \in shorter[d]} : d \in near}

NoArc(from, c) == IF c = from THEN {<<1, 1>>} ELSE {}

WalkOf(rates, from, k) ==
  CHOOSE walk :
    walk = [n \in 0 .. k |-> [c \in Within(rates, from, k) |->
              IF n = 0 THEN NoArc(from, c)
              ELSE OneLonger(rates, Within(rates, from, n - 1), walk[n - 1], c)]]

\* What the recursive definition of WalkRates asks of its function.
Walks(walk, rates, from, k) ==
    walk = [n \in 0 .. k |-> [c \in Within(rates, from, k) |->
              IF n = 0 THEN NoArc(from, c)
              ELSE OneLonger(rates, Within(rates, from, n - 1), walk[n - 1], c)]]

LEMMA WalkOfRates ==
  ASSUME NEW rates, NEW from, NEW k, NEW target
  PROVE  WalkRates(rates, from, k, target) = WalkOf(rates, from, k)[k][target]
BY DEF WalkRates, WalkOf, NoArc, OneLonger

LEMMA LongerAlike ==
  ASSUME NEW rates, NEW near, NEW c, NEW f, NEW g, \A d \in near : f[d] = g[d]
  PROVE  OneLonger(rates, near, f, c) = OneLonger(rates, near, g, c)
BY DEF OneLonger

LadderStep(p, shorter, n) ==
  [c \in Currencies(p[1], p[2]) |-> OneLonger(p[1], Within(p[1], p[2], n - 1), shorter, c)]

Climbing == INSTANCE FoldTheory WITH Op <- LadderStep

\* The rates of all walks of up to m arcs, by their number of arcs and their end.
Ladder(h, rates, from, m) ==
  /\ h[0] = [c \in Currencies(rates, from) |-> NoArc(from, c)]
  /\ \A n \in 1 .. m : h[n] = LadderStep(<<rates, from>>, h[n - 1], n)

LEMMA LadderExists ==
  ASSUME NEW rates, TypedRates(rates), NEW from, NEW m \in Nat
  PROVE  \E h : Ladder(h, rates, from, m)
<1> DEFINE C == Currencies(rates, from)
           A == [C -> SUBSET PositiveRatio]
           base == [c \in C |-> NoArc(from, c)]
           p == <<rates, from>>
           seq == [i \in 1 .. m |-> i]
<1>1. base \in A
  <2>1. <<1, 1>> \in PositiveRatio
    BY DEF PositiveRatio
  <2> HIDE DEF C
  <2>. QED
    BY <2>1 DEF NoArc
<1>2. ASSUME NEW a \in A, NEW n \in 1 .. m, NEW c \in C
      PROVE  OneLonger(rates, Within(rates, from, n - 1), a, c) \subseteq PositiveRatio
  <2>1. n - 1 \in Nat
    OBVIOUS
  <2>2. Within(rates, from, n - 1) \subseteq C
    BY <2>1, WithinSteps
  <2>3. ASSUME NEW d \in Within(rates, from, n - 1), NEW arc \in ToSet(Arcs(rates, d)), NEW q \in a[d]
        PROVE  Times(q, arc.rate) \in PositiveRatio
    <3>1. q \in PositiveRatio
      <4> HIDE DEF C
      <4>. QED
        BY <2>2
    <3>2. Arcs(rates, d) \in Seq(Arc(C))
      BY ArcsFacts
    <3>3. arc.rate \in PositiveRatio
      <4>1. arc \in Arc(C)
        BY <3>2 DEF ToSet
      <4> HIDE DEF C
      <4>. QED
        BY <4>1 DEF Arc
    <3>. QED
      BY <3>1, <3>3, TimesPositive
  <2> HIDE DEF C, A
  <2>. QED
    BY <2>3 DEF OneLonger
<1>3. ASSUME NEW a \in A, NEW n \in 1 .. m PROVE LadderStep(p, a, n) \in A
  <2>1. LadderStep(p, a, n) = [c \in C |-> OneLonger(rates, Within(rates, from, n - 1), a, c)]
    BY DEF LadderStep
  <2>2. \A c \in C : OneLonger(rates, Within(rates, from, n - 1), a, c) \in SUBSET PositiveRatio
    BY <1>2
  <2> HIDE DEF C, p
  <2>. QED
    BY <2>1, <2>2
<1>4. seq \in Seq(1 .. m) /\ Len(seq) = m
  OBVIOUS
<1>5. Climbing!Stepwise(A, p, base, seq)
  <2> HIDE DEF A, p, base, seq
  <2>. QED
    BY <1>1, <1>3, <1>4, NumbersInduct, Climbing!FoldSteps
<1>6. PICK h \in [0 .. m -> A] :
         /\ h[0] = base
         /\ \A n \in 1 .. m : h[n] = LadderStep(p, h[n - 1], seq[n])
  <2> HIDE DEF A, p, base, seq
  <2>. QED
    BY <1>4, <1>5 DEF Climbing!Stepwise
<1>7. \A n \in 1 .. m : h[n] = LadderStep(p, h[n - 1], n)
  BY <1>6
<1>. QED
  BY <1>6, <1>7 DEF Ladder

LEMMA WalkIsLadder ==
  ASSUME NEW rates, TypedRates(rates), NEW from, NEW k \in Nat, NEW m \in Nat, k <= m,
         NEW h, Ladder(h, rates, from, m), NEW c \in Within(rates, from, k)
  PROVE  WalkRates(rates, from, k, c) = h[k][c]
<1> DEFINE W == Within(rates, from, k)
           w == [n \in 0 .. k |-> [d \in W |-> h[n][d]]]
           f == WalkOf(rates, from, k)
           Body(g, n) == [d \in W |-> IF n = 0 THEN NoArc(from, d)
                                      ELSE OneLonger(rates, Within(rates, from, n - 1), g[n - 1], d)]
<1>1. W \subseteq Currencies(rates, from)
  BY WithinSteps
<1>2. ASSUME NEW n \in 1 .. k
      PROVE  /\ n # 0 /\ n \in 0 .. k /\ n - 1 \in 0 .. k /\ n \in 1 .. m
             /\ Within(rates, from, n - 1) \subseteq W
  <2>1. n - 1 \in Nat /\ n - 1 <= k
    OBVIOUS
  <2>2. Within(rates, from, n - 1) \subseteq W
    BY <2>1, WithinGrows
  <2>. QED
    BY <2>2
<1>3. 0 \in 0 .. k /\ k \in 0 .. k
  OBVIOUS
<1>4. ASSUME NEW n \in 0 .. k PROVE w[n] = Body(w, n)
  <2>1. CASE n = 0
    BY <1>1, <1>3, <2>1 DEF Ladder
  <2>2. CASE n # 0
    <3>1. n \in 1 .. k
      BY <2>2
    <3>2. h[n] = LadderStep(<<rates, from>>, h[n - 1], n)
      BY <1>2, <3>1 DEF Ladder
    <3>3. ASSUME NEW d \in W
          PROVE  h[n][d] = OneLonger(rates, Within(rates, from, n - 1), w[n - 1], d)
      <4>1. h[n][d] = OneLonger(rates, Within(rates, from, n - 1), h[n - 1], d)
        BY <1>1, <3>2 DEF LadderStep
      <4>2. \A e \in Within(rates, from, n - 1) : h[n - 1][e] = w[n - 1][e]
        BY <1>2, <3>1
      <4> HIDE DEF w
      <4>. QED
        BY <4>1, <4>2, LongerAlike
    <3>4. w[n] = [d \in W |-> h[n][d]]
      OBVIOUS
    <3> HIDE DEF w, W
    <3>. QED
      BY <2>2, <3>3, <3>4
  <2>. QED
    BY <2>1, <2>2
<1>5. w = [n \in 0 .. k |-> w[n]]
  OBVIOUS
<1>6. Walks(w, rates, from, k)
  <2> HIDE DEF w
  <2>. QED
    BY <1>4, <1>5 DEF Walks
<1>7. Walks(f, rates, from, k)
  <2> HIDE DEF w
  <2>. QED
    BY <1>6 DEF Walks, WalkOf
<1>8. \A n \in 0 .. k : f[n] = Body(f, n)
  <2> HIDE DEF w, f
  <2>. QED
    BY <1>7 DEF Walks
<1> DEFINE G == {n \in 0 .. k : f[n] = w[n]}
<1> HIDE DEF w, f
<1>9. 0 \in G
  BY <1>3, <1>4, <1>8
<1>10. ASSUME NEW n \in 0 .. k - 1, n \in G PROVE n + 1 \in G
  <2>1. n + 1 \in 0 .. k /\ n + 1 # 0 /\ n + 1 - 1 = n
    OBVIOUS
  <2>2. f[n + 1] = [d \in W |-> OneLonger(rates, Within(rates, from, n), f[n], d)]
    BY <1>8, <2>1
  <2>3. w[n + 1] = [d \in W |-> OneLonger(rates, Within(rates, from, n), w[n], d)]
    BY <1>4, <2>1
  <2>. QED
    BY <1>10, <2>1, <2>2, <2>3
<1>11. \A n \in 0 .. k : n \in G
  <2> HIDE DEF G
  <2>. QED
    BY <1>9, <1>10, UpTo
<1>12. f[k] = w[k]
  BY <1>3, <1>11
<1>13. w[k][c] = h[k][c]
  BY <1>3 DEF w
<1>. QED
  BY <1>12, <1>13, WalkOfRates DEF f

\* The walk without an arc, and one arc more.
LEMMA WalkSteps ==
  ASSUME NEW rates, TypedRates(rates), NEW from
  PROVE  /\ WalkRates(rates, from, 0, from) = {<<1, 1>>}
         /\ \A k \in Nat : \A c \in Within(rates, from, k) :
              \A q \in WalkRates(rates, from, k, c), arc \in ToSet(Arcs(rates, c)) :
                /\ arc.to \in Within(rates, from, k + 1)
                /\ Times(q, arc.rate) \in WalkRates(rates, from, k + 1, arc.to)
<1>1. WalkRates(rates, from, 0, from) = {<<1, 1>>}
  <2>1. PICK h : Ladder(h, rates, from, 0)
    BY LadderExists
  <2>2. from \in Within(rates, from, 0) /\ from \in Currencies(rates, from)
    BY WithinSteps DEF Currencies
  <2>3. WalkRates(rates, from, 0, from) = h[0][from]
    BY <2>1, <2>2, WalkIsLadder
  <2>. QED
    BY <2>1, <2>2, <2>3 DEF Ladder, NoArc
<1>2. ASSUME NEW k \in Nat, NEW c \in Within(rates, from, k),
             NEW q \in WalkRates(rates, from, k, c), NEW arc \in ToSet(Arcs(rates, c))
      PROVE  /\ arc.to \in Within(rates, from, k + 1)
             /\ Times(q, arc.rate) \in WalkRates(rates, from, k + 1, arc.to)
  <2>1. k + 1 \in Nat /\ k <= k + 1 /\ k + 1 <= k + 1 /\ k + 1 \in 1 .. k + 1 /\ k + 1 - 1 = k
    OBVIOUS
  <2>2. PICK h : Ladder(h, rates, from, k + 1)
    BY <2>1, LadderExists
  <2>3. arc.to \in Within(rates, from, k + 1)
    BY WithinSteps DEF Succ
  <2>4. arc.to \in Currencies(rates, from)
    BY <2>1, <2>3, WithinSteps
  <2>5. q \in h[k][c]
    BY <2>1, <2>2, WalkIsLadder
  <2>6. WalkRates(rates, from, k + 1, arc.to) = h[k + 1][arc.to]
    BY <2>1, <2>2, <2>3, WalkIsLadder
  <2>7. h[k + 1] = LadderStep(<<rates, from>>, h[k], k + 1)
    BY <2>1, <2>2 DEF Ladder
  <2>8. h[k + 1][arc.to] = OneLonger(rates, Within(rates, from, k), h[k], arc.to)
    BY <2>1, <2>4, <2>7 DEF LadderStep
  <2>9. Times(q, arc.rate) \in OneLonger(rates, Within(rates, from, k), h[k], arc.to)
    BY <2>5 DEF OneLonger
  <2>. QED
    BY <2>3, <2>6, <2>8, <2>9
<1>. QED
  BY <1>1, <1>2

-----------------------------------------------------------------------------
(* The invariant of the search.                                            *)

\* An entry of the queue that stands for a walk of d arcs.
AtLevel(q, rates, from, d) ==
  /\ q[1] \in Within(rates, from, d)
  /\ q[2] \in WalkRates(rates, from, d, q[1])

Waiting(search) == {search.queue[i][1] : i \in 1 .. Len(search.queue)}

\* The queue is the rest of one level, a entries long, and what is known of the next.
Levelled(search, rates, from, d, a) ==
  /\ a <= Len(search.queue)
  /\ \A i \in 1 .. Len(search.queue) :
       /\ i <= a => AtLevel(search.queue[i], rates, from, d)
       /\ i > a => /\ AtLevel(search.queue[i], rates, from, d + 1)
                   /\ search.queue[i][1] \notin Within(rates, from, d)
  /\ Within(rates, from, d) \subseteq search.visited
  /\ search.visited \subseteq Within(rates, from, d + 1)

\* What was visited has had its turn, or waits for it, or has it now.
EachHasItsTurn(search, rates, now) ==
  \A c \in search.visited :
    Succ(rates, c) \subseteq search.visited \/ c \in Waiting(search) \/ c \in now

\* Every currency visited has been in the queue: t of them have left it.
TurnsCounted(search, t) ==
  /\ IsFiniteSet(search.visited)
  /\ Cardinality(search.visited) = t + Len(search.queue)

Seeking(search, rates, from, target, d, a, now, t) ==
  /\ search.found = None /\ target \notin search.visited
  /\ Levelled(search, rates, from, d, a)
  /\ EachHasItsTurn(search, rates, now)
  /\ TurnsCounted(search, t)

\* The rate is that of a walk to a target that is not nearer.
Arrived(search, rates, from, target) ==
  /\ search.found # None
  /\ \E d \in Nat : /\ target \in Within(rates, from, d + 1)
                    /\ target \notin Within(rates, from, d)
                    /\ search.found \in WalkRates(rates, from, d + 1, target)

\* An arc leads to the target or is ticked off.
Followed(search, after, arc, rates, from, target, d, a, now, t) ==
  \/ Arrived(after, rates, from, target)
  \/ /\ Seeking(after, rates, from, target, d, a, now, t)
     /\ search.visited \subseteq after.visited /\ arc.to \in after.visited

LEMMA FollowSeeks ==
  ASSUME NEW rates, TypedRates(rates), NEW from, NEW target,
         NEW C, C = Currencies(rates, from), NEW search \in Search(C),
         NEW d \in Nat, NEW a \in Nat, NEW now, NEW t \in Nat,
         Seeking(search, rates, from, target, d, a, now, t),
         NEW head \in C \X PositiveRatio, AtLevel(head, rates, from, d),
         NEW arc \in ToSet(Arcs(rates, head[1])), arc \in Arc(C),
         NEW after, after = Follow(search, arc, head[2], target)
  PROVE  Followed(search, after, arc, rates, from, target, d, a, now, t)
<1> DEFINE r == Times(head[2], arc.rate)
           q == search.queue
<1>1. /\ arc.to \in Within(rates, from, d + 1)
      /\ r \in WalkRates(rates, from, d + 1, arc.to)
  BY WalkSteps DEF AtLevel
<1>2. r \in PositiveRatio /\ arc.to \in C
  BY TimesPositive DEF Arc
<1>3. r # None
  <2>1. PositiveRatio \subseteq Ratio
    BY DEF PositiveRatio, Ratio
  <2> HIDE DEF r
  <2>. QED
    BY <1>2, <2>1, BundlesAssumption
<1>4. search.found = None /\ target \notin search.visited
  BY DEF Seeking
<1> HIDE DEF r
<1>5. CASE arc.to \in search.visited
  <2>1. after = search
    BY <1>5 DEF Follow
  <2>. QED
    BY <1>5, <2>1 DEF Followed
<1>6. CASE arc.to \notin search.visited /\ arc.to = target
  <2>1. after.found = r
    BY <1>4, <1>6 DEF Follow, r, Search
  <2>2. target \notin Within(rates, from, d)
    BY <1>4 DEF Seeking, Levelled
  <2>. QED
    BY <1>1, <1>3, <1>6, <2>1, <2>2 DEF Arrived, Followed
<1>7. CASE arc.to \notin search.visited /\ arc.to # target
  <2> DEFINE e == <<arc.to, r>>
  <2>1. /\ after.queue = Append(q, e) /\ after.found = None
        /\ after.visited = search.visited \cup {arc.to}
    BY <1>4, <1>7 DEF Follow, r, Search
  <2>2. q \in Seq(C \X PositiveRatio) /\ e \in C \X PositiveRatio
    BY <1>2 DEF Search
  <2>3. PICK n \in Nat : n = Len(q)
    BY <2>2
  <2>4. /\ Len(after.queue) = n + 1 /\ after.queue[n + 1] = e
        /\ \A i \in 1 .. n : after.queue[i] = q[i]
    <3> HIDE DEF q, e
    <3>. QED
      BY <2>1, <2>2, <2>3, AppendFacts
  <2>5. e[1] = arc.to /\ e[2] = r
    OBVIOUS
  <2>6. AtLevel(e, rates, from, d + 1)
    BY <1>1, <2>5 DEF AtLevel
  <2>7. arc.to \notin Within(rates, from, d)
    BY <1>7 DEF Seeking, Levelled
  <2>8. target \notin after.visited
    BY <1>4, <1>7, <2>1
  <2>9. /\ a <= n
        /\ \A i \in 1 .. n :
             /\ i <= a => AtLevel(q[i], rates, from, d)
             /\ i > a => AtLevel(q[i], rates, from, d + 1) /\ q[i][1] \notin Within(rates, from, d)
    BY <2>3 DEF Seeking, Levelled
  <2> HIDE DEF q, e
  <2>10. ASSUME NEW i \in 1 .. n + 1
         PROVE  /\ i <= a => AtLevel(after.queue[i], rates, from, d)
                /\ i > a => /\ AtLevel(after.queue[i], rates, from, d + 1)
                            /\ after.queue[i][1] \notin Within(rates, from, d)
    <3>1. CASE i = n + 1
      <4>1. ~(i <= a)
        BY <2>9, <3>1
      <4>. QED
        BY <2>4, <2>5, <2>6, <2>7, <3>1, <4>1
    <3>2. CASE i # n + 1
      <4>1. i \in 1 .. n
        BY <3>2
      <4>. QED
        BY <2>4, <2>9, <4>1
    <3>. QED
      BY <3>1, <3>2
  <2>11. Levelled(after, rates, from, d, a)
    <3>1. a <= Len(after.queue)
      BY <2>4, <2>9
    <3>2. Within(rates, from, d) \subseteq after.visited /\ after.visited \subseteq Within(rates, from, d + 1)
      BY <1>1, <2>1 DEF Seeking, Levelled
    <3>. QED
      BY <2>4, <2>10, <3>1, <3>2 DEF Levelled
  <2>12. Waiting(after) = Waiting(search) \cup {arc.to}
    <3>1. Waiting(search) = {q[i][1] : i \in 1 .. n}
      BY <2>3 DEF Waiting, q
    <3>2. Waiting(after) = {after.queue[i][1] : i \in 1 .. n + 1}
      BY <2>4 DEF Waiting
    <3>3. ASSUME NEW i \in 1 .. n + 1 PROVE after.queue[i][1] \in Waiting(search) \cup {arc.to}
      <4>1. i \in 1 .. n \/ i = n + 1
        OBVIOUS
      <4>. QED
        BY <2>4, <2>5, <3>1, <4>1
    <3>4. arc.to \in Waiting(after) /\ \A i \in 1 .. n : q[i][1] \in Waiting(after)
      <4>1. n + 1 \in 1 .. n + 1 /\ \A i \in 1 .. n : i \in 1 .. n + 1
        OBVIOUS
      <4>. QED
        BY <2>4, <2>5, <3>2, <4>1
    <3>. QED
      BY <3>1, <3>2, <3>3, <3>4
  <2>13. EachHasItsTurn(after, rates, now)
    BY <2>1, <2>12 DEF Seeking, EachHasItsTurn
  <2>14. TurnsCounted(after, t)
    <3>1. IsFiniteSet(search.visited) /\ Cardinality(search.visited) = t + n
      BY <2>3 DEF Seeking, TurnsCounted, q
    <3>2. IsFiniteSet(after.visited) /\ Cardinality(after.visited) = Cardinality(search.visited) + 1
      <4>1. PICK v : v = search.visited
        OBVIOUS
      <4>2. IsFiniteSet(v \cup {arc.to}) /\ Cardinality(v \cup {arc.to}) = Cardinality(v) + 1
        BY <1>7, <3>1, <4>1, FS_AddElement
      <4>. QED
        BY <2>1, <4>1, <4>2
    <3>3. t + n + 1 = t + (n + 1)
      OBVIOUS
    <3>. QED
      BY <2>4, <3>1, <3>2, <3>3 DEF TurnsCounted
  <2>. QED
    BY <2>1, <2>8, <2>11, <2>13, <2>14 DEF Seeking, Followed
<1>. QED
  BY <1>5, <1>6, <1>7

\* A search that has arrived stays where it is.
LEMMA FollowStays ==
  ASSUME NEW search, NEW rates, NEW from, NEW target, Arrived(search, rates, from, target),
         NEW arc, NEW cumulative
  PROVE  Follow(search, arc, cumulative, target) = search
BY DEF Follow, Arrived

\* When a level is through, all of the next one is known and waits.
LEMMA NextLevel ==
  ASSUME NEW rates, TypedRates(rates), NEW from, NEW target, NEW search,
         NEW d \in Nat, NEW t, Seeking(search, rates, from, target, d, 0, {}, t),
         NEW n \in Nat, n = Len(search.queue)
  PROVE  Seeking(search, rates, from, target, d + 1, n, {}, t)
<1>1. ASSUME NEW c \in Within(rates, from, d) PROVE Succ(rates, c) \subseteq search.visited
  <2>1. c \in search.visited /\ c \notin Waiting(search)
    BY DEF Seeking, Levelled, Waiting
  <2>. QED
    BY <2>1 DEF Seeking, EachHasItsTurn
<1>2. Within(rates, from, d + 1) \subseteq search.visited
  BY <1>1, WithinSteps DEF Seeking, Levelled
<1>3. search.visited \subseteq Within(rates, from, (d + 1) + 1)
  <2>1. d + 1 \in Nat
    OBVIOUS
  <2>2. Within(rates, from, d + 1) \subseteq Within(rates, from, (d + 1) + 1)
    BY <2>1, WithinSteps
  <2>. QED
    BY <2>2 DEF Seeking, Levelled
<1>4. \A i \in 1 .. n : i <= n /\ ~(i > n) /\ i > 0
  OBVIOUS
<1>5. \A i \in 1 .. n : AtLevel(search.queue[i], rates, from, d + 1)
  BY <1>4 DEF Seeking, Levelled
<1>6. Levelled(search, rates, from, d + 1, n)
  BY <1>2, <1>3, <1>4, <1>5 DEF Levelled
<1>. QED
  BY <1>6 DEF Seeking

LEMMA NonEmptySeq ==
  ASSUME NEW S, NEW s \in Seq(S), s # <<>>
  PROVE  \E n \in Nat : Len(s) = n + 1
<1>1. Len(s) \in Nat /\ Len(s) # 0
  OBVIOUS
<1>2. Len(s) - 1 \in Nat /\ Len(s) = Len(s) - 1 + 1
  BY <1>1
<1>. QED
  BY <1>2

LEMMA TailFacts ==
  ASSUME NEW S, NEW s \in Seq(S), s # <<>>, NEW n \in Nat, Len(s) = n + 1
  PROVE  /\ Len(Tail(s)) = n /\ \A i \in 1 .. n : Tail(s)[i] = s[i + 1]
         /\ Head(s) = s[1]
OBVIOUS

\* The head of the queue begins its turn.
LEMMA PoppedSeeks ==
  ASSUME NEW rates, NEW from, NEW target, NEW C, NEW search \in Search(C), search.queue # <<>>,
         NEW d \in Nat, NEW a \in Nat, NEW t \in Nat,
         Seeking(search, rates, from, target, d, a + 1, {}, t),
         NEW head, head = Head(search.queue)
  PROVE  /\ AtLevel(head, rates, from, d)
         /\ Seeking(Popped(search), rates, from, target, d, a, {head[1]}, t + 1)
<1> DEFINE q == search.queue
           p == Popped(search)
<1>1. PICK n \in Nat : Len(q) = n + 1
  <2>1. q \in Seq(C \X PositiveRatio) /\ q # <<>>
    BY DEF Search
  <2> HIDE DEF q
  <2>. QED
    BY <2>1, NonEmptySeq
<1>2. p.queue = Tail(q) /\ p.visited = search.visited /\ p.found = None
  BY DEF Popped, Search, Seeking
<1>3. /\ Len(Tail(q)) = n /\ \A i \in 1 .. n : Tail(q)[i] = q[i + 1]
      /\ head = q[1]
  <2>1. q \in Seq(C \X PositiveRatio) /\ q # <<>> /\ head = Head(q)
    BY DEF Search
  <2> HIDE DEF q
  <2>. QED
    BY <1>1, <2>1, TailFacts
<1>4. /\ a + 1 <= n + 1
      /\ \A i \in 1 .. n + 1 :
           /\ i <= a + 1 => AtLevel(q[i], rates, from, d)
           /\ i > a + 1 => AtLevel(q[i], rates, from, d + 1) /\ q[i][1] \notin Within(rates, from, d)
  BY <1>1 DEF Seeking, Levelled
<1>5. AtLevel(head, rates, from, d)
  <2>1. 1 \in 1 .. n + 1 /\ 1 <= a + 1
    OBVIOUS
  <2>. QED
    BY <1>3, <1>4, <2>1
<1> HIDE DEF q, p
<1>6. ASSUME NEW i \in 1 .. n
      PROVE  /\ i <= a => AtLevel(p.queue[i], rates, from, d)
             /\ i > a => AtLevel(p.queue[i], rates, from, d + 1)
                         /\ p.queue[i][1] \notin Within(rates, from, d)
  <2>1. i + 1 \in 1 .. n + 1 /\ (i <= a => i + 1 <= a + 1) /\ (i > a => i + 1 > a + 1)
    OBVIOUS
  <2>. QED
    BY <1>2, <1>3, <1>4, <2>1
<1>7. Levelled(p, rates, from, d, a)
  BY <1>2, <1>3, <1>4, <1>6 DEF Levelled, Seeking
<1>8. ASSUME NEW c \in Waiting(search) PROVE c \in Waiting(p) \/ c = head[1]
  <2>1. PICK i \in 1 .. n + 1 : c = q[i][1]
    BY <1>1 DEF Waiting, q
  <2>2. CASE i = 1
    BY <1>3, <2>1, <2>2
  <2>3. CASE i # 1
    <3>1. i - 1 \in 1 .. n /\ i - 1 + 1 = i
      BY <2>3
    <3>2. p.queue[i - 1] = q[i]
      BY <1>2, <1>3, <3>1
    <3>. QED
      BY <1>2, <1>3, <2>1, <3>1, <3>2 DEF Waiting
  <2>. QED
    BY <2>2, <2>3
<1>9. EachHasItsTurn(p, rates, {head[1]})
  BY <1>2, <1>8 DEF Seeking, EachHasItsTurn
<1>10. TurnsCounted(p, t + 1)
  <2>1. t + (n + 1) = (t + 1) + n
    OBVIOUS
  <2>. QED
    BY <1>1, <1>2, <1>3, <2>1 DEF Seeking, TurnsCounted, q
<1>11. target \notin p.visited
  BY <1>2 DEF Seeking
<1>. QED
  BY <1>2, <1>5, <1>7, <1>9, <1>10, <1>11 DEF p, Seeking

\* A turn arrives, or leaves one entry less of the level.
LEMMA TurnSeeks ==
  ASSUME NEW rates, TypedRates(rates), NEW from, NEW target, NEW C, C = Currencies(rates, from),
         NEW search \in Search(C), search.queue # <<>>,
         NEW d \in Nat, NEW a \in Nat, NEW t \in Nat,
         Seeking(search, rates, from, target, d, a + 1, {}, t)
  PROVE  LET after == Expand(search, rates, target) IN
         \/ Arrived(after, rates, from, target)
         \/ Seeking(after, rates, from, target, d, a, {}, t + 1)
<1>0. search.found = None
  BY DEF Seeking
<1>1. PICK head : head = Head(search.queue)
  OBVIOUS
<1>2. PICK arcs : arcs = Arcs(rates, head[1])
  OBVIOUS
<1>3. Unrolled(search, rates, target, C, head, arcs)
  BY <1>0, <1>1, <1>2, ExpandIsChain
<1>4. PICK n \in Nat : \E c \in [0 .. n -> Search(C)] :
           /\ n = Len(arcs) /\ Chain(c, n, arcs, head, search, target)
           /\ Expand(search, rates, target) = c[n]
  BY <1>3 DEF Unrolled
<1>5. PICK c \in [0 .. n -> Search(C)] :
           /\ n = Len(arcs) /\ Chain(c, n, arcs, head, search, target)
           /\ Expand(search, rates, target) = c[n]
  BY <1>4
<1>6. /\ AtLevel(head, rates, from, d)
      /\ Seeking(Popped(search), rates, from, target, d, a, {head[1]}, t + 1)
  BY <1>1, PoppedSeeks
<1>7. t + 1 \in Nat
  OBVIOUS
<1>8. /\ ToSet(arcs) = {arcs[k] : k \in 1 .. n}
      /\ \A k \in 1 .. n : arcs[k] \in Arc(C) /\ arcs[k] \in ToSet(arcs)
  <2>1. DOMAIN arcs = 1 .. n /\ \A k \in 1 .. n : arcs[k] \in Arc(C)
    BY <1>3, <1>5 DEF Unrolled
  <2>. QED
    BY <2>1 DEF ToSet
<1> DEFINE G == {k \in 0 .. n :
                   \/ Arrived(c[k], rates, from, target)
                   \/ /\ Seeking(c[k], rates, from, target, d, a, {head[1]}, t + 1)
                      /\ \A j \in 1 .. k : arcs[j].to \in c[k].visited}
<1>9. 0 \in G
  BY <1>5, <1>6 DEF Chain
<1>10. ASSUME NEW k \in 0 .. n - 1, k \in G PROVE k + 1 \in G
  <2>1. k + 1 \in 1 .. n /\ k + 1 \in 0 .. n /\ k \in 0 .. n /\ k + 1 - 1 = k
    OBVIOUS
  <2>2. c[k + 1] = Follow(c[k], arcs[k + 1], head[2], target) /\ c[k] \in Search(C)
    BY <1>5, <2>1 DEF Chain
  <2>3. CASE Arrived(c[k], rates, from, target)
    <3>1. c[k + 1] = c[k]
      BY <2>2, <2>3, FollowStays
    <3>. QED
      BY <2>1, <2>3, <3>1
  <2>4. CASE ~Arrived(c[k], rates, from, target)
    <3>1. /\ Seeking(c[k], rates, from, target, d, a, {head[1]}, t + 1)
          /\ \A j \in 1 .. k : arcs[j].to \in c[k].visited
      BY <1>10, <2>4
    <3>2. \/ Arrived(c[k + 1], rates, from, target)
          \/ /\ Seeking(c[k + 1], rates, from, target, d, a, {head[1]}, t + 1)
             /\ c[k].visited \subseteq c[k + 1].visited /\ arcs[k + 1].to \in c[k + 1].visited
      <4>1. arcs[k + 1] \in Arc(C) /\ arcs[k + 1] \in ToSet(Arcs(rates, head[1]))
        BY <1>2, <1>8, <2>1
      <4>2. head \in C \X PositiveRatio
        BY <1>3 DEF Unrolled
      <4>3. Followed(c[k], c[k + 1], arcs[k + 1], rates, from, target, d, a, {head[1]}, t + 1)
        BY <1>6, <1>7, <2>2, <3>1, <4>1, <4>2, FollowSeeks
      <4>. QED
        BY <4>3 DEF Followed
    <3>3. \A j \in 1 .. k + 1 : j \in 1 .. k \/ j = k + 1
      OBVIOUS
    <3>. QED
      BY <2>1, <3>1, <3>2, <3>3
  <2>. QED
    BY <2>3, <2>4
<1>11. n \in G
  <2> HIDE DEF G
  <2>1. \A k \in 0 .. n : k \in G
    BY <1>9, <1>10, UpTo
  <2>. QED
    BY <2>1
<1>12. CASE Arrived(c[n], rates, from, target)
  BY <1>5, <1>12
<1>13. CASE ~Arrived(c[n], rates, from, target)
  <2>1. /\ Seeking(c[n], rates, from, target, d, a, {head[1]}, t + 1)
        /\ \A j \in 1 .. n : arcs[j].to \in c[n].visited
    BY <1>11, <1>13
  <2>2. Succ(rates, head[1]) \subseteq c[n].visited
    <3>1. ASSUME NEW arc \in ToSet(arcs) PROVE arc.to \in c[n].visited
      BY <1>8, <2>1
    <3>. QED
      BY <1>2, <3>1 DEF Succ
  <2>3. EachHasItsTurn(c[n], rates, {})
    BY <2>1, <2>2 DEF Seeking, EachHasItsTurn
  <2>4. Seeking(c[n], rates, from, target, d, a, {}, t + 1)
    BY <2>1, <2>3 DEF Seeking
  <2>. QED
    BY <1>5, <2>4
<1>. QED
  BY <1>12, <1>13

-----------------------------------------------------------------------------
(* The whole search.                                                       *)

\* What the search is after its first t turns.
Underway(search, rates, from, target, t) ==
  \/ Arrived(search, rates, from, target)
  \/ \E d, a \in Nat : Seeking(search, rates, from, target, d, a, {}, t)
  \/ /\ search.queue = <<>>
     /\ \E d, a, u \in Nat : Seeking(search, rates, from, target, d, a, {}, u)

LEMMA StartSeeks ==
  ASSUME NEW rates, TypedRates(rates), NEW from, NEW target, from # target
  PROVE  Seeking(Start(from), rates, from, target, 0, 1, {}, 0)
<1> DEFINE s == Start(from)
           e == <<from, <<1, 1>>>>
<1>1. s.queue = <<e>> /\ s.visited = {from} /\ s.found = None
  BY DEF Start
<1>2. Len(s.queue) = 1 /\ s.queue[1] = e /\ e[1] = from /\ e[2] = <<1, 1>>
  BY <1>1
<1> HIDE DEF s, e
<1>3. AtLevel(e, rates, from, 0)
  BY <1>2, WalkSteps, WithinSteps DEF AtLevel
<1>4. Within(rates, from, 0) = {from} /\ {from} \subseteq Within(rates, from, 0 + 1)
  <2>1. 0 \in Nat
    OBVIOUS
  <2>. QED
    BY <2>1, WithinSteps
<1>5. \A i \in 1 .. 1 : i = 1 /\ ~(i > 1)
  OBVIOUS
<1>6. Levelled(s, rates, from, 0, 1)
  BY <1>1, <1>2, <1>3, <1>4, <1>5 DEF Levelled
<1>7. from \in Waiting(s)
  <2>1. 1 \in 1 .. 1
    OBVIOUS
  <2>. QED
    BY <1>2, <2>1 DEF Waiting
<1>8. EachHasItsTurn(s, rates, {})
  BY <1>1, <1>7 DEF EachHasItsTurn
<1>9. TurnsCounted(s, 0)
  <2>1. IsFiniteSet({from}) /\ Cardinality({from}) = 1
    BY FS_Singleton, Zenon
  <2>2. IsFiniteSet(s.visited) /\ Cardinality(s.visited) = 0 + Len(s.queue)
    BY <1>1, <1>2, <2>1
  <2>. QED
    BY <2>2 DEF TurnsCounted
<1>. QED
  BY <1>1, <1>6, <1>8, <1>9 DEF s, Seeking

LEMMA ExpandUnderway ==
  ASSUME NEW rates, TypedRates(rates), NEW from, NEW target, NEW C, C = Currencies(rates, from),
         NEW search \in Search(C), NEW t \in Nat, Underway(search, rates, from, target, t)
  PROVE  Underway(Expand(search, rates, target), rates, from, target, t + 1)
<1>1. CASE Arrived(search, rates, from, target)
  <2>1. Expand(search, rates, target) = search
    BY <1>1 DEF Expand, Arrived
  <2>. QED
    BY <1>1, <2>1 DEF Underway
<1>2. CASE ~Arrived(search, rates, from, target) /\ search.queue = <<>>
  <2>1. Expand(search, rates, target) = search
    BY <1>2 DEF Expand
  <2>2. \E d, a, u \in Nat : Seeking(search, rates, from, target, d, a, {}, u)
    BY <1>2 DEF Underway
  <2>. QED
    BY <1>2, <2>1, <2>2 DEF Underway
<1>3. CASE ~Arrived(search, rates, from, target) /\ search.queue # <<>>
  <2>1. PICK d \in Nat, a \in Nat : Seeking(search, rates, from, target, d, a, {}, t)
    BY <1>3 DEF Underway
  <2>2. PICK n \in Nat : Len(search.queue) = n + 1
    <3>1. search.queue \in Seq(C \X PositiveRatio)
      BY DEF Search
    <3>. QED
      BY <1>3, <3>1, NonEmptySeq
  <2>3. \E e, b \in Nat : Seeking(search, rates, from, target, e, b + 1, {}, t)
    <3>1. CASE a = 0
      <4>1. n + 1 \in Nat /\ d + 1 \in Nat
        OBVIOUS
      <4>2. Seeking(search, rates, from, target, d + 1, n + 1, {}, t)
        BY <2>1, <2>2, <3>1, <4>1, NextLevel
      <4>. QED
        BY <4>1, <4>2
    <3>2. CASE a # 0
      <4>1. a - 1 \in Nat /\ a - 1 + 1 = a
        BY <3>2
      <4>. QED
        BY <2>1, <4>1
    <3>. QED
      BY <3>1, <3>2
  <2>4. PICK e \in Nat, b \in Nat : Seeking(search, rates, from, target, e, b + 1, {}, t)
    BY <2>3
  <2>. QED
    BY <1>3, <2>4, TurnSeeks DEF Underway
<1>. QED
  BY <1>1, <1>2, <1>3

LEMMA ImageSmaller ==
  ASSUME NEW S, IsFiniteSet(S), NEW f, f = [x \in S |-> f[x]], NEW T, T = {f[x] : x \in S}
  PROVE  IsFiniteSet(T) /\ Cardinality(T) <= Cardinality(S)
<1>1. f \in Surjection(S, T)
  BY DEF Surjection
<1>. QED
  BY <1>1, FS_Surjection

\* The rates name two currencies each, and the search begins with one.
LEMMA CurrenciesFew ==
  ASSUME NEW rates, TypedRates(rates), NEW from
  PROVE  /\ IsFiniteSet(Currencies(rates, from))
         /\ Cardinality(Currencies(rates, from)) <= Turns(rates)
<1> DEFINE f == [i \in DOMAIN rates |-> rates[i].base_currency]
           g == [i \in DOMAIN rates |-> rates[i].quote_currency]
           A == {rates[i].base_currency : i \in DOMAIN rates}
           B == {rates[i].quote_currency : i \in DOMAIN rates}
<1>1. PICK n \in Nat : n = Len(rates) /\ DOMAIN rates = 1 .. n
  BY ArrayFacts DEF TypedRates
<1>2. IsFiniteSet(DOMAIN rates) /\ Cardinality(DOMAIN rates) = n
  <2>1. 1 \in Int /\ n \in Int
    OBVIOUS
  <2>2. IsFiniteSet(1 .. n) /\ Cardinality(1 .. n) = IF 1 > n THEN 0 ELSE n - 1 + 1
    BY <2>1, FS_Interval, Zenon
  <2>. QED
    BY <1>1, <2>2
<1>3. /\ f = [i \in DOMAIN rates |-> f[i]] /\ A = {f[i] : i \in DOMAIN rates}
      /\ g = [i \in DOMAIN rates |-> g[i]] /\ B = {g[i] : i \in DOMAIN rates}
  OBVIOUS
<1>4. Currencies(rates, from) = ({from} \cup A) \cup B
  BY DEF Currencies
<1> HIDE DEF f, g, A, B
<1>5. IsFiniteSet(A) /\ Cardinality(A) <= n /\ IsFiniteSet(B) /\ Cardinality(B) <= n
  BY <1>2, <1>3, ImageSmaller
<1>6. Cardinality(A) \in Nat /\ Cardinality(B) \in Nat
  BY <1>5, FS_CardinalityType
<1>7. IsFiniteSet({from} \cup A) /\ Cardinality({from} \cup A) <= 1 + n
  <2>1. \/ Cardinality(A \cup {from}) = Cardinality(A)
        \/ Cardinality(A \cup {from}) = Cardinality(A) + 1
    BY <1>5, FS_AddElement
  <2>2. Cardinality(A \cup {from}) <= 1 + n
    BY <1>5, <1>6, <2>1
  <2>3. IsFiniteSet(A \cup {from}) /\ A \cup {from} = {from} \cup A
    BY <1>5, FS_AddElement
  <2>4. PICK D : D = A \cup {from} /\ D = {from} \cup A
    BY <2>3
  <2>. QED
    BY <2>2, <2>3, <2>4
<1>8. /\ IsFiniteSet(({from} \cup A) \cup B)
      /\ Cardinality(({from} \cup A) \cup B) <= (1 + n) + n
  <2> DEFINE D == {from} \cup A
  <2> HIDE DEF D
  <2>1. IsFiniteSet(D) /\ Cardinality(D) <= 1 + n /\ Cardinality(D) \in Nat
    BY <1>7, FS_CardinalityType DEF D
  <2>2. /\ IsFiniteSet(D \cup B)
        /\ Cardinality(D \cup B) = Cardinality(D) + Cardinality(B) - Cardinality(D \cap B)
    BY <1>5, <2>1, FS_Union
  <2>3. Cardinality(D \cap B) \in Nat
    BY <2>1, FS_Intersection, FS_CardinalityType
  <2>. QED
    BY <1>5, <1>6, <2>1, <2>2, <2>3 DEF D
<1>9. Turns(rates) = (1 + n) + n
  BY <1>1 DEF Turns
<1>. QED
  BY <1>4, <1>8, <1>9

\* The turns are enough: the search arrives, or everything it can reach had its turn.
LEMMA SearchEnds ==
  ASSUME NEW rates, TypedRates(rates), NEW from, NEW target, from # target
  PROVE  \E search :
           /\ PathRate(from, target, rates) = search.found
           /\ \/ Arrived(search, rates, from, target)
              \/ /\ search.queue = <<>>
                 /\ \E d, a, t \in Nat : Seeking(search, rates, from, target, d, a, {}, t)
<1>1. PICK C : C = Currencies(rates, from)
  OBVIOUS
<1>2. PICK m \in Nat : m = Turns(rates)
  BY <1>1, PathIsChain
<1>3. PICK c \in [0 .. m -> Search(C)] :
        /\ c[0] = Start(from)
        /\ \A k \in 1 .. m : c[k] = Expand(c[k - 1], rates, target)
        /\ PathRate(from, target, rates) = c[m].found
  BY <1>1, <1>2, PathIsChain
<1> DEFINE G == {k \in 0 .. m : Underway(c[k], rates, from, target, k)}
<1>4. 0 \in G
  <2>1. 0 \in Nat /\ 1 \in Nat /\ 0 \in 0 .. m
    OBVIOUS
  <2>2. Underway(c[0], rates, from, target, 0)
    BY <1>3, <2>1, StartSeeks DEF Underway
  <2>. QED
    BY <2>1, <2>2
<1>5. ASSUME NEW k \in 0 .. m - 1, k \in G PROVE k + 1 \in G
  <2>1. k + 1 \in 1 .. m /\ k + 1 \in 0 .. m /\ k \in 0 .. m /\ k + 1 - 1 = k /\ k \in Nat
    OBVIOUS
  <2>2. c[k + 1] = Expand(c[k], rates, target) /\ c[k] \in Search(C)
    BY <1>3, <2>1
  <2>3. Underway(c[k], rates, from, target, k)
    BY <1>5
  <2>4. Underway(c[k + 1], rates, from, target, k + 1)
    <3> HIDE DEF G
    <3>. QED
      BY <1>1, <2>1, <2>2, <2>3, ExpandUnderway
  <2>. QED
    BY <2>1, <2>4
<1>6. m \in G
  <2> HIDE DEF G
  <2>1. \A k \in 0 .. m : k \in G
    BY <1>4, <1>5, UpTo
  <2>. QED
    BY <2>1
<1>7. Underway(c[m], rates, from, target, m) /\ c[m] \in Search(C)
  BY <1>3, <1>6
<1>8. ASSUME NEW d \in Nat, NEW a \in Nat, Seeking(c[m], rates, from, target, d, a, {}, m)
      PROVE  c[m].queue = <<>>
  <2>1. c[m].queue \in Seq(C \X PositiveRatio) /\ c[m].visited \in SUBSET C
    BY <1>7 DEF Search
  <2>2. IsFiniteSet(C) /\ Cardinality(C) <= m
    BY <1>1, <1>2, CurrenciesFew
  <2>3. Cardinality(c[m].visited) <= Cardinality(C)
    BY <2>1, <2>2, FS_Subset
  <2>4. Cardinality(c[m].visited) = m + Len(c[m].queue)
    BY <1>8 DEF Seeking, TurnsCounted
  <2>5. Cardinality(C) \in Nat
    BY <2>2, FS_CardinalityType
  <2>6. SUFFICES ASSUME c[m].queue # <<>> PROVE FALSE
    OBVIOUS
  <2>7. PICK n \in Nat : Len(c[m].queue) = n + 1
    BY <2>1, <2>6, NonEmptySeq
  <2>. QED
    BY <2>2, <2>3, <2>4, <2>5, <2>7
<1>. QED
  BY <1>3, <1>7, <1>8 DEF Underway

\* A search whose queue is empty has met every currency that can be reached.
LEMMA NothingReached ==
  ASSUME NEW rates, TypedRates(rates), NEW from, NEW target, NEW search, search.queue = <<>>,
         NEW d \in Nat, NEW a, NEW t, Seeking(search, rates, from, target, d, a, {}, t),
         NEW k \in Nat
  PROVE  target \notin Within(rates, from, k)
<1> DEFINE G == {n \in 0 .. k : Within(rates, from, n) \subseteq search.visited}
<1>1. Waiting(search) = {}
  BY DEF Waiting
<1>2. \A c \in search.visited : Succ(rates, c) \subseteq search.visited
  BY <1>1 DEF Seeking, EachHasItsTurn
<1>3. 0 \in G
  <2>1. Within(rates, from, 0) \subseteq Within(rates, from, d)
    BY WithinGrows
  <2>. QED
    BY <2>1 DEF Seeking, Levelled
<1>4. ASSUME NEW n \in 0 .. k - 1, n \in G PROVE n + 1 \in G
  <2>1. n \in Nat /\ n + 1 \in 0 .. k
    OBVIOUS
  <2>2. Within(rates, from, n) \subseteq search.visited
    BY <1>4
  <2>3. Within(rates, from, n + 1) \subseteq search.visited
    BY <1>2, <2>1, <2>2, WithinSteps
  <2>. QED
    BY <2>1, <2>3
<1>5. \A n \in 0 .. k : n \in G
  <2> HIDE DEF G
  <2>. QED
    BY <1>3, <1>4, UpTo
<1>. QED
  BY <1>5 DEF Seeking

\* The rates between currencies that are at most k arcs away.
Inside(rates, from, k) ==
  {i \in DOMAIN rates : /\ rates[i].base_currency \in Within(rates, from, k)
                        /\ rates[i].quote_currency \in Within(rates, from, k)}

LEMMA ArcIsRate ==
  ASSUME NEW rates, TypedRates(rates), NEW c, NEW e \in Succ(rates, c)
  PROVE  \E i \in DOMAIN rates :
           \/ rates[i].base_currency = c /\ rates[i].quote_currency = e
           \/ rates[i].quote_currency = c /\ rates[i].base_currency = e
<1>1. PICK arc \in ToSet(Arcs(rates, c)) : arc.to = e
  BY DEF Succ
<1>2. ToSet(Arcs(rates, c)) = UNION {ToSet(ArcsOf(rates[i], c)) : i \in DOMAIN rates}
  BY ArcsFacts
<1>3. PICK i \in DOMAIN rates : arc \in ToSet(ArcsOf(rates[i], c))
  BY <1>1, <1>2
<1> DEFINE fx == rates[i]
           out == [to |-> fx.quote_currency, rate |-> fx.rate]
           back == [to |-> fx.base_currency, rate |-> Reciprocal(fx.rate)]
<1>4. out.to = fx.quote_currency /\ back.to = fx.base_currency
  OBVIOUS
<1>5. ArcsOf(fx, c) = (IF fx.base_currency = c THEN <<out>> ELSE <<>>)
                        \o (IF fx.quote_currency = c THEN <<back>> ELSE <<>>)
  BY DEF ArcsOf
<1> HIDE DEF out, back
<1>6. \/ fx.base_currency = c /\ arc = out
      \/ fx.quote_currency = c /\ arc = back
  <2> DEFINE u == IF fx.base_currency = c THEN <<out>> ELSE <<>>
             v == IF fx.quote_currency = c THEN <<back>> ELSE <<>>
  <2>1. u \in Seq({out, back}) /\ v \in Seq({out, back})
    <3> DEFINE S == {out, back}
    <3>1. out \in S /\ back \in S
      OBVIOUS
    <3> HIDE DEF S
    <3>2. <<out>> \in Seq(S) /\ <<back>> \in Seq(S) /\ <<>> \in Seq(S)
      BY <3>1
    <3>3. u \in Seq(S) /\ v \in Seq(S)
      BY <3>2
    <3>. QED
      BY <3>3 DEF S
  <2>2. ToSet(ArcsOf(fx, c)) = ToSet(u) \cup ToSet(v)
    <3> HIDE DEF u, v
    <3>1. ToSet(u \o v) = ToSet(u) \cup ToSet(v)
      BY <2>1, ConcatFacts
    <3>. QED
      BY <1>5, <3>1 DEF u, v
  <2>3. ToSet(u) \subseteq {out} /\ (fx.base_currency # c => ToSet(u) = {})
    BY DEF ToSet
  <2>4. ToSet(v) \subseteq {back} /\ (fx.quote_currency # c => ToSet(v) = {})
    BY DEF ToSet
  <2> HIDE DEF u, v
  <2>. QED
    BY <1>3, <2>2, <2>3, <2>4
<1>. QED
  BY <1>1, <1>4, <1>6

\* While there is something new at a distance there is a rate that leads to it.
LEMMA InsideGrows ==
  ASSUME NEW rates, TypedRates(rates), NEW from, NEW k \in Nat,
         Within(rates, from, k + 1) # Within(rates, from, k)
  PROVE  /\ Inside(rates, from, k) \subseteq Inside(rates, from, k + 1)
         /\ Inside(rates, from, k) # Inside(rates, from, k + 1)
<1> DEFINE W == Within(rates, from, k)
           next == Within(rates, from, k + 1)
<1>0. next = W \cup UNION {Succ(rates, c) : c \in W} /\ next # W
  BY WithinSteps
<1>1. W \subseteq next
  BY <1>0
<1>2. PICK c \in W : \E e \in Succ(rates, c) : e \notin W
  <2> HIDE DEF W, next
  <2>. QED
    BY <1>0
<1>3. PICK e \in Succ(rates, c) : e \notin Within(rates, from, k)
  BY <1>2
<1>4. c \in Within(rates, from, k + 1) /\ e \in Within(rates, from, k + 1)
  BY <1>0
<1>5. PICK i \in DOMAIN rates :
           \/ rates[i].base_currency = c /\ rates[i].quote_currency = e
           \/ rates[i].quote_currency = c /\ rates[i].base_currency = e
  BY ArcIsRate
<1>6. i \in Inside(rates, from, k + 1) /\ i \notin Inside(rates, from, k)
  BY <1>3, <1>4, <1>5 DEF Inside
<1>7. Inside(rates, from, k) \subseteq Inside(rates, from, k + 1)
  BY <1>1 DEF Inside
<1>. QED
  BY <1>6, <1>7

LEMMA NothingNewStays ==
  ASSUME NEW rates, TypedRates(rates), NEW from, NEW k \in Nat, NEW m \in Nat, k <= m,
         Within(rates, from, k + 1) = Within(rates, from, k)
  PROVE  Within(rates, from, m) = Within(rates, from, k)
<1> DEFINE G == {n \in 0 .. m - k : Within(rates, from, k + n) = Within(rates, from, k)}
<1>1. 0 \in G
  <2>1. k + 0 = k /\ 0 \in 0 .. m - k
    OBVIOUS
  <2>. QED
    BY <2>1
<1>2. ASSUME NEW n \in 0 .. (m - k) - 1, n \in G PROVE n + 1 \in G
  <2>1. k + n \in Nat /\ (k + n) + 1 = k + (n + 1) /\ n + 1 \in 0 .. m - k
    OBVIOUS
  <2>2. Within(rates, from, k + n) = Within(rates, from, k)
    BY <1>2
  <2>3. /\ Within(rates, from, (k + n) + 1) = Within(rates, from, k + n)
                \cup UNION {Succ(rates, c) : c \in Within(rates, from, k + n)}
        /\ Within(rates, from, k + 1) = Within(rates, from, k)
                \cup UNION {Succ(rates, c) : c \in Within(rates, from, k)}
    <3>1. \A j \in Nat : Within(rates, from, j + 1) = Within(rates, from, j)
                \cup UNION {Succ(rates, c) : c \in Within(rates, from, j)}
      BY WithinSteps
    <3>. QED
      BY <2>1, <3>1
  <2>4. Within(rates, from, k + (n + 1)) = Within(rates, from, k)
    BY <2>1, <2>2, <2>3
  <2>. QED
    BY <2>1, <2>4
<1>3. m - k \in Nat /\ m - k \in 0 .. m - k /\ k + (m - k) = m
  OBVIOUS
<1>4. \A n \in 0 .. m - k : n \in G
  <2> HIDE DEF G
  <2>. QED
    BY <1>1, <1>2, <1>3, UpTo
<1>5. m - k \in G
  BY <1>3, <1>4
<1>. QED
  BY <1>3, <1>5

\* What is new at a distance is no more arcs away than there are rates.
LEMMA NoFurtherThanRates ==
  ASSUME NEW rates, TypedRates(rates), NEW from, NEW target, NEW d \in Nat,
         target \in Within(rates, from, d + 1), target \notin Within(rates, from, d)
  PROVE  d + 1 <= Len(rates)
<1>1. PICK n \in Nat : n = Len(rates) /\ DOMAIN rates = 1 .. n
  BY ArrayFacts DEF TypedRates
<1>2. IsFiniteSet(DOMAIN rates) /\ Cardinality(DOMAIN rates) = n
  <2>1. 1 \in Int /\ n \in Int
    OBVIOUS
  <2>2. IsFiniteSet(1 .. n) /\ Cardinality(1 .. n) = IF 1 > n THEN 0 ELSE n - 1 + 1
    BY <2>1, FS_Interval, Zenon
  <2>. QED
    BY <1>1, <2>2
<1>3. \A k \in Nat : /\ Inside(rates, from, k) \in SUBSET DOMAIN rates
                     /\ IsFiniteSet(Inside(rates, from, k))
                     /\ Cardinality(Inside(rates, from, k)) \in Nat
                     /\ Cardinality(Inside(rates, from, k)) <= n
  <2>1. \A k \in Nat : Inside(rates, from, k) \in SUBSET DOMAIN rates
    BY DEF Inside
  <2>. QED
    BY <1>2, <2>1, FS_Subset, FS_CardinalityType
<1> DEFINE G == {k \in 0 .. d + 1 : k <= Cardinality(Inside(rates, from, k))}
<1>4. 0 \in G
  <2>1. 0 \in Nat /\ 0 \in 0 .. d + 1
    OBVIOUS
  <2>2. Cardinality(Inside(rates, from, 0)) \in Nat
    BY <1>3, <2>1
  <2>. QED
    BY <2>1, <2>2
<1>5. ASSUME NEW k \in 0 .. (d + 1) - 1, k \in G PROVE k + 1 \in G
  <2>1. k \in Nat /\ k + 1 \in Nat /\ k + 1 \in 0 .. d + 1 /\ k <= d /\ k <= d + 1 /\ d + 1 \in Nat
    OBVIOUS
  <2>2. Within(rates, from, k + 1) # Within(rates, from, k)
    <3>1. SUFFICES ASSUME Within(rates, from, k + 1) = Within(rates, from, k) PROVE FALSE
      OBVIOUS
    <3>2. Within(rates, from, d) = Within(rates, from, k)
      BY <2>1, <3>1, NothingNewStays
    <3>3. Within(rates, from, d + 1) = Within(rates, from, k)
      BY <2>1, <3>1, NothingNewStays
    <3>. QED
      BY <3>2, <3>3
  <2> DEFINE S == Inside(rates, from, k)
             T == Inside(rates, from, k + 1)
  <2>3. S \in SUBSET T /\ S # T
    BY <2>1, <2>2, InsideGrows
  <2>4. IsFiniteSet(T) /\ Cardinality(S) \in Nat /\ Cardinality(T) \in Nat
    BY <1>3, <2>1
  <2>5. k <= Cardinality(S)
    BY <1>5
  <2> HIDE DEF S, T
  <2>6. Cardinality(S) <= Cardinality(T) /\ Cardinality(S) # Cardinality(T)
    BY <2>3, <2>4, FS_Subset
  <2>7. k + 1 <= Cardinality(T)
    BY <2>1, <2>4, <2>5, <2>6
  <2>. QED
    BY <2>1, <2>7 DEF T
<1>6. d + 1 \in G
  <2>1. d + 1 \in Nat /\ d + 1 \in 0 .. d + 1
    OBVIOUS
  <2>2. \A k \in 0 .. d + 1 : k \in G
    <3> HIDE DEF G
    <3>. QED
      BY <1>4, <1>5, <2>1, UpTo
  <2>. QED
    BY <2>1, <2>2
<1>7. d + 1 \in Nat
  OBVIOUS
<1>8. /\ d + 1 <= Cardinality(Inside(rates, from, d + 1))
      /\ Cardinality(Inside(rates, from, d + 1)) \in Nat
      /\ Cardinality(Inside(rates, from, d + 1)) <= n
  BY <1>3, <1>6, <1>7
<1>. QED
  BY <1>1, <1>8

\* The search finds the rate of a walk of the fewest rates, whatever the rates are, and
\* nothing only where no walk leads: the breadth-first search of the code is complete.
THEOREM SearchIsShortest ==
  ASSUME NEW rates, TypedRates(rates), NEW from, NEW target, from # target
  PROVE  ShortestWalk(rates, from, target)
<1> DEFINE lengths == {k \in 0 .. Len(rates) : target \in Within(rates, from, k)}
           found == PathRate(from, target, rates)
<1>1. PICK n \in Nat : n = Len(rates)
  BY ArrayFacts DEF TypedRates
<1>2. PICK search :
        /\ found = search.found
        /\ \/ Arrived(search, rates, from, target)
           \/ /\ search.queue = <<>>
              /\ \E d, a, t \in Nat : Seeking(search, rates, from, target, d, a, {}, t)
  BY SearchEnds
<1>3. CASE Arrived(search, rates, from, target)
  <2>1. PICK d \in Nat : /\ target \in Within(rates, from, d + 1)
                         /\ target \notin Within(rates, from, d)
                         /\ found \in WalkRates(rates, from, d + 1, target)
    BY <1>2, <1>3 DEF Arrived
  <2>2. d + 1 <= n
    BY <1>1, <2>1, NoFurtherThanRates
  <2>3. d + 1 \in lengths
    BY <1>1, <2>1, <2>2
  <2>4. ASSUME NEW k \in lengths PROVE d + 1 <= k
    <3>1. k \in Nat /\ target \in Within(rates, from, k)
      BY <1>1
    <3>2. SUFFICES ASSUME k <= d PROVE FALSE
      BY <3>1
    <3>. QED
      BY <2>1, <3>1, <3>2, WithinGrows
  <2>5. \A x \in lengths : (\A y \in lengths : x <= y) => x = d + 1
    <3>1. lengths \subseteq Nat
      BY <1>1
    <3> HIDE DEF lengths
    <3>. QED
      BY <2>3, <2>4, <3>1
  <2>6. Min(lengths) = d + 1
    <3> HIDE DEF lengths
    <3>. QED
      BY <2>3, <2>4, <2>5 DEF Min
  <2>7. lengths # {}
    BY <2>3
  <2> HIDE DEF found
  <2>8. found \in WalkRates(rates, from, Min(lengths), target)
    BY <2>1, <2>6
  <2>. QED
    BY <2>7, <2>8 DEF found, ShortestWalk
<1>4. CASE ~Arrived(search, rates, from, target)
  <2>1. PICK d \in Nat, a \in Nat, t \in Nat :
          search.queue = <<>> /\ Seeking(search, rates, from, target, d, a, {}, t)
    BY <1>2, <1>4
  <2>2. \A k \in Nat : target \notin Within(rates, from, k)
    BY <2>1, NothingReached
  <2>3. lengths = {}
    BY <1>1, <2>2
  <2>4. found = None
    BY <1>2, <2>1 DEF Seeking
  <2>. QED
    BY <2>3, <2>4 DEF ShortestWalk
<1>. QED
  BY <1>3, <1>4

\* ConversionTakesShortestPath: no conversion of an offer's price takes a detour.
THEOREM ConversionIsShortest == Spec => []ConversionTakesShortestPath
<1>1. ASSUME EvaluationInv PROVE ConversionTakesShortestPath
  <2>1. SUFFICES ASSUME stage = "checked", NEW s \in ToSet(case.scenarios),
                        NEW o \in ToSet(case.observations), o.unit_price.currency # Target(s)
                 PROVE  ShortestWalk(s.fx_rates, o.unit_price.currency, Target(s))
    BY DEF ConversionTakesShortestPath
  <2>2. TypedCase(case)
    BY <1>1, <2>1 DEF EvaluationInv, CaseIsTyped, Parsed, Checked, Validated, Compared, Placed
  <2>3. TypedScenario(s)
    BY <2>2 DEF TypedCase, ToSet
  <2>4. TypedRates(s.fx_rates)
    BY <2>3 DEF TypedScenario, TypedRates
  <2>. QED
    BY <2>1, <2>4, SearchIsShortest
<1>2. EvaluationInv => ConversionTakesShortestPath
  BY <1>1
<1>. QED
  BY <1>2, EvaluationHolds, PTL
-----------------------------------------------------------------------------
(* What a parsed case keeps of the conditions its records were accepted on. *)

ObservationFields ==
  {"observation_id", "product_name", "product_variant", "supplier_name", "unit_price",
   "quantity", "unit", "minimum_order_quantity", "incoterm", "incoterm_named_place",
   "incoterm_version", "payment_terms", "payment_method", "quote_valid_until",
   "lead_time_days", "product_attributes", "market_layer", "evidence"}

ClaimFields ==
  {"claim_id", "observation_id", "claimed_legal_name", "jurisdiction", "registration_number",
   "evidence"}

RateFields ==
  {"base_currency", "quote_currency", "rate", "rate_type", "effective_at", "evidence"}

\* A record that its constructor has made.
RecordedOffer(o) ==
  /\ DOMAIN o = ObservationFields /\ o = [f \in ObservationFields |-> o[f]]
  /\ ObservationAccepted(o) /\ o.evidence.retrieved_at \in Int

Identified(claim) ==
  \A text \in {claim.claimed_legal_name, claim.jurisdiction, claim.registration_number} :
    Required(text)

RecordedClaim(claim) ==
  DOMAIN claim = ClaimFields /\ claim.evidence.retrieved_at \in Int /\ Identified(claim)

RecordedRate(fx) ==
  DOMAIN fx = RateFields /\ fx.evidence.retrieved_at \in Int

UniqueClaims(claims) ==
  \A i, j \in DOMAIN claims : i # j => claims[i].claim_id # claims[j].claim_id

AboutOffers(claims, observations) ==
  \A i \in DOMAIN claims : claims[i].observation_id \in ObservationIds(observations)

RecordedCase(c) ==
  /\ \A i \in DOMAIN c.observations : RecordedOffer(c.observations[i])
  /\ \A i \in DOMAIN c.supplier_identity_claims : RecordedClaim(c.supplier_identity_claims[i])
  /\ UniqueClaims(c.supplier_identity_claims)
  /\ AboutOffers(c.supplier_identity_claims, c.observations)
  /\ \A i \in DOMAIN c.scenarios :
       \A j \in DOMAIN c.scenarios[i].fx_rates : RecordedRate(c.scenarios[i].fx_rates[j])

LEMMA EvidenceDated ==
  ASSUME NEW e, EvidenceShape(e), EvidenceAccepted(e)
  PROVE  e.retrieved_at \in Int
  BY DEF EvidenceShape, EvidenceAccepted

LEMMA OfferRecorded ==
  ASSUME NEW o, ObservationShape(o), ObservationReadable(o),
         ObservationAccepted(ParsedObservation(o))
  PROVE  RecordedOffer(ParsedObservation(o))
<1> DEFINE q == [o EXCEPT !.product_attributes = Default(o.product_attributes, <<>>),
                          !.market_layer = Default(o.market_layer, "UNKNOWN"),
                          !.evidence = [o.evidence EXCEPT !.confidence = Default(o.evidence.confidence, "UNKNOWN")]]
           r == ParsedObservation(o)
<1>1. r = Observation(q)
  BY DEF ParsedObservation
<1>2. DOMAIN q = DOMAIN o /\ DOMAIN o = ObservationFields
  BY DEF ObservationShape, ObservationFields
<1>3. q.evidence = [o.evidence EXCEPT !.confidence = Default(o.evidence.confidence, "UNKNOWN")]
  BY <1>2 DEF ObservationFields
<1>4. q.evidence.retrieved_at = o.evidence.retrieved_at
      /\ o.evidence.retrieved_at \in Int \cup {Naive}
  BY <1>3 DEF ObservationShape, EvidenceShape, ObservationReadable, Present
<1> HIDE DEF q, r
<1>5. DOMAIN r = ObservationFields /\ r.evidence = q.evidence
  BY <1>1, <1>2 DEF Observation, ObservationFields
<1>8. r = [f \in ObservationFields |-> r[f]]
  <2>1. r = [f \in DOMAIN q |-> r[f]]
    BY <1>1 DEF Observation
  <2>. QED
    BY <1>2, <2>1
<1>6. ObservationAccepted(r)
  BY DEF r
<1>7. r.evidence.retrieved_at \in Int
  BY <1>4, <1>5, <1>6 DEF ObservationAccepted, EvidenceAccepted
<1>. QED
  BY <1>5, <1>6, <1>7, <1>8 DEF RecordedOffer, r

LEMMA RatesRecorded ==
  ASSUME NEW rates, RatesShape(rates), ObjectList(rates, MAX_FX_RATES),
         NEW parsed, parsed = [i \in DOMAIN rates |-> FXRate(rates[i])],
         \A i \in DOMAIN parsed : RateAccepted(parsed[i])
  PROVE  \A i \in DOMAIN parsed : RecordedRate(parsed[i])
<1>1. \A i \in DOMAIN rates : RateShape(rates[i])
  BY DEF RatesShape, Given, ObjectList
<1>2. ASSUME NEW i \in DOMAIN parsed PROVE RecordedRate(parsed[i])
  <2>1. parsed[i] = FXRate(rates[i]) /\ RateShape(rates[i]) /\ RateAccepted(parsed[i])
    BY <1>1
  <2>2. parsed[i].evidence = rates[i].evidence /\ DOMAIN parsed[i] = RateFields
    BY <2>1 DEF FXRate, RateShape, RateFields
  <2>3. parsed[i].evidence.retrieved_at \in Int
    BY <2>1, <2>2, EvidenceDated DEF RateShape, RateAccepted
  <2>. QED
    BY <2>2, <2>3 DEF RecordedRate
<1>. QED
  BY <1>2

\* The rates of a parsed scenario, its own or those of the bundle.
LEMMA ScenarioRatesRecorded ==
  ASSUME NEW raw, BundleShape(raw), BundleReadable(raw),
         NEW s, ScenarioShape(s), ScenarioReadable(s),
         ScenarioAccepted(ParsedScenario(raw, s))
  PROVE  \A j \in DOMAIN ParsedScenario(raw, s).fx_rates :
           RecordedRate(ParsedScenario(raw, s).fx_rates[j])
<1> DEFINE rates == Default(s.fx_rates, Default(raw.fx_rates, <<>>))
           r == ParsedScenario(raw, s)
<1>1. r.fx_rates = [i \in DOMAIN rates |-> FXRate(rates[i])]
  <2> HIDE DEF rates
  <2>. QED
    BY DEF ParsedScenario, ScenarioShape, rates
<1>2. RatesShape(<<>>) /\ ObjectList(Default(raw.fx_rates, <<>>), MAX_FX_RATES)
  BY EmptyArray DEF RatesShape, BundleReadable
<1>3. RatesShape(rates) /\ ObjectList(rates, MAX_FX_RATES)
  <2>1. CASE s.fx_rates = Absent
    <3>1. rates = Default(raw.fx_rates, <<>>)
      BY <2>1 DEF Default
    <3>2. RatesShape(Default(raw.fx_rates, <<>>))
      BY <1>2 DEF Default, BundleShape
    <3>. QED
      BY <1>2, <3>1, <3>2
  <2>2. CASE s.fx_rates # Absent
    <3>1. rates = s.fx_rates
      BY <2>2 DEF Default
    <3>. QED
      BY <2>2, <3>1 DEF ScenarioShape, ScenarioReadable
  <2>. QED
    BY <2>1, <2>2
<1>4. \A i \in DOMAIN r.fx_rates : RateAccepted(r.fx_rates[i])
  BY DEF ScenarioAccepted
<1>5. \A j \in DOMAIN r.fx_rates : RecordedRate(r.fx_rates[j])
  <2> HIDE DEF r, rates
  <2>. QED
    BY <1>1, <1>3, <1>4, RatesRecorded
<1>. QED
  BY <1>5

LEMMA ParsedIsRecorded ==
  ASSUME NEW raw, BundleShape(raw), BundleReadable(raw), RecordsAccepted(ParsedCase(raw))
  PROVE  RecordedCase(ParsedCase(raw))
<1> DEFINE c == ParsedCase(raw)
<1>1. /\ c.observations = [i \in DOMAIN raw.observations |-> ParsedObservation(raw.observations[i])]
      /\ c.supplier_identity_claims = Default(raw.supplier_identity_claims, <<>>)
      /\ c.scenarios = [i \in DOMAIN raw.scenarios |-> ParsedScenario(raw, raw.scenarios[i])]
  BY DEF ParsedCase
<1>2. RecordsAccepted(c)
  OBVIOUS
<1> HIDE DEF c
<1>3. /\ \A i \in DOMAIN raw.observations : ObservationShape(raw.observations[i])
      /\ \A i \in DOMAIN raw.scenarios : ScenarioShape(raw.scenarios[i])
  BY DEF BundleShape, BundleReadable, ObjectList, Given
<1>4. ASSUME NEW i \in DOMAIN c.observations PROVE RecordedOffer(c.observations[i])
  <2>1. i \in DOMAIN raw.observations /\ c.observations[i] = ParsedObservation(raw.observations[i])
    BY <1>1
  <2>2. ObservationReadable(raw.observations[i]) /\ ObservationAccepted(c.observations[i])
    BY <1>2, <2>1 DEF BundleReadable, RecordsAccepted
  <2>. QED
    BY <1>3, <2>1, <2>2, OfferRecorded
<1>5. ASSUME NEW i \in DOMAIN c.supplier_identity_claims
      PROVE  RecordedClaim(c.supplier_identity_claims[i])
  <2> DEFINE claims == raw.supplier_identity_claims
  <2>1. claims # Absent /\ c.supplier_identity_claims = claims
    BY <1>1, EmptyArray DEF Default
  <2>2. Given(claims)
    BY <2>1 DEF Given, BundleReadable, ObjectList, Default
  <2>3. ClaimShape(claims[i])
    BY <2>1, <2>2 DEF BundleShape
  <2>4. ClaimAccepted(claims[i])
    BY <1>2, <2>1 DEF RecordsAccepted
  <2> HIDE DEF claims
  <2>5. claims[i].evidence.retrieved_at \in Int
    BY <2>3, <2>4, EvidenceDated DEF ClaimShape, ClaimAccepted
  <2>6. Identified(claims[i])
    BY <2>4 DEF ClaimAccepted, Identified
  <2>. QED
    BY <2>1, <2>3, <2>5, <2>6 DEF ClaimShape, RecordedClaim, ClaimFields
<1>6. UniqueClaims(c.supplier_identity_claims)
      /\ AboutOffers(c.supplier_identity_claims, c.observations)
  BY <1>2 DEF RecordsAccepted, CaseAccepted, Distinct, UniqueClaims, AboutOffers
<1>7. ASSUME NEW i \in DOMAIN c.scenarios
      PROVE  \A j \in DOMAIN c.scenarios[i].fx_rates : RecordedRate(c.scenarios[i].fx_rates[j])
  <2>1. i \in DOMAIN raw.scenarios /\ c.scenarios[i] = ParsedScenario(raw, raw.scenarios[i])
    BY <1>1
  <2>2. ScenarioReadable(raw.scenarios[i]) /\ ScenarioAccepted(c.scenarios[i])
    BY <1>2, <2>1 DEF BundleReadable, RecordsAccepted
  <2>. QED
    BY <1>3, <2>1, <2>2, ScenarioRatesRecorded
<1>8. RecordedCase(c)
  BY <1>4, <1>5, <1>6, <1>7 DEF RecordedCase
<1>. QED
  BY <1>8 DEF c

\* The claims about the retained observations are some of the claims, with ids of
\* their own.
SiftedClaims(kept, claims, observations, k) ==
  /\ UniqueClaims(kept) /\ AboutOffers(kept, observations)
  /\ \A i \in DOMAIN kept : \E m \in 1 .. k : kept[i] = claims[m]

LEMMA RetainClaimSifts ==
  ASSUME NEW claims, Array(claims), UniqueClaims(claims), NEW observations,
         NEW k \in 1 .. Len(claims), NEW kept \in Seq(ToSet(claims)),
         SiftedClaims(kept, claims, observations, k - 1)
  PROVE  SiftedClaims(RetainClaim(observations, kept, claims[k]), claims, observations, k)
<1>1. /\ DOMAIN claims = 1 .. Len(claims) /\ Len(claims) \in Nat
      /\ claims[k] \in ToSet(claims) /\ k \in DOMAIN claims
  BY ArrayFacts DEF ToSet
<1>2. SiftedClaims(kept, claims, observations, k)
  BY DEF SiftedClaims
<1>3. ASSUME claims[k].observation_id \in ObservationIds(observations)
      PROVE  SiftedClaims(Append(kept, claims[k]), claims, observations, k)
  <2> DEFINE longer == Append(kept, claims[k])
             n == Len(kept) + 1
  <2>1. /\ DOMAIN longer = DOMAIN kept \cup {n} /\ n \notin DOMAIN kept
        /\ longer[n] = claims[k] /\ \A i \in DOMAIN kept : longer[i] = kept[i]
    BY <1>1, AppendFacts
  <2> HIDE DEF longer, n
  <2>2. \A i \in DOMAIN kept : kept[i].claim_id # claims[k].claim_id
    <3> TAKE i \in DOMAIN kept
    <3>1. PICK m \in 1 .. k - 1 : kept[i] = claims[m]
      BY DEF SiftedClaims
    <3>2. m \in DOMAIN claims /\ m # k
      BY <1>1
    <3>. QED
      BY <1>1, <3>1, <3>2 DEF UniqueClaims
  <2>3. UniqueClaims(longer)
    BY <2>1, <2>2 DEF UniqueClaims, SiftedClaims
  <2>4. \A i \in DOMAIN longer : \E m \in 1 .. k : longer[i] = claims[m]
    BY <1>2, <2>1 DEF SiftedClaims
  <2>5. AboutOffers(longer, observations)
    BY <1>3, <2>1 DEF AboutOffers, SiftedClaims
  <2>6. SiftedClaims(longer, claims, observations, k)
    BY <2>3, <2>4, <2>5 DEF SiftedClaims
  <2>. QED
    BY <2>6 DEF longer
<1>. QED
  BY <1>2, <1>3 DEF RetainClaim

LEMMA RetainedClaimsSifted ==
  ASSUME NEW claims, Array(claims), UniqueClaims(claims), NEW observations
  PROVE  /\ RetainedClaims(claims, observations) \in Seq(ToSet(claims))
         /\ UniqueClaims(RetainedClaims(claims, observations))
         /\ AboutOffers(RetainedClaims(claims, observations), observations)
<1> DEFINE B == ToSet(claims)
<1>1. claims \in Seq(B) /\ <<>> \in Seq(B) /\ Len(claims) \in Nat
  BY ArrayFacts
<1>2. PICK n \in Nat : n = Len(claims)
  BY <1>1
<1>3. \A a \in Seq(B), x \in B : RetainClaim(observations, a, x) \in Seq(B)
  BY AppendFacts DEF RetainClaim
<1>4. Claiming!Stepwise(Seq(B), observations, <<>>, claims)
  <2> HIDE DEF B
  <2>. QED
    BY <1>1, <1>3, NumbersInduct, Claiming!FoldSteps
<1>5. PICK c \in [0 .. n -> Seq(B)] :
         /\ c[0] = <<>>
         /\ \A k \in 1 .. n : c[k] = RetainClaim(observations, c[k - 1], claims[k])
         /\ Claiming!Fold(observations, <<>>, claims) = c[n]
  BY <1>2, <1>4 DEF Claiming!Stepwise
<1>6. RetainedClaims(claims, observations) = Claiming!Fold(observations, <<>>, claims)
  BY DEF RetainedClaims, Claiming!Fold, RetainClaim, FoldLeft,
         MapThenFoldSet, Claiming!MapThenFoldSet, Max, Claiming!Top
<1> DEFINE G == {k \in 0 .. n : SiftedClaims(c[k], claims, observations, k)}
<1>7. 0 \in G
  BY <1>5 DEF SiftedClaims, UniqueClaims, AboutOffers
<1>8. ASSUME NEW k \in 0 .. n - 1, k \in G PROVE k + 1 \in G
  <2>1. /\ k \in 0 .. n /\ k + 1 \in 1 .. n /\ k + 1 \in 0 .. n /\ (k + 1) - 1 = k
        /\ c[k] \in Seq(B)
    OBVIOUS
  <2>2. c[k + 1] = RetainClaim(observations, c[k], claims[k + 1])
    BY <1>5, <2>1
  <2>3. SiftedClaims(c[k], claims, observations, k)
    BY <1>8
  <2>4. SiftedClaims(c[k + 1], claims, observations, k + 1)
    BY <1>2, <2>1, <2>2, <2>3, RetainClaimSifts
  <2>. QED
    BY <2>1, <2>4
<1>9. n \in G
  <2> HIDE DEF G
  <2>1. \A k \in 0 .. n : k \in G
    BY <1>7, <1>8, UpTo
  <2>. QED
    BY <2>1
<1>. QED
  BY <1>5, <1>6, <1>9 DEF SiftedClaims

LEMMA CleanIsRecorded ==
  ASSUME NEW c, TypedCase(c), RecordedCase(c)
  PROVE  RecordedCase(CleanCase(c))
<1> DEFINE d == CleanCase(c)
           s == c.observations
           kept == Retained(s)
           claims == RetainedClaims(c.supplier_identity_claims, kept)
<1>1. kept \in Seq(ToSet(s))
  BY RetainedFacts DEF TypedCase, UniqueIds
<1>2. /\ claims \in Seq(ToSet(c.supplier_identity_claims)) /\ UniqueClaims(claims)
      /\ AboutOffers(claims, kept)
  <2> HIDE DEF kept
  <2>. QED
    BY RetainedClaimsSifted DEF TypedCase, RecordedCase
<1>3. d.observations = kept /\ d.supplier_identity_claims = claims /\ d.scenarios = c.scenarios
  BY DEF CleanCase, TypedCase, CaseFields
<1> HIDE DEF d, kept, claims
<1>4. \A i \in DOMAIN kept : \E j \in DOMAIN s : kept[i] = s[j]
  BY <1>1, SubArray DEF TypedCase
<1>5. \A i \in DOMAIN claims : \E j \in DOMAIN c.supplier_identity_claims :
        claims[i] = c.supplier_identity_claims[j]
  BY <1>2, SubArray DEF TypedCase
<1>6. \A i \in DOMAIN kept : RecordedOffer(kept[i])
  BY <1>4 DEF RecordedCase
<1>7. \A i \in DOMAIN claims : RecordedClaim(claims[i])
  BY <1>5 DEF RecordedCase
<1>8. RecordedCase(d)
  BY <1>2, <1>3, <1>6, <1>7 DEF RecordedCase
<1>. QED
  BY <1>8 DEF d
-----------------------------------------------------------------------------
(* The issues about the age of evidence.                                   *)

AgeCodes == {"STALE_EVIDENCE", "FUTURE_DATED_EVIDENCE"}

Graded(S) == \A issue \in S : issue.severity \in {"ERROR", "WARNING"}

\* Graded issues, none of which is about an age.
Ageless(S) == Graded(S) /\ \A issue \in S : issue.code \notin AgeCodes

Coded(S, code) == \E issue \in S : issue.code = code

IsStale(e, at) == at - e.retrieved_at > MaxEvidenceAge

IsFuture(e, at) == at - e.retrieved_at < -MaxFutureClockSkew

\* Graded issues, which are about an age exactly when some of the evidence has it.
Dates(S, evidence, at) ==
  /\ Graded(S)
  /\ Coded(S, "STALE_EVIDENCE") <=> \E e \in evidence : IsStale(e, at)
  /\ Coded(S, "FUTURE_DATED_EVIDENCE") <=> \E e \in evidence : IsFuture(e, at)

LEMMA IfCoded ==
  ASSUME NEW code, NEW issue, issue.severity \in {"ERROR", "WARNING"}, NEW p, p \in BOOLEAN
  PROVE  /\ Graded(If(p, issue))
         /\ Coded(If(p, issue), code) <=> (p /\ issue.code = code)
<1>1. CASE p
  BY <1>1 DEF Graded, Coded, If
<1>2. CASE ~p
  BY <1>2 DEF Graded, Coded, If
<1>. QED
  BY <1>1, <1>2

LEMMA EvidenceIssuesDate ==
  ASSUME NEW e, NEW subject, NEW at
  PROVE  Dates(EvidenceIssues(e, subject, at), {e}, at)
<1> DEFINE old == If(IsStale(e, at), Warning("STALE_EVIDENCE", subject))
           new == If(IsFuture(e, at), Error("FUTURE_DATED_EVIDENCE", subject))
           low == If(e.confidence \in {"LOW", "UNKNOWN"}, Warning("LOW_EVIDENCE_CONFIDENCE", subject))
           kind == If(e.classification \in {"ASSUMPTION", "AI_INFERENCE"},
                      Warning("NON_FACT_EVIDENCE", subject))
<1>1. EvidenceIssues(e, subject, at) = old \cup new \cup low \cup kind
  BY DEF EvidenceIssues, IsStale, IsFuture
<1>2. /\ Graded(old) /\ ~Coded(old, "FUTURE_DATED_EVIDENCE")
      /\ Coded(old, "STALE_EVIDENCE") <=> IsStale(e, at)
  <2> DEFINE w == Warning("STALE_EVIDENCE", subject)
  <2>1. w.severity = "WARNING" /\ w.code = "STALE_EVIDENCE"
    BY DEF Warning
  <2>2. IsStale(e, at) \in BOOLEAN
    BY DEF IsStale
  <2>. QED
    BY <2>1, <2>2, IfCoded
<1>3. /\ Graded(new) /\ ~Coded(new, "STALE_EVIDENCE")
      /\ Coded(new, "FUTURE_DATED_EVIDENCE") <=> IsFuture(e, at)
  <2> DEFINE w == Error("FUTURE_DATED_EVIDENCE", subject)
  <2>1. w.severity = "ERROR" /\ w.code = "FUTURE_DATED_EVIDENCE"
    BY DEF Error
  <2>2. IsFuture(e, at) \in BOOLEAN
    BY DEF IsFuture
  <2>. QED
    BY <2>1, <2>2, IfCoded
<1>4. /\ Graded(low) /\ ~Coded(low, "FUTURE_DATED_EVIDENCE") /\ ~Coded(low, "STALE_EVIDENCE")
      /\ Graded(kind) /\ ~Coded(kind, "FUTURE_DATED_EVIDENCE") /\ ~Coded(kind, "STALE_EVIDENCE")
  BY DEF Graded, Coded, If, Warning
<1> HIDE DEF old, new, low, kind
<1>. QED
  BY <1>1, <1>2, <1>3, <1>4 DEF Dates, Graded, Coded

LEMMA AgelessKeeps ==
  ASSUME NEW S, NEW evidence, NEW at, Dates(S, evidence, at), NEW T, Ageless(T)
  PROVE  Dates(S \cup T, evidence, at) /\ Dates(T \cup S, evidence, at)
  BY DEF Dates, Ageless, AgeCodes, Graded, Coded

LEMMA AgelessUnion ==
  ASSUME NEW S, Ageless(S), NEW T, Ageless(T)
  PROVE  Ageless(S \cup T)
  BY DEF Ageless, Graded

LEMMA WarningAgeless ==
  ASSUME NEW code, code \notin AgeCodes, NEW subject, NEW p
  PROVE  Ageless(If(p, Warning(code, subject))) /\ Ageless(If(p, Error(code, subject)))
  BY DEF Ageless, Graded, If, Warning, Error

LEMMA OfferIssuesDate ==
  ASSUME NEW o, NEW at
  PROVE  Dates(ObservationIssues(o, at), {o.evidence}, at)
<1> DEFINE subject == PriceSubject(o)
           zero == If(o.unit_price.amount = 0, Error("ZERO_PRICE", subject))
           unknown == If(o.incoterm # None /\ o.incoterm \notin KnownIncoterms,
                         Warning("UNKNOWN_INCOTERM", subject))
           incomplete == If((\E f \in IncotermFields : o[f] # None)
                               /\ (\E f \in IncotermFields : o[f] = None),
                            Warning("INCOMPLETE_INCOTERM_TERMS", subject))
           expired == If(o.quote_valid_until # None /\ o.quote_valid_until < at,
                         Warning("QUOTE_VALIDITY_EXPIRED", subject))
           dated == EvidenceIssues(o.evidence, subject, at)
<1>1. ObservationIssues(o, at) = zero \cup unknown \cup incomplete \cup expired \cup dated
  BY DEF ObservationIssues
<1>2. Ageless(zero) /\ Ageless(unknown) /\ Ageless(incomplete) /\ Ageless(expired)
  BY WarningAgeless DEF AgeCodes
<1>3. Dates(dated, {o.evidence}, at)
  BY EvidenceIssuesDate
<1> HIDE DEF zero, unknown, incomplete, expired, dated
<1>4. Ageless(zero \cup unknown \cup incomplete \cup expired)
  BY <1>2, AgelessUnion
<1>. QED
  BY <1>1, <1>3, <1>4, AgelessKeeps

LEMMA ClaimIssuesDate ==
  ASSUME NEW claim, NEW at
  PROVE  Dates(ClaimIssues(claim, at), {claim.evidence}, at)
<1>1. Ageless({Warning("SUPPLIER_IDENTITY_CLAIM_REQUIRES_REVIEW", ClaimSubject(claim))})
  BY DEF Ageless, Graded, Warning, AgeCodes
<1>. QED
  BY <1>1, EvidenceIssuesDate, AgelessKeeps DEF ClaimIssues

LEMMA DuplicateIssuesAgeless ==
  ASSUME NEW c, NEW clean
  PROVE  Ageless(DuplicateIssues(c, clean))
<1> DEFINE twice == {Warning("DUPLICATE_PRICE_OBSERVATION", PriceSubject(o)) :
                       o \in ToSet(c.observations) \ ToSet(clean.observations)}
           lost == {Error("IDENTITY_CLAIM_FOR_EXCLUDED_OBSERVATION", ClaimSubject(k)) :
                      k \in ToSet(c.supplier_identity_claims) \ ToSet(clean.supplier_identity_claims)}
           none == If(clean.observations = <<>>, Error("NO_PRICE_OBSERVATIONS", CaseSubject(c)))
           mixed == If(Cardinality({o.unit : o \in ToSet(clean.observations)}) > 1,
                       Warning("MIXED_PRICE_UNITS", CaseSubject(c)))
           few == If(/\ clean.observations # <<>>
                     /\ \A o \in ToSet(clean.observations) : ~Eligible(c, o),
                     Error("NO_QUANTITY_ELIGIBLE_PRICE", CaseSubject(c)))
<1>1. DuplicateIssues(c, clean) = twice \cup lost \cup none \cup mixed \cup few
  BY DEF DuplicateIssues
<1>2. Ageless(twice) /\ Ageless(lost)
  BY DEF Ageless, Graded, Warning, Error, AgeCodes
<1>3. Ageless(none) /\ Ageless(mixed) /\ Ageless(few)
  BY WarningAgeless DEF AgeCodes
<1> HIDE DEF twice, lost, none, mixed, few
<1>. QED
  BY <1>1, <1>2, <1>3, AgelessUnion

LEMMA ScenarioIssuesAgeless ==
  ASSUME NEW c, NEW clean, NEW s
  PROVE  Ageless(ScenarioIssues(c, clean, s))
<1> DEFINE subject == <<"SCENARIO", s.name>>
           backed == {o.unit_price : o \in {p \in ToSet(clean.observations) : Eligible(c, p)}}
           other == If(s.quantity # c.quantity, Error("SCENARIO_QUANTITY_MISMATCH", subject))
           unbacked == If(s.purchase_unit_price \notin backed, Warning("UNBACKED_PURCHASE_PRICE", subject))
           assumed == If(\E cost \in ToSet(s.costs) : cost.evidence_class \in {"ASSUMPTION", "AI_INFERENCE"},
                         Warning("ASSUMED_COST_COMPONENTS", subject))
<1>1. ScenarioIssues(c, clean, s) = other \cup unbacked \cup assumed
  BY DEF ScenarioIssues
<1>2. Ageless(other) /\ Ageless(unbacked) /\ Ageless(assumed)
  BY WarningAgeless DEF AgeCodes
<1> HIDE DEF other, unbacked, assumed
<1>. QED
  BY <1>1, <1>2, AgelessUnion

\* What the result of a case stands on.
OffersEvidence(c) == {o.evidence : o \in ToSet(c.observations)}

ClaimsEvidence(c) == {k.evidence : k \in ToSet(c.supplier_identity_claims)}

RatesEvidence(c) == {fx.evidence : fx \in UNION {ToSet(s.fx_rates) : s \in ToSet(c.scenarios)}}

EvidenceOf(c) == OffersEvidence(c) \cup ClaimsEvidence(c) \cup RatesEvidence(c)

LEMMA DatesUnion ==
  ASSUME NEW at, NEW S, NEW D, Dates(S, D, at), NEW T, NEW E, Dates(T, E, at)
  PROVE  Dates(S \cup T, D \cup E, at)
  BY DEF Dates, Graded, Coded

LEMMA DatesAll ==
  ASSUME NEW at, NEW R, NEW S, NEW D, NEW f, NEW e,
         \A r \in R : Dates(f[r], {e[r]}, at),
         S = UNION {f[r] : r \in R}, D = {e[r] : r \in R}
  PROVE  Dates(S, D, at)
<1>1. Graded(S)
  BY DEF Dates, Graded
<1>2. \A r \in R : Coded(f[r], "STALE_EVIDENCE") <=> IsStale(e[r], at)
  BY DEF Dates
<1>3. \A r \in R : Coded(f[r], "FUTURE_DATED_EVIDENCE") <=> IsFuture(e[r], at)
  BY DEF Dates
<1>4. Coded(S, "STALE_EVIDENCE") <=> \E r \in R : Coded(f[r], "STALE_EVIDENCE")
  BY DEF Coded
<1>5. Coded(S, "FUTURE_DATED_EVIDENCE") <=> \E r \in R : Coded(f[r], "FUTURE_DATED_EVIDENCE")
  BY DEF Coded
<1>6. (\E r \in R : IsStale(e[r], at)) <=> \E d \in D : IsStale(d, at)
  OBVIOUS
<1>7. (\E r \in R : IsFuture(e[r], at)) <=> \E d \in D : IsFuture(d, at)
  OBVIOUS
<1>. QED
  BY <1>1, <1>2, <1>3, <1>4, <1>5, <1>6, <1>7 DEF Dates

\* The first stage raises an age exactly for the evidence that the clean case uses.
LEMMA CaseIssuesDate ==
  ASSUME NEW c, TypedCase(c), NEW at
  PROVE  Dates(CaseIssues(c, at), EvidenceOf(CleanCase(c)), at)
<1> DEFINE clean == CleanCase(c)
           O == ToSet(clean.observations)
           K == ToSet(clean.supplier_identity_claims)
           R == UNION {ToSet(s.fx_rates) : s \in ToSet(c.scenarios)}
           f == [o \in O |-> ObservationIssues(o, at)]
           g == [k \in K |-> ClaimIssues(k, at)]
           h == [fx \in R |-> EvidenceIssues(fx.evidence, FXSubject(c, fx), at)]
           ef == [o \in O |-> o.evidence]
           eg == [k \in K |-> k.evidence]
           eh == [fx \in R |-> fx.evidence]
           first == DuplicateIssues(c, clean)
           second == UNION {ObservationIssues(o, at) : o \in O}
           third == UNION {ClaimIssues(k, at) : k \in K}
           fourth == OutlierIssues(clean.observations)
           fifth == UNION {ScenarioIssues(c, clean, s) : s \in ToSet(c.scenarios)}
           sixth == FXIssues(c, at)
           last == If(c.unknowns # <<>>, Warning("DECLARED_UNKNOWNS", CaseSubject(c)))
<1>1. CaseIssues(c, at) = first \cup second \cup third \cup fourth \cup fifth \cup sixth \cup last
  BY DEF CaseIssues
<1>2. Ageless(first)
  BY DuplicateIssuesAgeless
<1>3. Ageless(fourth)
  BY DEF OutlierIssues, Ageless, Graded, Warning, AgeCodes
<1>4. Ageless(fifth)
  <2>1. \A s : Ageless(ScenarioIssues(c, clean, s))
    BY ScenarioIssuesAgeless
  <2> HIDE DEF clean
  <2>. QED
    BY <2>1 DEF Ageless, Graded
<1>5. Ageless(last)
  BY WarningAgeless DEF AgeCodes
<1>6. Dates(second, OffersEvidence(clean), at)
  <2>1. \A o \in O : Dates(f[o], {ef[o]}, at)
    BY OfferIssuesDate
  <2>2. second = UNION {f[o] : o \in O} /\ OffersEvidence(clean) = {ef[o] : o \in O}
    BY DEF OffersEvidence
  <2> HIDE DEF O, f, ef, second, clean
  <2>. QED
    BY <2>1, <2>2, DatesAll
<1>7. Dates(third, ClaimsEvidence(clean), at)
  <2>1. \A k \in K : Dates(g[k], {eg[k]}, at)
    BY ClaimIssuesDate
  <2>2. third = UNION {g[k] : k \in K} /\ ClaimsEvidence(clean) = {eg[k] : k \in K}
    BY DEF ClaimsEvidence
  <2> HIDE DEF K, g, eg, third, clean
  <2>. QED
    BY <2>1, <2>2, DatesAll
<1>8. Dates(sixth, RatesEvidence(clean), at)
  <2>1. \A fx \in R : Dates(h[fx], {eh[fx]}, at)
    BY EvidenceIssuesDate
  <2>2. RatesEvidence(clean) = {eh[fx] : fx \in R}
    BY CleanIsTyped DEF RatesEvidence
  <2>3. sixth = UNION {h[fx] : fx \in R}
    BY DEF FXIssues
  <2> HIDE DEF R, h, eh, sixth, clean
  <2>. QED
    BY <2>1, <2>2, <2>3, DatesAll
<1> HIDE DEF first, second, third, fourth, fifth, sixth, last, clean
<1>9. Ageless(first \cup fourth \cup fifth \cup last)
  BY <1>2, <1>3, <1>4, <1>5, AgelessUnion
<1>10. Dates(second \cup third \cup sixth, EvidenceOf(clean), at)
  <2>1. Dates(second \cup third, OffersEvidence(clean) \cup ClaimsEvidence(clean), at)
    BY <1>6, <1>7, DatesUnion
  <2>. QED
    BY <2>1, <1>8, DatesUnion DEF EvidenceOf
<1>11. CaseIssues(c, at) = (second \cup third \cup sixth) \cup (first \cup fourth \cup fifth \cup last)
  BY <1>1
<1>12. Dates(CaseIssues(c, at), EvidenceOf(clean), at)
  <2> DEFINE A == second \cup third \cup sixth
             B == first \cup fourth \cup fifth \cup last
  <2>1. Dates(A, EvidenceOf(clean), at) /\ Ageless(B) /\ CaseIssues(c, at) = A \cup B
    BY <1>9, <1>10, <1>11
  <2> HIDE DEF A, B
  <2>. QED
    BY <2>1, AgelessKeeps
<1>. QED
  BY <1>12 DEF clean

\* The later stages add nothing about an age.
LEMMA MatchIssuesAgeless ==
  ASSUME NEW m
  PROVE  Ageless(MatchIssues(m))
<1> DEFINE subject == <<"PRICE_OBSERVATION", m.observation_id>>
           a == If(m.conflicting_attributes # {}, Error("PRODUCT_ATTRIBUTE_CONFLICT", subject))
           b == If(/\ m.conflicting_attributes = {} /\ m.missing_attributes # {}
                   /\ m.classification = "EXACT_PRODUCT",
                   Warning("UNVERIFIED_PRODUCT_VARIANT", subject))
           c == If(m.classification = "COMPARABLE", Warning("COMPARABLE_PRODUCT_PRICE", subject))
           d == If(m.classification = "SIMILAR", Warning("SIMILAR_PRODUCT_PRICE", subject))
           e == If(m.classification = "SUBSTITUTE", Error("SUBSTITUTE_PRODUCT_PRICE", subject))
<1>1. MatchIssues(m) = a \cup b \cup c \cup d \cup e
  BY DEF MatchIssues
<1>2. Ageless(a) /\ Ageless(b) /\ Ageless(c) /\ Ageless(d) /\ Ageless(e)
  BY WarningAgeless DEF AgeCodes
<1> HIDE DEF a, b, c, d, e
<1>. QED
  BY <1>1, <1>2, AgelessUnion

LEMMA RankingIssuesAgeless ==
  ASSUME NEW r
  PROVE  Ageless(RankingIssues(r))
<1> DEFINE subject == <<"PRICE_OBSERVATION", r.observation_id>>
           a == If(~Truthy(r.supplier_name), Error("MISSING_SUPPLIER_IDENTITY", subject))
           b == If(Truthy(r.supplier_name),
                   Warning("SUPPLIER_DUE_DILIGENCE_REQUIRED", <<"SUPPLIER", r.supplier_name>>))
           c == If(~r.eligible_for_quantity, Warning("OFFER_BELOW_MINIMUM_ORDER", subject))
           d == If(r.normalized_unit_price = None, Error("UNCONVERTIBLE_OFFER_PRICE", subject))
<1>1. RankingIssues(r) = a \cup b \cup c \cup d
  BY DEF RankingIssues
<1>2. Ageless(a) /\ Ageless(b) /\ Ageless(c) /\ Ageless(d)
  BY WarningAgeless DEF AgeCodes
<1> HIDE DEF a, b, c, d
<1>. QED
  BY <1>1, <1>2, AgelessUnion

LEMMA LaterIssuesAgeless ==
  /\ \A found : Ageless(UNION {MatchIssues(m) : m \in ToSet(found)})
  /\ \A ranked : Ageless(GroupIssues(ranked) \cup UNION {RankingIssues(r) : r \in ranked})
<1>1. ASSUME NEW found PROVE Ageless(UNION {MatchIssues(m) : m \in ToSet(found)})
  <2>1. \A m : Ageless(MatchIssues(m))
    BY MatchIssuesAgeless
  <2>. QED
    BY <2>1 DEF Ageless, Graded
<1>2. ASSUME NEW ranked PROVE Ageless(UNION {RankingIssues(r) : r \in ranked})
  <2>1. \A r : Ageless(RankingIssues(r))
    BY RankingIssuesAgeless
  <2>. QED
    BY <2>1 DEF Ageless, Graded
<1>3. ASSUME NEW ranked PROVE Ageless(GroupIssues(ranked))
  <2> DEFINE comparable(g) == {r \in ranked : r.comparison_group = g /\ r.rankable}
             few == {h \in {r.comparison_group : r \in ranked} : Cardinality(comparable(h)) < 2}
  <2>1. GroupIssues(ranked) = {Warning("INSUFFICIENT_SUPPLIER_COMPARISON",
                                       <<"SUPPLIER_COMPARISON_GROUP", g>>) : g \in few}
    BY DEF GroupIssues
  <2> HIDE DEF few
  <2>. QED
    BY <2>1 DEF Ageless, Graded, Warning, AgeCodes
<1>. QED
  BY <1>1, <1>2, <1>3, AgelessUnion
-----------------------------------------------------------------------------
(* What an evaluation keeps of its earlier stages.                         *)

Costed == {"calculated", "rendered", "stored"}

Rendered == {"rendered", "stored"}

FromBundle ==
  stage \in Parsed =>
    /\ bundle \in Bundles /\ BundleReadable(bundle) /\ RecordsAccepted(ParsedCase(bundle))
    /\ case = IF stage \in Validated THEN CleanCase(ParsedCase(bundle)) ELSE ParsedCase(bundle)

\* The reading of the clock and what was raised about the age of the evidence.
IssuesKept ==
  stage \in Validated =>
    /\ validation.evaluated_at \in Clock
    /\ Dates(validation.issues, EvidenceOf(case), validation.evaluated_at)

CostsKept ==
  stage \in Costed =>
    AllComputable /\ scenarios = [i \in DOMAIN case.scenarios |-> LandedCost(case.scenarios[i])]

ReportKept == stage \in Rendered => report = RenderMarkdown(Result)

RowsKept == stage = "stored" => rows = Rows /\ RowsFit(rows) /\ Persistable

RecordInv == FromBundle /\ IssuesKept /\ CostsKept /\ ReportKept /\ RowsKept

LEMMA BundleRecorded ==
  ASSUME NEW raw \in Bundles, BundleReadable(raw), RecordsAccepted(ParsedCase(raw))
  PROVE  /\ TypedCase(ParsedCase(raw)) /\ RecordedCase(ParsedCase(raw))
         /\ RecordedCase(CleanCase(ParsedCase(raw)))
  BY BundlesAssumption, ParsedIsTyped, ParsedIsRecorded, CleanIsRecorded

LEMMA RecordInductive == RecordInv /\ EvaluationInv /\ [Next]_vars => RecordInv'
<1> SUFFICES ASSUME RecordInv, EvaluationInv, [Next]_vars PROVE RecordInv'
  OBVIOUS
<1> USE DEF RecordInv
<1>1. CASE Refuse
  BY <1>1 DEF Refuse, FromBundle, IssuesKept, CostsKept, ReportKept, RowsKept,
     Parsed, Checked, Validated, Costed, Rendered
<1>2. CASE Submit
  BY <1>2 DEF Submit, FromBundle, IssuesKept, CostsKept, ReportKept, RowsKept,
     Parsed, Checked, Validated, Costed, Rendered
<1>3. CASE Parse
  <2>1. bundle \in Bundles /\ stage' = "parsed" /\ bundle' = bundle
    BY <1>3 DEF Parse, EvaluationInv, CaseIsTyped
  <2>2. BundleReadable(bundle) /\ RecordsAccepted(ParsedCase(bundle)) /\ case' = ParsedCase(bundle)
    BY <1>3 DEF Parse, ParseEvidenceBundle
  <2>. QED
    BY <2>1, <2>2 DEF FromBundle, IssuesKept, CostsKept, ReportKept, RowsKept,
       Parsed, Checked, Validated, Costed, Rendered
<1>4. CASE CheckScenarios
  BY <1>4 DEF CheckScenarios, FromBundle, IssuesKept, CostsKept, ReportKept, RowsKept,
     Parsed, Checked, Validated, Costed, Rendered
<1>5. CASE Validate
  <2>1. /\ stage = "checked" /\ stage' = "validated" /\ bundle' = bundle
        /\ case' = CleanCase(case) /\ TypedCase(case)
    BY <1>5 DEF Validate, EvaluationInv, CaseIsTyped, Parsed
  <2>2. PICK now \in Clock : validation' = Validation(CaseIssues(case, now), now)
    BY <1>5 DEF Validate, ValidateResearchCase
  <2>3. validation'.issues = CaseIssues(case, now) /\ validation'.evaluated_at = now
    BY <2>2, VerdictFields
  <2>4. Dates(CaseIssues(case, now), EvidenceOf(CleanCase(case)), now)
    BY <2>1, CaseIssuesDate
  <2>5. IssuesKept'
    BY <2>1, <2>3, <2>4 DEF IssuesKept
  <2>6. FromBundle'
    BY <2>1 DEF FromBundle, Parsed, Checked, Validated
  <2>. QED
    BY <2>1, <2>5, <2>6 DEF CostsKept, ReportKept, RowsKept, Costed, Rendered
<1>6. CASE Match
  <2>1. /\ stage = "validated" /\ stage' = "matched" /\ bundle' = bundle /\ case' = case
        /\ validation' = ValidateProductMatches(validation, matches')
    BY <1>6 DEF Match
  <2> DEFINE more == UNION {MatchIssues(m) : m \in ToSet(matches')}
  <2>2. validation'.issues = validation.issues \cup more
        /\ validation'.evaluated_at = validation.evaluated_at
    BY <2>1, VerdictFields DEF ValidateProductMatches
  <2>3. Ageless(more)
    BY LaterIssuesAgeless
  <2> HIDE DEF more
  <2>4. IssuesKept'
    <3>1. Dates(validation.issues, EvidenceOf(case), validation.evaluated_at)
          /\ validation.evaluated_at \in Clock
      BY <2>1 DEF IssuesKept, Validated, Checked, Parsed
    <3>2. Dates(validation.issues \cup more, EvidenceOf(case), validation.evaluated_at)
      BY <2>3, <3>1, AgelessKeeps
    <3>. QED
      BY <2>1, <2>2, <3>1, <3>2 DEF IssuesKept
  <2>. QED
    BY <2>1, <2>4 DEF FromBundle, CostsKept, ReportKept, RowsKept,
       Parsed, Checked, Validated, Costed, Rendered
<1>7. CASE Rank
  <2>1. /\ stage = "matched" /\ stage' = "ranked" /\ bundle' = bundle /\ case' = case
        /\ validation' = ValidateSupplierRankings(validation, rankings')
    BY <1>7 DEF Rank
  <2> DEFINE more == GroupIssues(rankings') \cup UNION {RankingIssues(r) : r \in rankings'}
  <2>2. validation'.issues = validation.issues \cup more
        /\ validation'.evaluated_at = validation.evaluated_at
    <3>1. validation.issues \cup GroupIssues(rankings') \cup UNION {RankingIssues(r) : r \in rankings'}
            = validation.issues \cup more
      OBVIOUS
    <3> HIDE DEF more
    <3>. QED
      BY <2>1, <3>1, VerdictFields DEF ValidateSupplierRankings
  <2>3. Ageless(more)
    BY LaterIssuesAgeless
  <2> HIDE DEF more
  <2>4. IssuesKept'
    <3>1. Dates(validation.issues, EvidenceOf(case), validation.evaluated_at)
          /\ validation.evaluated_at \in Clock
      BY <2>1 DEF IssuesKept, Validated, Checked, Parsed
    <3>2. Dates(validation.issues \cup more, EvidenceOf(case), validation.evaluated_at)
      BY <2>3, <3>1, AgelessKeeps
    <3>. QED
      BY <2>1, <2>2, <3>1, <3>2 DEF IssuesKept
  <2>. QED
    BY <2>1, <2>4 DEF FromBundle, CostsKept, ReportKept, RowsKept,
       Parsed, Checked, Validated, Costed, Rendered
<1>8. CASE Calculate
  BY <1>8 DEF Calculate, FromBundle, IssuesKept, CostsKept, ReportKept, RowsKept, AllComputable,
     Parsed, Checked, Validated, Costed, Rendered
<1>9. CASE Render
  BY <1>9 DEF Render, FromBundle, IssuesKept, CostsKept, ReportKept, RowsKept, AllComputable,
     Result, Parsed, Checked, Validated, Costed, Rendered
<1>10. CASE Persist
  BY <1>10 DEF Persist, FromBundle, IssuesKept, CostsKept, ReportKept, RowsKept, AllComputable,
     Result, Rows, Persistable, AboutOpportunity, Parsed, Checked, Validated, Costed, Rendered
<1>11. CASE UNCHANGED vars
  BY <1>11 DEF vars, FromBundle, IssuesKept, CostsKept, ReportKept, RowsKept, AllComputable,
     Result, Rows, Persistable, AboutOpportunity
<1>. QED
  BY <1>1, <1>2, <1>3, <1>4, <1>5, <1>6, <1>7, <1>8, <1>9, <1>10, <1>11
     DEF Next, RefuseBundle, RefuseScenarios, RefuseCosts, RefuseReport, RefuseResult, RefuseRows

\* Every result is told from the bundle that was sent: its case, its issues about the
\* age of evidence, its costs, its report and its rows.
THEOREM RecordHolds == Spec => []RecordInv
<1>1. Init => RecordInv
  BY DEF Init, RecordInv, FromBundle, IssuesKept, CostsKept, ReportKept, RowsKept,
     Parsed, Checked, Validated, Costed, Rendered
<1>. QED
  BY <1>1, RecordInductive, EvaluationHolds, PTL DEF Spec

\* What is known of a validated case.
LEMMA CaseRecorded ==
  ASSUME EvaluationInv, RecordInv, stage \in Validated
  PROVE  TypedCase(case) /\ ScenariosComplete(case) /\ RecordedCase(case)
<1>1. stage \in Parsed /\ stage \in Checked
  BY StageSets
<1>. QED
  BY <1>1, BundleRecorded DEF EvaluationInv, CaseIsTyped, RecordInv, FromBundle
-----------------------------------------------------------------------------
(* The rows of evidence.                                                   *)

\* The body of the loop that keeps one row per fingerprint.
CacheStep(p, cache, e) ==
  IF \E i \in DOMAIN cache : Fingerprint(cache[i]) = Fingerprint(e)
    THEN cache ELSE Append(cache, e)

Caching == INSTANCE FoldTheory WITH Op <- CacheStep

OnceEach(s) == \A i, j \in DOMAIN s : i # j => s[i] # s[j]

\* The first k uses, each once.
Cached(cache, uses, k) ==
  OnceEach(cache) /\ ToSet(cache) = {uses[m] : m \in 1 .. k}

LEMMA CacheSteps ==
  ASSUME NEW S, NEW uses \in Seq(S), NEW k \in 1 .. Len(uses),
         NEW cache \in Seq(S), Cached(cache, uses, k - 1)
  PROVE  Cached(CacheStep(0, cache, uses[k]), uses, k)
<1>1. uses[k] \in S /\ k \in Nat /\ 1 .. k = (1 .. k - 1) \cup {k}
  OBVIOUS
<1>2. {uses[m] : m \in 1 .. k} = {uses[m] : m \in 1 .. k - 1} \cup {uses[k]}
  BY <1>1
<1>3. CASE \E i \in DOMAIN cache : cache[i] = uses[k]
  <2>1. uses[k] \in ToSet(cache)
    BY <1>3 DEF ToSet
  <2>2. CacheStep(0, cache, uses[k]) = cache
    BY <1>3 DEF CacheStep, Fingerprint
  <2>. QED
    BY <1>2, <2>1, <2>2 DEF Cached
<1>4. CASE ~ \E i \in DOMAIN cache : cache[i] = uses[k]
  <2> DEFINE longer == Append(cache, uses[k])
             n == Len(cache) + 1
  <2>1. /\ DOMAIN longer = DOMAIN cache \cup {n} /\ n \notin DOMAIN cache
        /\ longer[n] = uses[k] /\ \A i \in DOMAIN cache : longer[i] = cache[i]
    BY <1>1, AppendFacts
  <2>2. CacheStep(0, cache, uses[k]) = longer
    BY <1>4 DEF CacheStep, Fingerprint
  <2> HIDE DEF longer, n
  <2>3. OnceEach(longer)
    BY <1>4, <2>1 DEF OnceEach, Cached
  <2>4. ToSet(longer) = ToSet(cache) \cup {uses[k]}
    BY <2>1 DEF ToSet
  <2>5. ToSet(longer) = {uses[m] : m \in 1 .. k}
    BY <1>2, <2>4 DEF Cached
  <2>. QED
    BY <2>2, <2>3, <2>5 DEF Cached
<1>. QED
  BY <1>3, <1>4

LEMMA CacheFacts ==
  ASSUME NEW S, NEW uses \in Seq(S), NEW cache, cache = Caching!Fold(0, <<>>, uses)
  PROVE  cache \in Seq(S) /\ OnceEach(cache) /\ ToSet(cache) = ToSet(uses)
<1>1. PICK n \in Nat : n = Len(uses) /\ DOMAIN uses = 1 .. n
  OBVIOUS
<1>2. <<>> \in Seq(S) /\ \A a \in Seq(S), x \in S : CacheStep(0, a, x) \in Seq(S)
  BY AppendFacts DEF CacheStep
<1>3. Caching!Stepwise(Seq(S), 0, <<>>, uses)
  BY <1>2, NumbersInduct, Caching!FoldSteps
<1>4. PICK c \in [0 .. n -> Seq(S)] :
         /\ c[0] = <<>>
         /\ \A k \in 1 .. n : c[k] = CacheStep(0, c[k - 1], uses[k])
         /\ Caching!Fold(0, <<>>, uses) = c[n]
  BY <1>1, <1>3 DEF Caching!Stepwise
<1> DEFINE G == {k \in 0 .. n : Cached(c[k], uses, k)}
<1>5. 0 \in G
  <2>1. DOMAIN <<>> = {} /\ 1 .. 0 = {}
    OBVIOUS
  <2>. QED
    BY <1>4, <2>1 DEF Cached, OnceEach, ToSet
<1>6. ASSUME NEW k \in 0 .. n - 1, k \in G PROVE k + 1 \in G
  <2>1. /\ k \in 0 .. n /\ k + 1 \in 1 .. n /\ k + 1 \in 0 .. n /\ (k + 1) - 1 = k
        /\ c[k] \in Seq(S)
    OBVIOUS
  <2>2. c[k + 1] = CacheStep(0, c[k], uses[k + 1])
    BY <1>4, <2>1
  <2>3. Cached(c[k], uses, k)
    BY <1>6
  <2>4. Cached(c[k + 1], uses, k + 1)
    BY <1>1, <2>1, <2>2, <2>3, CacheSteps
  <2>. QED
    BY <2>1, <2>4
<1>7. n \in G
  <2> HIDE DEF G
  <2>1. \A k \in 0 .. n : k \in G
    BY <1>5, <1>6, UpTo
  <2>. QED
    BY <2>1
<1>8. Cached(c[n], uses, n) /\ c[n] \in Seq(S)
  BY <1>7
<1>9. ToSet(uses) = {uses[m] : m \in 1 .. n}
  BY <1>1 DEF ToSet
<1>. QED
  BY <1>4, <1>8, <1>9 DEF Cached

\* A function over the positions of an array is a sequence.
LEMMA SeqOver ==
  ASSUME NEW v, Array(v), NEW w, w = [i \in DOMAIN v |-> w[i]], NEW S,
         \A i \in DOMAIN v : w[i] \in S
  PROVE  w \in Seq(S) /\ Len(w) = Len(v) /\ DOMAIN w = DOMAIN v
<1>1. PICK n \in Nat : n = Len(v) /\ DOMAIN v = 1 .. n
  BY ArrayFacts
<1>2. w \in [1 .. n -> S]
  BY <1>1
<1>. QED
  BY <1>1, <1>2

\* What a sequence of parts, one for each position of an array, flattens to.
LEMMA FlattenParts ==
  ASSUME NEW v, Array(v), NEW parts, parts = [i \in DOMAIN v |-> parts[i]], NEW S,
         \A i \in DOMAIN v : parts[i] \in Seq(S)
  PROVE  /\ DOMAIN parts = DOMAIN v /\ Len(parts) = Len(v) /\ parts \in Seq(Seq(S))
         /\ FlattenSeq(parts) \in Seq(S)
         /\ \A x : x \in ToSet(FlattenSeq(parts)) <=> \E i \in DOMAIN v : x \in ToSet(parts[i])
<1> DEFINE Q == Seq(S)
<1>1. \A i \in DOMAIN v : parts[i] \in Q
  OBVIOUS
<1> HIDE DEF Q
<1>2. parts \in Seq(Q) /\ Len(parts) = Len(v) /\ DOMAIN parts = DOMAIN v
  BY <1>1, SeqOver
<1>3. FlattenSeq(parts) \in Seq(S)
      /\ ToSet(FlattenSeq(parts)) = UNION {ToSet(parts[i]) : i \in DOMAIN parts}
  BY <1>2, FlattenFacts DEF Q
<1> DEFINE F == ToSet(FlattenSeq(parts))
<1>4. F = UNION {ToSet(parts[i]) : i \in DOMAIN v}
  BY <1>2, <1>3
<1> HIDE DEF F
<1>5. \A x : x \in F <=> \E i \in DOMAIN v : x \in ToSet(parts[i])
  BY <1>4
<1>. QED
  BY <1>2, <1>3, <1>5 DEF Q, F

UsesOf(c) ==
  [i \in DOMAIN c.observations |-> c.observations[i].evidence] \o
  [i \in DOMAIN c.supplier_identity_claims |-> c.supplier_identity_claims[i].evidence] \o
  FlattenSeq([i \in DOMAIN c.scenarios |->
    [j \in DOMAIN c.scenarios[i].fx_rates |-> c.scenarios[i].fx_rates[j].evidence]])

LEMMA RatesUsed ==
  ASSUME NEW c, TypedCase(c), NEW parts,
         parts = [i \in DOMAIN c.scenarios |->
           [j \in DOMAIN c.scenarios[i].fx_rates |-> c.scenarios[i].fx_rates[j].evidence]]
  PROVE  FlattenSeq(parts) \in Seq(RatesEvidence(c)) /\ ToSet(FlattenSeq(parts)) = RatesEvidence(c)
<1> DEFINE S == RatesEvidence(c)
<1>0. S = {fx.evidence : fx \in UNION {ToSet(s.fx_rates) : s \in ToSet(c.scenarios)}}
  BY DEF RatesEvidence
<1>1. ASSUME NEW i \in DOMAIN c.scenarios
      PROVE  /\ parts[i] \in Seq(S)
             /\ ToSet(parts[i]) = {fx.evidence : fx \in ToSet(c.scenarios[i].fx_rates)}
  <2> DEFINE rates == c.scenarios[i].fx_rates
             w == parts[i]
  <2>1. Array(rates) /\ c.scenarios[i] \in ToSet(c.scenarios)
    BY DEF TypedCase, TypedScenario, ToSet
  <2>2. w = [j \in DOMAIN rates |-> rates[j].evidence]
    OBVIOUS
  <2>3. \A j \in DOMAIN rates : w[j] \in S
    BY <1>0, <2>1, <2>2 DEF ToSet
  <2>4. w = [j \in DOMAIN rates |-> w[j]] /\ \A j \in DOMAIN rates : w[j] = rates[j].evidence
    BY <2>2
  <2> HIDE DEF w, S, rates
  <2>5. w \in Seq(S) /\ DOMAIN w = DOMAIN rates
    BY <2>1, <2>3, <2>4, SeqOver
  <2>6. ToSet(w) = {fx.evidence : fx \in ToSet(rates)}
    BY <2>4, <2>5 DEF ToSet
  <2>. QED
    BY <2>5, <2>6 DEF w, rates
<1>2. Array(c.scenarios) /\ parts = [i \in DOMAIN c.scenarios |-> parts[i]]
  BY DEF TypedCase
<1> DEFINE F == ToSet(FlattenSeq(parts))
<1>3. FlattenSeq(parts) \in Seq(S)
      /\ \A x : x \in F <=> \E i \in DOMAIN c.scenarios : x \in ToSet(parts[i])
  <2>1. PICK p : p = parts
    OBVIOUS
  <2>2. p = [i \in DOMAIN c.scenarios |-> p[i]] /\ \A i \in DOMAIN c.scenarios : p[i] \in Seq(S)
    BY <1>1, <1>2, <2>1
  <2> HIDE DEF S
  <2>3. FlattenSeq(p) \in Seq(S)
        /\ \A x : x \in ToSet(FlattenSeq(p)) <=> \E i \in DOMAIN c.scenarios : x \in ToSet(p[i])
    BY <1>2, <2>2, FlattenParts
  <2>. QED
    BY <2>1, <2>3
<1>4. \A x : x \in F <=> \E i \in DOMAIN c.scenarios :
                           x \in {fx.evidence : fx \in ToSet(c.scenarios[i].fx_rates)}
  <2> HIDE DEF F
  <2>. QED
    BY <1>1, <1>3
<1>5. \A x : x \in S <=> \E i \in DOMAIN c.scenarios :
                           x \in {fx.evidence : fx \in ToSet(c.scenarios[i].fx_rates)}
  BY <1>0 DEF ToSet
<1> HIDE DEF S, F
<1>6. F = S
  BY <1>4, <1>5
<1>. QED
  BY <1>3, <1>6 DEF S, F

LEMMA UsesAreEvidence ==
  ASSUME NEW c, TypedCase(c)
  PROVE  UsesOf(c) \in Seq(EvidenceOf(c)) /\ ToSet(UsesOf(c)) = EvidenceOf(c)
<1> DEFINE S == EvidenceOf(c)
           a == [i \in DOMAIN c.observations |-> c.observations[i].evidence]
           b == [i \in DOMAIN c.supplier_identity_claims |-> c.supplier_identity_claims[i].evidence]
           parts == [i \in DOMAIN c.scenarios |->
             [j \in DOMAIN c.scenarios[i].fx_rates |-> c.scenarios[i].fx_rates[j].evidence]]
           d == FlattenSeq(parts)
<1>1. UsesOf(c) = (a \o b) \o d
  BY DEF UsesOf
<1>2. a \in Seq(S) /\ ToSet(a) = OffersEvidence(c)
  <2>1. Array(c.observations) /\ a = [i \in DOMAIN c.observations |-> a[i]]
    BY DEF TypedCase
  <2>2. \A i \in DOMAIN c.observations : a[i] \in S
    BY DEF EvidenceOf, OffersEvidence, ToSet
  <2>3. ToSet(a) = OffersEvidence(c)
    BY DEF OffersEvidence, ToSet
  <2> HIDE DEF a, S
  <2>. QED
    BY <2>1, <2>2, <2>3, SeqOver
<1>3. b \in Seq(S) /\ ToSet(b) = ClaimsEvidence(c)
  <2>1. Array(c.supplier_identity_claims) /\ b = [i \in DOMAIN c.supplier_identity_claims |-> b[i]]
    BY DEF TypedCase
  <2>2. \A i \in DOMAIN c.supplier_identity_claims : b[i] \in S
    BY DEF EvidenceOf, ClaimsEvidence, ToSet
  <2>3. ToSet(b) = ClaimsEvidence(c)
    BY DEF ClaimsEvidence, ToSet
  <2> HIDE DEF b, S
  <2>. QED
    BY <2>1, <2>2, <2>3, SeqOver
<1>4. d \in Seq(S) /\ ToSet(d) = RatesEvidence(c)
  <2>1. d \in Seq(RatesEvidence(c)) /\ ToSet(d) = RatesEvidence(c)
    <3> HIDE DEF parts
    <3>. QED
      BY RatesUsed DEF parts
  <2>2. RatesEvidence(c) \subseteq S
    BY DEF EvidenceOf
  <2> HIDE DEF d, S
  <2>. QED
    BY <2>1, <2>2
<1> HIDE DEF a, b, d, S
<1>5. a \o b \in Seq(S) /\ ToSet(a \o b) = ToSet(a) \cup ToSet(b)
  BY <1>2, <1>3, ConcatFacts
<1>6. (a \o b) \o d \in Seq(S) /\ ToSet((a \o b) \o d) = ToSet(a \o b) \cup ToSet(d)
  <2> DEFINE ab == a \o b
  <2>1. ab \in Seq(S) /\ d \in Seq(S)
    BY <1>4, <1>5
  <2> HIDE DEF ab
  <2>2. ab \o d \in Seq(S) /\ ToSet(ab \o d) = ToSet(ab) \cup ToSet(d)
    BY <2>1, ConcatFacts
  <2>. QED
    BY <2>2 DEF ab
<1>. QED
  BY <1>1, <1>2, <1>3, <1>4, <1>5, <1>6 DEF EvidenceOf, S

\* The table of evidence holds each piece that the case stands on, once.
LEMMA EvidenceRowsFacts ==
  ASSUME NEW result, TypedCase(result.case), NEW evidence, evidence = EvidenceRows(result)
  PROVE  /\ Array(evidence) /\ OnceEach(evidence)
         /\ ToSet(evidence) = EvidenceOf(result.case)
         /\ \A e \in EvidenceOf(result.case) :
              EvidenceId(evidence, e) \in DOMAIN evidence /\ evidence[EvidenceId(evidence, e)] = e
<1> DEFINE S == EvidenceOf(result.case)
<1>1. EvidenceUses(result) = UsesOf(result.case)
  BY DEF EvidenceUses, UsesOf
<1>2. UsesOf(result.case) \in Seq(S) /\ ToSet(UsesOf(result.case)) = S
  BY UsesAreEvidence
<1>3. evidence = Caching!Fold(0, <<>>, EvidenceUses(result))
  BY DEF EvidenceRows, Caching!Fold, CacheStep, FoldLeft,
         MapThenFoldSet, Caching!MapThenFoldSet, Max, Caching!Top
<1> HIDE DEF S
<1>4. evidence \in Seq(S) /\ OnceEach(evidence) /\ ToSet(evidence) = S
  BY <1>1, <1>2, <1>3, CacheFacts
<1>5. ASSUME NEW e \in S
      PROVE  EvidenceId(evidence, e) \in DOMAIN evidence /\ evidence[EvidenceId(evidence, e)] = e
  <2>1. \E i \in DOMAIN evidence : evidence[i] = e
    BY <1>4 DEF ToSet
  <2>. QED
    BY <2>1 DEF EvidenceId, Fingerprint
<1>6. Array(evidence)
  BY <1>4 DEF Array
<1>. QED
  BY <1>4, <1>5, <1>6 DEF S
-----------------------------------------------------------------------------
(* The rows of a result.                                                   *)

\* Flattening arrays, one for each position of an array, gives an array.
LEMMA FlattenArrays ==
  ASSUME NEW v, Array(v), NEW parts, parts = [i \in DOMAIN v |-> parts[i]],
         \A i \in DOMAIN v : Array(parts[i])
  PROVE  /\ DOMAIN parts = DOMAIN v /\ Len(parts) = Len(v)
         /\ Array(FlattenSeq(parts))
         /\ \A x : x \in ToSet(FlattenSeq(parts)) <=> \E i \in DOMAIN v : x \in ToSet(parts[i])
<1> DEFINE S == UNION {ToSet(parts[i]) : i \in DOMAIN v}
<1>1. ASSUME NEW i \in DOMAIN v PROVE parts[i] \in Seq(S)
  <2>1. ToSet(parts[i]) \subseteq S
    OBVIOUS
  <2> HIDE DEF S
  <2>2. parts[i] \in Seq(ToSet(parts[i]))
    BY DEF Array
  <2>3. PICK T : T = ToSet(parts[i])
    OBVIOUS
  <2>4. \A s \in Seq(T) : s \in Seq(S)
    BY <2>1, <2>3
  <2>. QED
    BY <2>2, <2>3, <2>4
<1>2. \A x : x \in S <=> \E i \in DOMAIN v : x \in ToSet(parts[i])
  OBVIOUS
<1> HIDE DEF S
<1>3. /\ DOMAIN parts = DOMAIN v /\ Len(parts) = Len(v) /\ FlattenSeq(parts) \in Seq(S)
      /\ \A x : x \in ToSet(FlattenSeq(parts)) <=> \E i \in DOMAIN v : x \in ToSet(parts[i])
  BY <1>1, FlattenParts
<1>4. ToSet(FlattenSeq(parts)) = S
  <2> DEFINE F == ToSet(FlattenSeq(parts))
  <2>1. \A x : x \in F <=> x \in S
    BY <1>2, <1>3
  <2> HIDE DEF F
  <2>2. F = S
    BY <2>1
  <2>. QED
    BY <2>2 DEF F
<1>5. Array(FlattenSeq(parts))
  BY <1>3, <1>4 DEF Array
<1>. QED
  BY <1>3, <1>5

\* A record with the id of its evidence keeps its other fields.
LEMMA WithIdFacts ==
  ASSUME NEW r, "evidence" \in DOMAIN r, "evidence_id" \notin DOMAIN r, NEW E,
         NEW w, w = WithEvidenceId(r, E)
  PROVE  /\ DOMAIN w = (DOMAIN r \ {"evidence"}) \cup {"evidence_id"}
         /\ w.evidence_id = EvidenceId(E, r.evidence)
         /\ \A f \in DOMAIN r \ {"evidence"} : w[f] = r[f]
<1> DEFINE D == (DOMAIN r \ {"evidence"})
           u == Without(r, "evidence")
<1>1. DOMAIN u = D /\ \A f \in D : u[f] = r[f]
  BY DEF Without, Restrict
<1>2. w = [f \in D \cup {"evidence_id"} |->
             IF f = "evidence_id" THEN EvidenceId(E, r.evidence) ELSE u[f]]
  BY <1>1 DEF WithEvidenceId, Extended
<1> HIDE DEF u
<1>. QED
  BY <1>1, <1>2

\* The row of an observation, of a claim and of a rate.
LEMMA OfferRow ==
  ASSUME NEW o, DOMAIN o = ObservationFields, NEW E, NEW w, w = ObservationRow(o, E)
  PROVE  /\ DOMAIN w = (ObservationFields \ {"evidence"}) \cup {"evidence_id"}
         /\ w.evidence_id = EvidenceId(E, o.evidence)
         /\ w.unit_price = StoredPrice(o.unit_price)
         /\ \A f \in ObservationFields \ {"evidence", "unit_price"} : w[f] = o[f]
<1>1. "evidence" \in DOMAIN o /\ "evidence_id" \notin DOMAIN o
  BY DEF ObservationFields
<1>2. PICK u : u = WithEvidenceId(o, E)
  OBVIOUS
<1>3. /\ DOMAIN u = (ObservationFields \ {"evidence"}) \cup {"evidence_id"}
      /\ u.evidence_id = EvidenceId(E, o.evidence)
      /\ \A f \in ObservationFields \ {"evidence"} : u[f] = o[f]
  BY <1>1, <1>2, WithIdFacts
<1>4. w = [u EXCEPT !["unit_price"] = StoredPrice(u["unit_price"])]
  BY <1>2 DEF ObservationRow
<1>5. "unit_price" \in DOMAIN u /\ u.unit_price = o.unit_price
  BY <1>3 DEF ObservationFields
<1>6. /\ DOMAIN w = DOMAIN u /\ w.unit_price = StoredPrice(u.unit_price)
      /\ \A f \in DOMAIN u \ {"unit_price"} : w[f] = u[f]
  BY <1>4, <1>5
<1>. QED
  BY <1>3, <1>5, <1>6

LEMMA ClaimRow ==
  ASSUME NEW k, DOMAIN k = ClaimFields, NEW E, NEW w, w = WithEvidenceId(k, E)
  PROVE  /\ DOMAIN w = (ClaimFields \ {"evidence"}) \cup {"evidence_id"}
         /\ w.evidence_id = EvidenceId(E, k.evidence)
         /\ \A f \in ClaimFields \ {"evidence"} : w[f] = k[f]
<1>1. "evidence" \in DOMAIN k /\ "evidence_id" \notin DOMAIN k
  BY DEF ClaimFields
<1>. QED
  BY <1>1, WithIdFacts

LEMMA RateRow ==
  ASSUME NEW fx, DOMAIN fx = RateFields, NEW E, NEW s, NEW w, w = FXRateRow(s, fx, E)
  PROVE  /\ DOMAIN w = (RateFields \ {"evidence"}) \cup {"evidence_id", "scenario"}
         /\ w.evidence_id = EvidenceId(E, fx.evidence) /\ w.scenario = s.name
         /\ w.rate = StoredRate(fx.rate)
         /\ \A f \in RateFields \ {"evidence", "rate"} : w[f] = fx[f]
<1>1. PICK v : v = WithEvidenceId(fx, E)
  OBVIOUS
<1>2. /\ DOMAIN v = (RateFields \ {"evidence"}) \cup {"evidence_id"}
      /\ v.evidence_id = EvidenceId(E, fx.evidence)
      /\ \A f \in RateFields \ {"evidence"} : v[f] = fx[f]
  BY <1>1, WithIdFacts DEF RateFields
<1>3. PICK u : u = [v EXCEPT !["rate"] = StoredRate(v["rate"])]
  OBVIOUS
<1>4. "rate" \in DOMAIN v /\ v.rate = fx.rate
  BY <1>2 DEF RateFields
<1>5. /\ DOMAIN u = DOMAIN v /\ u.rate = StoredRate(fx.rate)
      /\ \A f \in DOMAIN v \ {"rate"} : u[f] = v[f]
  BY <1>3, <1>4
<1>6. w = [f \in DOMAIN u \cup {"scenario"} |-> IF f = "scenario" THEN s.name ELSE u[f]]
  BY <1>1, <1>3 DEF FXRateRow, Extended
<1>7. DOMAIN u = (RateFields \ {"evidence"}) \cup {"evidence_id"} /\ u.evidence_id = v.evidence_id
      /\ \A f \in RateFields \ {"evidence", "rate"} : u[f] = fx[f]
  BY <1>2, <1>5 DEF RateFields
<1>. QED
  BY <1>2, <1>5, <1>6, <1>7 DEF RateFields

\* The rows of the rates, in no order that matters.
LEMMA RateRows ==
  ASSUME NEW c, TypedCase(c), NEW E, NEW table, table = FXRateRows(c, E)
  PROVE  /\ Array(table)
         /\ \A r : r \in ToSet(table) <=>
              \E i \in DOMAIN c.scenarios : \E j \in DOMAIN c.scenarios[i].fx_rates :
                r = FXRateRow(c.scenarios[i], c.scenarios[i].fx_rates[j], E)
<1> DEFINE v == c.scenarios
           parts == [i \in DOMAIN v |->
                       [j \in DOMAIN v[i].fx_rates |-> FXRateRow(v[i], v[i].fx_rates[j], E)]]
<1>1. table = FlattenSeq(parts)
  BY DEF FXRateRows
<1>2. PICK p : p = parts
  OBVIOUS
<1>3. p = [i \in DOMAIN v |-> p[i]]
  BY <1>2
<1>4. ASSUME NEW i \in DOMAIN v
      PROVE  /\ Array(p[i])
             /\ ToSet(p[i]) = {FXRateRow(v[i], v[i].fx_rates[j], E) : j \in DOMAIN v[i].fx_rates}
  <2>1. p[i] = [j \in DOMAIN v[i].fx_rates |-> FXRateRow(v[i], v[i].fx_rates[j], E)]
    BY <1>2
  <2>2. Array(v[i].fx_rates)
    BY DEF TypedCase, TypedScenario
  <2>3. PICK n \in Nat : DOMAIN v[i].fx_rates = 1 .. n
    BY <2>2, ArrayFacts
  <2>4. PICK w : w = p[i]
    OBVIOUS
  <2>5. w = [j \in 1 .. n |-> w[j]]
    BY <2>1, <2>3, <2>4
  <2>. QED
    BY <2>1, <2>4, <2>5, ArrayOf DEF ToSet
<1>5. Array(v)
  BY DEF TypedCase
<1> HIDE DEF parts, v
<1>6. /\ Array(FlattenSeq(p))
      /\ \A x : x \in ToSet(FlattenSeq(p)) <=> \E i \in DOMAIN v : x \in ToSet(p[i])
  BY <1>3, <1>4, <1>5, FlattenArrays
<1>7. \A x : x \in ToSet(FlattenSeq(p)) <=>
        \E i \in DOMAIN v : x \in {FXRateRow(v[i], v[i].fx_rates[j], E) : j \in DOMAIN v[i].fx_rates}
  BY <1>4, <1>6
<1>. QED
  BY <1>1, <1>2, <1>6, <1>7 DEF v

\* What the tables of a result hold, given the rows of evidence.
Tables(t, result, text, E) ==
  /\ t.evidence = E
  /\ t.observations = [i \in DOMAIN result.case.observations |->
                         ObservationRow(result.case.observations[i], E)]
  /\ t.claims = [i \in DOMAIN result.case.supplier_identity_claims |->
                   WithEvidenceId(result.case.supplier_identity_claims[i], E)]
  /\ t.fx_rates = FXRateRows(result.case, E)
  /\ t.matches = result.matches /\ t.rankings = result.rankings
  /\ t.scenarios = [i \in DOMAIN result.scenarios |-> ScenarioRow(result.scenarios[i])]
  /\ t.components = ComponentRows(result)
  /\ t.notes = NoteRows(result.case)
  /\ t.validation = ValidationRow(result.validation)
  /\ t.issues = result.validation.issues /\ t.case_id = result.case.case_id
  /\ t.report = text

LEMMA RowsOf ==
  ASSUME NEW result, NEW text
  PROVE  Tables(ResultRows(result, text), result, text, EvidenceRows(result))
  BY DEF ResultRows, Tables

LEMMA RowArrays ==
  ASSUME NEW result, TypedCase(result.case), NEW text, NEW t, t = ResultRows(result, text)
  PROVE  Array(t.observations) /\ Array(t.claims) /\ Array(t.fx_rates) /\ Array(t.evidence)
<1>1. PICK E : E = EvidenceRows(result)
  OBVIOUS
<1>0. Tables(t, result, text, E)
  BY <1>1, RowsOf
<1> DEFINE os == result.case.observations
           ks == result.case.supplier_identity_claims
<1>2. PICK m \in Nat, n \in Nat : DOMAIN os = 1 .. m /\ DOMAIN ks = 1 .. n
  BY ArrayFacts DEF TypedCase
<1>3. PICK a : a = t.observations
  OBVIOUS
<1>4. PICK b : b = t.claims
  OBVIOUS
<1>5. a = [i \in 1 .. m |-> a[i]] /\ b = [i \in 1 .. n |-> b[i]]
  <2>1. a = [i \in DOMAIN os |-> ObservationRow(os[i], E)]
        /\ b = [i \in DOMAIN ks |-> WithEvidenceId(ks[i], E)]
    BY <1>0, <1>3, <1>4 DEF Tables
  <2> HIDE DEF os, ks
  <2>. QED
    BY <1>2, <2>1
<1>6. Array(a) /\ Array(b)
  BY <1>5, ArrayOf
<1>7. t.fx_rates = FXRateRows(result.case, E) /\ t.evidence = EvidenceRows(result)
  BY <1>0, <1>1 DEF Tables
<1>8. Array(t.fx_rates)
  BY <1>7, RateRows
<1>9. Array(t.evidence)
  BY <1>7, EvidenceRowsFacts
<1>. QED
  BY <1>3, <1>4, <1>6, <1>8, <1>9
-----------------------------------------------------------------------------
(* Who uses a row of evidence.                                             *)

UsersOf(table, id) == {i \in DOMAIN table : table[i].evidence_id = id}

\* Rows with keys of their own are as many usages as rows.
LEMMA UsagesOfTable ==
  ASSUME NEW table, Array(table), NEW key, key = [i \in DOMAIN table |-> key[i]],
         \A i, j \in DOMAIN table : i # j => key[i] # key[j],
         NEW id, NEW U, U = {key[i] : i \in UsersOf(table, id)}
  PROVE  IsFiniteSet(U) /\ Cardinality(U) = UsesIn(table, id) /\ UsesIn(table, id) \in Nat
<1> DEFINE I == UsersOf(table, id)
           f == [i \in I |-> key[i]]
<1>1. I \in SUBSET DOMAIN table /\ IsFiniteSet(DOMAIN table)
  BY ArrayFacts DEF UsersOf
<1>2. IsFiniteSet(I)
  BY <1>1, FS_Subset
<1>3. PICK g, V : /\ g = [i \in I |-> g[i]] /\ V = {g[i] : i \in I} /\ V = U
                  /\ \A x, y \in I : g[x] = g[y] => x = y
  <2>1. f = [i \in I |-> f[i]] /\ U = {f[i] : i \in I} /\ \A x, y \in I : f[x] = f[y] => x = y
    BY <1>1
  <2>. QED
    BY <2>1
<1>4. UsesIn(table, id) = Cardinality(I)
  BY DEF UsesIn, UsersOf
<1> HIDE DEF I, f
<1>5. IsFiniteSet(V) /\ Cardinality(V) = Cardinality(I)
  BY <1>2, <1>3, ImageOf
<1>6. Cardinality(I) \in Nat
  BY <1>2, FS_CardinalityType
<1>. QED
  BY <1>3, <1>4, <1>5, <1>6

LEMMA DisjointUnion ==
  ASSUME NEW S, IsFiniteSet(S), NEW T, IsFiniteSet(T), S \cap T = {}
  PROVE  IsFiniteSet(S \cup T) /\ Cardinality(S \cup T) = Cardinality(S) + Cardinality(T)
<1>1. Cardinality(S \cap T) = 0
  BY FS_EmptySet
<1>2. Cardinality(S) \in Nat /\ Cardinality(T) \in Nat
  BY FS_CardinalityType
<1>3. IsFiniteSet(S \cup T)
      /\ Cardinality(S \cup T) = Cardinality(S) + Cardinality(T) - Cardinality(S \cap T)
  BY FS_Union
<1>. QED
  BY <1>1, <1>2, <1>3

\* The catalog lists as many usages of a row as the freshness counts.
LEMMA UsagesCounted ==
  ASSUME NEW t, Array(t.observations), Array(t.claims), Array(t.fx_rates),
         ObservationsFit(t.observations), ClaimsFit(t.claims), FXRatesFit(t.fx_rates), NEW id
  PROVE  Cardinality(Usages(t, id)) = UsageCount(t, id)
<1> DEFINE a == [i \in DOMAIN t.observations |-> <<"PRICE_OBSERVATION", t.observations[i].observation_id>>]
           b == [i \in DOMAIN t.claims |-> <<"SUPPLIER_IDENTITY_CLAIM", t.claims[i].claim_id>>]
           d == [i \in DOMAIN t.fx_rates |-> <<"FX_RATE", FXUsage(t.fx_rates[i])>>]
           A == {a[i] : i \in UsersOf(t.observations, id)}
           B == {b[i] : i \in UsersOf(t.claims, id)}
           D == {d[i] : i \in UsersOf(t.fx_rates, id)}
<1>1. Usages(t, id) = (A \cup B) \cup D
  <2>1. {<<"PRICE_OBSERVATION", o.observation_id>> :
           o \in {r \in ToSet(t.observations) : r.evidence_id = id}} = A
    BY DEF UsersOf, ToSet
  <2>2. {<<"SUPPLIER_IDENTITY_CLAIM", c.claim_id>> :
           c \in {r \in ToSet(t.claims) : r.evidence_id = id}} = B
    BY DEF UsersOf, ToSet
  <2>3. {<<"FX_RATE", FXUsage(r)>> : r \in {q \in ToSet(t.fx_rates) : q.evidence_id = id}} = D
    BY DEF UsersOf, ToSet
  <2> HIDE DEF A, B, D
  <2>. QED
    BY <2>1, <2>2, <2>3 DEF Usages
<1>2. IsFiniteSet(A) /\ Cardinality(A) = UsesIn(t.observations, id)
      /\ UsesIn(t.observations, id) \in Nat
  <2>1. a = [i \in DOMAIN t.observations |-> a[i]]
        /\ \A i, j \in DOMAIN t.observations : i # j => a[i] # a[j]
    BY DEF ObservationsFit, Distinct
  <2> HIDE DEF a
  <2>. QED
    BY <2>1, UsagesOfTable
<1>3. IsFiniteSet(B) /\ Cardinality(B) = UsesIn(t.claims, id) /\ UsesIn(t.claims, id) \in Nat
  <2>1. b = [i \in DOMAIN t.claims |-> b[i]]
        /\ \A i, j \in DOMAIN t.claims : i # j => b[i] # b[j]
    BY DEF ClaimsFit, Distinct
  <2> HIDE DEF b
  <2>. QED
    BY <2>1, UsagesOfTable
<1>4. IsFiniteSet(D) /\ Cardinality(D) = UsesIn(t.fx_rates, id) /\ UsesIn(t.fx_rates, id) \in Nat
  <2>1. d = [i \in DOMAIN t.fx_rates |-> d[i]]
        /\ \A i, j \in DOMAIN t.fx_rates : i # j => d[i] # d[j]
    <3>1. \A i, j \in DOMAIN t.fx_rates : i # j => FXUsage(t.fx_rates[i]) # FXUsage(t.fx_rates[j])
      BY DEF FXRatesFit, Distinct, FXUsage
    <3>. QED
      BY <3>1
  <2> HIDE DEF d
  <2>. QED
    BY <2>1, UsagesOfTable
<1>5. A \cap B = {} /\ (A \cup B) \cap D = {}
  <2>1. \A i \in UsersOf(t.observations, id) : a[i][1] = "PRICE_OBSERVATION"
    BY DEF UsersOf
  <2>2. \A i \in UsersOf(t.claims, id) : b[i][1] = "SUPPLIER_IDENTITY_CLAIM"
    BY DEF UsersOf
  <2>3. \A i \in UsersOf(t.fx_rates, id) : d[i][1] = "FX_RATE"
    BY DEF UsersOf
  <2> HIDE DEF a, b, d
  <2>4. /\ \A x \in A : x[1] = "PRICE_OBSERVATION"
        /\ \A x \in B : x[1] = "SUPPLIER_IDENTITY_CLAIM"
        /\ \A x \in D : x[1] = "FX_RATE"
    BY <2>1, <2>2, <2>3
  <2> HIDE DEF A, B, D
  <2>. QED
    BY <2>4
<1> HIDE DEF A, B, D
<1>6. IsFiniteSet(A \cup B) /\ Cardinality(A \cup B) = Cardinality(A) + Cardinality(B)
  BY <1>2, <1>3, <1>5, DisjointUnion
<1>7. Cardinality((A \cup B) \cup D) = Cardinality(A \cup B) + Cardinality(D)
  <2> DEFINE AB == A \cup B
  <2>1. IsFiniteSet(AB) /\ AB \cap D = {}
    BY <1>5, <1>6
  <2> HIDE DEF AB
  <2>2. Cardinality(AB \cup D) = Cardinality(AB) + Cardinality(D)
    BY <1>4, <2>1, DisjointUnion
  <2>. QED
    BY <2>2 DEF AB
<1>. QED
  BY <1>1, <1>2, <1>3, <1>4, <1>6, <1>7 DEF UsageCount

\* No row of evidence is without a usage.
LEMMA EveryRowUsed ==
  ASSUME NEW result, TypedCase(result.case), RecordedCase(result.case),
         NEW text, NEW t, t = ResultRows(result, text), NEW id \in DOMAIN t.evidence
  PROVE  Usages(t, id) # {}
<1> DEFINE c == result.case
<1>1. PICK E : E = EvidenceRows(result)
  OBVIOUS
<1>2. Tables(t, result, text, E)
  BY <1>1, RowsOf
<1>3. t.evidence = E
  BY <1>2 DEF Tables
<1>4. /\ OnceEach(E) /\ E[id] \in EvidenceOf(c)
      /\ EvidenceId(E, E[id]) \in DOMAIN E /\ E[EvidenceId(E, E[id])] = E[id]
  <2>1. OnceEach(E) /\ ToSet(E) = EvidenceOf(c)
        /\ \A e \in EvidenceOf(c) : EvidenceId(E, e) \in DOMAIN E /\ E[EvidenceId(E, e)] = e
    BY <1>1, EvidenceRowsFacts
  <2>2. E[id] \in ToSet(E)
    BY <1>3 DEF ToSet
  <2>. QED
    BY <2>1, <2>2
<1>5. EvidenceId(E, E[id]) = id
  BY <1>3, <1>4 DEF OnceEach
<1>6. CASE E[id] \in OffersEvidence(c)
  <2>1. PICK i \in DOMAIN c.observations : c.observations[i].evidence = E[id]
    BY <1>6 DEF OffersEvidence, ToSet
  <2>2. t.observations = [j \in DOMAIN c.observations |-> ObservationRow(c.observations[j], E)]
    BY <1>2 DEF Tables
  <2>3. t.observations[i] \in ToSet(t.observations)
        /\ t.observations[i] = ObservationRow(c.observations[i], E)
    BY <2>2 DEF ToSet
  <2>4. DOMAIN c.observations[i] = ObservationFields
    BY DEF RecordedCase, RecordedOffer
  <2>5. t.observations[i].evidence_id = EvidenceId(E, c.observations[i].evidence)
    BY <2>3, <2>4, OfferRow
  <2>6. t.observations[i].evidence_id = id
    BY <1>5, <2>1, <2>5
  <2>. QED
    BY <2>3, <2>6 DEF Usages
<1>7. CASE E[id] \in ClaimsEvidence(c)
  <2>1. PICK i \in DOMAIN c.supplier_identity_claims :
           c.supplier_identity_claims[i].evidence = E[id]
    BY <1>7 DEF ClaimsEvidence, ToSet
  <2>2. t.claims = [j \in DOMAIN c.supplier_identity_claims |->
                      WithEvidenceId(c.supplier_identity_claims[j], E)]
    BY <1>2 DEF Tables
  <2>3. t.claims[i] \in ToSet(t.claims)
        /\ t.claims[i] = WithEvidenceId(c.supplier_identity_claims[i], E)
    BY <2>2 DEF ToSet
  <2>4. t.claims[i].evidence_id = id
    BY <1>5, <2>1, <2>3, ClaimRow DEF RecordedCase, RecordedClaim
  <2>. QED
    BY <2>3, <2>4 DEF Usages
<1>8. CASE E[id] \in RatesEvidence(c)
  <2>1. PICK i \in DOMAIN c.scenarios : \E j \in DOMAIN c.scenarios[i].fx_rates :
           c.scenarios[i].fx_rates[j].evidence = E[id]
    BY <1>8 DEF RatesEvidence, ToSet
  <2>2. PICK j \in DOMAIN c.scenarios[i].fx_rates : c.scenarios[i].fx_rates[j].evidence = E[id]
    BY <2>1
  <2>3. PICK r : r = FXRateRow(c.scenarios[i], c.scenarios[i].fx_rates[j], E)
    OBVIOUS
  <2>4. t.fx_rates = FXRateRows(c, E)
    BY <1>2 DEF Tables
  <2>5. r \in ToSet(t.fx_rates)
    BY <2>3, <2>4, RateRows
  <2>6. r.evidence_id = id
    BY <1>5, <2>2, <2>3, RateRow DEF RecordedCase, RecordedRate
  <2>. QED
    BY <2>5, <2>6 DEF Usages
<1>. QED
  BY <1>4, <1>6, <1>7, <1>8 DEF EvidenceOf

\* What is known of a stored run.
LEMMA StoredFacts ==
  ASSUME EvaluationInv, RecordInv, stage = "stored"
  PROVE  /\ TypedCase(case) /\ ScenariosComplete(case) /\ RecordedCase(case)
         /\ rows = ResultRows(Result, report) /\ RowsFit(rows) /\ Persistable
         /\ Result.case = case /\ Result.validation = validation /\ Result.matches = matches
         /\ Result.rankings = rankings /\ Result.scenarios = scenarios
         /\ report = RenderMarkdown(Result)
         /\ stage \in Placed /\ stage \in Compared /\ stage \in Validated
<1>1. stage \in Validated /\ stage \in Placed /\ stage \in Compared
  BY DEF Validated, Checked, Parsed, Placed, Compared
<1>2. stage \in Rendered
  BY DEF Rendered
<1>3. rows = ResultRows(Result, report) /\ RowsFit(rows) /\ Persistable
  BY DEF RecordInv, RowsKept, Rows
<1>4. report = RenderMarkdown(Result)
  BY <1>2 DEF RecordInv, ReportKept
<1>. QED
  BY <1>1, <1>3, <1>4, CaseRecorded DEF Result

LEMMA CatalogExplains ==
  ASSUME EvaluationInv, RecordInv, stage = "stored", NEW id \in DOMAIN rows.evidence
  PROVE  /\ EvidenceCatalog(rows)[id] # {}
         /\ Cardinality(EvidenceCatalog(rows)[id])
              = StoredFreshness(rows).items[rows.evidence[id]].usage_count
<1>1. PICK R : R = Result
  OBVIOUS
<1>2. /\ TypedCase(R.case) /\ RecordedCase(R.case) /\ rows = ResultRows(R, report)
      /\ RowsFit(rows)
  BY <1>1, StoredFacts
<1>3. EvidenceCatalog(rows)[id] = Usages(rows, id)
  BY DEF EvidenceCatalog
<1>4. Usages(rows, id) # {}
  BY <1>2, EveryRowUsed
<1>5. Cardinality(Usages(rows, id)) = UsageCount(rows, id)
  BY <1>2, RowArrays, UsagesCounted DEF RowsFit
<1>6. StoredFreshness(rows).items[rows.evidence[id]].usage_count = UsageCount(rows, id)
  <2> DEFINE IdOf(e) == CHOOSE k \in DOMAIN rows.evidence : rows.evidence[k] = e
             usage == [e \in ToSet(rows.evidence) |-> UsageCount(rows, IdOf(e))]
             at == rows.validation.evaluated_at
  <2>1. rows.evidence[id] \in ToSet(rows.evidence)
    BY DEF ToSet
  <2>2. IdOf(rows.evidence[id]) = id
    BY <1>2 DEF RowsFit, EvidenceFits, Distinct, Fingerprint
  <2>3. StoredFreshness(rows) = EvidenceFreshness(usage, at)
    BY DEF StoredFreshness
  <2>4. usage[rows.evidence[id]] = UsageCount(rows, id) /\ DOMAIN usage = ToSet(rows.evidence)
    BY <2>1, <2>2
  <2> HIDE DEF usage, at
  <2>5. EvidenceFreshness(usage, at).items[rows.evidence[id]].usage_count = usage[rows.evidence[id]]
    BY <2>1, <2>4 DEF EvidenceFreshness
  <2>. QED
    BY <2>3, <2>4, <2>5
<1>. QED
  BY <1>3, <1>4, <1>5, <1>6

\* Every row of evidence is there for a usage, and the catalog and the freshness view
\* count the same usages (list_evidence_catalog, get_evidence_freshness).
THEOREM CatalogAndFreshnessAgree == Spec => []CatalogExplainsFreshness
<1>1. EvaluationInv /\ RecordInv => CatalogExplainsFreshness
  BY CatalogExplains DEF CatalogExplainsFreshness
<1>. QED
  BY <1>1, EvaluationHolds, RecordHolds, PTL
-----------------------------------------------------------------------------
(* The views and the validation.                                           *)

LEMMA SomeCounted ==
  ASSUME NEW S, IsFiniteSet(S), NEW T \in SUBSET S
  PROVE  Cardinality(T) > 0 <=> T # {}
<1>1. IsFiniteSet(T)
  BY FS_Subset
<1>2. Cardinality(T) \in Nat /\ (Cardinality(T) = 0 <=> T = {})
  BY <1>1, FS_CardinalityType, FS_EmptySet
<1>. QED
  BY <1>2

LEMMA StatusOfAge ==
  ASSUME NEW age \in Int
  PROVE  /\ FreshnessStatus(age) = "STALE" <=> age > MaxEvidenceAge
         /\ FreshnessStatus(age) = "FUTURE_DATED" <=> age < -MaxFutureClockSkew
  BY DEF FreshnessStatus, MaxEvidenceAge, MaxFutureClockSkew

\* The freshness counts an age where some of the evidence used has it.
LEMMA FreshnessCounts ==
  ASSUME NEW usage, IsFiniteSet(DOMAIN usage), NEW at \in Int,
         \A e \in DOMAIN usage : e.retrieved_at \in Int
  PROVE  /\ EvidenceFreshness(usage, at).counts["STALE"] > 0
              <=> \E e \in DOMAIN usage : IsStale(e, at)
         /\ EvidenceFreshness(usage, at).counts["FUTURE_DATED"] > 0
              <=> \E e \in DOMAIN usage : IsFuture(e, at)
<1> DEFINE S == DOMAIN usage
           aged(status) == {e \in S : FreshnessStatus(at - e.retrieved_at) = status}
           items == [e \in DOMAIN usage |->
                      [age |-> at - e.retrieved_at, usage_count |-> usage[e],
                       freshness_status |-> FreshnessStatus(at - e.retrieved_at)]]
           with(status) == Count(DOMAIN items, LAMBDA e : items[e].freshness_status = status)
<1>1. \A status : with(status) = Cardinality(aged(status))
  <2> TAKE status
  <2>1. {e \in DOMAIN items : items[e].freshness_status = status} = aged(status)
    OBVIOUS
  <2> HIDE DEF items, aged
  <2>. QED
    BY <2>1 DEF Count, Quantify
<1>2. EvidenceFreshness(usage, at).counts["STALE"] = with("STALE")
      /\ EvidenceFreshness(usage, at).counts["FUTURE_DATED"] = with("FUTURE_DATED")
  BY DEF EvidenceFreshness
<1>3. \A status : Cardinality(aged(status)) > 0 <=> aged(status) # {}
  <2> TAKE status
  <2>1. PICK T \in SUBSET S : T = aged(status)
    OBVIOUS
  <2>. QED
    BY <2>1, SomeCounted
<1>4. \A e \in S : at - e.retrieved_at \in Int
  OBVIOUS
<1>5. aged("STALE") # {} <=> \E e \in S : IsStale(e, at)
  <2>1. \A e \in S : FreshnessStatus(at - e.retrieved_at) = "STALE" <=> IsStale(e, at)
    BY <1>4, StatusOfAge DEF IsStale
  <2>. QED
    BY <2>1
<1>6. aged("FUTURE_DATED") # {} <=> \E e \in S : IsFuture(e, at)
  <2>1. \A e \in S : FreshnessStatus(at - e.retrieved_at) = "FUTURE_DATED" <=> IsFuture(e, at)
    BY <1>4, StatusOfAge DEF IsFuture
  <2>. QED
    BY <2>1
<1> HIDE DEF aged, with, items
<1>. QED
  BY <1>1, <1>2, <1>3, <1>5, <1>6

LEMMA EvidenceIsDated ==
  ASSUME NEW c, RecordedCase(c), NEW e \in EvidenceOf(c)
  PROVE  e.retrieved_at \in Int
<1>1. CASE e \in OffersEvidence(c)
  <2>1. PICK i \in DOMAIN c.observations : e = c.observations[i].evidence
    BY <1>1 DEF OffersEvidence, ToSet
  <2>. QED
    BY <2>1 DEF RecordedCase, RecordedOffer
<1>2. CASE e \in ClaimsEvidence(c)
  <2>1. PICK i \in DOMAIN c.supplier_identity_claims : e = c.supplier_identity_claims[i].evidence
    BY <1>2 DEF ClaimsEvidence, ToSet
  <2>. QED
    BY <2>1 DEF RecordedCase, RecordedClaim
<1>3. CASE e \in RatesEvidence(c)
  <2>1. PICK i \in DOMAIN c.scenarios : \E j \in DOMAIN c.scenarios[i].fx_rates :
           e = c.scenarios[i].fx_rates[j].evidence
    BY <1>3 DEF RatesEvidence, ToSet
  <2>. QED
    BY <2>1 DEF RecordedCase, RecordedRate
<1>. QED
  BY <1>1, <1>2, <1>3 DEF EvidenceOf

\* The status of the gaps follows the disposition, unless nothing was raised.
LEMMA GapsFollow ==
  ASSUME NEW issues, IsFiniteSet(issues), Graded(issues), issues # {}, NEW unknowns
  PROVE  DataGaps(issues, unknowns).status =
           IF HasError(issues) THEN "GAPS_REQUIRE_HUMAN_REVIEW" ELSE "GAPS_REQUIRE_VERIFICATION"
<1> DEFINE errors == Cardinality({i \in issues : i.severity = "ERROR"})
           warnings == Cardinality({i \in issues : i.severity = "WARNING"})
<1>1. DataGaps(issues, unknowns).status =
        (IF errors > 0 THEN "GAPS_REQUIRE_HUMAN_REVIEW"
         ELSE IF warnings > 0 \/ DOMAIN unknowns # {} THEN "GAPS_REQUIRE_VERIFICATION"
         ELSE "NO_RECORDED_GAPS")
  BY DEF DataGaps, Count, Quantify
<1>2. errors > 0 <=> HasError(issues)
  <2>1. PICK T \in SUBSET issues : T = {i \in issues : i.severity = "ERROR"}
    OBVIOUS
  <2>2. Cardinality(T) > 0 <=> T # {}
    BY SomeCounted
  <2>. QED
    BY <2>1, <2>2 DEF HasError
<1>3. ~HasError(issues) => warnings > 0
  <2>1. PICK T \in SUBSET issues : T = {i \in issues : i.severity = "WARNING"}
    OBVIOUS
  <2>2. Cardinality(T) > 0 <=> T # {}
    BY SomeCounted
  <2>3. ~HasError(issues) => T # {}
    BY <2>1 DEF HasError, Graded
  <2>. QED
    BY <2>1, <2>2, <2>3
<1> HIDE DEF errors, warnings
<1>. QED
  BY <1>1, <1>2, <1>3

LEMMA ViewsAgree ==
  ASSUME EvaluationInv, RecordInv, stage = "stored"
  PROVE  /\ StoredFreshness(rows).counts["STALE"] > 0 <=> Raised("STALE_EVIDENCE")
         /\ StoredFreshness(rows).counts["FUTURE_DATED"] > 0 <=> Raised("FUTURE_DATED_EVIDENCE")
         /\ StoredDataGaps(rows).status
              = (CASE validation.disposition = "PASSED" -> "NO_RECORDED_GAPS"
                   [] validation.disposition = "NEEDS_VERIFICATION" -> "GAPS_REQUIRE_VERIFICATION"
                   [] validation.disposition = "NEEDS_HUMAN_REVIEW" -> "GAPS_REQUIRE_HUMAN_REVIEW")
<1>1. PICK R : R = Result
  OBVIOUS
<1>2. /\ TypedCase(case) /\ RecordedCase(case) /\ rows = ResultRows(R, report)
      /\ R.case = case /\ R.validation = validation
      /\ stage \in Placed /\ stage \in Validated
  BY <1>1, StoredFacts
<1>3. PICK E : E = EvidenceRows(R)
  OBVIOUS
<1>4. Tables(rows, R, report, E)
  BY <1>2, <1>3, RowsOf
<1>5. /\ rows.evidence = E /\ rows.issues = validation.issues
      /\ rows.validation.evaluated_at = validation.evaluated_at
  BY <1>2, <1>4 DEF Tables, ValidationRow
<1>6. /\ validation.evaluated_at \in Int
      /\ Dates(validation.issues, EvidenceOf(case), validation.evaluated_at)
  BY <1>2, BundlesAssumption DEF RecordInv, IssuesKept
<1>7. ToSet(E) = EvidenceOf(case) /\ IsFiniteSet(ToSet(E))
  BY <1>2, <1>3, EvidenceRowsFacts, ArrayFacts
<1>8. /\ StoredFreshness(rows).counts["STALE"] > 0
           <=> \E e \in EvidenceOf(case) : IsStale(e, validation.evaluated_at)
      /\ StoredFreshness(rows).counts["FUTURE_DATED"] > 0
           <=> \E e \in EvidenceOf(case) : IsFuture(e, validation.evaluated_at)
  <2> DEFINE IdOf(e) == CHOOSE k \in DOMAIN rows.evidence : rows.evidence[k] = e
             usage == [e \in ToSet(rows.evidence) |-> UsageCount(rows, IdOf(e))]
             at == rows.validation.evaluated_at
  <2>1. StoredFreshness(rows) = EvidenceFreshness(usage, at)
    BY DEF StoredFreshness
  <2>2. DOMAIN usage = EvidenceOf(case) /\ at = validation.evaluated_at
    BY <1>5, <1>7
  <2> HIDE DEF usage, at
  <2>3. \A e \in DOMAIN usage : e.retrieved_at \in Int
    BY <1>2, <2>2, EvidenceIsDated
  <2>4. /\ EvidenceFreshness(usage, at).counts["STALE"] > 0
             <=> \E e \in DOMAIN usage : IsStale(e, at)
        /\ EvidenceFreshness(usage, at).counts["FUTURE_DATED"] > 0
             <=> \E e \in DOMAIN usage : IsFuture(e, at)
    BY <1>6, <1>7, <2>2, <2>3, FreshnessCounts
  <2>. QED
    BY <2>1, <2>2, <2>4
<1>9. /\ Raised("STALE_EVIDENCE")
           <=> \E e \in EvidenceOf(case) : IsStale(e, validation.evaluated_at)
      /\ Raised("FUTURE_DATED_EVIDENCE")
           <=> \E e \in EvidenceOf(case) : IsFuture(e, validation.evaluated_at)
  BY <1>6 DEF Raised, Dates, Coded
<1>10. /\ IsFiniteSet(validation.issues) /\ Graded(validation.issues)
       /\ validation.disposition = Disposition(validation.issues)
       /\ validation.disposition # "PASSED"
  <2>1. IsValidation(validation) /\ validation.disposition # "PASSED"
    BY <1>2 DEF EvaluationInv, Concerned, RankingsRecorded
  <2>2. validation.disposition = Disposition(validation.issues)
    BY <2>1, VerdictFields DEF IsValidation
  <2>. QED
    BY <1>6, <2>1, <2>2 DEF IsValidation, Dates
<1>11. validation.issues # {}
       /\ validation.disposition = IF HasError(validation.issues) THEN "NEEDS_HUMAN_REVIEW"
                                   ELSE "NEEDS_VERIFICATION"
  BY <1>10 DEF Disposition, HasError
<1>12. StoredDataGaps(rows).status = IF HasError(validation.issues)
                                     THEN "GAPS_REQUIRE_HUMAN_REVIEW"
                                     ELSE "GAPS_REQUIRE_VERIFICATION"
  BY <1>5, <1>10, <1>11, GapsFollow DEF StoredDataGaps
<1>13. StoredDataGaps(rows).status
         = (CASE validation.disposition = "PASSED" -> "NO_RECORDED_GAPS"
              [] validation.disposition = "NEEDS_VERIFICATION" -> "GAPS_REQUIRE_VERIFICATION"
              [] validation.disposition = "NEEDS_HUMAN_REVIEW" -> "GAPS_REQUIRE_HUMAN_REVIEW")
  BY <1>11, <1>12
<1>. QED
  BY <1>8, <1>9, <1>13

\* The freshness counts stale and future evidence exactly when the validation raised
\* it, and the status of the gaps is that of the disposition (evidence_freshness.py and
\* data_gaps.py against validate_research_case).
THEOREM ViewsFollowValidation == Spec => []ViewsAgreeWithValidation
<1>1. EvaluationInv /\ RecordInv => ViewsAgreeWithValidation
  BY ViewsAgree DEF ViewsAgreeWithValidation
<1>. QED
  BY <1>1, EvaluationHolds, RecordHolds, PTL
-----------------------------------------------------------------------------
(* The constraints of the tables.                                          *)

\* The elements of a sequence have keys of their own.
Keyed(s, key) == \A i, j \in DOMAIN s : i # j => key[s[i]] # key[s[j]]

LEMMA JoinKeyed ==
  ASSUME NEW S, NEW s \in Seq(S), NEW t \in Seq(S), NEW key, Keyed(s, key), Keyed(t, key),
         \A x \in ToSet(s), y \in ToSet(t) : key[x] # key[y]
  PROVE  Keyed(s \o t, key)
<1>1. PICK m \in Nat, n \in Nat : /\ m = Len(s) /\ DOMAIN s = 1 .. m
                                  /\ n = Len(t) /\ DOMAIN t = 1 .. n
  OBVIOUS
<1> DEFINE u == s \o t
<1>2. DOMAIN u = 1 .. m + n
      /\ \A i \in 1 .. m + n : u[i] = IF i <= m THEN s[i] ELSE t[i - m]
  BY <1>1
<1> HIDE DEF u
<1>3. \A i \in 1 .. m + n : IF i <= m THEN i \in 1 .. m ELSE i - m \in 1 .. n
  OBVIOUS
<1>4. ASSUME NEW i \in 1 .. m + n, NEW j \in 1 .. m + n, i <= m, ~(j <= m)
      PROVE  key[u[i]] # key[u[j]]
  <2>1. u[i] \in ToSet(s) /\ u[j] \in ToSet(t)
    BY <1>1, <1>2, <1>3, <1>4 DEF ToSet
  <2>. QED
    BY <2>1
<1>5. ASSUME NEW i \in 1 .. m + n, NEW j \in 1 .. m + n, i # j, i <= m, j <= m
      PROVE  key[u[i]] # key[u[j]]
  BY <1>1, <1>2, <1>3, <1>5 DEF Keyed
<1>6. ASSUME NEW i \in 1 .. m + n, NEW j \in 1 .. m + n, i # j, ~(i <= m), ~(j <= m)
      PROVE  key[u[i]] # key[u[j]]
  <2>1. PICK a \in 1 .. n, b \in 1 .. n : a = i - m /\ b = j - m /\ a # b
    BY <1>3, <1>6
  <2>2. u[i] = t[a] /\ u[j] = t[b]
    BY <1>2, <1>6, <2>1
  <2>3. key[t[a]] # key[t[b]]
    BY <1>1, <2>1 DEF Keyed
  <2>. QED
    BY <2>2, <2>3
<1>7. ASSUME NEW i \in DOMAIN u, NEW j \in DOMAIN u, i # j
      PROVE  key[u[i]] # key[u[j]]
  <2>1. i \in 1 .. m + n /\ j \in 1 .. m + n
    BY <1>2
  <2>2. CASE i <= m /\ j <= m
    BY <1>5, <1>7, <2>1, <2>2
  <2>3. CASE i <= m /\ ~(j <= m)
    BY <1>4, <2>1, <2>3
  <2>4. CASE ~(i <= m) /\ j <= m
    BY <1>4, <2>1, <2>4
  <2>5. CASE ~(i <= m) /\ ~(j <= m)
    BY <1>6, <1>7, <2>1, <2>5
  <2>. QED
    BY <2>2, <2>3, <2>4, <2>5
<1>. QED
  BY <1>7 DEF Keyed, u

\* Parts whose elements have keys of their own, and no two parts a key in common, are
\* joined to a sequence whose elements have keys of their own.
LEMMA FlattenKeyed ==
  ASSUME NEW v, Array(v), NEW parts, parts = [i \in DOMAIN v |-> parts[i]], NEW key,
         \A i \in DOMAIN v : Array(parts[i]) /\ Keyed(parts[i], key),
         \A i, j \in DOMAIN v : i # j =>
           \A x \in ToSet(parts[i]), y \in ToSet(parts[j]) : key[x] # key[y]
  PROVE  Keyed(FlattenSeq(parts), key)
<1> DEFINE S == UNION {ToSet(parts[i]) : i \in DOMAIN v}
<1>1. ASSUME NEW i \in DOMAIN v PROVE parts[i] \in Seq(S)
  <2>1. ToSet(parts[i]) \subseteq S
    OBVIOUS
  <2> HIDE DEF S
  <2>2. parts[i] \in Seq(ToSet(parts[i]))
    BY DEF Array
  <2>3. PICK T : T = ToSet(parts[i])
    OBVIOUS
  <2>4. \A s \in Seq(T) : s \in Seq(S)
    BY <2>1, <2>3
  <2>. QED
    BY <2>2, <2>3, <2>4
<1>2. PICK n \in Nat : n = Len(v) /\ DOMAIN v = 1 .. n
  BY ArrayFacts
<1> HIDE DEF S
<1>3. DOMAIN parts = DOMAIN v /\ Len(parts) = Len(v) /\ parts \in Seq(Seq(S))
  BY <1>1, FlattenParts
<1> HIDE DEF S
<1>8. PICK p \in Seq(Seq(S)) : p = parts
  BY <1>3
<1>4. PICK c \in [0 .. n -> Seq(S)] :
        /\ c[0] = <<>> /\ \A k \in 0 .. n - 1 : c[k + 1] = c[k] \o parts[k + 1]
        /\ FlattenSeq(parts) = c[n]
  <2>1. n = Len(p)
    BY <1>2, <1>3, <1>8
  <2>2. JoinedUp(p, S, n)
    BY <2>1, FlattenChain
  <2>. QED
    BY <1>8, <2>2 DEF JoinedUp
<1> DEFINE Done(k) == Keyed(c[k], key) /\ ToSet(c[k]) = UNION {ToSet(parts[i]) : i \in 1 .. k}
           G == {k \in 0 .. n : Done(k)}
<1>5. 0 \in G
  <2>1. ToSet(<<>>) = {} /\ 1 .. 0 = {} /\ DOMAIN <<>> = {}
    BY DEF ToSet
  <2>. QED
    BY <1>4, <2>1 DEF Keyed
<1>6. ASSUME NEW k \in 0 .. n - 1, k \in G PROVE k + 1 \in G
  <2>1. k + 1 \in 1 .. n /\ 1 .. k + 1 = (1 .. k) \cup {k + 1} /\ k \in 0 .. n
        /\ k + 1 \in 0 .. n /\ 1 .. k \subseteq 1 .. n /\ k + 1 \notin 1 .. k
    BY <1>2
  <2>2. parts[k + 1] \in Seq(S) /\ Keyed(parts[k + 1], key)
    BY <1>1, <1>2, <2>1
  <2>3. c[k] \in Seq(S) /\ Keyed(c[k], key)
        /\ ToSet(c[k]) = UNION {ToSet(parts[i]) : i \in 1 .. k}
    BY <1>6, <2>1
  <2>4. \A x \in ToSet(c[k]), y \in ToSet(parts[k + 1]) : key[x] # key[y]
    <3>1. ASSUME NEW x \in ToSet(c[k]), NEW y \in ToSet(parts[k + 1]) PROVE key[x] # key[y]
      <4>1. PICK i \in 1 .. k : x \in ToSet(parts[i])
        BY <2>3
      <4>2. i \in DOMAIN v /\ k + 1 \in DOMAIN v /\ i # k + 1
        BY <1>2, <2>1
      <4>. QED
        BY <4>1, <4>2
    <3>. QED
      BY <3>1
  <2>5. Keyed(c[k] \o parts[k + 1], key)
        /\ ToSet(c[k] \o parts[k + 1]) = ToSet(c[k]) \cup ToSet(parts[k + 1])
    <3>1. PICK a \in Seq(S), b \in Seq(S) : a = c[k] /\ b = parts[k + 1]
      BY <2>2, <2>3
    <3>2. Keyed(a, key) /\ Keyed(b, key) /\ \A x \in ToSet(a), y \in ToSet(b) : key[x] # key[y]
      BY <2>2, <2>3, <2>4, <3>1
    <3>3. Keyed(a \o b, key) /\ ToSet(a \o b) = ToSet(a) \cup ToSet(b)
      BY <3>2, JoinKeyed, ConcatFacts
    <3>. QED
      BY <3>1, <3>3
  <2>6. c[k + 1] = c[k] \o parts[k + 1]
    BY <1>4
  <2>7. ToSet(c[k + 1]) = UNION {ToSet(parts[i]) : i \in 1 .. k + 1}
    <3>1. ToSet(c[k + 1]) = (UNION {ToSet(parts[i]) : i \in 1 .. k}) \cup ToSet(parts[k + 1])
      BY <2>3, <2>5, <2>6
    <3> DEFINE F(i) == ToSet(parts[i])
    <3>2. UNION {F(i) : i \in 1 .. k + 1} = (UNION {F(i) : i \in 1 .. k}) \cup F(k + 1)
      <4> HIDE DEF F
      <4>. QED
        BY <2>1
    <3>. QED
      BY <3>1, <3>2
  <2>8. Keyed(c[k + 1], key)
    BY <2>5, <2>6
  <2>. QED
    BY <2>1, <2>7, <2>8
<1>7. n \in G
  <2> HIDE DEF G
  <2>1. \A k \in 0 .. n : k \in G
    BY <1>5, <1>6, UpTo
  <2>. QED
    BY <2>1
<1>. QED
  BY <1>4, <1>7

LEMMA EvidenceFit ==
  ASSUME NEW evidence, OnceEach(evidence)
  PROVE  EvidenceFits(evidence)
  BY DEF OnceEach, EvidenceFits, Distinct, Fingerprint

\* What is measured of the texts of an offer.
Measured(o) ==
  {o.unit, o.incoterm, o.incoterm_named_place, o.incoterm_version,
   o.payment_terms, o.payment_method} \cap UnsafeTexts = {}

LEMMA OffersFit ==
  ASSUME NEW c, TypedCase(c), RecordedCase(c), NEW E, NEW table,
         table = [i \in DOMAIN c.observations |-> ObservationRow(c.observations[i], E)]
  PROVE  ObservationsFit(table)
<1> DEFINE v == c.observations
<1>1. ASSUME NEW i \in DOMAIN v
      PROVE  /\ table[i].observation_id = v[i].observation_id
             /\ table[i].quantity > 0 /\ Positive(table[i].minimum_order_quantity)
             /\ Positive(table[i].lead_time_days) /\ Measured(table[i])
  <2>1. RecordedOffer(v[i])
    BY DEF RecordedCase
  <2>2. PICK o : o = v[i]
    OBVIOUS
  <2>3. PICK w : w = ObservationRow(o, E)
    OBVIOUS
  <2>4. \A f \in ObservationFields \ {"evidence", "unit_price"} : w[f] = o[f]
    BY <2>1, <2>2, <2>3, OfferRow DEF RecordedOffer
  <2>5. /\ w.observation_id = o.observation_id /\ w.quantity = o.quantity
        /\ w.minimum_order_quantity = o.minimum_order_quantity
        /\ w.lead_time_days = o.lead_time_days
    BY <2>4 DEF ObservationFields
  <2>6. o.quantity > 0 /\ Positive(o.minimum_order_quantity) /\ Positive(o.lead_time_days)
    BY <2>1, <2>2 DEF RecordedOffer, ObservationAccepted, OptionalPositive, Positive
  <2>7. table[i] = w
    BY <2>2, <2>3
  <2>8. /\ w.unit = o.unit /\ w.incoterm = o.incoterm
        /\ w.incoterm_named_place = o.incoterm_named_place
        /\ w.incoterm_version = o.incoterm_version
        /\ w.payment_terms = o.payment_terms /\ w.payment_method = o.payment_method
    BY <2>4 DEF ObservationFields
  <2>9. Measured(o)
    BY <2>1, <2>2 DEF RecordedOffer, ObservationAccepted, Required, Safe, Measured
  <2>10. Measured(w)
    BY <2>8, <2>9 DEF Measured
  <2>. QED
    BY <2>2, <2>5, <2>6, <2>7, <2>10
<1>2. DOMAIN table = DOMAIN v
      /\ \A i, j \in DOMAIN v : i # j => v[i].observation_id # v[j].observation_id
  BY DEF TypedCase
<1> HIDE DEF v
<1>3. Distinct(table, LAMBDA o : o.observation_id)
  BY <1>1, <1>2 DEF Distinct
<1>. QED
  BY <1>1, <1>2, <1>3 DEF ObservationsFit, Measured

LEMMA ClaimsFitTable ==
  ASSUME NEW c, RecordedCase(c), NEW E, NEW table,
         table = [i \in DOMAIN c.supplier_identity_claims |->
                    WithEvidenceId(c.supplier_identity_claims[i], E)]
  PROVE  ClaimsFit(table)
<1> DEFINE v == c.supplier_identity_claims
<1>1. ASSUME NEW i \in DOMAIN v
      PROVE  table[i].claim_id = v[i].claim_id /\ Identified(table[i])
  <2>1. RecordedClaim(v[i])
    BY DEF RecordedCase
  <2>2. PICK k : k = v[i]
    OBVIOUS
  <2>3. PICK w : w = WithEvidenceId(k, E)
    OBVIOUS
  <2>4. /\ w.claim_id = k.claim_id /\ w.claimed_legal_name = k.claimed_legal_name
        /\ w.jurisdiction = k.jurisdiction /\ w.registration_number = k.registration_number
    BY <2>1, <2>2, <2>3, ClaimRow DEF RecordedClaim, ClaimFields
  <2>5. table[i] = w
    BY <2>2, <2>3
  <2>6. Identified(w)
    BY <2>1, <2>2, <2>4 DEF RecordedClaim, Identified
  <2>. QED
    BY <2>2, <2>4, <2>5, <2>6
<1>2. DOMAIN table = DOMAIN v
      /\ \A i, j \in DOMAIN v : i # j => v[i].claim_id # v[j].claim_id
  BY DEF RecordedCase, UniqueClaims
<1> HIDE DEF v
<1>3. \A i \in DOMAIN table : table[i].claim_id = v[i].claim_id
  BY <1>1, <1>2
<1>4. \A i \in DOMAIN table : Identified(table[i])
  BY <1>1, <1>2
<1>5. Distinct(table, LAMBDA k : k.claim_id)
  BY ONLY <1>2, <1>3 DEF Distinct
<1>. QED
  BY <1>4, <1>5 DEF ClaimsFit, Identified

LEMMA MatchesFitTable ==
  ASSUME NEW c, TypedCase(c)
  PROVE  MatchesFit(Matched(c))
<1> DEFINE v == c.observations
           table == Matched(c)
<1>1. ASSUME NEW i \in DOMAIN v
      PROVE  table[i].score \in 0 .. 100 /\ table[i].observation_id = v[i].observation_id
  <2>1. TypedOffer(v[i])
    BY DEF TypedCase
  <2>2. table[i] = MatchPriceObservation(c, v[i])
    BY DEF Matched
  <2> HIDE DEF v, table
  <2>. QED
    BY <2>1, <2>2, MatchTyped
<1>2. DOMAIN table = DOMAIN v
      /\ \A i, j \in DOMAIN v : i # j => v[i].observation_id # v[j].observation_id
  BY DEF TypedCase, Matched
<1> HIDE DEF v, table
<1>3. Distinct(table, LAMBDA m : m.observation_id)
  BY <1>1, <1>2 DEF Distinct
<1>4. MatchesFit(table)
  BY <1>1, <1>2, <1>3 DEF MatchesFit, Percentage
<1>. QED
  BY <1>4 DEF table

\* A draft has 75 points at most: the other 25 are for the price.
LEMMA DraftWithin ==
  ASSUME NEW c, NEW o, TypedOffer(o), NEW match, match.score \in 0 .. 100
  PROVE  Draft(c, o, match).total_score \in 0 .. 75
<1>1. PICK a \in 0 .. 35 : a = Rounded(35 * match.score, 100)
  <2>1. PICK m \in 0 .. 100 : m = match.score
    OBVIOUS
  <2>2. 35 * m \in Nat /\ 35 * m <= 100 * 35 /\ 100 \in Nat \ {0} /\ 35 \in Nat
    OBVIOUS
  <2>3. Rounded(35 * m, 100) \in 0 .. 35
    BY <2>2, RoundedWithin
  <2>. QED
    BY <2>1, <2>3
<1>2. PICK p \in 0 .. 10, q \in 0 .. 10, r \in 0 .. 10, s \in 0 .. 10 :
        /\ p = ConfidencePoints[o.evidence.confidence]
        /\ q = EvidenceClassPoints[o.evidence.classification]
        /\ r = QuantityScore(c, o) /\ s = TermsScore(o)
  BY PartsWithin
<1>3. Draft(c, o, match).total_score = a + p + q + r + s
  BY <1>1, <1>2 DEF Draft
<1>. QED
  BY <1>3

LEMMA PriceWithin ==
  ASSUME NEW S, Rivals(S), NEW d \in S
  PROVE  PricePoints(S, d) \in 0 .. 25
<1> DEFINE T == {e.normalized_unit_price : e \in S}
<1>1. T \in SUBSET Nat /\ T # {} /\ d.normalized_unit_price \in T
      /\ d.normalized_unit_price \in Nat \ {0}
  BY DEF Rivals, TypedDraft
<1>2. \E n \in T : \A m \in T : n <= m
  <2> HIDE DEF T
  <2>. QED
    BY <1>1, LeastNumber
<1>3. PICK low \in Nat : low = LowestPrice(S) /\ low <= d.normalized_unit_price
  BY <1>1, <1>2 DEF LowestPrice, Min
<1>4. PICK price \in Nat \ {0} : price = d.normalized_unit_price
  BY <1>1
<1>5. PICK n \in Nat : n = 25 * low /\ n <= price * 25
  BY <1>3, <1>4
<1>6. Rounded(n, price) \in 0 .. 25
  BY <1>5, RoundedWithin
<1>. QED
  BY <1>3, <1>4, <1>5, <1>6 DEF PricePoints

\* The rankings of drafts that have 75 points at most.
LEMMA RankingsFitTable ==
  ASSUME NEW draft, Drafted(ToSet(draft)), None \notin Nat,
         \A d \in ToSet(draft) : d.total_score \in 0 .. 75
  PROVE  RankingsFit(Rankings(draft))
<1> DEFINE D == ToSet(draft)
           R == Rankings(draft)
<1>1. ASSUME NEW r \in R
      PROVE  /\ \E d \in D : Kept(r, d)
             /\ r.rankable => r \in Ranked(GroupOf(draft, r.comparison_group))
             /\ r.rank = None <=> ~r.rankable
  BY RankingsFacts
<1>2. ASSUME NEW r \in R, ~r.rankable PROVE r \in D
  <2>1. \A g : \A q \in Ranked(GroupOf(draft, g)) : q.rankable
    BY RankingsFacts
  <2>. QED
    BY <1>2, <2>1 DEF Rankings, Unrankable
<1>3. ASSUME NEW r \in R, r.rankable
      PROVE  r.rank \in Nat \ {0} /\ r.total_score \in 0 .. 100
  <2> DEFINE S == GroupOf(draft, r.comparison_group)
             T == Scored(S)
  <2>1. r \in Ranked(S) /\ Rivals(S)
    BY <1>1, <1>3, GroupRivals
  <2>2. S \subseteq D
    BY DEF GroupOf
  <2> HIDE DEF S, D
  <2>3. r.rank \in Nat \ {0} /\ Ranked(S) = {[x EXCEPT !.rank = Standing(T, x)] : x \in T}
    BY <2>1, RankedKeeps, RankedFacts
  <2>4. PICK x \in T : r = [x EXCEPT !.rank = Standing(T, x)]
    BY <2>1, <2>3
  <2>5. PICK d \in S : x = [d EXCEPT !.total_score = @ + PricePoints(S, d)]
    BY DEF Scored
  <2>6. DOMAIN d = DraftFields
    BY <2>1 DEF Rivals, TypedDraft
  <2>7. x.total_score = d.total_score + PricePoints(S, d) /\ DOMAIN x = DraftFields
    BY <2>5, <2>6 DEF DraftFields
  <2>8. r.total_score = x.total_score
    BY <2>4, <2>7 DEF DraftFields
  <2>9. d.total_score \in 0 .. 75 /\ PricePoints(S, d) \in 0 .. 25
    BY <2>1, <2>2, PriceWithin DEF D
  <2>. QED
    BY <2>3, <2>7, <2>8, <2>9
<1>4. ASSUME NEW r \in R, NEW s \in R, r.observation_id = s.observation_id PROVE r = s
  <2>1. PICK d \in D, e \in D : Kept(r, d) /\ Kept(s, e)
    BY <1>1
  <2>2. /\ r.observation_id = d.observation_id /\ s.observation_id = e.observation_id
        /\ r.rankable = d.rankable /\ s.rankable = e.rankable
        /\ r.comparison_group = d.comparison_group /\ s.comparison_group = e.comparison_group
    BY <2>1 DEF Kept, DraftFields
  <2>3. d = e
    BY <1>4, <2>2 DEF Drafted
  <2>4. CASE ~r.rankable
    <3>1. r \in D /\ s \in D
      BY <1>2, <2>2, <2>3, <2>4
    <3>. QED
      BY <1>4, <3>1 DEF Drafted
  <2>5. CASE r.rankable
    <3> DEFINE S == GroupOf(draft, r.comparison_group)
               T == Scored(S)
    <3>1. r \in Ranked(S) /\ s \in Ranked(S) /\ Rivals(S)
      BY <1>1, <2>2, <2>3, <2>5, GroupRivals
    <3> HIDE DEF S
    <3>2. Ranked(S) = {[x EXCEPT !.rank = Standing(T, x)] : x \in T} /\ Rivals(T)
      BY <3>1, RankedFacts, ScoredRivals
    <3> HIDE DEF T
    <3>3. PICK x \in T, y \in T : /\ r = [x EXCEPT !.rank = Standing(T, x)]
                                  /\ s = [y EXCEPT !.rank = Standing(T, y)]
      BY <3>1, <3>2
    <3>4. DOMAIN x = DraftFields /\ DOMAIN y = DraftFields
      BY <3>2 DEF Rivals, TypedDraft
    <3>5. x.observation_id = r.observation_id /\ y.observation_id = s.observation_id
      BY <3>3, <3>4 DEF DraftFields
    <3>6. x = y
      BY <1>4, <3>2, <3>5 DEF Rivals
    <3>. QED
      BY <3>3, <3>6
  <2>. QED
    BY <2>4, <2>5
<1>5. ASSUME NEW r \in R PROVE Percentage(r.total_score) /\ Positive(r.rank)
  <2>1. CASE r.rankable
    BY <1>3, <2>1 DEF Percentage, Positive
  <2>2. CASE ~r.rankable
    BY <1>1, <1>2, <2>2 DEF Percentage, Positive
  <2>. QED
    BY <2>1, <2>2
<1>. QED
  BY <1>4, <1>5 DEF RankingsFit

LEMMA RankingsOfCaseFit ==
  ASSUME NEW c, TypedCase(c), ScenariosComplete(c), None \notin Nat
  PROVE  RankingsFit(Rankings(Drafts(c, Matched(c))))
<1> DEFINE D == ToSet(Drafts(c, Matched(c)))
<1>1. ASSUME NEW d \in D PROVE d.total_score \in 0 .. 75
  <2>1. PICK i \in DOMAIN c.observations :
          d = Draft(c, c.observations[i], MatchPriceObservation(c, c.observations[i]))
    BY DraftsFacts
  <2>2. PICK o : o = c.observations[i] /\ TypedOffer(o)
    BY DEF TypedCase
  <2>3. MatchPriceObservation(c, o).score \in 0 .. 100
    BY <2>2, MatchTyped
  <2>. QED
    BY <2>1, <2>2, <2>3, DraftWithin
<1>2. Drafted(D)
  BY DraftsFacts
<1>. QED
  BY <1>1, <1>2, RankingsFitTable

LEMMA SeqIsArray ==
  ASSUME NEW S, NEW s \in Seq(S)
  PROVE  Array(s)
<1>1. PICK n \in Nat : s = [i \in 1 .. n |-> s[i]]
  OBVIOUS
<1>. QED
  BY <1>1, ArrayOf

SumStep(p, sum, c) == sum + c.amount

Summing == INSTANCE FoldTheory WITH Op <- SumStep

\* Amounts that are not negative have such a sum.
LEMMA SubtotalNat ==
  ASSUME NEW S, \A x \in S : x.amount \in Nat, NEW s \in Seq(S)
  PROVE  Subtotal(s) \in Nat
<1>1. 0 \in Nat /\ \A a \in Nat, x \in S : SumStep(0, a, x) \in Nat
  BY DEF SumStep
<1>2. Summing!Stepwise(Nat, 0, 0, s)
  BY <1>1, NumbersInduct, Summing!FoldSteps
<1>3. Summing!Fold(0, 0, s) \in Nat
  <2>1. PICK n \in Nat : n = Len(s)
    OBVIOUS
  <2>2. PICK c \in [0 .. Len(s) -> Nat] : Summing!Fold(0, 0, s) = c[Len(s)]
    BY <1>2 DEF Summing!Stepwise
  <2>. QED
    BY <2>1, <2>2
<1>4. Subtotal(s) = Summing!Fold(0, 0, s)
  BY DEF Subtotal, Summing!Fold, SumStep, FoldLeft,
         MapThenFoldSet, Summing!MapThenFoldSet, Max, Summing!Top
<1>. QED
  BY <1>3, <1>4

LEMMA ProductNat ==
  ASSUME NEW a \in Nat, NEW b \in Nat
  PROVE  a * b \in Nat /\ a * b >= 0 /\ a * b \in Int
  OBVIOUS

\* A computable scenario has a price and costs of nothing at least.
LEMMA AmountsNat ==
  ASSUME NEW s, TypedScenario(s), Computable(s), s.purchase_unit_price.amount >= 0
  PROVE  /\ PurchaseTotal(s) \in Nat
         /\ \A i \in DOMAIN s.costs : CostAmount(s, s.costs[i]) \in Nat
<1>1. TypedRates(s.fx_rates)
  BY DEF TypedScenario, TypedRates
<1>2. PICK q \in Nat : q = s.quantity
  BY DEF TypedScenario
<1>3. ASSUME NEW money, money.amount \in Int, money.amount >= 0,
             Converted(money, Target(s), s.fx_rates) # None
      PROVE  Converted(money, Target(s), s.fx_rates) \in Nat
  BY <1>1, <1>3, ConvertedTyped
<1>4. PurchaseTotal(s) \in Nat
  <2>1. PICK p \in Nat : p = Converted(s.purchase_unit_price, Target(s), s.fx_rates)
    BY <1>3 DEF Computable, TypedScenario
  <2>2. PICK m \in Nat, d \in Nat \ {0} :
          m = s.purchase_price_multiplier[1] /\ d = s.purchase_price_multiplier[2]
    BY DEF TypedScenario, PositiveRatio
  <2>3. PICK a \in Nat : a = p * m
    BY ProductNat
  <2>4. PICK b \in Nat : b = a * q
    BY ProductNat
  <2>5. Cents(b, d) \in Nat
    BY CentsInt
  <2>. QED
    BY <1>2, <2>1, <2>2, <2>3, <2>4, <2>5 DEF PurchaseTotal
<1>5. ASSUME NEW i \in DOMAIN s.costs PROVE CostAmount(s, s.costs[i]) \in Nat
  <2>1. PICK cost : cost = s.costs[i]
    OBVIOUS
  <2>2. PICK p \in Nat : p = Converted(cost.money, Target(s), s.fx_rates)
    <3>1. cost.money.amount \in Nat /\ Converted(cost.money, Target(s), s.fx_rates) # None
      BY <2>1 DEF Computable, TypedScenario
    <3>. QED
      BY <1>3, <3>1
  <2>3. PICK m \in Nat, d \in Nat \ {0} : m = s.cost_multiplier[1] /\ d = s.cost_multiplier[2]
    BY DEF TypedScenario, PositiveRatio
  <2>4. PICK a \in Nat : a = IF cost.basis = "PER_UNIT" THEN p * q ELSE p
    BY ProductNat
  <2>5. PICK b \in Nat : b = a * m
    BY ProductNat
  <2>6. Cents(b, d) \in Nat
    BY CentsInt
  <2>7. CostAmount(s, cost) \in Nat
    BY <1>2, <2>2, <2>3, <2>4, <2>5, <2>6 DEF CostAmount
  <2>. QED
    BY <2>1, <2>7
<1>. QED
  BY <1>4, <1>5

\* What the landed cost of a scenario is: no amount of it is negative.
Priced(s, cost) ==
  /\ cost.name = s.name /\ cost.quantity = s.quantity
  /\ Array(cost.components)
  /\ \A i \in DOMAIN cost.components : cost.components[i].amount \in Nat
  /\ cost.total \in Nat /\ cost.per_unit \in Nat

LEMMA CostPriced ==
  ASSUME NEW s, TypedScenario(s), Computable(s), s.purchase_unit_price.amount >= 0
  PROVE  Priced(s, LandedCost(s))
<1> DEFINE first == Component("product_cost", PurchaseTotal(s), "DERIVED_CALCULATION")
           rest == [i \in DOMAIN s.costs |->
                      Component(s.costs[i].code, CostAmount(s, s.costs[i]), s.costs[i].evidence_class)]
           inputs == <<first>> \o rest
           reserve == Component("unexpected_cost",
                                Cents(Subtotal(inputs) * s.unexpected_cost_rate[1],
                                      s.unexpected_cost_rate[2]), "ASSUMPTION")
           contingency == IF s.unexpected_cost_rate[1] = 0 THEN <<>> ELSE <<reserve>>
           components == inputs \o contingency
           A == {first} \cup {rest[i] : i \in DOMAIN s.costs}
           S == A \cup {reserve}
<1>1. PICK n \in Nat : DOMAIN s.costs = 1 .. n
  BY ArrayFacts DEF TypedScenario
<1>2. \A x \in A : x.amount \in Nat
  <2>1. first.amount = PurchaseTotal(s)
        /\ \A j \in DOMAIN s.costs : rest[j].amount = CostAmount(s, s.costs[j])
    BY DEF Component
  <2> HIDE DEF first, rest
  <2>. QED
    BY <2>1, AmountsNat
<1>3. <<first>> \in Seq(A) /\ rest \in Seq(A)
  <2>1. rest \in [1 .. n -> A] /\ first \in A
    BY <1>1
  <2> HIDE DEF rest, first, A
  <2>. QED
    BY <2>1
<1>4. inputs \in Seq(A)
  <2> HIDE DEF rest, first, A
  <2>. QED
    BY <1>3, ConcatFacts
<1>5. Subtotal(inputs) \in Nat
  <2> HIDE DEF inputs, A
  <2>. QED
    BY <1>2, <1>4, SubtotalNat
<1>6. reserve.amount \in Nat
  <2>1. PICK m \in Nat, d \in Nat \ {0} :
          m = s.unexpected_cost_rate[1] /\ d = s.unexpected_cost_rate[2]
    BY DEF TypedScenario
  <2>2. PICK t \in Nat : t = Subtotal(inputs)
    BY <1>5
  <2>3. PICK a \in Nat : a = t * m
    BY ProductNat
  <2>4. Cents(a, d) \in Nat
    BY CentsInt
  <2> HIDE DEF inputs
  <2>. QED
    BY <2>1, <2>2, <2>3, <2>4 DEF Component
<1>7. \A x \in S : x.amount \in Nat
  <2> HIDE DEF A, reserve
  <2>. QED
    BY <1>2, <1>6
<1>8. inputs \in Seq(S) /\ contingency \in Seq(S)
  <2>1. A \subseteq S /\ reserve \in S
    OBVIOUS
  <2> HIDE DEF A, S, reserve, inputs
  <2>2. <<>> \in Seq(S) /\ <<reserve>> \in Seq(S)
    BY <2>1
  <2>3. inputs \in Seq(S)
    BY <1>4, <2>1
  <2>. QED
    BY <2>2, <2>3
<1>9. /\ LandedCost(s).components = components
      /\ LandedCost(s).total = Cents(Subtotal(components), 1)
      /\ LandedCost(s).per_unit = Cents(Cents(Subtotal(components), 1), s.quantity)
      /\ LandedCost(s).name = s.name /\ LandedCost(s).quantity = s.quantity
  BY DEF LandedCost
<1> HIDE DEF inputs, contingency, S
<1>10. components \in Seq(S)
  BY <1>8, ConcatFacts
<1> HIDE DEF components
<1>11. Array(components) /\ Subtotal(components) \in Nat
       /\ \A i \in DOMAIN components : components[i].amount \in Nat
  BY <1>7, <1>10, SeqIsArray, SubtotalNat
<1>12. PICK total \in Nat : total = Cents(Subtotal(components), 1)
  BY <1>11, CentsInt
<1>13. PICK q \in Nat \ {0} : q = s.quantity
  BY DEF TypedScenario
<1>14. Cents(total, q) \in Nat
  BY CentsInt
<1>. QED
  BY <1>9, <1>11, <1>12, <1>13, <1>14 DEF Priced

\* As many scenarios as names, and every name given: no two have the same.
LEMMA ScenarioNames ==
  ASSUME NEW c, TypedCase(c), ScenariosComplete(c)
  PROVE  \A i, j \in DOMAIN c.scenarios : i # j => c.scenarios[i].name # c.scenarios[j].name
<1> DEFINE v == c.scenarios
<1>1. PICK n \in Nat : n = Len(v) /\ DOMAIN v = 1 .. n
  BY ArrayFacts DEF TypedCase
<1>2. ScenarioName = {v[k].name : k \in 1 .. n} /\ Cardinality(ScenarioName) = n
  BY <1>1 DEF ScenariosComplete
<1> HIDE DEF v
<1>3. ASSUME NEW i \in 1 .. n, NEW j \in 1 .. n, i # j, v[i].name = v[j].name PROVE FALSE
  <2> DEFINE S == (1 .. n) \ {j}
             f == [k \in S |-> v[k].name]
             T == {f[k] : k \in S}
  <2>1. T = ScenarioName
    <3>1. \A k \in S : f[k] = v[k].name
      OBVIOUS
    <3>2. ASSUME NEW k \in 1 .. n PROVE v[k].name \in T
      <4>1. CASE k = j
        BY <1>3, <3>1, <4>1
      <4>2. CASE k # j
        BY <3>1, <4>2
      <4>. QED
        BY <4>1, <4>2
    <3>3. \A x \in T : \E k \in 1 .. n : x = v[k].name
      OBVIOUS
    <3> HIDE DEF T
    <3>. QED
      BY <1>2, <3>2, <3>3
  <2>2. 1 \in Int /\ n \in Int
    OBVIOUS
  <2>3. IsFiniteSet(1 .. n) /\ Cardinality(1 .. n) = n
    <3>1. IsFiniteSet(1 .. n) /\ Cardinality(1 .. n) = IF 1 > n THEN 0 ELSE n - 1 + 1
      BY <2>2, FS_Interval, Zenon
    <3>. QED
      BY <3>1
  <2>4. IsFiniteSet(S) /\ Cardinality(S) = n - 1
    BY <2>3, FS_RemoveElement
  <2>5. f = [k \in S |-> f[k]]
    OBVIOUS
  <2> HIDE DEF f, S
  <2>6. IsFiniteSet(T) /\ Cardinality(T) <= Cardinality(S)
    BY <2>4, <2>5, ImageSmaller
  <2> HIDE DEF T
  <2>. QED
    BY <1>2, <2>1, <2>4, <2>6
<1>. QED
  BY <1>1, <1>3 DEF v

\* The costs of a case, scenario by scenario.
Costs(costs, c) ==
  /\ costs = [i \in DOMAIN c.scenarios |-> LandedCost(c.scenarios[i])]
  /\ \A i \in DOMAIN c.scenarios : Priced(c.scenarios[i], costs[i])

LEMMA CostsPriced ==
  ASSUME NEW c, TypedCase(c), NEW costs,
         costs = [i \in DOMAIN c.scenarios |-> LandedCost(c.scenarios[i])],
         \A i \in DOMAIN c.scenarios : Computable(c.scenarios[i]),
         \A i \in DOMAIN c.scenarios : c.scenarios[i].purchase_unit_price.amount >= 0
  PROVE  Costs(costs, c)
<1>1. ASSUME NEW i \in DOMAIN c.scenarios PROVE Priced(c.scenarios[i], costs[i])
  <2>1. PICK s : s = c.scenarios[i]
    OBVIOUS
  <2>2. Priced(s, LandedCost(s))
    BY <2>1, CostPriced DEF TypedCase
  <2>3. costs[i] = LandedCost(s)
    BY <2>1
  <2>. QED
    BY <2>1, <2>2, <2>3
<1>. QED
  BY <1>1 DEF Costs

LEMMA CostsAreArray ==
  ASSUME NEW c, TypedCase(c), NEW costs, Costs(costs, c)
  PROVE  Array(costs) /\ DOMAIN costs = DOMAIN c.scenarios
<1>1. PICK n \in Nat : DOMAIN c.scenarios = 1 .. n
  BY ArrayFacts DEF TypedCase
<1>2. PICK v : v = costs
  OBVIOUS
<1>3. v = [i \in 1 .. n |-> v[i]] /\ DOMAIN v = 1 .. n
  BY <1>1, <1>2 DEF Costs
<1>4. Array(v)
  BY <1>3, ArrayOf
<1>. QED
  BY <1>1, <1>2, <1>3, <1>4

LEMMA ScenariosFitTable ==
  ASSUME NEW c, TypedCase(c), ScenariosComplete(c), NEW costs, Costs(costs, c),
         NEW table, table = [i \in DOMAIN costs |-> ScenarioRow(costs[i])]
  PROVE  ScenariosFit(table)
<1>1. DOMAIN costs = DOMAIN c.scenarios
  BY CostsAreArray
<1>2. ASSUME NEW i \in DOMAIN costs
      PROVE  /\ table[i].name = c.scenarios[i].name
             /\ table[i].quantity > 0 /\ table[i].total >= 0 /\ table[i].per_unit >= 0
  <2>1. Priced(c.scenarios[i], costs[i]) /\ c.scenarios[i].quantity \in Nat \ {0}
    BY <1>1 DEF Costs, TypedCase, TypedScenario
  <2>2. table[i] = ScenarioRow(costs[i])
    OBVIOUS
  <2>3. /\ table[i].name = costs[i].name /\ table[i].quantity = costs[i].quantity
        /\ table[i].total = costs[i].total /\ table[i].per_unit = costs[i].per_unit
    BY <2>2 DEF ScenarioRow
  <2>. QED
    BY <2>1, <2>3 DEF Priced
<1>3. DOMAIN table = DOMAIN costs
  OBVIOUS
<1>4. ASSUME NEW i \in DOMAIN costs, NEW j \in DOMAIN costs, i # j
      PROVE  table[i].name # table[j].name
  <2>1. table[i].name = c.scenarios[i].name /\ table[j].name = c.scenarios[j].name
    BY <1>2
  <2>2. c.scenarios[i].name # c.scenarios[j].name
    BY <1>1, <1>4, ScenarioNames
  <2>. QED
    BY <2>1, <2>2
<1>5. Distinct(table, LAMBDA s : s.name)
  BY <1>3, <1>4 DEF Distinct
<1>. QED
  BY <1>2, <1>3, <1>5 DEF ScenariosFit

LEMMA ComponentsFitTable ==
  ASSUME NEW c, TypedCase(c), ScenariosComplete(c), NEW result, Costs(result.scenarios, c),
         CodesDistinct(result)
  PROVE  ComponentsFit(ComponentRows(result))
<1>1. PICK v : v = result.scenarios
  OBVIOUS
<1> DEFINE parts == [i \in DOMAIN v |->
                       [j \in DOMAIN v[i].components |-> ComponentRow(v[i], v[i].components[j])]]
<1>2. ComponentRows(result) = FlattenSeq(parts)
  BY <1>1 DEF ComponentRows
<1>3. Array(v) /\ DOMAIN v = DOMAIN c.scenarios
  BY <1>1, CostsAreArray
<1>4. PICK p : p = parts
  OBVIOUS
<1>5. p = [i \in DOMAIN v |-> p[i]]
  BY <1>4
<1>6. ASSUME NEW i \in DOMAIN v
      PROVE  /\ p[i] = [j \in DOMAIN v[i].components |-> ComponentRow(v[i], v[i].components[j])]
             /\ DOMAIN p[i] = DOMAIN v[i].components /\ Array(p[i])
             /\ \A j \in DOMAIN p[i] : /\ p[i][j].scenario = c.scenarios[i].name
                                       /\ p[i][j].code = v[i].components[j].code
                                       /\ p[i][j].amount \in Nat
             /\ \A j, k \in DOMAIN p[i] : j # k => p[i][j].code # p[i][k].code
  <2>1. Priced(c.scenarios[i], v[i])
    BY <1>1, <1>3 DEF Costs
  <2>2. p[i] = [j \in DOMAIN v[i].components |-> ComponentRow(v[i], v[i].components[j])]
    BY <1>4
  <2>3. PICK n \in Nat : DOMAIN v[i].components = 1 .. n
    BY <2>1, ArrayFacts DEF Priced
  <2>4. PICK w : w = p[i]
    OBVIOUS
  <2>5. w = [j \in 1 .. n |-> w[j]] /\ DOMAIN w = 1 .. n
    BY <2>2, <2>3, <2>4
  <2>6. Array(w)
    BY <2>5, ArrayOf
  <2>7. \A j \in 1 .. n : w[j] = ComponentRow(v[i], v[i].components[j])
    BY <2>2, <2>3, <2>4
  <2>8. \A j \in 1 .. n : /\ w[j].scenario = v[i].name
                          /\ w[j].code = v[i].components[j].code
                          /\ w[j].amount = v[i].components[j].amount
    <3>1. \A s, x : /\ ComponentRow(s, x).scenario = s.name
                    /\ ComponentRow(s, x).code = x.code /\ ComponentRow(s, x).amount = x.amount
      BY DEF ComponentRow
    <3>. QED
      BY <2>7, <3>1
  <2>9. \A j, k \in 1 .. n : j # k => v[i].components[j].code # v[i].components[k].code
    BY <1>1, <2>3 DEF CodesDistinct, Distinct
  <2>10. v[i].name = c.scenarios[i].name /\ \A j \in 1 .. n : v[i].components[j].amount \in Nat
    BY <2>1, <2>3 DEF Priced
  <2>11. \A j \in 1 .. n : /\ w[j].scenario = c.scenarios[i].name
                           /\ w[j].code = v[i].components[j].code /\ w[j].amount \in Nat
    BY <2>8, <2>10
  <2>12. \A j, k \in 1 .. n : j # k => w[j].code # w[k].code
    BY <2>8, <2>9
  <2>. QED
    BY <2>2, <2>3, <2>4, <2>5, <2>6, <2>11, <2>12
<1> HIDE DEF parts
<1>7. PICK table : table = FlattenSeq(p)
  OBVIOUS
<1>8. /\ Array(table)
      /\ \A x : x \in ToSet(table) <=> \E i \in DOMAIN v : x \in ToSet(p[i])
  BY <1>3, <1>5, <1>6, <1>7, FlattenArrays
<1> DEFINE key == [x \in ToSet(table) |-> <<x.scenario, x.code>>]
<1>9. ASSUME NEW i \in DOMAIN v, NEW x \in ToSet(p[i])
      PROVE  /\ key[x] = <<x.scenario, x.code>> /\ x.scenario = c.scenarios[i].name
             /\ x.amount \in Nat
  <2>1. x \in ToSet(table)
    BY <1>8
  <2>2. PICK j \in DOMAIN p[i] : x = p[i][j]
    BY DEF ToSet
  <2>. QED
    BY <1>6, <2>1, <2>2
<1>10. ASSUME NEW i \in DOMAIN v PROVE Array(p[i]) /\ Keyed(p[i], key)
  <2>1. \A j \in DOMAIN p[i] : p[i][j] \in ToSet(p[i])
    BY DEF ToSet
  <2>2. \A j \in DOMAIN p[i] : key[p[i][j]] = <<p[i][j].scenario, p[i][j].code>>
    BY <1>9, <2>1
  <2> HIDE DEF key
  <2>3. ASSUME NEW j \in DOMAIN p[i], NEW k \in DOMAIN p[i], j # k
        PROVE  key[p[i][j]] # key[p[i][k]]
    <3>1. p[i][j].code # p[i][k].code
      BY <1>6, <2>3
    <3>. QED
      BY <2>2, <3>1
  <2>. QED
    BY <1>6, <2>3 DEF Keyed
<1>11. ASSUME NEW i \in DOMAIN v, NEW j \in DOMAIN v, i # j,
              NEW x \in ToSet(p[i]), NEW y \in ToSet(p[j])
       PROVE  key[x] # key[y]
  <2>1. x.scenario # y.scenario
    <3>1. x.scenario = c.scenarios[i].name /\ y.scenario = c.scenarios[j].name
      BY <1>9
    <3>2. c.scenarios[i].name # c.scenarios[j].name
      BY <1>3, <1>11, ScenarioNames
    <3> HIDE DEF key
    <3>. QED
      BY <3>1, <3>2
  <2>2. key[x] = <<x.scenario, x.code>> /\ key[y] = <<y.scenario, y.code>>
    BY <1>9
  <2> HIDE DEF key
  <2>. QED
    BY <2>1, <2>2
<1>12. \A i \in DOMAIN table : key[table[i]] = <<table[i].scenario, table[i].code>>
  BY DEF ToSet
<1> HIDE DEF key
<1>13. Keyed(table, key)
  BY <1>3, <1>5, <1>7, <1>10, <1>11, FlattenKeyed
<1>14. \A i, j \in DOMAIN table :
         i # j => <<table[i].scenario, table[i].code>> # <<table[j].scenario, table[j].code>>
  BY <1>12, <1>13 DEF Keyed
<1>15. \A i \in DOMAIN table : table[i].amount \in Nat
  <2>1. \A i \in DOMAIN table : table[i] \in ToSet(table)
    BY DEF ToSet
  <2>. QED
    BY <1>8, <1>9, <2>1
<1>16. ComponentsFit(table)
  BY <1>14, <1>15 DEF ComponentsFit, Distinct
<1>. QED
  BY <1>2, <1>4, <1>7, <1>16

\* No rate of the case is so small that its column keeps a 0.
RatesRemain(c) ==
  \A i \in DOMAIN c.scenarios : \A j \in DOMAIN c.scenarios[i].fx_rates :
    StoredRate(c.scenarios[i].fx_rates[j].rate)[1] > 0

LEMMA RatesFitTable ==
  ASSUME NEW c, TypedCase(c), ScenariosComplete(c), RecordedCase(c), RatesRemain(c), NEW E
  PROVE  FXRatesFit(FXRateRows(c, E))
<1>1. PICK v : v = c.scenarios
  OBVIOUS
<1> DEFINE parts == [i \in DOMAIN v |->
                       [j \in DOMAIN v[i].fx_rates |-> FXRateRow(v[i], v[i].fx_rates[j], E)]]
           RowKey(x) == <<x.scenario, x.base_currency, x.quote_currency, x.rate_type,
                          x.effective_at>>
<1>2. FXRateRows(c, E) = FlattenSeq(parts)
  BY <1>1 DEF FXRateRows
<1>3. Array(v)
  BY <1>1 DEF TypedCase
<1>4. PICK p : p = parts
  OBVIOUS
<1>5. p = [i \in DOMAIN v |-> p[i]]
  BY <1>4
<1>6. ASSUME NEW i \in DOMAIN v
      PROVE  /\ DOMAIN p[i] = DOMAIN v[i].fx_rates /\ Array(p[i])
             /\ \A j \in DOMAIN p[i] :
                  /\ p[i][j].scenario = v[i].name /\ p[i][j].rate[1] > 0
                  /\ RateKey(p[i][j]) = RateKey(v[i].fx_rates[j])
  <2>1. Array(v[i].fx_rates)
    BY <1>1 DEF TypedCase, TypedScenario
  <2>2. p[i] = [j \in DOMAIN v[i].fx_rates |-> FXRateRow(v[i], v[i].fx_rates[j], E)]
    BY <1>4
  <2>3. PICK n \in Nat : DOMAIN v[i].fx_rates = 1 .. n
    BY <2>1, ArrayFacts
  <2>4. PICK w : w = p[i]
    OBVIOUS
  <2>5. w = [j \in 1 .. n |-> w[j]] /\ DOMAIN w = 1 .. n
    BY <2>2, <2>3, <2>4
  <2>6. Array(w)
    BY <2>5, ArrayOf
  <2>7. ASSUME NEW j \in 1 .. n
        PROVE  /\ w[j].scenario = v[i].name /\ w[j].rate[1] > 0
               /\ RateKey(w[j]) = RateKey(v[i].fx_rates[j])
    <3>1. PICK fx : fx = v[i].fx_rates[j]
      OBVIOUS
    <3>2. PICK x : x = FXRateRow(v[i], fx, E)
      OBVIOUS
    <3>3. DOMAIN fx = RateFields /\ StoredRate(fx.rate)[1] > 0
      BY <1>1, <2>3, <3>1 DEF RecordedCase, RecordedRate, RatesRemain
    <3>4. /\ x.scenario = v[i].name /\ x.rate = StoredRate(fx.rate)
          /\ \A f \in RateFields \ {"evidence", "rate"} : x[f] = fx[f]
      BY <3>2, <3>3, RateRow
    <3>5. /\ x.base_currency = fx.base_currency
          /\ x.quote_currency = fx.quote_currency /\ x.rate_type = fx.rate_type
          /\ x.effective_at = fx.effective_at
      BY <3>4 DEF RateFields
    <3>6. w[j] = x
      BY <2>2, <2>3, <2>4, <3>1, <3>2
    <3>. QED
      BY <3>1, <3>3, <3>4, <3>5, <3>6 DEF RateKey
  <2>. QED
    BY <2>3, <2>4, <2>5, <2>6, <2>7
<1> HIDE DEF parts
<1>7. PICK table : table = FlattenSeq(p)
  OBVIOUS
<1>8. /\ Array(table)
      /\ \A x : x \in ToSet(table) <=> \E i \in DOMAIN v : x \in ToSet(p[i])
  BY <1>3, <1>5, <1>6, <1>7, FlattenArrays
<1> DEFINE key == [x \in ToSet(table) |-> RowKey(x)]
<1>9. ASSUME NEW i \in DOMAIN v, NEW x \in ToSet(p[i])
      PROVE  key[x] = RowKey(x) /\ x.scenario = v[i].name /\ x.rate[1] > 0
  <2>1. x \in ToSet(table)
    BY <1>8
  <2>2. PICK j \in DOMAIN p[i] : x = p[i][j]
    BY DEF ToSet
  <2>. QED
    BY <1>6, <2>1, <2>2
<1>10. ASSUME NEW i \in DOMAIN v PROVE Array(p[i]) /\ Keyed(p[i], key)
  <2>1. \A j \in DOMAIN p[i] : p[i][j] \in ToSet(p[i])
    BY DEF ToSet
  <2>2. \A j \in DOMAIN p[i] : key[p[i][j]] = RowKey(p[i][j])
    BY <1>9, <2>1
  <2>3. \A j, k \in DOMAIN v[i].fx_rates :
          j # k => RateKey(v[i].fx_rates[j]) # RateKey(v[i].fx_rates[k])
    BY <1>1 DEF ScenariosComplete, Distinct
  <2> HIDE DEF key
  <2>4. ASSUME NEW j \in DOMAIN p[i], NEW k \in DOMAIN p[i], j # k
        PROVE  key[p[i][j]] # key[p[i][k]]
    <3>1. RateKey(p[i][j]) # RateKey(p[i][k])
      BY <1>6, <2>3, <2>4
    <3>2. RowKey(p[i][j]) # RowKey(p[i][k])
      BY <3>1 DEF RateKey
    <3>. QED
      BY <2>2, <3>2
  <2>. QED
    BY <1>6, <2>4 DEF Keyed
<1>11. ASSUME NEW i \in DOMAIN v, NEW j \in DOMAIN v, i # j,
              NEW x \in ToSet(p[i]), NEW y \in ToSet(p[j])
       PROVE  key[x] # key[y]
  <2>1. x.scenario # y.scenario
    <3>1. x.scenario = v[i].name /\ y.scenario = v[j].name
      BY <1>9
    <3>2. v[i].name # v[j].name
      BY <1>1, <1>11, ScenarioNames
    <3> HIDE DEF key
    <3>. QED
      BY <3>1, <3>2
  <2>2. key[x] = RowKey(x) /\ key[y] = RowKey(y)
    BY <1>9
  <2> HIDE DEF key
  <2>. QED
    BY <2>1, <2>2
<1>12. \A i \in DOMAIN table : key[table[i]] = RowKey(table[i])
  BY DEF ToSet
<1> HIDE DEF key
<1>13. Keyed(table, key)
  BY <1>3, <1>5, <1>7, <1>10, <1>11, FlattenKeyed
<1>14. Distinct(table, LAMBDA r : <<r.scenario, r.base_currency, r.quote_currency,
                                    r.rate_type, r.effective_at>>)
  BY <1>12, <1>13 DEF Distinct, Keyed
<1>15. \A i \in DOMAIN table : table[i].rate[1] > 0
  <2>1. \A i \in DOMAIN table : table[i] \in ToSet(table)
    BY DEF ToSet
  <2>. QED
    BY <1>8, <1>9, <2>1
<1>16. FXRatesFit(table)
  BY <1>14, <1>15 DEF FXRatesFit
<1>. QED
  BY <1>2, <1>4, <1>7, <1>16

\* A rate vanishes in its column exactly if it is less than half a step of the scale.
LEMMA RateVanishes ==
  ASSUME NEW n \in Nat \ {0}, NEW d \in Nat \ {0}
  PROVE  StoredRate(<<n, d>>)[1] > 0 <=> 2 * (n * RateScale) >= d
<1>1. RateScale \in Nat \ {0}
  BY ScaleAssumption
<1>2. PICK m \in Nat \ {0} : m = n * RateScale
  BY <1>1
<1>3. PICK k \in Nat : k = 2 * m + d
  OBVIOUS
<1>4. PICK b \in Nat \ {0} : b = 2 * d
  OBVIOUS
<1>5. PICK r \in Nat : r = k \div b /\ b * r <= k /\ k < b * r + b
  BY <1>4, DivBounds
<1>6. StoredRate(<<n, d>>)[1] = r
  BY <1>2, <1>3, <1>4, <1>5 DEF StoredRate, Rounded
<1>7. ASSUME r > 0 PROVE 2 * m >= d
  <2>1. b * 1 <= b * r
    BY <1>7, Scaled
  <2>. QED
    BY <1>3, <1>4, <1>5, <2>1
<1>8. ASSUME r = 0 PROVE 2 * m < d
  <2>1. b * r = 0
    BY <1>8
  <2>. QED
    BY <1>3, <1>4, <1>5, <2>1
<1>. QED
  BY <1>2, <1>6, <1>7, <1>8

\* What the application has accepted fits the tables, where they have room for it.
LEMMA RowsAreFit ==
  ASSUME EvaluationInv, RecordInv, stage = "rendered", Persistable, WithinColumns(Rows),
         \A amount \in PurchasePrices : amount >= 0, \A rate \in RatesAsStored : rate > 0
  PROVE  RowsFit(Rows)
<1>0. /\ \A s \in ToSet(case.scenarios) : s.purchase_unit_price.amount >= 0
      /\ RatesRemain(case)
  BY DEF PurchasePrices, RatesAsStored, RatesRemain, ToSet
<1>1. stage \in Validated /\ stage \in Compared /\ stage \in Placed /\ stage \in Costed
  BY DEF Validated, Checked, Parsed, Compared, Placed, Costed
<1>2. TypedCase(case) /\ ScenariosComplete(case) /\ RecordedCase(case)
  BY <1>1, CaseRecorded
<1>3. /\ AllComputable /\ scenarios = [i \in DOMAIN case.scenarios |-> LandedCost(case.scenarios[i])]
      /\ matches = Matched(case) /\ rankings = Rankings(Drafts(case, Matched(case)))
      /\ IsValidation(validation)
  BY <1>1 DEF RecordInv, CostsKept, EvaluationInv, MatchesRecorded, RankingsRecorded, Concerned
<1>4. PICK result : result = Result
  OBVIOUS
<1>5. /\ result.case = case /\ result.validation = validation /\ result.matches = matches
      /\ result.rankings = rankings /\ result.scenarios = scenarios
  BY <1>4 DEF Result
<1>6. PICK E : E = EvidenceRows(result)
  OBVIOUS
<1>7. PICK t : t = ResultRows(result, report)
  OBVIOUS
<1>8. Tables(t, result, report, E)
  BY <1>6, <1>7, RowsOf
<1>9. EvidenceFits(t.evidence)
  <2>1. OnceEach(E) /\ t.evidence = E
    BY <1>2, <1>5, <1>6, <1>8, EvidenceRowsFacts DEF Tables
  <2>. QED
    BY <2>1, EvidenceFit
<1>10. ObservationsFit(t.observations)
  <2>1. PICK table : table = t.observations
    OBVIOUS
  <2>2. table = [i \in DOMAIN case.observations |-> ObservationRow(case.observations[i], E)]
    BY <1>5, <1>8, <2>1 DEF Tables
  <2>. QED
    BY <1>2, <2>1, <2>2, OffersFit
<1>11. MatchesFit(t.matches)
  BY <1>2, <1>3, <1>5, <1>8, MatchesFitTable DEF Tables
<1>12. RankingsFit(t.rankings)
  BY <1>2, <1>3, <1>5, <1>8, RankingsOfCaseFit, BundlesAssumption DEF Tables
<1>13. ClaimsFit(t.claims)
  <2>1. PICK table : table = t.claims
    OBVIOUS
  <2>2. table = [i \in DOMAIN case.supplier_identity_claims |->
                   WithEvidenceId(case.supplier_identity_claims[i], E)]
    BY <1>5, <1>8, <2>1 DEF Tables
  <2>. QED
    BY <1>2, <2>1, <2>2, ClaimsFitTable
<1>14. Costs(scenarios, case)
  <2>1. \A i \in DOMAIN case.scenarios :
          Computable(case.scenarios[i]) /\ case.scenarios[i].purchase_unit_price.amount >= 0
    BY <1>0, <1>3 DEF AllComputable, ToSet
  <2>2. PICK costs : costs = scenarios
    OBVIOUS
  <2>. QED
    BY <1>2, <1>3, <2>1, <2>2, CostsPriced
<1>15. ScenariosFit(t.scenarios)
  <2>1. PICK table : table = t.scenarios
    OBVIOUS
  <2>2. table = [i \in DOMAIN scenarios |-> ScenarioRow(scenarios[i])]
    BY <1>5, <1>8, <2>1 DEF Tables
  <2>. QED
    BY <1>2, <1>14, <2>1, <2>2, ScenariosFitTable
<1>16. ComponentsFit(t.components)
  <2>1. Costs(result.scenarios, case) /\ CodesDistinct(result)
    BY <1>4, <1>5, <1>14 DEF Persistable
  <2>. QED
    BY <1>2, <1>8, <2>1, ComponentsFitTable DEF Tables
<1>17. FXRatesFit(t.fx_rates)
  BY <1>0, <1>2, <1>5, <1>8, RatesFitTable DEF Tables
<1>18. Percentage(t.validation.confidence_score)
  <2>1. t.validation.confidence_score = validation.confidence_score
    BY <1>5, <1>8 DEF Tables, ValidationRow
  <2>2. validation.confidence_score = ConfidenceScore(validation.issues)
    BY <1>3, VerdictFields DEF IsValidation
  <2>3. ConfidenceScore(validation.issues) \in 0 .. 100
    BY <1>3, PenaltyGrows DEF IsValidation
  <2>. QED
    BY <2>1, <2>2, <2>3 DEF Percentage
<1>19. RowsFit(t)
  <2>1. WithinColumns(t)
    BY <1>4, <1>7 DEF Rows
  <2>. QED
    BY <1>9, <1>10, <1>11, <1>12, <1>13, <1>15, <1>16, <1>17, <1>18, <2>1 DEF RowsFit
<1>. QED
  BY <1>4, <1>7, <1>19 DEF Rows

\* Whatever the bundle and the widths and scales of the columns, the database refuses a
\* result that the application has accepted for three reasons only: a value without room
\* in its column, a negative purchase price, a rate that vanishes at the scale of its
\* column.  Keys, checks and measured texts hold of every one (persist_research_result).
THEOREM AcceptedResultsFit == Spec => []DatabaseRefusesNothingElse
<1>1. EvaluationInv /\ RecordInv => DatabaseRefusesNothingElse
  BY RowsAreFit DEF DatabaseRefusesNothingElse
<1>. QED
  BY <1>1, EvaluationHolds, RecordHolds, PTL

-----------------------------------------------------------------------------
(* The report and the views of the rows.                                   *)

\* A row joined with its evidence.
FromRow(j, t, w) ==
  /\ DOMAIN j = (DOMAIN w \ {"evidence_id"}) \cup {"evidence"}
  /\ j = [f \in DOMAIN j |-> j[f]]
  /\ j.evidence = t.evidence[w.evidence_id]
  /\ \A f \in DOMAIN w \ {"evidence_id", "evidence"} : j[f] = w[f]

LEMMA JoinedFacts ==
  ASSUME NEW t, NEW w, "evidence_id" \in DOMAIN w, NEW j, j = Joined(t, w)
  PROVE  FromRow(j, t, w)
<1> DEFINE D == DOMAIN w \ {"evidence_id"}
           u == Without(w, "evidence_id")
<1>1. DOMAIN u = D /\ \A f \in D : u[f] = w[f]
  BY DEF Without, Restrict
<1>2. j = [f \in D \cup {"evidence"} |->
             IF f = "evidence" THEN t.evidence[w.evidence_id] ELSE u[f]]
  BY <1>1 DEF Joined, Extended
<1> HIDE DEF u
<1>. QED
  BY <1>1, <1>2 DEF FromRow

\* The evidence of a row is found again.
Finds(t, E, e) == t.evidence = E /\ E[EvidenceId(E, e)] = e

\* An observation and a rate as their columns keep them.
OfferAtColumn(o) == [o EXCEPT !.unit_price = StoredPrice(@)]

RateAtColumn(fx) == [fx EXCEPT !.rate = StoredRate(@)]

LEMMA OfferAtColumnFacts ==
  ASSUME NEW o, RecordedOffer(o), NEW x, x = OfferAtColumn(o)
  PROVE  /\ x = [f \in ObservationFields |->
                   IF f = "unit_price" THEN StoredPrice(o.unit_price) ELSE o[f]]
         /\ x.unit_price = StoredPrice(o.unit_price)
         /\ \A f \in ObservationFields \ {"unit_price"} : x[f] = o[f]
         /\ Unpriced(x) = Unpriced(o)
<1>1. DOMAIN o = ObservationFields /\ "unit_price" \in ObservationFields
  BY DEF RecordedOffer, ObservationFields
<1>2. x = [o EXCEPT !["unit_price"] = StoredPrice(o["unit_price"])]
  BY DEF OfferAtColumn
<1>3. x = [f \in ObservationFields |->
             IF f = "unit_price" THEN StoredPrice(o.unit_price) ELSE o[f]]
  BY <1>1, <1>2
<1>4. \A f \in ObservationFields \ {"unit_price"} : x[f] = o[f]
  BY <1>3
<1>5. DOMAIN x = ObservationFields /\ x.unit_price = StoredPrice(o.unit_price)
  BY <1>1, <1>3
<1>6. Unpriced(x) = Unpriced(o)
  BY <1>1, <1>4, <1>5 DEF Unpriced
<1>. QED
  BY <1>3, <1>4, <1>5, <1>6

LEMMA UnpricedFacts ==
  ASSUME NEW o, RecordedOffer(o), NEW u, u = Unpriced(o)
  PROVE  \A f \in ObservationFields \ {"unit_price"} : u[f] = o[f]
BY DEF RecordedOffer, Unpriced

\* An observation comes back from its row, with the price that the column keeps.
LEMMA OfferAgain ==
  ASSUME NEW o, RecordedOffer(o), NEW E, NEW t, Finds(t, E, o.evidence)
  PROVE  Joined(t, ObservationRow(o, E)) = OfferAtColumn(o)
<1>1. PICK w : w = ObservationRow(o, E)
  OBVIOUS
<1>2. PICK j : j = Joined(t, w)
  OBVIOUS
<1>3. DOMAIN o = ObservationFields /\ o = [f \in ObservationFields |-> o[f]]
  BY DEF RecordedOffer
<1>4. /\ DOMAIN w = (ObservationFields \ {"evidence"}) \cup {"evidence_id"}
      /\ w.evidence_id = EvidenceId(E, o.evidence)
      /\ w.unit_price = StoredPrice(o.unit_price)
      /\ \A f \in ObservationFields \ {"evidence", "unit_price"} : w[f] = o[f]
  BY <1>1, <1>3, OfferRow
<1>5. /\ DOMAIN j = (DOMAIN w \ {"evidence_id"}) \cup {"evidence"}
      /\ j = [f \in DOMAIN j |-> j[f]]
      /\ j.evidence = t.evidence[w.evidence_id]
      /\ \A f \in DOMAIN w \ {"evidence_id", "evidence"} : j[f] = w[f]
  <2>1. "evidence_id" \in DOMAIN w
    BY <1>4
  <2>2. FromRow(j, t, w)
    BY <1>2, <2>1, JoinedFacts
  <2>. QED
    BY <2>2 DEF FromRow
<1>6. /\ {"evidence", "unit_price"} \subseteq ObservationFields
      /\ "evidence_id" \notin ObservationFields
  BY DEF ObservationFields
<1>7. DOMAIN j = ObservationFields
  BY <1>4, <1>5, <1>6
<1>8. j.evidence = o.evidence /\ j.unit_price = StoredPrice(o.unit_price)
  BY <1>4, <1>5, <1>6 DEF Finds
<1>9. \A f \in ObservationFields \ {"unit_price"} : j[f] = o[f]
  BY <1>4, <1>5, <1>6, <1>8
<1>10. PICK x : x = OfferAtColumn(o)
  OBVIOUS
<1>11. x = [f \in ObservationFields |->
              IF f = "unit_price" THEN StoredPrice(o.unit_price) ELSE o[f]]
  BY <1>10, OfferAtColumnFacts
<1>12. \A f \in ObservationFields :
         j[f] = IF f = "unit_price" THEN StoredPrice(o.unit_price) ELSE o[f]
  BY <1>8, <1>9
<1>13. j = x
  BY <1>5, <1>7, <1>11, <1>12
<1>. QED
  BY <1>1, <1>2, <1>10, <1>13

\* A claim and a rate come back from their rows, the rate with its scenario.
LEMMA ClaimAgain ==
  ASSUME NEW k, RecordedClaim(k), NEW E, NEW t, Finds(t, E, k.evidence),
         NEW j, j = Joined(t, WithEvidenceId(k, E))
  PROVE  \A f \in ClaimFields : j[f] = k[f]
<1>1. PICK w : w = WithEvidenceId(k, E)
  OBVIOUS
<1>2. DOMAIN k = ClaimFields
  BY DEF RecordedClaim
<1>3. /\ DOMAIN w = (ClaimFields \ {"evidence"}) \cup {"evidence_id"}
      /\ w.evidence_id = EvidenceId(E, k.evidence)
      /\ \A f \in ClaimFields \ {"evidence"} : w[f] = k[f]
  BY <1>1, <1>2, ClaimRow
<1>4. PICK x : x = Joined(t, w)
  OBVIOUS
<1>5. /\ x.evidence = t.evidence[w.evidence_id]
      /\ \A f \in DOMAIN w \ {"evidence_id", "evidence"} : x[f] = w[f]
  <2>1. "evidence_id" \in DOMAIN w
    BY <1>3
  <2>2. FromRow(x, t, w)
    BY <1>4, <2>1, JoinedFacts
  <2>. QED
    BY <2>2 DEF FromRow
<1>6. "evidence" \in ClaimFields /\ "evidence_id" \notin ClaimFields
  BY DEF ClaimFields
<1>7. x.evidence = k.evidence
  BY <1>3, <1>5 DEF Finds
<1>8. \A f \in ClaimFields : x[f] = k[f]
  BY <1>3, <1>5, <1>6, <1>7
<1>. QED
  BY <1>1, <1>4, <1>8

LEMMA RateAgain ==
  ASSUME NEW fx, RecordedRate(fx), NEW s, NEW E, NEW t, Finds(t, E, fx.evidence)
  PROVE  Joined(t, FXRateRow(s, fx, E)) = Extended(RateAtColumn(fx), "scenario", s.name)
<1>1. PICK w : w = FXRateRow(s, fx, E)
  OBVIOUS
<1>2. PICK j : j = Joined(t, w)
  OBVIOUS
<1>3. DOMAIN fx = RateFields
  BY DEF RecordedRate
<1>4. /\ DOMAIN w = (RateFields \ {"evidence"}) \cup {"evidence_id", "scenario"}
      /\ w.evidence_id = EvidenceId(E, fx.evidence) /\ w.scenario = s.name
      /\ w.rate = StoredRate(fx.rate)
      /\ \A f \in RateFields \ {"evidence", "rate"} : w[f] = fx[f]
  BY <1>1, <1>3, RateRow
<1>5. /\ DOMAIN j = (DOMAIN w \ {"evidence_id"}) \cup {"evidence"}
      /\ j = [f \in DOMAIN j |-> j[f]]
      /\ j.evidence = t.evidence[w.evidence_id]
      /\ \A f \in DOMAIN w \ {"evidence_id", "evidence"} : j[f] = w[f]
  <2>1. "evidence_id" \in DOMAIN w
    BY <1>4
  <2>2. FromRow(j, t, w)
    BY <1>2, <2>1, JoinedFacts
  <2>. QED
    BY <2>2 DEF FromRow
<1>6. /\ {"evidence", "rate"} \subseteq RateFields
      /\ "evidence_id" \notin RateFields /\ "scenario" \notin RateFields
  BY DEF RateFields
<1>7. DOMAIN j = RateFields \cup {"scenario"}
  BY <1>4, <1>5, <1>6
<1>8. /\ j.evidence = fx.evidence /\ j.scenario = s.name /\ j.rate = StoredRate(fx.rate)
  BY <1>4, <1>5, <1>6 DEF Finds
<1>9. PICK y : y = RateAtColumn(fx)
  OBVIOUS
<1>10. y = [fx EXCEPT !["rate"] = StoredRate(fx["rate"])]
  BY <1>9 DEF RateAtColumn
<1>11. /\ DOMAIN y = RateFields /\ y.rate = StoredRate(fx.rate)
       /\ \A f \in RateFields \ {"rate"} : y[f] = fx[f]
  BY <1>3, <1>6, <1>10
<1>12. PICK x : x = Extended(y, "scenario", s.name)
  OBVIOUS
<1>13. x = [f \in RateFields \cup {"scenario"} |-> IF f = "scenario" THEN s.name ELSE y[f]]
  BY <1>11, <1>12 DEF Extended
<1>14. \A f \in RateFields : j[f] = y[f]
  BY <1>4, <1>5, <1>6, <1>8, <1>11
<1>15. \A f \in RateFields \cup {"scenario"} :
         j[f] = IF f = "scenario" THEN s.name ELSE y[f]
  BY <1>6, <1>8, <1>14
<1>16. j = x
  BY <1>5, <1>7, <1>13, <1>15
<1>. QED
  BY <1>1, <1>2, <1>9, <1>12, <1>16

\* The tables t hold a result R of a case c.
HoldsResult(t, R, c) ==
  /\ TypedCase(c) /\ ScenariosComplete(c) /\ RecordedCase(c)
  /\ R.case = c
  /\ \E text : Tables(t, R, text, EvidenceRows(R))

LEMMA EvidenceFound ==
  ASSUME NEW t, NEW R, NEW c, HoldsResult(t, R, c), NEW E, E = EvidenceRows(R),
         NEW e \in EvidenceOf(c)
  PROVE  Finds(t, E, e)
<1>1. \A x \in EvidenceOf(c) : E[EvidenceId(E, x)] = x
  BY EvidenceRowsFacts DEF HoldsResult
<1>2. t.evidence = E
  BY DEF HoldsResult, Tables
<1>. QED
  BY <1>1, <1>2 DEF Finds

LEMMA ObservationsAgain ==
  ASSUME NEW t, NEW R, NEW c, HoldsResult(t, R, c)
  PROVE  Observations(t) = {OfferAtColumn(o) : o \in ToSet(c.observations)}
<1>1. PICK E : E = EvidenceRows(R)
  OBVIOUS
<1>2. PICK table : table = t.observations
  OBVIOUS
<1>3. table = [i \in DOMAIN c.observations |-> ObservationRow(c.observations[i], E)]
  BY <1>1, <1>2 DEF HoldsResult, Tables
<1>4. DOMAIN table = DOMAIN c.observations
  BY <1>3
<1>5. ASSUME NEW i \in DOMAIN table PROVE Joined(t, table[i]) = OfferAtColumn(c.observations[i])
  <2>1. PICK o : o = c.observations[i]
    OBVIOUS
  <2>2. table[i] = ObservationRow(o, E)
    BY <1>3, <1>4, <2>1
  <2>3. RecordedOffer(o)
    BY <1>4, <2>1 DEF HoldsResult, RecordedCase
  <2>4. o.evidence \in EvidenceOf(c)
    BY <1>4, <2>1 DEF EvidenceOf, OffersEvidence, ToSet
  <2>5. Finds(t, E, o.evidence)
    BY <1>1, <2>4, EvidenceFound
  <2>. QED
    BY <2>1, <2>2, <2>3, <2>5, OfferAgain
<1>6. Observations(t) = {Joined(t, o) : o \in ToSet(table)}
  BY <1>2 DEF Observations
<1>7. {Joined(t, o) : o \in ToSet(table)} = {Joined(t, table[i]) : i \in DOMAIN table}
  BY DEF ToSet
<1>8. {Joined(t, table[i]) : i \in DOMAIN table}
        = {OfferAtColumn(c.observations[i]) : i \in DOMAIN table}
  BY <1>5
<1>9. {OfferAtColumn(c.observations[i]) : i \in DOMAIN c.observations}
        = {OfferAtColumn(o) : o \in ToSet(c.observations)}
  BY DEF ToSet
<1>. QED
  BY <1>4, <1>6, <1>7, <1>8, <1>9

\* The offer o of a case as the views tell it of its row.
LEMMA QuotedAgain ==
  ASSUME NEW t, NEW R, NEW c, HoldsResult(t, R, c)
  PROVE  /\ Quoted(t) = {Unpriced(o) : o \in ToSet(c.observations)}
         /\ \A o \in ToSet(c.observations) :
              /\ RecordedOffer(o)
              /\ Unpriced(OfferAtColumn(o)) = Unpriced(o)
              /\ OfferAtColumn(o).observation_id = o.observation_id
<1>1. \A o \in ToSet(c.observations) : RecordedOffer(o)
  BY DEF HoldsResult, RecordedCase, ToSet
<1>2. ASSUME NEW o \in ToSet(c.observations)
      PROVE  /\ Unpriced(OfferAtColumn(o)) = Unpriced(o)
             /\ OfferAtColumn(o).observation_id = o.observation_id
  <2>1. PICK x : x = OfferAtColumn(o)
    OBVIOUS
  <2>2. /\ \A f \in ObservationFields \ {"unit_price"} : x[f] = o[f]
        /\ Unpriced(x) = Unpriced(o)
    BY <1>1, <2>1, OfferAtColumnFacts
  <2>3. x.observation_id = o.observation_id
    BY <2>2 DEF ObservationFields
  <2>. QED
    BY <2>1, <2>2, <2>3
<1>3. PICK O : O = ToSet(c.observations)
  OBVIOUS
<1>4. Quoted(t) = {Unpriced(x) : x \in {OfferAtColumn(o) : o \in O}}
  BY <1>3, ObservationsAgain DEF Quoted
<1>5. {Unpriced(x) : x \in {OfferAtColumn(o) : o \in O}} = {Unpriced(OfferAtColumn(o)) : o \in O}
  OBVIOUS
<1>6. {Unpriced(OfferAtColumn(o)) : o \in O} = {Unpriced(o) : o \in O}
  BY <1>2, <1>3
<1>. QED
  BY <1>1, <1>2, <1>3, <1>4, <1>5, <1>6

\* What a section of the report comes to at the scale of the columns.
PriceAtColumn(line) == [line EXCEPT !.unit_price = StoredPrice(@)]

LEMMA SectionAtScale ==
  ASSUME NEW told
  PROVE  /\ AtScale("fx_rates", told) = {RateAtColumn(fx) : fx \in told}
         /\ AtScale("prices", told) = {PriceAtColumn(line) : line \in told}
         /\ \A section : section # "fx_rates" /\ section # "prices" => AtScale(section, told) = told
<1>1. AtScale("fx_rates", told) = {RateAtColumn(fx) : fx \in told}
  BY "prices" # "fx_rates" DEF AtScale, RateAtColumn
<1>2. AtScale("prices", told) = {PriceAtColumn(line) : line \in told}
  BY DEF AtScale, PriceAtColumn
<1>3. ASSUME NEW section, section # "fx_rates", section # "prices"
      PROVE  AtScale(section, told) = told
  BY <1>3 DEF AtScale
<1>. QED
  BY <1>1, <1>2, <1>3

LEMMA RateInScenario ==
  ASSUME NEW fx, DOMAIN fx = RateFields, NEW name
  PROVE  RateAtColumn(Extended(fx, "scenario", name))
           = Extended(RateAtColumn(fx), "scenario", name)
<1> DEFINE D == RateFields \cup {"scenario"}
<1>1. PICK x : x = Extended(fx, "scenario", name)
  OBVIOUS
<1>2. x = [f \in D |-> IF f = "scenario" THEN name ELSE fx[f]]
  BY <1>1 DEF Extended
<1>3. PICK y : y = RateAtColumn(fx)
  OBVIOUS
<1>4. y = [f \in RateFields |-> IF f = "rate" THEN StoredRate(fx.rate) ELSE fx[f]]
  BY <1>3 DEF RateAtColumn
<1>5. PICK u : u = RateAtColumn(x)
  OBVIOUS
<1>6. x.rate = fx.rate
  BY <1>2 DEF RateFields
<1>7. u = [f \in D |-> IF f = "rate" THEN StoredRate(fx.rate) ELSE x[f]]
  BY <1>2, <1>5, <1>6 DEF RateAtColumn
<1>8. PICK w : w = Extended(y, "scenario", name)
  OBVIOUS
<1>9. w = [f \in D |-> IF f = "scenario" THEN name ELSE y[f]]
  BY <1>4, <1>8 DEF Extended
<1>10. "scenario" # "rate"
  OBVIOUS
<1>11. \A f \in D : u[f] = w[f]
  BY <1>2, <1>4, <1>7, <1>9, <1>10
<1>12. u = w
  BY <1>7, <1>9, <1>11
<1>. QED
  BY <1>1, <1>3, <1>5, <1>8, <1>12

LEMMA RatesAgain ==
  ASSUME NEW t, NEW R, NEW c, HoldsResult(t, R, c)
  PROVE  StoredFXRates(t) = AtScale("fx_rates", ReportedFXRates(R))
<1>1. PICK E : E = EvidenceRows(R)
  OBVIOUS
<1>2. PICK table : table = t.fx_rates
  OBVIOUS
<1>3. table = FXRateRows(c, E)
  BY <1>1, <1>2 DEF HoldsResult, Tables
<1>4. \A r : r \in ToSet(table) <=>
         \E i \in DOMAIN c.scenarios : \E j \in DOMAIN c.scenarios[i].fx_rates :
           r = FXRateRow(c.scenarios[i], c.scenarios[i].fx_rates[j], E)
  BY <1>3, RateRows DEF HoldsResult
<1> DEFINE Told(i, j) ==
             Extended(RateAtColumn(c.scenarios[i].fx_rates[j]), "scenario", c.scenarios[i].name)
<1>5. ASSUME NEW i \in DOMAIN c.scenarios, NEW j \in DOMAIN c.scenarios[i].fx_rates
      PROVE  Joined(t, FXRateRow(c.scenarios[i], c.scenarios[i].fx_rates[j], E)) = Told(i, j)
  <2>1. PICK fx : fx = c.scenarios[i].fx_rates[j]
    OBVIOUS
  <2>2. RecordedRate(fx)
    BY <2>1 DEF HoldsResult, RecordedCase
  <2>3. fx.evidence \in EvidenceOf(c)
    BY <2>1 DEF EvidenceOf, RatesEvidence, ToSet
  <2>4. Finds(t, E, fx.evidence)
    BY <1>1, <2>3, EvidenceFound
  <2>5. PICK s : s = c.scenarios[i]
    OBVIOUS
  <2>6. Joined(t, FXRateRow(s, fx, E)) = Extended(RateAtColumn(fx), "scenario", s.name)
    BY <2>2, <2>4, RateAgain
  <2>. QED
    BY <2>1, <2>5, <2>6
<1> HIDE DEF Told
<1>6. \A x : x \in StoredFXRates(t) <=>
         \E i \in DOMAIN c.scenarios : \E j \in DOMAIN c.scenarios[i].fx_rates : x = Told(i, j)
  <2>1. \A x : x \in StoredFXRates(t) <=> \E r \in ToSet(table) : x = Joined(t, r)
    BY <1>2 DEF StoredFXRates
  <2>2. ASSUME NEW x, NEW r \in ToSet(table), x = Joined(t, r)
        PROVE  \E i \in DOMAIN c.scenarios : \E j \in DOMAIN c.scenarios[i].fx_rates : x = Told(i, j)
    <3>1. PICK i \in DOMAIN c.scenarios : \E j \in DOMAIN c.scenarios[i].fx_rates :
            r = FXRateRow(c.scenarios[i], c.scenarios[i].fx_rates[j], E)
      BY <1>4
    <3>2. PICK j \in DOMAIN c.scenarios[i].fx_rates :
            r = FXRateRow(c.scenarios[i], c.scenarios[i].fx_rates[j], E)
      BY <3>1
    <3>3. x = Told(i, j)
      BY <1>5, <2>2, <3>2
    <3>. QED
      BY <3>3
  <2>3. ASSUME NEW x, NEW i \in DOMAIN c.scenarios, NEW j \in DOMAIN c.scenarios[i].fx_rates,
               x = Told(i, j)
        PROVE  \E r \in ToSet(table) : x = Joined(t, r)
    <3>1. FXRateRow(c.scenarios[i], c.scenarios[i].fx_rates[j], E) \in ToSet(table)
      BY <1>4
    <3>. QED
      BY <1>5, <2>3, <3>1
  <2>. QED
    BY <2>1, <2>2, <2>3
<1> DEFINE Line(i, j) == Extended(c.scenarios[i].fx_rates[j], "scenario", c.scenarios[i].name)
<1>7. \A x : x \in ReportedFXRates(R) <=>
         \E i \in DOMAIN c.scenarios : \E j \in DOMAIN c.scenarios[i].fx_rates : x = Line(i, j)
  <2>1. R.case = c
    BY DEF HoldsResult
  <2>2. \A x : x \in ReportedFXRates(R) <=>
           \E s \in ToSet(c.scenarios) : \E fx \in ToSet(s.fx_rates) :
             x = Extended(fx, "scenario", s.name)
    BY <2>1 DEF ReportedFXRates
  <2>. QED
    BY <2>2 DEF ToSet, Line
<1>8. ASSUME NEW i \in DOMAIN c.scenarios, NEW j \in DOMAIN c.scenarios[i].fx_rates
      PROVE  RateAtColumn(Line(i, j)) = Told(i, j)
  <2>1. DOMAIN c.scenarios[i].fx_rates[j] = RateFields
    BY DEF HoldsResult, RecordedCase, RecordedRate
  <2>. QED
    BY <2>1, RateInScenario DEF Told
<1> HIDE DEF Line
<1>9. PICK S : S = ReportedFXRates(R)
  OBVIOUS
<1>10. \A y : y \in {RateAtColumn(x) : x \in S} <=>
         \E i \in DOMAIN c.scenarios : \E j \in DOMAIN c.scenarios[i].fx_rates : y = Told(i, j)
  <2>1. ASSUME NEW y, NEW x \in S, y = RateAtColumn(x)
        PROVE  \E i \in DOMAIN c.scenarios : \E j \in DOMAIN c.scenarios[i].fx_rates : y = Told(i, j)
    BY <1>7, <1>8, <1>9, <2>1
  <2>2. ASSUME NEW i \in DOMAIN c.scenarios, NEW j \in DOMAIN c.scenarios[i].fx_rates
        PROVE  \E x \in S : Told(i, j) = RateAtColumn(x)
    BY <1>7, <1>8, <1>9
  <2>. QED
    BY <2>1, <2>2
<1>11. StoredFXRates(t) = {RateAtColumn(x) : x \in S}
  BY <1>6, <1>10
<1>. QED
  BY <1>9, <1>11, SectionAtScale

\* What the claims come back with.
LEMMA ClaimsAgain ==
  ASSUME NEW t, NEW R, NEW c, HoldsResult(t, R, c)
  PROVE  /\ DOMAIN t.claims = DOMAIN c.supplier_identity_claims
         /\ \A i \in DOMAIN t.claims :
              /\ t.claims[i].observation_id = c.supplier_identity_claims[i].observation_id
              /\ \A f \in ClaimFields :
                   Joined(t, t.claims[i])[f] = c.supplier_identity_claims[i][f]
<1>1. PICK E : E = EvidenceRows(R)
  OBVIOUS
<1>2. PICK table : table = t.claims
  OBVIOUS
<1>3. PICK v : v = c.supplier_identity_claims
  OBVIOUS
<1>4. table = [i \in DOMAIN v |-> WithEvidenceId(v[i], E)]
  BY <1>1, <1>2, <1>3 DEF HoldsResult, Tables
<1>5. DOMAIN table = DOMAIN v
  BY <1>4
<1>6. ASSUME NEW i \in DOMAIN table
      PROVE  /\ table[i].observation_id = v[i].observation_id
             /\ \A f \in ClaimFields : Joined(t, table[i])[f] = v[i][f]
  <2>1. PICK k : k = v[i]
    OBVIOUS
  <2>2. PICK w : w = WithEvidenceId(k, E)
    OBVIOUS
  <2>3. table[i] = w
    BY <1>4, <1>5, <2>1, <2>2
  <2>4. RecordedClaim(k)
    BY <1>3, <1>5, <2>1 DEF HoldsResult, RecordedCase
  <2>5. k.evidence \in EvidenceOf(c)
    BY <1>3, <1>5, <2>1 DEF EvidenceOf, ClaimsEvidence, ToSet
  <2>6. Finds(t, E, k.evidence)
    BY <1>1, <2>5, EvidenceFound
  <2>7. PICK j : j = Joined(t, WithEvidenceId(k, E))
    OBVIOUS
  <2>8. \A f \in ClaimFields : j[f] = k[f]
    BY <2>4, <2>6, <2>7, ClaimAgain
  <2>9. DOMAIN k = ClaimFields
    BY <2>4 DEF RecordedClaim
  <2>10. \A f \in ClaimFields \ {"evidence"} : w[f] = k[f]
    BY <2>2, <2>9, ClaimRow
  <2>11. w.observation_id = k.observation_id
    BY <2>10 DEF ClaimFields
  <2>. QED
    BY <2>1, <2>2, <2>3, <2>7, <2>8, <2>11
<1>. QED
  BY <1>2, <1>3, <1>5, <1>6

\* The ranking r is that of the offer o.
RankingFor(c, o, r) ==
  \E i \in DOMAIN c.observations :
    /\ o = c.observations[i] /\ r.observation_id = o.observation_id
    /\ Kept(r, Draft(c, o, MatchPriceObservation(c, o)))

\* Every offer of a case has one ranking, and every ranking an offer.
LEMMA OneRanking ==
  ASSUME NEW c, TypedCase(c), ScenariosComplete(c), None \notin Nat,
         NEW S, S = Rankings(Drafts(c, Matched(c)))
  PROVE  /\ \A o \in ToSet(c.observations) : \E r \in S : RankingFor(c, o, r)
         /\ \A r \in S : \E o \in ToSet(c.observations) : RankingFor(c, o, r)
         /\ \A r, s \in S : r.observation_id = s.observation_id => r = s
<1>1. PICK draft : draft = Drafts(c, Matched(c))
  OBVIOUS
<1>2. /\ Drafted(ToSet(draft))
      /\ \A d \in ToSet(draft) :
           \E i \in DOMAIN c.observations :
             d = Draft(c, c.observations[i], MatchPriceObservation(c, c.observations[i]))
  BY <1>1, DraftsFacts
<1>3. S = Rankings(draft)
  BY <1>1
<1>4. /\ \A r \in Rankings(draft) : \E d \in ToSet(draft) : Kept(r, d)
      /\ \A d \in ToSet(draft) : \E r \in Rankings(draft) : Kept(r, d)
  BY <1>2, RankingsFacts
<1>5. ASSUME NEW r, NEW i \in DOMAIN c.observations,
             Kept(r, Draft(c, c.observations[i], MatchPriceObservation(c, c.observations[i])))
      PROVE  RankingFor(c, c.observations[i], r)
  <2>1. PICK o : o = c.observations[i]
    OBVIOUS
  <2>2. PICK d : d = Draft(c, o, MatchPriceObservation(c, o))
    OBVIOUS
  <2>3. d.observation_id = o.observation_id
    BY <2>2 DEF Draft
  <2>4. Kept(r, d)
    BY <1>5, <2>1, <2>2
  <2>5. r.observation_id = d.observation_id
    BY <2>4 DEF Kept, DraftFields
  <2>6. r.observation_id = o.observation_id
    BY <2>3, <2>5
  <2>7. Kept(r, Draft(c, o, MatchPriceObservation(c, o)))
    BY <2>2, <2>4
  <2>. QED
    BY <2>1, <2>6, <2>7 DEF RankingFor
<1>6. ASSUME NEW o \in ToSet(c.observations) PROVE \E r \in S : RankingFor(c, o, r)
  <2>1. PICK i \in DOMAIN c.observations : o = c.observations[i]
    BY DEF ToSet
  <2>2. PICK d : d = Draft(c, c.observations[i], MatchPriceObservation(c, c.observations[i]))
    OBVIOUS
  <2>3. d \in ToSet(draft)
    <3>1. DOMAIN draft = DOMAIN c.observations /\ draft[i] = Draft(c, c.observations[i], Matched(c)[i])
      BY <1>1 DEF Drafts
    <3>2. Matched(c)[i] = MatchPriceObservation(c, c.observations[i])
      BY DEF Matched
    <3>. QED
      BY <2>2, <3>1, <3>2 DEF ToSet
  <2>4. PICK r \in S : Kept(r, d)
    BY <1>3, <1>4, <2>3
  <2>5. RankingFor(c, c.observations[i], r)
    BY <1>5, <2>2, <2>4
  <2>. QED
    BY <2>1, <2>4, <2>5
<1>7. ASSUME NEW r \in S PROVE \E o \in ToSet(c.observations) : RankingFor(c, o, r)
  <2>1. PICK d \in ToSet(draft) : Kept(r, d)
    BY <1>3, <1>4
  <2>2. PICK i \in DOMAIN c.observations :
          d = Draft(c, c.observations[i], MatchPriceObservation(c, c.observations[i]))
    BY <1>2
  <2>3. RankingFor(c, c.observations[i], r)
    BY <1>5, <2>1, <2>2
  <2>4. c.observations[i] \in ToSet(c.observations)
    BY DEF ToSet
  <2>. QED
    BY <2>3, <2>4
<1>8. RankingsFit(S)
  BY <1>1, <1>3, RankingsOfCaseFit
<1>. QED
  BY <1>6, <1>7, <1>8 DEF RankingsFit

\* An offer with the first rank has a name and a price.
LEMMA LeaderComplete ==
  ASSUME NEW c, TypedCase(c), ScenariosComplete(c), None \notin Nat,
         NEW S, S = Rankings(Drafts(c, Matched(c))),
         NEW o, RecordedOffer(o), NEW r \in S, RankingFor(c, o, r), r.rank = 1
  PROVE  CandidateComplete(Point(o, r))
<1>1. PICK draft : draft = Drafts(c, Matched(c))
  OBVIOUS
<1>2. r \in Rankings(draft)
  BY <1>1
<1>3. Drafted(ToSet(draft))
  BY <1>1, DraftsFacts
<1>4. r.rank = None <=> ~r.rankable
  BY <1>2, <1>3, RankingsFacts
<1>5. r.rankable
  BY <1>4
<1>6. PICK d : d = Draft(c, o, MatchPriceObservation(c, o))
  OBVIOUS
<1>7. Kept(r, d)
  BY <1>6 DEF RankingFor
<1>8. r.rankable = d.rankable /\ r.normalized_unit_price = d.normalized_unit_price
  BY <1>7 DEF Kept, DraftFields
<1>9. d.rankable = Rankable(c, o, MatchPriceObservation(c, o))
      /\ d.normalized_unit_price = NormalizedPrice(c, o)
  BY <1>6 DEF Draft
<1>10. Truthy(o.supplier_name) /\ NormalizedPrice(c, o) # None
  BY <1>5, <1>8, <1>9 DEF Rankable
<1>11. PICK u : u = Unpriced(o)
  OBVIOUS
<1>12. u.supplier_name = o.supplier_name
  BY <1>11, UnpricedFacts DEF ObservationFields
<1>13. o.supplier_name # None
  BY <1>10, Zenon DEF Truthy
<1>14. r.normalized_unit_price # None
  BY <1>8, <1>9, <1>10
<1>15. PICK p : p = Point(o, r)
  OBVIOUS
<1>16. p.observation = u /\ p.ranking = r
  BY <1>11, <1>15 DEF Point
<1>. QED
  BY <1>12, <1>13, <1>14, <1>15, <1>16 DEF CandidateComplete

\* The result is ranked and matched as its case asks for.
Judged(R, c) == R.matches = Matched(c) /\ R.rankings = Rankings(Drafts(c, Matched(c)))

LEMMA RankingIs ==
  ASSUME NEW R, NEW c, TypedCase(c), ScenariosComplete(c), Judged(R, c), None \notin Nat,
         NEW o \in ToSet(c.observations)
  PROVE  /\ RankingOf(R, o) \in R.rankings /\ RankingFor(c, o, RankingOf(R, o))
         /\ \A r \in R.rankings : r.observation_id = o.observation_id => r = RankingOf(R, o)
<1>1. PICK S : S = Rankings(Drafts(c, Matched(c)))
  OBVIOUS
<1>2. R.rankings = S
  BY <1>1 DEF Judged
<1>3. /\ \A x \in ToSet(c.observations) : \E r \in S : RankingFor(c, x, r)
      /\ \A r, s \in S : r.observation_id = s.observation_id => r = s
  BY <1>1, OneRanking
<1>4. PICK r \in S : RankingFor(c, o, r)
  BY <1>3
<1>5. r.observation_id = o.observation_id
  BY <1>4 DEF RankingFor
<1>6. RankingOf(R, o) \in S /\ RankingOf(R, o).observation_id = o.observation_id
  BY <1>2, <1>5 DEF RankingOf
<1>7. RankingOf(R, o) = r
  BY <1>3, <1>5, <1>6
<1>. QED
  BY <1>2, <1>3, <1>4, <1>6, <1>7

\* The offers of the rows are those of the report.
LEMMA OffersAgain ==
  ASSUME NEW t, NEW R, NEW c, HoldsResult(t, R, c), Judged(R, c), None \notin Nat
  PROVE  /\ Offers(t) = ReportedOffers(R)
         /\ \A p : p \in Offers(t) <=>
              \E o \in ToSet(c.observations) : p = Point(o, RankingOf(R, o))
<1>1. TypedCase(c) /\ ScenariosComplete(c) /\ R.case = c /\ t.rankings = R.rankings
  BY DEF HoldsResult, Tables
<1>2. PICK O : O = ToSet(c.observations)
  OBVIOUS
<1>3. \A o \in ToSet(c.observations) :
        /\ RankingOf(R, o) \in R.rankings /\ RankingOf(R, o).observation_id = o.observation_id
        /\ \A r \in R.rankings : r.observation_id = o.observation_id => r = RankingOf(R, o)
  BY <1>1, RankingIs DEF RankingFor
<1>4. \A p : p \in Offers(t) <=>
        \E o \in O : \E r \in R.rankings :
          r.observation_id = o.observation_id /\ p = Point(o, r)
  <2>1. Observations(t) = {OfferAtColumn(o) : o \in O}
    BY <1>2, ObservationsAgain
  <2>2. \A p : p \in Offers(t) <=>
          \E x \in {OfferAtColumn(o) : o \in O} : \E r \in R.rankings :
            r.observation_id = x.observation_id /\ p = Point(x, r)
    BY <1>1, <2>1 DEF Offers
  <2>3. \A o \in O : /\ OfferAtColumn(o).observation_id = o.observation_id
                     /\ \A r : Point(OfferAtColumn(o), r) = Point(o, r)
    BY <1>2, QuotedAgain DEF Point
  <2>. QED
    BY <2>2, <2>3
<1>5. \A p : p \in Offers(t) <=>
        \E o \in ToSet(c.observations) : p = Point(o, RankingOf(R, o))
  BY <1>2, <1>3, <1>4
<1>6. ReportedOffers(R) = {Point(o, RankingOf(R, o)) : o \in ToSet(c.observations)}
  BY <1>1 DEF ReportedOffers
<1>7. \A p : p \in ReportedOffers(R) <=>
        \E o \in ToSet(c.observations) : p = Point(o, RankingOf(R, o))
  BY <1>6
<1>. QED
  BY <1>5, <1>7

\* The views of the offers.
LEMMA OfferViewsAgain ==
  ASSUME NEW t, NEW R, NEW c, HoldsResult(t, R, c), Judged(R, c), None \notin Nat
  PROVE  /\ StoredSupplierCoverage(t) = ReportedSupplierCoverage(R)
         /\ StoredOfferTerms(t) = ReportedOfferTerms(R)
         /\ StoredQuantity(t, c.quantity) = ReportedQuantity(R)
         /\ StoredDistribution(t) = ReportedDistribution(R)
         /\ StoredIncoterms(t) = ReportedIncoterms(R)
<1>1. Offers(t) = ReportedOffers(R)
  BY OffersAgain
<1>2. Quoted(t) = {Unpriced(o) : o \in ToSet(c.observations)} /\ R.case = c
  BY QuotedAgain DEF HoldsResult
<1>3. StoredSupplierCoverage(t) = ReportedSupplierCoverage(R)
  BY <1>1 DEF StoredSupplierCoverage, ReportedSupplierCoverage
<1>4. StoredOfferTerms(t) = ReportedOfferTerms(R)
  BY <1>1 DEF StoredOfferTerms, ReportedOfferTerms
<1>5. StoredQuantity(t, c.quantity) = ReportedQuantity(R)
  BY <1>1, <1>2 DEF StoredQuantity, ReportedQuantity
<1>6. StoredDistribution(t) = ReportedDistribution(R)
  BY <1>1 DEF StoredDistribution, ReportedDistribution
<1>7. StoredIncoterms(t) = ReportedIncoterms(R)
  BY <1>2 DEF StoredIncoterms, ReportedIncoterms
<1>. QED
  BY <1>3, <1>4, <1>5, <1>6, <1>7

LEMMA RankingsAgain ==
  ASSUME NEW t, NEW R, NEW c, HoldsResult(t, R, c), Judged(R, c), None \notin Nat
  PROVE  /\ StoredRankings(t) = R.rankings
         /\ StoredMatches(t) = ToSet(R.matches)
         /\ StoredPrices(t) = AtScale("prices", ReportedPrices(R))
<1>1. TypedCase(c) /\ ScenariosComplete(c) /\ R.case = c /\ t.matches = R.matches
  BY DEF HoldsResult, Tables
<1>2. \A p : p \in Offers(t) <=>
        \E o \in ToSet(c.observations) : p = Point(o, RankingOf(R, o))
  BY OffersAgain
<1>3. \A o, r : Point(o, r).ranking = r
  BY DEF Point
<1>4. \A o \in ToSet(c.observations) :
        /\ RankingOf(R, o) \in R.rankings /\ RankingOf(R, o).observation_id = o.observation_id
        /\ \A r \in R.rankings : r.observation_id = o.observation_id => r = RankingOf(R, o)
  BY <1>1, RankingIs DEF RankingFor
<1>5. \A r \in R.rankings : \E o \in ToSet(c.observations) : r = RankingOf(R, o)
  <2>1. PICK S : S = Rankings(Drafts(c, Matched(c)))
    OBVIOUS
  <2>2. S = R.rankings
    BY <2>1 DEF Judged
  <2>3. \A r \in S : \E o \in ToSet(c.observations) : RankingFor(c, o, r)
    BY <1>1, <2>1, OneRanking
  <2>. QED
    BY <1>4, <2>2, <2>3 DEF RankingFor
<1>6. StoredRankings(t) = R.rankings
  <2>1. \A r : r \in StoredRankings(t) <=> \E p \in Offers(t) : r = p.ranking
    BY DEF StoredRankings
  <2>2. \A r : r \in StoredRankings(t) <=> \E o \in ToSet(c.observations) : r = RankingOf(R, o)
    BY <1>2, <1>3, <2>1
  <2>3. \A r : r \in StoredRankings(t) <=> r \in R.rankings
    BY <1>4, <1>5, <2>2
  <2>4. PICK S : S = R.rankings
    OBVIOUS
  <2>5. PICK T : T = StoredRankings(t) /\ T = {p.ranking : p \in Offers(t)}
    BY DEF StoredRankings
  <2>6. \A r : r \in T <=> r \in S
    BY <2>3, <2>4, <2>5
  <2>7. T \subseteq S /\ S \subseteq T
    BY <2>6
  <2>8. T = S
    BY <2>7, Zenon
  <2>. QED
    BY <2>4, <2>5, <2>8
<1>7. \A o \in ToSet(c.observations) :
        \E m \in ToSet(t.matches) : m.observation_id = o.observation_id
  <2>1. TAKE o \in ToSet(c.observations)
  <2>2. PICK i \in DOMAIN c.observations : o = c.observations[i]
    BY DEF ToSet
  <2>3. PICK m : m = MatchPriceObservation(c, o)
    OBVIOUS
  <2>4. m.observation_id = o.observation_id
    BY <2>3 DEF MatchPriceObservation
  <2>5. PICK found : found = t.matches
    OBVIOUS
  <2>6. found = [j \in DOMAIN c.observations |-> MatchPriceObservation(c, c.observations[j])]
    BY <1>1, <2>5 DEF Judged, Matched
  <2>7. i \in DOMAIN found /\ found[i] = m
    BY <2>2, <2>3, <2>6
  <2>. QED
    BY <2>4, <2>5, <2>7 DEF ToSet
<1>8. StoredPrices(t) = AtScale("prices", ReportedPrices(R))
  <2>1. PICK O : O = ToSet(c.observations)
    OBVIOUS
  <2>2. Observations(t) = {OfferAtColumn(o) : o \in O}
    BY <2>1, ObservationsAgain
  <2>3. \A o \in O : OfferAtColumn(o).observation_id = o.observation_id
    BY <2>1, QuotedAgain
  <2>4. \A o \in O : /\ \E m \in ToSet(t.matches) : m.observation_id = o.observation_id
                     /\ \E r \in t.rankings : r.observation_id = o.observation_id
    BY <1>4, <1>7, <2>1 DEF HoldsResult, Tables
  <2>5. StoredPrices(t) = {PriceLine(x) : x \in {OfferAtColumn(o) : o \in O}}
    BY <2>2, <2>3, <2>4 DEF StoredPrices
  <2>6. ASSUME NEW o \in O PROVE PriceLine(OfferAtColumn(o)) = PriceAtColumn(PriceLine(o))
    <3>1. PICK x : x = OfferAtColumn(o)
      OBVIOUS
    <3>2. RecordedOffer(o)
      BY <2>1, QuotedAgain
    <3>3. /\ x.unit_price = StoredPrice(o.unit_price)
          /\ \A f \in ObservationFields \ {"unit_price"} : x[f] = o[f]
      BY <3>1, <3>2, OfferAtColumnFacts
    <3>4. x.observation_id = o.observation_id /\ x.unit = o.unit /\ x.evidence = o.evidence
      BY <3>3 DEF ObservationFields
    <3>5. PriceLine(x) = PriceAtColumn(PriceLine(o))
      BY <3>3, <3>4 DEF PriceLine, PriceAtColumn
    <3>. QED
      BY <3>1, <3>5
  <2>7. AtScale("prices", ReportedPrices(R)) = {PriceAtColumn(line) : line \in {PriceLine(o) : o \in O}}
    BY <1>1, <2>1, SectionAtScale DEF ReportedPrices
  <2>8. {PriceLine(x) : x \in {OfferAtColumn(o) : o \in O}}
          = {PriceAtColumn(line) : line \in {PriceLine(o) : o \in O}}
    BY <2>6
  <2>. QED
    BY <2>5, <2>7, <2>8
<1>. QED
  BY <1>1, <1>6, <1>8 DEF StoredMatches

LEMMA ClaimsViewAgain ==
  ASSUME NEW t, NEW R, NEW c, HoldsResult(t, R, c)
  PROVE  StoredIdentityClaims(t) = ReportedIdentityClaims(R)
<1>1. TypedCase(c) /\ RecordedCase(c) /\ R.case = c
  BY DEF HoldsResult
<1>2. PICK O : O = ToSet(c.observations)
  OBVIOUS
<1>3. PICK Q : Q = Quoted(t)
  OBVIOUS
<1>4. PICK v : v = c.supplier_identity_claims
  OBVIOUS
<1>5. PICK table : table = t.claims
  OBVIOUS
<1>6. /\ DOMAIN table = DOMAIN v
      /\ \A i \in DOMAIN table : /\ table[i].observation_id = v[i].observation_id
                                 /\ \A f \in ClaimFields : Joined(t, table[i])[f] = v[i][f]
  BY <1>4, <1>5, ClaimsAgain
<1>7. \A o, p \in O : o.observation_id = p.observation_id => o = p
  BY <1>1, <1>2 DEF TypedCase, ToSet
<1>8. \A i \in DOMAIN v : \E o \in O : o.observation_id = v[i].observation_id
  BY <1>1, <1>2, <1>4 DEF RecordedCase, AboutOffers, ObservationIds, ToSet
<1>9. \A i \in DOMAIN v :
        /\ ObservationOf(R, v[i].observation_id) \in O
        /\ \A o \in O : o.observation_id = v[i].observation_id
                          <=> o = ObservationOf(R, v[i].observation_id)
  <2>1. TAKE i \in DOMAIN v
  <2>2. ObservationOf(R, v[i].observation_id)
          = CHOOSE o \in O : o.observation_id = v[i].observation_id
    BY <1>1, <1>2 DEF ObservationOf
  <2>3. \E o \in O : o.observation_id = v[i].observation_id
    BY <1>8
  <2>4. PICK x : x = ObservationOf(R, v[i].observation_id)
    OBVIOUS
  <2>5. x \in O /\ x.observation_id = v[i].observation_id
    BY <2>2, <2>3, <2>4
  <2>. QED
    BY <1>7, <2>4, <2>5
<1>10. ASSUME NEW i \in DOMAIN v, NEW o
       PROVE  IdentityClaimItem(Joined(t, table[i]), o) = IdentityClaimItem(v[i], o)
  <2>1. PICK j : j = Joined(t, table[i])
    OBVIOUS
  <2>2. \A f \in ClaimFields : j[f] = v[i][f]
    BY <1>6, <2>1
  <2>3. /\ j.claim_id = v[i].claim_id /\ j.observation_id = v[i].observation_id
        /\ j.claimed_legal_name = v[i].claimed_legal_name /\ j.evidence = v[i].evidence
    BY <2>2 DEF ClaimFields
  <2>4. IdentityClaimItem(j, o) = IdentityClaimItem(v[i], o)
    BY <2>3 DEF IdentityClaimItem
  <2>. QED
    BY <2>1, <2>4
<1> DEFINE Item(i) == IdentityClaimItem(v[i], ObservationOf(R, v[i].observation_id))
           A == {IdentityClaimItem(Joined(t, p[1]), p[2]) :
                   p \in {q \in ToSet(table) \X Q : q[1].observation_id = q[2].observation_id}}
           B == {IdentityClaimItem(k, ObservationOf(R, k.observation_id)) : k \in ToSet(v)}
<1>11. \A x : x \in A <=> \E i \in DOMAIN v : x = Item(i)
  <2> HIDE DEF Item
  <2>1. \A x : x \in A <=> \E w \in ToSet(table), q \in Q :
                            w.observation_id = q.observation_id
                            /\ x = IdentityClaimItem(Joined(t, w), q)
    <3>1. ASSUME NEW x \in A
          PROVE  \E w \in ToSet(table), q \in Q : w.observation_id = q.observation_id
                                                 /\ x = IdentityClaimItem(Joined(t, w), q)
      <4>1. PICK p \in ToSet(table) \X Q : /\ p[1].observation_id = p[2].observation_id
                                           /\ x = IdentityClaimItem(Joined(t, p[1]), p[2])
        OBVIOUS
      <4>. QED
        BY <4>1
    <3>2. ASSUME NEW x, NEW w \in ToSet(table), NEW q \in Q,
                 w.observation_id = q.observation_id, x = IdentityClaimItem(Joined(t, w), q)
          PROVE  x \in A
      <4>1. PICK p : p = <<w, q>>
        OBVIOUS
      <4>2. p \in ToSet(table) \X Q /\ p[1] = w /\ p[2] = q
        BY <4>1
      <4>3. x = IdentityClaimItem(Joined(t, p[1]), p[2]) /\ p[1].observation_id = p[2].observation_id
        BY <3>2, <4>2
      <4>. QED
        BY <4>2, <4>3
    <3>. QED
      BY <3>1, <3>2
  <2> HIDE DEF A
  <2>2. \A x : x \in A <=> \E i \in DOMAIN v : \E o \in O :
                            table[i].observation_id = o.observation_id
                            /\ x = IdentityClaimItem(Joined(t, table[i]), o)
    <3>1. Q = {Unpriced(o) : o \in O}
      BY <1>2, <1>3, QuotedAgain
    <3>2. \A o \in O : /\ Unpriced(o).observation_id = o.observation_id
                       /\ Unpriced(o).supplier_name = o.supplier_name
      <4>1. TAKE o \in O
      <4>2. PICK u : u = Unpriced(o)
        OBVIOUS
      <4>3. \A f \in ObservationFields \ {"unit_price"} : u[f] = o[f]
        BY <1>2, <4>2, QuotedAgain, UnpricedFacts
      <4>. QED
        BY <4>2, <4>3 DEF ObservationFields
    <3>3. \A o \in O : \A k : IdentityClaimItem(k, Unpriced(o)) = IdentityClaimItem(k, o)
      BY <3>2 DEF IdentityClaimItem
    <3>4. \A x : x \in A <=> \E w \in ToSet(table) : \E o \in O :
                              w.observation_id = o.observation_id
                              /\ x = IdentityClaimItem(Joined(t, w), o)
      BY <2>1, <3>1, <3>2, <3>3
    <3>. QED
      BY <1>6, <3>4 DEF ToSet
  <2>3. \A x : x \in A <=> \E i \in DOMAIN v : \E o \in O :
                            o.observation_id = v[i].observation_id
                            /\ x = IdentityClaimItem(v[i], o)
    <3>1. \A i \in DOMAIN v : table[i].observation_id = v[i].observation_id
      BY <1>6
    <3>. QED
      BY <1>10, <2>2, <3>1
  <2>. QED
    BY <1>9, <2>3 DEF Item
<1>12. \A x : x \in B <=> \E i \in DOMAIN v : x = Item(i)
  BY DEF ToSet
<1>13. A = B
  <2> HIDE DEF A, B, Item
  <2>. QED
    BY <1>11, <1>12
<1>14. StoredIdentityClaims(t) = IdentityClaims(A)
  BY <1>3, <1>5 DEF StoredIdentityClaims
<1>15. ReportedIdentityClaims(R) = IdentityClaims(B)
  BY <1>1, <1>4 DEF ReportedIdentityClaims
<1>. QED
  BY <1>13, <1>14, <1>15

\* A component of a cost, and the costs of a case: one of each name.
MadeOf(x) == x = Component(x.code, x.amount, x.evidence_class)

Costing(costs) ==
  /\ Array(costs)
  /\ \A i \in DOMAIN costs :
       /\ costs[i].name \in ScenarioName
       /\ Array(costs[i].components)
       /\ \A j \in DOMAIN costs[i].components : MadeOf(costs[i].components[j])
  /\ \A n \in ScenarioName : \E i \in DOMAIN costs : costs[i].name = n
  /\ \A i, j \in DOMAIN costs : i # j => costs[i].name # costs[j].name

LEMMA CostMade ==
  ASSUME NEW s, Array(s.costs)
  PROVE  /\ LandedCost(s).name = s.name
         /\ Array(LandedCost(s).components)
         /\ \A i \in DOMAIN LandedCost(s).components : MadeOf(LandedCost(s).components[i])
<1> DEFINE first == Component("product_cost", PurchaseTotal(s), "DERIVED_CALCULATION")
           rest == [i \in DOMAIN s.costs |->
                      Component(s.costs[i].code, CostAmount(s, s.costs[i]), s.costs[i].evidence_class)]
           inputs == <<first>> \o rest
           reserve == Component("unexpected_cost",
                                Cents(Subtotal(inputs) * s.unexpected_cost_rate[1],
                                      s.unexpected_cost_rate[2]), "ASSUMPTION")
           contingency == IF s.unexpected_cost_rate[1] = 0 THEN <<>> ELSE <<reserve>>
           components == inputs \o contingency
           S == {first, reserve} \cup {rest[i] : i \in DOMAIN s.costs}
<1>1. PICK n \in Nat : DOMAIN s.costs = 1 .. n
  BY ArrayFacts
<1>2. \A code, amount, class : MadeOf(Component(code, amount, class))
  BY DEF MadeOf, Component
<1>3. \A x \in S : MadeOf(x)
  BY <1>2
<1>4. rest \in Seq(S)
  <2>1. rest \in [1 .. n -> S]
    BY <1>1
  <2> HIDE DEF rest, S
  <2>. QED
    BY <2>1
<1>5. first \in S /\ reserve \in S
  OBVIOUS
<1>6. /\ LandedCost(s).components = components /\ LandedCost(s).name = s.name
  BY DEF LandedCost
<1> HIDE DEF S, rest, first, reserve
<1>7. <<first>> \in Seq(S) /\ contingency \in Seq(S)
  BY <1>5
<1>8. inputs \in Seq(S)
  BY <1>4, <1>7, ConcatFacts
<1> HIDE DEF inputs, contingency
<1>9. components \in Seq(S)
  BY <1>7, <1>8, ConcatFacts
<1> HIDE DEF components
<1>10. \A i \in DOMAIN components : components[i] \in S
  BY <1>9
<1>. QED
  BY <1>3, <1>6, <1>9, <1>10, SeqIsArray

LEMMA CaseIsCosted ==
  ASSUME NEW c, TypedCase(c), ScenariosComplete(c), NEW costs,
         costs = [i \in DOMAIN c.scenarios |-> LandedCost(c.scenarios[i])]
  PROVE  Costing(costs)
<1>1. PICK v : v = costs
  OBVIOUS
<1>2. PICK n \in Nat : DOMAIN c.scenarios = 1 .. n
  BY ArrayFacts DEF TypedCase
<1>3. DOMAIN v = 1 .. n /\ v = [i \in 1 .. n |-> v[i]]
      /\ \A i \in 1 .. n : v[i] = LandedCost(c.scenarios[i])
  BY <1>1, <1>2
<1>4. Array(v)
  BY <1>3, ArrayOf
<1>5. ASSUME NEW i \in DOMAIN v
      PROVE  /\ v[i].name = c.scenarios[i].name /\ v[i].name \in ScenarioName
             /\ Array(v[i].components)
             /\ \A j \in DOMAIN v[i].components : MadeOf(v[i].components[j])
  <2>1. PICK s : s = c.scenarios[i]
    OBVIOUS
  <2>2. Array(s.costs) /\ s.name \in ScenarioName
    BY <1>2, <1>3, <2>1 DEF TypedCase, TypedScenario
  <2>3. PICK x : x = LandedCost(s)
    OBVIOUS
  <2>4. /\ x.name = s.name /\ Array(x.components)
        /\ \A j \in DOMAIN x.components : MadeOf(x.components[j])
    BY <2>2, <2>3, CostMade
  <2>5. v[i] = x
    BY <1>3, <2>1, <2>3
  <2>. QED
    BY <2>1, <2>2, <2>4, <2>5
<1>6. \A i, j \in DOMAIN v : i # j => v[i].name # v[j].name
  <2>1. \A i, j \in DOMAIN c.scenarios : i # j => c.scenarios[i].name # c.scenarios[j].name
    BY ScenarioNames
  <2>. QED
    BY <1>2, <1>3, <1>5, <2>1
<1>7. \A k \in ScenarioName : \E i \in DOMAIN v : v[i].name = k
  <2>1. {c.scenarios[i].name : i \in DOMAIN c.scenarios} = ScenarioName
    BY DEF ScenariosComplete
  <2>2. \A k \in ScenarioName : \E i \in DOMAIN c.scenarios : c.scenarios[i].name = k
    BY <2>1
  <2>. QED
    BY <1>2, <1>3, <1>5, <2>2
<1>8. \A i \in DOMAIN v : /\ v[i].name \in ScenarioName /\ Array(v[i].components)
                         /\ \A j \in DOMAIN v[i].components : MadeOf(v[i].components[j])
  BY <1>5
<1>9. Costing(v)
  BY <1>4, <1>6, <1>7, <1>8, Zenon DEF Costing
<1>. QED
  BY <1>1, <1>9

\* The row of a scenario is that of its result.
LEMMA ScenarioAgain ==
  ASSUME NEW t, NEW R, NEW c, HoldsResult(t, R, c), Costing(R.scenarios), NEW name \in ScenarioName
  PROVE  /\ ScenarioResult(R, name) \in ToSet(R.scenarios)
         /\ ScenarioResult(R, name).name = name
         /\ \A s \in ToSet(R.scenarios) : s.name = name => s = ScenarioResult(R, name)
         /\ ScenarioNamed(t, name) = ScenarioRow(ScenarioResult(R, name))
<1>1. PICK v : v = R.scenarios
  OBVIOUS
<1>2. PICK table : table = t.scenarios
  OBVIOUS
<1>3. table = [i \in DOMAIN v |-> ScenarioRow(v[i])]
  BY <1>1, <1>2 DEF HoldsResult, Tables
<1>4. PICK i \in DOMAIN v : v[i].name = name
  BY <1>1 DEF Costing
<1>5. \A j \in DOMAIN v : v[j].name = name => j = i
  BY <1>1, <1>4 DEF Costing
<1>6. PICK x : x = ScenarioResult(R, name)
  OBVIOUS
<1>7. x = CHOOSE s \in ToSet(v) : s.name = name
  BY <1>1, <1>6 DEF ScenarioResult
<1>8. v[i] \in ToSet(v)
  BY DEF ToSet
<1>9. x \in ToSet(v) /\ x.name = name
  BY <1>4, <1>7, <1>8
<1>10. \A s \in ToSet(v) : s.name = name => s = v[i]
  BY <1>5 DEF ToSet
<1>11. \A s : ScenarioRow(s).name = s.name
  BY DEF ScenarioRow
<1>12. DOMAIN table = DOMAIN v /\ \A j \in DOMAIN v : table[j] = ScenarioRow(v[j])
  BY <1>3
<1>13. PICK y : y = ScenarioNamed(t, name)
  OBVIOUS
<1>14. y = CHOOSE s \in ToSet(table) : s.name = name
  BY <1>2, <1>13 DEF ScenarioNamed
<1>15. table[i] \in ToSet(table) /\ table[i].name = name
  BY <1>4, <1>11, <1>12 DEF ToSet
<1>16. y \in ToSet(table) /\ y.name = name
  BY <1>14, <1>15
<1>17. \A s \in ToSet(table) : s.name = name => s = table[i]
  BY <1>5, <1>11, <1>12 DEF ToSet
<1>18. y = ScenarioRow(x)
  BY <1>9, <1>10, <1>12, <1>16, <1>17
<1>. QED
  BY <1>1, <1>6, <1>9, <1>10, <1>13, <1>18

\* The sensitivity looks at three figures of a scenario, which its row keeps.
LEMMA SensitivityAgain ==
  ASSUME NEW t, NEW R, NEW c, HoldsResult(t, R, c), Costing(R.scenarios)
  PROVE  StoredSensitivity(t) = ReportedSensitivity(R)
<1>1. PICK f : f = [name \in ScenarioName |-> ScenarioNamed(t, name)]
  OBVIOUS
<1>2. PICK g : g = [name \in ScenarioName |-> ScenarioResult(R, name)]
  OBVIOUS
<1>3. DOMAIN f = ScenarioName /\ DOMAIN g = ScenarioName
  BY <1>1, <1>2
<1>4. \A s : /\ ScenarioRow(s).quantity = s.quantity /\ ScenarioRow(s).per_unit = s.per_unit
             /\ ScenarioRow(s).target_currency = s.target_currency
  BY DEF ScenarioRow
<1>5. \A name \in ScenarioName : ScenarioNamed(t, name) = ScenarioRow(ScenarioResult(R, name))
  BY ScenarioAgain
<1>6. \A name \in ScenarioName :
        /\ f[name].quantity = g[name].quantity /\ f[name].per_unit = g[name].per_unit
        /\ f[name].target_currency = g[name].target_currency
  BY <1>1, <1>2, <1>4, <1>5
<1>7. {<<f[n].quantity, f[n].target_currency>> : n \in DOMAIN f}
        = {<<g[n].quantity, g[n].target_currency>> : n \in DOMAIN g}
  BY <1>3, <1>6
<1>8. /\ f["OPTIMISTIC"].per_unit = g["OPTIMISTIC"].per_unit
      /\ f["BASE"].per_unit = g["BASE"].per_unit
      /\ f["CONSERVATIVE"].per_unit = g["CONSERVATIVE"].per_unit
  BY <1>6 DEF ScenarioName
<1>9. Sensitivity(f) = Sensitivity(g)
  BY <1>7, <1>8 DEF Sensitivity
<1>. QED
  BY <1>1, <1>2, <1>9 DEF StoredSensitivity, ReportedSensitivity

LEMMA RowOfComponent ==
  ASSUME NEW s, NEW x
  PROVE  /\ ComponentRow(s, x).scenario = s.name /\ ComponentRow(s, x).code = x.code
         /\ ComponentRow(s, x).amount = x.amount
         /\ ComponentRow(s, x).evidence_class = x.evidence_class
BY DEF ComponentRow

\* The components of a scenario come back with it and with no other.
LEMMA ComponentsAgain ==
  ASSUME NEW t, NEW R, NEW c, HoldsResult(t, R, c), Costing(R.scenarios), NEW s \in ToSet(R.scenarios)
  PROVE  \A r : r \in ComponentsOf(t, s.name) <=>
           \E x \in ToSet(s.components) : r = ComponentRow(s, x)
<1>1. PICK v : v = R.scenarios
  OBVIOUS
<1> DEFINE parts == [i \in DOMAIN v |->
                       [j \in DOMAIN v[i].components |-> ComponentRow(v[i], v[i].components[j])]]
<1>2. ComponentRows(R) = FlattenSeq(parts)
  BY <1>1 DEF ComponentRows
<1>3. Array(v) /\ \A i \in DOMAIN v : Array(v[i].components)
  BY <1>1 DEF Costing
<1>4. PICK p : p = parts
  OBVIOUS
<1>5. p = [i \in DOMAIN v |-> p[i]]
  BY <1>4
<1>6. ASSUME NEW i \in DOMAIN v
      PROVE  /\ Array(p[i])
             /\ \A r : r \in ToSet(p[i]) <=>
                  \E x \in ToSet(v[i].components) : r = ComponentRow(v[i], x)
  <2>1. PICK w : w = p[i]
    OBVIOUS
  <2>2. PICK n \in Nat : DOMAIN v[i].components = 1 .. n
    BY <1>3, ArrayFacts
  <2>3. w = [j \in DOMAIN v[i].components |-> ComponentRow(v[i], v[i].components[j])]
    BY <1>4, <2>1
  <2>4. w = [j \in 1 .. n |-> w[j]] /\ DOMAIN w = 1 .. n
    BY <2>2, <2>3
  <2>5. Array(w)
    BY <2>4, ArrayOf
  <2>6. \A j \in DOMAIN v[i].components : w[j] = ComponentRow(v[i], v[i].components[j])
    BY <2>3
  <2>7. \A r : r \in ToSet(w) <=>
               \E x \in ToSet(v[i].components) : r = ComponentRow(v[i], x)
    BY <2>2, <2>4, <2>6 DEF ToSet
  <2>. QED
    BY <2>1, <2>5, <2>7
<1> HIDE DEF parts
<1>7. PICK table : table = FlattenSeq(p)
  OBVIOUS
<1>8. \A r : r \in ToSet(table) <=> \E i \in DOMAIN v : r \in ToSet(p[i])
  BY <1>3, <1>5, <1>6, <1>7, FlattenArrays
<1>9. t.components = table
  BY <1>2, <1>4, <1>7 DEF HoldsResult, Tables
<1>10. \A r : r \in ToSet(table) <=>
         \E i \in DOMAIN v : \E x \in ToSet(v[i].components) : r = ComponentRow(v[i], x)
  BY <1>6, <1>8
<1>11. PICK k \in DOMAIN v : s = v[k]
  BY <1>1 DEF ToSet
<1>12. \A i \in DOMAIN v : v[i].name = s.name => v[i] = s
  BY <1>1, <1>11 DEF Costing
<1>13. \A r : r \in ComponentsOf(t, s.name) <=> r \in ToSet(table) /\ r.scenario = s.name
  BY <1>9 DEF ComponentsOf
<1>14. ASSUME NEW r, r \in ToSet(table), r.scenario = s.name
       PROVE  \E x \in ToSet(s.components) : r = ComponentRow(s, x)
  <2>1. PICK i \in DOMAIN v : \E x \in ToSet(v[i].components) : r = ComponentRow(v[i], x)
    BY <1>10, <1>14
  <2>2. r.scenario = v[i].name
    BY <2>1, RowOfComponent
  <2>3. v[i] = s
    BY <1>12, <1>14, <2>2
  <2>. QED
    BY <2>1, <2>3
<1>15. ASSUME NEW x \in ToSet(s.components)
       PROVE  ComponentRow(s, x) \in ToSet(table) /\ ComponentRow(s, x).scenario = s.name
  <2>1. ComponentRow(s, x) \in ToSet(table)
    BY <1>10, <1>11
  <2>. QED
    BY <2>1, RowOfComponent
<1>. QED
  BY <1>13, <1>14, <1>15

LEMMA LandedCostAgain ==
  ASSUME NEW t, NEW R, NEW c, HoldsResult(t, R, c), Costing(R.scenarios)
  PROVE  StoredLandedCost(t) = ReportedLandedCost(R)
<1>1. PICK v : v = R.scenarios
  OBVIOUS
<1>2. PICK table : table = t.scenarios
  OBVIOUS
<1>3. table = [i \in DOMAIN v |-> ScenarioRow(v[i])]
  BY <1>1, <1>2 DEF HoldsResult, Tables
<1>4. \A r : r \in ToSet(table) <=> \E s \in ToSet(v) : r = ScenarioRow(s)
  BY <1>3 DEF ToSet
<1>5. ASSUME NEW s \in ToSet(v)
      PROVE  ScenarioView(t, ScenarioRow(s))
               = Extended(ScenarioRow(s), "components", ToSet(s.components))
  <2>1. \A r : r \in ComponentsOf(t, s.name) <=>
               \E x \in ToSet(s.components) : r = ComponentRow(s, x)
    BY <1>1, <1>5, ComponentsAgain
  <2>2. ScenarioRow(s).name = s.name
    BY DEF ScenarioRow
  <2>3. PICK C : C = {Component(r.code, r.amount, r.evidence_class) : r \in ComponentsOf(t, s.name)}
    OBVIOUS
  <2>4. \A x \in ToSet(s.components) : x = Component(x.code, x.amount, x.evidence_class)
    BY <1>1 DEF Costing, MadeOf, ToSet
  <2>5. \A y : y \in C <=> \E x \in ToSet(s.components) :
          y = Component(ComponentRow(s, x).code, ComponentRow(s, x).amount,
                        ComponentRow(s, x).evidence_class)
    BY <2>1, <2>3
  <2>6. \A x \in ToSet(s.components) :
          Component(ComponentRow(s, x).code, ComponentRow(s, x).amount,
                    ComponentRow(s, x).evidence_class) = x
    <3>1. TAKE x \in ToSet(s.components)
    <3>2. /\ ComponentRow(s, x).code = x.code /\ ComponentRow(s, x).amount = x.amount
          /\ ComponentRow(s, x).evidence_class = x.evidence_class
      BY RowOfComponent
    <3>. QED
      BY <2>4, <3>2
  <2>7. \A y : y \in C <=> y \in ToSet(s.components)
    BY <2>5, <2>6
  <2>8. PICK D : D = ToSet(s.components) /\ D = {s.components[j] : j \in DOMAIN s.components}
    BY DEF ToSet
  <2>9. C = D
    BY <2>3, <2>7, <2>8
  <2>10. ScenarioView(t, ScenarioRow(s)) = Extended(ScenarioRow(s), "components", C)
    BY <2>2, <2>3 DEF ScenarioView
  <2>. QED
    BY <2>8, <2>9, <2>10
<1>6. \A y : y \in StoredLandedCost(t) <=> \E r \in ToSet(table) : y = ScenarioView(t, r)
  BY <1>2 DEF StoredLandedCost
<1>7. \A y : y \in ReportedLandedCost(R) <=>
        \E s \in ToSet(v) : y = Extended(ScenarioRow(s), "components", ToSet(s.components))
  BY <1>1 DEF ReportedLandedCost
<1>8. \A y : y \in StoredLandedCost(t) <=> y \in ReportedLandedCost(R)
  <2>1. \A y : y \in StoredLandedCost(t) <=> \E s \in ToSet(v) : y = ScenarioView(t, ScenarioRow(s))
    BY <1>4, <1>6
  <2>. QED
    BY <1>5, <1>7, <2>1
<1>9. PICK A : A = StoredLandedCost(t) /\ A = {ScenarioView(t, r) : r \in ToSet(table)}
  BY <1>2 DEF StoredLandedCost
<1>10. PICK B : B = ReportedLandedCost(R)
               /\ B = {Extended(ScenarioRow(s), "components", ToSet(s.components)) : s \in ToSet(v)}
  BY <1>1 DEF ReportedLandedCost
<1>11. A = B
  BY <1>8, <1>9, <1>10
<1>. QED
  BY <1>9, <1>10, <1>11

\* The components with a class are as many as their rows.
LEMMA CoverageAgain ==
  ASSUME NEW s, NEW X, IsFiniteSet(X), \A x \in X : MadeOf(x), NEW W,
         \A r : r \in W <=> \E x \in X : r = ComponentRow(s, x)
  PROVE  ScenarioCoverage(W) = ScenarioCoverage(X)
<1> DEFINE codes(Y) == {y.code : y \in Y}
           zero(Y) == {y.code : y \in {z \in Y : z.amount = 0}}
           classed(Y) == [k \in EvidenceClass |-> Cardinality({y \in Y : y.evidence_class = k})]
<1>1. codes(W) = codes(X)
  BY RowOfComponent
<1>2. zero(W) = zero(X)
  <2>1. \A n : n \in zero(W) <=> \E x \in X : x.amount = 0 /\ n = x.code
    BY RowOfComponent
  <2>2. \A n : n \in zero(X) <=> \E x \in X : x.amount = 0 /\ n = x.code
    OBVIOUS
  <2>. QED
    BY <2>1, <2>2
<1>3. ASSUME NEW k \in EvidenceClass
      PROVE  Cardinality({r \in W : r.evidence_class = k})
               = Cardinality({x \in X : x.evidence_class = k})
  <2>1. PICK Y : Y = {x \in X : x.evidence_class = k}
    OBVIOUS
  <2>2. IsFiniteSet(Y)
    BY <2>1, FS_Subset
  <2>3. PICK f : f = [x \in Y |-> ComponentRow(s, x)]
    OBVIOUS
  <2>4. f = [x \in Y |-> f[x]] /\ \A x \in Y : f[x] = ComponentRow(s, x)
    BY <2>3
  <2>5. PICK Z : Z = {f[x] : x \in Y}
    OBVIOUS
  <2>6. \A x, y \in Y : f[x] = f[y] => x = y
    <3>1. TAKE x \in Y, y \in Y
    <3>2. HAVE f[x] = f[y]
    <3>3. f[x] = ComponentRow(s, x) /\ f[y] = ComponentRow(s, y)
      BY <2>4
    <3>4. x.code = y.code /\ x.amount = y.amount /\ x.evidence_class = y.evidence_class
      <4>1. PICK q : q = ComponentRow(s, x)
        OBVIOUS
      <4>2. PICK r : r = ComponentRow(s, y)
        OBVIOUS
      <4>3. q.code = x.code /\ q.amount = x.amount /\ q.evidence_class = x.evidence_class
        BY <4>1, RowOfComponent
      <4>4. r.code = y.code /\ r.amount = y.amount /\ r.evidence_class = y.evidence_class
        BY <4>2, RowOfComponent
      <4>5. q = r
        BY <3>2, <3>3, <4>1, <4>2
      <4>. QED
        BY <4>3, <4>4, <4>5
    <3>5. /\ x = Component(x.code, x.amount, x.evidence_class)
          /\ y = Component(y.code, y.amount, y.evidence_class)
      BY <2>1 DEF MadeOf
    <3>. QED
      BY <3>4, <3>5
  <2>7. Cardinality(Z) = Cardinality(Y)
    BY <2>2, <2>4, <2>5, <2>6, ImageOf
  <2>8. Z = {r \in W : r.evidence_class = k}
    <3>1. \A r : r \in Z <=> \E x \in X : x.evidence_class = k /\ r = ComponentRow(s, x)
      BY <2>1, <2>4, <2>5
    <3>2. \A r : r \in W /\ r.evidence_class = k <=>
                 \E x \in X : x.evidence_class = k /\ r = ComponentRow(s, x)
      BY RowOfComponent
    <3>. QED
      BY <2>5, <3>1, <3>2
  <2>. QED
    BY <2>1, <2>7, <2>8
<1>4. classed(W) = classed(X)
  BY <1>3
<1>5. \A Y : ScenarioCoverage(Y)
         = [recorded |-> codes(Y),
            recognized |-> ReferenceComponentCodes \cap codes(Y),
            unrecorded |-> ReferenceComponentCodes \ codes(Y),
            unclassified |-> codes(Y) \ ReferenceComponentCodes,
            zero |-> zero(Y), by_class |-> classed(Y)]
  BY DEF ScenarioCoverage, Count, Quantify
<1> HIDE DEF codes, zero, classed
<1>. QED
  BY <1>1, <1>2, <1>4, <1>5

LEMMA CostCoverageAgain ==
  ASSUME NEW t, NEW R, NEW c, HoldsResult(t, R, c), Costing(R.scenarios)
  PROVE  StoredCostCoverage(t) = ReportedCostCoverage(R)
<1>1. PICK v : v = R.scenarios
  OBVIOUS
<1>2. PICK table : table = t.scenarios
  OBVIOUS
<1>3. table = [i \in DOMAIN v |-> ScenarioRow(v[i])]
  BY <1>1, <1>2 DEF HoldsResult, Tables
<1>4. \A r : r \in ToSet(table) <=> \E s \in ToSet(v) : r = ScenarioRow(s)
  BY <1>3 DEF ToSet
<1>5. \A s : ScenarioRow(s).name = s.name
  BY DEF ScenarioRow
<1>6. {s.name : s \in ToSet(table)} = {s.name : s \in ToSet(v)}
  BY <1>4, <1>5
<1>7. {s.name : s \in ToSet(v)} = ScenarioName
  BY <1>1 DEF Costing, ToSet
<1>8. ASSUME NEW name \in ScenarioName
      PROVE  ScenarioCoverage(ComponentsOf(t, name))
               = ScenarioCoverage(ToSet(ScenarioResult(R, name).components))
  <2>1. PICK s : s = ScenarioResult(R, name)
    OBVIOUS
  <2>2. s \in ToSet(v) /\ s.name = name
    BY <1>1, <2>1, ScenarioAgain
  <2>3. \A r : r \in ComponentsOf(t, s.name) <=>
               \E x \in ToSet(s.components) : r = ComponentRow(s, x)
    BY <1>1, <2>2, ComponentsAgain
  <2>4. Array(s.components) /\ \A x \in ToSet(s.components) : MadeOf(x)
    BY <1>1, <2>2 DEF Costing, ToSet
  <2>5. IsFiniteSet(ToSet(s.components))
    BY <2>4, ArrayFacts
  <2>6. ScenarioCoverage(ComponentsOf(t, s.name)) = ScenarioCoverage(ToSet(s.components))
    BY <2>3, <2>4, <2>5, CoverageAgain
  <2>. QED
    BY <2>1, <2>2, <2>6
<1>9. StoredCostCoverage(t) = [name \in ScenarioName |-> ScenarioCoverage(ComponentsOf(t, name))]
  BY <1>2, <1>6, <1>7 DEF StoredCostCoverage
<1>10. ReportedCostCoverage(R)
         = [name \in ScenarioName |-> ScenarioCoverage(ToSet(ScenarioResult(R, name).components))]
  BY <1>1, <1>7 DEF ReportedCostCoverage
<1>. QED
  BY <1>8, <1>9, <1>10

LEMMA ValidationAgain ==
  ASSUME NEW t, NEW R, NEW c, HoldsResult(t, R, c), IsValidation(R.validation)
  PROVE  /\ StoredValidation(t) = R.validation
         /\ StoredDataGaps(t) = ReportedDataGaps(R)
         /\ t.notes = NoteRows(c)
<1>1. PICK v : v = R.validation
  OBVIOUS
<1>2. t.validation = ValidationRow(v) /\ t.issues = v.issues /\ t.notes = NoteRows(c)
  BY <1>1 DEF HoldsResult, Tables
<1>3. v = [evaluated_at |-> v.evaluated_at, disposition |-> v.disposition,
           confidence_score |-> v.confidence_score,
           confidence_label |-> v.confidence_label, issues |-> v.issues]
  BY <1>1 DEF IsValidation, Validation
<1>4. PICK w : w = ValidationRow(v)
  OBVIOUS
<1>5. w = [evaluated_at |-> v.evaluated_at, disposition |-> v.disposition,
           confidence_score |-> v.confidence_score, confidence_label |-> v.confidence_label]
  BY <1>4 DEF ValidationRow
<1>6. PICK x : x = Extended(w, "issues", v.issues)
  OBVIOUS
<1>7. x = [f \in DOMAIN w \cup {"issues"} |-> IF f = "issues" THEN v.issues ELSE w[f]]
  BY <1>6 DEF Extended
<1>8. x = v
  BY <1>3, <1>5, <1>7
<1>9. StoredDataGaps(t) = DataGaps(v.issues, NoteRows(c).unknowns)
  BY <1>2 DEF StoredDataGaps
<1>10. NoteRows(c).unknowns = ToBag(c.unknowns)
  BY DEF NoteRows
<1>11. R.case = c
  BY DEF HoldsResult
<1>12. ReportedDataGaps(R) = DataGaps(v.issues, ToBag(c.unknowns))
  BY <1>1, <1>11 DEF ReportedDataGaps
<1>. QED
  BY <1>1, <1>2, <1>4, <1>6, <1>8, <1>9, <1>10, <1>12 DEF StoredValidation

\* No leading offer is left out of the summary, nor does one make the reader give up.
LEMMA SummaryAgain ==
  ASSUME NEW t, NEW R, NEW c, HoldsResult(t, R, c), Judged(R, c), Costing(R.scenarios),
         IsValidation(R.validation), None \notin Nat
  PROVE  StoredExecutiveSummary(t) = ReportedExecutiveSummary(R)
<1>1. TypedCase(c) /\ ScenariosComplete(c) /\ R.case = c
  BY DEF HoldsResult
<1>2. PICK O : O = Offers(t)
  OBVIOUS
<1>3. O = ReportedOffers(R)
      /\ \A p : p \in O <=> \E o \in ToSet(c.observations) : p = Point(o, RankingOf(R, o))
  BY <1>2, OffersAgain
<1>4. ASSUME NEW p \in O, p.ranking.rank = 1
      PROVE  CandidateComplete(p)
  <2>1. PICK o \in ToSet(c.observations) : p = Point(o, RankingOf(R, o))
    BY <1>3
  <2>2. PICK r : r = RankingOf(R, o)
    OBVIOUS
  <2>3. r \in R.rankings /\ RankingFor(c, o, r)
    BY <1>1, <2>2, RankingIs
  <2>4. PICK S : S = Rankings(Drafts(c, Matched(c)))
    OBVIOUS
  <2>5. r \in S
    BY <2>3, <2>4 DEF Judged
  <2>6. p = Point(o, r)
    BY <2>1, <2>2
  <2>7. p.ranking = r
    BY <2>6 DEF Point
  <2>8. r.rank = 1
    BY <1>4, <2>7
  <2>9. RecordedOffer(o)
    BY QuotedAgain
  <2>10. CandidateComplete(Point(o, r))
    BY <1>1, <2>3, <2>4, <2>5, <2>8, <2>9, LeaderComplete
  <2>. QED
    BY <2>6, <2>10
<1>5. PICK L : L = {p \in O : p.ranking.rank = 1}
  OBVIOUS
<1>6. Leaders(t) = L /\ \A p \in L : CandidateComplete(p)
  BY <1>2, <1>4, <1>5 DEF Leaders
<1>7. {q \in ReportedOffers(R) : q.ranking.rank = 1 /\ CandidateComplete(q)} = L
  BY <1>3, <1>4, <1>5
<1>8. PICK K : K = {Candidate(p.observation, p.ranking) : p \in L}
  OBVIOUS
<1>9. ReportedCandidates(R) = K
  BY <1>7, <1>8 DEF ReportedCandidates
<1>10. PICK gaps : gaps = ReportedDataGaps(R)
  OBVIOUS
<1>11. StoredDataGaps(t) = gaps
  BY <1>10, ValidationAgain
<1>12. PICK base : base = ScenarioResult(R, "BASE")
  OBVIOUS
<1>13. ScenarioNamed(t, "BASE") = ScenarioRow(base)
  <2>1. "BASE" \in ScenarioName
    BY DEF ScenarioName
  <2>. QED
    BY <1>12, <2>1, ScenarioAgain
<1>14. PICK v : v = R.validation
  OBVIOUS
<1>15. t.validation = ValidationRow(v)
  BY <1>14 DEF HoldsResult, Tables
<1>16. StoredExecutiveSummary(t) = ExecutiveSummary(ValidationRow(v), ScenarioRow(base), K, gaps)
  BY <1>6, <1>8, <1>11, <1>13, <1>15 DEF StoredExecutiveSummary
<1>17. ReportedExecutiveSummary(R) = ExecutiveSummary(v, base, K, gaps)
  BY <1>9, <1>10, <1>12, <1>14 DEF ReportedExecutiveSummary
<1>18. /\ ValidationRow(v).disposition = v.disposition
       /\ ValidationRow(v).confidence_score = v.confidence_score
       /\ ValidationRow(v).confidence_label = v.confidence_label
       /\ ScenarioRow(base).per_unit = base.per_unit
       /\ ScenarioRow(base).target_currency = base.target_currency
  BY DEF ValidationRow, ScenarioRow
<1>19. ExecutiveSummary(ValidationRow(v), ScenarioRow(base), K, gaps)
         = ExecutiveSummary(v, base, K, gaps)
  BY <1>18 DEF ExecutiveSummary
<1>. QED
  BY <1>16, <1>17, <1>19

\* What is known of the result that a stored run was persisted from.
LEMMA StoredResult ==
  ASSUME EvaluationInv, RecordInv, stage = "stored"
  PROVE  /\ HoldsResult(rows, Result, case) /\ Judged(Result, case) /\ Costing(Result.scenarios)
         /\ IsValidation(Result.validation) /\ None \notin Nat
         /\ rows.report = RenderMarkdown(Result)
         /\ case.quantity = Opportunity.quantity /\ Result.case = case
<1>1. stage \in Compared /\ stage \in Placed /\ stage \in Validated /\ stage \in Costed
  BY DEF Compared, Placed, Validated, Checked, Parsed, Costed
<1>2. /\ TypedCase(case) /\ ScenariosComplete(case) /\ RecordedCase(case)
      /\ rows = ResultRows(Result, report) /\ Persistable
      /\ Result.case = case /\ Result.validation = validation /\ Result.matches = matches
      /\ Result.rankings = rankings /\ Result.scenarios = scenarios
      /\ report = RenderMarkdown(Result)
  BY StoredFacts
<1>3. PICK R : R = Result
  OBVIOUS
<1>4. PICK t : t = ResultRows(R, report)
  OBVIOUS
<1>5. Tables(t, R, report, EvidenceRows(R))
  BY <1>4, RowsOf
<1>6. HoldsResult(t, R, case)
  BY <1>2, <1>3, <1>5 DEF HoldsResult
<1>7. t = rows /\ t.report = report
  BY <1>2, <1>3, <1>4, <1>5 DEF Tables
<1>8. /\ matches = Matched(case) /\ rankings = Rankings(Drafts(case, Matched(case)))
      /\ IsValidation(validation)
      /\ scenarios = [i \in DOMAIN case.scenarios |-> LandedCost(case.scenarios[i])]
  BY <1>1 DEF EvaluationInv, MatchesRecorded, RankingsRecorded, Concerned, RecordInv, CostsKept
<1>9. Judged(R, case)
  BY <1>2, <1>3, <1>8 DEF Judged
<1>10. Costing(scenarios)
  <2>1. PICK costs : costs = scenarios
    OBVIOUS
  <2>. QED
    BY <1>2, <1>8, <2>1, CaseIsCosted
<1>11. case.quantity = Opportunity.quantity
  BY <1>2 DEF Persistable, AboutOpportunity
<1>. QED
  BY <1>2, <1>3, <1>6, <1>7, <1>8, <1>9, <1>10, <1>11, BundlesAssumption

\* What the report and the tables of a result say, section by section.
SameTold(t, R, quantity) ==
  LET told == RenderMarkdown(R) IN
  /\ told.validation = StoredValidation(t) /\ told.data_gaps = StoredDataGaps(t)
  /\ told.executive_summary = StoredExecutiveSummary(t)
  /\ told.landed_cost = StoredLandedCost(t) /\ told.sensitivity = StoredSensitivity(t)
  /\ AtScale("fx_rates", told.fx_rates) = StoredFXRates(t)
  /\ told.cost_coverage = StoredCostCoverage(t)
  /\ AtScale("prices", told.prices) = StoredPrices(t) /\ told.matches = StoredMatches(t)
  /\ told.rankings = StoredRankings(t)
  /\ told.supplier_coverage = StoredSupplierCoverage(t)
  /\ told.identity_claims = StoredIdentityClaims(t)
  /\ told.incoterms = StoredIncoterms(t) /\ told.offer_terms = StoredOfferTerms(t)
  /\ told.quantity = StoredQuantity(t, quantity)
  /\ told.distribution = StoredDistribution(t) /\ told.notes = t.notes

LEMMA ReportAgain ==
  ASSUME NEW t, NEW R, NEW c, HoldsResult(t, R, c), Judged(R, c), Costing(R.scenarios),
         IsValidation(R.validation), None \notin Nat, R.case = c
  PROVE  SameTold(t, R, c.quantity)
<1> USE DEF RenderMarkdown
<1>1. /\ RenderMarkdown(R).validation = R.validation
      /\ RenderMarkdown(R).data_gaps = ReportedDataGaps(R)
      /\ RenderMarkdown(R).executive_summary = ReportedExecutiveSummary(R)
      /\ RenderMarkdown(R).landed_cost = ReportedLandedCost(R)
      /\ RenderMarkdown(R).sensitivity = ReportedSensitivity(R)
      /\ RenderMarkdown(R).fx_rates = ReportedFXRates(R)
  OBVIOUS
<1>2. /\ RenderMarkdown(R).cost_coverage = ReportedCostCoverage(R)
      /\ RenderMarkdown(R).prices = ReportedPrices(R)
      /\ RenderMarkdown(R).matches = ToSet(R.matches)
      /\ RenderMarkdown(R).rankings = R.rankings
      /\ RenderMarkdown(R).supplier_coverage = ReportedSupplierCoverage(R)
      /\ RenderMarkdown(R).identity_claims = ReportedIdentityClaims(R)
  OBVIOUS
<1>3. /\ RenderMarkdown(R).incoterms = ReportedIncoterms(R)
      /\ RenderMarkdown(R).offer_terms = ReportedOfferTerms(R)
      /\ RenderMarkdown(R).quantity = ReportedQuantity(R)
      /\ RenderMarkdown(R).distribution = ReportedDistribution(R)
      /\ RenderMarkdown(R).notes = NoteRows(c)
  OBVIOUS
<1> HIDE DEF RenderMarkdown
<1>4. /\ StoredValidation(t) = R.validation
      /\ StoredDataGaps(t) = ReportedDataGaps(R)
      /\ t.notes = NoteRows(c)
  BY ValidationAgain
<1>5. StoredExecutiveSummary(t) = ReportedExecutiveSummary(R)
  BY SummaryAgain
<1>6. /\ StoredLandedCost(t) = ReportedLandedCost(R)
      /\ StoredSensitivity(t) = ReportedSensitivity(R)
      /\ StoredCostCoverage(t) = ReportedCostCoverage(R)
  BY LandedCostAgain, SensitivityAgain, CostCoverageAgain
<1>7. /\ StoredFXRates(t) = AtScale("fx_rates", ReportedFXRates(R))
      /\ StoredIdentityClaims(t) = ReportedIdentityClaims(R)
  BY RatesAgain, ClaimsViewAgain
<1>8. /\ StoredRankings(t) = R.rankings
      /\ StoredMatches(t) = ToSet(R.matches)
      /\ StoredPrices(t) = AtScale("prices", ReportedPrices(R))
  BY RankingsAgain
<1>9. /\ StoredSupplierCoverage(t) = ReportedSupplierCoverage(R)
      /\ StoredOfferTerms(t) = ReportedOfferTerms(R)
      /\ StoredQuantity(t, c.quantity) = ReportedQuantity(R)
      /\ StoredDistribution(t) = ReportedDistribution(R)
      /\ StoredIncoterms(t) = ReportedIncoterms(R)
  BY OfferViewsAgain
<1>. QED
  BY <1>1, <1>2, <1>3, <1>4, <1>5, <1>6, <1>7, <1>8, <1>9, Zenon DEF SameTold

CommonSections == {"validation", "sensitivity", "notes", "executive_summary"}

LEMMA ReportIsTold ==
  ASSUME EvaluationInv, RecordInv, stage = "stored",
         NEW view \in {Stored(rows, Opportunity.quantity), Decision(rows)},
         NEW section \in DOMAIN view \cap DOMAIN rows.report
  PROVE  AtScale(section, rows.report[section]) = view[section]
<1>1. PICK t : t = rows
  OBVIOUS
<1>2. PICK R : R = Result
  OBVIOUS
<1>3. PICK n : n = Opportunity.quantity
  OBVIOUS
<1>4. SameTold(t, R, n) /\ t.report = RenderMarkdown(R)
  <2>1. /\ HoldsResult(t, R, case) /\ Judged(R, case) /\ Costing(R.scenarios)
        /\ IsValidation(R.validation) /\ None \notin Nat
        /\ t.report = RenderMarkdown(R) /\ case.quantity = n /\ R.case = case
    BY <1>1, <1>2, <1>3, StoredResult
  <2>2. SameTold(t, R, case.quantity)
    BY <2>1, ReportAgain
  <2>. QED
    BY <2>1, <2>2
<1>5. PICK told : told = RenderMarkdown(R)
  OBVIOUS
<1>6. CASE view = Stored(rows, Opportunity.quantity)
  <2>1. PICK w : w = Stored(t, n)
    OBVIOUS
  <2>2. DOMAIN w = {"validation", "data_gaps", "executive_summary", "landed_cost", "sensitivity",
                    "fx_rates", "cost_coverage", "prices", "matches", "rankings",
                    "supplier_coverage", "identity_claims", "incoterms", "offer_terms",
                    "quantity", "distribution", "notes"}
    BY <2>1 DEF Stored
  <2>3. /\ w.validation = StoredValidation(t) /\ w.data_gaps = StoredDataGaps(t)
        /\ w.executive_summary = StoredExecutiveSummary(t)
        /\ w.landed_cost = StoredLandedCost(t) /\ w.sensitivity = StoredSensitivity(t)
        /\ w.fx_rates = StoredFXRates(t) /\ w.cost_coverage = StoredCostCoverage(t)
        /\ w.prices = StoredPrices(t) /\ w.matches = StoredMatches(t)
        /\ w.rankings = StoredRankings(t)
    BY <2>1 DEF Stored
  <2>4. /\ w.supplier_coverage = StoredSupplierCoverage(t)
        /\ w.identity_claims = StoredIdentityClaims(t)
        /\ w.incoterms = StoredIncoterms(t) /\ w.offer_terms = StoredOfferTerms(t)
        /\ w.quantity = StoredQuantity(t, n)
        /\ w.distribution = StoredDistribution(t) /\ w.notes = t.notes
    BY <2>1 DEF Stored
  <2>5. \A f \in DOMAIN w : AtScale(f, told[f]) = w[f]
    <3>1. \A f \in DOMAIN w \ {"prices", "fx_rates"} : told[f] = w[f]
      BY <1>4, <1>5, <2>2, <2>3, <2>4 DEF SameTold
    <3>2. /\ AtScale("prices", told["prices"]) = w["prices"]
          /\ AtScale("fx_rates", told["fx_rates"]) = w["fx_rates"]
      BY <1>4, <1>5, <2>3 DEF SameTold
    <3>3. ASSUME NEW f \in DOMAIN w, f # "prices", f # "fx_rates"
          PROVE  AtScale(f, told[f]) = w[f]
      <4>1. PICK x : x = told[f]
        OBVIOUS
      <4>2. AtScale(f, x) = x
        BY <3>3, SectionAtScale
      <4>. QED
        BY <3>1, <3>3, <4>1, <4>2
    <3>. QED
      BY <3>2, <3>3
  <2>6. view = w /\ rows.report = told
    BY <1>1, <1>3, <1>4, <1>5, <1>6, <2>1
  <2>. QED
    BY <2>5, <2>6
<1>7. CASE view = Decision(rows)
  <2>1. PICK w : w = Decision(t)
    OBVIOUS
  <2>2. DOMAIN w = {"validation", "scenarios", "sensitivity", "notes", "leading_offers",
                    "executive_summary", "report"}
    BY <2>1 DEF Decision
  <2>3. /\ w.validation = StoredValidation(t) /\ w.sensitivity = StoredSensitivity(t)
        /\ w.notes = t.notes /\ w.executive_summary = StoredExecutiveSummary(t)
    BY <2>1 DEF Decision
  <2>4. "scenarios" \notin DOMAIN told /\ "leading_offers" \notin DOMAIN told
        /\ "report" \notin DOMAIN told
    BY <1>5 DEF RenderMarkdown
  <2>5. \A f \in DOMAIN w \cap DOMAIN told : f \in CommonSections
    BY <2>2, <2>4 DEF CommonSections
  <2>6. \A f \in CommonSections : AtScale(f, told[f]) = w[f]
    <3>1. \A f \in CommonSections : told[f] = w[f]
      BY <1>4, <1>5, <2>3 DEF SameTold, CommonSections
    <3>. QED
      BY <3>1, SectionAtScale DEF CommonSections
  <2>7. view = w /\ rows.report = told
    BY <1>1, <1>4, <1>5, <1>7, <2>1
  <2>. QED
    BY <2>5, <2>6, <2>7
<1>. QED
  BY <1>6, <1>7

\* The report, rendered from the result in memory, and the views that the API rebuilds
\* from the rows, for the run and again for the latest decision, tell the same in every
\* section but the freshness, whatever the bundle and the scales of the columns: quoted
\* prices and rates up to that scale, and all that is derived from them exactly.  No
\* reader gives up on a stored run (render_markdown against the read side of
\* TradeRepository).
THEOREM ReportTellsTheRows == Spec => []ReportTellsWhatIsStored
<1>1. EvaluationInv /\ RecordInv => ReportTellsWhatIsStored
  BY ReportIsTold DEF ReportTellsWhatIsStored
<1>. QED
  BY <1>1, EvaluationHolds, RecordHolds, PTL
=============================================================================
