----------------------------- MODULE FoldTheory -----------------------------
(***************************************************************************)
(* What a fold over a sequence computes: the last of a chain of values,    *)
(* each made from the one before and the next element.  Evaluation folds   *)
(* wherever the code runs through a list with an accumulator; its proofs   *)
(* instantiate Op with the body of the loop.                               *)
(*                                                                         *)
(* FoldLeft is recursive, and the recursion is over sets of positions, so  *)
(* that its value has to be shown to exist first: FoldExists does so by    *)
(* induction over the numbers.  Every instance repeats what this module    *)
(* extends, so it extends the least that it can: the induction over the    *)
(* numbers is a hypothesis here, and EvaluationProofs proves it, once, as  *)
(* NumbersInduct.                                                          *)
(***************************************************************************)
EXTENDS Integers, Sequences, Folds

CONSTANT Op(_, _, _)   \* a parameter, the accumulator, the next element

\* Induction up to n, on a set in place of a predicate.
Induction ==
  \A n \in Nat : \A G :
    (0 \in G /\ \A k \in 0 .. n - 1 : k \in G => k + 1 \in G) => \A k \in 0 .. n : k \in G

-----------------------------------------------------------------------------
\* The greatest of a set of positions.
Top(s) == CHOOSE x \in s : \A y \in s : x >= y

LEMMA TopOf ==
  ASSUME NEW n \in Nat, NEW s \in SUBSET (1 .. n), n \in s
  PROVE  Top(s) = n
<1>1. \A y \in s : n >= y
  OBVIOUS
<1>2. \A x \in s : (\A y \in s : x >= y) => x = n
  OBVIOUS
<1>. QED
  BY <1>1, <1>2 DEF Top

LEMMA TopIn ==
  ASSUME Induction, NEW n \in Nat, NEW s \in SUBSET (1 .. n), s # {}
  PROVE  Top(s) \in s /\ \A y \in s : Top(s) >= y
<1> DEFINE G == {k \in 0 .. n : \A t \in SUBSET (1 .. k) : t # {} => \E x \in t : \A y \in t : x >= y}
<1>1. 0 \in G
  <2>1. \A t \in SUBSET (1 .. 0) : t = {}
    OBVIOUS
  <2>2. 0 \in 0 .. n
    OBVIOUS
  <2>. QED
    BY ONLY <2>1, <2>2
<1>2. ASSUME NEW k \in 0 .. n - 1, k \in G PROVE k + 1 \in G
  <2>1. ASSUME NEW t \in SUBSET (1 .. k + 1), t # {} PROVE \E x \in t : \A y \in t : x >= y
    <3>1. CASE k + 1 \in t
      BY <3>1
    <3>2. CASE k + 1 \notin t
      <4>1. t \in SUBSET (1 .. k)
        BY <3>2
      <4>. QED
        BY <1>2, <2>1, <4>1
    <3>. QED
      BY <3>1, <3>2
  <2>. QED
    BY <2>1
<1>3. n \in G
  <2> HIDE DEF G
  <2>. QED
    BY <1>1, <1>2 DEF Induction
<1>. QED
  BY <1>3 DEF Top

\* What a fold over 1 .. n computes for every set of positions.
IsFold(g, n, base, step) ==
  g = [s \in SUBSET (1 .. n) |-> IF s = {} THEN base ELSE step[<<g[s \ {Top(s)}], Top(s)>>]]

LEMMA FoldExists ==
  ASSUME Induction, NEW n \in Nat, NEW A, NEW base \in A, NEW step \in [A \X (1 .. n) -> A]
  PROVE  \E g \in [SUBSET (1 .. n) -> A] : IsFold(g, n, base, step)
<1> DEFINE G == {k \in 0 .. n : \E g \in [SUBSET (1 .. k) -> A] : IsFold(g, k, base, step)}
<1>1. 0 \in G
  <2> DEFINE g == [s \in SUBSET (1 .. 0) |-> base]
  <2>1. g \in [SUBSET (1 .. 0) -> A] /\ \A s \in SUBSET (1 .. 0) : s = {}
    OBVIOUS
  <2>2. IsFold(g, 0, base, step)
    BY <2>1 DEF IsFold
  <2>. QED
    BY <2>1, <2>2
<1>2. ASSUME NEW k \in 0 .. n - 1, k \in G PROVE k + 1 \in G
  <2>1. PICK g \in [SUBSET (1 .. k) -> A] : IsFold(g, k, base, step)
    BY <1>2
  <2> DEFINE h == [s \in SUBSET (1 .. k + 1) |->
                     IF k + 1 \in s THEN step[<<g[s \ {k + 1}], k + 1>>] ELSE g[s]]
  <2>2. ASSUME NEW s \in SUBSET (1 .. k + 1)
        PROVE  /\ h[s] \in A
               /\ h[s] = IF s = {} THEN base ELSE step[<<h[s \ {Top(s)}], Top(s)>>]
    <3>1. CASE k + 1 \in s
      <4>1. Top(s) = k + 1
        BY <3>1, TopOf
      <4>2. s \ {k + 1} \in SUBSET (1 .. k) /\ k + 1 \in 1 .. n
        OBVIOUS
      <4>3. h[s \ {k + 1}] = g[s \ {k + 1}] /\ g[s \ {k + 1}] \in A
        BY <4>2
      <4>4. h[s] = step[<<g[s \ {k + 1}], k + 1>>]
        BY <3>1
      <4>. QED
        BY <3>1, <4>1, <4>2, <4>3, <4>4
    <3>2. CASE k + 1 \notin s
      <4>1. s \in SUBSET (1 .. k)
        BY <3>2
      <4>2. g[s] = IF s = {} THEN base ELSE step[<<g[s \ {Top(s)}], Top(s)>>]
        BY <2>1, <4>1 DEF IsFold
      <4>3. /\ s \ {Top(s)} \in SUBSET (1 .. k) /\ s \ {Top(s)} \in SUBSET (1 .. k + 1)
            /\ k + 1 \notin s \ {Top(s)}
        <5>1. \A t \in SUBSET s : t \in SUBSET (1 .. k) /\ t \in SUBSET (1 .. k + 1) /\ k + 1 \notin t
          BY <3>2, <4>1
        <5>. QED
          BY <5>1
      <4>4. h[s] = g[s] /\ h[s \ {Top(s)}] = g[s \ {Top(s)}]
        BY <3>2, <4>3
      <4>. QED
        BY <2>1, <4>1, <4>2, <4>4
    <3>. QED
      BY <3>1, <3>2
  <2>3. h \in [SUBSET (1 .. k + 1) -> A] /\ IsFold(h, k + 1, base, step)
    <3>1. h = [s \in SUBSET (1 .. k + 1) |-> h[s]]
      OBVIOUS
    <3> HIDE DEF h
    <3>. QED
      BY <2>2, <3>1 DEF IsFold
  <2> HIDE DEF h
  <2>. QED
    BY <2>3
<1>3. n \in G
  <2> HIDE DEF G
  <2>. QED
    BY <1>1, <1>2 DEF Induction
<1>. QED
  BY <1>3

\* The prefixes of 1 .. n, which a fold goes through one position at a time.
LEMMA Prefix ==
  ASSUME NEW n \in Nat, NEW k \in 1 .. n
  PROVE  /\ 1 .. k \in SUBSET (1 .. n) /\ 1 .. k # {}
         /\ Top(1 .. k) = k /\ (1 .. k) \ {k} = 1 .. k - 1
<1>1. Top(1 .. k) = k
  BY TopOf
<1>. QED
  BY <1>1

-----------------------------------------------------------------------------
(* The fold.                                                               *)

\* FoldLeft(LAMBDA a, x : Op(p, a, x), base, seq), by its definition.
Fold(p, base, seq) ==
  MapThenFoldSet(LAMBDA x, a : Op(p, a, x), base, LAMBDA i : seq[i], Top, DOMAIN seq)

\* The chain of the values of the accumulator.
Stepwise(A, p, base, seq) ==
  \E c \in [0 .. Len(seq) -> A] :
           /\ c[0] = base
           /\ \A k \in 1 .. Len(seq) : c[k] = Op(p, c[k - 1], seq[k])
           /\ Fold(p, base, seq) = c[Len(seq)]

\* A fold whose body keeps the accumulator in a set A is such a chain, for every
\* sequence: what is true of the base and kept by the body is true of the result.
THEOREM FoldSteps ==
  ASSUME \A n \in Nat : \A G :
           (0 \in G /\ \A k \in 0 .. n - 1 : k \in G => k + 1 \in G) => \A k \in 0 .. n : k \in G,
         NEW A, NEW p, NEW base \in A, NEW B, NEW seq \in Seq(B),
         \A a \in A, x \in B : Op(p, a, x) \in A
  PROVE  Stepwise(A, p, base, seq)
<1>0. Induction
  BY DEF Induction
<1>1. PICK n \in Nat : n = Len(seq) /\ DOMAIN seq = 1 .. n
  OBVIOUS
<1> DEFINE op(a, x) == Op(p, a, x)
           step == [q \in A \X (1 .. n) |-> op(q[1], seq[q[2]])]
<1>2. \A a \in A, k \in 1 .. n : op(a, seq[k]) \in A
  BY <1>1
<1>3. step \in [A \X (1 .. n) -> A]
  <2> HIDE DEF op
  <2>. QED
    BY <1>2
<1>4. \A a \in A, k \in 1 .. n : step[<<a, k>>] = op(a, seq[k])
  OBVIOUS
<1>5. PICK g \in [SUBSET (1 .. n) -> A] : IsFold(g, n, base, step)
  <2> HIDE DEF step
  <2>. QED
    BY <1>0, <1>3, FoldExists
<1> DEFINE Folds(f) == f = [s \in SUBSET (1 .. n) |->
                              IF s = {} THEN base ELSE op(f[s \ {Top(s)}], seq[Top(s)])]
<1>6. Folds(g)
  <2>1. ASSUME NEW s \in SUBSET (1 .. n), s # {}
        PROVE  step[<<g[s \ {Top(s)}], Top(s)>>] = op(g[s \ {Top(s)}], seq[Top(s)])
    <3>1. Top(s) \in s
      BY <1>0, <2>1, TopIn
    <3>2. Top(s) \in 1 .. n /\ g[s \ {Top(s)}] \in A
      BY <3>1
    <3> HIDE DEF step, op
    <3>. QED
      BY <1>4, <3>2
  <2> HIDE DEF op, step
  <2>. QED
    BY <1>5, <2>1 DEF IsFold
<1>7. Fold(p, base, seq) = (CHOOSE f : Folds(f))[1 .. n]
  BY <1>1 DEF Fold, MapThenFoldSet
<1>8. PICK f : Folds(f) /\ (CHOOSE h : Folds(h))[1 .. n] = f[1 .. n]
  <2> HIDE DEF Folds
  <2>. QED
    BY <1>6
<1> DEFINE c == [k \in 0 .. n |-> f[1 .. k]]
<1>9. c[0] = base /\ \A k \in 1 .. n : c[k] = op(c[k - 1], seq[k])
  <2>1. 1 .. 0 = {} /\ f[{}] = base
    BY <1>8
  <2>2. ASSUME NEW k \in 1 .. n PROVE f[1 .. k] = op(f[1 .. k - 1], seq[k])
    <3> HIDE DEF op
    <3>1. \A s \in SUBSET (1 .. n) : s # {} => f[s] = op(f[s \ {Top(s)}], seq[Top(s)])
      BY <1>8
    <3>. QED
      BY <3>1, Prefix
  <2> HIDE DEF op
  <2>. QED
    BY <2>1, <2>2
<1>10. \A k \in 0 .. n : c[k] \in A
  <2> DEFINE G == {k \in 0 .. n : c[k] \in A}
  <2> HIDE DEF c, op
  <2>1. 0 \in G /\ \A k \in 0 .. n - 1 : k \in G => k + 1 \in G
    BY <1>2, <1>9
  <2>. QED
    BY <1>0, <2>1 DEF Induction
<1>11. c \in [0 .. n -> A] /\ c[n] = f[1 .. n]
  BY <1>10
<1> HIDE DEF c, Folds
<1>12. (CHOOSE h : Folds(h))[1 .. n] = c[n]
  BY <1>8, <1>11
<1>. QED
  BY <1>1, <1>7, <1>9, <1>11, <1>12 DEF Stepwise
=============================================================================
