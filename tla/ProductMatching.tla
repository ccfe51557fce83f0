-------------------------- MODULE ProductMatching --------------------------
(***************************************************************************)
(* How closely an observed offer matches the product of the case: by the   *)
(* words of the two names and by the requested attributes.                 *)
(***************************************************************************)
EXTENDS CaseModel, SequencesExt

\* |words in common| / |words of either|, as a ratio; no word, no similarity.
NameSimilarity(requested, observed) ==
  LET r == ToSet(requested)  o == ToSet(observed)
  IN  IF r = {} \/ o = {} THEN <<0, 1>>
      ELSE <<Cardinality(r \cap o), Cardinality(r \cup o)>>

AtLeast(ratio, percent) == 100 * ratio[1] >= percent * ratio[2]

\* The attributes of an offer; its variant counts as one, unless it names one.
CandidateAttributes(o) ==
  IF Truthy(o.product_variant) /\ "variant" \notin DOMAIN o.product_attributes
    THEN [k \in DOMAIN o.product_attributes \cup {"variant"} |->
            IF k = "variant" THEN o.product_variant ELSE o.product_attributes[k]]
    ELSE o.product_attributes

Least(a, b) == IF a < b THEN a ELSE b

Bounded(n, low, high) == IF n < low THEN low ELSE Least(n, high)

\* 60 points for the name, 30 for agreement, 10 for coverage, 20 off per conflict.
MatchScore(similarity, requested, matched, supplied, conflicts) ==
  LET d == IF requested = 0 THEN similarity[2] ELSE similarity[2] * requested
      raw == IF requested = 0 THEN 100 * similarity[1]
             ELSE 60 * similarity[1] * requested
                    + similarity[2] * (30 * matched + 10 * supplied - 20 * conflicts * requested)
  IN  Rounded(Bounded(raw, 0, 100 * d), d)

MatchPriceObservation(case, o) ==
  LET requested == case.product_attributes
      candidate == CandidateAttributes(o)
      keys == DOMAIN requested
      supplied == keys \cap DOMAIN candidate
      matched == {k \in supplied : candidate[k] = requested[k]}
      conflicting == supplied \ matched
      missing == keys \ supplied
      exact == case.product_name = o.product_name
      similarity == NameSimilarity(case.product_name, o.product_name)
      agreement == IF keys = {} THEN <<1, 1>> ELSE <<Cardinality(matched), Cardinality(keys)>>
      comparable == AtLeast(similarity, 60) /\ AtLeast(agreement, 50) /\ conflicting = {}
      similar == exact \/ AtLeast(similarity, 35) \/ (similarity[1] > 0 /\ matched # {})
  IN  [observation_id |-> o.observation_id,
       classification |->
         IF exact /\ conflicting = {}
           THEN IF keys # {} /\ missing = {} THEN "EXACT_VARIANT" ELSE "EXACT_PRODUCT"
         ELSE IF comparable THEN "COMPARABLE"
         ELSE IF similar THEN "SIMILAR" ELSE "SUBSTITUTE",
       score |-> MatchScore(similarity, Cardinality(keys), Cardinality(matched),
                            Cardinality(supplied), Cardinality(conflicting)),
       matched_attributes |-> matched,
       conflicting_attributes |-> conflicting,
       missing_attributes |-> missing]

MatchResearchCase(case) ==
  [i \in DOMAIN case.observations |-> MatchPriceObservation(case, case.observations[i])]
=============================================================================
