------------------------------ MODULE Workflow ------------------------------
(***************************************************************************)
(* The workflow vocabulary of the trade agent: the states an opportunity   *)
(* and a research run can be in, and the transition tables that the        *)
(* repository consults before it changes a status.                         *)
(***************************************************************************)

OpportunityStatus ==
  {"RESEARCHING", "SOURCING", "NEGOTIATING", "EVALUATING", "WON", "LOST", "ON_HOLD"}

ResearchRunStatus ==
  {"CREATED", "RUNNING", "NEEDS_VERIFICATION", "NEEDS_HUMAN_REVIEW", "PARTIAL",
   "COMPLETED", "FAILED", "CANCELLED"}

ResearchReviewDecision == {"APPROVE", "REJECT"}

OPPORTUNITY_TRANSITIONS ==
  [s \in OpportunityStatus |->
     CASE s = "RESEARCHING" -> {"SOURCING", "ON_HOLD", "LOST"}
       [] s = "SOURCING"    -> {"NEGOTIATING", "EVALUATING", "ON_HOLD", "LOST"}
       [] s = "NEGOTIATING" -> {"EVALUATING", "WON", "LOST", "ON_HOLD"}
       [] s = "EVALUATING"  -> {"NEGOTIATING", "WON", "LOST", "ON_HOLD"}
       [] s = "ON_HOLD"     -> {"RESEARCHING", "SOURCING", "NEGOTIATING", "EVALUATING", "LOST"}
       [] s \in {"WON", "LOST"} -> {}]

\* What the domain permits a research run to do, whoever asks for it.
RESEARCH_TRANSITIONS ==
  [s \in ResearchRunStatus |->
     CASE s = "CREATED" -> {"RUNNING", "CANCELLED"}
       [] s = "RUNNING" -> {"NEEDS_HUMAN_REVIEW", "NEEDS_VERIFICATION", "PARTIAL",
                            "COMPLETED", "FAILED", "CANCELLED"}
       [] s = "NEEDS_VERIFICATION" -> {"RUNNING", "NEEDS_HUMAN_REVIEW", "PARTIAL",
                                       "COMPLETED", "CANCELLED"}
       [] s = "NEEDS_HUMAN_REVIEW" -> {"RUNNING", "PARTIAL", "COMPLETED", "CANCELLED"}
       [] s = "PARTIAL" -> {"RUNNING", "COMPLETED", "CANCELLED"}
       [] s = "FAILED"  -> {"RUNNING", "CANCELLED"}
       [] s \in {"COMPLETED", "CANCELLED"} -> {}]

\* Mutant: a cancelled run may be started again by hand.
ManualTransitionsReopening ==
  [s \in ResearchRunStatus |->
     CASE s \in {"CREATED", "FAILED"} -> {"RUNNING", "CANCELLED"}
       [] s = "RUNNING" -> {"FAILED", "CANCELLED"}
       [] s = "CANCELLED" -> {"RUNNING"}
       [] s \in {"NEEDS_VERIFICATION", "NEEDS_HUMAN_REVIEW", "PARTIAL", "COMPLETED"} -> {}]

\* The subset of those changes that an operator may ask for by hand.
MANUAL_RESEARCH_TRANSITIONS ==
  [s \in ResearchRunStatus |->
     CASE s = "CREATED" -> {"RUNNING", "CANCELLED"}
       [] s = "RUNNING" -> {"FAILED", "CANCELLED"}
       [] s = "FAILED"  -> {"RUNNING", "CANCELLED"}
       [] s \in {"NEEDS_VERIFICATION", "NEEDS_HUMAN_REVIEW", "PARTIAL",
                 "COMPLETED", "CANCELLED"} -> {}]

REVIEWABLE_RESEARCH_STATUSES == {"NEEDS_VERIFICATION", "NEEDS_HUMAN_REVIEW", "PARTIAL"}

ReviewTarget(decision) == IF decision = "APPROVE" THEN "COMPLETED" ELSE "CANCELLED"

\* review_target_status raises unless both the source state and the edge allow it.
ReviewPermitted(current, decision) ==
  /\ current \in REVIEWABLE_RESEARCH_STATUSES
  /\ ReviewTarget(decision) \in RESEARCH_TRANSITIONS[current]

Dispositions == {"PASSED", "NEEDS_VERIFICATION", "NEEDS_HUMAN_REVIEW"}

\* The run status a validation disposition is persisted as.
OutcomeStatus(disposition) ==
  IF disposition = "PASSED" THEN "COMPLETED" ELSE disposition

SupplierIdentityReviewDecision ==
  {"EVIDENCE_SUPPORTED", "EVIDENCE_CONTRADICTED", "INCONCLUSIVE"}

SupplierIdentityReviewStatus == SupplierIdentityReviewDecision \cup {"UNREVIEWED"}
=============================================================================
