---------------------------- MODULE ReorderRules ----------------------------
(***************************************************************************)
(* recommendations/domain: how much of a product to reorder, how urgent it *)
(* is, and what a user may decide about it.  Quantities are thousandths.   *)
(***************************************************************************)
EXTENDS Integers

RiskLevels == {"low", "medium", "high", "critical", "overstocked"}
RecommendationStatuses == {"open", "acknowledged", "dismissed"}

RequiredStock(demand, safety) == demand + safety
StockGap(required, current) == required - current

\* Stock beyond what is required counts as less to reorder.
GapItself(gap) == gap

ReorderQuantity(gap) == IF gap > 0 THEN gap ELSE 0

\* Safety stock is no part of what is too much.
RiskByDemand(demand, current, required, reorder) ==
    IF current <= 0 /\ demand > 0 THEN "critical"
    ELSE IF demand > 0 /\ current >= demand * 2 THEN "overstocked"
    ELSE IF reorder > 0 /\ current < demand THEN "high"
    ELSE IF reorder > 0 /\ current >= demand /\ current < required THEN "medium"
    ELSE "low"

\* calculate_risk_level: the first condition that holds
RiskLevel(demand, current, required, reorder) ==
    IF current <= 0 /\ demand > 0 THEN "critical"
    ELSE IF demand > 0 /\ current >= required * 2 THEN "overstocked"
    ELSE IF reorder > 0 /\ current < demand THEN "high"
    ELSE IF reorder > 0 /\ current >= demand /\ current < required THEN "medium"
    ELSE "low"

RecommendedAction(risk) ==
    CASE risk \in {"critical", "high"} -> "reorder_now"
      [] risk = "medium" -> "monitor"
      [] risk = "overstocked" -> "overstock_review"
      [] OTHER -> "no_reorder_needed"

\* A dismissed recommendation can be acknowledged after all.
EitherDecision(current, target) == target = current \/ target # "open"

\* ensure_status_transition
ValidTransition(current, target) ==
    \/ target = current
    \/ current = "open" /\ target \in {"acknowledged", "dismissed"}
    \/ current = "acknowledged" /\ target = "dismissed"
=============================================================================
