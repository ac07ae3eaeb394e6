-------------------------- MODULE Recommendations --------------------------
(***************************************************************************)
(* ReorderRecommendationService over PostgreSQL: recommendations for the   *)
(* predictions of a completed run, generated anew on demand, and the       *)
(* decisions of users about them.  Generating reads the number of existing *)
(* rows and the stock in SELECTs of their own; a decision is checked on a  *)
(* row that was loaded without a lock.  Runs and stock change meanwhile    *)
(* (ForecastJobs and InventoryLedger have how).                            *)
(***************************************************************************)
EXTENDS ReorderRules, Sequences, FiniteSets, FiniteSetsExt, Functions

CONSTANTS
    Users, Clients,   \* the tenants; the concurrent requests
    None,             \* no inventory item
    Products, Runs,   \* of all users
    Owner,            \* whose product or run it is
    Forecasts,        \* [Runs -> set of [product, date, demand]], what a run predicts
    Levels,           \* the stock a product may come to: [current, minimum, safety, active]
    FirstItems,       \* the stock counted so far
    MaxWrites,        \* bound: no request begins at this time
    MaxMovements      \* bound: so many changes of stock

\* The demand for a product over a set of predictions
DemandOf(predictions, p) ==
    SumFunction([f \in {x \in predictions : x.product = p} |-> f.demand])

\* Stock is counted from 0 on, demand is forecasted from 0 on, a run predicts
\* products of its user, and a table has finitely many rows
ASSUME RecommendationsAssumption ==
    /\ MaxWrites \in Nat /\ MaxMovements \in Nat
    /\ Levels \subseteq [current : Nat, minimum : Nat, safety : Nat, active : BOOLEAN]
    /\ None \notin Levels
    /\ FirstItems \in [Products -> Levels \cup {None}]
    /\ Owner \in [Products \cup Runs -> Users]
    /\ IsFiniteSet(Products) /\ IsFiniteSet(Runs)
    /\ \A run \in Runs :
           /\ IsFiniteSet(Forecasts[run])
           /\ \A f \in Forecasts[run] :
                  /\ f.product \in Products /\ Owner[f.product] = Owner[run]
                  /\ f.demand \in Nat

VARIABLES
    runs,        \* forecast_runs: [status, updated]
    items,       \* inventory_items: a level or None
    movements,   \* inventory_stock_movements: [product, at]
    recs,        \* reorder_recommendations
    clock,       \* every commit has a time of its own
    pc, req      \* where each request is; its session

rowVars == <<runs, items, movements, recs, clock>>
vars == <<rowVars, pc, req>>

NoRequest == [run |-> None, existing |-> FALSE, refresh |-> FALSE, rows |-> {},
              seen |-> None, target |-> None]

Init ==
    /\ runs = [r \in Runs |-> [status |-> "pending", updated |-> 0]]
    /\ items = FirstItems
    /\ movements = {}
    /\ recs = {}
    /\ clock = 0
    /\ pc = [c \in Clients |-> "idle"]
    /\ req = [c \in Clients |-> NoRequest]

Goto(c, label, request) ==
    /\ pc' = [pc EXCEPT ![c] = label]
    /\ req' = [req EXCEPT ![c] = request]

\* The request is answered; its session is closed
Done(c) == Goto(c, "idle", NoRequest)

Committed == clock' = clock + 1

Begins(c) == pc[c] = "idle" /\ clock < MaxWrites

-----------------------------------------------------------------------------
(* What goes on around: a run is computed, stock is counted                *)

\* Without sales or active products a run fails: {} in Forecasts
RunSettles(run) == \E status \in {"completed", "failed"} :
    /\ clock < MaxWrites
    /\ status = "completed" => Forecasts[run] # {}
    /\ runs[run].status = "pending"
    /\ Committed
    /\ runs' = [runs EXCEPT ![run] = [status |-> status, updated |-> clock']]
    /\ UNCHANGED <<items, movements, recs, pc, req>>

StockChanges(p) == \E level \in Levels \ {items[p]} :
    /\ clock < MaxWrites /\ Cardinality(movements) < MaxMovements
    /\ Committed
    /\ items' = [items EXCEPT ![p] = level]
    /\ movements' = movements \cup {[product |-> p, at |-> clock']}
    /\ UNCHANGED <<runs, recs, pc, req>>

-----------------------------------------------------------------------------
(* generate_for_forecast_run *)

OfRun(run) == {r \in recs : r.run = run}

\* forecast_predictions: committed together with the end of the run
Predicted(run) == IF runs[run].status = "completed" THEN Forecasts[run] ELSE {}

Forecasted(run) == {f.product : f \in Predicted(run)}

\* get_predictions_grouped_by_product_for_run
PredictedDemand(run, p) == DemandOf(Predicted(run), p)

\* Who asks again gets again.
AlwaysAgain(existing, refresh) == TRUE

\* validate_regeneration_policy
MayGenerate(existing, refresh) == existing => refresh

\* The run, its predictions and the number of existing rows
GenerateBegin(c) == \E run \in Runs, refresh \in BOOLEAN :
    /\ Begins(c)
    /\ runs[run].status = "completed"
    /\ Predicted(run) # {}
    /\ MayGenerate(OfRun(run) # {}, refresh)
    /\ Goto(c, "read", [NoRequest EXCEPT !.run = run, !.refresh = refresh,
                                         !.existing = OfRun(run) # {}])
    /\ UNCHANGED rowVars

\* _build_recommendation_row
NewRow(run, p, level) ==
    LET demand == PredictedDemand(run, p)
        required == RequiredStock(demand, level.safety)
        reorder == ReorderQuantity(StockGap(required, level.current))
        risk == RiskLevel(demand, level.current, required, reorder)
    IN [run |-> run, product |-> p, predicted_demand |-> demand,
        current_stock |-> level.current, required_stock |-> required,
        reorder_quantity |-> reorder, risk_level |-> risk,
        recommended_action |-> RecommendedAction(risk), status |-> "open",
        acknowledged |-> FALSE, dismissed |-> FALSE, generated |-> clock,
        id |-> 0, raced |-> FALSE]

\* The stock of all forecasted products in one SELECT
GenerateRead(c) ==
    LET run == req[c].run IN
    /\ pc[c] = "read"
    /\ \A p \in Forecasted(run) : items[p] # None
    /\ Goto(c, "write",
            [req[c] EXCEPT !.rows = {NewRow(run, p, items[p]) : p \in Forecasted(run)}])
    /\ UNCHANGED rowVars

\* RecommendationInventoryMissingError
InventoryMissing(c) ==
    /\ pc[c] = "read"
    /\ \E p \in Forecasted(req[c].run) : items[p] = None
    /\ Done(c)
    /\ UNCHANGED rowVars

\* Rows are deleted only if some were counted
Kept(c) == IF req[c].existing THEN recs \ OfRun(req[c].run) ELSE recs

NoConstraint(c) == TRUE

\* uq_reorder_recommendations_run_product
ConstraintHolds(c) == \A r \in Kept(c) : r.run # req[c].run

\* DELETE, INSERT and COMMIT; id tells these rows from those they replace
GenerateWrite(c) ==
    /\ pc[c] = "write"
    /\ ConstraintHolds(c)
    /\ Committed
    /\ recs' = Kept(c) \cup {[r EXCEPT !.id = clock'] : r \in req[c].rows}
    /\ Done(c)
    /\ UNCHANGED <<runs, items, movements>>

GenerateRefused(c) ==
    /\ pc[c] = "write"
    /\ ~ConstraintHolds(c)
    /\ Done(c)
    /\ UNCHANGED rowVars

-----------------------------------------------------------------------------
(* update_status *)

UpdateLoad(c) == \E row \in recs, target \in RecommendationStatuses :
    /\ Begins(c)
    /\ ValidTransition(row.status, target)
    /\ Goto(c, "update", [NoRequest EXCEPT !.seen = row, !.target = target])
    /\ UNCHANGED rowVars

SameRow(row, seen) == row.run = seen.run /\ row.product = seen.product /\ row.id = seen.id

\* Columns that differ from the loaded row; a time that is set stays
Decided(row, seen, target) ==
    [row EXCEPT !.status = IF target # seen.status THEN target ELSE @,
                !.acknowledged = @ \/ (target = "acknowledged" /\ ~seen.acknowledged),
                !.dismissed = @ \/ (target = "dismissed" /\ ~seen.dismissed),
                !.raced = @ \/ row.status # seen.status]

UpdateWrite(c) == \E row \in recs :
    /\ pc[c] = "update"
    /\ SameRow(row, req[c].seen)
    /\ Committed
    /\ recs' = (recs \ {row}) \cup {Decided(row, req[c].seen, req[c].target)}
    /\ Done(c)
    /\ UNCHANGED <<runs, items, movements>>

\* The row was replaced meanwhile: no row is updated, StaleDataError
UpdateLost(c) ==
    /\ pc[c] = "update"
    /\ \A row \in recs : ~SameRow(row, req[c].seen)
    /\ Done(c)
    /\ UNCHANGED rowVars

-----------------------------------------------------------------------------
\* The API process dies, or the database ends the request: a DELETE that waited
\* for another generation finds its rows gone and its INSERT refused
RequestAborted(c) ==
    /\ pc[c] # "idle"
    /\ Done(c)
    /\ UNCHANGED rowVars

Next ==
    \/ \E run \in Runs : RunSettles(run)
    \/ \E p \in Products : StockChanges(p)
    \/ \E c \in Clients :
           \/ GenerateBegin(c) \/ GenerateRead(c) \/ InventoryMissing(c)
           \/ GenerateWrite(c) \/ GenerateRefused(c)
           \/ UpdateLoad(c) \/ UpdateWrite(c) \/ UpdateLost(c)
           \/ RequestAborted(c)

Spec == Init /\ [][Next]_vars

-----------------------------------------------------------------------------
(* Properties *)

\* Rows have their types; nothing is dated after it was committed.
TypeOK ==
    /\ \A r \in recs :
        /\ r.run \in Runs /\ r.product \in Products
        /\ Owner[r.run] = Owner[r.product]
        /\ {r.predicted_demand, r.current_stock, r.required_stock, r.reorder_quantity} \subseteq Nat
        /\ r.risk_level \in RiskLevels
        /\ r.status \in RecommendationStatuses
        /\ r.id \in 1 .. clock
        /\ r.generated < r.id
    /\ \A p \in Products : items[p] \in Levels \cup {None}
    /\ \A m \in movements : m.product \in Products /\ m.at \in 1 .. clock
    /\ \A c \in Clients : pc[c] = "write" => req[c].rows # {}

\* The recommendations of a run are of one generation: all forecasted products
\* once, or none, however many requests generate and refresh at the same time.
OneGeneration == \A run \in Runs : OfRun(run) # {} =>
    /\ runs[run].status = "completed"
    /\ {r.product : r \in OfRun(run)} = Forecasted(run)
    /\ \A r, s \in OfRun(run) :
           /\ r.id = s.id /\ r.generated = s.generated
           /\ r.product = s.product => r = s

\* The status of a recommendation and its times tell one story, and a dismissed
\* one stays dismissed, unless two requests decided about it at once.
DecisionsStand == \A r \in recs : ~r.raced =>
    /\ r.status = "dismissed" <=> r.dismissed
    /\ r.status = "acknowledged" => r.acknowledged
    /\ r.status = "open" => ~r.acknowledged

KeptOrRefreshed ==
    \A r \in recs : (\E s \in recs' : SameRow(s, r)) \/
        /\ \E s \in recs' : s.run = r.run
        /\ \E c \in Clients : pc[c] = "write" /\ req[c].refresh /\ req[c].run = r.run

\* Recommendations, and what users decided about them, are thrown away only by a
\* request that asked for a refresh, and then for new ones of the same run.
OnlyRefreshReplaces == [][KeptOrRefreshed]_vars

\* A recommendation names a quantity exactly if it tells to reorder or to watch,
\* the quantity brings the stock to what is required, and stock that is to be
\* reviewed as too much is not short.
ActionMatchesQuantity == \A r \in recs :
    /\ r.reorder_quantity > 0 <=> r.recommended_action \in {"reorder_now", "monitor"}
    /\ r.current_stock + r.reorder_quantity >= r.required_stock
    /\ r.reorder_quantity > 0 => r.current_stock + r.reorder_quantity = r.required_stock
    /\ r.recommended_action = "reorder_now" <=> r.current_stock < r.predicted_demand
=============================================================================
