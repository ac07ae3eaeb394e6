------------------------------ MODULE Insights ------------------------------
(***************************************************************************)
(* What the API says about stock, forecasts and recommendations: lists and *)
(* summaries of the modules that own them, the dashboard and the reports.  *)
(* Each has WHERE clauses of its own over the same tables.                 *)
(***************************************************************************)
EXTENDS Recommendations, SequencesExt

CONSTANTS
    Category,             \* [Products -> a category or None]
    Requested,            \* [Runs -> Int]: when each run was requested, before time 0
    Intervals,            \* "day", "week", "month"
    PeriodStart(_, _),    \* date_trunc of PostgreSQL: interval, date
    SourceFloor,          \* the dashboard asks each source for at least so many: 10
    Limits                \* how many activities clients ask for

\* A user's runs are requested one after the other
ASSUME InsightsAssumption ==
    /\ SourceFloor \in Nat /\ Limits \subseteq Nat \ {0}
    /\ None \notin Products \cup Runs
    /\ Requested \in [Runs -> Int]
    /\ \A run, other \in Runs :
           run # other /\ Owner[run] = Owner[other] => Requested[run] # Requested[other]

\* The answer to what is not there, or is somebody else's: a 404 error
NotFound == [error |-> "not_found"]

Total(S, Value(_)) == SumFunction([x \in S |-> Value(x)])

-----------------------------------------------------------------------------
(* Stock *)

StockStatuses == {"healthy", "low_stock", "out_of_stock", "inactive"}

ItemsOf(user) == {p \in Products : Owner[p] = user /\ items[p] # None}

\* calculate_stock_status; reports write healthy for in_stock
StockStatus(level) ==
    IF ~level.active THEN "inactive"
    ELSE IF level.current = 0 THEN "out_of_stock"
    ELSE IF level.current <= level.minimum THEN "low_stock" ELSE "healthy"

\* What is out of stock is low as well.
LowWithoutStock(status, level) ==
    CASE status = "low_stock" -> level.active /\ level.current <= level.minimum
      [] status = "out_of_stock" -> level.active /\ level.current = 0
      [] status = "healthy" -> level.active /\ level.current > level.minimum
      [] OTHER -> ~level.active

\* The conditions of get_inventory_counts_for_user of the dashboard
DashboardCondition(status, level) ==
    CASE status = "low_stock" -> level.active /\ 0 < level.current /\ level.current <= level.minimum
      [] status = "out_of_stock" -> level.active /\ level.current = 0
      [] status = "healthy" -> level.active /\ level.current > level.minimum
      [] OTHER -> ~level.active

DashboardStock(user) ==
    [status \in StockStatuses |->
        Cardinality({p \in ItemsOf(user) : DashboardCondition(status, items[p])})]

\* _stock_status_condition of the reports
ReportCondition(status, level) ==
    IF status = "inactive" THEN ~level.active
    ELSE level.active /\
         CASE status = "out_of_stock" -> level.current = 0
           [] status = "low_stock" -> level.current \in 1 .. level.minimum
           [] status = "healthy" -> level.current > level.minimum

\* _inventory_filters; None for a filter that is not asked for
StockReportRows(user, category, status) ==
    {p \in ItemsOf(user) :
        /\ category \in {None, Category[p]}
        /\ status = None \/ ReportCondition(status, items[p])}

StockReportCounts(user, category, status) ==
    LET rows == StockReportRows(user, category, status)
    IN [counted \in StockStatuses |-> Cardinality({p \in rows : ReportCondition(counted, items[p])})]

\* _item_filters of the inventory module: its low stock includes what is out
ListedItems(user, category, status) ==
    {p \in ItemsOf(user) :
        /\ category \in {None, Category[p]}
        /\ CASE status = None -> TRUE
             [] status = "inactive" -> ~items[p].active
             [] status = "out_of_stock" -> items[p].active /\ items[p].current = 0
             [] status = "low_stock" -> items[p].active /\ items[p].current <= items[p].minimum
             [] status = "in_stock" -> items[p].active /\ items[p].current > items[p].minimum}

\* list_low_stock_items_for_user, count_low_stock_for_user
LowStock(user) ==
    {p \in ItemsOf(user) : items[p].active /\ items[p].current <= items[p].minimum}

\* get_inventory_summary_for_user, when nothing changes between its SELECTs
InventorySummary(user, since) ==
    [items |-> Cardinality(ItemsOf(user)),
     low |-> Cardinality(LowStock(user)),
     out |-> Cardinality({p \in ItemsOf(user) : items[p].active /\ items[p].current = 0}),
     quantity |-> Total(ItemsOf(user), LAMBDA p : items[p].current),
     recent |-> Cardinality({m \in movements : Owner[m.product] = user /\ m.at >= since})]

-----------------------------------------------------------------------------
(* Forecasts *)

RunsOf(user) == {run \in Runs : Owner[run] = user}

\* min, max, count and sum over predictions; no dates without any
Outlook(predictions) ==
    LET dates == {f.date : f \in predictions} IN
    [count |-> Cardinality(predictions),
     from |-> IF dates = {} THEN None ELSE Min(dates),
     to |-> IF dates = {} THEN None ELSE Max(dates),
     demand |-> Total(predictions, LAMBDA f : f.demand)]

NothingPredicted == [count |-> 0, from |-> None, to |-> None, demand |-> 0]

\* ensure_results_available
ResultsReady(run) == runs[run].status = "completed" /\ Predicted(run) # {}

\* get_result_overview
ResultOverview(run) == Outlook(Predicted(run))

\* _prediction_filters of the forecasting module; dates are the days that the
\* bounds of the request leave
ListedPredictions(user, run, product, category, dates) ==
    {f \in Predicted(run) :
        /\ Owner[f.product] = user
        /\ product \in {None, f.product}
        /\ category \in {None, Category[f.product]}
        /\ f.date \in dates}

\* get_chart_predictions_for_run
Chart(run, product, dates, interval) ==
    LET shown == {f \in Predicted(run) : product \in {None, f.product} /\ f.date \in dates}
        Period(f) == PeriodStart(interval, f.date)
    IN [period \in {Period(f) : f \in shown} |->
           Total({f \in shown : Period(f) = period}, LAMBDA f : f.demand)]

\* get_product_forecast_detail: 404 without rows
ProductDetail(user, run, product) ==
    ListedPredictions(user, run, product, None, {f.date : f \in Predicted(run)})

\* _prediction_filters of the reports
DemandReportRows(user, run, product, category, dates) ==
    {f \in Predicted(run) :
        /\ Owner[f.product] = user
        /\ product \in {None, f.product}
        /\ category \in {None, Category[f.product]}
        /\ f.date \in dates}

\* get_demand_forecast_summary_for_user
DemandReport(user, run, product, category, dates) ==
    Outlook(DemandReportRows(user, run, product, category, dates))

\* ORDER BY requested_at DESC LIMIT 1
LatestRun(user) ==
    IF RunsOf(user) = {} THEN None
    ELSE CHOOSE run \in RunsOf(user) : \A other \in RunsOf(user) : Requested[other] <= Requested[run]

CompletedRuns(user) == {run \in RunsOf(user) : runs[run].status = "completed"}

\* ORDER BY completed_at DESC LIMIT 1
LatestCompletedRun(user) ==
    IF CompletedRuns(user) = {} THEN None
    ELSE CHOOSE run \in CompletedRuns(user) :
             \A other \in CompletedRuns(user) : runs[other].updated <= runs[run].updated

\* _forecast_overview_payload of the dashboard
ForecastOverview(user) ==
    LET run == LatestCompletedRun(user) IN
    IF run = None THEN NothingPredicted ELSE Outlook(Predicted(run))

\* get_forecast_run_counts_for_user
RunCounts(user) ==
    [status \in {runs[run].status : run \in RunsOf(user)} |->
        Cardinality({run \in RunsOf(user) : runs[run].status = status})]

\* get_model_performance_summary_for_user
PerformanceReport(user, run) ==
    LET shown == {r \in RunsOf(user) : run \in {None, r}}
        Having(status) == Cardinality({r \in shown : runs[r].status = status})
    IN [total |-> Cardinality(shown), completed |-> Having("completed"), failed |-> Having("failed")]

-----------------------------------------------------------------------------
(* Recommendations *)

RiskCounts(rows) == [risk \in RiskLevels |-> Cardinality({r \in rows : r.risk_level = risk})]

StatusCounts(rows) ==
    [status \in RecommendationStatuses |-> Cardinality({r \in rows : r.status = status})]

ReorderTotal(rows) == Total(rows, LAMBDA r : r.reorder_quantity)

\* _recommendation_filters of the recommendations module
ListedRecommendations(user, f) ==
    {r \in recs :
        /\ Owner[r.run] = user /\ Owner[r.product] = user
        /\ f.run \in {None, r.run}
        /\ f.product \in {None, r.product}
        /\ f.category \in {None, Category[r.product]}
        /\ f.risk \in {None, r.risk_level}
        /\ f.status \in {None, r.status}
        /\ f.action \in {None, r.recommended_action}}

\* get_summary_for_run
RunSummary(user, run) ==
    LET rows == {r \in recs : Owner[r.run] = user /\ r.run = run} IN
    IF rows = {} THEN NotFound
    ELSE [total |-> Cardinality(rows), reorder |-> ReorderTotal(rows),
          risks |-> RiskCounts(rows),
          demand |-> Total(rows, LAMBDA r : r.predicted_demand),
          stock |-> Total(rows, LAMBDA r : r.current_stock)]

\* get_reorder_alert_counts_for_user of the dashboard: of one run or of all
AlertCounts(user, run) ==
    LET rows == {r \in recs : Owner[r.run] = user /\ run \in {None, r.run}}
    IN [reorder |-> ReorderTotal(rows), risks |-> RiskCounts(rows), statuses |-> StatusCounts(rows)]

\* _recommendation_filters of the reports
ReorderReportRows(user, run, risk, status) ==
    {r \in recs :
        /\ Owner[r.run] = user
        /\ run \in {None, r.run}
        /\ risk \in {None, r.risk_level}
        /\ status \in {None, r.status}}

\* get_reorder_summary_counts_for_user
ReorderReport(user, run, risk, status) ==
    LET rows == ReorderReportRows(user, run, risk, status)
    IN [total |-> Cardinality(rows), reorder |-> ReorderTotal(rows),
        risks |-> RiskCounts(rows), statuses |-> StatusCounts(rows)]

-----------------------------------------------------------------------------
(* Recent activity of the dashboard *)

Later(x, y) == x.at > y.at

\* ORDER BY ... DESC LIMIT n: any n events, if there are so many, that no other
\* one comes before
Latest(events, Before(_, _), n) ==
    CHOOSE shown \in SUBSET events :
        /\ Cardinality(shown) = IF n < Cardinality(events) THEN n ELSE Cardinality(events)
        /\ \A x \in shown, y \in events \ shown : ~Before(y, x)

RunEvents(user) == {[kind |-> "forecast_run", of |-> run, at |-> runs[run].updated] : run \in RunsOf(user)}

MovementEvents(user) ==
    {[kind |-> "stock_movement", of |-> m, at |-> m.at] : m \in {n \in movements : Owner[n.product] = user}}

RecommendationEvents(user) ==
    {[kind |-> "reorder_recommendation", of |-> r, at |-> r.generated] :
        r \in {s \in recs : Owner[s.run] = user}}

\* The runs requested last.
LastRequestedRuns(user, n) ==
    Latest(RunEvents(user), LAMBDA x, y : Requested[x.of] > Requested[y.of], n)

\* get_recent_forecast_runs_for_user
RecentRuns(user, n) == Latest(RunEvents(user), Later, n)

\* _recent_activity_payload
RecentActivity(user, limit) ==
    LET n == IF limit > SourceFloor THEN limit ELSE SourceFloor
        events == RecentRuns(user, n) \cup Latest(MovementEvents(user), Later, n)
                  \cup Latest(RecommendationEvents(user), Later, n)
    IN Latest(events, Later, limit)

=============================================================================
