------------------------------ MODULE Screens ------------------------------
(***************************************************************************)
(* The answers of the API that are put together from Insights: forecast    *)
(* results, recommendations, the dashboard and the reports.  An answer     *)
(* checks first whose run, product and category it is asked about.         *)
(***************************************************************************)
EXTENDS Insights, Listing

CONSTANTS
    CategoryOwner,   \* [categories -> Users]
    Sku,             \* [Products -> Int]: the order of the SKUs of a user
    Mape             \* [Runs -> Nat or None]: the error a completed run measured

ASSUME ScreensAssumption ==
    \* SKUs are unique, and a product is in a category of its user (Catalog has why)
    /\ Sku \in [Products -> Int]
    /\ \A p, q \in Products : p # q /\ Owner[p] = Owner[q] => Sku[p] # Sku[q]
    /\ \A p \in Products : Category[p] # None => CategoryOwner[Category[p]] = Owner[p]
    /\ None \notin Nat /\ Mape \in [Runs -> Nat \cup {None}]
    \* None is no filter
    /\ None \notin StockStatuses \cup {"in_stock"} \cup RiskLevels \cup RecommendationStatuses

\* Whatever is asked for (None if nothing is) is the user's own
Visible(user, run, product, category) ==
    /\ run = None \/ Owner[run] = user
    /\ product = None \/ Owner[product] = user
    /\ category = None \/ CategoryOwner[category] = user

First(rows, Before(_, _), n) == Page(Ordered(rows, Before), n, 0)

-----------------------------------------------------------------------------
(* Forecast results *)

\* _get_ready_run
ReadyRun(user, run) == Owner[run] = user /\ ResultsReady(run)

ResultOf(user, run) == IF ReadyRun(user, run) THEN ResultOverview(run) ELSE NotFound

\* ORDER BY the date, then the SKU: the default of the list
PredictionBefore(x, y) ==
    x.date < y.date \/ (x.date = y.date /\ Sku[x.product] < Sku[y.product])

\* list_predictions does not look whose category it is asked for
PredictionList(user, run, product, category, dates, limit, offset) ==
    IF ~ReadyRun(user, run) \/ ~Visible(user, None, product, None) THEN NotFound
    ELSE LET rows == ListedPredictions(user, run, product, category, dates)
         IN [rows |-> Page(Ordered(rows, PredictionBefore), limit, offset),
             total |-> Cardinality(rows)]

\* Committed together with the predictions
RunMetrics(run) == IF runs[run].status = "completed" THEN [mape |-> Mape[run]] ELSE NotFound

MetricsOf(user, run) == IF ReadyRun(user, run) THEN RunMetrics(run) ELSE NotFound

ChartOf(user, run, product, dates, interval) ==
    IF ReadyRun(user, run) /\ Visible(user, None, product, None)
    THEN Chart(run, product, dates, interval) ELSE NotFound

ProductForecast(user, run, product) ==
    IF ~ReadyRun(user, run) \/ ~Visible(user, None, product, None) THEN NotFound
    ELSE LET rows == ProductDetail(user, run, product)
         IN IF rows = {} THEN NotFound
            ELSE [rows |-> Ordered(rows, PredictionBefore), demand |-> Outlook(rows).demand]

-----------------------------------------------------------------------------
(* Recommendations *)

\* The latest first, the default of list_recommendations; what ORDER BY leaves
\* open, two runs of one time, by the order in which they were stored
RecommendationBefore(x, y) ==
    \/ x.generated > y.generated
    \/ x.generated = y.generated /\ Sku[x.product] < Sku[y.product]
    \/ x.generated = y.generated /\ Sku[x.product] = Sku[y.product] /\ x.id > y.id

\* Any id will do: what is somebody else's has no rows
RecommendationList(user, f, limit, offset) ==
    LET rows == ListedRecommendations(user, f)
    IN [rows |-> Page(Ordered(rows, RecommendationBefore), limit, offset),
        total |-> Cardinality(rows)]

\* RecommendationsNotGeneratedError, also when the filters leave nothing; for a
\* client that sorts by generated_at as well
RunRecommendations(user, f, limit, offset) ==
    LET list == RecommendationList(user, f, limit, offset)
    IN IF ~Visible(user, f.run, None, None) \/ list.total = 0 THEN NotFound ELSE list

SummaryOf(user, run) == IF Visible(user, run, None, None) THEN RunSummary(user, run) ELSE NotFound

RecommendationOf(user, r) == IF Owner[r.run] = user THEN r ELSE NotFound

-----------------------------------------------------------------------------
(* The dashboard *)

LatestMape(user) ==
    LET run == LatestCompletedRun(user) IN IF run = None THEN None ELSE RunMetrics(run).mape

\* _kpi_payload: of all runs together
Kpis(user) ==
    LET stock == DashboardStock(user)
        counted == RunCounts(user)
        alerts == AlertCounts(user, None)
    IN [items |-> Cardinality(ItemsOf(user)),
        low |-> stock["low_stock"], out |-> stock["out_of_stock"],
        runs |-> Total(DOMAIN counted, LAMBDA status : counted[status]),
        completed |-> IF "completed" \in DOMAIN counted THEN counted["completed"] ELSE 0,
        mape |-> LatestMape(user),
        open |-> alerts.statuses["open"],
        high |-> alerts.risks["high"], critical |-> alerts.risks["critical"],
        reorder |-> alerts.reorder]

LeastStockFirst(p, q) ==
    \/ items[p].current < items[q].current
    \/ items[p].current = items[q].current /\ Sku[p] < Sku[q]

\* get_low_stock_preview_for_user, get_out_of_stock_preview_for_user
StockPreview(user, status, limit) ==
    First({p \in ItemsOf(user) : DashboardCondition(status, items[p])}, LeastStockFirst, limit)

InventoryRisk(user, limit) ==
    [counts |-> DashboardStock(user),
     low |-> StockPreview(user, "low_stock", limit),
     out |-> StockPreview(user, "out_of_stock", limit)]

MostToReorderFirst(x, y) ==
    \/ x.reorder_quantity > y.reorder_quantity
    \/ x.reorder_quantity = y.reorder_quantity /\ RecommendationBefore(x, y)

\* get_top_reorder_items_for_user
TopReorderItems(user, run, risk, status, limit) ==
    First({r \in recs : /\ Owner[r.run] = user
                        /\ run \in {None, r.run}
                        /\ risk \in {None, r.risk_level}
                        /\ status \in {None, r.status}}, MostToReorderFirst, limit)

\* _reorder_alert_payload: the counts are of the run, whatever else is asked for
ReorderAlerts(user, run, risk, status, limit) ==
    IF ~Visible(user, run, None, None) THEN NotFound
    ELSE [counts |-> AlertCounts(user, run),
          top |-> TopReorderItems(user, run, risk, status, limit)]

\* get_summary; demand trends are in SalesAnalytics
DashboardSummary(user, run) ==
    IF ~Visible(user, run, None, None) THEN NotFound
    ELSE [kpis |-> Kpis(user),
          risk |-> InventoryRisk(user, 5),
          overview |-> ForecastOverview(user),
          alerts |-> ReorderAlerts(user, run, None, "open", 5),
          activity |-> RecentActivity(user, 8)]

-----------------------------------------------------------------------------
(* Reports *)

RequestedLast(x, y) == Requested[x] > Requested[y]

\* get_model_performance_rows_for_user: the runs that have metrics
PerformanceRows(user, run) ==
    Ordered({r \in RunsOf(user) : run \in {None, r} /\ RunMetrics(r) # NotFound}, RequestedLast)

\* _best_metric_row
BestMape(rows) ==
    LET measured == {Mape[r] : r \in ToSet(rows)} \ {None}
    IN IF measured = {} THEN None ELSE Min(measured)

ModelPerformanceReport(user, run) ==
    IF ~Visible(user, run, None, None) THEN NotFound
    ELSE LET rows == PerformanceRows(user, run)
         IN [summary |-> PerformanceReport(user, run), rows |-> rows, best |-> BestMape(rows),
             latest |-> IF rows = <<>> THEN None ELSE Mape[rows[1]]]

InventoryRiskReport(user, category, status) ==
    IF ~Visible(user, None, None, category) THEN NotFound
    ELSE [summary |-> StockReportCounts(user, category, status),
          rows |-> {[product |-> p, status |-> StockStatus(items[p])] :
                       p \in StockReportRows(user, category, status)}]

MostDemandedFirst(x, y) ==
    \/ x.reorder_quantity > y.reorder_quantity
    \/ /\ x.reorder_quantity = y.reorder_quantity
       /\ \/ x.predicted_demand > y.predicted_demand
          \/ x.predicted_demand = y.predicted_demand /\ RecommendationBefore(x, y)

\* _reorder_summary_payload: the rows sorted once more for the first five
ReorderSummaryReport(user, run, risk, status) ==
    IF ~Visible(user, run, None, None) THEN NotFound
    ELSE LET rows == ReorderReportRows(user, run, risk, status)
         IN [counts |-> ReorderReport(user, run, risk, status),
             top |-> First(rows, MostDemandedFirst, 5),
             rows |-> Ordered(rows, MostToReorderFirst)]

DemandForecastReport(user, run, product, category, dates) ==
    IF ~Visible(user, run, product, category) THEN NotFound
    ELSE [summary |-> DemandReport(user, run, product, category, dates),
          rows |-> Ordered(DemandReportRows(user, run, product, category, dates), PredictionBefore)]

-----------------------------------------------------------------------------
(* Properties *)

Quiet == \A c \in Clients : pc[c] = "idle"

AllOf(counts) == Total(DOMAIN counts, LAMBDA k : counts[k])

StockScreensAgree(user) ==
    LET counts == DashboardStock(user)
        summary == InventorySummary(user, 0)
        risk == InventoryRisk(user, 1)
    IN
    /\ AllOf(counts) = summary.items
    /\ (counts["low_stock"] > 0 <=> risk.low # <<>>) /\ (counts["out_of_stock"] > 0 <=> risk.out # <<>>)
    /\ \A p \in ToSet(risk.low) : \A q \in LowStock(user) :
           items[q].current < items[p].current => StockStatus(items[q]) = "out_of_stock"
    /\ counts = StockReportCounts(user, None, None)
    /\ summary.out = counts["out_of_stock"]
    /\ summary.low = counts["low_stock"] + counts["out_of_stock"]
    /\ LowStock(user) = ListedItems(user, None, "low_stock")
    /\ \A status \in StockStatuses, category \in {None} \cup {Category[p] : p \in Products} :
        LET rows == StockReportRows(user, category, status)
            report == InventoryRiskReport(user, category, status)
        IN
        /\ report # NotFound =>
            /\ \A row \in report.rows : row.status = status
            /\ AllOf(report.summary) = Cardinality(report.rows)
        /\ report = NotFound => rows = {}
        /\ status \in {"inactive", "out_of_stock"} => rows = ListedItems(user, category, status)
        /\ status = "healthy" => rows = ListedItems(user, category, "in_stock")

ForecastScreensAgree(user) ==
    LET run == LatestCompletedRun(user)
        kpis == Kpis(user)
        report == ModelPerformanceReport(user, None)
    IN
    /\ run = None => ForecastOverview(user) = NothingPredicted
    /\ run # None => ForecastOverview(user) = ResultOf(user, run)
    /\ report.summary.total = kpis.runs
    /\ report.summary.completed = kpis.completed /\ Len(report.rows) = kpis.completed
    /\ kpis.mape # None => report.best <= kpis.mape
    /\ kpis.completed = 1 => report.latest = kpis.mape

ResultScreensAgree(user, run) ==
    LET overview == ResultOf(user, run)
        dates == {f.date : f \in Predicted(run)}
        Report(p, S) == DemandForecastReport(user, run, p, None, S)
    IN
    /\ overview = Report(None, dates).summary
    /\ overview.demand = Total(Forecasted(run), LAMBDA p : Report(p, dates).summary.demand)
    /\ \A p \in {None} \cup Forecasted(run) :
        LET list == PredictionList(user, run, p, None, dates, 2, 1) IN
        /\ list.total = Report(p, dates).summary.count
        /\ list.rows = Page(Report(p, dates).rows, 2, 1)
        /\ \A interval \in Intervals, S \in SUBSET dates :
               AllOf(ChartOf(user, run, p, S, interval)) = Report(p, S).summary.demand
    /\ \A p \in Forecasted(run) :
        /\ ProductForecast(user, run, p).rows = Report(p, dates).rows
        /\ ProductForecast(user, run, p).demand = Report(p, dates).summary.demand

OfRunOnly(run) == [run |-> run, product |-> None, category |-> None,
                   risk |-> None, status |-> None, action |-> None]

ReorderScreensAgree(user, run, risk, status) ==
    LET report == ReorderSummaryReport(user, run, risk, status)
        list == RecommendationList(user, [OfRunOnly(run) EXCEPT !.risk = risk, !.status = status], 2, 0)
        alerts == ReorderAlerts(user, run, risk, status, 5)
        Quantities(rows) == [i \in DOMAIN rows |-> rows[i].reorder_quantity]
    IN
    /\ report.counts.total = list.total /\ Len(report.rows) = list.total
    /\ report.counts.total = AllOf(report.counts.risks)
    /\ report.counts.total = AllOf(report.counts.statuses)
    /\ Quantities(alerts.top) = Quantities(report.top)
    /\ None = risk /\ None = status =>
        /\ alerts.counts.reorder = report.counts.reorder
        /\ alerts.counts.risks = report.counts.risks
        /\ alerts.counts.statuses = report.counts.statuses

\* A summary is of the run's recommendations as they were generated
SummaryAgrees(user, run) ==
    LET summary == SummaryOf(user, run)
        list == RunRecommendations(user, OfRunOnly(run), 1, 0)
        report == ReorderSummaryReport(user, run, None, None)
    IN
    /\ summary = NotFound <=> list = NotFound
    /\ summary # NotFound =>
        /\ summary.total = list.total
        /\ summary.reorder = report.counts.reorder /\ summary.risks = report.counts.risks
        /\ summary.demand = ResultOf(user, run).demand

\* Nothing of another user shows, whatever id of theirs is asked for.
StrangersSeeNothing(user) ==
    /\ \A run \in Runs \ RunsOf(user) :
        /\ {ResultOf(user, run), SummaryOf(user, run), ReorderAlerts(user, run, None, None, 1),
            ModelPerformanceReport(user, run), MetricsOf(user, run), DashboardSummary(user, run),
            RunRecommendations(user, OfRunOnly(run), 1, 0),
            DemandForecastReport(user, run, None, None, {})} = {NotFound}
        /\ RecommendationList(user, OfRunOnly(run), 1, 0).total = 0
    /\ \A r \in recs : Owner[r.product] = user <=> RecommendationOf(user, r) # NotFound

\* Every screen tells the same story: the statuses of stock part the items, and
\* the dashboard, the reports and the inventory module count the same ones (what
\* the latter calls low includes what is out of stock); results, charts, reports
\* and the dashboard show the same forecast; lists, summaries, reports and alerts
\* the same recommendations, whose demand is the whole of what the run predicted;
\* and none of them shows anything of somebody else's.
InsightsAgree ==
    Quiet => \A user \in Users :
        /\ StockScreensAgree(user)
        /\ ForecastScreensAgree(user)
        /\ StrangersSeeNothing(user)
        /\ \A run \in RunsOf(user) : SummaryAgrees(user, run)
        /\ \A run \in RunsOf(user) : ResultsReady(run) => ResultScreensAgree(user, run)
        /\ \A run \in RunsOf(user) \cup {None}, risk \in {None} \cup {r.risk_level : r \in recs},
              status \in {None} \cup {r.status : r \in recs} :
               None \in {risk, status} => ReorderScreensAgree(user, run, risk, status)

\* Cutting each source before they are merged loses nothing: as many activities
\* are shown as were asked for, if there are so many, and none that is left out
\* is later than one that is shown.
RecentActivityIsRecent ==
    Quiet => \A user \in Users, limit \in Limits :
        LET shown == RecentActivity(user, limit)
            all == RunEvents(user) \cup MovementEvents(user) \cup RecommendationEvents(user)
        IN
        /\ shown \subseteq all
        /\ Cardinality(shown) = IF limit < Cardinality(all) THEN limit ELSE Cardinality(all)
        /\ \A x \in shown, y \in all \ shown : ~Later(y, x)
=============================================================================
