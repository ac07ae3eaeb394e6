--------------------------- MODULE SalesAnalytics ---------------------------
(***************************************************************************)
(* What the API says about the stored sales: the list of transactions, the *)
(* summary, the trends and the summary by product of the sales module, the *)
(* sales report, the demand trends of the dashboard, and the forecasts and *)
(* the actual demand of the forecasting module.  Each has a WHERE clause   *)
(* of its own over the same tables.                                        *)
(***************************************************************************)
EXTENDS SalesRecords, ForecastPipeline, Listing

CONSTANTS
    Dates,                \* the dates of sales and of date ranges, whole numbers
    Intervals,            \* "day", "week", "month"
    PeriodStart(_, _),    \* date_trunc of PostgreSQL: interval, date
    DefaultDays,          \* DEFAULT_DASHBOARD_DAYS, DEFAULT_REPORT_DAYS
    Horizon,              \* the days to forecast
    CategoryOwner         \* [categories -> Users]

\* A user's products are finitely many; NULL is no product and no status of an upload;
\* every run forecasts a day at least
ASSUME AnalyticsAssumption ==
    /\ IsFiniteSet(Products)
    /\ None \notin Products \cup {"completed", "completed_with_errors", "failed"}
    /\ Today \in Int /\ DefaultDays \in Int /\ Horizon \in Nat \ {0}

\* The answer to what is not there, or is somebody else's, or to a range that ends
\* before it begins: an error
ErrorAnswer == [error |-> "refused"]

\* from and to are NULL for no bound
InRange(date, from, to) == (from = None \/ from <= date) /\ (to = None \/ date <= to)

\* validate_date_range: the error of a range that ends before it begins
ValidRange(from, to) == from = None \/ to = None \/ from <= to

\* resolve_dashboard_date_range, resolve_default_report_date_range
ResolvedRange(from, to) ==
    LET end == IF to = None THEN Today ELSE to
    IN [from |-> IF from = None THEN end - (DefaultDays - 1) ELSE from, to |-> end]

Quantity(S) == SumFunction([i \in S |-> sales[i].quantity])

\* SUM and AVG pass over NULL
Priced(S) == {i \in S : sales[i].total # None}
Amount(S) == SumFunction([i \in Priced(S) |-> sales[i].total])
ProductsSold(S) == {sales[i].product : i \in S}

Figures(S) == [count |-> Cardinality(S), quantity |-> Quantity(S), amount |-> Amount(S)]

-----------------------------------------------------------------------------
(* The sales module *)

\* Deleted sales count.
CountedWithDeleted(user, from, to) ==
    {i \in DOMAIN sales : sales[i].owner = user /\ InRange(sales[i].date, from, to)}

\* _aggregate_filters
Counted(user, from, to) ==
    {i \in DOMAIN sales :
        sales[i].owner = user /\ ~sales[i].deleted /\ InRange(sales[i].date, from, to)}

\* get_sales_summary_for_user; the average as its sum and its number of values
Totals(S) ==
    [figures |-> Figures(S), unique_products |-> Cardinality(ProductsSold(S)),
     average |-> <<Amount(S), Cardinality(Priced(S))>>]
Summary(user, from, to) == Totals(Counted(user, from, to))

\* GROUP BY the period
PerPeriod(S, interval) ==
    LET Start(i) == PeriodStart(interval, sales[i].date)
    IN [period \in {Start(i) : i \in S} |-> Figures({i \in S : Start(i) = period})]
Trends(user, from, to, interval) == PerPeriod(Counted(user, from, to), interval)

\* GROUP BY the product
PerProduct(S) == [p \in ProductsSold(S) |-> Figures({i \in S : sales[i].product = p})]
ByProduct(user, from, to) == PerProduct(Counted(user, from, to))

\* _transaction_filters: None for a filter that is not asked for
ListedSales(user, f) ==
    {i \in DOMAIN sales :
        /\ sales[i].owner = user
        /\ f.include_deleted \/ ~sales[i].deleted
        /\ f.product \in {None, sales[i].product}
        /\ f.category \in {None, Catalogue[sales[i].product].category}
        /\ f.source \in {None, sales[i].source}
        /\ InRange(sales[i].date, f.from, f.to)}

\* ORDER BY the date, then the time of creation, both descending: the default
SaleBefore(i, j) == sales[i].date > sales[j].date \/ (sales[i].date = sales[j].date /\ i > j)

\* list_transactions: 404 for a product of somebody else
ListTransactions(user, f, limit, offset) ==
    IF ~ValidRange(f.from, f.to) \/ f.product \notin {None} \cup OwnProducts(user) THEN ErrorAnswer
    ELSE LET rows == ListedSales(user, f)
         IN [rows |-> Page(Ordered(rows, SaleBefore), limit, offset), total |-> Cardinality(rows)]

\* get_transaction_for_user
TransactionOf(user, i, include_deleted) ==
    IF sales[i].owner = user /\ (include_deleted \/ ~sales[i].deleted) THEN sales[i] ELSE ErrorAnswer

\* list_upload_batches_for_user: the latest first
Later(a, b) == a > b
ListedUploads(user, status) ==
    Ordered({b \in DOMAIN batches :
        batches[b].owner = user /\ status \in {None, batches[b].status}}, Later)

\* list_rejected_rows: 404 for an upload of somebody else
RejectedRowsOf(user, b) ==
    IF batches[b].owner # user THEN ErrorAnswer
    ELSE Taken(rejected, {n \in DOMAIN rejected :
                             rejected[n].owner = user /\ rejected[n].batch = b})

-----------------------------------------------------------------------------
(* Reports and dashboard *)

\* _sales_filters of the reports: the product must be the user's, too
ReportedSales(user, from, to, product, category) ==
    {i \in DOMAIN sales :
        /\ sales[i].owner = user
        /\ ~sales[i].deleted
        /\ Catalogue[sales[i].product].owner = user
        /\ InRange(sales[i].date, from, to)
        /\ product \in {None, sales[i].product}
        /\ category \in {None, Catalogue[sales[i].product].category}}

SalesReportTotals(user, from, to, product, category) ==
    Totals(ReportedSales(user, from, to, product, category))

SalesReportRows(user, from, to, product, category) ==
    PerProduct(ReportedSales(user, from, to, product, category))

\* 404 for a product or a category of somebody else
Visible(user, product, category) ==
    /\ product \in {None} \cup OwnProducts(user)
    /\ category = None \/ CategoryOwner[category] = user

\* get_sales_summary_report
SalesReport(user, from, to, product, category) ==
    LET r == ResolvedRange(from, to)
    IN IF r.from > r.to \/ ~Visible(user, product, category) THEN ErrorAnswer
       ELSE [totals |-> SalesReportTotals(user, r.from, r.to, product, category),
             rows |-> SalesReportRows(user, r.from, r.to, product, category)]

\* get_demand_trends_for_user of the dashboard
DemandTrends(user, from, to, interval, product, category) ==
    PerPeriod({i \in Counted(user, from, to) :
                  /\ product \in {None, sales[i].product}
                  /\ category \in {None, Catalogue[sales[i].product].category}}, interval)

\* get_demand_trends
DashboardTrends(user, from, to, interval, product, category) ==
    LET r == ResolvedRange(from, to)
    IN IF r.from > r.to \/ ~Visible(user, product, category) THEN ErrorAnswer
       ELSE DemandTrends(user, r.from, r.to, interval, product, category)

\* get_sales_counts_for_user
TotalSalesRecords(user) == Cardinality({i \in DOMAIN sales : sales[i].owner = user /\ ~sales[i].deleted})

-----------------------------------------------------------------------------
(* Forecasts *)

ActiveProducts(user) == {p \in OwnProducts(user) : Catalogue[p].active}

\* count_user_active_products, count_user_sales_transactions and
\* validate_minimum_data: sales of archived products count
EnoughData(user) == ActiveProducts(user) # {} /\ Counted(user, None, None) # {}

\* get_user_sales_date_span
SalesSpan(user) == {sales[i].date : i \in Counted(user, None, None)}

\* get_sales_transactions_for_forecasting, sales_records_from_objects
ForecastRecords(user) ==
    {[id |-> i, product |-> sales[i].product, date |-> sales[i].date,
      quantity |-> sales[i].quantity] : i \in Counted(user, None, None)}

Daily(user) == DailySales(ActiveProducts(user), ForecastRecords(user))

\* get_actual_sales_for_forecast_dates
ActualDemand(user, from, to, interval, product) ==
    LET days == PerPeriod({i \in Counted(user, from, to) :
                              product \in {None, sales[i].product}}, interval)
    IN [period \in DOMAIN days |-> days[period].quantity]

\* get_chart_data: the demand predicted and the demand there was, None if none is
\* known; the actual demand is asked for over the days of the whole forecast
ChartPoints(user, predictions, interval, product) ==
    LET shown == {x \in predictions : product \in {None, x.product}}
        dates == {x.date : x \in predictions}
        actual == ActualDemand(user, Min(dates), Max(dates), interval, product)
        Period(x) == PeriodStart(interval, x.date)
    IN [period \in {Period(x) : x \in shown} |->
           [predicted |-> SumFunction([x \in {y \in shown : Period(y) = period} |-> x.demand]),
            actual |-> IF period \in DOMAIN actual THEN actual[period] ELSE None]]

-----------------------------------------------------------------------------
(* Properties *)

Quiet == \A c \in Clients : pc[c] = "idle"

Together(rows) ==
    [count |-> SumFunction([k \in DOMAIN rows |-> rows[k].count]),
     quantity |-> SumFunction([k \in DOMAIN rows |-> rows[k].quantity]),
     amount |-> SumFunction([k \in DOMAIN rows |-> rows[k].amount])]

NoFilter(from, to) ==
    [include_deleted |-> FALSE, product |-> None, category |-> None, source |-> None,
     from |-> from, to |-> to]

ResolvedScreensAgree(user, from, to) ==
    /\ SalesReportTotals(user, from, to, None, None) = Summary(user, from, to)
    /\ \A interval \in Intervals, product \in OwnProducts(user) \cup {None} :
        LET actual == ActualDemand(user, from, to, interval, product)
            trends == DemandTrends(user, from, to, interval, product, None)
        IN actual = [period \in DOMAIN trends |-> trends[period].quantity]

FilteredScreensAgree(user, from, to, product, category) ==
    LET report == SalesReport(user, from, to, product, category)
        Trend(interval) == DashboardTrends(user, from, to, interval, product, category)
    IN IF report = ErrorAnswer THEN \A interval \in Intervals : Trend(interval) = ErrorAnswer
       ELSE /\ Together(report.rows) = report.totals.figures
            /\ \A interval \in Intervals : Together(Trend(interval)) = report.totals.figures

\* An upload shows as many rejected rows as it counted, to its user only; a sale
\* of a file belongs to one of the user's uploads.
UploadsAgree(user) ==
    /\ \A b \in DOMAIN batches :
        LET rows == RejectedRowsOf(user, b)
        IN IF batches[b].owner = user THEN Len(rows) = batches[b].rejected ELSE rows = ErrorAnswer
    /\ LET uploads == ToSet(ListedUploads(user, None)) IN
        \A i \in Counted(user, None, None) :
            /\ TransactionOf(user, i, FALSE) # ErrorAnswer
            /\ TransactionOf(user, i, FALSE).batch \in {None} \cup uploads
    /\ Len(ListedUploads(user, None))
       = Len(ListedUploads(user, "completed")) + Len(ListedUploads(user, "completed_with_errors"))
         + Len(ListedUploads(user, "failed"))

\* Every screen tells the same story: for each range of dates the summary, the
\* list, the trends of every interval and the summary by product count the same
\* sales, quantities and amounts; so do the sales report, the dashboard and the
\* actual demand of a forecast over the range they resolve it to, for each
\* product and category as well.
ScreensAgree ==
    Quiet => \A user \in Users :
        /\ UploadsAgree(user)
        /\ PagesMakeUp(Counted(user, None, None), SaleBefore, 2)
        /\ ListTransactions(user, NoFilter(None, None), 1, 0).total = TotalSalesRecords(user)
        /\ \A from, to \in Dates \cup {None} : ValidRange(from, to) =>
            LET figures == Summary(user, from, to).figures
                r == ResolvedRange(from, to)
            IN
            /\ figures = Figures(ListedSales(user, NoFilter(from, to)))
            /\ figures = Together(ByProduct(user, from, to))
            /\ from = None /\ to = None => TotalSalesRecords(user) = figures.count
            /\ \A interval \in Intervals : figures = Together(Trends(user, from, to, interval))
            /\ r.from <= r.to => ResolvedScreensAgree(user, r.from, r.to)
            /\ \A product \in Products \cup {None},
                  category \in {None} \cup {Catalogue[p].category : p \in Products} :
                   to = None /\ None \in {product, category} =>
                       FilteredScreensAgree(user, from, to, product, category)

\* The forest is asked what it was trained for: the features of any day of the
\* training frame are those that a prediction for that day would be made from,
\* had the grid ended the day before.  No day sees its own sales or later ones.
ServedAsTrained ==
    Quiet => \A user \in Users : EnoughData(user) =>
        LET daily == Daily(user) IN
        \A p \in DOMAIN daily.series : \A n \in 1 .. Days(daily) :
            TrainingFeatures(daily.series[p], n) = FutureFeatures(SubSeq(daily.series[p], 1, n - 1))

\* A run forecasts the days after the last counted sale, each active product
\* once a day, and never less than nothing, and the chart of a product has no actual
\* demand yet (that of all products may: it counts the sales of archived ones);
\* validation keeps rows of later days than training has, and loses none.
ForecastsCoverTheHorizon ==
    Quiet => \A user \in Users : EnoughData(user) =>
        LET daily == Daily(user)
            predictions == Predictions(daily, Horizon)
            metrics == Metrics(daily)
        IN
        /\ Cardinality(predictions) = Horizon * Cardinality(ActiveProducts(user))
        /\ \A p \in ActiveProducts(user), offset \in 1 .. Horizon :
               \E x \in predictions : x.product = p /\ x.date = daily.last + offset
        /\ \A x \in predictions :
               /\ x.demand >= 0
               /\ \A i \in Counted(user, None, None) :
                      sales[i].product = x.product => sales[i].date < x.date
        /\ metrics.training_rows + metrics.validation_rows = FrameRows(daily)
        /\ \A t \in TrainingDays(daily), v \in ValidationDays(daily) : t < v
        /\ metrics.validation_rows > 0 => metrics.training_rows >= MinModelRows
        /\ metrics.fallback_products <= metrics.total_products
        /\ \A interval \in Intervals, p \in ActiveProducts(user) :
            LET points == ChartPoints(user, predictions, interval, p)
            IN \A period \in DOMAIN points : points[period].actual = None
=============================================================================
