-------------------------- MODULE ForecastPipeline --------------------------
(***************************************************************************)
(* forecasting/ml: from the sales of a user to the predictions of a run.   *)
(* A series is what one product sold on each day of the grid.  Means and   *)
(* standard deviations are functions of a window of days, so features keep *)
(* the window; predictions are whole thousandths where the code has floats. *)
(***************************************************************************)
EXTENDS Integers, Sequences, FiniteSets, SequencesExt, FiniteSetsExt

CONSTANTS
    Week, Fortnight,          \* the windows of the features: 7 and 14 days
    MinModelRows,             \* MIN_MODEL_ROWS
    MinValidationDays,        \* MIN_VALIDATION_DAYS
    ValidationShare,          \* one day of so many is kept for validation: 5
    MaxValidationDays,        \* at most so many: 7
    MinProductHistoryDays,    \* MIN_PRODUCT_HISTORY_DAYS
    MinProductPositiveDays,   \* MIN_PRODUCT_POSITIVE_DAYS
    Today,                    \* the day of a grid without sales
    Regressor(_)              \* what the trained forest predicts for features

ASSUME PipelineAssumption ==
    /\ {Week, Fortnight} \subseteq Nat \ {0} /\ Week < Fortnight
    /\ {MinModelRows, MinValidationDays, ValidationShare, MaxValidationDays,
        MinProductHistoryDays, MinProductPositiveDays} \subseteq Nat \ {0}

Largest(a, b) == IF a > b THEN a ELSE b
Smallest(a, b) == IF a < b THEN a ELSE b

-----------------------------------------------------------------------------
(* The grid: every product on every day from the first sale to the last    *)

\* aggregate_daily_sales; records are [product, date, quantity]
DailySales(products, records) ==
    LET counted == {r \in records : r.product \in products /\ r.quantity > 0}
        dates == {r.date : r \in counted}
        first == IF dates = {} THEN Today ELSE Min(dates)
        last == IF dates = {} THEN Today ELSE Max(dates)
        Sold(p, day) == {r \in counted : r.product = p /\ r.date = day}
    IN [first |-> first, last |-> last,
        series |-> [p \in products |-> [n \in 1 .. last - first + 1 |->
                       SumFunction([r \in Sold(p, first + n - 1) |-> r.quantity])]]]

Days(daily) == daily.last - daily.first + 1

-----------------------------------------------------------------------------
(* Features *)

\* The forest is shown the very day it is to predict.
SameDayWindow(series, n, width) == SubSeq(series, Largest(1, n - width + 1), n)

\* shift(1).rolling(width, min_periods=1)
ShiftedWindow(series, n, width) == SubSeq(series, Largest(1, n - width), n - 1)

\* A deviation needs two values
Spread(window) == IF Len(window) < 2 THEN <<>> ELSE window

\* _add_history_features: day n of a series
TrainingFeatures(series, n) ==
    [lag_1 |-> IF n > 1 THEN series[n - 1] ELSE 0,
     lag_7 |-> IF n > Week THEN series[n - Week] ELSE 0,
     rolling_mean_7 |-> ShiftedWindow(series, n, Week),
     rolling_mean_14 |-> ShiftedWindow(series, n, Fortnight),
     rolling_std_7 |-> Spread(ShiftedWindow(series, n, Week))]

\* history[-width:]
Recent(history, width) ==
    SubSeq(history, Largest(1, Len(history) - width + 1), Len(history))

\* future_feature_row: the day after a history
FutureFeatures(history) ==
    [lag_1 |-> IF history = <<>> THEN 0 ELSE Last(history),
     lag_7 |-> IF Len(history) >= Week THEN history[Len(history) - Week + 1] ELSE 0,
     rolling_mean_7 |-> Recent(history, Week),
     rolling_mean_14 |-> Recent(history, Fortnight),
     rolling_std_7 |-> Spread(Recent(history, Week))]

-----------------------------------------------------------------------------
(* Training *)

FrameRows(daily) == Cardinality(DOMAIN daily.series) * Days(daily)

\* train_model
Trained(daily) == FrameRows(daily) >= MinModelRows

\* The last days of the grid are validated on, if enough rows are left to train
ValidationDays(daily) ==
    LET kept == Smallest(MaxValidationDays, Largest(1, Days(daily) \div ValidationShare))
        left == Cardinality(DOMAIN daily.series) * (Days(daily) - kept)
    IN IF Trained(daily) /\ Days(daily) >= MinValidationDays + 2 /\ left >= MinModelRows
       THEN Days(daily) - kept + 1 .. Days(daily)
       ELSE {}

TrainingDays(daily) == (1 .. Days(daily)) \ ValidationDays(daily)

-----------------------------------------------------------------------------
(* Prediction *)

\* _fallback_product_ids
TooLittleHistory(series) ==
    \/ Len(series) < MinProductHistoryDays
    \/ Cardinality({n \in DOMAIN series : series[n] > 0}) < MinProductPositiveDays

UsesFallback(daily, p) == ~Trained(daily) \/ TooLittleHistory(daily.series[p])

\* The mean of the values of some days
Mean(history, days) == SumFunctionOnSet(history, days) \div Cardinality(days)

FallbackPrediction(history) ==
    LET recent == Largest(1, Len(history) - Week + 1) .. Len(history)
        positive == {n \in DOMAIN history : history[n] > 0}
    IN IF SumFunctionOnSet(history, recent) > 0 THEN Mean(history, recent)
       ELSE IF positive # {} THEN Mean(history, positive)
       ELSE 0

Predicted(history, fallback) ==
    Largest(0, IF fallback THEN FallbackPrediction(history)
               ELSE Regressor(FutureFeatures(history)))

\* The history of a product after so many predictions: each is history to the next
Extended(daily, p, horizon) ==
    LET grown[k \in 0 .. horizon] ==
            IF k = 0 THEN daily.series[p]
            ELSE Append(grown[k - 1], Predicted(grown[k - 1], UsesFallback(daily, p)))
    IN grown[horizon]

\* The first prediction is for the last day of the grid.
PredictionsFromLastDay(daily, horizon) ==
    {[product |-> p, date |-> daily.last + offset - 1,
      demand |-> Extended(daily, p, horizon)[Days(daily) + offset]]
        : p \in DOMAIN daily.series, offset \in 1 .. horizon}

Predictions(daily, horizon) ==
    {[product |-> p, date |-> daily.last + offset,
      demand |-> Extended(daily, p, horizon)[Days(daily) + offset]]
        : p \in DOMAIN daily.series, offset \in 1 .. horizon}

\* forecast_model_metrics
Metrics(daily) ==
    LET products == DOMAIN daily.series
        Rows(days) == Cardinality(products) * Cardinality(days)
    IN [training_rows |-> Rows(TrainingDays(daily)),
        validation_rows |-> Rows(ValidationDays(daily)),
        total_products |-> Cardinality(products),
        fallback_products |-> Cardinality({p \in products : UsesFallback(daily, p)})]
=============================================================================
