# Invora API: a TLA+ model

Invora is a FastAPI back end for small shops: products, stock, sales history,
demand forecasts and reorder recommendations per user, stored in PostgreSQL,
with forecasts computed by RQ workers behind Redis. This directory holds TLA+
modules that follow its source, TLC configurations that check them on small
instances and TLAPS proofs of the main results for all instances. Paths below
are relative to the repository root (`app/modules/` is written `m/`).

    tlasany M.tla                       parse a module
    tlc -workers 2 -config X.cfg M      run a configuration (table below)
    tlapm M_proofs.tla                  check the proofs of M (up to a few minutes each)

## 1. The system

Every request gets a database session of its own (`app/db/session.py`) and runs
at READ COMMITTED. `expire_on_commit=False` and the lack of version columns mean
that a handler decides on what it read earlier and writes unconditionally: the
last writer wins, except where a unique index or a `FOR UPDATE` intervenes. An
UPDATE names only the columns whose value differs from the one the session
holds. All the hard behaviour of this program grows from there.

| component | code | state | operations that change it |
|---|---|---|---|
| background jobs | `m/jobs/application`, `domain`, `infrastructure` | `background_jobs` rows: status, run, attempts | enqueue, get (reconciles with RQ), cancel, retry |
| worker task | `m/jobs/tasks.py`, `worker.py` | the same rows; RQ's job status and retry counter | start, compute, finish, fail, retry |
| forecast runs | `m/forecasting/application/service.py`, `domain/runs.py` | `forecast_runs`, predictions, metrics | create, cancel, process |
| forecast pipeline | `m/forecasting/ml` | none | pure computation on products and sales |
| forecast results | `m/forecasting/api/result_routes.py` | none | read only |
| inventory | `m/inventory` | `inventory_items`, `inventory_stock_movements` | create item, post movement, patch thresholds |
| product catalog | `m/products` | `products`, `product_categories` | create, update, archive |
| sales | `m/sales` | `sales_upload_batches`, `sales_transactions`, rejected rows | upload CSV, create, update, soft delete |
| recommendations | `m/recommendations` | `reorder_recommendations` | generate, refresh, acknowledge, dismiss |
| authentication | `m/auth` | `users`, `refresh_tokens` | register, login, refresh, logout |
| rate limiter | `m/auth/infrastructure/rate_limit.py` | counters in Redis | count an attempt |
| settings | `m/settings` | one row per user | create on first use, patch, reset |
| users | `m/users` | `users` | change name, change password |
| dashboard, reports | `m/dashboard`, `m/reports` | none | read-only aggregation, CSV formatting |
| shell | `app/main.py`, `app/core` | none | wiring, configuration, error envelopes |

How they interact: the job endpoints write a job row, then push to Redis; a
worker takes the delivery, writes the job row, calls
`MLForecastingService.process_forecast_run`, which writes the run row, reads
active products and undeleted sales, and stores predictions; recommendations
read the predictions of a completed run and the inventory rows. Catalog,
sales and inventory meet in foreign keys.

What makes each correct, and what is hard about it:

* **jobs, worker, runs.** One active job per run; a bounded number of attempts;
  one computation of a run at a time; results exist exactly for completed runs;
  a polled job settles. Two transactional systems (PostgreSQL, Redis) are
  updated one after the other; RQ redelivers after deaths; cancel, retry and
  reconciliation act on stale reads.
* **inventory.** The ledger explains the stock; no lost update; no negative or
  overflowing stock; no lock that outlives its request.
* **catalog.** No active product in an archived category; unique SKUs and names
  per user; nothing of one user's in another's catalog; what is archived stays
  archived. The checks are SELECTs before the write, and only the uniqueness has
  a constraint behind it.
* **sales.** A file is counted once; the counters of a batch account for its
  rows; a total is quantity times price; a deleted sale stays deleted. Rows are
  loaded without a lock and written later; a statement can fail on one row of
  many.
* **recommendations.** One generation per run; a decision stands; only a refresh
  throws rows away; quantity, action and risk do not contradict each other. Two
  generations, a refresh and a decision meet on the same rows.
* **forecast pipeline and results.** The features a prediction is made from are
  those the forest was trained on, one day further; no day sees its own sales;
  every active product gets every day of the horizon once.
* **authentication.** A refresh token has one successor; a logged-out session is
  over; a new password ends all sessions. **Rate limiter**: at most so many
  attempts per window, whatever is refused or unanswered in between.
* **users, settings.** No confirmed choice is lost to a concurrent request for
  another field, nor to the concurrent creation of the settings row.
* **lists, dashboard, reports.** Eight modules count the same rows with WHERE
  clauses of their own: they must tell the same story, and none about somebody
  else. Pages put together are the list.

## 2. Modules

| module | models |
|---|---|
| `JobRules` | status vocabulary and guards of `m/jobs/domain/rules.py` and `m/forecasting/domain/runs.py` |
| `RunLifecycle` | abstract: what a user of a forecast run is promised (created, begun, then completed with results or failed and begun again) |
| `ForecastJobs` | API requests, PostgreSQL rows, RQ and workers, interleaved |
| `MCForecastJobs` | instances for TLC |
| `ForecastJobs_proofs` | type correctness, four safety theorems and one about redeliveries, for all endpoints and failures |
| `ForecastFlow_proofs` | four theorems about some of the endpoints and failures only |
| `StockRules` | `calculate_movement` and the quantity checks of `m/inventory/domain/stock.py` |
| `StockAccount` | abstract: an account that is opened and posted to, one step each |
| `InventoryLedger` | `InventoryService` over row locks, unique constraint, commits and aborts |
| `MCInventoryLedger` | an instance for TLC |
| `InventoryLedger_proofs` | the ledger invariant, the refinement of `StockAccount` and the use of the row locks |
| `Listing` | pages of a filtered and ordered SELECT; used by `Catalog`, `SalesAnalytics`, `Screens` |
| `ListLemmas` | lemmas on numbers, finite sets, sums, lists, ranks and pages that the proofs of several components cite |
| `CatalogRules`, `Catalog` | SKUs and prices of `m/products/domain/catalog.py`; `ProductService` over its unique constraints |
| `MCCatalog`, `Catalog_proofs` | an instance for TLC; six theorems |
| `SalesRules` | decimals, files, rows, totals and statuses of `m/sales/domain` |
| `SalesRecords` | uploads and single sales over unlocked rows |
| `ForecastPipeline` | grid, features, split, fallback and predictions of `m/forecasting/ml` |
| `SalesAnalytics` | what every module says about the stored sales, and what the pipeline makes of them |
| `MCSales`, `SalesRecords_proofs` | an instance of the four; nine theorems about the records and what is said of them |
| `ReorderRules` | gap, quantity, risk, action and transitions of `m/recommendations/domain` |
| `Recommendations` | generation, refresh and decisions, while runs and stock change |
| `Insights` | the WHERE clauses and counts of stock, forecasts and recommendations, in all modules that have them |
| `Screens` | the answers put together from `Insights`, with the checks of whose data is asked for |
| `MCRecommendations`, `Recommendations_proofs` | an instance of the four; seven theorems |
| `RateLimiter` | counters in Redis, and what they are to limit |
| `SettingsRules` | the fields, ranges and defaults of `m/settings/domain` |
| `Accounts` | registration, login, token rotation, profile and settings behind the limiter |
| `MCAccounts`, `Accounts_proofs` | an instance of the three; four theorems |

### ForecastJobs

The state is the two rows' columns that decide anything (`runStatus`, `results`;
`jobStatus`, `jobRun`, `attempts`), RQ's view of each job (`rq`,
`retriesLeft`), and for every API request and worker its place in the handler
(`pc`) and its session (`req`: what it read). `"none"` and `"absent"` stand for
a row or RQ job that does not exist. Every SELECT that a later decision uses,
every call to Redis and every commit is a step:

    enqueue_forecast_run  EnqueueLoad, CheckActiveJob, InsertJob | InsertRefused,
                          Dispatch | DispatchFails, MarkEnqueueFailed
    get_job               GetJobLoad, ReconcileRead, ReconcileWrite
    cancel_job            GetJobLoad .., CancelRq, CancelLoadRun, CancelWrite
    retry_job             GetJobLoad .., RetryLoadRun, CheckActiveJob, InsertJob, Dispatch
    create_run, cancel_run  CreateRun; CancelRunLoad, CancelRunWrite
    process_forecast_run  LoadRun, RefuseWithoutMl | BeginRun, PipelineFails | Forecast,
                          Persist | PersistFails
    the worker's task     Dequeue, LoadJob, StartJob | StartJobRefused, (process ..),
                          FinishJob | FailJob | JobError
    RQ (external)         RqSuccess, RqFailure, RqCleanup, RqExpire, WorkerLost, WorkerCrash

`WriteJob` and `WriteRun` leave the row alone when the session already holds the
new value, as the ORM does. `IndexAllows` is the partial unique index
`uq_background_jobs_active_forecast_run`; every write of an active status meets
it. `withdrawn` is a history variable.

Abstractions, all deliberate:

* The writes of one transaction become visible in its commit step. Uncommitted
  rows matter in one place: two computations of one run that have both deleted
  the old predictions will both insert the same (product, date) rows, so the
  second to commit violates the unique constraint (`Persist`, `persist_conflict`).
* A request that is refused for its input (404, too little data) ends where it
  began and is left out; a database error or the death of the API process is
  `RequestAborted`, enabled by the fault `api`.
* A statement error in a worker's open transaction leaves a session in which
  the failure cannot be recorded; to the rows and to RQ that is the death of
  the work-horse, `WorkerLost`. An error on connecting leaves the session
  usable, `WorkerDisconnected`, and the handler records it.
* After a rollback the task's job object is expired. Marking the job failed
  still works, reading its fields for the log line raises outside of the
  greenlet; therefore `fail_job_expired` ends in `raise`, which RQ retries.
* RQ is external: it takes a queued job, reports it started, and on failure
  counts down `retries_left`, putting the job on the queue at once (interval 0)
  or in the scheduled registry. `ImmediateRetry` chooses. Nothing moves a
  scheduled job back: `worker.work(with_scheduler=False)`. A worker whose
  heartbeat lapses although it is alive is not modelled; `RqCleanup` takes jobs
  from dead workers only.
* `InsertRefused` also answers when no identifier is left in `Jobs`.

### InventoryLedger

`items`, `stock`, `settings` are the inventory rows, `ledger` their movements,
`lock` the row lock of `SELECT .. FOR UPDATE`. Quantities are thousandths (more
decimals are refused by the code), so `MaxStock` is 10^14 in the code and small
in the runs. `settings` holds the thresholds and `is_active` over a set of
`Values`: they are written and read but never decide anything here. The order
of the ledger is the order of the inserts; `occurred_at` is a client's word and
orders nothing. `CreateInsert` and `PostMovement` are one commit each;
`LockItem` and `PatchWrite` wait for the row. `RefuseMovement` is the error that
`calculate_movement` raises outside of the `try`, and also the overflow of
`Numeric(14, 3)` in the database: either way the session is closed and its lock
given back.

### Catalog

A row is identified by its place in the order of creation (rows are never
deleted). `pc` is the sequence of steps a request still has to take (its checks
in the handler's order, then the write) and `req` what it was asked together
with the row it loaded:

    create_product, create_category   category?, key, write
    update_product, update_category   category?, key?, count?, write
    archive_product, archive_category count?, write
    the write                         InsertRow | UpdateRow | RefusedByConstraint

`Updated` is the ORM's UPDATE: only columns whose new value differs from the
loaded one. `ConstraintHolds` is the pair of unique constraints. `orderly` is a
history variable: the rule "categories with active products cannot be archived"
is checked by a SELECT without a constraint, and reactivating a product does not
look at its category at all, so `ArchivedCategoriesAreEmpty` is stated for
histories in which requests did not overlap and nothing was put back on sale.
SKUs are sequences of characters, because `normalize_sku` is a property of
theirs (`TypeOK`: what is stored is its own normal form, which the look-up of
uploaded rows relies on). Names are normalized already; descriptions, units and
text search are left out, a search being the set of SKUs it matches.

The list endpoints are `Listing`: `Ordered` puts every row where the number of
rows before it says, which is what an ORDER BY that ends in a unique key does,
and `Page` cuts it by LIMIT and OFFSET.

### SalesRecords, SalesAnalytics, ForecastPipeline

Quantities are thousandths, money cents; a decimal that a client sends is its
digits and how many are behind the point, and `TotalAmount` rounds a tie to the
even neighbour as `quantize` does. A file stands for its hash. The checks of a
file and of its rows are in the code's order, because the first failing one is
what is stored. `UploadBegin` ends with the look at the stored hashes and the
parse, `StoreBatch` is the one transaction with batch, sales and rejected rows;
`StoreOverflows` and `PatchOverflows` are PostgreSQL refusing a value that the
validators let through (the limit of the validator lies above the column).
`stale` remembers the sales written by a request whose loaded row had changed;
`since` in a batch the number of batches its upload could have seen. The catalog
is fixed here. Customer, channel, notes and text search are left out;
`created_at` is the order of insertion.

`SalesAnalytics` has the WHERE clauses of the sales module, the reports, the
dashboard and the forecasting module over the same table. A mean is kept as its
sum and count in `Totals`, and as the window of days in `ForecastPipeline`,
where predictions are whole thousandths instead of floats and the forest is any
function of its features (`Regressor`). The calendar features and the values of
mae, rmse and mape are left out. The order of rows that are equal in every key
of the summary by product is unspecified in the code and here. `Taken` is the
loop over the rows of a file, a recursive function of how many rows it has seen;
`Extended` is the loop that appends each prediction to the history of the next.
`ErrorAnswer` (and `NotFound` in `Insights`) is the error that a service raises
in place of an answer: a record that no answer equals.

### Recommendations, Insights, Screens

Every commit takes a time of its own from `clock`; `generated_at` is the time at
which a handler made its rows, before the commit. `id` tells the rows of one
generation from those of the next. A generation is `GenerateBegin` (run,
predictions, number of existing rows), `GenerateRead` (one SELECT of the stock),
`GenerateWrite` (DELETE if rows were counted, INSERT, COMMIT) or
`GenerateRefused` (the unique constraint); a decision is `UpdateLoad`,
`UpdateWrite` or `UpdateLost`. Runs settle and stock moves in between.
`raced` marks rows on which two decisions overlapped.

`Insights` translates each repository's filters separately, even where they look
alike: that they agree is what is checked. They do not all mean the same: what
the inventory module lists as low stock includes what is out of stock, what the
dashboard and the reports call low does not; the KPI shows the error of the run
completed last, the report that of the run requested last. `Screens` adds the
checks of ownership, orders, limits and pages. Left out: text search, averages
of the errors, filters by request date, uploads in the recent activity, and the
formatting of CSV exports. The list of a run's recommendations is modelled for
clients that sort by time (the endpoint's default is the risk level). The rows
of one commit have one `generated_at`, so PostgreSQL may return them in any
order; the model breaks such a tie by the product, one of the orders it may
choose. `Latest` is any set of the latest events of the asked size: nothing is
said of the order in which events of one moment are cut.

### Accounts, RateLimiter, SettingsRules

A counter in Redis that does not exist is 0. `Admit`, `Reject` and `Unavailable`
are one run of the Lua script each; an unanswered one may or may not have
counted. A registration, login or refresh passes its limits one after the other
before it reads the database. `users` and `settings` are tables keyed by the
email, `tokens` the refresh tokens in order of issue, each with the login it
descends from. `closed`, `raced` and `chosen` are history variables: the logins
that were ended, those of which two requests used one token at once, and what
each field was last changed to.

Passwords stand for themselves (a hash is salted: a new one always differs from
the stored one). Left out: the encodings of tokens, access tokens and their
lifetime, cookies and the origin check. `AUTH_RATE_LIMIT_ENABLED` is true.
`Deactivate` (an operator's doing), `TokenExpires` and `CounterExpires` happen
outside of the program. One setting stands for
all that share a validator. A login that verified the old password may still
issue a token after the password was changed: such a token is of a login of its
own, and `OneSessionPerLogin` says nothing against it.

## 3. Runs

| run | instance | checks | distinct states |
|---|---|---|---|
| `jobs_lifecycle` | 1 run, 2 jobs, 2 clients, 2 workers; create, enqueue, get; every fault but `redis` | `OneWorkerPerJob`, `OneProcessorPerRun`, `ImplementsLifecycle` | 0.99 M |
| `jobs_cancel` | 1 job, 2 clients, 1 worker; create, enqueue, get, cancel, cancel_run, process; redis, connect, ml, kill, persist | `RowPrecedesDelivery`, `CancelledRunNeverComputes` | 0.88 M |
| `jobs_retry` | 2 jobs, 2 clients, 1 worker; create, enqueue, get, retry; connect, persist, ml, kill | `TypeOK`, `OneActiveJobPerRun`, `AttemptsWithinBudget` | 2.2 M |
| `jobs_progress` | 2 jobs, 1 client, 1 worker, fair; connect, ml, kill | `PolledJobSettles`, `DeliveriesEnd` | 63 k |
| `inventory_ledger` | 1 product, 2 clients, `MaxStock` 3, ledgers of at most 3 requested movements and those under way, fair | `TypeOK`, `LedgerAccountsForStock`, `ImplementsAccount`, `RequestsReturn` | 0.58 M |
| `catalog` | 2 users, 2 clients, 3 rows, 6 spellings of SKUs, 1 name, 4 prices; deadlock checked | `TypeOK`, `KeysUnique`, `CategoryOfOwner`, `ArchivedCategoriesAreEmpty`, `ArchivedStaysArchived`, `PagesAreTheList` | 1.9 M |
| `sales` | 2 users, 2 clients, 4 products, 3 files, 3 manual sales, 4 patches; 2 sales asked for, 2 batches | `TypeOK`, `SalesOfOwnProducts`, `TotalsAreProducts`, `BatchesAccountForRows`, `FilesStoredOnce`, `DeletedIsFinal`, `ScreensAgree`, `ServedAsTrained`, `ForecastsCoverTheHorizon` | 0.41 M |
| `recommendations` | 2 users, 2 clients, 3 products, 3 runs, 4 levels of stock, 4 commits, 2 movements | `TypeOK`, `OneGeneration`, `DecisionsStand`, `ActionMatchesQuantity`, `OnlyRefreshReplaces`, `InsightsAgree`, `RecentActivityIsRecent` | 0.54 M |
| `accounts` | 2 emails, 2 clients, 1 address, 2 passwords, 6 patches of settings, 3 requests | `TypeOK`, `AttemptsWithinLimit`, `OneSessionPerLogin`, `ChoicesAreKept` | 1.4 M |
| `started_job_cancelled` | 1 job, 1 client, 1 worker | `JobStatusFollowsTable` is violated | |
| `completed_run_cancelled` | 1 job, 1 client, 1 worker | `CompletedRunNeverCancelled` is violated | |
| `retry_never_delivered` | as `jobs_progress`, `ImmediateRetry = FALSE` | `PolledJobSettles` is violated | |

`Ops` and `Faults` select the endpoints and the failures of a run; the choice is
part of what a result says:

* `OneProcessorPerRun` and `ImplementsLifecycle` hold for the documented
  asynchronous flow. They do not hold with the synchronous `process` endpoint
  (which knows nothing of jobs), with the cancel endpoints (a stale cancel is
  overwritten by the worker, see the findings), or when Redis reports a failure
  for a job it accepted (the row is failed, a second job is enqueued, and the
  two compute the run together). Those are excluded, not overlooked.
* `CancelledRunNeverComputes` is stated for runs cancelled while nobody is at
  work on them, in the presence of Redis failures. It excludes `retry`, whose
  stale read of the run can put a cancelled run back to pending.
* `PolledJobSettles` speaks of jobs that reached RQ. One whose API process died
  between commit and dispatch stays queued for ever.

Bounds. The properties relate at most two jobs, two workers or two requests,
and each needs at most one run; a second run shares nothing with the first but
the queue. One job suffices where the question is what two requests and a worker
do to one row; `MaxRetries = 2` gives one manual and one automatic retry.
Clients and workers are interchangeable, and so are job identifiers: symmetry is
used in the safety runs and not in the liveness runs. In the inventory,
quantities run from `-2` to `3` with `MaxStock = 3`, which meets zero, the last
valid value, the first invalid one, negative results and overflow; products do
not interact, so one is enough.

The other four runs have two clients, which suffices for every property of two
requests that overlap, and two tenants, one of whom owns what the other must not
reach. `catalog`: three rows are a category and two products or two categories
and a product, enough for a duplicate, for a category of somebody else and for a
product that enters a category being archived; the SKUs are two spellings of one,
one too long, one empty and one with a foreign character, the prices the last
valid, the limit, a negative one and one with three decimals. `sales`: the files
hold a row of each kind, one with a value its column does not take; the two days
of `Dates` lie in different weeks of the model; the windows are shortened to 2
and 3 days so that the short grids reach them. `recommendations`: one run
predicts two products over two periods, one fails, one is somebody else's; the
levels are out of stock, low, short of the safety stock only, and too much. Nothing
begins after four commits, and both requests may then be under way: a run ends, it
is generated, stock moves, and a refresh and a decision meet. `accounts`: limits of one and two attempts
with up to three requests cross every limit; the patches have both ends of a
range and the first values beyond. These four state safety only: their requests
wait for nothing but the database, and nothing is retried.

Fairness. `Progress` says that the API finishes the requests it took, that idle
workers take deliveries and work on them, and that RQ cleans up after dead
workers; these are the process loops of uvicorn and `rq worker`. `Polling` is
the client's side of docs/swagger.md, step 3: strong fairness, because the one
client may be busy otherwise. No fault is ever obliged to stop; the retry budget
is what bounds them. In `InventoryLedger`, the steps that wait for a row lock are
strongly fair because PostgreSQL queues the waiters, the others weakly. Nobody
is assumed to begin a request.

### What the three violated runs show

* `started_job_cancelled`: cancel reads `queued`, the worker commits `started`,
  cancel commits `cancelled` for job and run while the worker computes on. The
  documentation promises a conflict for started jobs; the transition table of
  `m/jobs/domain/rules.py` that excludes the step is consulted by no service.
* `completed_run_cancelled`: the same on the run row. `cancel_run` reads
  `running`, the worker completes the run, cancel overwrites `completed`.
* `retry_never_delivered`: an attempt fails, RQ schedules the retry for 30
  seconds later (the default), and no scheduler runs. The job stays `retrying`,
  which maps to `queued` in RQ and is therefore never reconciled; being active,
  it blocks the run as well.

Also met while modelling, and no claim of any document: a run whose worker died
after `running` was committed stays running until somebody cancels it; a
reconciliation that read `started` can write it over a cancelled job, which the
worker then runs (into the refusal of the cancelled run); two uploads of one file
that overlap are both stored; two PATCH requests that overlap on one sale can
leave a total of the one and a quantity of the other; two refreshes of one token
that overlap leave two live successors; a product put back on sale does not look
whether its category is archived, and a category can be archived while a product
enters it. The properties of section 3 exclude exactly these overlaps, each by a
history variable, and hold for everything else.

## 4. Theorems

Assumptions. The constants of every module have a named one, which TLC evaluates
on the instances above. Nothing is assumed about the size of the sets, except
that a table has finitely many rows: the theorems hold for any number of users,
rows, jobs, clients and workers, and those about jobs for all `Ops` and all
`Faults`. What they say, and why the code justifies it:

* `ParametersAssumption`, `InventoryAssumption`, `RateLimiterAssumption`,
  `AccountsAssumption` and the like: clients and workers are different, limits
  are natural numbers, NULL and "not sent" are none of the values they stand
  beside. JSON, pydantic and the columns keep these apart.
* `CatalogAssumption`, `SalesRulesAssumption`, `SalesAssumption`: an amount that
  a client sends is a decimal (pydantic parses it), a cell of a file a decimal, a
  date, empty or unreadable (the parser of `m/sales/domain/upload.py`
  rejects the rest), a manual sale has a date (`validate_sale_date` refuses
  null), and the characters of a SKU are those that `Upper` knows.
* `PipelineAssumption`, `AnalyticsAssumption`: the windows and thresholds of
  `m/forecasting/ml` and the default ranges are positive constants of the code;
  NULL, the filter nobody asked for, is no product and no status.
* `RecommendationsAssumption`: stock and predicted demand are not negative
  (`normalize_stock_quantity` refuses it, the pipeline cuts a prediction off at
  zero), and a run predicts products of its user.
* `InsightsAssumption`, `ScreensAssumption`: a user's runs are requested at
  different moments, no two of his products have one SKU, and a product is in a
  category of its user. The last two are `KeysUnique` and `CategoryOfOwner` of
  `Catalog`; of runs requested in one moment the code says not which is the
  latest.

Some theorems have a hypothesis besides. The four of `ForecastFlow_proofs`: the
first is for any faults and any endpoints but `retry`; `DocumentedFlow` of the
others says that `Ops` is within create, enqueue and get, and that Redis reports
no failure for a job it accepted. `RegressorAnswers`, in front of
`RunsCoverTheirHorizon`, says that the forest predicts a number (of whole
thousandths) for the features of any history; it stands there and not with the
constants because TLC cannot enumerate the histories.

| module | theorem | statement |
|---|---|---|
| `ForecastJobs_proofs` | `TypeCorrect` | `Spec => [](TypeOK /\ RowPrecedesDelivery)` |
| | `RowsPrecedeDeliveries` | `Spec => []RowPrecedesDelivery` |
| | `OneActiveJob` | `Spec => []OneActiveJobPerRun` |
| | `OneWorker` | `Spec => []OneWorkerPerJob` |
| | `AttemptsBounded` | `Spec => []AttemptsWithinBudget` |
| | `RedeliveriesRunOut` | `Spec => RedeliveriesUseUpRetries` |
| `ForecastFlow_proofs` | `CancelledStaysCancelled` | `"retry" \notin Ops => (Spec => []CancelledRunNeverComputes)` |
| | `ComputedOnce` | `DocumentedFlow => (Spec => []OneProcessorPerRun)` |
| | `FlowImplementsLifecycle` | `DocumentedFlow => (Spec => ImplementsLifecycle)` |
| | `ResultsIffCompleted` | `DocumentedFlow => (Spec => []Lifecycle!StoredIffCompleted)` |
| `InventoryLedger_proofs` | `StockFitsItsColumn` | `Spec => []TypeOK` |
| | `LedgerAccounts` | `Spec => [](TypeOK /\ LedgerAccountsForStock)` |
| | `LedgerImplementsAccount` | `Spec => ImplementsAccount` |
| | `RowLocksDoNotDeadlock` | `Spec => [](LocksAreInUse /\ NobodyWaitsForTheWaiting)` |
| `Catalog_proofs` | `CatalogTypes` | `Spec => []TypeOK` |
| | `KeysStayUnique` | `Spec => []KeysUnique` |
| | `CatalogsStayApart` | `Spec => []CategoryOfOwner` |
| | `ArchivingHolds` | `Spec => ArchivedStaysArchived` |
| | `OrderKeepsArchivedEmpty` | `Spec => []ArchivedCategoriesAreEmpty` |
| | `PagesMakeUpTheLists` | `Spec => []PagesAreTheList` |
| `SalesRecords_proofs` | `FilesAreStoredOnce` | `Spec => []FilesStoredOnce` |
| | `SalesFitTheirColumns` | `Spec => []TypeOK` |
| | `SalesAreOfOwnProducts` | `Spec => []SalesOfOwnProducts` |
| | `TotalsAreRight` | `Spec => []TotalsAreProducts` |
| | `BatchesAreAccounted` | `Spec => []BatchesAccountForRows` |
| | `DeletionIsFinal` | `Spec => DeletedIsFinal` |
| | `ScreensShowTheSame` | `Spec => []ScreensAgree` |
| | `FeaturesAreServed` | `Spec => []ServedAsTrained` |
| | `RunsCoverTheirHorizon` | `RegressorAnswers => (Spec => []ForecastsCoverTheHorizon)` |
| `Recommendations_proofs` | `RecommendationTypes` | `Spec => []TypeOK` |
| | `GenerationsNeverMix` | `Spec => []OneGeneration` |
| | `DecisionsTellOneStory` | `Spec => []DecisionsStand` |
| | `AdviceIsConsistent` | `Spec => []ActionMatchesQuantity` |
| | `OnlyRefreshes` | `Spec => OnlyRefreshReplaces` |
| | `ActivityIsTheLatest` | `Spec => []RecentActivityIsRecent` |
| | `ScreensTellOneStory` | `Spec => []InsightsAgree` |
| `Accounts_proofs` | `AccountsTypes` | `Spec => []TypeOK` |
| | `LimitHolds` | `Spec => []AttemptsWithinLimit` |
| | `SessionsAreSingle` | `Spec => []OneSessionPerLogin` |
| | `NoChoiceIsLost` | `Spec => []ChoicesAreKept` |

Arguments.

* **Jobs.** `TypeInv` joins `TypeOK` with `RowPrecedesDelivery`: that a session
  names a run when its handler needs one follows only from the job row it was
  filled from, so neither is inductive alone. `OneActiveJob` is inductive over
  it, because every write of an active status passes `IndexAllows`, or leaves a
  status that was active already. `OneWorker` needs `DeliveryInv`: RQ says
  `started` or `canceled` of every job a worker holds, and `absent` of every job
  that is about to be dispatched, so that nobody can dequeue a job that is held.
  `AttemptsBounded` needs `BudgetInv`: the attempts counted in the row and the
  retries left in RQ never exceed the budget together, one attempt is set aside
  for a delivery that waits or that the row has not counted yet, and a worker
  about to count it has read the counter as it still is. `RedeliveriesRunOut` says
  of every step what `AttemptsBounded` cannot: a delivery that dies before it is
  counted in the row is paid for all the same. A job enters the queue by its one
  dispatch or by giving up a retry, and nothing gives a retry back, so RQ delivers
  it at most `RetryBudget + 1` times. That is the finite part of `DeliveriesEnd`.
* **The documented flow.** `OpsInv`: a request is at a step of an endpoint that
  `Ops` has. `CancelledStaysCancelled` is inductive over it: nobody works on a
  withdrawn run when it is withdrawn (`NobodyWorks`), and begin refuses it ever
  after. `ComputedOnce` needs `FlowInv`: the row of a job says `started` from the
  commit of `start_job` until the task settles it, and what a reconciliation is
  about to write over it is `started` again, or the job is one that RQ is done
  with (`Settled`), so that no stale answer frees the row's place in the index.
  Two workers on one run would then be two active rows of it, which
  `OneActiveJobPerRun` excludes, or two on one job, which `OneWorkerPerJob`
  excludes. For the refinement `SeenInv` adds that the run is still what its one
  worker read of it, so that begin, complete and fail find it in the state the
  lifecycle asks for, and the conflict of two sets of results never arises.
* **Inventory.** `LedgerAccounts` needs `SessionOK`: a request about to post
  holds the lock of its row and has seen the stock that is there. The refinement
  uses the same invariant to show that a commit is one step of the account and
  everything else a stutter. `RowLocksDoNotDeadlock` is the converse: a lock that
  is held is the lock of such a request. It is inductive over `TypeOK`, since
  every end of a session, refusals and aborts included, gives back what the
  session holds, and a request takes one lock and waits for none after it.
* **Catalog.** `CatalogInv` says of the tables that keys are unique and every
  product is in a category of its user, and of each request that the row it is
  to write is its user's, that an INSERT has all its columns, and that a category
  it names exists and is its user's once the step that looks has been taken. All
  of it survives what others do, since tables only grow and rows keep their
  owners (`Grown`). `ArchivingHolds` adds that an UPDATE leaves `active` as it is
  stored or sets what was asked for. `OrderKeepsArchivedEmpty` needs
  `OrderlyInv`: while requests follow each other at most one is under way and
  what it read is current (`Current`): the row it loaded, the category it looked
  at, and, once the count is no longer ahead of its write (`CountsBeforeWrite`),
  the products it counted.
  The types need `ColumnsInv`: what a request asks for is a normal SKU, a name or
  an accepted price. That a stored SKU is the normal form of itself is a lemma
  about `NormalizeSku` (`NormalIsNormal`): stripping, upper case and the
  replacement of blanks each change nothing the second time.
* **Pages.** A row's place is the number of rows before it. For a strict total
  order no two rows have one place and none is left free (`EveryPlaceIsTaken`,
  by induction over the rows), so the list has every row once (`RankedRows`); a
  page begins where the one before it ends (`JoinedPages`, by induction over the
  pages). What is left for each list is that its ORDER BY is total: the unique
  last key.
* **Sales.** `UploadInv`: an upload about to be stored has seen the batches up to
  `since`, and its file is not among them. The rest needs `RecordsInv`: every
  stored sale is sound (`SoundSale`) and every batch counts its rows
  (`SoundBatch`); a request that patches or deletes holds a row of its own user
  (`SoundChange`), a patch passed the validators and names a product of its
  user, or the one the row has (`SoundPatch`); a file about to be stored passed
  its checks (`SoundFile`). The
  loop over the rows of a file is an induction on how many it has seen
  (`TakenRows`): it takes as many as there are accepted positions, so accepted and
  rejected rows are together the file. That a total is the product to the nearest
  cent is arithmetic about `HalfEven`.
* **What is said of the sales.** `ShownInv` adds that sales have dates, that the
  sales and rejected rows of a batch are its user's, and that a batch has one of
  three statuses. With it every WHERE clause of `SalesAnalytics` selects the same
  sales: the report asks for products of the user, and `RecordsInv` has no
  others. A GROUP BY splits them into parts, and the sums of the parts are
  together the sum of all (`SumOfGroups`, by induction over a finite set, for
  counts, quantities and amounts without NULLs). `SameFeatures` is about any
  series: a window shifted by one day that ends at day n is the window of the
  history of n - 1 days, also where both are cut short at the beginning. For
  `RunsCoverTheirHorizon` the histories of a product grow by one natural number
  with every prediction (`ExtendedIs`, by induction over the horizon), the
  predictions are as many as pairs of a product and a day (a bijection), and the
  chart asks for actual demand after the last day of the grid, where no active
  product has any.
* **Recommendations.** `IInv` says that the rows of a run are one generation of
  exactly the forecasted products, that rows about to be written are such a
  generation too (`Drafts`), that the advice in them and in the stored rows is
  consistent (`Advice`) and the status agrees with its times (`Story`). A
  generation that counted no rows is refused by the constraint if there are any,
  one that counted some deletes whatever there is.
* **Screens.** `TablesInv` says what the screens find: nothing is later than the
  clock, a completed run has predicted something, rows of one commit are of one
  run, and a recommendation is for the demand its run predicted. The recent
  activity is cut twice; an event that its own source dropped is no later than as
  many events as are asked for, which are candidates themselves (`CutOfCuts`).
  Lists, counts and reports agree because their conditions are the same on every
  stock level and every recommendation (`SameConditions`), because what is counted
  by status or risk is counted (`CountByKind`), because demand by product and by
  period add up to the demand of the run (`SumOfGroups`), and because two orders by
  the same quantity show the same quantities in each place, however ties are
  broken (`SameQuantities`).
* **Accounts.** `LimitInv`: the attempts let through never exceed the counter nor
  the limit, since the script counts what it refuses too. `SessionInv`: a login's
  live tokens are at most one and it is the last of its line (`OneLives`), none
  if the login is closed (`NoneLives`), and a session about to rotate or revoke
  holds what it loaded unless somebody used the token meanwhile. `ChoiceInv`: the
  tables hold what was last chosen, and a session's loaded row is of the row it
  is about to write. For the types, `TokenInv` says that a token's successor comes
  after it and that its user exists, `ValueInv` that settings, stored or about to
  be, are values the validators accept.

Sums are the community modules' `SumFunction`, which the library defines by a
recursion over a CHOOSE; `ListLemmas` proves from that definition that the order
does not matter (`SumsInAnyOrder`) and everything else about sums from there.
Induction is by `NatSetInduction` and `SubsetInduction`, over sets instead of
predicates, because the provers cannot instantiate an operator.

Model-checked only: the liveness properties `PolledJobSettles`, `DeliveriesEnd`
and `RequestsReturn`, since fairness and ENABLED are beyond the prover. What they
need of safety is proved: `RedeliveriesRunOut` for the second, and
`RowLocksDoNotDeadlock` for the third. These two are defined beside their proofs. Every
safety invariant, action property and refinement that a passing run checks is
also a theorem. The three violations are counterexamples of runs.

## 5. Not modelled

* **In the modelled components**: what section 2 names as left out. The values
  of the error metrics, the regressor (scikit-learn), password hashing, JWT and
  HMAC encodings, and the CSV formatting of exports are computations on data
  that no decision of the program depends on.
* **Application shell** (`app/main.py`, `app/server.py`, `app/core`): wiring,
  configuration, the resolution of the API's port, error envelopes and logging
  hold no state. **Queue health** and the options of the job endpoints are read
  only. **Schema migrations** run once at deployment; the constraints they create
  are modelled where they matter. The container's start script is not part of
  the program.
* **A pool at its limit.** `app/db/session.py` sets no limits of its own, and a
  request that waits for a connection holds nothing that another one needs.

What could come next: `SalesRecords` composed with a `Catalog` that changes
(a product archived, or its SKU changed, between the parse of a file and its
commit).
