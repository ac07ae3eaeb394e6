----------------------------- MODULE SalesRules -----------------------------
(***************************************************************************)
(* What app/modules/sales/domain accepts and computes: decimals of manual  *)
(* sales and of CSV rows, totals, files, rows and the status of a batch.   *)
(* Quantities are kept in thousandths, money in cents.                     *)
(***************************************************************************)
EXTENDS Integers, Sequences, FiniteSets, SequencesExt

CONSTANTS
    Keep,            \* a field that a PATCH does not send
    None,            \* NULL, an empty cell of a CSV row
    Bad,             \* a cell that cannot be parsed
    QuantityLimit,   \* manual quantities are below it; so is the column
    MoneyLimit,      \* manual amounts are below it
    PriceTop,        \* the column unit_price ends here, before MoneyLimit
    TotalTop,        \* the column total_amount ends here
    MaxBytes, MaxRows, MaxColumns   \* MAX_UPLOAD_BYTES, MAX_CSV_ROWS, MAX_CSV_COLUMNS

\* Why a row of a CSV file is rejected
RejectionCodes ==
    {"empty_row", "invalid_product_sku", "unknown_product_sku", "invalid_sale_date",
     "invalid_quantity", "invalid_unit_price", "invalid_total_amount"}

ASSUME SalesRulesAssumption ==
    /\ None \notin Int /\ None \notin RejectionCodes
    /\ {QuantityLimit, MoneyLimit, PriceTop, TotalTop, MaxBytes, MaxRows, MaxColumns}
           \subseteq Nat \ {0}
    /\ Cardinality({Keep, None, Bad}) = 3

-----------------------------------------------------------------------------
(* Decimals: the digits and how many of them are behind the point          *)

Decimals == [digits : Int, decimals : Nat]

AtPrecision(d, places) == d.digits * 10 ^ (places - d.decimals)

Below(d, limit) == d.digits < limit * 10 ^ d.decimals

\* validate_quantity of manual sales
ValidQuantity(d) == d.digits > 0 /\ d.decimals <= 3 /\ Below(d, QuantityLimit)

\* validate_money; None is no amount
ValidMoney(d) == d # None => d.digits >= 0 /\ d.decimals <= 2 /\ Below(d, MoneyLimit)

\* Nothing sold is a quantity, too.
CsvQuantityOrZero(d) == d \notin {None, Bad} /\ d.digits >= 0 /\ d.decimals <= 3

\* _parse_quantity of a CSV cell: no upper limit
CsvQuantity(d) == d \notin {None, Bad} /\ d.digits > 0 /\ d.decimals <= 3

\* _parse_money of a CSV cell: no upper limit either
CsvMoney(d) == d # None => d # Bad /\ d.digits >= 0 /\ d.decimals <= 2

Thousandths(d) == AtPrecision(d, 3)
Cents(d) == IF d = None THEN None ELSE AtPrecision(d, 2)

-----------------------------------------------------------------------------
(* Totals *)

\* Decimal.quantize rounds a tie to the even neighbour
HalfEven(n, d) ==
    LET whole == n \div d
        rest == n % d
    IN IF 2 * rest > d \/ (2 * rest = d /\ whole % 2 = 1) THEN whole + 1 ELSE whole

TotalAmount(quantity, price, total, recalculate) ==
    IF price = None THEN IF recalculate THEN None ELSE total
    ELSE IF total = None \/ recalculate THEN HalfEven(quantity * price, 1000)
    ELSE total

\* A PATCH with a field at least, each of them valid
ValidPatch(patch) ==
    /\ \E f \in DOMAIN patch : patch[f] # Keep
    /\ patch.quantity # Keep => ValidQuantity(patch.quantity)
    /\ patch.price # Keep => ValidMoney(patch.price)
    /\ patch.total # Keep => ValidMoney(patch.total)

\* normalize_transaction_update_values: the columns a PATCH leads to, worked out
\* from the row that was loaded.  given is history: the total is the client's
\* word and no product of quantity and price
NormalizedBy(patch, seen, recalculates) ==
    LET quantity == IF patch.quantity = Keep THEN seen.quantity ELSE Thousandths(patch.quantity)
        price == IF patch.price = Keep THEN seen.price ELSE Cents(patch.price)
        total == IF patch.total # Keep THEN Cents(patch.total)
                 ELSE IF recalculates THEN TotalAmount(quantity, price, seen.total, TRUE)
                 ELSE seen.total
    IN [product |-> IF patch.product = Keep THEN seen.product ELSE patch.product,
        date |-> IF patch.date = Keep THEN seen.date ELSE patch.date,
        quantity |-> quantity, price |-> price, total |-> total,
        given |-> patch.total # Keep \/ (seen.given /\ ~recalculates)]

\* A new price leaves the total as it is.
TotalFollowsQuantity(patch, seen) == NormalizedBy(patch, seen, patch.quantity # Keep)

NormalizeUpdate(patch, seen) ==
    NormalizedBy(patch, seen, patch.quantity # Keep \/ patch.price # Keep)

-----------------------------------------------------------------------------
(* Files and their rows *)

RequiredColumns == {"sale_date", "product_sku", "quantity"}

\* validate_upload_file: name, size and content type
ValidUploadFile(file) ==
    /\ file.extension = ".csv"
    /\ file.bytes \in 1 .. MaxBytes
    /\ file.supportedType

\* parse_sales_csv: the header, and at least one row
ParsesAsCsv(file) ==
    /\ file.utf8
    /\ Len(file.columns) \in 1 .. MaxColumns
    /\ RequiredColumns \subseteq ToSet(file.columns)
    /\ IsInjective(file.columns)
    /\ Len(file.rows) \in 1 .. MaxRows

\* A row is [product_sku, sale_date, quantity, unit_price, total_amount]; one with
\* more cells than the header has columns is ragged and keeps none of them
EmptyRow(row) == ~row.ragged /\ \A f \in DOMAIN row \ {"ragged"} : row[f] = None

\* Why a row is rejected, None if it is accepted; sold are the SKUs of the user
Rejection(row, sold) ==
    CASE EmptyRow(row) -> "empty_row"
      [] row.ragged \/ row.product_sku \in {None, Bad} -> "invalid_product_sku"
      [] row.product_sku \notin sold -> "unknown_product_sku"
      [] row.sale_date \in {None, Bad} -> "invalid_sale_date"
      [] ~CsvQuantity(row.quantity) -> "invalid_quantity"
      [] ~CsvMoney(row.unit_price) -> "invalid_unit_price"
      [] ~CsvMoney(row.total_amount) -> "invalid_total_amount"
      [] OTHER -> None

\* Rejected rows do not show in the status.
StatusOfAccepted(accepted, rejected) ==
    IF accepted > 0 THEN "completed"
    ELSE IF rejected > 0 THEN "completed_with_errors" ELSE "failed"

UploadStatus(accepted, rejected) ==
    IF accepted > 0 /\ rejected = 0 THEN "completed"
    ELSE IF rejected > 0 THEN "completed_with_errors" ELSE "failed"

-----------------------------------------------------------------------------
(* The columns of sales_transactions *)

\* PostgreSQL refuses a numeric that is too large for its column
FitsColumns(sale) ==
    /\ sale.quantity < QuantityLimit * 1000
    /\ sale.price # None => sale.price < PriceTop * 100
    /\ sale.total # None => sale.total < TotalTop * 100
=============================================================================
