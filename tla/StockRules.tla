----------------------------- MODULE StockRules -----------------------------
(***************************************************************************)
(* The arithmetic of stock movements (inventory/domain/stock.py).          *)
(* Quantities are counted in thousandths: more decimals are refused.       *)
(***************************************************************************)
EXTENDS Integers

\* MAX_STOCK_QUANTITY, which is also where the column Numeric(14, 3) overflows
CONSTANT MaxStock

ASSUME MaxStockAssumption == MaxStock \in Nat \ {0}

PUBLIC_MOVEMENT_TYPES == {"stock_in", "stock_out", "adjustment", "correction"}

Stocks == 0 .. MaxStock - 1

\* normalize_stock_quantity and normalize_signed_quantity, as calculate_movement
\* calls them
ValidQuantity(type, quantity) ==
    /\ type \in {"stock_in", "stock_out"} => quantity \in Stocks \ {0}
    /\ type = "adjustment" => quantity \in Stocks
    /\ type = "correction" => quantity \in (1 - MaxStock .. MaxStock - 1) \ {0}

\* An adjustment counts the stock, the others move it
QuantityAfter(type, current, quantity) ==
    IF type = "adjustment" THEN quantity
    ELSE IF type = "stock_out" THEN current - quantity
    ELSE current + quantity

\* Whatever the movement leaves is written.
AnyTotalPosts(type, current, quantity) == ValidQuantity(type, quantity)

\* calculate_movement accepts it (InsufficientStockError otherwise), and the
\* column holds the result (a database error otherwise)
Posts(type, current, quantity) ==
    /\ ValidQuantity(type, quantity)
    /\ QuantityAfter(type, current, quantity) \in Stocks

\* A row of inventory_stock_movements
Movement(type, before, after) ==
    [type |-> type, delta |-> after - before, before |-> before, after |-> after]

Movements ==
    [type : PUBLIC_MOVEMENT_TYPES \cup {"opening_stock"},
     delta : Int, before : Stocks, after : Stocks]
=============================================================================
