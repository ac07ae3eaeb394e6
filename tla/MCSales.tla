------------------------------ MODULE MCSales ------------------------------
(***************************************************************************)
(* An instance of SalesRecords and SalesAnalytics for TLC.                 *)
(***************************************************************************)
EXTENDS SalesAnalytics

CONSTANTS u1, u2, c1, c2, p1, p2, p3, p4, drinks

MCUsers == {u1, u2}
MCClients == {c1, c2}
MCProducts == {p1, p2, p3, p4}

\* The SKU of p1 is a SKU of the other user as well; p2 is archived, p4 never sold
Entry(owner, sku, category, active) ==
    [owner |-> owner, sku |-> sku, category |-> category, active |-> active]
MCCatalogue == (p1 :> Entry(u1, "a", drinks, TRUE)) @@ (p2 :> Entry(u1, "b", None, FALSE))
               @@ (p3 :> Entry(u2, "a", None, TRUE)) @@ (p4 :> Entry(u1, "c", drinks, TRUE))

MCCategoryOwner == drinks :> u1

Units(n) == [digits |-> n, decimals |-> 0]
Decimal(n, places) == [digits |-> n, decimals |-> places]

\* Half a unit at one cent is a tie; the second has a total and no price, the
\* third a quantity with too many decimals
MCNewSales ==
    {[product |-> p1, date |-> 1, quantity |-> Decimal(5, 1), price |-> Decimal(1, 2), total |-> None],
     [product |-> p2, date |-> 4, quantity |-> Units(2), price |-> None, total |-> Units(3)],
     [product |-> p3, date |-> 4, quantity |-> Decimal(5, 4), price |-> None, total |-> None]}

Patch(f, value) ==
    [[product |-> Keep, date |-> Keep, quantity |-> Keep, price |-> Keep, total |-> Keep]
        EXCEPT ![f] = value]

\* With the new price, the new quantity makes a total too large for its column
MCPatches ==
    {Patch("quantity", Units(30)), Patch("price", Decimal(25, 1)), Patch("total", Units(1)),
     Patch("product", p2)}

Cells(sku, date, quantity, price, total) ==
    [product_sku |-> sku, sale_date |-> date, quantity |-> quantity, unit_price |-> price,
     total_amount |-> total, ragged |-> FALSE]

Csv(rows) ==
    [extension |-> ".csv", bytes |-> 1, supportedType |-> TRUE, utf8 |-> TRUE,
     columns |-> <<"sale_date", "product_sku", "quantity", "unit_price", "total_amount">>,
     rows |-> rows]

\* A row of each kind; rows without a sale; a quantity that the file may have and
\* its column not
MCFiles ==
    {Csv(<<Cells("a", 3, Units(1), Units(1), None), Cells("b", 3, Units(0), None, None)>>),
     Csv(<<Cells("z", 2, Units(1), None, None),
           [Cells(None, None, None, None, None) EXCEPT !.ragged = TRUE]>>),
     Csv(<<Cells("a", 2, Units(100), None, None)>>)}

MCPeriodStart(interval, date) == IF interval = "day" THEN date ELSE date - (date % 3)

\* May be below zero
MCRegressor(features) == features.lag_7 - features.lag_1

Symmetry == Permutations(MCClients)
=============================================================================
