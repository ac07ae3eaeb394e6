---------------------------- MODULE StockAccount ----------------------------
(***************************************************************************)
(* What the inventory promises: a stock account per product.  A movement   *)
(* is worked out from the balance of the very moment it is posted, changes *)
(* the balance and enters the books in one go, and is posted in full or    *)
(* not at all.  Locks, sessions and concurrent requests are not visible.   *)
(***************************************************************************)
EXTENDS StockRules, Sequences

CONSTANT Products

VARIABLES
    opened,   \* the products with an account
    balance,
    books     \* the movements of each account, oldest first

Init ==
    /\ opened = {}
    /\ balance = [p \in Products |-> 0]
    /\ books = [p \in Products |-> <<>>]

Open(p) == \E amount \in Stocks :
    /\ p \notin opened
    /\ opened' = opened \cup {p}
    /\ balance' = [balance EXCEPT ![p] = amount]
    /\ books' = [books EXCEPT
           ![p] = IF amount = 0 THEN @ ELSE <<Movement("opening_stock", 0, amount)>>]

Post(p) == \E type \in PUBLIC_MOVEMENT_TYPES, q \in 1 - MaxStock .. MaxStock - 1 :
    LET after == QuantityAfter(type, balance[p], q) IN
    /\ p \in opened
    /\ Posts(type, balance[p], q)
    /\ balance' = [balance EXCEPT ![p] = after]
    /\ books' = [books EXCEPT ![p] = Append(@, Movement(type, balance[p], after))]
    /\ UNCHANGED opened

Next == \E p \in Products : Open(p) \/ Post(p)

Spec == Init /\ [][Next]_<<opened, balance, books>>
=============================================================================
