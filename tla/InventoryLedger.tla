-------------------------- MODULE InventoryLedger --------------------------
(***************************************************************************)
(* InventoryService over PostgreSQL: the inventory row of a product, its   *)
(* ledger of stock movements, and concurrent requests that create the row, *)
(* move the stock and change its thresholds.  Only a movement locks the    *)
(* row (SELECT ... FOR UPDATE); every other request relies on the unique   *)
(* constraint and on UPDATEs that name the changed columns only.           *)
(***************************************************************************)
EXTENDS StockRules, Sequences

CONSTANTS
    Products,      \* the products of the users
    Clients,       \* concurrent API requests
    None,          \* no product, no lock holder
    Quantities,    \* the quantities clients send, valid or not
    Fields,        \* ALLOWED_ITEM_UPDATE_FIELDS
    Values,        \* their values
    MaxMovements   \* bound: no further movement is asked for at this length

ASSUME InventoryAssumption ==
    /\ Quantities \subseteq Int
    /\ None \notin Products
    /\ None \notin Clients
    /\ MaxMovements \in Nat

VARIABLES
    items,     \* the products with a row in inventory_items
    stock,     \* inventory_items.current_stock
    settings,  \* the row's thresholds and is_active
    ledger,    \* inventory_stock_movements, oldest first
    lock,      \* who holds the lock of the row
    pc,        \* where each request is
    req        \* its session: what it was asked, what it has read

itemVars == <<items, stock, settings>>
vars == <<itemVars, ledger, lock, pc, req>>

NoRequest == [product |-> None, type |-> "none", quantity |-> 0, seen |-> 0]

Request(p, type, quantity, seen) ==
    [product |-> p, type |-> type, quantity |-> quantity, seen |-> seen]

Init ==
    /\ items = {}
    /\ stock = [p \in Products |-> 0]
    /\ settings \in [Products -> [Fields -> Values]]
    /\ ledger = [p \in Products |-> <<>>]
    /\ lock = [p \in Products |-> None]
    /\ pc = [c \in Clients |-> "idle"]
    /\ req = [c \in Clients |-> NoRequest]

Goto(c, label, request) ==
    /\ pc' = [pc EXCEPT ![c] = label]
    /\ req' = [req EXCEPT ![c] = request]

\* The request is answered; its session is closed
Done(c) == Goto(c, "idle", NoRequest)

\* The end of a transaction, commit or rollback, gives the row lock back
Unlock(c) == lock' = [p \in Products |-> IF lock[p] = c THEN None ELSE lock[p]]

-----------------------------------------------------------------------------
(* create_inventory_item *)

\* No item yet: 409 otherwise
CreateLoad(c, p) == \E opening \in Quantities \cap Stocks :
    /\ pc[c] = "idle"
    /\ p \notin items
    /\ Goto(c, "insert", Request(p, "opening_stock", opening, 0))
    /\ UNCHANGED <<itemVars, ledger, lock>>

\* Row and opening movement in one commit
CreateInsert(c) ==
    LET p == req[c].product
        opening == req[c].quantity
    IN
    /\ pc[c] = "insert"
    /\ p \notin items
    /\ items' = items \cup {p}
    /\ stock' = [stock EXCEPT ![p] = opening]
    /\ \E chosen \in [Fields -> Values] : settings' = [settings EXCEPT ![p] = chosen]
    /\ ledger' = [ledger EXCEPT
           ![p] = IF opening > 0 THEN Append(@, Movement("opening_stock", 0, opening)) ELSE @]
    /\ Done(c)
    /\ UNCHANGED lock

\* uq_inventory_items_user_product: somebody else was faster
CreateConflict(c) ==
    /\ pc[c] = "insert"
    /\ req[c].product \in items
    /\ Done(c)
    /\ UNCHANGED <<itemVars, ledger, lock>>

-----------------------------------------------------------------------------
(* create_stock_movement *)

MovementBegin(c, p) == \E type \in PUBLIC_MOVEMENT_TYPES, quantity \in Quantities :
    /\ pc[c] = "idle"
    /\ p \in items
    /\ Len(ledger[p]) < MaxMovements
    /\ Goto(c, "lock", Request(p, type, quantity, 0))
    /\ UNCHANGED <<itemVars, ledger, lock>>

\* SELECT without FOR UPDATE.
ReadItem(c) ==
    LET r == req[c] IN
    /\ pc[c] = "lock"
    /\ Goto(c, "post", Request(r.product, r.type, r.quantity, stock[r.product]))
    /\ UNCHANGED <<itemVars, ledger, lock>>

\* _get_inventory_item(for_update=True) waits for the row and reads it
LockItem(c) ==
    LET r == req[c] IN
    /\ pc[c] = "lock"
    /\ lock[r.product] = None
    /\ lock' = [lock EXCEPT ![r.product] = c]
    /\ Goto(c, "post", Request(r.product, r.type, r.quantity, stock[r.product]))
    /\ UNCHANGED <<itemVars, ledger>>

\* Stock and ledger row in one commit
PostMovement(c) ==
    LET r == req[c]
        after == QuantityAfter(r.type, r.seen, r.quantity)
    IN
    /\ pc[c] = "post"
    /\ Posts(r.type, r.seen, r.quantity)
    /\ stock' = [stock EXCEPT ![r.product] = IF after = r.seen THEN @ ELSE after]
    /\ ledger' = [ledger EXCEPT ![r.product] = Append(@, Movement(r.type, r.seen, after))]
    /\ Unlock(c)
    /\ Done(c)
    /\ UNCHANGED <<items, settings>>

\* The error is answered, the session stays open.
RefuseAndKeepSession(c) ==
    /\ pc[c] = "post"
    /\ ~Posts(req[c].type, req[c].seen, req[c].quantity)
    /\ Done(c)
    /\ UNCHANGED <<itemVars, ledger, lock>>

\* calculate_movement raises outside of the try: only the closing of the
\* session rolls back and gives the lock back
RefuseMovement(c) ==
    /\ pc[c] = "post"
    /\ ~Posts(req[c].type, req[c].seen, req[c].quantity)
    /\ Unlock(c)
    /\ Done(c)
    /\ UNCHANGED <<itemVars, ledger>>

-----------------------------------------------------------------------------
(* update_inventory_thresholds *)

\* An unlocked read of the row
PatchLoad(c, p) ==
    /\ pc[c] = "idle"
    /\ p \in items
    /\ Goto(c, "patch", Request(p, "none", 0, stock[p]))
    /\ UNCHANGED <<itemVars, ledger, lock>>

\* UPDATE with every column of the row as it was loaded.
PatchWholeRow(c) ==
    LET p == req[c].product IN
    /\ pc[c] = "patch"
    /\ lock[p] = None
    /\ stock' = [stock EXCEPT ![p] = req[c].seen]
    /\ \E chosen \in [Fields -> Values] : settings' = [settings EXCEPT ![p] = chosen]
    /\ Done(c)
    /\ UNCHANGED <<items, ledger, lock>>

\* The UPDATE waits for whoever has the row locked, and sets the fields sent
PatchWrite(c) ==
    LET p == req[c].product IN
    /\ pc[c] = "patch"
    /\ lock[p] = None
    /\ \E chosen \in [Fields -> Values] : settings' = [settings EXCEPT ![p] = chosen]
    /\ Done(c)
    /\ UNCHANGED <<items, stock, ledger, lock>>

-----------------------------------------------------------------------------
(* The API process dies, or the database ends the request *)
RequestAborted(c) ==
    /\ pc[c] # "idle"
    /\ Unlock(c)
    /\ Done(c)
    /\ UNCHANGED <<itemVars, ledger>>

\* The rest of a request that has begun
Proceeds(c) ==
    CreateInsert(c) \/ CreateConflict(c) \/ PostMovement(c) \/ RefuseMovement(c)

\* The steps that may wait for a row lock
Waits(c) == LockItem(c) \/ PatchWrite(c)

Begins(c) == \E p \in Products : CreateLoad(c, p) \/ MovementBegin(c, p) \/ PatchLoad(c, p)

Next == \E c \in Clients : Begins(c) \/ Proceeds(c) \/ Waits(c) \/ RequestAborted(c)

Spec == Init /\ [][Next]_vars

\* A request that runs goes on; PostgreSQL queues those who wait for a row
FairSpec ==
    /\ Spec
    /\ \A c \in Clients : WF_vars(Proceeds(c)) /\ SF_vars(Waits(c))

-----------------------------------------------------------------------------
Labels == {"idle", "insert", "lock", "post", "patch"}

Requests ==
    [product : Products \cup {None},
     type : PUBLIC_MOVEMENT_TYPES \cup {"opening_stock", "none"},
     quantity : Int, seen : Stocks]

\* No stock is negative or too large for its column, and no request has a step
\* to take for a product it does not know.
TypeOK ==
    /\ items \subseteq Products
    /\ stock \in [Products -> Stocks]
    /\ settings \in [Products -> [Fields -> Values]]
    /\ ledger \in [Products -> Seq(Movements)]
    /\ lock \in [Products -> Clients \cup {None}]
    /\ pc \in [Clients -> Labels]
    /\ req \in [Clients -> Requests]
    /\ \A c \in Clients : pc[c] # "idle" => req[c].product \in Products

\* Read in order, the movements of a product lead from nothing to the stock of
\* its row without a gap: nobody's movement was worked out from a stock that
\* somebody else had changed meanwhile, and no other request overwrites it.
LedgerAccountsForStock ==
    \A p \in Products :
        LET n == Len(ledger[p]) IN
        /\ n = 0 => stock[p] = 0
        /\ n > 0 => ledger[p][1].before = 0 /\ ledger[p][n].after = stock[p]
        /\ \A i \in 1 .. n - 1 : ledger[p][i].after = ledger[p][i + 1].before

Account ==
    INSTANCE StockAccount WITH opened <- items, balance <- stock, books <- ledger

\* Concurrent requests, row locks and crashes implement the plain account.
ImplementsAccount == Account!Spec

\* Every request is answered: a refused, aborted or slow movement never leaves
\* the others waiting for its row.
RequestsReturn == \A c \in Clients : pc[c] # "idle" ~> pc[c] = "idle"
=============================================================================
