----------------------- MODULE InventoryLedger_proofs -----------------------
(***************************************************************************)
(* Proofs about InventoryLedger, for any products, clients and quantities: *)
(* types, the ledger that accounts for the stock, and the refinement of    *)
(* StockAccount.                                                           *)
(***************************************************************************)
EXTENDS InventoryLedger, TLAPS

\* What a request knows when it takes its next step.  A movement that is about
\* to be posted holds the row lock, so the stock it has read is the stock.
SessionOK(c) ==
    /\ pc[c] = "insert" => req[c].quantity \in Stocks
    /\ pc[c] \in {"lock", "post"} => req[c].type \in PUBLIC_MOVEMENT_TYPES
    /\ pc[c] \in {"lock", "post", "patch"} => req[c].product \in items
    /\ pc[c] = "post" => /\ lock[req[c].product] = c
                         /\ req[c].seen = stock[req[c].product]

UntrackedIsEmpty == \A p \in Products \ items : stock[p] = 0 /\ ledger[p] = <<>>

IInv ==
    /\ TypeOK
    /\ \A c \in Clients : SessionOK(c)
    /\ UntrackedIsEmpty
    /\ LedgerAccountsForStock

LEMMA RequestType ==
    ASSUME NEW p \in Products, NEW type \in PUBLIC_MOVEMENT_TYPES \cup {"opening_stock", "none"},
           NEW quantity \in Int, NEW seen \in Stocks
    PROVE  /\ Request(p, type, quantity, seen) \in Requests
           /\ Request(p, type, quantity, seen).product = p
           /\ Request(p, type, quantity, seen).type = type
           /\ Request(p, type, quantity, seen).quantity = quantity
           /\ Request(p, type, quantity, seen).seen = seen
  BY DEF Request, Requests

LEMMA NoRequestType == NoRequest \in Requests
  BY MaxStockAssumption DEF NoRequest, Requests, Stocks

LEMMA MovementType ==
    ASSUME NEW type \in PUBLIC_MOVEMENT_TYPES \cup {"opening_stock"},
           NEW before \in Stocks, NEW after \in Stocks
    PROVE  /\ Movement(type, before, after) \in Movements
           /\ Movement(type, before, after).before = before
           /\ Movement(type, before, after).after = after
  BY MaxStockAssumption DEF Movement, Movements, Stocks

LEMMA InitIInv == Init => IInv
  <1> SUFFICES ASSUME Init PROVE IInv
    OBVIOUS
  <1>1. TypeOK
    BY MaxStockAssumption, NoRequestType DEF Init, TypeOK, Stocks, Labels
  <1>2. \A c \in Clients : SessionOK(c)
    BY DEF Init, SessionOK
  <1>3. UntrackedIsEmpty
    BY DEF Init, UntrackedIsEmpty
  <1>4. LedgerAccountsForStock
    BY DEF Init, LedgerAccountsForStock
  <1>5. QED
    BY <1>1, <1>2, <1>3, <1>4 DEF IInv

\* What one request does to control and locks, in the terms of the invariant.
LEMMA OtherSessions ==
    ASSUME IInv, NEW c \in Clients, NEW label \in Labels, NEW r \in Requests,
           Goto(c, label, r)
    PROVE  /\ pc' \in [Clients -> Labels] /\ pc'[c] = label
           /\ req' \in [Clients -> Requests] /\ req'[c] = r
           /\ \A d \in Clients \ {c} : pc'[d] = pc[d] /\ req'[d] = req[d]
  BY DEF IInv, TypeOK, Goto

\* A request that ends leaves the others as they were.
LEMMA DoneSessions ==
    ASSUME IInv, NEW c \in Clients, Done(c)
    PROVE  /\ pc' \in [Clients -> Labels] /\ pc'[c] = "idle"
           /\ req' \in [Clients -> Requests]
           /\ \A d \in Clients \ {c} : pc'[d] = pc[d] /\ req'[d] = req[d]
  BY OtherSessions, NoRequestType DEF Done, Labels

\* The rows stay as they are: a request begins, is refused, aborted or waits.
LEMMA RowsUntouched ==
    ASSUME IInv, NEW c \in Clients, UNCHANGED <<items, stock, ledger>>,
           settings' \in [Products -> [Fields -> Values]],
           lock' \in [Products -> Clients \cup {None}],
           \A d \in Clients \ {c} :
               \A p \in Products : lock[p] = d => lock'[p] = d,
           pc' \in [Clients -> Labels], req' \in [Clients -> Requests],
           \A d \in Clients \ {c} : pc'[d] = pc[d] /\ req'[d] = req[d],
           pc'[c] # "idle" => req'[c].product \in Products,
           SessionOK(c)'
    PROVE  IInv'
  <1>1. TypeOK'
    BY DEF IInv, TypeOK
  <1>2. \A d \in Clients : SessionOK(d)'
    BY DEF IInv, TypeOK, SessionOK
  <1>3. UntrackedIsEmpty' /\ LedgerAccountsForStock'
    BY DEF IInv, UntrackedIsEmpty, LedgerAccountsForStock
  <1>4. QED
    BY <1>1, <1>2, <1>3 DEF IInv

LEMMA UnlockType ==
    ASSUME IInv, NEW c \in Clients, Unlock(c)
    PROVE  /\ lock' \in [Products -> Clients \cup {None}]
           /\ \A d \in Clients \ {c} : \A p \in Products : lock[p] = d => lock'[p] = d
  BY DEF IInv, TypeOK, Unlock

\* A movement worked out from the stock of its row continues the ledger.
LEMMA LedgerGrows ==
    ASSUME IInv, NEW p \in Products,
           NEW type \in PUBLIC_MOVEMENT_TYPES \cup {"opening_stock"}, NEW after \in Stocks,
           stock' = [stock EXCEPT ![p] = after],
           ledger' = [ledger EXCEPT ![p] = Append(@, Movement(type, stock[p], after))]
    PROVE  /\ stock' \in [Products -> Stocks]
           /\ ledger' \in [Products -> Seq(Movements)]
           /\ LedgerAccountsForStock'
  <1> DEFINE m == Movement(type, stock[p], after)
  <1>1. stock[p] \in Stocks /\ ledger[p] \in Seq(Movements)
    BY DEF IInv, TypeOK
  <1>2. m \in Movements /\ m.before = stock[p] /\ m.after = after
    BY <1>1, MovementType
  <1>3. /\ stock' \in [Products -> Stocks] /\ stock'[p] = after
        /\ \A q \in Products \ {p} : stock'[q] = stock[q] /\ ledger'[q] = ledger[q]
        /\ ledger'[p] = Append(ledger[p], m)
    BY DEF IInv, TypeOK
  <1> HIDE DEF m
  <1>4. /\ ledger'[p] \in Seq(Movements) /\ Len(ledger'[p]) = Len(ledger[p]) + 1
        /\ \A i \in 1 .. Len(ledger[p]) : ledger'[p][i] = ledger[p][i]
        /\ ledger'[p][Len(ledger[p]) + 1] = m /\ Len(ledger[p]) \in Nat
    BY <1>1, <1>2, <1>3
  <1>5. ledger' \in [Products -> Seq(Movements)]
    BY <1>1, <1>2, <1>3 DEF m, IInv, TypeOK
  <1>6. ASSUME NEW q \in Products \ {p}
        PROVE  LET n == Len(ledger'[q]) IN
               /\ n = 0 => stock'[q] = 0
               /\ n > 0 => ledger'[q][1].before = 0 /\ ledger'[q][n].after = stock'[q]
               /\ \A i \in 1 .. n - 1 : ledger'[q][i].after = ledger'[q][i + 1].before
    BY <1>3, <1>6 DEF IInv, LedgerAccountsForStock
  <1>7. LET n == Len(ledger[p]) IN
        /\ n = 0 => stock[p] = 0
        /\ n > 0 => ledger[p][1].before = 0 /\ ledger[p][n].after = stock[p]
        /\ \A i \in 1 .. n - 1 : ledger[p][i].after = ledger[p][i + 1].before
    BY DEF IInv, LedgerAccountsForStock
  <1>8. ledger'[p][1].before = 0
    BY <1>2, <1>4, <1>7
  <1>9. ledger'[p][Len(ledger'[p])].after = stock'[p]
    BY <1>2, <1>3, <1>4
  <1>10. \A i \in 1 .. Len(ledger'[p]) - 1 : ledger'[p][i].after = ledger'[p][i + 1].before
    <2>1. \A i \in 1 .. Len(ledger[p]) - 1 : ledger'[p][i].after = ledger'[p][i + 1].before
      BY <1>4, <1>7
    <2>2. Len(ledger[p]) > 0 =>
            ledger'[p][Len(ledger[p])].after = ledger'[p][Len(ledger[p]) + 1].before
      BY <1>2, <1>4, <1>7
    <2>3. QED
      BY <1>4, <2>1, <2>2
  <1>11. LedgerAccountsForStock'
    BY <1>4, <1>6, <1>8, <1>9, <1>10 DEF LedgerAccountsForStock
  <1>12. QED
    BY <1>3, <1>5, <1>11

\* The step in which an item appears, with the movement that opens its ledger.
LEMMA CreateInsertIInv ==
    ASSUME IInv, NEW c \in Clients, CreateInsert(c) PROVE IInv'
  <1> DEFINE p == req[c].product
             opening == req[c].quantity
  <1>1. p \in Products /\ p \notin items /\ opening \in Stocks /\ stock[p] = 0 /\ ledger[p] = <<>>
    BY DEF CreateInsert, IInv, TypeOK, SessionOK, UntrackedIsEmpty
  <1>2. /\ pc' \in [Clients -> Labels] /\ pc'[c] = "idle"
        /\ req' \in [Clients -> Requests]
        /\ \A d \in Clients \ {c} : pc'[d] = pc[d] /\ req'[d] = req[d]
    BY DoneSessions DEF CreateInsert
  <1>3. /\ stock' = [stock EXCEPT ![p] = opening] /\ items' = items \cup {p} /\ lock' = lock
        /\ settings' \in [Products -> [Fields -> Values]]
    BY DEF CreateInsert, IInv, TypeOK
  <1>4. /\ stock' \in [Products -> Stocks]
        /\ ledger' \in [Products -> Seq(Movements)]
        /\ LedgerAccountsForStock'
    <2>1. CASE opening > 0
      <3>1. ledger' = [ledger EXCEPT ![p] = Append(@, Movement("opening_stock", stock[p], opening))]
        BY <1>1, <2>1 DEF CreateInsert
      <3>2. QED
        BY <1>1, <1>3, <3>1, LedgerGrows
    <2>2. CASE ~(opening > 0)
      <3>1. opening = 0
        BY <1>1, <2>2, MaxStockAssumption DEF Stocks
      <3>2. stock' = stock /\ ledger' = ledger
        BY <1>1, <1>3, <2>2, <3>1 DEF CreateInsert, IInv, TypeOK
      <3>3. QED
        BY <3>2 DEF IInv, TypeOK, LedgerAccountsForStock
    <2>3. QED
      BY <2>1, <2>2
  <1>5. \A q \in Products \ {p} : stock'[q] = stock[q] /\ ledger'[q] = ledger[q]
    BY <1>1 DEF CreateInsert, IInv, TypeOK
  <1> HIDE DEF p, opening
  <1>6. TypeOK'
    BY <1>1, <1>2, <1>3, <1>4 DEF IInv, TypeOK
  <1>7. ASSUME NEW d \in Clients PROVE SessionOK(d)'
    <2>1. CASE d = c
      BY <1>2, <2>1 DEF SessionOK
    <2>2. CASE d # c
      <3>1. SessionOK(d) /\ pc'[d] = pc[d] /\ req'[d] = req[d]
        BY <1>2, <2>2 DEF IInv
      <3>2. items \subseteq Products
        BY DEF IInv, TypeOK
      <3>3. QED
        BY <1>1, <1>3, <1>5, <3>1, <3>2 DEF SessionOK
    <2>3. QED
      BY <2>1, <2>2
  <1>8. UntrackedIsEmpty'
    BY <1>3, <1>5 DEF IInv, UntrackedIsEmpty
  <1>9. QED
    BY <1>4, <1>6, <1>7, <1>8 DEF IInv

\* The facts behind a posting, shared by the invariant and the refinement.
LEMMA Posting ==
    ASSUME IInv, NEW c \in Clients, PostMovement(c)
    PROVE  \E p \in items, type \in PUBLIC_MOVEMENT_TYPES, quantity \in Int, after \in Stocks :
             /\ p \in Products /\ p = req[c].product /\ lock[p] = c
             /\ Posts(type, stock[p], quantity)
             /\ after = QuantityAfter(type, stock[p], quantity)
             /\ stock' = [stock EXCEPT ![p] = after]
             /\ ledger' = [ledger EXCEPT ![p] = Append(@, Movement(type, stock[p], after))]
  <1> DEFINE p == req[c].product
             type == req[c].type
             quantity == req[c].quantity
             after == QuantityAfter(type, stock[p], quantity)
  <1>1. /\ p \in items /\ p \in Products /\ type \in PUBLIC_MOVEMENT_TYPES /\ quantity \in Int
        /\ lock[p] = c /\ req[c].seen = stock[p]
    BY DEF PostMovement, IInv, TypeOK, SessionOK, Requests
  <1>2. Posts(type, stock[p], quantity)
    BY <1>1 DEF PostMovement
  <1>3. after \in Stocks
    BY <1>2 DEF Posts
  <1>4. stock' = [stock EXCEPT ![p] = IF after = stock[p] THEN @ ELSE after]
    BY <1>1 DEF PostMovement
  <1>5. ledger' = [ledger EXCEPT ![p] = Append(@, Movement(type, stock[p], after))]
    BY <1>1 DEF PostMovement
  <1>6. p = req[c].product
    OBVIOUS
  <1> HIDE DEF p, type, quantity
  <1>7. stock' = [stock EXCEPT ![p] = after]
    BY <1>4
  <1>8. QED
    BY <1>1, <1>2, <1>3, <1>5, <1>6, <1>7

LEMMA PostMovementIInv ==
    ASSUME IInv, NEW c \in Clients, PostMovement(c) PROVE IInv'
  <1>1. PICK p \in items, type \in PUBLIC_MOVEMENT_TYPES, after \in Stocks :
            /\ p \in Products /\ p = req[c].product /\ lock[p] = c
            /\ stock' = [stock EXCEPT ![p] = after]
            /\ ledger' = [ledger EXCEPT ![p] = Append(@, Movement(type, stock[p], after))]
    BY Posting
  <1>2. /\ stock' \in [Products -> Stocks]
        /\ ledger' \in [Products -> Seq(Movements)]
        /\ LedgerAccountsForStock'
    BY <1>1, LedgerGrows
  <1>3. /\ pc' \in [Clients -> Labels] /\ pc'[c] = "idle"
        /\ req' \in [Clients -> Requests]
        /\ \A d \in Clients \ {c} : pc'[d] = pc[d] /\ req'[d] = req[d]
    BY DoneSessions DEF PostMovement
  <1>4. /\ lock' \in [Products -> Clients \cup {None}]
        /\ \A d \in Clients \ {c} : \A q \in Products : lock[q] = d => lock'[q] = d
    BY UnlockType DEF PostMovement
  <1>5. items' = items /\ settings' = settings
    BY DEF PostMovement
  <1>6. \A q \in Products \ {p} : stock'[q] = stock[q] /\ ledger'[q] = ledger[q]
    BY <1>1 DEF IInv, TypeOK
  <1>7. TypeOK'
    BY <1>2, <1>3, <1>4, <1>5 DEF IInv, TypeOK
  <1>8. ASSUME NEW d \in Clients PROVE SessionOK(d)'
    <2>1. CASE d = c
      BY <1>3, <2>1 DEF SessionOK
    <2>2. CASE d # c
      <3>1. SessionOK(d) /\ pc'[d] = pc[d] /\ req'[d] = req[d]
        BY <1>3, <2>2 DEF IInv
      <3>2. items \subseteq Products
        BY DEF IInv, TypeOK
      <3>3. QED
        BY <1>1, <1>4, <1>5, <1>6, <2>2, <3>1, <3>2 DEF SessionOK
    <2>3. QED
      BY <2>1, <2>2
  <1>9. UntrackedIsEmpty'
    BY <1>5, <1>6 DEF IInv, UntrackedIsEmpty
  <1>10. QED
    BY <1>2, <1>7, <1>8, <1>9 DEF IInv

\* A request that begins touches nothing but its own session.
LEMMA BeginIInv ==
    ASSUME IInv, NEW c \in Clients, NEW label \in {"insert", "lock", "patch"},
           NEW r \in Requests, Goto(c, label, r), UNCHANGED <<items, stock, settings, ledger, lock>>,
           r.product \in Products,
           label = "insert" => r.quantity \in Stocks,
           label = "lock" => r.type \in PUBLIC_MOVEMENT_TYPES,
           label \in {"lock", "patch"} => r.product \in items
    PROVE  IInv'
  <1>1. /\ pc' \in [Clients -> Labels] /\ pc'[c] = label
        /\ req' \in [Clients -> Requests] /\ req'[c] = r
        /\ \A d \in Clients \ {c} : pc'[d] = pc[d] /\ req'[d] = req[d]
    BY OtherSessions DEF Labels
  <1>2. SessionOK(c)'
    BY <1>1 DEF SessionOK
  <1>3. /\ settings' \in [Products -> [Fields -> Values]]
        /\ lock' \in [Products -> Clients \cup {None}]
    BY DEF IInv, TypeOK
  <1>4. QED
    BY <1>1, <1>2, <1>3, RowsUntouched

LEMMA NextIInv == IInv /\ [Next]_vars => IInv'
  <1> SUFFICES ASSUME IInv, [Next]_vars PROVE IInv'
    OBVIOUS
  <1>0. TypeOK
    BY DEF IInv
  <1>1. ASSUME NEW c \in Clients, Begins(c) PROVE IInv'
    <2>1. PICK p \in Products : CreateLoad(c, p) \/ MovementBegin(c, p) \/ PatchLoad(c, p)
      BY <1>1 DEF Begins
    <2>2. UNCHANGED <<items, stock, settings, ledger, lock>>
      BY <2>1 DEF CreateLoad, MovementBegin, PatchLoad, itemVars
    <2>3. CASE CreateLoad(c, p)
      <3>1. PICK opening \in Quantities \cap Stocks :
              Goto(c, "insert", Request(p, "opening_stock", opening, 0))
        BY <2>3 DEF CreateLoad
      <3>2. opening \in Int /\ 0 \in Stocks
        BY MaxStockAssumption DEF Stocks
      <3>3. /\ Request(p, "opening_stock", opening, 0) \in Requests
            /\ Request(p, "opening_stock", opening, 0).product = p
            /\ Request(p, "opening_stock", opening, 0).quantity = opening
        BY <3>2, RequestType
      <3>4. QED
        BY <2>2, <3>1, <3>3, BeginIInv
    <2>4. CASE MovementBegin(c, p)
      <3>1. PICK type \in PUBLIC_MOVEMENT_TYPES, quantity \in Quantities :
              Goto(c, "lock", Request(p, type, quantity, 0)) /\ p \in items
        BY <2>4 DEF MovementBegin
      <3>2. quantity \in Int /\ 0 \in Stocks
        BY MaxStockAssumption, InventoryAssumption DEF Stocks
      <3>3. /\ Request(p, type, quantity, 0) \in Requests
            /\ Request(p, type, quantity, 0).product = p
            /\ Request(p, type, quantity, 0).type = type
        BY <3>2, RequestType
      <3>4. QED
        BY <2>2, <3>1, <3>3, BeginIInv
    <2>5. CASE PatchLoad(c, p)
      <3>0. stock[p] \in Stocks /\ 0 \in Int
        BY <1>0 DEF TypeOK
      <3>1. /\ Request(p, "none", 0, stock[p]) \in Requests
            /\ Request(p, "none", 0, stock[p]).product = p
        BY <3>0, RequestType
      <3>2. Goto(c, "patch", Request(p, "none", 0, stock[p])) /\ p \in items
        BY <2>5 DEF PatchLoad
      <3>3. QED
        BY <2>2, <3>1, <3>2, BeginIInv
    <2>6. QED
      BY <2>1, <2>3, <2>4, <2>5
  <1>2. ASSUME NEW c \in Clients, CreateConflict(c) PROVE IInv'
    <2>1. UNCHANGED <<items, stock, settings, ledger, lock>> /\ Done(c)
      BY <1>2 DEF CreateConflict, itemVars
    <2>2. QED
      BY <1>0, <2>1, DoneSessions, RowsUntouched DEF TypeOK, SessionOK
  <1>3. ASSUME NEW c \in Clients, RefuseMovement(c) \/ RequestAborted(c) PROVE IInv'
    <2>1. UNCHANGED <<items, stock, settings, ledger>> /\ Unlock(c) /\ Done(c)
      BY <1>3 DEF RefuseMovement, RequestAborted, itemVars
    <2>2. QED
      BY <1>0, <2>1, UnlockType, DoneSessions, RowsUntouched DEF TypeOK, SessionOK
  <1>4. ASSUME NEW c \in Clients, LockItem(c) PROVE IInv'
    <2> DEFINE r == req[c]
               next == Request(r.product, r.type, r.quantity, stock[r.product])
    <2>1. /\ r.product \in items /\ r.product \in Products /\ r.type \in PUBLIC_MOVEMENT_TYPES
          /\ r.quantity \in Int /\ stock[r.product] \in Stocks
      BY <1>0, <1>4 DEF LockItem, IInv, SessionOK, TypeOK, Requests
    <2>2. /\ next \in Requests /\ next.product = r.product /\ next.type = r.type
          /\ next.seen = stock[r.product]
      BY <2>1, RequestType
    <2>3. /\ lock[r.product] = None /\ lock' = [lock EXCEPT ![r.product] = c]
          /\ Goto(c, "post", next) /\ UNCHANGED <<items, stock, settings, ledger>>
      BY <1>4 DEF LockItem, itemVars
    <2> HIDE DEF next
    <2>4. /\ pc' \in [Clients -> Labels] /\ pc'[c] = "post"
          /\ req' \in [Clients -> Requests] /\ req'[c] = next
          /\ \A d \in Clients \ {c} : pc'[d] = pc[d] /\ req'[d] = req[d]
      BY <2>2, <2>3, OtherSessions DEF Labels
    <2>5. /\ lock' \in [Products -> Clients \cup {None}] /\ lock'[r.product] = c
          /\ \A d \in Clients \ {c} : \A p \in Products : lock[p] = d => lock'[p] = d
      BY <1>0, <2>1, <2>3, InventoryAssumption DEF TypeOK
    <2>6. SessionOK(c)'
      BY <2>1, <2>2, <2>3, <2>4, <2>5 DEF SessionOK
    <2>7. QED
      BY <1>0, <2>1, <2>2, <2>3, <2>4, <2>5, <2>6, RowsUntouched DEF TypeOK
  <1>5. ASSUME NEW c \in Clients, PatchWrite(c) PROVE IInv'
    <2>1. /\ UNCHANGED <<items, stock, ledger, lock>> /\ Done(c)
          /\ settings' \in [Products -> [Fields -> Values]]
      BY <1>0, <1>5 DEF PatchWrite, TypeOK
    <2>2. QED
      BY <1>0, <2>1, DoneSessions, RowsUntouched DEF TypeOK, SessionOK
  <1>6. CASE UNCHANGED vars
    BY <1>6 DEF vars, itemVars, IInv, TypeOK, SessionOK, UntrackedIsEmpty, LedgerAccountsForStock
  <1>7. QED
    BY <1>1, <1>2, <1>3, <1>4, <1>5, <1>6, CreateInsertIInv, PostMovementIInv
    DEF Next, Proceeds, Waits

\* The stock stays in its column, and the ledger accounts for it, whatever
\* requests run together.
THEOREM LedgerAccounts == Spec => [](TypeOK /\ LedgerAccountsForStock)
  <1>1. IInv => TypeOK /\ LedgerAccountsForStock
    BY DEF IInv
  <1>2. QED
    BY <1>1, InitIInv, NextIInv, PTL DEF Spec

\* No request makes a stock negative or too large for its column.
THEOREM StockFitsItsColumn == Spec => []TypeOK
  BY LedgerAccounts, PTL

-----------------------------------------------------------------------------
(* The refinement of StockAccount *)

LEMMA AccountInit == Init => Account!Init
  BY DEF Init, Account!Init

\* Two commits change the account; every other step is invisible.
LEMMA AccountNext ==
    IInv /\ [Next]_vars => [Account!Next]_<<items, stock, ledger>>
  <1> SUFFICES ASSUME IInv, Next PROVE [Account!Next]_<<items, stock, ledger>>
    BY DEF vars, itemVars
  <1>1. ASSUME NEW c \in Clients, CreateInsert(c) PROVE Account!Next
    <2> DEFINE p == req[c].product
               opening == req[c].quantity
    <2>1. p \in Products /\ p \notin items /\ opening \in Stocks /\ ledger[p] = <<>>
      BY <1>1 DEF CreateInsert, IInv, TypeOK, SessionOK, UntrackedIsEmpty
    <2>2. Append(ledger[p], Movement("opening_stock", 0, opening))
            = <<Movement("opening_stock", 0, opening)>>
      BY <2>1
    <2>3. ledger' = [ledger EXCEPT
              ![p] = IF opening = 0 THEN @ ELSE <<Movement("opening_stock", 0, opening)>>]
      <3>1. opening > 0 <=> opening # 0
        BY <2>1, MaxStockAssumption DEF Stocks
      <3>2. ledger' = [ledger EXCEPT
                ![p] = IF opening > 0 THEN Append(@, Movement("opening_stock", 0, opening)) ELSE @]
        BY <1>1 DEF CreateInsert
      <3> HIDE DEF p, opening
      <3>3. QED
        BY <2>2, <3>1, <3>2
    <2>4. items' = items \cup {p} /\ stock' = [stock EXCEPT ![p] = opening]
      BY <1>1 DEF CreateInsert
    <2> HIDE DEF p, opening
    <2>5. Account!Open(p)
      BY <2>1, <2>3, <2>4 DEF Account!Open, Account!Stocks, Account!Movement, Stocks, Movement
    <2>6. QED
      BY <2>1, <2>5 DEF Account!Next
  <1>2. ASSUME NEW c \in Clients, PostMovement(c) PROVE Account!Next
    <2>1. PICK p \in items, type \in PUBLIC_MOVEMENT_TYPES, quantity \in Int, after \in Stocks :
             /\ p \in Products
             /\ Posts(type, stock[p], quantity)
             /\ after = QuantityAfter(type, stock[p], quantity)
             /\ stock' = [stock EXCEPT ![p] = after]
             /\ ledger' = [ledger EXCEPT ![p] = Append(@, Movement(type, stock[p], after))]
      BY <1>2, Posting
    <2>2. quantity \in 1 - MaxStock .. MaxStock - 1
      BY <2>1, MaxStockAssumption DEF Posts, ValidQuantity, Stocks, PUBLIC_MOVEMENT_TYPES
    <2>3. items' = items
      BY <1>2 DEF PostMovement
    <2>4. Account!Posts(type, stock[p], quantity)
      BY <2>1 DEF Posts, ValidQuantity, QuantityAfter, Stocks,
                  Account!Posts, Account!ValidQuantity, Account!QuantityAfter, Account!Stocks
    <2>5. after = Account!QuantityAfter(type, stock[p], quantity)
      BY <2>1 DEF QuantityAfter, Account!QuantityAfter
    <2>6. Movement(type, stock[p], after) = Account!Movement(type, stock[p], after)
      BY DEF Movement, Account!Movement
    <2>7. type \in Account!PUBLIC_MOVEMENT_TYPES
      BY DEF PUBLIC_MOVEMENT_TYPES, Account!PUBLIC_MOVEMENT_TYPES
    <2>8. Account!Post(p)
      BY <2>1, <2>2, <2>3, <2>4, <2>5, <2>6, <2>7 DEF Account!Post
    <2>9. QED
      BY <2>1, <2>8 DEF Account!Next
  <1>3. ASSUME NEW c \in Clients,
               Begins(c) \/ CreateConflict(c) \/ RefuseMovement(c) \/ Waits(c) \/ RequestAborted(c)
        PROVE  UNCHANGED <<items, stock, ledger>>
    BY <1>3
    DEF Begins, CreateLoad, MovementBegin, PatchLoad, CreateConflict, RefuseMovement, Waits,
        LockItem, PatchWrite, RequestAborted, itemVars
  <1>4. QED
    BY <1>1, <1>2, <1>3 DEF Next, Proceeds

\* Concurrent requests, whatever their number, implement the plain account.
THEOREM LedgerImplementsAccount == Spec => ImplementsAccount
  BY InitIInv, NextIInv, AccountInit, AccountNext, PTL DEF Spec, ImplementsAccount, Account!Spec
-----------------------------------------------------------------------------
(* Row locks *)

\* Whoever holds a row lock is a request about to post to that very row: no
\* answered, refused or aborted request has left its lock behind.
LocksAreInUse ==
    \A p \in Products : lock[p] # None =>
        /\ lock[p] \in Clients
        /\ pc[lock[p]] = "post"
        /\ req[lock[p]].product = p

\* A request that must wait for a row waits for one that waits for nothing: the
\* holder's next step is the commit or the refusal that gives the row back.
NobodyWaitsForTheWaiting ==
    \A c \in Clients :
        LET holder == lock[req[c].product] IN
        pc[c] \in {"lock", "patch"} /\ holder # None =>
            /\ holder \in Clients \ {c}
            /\ pc[holder] \notin {"lock", "patch"}
            /\ \A p \in Products : lock[p] = holder => p = req[c].product

\* A request that holds no lock and takes none leaves the locks in use.
LEMMA LocksUntouched ==
    ASSUME IInv, LocksAreInUse, NEW c \in Clients, pc[c] # "post", UNCHANGED lock,
           \A d \in Clients \ {c} : pc'[d] = pc[d] /\ req'[d] = req[d]
    PROVE  LocksAreInUse'
  BY DEF LocksAreInUse

\* The end of a session gives back whatever the session held.
LEMMA LocksGivenBack ==
    ASSUME IInv, LocksAreInUse, NEW c \in Clients, Unlock(c), Done(c)
    PROVE  LocksAreInUse'
  <1>1. \A d \in Clients \ {c} : pc'[d] = pc[d] /\ req'[d] = req[d]
    BY DoneSessions DEF IInv, TypeOK
  <1>2. \A p \in Products : lock'[p] = IF lock[p] = c THEN None ELSE lock[p]
    BY DEF Unlock
  <1>3. QED
    BY <1>1, <1>2 DEF LocksAreInUse

LEMMA NextLocks == IInv /\ LocksAreInUse /\ [Next]_vars => LocksAreInUse'
  <1> SUFFICES ASSUME IInv, LocksAreInUse, [Next]_vars PROVE LocksAreInUse'
    OBVIOUS
  <1>1. ASSUME NEW c \in Clients, Begins(c) PROVE LocksAreInUse'
    <2>1. pc[c] = "idle" /\ UNCHANGED lock
      BY <1>1 DEF Begins, CreateLoad, MovementBegin, PatchLoad
    <2>2. \A d \in Clients \ {c} : pc'[d] = pc[d] /\ req'[d] = req[d]
      BY <1>1 DEF Begins, CreateLoad, MovementBegin, PatchLoad, Goto, IInv, TypeOK
    <2>3. QED
      BY <2>1, <2>2, LocksUntouched
  <1>2. ASSUME NEW c \in Clients, CreateInsert(c) \/ CreateConflict(c) \/ PatchWrite(c)
        PROVE  LocksAreInUse'
    <2>1. pc[c] # "post" /\ UNCHANGED lock /\ Done(c)
      BY <1>2 DEF CreateInsert, CreateConflict, PatchWrite
    <2>2. \A d \in Clients \ {c} : pc'[d] = pc[d] /\ req'[d] = req[d]
      BY <2>1, DoneSessions DEF IInv, TypeOK
    <2>3. QED
      BY <2>1, <2>2, LocksUntouched
  <1>3. ASSUME NEW c \in Clients, PostMovement(c) \/ RefuseMovement(c) \/ RequestAborted(c)
        PROVE  LocksAreInUse'
    <2>1. Unlock(c) /\ Done(c)
      BY <1>3 DEF PostMovement, RefuseMovement, RequestAborted
    <2>2. QED
      BY <2>1, LocksGivenBack
  <1>4. ASSUME NEW c \in Clients, LockItem(c) PROVE LocksAreInUse'
    <2> DEFINE r == req[c]
               next == Request(r.product, r.type, r.quantity, stock[r.product])
    <2>1. pc[c] = "lock" /\ r.product \in Products /\ next.product = r.product
      BY <1>4 DEF LockItem, IInv, TypeOK, Request
    <2>2. lock' = [lock EXCEPT ![r.product] = c] /\ Goto(c, "post", next)
      BY <1>4 DEF LockItem
    <2> HIDE DEF next
    <2>3. /\ pc'[c] = "post" /\ req'[c] = next
          /\ \A d \in Clients \ {c} : pc'[d] = pc[d] /\ req'[d] = req[d]
      BY <2>2 DEF Goto, IInv, TypeOK
    <2>4. /\ lock'[r.product] = c
          /\ \A p \in Products \ {r.product} : lock'[p] = lock[p]
      BY <2>1, <2>2 DEF IInv, TypeOK
    <2>5. \A p \in Products : lock[p] # c
      BY <2>1, InventoryAssumption DEF LocksAreInUse
    <2>6. QED
      BY <2>1, <2>3, <2>4, <2>5 DEF LocksAreInUse
  <1>5. CASE UNCHANGED vars
    BY <1>5 DEF vars, LocksAreInUse
  <1>6. QED
    BY <1>1, <1>2, <1>3, <1>4, <1>5 DEF Next, Proceeds, Waits

LEMMA InUseSoNobodyWaits ==
    ASSUME IInv, LocksAreInUse PROVE NobodyWaitsForTheWaiting
  <1> SUFFICES ASSUME NEW c \in Clients, pc[c] \in {"lock", "patch"},
                      lock[req[c].product] # None
               PROVE  /\ lock[req[c].product] \in Clients \ {c}
                      /\ pc[lock[req[c].product]] \notin {"lock", "patch"}
                      /\ \A p \in Products :
                             lock[p] = lock[req[c].product] => p = req[c].product
    BY DEF NobodyWaitsForTheWaiting
  <1>1. req[c].product \in Products
    BY DEF IInv, TypeOK
  <1>2. QED
    BY <1>1 DEF LocksAreInUse

\* The row locks of create_stock_movement: they are held by requests at work
\* only, and those who wait for them can never be waiting for each other.
THEOREM RowLocksDoNotDeadlock == Spec => [](LocksAreInUse /\ NobodyWaitsForTheWaiting)
  <1>1. Init => LocksAreInUse
    BY DEF Init, LocksAreInUse
  <1>2. IInv /\ LocksAreInUse => NobodyWaitsForTheWaiting
    BY InUseSoNobodyWaits
  <1>3. QED
    BY <1>1, <1>2, InitIInv, NextIInv, NextLocks, PTL DEF Spec
=============================================================================
