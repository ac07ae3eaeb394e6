---------------------------- MODULE SalesRecords ----------------------------
(***************************************************************************)
(* SalesUploadService and SalesTransactionService over PostgreSQL: files   *)
(* of sales, single sales that are changed and soft deleted, and concurrent *)
(* requests of several users.  A sale is loaded without a lock and written *)
(* later; that a file is new is a SELECT without a constraint behind it.   *)
(* The catalog is fixed here (Catalog has its changes).                    *)
(***************************************************************************)
EXTENDS SalesRules

CONSTANTS
    Users, Clients,   \* the tenants; the concurrent requests
    Products,         \* the products of all users
    Catalogue,        \* [Products -> [owner, sku, category, active]]
    Files,            \* the files clients upload; a file stands for its hash
    NewSales,         \* what clients post: product, date, quantity, price, total
    Patches,          \* what they patch
    MaxSales,         \* bound: no sale is asked for beyond it
    MaxBatches,       \* bound: nor a further upload
    MaxPatches        \* bound: so many PATCH requests

ASSUME SalesAssumption ==
    /\ MaxSales \in Nat /\ MaxBatches \in Nat /\ MaxPatches \in Nat
    /\ \A new \in NewSales :
           /\ new.date \in Int
           /\ new.quantity \in Decimals /\ {new.price, new.total} \subseteq Decimals \cup {None}
    /\ \A patch \in Patches :
           /\ patch.date \in Int \cup {Keep}
           /\ patch.quantity \in Decimals \cup {Keep}
           /\ {patch.price, patch.total} \subseteq Decimals \cup {None, Keep}
    /\ \A file \in Files :
           /\ Len(file.rows) \in Nat /\ DOMAIN file.rows = 1 .. Len(file.rows)
           /\ \A n \in DOMAIN file.rows :
              /\ file.rows[n].sale_date \in Int \cup {None, Bad}
              /\ {file.rows[n].quantity, file.rows[n].unit_price, file.rows[n].total_amount}
                     \subseteq Decimals \cup {None, Bad}

VARIABLES
    sales,      \* sales_transactions, oldest first
    batches,    \* sales_upload_batches, oldest first
    rejected,   \* sales_upload_rejected_rows, oldest first
    pc, req,    \* where each request is; its session
    stale,      \* history: the sales written by a request whose session held
                \* values that others had changed
    patched     \* how many PATCH requests there were

rowVars == <<sales, batches, rejected, stale>>
vars == <<rowVars, pc, req, patched>>

NoRequest == [user |-> None, id |-> 0, seen |-> None, ask |-> None, since |-> 0]

Init ==
    /\ sales = <<>>
    /\ batches = <<>>
    /\ rejected = <<>>
    /\ pc = [c \in Clients |-> "idle"]
    /\ req = [c \in Clients |-> NoRequest]
    /\ stale = {}
    /\ patched = 0

Goto(c, label, request) ==
    /\ pc' = [pc EXCEPT ![c] = label]
    /\ req' = [req EXCEPT ![c] = request]

\* The request is answered; its session is closed
Done(c) == Goto(c, "idle", NoRequest)

Sale(user, product, batch, date, quantity, price, total, source, given) ==
    [owner |-> user, product |-> product, batch |-> batch, date |-> date,
     quantity |-> quantity, price |-> price, total |-> total, source |-> source,
     deleted |-> FALSE, given |-> given]

Storing == Cardinality({c \in Clients : pc[c] = "store"})
Room == Len(sales) + Storing < MaxSales

OwnProducts(user) == {p \in Products : Catalogue[p].owner = user}

-----------------------------------------------------------------------------
(* create_transaction: normalized, the product looked up, one INSERT       *)

ManualSale(user, new) ==
    LET quantity == Thousandths(new.quantity)
        price == Cents(new.price)
        total == Cents(new.total)
    IN Sale(user, new.product, None, new.date, quantity, price,
            TotalAmount(quantity, price, total, FALSE), "manual", total # None)

\* Any product will do.
CreateForAnyProduct(c) == \E user \in Users, new \in NewSales :
    /\ pc[c] = "idle"
    /\ Room
    /\ ValidQuantity(new.quantity) /\ ValidMoney(new.price) /\ ValidMoney(new.total)
    /\ FitsColumns(ManualSale(user, new))
    /\ sales' = Append(sales, ManualSale(user, new))
    /\ UNCHANGED <<batches, rejected, stale, pc, req, patched>>

CreateTransaction(c) == \E user \in Users, new \in NewSales :
    /\ pc[c] = "idle"
    /\ Room
    /\ ValidQuantity(new.quantity) /\ ValidMoney(new.price) /\ ValidMoney(new.total)
    /\ new.product \in OwnProducts(user)
    /\ FitsColumns(ManualSale(user, new))
    /\ sales' = Append(sales, ManualSale(user, new))
    /\ UNCHANGED <<batches, rejected, stale, pc, req, patched>>

-----------------------------------------------------------------------------
(* update_transaction, delete_transaction *)

\* Deleted sales can be changed.
PatchLoadAny(c) == \E user \in Users, i \in 1 .. Len(sales), patch \in Patches :
    /\ pc[c] = "idle"
    /\ patched < MaxPatches
    /\ sales[i].owner = user
    /\ patch.product \in OwnProducts(user) \cup {Keep, sales[i].product}
    /\ ValidPatch(patch)
    /\ Goto(c, "patch", [user |-> user, id |-> i, seen |-> sales[i], ask |-> patch, since |-> 0])
    /\ patched' = patched + 1
    /\ UNCHANGED rowVars

\* The sale is loaded and refused if deleted; a new product must be the user's
PatchLoad(c) == \E user \in Users, i \in 1 .. Len(sales), patch \in Patches :
    /\ pc[c] = "idle"
    /\ patched < MaxPatches
    /\ sales[i].owner = user
    /\ ~sales[i].deleted
    /\ patch.product \in OwnProducts(user) \cup {Keep, sales[i].product}
    /\ ValidPatch(patch)
    /\ Goto(c, "patch", [user |-> user, id |-> i, seen |-> sales[i], ask |-> patch, since |-> 0])
    /\ patched' = patched + 1
    /\ UNCHANGED rowVars

\* The UPDATE names the columns that differ from the loaded row
Written(row, seen, new) ==
    [f \in DOMAIN row |->
        IF f \in DOMAIN new /\ new[f] # seen[f] THEN new[f] ELSE row[f]]

Write(c, row) ==
    LET r == req[c] IN
    /\ sales' = [sales EXCEPT ![r.id] = row]
    /\ stale' = IF sales[r.id] = r.seen THEN stale ELSE stale \cup {r.id}

PatchWrite(c) ==
    LET r == req[c]
        row == Written(sales[r.id], r.seen, NormalizeUpdate(r.ask, r.seen))
    IN
    /\ pc[c] = "patch"
    /\ FitsColumns(row)
    /\ Write(c, row)
    /\ Done(c)
    /\ UNCHANGED <<batches, rejected, patched>>

\* numeric field overflow: no AppError, the session is closed and rolled back
PatchOverflows(c) ==
    LET r == req[c] IN
    /\ pc[c] = "patch"
    /\ ~FitsColumns(Written(sales[r.id], r.seen, NormalizeUpdate(r.ask, r.seen)))
    /\ Done(c)
    /\ UNCHANGED <<rowVars, patched>>

DeleteLoad(c) == \E user \in Users, i \in 1 .. Len(sales) :
    /\ pc[c] = "idle"
    /\ sales[i].owner = user
    /\ ~sales[i].deleted
    /\ Goto(c, "delete", [user |-> user, id |-> i, seen |-> sales[i], ask |-> None, since |-> 0])
    /\ UNCHANGED <<rowVars, patched>>

\* deleted_at and the reason, nothing else
DeleteWrite(c) ==
    /\ pc[c] = "delete"
    /\ Write(c, [sales[req[c].id] EXCEPT !.deleted = TRUE])
    /\ Done(c)
    /\ UNCHANGED <<batches, rejected, patched>>

-----------------------------------------------------------------------------
(* upload_sales_csv *)

\* Only a batch without errors counts.
CompletedUploads(user, file) ==
    {b \in 1 .. Len(batches) :
        batches[b].owner = user /\ batches[b].file = file /\ batches[b].status = "completed"}

\* file_hash_exists
Uploaded(user, file) ==
    {b \in 1 .. Len(batches) : batches[b].owner = user /\ batches[b].file = file}

\* The file is valid and its hash is new: any batch counts, whatever its status
UploadBegin(c) == \E user \in Users, file \in Files :
    /\ pc[c] = "idle"
    /\ Room
    /\ Len(batches) + Storing < MaxBatches
    /\ ValidUploadFile(file)
    /\ Uploaded(user, file) = {}
    /\ ParsesAsCsv(file)
    /\ Goto(c, "store",
            [user |-> user, id |-> 0, seen |-> None, ask |-> file, since |-> Len(batches)])
    /\ UNCHANGED <<rowVars, patched>>

SkusOf(user) == {Catalogue[p].sku : p \in OwnProducts(user)}
ProductOf(user, sku) == CHOOSE p \in OwnProducts(user) : Catalogue[p].sku = sku

AcceptedAt(user, file) ==
    {n \in DOMAIN file.rows : Rejection(file.rows[n], SkusOf(user)) = None}

\* The loop over the parsed rows: those at the given positions, in the order of the file
Taken(rows, positions) ==
    LET upTo[n \in 0 .. Len(rows)] ==
            IF n = 0 THEN <<>>
            ELSE IF n \in positions THEN Append(upTo[n - 1], rows[n]) ELSE upTo[n - 1]
    IN upTo[Len(rows)]

Accepted(user, file) == Taken(file.rows, AcceptedAt(user, file))
Refused(user, file) == Taken(file.rows, DOMAIN file.rows \ AcceptedAt(user, file))

\* _transaction_values of an accepted row
CsvSale(user, batch, row) ==
    LET quantity == Thousandths(row.quantity)
        price == Cents(row.unit_price)
        total == Cents(row.total_amount)
    IN Sale(user, ProductOf(user, row.product_sku), batch, row.sale_date, quantity, price,
            TotalAmount(quantity, price, total, FALSE), "csv_upload", total # None)

StoredSales(c) ==
    LET r == req[c]
        rows == Accepted(r.user, r.ask)
    IN [n \in DOMAIN rows |-> CsvSale(r.user, Len(batches) + 1, rows[n])]

\* Batch, sales and rejected rows in one transaction
StoreBatch(c) ==
    LET r == req[c]
        bad == Refused(r.user, r.ask)
        accepted == Len(StoredSales(c))
    IN
    /\ pc[c] = "store"
    /\ \A n \in DOMAIN StoredSales(c) : FitsColumns(StoredSales(c)[n])
    /\ sales' = sales \o StoredSales(c)
    /\ rejected' = rejected \o
           [n \in DOMAIN bad |->
               [owner |-> r.user, batch |-> Len(batches) + 1,
                code |-> Rejection(bad[n], SkusOf(r.user))]]
    /\ batches' = Append(batches,
           [owner |-> r.user, file |-> r.ask, status |-> UploadStatus(accepted, Len(bad)),
            total |-> Len(r.ask.rows), accepted |-> accepted, rejected |-> Len(bad),
            reason |-> accepted = 0, since |-> r.since])
    /\ Done(c)
    /\ UNCHANGED <<stale, patched>>

\* One value too large for its column, and nothing of the file is stored
StoreOverflows(c) ==
    /\ pc[c] = "store"
    /\ \E n \in DOMAIN StoredSales(c) : ~FitsColumns(StoredSales(c)[n])
    /\ Done(c)
    /\ UNCHANGED <<rowVars, patched>>

-----------------------------------------------------------------------------
\* The API process dies, or the database ends the request
RequestAborted(c) ==
    /\ pc[c] # "idle"
    /\ Done(c)
    /\ UNCHANGED <<rowVars, patched>>

Begins(c) == CreateTransaction(c) \/ PatchLoad(c) \/ DeleteLoad(c) \/ UploadBegin(c)

Proceeds(c) ==
    PatchWrite(c) \/ PatchOverflows(c) \/ DeleteWrite(c) \/ StoreBatch(c) \/ StoreOverflows(c)

Next == \E c \in Clients : Begins(c) \/ Proceeds(c) \/ RequestAborted(c)

Spec == Init /\ [][Next]_vars

-----------------------------------------------------------------------------
(* Properties *)

\* Every stored sale fits its columns and sells something; nothing negative and
\* nothing too large gets past both the service and PostgreSQL.
TypeOK ==
    /\ \A i \in DOMAIN sales :
        LET s == sales[i] IN
        /\ s.product \in Products /\ s.owner \in Users
        /\ s.batch \in {None} \cup DOMAIN batches
        /\ s.quantity \in 1 .. QuantityLimit * 1000 - 1
        /\ s.price \in {None} \cup 0 .. PriceTop * 100 - 1
        /\ s.total \in {None} \cup 0 .. TotalTop * 100 - 1
    /\ \A n \in DOMAIN rejected : rejected[n].batch \in DOMAIN batches
    /\ stale \subseteq DOMAIN sales
    /\ \A c \in Clients : pc[c] \in {"patch", "delete"} => req[c].id \in DOMAIN sales

\* Nobody records a sale of somebody else's product, by hand, by PATCH or by file.
SalesOfOwnProducts == \A i \in DOMAIN sales : Catalogue[sales[i].product].owner = sales[i].owner

\* The total of a sale is quantity times price to the nearest cent, and absent
\* without a price, unless the client gave a total of its own or two requests
\* changed the sale at once.
TotalsAreProducts == \A i \in DOMAIN sales \ stale :
    LET s == sales[i]
        error == IF s.price = None \/ s.total = None THEN 0
                 ELSE 1000 * s.total - s.quantity * s.price
    IN ~s.given => /\ s.total = None <=> s.price = None
                   /\ -1000 <= 2 * error /\ 2 * error <= 1000

\* A deleted sale never comes back, and only a request that had loaded it before
\* can still change it.
DeletedIsFinal ==
    [][\A i \in DOMAIN sales : sales[i].deleted =>
           /\ sales'[i].deleted
           /\ sales'[i] # sales[i] => i \in stale']_vars

\* The counters of a batch account for its file: accepted rows are its sales,
\* rejected rows its rejections, no row is lost, and the status tells which.
BatchesAccountForRows == \A b \in DOMAIN batches :
    LET batch == batches[b] IN
    /\ batch.accepted = Cardinality({i \in DOMAIN sales : sales[i].batch = b})
    /\ batch.rejected = Cardinality({n \in DOMAIN rejected : rejected[n].batch = b})
    /\ batch.accepted + batch.rejected = batch.total
    /\ batch.total = Len(batch.file.rows)
    /\ batch.status = "completed" <=> batch.rejected = 0
    /\ batch.reason <=> batch.accepted = 0

\* A user's file is stored once, whatever became of its rows, unless two uploads
\* of it had both begun before either was stored.
FilesStoredOnce == \A a, b \in DOMAIN batches :
    a < b /\ batches[a].owner = batches[b].owner /\ batches[a].file = batches[b].file
        => batches[b].since < a
=============================================================================
