------------------------------ MODULE Catalog ------------------------------
(***************************************************************************)
(* ProductService over PostgreSQL: the categories and products of several  *)
(* users, and concurrent requests that create, change and archive them.    *)
(* Every check is a SELECT of its own before the write; what no unique     *)
(* constraint repeats may have changed by then.  Rows are never deleted: a *)
(* row is identified by its place in the order of creation.                *)
(***************************************************************************)
EXTENDS CatalogRules, Listing

CONSTANTS
    Users, Clients,   \* the tenants; the concurrent requests
    None,             \* no category, no row
    Keep,             \* a field that a PATCH does not send
    RawSkus,          \* the SKUs clients send, as they spell them
    Names,            \* normalized category names
    Prices,           \* the prices they send
    MaxRows           \* bound: no further row is asked for at this number

ASSUME CatalogAssumption ==
    /\ Keep # None
    /\ \A mark \in {Keep, None} :
           /\ mark \notin Nat \cup BOOLEAN \cup Names
           /\ \A raw \in RawSkus : NormalizeSku(raw) # mark
    /\ RawSkus \subseteq Seq(DOMAIN Upper)
    /\ \A price \in Prices : price.digits \in Int /\ price.decimals \in Nat
    /\ MaxRows \in Nat

VARIABLES
    products,     \* the table products, oldest first
    categories,   \* the table product_categories
    pc,           \* the steps a request still has to take
    req,          \* its session: what it was asked, what it has read
    orderly       \* history: requests never overlapped, and none has put an
                  \* archived product back on sale

rowVars == <<products, categories>>
vars == <<rowVars, pc, req, orderly>>

Row(owner, key, category, active, price) ==
    [owner |-> owner, key |-> key, category |-> category, active |-> active,
     price |-> price]

NoRow == Row(None, None, None, FALSE, 0)

\* What a request asks for: Keep where it says nothing; seen is the row it loaded
Ask(op, user, id, key, category, active, price, seen) ==
    [op |-> op, user |-> user, id |-> id, key |-> key, category |-> category,
     active |-> active, price |-> price, seen |-> seen]

NoRequest == Ask("none", None, None, Keep, Keep, Keep, Keep, NoRow)

Init ==
    /\ products = <<>>
    /\ categories = <<>>
    /\ pc = [c \in Clients |-> <<>>]
    /\ req = [c \in Clients |-> NoRequest]
    /\ orderly = TRUE

\* What the clients' spellings come to, and the cents of their prices
Skus == {NormalizeSku(raw) : raw \in {r \in RawSkus : ValidSku(r)}}
AcceptedCents == {Cents(price) : price \in {p \in Prices : ValidPrice(p)}}

Inserting == {c \in Clients : pc[c] # <<>> /\ req[c].id = None}
Room == Len(products) + Len(categories) + Cardinality(Inserting) < MaxRows

OnProduct(r) == r.op \in {"create_product", "update_product", "archive_product"}
Table(r) == IF OnProduct(r) THEN products ELSE categories

\* A PATCH may archive a category without a look at its products.
UncountedSteps(r) ==
    (IF r.category \in Nat THEN <<"category">> ELSE <<>>)
    \o (IF r.key \notin {Keep, r.seen.key} THEN <<"key">> ELSE <<>>)
    \o (IF r.op = "archive_category" THEN <<"count">> ELSE <<>>)
    \o <<"write">>

\* The checks of the handler in their order, then its write
Steps(r) ==
    (IF r.category \in Nat THEN <<"category">> ELSE <<>>)
    \o (IF r.key \notin {Keep, r.seen.key} THEN <<"key">> ELSE <<>>)
    \o (IF ~OnProduct(r) /\ r.active = FALSE THEN <<"count">> ELSE <<>>)
    \o <<"write">>

At(c, step) == pc[c] # <<>> /\ Head(pc[c]) = step

Begin(c, r) ==
    /\ pc' = [pc EXCEPT ![c] = Steps(r)]
    /\ req' = [req EXCEPT ![c] = r]
    /\ orderly' = (orderly /\ \A d \in Clients : pc[d] = <<>>)
    /\ UNCHANGED rowVars

GoOn(c) == pc' = [pc EXCEPT ![c] = Tail(@)] /\ UNCHANGED req

\* The request is answered; its session is closed
Done(c) ==
    /\ pc' = [pc EXCEPT ![c] = <<>>]
    /\ req' = [req EXCEPT ![c] = NoRequest]

-----------------------------------------------------------------------------
(* The endpoints: input is normalized, the row in question is loaded       *)

CreateProduct(c) ==
    \E user \in Users, sku \in Skus, price \in AcceptedCents,
       category \in {None} \cup 1 .. Len(categories) :
        /\ Room
        /\ Begin(c, Ask("create_product", user, None, sku, category, TRUE, price, NoRow))

\* Bound: a PATCH with a SKU has no other field
UpdateProduct(c) ==
    \E user \in Users, p \in 1 .. Len(products), sku \in Skus \cup {Keep},
       category \in {None, Keep} \cup 1 .. Len(categories), active \in BOOLEAN \cup {Keep} :
        /\ products[p].owner = user
        /\ sku # Keep \/ category # Keep \/ active # Keep
        /\ sku # Keep => category = Keep /\ active = Keep
        /\ Begin(c, Ask("update_product", user, p, sku, category, active, Keep, products[p]))

ArchiveProduct(c) == \E user \in Users, p \in 1 .. Len(products) :
    /\ products[p].owner = user
    /\ Begin(c, Ask("archive_product", user, p, Keep, Keep, FALSE, Keep, products[p]))

CreateCategory(c) == \E user \in Users, name \in Names :
    /\ Room
    /\ Begin(c, Ask("create_category", user, None, name, None, TRUE, Keep, NoRow))

UpdateCategory(c) ==
    \E user \in Users, k \in 1 .. Len(categories), name \in Names \cup {Keep},
       active \in BOOLEAN \cup {Keep} :
        /\ categories[k].owner = user
        /\ name # Keep \/ active # Keep
        /\ Begin(c, Ask("update_category", user, k, name, Keep, active, Keep, categories[k]))

ArchiveCategory(c) == \E user \in Users, k \in 1 .. Len(categories) :
    /\ categories[k].owner = user
    /\ Begin(c, Ask("archive_category", user, k, Keep, Keep, FALSE, Keep, categories[k]))

-----------------------------------------------------------------------------
(* The checks *)

\* Whose category it is does not matter.
AnyActiveCategory(r) == categories[r.category].active

UsableCategory(r) ==
    categories[r.category].owner = r.user /\ categories[r.category].active

\* _ensure_category_can_be_used
CheckCategory(c) ==
    /\ At(c, "category")
    /\ IF UsableCategory(req[c]) THEN GoOn(c) ELSE Done(c)
    /\ UNCHANGED <<rowVars, orderly>>

Taken(r) == \E i \in DOMAIN Table(r) :
    /\ i # r.id
    /\ Table(r)[i].owner = r.user
    /\ Table(r)[i].key = r.key

\* _ensure_sku_available, _ensure_category_name_available
CheckKey(c) ==
    /\ At(c, "key")
    /\ IF Taken(req[c]) THEN Done(c) ELSE GoOn(c)
    /\ UNCHANGED <<rowVars, orderly>>

ActiveProducts(k) ==
    {p \in DOMAIN products : products[p].category = k /\ products[p].active}

\* _ensure_category_has_no_active_products
CheckNoActiveProducts(c) ==
    /\ At(c, "count")
    /\ IF ActiveProducts(req[c].id) = {} THEN GoOn(c) ELSE Done(c)
    /\ UNCHANGED <<rowVars, orderly>>

-----------------------------------------------------------------------------
(* The writes: one transaction each, refused by the unique constraints     *)

NoConstraint(r) == TRUE

\* uq_products_user_normalized_sku, uq_product_categories_user_normalized_name; a
\* key that is the loaded one is not in the UPDATE
ConstraintHolds(r) == r.key \in {Keep, r.seen.key} \/ ~Taken(r)

InsertRow(c) ==
    LET r == req[c]
        row == Row(r.user, r.key, r.category, r.active, IF OnProduct(r) THEN r.price ELSE 0)
    IN
    /\ At(c, "write")
    /\ r.id = None
    /\ ConstraintHolds(r)
    /\ products' = IF OnProduct(r) THEN Append(products, row) ELSE products
    /\ categories' = IF OnProduct(r) THEN categories ELSE Append(categories, row)
    /\ Done(c)
    /\ UNCHANGED orderly

\* UPDATE of the whole row as it was loaded.
WholeRow(row, r) ==
    LET Set(asked, seen) == IF asked = Keep THEN seen ELSE asked IN
    Row(row.owner, Set(r.key, r.seen.key), Set(r.category, r.seen.category),
        Set(r.active, r.seen.active), row.price)

\* Only columns that differ from the loaded row are in the UPDATE
Updated(row, r) ==
    LET Set(asked, seen, stored) == IF asked \in {Keep, seen} THEN stored ELSE asked IN
    Row(row.owner, Set(r.key, r.seen.key, row.key),
        Set(r.category, r.seen.category, row.category),
        Set(r.active, r.seen.active, row.active), row.price)

UpdateRow(c) ==
    LET r == req[c] IN
    /\ At(c, "write")
    /\ r.id # None
    /\ ConstraintHolds(r)
    /\ products' = IF OnProduct(r) THEN [products EXCEPT ![r.id] = Updated(@, r)] ELSE products
    /\ categories' =
           IF OnProduct(r) THEN categories ELSE [categories EXCEPT ![r.id] = Updated(@, r)]
    /\ orderly' = (orderly /\ ~(OnProduct(r) /\ r.active = TRUE /\ ~r.seen.active))
    /\ Done(c)

\* IntegrityError: rolled back, answered as a duplicate
RefusedByConstraint(c) ==
    /\ At(c, "write")
    /\ ~ConstraintHolds(req[c])
    /\ Done(c)
    /\ UNCHANGED <<rowVars, orderly>>

\* The API process dies, or the database ends the request
RequestAborted(c) ==
    /\ pc[c] # <<>>
    /\ Done(c)
    /\ UNCHANGED <<rowVars, orderly>>

\* A client has one request under way at most
Begins(c) ==
    /\ pc[c] = <<>>
    /\ \/ CreateProduct(c) \/ UpdateProduct(c) \/ ArchiveProduct(c)
       \/ CreateCategory(c) \/ UpdateCategory(c) \/ ArchiveCategory(c)

Proceeds(c) ==
    \/ CheckCategory(c) \/ CheckKey(c) \/ CheckNoActiveProducts(c)
    \/ InsertRow(c) \/ UpdateRow(c) \/ RefusedByConstraint(c)

Next == \E c \in Clients : Begins(c) \/ Proceeds(c) \/ RequestAborted(c)

Spec == Init /\ [][Next]_vars

-----------------------------------------------------------------------------
(* The lists *)

\* filters: a category or None, active TRUE, FALSE or None, the SKUs a search matches
ProductMatches(p, user, f) ==
    /\ products[p].owner = user
    /\ products[p].key \in f.search
    /\ f.category # None => products[p].category = f.category
    /\ f.active # None => products[p].active = f.active

SortKey(row, i, field) ==
    CASE field = "is_active" -> IF row.active THEN 1 ELSE 0
      [] field = "selling_price" -> row.price
      [] field \in {"created_at", "updated_at"} -> i

\* The asked column, then the newest first
RowBefore(table, field, order, i, j) ==
    LET x == SortKey(table[i], i, field)
        y == SortKey(table[j], j, field)
    IN IF x = y THEN i > j ELSE IF order = "asc" THEN x < y ELSE x > y

\* 404 for the category of somebody else
ListedProducts(user, f) ==
    IF f.category # None /\ categories[f.category].owner # user THEN {}
    ELSE {p \in DOMAIN products : ProductMatches(p, user, f)}

ListedCategories(user, active) ==
    {k \in DOMAIN categories :
        categories[k].owner = user /\ (active # None => categories[k].active = active)}

-----------------------------------------------------------------------------
(* Properties *)

Rows(top, keys) ==
    [owner : Users, key : keys, category : {None} \cup Nat, active : BOOLEAN,
     price : 0 .. top]

NormalSkus == {sku \in Skus : NormalizeSku(sku) = sku /\ ValidSku(sku)}

\* Rows have their types: every price fits its Numeric(12, 2) column, every
\* category that a product names exists, and a stored SKU is its own normal form
\* (the rows of a sales file are normalized before they are looked up).
TypeOK ==
    /\ products \in Seq(Rows(PriceLimit * 100 - 1, NormalSkus))
    /\ categories \in Seq(Rows(0, Names))
    /\ \A p \in DOMAIN products : products[p].category \in {None} \cup DOMAIN categories
    /\ \A c \in Clients : pc[c] # <<>> => req[c].id \in {None} \cup DOMAIN Table(req[c])

Quiet == \A c \in Clients : pc[c] = <<>>

\* No user has two products with one SKU or two categories with one name,
\* whichever requests found the key free at the same time.
KeysUnique == \A table \in {products, categories} : \A i, j \in DOMAIN table :
    table[i].owner = table[j].owner /\ table[i].key = table[j].key => i = j

\* The tenants' catalogs do not mix: no product is in a category of somebody else.
CategoryOfOwner == \A p \in DOMAIN products :
    products[p].category # None => categories[products[p].category].owner = products[p].owner

\* "Categories with active products cannot be archived", nor can a product be
\* put into an archived one: true as long as requests do not overlap and no
\* archived product is put back on sale (which looks at no category).
ArchivedCategoriesAreEmpty ==
    orderly => \A k \in DOMAIN categories : ~categories[k].active => ActiveProducts(k) = {}

BroughtBack(table, after, i) == ~table[i].active /\ after[i].active

\* Some request ends its PATCH with is_active true
AskedBack(onProduct, i) == \E c \in Clients :
    /\ At(c, "write")
    /\ pc'[c] = <<>>
    /\ OnProduct(req[c]) = onProduct
    /\ req[c].id = i
    /\ req[c].active = TRUE

ReturnsAreAskedFor ==
    /\ \A p \in DOMAIN products : BroughtBack(products, products', p) => AskedBack(TRUE, p)
    /\ \A k \in DOMAIN categories : BroughtBack(categories, categories', k) => AskedBack(FALSE, k)

\* A product that was archived comes back on sale only by a PATCH that asks for
\* it, and a category likewise: no concurrent change of another field undoes
\* the archiving.
ArchivedStaysArchived == [][ReturnsAreAskedFor]_vars

\* Between requests, the pages of every list are together what the filters
\* leave of the user's rows, each row once, in one order.
PagesAreTheList ==
    Quiet =>
        \A user \in Users, active \in BOOLEAN \cup {None}, order \in {"asc", "desc"},
           field \in {"is_active", "created_at"}, limit \in 1 .. MaxLimit :
            /\ PagesMakeUp(ListedCategories(user, active),
                   LAMBDA i, j : RowBefore(categories, field, order, i, j), limit)
            /\ \A category \in {None} \cup DOMAIN categories :
                   PagesMakeUp(
                       ListedProducts(user, [category |-> category, active |-> active,
                                             search |-> Skus]),
                       LAMBDA i, j : RowBefore(products, field, order, i, j), limit)
=============================================================================
