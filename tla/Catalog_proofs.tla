--------------------------- MODULE Catalog_proofs ---------------------------
(***************************************************************************)
(* Proofs about Catalog, for any users, requests and names: keys stay      *)
(* unique, the catalogs of the tenants stay apart, what was archived stays *)
(* so until somebody asks for it, and archived categories are empty as     *)
(* long as requests follow each other.                                     *)
(***************************************************************************)
EXTENDS Catalog, SequenceTheorems, ListLemmas

-----------------------------------------------------------------------------
(* Tables *)

Keys == Skus \cup Names

TableRows == [owner : Users, key : Keys, category : {None} \cup Nat, active : BOOLEAN,
              price : {0} \cup AcceptedCents]

UniqueKeys(table) ==
    \A i, j \in DOMAIN table :
        table[i].owner = table[j].owner /\ table[i].key = table[j].key => i = j

Free(table, owner, key, id) ==
    \A i \in DOMAIN table : table[i].owner = owner /\ table[i].key = key => i = id

\* Rows are not deleted and stay with their users.
Grown(table, later) ==
    /\ DOMAIN table \subseteq DOMAIN later
    /\ \A i \in DOMAIN table : later[i].owner = table[i].owner

InOwnCategory(row, kinds) ==
    row.category # None =>
        row.category \in DOMAIN kinds /\ kinds[row.category].owner = row.owner

LEMMA MarksAreApart ==
    /\ Keep \notin Keys /\ None \notin Keys
    /\ Keep \notin Nat /\ None \notin Nat /\ Keep # None
    /\ Keep \notin BOOLEAN
  BY CatalogAssumption DEF Keys, Skus

LEMMA RowType ==
    ASSUME NEW owner \in Users, NEW key \in Keys, NEW category \in {None} \cup Nat,
           NEW active \in BOOLEAN, NEW price \in {0} \cup AcceptedCents
    PROVE  Row(owner, key, category, active, price) \in TableRows
  BY Zenon DEF Row, TableRows

LEMMA RowFields ==
    ASSUME NEW owner, NEW key, NEW category, NEW active, NEW price,
           NEW row, row = Row(owner, key, category, active, price)
    PROVE  /\ row.owner = owner /\ row.key = key /\ row.category = category
           /\ row.active = active
  BY Zenon DEF Row

AskedFields(r) ==
    /\ r.key \in Keys \cup {Keep}
    /\ r.category \in {None, Keep} \cup Nat
    /\ r.active \in BOOLEAN \cup {Keep}

\* The columns of an UPDATE: what was asked for, or what is stored
LEMMA UpdatedFields ==
    ASSUME NEW old \in TableRows, NEW r, NEW row, row = Updated(old, r),
           AskedFields(r)
    PROVE  /\ row \in TableRows
           /\ row.owner = old.owner
           /\ row.key = IF r.key \in {Keep, r.seen.key} THEN old.key ELSE r.key
           /\ row.category \in {old.category, r.category} \ {Keep}
           /\ row.active \in {old.active, r.active}
  <1>1. /\ old.owner \in Users /\ old.key \in Keys /\ old.category \in {None} \cup Nat
        /\ old.active \in BOOLEAN /\ old.price \in {0} \cup AcceptedCents
    BY DEF TableRows
  <1>2. PICK key, category, active :
           /\ row = Row(old.owner, key, category, active, old.price)
           /\ key = IF r.key \in {Keep, r.seen.key} THEN old.key ELSE r.key
           /\ category = IF r.category \in {Keep, r.seen.category} THEN old.category ELSE r.category
           /\ active = IF r.active \in {Keep, r.seen.active} THEN old.active ELSE r.active
    BY Zenon DEF Updated
  <1>3. /\ key \in Keys /\ category \in ({None} \cup Nat)
        /\ category \in {old.category, r.category} \ {Keep}
    <2>1. r.key \in Keys \cup {Keep} /\ r.category \in {None, Keep} \cup Nat
      BY DEF AskedFields
    <2>2. QED
      BY <1>1, <1>2, <2>1, MarksAreApart
  <1>4. active \in BOOLEAN /\ active \in {old.active, r.active}
    <2>1. r.active \in BOOLEAN \cup {Keep}
      BY DEF AskedFields
    <2>2. QED
      BY <1>1, <1>2, <2>1, MarksAreApart, Zenon
  <1>5. /\ row \in TableRows /\ row.owner = old.owner /\ row.key = key /\ row.category = category
        /\ row.active = active
    <2>1. row = Row(old.owner, key, category, active, old.price)
      BY <1>2
    <2>2. key \in Keys /\ category \in {None} \cup Nat
      BY <1>3
    <2>3. active \in BOOLEAN
      BY <1>4
    <2>4. row \in TableRows
      BY <1>1, <2>1, <2>2, <2>3, RowType
    <2>5. QED
      BY <2>1, <2>4, SMT, RowFields
  <1>6. QED
    BY <1>2, <1>3, <1>4, <1>5, Zenon

\* All of the later table is in the earlier one, but for the row that is written
OnlyWrites(table, later, row) ==
    \A i \in DOMAIN later : later[i] = row \/ (i \in DOMAIN table /\ later[i] = table[i])

LEMMA Inserted ==
    ASSUME NEW table \in Seq(TableRows), NEW row \in TableRows,
           UniqueKeys(table), Free(table, row.owner, row.key, None),
           NEW later, later = Append(table, row)
    PROVE  /\ later \in Seq(TableRows) /\ Grown(table, later) /\ UniqueKeys(later)
           /\ OnlyWrites(table, later, row)
  <1>1. /\ later \in Seq(TableRows) /\ DOMAIN later = DOMAIN table \cup {Len(table) + 1}
        /\ DOMAIN table \subseteq Nat
        /\ Len(table) + 1 \notin DOMAIN table /\ later[Len(table) + 1] = row
        /\ \A i \in DOMAIN table : later[i] = table[i]
    OBVIOUS
  <1>2. Grown(table, later) /\ UniqueKeys(later)
    BY <1>1, MarksAreApart DEF Grown, UniqueKeys, Free
  <1>3. OnlyWrites(table, later, row)
    BY <1>1, Zenon DEF OnlyWrites
  <1>4. QED
    BY <1>1, <1>2, <1>3

LEMMA Changed ==
    ASSUME NEW table \in Seq(TableRows), NEW id \in DOMAIN table, NEW row \in TableRows,
           UniqueKeys(table), row.owner = table[id].owner,
           row.key = table[id].key \/ Free(table, row.owner, row.key, id),
           NEW later, later = [table EXCEPT ![id] = row]
    PROVE  /\ later \in Seq(TableRows) /\ Grown(table, later) /\ UniqueKeys(later)
           /\ OnlyWrites(table, later, row)
  <1>1. /\ later \in Seq(TableRows) /\ DOMAIN later = DOMAIN table /\ later[id] = row
        /\ \A i \in DOMAIN table \ {id} : later[i] = table[i]
    OBVIOUS
  <1>2. Grown(table, later)
    BY <1>1 DEF Grown
  <1>3. UniqueKeys(later)
    BY <1>1 DEF UniqueKeys, Free
  <1>4. OnlyWrites(table, later, row)
    BY <1>1, Zenon DEF OnlyWrites
  <1>5. QED
    BY <1>1, <1>2, <1>3, <1>4

-----------------------------------------------------------------------------
(* Requests *)

TableOf(P, C, r) == IF OnProduct(r) THEN P ELSE C

\* A request that inserts has all it needs; one that updates has a row of its
\* user; a category that it names exists, and is its user's once looked up.
SoundRequest(P, C, steps, r) ==
    /\ r.user \in Users
    /\ r.key \in Keys \cup {Keep}
    /\ r.category \in {None, Keep} \cup Nat
    /\ r.active \in BOOLEAN \cup {Keep}
    /\ r.id = None =>
           /\ r.key \in Keys \ {r.seen.key} /\ r.category # Keep /\ r.active = TRUE
           /\ OnProduct(r) => r.price \in AcceptedCents
    /\ r.id # None => r.id \in DOMAIN TableOf(P, C, r) /\ TableOf(P, C, r)[r.id].owner = r.user
    /\ r.category \in Nat =>
           /\ OnProduct(r) /\ r.category \in DOMAIN C
           /\ Head(steps) # "category" => C[r.category].owner = r.user

SoundTables(P, C) ==
    /\ P \in Seq(TableRows) /\ C \in Seq(TableRows)
    /\ UniqueKeys(P) /\ UniqueKeys(C)
    /\ \A p \in DOMAIN P : InOwnCategory(P[p], C)

CatalogInv ==
    /\ SoundTables(products, categories)
    /\ DOMAIN pc = Clients /\ DOMAIN req = Clients
    /\ \A c \in Clients : pc[c] # <<>> => SoundRequest(products, categories, pc[c], req[c])

LEMMA CatalogInit == Init => CatalogInv
  <1> SUFFICES ASSUME Init PROVE CatalogInv
    OBVIOUS
  <1>1. products = <<>> /\ categories = <<>>
    BY DEF Init
  <1>2. SoundTables(products, categories)
    BY <1>1 DEF SoundTables, UniqueKeys
  <1>3. QED
    BY <1>2 DEF Init, CatalogInv

LEMMA RequestStays ==
    ASSUME NEW P, NEW C, NEW steps, NEW r, SoundRequest(P, C, steps, r),
           NEW P2, NEW C2, Grown(P, P2), Grown(C, C2)
    PROVE  SoundRequest(P2, C2, steps, r)
  <1>1. Grown(TableOf(P, C, r), TableOf(P2, C2, r))
    BY DEF TableOf
  <1>2. r.id # None =>
           r.id \in DOMAIN TableOf(P2, C2, r) /\ TableOf(P2, C2, r)[r.id].owner = r.user
    BY <1>1, Zenon DEF SoundRequest, Grown
  <1>3. r.category \in Nat =>
           /\ OnProduct(r) /\ r.category \in DOMAIN C2
           /\ Head(steps) # "category" => C2[r.category].owner = r.user
    BY Zenon DEF SoundRequest, Grown
  <1>4. QED
    BY <1>2, <1>3, Zenon DEF SoundRequest

LEMMA SameTable == \A table : Grown(table, table)
  BY DEF Grown

LEMMA RequestMoves ==
    ASSUME CatalogInv, NEW c \in Clients, NEW steps, NEW r,
           pc' = [pc EXCEPT ![c] = steps], DOMAIN req' = Clients,
           req'[c] = r, \A d \in Clients \ {c} : req'[d] = req[d],
           steps # <<>> => SoundRequest(products', categories', steps, r),
           Grown(products, products'), Grown(categories, categories'),
           SoundTables(products', categories')
    PROVE  CatalogInv'
  <1>1. DOMAIN pc' = Clients /\ pc'[c] = steps /\ \A d \in Clients \ {c} : pc'[d] = pc[d]
    BY DEF CatalogInv
  <1>2. ASSUME NEW d \in Clients, pc'[d] # <<>>
        PROVE  SoundRequest(products', categories', pc'[d], req'[d])
    <2>1. CASE d = c
      BY <1>1, <1>2, <2>1
    <2>2. CASE d # c
      <3>1. SoundRequest(products, categories, pc[d], req[d])
        BY <1>1, <1>2, <2>2 DEF CatalogInv
      <3>2. QED
        BY <1>1, <2>2, <3>1, RequestStays
    <2>3. QED
      BY <2>1, <2>2
  <1>3. QED
    BY <1>1, <1>2 DEF CatalogInv

\* A request begins, or is over
LEMMA SessionMoves ==
    ASSUME CatalogInv, NEW c \in Clients, NEW steps, NEW r,
           pc' = [pc EXCEPT ![c] = steps], req' = [req EXCEPT ![c] = r],
           steps # <<>> => SoundRequest(products', categories', steps, r),
           Grown(products, products'), Grown(categories, categories'),
           SoundTables(products', categories')
    PROVE  CatalogInv'
  <1>1. DOMAIN req' = Clients /\ req'[c] = r /\ \A d \in Clients \ {c} : req'[d] = req[d]
    BY DEF CatalogInv
  <1>2. QED
    BY <1>1, RequestMoves

LEMMA RequestEnds ==
    ASSUME CatalogInv, NEW c \in Clients, Done(c),
           Grown(products, products'), Grown(categories, categories'),
           SoundTables(products', categories')
    PROVE  CatalogInv'
  BY SessionMoves DEF Done

LEMMA RequestGoesOn ==
    ASSUME CatalogInv, NEW c \in Clients, GoOn(c), UNCHANGED rowVars, pc[c] # <<>>,
           /\ req[c].category \in Nat /\ Head(pc[c]) = "category"
           => categories[req[c].category].owner = req[c].user
    PROVE  CatalogInv'
  <1>1. /\ pc' = [pc EXCEPT ![c] = Tail(pc[c])] /\ DOMAIN req' = Clients /\ req'[c] = req[c]
        /\ \A d \in Clients \ {c} : req'[d] = req[d]
    BY DEF GoOn, CatalogInv
  <1>2. SoundRequest(products', categories', Tail(pc[c]), req[c])
    BY Zenon DEF CatalogInv, SoundRequest, rowVars
  <1>3. Grown(products, products') /\ Grown(categories, categories')
        /\ SoundTables(products', categories')
    BY SameTable DEF CatalogInv, rowVars
  <1>4. QED
    BY <1>1, <1>2, <1>3, RequestMoves

LEMMA FirstStep ==
    ASSUME NEW r, r.category \in Nat
    PROVE  Head(Steps(r)) = "category"
  BY DEF Steps

LEMMA AskFields ==
    ASSUME NEW op, NEW user, NEW id, NEW key, NEW category, NEW active, NEW price, NEW seen,
           NEW r, r = Ask(op, user, id, key, category, active, price, seen)
    PROVE  /\ r.op = op /\ r.user = user /\ r.id = id /\ r.key = key
           /\ r.category = category /\ r.active = active /\ r.price = price /\ r.seen = seen
  BY Zenon DEF Ask

LEMMA RequestBegins ==
    ASSUME CatalogInv, NEW c \in Clients, NEW r, Begin(c, r),
           /\ r.user \in Users
           /\ r.key \in Keys \cup {Keep}
           /\ r.category \in {None, Keep} \cup Nat
           /\ r.active \in BOOLEAN \cup {Keep},
           r.id = None =>
               /\ r.key \in Keys \ {r.seen.key} /\ r.category # Keep /\ r.active = TRUE
               /\ OnProduct(r) => r.price \in AcceptedCents,
           r.id # None => r.id \in DOMAIN Table(r) /\ Table(r)[r.id].owner = r.user,
           r.category \in Nat => OnProduct(r) /\ r.category \in DOMAIN categories
    PROVE  CatalogInv'
  <1>1. SoundRequest(products, categories, Steps(r), r)
    <2>1. r.category \in Nat => Head(Steps(r)) = "category"
      BY FirstStep
    <2>2. Table(r) = TableOf(products, categories, r)
      BY DEF Table, TableOf
    <2>3. QED
      BY <2>1, <2>2, Zenon DEF SoundRequest
  <1>2. /\ pc' = [pc EXCEPT ![c] = Steps(r)] /\ req' = [req EXCEPT ![c] = r]
        /\ UNCHANGED <<products, categories>>
    BY DEF Begin, rowVars
  <1>3. /\ SoundRequest(products', categories', Steps(r), r)
        /\ Grown(products, products') /\ Grown(categories, categories')
        /\ SoundTables(products', categories')
    BY <1>1, <1>2, SameTable DEF CatalogInv
  <1>4. QED
    BY <1>2, <1>3, SessionMoves

-----------------------------------------------------------------------------
(* Every action keeps the invariant: the requests *)

LEMMA Places ==
    ASSUME CatalogInv
    PROVE  DOMAIN products = 1 .. Len(products) /\ DOMAIN categories = 1 .. Len(categories)
  BY DEF CatalogInv, SoundTables

LEMMA CreateProductKeeps ==
    ASSUME CatalogInv, NEW c \in Clients, CreateProduct(c)
    PROVE  CatalogInv'
  <1>1. PICK user \in Users, sku \in Skus, price \in AcceptedCents,
             category \in {None} \cup 1 .. Len(categories) :
           Begin(c, Ask("create_product", user, None, sku, category, TRUE, price, NoRow))
    BY Zenon DEF CreateProduct
  <1>2. PICK r : r = Ask("create_product", user, None, sku, category, TRUE, price, NoRow) /\ Begin(c, r)
    BY <1>1, Zenon
  <1>3. /\ r.op = "create_product" /\ r.user = user /\ r.id = None /\ r.key = sku
        /\ r.category = category /\ r.active = TRUE /\ r.price = price /\ r.seen = NoRow
    BY <1>2, Zenon DEF Ask
  <1>4. NoRow.key = None
    BY Zenon DEF NoRow, Row
  <1>5. OnProduct(r) /\ sku \in Keys \ {r.seen.key} /\ category # Keep
    BY <1>3, <1>4, MarksAreApart DEF OnProduct, Keys
  <1>6. category \in {None, Keep} \cup Nat /\ (category \in Nat => category \in DOMAIN categories)
    BY Places, MarksAreApart
  <1>7. r.active \in BOOLEAN \cup {Keep}
    BY <1>3, Zenon
  <1>8. QED
    BY <1>2, <1>3, <1>5, <1>6, <1>7, RequestBegins, Zenon

LEMMA CreateCategoryKeeps ==
    ASSUME CatalogInv, NEW c \in Clients, CreateCategory(c)
    PROVE  CatalogInv'
  <1>1. PICK user \in Users, name \in Names :
           Begin(c, Ask("create_category", user, None, name, None, TRUE, Keep, NoRow))
    BY Zenon DEF CreateCategory
  <1>2. PICK r : r = Ask("create_category", user, None, name, None, TRUE, Keep, NoRow) /\ Begin(c, r)
    BY <1>1, Zenon
  <1>3. /\ r.op = "create_category" /\ r.user = user /\ r.id = None /\ r.key = name
        /\ r.category = None /\ r.active = TRUE /\ r.seen = NoRow
    BY <1>2, Zenon DEF Ask
  <1>4. NoRow.key = None
    BY Zenon DEF NoRow, Row
  <1>5. ~OnProduct(r) /\ name \in Keys \ {r.seen.key} /\ None # Keep /\ None \notin Nat
    BY <1>3, <1>4, MarksAreApart DEF OnProduct, Keys
  <1>6. r.active \in BOOLEAN \cup {Keep}
    BY <1>3, Zenon
  <1>7. QED
    BY <1>2, <1>3, <1>5, <1>6, RequestBegins, Zenon

LEMMA UpdateProductKeeps ==
    ASSUME CatalogInv, NEW c \in Clients, UpdateProduct(c)
    PROVE  CatalogInv'
  <1>1. PICK user \in Users, p \in 1 .. Len(products), sku \in Skus \cup {Keep},
             category \in {None, Keep} \cup 1 .. Len(categories), active \in BOOLEAN \cup {Keep} :
           /\ products[p].owner = user
           /\ Begin(c, Ask("update_product", user, p, sku, category, active, Keep, products[p]))
    BY Zenon DEF UpdateProduct
  <1>2. PICK r : r = Ask("update_product", user, p, sku, category, active, Keep, products[p]) /\ Begin(c, r)
    BY <1>1, Zenon
  <1>3. /\ r.op = "update_product" /\ r.user = user /\ r.id = p /\ r.key = sku
        /\ r.category = category /\ r.active = active
    BY <1>2, Zenon DEF Ask
  <1>4. OnProduct(r)
    BY <1>3 DEF OnProduct
  <1>5. p # None /\ p \in DOMAIN Table(r) /\ Table(r)[p].owner = user
    BY <1>1, <1>4, Places, MarksAreApart DEF Table
  <1>6. sku \in Keys \cup {Keep} /\ category \in {None, Keep} \cup Nat
        /\ (category \in Nat => category \in DOMAIN categories)
    BY Places, MarksAreApart DEF Keys
  <1>7. r.active \in BOOLEAN \cup {Keep}
    BY <1>3, Zenon
  <1>8. QED
    BY <1>2, <1>3, <1>4, <1>5, <1>6, <1>7, RequestBegins, Zenon

LEMMA ArchiveProductKeeps ==
    ASSUME CatalogInv, NEW c \in Clients, ArchiveProduct(c)
    PROVE  CatalogInv'
  <1>1. PICK user \in Users, p \in 1 .. Len(products) :
           /\ products[p].owner = user
           /\ Begin(c, Ask("archive_product", user, p, Keep, Keep, FALSE, Keep, products[p]))
    BY Zenon DEF ArchiveProduct
  <1>2. PICK r : r = Ask("archive_product", user, p, Keep, Keep, FALSE, Keep, products[p]) /\ Begin(c, r)
    BY <1>1, Zenon
  <1>3. /\ r.op = "archive_product" /\ r.user = user /\ r.id = p /\ r.key = Keep
        /\ r.category = Keep /\ r.active = FALSE
    BY <1>2, Zenon DEF Ask
  <1>4. OnProduct(r)
    BY <1>3 DEF OnProduct
  <1>5. p # None /\ p \in DOMAIN Table(r) /\ Table(r)[p].owner = user
    BY <1>1, <1>4, Places, MarksAreApart DEF Table
  <1>6. Keep \in Keys \cup {Keep} /\ Keep \notin Nat
    BY Places, MarksAreApart DEF Keys
  <1>7. r.active \in BOOLEAN \cup {Keep}
    BY <1>3, Zenon
  <1>8. QED
    BY <1>2, <1>3, <1>4, <1>5, <1>6, <1>7, RequestBegins, Zenon

LEMMA UpdateCategoryKeeps ==
    ASSUME CatalogInv, NEW c \in Clients, UpdateCategory(c)
    PROVE  CatalogInv'
  <1>1. PICK user \in Users, k \in 1 .. Len(categories), name \in Names \cup {Keep},
             active \in BOOLEAN \cup {Keep} :
           /\ categories[k].owner = user
           /\ Begin(c, Ask("update_category", user, k, name, Keep, active, Keep, categories[k]))
    BY Zenon DEF UpdateCategory
  <1>2. PICK r : r = Ask("update_category", user, k, name, Keep, active, Keep, categories[k]) /\ Begin(c, r)
    BY <1>1, Zenon
  <1>3. /\ r.op = "update_category" /\ r.user = user /\ r.id = k /\ r.key = name
        /\ r.category = Keep /\ r.active = active
    BY <1>2, Zenon DEF Ask
  <1>4. ~OnProduct(r)
    BY <1>3 DEF OnProduct
  <1>5. k # None /\ k \in DOMAIN Table(r) /\ Table(r)[k].owner = user
    BY <1>1, <1>4, Places, MarksAreApart DEF Table
  <1>6. name \in Keys \cup {Keep} /\ Keep \notin Nat
    BY Places, MarksAreApart DEF Keys
  <1>7. r.active \in BOOLEAN \cup {Keep}
    BY <1>3, Zenon
  <1>8. QED
    BY <1>2, <1>3, <1>5, <1>6, <1>7, RequestBegins, Zenon

LEMMA ArchiveCategoryKeeps ==
    ASSUME CatalogInv, NEW c \in Clients, ArchiveCategory(c)
    PROVE  CatalogInv'
  <1>1. PICK user \in Users, k \in 1 .. Len(categories) :
           /\ categories[k].owner = user
           /\ Begin(c, Ask("archive_category", user, k, Keep, Keep, FALSE, Keep, categories[k]))
    BY Zenon DEF ArchiveCategory
  <1>2. PICK r : r = Ask("archive_category", user, k, Keep, Keep, FALSE, Keep, categories[k]) /\ Begin(c, r)
    BY <1>1, Zenon
  <1>3. /\ r.op = "archive_category" /\ r.user = user /\ r.id = k /\ r.key = Keep
        /\ r.category = Keep /\ r.active = FALSE
    BY <1>2, Zenon DEF Ask
  <1>4. ~OnProduct(r)
    BY <1>3 DEF OnProduct
  <1>5. k # None /\ k \in DOMAIN Table(r) /\ Table(r)[k].owner = user
    BY <1>1, <1>4, Places, MarksAreApart DEF Table
  <1>6. Keep \in Keys \cup {Keep} /\ Keep \notin Nat
    BY Places, MarksAreApart DEF Keys
  <1>7. r.active \in BOOLEAN \cup {Keep}
    BY <1>3, Zenon
  <1>8. QED
    BY <1>2, <1>3, <1>5, <1>6, <1>7, RequestBegins, Zenon

-----------------------------------------------------------------------------
(* Every action keeps the invariant: checks and writes *)

LEMMA SessionEnds ==
    ASSUME CatalogInv, NEW c \in Clients, Done(c), UNCHANGED rowVars
    PROVE  CatalogInv'
  <1>1. SoundTables(products', categories')
    BY DEF CatalogInv, rowVars
  <1>2. Grown(products, products') /\ Grown(categories, categories')
    BY SameTable DEF rowVars
  <1>3. QED
    BY <1>1, <1>2, RequestEnds

LEMMA CheckCategoryKeeps ==
    ASSUME CatalogInv, NEW c \in Clients, CheckCategory(c)
    PROVE  CatalogInv'
  <1>1. CASE UsableCategory(req[c])
    <2>1. GoOn(c) /\ UNCHANGED rowVars /\ pc[c] # <<>>
      BY <1>1 DEF CheckCategory, At
    <2>2. categories[req[c].category].owner = req[c].user
      BY <1>1 DEF UsableCategory
    <2>3. QED
      BY <2>1, <2>2, RequestGoesOn
  <1>2. CASE ~UsableCategory(req[c])
    <2>1. Done(c) /\ UNCHANGED rowVars
      BY <1>2 DEF CheckCategory
    <2>2. QED
      BY <2>1, SessionEnds
  <1>3. QED
    BY <1>1, <1>2

LEMMA CheckKeyKeeps ==
    ASSUME CatalogInv, NEW c \in Clients, CheckKey(c)
    PROVE  CatalogInv'
  <1>1. UNCHANGED rowVars /\ pc[c] # <<>> /\ Head(pc[c]) # "category"
    BY DEF CheckKey, At
  <1>2. Done(c) \/ GoOn(c)
    BY DEF CheckKey
  <1>3. QED
    BY <1>1, <1>2, SessionEnds, RequestGoesOn

LEMMA CheckNoActiveProductsKeeps ==
    ASSUME CatalogInv, NEW c \in Clients, CheckNoActiveProducts(c)
    PROVE  CatalogInv'
  <1>1. UNCHANGED rowVars /\ pc[c] # <<>> /\ Head(pc[c]) # "category"
    BY DEF CheckNoActiveProducts, At
  <1>2. Done(c) \/ GoOn(c)
    BY DEF CheckNoActiveProducts
  <1>3. QED
    BY <1>1, <1>2, SessionEnds, RequestGoesOn

\* What a category is to its products does not change as the table grows
LEMMA OwnCategoryStays ==
    ASSUME NEW row, NEW kinds, NEW later, InOwnCategory(row, kinds), Grown(kinds, later)
    PROVE  InOwnCategory(row, later)
  BY Zenon DEF InOwnCategory, Grown

\* The unique constraint: the key of the row to come is nobody else's
LEMMA KeyIsFree ==
    ASSUME NEW r, ConstraintHolds(r), r.key \notin {Keep, r.seen.key}
    PROVE  Free(TableOf(products, categories, r), r.user, r.key, r.id)
  BY Zenon DEF ConstraintHolds, Taken, Free, Table, TableOf

\* The category that is written was looked up before
LEMMA WrittenCategory ==
    ASSUME NEW P, NEW C, NEW steps, NEW r, SoundRequest(P, C, steps, r),
           Head(steps) = "write", NEW row, row.owner = r.user,
           row.category = r.category, r.category \in Nat
    PROVE  InOwnCategory(row, C)
  BY Zenon DEF SoundRequest, InOwnCategory

LEMMA InsertRowKeeps ==
    ASSUME CatalogInv, NEW c \in Clients, InsertRow(c)
    PROVE  CatalogInv'
  <1>1. PICK r, row :
           /\ r = req[c]
           /\ row = Row(r.user, r.key, r.category, r.active, IF OnProduct(r) THEN r.price ELSE 0)
           /\ ConstraintHolds(r)
           /\ products' = IF OnProduct(r) THEN Append(products, row) ELSE products
           /\ categories' = IF OnProduct(r) THEN categories ELSE Append(categories, row)
    BY Zenon DEF InsertRow
  <1>2. r.id = None /\ pc[c] # <<>> /\ Head(pc[c]) = "write" /\ Done(c)
    BY <1>1 DEF InsertRow, At
  <1>3. SoundRequest(products, categories, pc[c], r) /\ SoundTables(products, categories)
    BY <1>1, <1>2 DEF CatalogInv
  <1>4. /\ r.user \in Users /\ r.key \in Keys \ {r.seen.key} /\ r.category \in {None} \cup Nat
        /\ (IF OnProduct(r) THEN r.price ELSE 0) \in {0} \cup AcceptedCents
    BY <1>2, <1>3 DEF SoundRequest
  <1>5. r.active \in BOOLEAN
    BY <1>2, <1>3, Zenon DEF SoundRequest
  <1>6. row \in TableRows
    BY <1>1, <1>4, <1>5, RowType
  <1>7. row.owner = r.user /\ row.key = r.key /\ row.category = r.category
    BY <1>1, Zenon DEF Row
  <1>8. Free(TableOf(products, categories, r), r.user, r.key, None)
    BY <1>1, <1>2, <1>4, KeyIsFree, MarksAreApart
  <1>9. CASE OnProduct(r)
    <2>1. products' = Append(products, row) /\ categories' = categories
      BY <1>1, <1>9
    <2>2. InOwnCategory(row, categories)
      <3>1. CASE r.category = None
        BY <1>7, <3>1 DEF InOwnCategory
      <3>2. CASE r.category \in Nat
        BY <1>2, <1>3, <1>7, <3>2, WrittenCategory
      <3>3. QED
        BY <1>4, <3>1, <3>2
    <2>3. /\ products' \in Seq(TableRows) /\ Grown(products, products') /\ UniqueKeys(products')
          /\ OnlyWrites(products, products', row)
      BY <1>3, <1>6, <1>7, <1>8, <1>9, <2>1, Inserted DEF SoundTables, TableOf
    <2>4. SoundTables(products', categories')
      BY <1>3, <2>1, <2>2, <2>3 DEF SoundTables, OnlyWrites
    <2>5. QED
      BY <1>2, <2>1, <2>3, <2>4, SameTable, RequestEnds
  <1>10. CASE ~OnProduct(r)
    <2>1. products' = products /\ categories' = Append(categories, row)
      BY <1>1, <1>10
    <2>2. /\ categories' \in Seq(TableRows) /\ Grown(categories, categories')
          /\ UniqueKeys(categories')
      BY <1>3, <1>6, <1>7, <1>8, <1>10, <2>1, Inserted DEF SoundTables, TableOf
    <2>3. SoundTables(products', categories')
      BY <1>3, <2>1, <2>2, OwnCategoryStays DEF SoundTables
    <2>4. QED
      BY <1>2, <2>1, <2>2, <2>3, SameTable, RequestEnds
  <1>11. QED
    BY <1>9, <1>10

\* What an UPDATE finds, and what it writes
WritesRow(c, r, table, old, row) ==
    /\ r = req[c] /\ table = TableOf(products, categories, r) /\ old = table[r.id]
    /\ r.id # None /\ Head(pc[c]) = "write" /\ pc[c] # <<>> /\ Done(c)
    /\ ConstraintHolds(r)
    /\ products' = IF OnProduct(r) THEN [products EXCEPT ![r.id] = row] ELSE products
    /\ categories' = IF OnProduct(r) THEN categories ELSE [categories EXCEPT ![r.id] = row]
    /\ SoundRequest(products, categories, pc[c], r) /\ AskedFields(r)
    /\ table \in Seq(TableRows) /\ UniqueKeys(table) /\ r.id \in DOMAIN table
    /\ old \in TableRows /\ old.owner = r.user
    /\ row \in TableRows /\ row.owner = old.owner /\ row.price = old.price
    /\ row.key = IF r.key \in {Keep, r.seen.key} THEN old.key ELSE r.key
    /\ row.category \in {old.category, r.category} \ {Keep}
    /\ row.active \in {old.active, r.active}

LEMMA UpdatedRow ==
    ASSUME CatalogInv, NEW c \in Clients, UpdateRow(c)
    PROVE  \E r, table, old, row : WritesRow(c, r, table, old, row)
  <1>1. PICK r, table, old, row :
           /\ r = req[c] /\ table = TableOf(products, categories, r)
           /\ old = table[r.id] /\ row = Updated(old, r)
    BY Zenon
  <1>2. /\ r.id # None /\ Head(pc[c]) = "write" /\ pc[c] # <<>> /\ Done(c)
        /\ ConstraintHolds(r)
        /\ products' = IF OnProduct(r) THEN [products EXCEPT ![r.id] = row] ELSE products
        /\ categories' = IF OnProduct(r) THEN categories ELSE [categories EXCEPT ![r.id] = row]
    BY <1>1 DEF UpdateRow, At, TableOf
  <1>3. SoundRequest(products, categories, pc[c], r)
    BY <1>1, <1>2 DEF CatalogInv
  <1>4. /\ table \in Seq(TableRows) /\ UniqueKeys(table)
        /\ r.id \in DOMAIN table /\ old \in TableRows /\ old.owner = r.user
    BY <1>1, <1>2, <1>3 DEF CatalogInv, SoundTables, SoundRequest, TableOf
  <1>5. AskedFields(r)
    BY <1>3, Zenon DEF SoundRequest, AskedFields
  <1>6. /\ row \in TableRows /\ row.owner = old.owner
        /\ row.key = IF r.key \in {Keep, r.seen.key} THEN old.key ELSE r.key
        /\ row.category \in {old.category, r.category} \ {Keep}
        /\ row.active \in {old.active, r.active}
    BY <1>1, <1>4, <1>5, UpdatedFields
  <1>7. row.price = old.price
    BY <1>1, Zenon DEF Updated, Row
  <1>8. QED
    BY <1>1, <1>2, <1>3, <1>4, <1>5, <1>6, <1>7, Zenon DEF WritesRow

LEMMA UpdateRowKeeps ==
    ASSUME CatalogInv, NEW c \in Clients, UpdateRow(c)
    PROVE  CatalogInv'
  <1>1. PICK r, table, old, row :
           /\ WritesRow(c, r, table, old, row)
           /\ r = req[c] /\ table = TableOf(products, categories, r) /\ old = table[r.id]
    BY UpdatedRow DEF WritesRow
  <1>2. /\ r.id # None /\ Head(pc[c]) = "write" /\ Done(c) /\ ConstraintHolds(r)
        /\ products' = IF OnProduct(r) THEN [products EXCEPT ![r.id] = row] ELSE products
        /\ categories' = IF OnProduct(r) THEN categories ELSE [categories EXCEPT ![r.id] = row]
    BY <1>1, Zenon DEF WritesRow
  <1>3. SoundRequest(products, categories, pc[c], r) /\ SoundTables(products, categories)
    BY <1>1, Zenon DEF WritesRow, CatalogInv
  <1>4. /\ table \in Seq(TableRows) /\ UniqueKeys(table)
        /\ r.id \in DOMAIN table /\ old \in TableRows /\ old.owner = r.user
    BY <1>1, Zenon DEF WritesRow
  <1>5. r.category \in {None, Keep} \cup Nat
    BY <1>3, Zenon DEF SoundRequest
  <1>6. /\ row \in TableRows /\ row.owner = old.owner
        /\ row.key = IF r.key \in {Keep, r.seen.key} THEN old.key ELSE r.key
        /\ row.category \in {old.category, r.category} \ {Keep}
    BY <1>1, Zenon DEF WritesRow
  <1>7. row.key = old.key \/ Free(table, row.owner, row.key, r.id)
    BY <1>1, <1>2, <1>4, <1>6, KeyIsFree
  <1>8. CASE OnProduct(r)
    <2>1. table = products /\ products' = [products EXCEPT ![r.id] = row] /\ categories' = categories
      BY <1>1, <1>2, <1>8 DEF TableOf
    <2>2. InOwnCategory(row, categories)
      <3>1. CASE row.category = old.category
        <4>1. InOwnCategory(old, categories)
          BY <1>1, <1>3, <1>4, <2>1 DEF SoundTables
        <4>2. QED
          BY <1>6, <3>1, <4>1 DEF InOwnCategory
      <3>2. CASE row.category = r.category /\ r.category \in Nat
        BY <1>2, <1>3, <1>4, <1>6, <3>2, WrittenCategory
      <3>3. CASE row.category = None
        BY <3>3 DEF InOwnCategory
      <3>4. QED
        BY <1>5, <1>6, <3>1, <3>2, <3>3
    <2>3. /\ products' = [table EXCEPT ![r.id] = row]
          /\ row.owner = table[r.id].owner
          /\ row.key = table[r.id].key \/ Free(table, row.owner, row.key, r.id)
      BY <1>1, <1>6, <1>7, <2>1
    <2>4. /\ products' \in Seq(TableRows) /\ Grown(table, products') /\ UniqueKeys(products')
          /\ OnlyWrites(table, products', row)
      BY <1>4, <1>6, <2>3, Changed, Zenon
    <2>5. SoundTables(products', categories')
      BY <1>3, <2>1, <2>2, <2>4 DEF SoundTables, OnlyWrites
    <2>6. QED
      BY <1>2, <2>1, <2>4, <2>5, SameTable, RequestEnds
  <1>9. CASE ~OnProduct(r)
    <2>1. table = categories /\ products' = products
          /\ categories' = [categories EXCEPT ![r.id] = row]
      BY <1>1, <1>2, <1>9 DEF TableOf
    <2>2. /\ categories' = [table EXCEPT ![r.id] = row]
          /\ row.owner = table[r.id].owner
          /\ row.key = table[r.id].key \/ Free(table, row.owner, row.key, r.id)
      BY <1>1, <1>6, <1>7, <2>1
    <2>3. categories' \in Seq(TableRows) /\ Grown(table, categories') /\ UniqueKeys(categories')
      BY <1>4, <1>6, <2>2, Changed, Zenon
    <2>4. SoundTables(products', categories')
      BY <1>3, <2>1, <2>3, OwnCategoryStays DEF SoundTables
    <2>5. QED
      BY <1>2, <2>1, <2>3, <2>4, SameTable, RequestEnds
  <1>10. QED
    BY <1>8, <1>9

-----------------------------------------------------------------------------
(* The theorems *)

LEMMA CatalogStep == CatalogInv /\ [Next]_vars => CatalogInv'
  <1> SUFFICES ASSUME CatalogInv, [Next]_vars PROVE CatalogInv'
    OBVIOUS
  <1>1. ASSUME NEW c \in Clients, Begins(c) PROVE CatalogInv'
    BY <1>1, CreateProductKeeps, UpdateProductKeeps, ArchiveProductKeeps,
       CreateCategoryKeeps, UpdateCategoryKeeps, ArchiveCategoryKeeps DEF Begins
  <1>2. ASSUME NEW c \in Clients, Proceeds(c) PROVE CatalogInv'
    <2>1. RefusedByConstraint(c) => CatalogInv'
      BY SessionEnds DEF RefusedByConstraint
    <2>2. QED
      BY <1>2, <2>1, CheckCategoryKeeps, CheckKeyKeeps, CheckNoActiveProductsKeeps,
         InsertRowKeeps, UpdateRowKeeps DEF Proceeds
  <1>3. ASSUME NEW c \in Clients, RequestAborted(c) PROVE CatalogInv'
    BY <1>3, SessionEnds DEF RequestAborted
  <1>4. CASE UNCHANGED vars
    BY <1>4 DEF CatalogInv, vars, rowVars
  <1>5. QED
    BY <1>1, <1>2, <1>3, <1>4 DEF Next

\* Whatever is brought back in an UPDATE was asked for in the PATCH
LEMMA UpdateReturns ==
    ASSUME CatalogInv, NEW c \in Clients, UpdateRow(c)
    PROVE  ReturnsAreAskedFor
  <1>1. PICK r, table, old, row :
           /\ WritesRow(c, r, table, old, row)
           /\ r = req[c] /\ table = TableOf(products, categories, r) /\ old = table[r.id]
    BY UpdatedRow DEF WritesRow
  <1>2. /\ Head(pc[c]) = "write" /\ pc[c] # <<>> /\ Done(c) /\ AskedFields(r)
        /\ products' = IF OnProduct(r) THEN [products EXCEPT ![r.id] = row] ELSE products
        /\ categories' = IF OnProduct(r) THEN categories ELSE [categories EXCEPT ![r.id] = row]
    BY <1>1, Zenon DEF WritesRow
  <1>3. r.id \in DOMAIN table /\ old \in TableRows /\ row \in TableRows
    BY <1>1, Zenon DEF WritesRow
  <1>4. row.active \in {old.active, r.active}
    BY <1>1, Zenon DEF WritesRow
  <1>5. old.active \in BOOLEAN /\ row.active \in BOOLEAN
    BY <1>3, Zenon DEF TableRows
  <1>6. ~old.active /\ row.active => r.active = TRUE
    BY <1>4, <1>5, Zenon
  <1>7. At(c, "write") /\ pc'[c] = <<>>
    BY <1>2 DEF CatalogInv, Done, At
  <1>8. CASE OnProduct(r)
    <2>1. table = products /\ products' = [table EXCEPT ![r.id] = row] /\ categories' = categories
      BY <1>1, <1>2, <1>8 DEF TableOf
    <2>2. ASSUME NEW p \in DOMAIN products, BroughtBack(products, products', p)
          PROVE  AskedBack(TRUE, p)
      <3>1. p = r.id
        BY <2>1, <2>2 DEF BroughtBack
      <3>2. ~old.active /\ row.active
        BY <1>1, <1>3, <2>1, <2>2, <3>1 DEF BroughtBack
      <3>3. OnProduct(req[c]) = TRUE /\ req[c].id = p /\ req[c].active = TRUE
        BY <1>1, <1>6, <1>8, <3>1, <3>2, Zenon DEF OnProduct
      <3>4. QED
        BY <1>7, <3>3, Zenon DEF AskedBack
    <2>3. \A k \in DOMAIN categories : ~BroughtBack(categories, categories', k)
      BY <2>1, Zenon DEF BroughtBack
    <2>4. QED
      BY <2>2, <2>3, Zenon DEF ReturnsAreAskedFor
  <1>9. CASE ~OnProduct(r)
    <2>1. table = categories /\ categories' = [table EXCEPT ![r.id] = row] /\ products' = products
      BY <1>1, <1>2, <1>9 DEF TableOf
    <2>2. ASSUME NEW k \in DOMAIN categories, BroughtBack(categories, categories', k)
          PROVE  AskedBack(FALSE, k)
      <3>1. k = r.id
        BY <2>1, <2>2 DEF BroughtBack
      <3>2. ~old.active /\ row.active
        BY <1>1, <1>3, <2>1, <2>2, <3>1 DEF BroughtBack
      <3>3. req[c].id = k /\ req[c].active = TRUE
        BY <1>1, <1>6, <3>1, <3>2, Zenon
      <3>4. OnProduct(req[c]) = FALSE
        BY <1>1, <1>9, SMT DEF OnProduct
      <3>5. QED
        BY <1>7, <3>3, <3>4, Zenon DEF AskedBack
    <2>3. \A p \in DOMAIN products : ~BroughtBack(products, products', p)
      BY <2>1, Zenon DEF BroughtBack
    <2>4. QED
      BY <2>2, <2>3, Zenon DEF ReturnsAreAskedFor
  <1>10. QED
    BY <1>8, <1>9

\* An INSERT leaves the rows there are alone
LEMMA InsertReturns ==
    ASSUME CatalogInv, NEW c \in Clients, InsertRow(c)
    PROVE  ReturnsAreAskedFor
  <1>1. PICK row :
           /\ products' = products \/ products' = Append(products, row)
           /\ categories' = categories \/ categories' = Append(categories, row)
    BY Zenon DEF InsertRow
  <1>2. \A p \in DOMAIN products : products'[p] = products[p]
    BY <1>1 DEF CatalogInv, SoundTables
  <1>3. \A k \in DOMAIN categories : categories'[k] = categories[k]
    BY <1>1 DEF CatalogInv, SoundTables
  <1>4. QED
    BY <1>2, <1>3, Zenon DEF ReturnsAreAskedFor, BroughtBack

LEMMA QuietReturns ==
    ASSUME UNCHANGED rowVars
    PROVE  ReturnsAreAskedFor
  <1>1. products' = products /\ categories' = categories
    BY DEF rowVars
  <1>2. QED
    BY <1>1, Zenon DEF ReturnsAreAskedFor, BroughtBack

LEMMA StepReturns == CatalogInv /\ [Next]_vars => ReturnsAreAskedFor
  <1> SUFFICES ASSUME CatalogInv, [Next]_vars PROVE ReturnsAreAskedFor
    OBVIOUS
  <1>1. ASSUME NEW c \in Clients, Begins(c) PROVE UNCHANGED rowVars
    BY <1>1 DEF Begins, CreateProduct, UpdateProduct, ArchiveProduct, CreateCategory,
       UpdateCategory, ArchiveCategory, Begin
  <1>2. ASSUME NEW c \in Clients, Proceeds(c) PROVE ReturnsAreAskedFor
    <2>1. CheckCategory(c) \/ CheckKey(c) \/ CheckNoActiveProducts(c) \/ RefusedByConstraint(c)
              => UNCHANGED rowVars
      BY DEF CheckCategory, CheckKey, CheckNoActiveProducts, RefusedByConstraint
    <2>2. QED
      BY <1>2, <2>1, QuietReturns, InsertReturns, UpdateReturns DEF Proceeds
  <1>3. ASSUME NEW c \in Clients, RequestAborted(c) PROVE UNCHANGED rowVars
    BY <1>3 DEF RequestAborted
  <1>4. CASE UNCHANGED vars
    BY <1>4, QuietReturns DEF vars
  <1>5. QED
    BY <1>1, <1>2, <1>3, <1>4, QuietReturns DEF Next

LEMMA CatalogStaysSound == Spec => []CatalogInv
  BY CatalogInit, CatalogStep, PTL DEF Spec

\* The checks before a write may be stale; the unique constraints are not: no
\* user has two products with one SKU or two categories with one name.
THEOREM KeysStayUnique == Spec => []KeysUnique
  <1>1. CatalogInv => KeysUnique
    BY DEF CatalogInv, SoundTables, UniqueKeys, KeysUnique
  <1>2. QED
    BY <1>1, CatalogStaysSound, PTL

\* Whatever other requests did between the look at a category and the write of
\* the product, the category is its user's.
THEOREM CatalogsStayApart == Spec => []CategoryOfOwner
  <1>1. CatalogInv => CategoryOfOwner
    BY DEF CatalogInv, SoundTables, InOwnCategory, CategoryOfOwner
  <1>2. QED
    BY <1>1, CatalogStaysSound, PTL

\* An update writes only the columns that its request changed, so a concurrent
\* archiving is not undone: what comes back on sale was asked to.
THEOREM ArchivingHolds == Spec => ArchivedStaysArchived
  <1>1. CatalogInv /\ [Next]_vars => [ReturnsAreAskedFor]_vars
    BY StepReturns
  <1>2. QED
    BY <1>1, CatalogStaysSound, PTL DEF Spec, ArchivedStaysArchived

-----------------------------------------------------------------------------
(* Requests one after the other: archived categories are empty             *)

EmptyWhenArchived(P, C) ==
    \A k \in DOMAIN C, p \in DOMAIN P : P[p].category = k /\ P[p].active => C[k].active

NoneOnSale(P, k) == \A p \in DOMAIN P : ~(P[p].category = k /\ P[p].active)

StepNames == {"category", "key", "count", "write"}

\* The steps left have the count and then the write.
CountsBeforeWrite(steps) ==
    /\ steps \in Seq(StepNames)
    /\ Len(steps) \in Nat \ {0, 1}
    /\ steps[Len(steps) - 1] = "count"
    /\ \A i \in 1 .. Len(steps) - 1 : steps[i] # "write"

\* Nothing that the request has read has changed: the row it loaded, the category
\* it looked at, the products it counted.
Current(P, C, steps, r) ==
    /\ r.id # None => r.seen = TableOf(P, C, r)[r.id]
    /\ r.category \in Nat /\ Head(steps) # "category" => C[r.category].active
    /\ ~OnProduct(r) /\ r.active = FALSE =>
           CountsBeforeWrite(steps) \/ NoneOnSale(P, r.id)

\* As long as requests follow each other, at most one is under way and all that
\* it has read is current.
OrderlyInv ==
    orderly =>
        /\ \A c, d \in Clients : pc[c] # <<>> /\ pc[d] # <<>> => c = d
        /\ \A c \in Clients :
               pc[c] # <<>> => Current(products, categories, pc[c], req[c])
        /\ EmptyWhenArchived(products, categories)

\* The last request under way ends
LEMMA LastEnds ==
    ASSUME CatalogInv, OrderlyInv, NEW c \in Clients, pc[c] # <<>>, Done(c),
           orderly' => orderly /\ EmptyWhenArchived(products', categories')
    PROVE  OrderlyInv'
  <1>1. pc'[c] = <<>> /\ \A d \in Clients \ {c} : pc'[d] = pc[d]
    BY DEF Done, CatalogInv
  <1>2. ASSUME orderly', NEW d \in Clients PROVE pc'[d] = <<>>
    BY <1>1, <1>2 DEF OrderlyInv
  <1>3. QED
    BY <1>2 DEF OrderlyInv

LEMMA OnlyGoesOn ==
    ASSUME CatalogInv, OrderlyInv, NEW c \in Clients, pc[c] # <<>>, GoOn(c),
           UNCHANGED <<rowVars, orderly>>,
           orderly => Current(products, categories, Tail(pc[c]), req[c])
    PROVE  OrderlyInv'
  <1>1. pc'[c] = Tail(pc[c]) /\ (\A d \in Clients \ {c} : pc'[d] = pc[d]) /\ req' = req
    BY DEF GoOn, CatalogInv
  <1>2. products' = products /\ categories' = categories /\ orderly' = orderly
    BY DEF rowVars
  <1>3. SUFFICES ASSUME orderly PROVE OrderlyInv'
    BY <1>2 DEF OrderlyInv
  <1>4. \A d \in Clients \ {c} : pc'[d] = <<>>
    BY <1>1, <1>3 DEF OrderlyInv
  <1>5. EmptyWhenArchived(products', categories')
    BY <1>2, <1>3 DEF OrderlyInv
  <1>6. Current(products', categories', pc'[c], req'[c])
    BY <1>1, <1>2, <1>3
  <1>7. QED
    BY <1>4, <1>5, <1>6 DEF OrderlyInv

LEMMA OnlyBegins ==
    ASSUME CatalogInv, OrderlyInv, NEW c \in Clients, NEW r, Begin(c, r),
           Current(products, categories, Steps(r), r)
    PROVE  OrderlyInv'
  <1>1. /\ pc'[c] = Steps(r) /\ req'[c] = r
        /\ \A d \in Clients \ {c} : pc'[d] = pc[d]
    BY DEF Begin, CatalogInv
  <1>2. products' = products /\ categories' = categories
    BY DEF Begin, rowVars
  <1>3. SUFFICES ASSUME orderly' PROVE OrderlyInv'
    BY DEF OrderlyInv
  <1>4. orderly /\ \A d \in Clients : pc[d] = <<>>
    BY <1>3 DEF Begin
  <1>5. \A d \in Clients \ {c} : pc'[d] = <<>>
    BY <1>1, <1>4
  <1>6. EmptyWhenArchived(products', categories')
    BY <1>2, <1>4 DEF OrderlyInv
  <1>7. Current(products', categories', pc'[c], req'[c])
    BY <1>1, <1>2
  <1>8. QED
    BY <1>5, <1>6, <1>7 DEF OrderlyInv

\* The steps of a request that archives a category
LEMMA OneStep ==
    ASSUME NEW S, NEW step \in S
    PROVE  <<step>> \in Seq(S) /\ Len(<<step>>) = 1 /\ <<step>>[1] = step
  <1>1. <<step>> \in Seq(S)
    OBVIOUS
  <1>2. Len(<<step>>) = 1
    OBVIOUS
  <1>3. <<step>>[1] = step
    OBVIOUS
  <1>4. QED
    BY <1>1, <1>2, <1>3, Zenon

LEMMA OneMoreStep ==
    ASSUME NEW S, NEW steps \in Seq(S), NEW step \in S,
           NEW more, more = steps \o <<step>>
    PROVE  /\ more \in Seq(S) /\ Len(more) = Len(steps) + 1 /\ Len(steps) \in Nat
           /\ more[Len(more)] = step
           /\ \A i \in 1 .. Len(steps) : more[i] = steps[i]
  <1>1. <<step>> \in Seq(S)
    BY OneStep
  <1>2. Len(<<step>>) = 1
    BY OneStep
  <1>3. <<step>>[1] = step
    BY OneStep
  <1>4. /\ more \in Seq(S) /\ Len(more) = Len(steps) + Len(<<step>>)
        /\ \A i \in 1 .. Len(steps) + Len(<<step>>) :
               more[i] = IF i <= Len(steps) THEN steps[i] ELSE <<step>>[i - Len(steps)]
    BY <1>1, ConcatProperties, Zenon
  <1>5. Len(steps) \in Nat
    OBVIOUS
  <1>6. /\ Len(more) = Len(steps) + 1
        /\ \A i \in 1 .. Len(steps) + 1 :
               more[i] = IF i <= Len(steps) THEN steps[i] ELSE <<step>>[i - Len(steps)]
    BY <1>2, <1>4
  <1>7. Len(more) - Len(steps) = 1 /\ ~(Len(more) <= Len(steps))
    BY <1>5, <1>6
  <1>8. more[Len(more)] = <<step>>[1]
    BY <1>5, <1>6, <1>7
  <1>9. \A i \in 1 .. Len(steps) : more[i] = steps[i]
    BY <1>5, <1>6
  <1>10. QED
    BY <1>3, <1>4, <1>5, <1>6, <1>8, <1>9

LEMMA ArchivingSteps ==
    ASSUME NEW r, ~OnProduct(r), r.active = FALSE, r.category \notin Nat
    PROVE  CountsBeforeWrite(Steps(r))
  <1>1. PICK key, counted :
           /\ key = IF r.key \notin {Keep, r.seen.key} THEN <<"key">> ELSE <<>>
           /\ counted = <<>> \o key \o <<"count">>
    OBVIOUS
  <1>2. Steps(r) = counted \o <<"write">>
    BY <1>1 DEF Steps
  <1>3. key \in Seq(StepNames) /\ Len(key) \in {0, 1} /\ \A i \in 1 .. Len(key) : key[i] = "key"
    <2>1. CASE key = <<>>
      BY <2>1
    <2>2. CASE key = <<"key">>
      <3>1. "key" \in StepNames
        BY DEF StepNames
      <3>2. <<"key">> \in Seq(StepNames) /\ Len(<<"key">>) = 1 /\ <<"key">>[1] = "key"
        BY <3>1, OneStep, Zenon
      <3>3. key \in Seq(StepNames) /\ Len(key) = 1 /\ key[1] = "key"
        BY <2>2, <3>2, Zenon
      <3>4. QED
        BY <3>3
    <2>3. QED
      BY <1>1, <2>1, <2>2, Zenon
  <1>4. counted = key \o <<"count">>
    <2>1. <<>> \o key = key
      BY <1>3, ConcatEmptySeq, Zenon
    <2>2. QED
      BY <1>1, <2>1, Zenon
  <1>5. /\ counted \in Seq(StepNames) /\ Len(counted) = Len(key) + 1
        /\ counted[Len(counted)] = "count" /\ \A i \in 1 .. Len(key) : counted[i] = key[i]
    <2>1. "count" \in StepNames
      BY DEF StepNames
    <2>2. /\ counted \in Seq(StepNames) /\ Len(counted) = Len(key) + 1 /\ Len(key) \in Nat
          /\ counted[Len(counted)] = "count"
          /\ \A i \in 1 .. Len(key) : counted[i] = key[i]
      BY <1>3, <1>4, <2>1, OneMoreStep, SMT
    <2>3. QED
      BY <2>2
  <1>6. PICK steps : steps = Steps(r)
    OBVIOUS
  <1>7. /\ steps \in Seq(StepNames) /\ Len(steps) = Len(counted) + 1
        /\ \A i \in 1 .. Len(counted) : steps[i] = counted[i]
    <2>1. "write" \in StepNames
      BY DEF StepNames
    <2>2. steps = counted \o <<"write">>
      BY <1>2, <1>6
    <2>3. /\ steps \in Seq(StepNames) /\ Len(steps) = Len(counted) + 1 /\ Len(counted) \in Nat
          /\ steps[Len(steps)] = "write"
          /\ \A i \in 1 .. Len(counted) : steps[i] = counted[i]
      BY <1>5, <2>1, <2>2, OneMoreStep, SMT
    <2>4. QED
      BY <2>3
  <1>8. CountsBeforeWrite(steps)
    BY <1>3, <1>5, <1>7 DEF CountsBeforeWrite
  <1>9. QED
    BY <1>6, <1>8

\* No step but the count ends the wait for it
LEMMA CountIsAhead ==
    ASSUME NEW steps, CountsBeforeWrite(steps)
    PROVE  Head(steps) # "write" /\ (Head(steps) = "count" \/ CountsBeforeWrite(Tail(steps)))
  <1>1. /\ steps \in Seq(StepNames) /\ Len(steps) \in Nat \ {0, 1}
        /\ steps[Len(steps) - 1] = "count"
        /\ \A i \in 1 .. Len(steps) - 1 : steps[i] # "write"
    BY Zenon DEF CountsBeforeWrite
  <1>2. Head(steps) = steps[1]
    BY <1>1
  <1>3. PICK rest : rest = Tail(steps)
    OBVIOUS
  <1>4. /\ rest \in Seq(StepNames) /\ Len(rest) = Len(steps) - 1
        /\ \A i \in 1 .. Len(steps) - 1 : rest[i] = steps[i + 1]
    BY <1>1, <1>3
  <1>5. CASE Len(steps) = 2
    BY <1>1, <1>2, <1>5
  <1>6. CASE Len(steps) > 2
    <2>1. rest[Len(rest) - 1] = "count"
      BY <1>1, <1>4, <1>6
    <2>2. \A i \in 1 .. Len(rest) - 1 : rest[i] # "write"
      BY <1>1, <1>4, <1>6
    <2>3. Len(rest) \in Nat \ {0, 1}
      BY <1>1, <1>4, <1>6
    <2>4. CountsBeforeWrite(Tail(steps))
      BY <1>3, <1>4, <2>1, <2>2, <2>3, Zenon DEF CountsBeforeWrite
    <2>5. steps[1] # "write"
      BY <1>1, <1>6
    <2>6. QED
      BY <1>2, <2>4, <2>5
  <1>7. Len(steps) = 2 \/ Len(steps) > 2
    <2>1. \A n \in Nat \ {0, 1} : n = 2 \/ n > 2
      OBVIOUS
    <2>2. QED
      BY <1>1, <2>1
  <1>8. QED
    BY <1>5, <1>6, <1>7, Zenon

\* A request that starts with the row as it is, is current
LEMMA StartsCurrent ==
    ASSUME NEW r, r.id # None => r.seen = Table(r)[r.id],
           ~OnProduct(r) => r.category \notin Nat
    PROVE  Current(products, categories, Steps(r), r)
  <1>1. Table(r) = TableOf(products, categories, r)
    BY DEF Table, TableOf
  <1>2. r.category \in Nat => Head(Steps(r)) = "category"
    BY FirstStep
  <1>3. ~OnProduct(r) /\ r.active = FALSE =>
            CountsBeforeWrite(Steps(r))
    BY ArchivingSteps
  <1>4. QED
    BY <1>1, <1>2, <1>3, Zenon DEF Current

\* Every request starts with the row as it is
LEMMA BeginsInOrder ==
    ASSUME CatalogInv, OrderlyInv, NEW c \in Clients, Begins(c)
    PROVE  OrderlyInv'
  <1> SUFFICES \E r :
          /\ Begin(c, r)
          /\ r.id # None => r.seen = Table(r)[r.id]
          /\ ~OnProduct(r) => r.category \notin Nat
    BY StartsCurrent, OnlyBegins
  <1>1. CASE CreateProduct(c)
    <2>1. PICK user \in Users, sku \in Skus, price \in AcceptedCents,
                 category \in {None} \cup 1 .. Len(categories) :
             Begin(c, Ask("create_product", user, None, sku, category, TRUE, price, NoRow))
      BY <1>1, Zenon DEF CreateProduct
    <2>2. PICK r : r = Ask("create_product", user, None, sku, category, TRUE, price, NoRow) /\ Begin(c, r)
      BY <2>1, Zenon
    <2>3. r.op = "create_product" /\ r.id = None /\ r.category = category
      BY <2>2, Zenon DEF Ask
    <2>4. OnProduct(r)
      BY <2>3 DEF OnProduct
    <2>5. QED
      BY <2>2, <2>3, <2>4 DEF Table
  <1>2. CASE UpdateProduct(c)
    <2>1. PICK user \in Users, p \in 1 .. Len(products), sku \in Skus \cup {Keep},
                 category \in {None, Keep} \cup 1 .. Len(categories), active \in BOOLEAN \cup {Keep} :
             Begin(c, Ask("update_product", user, p, sku, category, active, Keep, products[p]))
      BY <1>2, Zenon DEF UpdateProduct
    <2>2. PICK r : r = Ask("update_product", user, p, sku, category, active, Keep, products[p]) /\ Begin(c, r)
      BY <2>1, Zenon
    <2>3. r.op = "update_product" /\ r.id = p /\ r.category = category /\ r.seen = products[p]
      BY <2>2, Zenon DEF Ask
    <2>4. OnProduct(r)
      BY <2>3 DEF OnProduct
    <2>5. QED
      BY <2>2, <2>3, <2>4 DEF Table
  <1>3. CASE ArchiveProduct(c)
    <2>1. PICK user \in Users, p \in 1 .. Len(products) :
             Begin(c, Ask("archive_product", user, p, Keep, Keep, FALSE, Keep, products[p]))
      BY <1>3, Zenon DEF ArchiveProduct
    <2>2. PICK r : r = Ask("archive_product", user, p, Keep, Keep, FALSE, Keep, products[p]) /\ Begin(c, r)
      BY <2>1, Zenon
    <2>3. r.op = "archive_product" /\ r.id = p /\ r.category = Keep /\ r.seen = products[p]
      BY <2>2, Zenon DEF Ask
    <2>4. OnProduct(r)
      BY <2>3 DEF OnProduct
    <2>5. QED
      BY <2>2, <2>3, <2>4 DEF Table
  <1>4. CASE CreateCategory(c)
    <2>1. PICK user \in Users, name \in Names :
             Begin(c, Ask("create_category", user, None, name, None, TRUE, Keep, NoRow))
      BY <1>4, Zenon DEF CreateCategory
    <2>2. PICK r : r = Ask("create_category", user, None, name, None, TRUE, Keep, NoRow) /\ Begin(c, r)
      BY <2>1, Zenon
    <2>3. r.op = "create_category" /\ r.id = None /\ r.category = None
      BY <2>2, Zenon DEF Ask
    <2>4. ~OnProduct(r) /\ None \notin Nat /\ Keep \notin Nat
      BY <2>3, MarksAreApart DEF OnProduct
    <2>5. QED
      BY <2>2, <2>3, <2>4 DEF Table
  <1>5. CASE UpdateCategory(c)
    <2>1. PICK user \in Users, k \in 1 .. Len(categories), name \in Names \cup {Keep},
                 active \in BOOLEAN \cup {Keep} :
             Begin(c, Ask("update_category", user, k, name, Keep, active, Keep, categories[k]))
      BY <1>5, Zenon DEF UpdateCategory
    <2>2. PICK r : r = Ask("update_category", user, k, name, Keep, active, Keep, categories[k]) /\ Begin(c, r)
      BY <2>1, Zenon
    <2>3. r.op = "update_category" /\ r.id = k /\ r.category = Keep /\ r.seen = categories[k]
      BY <2>2, Zenon DEF Ask
    <2>4. ~OnProduct(r) /\ None \notin Nat /\ Keep \notin Nat
      BY <2>3, MarksAreApart DEF OnProduct
    <2>5. QED
      BY <2>2, <2>3, <2>4 DEF Table
  <1>6. CASE ArchiveCategory(c)
    <2>1. PICK user \in Users, k \in 1 .. Len(categories) :
             Begin(c, Ask("archive_category", user, k, Keep, Keep, FALSE, Keep, categories[k]))
      BY <1>6, Zenon DEF ArchiveCategory
    <2>2. PICK r : r = Ask("archive_category", user, k, Keep, Keep, FALSE, Keep, categories[k]) /\ Begin(c, r)
      BY <2>1, Zenon
    <2>3. r.op = "archive_category" /\ r.id = k /\ r.category = Keep /\ r.seen = categories[k]
      BY <2>2, Zenon DEF Ask
    <2>4. ~OnProduct(r) /\ None \notin Nat /\ Keep \notin Nat
      BY <2>3, MarksAreApart DEF OnProduct
    <2>5. QED
      BY <2>2, <2>3, <2>4 DEF Table
  <1>7. QED
    BY <1>1, <1>2, <1>3, <1>4, <1>5, <1>6 DEF Begins

LEMMA ChecksInOrder ==
    ASSUME CatalogInv, OrderlyInv, NEW c \in Clients,
           CheckCategory(c) \/ CheckKey(c) \/ CheckNoActiveProducts(c)
    PROVE  OrderlyInv'
  <1>1. pc[c] # <<>> /\ UNCHANGED <<rowVars, orderly>> /\ (Done(c) \/ GoOn(c))
    BY DEF CheckCategory, CheckKey, CheckNoActiveProducts, At
  <1>2. CASE Done(c)
    <2>1. products' = products /\ categories' = categories /\ orderly' = orderly
      BY <1>1 DEF rowVars
    <2>2. orderly' => orderly /\ EmptyWhenArchived(products', categories')
      BY <2>1 DEF OrderlyInv
    <2>3. QED
      BY <1>1, <1>2, <2>2, LastEnds
  <1>3. CASE GoOn(c) /\ ~Done(c)
    <2> SUFFICES ASSUME orderly PROVE Current(products, categories, Tail(pc[c]), req[c])
      BY <1>1, <1>3, OnlyGoesOn
    <2>1. Current(products, categories, pc[c], req[c])
      BY <1>1 DEF OrderlyInv
    <2>2. req[c].category \in Nat => categories[req[c].category].active
      <3>1. CASE Head(pc[c]) = "category"
        BY <1>1, <1>3, <3>1 DEF CheckCategory, CheckKey, CheckNoActiveProducts, At, UsableCategory
      <3>2. CASE Head(pc[c]) # "category"
        BY <2>1, <3>2, Zenon DEF Current
      <3>3. QED
        BY <3>1, <3>2
    <2>3. CountsBeforeWrite(pc[c]) =>
              CountsBeforeWrite(Tail(pc[c])) \/ NoneOnSale(products, req[c].id)
      <3> SUFFICES ASSUME CountsBeforeWrite(pc[c]), ~CountsBeforeWrite(Tail(pc[c]))
                   PROVE  NoneOnSale(products, req[c].id)
        OBVIOUS
      <3>1. Head(pc[c]) = "count"
        BY CountIsAhead
      <3>2. ActiveProducts(req[c].id) = {}
        BY <1>1, <1>3, <3>1 DEF CheckCategory, CheckKey, CheckNoActiveProducts, At
      <3>3. QED
        BY <3>2, Zenon DEF ActiveProducts, NoneOnSale
    <2>4. QED
      BY <2>1, <2>2, <2>3, Zenon DEF Current
  <1>4. QED
    BY <1>1, <1>2, <1>3

\* What a request that writes in order knows
LEMMA WritesInOrder ==
    ASSUME CatalogInv, OrderlyInv, orderly, NEW c \in Clients,
           pc[c] # <<>>, Head(pc[c]) = "write", NEW r, r = req[c]
    PROVE  /\ r.id # None => r.seen = TableOf(products, categories, r)[r.id]
           /\ r.category \in Nat => categories[r.category].active
           /\ ~OnProduct(r) /\ r.active = FALSE => NoneOnSale(products, r.id)
  <1>1. Current(products, categories, pc[c], r)
    BY DEF OrderlyInv
  <1>2. ~CountsBeforeWrite(pc[c])
    BY CountIsAhead
  <1>3. QED
    BY <1>1, <1>2, Zenon DEF Current

LEMMA InsertInOrder ==
    ASSUME CatalogInv, OrderlyInv, NEW c \in Clients, InsertRow(c)
    PROVE  OrderlyInv'
  <1>1. PICK r, row :
           /\ r = req[c]
           /\ row = Row(r.user, r.key, r.category, r.active, IF OnProduct(r) THEN r.price ELSE 0)
           /\ products' = IF OnProduct(r) THEN Append(products, row) ELSE products
           /\ categories' = IF OnProduct(r) THEN categories ELSE Append(categories, row)
    BY Zenon DEF InsertRow
  <1>2. /\ r.id = None /\ pc[c] # <<>> /\ Head(pc[c]) = "write" /\ Done(c)
        /\ orderly' = orderly
    BY <1>1 DEF InsertRow, At
  <1>3. SUFFICES ASSUME orderly PROVE EmptyWhenArchived(products', categories')
    BY <1>2, LastEnds
  <1>4. EmptyWhenArchived(products, categories)
    BY <1>3 DEF OrderlyInv
  <1>5. SoundRequest(products, categories, pc[c], r) /\ SoundTables(products, categories)
    BY <1>1, <1>2 DEF CatalogInv
  <1>6. r.category \in {None} \cup Nat /\ r.active = TRUE
    BY <1>2, <1>5, Zenon DEF SoundRequest
  <1>7. row.category = r.category /\ row.active = TRUE
    BY <1>1, <1>6, Zenon DEF Row
  <1>8. CASE OnProduct(r)
    <2>1. products' = Append(products, row) /\ categories' = categories
      BY <1>1, <1>8
    <2>2. r.category \in DOMAIN categories => categories[r.category].active
      <3>1. r.category \in Nat => categories[r.category].active
        BY <1>1, <1>2, <1>3, WritesInOrder
      <3>2. DOMAIN categories \subseteq Nat
        BY Places
      <3>3. QED
        BY <3>1, <3>2
    <2>3. \A p \in DOMAIN products' :
              products'[p] = row \/ (p \in DOMAIN products /\ products'[p] = products[p])
      BY <1>5, <2>1 DEF SoundTables
    <2>4. ASSUME NEW k \in DOMAIN categories', NEW p \in DOMAIN products',
                 products'[p].category = k, products'[p].active
          PROVE  categories'[k].active
      <3>1. CASE products'[p] = row
        BY <1>7, <2>1, <2>2, <2>4, <3>1
      <3>2. CASE p \in DOMAIN products /\ products'[p] = products[p]
        BY <1>4, <2>1, <2>4, <3>2, Zenon DEF EmptyWhenArchived
      <3>3. QED
        BY <2>3, <3>1, <3>2
    <2>5. QED
      BY <2>4, Zenon DEF EmptyWhenArchived
  <1>9. CASE ~OnProduct(r)
    <2>1. products' = products /\ categories' = Append(categories, row)
      BY <1>1, <1>9
    <2>2. \A k \in DOMAIN categories' :
              categories'[k] = row \/ (k \in DOMAIN categories /\ categories'[k] = categories[k])
      BY <1>5, <2>1 DEF SoundTables
    <2>3. QED
      BY <1>4, <1>7, <2>1, <2>2, Zenon DEF EmptyWhenArchived
  <1>10. QED
    BY <1>8, <1>9

LEMMA UpdateInOrder ==
    ASSUME CatalogInv, OrderlyInv, NEW c \in Clients, UpdateRow(c)
    PROVE  OrderlyInv'
  <1>1. PICK r, table, old, row :
           /\ WritesRow(c, r, table, old, row)
           /\ r = req[c] /\ table = TableOf(products, categories, r) /\ old = table[r.id]
    BY UpdatedRow DEF WritesRow
  <1>2. /\ r.id # None /\ Head(pc[c]) = "write" /\ pc[c] # <<>> /\ Done(c)
        /\ products' = IF OnProduct(r) THEN [products EXCEPT ![r.id] = row] ELSE products
        /\ categories' = IF OnProduct(r) THEN categories ELSE [categories EXCEPT ![r.id] = row]
    BY <1>1, Zenon DEF WritesRow
  <1>3. /\ r.id \in DOMAIN table /\ old \in TableRows /\ row \in TableRows
        /\ row.category \in {old.category, r.category} \ {Keep}
        /\ row.active \in {old.active, r.active}
    BY <1>1, Zenon DEF WritesRow
  <1>4. /\ old.active \in BOOLEAN /\ row.active \in BOOLEAN /\ row.category \in {None} \cup Nat
    BY <1>3, Zenon DEF TableRows
  <1>5. orderly' = (orderly /\ ~(OnProduct(r) /\ r.active = TRUE /\ ~r.seen.active))
    BY <1>1, Zenon DEF UpdateRow
  <1>6. SUFFICES ASSUME orderly' PROVE EmptyWhenArchived(products', categories')
    BY <1>2, <1>5, LastEnds
  <1>7. orderly /\ ~(OnProduct(r) /\ r.active = TRUE /\ ~r.seen.active)
    BY <1>5, <1>6, Zenon
  <1>8. EmptyWhenArchived(products, categories)
    BY <1>7 DEF OrderlyInv
  <1>9. /\ r.seen = old
        /\ r.category \in Nat => categories[r.category].active
        /\ ~OnProduct(r) /\ r.active = FALSE => NoneOnSale(products, r.id)
    BY <1>1, <1>2, <1>7, WritesInOrder
  <1>10. SoundTables(products, categories)
    BY DEF CatalogInv
  <1>11. CASE OnProduct(r)
    <2>1. table = products /\ products' = [products EXCEPT ![r.id] = row] /\ categories' = categories
      BY <1>1, <1>2, <1>11 DEF TableOf
    <2>2. /\ DOMAIN products' = DOMAIN products /\ products'[r.id] = row
          /\ \A p \in DOMAIN products \ {r.id} : products'[p] = products[p]
      BY <1>3, <1>10, <2>1 DEF SoundTables
    <2>3. row.active => old.active
      <3>1. SUFFICES ASSUME row.active, ~old.active PROVE FALSE
        OBVIOUS
      <3>2. r.active = TRUE
        BY <1>3, <1>4, <3>1, Zenon
      <3>3. QED
        BY <1>7, <1>9, <1>11, <3>1, <3>2, Zenon
    <2>4. row.category \in DOMAIN categories /\ row.active => categories[row.category].active
      <3>1. CASE row.category = old.category
        BY <1>1, <1>3, <1>8, <2>1, <2>3, <3>1, Zenon DEF EmptyWhenArchived
      <3>2. CASE row.category = r.category
        BY <1>4, <1>9, <3>2, Places
      <3>3. QED
        BY <1>3, <3>1, <3>2, Zenon
    <2>5. ASSUME NEW k \in DOMAIN categories', NEW p \in DOMAIN products',
                 products'[p].category = k, products'[p].active
          PROVE  categories'[k].active
      <3>1. CASE p = r.id
        BY <2>1, <2>2, <2>4, <2>5, <3>1, Zenon
      <3>2. CASE p # r.id
        <4>1. p \in DOMAIN products /\ products'[p] = products[p]
          BY <2>2, <3>2
        <4>2. QED
          BY <1>8, <2>1, <2>5, <4>1, Zenon DEF EmptyWhenArchived
      <3>3. QED
        BY <3>1, <3>2
    <2>6. QED
      BY <2>5, Zenon DEF EmptyWhenArchived
  <1>12. CASE ~OnProduct(r)
    <2>1. table = categories /\ categories' = [categories EXCEPT ![r.id] = row] /\ products' = products
      BY <1>1, <1>2, <1>12 DEF TableOf
    <2>2. /\ DOMAIN categories' = DOMAIN categories /\ categories'[r.id] = row
          /\ \A k \in DOMAIN categories \ {r.id} : categories'[k] = categories[k]
      BY <1>3, <1>10, <2>1 DEF SoundTables
    <2>3. ASSUME NEW k \in DOMAIN categories', NEW p \in DOMAIN products',
                 products'[p].category = k, products'[p].active
          PROVE  categories'[k].active
      <3>1. categories[k].active
        BY <1>8, <2>1, <2>2, <2>3, Zenon DEF EmptyWhenArchived
      <3>2. CASE k = r.id
        <4>1. old.active
          BY <1>1, <2>1, <3>1, <3>2
        <4>2. ~NoneOnSale(products, r.id)
          BY <2>1, <2>3, <3>2, Zenon DEF NoneOnSale
        <4>3. r.active # FALSE
          BY <1>9, <1>12, <4>2, Zenon
        <4>4. row.active
          BY <1>3, <1>4, <4>1, <4>3, Zenon
        <4>5. QED
          BY <2>2, <3>2, <4>4, Zenon
      <3>3. CASE k # r.id
        <4>1. categories'[k] = categories[k]
          BY <2>2, <3>3
        <4>2. QED
          BY <3>1, <4>1
      <3>4. QED
        BY <3>2, <3>3
    <2>4. QED
      BY <2>3, Zenon DEF EmptyWhenArchived
  <1>13. QED
    BY <1>11, <1>12

LEMMA OrderlyStep == CatalogInv /\ OrderlyInv /\ [Next]_vars => OrderlyInv'
  <1> SUFFICES ASSUME CatalogInv, OrderlyInv, [Next]_vars PROVE OrderlyInv'
    OBVIOUS
  <1>1. ASSUME NEW c \in Clients, RequestAborted(c) \/ RefusedByConstraint(c) PROVE OrderlyInv'
    <2>1. pc[c] # <<>> /\ Done(c) /\ UNCHANGED <<rowVars, orderly>>
      BY <1>1 DEF RequestAborted, RefusedByConstraint, At
    <2>2. orderly' => orderly /\ EmptyWhenArchived(products', categories')
      BY <2>1 DEF OrderlyInv, rowVars
    <2>3. QED
      BY <2>1, <2>2, LastEnds
  <1>2. ASSUME NEW c \in Clients, Proceeds(c) PROVE OrderlyInv'
    BY <1>1, <1>2, ChecksInOrder, InsertInOrder, UpdateInOrder DEF Proceeds
  <1>3. CASE UNCHANGED vars
    BY <1>3 DEF OrderlyInv, vars, rowVars
  <1>4. QED
    BY <1>1, <1>2, <1>3, BeginsInOrder DEF Next

\* Between a category's count of its active products and its archiving, and
\* between the look at a category and the write of its product, nothing happens
\* when requests follow each other: the count keeps archived categories empty.
THEOREM OrderKeepsArchivedEmpty == Spec => []ArchivedCategoriesAreEmpty
  <1>1. Init => OrderlyInv
    BY DEF Init, OrderlyInv, EmptyWhenArchived
  <1>2. CatalogInv /\ OrderlyInv => ArchivedCategoriesAreEmpty
    <2>1. SUFFICES ASSUME OrderlyInv, orderly, NEW k \in DOMAIN categories, ~categories[k].active
                   PROVE  ActiveProducts(k) = {}
      BY DEF ArchivedCategoriesAreEmpty
    <2>2. QED
      BY <2>1, Zenon DEF OrderlyInv, EmptyWhenArchived, ActiveProducts
  <1>3. QED
    BY <1>1, <1>2, OrderlyStep, CatalogStaysSound, PTL DEF Spec

-----------------------------------------------------------------------------
(* The normal form of a SKU *)

LEMMA MinOf ==
    ASSUME NEW T, T \subseteq Nat, T # {}
    PROVE  Min(T) \in T /\ \A n \in T : Min(T) <= n
  <1>1. \E m \in T : \A n \in T : m <= n
    BY LeastNatural
  <1>2. QED
    BY <1>1 DEF Min

LEMMA MaxOf ==
    ASSUME NEW T, T \subseteq Nat, T # {}, NEW N \in Nat, \A n \in T : n <= N
    PROVE  Max(T) \in T /\ \A n \in T : Max(T) >= n
  <1>1. \E m \in T : \A n \in T : m >= n
    BY GreatestNatural
  <1>2. QED
    BY <1>1 DEF Max

\* What strip leaves is empty or ends with a character it keeps
LEMMA StripEnds ==
    ASSUME NEW s, IsList(s), NEW chars, NEW t, t = Strip(s, chars), t # <<>>
    PROVE  IsList(t) /\ Len(t) >= 1 /\ t[Len(t)] \notin chars
  <1> PICK kept : kept = {i \in DOMAIN s : s[i] \notin chars}
    OBVIOUS
  <1>1. kept # {} /\ t = SubSeq(s, Min(kept), Max(kept))
    BY DEF Strip
  <1>2. kept \subseteq Nat /\ \A n \in kept : n \in 1 .. Len(s) /\ n <= Len(s)
    BY DEF IsList
  <1>3. PICK low, high : low = Min(kept) /\ high = Max(kept)
    OBVIOUS
  <1>4. low \in kept /\ high \in kept /\ low <= high
    BY <1>1, <1>2, <1>3, MinOf, MaxOf DEF IsList
  <1>5. t = SubSeq(s, low, high) /\ low \in 1 .. Len(s) /\ high \in 1 .. Len(s)
    BY <1>1, <1>2, <1>3, <1>4
  <1>6. IsList(t) /\ Len(t) = high - low + 1 /\ t[Len(t)] = s[high]
    BY <1>4, <1>5 DEF IsList
  <1>7. QED
    BY <1>4, <1>5, <1>6 DEF IsList

\* strip leaves what neither begins nor ends with the characters it takes off
LEMMA StripNothing ==
    ASSUME NEW s, IsList(s), Len(s) >= 1, s \in Seq(DOMAIN Upper), NEW chars,
           s[1] \notin chars, s[Len(s)] \notin chars
    PROVE  Strip(s, chars) = s
  <1> PICK kept : kept = {i \in DOMAIN s : s[i] \notin chars}
    OBVIOUS
  <1>1. 1 \in kept /\ Len(s) \in kept /\ kept \subseteq Nat
        /\ \A n \in kept : 1 <= n /\ n <= Len(s)
    BY DEF IsList
  <1>2. PICK low, high : low = Min(kept) /\ high = Max(kept)
    OBVIOUS
  <1>3. low = 1 /\ high = Len(s)
    <2>1. low \in kept /\ \A n \in kept : low <= n
      BY <1>1, <1>2, MinOf
    <2>2. Len(s) \in Nat
      BY DEF IsList
    <2>3. high \in kept /\ \A n \in kept : high >= n
      BY <1>1, <1>2, <2>2, MaxOf
    <2>4. 1 <= low /\ low <= 1 /\ high <= Len(s) /\ high >= Len(s) /\ low \in Nat /\ high \in Nat
      BY <1>1, <2>1, <2>3
    <2>5. QED
      BY <2>2, <2>4
  <1>4. Strip(s, chars) = SubSeq(s, low, high)
    BY <1>1, <1>2 DEF Strip
  <1>5. QED
    BY <1>3, <1>4 DEF IsList

LEMMA UpperStays ==
    ASSUME NEW s \in Seq(Letters \cup Marks)
    PROVE  UpperCase(s) = s
  <1>1. \A ch \in Letters \cup Marks : Upper[ch] = ch
    BY DEF Upper, Letters, Marks
  <1>2. \A i \in DOMAIN s : s[i] \in Letters \cup Marks
    OBVIOUS
  <1>3. UpperCase(s) = [i \in DOMAIN s |-> s[i]]
    BY <1>1, <1>2, Zenon DEF UpperCase
  <1>4. QED
    BY <1>3

LEMMA Countdown ==
    ASSUME NEW n \in Nat, NEW i \in 1 .. n
    PROVE  Cardinality({j \in 1 .. n : j <= i}) = i
  <1>1. {j \in 1 .. n : j <= i} = 1 .. i
    OBVIOUS
  <1>2. Cardinality(1 .. i) = i
    BY FS_Interval
  <1>3. QED
    BY <1>1, <1>2

\* Where there is no blank there is nothing to replace
LEMMA DashedStays ==
    ASSUME NEW s \in Seq(Letters \cup Marks)
    PROVE  Dashed(s) = s
  <1>1. PICK n \in Nat : n = Len(s) /\ DOMAIN s = 1 .. n
    OBVIOUS
  <1>2. \A i \in DOMAIN s : s[i] # " "
    <2>1. \A i \in DOMAIN s : s[i] \in Letters \cup Marks
      OBVIOUS
    <2>2. " " \notin Letters \cup Marks
      BY DEF Letters, Marks
    <2>3. QED
      BY <2>1, <2>2, Zenon
  <1> DEFINE starts == {i \in DOMAIN s : s[i] # " " \/ (i > 1 => s[i - 1] # " ")}
             Nth(k) == CHOOSE i \in starts : Cardinality({j \in starts : j <= i}) = k
  <1>3. starts = 1 .. n
    BY <1>1, <1>2
  <1>4. Dashed(s) = [k \in 1 .. Cardinality(starts) |-> IF s[Nth(k)] = " " THEN "-" ELSE s[Nth(k)]]
    BY Zenon DEF Dashed
  <1> HIDE DEF starts
  <1>5. Cardinality(starts) = n
    <2>1. n \in Int /\ 1 \in Int
      BY <1>1
    <2>2. Cardinality(1 .. n) = IF 1 > n THEN 0 ELSE n - 1 + 1
      BY <2>1, FS_Interval, Zenon
    <2>3. Cardinality(1 .. n) = n
      BY <1>1, <2>2
    <2>4. QED
      BY <1>3, <2>3, Zenon
  <1>6. ASSUME NEW k \in 1 .. n PROVE Nth(k) = k
    <2>1. \A i \in starts : Cardinality({j \in starts : j <= i}) = i
      BY <1>1, <1>3, Countdown
    <2>2. k \in starts
      BY <1>3
    <2>3. QED
      BY <2>1, <2>2
  <1>7. \A k \in 1 .. n : s[k] # " " /\ Nth(k) = k
    BY <1>1, <1>2, <1>6
  <1> HIDE DEF Nth
  <1>8. Dashed(s) = [k \in 1 .. n |-> s[k]]
    BY <1>4, <1>5, <1>7
  <1>9. QED
    BY <1>1, <1>8

LEMMA StripSeq ==
    ASSUME NEW T, NEW s \in Seq(T), NEW chars
    PROVE  Strip(s, chars) \in Seq(T)
  <1> PICK kept : kept = {i \in DOMAIN s : s[i] \notin chars}
    OBVIOUS
  <1>1. CASE kept = {}
    BY <1>1 DEF Strip
  <1>2. CASE kept # {}
    <2>1. kept \subseteq Nat /\ \A n \in kept : n \in 1 .. Len(s) /\ n <= Len(s)
      OBVIOUS
    <2>2. PICK low, high : low = Min(kept) /\ high = Max(kept)
      OBVIOUS
    <2>3. low \in 1 .. Len(s) /\ high \in 1 .. Len(s)
      BY <1>2, <2>1, <2>2, MinOf, MaxOf
    <2>4. Strip(s, chars) = SubSeq(s, low, high)
      BY <1>2, <2>2 DEF Strip
    <2>5. SubSeq(s, low, high) \in Seq(T)
      BY <2>3
    <2>6. QED
      BY <2>4, <2>5
  <1>3. QED
    BY <1>1, <1>2

\* Dashed and UpperCase give lists
LEMMA DashedList ==
    ASSUME NEW s, IsList(s)
    PROVE  \E m \in Nat : DOMAIN Dashed(s) = 1 .. m /\ \E T : Dashed(s) \in Seq(T)
  <1> DEFINE starts == {i \in DOMAIN s : s[i] # " " \/ (i > 1 => s[i - 1] # " ")}
             Nth(k) == CHOOSE i \in starts : Cardinality({j \in starts : j <= i}) = k
             Shown(k) == IF s[Nth(k)] = " " THEN "-" ELSE s[Nth(k)]
  <1>1. Cardinality(starts) \in Nat
    <2>1. Len(s) \in Int /\ 1 \in Int /\ DOMAIN s = 1 .. Len(s)
      BY DEF IsList
    <2>2. starts \subseteq DOMAIN s
      BY Zenon
    <2> HIDE DEF starts
    <2>4. IsFiniteSet(starts)
      BY <2>1, <2>2, FS_Interval, FS_Subset, Zenon
    <2>5. QED
      BY <2>4, FS_CardinalityType
  <1>2. Dashed(s) = [k \in 1 .. Cardinality(starts) |-> Shown(k)]
    BY Zenon DEF Dashed
  <1>3. PICK m \in Nat : m = Cardinality(starts)
    BY <1>1
  <1> HIDE DEF Shown, starts
  <1>4. Dashed(s) \in Seq({Shown(k) : k \in 1 .. m}) /\ DOMAIN Dashed(s) = 1 .. m
    BY <1>2, <1>3
  <1>5. QED
    BY <1>4

LEMMA NormalIsNormal ==
    ASSUME NEW raw \in RawSkus, ValidSku(raw), NEW n, n = NormalizeSku(raw)
    PROVE  NormalizeSku(n) = n /\ ValidSku(n)
  <1>1. PICK upper : upper = UpperCase(Strip(raw, {" "}))
    OBVIOUS
  <1>2. PICK dashed : dashed = Dashed(upper)
    OBVIOUS
  <1>3. n = Strip(dashed, Marks)
    BY <1>1, <1>2 DEF NormalizeSku
  <1>4. /\ Len(n) \in 1 .. MaxSku /\ \A i \in DOMAIN n : n[i] \in Letters \cup Marks
        /\ n[1] \in Letters
    BY DEF ValidSku
  <1>5. IsList(upper)
    <2>1. PICK stripped : stripped = Strip(raw, {" "})
      OBVIOUS
    <2>2. stripped \in Seq(DOMAIN Upper)
      BY <2>1, StripSeq, CatalogAssumption
    <2>3. upper = [i \in DOMAIN stripped |-> Upper[stripped[i]]]
      BY <1>1, <2>1 DEF UpperCase
    <2>4. PICK m \in Nat : DOMAIN stripped = 1 .. m
      BY <2>2
    <2>5. DOMAIN upper = 1 .. m /\ upper = [i \in 1 .. m |-> upper[i]]
      BY <2>3, <2>4, Zenon
    <2>6. QED
      BY <2>5, FunctionList
  <1>6. PICK T : dashed \in Seq(T)
    BY <1>2, <1>5, DashedList
  <1>7. n \in Seq(T) /\ IsList(n) /\ Len(n) >= 1
    <2>1. n \in Seq(T)
      BY <1>3, <1>6, StripSeq
    <2>2. QED
      BY <1>4, <2>1 DEF IsList
  <1>8. n \in Seq(Letters \cup Marks)
    BY <1>4, <1>7
  <1>9. n[Len(n)] \notin Marks
    <2>1. IsList(dashed)
      BY <1>6 DEF IsList
    <2>2. n # <<>>
      BY <1>7
    <2>3. QED
      BY <1>3, <2>1, <2>2, StripEnds
  <1>10. n \in Seq(DOMAIN Upper)
    <2>1. Letters \cup Marks \subseteq DOMAIN Upper
      BY DEF Upper
    <2>2. QED
      BY <1>8, <2>1
  <1>11. Strip(n, {" "}) = n
    <2>1. 1 \in DOMAIN n /\ Len(n) \in DOMAIN n
      BY <1>7 DEF IsList
    <2>2. n[1] \in Letters \cup Marks /\ n[Len(n)] \in Letters \cup Marks
      BY <1>4, <2>1
    <2>3. " " \notin Letters \cup Marks
      BY DEF Letters, Marks
    <2>4. n[1] \notin {" "} /\ n[Len(n)] \notin {" "}
      BY <2>2, <2>3
    <2>5. QED
      BY <1>7, <1>10, <2>4, StripNothing
  <1>12. Strip(n, Marks) = n
    <2>1. Letters \cap Marks = {}
      BY DEF Letters, Marks
    <2>2. n[1] \notin Marks
      BY <1>4, <2>1
    <2>3. QED
      BY <1>7, <1>9, <1>10, <2>2, StripNothing
  <1>13. UpperCase(n) = n /\ Dashed(n) = n
    BY <1>8, UpperStays, DashedStays
  <1>14. NormalizeSku(n) = n
    BY <1>11, <1>12, <1>13 DEF NormalizeSku
  <1>15. QED
    BY <1>4, <1>14 DEF ValidSku

LEMMA SkusAreNormal == Skus = NormalSkus
  <1>1. \A sku \in Skus : NormalizeSku(sku) = sku /\ ValidSku(sku)
    BY NormalIsNormal DEF Skus
  <1>2. QED
    BY <1>1 DEF NormalSkus

-----------------------------------------------------------------------------
(* Prices *)

LEMMA CentsFit ==
    ASSUME NEW cents \in AcceptedCents
    PROVE  cents \in 0 .. PriceLimit * 100 - 1
  <1>1. PICK price \in Prices : ValidPrice(price) /\ cents = Cents(price)
    BY DEF AcceptedCents
  <1>2. PICK d, e : d = price.digits /\ e = price.decimals
    OBVIOUS
  <1>3. d \in Int /\ e \in Nat
    BY <1>2, CatalogAssumption
  <1>4. PICK up, down : up = 10 ^ e /\ down = 10 ^ (2 - e)
    OBVIOUS
  <1>5. d >= 0 /\ e <= 2 /\ d < PriceLimit * up /\ cents = d * down
    BY <1>1, <1>2, <1>4, Zenon DEF ValidPrice, Cents
  <1>6. e = 0 \/ e = 1 \/ e = 2
    BY <1>3, <1>5
  <1>7. 10 ^ 0 = 1 /\ 10 ^ 1 = 10 /\ 10 ^ 2 = 100
    OBVIOUS
  <1>8. \/ up = 1 /\ down = 100
        \/ up = 10 /\ down = 10
        \/ up = 100 /\ down = 1
    <2>1. 2 - 0 = 2 /\ 2 - 1 = 1 /\ 2 - 2 = 0
      OBVIOUS
    <2>2. CASE e = 0
      BY <1>4, <1>7, <2>1, <2>2, Zenon
    <2>3. CASE e = 1
      BY <1>4, <1>7, <2>1, <2>3, Zenon
    <2>4. CASE e = 2
      BY <1>4, <1>7, <2>1, <2>4, Zenon
    <2>5. QED
      BY <1>6, <2>2, <2>3, <2>4
  <1>9. PriceLimit \in Nat
    BY CatalogRulesAssumption
  <1>10. QED
    BY <1>3, <1>5, <1>8, <1>9

-----------------------------------------------------------------------------
(* The columns of the two tables *)

ProductColumns(table) ==
    \A p \in DOMAIN table : table[p].key \in Skus /\ table[p].price \in AcceptedCents

CategoryColumns(table) ==
    \A k \in DOMAIN table : table[k].key \in Names /\ table[k].price = 0

AsksKey(r) == r.key \in {Keep} \cup (IF OnProduct(r) THEN Skus ELSE Names)

\* A product has a normal SKU and an accepted price, a category a name; a
\* request that is under way asks for nothing else.
ColumnsInv ==
    /\ ProductColumns(products)
    /\ CategoryColumns(categories)
    /\ \A c \in Clients : pc[c] # <<>> => AsksKey(req[c])

LEMMA ColumnsMove ==
    ASSUME CatalogInv, ColumnsInv, NEW c \in Clients, NEW steps, NEW r,
           pc' = [pc EXCEPT ![c] = steps], req'[c] = r,
           \A d \in Clients \ {c} : req'[d] = req[d],
           steps # <<>> => AsksKey(r),
           ProductColumns(products'), CategoryColumns(categories')
    PROVE  ColumnsInv'
  <1>1. DOMAIN pc = Clients
    BY DEF CatalogInv
  <1>2. ASSUME NEW d \in Clients, pc'[d] # <<>> PROVE AsksKey(req'[d])
    <2>1. CASE d = c
      <3>1. pc'[d] = steps /\ req'[d] = r
        BY <1>1, <2>1
      <3>2. QED
        BY <1>2, <3>1
    <2>2. CASE d # c
      <3>1. pc'[d] = pc[d] /\ req'[d] = req[d]
        BY <1>1, <2>2
      <3>2. QED
        BY <1>2, <3>1 DEF ColumnsInv
    <2>3. QED
      BY <2>1, <2>2
  <1>3. QED
    BY <1>2 DEF ColumnsInv, AsksKey

LEMMA ColumnsAsked ==
    ASSUME CatalogInv, ColumnsInv, NEW c \in Clients, NEW r, Begin(c, r), AsksKey(r)
    PROVE  ColumnsInv'
  <1>1. /\ pc' = [pc EXCEPT ![c] = Steps(r)] /\ req' = [req EXCEPT ![c] = r]
        /\ UNCHANGED <<products, categories>>
    BY DEF Begin, rowVars
  <1>2. ProductColumns(products') /\ CategoryColumns(categories')
    BY <1>1 DEF ColumnsInv
  <1>3. req'[c] = r /\ \A d \in Clients \ {c} : req'[d] = req[d]
    BY <1>1 DEF CatalogInv
  <1>4. QED
    BY <1>1, <1>2, <1>3, ColumnsMove

LEMMA ProductAsked ==
    ASSUME CatalogInv, ColumnsInv, NEW c \in Clients, NEW op, NEW user, NEW id,
           NEW key \in {Keep} \cup Skus, NEW category, NEW active, NEW price, NEW seen,
           Begin(c, Ask(op, user, id, key, category, active, price, seen)),
           op = "create_product" \/ op = "update_product" \/ op = "archive_product"
    PROVE  ColumnsInv'
  <1>1. PICK r : r = Ask(op, user, id, key, category, active, price, seen)
    OBVIOUS
  <1>2. r.op = op /\ r.key = key
    BY <1>1, Zenon DEF Ask
  <1>3. Begin(c, r)
    BY <1>1
  <1>4. AsksKey(r)
    BY <1>2 DEF AsksKey, OnProduct
  <1>5. QED
    BY <1>3, <1>4, ColumnsAsked

LEMMA CategoryAsked ==
    ASSUME CatalogInv, ColumnsInv, NEW c \in Clients, NEW op, NEW user, NEW id,
           NEW key \in {Keep} \cup Names, NEW category, NEW active, NEW price, NEW seen,
           Begin(c, Ask(op, user, id, key, category, active, price, seen)),
           op = "create_category" \/ op = "update_category" \/ op = "archive_category"
    PROVE  ColumnsInv'
  <1>1. PICK r : r = Ask(op, user, id, key, category, active, price, seen)
    OBVIOUS
  <1>2. r.op = op /\ r.key = key
    BY <1>1, Zenon DEF Ask
  <1>3. Begin(c, r)
    BY <1>1
  <1>4. AsksKey(r)
    BY <1>2 DEF AsksKey, OnProduct
  <1>5. QED
    BY <1>3, <1>4, ColumnsAsked

LEMMA ColumnsBegin ==
    ASSUME CatalogInv, ColumnsInv, NEW c \in Clients, Begins(c)
    PROVE  ColumnsInv'
  <1>1. CASE CreateProduct(c)
    <2>1. PICK user \in Users, sku \in Skus, price \in AcceptedCents,
               category \in {None} \cup 1 .. Len(categories) :
             Begin(c, Ask("create_product", user, None, sku, category, TRUE, price, NoRow))
      BY <1>1, Zenon DEF CreateProduct
    <2>2. sku \in {Keep} \cup Skus
      OBVIOUS
    <2>3. QED
      BY <2>1, <2>2, ProductAsked
  <1>2. CASE UpdateProduct(c)
    <2>1. PICK user \in Users, p \in 1 .. Len(products), sku \in Skus \cup {Keep},
               category \in {None, Keep} \cup 1 .. Len(categories), active \in BOOLEAN \cup {Keep} :
             Begin(c, Ask("update_product", user, p, sku, category, active, Keep, products[p]))
      BY <1>2, Zenon DEF UpdateProduct
    <2>2. sku \in {Keep} \cup Skus
      OBVIOUS
    <2>3. QED
      BY <2>1, <2>2, ProductAsked
  <1>3. CASE ArchiveProduct(c)
    <2>1. PICK user \in Users, p \in 1 .. Len(products) :
             Begin(c, Ask("archive_product", user, p, Keep, Keep, FALSE, Keep, products[p]))
      BY <1>3, Zenon DEF ArchiveProduct
    <2>2. Keep \in {Keep} \cup Skus
      OBVIOUS
    <2>3. QED
      BY <2>1, <2>2, ProductAsked
  <1>4. CASE CreateCategory(c)
    <2>1. PICK user \in Users, name \in Names :
             Begin(c, Ask("create_category", user, None, name, None, TRUE, Keep, NoRow))
      BY <1>4, Zenon DEF CreateCategory
    <2>2. name \in {Keep} \cup Names
      OBVIOUS
    <2>3. QED
      BY <2>1, <2>2, CategoryAsked
  <1>5. CASE UpdateCategory(c)
    <2>1. PICK user \in Users, k \in 1 .. Len(categories), name \in Names \cup {Keep},
               active \in BOOLEAN \cup {Keep} :
             Begin(c, Ask("update_category", user, k, name, Keep, active, Keep, categories[k]))
      BY <1>5, Zenon DEF UpdateCategory
    <2>2. name \in {Keep} \cup Names
      OBVIOUS
    <2>3. QED
      BY <2>1, <2>2, CategoryAsked
  <1>6. CASE ArchiveCategory(c)
    <2>1. PICK user \in Users, k \in 1 .. Len(categories) :
             Begin(c, Ask("archive_category", user, k, Keep, Keep, FALSE, Keep, categories[k]))
      BY <1>6, Zenon DEF ArchiveCategory
    <2>2. Keep \in {Keep} \cup Names
      OBVIOUS
    <2>3. QED
      BY <2>1, <2>2, CategoryAsked
  <1>7. QED
    BY <1>1, <1>2, <1>3, <1>4, <1>5, <1>6 DEF Begins

LEMMA ColumnsDone ==
    ASSUME CatalogInv, ColumnsInv, NEW c \in Clients, Done(c),
           ProductColumns(products'), CategoryColumns(categories')
    PROVE  ColumnsInv'
  <1>1. /\ pc' = [pc EXCEPT ![c] = <<>>] /\ req'[c] = NoRequest
        /\ \A d \in Clients \ {c} : req'[d] = req[d]
    BY DEF Done, CatalogInv
  <1>2. QED
    BY <1>1, ColumnsMove

LEMMA ColumnsCheck ==
    ASSUME CatalogInv, ColumnsInv, NEW c \in Clients, pc[c] # <<>>,
           Done(c) \/ GoOn(c), UNCHANGED rowVars
    PROVE  ColumnsInv'
  <1>1. ProductColumns(products') /\ CategoryColumns(categories')
    BY DEF ColumnsInv, rowVars
  <1>2. CASE Done(c)
    BY <1>1, <1>2, ColumnsDone
  <1>3. CASE GoOn(c)
    <2>1. /\ pc' = [pc EXCEPT ![c] = Tail(pc[c])]
          /\ req' = req
      BY <1>3 DEF GoOn
    <2>2. AsksKey(req[c])
      BY DEF ColumnsInv
    <2>3. QED
      BY <1>1, <2>1, <2>2, ColumnsMove
  <1>4. QED
    BY <1>2, <1>3

LEMMA ColumnsInsert ==
    ASSUME CatalogInv, ColumnsInv, NEW c \in Clients, InsertRow(c)
    PROVE  ColumnsInv'
  <1>1. PICK r, row :
           /\ r = req[c]
           /\ row = Row(r.user, r.key, r.category, r.active, IF OnProduct(r) THEN r.price ELSE 0)
           /\ products' = IF OnProduct(r) THEN Append(products, row) ELSE products
           /\ categories' = IF OnProduct(r) THEN categories ELSE Append(categories, row)
    BY Zenon DEF InsertRow
  <1>2. r.id = None /\ pc[c] # <<>> /\ Done(c)
    BY <1>1 DEF InsertRow, At
  <1>3. SoundRequest(products, categories, pc[c], r) /\ SoundTables(products, categories)
    BY <1>1, <1>2 DEF CatalogInv
  <1>4. r.key # Keep /\ (OnProduct(r) => r.price \in AcceptedCents)
    BY <1>2, <1>3, MarksAreApart DEF SoundRequest
  <1>5. r.key \in IF OnProduct(r) THEN Skus ELSE Names
    BY <1>1, <1>2, <1>4 DEF ColumnsInv, AsksKey
  <1>6. row.key = r.key /\ row.price = IF OnProduct(r) THEN r.price ELSE 0
    BY <1>1, Zenon DEF Row
  <1>7. CASE OnProduct(r)
    <2>1. products' = Append(products, row) /\ categories' = categories
      BY <1>1, <1>7
    <2>2. \A p \in DOMAIN products' :
              products'[p] = row \/ (p \in DOMAIN products /\ products'[p] = products[p])
      BY <1>3, <2>1 DEF SoundTables
    <2>3. row.key \in Skus /\ row.price \in AcceptedCents
      BY <1>4, <1>5, <1>6, <1>7
    <2>4. ProductColumns(products')
      BY <2>2, <2>3, Zenon DEF ColumnsInv, ProductColumns
    <2>5. CategoryColumns(categories')
      BY <2>1 DEF ColumnsInv
    <2>6. QED
      BY <1>2, <2>4, <2>5, ColumnsDone
  <1>8. CASE ~OnProduct(r)
    <2>1. products' = products /\ categories' = Append(categories, row)
      BY <1>1, <1>8
    <2>2. \A k \in DOMAIN categories' :
              categories'[k] = row \/ (k \in DOMAIN categories /\ categories'[k] = categories[k])
      BY <1>3, <2>1 DEF SoundTables
    <2>3. row.key \in Names /\ row.price = 0
      BY <1>5, <1>6, <1>8
    <2>4. CategoryColumns(categories')
      BY <2>2, <2>3, Zenon DEF ColumnsInv, CategoryColumns
    <2>5. ProductColumns(products')
      BY <2>1 DEF ColumnsInv
    <2>6. QED
      BY <1>2, <2>4, <2>5, ColumnsDone
  <1>9. QED
    BY <1>7, <1>8

LEMMA ColumnsUpdate ==
    ASSUME CatalogInv, ColumnsInv, NEW c \in Clients, UpdateRow(c)
    PROVE  ColumnsInv'
  <1>1. PICK r, table, old, row :
           /\ WritesRow(c, r, table, old, row)
           /\ r = req[c] /\ table = TableOf(products, categories, r) /\ old = table[r.id]
    BY UpdatedRow DEF WritesRow
  <1>2. /\ r.id \in DOMAIN table /\ pc[c] # <<>> /\ Done(c)
        /\ products' = IF OnProduct(r) THEN [products EXCEPT ![r.id] = row] ELSE products
        /\ categories' = IF OnProduct(r) THEN categories ELSE [categories EXCEPT ![r.id] = row]
    BY <1>1, Zenon DEF WritesRow
  <1>3. row.key = IF r.key \in {Keep, r.seen.key} THEN old.key ELSE r.key
    BY <1>1, Zenon DEF WritesRow
  <1>4. row.price = old.price
    BY <1>1, Zenon DEF WritesRow
  <1>5. r.key \in {Keep} \cup (IF OnProduct(r) THEN Skus ELSE Names)
    BY <1>1, <1>2 DEF ColumnsInv, AsksKey
  <1>6. SoundTables(products, categories)
    BY DEF CatalogInv
  <1>7. CASE OnProduct(r)
    <2>1. table = products /\ products' = [products EXCEPT ![r.id] = row] /\ categories' = categories
      BY <1>1, <1>2, <1>7 DEF TableOf
    <2>2. DOMAIN products' = DOMAIN products
          /\ \A p \in DOMAIN products : products'[p] = IF p = r.id THEN row ELSE products[p]
      BY <1>6, <2>1 DEF SoundTables
    <2>3. row.key \in Skus /\ row.price \in AcceptedCents
      <3>1. old.key \in Skus /\ old.price \in AcceptedCents
        BY <1>1, <1>2, <2>1 DEF ColumnsInv, ProductColumns
      <3>2. QED
        BY <1>3, <1>4, <1>5, <1>7, <3>1
    <2>4. ProductColumns(products')
      BY <2>2, <2>3, Zenon DEF ColumnsInv, ProductColumns
    <2>5. CategoryColumns(categories')
      BY <2>1 DEF ColumnsInv
    <2>6. QED
      BY <1>2, <2>4, <2>5, ColumnsDone
  <1>8. CASE ~OnProduct(r)
    <2>1. table = categories /\ categories' = [categories EXCEPT ![r.id] = row] /\ products' = products
      BY <1>1, <1>2, <1>8 DEF TableOf
    <2>2. DOMAIN categories' = DOMAIN categories
          /\ \A k \in DOMAIN categories : categories'[k] = IF k = r.id THEN row ELSE categories[k]
      BY <1>6, <2>1 DEF SoundTables
    <2>3. row.key \in Names /\ row.price = 0
      <3>1. old.key \in Names /\ old.price = 0
        BY <1>1, <1>2, <2>1 DEF ColumnsInv, CategoryColumns
      <3>2. QED
        BY <1>3, <1>4, <1>5, <1>8, <3>1
    <2>4. CategoryColumns(categories')
      BY <2>2, <2>3, Zenon DEF ColumnsInv, CategoryColumns
    <2>5. ProductColumns(products')
      BY <2>1 DEF ColumnsInv
    <2>6. QED
      BY <1>2, <2>4, <2>5, ColumnsDone
  <1>9. QED
    BY <1>7, <1>8

LEMMA ColumnsStep == CatalogInv /\ ColumnsInv /\ [Next]_vars => ColumnsInv'
  <1> SUFFICES ASSUME CatalogInv, ColumnsInv, [Next]_vars PROVE ColumnsInv'
    OBVIOUS
  <1>1. ASSUME NEW c \in Clients,
               \/ CheckCategory(c) \/ CheckKey(c) \/ CheckNoActiveProducts(c)
               \/ RefusedByConstraint(c) \/ RequestAborted(c)
        PROVE  ColumnsInv'
    <2>1. pc[c] # <<>> /\ (Done(c) \/ GoOn(c)) /\ UNCHANGED rowVars
      BY <1>1 DEF CheckCategory, CheckKey, CheckNoActiveProducts, RefusedByConstraint,
                  RequestAborted, At
    <2>2. QED
      BY <2>1, ColumnsCheck
  <1>2. CASE UNCHANGED vars
    BY <1>2 DEF ColumnsInv, vars, rowVars
  <1>3. QED
    BY <1>1, <1>2, ColumnsBegin, ColumnsInsert, ColumnsUpdate DEF Next, Proceeds

\* The values that a row is made of
LEMMA RowOfColumns ==
    ASSUME NEW row \in TableRows, NEW top, NEW keys, row.key \in keys, row.price \in 0 .. top
    PROVE  row \in Rows(top, keys)
  BY Zenon DEF TableRows, Rows

LEMMA ColumnsTyped == CatalogInv /\ ColumnsInv => TypeOK
  <1> SUFFICES ASSUME CatalogInv, ColumnsInv PROVE TypeOK
    OBVIOUS
  <1>1. SoundTables(products, categories)
    BY DEF CatalogInv
  <1>2. products \in Seq(Rows(PriceLimit * 100 - 1, NormalSkus))
    <2>1. ASSUME NEW p \in DOMAIN products
          PROVE  products[p] \in Rows(PriceLimit * 100 - 1, NormalSkus)
      <3>1. products[p] \in TableRows
        BY <1>1 DEF SoundTables
      <3>2. products[p].key \in NormalSkus
        BY SkusAreNormal DEF ColumnsInv, ProductColumns
      <3>3. products[p].price \in 0 .. PriceLimit * 100 - 1
        BY CentsFit DEF ColumnsInv, ProductColumns
      <3>4. QED
        BY <3>1, <3>2, <3>3, RowOfColumns
    <2>2. QED
      BY <1>1, <2>1 DEF SoundTables
  <1>3. categories \in Seq(Rows(0, Names))
    <2>1. ASSUME NEW k \in DOMAIN categories PROVE categories[k] \in Rows(0, Names)
      <3>1. categories[k] \in TableRows
        BY <1>1 DEF SoundTables
      <3>2. categories[k].key \in Names /\ categories[k].price \in 0 .. 0
        BY DEF ColumnsInv, CategoryColumns
      <3>3. QED
        BY <3>1, <3>2, RowOfColumns
    <2>2. QED
      BY <1>1, <2>1 DEF SoundTables
  <1>4. \A p \in DOMAIN products : products[p].category \in {None} \cup DOMAIN categories
    BY <1>1, Zenon DEF SoundTables, InOwnCategory
  <1>5. \A c \in Clients : pc[c] # <<>> => req[c].id \in {None} \cup DOMAIN Table(req[c])
    BY Zenon DEF CatalogInv, SoundRequest, Table, TableOf
  <1>6. QED
    BY <1>2, <1>3, <1>4, <1>5 DEF TypeOK

\* Every row fits its table: a product's price its Numeric(12, 2) column, its
\* category exists and its SKU is the normal form of itself, whatever spelling
\* was sent.
THEOREM CatalogTypes == Spec => []TypeOK
  <1>1. Init => ColumnsInv
    BY DEF Init, ColumnsInv, ProductColumns, CategoryColumns
  <1>2. QED
    BY <1>1, ColumnsStep, ColumnsTyped, CatalogStaysSound, PTL DEF Spec

-----------------------------------------------------------------------------
(* The pages of the lists                                                  *)

LEMMA RowsAreOrdered ==
    ASSUME NEW table, NEW rows \in SUBSET Nat, NEW field \in {"is_active", "created_at"},
           NEW order, NEW before,
           before = [x \in rows |-> {y \in rows : RowBefore(table, field, order, y, x)}]
    PROVE  OrdersRows(before, rows)
  <1> PICK key : key = [x \in rows |-> SortKey(table[x], x, field)]
    OBVIOUS
  <1>1. ASSUME NEW x \in rows PROVE key[x] \in Int
    <2>1. CASE field = "is_active"
      BY <2>1 DEF SortKey
    <2>2. CASE field = "created_at"
      BY <2>2 DEF SortKey
    <2>3. QED
      BY <2>1, <2>2
  <1>2. ASSUME NEW x \in rows, NEW y \in rows
        PROVE  y \in before[x] <=>
                   IF key[y] = key[x] THEN y > x
                   ELSE IF order = "asc" THEN key[y] < key[x] ELSE key[y] > key[x]
    BY Zenon DEF RowBefore
  <1>3. \A x \in rows : before[x] \subseteq rows
    OBVIOUS
  <1>9. \A x \in rows : key[x] \in Int
    BY <1>1
  <1>10. \A x \in rows : \A y \in rows :
             y \in before[x] <=> IF key[y] = key[x] THEN y > x
                                ELSE IF order = "asc" THEN key[y] < key[x] ELSE key[y] > key[x]
    BY <1>2
  <1>4. \A x \in rows : x \notin before[x]
    <2>1. ASSUME NEW x \in rows, x \in before[x] PROVE FALSE
      <3>1. x > x
        BY <1>10, <2>1, Zenon
      <3>2. QED
        BY ONLY x \in rows, rows \in SUBSET Nat, <3>1
    <2>2. QED
      BY <2>1
  <1>5. \A x, y \in rows : x = y \/ x \in before[y] \/ y \in before[x]
    <2>1. ASSUME NEW x \in rows, NEW y \in rows, x # y PROVE x \in before[y] \/ y \in before[x]
      <3>1. x \in Nat /\ y \in Nat /\ key[x] \in Int /\ key[y] \in Int
        BY <1>9
      <3>2. /\ y \in before[x] <=> IF key[y] = key[x] THEN y > x
                                 ELSE IF order = "asc" THEN key[y] < key[x] ELSE key[y] > key[x]
            /\ x \in before[y] <=> IF key[x] = key[y] THEN x > y
                                 ELSE IF order = "asc" THEN key[x] < key[y] ELSE key[x] > key[y]
        BY <1>10, Zenon
      <3>3. QED
        BY ONLY x # y, <3>1, <3>2
    <2>2. QED
      BY <2>1
  <1>6. \A x, y, z \in rows : y \in before[x] /\ z \in before[y] => z \in before[x]
    BY ONLY rows \in SUBSET Nat, <1>9, <1>10
  <1>7. \A x \in rows : \A y \in before[x] : before[y] \subseteq before[x]
    BY ONLY <1>3, <1>6
  <1>8. QED
    BY ONLY <1>3, <1>4, <1>5, <1>7 DEF OrdersRows

\* The rows of a table by one column, and what its pages have to be
RowsInOrder(table, rows, field, order) ==
    LET before == [x \in rows |-> {y \in rows : RowBefore(table, field, order, y, x)}]
    IN [n \in 1 .. Cardinality(rows) |-> CHOOSE x \in rows : Cardinality(before[x]) = n - 1]

PagesAre(s, rows, limit) ==
    /\ Len(s) = Cardinality(rows)
    /\ ToSet(s) = rows
    /\ FlattenSeq([n \in 1 .. ((Len(s) + limit - 1) \div limit) |->
                      Page(s, limit, (n - 1) * limit)]) = s

LEMMA PagesOfRows ==
    ASSUME NEW table, NEW rows \in SUBSET Nat, IsFiniteSet(rows),
           NEW field \in {"is_active", "created_at"}, NEW order, NEW limit \in 1 .. MaxLimit
    PROVE  PagesAre(RowsInOrder(table, rows, field, order), rows, limit)
  <1>1. PICK before : before = [x \in rows |-> {y \in rows : RowBefore(table, field, order, y, x)}]
    OBVIOUS
  <1>2. OrdersRows(before, rows)
    BY <1>1, RowsAreOrdered, ZenonT(60)
  <1>3. PICK s : s = [n \in 1 .. Cardinality(rows) |->
                         CHOOSE x \in rows : Cardinality(before[x]) = n - 1]
    OBVIOUS
  <1>4. PICK read : read = [n \in 1 .. ((Len(s) + limit - 1) \div limit) |->
                               Page(s, limit, (n - 1) * limit)]
    OBVIOUS
  <1>5. limit \in Nat \ {0}
    BY MaxLimitAssumption
  <1>6. InOrder(s, before, rows) /\ Len(s) \in Nat
    <2>1. Cardinality(rows) \in Nat
      BY FS_CardinalityType
    <2>2. QED
      BY <1>3, <2>1 DEF InOrder
  <1>7. ReadInPages(read, s, limit)
    <2>1. PICK pages \in Nat : pages = (Len(s) + limit - 1) \div limit
      BY <1>5, <1>6, PageCount
    <2>2. ASSUME NEW n \in 1 .. pages
          PROVE  Page(s, limit, (n - 1) * limit)
                 = SubSeq(s, (n - 1) * limit + 1, PageEnd(Len(s), limit, n))
      <3>1. (n - 1) * limit + limit = n * limit
        BY <1>5, <2>1
      <3>2. QED
        BY <3>1, Zenon DEF Page, PageEnd
    <2>3. QED
      BY <1>4, <2>1, <2>2 DEF ReadInPages
  <1>8. Len(s) = Cardinality(rows) /\ ToSet(s) = rows /\ FlattenSeq(read) = s
    BY <1>2, <1>5, <1>6, <1>7, PagesOfRanks
  <1>9. s = RowsInOrder(table, rows, field, order)
    BY <1>1, <1>3 DEF RowsInOrder
  <1>10. QED
    BY <1>4, <1>8, <1>9, Zenon DEF PagesAre

\* A client that reads the pages of a list one after the other has every row of
\* it once: the orders are total, whatever column they begin with.
THEOREM PagesMakeUpTheLists == Spec => []PagesAreTheList
  <1>1. ASSUME TypeOK PROVE PagesAreTheList
    <2> SUFFICES ASSUME NEW user \in Users, NEW active \in BOOLEAN \cup {None},
                        NEW order \in {"asc", "desc"}, NEW field \in {"is_active", "created_at"},
                        NEW limit \in 1 .. MaxLimit
                 PROVE  /\ PagesMakeUp(ListedCategories(user, active),
                               LAMBDA i, j : RowBefore(categories, field, order, i, j), limit)
                        /\ \A category \in {None} \cup DOMAIN categories :
                               PagesMakeUp(
                                   ListedProducts(user, [category |-> category, active |-> active,
                                                         search |-> Skus]),
                                   LAMBDA i, j : RowBefore(products, field, order, i, j), limit)
      BY Zenon DEF PagesAreTheList
    <2>1. /\ DOMAIN categories \in SUBSET Nat /\ IsFiniteSet(DOMAIN categories)
          /\ DOMAIN products \in SUBSET Nat /\ IsFiniteSet(DOMAIN products)
      <3>1. PICK m, n : m = Len(categories) /\ n = Len(products)
        OBVIOUS
      <3>2. /\ m \in Nat /\ DOMAIN categories = 1 .. m
            /\ n \in Nat /\ DOMAIN products = 1 .. n
        BY <1>1, <3>1 DEF TypeOK
      <3>3. 1 \in Int /\ m \in Int /\ n \in Int
        BY <3>2
      <3>4. IsFiniteSet(1 .. m) /\ IsFiniteSet(1 .. n)
        BY <3>3, FS_Interval
      <3>5. QED
        BY <3>2, <3>4
    <2>2. PagesMakeUp(ListedCategories(user, active),
              LAMBDA i, j : RowBefore(categories, field, order, i, j), limit)
      <3>1. PICK rows : rows = ListedCategories(user, active)
        OBVIOUS
      <3>2. rows \in SUBSET DOMAIN categories
        BY <3>1, Zenon DEF ListedCategories
      <3>3. rows \in SUBSET Nat /\ IsFiniteSet(rows)
        BY <2>1, <3>2, FS_Subset
      <3>4. PICK s : s = RowsInOrder(categories, rows, field, order)
        OBVIOUS
      <3>5. PagesAre(s, rows, limit)
        BY <3>3, <3>4, PagesOfRows
      <3>6. s = Ordered(rows, LAMBDA i, j : RowBefore(categories, field, order, i, j))
        BY <3>4, Zenon DEF Ordered, RowsInOrder
      <3>7. PagesMakeUp(rows, LAMBDA i, j : RowBefore(categories, field, order, i, j), limit)
        BY <3>5, <3>6, Zenon DEF PagesMakeUp, PagesAre
      <3>8. QED
        BY <3>1, <3>7, Zenon
    <2>3. ASSUME NEW category \in {None} \cup DOMAIN categories
          PROVE  PagesMakeUp(
                     ListedProducts(user, [category |-> category, active |-> active,
                                           search |-> Skus]),
                     LAMBDA i, j : RowBefore(products, field, order, i, j), limit)
      <3>1. PICK rows : rows = ListedProducts(user, [category |-> category, active |-> active,
                                                     search |-> Skus])
        OBVIOUS
      <3>2. rows \in SUBSET DOMAIN products
        BY <3>1, Zenon DEF ListedProducts
      <3>3. rows \in SUBSET Nat /\ IsFiniteSet(rows)
        BY <2>1, <3>2, FS_Subset
      <3>4. PICK s : s = RowsInOrder(products, rows, field, order)
        OBVIOUS
      <3>5. PagesAre(s, rows, limit)
        BY <3>3, <3>4, PagesOfRows
      <3>6. s = Ordered(rows, LAMBDA i, j : RowBefore(products, field, order, i, j))
        BY <3>4, Zenon DEF Ordered, RowsInOrder
      <3>7. PagesMakeUp(rows, LAMBDA i, j : RowBefore(products, field, order, i, j), limit)
        BY <3>5, <3>6, Zenon DEF PagesMakeUp, PagesAre
      <3>8. QED
        BY <3>1, <3>7, Zenon
    <2>4. QED
      BY <2>2, <2>3, Zenon
  <1>2. QED
    BY <1>1, CatalogTypes, PTL
=============================================================================
