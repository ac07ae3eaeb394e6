------------------------ MODULE SalesRecords_proofs ------------------------
(***************************************************************************)
(* Proofs about SalesRecords and SalesAnalytics, for any users, products,  *)
(* files, dates and requests.  The records: a file is stored once, unless  *)
(* two uploads of it overlapped; a sale is of a product of its owner and   *)
(* fits its columns; a total that is not the client's is quantity times    *)
(* price to the nearest cent; the counters of a batch account for its      *)
(* file; a deleted sale never comes back (RecordsInv).  What is said of    *)
(* them: every screen shows the same sales; features at training and at    *)
(* prediction are the same; a run covers its horizon (ShownInv as well).   *)
(***************************************************************************)
EXTENDS SalesAnalytics, ListLemmas

-----------------------------------------------------------------------------
(* Files are stored once *)

\* An upload that is about to be stored has looked at the batches there were
\* when it began, and its file was not among them.
SoundUpload(B, r) ==
    /\ r.since \in 0 .. Len(B)
    /\ \A b \in 1 .. r.since : ~(B[b].owner = r.user /\ B[b].file = r.ask)

StoredAlone(B) ==
    \A a, b \in 1 .. Len(B) :
        a < b /\ B[a].owner = B[b].owner /\ B[a].file = B[b].file => B[b].since < a

UploadInv ==
    /\ DOMAIN pc = Clients /\ DOMAIN req = Clients
    /\ DOMAIN batches = 1 .. Len(batches) /\ Len(batches) \in Nat
    /\ StoredAlone(batches)
    /\ \A c \in Clients : pc[c] = "store" => SoundUpload(batches, req[c])

LEMMA InitUploads == Init => UploadInv
  BY DEF Init, UploadInv, StoredAlone

\* A request that begins or ends without a new batch; only an upload is stored
LEMMA RequestMoves ==
    ASSUME UploadInv, NEW c \in Clients, NEW label, NEW r, Goto(c, label, r),
           batches' = batches, label = "store" => SoundUpload(batches, r)
    PROVE  UploadInv'
  <1>1. /\ DOMAIN pc' = Clients /\ DOMAIN req' = Clients
        /\ pc'[c] = label /\ req'[c] = r
        /\ \A d \in Clients \ {c} : pc'[d] = pc[d] /\ req'[d] = req[d]
    BY DEF UploadInv, Goto
  <1>2. ASSUME NEW d \in Clients, pc'[d] = "store" PROVE SoundUpload(batches, req'[d])
    BY <1>1, <1>2 DEF UploadInv
  <1>3. QED
    BY <1>1, <1>2 DEF UploadInv

LEMMA RequestEnds ==
    ASSUME UploadInv, NEW c \in Clients, Done(c), batches' = batches
    PROVE  UploadInv'
  BY RequestMoves DEF Done

LEMMA UploadBegins ==
    ASSUME UploadInv, NEW c \in Clients, UploadBegin(c)
    PROVE  UploadInv'
  <1>1. PICK user \in Users, file \in Files :
           /\ Uploaded(user, file) = {} /\ batches' = batches
           /\ Goto(c, "store", [user |-> user, id |-> 0, seen |-> None, ask |-> file,
                                since |-> Len(batches)])
    BY DEF UploadBegin, rowVars
  <1>2. PICK r : r = [user |-> user, id |-> 0, seen |-> None, ask |-> file,
                      since |-> Len(batches)]
    OBVIOUS
  <1>3. \A b \in 1 .. Len(batches) : ~(batches[b].owner = user /\ batches[b].file = file)
    BY <1>1 DEF Uploaded
  <1>4. SoundUpload(batches, r)
    BY <1>2, <1>3 DEF SoundUpload, UploadInv
  <1>5. QED
    BY <1>1, <1>2, <1>4, RequestMoves

\* The new batch is the last one, so what its upload has seen is before it
LEMMA BatchStored ==
    ASSUME UploadInv, NEW c \in Clients, StoreBatch(c)
    PROVE  UploadInv'
  <1>1. PICK status, total, accepted, refused, reason :
           batches' = Append(batches,
               [owner |-> req[c].user, file |-> req[c].ask, status |-> status,
                total |-> total, accepted |-> accepted, rejected |-> refused,
                reason |-> reason, since |-> req[c].since])
    BY Zenon DEF StoreBatch
  <1>2. PICK batch :
           /\ batches' = Append(batches, batch)
           /\ batch.owner = req[c].user /\ batch.file = req[c].ask
           /\ batch.since = req[c].since
    BY <1>1
  <1>3. /\ DOMAIN batches' = 1 .. Len(batches') /\ Len(batches') = Len(batches) + 1
        /\ batches'[Len(batches) + 1] = batch
        /\ \A b \in 1 .. Len(batches) : batches'[b] = batches[b]
    BY <1>2 DEF UploadInv
  <1>4. SoundUpload(batches, req[c])
    BY DEF StoreBatch, UploadInv
  <1>5. StoredAlone(batches')
    <2> SUFFICES ASSUME NEW a \in 1 .. Len(batches'), NEW b \in 1 .. Len(batches'), a < b,
                        batches'[a].owner = batches'[b].owner,
                        batches'[a].file = batches'[b].file
                 PROVE  batches'[b].since < a
      BY DEF StoredAlone
    <2>1. CASE b = Len(batches) + 1
      <3>1. a \in 1 .. Len(batches) /\ batches'[a] = batches[a]
        BY <1>3, <2>1 DEF UploadInv
      <3>2. ~(a \in 1 .. req[c].since)
        BY <1>2, <1>3, <1>4, <2>1, <3>1 DEF SoundUpload
      <3>3. QED
        BY <1>2, <1>3, <1>4, <2>1, <3>1, <3>2 DEF SoundUpload, UploadInv
    <2>2. CASE b \in 1 .. Len(batches)
      BY <1>3, <2>2 DEF UploadInv, StoredAlone
    <2>3. QED
      BY <1>3, <2>1, <2>2 DEF UploadInv
  <1>6. /\ DOMAIN pc' = Clients /\ DOMAIN req' = Clients
        /\ \A d \in Clients : pc'[d] = "store" => pc[d] = "store" /\ req'[d] = req[d]
    BY DEF StoreBatch, Done, Goto, UploadInv
  <1>7. ASSUME NEW d \in Clients, pc'[d] = "store" PROVE SoundUpload(batches', req'[d])
    <2>1. SoundUpload(batches, req[d]) /\ req'[d] = req[d]
      BY <1>6, <1>7 DEF UploadInv
    <2>2. QED
      BY <1>3, <2>1 DEF SoundUpload, UploadInv
  <1>8. QED
    BY <1>3, <1>5, <1>6, <1>7 DEF UploadInv

LEMMA UploadStep == UploadInv /\ [Next]_vars => UploadInv'
  <1> SUFFICES ASSUME UploadInv, [Next]_vars PROVE UploadInv'
    OBVIOUS
  <1>1. ASSUME NEW c \in Clients, CreateTransaction(c) PROVE UploadInv'
    BY <1>1 DEF CreateTransaction, UploadInv
  <1>2. ASSUME NEW c \in Clients, PatchLoad(c) PROVE UploadInv'
    <2>1. PICK r : Goto(c, "patch", r) /\ batches' = batches
      BY <1>2, Zenon DEF PatchLoad, rowVars
    <2>2. QED
      BY <2>1, RequestMoves
  <1>3. ASSUME NEW c \in Clients, DeleteLoad(c) PROVE UploadInv'
    <2>1. PICK r : Goto(c, "delete", r) /\ batches' = batches
      BY <1>3, Zenon DEF DeleteLoad, rowVars
    <2>2. QED
      BY <2>1, RequestMoves
  <1>4. ASSUME NEW c \in Clients,
               \/ PatchWrite(c) \/ PatchOverflows(c) \/ DeleteWrite(c)
               \/ StoreOverflows(c) \/ RequestAborted(c)
        PROVE  UploadInv'
    <2>1. Done(c) /\ batches' = batches
      BY <1>4, Zenon
      DEF PatchWrite, PatchOverflows, DeleteWrite, StoreOverflows, RequestAborted, rowVars
    <2>2. QED
      BY <2>1, RequestEnds
  <1>5. CASE UNCHANGED vars
    BY <1>5 DEF UploadInv, vars, rowVars
  <1>6. QED
    BY <1>1, <1>2, <1>3, <1>4, <1>5, UploadBegins, BatchStored DEF Next, Begins, Proceeds

\* The look at the stored hashes has no constraint behind it, but it does not
\* miss what was there: only uploads that overlap store a file twice.
THEOREM FilesAreStoredOnce == Spec => []FilesStoredOnce
  <1>1. UploadInv => FilesStoredOnce
    BY DEF UploadInv, StoredAlone, FilesStoredOnce
  <1>2. QED
    BY <1>1, InitUploads, UploadStep, PTL DEF Spec

-----------------------------------------------------------------------------
(* Decimals and totals *)

\* A decimal with at most three places, in thousandths
LEMMA ThousandthsOf ==
    ASSUME NEW d \in Decimals, d.decimals <= 3
    PROVE  /\ Thousandths(d) \in Int
           /\ d.digits > 0 => Thousandths(d) >= 1
           /\ d.digits >= 0 => Thousandths(d) >= 0
  <1>1. d.digits \in Int /\ d.decimals \in {0, 1, 2, 3}
    BY DEF Decimals
  <1>2. Thousandths(d) = d.digits * 10 ^ (3 - d.decimals)
    BY DEF Thousandths, AtPrecision
  <1>3. 10 ^ (3 - d.decimals) \in Scales
    <2>1. 3 - d.decimals \in 0 .. 3
      BY <1>1
    <2>2. QED
      BY <2>1, PowersOfTen, Zenon
  <1>4. QED
    BY <1>1, <1>2, <1>3 DEF Scales

\* An amount with at most two places, in cents; no amount stays none
LEMMA CentsOf ==
    ASSUME NEW d \in Decimals \cup {None}, d # None => d.digits >= 0 /\ d.decimals <= 2
    PROVE  Cents(d) \in Nat \cup {None}
  <1>1. CASE d = None
    BY <1>1 DEF Cents
  <1>2. CASE d # None
    <2>1. d.digits \in Nat /\ d.decimals \in {0, 1, 2}
      BY <1>2 DEF Decimals
    <2>2. Cents(d) = d.digits * 10 ^ (2 - d.decimals)
      BY <1>2 DEF Cents, AtPrecision
    <2>3. 10 ^ (2 - d.decimals) \in Scales
      <3>1. 2 - d.decimals \in 0 .. 3
        BY <2>1
      <3>2. QED
        BY <3>1, PowersOfTen, Zenon
    <2>4. QED
      BY <2>1, <2>2, <2>3 DEF Scales
  <1>3. QED
    BY <1>1, <1>2

\* The rounding of Decimal.quantize is off by half a unit at most
Nearest(total, n) ==
    total \in Nat /\ -1000 <= 2 * (1000 * total - n) /\ 2 * (1000 * total - n) <= 1000

LEMMA HalfEvenRounds ==
    ASSUME NEW n \in Nat, NEW total, total = HalfEven(n, 1000)
    PROVE  Nearest(total, n)
  <1>1. /\ n \div 1000 \in Nat /\ n % 1000 \in 0 .. 999
        /\ n = 1000 * (n \div 1000) + (n % 1000)
    OBVIOUS
  <1>2. \/ /\ 2 * (n % 1000) >= 1000
           /\ total = (n \div 1000) + 1
        \/ /\ 2 * (n % 1000) <= 1000
           /\ total = n \div 1000
    BY <1>1 DEF HalfEven
  <1>3. QED
    BY <1>1, <1>2 DEF Nearest

\* calculate_total_amount: a total that is given is kept
LEMMA TotalOf ==
    ASSUME NEW q \in Nat, NEW p \in Nat \cup {None}, NEW t \in Nat \cup {None},
           NEW recalculate \in BOOLEAN
    PROVE  TotalAmount(q, p, t, recalculate) \in Nat \cup {None}
  <1>1. CASE p = None
    BY <1>1 DEF TotalAmount
  <1>2. CASE p # None
    <2>1. q * p \in Nat
      BY <1>2
    <2>2. HalfEven(q * p, 1000) \in Nat
      BY <2>1, HalfEvenRounds DEF Nearest
    <2>3. QED
      BY <1>2, <2>2 DEF TotalAmount
  <1>3. QED
    BY <1>1, <1>2
-----------------------------------------------------------------------------
(* The loop over the rows of a file *)

\* What the loop has taken after each of the first m rows
IsLoop(f, rows, positions, m) ==
    f = [n \in 0 .. m |->
            IF n = 0 THEN <<>>
            ELSE IF n \in positions THEN Append(f[n - 1], rows[n]) ELSE f[n - 1]]

LEMMA LoopExists ==
    ASSUME NEW rows, NEW positions, NEW m \in Nat
    PROVE  \E f : IsLoop(f, rows, positions, m)
  <1> DEFINE S == {k \in Nat : \E f : IsLoop(f, rows, positions, k)}
  <1>1. 0 \in S
    <2>1. IsLoop([n \in 0 .. 0 |-> <<>>], rows, positions, 0)
      BY DEF IsLoop
    <2>2. QED
      BY <2>1
  <1>2. ASSUME NEW k \in Nat, k \in S PROVE k + 1 \in S
    <2>1. PICK f : IsLoop(f, rows, positions, k)
      BY <1>2
    <2>2. PICK e : e = IF k + 1 \in positions THEN Append(f[k], rows[k + 1]) ELSE f[k]
      OBVIOUS
    <2>3. PICK g : g = [n \in 0 .. k + 1 |-> IF n = k + 1 THEN e ELSE f[n]]
      OBVIOUS
    <2>4. \A n \in 0 .. k : g[n] = f[n]
      BY <2>3
    <2>5. g[k + 1] = e /\ DOMAIN g = 0 .. k + 1
      BY <2>3
    <2>6. g[0] = <<>>
      BY <2>1, <2>4 DEF IsLoop
    <2>7. \A n \in 1 .. k + 1 :
             g[n] = IF n \in positions THEN Append(g[n - 1], rows[n]) ELSE g[n - 1]
      <3>1. ASSUME NEW n \in 1 .. k
            PROVE  g[n] = IF n \in positions THEN Append(g[n - 1], rows[n]) ELSE g[n - 1]
        <4>1. n \in 0 .. k /\ n # 0
          OBVIOUS
        <4>2. f[n] = IF n \in positions THEN Append(f[n - 1], rows[n]) ELSE f[n - 1]
          BY <2>1, <4>1, Zenon DEF IsLoop
        <4>3. g[n] = f[n] /\ g[n - 1] = f[n - 1]
          BY <2>4
        <4>4. QED
          BY <4>2, <4>3
      <3>2. g[k + 1] = IF k + 1 \in positions THEN Append(g[k], rows[k + 1]) ELSE g[k]
        BY <2>2, <2>4, <2>5
      <3>3. QED
        BY <3>1, <3>2
    <2>8. IsLoop(g, rows, positions, k + 1)
      BY <2>3, <2>6, <2>7, SMTT(40) DEF IsLoop
    <2>9. QED
      BY <2>8
  <1>3. QED
    BY <1>1, <1>2, NatSetInduction

\* The loop takes as many rows as there are positions, and nothing but them.
LEMMA TakenRows ==
    ASSUME NEW rows, IsList(rows), NEW positions \in SUBSET (1 .. Len(rows))
    PROVE  /\ IsList(Taken(rows, positions))
           /\ Len(Taken(rows, positions)) = Cardinality(positions)
           /\ \A k \in 1 .. Len(Taken(rows, positions)) :
                 \E n \in positions : Taken(rows, positions)[k] = rows[n]
  <1> DEFINE N == Len(rows)
             From(t, m) == /\ IsList(t)
                           /\ Len(t) = Cardinality(positions \cap (1 .. m))
                           /\ \A k \in 1 .. Len(t) : \E n \in positions : t[k] = rows[n]
  <1>1. N \in Nat
    BY DEF IsList
  <1>2. PICK f : IsLoop(f, rows, positions, N) /\ Taken(rows, positions) = f[N]
    <2>1. \E f : IsLoop(f, rows, positions, N)
      BY <1>1, LoopExists
    <2>2. QED
      BY <2>1 DEF Taken, IsLoop
  <1> DEFINE S == {m \in Nat : m <= N => From(f[m], m)}
  <1>3. 0 \in S
    <2>1. f[0] = <<>>
      BY <1>1, <1>2 DEF IsLoop
    <2>2. positions \cap (1 .. 0) = {}
      OBVIOUS
    <2>3. From(f[0], 0)
      BY <2>1, <2>2, EmptyList, FS_EmptySet
    <2>4. QED
      BY <2>3
  <1>4. ASSUME NEW m \in Nat, m \in S PROVE m + 1 \in S
    <2> SUFFICES ASSUME m + 1 <= N PROVE From(f[m + 1], m + 1)
      OBVIOUS
    <2>1. From(f[m], m)
      BY <1>1, <1>4
    <2>2. f[m + 1] = IF m + 1 \in positions THEN Append(f[m], rows[m + 1]) ELSE f[m]
      <3>1. m + 1 \in 0 .. N /\ m + 1 # 0 /\ (m + 1) - 1 = m
        BY <1>1
      <3>2. QED
        BY <1>2, <3>1 DEF IsLoop
    <2>3. /\ IsFiniteSet(positions \cap (1 .. m))
          /\ m + 1 \notin positions \cap (1 .. m)
      <3>1. IsFiniteSet(1 .. m)
        BY FS_Interval
      <3>2. QED
        BY <3>1, FS_Subset
    <2>4. CASE m + 1 \in positions
      <3>1. positions \cap (1 .. m + 1) = (positions \cap (1 .. m)) \cup {m + 1}
        BY <2>4
      <3>2. Cardinality(positions \cap (1 .. m + 1)) = Cardinality(positions \cap (1 .. m)) + 1
        BY <2>3, <3>1, FS_AddElement
      <3>3. PICK t : t = f[m] /\ f[m + 1] = Append(t, rows[m + 1])
        BY <2>2, <2>4
      <3>4. /\ IsList(f[m + 1]) /\ Len(f[m + 1]) = Len(t) + 1
            /\ f[m + 1][Len(t) + 1] = rows[m + 1]
            /\ \A i \in 1 .. Len(t) : f[m + 1][i] = t[i]
        BY <2>1, <3>3 DEF IsList
      <3>5. \A k \in 1 .. Len(f[m + 1]) : \E n \in positions : f[m + 1][k] = rows[n]
        <4> SUFFICES ASSUME NEW k \in 1 .. Len(f[m + 1])
                     PROVE  \E n \in positions : f[m + 1][k] = rows[n]
          OBVIOUS
        <4>1. k = Len(t) + 1 \/ k \in 1 .. Len(t)
          BY <2>1, <3>3, <3>4 DEF IsList
        <4>2. QED
          BY <2>1, <2>4, <3>3, <3>4, <4>1
      <3>6. QED
        BY <2>1, <3>2, <3>3, <3>4, <3>5
    <2>5. CASE m + 1 \notin positions
      <3>1. positions \cap (1 .. m + 1) = positions \cap (1 .. m)
        BY <2>5
      <3>2. QED
        BY <2>1, <2>2, <2>5, <3>1
    <2>6. QED
      BY <2>4, <2>5
  <1>5. N \in S
    BY <1>1, <1>3, <1>4, NatSetInduction
  <1>6. Cardinality(positions \cap (1 .. N)) = Cardinality(positions)
    <2>1. positions \cap (1 .. N) = positions
      OBVIOUS
    <2>2. QED
      BY <2>1
  <1>7. From(f[N], N)
    BY <1>1, <1>5
  <1>8. From(Taken(rows, positions), N)
    BY <1>2, <1>7, Zenon
  <1>9. QED
    BY <1>6, <1>8, Zenon

-----------------------------------------------------------------------------
(* The invariant *)

SaleFields == {"owner", "product", "batch", "date", "quantity", "price", "total", "source",
               "deleted", "given"}

\* A row of sales_transactions that the service may have written
SoundSale(s) ==
    /\ DOMAIN s = SaleFields
    /\ s.owner \in Users /\ s.product \in OwnProducts(s.owner)
    /\ s.quantity \in 1 .. QuantityLimit * 1000 - 1
    /\ s.price \in {None} \cup 0 .. PriceTop * 100 - 1
    /\ s.total \in {None} \cup 0 .. TotalTop * 100 - 1
    /\ s.deleted \in BOOLEAN

\* A total is the product to the nearest cent, and there is one if there is a price
IsProduct(total, quantity, price) ==
    /\ total = None <=> price = None
    /\ price # None => Nearest(total, quantity * price)

RightTotal(s) == ~s.given => IsProduct(s.total, s.quantity, s.price)

\* What a request that is about to change a sale has read of it
SoundChange(r) ==
    /\ r.id \in 1 .. Len(sales) /\ sales[r.id].owner = r.user
    /\ SoundSale(r.seen) /\ r.seen.owner = r.user /\ r.seen.deleted = FALSE

SoundPatch(r) ==
    /\ r.ask \in Patches /\ ValidPatch(r.ask)
    /\ r.ask.product \in OwnProducts(r.user) \cup {Keep, r.seen.product}

SoundFile(r) == r.user \in Users /\ r.ask \in Files /\ ParsesAsCsv(r.ask)

SoundRequest(c) ==
    /\ pc[c] \in {"idle", "patch", "delete", "store"}
    /\ pc[c] \in {"patch", "delete"} => SoundChange(req[c])
    /\ pc[c] = "patch" => SoundPatch(req[c])
    /\ pc[c] = "store" => SoundFile(req[c])

SoundRequests == /\ DOMAIN pc = Clients /\ DOMAIN req = Clients
                 /\ \A c \in Clients : SoundRequest(c)

SoundSales == /\ IsList(sales) /\ stale \subseteq 1 .. Len(sales)
              /\ \A i \in 1 .. Len(sales) :
                    /\ SoundSale(sales[i]) /\ sales[i].batch \in {None} \cup 1 .. Len(batches)
                    /\ i \in stale \/ RightTotal(sales[i])

SalesOfBatch(b) == {i \in 1 .. Len(sales) : sales[i].batch = b}
RejectedOfBatch(b) == {n \in 1 .. Len(rejected) : rejected[n].batch = b}

SoundBatch(b) ==
    /\ batches[b].accepted = Cardinality(SalesOfBatch(b))
    /\ batches[b].rejected = Cardinality(RejectedOfBatch(b))
    /\ batches[b].accepted + batches[b].rejected = batches[b].total
    /\ batches[b].total = Len(batches[b].file.rows)
    /\ batches[b].status = "completed" <=> batches[b].rejected = 0
    /\ batches[b].reason <=> batches[b].accepted = 0

SoundBatches == /\ IsList(batches) /\ IsList(rejected)
                /\ \A n \in 1 .. Len(rejected) : rejected[n].batch \in 1 .. Len(batches)
                /\ \A b \in 1 .. Len(batches) : SoundBatch(b)

RecordsInv == SoundSales /\ SoundRequests /\ SoundBatches

LEMMA SoundRow ==
    ASSUME NEW row, NEW sold, Rejection(row, sold) = None
    PROVE  /\ row.product_sku \in sold
           /\ CsvQuantity(row.quantity) /\ CsvMoney(row.unit_price) /\ CsvMoney(row.total_amount)
  BY SalesRulesAssumption DEF Rejection, RejectionCodes

-----------------------------------------------------------------------------
(* Sales that are inserted *)

\* A total that the service works out is the product
LEMMA TotalWorkedOut ==
    ASSUME NEW q \in Nat, NEW p \in Nat \cup {None}, NEW t
    PROVE  IsProduct(TotalAmount(q, p, t, TRUE), q, p)
  <1>1. CASE p = None
    BY <1>1 DEF TotalAmount, IsProduct
  <1>2. CASE p # None
    <2>1. PICK n \in Nat : n = q * p
      BY <1>2
    <2>2. PICK total : total = HalfEven(n, 1000)
      OBVIOUS
    <2>3. TotalAmount(q, p, t, TRUE) = total
      BY <1>2, <2>1, <2>2, SMT DEF TotalAmount
    <2>4. Nearest(total, n)
      BY <2>2, HalfEvenRounds
    <2>5. total # None
      BY <2>4, SalesRulesAssumption DEF Nearest
    <2>6. IsProduct(total, q, p)
      BY <1>2, <2>1, <2>4, <2>5, Zenon DEF IsProduct
    <2>7. QED
      BY <2>3, <2>6
  <1>3. QED
    BY <1>1, <1>2

\* So is the total of a new sale, or the client gave it
LEMMA TotalGivenOrRight ==
    ASSUME NEW q \in Nat, NEW p \in Nat \cup {None}, NEW t
    PROVE  t # None \/ IsProduct(TotalAmount(q, p, t, FALSE), q, p)
  <1> SUFFICES ASSUME t = None PROVE IsProduct(TotalAmount(q, p, t, FALSE), q, p)
    OBVIOUS
  <1>1. TotalAmount(q, p, t, FALSE) = TotalAmount(q, p, t, TRUE)
    BY SMT DEF TotalAmount
  <1>2. QED
    BY <1>1, TotalWorkedOut

LEMMA Bounded ==
    ASSUME NEW v \in Nat \cup {None}, NEW top \in Nat, v # None => v < top * 100
    PROVE  v \in {None} \cup 0 .. top * 100 - 1
  OBVIOUS

\* A row that has these columns and fits them is sound.
LEMMA FittingSale ==
    ASSUME NEW s, DOMAIN s = SaleFields, s.owner \in Users, s.product \in OwnProducts(s.owner),
           s.quantity \in Nat, s.quantity >= 1, s.price \in Nat \cup {None},
           s.total \in Nat \cup {None}, s.deleted \in BOOLEAN, FitsColumns(s)
    PROVE  SoundSale(s)
  <1>1. QuantityLimit \in Nat /\ PriceTop \in Nat /\ TotalTop \in Nat
    BY SalesRulesAssumption
  <1>2. s.price \in {None} \cup 0 .. PriceTop * 100 - 1
    BY <1>1, Bounded DEF FitsColumns
  <1>3. s.total \in {None} \cup 0 .. TotalTop * 100 - 1
    BY <1>1, Bounded DEF FitsColumns
  <1>4. s.quantity < QuantityLimit * 1000
    BY DEF FitsColumns
  <1>5. s.quantity \in 1 .. QuantityLimit * 1000 - 1
    BY <1>1, <1>4
  <1>6. QED
    BY <1>2, <1>3, <1>5, Zenon DEF SoundSale

\* s is a new row for q thousandths at the price p, with the total t if there is one
Inserted(s, user, product, batch, q, p, t) == \E date, source :
    s = Sale(user, product, batch, date, q, p, TotalAmount(q, p, t, FALSE), source, t # None)

SoundAmounts(q, p, t) ==
    q \in Nat /\ q >= 1 /\ p \in Nat \cup {None} /\ t \in Nat \cup {None}

LEMMA InsertedSale ==
    ASSUME NEW s, NEW user \in Users, NEW product \in OwnProducts(user), NEW batch,
           NEW q, NEW p, NEW t, SoundAmounts(q, p, t),
           Inserted(s, user, product, batch, q, p, t), FitsColumns(s)
    PROVE  SoundSale(s) /\ s.batch = batch /\ RightTotal(s)
  <1> USE DEF SoundAmounts
  <1>1. PICK total : total = TotalAmount(q, p, t, FALSE)
    OBVIOUS
  <1>2. total \in Nat \cup {None} /\ (t # None \/ IsProduct(total, q, p))
    BY <1>1, TotalOf, TotalGivenOrRight
  <1>3. PICK date, source, given :
           /\ given <=> t # None
           /\ s = Sale(user, product, batch, date, q, p, total, source, given)
    BY <1>1, Zenon DEF Inserted
  <1>4. /\ DOMAIN s = SaleFields
        /\ s.owner = user /\ s.product = product /\ s.batch = batch
        /\ s.quantity = q /\ s.price = p /\ s.total = total
        /\ s.deleted = FALSE /\ s.given = given
    <2>1. DOMAIN s = SaleFields
      BY <1>3, SMT DEF Sale, SaleFields
    <2>2. /\ s.owner = user /\ s.product = product /\ s.batch = batch
          /\ s.quantity = q /\ s.price = p /\ s.total = total
          /\ s.deleted = FALSE
      BY <1>3, SMT DEF Sale
    <2>3. s.given = given
      BY <1>3, Zenon DEF Sale
    <2>4. QED
      BY <2>1, <2>2, <2>3, Zenon
  <1>5. SoundSale(s)
    BY <1>2, <1>4, FittingSale
  <1>6. ~s.given => t = None
    BY <1>3, <1>4, Zenon
  <1>7. RightTotal(s)
    BY <1>2, <1>4, <1>6, Zenon DEF RightTotal
  <1>8. QED
    BY <1>4, <1>5, <1>7

LEMMA ManualSaleIsSound ==
    ASSUME NEW user \in Users, NEW new \in NewSales,
           ValidQuantity(new.quantity), ValidMoney(new.price), ValidMoney(new.total),
           new.product \in OwnProducts(user), FitsColumns(ManualSale(user, new))
    PROVE  LET s == ManualSale(user, new) IN
           SoundSale(s) /\ s.batch = None /\ RightTotal(s)
  <1>1. /\ new.quantity \in Decimals /\ new.price \in Decimals \cup {None}
        /\ new.total \in Decimals \cup {None}
    BY SalesAssumption
  <1>2. PICK q : q = Thousandths(new.quantity) /\ q \in Nat /\ q >= 1
    BY <1>1, ThousandthsOf DEF ValidQuantity
  <1>3. PICK p : p = Cents(new.price) /\ p \in Nat \cup {None}
    BY <1>1, CentsOf DEF ValidMoney
  <1>4. PICK t : t = Cents(new.total) /\ t \in Nat \cup {None}
    BY <1>1, CentsOf DEF ValidMoney
  <1>5. PICK s : s = ManualSale(user, new)
    OBVIOUS
  <1>6. Inserted(s, user, new.product, None, q, p, t) /\ SoundAmounts(q, p, t)
    BY <1>2, <1>3, <1>4, <1>5, Zenon DEF ManualSale, Inserted, SoundAmounts
  <1>7. SoundSale(s) /\ s.batch = None /\ RightTotal(s)
    <2>1. FitsColumns(s)
      BY <1>5, Zenon
    <2>2. QED
      BY <1>6, <2>1, InsertedSale, Zenon
  <1>8. QED
    BY <1>5, <1>7, Zenon

LEMMA CsvSaleIsSound ==
    ASSUME NEW user \in Users, NEW file \in Files, NEW n \in AcceptedAt(user, file), NEW batch,
           NEW s, s = CsvSale(user, batch, file.rows[n]), FitsColumns(s)
    PROVE  SoundSale(s) /\ s.batch = batch /\ RightTotal(s)
  <1>0. PICK row : row = file.rows[n]
    OBVIOUS
  <1>1. n \in DOMAIN file.rows /\ Rejection(row, SkusOf(user)) = None
    BY <1>0 DEF AcceptedAt
  <1>2. /\ row.product_sku \in SkusOf(user)
        /\ CsvQuantity(row.quantity) /\ CsvMoney(row.unit_price) /\ CsvMoney(row.total_amount)
    BY <1>1, SoundRow
  <1>3. /\ row.quantity \in Decimals \cup {None, Bad}
        /\ row.unit_price \in Decimals \cup {None, Bad}
        /\ row.total_amount \in Decimals \cup {None, Bad}
    BY <1>0, <1>1, SalesAssumption
  <1>4. PICK q : q = Thousandths(row.quantity) /\ q \in Nat /\ q >= 1
    BY <1>2, <1>3, ThousandthsOf DEF CsvQuantity
  <1>5. PICK p : p = Cents(row.unit_price) /\ p \in Nat \cup {None}
    BY <1>2, <1>3, CentsOf DEF CsvMoney
  <1>6. PICK t : t = Cents(row.total_amount) /\ t \in Nat \cup {None}
    BY <1>2, <1>3, CentsOf DEF CsvMoney
  <1>7. PICK product \in OwnProducts(user) : product = ProductOf(user, row.product_sku)
    <2>1. \E p_ \in OwnProducts(user) : Catalogue[p_].sku = row.product_sku
      BY <1>2 DEF SkusOf
    <2>2. QED
      BY <2>1 DEF ProductOf
  <1>8. s = CsvSale(user, batch, row)
    BY <1>0
  <1>9. Inserted(s, user, product, batch, q, p, t) /\ SoundAmounts(q, p, t)
    BY <1>4, <1>5, <1>6, <1>7, <1>8, Zenon DEF CsvSale, Inserted, SoundAmounts
  <1>10. QED
    BY <1>9, InsertedSale, Zenon

-----------------------------------------------------------------------------
(* Sales that are changed *)

PatchedFields == {"product", "date", "quantity", "price", "total", "given"}

\* What a valid PATCH makes of a sound sale: the total is the client's, or worked
\* out anew, or the product it was
LEMMA NormalizedSale ==
    ASSUME NEW patch \in Patches, ValidPatch(patch), NEW seen, SoundSale(seen),
           patch.product \in OwnProducts(seen.owner) \cup {Keep, seen.product},
           NEW new, new = NormalizeUpdate(patch, seen)
    PROVE  /\ DOMAIN new = PatchedFields
           /\ new.product \in OwnProducts(seen.owner)
           /\ new.quantity \in Nat /\ new.quantity >= 1
           /\ new.price \in Nat \cup {None} /\ new.total \in Nat \cup {None}
           /\ RightTotal(seen) /\ ~new.given => IsProduct(new.total, new.quantity, new.price)
  <1>1. /\ patch.quantity \in Decimals \cup {Keep}
        /\ patch.price \in Decimals \cup {None, Keep}
        /\ patch.total \in Decimals \cup {None, Keep}
    BY SalesAssumption
  <1>2. /\ seen.quantity \in Nat /\ seen.quantity >= 1
        /\ seen.price \in Nat \cup {None} /\ seen.total \in Nat \cup {None}
    <2>1. QuantityLimit \in Nat /\ PriceTop \in Nat /\ TotalTop \in Nat
      BY SalesRulesAssumption
    <2>2. QED
      BY <2>1 DEF SoundSale
  <1>3. PICK q : /\ q = (IF patch.quantity = Keep THEN seen.quantity ELSE Thousandths(patch.quantity))
                 /\ q \in Nat /\ q >= 1
    <2>1. CASE patch.quantity = Keep
      BY <1>2, <2>1
    <2>2. CASE patch.quantity # Keep
      <3>1. patch.quantity \in Decimals /\ ValidQuantity(patch.quantity)
        BY <1>1, <2>2 DEF ValidPatch
      <3>2. Thousandths(patch.quantity) \in Nat /\ Thousandths(patch.quantity) >= 1
        BY <3>1, ThousandthsOf DEF ValidQuantity
      <3>3. QED
        BY <2>2, <3>2
    <2>3. QED
      BY <2>1, <2>2
  <1>4. PICK p : /\ p = (IF patch.price = Keep THEN seen.price ELSE Cents(patch.price))
                 /\ p \in Nat \cup {None}
    <2>1. CASE patch.price = Keep
      BY <1>2, <2>1
    <2>2. CASE patch.price # Keep
      <3>1. patch.price \in Decimals \cup {None} /\ ValidMoney(patch.price)
        BY <1>1, <2>2 DEF ValidPatch
      <3>2. Cents(patch.price) \in Nat \cup {None}
        BY <3>1, CentsOf DEF ValidMoney
      <3>3. QED
        BY <2>2, <3>2
    <2>3. QED
      BY <2>1, <2>2
  <1>5. patch.total # Keep => Cents(patch.total) \in Nat \cup {None}
    <2>1. CASE patch.total # Keep
      <3>1. patch.total \in Decimals \cup {None} /\ ValidMoney(patch.total)
        BY <1>1, <2>1 DEF ValidPatch
      <3>2. QED
        BY <3>1, CentsOf DEF ValidMoney
    <2>2. QED
      BY <2>1
  <1>6. PICK recalculates \in BOOLEAN :
           recalculates = (patch.quantity # Keep \/ patch.price # Keep)
    BY Zenon
  <1>7. PICK t : t = IF patch.total # Keep THEN Cents(patch.total)
                     ELSE IF recalculates THEN TotalAmount(q, p, seen.total, TRUE)
                     ELSE seen.total
    OBVIOUS
  <1>8. PICK given, product, date :
           /\ given <=> patch.total # Keep \/ (seen.given /\ ~recalculates)
           /\ product = IF patch.product = Keep THEN seen.product ELSE patch.product
           /\ new = [product |-> product, date |-> date, quantity |-> q, price |-> p,
                     total |-> t, given |-> given]
    <2>1. new = NormalizedBy(patch, seen, recalculates)
      BY <1>6, Zenon DEF NormalizeUpdate
    <2>2. new = [product |-> IF patch.product = Keep THEN seen.product ELSE patch.product,
                 date |-> IF patch.date = Keep THEN seen.date ELSE patch.date,
                 quantity |-> q, price |-> p, total |-> t,
                 given |-> patch.total # Keep \/ (seen.given /\ ~recalculates)]
      BY ONLY <1>3, <1>4, <1>7, <2>1, Zenon DEF NormalizedBy
    <2>3. QED
      BY ONLY <2>2, Zenon
  <1>9. /\ DOMAIN new = PatchedFields /\ new.quantity = q /\ new.price = p /\ new.total = t
        /\ new.product = product
    BY <1>8, SMT DEF PatchedFields
  <1>10. new.given = given
    <2>1. new = [product |-> product, date |-> date, quantity |-> q, price |-> p,
                 total |-> t, given |-> given]
      BY <1>8, Zenon
    <2>2. QED
      BY ONLY <2>1, Zenon
  <1>11. new.product \in OwnProducts(seen.owner)
    BY <1>8, <1>9 DEF SoundSale
  <1>12. t \in Nat \cup {None}
    <2>1. TotalAmount(q, p, seen.total, TRUE) \in Nat \cup {None}
      BY <1>2, <1>3, <1>4, TotalOf
    <2>2. QED
      BY <1>2, <1>5, <1>7, <2>1, Zenon
  <1>13. ASSUME RightTotal(seen), ~new.given PROVE IsProduct(t, q, p)
    <2>1. patch.total = Keep /\ (recalculates \/ ~seen.given)
      BY <1>8, <1>10, <1>13, Zenon
    <2>2. CASE recalculates
      <3>1. t = TotalAmount(q, p, seen.total, TRUE)
        BY <1>7, <2>1, <2>2, Zenon
      <3>2. QED
        BY <1>3, <1>4, <3>1, TotalWorkedOut
    <2>3. CASE ~recalculates
      <3>1. t = seen.total /\ q = seen.quantity /\ p = seen.price
        BY <1>3, <1>4, <1>6, <1>7, <2>1, <2>3, Zenon
      <3>2. QED
        BY <1>13, <2>1, <2>3, <3>1, Zenon DEF RightTotal
    <2>4. QED
      BY <2>2, <2>3
  <1>14. QED
    BY <1>3, <1>4, <1>9, <1>11, <1>12, <1>13, Zenon

\* The UPDATE leaves owner, batch and deletion alone; over the row it was worked
\* out from, the total is right.
LEMMA PatchedSale ==
    ASSUME NEW patch \in Patches, ValidPatch(patch),
           NEW seen, SoundSale(seen), NEW row, SoundSale(row), row.owner = seen.owner,
           patch.product \in OwnProducts(seen.owner) \cup {Keep, seen.product},
           NEW changed, changed = Written(row, seen, NormalizeUpdate(patch, seen)),
           FitsColumns(changed)
    PROVE  /\ SoundSale(changed)
           /\ changed.owner = row.owner /\ changed.batch = row.batch
           /\ changed.deleted = row.deleted
           /\ row = seen /\ RightTotal(seen) => RightTotal(changed)
  <1>1. PICK new : new = NormalizeUpdate(patch, seen)
    OBVIOUS
  <1>2. /\ DOMAIN new = PatchedFields
        /\ new.product \in OwnProducts(seen.owner)
        /\ new.quantity \in Nat /\ new.quantity >= 1
        /\ new.price \in Nat \cup {None} /\ new.total \in Nat \cup {None}
        /\ RightTotal(seen) /\ ~new.given => IsProduct(new.total, new.quantity, new.price)
    BY <1>1, NormalizedSale
  <1>3. /\ DOMAIN changed = SaleFields
        /\ \A f \in SaleFields :
              changed[f] = IF f \in PatchedFields /\ new[f] # seen[f] THEN new[f] ELSE row[f]
    BY <1>1, <1>2, Zenon DEF Written, SoundSale
  <1>4. /\ changed.owner = row.owner /\ changed.batch = row.batch /\ changed.deleted = row.deleted
    <2>1. /\ "owner" \in SaleFields /\ "owner" \notin PatchedFields
          /\ "batch" \in SaleFields /\ "batch" \notin PatchedFields
          /\ "deleted" \in SaleFields /\ "deleted" \notin PatchedFields
      BY SMT DEF SaleFields, PatchedFields
    <2>2. QED
      BY <1>3, <2>1, Zenon
  <1>5. PatchedFields \subseteq SaleFields
    BY DEF PatchedFields, SaleFields
  <1>6. \A f \in PatchedFields : changed[f] = new[f] \/ changed[f] = row[f]
    BY <1>3, <1>5, Zenon
  <1>7. /\ "product" \in PatchedFields /\ "quantity" \in PatchedFields
        /\ "price" \in PatchedFields /\ "total" \in PatchedFields /\ "given" \in PatchedFields
    BY SMT DEF PatchedFields
  <1>8. /\ changed.product \in {new.product, row.product}
        /\ changed.quantity \in {new.quantity, row.quantity}
        /\ changed.price \in {new.price, row.price}
        /\ changed.total \in {new.total, row.total}
    BY <1>6, <1>7, Zenon
  <1>9. /\ row.quantity \in Nat /\ row.quantity >= 1
        /\ row.price \in Nat \cup {None} /\ row.total \in Nat \cup {None}
        /\ row.product \in OwnProducts(row.owner) /\ row.owner \in Users
        /\ row.deleted \in BOOLEAN
    <2>1. QuantityLimit \in Nat /\ PriceTop \in Nat /\ TotalTop \in Nat
      BY SalesRulesAssumption
    <2>2. QED
      BY <2>1 DEF SoundSale
  <1>10. SoundSale(changed)
    <2>1. changed.product \in OwnProducts(changed.owner) /\ changed.owner \in Users
      BY <1>2, <1>4, <1>8, <1>9
    <2>2. changed.quantity \in Nat /\ changed.quantity >= 1
      BY <1>2, <1>8, <1>9
    <2>3. changed.price \in Nat \cup {None} /\ changed.total \in Nat \cup {None}
      BY <1>2, <1>8, <1>9
    <2>4. changed.deleted \in BOOLEAN
      BY <1>4, <1>9, Zenon
    <2>5. QED
      BY <1>3, <2>1, <2>2, <2>3, <2>4, FittingSale, Zenon
  <1>11. ASSUME row = seen, RightTotal(seen), ~changed.given
         PROVE  IsProduct(changed.total, changed.quantity, changed.price)
    <2>1. \A f \in PatchedFields : changed[f] = new[f]
      BY <1>3, <1>5, <1>11, Zenon
    <2>2. /\ changed.quantity = new.quantity /\ changed.price = new.price
          /\ changed.total = new.total /\ changed.given = new.given
      BY <1>7, <2>1, Zenon
    <2>3. QED
      BY <1>2, <1>11, <2>2, Zenon
  <1>12. QED
    BY <1>4, <1>10, <1>11, Zenon DEF RightTotal

-----------------------------------------------------------------------------
(* Steps that leave parts of the state alone *)

SameOwners == \A i \in 1 .. Len(sales) : i \in 1 .. Len(sales') /\ sales'[i].owner = sales[i].owner

LEMMA RequestsStay ==
    ASSUME SoundRequests, UNCHANGED <<pc, req>>, SameOwners
    PROVE  SoundRequests'
  <1>1. pc' = pc /\ req' = req
    OBVIOUS
  <1>2. ASSUME NEW c \in Clients, SoundChange(req[c]) PROVE SoundChange(req[c])'
    BY <1>1, <1>2 DEF SoundChange, SameOwners
  <1>3. ASSUME NEW c \in Clients PROVE SoundRequest(c)'
    <2>1. SoundRequest(c)
      BY DEF SoundRequests
    <2>2. (SoundPatch(req[c]) => SoundPatch(req[c])') /\ (SoundFile(req[c]) => SoundFile(req[c])')
      BY <1>1 DEF SoundPatch, SoundFile
    <2>3. QED
      BY <1>1, <1>2, <2>1, <2>2 DEF SoundRequest
  <1>4. QED
    BY <1>1, <1>3 DEF SoundRequests

LEMMA RequestGoes ==
    ASSUME SoundRequests, NEW c \in Clients, NEW label, NEW r, Goto(c, label, r), SameOwners,
           label \in {"idle", "patch", "delete", "store"},
           label \in {"patch", "delete"} => SoundChange(r)',
           label = "patch" => SoundPatch(r), label = "store" => SoundFile(r)
    PROVE  SoundRequests'
  <1>1. /\ DOMAIN pc' = Clients /\ DOMAIN req' = Clients
        /\ pc'[c] = label /\ req'[c] = r
        /\ \A d \in Clients \ {c} : pc'[d] = pc[d] /\ req'[d] = req[d]
    BY DEF SoundRequests, Goto
  <1>2. ASSUME NEW d \in Clients PROVE SoundRequest(d)'
    <2>1. CASE d = c
      <3>1. pc'[d] = label /\ req'[d] = r
        BY <1>1, <2>1
      <3>2. QED
        BY <3>1 DEF SoundRequest, SoundChange, SoundPatch, SoundFile
    <2>2. CASE d # c
      <3>1. pc'[d] = pc[d] /\ req'[d] = req[d] /\ SoundRequest(d)
        BY <1>1, <2>2 DEF SoundRequests
      <3>2. SoundChange(req[d]) => SoundChange(req[d])'
        BY <3>1 DEF SoundChange, SameOwners
      <3>3. QED
        BY <3>1, <3>2 DEF SoundRequest, SoundPatch, SoundFile
    <2>3. QED
      BY <2>1, <2>2
  <1>3. QED
    BY <1>1, <1>2 DEF SoundRequests

LEMMA RequestIsOver ==
    ASSUME SoundRequests, NEW c \in Clients, Done(c), SameOwners
    PROVE  SoundRequests'
  <1>1. Goto(c, "idle", NoRequest)
    BY DEF Done
  <1>2. QED
    BY <1>1, RequestGoes

LEMMA BatchesStay ==
    ASSUME SoundBatches, UNCHANGED <<batches, rejected>>,
           \A b \in 1 .. Len(batches) : SalesOfBatch(b)' = SalesOfBatch(b)
    PROVE  SoundBatches'
  <1>1. batches' = batches /\ rejected' = rejected
    OBVIOUS
  <1>2. ASSUME NEW b \in 1 .. Len(batches) PROVE SoundBatch(b)'
    <2>1. SoundBatch(b) /\ SalesOfBatch(b)' = SalesOfBatch(b)
      BY DEF SoundBatches
    <2>2. RejectedOfBatch(b)' = RejectedOfBatch(b)
      BY <1>1 DEF RejectedOfBatch
    <2>3. QED
      BY <1>1, <2>1, <2>2 DEF SoundBatch
  <1>3. QED
    BY <1>1, <1>2 DEF SoundBatches

\* A request that reads, or ends without a write
LEMMA RowsStay ==
    ASSUME RecordsInv, UNCHANGED rowVars
    PROVE  SoundSales' /\ SoundBatches' /\ SameOwners
  <1>1. sales' = sales /\ batches' = batches /\ rejected' = rejected /\ stale' = stale
    BY DEF rowVars
  <1>2. SoundSales'
    BY <1>1 DEF RecordsInv, SoundSales
  <1>3. SoundBatches'
    <2>1. \A b \in 1 .. Len(batches) : SalesOfBatch(b)' = SalesOfBatch(b)
      BY <1>1 DEF SalesOfBatch
    <2>2. QED
      BY <1>1, <2>1, BatchesStay DEF RecordsInv
  <1>4. QED
    BY <1>1, <1>2, <1>3 DEF SameOwners

-----------------------------------------------------------------------------
(* One step *)

LEMMA SaleCreated ==
    ASSUME RecordsInv, NEW c \in Clients, CreateTransaction(c)
    PROVE  RecordsInv'
  <1>1. PICK user \in Users, new \in NewSales :
           /\ ValidQuantity(new.quantity) /\ ValidMoney(new.price) /\ ValidMoney(new.total)
           /\ new.product \in OwnProducts(user)
           /\ FitsColumns(ManualSale(user, new))
           /\ sales' = Append(sales, ManualSale(user, new))
           /\ UNCHANGED <<batches, rejected, stale, pc, req>>
    BY Zenon DEF CreateTransaction
  <1>2. PICK s : s = ManualSale(user, new)
    OBVIOUS
  <1>3. SoundSale(s) /\ s.batch = None /\ RightTotal(s)
    BY <1>1, <1>2, ManualSaleIsSound, Zenon
  <1>4. /\ IsList(sales') /\ Len(sales') = Len(sales) + 1
        /\ sales'[Len(sales) + 1] = s
        /\ \A i \in 1 .. Len(sales) : sales'[i] = sales[i]
    BY <1>1, <1>2 DEF RecordsInv, SoundSales, IsList
  <1>5. Len(sales) \in Nat /\ Len(batches) \in Nat
    BY DEF RecordsInv, SoundSales, SoundBatches, IsList
  <1>6. SameOwners
    BY <1>4, <1>5 DEF SameOwners
  <1>7. SoundSales'
    <2>1. stale' \subseteq 1 .. Len(sales')
      BY <1>1, <1>4, <1>5 DEF RecordsInv, SoundSales
    <2>2. ASSUME NEW i \in 1 .. Len(sales')
          PROVE  /\ SoundSale(sales'[i]) /\ sales'[i].batch \in {None} \cup 1 .. Len(batches')
                 /\ i \in stale' \/ RightTotal(sales'[i])
      <3>1. CASE i = Len(sales) + 1
        BY <1>3, <1>4, <3>1, Zenon
      <3>2. CASE i \in 1 .. Len(sales)
        BY <1>1, <1>4, <3>2, Zenon DEF RecordsInv, SoundSales
      <3>3. QED
        BY <1>4, <1>5, <3>1, <3>2
    <2>3. QED
      BY <1>4, <2>1, <2>2, Zenon DEF SoundSales
  <1>8. SoundRequests'
    BY <1>1, <1>6, RequestsStay DEF RecordsInv
  <1>9. SoundBatches'
    <2>1. ASSUME NEW b \in 1 .. Len(batches) PROVE SalesOfBatch(b)' = SalesOfBatch(b)
      <3>1. sales'[Len(sales) + 1].batch # b
        BY <1>3, <1>4, SalesRulesAssumption
      <3>2. QED
        BY <1>4, <1>5, <3>1 DEF SalesOfBatch
    <2>2. QED
      BY <1>1, <2>1, BatchesStay DEF RecordsInv
  <1>10. QED
    BY <1>7, <1>8, <1>9 DEF RecordsInv

LEMMA PatchLoaded ==
    ASSUME RecordsInv, NEW c \in Clients, PatchLoad(c)
    PROVE  RecordsInv'
  <1>1. PICK user \in Users, i \in 1 .. Len(sales), patch \in Patches :
           /\ sales[i].owner = user /\ ~sales[i].deleted
           /\ patch.product \in OwnProducts(user) \cup {Keep, sales[i].product}
           /\ ValidPatch(patch)
           /\ Goto(c, "patch", [user |-> user, id |-> i, seen |-> sales[i], ask |-> patch,
                                since |-> 0])
           /\ UNCHANGED rowVars
    BY Zenon DEF PatchLoad
  <1>2. PICK s, r : s = sales[i] /\ r = [user |-> user, id |-> i, seen |-> s, ask |-> patch, since |-> 0]
    OBVIOUS
  <1>3. r.user = user /\ r.id = i /\ r.seen = s /\ r.ask = patch
    BY <1>2
  <1>4. SoundSales' /\ SoundBatches' /\ SameOwners
    BY <1>1, RowsStay
  <1>5. s.deleted = FALSE
    <2>1. s.deleted \in BOOLEAN
      BY <1>2 DEF RecordsInv, SoundSales, SoundSale
    <2>2. ~s.deleted
      BY <1>1, <1>2, Zenon
    <2>3. QED
      BY <2>1, <2>2, Zenon
  <1>6. SoundChange(r)'
    <2>1. sales' = sales
      BY <1>1 DEF rowVars
    <2>2. QED
      BY <1>1, <1>2, <1>3, <1>5, <2>1 DEF SoundChange, RecordsInv, SoundSales
  <1>7. SoundPatch(r)
    BY <1>1, <1>2, <1>3 DEF SoundPatch
  <1>8. Goto(c, "patch", r)
    BY <1>1, <1>2, Zenon
  <1>9. SoundRequests'
    BY <1>4, <1>6, <1>7, <1>8, RequestGoes DEF RecordsInv
  <1>10. QED
    BY <1>4, <1>9 DEF RecordsInv

LEMMA DeleteLoaded ==
    ASSUME RecordsInv, NEW c \in Clients, DeleteLoad(c)
    PROVE  RecordsInv'
  <1>1. PICK user \in Users, i \in 1 .. Len(sales) :
           /\ sales[i].owner = user /\ ~sales[i].deleted
           /\ Goto(c, "delete", [user |-> user, id |-> i, seen |-> sales[i], ask |-> None,
                                 since |-> 0])
           /\ UNCHANGED rowVars
    BY Zenon DEF DeleteLoad
  <1>2. PICK s, r : s = sales[i] /\ r = [user |-> user, id |-> i, seen |-> s, ask |-> None, since |-> 0]
    OBVIOUS
  <1>3. r.user = user /\ r.id = i /\ r.seen = s
    BY <1>2
  <1>4. SoundSales' /\ SoundBatches' /\ SameOwners
    BY <1>1, RowsStay
  <1>5. s.deleted = FALSE
    <2>1. s.deleted \in BOOLEAN
      BY <1>2 DEF RecordsInv, SoundSales, SoundSale
    <2>2. ~s.deleted
      BY <1>1, <1>2, Zenon
    <2>3. QED
      BY <2>1, <2>2, Zenon
  <1>6. SoundChange(r)'
    <2>1. sales' = sales
      BY <1>1 DEF rowVars
    <2>2. QED
      BY <1>1, <1>2, <1>3, <1>5, <2>1 DEF SoundChange, RecordsInv, SoundSales
  <1>7. Goto(c, "delete", r)
    BY <1>1, <1>2, Zenon
  <1>8. SoundRequests'
    BY <1>4, <1>6, <1>7, RequestGoes DEF RecordsInv
  <1>9. QED
    BY <1>4, <1>8 DEF RecordsInv

LEMMA UploadBegun ==
    ASSUME RecordsInv, NEW c \in Clients, UploadBegin(c)
    PROVE  RecordsInv'
  <1>1. PICK user \in Users, file \in Files :
           /\ ParsesAsCsv(file)
           /\ Goto(c, "store", [user |-> user, id |-> 0, seen |-> None, ask |-> file,
                                since |-> Len(batches)])
           /\ UNCHANGED rowVars
    BY Zenon DEF UploadBegin
  <1>2. PICK r : r = [user |-> user, id |-> 0, seen |-> None, ask |-> file, since |-> Len(batches)]
    OBVIOUS
  <1>3. r.user = user /\ r.ask = file
    BY <1>2
  <1>4. SoundSales' /\ SoundBatches' /\ SameOwners
    BY <1>1, RowsStay
  <1>5. SoundFile(r)
    BY <1>1, <1>3 DEF SoundFile
  <1>6. Goto(c, "store", r)
    BY <1>1, <1>2, Zenon
  <1>7. SoundRequests'
    BY <1>4, <1>5, <1>6, RequestGoes DEF RecordsInv
  <1>8. QED
    BY <1>4, <1>7 DEF RecordsInv

\* A request that is refused or aborted leaves the rows
LEMMA RequestFails ==
    ASSUME RecordsInv, NEW c \in Clients, Done(c), UNCHANGED rowVars
    PROVE  RecordsInv'
  BY RowsStay, RequestIsOver DEF RecordsInv

\* A sound row over the one a request has loaded; the total has to be right only
\* where nobody else changed the row meanwhile.
LEMMA RowWritten ==
    ASSUME RecordsInv, NEW c \in Clients, pc[c] \in {"patch", "delete"}, NEW row,
           SoundSale(row), row.owner = sales[req[c].id].owner,
           row.batch = sales[req[c].id].batch,
           sales[req[c].id] = req[c].seen /\ RightTotal(req[c].seen) => RightTotal(row),
           Write(c, row), Done(c), UNCHANGED <<batches, rejected>>
    PROVE  RecordsInv'
  <1>1. PICK k \in 1 .. Len(sales) : k = req[c].id
    BY DEF RecordsInv, SoundRequests, SoundRequest, SoundChange
  <1>2. /\ sales' = [sales EXCEPT ![k] = row]
        /\ stale' = IF sales[k] = req[c].seen THEN stale ELSE stale \cup {k}
    BY <1>1, Zenon DEF Write
  <1>3. /\ IsList(sales') /\ Len(sales') = Len(sales)
        /\ sales'[k] = row
        /\ \A i \in (1 .. Len(sales)) \ {k} : sales'[i] = sales[i]
    <2>1. IsList(sales)
      BY DEF RecordsInv, SoundSales
    <2>2. QED
      BY <1>2, <2>1 DEF IsList
  <1>4. SameOwners
    BY <1>1, <1>3 DEF SameOwners
  <1>5. SoundSales'
    <2>1. stale' \subseteq 1 .. Len(sales')
      BY <1>2, <1>3 DEF RecordsInv, SoundSales
    <2>2. ASSUME NEW i \in 1 .. Len(sales')
          PROVE  /\ SoundSale(sales'[i]) /\ sales'[i].batch \in {None} \cup 1 .. Len(batches')
                 /\ i \in stale' \/ RightTotal(sales'[i])
      <3>1. CASE i = k
        <4>1. sales'[i] = row /\ row.batch \in {None} \cup 1 .. Len(batches')
          BY <1>1, <1>3, <3>1, Zenon DEF RecordsInv, SoundSales
        <4>2. k \in stale' \/ RightTotal(row)
          <5>1. CASE sales[k] = req[c].seen /\ k \notin stale
            <6>1. RightTotal(sales[k])
              BY <5>1, Zenon DEF RecordsInv, SoundSales
            <6>2. QED
              BY <1>1, <5>1, <6>1, Zenon
          <5>2. CASE sales[k] # req[c].seen
            BY <1>2, <5>2
          <5>3. CASE k \in stale
            BY <1>2, <5>3
          <5>4. QED
            BY <5>1, <5>2, <5>3
        <4>3. QED
          BY <3>1, <4>1, <4>2, Zenon
      <3>2. CASE i # k
        <4>1. i \in 1 .. Len(sales) /\ sales'[i] = sales[i] /\ (i \in stale => i \in stale')
          BY <1>2, <1>3, <3>2
        <4>2. QED
          BY <4>1, Zenon DEF RecordsInv, SoundSales
      <3>3. QED
        BY <3>1, <3>2
    <2>3. QED
      BY <1>3, <2>1, <2>2, Zenon DEF SoundSales
  <1>6. SoundRequests'
    BY <1>4, RequestIsOver DEF RecordsInv
  <1>7. SoundBatches'
    <2>1. \A b \in 1 .. Len(batches) : SalesOfBatch(b)' = SalesOfBatch(b)
      BY <1>1, <1>3 DEF SalesOfBatch
    <2>2. QED
      BY <2>1, BatchesStay DEF RecordsInv
  <1>8. QED
    BY <1>5, <1>6, <1>7 DEF RecordsInv

\* What a request that is about to write knows of the row and of what it read
LEMMA LoadedBefore ==
    ASSUME RecordsInv, NEW c \in Clients, pc[c] \in {"patch", "delete"}
    PROVE  /\ req[c].id \in 1 .. Len(sales)
           /\ SoundSale(sales[req[c].id]) /\ SoundSale(req[c].seen)
           /\ sales[req[c].id].owner = req[c].user /\ req[c].seen.owner = req[c].user
           /\ req[c].seen.deleted = FALSE
           /\ pc[c] = "patch" => SoundPatch(req[c])
  BY DEF RecordsInv, SoundSales, SoundRequests, SoundRequest, SoundChange

LEMMA PatchWritten ==
    ASSUME RecordsInv, NEW c \in Clients, PatchWrite(c)
    PROVE  /\ RecordsInv'
           /\ \E row : Write(c, row) /\ row.deleted = sales[req[c].id].deleted
  <1>1. PICK old, seen, patch, row :
           /\ old = sales[req[c].id] /\ seen = req[c].seen /\ patch = req[c].ask
           /\ row = Written(old, seen, NormalizeUpdate(patch, seen))
    OBVIOUS
  <1>2. pc[c] = "patch" /\ FitsColumns(row) /\ Write(c, row) /\ Done(c)
    BY <1>1, Zenon DEF PatchWrite
  <1>3. /\ SoundSale(old) /\ SoundSale(seen) /\ old.owner = seen.owner
        /\ patch \in Patches /\ ValidPatch(patch)
        /\ patch.product \in OwnProducts(seen.owner) \cup {Keep, seen.product}
    BY <1>1, <1>2, LoadedBefore DEF SoundPatch
  <1>4. /\ SoundSale(row) /\ row.owner = old.owner /\ row.batch = old.batch
        /\ row.deleted = old.deleted
        /\ old = seen /\ RightTotal(seen) => RightTotal(row)
    BY <1>1, <1>2, <1>3, PatchedSale
  <1>5. UNCHANGED <<batches, rejected>>
    BY DEF PatchWrite
  <1>6. RecordsInv'
    BY <1>1, <1>2, <1>4, <1>5, RowWritten
  <1>7. QED
    BY <1>1, <1>2, <1>4, <1>6

LEMMA DeleteWritten ==
    ASSUME RecordsInv, NEW c \in Clients, DeleteWrite(c)
    PROVE  /\ RecordsInv'
           /\ \E row : Write(c, row) /\ row.deleted = TRUE
  <1>1. PICK old, row : old = sales[req[c].id] /\ row = [old EXCEPT !.deleted = TRUE]
    OBVIOUS
  <1>2. pc[c] = "delete" /\ Write(c, row) /\ Done(c) /\ UNCHANGED <<batches, rejected>>
    BY <1>1, Zenon DEF DeleteWrite
  <1>3. SoundSale(old)
    BY <1>1, <1>2, LoadedBefore
  <1>4. /\ DOMAIN row = SaleFields /\ row.deleted = TRUE
        /\ \A f \in SaleFields \ {"deleted"} : row[f] = old[f]
    BY <1>1, <1>3 DEF SoundSale, SaleFields
  <1>5. /\ row.owner = old.owner /\ row.product = old.product /\ row.batch = old.batch
        /\ row.quantity = old.quantity /\ row.price = old.price /\ row.total = old.total
        /\ row.given = old.given
    BY <1>4, SMT DEF SaleFields
  <1>6. SoundSale(row)
    <2>1. row.deleted \in BOOLEAN
      BY <1>4
    <2>2. QED
      BY <1>3, <1>4, <1>5, <2>1 DEF SoundSale
  <1>7. RightTotal(old) => RightTotal(row)
    BY <1>5, Zenon DEF RightTotal
  <1>8. RecordsInv'
    BY <1>1, <1>2, <1>5, <1>6, <1>7, RowWritten
  <1>9. QED
    BY <1>2, <1>4, <1>8

-----------------------------------------------------------------------------
(* A file is stored *)

\* Every row is accepted or refused
LEMMA RowsSplit ==
    ASSUME NEW user, NEW file \in Files
    PROVE  /\ IsList(Accepted(user, file)) /\ IsList(Refused(user, file))
           /\ Len(Accepted(user, file)) + Len(Refused(user, file)) = Len(file.rows)
           /\ \A k \in 1 .. Len(Accepted(user, file)) :
                 \E n \in AcceptedAt(user, file) : Accepted(user, file)[k] = file.rows[n]
  <1> DEFINE all == 1 .. Len(file.rows)
             good == AcceptedAt(user, file)
  <1>1. IsList(file.rows) /\ DOMAIN file.rows = all /\ Len(file.rows) \in Nat
    BY SalesAssumption DEF IsList
  <1>2. good \in SUBSET all /\ all \ good \in SUBSET all
    BY <1>1 DEF AcceptedAt
  <1>3. /\ IsList(Accepted(user, file)) /\ Len(Accepted(user, file)) = Cardinality(good)
        /\ \A k \in 1 .. Len(Accepted(user, file)) :
              \E n \in good : Accepted(user, file)[k] = file.rows[n]
    BY <1>1, <1>2, TakenRows, Zenon DEF Accepted
  <1>4. IsList(Refused(user, file)) /\ Len(Refused(user, file)) = Cardinality(all \ good)
    BY <1>1, <1>2, TakenRows, Zenon DEF Refused
  <1>5. Cardinality(good) + Cardinality(all \ good) = Len(file.rows)
    <2>1. IsFiniteSet(all) /\ Cardinality(all) = Len(file.rows)
      BY <1>1, FS_Interval
    <2>2. all \cap good = good
      BY <1>2
    <2>3. Cardinality(all \ good) = Cardinality(all) - Cardinality(good)
      <3>1. Cardinality(all \ good) = Cardinality(all) - Cardinality(all \cap good)
        BY ONLY <2>1, FS_Difference, Zenon
      <3>2. QED
        BY ONLY <2>2, <3>1, Zenon
    <2>4. IsFiniteSet(good)
      BY <1>2, <2>1, FS_Subset
    <2>5. Cardinality(good) \in Nat
      BY <2>4, FS_CardinalityType
    <2>6. QED
      BY <1>1, <2>1, <2>3, <2>5
  <1>6. QED
    BY <1>3, <1>4, <1>5, Zenon

\* A list that is continued by rows of the next batch: the rows of the batches
\* before it stay, those of the next one are as many as were added.
RowsOf(list, b) == {i \in 1 .. Len(list) : list[i].batch = b}

LEMMA RowsContinued ==
    ASSUME NEW old, NEW added, IsList(old), IsList(added), NEW next \in Nat,
           \A i \in 1 .. Len(old) : old[i].batch # next,
           \A i \in 1 .. Len(added) : added[i].batch = next,
           NEW t, Extends(t, old, added)
    PROVE  /\ \A b : b # next => RowsOf(t, b) = RowsOf(old, b)
           /\ Cardinality(RowsOf(t, next)) = Len(added)
  <1>1. /\ Len(t) = Len(old) + Len(added)
        /\ \A i \in 1 .. Len(old) : t[i] = old[i]
        /\ \A i \in 1 .. Len(added) : t[Len(old) + i] = added[i]
    BY DEF Extends
  <1>3. Len(old) \in Nat /\ Len(added) \in Nat
    BY DEF IsList
  <1>4. \A i \in Len(old) + 1 .. Len(old) + Len(added) : t[i].batch = next
    <2> SUFFICES ASSUME NEW i \in Len(old) + 1 .. Len(old) + Len(added)
                 PROVE  t[i].batch = next
      OBVIOUS
    <2>1. i - Len(old) \in 1 .. Len(added) /\ i = Len(old) + (i - Len(old))
      BY <1>3
    <2>2. QED
      BY <1>1, <2>1
  <1>5. \A i \in 1 .. Len(t) : i \in 1 .. Len(old) \/ i \in Len(old) + 1 .. Len(old) + Len(added)
    BY <1>1, <1>3
  <1>6. ASSUME NEW b, b # next PROVE RowsOf(t, b) = RowsOf(old, b)
    BY <1>1, <1>3, <1>4, <1>5, <1>6 DEF RowsOf
  <1>7. RowsOf(t, next) = Len(old) + 1 .. Len(old) + Len(added)
    BY <1>1, <1>3, <1>4, <1>5 DEF RowsOf
  <1>8. QED
    BY <1>3, <1>6, <1>7, NextInterval

LEMMA BatchAdded ==
    ASSUME RecordsInv, NEW c \in Clients, StoreBatch(c)
    PROVE  RecordsInv'
  <1>0. PICK next : next = Len(batches) + 1
    OBVIOUS
  <1>1. PICK user, file, good, bad :
           /\ user = req[c].user /\ file = req[c].ask
           /\ good = StoredSales(c) /\ bad = Refused(user, file)
    OBVIOUS
  <1>2. user \in Users /\ file \in Files /\ ParsesAsCsv(file)
    BY <1>1 DEF StoreBatch, RecordsInv, SoundRequests, SoundRequest, SoundFile
  <1>3. PICK turned :
           turned = [n \in DOMAIN bad |->
                       [owner |-> user, batch |-> next, code |-> Rejection(bad[n], SkusOf(user))]]
    OBVIOUS
  <1>4. PICK batch, since :
           batch = [owner |-> user, file |-> file, status |-> UploadStatus(Len(good), Len(bad)),
                    total |-> Len(file.rows), accepted |-> Len(good), rejected |-> Len(bad),
                    reason |-> Len(good) = 0, since |-> since]
           /\ batches' = Append(batches, batch)
    BY <1>0, <1>1, Zenon DEF StoreBatch
  <1>5. /\ \A n \in DOMAIN good : FitsColumns(good[n])
        /\ sales' = sales \o good /\ rejected' = rejected \o turned
        /\ Done(c) /\ stale' = stale
    BY <1>0, <1>1, <1>3, Zenon DEF StoreBatch
  <1>6. Len(batches) \in Nat /\ Len(sales) \in Nat /\ next \in Nat
    BY <1>0 DEF RecordsInv, SoundSales, SoundBatches, IsList
  <1>7. PICK rows : /\ rows = Accepted(user, file)
                    /\ good = [n \in DOMAIN rows |-> CsvSale(user, next, rows[n])]
    BY <1>0, <1>1, Zenon DEF StoredSales
  <1>8. /\ IsList(rows) /\ IsList(bad) /\ Len(rows) + Len(bad) = Len(file.rows)
        /\ \A k \in 1 .. Len(rows) : \E n \in AcceptedAt(user, file) : rows[k] = file.rows[n]
    BY <1>1, <1>2, <1>7, RowsSplit
  <1>9. IsList(good) /\ Len(good) = Len(rows) /\ IsList(turned) /\ Len(turned) = Len(bad)
    <2>1. DOMAIN rows = 1 .. Len(rows) /\ Len(rows) \in Nat
      BY <1>8 DEF IsList
    <2>2. DOMAIN bad = 1 .. Len(bad) /\ Len(bad) \in Nat
      BY <1>8 DEF IsList
    <2>3. DOMAIN good = 1 .. Len(rows) /\ good = [i \in 1 .. Len(rows) |-> good[i]]
      BY <1>7, <2>1
    <2>4. DOMAIN turned = 1 .. Len(bad) /\ turned = [i \in 1 .. Len(bad) |-> turned[i]]
      BY <1>3, <2>2
    <2>5. QED
      BY <2>1, <2>2, <2>3, <2>4, FunctionList
  <1>10. \A n \in 1 .. Len(good) :
            SoundSale(good[n]) /\ good[n].batch = next /\ RightTotal(good[n])
    <2> SUFFICES ASSUME NEW n \in 1 .. Len(good)
                 PROVE  SoundSale(good[n]) /\ good[n].batch = next /\ RightTotal(good[n])
      OBVIOUS
    <2>1. n \in DOMAIN rows /\ n \in 1 .. Len(rows) /\ n \in DOMAIN good
      BY <1>8, <1>9 DEF IsList
    <2>2. PICK k \in AcceptedAt(user, file) : rows[n] = file.rows[k]
      BY <1>8, <2>1
    <2>3. good[n] = CsvSale(user, next, file.rows[k])
      BY <1>7, <2>1, <2>2
    <2>4. FitsColumns(CsvSale(user, next, file.rows[k]))
      BY <1>5, <2>1, <2>3
    <2>5. QED
      <3>1. PICK s : s = good[n]
        OBVIOUS
      <3>2. s = CsvSale(user, next, file.rows[k]) /\ FitsColumns(s)
        BY <2>3, <2>4, <3>1
      <3>3. SoundSale(s) /\ s.batch = next /\ RightTotal(s)
        BY <1>2, <2>2, <3>2, CsvSaleIsSound
      <3>4. QED
        BY <3>1, <3>3
  <1>11. \A n \in 1 .. Len(turned) : turned[n].batch = next
    BY <1>3, <1>8, <1>9 DEF IsList
  <1>12. /\ IsList(sales') /\ Len(sales') = Len(sales) + Len(good)
         /\ \A i \in 1 .. Len(sales) : sales'[i] = sales[i]
         /\ \A i \in 1 .. Len(good) : sales'[Len(sales) + i] = good[i]
    <2>1. IsList(sales)
      BY DEF RecordsInv, SoundSales
    <2>2. Extends(sales', sales, good)
      BY <1>5, <1>9, <2>1, JoinedList, Zenon
    <2>3. QED
      BY <2>2 DEF Extends
  <1>13. /\ IsList(rejected') /\ Len(rejected') = Len(rejected) + Len(turned)
         /\ \A i \in 1 .. Len(rejected) : rejected'[i] = rejected[i]
         /\ \A i \in 1 .. Len(turned) : rejected'[Len(rejected) + i] = turned[i]
    <2>1. IsList(rejected)
      BY DEF RecordsInv, SoundBatches
    <2>2. Extends(rejected', rejected, turned)
      BY <1>5, <1>9, <2>1, JoinedList, Zenon
    <2>3. QED
      BY <2>2 DEF Extends
  <1>14. /\ IsList(batches') /\ Len(batches') = next /\ batches'[next] = batch
         /\ \A b \in 1 .. Len(batches) : batches'[b] = batches[b]
    <2>1. IsList(batches)
      BY DEF RecordsInv, SoundBatches
    <2>2. QED
      BY <1>0, <1>4, <2>1 DEF IsList
  <1>15. SameOwners
    BY <1>6, <1>9, <1>12 DEF SameOwners, IsList
  <1>16. SoundRequests'
    BY <1>5, <1>15, RequestIsOver DEF RecordsInv
  <1>17. SoundSales'
    <2>1. Len(good) \in Nat
      BY <1>9 DEF IsList
    <2>2. stale' \subseteq 1 .. Len(sales')
      BY <1>5, <1>6, <1>12, <2>1 DEF RecordsInv, SoundSales
    <2>3. ASSUME NEW i \in 1 .. Len(sales')
          PROVE  /\ SoundSale(sales'[i]) /\ sales'[i].batch \in {None} \cup 1 .. Len(batches')
                 /\ i \in stale' \/ RightTotal(sales'[i])
      <3>1. CASE i \in 1 .. Len(sales)
        <4>1. /\ sales'[i] = sales[i] /\ SoundSale(sales[i])
              /\ sales[i].batch \in {None} \cup 1 .. Len(batches)
              /\ i \in stale \/ RightTotal(sales[i])
          BY <1>12, <3>1 DEF RecordsInv, SoundSales
        <4>2. sales[i].batch \in {None} \cup 1 .. Len(batches')
          BY <1>0, <1>6, <1>14, <4>1
        <4>3. QED
          BY <1>5, <4>1, <4>2
      <3>2. CASE i \notin 1 .. Len(sales)
        <4>1. PICK k \in 1 .. Len(good) : i = Len(sales) + k
          <5>1. i - Len(sales) \in 1 .. Len(good) /\ i = Len(sales) + (i - Len(sales))
            BY <1>6, <1>12, <2>1, <3>2
          <5>2. QED
            BY <5>1
        <4>2. sales'[i] = good[k]
          BY <1>12, <4>1
        <4>3. next \in 1 .. Len(batches')
          BY <1>0, <1>6, <1>14
        <4>4. QED
          BY <1>10, <4>2, <4>3
      <3>3. QED
        BY <3>1, <3>2
    <2>4. QED
      BY <1>12, <2>2, <2>3, Zenon DEF SoundSales
  <1>18. /\ \A b \in 1 .. Len(batches) : SalesOfBatch(b)' = SalesOfBatch(b)
         /\ Cardinality(SalesOfBatch(next)') = Len(good)
    <2>1. \A i \in 1 .. Len(sales) : sales[i].batch # next
      BY <1>0, <1>6, SalesRulesAssumption DEF RecordsInv, SoundSales
    <2>2. IsList(sales)
      BY DEF RecordsInv, SoundSales
    <2>7. Extends(sales', sales, good)
      BY <1>12 DEF Extends
    <2>8. \A i \in 1 .. Len(good) : good[i].batch = next
      BY <1>10
    <2>3. /\ \A b : b # next => RowsOf(sales', b) = RowsOf(sales, b)
          /\ Cardinality(RowsOf(sales', next)) = Len(good)
      BY <1>6, <1>9, <2>1, <2>2, <2>7, <2>8, RowsContinued
    <2>4. \A b : SalesOfBatch(b) = RowsOf(sales, b) /\ SalesOfBatch(b)' = RowsOf(sales', b)
      BY DEF SalesOfBatch, RowsOf
    <2>5. \A b \in 1 .. Len(batches) : b # next
      BY <1>0, <1>6
    <2>6. QED
      BY <2>3, <2>4, <2>5
  <1>19. /\ \A b \in 1 .. Len(batches) : RejectedOfBatch(b)' = RejectedOfBatch(b)
         /\ Cardinality(RejectedOfBatch(next)') = Len(bad)
    <2>1. \A i \in 1 .. Len(rejected) : rejected[i].batch # next
      BY <1>0, <1>6 DEF RecordsInv, SoundBatches
    <2>2. IsList(rejected)
      BY DEF RecordsInv, SoundBatches
    <2>7. Extends(rejected', rejected, turned)
      BY <1>13 DEF Extends
    <2>3. /\ \A b : b # next => RowsOf(rejected', b) = RowsOf(rejected, b)
          /\ Cardinality(RowsOf(rejected', next)) = Len(turned)
      BY <1>6, <1>9, <1>11, <2>1, <2>2, <2>7, RowsContinued, SMTT(40)
    <2>4. \A b : RejectedOfBatch(b) = RowsOf(rejected, b) /\ RejectedOfBatch(b)' = RowsOf(rejected', b)
      BY DEF RejectedOfBatch, RowsOf
    <2>5. \A b \in 1 .. Len(batches) : b # next
      BY <1>0, <1>6
    <2>6. QED
      BY <1>9, <2>3, <2>4, <2>5
  <1>20. SoundBatches'
    <2>1. \A n \in 1 .. Len(rejected') : rejected'[n].batch \in 1 .. Len(batches')
      <3> SUFFICES ASSUME NEW n \in 1 .. Len(rejected')
                   PROVE  rejected'[n].batch \in 1 .. Len(batches')
        OBVIOUS
      <3>1. Len(rejected) \in Nat /\ Len(turned) \in Nat
        BY <1>9 DEF IsList, RecordsInv, SoundBatches
      <3>2. CASE n \in 1 .. Len(rejected)
        BY <1>0, <1>6, <1>13, <1>14, <3>2 DEF RecordsInv, SoundBatches
      <3>3. CASE n \notin 1 .. Len(rejected)
        <4>1. PICK k \in 1 .. Len(turned) : n = Len(rejected) + k
          <5>1. n - Len(rejected) \in 1 .. Len(turned) /\ n = Len(rejected) + (n - Len(rejected))
            BY <1>13, <3>1, <3>3
          <5>2. QED
            BY <5>1
        <4>2. rejected'[n].batch = next
          BY <1>11, <1>13, <4>1
        <4>3. QED
          BY <1>0, <1>6, <1>14, <4>2
      <3>4. QED
        BY <3>2, <3>3
    <2>2. ASSUME NEW b \in 1 .. Len(batches) PROVE SoundBatch(b)'
      <3>1. SoundBatch(b) /\ batches'[b] = batches[b]
        BY <1>14 DEF RecordsInv, SoundBatches
      <3>2. SalesOfBatch(b)' = SalesOfBatch(b) /\ RejectedOfBatch(b)' = RejectedOfBatch(b)
        BY <1>18, <1>19
      <3>3. QED
        BY <3>1, <3>2, Zenon DEF SoundBatch
    <2>3. SoundBatch(next)'
      <3>1. /\ batch.file = file /\ batch.status = UploadStatus(Len(good), Len(bad))
            /\ batch.total = Len(file.rows) /\ batch.accepted = Len(good)
            /\ batch.rejected = Len(bad)
        BY <1>4
      <3>2. batch.reason <=> batch.accepted = 0
        <4>1. PICK reason : /\ reason <=> Len(good) = 0
                            /\ batch = [owner |-> user, file |-> file,
                                        status |-> UploadStatus(Len(good), Len(bad)),
                                        total |-> Len(file.rows), accepted |-> Len(good),
                                        rejected |-> Len(bad), reason |-> reason, since |-> since]
          BY <1>4, Zenon
        <4>2. batch.reason = reason
          <5>1. batch = [owner |-> user, file |-> file,
                         status |-> UploadStatus(Len(good), Len(bad)),
                         total |-> Len(file.rows), accepted |-> Len(good),
                         rejected |-> Len(bad), reason |-> reason, since |-> since]
            BY <4>1, Zenon
          <5>2. QED
            BY ONLY <5>1, Zenon
        <4>3. QED
          BY <3>1, <4>1, <4>2, Zenon
      <3>3. Len(good) + Len(bad) = Len(file.rows) /\ Len(file.rows) >= 1
        BY <1>2, <1>8, <1>9 DEF ParsesAsCsv
      <3>4. Len(good) \in Nat /\ Len(bad) \in Nat
        BY <1>8, <1>9 DEF IsList
      <3>5. batch.status = "completed" <=> batch.rejected = 0
        BY <3>1, <3>3, <3>4 DEF UploadStatus
      <3>6. batches'[next] = batch
        BY <1>14
      <3>7. QED
        BY <1>18, <1>19, <3>1, <3>2, <3>3, <3>5, <3>6, Zenon DEF SoundBatch
    <2>4. \A b \in 1 .. Len(batches') : b \in 1 .. Len(batches) \/ b = next
      BY <1>0, <1>6, <1>14
    <2>5. \A b \in 1 .. Len(batches') : SoundBatch(b)'
      BY <2>2, <2>3, <2>4, Zenon
    <2>6. QED
      BY <1>13, <1>14, <2>1, <2>5, Zenon DEF SoundBatches
  <1>21. QED
    BY <1>16, <1>17, <1>20 DEF RecordsInv

-----------------------------------------------------------------------------
(* Theorems *)

LEMMA InitRecords == Init => RecordsInv
  <1> SUFFICES ASSUME Init PROVE RecordsInv
    OBVIOUS
  <1>1. IsList(sales) /\ IsList(batches) /\ IsList(rejected)
        /\ Len(sales) = 0 /\ Len(batches) = 0 /\ Len(rejected) = 0
    BY EmptyList DEF Init
  <1>2. SoundSales
    BY <1>1 DEF Init, SoundSales
  <1>3. SoundBatches
    BY <1>1 DEF SoundBatches
  <1>4. SoundRequests
    BY DEF Init, SoundRequests, SoundRequest
  <1>5. QED
    BY <1>2, <1>3, <1>4 DEF RecordsInv

LEMMA RecordsStep == RecordsInv /\ [Next]_vars => RecordsInv'
  <1> SUFFICES ASSUME RecordsInv, [Next]_vars PROVE RecordsInv'
    OBVIOUS
  <1>1. ASSUME NEW c \in Clients,
               PatchOverflows(c) \/ StoreOverflows(c) \/ RequestAborted(c)
        PROVE  RecordsInv'
    <2>1. Done(c) /\ UNCHANGED rowVars
      BY <1>1, Zenon DEF PatchOverflows, StoreOverflows, RequestAborted
    <2>2. QED
      BY <2>1, RequestFails
  <1>2. CASE UNCHANGED vars
    <2>1. UNCHANGED rowVars /\ UNCHANGED <<pc, req>>
      BY <1>2 DEF vars
    <2>2. SoundSales' /\ SoundBatches' /\ SameOwners
      BY <2>1, RowsStay
    <2>3. QED
      BY <2>1, <2>2, RequestsStay DEF RecordsInv
  <1>3. QED
    BY <1>1, <1>2, SaleCreated, PatchLoaded, DeleteLoaded, UploadBegun, PatchWritten,
       DeleteWritten, BatchAdded
    DEF Next, Begins, Proceeds

LEMMA RecordsHold == Spec => []RecordsInv
  BY InitRecords, RecordsStep, PTL DEF Spec

\* Every stored sale fits its columns and sells something, whatever was posted,
\* patched or uploaded and however the requests interleave.
THEOREM SalesFitTheirColumns == Spec => []TypeOK
  <1>1. RecordsInv => TypeOK
    <2> SUFFICES ASSUME RecordsInv PROVE TypeOK
      OBVIOUS
    <2>1. DOMAIN sales = 1 .. Len(sales) /\ DOMAIN batches = 1 .. Len(batches)
          /\ DOMAIN rejected = 1 .. Len(rejected)
      BY DEF RecordsInv, SoundSales, SoundBatches, IsList
    <2>2. ASSUME NEW i \in DOMAIN sales
          PROVE  LET s == sales[i] IN
                 /\ s.product \in Products /\ s.owner \in Users
                 /\ s.batch \in {None} \cup DOMAIN batches
                 /\ s.quantity \in 1 .. QuantityLimit * 1000 - 1
                 /\ s.price \in {None} \cup 0 .. PriceTop * 100 - 1
                 /\ s.total \in {None} \cup 0 .. TotalTop * 100 - 1
      <3>1. SoundSale(sales[i]) /\ sales[i].batch \in {None} \cup DOMAIN batches
        BY <2>1, <2>2 DEF RecordsInv, SoundSales
      <3>2. QED
        BY <3>1, Zenon DEF SoundSale, OwnProducts
    <2>3. \A c \in Clients : pc[c] \in {"patch", "delete"} => req[c].id \in DOMAIN sales
      BY <2>1 DEF RecordsInv, SoundRequests, SoundRequest, SoundChange
    <2>4. \A n \in DOMAIN rejected : rejected[n].batch \in DOMAIN batches
      BY <2>1 DEF RecordsInv, SoundBatches
    <2>5. stale \subseteq DOMAIN sales
      BY <2>1 DEF RecordsInv, SoundSales
    <2>6. QED
      BY <2>2, <2>3, <2>4, <2>5, Zenon DEF TypeOK
  <1>2. QED
    BY <1>1, RecordsHold, PTL

\* Nobody records a sale of somebody else's product: not by hand, where the product
\* is looked up, not by PATCH, where the old row may be stale, not by a file, whose
\* SKUs other users have, too.
THEOREM SalesAreOfOwnProducts == Spec => []SalesOfOwnProducts
  <1>1. RecordsInv => SalesOfOwnProducts
    BY DEF RecordsInv, SoundSales, IsList, SoundSale, OwnProducts, SalesOfOwnProducts
  <1>2. QED
    BY <1>1, RecordsHold, PTL

\* A total that is not the client's is quantity times price to the nearest cent,
\* unless two requests changed the sale at once.
THEOREM TotalsAreRight == Spec => []TotalsAreProducts
  <1>1. RecordsInv => TotalsAreProducts
    <2> SUFFICES ASSUME RecordsInv, NEW i \in DOMAIN sales \ stale, ~sales[i].given
                 PROVE  LET s == sales[i]
                            off == IF s.price = None \/ s.total = None THEN 0
                                   ELSE 1000 * s.total - s.quantity * s.price
                        IN  /\ (s.total = None) <=> (s.price = None)
                            /\ -1000 <= 2 * off /\ 2 * off <= 1000
      BY DEF TotalsAreProducts
    <2>1. PICK quantity, price, total :
             quantity = sales[i].quantity /\ price = sales[i].price /\ total = sales[i].total
      OBVIOUS
    <2>2. i \in 1 .. Len(sales)
      BY DEF RecordsInv, SoundSales, IsList
    <2>3. IsProduct(total, quantity, price)
      BY <2>1, <2>2, Zenon DEF RecordsInv, SoundSales, RightTotal
    <2>4. CASE price = None
      BY <2>1, <2>3, <2>4 DEF IsProduct
    <2>5. CASE price # None
      <3>1. /\ total # None /\ total \in Nat
            /\ -1000 <= 2 * (1000 * total - quantity * price)
            /\ 2 * (1000 * total - quantity * price) <= 1000
        BY ONLY <2>3, <2>5, SMT DEF IsProduct, Nearest
      <3>2. QED
        BY ONLY <2>1, <2>5, <3>1, SMTT(40)
    <2>6. QED
      BY <2>4, <2>5
  <1>2. QED
    BY <1>1, RecordsHold, PTL

\* The counters of a batch account for the rows of its file, and its status tells
\* whether a row was lost to an error.
THEOREM BatchesAreAccounted == Spec => []BatchesAccountForRows
  <1>1. RecordsInv => BatchesAccountForRows
    <2> SUFFICES ASSUME RecordsInv, NEW b \in DOMAIN batches
                 PROVE  LET batch == batches[b] IN
                        /\ batch.accepted = Cardinality({i \in DOMAIN sales : sales[i].batch = b})
                        /\ batch.rejected =
                              Cardinality({n \in DOMAIN rejected : rejected[n].batch = b})
                        /\ batch.accepted + batch.rejected = batch.total
                        /\ batch.total = Len(batch.file.rows)
                        /\ batch.status = "completed" <=> batch.rejected = 0
                        /\ batch.reason <=> batch.accepted = 0
      BY Zenon DEF BatchesAccountForRows
    <2>1. DOMAIN sales = 1 .. Len(sales) /\ DOMAIN batches = 1 .. Len(batches)
          /\ DOMAIN rejected = 1 .. Len(rejected)
      BY DEF RecordsInv, SoundSales, SoundBatches, IsList
    <2>2. SoundBatch(b)
      BY <2>1 DEF RecordsInv, SoundBatches
    <2>3. QED
      BY <2>1, <2>2, Zenon DEF SoundBatch, SalesOfBatch, RejectedOfBatch
  <1>2. QED
    BY <1>1, RecordsHold, PTL

\* What a step does to a deleted sale: nothing, unless the request had loaded the
\* sale before it was deleted, and then it stays deleted.
DeletedStays ==
    \A i \in DOMAIN sales : sales[i].deleted =>
        /\ sales'[i].deleted
        /\ sales'[i] # sales[i] => i \in stale'

LEMMA DeletedSurvivesWrite ==
    ASSUME RecordsInv, NEW c \in Clients, pc[c] \in {"patch", "delete"}, NEW row,
           Write(c, row), row.deleted = sales[req[c].id].deleted \/ row.deleted = TRUE
    PROVE  DeletedStays
  <1> SUFFICES ASSUME NEW i \in DOMAIN sales, sales[i].deleted
               PROVE  sales'[i].deleted /\ (sales'[i] # sales[i] => i \in stale')
    BY DEF DeletedStays
  <1>1. sales' = [sales EXCEPT ![req[c].id] = row]
        /\ stale' = IF sales[req[c].id] = req[c].seen THEN stale ELSE stale \cup {req[c].id}
    BY Zenon DEF Write
  <1>2. CASE i = req[c].id
    <2>1. sales'[i] = row
      BY <1>1, <1>2
    <2>2. row.deleted
      BY <1>2, Zenon
    <2>3. sales[i] # req[c].seen
      <3>1. ~req[c].seen.deleted
        BY LoadedBefore, Zenon
      <3>2. QED
        BY <3>1, Zenon
    <2>4. i \in stale'
      BY <1>1, <1>2, <2>3
    <2>5. QED
      BY <2>1, <2>2, <2>4, Zenon
  <1>3. CASE i # req[c].id
    <2>1. sales'[i] = sales[i]
      BY <1>1, <1>3
    <2>2. QED
      BY <2>1, Zenon
  <1>4. QED
    BY <1>2, <1>3

LEMMA DeletedSurvivesInsert ==
    ASSUME RecordsInv, \A i \in 1 .. Len(sales) : sales'[i] = sales[i]
    PROVE  DeletedStays
  BY DEF RecordsInv, SoundSales, IsList, DeletedStays

\* A deleted sale never comes back; only a request that had loaded it before it was
\* deleted can still change it.
THEOREM DeletionIsFinal == Spec => DeletedIsFinal
  <1>1. RecordsInv /\ [Next]_vars => [DeletedStays]_vars
    <2> SUFFICES ASSUME RecordsInv, Next PROVE DeletedStays
      OBVIOUS
    <2> IsList(sales)
      BY DEF RecordsInv, SoundSales
    <2>1. ASSUME NEW c \in Clients, CreateTransaction(c) PROVE DeletedStays
      <3>1. PICK s : sales' = Append(sales, s)
        BY <2>1, Zenon DEF CreateTransaction
      <3>2. QED
        BY <3>1, AppendedList, DeletedSurvivesInsert
    <2>2. ASSUME NEW c \in Clients, StoreBatch(c) PROVE DeletedStays
      <3>1. PICK user, file, batch, rows, good :
               /\ user = req[c].user /\ file = req[c].ask /\ rows = Accepted(user, file)
               /\ good = [n \in DOMAIN rows |-> CsvSale(user, batch, rows[n])]
               /\ sales' = sales \o good
        BY <2>2, Zenon DEF StoreBatch, StoredSales
      <3>2. IsList(rows)
        <4>1. file \in Files
          BY <2>2, <3>1 DEF StoreBatch, RecordsInv, SoundRequests, SoundRequest, SoundFile
        <4>2. QED
          BY <3>1, <4>1, RowsSplit
      <3>3. DOMAIN good = 1 .. Len(rows) /\ good = [i \in 1 .. Len(rows) |-> good[i]]
        BY <3>1, <3>2 DEF IsList
      <3>4. IsList(good)
        BY <3>2, <3>3, FunctionList DEF IsList
      <3>5. QED
        BY <3>1, <3>4, JoinedList, DeletedSurvivesInsert DEF Extends
    <2>3. ASSUME NEW c \in Clients, PatchWrite(c) PROVE DeletedStays
      <3>1. pc[c] = "patch"
        BY <2>3 DEF PatchWrite
      <3>2. QED
        BY <2>3, <3>1, PatchWritten, DeletedSurvivesWrite
    <2>4. ASSUME NEW c \in Clients, DeleteWrite(c) PROVE DeletedStays
      <3>1. pc[c] = "delete"
        BY <2>4 DEF DeleteWrite
      <3>2. QED
        BY <2>4, <3>1, DeleteWritten, DeletedSurvivesWrite
    <2>5. ASSUME UNCHANGED rowVars PROVE DeletedStays
      BY <2>5, DeletedSurvivesInsert DEF rowVars
    <2>6. QED
      BY <2>1, <2>2, <2>3, <2>4, <2>5, Zenon
      DEF Next, Begins, Proceeds, PatchLoad, DeleteLoad, UploadBegin, PatchOverflows,
          StoreOverflows, RequestAborted
  <1>2. QED
    BY <1>1, RecordsHold, PTL DEF Spec, DeletedIsFinal, DeletedStays

-----------------------------------------------------------------------------
(* What the screens rely on *)

BatchStatuses == {"completed", "completed_with_errors", "failed"}

\* Sales have dates, and what an upload has left is its user's
DatedSale(s, B) == /\ s.date \in Int
                   /\ s.batch # None => B[s.batch].owner = s.owner

ShownInv ==
    /\ \A i \in 1 .. Len(sales) : DatedSale(sales[i], batches)
    /\ \A n \in 1 .. Len(rejected) : batches[rejected[n].batch].owner = rejected[n].owner
    /\ \A b \in 1 .. Len(batches) : batches[b].status \in BatchStatuses

LEMMA InitShown == Init => ShownInv
  BY DEF Init, ShownInv

LEMMA ShownStays ==
    ASSUME ShownInv, UNCHANGED <<batches, rejected>>, NEW k, NEW row,
           sales' = sales \/ (sales' = [sales EXCEPT ![k] = row] /\ DatedSale(row, batches)),
           IsList(sales), k \in 1 .. Len(sales)
    PROVE  ShownInv'
  <1>1. batches' = batches /\ rejected' = rejected
    OBVIOUS
  <1>2. \A i \in 1 .. Len(sales') : DatedSale(sales'[i], batches)
    BY DEF ShownInv, IsList
  <1>3. QED
    BY <1>1, <1>2 DEF ShownInv, DatedSale


LEMMA ShownInserted ==
    ASSUME RecordsInv, ShownInv, UNCHANGED <<batches, rejected>>, NEW s,
           sales' = Append(sales, s), DatedSale(s, batches)
    PROVE  ShownInv'
  <1>1. batches' = batches /\ rejected' = rejected
    OBVIOUS
  <1>2. \A i \in 1 .. Len(sales') : DatedSale(sales'[i], batches)
    BY DEF RecordsInv, SoundSales, ShownInv, IsList
  <1>3. QED
    BY <1>1, <1>2 DEF ShownInv, DatedSale

\* A PATCH dates the sale anew or leaves its date.
LEMMA PatchIsDated ==
    ASSUME NEW patch \in Patches, NEW seen, NEW row, SoundSale(row), DatedSale(row, batches),
           NEW changed, changed = Written(row, seen, NormalizeUpdate(patch, seen)),
           changed.owner = row.owner, changed.batch = row.batch
    PROVE  DatedSale(changed, batches)
  <1>1. PICK new : new = NormalizeUpdate(patch, seen)
    OBVIOUS
  <1>2. /\ new.date = IF patch.date = Keep THEN seen.date ELSE patch.date
        /\ "date" \in DOMAIN new
    BY <1>1, SMT DEF NormalizeUpdate, NormalizedBy
  <1>3. "date" \in SaleFields
    BY DEF SaleFields
  <1>4. changed["date"] = IF "date" \in DOMAIN new /\ new["date"] # seen["date"] THEN new["date"]
                          ELSE row["date"]
    BY <1>1, <1>3, Zenon DEF Written, SoundSale
  <1>5. changed.date = IF new.date # seen.date THEN new.date ELSE row.date
    BY <1>2, <1>4, Zenon
  <1>6. patch.date \in Int \cup {Keep} /\ row.date \in Int
    BY SalesAssumption DEF DatedSale
  <1>7. changed.date \in Int
    BY <1>2, <1>5, <1>6
  <1>8. QED
    BY <1>7, Zenon DEF DatedSale

LEMMA ShownPatched ==
    ASSUME RecordsInv, ShownInv, NEW c \in Clients, PatchWrite(c)
    PROVE  ShownInv'
  <1>1. PICK k, old, seen, patch, row :
           /\ k = req[c].id
           /\ old = sales[k] /\ seen = req[c].seen /\ patch = req[c].ask
           /\ row = Written(old, seen, NormalizeUpdate(patch, seen))
    OBVIOUS
  <1>2. pc[c] = "patch" /\ FitsColumns(row) /\ Write(c, row) /\ UNCHANGED <<batches, rejected>>
    BY <1>1, Zenon DEF PatchWrite
  <1>3. /\ k \in 1 .. Len(sales)
        /\ SoundSale(old) /\ SoundSale(seen) /\ old.owner = seen.owner
        /\ patch \in Patches /\ ValidPatch(patch)
        /\ patch.product \in OwnProducts(seen.owner) \cup {Keep, seen.product}
    BY <1>1, <1>2, LoadedBefore DEF SoundPatch
  <1>4. row.owner = old.owner /\ row.batch = old.batch
    BY <1>1, <1>2, <1>3, PatchedSale
  <1>5. DatedSale(old, batches)
    BY <1>1, <1>3 DEF ShownInv
  <1>6. DatedSale(row, batches)
    BY <1>1, <1>3, <1>4, <1>5, PatchIsDated
  <1>7. sales' = [sales EXCEPT ![k] = row]
    BY <1>1, <1>2 DEF Write
  <1>8. IsList(sales)
    BY DEF RecordsInv, SoundSales
  <1>9. QED
    BY <1>2, <1>3, <1>6, <1>7, <1>8, ShownStays

LEMMA ShownDeleted ==
    ASSUME RecordsInv, ShownInv, NEW c \in Clients, DeleteWrite(c)
    PROVE  ShownInv'
  <1>1. PICK k, old, row :
           k = req[c].id /\ old = sales[k] /\ row = [old EXCEPT !.deleted = TRUE]
    OBVIOUS
  <1>2. pc[c] = "delete" /\ Write(c, row) /\ UNCHANGED <<batches, rejected>>
    BY <1>1, Zenon DEF DeleteWrite
  <1>3. k \in 1 .. Len(sales) /\ SoundSale(old)
    BY <1>1, <1>2, LoadedBefore
  <1>4. DatedSale(old, batches)
    BY <1>1, <1>3 DEF ShownInv
  <1>5. DatedSale(row, batches)
    <2>1. row.date = old.date /\ row.batch = old.batch /\ row.owner = old.owner
      BY <1>1, <1>3 DEF SoundSale, SaleFields
    <2>2. QED
      BY <1>4, <2>1, Zenon DEF DatedSale
  <1>6. sales' = [sales EXCEPT ![k] = row]
    BY <1>1, <1>2 DEF Write
  <1>7. IsList(sales)
    BY DEF RecordsInv, SoundSales
  <1>8. QED
    BY <1>2, <1>3, <1>5, <1>6, <1>7, ShownStays

LEMMA AcceptedIsDated ==
    ASSUME NEW user, NEW file \in Files, NEW n \in AcceptedAt(user, file), NEW batch,
           NEW s, s = CsvSale(user, batch, file.rows[n])
    PROVE  s.date \in Int /\ s.owner = user /\ s.batch = batch
  <1>1. PICK row : row = file.rows[n]
    OBVIOUS
  <1>2. n \in DOMAIN file.rows /\ Rejection(row, SkusOf(user)) = None
    BY <1>1 DEF AcceptedAt
  <1>3. row.sale_date \notin {None, Bad}
    BY <1>2, SalesRulesAssumption DEF Rejection, RejectionCodes
  <1>4. row.sale_date \in Int \cup {None, Bad}
    BY <1>1, <1>2, SalesAssumption
  <1>5. PICK product, quantity, price, total, given :
           s = Sale(user, product, batch, row.sale_date, quantity, price, total, "csv_upload", given)
    BY <1>1, Zenon DEF CsvSale
  <1>6. s.date = row.sale_date /\ s.owner = user /\ s.batch = batch
    BY <1>5, SMT DEF Sale
  <1>7. QED
    BY <1>3, <1>4, <1>6

LEMMA ShownStored ==
    ASSUME RecordsInv, ShownInv, NEW c \in Clients, StoreBatch(c)
    PROVE  ShownInv'
  <1>1. PICK next, user, file, good, bad, rows :
           /\ next = Len(batches) + 1
           /\ user = req[c].user /\ file = req[c].ask
           /\ good = StoredSales(c) /\ bad = Refused(user, file) /\ rows = Accepted(user, file)
    OBVIOUS
  <1>2. user \in Users /\ file \in Files
    BY <1>1 DEF StoreBatch, RecordsInv, SoundRequests, SoundRequest, SoundFile
  <1>3. PICK turned :
           turned = [n \in DOMAIN bad |->
                       [owner |-> user, batch |-> next, code |-> Rejection(bad[n], SkusOf(user))]]
    OBVIOUS
  <1>4. PICK batch, total, accepted, refused, reason, since :
           batch = [owner |-> user, file |-> file, status |-> UploadStatus(Len(good), Len(bad)),
                    total |-> total, accepted |-> accepted, rejected |-> refused,
                    reason |-> reason, since |-> since]
           /\ batches' = Append(batches, batch)
    BY <1>1, Zenon DEF StoreBatch
  <1>5. sales' = sales \o good /\ rejected' = rejected \o turned
    BY <1>1, <1>3, Zenon DEF StoreBatch
  <1>6. good = [n \in DOMAIN rows |-> CsvSale(user, next, rows[n])]
    BY <1>1, Zenon DEF StoredSales
  <1>7. /\ IsList(rows) /\ IsList(bad)
        /\ \A k \in 1 .. Len(rows) : \E n \in AcceptedAt(user, file) : rows[k] = file.rows[n]
    BY <1>1, <1>2, RowsSplit
  <1>8. IsList(sales) /\ IsList(batches) /\ IsList(rejected) /\ Len(batches) \in Nat
    BY DEF RecordsInv, SoundSales, SoundBatches, IsList
  <1>9. /\ IsList(good) /\ Len(good) = Len(rows) /\ IsList(turned)
        /\ DOMAIN good = DOMAIN rows /\ DOMAIN turned = 1 .. Len(turned)
    BY <1>3, <1>6, <1>7 DEF IsList
  <1>10. \A k \in 1 .. Len(good) :
             good[k].date \in Int /\ good[k].owner = user /\ good[k].batch = next
    <2> SUFFICES ASSUME NEW k \in 1 .. Len(good)
                 PROVE  good[k].date \in Int /\ good[k].owner = user /\ good[k].batch = next
      OBVIOUS
    <2>1. PICK n \in AcceptedAt(user, file) : rows[k] = file.rows[n]
      BY <1>7, <1>9
    <2>2. PICK s : s = good[k]
      OBVIOUS
    <2>3. k \in DOMAIN rows
      BY <1>9 DEF IsList
    <2>4. s = CsvSale(user, next, file.rows[n])
      BY <1>6, <2>1, <2>2, <2>3
    <2>5. s.date \in Int /\ s.owner = user /\ s.batch = next
      BY <1>2, <2>4, AcceptedIsDated
    <2>6. QED
      BY <2>2, <2>5
  <1>11. \A k \in 1 .. Len(turned) : turned[k].owner = user /\ turned[k].batch = next
    BY <1>3, <1>9
  <1>12. /\ Len(batches') = next /\ batches'[next] = batch
         /\ \A b \in 1 .. Len(batches) : batches'[b] = batches[b]
         /\ \A b \in 1 .. Len(batches') : b \in 1 .. Len(batches) \/ b = next
    BY <1>1, <1>4, <1>8 DEF IsList
  <1>13. batch.owner = user /\ batch.status \in BatchStatuses
    <2>1. batch.owner = user /\ batch.status = UploadStatus(Len(good), Len(bad))
      BY <1>4
    <2>2. QED
      BY <2>1 DEF UploadStatus, BatchStatuses
  <1>14. Extends(sales', sales, good) /\ Extends(rejected', rejected, turned)
    BY <1>5, <1>8, <1>9, JoinedList, Zenon
  <1>15. ASSUME NEW i \in 1 .. Len(sales') PROVE DatedSale(sales'[i], batches')
    <2>1. CASE i \in 1 .. Len(sales)
      <3>1. sales'[i] = sales[i]
        BY <1>14, <2>1 DEF Extends
      <3>2. DatedSale(sales[i], batches) /\ sales[i].batch \in {None} \cup 1 .. Len(batches)
        BY <2>1 DEF ShownInv, RecordsInv, SoundSales
      <3>3. QED
        BY <1>12, <3>1, <3>2 DEF DatedSale
    <2>2. CASE i \notin 1 .. Len(sales)
      <3>1. PICK k \in 1 .. Len(good) : sales'[i] = good[k]
        <4>1. i - Len(sales) \in 1 .. Len(good) /\ i = Len(sales) + (i - Len(sales))
          BY <1>8, <1>9, <1>14, <2>2 DEF Extends, IsList
        <4>2. QED
          BY <1>14, <4>1 DEF Extends
      <3>2. QED
        BY <1>10, <1>12, <1>13, <3>1 DEF DatedSale
    <2>3. QED
      BY <2>1, <2>2
  <1>16. ASSUME NEW i \in 1 .. Len(rejected')
         PROVE  batches'[rejected'[i].batch].owner = rejected'[i].owner
    <2>1. CASE i \in 1 .. Len(rejected)
      <3>1. rejected'[i] = rejected[i]
        BY <1>14, <2>1 DEF Extends
      <3>2. rejected[i].batch \in 1 .. Len(batches)
        BY <2>1 DEF RecordsInv, SoundBatches
      <3>3. QED
        BY <1>12, <2>1, <3>1, <3>2 DEF ShownInv
    <2>2. CASE i \notin 1 .. Len(rejected)
      <3>1. PICK k \in 1 .. Len(turned) : rejected'[i] = turned[k]
        <4>1. i - Len(rejected) \in 1 .. Len(turned) /\ i = Len(rejected) + (i - Len(rejected))
          BY <1>8, <1>9, <1>14, <2>2 DEF Extends, IsList
        <4>2. QED
          BY <1>14, <4>1 DEF Extends
      <3>2. QED
        BY <1>11, <1>12, <1>13, <3>1
    <2>3. QED
      BY <2>1, <2>2
  <1>17. \A b \in 1 .. Len(batches') : batches'[b].status \in BatchStatuses
    BY <1>12, <1>13 DEF ShownInv
  <1>18. QED
    BY <1>15, <1>16, <1>17 DEF ShownInv

LEMMA ShownStep == RecordsInv /\ ShownInv /\ [Next]_vars => ShownInv'
  <1> SUFFICES ASSUME RecordsInv, ShownInv, [Next]_vars PROVE ShownInv'
    OBVIOUS
  <1>1. ASSUME UNCHANGED rowVars PROVE ShownInv'
    BY <1>1 DEF rowVars, ShownInv, DatedSale
  <1>2. ASSUME NEW c \in Clients, CreateTransaction(c) PROVE ShownInv'
    <2>1. PICK user \in Users, new \in NewSales :
             /\ sales' = Append(sales, ManualSale(user, new))
             /\ UNCHANGED <<batches, rejected>>
      BY <1>2, Zenon DEF CreateTransaction
    <2>2. PICK s : s = ManualSale(user, new)
      OBVIOUS
    <2>3. PICK quantity, price, total, given :
             s = Sale(user, new.product, None, new.date, quantity, price, total, "manual", given)
      BY <2>2, Zenon DEF ManualSale
    <2>4. s.date = new.date /\ s.batch = None
      BY <2>3, SMT DEF Sale
    <2>5. DatedSale(s, batches)
      BY <2>4, SalesAssumption DEF DatedSale
    <2>6. QED
      BY <2>1, <2>2, <2>5, ShownInserted
  <1>3. QED
    BY <1>1, <1>2, ShownPatched, ShownDeleted, ShownStored, Zenon
    DEF Next, Begins, Proceeds, PatchLoad, DeleteLoad, UploadBegin, PatchOverflows,
        StoreOverflows, RequestAborted, vars

-----------------------------------------------------------------------------
(* Features *)

LEMMA FirstDays ==
    ASSUME NEW series, IsList(series), NEW n \in 1 .. Len(series), NEW h,
           h = SubSeq(series, 1, n - 1)
    PROVE  /\ IsList(h) /\ Len(h) = n - 1
           /\ \A i \in 1 .. n - 1 : h[i] = series[i]
  BY DEF IsList

LEMMA SameWindow ==
    ASSUME NEW series, IsList(series), NEW n \in 1 .. Len(series), NEW width \in Nat \ {0},
           NEW h, h = SubSeq(series, 1, n - 1)
    PROVE  ShiftedWindow(series, n, width) = Recent(h, width)
  <1>1. /\ IsList(h) /\ Len(h) = n - 1
        /\ \A i \in 1 .. n - 1 : h[i] = series[i]
    BY FirstDays
  <1>2. Len(series) \in Nat /\ n \in Nat
    BY DEF IsList
  <1>3. PICK a : a = Largest(1, n - width)
    OBVIOUS
  <1>4. a \in 1 .. n
    BY <1>2, <1>3 DEF Largest
  <1>5. Recent(h, width) = SubSeq(h, a, n - 1)
    <2>1. Len(h) - width + 1 = n - width
      BY <1>1, <1>2
    <2>2. QED
      BY <1>1, <1>3, <2>1, Zenon DEF Recent
  <1>6. ShiftedWindow(series, n, width) = SubSeq(series, a, n - 1)
    BY <1>3 DEF ShiftedWindow
  <1>7. SubSeq(h, a, n - 1) = SubSeq(series, a, n - 1)
    <2>1. \A i \in 1 .. (n - 1 + 1 - a) : i + a - 1 \in 1 .. n - 1
      BY <1>2, <1>4
    <2>2. QED
      BY <1>1, <1>2, <1>4, <2>1 DEF IsList
  <1>8. QED
    BY <1>5, <1>6, <1>7

LEMMA SameFeatures ==
    ASSUME NEW series, IsList(series), NEW n \in 1 .. Len(series)
    PROVE  TrainingFeatures(series, n) = FutureFeatures(SubSeq(series, 1, n - 1))
  <1>1. PICK h : h = SubSeq(series, 1, n - 1)
    OBVIOUS
  <1>2. /\ IsList(h) /\ Len(h) = n - 1
        /\ \A i \in 1 .. n - 1 : h[i] = series[i]
    BY <1>1, FirstDays
  <1>3. Len(series) \in Nat /\ n \in Nat /\ Week \in Nat \ {0} /\ Fortnight \in Nat \ {0}
    BY PipelineAssumption DEF IsList
  <1>4. /\ ShiftedWindow(series, n, Week) = Recent(h, Week)
        /\ ShiftedWindow(series, n, Fortnight) = Recent(h, Fortnight)
    BY <1>1, <1>3, SameWindow
  <1>5. (IF n > 1 THEN series[n - 1] ELSE 0) = (IF h = <<>> THEN 0 ELSE Last(h))
    <2>1. CASE n = 1
      <3>1. h = <<>>
        BY <1>2, <2>1 DEF IsList
      <3>2. QED
        BY <2>1, <3>1
    <2>2. CASE n # 1
      <3>1. n > 1 /\ Len(h) = n - 1 /\ n - 1 \in 1 .. n - 1
        BY <1>2, <1>3, <2>2
      <3>2. h # <<>>
        BY <1>3, <3>1
      <3>3. Last(h) = series[n - 1]
        BY <1>2, <3>1 DEF Last
      <3>4. QED
        BY <3>1, <3>2, <3>3
    <2>3. QED
      BY <2>1, <2>2
  <1>6. (IF n > Week THEN series[n - Week] ELSE 0)
        = (IF Len(h) >= Week THEN h[Len(h) - Week + 1] ELSE 0)
    <2>1. n > Week <=> Len(h) >= Week
      BY <1>2, <1>3
    <2>2. n > Week => n - Week \in 1 .. n - 1 /\ Len(h) - Week + 1 = n - Week
      BY <1>2, <1>3
    <2>3. QED
      BY <1>2, <2>1, <2>2
  <1>7. TrainingFeatures(series, n) = FutureFeatures(h)
    BY <1>4, <1>5, <1>6, Zenon DEF TrainingFeatures, FutureFeatures
  <1>8. QED
    BY <1>1, <1>7

-----------------------------------------------------------------------------
(* The grid *)

\* A finite set of whole numbers has a least and a greatest one
LEMMA Extremes ==
    ASSUME NEW S, IsFiniteSet(S), S \subseteq Int, S # {}
    PROVE  /\ Min(S) \in S /\ \A x \in S : Min(S) <= x
           /\ Max(S) \in S /\ \A x \in S : x <= Max(S)
  <1> DEFINE P == {s \in SUBSET S : s = {} \/ \E a, b \in s : \A x \in s : a <= x /\ x <= b}
  <1>1. {} \in P
    OBVIOUS
  <1>2. ASSUME NEW s \in SUBSET S, NEW x \in S \ s, s \in P PROVE s \cup {x} \in P
    <2>1. s \cup {x} \in SUBSET S
      OBVIOUS
    <2>2. CASE s = {}
      <3>1. x <= x /\ s \cup {x} = {x}
        BY <2>2
      <3>2. \E a, b \in s \cup {x} : \A y \in s \cup {x} : a <= y /\ y <= b
        BY <3>1
      <3>3. QED
        BY <2>1, <3>2
    <2>3. CASE s # {}
      <3>1. PICK a, b \in s : \A y \in s : a <= y /\ y <= b
        BY <1>2, <2>3
      <3>2. PICK c, d : c = (IF x < a THEN x ELSE a) /\ d = (IF x > b THEN x ELSE b)
        OBVIOUS
      <3>3. c \in s \cup {x} /\ d \in s \cup {x}
        BY <3>1, <3>2
      <3>4. \A y \in s \cup {x} : c <= y /\ y <= d
        BY <3>1, <3>2
      <3>5. QED
        BY <2>1, <3>3, <3>4
    <2>4. QED
      BY <2>2, <2>3
  <1>3. S \in P
    <2>1. \A s \in SUBSET S : \A x \in S \ s : s \in P => s \cup {x} \in P
      BY <1>2
    <2> HIDE DEF P
    <2>2. QED
      BY <1>1, <2>1, SubsetInduction
  <1>4. PICK a, b \in S : \A x \in S : a <= x /\ x <= b
    BY <1>3
  <1>5. Min(S) \in S /\ \A x \in S : Min(S) <= x
    BY <1>4 DEF Min
  <1>6. Max(S) \in S /\ \A x \in S : Max(S) >= x
    <2>1. \A x \in S : b >= x
      BY <1>4
    <2>2. QED
      BY <2>1 DEF Max
  <1>7. QED
    BY <1>5, <1>6

-----------------------------------------------------------------------------
(* The sales that count *)

LEMMA CountedSales ==
    ASSUME RecordsInv, ShownInv, NEW user, NEW from, NEW to, NEW S, S = Counted(user, from, to)
    PROVE  /\ IsFiniteSet(S) /\ S \subseteq 1 .. Len(sales) /\ S \subseteq Nat
           /\ \A i \in S : /\ sales[i].owner = user /\ sales[i].deleted = FALSE
                           /\ sales[i].product \in OwnProducts(user)
                           /\ sales[i].quantity \in Nat \ {0} /\ sales[i].date \in Int
                           /\ sales[i].total \in Nat \cup {None}
                           /\ sales[i].batch \in {None} \cup DOMAIN batches
  <1>1. IsList(sales) /\ DOMAIN sales = 1 .. Len(sales) /\ Len(sales) \in Nat
        /\ DOMAIN batches = 1 .. Len(batches)
    BY DEF RecordsInv, SoundSales, SoundBatches, IsList
  <1>2. S \subseteq 1 .. Len(sales)
    BY <1>1 DEF Counted
  <1>3. IsFiniteSet(1 .. Len(sales))
    BY <1>1, FS_Interval
  <1>4. IsFiniteSet(S)
    BY <1>2, <1>3, FS_Subset
  <1>5. ASSUME NEW i \in S
        PROVE  /\ sales[i].owner = user /\ sales[i].deleted = FALSE
               /\ sales[i].product \in OwnProducts(user)
               /\ sales[i].quantity \in Nat \ {0} /\ sales[i].date \in Int
               /\ sales[i].total \in Nat \cup {None}
               /\ sales[i].batch \in {None} \cup DOMAIN batches
    <2>1. sales[i].owner = user /\ ~sales[i].deleted /\ i \in 1 .. Len(sales)
      BY <1>2, Zenon DEF Counted
    <2>2. SoundSale(sales[i]) /\ sales[i].batch \in {None} \cup DOMAIN batches
          /\ DatedSale(sales[i], batches)
      BY <1>1, <2>1 DEF RecordsInv, SoundSales, ShownInv
    <2>3. PICK deleted \in BOOLEAN : deleted = sales[i].deleted
      BY <2>2 DEF SoundSale
    <2>4. sales[i].deleted = FALSE
      BY <2>1, <2>3, Zenon
    <2>5. QuantityLimit \in Nat /\ TotalTop \in Nat
      BY SalesRulesAssumption
    <2>6. sales[i].quantity \in Nat \ {0} /\ sales[i].total \in Nat \cup {None}
      BY <2>2, <2>5 DEF SoundSale
    <2>7. QED
      BY <2>1, <2>2, <2>4, <2>6 DEF SoundSale, DatedSale
  <1>6. S \subseteq Nat
    BY ONLY <1>1, <1>2
  <1>7. QED
    BY <1>2, <1>4, <1>5, <1>6, Zenon

\* The grid of a user's active products: as many days as there are from the first
\* sale to the last, each with what was sold on it
SoundGrid(daily, products) ==
    /\ daily.first \in Int /\ daily.last \in Int /\ daily.first <= daily.last
    /\ DOMAIN daily.series = products
    /\ \A p \in products : /\ IsList(daily.series[p]) /\ Len(daily.series[p]) = Days(daily)
                           /\ \A n \in 1 .. Days(daily) : daily.series[p][n] \in Nat

LEMMA RecordsAre ==
    ASSUME RecordsInv, ShownInv, NEW user, NEW records, records = ForecastRecords(user)
    PROVE  /\ IsFiniteSet(records)
           /\ \A r \in records : r.quantity \in Nat \ {0} /\ r.date \in Int
           /\ \A i \in Counted(user, None, None) :
                  \E r \in records : r.product = sales[i].product /\ r.date = sales[i].date
  <1>1. PICK S : S = Counted(user, None, None)
    OBVIOUS
  <1>2. /\ IsFiniteSet(S)
        /\ \A i \in S : sales[i].quantity \in Nat \ {0} /\ sales[i].date \in Int
    BY <1>1, CountedSales
  <1>3. PICK f : f = [i \in S |-> [id |-> i, product |-> sales[i].product, date |-> sales[i].date,
                                   quantity |-> sales[i].quantity]]
    OBVIOUS
  <1>4. DOMAIN f = S /\ records = {f[i] : i \in S}
    BY <1>1, <1>3, Zenon DEF ForecastRecords
  <1>5. IsFiniteSet(records)
    BY <1>2, <1>4, FiniteImage
  <1>6. \A i \in S : /\ f[i].product = sales[i].product /\ f[i].date = sales[i].date
                     /\ f[i].quantity = sales[i].quantity
    BY <1>3
  <1>7. QED
    BY <1>1, <1>2, <1>4, <1>5, <1>6

LEMMA GridIsSound ==
    ASSUME RecordsInv, ShownInv, NEW user \in Users,
           NEW daily, daily = Daily(user)
    PROVE  /\ SoundGrid(daily, ActiveProducts(user))
           /\ \A i \in Counted(user, None, None) :
                  sales[i].product \in ActiveProducts(user) => sales[i].date <= daily.last
  <1>1. PICK products, records : products = ActiveProducts(user) /\ records = ForecastRecords(user)
    OBVIOUS
  <1>2. /\ IsFiniteSet(records)
        /\ \A r \in records : r.quantity \in Nat \ {0} /\ r.date \in Int
        /\ \A i \in Counted(user, None, None) :
               \E r \in records : r.product = sales[i].product /\ r.date = sales[i].date
    BY <1>1, RecordsAre
  <1> DEFINE counted == {r \in records : r.product \in products /\ r.quantity > 0}
             dates == {r.date : r \in counted}
             first == IF dates = {} THEN Today ELSE Min(dates)
             last == IF dates = {} THEN Today ELSE Max(dates)
             series == [p \in products |-> [n \in 1 .. last - first + 1 |->
                          SumFunction([r \in {x \in counted : x.product = p /\ x.date = first + n - 1}
                                          |-> r.quantity])]]
  <1>3. \A r \in records : r \in counted <=> r.product \in products /\ r.quantity > 0
    OBVIOUS
  <1>4. dates = {r.date : r \in counted}
    OBVIOUS
  <1>5. /\ first = (IF dates = {} THEN Today ELSE Min(dates))
        /\ last = (IF dates = {} THEN Today ELSE Max(dates))
    OBVIOUS
  <1>6. series = [p \in products |-> [n \in 1 .. last - first + 1 |->
                     SumFunction([r \in {x \in counted : x.product = p /\ x.date = first + n - 1}
                                     |-> r.quantity])]]
    OBVIOUS
  <1>7. daily = [first |-> first, last |-> last, series |-> series]
    <2>1. daily = DailySales(products, records)
      BY <1>1 DEF Daily
    <2>2. QED
      BY <2>1, Zenon DEF DailySales
  <1>18. IsFiniteSet(counted) /\ counted \subseteq records
    BY <1>2, FS_Subset
  <1> HIDE DEF counted, dates, first, last, series
  <1>8. daily.first = first /\ daily.last = last /\ daily.series = series
    BY <1>7
  <1>9. IsFiniteSet(counted) /\ counted \subseteq records
    BY <1>18
  <1>10. IsFiniteSet(dates) /\ dates \subseteq Int
    <2>1. PICK f : f = [r \in counted |-> r.date]
      OBVIOUS
    <2>2. DOMAIN f = counted /\ dates = {f[r] : r \in counted}
      BY <1>4, <2>1
    <2>3. IsFiniteSet(dates)
      BY <1>9, <2>2, FiniteImage
    <2>4. QED
      BY <1>2, <1>4, <1>9, <2>3
  <1>11. /\ first \in Int /\ last \in Int /\ first <= last
         /\ \A d \in dates : d <= last
    <2>1. CASE dates = {}
      BY <1>5, <2>1, AnalyticsAssumption
    <2>2. CASE dates # {}
      <3>1. /\ Min(dates) \in dates /\ \A x \in dates : Min(dates) <= x
            /\ Max(dates) \in dates /\ \A x \in dates : x <= Max(dates)
        BY <1>10, <2>2, Extremes
      <3>2. QED
        BY <1>5, <1>10, <2>2, <3>1
    <2>3. QED
      BY <2>1, <2>2
  <1>12. ASSUME NEW i \in Counted(user, None, None), sales[i].product \in products
         PROVE  sales[i].date <= last
    <2>1. PICK r \in records : r.product = sales[i].product /\ r.date = sales[i].date
      BY <1>2
    <2>2. r \in counted
      BY <1>2, <1>3, <1>12, <2>1
    <2>3. QED
      BY <1>4, <1>11, <2>1, <2>2
  <1>13. ASSUME NEW p \in products, NEW day
         PROVE  SumFunction([r \in {x \in counted : x.product = p /\ x.date = day} |-> r.quantity])
                \in Nat
    <2>1. PICK sold : sold = {x \in counted : x.product = p /\ x.date = day}
      OBVIOUS
    <2>2. IsFiniteSet(sold) /\ sold \subseteq records
      BY <1>9, <2>1, FS_Subset
    <2>3. PICK f : f = [r \in sold |-> r.quantity]
      OBVIOUS
    <2>4. DOMAIN f = sold /\ \A r \in sold : f[r] \in Nat
      BY <1>2, <2>2, <2>3
    <2>5. SumFunction(f) \in Nat
      BY <2>2, <2>4, SumIs, SumNatural
    <2>6. QED
      BY <2>1, <2>3, <2>5
  <1>14. Days(daily) = last - first + 1 /\ Days(daily) \in Nat
    BY <1>8, <1>11 DEF Days
  <1>15. ASSUME NEW p \in products
         PROVE  /\ IsList(series[p]) /\ Len(series[p]) = Days(daily)
                /\ \A n \in 1 .. Days(daily) : series[p][n] \in Nat
    <2>1. PICK days \in Nat : days = Days(daily)
      BY <1>14
    <2>2. PICK s : s = series[p]
      OBVIOUS
    <2>3. s = [n \in 1 .. days |->
                  SumFunction([r \in {x \in counted : x.product = p /\ x.date = first + n - 1}
                                  |-> r.quantity])]
      BY <1>6, <1>14, <2>1, <2>2
    <2>4. \A n \in 1 .. days : s[n] \in Nat
      BY <1>13, <2>3
    <2>5. DOMAIN s = 1 .. days /\ s = [n \in 1 .. days |-> s[n]]
      BY <2>3
    <2>6. IsList(s) /\ Len(s) = days
      BY <2>5, FunctionList
    <2>7. QED
      BY <2>1, <2>2, <2>4, <2>6
  <1>16. DOMAIN series = products
    BY <1>6
  <1>17. QED
    BY <1>1, <1>8, <1>11, <1>12, <1>15, <1>16 DEF SoundGrid

LEMMA FeaturesAreTheSame == ASSUME RecordsInv, ShownInv PROVE ServedAsTrained
  <1> SUFFICES ASSUME NEW user \in Users, NEW daily, daily = Daily(user),
                      NEW p \in DOMAIN daily.series, NEW n \in 1 .. Days(daily)
               PROVE  TrainingFeatures(daily.series[p], n)
                      = FutureFeatures(SubSeq(daily.series[p], 1, n - 1))
    BY Zenon DEF ServedAsTrained
  <1>1. IsList(daily.series[p]) /\ Len(daily.series[p]) = Days(daily)
    BY GridIsSound DEF SoundGrid
  <1>2. QED
    BY <1>1, SameFeatures

-----------------------------------------------------------------------------
(* Predictions *)

\* What a product sold, day by day
IsHistory(h) == IsList(h) /\ \A n \in 1 .. Len(h) : h[n] \in Nat

\* The forest answers any features with a number.
RegressorAnswers == \A h : IsHistory(h) => Regressor(FutureFeatures(h)) \in Int

LEMMA MeanIsNumber ==
    ASSUME NEW h, IsHistory(h), NEW days, days \subseteq 1 .. Len(h), days # {}
    PROVE  Mean(h, days) \in Int
  <1>1. IsFiniteSet(1 .. Len(h))
    <2>1. 1 \in Int /\ Len(h) \in Int
      BY DEF IsHistory, IsList
    <2>2. QED
      BY <2>1, FS_Interval
  <1>2. IsFiniteSet(days)
    BY <1>1, FS_Subset
  <1>3. PICK k \in Nat : k = Cardinality(days)
    BY <1>2, FS_CardinalityType
  <1>4. k # 0
    BY <1>2, <1>3, FS_EmptySet
  <1>5. PICK t : t = SumFunctionOnSet(h, days)
    OBVIOUS
  <1>6. t \in Nat
    BY <1>2, <1>5, SumNatural DEF IsHistory
  <1>7. t \div k \in Int
    BY <1>3, <1>4, <1>6
  <1>8. QED
    BY <1>3, <1>5, <1>7 DEF Mean

LEMMA FallbackIsNumber ==
    ASSUME NEW h, IsHistory(h)
    PROVE  FallbackPrediction(h) \in Int
  <1>1. PICK recent, positive :
            /\ recent = Largest(1, Len(h) - Week + 1) .. Len(h)
            /\ positive = {n \in DOMAIN h : h[n] > 0}
    OBVIOUS
  <1>2. FallbackPrediction(h)
        = (IF SumFunctionOnSet(h, recent) > 0 THEN Mean(h, recent)
           ELSE IF positive # {} THEN Mean(h, positive) ELSE 0)
    BY <1>1, Zenon DEF FallbackPrediction
  <1>3. Len(h) \in Nat /\ Week \in Nat \ {0} /\ DOMAIN h = 1 .. Len(h)
    BY PipelineAssumption DEF IsHistory, IsList
  <1>4. recent \subseteq 1 .. Len(h) /\ positive \subseteq 1 .. Len(h)
    BY <1>1, <1>3 DEF Largest
  <1>5. ASSUME SumFunctionOnSet(h, recent) > 0 PROVE recent # {}
    <2> SUFFICES ASSUME recent = {} PROVE FALSE
      OBVIOUS
    <2>1. SumFunctionOnSet(h, recent) = 0
      BY SumNone
    <2>2. QED
      BY <1>5, <2>1
  <1>6. recent # {} => Mean(h, recent) \in Int
    BY <1>4, MeanIsNumber
  <1>7. positive # {} => Mean(h, positive) \in Int
    BY <1>4, MeanIsNumber
  <1>8. QED
    BY <1>2, <1>5, <1>6, <1>7

LEMMA PredictionIsNatural ==
    ASSUME RegressorAnswers, NEW h, IsHistory(h), NEW fallback
    PROVE  Predicted(h, fallback) \in Nat
  <1>1. PICK x : x = IF fallback THEN FallbackPrediction(h) ELSE Regressor(FutureFeatures(h))
    OBVIOUS
  <1>2. x \in Int
    BY <1>1, FallbackIsNumber DEF RegressorAnswers
  <1>3. Predicted(h, fallback) = Largest(0, x)
    BY <1>1, Zenon DEF Predicted
  <1>4. QED
    BY <1>2, <1>3 DEF Largest

\* The histories of a product after each prediction of a run
IsGrown(f, s, fallback, m) ==
    f = [k \in 0 .. m |-> IF k = 0 THEN s ELSE Append(f[k - 1], Predicted(f[k - 1], fallback))]

LEMMA GrownExists ==
    ASSUME NEW s, NEW fallback, NEW m \in Nat
    PROVE  \E f : IsGrown(f, s, fallback, m)
  <1> DEFINE S == {k \in Nat : \E f : IsGrown(f, s, fallback, k)}
  <1>1. 0 \in S
    <2>1. IsGrown([k \in 0 .. 0 |-> s], s, fallback, 0)
      BY DEF IsGrown
    <2>2. QED
      BY <2>1
  <1>2. ASSUME NEW k \in Nat, k \in S PROVE k + 1 \in S
    <2>1. PICK f : IsGrown(f, s, fallback, k)
      BY <1>2
    <2>2. PICK e : e = Append(f[k], Predicted(f[k], fallback))
      OBVIOUS
    <2>3. PICK g : g = [n \in 0 .. k + 1 |-> IF n = k + 1 THEN e ELSE f[n]]
      OBVIOUS
    <2>4. \A n \in 0 .. k : g[n] = f[n]
      BY <2>3
    <2>5. g[k + 1] = e /\ DOMAIN g = 0 .. k + 1
      BY <2>3
    <2>6. g[0] = s
      BY <2>1, <2>4 DEF IsGrown
    <2>7. \A n \in 1 .. k + 1 : g[n] = Append(g[n - 1], Predicted(g[n - 1], fallback))
      <3>1. ASSUME NEW n \in 1 .. k
            PROVE  g[n] = Append(g[n - 1], Predicted(g[n - 1], fallback))
        <4>1. n \in 0 .. k /\ n # 0
          OBVIOUS
        <4>2. f[n] = Append(f[n - 1], Predicted(f[n - 1], fallback))
          BY <2>1, <4>1, Zenon DEF IsGrown
        <4>3. g[n] = f[n] /\ g[n - 1] = f[n - 1]
          BY <2>4
        <4>4. QED
          BY <4>2, <4>3
      <3>2. g[k + 1] = Append(g[k], Predicted(g[k], fallback))
        BY <2>2, <2>4, <2>5
      <3>3. QED
        BY <3>1, <3>2
    <2>8. IsGrown(g, s, fallback, k + 1)
      <3>1. \A n \in 0 .. k + 1 :
               g[n] = IF n = 0 THEN s ELSE Append(g[n - 1], Predicted(g[n - 1], fallback))
        <4> SUFFICES ASSUME NEW n \in 0 .. k + 1
                     PROVE  g[n] = IF n = 0 THEN s
                                   ELSE Append(g[n - 1], Predicted(g[n - 1], fallback))
          OBVIOUS
        <4>1. n = 0 \/ n \in 1 .. k + 1
          OBVIOUS
        <4>2. n \in 1 .. k + 1 => n # 0
          OBVIOUS
        <4>3. QED
          BY <2>6, <2>7, <4>1, <4>2, Zenon
      <3>2. g = [n \in 0 .. k + 1 |-> g[n]]
        BY <2>5, <2>3
      <3>3. QED
        BY <3>1, <3>2, Zenon DEF IsGrown
    <2>9. QED
      BY <2>8
  <1>3. QED
    BY <1>1, <1>2, NatSetInduction

\* A run of so many days appends a prediction for each, and none is negative.
LEMMA ExtendedIs ==
    ASSUME RegressorAnswers, NEW daily, NEW p, IsHistory(daily.series[p]), NEW horizon \in Nat
    PROVE  /\ IsHistory(Extended(daily, p, horizon))
           /\ Len(Extended(daily, p, horizon)) = Len(daily.series[p]) + horizon
  <1> DEFINE s == daily.series[p]
             fallback == UsesFallback(daily, p)
  <1>1. PICK f : IsGrown(f, s, fallback, horizon) /\ Extended(daily, p, horizon) = f[horizon]
    <2>1. \E f : IsGrown(f, s, fallback, horizon)
      BY GrownExists
    <2>2. QED
      BY <2>1, Zenon DEF IsGrown, Extended
  <1>2. IsHistory(s)
    OBVIOUS
  <1> HIDE DEF s, fallback
  <1> DEFINE S == {k \in Nat : k \in 0 .. horizon => /\ IsHistory(f[k])
                                                     /\ Len(f[k]) = Len(s) + k}
  <1>3. 0 \in S
    <2>1. f[0] = s
      BY <1>1 DEF IsGrown
    <2>2. Len(s) \in Nat
      BY <1>2 DEF IsHistory, IsList
    <2>3. QED
      BY <1>2, <2>1, <2>2
  <1>4. ASSUME NEW k \in Nat, k \in S PROVE k + 1 \in S
    <2> SUFFICES ASSUME k + 1 \in 0 .. horizon
                 PROVE  IsHistory(f[k + 1]) /\ Len(f[k + 1]) = Len(s) + (k + 1)
      OBVIOUS
    <2>1. PICK h : h = f[k]
      OBVIOUS
    <2>2. IsHistory(h) /\ Len(h) = Len(s) + k
      BY <1>4, <2>1
    <2>3. PICK e : e = Predicted(h, fallback)
      OBVIOUS
    <2>4. e \in Nat
      BY <2>2, <2>3, PredictionIsNatural
    <2>5. f[k + 1] = Append(h, e)
      <3>1. k + 1 \in 0 .. horizon /\ k + 1 # 0 /\ (k + 1) - 1 = k
        OBVIOUS
      <3>2. f[k + 1] = Append(f[(k + 1) - 1], Predicted(f[(k + 1) - 1], fallback))
        BY <1>1, <3>1, Zenon DEF IsGrown
      <3>3. QED
        BY <2>1, <2>3, <3>1, <3>2
    <2>6. PICK g : g = f[k + 1]
      OBVIOUS
    <2>7. /\ IsList(g) /\ Len(g) = Len(h) + 1 /\ g[Len(h) + 1] = e
          /\ \A i \in 1 .. Len(h) : g[i] = h[i]
      <3>1. IsList(h) /\ g = Append(h, e)
        BY <2>2, <2>5, <2>6 DEF IsHistory
      <3>2. QED
        BY ONLY <3>1 DEF IsList
    <2>8. Len(s) \in Nat
      BY <1>2 DEF IsHistory, IsList
    <2>9. IsHistory(g)
      BY <2>2, <2>4, <2>7 DEF IsHistory, IsList
    <2>10. QED
      BY <2>2, <2>6, <2>7, <2>8, <2>9
  <1>5. horizon \in S
    <2> HIDE DEF S
    <2>1. Nat \subseteq S
      BY <1>3, <1>4, NatSetInduction
    <2>2. QED
      BY <2>1
  <1>6. QED
    BY <1>1, <1>5 DEF s

\* Each product once for each day
LEMMA PredictionsAre ==
    ASSUME RegressorAnswers, NEW daily, NEW products, IsFiniteSet(products),
           SoundGrid(daily, products), NEW horizon \in Nat,
           NEW predictions, predictions = Predictions(daily, horizon)
    PROVE  /\ IsFiniteSet(predictions)
           /\ Cardinality(predictions) = horizon * Cardinality(products)
           /\ \A p \in products, offset \in 1 .. horizon :
                  \E x \in predictions : x.product = p /\ x.date = daily.last + offset
           /\ \A x \in predictions :
                  /\ x.product \in products /\ x.demand \in Nat
                  /\ \E offset \in 1 .. horizon : x.date = daily.last + offset
  <1>1. /\ daily.first \in Int /\ daily.last \in Int /\ daily.first <= daily.last
        /\ DOMAIN daily.series = products /\ Days(daily) \in Nat
        /\ \A p \in products : IsHistory(daily.series[p]) /\ Len(daily.series[p]) = Days(daily)
    BY DEF SoundGrid, IsHistory, Days
  <1> DEFINE Demand(p, offset) == Extended(daily, p, horizon)[Days(daily) + offset]
             Of(p, offset) == [product |-> p, date |-> daily.last + offset,
                               demand |-> Demand(p, offset)]
             T == products \X (1 .. horizon)
             f == [t \in T |-> Of(t[1], t[2])]
  <1>2. predictions = {Of(p, offset) : p \in products, offset \in 1 .. horizon}
    <2>1. predictions = {Of(p, offset) : p \in DOMAIN daily.series, offset \in 1 .. horizon}
      BY DEF Predictions
    <2> HIDE DEF Of
    <2>2. QED
      BY <1>1, <2>1
  <1>3. ASSUME NEW p \in products, NEW offset \in 1 .. horizon
        PROVE  Demand(p, offset) \in Nat
    <2>1. PICK h : h = Extended(daily, p, horizon)
      OBVIOUS
    <2>2. IsHistory(h) /\ Len(h) = Days(daily) + horizon
      <3>1. IsHistory(daily.series[p]) /\ Len(daily.series[p]) = Days(daily)
        BY <1>1
      <3>2. QED
        BY ONLY RegressorAnswers, horizon \in Nat, <2>1, <3>1, ExtendedIs
    <2>3. Days(daily) + offset \in 1 .. Len(h)
      BY <1>1, <2>2
    <2>4. h[Days(daily) + offset] \in Nat
      BY <2>2, <2>3 DEF IsHistory
    <2>5. QED
      BY <2>1, <2>4
  <1>4. \A p, offset : /\ Of(p, offset).product = p
                       /\ Of(p, offset).date = daily.last + offset
                       /\ Of(p, offset).demand = Demand(p, offset)
    OBVIOUS
  <1>5. DOMAIN f = T /\ \A t \in T : f[t] = Of(t[1], t[2])
    OBVIOUS
  <1>6. \A t \in T : t[1] \in products /\ t[2] \in 1 .. horizon /\ t = <<t[1], t[2]>>
    OBVIOUS
  <1>7. \A p \in products, offset \in 1 .. horizon :
            <<p, offset>> \in T /\ <<p, offset>>[1] = p /\ <<p, offset>>[2] = offset
    OBVIOUS
  <1>8. IsFiniteSet(1 .. horizon) /\ Cardinality(1 .. horizon) = horizon
    <2>1. 1 \in Int /\ horizon \in Int
      OBVIOUS
    <2>2. QED
      BY <2>1, FS_Interval
  <1>9. IsFiniteSet(T) /\ Cardinality(T) = Cardinality(products) * horizon
    BY <1>8, FS_Product
  <1>14. f = [t \in T |-> f[t]]
    OBVIOUS
  <1> HIDE DEF Of, T, f, Demand
  <1>10. f \in Bijection(T, predictions)
    <2>1. \A t \in T : f[t] \in predictions
      BY <1>2, <1>5, <1>6
    <2>2. \A t, u \in T : f[t] = f[u] => t = u
      <3> SUFFICES ASSUME NEW t \in T, NEW u \in T, f[t] = f[u] PROVE t = u
        OBVIOUS
      <3>1. Of(t[1], t[2]) = Of(u[1], u[2])
        BY <1>5
      <3>2. t[1] = u[1] /\ daily.last + t[2] = daily.last + u[2]
        BY <1>4, <3>1
      <3>3. t[2] \in Int /\ u[2] \in Int
        BY <1>6
      <3>4. t[2] = u[2]
        BY <1>1, <3>2, <3>3
      <3>5. QED
        BY <1>6, <3>2, <3>4
    <2>3. \A x \in predictions : \E t \in T : f[t] = x
      <3> SUFFICES ASSUME NEW x \in predictions PROVE \E t \in T : f[t] = x
        OBVIOUS
      <3>1. PICK p \in products, offset \in 1 .. horizon : x = Of(p, offset)
        BY <1>2
      <3>2. f[<<p, offset>>] = x
        BY <1>5, <1>7, <3>1
      <3>3. QED
        BY <1>7, <3>2
    <2>4. QED
      BY <1>5, <1>14, <2>1, <2>2, <2>3 DEF Bijection, Injection, Surjection, IsInjective
  <1>11. IsFiniteSet(predictions) /\ Cardinality(predictions) = Cardinality(T)
    BY <1>9, <1>10, FS_Bijection DEF ExistsBijection
  <1>12. Cardinality(products) * horizon = horizon * Cardinality(products)
    <2>1. Cardinality(products) \in Nat
      BY FS_CardinalityType
    <2>2. QED
      BY <2>1
  <1>13. QED
    BY <1>2, <1>3, <1>4, <1>9, <1>11, <1>12

\* Validation keeps the last days of the grid, and training the rest.
LEMMA DaysSplit ==
    ASSUME NEW daily, NEW products, IsFiniteSet(products), products # {},
           SoundGrid(daily, products), NEW metrics, metrics = Metrics(daily)
    PROVE  /\ metrics.training_rows + metrics.validation_rows = FrameRows(daily)
           /\ \A t \in TrainingDays(daily), v \in ValidationDays(daily) : t < v
           /\ metrics.validation_rows > 0 => metrics.training_rows >= MinModelRows
           /\ metrics.fallback_products <= metrics.total_products
  <1>1. PICK N : N = Days(daily)
    OBVIOUS
  <1>2. N \in Nat \ {0} /\ DOMAIN daily.series = products
    BY <1>1 DEF SoundGrid, Days
  <1>3. PICK P \in Nat : P = Cardinality(products)
    BY FS_CardinalityType
  <1>4. PICK kept : kept = Smallest(MaxValidationDays, Largest(1, N \div ValidationShare))
    OBVIOUS
  <1>5. kept \in 1 .. N
    <2>1. MaxValidationDays \in Nat \ {0} /\ ValidationShare \in Nat \ {0}
      BY PipelineAssumption
    <2>2. PICK q : q = N \div ValidationShare
      OBVIOUS
    <2>3. q \in Nat /\ q <= N
      <3>1. PICK w \in Nat \ {0} : w = ValidationShare
        BY <2>1
      <3>2. q = N \div w
        BY <2>2, <3>1
      <3>3. PICK r : r = N % w
        OBVIOUS
      <3>4. q \in Nat /\ r \in Nat /\ N = w * q + r
        BY <1>2, <3>2, <3>3
      <3>5. w * q = q + (w - 1) * q /\ (w - 1) * q \in Nat
        BY <3>4
      <3>6. QED
        BY <1>2, <3>4, <3>5
    <2>4. QED
      BY <1>2, <1>4, <2>1, <2>2, <2>3 DEF Smallest, Largest
  <1>6. PICK V, T : V = ValidationDays(daily) /\ T = TrainingDays(daily)
    OBVIOUS
  <1>7. V = {} \/ (V = N - kept + 1 .. N /\ P * (N - kept) >= MinModelRows)
    <2>1. PICK left : left = Cardinality(DOMAIN daily.series) * (Days(daily) - kept)
      OBVIOUS
    <2>2. V = (IF Trained(daily) /\ N >= MinValidationDays + 2 /\ left >= MinModelRows
               THEN N - kept + 1 .. N ELSE {})
      BY <1>1, <1>4, <1>6, <2>1, Zenon DEF ValidationDays
    <2>3. left = P * (N - kept)
      BY <1>1, <1>2, <1>3, <2>1
    <2>4. QED
      BY <2>2, <2>3
  <1>8. T = (1 .. N) \ V
    BY <1>1, <1>6 DEF TrainingDays
  <1>9. V \subseteq 1 .. N /\ \A t \in T, v \in V : t < v
    BY <1>2, <1>5, <1>7, <1>8
  <1>10. IsFiniteSet(1 .. N) /\ Cardinality(1 .. N) = N
    <2>1. 1 \in Int /\ N \in Int
      BY <1>2
    <2>2. QED
      BY <1>2, <2>1, FS_Interval
  <1>11. /\ IsFiniteSet(V) /\ IsFiniteSet(T)
         /\ Cardinality(T) = N - Cardinality(V)
    <2>1. (1 .. N) \cap V = V
      BY <1>9
    <2>2. IsFiniteSet(V)
      BY <1>9, <1>10, FS_Subset
    <2>3. IsFiniteSet(T) /\ Cardinality(T) = Cardinality(1 .. N) - Cardinality((1 .. N) \cap V)
      BY ONLY <1>8, <1>10, FS_Difference
    <2>4. QED
      BY <1>10, <2>1, <2>2, <2>3
  <1>12. PICK v \in Nat, t \in Nat : v = Cardinality(V) /\ t = Cardinality(T)
    BY <1>11, FS_CardinalityType
  <1>13. /\ metrics.training_rows = P * t /\ metrics.validation_rows = P * v
         /\ metrics.total_products = P
    <2>1. metrics = [training_rows |-> Cardinality(DOMAIN daily.series) * Cardinality(TrainingDays(daily)),
                     validation_rows |-> Cardinality(DOMAIN daily.series) * Cardinality(ValidationDays(daily)),
                     total_products |-> Cardinality(DOMAIN daily.series),
                     fallback_products |->
                         Cardinality({p \in DOMAIN daily.series : UsesFallback(daily, p)})]
      BY Zenon DEF Metrics
    <2>2. QED
      BY <1>2, <1>3, <1>6, <1>12, <2>1
  <1>14. metrics.fallback_products <= P
    <2>1. PICK fallback : fallback = {p \in DOMAIN daily.series : UsesFallback(daily, p)}
      OBVIOUS
    <2>2. metrics.fallback_products = Cardinality(fallback)
      BY <2>1 DEF Metrics
    <2>3. fallback \subseteq products
      BY <1>2, <2>1
    <2>4. QED
      BY <1>3, <2>2, <2>3, FS_Subset
  <1>15. FrameRows(daily) = P * N
    BY <1>1, <1>2, <1>3 DEF FrameRows
  <1>16. P * t + P * v = P * N
    <2>1. t + v = N
      BY <1>2, <1>11, <1>12
    <2>2. P * (t + v) = P * t + P * v
      OBVIOUS
    <2>3. QED
      BY <2>1, <2>2
  <1>17. P * v > 0 => P * t >= MinModelRows
    <2>1. CASE V = {}
      <3>1. v = 0
        BY <1>12, <2>1, FS_EmptySet
      <3>2. QED
        BY <3>1
    <2>2. CASE V = N - kept + 1 .. N /\ P * (N - kept) >= MinModelRows
      <3>1. N - kept + 1 \in Int /\ N \in Int
        BY <1>2, <1>5
      <3>2. v = N - (N - kept + 1) + 1
        BY <1>2, <1>5, <1>12, <2>2, <3>1, FS_Interval
      <3>3. t = N - kept
        BY <1>2, <1>5, <1>11, <1>12, <3>2
      <3>4. QED
        BY <2>2, <3>3
    <2>3. QED
      BY <1>7, <2>1, <2>2
  <1>18. QED
    BY <1>6, <1>9, <1>13, <1>14, <1>15, <1>16, <1>17

\* The days of a forecast have no actual demand for a product that is on the grid.
LEMMA NoActualDemandYet ==
    ASSUME RecordsInv, ShownInv, NEW user \in Users, NEW p \in ActiveProducts(user),
           NEW last \in Int,
           \A i \in Counted(user, None, None) : sales[i].product = p => sales[i].date <= last,
           NEW from \in Int, last < from, NEW to, NEW interval
    PROVE  DOMAIN ActualDemand(user, from, to, interval, p) = {}
  <1>1. p # None /\ from # None
    BY AnalyticsAssumption, SalesRulesAssumption DEF ActiveProducts, OwnProducts
  <1>2. PICK S : S = {i \in Counted(user, from, to) : p \in {None, sales[i].product}}
    OBVIOUS
  <1>3. ASSUME NEW i \in S PROVE FALSE
    <2>1. i \in Counted(user, from, to) /\ sales[i].product = p
      BY <1>1, <1>2
    <2>2. i \in Counted(user, None, None) /\ from <= sales[i].date
      BY <1>1, <2>1 DEF Counted, InRange
    <2>3. sales[i].date \in Int /\ sales[i].date <= last
      BY <2>1, <2>2, CountedSales
    <2>4. QED
      BY <2>2, <2>3
  <1>4. S = {}
    BY <1>3
  <1>5. DOMAIN PerPeriod(S, interval) = {}
    BY <1>4 DEF PerPeriod
  <1>6. DOMAIN ActualDemand(user, from, to, interval, p) = DOMAIN PerPeriod(S, interval)
    BY <1>2 DEF ActualDemand
  <1>7. QED
    BY <1>5, <1>6

LEMMA ChartIsAhead ==
    ASSUME RecordsInv, ShownInv, NEW user \in Users, NEW p \in ActiveProducts(user),
           NEW last \in Int,
           \A i \in Counted(user, None, None) : sales[i].product = p => sales[i].date <= last,
           NEW predictions, IsFiniteSet(predictions), predictions # {},
           \A x \in predictions : x.date \in Int /\ x.date > last,
           NEW interval, NEW points, points = ChartPoints(user, predictions, interval, p)
    PROVE  \A period \in DOMAIN points : points[period].actual = None
  <1>1. PICK dates : dates = {x.date : x \in predictions}
    OBVIOUS
  <1>2. IsFiniteSet(dates)
    <2>1. PICK f : f = [x \in predictions |-> x.date]
      OBVIOUS
    <2>2. DOMAIN f = predictions /\ dates = {f[x] : x \in predictions}
      BY <1>1, <2>1
    <2>3. QED
      BY <2>2, FiniteImage
  <1>3. dates \subseteq Int /\ dates # {} /\ \A d \in dates : d > last
    BY <1>1
  <1>4. Min(dates) \in dates
    BY <1>2, <1>3, Extremes
  <1>5. PICK actual : actual = ActualDemand(user, Min(dates), Max(dates), interval, p)
    OBVIOUS
  <1>6. DOMAIN actual = {}
    <2>1. Min(dates) \in Int /\ last < Min(dates)
      BY <1>3, <1>4
    <2>2. QED
      BY <1>5, <2>1, NoActualDemandYet
  <1> DEFINE shown == {x \in predictions : p \in {None, x.product}}
             Demand(period) ==
                 SumFunction([x \in {y \in shown : PeriodStart(interval, y.date) = period} |-> x.demand])
             periods == {PeriodStart(interval, x.date) : x \in shown}
  <1>7. points = [period \in periods |->
                    [predicted |-> Demand(period),
                     actual |-> IF period \in DOMAIN actual THEN actual[period] ELSE None]]
    BY <1>1, <1>5, Zenon DEF ChartPoints
  <1> HIDE DEF Demand, periods, shown
  <1>8. QED
    BY <1>6, <1>7

\* What ForecastsCoverTheHorizon says of the forecast of one user
Covers(user, daily, predictions, metrics) ==
    /\ Cardinality(predictions) = Horizon * Cardinality(ActiveProducts(user))
    /\ \A p \in ActiveProducts(user), offset \in 1 .. Horizon :
           \E x \in predictions : x.product = p /\ x.date = daily.last + offset
    /\ \A x \in predictions :
           /\ x.demand >= 0
           /\ \A i \in Counted(user, None, None) :
                  sales[i].product = x.product => sales[i].date < x.date
    /\ metrics.training_rows + metrics.validation_rows = FrameRows(daily)
    /\ \A t \in TrainingDays(daily), v \in ValidationDays(daily) : t < v
    /\ metrics.validation_rows > 0 => metrics.training_rows >= MinModelRows
    /\ metrics.fallback_products <= metrics.total_products
    /\ \A interval \in Intervals, p \in ActiveProducts(user) :
        LET points == ChartPoints(user, predictions, interval, p)
        IN \A period \in DOMAIN points : points[period].actual = None

LEMMA ForecastCovers ==
    ASSUME RecordsInv, ShownInv, RegressorAnswers,
           NEW user \in Users, EnoughData(user),
           NEW daily, daily = Daily(user),
           NEW predictions, predictions = Predictions(daily, Horizon),
           NEW metrics, metrics = Metrics(daily)
    PROVE  Covers(user, daily, predictions, metrics)
  <1>1. PICK products : products = ActiveProducts(user)
    OBVIOUS
  <1>2. IsFiniteSet(products) /\ products # {}
    <2>1. products \subseteq Products
      BY <1>1 DEF ActiveProducts, OwnProducts
    <2>2. QED
      BY <1>1, <2>1, AnalyticsAssumption, FS_Subset DEF EnoughData
  <1>3. SoundGrid(daily, products) /\ daily.last \in Int
    BY <1>1, GridIsSound DEF SoundGrid
  <1>4. \A i \in Counted(user, None, None) :
            sales[i].product \in products => sales[i].date <= daily.last
    BY <1>1, GridIsSound
  <1>5. Horizon \in Nat \ {0}
    BY AnalyticsAssumption
  <1>6. /\ IsFiniteSet(predictions)
        /\ Cardinality(predictions) = Horizon * Cardinality(products)
        /\ \A p \in products, offset \in 1 .. Horizon :
               \E x \in predictions : x.product = p /\ x.date = daily.last + offset
        /\ \A x \in predictions :
               /\ x.product \in products /\ x.demand \in Nat
               /\ \E offset \in 1 .. Horizon : x.date = daily.last + offset
    BY <1>2, <1>3, <1>5, PredictionsAre
  <1>7. \A x \in predictions : x.date \in Int /\ x.date > daily.last
    BY <1>3, <1>5, <1>6
  <1>8. \A x \in predictions :
            /\ x.demand >= 0
            /\ \A i \in Counted(user, None, None) :
                   sales[i].product = x.product => sales[i].date < x.date
    <2> SUFFICES ASSUME NEW x \in predictions
                 PROVE  /\ x.demand >= 0
                        /\ \A i \in Counted(user, None, None) :
                               sales[i].product = x.product => sales[i].date < x.date
      OBVIOUS
    <2>1. x.demand >= 0
      BY <1>6
    <2>2. ASSUME NEW i \in Counted(user, None, None), sales[i].product = x.product
          PROVE  sales[i].date < x.date
      <3>1. sales[i].date \in Int
        BY CountedSales
      <3>2. sales[i].date <= daily.last
        BY <1>4, <1>6, <2>2
      <3>3. QED
        BY <1>3, <1>7, <3>1, <3>2
    <2>3. QED
      BY <2>1, <2>2
  <1>9. predictions # {}
    <2>1. 1 \in 1 .. Horizon
      BY <1>5
    <2>2. QED
      BY <1>2, <1>6, <2>1
  <1>10. ASSUME NEW interval \in Intervals, NEW p \in products
         PROVE  LET points == ChartPoints(user, predictions, interval, p)
                IN \A period \in DOMAIN points : points[period].actual = None
    <2>1. \A i \in Counted(user, None, None) : sales[i].product = p => sales[i].date <= daily.last
      BY <1>4
    <2>2. PICK points : points = ChartPoints(user, predictions, interval, p)
      OBVIOUS
    <2>3. \A period \in DOMAIN points : points[period].actual = None
      BY <1>1, <1>3, <1>6, <1>7, <1>9, <2>1, <2>2, ChartIsAhead
    <2>4. QED
      BY <2>2, <2>3
  <1>11. /\ metrics.training_rows + metrics.validation_rows = FrameRows(daily)
         /\ \A t \in TrainingDays(daily), v \in ValidationDays(daily) : t < v
         /\ metrics.validation_rows > 0 => metrics.training_rows >= MinModelRows
         /\ metrics.fallback_products <= metrics.total_products
    BY <1>2, <1>3, DaysSplit
  <1>12. QED
    BY <1>1, <1>6, <1>8, <1>10, <1>11, Zenon DEF Covers

LEMMA ForecastsAreAhead ==
    ASSUME RecordsInv, ShownInv, RegressorAnswers
    PROVE  ForecastsCoverTheHorizon
  <1>1. ASSUME NEW user \in Users, EnoughData(user)
        PROVE  Covers(user, Daily(user), Predictions(Daily(user), Horizon), Metrics(Daily(user)))
    <2>1. PICK daily : daily = Daily(user)
      OBVIOUS
    <2>2. PICK predictions, metrics :
              predictions = Predictions(daily, Horizon) /\ metrics = Metrics(daily)
      OBVIOUS
    <2>3. Covers(user, daily, predictions, metrics)
      BY <1>1, <2>1, <2>2, ForecastCovers
    <2>4. QED
      BY <2>1, <2>2, <2>3
  <1>2. QED
    BY <1>1, Zenon DEF ForecastsCoverTheHorizon, Covers

-----------------------------------------------------------------------------
(* Sums of sales *)

\* Sales with quantities and totals that can be added up
Addable(S) == /\ IsFiniteSet(S)
              /\ \A i \in S : sales[i].quantity \in Nat /\ sales[i].total \in Nat \cup {None}

LEMMA SumsOfSales ==
    ASSUME NEW S, Addable(S),
           NEW q, \A i \in S : q[i] = sales[i].quantity,
           NEW t, \A i \in S : t[i] = sales[i].total
    PROVE  /\ Quantity(S) = SumFunctionOnSet(q, S)
           /\ Amount(S) = SumFunctionOnSet(t, Priced(S))
           /\ IsFiniteSet(Priced(S)) /\ Priced(S) \subseteq S
           /\ \A i \in S : q[i] \in Int /\ (i \in Priced(S) => t[i] \in Int)
  <1>1. IsFiniteSet(S)
    BY DEF Addable
  <1>2. IsFiniteSet(Priced(S)) /\ Priced(S) \subseteq S
    BY <1>1, FS_Subset DEF Priced
  <1>3. Quantity(S) = SumFunctionOnSet(q, S)
    <2>1. PICK f : f = [i \in S |-> sales[i].quantity]
      OBVIOUS
    <2>2. DOMAIN f = S /\ \A i \in S : f[i] = q[i]
      BY <2>1
    <2>3. SumFunction(f) = SumFunctionOnSet(f, S)
      BY <2>2, SumIs
    <2>4. SumFunctionOnSet(f, S) = SumFunctionOnSet(q, S)
      BY <1>1, <2>2, SumSame
    <2>5. QED
      BY <2>1, <2>3, <2>4 DEF Quantity
  <1>4. Amount(S) = SumFunctionOnSet(t, Priced(S))
    <2>1. PICK f : f = [i \in Priced(S) |-> sales[i].total]
      OBVIOUS
    <2>2. DOMAIN f = Priced(S) /\ \A i \in Priced(S) : f[i] = t[i]
      BY <1>2, <2>1
    <2>3. SumFunction(f) = SumFunctionOnSet(f, Priced(S))
      BY <2>2, SumIs
    <2>4. SumFunctionOnSet(f, Priced(S)) = SumFunctionOnSet(t, Priced(S))
      BY <1>2, <2>2, SumSame
    <2>5. QED
      BY <2>1, <2>3, <2>4 DEF Amount
  <1>5. ASSUME NEW i \in S PROVE q[i] \in Int /\ (i \in Priced(S) => t[i] \in Int)
    BY DEF Addable, Priced
  <1>6. QED
    BY <1>2, <1>3, <1>4, <1>5

\* GROUP BY: rows of figures by what h says of a sale
GroupedBy(rows, h, part, S) ==
    /\ \A i \in S : h[i] \in DOMAIN rows
    /\ \A k \in DOMAIN rows : /\ rows[k] = Figures(part[k]) /\ part[k] \subseteq S
                              /\ \A i \in S : i \in part[k] <=> h[i] = k

LEMMA GroupsTogether ==
    ASSUME NEW S, Addable(S), NEW rows, IsFiniteSet(DOMAIN rows), NEW h, NEW part,
           GroupedBy(rows, h, part, S)
    PROVE  Together(rows) = Figures(S)
  <1>1. PICK K : K = DOMAIN rows
    OBVIOUS
  <1>2. /\ IsFiniteSet(K) /\ IsFiniteSet(S)
        /\ \A i \in S : h[i] \in K
        /\ \A k \in K : /\ rows[k] = Figures(part[k]) /\ part[k] \subseteq S
                        /\ \A i \in S : i \in part[k] <=> h[i] = k
    BY <1>1 DEF GroupedBy, Addable
  <1>3. PICK q, t : q = [i \in S |-> sales[i].quantity] /\ t = [i \in S |-> sales[i].total]
    OBVIOUS
  <1>4. \A i \in S : q[i] = sales[i].quantity /\ t[i] = sales[i].total
    BY <1>3
  <1>5. /\ Quantity(S) = SumFunctionOnSet(q, S) /\ Amount(S) = SumFunctionOnSet(t, Priced(S))
        /\ IsFiniteSet(Priced(S)) /\ \A i \in S : q[i] \in Int
        /\ Priced(S) \subseteq S /\ \A i \in Priced(S) : t[i] \in Int
    BY <1>4, SumsOfSales
  <1>6. ASSUME NEW k \in K
        PROVE  /\ rows[k].count = Cardinality(part[k])
               /\ rows[k].quantity = SumFunctionOnSet(q, part[k])
               /\ rows[k].amount = SumFunctionOnSet(t, Priced(part[k]))
               /\ Priced(part[k]) \subseteq Priced(S)
               /\ \A i \in Priced(S) : i \in Priced(part[k]) <=> h[i] = k
    <2>1. PICK P : P = part[k]
      OBVIOUS
    <2>2. P \subseteq S /\ \A i \in S : i \in P <=> h[i] = k
      BY <1>2, <2>1
    <2>3. Addable(P)
      BY <1>2, <2>2, FS_Subset DEF Addable
    <2>4. Quantity(P) = SumFunctionOnSet(q, P) /\ Amount(P) = SumFunctionOnSet(t, Priced(P))
      <3>1. \A i \in P : q[i] = sales[i].quantity /\ t[i] = sales[i].total
        BY <1>4, <2>2
      <3>2. QED
        BY <2>3, <3>1, SumsOfSales
    <2>5. rows[k] = [count |-> Cardinality(P), quantity |-> Quantity(P), amount |-> Amount(P)]
      BY <1>2, <2>1, Zenon DEF Figures
    <2>6. Priced(P) \subseteq Priced(S) /\ \A i \in Priced(S) : i \in Priced(P) <=> h[i] = k
      BY <2>2 DEF Priced
    <2>7. QED
      BY <2>1, <2>4, <2>5, <2>6
  <1>7. PICK counts, quantities, amounts :
            /\ counts = [k \in K |-> rows[k].count]
            /\ quantities = [k \in K |-> rows[k].quantity]
            /\ amounts = [k \in K |-> rows[k].amount]
    OBVIOUS
  <1>8. Together(rows) = [count |-> SumFunction(counts), quantity |-> SumFunction(quantities),
                          amount |-> SumFunction(amounts)]
    BY <1>1, <1>7, Zenon DEF Together
  <1>9. SumFunction(counts) = Cardinality(S)
    <2>1. DOMAIN counts = K /\ \A k \in K : counts[k] = Cardinality(part[k])
      BY <1>6, <1>7
    <2>2. SumFunctionOnSet(counts, K) = Cardinality(S)
      BY ONLY <1>2, <2>1, CountByKind
    <2>3. QED
      BY <2>1, <2>2, SumIs
  <1>10. SumFunction(quantities) = Quantity(S)
    <2>1. DOMAIN quantities = K
          /\ \A k \in K : quantities[k] = SumFunctionOnSet(q, part[k])
      BY <1>6, <1>7
    <2>2. SumFunctionOnSet(quantities, K) = SumFunctionOnSet(q, S)
      BY ONLY <1>2, <1>5, <2>1, SumOfGroups
    <2>3. QED
      BY <1>5, <2>1, <2>2, SumIs
  <1>11. SumFunction(amounts) = Amount(S)
    <2>1. PICK priced : priced = [k \in K |-> Priced(part[k])]
      OBVIOUS
    <2>2. /\ DOMAIN amounts = K
          /\ \A k \in K : amounts[k] = SumFunctionOnSet(t, priced[k])
          /\ \A k \in K : /\ priced[k] \subseteq Priced(S)
                          /\ \A i \in Priced(S) : i \in priced[k] <=> h[i] = k
      BY <1>6, <1>7, <2>1
    <2>3. \A i \in Priced(S) : h[i] \in K
      BY <1>2, <1>5
    <2>4. SumFunctionOnSet(amounts, K) = SumFunctionOnSet(t, Priced(S))
      BY ONLY <1>2, <1>5, <2>2, <2>3, SumOfGroups
    <2>5. QED
      BY <1>5, <2>2, <2>4, SumIs
  <1>12. QED
    BY <1>8, <1>9, <1>10, <1>11 DEF Figures

LEMMA PeriodsTogether ==
    ASSUME NEW S, Addable(S), NEW interval
    PROVE  Together(PerPeriod(S, interval)) = Figures(S)
  <1>1. PICK h : h = [i \in S |-> PeriodStart(interval, sales[i].date)]
    OBVIOUS
  <1>2. PICK K : K = {PeriodStart(interval, sales[i].date) : i \in S}
    OBVIOUS
  <1>3. PICK part : part = [k \in K |-> {i \in S : PeriodStart(interval, sales[i].date) = k}]
    OBVIOUS
  <1>4. PICK rows : rows = PerPeriod(S, interval)
    OBVIOUS
  <1>5. rows = [k \in K |-> Figures({i \in S : PeriodStart(interval, sales[i].date) = k})]
    BY <1>2, <1>4, Zenon DEF PerPeriod
  <1>6. DOMAIN rows = K /\ \A k \in K : rows[k] = Figures(part[k])
    BY <1>3, <1>5
  <1>7. IsFiniteSet(K)
    <2>1. DOMAIN h = S /\ K = {h[i] : i \in S}
      BY <1>1, <1>2
    <2>2. QED
      BY <2>1, FiniteImage DEF Addable
  <1>8. GroupedBy(rows, h, part, S)
    BY <1>1, <1>2, <1>3, <1>6 DEF GroupedBy
  <1>9. QED
    BY <1>4, <1>6, <1>7, <1>8, GroupsTogether

LEMMA ProductsTogether ==
    ASSUME NEW S, Addable(S)
    PROVE  Together(PerProduct(S)) = Figures(S)
  <1>1. PICK h : h = [i \in S |-> sales[i].product]
    OBVIOUS
  <1>2. PICK K : K = ProductsSold(S)
    OBVIOUS
  <1>3. PICK part : part = [k \in K |-> {i \in S : sales[i].product = k}]
    OBVIOUS
  <1>4. PICK rows : rows = PerProduct(S)
    OBVIOUS
  <1>5. rows = [k \in K |-> Figures({i \in S : sales[i].product = k})]
    BY <1>2, <1>4, Zenon DEF PerProduct
  <1>6. DOMAIN rows = K /\ \A k \in K : rows[k] = Figures(part[k])
    BY <1>3, <1>5
  <1>7. IsFiniteSet(K)
    <2>1. DOMAIN h = S /\ K = {h[i] : i \in S}
      BY <1>1, <1>2 DEF ProductsSold
    <2>2. QED
      BY <2>1, FiniteImage DEF Addable
  <1>8. GroupedBy(rows, h, part, S)
    BY <1>1, <1>2, <1>3, <1>6 DEF GroupedBy, ProductsSold
  <1>9. QED
    BY <1>4, <1>6, <1>7, <1>8, GroupsTogether

-----------------------------------------------------------------------------
(* One set of sales on every screen *)

LEMMA CountedAddUp ==
    ASSUME RecordsInv, ShownInv, NEW user, NEW from, NEW to, NEW S \in SUBSET Counted(user, from, to)
    PROVE  Addable(S)
  <1>1. PICK C : C = Counted(user, from, to)
    OBVIOUS
  <1>2. IsFiniteSet(C) /\ \A i \in C : sales[i].quantity \in Nat /\ sales[i].total \in Nat \cup {None}
    BY <1>1, CountedSales
  <1>3. QED
    BY <1>1, <1>2, FS_Subset DEF Addable

\* What a product and a category leave of the sales that count
Chosen(user, from, to, product, category) ==
    {i \in Counted(user, from, to) :
        /\ product \in {None, sales[i].product}
        /\ category \in {None, Catalogue[sales[i].product].category}}

LEMMA ReportsCountChosen ==
    ASSUME RecordsInv, ShownInv, NEW user, NEW from, NEW to, NEW product, NEW category
    PROVE  ReportedSales(user, from, to, product, category)
           = Chosen(user, from, to, product, category)
  <1>1. \A i \in Counted(user, from, to) : Catalogue[sales[i].product].owner = user
    <2>1. \A i \in Counted(user, from, to) : sales[i].product \in OwnProducts(user)
      BY CountedSales
    <2>2. QED
      BY <2>1 DEF OwnProducts
  <1>2. QED
    BY <1>1, Zenon DEF ReportedSales, Chosen, Counted

LEMMA NothingChosen ==
    ASSUME NEW user, NEW from, NEW to
    PROVE  Chosen(user, from, to, None, None) = Counted(user, from, to)
  BY DEF Chosen

LEMMA ListsCount ==
    ASSUME NEW user, NEW from, NEW to
    PROVE  ListedSales(user, NoFilter(from, to)) = Counted(user, from, to)
  <1>1. PICK f : f = NoFilter(from, to)
    OBVIOUS
  <1>2. /\ f.include_deleted = FALSE /\ f.product = None /\ f.category = None /\ f.source = None
        /\ f.from = from /\ f.to = to
    BY <1>1 DEF NoFilter
  <1>3. ListedSales(user, f) = Counted(user, from, to)
    BY <1>2, Zenon DEF ListedSales, Counted
  <1>4. QED
    BY <1>1, <1>3

LEMMA AllAreCounted ==
    ASSUME NEW user
    PROVE  TotalSalesRecords(user) = Cardinality(Counted(user, None, None))
  <1>1. Counted(user, None, None) = {i \in DOMAIN sales : sales[i].owner = user /\ ~sales[i].deleted}
    BY Zenon DEF Counted, InRange
  <1>2. QED
    BY <1>1, Zenon DEF TotalSalesRecords

LEMMA SummaryIs ==
    ASSUME NEW user, NEW from, NEW to
    PROVE  Summary(user, from, to).figures = Figures(Counted(user, from, to))
  BY DEF Summary, Totals

LEMMA ResolvedAgree ==
    ASSUME RecordsInv, ShownInv, NEW user, NEW from, NEW to
    PROVE  ResolvedScreensAgree(user, from, to)
  <1>1. SalesReportTotals(user, from, to, None, None) = Summary(user, from, to)
    <2>1. ReportedSales(user, from, to, None, None) = Chosen(user, from, to, None, None)
      BY ReportsCountChosen, Zenon
    <2>2. Chosen(user, from, to, None, None) = Counted(user, from, to)
      BY ONLY NothingChosen, Zenon
    <2>3. QED
      BY ONLY <2>1, <2>2, Zenon DEF SalesReportTotals, Summary
  <1>2. ASSUME NEW interval, NEW product
        PROVE  LET actual == ActualDemand(user, from, to, interval, product)
                   trends == DemandTrends(user, from, to, interval, product, None)
               IN actual = [period \in DOMAIN trends |-> trends[period].quantity]
    <2>1. PICK S : S = {i \in Counted(user, from, to) : product \in {None, sales[i].product}}
      OBVIOUS
    <2>2. S = Chosen(user, from, to, product, None)
      BY <2>1 DEF Chosen
    <2>3. PICK days : days = PerPeriod(S, interval)
      OBVIOUS
    <2>4. ActualDemand(user, from, to, interval, product)
          = [period \in DOMAIN days |-> days[period].quantity]
      BY <2>1, <2>3, Zenon DEF ActualDemand
    <2>5. DemandTrends(user, from, to, interval, product, None) = days
      BY <2>2, <2>3, Zenon DEF DemandTrends, Chosen
    <2>6. QED
      BY <2>4, <2>5
  <1>3. QED
    BY <1>1, <1>2, Zenon DEF ResolvedScreensAgree

LEMMA FilteredAgree ==
    ASSUME RecordsInv, ShownInv, NEW user, NEW from, NEW to, NEW product, NEW category
    PROVE  FilteredScreensAgree(user, from, to, product, category)
  <1>1. PICK report : report = SalesReport(user, from, to, product, category)
    OBVIOUS
  <1>2. PICK r : r = ResolvedRange(from, to)
    OBVIOUS
  <1>3. CASE r.from > r.to \/ ~Visible(user, product, category)
    <2>1. report = ErrorAnswer
      BY <1>1, <1>2, <1>3, Zenon DEF SalesReport
    <2>2. \A interval : DashboardTrends(user, from, to, interval, product, category) = ErrorAnswer
      BY <1>2, <1>3, Zenon DEF DashboardTrends
    <2>3. QED
      BY <1>1, <2>1, <2>2, Zenon DEF FilteredScreensAgree
  <1>4. CASE ~(r.from > r.to \/ ~Visible(user, product, category))
    <2>1. PICK S : S = Chosen(user, r.from, r.to, product, category)
      OBVIOUS
    <2>2. ReportedSales(user, r.from, r.to, product, category) = S
      BY <2>1, ReportsCountChosen
    <2>3. report = [totals |-> Totals(S), rows |-> PerProduct(S)]
      <3>1. report = [totals |-> SalesReportTotals(user, r.from, r.to, product, category),
                      rows |-> SalesReportRows(user, r.from, r.to, product, category)]
        BY <1>1, <1>2, <1>4, Zenon DEF SalesReport
      <3>2. /\ SalesReportTotals(user, r.from, r.to, product, category) = Totals(S)
            /\ SalesReportRows(user, r.from, r.to, product, category) = PerProduct(S)
        BY <2>2, Zenon DEF SalesReportTotals, SalesReportRows
      <3>3. QED
        BY <3>1, <3>2
    <2>4. report # ErrorAnswer
      <3>1. DOMAIN report = {"totals", "rows"} /\ DOMAIN ErrorAnswer = {"error"}
        BY <2>3 DEF ErrorAnswer
      <3>2. "error" \notin DOMAIN report /\ "error" \in DOMAIN ErrorAnswer
        BY <3>1
      <3>3. QED
        BY <3>2
    <2>5. report.rows = PerProduct(S) /\ report.totals.figures = Figures(S)
      BY <2>3 DEF Totals
    <2>6. Addable(S)
      BY <2>1, CountedAddUp DEF Chosen
    <2>7. Together(report.rows) = report.totals.figures
      BY <2>5, <2>6, ProductsTogether
    <2>8. ASSUME NEW interval
          PROVE  Together(DashboardTrends(user, from, to, interval, product, category))
                 = report.totals.figures
      <3>1. DashboardTrends(user, from, to, interval, product, category)
            = DemandTrends(user, r.from, r.to, interval, product, category)
        BY <1>2, <1>4, Zenon DEF DashboardTrends
      <3>2. DemandTrends(user, r.from, r.to, interval, product, category) = PerPeriod(S, interval)
        BY <2>1, Zenon DEF DemandTrends, Chosen
      <3>3. QED
        BY <2>5, <2>6, <3>1, <3>2, PeriodsTogether
    <2>9. QED
      BY <1>1, <2>4, <2>7, <2>8, Zenon DEF FilteredScreensAgree
  <1>5. QED
    BY <1>3, <1>4

-----------------------------------------------------------------------------
(* Lists of sales and of uploads *)

LEMMA SalesAreOrdered ==
    ASSUME NEW rows \in SUBSET Nat, \A i \in rows : sales[i].date \in Int,
           NEW before, before = [x \in rows |-> {y \in rows : SaleBefore(y, x)}]
    PROVE  OrdersRows(before, rows)
  <1>1. PICK date : date = [i \in rows |-> sales[i].date]
    OBVIOUS
  <1>2. \A i \in rows : date[i] \in Int
    BY <1>1
  <1>3. \A x \in rows : \A y \in rows :
            y \in before[x] <=> date[y] > date[x] \/ (date[y] = date[x] /\ y > x)
    BY <1>1 DEF SaleBefore
  <1>4. \A x \in rows : before[x] \subseteq rows
    OBVIOUS
  <1>5. \A x \in rows : x \notin before[x]
    BY ONLY rows \in SUBSET Nat, <1>2, <1>3
  <1>6. \A x, y \in rows : x = y \/ x \in before[y] \/ y \in before[x]
    BY ONLY rows \in SUBSET Nat, <1>2, <1>3
  <1>7. \A x, y, z \in rows : y \in before[x] /\ z \in before[y] => z \in before[x]
    BY ONLY rows \in SUBSET Nat, <1>2, <1>3
  <1>8. \A x \in rows : \A y \in before[x] : before[y] \subseteq before[x]
    BY ONLY <1>4, <1>7
  <1>9. QED
    BY ONLY <1>4, <1>5, <1>6, <1>8 DEF OrdersRows

LEMMA PagesOfSales ==
    ASSUME NEW rows \in SUBSET Nat, IsFiniteSet(rows), \A i \in rows : sales[i].date \in Int
    PROVE  PagesMakeUp(rows, SaleBefore, 2)
  <1>1. PICK before : before = [x \in rows |-> {y \in rows : SaleBefore(y, x)}]
    OBVIOUS
  <1>2. OrdersRows(before, rows)
    BY <1>1, SalesAreOrdered
  <1>3. PICK s : s = [n \in 1 .. Cardinality(rows) |->
                         CHOOSE x \in rows : Cardinality(before[x]) = n - 1]
    OBVIOUS
  <1>4. PICK read : read = [n \in 1 .. ((Len(s) + 2 - 1) \div 2) |-> Page(s, 2, (n - 1) * 2)]
    OBVIOUS
  <1>5. 2 \in Nat \ {0}
    OBVIOUS
  <1>6. InOrder(s, before, rows) /\ Len(s) \in Nat
    <2>1. Cardinality(rows) \in Nat
      BY FS_CardinalityType
    <2>2. QED
      BY <1>3, <2>1 DEF InOrder
  <1>7. ReadInPages(read, s, 2)
    <2>1. PICK pages \in Nat : pages = (Len(s) + 2 - 1) \div 2
      BY <1>5, <1>6, PageCount
    <2>2. ASSUME NEW n \in 1 .. pages
          PROVE  Page(s, 2, (n - 1) * 2) = SubSeq(s, (n - 1) * 2 + 1, PageEnd(Len(s), 2, n))
      <3>1. (n - 1) * 2 + 2 = n * 2
        BY <2>1
      <3>2. QED
        BY <3>1, Zenon DEF Page, PageEnd
    <2>3. QED
      BY <1>4, <2>1, <2>2 DEF ReadInPages
  <1>8. Len(s) = Cardinality(rows) /\ ToSet(s) = rows /\ FlattenSeq(read) = s
    BY <1>2, <1>5, <1>6, <1>7, PagesOfRanks
  <1>9. s = Ordered(rows, SaleBefore)
    BY <1>1, <1>3 DEF Ordered
  <1>10. QED
    BY <1>4, <1>8, <1>9, Zenon DEF PagesMakeUp

\* The uploads of a user with one status, or all of them
UploadsWith(user, status) ==
    {b \in DOMAIN batches : batches[b].owner = user /\ status \in {None, batches[b].status}}

LEMMA UploadsListed ==
    ASSUME RecordsInv, NEW user, NEW status
    PROVE  /\ IsFiniteSet(UploadsWith(user, status))
           /\ Len(ListedUploads(user, status)) = Cardinality(UploadsWith(user, status))
           /\ ToSet(ListedUploads(user, status)) = UploadsWith(user, status)
  <1>1. PICK rows : rows = UploadsWith(user, status)
    OBVIOUS
  <1>2. IsFiniteSet(rows) /\ rows \subseteq Nat
    <2>1. DOMAIN batches = 1 .. Len(batches) /\ 1 \in Int /\ Len(batches) \in Int
      BY DEF RecordsInv, SoundBatches, IsList
    <2>2. IsFiniteSet(DOMAIN batches) /\ DOMAIN batches \subseteq Nat
      BY <2>1, FS_Interval
    <2>3. QED
      BY <1>1, <2>2, FS_Subset DEF UploadsWith
  <1>3. PICK before : before = [x \in rows |-> {y \in rows : Later(y, x)}]
    OBVIOUS
  <1>4. OrdersRows(before, rows)
    <2>1. \A x \in rows : \A y \in rows : y \in before[x] <=> y > x
      BY <1>3 DEF Later
    <2>2. \A x \in rows : before[x] \subseteq rows
      BY <1>3
    <2>3. \A x \in rows : x \notin before[x]
      BY ONLY <1>2, <2>1
    <2>4. \A x, y \in rows : x = y \/ x \in before[y] \/ y \in before[x]
      BY ONLY <1>2, <2>1
    <2>5. \A x, y, z \in rows : y \in before[x] /\ z \in before[y] => z \in before[x]
      BY ONLY <1>2, <2>1
    <2>6. \A x \in rows : \A y \in before[x] : before[y] \subseteq before[x]
      BY ONLY <2>2, <2>5
    <2>7. QED
      BY ONLY <2>2, <2>3, <2>4, <2>6 DEF OrdersRows
  <1>5. PICK s : s = [n \in 1 .. Cardinality(rows) |->
                         CHOOSE x \in rows : Cardinality(before[x]) = n - 1]
    OBVIOUS
  <1>6. PICK read : ReadInPages(read, s, 1)
    BY DEF ReadInPages
  <1>7. InOrder(s, before, rows)
    BY <1>5 DEF InOrder
  <1>8. Len(s) = Cardinality(rows) /\ ToSet(s) = rows
    <2>1. 1 \in Nat \ {0}
      OBVIOUS
    <2>2. QED
      BY <1>2, <1>4, <1>6, <1>7, <2>1, PagesOfRanks
  <1>9. s = Ordered(rows, Later)
    BY <1>3, <1>5 DEF Ordered
  <1>10. ListedUploads(user, status) = Ordered(rows, Later)
    BY <1>1, Zenon DEF ListedUploads, UploadsWith
  <1>11. QED
    BY <1>1, <1>2, <1>8, <1>9, <1>10

LEMMA RejectedRowsShown ==
    ASSUME RecordsInv, ShownInv, NEW user, NEW b \in DOMAIN batches
    PROVE  IF batches[b].owner = user THEN Len(RejectedRowsOf(user, b)) = batches[b].rejected
           ELSE RejectedRowsOf(user, b) = ErrorAnswer
  <1>1. CASE batches[b].owner # user
    BY <1>1, Zenon DEF RejectedRowsOf
  <1>2. CASE batches[b].owner = user
    <2>1. IsList(rejected) /\ IsList(batches) /\ SoundBatch(b) /\ b \in 1 .. Len(batches)
      BY DEF RecordsInv, SoundBatches, IsList
    <2>2. PICK P : P = {n \in DOMAIN rejected : rejected[n].owner = user /\ rejected[n].batch = b}
      OBVIOUS
    <2>3. P = RejectedOfBatch(b)
      BY <1>2, <2>1, <2>2 DEF RejectedOfBatch, ShownInv, IsList
    <2>4. RejectedRowsOf(user, b) = Taken(rejected, P)
      BY <1>2, <2>2, Zenon DEF RejectedRowsOf
    <2>5. P \in SUBSET (1 .. Len(rejected))
      BY <2>1, <2>2 DEF IsList
    <2>6. Len(Taken(rejected, P)) = Cardinality(P)
      BY ONLY <2>1, <2>5, TakenRows
    <2>7. QED
      BY <1>2, <2>1, <2>3, <2>4, <2>6 DEF SoundBatch
  <1>3. QED
    BY <1>1, <1>2

LEMMA SalesShown ==
    ASSUME RecordsInv, ShownInv, NEW user, NEW i \in Counted(user, None, None)
    PROVE  /\ TransactionOf(user, i, FALSE) # ErrorAnswer
           /\ TransactionOf(user, i, FALSE).batch \in {None} \cup UploadsWith(user, None)
  <1>1. sales[i].owner = user /\ ~sales[i].deleted /\ i \in 1 .. Len(sales)
    <2>1. i \in 1 .. Len(sales)
      BY CountedSales
    <2>2. QED
      BY <2>1, Zenon DEF Counted
  <1>2. TransactionOf(user, i, FALSE) = sales[i]
    BY <1>1, Zenon DEF TransactionOf
  <1>3. SoundSale(sales[i]) /\ DatedSale(sales[i], batches)
    BY <1>1 DEF RecordsInv, SoundSales, ShownInv
  <1>4. sales[i] # ErrorAnswer
    <2>1. DOMAIN sales[i] = SaleFields /\ DOMAIN ErrorAnswer = {"error"}
      BY <1>3 DEF SoundSale, ErrorAnswer
    <2>2. "error" \notin SaleFields
      BY DEF SaleFields
    <2>3. QED
      BY <2>1, <2>2
  <1>5. sales[i].batch \in {None} \cup UploadsWith(user, None)
    <2>1. sales[i].batch \in {None} \cup DOMAIN batches
      BY <1>1 DEF RecordsInv, SoundSales, SoundBatches, IsList
    <2>2. QED
      BY <1>1, <1>3, <2>1 DEF DatedSale, UploadsWith
  <1>6. QED
    BY <1>2, <1>4, <1>5

LEMMA UploadsByStatus ==
    ASSUME RecordsInv, ShownInv, NEW user
    PROVE  Cardinality(UploadsWith(user, None))
           = Cardinality(UploadsWith(user, "completed"))
             + Cardinality(UploadsWith(user, "completed_with_errors"))
             + Cardinality(UploadsWith(user, "failed"))
  <1>1. PICK A, B, C, D : /\ A = UploadsWith(user, "completed")
                          /\ B = UploadsWith(user, "completed_with_errors")
                          /\ C = UploadsWith(user, "failed")
                          /\ D = UploadsWith(user, None)
    OBVIOUS
  <1>2. IsFiniteSet(A) /\ IsFiniteSet(B) /\ IsFiniteSet(C)
    BY <1>1, UploadsListed
  <1>3. /\ "completed" # None /\ "completed_with_errors" # None /\ "failed" # None
    BY AnalyticsAssumption
  <1>4. \A b \in DOMAIN batches : batches[b].status \in BatchStatuses
    BY DEF RecordsInv, SoundBatches, IsList, ShownInv
  <1>5. /\ \A b \in DOMAIN batches : /\ b \in A <=> batches[b].owner = user /\ batches[b].status = "completed"
                                     /\ b \in B <=> batches[b].owner = user
                                                   /\ batches[b].status = "completed_with_errors"
                                     /\ b \in C <=> batches[b].owner = user /\ batches[b].status = "failed"
                                     /\ b \in D <=> batches[b].owner = user
        /\ A \cup B \cup C \cup D \subseteq DOMAIN batches
    BY <1>1, <1>3 DEF UploadsWith
  <1>6. D = (A \cup B) \cup C
    BY <1>4, <1>5 DEF BatchStatuses
  <1>7. A \cap B = {} /\ (A \cup B) \cap C = {}
    BY <1>5
  <1>8. IsFiniteSet(A \cup B) /\ Cardinality(A \cup B) = Cardinality(A) + Cardinality(B)
    <2>1. Cardinality(A \cup B) = Cardinality(A) + Cardinality(B) - Cardinality(A \cap B)
          /\ IsFiniteSet(A \cup B)
      BY <1>2, FS_Union
    <2>2. Cardinality(A) \in Nat /\ Cardinality(B) \in Nat /\ Cardinality(A \cap B) = 0
      BY <1>2, <1>7, FS_CardinalityType, FS_EmptySet
    <2>3. QED
      BY <2>1, <2>2
  <1>9. Cardinality(D) = Cardinality(A \cup B) + Cardinality(C)
    <2>1. Cardinality((A \cup B) \cup C)
          = Cardinality(A \cup B) + Cardinality(C) - Cardinality((A \cup B) \cap C)
      BY <1>2, <1>8, FS_Union
    <2>2. Cardinality(A \cup B) \in Nat /\ Cardinality(C) \in Nat /\ Cardinality((A \cup B) \cap C) = 0
      BY <1>2, <1>7, <1>8, FS_CardinalityType, FS_EmptySet
    <2>3. QED
      BY <1>6, <2>1, <2>2
  <1>10. QED
    BY <1>1, <1>8, <1>9

LEMMA UploadsShown ==
    ASSUME RecordsInv, ShownInv, NEW user
    PROVE  UploadsAgree(user)
  <1>1. \A b \in DOMAIN batches :
            IF batches[b].owner = user THEN Len(RejectedRowsOf(user, b)) = batches[b].rejected
            ELSE RejectedRowsOf(user, b) = ErrorAnswer
    BY RejectedRowsShown
  <1>2. \A i \in Counted(user, None, None) :
            /\ TransactionOf(user, i, FALSE) # ErrorAnswer
            /\ TransactionOf(user, i, FALSE).batch \in {None} \cup ToSet(ListedUploads(user, None))
    <2>1. ToSet(ListedUploads(user, None)) = UploadsWith(user, None)
      BY UploadsListed
    <2>2. QED
      BY <2>1, SalesShown
  <1>3. Len(ListedUploads(user, None))
        = Len(ListedUploads(user, "completed")) + Len(ListedUploads(user, "completed_with_errors"))
          + Len(ListedUploads(user, "failed"))
    BY UploadsListed, UploadsByStatus
  <1>4. QED
    BY <1>1, <1>2, <1>3, Zenon DEF UploadsAgree

\* What ScreensAgree says of one user and of one range of dates
UserScreens(user) ==
    /\ UploadsAgree(user)
    /\ PagesMakeUp(Counted(user, None, None), SaleBefore, 2)
    /\ ListTransactions(user, NoFilter(None, None), 1, 0).total = TotalSalesRecords(user)

RangeScreens(user, from, to) ==
    LET figures == Summary(user, from, to).figures
        r == ResolvedRange(from, to)
    IN
    /\ figures = Figures(ListedSales(user, NoFilter(from, to)))
    /\ figures = Together(ByProduct(user, from, to))
    /\ from = None /\ to = None => TotalSalesRecords(user) = figures.count
    /\ \A interval \in Intervals : figures = Together(Trends(user, from, to, interval))
    /\ r.from <= r.to => ResolvedScreensAgree(user, r.from, r.to)
    /\ \A product \in Products \cup {None},
          category \in {None} \cup {Catalogue[p].category : p \in Products} :
           to = None /\ None \in {product, category} =>
               FilteredScreensAgree(user, from, to, product, category)

LEMMA UserAgrees ==
    ASSUME RecordsInv, ShownInv, NEW user
    PROVE  UserScreens(user)
  <1>1. UploadsAgree(user)
    BY UploadsShown
  <1>2. PagesMakeUp(Counted(user, None, None), SaleBefore, 2)
    <2>1. PICK rows : rows = Counted(user, None, None)
      OBVIOUS
    <2>2. IsFiniteSet(rows) /\ rows \subseteq Nat /\ \A i \in rows : sales[i].date \in Int
      BY <2>1, CountedSales
    <2>3. PagesMakeUp(rows, SaleBefore, 2)
      BY <2>2, PagesOfSales
    <2>4. QED
      BY <2>1, <2>3, Zenon
  <1>3. ListTransactions(user, NoFilter(None, None), 1, 0).total = TotalSalesRecords(user)
    <2>1. PICK f : f = NoFilter(None, None)
      OBVIOUS
    <2>2. f.from = None /\ f.to = None /\ f.product = None
      BY <2>1 DEF NoFilter
    <2>3. ValidRange(f.from, f.to) /\ f.product \in {None} \cup OwnProducts(user)
      BY <2>2 DEF ValidRange
    <2>4. PICK rows, list : /\ rows = ListedSales(user, f)
                            /\ list = Page(Ordered(rows, SaleBefore), 1, 0)
      OBVIOUS
    <2>5. ListTransactions(user, f, 1, 0) = [rows |-> list, total |-> Cardinality(rows)]
      BY <2>3, <2>4, Zenon DEF ListTransactions
    <2>6. ListTransactions(user, f, 1, 0).total = Cardinality(Counted(user, None, None))
      BY <2>1, <2>4, <2>5, ListsCount
    <2>7. QED
      BY <2>1, <2>6, AllAreCounted
  <1>4. QED
    BY <1>1, <1>2, <1>3 DEF UserScreens

LEMMA RangesAgree ==
    ASSUME RecordsInv, ShownInv, NEW user, NEW from, NEW to
    PROVE  RangeScreens(user, from, to)
  <1>1. PICK figures : figures = Summary(user, from, to).figures
    OBVIOUS
  <1>2. PICK S : S = Counted(user, from, to)
    OBVIOUS
  <1>3. figures = Figures(S) /\ Addable(S)
    BY <1>1, <1>2, SummaryIs, CountedAddUp
  <1>4. figures = Figures(ListedSales(user, NoFilter(from, to)))
    BY <1>2, <1>3, ListsCount
  <1>5. figures = Together(ByProduct(user, from, to))
    BY <1>2, <1>3, ProductsTogether DEF ByProduct
  <1>6. from = None /\ to = None => TotalSalesRecords(user) = figures.count
    BY <1>2, <1>3, AllAreCounted DEF Figures
  <1>7. \A interval : figures = Together(Trends(user, from, to, interval))
    BY <1>2, <1>3, PeriodsTogether DEF Trends
  <1>8. \A f, t : ResolvedScreensAgree(user, f, t)
    BY ResolvedAgree
  <1>9. \A product, category : FilteredScreensAgree(user, from, to, product, category)
    BY FilteredAgree
  <1>10. QED
    BY <1>1, <1>4, <1>5, <1>6, <1>7, <1>8, <1>9, Zenon DEF RangeScreens

LEMMA AllScreensAgree == ASSUME RecordsInv, ShownInv PROVE ScreensAgree
  <1>1. \A user : UserScreens(user)
    BY UserAgrees
  <1>2. \A user, from, to : RangeScreens(user, from, to)
    BY RangesAgree
  <1>3. \A user \in Users :
            /\ UserScreens(user)
            /\ \A from, to \in Dates \cup {None} : ValidRange(from, to) => RangeScreens(user, from, to)
    BY <1>1, <1>2, Zenon
  <1>4. QED
    BY ONLY <1>3 DEF ScreensAgree, UserScreens, RangeScreens

-----------------------------------------------------------------------------
(* The theorems about what is shown *)

LEMMA ShownHolds == Spec => [](RecordsInv /\ ShownInv)
  <1>1. Init => ShownInv
    BY InitShown
  <1>2. RecordsInv /\ ShownInv /\ [Next]_vars => ShownInv'
    BY ShownStep
  <1>3. QED
    BY <1>1, <1>2, RecordsHold, PTL DEF Spec

\* Whatever sales are recorded, changed, deleted and uploaded: the lists, the
\* summaries, the trends, the report, the dashboard and the actual demand of a
\* forecast have the same sales behind them.
THEOREM ScreensShowTheSame == Spec => []ScreensAgree
  <1>1. RecordsInv /\ ShownInv => ScreensAgree
    BY AllScreensAgree
  <1>2. QED
    BY <1>1, ShownHolds, PTL

\* No day of the training frame has features that a prediction for it would not
\* have had: the lags and windows of _add_history_features and of
\* future_feature_row are the same.
THEOREM FeaturesAreServed == Spec => []ServedAsTrained
  <1>1. RecordsInv /\ ShownInv => ServedAsTrained
    BY FeaturesAreTheSame
  <1>2. QED
    BY <1>1, ShownHolds, PTL

\* If the forest answers with numbers, a run predicts each active product for each
\* day of its horizon, nothing less than zero, and no day that has been sold on.
THEOREM RunsCoverTheirHorizon == RegressorAnswers => (Spec => []ForecastsCoverTheHorizon)
  <1> SUFFICES ASSUME RegressorAnswers PROVE Spec => []ForecastsCoverTheHorizon
    OBVIOUS
  <1>1. RecordsInv /\ ShownInv => ForecastsCoverTheHorizon
    BY ForecastsAreAhead
  <1>2. QED
    BY <1>1, ShownHolds, PTL
=============================================================================
