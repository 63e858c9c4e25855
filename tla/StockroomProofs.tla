-------------------------- MODULE StockroomProofs --------------------------
(***************************************************************************)
(* What holds of the catalogue and its goods for any number of products,   *)
(* suppliers, units, receipts and requests in flight.                      *)
(***************************************************************************)
EXTENDS Stockroom, SumsProofs

-----------------------------------------------------------------------------
(* Shapes *)

LEMMA ProductShape ==
  ASSUME NEW row \in Product
  PROVE  /\ row # Unused /\ row # Gone /\ row.status = "listed"
         /\ row.sku \in Skus /\ row.outOfStock \in BOOLEAN
BY DEF Product, Unused, Gone

LEMMA ItemShape ==
  ASSUME NEW row \in Item
  PROVE  /\ row # Unused /\ row # Gone
         /\ row.status \in {"in_stock", "sold"} /\ row.batch \in Suppliers \cup {None}
BY DEF Item, Unused, Gone

LEMMA SaleShape ==
  ASSUME NEW row \in Sale \cup {NoSale, Deleted}
  PROVE  /\ row.lines \subseteq Items
         /\ row.status \in {"draft", "paid", "refunded"} => row \in Sale
         /\ row.status \notin {"draft", "paid", "refunded"} => row.lines = {}
BY DEF Sale, NoSale, Deleted

LEMMA Shapes ==
  ASSUME NEW q \in Request
  PROVE  /\ q.op \in {"idle", "create", "edit", "purge", "drop"} /\ q.fresh \in BOOLEAN
         /\ q.op = "create" => q.sku \in Skus /\ q.supplier \in Suppliers
         /\ q.op = "edit" => q.id \in Products /\ q.row \in Product
         /\ q.op = "purge" => q.products \subseteq Products /\ q.owner \in Suppliers
         /\ q.op = "drop" => /\ q.products \subseteq Products
                             /\ q.owner \in Suppliers \cup {None}
                             /\ q.lines \subseteq Sales \X Items
<1>1. CASE q = Idle
  BY <1>1 DEF Idle
<1>2. CASE q \in [op : {"create"}, sku : Skus, qty : {0, 1}, supplier : Suppliers,
                  fresh : BOOLEAN]
  BY <1>2
<1>3. CASE q \in [op : {"edit"}, id : Products, row : Product, fresh : BOOLEAN]
  BY <1>3
<1>4. CASE q \in [op : {"purge"}, products : SUBSET Products, owner : Suppliers,
                  fresh : BOOLEAN]
  BY <1>4
<1>5. CASE q \in [op : {"drop"}, products : SUBSET Products, owner : Suppliers \cup {None},
                  lines : SUBSET (Sales \X Items), fresh : BOOLEAN]
  BY <1>5
<1>6. QED
  BY <1>1, <1>2, <1>3, <1>4, <1>5 DEF Request

\* Marking a request as out of date changes nothing else of it.
LEMMA Outdating ==
  ASSUME NEW q \in Request, q # Idle
  PROVE  [q EXCEPT !.fresh = FALSE] \in Request /\ ~[q EXCEPT !.fresh = FALSE].fresh
<1>1. CASE q \in [op : {"create"}, sku : Skus, qty : {0, 1}, supplier : Suppliers,
                  fresh : BOOLEAN]
  BY <1>1 DEF Request
<1>2. CASE q \in [op : {"edit"}, id : Products, row : Product, fresh : BOOLEAN]
  BY <1>2 DEF Request
<1>3. CASE q \in [op : {"purge"}, products : SUBSET Products, owner : Suppliers,
                  fresh : BOOLEAN]
  BY <1>3 DEF Request
<1>4. CASE q \in [op : {"drop"}, products : SUBSET Products, owner : Suppliers \cup {None},
                  lines : SUBSET (Sales \X Items), fresh : BOOLEAN]
  BY <1>4 DEF Request
<1>5. QED
  BY <1>1, <1>2, <1>3, <1>4 DEF Request

LEMMA ListedRows ==
  ASSUME TypeOK, NEW p \in Products
  PROVE  p \in Existing <=> product[p] \in Product
<1>1. product[p] \in Product \cup {Unused, Gone}
  BY DEF TypeOK
<1>2. QED
  BY <1>1, ProductShape DEF Existing, Unused, Gone

LEMMA StoredRows ==
  ASSUME TypeOK, NEW i \in Items
  PROVE  i \in Stored <=> items[i] \in Item
<1>1. items[i] \in Item \cup {Unused, Gone}
  BY DEF TypeOK
<1>2. QED
  BY <1>1, ItemShape DEF Stored

LEMMA LinesAreItems ==
  ASSUME TypeOK, NEW s \in Sales
  PROVE  /\ sales[s] \in Sale \cup {NoSale, Deleted} /\ sales[s].lines \subseteq Items
         /\ IsFiniteSet(sales[s].lines)
         /\ Cardinality(sales[s].lines) \in 0..Cardinality(Items)
<1>1. sales[s] \in Sale \cup {NoSale, Deleted} /\ sales[s].lines \subseteq Items
  BY SaleShape DEF TypeOK
<1>2. IsFiniteSet(sales[s].lines) /\ Cardinality(sales[s].lines) <= Cardinality(Items)
  BY <1>1, FiniteStock, FS_Subset
<1>3. Cardinality(sales[s].lines) \in Nat /\ Cardinality(Items) \in Nat
  BY <1>2, FiniteStock, FS_CardinalityType
<1>4. QED
  BY <1>1, <1>2, <1>3

-----------------------------------------------------------------------------
(* Type correctness *)

LEMMA OutdatesType ==
  ASSUME TypeOK, NEW kept, Outdates(kept)
  PROVE  pending' \in [Requests -> Request]
<1>1. ASSUME NEW q \in Requests
      PROVE  (IF q \in kept \/ pending[q] = Idle THEN Idle
              ELSE [pending[q] EXCEPT !.fresh = FALSE]) \in Request
  <2>1. Idle \in Request /\ pending[q] \in Request
    BY DEF Request, TypeOK
  <2>2. QED
    BY <2>1, Outdating
<1>2. QED
  BY <1>1 DEF Outdates

LEMMA WritesType ==
  ASSUME TypeOK, NEW r \in Requests, Writes(r)
  PROVE  pending' \in [Requests -> Request] /\ overlapped' \in BOOLEAN
BY OutdatesType DEF Writes, TypeOK

LEMMA CommitsType ==
  ASSUME TypeOK, Commits
  PROVE  pending' \in [Requests -> Request] /\ UNCHANGED <<supplier, skuSeq, overlapped>>
BY OutdatesType DEF Commits

LEMMA StartsType ==
  ASSUME TypeOK, NEW r \in Requests, NEW q \in Request, Starts(r, q), skuSeq' \in 0..LastSku
  PROVE  TypeOK'
BY DEF Starts, TypeOK

\* TypeOK alone is no invariant: a line of an item that is gone would give it
\* a status.
Rooted == TypeOK /\ StockReferencesExist

LEMMA InitRooted == Init => Rooted
<1> SUFFICES ASSUME Init PROVE Rooted
  OBVIOUS
<1>1. TypeOK
  <2>1. Idle \in Request /\ 0 \in 0..LastSku /\ NoSale \in {NoSale, Deleted}
    BY Articles DEF Request
  <2>2. QED
    BY <2>1 DEF Init, TypeOK
<1>2. Existing = {} /\ Stored = {}
  BY DEF Init, Existing, Stored, Unused
<1>3. StockReferencesExist
  BY <1>2 DEF Init, StockReferencesExist, NoSale
<1>4. QED
  BY <1>1, <1>3 DEF Rooted

\* What references have to do with rows, so that steps can be compared.
LEMMA SameRows ==
  ASSUME Rooted, TypeOK', UNCHANGED <<supplier, items>>, Existing \subseteq Existing',
         \A p \in Existing' : supplier[SupplierOf[p]] # "gone",
         \A s \in Sales : sales'[s].lines \subseteq sales[s].lines
  PROVE  StockReferencesExist'
BY DEF Rooted, StockReferencesExist, Stored

LEMMA SettledRooted ==
  ASSUME Rooted, NEW s \in Sales, NEW status \in {"in_stock", "sold"}, Settled(s, status)
  PROVE  /\ product' \in [Products -> Product \cup {Unused, Gone}]
         /\ items' \in [Items -> Item \cup {Unused, Gone}]
         /\ \A i \in Items : /\ items'[i] \in Item <=> items[i] \in Item
                             /\ items[i] \in Item => items'[i].batch = items[i].batch
         /\ \A p \in Products : product'[p] \in Product <=> product[p] \in Product
<1> USE DEF Rooted
<1>1. ASSUME NEW i \in Items
      PROVE  /\ items'[i] \in Item \cup {Unused, Gone}
             /\ items'[i] \in Item <=> items[i] \in Item
             /\ items[i] \in Item => items'[i].batch = items[i].batch
  <2>1. CASE i \in sales[s].lines
    <3>1. items[i] \in Item
      BY <2>1, StoredRows DEF StockReferencesExist
    <3>2. items'[i] = [items[i] EXCEPT !.status = status]
      BY <2>1 DEF Settled
    <3>3. QED
      BY <3>1, <3>2 DEF Item
  <2>2. CASE i \notin sales[s].lines
    BY <2>2 DEF Settled, TypeOK
  <2>3. QED
    BY <2>1, <2>2
<1>2. ASSUME NEW p \in Products
      PROVE  /\ product'[p] \in Product \cup {Unused, Gone}
             /\ product'[p] \in Product <=> product[p] \in Product
  <2> DEFINE flag == \A i \in Units({p}) : items'[i].status = "sold"
  <2>1. CASE \E i \in sales[s].lines : ProductOf[i] = p
    <3>1. product[p] \in Product
      BY <2>1, ListedRows DEF StockReferencesExist
    <3>2. product'[p] = [product[p] EXCEPT !.outOfStock = flag]
      BY <2>1 DEF Settled
    <3>3. flag \in BOOLEAN
      OBVIOUS
    <3> HIDE DEF flag
    <3>4. QED
      BY <3>1, <3>2, <3>3 DEF Product
  <2>2. CASE ~\E i \in sales[s].lines : ProductOf[i] = p
    BY <2>2 DEF Settled, TypeOK
  <2>3. QED
    BY <2>1, <2>2
<1>3. QED
  BY <1>1, <1>2 DEF Settled

LEMMA RootedNext == Rooted /\ [Next]_vars => Rooted'
<1> SUFFICES ASSUME Rooted, [Next]_vars PROVE Rooted'
  OBVIOUS
<1> USE DEF Rooted
<1>0. ASSUME NEW r \in Requests, NEW q \in Request, Starts(r, q), skuSeq' \in 0..LastSku
      PROVE  Rooted'
  <2>1. TypeOK'
    BY <1>0, StartsType
  <2>2. QED
    BY <1>0, <2>1 DEF Starts, StockReferencesExist, Stored, Existing
<1>1. ASSUME NEW r \in Requests, NEW s \in Suppliers, NEW n \in Skus, NEW qty \in {0, 1},
             CreateNamed(r, s, n, qty) \/ CreateNumbered(r, s, n, qty)
      PROVE  Rooted'
  <2>1. [op |-> "create", sku |-> n, qty |-> qty, supplier |-> s, fresh |-> TRUE] \in Request
    BY DEF Request
  <2>2. skuSeq' \in 0..LastSku
    BY <1>1, Articles DEF CreateNamed, CreateNumbered, TypeOK, Skus
  <2>3. QED
    BY <1>0, <1>1, <2>1, <2>2 DEF CreateNamed, CreateNumbered, CreateCheck
<1>2. ASSUME NEW r \in Requests, NEW p \in Products, NEW units \in SUBSET Items,
             CreateCommit(r, p, units)
      PROVE  Rooted'
  <2>1. pending[r].sku \in Skus /\ pending[r].supplier \in Suppliers
    BY <1>2, Shapes DEF CreateCommit, TypeOK
  <2>2. NewProduct(pending[r].sku) \in Product
    BY <2>1 DEF NewProduct, Product
  <2>3. [status |-> "in_stock", batch |-> None] \in Item
    BY DEF Item
  <2>4. /\ product' = [product EXCEPT ![p] = NewProduct(pending[r].sku)]
        /\ items' = [i \in Items |-> IF i \in units
                                     THEN [status |-> "in_stock", batch |-> None]
                                     ELSE items[i]]
        /\ UNCHANGED <<supplier, sales, drawer, skuSeq>> /\ Writes(r)
        /\ supplier[SupplierOf[p]] # "gone"
        /\ \A i \in units : items[i] = Unused /\ ProductOf[i] = p
    BY <1>2 DEF CreateCommit
  <2>5. product' \in [Products -> Product \cup {Unused, Gone}]
    BY <2>2, <2>4 DEF TypeOK
  <2>6. items' \in [Items -> Item \cup {Unused, Gone}]
    BY <2>3, <2>4 DEF TypeOK
  <2>7. TypeOK'
    BY <2>4, <2>5, <2>6, WritesType DEF TypeOK
  <2>8. Existing' = Existing \cup {p} /\ Stored' = Stored \cup units
    <3>1. \A x \in Products : x \in Existing' <=> product'[x] \in Product
      BY <2>7, ListedRows DEF Existing, TypeOK, Product, Unused, Gone
    <3>2. \A i \in Items : i \in Stored' <=> items'[i] \in Item
      BY <2>7 DEF Stored, TypeOK, Item, Unused, Gone
    <3>3. Existing' = Existing \cup {p}
      BY <2>2, <2>4, <3>1, ListedRows DEF TypeOK, Existing
    <3>4. Stored' = Stored \cup units
      BY <2>3, <2>4, <3>2, StoredRows DEF TypeOK, Stored
    <3>5. QED
      BY <3>3, <3>4
  <2>9. \A i \in Stored : items'[i] = items[i]
    BY <2>4 DEF Stored
  <2>10. \A i \in units : items'[i].batch = None
    BY <2>4
  <2>11. StockReferencesExist'
    BY <2>4, <2>8, <2>9, <2>10 DEF StockReferencesExist
  <2>12. QED
    BY <2>7, <2>11
<1>3. ASSUME NEW r \in Requests, NEW p \in Products, NEW n \in Skus, EditCheck(r, p, n)
      PROVE  Rooted'
  <2>1. EditedRow(p, n) \in Product
    BY <1>3, ListedRows DEF EditCheck, EditedRow, Product
  <2>2. [op |-> "edit", id |-> p, row |-> EditedRow(p, n), fresh |-> TRUE] \in Request
    BY <2>1 DEF Request
  <2>3. QED
    BY <1>0, <1>3, <2>2 DEF EditCheck, TypeOK
<1>4. ASSUME NEW r \in Requests, EditCommit(r) PROVE Rooted'
  <2> DEFINE p == pending[r].id
  <2>1. p \in Products /\ pending[r].row \in Product
    BY <1>4, Shapes DEF EditCommit, TypeOK
  <2>2. product' = [product EXCEPT ![p] = pending[r].row] /\ supplier[SupplierOf[p]] # "gone"
    BY <1>4 DEF EditCommit
  <2> HIDE DEF p
  <2>3. product' \in [Products -> Product \cup {Unused, Gone}]
    BY <2>1, <2>2 DEF TypeOK
  <2>4. TypeOK'
    BY <1>4, <2>3, WritesType DEF EditCommit, TypeOK
  <2>5. Existing' = Existing \cup {p}
    BY <2>1, <2>2, ProductShape DEF Existing, TypeOK
  <2>6. QED
    BY <1>4, <2>2, <2>4, <2>5, SameRows DEF EditCommit, StockReferencesExist
<1>5. ASSUME NEW r \in Requests, NEW p \in Products, RemoveRead(r, p) PROVE Rooted'
  <2>1. [op |-> "drop", products |-> {p}, owner |-> None,
         lines |-> LinesOf({p}, {"draft"}), fresh |-> TRUE] \in Request
    BY DEF Request, LinesOf
  <2>2. QED
    BY <1>0, <1>5, <2>1 DEF RemoveRead, TypeOK
<1>6. ASSUME NEW r \in Requests, NEW s \in Suppliers, RemoveSupplierRead(r, s) PROVE Rooted'
  <2>1. [op |-> "purge", products |-> {p \in Existing : SupplierOf[p] = s}, owner |-> s,
         fresh |-> TRUE] \in Request
    BY DEF Request, Existing
  <2>2. QED
    BY <1>0, <1>6, <2>1 DEF RemoveSupplierRead, TypeOK
<1>7. ASSUME NEW r \in Requests, RemoveSupplierLines(r) PROVE Rooted'
  <2> DEFINE q == pending[r]
             new == [op |-> "drop", products |-> q.products, owner |-> q.owner,
                     fresh |-> q.fresh, lines |-> LinesOf(q.products, {"draft"})]
  <2>1. q.products \subseteq Products /\ q.owner \in Suppliers /\ q.fresh \in BOOLEAN
    BY <1>7, Shapes DEF RemoveSupplierLines, TypeOK
  <2>2. new \in Request
    BY <2>1 DEF Request, LinesOf
  <2>3. pending' = [pending EXCEPT ![r] = new]
    BY <1>7 DEF RemoveSupplierLines
  <2> HIDE DEF new
  <2>4. TypeOK'
    BY <1>7, <2>2, <2>3 DEF RemoveSupplierLines, TypeOK
  <2>5. QED
    BY <1>7, <2>4 DEF RemoveSupplierLines, StockReferencesExist, Stored, Existing
<1>8. ASSUME NEW r \in Requests, DropCommit(r) PROVE Rooted'
  <2> DEFINE q == pending[r]
             left == DropSales(q.lines)
  <2>1. /\ q.products \subseteq Products /\ q.owner \in Suppliers \cup {None}
        /\ q.lines \subseteq Sales \X Items
    BY <1>8, Shapes DEF DropCommit, TypeOK
  <2>2. /\ ~DropRefused(q) /\ sales' = left /\ Writes(r) /\ UNCHANGED <<drawer, skuSeq>>
        /\ items' = [i \in Items |->
             IF i \in Units(q.products) THEN Gone
             ELSE IF i \in Stored /\ items[i].batch = q.owner
                  THEN [items[i] EXCEPT !.batch = None] ELSE items[i]]
        /\ product' = [p \in Products |-> IF p \in q.products THEN Gone ELSE product[p]]
        /\ supplier' = [s \in Suppliers |-> IF s = q.owner THEN "gone" ELSE supplier[s]]
    BY <1>8 DEF DropCommit
  <2> HIDE DEF q, left
  <2>3. \A s \in Sales : /\ left[s] \in Sale \cup {NoSale, Deleted}
                         /\ left[s].lines \subseteq sales[s].lines
    <3>1. TAKE s \in Sales
    <3>2. sales[s] \in Sale \cup {NoSale, Deleted}
      BY LinesAreItems
    <3>3. CASE left[s] = sales[s]
      BY <3>2, <3>3
    <3>4. CASE left[s] = Deleted
      BY <3>4 DEF Deleted, NoSale
    <3>5. CASE /\ left[s] = [sales[s] EXCEPT !.lines = Remaining(s, q.lines)]
               /\ \E i \in Items : <<s, i>> \in q.lines
               /\ Remaining(s, q.lines) # {}
      <4>1. Remaining(s, q.lines) \subseteq sales[s].lines /\ sales[s].lines # {}
        BY <3>5 DEF Remaining
      <4>2. sales[s] \in Sale
        BY <3>2, <4>1, SaleShape
      <4>3. QED
        BY <3>5, <4>1, <4>2 DEF Sale
    <3>6. QED
      BY <3>3, <3>4, <3>5 DEF left, DropSales
  <2>4. items' \in [Items -> Item \cup {Unused, Gone}]
    <3>1. \A i \in Stored : [items[i] EXCEPT !.batch = None] \in Item
      BY StoredRows DEF Item, Stored
    <3>2. QED
      BY <2>2, <3>1 DEF TypeOK
  <2>5. TypeOK'
    <3>1. sales' \in [Sales -> Sale \cup {NoSale, Deleted}]
      BY <2>2, <2>3 DEF left, DropSales
    <3>2. product' \in [Products -> Product \cup {Unused, Gone}]
      BY <2>2 DEF TypeOK
    <3>3. supplier' \in [Suppliers -> {"active", "inactive", "gone"}]
      BY <2>2 DEF TypeOK
    <3>4. QED
      BY <2>2, <2>4, <3>1, <3>2, <3>3, WritesType DEF TypeOK
  <2>6. Existing' = Existing \ q.products
    BY <2>2 DEF Existing, Gone
  <2>7. Stored' = Stored \ Units(q.products)
    <3>1. \A i \in Stored : [items[i] EXCEPT !.batch = None] \in Item
      BY StoredRows DEF Item, Stored
    <3>2. QED
      BY <2>2, <3>1, ItemShape DEF Stored
  <2>8. \A s \in Sales : sales'[s].lines \subseteq Stored'
    <3>1. \A s \in Sales : \A i \in left[s].lines : ProductOf[i] \notin q.products
      BY <2>2 DEF DropRefused, LinesRestrict, left
    <3>2. QED
      BY <2>2, <2>3, <2>7, <3>1 DEF StockReferencesExist, Units
  <2>9. ASSUME NEW i \in Stored'
        PROVE  /\ ProductOf[i] \in Existing'
               /\ items'[i].batch # None => supplier'[items'[i].batch] # "gone"
    <3>1. i \in Stored /\ i \in Items /\ ProductOf[i] \notin q.products
      BY <2>7, <2>9 DEF Units, Stored
    <3>2. ProductOf[i] \in Existing /\ items[i] \in Item
      BY <3>1, StoredRows DEF StockReferencesExist
    <3>3. CASE items[i].batch = q.owner
      <4>1. items'[i] = [items[i] EXCEPT !.batch = None]
        BY <2>2, <3>1, <3>3 DEF Units
      <4>2. items'[i].batch = None
        BY <3>2, <4>1 DEF Item
      <4>3. QED
        BY <2>6, <3>1, <3>2, <4>2
    <3>4. CASE items[i].batch # q.owner
      <4>1. items'[i] = items[i]
        BY <2>2, <3>1, <3>4 DEF Units
      <4>2. QED
        BY <2>2, <2>6, <3>1, <3>2, <3>4, <4>1, ItemShape DEF StockReferencesExist
    <3>5. QED
      BY <3>3, <3>4
  <2>10. \A p \in Existing' : supplier'[SupplierOf[p]] # "gone"
    <3>1. TAKE p \in Existing'
    <3>2. p \in Existing /\ p \notin q.products /\ SupplierOf[p] \in Suppliers
      BY <2>6, Origins DEF Existing
    <3>3. SupplierOf[p] # q.owner
      <4>1. CASE q.owner = None
        BY <3>2, <4>1, NoneIsNoId
      <4>2. CASE q.owner # None
        BY <2>2, <3>2, <4>2 DEF DropRefused
      <4>3. QED
        BY <4>1, <4>2
    <3>4. QED
      BY <2>2, <3>2, <3>3 DEF StockReferencesExist
  <2>11. QED
    BY <2>5, <2>8, <2>9, <2>10 DEF StockReferencesExist
<1>9. ASSUME NEW r \in Requests, WriteFails(r) PROVE Rooted'
  <2>1. TypeOK'
    BY <1>9 DEF WriteFails, TypeOK, Request
  <2>2. QED
    BY <1>9, <2>1 DEF WriteFails, StockReferencesExist, Stored, Existing
<1>10. ASSUME NEW s \in Suppliers, NEW status \in {"active", "inactive"}, SetActive(s, status)
       PROVE  Rooted'
  <2>1. supplier' = [supplier EXCEPT ![s] = status]
    BY <1>10 DEF SetActive
  <2>2. TypeOK'
    BY <1>10, <2>1, OutdatesType DEF SetActive, TypeOK
  <2>3. \A t \in Suppliers : supplier'[t] = "gone" <=> supplier[t] = "gone"
    BY <1>10, <2>1 DEF SetActive, TypeOK
  <2>4. \A i \in Stored : items[i].batch # None => items[i].batch \in Suppliers
    BY StoredRows, ItemShape DEF Stored
  <2>5. \A p \in Existing : SupplierOf[p] \in Suppliers
    BY Origins DEF Existing
  <2>6. Existing' = Existing /\ Stored' = Stored /\ items' = items /\ sales' = sales
    BY <1>10 DEF SetActive, Existing, Stored
  <2>7. QED
    BY <2>2, <2>3, <2>4, <2>5, <2>6 DEF StockReferencesExist
<1>11. ASSUME NEW s \in Suppliers, NEW new \in SUBSET Items, ReceiveBatch(s, new) PROVE Rooted'
  <2>1. /\ items' = [i \in Items |-> IF i \in new THEN [status |-> "in_stock", batch |-> s]
                                    ELSE items[i]]
        /\ UNCHANGED <<product, sales, drawer>> /\ Commits
        /\ \A i \in new : items[i] = Unused /\ ProductOf[i] \in Existing
        /\ supplier[s] = "active"
    BY <1>11 DEF ReceiveBatch
  <2>2. [status |-> "in_stock", batch |-> s] \in Item
    BY DEF Item
  <2>3. items' \in [Items -> Item \cup {Unused, Gone}]
    BY <2>1, <2>2 DEF TypeOK
  <2>4. TypeOK'
    BY <2>1, <2>3, CommitsType DEF TypeOK
  <2>5. Existing' = Existing /\ supplier' = supplier
    BY <2>1 DEF Existing, Commits
  <2>6. Stored' = Stored \cup new
    BY <2>1, <2>2, ItemShape DEF Stored
  <2>7. ASSUME NEW i \in Stored'
        PROVE  /\ ProductOf[i] \in Existing
               /\ items'[i].batch # None => supplier[items'[i].batch] # "gone"
    <3>1. CASE i \in new
      BY <2>1, <3>1
    <3>2. CASE i \notin new
      BY <2>1, <2>6, <3>2 DEF StockReferencesExist, Stored
    <3>3. QED
      BY <3>1, <3>2
  <2>8. QED
    BY <2>1, <2>4, <2>5, <2>6, <2>7 DEF StockReferencesExist
<1>12. ASSUME NEW s \in Sales, CancelDraft(s) PROVE Rooted'
  <2>1. sales' = [sales EXCEPT ![s] = Deleted]
    BY <1>12 DEF CancelDraft
  <2>2. TypeOK'
    BY <1>12, <2>1, CommitsType DEF CancelDraft, TypeOK
  <2>3. \A t \in Sales : sales'[t].lines \subseteq sales[t].lines
    BY <2>1 DEF TypeOK, Deleted, NoSale
  <2>4. Existing' = Existing
    BY <1>12 DEF CancelDraft, Existing
  <2>5. QED
    BY <1>12, <2>2, <2>3, <2>4, SameRows DEF CancelDraft, Commits, StockReferencesExist
<1>13. ASSUME NEW s \in Sales, Pay(s) \/ Refund(s) PROVE Rooted'
  <2>1. PICK status \in {"in_stock", "sold"} : Settled(s, status)
    BY <1>13 DEF Pay, Refund
  <2>2. Commits /\ UNCHANGED <<supplier, skuSeq, overlapped>>
    BY <1>13 DEF Pay, Refund, Commits
  <2>3. /\ sales[s].status \in {"draft", "paid"} /\ sales[s] \in Sale
        /\ Charged(s) \in 0..Cardinality(Items)
    BY <1>13, LinesAreItems, SaleShape DEF Pay, Refund, Charged
  <2>4. /\ sales' \in [Sales -> Sale \cup {NoSale, Deleted}]
        /\ \A t \in Sales : sales'[t].lines = sales[t].lines
    BY <1>13, <2>3 DEF Pay, Refund, Sale, TypeOK
  <2>5. drawer' \in Nat
    <3>1. Charged(s) \in Nat /\ sales[s].total \in Nat /\ drawer \in Nat
      BY <2>3 DEF TypeOK, Sale
    <3>2. QED
      BY <1>13, <3>1 DEF Pay, Refund
  <2>6. TypeOK'
    BY <2>1, <2>2, <2>4, <2>5, SettledRooted, CommitsType DEF TypeOK
  <2>7. Existing' = Existing
    <3>1. \A p \in Products : p \in Existing' <=> product'[p] \in Product
      BY <2>6 DEF Existing, TypeOK, Product, Unused, Gone
    <3>2. QED
      BY <2>1, <3>1, SettledRooted, ListedRows DEF Existing
  <2>8. Stored' = Stored
    <3>1. \A i \in Items : i \in Stored' <=> items'[i] \in Item
      BY <2>6 DEF Stored, TypeOK, Item, Unused, Gone
    <3>2. QED
      BY <2>1, <3>1, SettledRooted, StoredRows DEF Stored
  <2>9. \A i \in Stored : items'[i].batch = items[i].batch
    BY <2>1, SettledRooted, StoredRows DEF Stored
  <2>10. QED
    BY <2>2, <2>4, <2>6, <2>7, <2>8, <2>9 DEF StockReferencesExist
<1>14. ASSUME NEW s \in Sales, NEW i \in Items, AddLine(s, i) PROVE Rooted'
  <2> DEFINE old == sales[s].lines
             row == [status |-> "draft", lines |-> old \cup {i}, total |-> Cardinality(old) + 1]
  <2>1. sales' = [sales EXCEPT ![s] = row] /\ i \in Stored
    BY <1>14 DEF AddLine, OnHand
  <2>2. row \in Sale
    <3>1. i \notin old
      BY <1>14, LinesAreItems, SaleShape DEF AddLine
    <3>2. IsFiniteSet(old) /\ old \cup {i} \subseteq Items
      BY LinesAreItems
    <3>3. Cardinality(old \cup {i}) = Cardinality(old) + 1
      BY <3>1, <3>2, FS_AddElement
    <3>4. Cardinality(old \cup {i}) <= Cardinality(Items)
      BY <3>2, FiniteStock, FS_Subset
    <3>5. Cardinality(old) \in Nat /\ Cardinality(Items) \in Nat
      BY <3>2, FiniteStock, FS_CardinalityType
    <3>6. Cardinality(old) + 1 \in 0..Cardinality(Items)
      BY <3>3, <3>4, <3>5
    <3> HIDE DEF old
    <3>7. QED
      BY <3>2, <3>6 DEF Sale
  <2>3. \A t \in Sales : sales'[t].lines \subseteq Stored
    BY <2>1 DEF StockReferencesExist, TypeOK
  <2> HIDE DEF row
  <2>4. TypeOK'
    BY <1>14, <2>1, <2>2, CommitsType DEF AddLine, TypeOK
  <2>5. QED
    BY <1>14, <2>3, <2>4 DEF AddLine, Commits, StockReferencesExist, Stored, Existing
<1>15. CASE UNCHANGED vars
  BY <1>15 DEF vars, TypeOK, StockReferencesExist, Stored, Existing
<1>16. QED
  BY <1>1, <1>2, <1>3, <1>4, <1>5, <1>6, <1>7, <1>8, <1>9, <1>10, <1>11, <1>12, <1>13, <1>14,
     <1>15
     DEF Next

LEMMA RootedAlways == Spec => []Rooted
BY InitRooted, RootedNext, PTL DEF Spec

\* Rows, receipts and requests keep their shape.
THEOREM StockroomTyped == Spec => []TypeOK
BY RootedAlways, PTL DEF Rooted

\* Lines, items and products always name rows that exist, whatever overlaps
\* (the foreign keys behind remove of products and suppliers).
THEOREM StockReferencesKept == Spec => []StockReferencesExist
BY RootedAlways, PTL DEF Rooted

-----------------------------------------------------------------------------
(* Articles *)

LEMMA SkusNext == Rooted /\ SkusUnique /\ [Next]_vars => SkusUnique'
<1> SUFFICES ASSUME Rooted, SkusUnique, [Next]_vars PROVE SkusUnique'
  OBVIOUS
<1> USE DEF Rooted
<1>1. ASSUME NEW p \in Products, NEW row \in Product, SkuFree(row.sku, Products \ {p}),
             product' = [product EXCEPT ![p] = row]
      PROVE  SkusUnique'
  <2>1. product'[p] = row /\ \A q \in Products \ {p} : product'[q] = product[q]
    BY <1>1 DEF TypeOK
  <2>2. \A q \in Existing' \ {p} : q \in Existing /\ product'[q] = product[q]
    BY <2>1 DEF Existing
  <2>3. \A q \in Existing' \ {p} : product'[q].sku # row.sku
    BY <1>1, <2>2 DEF SkuFree, Existing
  <2>4. QED
    BY <2>1, <2>2, <2>3 DEF SkusUnique
<1>2. ASSUME NEW r \in Requests, NEW p \in Products, NEW units \in SUBSET Items,
             CreateCommit(r, p, units)
      PROVE  SkusUnique'
  <2>1. NewProduct(pending[r].sku) \in Product /\ NewProduct(pending[r].sku).sku = pending[r].sku
    BY <1>2, Shapes DEF CreateCommit, TypeOK, NewProduct, Product
  <2>2. QED
    BY <1>1, <1>2, <2>1 DEF CreateCommit, SkuFree
<1>3. ASSUME NEW r \in Requests, EditCommit(r) PROVE SkusUnique'
  BY <1>1, <1>3, Shapes DEF EditCommit, TypeOK
<1>4. ASSUME NEW r \in Requests, DropCommit(r) PROVE SkusUnique'
  BY <1>4 DEF DropCommit, SkusUnique, Existing, Gone
<1>5. ASSUME NEW s \in Sales, Pay(s) \/ Refund(s) PROVE SkusUnique'
  <2>1. PICK status \in {"in_stock", "sold"} : Settled(s, status)
    BY <1>5 DEF Pay, Refund
  <2>2. ASSUME NEW p \in Existing'
        PROVE  p \in Existing /\ product'[p].sku = product[p].sku
    <3>1. p \in Products /\ product'[p] \in Product
      BY <2>1, <2>2, SettledRooted DEF Existing, Unused, Gone
    <3>2. product[p] \in Product
      BY <2>1, <3>1, SettledRooted
    <3>3. p \in Existing
      BY <3>1, <3>2, ListedRows
    <3>4. QED
      BY <2>1, <3>1, <3>2, <3>3 DEF Settled, Product
  <2>3. QED
    BY <2>2 DEF SkusUnique
<1>6. UNCHANGED product => SkusUnique'
  BY DEF SkusUnique, Existing
<1>7. QED
  BY <1>2, <1>3, <1>4, <1>5, <1>6
     DEF Next, vars, CreateNamed, CreateNumbered, CreateCheck, EditCheck, RemoveRead,
         RemoveSupplierRead, RemoveSupplierLines, WriteFails, SetActive, ReceiveBatch,
         CancelDraft, AddLine, Starts

\* No two products share an article, however many requests check one before
\* any of them writes (assertUniqueSku, nextReadableSku, UQ_products_sku).
THEOREM ArticlesStayUnique == Spec => []SkusUnique
<1>1. Init => SkusUnique
  BY DEF Init, SkusUnique, Existing, Unused
<1>2. QED
  BY <1>1, RootedAlways, SkusNext, PTL DEF Spec

-----------------------------------------------------------------------------
(* What a request has read is true until another one writes *)

ReadTrue(q) ==
  /\ q.op = "edit" => q.id \in Existing /\ q.row.outOfStock = product[q.id].outOfStock
  /\ q.op = "drop" => \A l \in q.lines : sales[l[1]].status = "draft"
  /\ q.op \in {"purge", "drop"} /\ q.owner # None =>
       /\ \A p \in Existing : SupplierOf[p] = q.owner => p \in q.products
       /\ \A i \in Units(q.products) : items[i].status = "sold"

ReadsHold == \A r \in Requests : pending[r].fresh => ReadTrue(pending[r])

LEMMA InitReads == Init => ReadsHold
BY DEF Init, ReadsHold, ReadTrue, Idle

LEMMA OutdatedReads ==
  ASSUME TypeOK, NEW kept, Outdates(kept)
  PROVE  ReadsHold'
<1>1. ASSUME NEW q \in Requests
      PROVE  pending'[q] = Idle \/ ~pending'[q].fresh
  BY Outdating DEF Outdates, TypeOK
<1>2. QED
  BY <1>1 DEF ReadsHold, ReadTrue, Idle

LEMMA ReadsNext == Rooted /\ ReadsHold /\ [Next]_vars => ReadsHold'
<1> SUFFICES ASSUME Rooted, ReadsHold, [Next]_vars PROVE ReadsHold'
  OBVIOUS
<1> USE DEF Rooted
<1>1. ASSUME NEW r \in Requests, UNCHANGED <<product, items, sales>>,
             \A q \in Requests \ {r} : pending'[q] = pending[q],
             pending'[r].fresh => ReadTrue(pending'[r])
      PROVE  ReadsHold'
  <2>1. ASSUME NEW q \in Requests, pending'[q].fresh
        PROVE  ReadTrue(pending[q])'
    <3>1. ReadTrue(pending'[q])
      BY <1>1, <2>1 DEF ReadsHold
    <3>2. QED
      BY <1>1, <3>1 DEF ReadTrue, Existing, Units, Stored
  <2>2. QED
    BY <2>1 DEF ReadsHold
<1>2. ASSUME NEW r \in Requests, NEW s \in Suppliers, NEW n \in Skus, NEW qty \in {0, 1},
             CreateNamed(r, s, n, qty) \/ CreateNumbered(r, s, n, qty)
      PROVE  ReadsHold'
  <2>1. pending'[r].op = "create"
    BY <1>2 DEF CreateNamed, CreateNumbered, CreateCheck, Starts, TypeOK
  <2>2. ReadTrue(pending'[r])
    BY <2>1 DEF ReadTrue
  <2>3. QED
    BY <1>1, <1>2, <2>2 DEF CreateNamed, CreateNumbered, CreateCheck, Starts, TypeOK
<1>3. ASSUME NEW r \in Requests, NEW p \in Products, NEW n \in Skus, EditCheck(r, p, n)
      PROVE  ReadsHold'
  <2>1. /\ p \in Existing /\ UNCHANGED <<product, items, sales>>
        /\ pending' = [pending EXCEPT ![r] =
             [op |-> "edit", id |-> p, row |-> EditedRow(p, n), fresh |-> TRUE]]
    BY <1>3 DEF EditCheck, Starts
  <2>2. EditedRow(p, n).outOfStock = product[p].outOfStock
    BY <2>1, ListedRows DEF EditedRow, Product
  <2>3. pending'[r] = [op |-> "edit", id |-> p, row |-> EditedRow(p, n), fresh |-> TRUE]
    BY <2>1 DEF TypeOK
  <2>4. ReadTrue(pending'[r])
    BY <2>1, <2>2, <2>3 DEF ReadTrue
  <2>5. QED
    BY <1>1, <2>1, <2>4 DEF TypeOK
<1>4. ASSUME NEW r \in Requests, NEW p \in Products, RemoveRead(r, p) PROVE ReadsHold'
  <2>1. pending'[r] = [op |-> "drop", products |-> {p}, owner |-> None,
                       lines |-> LinesOf({p}, {"draft"}), fresh |-> TRUE]
    BY <1>4 DEF RemoveRead, Starts, TypeOK
  <2>2. QED
    BY <1>1, <1>4, <2>1 DEF RemoveRead, Starts, LinesOf, ReadTrue, TypeOK
<1>5. ASSUME NEW r \in Requests, NEW s \in Suppliers, RemoveSupplierRead(r, s) PROVE ReadsHold'
  <2>1. /\ pending'[r] = [op |-> "purge", products |-> {p \in Existing : SupplierOf[p] = s},
                          owner |-> s, fresh |-> TRUE]
        /\ NothingHeld({p \in Existing : SupplierOf[p] = s})
    BY <1>5 DEF RemoveSupplierRead, Starts, TypeOK
  <2>2. QED
    BY <1>1, <1>5, <2>1 DEF RemoveSupplierRead, Starts, NothingHeld, ReadTrue, TypeOK
<1>6. ASSUME NEW r \in Requests, RemoveSupplierLines(r) PROVE ReadsHold'
  <2> DEFINE q == pending[r]
  <2>1. /\ q.op = "purge" /\ UNCHANGED <<product, items, sales>>
        /\ pending' = [pending EXCEPT ![r] =
             [op |-> "drop", products |-> q.products, owner |-> q.owner, fresh |-> q.fresh,
              lines |-> LinesOf(q.products, {"draft"})]]
    BY <1>6 DEF RemoveSupplierLines
  <2>2. pending'[r] = [op |-> "drop", products |-> q.products, owner |-> q.owner,
                       fresh |-> q.fresh, lines |-> LinesOf(q.products, {"draft"})]
    BY <2>1 DEF TypeOK
  <2>3. q.fresh /\ q.owner # None =>
          /\ \A p \in Existing : SupplierOf[p] = q.owner => p \in q.products
          /\ \A i \in Units(q.products) : items[i].status = "sold"
    BY <2>1 DEF ReadsHold, ReadTrue
  <2>4. \A l \in LinesOf(q.products, {"draft"}) : sales[l[1]].status = "draft"
    BY DEF LinesOf
  <2> HIDE DEF q
  <2>5. pending'[r].fresh => ReadTrue(pending'[r])
    BY <2>2, <2>3, <2>4 DEF ReadTrue
  <2>6. QED
    BY <1>1, <2>1, <2>5 DEF TypeOK
<1>7. ASSUME NEW r \in Requests, WriteFails(r) PROVE ReadsHold'
  BY <1>1, <1>7 DEF WriteFails, Idle, ReadTrue, TypeOK
<1>8. ASSUME NEW kept, Outdates(kept) PROVE ReadsHold'
  BY <1>8, OutdatedReads
<1>9. CASE UNCHANGED vars
  BY <1>9 DEF vars, ReadsHold, ReadTrue, Existing, Units, Stored
<1>10. QED
  BY <1>2, <1>3, <1>4, <1>5, <1>6, <1>7, <1>8, <1>9
     DEF Next, CreateCommit, EditCommit, DropCommit, SetActive, ReceiveBatch, CancelDraft,
         Pay, Refund, AddLine, Writes, Commits

LEMMA ReadsAlways == Spec => []ReadsHold
BY RootedAlways, InitReads, ReadsNext, PTL DEF Spec

-----------------------------------------------------------------------------
(* Removals and edits that nothing overlaps *)

\* Removing a product or supplier changes no paid or refunded receipt, unless
\* another request wrote in between (ProductsService.remove,
\* SuppliersService.remove).
THEOREM RemovalsKeepReceipts == Spec => ReceiptsKeptUnlessOverlap
<1>1. ASSUME Rooted, ReadsHold, [Next]_vars, NEW s \in Sales,
             sales[s].status \in {"paid", "refunded"}, ~overlapped'
      PROVE  sales'[s].status \in {"paid", "refunded"} /\ sales'[s].lines = sales[s].lines
  <2> USE DEF Rooted
  <2>1. ASSUME NEW r \in Requests, DropCommit(r) PROVE sales'[s] = sales[s]
    <3>1. pending[r].fresh
      BY <1>1, <2>1, Shapes DEF DropCommit, Writes, TypeOK
    <3>2. \A l \in pending[r].lines : sales[l[1]].status = "draft"
      BY <1>1, <2>1, <3>1 DEF DropCommit, ReadsHold, ReadTrue
    <3>3. ~\E i \in Items : <<s, i>> \in pending[r].lines
      BY <1>1, <3>2
    <3>4. QED
      BY <2>1, <3>3 DEF DropCommit, DropSales
  <2>2. ASSUME NEW t \in Sales, Pay(t) \/ Refund(t)
        PROVE  sales'[s].status \in {"paid", "refunded"} /\ sales'[s].lines = sales[s].lines
    <3>1. sales[t] \in Sale
      BY <1>1, <2>2, LinesAreItems, SaleShape DEF Pay, Refund
    <3>2. QED
      BY <1>1, <2>2, <3>1 DEF Pay, Refund, Sale, TypeOK
  <2>3. ASSUME NEW t \in Sales, CancelDraft(t) \/ \E i \in Items : AddLine(t, i)
        PROVE  sales'[s] = sales[s]
    BY <1>1, <2>3 DEF CancelDraft, AddLine, TypeOK
  <2>4. QED
    BY <1>1, <2>1, <2>2, <2>3
       DEF Next, vars, CreateNamed, CreateNumbered, CreateCheck, CreateCommit, EditCheck,
           EditCommit, RemoveRead, RemoveSupplierRead, RemoveSupplierLines, WriteFails,
           SetActive, ReceiveBatch, Starts
<1>2. Rooted /\ ReadsHold /\ [Next]_vars =>
        [\A s \in Sales : sales[s].status \in {"paid", "refunded"} /\ ~overlapped' =>
           sales'[s].status \in {"paid", "refunded"} /\ sales'[s].lines = sales[s].lines]_vars
  BY <1>1
<1>3. QED
  BY <1>2, RootedAlways, ReadsAlways, PTL DEF Spec, ReceiptsKeptUnlessOverlap

\* A supplier whose goods are in stock is not removed, unless those came in
\* during the removal (SuppliersService.remove).
THEOREM HeldGoodsKeepTheirSupplier == Spec => HeldGoodsKeepSupplier
<1>1. ASSUME Rooted, ReadsHold, [Next]_vars, NEW s \in Suppliers,
             supplier[s] # "gone", supplier'[s] = "gone", ~overlapped',
             NEW i \in Stored, SupplierOf[ProductOf[i]] = s
      PROVE  items[i].status = "sold"
  <2> USE DEF Rooted
  <2>1. PICK r \in Requests : DropCommit(r)
    <3>1. ASSUME NEW t \in Suppliers, NEW status \in {"active", "inactive"},
                 SetActive(t, status)
          PROVE  FALSE
      BY <1>1, <3>1 DEF SetActive, TypeOK
    <3>2. QED
      BY <1>1, <3>1
         DEF Next, vars, CreateNamed, CreateNumbered, CreateCheck, CreateCommit, EditCheck,
             EditCommit, RemoveRead, RemoveSupplierRead, RemoveSupplierLines, WriteFails,
             ReceiveBatch, CancelDraft, Pay, Refund, AddLine, Starts, Commits
  <2>2. pending[r].fresh /\ pending[r].op = "drop"
    BY <1>1, <2>1, Shapes DEF DropCommit, Writes, TypeOK
  <2>3. pending[r].owner = s
    BY <1>1, <2>1 DEF DropCommit
  <2>4. ProductOf[i] \in Existing
    BY <1>1 DEF StockReferencesExist
  <2>5. i \in Units(pending[r].products)
    BY <1>1, <2>2, <2>3, <2>4, NoneIsNoId DEF ReadsHold, ReadTrue, Units
  <2>6. QED
    BY <1>1, <2>2, <2>3, <2>5, NoneIsNoId DEF ReadsHold, ReadTrue
<1>2. Rooted /\ ReadsHold /\ [Next]_vars =>
        [\A s \in Suppliers : supplier[s] # "gone" /\ supplier'[s] = "gone" /\ ~overlapped' =>
           \A i \in Stored : SupplierOf[ProductOf[i]] = s => items[i].status = "sold"]_vars
  BY <1>1
<1>3. QED
  BY <1>2, RootedAlways, ReadsAlways, PTL DEF Spec, HeldGoodsKeepSupplier

LEMMA FlagNext == Rooted /\ ReadsHold /\ SoldOutFlagged /\ [Next]_vars => SoldOutFlagged'
<1> SUFFICES ASSUME Rooted, Rooted', ReadsHold, SoldOutFlagged, [Next]_vars, ~overlapped',
                    NEW p \in Existing', OnHand(p)' = {}, Units({p})' # {}
             PROVE  product'[p].outOfStock
  BY RootedNext DEF SoldOutFlagged
<1> USE DEF Rooted
<1>1. \A i \in Stored : items[i] \in Item /\ ProductOf[i] \in Existing
  BY StoredRows DEF StockReferencesExist, Stored
<1>2. ASSUME NEW r \in Requests, NEW q \in Products, NEW units \in SUBSET Items,
             CreateCommit(r, q, units)
      PROVE  product'[p].outOfStock
  <2>1. /\ product' = [product EXCEPT ![q] = NewProduct(pending[r].sku)]
        /\ items' = [i \in Items |-> IF i \in units
                                     THEN [status |-> "in_stock", batch |-> None]
                                     ELSE items[i]]
        /\ \A i \in units : items[i] = Unused /\ ProductOf[i] = q
        /\ product[q] = Unused /\ Writes(r)
    BY <1>2 DEF CreateCommit
  <2>2. Stored' = Stored \cup units
    BY <2>1 DEF Stored, Unused, Gone
  <2>3. CASE p = q
    <3>1. q \notin Existing
      BY <2>1 DEF Existing, Unused
    <3>2. \A i \in Units({q})' : i \in units
      BY <1>1, <2>2, <3>1 DEF Units
    <3>3. \A i \in units : i \in OnHand(q)'
      BY <2>1, <2>2 DEF OnHand
    <3>4. QED
      BY <2>3, <3>2, <3>3
  <2>4. CASE p # q
    <3>1. p \in Existing /\ product'[p] = product[p]
      BY <2>1, <2>4 DEF Existing
    <3>2. OnHand(p) = {} /\ Units({p}) # {}
      BY <2>1, <2>2, <2>4 DEF OnHand, Units, Stored
    <3>3. ~overlapped
      BY <2>1 DEF Writes
    <3>4. QED
      BY <3>1, <3>2, <3>3 DEF SoldOutFlagged
  <2>5. QED
    BY <2>3, <2>4
<1>3. ASSUME NEW r \in Requests, EditCommit(r) PROVE product'[p].outOfStock
  <2> DEFINE q == pending[r].id
  <2>1. pending[r].fresh /\ ~overlapped
    BY <1>3, Shapes DEF EditCommit, Writes, TypeOK
  <2>2. q \in Existing /\ pending[r].row.outOfStock = product[q].outOfStock
    BY <1>3, <2>1 DEF EditCommit, ReadsHold, ReadTrue
  <2>3. product' = [product EXCEPT ![q] = pending[r].row] /\ items' = items
    BY <1>3 DEF EditCommit
  <2> HIDE DEF q
  <2>4. p \in Existing /\ product'[p].outOfStock = product[p].outOfStock
    BY <2>2, <2>3 DEF Existing, TypeOK
  <2>5. OnHand(p) = {} /\ Units({p}) # {}
    BY <2>3 DEF OnHand, Units, Stored
  <2>6. QED
    BY <2>1, <2>4, <2>5 DEF SoldOutFlagged
<1>4. ASSUME NEW r \in Requests, DropCommit(r) PROVE product'[p].outOfStock
  <2> DEFINE q == pending[r]
  <2>1. /\ product' = [x \in Products |-> IF x \in q.products THEN Gone ELSE product[x]]
        /\ items' = [i \in Items |->
             IF i \in Units(q.products) THEN Gone
             ELSE IF i \in Stored /\ items[i].batch = q.owner
                  THEN [items[i] EXCEPT !.batch = None] ELSE items[i]]
        /\ ~overlapped
    BY <1>4 DEF DropCommit, Writes
  <2> HIDE DEF q
  <2>2. p \in Existing /\ p \notin q.products /\ product'[p] = product[p]
    BY <2>1 DEF Existing, Gone
  <2>3. \A i \in Items : ProductOf[i] = p /\ i \in Stored => items'[i].status = items[i].status
    <3>1. \A i \in Stored : [items[i] EXCEPT !.batch = None].status = items[i].status
      BY <1>1 DEF Item
    <3>2. QED
      BY <2>1, <2>2, <3>1 DEF Units
  <2>4. \A i \in Items : ProductOf[i] = p => (i \in Stored' <=> i \in Stored)
    <3>1. \A i \in Stored : [items[i] EXCEPT !.batch = None] \in Item
      BY <1>1 DEF Item
    <3>2. QED
      BY <2>1, <2>2, <3>1, ItemShape DEF Units, Stored
  <2>5. OnHand(p) = {} /\ Units({p}) # {}
    BY <2>3, <2>4 DEF OnHand, Units, Stored
  <2>6. QED
    BY <2>1, <2>2, <2>5 DEF SoldOutFlagged
<1>5. ASSUME NEW s \in Suppliers, NEW new \in SUBSET Items, ReceiveBatch(s, new)
      PROVE  product'[p].outOfStock
  <2>1. /\ items' = [i \in Items |-> IF i \in new THEN [status |-> "in_stock", batch |-> s]
                                    ELSE items[i]]
        /\ product' = product /\ overlapped' = overlapped
        /\ \A i \in new : items[i] = Unused
    BY <1>5 DEF ReceiveBatch, Commits
  <2>2. Stored' = Stored \cup new
    BY <2>1 DEF Stored, Unused, Gone
  <2>3. \A i \in new : ProductOf[i] # p
    BY <2>1, <2>2 DEF OnHand
  <2>4. OnHand(p) = {} /\ Units({p}) # {}
    BY <2>1, <2>2, <2>3 DEF OnHand, Units, Stored
  <2>5. QED
    BY <2>1, <2>4 DEF SoldOutFlagged, Existing
<1>6. ASSUME NEW s \in Sales, Pay(s) \/ Refund(s) PROVE product'[p].outOfStock
  <2>1. PICK status \in {"in_stock", "sold"} : Settled(s, status)
    BY <1>6 DEF Pay, Refund
  <2>2. ~overlapped
    BY <1>6 DEF Pay, Refund, Commits
  <2>3. Stored' = Stored
    <3>1. \A i \in Items : i \in Stored' <=> items'[i] \in Item
      BY StoredRows, SettledRooted, <2>1 DEF Stored, TypeOK, Item, Unused, Gone
    <3>2. QED
      BY <2>1, <3>1, SettledRooted, StoredRows DEF Stored
  <2>4. \A i \in Stored : items'[i] \in Item
    BY <1>1, <2>1, SettledRooted DEF Stored
  <2>5. CASE \E i \in sales[s].lines : ProductOf[i] = p
    <3>1. \A i \in Units({p}) : items'[i].status = "sold"
      BY <2>3, <2>4, ItemShape DEF OnHand, Units
    <3>2. p \in Products /\ product[p] \in Product
      BY <2>5, ListedRows DEF StockReferencesExist, Existing
    <3>3. product'[p] = [product[p] EXCEPT !.outOfStock =
                           \A i \in Units({p}) : items'[i].status = "sold"]
      BY <2>1, <2>5, <3>2 DEF Settled
    <3>4. QED
      BY <3>1, <3>2, <3>3 DEF Product
  <2>6. CASE ~\E i \in sales[s].lines : ProductOf[i] = p
    <3>1. p \in Existing /\ product'[p] = product[p]
      BY <2>1, <2>6 DEF Settled, Existing
    <3>2. \A i \in Stored : ProductOf[i] = p => items'[i] = items[i]
      BY <2>1, <2>6 DEF Settled, Stored
    <3>3. OnHand(p) = {} /\ Units({p}) # {}
      BY <2>3, <3>2 DEF OnHand, Units
    <3>4. QED
      BY <2>2, <3>1, <3>3 DEF SoldOutFlagged
  <2>7. QED
    BY <2>5, <2>6
<1>7. ASSUME UNCHANGED <<product, items, overlapped>> PROVE product'[p].outOfStock
  BY <1>7 DEF SoldOutFlagged, Existing, OnHand, Units, Stored
<1>8. QED
  BY <1>2, <1>3, <1>4, <1>5, <1>6, <1>7
     DEF Next, vars, CreateNamed, CreateNumbered, CreateCheck, EditCheck, RemoveRead,
         RemoveSupplierRead, RemoveSupplierLines, WriteFails, SetActive, CancelDraft, AddLine,
         Starts, Commits

\* What is sold out is flagged, unless an edit overlaps the payment
\* (refreshProductAvailability, ProductsService.update).
THEOREM SoldOutIsFlagged == Spec => []SoldOutFlagged
<1>1. Init => SoldOutFlagged
  BY DEF Init, SoldOutFlagged, Existing, Unused
<1>2. QED
  BY <1>1, RootedAlways, ReadsAlways, FlagNext, PTL DEF Spec

-----------------------------------------------------------------------------
(* The drawer *)

\* The strengthening: a paid receipt's total is what was charged for its lines.
PaidLines   == {l \in Sales \X Items : sales[l[1]].status = "paid" /\ l[2] \in sales[l[1]].lines}
DrawerExact ==
  ~overlapped => /\ drawer = Cardinality(PaidLines)
                 /\ \A s \in Sales : sales[s].status = "paid" => sales[s].total = Charged(s)

\* One receipt has as many lines as it has items.
LEMMA OwnLines ==
  ASSUME TypeOK, NEW s \in Sales
  PROVE  /\ IsFiniteSet({s} \X sales[s].lines)
         /\ Cardinality({s} \X sales[s].lines) = Charged(s) /\ Charged(s) \in Nat
<1>1. IsFiniteSet(sales[s].lines) /\ Charged(s) \in Nat
  BY LinesAreItems, FS_CardinalityType DEF Charged
<1>2. QED
  BY <1>1, TaggedCopy DEF Charged

\* There are finitely many lines on paid receipts.
LEMMA PaidLinesFinite == IsFiniteSet(PaidLines) /\ Cardinality(PaidLines) \in Nat
<1>1. IsFiniteSet(Sales \X Items)
  BY FiniteStock, FS_Product
<1>2. PaidLines \subseteq Sales \X Items
  BY DEF PaidLines
<1>3. QED
  BY <1>1, <1>2, FS_Subset, FS_CardinalityType

\* The inductive step: every action keeps the drawer exact, overlaps aside.
LEMMA DrawerNext == Rooted /\ ReadsHold /\ DrawerExact /\ [Next]_vars => DrawerExact'
<1> SUFFICES ASSUME Rooted, ReadsHold, DrawerExact, [Next]_vars, ~overlapped'
             PROVE  /\ drawer' = Cardinality(PaidLines')
                    /\ \A s \in Sales : sales'[s].status = "paid" =>
                         sales'[s].total = Cardinality(sales'[s].lines)
  BY DEF DrawerExact, Charged
<1> USE DEF Rooted
<1>1. /\ drawer = Cardinality(PaidLines) /\ ~overlapped
      /\ \A s \in Sales : sales[s].status = "paid" => sales[s].total = Charged(s)
  <2>1. ~overlapped
    BY DEF Next, vars, CreateNamed, CreateNumbered, CreateCheck, CreateCommit, EditCheck,
           EditCommit, RemoveRead, RemoveSupplierRead, RemoveSupplierLines, DropCommit,
           WriteFails, SetActive, ReceiveBatch, CancelDraft, Pay, Refund, AddLine, Starts,
           Writes, Commits
  <2>2. QED
    BY <2>1 DEF DrawerExact
\* Steps that touch no paid receipt, before or after.
<1>2. ASSUME UNCHANGED drawer,
             \A s \in Sales : \/ sales'[s] = sales[s]
                              \/ (sales[s].status # "paid" /\ sales'[s].status # "paid")
      PROVE  /\ drawer' = Cardinality(PaidLines')
             /\ \A s \in Sales : sales'[s].status = "paid" =>
                  sales'[s].total = Cardinality(sales'[s].lines)
  <2>1. PaidLines' = PaidLines
    BY <1>2 DEF PaidLines
  <2>2. QED
    BY <1>1, <1>2, <2>1 DEF Charged
<1>3. ASSUME NEW s \in Sales, Pay(s)
      PROVE  /\ drawer' = Cardinality(PaidLines')
             /\ \A t \in Sales : sales'[t].status = "paid" =>
                  sales'[t].total = Cardinality(sales'[t].lines)
  <2>1. /\ sales[s].status = "draft" /\ drawer' = drawer + Charged(s)
        /\ sales' = [sales EXCEPT ![s].status = "paid", ![s].total = Charged(s)]
    BY <1>3 DEF Pay
  <2>2. sales[s] \in Sale
    BY <2>1, LinesAreItems, SaleShape
  <2>3. /\ sales'[s].status = "paid" /\ sales'[s].lines = sales[s].lines
        /\ sales'[s].total = Charged(s)
        /\ \A t \in Sales : t # s => sales'[t] = sales[t]
    BY <2>1, <2>2 DEF Sale, TypeOK
  <2>4. sales[s].lines \subseteq Items
    BY LinesAreItems
  <2>5. PaidLines' = PaidLines \cup ({s} \X sales[s].lines)
    BY <2>1, <2>3, <2>4 DEF PaidLines
  <2>6. PaidLines \cap ({s} \X sales[s].lines) = {}
    BY <2>1 DEF PaidLines
  <2>7. Cardinality(PaidLines') = Cardinality(PaidLines) + Charged(s)
    BY <2>5, <2>6, OwnLines, PaidLinesFinite, DisjointUnion
  <2>8. QED
    BY <1>1, <2>1, <2>3, <2>7 DEF Charged
<1>4. ASSUME NEW s \in Sales, Refund(s)
      PROVE  /\ drawer' = Cardinality(PaidLines')
             /\ \A t \in Sales : sales'[t].status = "paid" =>
                  sales'[t].total = Cardinality(sales'[t].lines)
  <2>1. /\ sales[s].status = "paid" /\ drawer' = drawer - sales[s].total
        /\ sales' = [sales EXCEPT ![s].status = "refunded"]
    BY <1>4 DEF Refund
  <2>2. sales[s] \in Sale
    BY <2>1, LinesAreItems, SaleShape
  <2>3. sales'[s].status = "refunded" /\ \A t \in Sales : t # s => sales'[t] = sales[t]
    BY <2>1, <2>2 DEF Sale, TypeOK
  <2>4. sales[s].lines \subseteq Items
    BY LinesAreItems
  <2>5. PaidLines = PaidLines' \cup ({s} \X sales[s].lines)
    BY <2>1, <2>3, <2>4 DEF PaidLines
  <2>6. PaidLines' \cap ({s} \X sales[s].lines) = {}
    BY <2>3 DEF PaidLines
  <2>7. IsFiniteSet(PaidLines') /\ Cardinality(PaidLines') \in Nat
    BY <2>5, PaidLinesFinite, FS_Subset, FS_CardinalityType
  <2>8. Cardinality(PaidLines) = Cardinality(PaidLines') + Charged(s) /\ Charged(s) \in Nat
    BY <2>5, <2>6, <2>7, OwnLines, DisjointUnion
  <2>9. QED
    BY <1>1, <2>1, <2>3, <2>7, <2>8 DEF Charged
\* A removal whose reads still hold takes lines off drafts only.
<1>5. ASSUME NEW r \in Requests, DropCommit(r), NEW s \in Sales
      PROVE  sales'[s] = sales[s] \/ (sales[s].status # "paid" /\ sales'[s].status # "paid")
  <2>1. pending[r].fresh
    BY <1>5, Shapes DEF DropCommit, Writes, TypeOK
  <2>2. \A l \in pending[r].lines : sales[l[1]].status = "draft"
    BY <1>5, <2>1 DEF DropCommit, ReadsHold, ReadTrue
  <2>3. CASE ~\E i \in Items : <<s, i>> \in pending[r].lines
    BY <1>5, <2>3 DEF DropCommit, DropSales
  <2>4. CASE \E i \in Items : <<s, i>> \in pending[r].lines
    <3>1. sales[s].status = "draft"
      BY <2>2, <2>4
    <3>2. sales[s] \in Sale
      BY <3>1, LinesAreItems, SaleShape
    <3>3. \/ sales'[s] = Deleted
          \/ sales'[s] = [sales[s] EXCEPT !.lines = Remaining(s, pending[r].lines)]
      BY <1>5, <2>4 DEF DropCommit, DropSales
    <3>4. QED
      BY <3>1, <3>2, <3>3 DEF Sale, Deleted, NoSale
  <2>5. QED
    BY <2>3, <2>4
<1>6. ASSUME NEW s \in Sales, CancelDraft(s) \/ (\E i \in Items : AddLine(s, i)), NEW t \in Sales
      PROVE  sales'[t] = sales[t] \/ (sales[t].status # "paid" /\ sales'[t].status # "paid")
  BY <1>6 DEF CancelDraft, AddLine, TypeOK, Deleted, NoSale
<1>7. CASE UNCHANGED <<sales, drawer>>
  BY <1>2, <1>7
<1>8. ASSUME NEW r \in Requests, DropCommit(r)
      PROVE  UNCHANGED drawer
  BY <1>8 DEF DropCommit
<1>9. ASSUME NEW s \in Sales, CancelDraft(s) \/ \E i \in Items : AddLine(s, i)
      PROVE  UNCHANGED drawer
  BY <1>9 DEF CancelDraft, AddLine
<1>10. ASSUME ~UNCHANGED <<sales, drawer>>
       PROVE  \/ \E r \in Requests : DropCommit(r)
              \/ \E s \in Sales : CancelDraft(s) \/ Pay(s) \/ Refund(s)
              \/ \E s \in Sales, i \in Items : AddLine(s, i)
  BY <1>10 DEF Next, vars, CreateNamed, CreateNumbered, CreateCheck, CreateCommit, EditCheck,
           EditCommit, RemoveRead, RemoveSupplierRead, RemoveSupplierLines,
           WriteFails, SetActive, ReceiveBatch, Starts
<1>11. QED
  BY <1>2, <1>3, <1>4, <1>5, <1>6, <1>7, <1>8, <1>9, <1>10

\* The drawer holds exactly what the lines of the paid receipts cost, unless a
\* removal overlaps a payment (SalesService.pay and refund,
\* ProductsService.remove, SuppliersService.remove).
THEOREM DrawerIsExact == Spec => []DrawerCountsLines
<1>1. Init => DrawerExact
  <2>1. Init => PaidLines = {} /\ drawer = 0 /\ \A s \in Sales : sales[s].status # "paid"
    BY DEF Init, PaidLines, NoSale
  <2>2. QED
    BY <2>1, FS_EmptySet DEF DrawerExact
<1>2. DrawerExact => DrawerCountsLines
  BY DEF DrawerExact, DrawerCountsLines, PaidLines
<1>3. QED
  BY <1>1, <1>2, RootedAlways, ReadsAlways, DrawerNext, PTL DEF Spec
=============================================================================
