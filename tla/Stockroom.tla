----------------------------- MODULE Stockroom -----------------------------
(***************************************************************************)
(* The product catalogue and its suppliers, edited while goods arrive and  *)
(* are sold (products/products.service.ts, products/suppliers.service.ts,  *)
(* and as much of sales and inventory as these meet).                      *)
(*                                                                         *)
(* Grain.  Edits and removals read first, without locks, and write later;  *)
(* other requests commit in between.  The statements of the transaction    *)
(* that ends a removal are one action: it either deletes all that was      *)
(* listed or, when a foreign key refuses, nothing.  The till appears with  *)
(* one action per transaction, as in PointOfSale, every unit costing one   *)
(* kopeck.  A product keeps its supplier; locations and tags are left out. *)
(***************************************************************************)
EXTENDS Naturals, FiniteSets

CONSTANTS
  Suppliers, Products, Items, Sales,   \* row identifiers
  ProductOf,        \* the product each item is a unit of
  SupplierOf,       \* the supplier each product is registered with
  LastSku,          \* bound: articles are numbered 1..LastSku
  Requests          \* slots for requests between their reads and their write

ASSUME FiniteStock == IsFiniteSet(Items) /\ IsFiniteSet(Sales)
ASSUME Origins ==
  ProductOf \in [Items -> Products] /\ SupplierOf \in [Products -> Suppliers]
ASSUME Articles == LastSku \in Nat

VARIABLES
  supplier,     \* suppliers rows
  product,      \* products rows: article and out-of-stock flag
  items,        \* items rows: status and the supplier of their batch
  sales,        \* receipts with the items on their lines
  drawer,       \* what the open shift has taken
  skuSeq,       \* product_sku_seq
  pending,      \* requests between their reads and their write
  overlapped    \* history: some write followed another request's write
                \* that came after its own reads

vars == <<supplier, product, items, sales, drawer, skuSeq, pending, overlapped>>

Skus    == 1..LastSku
None    == "none"
Unused  == [status |-> "unused"]      \* an id no row has had yet
Gone    == [status |-> "gone"]
NoSale  == [status |-> "unused", lines |-> {}, total |-> 0]
Deleted == [NoSale EXCEPT !.status = "gone"]
Idle    == [op |-> "idle", fresh |-> TRUE]

ASSUME NoneIsNoId == None \notin Suppliers

Product == [status : {"listed"}, sku : Skus, outOfStock : BOOLEAN]
Item    == [status : {"in_stock", "sold"}, batch : Suppliers \cup {None}]
Sale    == [status : {"draft", "paid", "refunded"}, lines : SUBSET Items,
            total : 0..Cardinality(Items)]

Request ==
  {Idle}
  \cup [op : {"create"}, sku : Skus, qty : {0, 1}, supplier : Suppliers, fresh : BOOLEAN]
  \cup [op : {"edit"}, id : Products, row : Product, fresh : BOOLEAN]
  \cup [op : {"purge"}, products : SUBSET Products, owner : Suppliers, fresh : BOOLEAN]
  \cup [op : {"drop"}, products : SUBSET Products, owner : Suppliers \cup {None},
        lines : SUBSET (Sales \X Items), fresh : BOOLEAN]

TypeOK ==
  /\ supplier \in [Suppliers -> {"active", "inactive", "gone"}]
  /\ product \in [Products -> Product \cup {Unused, Gone}]
  /\ items \in [Items -> Item \cup {Unused, Gone}]
  /\ sales \in [Sales -> Sale \cup {NoSale, Deleted}]
  /\ drawer \in Nat
  /\ skuSeq \in 0..LastSku
  /\ pending \in [Requests -> Request]
  /\ overlapped \in BOOLEAN

Init ==
  /\ supplier = [s \in Suppliers |-> "active"]
  /\ product = [p \in Products |-> Unused]
  /\ items = [i \in Items |-> Unused]
  /\ sales = [s \in Sales |-> NoSale]
  /\ drawer = 0
  /\ skuSeq = 0
  /\ pending = [r \in Requests |-> Idle]
  /\ overlapped = FALSE

Existing   == {p \in Products : product[p].status = "listed"}
Stored     == {i \in Items : items[i] \notin {Unused, Gone}}
Units(ps)  == {i \in Stored : ProductOf[i] \in ps}
OnHand(p)  == {i \in Stored : ProductOf[i] = p /\ items[i].status = "in_stock"}
LinesOf(ps, statuses) ==
  {l \in Sales \X Items : /\ sales[l[1]].status \in statuses
                          /\ l[2] \in sales[l[1]].lines
                          /\ ProductOf[l[2]] \in ps}

-----------------------------------------------------------------------------
Starts(r, request) ==
  /\ pending[r] = Idle
  /\ pending' = [pending EXCEPT ![r] = request]
  /\ UNCHANGED <<supplier, product, items, sales, drawer, overlapped>>

\* A request answers; if it wrote, what the others have read is out of date.
Outdates(kept) ==
  pending' = [q \in Requests |->
    IF q \in kept \/ pending[q] = Idle THEN Idle ELSE [pending[q] EXCEPT !.fresh = FALSE]]

Writes(r) ==
  /\ Outdates({r})
  /\ overlapped' = (overlapped \/ ~pending[r].fresh)

\* UQ_products_sku
SkuFree(n, others) == \A p \in others \cap Existing : product[p].sku # n

-----------------------------------------------------------------------------
(* ProductsService *)

\* create, up to its transaction.  Without an article in the request,
\* nextReadableSku draws numbers until one is free (five at most).
CreateCheck(r, s, n, qty) ==
  /\ supplier[s] = "active"
  /\ SkuFree(n, Products)
  /\ Starts(r, [op |-> "create", sku |-> n, qty |-> qty, supplier |-> s, fresh |-> TRUE])

CreateNamed(r, s, n, qty) == CreateCheck(r, s, n, qty) /\ UNCHANGED skuSeq

CreateNumbered(r, s, n, qty) ==
  /\ skuSeq < n /\ n <= skuSeq + 5
  /\ \A m \in (skuSeq + 1)..(n - 1) : ~SkuFree(m, Products)
  /\ CreateCheck(r, s, n, qty)
  /\ skuSeq' = n

NewProduct(n) == [status |-> "listed", sku |-> n, outOfStock |-> FALSE]

\* The product and its first unit, in one transaction.
CreateCommit(r, p, units) ==
  LET q == pending[r] IN
  /\ q.op = "create"
  /\ product[p] = Unused /\ SupplierOf[p] = q.supplier
  /\ supplier[q.supplier] # "gone"
  /\ SkuFree(q.sku, Products)
  /\ Cardinality(units) = q.qty
  /\ \A i \in units : items[i] = Unused /\ ProductOf[i] = p
  /\ product' = [product EXCEPT ![p] = NewProduct(q.sku)]
  /\ items' = [i \in Items |->
       IF i \in units THEN [status |-> "in_stock", batch |-> None] ELSE items[i]]
  /\ Writes(r)
  /\ UNCHANGED <<supplier, sales, drawer, skuSeq>>

FlagReset(p, n) == NewProduct(n)   \* mutant of EditedRow

\* update: the fields of the request over the row as it was read.
EditedRow(p, n) == [product[p] EXCEPT !.sku = n]

EditCheck(r, p, n) ==
  /\ p \in Existing
  /\ SkuFree(n, Products \ {p})
  /\ Starts(r, [op |-> "edit", id |-> p, row |-> EditedRow(p, n), fresh |-> TRUE])
  /\ UNCHANGED skuSeq

\* save() writes the row back, or inserts it again if it was removed.
EditCommit(r) ==
  LET p == pending[r].id IN
  /\ pending[r].op = "edit"
  /\ supplier[SupplierOf[p]] # "gone"
  /\ SkuFree(pending[r].row.sku, Products \ {p})
  /\ product' = [product EXCEPT ![p] = pending[r].row]
  /\ Writes(r)
  /\ UNCHANGED <<supplier, items, sales, drawer, skuSeq>>

\* remove, and the removal of a supplier, are refused when a line of a paid
\* or refunded receipt names the product.
NeverSold(ps) == LinesOf(ps, {"paid", "refunded"}) = {}

RemoveRead(r, p) ==
  /\ p \in Existing
  /\ NeverSold({p})
  /\ Starts(r, [op |-> "drop", products |-> {p}, owner |-> None,
                lines |-> LinesOf({p}, {"draft"}), fresh |-> TRUE])
  /\ UNCHANGED skuSeq

-----------------------------------------------------------------------------
(* SuppliersService *)

SetActive(s, status) ==
  /\ supplier[s] \notin {"gone", status}
  /\ supplier' = [supplier EXCEPT ![s] = status]
  /\ Outdates({})
  /\ UNCHANGED <<product, items, sales, drawer, skuSeq, overlapped>>

SoldAllowed(ps) == TRUE   \* mutant of NothingHeld

\* remove: none of the supplier's goods may be held, sold ones aside.
NothingHeld(ps) == \A i \in Units(ps) : items[i].status = "sold"

RemoveSupplierRead(r, s) ==
  LET ps == {p \in Existing : SupplierOf[p] = s} IN
  /\ supplier[s] # "gone"
  /\ NothingHeld(ps)
  /\ NeverSold(ps)
  /\ Starts(r, [op |-> "purge", products |-> ps, owner |-> s, fresh |-> TRUE])
  /\ UNCHANGED skuSeq

\* The transaction starts with the draft lines of the products listed.
RemoveSupplierLines(r) ==
  LET q == pending[r] IN
  /\ q.op = "purge"
  /\ pending' = [pending EXCEPT ![r] =
       [op |-> "drop", products |-> q.products, owner |-> q.owner, fresh |-> q.fresh,
        lines |-> LinesOf(q.products, {"draft"})]]
  /\ UNCHANGED <<supplier, product, items, sales, drawer, skuSeq, overlapped>>

\* Both removals end alike: the lines read before, the receipts left empty
\* by that - whatever their status is by now -, the items, the products.
Remaining(s, gone) == {i \in sales[s].lines : <<s, i>> \notin gone}

DropSales(gone) ==
  [s \in Sales |->
     IF ~\E i \in Items : <<s, i>> \in gone THEN sales[s]
     ELSE IF Remaining(s, gone) = {} THEN Deleted
     ELSE [sales[s] EXCEPT !.lines = Remaining(s, gone)]]

\* sale_items restricts the deletion of an item or product it names, and a
\* product that of its supplier.
LinesRestrict(ps, left) ==
  \A s \in Sales : \A i \in left[s].lines : ProductOf[i] \notin ps

DropRefused(q) ==
  \/ ~LinesRestrict(q.products, DropSales(q.lines))
  \/ q.owner = None /\ ~(q.products \subseteq Existing)
  \/ q.owner # None /\ supplier[q.owner] = "gone"
  \/ q.owner # None /\ \E p \in Existing \ q.products : SupplierOf[p] = q.owner

DropCommit(r) ==
  LET q    == pending[r]
      left == DropSales(q.lines)
  IN
  /\ q.op = "drop"
  /\ ~DropRefused(q)
  /\ sales' = left
  /\ items' = [i \in Items |->
       IF i \in Units(q.products) THEN Gone
       ELSE IF i \in Stored /\ items[i].batch = q.owner
            THEN [items[i] EXCEPT !.batch = None] ELSE items[i]]
  /\ product' = [p \in Products |-> IF p \in q.products THEN Gone ELSE product[p]]
  /\ supplier' = [s \in Suppliers |-> IF s = q.owner THEN "gone" ELSE supplier[s]]
  /\ Writes(r)
  /\ UNCHANGED <<drawer, skuSeq>>

\* The database refuses the write of a request.
WriteFails(r) ==
  LET q == pending[r] IN
  /\ \/ q.op = "create" /\ (~SkuFree(q.sku, Products) \/ supplier[q.supplier] = "gone")
     \/ q.op = "edit" /\ (\/ ~SkuFree(q.row.sku, Products \ {q.id})
                          \/ supplier[SupplierOf[q.id]] = "gone")
     \/ q.op = "drop" /\ DropRefused(q)
  /\ pending' = [pending EXCEPT ![r] = Idle]
  /\ UNCHANGED <<supplier, product, items, sales, drawer, skuSeq, overlapped>>

-----------------------------------------------------------------------------
(* Goods and receipts, as far as they meet the catalogue *)

Commits == Outdates({}) /\ UNCHANGED <<supplier, skuSeq, overlapped>>

\* receiveBatch: any supplier may deliver units of any product.
ReceiveBatch(s, new) ==
  /\ supplier[s] = "active"
  /\ \A i \in new : items[i] = Unused /\ ProductOf[i] \in Existing
  /\ items' = [i \in Items |->
       IF i \in new THEN [status |-> "in_stock", batch |-> s] ELSE items[i]]
  /\ Commits
  /\ UNCHANGED <<product, sales, drawer>>

\* addItem, on a new or existing draft.
AddLine(s, i) ==
  LET old == sales[s].lines IN
  /\ sales[s].status \in {"unused", "draft"}
  /\ i \in OnHand(ProductOf[i])
  /\ ~product[ProductOf[i]].outOfStock
  /\ \A t \in Sales : sales[t].status = "draft" => i \notin sales[t].lines
  /\ sales' = [sales EXCEPT ![s] =
       [status |-> "draft", lines |-> old \cup {i}, total |-> Cardinality(old) + 1]]
  /\ Commits
  /\ UNCHANGED <<product, items, drawer>>

\* mutant of CancelDraft: only paid receipts are refused.
CancelUnpaid(s) ==
  /\ sales[s].status \in {"draft", "refunded"}
  /\ sales' = [sales EXCEPT ![s] = Deleted]
  /\ Commits
  /\ UNCHANGED <<product, items, drawer>>

\* lockDraft refuses receipts that are no drafts any more.
CancelDraft(s) ==
  /\ sales[s].status = "draft"
  /\ sales' = [sales EXCEPT ![s] = Deleted]
  /\ Commits
  /\ UNCHANGED <<product, items, drawer>>

\* Every line's item gets the status; a product without units to sell is
\* flagged out of stock.
Settled(s, status) ==
  /\ items' = [i \in Items |->
       IF i \in sales[s].lines THEN [items[i] EXCEPT !.status = status] ELSE items[i]]
  /\ product' = [p \in Products |->
       IF \E i \in sales[s].lines : ProductOf[i] = p
       THEN [product[p] EXCEPT !.outOfStock =
               \A i \in Units({p}) : items'[i].status = "sold"]
       ELSE product[p]]

StoredTotal(s) == sales[s].total   \* mutant of Charged

\* pay recalculates the receipt from its lines.
Charged(s) == Cardinality(sales[s].lines)

Pay(s) ==
  /\ sales[s].status = "draft"
  /\ \A i \in sales[s].lines :
       items[i].status = "in_stock" /\ ~product[ProductOf[i]].outOfStock
  /\ Settled(s, "sold")
  /\ sales' = [sales EXCEPT ![s].status = "paid", ![s].total = Charged(s)]
  /\ drawer' = drawer + Charged(s)
  /\ Commits

Refund(s) ==
  /\ sales[s].status = "paid"
  /\ \A i \in sales[s].lines : items[i].status = "sold"
  /\ drawer >= sales[s].total
  /\ Settled(s, "in_stock")
  /\ sales' = [sales EXCEPT ![s].status = "refunded"]
  /\ drawer' = drawer - sales[s].total
  /\ Commits

Next ==
  \/ \E r \in Requests :
       \/ \E s \in Suppliers, n \in Skus, qty \in {0, 1} :
            CreateNamed(r, s, n, qty) \/ CreateNumbered(r, s, n, qty)
       \/ \E p \in Products, units \in SUBSET Items : CreateCommit(r, p, units)
       \/ \E p \in Products, n \in Skus : EditCheck(r, p, n)
       \/ EditCommit(r)
       \/ \E p \in Products : RemoveRead(r, p)
       \/ \E s \in Suppliers : RemoveSupplierRead(r, s)
       \/ RemoveSupplierLines(r)
       \/ DropCommit(r)
       \/ WriteFails(r)
  \/ \E s \in Suppliers, status \in {"active", "inactive"} : SetActive(s, status)
  \/ \E s \in Suppliers, new \in SUBSET Items \ {{}} : ReceiveBatch(s, new)
  \/ \E s \in Sales : CancelDraft(s) \/ Pay(s) \/ Refund(s)
  \/ \E s \in Sales, i \in Items : AddLine(s, i)

Spec == Init /\ [][Next]_vars

-----------------------------------------------------------------------------
(* Properties *)

\* In every interleaving a receipt line names an item that exists, an item
\* a product that exists and a batch's supplier, a product its supplier:
\* the removals look at other statements than they delete with.
StockReferencesExist ==
  /\ \A s \in Sales : sales[s].lines \subseteq Stored
  /\ \A i \in Stored : /\ ProductOf[i] \in Existing
                       /\ items[i].batch # None => supplier[items[i].batch] # "gone"
  /\ \A p \in Existing : supplier[SupplierOf[p]] # "gone"

\* Two products never share an article, given or drawn from the sequence.
SkusUnique == \A p, q \in Existing : product[p].sku = product[q].sku => p = q

\* Removing a product or a supplier leaves paid and refunded receipts alone
\* ("Cannot delete a product that has sales").
ReceiptsKept ==
  [][\A s \in Sales : sales[s].status \in {"paid", "refunded"} =>
       sales'[s].status \in {"paid", "refunded"} /\ sales'[s].lines = sales[s].lines]_vars

\* It does so unless a payment comes between the reads and the deletes.
ReceiptsKeptUnlessOverlap ==
  [][\A s \in Sales : sales[s].status \in {"paid", "refunded"} /\ ~overlapped' =>
       sales'[s].status \in {"paid", "refunded"} /\ sales'[s].lines = sales[s].lines]_vars

\* A supplier is removed together with goods of theirs that are in stock
\* only when those arrive, or come back, during the removal.
HeldGoodsKeepSupplier ==
  [][\A s \in Suppliers : supplier[s] # "gone" /\ supplier'[s] = "gone" /\ ~overlapped' =>
       \A i \in Stored : SupplierOf[ProductOf[i]] = s => items[i].status = "sold"]_vars

\* A product whose units are all sold is flagged out of stock, also after
\* edits of the product, unless an edit overlaps the payment (save() then
\* writes the flag it read before).
SoldOutFlagged ==
  ~overlapped => \A p \in Existing :
    OnHand(p) = {} /\ Units({p}) # {} => product[p].outOfStock

\* The drawer holds what the lines of the paid receipts cost, also when a
\* removed product took lines off a draft before it was paid.
DrawerCountsLines ==
  ~overlapped =>
    drawer = Cardinality({l \in Sales \X Items :
                            sales[l[1]].status = "paid" /\ l[2] \in sales[l[1]].lines})
=============================================================================
