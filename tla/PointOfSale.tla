----------------------------- MODULE PointOfSale -----------------------------
(***************************************************************************)
(* The till: cashier shifts, receipts from draft to paid to refunded, the  *)
(* jewelry items they sell and the stockroom operations on those items     *)
(* (shifts/shifts.service.ts, sales/sales.service.ts,                      *)
(* inventory/inventory.service.ts).                                        *)
(*                                                                         *)
(* Grain.  A handler that runs in one database transaction and takes its   *)
(* row locks before it decides is one action; it either commits everything *)
(* or, when a check throws, changes nothing, so a refused request is a     *)
(* disabled action.  ShiftsService.open and SalesService.createDraft run   *)
(* in no transaction: each is a read and, later, an insert, and requests   *)
(* in between are the slots of "pending".                                  *)
(***************************************************************************)
EXTENDS Pricing, ItemLifecycle, Access

CONSTANTS
  Shifts, Sales, Items, Products,   \* row identifiers
  ProductOf,        \* the product each item is a unit of
  Requests,         \* slots for requests between their read and their insert
  Prices,           \* unit prices asked for, or product prices
  Discounts,        \* discounts in kopecks that requests name
  Percents,         \* discounts in percent that requests name
  Targets,          \* the statuses that status changes ask for
  Prefix,           \* first 8 hex digits of each location's id
  LastDay           \* bound: UTC days the calendar advances through

ASSUME FiniteRows == IsFiniteSet(Sales) /\ IsFiniteSet(Items)
ASSUME ProductsOfItems == ProductOf \in [Items -> Products]
ASSUME Amounts ==
  Prices \subseteq Nat /\ Discounts \subseteq Nat /\ Percents \subseteq 0..100
ASSUME Calendar == LastDay \in Nat \ {0}
ASSUME StatusTargets == Targets \subseteq ItemStatus

VARIABLES
  shifts,       \* cashier shifts
  drawer,       \* cash_total and card_total of each shift
  sales,        \* receipts
  lines,        \* receipt -> item -> the line selling it
  items,        \* status and location of each item
  trail,        \* status and location in each item's last audit entry
  takenBack,    \* audit entries by which staff took a sold item back by hand
  outOfStock,   \* the out-of-stock flag of each product
  seq,          \* receipt_sequences: last number per location and day
  day,          \* the current UTC day
  pending       \* requests between their read and their insert

vars ==
  <<shifts, drawer, sales, lines, items, trail, takenBack, outOfStock, seq, day, pending>>

Days    == 1..LastDay
Methods == {"cash", "card"}

NoShift  == [status |-> "none"]
NoSale   == [status |-> "none"]
NoItem   == [status |-> "none"]
NoNumber == [seq |-> 0]
NoLines  == [i \in {} |-> 0]
Idle     == [op |-> "idle"]

Shift == [status : {"open", "closed"}, cashier : Staff, loc : Locations]
ReceiptNumber == [day : Days, prefix : {Prefix[l] : l \in Locations}, seq : Nat]
Sale == [status : {"draft", "paid", "refunded"}, seller : Staff, shift : Shifts,
         loc : Locations, discount : Nat, percent : 0..100, total : Nat,
         method : Methods \cup {"unpaid"}, number : ReceiptNumber \cup {NoNumber}]
Item == [status : ItemStatus, loc : Locations]
Opening  == [op : {"open"}, by : Staff, loc : Locations]
Drafting == [op : {"draft"}, by : Staff, shift : Shifts]

TypeOK ==
  /\ shifts \in [Shifts -> Shift \cup {NoShift}]
  /\ drawer \in [Shifts -> [Methods -> Nat]]
  /\ sales \in [Sales -> Sale \cup {NoSale}]
  /\ lines = [s \in Sales |-> lines[s]]
  /\ \A s \in Sales : /\ DOMAIN lines[s] \subseteq Items
                     /\ lines[s] \in [DOMAIN lines[s] -> Line]
  /\ items \in [Items -> Item \cup {NoItem}]
  /\ trail \in [Items -> Item \cup {NoItem}]
  /\ takenBack \in [Items -> Nat]
  /\ outOfStock \in [Products -> BOOLEAN]
  /\ seq \in [Locations -> [Days -> Nat]]
  /\ day \in Days
  /\ pending \in [Requests -> {Idle} \cup Opening \cup Drafting]

Drafts   == {s \in Sales : sales[s].status = "draft"}
Paid     == {s \in Sales : sales[s].status = "paid"}
Receipts == {s \in Sales : sales[s].status \in {"paid", "refunded"}}

\* Items created along with their product (POST /products) have no audit
\* entry; every other item arrives later, in a batch.
Init ==
  /\ shifts = [h \in Shifts |-> NoShift]
  /\ drawer = [h \in Shifts |-> [m \in Methods |-> 0]]
  /\ sales = [s \in Sales |-> NoSale]
  /\ lines = [s \in Sales |-> NoLines]
  /\ items \in [Items -> [status : {"in_stock"}, loc : Locations] \cup {NoItem}]
  /\ trail = [i \in Items |-> NoItem]
  /\ takenBack = [i \in Items |-> 0]
  /\ outOfStock = [p \in Products |-> FALSE]
  /\ seq = [l \in Locations |-> [d \in Days |-> 0]]
  /\ day = 1
  /\ pending = [r \in Requests |-> Idle]

-----------------------------------------------------------------------------
(* ShiftsService *)

HasOpenShift(u) ==
  \E h \in Shifts : shifts[h].status = "open" /\ shifts[h].cashier = u

\* open, up to the check that the cashier has no open shift.
OpenShiftCheck(r, u, l) ==
  /\ pending[r] = Idle
  /\ MayRunShift(u) /\ l \in Reach[u]
  /\ ~HasOpenShift(u)
  /\ pending' = [pending EXCEPT ![r] = [op |-> "open", by |-> u, loc |-> l]]
  /\ UNCHANGED <<shifts, drawer, sales, lines, items, trail, takenBack, outOfStock, seq, day>>

MissingIndex(u) == TRUE   \* mutant of UniqueOpenShift

\* UQ_shifts_one_open_per_cashier: the insert is refused when another
\* request opened a shift for the same cashier in the meantime.
UniqueOpenShift(u) == ~HasOpenShift(u)

OpenShiftInsert(r, h) ==
  /\ pending[r].op = "open"
  /\ shifts[h] = NoShift
  /\ UniqueOpenShift(pending[r].by)
  /\ shifts' = [shifts EXCEPT ![h] =
       [status |-> "open", cashier |-> pending[r].by, loc |-> pending[r].loc]]
  /\ drawer' = [drawer EXCEPT ![h] = [m \in Methods |-> 0]]
  /\ pending' = [pending EXCEPT ![r] = Idle]
  /\ UNCHANGED <<sales, lines, items, trail, takenBack, outOfStock, seq, day>>

OpenShiftRefused(r) ==
  /\ pending[r].op = "open"
  /\ ~UniqueOpenShift(pending[r].by)
  /\ pending' = [pending EXCEPT ![r] = Idle]
  /\ UNCHANGED <<shifts, drawer, sales, lines, items, trail, takenBack, outOfStock, seq, day>>

DiscardUnrefunded(h) == {s \in Drafts \cup Paid : sales[s].shift = h}   \* mutant

\* close: the drafts of the shift are deleted with their lines.
Discarded(h) == {s \in Drafts : sales[s].shift = h}

CloseShift(h, u) ==
  /\ MayRunShift(u)
  /\ shifts[h].status = "open"
  /\ shifts[h].loc \in Reach[u]
  /\ shifts[h].cashier = u \/ Role[u] # "cashier"
  /\ sales' = [s \in Sales |-> IF s \in Discarded(h) THEN NoSale ELSE sales[s]]
  /\ lines' = [s \in Sales |-> IF s \in Discarded(h) THEN NoLines ELSE lines[s]]
  /\ shifts' = [shifts EXCEPT ![h].status = "closed"]
  /\ UNCHANGED <<drawer, items, trail, takenBack, outOfStock, seq, day, pending>>

-----------------------------------------------------------------------------
(* SalesService: drafts *)

\* createDraft, up to the read of the seller's open shift.
CreateDraftRead(r, u, h) ==
  /\ pending[r] = Idle
  /\ MaySell(u)
  /\ shifts[h].status = "open" /\ shifts[h].cashier = u
  /\ shifts[h].loc \in Reach[u]
  /\ pending' = [pending EXCEPT ![r] = [op |-> "draft", by |-> u, shift |-> h]]
  /\ UNCHANGED <<shifts, drawer, sales, lines, items, trail, takenBack, outOfStock, seq, day>>

\* The insert names the shift that was read; nothing looks at it again.
CreateDraftInsert(r, s) ==
  /\ pending[r].op = "draft"
  /\ sales[s] = NoSale
  /\ sales' = [sales EXCEPT ![s] =
       [status |-> "draft", seller |-> pending[r].by, shift |-> pending[r].shift,
        loc |-> shifts[pending[r].shift].loc, discount |-> 0, percent |-> 0,
        total |-> 0, method |-> "unpaid", number |-> NoNumber]]
  /\ lines' = [lines EXCEPT ![s] = NoLines]
  /\ pending' = [pending EXCEPT ![r] = Idle]
  /\ UNCHANGED <<shifts, drawer, items, trail, takenBack, outOfStock, seq, day>>

\* Mutant: the status of the locked receipt is not looked at.
EditableFinalized(s, u) ==
  /\ MaySell(u)
  /\ sales[s] # NoSale
  /\ sales[s].loc \in Reach[u]
  /\ sales[s].seller = u \/ Role[u] = "admin"

\* lockDraft: the receipt is a draft the user may edit.
Editable(s, u) ==
  /\ MaySell(u)
  /\ sales[s].status = "draft"
  /\ sales[s].loc \in Reach[u]
  /\ sales[s].seller = u \/ Role[u] = "admin"

TotalKept(sale, its) == sale   \* mutant of Recalculated

\* recalculate: refuse discounts that exceed the new lines, else store the
\* new total.
Recalculated(sale, its) ==
  [sale EXCEPT !.total = ReceiptTotal(its, sale.discount, sale.percent)]

Reprice(s, its) ==
  /\ ReceiptAccepted(its, sales[s].discount, sales[s].percent)
  /\ lines' = [lines EXCEPT ![s] = its]
  /\ sales' = [sales EXCEPT ![s] = Recalculated(sales[s], its)]
  /\ UNCHANGED <<shifts, drawer, items, trail, takenBack, outOfStock, seq, day, pending>>

UpdateDraft(s, u, code, discount, percent) ==
  LET newDiscount == Resolve(discount, code, "amount", sales[s].discount)
      newPercent  == Resolve(percent, code, "percent", sales[s].percent)
      edited == [sales[s] EXCEPT !.discount = newDiscount, !.percent = newPercent]
  IN /\ Editable(s, u)
     /\ CodeAccepted(code, discount, percent)
     /\ ReceiptAccepted(lines[s], newDiscount, newPercent)
     /\ sales' = [sales EXCEPT ![s] = Recalculated(edited, lines[s])]
     /\ UNCHANGED <<shifts, drawer, lines, items, trail, takenBack, outOfStock, seq, day, pending>>

DraftsUnchecked(i) == FALSE   \* mutant of OnDraft

OnDraft(i) == \E s \in Drafts : i \in DOMAIN lines[s]

\* One new line per chosen item, all at the same price and discounts.
AddLines(s, chosen, price, code, discount, percent) ==
  LET line == [price    |-> price,
               discount |-> Resolve(discount, code, "amount", 0),
               percent  |-> Resolve(percent, code, "percent", 0)]
  IN /\ CodeAccepted(code, discount, percent)
     /\ \A i \in chosen : ~OnDraft(i) /\ ~outOfStock[ProductOf[i]]
     /\ Reprice(s, [i \in DOMAIN lines[s] \cup chosen |->
                      IF i \in chosen THEN line ELSE lines[s][i]])

\* addItem by itemId: that item, wherever it is.
AddItemById(s, u, i, price, code, discount, percent) ==
  /\ Editable(s, u)
  /\ items[i].status \in Available
  /\ AddLines(s, {i}, price, code, discount, percent)

\* addItem by productId: as many free units of the product as asked for, the
\* oldest first; which those are is left open.
AddItemsByProduct(s, u, chosen, price, code, discount, percent) ==
  /\ Editable(s, u)
  /\ \E p \in Products : \A i \in chosen : ProductOf[i] = p
  /\ \A i \in chosen : items[i].status \in Available
  /\ AddLines(s, chosen, price, code, discount, percent)

\* updateItem: a price and discounts for one line; a promo code resets the
\* discounts it does not set.
UpdateItem(s, u, i, price, code, discount, percent) ==
  LET old  == lines[s][i]
      line == [price    |-> IF price = Absent THEN old.price ELSE price,
               discount |-> Resolve(discount, code, "amount", old.discount),
               percent  |-> Resolve(percent, code, "percent", old.percent)]
  IN /\ Editable(s, u)
     /\ i \in DOMAIN lines[s]
     /\ CodeAccepted(code, discount, percent)
     /\ Reprice(s, [lines[s] EXCEPT ![i] = line])

RemoveItem(s, u, i) ==
  /\ Editable(s, u)
  /\ i \in DOMAIN lines[s]
  /\ Reprice(s, [j \in DOMAIN lines[s] \ {i} |-> lines[s][j]])

CancelDraft(s, u) ==
  /\ Editable(s, u)
  /\ sales' = [sales EXCEPT ![s] = NoSale]
  /\ lines' = [lines EXCEPT ![s] = NoLines]
  /\ UNCHANGED <<shifts, drawer, items, trail, takenBack, outOfStock, seq, day, pending>>

-----------------------------------------------------------------------------
(* SalesService: pay and refund *)

ShiftUnchecked(h) == TRUE   \* mutant of ShiftOpen

\* lockShift, and the check that follows it in pay and refund.
ShiftOpen(h) == shifts[h].status = "open"

\* Every line's item changes status; the audit trail records it.
SetStatus(s, status) ==
  [i \in Items |-> IF i \in DOMAIN lines[s] THEN [items[i] EXCEPT !.status = status]
                                            ELSE items[i]]
LoggedBefore(changed, new) ==   \* mutant: the entry is made from the old row
  [i \in Items |-> IF i \in changed THEN items[i] ELSE trail[i]]
Logged(changed, new) == [i \in Items |-> IF i \in changed THEN new[i] ELSE trail[i]]

\* refreshProductAvailability, on the items as the transaction leaves them.
SoldOut(p, new) == \A i \in Items : ProductOf[i] = p => new[i].status \notin Available
Refreshed(changed, new) ==
  [p \in Products |-> IF \E i \in changed : ProductOf[i] = p THEN SoldOut(p, new)
                                                             ELSE outOfStock[p]]

\* Mutant: the sequence row is not keyed by the day.
RunningNumber(l) == Cardinality({s \in Receipts : sales[s].loc = l}) + 1
UnindexedNumber(number) == TRUE   \* mutant of NumberFree

\* nextReceiptNumber, and the unique index UQ_sales_receipt_number.
NextSeq(l) == seq[l][day] + 1
NextNumber(l) == [day |-> day, prefix |-> Prefix[l], seq |-> NextSeq(l)]
NumberFree(number) == \A s \in Sales : sales[s] # NoSale => sales[s].number # number

CashOnly(h, m, amount) ==   \* mutant: the method is ignored
  [drawer EXCEPT ![h]["cash"] = @ + amount]
Deducted(h, m, amount) ==   \* mutant: the sign is lost
  [drawer EXCEPT ![h][m] = @ - amount]
AddToDrawer(h, m, amount) == [drawer EXCEPT ![h][m] = @ + amount]

Pay(s, u, m) ==
  LET h     == sales[s].shift
      l     == sales[s].loc
      final == Recalculated(sales[s], lines[s])
      sold  == SetStatus(s, "sold")
  IN /\ Editable(s, u)
     /\ lines[s] # NoLines
     /\ ShiftOpen(h)
     /\ \A i \in DOMAIN lines[s] :
          items[i].status \in Available /\ ~outOfStock[ProductOf[i]]
     /\ ReceiptAccepted(lines[s], sales[s].discount, sales[s].percent)
     /\ final.total > 0
     /\ NumberFree(NextNumber(l))
     /\ items' = sold
     /\ trail' = Logged(DOMAIN lines[s], sold)
     /\ outOfStock' = Refreshed(DOMAIN lines[s], sold)
     /\ drawer' = AddToDrawer(h, m, final.total)
     /\ seq' = [seq EXCEPT ![l][day] = NextSeq(l)]
     /\ sales' = [sales EXCEPT ![s] =
          [final EXCEPT !.status = "paid", !.method = m, !.number = NextNumber(l)]]
     /\ UNCHANGED <<shifts, lines, takenBack, day, pending>>

Refund(s, u) ==
  LET h        == sales[s].shift
      m        == sales[s].method
      returned == SetStatus(s, "in_stock")
  IN /\ MayRefund(u)
     /\ sales[s].status = "paid"
     /\ sales[s].loc \in Reach[u]
     /\ ShiftOpen(h)
     /\ \A i \in DOMAIN lines[s] : items[i].status = "sold"
     /\ drawer[h][m] >= sales[s].total
     /\ items' = returned
     /\ trail' = Logged(DOMAIN lines[s], returned)
     /\ outOfStock' = Refreshed(DOMAIN lines[s], returned)
     /\ drawer' = AddToDrawer(h, m, -sales[s].total)
     /\ sales' = [sales EXCEPT ![s].status = "refunded"]
     /\ UNCHANGED <<shifts, lines, takenBack, seq, day, pending>>

-----------------------------------------------------------------------------
(* InventoryService *)

\* receiveBatch: new items in stock; the product's flag is not touched.
ReceiveBatch(u, l, new) ==
  LET received == [i \in Items |-> IF i \in new THEN [status |-> "in_stock", loc |-> l]
                                                ELSE items[i]]
  IN /\ MayReceive(u) /\ l \in Reach[u]
     /\ \A i \in new : items[i] = NoItem
     /\ items' = received
     /\ trail' = Logged(new, received)
     /\ UNCHANGED <<shifts, drawer, sales, lines, takenBack, outOfStock, seq, day, pending>>

PutItem(i, item) ==
  /\ items' = [items EXCEPT ![i] = item]
  /\ trail' = [trail EXCEPT ![i] = item]
  /\ UNCHANGED <<shifts, drawer, sales, lines, outOfStock, seq, day, pending>>

MoveItem(i, u, l) ==
  /\ MayHandle(u)
  /\ items[i] # NoItem
  /\ {items[i].loc, l} \subseteq Reach[u]
  /\ l # items[i].loc
  /\ items[i].status # "sold"
  /\ PutItem(i, [items[i] EXCEPT !.loc = l])
  /\ UNCHANGED takenBack

\* A sold item may be asked back into stock, with no look at its receipt; the
\* entry is RETURNED, as after a refund.
UpdateStatus(i, u, to) ==
  /\ MayHandle(u)
  /\ items[i] # NoItem
  /\ items[i].loc \in Reach[u]
  /\ CanChange(items[i].status, to)
  /\ PutItem(i, [items[i] EXCEPT !.status = to])
  /\ takenBack' = IF items[i].status = "sold" /\ to = "in_stock"
                  THEN [takenBack EXCEPT ![i] = @ + 1] ELSE takenBack

\* The UTC date of new Date() changes.
Midnight ==
  /\ day < LastDay
  /\ day' = day + 1
  /\ UNCHANGED <<shifts, drawer, sales, lines, items, trail, takenBack, outOfStock, seq, pending>>

-----------------------------------------------------------------------------
GivenDiscounts == Discounts \cup {Absent}
GivenPercents  == Percents \cup {Absent}

ShiftStep ==
  \/ \E r \in Requests, u \in Staff, l \in Locations : OpenShiftCheck(r, u, l)
  \/ \E r \in Requests, h \in Shifts : OpenShiftInsert(r, h)
  \/ \E r \in Requests : OpenShiftRefused(r)
  \/ \E h \in Shifts, u \in Staff : CloseShift(h, u)

DraftStep ==
  \/ \E r \in Requests, u \in Staff, h \in Shifts : CreateDraftRead(r, u, h)
  \/ \E r \in Requests, s \in Sales : CreateDraftInsert(r, s)
  \/ \E s \in Sales, u \in Staff, code \in PromoCodes,
        discount \in GivenDiscounts, percent \in GivenPercents :
       \/ UpdateDraft(s, u, code, discount, percent)
       \/ \E i \in Items, price \in Prices :
            AddItemById(s, u, i, price, code, discount, percent)
       \/ \E chosen \in SUBSET Items \ {{}}, price \in Prices :
            AddItemsByProduct(s, u, chosen, price, code, discount, percent)
       \/ \E i \in Items, price \in Prices \cup {Absent} :
            UpdateItem(s, u, i, price, code, discount, percent)
  \/ \E s \in Sales, u \in Staff, i \in Items : RemoveItem(s, u, i)
  \/ \E s \in Sales, u \in Staff : CancelDraft(s, u)

SettleStep ==
  \/ \E s \in Sales, u \in Staff, m \in Methods : Pay(s, u, m)
  \/ \E s \in Sales, u \in Staff : Refund(s, u)

StockStep ==
  \/ \E u \in Staff, l \in Locations, new \in SUBSET Items \ {{}} : ReceiveBatch(u, l, new)
  \/ \E i \in Items, u \in Staff, l \in Locations : MoveItem(i, u, l)
  \/ \E i \in Items, u \in Staff, to \in Targets : UpdateStatus(i, u, to)

Next == ShiftStep \/ DraftStep \/ SettleStep \/ StockStep \/ Midnight

Spec == Init /\ [][Next]_vars
=============================================================================
