------------------------------ MODULE TillProofs ------------------------------
(***************************************************************************)
(* The till's type invariant, its safety properties and its refinement of  *)
(* the ledger, for any number of shifts, receipts, items, staff and        *)
(* concurrent requests; before them, facts about the receipt arithmetic.   *)
(***************************************************************************)
EXTENDS TillSafety, SumsProofs

(* Receipt arithmetic *)

LEMMA ProductType ==
  ASSUME NEW a \in Nat, NEW p \in Nat
  PROVE  a * p \in Nat
OBVIOUS

\* A percentage of an amount is a whole number of kopecks, within the amount.
LEMMA PercentOfType ==
  ASSUME NEW amount \in Nat, NEW percent \in 0..100
  PROVE  PercentOf(amount, percent) \in Nat /\ PercentOf(amount, percent) <= amount
<1> DEFINE n == amount * percent
<1>1. n \in Nat
  BY ProductType
<1>2. n <= amount * 100
  OBVIOUS
<1>3. (n + 50) \div 100 \in Nat /\ (n + 50) \div 100 <= amount
  <2> HIDE DEF n
  <2>1. QED
    BY <1>1, <1>2
<1>4. QED
  BY <1>3 DEF PercentOf

\* Rounding moves a percentage by at most half a kopeck.
LEMMA PercentRounding ==
  ASSUME NEW amount \in Nat, NEW percent \in 0..100
  PROVE  100 * PercentOf(amount, percent) - amount * percent \in -49..50
<1> DEFINE n == amount * percent
<1>1. n \in Nat
  BY ProductType
<1>2. 100 * ((n + 50) \div 100) - n \in -49..50
  <2> HIDE DEF n
  <2>1. QED
    BY <1>1
<1>3. QED
  BY <1>2 DEF PercentOf

\* A resolved discount is a natural, and a resolved percentage a percentage.
LEMMA ResolveType ==
  ASSUME NEW given \in Nat \cup {Absent}, NEW code, NEW kept \in Nat
  PROVE  /\ Resolve(given, code, "amount", kept) \in Nat
         /\ given \in 0..100 \cup {Absent} /\ kept \in 0..100 =>
              Resolve(given, code, "percent", kept) \in 0..100
<1>1. PromoValue(code, "amount") \in Nat /\ PromoValue(code, "percent") \in 0..100
  BY PromosAreDiscounts DEF PromoValue
<1>2. QED
  BY <1>1 DEF Resolve, Absent

LEMMA LineTotalType ==
  ASSUME NEW line \in Line, LineAccepted(line)
  PROVE  LineTotal(line) \in Nat
<1>1. line.price \in Nat /\ line.discount \in Nat /\ line.percent \in 0..100
  BY DEF Line
<1>2. PercentOf(line.price, line.percent) \in Nat
  BY <1>1, PercentOfType
<1>3. QED
  BY <1>1, <1>2 DEF LineAccepted, LineTotal, LineDiscount

LEMMA SubtotalType ==
  ASSUME NEW D, IsFiniteSet(D), NEW printed \in [D -> Line],
         \A x \in D : LineAccepted(printed[x])
  PROVE  Subtotal(printed) \in Nat
<1> DEFINE f == [x \in D |-> LineTotal(printed[x])]
<1>1. f \in [D -> Nat]
  BY LineTotalType
<1>2. SumOver(f) \in Nat
  BY <1>1, SumType
<1>3. QED
  BY <1>2 DEF Subtotal

\* A receipt whose discounts are accepted has a total of at least zero.
LEMMA ReceiptTotalType ==
  ASSUME NEW D, IsFiniteSet(D), NEW printed \in [D -> Line],
         NEW discount \in Nat, NEW percent \in 0..100,
         ReceiptAccepted(printed, discount, percent)
  PROVE  ReceiptTotal(printed, discount, percent) \in Nat
<1>1. \A x \in D : LineAccepted(printed[x])
  BY DEF ReceiptAccepted
<1>2. Subtotal(printed) \in Nat
  BY <1>1, SubtotalType
<1>3. PercentOf(Subtotal(printed), percent) \in Nat
  BY <1>2, PercentOfType
<1>4. QED
  BY <1>2, <1>3 DEF ReceiptAccepted, ReceiptTotal, ReceiptDiscount

-----------------------------------------------------------------------------
(* The till's inductive invariant *)

\* The strengthening: rows refer to shifts that exist, and a receipt that
\* was paid has a payment method.
ForeignKeys ==
  /\ \A r \in Requests : pending[r].op = "draft" => shifts[pending[r].shift] # NoShift
  /\ \A s \in Sales : sales[s].status # "none" => shifts[sales[s].shift] # NoShift
  /\ \A s \in Receipts : sales[s].method \in Methods

Rooted == TypeOK /\ ForeignKeys

-----------------------------------------------------------------------------
(* Facts about single rows. *)

LEMMA ExistingSale ==
  ASSUME TypeOK, NEW s \in Sales, sales[s].status # "none"
  PROVE  sales[s] \in Sale
BY DEF TypeOK, NoSale

LEMMA ExistingShift ==
  ASSUME TypeOK, NEW h \in Shifts, shifts[h] # NoShift
  PROVE  shifts[h] \in Shift
BY DEF TypeOK

LEMMA ExistingItem ==
  ASSUME TypeOK, NEW i \in Items, items[i] # NoItem
  PROVE  items[i] \in Item
BY DEF TypeOK

LEMMA ExistingRequest ==
  ASSUME TypeOK, NEW r \in Requests
  PROVE  /\ pending[r].op = "open" => pending[r] \in Opening
         /\ pending[r].op = "draft" => pending[r] \in Drafting
BY DEF TypeOK, Idle, Opening, Drafting

\* The total a receipt is given when its lines pass the checks.
LEMMA TotalType ==
  ASSUME NEW its, DOMAIN its \subseteq Items, its \in [DOMAIN its -> Line],
         NEW discount \in Nat, NEW percent \in 0..100,
         ReceiptAccepted(its, discount, percent)
  PROVE  ReceiptTotal(its, discount, percent) \in Nat
<1>1. IsFiniteSet(DOMAIN its)
  BY FiniteRows, FS_Subset
<1>2. QED
  BY <1>1, ReceiptTotalType

LEMMA LinesType ==
  ASSUME TypeOK, NEW s \in Sales
  PROVE  DOMAIN lines[s] \subseteq Items /\ lines[s] \in [DOMAIN lines[s] -> Line]
BY DEF TypeOK

\* Adding to a drawer changes one total of one shift.
LEMMA DrawerChange ==
  ASSUME TypeOK, NEW h \in Shifts, NEW m \in Methods, NEW amount \in Int,
         drawer[h][m] + amount \in Nat
  PROVE  /\ AddToDrawer(h, m, amount) \in [Shifts -> [Methods -> Nat]]
         /\ AddToDrawer(h, m, amount)[h][m] = drawer[h][m] + amount
         /\ \A k \in Shifts, n \in Methods :
              k # h \/ n # m => AddToDrawer(h, m, amount)[k][n] = drawer[k][n]
<1>1. drawer \in [Shifts -> [Methods -> Nat]]
  BY DEF TypeOK
<1>2. QED
  BY <1>1 DEF AddToDrawer

\* Changing the status of a receipt's items, and logging it, keeps the types.
LEMMA StatusType ==
  ASSUME TypeOK, NEW s \in Sales, NEW status \in ItemStatus,
         \A i \in DOMAIN lines[s] : items[i] # NoItem
  PROVE  /\ SetStatus(s, status) \in [Items -> Item \cup {NoItem}]
         /\ Logged(DOMAIN lines[s], SetStatus(s, status)) \in [Items -> Item \cup {NoItem}]
         /\ Refreshed(DOMAIN lines[s], SetStatus(s, status)) \in [Products -> BOOLEAN]
<1>1. ASSUME NEW i \in Items
      PROVE  SetStatus(s, status)[i] \in Item \cup {NoItem}
  <2>1. CASE i \in DOMAIN lines[s]
    BY <2>1, ExistingItem DEF SetStatus, Item, TypeOK
  <2>2. CASE i \notin DOMAIN lines[s]
    BY <2>2 DEF SetStatus, TypeOK
  <2>3. QED
    BY <2>1, <2>2
<1>2. SetStatus(s, status) \in [Items -> Item \cup {NoItem}]
  BY <1>1 DEF SetStatus
<1>3. Logged(DOMAIN lines[s], SetStatus(s, status)) \in [Items -> Item \cup {NoItem}]
  BY <1>2 DEF Logged, TypeOK
<1>4. Refreshed(DOMAIN lines[s], SetStatus(s, status)) \in [Products -> BOOLEAN]
  BY Zenon DEF Refreshed, SoldOut, TypeOK
<1>5. QED
  BY <1>2, <1>3, <1>4

-----------------------------------------------------------------------------
(* What work on drafts comes to. *)

\* Draft s is stored with lines its as row: priced by these lines, and with no
\* item of another draft among them.
Stores(s, its, row) ==
  /\ sales[s].status = "draft"
  /\ sales' = [sales EXCEPT ![s] = row]
  /\ lines' = [lines EXCEPT ![s] = its]
  /\ row \in Sale /\ row.status = "draft" /\ row.shift = sales[s].shift
  /\ DOMAIN its \subseteq Items /\ its \in [DOMAIN its -> Line]
  /\ ReceiptAccepted(its, row.discount, row.percent)
  /\ row.total = ReceiptTotal(its, row.discount, row.percent)
  /\ \A i \in DOMAIN its : i \in DOMAIN lines[s] \/ ~OnDraft(i)
  /\ UNCHANGED <<shifts, drawer, items, trail, takenBack, outOfStock, seq, day, pending>>

LEMMA RepriceStores ==
  ASSUME Rooted, NEW s \in Sales, sales[s].status = "draft",
         NEW its, DOMAIN its \subseteq Items, its \in [DOMAIN its -> Line],
         \A i \in DOMAIN its : i \in DOMAIN lines[s] \/ ~OnDraft(i),
         Reprice(s, its)
  PROVE  \E row : Stores(s, its, row)
<1> DEFINE row == Recalculated(sales[s], its)
<1>1. sales[s] \in Sale
  BY ExistingSale DEF Rooted
<1>2. ReceiptTotal(its, sales[s].discount, sales[s].percent) \in Nat
  BY <1>1, TotalType DEF Reprice, Sale
<1>3. /\ row \in Sale /\ row.status = "draft" /\ row.shift = sales[s].shift
      /\ row.discount = sales[s].discount /\ row.percent = sales[s].percent
      /\ row.total = ReceiptTotal(its, sales[s].discount, sales[s].percent)
  BY <1>1, <1>2 DEF Recalculated, Sale
<1>4. sales' = [sales EXCEPT ![s] = row]
  BY DEF Reprice
<1> HIDE DEF row
<1>5. Stores(s, its, row)
  BY <1>3, <1>4 DEF Reprice, Stores
<1>6. QED
  BY <1>5

\* Work on drafts inserts an empty one, stores one anew, or deletes one.
LEMMA DraftStepEffect ==
  ASSUME Rooted, DraftStep
  PROVE  \/ \E r \in Requests, u \in Staff, h \in Shifts : CreateDraftRead(r, u, h)
         \/ \E r \in Requests, s \in Sales : CreateDraftInsert(r, s)
         \/ \E s \in Sales : \E its, row : Stores(s, its, row)
         \/ \E s \in Sales, u \in Staff : CancelDraft(s, u)
<1> DEFINE stored == \E s \in Sales : \E its, row : Stores(s, its, row)
<1>1. ASSUME NEW s \in Sales, NEW u \in Staff, NEW code \in PromoCodes,
             NEW discount \in GivenDiscounts, NEW percent \in GivenPercents,
             UpdateDraft(s, u, code, discount, percent)
      PROVE  stored
  <2> DEFINE newDiscount == Resolve(discount, code, "amount", sales[s].discount)
             newPercent  == Resolve(percent, code, "percent", sales[s].percent)
             edited == [sales[s] EXCEPT !.discount = newDiscount, !.percent = newPercent]
             row == Recalculated(edited, lines[s])
  <2>1. sales[s].status = "draft" /\ sales[s] \in Sale
    BY <1>1, ExistingSale DEF UpdateDraft, Editable, Rooted
  <2>2. /\ discount \in Nat \cup {Absent}
        /\ percent \in 0..100 \cup {Absent} /\ percent \in Nat \cup {Absent}
    BY Amounts DEF GivenDiscounts, GivenPercents
  <2>3. newDiscount \in Nat /\ newPercent \in 0..100
    <3>1. sales[s].discount \in Nat /\ sales[s].percent \in 0..100
      BY <2>1 DEF Sale
    <3>2. newDiscount \in Nat
      BY <2>2, <3>1, ResolveType
    <3>3. newPercent \in 0..100
      BY <2>2, <3>1, ResolveType
    <3>4. QED
      BY <3>2, <3>3
  <2>4. ReceiptAccepted(lines[s], newDiscount, newPercent)
    BY <1>1 DEF UpdateDraft
  <2>5. ReceiptTotal(lines[s], newDiscount, newPercent) \in Nat
    BY <2>3, <2>4, TotalType, LinesType DEF Rooted
  <2>6. /\ sales' = [sales EXCEPT ![s] = row] /\ lines' = lines
        /\ UNCHANGED <<shifts, drawer, items, trail, takenBack, outOfStock, seq, day, pending>>
    BY <1>1 DEF UpdateDraft
  <2> HIDE DEF newDiscount, newPercent
  <2>7. /\ edited \in Sale /\ edited.status = "draft" /\ edited.shift = sales[s].shift
        /\ edited.discount = newDiscount /\ edited.percent = newPercent
    BY <2>1, <2>3 DEF Sale
  <2> HIDE DEF edited
  <2>8. /\ row \in Sale /\ row.status = "draft" /\ row.shift = sales[s].shift
        /\ row.discount = newDiscount /\ row.percent = newPercent
        /\ row.total = ReceiptTotal(lines[s], newDiscount, newPercent)
    BY <2>5, <2>7 DEF Recalculated, Sale
  <2> HIDE DEF row
  <2>9. lines' = [lines EXCEPT ![s] = lines[s]]
    BY <2>6 DEF Rooted, TypeOK
  <2>10. Stores(s, lines[s], row)
    BY <2>1, <2>4, <2>6, <2>8, <2>9, LinesType DEF Stores, Rooted
  <2>11. QED
    BY <2>10
<1>2. ASSUME NEW s \in Sales, NEW u \in Staff, NEW code \in PromoCodes,
             NEW discount \in GivenDiscounts, NEW percent \in GivenPercents,
             NEW chosen \in SUBSET Items, NEW price \in Prices, Editable(s, u),
             AddLines(s, chosen, price, code, discount, percent)
      PROVE  stored
  <2> DEFINE line == [price    |-> price,
                      discount |-> Resolve(discount, code, "amount", 0),
                      percent  |-> Resolve(percent, code, "percent", 0)]
             its == [i \in DOMAIN lines[s] \cup chosen |->
                       IF i \in chosen THEN line ELSE lines[s][i]]
  <2>1. /\ discount \in Nat \cup {Absent}
        /\ percent \in 0..100 \cup {Absent} /\ percent \in Nat \cup {Absent}
    BY Amounts DEF GivenDiscounts, GivenPercents
  <2>2. line \in Line
    BY <2>1, Amounts, ResolveType DEF Line
  <2>3. DOMAIN its \subseteq Items /\ its \in [DOMAIN its -> Line]
    BY <2>2, LinesType DEF Rooted
  <2>4. Reprice(s, its) /\ \A i \in chosen : ~OnDraft(i)
    BY <1>2 DEF AddLines
  <2>5. \A i \in DOMAIN its : i \in DOMAIN lines[s] \/ ~OnDraft(i)
    BY <2>4
  <2> HIDE DEF its
  <2>6. QED
    BY <1>2, <2>3, <2>4, <2>5, RepriceStores DEF Editable
<1>3. ASSUME NEW s \in Sales, NEW u \in Staff, NEW code \in PromoCodes,
             NEW discount \in GivenDiscounts, NEW percent \in GivenPercents,
             NEW i \in Items, NEW price \in Prices \cup {Absent},
             UpdateItem(s, u, i, price, code, discount, percent)
      PROVE  stored
  <2> DEFINE old  == lines[s][i]
             line == [price    |-> IF price = Absent THEN old.price ELSE price,
                      discount |-> Resolve(discount, code, "amount", old.discount),
                      percent  |-> Resolve(percent, code, "percent", old.percent)]
             its  == [lines[s] EXCEPT ![i] = line]
  <2>1. /\ discount \in Nat \cup {Absent}
        /\ percent \in 0..100 \cup {Absent} /\ percent \in Nat \cup {Absent}
    BY Amounts DEF GivenDiscounts, GivenPercents
  <2>2. old.price \in Nat /\ old.discount \in Nat /\ old.percent \in 0..100
    BY <1>3, LinesType DEF UpdateItem, Rooted, Line
  <2>3. Resolve(discount, code, "amount", old.discount) \in Nat
    BY <2>1, <2>2, ResolveType
  <2>4. Resolve(percent, code, "percent", old.percent) \in 0..100
    BY <2>1, <2>2, ResolveType
  <2>5. (IF price = Absent THEN old.price ELSE price) \in Nat
    BY <2>2, Amounts
  <2>6. line \in Line
    BY <2>3, <2>4, <2>5 DEF Line
  <2>7. Reprice(s, its)
    BY <1>3 DEF UpdateItem
  <2> HIDE DEF line
  <2>8. /\ DOMAIN its \subseteq Items /\ its \in [DOMAIN its -> Line]
        /\ DOMAIN its = DOMAIN lines[s]
    BY <2>6, LinesType DEF Rooted
  <2> HIDE DEF its
  <2>9. QED
    BY <1>3, <2>7, <2>8, RepriceStores DEF UpdateItem, Editable
<1>4. ASSUME NEW s \in Sales, NEW u \in Staff, NEW i \in Items, RemoveItem(s, u, i)
      PROVE  stored
  <2> DEFINE its == [j \in DOMAIN lines[s] \ {i} |-> lines[s][j]]
  <2>1. /\ DOMAIN its \subseteq Items /\ its \in [DOMAIN its -> Line]
        /\ DOMAIN its \subseteq DOMAIN lines[s]
    BY LinesType DEF Rooted
  <2>2. Reprice(s, its) /\ sales[s].status = "draft"
    BY <1>4 DEF RemoveItem, Editable
  <2> HIDE DEF its
  <2>3. QED
    BY <2>1, <2>2, RepriceStores
<1>5. ASSUME NEW s \in Sales, NEW u \in Staff, NEW code \in PromoCodes,
             NEW discount \in GivenDiscounts, NEW percent \in GivenPercents,
             NEW i \in Items, NEW price \in Prices,
             AddItemById(s, u, i, price, code, discount, percent)
      PROVE  stored
  BY <1>2, <1>5 DEF AddItemById
<1>6. ASSUME NEW s \in Sales, NEW u \in Staff, NEW code \in PromoCodes,
             NEW discount \in GivenDiscounts, NEW percent \in GivenPercents,
             NEW chosen \in SUBSET Items, NEW price \in Prices,
             AddItemsByProduct(s, u, chosen, price, code, discount, percent)
      PROVE  stored
  BY <1>2, <1>6 DEF AddItemsByProduct
<1> HIDE DEF stored
<1>7. \/ \E r \in Requests, u \in Staff, h \in Shifts : CreateDraftRead(r, u, h)
      \/ \E r \in Requests, s \in Sales : CreateDraftInsert(r, s)
      \/ stored
      \/ \E s \in Sales, u \in Staff : CancelDraft(s, u)
  BY <1>1, <1>3, <1>4, <1>5, <1>6, SMTT(60) DEF DraftStep
<1>8. QED
  BY <1>7 DEF stored

-----------------------------------------------------------------------------
(* Types and references. *)

LEMMA RootedInit == Init => Rooted
<1> SUFFICES ASSUME Init PROVE Rooted
  OBVIOUS
<1>1. TypeOK
  BY Calendar DEF Init, TypeOK, NoLines, Item, ItemStatus, Methods, Days
<1>2. ForeignKeys
  BY DEF Init, ForeignKeys, Receipts, Idle, NoSale
<1>3. QED
  BY <1>1, <1>2 DEF Rooted

LEMMA ShiftStepRooted ==
  ASSUME Rooted, ShiftStep
  PROVE  Rooted'
<1>1. ASSUME NEW r \in Requests, NEW u \in Staff, NEW l \in Locations,
             OpenShiftCheck(r, u, l)
      PROVE  Rooted'
  <2>1. TypeOK'
    BY <1>1 DEF OpenShiftCheck, Rooted, TypeOK, Opening
  <2>2. ForeignKeys'
    BY <1>1 DEF OpenShiftCheck, Rooted, TypeOK, ForeignKeys, Receipts
  <2>3. QED
    BY <2>1, <2>2 DEF Rooted
<1>2. ASSUME NEW r \in Requests, NEW h \in Shifts, OpenShiftInsert(r, h)
      PROVE  Rooted'
  <2>1. pending[r] \in Opening
    BY <1>2, ExistingRequest DEF OpenShiftInsert, Rooted
  <2>2. TypeOK'
    BY <1>2, <2>1 DEF OpenShiftInsert, Rooted, TypeOK, Opening, Shift
  <2>3. \A k \in Shifts : shifts[k] # NoShift => shifts'[k] # NoShift
    BY <1>2 DEF OpenShiftInsert, Rooted, TypeOK, NoShift
  <2>4. ForeignKeys'
    <3>1. ASSUME NEW q \in Requests, pending'[q].op = "draft"
          PROVE  shifts'[pending'[q].shift] # NoShift
      <4>1. pending'[q] = pending[q] /\ pending[q] \in Drafting
        BY <1>2, <3>1, ExistingRequest DEF OpenShiftInsert, Rooted, TypeOK, Idle
      <4>2. QED
        BY <3>1, <4>1, <2>3 DEF Rooted, ForeignKeys, Drafting
    <3>2. ASSUME NEW s \in Sales, sales'[s].status # "none"
          PROVE  shifts'[sales'[s].shift] # NoShift
      BY <1>2, <3>2, <2>3, ExistingSale DEF OpenShiftInsert, Rooted, ForeignKeys, Sale
    <3>3. QED
      BY <1>2, <3>1, <3>2 DEF OpenShiftInsert, Rooted, ForeignKeys, Receipts
  <2>5. QED
    BY <2>2, <2>4 DEF Rooted
<1>3. ASSUME NEW r \in Requests, OpenShiftRefused(r)
      PROVE  Rooted'
  BY <1>3 DEF OpenShiftRefused, Rooted, TypeOK, ForeignKeys, Receipts, Idle
<1>4. ASSUME NEW h \in Shifts, NEW u \in Staff, CloseShift(h, u)
      PROVE  Rooted'
  <2>1. shifts[h] \in Shift
    BY <1>4, ExistingShift DEF CloseShift, Rooted, NoShift
  <2>2. shifts' \in [Shifts -> Shift \cup {NoShift}]
    BY <1>4, <2>1 DEF CloseShift, Rooted, TypeOK, Shift
  <2>3. /\ sales' \in [Sales -> Sale \cup {NoSale}]
        /\ lines' = [t \in Sales |-> lines'[t]]
        /\ \A t \in Sales : /\ DOMAIN lines'[t] \subseteq Items
                            /\ lines'[t] \in [DOMAIN lines'[t] -> Line]
    BY <1>4 DEF CloseShift, Rooted, TypeOK, NoLines
  <2>4. TypeOK'
    BY <1>4, <2>2, <2>3 DEF CloseShift, Rooted, TypeOK
  <2>5. \A k \in Shifts : shifts[k] # NoShift => shifts'[k] # NoShift
    BY <1>4, <2>1 DEF CloseShift, Rooted, TypeOK, NoShift, Shift
  <2>6. \A s \in Sales : sales'[s].status # "none" => sales'[s] = sales[s]
    BY <1>4 DEF CloseShift, NoSale
  <2>7. ForeignKeys'
    <3>1. ASSUME NEW q \in Requests, pending'[q].op = "draft"
          PROVE  shifts'[pending'[q].shift] # NoShift
      BY <1>4, <3>1, <2>5, ExistingRequest DEF CloseShift, Rooted, ForeignKeys, Drafting
    <3>2. ASSUME NEW s \in Sales, sales'[s].status # "none"
          PROVE  shifts'[sales'[s].shift] # NoShift
      BY <3>2, <2>5, <2>6, ExistingSale DEF Rooted, ForeignKeys, Sale
    <3>3. QED
      BY <3>1, <3>2, <2>6 DEF Rooted, ForeignKeys, Receipts
  <2>8. QED
    BY <2>4, <2>7 DEF Rooted
<1>5. QED
  BY <1>1, <1>2, <1>3, <1>4 DEF ShiftStep

LEMMA DraftStepRooted ==
  ASSUME Rooted, DraftStep
  PROVE  Rooted'
<1>1. ASSUME NEW r \in Requests, NEW u \in Staff, NEW h \in Shifts,
             CreateDraftRead(r, u, h)
      PROVE  Rooted'
  <2>1. shifts[h] # NoShift
    BY <1>1 DEF CreateDraftRead, NoShift
  <2>2. TypeOK'
    BY <1>1 DEF CreateDraftRead, Rooted, TypeOK, Drafting
  <2>3. ForeignKeys'
    BY <1>1, <2>1 DEF CreateDraftRead, Rooted, TypeOK, ForeignKeys, Receipts
  <2>4. QED
    BY <2>2, <2>3 DEF Rooted
<1>2. ASSUME NEW r \in Requests, NEW s \in Sales, CreateDraftInsert(r, s)
      PROVE  Rooted'
  <2>1. pending[r] \in Drafting
    BY <1>2, ExistingRequest DEF CreateDraftInsert, Rooted
  <2>2. shifts[pending[r].shift] # NoShift
    BY <1>2 DEF CreateDraftInsert, Rooted, ForeignKeys
  <2>3. shifts[pending[r].shift] \in Shift
    BY <2>1, <2>2, ExistingShift DEF Rooted, Drafting
  <2>4. sales'[s] \in Sale /\ sales'[s].shift = pending[r].shift /\ sales'[s].status = "draft"
    BY <1>2, <2>1, <2>3 DEF CreateDraftInsert, Rooted, TypeOK, Drafting, Shift, Sale
  <2>5. TypeOK'
    BY <1>2, <2>4 DEF CreateDraftInsert, Rooted, TypeOK, NoLines
  <2>6. ForeignKeys'
    BY <1>2, <2>2, <2>4
    DEF CreateDraftInsert, Rooted, TypeOK, ForeignKeys, Receipts, Idle
  <2>7. QED
    BY <2>5, <2>6 DEF Rooted
<1>3. ASSUME NEW s \in Sales, NEW its, NEW row, Stores(s, its, row)
      PROVE  Rooted'
  <2>1. /\ lines' = [t \in Sales |-> lines'[t]]
        /\ \A t \in Sales : /\ DOMAIN lines'[t] \subseteq Items
                            /\ lines'[t] \in [DOMAIN lines'[t] -> Line]
    BY <1>3 DEF Stores, Rooted, TypeOK
  <2>2. TypeOK'
    BY <1>3, <2>1 DEF Stores, Rooted, TypeOK
  <2>3. ForeignKeys'
    BY <1>3 DEF Stores, Rooted, TypeOK, ForeignKeys, Receipts
  <2>4. QED
    BY <2>2, <2>3 DEF Rooted
<1>4. ASSUME NEW s \in Sales, NEW u \in Staff, CancelDraft(s, u)
      PROVE  Rooted'
  <2>1. TypeOK'
    BY <1>4 DEF CancelDraft, Rooted, TypeOK, NoLines
  <2>2. ForeignKeys'
    BY <1>4 DEF CancelDraft, Rooted, TypeOK, ForeignKeys, Receipts, NoSale
  <2>3. QED
    BY <2>1, <2>2 DEF Rooted
<1>5. QED
  BY <1>1, <1>2, <1>3, <1>4, DraftStepEffect

LEMMA SettleStepRooted ==
  ASSUME Rooted, SettleStep
  PROVE  Rooted'
<1>1. ASSUME NEW s \in Sales, NEW u \in Staff, NEW m \in Methods, Pay(s, u, m)
      PROVE  Rooted'
  <2> DEFINE total == ReceiptTotal(lines[s], sales[s].discount, sales[s].percent)
             final == Recalculated(sales[s], lines[s])
             number == NextNumber(sales[s].loc)
             receipt == [final EXCEPT !.status = "paid", !.method = m, !.number = number]
  <2>1. sales[s] \in Sale
    BY <1>1, ExistingSale DEF Pay, Editable, Rooted
  <2>2. DOMAIN lines[s] \subseteq Items /\ lines[s] \in [DOMAIN lines[s] -> Line]
    BY LinesType DEF Rooted
  <2>3. total \in Nat
    BY <1>1, <2>1, <2>2, TotalType DEF Pay, Sale
  <2>4. final \in Sale /\ final.total = total /\ final.shift = sales[s].shift
    BY <2>1, <2>3 DEF Recalculated, Sale
  <2>5. NextSeq(sales[s].loc) \in Nat
    BY <2>1 DEF NextSeq, Rooted, TypeOK, Sale
  <2>6. number \in ReceiptNumber
    BY <2>1, <2>5 DEF NextNumber, ReceiptNumber, Rooted, TypeOK, Sale
  <2> HIDE DEF final, number
  <2>7. receipt \in Sale /\ receipt.shift = sales[s].shift /\ receipt.method = m
    BY <2>4, <2>6 DEF Sale
  <2>8. sales' = [sales EXCEPT ![s] = receipt]
    BY <1>1 DEF Pay, final, number
  <2> HIDE DEF receipt
  <2>9. drawer' \in [Shifts -> [Methods -> Nat]]
    <3>1. final.total \in Nat /\ sales[s].shift \in Shifts
      BY <2>1, <2>3, <2>4 DEF Sale
    <3>2. drawer[sales[s].shift][m] + final.total \in Nat
      BY <3>1 DEF Rooted, TypeOK
    <3>3. QED
      BY <1>1, <3>1, <3>2, DrawerChange DEF Pay, Rooted, final
  <2>10. seq' \in [Locations -> [Days -> Nat]]
    BY <1>1, <2>1, <2>5 DEF Pay, Rooted, TypeOK, Sale
  <2>11. /\ items' \in [Items -> Item \cup {NoItem}]
         /\ trail' \in [Items -> Item \cup {NoItem}]
         /\ outOfStock' \in [Products -> BOOLEAN]
    <3>1. \A i \in DOMAIN lines[s] : items[i] # NoItem
      BY <1>1 DEF Pay, NoItem, Available
    <3>2. "sold" \in ItemStatus
      BY DEF ItemStatus
    <3>3. QED
      BY <1>1, <3>1, <3>2, StatusType DEF Pay, Rooted
  <2>12. TypeOK'
    BY <1>1, <2>7, <2>8, <2>9, <2>10, <2>11 DEF Pay, Rooted, TypeOK
  <2>13. ForeignKeys'
    BY <1>1, <2>7, <2>8 DEF Pay, Editable, Rooted, TypeOK, ForeignKeys, Receipts
  <2>14. QED
    BY <2>12, <2>13 DEF Rooted
<1>2. ASSUME NEW s \in Sales, NEW u \in Staff, Refund(s, u)
      PROVE  Rooted'
  <2>1. sales[s] \in Sale /\ sales[s].method \in Methods
    BY <1>2, ExistingSale DEF Refund, Rooted, ForeignKeys, Receipts
  <2>2. sales' \in [Sales -> Sale \cup {NoSale}]
    BY <1>2, <2>1 DEF Refund, Rooted, TypeOK, Sale
  <2>3. drawer' \in [Shifts -> [Methods -> Nat]]
    <3> DEFINE h == sales[s].shift
               m == sales[s].method
               total == sales[s].total
    <3>1. h \in Shifts /\ m \in Methods /\ total \in Nat
      BY <2>1 DEF Sale
    <3>2. drawer[h][m] \in Nat /\ drawer[h][m] >= total
      BY <1>2, <3>1 DEF Refund, Rooted, TypeOK
    <3>3. drawer[h][m] + (-total) \in Nat /\ -total \in Int
      BY <3>1, <3>2
    <3>4. QED
      BY <1>2, <3>1, <3>3, DrawerChange DEF Refund, Rooted
  <2>4. /\ items' \in [Items -> Item \cup {NoItem}]
        /\ trail' \in [Items -> Item \cup {NoItem}]
        /\ outOfStock' \in [Products -> BOOLEAN]
    <3>1. \A i \in DOMAIN lines[s] : items[i] # NoItem
      BY <1>2 DEF Refund, NoItem
    <3>2. "in_stock" \in ItemStatus
      BY DEF ItemStatus
    <3>3. QED
      BY <1>2, <3>1, <3>2, StatusType DEF Refund, Rooted
  <2>5. TypeOK'
    BY <1>2, <2>2, <2>3, <2>4 DEF Refund, Rooted, TypeOK
  <2>6. ForeignKeys'
    BY <1>2, <2>1 DEF Refund, Rooted, TypeOK, ForeignKeys, Receipts, Sale
  <2>7. QED
    BY <2>5, <2>6 DEF Rooted
<1>3. QED
  BY <1>1, <1>2 DEF SettleStep

LEMMA StockStepRooted ==
  ASSUME Rooted, StockStep
  PROVE  Rooted'
<1>1. ASSUME items' \in [Items -> Item \cup {NoItem}],
             trail' \in [Items -> Item \cup {NoItem}],
             takenBack' \in [Items -> Nat],
             UNCHANGED <<shifts, drawer, sales, lines, outOfStock, seq, day, pending>>
      PROVE  Rooted'
  BY <1>1 DEF Rooted, TypeOK, ForeignKeys, Receipts
<1>2. ASSUME NEW u \in Staff, NEW l \in Locations, NEW new \in SUBSET Items,
             ReceiveBatch(u, l, new)
      PROVE  Rooted'
  <2>1. items' \in [Items -> Item \cup {NoItem}]
    BY <1>2 DEF ReceiveBatch, Rooted, TypeOK, Item, ItemStatus
  <2>2. trail' \in [Items -> Item \cup {NoItem}]
    BY <1>2, <2>1 DEF ReceiveBatch, Logged, Rooted, TypeOK
  <2>3. QED
    BY <1>1, <1>2, <2>1, <2>2 DEF ReceiveBatch, Rooted, TypeOK
<1>3. ASSUME NEW i \in Items, NEW item \in Item, PutItem(i, item),
             takenBack' \in [Items -> Nat]
      PROVE  Rooted'
  <2>1. /\ items' \in [Items -> Item \cup {NoItem}]
        /\ trail' \in [Items -> Item \cup {NoItem}]
    BY <1>3 DEF PutItem, Rooted, TypeOK
  <2>2. QED
    BY <1>1, <1>3, <2>1 DEF PutItem
<1>4. ASSUME NEW i \in Items, NEW u \in Staff, NEW l \in Locations, MoveItem(i, u, l)
      PROVE  Rooted'
  <2>1. [items[i] EXCEPT !.loc = l] \in Item
    BY <1>4, ExistingItem DEF MoveItem, Rooted, Item
  <2>2. QED
    BY <1>3, <1>4, <2>1 DEF MoveItem, Rooted, TypeOK
<1>5. ASSUME NEW i \in Items, NEW u \in Staff, NEW to \in Targets, UpdateStatus(i, u, to)
      PROVE  Rooted'
  <2>1. [items[i] EXCEPT !.status = to] \in Item
    BY <1>5, StatusTargets, ExistingItem DEF UpdateStatus, Rooted, Item
  <2>2. takenBack' \in [Items -> Nat]
    BY <1>5 DEF UpdateStatus, Rooted, TypeOK
  <2>3. QED
    BY <1>3, <1>5, <2>1, <2>2 DEF UpdateStatus
<1>6. QED
  BY <1>2, <1>4, <1>5 DEF StockStep

LEMMA RootedNext == Rooted /\ [Next]_vars => Rooted'
<1> SUFFICES ASSUME Rooted, [Next]_vars PROVE Rooted'
  OBVIOUS
<1>1. CASE Midnight
  BY <1>1, Calendar DEF Midnight, Rooted, TypeOK, ForeignKeys, Receipts, Days
<1>2. CASE UNCHANGED vars
  BY <1>2 DEF vars, Rooted, TypeOK, ForeignKeys, Receipts
<1>3. QED
  BY <1>1, <1>2, ShiftStepRooted, DraftStepRooted, SettleStepRooted, StockStepRooted
  DEF Next

\* In every reachable state all rows have the shape the tables give them, no
\* drawer total is negative, and no receipt refers to a shift that was never
\* opened.
THEOREM TypeCorrect == Spec => []TypeOK
<1>1. Spec => []Rooted
  BY RootedInit, RootedNext, PTL DEF Spec
<1>2. Rooted => TypeOK
  BY DEF Rooted
<1>3. QED
  BY <1>1, <1>2, PTL

LEMMA AlwaysRooted == Spec => []Rooted
BY RootedInit, RootedNext, PTL DEF Spec

-----------------------------------------------------------------------------
(* Work on a draft leaves shifts, drawers, stock and numbers alone. *)

LEMMA DraftStepFrame ==
  ASSUME Rooted, DraftStep
  PROVE  UNCHANGED <<shifts, drawer, items, trail, takenBack, outOfStock, seq, day>>
<1>1. ASSUME NEW s \in Sales, NEW its, NEW row, Stores(s, its, row)
      PROVE  UNCHANGED <<shifts, drawer, items, trail, takenBack, outOfStock, seq, day>>
  BY <1>1 DEF Stores
<1>2. QED
  BY <1>1, DraftStepEffect DEF CreateDraftRead, CreateDraftInsert, CancelDraft

-----------------------------------------------------------------------------
(* Only pay and refund touch a receipt that was paid. *)

OtherStep == ShiftStep \/ DraftStep \/ StockStep \/ Midnight

ReceiptsKept ==
  \A s \in Sales :
    /\ sales'[s].status \in {"paid", "refunded"} <=> s \in Receipts
    /\ s \in Receipts => sales'[s] = sales[s] /\ lines'[s] = lines[s]

LEMMA OtherStepsKeepReceipts ==
  ASSUME Rooted, OtherStep
  PROVE  ReceiptsKept
<1>1. ASSUME UNCHANGED <<sales, lines>>
      PROVE  ReceiptsKept
  BY <1>1 DEF ReceiptsKept, Receipts
<1>2. ASSUME NEW h \in Shifts, NEW u \in Staff, CloseShift(h, u)
      PROVE  ReceiptsKept
  BY <1>2 DEF CloseShift, Discarded, Drafts, ReceiptsKept, Receipts, NoSale
<1>3. ASSUME NEW r \in Requests, NEW s \in Sales, CreateDraftInsert(r, s)
      PROVE  ReceiptsKept
  <2>1. sales'[s].status = "draft" /\ sales[s].status = "none"
    BY <1>3 DEF CreateDraftInsert, Rooted, TypeOK, NoSale
  <2>2. \A t \in Sales : t # s => sales'[t] = sales[t] /\ lines'[t] = lines[t]
    BY <1>3 DEF CreateDraftInsert, Rooted, TypeOK
  <2>3. QED
    BY <2>1, <2>2 DEF ReceiptsKept, Receipts
<1>4. ASSUME NEW s \in Sales, NEW its, NEW row, Stores(s, its, row)
      PROVE  ReceiptsKept
  BY <1>4 DEF Stores, ReceiptsKept, Receipts, Rooted, TypeOK
<1>5. ASSUME NEW s \in Sales, NEW u \in Staff, CancelDraft(s, u)
      PROVE  ReceiptsKept
  BY <1>5 DEF CancelDraft, Editable, ReceiptsKept, Receipts, Rooted, TypeOK, NoSale
<1>6. CASE ShiftStep
  BY <1>1, <1>2, <1>6
  DEF ShiftStep, OpenShiftCheck, OpenShiftInsert, OpenShiftRefused
<1>7. CASE DraftStep
  BY <1>1, <1>3, <1>4, <1>5, <1>7, DraftStepEffect DEF CreateDraftRead
<1>8. CASE StockStep \/ Midnight
  BY <1>1, <1>8 DEF StockStep, ReceiveBatch, MoveItem, UpdateStatus, PutItem, Midnight
<1>9. QED
  BY <1>6, <1>7, <1>8 DEF OtherStep

-----------------------------------------------------------------------------
(* What a step may do to receipts and their lines. *)

LEMMA StepEffect ==
  ASSUME Rooted, [Next]_vars
  PROVE  \/ UNCHANGED <<sales, lines>>
         \/ \E h \in Shifts, u \in Staff : CloseShift(h, u)
         \/ \E r \in Requests, s \in Sales : CreateDraftInsert(r, s)
         \/ \E s \in Sales : \E its, row : Stores(s, its, row)
         \/ \E s \in Sales, u \in Staff : CancelDraft(s, u)
         \/ \E s \in Sales, u \in Staff, m \in Methods : Pay(s, u, m)
         \/ \E s \in Sales, u \in Staff : Refund(s, u)
<1>1. CASE ShiftStep
  BY <1>1 DEF ShiftStep, OpenShiftCheck, OpenShiftInsert, OpenShiftRefused
<1>2. CASE DraftStep
  BY <1>2, DraftStepEffect DEF CreateDraftRead
<1>3. CASE SettleStep
  BY <1>3 DEF SettleStep
<1>4. CASE StockStep \/ Midnight \/ UNCHANGED vars
  BY <1>4 DEF StockStep, ReceiveBatch, MoveItem, UpdateStatus, PutItem, Midnight, vars
<1>5. QED
  BY <1>1, <1>2, <1>3, <1>4 DEF Next

\* The row pay stores.
LEMMA PayEffect ==
  ASSUME Rooted, NEW s \in Sales, NEW u \in Staff, NEW m \in Methods, Pay(s, u, m)
  PROVE  /\ sales[s] \in Sale /\ sales[s].status = "draft"
         /\ sales'[s].status = "paid" /\ sales'[s].shift = sales[s].shift
         /\ sales'[s].loc = sales[s].loc /\ sales'[s].method = m
         /\ sales'[s].discount = sales[s].discount /\ sales'[s].percent = sales[s].percent
         /\ sales'[s].number = NextNumber(sales[s].loc)
         /\ sales'[s].total = ReceiptTotal(lines[s], sales[s].discount, sales[s].percent)
         /\ sales'[s].total \in Nat \ {0}
         /\ \A t \in Sales : t # s => sales'[t] = sales[t]
         /\ lines' = lines /\ shifts' = shifts
<1>1. sales[s] \in Sale /\ sales[s].status = "draft"
  BY ExistingSale DEF Pay, Editable, Rooted
<1>2. ReceiptTotal(lines[s], sales[s].discount, sales[s].percent) \in Nat
  BY <1>1, LinesType, TotalType DEF Pay, Rooted, Sale
<1> DEFINE final == Recalculated(sales[s], lines[s])
<1>3. /\ final.total = ReceiptTotal(lines[s], sales[s].discount, sales[s].percent)
      /\ final \in Sale /\ final.shift = sales[s].shift /\ final.loc = sales[s].loc
      /\ final.discount = sales[s].discount /\ final.percent = sales[s].percent
  BY <1>1, <1>2 DEF Recalculated, Sale
<1>4. /\ sales' = [sales EXCEPT ![s] = [final EXCEPT !.status = "paid", !.method = m,
                                            !.number = NextNumber(sales[s].loc)]]
      /\ final.total > 0 /\ lines' = lines /\ shifts' = shifts
  BY DEF Pay
<1> HIDE DEF final
<1>5. sales'[s] = [final EXCEPT !.status = "paid", !.method = m,
                       !.number = NextNumber(sales[s].loc)]
  BY <1>4 DEF Rooted, TypeOK
<1>6. \A t \in Sales : t # s => sales'[t] = sales[t]
  BY <1>4 DEF Rooted, TypeOK
<1>7. /\ sales'[s].status = "paid" /\ sales'[s].shift = sales[s].shift
      /\ sales'[s].loc = sales[s].loc /\ sales'[s].method = m
      /\ sales'[s].discount = sales[s].discount /\ sales'[s].percent = sales[s].percent
      /\ sales'[s].number = NextNumber(sales[s].loc)
      /\ sales'[s].total = final.total
  BY <1>3, <1>5 DEF Sale
<1>8. QED
  BY <1>1, <1>2, <1>3, <1>4, <1>6, <1>7

LEMMA RefundEffect ==
  ASSUME Rooted, NEW s \in Sales, NEW u \in Staff, Refund(s, u)
  PROVE  /\ sales[s] \in Sale /\ sales[s].status = "paid" /\ sales[s].method \in Methods
         /\ sales' = [sales EXCEPT ![s].status = "refunded"]
         /\ sales'[s] = [sales[s] EXCEPT !.status = "refunded"]
         /\ sales'[s].status = "refunded"
         /\ \A t \in Sales : t # s => sales'[t] = sales[t]
         /\ lines' = lines /\ shifts' = shifts
<1>1. sales[s] \in Sale /\ sales[s].status = "paid" /\ sales[s].method \in Methods
  BY ExistingSale DEF Refund, Rooted, ForeignKeys, Receipts
<1>2. /\ sales' = [sales EXCEPT ![s].status = "refunded"]
      /\ lines' = lines /\ shifts' = shifts
  BY DEF Refund
<1>3. QED
  BY <1>1, <1>2 DEF Rooted, TypeOK, Sale

\* The row a new draft gets, and its lines.
LEMMA InsertEffect ==
  ASSUME Rooted, NEW r \in Requests, NEW s \in Sales, CreateDraftInsert(r, s)
  PROVE  /\ sales[s].status = "none" /\ sales'[s].status = "draft"
         /\ sales'[s].discount = 0 /\ sales'[s].percent = 0 /\ sales'[s].total = 0
         /\ lines'[s] = NoLines
         /\ \A t \in Sales : t # s => sales'[t] = sales[t] /\ lines'[t] = lines[t]
BY DEF CreateDraftInsert, Rooted, TypeOK, NoSale

\* Drafts are only ever deleted whole.
LEMMA DeletionEffect ==
  ASSUME Rooted, \/ \E h \in Shifts, u \in Staff : CloseShift(h, u)
                 \/ \E s \in Sales, u \in Staff : CancelDraft(s, u)
  PROVE  \A t \in Sales :
           \/ sales'[t] = NoSale /\ sales[t].status = "draft"
           \/ sales'[t] = sales[t] /\ lines'[t] = lines[t]
<1>1. ASSUME NEW h \in Shifts, NEW u \in Staff, CloseShift(h, u), NEW t \in Sales
      PROVE  \/ sales'[t] = NoSale /\ sales[t].status = "draft"
             \/ sales'[t] = sales[t] /\ lines'[t] = lines[t]
  BY <1>1 DEF CloseShift, Discarded, Drafts
<1>2. ASSUME NEW s \in Sales, NEW u \in Staff, CancelDraft(s, u), NEW t \in Sales
      PROVE  \/ sales'[t] = NoSale /\ sales[t].status = "draft"
             \/ sales'[t] = sales[t] /\ lines'[t] = lines[t]
  BY <1>2 DEF CancelDraft, Editable, Rooted, TypeOK
<1>3. QED
  BY <1>1, <1>2

-----------------------------------------------------------------------------
(* Drawer totals. *)

LEMMA TakingsType ==
  ASSUME Rooted, NEW h, NEW m
  PROVE  Takings(h, m) \in [Sales -> Nat]
<1>1. \A s \in Sales : sales[s].status = "paid" => sales[s].total \in Nat
  BY ExistingSale DEF Rooted, Sale
<1>2. QED
  BY <1>1 DEF Takings

\* The takings of shifts no step settles a receipt on stay as they are.
LEMMA TakingsKept ==
  ASSUME Rooted, ReceiptsKept, NEW h, NEW m
  PROVE  Takings(h, m)' = Takings(h, m)
<1>1. \A s \in Sales : /\ sales'[s].status = "paid" <=> sales[s].status = "paid"
                       /\ sales[s].status = "paid" => sales'[s] = sales[s]
  BY DEF ReceiptsKept, Receipts
<1>2. QED
  BY <1>1 DEF Takings

LEMMA DrawerInit == Init => DrawerMatchesReceipts
<1> SUFFICES ASSUME Init, NEW h \in Shifts, NEW m \in Methods
             PROVE  drawer[h][m] = SumOver(Takings(h, m))
  BY DEF DrawerMatchesReceipts
<1>1. /\ Takings(h, m) \in [Sales -> Nat]
      /\ \A s \in Sales : Takings(h, m)[s] = 0
  BY DEF Init, Takings, NoSale
<1>2. QED
  BY <1>1, SumOfZeros DEF Init

\* Paying adds the receipt to the takings of its method, and to no others.
LEMMA PayMatches ==
  ASSUME Rooted, DrawerMatchesReceipts,
         NEW s \in Sales, NEW u \in Staff, NEW m \in Methods, Pay(s, u, m), Rooted'
  PROVE  DrawerMatchesReceipts'
<1> DEFINE h     == sales[s].shift
           final == Recalculated(sales[s], lines[s])
           total == final.total
<1>1. sales[s] \in Sale /\ sales[s].status = "draft"
  BY ExistingSale DEF Pay, Editable, Rooted
<1>2. /\ sales'[s].status = "paid" /\ sales'[s].shift = h
      /\ sales'[s].method = m /\ sales'[s].total = total
  BY <1>1 DEF Pay, Recalculated, Rooted, TypeOK, Sale
<1>3. \A t \in Sales : t # s => sales'[t] = sales[t]
  BY DEF Pay, Rooted, TypeOK
<1>4. h \in Shifts /\ total \in Nat
  <2>1. sales'[s] \in Sale
    BY <1>2 DEF Rooted, TypeOK, NoSale
  <2>2. sales'[s].total \in Nat
    BY <2>1 DEF Sale
  <2>3. h \in Shifts
    BY <1>1 DEF Sale
  <2>4. QED
    BY <1>2, <2>2, <2>3
<1>5. drawer' = AddToDrawer(h, m, total)
  BY DEF Pay
<1> HIDE DEF h, total, final
<1>6. drawer[h][m] \in Nat /\ drawer[h][m] + total \in Nat
  BY <1>4 DEF Rooted, TypeOK
<1>7. /\ drawer'[h][m] = drawer[h][m] + total
      /\ \A k \in Shifts, n \in Methods : k # h \/ n # m => drawer'[k][n] = drawer[k][n]
  BY <1>4, <1>5, <1>6, DrawerChange DEF Rooted
<1> SUFFICES ASSUME NEW k \in Shifts, NEW n \in Methods
             PROVE  drawer'[k][n] = SumOver(Takings(k, n)')
  BY DEF DrawerMatchesReceipts
<1>8. Takings(k, n) \in [Sales -> Nat] /\ Takings(k, n)' \in [Sales -> Nat]
  <2>1. \A t \in Sales : sales'[t].status = "paid" => sales'[t].total \in Nat
    BY <1>2, <1>3, <1>4, ExistingSale DEF Rooted, Sale
  <2>2. QED
    BY <2>1, TakingsType DEF Takings
<1>9. CASE k = h /\ n = m
  <2>1. Takings(k, n)[s] = 0 /\ Takings(k, n)'[s] = total
    BY <1>1, <1>2, <1>9 DEF Takings
  <2>2. \A t \in Sales : t # s => Takings(k, n)'[t] = Takings(k, n)[t]
    BY <1>3 DEF Takings
  <2>3. SumOver(Takings(k, n)') = SumOver(Takings(k, n)) + Takings(k, n)'[s]
    BY <1>8, <2>1, <2>2, SumGrows, FiniteRows, Zenon
  <2>4. QED
    BY <1>7, <1>9, <2>1, <2>3 DEF DrawerMatchesReceipts
<1>10. CASE k # h \/ n # m
  <2>1. Takings(k, n)' = Takings(k, n)
    BY <1>1, <1>2, <1>3, <1>10 DEF Takings
  <2>2. QED
    BY <1>7, <1>10, <2>1 DEF DrawerMatchesReceipts
<1>11. QED
  BY <1>9, <1>10

\* Refunding takes the receipt out again.
LEMMA RefundMatches ==
  ASSUME Rooted, DrawerMatchesReceipts,
         NEW s \in Sales, NEW u \in Staff, Refund(s, u), Rooted'
  PROVE  DrawerMatchesReceipts'
<1> DEFINE h     == sales[s].shift
           m     == sales[s].method
           total == sales[s].total
<1>1. sales[s] \in Sale /\ sales[s].status = "paid"
  BY ExistingSale DEF Refund, Rooted
<1>2. sales'[s].status = "refunded"
  BY <1>1 DEF Refund, Rooted, TypeOK, Sale
<1>3. \A t \in Sales : t # s => sales'[t] = sales[t]
  BY DEF Refund, Rooted, TypeOK
<1>4. h \in Shifts /\ m \in Methods /\ total \in Nat
  BY <1>1 DEF Rooted, ForeignKeys, Receipts, Sale
<1>5. drawer' = AddToDrawer(h, m, -total) /\ drawer[h][m] >= total
  BY DEF Refund
<1> HIDE DEF h, m, total
<1>6. drawer[h][m] \in Nat /\ -total \in Int /\ drawer[h][m] + (-total) \in Nat
  BY <1>4, <1>5 DEF Rooted, TypeOK
<1>7. /\ drawer'[h][m] = drawer[h][m] - total
      /\ \A k \in Shifts, n \in Methods : k # h \/ n # m => drawer'[k][n] = drawer[k][n]
  BY <1>4, <1>5, <1>6, DrawerChange DEF Rooted
<1> SUFFICES ASSUME NEW k \in Shifts, NEW n \in Methods
             PROVE  drawer'[k][n] = SumOver(Takings(k, n)')
  BY DEF DrawerMatchesReceipts
<1>8. Takings(k, n) \in [Sales -> Nat] /\ Takings(k, n)' \in [Sales -> Nat]
  <2>1. \A t \in Sales : sales'[t].status = "paid" => sales'[t].total \in Nat
    BY <1>2, <1>3, ExistingSale DEF Rooted, Sale
  <2>2. QED
    BY <2>1, TakingsType DEF Takings
<1>9. CASE k = h /\ n = m
  <2>1. Takings(k, n)[s] = total /\ Takings(k, n)'[s] = 0
    BY <1>1, <1>2, <1>9 DEF Takings, h, m, total
  <2>2. \A t \in Sales : t # s => Takings(k, n)[t] = Takings(k, n)'[t]
    BY <1>3 DEF Takings
  <2>3. SumOver(Takings(k, n)) = SumOver(Takings(k, n)') + Takings(k, n)[s]
    BY <1>8, <2>1, <2>2, SumGrows, FiniteRows, Zenon
  <2>4. SumOver(Takings(k, n)') \in Nat
    BY <1>8, SumType, FiniteRows, Zenon
  <2>5. QED
    BY <1>4, <1>7, <1>9, <2>1, <2>3, <2>4 DEF DrawerMatchesReceipts
<1>10. CASE k # h \/ n # m
  <2>1. Takings(k, n)' = Takings(k, n)
    BY <1>1, <1>2, <1>3, <1>10 DEF Takings, h, m
  <2>2. QED
    BY <1>7, <1>10, <2>1 DEF DrawerMatchesReceipts
<1>11. QED
  BY <1>9, <1>10

LEMMA DrawerNext == Rooted /\ DrawerMatchesReceipts /\ [Next]_vars => DrawerMatchesReceipts'
<1> SUFFICES ASSUME Rooted, DrawerMatchesReceipts, [Next]_vars
             PROVE  DrawerMatchesReceipts'
  OBVIOUS
<1>1. CASE SettleStep
  BY <1>1, RootedNext, PayMatches, RefundMatches DEF SettleStep
<1>2. ASSUME ReceiptsKept, UNCHANGED drawer
      PROVE  DrawerMatchesReceipts'
  BY <1>2, TakingsKept DEF DrawerMatchesReceipts
<1>3. ASSUME NEW r \in Requests, NEW h \in Shifts, OpenShiftInsert(r, h), ReceiptsKept
      PROVE  DrawerMatchesReceipts'
  <2> SUFFICES ASSUME NEW k \in Shifts, NEW m \in Methods
               PROVE  drawer'[k][m] = SumOver(Takings(k, m)')
    BY DEF DrawerMatchesReceipts
  <2>1. Takings(k, m)' = Takings(k, m)
    BY <1>3, TakingsKept
  <2>2. CASE k # h
    BY <1>3, <2>1, <2>2 DEF OpenShiftInsert, DrawerMatchesReceipts, Rooted, TypeOK
  <2>3. CASE k = h
    <3>1. \A s \in Sales : sales[s].status = "paid" => sales[s].shift # h
      BY <1>3 DEF OpenShiftInsert, Rooted, ForeignKeys
    <3>2. \A s \in Sales : Takings(k, m)[s] = 0
      BY <2>3, <3>1 DEF Takings
    <3>3. SumOver(Takings(k, m)) = 0
      BY <3>2, TakingsType, SumOfZeros, Zenon
    <3>4. drawer'[h][m] = 0
      BY <1>3 DEF OpenShiftInsert, Rooted, TypeOK
    <3>5. QED
      BY <2>1, <2>3, <3>3, <3>4
  <2>4. QED
    BY <2>2, <2>3
<1>4. CASE OtherStep
  <2>1. ReceiptsKept
    BY <1>4, OtherStepsKeepReceipts
  <2>2. \/ UNCHANGED drawer
        \/ \E r \in Requests, h \in Shifts : OpenShiftInsert(r, h)
    <3>1. CASE ShiftStep
      BY <3>1 DEF ShiftStep, OpenShiftCheck, OpenShiftRefused, CloseShift
    <3>2. CASE DraftStep
      BY <3>2, DraftStepFrame
    <3>3. CASE StockStep \/ Midnight
      BY <3>3 DEF StockStep, ReceiveBatch, MoveItem, UpdateStatus, PutItem, Midnight
    <3>4. QED
      BY <1>4, <3>1, <3>2, <3>3 DEF OtherStep
  <2>3. QED
    BY <1>2, <1>3, <2>1, <2>2
<1>5. CASE UNCHANGED vars
  <2>1. ReceiptsKept /\ UNCHANGED drawer
    BY <1>5 DEF vars, ReceiptsKept, Receipts
  <2>2. QED
    BY <1>2, <2>1
<1>6. QED
  BY <1>1, <1>4, <1>5 DEF Next, OtherStep

\* The running totals pay and refund keep always equal the sum of the paid
\* receipts of the shift, for any number of cashiers, shifts and receipts.
THEOREM DrawerCorrect == Spec => []DrawerMatchesReceipts
<1>1. Init => DrawerMatchesReceipts
  BY DrawerInit
<1>2. QED
  BY <1>1, AlwaysRooted, DrawerNext, PTL DEF Spec

-----------------------------------------------------------------------------
(* One open shift per cashier. *)

LEMMA OneOpenNext == Rooted /\ OneOpenShiftPerCashier /\ [Next]_vars => OneOpenShiftPerCashier'
<1> SUFFICES ASSUME Rooted, OneOpenShiftPerCashier, [Next]_vars
             PROVE  OneOpenShiftPerCashier'
  OBVIOUS
<1>1. ASSUME UNCHANGED shifts
      PROVE  OneOpenShiftPerCashier'
  BY <1>1 DEF OneOpenShiftPerCashier
<1>2. ASSUME NEW r \in Requests, NEW h \in Shifts, OpenShiftInsert(r, h)
      PROVE  OneOpenShiftPerCashier'
  <2>1. \A k \in Shifts : shifts[k].status = "open" => shifts[k].cashier # pending[r].by
    BY <1>2 DEF OpenShiftInsert, UniqueOpenShift, HasOpenShift
  <2>2. /\ shifts'[h].cashier = pending[r].by
        /\ \A k \in Shifts : k # h => shifts'[k] = shifts[k]
    BY <1>2 DEF OpenShiftInsert, Rooted, TypeOK
  <2>3. QED
    BY <2>1, <2>2 DEF OneOpenShiftPerCashier
<1>3. ASSUME NEW h \in Shifts, NEW u \in Staff, CloseShift(h, u)
      PROVE  OneOpenShiftPerCashier'
  <2>1. \A k \in Shifts : shifts'[k].status = "open" => shifts'[k] = shifts[k]
    BY <1>3, ExistingShift DEF CloseShift, Rooted, TypeOK, Shift, NoShift
  <2>2. QED
    BY <2>1 DEF OneOpenShiftPerCashier
<1>4. CASE ShiftStep
  BY <1>1, <1>2, <1>3, <1>4 DEF ShiftStep, OpenShiftCheck, OpenShiftRefused
<1>5. CASE DraftStep
  BY <1>1, <1>5, DraftStepFrame
<1>6. CASE SettleStep
  BY <1>1, <1>6 DEF SettleStep, Pay, Refund
<1>7. CASE StockStep \/ Midnight \/ UNCHANGED vars
  BY <1>1, <1>7
  DEF StockStep, ReceiveBatch, MoveItem, UpdateStatus, PutItem, Midnight, vars
<1>8. QED
  BY <1>4, <1>5, <1>6, <1>7 DEF Next

\* However many requests to open a shift are between their check and their
\* insert, a cashier ends up with one open shift at most.
THEOREM OneOpenCorrect == Spec => []OneOpenShiftPerCashier
<1>1. Init => OneOpenShiftPerCashier
  BY DEF Init, OneOpenShiftPerCashier, NoShift
<1>2. QED
  BY <1>1, AlwaysRooted, OneOpenNext, PTL DEF Spec

-----------------------------------------------------------------------------
(* Sold items and their receipts. *)

Accounted(i) ==
  Cardinality(SoldOn(i)) = takenBack[i] + (IF items[i].status = "sold" THEN 1 ELSE 0)

LEMMA SoldOnFinite ==
  ASSUME Rooted, NEW i \in Items
  PROVE  IsFiniteSet(SoldOn(i)) /\ Cardinality(SoldOn(i)) \in Nat /\ takenBack[i] \in Nat
<1>1. SoldOn(i) \subseteq Sales
  BY DEF SoldOn, Paid
<1>2. IsFiniteSet(SoldOn(i))
  BY <1>1, FiniteRows, FS_Subset
<1>3. QED
  BY <1>2, FS_CardinalityType DEF Rooted, TypeOK

\* An item whose receipts, status and returns stay as they are.
LEMMA AccountKept ==
  ASSUME NEW i \in Items, Accounted(i), SoldOn(i)' = SoldOn(i),
         items'[i].status = "sold" <=> items[i].status = "sold",
         takenBack'[i] = takenBack[i]
  PROVE  Accounted(i)'
BY DEF Accounted

LEMMA PayAccounts ==
  ASSUME Rooted, SoldAccounted, NEW s \in Sales, NEW u \in Staff, NEW m \in Methods,
         Pay(s, u, m), NEW i \in Items
  PROVE  Accounted(i)'
<1>1. sales[s].status = "draft" /\ sales'[s].status = "paid"
  BY PayEffect
<1>2. \A t \in Sales : t # s => sales'[t] = sales[t]
  BY PayEffect
<1>3. Paid' = Paid \cup {s} /\ s \notin Paid
  BY <1>1, <1>2 DEF Paid
<1>4. lines' = lines /\ items' = SetStatus(s, "sold") /\ takenBack' = takenBack
  BY DEF Pay
<1>5. Accounted(i)
  BY DEF SoldAccounted, Accounted
<1>6. CASE i \in DOMAIN lines[s]
  <2>1. items[i].status \in Available /\ items[i] \in Item
    BY <1>6, ExistingItem DEF Pay, Available, Rooted, NoItem
  <2>2. items'[i].status = "sold"
    BY <1>4, <1>6, <2>1 DEF SetStatus, Item
  <2>3. Cardinality(SoldOn(i)) = takenBack[i]
    BY <1>5, <2>1, SoldOnFinite DEF Accounted, Available
  <2>4. SoldOn(i)' = SoldOn(i) \cup {s} /\ s \notin SoldOn(i)
    BY <1>3, <1>4, <1>6 DEF SoldOn
  <2>5. Cardinality(SoldOn(i) \cup {s}) = Cardinality(SoldOn(i)) + 1
    BY <2>4, SoldOnFinite, FS_AddElement
  <2>6. Cardinality(SoldOn(i)') = takenBack[i] + 1
    BY <2>3, <2>4, <2>5
  <2>7. QED
    BY <1>4, <2>2, <2>6 DEF Accounted
<1>7. CASE i \notin DOMAIN lines[s]
  <2>1. items'[i] = items[i]
    BY <1>4, <1>7 DEF SetStatus
  <2>2. SoldOn(i)' = SoldOn(i)
    BY <1>3, <1>4, <1>7 DEF SoldOn
  <2>3. QED
    BY <1>4, <1>5, <2>1, <2>2, AccountKept
<1>8. QED
  BY <1>6, <1>7

LEMMA RefundAccounts ==
  ASSUME Rooted, SoldAccounted, NEW s \in Sales, NEW u \in Staff, Refund(s, u),
         NEW i \in Items
  PROVE  Accounted(i)'
<1>1. sales[s].status = "paid" /\ sales'[s].status = "refunded"
  BY ExistingSale DEF Refund, Rooted, TypeOK, Sale
<1>2. \A t \in Sales : t # s => sales'[t] = sales[t]
  BY DEF Refund, Rooted, TypeOK
<1>3. Paid' = Paid \ {s} /\ s \in Paid
  BY <1>1, <1>2 DEF Paid
<1>4. lines' = lines /\ items' = SetStatus(s, "in_stock") /\ takenBack' = takenBack
  BY DEF Refund
<1>5. Accounted(i)
  BY DEF SoldAccounted, Accounted
<1>6. CASE i \in DOMAIN lines[s]
  <2>1. items[i].status = "sold" /\ items[i] \in Item
    BY <1>6, ExistingItem DEF Refund, Rooted, NoItem
  <2>2. items'[i].status = "in_stock"
    BY <1>4, <1>6, <2>1 DEF SetStatus, Item
  <2>3. Cardinality(SoldOn(i)) = takenBack[i] + 1
    BY <1>5, <2>1 DEF Accounted
  <2>4. SoldOn(i)' = SoldOn(i) \ {s} /\ s \in SoldOn(i)
    BY <1>3, <1>4, <1>6 DEF SoldOn
  <2>5. Cardinality(SoldOn(i) \ {s}) = Cardinality(SoldOn(i)) - 1
    BY <2>4, SoldOnFinite, FS_RemoveElement
  <2>6. Cardinality(SoldOn(i)') = takenBack[i]
    BY <2>3, <2>4, <2>5, SoldOnFinite
  <2>7. takenBack[i] = takenBack[i] + 0
    BY SoldOnFinite
  <2>8. QED
    BY <1>4, <2>2, <2>6, <2>7 DEF Accounted
<1>7. CASE i \notin DOMAIN lines[s]
  <2>1. items'[i] = items[i]
    BY <1>4, <1>7 DEF SetStatus
  <2>2. SoldOn(i)' = SoldOn(i)
    BY <1>3, <1>4, <1>7 DEF SoldOn
  <2>3. QED
    BY <1>4, <1>5, <2>1, <2>2, AccountKept
<1>8. QED
  BY <1>6, <1>7

\* A status change leaves receipts alone: a sold item that is taken back
\* moves its receipt from one side of the account to the other.
LEMMA StatusChangeAccounts ==
  ASSUME Rooted, SoldAccounted, NEW i \in Items, NEW u \in Staff, NEW to \in Targets,
         UpdateStatus(i, u, to), SoldOn(i)' = SoldOn(i)
  PROVE  Accounted(i)'
<1>1. items[i] \in Item /\ items' = [items EXCEPT ![i] = [items[i] EXCEPT !.status = to]]
  BY ExistingItem DEF UpdateStatus, PutItem, Rooted
<1>2. items'[i].status = to
  BY <1>1 DEF Item, Rooted, TypeOK
<1>3. Accounted(i)
  BY DEF SoldAccounted, Accounted
<1>4. to = "sold" => items[i].status = "sold"
  BY DEF UpdateStatus, CanChange
<1>5. CASE items[i].status = "sold" /\ to # "sold"
  <2>1. to = "in_stock"
    BY <1>5 DEF UpdateStatus, CanChange, Available
  <2>2. takenBack'[i] = takenBack[i] + 1
    BY <1>5, <2>1 DEF UpdateStatus, Rooted, TypeOK
  <2>3. Cardinality(SoldOn(i)) = takenBack[i] + 1
    BY <1>3, <1>5 DEF Accounted
  <2>4. takenBack'[i] = takenBack'[i] + 0
    BY <2>2, SoldOnFinite
  <2>5. items'[i].status # "sold"
    BY <1>2, <2>1
  <2>6. QED
    BY <2>2, <2>3, <2>4, <2>5 DEF Accounted
<1>6. CASE ~(items[i].status = "sold" /\ to # "sold")
  <2>1. takenBack' = takenBack
    BY <1>6 DEF UpdateStatus
  <2>2. items'[i].status = "sold" <=> items[i].status = "sold"
    BY <1>2, <1>4, <1>6
  <2>3. QED
    BY <1>3, <2>1, <2>2, AccountKept
<1>7. QED
  BY <1>5, <1>6

LEMMA OtherAccounts ==
  ASSUME Rooted, SoldAccounted, OtherStep, NEW j \in Items
  PROVE  Accounted(j)'
<1>1. Paid' = Paid /\ \A s \in Paid : lines'[s] = lines[s]
  BY OtherStepsKeepReceipts DEF ReceiptsKept, Receipts, Paid
<1>2. SoldOn(j)' = SoldOn(j)
  BY <1>1 DEF SoldOn
<1>3. Accounted(j)
  BY DEF SoldAccounted, Accounted
<1>4. ASSUME items'[j].status = "sold" <=> items[j].status = "sold",
             takenBack'[j] = takenBack[j]
      PROVE  Accounted(j)'
  BY <1>2, <1>3, <1>4, AccountKept
<1>5. ASSUME NEW i \in Items, NEW u \in Staff, NEW to \in Targets, UpdateStatus(i, u, to)
      PROVE  Accounted(j)'
  <2>1. CASE i = j
    BY <1>2, <1>5, <2>1, StatusChangeAccounts
  <2>2. CASE i # j
    <3>1. items'[j] = items[j] /\ takenBack'[j] = takenBack[j]
      BY <1>5, <2>2 DEF UpdateStatus, PutItem, Rooted, TypeOK
    <3>2. QED
      BY <1>4, <3>1
  <2>3. QED
    BY <2>1, <2>2
<1>6. ASSUME NEW i \in Items, NEW u \in Staff, NEW l \in Locations, MoveItem(i, u, l)
      PROVE  Accounted(j)'
  <2>1. items[i] \in Item /\ items' = [items EXCEPT ![i] = [items[i] EXCEPT !.loc = l]]
    BY <1>6, ExistingItem DEF MoveItem, PutItem, Rooted
  <2>2. items'[j].status = items[j].status /\ takenBack' = takenBack
    BY <1>6, <2>1 DEF MoveItem, Item, Rooted, TypeOK
  <2>3. QED
    BY <1>4, <2>2
<1>7. ASSUME NEW u \in Staff, NEW l \in Locations, NEW new \in SUBSET Items,
             ReceiveBatch(u, l, new)
      PROVE  Accounted(j)'
  BY <1>4, <1>7 DEF ReceiveBatch, NoItem
<1>8. CASE StockStep
  BY <1>5, <1>6, <1>7, <1>8 DEF StockStep
<1>9. CASE ShiftStep \/ DraftStep \/ Midnight
  <2>1. UNCHANGED <<items, takenBack>>
    BY <1>9, DraftStepFrame
    DEF ShiftStep, OpenShiftCheck, OpenShiftInsert, OpenShiftRefused, CloseShift, Midnight
  <2>2. QED
    BY <1>4, <2>1
<1>10. QED
  BY <1>8, <1>9 DEF OtherStep

LEMMA AccountedNext == Rooted /\ SoldAccounted /\ [Next]_vars => SoldAccounted'
<1> SUFFICES ASSUME Rooted, SoldAccounted, [Next]_vars, NEW i \in Items
             PROVE  Accounted(i)'
  BY DEF SoldAccounted, Accounted
<1>1. CASE SettleStep
  BY <1>1, PayAccounts, RefundAccounts DEF SettleStep
<1>2. CASE OtherStep
  BY <1>2, OtherAccounts
<1>3. CASE UNCHANGED vars
  <2>1. SoldOn(i)' = SoldOn(i) /\ items' = items /\ takenBack' = takenBack
    BY <1>3 DEF vars, SoldOn, Paid
  <2>2. Accounted(i)
    BY DEF SoldAccounted, Accounted
  <2>3. QED
    BY <2>1, <2>2, AccountKept
<1>4. QED
  BY <1>1, <1>2, <1>3 DEF Next, OtherStep

\* An item's paid receipts are its returns by hand, and one more while it is
\* sold: for any number of tills, drafts, stock movements and status changes,
\* a unit is on two paid receipts only if staff took it back in between.
THEOREM SoldAccountedFor == Spec => []SoldAccounted
<1>1. Init => SoldAccounted
  <2> SUFFICES ASSUME Init, NEW i \in Items PROVE Accounted(i)
    BY DEF SoldAccounted, Accounted
  <2>1. SoldOn(i) = {}
    BY DEF Init, SoldOn, Paid, NoSale
  <2>2. Cardinality(SoldOn(i)) = 0
    BY <2>1, FS_EmptySet
  <2>3. takenBack[i] = 0 /\ items[i].status # "sold"
    BY DEF Init, NoItem
  <2>4. QED
    BY <2>2, <2>3 DEF Accounted
<1>2. QED
  BY <1>1, AccountedNext, AlwaysRooted, PTL DEF Spec

\* The drawer of an open shift never holds less than a receipt that can be
\* refunded from it, and refund() misses an item only if staff took it back
\* by hand.
THEOREM RefundAlwaysPossible == Spec => []RefundPossible
<1>1. Rooted /\ DrawerMatchesReceipts /\ SoldAccounted => RefundPossible
  <2> SUFFICES ASSUME Rooted, DrawerMatchesReceipts, SoldAccounted, NEW s \in Paid
               PROVE  /\ drawer[sales[s].shift][sales[s].method] >= sales[s].total
                      /\ \A i \in DOMAIN lines[s] :
                           items[i].status = "sold" \/ takenBack[i] > 0
    BY DEF RefundPossible
  <2> DEFINE h == sales[s].shift
             m == sales[s].method
             f == Takings(h, m)
  <2>1. s \in Sales /\ sales[s].status = "paid"
    BY DEF Paid
  <2>2. sales[s] \in Sale /\ h \in Shifts /\ m \in Methods /\ sales[s].total \in Nat
    BY <2>1, ExistingSale DEF Rooted, ForeignKeys, Receipts, Sale
  <2>3. f \in [Sales -> Nat] /\ f[s] = sales[s].total
    BY <2>1, TakingsType DEF Takings
  <2>4. drawer[h][m] = SumOver(f) /\ SumOver(f) \in Nat
    BY <2>2, <2>3, SumType, FiniteRows DEF DrawerMatchesReceipts
  <2>5. f[s] <= SumOver(f)
    BY <2>1, <2>3, EntryBelowSum, FiniteRows, Zenon
  <2>6. drawer[h][m] >= sales[s].total
    <3> HIDE DEF h, m, f
    <3>1. QED
      BY <2>2, <2>3, <2>4, <2>5
  <2>7. ASSUME NEW i \in DOMAIN lines[s], items[i].status # "sold"
        PROVE  takenBack[i] > 0
    <3>1. i \in Items /\ s \in SoldOn(i)
      BY <2>1, LinesType DEF Rooted, SoldOn
    <3>2. IsFiniteSet(SoldOn(i)) /\ Cardinality(SoldOn(i)) \in Nat /\ takenBack[i] \in Nat
      BY <3>1, SoldOnFinite
    <3>3. Cardinality(SoldOn(i)) # 0
      BY <3>1, <3>2, FS_EmptySet
    <3>4. Cardinality(SoldOn(i)) = takenBack[i]
      BY <2>7, <3>1, <3>2 DEF SoldAccounted
    <3>5. QED
      BY <3>2, <3>3, <3>4
  <2>8. QED
    BY <2>6, <2>7
<1>2. QED
  BY <1>1, AlwaysRooted, DrawerCorrect, SoldAccountedFor, PTL

-----------------------------------------------------------------------------
(* Closed shifts. *)

\* Nothing changes the totals or the receipts of a closed shift: not a
\* payment, refund or edit, nor a draft that was in flight when it closed.
THEOREM ClosedStaysFrozen == Spec => ClosedShiftFrozen
<1>1. ASSUME Rooted, [Next]_vars, NEW h \in Shifts, shifts[h].status = "closed"
      PROVE  Unchanged(h)
  <2>1. ASSUME ReceiptsKept, shifts'[h] = shifts[h], drawer'[h] = drawer[h]
        PROVE  Unchanged(h)
    BY <2>1 DEF Unchanged, ShiftReceipts, Receipts, ReceiptsKept
  <2>2. CASE OtherStep
    <3>1. ReceiptsKept
      BY <1>1, <2>2, OtherStepsKeepReceipts
    <3>2. CASE ShiftStep
      <4>1. shifts'[h] = shifts[h] /\ drawer'[h] = drawer[h]
        BY <1>1, <3>2 
        DEF ShiftStep, OpenShiftCheck, OpenShiftInsert, OpenShiftRefused, CloseShift,
            Rooted, TypeOK, NoShift
      <4>2. QED
        BY <2>1, <3>1, <4>1
    <3>3. CASE DraftStep
      BY <1>1, <2>1, <3>1, <3>3, DraftStepFrame
    <3>4. CASE StockStep \/ Midnight
      BY <2>1, <3>1, <3>4
      DEF StockStep, ReceiveBatch, MoveItem, UpdateStatus, PutItem, Midnight
    <3>5. QED
      BY <2>2, <3>2, <3>3, <3>4 DEF OtherStep
  <2>3. ASSUME NEW s \in Sales, sales[s].shift # h, sales'[s].shift # h,
               \A t \in Sales : t # s => sales'[t] = sales[t],
               UNCHANGED <<shifts, lines>>, drawer'[h] = drawer[h]
        PROVE  Unchanged(h)
    BY <2>3 DEF Unchanged, ShiftReceipts, Receipts
  <2>4. ASSUME NEW s \in Sales, NEW u \in Staff, NEW m \in Methods, Pay(s, u, m)
        PROVE  Unchanged(h)
    <3>1. sales[s] \in Sale /\ sales[s].shift # h
      BY <1>1, <2>4, ExistingSale DEF Pay, Editable, ShiftOpen, Rooted
    <3>2. sales'[s].shift = sales[s].shift
      BY <1>1, <2>4, <3>1 DEF Pay, Recalculated, Rooted, TypeOK, Sale
    <3>3. drawer'[h] = drawer[h]
      BY <1>1, <2>4, <3>1 DEF Pay, AddToDrawer, Rooted, TypeOK
    <3>4. \A t \in Sales : t # s => sales'[t] = sales[t]
      BY <1>1, <2>4 DEF Pay, Rooted, TypeOK
    <3>5. QED
      BY <2>3, <2>4, <3>1, <3>2, <3>3, <3>4 DEF Pay
  <2>5. ASSUME NEW s \in Sales, NEW u \in Staff, Refund(s, u)
        PROVE  Unchanged(h)
    <3>1. sales[s] \in Sale /\ sales[s].shift # h
      BY <1>1, <2>5, ExistingSale DEF Refund, ShiftOpen, Rooted
    <3>2. sales'[s].shift = sales[s].shift
      BY <1>1, <2>5, <3>1 DEF Refund, Rooted, TypeOK, Sale
    <3>3. drawer'[h] = drawer[h]
      BY <1>1, <2>5, <3>1 DEF Refund, AddToDrawer, Rooted, TypeOK
    <3>4. \A t \in Sales : t # s => sales'[t] = sales[t]
      BY <1>1, <2>5 DEF Refund, Rooted, TypeOK
    <3>5. QED
      BY <2>3, <2>5, <3>1, <3>2, <3>3, <3>4 DEF Refund
  <2>6. CASE UNCHANGED vars
    BY <2>6 DEF vars, Unchanged, ShiftReceipts, Receipts
  <2>7. QED
    BY <1>1, <2>2, <2>4, <2>5, <2>6 DEF Next, OtherStep, SettleStep
<1>2. Rooted /\ [Next]_vars =>
        [\A h \in Shifts : shifts[h].status = "closed" => Unchanged(h)]_vars
  BY <1>1
<1>3. QED
  BY <1>2, AlwaysRooted, PTL DEF Spec, ClosedShiftFrozen

-----------------------------------------------------------------------------
(* Items on drafts. *)

LEMMA OneDraftNext == Rooted /\ ItemOnOneDraft /\ [Next]_vars => ItemOnOneDraft'
<1> SUFFICES ASSUME Rooted, ItemOnOneDraft, [Next]_vars
             PROVE  ItemOnOneDraft'
  OBVIOUS
<1>1. ASSUME \A t \in Sales : sales'[t].status = "draft" =>
               sales[t].status = "draft" /\ lines'[t] = lines[t]
      PROVE  ItemOnOneDraft'
  BY <1>1 DEF ItemOnOneDraft, Drafts
<1>2. CASE UNCHANGED <<sales, lines>>
  BY <1>1, <1>2
<1>3. CASE \/ \E h \in Shifts, u \in Staff : CloseShift(h, u)
           \/ \E s \in Sales, u \in Staff : CancelDraft(s, u)
  <2>1. \A t \in Sales : \/ sales'[t] = NoSale
                         \/ sales'[t] = sales[t] /\ lines'[t] = lines[t]
    BY <1>3, DeletionEffect
  <2>2. QED
    BY <1>1, <2>1 DEF NoSale
<1>4. ASSUME NEW r \in Requests, NEW s \in Sales, CreateDraftInsert(r, s)
      PROVE  ItemOnOneDraft'
  <2>1. /\ DOMAIN lines'[s] = {}
        /\ \A t \in Sales : t # s => sales'[t] = sales[t] /\ lines'[t] = lines[t]
    BY <1>4, InsertEffect DEF NoLines
  <2>2. QED
    BY <2>1 DEF ItemOnOneDraft, Drafts
<1>5. ASSUME NEW s \in Sales, NEW its, NEW row, Stores(s, its, row)
      PROVE  ItemOnOneDraft'
  <2>1. /\ sales[s].status = "draft" /\ lines'[s] = its
        /\ \A t \in Sales : t # s => sales'[t] = sales[t] /\ lines'[t] = lines[t]
    BY <1>5 DEF Stores, Rooted, TypeOK
  <2>2. ASSUME NEW t \in Sales, t # s, sales[t].status = "draft"
        PROVE  DOMAIN its \cap DOMAIN lines[t] = {}
    BY <1>5, <2>1, <2>2 DEF Stores, OnDraft, ItemOnOneDraft, Drafts
  <2>3. QED
    BY <2>1, <2>2 DEF ItemOnOneDraft, Drafts
<1>6. ASSUME NEW s \in Sales, NEW u \in Staff, NEW m \in Methods, Pay(s, u, m)
      PROVE  ItemOnOneDraft'
  BY <1>1, <1>6, PayEffect
<1>7. ASSUME NEW s \in Sales, NEW u \in Staff, Refund(s, u)
      PROVE  ItemOnOneDraft'
  BY <1>1, <1>7, RefundEffect
<1>8. QED
  BY <1>2, <1>3, <1>4, <1>5, <1>6, <1>7, StepEffect

\* No tag is ever in two baskets, however many cashiers edit drafts.
THEOREM OneDraftCorrect == Spec => []ItemOnOneDraft
<1>1. Init => ItemOnOneDraft
  BY DEF Init, ItemOnOneDraft, Drafts, NoSale
<1>2. QED
  BY <1>1, AlwaysRooted, OneDraftNext, PTL DEF Spec

-----------------------------------------------------------------------------
(* The audit trail. *)

LEMMA TrailNext == Rooted /\ TrailIsCurrent /\ [Next]_vars => TrailIsCurrent'
<1> SUFFICES ASSUME Rooted, TrailIsCurrent, [Next]_vars
             PROVE  TrailIsCurrent'
  OBVIOUS
<1>1. ASSUME UNCHANGED <<items, trail>>
      PROVE  TrailIsCurrent'
  BY <1>1 DEF TrailIsCurrent
<1>2. ASSUME NEW changed, \A i \in Items : i \notin changed => items'[i] = items[i],
             trail' = Logged(changed, items')
      PROVE  TrailIsCurrent'
  BY <1>2 DEF TrailIsCurrent, Logged
<1>3. CASE SettleStep
  <2>1. ASSUME NEW s \in Sales, NEW status, items' = SetStatus(s, status),
               trail' = Logged(DOMAIN lines[s], SetStatus(s, status))
        PROVE  TrailIsCurrent'
    BY <1>2, <2>1 DEF SetStatus
  <2>2. QED
    BY <1>3, <2>1 DEF SettleStep, Pay, Refund
<1>4. ASSUME NEW u \in Staff, NEW l \in Locations, NEW new \in SUBSET Items,
             ReceiveBatch(u, l, new)
      PROVE  TrailIsCurrent'
  BY <1>2, <1>4 DEF ReceiveBatch
<1>5. ASSUME NEW i \in Items, NEW row, PutItem(i, row)
      PROVE  TrailIsCurrent'
  BY <1>5 DEF PutItem, TrailIsCurrent, Rooted, TypeOK
<1>6. CASE StockStep
  BY <1>4, <1>5, <1>6 DEF StockStep, MoveItem, UpdateStatus
<1>7. CASE ShiftStep \/ DraftStep \/ Midnight \/ UNCHANGED vars
  BY <1>1, <1>7, DraftStepFrame
  DEF ShiftStep, OpenShiftCheck, OpenShiftInsert, OpenShiftRefused, CloseShift, Midnight, vars
<1>8. QED
  BY <1>3, <1>6, <1>7 DEF Next

\* The last audit entry of an item always tells its status and location:
\* every transaction that changes an item logs it as it leaves it.
THEOREM TrailCorrect == Spec => []TrailIsCurrent
<1>1. Init => TrailIsCurrent
  BY DEF Init, TrailIsCurrent
<1>2. QED
  BY <1>1, AlwaysRooted, TrailNext, PTL DEF Spec

-----------------------------------------------------------------------------
(* Stored totals. *)

\* Nothing costs nothing.
LEMMA EmptyReceipt ==
  ASSUME NEW its, DOMAIN its = {}
  PROVE  ReceiptAccepted(its, 0, 0) /\ ReceiptTotal(its, 0, 0) = 0
<1> DEFINE f == [x \in DOMAIN its |-> LineTotal(its[x])]
<1>1. f \in [{} -> Nat] /\ \A x \in {} : f[x] = 0
  OBVIOUS
<1>2. SumOver(f) = 0
  <2> HIDE DEF f
  <2>1. QED
    BY <1>1, SumOfZeros, Zenon
<1>3. Subtotal(its) = 0
  BY <1>2 DEF Subtotal
<1>4. PercentOf(0, 0) = 0
  BY DEF PercentOf
<1>5. QED
  BY <1>3, <1>4 DEF ReceiptAccepted, ReceiptTotal, ReceiptDiscount

\* The totals of receipts and drafts are current one by one.
TotalCurrent(s) ==
  /\ ReceiptAccepted(lines[s], sales[s].discount, sales[s].percent)
  /\ sales[s].total = ReceiptTotal(lines[s], sales[s].discount, sales[s].percent)
  /\ sales[s].status # "draft" => sales[s].total > 0

LEMMA TotalsOneByOne ==
  TotalsCurrent <=> \A s \in Sales : sales[s].status \in {"draft", "paid", "refunded"}
                                       => TotalCurrent(s)
BY DEF TotalsCurrent, TotalCurrent, Drafts, Receipts

LEMMA TotalsNext == Rooted /\ TotalsCurrent /\ [Next]_vars => TotalsCurrent'
<1> SUFFICES ASSUME Rooted, TotalsCurrent, [Next]_vars,
                    NEW t \in Sales, sales'[t].status \in {"draft", "paid", "refunded"}
             PROVE  TotalCurrent(t)'
  BY TotalsOneByOne DEF TotalsCurrent, TotalCurrent, Drafts, Receipts
<1>1. ASSUME sales'[t] = sales[t], lines'[t] = lines[t]
      PROVE  TotalCurrent(t)'
  BY <1>1, TotalsOneByOne DEF TotalCurrent
<1>2. CASE UNCHANGED <<sales, lines>>
  BY <1>1, <1>2
<1>3. CASE \/ \E h \in Shifts, u \in Staff : CloseShift(h, u)
           \/ \E s \in Sales, u \in Staff : CancelDraft(s, u)
  BY <1>1, <1>3, DeletionEffect DEF NoSale
<1>4. ASSUME NEW r \in Requests, NEW s \in Sales, CreateDraftInsert(r, s)
      PROVE  TotalCurrent(t)'
  <2>1. CASE t # s
    BY <1>1, <1>4, <2>1, InsertEffect
  <2>2. CASE t = s
    <3>1. /\ sales'[t].status = "draft" /\ sales'[t].discount = 0
          /\ sales'[t].percent = 0 /\ sales'[t].total = 0 /\ DOMAIN lines'[t] = {}
      BY <1>4, <2>2, InsertEffect DEF NoLines
    <3>2. QED
      BY <3>1, EmptyReceipt DEF TotalCurrent
  <2>3. QED
    BY <2>1, <2>2
<1>5. ASSUME NEW s \in Sales, NEW its, NEW row, Stores(s, its, row)
      PROVE  TotalCurrent(t)'
  <2>1. /\ sales'[s] = row /\ lines'[s] = its
        /\ \A k \in Sales : k # s => sales'[k] = sales[k] /\ lines'[k] = lines[k]
    BY <1>5 DEF Stores, Rooted, TypeOK
  <2>2. QED
    BY <1>1, <1>5, <2>1 DEF Stores, TotalCurrent
<1>6. ASSUME NEW s \in Sales, NEW u \in Staff, NEW m \in Methods, Pay(s, u, m)
      PROVE  TotalCurrent(t)'
  <2>1. CASE t # s
    BY <1>1, <1>6, <2>1, PayEffect
  <2>2. CASE t = s
    <3>1. ReceiptAccepted(lines[s], sales[s].discount, sales[s].percent)
      BY <1>6 DEF Pay
    <3>2. sales'[s].total > 0
      BY <1>6, PayEffect
    <3>3. QED
      BY <1>6, <2>2, <3>1, <3>2, PayEffect DEF TotalCurrent
  <2>3. QED
    BY <2>1, <2>2
<1>7. ASSUME NEW s \in Sales, NEW u \in Staff, Refund(s, u)
      PROVE  TotalCurrent(t)'
  <2>1. CASE t # s
    BY <1>1, <1>7, <2>1, RefundEffect
  <2>2. CASE t = s
    <3>1. /\ sales[s].status = "paid" /\ lines' = lines
          /\ sales'[s].discount = sales[s].discount /\ sales'[s].percent = sales[s].percent
          /\ sales'[s].total = sales[s].total
      BY <1>7, RefundEffect DEF Sale
    <3>2. TotalCurrent(s)
      BY <3>1, TotalsOneByOne
    <3>3. QED
      BY <2>2, <3>1, <3>2 DEF TotalCurrent
  <2>3. QED
    BY <2>1, <2>2
<1>8. QED
  BY <1>2, <1>3, <1>4, <1>5, <1>6, <1>7, StepEffect

\* After any sequence of additions, edits, removals, payments and refunds the
\* stored total is that of the stored lines, whatever the prices, discounts
\* and promo codes.
THEOREM TotalsCorrect == Spec => []TotalsCurrent
<1>1. Init => TotalsCurrent
  BY DEF Init, TotalsCurrent, Drafts, Receipts, NoSale
<1>2. QED
  BY <1>1, AlwaysRooted, TotalsNext, PTL DEF Spec

-----------------------------------------------------------------------------
(* Receipt numbers. *)

\* A step without payment numbers nothing.
LEMMA NumbersKept ==
  ASSUME Rooted, [Next]_vars,
         ~\E s \in Sales, u \in Staff, m \in Methods : Pay(s, u, m)
  PROVE  /\ Receipts' = Receipts
         /\ \A s \in Receipts : /\ sales'[s].number = sales[s].number
                                /\ sales'[s].loc = sales[s].loc
         /\ seq' = seq
<1>1. CASE OtherStep
  <2>1. ReceiptsKept
    BY <1>1, OtherStepsKeepReceipts
  <2>2. seq' = seq
    BY <1>1, DraftStepFrame
    DEF OtherStep, ShiftStep, OpenShiftCheck, OpenShiftInsert, OpenShiftRefused, CloseShift,
        StockStep, ReceiveBatch, MoveItem, UpdateStatus, PutItem, Midnight
  <2>3. QED
    BY <2>1, <2>2 DEF ReceiptsKept, Receipts
<1>2. ASSUME NEW s \in Sales, NEW u \in Staff, Refund(s, u)
      PROVE  /\ Receipts' = Receipts
             /\ \A t \in Receipts : /\ sales'[t].number = sales[t].number
                                    /\ sales'[t].loc = sales[t].loc
             /\ seq' = seq
  <2>1. sales'[s].number = sales[s].number /\ sales'[s].loc = sales[s].loc
    BY <1>2, RefundEffect DEF Sale
  <2>2. seq' = seq
    BY <1>2 DEF Refund
  <2>3. QED
    BY <1>2, <2>1, <2>2, RefundEffect DEF Receipts
<1>3. CASE UNCHANGED vars
  BY <1>3 DEF vars, Receipts
<1>4. QED
  BY <1>1, <1>2, <1>3 DEF Next, OtherStep, SettleStep

LEMMA GaplessNext == Rooted /\ ReceiptsGapless /\ [Next]_vars => ReceiptsGapless'
<1> SUFFICES ASSUME Rooted, ReceiptsGapless, [Next]_vars,
                    NEW l \in Locations, NEW d \in Days
             PROVE  {sales'[t].number.seq : t \in NumberedOn(l, d)'} = 1..seq'[l][d]
  BY DEF ReceiptsGapless
<1> DEFINE numbers == {sales[t].number.seq : t \in NumberedOn(l, d)}
<1>1. numbers = 1..seq[l][d] /\ seq[l][d] \in Nat
  BY DEF ReceiptsGapless, Rooted, TypeOK
<1>2. ASSUME NEW s \in Sales, NEW u \in Staff, NEW m \in Methods, Pay(s, u, m)
      PROVE  {sales'[t].number.seq : t \in NumberedOn(l, d)'} = 1..seq'[l][d]
  <2>1. Receipts' = Receipts \cup {s} /\ s \notin Receipts
    BY <1>2, PayEffect DEF Receipts
  <2>2. /\ seq' = [seq EXCEPT ![sales[s].loc][day] = seq[sales[s].loc][day] + 1]
        /\ sales[s].loc \in Locations /\ day \in Days
    BY <1>2, PayEffect DEF Pay, NextSeq, Sale, Rooted, TypeOK
  <2>3. /\ sales'[s].number.day = day /\ sales'[s].loc = sales[s].loc
        /\ sales'[s].number.seq = seq[sales[s].loc][day] + 1
    <3>1. /\ sales'[s].number = NextNumber(sales[s].loc)
          /\ sales'[s].loc = sales[s].loc
      BY <1>2, PayEffect
    <3>2. QED
      BY <3>1 DEF NextNumber, NextSeq
  <2>4. \A t \in Sales : t # s => sales'[t] = sales[t]
    BY <1>2, PayEffect
  <2>5. CASE sales[s].loc = l /\ day = d
    <3>1. NumberedOn(l, d)' = NumberedOn(l, d) \cup {s}
      BY <2>1, <2>3, <2>4, <2>5 DEF NumberedOn, Receipts
    <3>2. \A t \in NumberedOn(l, d) : sales'[t] = sales[t]
      BY <2>1, <2>4 DEF NumberedOn, Receipts
    <3>3. {sales'[t].number.seq : t \in NumberedOn(l, d)'} = numbers \cup {seq[l][d] + 1}
      BY <2>3, <2>5, <3>1, <3>2
    <3>4. seq'[l][d] = seq[l][d] + 1
      BY <2>2, <2>5 DEF Rooted, TypeOK
    <3> HIDE DEF numbers
    <3>5. numbers \cup {seq[l][d] + 1} = 1..(seq[l][d] + 1)
      BY <1>1
    <3>6. QED
      BY <3>3, <3>4, <3>5
  <2>6. CASE ~(sales[s].loc = l /\ day = d)
    <3>1. NumberedOn(l, d)' = NumberedOn(l, d)
      BY <2>1, <2>3, <2>4, <2>6 DEF NumberedOn, Receipts
    <3>2. \A t \in NumberedOn(l, d) : sales'[t] = sales[t]
      BY <2>1, <2>4 DEF NumberedOn, Receipts
    <3>3. seq'[l][d] = seq[l][d]
      BY <2>2, <2>6 DEF Rooted, TypeOK
    <3>4. QED
      BY <1>1, <3>1, <3>2, <3>3
  <2>7. QED
    BY <2>5, <2>6
<1>3. CASE ~\E s \in Sales, u \in Staff, m \in Methods : Pay(s, u, m)
  <2>1. NumberedOn(l, d)' = NumberedOn(l, d) /\ seq' = seq
    BY <1>3, NumbersKept DEF NumberedOn
  <2>2. \A t \in NumberedOn(l, d) : sales'[t].number = sales[t].number
    BY <1>3, NumbersKept DEF NumberedOn
  <2>3. QED
    BY <1>1, <2>1, <2>2
<1>4. QED
  BY <1>2, <1>3

\* For any number of locations, days and payments in any order, the receipts
\* of a location and day carry exactly the numbers 1 to the last one given.
THEOREM NumbersGapless == Spec => []ReceiptsGapless
<1>1. Init => ReceiptsGapless
  BY DEF Init, ReceiptsGapless, NumberedOn, Receipts, NoSale
<1>2. QED
  BY <1>1, AlwaysRooted, GaplessNext, PTL DEF Spec

LEMMA UniqueNext == Rooted /\ ReceiptNumbersUnique /\ [Next]_vars => ReceiptNumbersUnique'
<1> SUFFICES ASSUME Rooted, ReceiptNumbersUnique, [Next]_vars
             PROVE  ReceiptNumbersUnique'
  OBVIOUS
<1>1. ASSUME NEW s \in Sales, NEW u \in Staff, NEW m \in Methods, Pay(s, u, m)
      PROVE  ReceiptNumbersUnique'
  <2>1. /\ Receipts' = Receipts \cup {s} /\ s \notin Receipts
        /\ \A t \in Sales : t # s => sales'[t] = sales[t]
    BY <1>1, PayEffect DEF Receipts
  <2>2. \A t \in Receipts : sales[t].number # sales'[s].number
    <3>1. sales'[s].number = NextNumber(sales[s].loc)
      BY <1>1, PayEffect
    <3>2. NumberFree(NextNumber(sales[s].loc))
      BY <1>1 DEF Pay
    <3>3. QED
      BY <3>1, <3>2 DEF NumberFree, Receipts, NoSale
  <2>3. QED
    BY <2>1, <2>2 DEF ReceiptNumbersUnique, Receipts
<1>2. CASE ~\E s \in Sales, u \in Staff, m \in Methods : Pay(s, u, m)
  BY <1>2, NumbersKept DEF ReceiptNumbersUnique
<1>3. QED
  BY <1>1, <1>2

\* ... and no two receipts ever share a number, even when locations share
\* the digits of their ids that it shows.
THEOREM NumbersUnique == Spec => []ReceiptNumbersUnique
<1>1. Init => ReceiptNumbersUnique
  BY DEF Init, ReceiptNumbersUnique, Receipts, NoSale
<1>2. QED
  BY <1>1, AlwaysRooted, UniqueNext, PTL DEF Spec

-----------------------------------------------------------------------------
(* The ledger. *)

\* The ledger of the state, as ImplementsLedger maps it.
Stages  == [h \in Shifts |-> StageOf(h)]
Entries == [s \in Sales |-> EntryOf(s)]

LEMMA SameSum == \A f : Ledger!SumOver(f) = SumOver(f)
BY DEF Ledger!SumOver, Ledger!Tokens, Ledger!Cardinality, SumOver, Tokens, Cardinality

\* Receipts that did not change are the same entries.
LEMMA EntriesKept ==
  ASSUME ReceiptsKept
  PROVE  Entries' = Entries
<1>1. ASSUME NEW s \in Sales
      PROVE  EntryOf(s)' = EntryOf(s)
  <2>1. CASE s \in Receipts
    BY <2>1 DEF ReceiptsKept, EntryOf, Receipts
  <2>2. CASE s \notin Receipts
    BY <2>2 DEF ReceiptsKept, EntryOf, Receipts
  <2>3. QED
    BY <2>1, <2>2
<1>2. QED
  BY <1>1 DEF Entries

\* The drawers are what the ledger counts.
DrawerCounts == drawer = Ledger!Counted(Entries)

LEMMA DrawerCounted == Rooted /\ DrawerMatchesReceipts => DrawerCounts
<1> SUFFICES ASSUME Rooted, DrawerMatchesReceipts PROVE DrawerCounts
  OBVIOUS
<1>1. ASSUME NEW h \in Shifts, NEW m \in Methods
      PROVE  drawer[h][m] = Ledger!SumOver(Ledger!Standing(Entries, h, m))
  <2>1. ASSUME NEW s \in Sales
        PROVE  Takings(h, m)[s] = Ledger!Standing(Entries, h, m)[s]
    <3>1. CASE sales[s].status = "paid"
      BY <3>1 DEF Takings, Ledger!Standing, Entries, EntryOf, Receipts
    <3>2. CASE sales[s].status # "paid"
      BY <3>2 DEF Takings, Ledger!Standing, Entries, EntryOf, Receipts
    <3>3. QED
      BY <3>1, <3>2
  <2>2. Takings(h, m) = Ledger!Standing(Entries, h, m)
    BY <2>1 DEF Takings, Ledger!Standing
  <2>3. QED
    BY <2>2, SameSum DEF DrawerMatchesReceipts
<1>2. drawer = [h \in Shifts |-> [m \in Methods |-> drawer[h][m]]]
  BY DEF Rooted, TypeOK
<1>3. Methods = Ledger!PaymentMethods
  BY DEF Methods, Ledger!PaymentMethods
<1>4. Ledger!Counted(Entries) =
        [h \in Shifts |-> [m \in Methods |-> Ledger!SumOver(Ledger!Standing(Entries, h, m))]]
  BY <1>3 DEF Ledger!Counted
<1>5. QED
  BY <1>1, <1>2, <1>4, Zenon DEF DrawerCounts

LEMMA LedgerStarts == Init => Ledger!LedgerInit
<1> SUFFICES ASSUME Init PROVE Ledger!LedgerInit
  OBVIOUS
<1>1. Stages = [h \in Shifts |-> "new"]
  BY DEF Init, Stages, StageOf, NoShift
<1>2. Entries = [s \in Sales |-> Ledger!Empty]
  BY DEF Init, Entries, EntryOf, Receipts, NoSale, Ledger!Empty
<1>3. drawer = Ledger!Counted(Entries)
  BY RootedInit, DrawerInit, DrawerCounted DEF DrawerCounts
<1>4. QED
  BY <1>1, <1>2, <1>3 DEF Ledger!LedgerInit, Stages, Entries

\* Opening a shift, and closing one.
LEMMA StageSteps ==
  ASSUME Rooted, ShiftStep, Entries' = Entries, drawer' = drawer
  PROVE  [Ledger!LedgerNext]_(Ledger!ledger)
<1>1. ASSUME NEW r \in Requests, NEW h \in Shifts, OpenShiftInsert(r, h)
      PROVE  Ledger!OpenShift(h)
  <2>1. StageOf(h) = "new"
    BY <1>1 DEF OpenShiftInsert, StageOf, NoShift
  <2>2. /\ StageOf(h)' = "open"
        /\ \A k \in Shifts : k # h => StageOf(k)' = StageOf(k)
    BY <1>1 DEF OpenShiftInsert, StageOf, Rooted, TypeOK
  <2>3. Stages[h] = "new" /\ Stages' = [Stages EXCEPT ![h] = "open"]
    BY <2>1, <2>2 DEF Stages
  <2>4. QED
    BY <2>3 DEF Ledger!OpenShift, Stages, Entries
<1>2. ASSUME NEW h \in Shifts, NEW u \in Staff, CloseShift(h, u)
      PROVE  Ledger!CloseShift(h)
  <2>1. shifts[h] \in Shift /\ shifts[h].status = "open"
    BY <1>2, ExistingShift DEF CloseShift, Rooted, NoShift
  <2>2. /\ StageOf(h) = "open" /\ StageOf(h)' = "closed"
        /\ \A k \in Shifts : k # h => StageOf(k)' = StageOf(k)
    BY <1>2, <2>1 DEF CloseShift, StageOf, Rooted, TypeOK, Shift
  <2>3. Stages[h] = "open" /\ Stages' = [Stages EXCEPT ![h] = "closed"]
    BY <2>2 DEF Stages
  <2>4. QED
    BY <2>3 DEF Ledger!CloseShift, Stages, Entries
<1>3. ASSUME UNCHANGED shifts
      PROVE  UNCHANGED Ledger!ledger
  BY <1>3 DEF Ledger!ledger, Stages, StageOf, Entries
<1>4. QED
  BY <1>1, <1>2, <1>3
  DEF ShiftStep, OpenShiftCheck, OpenShiftRefused, Ledger!LedgerNext

\* Paying rings a receipt up.
LEMMA PayRings ==
  ASSUME Rooted, drawer' = Ledger!Counted(Entries'),
         NEW s \in Sales, NEW u \in Staff, NEW m \in Methods, Pay(s, u, m)
  PROVE  \E h \in Shifts : Ledger!Ring(s, h)
<1> DEFINE h == sales[s].shift
           entry == [kind |-> "rung", shift |-> h, method |-> m, amount |-> sales'[s].total]
<1>1. h \in Shifts /\ Stages[h] = "open"
  <2>1. h \in Shifts
    BY PayEffect DEF Sale
  <2>2. shifts[h].status = "open"
    BY DEF Pay, ShiftOpen
  <2>3. QED
    BY <2>1, <2>2 DEF Stages, StageOf
<1>2. Stages' = Stages
  BY PayEffect DEF Stages, StageOf
<1>3. Entries[s] = Ledger!Empty
  BY PayEffect DEF Entries, EntryOf, Receipts, Ledger!Empty
<1>4. Entries'[s] = entry
  <2>1. s \in Receipts'
    BY PayEffect DEF Receipts
  <2>2. QED
    BY <2>1, PayEffect DEF Entries, EntryOf
<1>5. Entries' = [Entries EXCEPT ![s] = entry]
  <2>1. ASSUME NEW t \in Sales, t # s
        PROVE  Entries'[t] = Entries[t]
    <3>1. sales'[t] = sales[t]
      BY <2>1, PayEffect
    <3>2. QED
      BY <3>1 DEF Entries, EntryOf, Receipts
  <2>2. QED
    BY <1>4, <2>1 DEF Entries
<1>6. entry \in Ledger!Entry
  <2>1. sales'[s].total \in Nat \ {0}
    BY PayEffect
  <2>2. QED
    BY <1>1, <2>1 DEF Ledger!Entry, Ledger!PaymentMethods, Methods
<1>7. entry.kind = "rung" /\ entry.shift = h
  OBVIOUS
<1> HIDE DEF h, entry
<1>8. Ledger!Ring(s, h)
  BY <1>1, <1>2, <1>3, <1>4, <1>5, <1>6, <1>7 DEF Ledger!Ring, Stages, Entries
<1>9. QED
  BY <1>1, <1>8

\* Refunding reverses it.
LEMMA RefundReverses ==
  ASSUME Rooted, drawer' = Ledger!Counted(Entries'),
         NEW s \in Sales, NEW u \in Staff, Refund(s, u)
  PROVE  Ledger!Reverse(s)
<1> DEFINE h == sales[s].shift
<1>1. h \in Shifts /\ Stages[h] = "open"
  <2>1. h \in Shifts
    BY RefundEffect DEF Sale
  <2>2. shifts[h].status = "open"
    BY DEF Refund, ShiftOpen
  <2>3. QED
    BY <2>1, <2>2 DEF Stages, StageOf
<1>2. Stages' = Stages
  BY RefundEffect DEF Stages, StageOf
<1>3. Entries[s] = [kind |-> "rung", shift |-> h, method |-> sales[s].method,
                    amount |-> sales[s].total]
  <2>1. s \in Receipts /\ sales[s].status = "paid"
    BY RefundEffect DEF Receipts
  <2>2. QED
    BY <2>1 DEF Entries, EntryOf
<1>4. Entries'[s] = [kind |-> "reversed", shift |-> h, method |-> sales[s].method,
                     amount |-> sales[s].total]
  <2>1. /\ sales'[s].status = "refunded" /\ sales'[s].shift = h
        /\ sales'[s].method = sales[s].method /\ sales'[s].total = sales[s].total
    BY RefundEffect DEF Sale
  <2>2. s \in Receipts'
    BY <2>1 DEF Receipts
  <2>3. QED
    BY <2>1, <2>2 DEF Entries, EntryOf
<1>5. Entries' = [Entries EXCEPT ![s].kind = "reversed"]
  <2>1. ASSUME NEW t \in Sales, t # s
        PROVE  Entries'[t] = Entries[t]
    <3>1. sales'[t] = sales[t]
      BY <2>1, RefundEffect
    <3>2. QED
      BY <3>1 DEF Entries, EntryOf, Receipts
  <2>2. [Entries[s] EXCEPT !.kind = "reversed"] = Entries'[s]
    BY <1>3, <1>4
  <2>3. QED
    BY <2>1, <2>2 DEF Entries
<1>6. Entries[s].kind = "rung" /\ Entries[s].shift = h
  BY <1>3
<1> HIDE DEF h
<1>7. QED
  BY <1>1, <1>2, <1>5, <1>6 DEF Ledger!Reverse, Stages, Entries

LEMMA LedgerSteps ==
  ASSUME Rooted, DrawerCounts, DrawerCounts', [Next]_vars
  PROVE  [Ledger!LedgerNext]_(Ledger!ledger)
<1>1. drawer = Ledger!Counted(Entries)
  BY DEF DrawerCounts
<1>2. drawer' = Ledger!Counted(Entries')
  BY DEF DrawerCounts
<1>3. CASE OtherStep
  <2>1. Entries' = Entries
    BY <1>3, OtherStepsKeepReceipts, EntriesKept
  <2>2. drawer' = drawer
    BY <1>1, <1>2, <2>1
  <2>3. CASE ShiftStep
    BY <2>1, <2>2, <2>3, StageSteps
  <2>4. CASE DraftStep \/ StockStep \/ Midnight
    <3>1. UNCHANGED shifts
      BY <2>4, DraftStepFrame
      DEF StockStep, ReceiveBatch, MoveItem, UpdateStatus, PutItem, Midnight
    <3>2. QED
      BY <2>1, <2>2, <3>1 DEF Ledger!ledger, Stages, StageOf, Entries
  <2>5. QED
    BY <1>3, <2>3, <2>4 DEF OtherStep
<1>4. CASE SettleStep
  BY <1>2, <1>4, PayRings, RefundReverses DEF SettleStep, Ledger!LedgerNext
<1>5. CASE UNCHANGED vars
  <2>1. UNCHANGED <<shifts, sales, drawer>>
    BY <1>5 DEF vars
  <2>2. QED
    BY <2>1 DEF Ledger!ledger, StageOf, EntryOf, Receipts
<1>6. QED
  BY <1>3, <1>4, <1>5 DEF Next, OtherStep

\* The till is an implementation of the ledger: whatever drafts, items and
\* requests in flight do, what an owner sees of shifts, receipts and totals
\* is opening, ringing up, reversing and closing, nothing else.
THEOREM LedgerImplemented == Spec => ImplementsLedger
<1>1. Init => Ledger!LedgerInit
  BY LedgerStarts
<1>2. Rooted /\ DrawerCounts /\ DrawerCounts' /\ [Next]_vars
        => [Ledger!LedgerNext]_(Ledger!ledger)
  BY LedgerSteps
<1>3. QED
  BY <1>1, <1>2, AlwaysRooted, DrawerCorrect, DrawerCounted, PTL
  DEF Spec, ImplementsLedger, Ledger!LedgerSpec
=============================================================================
