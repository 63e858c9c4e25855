------------------------------ MODULE TillSafety ------------------------------
(***************************************************************************)
(* What the till must never get wrong, stated over PointOfSale.            *)
(***************************************************************************)
EXTENDS PointOfSale

\* The receipts that stand: what each adds to method m of shift h.
Takings(h, m) ==
  [s \in Sales |-> IF sales[s].status = "paid" /\ sales[s].shift = h /\ sales[s].method = m
                   THEN sales[s].total ELSE 0]

\* The running cash and card totals of a shift, kept as counters by pay and
\* refund, are at every moment the sum of its paid receipts by that method,
\* through edits, refunds, closings and concurrent requests
\* (shift-totals.calculator.ts applySaleToShift, applyRefundToShift).
DrawerMatchesReceipts ==
  \A h \in Shifts, m \in Methods : drawer[h][m] = SumOver(Takings(h, m))

\* A cashier never has two open shifts, although open() looks and inserts in
\* two separate steps (UQ_shifts_one_open_per_cashier).
OneOpenShiftPerCashier ==
  \A h, k \in Shifts :
    /\ shifts[h].status = "open" /\ shifts[k].status = "open"
    /\ shifts[h].cashier = shifts[k].cashier
    => h = k

\* A tagged item is in the basket of at most one draft at a time
\* (assertItemNotOnDraft, draftItemIds).
ItemOnOneDraft ==
  \A s, t \in Drafts : s # t => DOMAIN lines[s] \cap DOMAIN lines[t] = {}

\* Every item on a paid receipt is accounted for: the paid receipts that list
\* it are as many as the times staff took it back by hand, and one more while
\* it is sold.  So no unit is sold twice unless updateStatus() took it back in
\* between, none is sold without a receipt, and a refund brings back precisely
\* what was paid for (assertCanSellItem under lock, sellItem, restoreSoldItem).
SoldOn(i) == {s \in Paid : i \in DOMAIN lines[s]}
SoldAccounted ==
  \A i \in Items :
    Cardinality(SoldOn(i)) = takenBack[i] + (IF items[i].status = "sold" THEN 1 ELSE 0)

\* The stored total of every receipt is the one its lines and discounts give
\* now; discounts never exceed what they apply to, and nothing is paid for
\* or refunded at zero.
TotalsCurrent ==
  \A s \in Drafts \cup Receipts :
    /\ ReceiptAccepted(lines[s], sales[s].discount, sales[s].percent)
    /\ sales[s].total = ReceiptTotal(lines[s], sales[s].discount, sales[s].percent)
    /\ s \in Receipts => sales[s].total > 0

\* The receipts of a location on a UTC day are numbered 1, 2, 3 ... without
\* a gap, refunded ones included: a sequence step survives only with its
\* receipt (nextReceiptNumber inside pay's transaction).
NumberedOn(l, d) == {s \in Receipts : sales[s].loc = l /\ sales[s].number.day = d}
ReceiptsGapless ==
  \A l \in Locations, d \in Days :
    {sales[s].number.seq : s \in NumberedOn(l, d)} = 1..seq[l][d]

\* No two receipts ever carry the same printed number, even when two
\* locations share the 8 hex digits it shows (receipt-number.ts).
ReceiptNumbersUnique ==
  \A s, t \in Receipts : sales[s].number = sales[t].number => s = t

\* A refund finds what it needs while its shift is open: the drawer holds the
\* receipt's amount whatever was sold and refunded since, and an item of the
\* receipt is no longer sold only if staff took that item back by hand.  The
\* two late errors of refund() strand no other paid receipt.
RefundPossible ==
  \A s \in Paid : shifts[sales[s].shift].status = "open" =>
    /\ drawer[sales[s].shift][sales[s].method] >= sales[s].total
    /\ \A i \in DOMAIN lines[s] : items[i].status = "sold" \/ takenBack[i] > 0

ShiftReceipts(h) == {s \in Receipts : sales[s].shift = h}
Unchanged(h) ==
  /\ shifts'[h] = shifts[h] /\ drawer'[h] = drawer[h]
  /\ ShiftReceipts(h)' = ShiftReceipts(h)
  /\ \A s \in ShiftReceipts(h) : sales'[s] = sales[s] /\ lines'[s] = lines[s]

\* Closing is final: the shift, its totals, its paid and refunded receipts
\* and their lines never change again, and no receipt joins them, whatever
\* was in flight when the shift closed.
ClosedShiftFrozen ==
  [][\A h \in Shifts : shifts[h].status = "closed" => Unchanged(h)]_vars

\* An item with an audit trail is where and what the last entry says.
TrailIsCurrent == \A i \in Items : trail[i] # NoItem => trail[i] = items[i]

-----------------------------------------------------------------------------
(* The till implements the abstract ledger. *)

StageOf(h) == IF shifts[h].status = "none" THEN "new" ELSE shifts[h].status
EntryOf(s) ==
  IF s \in Receipts
  THEN [kind   |-> IF sales[s].status = "paid" THEN "rung" ELSE "reversed",
        shift  |-> sales[s].shift,
        method |-> sales[s].method,
        amount |-> sales[s].total]
  ELSE [kind |-> "none"]

Ledger == INSTANCE ShiftLedger WITH
  stage  <- [h \in Shifts |-> StageOf(h)],
  entry  <- [s \in Sales |-> EntryOf(s)],
  totals <- drawer

\* Every step of the till is a step of the ledger or leaves it alone.
ImplementsLedger == Ledger!LedgerSpec

-----------------------------------------------------------------------------
(* What the documentation promises and the code does not keep. *)

\* shifts.controller.ts: closing a shift discards its unpaid drafts, so
\* every draft belongs to an open shift.
DraftOnOpenShift == \A s \in Drafts : shifts[sales[s].shift].status = "open"
=============================================================================
