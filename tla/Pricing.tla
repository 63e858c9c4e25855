------------------------------- MODULE Pricing -------------------------------
(***************************************************************************)
(* Receipt arithmetic of sales/receipt-totals.calculator.ts.  Amounts are  *)
(* integer kopecks.  A line is one physical item (qty is always 1), with   *)
(* its unit price and its own discount in kopecks and in percent; the      *)
(* receipt carries a discount of both kinds on top of the line totals.     *)
(***************************************************************************)
EXTENDS Sums

CONSTANT KnownPromos   \* KNOWN_PROMOS: promo code -> [amount, percent]

\* A promo field that a code does not set reads as 0, which is what
\* mergePromoDiscount falls back to.
ASSUME PromosAreDiscounts ==
  \A code \in DOMAIN KnownPromos :
    KnownPromos[code] \in [amount : Nat, percent : 0..100]

Absent  == -1          \* an optional number the request leaves out
NoCode  == "no code"   \* promoCode left out of the request
Blank   == "blank"     \* promoCode sent as null or as an empty string
Unknown == "unknown"   \* a code KNOWN_PROMOS does not list

PromoCodes == {NoCode, Blank, Unknown} \cup DOMAIN KnownPromos

Line == [price : Nat, discount : Nat, percent : 0..100]

\* Math.round(amount * percent / 100) for amounts >= 0: half rounds up.
PercentOf(amount, percent) == (amount * percent + 50) \div 100

\* What a code grants of one kind of discount: promo?.field ?? 0.
PromoValue(code, field) ==
  IF code \in DOMAIN KnownPromos THEN KnownPromos[code][field] ELSE 0

\* A given discount wins, then the promo code of the request, then the
\* stored value.
Resolve(given, code, field, kept) ==
  CASE given # Absent                   -> given
    [] given = Absent /\ code # NoCode  -> PromoValue(code, field)
    [] given = Absent /\ code = NoCode  -> kept

\* An unknown code is an error unless the request also names a discount.
CodeAccepted(code, discount, percent) ==
  code = Unknown => discount # Absent \/ percent # Absent

LineDiscount(line) == line.discount + PercentOf(line.price, line.percent)
LineAccepted(line) == LineDiscount(line) <= line.price
LineTotal(line)    == line.price - LineDiscount(line)

Subtotal(lines) == SumOver([x \in DOMAIN lines |-> LineTotal(lines[x])])

ReceiptDiscount(lines, discount, percent) ==
  discount + PercentOf(Subtotal(lines), percent)

\* calcLinePricing on every line and calcReceiptPricing throw nothing.
ReceiptAccepted(lines, discount, percent) ==
  /\ \A x \in DOMAIN lines : LineAccepted(lines[x])
  /\ ReceiptDiscount(lines, discount, percent) <= Subtotal(lines)

ReceiptTotal(lines, discount, percent) ==
  Subtotal(lines) - ReceiptDiscount(lines, discount, percent)
=============================================================================
