---------------------------- MODULE MCPointOfSale ----------------------------
(***************************************************************************)
(* Small instances of the till for TLC.  Amounts are scaled down: a price  *)
(* is a few kopecks, and the promo codes grant 70 percent and 1 kopeck.    *)
(***************************************************************************)
EXTENDS TillSafety, TLC

CONSTANTS
  cashier, clerk, boss, h1, h2, s1, s2, s3, i1, i2, ring, brooch, store, depot, r1, r2

\* A cashier of one store, and an administrator who works everywhere.
TwoStaff   == cashier :> "cashier" @@ boss :> "admin"
BossReach  == boss :> {store}
OneBoss    == boss :> "admin"
OneReach   == cashier :> {store} @@ boss :> {store}

\* A cashier in each of two locations, and a manager over both.
ThreeStaff == cashier :> "cashier" @@ clerk :> "cashier" @@ boss :> "store_manager"
SplitReach == cashier :> {store} @@ clerk :> {depot} @@ boss :> {store, depot}

OneRing    == i1 :> ring
TwoRings   == i1 :> ring @@ i2 :> ring
RingBrooch == i1 :> ring @@ i2 :> brooch

Promos == "SALE10" :> [amount |-> 0, percent |-> 70]
       @@ "VIP500" :> [amount |-> 1, percent |-> 0]
OnePromo == "VIP500" :> [amount |-> 1, percent |-> 0]
NoPromos == <<>>

\* Two locations whose ids share their first 8 hex digits.
SamePrefix == store :> "0A" @@ depot :> "0A"
OwnPrefix  == store :> "0A"

RowSymmetry == Permutations({h1, h2}) \cup Permutations({s1, s2})
               \cup Permutations({i1, i2}) \cup Permutations({r1, r2})

ReceiptSymmetry == Permutations({h1, h2}) \cup Permutations({s1, s2, s3})

ItemSymmetry == Permutations({i1, i2})
=============================================================================
