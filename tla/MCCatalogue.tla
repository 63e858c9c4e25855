---------------------------- MODULE MCCatalogue ----------------------------
(***************************************************************************)
(* Two rings and a brooch in a store with a showcase, for TLC.             *)
(***************************************************************************)
EXTENDS Catalogue, TLC

CONSTANTS ring, brooch, i1, i2, i3, acme, bijou, store, case, nowhere, boss, cashier, s1, s2, e1

Units3     == i1 :> ring @@ i2 :> brooch @@ i3 :> ring
Weights2   == ring :> 2 @@ brooch :> 5
Suppliers2 == ring :> acme @@ brooch :> bijou
Category2  == ring :> "rings" @@ brooch :> "brooches"
Below2     == store :> {store, case} @@ case :> {case}
Reach2     == boss :> {store, case} @@ cashier :> {case}

Symmetry == Permutations(Searches)
=============================================================================
