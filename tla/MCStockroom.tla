---------------------------- MODULE MCStockroom ----------------------------
(***************************************************************************)
(* A small catalogue for TLC.                                              *)
(***************************************************************************)
EXTENDS Stockroom, TLC

CONSTANTS acme, ring, brooch, i1, i2, s1, r1, r2

Units2    == i1 :> ring @@ i2 :> brooch
OneOrigin == ring :> acme @@ brooch :> acme

Symmetry == Permutations(Requests)
=============================================================================
