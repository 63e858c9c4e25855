---------------------------- MODULE MCLocations ----------------------------
(***************************************************************************)
(* A small organisation for TLC.                                           *)
(***************************************************************************)
EXTENDS Locations, TLC

CONSTANTS warehouse, store, counter, clerk, r1, r2

Symmetry == Permutations({warehouse, store, counter}) \cup Permutations({r1, r2})
=============================================================================
