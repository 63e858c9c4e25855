----------------------------- MODULE MCSessions -----------------------------
(***************************************************************************)
(* A user and a few tokens for TLC; a tick is half a second.               *)
(***************************************************************************)
EXTENDS Sessions, TLC

CONSTANTS ann, j1, j2, j3, t1, r1, r2, r3

Symmetry == Permutations({j1, j2, j3}) \cup Permutations({r1, r2, r3})
=============================================================================
