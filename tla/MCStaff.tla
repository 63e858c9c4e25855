------------------------------ MODULE MCStaff ------------------------------
(***************************************************************************)
(* A small staff for TLC.                                                  *)
(***************************************************************************)
EXTENDS Staff, TLC

CONSTANTS ann, bob, cem, ann_mail, mail, r1, r2

Symmetry == Permutations({bob, cem}) \cup Permutations({r1, r2})
=============================================================================
