--------------------------------- MODULE Sums ---------------------------------
(***************************************************************************)
(* Sums of naturals as cardinalities: f[x] tokens <<x, 1>>, <<x, 2>>, ...  *)
(* for every x.  The form needs no recursion, so facts about it follow     *)
(* from facts about finite sets.                                           *)
(***************************************************************************)
EXTENDS Integers, FiniteSets

Tokens(f)  == UNION {{x} \X (1..f[x]) : x \in DOMAIN f}
SumOver(f) == Cardinality(Tokens(f))
=============================================================================
