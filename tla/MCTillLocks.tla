---------------------------- MODULE MCTillLocks ----------------------------
(***************************************************************************)
(* Two cashiers' receipts of the same two products for TLC.                *)
(***************************************************************************)
EXTENDS TillLocks, TLC

CONSTANTS s1, s2, h1, h2, i1, i2, i3, ring, brooch, seq, r1, r2, r3

Shifts2  == s1 :> h1 @@ s2 :> h2
Lines2   == s1 :> {i1, i2} @@ s2 :> {i3}
Units3   == i1 :> ring @@ i2 :> brooch @@ i3 :> ring
Oldest2  == ring :> i3 @@ brooch :> i2

Pay(s, nested)  == [op |-> "pay", sale |-> s, nested |-> nested]
Close(h)        == [op |-> "close", shift |-> h, nested |-> FALSE]

SomeJobs ==
  <<Pay(s1, TRUE), Pay(s2, FALSE),
    [op |-> "refund", sale |-> s2, nested |-> FALSE],
    [op |-> "edit", sale |-> s1, nested |-> TRUE],
    [op |-> "cancel", sale |-> s2, nested |-> FALSE],
    [op |-> "addTag", sale |-> s2, item |-> i1, nested |-> FALSE],
    [op |-> "addUnits", sale |-> s1, product |-> ring, nested |-> FALSE],
    Close(h2),
    [op |-> "move", item |-> i3, nested |-> FALSE],
    [op |-> "setStatus", item |-> i1, nested |-> TRUE],
    [op |-> "count", items |-> {i1, i2, i3}, nested |-> FALSE]>>

\* Any three of them, in whichever roles.
Threes ==
  {r1 :> SomeJobs[a] @@ r2 :> SomeJobs[b] @@ r3 :> SomeJobs[c] :
     <<a, b, c>> \in {t \in (1..11) \X (1..11) \X (1..11) : t[1] <= t[2] /\ t[2] <= t[3]}}
=============================================================================
