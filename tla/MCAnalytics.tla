---------------------------- MODULE MCAnalytics ----------------------------
(***************************************************************************)
(* Two requests of an administrator and a store manager at once.           *)
(***************************************************************************)
EXTENDS Analytics, FiniteSets, TLC

CONSTANTS boss, manager, web, store, case, depot, r1, r2

Roles3  == boss :> "admin" @@ manager :> "store_manager" @@ web :> "online_manager"
Places3 == boss :> None @@ manager :> store @@ web :> None
Below3  == store :> {store, case} @@ case :> {case} @@ depot :> {depot}

Asks(u, l, c, report) == [user |-> u, location |-> l, channel |-> c, report |-> report]

\* A dashboard, three reports that need no views, and one that is refused.
Five == {Asks(boss, None, None, "revenue"), Asks(boss, None, None, "receipts"),
         Asks(manager, None, None, "receipts"), Asks(boss, depot, None, "receipts"),
         Asks(web, None, "offline", "revenue")}

\* A store and the depot have the same hash, all locations have another.
AllOrPart == [p \in Payloads |-> IF p.locations = Locations THEN 1 ELSE 0]
=============================================================================
