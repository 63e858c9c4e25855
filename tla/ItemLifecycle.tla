---------------------------- MODULE ItemLifecycle ----------------------------
(***************************************************************************)
(* The statuses of one tagged piece of jewelry and the changes             *)
(* inventory/inventory-stock.calculator.ts allows between them.            *)
(***************************************************************************)

ItemStatus ==
  {"in_stock", "on_display", "sold", "in_repair", "in_cleaning", "on_commission"}

AvailableOrSold == {"in_stock", "on_display", "sold"}   \* mutant of Available

\* AVAILABLE_FOR_SALE
Available == {"in_stock", "on_display"}

\* applyStatusChange(from, to) returns.  Asking for the present status is
\* accepted; SOLD is never reached this way, but it can be left this way.
CanChange(from, to) ==
  \/ from = to
  \/ to \in {"in_repair", "in_cleaning", "on_commission"} /\ from \in Available
  \/ to = "on_display" /\ from = "in_stock"
  \/ to = "in_stock"
=============================================================================
