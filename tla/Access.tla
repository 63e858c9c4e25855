-------------------------------- MODULE Access --------------------------------
(***************************************************************************)
(* Who may call what: the role matrix of common/constants/permissions.ts   *)
(* for the operations of the till and the stockroom, and the locations     *)
(* LocationsService.isAccessible lets each member of staff act on.         *)
(***************************************************************************)
CONSTANTS
  Staff,       \* users
  Locations,   \* warehouses, stores and showcases
  Role,        \* each user's role
  Reach        \* the locations isAccessible accepts for each user

UserRole == {"admin", "store_manager", "cashier", "online_manager", "warehouse"}

ASSUME StaffRoles == Role \in [Staff -> UserRole]
ASSUME StaffReach == Reach \in [Staff -> SUBSET Locations]

CrudAction == {"C", "R", "U", "D"}

\* ROLE_PERMISSIONS, for the resources that the modules guard by it.
RolePermissions ==
  [products_inventory |->
     [admin |-> CrudAction, store_manager |-> CrudAction, cashier |-> {"R"},
      online_manager |-> {"R"}, warehouse |-> {"C", "R", "U"}],
   sales |->
     [admin |-> CrudAction, store_manager |-> {"R", "U"}, cashier |-> {"C", "R"},
      online_manager |-> {"R"}, warehouse |-> {}]]

HasPermission(u, resource, action) == action \in RolePermissions[resource][Role[u]]

ShiftAccessRoles == {"admin", "store_manager", "cashier"}

\* What the controllers require of each endpoint.
MaySell(u)      == HasPermission(u, "sales", "C")
MayRefund(u)    == HasPermission(u, "sales", "U")
MayReceive(u)   == HasPermission(u, "products_inventory", "C")
MayHandle(u)    == HasPermission(u, "products_inventory", "U")
MayRunShift(u)  == Role[u] \in ShiftAccessRoles
=============================================================================
