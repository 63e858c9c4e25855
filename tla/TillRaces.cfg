\* Two members of staff, two request slots, two units of one product.
CONSTANTS
  cashier = cashier  clerk = clerk  boss = boss  h1 = h1  h2 = h2  s1 = s1  s2 = s2  s3 = s3
  i1 = i1  i2 = i2  ring = ring  brooch = brooch
  store = store  depot = depot  r1 = r1  r2 = r2
  Staff = {cashier, boss}
  Locations = {store}
  Role <- TwoStaff
  Reach <- OneReach
  Shifts = {h1, h2}
  Sales = {s1, s2}
  Items = {i1, i2}
  Products = {ring}
  ProductOf <- TwoRings
  Requests = {r1, r2}
  Prices = {1}
  Discounts = {}
  Percents = {}
  KnownPromos <- NoPromos
  Targets = {"in_stock", "in_repair"}
  Prefix <- OwnPrefix
  LastDay = 1
SPECIFICATION Spec
SYMMETRY RowSymmetry
INVARIANTS
  TypeOK
  DrawerMatchesReceipts
  OneOpenShiftPerCashier
  ItemOnOneDraft
  SoldAccounted
  RefundPossible
  TrailIsCurrent
PROPERTIES
  ClosedShiftFrozen
  ImplementsLedger
CHECK_DEADLOCK FALSE
