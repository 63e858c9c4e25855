\* Two locations with one number prefix, three receipts, two UTC days.
CONSTANTS
  cashier = cashier  clerk = clerk  boss = boss  h1 = h1  h2 = h2  s1 = s1  s2 = s2  s3 = s3
  i1 = i1  i2 = i2  ring = ring  brooch = brooch
  store = store  depot = depot  r1 = r1  r2 = r2
  Staff = {cashier, clerk, boss}
  Locations = {store, depot}
  Role <- ThreeStaff
  Reach <- SplitReach
  Shifts = {h1, h2}
  Sales = {s1, s2, s3}
  Items = {i1}
  Products = {ring}
  ProductOf <- OneRing
  Requests = {r1}
  Prices = {1}
  Discounts = {}
  Percents = {}
  KnownPromos <- NoPromos
  Targets = {"in_stock"}
  Prefix <- SamePrefix
  LastDay = 2
SPECIFICATION Spec
SYMMETRY ReceiptSymmetry
INVARIANTS
  ReceiptsGapless
  ReceiptNumbersUnique
CHECK_DEADLOCK FALSE
