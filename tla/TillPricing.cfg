\* One administrator selling two items with every kind of discount.
CONSTANTS
  cashier = cashier  clerk = clerk  boss = boss  h1 = h1  h2 = h2  s1 = s1  s2 = s2  s3 = s3
  i1 = i1  i2 = i2  ring = ring  brooch = brooch
  store = store  depot = depot  r1 = r1  r2 = r2
  Staff = {boss}
  Locations = {store}
  Role <- OneBoss
  Reach <- BossReach
  Shifts = {h1}
  Sales = {s1}
  Items = {i1, i2}
  Products = {ring}
  ProductOf <- TwoRings
  Requests = {r1}
  Prices = {0, 1, 3}
  Discounts = {0, 1}
  Percents = {0, 70}
  KnownPromos <- Promos
  Targets = {}
  Prefix <- OwnPrefix
  LastDay = 1
SPECIFICATION Spec
SYMMETRY ItemSymmetry
INVARIANT
  TotalsCurrent
CHECK_DEADLOCK FALSE
