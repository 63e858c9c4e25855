\* Two products, three units, two searches and an edit at a time.
CONSTANTS
  ring = ring  brooch = brooch  i1 = i1  i2 = i2  i3 = i3  acme = acme  bijou = bijou
  store = store  case = case  nowhere = nowhere  boss = boss  cashier = cashier
  s1 = s1  s2 = s2  e1 = e1
  Products = {ring, brooch}
  Items = {i1, i2, i3}
  ProductOf <- Units3
  Weight <- Weights2
  Supplier <- Suppliers2
  Category <- Category2
  Old = {i3}
  LowThreshold = 1
  Locations = {store, case}
  Below <- Below2
  Unknown = nowhere
  Users = {boss, cashier}
  Reach <- Reach2
  Searches = {s1, s2}
  Edits = {e1}
  MaxChanges = 2
  SkuLimit = 1
  MaxLimit = 3
  Found = 3
  TopScore = 2
SPECIFICATION Spec
SYMMETRY Symmetry
INVARIANTS
  SearchCurrent
  CountsAgree
  ListsMatchCards
  ReportAddsUp
  OnlyArticlesAreLost
CHECK_DEADLOCK FALSE
