\* Two products of one supplier, a unit of each, one receipt, two requests at a time.
CONSTANTS
  acme = acme  ring = ring  brooch = brooch  i1 = i1  i2 = i2
  s1 = s1  r1 = r1  r2 = r2
  Suppliers = {acme}
  Products = {ring, brooch}
  Items = {i1, i2}
  Sales = {s1}
  ProductOf <- Units2
  SupplierOf <- OneOrigin
  LastSku = 2
  Requests = {r1, r2}
SPECIFICATION Spec
SYMMETRY Symmetry
INVARIANTS
  SoldOutFlagged
  DrawerCountsLines
PROPERTIES
  ReceiptsKeptUnlessOverlap
  HeldGoodsKeepSupplier
CHECK_DEADLOCK FALSE
