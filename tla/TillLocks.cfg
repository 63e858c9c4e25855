\* Every three of eleven kinds of request at once, on two connections.
CONSTANTS
  s1 = s1  s2 = s2  h1 = h1  h2 = h2  i1 = i1  i2 = i2  i3 = i3
  ring = ring  brooch = brooch  seq = seq  r1 = r1  r2 = r2  r3 = r3
  Sales = {s1, s2}
  Shifts = {h1, h2}
  Items = {i1, i2, i3}
  Products = {ring, brooch}
  Counter = seq
  ShiftOf <- Shifts2
  LineItems <- Lines2
  ProductOf <- Units3
  Oldest <- Oldest2
  Requests = {r1, r2, r3}
  Mixes <- Threes
  PoolSize = 2
SPECIFICATION Spec
INVARIANT
  OrderedDeadlocks
PROPERTIES
  PaidStays
  AnsweredUnlessStarved
CHECK_DEADLOCK FALSE
