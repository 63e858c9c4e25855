\* Three locations, one member of staff, two requests at a time.
CONSTANTS
  warehouse = warehouse  store = store  counter = counter
  clerk = clerk  r1 = r1  r2 = r2
  Locs = {warehouse, store, counter}
  Users = {clerk}
  Requests = {r1, r2}
SPECIFICATION Spec
SYMMETRY Symmetry
INVARIANTS
  ReferencesExist
  AcyclicUnlessOverlap
  ListedIsAccessible
PROPERTY
  RemovalDetachesNothing
CHECK_DEADLOCK FALSE
