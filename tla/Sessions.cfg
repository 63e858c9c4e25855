\* One user, three token pairs, three requests.
CONSTANTS
  ann = ann  j1 = j1  j2 = j2  j3 = j3  t1 = t1  r1 = r1  r2 = r2  r3 = r3
  Users = {ann}
  Jtis = {j1, j2, j3}
  Tickets = {t1}
  Requests = {r1, r2, r3}
  TwoFactorEnabled = TRUE
  PerSecond = 2
  AccessTtl = 1
  LastTick = 3
SPECIFICATION Spec
SYMMETRY Symmetry
INVARIANTS
  HeldAreListed
  RevocationExact
  BlockedRunsOut
  OneSuccessorUnlessFork
PROPERTY
  SignedOutUnlessOverlap
CHECK_DEADLOCK FALSE
