\* Two requests, five questions, one payment; two payloads share a hash.
CONSTANTS
  boss = boss  manager = manager  web = web  store = store  case = case  depot = depot
  r1 = r1  r2 = r2
  Users = {boss, manager, web}
  Role <- Roles3
  Place <- Places3
  Locations = {store, case, depot}
  Below <- Below3
  Questions <- Five
  Hash <- AllOrPart
  Requests = {r1, r2}
  StaleTicks = 2
  LockTicks = 1
  AnswerTicks = 1
  MaxChanges = 1
SPECIFICATION Spec
INVARIANTS
  MarkHonest
  OneRefresherUnlessSlow
  AnswersOwnScope
  PartsAdvance
PROPERTY
  ViewsCatchUp
CHECK_DEADLOCK FALSE
