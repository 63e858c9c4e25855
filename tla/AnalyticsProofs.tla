-------------------------- MODULE AnalyticsProofs --------------------------
(***************************************************************************)
(* What holds of the analytics reports for any number of requests,         *)
(* questions and payments, and any of the three durations.                 *)
(***************************************************************************)
EXTENDS Analytics, TLAPS

-----------------------------------------------------------------------------
(* Shapes *)

States == {"idle", "cache", "mark", "lock", "refresh", "refreshing", "stamp", "unlock",
           "query", "store", "answered"}

\* What was answered, to a question with the key k.
SameKey(got, k) == \E o \in Questions : Permitted(o) /\ got = Answer(o) /\ Key(o) = k

\* What a request carries along in each of its states.
Shaped(p) ==
  /\ p.at \in States
  /\ p.at # "idle" => p.q \in Questions /\ Permitted(p.q)
  /\ p.at \in {"refresh", "refreshing", "stamp"} => p.from \in 0..version
  /\ p.at = "unlock" /\ p.ok => p.from \in 0..version
  /\ p.at \in {"refresh", "refreshing"} => p.view \in Views
  /\ p.at = "refreshing" => p.snap \in p.from..version
  /\ p.at = "query" => p.next \in 1..Len(Reads(p.q.report)) /\ p.least \in 0..version
  /\ p.at = "answered" => SameKey(p.got, Key(p.q))

\* A cached answer is of some question with its key.
Filed(k, answer) ==
  answer # Nothing =>
    answer = [of |-> answer.of, left |-> answer.left] /\ SameKey(answer.of, k)

Typed ==
  /\ version \in Nat /\ since \in 0..version
  /\ view \in [Views -> 0..version]
  /\ mark \in 0..StaleTicks
  /\ lock \in Nat
  /\ outlived \in BOOLEAN
  /\ req = [r \in Requests |-> req[r]]
  /\ cache = [k \in Keys |-> cache[k]]
  /\ \A r \in Requests : Shaped(req[r])
  /\ \A k \in Keys : Filed(k, cache[k])

LEMMA InitTyped == Init => Typed
<1> SUFFICES ASSUME Init PROVE Typed
  OBVIOUS
<1>1. version \in Nat /\ since \in 0..version /\ lock \in Nat /\ outlived \in BOOLEAN
  <2>1. version = 0 /\ since = 0 /\ lock = 0 /\ outlived = FALSE
    BY DEF Init
  <2>2. version \in Nat /\ since \in 0..version /\ lock \in Nat
    BY <2>1
  <2>3. QED
    BY <2>1, <2>2, Zenon
<1>2. mark \in 0..StaleTicks
  BY TicksPositive DEF Init
<1>3. view \in [Views -> 0..version]
  BY DEF Init
<1>4. req = [r \in Requests |-> req[r]]
  BY DEF Init
<1>5. cache = [k \in Keys |-> cache[k]]
  BY DEF Init
<1>6. \A r \in Requests : Shaped(req[r])
  BY DEF Init, Shaped, States, Idle
<1>7. \A k \in Keys : Filed(k, cache[k])
  BY DEF Init, Filed
<1>8. QED
  BY <1>1, <1>2, <1>3, <1>4, <1>5, <1>6, <1>7 DEF Typed

\* A step that only moves one request on.
LEMMA GoesTyped ==
  ASSUME Typed, NEW r \in Requests, NEW p, Goes(r, p), Shaped(p),
         UNCHANGED <<version, view, mark, since, cache, outlived>>, lock' \in Nat
  PROVE  Typed'
<1>1. req' = [o \in Requests |-> IF o = r THEN p ELSE req[o]]
  BY DEF Goes, Typed
<1>2. \A o \in Requests : Shaped(req[o])'
  BY <1>1 DEF Typed, Shaped
<1>3. \A k \in Keys : Filed(k, cache[k])'
  BY DEF Typed, Filed
<1>4. QED
  BY <1>1, <1>2, <1>3 DEF Typed

\* A step that moves no request.
LEMMA WaitsTyped ==
  ASSUME Typed, UNCHANGED req, version' \in Nat, version <= version'
  PROVE  \A o \in Requests : Shaped(req[o])'
BY DEF Typed, Shaped

\* A report reads one view at most, in one query or in all its queries.
LEMMA OneView ==
  ASSUME NEW report \in Reports
  PROVE  /\ Len(Reads(report)) \in Nat \ {0} /\ DOMAIN Reads(report) = 1..Len(Reads(report))
         /\ \A n \in 1..Len(Reads(report)) : Reads(report)[n] \in Views \cup {"live"}
         /\ \A m, n \in 1..Len(Reads(report)) :
              Reads(report)[m] \in Views /\ Reads(report)[n] \in Views =>
                Reads(report)[m] = Reads(report)[n]
<1> USE DEF Reads, Views
<1>1. CASE report = "revenue"
  BY <1>1 DEF RevenueDashboard
<1>2. CASE report = "categories"
  BY <1>2 DEF TopCategories
<1>3. CASE report = "margin"
  BY <1>3 DEF MarginByProduct
<1>4. CASE report = "receipts"
  BY <1>4 DEF MarginByReceipt
<1>5. CASE report = "sellers"
  BY <1>5 DEF SellerRanking
<1>6. CASE report = "inventory"
  BY <1>6 DEF InventoryTurnover
<1>7. QED
  BY <1>1, <1>2, <1>3, <1>4, <1>5, <1>6 DEF Reports

LEMMA QueryingShaped ==
  ASSUME Typed, NEW q \in Questions, Permitted(q), NEW promised \in 0..version
  PROVE  Shaped(Querying(q, promised)) /\ Querying(q, promised).at = "query"
<1>1. 1 \in 1..Len(Reads(q.report))
  BY ReportsAsked, OneView
<1>2. QED
  BY <1>1 DEF Shaped, Querying, States, Typed

LEMMA IdleShaped == Shaped(Idle)
BY DEF Shaped, States, Idle

LEMMA StepTyped == Typed /\ [Next]_vars => Typed'
<1> SUFFICES ASSUME Typed, [Next]_vars PROVE Typed'
  OBVIOUS
<1>1. CASE UNCHANGED vars
  BY <1>1 DEF vars, Typed, Shaped, Filed
<1>2. CASE Change
  <2>1. \A k \in Keys : Filed(k, cache[k])'
    BY <1>2 DEF Change, Typed, Filed
  <2>2. QED
    BY <1>2, <2>1, WaitsTyped DEF Change, Typed
<1>3. CASE Tick
  <2>1. \A k \in Keys : Filed(k, cache[k])'
    BY <1>3 DEF Tick, Typed, Filed, Aged, Nothing
  <2>2. \A o \in Requests : Shaped(req[o])'
    BY <1>3, WaitsTyped DEF Tick, Typed
  <2>3. cache' = [k \in Keys |-> cache'[k]]
    BY <1>3 DEF Tick
  <2>4. mark' \in 0..StaleTicks /\ since' \in 0..version'
    BY <1>3, TicksPositive DEF Tick, Typed
  <2>5. lock' \in Nat
    BY <1>3 DEF Tick, Less, Typed
  <2>6. QED
    BY <1>3, <2>1, <2>2, <2>3, <2>4, <2>5 DEF Tick, Typed
<1>4. CASE LoseRedis
  <2>1. \A k \in Keys : Filed(k, cache[k])'
    BY <1>4 DEF LoseRedis, Filed
  <2>2. \A o \in Requests : Shaped(req[o])'
    BY <1>4, WaitsTyped DEF LoseRedis, Typed
  <2>3. QED
    BY <1>4, <2>1, <2>2, TicksPositive DEF LoseRedis, Typed
<1>5. ASSUME NEW r \in Requests, NEW q \in Questions, Ask(r, q) PROVE Typed'
  <2>1. Shaped([at |-> "cache", q |-> q])
    BY <1>5 DEF Ask, Shaped, States
  <2>2. QED
    BY <1>5, <2>1, GoesTyped DEF Ask, Typed
<1>6. ASSUME NEW r \in Requests, LookUp(r) PROVE Typed'
  <2> DEFINE q == req[r].q
  <2>1. q \in Questions /\ Permitted(q)
    BY <1>6 DEF LookUp, Typed, Shaped
  <2>2. CASE cache[KeyOf(r)] # Nothing
    <3> DEFINE p == [at |-> "answered", q |-> q, got |-> cache[KeyOf(r)].of]
    <3>1. KeyOf(r) \in Keys /\ KeyOf(r) = Key(q)
      BY <2>1 DEF Keys, KeyOf
    <3>2. SameKey(cache[KeyOf(r)].of, Key(q))
      BY <2>2, <3>1 DEF Typed, Filed
    <3>3. Shaped(p)
      BY <2>1, <3>2 DEF Shaped, States
    <3>4. Goes(r, p)
      BY <1>6, <2>2 DEF LookUp
    <3>5. QED
      BY <1>6, <3>3, <3>4, GoesTyped DEF LookUp, Typed
  <2>3. CASE cache[KeyOf(r)] = Nothing
    <3>1. Shaped([at |-> "mark", q |-> q])
      BY <2>1 DEF Shaped, States
    <3>2. 0 \in 0..version
      BY DEF Typed
    <3>3. Shaped(Querying(q, 0))
      BY <2>1, <3>2, QueryingShaped
    <3>4. QED
      BY <1>6, <2>3, <3>1, <3>3, GoesTyped DEF LookUp, Typed
  <2>4. QED
    BY <2>2, <2>3
<1>7. ASSUME NEW r \in Requests, ReadMark(r) PROVE Typed'
  <2>1. req[r].q \in Questions /\ Permitted(req[r].q)
    BY <1>7 DEF ReadMark, Typed, Shaped
  <2>2. Shaped([at |-> "lock", q |-> req[r].q])
    BY <2>1 DEF Shaped, States
  <2>3. Shaped(Querying(req[r].q, since))
    <3>1. since \in 0..version
      BY DEF Typed
    <3>2. QED
      BY <2>1, <3>1, QueryingShaped
  <2>4. QED
    BY <1>7, <2>2, <2>3, GoesTyped DEF ReadMark, Typed
<1>8. ASSUME NEW r \in Requests, TakeLock(r) PROVE Typed'
  <2>1. req[r].q \in Questions /\ Permitted(req[r].q)
    BY <1>8 DEF TakeLock, Typed, Shaped
  <2>2. Shaped([at |-> "refresh", q |-> req[r].q, from |-> version,
                view |-> "daily", plain |-> FALSE])
    BY <2>1 DEF Shaped, States, Views, Typed
  <2>3. lock' \in Nat
    BY <1>8, TicksPositive DEF TakeLock, Typed
  <2>4. Shaped(Querying(req[r].q, 0))
    <3>1. 0 \in 0..version
      BY DEF Typed
    <3>2. QED
      BY <2>1, <3>1, QueryingShaped
  <2>5. QED
    BY <1>8, <2>2, <2>3, <2>4, GoesTyped DEF TakeLock
<1>9. ASSUME NEW r \in Requests, BeginRefresh(r) PROVE Typed'
  <2>1. Shaped([at |-> "refreshing", q |-> req[r].q, from |-> req[r].from,
                view |-> req[r].view, plain |-> req[r].plain, snap |-> version])
    BY <1>9 DEF BeginRefresh, Shaped, States, Typed
  <2>2. QED
    BY <1>9, <2>1, GoesTyped DEF BeginRefresh, Typed
<1>10. ASSUME NEW r \in Requests, EndRefresh(r) PROVE Typed'
  <2>1. Shaped(req[r]) /\ req[r].at = "refreshing"
    BY <1>10 DEF EndRefresh, Typed
  <2>2. Shaped(AfterView(r))
    BY <2>1 DEF Shaped, States, AfterView, Views
  <2>3. view' \in [Views -> 0..version']
    BY <1>10, <2>1 DEF EndRefresh, Typed, Shaped
  <2>4. req' = [o \in Requests |-> IF o = r THEN AfterView(r) ELSE req[o]]
    BY <1>10 DEF EndRefresh, Goes, Typed
  <2>5. \A o \in Requests : Shaped(req[o])'
    BY <1>10, <2>2, <2>4 DEF EndRefresh, Typed, Shaped
  <2>6. \A k \in Keys : Filed(k, cache[k])'
    BY <1>10 DEF EndRefresh, Typed, Filed
  <2>7. req' = [o \in Requests |-> req'[o]]
    BY <2>4
  <2>8. QED
    BY <1>10, <2>3, <2>5, <2>6, <2>7 DEF EndRefresh, Typed
<1>11. ASSUME NEW r \in Requests, FailRefresh(r) PROVE Typed'
  <2>1. Shaped(req[r]) /\ req[r].at = "refreshing"
    BY <1>11 DEF FailRefresh, Typed
  <2>2. Shaped([at |-> "unlock", q |-> req[r].q, ok |-> FALSE]) /\ Shaped(Retried(r))
    BY <2>1 DEF Shaped, States, Retried, Views
  <2>3. QED
    BY <1>11, <2>2, GoesTyped DEF FailRefresh, Typed
<1>12. ASSUME NEW r \in Requests, SetMark(r) PROVE Typed'
  <2>1. Shaped(req[r]) /\ req[r].at = "stamp"
    BY <1>12 DEF SetMark, Typed
  <2>2. Shaped([at |-> "unlock", q |-> req[r].q, ok |-> TRUE, from |-> req[r].from])
    BY <2>1 DEF Shaped, States
  <2>3. \A o \in Requests : Shaped(req[o])'
    BY <1>12, <2>2 DEF SetMark, Goes, Typed, Shaped
  <2>4. req' = [o \in Requests |-> req'[o]]
    BY <1>12 DEF SetMark, Goes, Typed
  <2>5. \A k \in Keys : Filed(k, cache[k])'
    BY <1>12 DEF SetMark, Typed, Filed
  <2>6. mark' \in 0..StaleTicks /\ since' \in 0..version'
    BY <1>12, <2>1, TicksPositive DEF SetMark, Shaped
  <2>7. QED
    BY <1>12, <2>3, <2>4, <2>5, <2>6 DEF SetMark, Typed
<1>13. ASSUME NEW r \in Requests, FailMark(r) PROVE Typed'
  <2>1. Shaped([at |-> "unlock", q |-> req[r].q, ok |-> FALSE])
    BY <1>13 DEF FailMark, Typed, Shaped, States
  <2>2. QED
    BY <1>13, <2>1, GoesTyped DEF FailMark, Typed
<1>14. ASSUME NEW r \in Requests, Unlock(r) PROVE Typed'
  <2>1. req[r].q \in Questions /\ Permitted(req[r].q)
    BY <1>14 DEF Unlock, Typed, Shaped
  <2>2. CASE req[r].ok
    <3>1. req[r].from \in 0..version
      BY <1>14, <2>2 DEF Unlock, Typed, Shaped
    <3>2. Shaped(Querying(req[r].q, req[r].from))
      BY <2>1, <3>1, QueryingShaped
    <3>3. QED
      BY <1>14, <2>2, <3>2, GoesTyped DEF Unlock
  <2>3. CASE ~req[r].ok
    BY <1>14, <2>3, IdleShaped, GoesTyped DEF Unlock
  <2>4. QED
    BY <2>2, <2>3
<1>15. ASSUME NEW r \in Requests, Query(r) PROVE Typed'
  <2> DEFINE q      == req[r].q
             n      == req[r].next
             source == Reads(q.report)[n]
             at     == IF n = Len(Reads(q.report)) THEN "store" ELSE "query"
             least  == IF source = "live" THEN req[r].least ELSE Shown(source)
             p      == [at |-> at, q |-> q, next |-> n + 1, least |-> least]
  <2>1. Shaped(req[r]) /\ req[r].at = "query"
    BY <1>15 DEF Query, Typed
  <2>2. Goes(r, p)
    BY <1>15, Zenon DEF Query
  <2>3. /\ q \in Questions /\ Permitted(q)
        /\ n \in 1..Len(Reads(q.report)) /\ Len(Reads(q.report)) \in Nat
    BY <2>1, ReportsAsked, OneView DEF Shaped
  <2>4. at \in {"query", "store"} /\ (at = "query" => n + 1 \in 1..Len(Reads(q.report)))
    BY <2>3
  <2>5. least \in 0..version
    <3>1. source \in Views \cup {"live"} /\ req[r].least \in 0..version
      BY <2>1, <2>3, ReportsAsked, OneView DEF Shaped
    <3>2. view \in [Views -> 0..version]
      BY DEF Typed
    <3> HIDE DEF source
    <3>3. QED
      BY <3>1, <3>2 DEF Shown
  <2> HIDE DEF at, least
  <2>6. Shaped(p)
    BY <2>3, <2>4, <2>5 DEF Shaped, States
  <2>7. QED
    BY <1>15, <2>2, <2>6, GoesTyped DEF Query, Typed
<1>16. ASSUME NEW r \in Requests, Store(r) PROVE Typed'
  <2> DEFINE q == req[r].q
             p == [at |-> "answered", q |-> q, got |-> Answer(q)]
  <2>1. q \in Questions /\ Permitted(q) /\ Goes(r, p)
    BY <1>16 DEF Store, Typed, Shaped
  <2>2. SameKey(Answer(q), Key(q))
    BY <2>1 DEF SameKey
  <2>3. Shaped(p)
    BY <2>1, <2>2 DEF Shaped, States
  <2>4. req' = [o \in Requests |-> IF o = r THEN p ELSE req[o]]
    BY <2>1 DEF Goes, Typed
  <2>5. \A o \in Requests : Shaped(req[o])'
    BY <1>16, <2>3, <2>4 DEF Store, Typed, Shaped
  <2>6. \A k \in Keys : Filed(k, cache[k])'
    <3>1. cache' = [cache EXCEPT ![KeyOf(r)] = [of |-> Answer(q), left |-> AnswerTicks]]
      BY <1>16 DEF Store
    <3>2. SameKey(Answer(q), KeyOf(r))
      BY <2>2 DEF KeyOf
    <3>3. QED
      BY <3>1, <3>2 DEF Typed, Filed
  <2>7. cache' = [k \in Keys |-> cache'[k]]
    BY <1>16 DEF Store, Typed
  <2>8. req' = [o \in Requests |-> req'[o]]
    BY <2>4
  <2>9. QED
    BY <1>16, <2>5, <2>6, <2>7, <2>8 DEF Store, Typed
<1>17. ASSUME NEW r \in Requests, Crash(r) PROVE Typed'
  BY <1>17, IdleShaped, GoesTyped DEF Crash, Typed
<1>18. QED
  BY <1>1, <1>2, <1>3, <1>4, <1>5, <1>6, <1>7, <1>8, <1>9, <1>10, <1>11, <1>12, <1>13,
     <1>14, <1>15, <1>16, <1>17 DEF Next, Works, Serve, Fault

-----------------------------------------------------------------------------
(* One refresher at a time, and what it may promise *)

Busy == {"refresh", "refreshing", "stamp", "unlock"}

\* What a request has shown of a view, or was promised, the view still shows.
Steady(p) ==
  p.at = "query" =>
    \A n \in DOMAIN Reads(p.q.report) :
      Reads(p.q.report)[n] \in Views => p.least <= view[Reads(p.q.report)[n]]

\* How far the views are while a request refreshes them, and when it reads.
Sound(p) ==
  /\ p.at \in {"refresh", "refreshing", "stamp"} => since <= p.from
  /\ p.at \in {"refresh", "refreshing"} /\ p.view = "lines" => p.from <= view["daily"]
  /\ p.at = "refreshing" => view[p.view] <= p.snap
  /\ p.at = "stamp" => p.from <= view["daily"] /\ p.from <= view["lines"]
  /\ p.at = "unlock" /\ p.ok => p.from <= view["daily"] /\ p.from <= view["lines"]
  /\ Steady(p)

Marked == mark < StaleTicks => since <= view["daily"] /\ since <= view["lines"]

\* As long as no lock has run out under a refresh.
Turns ==
  ~outlived =>
    /\ \A r, o \in Requests : req[r].at \in Busy /\ req[o].at \in Busy => r = o
    /\ \A r \in Requests : req[r].at \in Busy => lock > 0
    /\ \A r \in Requests : Sound(req[r])
    /\ Marked

LEMMA InitTurns == Init => Turns
BY DEF Init, Turns, Busy, Sound, Steady, Marked, Idle, Views

LEMMA QueryingSound ==
  ASSUME NEW q, NEW promised, promised <= view["daily"], promised <= view["lines"]
  PROVE  Sound(Querying(q, promised)) /\ Querying(q, promised).at = "query"
BY DEF Sound, Steady, Querying, Views

\* A request goes on without refreshing: it never did, or it gives the lock
\* back.
LEMMA GoesElsewhere ==
  ASSUME Typed, Turns, NEW r \in Requests, NEW p, Goes(r, p),
         p.at \in States, p.at \notin Busy, outlived \/ Sound(p),
         UNCHANGED <<view, mark, since, outlived>>,
         lock' = lock \/ req[r].at \in Busy
  PROVE  Turns'
<1> SUFFICES ASSUME ~outlived PROVE Turns'
  BY DEF Turns
<1>1. req' = [o \in Requests |-> IF o = r THEN p ELSE req[o]]
  BY DEF Goes, Typed
<1>2. \A o \in Requests : req'[o].at \in Busy => o # r /\ req[o].at \in Busy /\ req'[o] = req[o]
  BY <1>1
<1>3. \A o \in Requests : req'[o].at \in Busy => lock' > 0
  BY <1>2 DEF Turns
<1>4. \A o \in Requests : Sound(req[o])'
  BY <1>1 DEF Turns, Sound, Steady
<1>5. Marked'
  BY DEF Turns, Marked
<1>6. QED
  BY <1>2, <1>3, <1>4, <1>5 DEF Turns

\* A request that refreshes goes on with it.
LEMMA GoesRefreshing ==
  ASSUME Typed, Turns, NEW r \in Requests, NEW p, Goes(r, p),
         req[r].at \in Busy, outlived \/ Sound(p),
         UNCHANGED <<view, mark, since, outlived, lock>>
  PROVE  Turns'
<1> SUFFICES ASSUME ~outlived PROVE Turns'
  BY DEF Turns
<1>1. req' = [o \in Requests |-> IF o = r THEN p ELSE req[o]]
  BY DEF Goes, Typed
<1>2. \A o \in Requests : req'[o].at \in Busy => req[o].at \in Busy
  BY <1>1
<1>3. \A o \in Requests : Sound(req[o])'
  BY <1>1 DEF Turns, Sound, Steady
<1>4. Marked'
  BY DEF Turns, Marked
<1>5. QED
  BY <1>2, <1>3, <1>4 DEF Turns

LEMMA StepTurns == Typed /\ Turns /\ [Next]_vars => Turns'
<1> SUFFICES ASSUME Typed, Turns, [Next]_vars PROVE Turns'
  OBVIOUS
<1> USE DEF Refreshing
<1>1. CASE UNCHANGED vars
  BY <1>1 DEF vars, Turns, Sound, Steady, Marked
<1>2. CASE Change
  BY <1>2 DEF Change, Turns, Sound, Steady, Marked
<1>3. CASE Tick
  <2> SUFFICES ASSUME ~outlived' PROVE Turns'
    BY DEF Turns
  <2>1. ~outlived /\ (lock = 1 => \A r \in Requests : req[r].at \notin Busy)
    BY <1>3 DEF Tick, Busy
  <2>2. \A r \in Requests : req'[r].at \in Busy => lock' > 0
    BY <1>3, <2>1 DEF Tick, Turns, Less, Typed
  <2>3. since' <= since
    BY <1>3 DEF Tick, Typed
  <2>4. \A r \in Requests : Sound(req[r])'
    <3> SUFFICES ASSUME NEW r \in Requests PROVE Sound(req[r])'
      OBVIOUS
    <3>1. req'[r] = req[r] /\ view' = view /\ Sound(req[r]) /\ Shaped(req[r])
      BY <1>3, <2>1 DEF Tick, Turns, Typed
    <3>2. since' \in Nat /\ since \in Nat
      BY <1>3 DEF Tick, Typed
    <3>3. Steady(req[r])'
      BY <3>1 DEF Sound, Steady
    <3>4. QED
      BY <2>3, <3>1, <3>2, <3>3 DEF Sound, Shaped, Typed
  <2>5. Marked'
    BY <1>3, <2>1 DEF Tick, Turns, Marked, Typed
  <2>6. QED
    BY <1>3, <2>1, <2>2, <2>4, <2>5 DEF Tick, Turns
<1>4. CASE LoseRedis
  <2> SUFFICES ASSUME ~outlived' PROVE Turns'
    BY DEF Turns
  <2>1. \A r \in Requests : req'[r].at \notin Busy
    BY <1>4 DEF LoseRedis, Busy
  <2>2. Marked'
    BY <1>4, TicksPositive DEF LoseRedis, Marked
  <2>3. QED
    <3>1. view' = view /\ req' = req /\ ~outlived
      BY <1>4 DEF LoseRedis
    <3>2. \A r \in Requests : Sound(req[r])'
      BY <2>1, <3>1 DEF Turns, Sound, Steady, Busy
    <3>3. QED
      BY <2>1, <2>2, <3>2 DEF Turns
<1>5. ASSUME NEW r \in Requests, NEW q \in Questions, Ask(r, q) PROVE Turns'
  <2>1. Sound([at |-> "cache", q |-> q])
    BY DEF Sound, Steady
  <2>2. QED
    BY <1>5, <2>1, GoesElsewhere DEF Ask, States, Busy
<1>6. ASSUME NEW r \in Requests, LookUp(r) PROVE Turns'
  <2> DEFINE q == req[r].q
             p == [at |-> "answered", q |-> q, got |-> cache[KeyOf(r)].of]
  <2>1. Sound(p) /\ Sound([at |-> "mark", q |-> q])
    BY DEF Sound, Steady
  <2>2. Sound(Querying(q, 0)) /\ Querying(q, 0).at = "query"
    <3>1. 0 <= view["daily"] /\ 0 <= view["lines"]
      BY DEF Typed, Views
    <3>2. QED
      BY <3>1, QueryingSound
  <2>3. QED
    BY <1>6, <2>1, <2>2, GoesElsewhere DEF LookUp, States, Busy
<1>7. ASSUME NEW r \in Requests, ReadMark(r) PROVE Turns'
  <2>1. CASE mark < StaleTicks
    <3>1. outlived \/ (since <= view["daily"] /\ since <= view["lines"])
      BY <2>1 DEF Turns, Marked
    <3>2. outlived \/ Sound(Querying(req[r].q, since))
      BY <3>1, QueryingSound
    <3>3. Goes(r, Querying(req[r].q, since)) /\ Querying(req[r].q, since).at = "query"
      BY <1>7, <2>1 DEF ReadMark, Querying
    <3>4. QED
      BY <1>7, <3>2, <3>3, GoesElsewhere DEF ReadMark, States, Busy
  <2>2. CASE ~(mark < StaleTicks)
    <3>1. Sound([at |-> "lock", q |-> req[r].q])
      BY DEF Sound, Steady
    <3>2. QED
      BY <1>7, <2>2, <3>1, GoesElsewhere DEF ReadMark, States, Busy
  <2>3. QED
    BY <2>1, <2>2
<1>8. ASSUME NEW r \in Requests, TakeLock(r) PROVE Turns'
  <2>1. CASE Granted
    <3> SUFFICES ASSUME ~outlived PROVE Turns'
      BY <1>8 DEF Turns, TakeLock
    <3> DEFINE p == [at |-> "refresh", q |-> req[r].q, from |-> version,
                     view |-> "daily", plain |-> FALSE]
    <3>1. \A o \in Requests : req[o].at \notin Busy
      BY <2>1 DEF Granted, Turns
    <3>2. req' = [o \in Requests |-> IF o = r THEN p ELSE req[o]] /\ lock' = LockTicks
      BY <1>8, <2>1 DEF TakeLock, Goes, Typed
    <3>3. Sound(p)
      BY DEF Sound, Steady, Typed
    <3>4. \A o \in Requests : Sound(req[o])'
      BY <1>8, <3>2, <3>3 DEF TakeLock, Turns, Sound, Steady
    <3>5. Marked'
      BY <1>8 DEF TakeLock, Turns, Marked
    <3>6. \A o \in Requests : req'[o].at \in Busy => o = r
      BY <3>1, <3>2
    <3>7. lock' > 0
      BY <3>2, TicksPositive
    <3>8. \A o, oo \in Requests : req'[o].at \in Busy /\ req'[oo].at \in Busy => o = oo
      BY <3>6
    <3> HIDE DEF p
    <3>9. QED
      BY <3>4, <3>5, <3>7, <3>8 DEF Turns
  <2>2. CASE ~Granted
    <3>1. 0 <= view["daily"] /\ 0 <= view["lines"]
      BY DEF Typed, Views
    <3>2. Sound(Querying(req[r].q, 0)) /\ Querying(req[r].q, 0).at = "query"
      BY <3>1, QueryingSound
    <3>3. QED
      BY <1>8, <2>2, <3>2, GoesElsewhere DEF TakeLock, States, Busy
  <2>3. QED
    BY <2>1, <2>2
<1>9. ASSUME NEW r \in Requests, BeginRefresh(r) PROVE Turns'
  <2> DEFINE p == [at |-> "refreshing", q |-> req[r].q, from |-> req[r].from,
                   view |-> req[r].view, plain |-> req[r].plain, snap |-> version]
  <2>1. req[r].at = "refresh" /\ Goes(r, p) /\ req[r].view \in Views
    BY <1>9 DEF BeginRefresh, Typed, Shaped
  <2>2. view[req[r].view] <= version
    BY <2>1 DEF Typed
  <2>3. outlived \/ Sound(p)
    BY <2>1, <2>2 DEF Turns, Sound, Steady
  <2>4. QED
    BY <1>9, <2>1, <2>3, GoesRefreshing DEF BeginRefresh, Busy
<1>10. ASSUME NEW r \in Requests, EndRefresh(r) PROVE Turns'
  <2> SUFFICES ASSUME ~outlived PROVE Turns'
    BY <1>10 DEF Turns, EndRefresh
  <2>1. Shaped(req[r]) /\ Sound(req[r]) /\ req[r].at = "refreshing"
    BY <1>10 DEF EndRefresh, Typed, Turns
  <2>2. \A o \in Requests : o # r => req[o].at \notin Busy
    BY <2>1 DEF Turns, Busy
  <2>3. req' = [o \in Requests |-> IF o = r THEN AfterView(r) ELSE req[o]]
    BY <1>10 DEF EndRefresh, Goes, Typed
  <2>4. view' = [view EXCEPT ![req[r].view] = req[r].snap]
    BY <1>10 DEF EndRefresh
  <2>5. view' \in [Views -> Nat] /\ \A v \in Views : view[v] <= view'[v]
    BY <2>1, <2>4 DEF Shaped, Sound, Typed
  <2>6. Sound(req[r])'
    <3>1. req'[r] = AfterView(r) /\ since' = since /\ req'[r].at # "query"
      BY <1>10, <2>3 DEF EndRefresh, AfterView
    <3>2. Steady(req[r])'
      BY <3>1 DEF Steady
    <3>3. QED
      BY <2>1, <2>4, <3>1, <3>2 DEF AfterView, Sound, Shaped, Views, Typed
  <2>7. ASSUME NEW o \in Requests, o # r PROVE Sound(req[o])'
    <3>1. req'[o] = req[o] /\ req[o].at \notin Busy
      BY <2>2, <2>3, <2>7
    <3>2. Steady(req[o]) /\ (req[o].at = "query" => req[o].least \in Nat)
      BY DEF Turns, Sound, Typed, Shaped
    <3> DEFINE p == req[o]
    <3>3. \A n \in DOMAIN Reads(p.q.report) :
            p.at = "query" /\ Reads(p.q.report)[n] \in Views =>
              p.least <= view'[Reads(p.q.report)[n]]
      BY <2>5, <3>2 DEF Steady, Typed
    <3>4. Steady(req[o])'
      BY <3>1, <3>3 DEF Steady
    <3>5. QED
      BY <3>1, <3>4 DEF Sound, Busy
  <2>8. \A o \in Requests : Sound(req[o])'
    BY <2>6, <2>7
  <2>9. Marked'
    BY <1>10, <2>1, <2>4 DEF EndRefresh, Turns, Marked, Sound, Shaped, Views, Typed
  <2>10. lock' > 0
    BY <1>10, <2>1 DEF EndRefresh, Turns, Busy
  <2>11. \A o \in Requests : req'[o].at \in Busy => o = r
    BY <2>2, <2>3
  <2>12. QED
    BY <2>8, <2>9, <2>10, <2>11 DEF Turns
<1>11. ASSUME NEW r \in Requests, FailRefresh(r) PROVE Turns'
  <2>1. req[r].at = "refreshing"
    BY <1>11 DEF FailRefresh
  <2>2. outlived \/ Sound(Retried(r))
    BY <2>1 DEF Turns, Sound, Steady, Retried
  <2>3. Sound([at |-> "unlock", q |-> req[r].q, ok |-> FALSE])
    BY DEF Sound, Steady
  <2>4. QED
    BY <1>11, <2>1, <2>2, <2>3, GoesRefreshing DEF FailRefresh, Busy
<1>12. ASSUME NEW r \in Requests, SetMark(r) PROVE Turns'
  <2> SUFFICES ASSUME ~outlived PROVE Turns'
    BY <1>12 DEF Turns, SetMark
  <2> DEFINE p == [at |-> "unlock", q |-> req[r].q, ok |-> TRUE, from |-> req[r].from]
  <2>1. Sound(req[r]) /\ req[r].at = "stamp"
    BY <1>12 DEF SetMark, Turns
  <2>2. req' = [o \in Requests |-> IF o = r THEN p ELSE req[o]]
    BY <1>12 DEF SetMark, Goes, Typed
  <2>3. \A o \in Requests : o # r => req[o].at \notin Busy
    BY <2>1 DEF Turns, Busy
  <2>4. \A o \in Requests : Sound(req[o])'
    <3>1. view' = view /\ \A o \in Requests : Steady(req[o])
      BY <1>12 DEF SetMark, Turns, Sound
    <3>2. \A o \in Requests : Steady(req[o])'
      BY <2>2, <3>1 DEF Steady
    <3>3. QED
      BY <2>1, <2>2, <2>3, <3>1, <3>2 DEF Sound, Busy
  <2>5. Marked'
    BY <1>12, <2>1 DEF SetMark, Marked, Sound
  <2>6. lock' > 0
    BY <1>12, <2>1 DEF SetMark, Turns, Busy
  <2>7. QED
    BY <2>2, <2>3, <2>4, <2>5, <2>6 DEF Turns
<1>13. ASSUME NEW r \in Requests, FailMark(r) PROVE Turns'
  <2>1. Sound([at |-> "unlock", q |-> req[r].q, ok |-> FALSE])
    BY DEF Sound, Steady
  <2>2. QED
    BY <1>13, <2>1, GoesRefreshing DEF FailMark, Busy
<1>14. ASSUME NEW r \in Requests, Unlock(r) PROVE Turns'
  <2>1. req[r].at = "unlock"
    BY <1>14 DEF Unlock
  <2>2. CASE req[r].ok
    <3>1. outlived \/ (req[r].from <= view["daily"] /\ req[r].from <= view["lines"])
      BY <2>1, <2>2 DEF Turns, Sound
    <3> DEFINE p == Querying(req[r].q, req[r].from)
    <3>2. (outlived \/ Sound(p)) /\ p.at = "query"
      BY <3>1, QueryingSound DEF Querying
    <3>3. Goes(r, p)
      BY <1>14, <2>2 DEF Unlock
    <3> HIDE DEF p
    <3>4. QED
      BY <1>14, <2>1, <3>2, <3>3, GoesElsewhere DEF Unlock, States, Busy
  <2>3. CASE ~req[r].ok
    <3>1. Sound(Idle)
      BY DEF Sound, Steady, Idle
    <3>2. QED
      BY <1>14, <2>1, <2>3, <3>1, GoesElsewhere DEF Unlock, States, Busy, Idle
  <2>4. QED
    BY <2>2, <2>3
<1>15. ASSUME NEW r \in Requests, Query(r) PROVE Turns'
  <2> DEFINE q      == req[r].q
             n      == req[r].next
             source == Reads(q.report)[n]
             at     == IF n = Len(Reads(q.report)) THEN "store" ELSE "query"
             least  == IF source = "live" THEN req[r].least ELSE Shown(source)
             p      == [at |-> at, q |-> q, next |-> n + 1, least |-> least]
  <2>1. Shaped(req[r]) /\ req[r].at = "query" /\ (outlived \/ Steady(req[r]))
    BY <1>15 DEF Query, Typed, Turns, Sound
  <2>2. Goes(r, p)
    BY <1>15, Zenon DEF Query
  <2>3. q.report \in Reports /\ n \in 1..Len(Reads(q.report))
    BY <2>1, ReportsAsked DEF Shaped
  <2>4. at \in {"query", "store"}
    OBVIOUS
  <2>5. outlived \/ Steady(p)
    <3> SUFFICES ASSUME ~outlived, NEW m \in DOMAIN Reads(q.report), Reads(q.report)[m] \in Views
                 PROVE  least <= view[Reads(q.report)[m]]
      BY DEF Steady
    <3>1. m \in 1..Len(Reads(q.report))
      BY <2>3, OneView
    <3>2. CASE source = "live"
      BY <2>1, <3>2 DEF Steady
    <3>3. CASE source # "live"
      <4>1. source = Reads(q.report)[m]
        BY <2>3, <3>1, <3>3, OneView
      <4>2. least = view[Reads(q.report)[m]] /\ view[Reads(q.report)[m]] \in Nat
        BY <3>3, <4>1 DEF Shown, Typed
      <4> HIDE DEF least
      <4>3. QED
        BY <4>2
    <3>4. QED
      BY <3>2, <3>3
  <2> HIDE DEF at, least
  <2>6. outlived \/ Sound(p)
    BY <2>4, <2>5 DEF Sound
  <2>7. QED
    BY <1>15, <2>2, <2>4, <2>6, GoesElsewhere DEF Query, States, Busy
<1>16. ASSUME NEW r \in Requests, Store(r) PROVE Turns'
  <2> DEFINE p == [at |-> "answered", q |-> req[r].q, got |-> Answer(req[r].q)]
  <2>1. Sound(p)
    BY DEF Sound, Steady
  <2>2. QED
    BY <1>16, <2>1, GoesElsewhere DEF Store, States, Busy
<1>17. ASSUME NEW r \in Requests, Crash(r) PROVE Turns'
  <2>1. Sound(Idle)
    BY DEF Sound, Steady, Idle
  <2>2. QED
    BY <1>17, <2>1, GoesElsewhere DEF Crash, States, Busy, Idle
<1>18. QED
  BY <1>1, <1>2, <1>3, <1>4, <1>5, <1>6, <1>7, <1>8, <1>9, <1>10, <1>11, <1>12, <1>13,
     <1>14, <1>15, <1>16, <1>17 DEF Next, Works, Serve, Fault

-----------------------------------------------------------------------------
(* Theorems *)

LEMMA TypedAlways == Spec => []Typed
BY InitTyped, StepTyped, PTL DEF Spec

LEMMA TurnsAlways == Spec => []Turns
BY InitTurns, StepTurns, TypedAlways, PTL DEF Spec

\* The views are refreshed by one request at a time, however many there are,
\* until a refresh outlives its lock (ensureViewsFresh).
THEOREM RefreshersTakeTurns == Spec => []OneRefresherUnlessSlow
<1>1. Turns => OneRefresherUnlessSlow
  BY DEF Turns, OneRefresherUnlessSlow, Refreshing, Busy
<1>2. QED
  BY <1>1, TurnsAlways, PTL

\* While the mark is in force both views show what was paid and refunded when
\* the request that set it took the lock, whatever failed or was retried,
\* until a refresh outlives its lock (ensureViewsFresh).
THEOREM FreshMarkIsHonest == Spec => []MarkHonest
<1>1. Typed /\ Turns => MarkHonest
  BY DEF Typed, Turns, Marked, MarkHonest, Views
<1>2. QED
  BY <1>1, TypedAlways, TurnsAlways, PTL

\* An answer from the cache is of the report asked for, and of the locations
\* and the channel of its reader unless another question has the same hash,
\* whatever the hash does (resolveAnalyticsScope, analyticsCacheKey, hashString).
THEOREM AnswersKeepToScope == Spec => []AnswersOwnScope
<1>1. Typed => AnswersOwnScope
  <2> SUFFICES ASSUME Typed, NEW r \in Requests, req[r].at = "answered"
               PROVE  LET own == Answer(req[r].q)  got == req[r].got IN
                      /\ Named(got.report) = Named(own.report)
                      /\ \/ SharesHash(req[r].q)
                         \/ /\ got.report = own.report
                            /\ got.scope.locations = own.scope.locations
                            /\ got.scope.channel = own.scope.channel
    BY DEF AnswersOwnScope
  <2> DEFINE q == req[r].q
  <2>1. PICK o \in Questions : Permitted(o) /\ req[r].got = Answer(o) /\ Key(o) = Key(q)
    BY DEF Typed, Shaped, SameKey
  <2>2. Named(o.report) = Named(q.report) /\ Hash[Payload(o)] = Hash[Payload(q)]
    BY <2>1 DEF Key
  <2>3. CASE Payload(o) = Payload(q)
    <3>1. /\ o.report = q.report /\ ScopeOf(o).locations = ScopeOf(q).locations
          /\ ScopeOf(o).channel = ScopeOf(q).channel
      BY <2>3 DEF Payload
    <3>2. QED
      BY <2>1, <3>1 DEF Answer
  <2>4. CASE Payload(o) # Payload(q)
    <3>1. SharesHash(q)
      BY <2>1, <2>2, <2>4 DEF SharesHash
    <3>2. QED
      BY <2>1, <2>2, <3>1 DEF Answer
  <2>5. QED
    BY <2>3, <2>4
<1>2. QED
  BY <1>1, TypedAlways, PTL

\* The parts of a report are of no older refresh than the parts before them,
\* nor than the mark promised, however many requests refresh and however they
\* fail, until a refresh outlives its lock (revenueDashboard, ensureViewsFresh).
THEOREM ReportPartsAdvance == Spec => []PartsAdvance
<1>1. Turns => PartsAdvance
  BY DEF Turns, Sound, Steady, PartsAdvance
<1>2. QED
  BY <1>1, TurnsAlways, PTL
=============================================================================
