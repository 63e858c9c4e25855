----------------------------- MODULE Analytics -----------------------------
(***************************************************************************)
(* The analytics reports (analytics/): two materialized views that the     *)
(* requests themselves refresh when they are stale, one at a time by a     *)
(* lock in Redis, and a cache of the answers.                              *)
(*                                                                         *)
(* Amounts are left out: what a query returns is the number of payments    *)
(* and refunds it reflects.  One Tick stands for 30 seconds; whatever      *)
(* expires in Redis is counted down in ticks.  The views are read from the *)
(* database that refreshes them (no ANALYTICS_DB_HOST).  The hash in the   *)
(* keys of the cache is a constant, and different payloads may share it.   *)
(***************************************************************************)
EXTENDS Naturals, Sequences

CONSTANTS
  Users, Role, Place,   \* who asks: users.role, users.location_id (or None)
  Locations, Below,     \* location -> its subtree (findSubtreeIds)
  Questions,            \* what is asked: user, location, channel, report
  Hash,                 \* payload of a key -> hashString of it
  Requests,             \* slots for requests under way
  StaleTicks,           \* ANALYTICS_MV_STALE_SECONDS
  LockTicks,            \* 30 seconds
  AnswerTicks,          \* ANALYTICS_CACHE_TTL_SECONDS
  MaxChanges            \* bound on payments and refunds

ASSUME TicksPositive ==
  /\ StaleTicks \in Nat \ {0} /\ LockTicks \in Nat \ {0} /\ AnswerTicks \in Nat \ {0}
ASSUME MaxChangesNat == MaxChanges \in Nat

VARIABLES
  version,        \* payments and refunds so far
  view,           \* view -> the version it shows
  mark,           \* ticks since analytics:mv:refreshedAt, StaleTicks if none
  since,          \* history: the version when the request that set the mark
                  \* in force had taken the lock
  lock,           \* ticks left of analytics:mv:lock, 0 when it is free
  cache,          \* key -> cached answer, or Nothing
  req,            \* request -> where it is
  outlived,       \* history: a request was refreshing when its lock ran out
  faulty          \* history: the last step was a fault

vars == <<version, view, mark, since, lock, cache, req, outlived, faulty>>

None    == "none"
Nothing == [of |-> None]
Views   == {"daily", "lines"}

-----------------------------------------------------------------------------
(* Whose receipts a report covers *)

Channels == {"offline", "online"}
All      == Locations

\* resolveLocationRoot: the location asked for, or a store manager's own.
Root(q) ==
  IF q.location # None THEN q.location
  ELSE IF Role[q.user] = "store_manager" THEN Place[q.user] ELSE None

\* Who may ask what.
Permitted(q) ==
  CASE Role[q.user] = "online_manager" -> q.channel \in {None, "online"}
    [] Role[q.user] = "store_manager"  ->
         /\ Place[q.user] # None
         /\ q.location # None => q.location \in Below[Place[q.user]]
    [] Role[q.user] = "admin"          -> TRUE
    [] OTHER                           -> FALSE

\* resolveAnalyticsScope.
ScopeOf(q) ==
  [role      |-> Role[q.user],
   locations |-> IF Root(q) = None THEN All ELSE Below[Root(q)],
   channel   |-> IF Role[q.user] = "online_manager" THEN "online" ELSE q.channel]

Reports == {"revenue", "categories", "margin", "receipts", "sellers", "inventory"}

\* margin by product and by receipt are one report to analyticsCacheKey.
Named(report) == IF report = "receipts" THEN "margin" ELSE report

\* What an answer is of, and what of it goes into the hash: not the role.
Answer(q) == [report |-> q.report, scope |-> ScopeOf(q)]

PayloadOfAll(q) ==   \* mutant of Payload: without the locations
  [report |-> q.report, locations |-> All, channel |-> ScopeOf(q).channel]
Payload(q) ==
  [report |-> q.report, locations |-> ScopeOf(q).locations, channel |-> ScopeOf(q).channel]

Payloads ==
  [report : Reports, locations : SUBSET Locations, channel : Channels \cup {None}]
ASSUME Hashes == DOMAIN Hash = Payloads
ASSUME ReportsAsked == \A q \in Questions : q.report \in Reports

\* analyticsCacheKey: the report in clear, the rest as a hash of 32 bits.
Key(q) == <<Named(q.report), Hash[Payload(q)]>>

Keys == {Key(q) : q \in Questions}

-----------------------------------------------------------------------------
(* What each report reads, one query after the other.  "live" stands for   *)
(* the tables themselves.                                                  *)

RevenueDashboard  == <<"daily", "daily", "daily", "daily">>
TopCategories     == <<"lines">>
MarginByProduct   == <<"lines">>
MarginByReceipt   == <<"live">>
SellerRanking     == <<"daily">>
InventoryTurnover == <<"live", "lines">>

Reads(report) ==
  CASE report = "revenue"    -> RevenueDashboard
    [] report = "categories" -> TopCategories
    [] report = "margin"     -> MarginByProduct
    [] report = "receipts"   -> MarginByReceipt
    [] report = "sellers"    -> SellerRanking
    [] report = "inventory"  -> InventoryTurnover

\* marginByReceipt alone does not ask for fresh views.
NeedsViews(report) == report # "receipts"

Shown(source) == IF source = "live" THEN version ELSE view[source]

-----------------------------------------------------------------------------
Idle == [at |-> "idle"]

Init ==
  /\ version = 0
  /\ view = [v \in Views |-> 0]
  /\ mark = StaleTicks
  /\ since = 0
  /\ lock = 0
  /\ cache = [k \in Keys |-> Nothing]
  /\ req = [r \in Requests |-> Idle]
  /\ outlived = FALSE
  /\ faulty = FALSE

Refreshing(r) == req[r].at \in {"refresh", "refreshing", "stamp", "unlock"}

Goes(r, state) == req' = [req EXCEPT ![r] = state]

KeyOf(r) == Key(req[r].q)

\* A request in its queries: the next one, and the least version its view may
\* still show: what the refresh promised, then what the last query showed.
Querying(q, promised) == [at |-> "query", q |-> q, next |-> 1, least |-> promised]

\* A payment or a refund.
Change ==
  /\ version < MaxChanges
  /\ version' = version + 1
  /\ UNCHANGED <<view, mark, since, lock, cache, req, outlived>>

\* A request is let through; what is not permitted is answered at once.
Ask(r, q) ==
  /\ req[r].at \in {"idle", "answered"}
  /\ Permitted(q)
  /\ Goes(r, [at |-> "cache", q |-> q])
  /\ UNCHANGED <<version, view, mark, since, lock, cache, outlived>>

\* cached(): an answer that is there is the answer.
LookUp(r) ==
  /\ req[r].at = "cache"
  /\ LET q == req[r].q IN
     Goes(r, IF cache[KeyOf(r)] # Nothing
               THEN [at |-> "answered", q |-> q, got |-> cache[KeyOf(r)].of]
             ELSE IF NeedsViews(q.report) THEN [at |-> "mark", q |-> q]
             ELSE Querying(q, 0))
  /\ UNCHANGED <<version, view, mark, since, lock, cache, outlived>>

\* ensureViewsFresh: the views are fresh enough, or the lock is tried.
ReadMark(r) ==
  /\ req[r].at = "mark"
  /\ Goes(r, IF mark < StaleTicks THEN Querying(req[r].q, since)
             ELSE [at |-> "lock", q |-> req[r].q])
  /\ UNCHANGED <<version, view, mark, since, lock, cache, outlived>>

SetAnyway == TRUE       \* mutant of Granted: SET without NX
Granted   == lock = 0

\* SET NX EX: who does not get the lock queries the views as they are.
TakeLock(r) ==
  /\ req[r].at = "lock"
  /\ IF Granted
     THEN /\ lock' = LockTicks
          /\ Goes(r, [at |-> "refresh", q |-> req[r].q, from |-> version,
                      view |-> "daily", plain |-> FALSE])
     ELSE /\ Goes(r, Querying(req[r].q, 0))
          /\ UNCHANGED lock
  /\ UNCHANGED <<version, view, mark, since, cache, outlived>>

\* A REFRESH statement begins: it will show the receipts as they are now.
BeginRefresh(r) ==
  /\ req[r].at = "refresh"
  /\ Goes(r, [at |-> "refreshing", q |-> req[r].q, from |-> req[r].from,
              view |-> req[r].view, plain |-> req[r].plain, snap |-> version])
  /\ UNCHANGED <<version, view, mark, since, lock, cache, outlived>>

\* It ends.
AfterView(r) ==
  [at |-> IF req[r].view = "daily" THEN "refresh" ELSE "stamp", q |-> req[r].q,
   from |-> req[r].from, view |-> "lines", plain |-> req[r].plain]

EndRefresh(r) ==
  /\ req[r].at = "refreshing"
  /\ view' = [view EXCEPT ![req[r].view] = req[r].snap]
  /\ Goes(r, AfterView(r))
  /\ UNCHANGED <<version, mark, since, lock, cache, outlived>>

\* mutant of Retried: the second attempt goes on where the first one failed,
\* past the view that would not be refreshed.
RetriedPast(r) ==
  [at |-> "stamp", q |-> req[r].q, from |-> req[r].from, view |-> "lines", plain |-> TRUE]

\* The catch refreshes both views again, without CONCURRENTLY.
Retried(r) ==
  [at |-> "refresh", q |-> req[r].q, from |-> req[r].from, view |-> "daily", plain |-> TRUE]

\* A statement fails: the other way of refreshing is tried, then the error
\* leaves through the finally block.
FailRefresh(r) ==
  /\ req[r].at = "refreshing"
  /\ Goes(r, IF req[r].plain THEN [at |-> "unlock", q |-> req[r].q, ok |-> FALSE]
             ELSE Retried(r))
  /\ UNCHANGED <<version, view, mark, since, lock, cache, outlived>>

\* The mark is the time now, after the refresh.
SetMark(r) ==
  /\ req[r].at = "stamp"
  /\ mark' = 0
  /\ since' = req[r].from
  /\ Goes(r, [at |-> "unlock", q |-> req[r].q, ok |-> TRUE, from |-> req[r].from])
  /\ UNCHANGED <<version, view, lock, cache, outlived>>

FailMark(r) ==
  /\ req[r].at = "stamp"
  /\ Goes(r, [at |-> "unlock", q |-> req[r].q, ok |-> FALSE])
  /\ UNCHANGED <<version, view, mark, since, lock, cache, outlived>>

\* The lock is deleted, whoever holds it by now.
Unlock(r) ==
  /\ req[r].at = "unlock"
  /\ lock' = 0
  /\ Goes(r, IF req[r].ok THEN Querying(req[r].q, req[r].from) ELSE Idle)
  /\ UNCHANGED <<version, view, mark, since, cache, outlived>>

Query(r) ==
  /\ req[r].at = "query"
  /\ LET q == req[r].q  n == req[r].next  source == Reads(q.report)[n] IN
     Goes(r, [at |-> IF n = Len(Reads(q.report)) THEN "store" ELSE "query",
              q |-> q, next |-> n + 1,
              least |-> IF source = "live" THEN req[r].least ELSE Shown(source)])
  /\ UNCHANGED <<version, view, mark, since, lock, cache, outlived>>

\* The answer is cached and given.
Store(r) ==
  /\ req[r].at = "store"
  /\ LET q == req[r].q IN
     /\ cache' = [cache EXCEPT ![KeyOf(r)] = [of |-> Answer(q), left |-> AnswerTicks]]
     /\ Goes(r, [at |-> "answered", q |-> q, got |-> Answer(q)])
  /\ UNCHANGED <<version, view, mark, since, lock, outlived>>

\* The process stops, or Redis or the database does not answer: the request
\* ends where it is.  A lock it holds is left to run out.
Crash(r) ==
  /\ req[r].at \notin {"idle", "answered"}
  /\ Goes(r, Idle)
  /\ UNCHANGED <<version, view, mark, since, lock, cache, outlived>>

\* Redis restarts empty.
LoseRedis ==
  /\ mark' = StaleTicks
  /\ lock' = 0
  /\ cache' = [k \in Keys |-> Nothing]
  /\ since' = 0
  /\ outlived' = (outlived \/ \E r \in Requests : Refreshing(r))
  /\ UNCHANGED <<version, view, req>>

NeverExpires(ticks) == ticks   \* mutant of Less

\* Half a minute goes by.
Less(ticks) == IF ticks = 0 THEN 0 ELSE ticks - 1

Aged(answer) ==
  IF answer = Nothing \/ answer.left = 1 THEN Nothing
  ELSE [answer EXCEPT !.left = @ - 1]

Tick ==
  /\ mark' = IF mark < StaleTicks THEN mark + 1 ELSE mark
  /\ since' = IF mark' < StaleTicks THEN since ELSE 0
  /\ lock' = Less(lock)
  /\ cache' = [k \in Keys |-> Aged(cache[k])]
  /\ outlived' = (outlived \/ (lock = 1 /\ \E r \in Requests : Refreshing(r)))
  /\ UNCHANGED <<version, view, req>>

Serve(r) ==
  \/ LookUp(r) \/ ReadMark(r) \/ TakeLock(r)
  \/ BeginRefresh(r) \/ EndRefresh(r) \/ SetMark(r) \/ Unlock(r)
  \/ Query(r) \/ Store(r)

Fault ==
  \/ \E r \in Requests : FailRefresh(r) \/ FailMark(r) \/ Crash(r)
  \/ LoseRedis

Works ==
  \/ Change
  \/ Tick
  \/ \E r \in Requests : Serve(r) \/ \E q \in Questions : Ask(r, q)

Next ==
  \/ Works /\ faulty' = FALSE
  \/ Fault /\ faulty' = TRUE

\* Requests are served and time goes on.  Nobody has to ask, pay or fail.
Fairness ==
  /\ WF_vars(Tick /\ faulty' = FALSE)
  /\ \A r \in Requests : WF_vars(Serve(r) /\ faulty' = FALSE)
Spec == Init /\ [][Next]_vars /\ Fairness

-----------------------------------------------------------------------------
(* Properties *)

\* While the mark is in force, both views show at least what was paid and
\* refunded when the request that set it took the lock.  It holds until a
\* refresh takes longer than the 30 seconds of its lock: a late refresh may
\* then put older data over newer (ensureViewsFresh).
MarkHonest ==
  mark < StaleTicks /\ ~outlived => \A v \in Views : view[v] >= since

\* The views are refreshed by one request at a time, unless a lock has run
\* out under a refresh.  The lock is deleted without looking whose it is, so
\* from then on two refreshes of requests that are not late may also meet.
OneRefresherUnlessSlow ==
  outlived \/ \A r, o \in Requests : Refreshing(r) /\ Refreshing(o) => r = o

\* An answer from the cache is of the report that was asked for.  It covers
\* exactly the locations and the channel of the one who asks, whoever had it
\* cached, unless the payload of another question has the same hash
\* (resolveAnalyticsScope, analyticsCacheKey, hashString): then that one's
\* answer may be given.  It may always name the role of another.
SharesHash(q) ==
  \E o \in Questions :
    /\ Permitted(o) /\ Named(o.report) = Named(q.report)
    /\ Payload(o) # Payload(q) /\ Hash[Payload(o)] = Hash[Payload(q)]

AnswersOwnScope ==
  \A r \in Requests : req[r].at = "answered" =>
    LET own == Answer(req[r].q)  got == req[r].got IN
    /\ Named(got.report) = Named(own.report)
    /\ \/ SharesHash(req[r].q)
       \/ /\ got.report = own.report
          /\ got.scope.locations = own.scope.locations
          /\ got.scope.channel = own.scope.channel

\* A report of several queries, the dashboard with four, has no transaction:
\* its parts may be of different refreshes.  Later ones are not of an older
\* refresh than earlier ones, and none is older than the mark that was found
\* in force, or the request's own refresh, promised (revenueDashboard,
\* ensureViewsFresh), until a refresh outlives its lock.
PartsAdvance ==
  ~outlived => \A r \in Requests : req[r].at = "query" =>
    \A n \in DOMAIN Reads(req[r].q.report) :
      LET source == Reads(req[r].q.report)[n] IN
      source \in Views => req[r].least <= view[source]

\* When the faults stop and reports are asked for again and again, both
\* views come to show the last payment for good: no lost lock and no failed
\* refresh keeps them from being refreshed.
Calm        == <>[]~faulty
KeepAsking  == []<>(\E r \in Requests : req[r].at = "mark")
ViewsCatchUp ==
  Calm /\ KeepAsking => <>[](\A v \in Views : view[v] = version)
=============================================================================
