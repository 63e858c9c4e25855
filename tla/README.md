# platinum-back: a verification development

`src/` is the back end of a jewelry shop (NestJS, TypeORM on PostgreSQL, Redis):
cashiers open shifts, build receipts out of individually tagged items, take
payment and give refunds; the stockroom receives, moves and repairs items;
administrators keep products, suppliers, locations and users; managers search the
catalogue and read reports. This directory holds TLA+ modules translated from that
code, TLC configurations that check them on small instances, and proofs checked
by TLAPS.

To check: `tlc -config TillRaces.cfg MCPointOfSale` (any `.cfg`, with the module
`PROJECT.json` names beside it), `tlapm TillProofs.tla` (any `*Proofs.tla`).
`PROJECT.json` lists the runs, maps every definition to the lines it translates, and
lists the hazards with the properties that cover them.

## 1. Inventory

All paths are below `src/src/`.

| component | state it keeps | operations that change it | talks to |
|---|---|---|---|
| cashier shifts (`shifts/`) | `shifts`: status, cashier, location, running cash and card totals | open, close | locations (access), receipts (close deletes drafts) |
| sales receipts (`sales/sales.service.ts`) | `sales`, `sale_items` | createDraft, updateDraft, addItem by item or by product, updateItem, removeItem, cancelDraft, pay, refund | shifts, items, products, locations |
| receipt arithmetic (`sales/receipt-totals.calculator.ts`) | none: pure functions on kopecks, and `KNOWN_PROMOS` | - | used by every receipt edit |
| receipt numbering (`sales/receipt-number.ts`, `nextReceiptNumber`) | `receipt_sequences` per location and UTC day | one upsert inside pay | receipts (unique index on the number) |
| item lifecycle (`inventory/inventory-stock.calculator.ts`) | none: which status follows which | - | inventory, sales |
| inventory (`inventory/inventory.service.ts`) | `batches`, `items`, `item_audit_logs` (audit trail) | receiveBatch, moveItem, updateStatus; stock checks | products, locations |
| products (`products/products.service.ts`) | `products`, out-of-stock flag, articles | create with items, update, remove | items, draft lines, catalogue search |
| suppliers (`products/suppliers.service.ts`) | `suppliers` | create, update, remove | products, items, sale lines |
| locations (`locations/`) | the tree of warehouses, stores, showcases | create, update, remove, default warehouse | every service asks `isAccessible` |
| users (`users/`) | `users`: role, status, locations | create, update, block, delete | sessions, locations |
| sessions (`auth/`) | Redis: refresh tokens, reset and second-factor tokens, revocation stamps | login, second factor, refresh, revoke, reset | users |
| permissions (`common/constants/permissions.ts`, `common/guards/`) | none: role matrix and guards | - | every controller |
| catalogue search (`catalog/search/`) | Redis: generation counter, cached answers | search, index update | products |
| catalogue reports (`catalog/`, read side of `products/`) | none | - | products, items |
| analytics (`analytics/`) | two materialized views; in Redis a refresh mark, a refresh lock and cached answers | refresh, queries | receipts |
| request audit (`audit/`) | append-only log | insert after the response | - |
| exports, orders, customers, health, configuration, schema and seed | read-only or wiring | - | - |

Behaviours that are hard here, and what makes each part correct:

* **Shifts.** `open` looks for an open shift and inserts in two steps, outside a
  transaction: only the partial unique index keeps a cashier to one open shift.
  `close` races with payments, edits and new drafts of the same shift.
  *Correct when*: one open shift per cashier; the two running totals are at every
  moment the sum of the paid receipts; a closed shift never changes again.
* **Receipts.** Six handlers change what a total is computed from. Two cashiers
  may reach for one tag; requests are retried; payment touches seven tables.
  *Correct when*: an item is on one draft at most and sold by one receipt at most; a
  stored total is never stale; a paid receipt can be refunded, once.
* **Arithmetic.** Percentages are rounded twice (line, receipt), a discount may
  equal its base. *Correct when*: totals are natural numbers and rounding is fair.
* **Numbering.** Eight hex digits of the location id are printed, the date is
  UTC. *Correct when*: numbers are unique, each location's day is without a gap.
* **Items.** The lifecycle lets an item leave `sold` without a refund; the
  out-of-stock flag is a cached count. *Correct when*: `sold` means "on a paid
  receipt", the last audit entry tells the truth, a sold-out product is flagged.
* **Administration.** Removals read before they lock; updates save a row they read
  earlier; location moves check for a cycle on a tree another move may be changing;
  two requests can each remove one of the last two administrators. *Correct when*:
  nothing is lost that the check was to protect - paid receipts, goods in stock, the
  last administrator, rights, a tree without cycles - wherever requests do not
  overlap; where they do, what the foreign keys and indexes still ensure.
* **Sessions.** Refresh rotation, revocation and one-time tokens are several Redis
  commands each, any of which may be the last. *Correct when*: a revocation kills
  what was signed before it, a blocked user runs out, one sign-in has one
  successor.
* **Caches.** Search answers are cached under a generation, report answers under
  their scope, views are refreshed by the readers under a lock with a time limit.
  *Correct when*: an answer is not older than the last edit its reader could know
  of, covers no more than its reader may see, and views catch up.
* **Counts.** Six queries count what can be sold, each with filters of its own.
  *Correct when*: they agree.
* **Connections and locks.** A transaction holds one pooled connection while
  `LocationsService` asks for another; handlers lock rows in different orders.
  *Correct when*: deadlocks are of the kinds the database resolves, and every
  request is answered.

## 2. Modules

| module | what it is |
|---|---|
| `Sums` | sums of naturals as cardinalities, a form that needs no recursion |
| `Pricing` | the receipt calculator: promo codes, merging of discounts, lines, receipts |
| `ItemLifecycle` | item statuses and the changes `applyStatusChange` allows |
| `Access` | roles and locations of staff, for the till's operations |
| `PointOfSale` | the till: shifts, receipts, numbering, items, audit trail, flags (extends the above) |
| `ShiftLedger` | the abstract specification: what the till promises about money |
| `TillSafety` | properties of `PointOfSale`, and its refinement mapping to `ShiftLedger` |
| `TillLocks` | the row locks and pooled connections below the till's transactions |
| `Stockroom` | products and suppliers, edited and removed while goods arrive and are sold |
| `Locations` | the tree of locations, staff assignments, goods |
| `Staff` | staff accounts |
| `Sessions` | sign-in, second factor, refresh rotation, reset, revocation, the access guard |
| `Catalogue` | stock counts, lists, the stock report, search ranking and its cache |
| `Analytics` | view refresh, lock, cache and scopes of the reports |
| `MC...` | definitions the TLC configurations use, one module per specification |
| `...Proofs` | theorems and proofs, one module per specification, but `AccountsProofs` for both `Sessions` and `Staff`, which share no name; `SumsProofs` has the lemmas on sums and on counting that five of them use |

`PointOfSale` composes pricing, lifecycle and access into one specification. The other
specifications each take one neighbourhood of the same program, with as much of the till in it as
they meet, at the grain their hazards need: `PointOfSale` at that of
transactions, `Stockroom`, `Locations` and `Staff` at that of a read and a later
write, `TillLocks` at that of rows and connections, `Sessions`, `Catalogue` and
`Analytics` at that of single commands to Redis.

### PointOfSale

| variable | code |
|---|---|
| `shifts`, `drawer` | rows of `shifts`; `drawer` is their `cash_total` and `card_total` |
| `sales`, `lines` | rows of `sales`, and of `sale_items` as a function from item to line (one line is one item, `qty` is 1) |
| `items`, `trail` | status and location of `items`, and of each item's last `item_audit_logs` row |
| `takenBack` | how many `returned` rows of `item_audit_logs` a status change wrote for each item (those of a refund name its receipt) |
| `outOfStock` | `products.is_out_of_stock` |
| `seq`, `day` | `receipt_sequences`, and the UTC date |
| `pending` | requests of `open` and `createDraft` between their read and their insert |

Every handler that writes is one action, except two. `ShiftsService.open` is
`OpenShiftCheck` then `OpenShiftInsert` or `OpenShiftRefused` (the unique index),
and `SalesService.createDraft` is `CreateDraftRead` then `CreateDraftInsert`: these
run in no transaction, so anything may happen in between.

*Why one action for the others.* They run in one transaction at READ COMMITTED
and lock the rows they decide on with `SELECT ... FOR UPDATE` first: the receipt
(`lockDraft`, `refund`), the shift (`lockShift`, `close`), the item rows. Two such
handlers on one receipt, one shift or one item therefore take effect one after
the other, and a check that throws rolls everything back: a refused request is a
disabled action. Handlers on different rows commute. A draft insert takes a key-share
lock on its shift row through the foreign key, waits for a `close` in progress
and then succeeds, which is why the insert does not look at the shift's status.
`TillLocks` looks below this grain: the one place where a handler decides on rows
it has not locked, the list of drafts that `close` deletes, is safe (`PaidStays`).

*What is abstracted.* `Reach[u]` is the set of locations `isAccessible` accepts;
`Locations` models the tree behind it. Which free units `addItem` takes for a product
("oldest first") is left open. Customers, notes, timestamps and the payload of
audit rows are left out. Row ids, request slots and days are finite in a run:
`Shifts`, `Sales`, `Items`, `Requests`, `LastDay`. Items that arrive with
`POST /products` exist in `Init` (with no audit entry, as in the code); all others
arrive through `ReceiveBatch`. Numeric fields sent as JSON `null` are not modelled.
Prices are already in kopecks. `Targets` is the set of statuses that
staff ask for with `PATCH /items/:id/status`, a bound of the runs; which items may go
there is `CanChange`, as in `applyStatusChange`, from `sold` too.

### TillLocks

A transaction is the sequence of its blocking steps, `Steps`: the rows it locks,
in the order of its statements; a `query` of `LocationsService` on a second
connection; the `read` its outcome depends on. `step`, `asks`, `held`, `conns` are where
it is, the row it waits for, its rows and its connections; a statement on several
rows takes them one by one in any order. `InCircle` is PostgreSQL's deadlock check,
`Abort` its victim. Bounds: one transaction per request, `Mixes` of jobs, `PoolSize`.

### Stockroom, Locations, Staff

One style: a handler that reads first and writes later is a `...Check` action that
puts what it read into `pending` (`editing` in `Staff`), and a `...Commit` action that writes it, or fails
on a foreign key or unique index (`WriteFails`); a `save()` writes the whole row it
read, and inserts it again if it was removed meanwhile. The history variable
`overlapped` becomes true when a request commits after another has committed since
its reads. Properties that only hold for requests that do not overlap say so, most of
them by a name that ends in `UnlessOverlap`; they speak of all histories without such
a write, so that every order of whole requests is covered.

| variable | code |
|---|---|
| `Locations`: `parent`, `place`, `goods` | `locations.parent_id`, `users.location_id`, locations named by items, shifts, receipts or stock checks |
| `Staff`: `account`, `worked` | rows of `users`; users named by shifts, receipts or stock checks |
| `Stockroom`: `supplier`, `product`, `items` | rows of `suppliers`, `products` (article, out-of-stock flag), `items` (status, batch supplier) |
| `Stockroom`: `sales`, `drawer`, `skuSeq` | receipts with their lines and totals, what the open shift has taken, the article sequence |

In `Locations`, `findSubtreeIds` is `Subtree(l)`, the set of answers it can give: one,
the locations `Below` it, or none. The query is a recursive `UNION ALL` and never ends once it
comes to a location that is below itself (`QueryEnds`); the request that asked then
gets no further. `Accessible` is the upward walk of `isAccessible`, which does end. In `Stockroom` the statements of the transaction that ends a removal
are one action; the till has one action per transaction and every unit costs one
kopeck. Bounds: ids and requests, `LastSku`. Names, types of locations, phones, notes are left out.

### Sessions

Each action is one Redis command that changes something with the reads just
before it; a handler is a chain of them through `pending`, and may end at any of them
(a lost connection, a stopped process). `pair` holds every token pair signed, `live`,
`index`, `revokedAt` and `ticket` the keys `auth:refresh:*`, `auth:refresh-user:*`,
`auth:revoke:*`, `auth:2fa:*` and `auth:reset:*`; `Accepted` is `JwtAuthGuard`, with Redis
answering or not. The clock has `PerSecond` ticks a second, since tokens carry whole
seconds and revocations milliseconds. History: `blockedAt` and the `late` marks
(requests that had checked the account before it was blocked), `orphans` (pairs listed
between the read and the delete of a sweep), `forked` (a token used that another
request had revoked since it was verified). Bounds: `Requests` are used up, `Jtis`,
`Tickets`, `LastTick`. Attempt limits and cryptography are left out: whether a
password or code is right is an input.

### Catalogue and Analytics

`Catalogue` holds rows of `products` and `items`; every report is an operator over
them, named as in the code (`Listed`, `AvailableQty`, `StatusList`, `StockRows`, `Buckets`,
`Hits` ...). Around it runs the search: `ReadGeneration`, `LookHit` or `LookMiss`, `Query`,
`Store`, and on the side of edits `Update` and then `Bump` or `BumpFails`. `version`
counts edits; an answer is the version it was computed from. The limits of a search are constants:
`SkuLimit` is the `LIMIT 5` of the article query, `MaxLimit` the largest limit asked for,
`Found` and `TopScore` how many products match and how well. History: `settled` is
the latest edit the cache was told of, `crossed` says that Redis was lost under a
search. An edit that does not reach the search, such as renaming a supplier, is not a
step of this protocol: the answers found by the old name stay for their 20 seconds.

`Analytics` follows a request through `cached()`, `ensureViewsFresh` and the report's
queries; `version` counts payments and refunds, `view` what each materialized view
reflects, `mark` and `lock` the two Redis keys counted down in ticks of 30 seconds,
`cache` the answers by key. A key is the report in clear and the hash of its `Payload`;
`Hash` is a constant, any function of payloads, because the 32 bits of `hashString` can
be the same for two of them. A refresh takes its snapshot when it begins and shows when
it ends. Faults: a statement fails (tried again the other way), Redis does not answer, the process
stops, Redis restarts empty. History: `since` is what the mark in force promises,
`outlived` says that a lock ran out under a refresh, `faulty` that the last step was a
fault; in a request, `from` is the version when it took the lock, and `least` what its next
query may not fall below. Bounds: `MaxChanges`, `Requests`,
`Questions`, the three durations in ticks.

## 3. What the runs check

| run | instance | shows |
|---|---|---|
| `till_races` | a cashier and an administrator, 2 shifts, 2 receipts, 2 units of one product, 2 requests in flight; items may be asked into repair and into stock | type, drawers, one open shift, items on one draft, the account of sold items, refunds, audit trail, finality of a closed shift, refinement of the ledger |
| `till_receipts` | 2 locations with one printed prefix, 3 staff, 3 receipts, 2 days | numbers are unique and gapless |
| `till_pricing` | 1 receipt, up to 2 lines, prices 0, 1 and 3, amount and percent discounts and two promo codes at both levels | totals never stale |
| `locks` | every 3 of 11 kinds of transaction on 2 receipts, 2 shifts, 3 items; 2 connections | which deadlocks can happen, a receipt paid under `close` stays, everyone is answered unless the pool runs dry |
| `stockroom` | 1 supplier, 2 products with a unit each, 1 receipt, 2 requests | receipts, held goods, the flag and the drawer are spoilt only by overlap |
| `locations` | 3 locations, 1 member of staff, 2 requests | references hold always; tree and removals unless requests overlap; the two walks of the tree agree where the query ends, and it ends unless the user's place is above itself |
| `staff` | 3 accounts, 2 addresses, 2 requests | an administrator is left, rights change by name, unless requests overlap |
| `sessions` | 1 user, 3 token pairs, 1 ticket, 3 requests, 2 ticks a second | what revocation, blocking and rotation guarantee, and which overlap escapes them |
| `catalogue` | 2 products, 3 units, 2 locations, 2 searches, 1 edit at a time, 2 changes | the search cache is current; six counts agree; lists match cards; the report adds up; the limits of a search lose articles only, beyond the article limit |
| `analytics` | 3 staff, 5 questions, 2 requests, 1 payment | the mark and lock of the views, scopes of answers, the parts of a dashboard, and that the views catch up |

*Why the bounds suffice.* Each race of the till is between two requests on at
most two receipts, two items and two shifts: two of each is where a double sale,
a double shift or a draft on a closing shift first happens, and two slots let both
requests have read before either writes. A third receipt is needed for
numbers only (two at one location and one at the other, on the same day or on two
days), hence `till_receipts` with one item, sold, refunded and sold again, and no
discounts. Discounts are orthogonal to interleavings, hence `till_pricing` with one
user; there the promo codes are scaled down (70 percent and 1 kopeck) so that on
prices of 0, 1 and 3 kopecks both kinds reach, meet and exceed what they apply to, and
percentages round up and down.

`locks` has three transactions because a circle the database does not see takes two
(one that waits for a row, one that holds it and waits for a connection, with two
connections), and a third shows who else is drawn in. Three locations make the
smallest tree with a grandchild, and a cycle over two of them beside a third that is
above both; with three accounts two administrators can remove each other while a third
is promoted. `stockroom` has two units so that a removal takes one of two lines off a
draft. Three token pairs and requests let a refresh, another refresh of the same token
and a sweep meet, and the next sweep come too late for what escaped. In `catalogue`
two searches and two edits are what it takes to store an old answer under a new
generation; there the article limit is 1, up to 3 products match by each of the three kinds of
hit and up to 3 are asked for, so that the limit on articles cuts, the caller's limit cuts, and
both do. In `analytics` a mark lasts two ticks, a lock and an answer one, so
that each runs out before, during and after a refresh; of its five questions one is a
dashboard, one is refused, and three are a report that needs no view and differ in the
locations they cover: a store manager's own and the depot share a hash, and all locations
do not.

Symmetry is used over ids that the specification never distinguishes, and only
in runs whose properties are invariants or properties of single steps; the runs with liveness
properties, `locks` and `analytics`, have none. The runs set `CHECK_DEADLOCK FALSE` because row
ids, requests and bounded counters are finite: once they are used up the system
stops; in `locks` the system stops when everything is answered, and that it stops for no
other reason is a property (`AnsweredUnlessStarved`).

*Fairness.* Requests come from people and no code retries one, so the
specifications of the till, stockroom, locations, staff, sessions and search assume none and
claim safety only. `TillLocks` assumes, for each request, that it goes on as long as it can
(`WF_vars(Runs(r))`: Node's event loop and PostgreSQL get to everybody, the pool hands
free connections on in turn) and that PostgreSQL's deadlock check runs for those who
stay in a circle (`WF_vars(Abort(r))`, `deadlock_timeout`). `Analytics` assumes that
time goes on and that a request is served; nobody has to ask, pay or
fail. That reports are asked for and that faults stop are hypotheses of `ViewsCatchUp`,
stated in it, not fairness. `faulty` tells a fault from a step that changes the state in the same way:
when only mark and lock run out, as with time, it is not the loss of Redis.

Every property is paired in `PROJECT.json` with a mutant: a plausible
mistake in the code (a missing index, a status not looked at, a total not
recomputed, a lock taken without `NX` ...), as a definition beside the one it
replaces, marked `mutant`. The property fails under it.

### Where the code breaks what it says

Two runs expect a violation; each checks one sentence of the repository.

| run | sentence | what the code does |
|---|---|---|
| `stranded_draft` | closing a shift discards its unpaid drafts (`shifts.controller.ts:55`) | a `createDraft` that read the shift before `close` inserts its draft after it; the draft stays, unpayable, and holds its items until someone cancels it |
| `removed_paid` | "Cannot delete a product that has sales" (`products.service.ts:376`) | a draft that is paid between the reads and the deletes of `remove` is deleted as a receipt: the drawer keeps its amount, the sold item and its product are gone |

Sentences of the documentation that the code contradicts without any race, seen
while modelling: `FRONTEND.md:125` and `:343` say a shift with a draft cannot be
closed (`close` deletes the drafts); `sales.controller.ts:138` and `:81` take the
out-of-stock mark for "nothing is left" (batches, moves and status changes bring units
back without clearing it, and `addItem` keeps refusing them); `FRONTEND.md:38-39` sells an item
by paying its receipt and returns it by refunding that (`PATCH /items/:id/status` takes a sold
item to `in_stock`, too; its receipt stays paid, `refund` refuses it from then on, and the item
can be sold again: `SoldAccounted` counts these cases); `sales.controller.ts:81` says units at the shift's location are added (units
of any location are).

### What the histories of the other runs record

These races are real in the code. The properties above say that nothing else goes wrong,
and the history variables mark where these begin:

* two moves of locations that overlap can make a cycle; from then on
  `findSubtreeIds` does not end for the locations on it or above it (`AcyclicUnlessOverlap`),
  so that whoever works there gets no list of locations, while the check on a location
  they act in still answers (`ListedIsAccessible`);
* an item that staff took back by hand is on a paid receipt and for sale
  (`SoldAccounted` counts it), and that receipt cannot be refunded (`RefundPossible`);
* an assignment, move or creation during a removal is undone by the foreign keys'
  `SET NULL` (`RemovalDetachesNothing`);
* two demotions that overlap leave no administrator (`SomeAdminUnlessOverlap`); a
  profile edit writes back the role or status it read (`RightsChangeByNameUnlessOverlap`);
  a `save()` brings back a row removed meanwhile;
* an edit of a product writes back the out-of-stock flag it read (`SoldOutFlagged`);
* goods that arrive during a supplier's removal are deleted (`HeldGoodsKeepSupplier`);
* one refresh token used twice at once gives two sessions (`OneSuccessorUnlessFork`);
  a pair listed between the read and the delete of a sweep survives it, and all later
  ones, since the list has lost it (`SignedOutUnlessOverlap`);
* a connection pool whose other connections all wait for rows of a transaction that
  asks `LocationsService` runs dry for good (`AnsweredUnlessStarved`);
* a refresh of the views that outlives its lock of 30 seconds may put older data over
  newer, and deletes the lock of whoever holds it then (`MarkHonest`,
  `OneRefresherUnlessSlow`);
* a refresh that ends between the queries of a dashboard makes its later parts newer than
  its earlier ones (`PartsAdvance` says that it is never the other way round);
* two questions whose payloads have the same 32-bit hash get one answer, of whoever
  asked first (`AnswersOwnScope`);
* articles are unique as they are spelled and searched without regard to case: of more than
  five that differ in case only, those beyond the fifth are lost, whatever limit is asked for
  (`OnlyArticlesAreLost`);
* with a filter by location the list "out of stock" is always empty and the list of
  old stock looks at all locations, while the card looks at one (`ListsMatchCards`); an unknown
  location filters nothing (`CountsAgree`).

A consequence worth knowing, though no sentence denies it: two locations whose
ids share eight hex digits keep their numbers unique only because the index
refuses the second one's payments, with the same number each time, until the
first number of that day is no longer in its way.

## 4. What is proved

For any sets of ids and requests, and any values of the other constants that
their named assumptions allow:

| module | theorem | statement |
|---|---|---|
| `TillProofs` | `TypeCorrect` | `Spec => []TypeOK` |
| | `DrawerCorrect` | `Spec => []DrawerMatchesReceipts` |
| | `OneOpenCorrect` | `Spec => []OneOpenShiftPerCashier` |
| | `SoldAccountedFor` | `Spec => []SoldAccounted` |
| | `RefundAlwaysPossible` | `Spec => []RefundPossible` |
| | `ClosedStaysFrozen` | `Spec => ClosedShiftFrozen` |
| | `OneDraftCorrect`, `TrailCorrect`, `TotalsCorrect` | `Spec => []ItemOnOneDraft`; `[]TrailIsCurrent`; `[]TotalsCurrent` |
| | `NumbersGapless`, `NumbersUnique` | `Spec => []ReceiptsGapless`; `[]ReceiptNumbersUnique` |
| | `LedgerImplemented` | `Spec => ImplementsLedger`: the till refines `ShiftLedger` |
| | `ReceiptTotalType`, `PercentRounding` | accepted discounts give a total in `Nat`; rounding a percentage moves it by at most half a kopeck |
| `TillLocksProofs` | `AlwaysOrderly`, `ReadsStayTrue` | `[]Orderly`, `[]ReadsHold`: locks are exclusive and kept to the end; what was read under a lock, or listed by `close`, stays true |
| | `PaidReceiptsStay`, `OnlyOrderedDeadlocks` | `Spec => PaidStays`; `[]OrderedDeadlocks` |
| `LocationsProofs` | `LocationsTyped`, `ReferencesAlwaysExist`, `RemovalIsClean` | shape; `ReferencesExist`; `RemovalDetachesNothing` |
| | `TreeStaysATree`, `ListsWhatIsAccessible` | `AcyclicUnlessOverlap`; `ListedIsAccessible` |
| | `QueryFindsAllBelow` | the recursive query comes to the least set that holds a location and all children of its members, and to nothing else |
| `AccountsProofs` | `SessionsTyped`, `HeldTokensAreListed`, `SweepsSignOut` | shape; `HeldAreListed`; `SignedOutUnlessOverlap` |
| | `RevocationsAreExact`, `BlockedUsersRunOut`, `OneSuccessor` | `RevocationExact`; `BlockedRunsOut`; `OneSuccessorUnlessFork` |
| | `StaffTyped`, `EmailsStayUnique`, `PeopleAreKept` | shape of rows and requests; addresses unique; nobody who worked is removed, in every interleaving |
| | `SomeAdminStays`, `RightsChangeByName` | `SomeAdminUnlessOverlap`, `RightsChangeByNameUnlessOverlap` |
| `StockroomProofs` | `StockroomTyped`, `StockReferencesKept`, `ArticlesStayUnique` | shape; references; articles, in every interleaving |
| | `RemovalsKeepReceipts`, `HeldGoodsKeepTheirSupplier`, `SoldOutIsFlagged` | `ReceiptsKeptUnlessOverlap`; `HeldGoodsKeepSupplier`; `SoldOutFlagged` |
| | `DrawerIsExact` | `DrawerCountsLines` |
| `AnalyticsProofs` | `RefreshersTakeTurns`, `FreshMarkIsHonest` | `OneRefresherUnlessSlow`; `MarkHonest` |
| | `AnswersKeepToScope`, `ReportPartsAdvance` | `AnswersOwnScope`, for every hash; `PartsAdvance` |
| `CatalogueProofs` | `CatalogueTypes`, `SearchesCurrent` | shape; `SearchCurrent` |
| | `StockCountsAgree`, `ListsAgreeWithCards`, `StockReportAddsUp` | `CountsAgree`; `ListsMatchCards`; `ReportAddsUp` |
| | `CutsLoseOnlyArticles`, `SearchesLoseOnlyArticles` | what the limits of the queries lose, for any products, scores and limits; `OnlyArticlesAreLost` |

*The arguments.* None of these invariants is inductive as it stands.

* **Till.** A draft inserted for a shift that does not exist would have no
  location, and adding to a drawer needs a payment method. The strengthening is
  `Rooted == TypeOK /\ ForeignKeys`: pending drafts and receipts refer to shifts that
  exist, finished receipts have a method. With it, the drawer
  follows from a frame lemma (`OtherStepsKeepReceipts`: every step but pay and refund
  leaves finished receipts alone) and from what adding or removing one summand does to
  `SumOver` (`SumsProofs`); `SoldAccounted` follows from the same frame lemma and from the
  checks pay and refund make on the items they lock: each step that changes the paid
  receipts of an item changes its status or its count of entries with it. `RefundAlwaysPossible`
  combines both: the drawer holds every receipt that stands, so it holds this one, and an
  item on it that is not sold has been taken back. Drafts, totals,
  trails and numbers follow the same way, from one lemma on what each kind of
  step does to receipts and items. The refinement of `ShiftLedger` maps each action to
  the ledger's steps (`PayRings`, `RefundReverses`, `StageSteps`) or a stutter.
* **Locks.** `Orderly` says that no row is locked twice, that a transaction holds every row
  its plan has locked up to its step, and waits for one row of that step. What was read
  then stays true (`ReadsHold`): whoever would change a receipt needs its row, and whoever
  would pay a draft that `close` listed needs the shift that `close` holds (`RowsHeld`,
  `NotBoth`). For deadlocks each table has a `Level`; the plans of all requests but `close`
  and additions by product lock by rising level (`OrderedPlans`), so a row waited for is not
  below any row held (`LockOrder`). A request waits for one other at most, so following the
  waits out of a circle goes round it (`IsChain`, `GoesRound`); along the way levels never
  fall (`Rises`), so all of them are equal.
* **Staff, Locations, Stockroom.** What must be added is that a request which no
  other one has overtaken still sees what it read: `ReadsHold` (`AccountsProofs`), `CountsHold`
  (`LocationsProofs`), `ReadsHold` with `ReadTrue` (`StockroomProofs`). Then a commit
  decides on the present state, and the checks made at the read apply. The properties without
  "unless" follow from the modelled indexes and foreign keys instead.
* **The drawer's lines.** `DrawerExact` adds that the total of a paid receipt is what was
  charged for its lines, each at the price it was read at; the drawer is then a sum of sums.
* **The tree of locations.** `MovesHold` adds that a move no other has overtaken is
  still one the check allows. The recursive query is then characterised as the least closed
  set (`SubtreeIsLeast`), so a cycle is a statement about sets. Paths of any length need
  induction over naturals, which is done by least elements of sets (`LeastNumber`,
  `CountUp`); recursive functions exist by `Iterates`, and a path without a repetition
  ends because there are finitely many locations (`LevelsFill`).
* **Sessions.** `Rooted` ties pairs and requests to their users and origins;
  `Listing` says where a pair may be that is not yet on its list (its own request is about
  to list it); `Blocking`, through `Outdated`, that whatever could still sign a pair for a
  blocked user runs out in time or is marked `late`; `Succession`, through `Heir`, that
  every origin has one live pair or one request about to issue it.
* **Analytics.** `Typed` says what a request carries in each of its states, and that every
  cached answer is the answer to some permitted question with that key; `Turns` that until a
  lock is outlived the one request that refreshes has it, how far the views are at each of its
  steps, and so that views only advance and still show what was shown or promised.
* **Catalogue.** `Paced` says that no generation of the cache is ahead of the products'
  versions; with it an answer kept under a generation is the answer of that version. Counts,
  lists and the stock report are compared by counting the parts of a partition
  (`SumOfParts`, `SumRegroups`), the ranking by counting the hits ahead of one (`Rank`):
  what a query cuts off has as many hits of that query ahead of it as may be asked for, so
  the last cut would take it too (`CutsMerge`).

*Assumptions.* The named assumptions on constants (finitely many receipts and items,
natural amounts, percentages up to 100, typed roles; marks such as `None` are no ids:
`NoRowIds`, `NoPairIds`, `NoneIsNoId`; for the catalogue finitely many rows, the
tree of categories, the columns of reports and natural limits; for the reports a hash of
every payload; for the locks finitely many requests and
that receipts, items and products refer to rows of the right table), which TLC evaluates
on every run. No theorem assumes anything else of how the endpoints are used.

*Only model-checked.* Liveness under fairness (`AnsweredUnlessStarved`, `ViewsCatchUp`), which
is out of the prover's reach, as are `ENABLED`, structural induction and `RECURSIVE`
operators. Every other property of a passing run is proved.

## 5. Not modelled, and the plan

Partly modelled components, and what is missing of them:

* *inventory*: a stock check takes its row locks in `TillLocks`; the tags scanned (at
  least one) and the difference it reports are left out, it changes no item;
* *permissions*: `Access` has the matrix rows of the till and stockroom; the other rows
  guard listings, or operations only an administrator has;
* *suppliers*: they exist from the start; their names, which only a unique index checks,
  are left out;
* *catalogue search*: text matching, and the Elasticsearch adapter, which
  `CATALOG_SEARCH_DRIVER` selects instead of the default and which answers every search with
  an error so far;
* *schema and seed*: foreign keys, unique indexes and views as far as handlers rely on
  them; not the demo data.

Left out for good: exports and text layout (printed receipts, tables), the request
log (append-only, read by nobody who decides), orders and customers (listings at
this commit), cryptography, attempt limits, health, wiring and configuration. These are
I/O or queries that no state change depends on.

The plan, in this order:

1. That `TillLocks` implements the transactions of `PointOfSale` on one receipt.
2. The full permission matrix against a reference definition, and stock checks.
