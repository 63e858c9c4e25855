----------------------------- MODULE Catalogue -----------------------------
(***************************************************************************)
(* What the catalogue shows (catalog/, the read side of                    *)
(* products/products.service.ts): the stock by several queries, the stock  *)
(* report, and the search with its cache of answers in Redis               *)
(* (postgres-catalog-search.service.ts).                                   *)
(*                                                                         *)
(* The queries of one answer see one state.  Articles, names, weights of   *)
(* a unit and suppliers are constants; what an answer of the search was    *)
(* computed from is the number of indexed changes made before it.  The     *)
(* search cache may drop an answer at any time; its 20 seconds at most are *)
(* not counted.                                                            *)
(***************************************************************************)
EXTENDS Sums

CONSTANTS
  Products, Items, ProductOf,
  Weight, Supplier, Category,    \* of each product
  Old,                           \* items received over STALE_ITEM_DAYS ago
  LowThreshold,                  \* LOW_STOCK_THRESHOLD
  Locations, Below,              \* location -> its subtree
  Unknown,                       \* an id of no location
  Users, Reach,                  \* user -> locations isAccessible grants
  Searches, Edits,               \* slots for searches and edits under way
  SkuLimit, MaxLimit,            \* LIMIT of the article query (5), MAX_SEARCH_LIMIT (50)
  Found, TopScore,               \* bounds on the products one search matches, and how well
  MaxChanges                     \* bound on edits and moves together

ASSUME FiniteCatalogue == IsFiniteSet(Items) /\ IsFiniteSet(Products)
ASSUME Bounds == MaxChanges \in Nat /\ LowThreshold \in Nat
ASSUME SearchLimits == SkuLimit \in Nat /\ MaxLimit \in Nat /\ Found \in Nat /\ TopScore \in Nat
ASSUME Tree == Below \in [Locations -> SUBSET Locations]

VARIABLES
  product,      \* products rows: metal and gold tone
  item,         \* items rows: status and location
  changes,      \* bound: edits and moves so far
  version,      \* edits committed
  edit,         \* edit -> the version it committed, until it has told the search
  generation,   \* catalog:search:generation, 0 when there is none
  answers,      \* cached answers: generation -> version, or Missing
  search,       \* search -> where it is
  settled,      \* history: the latest version the search was told of
  crossed       \* history: Redis lost its data under a search

shelves == <<product, item, changes>>
told    == <<version, edit, settled>>
vars    == <<shelves, told, generation, answers, search, crossed>>

None    == "none"
Missing == [hit |-> FALSE]
Idle    == [at |-> "idle"]

\* items.product_id, products.supplier_id and item_category are not null.
ASSUME Columns ==
  /\ ProductOf \in [Items -> Products] /\ Weight \in [Products -> Nat]
  /\ \A p \in Products : Supplier[p] # None /\ Category[p] # None
ASSUME Filters == None \notin Locations /\ Unknown \notin Locations

Metals    == {"gold", "silver", "diamonds"}
Tones     == {"red", "yellow", "white"}
Available == {"in_stock", "on_display"}
Statuses  == Available \cup {"in_repair", "sold"}

\* assertGoldTone: gold has a tone, nothing else has one.
ToneOptional(metal, tone) == tone # None => metal = "gold"   \* mutant of ToneFits
ToneFits(metal, tone) == (metal = "gold") <=> (tone # None)

Search ==
  {Idle}
  \cup [at : {"look", "query"}, key : 0..MaxChanges, blind : BOOLEAN, since : Nat]
  \cup [at : {"store"}, key : 0..MaxChanges, blind : BOOLEAN, since : Nat, from : Nat]
  \cup [at : {"answered"}, blind : BOOLEAN, since : Nat, from : Nat]

TypeOK ==
  /\ product \in [Products -> [metal : Metals, tone : Tones \cup {None}]]
  /\ \A p \in Products : ToneFits(product[p].metal, product[p].tone)
  /\ item \in [Items -> [status : Statuses, location : Locations]]
  /\ changes \in 0..MaxChanges
  /\ version \in 0..changes
  /\ edit \in [Edits -> 0..version]
  /\ generation \in 0..version
  /\ answers \in [0..MaxChanges -> {Missing} \cup [hit : {TRUE}, version : Nat]]
  /\ search \in [Searches -> Search]
  /\ settled \in 0..version
  /\ crossed \in BOOLEAN

-----------------------------------------------------------------------------
(* The stock as each query counts it *)

In(statuses) == {i \in Items : item[i].status \in statuses}
At(is, ids)  == {i \in is : item[i].location \in ids}
Of(is, p)    == {i \in is : ProductOf[i] = p}

\* Filter by location: an empty subtree filters nothing.
Within(is, f) ==
  IF f = None THEN is
  ELSE IF f = Unknown THEN is
  ELSE At(is, Below[f])

\* findMany: products with something to sell at the location.
Listed(f) ==
  IF f \in {None, Unknown} THEN Products
  ELSE {p \in Products : Of(Within(In(Available), f), p) # {}}

\* attachStock.
OnShelves(p, f) == Cardinality(Of(Within(In({"in_stock"}), f), p))   \* mutant of AvailableQty
AvailableQty(p, f) == Cardinality(Of(Within(In(Available), f), p))

HavingLess(p, f, stock) ==   \* mutant of Having: what is low stops short of the threshold
  LET n == Cardinality(Of(Within(In(Available), f), p)) IN
  CASE stock = "in_stock"     -> n > 0
    [] stock = "out_of_stock" -> n = 0
    [] stock = "low"          -> n > 0 /\ n < LowThreshold

\* findMany by stock status: the same count as a subquery.
Having(p, f, stock) ==
  LET n == Cardinality(Of(Within(In(Available), f), p)) IN
  CASE stock = "in_stock"     -> n > 0
    [] stock = "out_of_stock" -> n = 0
    [] stock = "low"          -> n > 0 /\ n <= LowThreshold

StatusList(f, stock) == {p \in Listed(f) : Having(p, f, stock)}

\* findMany of old stock, where the old unit may be anywhere, and the flag
\* attachStock puts on the card, where it is at the location.
StaleList(f)     == {p \in Listed(f) : Of(In(Available), p) \cap Old # {}}
StaleFlag(p, f)  == Of(Within(In(Available), f), p) \cap Old # {}

\* promotionReason, for a card.
PromotionReason(qty, stale) ==
  (IF qty > 0 /\ qty <= LowThreshold THEN {"low"} ELSE {}) \cup (IF stale THEN {"stale"} ELSE {})

\* stockSummary, of a location alone or of everything: products that have an
\* item at all, and recountStockByProduct.
StockSummary(f) ==
  LET is == IF f = None THEN Items ELSE At(Items, {f})
  IN  [p \in {ProductOf[i] : i \in is} |-> Cardinality(Of(is \cap In(Available), p))]

\* stockByLocation, for those the user may see.
StockByLocation(u, p) ==
  [l \in {item[i].location : i \in Of(Items, p)} \cap Reach[u] |->
     LET here == At(Of(Items, p), {l}) IN
     [inStock      |-> Cardinality(here \cap In({"in_stock"})),
      onDisplay    |-> Cardinality(here \cap In({"on_display"})),
      availableQty |-> Cardinality(here \cap In(Available)),
      total        |-> Cardinality(here)]]

\* inventoryTurnover, its stock.
TurnoverStock(p, ids) == Cardinality(Of(At(In(Available), ids), p))

-----------------------------------------------------------------------------
(* The stock report *)

StatusesForScope(scope) == IF scope = "available" THEN Available ELSE {scope}

\* stockReport: the rows, one per product.
StockRows(scope, f) ==
  LET is == Within(In(StatusesForScope(scope)), f)
  IN  [p \in {ProductOf[i] : i \in is} |->
        [units |-> Cardinality(Of(is, p)),
         grams |-> Cardinality(Of(is, p)) * Weight[p]]]

Grams(rows, ps) == SumOver([p \in ps |-> rows[p].grams])

KeyOf(p, by) ==
  CASE by = "metal"    -> product[p].metal
    [] by = "tone"     -> product[p].tone
    [] by = "supplier" -> Supplier[p]
    [] by = "category" -> Category[p]

\* collect and finalizeBuckets: rows without a key are in no bucket.  The
\* share is in tenths of a percent.
Share(grams, total) == IF total = 0 THEN 0 ELSE (2000 * grams + total) \div (2 * total)

Buckets(rows, ps, by, total) ==
  [k \in {KeyOf(p, by) : p \in ps} \ {None} |->
     LET mine == {p \in ps : KeyOf(p, by) = k} IN
     [grams |-> Grams(rows, mine), skuCount |-> Cardinality(mine),
      share |-> Share(Grams(rows, mine), total)]]

ToneShareOfAll(rows) ==   \* mutant of ByGoldTone
  LET gold == {p \in DOMAIN rows : product[p].metal = "gold"}
  IN  Buckets(rows, gold, "tone", Grams(rows, DOMAIN rows))

\* assembleStockReport: tones share the gold, not the whole.
ByGoldTone(rows) ==
  LET gold == {p \in DOMAIN rows : product[p].metal = "gold"}
  IN  Buckets(rows, gold, "tone", Grams(rows, gold))

By(rows, by) == Buckets(rows, DOMAIN rows, by, Grams(rows, DOMAIN rows))

-----------------------------------------------------------------------------
(* Ranking of search hits: the rows of the three queries, each cut to the  *)
(* limit, are merged, a product keeps its better match, and the result is  *)
(* cut again.  A hit is <<priority, score>>.                               *)

Priority == [sku |-> 0, name |-> 1, supplier |-> 2]
Groups   == DOMAIN Priority

\* Ids break ties, in whatever order the database and sort() leave them.
Before(h, g) ==
  \/ h.priority < g.priority
  \/ h.priority = g.priority /\ h.score > g.score
  \/ h.priority = g.priority /\ h.score = g.score /\ h.id < g.id

First(n, hits) == {h \in hits : Cardinality({g \in hits : Before(g, h)}) < n}

\* The rows of one query.
RowsOf(match, group) ==
  {[id |-> p, priority |-> Priority[group], score |-> match[p][group]] :
     p \in {p \in DOMAIN match : match[p][group] > 0}}

\* mutant of CutRows: the limit shared out among the queries.
CutToHalf(match, group, n) == First((n + 1) \div 2, RowsOf(match, group))

\* LIMIT: five articles, whatever the caller asks for.  Articles are unique as
\* they are spelled, and the query compares them without case.
CutRows(match, group, n) == First(IF group = "sku" THEN SkuLimit ELSE n, RowsOf(match, group))

\* mergeSearchHits and betterHit.
Merged(hits) == {h \in hits : \A g \in hits : g.id = h.id => ~Before(g, h)}

Hits(match, n)    == First(n, Merged(UNION {CutRows(match, g, n) : g \in Groups}))
AllHits(match, n) == First(n, Merged(UNION {RowsOf(match, g) : g \in Groups}))

-----------------------------------------------------------------------------
Init ==
  /\ product \in [Products -> {[metal |-> "gold", tone |-> "red"]}]
  /\ \E l \in Locations : item = [i \in Items |-> [status |-> "in_stock", location |-> l]]
  /\ changes = 0
  /\ version = 0
  /\ edit = [e \in Edits |-> 0]
  /\ generation = 0
  /\ answers = [g \in 0..MaxChanges |-> Missing]
  /\ search = [s \in Searches |-> Idle]
  /\ settled = 0
  /\ crossed = FALSE

\* Sales, moves and repairs change items; the search is not told.
Handle(i, status, l) ==
  /\ changes < MaxChanges
  /\ [status |-> status, location |-> l] # item[i]
  /\ item' = [item EXCEPT ![i] = [status |-> status, location |-> l]]
  /\ changes' = changes + 1
  /\ UNCHANGED <<product, told, generation, answers, search, crossed>>

\* update, up to the end of its save; what the request leaves out is kept.
Update(e, p, metal, tone) ==
  /\ changes < MaxChanges
  /\ edit[e] = 0
  /\ ToneFits(metal, tone)
  /\ product' = [product EXCEPT ![p] = [metal |-> metal, tone |-> tone]]
  /\ changes' = changes + 1
  /\ version' = version + 1
  /\ edit' = [edit EXCEPT ![e] = version + 1]
  /\ UNCHANGED <<item, settled, generation, answers, search, crossed>>

\* bumpCache, after the write.
Bump(e) ==
  /\ edit[e] # 0
  /\ generation' = generation + 1
  /\ settled' = IF edit[e] > settled THEN edit[e] ELSE settled
  /\ edit' = [edit EXCEPT ![e] = 0]
  /\ UNCHANGED <<shelves, version, answers, search, crossed>>

\* The bump fails and is logged, or the process stops before it.
BumpFails(e) ==
  /\ edit[e] # 0
  /\ edit' = [edit EXCEPT ![e] = 0]
  /\ UNCHANGED <<shelves, version, settled, generation, answers, search, crossed>>

Goes(s, state) ==
  /\ search' = [search EXCEPT ![s] = state]
  /\ UNCHANGED <<shelves, told, generation, crossed>>

\* search: cacheKey, where a failure reads as generation 0.
ReadGeneration(s, blind) ==
  /\ search[s].at \in {"idle", "answered"}
  /\ Goes(s, [at |-> "look", key |-> IF blind THEN 0 ELSE generation,
              blind |-> blind, since |-> settled])
  /\ UNCHANGED answers

Answered(s, v) ==
  [at |-> "answered", blind |-> search[s].blind, since |-> search[s].since, from |-> v]

LookHit(s) ==
  /\ search[s].at = "look"
  /\ answers[search[s].key].hit
  /\ Goes(s, Answered(s, answers[search[s].key].version))
  /\ UNCHANGED answers

\* Nothing is cached, or the cache does not answer.
LookMiss(s) ==
  /\ search[s].at = "look"
  /\ Goes(s, [search[s] EXCEPT !.at = "query"])
  /\ UNCHANGED answers

\* The first of the three queries decides how old the answer may be.
Query(s) ==
  /\ search[s].at = "query"
  /\ Goes(s, [at |-> "store", key |-> search[s].key, blind |-> search[s].blind,
              since |-> search[s].since, from |-> version])
  /\ UNCHANGED answers

\* mutant of KeptUnder: the key is made when the answer is stored.
UnderCurrent(s) == generation
KeptUnder(s)    == search[s].key

Store(s, works) ==
  /\ search[s].at = "store"
  /\ Goes(s, Answered(s, search[s].from))
  /\ answers' = IF works
       THEN [answers EXCEPT ![KeptUnder(s)] = [hit |-> TRUE, version |-> search[s].from]]
       ELSE answers

\* An answer runs out, or is evicted.
Expire(g) ==
  /\ answers[g].hit
  /\ answers' = [answers EXCEPT ![g] = Missing]
  /\ UNCHANGED <<shelves, told, generation, search, crossed>>

\* Redis restarts empty: the generations begin again.
LoseRedis ==
  /\ generation > 0
  /\ generation' = 0
  /\ answers' = [g \in DOMAIN answers |-> Missing]
  /\ crossed' = (crossed \/ \E s \in Searches : search[s].at \in {"look", "query", "store"})
  /\ UNCHANGED <<shelves, told, search>>

Next ==
  \/ \E i \in Items, status \in Statuses, l \in Locations : Handle(i, status, l)
  \/ \E e \in Edits :
       \/ \E p \in Products, m \in Metals, t \in Tones \cup {None} : Update(e, p, m, t)
       \/ Bump(e) \/ BumpFails(e)
  \/ \E s \in Searches :
       \/ \E b \in BOOLEAN : ReadGeneration(s, b) \/ Store(s, b)
       \/ LookHit(s) \/ LookMiss(s) \/ Query(s)
  \/ \E g \in DOMAIN answers : Expire(g)
  \/ LoseRedis

Spec == Init /\ [][Next]_vars

-----------------------------------------------------------------------------
(* Properties *)

\* The search does not touch the shelves: what is true of them whenever
\* nobody searches is always true.
Quiet == /\ \A s \in Searches : search[s] = Idle
         /\ \A e \in Edits : edit[e] = 0

\* A search that begins after an edit has told the cache never answers with
\* hits from before that edit, whatever other searches store meanwhile.  Not
\* so when the generation cannot be read, or Redis starts again from
\* generation 0 under a search that will store an older answer.
SearchCurrent ==
  \A s \in Searches :
    search[s].at = "answered" /\ ~search[s].blind /\ ~crossed
    => search[s].from >= search[s].since

\* Six queries count the units one can sell, each in SQL or code of its own:
\* the stock report, the list of products, the card, the card by location,
\* the turnover report and the stock summary.  They agree for every filter by
\* location; only the summary leaves out what is below the location.
Counted(f, p) ==
  LET rows == StockRows("available", f) IN IF p \in DOMAIN rows THEN rows[p].units ELSE 0

SummedUp(ls, p) ==
  SumOver([l \in ls |-> LET sum == StockSummary(l) IN IF p \in DOMAIN sum THEN sum[p] ELSE 0])

CountsAgree ==
  Quiet => \A f \in Locations \cup {None, Unknown}, p \in Products :
    LET n   == Counted(f, p)
        ids == IF f \in Locations THEN Below[f] ELSE Locations
    IN  /\ AvailableQty(p, f) = n
        /\ f \in Locations => (p \in Listed(f) <=> n > 0)
        /\ TurnoverStock(p, ids) = n
        /\ SummedUp(ids, p) = n
        /\ \A u \in Users : ids \subseteq Reach[u] =>
             n = SumOver([l \in ids \cap DOMAIN StockByLocation(u, p) |->
                            StockByLocation(u, p)[l].availableQty])

\* The lists by stock status and of promotions hold the products whose cards
\* say so.  With a filter by location the lists come apart from the cards in
\* two ways: none is out of stock there (findMany lists what is in stock at
\* the location), and an old unit elsewhere is enough for the old stock.
ListsMatchCards ==
  Quiet => \A f \in Locations \cup {None} : \A p \in Listed(f) :
    LET qty    == AvailableQty(p, f)
        reason == PromotionReason(qty, StaleFlag(p, f))
    IN  /\ p \in StatusList(f, "in_stock") <=> qty > 0
        /\ p \in StatusList(f, "out_of_stock") <=> f = None /\ qty = 0
        /\ p \in StatusList(f, "low") <=> "low" \in reason
        /\ "stale" \in reason => p \in StaleList(f)
        /\ f = None => (p \in StaleList(f) <=> "stale" \in reason)

\* The buckets of the stock report partition it: grams and articles add up
\* to the totals, the tones to the gold, and the shares to 100 percent but
\* for the rounding of each (assembleStockReport, assertGoldTone).
Partition(buckets, grams, articles) ==
  /\ SumOver([k \in DOMAIN buckets |-> buckets[k].grams]) = grams
  /\ SumOver([k \in DOMAIN buckets |-> buckets[k].skuCount]) = articles
  /\ grams > 0 =>
       2 * (SumOver([k \in DOMAIN buckets |-> buckets[k].share]) - 1000)
         \in -Cardinality(DOMAIN buckets)..Cardinality(DOMAIN buckets)

ReportAddsUp ==
  Quiet => \A scope \in {"available", "in_stock", "on_display"}, f \in Locations \cup {None} :
    LET rows == StockRows(scope, f)
        gold == {p \in DOMAIN rows : product[p].metal = "gold"}
    IN  /\ \A by \in {"metal", "supplier", "category"} :
             Partition(By(rows, by), Grams(rows, DOMAIN rows), Cardinality(DOMAIN rows))
        /\ Partition(ByGoldTone(rows), Grams(rows, gold), Cardinality(gold))

\* What cutting each query before the merge costs (search, mergeSearchHits),
\* for every limit and every way products match.  The caller's limit on names
\* and suppliers costs nothing.  LIMIT 5 loses articles beyond the fifth, and
\* nothing else: no name or supplier is lost with them, and nothing at all is
\* when so few articles match or the caller asks for so few hits.
OnlyNamesCut(m, n) ==
  Hits(m, n) =
    First(n, Merged(CutRows(m, "sku", n) \cup RowsOf(m, "name") \cup RowsOf(m, "supplier")))
LostAreArticles(m, n) ==
  AllHits(m, n) \ Hits(m, n) \subseteq RowsOf(m, "sku") \ CutRows(m, "sku", n)
FewLoseNothing(m, n) ==
  n <= SkuLimit \/ Cardinality(RowsOf(m, "sku")) <= SkuLimit => Hits(m, n) = AllHits(m, n)

\* No state matters to it, so it is evaluated before any change.
Matches == [1..Found -> [sku : {0, 1}, name : 0..TopScore, supplier : 0..TopScore]]
OnlyArticlesAreLost ==
  changes = 0 /\ Quiet =>
    \A n \in 1..MaxLimit, m \in Matches :
      OnlyNamesCut(m, n) /\ LostAreArticles(m, n) /\ FewLoseNothing(m, n)
=============================================================================
