--------------------------- MODULE CatalogueProofs ---------------------------
(***************************************************************************)
(* What holds of the catalogue's answers for any stock, any tree of        *)
(* locations and any number of searches and edits under way: the search    *)
(* with its cache, and the queries that count the same units.              *)
(***************************************************************************)
EXTENDS Catalogue, SumsProofs

-----------------------------------------------------------------------------
(* Type correctness *)

\* The strengthening: every edit under way has committed a version of its own,
\* and each bump told the search of one more, so generations never outrun the
\* versions (nor the answers' keys their bound).
Untold == {edit[e] : e \in Edits} \ {0}
Paced ==
  /\ \A e, d \in Edits : edit[e] # 0 /\ e # d => edit[e] # edit[d]
  /\ generation + Cardinality(Untold) <= version

Sound == TypeOK /\ Paced

LEMMA SearchShape ==
  ASSUME NEW q \in Search
  PROVE  /\ q.at \in {"idle", "look", "query", "store", "answered"}
         /\ q.at \in {"look", "query", "store"} =>
              q.key \in 0..MaxChanges /\ q.blind \in BOOLEAN /\ q.since \in Nat
         /\ q.at = "store" => q.from \in Nat
         /\ q.at = "answered" => q.blind \in BOOLEAN /\ q.since \in Nat /\ q.from \in Nat
         /\ q.at \in {"look", "query"} =>
              q \in [at : {"look", "query"}, key : 0..MaxChanges, blind : BOOLEAN, since : Nat]
BY DEF Search, Idle

LEMMA AnswerShape ==
  ASSUME TypeOK, NEW g \in 0..MaxChanges, answers[g].hit
  PROVE  answers[g].version \in Nat
<1>1. answers[g] \in {Missing} \cup [hit : {TRUE}, version : Nat]
  BY DEF TypeOK
<1>2. answers[g] # Missing
  BY DEF Missing
<1>3. QED
  BY <1>1, <1>2

LEMMA UntoldFinite ==
  ASSUME TypeOK
  PROVE  /\ IsFiniteSet(Untold) /\ Cardinality(Untold) \in Nat /\ Untold \subseteq 1..version
         /\ version \in Nat /\ changes \in Nat /\ generation \in Nat
<1>1. version \in Nat /\ changes \in Nat /\ generation \in Nat
  BY Bounds DEF TypeOK
<1>2. Untold \subseteq 1..version
  BY <1>1 DEF Untold, TypeOK
<1>3. IsFiniteSet(Untold) /\ Cardinality(Untold) \in Nat
  <2>1. IsFiniteSet(1..version)
    BY <1>1, FS_Interval
  <2>2. QED
    BY <1>2, <2>1, FS_Subset, FS_CardinalityType
<1>4. QED
  BY <1>1, <1>2, <1>3

LEMMA InitSound == Init => Sound
<1> SUFFICES ASSUME Init PROVE Sound
  OBVIOUS
<1>1. TypeOK
  <2>1. \A p \in Products : product[p] = [metal |-> "gold", tone |-> "red"]
    BY DEF Init
  <2>2. /\ product \in [Products -> [metal : Metals, tone : Tones \cup {None}]]
        /\ \A p \in Products : ToneFits(product[p].metal, product[p].tone)
    BY <2>1 DEF Init, Metals, Tones, ToneFits, None
  <2>3. item \in [Items -> [status : Statuses, location : Locations]]
    BY DEF Init, Statuses, Available
  <2>4. /\ changes = 0 /\ version = 0 /\ generation = 0 /\ settled = 0 /\ crossed = FALSE
        /\ edit = [e \in Edits |-> 0] /\ answers = [g \in 0..MaxChanges |-> Missing]
        /\ search = [q \in Searches |-> Idle] /\ Idle \in Search
    BY DEF Init, Search
  <2>5. /\ changes \in 0..MaxChanges /\ version \in 0..changes /\ generation \in 0..version
        /\ settled \in 0..version /\ edit \in [Edits -> 0..version]
    BY <2>4, Bounds
  <2>6. /\ answers \in [0..MaxChanges -> {Missing} \cup [hit : {TRUE}, version : Nat]]
        /\ search \in [Searches -> Search]
    BY <2>4
  <2>7. crossed \in BOOLEAN
    BY <2>4
  <2>8. QED
    BY <2>2, <2>3, <2>5, <2>6, <2>7 DEF TypeOK
<1>2. Paced
  <2>1. Untold = {}
    BY DEF Init, Untold
  <2>2. QED
    BY <2>1, FS_EmptySet DEF Init, Paced
<1>3. QED
  BY <1>1, <1>2 DEF Sound

\* A step of a search keeps everything but that search and the answers.
LEMMA GoesSound ==
  ASSUME Sound, NEW s \in Searches, NEW state \in Search, Goes(s, state),
         answers' \in [0..MaxChanges -> {Missing} \cup [hit : {TRUE}, version : Nat]]
  PROVE  Sound'
<1>1. /\ search' = [search EXCEPT ![s] = state]
      /\ UNCHANGED <<product, item, changes, version, edit, settled, generation, crossed>>
  BY DEF Goes, shelves, told
<1>2. TypeOK'
  BY <1>1 DEF Sound, TypeOK
<1>3. Paced'
  BY <1>1 DEF Sound, Paced, Untold
<1>4. QED
  BY <1>2, <1>3 DEF Sound

LEMMA SoundNext == Sound /\ [Next]_vars => Sound'
<1> SUFFICES ASSUME Sound, [Next]_vars PROVE Sound'
  OBVIOUS
<1> USE DEF Sound
<1>1. ASSUME NEW i \in Items, NEW status \in Statuses, NEW l \in Locations,
             Handle(i, status, l)
      PROVE  Sound'
  <2>1. /\ changes < MaxChanges /\ changes' = changes + 1
        /\ item' = [item EXCEPT ![i] = [status |-> status, location |-> l]]
        /\ UNCHANGED <<product, version, edit, settled, generation, answers, search, crossed>>
    BY <1>1 DEF Handle, told
  <2>2. item' \in [Items -> [status : Statuses, location : Locations]]
    BY <2>1 DEF TypeOK
  <2>3. changes' \in 0..MaxChanges /\ version' \in 0..changes'
    BY <2>1, Bounds DEF TypeOK
  <2>4. TypeOK'
    BY <2>1, <2>2, <2>3 DEF TypeOK
  <2>5. QED
    BY <2>1, <2>4 DEF Paced, Untold
<1>2. ASSUME NEW e \in Edits, NEW p \in Products, NEW m \in Metals, NEW t \in Tones \cup {None},
             Update(e, p, m, t)
      PROVE  Sound'
  <2>1. /\ changes < MaxChanges /\ changes' = changes + 1 /\ version' = version + 1
        /\ edit[e] = 0 /\ edit' = [edit EXCEPT ![e] = version + 1] /\ ToneFits(m, t)
        /\ product' = [product EXCEPT ![p] = [metal |-> m, tone |-> t]]
        /\ UNCHANGED <<item, settled, generation, answers, search, crossed>>
    BY <1>2 DEF Update
  <2>2. /\ product' \in [Products -> [metal : Metals, tone : Tones \cup {None}]]
        /\ \A x \in Products : ToneFits(product'[x].metal, product'[x].tone)
    BY <2>1 DEF TypeOK
  <2>3. /\ changes' \in 0..MaxChanges /\ version' \in 0..changes'
        /\ generation' \in 0..version' /\ settled' \in 0..version'
        /\ edit' \in [Edits -> 0..version']
    BY <2>1, Bounds DEF TypeOK
  <2>4. TypeOK'
    BY <2>1, <2>2, <2>3 DEF TypeOK
  <2>5. Untold' = Untold \cup {version + 1}
    <3>1. version + 1 # 0
      BY UntoldFinite
    <3>2. QED
      BY <2>1, <3>1 DEF Untold, TypeOK
  <2>6. Cardinality(Untold') <= Cardinality(Untold) + 1
    <3>1. IsFiniteSet(Untold) /\ version + 1 \notin Untold
      BY UntoldFinite
    <3>2. Cardinality(Untold \cup {version + 1}) = Cardinality(Untold) + 1
      BY <3>1, FS_AddElement
    <3>3. QED
      BY <2>5, <3>2, UntoldFinite
  <2>7. Cardinality(Untold') \in Nat
    BY <2>5, UntoldFinite, FS_AddElement, FS_CardinalityType
  <2>8. generation' + Cardinality(Untold') <= version'
    BY <2>1, <2>6, <2>7, UntoldFinite DEF Paced
  <2>9. \A x, y \in Edits : edit'[x] # 0 /\ x # y => edit'[x] # edit'[y]
    <3>1. \A x \in Edits : edit[x] # version + 1
      BY UntoldFinite DEF TypeOK
    <3>2. QED
      BY <2>1, <3>1 DEF Paced, TypeOK
  <2>10. QED
    BY <2>4, <2>8, <2>9 DEF Paced
<1>3. ASSUME NEW e \in Edits, Bump(e) \/ BumpFails(e) PROVE Sound'
  <2>1. /\ edit[e] # 0 /\ edit' = [edit EXCEPT ![e] = 0]
        /\ generation' \in {generation, generation + 1}
        /\ settled' \in {settled, edit[e]}
        /\ UNCHANGED <<product, item, changes, version, answers, search, crossed>>
    BY <1>3 DEF Bump, BumpFails, shelves
  <2>2. Untold' = Untold \ {edit[e]}
    BY <2>1 DEF Untold, Paced, TypeOK
  <2>3. edit[e] \in Untold
    BY <2>1 DEF Untold
  <2>4. Cardinality(Untold') = Cardinality(Untold) - 1 /\ Cardinality(Untold') \in Nat
    BY <2>2, <2>3, UntoldFinite, FS_RemoveElement, FS_CardinalityType
  <2>5. generation' + Cardinality(Untold') <= version' /\ generation' \in 0..version'
    BY <2>1, <2>4, UntoldFinite DEF Paced
  <2>6. TypeOK'
    <3>1. 0 \in 0..version
      BY UntoldFinite
    <3>2. edit' \in [Edits -> 0..version] /\ settled' \in 0..version
      BY <2>1, <3>1 DEF TypeOK
    <3>3. QED
      BY <2>1, <2>5, <3>2 DEF TypeOK
  <2>7. \A x, y \in Edits : edit'[x] # 0 /\ x # y => edit'[x] # edit'[y]
    BY <2>1 DEF Paced, TypeOK
  <2>8. QED
    BY <2>5, <2>6, <2>7 DEF Paced
<1>4. ASSUME NEW s \in Searches, NEW b \in BOOLEAN, ReadGeneration(s, b) PROVE Sound'
  <2> DEFINE state == [at |-> "look", key |-> IF b THEN 0 ELSE generation, blind |-> b,
                       since |-> settled]
  <2>1. state \in Search
    <3>1. generation \in 0..MaxChanges /\ settled \in Nat /\ 0 \in 0..MaxChanges
      BY Bounds DEF TypeOK
    <3>2. QED
      BY <3>1 DEF Search
  <2>2. Goes(s, state) /\ answers' = answers
    BY <1>4 DEF ReadGeneration
  <2> HIDE DEF state
  <2>3. QED
    BY <2>1, <2>2, GoesSound DEF TypeOK
<1>5. ASSUME NEW s \in Searches, LookHit(s) PROVE Sound'
  <2>1. search[s].at = "look" /\ search[s] \in Search /\ answers[search[s].key].hit
    BY <1>5 DEF LookHit, TypeOK
  <2>2. answers[search[s].key].version \in Nat
    BY <2>1, SearchShape, AnswerShape
  <2>3. Answered(s, answers[search[s].key].version) \in Search
    BY <2>1, <2>2, SearchShape DEF Answered, Search
  <2>4. QED
    BY <1>5, <2>3, GoesSound DEF LookHit, TypeOK
<1>6. ASSUME NEW s \in Searches, LookMiss(s) PROVE Sound'
  <2>1. search[s].at = "look" /\ search[s] \in Search
    BY <1>6 DEF LookMiss, TypeOK
  <2>2. [search[s] EXCEPT !.at = "query"] \in Search
    BY <2>1, SearchShape DEF Search
  <2>3. QED
    BY <1>6, <2>2, GoesSound DEF LookMiss, TypeOK
<1>7. ASSUME NEW s \in Searches, Query(s) PROVE Sound'
  <2>1. search[s].at = "query" /\ search[s] \in Search /\ version \in Nat
    BY <1>7, UntoldFinite DEF Query, TypeOK
  <2>2. [at |-> "store", key |-> search[s].key, blind |-> search[s].blind,
         since |-> search[s].since, from |-> version] \in Search
    BY <2>1, SearchShape DEF Search
  <2>3. QED
    BY <1>7, <2>2, GoesSound DEF Query, TypeOK
<1>8. ASSUME NEW s \in Searches, NEW b \in BOOLEAN, Store(s, b) PROVE Sound'
  <2>1. search[s].at = "store" /\ search[s] \in Search
    BY <1>8 DEF Store, TypeOK
  <2>2. Answered(s, search[s].from) \in Search /\ search[s].from \in Nat
    BY <2>1, SearchShape DEF Answered, Search
  <2>3. answers' \in [0..MaxChanges -> {Missing} \cup [hit : {TRUE}, version : Nat]]
    BY <1>8, <2>2 DEF Store, TypeOK
  <2>4. QED
    BY <1>8, <2>2, <2>3, GoesSound DEF Store
<1>9. ASSUME NEW g \in DOMAIN answers, Expire(g) PROVE Sound'
  <2>1. /\ answers' = [answers EXCEPT ![g] = Missing]
        /\ UNCHANGED <<product, item, changes, version, edit, settled, generation, search,
                       crossed>>
    BY <1>9 DEF Expire, shelves, told
  <2>2. QED
    BY <2>1 DEF TypeOK, Paced, Untold
<1>10. ASSUME LoseRedis PROVE Sound'
  <2>1. /\ generation' = 0 /\ answers' = [g \in DOMAIN answers |-> Missing]
        /\ UNCHANGED <<product, item, changes, version, edit, settled, search>>
    BY <1>10 DEF LoseRedis, shelves, told
  <2>2. crossed' \in BOOLEAN
    BY <1>10 DEF LoseRedis, TypeOK
  <2>3. TypeOK'
    BY <2>1, <2>2, UntoldFinite DEF TypeOK
  <2>4. QED
    BY <2>1, <2>3, UntoldFinite DEF Paced, Untold
<1>11. CASE UNCHANGED vars
  BY <1>11 DEF vars, shelves, told, TypeOK, Paced, Untold
<1>12. QED
  BY <1>1, <1>2, <1>3, <1>4, <1>5, <1>6, <1>7, <1>8, <1>9, <1>10, <1>11 DEF Next

LEMMA SoundAlways == Spec => []Sound
BY InitSound, SoundNext, PTL DEF Spec

\* The rows, answers and searches keep their types; gold and nothing else has
\* a tone (assertGoldTone).
THEOREM CatalogueTypes == Spec => []TypeOK
BY SoundAlways, PTL DEF Sound

-----------------------------------------------------------------------------
(* The search and its cache *)

Underway(s) == search[s].at \in {"look", "query", "store"}

\* The strengthening.  Keys and answers are of generations that have been.
\* What is stored, or will be, under the present generation is as recent as
\* what the search has been told of; what is stored, or will be, under the key
\* of a search that read it is as recent as that search must answer.
CacheCurrent ==
  /\ \A s \in Searches : Underway(s) =>
       search[s].key <= generation /\ search[s].since <= settled
  /\ \A g \in 0..MaxChanges : answers[g].hit =>
       g <= generation /\ (g = generation => answers[g].version >= settled)
  /\ \A s \in Searches : search[s].at = "store" /\ search[s].key = generation =>
       search[s].from >= settled
  /\ \A s \in Searches : Underway(s) /\ ~search[s].blind =>
       /\ answers[search[s].key].hit => answers[search[s].key].version >= search[s].since
       /\ \A t \in Searches : search[t].at = "store" /\ search[t].key = search[s].key =>
            search[t].from >= search[s].since
  /\ \A s \in Searches : search[s].at = "answered" /\ ~search[s].blind =>
       search[s].from >= search[s].since

CurrentUnlessCrossed == ~crossed => CacheCurrent

\* The inductive step: an answer stored late never passes for a recent one.
LEMMA CacheNext == Sound /\ CurrentUnlessCrossed /\ [Next]_vars => CurrentUnlessCrossed'
<1> SUFFICES ASSUME Sound, CurrentUnlessCrossed, [Next]_vars, ~crossed' PROVE CacheCurrent'
  BY DEF CurrentUnlessCrossed
<1> USE DEF Sound
<1>1. ~crossed /\ CacheCurrent
  <2>1. ~crossed
    BY DEF Next, vars, Handle, Update, Bump, BumpFails, ReadGeneration, LookHit, LookMiss,
           Query, Store, Expire, LoseRedis, Goes
  <2>2. QED
    BY <2>1 DEF CurrentUnlessCrossed
<1>2. /\ generation \in Nat /\ settled \in Nat /\ version \in Nat /\ settled <= version
      /\ generation \in 0..MaxChanges
  BY Bounds, UntoldFinite DEF TypeOK
<1>3. \A s \in Searches : search[s] \in Search
  BY DEF TypeOK
<1>4. ASSUME UNCHANGED <<generation, answers, search, settled>> PROVE CacheCurrent'
  BY <1>1, <1>4 DEF CacheCurrent, Underway
<1>5. ASSUME NEW e \in Edits, Bump(e) PROVE CacheCurrent'
  <2>1. /\ generation' = generation + 1 /\ settled' >= settled
        /\ UNCHANGED <<answers, search>>
    BY <1>2, <1>5 DEF Bump, TypeOK
  <2>2. \A s \in Searches : Underway(s) => search[s].key \in Nat /\ search[s].since \in Nat
    BY <1>3, SearchShape DEF Underway
  <2>3. settled' \in Nat
    BY <1>2, <1>5 DEF Bump, TypeOK
  <2>4. QED
    BY <1>1, <1>2, <2>1, <2>2, <2>3 DEF CacheCurrent, Underway
<1>6. ASSUME NEW s \in Searches, NEW b \in BOOLEAN, ReadGeneration(s, b)
      PROVE  CacheCurrent'
  <2>1. /\ search' = [search EXCEPT ![s] =
             [at |-> "look", key |-> IF b THEN 0 ELSE generation, blind |-> b,
              since |-> settled]]
        /\ UNCHANGED <<generation, answers, settled>>
    BY <1>6 DEF ReadGeneration, Goes, told
  <2>2. /\ search'[s].at = "look" /\ search'[s].since = settled
        /\ search'[s].key = IF b THEN 0 ELSE generation
        /\ search'[s].blind = b
        /\ \A t \in Searches : t # s => search'[t] = search[t]
    BY <2>1 DEF TypeOK
  <2>3. search'[s].key <= generation /\ search'[s].key \in 0..MaxChanges
    <3>1. search'[s].key \in {0, generation}
      BY <2>2, Zenon
    <3>2. QED
      BY <1>2, <3>1, Bounds
  <2>4. ~search'[s].blind => search'[s].key = generation
    BY <2>2
  <2>5. QED
    BY <1>1, <1>2, <1>3, <2>1, <2>2, <2>3, <2>4 DEF CacheCurrent, Underway
<1>7. ASSUME NEW s \in Searches, LookHit(s) PROVE CacheCurrent'
  <2> DEFINE v == answers[search[s].key].version
  <2>1. /\ search[s].at = "look" /\ answers[search[s].key].hit
        /\ search' = [search EXCEPT ![s] = Answered(s, v)]
        /\ UNCHANGED <<generation, answers, settled>>
    BY <1>7 DEF LookHit, Goes, told
  <2>2. /\ search'[s].at = "answered" /\ search'[s].since = search[s].since
        /\ search'[s].blind = search[s].blind /\ search'[s].from = v
        /\ \A t \in Searches : t # s => search'[t] = search[t]
    BY <2>1 DEF Answered, TypeOK
  <2>3. ~search[s].blind => v >= search[s].since
    BY <1>1, <2>1 DEF CacheCurrent, Underway
  <2> HIDE DEF v
  <2>4. QED
    BY <1>1, <2>1, <2>2, <2>3 DEF CacheCurrent, Underway
<1>8. ASSUME NEW s \in Searches, LookMiss(s) PROVE CacheCurrent'
  <2>1. /\ search[s].at = "look" /\ search[s] \in Search
        /\ search' = [search EXCEPT ![s] = [search[s] EXCEPT !.at = "query"]]
        /\ UNCHANGED <<generation, answers, settled>>
    BY <1>3, <1>8 DEF LookMiss, Goes, told
  <2>2. /\ search'[s].at = "query" /\ search'[s].since = search[s].since
        /\ search'[s].blind = search[s].blind /\ search'[s].key = search[s].key
        /\ \A t \in Searches : t # s => search'[t] = search[t]
    BY <2>1, SearchShape DEF TypeOK
  <2>3. QED
    BY <1>1, <2>1, <2>2 DEF CacheCurrent, Underway
<1>9. ASSUME NEW s \in Searches, Query(s) PROVE CacheCurrent'
  <2>1. /\ search[s].at = "query"
        /\ search' = [search EXCEPT ![s] =
             [at |-> "store", key |-> search[s].key, blind |-> search[s].blind,
              since |-> search[s].since, from |-> version]]
        /\ UNCHANGED <<generation, answers, settled>>
    BY <1>9 DEF Query, Goes, told
  <2>2. /\ search'[s].at = "store" /\ search'[s].since = search[s].since
        /\ search'[s].blind = search[s].blind /\ search'[s].key = search[s].key
        /\ search'[s].from = version
        /\ \A t \in Searches : t # s => search'[t] = search[t]
    BY <2>1 DEF TypeOK
  <2>3. \A t \in Searches : Underway(t) => search[t].since \in Nat /\ search[t].since <= version
    BY <1>1, <1>2, <1>3, SearchShape DEF CacheCurrent, Underway
  <2>4. QED
    BY <1>1, <1>2, <2>1, <2>2, <2>3 DEF CacheCurrent, Underway
<1>10. ASSUME NEW s \in Searches, NEW b \in BOOLEAN, Store(s, b) PROVE CacheCurrent'
  <2> DEFINE k == search[s].key
             v == search[s].from
  <2>1. /\ search[s].at = "store"
        /\ search' = [search EXCEPT ![s] = Answered(s, v)]
        /\ answers' = IF b THEN [answers EXCEPT ![k] = [hit |-> TRUE, version |-> v]]
                      ELSE answers
        /\ UNCHANGED <<generation, settled>>
    BY <1>10 DEF Store, Goes, told, KeptUnder
  <2>2. /\ search'[s].at = "answered" /\ search'[s].since = search[s].since
        /\ search'[s].blind = search[s].blind /\ search'[s].from = v
        /\ \A t \in Searches : t # s => search'[t] = search[t]
    BY <2>1 DEF Answered, TypeOK
  <2>3. k \in 0..MaxChanges /\ k <= generation
    BY <1>1, <1>3, <2>1, SearchShape DEF CacheCurrent, Underway
  <2>4. \A g \in 0..MaxChanges : \/ answers'[g] = answers[g]
                                  \/ (g = k /\ answers'[g].hit /\ answers'[g].version = v)
    BY <2>1 DEF TypeOK
  <2>5. k = generation => v >= settled
    BY <1>1, <2>1 DEF CacheCurrent
  <2>6. \A t \in Searches : Underway(t) /\ ~search[t].blind /\ search[t].key = k =>
          v >= search[t].since
    BY <1>1, <2>1 DEF CacheCurrent
  <2>7. ~search[s].blind => v >= search[s].since
    BY <2>1, <2>6 DEF Underway
  <2>8. \A t \in Searches : Underway(t) => search[t].key \in 0..MaxChanges
    BY <1>3, SearchShape DEF Underway
  <2> HIDE DEF k, v
  <2>9. QED
    BY <1>1, <2>1, <2>2, <2>3, <2>4, <2>5, <2>6, <2>7, <2>8 DEF CacheCurrent, Underway
<1>11. ASSUME NEW g \in DOMAIN answers, Expire(g) PROVE CacheCurrent'
  <2>1. /\ answers' = [answers EXCEPT ![g] = Missing]
        /\ UNCHANGED <<generation, search, settled>>
    BY <1>11 DEF Expire, told
  <2>2. \A k \in 0..MaxChanges : answers'[k].hit => answers'[k] = answers[k]
    BY <2>1 DEF TypeOK, Missing
  <2>3. \A t \in Searches : Underway(t) => search[t].key \in 0..MaxChanges
    BY <1>3, SearchShape DEF Underway
  <2>4. QED
    BY <1>1, <2>1, <2>2, <2>3 DEF CacheCurrent, Underway
<1>12. ASSUME LoseRedis PROVE CacheCurrent'
  <2>1. /\ answers' = [g \in DOMAIN answers |-> Missing] /\ UNCHANGED search
        /\ \A s \in Searches : ~Underway(s)
    BY <1>12 DEF LoseRedis, Underway
  <2>2. \A k \in 0..MaxChanges : ~answers'[k].hit
    BY <2>1 DEF TypeOK, Missing
  <2>3. QED
    BY <1>1, <2>1, <2>2 DEF CacheCurrent, Underway
<1>13. CASE UNCHANGED vars
  BY <1>4, <1>13 DEF vars, told
<1>14. QED
  BY <1>4, <1>5, <1>6, <1>7, <1>8, <1>9, <1>10, <1>11, <1>12, <1>13
     DEF Next, Handle, Update, BumpFails, told

\* A search that begins after an edit has told the cache never answers with
\* hits from before that edit, whatever the other searches store meanwhile
\* (PostgresCatalogSearchService.search and bumpCache).
THEOREM SearchesCurrent == Spec => []SearchCurrent
<1>1. Init => CurrentUnlessCrossed
  BY DEF Init, CurrentUnlessCrossed, CacheCurrent, Underway, Idle, Missing
<1>2. CurrentUnlessCrossed => SearchCurrent
  BY DEF CurrentUnlessCrossed, CacheCurrent, SearchCurrent
<1>3. QED
  BY <1>1, <1>2, SoundAlways, CacheNext, PTL DEF Spec

-----------------------------------------------------------------------------
(* The units one can sell *)

\* All queries count some of the items, of which there are finitely many.
LEMMA UnitsFinite ==
  ASSUME NEW is \in SUBSET Items
  PROVE  IsFiniteSet(is) /\ Cardinality(is) \in Nat /\ (Cardinality(is) = 0 <=> is = {})
<1>1. IsFiniteSet(is)
  BY FiniteCatalogue, FS_Subset
<1>2. QED
  BY <1>1, FS_CardinalityType, FS_EmptySet

\* What is to be sold of a product, with a filter by location.
OnSale(p, f) == Of(Within(In(Available), f), p)

LEMMA OnSaleFinite ==
  ASSUME NEW p, NEW f
  PROVE  /\ OnSale(p, f) \subseteq Items /\ Cardinality(OnSale(p, f)) \in Nat
         /\ Cardinality(OnSale(p, f)) = 0 <=> OnSale(p, f) = {}
<1>1. OnSale(p, f) \subseteq Items
  BY DEF OnSale, Of, Within, In, At
<1>2. QED
  BY <1>1, UnitsFinite

LEMMA OnSaleUnits ==
  ASSUME TypeOK, NEW p, NEW f \in Locations \cup {None, Unknown},
         NEW ids, ids = IF f \in Locations THEN Below[f] ELSE Locations
  PROVE  /\ ids \subseteq Locations
         /\ OnSale(p, f) = {i \in Items : /\ item[i].status \in Available
                                          /\ item[i].location \in ids
                                          /\ ProductOf[i] = p}
<1>1. \A i \in Items : item[i].location \in Locations
  BY DEF TypeOK
<1>2. QED
  BY <1>1, Filters, Tree DEF OnSale, Of, Within, In, At

\* stockReport counts what is on sale.
LEMMA ReportCounts ==
  ASSUME NEW p, NEW f
  PROVE  Counted(f, p) = Cardinality(OnSale(p, f))
<1> DEFINE is == Within(In(Available), f)
<1>1. StockRows("available", f) =
        [x \in {ProductOf[i] : i \in is} |->
           [units |-> Cardinality(Of(is, x)), grams |-> Cardinality(Of(is, x)) * Weight[x]]]
  BY DEF StockRows, StatusesForScope
<1>2. OnSale(p, f) = Of(is, p)
  BY DEF OnSale
<1>3. p \notin {ProductOf[i] : i \in is} => OnSale(p, f) = {}
  BY <1>2 DEF Of
<1> DEFINE rows == StockRows("available", f)
           listed == {ProductOf[i] : i \in is}
<1> HIDE DEF is
<1>4. DOMAIN rows = listed /\ (p \in listed => rows[p].units = Cardinality(Of(is, p)))
  BY <1>1
<1> HIDE DEF rows
<1>5. (IF p \in DOMAIN rows THEN rows[p].units ELSE 0) = Cardinality(OnSale(p, f))
  BY <1>2, <1>3, <1>4, FS_EmptySet
<1>6. QED
  BY <1>5 DEF Counted, rows

\* stockSummary of each location below a location, added up.
LEMMA SummaryCounts ==
  ASSUME TypeOK, NEW p, NEW f \in Locations \cup {None, Unknown},
         NEW ids, ids = IF f \in Locations THEN Below[f] ELSE Locations
  PROVE  SummedUp(ids, p) = Cardinality(OnSale(p, f))
<1> DEFINE part == [l \in ids |-> {i \in OnSale(p, f) : item[i].location = l}]
           count == [l \in ids |-> LET sum == StockSummary(l) IN
                                   IF p \in DOMAIN sum THEN sum[p] ELSE 0]
<1>1. /\ ids \subseteq Locations
      /\ OnSale(p, f) = {i \in Items : /\ item[i].status \in Available
                                       /\ item[i].location \in ids
                                       /\ ProductOf[i] = p}
  BY OnSaleUnits
<1>2. ASSUME NEW l \in ids PROVE count[l] = Cardinality(part[l]) /\ count[l] \in Nat
  <2> DEFINE is == At(Items, {l})
  <2>1. StockSummary(l) = [x \in {ProductOf[i] : i \in is} |->
                             Cardinality(Of(is \cap In(Available), x))]
    BY <1>1, Filters DEF StockSummary
  <2>2. part[l] = Of(is \cap In(Available), p)
    BY <1>1 DEF Of, At, In
  <2>3. p \notin {ProductOf[i] : i \in is} => part[l] = {}
    BY <2>2 DEF Of
  <2>4. Cardinality(part[l]) \in Nat /\ Cardinality({}) = 0
    BY <1>1, UnitsFinite, FS_EmptySet
  <2>5. count[l] = IF p \in DOMAIN StockSummary(l) THEN StockSummary(l)[p] ELSE 0
    OBVIOUS
  <2> HIDE DEF is, count, part
  <2>6. QED
    BY <2>1, <2>2, <2>3, <2>4, <2>5
<1>3. IsFiniteSet(OnSale(p, f))
  BY <1>1, UnitsFinite
<1>4. CountsParts(count, ids, part, OnSale(p, f))
  BY <1>1, <1>2 DEF CountsParts
<1>5. SumOver(count) = Cardinality(OnSale(p, f))
  BY <1>3, <1>4, SumOfParts
<1>6. QED
  BY <1>5 DEF SummedUp

\* stockByLocation of a card, added up below a location the user can reach.
LEMMA CardCounts ==
  ASSUME TypeOK, NEW p, NEW f \in Locations \cup {None, Unknown},
         NEW ids, ids = IF f \in Locations THEN Below[f] ELSE Locations,
         NEW u, ids \subseteq Reach[u]
  PROVE  SumOver([l \in ids \cap DOMAIN StockByLocation(u, p) |->
                    StockByLocation(u, p)[l].availableQty]) = Cardinality(OnSale(p, f))
<1> DEFINE shown == ids \cap DOMAIN StockByLocation(u, p)
           part  == [l \in shown |-> {i \in OnSale(p, f) : item[i].location = l}]
           count == [l \in shown |-> StockByLocation(u, p)[l].availableQty]
<1>1. /\ ids \subseteq Locations
      /\ OnSale(p, f) = {i \in Items : /\ item[i].status \in Available
                                       /\ item[i].location \in ids
                                       /\ ProductOf[i] = p}
  BY OnSaleUnits
<1>2. shown = {l \in ids : \E i \in Items : ProductOf[i] = p /\ item[i].location = l}
  BY DEF StockByLocation, Of
<1>3. ASSUME NEW l \in shown PROVE count[l] = Cardinality(part[l]) /\ count[l] \in Nat
  <2>1. l \in DOMAIN StockByLocation(u, p)
    OBVIOUS
  <2>2. StockByLocation(u, p)[l].availableQty =
          Cardinality(At(Of(Items, p), {l}) \cap In(Available))
    BY <2>1 DEF StockByLocation
  <2>3. part[l] = At(Of(Items, p), {l}) \cap In(Available)
    BY <1>1 DEF Of, At, In
  <2>4. Cardinality(part[l]) \in Nat
    BY <1>1, UnitsFinite
  <2>5. QED
    BY <2>2, <2>3, <2>4
<1>4. IsFiniteSet(OnSale(p, f))
  BY <1>1, UnitsFinite
<1>5. CountsParts(count, shown, part, OnSale(p, f))
  <2> HIDE DEF shown
  <2>1. part \in [shown -> SUBSET OnSale(p, f)]
    OBVIOUS
  <2>2. \A i \in OnSale(p, f) : \E l \in shown : i \in part[l]
    BY <1>1, <1>2
  <2>3. QED
    BY <1>3, <2>1, <2>2 DEF CountsParts
<1>6. SumOver(count) = Cardinality(OnSale(p, f))
  BY <1>4, <1>5, SumOfParts
<1>7. QED
  BY <1>6

\* The six queries that count the units one can sell agree, whatever is in
\* stock and wherever, for every filter by location (stockReport, findMany,
\* attachStock, stockByLocation, inventoryTurnover, stockSummary).
THEOREM StockCountsAgree == Spec => []CountsAgree
<1>1. ASSUME TypeOK PROVE CountsAgree
  <2> SUFFICES ASSUME NEW f \in Locations \cup {None, Unknown}, NEW p \in Products
               PROVE  LET n   == Counted(f, p)
                          ids == IF f \in Locations THEN Below[f] ELSE Locations
                      IN  /\ AvailableQty(p, f) = n
                          /\ f \in Locations => (p \in Listed(f) <=> n > 0)
                          /\ TurnoverStock(p, ids) = n
                          /\ SummedUp(ids, p) = n
                          /\ \A u \in Users : ids \subseteq Reach[u] =>
                               n = SumOver([l \in ids \cap DOMAIN StockByLocation(u, p) |->
                                              StockByLocation(u, p)[l].availableQty])
    BY DEF CountsAgree
  <2> DEFINE n   == Counted(f, p)
             ids == IF f \in Locations THEN Below[f] ELSE Locations
  <2>1. n = Cardinality(OnSale(p, f)) /\ n \in Nat
    BY ReportCounts, OnSaleFinite
  <2>2. AvailableQty(p, f) = n
    BY <2>1 DEF AvailableQty, OnSale
  <2>3. f \in Locations => (p \in Listed(f) <=> n > 0)
    <3>1. f \in Locations => (p \in Listed(f) <=> OnSale(p, f) # {})
      BY Filters DEF Listed, OnSale
    <3>2. QED
      BY <2>1, <3>1, OnSaleFinite
  <2>4. TurnoverStock(p, ids) = n
    <3>1. OnSale(p, f) = Of(At(In(Available), ids), p)
      BY <1>1, OnSaleUnits DEF Of, At, In
    <3>2. QED
      BY <2>1, <3>1 DEF TurnoverStock
  <2>5. SummedUp(ids, p) = n
    BY <1>1, <2>1, SummaryCounts
  <2>6. ASSUME NEW u \in Users, ids \subseteq Reach[u]
        PROVE  n = SumOver([l \in ids \cap DOMAIN StockByLocation(u, p) |->
                              StockByLocation(u, p)[l].availableQty])
    <3> DEFINE sum == SumOver([l \in ids \cap DOMAIN StockByLocation(u, p) |->
                                 StockByLocation(u, p)[l].availableQty])
    <3>1. sum = Cardinality(OnSale(p, f))
      BY <1>1, <2>6, CardCounts, Zenon
    <3> HIDE DEF sum
    <3>2. n = sum
      BY <2>1, <3>1
    <3>3. QED
      BY <3>2 DEF sum
  <2>7. QED
    BY <2>2, <2>3, <2>4, <2>5, <2>6
<1>2. QED
  BY <1>1, CatalogueTypes, PTL

\* The lists by stock status and of promotions hold the products whose cards
\* say so, with the two exceptions for a filter by location that the property
\* names (findMany, attachStock, promotionReason).
THEOREM ListsAgreeWithCards == Spec => []ListsMatchCards
<1>1. ListsMatchCards
  <2> SUFFICES ASSUME NEW f \in Locations \cup {None}, NEW p \in Listed(f)
               PROVE  LET qty    == AvailableQty(p, f)
                          reason == PromotionReason(qty, StaleFlag(p, f))
                      IN  /\ p \in StatusList(f, "in_stock") <=> qty > 0
                          /\ p \in StatusList(f, "out_of_stock") <=> f = None /\ qty = 0
                          /\ p \in StatusList(f, "low") <=> "low" \in reason
                          /\ "stale" \in reason => p \in StaleList(f)
                          /\ f = None => (p \in StaleList(f) <=> "stale" \in reason)
    BY DEF ListsMatchCards
  <2> DEFINE qty    == AvailableQty(p, f)
             reason == PromotionReason(qty, StaleFlag(p, f))
  <2>1. /\ qty = Cardinality(OnSale(p, f)) /\ qty \in Nat
        /\ qty = 0 <=> OnSale(p, f) = {}
    BY OnSaleFinite DEF AvailableQty, OnSale
  <2>2. f \in Locations => qty > 0
    BY <2>1, Filters DEF Listed, OnSale
  <2>3. /\ Having(p, f, "in_stock") <=> qty > 0
        /\ Having(p, f, "out_of_stock") <=> qty = 0
        /\ Having(p, f, "low") <=> qty > 0 /\ qty <= LowThreshold
    BY DEF Having, AvailableQty
  <2>4. /\ "low" \in reason <=> qty > 0 /\ qty <= LowThreshold
        /\ "stale" \in reason <=> StaleFlag(p, f)
    <3> HIDE DEF qty
    <3>1. QED
      BY DEF PromotionReason
  <2>5. /\ StaleFlag(p, f) => p \in StaleList(f)
        /\ f = None => (StaleFlag(p, f) <=> p \in StaleList(f))
    BY DEF StaleFlag, StaleList, Within, At, Of, In
  <2>6. f = None \/ f \in Locations
    OBVIOUS
  <2> HIDE DEF qty, reason
  <2>7. QED
    BY <2>1, <2>2, <2>3, <2>4, <2>5, <2>6, Filters DEF StatusList, qty, reason
<1>2. QED
  BY <1>1, PTL

-----------------------------------------------------------------------------
(* The stock report *)

\* A share is the portion in tenths of a percent, rounded to the nearest.
LEMMA ShareRounds ==
  ASSUME NEW g \in Nat, NEW T \in Nat, T > 0
  PROVE  /\ Share(g, T) \in Nat
         /\ Share(g, T) * (2 * T) <= g * 2000 + T
         /\ g * 2000 <= Share(g, T) * (2 * T) + T
<1> DEFINE a == 2000 * g + T
           b == 2 * T
<1>1. a \in Nat /\ b \in Nat /\ b > 0 /\ Share(g, T) = a \div b
  BY DEF Share
<1> HIDE DEF a, b
<1>2. a \div b \in Nat /\ a = b * (a \div b) + (a % b) /\ a % b \in 0..(b - 1)
  BY <1>1
<1>3. QED
  BY <1>1, <1>2 DEF a, b

\* Cancelling a positive factor.
LEMMA Cancels ==
  ASSUME NEW a \in Int, NEW b \in Int, NEW T \in Nat, T > 0, a * T <= b * T
  PROVE  a <= b
<1>1. ASSUME a > b PROVE FALSE
  <2>1. PICK d \in Nat : a = b + 1 + d
    <3>1. a - b - 1 \in Nat /\ a = b + 1 + (a - b - 1)
      BY <1>1
    <3>2. QED
      BY <3>1
  <2>2. a * T = b * T + T + d * T /\ d * T \in Nat
    BY <2>1
  <2>3. QED
    BY <2>2
<1>2. QED
  BY <1>1

\* The buckets of rows that all have a key partition the rows; each share is
\* off by half a tenth of a percent at most.
LEMMA BucketsPartition ==
  ASSUME NEW rows, NEW ps, IsFiniteSet(ps), \A p \in ps : rows[p].grams \in Nat,
         NEW by, \A p \in ps : KeyOf(p, by) # None
  PROVE  Partition(Buckets(rows, ps, by, Grams(rows, ps)), Grams(rows, ps), Cardinality(ps))
<1> DEFINE keys     == {KeyOf(p, by) : p \in ps}
           total    == Grams(rows, ps)
           mine     == [k \in keys |-> {p \in ps : KeyOf(p, by) = k}]
           key      == [p \in ps |-> KeyOf(p, by)]
           weight   == [p \in ps |-> rows[p].grams]
           buckets  == Buckets(rows, ps, by, total)
           grams    == [k \in DOMAIN buckets |-> buckets[k].grams]
           articles == [k \in DOMAIN buckets |-> buckets[k].skuCount]
           shares   == [k \in DOMAIN buckets |-> buckets[k].share]
<1>1. weight \in [ps -> Nat] /\ key \in [ps -> keys] /\ total = SumOver(weight)
  BY DEF Grams
<1>2. total \in Nat
  BY <1>1, SumType
<1>3. IsFiniteSet(keys)
  <2>1. key \in Surjection(ps, keys)
    BY Fun_IsSurj
  <2>2. QED
    BY <2>1, FS_Surjection
<1>4. DOMAIN buckets = keys
  BY DEF Buckets
<1>5. ASSUME NEW k \in keys
      PROVE  /\ grams[k] = SumOver([p \in mine[k] |-> weight[p]]) /\ grams[k] \in Nat
             /\ articles[k] = Cardinality(mine[k]) /\ articles[k] \in Nat
             /\ shares[k] = Share(grams[k], total)
  <2>1. buckets[k] = [grams |-> Grams(rows, mine[k]), skuCount |-> Cardinality(mine[k]),
                      share |-> Share(Grams(rows, mine[k]), total)]
    BY DEF Buckets
  <2>2. IsFiniteSet(mine[k]) /\ Cardinality(mine[k]) \in Nat
    BY FS_Subset, FS_CardinalityType
  <2>3. /\ [p \in mine[k] |-> weight[p]] = [p \in mine[k] |-> rows[p].grams]
        /\ [p \in mine[k] |-> weight[p]] \in [mine[k] -> Nat]
    BY <1>1
  <2>4. Grams(rows, mine[k]) = SumOver([p \in mine[k] |-> weight[p]])
    BY <2>3 DEF Grams
  <2>5. Grams(rows, mine[k]) \in Nat
    BY <2>2, <2>3, <2>4, SumType
  <2>6. grams[k] = buckets[k].grams /\ articles[k] = buckets[k].skuCount
        /\ shares[k] = buckets[k].share
    BY <1>4
  <2> HIDE DEF mine, weight, grams, articles, shares, buckets, total
  <2>7. QED
    BY <2>1, <2>2, <2>4, <2>5, <2>6
<1>6. grams \in [keys -> Nat] /\ articles \in [keys -> Nat]
  BY <1>4, <1>5
<1>7. SumOver(grams) = total
  <2>1. \A k \in keys : mine[k] = {p \in ps : key[p] = k}
    OBVIOUS
  <2> HIDE DEF mine, weight, grams, buckets, total, key, keys
  <2>2. \A k \in keys : grams[k] = SumOver([p \in {q \in ps : key[q] = k} |-> weight[p]])
    BY <1>5, <2>1
  <2>3. SumsGroups(grams, keys, weight, ps, key)
    BY <1>1, <1>6, <2>2 DEF SumsGroups
  <2>4. QED
    BY <1>1, <2>3, SumRegroups
<1>8. SumOver(articles) = Cardinality(ps)
  <2>1. CountsParts(articles, keys, mine, ps)
    <3>1. /\ mine \in [keys -> SUBSET ps] /\ \A p \in ps : \E k \in keys : p \in mine[k]
          /\ \A k, l \in keys : k # l => mine[k] \cap mine[l] = {}
      OBVIOUS
    <3> HIDE DEF mine, articles, keys
    <3>2. QED
      BY <1>5, <1>6, <3>1 DEF CountsParts
  <2> HIDE DEF mine, articles, keys
  <2>2. QED
    BY <2>1, SumOfParts
<1>9. ASSUME total > 0
      PROVE  2 * (SumOver(shares) - 1000) \in -Cardinality(keys)..Cardinality(keys)
  <2> DEFINE N       == Cardinality(keys)
             S       == SumOver(shares)
             scaled  == [k \in keys |-> shares[k] * (2 * total)]
             portion == [k \in keys |-> grams[k] * 2000]
             slack   == [k \in keys |-> total]
             above   == [k \in keys |-> portion[k] + slack[k]]
             below   == [k \in keys |-> scaled[k] + slack[k]]
  <2>1. N \in Nat
    BY <1>3, FS_CardinalityType
  <2> HIDE DEF grams, total, keys, buckets
  <2>2. \A k \in keys : /\ shares[k] \in Nat
                        /\ shares[k] * (2 * total) <= grams[k] * 2000 + total
                        /\ grams[k] * 2000 <= shares[k] * (2 * total) + total
    <3> HIDE DEF shares
    <3>1. TAKE k \in keys
    <3>2. shares[k] = Share(grams[k], total) /\ grams[k] \in Nat
      BY <1>5
    <3> DEFINE g == grams[k]
    <3> HIDE DEF g
    <3>3. /\ Share(g, total) \in Nat
          /\ Share(g, total) * (2 * total) <= g * 2000 + total
          /\ g * 2000 <= Share(g, total) * (2 * total) + total
      <4>1. g \in Nat /\ total \in Nat /\ total > 0
        BY <1>2, <1>9, <3>2 DEF g
      <4>2. QED
        BY <4>1, ShareRounds
    <3>4. QED
      BY <3>2, <3>3 DEF g
  <2>3. shares \in [keys -> Nat]
    BY <1>4, <2>2
  <2> HIDE DEF shares
  <2>4. /\ scaled \in [keys -> Nat] /\ portion \in [keys -> Nat] /\ slack \in [keys -> Nat]
        /\ above \in [keys -> Nat] /\ below \in [keys -> Nat]
    BY <1>2, <1>6, <2>3
  <2>5. S \in Nat /\ SumOver(scaled) = S * (2 * total)
    BY <1>2, <1>3, <2>3, <2>4, SumType, SumOfMultiples
  <2>6. SumOver(portion) = total * 2000
    BY <1>3, <1>6, <1>7, <2>4, SumOfMultiples
  <2>7. SumOver(slack) = N * total
    BY <1>2, <1>3, <2>4, SumOfConstants
  <2>8. SumOver(above) = total * 2000 + N * total
    BY <1>3, <2>4, <2>6, <2>7, SumOfTwo
  <2>9. SumOver(below) = S * (2 * total) + N * total
    BY <1>3, <2>4, <2>5, <2>7, SumOfTwo
  <2>10. SumOver(scaled) <= SumOver(above) /\ SumOver(portion) <= SumOver(below)
    BY <1>3, <2>2, <2>4, SumMonotone
  <2> HIDE DEF N, S, scaled, portion, slack, above, below
  <2>11. /\ S * (2 * total) <= total * 2000 + N * total
         /\ total * 2000 <= S * (2 * total) + N * total
    BY <2>5, <2>6, <2>8, <2>9, <2>10
  <2>12. (2 * S) * total <= (2000 + N) * total /\ 2000 * total <= (2 * S + N) * total
    BY <1>2, <2>1, <2>5, <2>11
  <2>13. 2 * S <= 2000 + N /\ 2000 <= 2 * S + N
    BY <1>2, <1>9, <2>1, <2>5, <2>12, Cancels
  <2>14. 2 * (S - 1000) \in -N..N
    BY <2>1, <2>5, <2>13
  <2>15. QED
    BY <2>14 DEF N, S
<1>10. QED
  <2> HIDE DEF keys, mine, key, weight, grams, articles, shares, buckets, total
  <2>1. Partition(buckets, total, Cardinality(ps))
    BY <1>4, <1>7, <1>8, <1>9 DEF Partition, grams, articles, shares
  <2>2. QED
    BY <2>1 DEF buckets, total

\* The rows of the report are products, their grams naturals.
LEMMA RowsAreProducts ==
  ASSUME NEW scope, NEW f
  PROVE  /\ DOMAIN StockRows(scope, f) \subseteq Products
         /\ \A p \in DOMAIN StockRows(scope, f) : StockRows(scope, f)[p].grams \in Nat
<1> DEFINE is == Within(In(StatusesForScope(scope)), f)
<1>1. is \subseteq Items
  BY DEF Within, In, At
<1>2. StockRows(scope, f) =
        [x \in {ProductOf[i] : i \in is} |->
           [units |-> Cardinality(Of(is, x)), grams |-> Cardinality(Of(is, x)) * Weight[x]]]
  BY DEF StockRows
<1> HIDE DEF is
<1>3. {ProductOf[i] : i \in is} \subseteq Products
  BY <1>1, Columns
<1>4. ASSUME NEW x \in {ProductOf[i] : i \in is}
      PROVE  Cardinality(Of(is, x)) * Weight[x] \in Nat
  <2>1. Cardinality(Of(is, x)) \in Nat
    BY <1>1, UnitsFinite DEF Of
  <2>2. Weight[x] \in Nat
    BY <1>3, Columns
  <2>3. QED
    BY <2>1, <2>2
<1>5. QED
  BY <1>2, <1>3, <1>4

\* The buckets of the stock report partition it: grams and articles add up to
\* the totals, the tones to the gold, and the shares to 100 percent but for
\* the rounding of each, for any stock (assembleStockReport, assertGoldTone).
THEOREM StockReportAddsUp == Spec => []ReportAddsUp
<1>1. ASSUME TypeOK PROVE ReportAddsUp
  <2> SUFFICES ASSUME NEW scope, NEW f
               PROVE  LET rows == StockRows(scope, f)
                          gold == {p \in DOMAIN rows : product[p].metal = "gold"}
                      IN  /\ \A by \in {"metal", "supplier", "category"} :
                               Partition(By(rows, by), Grams(rows, DOMAIN rows),
                                         Cardinality(DOMAIN rows))
                          /\ Partition(ByGoldTone(rows), Grams(rows, gold), Cardinality(gold))
    BY DEF ReportAddsUp
  <2> DEFINE rows == StockRows(scope, f)
             gold == {p \in DOMAIN rows : product[p].metal = "gold"}
  <2>1. /\ DOMAIN rows \subseteq Products /\ gold \subseteq DOMAIN rows
        /\ \A p \in DOMAIN rows : rows[p].grams \in Nat
    BY RowsAreProducts
  <2>2. IsFiniteSet(DOMAIN rows) /\ IsFiniteSet(gold)
    BY <2>1, FiniteCatalogue, FS_Subset
  <2> HIDE DEF rows
  <2>3. ASSUME NEW by \in {"metal", "supplier", "category"}
        PROVE  Partition(By(rows, by), Grams(rows, DOMAIN rows), Cardinality(DOMAIN rows))
    <3>1. \A p \in DOMAIN rows : KeyOf(p, by) # None
      BY <1>1, <2>1, Columns DEF TypeOK, Metals, None, KeyOf
    <3>2. QED
      BY <2>1, <2>2, <3>1, BucketsPartition DEF By
  <2>4. Partition(ByGoldTone(rows), Grams(rows, gold), Cardinality(gold))
    <3>1. \A p \in gold : KeyOf(p, "tone") # None
      BY <1>1, <2>1 DEF TypeOK, ToneFits, KeyOf
    <3>2. QED
      BY <2>1, <2>2, <3>1, BucketsPartition DEF ByGoldTone
  <2>5. QED
    BY <2>3, <2>4 DEF rows
<1>2. QED
  BY <1>1, CatalogueTypes, PTL

-----------------------------------------------------------------------------
(* The ranking of search hits *)

Hit == [id : Nat, priority : Nat, score : Nat]

\* Before orders the hits totally.
LEMMA BeforeOrders ==
  ASSUME NEW x \in Hit, NEW y \in Hit, NEW z \in Hit
  PROVE  /\ ~Before(x, x)
         /\ Before(x, y) /\ Before(y, z) => Before(x, z)
         /\ x = y \/ Before(x, y) \/ Before(y, x)
BY DEF Hit, Before

\* How many hits of S come before h.
Ahead(S, h) == {g \in S : Before(g, h)}
Rank(S, h)  == Cardinality(Ahead(S, h))

LEMMA AheadFinite ==
  ASSUME NEW S, IsFiniteSet(S), NEW h
  PROVE  /\ Ahead(S, h) \subseteq S /\ IsFiniteSet(Ahead(S, h)) /\ Rank(S, h) \in Nat
         /\ Rank(S, h) <= Cardinality(S) /\ Cardinality(S) \in Nat
<1>1. Ahead(S, h) \subseteq S
  BY DEF Ahead
<1>2. QED
  BY <1>1, FS_Subset, FS_CardinalityType DEF Rank

LEMMA LargerSet ==
  ASSUME NEW S, IsFiniteSet(S), NEW T \in SUBSET S
  PROVE  /\ Cardinality(T) \in Nat /\ Cardinality(S) \in Nat /\ IsFiniteSet(T)
         /\ Cardinality(T) <= Cardinality(S)
         /\ T # S => Cardinality(T) < Cardinality(S)
<1>1. /\ IsFiniteSet(T) /\ Cardinality(T) <= Cardinality(S)
      /\ (Cardinality(S) = Cardinality(T) => S = T)
  BY FS_Subset
<1>2. Cardinality(T) \in Nat /\ Cardinality(S) \in Nat
  BY <1>1, FS_CardinalityType
<1>3. QED
  BY <1>1, <1>2

LEMMA RankOrders ==
  ASSUME NEW S \in SUBSET Hit, IsFiniteSet(S), NEW x \in S, NEW y \in S
  PROVE  /\ Rank(S, x) < Cardinality(S)
         /\ Before(x, y) => Rank(S, x) < Rank(S, y)
         /\ Rank(S, x) = Rank(S, y) => x = y
<1>1. ASSUME NEW v \in S, NEW w \in S, Before(v, w) PROVE Rank(S, v) < Rank(S, w)
  <2>1. Ahead(S, v) \subseteq Ahead(S, w) /\ v \in Ahead(S, w) /\ v \notin Ahead(S, v)
    BY <1>1, BeforeOrders DEF Ahead
  <2>2. IsFiniteSet(Ahead(S, w))
    BY AheadFinite
  <2>3. QED
    BY <2>1, <2>2, LargerSet DEF Rank
<1>2. Rank(S, x) < Cardinality(S)
  <2>1. Ahead(S, x) \subseteq S /\ x \notin Ahead(S, x)
    BY BeforeOrders DEF Ahead
  <2>2. QED
    BY <2>1, LargerSet DEF Rank
<1>3. Rank(S, x) \in Nat /\ Rank(S, y) \in Nat
  BY AheadFinite
<1>4. x = y \/ Before(x, y) \/ Before(y, x)
  BY BeforeOrders
<1>5. QED
  BY <1>1, <1>2, <1>3, <1>4

\* Every rank below the number of hits is taken.
LEMMA RankOnto ==
  ASSUME NEW S \in SUBSET Hit, IsFiniteSet(S), NEW k \in Nat, k < Cardinality(S)
  PROVE  \E x \in S : Rank(S, x) = k
<1> DEFINE N     == Cardinality(S)
           ranks == [x \in S |-> Rank(S, x)]
<1>1. N \in Nat
  BY FS_CardinalityType
<1>2. ranks \in [S -> 0..(N - 1)]
  BY <1>1, AheadFinite, RankOrders
<1>3. \A x, y \in S : ranks[x] = ranks[y] => x = y
  BY RankOrders
<1>4. ranks \in Injection(S, 0..(N - 1))
  BY <1>2, <1>3, Fun_IsInj
<1> DEFINE K == 0..(N - 1)
<1>5. IsFiniteSet(K) /\ Cardinality(K) = N
  <2> HIDE DEF N
  <2>1. QED
    BY <1>1, FS_Interval
<1>6. ranks \in Injection(S, K) /\ k \in K
  BY <1>1, <1>4
<1> HIDE DEF N, ranks, K
<1>7. ranks \in Surjection(S, K)
  <2>1. Cardinality(K) = Cardinality(S)
    BY <1>5 DEF N
  <2>2. QED
    BY <1>5, <1>6, <2>1, FS_Injection
<1>8. \A r \in K : \E x \in S : ranks[x] = r
  BY <1>7, Fun_SurjectionProperties
<1>9. QED
  BY <1>6, <1>8 DEF ranks

\* Cutting a list that is long enough leaves as many hits as the limit.
LEMMA FirstCounts ==
  ASSUME NEW S \in SUBSET Hit, IsFiniteSet(S), NEW n \in Nat, n <= Cardinality(S)
  PROVE  /\ First(n, S) = {h \in S : Rank(S, h) < n} /\ First(n, S) \subseteq S
         /\ IsFiniteSet(First(n, S)) /\ Cardinality(First(n, S)) = n
<1> DEFINE F     == First(n, S)
           ranks == [x \in F |-> Rank(S, x)]
<1>1. F = {h \in S : Rank(S, h) < n} /\ F \subseteq S
  BY DEF First, Rank, Ahead
<1> HIDE DEF F
<1>2. ranks \in [F -> 0..(n - 1)] /\ Cardinality(S) \in Nat
  BY <1>1, AheadFinite
<1>3. \A x, y \in F : ranks[x] = ranks[y] => x = y
  BY <1>1, RankOrders
<1>4. \A k \in 0..(n - 1) : \E x \in F : ranks[x] = k
  <2>1. TAKE k \in 0..(n - 1)
  <2>2. PICK x \in S : Rank(S, x) = k
    BY <1>2, RankOnto
  <2>3. QED
    BY <1>1, <2>2
<1>5. ranks \in Injection(F, 0..(n - 1)) /\ ranks \in Surjection(F, 0..(n - 1))
  BY <1>2, <1>3, <1>4, Fun_IsInj, Fun_IsSurj
<1>6. IsFiniteSet(0..(n - 1)) /\ Cardinality(0..(n - 1)) = n
  BY FS_Interval
<1>7. IsFiniteSet(F) /\ Cardinality(F) = n
  BY <1>5, <1>6, FS_Injection
<1>8. QED
  BY <1>1, <1>7 DEF F

\* When the limit or more hits come before u, so do those that the cut leaves.
LEMMA FirstBefore ==
  ASSUME NEW S \in SUBSET Hit, IsFiniteSet(S), NEW n \in Nat, NEW u \in Hit, n <= Rank(S, u)
  PROVE  /\ First(n, S) \subseteq Ahead(S, u) /\ IsFiniteSet(First(n, S))
         /\ Cardinality(First(n, S)) = n /\ \A h \in First(n, S) : Rank(S, h) < n
<1>1. n <= Cardinality(S)
  BY AheadFinite
<1>2. ASSUME NEW x \in First(n, S), ~Before(x, u) PROVE FALSE
  <2>1. x \in S /\ Rank(S, x) < n
    BY <1>1, FirstCounts
  <2>2. x = u \/ Before(u, x)
    BY <1>2, <2>1, BeforeOrders
  <2>3. Ahead(S, u) \subseteq Ahead(S, x)
    BY <2>1, <2>2, BeforeOrders DEF Ahead
  <2>4. Rank(S, u) <= Rank(S, x)
    BY <2>3, AheadFinite, LargerSet DEF Rank
  <2>5. QED
    BY <2>1, <2>4, AheadFinite
<1>3. QED
  BY <1>1, <1>2, FirstCounts DEF Ahead

\* Each product keeps a best hit.
LEMMA BestStays ==
  ASSUME NEW S \in SUBSET Hit, IsFiniteSet(S), NEW x \in S
  PROVE  \E b \in Merged(S) : b.id = x.id /\ (b = x \/ Before(b, x))
<1> DEFINE T == {y \in S : y.id = x.id}
<1>1. T \in SUBSET Hit /\ T \subseteq S /\ x \in T
  OBVIOUS
<1>2. IsFiniteSet(T) /\ Cardinality(T) \in Nat /\ Cardinality(T) # 0
  BY <1>1, FS_Subset, FS_CardinalityType, FS_EmptySet
<1>3. PICK b \in T : Rank(T, b) = 0
  <2> HIDE DEF T
  <2>1. 0 < Cardinality(T)
    BY <1>2
  <2>2. QED
    BY <1>1, <1>2, <2>1, RankOnto
<1>4. Ahead(T, b) = {}
  BY <1>2, <1>3, AheadFinite, FS_EmptySet DEF Rank
<1>5. b \in Merged(S)
  BY <1>1, <1>4 DEF Merged, Ahead
<1>6. b = x \/ Before(b, x)
  BY <1>1, <1>4, BeforeOrders DEF Ahead
<1>7. QED
  BY <1>5, <1>6

\* Hits of different products that come before u leave as many merged hits
\* before u.
LEMMA MergedCounts ==
  ASSUME NEW S \in SUBSET Hit, IsFiniteSet(S), NEW u \in Hit, NEW Q \in SUBSET Ahead(S, u),
         \A x, y \in Q : x.id = y.id => x = y
  PROVE  /\ IsFiniteSet(Merged(S)) /\ Merged(S) \subseteq S
         /\ Cardinality(Q) <= Rank(Merged(S), u)
<1> DEFINE M    == Ahead(Merged(S), u)
           best == [x \in Q |-> CHOOSE b \in Merged(S) : b.id = x.id /\ (b = x \/ Before(b, x))]
<1>1. Merged(S) \subseteq S /\ IsFiniteSet(Merged(S))
  <2>1. Merged(S) \subseteq S
    BY DEF Merged
  <2>2. QED
    BY <2>1, FS_Subset
<1>2. ASSUME NEW x \in Q PROVE best[x] \in M /\ best[x].id = x.id
  <2>1. x \in S /\ Before(x, u)
    BY DEF Ahead
  <2>2. \E b \in Merged(S) : b.id = x.id /\ (b = x \/ Before(b, x))
    BY <2>1, BestStays
  <2>3. best[x] \in Merged(S) /\ best[x].id = x.id /\ (best[x] = x \/ Before(best[x], x))
    BY <2>2
  <2> HIDE DEF best
  <2>4. Before(best[x], u)
    BY <1>1, <2>1, <2>3, BeforeOrders
  <2>5. QED
    BY <2>3, <2>4 DEF Ahead
<1>3. best \in [Q -> M] /\ \A x, y \in Q : best[x] = best[y] => x = y
  <2>1. best \in [Q -> M]
    BY <1>2
  <2> HIDE DEF best
  <2>2. QED
    BY <1>2, <2>1
<1>4. best \in Injection(Q, M)
  BY <1>3, Fun_IsInj
<1>5. IsFiniteSet(M)
  BY <1>1, AheadFinite
<1> HIDE DEF M, best
<1>6. Cardinality(Q) <= Cardinality(M)
  BY <1>4, <1>5, FS_Injection
<1>7. QED
  BY <1>1, <1>6 DEF Rank, M

\* The rows of a query are hits, one for each product.
LEMMA RowsAreHits ==
  ASSUME NEW P \in SUBSET Nat, IsFiniteSet(P), NEW match \in [P -> [Groups -> Nat]],
         NEW group \in Groups
  PROVE  /\ RowsOf(match, group) \in SUBSET Hit /\ IsFiniteSet(RowsOf(match, group))
         /\ \A x, y \in RowsOf(match, group) : x.id = y.id => x = y
<1> DEFINE found  == {p \in P : match[p][group] > 0}
           row    == [p \in found |-> [id |-> p, priority |-> Priority[group],
                                       score |-> match[p][group]]]
           R      == RowsOf(match, group)
<1>1. R = {row[p] : p \in found}
  BY DEF RowsOf
<1>2. Priority[group] \in Nat
  BY DEF Priority, Groups
<1>3. ASSUME NEW p \in found PROVE row[p] \in Hit /\ row[p].id = p
  <2>1. match[p] \in [Groups -> Nat] /\ p \in Nat
    OBVIOUS
  <2>2. match[p][group] \in Nat
    BY <2>1
  <2>3. QED
    BY <1>2, <2>1, <2>2 DEF Hit
<1>4. R \in SUBSET Hit /\ \A x, y \in R : x.id = y.id => x = y
  <2> HIDE DEF row, found, R
  <2>1. QED
    BY <1>1, <1>3
<1>5. IsFiniteSet(found)
  BY FS_Subset
<1>6. row \in Surjection(found, R)
  <2>1. row \in [found -> R] /\ \A x \in R : \E p \in found : row[p] = x
    BY <1>1
  <2> HIDE DEF row, found, R
  <2>2. QED
    BY <2>1, Fun_IsSurj
<1>7. IsFiniteSet(R)
  <2> HIDE DEF row, found, R
  <2>1. QED
    BY <1>5, <1>6, FS_Surjection
<1>8. QED
  BY <1>7, <1>4

\* What is dropped from some rows of hits, with enough better rows of the same
\* kind kept, is not missed among the first n of the merge.
MayCut(R, C, n) ==
  /\ R \in SUBSET Hit /\ IsFiniteSet(R) /\ C \subseteq R /\ IsFiniteSet(C)
  /\ \A x, y \in R : x.id = y.id => x = y
  /\ \A x \in R \ C : C \subseteq Ahead(R, x) /\ n <= Cardinality(C)

LEMMA CutsMerge ==
  ASSUME NEW rows, NEW cuts, NEW n \in Nat, \A g \in Groups : MayCut(rows[g], cuts[g], n)
  PROVE  First(n, Merged(UNION {cuts[g] : g \in Groups})) =
           First(n, Merged(UNION {rows[g] : g \in Groups}))
<1> DEFINE R(g) == rows[g]
           C(g) == cuts[g]
           U    == UNION {R(g) : g \in Groups}
           V    == UNION {C(g) : g \in Groups}
<1>2. ASSUME NEW g \in Groups
      PROVE  /\ R(g) \in SUBSET Hit /\ IsFiniteSet(R(g)) /\ C(g) \subseteq R(g)
             /\ IsFiniteSet(C(g))
             /\ \A x, y \in R(g) : x.id = y.id => x = y
             /\ \A x \in R(g) \ C(g) : C(g) \subseteq Ahead(R(g), x) /\ n <= Cardinality(C(g))
  BY DEF MayCut
<1> HIDE DEF R, C
<1>3. U \in SUBSET Hit /\ V \subseteq U /\ IsFiniteSet(U) /\ IsFiniteSet(V)
  <2>1. U \in SUBSET Hit /\ V \subseteq U
    BY <1>2
  <2>2. U = (R("sku") \cup R("name")) \cup R("supplier")
    BY DEF Groups, Priority
  <2>3. IsFiniteSet(R("sku")) /\ IsFiniteSet(R("name")) /\ IsFiniteSet(R("supplier"))
    BY <1>2 DEF Groups, Priority
  <2> HIDE DEF U
  <2>4. IsFiniteSet(R("sku") \cup R("name"))
    BY <2>3, FS_Union, Zenon
  <2>5. IsFiniteSet((R("sku") \cup R("name")) \cup R("supplier"))
    BY <2>3, <2>4, FS_Union, Zenon
  <2>6. IsFiniteSet(U)
    BY <2>2, <2>5
  <2>7. QED
    BY <2>1, <2>6, FS_Subset
\* What a cut drops has as many merged hits before it, with and without cuts.
<1>4. ASSUME NEW h \in U \ V
      PROVE  n <= Rank(Merged(U), h) /\ n <= Rank(Merged(V), h)
  <2>1. PICK g \in Groups : h \in R(g) \ C(g)
    OBVIOUS
  <2>2. /\ h \in Hit /\ R(g) \in SUBSET Hit /\ IsFiniteSet(R(g)) /\ IsFiniteSet(C(g))
        /\ C(g) \subseteq Ahead(R(g), h) /\ n <= Cardinality(C(g))
    BY <1>2, <2>1
  <2>3. Cardinality(Ahead(R(g), h)) <= Rank(Merged(U), h)
    <3>1. Ahead(R(g), h) \in SUBSET Ahead(U, h)
      BY DEF Ahead
    <3>2. \A x, y \in Ahead(R(g), h) : x.id = y.id => x = y
      BY <1>2 DEF Ahead
    <3> HIDE DEF U
    <3>3. QED
      BY <1>3, <2>2, <3>1, <3>2, MergedCounts
  <2>4. Cardinality(C(g)) <= Cardinality(Ahead(R(g), h))
    BY <2>2, AheadFinite, LargerSet
  <2>5. Cardinality(C(g)) <= Rank(Merged(V), h)
    <3>1. C(g) \in SUBSET Ahead(V, h)
      BY <2>2 DEF Ahead
    <3>2. \A x, y \in C(g) : x.id = y.id => x = y
      BY <1>2
    <3> HIDE DEF U, V
    <3>3. V \in SUBSET Hit
      BY <1>3
    <3>4. QED
      BY <1>3, <2>2, <3>1, <3>2, <3>3, MergedCounts
  <2>6. Rank(Merged(U), h) \in Nat /\ Rank(Merged(V), h) \in Nat
    <3>1. IsFiniteSet(Merged(U)) /\ IsFiniteSet(Merged(V))
      <4>1. Merged(U) \subseteq U /\ Merged(V) \subseteq V
        BY DEF Merged
      <4> HIDE DEF U, V
      <4>2. QED
        BY <1>3, <4>1, FS_Subset
    <3>2. QED
      BY <3>1, AheadFinite
  <2>7. Cardinality(C(g)) \in Nat /\ Cardinality(Ahead(R(g), h)) \in Nat
    BY <2>2, AheadFinite, FS_CardinalityType
  <2>8. QED
    BY <2>2, <2>3, <2>4, <2>5, <2>6, <2>7
<1> HIDE DEF U, V
<1>5. /\ Merged(U) \in SUBSET Hit /\ IsFiniteSet(Merged(U)) /\ Merged(U) \subseteq U
      /\ Merged(V) \in SUBSET Hit /\ IsFiniteSet(Merged(V)) /\ Merged(V) \subseteq V
  <2>1. Merged(U) \subseteq U /\ Merged(V) \subseteq V
    BY DEF Merged
  <2>2. QED
    BY <1>3, <2>1, FS_Subset
<1>6. \A h : /\ h \in First(n, Merged(U)) <=> h \in Merged(U) /\ Rank(Merged(U), h) < n
             /\ h \in First(n, Merged(V)) <=> h \in Merged(V) /\ Rank(Merged(V), h) < n
  BY DEF First, Rank, Ahead
<1>7. \A h : Rank(Merged(U), h) \in Nat /\ Rank(Merged(V), h) \in Nat
  BY <1>5, AheadFinite
<1>8. ASSUME NEW h \in First(n, Merged(U)) PROVE h \in Merged(V)
  <2>1. h \in Merged(U) /\ Rank(Merged(U), h) < n
    BY <1>6
  <2>2. h \in V
    BY <1>4, <1>5, <1>7, <2>1
  <2>3. QED
    BY <1>3, <2>1, <2>2 DEF Merged
<1>9. ASSUME NEW h \in First(n, Merged(V)) PROVE h \in Merged(U)
  <2>1. h \in Merged(V) /\ Rank(Merged(V), h) < n
    BY <1>6
  <2>2. ASSUME NEW u \in U, u.id = h.id, Before(u, h) PROVE FALSE
    <3>1. u \notin V
      BY <2>1, <2>2 DEF Merged
    <3>2. n <= Rank(Merged(V), u)
      BY <1>4, <2>2, <3>1
    <3>3. Ahead(Merged(V), u) \subseteq Ahead(Merged(V), h)
      BY <1>3, <1>5, <2>1, <2>2, BeforeOrders DEF Ahead
    <3>4. Rank(Merged(V), u) <= Rank(Merged(V), h)
      BY <1>5, <3>3, AheadFinite, LargerSet DEF Rank
    <3>5. QED
      BY <1>7, <2>1, <3>2, <3>4
  <2>3. QED
    BY <1>3, <1>5, <2>1, <2>2 DEF Merged
\* A hit among the first of one merge has no more before it in the other.
<1>10. ASSUME NEW A, NEW B, A \in SUBSET Hit, B \in SUBSET Hit, IsFiniteSet(A), IsFiniteSet(B),
              First(n, B) \subseteq A, NEW h \in Hit, Rank(A, h) < n
       PROVE  Rank(B, h) < n
  <2>1. Rank(A, h) \in Nat /\ Rank(B, h) \in Nat
    BY <1>10, AheadFinite
  <2>2. ASSUME n <= Rank(B, h) PROVE FALSE
    <3>1. First(n, B) \subseteq Ahead(B, h) /\ Cardinality(First(n, B)) = n
      BY <1>10, <2>2, FirstBefore
    <3>2. First(n, B) \subseteq Ahead(A, h)
      BY <1>10, <3>1 DEF Ahead
    <3>3. Cardinality(First(n, B)) <= Rank(A, h)
      BY <1>10, <3>2, AheadFinite, LargerSet DEF Rank
    <3>4. QED
      BY <1>10, <2>1, <3>1, <3>3
  <2>3. QED
    BY <2>1, <2>2
<1>11. ASSUME NEW h
       PROVE  h \in First(n, Merged(U)) <=> h \in First(n, Merged(V))
  <2>1. ASSUME h \in First(n, Merged(U)) PROVE h \in First(n, Merged(V))
    <3>1. h \in Hit /\ Rank(Merged(U), h) < n /\ h \in Merged(V)
      BY <1>5, <1>6, <1>8, <2>1
    <3>2. First(n, Merged(V)) \subseteq Merged(U)
      BY <1>9
    <3>3. Rank(Merged(V), h) < n
      BY <1>5, <1>10, <3>1, <3>2
    <3>4. QED
      BY <1>6, <3>1, <3>3
  <2>2. ASSUME h \in First(n, Merged(V)) PROVE h \in First(n, Merged(U))
    <3>1. h \in Hit /\ Rank(Merged(V), h) < n /\ h \in Merged(U)
      BY <1>5, <1>6, <1>9, <2>2
    <3>2. First(n, Merged(U)) \subseteq Merged(V)
      BY <1>8
    <3>3. Rank(Merged(U), h) < n
      BY <1>5, <1>10, <3>1, <3>2
    <3>4. QED
      BY <1>6, <3>1, <3>3
  <2>3. QED
    BY <2>1, <2>2
<1>12. First(n, Merged(U)) = First(n, Merged(V))
  BY <1>11
<1>13. QED
  BY <1>12 DEF U, V, R, C

\* The rows of one query may be cut to a limit of n or more.
LEMMA LimitMayCut ==
  ASSUME NEW R \in SUBSET Hit, IsFiniteSet(R), \A x, y \in R : x.id = y.id => x = y,
         NEW limit \in Nat, NEW n \in Nat, n <= limit \/ Cardinality(R) <= limit
  PROVE  MayCut(R, First(limit, R), n)
<1> DEFINE C == First(limit, R)
<1>1. C \subseteq R
  BY DEF First
<1>2. IsFiniteSet(C)
  BY <1>1, FS_Subset
<1>3. ASSUME NEW x \in R \ C PROVE C \subseteq Ahead(R, x) /\ n <= Cardinality(C)
  <2>1. Rank(R, x) \in Nat /\ Cardinality(R) \in Nat /\ IsFiniteSet(Ahead(R, x))
    BY AheadFinite, FS_CardinalityType
  <2>2. ~(Rank(R, x) < limit)
    BY DEF First, Rank, Ahead
  <2>3. limit <= Rank(R, x)
    BY <2>1, <2>2
  <2>4. C \subseteq Ahead(R, x) /\ Cardinality(C) = limit
    BY <2>3, FirstBefore
  <2>5. Rank(R, x) < Cardinality(R)
    BY RankOrders
  <2>6. QED
    BY <2>1, <2>3, <2>4, <2>5
<1>4. QED
  BY <1>1, <1>2, <1>3 DEF MayCut

LEMMA AllMayStay ==
  ASSUME NEW R \in SUBSET Hit, IsFiniteSet(R), \A x, y \in R : x.id = y.id => x = y,
         NEW n \in Nat
  PROVE  MayCut(R, R, n)
BY DEF MayCut

\* Hits left out of the merge move none of the others down.
LEMMA PlacedByHits ==
  ASSUME NEW U \in SUBSET Hit, IsFiniteSet(U), NEW W \in SUBSET U, NEW h \in Hit
  PROVE  /\ IsFiniteSet(W) /\ Rank(Merged(W), h) \in Nat /\ Rank(Merged(U), h) \in Nat
         /\ Rank(Merged(W), h) <= Rank(Merged(U), h)
<1>1. IsFiniteSet(W) /\ Merged(W) \subseteq W /\ Merged(U) \subseteq U
  BY FS_Subset DEF Merged
<1>2. IsFiniteSet(Merged(W)) /\ IsFiniteSet(Merged(U))
  BY <1>1, FS_Subset
<1>3. Ahead(Merged(W), h) \in SUBSET Ahead(U, h)
  BY <1>1 DEF Ahead
<1>4. \A x, y \in Ahead(Merged(W), h) : x.id = y.id => x = y
  <2>1. \A x, y \in Merged(W) : x.id = y.id => ~Before(x, y) /\ ~Before(y, x)
    BY <1>1 DEF Merged
  <2>2. QED
    BY <1>1, <2>1, BeforeOrders DEF Ahead
<1>5. Cardinality(Ahead(Merged(W), h)) <= Rank(Merged(U), h)
  BY <1>3, <1>4, MergedCounts
<1>6. QED
  BY <1>1, <1>2, <1>5, AheadFinite DEF Rank

\* What cutting each query before the merge costs, for every limit of the
\* article query, every limit the caller asks for and every way any products
\* match (PostgresCatalogSearchService.search, mergeSearchHits).
THEOREM CutsLoseOnlyArticles ==
  ASSUME NEW P \in SUBSET Nat, IsFiniteSet(P), NEW match \in [P -> [Groups -> Nat]],
         NEW n \in Nat
  PROVE  OnlyNamesCut(match, n) /\ LostAreArticles(match, n) /\ FewLoseNothing(match, n)
<1> DEFINE R    == [g \in Groups |-> RowsOf(match, g)]
           C    == [g \in Groups |-> CutRows(match, g, n)]
           kept == [R EXCEPT !["sku"] = C["sku"]]
           U    == UNION {R[g] : g \in Groups}
           W    == UNION {kept[g] : g \in Groups}
<1>1. Groups = {"sku", "name", "supplier"}
  BY DEF Groups, Priority
<1>2. ASSUME NEW g \in Groups
      PROVE  /\ R[g] \in SUBSET Hit /\ IsFiniteSet(R[g])
             /\ \A x, y \in R[g] : x.id = y.id => x = y
  BY RowsAreHits
<1>3. SkuLimit \in Nat
  BY SearchLimits
<1>4. /\ C["sku"] = First(SkuLimit, R["sku"])
      /\ C["name"] = First(n, R["name"]) /\ C["supplier"] = First(n, R["supplier"])
  BY <1>1 DEF CutRows
<1>5. kept["sku"] = C["sku"] /\ kept["name"] = R["name"] /\ kept["supplier"] = R["supplier"]
  BY <1>1
<1>6. /\ Hits(match, n) = First(n, Merged(UNION {C[g] : g \in Groups}))
      /\ AllHits(match, n) = First(n, Merged(U))
  <2>1. UNION {CutRows(match, g, n) : g \in Groups} = UNION {C[g] : g \in Groups}
    OBVIOUS
  <2>2. UNION {RowsOf(match, g) : g \in Groups} = U
    OBVIOUS
  <2>3. QED
    BY <2>1, <2>2 DEF Hits, AllHits
<1>7. RowsOf(match, "sku") = R["sku"] /\ CutRows(match, "sku", n) = C["sku"]
  BY <1>1
<1>8. W = CutRows(match, "sku", n) \cup RowsOf(match, "name") \cup RowsOf(match, "supplier")
  BY <1>1, <1>5, <1>7
<1> HIDE DEF R, C
<1>9. C["sku"] \subseteq R["sku"] /\ IsFiniteSet(C["sku"])
  <2>1. C["sku"] \subseteq R["sku"]
    BY <1>4 DEF First
  <2>2. QED
    BY <1>1, <1>2, <2>1, FS_Subset
<1>10. MayCut(R["name"], C["name"], n) /\ MayCut(R["supplier"], C["supplier"], n)
  BY <1>1, <1>2, <1>4, LimitMayCut
<1>11. Hits(match, n) = First(n, Merged(W))
  <2>1. MayCut(C["sku"], C["sku"], n)
    BY <1>1, <1>2, <1>9, AllMayStay
  <2>2. \A g \in Groups : MayCut(kept[g], C[g], n)
    BY <1>1, <1>5, <1>10, <2>1
  <2> HIDE DEF kept
  <2>3. QED
    BY <1>6, <2>2, CutsMerge
<1>12. OnlyNamesCut(match, n)
  BY <1>8, <1>11 DEF OnlyNamesCut
<1>13. FewLoseNothing(match, n)
  <2>1. ASSUME n <= SkuLimit \/ Cardinality(R["sku"]) <= SkuLimit
        PROVE  Hits(match, n) = AllHits(match, n)
    <3>1. MayCut(R["sku"], C["sku"], n)
      BY <1>1, <1>2, <1>3, <1>4, <2>1, LimitMayCut
    <3>2. \A g \in Groups : MayCut(R[g], C[g], n)
      BY <1>1, <1>10, <3>1
    <3>3. QED
      BY <1>6, <3>2, CutsMerge
  <2>2. QED
    BY <1>7, <2>1 DEF FewLoseNothing
<1>14. U \in SUBSET Hit /\ IsFiniteSet(U) /\ W \in SUBSET U
  <2>1. U \in SUBSET Hit /\ U = (R["sku"] \cup R["name"]) \cup R["supplier"]
    BY <1>1, <1>2
  <2>2. IsFiniteSet(R["sku"]) /\ IsFiniteSet(R["name"]) /\ IsFiniteSet(R["supplier"])
    BY <1>1, <1>2
  <2>3. W \in SUBSET U
    BY <1>1, <1>5, <1>9
  <2> HIDE DEF U, W
  <2>4. IsFiniteSet(R["sku"] \cup R["name"])
    BY <2>2, FS_Union, Zenon
  <2>5. IsFiniteSet((R["sku"] \cup R["name"]) \cup R["supplier"])
    BY <2>2, <2>4, FS_Union, Zenon
  <2>6. QED
    BY <2>1, <2>3, <2>5
\* A lost hit is not in W: there it would be placed as well.
<1>15. ASSUME NEW h \in AllHits(match, n), h \notin Hits(match, n)
       PROVE  h \in RowsOf(match, "sku") \ CutRows(match, "sku", n)
  <2>1. h \in Merged(U) /\ Rank(Merged(U), h) < n
    BY <1>6 DEF First, Rank, Ahead
  <2>2. h \in U /\ h \in Hit
    BY <1>14, <2>1 DEF Merged
  <2>3. h \notin W
    <3> SUFFICES ASSUME h \in W PROVE FALSE
      OBVIOUS
    <3> HIDE DEF U, W
    <3>1. h \in Merged(W)
      BY <1>14, <2>1 DEF Merged
    <3>2. Rank(Merged(W), h) < n
      BY <1>14, <2>1, <2>2, PlacedByHits
    <3>3. h \in First(n, Merged(W))
      BY <3>1, <3>2 DEF First, Rank, Ahead
    <3>4. QED
      BY <1>11, <1>15, <3>3
  <2>4. QED
    BY <1>1, <1>5, <1>7, <2>2, <2>3
<1>16. LostAreArticles(match, n)
  BY <1>15 DEF LostAreArticles
<1>17. QED
  BY <1>12, <1>13, <1>16

\* So it is for every search of the specification, whatever its limits (five
\* and fifty in the code) and however many products match (search).
THEOREM SearchesLoseOnlyArticles == Spec => []OnlyArticlesAreLost
<1>1. OnlyArticlesAreLost
  <2>1. ASSUME NEW n \in 1..MaxLimit, NEW m \in Matches
        PROVE  OnlyNamesCut(m, n) /\ LostAreArticles(m, n) /\ FewLoseNothing(m, n)
    <3>1. MaxLimit \in Nat /\ Found \in Nat /\ TopScore \in Nat
      BY SearchLimits
    <3>2. IsFiniteSet(1..Found) /\ 1..Found \in SUBSET Nat /\ n \in Nat
      <4>1. 1 \in Int /\ Found \in Int /\ 1..Found \in SUBSET Nat /\ n \in Nat
        BY <3>1
      <4>2. IsFiniteSet(1..Found)
        BY <4>1, FS_Interval, Zenon
      <4>3. QED
        BY <4>1, <4>2
    <3>3. m \in [1..Found -> [Groups -> Nat]]
      BY <3>1 DEF Matches, Groups, Priority
    <3>4. QED
      BY <3>2, <3>3, CutsLoseOnlyArticles
  <2>2. QED
    BY <2>1 DEF OnlyArticlesAreLost
<1>2. QED
  BY <1>1, PTL
=============================================================================
