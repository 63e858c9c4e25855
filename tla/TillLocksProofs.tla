-------------------------- MODULE TillLocksProofs --------------------------
(***************************************************************************)
(* What holds of the till's row locks for any number of requests, rows and *)
(* connections: close deletes no receipt that was paid, and requests that  *)
(* lock in the usual order deadlock only over rows of one table.           *)
(***************************************************************************)
EXTENDS TillLocks, SumsProofs

-----------------------------------------------------------------------------
(* Plans: what a transaction does, step by step *)

Kinds == {"lock", "query", "read"}
Step  == [kind : Kinds, rows : SUBSET Rows]

LEMMA Concatenated ==
  ASSUME NEW s \in Seq(Step), NEW t \in Seq(Step)
  PROVE  /\ s \o t \in Seq(Step) /\ Len(s \o t) = Len(s) + Len(t)
         /\ Len(s) \in Nat /\ Len(t) \in Nat
         /\ \A k \in 1..Len(s) : (s \o t)[k] = s[k]
         /\ \A k \in 1..Len(t) : (s \o t)[Len(s) + k] = t[k]
OBVIOUS

Drafted == {"pay", "refund", "edit", "cancel", "addTag", "addUnits"}

\* The step of a transaction at which it reads.
ReadsAt(j) == IF j.nested THEN 3 ELSE 2

LEMMA OneStep ==
  ASSUME NEW x \in Step
  PROVE  <<x>> \in Seq(Step) /\ Len(<<x>>) = 1 /\ DOMAIN <<x>> = {1} /\ <<x>>[1] = x
OBVIOUS

LEMMA OneLock ==
  ASSUME NEW table \in Tables, NEW ids \in SUBSET Ids
  PROVE  /\ Lock(table, ids) \in Seq(Step) /\ Len(Lock(table, ids)) \in {0, 1}
         /\ ids # {} => Len(Lock(table, ids)) = 1
         /\ \A k \in DOMAIN Lock(table, ids) :
              Lock(table, ids)[k] = [kind |-> "lock", rows |-> {table} \X ids]
<1>1. [kind |-> "lock", rows |-> {table} \X ids] \in Step
  BY DEF Step, Kinds, Rows
<1>2. CASE ids = {}
  BY <1>2 DEF Lock
<1>3. CASE ids # {}
  <2>1. Lock(table, ids) = <<[kind |-> "lock", rows |-> {table} \X ids]>>
    BY <1>3 DEF Lock
  <2> DEFINE x == [kind |-> "lock", rows |-> {table} \X ids]
  <2> HIDE DEF x
  <2>2. <<x>> \in Seq(Step) /\ Len(<<x>>) = 1 /\ DOMAIN <<x>> = {1} /\ <<x>>[1] = x
    BY <1>1, OneStep DEF x
  <2>3. Lock(table, ids) = <<x>>
    BY <2>1 DEF x
  <2>4. \A k \in DOMAIN Lock(table, ids) : Lock(table, ids)[k] = x
    BY <2>2, <2>3
  <2>5. QED
    BY <2>2, <2>3, <2>4 DEF x
<1>4. QED
  BY <1>2, <1>3

LEMMA JobShapes ==
  ASSUME NEW j \in Job
  PROVE  /\ j.nested \in BOOLEAN
         /\ j.op \in Drafted \cup {"close", "setStatus", "move", "count"}
         /\ j.op \in Drafted => j.sale \in Sales
         /\ j.op = "addTag" => j.item \in Items
         /\ j.op = "addUnits" => j.product \in Products
         /\ j.op = "close" => j.shift \in Shifts
         /\ j.op \in {"setStatus", "move"} => j.item \in Items
         /\ j.op = "count" => j.items \subseteq Items
BY DEF Job, Drafted

LEMMA Connections == /\ Query \in Seq(Step) /\ Len(Query) = 1 /\ Query[1].kind = "query"
                     /\ Read \in Seq(Step) /\ Len(Read) = 1 /\ Read[1].kind = "read"
BY DEF Query, Read, Step, Kinds

\* The beginning of the transactions that read: a lock, perhaps a query, and
\* the read.
Begins(b, j, locks) ==
  /\ b \in Seq(Step) /\ Len(b) = ReadsAt(j)
  /\ b[1] = [kind |-> "lock", rows |-> locks]
  /\ b[ReadsAt(j)].kind = "read"
  /\ j.nested => b[2].kind = "query"

\* One lock, the check of access and the read are such a beginning.
LEMMA Beginning ==
  ASSUME NEW j \in Job, NEW table \in Tables, NEW id \in Ids
  PROVE  Begins(Lock(table, {id}) \o Access(j) \o Read, j, {table} \X {id})
<1>1. /\ Lock(table, {id}) \in Seq(Step) /\ Len(Lock(table, {id})) = 1
      /\ Lock(table, {id})[1] = [kind |-> "lock", rows |-> {table} \X {id}]
  BY OneLock DEF Lock
<1>2. Access(j) \in Seq(Step) /\ Len(Access(j)) = (IF j.nested THEN 1 ELSE 0)
      /\ (j.nested => Access(j)[1].kind = "query")
  <2>1. CASE j.nested
    BY <2>1, Connections DEF Access
  <2>2. CASE ~j.nested
    BY <2>2 DEF Access
  <2>3. QED
    BY <2>1, <2>2, JobShapes
<1> DEFINE s == Lock(table, {id})
           a == Access(j)
<1> HIDE DEF s, a
<1>3. s \in Seq(Step) /\ Len(s) = 1 /\ s[1] = [kind |-> "lock", rows |-> {table} \X {id}]
  BY <1>1 DEF s
<1>4. /\ s \o a \in Seq(Step) /\ Len(s \o a) = 1 + Len(a) /\ (s \o a)[1] = s[1]
      /\ j.nested => (s \o a)[2].kind = "query"
  <2>1. /\ s \o a \in Seq(Step) /\ Len(s \o a) = 1 + Len(a)
        /\ \A k \in 1..1 : (s \o a)[k] = s[k]
        /\ \A k \in 1..Len(a) : (s \o a)[1 + k] = a[k]
    <3>1. a \in Seq(Step)
      BY <1>2 DEF a
    <3>2. /\ s \o a \in Seq(Step) /\ Len(s \o a) = Len(s) + Len(a)
          /\ \A k \in 1..Len(s) : (s \o a)[k] = s[k]
          /\ \A k \in 1..Len(a) : (s \o a)[Len(s) + k] = a[k]
      BY <1>3, <3>1, Concatenated
    <3>3. QED
      BY <1>3, <3>2
  <2>2. j.nested => (s \o a)[1 + 1] = a[1]
    BY <1>2, <2>1 DEF a
  <2>3. QED
    BY <1>2, <2>1, <2>2 DEF a
<1> DEFINE b == s \o a
<1> HIDE DEF b
<1>5. /\ b \o Read \in Seq(Step) /\ Len(b \o Read) = Len(b) + 1
      /\ \A k \in 1..Len(b) : (b \o Read)[k] = b[k]
      /\ (b \o Read)[Len(b) + 1] = Read[1]
  BY <1>4, Connections, Concatenated DEF b
<1>6. Len(b) + 1 = ReadsAt(j) /\ Len(b) \in 1..2 /\ (j.nested => Len(b) = 2)
  BY <1>2, <1>4 DEF a, b, ReadsAt
<1>7. b \o Read \in Seq(Step) /\ Len(b \o Read) = ReadsAt(j)
  BY <1>5, <1>6
<1>8. (b \o Read)[1] = [kind |-> "lock", rows |-> {table} \X {id}]
  <2>1. 1 \in 1..Len(b) /\ b[1] = s[1]
    BY <1>4, <1>6 DEF b
  <2>2. QED
    BY <1>3, <1>5, <2>1
<1>9. (b \o Read)[ReadsAt(j)].kind = "read"
  BY <1>5, <1>6, Connections
<1>10. j.nested => (b \o Read)[2].kind = "query"
  <2>1. j.nested => 2 \in 1..Len(b) /\ b[2].kind = "query"
    BY <1>4, <1>6 DEF b
  <2>2. QED
    BY <1>5, <2>1
<1>11. Begins(b \o Read, j, {table} \X {id})
  BY <1>7, <1>8, <1>9, <1>10 DEF Begins
<1>12. QED
  BY <1>11 DEF s, a, b

\* p goes on after b with nothing but locks.
LocksOnly(t)  == t \in Seq(Step) /\ \A k \in DOMAIN t : t[k].kind = "lock"
GoesOn(p, b) ==
  /\ p \in Seq(Step) /\ b \in Seq(Step) /\ Len(b) <= Len(p)
  /\ \A k \in 1..Len(b) : p[k] = b[k]
  /\ \A k \in DOMAIN p : k > Len(b) => p[k].kind = "lock"

\* Locks after a plan that goes on after b go on after b too.
LEMMA GoesOnMore ==
  ASSUME NEW p, NEW b, NEW t, GoesOn(p, b), LocksOnly(t)
  PROVE  GoesOn(p \o t, b)
<1>1. p \in Seq(Step) /\ t \in Seq(Step) /\ b \in Seq(Step)
  BY DEF GoesOn, LocksOnly
<1>2. /\ p \o t \in Seq(Step) /\ Len(p \o t) = Len(p) + Len(t)
      /\ Len(p) \in Nat /\ Len(t) \in Nat /\ Len(b) \in Nat
      /\ \A k \in 1..Len(p) : (p \o t)[k] = p[k]
      /\ \A k \in 1..Len(t) : (p \o t)[Len(p) + k] = t[k]
      /\ DOMAIN (p \o t) = 1..Len(p \o t) /\ DOMAIN p = 1..Len(p) /\ DOMAIN t = 1..Len(t)
  BY <1>1, Concatenated
<1> DEFINE q == p \o t
<1> HIDE DEF q
<1>3. \A k \in 1..Len(b) : q[k] = b[k]
  BY <1>2 DEF GoesOn, q
<1>4. ASSUME NEW k \in 1..Len(q), k > Len(b) PROVE q[k].kind = "lock"
  <2>1. CASE k <= Len(p)
    BY <1>2, <1>4, <2>1 DEF GoesOn, q
  <2>2. CASE k > Len(p)
    <3>1. k - Len(p) \in 1..Len(t) /\ Len(p) + (k - Len(p)) = k
      BY <1>2, <1>4, <2>2 DEF q
    <3>2. q[k] = t[k - Len(p)]
      BY <1>2, <3>1 DEF q
    <3>3. QED
      BY <1>2, <3>1, <3>2 DEF LocksOnly
  <2>3. QED
    BY <1>2, <1>4, <2>1, <2>2 DEF q
<1>5. QED
  BY <1>1, <1>2, <1>3, <1>4 DEF GoesOn, q

LEMMA GoesOnItself ==
  ASSUME NEW b \in Seq(Step)
  PROVE  GoesOn(b, b)
BY DEF GoesOn

LEMMA LockLocks ==
  ASSUME NEW table \in Tables, NEW ids \in SUBSET Ids
  PROVE  LocksOnly(Lock(table, ids))
BY OneLock DEF LocksOnly

LEMMA LocksTogether ==
  ASSUME NEW s, NEW t, LocksOnly(s), LocksOnly(t)
  PROVE  LocksOnly(s \o t)
<1>1. s \in Seq(Step) /\ t \in Seq(Step)
  BY DEF LocksOnly
<1>2. GoesOn(s, <<>>)
  BY DEF LocksOnly, GoesOn
<1>3. GoesOn(s \o t, <<>>)
  BY <1>2, GoesOnMore
<1>4. QED
  BY <1>3 DEF GoesOn, LocksOnly

LEMMA TableNames ==
  /\ "sales" \in Tables /\ "sale_items" \in Tables /\ "shifts" \in Tables
  /\ "items" \in Tables /\ "products" \in Tables /\ "receipt_sequences" \in Tables
BY DEF Tables

LEMMA RowIds ==
  /\ Sales \subseteq Ids /\ Shifts \subseteq Ids /\ Items \subseteq Ids /\ Products \subseteq Ids
  /\ Counter \in Ids
  /\ \A s \in Sales : ShiftOf[s] \in Ids /\ LineItems[s] \subseteq Ids /\ Goods(s) \subseteq Ids
  /\ \A i \in Items : ProductOf[i] \in Ids
  /\ \A p \in Products : Oldest[p] \in Ids
BY References DEF Ids, Goods

\* What every transaction on a draft, or on a receipt that is refunded, begins
\* with.
LEMMA DraftPlans ==
  ASSUME NEW j \in Job, j.op \in Drafted, NEW drafts
  PROVE  GoesOn(Steps(j, drafts), OfDraft(j))
<1>1. j.sale \in Sales /\ j.sale \in Ids
  BY JobShapes, RowIds
<1>2. OfDraft(j) \in Seq(Step)
  <2>1. "sales" \in Tables
    BY TableNames
  <2>2. Begins(OfDraft(j), j, {"sales"} \X {j.sale})
    BY <1>1, <2>1, Beginning DEF OfDraft
  <2>3. QED
    BY <2>2 DEF Begins
<1>3. GoesOn(OfDraft(j), OfDraft(j))
  BY <1>2, GoesOnItself
<1>4. GoesOn(Settles(j), OfDraft(j))
  <2>1. /\ LocksOnly(ShiftFirst(j.sale)) /\ LocksOnly(Lock("items", LineItems[j.sale]))
        /\ LocksOnly(Lock("products", Goods(j.sale)))
    BY <1>1, RowIds, TableNames, LockLocks DEF ShiftFirst
  <2>2. GoesOn(OfDraft(j) \o ShiftFirst(j.sale), OfDraft(j))
    BY <1>3, <2>1, GoesOnMore
  <2>3. GoesOn((OfDraft(j) \o ShiftFirst(j.sale)) \o Lock("items", LineItems[j.sale]), OfDraft(j))
    BY <2>1, <2>2, GoesOnMore
  <2>4. QED
    BY <2>1, <2>3, GoesOnMore DEF Settles
<1>5. CASE j.op = "pay"
  <2>1. LocksOnly(Lock("receipt_sequences", {Counter}))
    BY RowIds, TableNames, LockLocks
  <2>2. GoesOn(Settles(j) \o Lock("receipt_sequences", {Counter}), OfDraft(j))
    BY <1>4, <2>1, GoesOnMore
  <2>3. QED
    BY <1>5, <2>2 DEF Steps
<1>6. CASE j.op = "refund"
  BY <1>4, <1>6 DEF Steps
<1>7. CASE j.op \in {"edit", "cancel"}
  <2>1. LocksOnly(Lock("sale_items", {j.sale}))
    BY <1>1, TableNames, LockLocks
  <2>2. GoesOn(OfDraft(j) \o Lock("sale_items", {j.sale}), OfDraft(j))
    BY <1>3, <2>1, GoesOnMore
  <2>3. CASE j.op = "edit"
    BY <2>2, <2>3 DEF Steps
  <2>4. CASE j.op = "cancel"
    BY <2>2, <2>4 DEF Steps
  <2>5. QED
    BY <1>7, <2>3, <2>4
<1>8. CASE j.op = "addTag"
  <2>1. j.item \in Items /\ {j.item} \in SUBSET Ids /\ {ProductOf[j.item]} \in SUBSET Ids
    BY <1>8, JobShapes, RowIds
  <2>2. LocksOnly(Lock("items", {j.item})) /\ LocksOnly(Lock("products", {ProductOf[j.item]}))
    BY <2>1, TableNames, LockLocks
  <2>3. LocksOnly(AddsTag(j))
    BY <2>2, LocksTogether DEF AddsTag
  <2>4. GoesOn(OfDraft(j) \o AddsTag(j), OfDraft(j))
    BY <1>3, <2>3, GoesOnMore
  <2>5. QED
    BY <1>8, <2>4 DEF Steps
<1>9. CASE j.op = "addUnits"
  <2>1. j.product \in Products /\ {j.product} \in SUBSET Ids /\ {Oldest[j.product]} \in SUBSET Ids
    BY <1>9, JobShapes, RowIds
  <2>2. LocksOnly(Lock("products", {j.product})) /\ LocksOnly(Lock("items", {Oldest[j.product]}))
    BY <2>1, TableNames, LockLocks
  <2>3. LocksOnly(AddsUnits(j))
    BY <2>2, LocksTogether DEF AddsUnits
  <2>4. GoesOn(OfDraft(j) \o AddsUnits(j), OfDraft(j))
    BY <1>3, <2>3, GoesOnMore
  <2>5. QED
    BY <1>9, <2>4 DEF Steps
<1>10. QED
  BY <1>5, <1>6, <1>7, <1>8, <1>9 DEF Drafted

\* A payment or refund has locked the shift when it comes to its end.
LEMMA SettlePlans ==
  ASSUME NEW j \in Job, j.op \in {"pay", "refund"}, NEW drafts
  PROVE  GoesOn(Steps(j, drafts), OfDraft(j) \o ShiftFirst(j.sale))
<1>1. j.sale \in Sales /\ j.sale \in Ids
  BY JobShapes, RowIds DEF Drafted
<1>2. OfDraft(j) \in Seq(Step)
  <2>1. "sales" \in Tables
    BY TableNames
  <2>2. Begins(OfDraft(j), j, {"sales"} \X {j.sale})
    BY <1>1, <2>1, Beginning DEF OfDraft
  <2>3. QED
    BY <2>2 DEF Begins
<1>3. ShiftFirst(j.sale) \in Seq(Step)
  BY <1>1, RowIds, TableNames, OneLock DEF ShiftFirst
<1>4. OfDraft(j) \o ShiftFirst(j.sale) \in Seq(Step)
  BY <1>2, <1>3, Concatenated
<1>5. GoesOn(OfDraft(j) \o ShiftFirst(j.sale), OfDraft(j) \o ShiftFirst(j.sale))
  BY <1>4, GoesOnItself
<1>6. /\ LocksOnly(Lock("items", LineItems[j.sale])) /\ LocksOnly(Lock("products", Goods(j.sale)))
      /\ LocksOnly(Lock("receipt_sequences", {Counter}))
  BY <1>1, RowIds, TableNames, LockLocks
<1>7. GoesOn((OfDraft(j) \o ShiftFirst(j.sale)) \o Lock("items", LineItems[j.sale]),
             OfDraft(j) \o ShiftFirst(j.sale))
  BY <1>5, <1>6, GoesOnMore
<1>8. GoesOn(Settles(j), OfDraft(j) \o ShiftFirst(j.sale))
  BY <1>6, <1>7, GoesOnMore DEF Settles
<1>9. GoesOn(Settles(j) \o Lock("receipt_sequences", {Counter}), OfDraft(j) \o ShiftFirst(j.sale))
  BY <1>6, <1>8, GoesOnMore
<1>10. CASE j.op = "pay"
  BY <1>9, <1>10 DEF Steps
<1>11. CASE j.op = "refund"
  BY <1>8, <1>11 DEF Steps
<1>12. QED
  BY <1>10, <1>11

\* close: the shift, the read, and if drafts were read their rows.
ClosesShift(j) == Lock("shifts", {j.shift}) \o Access(j) \o Read

LEMMA ClosePlans ==
  ASSUME NEW j \in Job, j.op = "close", NEW drafts \in SUBSET Sales
  PROVE  /\ GoesOn(Steps(j, drafts), ClosesShift(j))
         /\ drafts = {} => Len(Steps(j, drafts)) = ReadsAt(j)
         /\ drafts # {} =>
              /\ Len(Steps(j, drafts)) = ReadsAt(j) + 2
              /\ Steps(j, drafts)[ReadsAt(j) + 2] = [kind |-> "lock", rows |-> {"sales"} \X drafts]
<1>1. j.shift \in Ids /\ drafts \in SUBSET Ids /\ ReadsAt(j) \in {2, 3}
  BY JobShapes, RowIds DEF ReadsAt
<1> DEFINE b == ClosesShift(j)
           l == Lock("sale_items", drafts)
           m == Lock("sales", drafts)
<1>2. b \in Seq(Step) /\ Len(b) = ReadsAt(j)
  <2>1. "shifts" \in Tables
    BY TableNames
  <2>2. Begins(ClosesShift(j), j, {"shifts"} \X {j.shift})
    BY <1>1, <2>1, Beginning DEF ClosesShift
  <2>3. QED
    BY <2>2 DEF Begins
<1>3. LocksOnly(l) /\ LocksOnly(m)
  BY <1>1, LockLocks, TableNames
<1>4. Steps(j, drafts) = (b \o l) \o m
  BY DEF Steps, Closes, ClosesShift
<1>5. /\ Len(l) \in {0, 1} /\ Len(m) \in {0, 1} /\ (drafts # {} => Len(l) = 1 /\ Len(m) = 1)
      /\ drafts # {} => m[1] = [kind |-> "lock", rows |-> {"sales"} \X drafts]
      /\ drafts = {} => Len(l) = 0 /\ Len(m) = 0
  BY <1>1, OneLock, TableNames DEF Lock
<1> HIDE DEF b, l, m
<1>6. GoesOn(b, b)
  BY <1>2, GoesOnItself
<1>7. GoesOn(b \o l, b)
  BY <1>3, <1>6, GoesOnMore
<1>8. GoesOn((b \o l) \o m, b)
  BY <1>3, <1>7, GoesOnMore
<1>9. /\ Len(b \o l) = Len(b) + Len(l) /\ Len((b \o l) \o m) = Len(b \o l) + Len(m)
      /\ \A k \in 1..Len(m) : ((b \o l) \o m)[Len(b \o l) + k] = m[k]
  <2>1. b \o l \in Seq(Step) /\ l \in Seq(Step) /\ m \in Seq(Step)
    BY <1>3, <1>7 DEF GoesOn, LocksOnly
  <2>2. QED
    BY <1>2, <2>1, Concatenated
<1> DEFINE p == (b \o l) \o m
<1>10. drafts = {} => Len(p) = ReadsAt(j)
  BY <1>1, <1>2, <1>5, <1>9
<1>11. drafts # {} => Len(b \o l) = ReadsAt(j) + 1 /\ Len(p) = ReadsAt(j) + 2
  BY <1>1, <1>2, <1>5, <1>9
<1>12. drafts # {} => p[ReadsAt(j) + 2] = m[1]
  <2>1. drafts # {} => 1 \in 1..Len(m) /\ (ReadsAt(j) + 1) + 1 = ReadsAt(j) + 2
    BY <1>1, <1>5
  <2> HIDE DEF p
  <2>2. \A k \in 1..Len(m) : p[Len(b \o l) + k] = m[k]
    BY <1>9 DEF p
  <2>3. QED
    BY <1>11, <2>1, <2>2
<1> HIDE DEF p
<1>13. Steps(j, drafts) = p
  BY <1>4 DEF p
<1>14. GoesOn(p, b)
  BY <1>8 DEF p
<1>15. QED
  BY <1>5, <1>10, <1>11, <1>12, <1>13, <1>14 DEF b

\* A plan is a sequence of steps.
LEMMA PlanType ==
  ASSUME NEW j \in Job, NEW drafts \in SUBSET Sales
  PROVE  Steps(j, drafts) \in Seq(Step)
<1>1. CASE j.op \in Drafted
  BY <1>1, DraftPlans DEF GoesOn
<1>2. CASE j.op = "close"
  BY <1>2, ClosePlans DEF GoesOn
<1>3. Access(j) \in Seq(Step)
  BY Connections, JobShapes DEF Access
<1>4. ASSUME NEW i \in Items PROVE Lock("items", {i}) \in Seq(Step)
  BY RowIds, TableNames, OneLock
<1>5. CASE j.op = "setStatus"
  <2>1. Lock("items", {j.item}) \o Access(j) \in Seq(Step)
    BY <1>3, <1>4, <1>5, JobShapes, Concatenated
  <2>2. QED
    BY <1>5, <2>1 DEF Steps
<1>6. CASE j.op = "move"
  <2>1. Lock("items", {j.item}) \o Access(j) \in Seq(Step)
    BY <1>3, <1>4, <1>6, JobShapes, Concatenated
  <2>2. (Lock("items", {j.item}) \o Access(j)) \o Query \in Seq(Step)
    BY <2>1, Connections, Concatenated
  <2>3. QED
    BY <1>6, <2>2 DEF Steps
<1>7. CASE j.op = "count"
  <2>1. j.items \in SUBSET Ids
    BY <1>7, JobShapes, RowIds
  <2>2. Lock("items", j.items) \in Seq(Step)
    BY <2>1, OneLock, TableNames
  <2>3. QED
    BY <1>7, <2>2 DEF Steps
<1>8. QED
  BY <1>1, <1>2, <1>5, <1>6, <1>7, JobShapes

\* Where a transaction stands.
LEMMA AtPlan ==
  ASSUME TypeOK, NEW r \in Requests
  PROVE  /\ job[r] \in Job /\ step[r] \in Nat /\ Plan(r) \in Seq(Step) /\ Len(Plan(r)) \in Nat
         /\ DOMAIN Plan(r) = 1..Len(Plan(r))
         /\ \A k \in DOMAIN Plan(r) : Plan(r)[k] \in Step
         /\ \A kind : At(r, kind) =>
              step[r] \in DOMAIN Plan(r) /\ Current(r) = Plan(r)[step[r]]
              /\ Current(r).kind = kind /\ Current(r).rows \subseteq Rows
<1>1. job[r] \in Job /\ step[r] \in Nat /\ Plan(r) \in Seq(Step)
  BY PlanType DEF TypeOK, Plan
<1>2. /\ Len(Plan(r)) \in Nat /\ DOMAIN Plan(r) = 1..Len(Plan(r))
      /\ \A k \in DOMAIN Plan(r) : Plan(r)[k] \in Step
  BY <1>1
<1>3. QED
  BY <1>1, <1>2 DEF At, Current, Step

SameUpTo(p, q, n) == \A k \in 1..n : p[k] = q[k]

\* A plan that goes on after such a beginning reads there and nowhere else.
LEMMA ReadsOnce ==
  ASSUME NEW j \in Job, NEW table \in Tables, NEW id \in Ids, NEW q,
         GoesOn(q, Lock(table, {id}) \o Access(j) \o Read)
  PROVE  /\ ReadsAt(j) \in {2, 3} /\ ReadsAt(j) <= Len(q) /\ q \in Seq(Step)
         /\ q[1] = [kind |-> "lock", rows |-> {table} \X {id}]
         /\ q[ReadsAt(j)].kind = "read"
         /\ \A k \in DOMAIN q : q[k].kind = "read" => k = ReadsAt(j)
         /\ SameUpTo(q, Lock(table, {id}) \o Access(j) \o Read, ReadsAt(j))
<1> DEFINE R == ReadsAt(j)
           b == Lock(table, {id}) \o Access(j) \o Read
<1>1. R \in {2, 3} /\ (R = 3 => j.nested)
  BY DEF ReadsAt
<1>2. /\ b \in Seq(Step) /\ Len(b) = R /\ b[1] = [kind |-> "lock", rows |-> {table} \X {id}]
      /\ b[R].kind = "read" /\ (j.nested => b[2].kind = "query")
  <2>1. Begins(b, j, {table} \X {id})
    BY Beginning
  <2> HIDE DEF b
  <2>2. QED
    BY <2>1 DEF Begins
<1>3. GoesOn(q, b)
  OBVIOUS
<1> HIDE DEF b, R
<1>4. q \in Seq(Step) /\ R <= Len(q) /\ \A k \in 1..R : q[k] = b[k]
  BY <1>2, <1>3 DEF GoesOn
<1>5. 1 \in 1..R /\ 2 \in 1..R /\ R \in 1..R
  BY <1>1
<1>6. ASSUME NEW k \in DOMAIN q, q[k].kind = "read" PROVE k = R
  <2>1. k \in Nat /\ k >= 1
    BY <1>4, <1>6
  <2>2. ~(k > Len(b))
    BY <1>3, <1>6 DEF GoesOn
  <2>3. k <= R
    BY <1>1, <1>2, <2>1, <2>2
  <2>4. k # 1
    BY <1>2, <1>4, <1>5, <1>6
  <2>5. R = 3 => k # 2
    BY <1>1, <1>2, <1>4, <1>5, <1>6
  <2>6. QED
    BY <1>1, <2>1, <2>3, <2>4, <2>5
<1>7. QED
  BY <1>1, <1>2, <1>4, <1>5, <1>6 DEF R, b, SameUpTo

\* What the plan of a transaction that reads says of its steps.
Reading(j, p) ==
  LET R == ReadsAt(j) IN
  /\ R \in {2, 3} /\ R <= Len(p) /\ p[1].kind = "lock" /\ p[R].kind = "read"
  /\ \A k \in DOMAIN p : p[k].kind = "read" => k = R

LEMMA DraftReads ==
  ASSUME NEW j \in Job, j.op \in Drafted, NEW d
  PROVE  Reading(j, Steps(j, d)) /\ <<"sales", j.sale>> \in Steps(j, d)[1].rows
<1>1. j.sale \in Ids /\ "sales" \in Tables
  BY JobShapes, RowIds, TableNames
<1>2. GoesOn(Steps(j, d), Lock("sales", {j.sale}) \o Access(j) \o Read)
  BY DraftPlans DEF OfDraft
<1> DEFINE p == Steps(j, d)
<1> HIDE DEF p
<1>3. /\ ReadsAt(j) \in {2, 3} /\ ReadsAt(j) <= Len(p)
      /\ p[1] = [kind |-> "lock", rows |-> {"sales"} \X {j.sale}]
      /\ p[ReadsAt(j)].kind = "read" /\ \A k \in DOMAIN p : p[k].kind = "read" => k = ReadsAt(j)
  BY <1>1, <1>2, ReadsOnce DEF p
<1>4. QED
  BY <1>3 DEF Reading, p

LEMMA CloseReads ==
  ASSUME NEW j \in Job, j.op = "close", NEW d \in SUBSET Sales
  PROVE  /\ Reading(j, Steps(j, d)) /\ <<"shifts", j.shift>> \in Steps(j, d)[1].rows
         /\ \A k \in 1..ReadsAt(j) : Steps(j, d)[k] = ClosesShift(j)[k]
         /\ d # {} => /\ ReadsAt(j) + 2 = Len(Steps(j, d))
                      /\ Steps(j, d)[ReadsAt(j) + 2].kind = "lock"
                      /\ Steps(j, d)[ReadsAt(j) + 2].rows = {"sales"} \X d
<1>1. j.shift \in Ids /\ "shifts" \in Tables
  BY JobShapes, RowIds, TableNames
<1>2. GoesOn(Steps(j, d), Lock("shifts", {j.shift}) \o Access(j) \o Read)
  BY ClosePlans DEF ClosesShift
<1> DEFINE p == Steps(j, d)
           b == Lock("shifts", {j.shift}) \o Access(j) \o Read
<1>3. d # {} => /\ ReadsAt(j) + 2 = Len(p)
                /\ p[ReadsAt(j) + 2] = [kind |-> "lock", rows |-> {"sales"} \X d]
  BY ClosePlans
<1>4. /\ ReadsAt(j) \in {2, 3} /\ ReadsAt(j) <= Len(p)
      /\ p[1] = [kind |-> "lock", rows |-> {"shifts"} \X {j.shift}]
      /\ p[ReadsAt(j)].kind = "read" /\ \A k \in DOMAIN p : p[k].kind = "read" => k = ReadsAt(j)
      /\ \A k \in 1..ReadsAt(j) : p[k] = b[k]
  <2> HIDE DEF p
  <2>1. GoesOn(p, Lock("shifts", {j.shift}) \o Access(j) \o Read)
    BY <1>2 DEF p
  <2>2. /\ ReadsAt(j) \in {2, 3} /\ ReadsAt(j) <= Len(p)
        /\ p[1] = [kind |-> "lock", rows |-> {"shifts"} \X {j.shift}]
        /\ p[ReadsAt(j)].kind = "read"
        /\ \A k \in DOMAIN p : p[k].kind = "read" => k = ReadsAt(j)
    BY <1>1, <2>1, ReadsOnce
  <2>3. SameUpTo(p, Lock("shifts", {j.shift}) \o Access(j) \o Read, ReadsAt(j))
    BY <1>1, <2>1, ReadsOnce
  <2>4. QED
    BY <2>2, <2>3 DEF SameUpTo
<1> HIDE DEF p, b
<1>5. Reading(j, p) /\ <<"shifts", j.shift>> \in p[1].rows
  BY <1>4 DEF Reading
<1>6. d # {} => /\ ReadsAt(j) + 2 = Len(p) /\ p[ReadsAt(j) + 2].kind = "lock"
                /\ p[ReadsAt(j) + 2].rows = {"sales"} \X d
  BY <1>3
<1>7. QED
  BY <1>4, <1>5, <1>6 DEF p, b, ClosesShift

LEMMA SettleShift ==
  ASSUME NEW j \in Job, j.op \in {"pay", "refund"}, NEW d
  PROVE  LET p == Steps(j, d) IN
         /\ ReadsAt(j) + 1 <= Len(p) /\ p[ReadsAt(j) + 1].kind = "lock"
         /\ <<"shifts", ShiftOf[j.sale]>> \in p[ReadsAt(j) + 1].rows
<1>1. j.sale \in Sales /\ j.sale \in Ids /\ ShiftOf[j.sale] \in Ids /\ "sales" \in Tables
      /\ "shifts" \in Tables /\ ReadsAt(j) \in {2, 3}
  BY JobShapes, RowIds, TableNames DEF Drafted, ReadsAt
<1> DEFINE p == Steps(j, d)
           R == ReadsAt(j)
           b == OfDraft(j)
           l == ShiftFirst(j.sale)
           x == [kind |-> "lock", rows |-> {"shifts"} \X {ShiftOf[j.sale]}]
<1>2. b \in Seq(Step) /\ Len(b) = R
  <2>1. b = Lock("sales", {j.sale}) \o Access(j) \o Read
    BY DEF OfDraft
  <2> HIDE DEF b
  <2>2. QED
    BY <1>1, <2>1, Beginning DEF Begins
<1>3. l \in Seq(Step) /\ Len(l) = 1 /\ l[1] = x
  <2>1. /\ {ShiftOf[j.sale]} \in SUBSET Ids /\ {ShiftOf[j.sale]} # {}
        /\ l = Lock("shifts", {ShiftOf[j.sale]})
    BY <1>1 DEF ShiftFirst
  <2> HIDE DEF l, x
  <2>2. l \in Seq(Step) /\ Len(l) = 1 /\ \A k \in DOMAIN l : l[k] = x
    BY <1>1, <2>1, OneLock DEF x
  <2>3. QED
    BY <2>2
<1>4. GoesOn(p, b \o l)
  BY SettlePlans
<1>5. x.kind = "lock" /\ <<"shifts", ShiftOf[j.sale]>> \in x.rows
  OBVIOUS
<1> HIDE DEF p, R, b, l, x
<1>6. Len(b \o l) = R + 1 /\ (b \o l)[R + 1] = x
  <2>1. Len(b \o l) = Len(b) + Len(l) /\ \A k \in 1..Len(l) : (b \o l)[Len(b) + k] = l[k]
    BY <1>2, <1>3, Concatenated
  <2>2. 1 \in 1..Len(l) /\ Len(b) + 1 = R + 1
    BY <1>2, <1>3
  <2>3. QED
    BY <1>2, <1>3, <2>1, <2>2
<1>7. R + 1 <= Len(p) /\ p[R + 1] = x
  <2>1. R + 1 \in 1..(R + 1)
    BY <1>1 DEF R
  <2>2. QED
    BY <1>4, <1>6, <2>1 DEF GoesOn
<1>8. QED
  BY <1>5, <1>7 DEF p, R

-----------------------------------------------------------------------------
(* Type correctness *)

LEMMA LockTyped ==
  ASSUME TypeOK, NEW r \in Requests, At(r, "lock"), NEW rows \in SUBSET Rows, Locks(r, rows)
  PROVE  held' \in [Requests -> SUBSET Rows] /\ step' \in [Requests -> Nat]
<1>1. held' \in [Requests -> SUBSET Rows]
  BY DEF TypeOK, Locks
<1>2. step[r] + 1 \in Nat
  BY DEF TypeOK
<1>3. QED
  BY <1>1, <1>2 DEF TypeOK, Locks

LEMMA EndTyped ==
  ASSUME TypeOK, NEW r \in Requests, NEW answer \in {"done", "failed"}, Ends(r, answer),
         status' \in [Sales -> {"draft", "paid", "refunded", "gone"}]
  PROVE  TypeOK'
BY DEF TypeOK, Ends

LEMMA TypedStep ==
  ASSUME TypeOK, NEW r \in Requests, Runs(r) \/ Abort(r),
         \A q \in Requests : asks[q] # {} => At(q, "lock")
  PROVE  TypeOK'
<1>1. ASSUME Begin(r) PROVE TypeOK'
  BY <1>1 DEF TypeOK, Begin
<1>2. ASSUME At(r, "lock"), NEW x \in Current(r).rows, Ask(r, x) PROVE TypeOK'
  <2>1. {x} \in SUBSET Rows
    BY <1>2, AtPlan
  <2>2. CASE Free({x})
    <3>1. Locks(r, {x}) /\ UNCHANGED asks
      BY <1>2, <2>2 DEF Ask
    <3>2. held' \in [Requests -> SUBSET Rows] /\ step' \in [Requests -> Nat]
      BY <1>2, <2>1, <3>1, LockTyped
    <3>3. QED
      BY <1>2, <3>1, <3>2 DEF TypeOK, Ask
  <2>3. CASE ~Free({x})
    <3>1. asks' = [asks EXCEPT ![r] = {x}] /\ UNCHANGED <<held, step>>
      BY <1>2, <2>3 DEF Ask
    <3>2. QED
      BY <1>2, <2>1, <3>1 DEF TypeOK, Ask
  <2>4. QED
    BY <2>2, <2>3
<1>3. ASSUME Grant(r) PROVE TypeOK'
  <2>1. asks[r] \in SUBSET Rows /\ At(r, "lock")
    BY <1>3 DEF TypeOK, Grant
  <2>2. held' \in [Requests -> SUBSET Rows] /\ step' \in [Requests -> Nat]
    BY <1>3, <2>1, LockTyped DEF Grant
  <2>3. asks' \in [Requests -> SUBSET Rows]
    BY <1>3 DEF TypeOK, Grant
  <2>4. QED
    BY <1>3, <2>2, <2>3 DEF TypeOK, Grant
<1>4. ASSUME Connect(r) PROVE TypeOK'
  BY <1>4 DEF TypeOK, Connect
<1>5. ASSUME Proceeds(r) PROVE step' \in [Requests -> Nat]
  <2>1. step[r] + 1 \in Nat
    BY DEF TypeOK
  <2>2. QED
    BY <1>5, <2>1 DEF TypeOK, Proceeds
<1>6. ASSUME Release(r) PROVE TypeOK'
  <2>1. conns' \in [Requests -> 0..2]
    BY <1>6 DEF TypeOK, Release
  <2>2. QED
    BY <1>5, <1>6, <2>1 DEF TypeOK, Release
<1>7. ASSUME ReadOn(r) PROVE TypeOK'
  <2> DEFINE d == IF job[r].op = "close"
                  THEN {s \in Sales : ShiftOf[s] = job[r].shift /\ status[s] = "draft"} ELSE {}
  <2>1. d \subseteq Sales /\ listed' = [listed EXCEPT ![r] = d]
    BY <1>7 DEF ReadOn
  <2>2. listed' \in [Requests -> SUBSET Sales]
    <3> HIDE DEF d
    <3> QED BY <2>1 DEF TypeOK
  <2>3. QED
    BY <1>5, <1>7, <2>2 DEF TypeOK, ReadOn
<1>8. ASSUME Refuse(r) \/ Abort(r) PROVE TypeOK'
  <2>1. status' = status /\ Ends(r, "failed")
    BY <1>8 DEF Refuse, Abort
  <2>2. QED
    BY <2>1, EndTyped DEF TypeOK
<1>9. ASSUME Commit(r) PROVE TypeOK'
  <2>1. Ends(r, "done") /\ status' \in [Sales -> {"draft", "paid", "refunded", "gone"}]
    BY <1>9 DEF Commit, TypeOK
  <2>2. QED
    BY <2>1, EndTyped
<1>10. QED
  BY <1>1, <1>2, <1>3, <1>4, <1>6, <1>7, <1>8, <1>9 DEF Runs

-----------------------------------------------------------------------------
(* One request's step leaves the others where they are *)

SameFor(q) ==
  /\ job'[q] = job[q] /\ step'[q] = step[q] /\ asks'[q] = asks[q] /\ held'[q] = held[q]
  /\ conns'[q] = conns[q] /\ listed'[q] = listed[q] /\ outcome'[q] = outcome[q]

LEMMA OthersStay ==
  ASSUME TypeOK, NEW r \in Requests, Runs(r) \/ Abort(r), NEW q \in Requests, q # r
  PROVE  SameFor(q)
<1>1. ASSUME NEW answer, Ends(r, answer) PROVE SameFor(q)
  BY <1>1 DEF TypeOK, Ends, SameFor
<1>2. ASSUME Begin(r) \/ Connect(r) PROVE SameFor(q)
  BY <1>2 DEF TypeOK, Begin, Connect, SameFor
<1>3. ASSUME NEW rows, Locks(r, rows) PROVE held'[q] = held[q] /\ step'[q] = step[q]
  BY <1>3 DEF TypeOK, Locks
<1>4. ASSUME NEW x, Ask(r, x) PROVE SameFor(q)
  <2>1. asks'[q] = asks[q] /\ held'[q] = held[q] /\ step'[q] = step[q]
    <3>1. CASE Free({x})
      BY <1>3, <1>4, <3>1 DEF Ask
    <3>2. CASE ~Free({x})
      BY <1>4, <3>2 DEF Ask, TypeOK
    <3>3. QED
      BY <3>1, <3>2
  <2>2. QED
    BY <1>4, <2>1 DEF Ask, SameFor
<1>5. ASSUME Grant(r) PROVE SameFor(q)
  <2>1. asks'[q] = asks[q] /\ held'[q] = held[q] /\ step'[q] = step[q]
    BY <1>3, <1>5 DEF Grant, TypeOK
  <2>2. QED
    BY <1>5, <2>1 DEF Grant, SameFor
<1>6. ASSUME Release(r) \/ ReadOn(r) PROVE SameFor(q)
  BY <1>6 DEF TypeOK, Release, ReadOn, Proceeds, SameFor
<1>7. QED
  BY <1>1, <1>2, <1>4, <1>5, <1>6 DEF Runs, Abort, Refuse, Commit

LEMMA JobsStay ==
  ASSUME NEW r \in Requests, Runs(r) \/ Abort(r)
  PROVE  job' = job
<1>1. ASSUME NEW answer, Ends(r, answer) PROVE job' = job
  BY <1>1 DEF Ends
<1>2. ASSUME NEW x, Ask(r, x) PROVE job' = job
  BY <1>2 DEF Ask
<1>3. QED
  BY <1>1, <1>2 DEF Runs, Abort, Refuse, Commit, Begin, Grant, Connect, Release, ReadOn

LEMMA PlanStays ==
  ASSUME NEW q \in Requests, SameFor(q)
  PROVE  /\ Plan(q)' = Plan(q) /\ Current(q)' = Current(q) /\ Unanswered(q)' = Unanswered(q)
         /\ \A kind : At(q, kind)' = At(q, kind)
<1>1. Plan(q)' = Plan(q)
  BY DEF SameFor, Plan
<1>2. Current(q)' = Current(q)
  BY <1>1 DEF SameFor, Current
<1>3. QED
  BY <1>1, <1>2 DEF SameFor, At, Unanswered

-----------------------------------------------------------------------------
(* What every transaction under way respects *)

\* No row is locked twice.
Exclusive == \A p, q \in Requests : p # q => held[p] \cap held[q] = {}

\* Whoever waits is at a statement that locks, and waits for one of its rows.
WaitsAtLock(r) ==
  asks[r] # {} =>
    /\ Unanswered(r) /\ At(r, "lock")
    /\ \E x \in Current(r).rows : asks[r] = {x}

\* A second connection is there for a query only.
QueriesAt(r) == conns[r] = 2 => Unanswered(r) /\ At(r, "query")

\* A transaction under way holds every row its statements have locked.
HasLocked(r) ==
  Unanswered(r) =>
    \A k \in DOMAIN Plan(r) :
      k < step[r] /\ Plan(r)[k].kind = "lock" => Plan(r)[k].rows \subseteq held[r]

\* Only close lists drafts, once it has read, and those of its shift.
HasListed(r) ==
  listed[r] # {} =>
    /\ job[r].op = "close" /\ step[r] > ReadsAt(job[r])
    /\ \A s \in listed[r] : ShiftOf[s] = job[r].shift

InPlace(r) == WaitsAtLock(r) /\ QueriesAt(r) /\ HasLocked(r) /\ HasListed(r)

\* The invariant behind everything below.
Orderly == TypeOK /\ Exclusive /\ \A r \in Requests : InPlace(r)

\* A statement gets a row, at once or after waiting.
Takes(r, x) ==
  /\ Unanswered(r) /\ At(r, "lock") /\ x \in Current(r).rows /\ Free({x})
  /\ held' = [held EXCEPT ![r] = @ \cup {x}]
  /\ step'[r] = (IF Current(r).rows \subseteq held[r] \cup {x} THEN step[r] + 1 ELSE step[r])
  /\ asks'[r] = {} /\ UNCHANGED <<job, conns, listed, status, outcome>>

\* Or waits for it.
Asks(r, x) ==
  /\ Unanswered(r) /\ At(r, "lock") /\ x \in Current(r).rows /\ asks'[r] = {x}
  /\ UNCHANGED <<job, conns, listed, status, outcome, held, step>>

\* All that a step of r may be.
StepShape(r) ==
  \/ \E answer \in {"done", "failed"} : Ends(r, answer)
  \/ Begin(r)
  \/ \E x : Takes(r, x) \/ Asks(r, x)
  \/ Connect(r) \/ Release(r) \/ ReadOn(r)

\* Each action of Next is one of these.
LEMMA OwnSteps ==
  ASSUME Orderly, NEW r \in Requests, Runs(r) \/ Abort(r)
  PROVE  StepShape(r)
<1>1. TypeOK /\ WaitsAtLock(r)
  BY DEF Orderly, InPlace
<1>2. ASSUME NEW x, Locks(r, {x})
      PROVE  /\ held' = [held EXCEPT ![r] = @ \cup {x}]
             /\ step'[r] = (IF Current(r).rows \subseteq held[r] \cup {x}
                            THEN step[r] + 1 ELSE step[r])
  BY <1>1, <1>2 DEF Locks, TypeOK
<1>3. ASSUME Unanswered(r), At(r, "lock"), NEW x \in Current(r).rows, Ask(r, x)
      PROVE  Takes(r, x) \/ Asks(r, x)
  <2>1. CASE Free({x})
    <3>1. Locks(r, {x}) /\ UNCHANGED asks
      BY <1>3, <2>1 DEF Ask
    <3>2. QED
      BY <1>2, <1>3, <2>1, <3>1 DEF Ask, Takes
  <2>2. CASE ~Free({x})
    <3>1. asks' = [asks EXCEPT ![r] = {x}] /\ UNCHANGED <<held, step>>
      BY <1>3, <2>2 DEF Ask
    <3>2. asks'[r] = {x}
      BY <1>1, <3>1 DEF TypeOK
    <3>3. QED
      BY <1>3, <3>1, <3>2 DEF Ask, Asks
  <2>3. QED
    BY <2>1, <2>2
<1>4. ASSUME Grant(r) PROVE \E x : Takes(r, x)
  <2>1. asks[r] # {}
    BY <1>4 DEF Grant
  <2>2. Unanswered(r) /\ At(r, "lock")
    BY <1>1, <2>1 DEF WaitsAtLock
  <2>3. PICK x \in Current(r).rows : asks[r] = {x}
    BY <1>1, <2>1 DEF WaitsAtLock
  <2>4. Locks(r, {x}) /\ Free({x})
    BY <1>4, <2>3 DEF Grant
  <2>5. asks'[r] = {}
    BY <1>1, <1>4 DEF Grant, TypeOK
  <2>6. Takes(r, x)
    BY <1>2, <1>4, <2>2, <2>4, <2>5 DEF Grant, Takes
  <2>7. QED
    BY <2>6
<1>5. CASE Abort(r) \/ Refuse(r) \/ Commit(r)
  BY <1>5 DEF Abort, Refuse, Commit, StepShape
<1>6. QED
  BY <1>3, <1>4, <1>5 DEF Runs, StepShape

\* A request's own step: it waits in order.
LEMMA OwnWaits ==
  ASSUME Orderly, NEW r \in Requests, StepShape(r)
  PROVE  WaitsAtLock(r)'
<1>1. TypeOK /\ WaitsAtLock(r)
  BY DEF Orderly, InPlace
<1>2. ASSUME asks'[r] = {} PROVE WaitsAtLock(r)'
  BY <1>2 DEF WaitsAtLock
<1>3. ASSUME ~At(r, "lock"), asks' = asks PROVE WaitsAtLock(r)'
  <2>1. asks[r] = {}
    BY <1>1, <1>3 DEF WaitsAtLock
  <2>2. QED
    BY <1>2, <1>3, <2>1
<1>4. ASSUME NEW x, Takes(r, x) PROVE WaitsAtLock(r)'
  BY <1>2, <1>4 DEF Takes
<1>5. ASSUME NEW x, Asks(r, x) PROVE WaitsAtLock(r)'
  <2>1. Plan(r)' = Plan(r) /\ Current(r)' = Current(r) /\ Unanswered(r)' = Unanswered(r)
        /\ At(r, "lock")' = At(r, "lock")
    BY <1>5 DEF Asks, Plan, Current, Unanswered, At
  <2>2. QED
    BY <1>5, <2>1 DEF Asks, WaitsAtLock
<1>6. ASSUME NEW answer, Ends(r, answer) PROVE WaitsAtLock(r)'
  BY <1>1, <1>2, <1>6 DEF Ends, TypeOK
<1>7. ASSUME Begin(r) PROVE WaitsAtLock(r)'
  <2>1. ~At(r, "lock")
    BY <1>1, <1>7, AtPlan DEF Begin
  <2>2. QED
    BY <1>3, <1>7, <2>1 DEF Begin
<1>8. ASSUME Connect(r) PROVE WaitsAtLock(r)'
  <2>1. ~At(r, "lock")
    BY <1>8 DEF Connect, At
  <2>2. QED
    BY <1>3, <1>8, <2>1 DEF Connect
<1>9. ASSUME Release(r) PROVE WaitsAtLock(r)'
  <2>1. ~At(r, "lock")
    BY <1>9 DEF Release, At, Orderly, InPlace, QueriesAt
  <2>2. QED
    BY <1>3, <1>9, <2>1 DEF Release
<1>10. ASSUME ReadOn(r) PROVE WaitsAtLock(r)'
  <2>1. ~At(r, "lock")
    BY <1>10 DEF ReadOn, At
  <2>2. QED
    BY <1>3, <1>10, <2>1 DEF ReadOn
<1>11. QED
  BY <1>4, <1>5, <1>6, <1>7, <1>8, <1>9, <1>10 DEF StepShape

\* ... it queries in order.
LEMMA OwnQueries ==
  ASSUME Orderly, NEW r \in Requests, StepShape(r)
  PROVE  QueriesAt(r)'
<1>1. TypeOK /\ QueriesAt(r)
  BY DEF Orderly, InPlace
<1>2. ASSUME conns'[r] # 2 PROVE QueriesAt(r)'
  BY <1>2 DEF QueriesAt
<1>3. ASSUME ~At(r, "query"), conns' = conns PROVE QueriesAt(r)'
  <2>1. conns[r] # 2
    BY <1>1, <1>3 DEF QueriesAt
  <2>2. QED
    BY <1>2, <1>3, <2>1
<1>4. ASSUME NEW x, Takes(r, x) \/ Asks(r, x) PROVE QueriesAt(r)'
  <2>1. ~At(r, "query")
    BY <1>4 DEF Takes, Asks, At
  <2>2. QED
    BY <1>3, <1>4, <2>1 DEF Takes, Asks
<1>5. ASSUME NEW answer, Ends(r, answer) PROVE QueriesAt(r)'
  BY <1>1, <1>2, <1>5 DEF Ends, TypeOK
<1>6. ASSUME Begin(r) \/ Release(r) PROVE QueriesAt(r)'
  BY <1>1, <1>2, <1>6 DEF Begin, Release, TypeOK
<1>7. ASSUME Connect(r) PROVE QueriesAt(r)'
  <2>1. Unanswered(r)' = Unanswered(r) /\ At(r, "query")' = At(r, "query")
    BY <1>7 DEF Connect, Plan, Current, Unanswered, At
  <2>2. QED
    BY <1>7, <2>1 DEF Connect, QueriesAt
<1>8. ASSUME ReadOn(r) PROVE QueriesAt(r)'
  <2>1. ~At(r, "query")
    BY <1>8 DEF ReadOn, At
  <2>2. QED
    BY <1>3, <1>8, <2>1 DEF ReadOn
<1>9. QED
  BY <1>4, <1>5, <1>6, <1>7, <1>8 DEF StepShape

\* Only close has a plan that depends on what was listed, and only after the read.
LEMMA PlanAfterRead ==
  ASSUME NEW j \in Job, NEW d \in SUBSET Sales, NEW e \in SUBSET Sales
  PROVE  /\ j.op # "close" => Steps(j, d) = Steps(j, e)
         /\ j.op = "close" => \A k \in 1..ReadsAt(j) : Steps(j, d)[k] = Steps(j, e)[k]
<1>1. j.op # "close" => Steps(j, d) = Steps(j, e)
  BY DEF Steps
<1>2. ASSUME j.op = "close", NEW k \in 1..ReadsAt(j) PROVE Steps(j, d)[k] = Steps(j, e)[k]
  <2>1. Steps(j, d)[k] = ClosesShift(j)[k]
    BY <1>2, CloseReads
  <2>2. Steps(j, e)[k] = ClosesShift(j)[k]
    BY <1>2, CloseReads
  <2>3. QED
    BY <2>1, <2>2
<1>3. QED
  BY <1>1, <1>2

LEMMA ReadStep ==
  ASSUME TypeOK, NEW r \in Requests, At(r, "read"), job[r].op \in Drafted \cup {"close"}
  PROVE  step[r] = ReadsAt(job[r]) /\ Reading(job[r], Plan(r))
<1>1. job[r] \in Job /\ listed[r] \in SUBSET Sales
  BY DEF TypeOK
<1>2. Reading(job[r], Plan(r))
  BY <1>1, DraftReads, CloseReads DEF Plan
<1>3. QED
  BY <1>2 DEF At, Current, Reading

\* Where close reads it lists the drafts of its shift.
LEMMA ReadOnEffect ==
  ASSUME TypeOK, NEW r \in Requests, ReadOn(r)
  PROVE  /\ step'[r] = step[r] + 1 /\ listed'[r] \in SUBSET Sales
         /\ Plan(r)' = Steps(job[r], listed'[r])
         /\ job[r].op # "close" => listed'[r] = {}
         /\ job[r].op = "close" =>
              listed'[r] = {s \in Sales : ShiftOf[s] = job[r].shift /\ status[s] = "draft"}
<1> DEFINE d == IF job[r].op = "close"
                THEN {s \in Sales : ShiftOf[s] = job[r].shift /\ status[s] = "draft"} ELSE {}
<1>1. listed' = [listed EXCEPT ![r] = d] /\ step' = [step EXCEPT ![r] = @ + 1] /\ job' = job
  BY DEF ReadOn, Proceeds
<1>2. d \subseteq Sales /\ (job[r].op # "close" => d = {})
      /\ (job[r].op = "close" =>
            d = {s \in Sales : ShiftOf[s] = job[r].shift /\ status[s] = "draft"})
  OBVIOUS
<1> HIDE DEF d
<1>3. listed'[r] = d /\ step'[r] = step[r] + 1
  BY <1>1 DEF TypeOK
<1>4. QED
  BY <1>1, <1>2, <1>3 DEF Plan

\* ... it holds all it has locked.
LEMMA OwnLocked ==
  ASSUME Orderly, NEW r \in Requests, StepShape(r)
  PROVE  HasLocked(r)'
<1>1. /\ TypeOK /\ HasLocked(r) /\ job[r] \in Job /\ step[r] \in Nat
      /\ Plan(r) \in Seq(Step) /\ DOMAIN Plan(r) = 1..Len(Plan(r)) /\ Len(Plan(r)) \in Nat
  BY AtPlan DEF Orderly, InPlace
<1>2. ASSUME job' = job, listed' = listed, outcome' = outcome, held[r] \subseteq held'[r],
             \/ step'[r] = step[r]
             \/ /\ step'[r] = step[r] + 1
                /\ At(r, "lock") => Current(r).rows \subseteq held'[r]
      PROVE  HasLocked(r)'
  <2>1. Plan(r)' = Plan(r) /\ Unanswered(r)' = Unanswered(r)
    BY <1>2 DEF Plan, Unanswered
  <2>2. ASSUME Unanswered(r), NEW k \in DOMAIN Plan(r), k < step'[r], Plan(r)[k].kind = "lock"
        PROVE  Plan(r)[k].rows \subseteq held'[r]
    <3>1. CASE k < step[r]
      BY <1>1, <1>2, <2>2, <3>1 DEF HasLocked
    <3>2. CASE ~(k < step[r])
      <4>1. step'[r] = step[r] + 1 /\ k = step[r]
        BY <1>1, <1>2, <2>2, <3>2
      <4>2. At(r, "lock") /\ Current(r) = Plan(r)[k]
        BY <2>2, <4>1 DEF At, Current
      <4>3. QED
        BY <1>1, <1>2, <4>1, <4>2
    <3>3. QED
      BY <3>1, <3>2
  <2>3. QED
    BY <2>1, <2>2 DEF HasLocked
<1>3. ASSUME NEW x, Takes(r, x) PROVE HasLocked(r)'
  <2>1. held'[r] = held[r] \cup {x}
    BY <1>1, <1>3 DEF Takes, TypeOK
  <2>2. \/ step'[r] = step[r]
        \/ step'[r] = step[r] + 1 /\ Current(r).rows \subseteq held'[r]
    BY <1>3, <2>1 DEF Takes
  <2>3. QED
    BY <1>2, <1>3, <2>1, <2>2 DEF Takes
<1>4. ASSUME NEW x, Asks(r, x) PROVE HasLocked(r)'
  BY <1>2, <1>4 DEF Asks
<1>5. ASSUME NEW answer \in {"done", "failed"}, Ends(r, answer) PROVE HasLocked(r)'
  <2>1. outcome'[r] # "none"
    BY <1>1, <1>5 DEF Ends, TypeOK
  <2>2. QED
    BY <2>1 DEF HasLocked, Unanswered
<1>6. ASSUME Begin(r) PROVE HasLocked(r)'
  <2>1. step'[r] = step[r] + 1 /\ ~At(r, "lock")
    BY <1>1, <1>6, AtPlan DEF Begin, TypeOK
  <2>2. QED
    BY <1>2, <1>6, <2>1 DEF Begin
<1>7. ASSUME Connect(r) PROVE HasLocked(r)'
  BY <1>2, <1>7 DEF Connect
<1>8. ASSUME Release(r) PROVE HasLocked(r)'
  <2>1. step'[r] = step[r] + 1
    BY <1>1, <1>8 DEF Release, Proceeds, TypeOK
  <2>2. ~At(r, "lock")
    BY <1>8 DEF Release, At, Orderly, InPlace, QueriesAt
  <2>3. QED
    BY <1>2, <1>8, <2>1, <2>2 DEF Release
<1>9. ASSUME ReadOn(r) PROVE HasLocked(r)'
  <2>1. /\ step'[r] = step[r] + 1 /\ listed'[r] \in SUBSET Sales /\ listed[r] \in SUBSET Sales
        /\ Plan(r)' = Steps(job[r], listed'[r]) /\ Plan(r) = Steps(job[r], listed[r])
    BY <1>1, <1>9, ReadOnEffect DEF Plan, TypeOK
  <2>2. held' = held /\ Unanswered(r) /\ At(r, "read")
    BY <1>9 DEF ReadOn
  <2>3. \A k \in Nat : k < step'[r] /\ k >= 1 => Plan(r)'[k] = Plan(r)[k] /\ k \in DOMAIN Plan(r)
    <3>1. step[r] \in DOMAIN Plan(r)
      BY <2>2 DEF At
    <3>2. ASSUME NEW k \in Nat, k < step'[r], k >= 1 PROVE k \in DOMAIN Plan(r) /\ k <= step[r]
      BY <1>1, <2>1, <3>1, <3>2
    <3>3. CASE job[r].op # "close"
      BY <1>1, <2>1, <3>2, <3>3, PlanAfterRead
    <3>4. CASE job[r].op = "close"
      <4>1. step[r] = ReadsAt(job[r])
        BY <1>1, <2>2, <3>4, ReadStep
      <4>2. \A k \in 1..ReadsAt(job[r]) : Plan(r)'[k] = Plan(r)[k]
        BY <1>1, <2>1, <3>4, PlanAfterRead
      <4>3. QED
        BY <3>2, <4>1, <4>2
    <3>5. QED
      BY <3>3, <3>4
  <2>4. Plan(r)[step[r]].kind # "lock"
    BY <2>2 DEF At, Current
  <2>5. Plan(r)' \in Seq(Step)
    BY <1>1, <2>1, PlanType
  <2>6. ASSUME NEW k \in DOMAIN Plan(r)', k < step'[r], Plan(r)'[k].kind = "lock"
        PROVE  Plan(r)'[k].rows \subseteq held[r]
    <3>1. k \in Nat /\ k >= 1
      BY <2>5
    <3>2. Plan(r)'[k] = Plan(r)[k] /\ k \in DOMAIN Plan(r)
      BY <2>3, <2>6, <3>1
    <3>3. k < step[r]
      <4>1. k # step[r]
        BY <2>4, <2>6, <3>2
      <4>2. QED
        BY <1>1, <2>1, <2>6, <3>1, <4>1
    <3>4. QED
      BY <1>1, <2>2, <2>6, <3>2, <3>3 DEF HasLocked
  <2>7. QED
    BY <2>2, <2>6 DEF HasLocked
<1>10. QED
  BY <1>3, <1>4, <1>5, <1>6, <1>7, <1>8, <1>9 DEF StepShape

\* ... and lists in order.
LEMMA OwnListed ==
  ASSUME Orderly, NEW r \in Requests, StepShape(r)
  PROVE  HasListed(r)'
<1>1. TypeOK /\ HasListed(r) /\ job[r] \in Job /\ step[r] \in Nat
  BY AtPlan DEF Orderly, InPlace
<1>2. ASSUME job' = job, listed' = listed, step'[r] \in {step[r], step[r] + 1} PROVE HasListed(r)'
  <2>1. ReadsAt(job[r]) \in Nat
    BY DEF ReadsAt
  <2>2. QED
    BY <1>1, <1>2, <2>1 DEF HasListed
<1>3. ASSUME NEW x, Takes(r, x) \/ Asks(r, x) PROVE HasListed(r)'
  BY <1>2, <1>3 DEF Takes, Asks
<1>4. ASSUME NEW answer, Ends(r, answer) PROVE HasListed(r)'
  BY <1>2, <1>4 DEF Ends
<1>5. ASSUME Begin(r) \/ Connect(r) \/ Release(r) PROVE HasListed(r)'
  <2>1. step'[r] \in {step[r], step[r] + 1}
    BY <1>1, <1>5 DEF Begin, Connect, Release, Proceeds, TypeOK
  <2>2. QED
    BY <1>2, <1>5, <2>1 DEF Begin, Connect, Release
<1>6. ASSUME ReadOn(r) PROVE HasListed(r)'
  <2>1. /\ step'[r] = step[r] + 1 /\ job' = job
        /\ job[r].op # "close" => listed'[r] = {}
        /\ job[r].op = "close" =>
             listed'[r] = {s \in Sales : ShiftOf[s] = job[r].shift /\ status[s] = "draft"}
    BY <1>1, <1>6, ReadOnEffect DEF ReadOn
  <2>2. job[r].op = "close" => step'[r] > ReadsAt(job[r])
    <3>1. At(r, "read")
      BY <1>6 DEF ReadOn
    <3>2. job[r].op = "close" => step[r] = ReadsAt(job[r])
      BY <1>1, <3>1, ReadStep
    <3>3. QED
      BY <1>1, <2>1, <3>2
  <2>3. QED
    BY <2>1, <2>2 DEF HasListed
<1>7. QED
  BY <1>3, <1>4, <1>5, <1>6 DEF StepShape

LEMMA ExclusiveStep ==
  ASSUME Orderly, NEW r \in Requests, StepShape(r), \A q \in Requests \ {r} : SameFor(q)
  PROVE  Exclusive'
<1>1. TypeOK /\ Exclusive
  BY DEF Orderly
<1>2. ASSUME NEW q \in Requests, q # r PROVE held'[r] \cap held[q] = {}
  <2>1. held[r] \cap held[q] = {}
    BY <1>1, <1>2 DEF Exclusive
  <2>2. ASSUME NEW x, Takes(r, x) PROVE held'[r] \cap held[q] = {}
    <3>1. held'[r] = held[r] \cup {x} /\ x \notin held[q]
      BY <1>1, <2>2 DEF Takes, TypeOK, Free
    <3>2. QED
      BY <2>1, <3>1
  <2>3. ASSUME NEW answer, Ends(r, answer) PROVE held'[r] \cap held[q] = {}
    BY <1>1, <2>3 DEF Ends, TypeOK
  <2>4. ASSUME held' = held PROVE held'[r] \cap held[q] = {}
    BY <2>1, <2>4
  <2>5. QED
    BY <2>2, <2>3, <2>4 DEF StepShape, Asks, Begin, Connect, Release, ReadOn
<1>3. \A q \in Requests : q # r => held'[q] = held[q]
  BY DEF SameFor
<1>4. QED
  BY <1>1, <1>2, <1>3 DEF Exclusive

LEMMA OthersInPlace ==
  ASSUME NEW q \in Requests, SameFor(q), InPlace(q)
  PROVE  InPlace(q)'
<1>1. /\ Plan(q)' = Plan(q) /\ Current(q)' = Current(q) /\ Unanswered(q)' = Unanswered(q)
      /\ \A kind : At(q, kind)' = At(q, kind)
  BY PlanStays
<1>2. WaitsAtLock(q)' /\ QueriesAt(q)'
  BY <1>1 DEF InPlace, WaitsAtLock, QueriesAt, SameFor
<1>3. HasLocked(q)' /\ HasListed(q)'
  BY <1>1 DEF InPlace, HasLocked, HasListed, SameFor
<1>4. QED
  BY <1>2, <1>3 DEF InPlace

LEMMA OrderlyStep ==
  ASSUME Orderly, NEW r \in Requests, Runs(r) \/ Abort(r)
  PROVE  Orderly'
<1>1. StepShape(r) /\ \A q \in Requests \ {r} : SameFor(q)
  BY OwnSteps, OthersStay DEF Orderly
<1>2. TypeOK'
  <2>1. \A q \in Requests : asks[q] # {} => At(q, "lock")
    BY DEF Orderly, InPlace, WaitsAtLock
  <2>2. QED
    BY <2>1, TypedStep DEF Orderly
<1>3. InPlace(r)'
  BY <1>1, OwnWaits, OwnQueries, OwnLocked, OwnListed DEF InPlace
<1>4. \A q \in Requests : InPlace(q)'
  BY <1>1, <1>3, OthersInPlace DEF Orderly
<1>5. QED
  BY <1>1, <1>2, <1>4, ExclusiveStep DEF Orderly

LEMMA OrderlyNext == Orderly /\ [Next]_vars => Orderly'
<1> SUFFICES ASSUME Orderly, [Next]_vars PROVE Orderly'
  OBVIOUS
<1>1. CASE Next
  BY <1>1, OrderlyStep DEF Next
<1>2. CASE UNCHANGED vars
  <2>1. TypeOK'
    BY <1>2 DEF Orderly, TypeOK, vars
  <2>2. Exclusive'
    BY <1>2 DEF Orderly, Exclusive, vars
  <2>3. \A q \in Requests : SameFor(q)
    BY <1>2 DEF vars, SameFor
  <2>4. QED
    BY <2>1, <2>2, <2>3, OthersInPlace DEF Orderly
<1>3. QED
  BY <1>1, <1>2

LEMMA OrderlyInit == Init => Orderly
<1> SUFFICES ASSUME Init PROVE Orderly
  OBVIOUS
<1>1. TypeOK
  BY KnownJobs DEF Init, TypeOK
<1>2. \A r \in Requests :
        asks[r] = {} /\ conns[r] = 0 /\ listed[r] = {} /\ step[r] = 0 /\ held[r] = {}
  BY DEF Init
<1>3. ASSUME NEW r \in Requests PROVE InPlace(r)
  <2>1. Plan(r) \in Seq(Step)
    BY <1>1, AtPlan
  <2>2. \A k \in DOMAIN Plan(r) : ~(k < 0)
    BY <2>1
  <2>3. HasLocked(r)
    BY <1>2, <2>2 DEF HasLocked
  <2>4. QED
    BY <1>2, <2>3 DEF InPlace, WaitsAtLock, QueriesAt, HasListed
<1>4. Exclusive
  BY <1>2 DEF Exclusive
<1>5. QED
  BY <1>1, <1>3, <1>4 DEF Orderly

\* Rows are locked by one transaction at a time; each holds what its statements
\* have locked until it ends, and waits for one row at a time.
THEOREM AlwaysOrderly == Spec => []Orderly
BY OrderlyInit, OrderlyNext, PTL DEF Spec

-----------------------------------------------------------------------------
(* What was read stays true *)

\* What a transaction on a receipt has found there.
Wanted(j) == IF j.op = "refund" THEN "paid" ELSE "draft"

\* lockDraft, and the same lock in refund: the receipt stays as it was read.
StillWanted(r) ==
  Unanswered(r) /\ job[r].op \in Drafted /\ step[r] > ReadsAt(job[r])
    => status[job[r].sale] = Wanted(job[r])

\* close: what it listed without locking is not paid while it holds the shift.
StillUnpaid(r) ==
  Unanswered(r) => \A s \in listed[r] : status[s] \notin {"paid", "refunded"}

ReadsHold == \A r \in Requests : StillWanted(r) /\ StillUnpaid(r)

\* The rows that make it so.
LEMMA RowsHeld ==
  ASSUME Orderly, NEW r \in Requests, Unanswered(r)
  PROVE  /\ job[r].op \in Drafted /\ step[r] > ReadsAt(job[r]) =>
              <<"sales", job[r].sale>> \in held[r]
         /\ job[r].op = "close" /\ step[r] > ReadsAt(job[r]) =>
              <<"shifts", job[r].shift>> \in held[r]
         /\ job[r].op \in {"pay", "refund"} /\ step[r] = Len(Plan(r)) + 1 =>
              <<"shifts", ShiftOf[job[r].sale]>> \in held[r]
         /\ step[r] = Len(Plan(r)) + 1 => {"sales"} \X listed[r] \subseteq held[r]
         /\ job[r].op \in Drafted \cup {"close"} => Len(Plan(r)) + 1 > ReadsAt(job[r])
<1> DEFINE j == job[r]
           p == Plan(r)
           R == ReadsAt(j)
<1>1. /\ j \in Job /\ step[r] \in Nat /\ p \in Seq(Step) /\ DOMAIN p = 1..Len(p) /\ Len(p) \in Nat
      /\ listed[r] \in SUBSET Sales
  BY AtPlan DEF Orderly, TypeOK
<1>2. \A k \in DOMAIN p : k < step[r] /\ p[k].kind = "lock" => p[k].rows \subseteq held[r]
  BY DEF Orderly, InPlace, HasLocked
<1>3. /\ j.op \in Drafted => Reading(j, p) /\ <<"sales", j.sale>> \in p[1].rows
      /\ j.op = "close" => Reading(j, p) /\ <<"shifts", j.shift>> \in p[1].rows
      /\ j.op \in {"pay", "refund"} =>
           /\ R + 1 <= Len(p) /\ p[R + 1].kind = "lock"
           /\ <<"shifts", ShiftOf[j.sale]>> \in p[R + 1].rows
      /\ j.op = "close" /\ listed[r] # {} =>
           R + 2 = Len(p) /\ p[R + 2].kind = "lock" /\ p[R + 2].rows = {"sales"} \X listed[r]
  BY <1>1, DraftReads, CloseReads, SettleShift DEF Plan
<1>4. listed[r] # {} => j.op = "close"
  BY DEF Orderly, InPlace, HasListed
<1> HIDE DEF p, R
<1>5. Reading(j, p) => /\ R \in {2, 3} /\ R <= Len(p) /\ p[1].kind = "lock" /\ 1 \in DOMAIN p
  BY <1>1 DEF Reading, R
<1>6. ASSUME j.op \in Drafted, step[r] > R PROVE <<"sales", j.sale>> \in held[r]
  BY <1>1, <1>2, <1>3, <1>5, <1>6
<1>7. ASSUME j.op = "close", step[r] > R PROVE <<"shifts", j.shift>> \in held[r]
  BY <1>1, <1>2, <1>3, <1>5, <1>7
<1>8. ASSUME j.op \in {"pay", "refund"}, step[r] = Len(p) + 1
      PROVE  <<"shifts", ShiftOf[j.sale]>> \in held[r]
  <2>1. R \in {2, 3}
    BY <1>3, <1>5, <1>8 DEF Drafted
  <2>2. R + 1 \in DOMAIN p /\ R + 1 < step[r]
    <3>1. R + 1 <= Len(p) /\ Len(p) \in Nat /\ step[r] = Len(p) + 1
      BY <1>1, <1>3, <1>8, <2>1
    <3>2. R + 1 \in 1..Len(p) /\ R + 1 < step[r]
      BY <2>1, <3>1
    <3>3. QED
      BY <1>1, <3>2
  <2>3. QED
    BY <1>2, <1>3, <1>8, <2>2
<1>9. ASSUME step[r] = Len(p) + 1, listed[r] # {} PROVE {"sales"} \X listed[r] \subseteq held[r]
  <2>1. R \in {2, 3}
    BY <1>3, <1>4, <1>5, <1>9
  <2>2. R + 2 \in DOMAIN p /\ R + 2 < step[r]
    <3>1. R + 2 = Len(p)
      BY <1>3, <1>4, <1>9
    <3>2. R + 2 \in 1..Len(p) /\ R + 2 < step[r]
      BY <1>1, <1>9, <2>1, <3>1
    <3>3. QED
      BY <1>1, <3>2
  <2>3. p[R + 2].rows \subseteq held[r]
    BY <1>2, <1>3, <1>4, <1>9, <2>2
  <2>4. QED
    BY <1>3, <1>4, <1>9, <2>3
<1>10. listed[r] = {} => {"sales"} \X listed[r] \subseteq held[r]
  OBVIOUS
<1>11. j.op \in Drafted \cup {"close"} => Len(p) + 1 > R
  BY <1>1, <1>3, <1>5
<1>12. QED
  BY <1>6, <1>7, <1>8, <1>9, <1>10, <1>11 DEF p, R

\* Nobody else holds what a request holds.
LEMMA NotBoth ==
  ASSUME Orderly, NEW p \in Requests, NEW q \in Requests, NEW x, x \in held[p], x \in held[q]
  PROVE  p = q
BY DEF Orderly, Exclusive

\* A commit writes its own receipt or what it listed.
LEMMA CommitWrites ==
  ASSUME TypeOK, NEW r \in Requests, Commit(r), NEW s \in Sales
  PROVE  /\ status'[s] # status[s] =>
              \/ s \in listed[r]
              \/ job[r].op \in {"pay", "refund", "cancel"} /\ s = job[r].sale
         /\ status'[s] \in {"paid", "refunded"} /\ status'[s] # status[s] =>
              job[r].op \in {"pay", "refund"} /\ s = job[r].sale
<1> DEFINE j == job[r]
<1>1. status'[s] = IF s \in listed[r] THEN "gone"
                   ELSE IF j.op = "pay" /\ s = j.sale THEN "paid"
                   ELSE IF j.op = "refund" /\ s = j.sale THEN "refunded"
                   ELSE IF j.op = "cancel" /\ s = j.sale THEN "gone"
                   ELSE status[s]
  BY DEF Commit
<1>2. QED
  BY <1>1

\* A request's own step leaves what it has read true.
LEMMA OwnReads ==
  ASSUME Orderly, ReadsHold, NEW r \in Requests, StepShape(r), status' = status
  PROVE  StillWanted(r)' /\ StillUnpaid(r)'
<1>1. /\ TypeOK /\ job[r] \in Job /\ step[r] \in Nat /\ StillWanted(r) /\ StillUnpaid(r)
      /\ ReadsAt(job[r]) \in {2, 3} /\ listed[r] \in SUBSET Sales
  BY AtPlan DEF Orderly, ReadsHold, ReadsAt, TypeOK
<1>2. ASSUME NEW answer \in {"done", "failed"}, Ends(r, answer) PROVE ~Unanswered(r)'
  BY <1>1, <1>2 DEF Ends, TypeOK, Unanswered
<1>3. ASSUME At(r, "lock") \/ At(r, "query"), job[r].op \in Drafted PROVE step[r] # ReadsAt(job[r])
  <2>1. Reading(job[r], Plan(r))
    BY <1>1, <1>3, DraftReads DEF Plan
  <2>2. QED
    BY <1>3, <2>1 DEF At, Current, Reading
<1>4. ASSUME job' = job, listed' = listed, outcome' = outcome,
             \/ step'[r] = step[r]
             \/ step'[r] = step[r] + 1 /\ (step[r] = 0 \/ At(r, "lock") \/ At(r, "query"))
      PROVE  StillWanted(r)' /\ StillUnpaid(r)'
  <2>1. StillUnpaid(r)'
    BY <1>1, <1>4 DEF StillUnpaid, Unanswered
  <2>2. job[r].op \in Drafted /\ step'[r] > ReadsAt(job[r]) => step[r] > ReadsAt(job[r])
    BY <1>1, <1>3, <1>4
  <2>3. StillWanted(r)'
    BY <1>1, <1>4, <2>2 DEF StillWanted, Unanswered
  <2>4. QED
    BY <2>1, <2>3
<1>5. ASSUME NEW x, Takes(r, x) PROVE StillWanted(r)' /\ StillUnpaid(r)'
  BY <1>4, <1>5 DEF Takes
<1>6. ASSUME NEW x, Asks(r, x) PROVE StillWanted(r)' /\ StillUnpaid(r)'
  BY <1>4, <1>6 DEF Asks
<1>7. ASSUME Begin(r) PROVE StillWanted(r)' /\ StillUnpaid(r)'
  <2>1. step'[r] = step[r] + 1
    BY <1>1, <1>7 DEF Begin, TypeOK
  <2>2. QED
    BY <1>4, <1>7, <2>1 DEF Begin
<1>8. ASSUME Connect(r) PROVE StillWanted(r)' /\ StillUnpaid(r)'
  BY <1>4, <1>8 DEF Connect
<1>9. ASSUME Release(r) PROVE StillWanted(r)' /\ StillUnpaid(r)'
  <2>1. step'[r] = step[r] + 1 /\ At(r, "query")
    BY <1>1, <1>9 DEF Release, Proceeds, TypeOK, Orderly, InPlace, QueriesAt
  <2>2. QED
    BY <1>4, <1>9, <2>1 DEF Release
<1>10. ASSUME ReadOn(r) PROVE StillWanted(r)' /\ StillUnpaid(r)'
  <2>1. /\ job[r].op # "close" => listed'[r] = {}
        /\ job[r].op = "close" =>
             listed'[r] = {s \in Sales : ShiftOf[s] = job[r].shift /\ status[s] = "draft"}
    BY <1>1, <1>10, ReadOnEffect
  <2>2. \A s \in listed'[r] : status[s] = "draft"
    BY <2>1
  <2>3. job[r].op \in Drafted => status[job[r].sale] = Wanted(job[r])
    <3>1. Expected(job[r])
      BY <1>10 DEF ReadOn
    <3>2. job[r].op \in Drafted => job[r].op # "close"
      BY DEF Drafted
    <3>3. QED
      BY <3>1, <3>2 DEF Expected, Wanted
  <2>4. job' = job
    BY <1>10 DEF ReadOn
  <2>5. QED
    BY <2>2, <2>3, <2>4 DEF StillWanted, StillUnpaid
<1>11. QED
  BY <1>2, <1>5, <1>6, <1>7, <1>8, <1>9, <1>10 DEF StepShape, StillWanted, StillUnpaid

\* So do the steps of others, whose commits need rows it holds.
LEMMA OtherReads ==
  ASSUME Orderly, ReadsHold, NEW r \in Requests, status' = status \/ Commit(r),
         NEW q \in Requests, q # r, SameFor(q)
  PROVE  StillWanted(q)' /\ StillUnpaid(q)'
<1>1. TypeOK /\ StillWanted(q) /\ StillUnpaid(q) /\ Unanswered(q)' = Unanswered(q)
      /\ job[q] \in Job /\ job[r] \in Job /\ listed[q] \in SUBSET Sales
  BY PlanStays, AtPlan DEF Orderly, ReadsHold, TypeOK
<1>2. CASE status' = status
  BY <1>1, <1>2 DEF SameFor, StillWanted, StillUnpaid
<1>3. CASE Commit(r)
  <2>1. /\ Unanswered(r) /\ step[r] = Len(Plan(r)) + 1 /\ {"sales"} \X listed[r] \subseteq held[r]
        /\ job[r].op \in Drafted => <<"sales", job[r].sale>> \in held[r]
        /\ job[r].op \in {"pay", "refund"} => <<"shifts", ShiftOf[job[r].sale]>> \in held[r]
    BY <1>3, RowsHeld DEF Commit
  <2>2. ASSUME Unanswered(q), job[q].op \in Drafted, step[q] > ReadsAt(job[q])
        PROVE  status'[job[q].sale] = status[job[q].sale]
    <3>1. <<"sales", job[q].sale>> \in held[q] /\ job[q].sale \in Sales
      BY <1>1, <2>2, RowsHeld, JobShapes
    <3>2. <<"sales", job[q].sale>> \notin held[r]
      BY <3>1, NotBoth
    <3>3. job[q].sale \notin listed[r]
      BY <2>1, <3>2
    <3>4. ~(job[r].op \in {"pay", "refund", "cancel"} /\ job[q].sale = job[r].sale)
      BY <2>1, <3>2 DEF Drafted
    <3>5. QED
      BY <1>1, <1>3, <3>1, <3>3, <3>4, CommitWrites
  <2>3. ASSUME Unanswered(q), NEW s \in listed[q] PROVE status'[s] \notin {"paid", "refunded"}
    <3>1. /\ job[q].op = "close" /\ step[q] > ReadsAt(job[q]) /\ ShiftOf[s] = job[q].shift
          /\ s \in Sales
      BY <1>1, <2>3 DEF Orderly, InPlace, HasListed
    <3>2. <<"shifts", ShiftOf[s]>> \in held[q]
      BY <2>3, <3>1, RowsHeld
    <3>3. ~(job[r].op \in {"pay", "refund"} /\ s = job[r].sale)
      BY <2>1, <3>2, NotBoth
    <3>4. status[s] \notin {"paid", "refunded"}
      BY <1>1, <2>3 DEF StillUnpaid
    <3>5. QED
      BY <1>1, <1>3, <3>1, <3>3, <3>4, CommitWrites
  <2>4. StillWanted(q)'
    BY <1>1, <2>2 DEF SameFor, StillWanted
  <2>5. StillUnpaid(q)'
    BY <1>1, <2>3 DEF SameFor, StillUnpaid
  <2>6. QED
    BY <2>4, <2>5
<1>4. QED
  BY <1>2, <1>3

\* Only commits change the status of receipts.
LEMMA StatusByCommit ==
  ASSUME NEW r \in Requests, Runs(r) \/ Abort(r)
  PROVE  status' = status \/ Commit(r)
<1>1. ASSUME NEW x, Ask(r, x) PROVE status' = status
  BY <1>1 DEF Ask
<1>2. QED
  BY <1>1 DEF Runs, Abort, Refuse, Begin, Grant, Connect, Release, ReadOn

LEMMA ReadsHoldNext == Orderly /\ ReadsHold /\ [Next]_vars => ReadsHold'
<1> SUFFICES ASSUME Orderly, ReadsHold, [Next]_vars PROVE ReadsHold'
  OBVIOUS
<1>1. ASSUME NEW r \in Requests, Runs(r) \/ Abort(r) PROVE ReadsHold'
  <2>1. StepShape(r) /\ (\A q \in Requests \ {r} : SameFor(q)) /\ (status' = status \/ Commit(r))
    BY <1>1, OwnSteps, OthersStay, StatusByCommit DEF Orderly
  <2>2. StillWanted(r)' /\ StillUnpaid(r)'
    <3>1. CASE status' = status
      BY <2>1, <3>1, OwnReads
    <3>2. CASE Commit(r)
      <4>1. ~Unanswered(r)'
        BY <3>2 DEF Commit, Ends, Orderly, TypeOK, Unanswered
      <4>2. QED
        BY <4>1 DEF StillWanted, StillUnpaid
    <3>3. QED
      BY <2>1, <3>1, <3>2
  <2>3. \A q \in Requests : q # r => StillWanted(q)' /\ StillUnpaid(q)'
    BY <2>1, OtherReads
  <2>4. QED
    BY <2>2, <2>3 DEF ReadsHold
<1>2. CASE UNCHANGED vars
  BY <1>2 DEF vars, ReadsHold, StillWanted, StillUnpaid, Unanswered
<1>3. QED
  BY <1>1, <1>2 DEF Next

LEMMA ReadsHoldInit == Init => ReadsHold
BY DEF Init, ReadsHold, StillWanted, StillUnpaid, ReadsAt

LEMMA PaidStep ==
  ASSUME Orderly, ReadsHold, [Next]_vars, NEW s \in Sales, status[s] = "paid"
  PROVE  status'[s] \in {"paid", "refunded"}
<1>1. CASE status' = status
  BY <1>1
<1>2. ASSUME NEW r \in Requests, Commit(r) PROVE status'[s] \in {"paid", "refunded"}
  <2>1. Unanswered(r) /\ step[r] = Len(Plan(r)) + 1 /\ StillWanted(r) /\ StillUnpaid(r)
    BY <1>2 DEF Commit, ReadsHold
  <2>2. s \notin listed[r]
    BY <2>1 DEF StillUnpaid
  <2>3. ~(job[r].op = "cancel" /\ s = job[r].sale)
    <3>1. job[r].op = "cancel" => step[r] > ReadsAt(job[r])
      BY <2>1, RowsHeld DEF Drafted
    <3>2. job[r].op = "cancel" => status[job[r].sale] = "draft"
      BY <2>1, <3>1 DEF StillWanted, Wanted, Drafted
    <3>3. QED
      BY <3>2
  <2>4. status'[s] = IF s \in listed[r] THEN "gone"
                     ELSE IF job[r].op = "pay" /\ s = job[r].sale THEN "paid"
                     ELSE IF job[r].op = "refund" /\ s = job[r].sale THEN "refunded"
                     ELSE IF job[r].op = "cancel" /\ s = job[r].sale THEN "gone"
                     ELSE status[s]
    BY <1>2 DEF Commit
  <2>5. QED
    BY <2>2, <2>3, <2>4
<1>3. status' = status \/ \E r \in Requests : Commit(r)
  BY StatusByCommit DEF Next, vars
<1>4. QED
  BY <1>1, <1>2, <1>3

\* What a payment, a refund, an edit or close decided on is true until it ends,
\* the drafts that close reads without locking them included.
THEOREM ReadsStayTrue == Spec => []ReadsHold
<1>1. Init => Orderly /\ ReadsHold
  BY OrderlyInit, ReadsHoldInit
<1>2. Orderly /\ ReadsHold /\ [Next]_vars => (Orderly /\ ReadsHold)'
  BY OrderlyNext, ReadsHoldNext
<1>3. QED
  BY <1>1, <1>2, PTL DEF Spec

\* A receipt that was paid stays paid or is refunded: close, which deletes the
\* drafts it read, deletes no receipt that a payment has reached meanwhile.
THEOREM PaidReceiptsStay == Spec => PaidStays
<1>1. Orderly /\ ReadsHold /\ [Next]_vars
        => [\A s \in Sales : status[s] = "paid" => status'[s] \in {"paid", "refunded"}]_vars
  BY PaidStep
<1>2. QED
  BY <1>1, AlwaysOrderly, ReadsStayTrue, PTL DEF Spec, PaidStays

-----------------------------------------------------------------------------
(* The order of the locks *)

\* Receipts, their lines, shifts, items, products, the counter.
Level(table) ==
  CASE table = "sales"      -> 1
    [] table = "sale_items" -> 2
    [] table = "shifts"     -> 3
    [] table = "items"      -> 4
    [] table = "products"   -> 5
    [] table = "receipt_sequences" -> 6

LEMMA Levels ==
  /\ Level("sales") = 1 /\ Level("sale_items") = 2 /\ Level("shifts") = 3
  /\ Level("items") = 4 /\ Level("products") = 5 /\ Level("receipt_sequences") = 6
  /\ \A table \in Tables : Level(table) \in 1..6
  /\ \A t, u \in Tables : Level(t) = Level(u) => t = u
<1>1. /\ Level("sales") = 1 /\ Level("sale_items") = 2 /\ Level("shifts") = 3
      /\ Level("items") = 4 /\ Level("products") = 5 /\ Level("receipt_sequences") = 6
  BY DEF Level
<1>2. \A table \in Tables : Level(table) \in 1..6
  BY <1>1 DEF Tables
<1>3. \A t, u \in Tables : Level(t) = Level(u) => t = u
  BY <1>1 DEF Tables
<1>4. QED
  BY <1>1, <1>2, <1>3

\* Rows are locked by level, from lo to hi.
Ranked(s, lo, hi) ==
  /\ s \in Seq(Step)
  /\ \A k \in DOMAIN s : \A x \in s[k].rows : lo <= Level(x[1]) /\ Level(x[1]) <= hi
  /\ \A k, l \in DOMAIN s : k <= l =>
       \A x \in s[k].rows, y \in s[l].rows : Level(x[1]) <= Level(y[1])

LEMMA LockRanked ==
  ASSUME NEW table \in Tables, NEW ids \in SUBSET Ids, NEW n, n = Level(table)
  PROVE  Ranked(Lock(table, ids), n, n)
<1> DEFINE s == Lock(table, ids)
<1>1. s \in Seq(Step) /\ n \in Nat
  BY OneLock, Levels
<1>2. ASSUME NEW k \in DOMAIN s, NEW x \in s[k].rows PROVE Level(x[1]) = n
  <2>1. s[k].rows = {table} \X ids
    BY <1>2, OneLock
  <2>2. x[1] = table
    BY <1>2, <2>1
  <2>3. QED
    BY <2>2
<1> HIDE DEF s
<1>3. Ranked(s, n, n)
  BY <1>1, <1>2 DEF Ranked
<1>4. QED
  BY <1>3 DEF s

LEMMA QueryRanked ==
  ASSUME NEW j \in Job, NEW n
  PROVE  Ranked(Query, n, n) /\ Ranked(Read, n, n) /\ Ranked(Access(j), n, n)
<1>1. Ranked(Query, n, n) /\ Ranked(Read, n, n)
  BY Connections DEF Ranked, Query, Read
<1>2. Ranked(<<>>, n, n)
  BY DEF Ranked
<1>3. QED
  BY <1>1, <1>2, JobShapes DEF Access

\* Rows locked in order, and then in order from there on.
LEMMA RankedTogether ==
  ASSUME NEW s, NEW t, NEW a \in Nat, NEW b \in Nat, NEW c \in Nat, NEW d \in Nat,
         Ranked(s, a, b), Ranked(t, c, d), a <= b, b <= c, c <= d
  PROVE  Ranked(s \o t, a, d)
<1> DEFINE q == s \o t
<1>1. s \in Seq(Step) /\ t \in Seq(Step)
  BY DEF Ranked
<1>2. /\ q \in Seq(Step) /\ Len(q) = Len(s) + Len(t) /\ Len(s) \in Nat /\ Len(t) \in Nat
      /\ \A k \in 1..Len(s) : q[k] = s[k]
      /\ \A k \in 1..Len(t) : q[Len(s) + k] = t[k]
      /\ DOMAIN s = 1..Len(s) /\ DOMAIN t = 1..Len(t)
  BY <1>1, Concatenated
<1> HIDE DEF q
<1>3. DOMAIN q = 1..Len(q)
  BY <1>2
<1>4. ASSUME NEW k \in DOMAIN q
      PROVE  \/ k \in DOMAIN s /\ q[k] = s[k]
             \/ k > Len(s) /\ k - Len(s) \in DOMAIN t /\ q[k] = t[k - Len(s)]
  <2>1. CASE k <= Len(s)
    BY <1>2, <1>3, <2>1
  <2>2. CASE k > Len(s)
    <3>1. k - Len(s) \in 1..Len(t) /\ Len(s) + (k - Len(s)) = k
      BY <1>2, <1>3, <2>2
    <3>2. QED
      BY <1>2, <2>2, <3>1
  <2>3. QED
    BY <1>2, <1>3, <2>1, <2>2
<1>5. /\ \A k \in DOMAIN q : \A x \in q[k].rows : x \in Rows
      /\ \A x \in Rows : Level(x[1]) \in Nat
  <2>1. \A k \in DOMAIN q : q[k] \in Step
    BY <1>2, <1>3
  <2>2. QED
    BY <2>1, Levels DEF Step, Rows
<1>6. ASSUME NEW k \in DOMAIN q, NEW x \in q[k].rows PROVE a <= Level(x[1]) /\ Level(x[1]) <= d
  <2>1. Level(x[1]) \in Nat
    BY <1>5
  <2>2. CASE k \in DOMAIN s /\ q[k] = s[k]
    <3>1. a <= Level(x[1]) /\ Level(x[1]) <= b
      BY <2>2 DEF Ranked
    <3>2. QED
      BY <2>1, <3>1
  <2>3. CASE k - Len(s) \in DOMAIN t /\ q[k] = t[k - Len(s)]
    <3>1. c <= Level(x[1]) /\ Level(x[1]) <= d
      BY <2>3 DEF Ranked
    <3>2. QED
      BY <2>1, <3>1
  <2>4. QED
    BY <1>4, <2>2, <2>3
<1>7. ASSUME NEW k \in DOMAIN q, NEW l \in DOMAIN q, k <= l,
             NEW x \in q[k].rows, NEW y \in q[l].rows
      PROVE  Level(x[1]) <= Level(y[1])
  <2>1. Level(x[1]) \in Nat /\ Level(y[1]) \in Nat /\ k \in Nat /\ l \in Nat
    BY <1>2, <1>3, <1>5
  <2>2. CASE k \in DOMAIN s /\ q[k] = s[k] /\ l \in DOMAIN s /\ q[l] = s[l]
    BY <1>7, <2>2 DEF Ranked
  <2>3. CASE k \in DOMAIN s /\ q[k] = s[k] /\ l - Len(s) \in DOMAIN t /\ q[l] = t[l - Len(s)]
    <3>1. Level(x[1]) <= b /\ c <= Level(y[1])
      BY <2>3 DEF Ranked
    <3>2. QED
      BY <2>1, <3>1
  <2>4. CASE k - Len(s) \in DOMAIN t /\ q[k] = t[k - Len(s)]
             /\ l - Len(s) \in DOMAIN t /\ q[l] = t[l - Len(s)]
    <3>1. k - Len(s) <= l - Len(s)
      BY <1>2, <1>7, <2>1
    <3>2. QED
      BY <2>4, <3>1 DEF Ranked
  <2>5. ~(k > Len(s) /\ l \in DOMAIN s)
    BY <1>2, <1>7, <2>1
  <2>6. QED
    BY <1>4, <2>2, <2>3, <2>4, <2>5
<1>8. Ranked(q, a, d)
  BY <1>2, <1>6, <1>7 DEF Ranked
<1>9. QED
  BY <1>8 DEF q

\* All requests but close and additions by product.
Ordered == {"pay", "refund", "edit", "cancel", "addTag", "setStatus", "move", "count"}

LEMMA DraftRanked ==
  ASSUME NEW j \in Job, j.op \in Drafted
  PROVE  Ranked(OfDraft(j), 1, 1)
<1>1. j.sale \in Ids
  BY JobShapes, RowIds
<1>2. Ranked(Lock("sales", {j.sale}), 1, 1)
  BY <1>1, LockRanked, Levels, TableNames
<1>3. Ranked(Lock("sales", {j.sale}) \o Access(j), 1, 1)
  BY <1>2, QueryRanked, RankedTogether
<1>4. Ranked((Lock("sales", {j.sale}) \o Access(j)) \o Read, 1, 1)
  BY <1>3, QueryRanked, RankedTogether
<1>5. QED
  BY <1>4 DEF OfDraft

LEMMA SettleRanked ==
  ASSUME NEW j \in Job, j.op \in {"pay", "refund"}
  PROVE  Ranked(Settles(j), 1, 5)
<1>1. j.sale \in Sales
  BY JobShapes DEF Drafted
<1>2. Ranked(OfDraft(j), 1, 1)
  BY DraftRanked DEF Drafted
<1>3. /\ Ranked(ShiftFirst(j.sale), 3, 3) /\ Ranked(Lock("items", LineItems[j.sale]), 4, 4)
      /\ Ranked(Lock("products", Goods(j.sale)), 5, 5)
  BY <1>1, RowIds, Levels, TableNames, LockRanked DEF ShiftFirst
<1>4. Ranked(OfDraft(j) \o ShiftFirst(j.sale), 1, 3)
  BY <1>2, <1>3, RankedTogether
<1>5. Ranked((OfDraft(j) \o ShiftFirst(j.sale)) \o Lock("items", LineItems[j.sale]), 1, 4)
  BY <1>3, <1>4, RankedTogether
<1>6. Ranked(((OfDraft(j) \o ShiftFirst(j.sale)) \o Lock("items", LineItems[j.sale]))
               \o Lock("products", Goods(j.sale)), 1, 5)
  BY <1>3, <1>5, RankedTogether
<1>7. QED
  BY <1>6 DEF Settles

\* Payments, refunds, edits, additions by tag, changes of items and checks
\* lock by level.
LEMMA OrderedPlans ==
  ASSUME NEW j \in Job, j.op \in Ordered, NEW d
  PROVE  Ranked(Steps(j, d), 1, 6)
<1>1. ASSUME j.op \in Drafted PROVE Ranked(OfDraft(j), 1, 1) /\ j.sale \in Ids
  BY <1>1, DraftRanked, JobShapes, RowIds
<1>2. ASSUME NEW s, Ranked(s, 1, 5) \/ Ranked(s, 4, 4) \/ Ranked(s, 1, 2) PROVE Ranked(s, 1, 6)
  <2>1. s \in Seq(Step)
    BY <1>2 DEF Ranked
  <2>2. \A k \in DOMAIN s : \A x \in s[k].rows : Level(x[1]) \in 1..6
    <3>1. \A k \in DOMAIN s : s[k] \in Step
      BY <2>1
    <3>2. QED
      BY <3>1, Levels DEF Step, Rows
  <2>3. QED
    BY <1>2, <2>1, <2>2 DEF Ranked
<1>3. CASE j.op = "pay"
  <2>1. Ranked(Lock("receipt_sequences", {Counter}), 6, 6)
    BY RowIds, Levels, TableNames, LockRanked
  <2>2. Ranked(Settles(j) \o Lock("receipt_sequences", {Counter}), 1, 6)
    BY <1>3, <2>1, SettleRanked, RankedTogether
  <2>3. QED
    BY <1>3, <2>2 DEF Steps
<1>4. CASE j.op = "refund"
  <2>1. Ranked(Settles(j), 1, 6)
    BY <1>2, <1>4, SettleRanked
  <2>2. QED
    BY <1>4, <2>1 DEF Steps
<1>5. CASE j.op \in {"edit", "cancel"}
  <2>1. Ranked(Lock("sale_items", {j.sale}), 2, 2)
    BY <1>1, <1>5, Levels, TableNames, LockRanked DEF Drafted
  <2>2. Ranked(OfDraft(j) \o Lock("sale_items", {j.sale}), 1, 2)
    BY <1>1, <1>5, <2>1, RankedTogether DEF Drafted
  <2>3. Ranked(OfDraft(j) \o Lock("sale_items", {j.sale}), 1, 6)
    BY <1>2, <2>2
  <2>4. CASE j.op = "edit"
    BY <2>3, <2>4 DEF Steps
  <2>5. CASE j.op = "cancel"
    BY <2>3, <2>5 DEF Steps
  <2>6. QED
    BY <1>5, <2>4, <2>5
<1>6. CASE j.op = "addTag"
  <2>1. j.item \in Ids /\ ProductOf[j.item] \in Ids
    BY <1>6, JobShapes, RowIds
  <2>2. Ranked(Lock("items", {j.item}), 4, 4) /\ Ranked(Lock("products", {ProductOf[j.item]}), 5, 5)
    BY <2>1, Levels, TableNames, LockRanked
  <2>3. Ranked(AddsTag(j), 4, 5)
    BY <2>2, RankedTogether DEF AddsTag
  <2>4. Ranked(OfDraft(j) \o AddsTag(j), 1, 5)
    BY <1>1, <1>6, <2>3, RankedTogether DEF Drafted
  <2>5. Ranked(OfDraft(j) \o AddsTag(j), 1, 6)
    BY <1>2, <2>4
  <2>6. QED
    BY <1>6, <2>5 DEF Steps
<1>7. ASSUME j.op \in {"setStatus", "move"}
      PROVE  Ranked(Lock("items", {j.item}) \o Access(j), 4, 4)
  <2>1. j.item \in Ids
    BY <1>7, JobShapes, RowIds
  <2>2. Ranked(Lock("items", {j.item}), 4, 4)
    BY <2>1, Levels, TableNames, LockRanked
  <2>3. QED
    BY <2>2, QueryRanked, RankedTogether
<1>8. CASE j.op = "setStatus"
  <2>1. Ranked(Lock("items", {j.item}) \o Access(j), 1, 6)
    BY <1>2, <1>7, <1>8
  <2>2. QED
    BY <1>8, <2>1 DEF Steps
<1>9. CASE j.op = "move"
  <2>1. Ranked((Lock("items", {j.item}) \o Access(j)) \o Query, 4, 4)
    BY <1>7, <1>9, QueryRanked, RankedTogether
  <2>2. Ranked((Lock("items", {j.item}) \o Access(j)) \o Query, 1, 6)
    BY <1>2, <2>1
  <2>3. QED
    BY <1>9, <2>2 DEF Steps
<1>10. CASE j.op = "count"
  <2>1. j.items \in SUBSET Ids
    BY <1>10, JobShapes, RowIds
  <2>2. Ranked(Lock("items", j.items), 4, 4)
    BY <2>1, Levels, TableNames, LockRanked
  <2>3. Ranked(Lock("items", j.items), 1, 6)
    BY <1>2, <2>2
  <2>4. QED
    BY <1>10, <2>3 DEF Steps
<1>11. QED
  BY <1>3, <1>4, <1>5, <1>6, <1>8, <1>9, <1>10 DEF Ordered

\* Up to its current step and beyond, a transaction locks nothing below what
\* it has.
InOrder(r) ==
  Unanswered(r) /\ job[r].op \in Ordered =>
    \A k \in DOMAIN Plan(r) : k >= step[r] =>
      \A x \in held[r], y \in Plan(r)[k].rows : Level(x[1]) <= Level(y[1])

LockOrder == \A r \in Requests : InOrder(r)

\* A step of its own keeps a request in order.
LEMMA OwnOrder ==
  ASSUME Orderly, NEW r \in Requests, InOrder(r), StepShape(r)
  PROVE  InOrder(r)'
<1>1. /\ TypeOK /\ job[r] \in Job /\ step[r] \in Nat /\ listed[r] \in SUBSET Sales
      /\ Plan(r) \in Seq(Step) /\ DOMAIN Plan(r) = 1..Len(Plan(r)) /\ Len(Plan(r)) \in Nat
  BY AtPlan DEF Orderly, TypeOK
<1>2. ASSUME job' = job, Plan(r)' = Plan(r), outcome' = outcome,
             step'[r] \in {step[r], step[r] + 1},
             \/ held'[r] = held[r]
             \/ At(r, "lock") /\ \E x \in Current(r).rows : held'[r] = held[r] \cup {x}
      PROVE  InOrder(r)'
  <2>1. ASSUME Unanswered(r), job[r].op \in Ordered, NEW k \in DOMAIN Plan(r), k >= step'[r],
               NEW x \in held'[r], NEW y \in Plan(r)[k].rows
        PROVE  Level(x[1]) <= Level(y[1])
    <3>1. k >= step[r]
      BY <1>1, <1>2, <2>1
    <3>2. CASE x \in held[r]
      BY <2>1, <3>1, <3>2 DEF InOrder
    <3>3. CASE x \notin held[r]
      <4>1. x \in Plan(r)[step[r]].rows /\ step[r] \in DOMAIN Plan(r)
        BY <1>2, <2>1, <3>3 DEF At, Current
      <4>2. Ranked(Plan(r), 1, 6)
        BY <1>1, <2>1, OrderedPlans DEF Plan
      <4>3. QED
        BY <2>1, <3>1, <4>1, <4>2 DEF Ranked
    <3>4. QED
      BY <3>2, <3>3
  <2>2. Unanswered(r)' = Unanswered(r)
    BY <1>2 DEF Unanswered
  <2>3. QED
    BY <1>2, <2>1, <2>2 DEF InOrder
<1>3. ASSUME listed' = listed, job' = job PROVE Plan(r)' = Plan(r)
  BY <1>3 DEF Plan
<1>4. ASSUME NEW x, Takes(r, x) PROVE InOrder(r)'
  <2>1. held'[r] = held[r] \cup {x} /\ step'[r] \in {step[r], step[r] + 1}
    BY <1>1, <1>4 DEF Takes, TypeOK
  <2>2. QED
    BY <1>2, <1>3, <1>4, <2>1 DEF Takes
<1>5. ASSUME NEW x, Asks(r, x) PROVE InOrder(r)'
  BY <1>2, <1>3, <1>5 DEF Asks
<1>6. ASSUME NEW answer \in {"done", "failed"}, Ends(r, answer) PROVE InOrder(r)'
  <2>1. ~Unanswered(r)'
    BY <1>1, <1>6 DEF Ends, TypeOK, Unanswered
  <2>2. QED
    BY <2>1 DEF InOrder
<1>7. ASSUME Begin(r) \/ Connect(r) \/ Release(r) PROVE InOrder(r)'
  <2>1. step'[r] \in {step[r], step[r] + 1} /\ held' = held
    BY <1>1, <1>7 DEF Begin, Connect, Release, Proceeds, TypeOK
  <2>2. QED
    BY <1>2, <1>3, <1>7, <2>1 DEF Begin, Connect, Release
<1>8. ASSUME ReadOn(r) PROVE InOrder(r)'
  <2>1. /\ step'[r] = step[r] + 1 /\ listed'[r] \in SUBSET Sales
        /\ Plan(r)' = Steps(job[r], listed'[r]) /\ job' = job
    BY <1>1, <1>8, ReadOnEffect DEF ReadOn
  <2>2. CASE job[r].op \in Ordered
    <3>1. job[r].op # "close"
      BY <2>2 DEF Ordered
    <3>2. Plan(r)' = Plan(r)
      BY <1>1, <2>1, <3>1, PlanAfterRead DEF Plan
    <3>3. QED
      BY <1>2, <1>8, <2>1, <3>2 DEF ReadOn
  <2>3. CASE job[r].op \notin Ordered
    BY <2>1, <2>3 DEF InOrder
  <2>4. QED
    BY <2>2, <2>3
<1>9. QED
  BY <1>4, <1>5, <1>6, <1>7, <1>8 DEF StepShape

LEMMA LockOrderNext == Orderly /\ LockOrder /\ [Next]_vars => LockOrder'
<1> SUFFICES ASSUME Orderly, LockOrder, [Next]_vars PROVE LockOrder'
  OBVIOUS
<1>1. ASSUME NEW q \in Requests, SameFor(q) PROVE InOrder(q)'
  <2>1. Plan(q)' = Plan(q) /\ Unanswered(q)' = Unanswered(q)
    BY <1>1, PlanStays
  <2>2. InOrder(q)
    BY DEF LockOrder
  <2>3. QED
    BY <1>1, <2>1, <2>2 DEF InOrder, SameFor
<1>2. ASSUME NEW r \in Requests, Runs(r) \/ Abort(r) PROVE LockOrder'
  <2>1. StepShape(r) /\ \A q \in Requests \ {r} : SameFor(q)
    BY <1>2, OwnSteps, OthersStay DEF Orderly
  <2>2. InOrder(r)'
    BY <2>1, OwnOrder DEF LockOrder
  <2>3. QED
    BY <1>1, <2>1, <2>2 DEF LockOrder
<1>3. CASE UNCHANGED vars
  <2>1. \A q \in Requests : SameFor(q)
    BY <1>3 DEF vars, SameFor
  <2>2. QED
    BY <1>1, <2>1 DEF LockOrder
<1>4. QED
  BY <1>2, <1>3 DEF Next

LEMMA LockOrderInit == Init => LockOrder
BY DEF Init, LockOrder, InOrder

-----------------------------------------------------------------------------
(* Who waits for whom *)

\* p waits for a row that q has locked.
WaitsFor(p, q) == asks[p] \cap held[q] # {}

\* A request waits for one row, which one request has.
LEMMA OneHolder ==
  ASSUME Orderly, NEW p \in Requests, NEW q \in Requests, NEW o \in Requests,
         WaitsFor(p, q), WaitsFor(p, o)
  PROVE  q = o
<1>1. PICK x : asks[p] = {x}
  BY DEF WaitsFor, Orderly, InPlace, WaitsAtLock
<1>2. x \in held[q] /\ x \in held[o]
  BY <1>1 DEF WaitsFor
<1>3. QED
  BY <1>2, NotBoth

\* Whoever waits in order waits for nothing below what it has.
LEMMA WaitsUp ==
  ASSUME Orderly, LockOrder, NEW q \in Requests, job[q].op \in Ordered,
         NEW x \in held[q], NEW y \in asks[q]
  PROVE  Level(x[1]) <= Level(y[1])
<1>1. Unanswered(q) /\ At(q, "lock") /\ \E z \in Current(q).rows : asks[q] = {z}
  BY DEF Orderly, InPlace, WaitsAtLock
<1>2. y \in Current(q).rows
  BY <1>1
<1>3. step[q] \in DOMAIN Plan(q) /\ y \in Plan(q)[step[q]].rows /\ step[q] \in Nat
  BY <1>1, <1>2, AtPlan DEF At, Current, Orderly
<1>4. InOrder(q) /\ step[q] >= step[q]
  BY <1>3 DEF LockOrder
<1>5. QED
  BY <1>1, <1>3, <1>4 DEF InOrder

-----------------------------------------------------------------------------
(* Following the waits *)

Rounds  == Cardinality(Requests)
\* Whom those in A wait for.
Hops(A) == {q \in Requests : \E p \in A : WaitsFor(p, q)}
\* f[n] is what is reached from r by following n waits.
IsChain(f, r) == f = [n \in 0..Rounds |-> IF n = 0 THEN {r} ELSE Hops(f[n - 1])]

LEMMA RoundsType == Rounds \in Nat
BY FiniteRequests, FS_CardinalityType DEF Rounds

\* Reached is what such a chain goes through: the recursive function exists.
LEMMA ReachedByChain ==
  ASSUME NEW r \in Requests
  PROVE  \E f : IsChain(f, r) /\ Reached(r) = UNION {f[n] : n \in 1..Rounds}
<1> DEFINE D   == SUBSET Requests
           hop == [A \in D |-> Hops(A)]
<1>1. hop \in [D -> D] /\ {r} \in D
  BY DEF Hops
<1>2. PICK g : Repeats(g, D, hop, {r}, Rounds)
  <2> HIDE DEF D, hop
  <2>1. QED
    BY <1>1, RoundsType, Iterates
<1>3. IsChain(g, r)
  <2>1. ASSUME NEW n \in 0..Rounds
        PROVE  g[n] = IF n = 0 THEN {r} ELSE Hops(g[n - 1])
    <3>1. CASE n = 0
      BY <1>2, <3>1 DEF Repeats
    <3>2. CASE n # 0
      <4>1. n \in 1..Rounds /\ n - 1 \in 0..Rounds
        BY <3>2, RoundsType
      <4>2. QED
        BY <1>2, <3>2, <4>1 DEF Repeats
    <3>3. QED
      BY <3>1, <3>2
  <2> HIDE DEF hop
  <2>2. QED
    BY <1>2, <2>1 DEF IsChain, Repeats
<1> DEFINE f == CHOOSE f : IsChain(f, r)
<1>4. IsChain(f, r)
  BY <1>3
<1>5. Reached(r) = UNION {f[n] : n \in 1..Rounds}
  BY DEF Reached, IsChain, Hops, WaitsFor, Rounds
<1> HIDE DEF f
<1>6. QED
  BY <1>4, <1>5

LEMMA ChainSteps ==
  ASSUME NEW r, NEW f, IsChain(f, r)
  PROVE  f[0] = {r} /\ \A n \in 1..Rounds : f[n] = Hops(f[n - 1])
<1>1. 0 \in 0..Rounds /\ \A n \in 1..Rounds : n \in 0..Rounds /\ n # 0
  BY RoundsType
<1>2. \A n \in 0..Rounds : f[n] = IF n = 0 THEN {r} ELSE Hops(f[n - 1])
  BY DEF IsChain
<1>3. QED
  BY <1>1, <1>2

\* Nobody waits for two.
LEMMA OneByOne ==
  ASSUME Orderly, NEW r \in Requests, NEW f, IsChain(f, r)
  PROVE  \A k \in 0..Rounds : f[k] \subseteq Requests /\ \A p, q \in f[k] : p = q
<1> DEFINE G == {k \in 0..Rounds : f[k] \subseteq Requests /\ \A p, q \in f[k] : p = q}
<1>1. f[0] = {r} /\ \A n \in 1..Rounds : f[n] = Hops(f[n - 1])
  BY ChainSteps
<1>2. 0 \in G
  BY <1>1, RoundsType
<1>3. ASSUME NEW k \in 1..Rounds, k - 1 \in G PROVE k \in G
  <2>1. f[k] = Hops(f[k - 1]) /\ k \in 0..Rounds
    BY <1>1, RoundsType
  <2>2. f[k - 1] \subseteq Requests /\ \A p, q \in f[k - 1] : p = q
    BY <1>3
  <2>3. \A p, q \in f[k] : p = q
    BY <2>1, <2>2, OneHolder DEF Hops
  <2>4. QED
    BY <2>1, <2>3 DEF Hops
<1>4. QED
  <2> HIDE DEF G
  <2>1. \A k \in 0..Rounds : k \in G
    BY <1>2, <1>3, RoundsType, CountUp
  <2>2. QED
    BY <2>1 DEF G

\* Back where it began, the chain goes round.
LEMMA GoesRound ==
  ASSUME Orderly, NEW r \in Requests, NEW f, IsChain(f, r), NEW L \in 1..Rounds, r \in f[L],
         NEW k \in 0..Rounds, NEW q \in f[k]
  PROVE  \E n \in 0..L : q \in f[n]
<1> DEFINE U == UNION {f[n] : n \in 0..L}
           G == {n \in 0..Rounds : f[n] \subseteq U}
<1>1. f[0] = {r} /\ \A n \in 1..Rounds : f[n] = Hops(f[n - 1])
  BY ChainSteps
<1>2. L \in 0..Rounds /\ 0 \in 0..L /\ L \in Nat
  BY RoundsType
<1>3. 0 \in G
  <2>1. f[0] \subseteq U
    BY <1>2
  <2>2. QED
    BY <2>1, RoundsType
<1>4. ASSUME NEW p \in U, NEW o \in Requests, WaitsFor(p, o) PROVE o \in U
  <2>1. PICK n \in 0..L : p \in f[n]
    OBVIOUS
  <2>2. PICK m \in 1..L : p \in f[m - 1]
    <3>1. CASE n < L
      <4>1. n + 1 \in 1..L /\ (n + 1) - 1 = n
        BY <1>2, <3>1
      <4>2. QED
        BY <2>1, <4>1
    <3>2. CASE n = L
      <4>1. p = r
        BY <1>2, <2>1, <3>2, OneByOne
      <4>2. 1 \in 1..L /\ 1 - 1 = 0
        BY <1>2
      <4>3. p \in f[1 - 1]
        BY <1>1, <4>1, <4>2
      <4>4. QED
        BY <4>2, <4>3
    <3>3. QED
      BY <1>2, <3>1, <3>2
  <2>3. m \in 1..Rounds /\ m \in 0..L
    BY <1>2, RoundsType
  <2>4. o \in f[m]
    BY <1>1, <1>4, <2>2, <2>3 DEF Hops
  <2>5. QED
    BY <2>3, <2>4
<1>5. ASSUME NEW n \in 1..Rounds, n - 1 \in G PROVE n \in G
  <2>1. f[n] = Hops(f[n - 1]) /\ f[n - 1] \subseteq U /\ n \in 0..Rounds
    BY <1>1, <1>5, RoundsType
  <2> HIDE DEF U
  <2>2. f[n] \subseteq U
    BY <1>4, <2>1 DEF Hops
  <2>3. QED
    BY <2>1, <2>2
<1>6. k \in G
  <2> HIDE DEF G
  <2>1. QED
    BY <1>3, <1>5, RoundsType, CountUp
<1>7. QED
  BY <1>6

\* Along a chain of requests that lock in order, the rows waited for rise.
LEMMA Rises ==
  ASSUME Orderly, LockOrder, NEW r \in Requests, NEW f, IsChain(f, r),
         \A n \in 0..Rounds : \A q \in f[n] : job[q].op \in Ordered,
         NEW a \in 0..Rounds, NEW p \in f[a], NEW x \in asks[p],
         NEW b \in 0..Rounds, a <= b, NEW o \in f[b], NEW y \in asks[o]
  PROVE  Level(x[1]) <= Level(y[1])
<1> DEFINE G == {n \in 0..Rounds : a <= n =>
                   \A q \in f[n] : \A z \in asks[q] : Level(x[1]) <= Level(z[1])}
<1>1. f[0] = {r} /\ (\A n \in 1..Rounds : f[n] = Hops(f[n - 1])) /\ a \in Nat
  BY ChainSteps, RoundsType
<1>2. \A n \in 0..Rounds : f[n] \subseteq Requests /\ \A q, q2 \in f[n] : q = q2
  BY OneByOne
<1>3. ASSUME NEW q \in Requests, NEW z \in asks[q] PROVE Level(z[1]) \in Nat
  <2>1. z \in Rows
    BY <1>3 DEF Orderly, TypeOK
  <2>2. QED
    BY <2>1, Levels DEF Rows
<1>4. p \in Requests /\ Level(x[1]) \in Nat
  BY <1>2, <1>3
<1>5. ASSUME NEW q \in f[a], NEW z \in asks[q] PROVE Level(x[1]) <= Level(z[1])
  <2>1. q = p
    BY <1>2
  <2>2. x = z
    <3>1. \E w : asks[p] = {w}
      BY <1>4 DEF Orderly, InPlace, WaitsAtLock
    <3>2. QED
      BY <1>5, <2>1, <3>1
  <2>3. QED
    BY <1>4, <2>2
<1>6. 0 \in G
  <2>1. a <= 0 => a = 0
    BY <1>1
  <2>2. QED
    BY <1>5, <2>1, RoundsType
<1>7. ASSUME NEW n \in 1..Rounds, n - 1 \in G PROVE n \in G
  <2>1. n \in 0..Rounds /\ n - 1 \in 0..Rounds /\ f[n] = Hops(f[n - 1])
    BY <1>1, RoundsType
  <2>2. ASSUME a <= n, a # n, NEW q \in f[n], NEW z \in asks[q] PROVE Level(x[1]) <= Level(z[1])
    <3>1. a <= n - 1
      BY <1>1, <2>2
    <3>2. PICK q2 \in f[n - 1] : WaitsFor(q2, q)
      BY <2>1, <2>2 DEF Hops
    <3>3. PICK w \in asks[q2] : w \in held[q]
      BY <3>2 DEF WaitsFor
    <3>4. Level(x[1]) <= Level(w[1])
      BY <1>7, <3>1
    <3>5. q \in Requests /\ q2 \in Requests
      BY <1>2, <2>1
    <3>6. Level(w[1]) <= Level(z[1])
      BY <2>1, <2>2, <3>3, <3>5, WaitsUp
    <3>7. Level(w[1]) \in Nat /\ Level(z[1]) \in Nat
      BY <1>3, <2>2, <3>3, <3>5
    <3>8. QED
      BY <1>4, <3>4, <3>6, <3>7
  <2>3. QED
    BY <1>5, <2>1, <2>2
<1>8. b \in G
  <2> HIDE DEF G
  <2>1. QED
    BY <1>6, <1>7, RoundsType, CountUp
<1>9. QED
  BY <1>8

\* Whoever goes round waits.
LEMMA CircleWaits ==
  ASSUME NEW r \in Requests, NEW f, IsChain(f, r), NEW L \in 1..Rounds, r \in f[L]
  PROVE  asks[r] # {}
<1> SUFFICES ASSUME asks[r] = {} PROVE FALSE
  OBVIOUS
<1> DEFINE G == {n \in 0..Rounds : n # 0 => f[n] = {}}
<1>1. f[0] = {r} /\ \A n \in 1..Rounds : f[n] = Hops(f[n - 1])
  BY ChainSteps
<1>2. 0 \in G
  BY RoundsType
<1>3. ASSUME NEW n \in 1..Rounds, n - 1 \in G PROVE n \in G
  <2>1. n \in 0..Rounds /\ f[n] = Hops(f[n - 1])
    BY <1>1, RoundsType
  <2>2. CASE n - 1 = 0
    <3>1. f[n] = Hops({r})
      BY <1>1, <2>1, <2>2
    <3>2. f[n] = {}
      BY <3>1 DEF Hops, WaitsFor
    <3>3. QED
      BY <2>1, <3>2
  <2>3. CASE n - 1 # 0
    <3>1. f[n - 1] = {}
      BY <1>3, <2>3
    <3>2. QED
      BY <2>1, <3>1 DEF Hops
  <2>4. QED
    BY <2>2, <2>3
<1>4. L \in G /\ L # 0
  <2> HIDE DEF G
  <2>1. L \in 0..Rounds /\ L # 0
    BY RoundsType
  <2>2. QED
    BY <1>2, <1>3, <2>1, RoundsType, CountUp
<1>5. QED
  BY <1>4

\* A circle of waits that never goes down stays on one level.
LEMMA CirclesOfOneTable == Orderly /\ LockOrder => OrderedDeadlocks
<1> SUFFICES ASSUME Orderly, LockOrder, NEW r \in Requests, InCircle(r),
                    \A q \in Reached(r) : job[q].op \notin {"close", "addUnits"}
             PROVE  \E table \in Tables : \A q \in Reached(r) : asks[q] \subseteq {table} \X Ids
  BY DEF OrderedDeadlocks
<1>1. PICK f : IsChain(f, r) /\ Reached(r) = UNION {f[n] : n \in 1..Rounds}
  BY ReachedByChain
<1>2. PICK L \in 1..Rounds : r \in f[L]
  BY <1>1 DEF InCircle
<1>3. /\ L \in 0..Rounds /\ 0 \in 0..Rounds /\ L \in Nat /\ f[0] = {r}
      /\ \A n \in 0..Rounds : f[n] \subseteq Requests
      /\ \A n \in 0..Rounds : n = 0 \/ n \in 1..Rounds
  BY <1>1, RoundsType, ChainSteps, OneByOne
<1>4. ASSUME NEW n \in 0..Rounds, NEW q \in f[n] PROVE job[q].op \in Ordered
  <2>1. q \in Reached(r)
    BY <1>1, <1>2, <1>3
  <2>2. q \in Requests
    BY <1>3
  <2>3. job[q] \in Job
    BY <2>2 DEF Orderly, TypeOK
  <2>4. job[q].op \in Drafted \cup {"close", "setStatus", "move", "count"}
    BY <2>3, JobShapes
  <2>5. QED
    BY <2>1, <2>4 DEF Drafted, Ordered
<1>5. PICK x : asks[r] = {x}
  <2>1. asks[r] # {}
    BY <1>1, <1>2, CircleWaits
  <2>2. QED
    BY <2>1 DEF Orderly, InPlace, WaitsAtLock
<1>6. x \in Rows /\ \A q \in Requests : asks[q] \subseteq Rows
  BY <1>5 DEF Orderly, TypeOK
<1>7. ASSUME NEW q \in Reached(r), NEW y \in asks[q] PROVE y \in {x[1]} \X Ids
  <2>1. PICK k \in 1..Rounds : q \in f[k]
    BY <1>1
  <2>2. PICK n \in 0..L : q \in f[n]
    <3>1. k \in 0..Rounds
      BY RoundsType
    <3>2. QED
      BY <1>1, <1>2, <2>1, <3>1, GoesRound
  <2>3. n \in 0..Rounds /\ 0 <= n /\ n <= L
    BY <1>3, RoundsType
  <2>4. x \in asks[r] /\ r \in f[0] /\ q \in Requests
    BY <1>3, <1>5, <2>2, <2>3
  <2>5. Level(x[1]) <= Level(y[1])
    BY <1>1, <1>3, <1>4, <1>7, <2>2, <2>3, <2>4, Rises
  <2>6. Level(y[1]) <= Level(x[1])
    BY <1>1, <1>2, <1>3, <1>4, <1>7, <2>2, <2>3, <2>4, Rises
  <2>7. y \in Rows /\ x[1] \in Tables /\ y[1] \in Tables
    BY <1>6, <1>7, <2>4 DEF Rows
  <2>8. Level(x[1]) = Level(y[1])
    BY <2>5, <2>6, <2>7, Levels
  <2>9. x[1] = y[1]
    BY <2>7, <2>8, Levels
  <2>10. QED
    BY <2>7, <2>9 DEF Rows
<1>8. x[1] \in Tables
  BY <1>6 DEF Rows
<1>9. QED
  BY <1>7, <1>8

\* Transactions that lock receipts, shifts, items, products and the counter in
\* this order deadlock only over rows of one table, whatever their number:
\* every other circle has a closing shift or an addition by product in it.
THEOREM OnlyOrderedDeadlocks == Spec => []OrderedDeadlocks
<1>1. Init => Orderly /\ LockOrder
  BY OrderlyInit, LockOrderInit
<1>2. Orderly /\ LockOrder /\ [Next]_vars => (Orderly /\ LockOrder)'
  BY OrderlyNext, LockOrderNext
<1>3. QED
  BY <1>1, <1>2, CirclesOfOneTable, PTL DEF Spec
=============================================================================
