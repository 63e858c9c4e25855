------------------------------ MODULE TillLocks ------------------------------
(***************************************************************************)
(* The row locks and pooled connections under the till's transactions      *)
(* (sales/sales.service.ts, shifts/shifts.service.ts,                      *)
(* inventory/inventory.service.ts, locations/locations.service.ts).        *)
(*                                                                         *)
(* PointOfSale takes each transaction as one step.  Here a transaction is  *)
(* the sequence of its blocking steps: rows it locks (FOR UPDATE, or by    *)
(* deleting them), a query of LocationsService, which runs on a second     *)
(* connection while the transaction keeps its own, and the read its        *)
(* outcome depends on.  Locks are held to the end.  A statement locks      *)
(* several rows one by one, in whichever order the planner reads them.     *)
(* Share locks taken by foreign keys are left out.                         *)
(***************************************************************************)
EXTENDS Naturals, Sequences, FiniteSets

CONSTANTS
  Sales, Shifts, Items, Products,  \* row identifiers
  Counter,        \* the row of receipt_sequences
  ShiftOf,        \* the shift of each receipt
  LineItems,      \* the items on each receipt's lines
  ProductOf,      \* the product of each item
  Oldest,         \* the unit an addition by product takes
  Requests,       \* requests, one transaction each
  Mixes,          \* what they may be together
  PoolSize        \* connections in the pool

ASSUME Pool == PoolSize \in Nat \ {0}
ASSUME FiniteRequests == IsFiniteSet(Requests)
ASSUME References ==
  /\ ShiftOf \in [Sales -> Shifts] /\ LineItems \in [Sales -> SUBSET Items]
  /\ ProductOf \in [Items -> Products] /\ Oldest \in [Products -> Items]

VARIABLES
  job,        \* what each request does
  step,       \* where its transaction is; 0 before it has a connection
  asks,       \* the row it waits for, if any
  held,       \* the rows it has locked
  conns,      \* the connections it has
  listed,     \* the drafts that closing a shift has read
  status,     \* status of each receipt
  outcome     \* what was answered

vars == <<job, step, asks, held, conns, listed, status, outcome>>

\* A row is known by its table and id; sale_items go by their receipt.
Tables == {"sales", "sale_items", "shifts", "items", "products", "receipt_sequences"}
Ids    == Sales \cup Shifts \cup Items \cup Products \cup {Counter}
Rows   == Tables \X Ids

\* nested: the user's location is above that of the receipt, shift or item,
\* so that finding out takes queries (isAccessible).
Job ==
  [op : {"pay", "refund", "edit", "cancel"}, sale : Sales, nested : BOOLEAN]
  \cup [op : {"addTag"}, sale : Sales, item : Items, nested : BOOLEAN]
  \cup [op : {"addUnits"}, sale : Sales, product : Products, nested : BOOLEAN]
  \cup [op : {"close"}, shift : Shifts, nested : BOOLEAN]
  \cup [op : {"setStatus", "move"}, item : Items, nested : BOOLEAN]
  \cup [op : {"count"}, items : SUBSET Items, nested : BOOLEAN]

ASSUME KnownJobs == Mixes \subseteq [Requests -> Job]

-----------------------------------------------------------------------------
(* The blocking steps of each transaction *)

Lock(table, ids) ==
  IF ids = {} THEN <<>> ELSE <<[kind |-> "lock", rows |-> {table} \X ids]>>
Query      == <<[kind |-> "query", rows |-> {}]>>    \* on a second connection
Read       == <<[kind |-> "read", rows |-> {}]>>
Access(j)  == IF j.nested THEN Query ELSE <<>>

Goods(s) == {ProductOf[i] : i \in LineItems[s]}

\* lockDraft
OfDraft(j) == Lock("sales", {j.sale}) \o Access(j) \o Read

ShiftUnlocked(s) == <<>>   \* mutant of ShiftFirst

\* lockShift
ShiftFirst(s) == Lock("shifts", {ShiftOf[s]})

\* pay and refund, up to their writes.
Settles(j) ==
  OfDraft(j) \o ShiftFirst(j.sale)
    \o Lock("items", LineItems[j.sale]) \o Lock("products", Goods(j.sale))

\* mutant of AddsTag
ProductFirst(j) == Lock("products", {ProductOf[j.item]}) \o Lock("items", {j.item})

\* addItem by tag, and by product.
AddsTag(j)   == Lock("items", {j.item}) \o Lock("products", {ProductOf[j.item]})
AddsUnits(j) == Lock("products", {j.product}) \o Lock("items", {Oldest[j.product]})

\* close locks the shift, then deletes the drafts it read: their lines, then
\* the receipts (listed[r], from the step after the read on).
Closes(j, drafts) ==
  Lock("shifts", {j.shift}) \o Access(j) \o Read
    \o Lock("sale_items", drafts) \o Lock("sales", drafts)

Steps(j, drafts) ==
  CASE j.op = "pay"       -> Settles(j) \o Lock("receipt_sequences", {Counter})
    [] j.op = "refund"    -> Settles(j)
    [] j.op \in {"edit", "cancel"} -> OfDraft(j) \o Lock("sale_items", {j.sale})
    [] j.op = "addTag"    -> OfDraft(j) \o AddsTag(j)
    [] j.op = "addUnits"  -> OfDraft(j) \o AddsUnits(j)
    [] j.op = "close"     -> Closes(j, drafts)
    [] j.op = "setStatus" -> Lock("items", {j.item}) \o Access(j)
    [] j.op = "move"      -> Lock("items", {j.item}) \o Access(j) \o Query
    [] j.op = "count"     -> Lock("items", j.items)

Plan(r)    == Steps(job[r], listed[r])
Current(r) == Plan(r)[step[r]]
At(r, kind) ==
  /\ step[r] \in DOMAIN Plan(r)
  /\ Current(r).kind = kind

-----------------------------------------------------------------------------
TypeOK ==
  /\ job \in [Requests -> Job]
  /\ step \in [Requests -> Nat]
  /\ asks \in [Requests -> SUBSET Rows]
  /\ held \in [Requests -> SUBSET Rows]
  /\ conns \in [Requests -> 0..2]
  /\ listed \in [Requests -> SUBSET Sales]
  /\ status \in [Sales -> {"draft", "paid", "refunded", "gone"}]
  /\ outcome \in [Requests -> {"none", "done", "failed"}]

Init ==
  /\ job \in Mixes
  /\ step = [r \in Requests |-> 0]
  /\ asks = [r \in Requests |-> {}]
  /\ held = [r \in Requests |-> {}]
  /\ conns = [r \in Requests |-> 0]
  /\ listed = [r \in Requests |-> {}]
  /\ status = [s \in Sales |-> "draft"]
  /\ outcome = [r \in Requests |-> "none"]

-----------------------------------------------------------------------------
Unanswered(r) == outcome[r] = "none"
Free(rows)    == \A q \in Requests : held[q] \cap rows = {}

\* A connection is left in the pool: nobody has two but for a query, so the
\* connections in use are those of transactions and of their queries.
InUse == Cardinality({r \in Requests : conns[r] > 0})
           + Cardinality({r \in Requests : conns[r] > 1})

\* The transaction ends, its locks and its connection with it.
Ends(r, answer) ==
  /\ outcome' = [outcome EXCEPT ![r] = answer]
  /\ held' = [held EXCEPT ![r] = {}]
  /\ asks' = [asks EXCEPT ![r] = {}]
  /\ conns' = [conns EXCEPT ![r] = 0]
  /\ UNCHANGED <<job, step, listed>>

Begin(r) ==
  /\ Unanswered(r) /\ step[r] = 0
  /\ InUse < PoolSize
  /\ step' = [step EXCEPT ![r] = 1]
  /\ conns' = [conns EXCEPT ![r] = 1]
  /\ UNCHANGED <<job, asks, held, listed, status, outcome>>

\* With its last row the statement ends.
Locks(r, rows) ==
  /\ held' = [held EXCEPT ![r] = @ \cup rows]
  /\ step' = [step EXCEPT ![r] = IF Current(r).rows \subseteq held[r] \cup rows THEN @ + 1 ELSE @]

\* The statement reaches its next row and waits, or has it at once.
Ask(r, x) ==
  /\ asks[r] = {} /\ x \notin held[r]
  /\ IF Free({x})
     THEN Locks(r, {x}) /\ UNCHANGED asks
     ELSE asks' = [asks EXCEPT ![r] = {x}] /\ UNCHANGED <<held, step>>
  /\ UNCHANGED <<job, conns, listed, status, outcome>>

Grant(r) ==
  /\ asks[r] # {} /\ Free(asks[r])
  /\ Locks(r, asks[r])
  /\ asks' = [asks EXCEPT ![r] = {}]
  /\ UNCHANGED <<job, conns, listed, status, outcome>>

Proceeds(r) == step' = [step EXCEPT ![r] = @ + 1]

\* LocationsService takes a connection of its own and gives it back.
Connect(r) ==
  /\ Unanswered(r) /\ At(r, "query") /\ conns[r] = 1
  /\ InUse < PoolSize
  /\ conns' = [conns EXCEPT ![r] = 2]
  /\ UNCHANGED <<job, step, asks, held, listed, status, outcome>>

Release(r) ==
  /\ conns[r] = 2
  /\ conns' = [conns EXCEPT ![r] = 1]
  /\ Proceeds(r)
  /\ UNCHANGED <<job, asks, held, listed, status, outcome>>

\* What the transaction expects of the receipt it has locked; close reads
\* the drafts of its shift without locking them.
Expected(j) ==
  CASE j.op = "close"  -> TRUE
    [] j.op = "refund" -> status[j.sale] = "paid"
    [] OTHER           -> status[j.sale] = "draft"

ReadOn(r) ==
  /\ Unanswered(r) /\ At(r, "read")
  /\ Expected(job[r])
  /\ listed' = [listed EXCEPT ![r] =
       IF job[r].op = "close"
       THEN {s \in Sales : ShiftOf[s] = job[r].shift /\ status[s] = "draft"} ELSE {}]
  /\ Proceeds(r)
  /\ UNCHANGED <<job, asks, held, conns, status, outcome>>

Refuse(r) ==
  /\ Unanswered(r) /\ At(r, "read")
  /\ ~Expected(job[r])
  /\ Ends(r, "failed")
  /\ UNCHANGED status

Commit(r) ==
  LET j == job[r] IN
  /\ Unanswered(r) /\ step[r] = Len(Plan(r)) + 1
  /\ status' = [s \in Sales |->
       IF s \in listed[r] THEN "gone"
       ELSE IF j.op = "pay" /\ s = j.sale THEN "paid"
       ELSE IF j.op = "refund" /\ s = j.sale THEN "refunded"
       ELSE IF j.op = "cancel" /\ s = j.sale THEN "gone"
       ELSE status[s]]
  /\ Ends(r, "done")

-----------------------------------------------------------------------------
(* Deadlocks *)

Reached(r) ==
  LET on[n \in 0..Cardinality(Requests)] ==
        IF n = 0 THEN {r}
        ELSE {q \in Requests : \E p \in on[n - 1] : asks[p] \cap held[q] # {}}
  IN  UNION {on[n] : n \in 1..Cardinality(Requests)}

Undetected(r) == FALSE   \* mutant of InCircle

\* A request that waits, over others, for itself.
InCircle(r) == r \in Reached(r)

\* After deadlock_timeout PostgreSQL rolls back one that finds itself so.
Abort(r) ==
  /\ InCircle(r)
  /\ Ends(r, "failed")
  /\ UNCHANGED status

Runs(r) ==
  \/ Begin(r)
  \/ Unanswered(r) /\ At(r, "lock") /\ \E x \in Current(r).rows : Ask(r, x)
  \/ Grant(r) \/ Connect(r) \/ Release(r)
  \/ ReadOn(r) \/ Refuse(r) \/ Commit(r)

Next == \E r \in Requests : Runs(r) \/ Abort(r)

\* Fairness: the event loop and PostgreSQL get to every transaction that can
\* go on, the pool hands free connections to those who wait in turn, and the
\* deadlock check runs for everyone who waits long enough.
Fairness ==
  \A r \in Requests : WF_vars(Runs(r)) /\ WF_vars(Abort(r))

Spec == Init /\ [][Next]_vars /\ Fairness

-----------------------------------------------------------------------------
(* Properties *)

\* Payments, refunds, edits, additions by tag, moves and stock checks lock
\* receipts, shifts, items, products and counter in this order, so that
\* among them only statements that lock several rows of one kind deadlock;
\* every other deadlock has a closing shift or an addition by product in it.
OrderedDeadlocks ==
  \A r \in Requests :
    InCircle(r) /\ (\A q \in Reached(r) : job[q].op \notin {"close", "addUnits"})
      => \E table \in Tables : \A q \in Reached(r) : asks[q] \subseteq {table} \X Ids

\* close deletes what it read as drafts without looking again: no payment
\* may come between, or a receipt that was paid disappears.
PaidStays ==
  [][\A s \in Sales : status[s] = "paid" => status'[s] \in {"paid", "refunded"}]_vars

\* The pool has run dry: every connection is held by a transaction that
\* waits, one of them for a second connection.
Waits(r) ==
  \/ At(r, "query") /\ conns[r] = 1
  \/ asks[r] # {} /\ ~Free(asks[r])

Starved ==
  /\ InUse = PoolSize
  /\ \A r \in Requests : conns[r] > 0 => Waits(r)
  /\ \E r \in Requests : conns[r] = 1 /\ At(r, "query")

\* Every request is answered in the end, whatever it waits for, unless the
\* pool runs dry for good.  PostgreSQL does not see that circle: one
\* transaction that queries LocationsService is enough for it when all
\* other connections wait for its rows.
AnsweredUnlessStarved ==
  <>[]Starved \/ \A r \in Requests : <>~Unanswered(r)
=============================================================================
