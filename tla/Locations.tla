----------------------------- MODULE Locations -----------------------------
(***************************************************************************)
(* Warehouses, stores and counters as a tree, the staff assigned to them   *)
(* and the goods kept in them (locations/locations.service.ts, the         *)
(* location part of users/users.service.ts).                               *)
(*                                                                         *)
(* Grain.  These handlers run in no transaction: each reads what it needs  *)
(* (the ...Check action) and writes later (the ...Commit action), and      *)
(* other requests run in between.  A save() writes the whole row the       *)
(* handler read, and inserts it again if it was removed meanwhile.  What   *)
(* is left of the relations at a write is up to the foreign keys.          *)
(* Names and types of locations are left out: with them goes which of the  *)
(* existing locations is the default one.                                  *)
(***************************************************************************)
EXTENDS Naturals, FiniteSets

CONSTANTS
  Locs,           \* location ids
  Users,          \* members of staff whose role is tied to their location
  Requests        \* slots for requests between their reads and their write

ASSUME FiniteLocs == IsFiniteSet(Locs)

VARIABLES
  parent,         \* location -> its parent, None, or Gone when there is no row
  place,          \* users.location_id
  goods,          \* locations that items, shifts, sales or stock checks name
  pending,        \* requests between their reads and their write
  overlapped      \* history: some write followed another request's write
                  \* that came after its own reads

vars == <<parent, place, goods, pending, overlapped>>

None == "none"
Gone == "gone"
Idle == [op |-> "idle", fresh |-> TRUE]

ASSUME NoRowIds == None \notin Locs /\ Gone \notin Locs

Request ==
  {Idle}
  \cup [op : {"create"}, above : Locs \cup {None}, fresh : BOOLEAN]
  \cup [op : {"save"}, loc : Locs, above : Locs \cup {None}, fresh : BOOLEAN]
  \cup [op : {"remove"}, loc : Locs, fresh : BOOLEAN]
  \cup [op : {"assign"}, user : Users, loc : Locs \cup {None}, fresh : BOOLEAN]
  \cup [op : {"receive"}, loc : Locs, fresh : BOOLEAN]

TypeOK ==
  /\ parent \in [Locs -> Locs \cup {None, Gone}]
  /\ place \in [Users -> Locs \cup {None}]
  /\ goods \subseteq Locs
  /\ pending \in [Requests -> Request]
  /\ overlapped \in BOOLEAN

Init ==
  /\ parent = [l \in Locs |-> Gone]
  /\ place = [u \in Users |-> None]
  /\ goods = {}
  /\ pending = [r \in Requests |-> Idle]
  /\ overlapped = FALSE

Existing    == {l \in Locs : parent[l] # Gone}
Children(l) == {c \in Locs : parent[c] = l}
StaffOf(l)  == {u \in Users : place[u] = l}

-----------------------------------------------------------------------------
(* Reading the tree *)

ChildrenOnly(l) == {l} \cup Children(l)   \* mutant of Below

\* The locations the recursive query of findSubtreeIds comes to from l.
Below(l) ==
  LET level[n \in 0..Cardinality(Locs)] ==
        IF n = 0 THEN {l}
        ELSE level[n - 1] \cup UNION {Children(m) : m \in level[n - 1]}
  IN  level[Cardinality(Locs)] \cap Existing

\* It is a UNION ALL, which joins the children of every row it has returned
\* so far: once it returns a location that is below itself it never ends.
BelowItself(l) == \E c \in Children(l) : l \in Below(c)
QueryEnds(l)   == \A m \in Below(l) : ~BelowItself(m)

\* The answers findSubtreeIds can give: one, or none when the query does not
\* end; the request that asked gets no further then.
Subtree(l) == IF QueryEnds(l) THEN {Below(l)} ELSE {}

\* isAccessible follows the parents and stops at a location it has seen.
Unseen(path, l) == \A k \in DOMAIN path : path[k] # l

Accessible(u, l) ==
  /\ place[u] # None
  /\ \/ place[u] = l
     \/ LET up[n \in 0..Cardinality(Locs)] ==
              IF n = 0 THEN l
              ELSE IF up[n - 1] \in Existing THEN parent[up[n - 1]] ELSE None
        IN  \E n \in 0..Cardinality(Locs) :
              /\ up[n] = place[u]
              /\ \A m \in 0..n : up[m] \in Existing
              /\ Unseen([m \in 0..(n - 1) |-> up[m]], up[n])

-----------------------------------------------------------------------------
(* Requests *)

Starts(r, request) ==
  /\ pending[r] = Idle
  /\ pending' = [pending EXCEPT ![r] = request]
  /\ UNCHANGED <<parent, place, goods, overlapped>>

\* A request answers; if it wrote, what the others have read is out of date.
Writes(r) ==
  /\ pending' = [q \in Requests |->
       IF q = r \/ pending[q] = Idle THEN Idle
       ELSE [pending[q] EXCEPT !.fresh = FALSE]]
  /\ overlapped' = (overlapped \/ ~pending[r].fresh)

Refused(r) ==
  /\ pending' = [pending EXCEPT ![r] = Idle]
  /\ UNCHANGED <<parent, place, goods, overlapped>>

\* A reference column accepts null or the id of an existing location.
ForeignKey(l) == l \in Existing \cup {None}

\* create, with or without a parent.  The default warehouse is created the
\* same way when the table is empty (getOrCreateDefaultWarehouse).
CreateCheck(r, p) ==
  /\ p \in Existing \cup {None}
  /\ Starts(r, [op |-> "create", above |-> p, fresh |-> TRUE])

CreateCommit(r, l) ==
  /\ pending[r].op = "create"
  /\ parent[l] = Gone
  /\ ForeignKey(pending[r].above)
  /\ parent' = [parent EXCEPT ![l] = pending[r].above]
  /\ Writes(r)
  /\ UNCHANGED <<place, goods>>

SelfOnly(l, p, ids) == p # l   \* mutant of MoveAllowed

\* parentWouldCycle, on the descendants the query returned.
MoveAllowed(l, p, ids) == p # l /\ p \notin ids

\* update without a parent in the request: the row as it was read.
RenameCheck(r, l) ==
  /\ l \in Existing
  /\ Starts(r, [op |-> "save", loc |-> l, above |-> parent[l], fresh |-> TRUE])

MoveCheck(r, l, p) ==
  /\ l \in Existing
  /\ p # None => p \in Existing /\ \E ids \in Subtree(l) : MoveAllowed(l, p, ids)
  /\ Starts(r, [op |-> "save", loc |-> l, above |-> p, fresh |-> TRUE])

UpdateCommit(r) ==
  /\ pending[r].op = "save"
  /\ ForeignKey(pending[r].above)
  /\ parent' = [parent EXCEPT ![pending[r].loc] = pending[r].above]
  /\ Writes(r)
  /\ UNCHANGED <<place, goods>>

ChildrenAndGoods(l) == Children(l) = {} /\ l \notin goods   \* mutant of Empty

\* remove: six counts that must all be zero.
Empty(l) == Children(l) = {} /\ StaffOf(l) = {} /\ l \notin goods

RemoveCheck(r, l) ==
  /\ l \in Existing
  /\ Empty(l)
  /\ Starts(r, [op |-> "remove", loc |-> l, fresh |-> TRUE])

\* items, shifts, sales and stock checks restrict the removal of a location.
Removable(l) == l \notin goods

Dangling(reference, l) == reference   \* mutant of SetNull: no action on delete

\* Children and staff lose their reference to it.
SetNull(reference, l) == IF reference = l THEN None ELSE reference

RemoveCommit(r) ==
  LET l == pending[r].loc IN
  /\ pending[r].op = "remove"
  /\ Removable(l)
  /\ parent' = [m \in Locs |-> IF m = l THEN Gone ELSE SetNull(parent[m], l)]
  /\ place' = [u \in Users |-> SetNull(place[u], l)]
  /\ Writes(r)
  /\ UNCHANGED goods

\* UsersService.update with a location.
AssignCheck(r, u, l) ==
  /\ l \in Existing \cup {None}
  /\ Starts(r, [op |-> "assign", user |-> u, loc |-> l, fresh |-> TRUE])

AssignCommit(r) ==
  /\ pending[r].op = "assign"
  /\ ForeignKey(pending[r].loc)
  /\ place' = [place EXCEPT ![pending[r].user] = pending[r].loc]
  /\ Writes(r)
  /\ UNCHANGED <<parent, goods>>

\* A batch, a new product, a shift or a stock check looks its location up
\* and inserts rows that name it afterwards.
ReceiveCheck(r, l) ==
  /\ l \in Existing
  /\ Starts(r, [op |-> "receive", loc |-> l, fresh |-> TRUE])

ReceiveCommit(r) ==
  /\ pending[r].op = "receive"
  /\ ForeignKey(pending[r].loc)
  /\ goods' = goods \cup {pending[r].loc}
  /\ Writes(r)
  /\ UNCHANGED <<parent, place>>

\* The foreign keys fail the write of a request.
WriteFails(r) ==
  /\ \/ pending[r].op \in {"create", "save"} /\ ~ForeignKey(pending[r].above)
     \/ pending[r].op \in {"assign", "receive"} /\ ~ForeignKey(pending[r].loc)
     \/ pending[r].op = "remove" /\ ~Removable(pending[r].loc)
  /\ Refused(r)

\* The last item of a location moves on to another.
ClearOut(l, m) ==
  /\ l \in goods /\ m \in Existing
  /\ goods' = (goods \ {l}) \cup {m}
  /\ UNCHANGED <<parent, place, pending, overlapped>>

Next ==
  \/ \E r \in Requests :
       \/ \E p \in Locs \cup {None} : CreateCheck(r, p)
       \/ \E l \in Locs : CreateCommit(r, l)
       \/ \E l \in Locs : RenameCheck(r, l)
       \/ \E l \in Locs, p \in Locs \cup {None} : MoveCheck(r, l, p)
       \/ UpdateCommit(r)
       \/ \E l \in Locs : RemoveCheck(r, l)
       \/ RemoveCommit(r)
       \/ \E u \in Users, l \in Locs \cup {None} : AssignCheck(r, u, l)
       \/ AssignCommit(r)
       \/ \E l \in Locs : ReceiveCheck(r, l)
       \/ ReceiveCommit(r)
       \/ WriteFails(r)
  \/ \E l, m \in Locs : ClearOut(l, m)

Spec == Init /\ [][Next]_vars

-----------------------------------------------------------------------------
(* Properties *)

\* Whatever the interleaving of requests, a location's parent, a member of
\* staff's location and the location of goods are rows that exist: checks
\* are made on other statements than writes, so only the foreign keys of
\* locations, users, items, shifts, sales and stock_checks ensure it.
ReferencesExist ==
  /\ \A l \in Existing : parent[l] \in Existing \cup {None}
  /\ \A u \in Users : place[u] \in Existing \cup {None}
  /\ goods \subseteq Existing

\* Edits of the tree can put a location below itself (on which
\* findSubtreeIds never ends) only when the reads of one request and the
\* write of another overlap: the check of update is right on the tree it
\* sees, however deep.
AcyclicUnlessOverlap == ~overlapped => \A l \in Existing : QueryEnds(l)

\* Removing a location detaches children or staff, which remove refuses to
\* do, only when an assignment, a move or a creation overlaps the removal;
\* goods are never left without their location.
RemovalDetachesNothing ==
  [][\A l \in Locs : parent[l] # Gone /\ parent'[l] = Gone =>
       /\ l \notin goods
       /\ ~overlapped' => Children(l) = {} /\ StaffOf(l) = {}]_vars

\* The list of locations a member of staff gets (findAllForUser, a query
\* downwards from their own) and the check on the one they act in
\* (isAccessible, a walk upwards) agree on every tree that overlapping edits
\* lead to.  Where the query ends, the list holds what they may act in.  It
\* ends on all trees but one kind: those where they may act even in the
\* location above their own, because theirs is above itself.
Listed(u, l) == \E ids \in Subtree(place[u]) : l \in ids
ListedIsAccessible ==
  \A u \in Users :
    IF place[u] = None
    THEN \A l \in Existing : ~Accessible(u, l)
    ELSE IF parent[place[u]] # None /\ Accessible(u, parent[place[u]])
    THEN Subtree(place[u]) = {}
    ELSE Subtree(place[u]) # {} /\ \A l \in Existing : Accessible(u, l) <=> Listed(u, l)
=============================================================================
