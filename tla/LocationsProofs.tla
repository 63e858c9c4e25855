-------------------------- MODULE LocationsProofs --------------------------
(***************************************************************************)
(* What holds of the tree of locations for any number of locations, staff  *)
(* and requests in flight: the references in it, what a removal leaves     *)
(* behind, that edits keep it a tree, and that the query down it and the   *)
(* walk up it agree.                                                       *)
(***************************************************************************)
EXTENDS Locations, SumsProofs

-----------------------------------------------------------------------------
(* Shapes *)

LEMMA Shapes ==
  ASSUME NEW q \in Request
  PROVE  /\ q.op = "create" => q.above \in Locs \cup {None}
         /\ q.op = "save" => q.loc \in Locs /\ q.above \in Locs \cup {None}
         /\ q.op \in {"remove", "receive"} => q.loc \in Locs
         /\ q.op = "assign" => q.user \in Users /\ q.loc \in Locs \cup {None}
         /\ q.fresh \in BOOLEAN
<1>1. CASE q = Idle
  BY <1>1 DEF Idle
<1>2. CASE q \in [op : {"create"}, above : Locs \cup {None}, fresh : BOOLEAN]
  BY <1>2
<1>3. CASE q \in [op : {"save"}, loc : Locs, above : Locs \cup {None}, fresh : BOOLEAN]
  BY <1>3
<1>4. CASE q \in [op : {"remove"}, loc : Locs, fresh : BOOLEAN]
  BY <1>4
<1>5. CASE q \in [op : {"assign"}, user : Users, loc : Locs \cup {None}, fresh : BOOLEAN]
  BY <1>5
<1>6. CASE q \in [op : {"receive"}, loc : Locs, fresh : BOOLEAN]
  BY <1>6
<1>7. QED
  BY <1>1, <1>2, <1>3, <1>4, <1>5, <1>6 DEF Request

\* Marking a request as out of date changes nothing else of it.
LEMMA Outdating ==
  ASSUME NEW q \in Request, q # Idle
  PROVE  /\ [q EXCEPT !.fresh = FALSE] \in Request
         /\ ~[q EXCEPT !.fresh = FALSE].fresh
<1>1. CASE q \in [op : {"create"}, above : Locs \cup {None}, fresh : BOOLEAN]
  BY <1>1 DEF Request
<1>2. CASE q \in [op : {"save"}, loc : Locs, above : Locs \cup {None}, fresh : BOOLEAN]
  BY <1>2 DEF Request
<1>3. CASE q \in [op : {"remove"}, loc : Locs, fresh : BOOLEAN]
  BY <1>3 DEF Request
<1>4. CASE q \in [op : {"assign"}, user : Users, loc : Locs \cup {None}, fresh : BOOLEAN]
  BY <1>4 DEF Request
<1>5. CASE q \in [op : {"receive"}, loc : Locs, fresh : BOOLEAN]
  BY <1>5 DEF Request
<1>6. QED
  BY <1>1, <1>2, <1>3, <1>4, <1>5 DEF Request

LEMMA WritesType ==
  ASSUME TypeOK, NEW r \in Requests, Writes(r)
  PROVE  /\ pending' \in [Requests -> Request]
         /\ overlapped' \in BOOLEAN
<1>1. ASSUME NEW s \in Requests
      PROVE  (IF s = r \/ pending[s] = Idle THEN Idle
              ELSE [pending[s] EXCEPT !.fresh = FALSE]) \in Request
  <2>1. Idle \in Request
    BY DEF Request
  <2>2. pending[s] \in Request
    BY DEF TypeOK
  <2>3. QED
    BY <2>1, <2>2, Outdating
<1>2. pending' \in [Requests -> Request]
  BY <1>1 DEF Writes
<1>3. overlapped' \in BOOLEAN
  BY DEF Writes, TypeOK
<1>4. QED
  BY <1>2, <1>3

LEMMA StartsType ==
  ASSUME TypeOK, NEW r \in Requests, NEW q \in Request, Starts(r, q)
  PROVE  TypeOK'
BY DEF Starts, TypeOK

-----------------------------------------------------------------------------
(* Type correctness *)

LEMMA InitType == Init => TypeOK
BY DEF Init, TypeOK, Request

LEMMA NextType == TypeOK /\ [Next]_vars => TypeOK'
<1> SUFFICES ASSUME TypeOK, [Next]_vars PROVE TypeOK'
  OBVIOUS
<1> USE DEF TypeOK
<1>1. ASSUME NEW r \in Requests, NEW p \in Locs \cup {None}, CreateCheck(r, p) PROVE TypeOK'
  <2>1. [op |-> "create", above |-> p, fresh |-> TRUE] \in Request
    BY DEF Request
  <2>2. QED
    BY <1>1, <2>1, StartsType DEF CreateCheck
<1>2. ASSUME NEW r \in Requests, NEW l \in Locs, CreateCommit(r, l) PROVE TypeOK'
  BY <1>2, Shapes, WritesType DEF CreateCommit
<1>3. ASSUME NEW r \in Requests, NEW l \in Locs, RenameCheck(r, l) PROVE TypeOK'
  <2>1. [op |-> "save", loc |-> l, above |-> parent[l], fresh |-> TRUE] \in Request
    BY <1>3 DEF Request, RenameCheck, Existing
  <2>2. QED
    BY <1>3, <2>1, StartsType DEF RenameCheck
<1>4. ASSUME NEW r \in Requests, NEW l \in Locs, NEW p \in Locs \cup {None},
             MoveCheck(r, l, p)
      PROVE  TypeOK'
  <2>1. [op |-> "save", loc |-> l, above |-> p, fresh |-> TRUE] \in Request
    BY DEF Request
  <2>2. QED
    BY <1>4, <2>1, StartsType DEF MoveCheck
<1>5. ASSUME NEW r \in Requests, UpdateCommit(r) PROVE TypeOK'
  BY <1>5, Shapes, WritesType DEF UpdateCommit
<1>6. ASSUME NEW r \in Requests, NEW l \in Locs, RemoveCheck(r, l) PROVE TypeOK'
  <2>1. [op |-> "remove", loc |-> l, fresh |-> TRUE] \in Request
    BY DEF Request
  <2>2. QED
    BY <1>6, <2>1, StartsType DEF RemoveCheck
<1>7. ASSUME NEW r \in Requests, RemoveCommit(r) PROVE TypeOK'
  <2>1. parent' \in [Locs -> Locs \cup {None, Gone}] /\ place' \in [Users -> Locs \cup {None}]
    BY <1>7 DEF RemoveCommit, SetNull
  <2>2. QED
    BY <1>7, <2>1, WritesType DEF RemoveCommit
<1>8. ASSUME NEW r \in Requests, NEW u \in Users, NEW l \in Locs \cup {None},
             AssignCheck(r, u, l)
      PROVE  TypeOK'
  <2>1. [op |-> "assign", user |-> u, loc |-> l, fresh |-> TRUE] \in Request
    BY DEF Request
  <2>2. QED
    BY <1>8, <2>1, StartsType DEF AssignCheck
<1>9. ASSUME NEW r \in Requests, AssignCommit(r) PROVE TypeOK'
  BY <1>9, Shapes, WritesType DEF AssignCommit
<1>10. ASSUME NEW r \in Requests, NEW l \in Locs, ReceiveCheck(r, l) PROVE TypeOK'
  <2>1. [op |-> "receive", loc |-> l, fresh |-> TRUE] \in Request
    BY DEF Request
  <2>2. QED
    BY <1>10, <2>1, StartsType DEF ReceiveCheck
<1>11. ASSUME NEW r \in Requests, ReceiveCommit(r) PROVE TypeOK'
  BY <1>11, Shapes, WritesType DEF ReceiveCommit
<1>12. ASSUME NEW r \in Requests, WriteFails(r) PROVE TypeOK'
  BY <1>12 DEF WriteFails, Refused, Request
<1>13. ASSUME NEW l \in Locs, NEW m \in Locs, ClearOut(l, m) PROVE TypeOK'
  BY <1>13 DEF ClearOut
<1>14. CASE UNCHANGED vars
  BY <1>14 DEF vars
<1>15. QED
  BY <1>1, <1>2, <1>3, <1>4, <1>5, <1>6, <1>7, <1>8, <1>9, <1>10, <1>11, <1>12, <1>13, <1>14
     DEF Next

\* Locations, staff and requests keep their shape.
THEOREM LocationsTyped == Spec => []TypeOK
BY InitType, NextType, PTL DEF Spec

-----------------------------------------------------------------------------
(* References *)

LEMMA NextReferences == TypeOK /\ ReferencesExist /\ [Next]_vars => ReferencesExist'
<1> SUFFICES ASSUME TypeOK, ReferencesExist, [Next]_vars PROVE ReferencesExist'
  OBVIOUS
<1> USE DEF TypeOK, ReferencesExist, Existing
<1>1. CASE UNCHANGED <<parent, place, goods>>
  BY <1>1
<1>2. ASSUME NEW r \in Requests, NEW l \in Locs, CreateCommit(r, l) PROVE ReferencesExist'
  <2>1. pending[r].above # Gone
    BY <1>2, Shapes, NoRowIds DEF CreateCommit, None, Gone
  <2>2. Existing' = Existing \cup {l}
    BY <1>2, <2>1 DEF CreateCommit
  <2>3. QED
    BY <1>2, <2>1, <2>2 DEF CreateCommit, ForeignKey
<1>3. ASSUME NEW r \in Requests, UpdateCommit(r) PROVE ReferencesExist'
  <2>1. pending[r].above # Gone /\ pending[r].loc \in Locs
    BY <1>3, Shapes, NoRowIds DEF UpdateCommit, None, Gone
  <2>2. Existing' = Existing \cup {pending[r].loc}
    BY <1>3, <2>1 DEF UpdateCommit
  <2>3. QED
    BY <1>3, <2>1, <2>2 DEF UpdateCommit, ForeignKey
<1>4. ASSUME NEW r \in Requests, RemoveCommit(r) PROVE ReferencesExist'
  <2>1. pending[r].loc \in Locs
    BY <1>4, Shapes DEF RemoveCommit
  <2>2. Existing' = Existing \ {pending[r].loc}
    BY <1>4, <2>1, NoRowIds DEF RemoveCommit, SetNull, None, Gone
  <2>3. \A l \in Existing' : parent'[l] \in Existing' \cup {None}
    BY <1>4, <2>1, <2>2 DEF RemoveCommit, SetNull
  <2>4. \A u \in Users : place'[u] \in Existing' \cup {None}
    BY <1>4, <2>1, <2>2 DEF RemoveCommit, SetNull
  <2>5. goods' \subseteq Existing'
    BY <1>4, <2>2 DEF RemoveCommit, Removable
  <2>6. QED
    BY <2>3, <2>4, <2>5
<1>5. ASSUME NEW r \in Requests, AssignCommit(r) PROVE ReferencesExist'
  BY <1>5 DEF AssignCommit, ForeignKey
<1>6. ASSUME NEW r \in Requests, ReceiveCommit(r) PROVE ReferencesExist'
  <2>1. pending[r].loc # None
    BY <1>6, Shapes, NoRowIds DEF ReceiveCommit
  <2>2. QED
    BY <1>6, <2>1 DEF ReceiveCommit, ForeignKey
<1>7. ASSUME NEW l \in Locs, NEW m \in Locs, ClearOut(l, m) PROVE ReferencesExist'
  BY <1>7 DEF ClearOut
<1>8. QED
  BY <1>1, <1>2, <1>3, <1>4, <1>5, <1>6, <1>7
     DEF Next, vars, CreateCheck, RenameCheck, MoveCheck, RemoveCheck, AssignCheck,
         ReceiveCheck, WriteFails, Refused, Starts

\* Parents, staff and goods always name locations that exist, for any number
\* of requests between their reads and their writes.
THEOREM ReferencesAlwaysExist == Spec => []ReferencesExist
<1>1. Init => ReferencesExist
  BY DEF Init, ReferencesExist, Existing
<1>2. QED
  BY <1>1, InitType, NextType, NextReferences, PTL DEF Spec

-----------------------------------------------------------------------------
(* Removal *)

\* What a removal that is not out of date has counted still holds.
CountsHold ==
  \A r \in Requests : pending[r].op = "remove" /\ pending[r].fresh =>
    Children(pending[r].loc) = {} /\ StaffOf(pending[r].loc) = {}

LEMMA StartCounts ==
  ASSUME TypeOK, CountsHold, NEW r \in Requests, NEW q, Starts(r, q),
         q.op # "remove" \/ (Children(q.loc) = {} /\ StaffOf(q.loc) = {})
  PROVE  CountsHold'
BY DEF Starts, CountsHold, Children, StaffOf, TypeOK

LEMMA WriteCounts ==
  ASSUME TypeOK, NEW r \in Requests, Writes(r)
  PROVE  CountsHold'
<1>1. ASSUME NEW s \in Requests
      PROVE  pending'[s].op = "remove" => ~pending'[s].fresh
  <2>1. pending'[s] = IF s = r \/ pending[s] = Idle THEN Idle
                      ELSE [pending[s] EXCEPT !.fresh = FALSE]
    BY <1>1 DEF Writes
  <2>2. Idle.op = "idle"
    BY DEF Idle
  <2>3. pending[s] \in Request
    BY DEF TypeOK
  <2>4. QED
    BY <2>1, <2>2, <2>3, Outdating
<1>2. QED
  BY <1>1 DEF CountsHold

LEMMA NextCounts == TypeOK /\ CountsHold /\ [Next]_vars => CountsHold'
<1> SUFFICES ASSUME TypeOK, CountsHold, [Next]_vars PROVE CountsHold'
  OBVIOUS
<1>1. ASSUME NEW r \in Requests, NEW p \in Locs \cup {None}, CreateCheck(r, p)
      PROVE  CountsHold'
  BY <1>1, StartCounts DEF CreateCheck
<1>2. ASSUME NEW r \in Requests, NEW l \in Locs, RenameCheck(r, l) PROVE CountsHold'
  BY <1>2, StartCounts DEF RenameCheck
<1>3. ASSUME NEW r \in Requests, NEW l \in Locs, NEW p \in Locs \cup {None},
             MoveCheck(r, l, p)
      PROVE  CountsHold'
  BY <1>3, StartCounts DEF MoveCheck
<1>4. ASSUME NEW r \in Requests, NEW l \in Locs, RemoveCheck(r, l) PROVE CountsHold'
  BY <1>4, StartCounts DEF RemoveCheck, Empty
<1>5. ASSUME NEW r \in Requests, NEW u \in Users, NEW l \in Locs \cup {None},
             AssignCheck(r, u, l)
      PROVE  CountsHold'
  BY <1>5, StartCounts DEF AssignCheck
<1>6. ASSUME NEW r \in Requests, NEW l \in Locs, ReceiveCheck(r, l) PROVE CountsHold'
  BY <1>6, StartCounts DEF ReceiveCheck
<1>7. ASSUME NEW r \in Requests, Writes(r) PROVE CountsHold'
  BY <1>7, WriteCounts
<1>8. ASSUME NEW r \in Requests, WriteFails(r) PROVE CountsHold'
  BY <1>8 DEF WriteFails, Refused, CountsHold, Children, StaffOf, Idle, TypeOK
<1>9. ASSUME NEW l \in Locs, NEW m \in Locs, ClearOut(l, m) PROVE CountsHold'
  BY <1>9 DEF ClearOut, CountsHold, Children, StaffOf
<1>10. CASE UNCHANGED vars
  BY <1>10 DEF vars, CountsHold, Children, StaffOf
<1>11. QED
  BY <1>1, <1>2, <1>3, <1>4, <1>5, <1>6, <1>7, <1>8, <1>9, <1>10
     DEF Next, CreateCommit, UpdateCommit, RemoveCommit, AssignCommit, ReceiveCommit

\* The step property: what a removal leaves behind.
RemovesEmpty ==
  \A l \in Locs : parent[l] # Gone /\ parent'[l] = Gone =>
    /\ l \notin goods
    /\ ~overlapped' => Children(l) = {} /\ StaffOf(l) = {}

LEMMA NextRemoves == TypeOK /\ CountsHold /\ [Next]_vars => RemovesEmpty
<1> SUFFICES ASSUME TypeOK, CountsHold, [Next]_vars PROVE RemovesEmpty
  OBVIOUS
<1>1. CASE UNCHANGED parent
  BY <1>1 DEF RemovesEmpty
<1>2. ASSUME NEW r \in Requests, NEW l \in Locs, CreateCommit(r, l) PROVE RemovesEmpty
  BY <1>2 DEF CreateCommit, RemovesEmpty, TypeOK
<1>3. ASSUME NEW r \in Requests, UpdateCommit(r) PROVE RemovesEmpty
  <2>1. pending[r].above # Gone
    BY <1>3, Shapes, NoRowIds DEF UpdateCommit, TypeOK, None, Gone
  <2>2. QED
    BY <1>3, <2>1 DEF UpdateCommit, RemovesEmpty, TypeOK
<1>4. ASSUME NEW r \in Requests, RemoveCommit(r) PROVE RemovesEmpty
  <2> SUFFICES ASSUME NEW l \in Locs, parent[l] # Gone, parent'[l] = Gone
               PROVE  /\ l \notin goods
                      /\ ~overlapped' => Children(l) = {} /\ StaffOf(l) = {}
    BY DEF RemovesEmpty
  <2>1. l = pending[r].loc
    BY <1>4 DEF RemoveCommit, SetNull, TypeOK, None, Gone
  <2>2. l \notin goods
    BY <1>4, <2>1 DEF RemoveCommit, Removable
  <2>3. ~overlapped' => pending[r].fresh
    BY <1>4 DEF RemoveCommit, Writes
  <2>4. QED
    BY <1>4, <2>1, <2>2, <2>3 DEF RemoveCommit, CountsHold
<1>5. QED
  BY <1>1, <1>2, <1>3, <1>4
     DEF Next, vars, CreateCheck, RenameCheck, MoveCheck, RemoveCheck, AssignCheck,
         AssignCommit, ReceiveCheck, ReceiveCommit, WriteFails, Refused, ClearOut, Starts

\* A removal never takes goods along, and detaches children or staff only
\* when a write it has not seen came before it.
THEOREM RemovalIsClean == Spec => RemovalDetachesNothing
<1>1. Init => CountsHold
  BY DEF Init, CountsHold, Idle
<1>2. QED
  BY <1>1, InitType, NextType, NextCounts, NextRemoves, PTL
     DEF Spec, RemovesEmpty, RemovalDetachesNothing

-----------------------------------------------------------------------------
(* The query downwards *)

Depth == Cardinality(Locs)

LEMMA DepthType == Depth \in Nat
BY FiniteLocs, FS_CardinalityType DEF Depth

\* One more level of the recursive query.
Wider(S) == S \cup UNION {Children(m) : m \in S}

IsQuery(f, l) == f = [n \in 0..Depth |-> IF n = 0 THEN {l} ELSE Wider(f[n - 1])]

Closed(S) == \A m \in S : Children(m) \subseteq S

\* Below is the last level of such a query: the recursive function exists.
LEMMA BelowByLevels ==
  ASSUME NEW l \in Locs
  PROVE  \E f : IsQuery(f, l) /\ Below(l) = f[Depth] \cap Existing
<1> DEFINE D    == SUBSET Locs
           step == [S \in D |-> Wider(S)]
<1>1. step \in [D -> D] /\ {l} \in D
  BY DEF Wider, Children
<1>2. PICK g : Repeats(g, D, step, {l}, Depth)
  <2> HIDE DEF D, step
  <2>1. QED
    BY <1>1, DepthType, Iterates
<1>3. IsQuery(g, l)
  <2>1. ASSUME NEW n \in 0..Depth
        PROVE  g[n] = IF n = 0 THEN {l} ELSE Wider(g[n - 1])
    <3>1. CASE n = 0
      BY <1>2, <3>1 DEF Repeats
    <3>2. CASE n # 0
      <4>1. n \in 1..Depth /\ n - 1 \in 0..Depth
        BY <3>2, DepthType
      <4>2. QED
        BY <1>2, <3>2, <4>1 DEF Repeats
    <3>3. QED
      BY <3>1, <3>2
  <2> HIDE DEF step
  <2>2. QED
    BY <1>2, <2>1 DEF IsQuery, Repeats
<1> DEFINE f == CHOOSE f : IsQuery(f, l)
<1>4. IsQuery(f, l)
  BY <1>3
<1>5. Below(l) = f[Depth] \cap Existing
  BY DEF Below, IsQuery, Wider, Depth
<1> HIDE DEF f
<1>6. QED
  BY <1>4, <1>5

\* The levels one by one.
LEMMA LevelSteps ==
  ASSUME NEW l, NEW f, IsQuery(f, l)
  PROVE  f[0] = {l} /\ \A n \in 1..Depth : f[n] = Wider(f[n - 1])
<1>1. 0 \in 0..Depth
  BY DepthType
<1>2. ASSUME NEW n \in 1..Depth PROVE f[n] = Wider(f[n - 1])
  <2>1. n \in 0..Depth /\ n # 0
    BY DepthType
  <2>2. QED
    BY <2>1 DEF IsQuery
<1>3. QED
  BY <1>1, <1>2 DEF IsQuery

\* The levels of the query grow by a location each until they are closed.
LEMMA LevelsFill ==
  ASSUME NEW l \in Locs, NEW f, IsQuery(f, l)
  PROVE  \A n \in 0..Depth : /\ f[n] \subseteq Locs /\ l \in f[n]
                             /\ Closed(f[n]) \/ n < Cardinality(f[n])
<1> DEFINE Good(n) == /\ f[n] \subseteq Locs /\ l \in f[n]
                      /\ Closed(f[n]) \/ n < Cardinality(f[n])
           G       == {n \in 0..Depth : Good(n)}
<1>1. f[0] = {l} /\ \A n \in 1..Depth : f[n] = Wider(f[n - 1])
  BY LevelSteps
<1>2. 0 \in G
  <2>1. Cardinality({l}) = 1
    BY FS_Singleton
  <2>2. QED
    BY <1>1, <2>1, DepthType
<1>3. ASSUME NEW k \in 1..Depth, k - 1 \in G PROVE k \in G
  <2>1. Good(k - 1) /\ f[k] = Wider(f[k - 1]) /\ k \in 0..Depth /\ k \in Nat
    BY <1>1, <1>3, DepthType
  <2>2. f[k] \subseteq Locs /\ l \in f[k] /\ f[k - 1] \subseteq f[k]
    BY <2>1 DEF Wider, Children
  <2>3. CASE Closed(f[k - 1])
    <3>1. f[k] = f[k - 1]
      BY <2>1, <2>3 DEF Wider, Closed
    <3>2. QED
      BY <2>1, <2>2, <2>3, <3>1
  <2>4. CASE ~Closed(f[k - 1])
    <3>1. f[k] # f[k - 1]
      BY <2>1, <2>4 DEF Wider, Closed
    <3>2. IsFiniteSet(f[k]) /\ Cardinality(f[k]) \in Nat
      BY <2>2, FiniteLocs, FS_Subset, FS_CardinalityType
    <3>3. /\ Cardinality(f[k - 1]) <= Cardinality(f[k])
          /\ Cardinality(f[k]) # Cardinality(f[k - 1])
          /\ Cardinality(f[k - 1]) \in Nat
      BY <2>2, <3>1, <3>2, FS_Subset, FS_CardinalityType
    <3>4. k - 1 < Cardinality(f[k - 1])
      BY <2>1, <2>4
    <3>5. k < Cardinality(f[k])
      BY <2>1, <3>2, <3>3, <3>4
    <3>6. QED
      BY <2>1, <2>2, <3>5
  <2>5. QED
    BY <2>3, <2>4
<1>4. \A k \in 0..Depth : k \in G
  <2> HIDE DEF G
  <2>1. QED
    BY <1>2, <1>3, DepthType, CountUp
<1>5. QED
  BY <1>4

\* A set that holds the top and everything below its members holds the levels.
LEMMA LevelsLeast ==
  ASSUME NEW l, NEW f, IsQuery(f, l), NEW S, l \in S, Closed(S)
  PROVE  f[Depth] \subseteq S
<1> DEFINE G == {k \in 0..Depth : f[k] \subseteq S}
<1>1. f[0] = {l} /\ \A n \in 1..Depth : f[n] = Wider(f[n - 1])
  BY LevelSteps
<1>2. 0 \in G
  BY <1>1, DepthType
<1>3. ASSUME NEW k \in 1..Depth, k - 1 \in G PROVE k \in G
  <2>1. f[k] = Wider(f[k - 1]) /\ f[k - 1] \subseteq S /\ k \in 0..Depth
    BY <1>1, <1>3, DepthType
  <2>2. f[k] \subseteq S
    BY <2>1 DEF Wider, Closed
  <2>3. QED
    BY <2>1, <2>2
<1>4. Depth \in G
  <2> HIDE DEF G
  <2>1. Depth \in 0..Depth
    BY DepthType
  <2>2. QED
    BY <1>2, <1>3, <2>1, DepthType, CountUp
<1>5. QED
  BY <1>4

\* What the query comes to: the least set of locations with l in it and with
\* the children of all that are in it.
IsLeast(l) ==
  /\ l \in Below(l) /\ Below(l) \subseteq Existing /\ Closed(Below(l))
  /\ \A S : l \in S /\ Closed(S) => Below(l) \subseteq S

LEMMA BelowIsLeast ==
  ASSUME TypeOK, NEW l \in Existing
  PROVE  IsLeast(l)
<1>1. l \in Locs /\ Depth \in 0..Depth
  BY DepthType DEF Existing
<1>2. PICK f : IsQuery(f, l) /\ Below(l) = f[Depth] \cap Existing
  BY <1>1, BelowByLevels
<1>3. /\ f[Depth] \subseteq Locs /\ l \in f[Depth]
      /\ Closed(f[Depth]) \/ Depth < Cardinality(f[Depth])
  BY <1>1, <1>2, LevelsFill
<1>4. ~(Depth < Cardinality(f[Depth]))
  <2>1. Cardinality(f[Depth]) <= Depth /\ Cardinality(f[Depth]) \in Nat
    BY <1>3, FiniteLocs, FS_Subset, FS_CardinalityType DEF Depth
  <2>2. QED
    BY <2>1, DepthType
<1>5. \A m \in Locs : Children(m) \subseteq Existing
  BY NoRowIds DEF Children, Existing
<1>6. ASSUME NEW S, l \in S, Closed(S) PROVE Below(l) \subseteq S
  BY <1>2, <1>6, LevelsLeast
<1>7. QED
  BY <1>2, <1>3, <1>4, <1>5, <1>6 DEF Closed, IsLeast

\* The same of the tree after a step.
LEMMA LeastNow == TypeOK => \A l \in Existing : IsLeast(l)
BY BelowIsLeast

LEMMA LeastNext == TypeOK' => (\A l \in Existing : IsLeast(l))'
BY LeastNow, PTL

\* A set with x in it and closed under the new children holds x's new subtree.
LEMMA NewBelow ==
  ASSUME TypeOK', NEW x \in Existing', NEW S, x \in S, \A m \in S : Children(m)' \subseteq S
  PROVE  Below(x)' \subseteq S
BY LeastNext DEF IsLeast, Closed

\* What follows of the tree before it.
LEMMA OldBelow ==
  ASSUME TypeOK, NEW x \in Existing
  PROVE  /\ x \in Below(x) /\ Below(x) \subseteq Existing
         /\ \A m \in Below(x) : Children(m) \subseteq Below(x)
         /\ \A y \in Below(x) : Below(y) \subseteq Below(x)
BY LeastNow DEF IsLeast, Closed

\* Without an edit the query returns what it did.
LEMMA SameTree ==
  ASSUME TypeOK, parent' = parent, NEW l \in Existing
  PROVE  Below(l)' = Below(l)
BY DEF Below, Children, Existing

\* The recursive query of findSubtreeIds comes to all that is below a location
\* and to nothing else, in every state; where it ends, that is its answer.
THEOREM QueryFindsAllBelow == Spec => [](\A l \in Existing : IsLeast(l))
BY LeastNow, LocationsTyped, PTL

-----------------------------------------------------------------------------
(* Edits of the tree *)

Acyclic == \A l \in Existing : ~BelowItself(l)
Answered == \A l \in Existing : QueryEnds(l)

\* The query ends from everywhere when no location is below itself.
LEMMA AcyclicIsAnswered == TypeOK => (Acyclic <=> Answered)
<1> SUFFICES ASSUME TypeOK PROVE Acyclic <=> Answered
  OBVIOUS
<1>1. ASSUME Acyclic PROVE Answered
  BY <1>1, OldBelow DEF Acyclic, Answered, QueryEnds
<1>2. ASSUME Answered PROVE Acyclic
  BY <1>2, OldBelow DEF Acyclic, Answered, QueryEnds
<1>3. QED
  BY <1>1, <1>2

LEMMA NextAnswered == TypeOK' => (Acyclic <=> Answered)'
BY AcyclicIsAnswered, PTL

\* Fewer children: no new circle.
LEMMA SmallerTree ==
  ASSUME TypeOK, TypeOK', Acyclic, Existing' \subseteq Existing,
         \A m \in Locs : Children(m)' \subseteq Children(m)
  PROVE  Acyclic'
<1> SUFFICES ASSUME NEW l \in Existing', NEW c \in Children(l)', l \in Below(c)' PROVE FALSE
  BY DEF Acyclic, BelowItself
<1>1. l \in Existing /\ c \in Children(l) /\ l \in Locs /\ c \in Existing'
  BY NoRowIds DEF Existing, Children
<1>2. c \in Existing
  BY <1>1
<1>3. \A m \in Below(c) : Children(m)' \subseteq Below(c)
  BY <1>2, OldBelow DEF Existing
<1>4. Below(c)' \subseteq Below(c)
  BY <1>1, <1>2, <1>3, OldBelow, NewBelow
<1>5. QED
  BY <1>1, <1>4 DEF Acyclic, BelowItself

\* A location without children goes below another: no new circle.
LEMMA NewLeaf ==
  ASSUME TypeOK, TypeOK', ReferencesExist, Acyclic, NEW l \in Locs, parent[l] = Gone,
         NEW p \in Existing \cup {None}, parent' = [parent EXCEPT ![l] = p]
  PROVE  Acyclic'
<1>1. p # Gone /\ l \notin Existing /\ Existing' = Existing \cup {l}
  BY NoRowIds DEF Existing, TypeOK, None, Gone
<1>2. \A m \in Locs : Children(m)' = IF m = p THEN Children(m) \cup {l} ELSE Children(m)
  BY <1>1, NoRowIds DEF Children, TypeOK
<1>3. Children(l)' = {}
  <2>1. Children(l) = {} /\ l # p
    BY <1>1, NoRowIds DEF Children, ReferencesExist, Existing
  <2>2. QED
    BY <1>2, <2>1
<1> SUFFICES ASSUME NEW m \in Existing', NEW c \in Children(m)', m \in Below(c)' PROVE FALSE
  BY DEF Acyclic, BelowItself
<1>4. CASE c = l
  <2>1. Below(l)' \subseteq {l}
    BY <1>1, <1>3, NewBelow
  <2>2. QED
    BY <1>3, <1>4, <2>1
<1>5. CASE c # l
  <2>1. c \in Children(m) /\ c \in Existing /\ m \in Existing /\ m # l
    BY <1>1, <1>2, <1>3, <1>5, NoRowIds DEF Children, Existing
  <2>2. \A y \in Below(c) \cup {l} : Children(y)' \subseteq Below(c) \cup {l}
    BY <1>2, <1>3, <2>1, OldBelow DEF Existing
  <2>3. Below(c)' \subseteq Below(c) \cup {l}
    BY <1>1, <2>1, <2>2, OldBelow, NewBelow
  <2>4. QED
    BY <2>1, <2>3 DEF Acyclic, BelowItself
<1>6. QED
  BY <1>4, <1>5

\* A location moves below one that is not in its own subtree: no new circle.
LEMMA MovedBranch ==
  ASSUME TypeOK, TypeOK', Acyclic, NEW l \in Existing, NEW p \in Existing,
         MoveAllowed(l, p, Below(l)), parent' = [parent EXCEPT ![l] = p]
  PROVE  Acyclic'
<1>1. p # l /\ p \notin Below(l) /\ l \in Locs /\ p \in Locs /\ Existing' = Existing
  BY NoRowIds DEF Existing, TypeOK, MoveAllowed, Gone
<1>2. \A m \in Locs : Children(m)' = IF m = p THEN Children(m) \cup {l} ELSE Children(m) \ {l}
  BY <1>1 DEF Children, TypeOK
<1>3. ASSUME NEW x \in Existing
      PROVE  /\ p \notin Below(x) => Below(x)' \subseteq Below(x)
             /\ Below(x)' \subseteq Below(x) \cup Below(l)
  <2>1. /\ x \in Below(x) /\ Below(x) \subseteq Locs /\ Below(l) \subseteq Locs
        /\ \A m \in Below(x) : Children(m) \subseteq Below(x)
        /\ l \in Below(l) /\ \A m \in Below(l) : Children(m) \subseteq Below(l)
    BY OldBelow DEF Existing
  <2>2. \A m \in Below(x) \cup Below(l) : Children(m)' \subseteq Below(x) \cup Below(l)
    BY <1>2, <2>1
  <2>3. ASSUME p \notin Below(x) PROVE \A m \in Below(x) : Children(m)' \subseteq Below(x)
    BY <1>2, <2>1, <2>3
  <2>4. QED
    BY <1>1, <2>1, <2>2, <2>3, NewBelow
<1> SUFFICES ASSUME NEW m \in Existing, NEW c \in Children(m)', m \in Below(c)' PROVE FALSE
  BY <1>1 DEF Acyclic, BelowItself
<1>4. m \in Locs /\ c \in Existing
  BY <1>1, NoRowIds DEF Children, Existing
<1>5. CASE c = l
  <2>1. m = p
    BY <1>2, <1>4, <1>5
  <2>2. QED
    BY <1>1, <1>3, <1>5, <2>1
<1>6. CASE c # l
  <2>1. c \in Children(m)
    BY <1>2, <1>4, <1>6
  <2>2. m \notin Below(c)
    BY <2>1 DEF Acyclic, BelowItself
  <2>3. p \in Below(c) /\ m \in Below(l)
    BY <1>3, <1>4, <2>2
  <2>4. c \in Below(l)
    BY <2>1, <2>3, OldBelow
  <2>5. QED
    BY <1>1, <2>3, <2>4, OldBelow
<1>7. QED
  BY <1>5, <1>6

\* What a change of the tree that is not out of date has read still holds.
MovesHold ==
  \A r \in Requests : pending[r].op = "save" /\ pending[r].fresh =>
    /\ pending[r].loc \in Existing
    /\ \/ pending[r].above \in {parent[pending[r].loc], None}
       \/ MoveAllowed(pending[r].loc, pending[r].above, Below(pending[r].loc))

\* A request starts, none writes: what the others have read still holds.
LEMMA StartMoves ==
  ASSUME TypeOK, MovesHold, NEW r \in Requests, NEW q \in Request, Starts(r, q),
         q.op # "save" \/ (/\ q.loc \in Existing
                           /\ \/ q.above \in {parent[q.loc], None}
                              \/ MoveAllowed(q.loc, q.above, Below(q.loc)))
  PROVE  MovesHold'
<1> SUFFICES ASSUME NEW s \in Requests, pending'[s].op = "save", pending'[s].fresh
             PROVE  /\ pending'[s].loc \in Existing
                    /\ \/ pending'[s].above \in {parent[pending'[s].loc], None}
                       \/ MoveAllowed(pending'[s].loc, pending'[s].above, Below(pending'[s].loc))
  <2>1. parent' = parent /\ Existing' = Existing
    BY DEF Starts, Existing
  <2>2. \A l \in Existing : Below(l)' = Below(l)
    BY <2>1, SameTree
  <2>3. QED
    BY <2>1, <2>2 DEF MovesHold, MoveAllowed
<1>1. CASE s = r
  BY <1>1 DEF Starts, TypeOK
<1>2. CASE s # r
  BY <1>2 DEF Starts, TypeOK, MovesHold
<1>3. QED
  BY <1>1, <1>2

\* After a write nothing that the others have read counts as current.
LEMMA WriteMoves ==
  ASSUME TypeOK, NEW r \in Requests, Writes(r)
  PROVE  MovesHold'
<1>1. ASSUME NEW s \in Requests
      PROVE  pending'[s].op = "save" => ~pending'[s].fresh
  <2>1. pending'[s] = IF s = r \/ pending[s] = Idle THEN Idle
                      ELSE [pending[s] EXCEPT !.fresh = FALSE]
    BY <1>1 DEF Writes
  <2>2. Idle.op = "idle"
    BY DEF Idle
  <2>3. pending[s] \in Request
    BY DEF TypeOK
  <2>4. QED
    BY <2>1, <2>2, <2>3, Outdating
<1>2. QED
  BY <1>1 DEF MovesHold

\* So what is still current holds whatever step is taken.
LEMMA NextMoves == TypeOK /\ MovesHold /\ [Next]_vars => MovesHold'
<1> SUFFICES ASSUME TypeOK, MovesHold, [Next]_vars PROVE MovesHold'
  OBVIOUS
<1>1. ASSUME NEW r \in Requests, NEW p \in Locs \cup {None}, CreateCheck(r, p)
      PROVE  MovesHold'
  <2>1. [op |-> "create", above |-> p, fresh |-> TRUE] \in Request
    BY DEF Request
  <2>2. QED
    BY <1>1, <2>1, StartMoves DEF CreateCheck
<1>2. ASSUME NEW r \in Requests, NEW l \in Locs, RenameCheck(r, l) PROVE MovesHold'
  <2>1. [op |-> "save", loc |-> l, above |-> parent[l], fresh |-> TRUE] \in Request
    BY <1>2 DEF Request, RenameCheck, Existing, TypeOK
  <2>2. QED
    BY <1>2, <2>1, StartMoves DEF RenameCheck
<1>3. ASSUME NEW r \in Requests, NEW l \in Locs, NEW p \in Locs \cup {None},
             MoveCheck(r, l, p)
      PROVE  MovesHold'
  <2>1. [op |-> "save", loc |-> l, above |-> p, fresh |-> TRUE] \in Request
    BY DEF Request
  <2>2. QED
    BY <1>3, <2>1, StartMoves DEF MoveCheck, Subtree
<1>4. ASSUME NEW r \in Requests, NEW l \in Locs, RemoveCheck(r, l) PROVE MovesHold'
  <2>1. [op |-> "remove", loc |-> l, fresh |-> TRUE] \in Request
    BY DEF Request
  <2>2. QED
    BY <1>4, <2>1, StartMoves DEF RemoveCheck
<1>5. ASSUME NEW r \in Requests, NEW u \in Users, NEW l \in Locs \cup {None},
             AssignCheck(r, u, l)
      PROVE  MovesHold'
  <2>1. [op |-> "assign", user |-> u, loc |-> l, fresh |-> TRUE] \in Request
    BY DEF Request
  <2>2. QED
    BY <1>5, <2>1, StartMoves DEF AssignCheck
<1>6. ASSUME NEW r \in Requests, NEW l \in Locs, ReceiveCheck(r, l) PROVE MovesHold'
  <2>1. [op |-> "receive", loc |-> l, fresh |-> TRUE] \in Request
    BY DEF Request
  <2>2. QED
    BY <1>6, <2>1, StartMoves DEF ReceiveCheck
<1>7. ASSUME NEW r \in Requests, Writes(r) PROVE MovesHold'
  BY <1>7, WriteMoves
<1>8. ASSUME parent' = parent, \A s \in Requests : pending'[s] \in {pending[s], Idle}
      PROVE  MovesHold'
  <2>1. Existing' = Existing /\ \A l \in Existing : Below(l)' = Below(l)
    BY <1>8, SameTree DEF Existing
  <2>2. Idle.op = "idle"
    BY DEF Idle
  <2>3. QED
    BY <1>8, <2>1, <2>2 DEF MovesHold, MoveAllowed
<1>9. ASSUME NEW r \in Requests, WriteFails(r) PROVE MovesHold'
  BY <1>8, <1>9 DEF WriteFails, Refused, TypeOK
<1>10. ASSUME NEW l \in Locs, NEW m \in Locs, ClearOut(l, m) PROVE MovesHold'
  BY <1>8, <1>10 DEF ClearOut
<1>11. CASE UNCHANGED vars
  BY <1>8, <1>11 DEF vars
<1>12. QED
  BY <1>1, <1>2, <1>3, <1>4, <1>5, <1>6, <1>7, <1>9, <1>10, <1>11
     DEF Next, CreateCommit, UpdateCommit, RemoveCommit, AssignCommit, ReceiveCommit

\* A write whose reads are current closes no circle.
LEMMA NextAcyclic ==
  TypeOK /\ TypeOK' /\ ReferencesExist /\ MovesHold /\ AcyclicUnlessOverlap /\ [Next]_vars
    => AcyclicUnlessOverlap'
<1> SUFFICES ASSUME TypeOK, TypeOK', ReferencesExist, MovesHold, AcyclicUnlessOverlap,
                    [Next]_vars, ~overlapped'
             PROVE  Acyclic'
  BY NextAnswered DEF AcyclicUnlessOverlap, Answered
<1>1. ~overlapped
  BY DEF Next, vars, CreateCheck, CreateCommit, RenameCheck, MoveCheck, UpdateCommit,
         RemoveCheck, RemoveCommit, AssignCheck, AssignCommit, ReceiveCheck,
         ReceiveCommit, WriteFails, Refused, ClearOut, Starts, Writes
<1>2. Acyclic
  BY <1>1, AcyclicIsAnswered DEF AcyclicUnlessOverlap, Answered
<1>3. CASE parent' = parent
  <2>1. Existing' \subseteq Existing /\ \A m \in Locs : Children(m)' \subseteq Children(m)
    BY <1>3 DEF Existing, Children
  <2>2. QED
    BY <1>2, <2>1, SmallerTree
<1>4. ASSUME NEW r \in Requests, NEW l \in Locs, CreateCommit(r, l) PROVE Acyclic'
  BY <1>2, <1>4, NewLeaf DEF CreateCommit, ForeignKey
<1>5. ASSUME NEW r \in Requests, UpdateCommit(r) PROVE Acyclic'
  <2> DEFINE l == pending[r].loc
             p == pending[r].above
  <2>1. /\ pending[r].op = "save" /\ pending[r].fresh /\ l \in Locs
        /\ p \in Existing \cup {None} /\ parent' = [parent EXCEPT ![l] = p]
    BY <1>5, Shapes DEF UpdateCommit, Writes, ForeignKey, TypeOK
  <2>2. l \in Existing /\ (p \in {parent[l], None} \/ MoveAllowed(l, p, Below(l)))
    BY <2>1 DEF MovesHold
  <2> HIDE DEF l, p
  <2>3. CASE p = parent[l]
    BY <1>3, <2>1, <2>3 DEF TypeOK
  <2>4. CASE p = None
    <3>1. Existing' \subseteq Existing /\ \A m \in Locs : Children(m)' \subseteq Children(m)
      BY <2>1, <2>2, <2>4, NoRowIds DEF Existing, Children, TypeOK
    <3>2. QED
      BY <1>2, <3>1, SmallerTree
  <2>5. CASE p \in Existing /\ MoveAllowed(l, p, Below(l))
    BY <1>2, <2>1, <2>2, <2>5, MovedBranch
  <2>6. QED
    BY <2>1, <2>2, <2>3, <2>4, <2>5
<1>6. ASSUME NEW r \in Requests, RemoveCommit(r) PROVE Acyclic'
  <2>1. Existing' \subseteq Existing /\ \A m \in Locs : Children(m)' \subseteq Children(m)
    <3> DEFINE l == pending[r].loc
    <3>1. /\ l \in Locs
          /\ parent' = [m \in Locs |-> IF m = l THEN Gone
                                     ELSE IF parent[m] = l THEN None ELSE parent[m]]
      BY <1>6, Shapes DEF RemoveCommit, SetNull, TypeOK
    <3> HIDE DEF l
    <3>2. QED
      BY <3>1, NoRowIds DEF Existing, Children, TypeOK
  <2>2. QED
    BY <1>2, <2>1, SmallerTree
<1>7. QED
  BY <1>3, <1>4, <1>5, <1>6
     DEF Next, vars, CreateCheck, RenameCheck, MoveCheck, RemoveCheck, AssignCheck,
         AssignCommit, ReceiveCheck, ReceiveCommit, WriteFails, Refused, ClearOut, Starts

\* Edits of the tree of locations (create, update with parentWouldCycle,
\* remove) never put a location below itself, however deep the tree, as long
\* as none writes between the reads and the write of another.
THEOREM TreeStaysATree == Spec => []AcyclicUnlessOverlap
<1>1. Init => MovesHold /\ AcyclicUnlessOverlap
  BY DEF Init, MovesHold, AcyclicUnlessOverlap, Idle, Existing
<1>2. TypeOK /\ ReferencesExist /\ MovesHold /\ AcyclicUnlessOverlap /\ [Next]_vars
        => (MovesHold /\ AcyclicUnlessOverlap)'
  BY NextType, NextMoves, NextAcyclic
<1>3. QED
  BY <1>1, <1>2, LocationsTyped, ReferencesAlwaysExist, PTL DEF Spec

-----------------------------------------------------------------------------
(* The walk upwards *)

Above(x) == IF x \in Existing THEN parent[x] ELSE None

IsWalk(f, l) == f = [n \in 0..Depth |-> IF n = 0 THEN l ELSE Above(f[n - 1])]

\* The walk from l comes to t, over locations that exist, and not before.
Meets(f, t) ==
  \E n \in 0..Depth :
    /\ f[n] = t
    /\ \A m \in 0..n : f[m] \in Existing
    /\ Unseen([m \in 0..(n - 1) |-> f[m]], f[n])

\* The walk exists, and Accessible is what it meets.
LEMMA WalkExists ==
  ASSUME TypeOK, NEW l \in Locs
  PROVE  \E f : IsWalk(f, l)
<1> DEFINE D    == Locs \cup {None, Gone}
           step == [x \in D |-> Above(x)]
<1>1. step \in [D -> D] /\ l \in D
  BY DEF Above, Existing, TypeOK
<1>2. PICK g : Repeats(g, D, step, l, Depth)
  <2> HIDE DEF D, step
  <2>1. QED
    BY <1>1, DepthType, Iterates
<1>3. ASSUME NEW n \in 0..Depth
      PROVE  g[n] = IF n = 0 THEN l ELSE Above(g[n - 1])
  <2>1. CASE n = 0
    BY <1>2, <2>1 DEF Repeats
  <2>2. CASE n # 0
    <3>1. n \in 1..Depth /\ n - 1 \in 0..Depth
      BY <2>2, DepthType
    <3>2. QED
      BY <1>2, <2>2, <3>1 DEF Repeats
  <2>3. QED
    BY <2>1, <2>2
<1>4. IsWalk(g, l)
  <2> HIDE DEF step
  <2>1. QED
    BY <1>2, <1>3 DEF IsWalk, Repeats
<1>5. QED
  BY <1>4

LEMMA AccessibleByWalk ==
  ASSUME TypeOK, NEW l \in Locs, NEW u \in Users
  PROVE  \E f : /\ IsWalk(f, l)
                /\ Accessible(u, l) <=> place[u] # None /\ (place[u] = l \/ Meets(f, place[u]))
<1> DEFINE f == CHOOSE f : IsWalk(f, l)
<1>1. IsWalk(f, l)
  BY WalkExists
<1>2. Accessible(u, l) <=> place[u] # None /\ (place[u] = l \/ Meets(f, place[u]))
  BY DEF Accessible, IsWalk, Meets, Above, Depth
<1> HIDE DEF f
<1>3. QED
  BY <1>1, <1>2

\* The walk step by step.
LEMMA WalkSteps ==
  ASSUME NEW l, NEW f, IsWalk(f, l)
  PROVE  f[0] = l /\ \A n \in 1..Depth : f[n] = Above(f[n - 1])
<1>1. 0 \in 0..Depth
  BY DepthType
<1>2. ASSUME NEW n \in 1..Depth PROVE f[n] = Above(f[n - 1])
  <2>1. n \in 0..Depth /\ n # 0
    BY DepthType
  <2>2. QED
    BY <2>1 DEF IsWalk
<1>3. QED
  BY <1>1, <1>2 DEF IsWalk

\* Whoever is met on the way up has l below.
LEMMA MetIsAbove ==
  ASSUME TypeOK, NEW l \in Existing, NEW f, IsWalk(f, l), NEW t, Meets(f, t)
  PROVE  l \in Below(t)
<1>1. PICK n \in 0..Depth : f[n] = t /\ \A m \in 0..n : f[m] \in Existing
  BY DEF Meets
<1>2. n \in Nat /\ f[0] = l /\ \A m \in 1..Depth : f[m] = Above(f[m - 1])
  BY DepthType, WalkSteps
<1> DEFINE G == {k \in 0..n : f[n - k] \in Below(t)}
<1>3. t \in Existing
  BY <1>1, <1>2
<1>4. 0 \in G
  BY <1>1, <1>2, <1>3, OldBelow
<1>5. ASSUME NEW k \in 1..n, k - 1 \in G PROVE k \in G
  <2>1. f[n - (k - 1)] \in Below(t)
    BY <1>5
  <2>2. n - k \in 0..n /\ n - (k - 1) \in 1..Depth /\ (n - (k - 1)) - 1 = n - k /\ k \in 0..n
    BY <1>2, DepthType
  <2>3. f[n - k] \in Existing /\ f[n - (k - 1)] = parent[f[n - k]]
    BY <1>1, <1>2, <2>2 DEF Above
  <2>4. f[n - k] \in Children(f[n - (k - 1)])
    BY <2>3 DEF Children, Existing
  <2>5. f[n - k] \in Below(t)
    BY <1>3, <2>1, <2>4, OldBelow
  <2>6. QED
    BY <2>2, <2>5
<1>6. n \in G
  <2> HIDE DEF G
  <2>1. n \in 0..n
    BY <1>2
  <2>2. QED
    BY <1>2, <1>4, <1>5, <2>1, CountUp
<1>7. QED
  BY <1>2, <1>6

\* A child's walk is a step ahead of its parent's.
LEMMA WalkShifts ==
  ASSUME NEW x, NEW c \in Existing, parent[c] = x, NEW f, IsWalk(f, x), NEW g, IsWalk(g, c)
  PROVE  \A k \in 1..Depth : g[k] = f[k - 1]
<1> DEFINE G == {k \in 0..Depth : k = 0 \/ g[k] = f[k - 1]}
<1>1. /\ f[0] = x /\ \A n \in 1..Depth : f[n] = Above(f[n - 1])
      /\ g[0] = c /\ \A n \in 1..Depth : g[n] = Above(g[n - 1])
  BY WalkSteps
<1>2. 0 \in G
  BY DepthType
<1>3. ASSUME NEW k \in 1..Depth, k - 1 \in G PROVE k \in G
  <2>1. k \in 0..Depth /\ g[k] = Above(g[k - 1])
    BY <1>1, DepthType
  <2>2. CASE k = 1
    BY <1>1, <2>1, <2>2 DEF Above
  <2>3. CASE k # 1
    <3>1. k - 1 \in 1..Depth /\ g[k - 1] = f[(k - 1) - 1]
      BY <1>3, <2>3, DepthType
    <3>2. QED
      BY <1>1, <2>1, <3>1
  <2>4. QED
    BY <2>2, <2>3
<1>4. \A k \in 0..Depth : k \in G
  <2> HIDE DEF G
  <2>1. QED
    BY <1>2, <1>3, DepthType, CountUp
<1>5. ASSUME NEW k \in 1..Depth PROVE g[k] = f[k - 1]
  <2>1. k \in 0..Depth /\ k # 0
    BY DepthType
  <2>2. QED
    BY <1>4, <2>1
<1>6. QED
  BY <1>5

\* The walk comes to t within n steps, over locations that exist.
Comes(f, t, n) == \E k \in 0..n : f[k] = t /\ \A m \in 0..k : f[m] \in Existing

\* Whatever the query finds at a level walks up to the top in as many steps.
LEMMA LevelsComeBack ==
  ASSUME TypeOK, NEW t \in Existing, NEW q, IsQuery(q, t)
  PROVE  \A n \in 0..Depth : \A x \in q[n] :
           x \in Existing /\ \A f : IsWalk(f, x) => Comes(f, t, n)
<1> DEFINE Back(n) == \A x \in q[n] : x \in Existing /\ \A f : IsWalk(f, x) => Comes(f, t, n)
           G       == {n \in 0..Depth : Back(n)}
<1>1. q[0] = {t} /\ \A n \in 1..Depth : q[n] = Wider(q[n - 1])
  BY LevelSteps
<1>2. 0 \in G
  <2>1. ASSUME NEW f, IsWalk(f, t) PROVE Comes(f, t, 0)
    <3>1. f[0] = t
      BY <2>1, WalkSteps
    <3>2. QED
      BY <3>1 DEF Comes
  <2>2. QED
    BY <1>1, <2>1, DepthType
<1>3. ASSUME NEW n \in 1..Depth, n - 1 \in G PROVE n \in G
  <2>1. Back(n - 1) /\ q[n] = Wider(q[n - 1]) /\ n \in 0..Depth /\ n \in Nat /\ n - 1 \in Nat
    BY <1>1, <1>3, DepthType
  <2>2. ASSUME NEW x \in q[n - 1], NEW f, IsWalk(f, x)
        PROVE  x \in Existing /\ Comes(f, t, n)
    <3>1. x \in Existing /\ Comes(f, t, n - 1)
      BY <2>1, <2>2
    <3>2. 0..(n - 1) \subseteq 0..n
      BY <2>1
    <3>3. QED
      BY <3>1, <3>2 DEF Comes
  <2>3. ASSUME NEW x \in q[n - 1], NEW c \in Children(x), NEW g, IsWalk(g, c)
        PROVE  c \in Existing /\ Comes(g, t, n)
    <3>1. x \in Locs /\ x \in Existing /\ c \in Existing /\ parent[c] = x
      BY <2>1, NoRowIds DEF Children, Existing
    <3>2. PICK f : IsWalk(f, x)
      BY <3>1, WalkExists
    <3>3. PICK k \in 0..(n - 1) : f[k] = t /\ \A m \in 0..k : f[m] \in Existing
      BY <2>1, <3>2 DEF Comes
    <3>4. k + 1 \in 0..n /\ k + 1 \in 1..Depth /\ (k + 1) - 1 = k
      BY <2>1, DepthType
    <3>5. \A j \in 1..Depth : g[j] = f[j - 1]
      BY <2>3, <3>1, <3>2, WalkShifts
    <3>6. g[k + 1] = t
      BY <3>3, <3>4, <3>5
    <3>7. ASSUME NEW m \in 0..(k + 1) PROVE g[m] \in Existing
      <4>1. CASE m = 0
        BY <2>3, <3>1, <4>1, WalkSteps
      <4>2. CASE m # 0
        <5>1. m \in 1..Depth /\ m - 1 \in 0..k
          BY <3>4, <4>2, DepthType
        <5>2. QED
          BY <3>3, <3>5, <5>1
      <4>3. QED
        BY <4>1, <4>2
    <3>8. QED
      BY <3>1, <3>4, <3>6, <3>7 DEF Comes
  <2>4. ASSUME NEW x \in q[n] PROVE x \in Existing /\ \A f : IsWalk(f, x) => Comes(f, t, n)
    <3>1. x \in q[n - 1] \/ \E y \in q[n - 1] : x \in Children(y)
      BY <2>1 DEF Wider
    <3>2. CASE x \in q[n - 1]
      BY <2>1, <2>2, <3>2
    <3>3. ASSUME NEW y \in q[n - 1], x \in Children(y)
          PROVE  x \in Existing /\ \A f : IsWalk(f, x) => Comes(f, t, n)
      <4>1. x \in Existing
        BY <2>1, <3>3, NoRowIds DEF Children, Existing
      <4>2. QED
        BY <2>3, <3>3, <4>1
    <3>4. QED
      BY <3>1, <3>2, <3>3
  <2>5. QED
    BY <2>1, <2>4
<1>4. \A n \in 0..Depth : n \in G
  <2> HIDE DEF G
  <2>1. QED
    BY <1>2, <1>3, DepthType, CountUp
<1>5. QED
  BY <1>4

\* What comes to t within the walk meets it there for the first time.
LEMMA ComesMeets ==
  ASSUME NEW f, NEW t, Comes(f, t, Depth)
  PROVE  Meets(f, t)
<1> DEFINE S == {k \in 0..Depth : f[k] = t /\ \A m \in 0..k : f[m] \in Existing}
<1>1. PICK n \in S : \A k \in S : n <= k
  <2>1. S \in SUBSET Nat /\ S # {}
    BY DepthType DEF Comes
  <2> HIDE DEF S
  <2>2. QED
    BY <2>1, LeastNumber
<1>2. ASSUME NEW m \in 0..(n - 1), f[m] = t PROVE FALSE
  <2>1. m \in 0..Depth /\ m \in Nat /\ n \in Nat /\ m < n /\ 0..m \subseteq 0..n
    BY DepthType
  <2>2. m \in S
    BY <1>1, <1>2, <2>1
  <2>3. n <= m
    BY <1>1, <2>2
  <2>4. QED
    BY <2>1, <2>3
<1>3. Unseen([m \in 0..(n - 1) |-> f[m]], f[n])
  BY <1>1, <1>2 DEF Unseen
<1>4. QED
  BY <1>1, <1>3 DEF Meets

\* The walk up and the query down come to the same locations, in every state
\* with sound references.
LEMMA AccessibleIsBelow ==
  ASSUME TypeOK, ReferencesExist, NEW u \in Users, NEW l \in Existing
  PROVE  Accessible(u, l) <=> place[u] # None /\ l \in Below(place[u])
<1>1. l \in Locs /\ (place[u] # None => place[u] \in Existing)
  BY DEF Existing, ReferencesExist
<1>2. PICK f : /\ IsWalk(f, l)
               /\ Accessible(u, l) <=> place[u] # None /\ (place[u] = l \/ Meets(f, place[u]))
  BY <1>1, AccessibleByWalk
<1>3. ASSUME place[u] # None, place[u] = l \/ Meets(f, place[u]) PROVE l \in Below(place[u])
  BY <1>1, <1>2, <1>3, MetIsAbove, OldBelow
<1>4. ASSUME place[u] # None, l \in Below(place[u]) PROVE Meets(f, place[u])
  <2>1. place[u] \in Existing /\ place[u] \in Locs
    BY <1>1, <1>4 DEF Existing
  <2>2. PICK q : IsQuery(q, place[u]) /\ Below(place[u]) = q[Depth] \cap Existing
    BY <2>1, BelowByLevels
  <2>3. l \in q[Depth] /\ Depth \in 0..Depth
    BY <1>4, <2>2, DepthType
  <2>4. Comes(f, place[u], Depth)
    BY <1>2, <2>1, <2>2, <2>3, LevelsComeBack
  <2>5. QED
    BY <2>4, ComesMeets
<1>5. QED
  BY <1>2, <1>3, <1>4

\* What is below a location, other than itself, has its parent there too.
LEMMA ParentBelow ==
  ASSUME TypeOK, NEW l \in Existing, NEW x \in Below(l), x # l
  PROVE  parent[x] \in Below(l)
<1> DEFINE S == {y \in Below(l) : y = l \/ parent[y] \in Below(l)}
<1>1. l \in S
  BY OldBelow
<1>2. ASSUME NEW m \in S, NEW c \in Children(m) PROVE c \in S
  BY <1>2, OldBelow DEF Children
<1>3. Closed(S)
  BY <1>2 DEF Closed
<1>4. Below(l) \subseteq S
  <2> HIDE DEF S
  <2>1. QED
    BY <1>1, <1>3, LeastNow DEF IsLeast
<1>5. QED
  BY <1>4

\* A location is below itself exactly when its parent is below it.
LEMMA ParentBelowItself ==
  ASSUME TypeOK, ReferencesExist, NEW l \in Existing
  PROVE  BelowItself(l) <=> parent[l] # None /\ parent[l] \in Below(l)
<1>1. ASSUME NEW c \in Children(l), l \in Below(c)
      PROVE  parent[l] # None /\ parent[l] \in Below(l)
  <2>1. c \in Existing /\ parent[c] = l /\ c \in Below(l)
    BY <1>1, NoRowIds, OldBelow DEF Children, Existing
  <2>2. CASE c = l
    BY <2>1, <2>2, NoRowIds DEF Existing
  <2>3. CASE c # l
    <3>1. parent[l] \in Below(c)
      BY <1>1, <2>1, <2>3, ParentBelow
    <3>2. parent[l] \in Below(l)
      BY <2>1, <3>1, OldBelow
    <3>3. QED
      BY <3>2, NoRowIds, OldBelow DEF Existing
  <2>4. QED
    BY <2>2, <2>3
<1>2. ASSUME parent[l] # None, parent[l] \in Below(l) PROVE BelowItself(l)
  <2> DEFINE S == {l} \cup UNION {Below(c) : c \in Children(l)}
  <2>1. \A c \in Children(l) : c \in Existing
    BY NoRowIds DEF Children, Existing
  <2>2. Closed(S)
    BY <2>1, OldBelow DEF Closed
  <2>3. Below(l) \subseteq S
    <3>1. l \in S
      OBVIOUS
    <3> HIDE DEF S
    <3>2. QED
      BY <2>2, <3>1, LeastNow DEF IsLeast
  <2>4. CASE parent[l] = l
    <3>1. l \in Children(l) /\ l \in Below(l)
      BY <2>4, OldBelow DEF Children, Existing
    <3>2. QED
      BY <3>1 DEF BelowItself
  <2>5. CASE parent[l] # l
    <3>1. PICK c \in Children(l) : parent[l] \in Below(c)
      BY <1>2, <2>3, <2>5
    <3>2. c \in Existing /\ parent[l] \in Existing /\ l \in Children(parent[l])
      BY <1>2, <2>1, OldBelow DEF Children, Existing
    <3>3. l \in Below(c)
      BY <3>1, <3>2, OldBelow
    <3>4. QED
      BY <3>3 DEF BelowItself
  <2>6. QED
    BY <2>4, <2>5
<1>3. QED
  BY <1>1, <1>2 DEF BelowItself

\* Every location has one parent, so the only circle that can be below a
\* location is one it is on itself.
LEMMA CirclesThroughTop ==
  ASSUME TypeOK, ReferencesExist, NEW l \in Existing, ~BelowItself(l)
  PROVE  QueryEnds(l)
<1> DEFINE S == {x \in Below(l) : ~BelowItself(x)}
<1>1. l \in S
  BY OldBelow
<1>2. ASSUME NEW x \in S, NEW c \in Children(x), BelowItself(c) PROVE FALSE
  <2>1. x \in Existing /\ c \in Existing /\ parent[c] = x
    BY <1>2, NoRowIds, OldBelow DEF Children, Existing
  <2>2. x \in Below(c)
    BY <1>2, <2>1, ParentBelowItself
  <2>3. BelowItself(x)
    BY <1>2, <2>2 DEF BelowItself
  <2>4. QED
    BY <2>3
<1>3. Closed(S)
  BY <1>2, OldBelow DEF Closed
<1>4. Below(l) \subseteq S
  <2> HIDE DEF S
  <2>1. QED
    BY <1>1, <1>3, LeastNow DEF IsLeast
<1>5. QED
  BY <1>4 DEF QueryEnds

LEMMA QueryEndsUnlessAboveItself ==
  ASSUME TypeOK, ReferencesExist, NEW l \in Existing
  PROVE  QueryEnds(l) <=> ~(parent[l] # None /\ parent[l] \in Below(l))
<1>1. l \in Below(l)
  BY OldBelow
<1>2. QED
  BY <1>1, ParentBelowItself, CirclesThroughTop DEF QueryEnds

\* All three cases together.
LEMMA ListedNow == TypeOK /\ ReferencesExist => ListedIsAccessible
<1> SUFFICES ASSUME TypeOK, ReferencesExist, NEW u \in Users
             PROVE  IF place[u] = None
                    THEN \A l \in Existing : ~Accessible(u, l)
                    ELSE IF parent[place[u]] # None /\ Accessible(u, parent[place[u]])
                    THEN Subtree(place[u]) = {}
                    ELSE /\ Subtree(place[u]) # {}
                         /\ \A l \in Existing : Accessible(u, l) <=> Listed(u, l)
  BY DEF ListedIsAccessible
<1>1. CASE place[u] = None
  BY <1>1, AccessibleIsBelow
<1>2. CASE place[u] # None
  <2> DEFINE t == place[u]
  <2>1. t \in Existing /\ t \in Locs
    BY <1>2 DEF ReferencesExist, Existing
  <2>2. \A l \in Existing : Accessible(u, l) <=> l \in Below(t)
    BY <1>2, AccessibleIsBelow
  <2>3. parent[t] # None => parent[t] \in Existing
    BY <2>1 DEF ReferencesExist
  <2>4. QueryEnds(t) <=> ~(parent[t] # None /\ Accessible(u, parent[t]))
    BY <2>1, <2>2, <2>3, QueryEndsUnlessAboveItself
  <2>5. Subtree(t) = IF QueryEnds(t) THEN {Below(t)} ELSE {}
    BY DEF Subtree
  <2>6. QueryEnds(t) => \A l \in Existing : Listed(u, l) <=> l \in Below(t)
    BY <2>5 DEF Listed
  <2>7. QED
    BY <1>2, <2>2, <2>4, <2>5, <2>6
<1>3. QED
  BY <1>1, <1>2

\* The locations listed to staff and those they may act in are the same, for
\* any number of locations and any tree, unless the location of the member of
\* staff is above itself: then, and only then, the list never arrives
\* (findAllForUser, findSubtreeIds and isAccessible of locations.service.ts).
THEOREM ListsWhatIsAccessible == Spec => []ListedIsAccessible
BY ListedNow, LocationsTyped, ReferencesAlwaysExist, PTL
=============================================================================
