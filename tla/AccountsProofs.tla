--------------------------- MODULE AccountsProofs ---------------------------
(***************************************************************************)
(* What holds of staff accounts and of their sessions: of Sessions for any *)
(* number of users, token pairs, challenges and requests handled at once,  *)
(* any token lifetime and any clock; and of Staff, a specification with    *)
(* a state of its own, for any number of accounts, addresses and edits.    *)
(***************************************************************************)
EXTENDS Sessions, Staff, FiniteSetTheorems, TLAPS

-----------------------------------------------------------------------------
(* Shapes *)

LEMMA PairShape ==
  ASSUME NEW p \in Pair
  PROVE  /\ p # NoPair
         /\ p.user \in Users /\ p.signed \in Ticks /\ p.origin \in Jtis
         /\ p.handed \in BOOLEAN /\ p.late \in BOOLEAN
BY NoPairIds DEF Pair, NoPair

LEMMA Shapes ==
  ASSUME NEW q \in Request
  PROVE  /\ q.op \in {"idle", "done", "issue", "list", "revoke", "unlist", "change",
                      "sweep", "stamp", "take"}
         /\ q.op = "issue" => /\ q.user \in Users /\ q.from \in Jtis \cup {NoOrigin}
                              /\ q.late \in BOOLEAN
         /\ q.op = "list" => q.user \in Users /\ q.jti \in Jtis
         /\ q.op \in {"revoke", "unlist"} =>
              /\ q.user \in Users /\ q.jti \in Jtis
              /\ q.renew \in BOOLEAN /\ q.late \in BOOLEAN
         /\ q.op \in {"change", "stamp"} => q.user \in Users
         /\ q.op = "sweep" => /\ q.user \in Users
                              /\ q.seen \subseteq Jtis /\ q.before \subseteq Jtis
         /\ q.op = "take" => q.id \in Tickets /\ q.was \in Ticket
<1>1. CASE q \in {Idle, Done}
  BY <1>1 DEF Idle, Done
<1>2. CASE q \in [op : {"issue"}, user : Users, from : Jtis \cup {NoOrigin}, late : BOOLEAN]
  BY <1>2
<1>3. CASE q \in [op : {"list"}, user : Users, jti : Jtis]
  BY <1>3
<1>4. CASE q \in [op : {"revoke", "unlist"}, user : Users, jti : Jtis, renew : BOOLEAN,
                  late : BOOLEAN]
  BY <1>4
<1>5. CASE q \in [op : {"change"}, user : Users] \cup [op : {"stamp"}, user : Users]
  BY <1>5
<1>6. CASE q \in [op : {"sweep"}, user : Users, seen : SUBSET Jtis, before : SUBSET Jtis]
  BY <1>6
<1>7. CASE q \in [op : {"take"}, id : Tickets, was : Ticket]
  BY <1>7
<1>8. QED
  BY <1>1, <1>2, <1>3, <1>4, <1>5, <1>6, <1>7 DEF Request

\* The requests that handlers begin or go on to.
LEMMA DoneBuilt == Idle \in Request /\ Done \in Request
BY DEF Request

LEMMA AccountBuilt ==
  ASSUME NEW u \in Users
  PROVE  /\ Issue(u) \in Request
         /\ [op |-> "change", user |-> u] \in Request
         /\ [op |-> "stamp", user |-> u] \in Request
<1>1. Issue(u) \in Request
  BY DEF Request, Issue
<1>2. [op |-> "change", user |-> u] \in Request
  BY DEF Request
<1>3. [op |-> "stamp", user |-> u] \in Request
  BY DEF Request
<1>4. QED
  BY <1>1, <1>2, <1>3

LEMMA ListBuilt ==
  ASSUME NEW u \in Users, NEW j \in Jtis
  PROVE  [op |-> "list", user |-> u, jti |-> j] \in Request
BY DEF Request

LEMMA PairBuilt ==
  ASSUME NEW u \in Users, NEW j \in Jtis, NEW late \in BOOLEAN, NEW renew \in BOOLEAN
  PROVE  /\ [op |-> "issue", user |-> u, from |-> j, late |-> late] \in Request
         /\ [op |-> "revoke", user |-> u, jti |-> j, renew |-> renew, late |-> late] \in Request
<1>1. [op |-> "issue", user |-> u, from |-> j, late |-> late] \in Request
  BY DEF Request
<1>2. [op |-> "revoke", user |-> u, jti |-> j, renew |-> renew, late |-> late] \in Request
  BY DEF Request
<1>3. QED
  BY <1>1, <1>2

LEMMA SweepBuilt ==
  ASSUME NEW u \in Users, NEW seen \in SUBSET Jtis, NEW before \in SUBSET Jtis
  PROVE  [op |-> "sweep", user |-> u, seen |-> seen, before |-> before] \in Request
BY DEF Request

LEMMA TakeBuilt ==
  ASSUME NEW t \in Tickets, NEW was \in Ticket
  PROVE  [op |-> "take", id |-> t, was |-> was] \in Request
BY DEF Request

\* A revocation goes on to its list with the same account and pair.
LEMMA UnlistBuilt ==
  ASSUME NEW q \in Request, q.op = "revoke"
  PROVE  /\ [q EXCEPT !.op = "unlist"] \in Request
         /\ [q EXCEPT !.op = "unlist"] =
              [op |-> "unlist", user |-> q.user, jti |-> q.jti, renew |-> q.renew,
               late |-> q.late]
<1>1. q \in [op : {"revoke", "unlist"}, user : Users, jti : Jtis, renew : BOOLEAN,
             late : BOOLEAN]
  BY DEF Request, Idle, Done
<1>2. QED
  BY <1>1 DEF Request

\* Marking a request as late changes nothing else of it.
LEMMA LateBuilt ==
  ASSUME NEW q \in Request, q.op \in {"issue", "revoke", "unlist"}
  PROVE  LET p == [q EXCEPT !.late = TRUE] IN
         /\ p \in Request /\ p.late
         /\ p.op = q.op /\ p.user = q.user
         /\ q.op = "issue" => p.from = q.from
         /\ q.op # "issue" => p.jti = q.jti /\ p.renew = q.renew
<1>1. CASE q.op = "issue"
  <2>1. q \in [op : {"issue"}, user : Users, from : Jtis \cup {NoOrigin}, late : BOOLEAN]
    BY <1>1 DEF Request, Idle, Done
  <2>2. QED
    BY <1>1, <2>1 DEF Request
<1>2. CASE q.op # "issue"
  <2>1. q \in [op : {"revoke", "unlist"}, user : Users, jti : Jtis, renew : BOOLEAN,
               late : BOOLEAN]
    BY <1>2 DEF Request, Idle, Done
  <2>2. QED
    BY <1>2, <2>1 DEF Request
<1>3. QED
  BY <1>1, <1>2

-----------------------------------------------------------------------------
(* Type correctness *)

LEMMA ProceedsType ==
  ASSUME TypeOK, NEW r \in Requests, NEW q \in Request, Proceeds(r, q)
  PROVE  pending' \in [Requests -> Request]
BY DEF Proceeds, TypeOK

LEMMA BeginsType ==
  ASSUME TypeOK, NEW r \in Requests, NEW q \in Request, Begins(r, q)
  PROVE  TypeOK'
<1>1. pending' \in [Requests -> Request]
  BY ProceedsType DEF Begins
<1>2. QED
  BY <1>1 DEF Begins, TypeOK, store, history

LEMMA SavesTicketType ==
  ASSUME TypeOK, NEW t \in Tickets, NEW u \in Users, NEW kind \in {"verify", "enroll", "reset"},
         SaveTicket(t, kind, u)
  PROVE  TypeOK'
<1>1. [kind |-> kind, user |-> u] \in Ticket
  BY DEF Ticket
<1>2. ticket' \in [Tickets -> Ticket \cup {NoTicket}]
  BY <1>1 DEF SaveTicket, TypeOK
<1>3. QED
  BY <1>2 DEF SaveTicket, TypeOK, store, history

LEMMA AccountOfPair ==
  ASSUME TypeOK, NEW j \in Jtis, pair[j] # NoPair
  PROVE  pair[j] \in Pair
BY DEF TypeOK

LEMMA HandedArePairs ==
  ASSUME TypeOK, NEW u \in Users, NEW j \in Handed(u)
  PROVE  j \in Jtis /\ pair[j] \in Pair /\ pair[j].user = u
<1>1. j \in Jtis /\ pair[j].user = u
  BY DEF Handed
<1>2. pair[j] # NoPair
  BY <1>1, NoPairIds
<1>3. QED
  BY <1>1, <1>2, AccountOfPair

\* Keys and requests name pairs that have been signed, an origin is a pair
\* that has been signed, and no pair is signed later than now.
Owned(r) == pair[pending[r].jti] # NoPair /\ pair[pending[r].jti].user = pending[r].user

Rooted ==
  /\ TypeOK
  /\ \A j \in live : pair[j] # NoPair
  /\ \A j \in Jtis : pair[j] # NoPair =>
       pair[pair[j].origin] # NoPair /\ pair[j].signed <= clock
  /\ \A r \in Requests :
       /\ pending[r].op \in {"list", "revoke", "unlist"} => Owned(r)
       /\ pending[r].op = "issue" /\ pending[r].from # NoOrigin =>
            pair[pending[r].from] # NoPair
       /\ pending[r].op = "sweep" => \A j \in pending[r].before : pair[j] # NoPair

LEMMA InitRooted == Init => Rooted
<1> SUFFICES ASSUME Init PROVE Rooted
  OBVIOUS
<1>1. Idle \in Request /\ Idle.op = "idle"
  BY DEF Request, Idle
<1>2. 0 \in Ticks /\ Never \in Ticks \cup {Never}
  BY Clock DEF Ticks
<1>3. TypeOK
  BY <1>1, <1>2 DEF Init, TypeOK
<1>4. QED
  BY <1>1, <1>3 DEF Init, Rooted

LEMMA TypeNext ==
  ASSUME Rooted, [Next]_vars
  PROVE  TypeOK'
<1> USE DEF Rooted
<1>1. ASSUME NEW r \in Requests, NEW j \in Jtis, SignPair(r, j) PROVE TypeOK'
  <2> DEFINE origin == IF pending[r].from = NoOrigin THEN j ELSE pending[r].from
             new == [user |-> pending[r].user, signed |-> clock, handed |-> FALSE,
                     origin |-> origin, late |-> pending[r].late]
  <2>1. /\ pending[r].user \in Users /\ pending[r].from \in Jtis \cup {NoOrigin}
        /\ pending[r].late \in BOOLEAN
    BY <1>1, Shapes DEF SignPair, TypeOK
  <2>2. new \in Pair
    BY <2>1 DEF Pair, TypeOK
  <2> HIDE DEF new
  <2>3. pair' = [pair EXCEPT ![j] = new] /\ live' = live \cup {j}
    BY <1>1 DEF SignPair, new
  <2>4. pending' \in [Requests -> Request]
    BY <1>1, <2>1, ListBuilt, ProceedsType DEF SignPair
  <2>5. pair' \in [Jtis -> Pair \cup {NoPair}] /\ live' \subseteq Jtis
    BY <2>2, <2>3 DEF TypeOK
  <2>6. QED
    BY <1>1, <2>4, <2>5 DEF SignPair, TypeOK, history
<1>2. ASSUME NEW r \in Requests, NEW j \in Jtis, Refresh(r, j) \/ Logout(r, j) PROVE TypeOK'
  <2>1. pair[j].user \in Users
    BY <1>2, AccountOfPair, PairShape DEF Refresh, Logout
  <2>2. \A renew \in BOOLEAN : [op |-> "revoke", user |-> pair[j].user, jti |-> j,
                                renew |-> renew, late |-> FALSE] \in Request
    BY <2>1, PairBuilt
  <2>3. QED
    BY <1>2, <2>2, BeginsType DEF Refresh, Logout
<1>3. ASSUME NEW r \in Requests, ListPair(r) PROVE TypeOK'
  <2>1. pending[r].user \in Users /\ pending[r].jti \in Jtis
    BY <1>3, Shapes DEF ListPair, TypeOK
  <2>2. pair[pending[r].jti] \in Pair
    BY <1>3, <2>1, AccountOfPair DEF ListPair, Owned
  <2>3. [pair[pending[r].jti] EXCEPT !.handed = TRUE] \in Pair
    BY <2>2 DEF Pair
  <2>4. pair' \in [Jtis -> Pair \cup {NoPair}]
    BY <1>3, <2>1, <2>3 DEF ListPair, TypeOK
  <2>5. index' \in [Users -> SUBSET Jtis]
    BY <1>3, <2>1 DEF ListPair, Listed, TypeOK
  <2>6. pending' \in [Requests -> Request]
    BY <1>3, <2>1, DoneBuilt, ProceedsType DEF ListPair, Answers
  <2>7. QED
    BY <1>3, <2>4, <2>5, <2>6 DEF ListPair, TypeOK, history
<1>4. ASSUME NEW r \in Requests, RevokeKey(r) PROVE TypeOK'
  <2>1. pending' \in [Requests -> Request]
    BY <1>4, UnlistBuilt, ProceedsType DEF RevokeKey, TypeOK
  <2>2. QED
    BY <1>4, <2>1 DEF RevokeKey, WithoutKey, TypeOK
<1>5. ASSUME NEW r \in Requests, RevokeListed(r) PROVE TypeOK'
  <2>1. /\ pending[r].user \in Users /\ pending[r].jti \in Jtis
        /\ pending[r].late \in BOOLEAN
    BY <1>5, Shapes DEF RevokeListed, TypeOK
  <2>2. pair[pending[r].jti].origin \in Jtis
    BY <1>5, <2>1, AccountOfPair, PairShape DEF RevokeListed, Owned
  <2>3. pending' \in [Requests -> Request]
    <3>1. CASE pending[r].renew
      <4>1. [op |-> "issue", user |-> pending[r].user, from |-> pair[pending[r].jti].origin,
             late |-> pending[r].late] \in Request
        BY <2>1, <2>2, PairBuilt
      <4>2. QED
        BY <1>5, <3>1, <4>1, ProceedsType DEF RevokeListed
    <3>2. CASE ~pending[r].renew
      BY <1>5, <3>2, DoneBuilt, ProceedsType DEF RevokeListed
    <3>3. QED
      BY <3>1, <3>2
  <2>4. QED
    BY <1>5, <2>1, <2>3 DEF RevokeListed, TypeOK, history
<1>6. ASSUME NEW r \in Requests, SweepRead(r) PROVE TypeOK'
  <2>1. pending[r].user \in Users
    BY <1>6, Shapes DEF SweepRead, TypeOK
  <2>2. index[pending[r].user] \in SUBSET Jtis /\ Handed(pending[r].user) \in SUBSET Jtis
    BY <2>1 DEF TypeOK, Handed
  <2>3. pending' \in [Requests -> Request]
    BY <1>6, <2>1, <2>2, SweepBuilt, ProceedsType DEF SweepRead
  <2>4. QED
    BY <1>6, <2>3 DEF SweepRead, TypeOK, store, history
<1>7. ASSUME NEW r \in Requests, SweepDelete(r) PROVE TypeOK'
  <2>1. pending[r].user \in Users
    BY <1>7, Shapes DEF SweepDelete, TypeOK
  <2>2. pending' \in [Requests -> Request]
    BY <1>7, <2>1, AccountBuilt, ProceedsType DEF SweepDelete
  <2>3. index' \in [Users -> SUBSET Jtis] /\ live' \subseteq Jtis /\ orphans' \subseteq Jtis
    BY <1>7, <2>1 DEF SweepDelete, Swept, TypeOK
  <2>4. QED
    BY <1>7, <2>2, <2>3 DEF SweepDelete, TypeOK
<1>8. ASSUME NEW r \in Requests, SweepStamp(r) PROVE TypeOK'
  <2>1. pending[r].user \in Users
    BY <1>8, Shapes DEF SweepStamp, TypeOK
  <2>2. pending' \in [Requests -> Request]
    BY <1>8, DoneBuilt, ProceedsType DEF SweepStamp, Answers
  <2>3. revokedAt' \in [Users -> Ticks \cup {Never}]
    BY <1>8, <2>1 DEF SweepStamp, TypeOK
  <2>4. QED
    BY <1>8, <2>2, <2>3 DEF SweepStamp, TypeOK, history
<1>9. ASSUME NEW r \in Requests, NEW u \in Users, Login(r, u) \/ SignOutEverywhere(r, u)
      PROVE  TypeOK'
  BY <1>9, AccountBuilt, BeginsType DEF Login, SignOutEverywhere
<1>10. ASSUME NEW r \in Requests, NEW t \in Tickets, TakeGet(r, t) PROVE TypeOK'
  <2>1. ticket[t] \in Ticket
    BY <1>10 DEF TakeGet, TypeOK
  <2>2. QED
    BY <1>10, <2>1, TakeBuilt, BeginsType DEF TakeGet
<1>11. ASSUME NEW r \in Requests, Confirm(r) \/ EnableTotp(r) \/ ResetPassword(r)
       PROVE  TypeOK'
  <2>1. pending[r].id \in Tickets /\ pending[r].was.user \in Users
    BY <1>11, Shapes DEF Confirm, EnableTotp, ResetPassword, TypeOK, Ticket
  <2>2. ticket' \in [Tickets -> Ticket \cup {NoTicket}]
    BY <1>11, <2>1 DEF Confirm, EnableTotp, ResetPassword, AfterTake, TypeOK
  <2>3. totp' \in [Users -> BOOLEAN]
    BY <1>11, <2>1 DEF Confirm, EnableTotp, ResetPassword, TypeOK
  <2>4. pending' \in [Requests -> Request]
    BY <1>11, <2>1, DoneBuilt, AccountBuilt, ProceedsType
       DEF Confirm, EnableTotp, ResetPassword, Answers
  <2>5. QED
    BY <1>11, <2>2, <2>3, <2>4
       DEF Confirm, EnableTotp, ResetPassword, TypeOK, store, history
<1>12. ASSUME NEW r \in Requests, Fails(r) PROVE TypeOK'
  <2>1. pending' \in [Requests -> Request]
    BY <1>12, DoneBuilt, ProceedsType DEF Fails, Answers
  <2>2. QED
    BY <1>12, <2>1 DEF Fails, TypeOK, store, history
<1>13. ASSUME NEW u \in Users, NEW t \in Tickets,
              LoginChallenge(u, t) \/ SetupTotp(u, t) \/ ForgotPassword(u, t)
       PROVE  TypeOK'
  BY <1>13, SavesTicketType DEF LoginChallenge, SetupTotp, ForgotPassword
<1>14. ASSUME NEW u \in Users, DisableTotp(u) PROVE TypeOK'
  BY <1>14 DEF DisableTotp, TypeOK, store, history
<1>15. ASSUME NEW u \in Users, Block(u) PROVE TypeOK'
  <2>1. \A r \in Requests : pending'[r] \in Request
    BY <1>15, LateBuilt DEF Block, TypeOK
  <2>2. pending' \in [Requests -> Request]
    BY <1>15, <2>1 DEF Block
  <2>3. QED
    BY <1>15, <2>2 DEF Block, TypeOK, store
<1>16. ASSUME NEW u \in Users, Unblock(u) PROVE TypeOK'
  BY <1>16 DEF Unblock, TypeOK, store, history
<1>17. ASSUME NEW t \in Tickets, TicketExpires(t) PROVE TypeOK'
  BY <1>17 DEF TicketExpires, TypeOK, store, history
<1>18. CASE Tick
  <2>1. clock' \in Ticks
    BY <1>18, Clock DEF Tick, TypeOK, Ticks
  <2>2. QED
    BY <1>18, <2>1 DEF Tick, TypeOK, store, history
<1>19. CASE UNCHANGED vars
  BY <1>19 DEF vars, TypeOK, store, history
<1>20. QED
  BY <1>1, <1>2, <1>3, <1>4, <1>5, <1>6, <1>7, <1>8, <1>9, <1>10, <1>11, <1>12, <1>13, <1>14,
     <1>15, <1>16, <1>17, <1>18, <1>19
     DEF Next

-----------------------------------------------------------------------------
(* What a step can be, as far as pairs, keys and lists are concerned *)

\* A handler begins, gives up or goes on without touching a key or a list.
Quiet(r, q) ==
  /\ pending' = [pending EXCEPT ![r] = q]
  /\ \/ q.op \in {"done", "change", "take"}
     \/ \E u \in Users : status[u] = "active" /\ q = Issue(u)
     \/ \E j \in live, renew \in BOOLEAN :
          /\ renew => status[pair[j].user] = "active"
          /\ q = [op |-> "revoke", user |-> pair[j].user, jti |-> j, renew |-> renew,
                  late |-> FALSE]
  /\ UNCHANGED <<clock, status, pair, live, index, history>>

\* Challenges come and go, time passes, an account is unblocked.
Elsewhere ==
  /\ clock <= clock'
  /\ \A u \in Users : status'[u] = "blocked" => status[u] = "blocked"
  /\ UNCHANGED <<pair, live, index, pending, history>>

LEMMA StepCases ==
  ASSUME Rooted, [Next]_vars
  PROVE  \/ \E r \in Requests :
              \/ \E j \in Jtis : SignPair(r, j)
              \/ ListPair(r) \/ RevokeKey(r) \/ RevokeListed(r)
              \/ SweepRead(r) \/ SweepDelete(r)
              \/ \E q \in Request : Quiet(r, q)
         \/ \E u \in Users : Block(u)
         \/ Elsewhere
<1> DEFINE Goal == \/ \E r \in Requests :
                        \/ \E j \in Jtis : SignPair(r, j)
                        \/ ListPair(r) \/ RevokeKey(r) \/ RevokeListed(r)
                        \/ SweepRead(r) \/ SweepDelete(r)
                        \/ \E q \in Request : Quiet(r, q)
                   \/ \E u \in Users : Block(u)
                   \/ Elsewhere
<1> USE DEF Rooted
<1>1. ASSUME NEW r \in Requests, NEW j \in Jtis, Refresh(r, j) \/ Logout(r, j) PROVE Goal
  <2> DEFINE q(renew) == [op |-> "revoke", user |-> pair[j].user, jti |-> j,
                          renew |-> renew, late |-> FALSE]
  <2>1. pair[j].user \in Users /\ j \in live
    BY <1>1, AccountOfPair, PairShape DEF Refresh, Logout
  <2>2. \A renew \in BOOLEAN : q(renew) \in Request
    BY <2>1, PairBuilt
  <2>3. \E renew \in BOOLEAN : /\ renew => status[pair[j].user] = "active"
                               /\ Begins(r, q(renew))
    BY <1>1 DEF Refresh, Logout, MayRefresh
  <2>4. \E renew \in BOOLEAN : Quiet(r, q(renew))
    BY <2>1, <2>3 DEF Quiet, Begins, Proceeds, store
  <2>5. QED
    BY <2>2, <2>4
<1>2. ASSUME NEW r \in Requests, SweepStamp(r) \/ Fails(r) PROVE Goal
  <2>1. Quiet(r, Done)
    BY <1>2 DEF Quiet, SweepStamp, Fails, Answers, Proceeds, Done, store
  <2>2. QED
    BY <2>1, DoneBuilt
<1>3. ASSUME NEW r \in Requests, NEW u \in Users, Login(r, u) \/ SignOutEverywhere(r, u)
      PROVE  Goal
  <2>1. Quiet(r, Issue(u)) \/ Quiet(r, [op |-> "change", user |-> u])
    BY <1>3 DEF Quiet, Login, SignOutEverywhere, Begins, Proceeds, store
  <2>2. QED
    BY <2>1, AccountBuilt
<1>4. ASSUME NEW r \in Requests, NEW t \in Tickets, TakeGet(r, t) PROVE Goal
  <2>1. [op |-> "take", id |-> t, was |-> ticket[t]] \in Request
    BY <1>4, TakeBuilt DEF TakeGet, TypeOK
  <2>2. Quiet(r, [op |-> "take", id |-> t, was |-> ticket[t]])
    BY <1>4 DEF Quiet, TakeGet, Begins, Proceeds, store
  <2>3. QED
    BY <2>1, <2>2
<1>5. ASSUME NEW r \in Requests, Confirm(r) \/ EnableTotp(r) \/ ResetPassword(r) PROVE Goal
  <2> DEFINE u == pending[r].was.user
  <2>1. u \in Users
    BY <1>5, Shapes DEF Confirm, EnableTotp, ResetPassword, TypeOK, Ticket
  <2>2. UNCHANGED <<clock, status, pair, live, index, history>>
    BY <1>5 DEF Confirm, EnableTotp, ResetPassword, store
  <2>3. \/ Proceeds(r, Done)
        \/ Proceeds(r, Issue(u)) /\ status[u] = "active"
        \/ Proceeds(r, [op |-> "change", user |-> u])
    BY <1>5 DEF Confirm, EnableTotp, ResetPassword, Answers
  <2> HIDE DEF u
  <2>4. Quiet(r, Done) \/ Quiet(r, Issue(u)) \/ Quiet(r, [op |-> "change", user |-> u])
    BY <2>1, <2>2, <2>3 DEF Quiet, Proceeds, Done
  <2>5. QED
    BY <2>1, <2>4, DoneBuilt, AccountBuilt
<1>6. ASSUME NEW u \in Users, NEW t \in Tickets,
             LoginChallenge(u, t) \/ SetupTotp(u, t) \/ ForgotPassword(u, t)
      PROVE  Goal
  BY <1>6 DEF LoginChallenge, SetupTotp, ForgotPassword, SaveTicket, Elsewhere, store, TypeOK,
              Ticks
<1>7. ASSUME NEW u \in Users, DisableTotp(u) \/ Unblock(u) PROVE Goal
  BY <1>7 DEF DisableTotp, Unblock, Elsewhere, store, history, TypeOK, Ticks
<1>8. ASSUME NEW t \in Tickets, TicketExpires(t) PROVE Goal
  BY <1>8 DEF TicketExpires, Elsewhere, store, TypeOK, Ticks
<1>9. CASE Tick
  BY <1>9 DEF Tick, Elsewhere, store, TypeOK, Ticks
<1>10. CASE UNCHANGED vars
  BY <1>10 DEF vars, Elsewhere, store, TypeOK, Ticks
<1>11. QED
  BY <1>1, <1>2, <1>3, <1>4, <1>5, <1>6, <1>7, <1>8, <1>9, <1>10 DEF Next

\* A pair that has been signed stays as it was signed.
LEMMA PairsStay ==
  ASSUME Rooted, [Next]_vars, NEW j \in Jtis, pair[j] # NoPair
  PROVE  /\ pair'[j] # NoPair
         /\ pair'[j].user = pair[j].user /\ pair'[j].signed = pair[j].signed
         /\ pair'[j].origin = pair[j].origin /\ pair'[j].late = pair[j].late
<1> USE DEF Rooted
<1>1. pair[j] \in Pair
  BY AccountOfPair
<1>2. ASSUME NEW r \in Requests, NEW k \in Jtis, SignPair(r, k) PROVE pair'[j] = pair[j]
  BY <1>2 DEF SignPair, TypeOK
<1>3. ASSUME NEW r \in Requests, ListPair(r)
      PROVE  pair'[j] \in {pair[j], [pair[j] EXCEPT !.handed = TRUE]}
  BY <1>3 DEF ListPair, TypeOK
<1>4. pair'[j] \in {pair[j], [pair[j] EXCEPT !.handed = TRUE]}
  BY <1>2, <1>3, StepCases
     DEF RevokeKey, RevokeListed, SweepRead, SweepDelete, Quiet, Block, Elsewhere
<1>5. [pair[j] EXCEPT !.handed = TRUE] \in Pair
  BY <1>1 DEF Pair
<1>6. QED
  BY <1>1, <1>4, <1>5, PairShape DEF Pair

\* How a request goes on when its step signs no pair.
Onward(p, q) ==
  \/ q = p
  \/ /\ q.op = p.op /\ q.op \in {"issue", "revoke", "unlist"}
     /\ q.op = "issue" => q.from = p.from
     /\ q.op # "issue" => q.jti = p.jti /\ q.user = p.user
  \/ q.op \in {"done", "change", "take", "stamp"}
  \/ q.op = "issue" /\ q.from = NoOrigin
  \/ q.op = "issue" /\ p.op = "unlist" /\ q.from = pair[p.jti].origin
  \/ q.op = "unlist" /\ p.op = "revoke" /\ q.jti = p.jti /\ q.user = p.user
  \/ q.op = "revoke" /\ q.jti \in live /\ q.user = pair[q.jti].user
  \/ q.op = "sweep" /\ \E u \in Users : q.before = Handed(u)

LEMMA RootedNext == Rooted /\ [Next]_vars => Rooted'
<1> SUFFICES ASSUME Rooted, [Next]_vars PROVE Rooted'
  OBVIOUS
<1> USE DEF Rooted
<1>1. TypeOK'
  BY TypeNext
<1>2. ASSUME NEW r \in Requests, NEW j \in Jtis, SignPair(r, j) PROVE Rooted'
  <2> DEFINE origin == IF pending[r].from = NoOrigin THEN j ELSE pending[r].from
             new == [user |-> pending[r].user, signed |-> clock, handed |-> FALSE,
                     origin |-> origin, late |-> pending[r].late]
  <2>1. /\ pending[r].user \in Users /\ pending[r].from \in Jtis \cup {NoOrigin}
        /\ pending[r].late \in BOOLEAN
    BY <1>2, Shapes DEF SignPair, TypeOK
  <2>2. pair'[j] = new /\ pair'[j] # NoPair /\ new.origin = origin /\ new.signed = clock
    BY <1>2, <2>1, NoPairIds DEF SignPair, TypeOK, NoPair
  <2>3. \A k \in Jtis \ {j} : pair'[k] = pair[k]
    BY <1>2 DEF SignPair, TypeOK
  <2>4. pair'[origin] # NoPair /\ origin \in Jtis
    BY <1>2, <2>1, <2>2, PairsStay DEF SignPair
  <2>5. live' = live \cup {j} /\ clock' = clock
    BY <1>2 DEF SignPair
  <2>6. \A k \in live' : pair'[k] # NoPair
    BY <2>2, <2>5, PairsStay DEF TypeOK
  <2>7. \A k \in Jtis : pair'[k] # NoPair =>
          pair'[pair'[k].origin] # NoPair /\ pair'[k].signed <= clock'
    <3>1. TAKE k \in Jtis
    <3>2. CASE k = j
      BY <2>2, <2>4, <2>5, <3>2 DEF TypeOK, Ticks
    <3>3. CASE k # j /\ pair[k] # NoPair
      <4>1. pair[k].origin \in Jtis
        BY <3>3, AccountOfPair, PairShape
      <4>2. QED
        BY <2>3, <2>5, <3>3, <4>1, PairsStay
    <3>4. QED
      BY <2>3, <3>2, <3>3
  <2>8. pending' = [pending EXCEPT ![r] =
                      [op |-> "list", user |-> pending[r].user, jti |-> j]]
    BY <1>2 DEF SignPair, Proceeds
  <2>9. ASSUME NEW q \in Requests
        PROVE  /\ pending'[q].op \in {"list", "revoke", "unlist"} => Owned(q)'
               /\ pending'[q].op = "issue" /\ pending'[q].from # NoOrigin =>
                    pair'[pending'[q].from] # NoPair
               /\ pending'[q].op = "sweep" =>
                    \A k \in pending'[q].before : pair'[k] # NoPair
    <3>1. CASE q = r
      BY <2>2, <2>8, <3>1 DEF Owned, TypeOK
    <3>2. CASE q # r
      <4>1. pending'[q] = pending[q] /\ pending[q] \in Request
        BY <2>8, <3>2 DEF TypeOK
      <4>2. QED
        BY <4>1, Shapes, PairsStay DEF Owned
    <3>3. QED
      BY <3>1, <3>2
  <2> HIDE DEF Rooted
  <2>10. QED
    BY <1>1, <2>6, <2>7, <2>9 DEF Rooted
<1>3. ASSUME pair' = pair \/ \E r \in Requests : ListPair(r),
             live' \subseteq live, clock <= clock',
             \A q \in Requests : Onward(pending[q], pending'[q])
      PROVE  Rooted'
  <2>1. \A j \in live' : pair'[j] # NoPair
    BY <1>3, PairsStay DEF TypeOK
  <2>2. \A j \in Jtis : pair'[j] # NoPair =>
          pair'[pair'[j].origin] # NoPair /\ pair'[j].signed <= clock'
    <3>1. TAKE j \in Jtis
    <3>2. HAVE pair'[j] # NoPair
    <3>3. pair[j] # NoPair
      <4>1. CASE pair' = pair
        BY <3>2, <4>1
      <4>2. ASSUME NEW r \in Requests, ListPair(r) PROVE pair[j] # NoPair
        <5>1. pending[r].jti \in Jtis /\ pair[pending[r].jti] # NoPair
          BY <4>2, Shapes DEF ListPair, Owned, TypeOK
        <5>2. QED
          BY <3>2, <4>2, <5>1 DEF ListPair, TypeOK
      <4>3. QED
        BY <1>3, <4>1, <4>2
    <3>4. pair[j].origin \in Jtis /\ pair[j].signed \in Ticks
      BY <3>3, AccountOfPair, PairShape
    <3>5. clock \in Int /\ clock' \in Int /\ pair[j].signed \in Int
      BY <1>1, <3>4 DEF TypeOK, Ticks
    <3>6. QED
      BY <1>3, <3>3, <3>4, <3>5, PairsStay
  <2>3. ASSUME NEW q \in Requests
        PROVE  /\ pending'[q].op \in {"list", "revoke", "unlist"} => Owned(q)'
               /\ pending'[q].op = "issue" /\ pending'[q].from # NoOrigin =>
                    pair'[pending'[q].from] # NoPair
               /\ pending'[q].op = "sweep" =>
                    \A k \in pending'[q].before : pair'[k] # NoPair
    <3>1. pending[q] \in Request /\ pending'[q] \in Request
      BY <1>1 DEF TypeOK
    <3>2. pending'[q].op \in {"list", "revoke", "unlist"} => Owned(q)'
      BY <1>3, <3>1, Shapes, PairsStay DEF Owned, Onward, TypeOK
    <3>3. pending'[q].op = "issue" /\ pending'[q].from # NoOrigin =>
            pair'[pending'[q].from] # NoPair
      <4>1. CASE pending'[q].op = "issue" /\ pending[q].op = "unlist"
        BY <1>3, <3>1, <4>1, Shapes, PairsStay, AccountOfPair, PairShape DEF Owned, Onward
      <4>2. CASE pending[q].op # "unlist"
        BY <1>3, <3>1, <4>2, Shapes, PairsStay DEF Onward
      <4>3. QED
        BY <4>1, <4>2
    <3>4. pending'[q].op = "sweep" => \A k \in pending'[q].before : pair'[k] # NoPair
      <4>1. \A u \in Users : \A k \in Handed(u) : k \in Jtis /\ pair[k] # NoPair
        BY HandedArePairs, PairShape
      <4>2. QED
        BY <1>3, <3>1, <4>1, Shapes, PairsStay DEF Onward
    <3>5. QED
      BY <3>2, <3>3, <3>4
  <2> HIDE DEF Rooted
  <2>4. QED
    BY <1>1, <2>1, <2>2, <2>3 DEF Rooted
<1>4. ASSUME NEW r \in Requests,
             \/ ListPair(r) \/ RevokeKey(r) \/ RevokeListed(r)
             \/ SweepRead(r) \/ SweepDelete(r) \/ \E q \in Request : Quiet(r, q)
      PROVE  Rooted'
  <2>1. pair' = pair \/ \E q \in Requests : ListPair(q)
    BY <1>4 DEF RevokeKey, RevokeListed, SweepRead, SweepDelete, Quiet
  <2>2. live' \subseteq live /\ clock <= clock'
    BY <1>4 DEF ListPair, RevokeKey, WithoutKey, RevokeListed, SweepRead, SweepDelete, Swept,
                Quiet, TypeOK, Ticks, store
  <2>3. \A q \in Requests \ {r} : pending'[q] = pending[q]
    BY <1>4 DEF ListPair, RevokeKey, RevokeListed, SweepRead, SweepDelete, Quiet,
                Proceeds, Answers, TypeOK
  <2>4. Onward(pending[r], pending'[r])
    <3>1. CASE RevokeKey(r)
      BY <3>1, UnlistBuilt DEF RevokeKey, Proceeds, Onward, TypeOK
    <3>2. CASE RevokeListed(r)
      BY <3>2, Shapes DEF RevokeListed, Proceeds, Done, Onward, TypeOK
    <3>3. CASE SweepRead(r)
      BY <3>3, Shapes DEF SweepRead, Proceeds, Onward, TypeOK
    <3>4. CASE ListPair(r) \/ SweepDelete(r)
      BY <3>4 DEF ListPair, SweepDelete, Answers, Proceeds, Done, Onward, TypeOK
    <3>5. ASSUME NEW q \in Request, Quiet(r, q) PROVE Onward(pending[r], pending'[r])
      BY <3>5 DEF Quiet, Issue, Onward, TypeOK
    <3>6. QED
      BY <1>4, <3>1, <3>2, <3>3, <3>4, <3>5
  <2>5. \A q \in Requests : Onward(pending[q], pending'[q])
    BY <2>3, <2>4 DEF Onward
  <2>6. QED
    BY <1>3, <2>1, <2>2, <2>5
<1>5. ASSUME NEW u \in Users, Block(u) PROVE Rooted'
  <2>1. \A q \in Requests : Onward(pending[q], pending'[q])
    BY <1>5, LateBuilt DEF Block, Onward, TypeOK
  <2>2. pair' = pair /\ live' = live /\ clock' = clock
    BY <1>5 DEF Block, store
  <2>3. QED
    BY <1>3, <2>1, <2>2 DEF TypeOK, Ticks
<1>6. CASE Elsewhere
  BY <1>3, <1>6 DEF Elsewhere, Onward
<1>7. QED
  BY <1>2, <1>4, <1>5, <1>6, StepCases

LEMMA RootedAlways == Spec => []Rooted
BY InitRooted, RootedNext, PTL DEF Spec

\* Accounts, pairs, keys, lists and requests keep their shape.
THEOREM SessionsTyped == Spec => []TypeOK
BY RootedAlways, PTL DEF Rooted

-----------------------------------------------------------------------------
(* Lists and sweeps *)

\* Besides the property itself: an entry leaves its list only after its key
\* is gone, and what a sweep will miss was already missing when it read.
Listing ==
  /\ HeldAreListed
  /\ \A r \in Requests :
       /\ pending[r].op = "unlist" => pending[r].jti \notin live
       /\ pending[r].op = "sweep" =>
            pending[r].before \cap live \subseteq pending[r].seen \cup orphans

LEMMA InitListing == Init => Listing
BY DEF Init, Listing, HeldAreListed, Idle

LEMMA ListingNext == Rooted /\ Listing /\ [Next]_vars => Listing'
<1> SUFFICES ASSUME Rooted, Listing, [Next]_vars PROVE Listing'
  OBVIOUS
<1> USE DEF Rooted
<1>1. ASSUME NEW r \in Requests, NEW j \in Jtis, SignPair(r, j) PROVE Listing'
  <2>1. live' = live \cup {j} /\ pair[j] = NoPair /\ UNCHANGED <<index, orphans>>
    BY <1>1 DEF SignPair, history
  <2>2. ~pair'[j].handed /\ \A k \in Jtis \ {j} : pair'[k] = pair[k]
    BY <1>1 DEF SignPair, TypeOK
  <2>3. HeldAreListed'
    BY <2>1, <2>2 DEF Listing, HeldAreListed, TypeOK
  <2>4. \A q \in Requests : pending'[q] = pending[q] \/ pending'[q].op = "list"
    BY <1>1 DEF SignPair, Proceeds, TypeOK
  <2>5. ASSUME NEW q \in Requests
        PROVE  /\ pending'[q].op = "unlist" => pending'[q].jti \notin live'
               /\ pending'[q].op = "sweep" =>
                    pending'[q].before \cap live' \subseteq pending'[q].seen \cup orphans'
    BY <2>1, <2>4 DEF Listing, Owned
  <2>6. QED
    BY <2>3, <2>5 DEF Listing
<1>2. ASSUME NEW r \in Requests, ListPair(r) PROVE Listing'
  <2> DEFINE u == pending[r].user
             j == pending[r].jti
  <2>1. u \in Users /\ j \in Jtis /\ pair[j] # NoPair /\ pair[j].user = u
    BY <1>2, Shapes DEF ListPair, Owned, TypeOK
  <2>2. /\ live' = live /\ orphans' = orphans
        /\ index' = [index EXCEPT ![u] = index[u] \cup {j}]
    BY <1>2 DEF ListPair, Listed, history
  <2>3. \A k \in Jtis \ {j} : pair'[k] = pair[k]
    BY <1>2 DEF ListPair, TypeOK
  <2>4. pair'[j].user = u
    BY <2>1, PairsStay
  <2> HIDE DEF u, j
  <2>5. HeldAreListed'
    BY <2>1, <2>2, <2>3, <2>4 DEF Listing, HeldAreListed, TypeOK
  <2>6. \A q \in Requests : pending'[q] = pending[q] \/ pending'[q].op = "done"
    BY <1>2 DEF ListPair, Answers, Proceeds, Done, TypeOK
  <2>7. QED
    BY <2>2, <2>5, <2>6 DEF Listing
<1>3. ASSUME NEW r \in Requests, RevokeKey(r) PROVE Listing'
  <2>1. /\ live' = live \ {pending[r].jti} /\ UNCHANGED <<pair, index, orphans>>
        /\ pending' = [pending EXCEPT ![r] = [pending[r] EXCEPT !.op = "unlist"]]
    BY <1>3 DEF RevokeKey, WithoutKey, Proceeds
  <2>2. pending'[r].op = "unlist" /\ pending'[r].jti = pending[r].jti
    BY <1>3, <2>1, UnlistBuilt DEF RevokeKey, TypeOK
  <2>3. HeldAreListed'
    BY <2>1 DEF Listing, HeldAreListed
  <2>4. \A q \in Requests \ {r} : pending'[q] = pending[q]
    BY <2>1 DEF TypeOK
  <2>5. QED
    BY <2>1, <2>2, <2>3, <2>4 DEF Listing
<1>4. ASSUME NEW r \in Requests, RevokeListed(r) PROVE Listing'
  <2>1. /\ UNCHANGED <<live, pair, orphans>>
        /\ index' = [index EXCEPT ![pending[r].user] = @ \ {pending[r].jti}]
    BY <1>4 DEF RevokeListed, history
  <2>2. pending[r].jti \notin live
    BY <1>4 DEF RevokeListed, Listing
  <2>3. HeldAreListed'
    BY <2>1, <2>2, AccountOfPair, PairShape DEF Listing, HeldAreListed, TypeOK
  <2>4. \A q \in Requests : pending'[q] = pending[q] \/ pending'[q].op \in {"done", "issue"}
    BY <1>4 DEF RevokeListed, Proceeds, Done, TypeOK
  <2>5. QED
    BY <2>1, <2>3, <2>4 DEF Listing
<1>5. ASSUME NEW r \in Requests, SweepRead(r) PROVE Listing'
  <2> DEFINE u == pending[r].user
  <2>1. UNCHANGED <<live, pair, index, orphans>>
    BY <1>5 DEF SweepRead, store, history
  <2>2. /\ pending'[r] = [op |-> "sweep", user |-> u, seen |-> index[u], before |-> Handed(u)]
        /\ \A q \in Requests \ {r} : pending'[q] = pending[q]
    BY <1>5 DEF SweepRead, Proceeds, TypeOK
  <2>3. Handed(u) \cap live \subseteq index[u] \cup orphans
    BY DEF Listing, HeldAreListed, Handed
  <2>4. HeldAreListed'
    BY <2>1 DEF Listing, HeldAreListed
  <2>5. QED
    BY <2>1, <2>2, <2>3, <2>4 DEF Listing
<1>6. ASSUME NEW r \in Requests, SweepDelete(r) PROVE Listing'
  <2> DEFINE u == pending[r].user
  <2>1. /\ live' = live \ pending[r].seen /\ pair' = pair
        /\ orphans' = orphans \cup (index[u] \ pending[r].seen)
        /\ index' = [index EXCEPT ![u] = {}]
    BY <1>6 DEF SweepDelete, Swept
  <2>2. HeldAreListed'
    BY <2>1, AccountOfPair, PairShape DEF Listing, HeldAreListed, TypeOK
  <2>3. \A q \in Requests : pending'[q] = pending[q] \/ pending'[q].op = "stamp"
    BY <1>6 DEF SweepDelete, Proceeds, TypeOK
  <2>4. QED
    BY <2>1, <2>2, <2>3 DEF Listing
<1>7. ASSUME NEW r \in Requests, NEW new \in Request, Quiet(r, new) PROVE Listing'
  <2>1. UNCHANGED <<live, pair, index, orphans>>
    BY <1>7 DEF Quiet, history
  <2>2. \A q \in Requests : \/ pending'[q] = pending[q]
                            \/ pending'[q].op \in {"done", "change", "take", "issue", "revoke"}
    BY <1>7 DEF Quiet, Issue, TypeOK
  <2>3. QED
    BY <2>1, <2>2 DEF Listing, HeldAreListed
<1>8. ASSUME NEW u \in Users, Block(u) PROVE Listing'
  <2>1. UNCHANGED <<live, pair, index, orphans>>
    BY <1>8 DEF Block, store
  <2>2. \A q \in Requests :
          \/ pending'[q] = pending[q]
          \/ /\ pending'[q].op = pending[q].op /\ pending'[q].op # "sweep"
             /\ pending[q].op = "unlist" => pending'[q].jti = pending[q].jti
    BY <1>8, LateBuilt DEF Block, TypeOK
  <2>3. QED
    BY <2>1, <2>2 DEF Listing, HeldAreListed
<1>9. CASE Elsewhere
  BY <1>9 DEF Elsewhere, history, Listing, HeldAreListed
<1>10. QED
  BY <1>1, <1>2, <1>3, <1>4, <1>5, <1>6, <1>7, <1>8, <1>9, StepCases

LEMMA ListingAlways == Spec => []Listing
BY RootedAlways, InitListing, ListingNext, PTL DEF Spec

\* Every usable refresh token a user was handed is on the list sweeps read,
\* unless a sweep dropped it from there (issueTokenPair, revokeRefresh).
THEOREM HeldTokensAreListed == Spec => []HeldAreListed
BY ListingAlways, PTL DEF Listing

\* A sweep ends every refresh token its user held when it began, but those
\* some sweep dropped from the list unseen (revokeAllSessions).
THEOREM SweepsSignOut == Spec => SignedOutUnlessOverlap
<1>1. ASSUME Rooted, Listing, [Next]_vars, NEW r \in Requests,
             pending[r].op = "sweep", pending'[r].op = "stamp"
      PROVE  pending[r].before \cap live' \subseteq orphans'
  <2>1. ASSUME NEW q \in Requests, SweepDelete(q)
        PROVE  pending[r].before \cap live' \subseteq orphans'
    <3>1. q = r
      BY <1>1, <2>1 DEF SweepDelete, Proceeds, Rooted, TypeOK
    <3>2. live' = live \ pending[r].seen /\ orphans \subseteq orphans'
      BY <2>1, <3>1 DEF SweepDelete, Swept
    <3>3. QED
      BY <1>1, <3>2 DEF Listing
  <2>2. ~\E q \in Requests :
          \/ \E j \in Jtis : SignPair(q, j)
          \/ ListPair(q) \/ RevokeKey(q) \/ RevokeListed(q) \/ SweepRead(q)
          \/ \E new \in Request : Quiet(q, new)
    <3>1. ASSUME NEW q \in Requests, NEW j \in Jtis, SignPair(q, j) PROVE FALSE
      BY <1>1, <3>1 DEF SignPair, Proceeds, Rooted, TypeOK
    <3>2. ASSUME NEW q \in Requests,
                 ListPair(q) \/ RevokeListed(q) \/ SweepRead(q)
          PROVE  FALSE
      BY <1>1, <3>2 DEF ListPair, RevokeListed, SweepRead, Answers, Proceeds, Done, Rooted, TypeOK
    <3>3. ASSUME NEW q \in Requests, RevokeKey(q) PROVE FALSE
      BY <1>1, <3>3, UnlistBuilt DEF RevokeKey, Proceeds, Rooted, TypeOK
    <3>4. ASSUME NEW q \in Requests, NEW new \in Request, Quiet(q, new) PROVE FALSE
      BY <1>1, <3>4 DEF Quiet, Issue, Rooted, TypeOK
    <3>5. QED
      BY <3>1, <3>2, <3>3, <3>4
  <2>3. \A u \in Users : ~Block(u)
    BY <1>1, LateBuilt DEF Block, Rooted, TypeOK
  <2>4. ~Elsewhere
    BY <1>1 DEF Elsewhere
  <2>5. QED
    BY <1>1, <2>1, <2>2, <2>3, <2>4, StepCases
<1>2. Rooted /\ Listing /\ [Next]_vars =>
        [\A r \in Requests :
           pending[r].op = "sweep" /\ pending'[r].op = "stamp" =>
             pending[r].before \cap live' \subseteq orphans']_vars
  BY <1>1
<1>3. QED
  BY <1>2, RootedAlways, ListingAlways, PTL DEF Spec, SignedOutUnlessOverlap

-----------------------------------------------------------------------------
(* Clocks *)

\* A tick lies in its second: the second's first tick is not after it, the
\* next second's is.
LEMMA InItsSecond ==
  ASSUME NEW t \in Nat
  PROVE  /\ Second(t) \in Nat
         /\ Second(t) * PerSecond <= t
         /\ t < (Second(t) + 1) * PerSecond
BY Clock DEF Second

LEMMA SecondsOrdered ==
  ASSUME NEW a \in Nat, NEW b \in Nat, a <= b
  PROVE  a * PerSecond <= b * PerSecond
BY Clock

LEMMA RevocationTyped == TypeOK => RevocationExact
<1> SUFFICES ASSUME TypeOK, NEW j \in Jtis, pair[j] # NoPair
             PROVE  LET at == revokedAt[pair[j].user] IN
                    /\ pair[j].signed < at => ~Accepted(j, TRUE)
                    /\ /\ Second(at) < Second(pair[j].signed)
                       /\ Second(clock) < Second(pair[j].signed) + AccessTtl
                       => Accepted(j, TRUE)
  BY DEF RevocationExact
<1> DEFINE at == revokedAt[pair[j].user]
           signed == pair[j].signed
<1>1. signed \in Nat /\ at \in Nat \cup {Never}
  BY AccountOfPair, PairShape DEF TypeOK, Ticks
<1> HIDE DEF at, signed
<1>2. signed < at => Revoked(Second(signed), at)
  <2>1. HAVE signed < at
  <2>2. at # Never /\ at \in Nat
    BY <1>1, <2>1 DEF Never
  <2>3. Second(signed) * PerSecond \in Nat
    BY <1>1, InItsSecond, Clock
  <2>4. QED
    BY <1>1, <2>1, <2>2, <2>3, InItsSecond DEF Revoked
<1>3. Second(at) < Second(signed) => ~Revoked(Second(signed), at)
  <2>1. HAVE Second(at) < Second(signed)
  <2>2. CASE at = Never
    BY <2>2 DEF Revoked
  <2>3. CASE at \in Nat
    <3>1. at < (Second(at) + 1) * PerSecond /\ Second(at) \in Nat /\ Second(signed) \in Nat
      BY <1>1, <2>3, InItsSecond
    <3>2. (Second(at) + 1) * PerSecond <= Second(signed) * PerSecond
      BY <2>1, <3>1, SecondsOrdered
    <3>3. (Second(at) + 1) * PerSecond \in Nat /\ Second(signed) * PerSecond \in Nat
      BY <3>1, Clock
    <3>4. QED
      BY <2>3, <3>1, <3>2, <3>3 DEF Revoked
  <2>4. QED
    BY <1>1, <2>2, <2>3
<1>4. QED
  BY <1>2, <1>3 DEF Accepted, at, signed

\* A revocation ends the access tokens signed before it, and none signed in
\* a later second (JwtAuthGuard), for any length of a second.
THEOREM RevocationsAreExact == Spec => []RevocationExact
BY SessionsTyped, RevocationTyped, PTL

-----------------------------------------------------------------------------
(* Blocked accounts *)

\* While a user is blocked, whatever was not under way when the block came
\* signs nothing: pairs that are not marked late were signed before it.
Outdated(q, u) ==
  q.user = u /\ (q.op = "issue" \/ (q.op \in {"revoke", "unlist"} /\ q.renew)) => q.late

Blocking ==
  \A u \in Users : status[u] = "blocked" =>
    /\ blockedAt[u] \in Ticks
    /\ \A j \in Jtis : pair[j] # NoPair /\ pair[j].user = u /\ ~pair[j].late =>
         pair[j].signed <= blockedAt[u]
    /\ \A r \in Requests : Outdated(pending[r], u)

LEMMA InitBlocking == Init => Blocking
BY DEF Init, Blocking

LEMMA BlockingNext == Rooted /\ Blocking /\ [Next]_vars => Blocking'
<1> SUFFICES ASSUME Rooted, Blocking, [Next]_vars,
                    NEW u \in Users, status'[u] = "blocked"
             PROVE  /\ blockedAt'[u] \in Ticks
                    /\ \A j \in Jtis : pair'[j] # NoPair /\ pair'[j].user = u /\ ~pair'[j].late =>
                         pair'[j].signed <= blockedAt'[u]
                    /\ \A r \in Requests : Outdated(pending'[r], u)
  BY DEF Blocking
<1> DEFINE Goal == /\ blockedAt'[u] \in Ticks
                   /\ \A j \in Jtis : pair'[j] # NoPair /\ pair'[j].user = u /\ ~pair'[j].late =>
                        pair'[j].signed <= blockedAt'[u]
                   /\ \A r \in Requests : Outdated(pending'[r], u)
<1> USE DEF Rooted
<1>1. ASSUME NEW r \in Requests, NEW k \in Jtis, SignPair(r, k) PROVE Goal
  <2> DEFINE new == [user |-> pending[r].user, signed |-> clock, handed |-> FALSE,
                     origin |-> IF pending[r].from = NoOrigin THEN k ELSE pending[r].from,
                     late |-> pending[r].late]
  <2>1. status[u] = "blocked" /\ blockedAt' = blockedAt
    BY <1>1 DEF SignPair, history
  <2>2. pair'[k].user = u => pair'[k].late
    <3>1. pair'[k] = new
      BY <1>1 DEF SignPair, TypeOK
    <3>2. new.user = pending[r].user /\ new.late = pending[r].late
      OBVIOUS
    <3>3. pending[r].user = u => pending[r].late
      BY <1>1, <2>1 DEF Blocking, Outdated, SignPair
    <3>4. QED
      BY <3>1, <3>2, <3>3
  <2>3. \A j \in Jtis \ {k} : pair'[j] = pair[j]
    BY <1>1 DEF SignPair, TypeOK
  <2>4. \A q \in Requests : pending'[q] = pending[q] \/ pending'[q].op = "list"
    BY <1>1 DEF SignPair, Proceeds, TypeOK
  <2>5. QED
    BY <2>1, <2>2, <2>3, <2>4 DEF Blocking, Outdated
<1>2. ASSUME UNCHANGED <<status, blockedAt>>,
             pair' = pair \/ \E r \in Requests : ListPair(r),
             \A q \in Requests : Outdated(pending[q], u) => Outdated(pending'[q], u)
      PROVE  Goal
  <2>1. \A j \in Jtis : pair'[j] # NoPair => pair[j] # NoPair
    <3>1. ASSUME NEW r \in Requests, ListPair(r), NEW j \in Jtis, pair'[j] # NoPair
          PROVE  pair[j] # NoPair
      BY <3>1, Shapes DEF ListPair, Owned, TypeOK
    <3>2. QED
      BY <1>2, <3>1
  <2>2. QED
    BY <1>2, <2>1, PairsStay DEF Blocking
<1>3. ASSUME NEW r \in Requests, ListPair(r) \/ SweepRead(r) \/ SweepDelete(r) PROVE Goal
  <2>1. \A q \in Requests : \/ pending'[q] = pending[q]
                            \/ pending'[q].op \in {"done", "sweep", "stamp"}
    BY <1>3 DEF ListPair, SweepRead, SweepDelete, Answers, Proceeds, Done, TypeOK
  <2>2. UNCHANGED <<status, blockedAt>> /\ (pair' = pair \/ ListPair(r))
    BY <1>3 DEF ListPair, SweepRead, SweepDelete, history
  <2>3. QED
    BY <1>2, <2>1, <2>2 DEF Outdated
<1>4. ASSUME NEW r \in Requests, RevokeKey(r) PROVE Goal
  <2>1. Outdated(pending[r], u) => Outdated(pending'[r], u)
    BY <1>4, UnlistBuilt DEF RevokeKey, Proceeds, Outdated, TypeOK
  <2>2. \A q \in Requests \ {r} : pending'[q] = pending[q]
    BY <1>4 DEF RevokeKey, Proceeds, TypeOK
  <2>3. QED
    BY <1>2, <1>4, <2>1, <2>2 DEF RevokeKey
<1>5. ASSUME NEW r \in Requests, RevokeListed(r) PROVE Goal
  <2>1. Outdated(pending[r], u) => Outdated(pending'[r], u)
    BY <1>5 DEF RevokeListed, Proceeds, Done, Outdated, TypeOK
  <2>2. \A q \in Requests \ {r} : pending'[q] = pending[q]
    BY <1>5 DEF RevokeListed, Proceeds, TypeOK
  <2>3. QED
    BY <1>2, <1>5, <2>1, <2>2 DEF RevokeListed, history
<1>6. ASSUME NEW r \in Requests, NEW new \in Request, Quiet(r, new) PROVE Goal
  <2>1. UNCHANGED <<status, blockedAt, pair>>
    BY <1>6 DEF Quiet, history
  <2>2. Outdated(pending'[r], u)
    BY <1>6, <2>1 DEF Quiet, Issue, Outdated, TypeOK
  <2>3. \A q \in Requests \ {r} : pending'[q] = pending[q]
    BY <1>6 DEF Quiet, TypeOK
  <2>4. QED
    BY <1>2, <2>1, <2>2, <2>3
<1>7. ASSUME NEW v \in Users, Block(v) PROVE Goal
  <2>1. pair' = pair /\ blockedAt' = [blockedAt EXCEPT ![v] = clock]
    BY <1>7 DEF Block
  <2>2. \A q \in Requests :
          \/ pending'[q] = pending[q]
          \/ pending'[q].op \in {"issue", "revoke", "unlist"} /\ pending'[q].late
    BY <1>7, LateBuilt DEF Block, TypeOK
  <2>3. CASE u = v
    <3>1. \A q \in Requests : Outdated(pending'[q], u)
      BY <1>7, <2>2, <2>3, LateBuilt DEF Block, Outdated, TypeOK
    <3>2. QED
      BY <2>1, <2>3, <3>1, PairsStay DEF TypeOK
  <2>4. CASE u # v
    <3>1. status[u] = "blocked" /\ blockedAt'[u] = blockedAt[u]
      BY <1>7, <2>1, <2>4 DEF Block, TypeOK
    <3>2. QED
      BY <2>1, <2>2, <3>1 DEF Blocking, Outdated
  <2>5. QED
    BY <2>3, <2>4
<1>8. CASE Elsewhere
  BY <1>8 DEF Elsewhere, history, Blocking
<1>9. QED
  BY <1>1, <1>3, <1>4, <1>5, <1>6, <1>7, <1>8, StepCases

LEMMA BlockedTokensRunOut == Rooted /\ Blocking => BlockedRunsOut
<1> SUFFICES ASSUME Rooted, Blocking, NEW u \in Users, status[u] = "blocked",
                    NEW j \in Handed(u), NEW answered \in BOOLEAN,
                    Accepted(j, answered), ~pair[j].late
             PROVE  clock < blockedAt[u] + AccessTtl * PerSecond
  BY DEF BlockedRunsOut
<1> DEFINE signed == pair[j].signed
<1>1. j \in Jtis /\ pair[j] \in Pair /\ pair[j].user = u /\ TypeOK
  BY HandedArePairs DEF Rooted
<1>2. signed \in Nat /\ clock \in Nat /\ blockedAt[u] \in Nat /\ signed <= blockedAt[u]
  BY <1>1, PairShape DEF Blocking, TypeOK, Ticks
<1>3. Second(clock) < Second(signed) + AccessTtl
  BY DEF Accepted
<1> HIDE DEF signed
<1>4. /\ Second(clock) \in Nat /\ Second(signed) \in Nat
      /\ clock < (Second(clock) + 1) * PerSecond
      /\ Second(signed) * PerSecond <= signed
  BY <1>2, InItsSecond
<1>5. (Second(clock) + 1) * PerSecond <= (Second(signed) + AccessTtl) * PerSecond
  BY <1>3, <1>4, Clock, SecondsOrdered
<1>6. (Second(signed) + AccessTtl) * PerSecond
        = Second(signed) * PerSecond + AccessTtl * PerSecond
  BY <1>4, Clock
<1>7. /\ Second(signed) * PerSecond \in Nat /\ AccessTtl * PerSecond \in Nat
      /\ (Second(clock) + 1) * PerSecond \in Nat
  BY <1>4, Clock
<1>8. QED
  BY <1>2, <1>4, <1>5, <1>6, <1>7

\* A blocked user can act for one access-token lifetime at most, for any
\* lifetime (refresh, login, confirmTwoFactor look at the status).
THEOREM BlockedUsersRunOut == Spec => []BlockedRunsOut
BY RootedAlways, InitBlocking, BlockingNext, BlockedTokensRunOut, PTL DEF Spec

-----------------------------------------------------------------------------
(* Successors *)

\* The sign-in a request is about to sign a successor for.
Heir(q) ==
  IF q.op = "unlist" /\ q.renew THEN pair[q.jti].origin
  ELSE IF q.op = "issue" THEN q.from ELSE NoOrigin

\* Without a fork, a sign-in has one usable token or one request that will
\* sign it, and not both.
Succession ==
  ~forked =>
    /\ \A j, k \in live : pair[j].origin = pair[k].origin => j = k
    /\ \A r \in Requests : Heir(pending[r]) # NoOrigin =>
         /\ \A j \in live : pair[j].origin # Heir(pending[r])
         /\ \A q \in Requests : Heir(pending[q]) = Heir(pending[r]) => q = r

LEMMA InitSuccession == Init => Succession
BY DEF Init, Succession, Heir, Idle

\* A sign-in that a request is to continue began with a pair signed before.
LEMMA HeirSigned ==
  ASSUME Rooted, NEW r \in Requests, Heir(pending[r]) # NoOrigin
  PROVE  Heir(pending[r]) \in Jtis /\ pair[Heir(pending[r])] # NoPair
<1>1. pending[r] \in Request
  BY DEF Rooted, TypeOK
<1>2. CASE pending[r].op = "unlist" /\ pending[r].renew
  BY <1>1, <1>2, Shapes, AccountOfPair, PairShape DEF Heir, Rooted, Owned
<1>3. CASE ~(pending[r].op = "unlist" /\ pending[r].renew)
  BY <1>1, <1>3, Shapes DEF Heir, Rooted
<1>4. QED
  BY <1>2, <1>3

LEMMA SuccessionNext == Rooted /\ Succession /\ [Next]_vars => Succession'
<1> SUFFICES ASSUME Rooted, Succession, [Next]_vars, ~forked' PROVE Succession'
  BY DEF Succession
<1> USE DEF Rooted
<1>1. \A j \in live : j \in Jtis /\ pair[j] # NoPair
  BY DEF TypeOK
<1>2. ASSUME NEW r \in Requests, NEW k \in Jtis, SignPair(r, k) PROVE Succession'
  <2> DEFINE origin == IF pending[r].from = NoOrigin THEN k ELSE pending[r].from
  <2>1. live' = live \cup {k} /\ pair[k] = NoPair /\ ~forked
    BY <1>2 DEF SignPair, history
  <2>2. pair'[k].origin = origin /\ \A j \in Jtis \ {k} : pair'[j] = pair[j]
    BY <1>2 DEF SignPair, TypeOK
  <2>3. Heir(pending[r]) = pending[r].from
    BY <1>2 DEF SignPair, Heir
  <2>4. /\ pending'[r] = [op |-> "list", user |-> pending[r].user, jti |-> k]
        /\ \A q \in Requests \ {r} : pending'[q] = pending[q]
    BY <1>2 DEF SignPair, Proceeds, TypeOK
  <2>5. Heir(pending[r])' = NoOrigin
    BY <2>4 DEF Heir
  <2>6. \A q \in Requests \ {r} : Heir(pending[q])' = Heir(pending[q])
    <3>1. TAKE q \in Requests \ {r}
    <3>2. CASE pending[q].op = "unlist"
      <4>1. pending[q].jti \in Jtis /\ pair[pending[q].jti] # NoPair
        BY <3>2, Shapes DEF Owned, TypeOK
      <4>2. QED
        BY <2>4, <3>2, <4>1, PairsStay DEF Heir
    <3>3. CASE pending[q].op # "unlist"
      BY <2>4, <3>3 DEF Heir
    <3>4. QED
      BY <3>2, <3>3
  <2>7. \A j \in live : pair[j].origin # origin
    <3>1. TAKE j \in live
    <3>2. pair[j].origin \in Jtis /\ pair[pair[j].origin] # NoPair
      BY <1>1, AccountOfPair, PairShape
    <3>3. CASE pending[r].from = NoOrigin
      BY <2>1, <3>2, <3>3
    <3>4. CASE pending[r].from # NoOrigin
      BY <2>1, <2>3, <3>4 DEF Succession
    <3>5. QED
      BY <3>3, <3>4
  <2>8. \A q \in Requests \ {r} : Heir(pending[q]) # NoOrigin => Heir(pending[q]) # origin
    <3>1. TAKE q \in Requests \ {r}
    <3>2. HAVE Heir(pending[q]) # NoOrigin
    <3>3. CASE pending[r].from = NoOrigin
      BY <2>1, <3>2, <3>3, HeirSigned
    <3>4. CASE pending[r].from # NoOrigin
      BY <2>1, <2>3, <3>4 DEF Succession
    <3>5. QED
      BY <3>3, <3>4
  <2> HIDE DEF origin
  <2>9. \A j \in live : j # k /\ pair'[j] = pair[j]
    BY <1>1, <2>1, <2>2
  <2>10. \A i, j \in live' : pair'[i].origin = pair'[j].origin => i = j
    BY <2>1, <2>2, <2>7, <2>9 DEF Succession
  <2>11. ASSUME NEW q \in Requests, Heir(pending[q])' # NoOrigin
         PROVE  /\ \A j \in live' : pair'[j].origin # Heir(pending[q])'
                /\ \A p \in Requests : Heir(pending[p])' = Heir(pending[q])' => p = q
    BY <2>1, <2>2, <2>5, <2>6, <2>8, <2>9, <2>11 DEF Succession
  <2>12. QED
    BY <2>10, <2>11 DEF Succession
<1>3. ASSUME NEW r \in Requests, RevokeKey(r) PROVE Succession'
  <2> DEFINE k == pending[r].jti
  <2>1. /\ live' = live \ {k} /\ pair' = pair /\ ~forked /\ k \in live
    BY <1>3 DEF RevokeKey, WithoutKey
  <2>2. \A q \in Requests \ {r} : pending'[q] = pending[q]
    BY <1>3 DEF RevokeKey, Proceeds, TypeOK
  <2>3. \A q \in Requests \ {r} : Heir(pending[q])' = Heir(pending[q])
    BY <2>1, <2>2 DEF Heir
  <2>4. Heir(pending[r])' \in {NoOrigin, pair[k].origin}
    BY <1>3, <2>1, UnlistBuilt DEF RevokeKey, Proceeds, Heir, TypeOK
  <2> HIDE DEF k
  <2>5. \A j \in live' : pair[j].origin # pair[k].origin
    BY <2>1 DEF Succession
  <2>6. \A q \in Requests : Heir(pending[q]) # NoOrigin => Heir(pending[q]) # pair[k].origin
    BY <2>1 DEF Succession
  <2>7. ASSUME NEW q \in Requests, Heir(pending[q])' # NoOrigin
        PROVE  /\ \A j \in live' : pair'[j].origin # Heir(pending[q])'
               /\ \A p \in Requests : Heir(pending[p])' = Heir(pending[q])' => p = q
    BY <2>1, <2>3, <2>4, <2>5, <2>6, <2>7 DEF Succession
  <2>8. \A i, j \in live' : pair'[i].origin = pair'[j].origin => i = j
    BY <2>1 DEF Succession
  <2>9. QED
    BY <2>7, <2>8 DEF Succession
<1>4. ASSUME forked' = forked, live' \subseteq live,
             \A j \in Jtis : pair[j] # NoPair => pair'[j].origin = pair[j].origin,
             \A q \in Requests : Heir(pending[q])' \in {NoOrigin, Heir(pending[q])}
      PROVE  Succession'
  BY <1>1, <1>4 DEF Succession
<1>5. \A j \in Jtis : pair[j] # NoPair => pair'[j].origin = pair[j].origin
  BY PairsStay
<1>6. ASSUME NEW q \in Requests, pending'[q] = pending[q]
      PROVE  Heir(pending[q])' = Heir(pending[q])
  <2>1. CASE pending[q].op = "unlist"
    <3>1. pending[q].jti \in Jtis /\ pair[pending[q].jti] # NoPair
      BY <2>1, Shapes DEF Owned, TypeOK
    <3>2. QED
      BY <1>5, <1>6, <2>1, <3>1 DEF Heir
  <2>2. CASE pending[q].op # "unlist"
    BY <1>6, <2>2 DEF Heir
  <2>3. QED
    BY <2>1, <2>2
<1>7. ASSUME NEW r \in Requests, ListPair(r) \/ SweepRead(r) \/ SweepDelete(r) PROVE Succession'
  <2>1. \A q \in Requests : \/ pending'[q] = pending[q]
                            \/ pending'[q].op \in {"done", "sweep", "stamp"}
    BY <1>7 DEF ListPair, SweepRead, SweepDelete, Answers, Proceeds, Done, TypeOK
  <2>2. \A q \in Requests : Heir(pending[q])' \in {NoOrigin, Heir(pending[q])}
    BY <1>6, <2>1 DEF Heir
  <2>3. forked' = forked /\ live' \subseteq live
    BY <1>7 DEF ListPair, SweepRead, SweepDelete, Swept, store, history
  <2>4. QED
    BY <1>4, <1>5, <2>2, <2>3
<1>8. ASSUME NEW r \in Requests, RevokeListed(r) PROVE Succession'
  <2>1. pair' = pair /\ forked' = forked /\ live' = live
    BY <1>8 DEF RevokeListed, history
  <2>2. Heir(pending[r])' \in {NoOrigin, Heir(pending[r])}
    BY <1>8, <2>1 DEF RevokeListed, Proceeds, Done, Heir, TypeOK
  <2>3. \A q \in Requests \ {r} : pending'[q] = pending[q]
    BY <1>8 DEF RevokeListed, Proceeds, TypeOK
  <2>4. QED
    BY <1>4, <1>5, <1>6, <2>1, <2>2, <2>3
<1>9. ASSUME NEW r \in Requests, NEW new \in Request, Quiet(r, new) PROVE Succession'
  <2>1. pair' = pair /\ forked' = forked /\ live' = live
    BY <1>9 DEF Quiet, history
  <2>2. Heir(pending[r])' = NoOrigin
    BY <1>9 DEF Quiet, Issue, Heir, TypeOK
  <2>3. \A q \in Requests \ {r} : pending'[q] = pending[q]
    BY <1>9 DEF Quiet, TypeOK
  <2>4. QED
    BY <1>4, <1>5, <1>6, <2>1, <2>2, <2>3
<1>10. ASSUME NEW u \in Users, Block(u) PROVE Succession'
  <2>1. pair' = pair /\ forked' = forked /\ live' = live
    BY <1>10 DEF Block, store
  <2>2. \A q \in Requests : Heir(pending[q])' = Heir(pending[q])
    <3>1. TAKE q \in Requests
    <3>2. CASE pending'[q] = pending[q]
      BY <1>6, <3>2
    <3>3. CASE /\ pending[q].op \in {"issue", "revoke", "unlist"}
               /\ pending'[q] = [pending[q] EXCEPT !.late = TRUE]
      BY <2>1, <3>3, LateBuilt DEF Heir, TypeOK
    <3>4. QED
      BY <1>10, <3>2, <3>3 DEF Block
  <2>3. QED
    BY <1>4, <1>5, <2>1, <2>2
<1>11. CASE Elsewhere
  <2>1. pair' = pair /\ forked' = forked /\ live' = live /\ pending' = pending
    BY <1>11 DEF Elsewhere, history
  <2>2. QED
    BY <1>4, <1>5, <1>6, <2>1
<1>12. QED
  BY <1>2, <1>3, <1>7, <1>8, <1>9, <1>10, <1>11, StepCases

\* A chain of refreshes has one usable token at a time, unless two requests
\* used one token at once (verifyRefresh, then revokeRefresh).
THEOREM OneSuccessor == Spec => []OneSuccessorUnlessFork
<1>1. Succession => OneSuccessorUnlessFork
  BY DEF Succession, OneSuccessorUnlessFork
<1>2. QED
  BY <1>1, RootedAlways, InitSuccession, SuccessionNext, PTL DEF Spec

-----------------------------------------------------------------------------
(* Staff: shapes *)

LEMMA GoneIsNoUser == \A row \in User : row # Gone /\ row.role # "gone"
BY DEF User, Gone, Roles

LEMMA EditShapes ==
  ASSUME NEW q \in Edit
  PROVE  /\ q.op = "create" => q.row \in User
         /\ q.op = "save" => q.user \in Accounts /\ q.row \in User
         /\ q.op = "remove" => q.user \in Accounts
         /\ q.op \in {"idle", "create", "save", "remove"}
         /\ q.fresh \in BOOLEAN
<1>1. CASE q = NoEdit
  BY <1>1 DEF NoEdit
<1>2. CASE q \in [op : {"create"}, row : User, fresh : BOOLEAN]
  BY <1>2
<1>3. CASE q \in [op : {"save"}, user : Accounts, row : User,
                  named : SUBSET {"role", "status"}, fresh : BOOLEAN]
  BY <1>3
<1>4. CASE q \in [op : {"remove"}, user : Accounts, fresh : BOOLEAN]
  BY <1>4
<1>5. QED
  BY <1>1, <1>2, <1>3, <1>4 DEF Edit

\* Marking a request as out of date changes nothing else of it.
LEMMA Outdating ==
  ASSUME NEW q \in Edit, q # NoEdit
  PROVE  /\ [q EXCEPT !.fresh = FALSE] \in Edit
         /\ ~[q EXCEPT !.fresh = FALSE].fresh
<1>1. CASE q \in [op : {"create"}, row : User, fresh : BOOLEAN]
  BY <1>1 DEF Edit
<1>2. CASE q \in [op : {"save"}, user : Accounts, row : User,
                  named : SUBSET {"role", "status"}, fresh : BOOLEAN]
  BY <1>2 DEF Edit
<1>3. CASE q \in [op : {"remove"}, user : Accounts, fresh : BOOLEAN]
  BY <1>3 DEF Edit
<1>4. QED
  BY <1>1, <1>2, <1>3 DEF Edit

LEMMA WritesType ==
  ASSUME StaffTypeOK, NEW r \in Edits, Writes(r)
  PROVE  /\ editing' \in [Edits -> Edit]
         /\ overlapped' \in BOOLEAN
<1>1. ASSUME NEW s \in Edits
      PROVE  (IF s = r \/ editing[s] = NoEdit THEN NoEdit
              ELSE [editing[s] EXCEPT !.fresh = FALSE]) \in Edit
  <2>1. NoEdit \in Edit
    BY DEF Edit
  <2>2. editing[s] \in Edit
    BY DEF StaffTypeOK
  <2>3. QED
    BY <2>1, <2>2, Outdating
<1>2. editing' \in [Edits -> Edit]
  BY <1>1 DEF Writes
<1>3. overlapped' \in BOOLEAN
  BY DEF Writes, StaffTypeOK
<1>4. QED
  BY <1>2, <1>3

LEMMA StartsType ==
  ASSUME StaffTypeOK, NEW r \in Edits, NEW q \in Edit, Starts(r, q)
  PROVE  StaffTypeOK'
BY DEF Starts, StaffTypeOK

\* What a save writes is a user.
LEMMA GivenType ==
  ASSUME NEW old \in User,
         NEW role \in Roles \cup {Keep}, NEW st \in UserStatus \cup {Keep},
         NEW e \in Emails \cup {Keep}
  PROVE  [role |-> Given(role, old.role), status |-> Given(st, old.status),
          email |-> Given(e, old.email)] \in User
BY DEF User, Given

LEMMA ProfileType ==
  ASSUME NEW old \in User, NEW e \in Emails \cup {Keep}
  PROVE  [old EXCEPT !.email = Given(e, old.email)] \in User
BY DEF User, Given

LEMMA ExistingUser ==
  ASSUME StaffTypeOK, NEW u \in Existing
  PROVE  account[u] \in User
BY DEF StaffTypeOK, Existing

-----------------------------------------------------------------------------
(* Type correctness *)

LEMMA InitType == StaffInit => StaffTypeOK
<1>1. [role |-> "admin", status |-> "active", email |-> FirstEmail] \in User
  BY Seeded DEF User, Roles, UserStatus
<1>2. QED
  BY <1>1 DEF StaffInit, StaffTypeOK, Edit

LEMMA NextType == StaffTypeOK /\ [StaffNext]_staffVars => StaffTypeOK'
<1> SUFFICES ASSUME StaffTypeOK, [StaffNext]_staffVars PROVE StaffTypeOK'
  OBVIOUS
<1>1. ASSUME NEW r \in Edits, NEW e \in Emails, RegisterCheck(r, e) PROVE StaffTypeOK'
  <2>1. [op |-> "create", fresh |-> TRUE,
         row |-> [role |-> "staff", status |-> "active", email |-> e]] \in Edit
    BY DEF Edit, User, Roles, UserStatus
  <2>2. QED
    BY <1>1, <2>1, StartsType DEF RegisterCheck
<1>2. ASSUME NEW r \in Edits, NEW row \in User, CreateCheck(r, row) PROVE StaffTypeOK'
  <2>1. [op |-> "create", row |-> row, fresh |-> TRUE] \in Edit
    BY DEF Edit
  <2>2. QED
    BY <1>2, <2>1, StartsType DEF CreateCheck
<1>3. ASSUME NEW r \in Edits, NEW u \in Accounts, CreateCommit(r, u) PROVE StaffTypeOK'
  <2>1. editing[r].row \in User
    BY <1>3, EditShapes DEF CreateCommit, StaffTypeOK
  <2>2. account' \in [Accounts -> User \cup {Gone}] /\ worked' \subseteq Accounts
    BY <1>3, <2>1 DEF CreateCommit, StaffTypeOK
  <2>3. QED
    BY <1>3, <2>2, WritesType DEF CreateCommit, StaffTypeOK
<1>4. ASSUME NEW r \in Edits, NEW u \in Accounts, NEW role \in Roles \cup {Keep},
             NEW st \in UserStatus \cup {Keep}, NEW e \in Emails \cup {Keep},
             UpdateCheck(r, u, role, st, e)
      PROVE  StaffTypeOK'
  <2> DEFINE row == [role |-> Given(role, account[u].role),
                     status |-> Given(st, account[u].status),
                     email |-> Given(e, account[u].email)]
             named == (IF role = Keep THEN {} ELSE {"role"})
                        \cup (IF st = Keep THEN {} ELSE {"status"})
  <2>1. row \in User
    BY <1>4, ExistingUser, GivenType DEF UpdateCheck
  <2>2. named \in SUBSET {"role", "status"}
    OBVIOUS
  <2> HIDE DEF row, named
  <2>3. [op |-> "save", user |-> u, fresh |-> TRUE, row |-> row, named |-> named] \in Edit
    BY <2>1, <2>2 DEF Edit
  <2>4. QED
    BY <1>4, <2>3, StartsType DEF UpdateCheck, row, named
<1>5. ASSUME NEW r \in Edits, NEW u \in Accounts, NEW e \in Emails \cup {Keep},
             ProfileCheck(r, u, e)
      PROVE  StaffTypeOK'
  <2> DEFINE row == [account[u] EXCEPT !.email = Given(e, account[u].email)]
  <2>1. row \in User
    BY <1>5, ExistingUser, ProfileType DEF ProfileCheck
  <2> HIDE DEF row
  <2>2. [op |-> "save", user |-> u, fresh |-> TRUE, named |-> {}, row |-> row] \in Edit
    BY <2>1 DEF Edit
  <2>3. QED
    BY <1>5, <2>2, StartsType DEF ProfileCheck, row
<1>6. ASSUME NEW r \in Edits, UpdateCommit(r) PROVE StaffTypeOK'
  <2>1. editing[r].row \in User
    BY <1>6, EditShapes DEF UpdateCommit, StaffTypeOK
  <2>2. account' \in [Accounts -> User \cup {Gone}] /\ worked' \subseteq Accounts
    BY <1>6, <2>1 DEF UpdateCommit, StaffTypeOK
  <2>3. QED
    BY <1>6, <2>2, WritesType DEF UpdateCommit, StaffTypeOK
<1>7. ASSUME NEW r \in Edits, NEW u \in Accounts, RemoveCheck(r, u) PROVE StaffTypeOK'
  <2>1. [op |-> "remove", user |-> u, fresh |-> TRUE] \in Edit
    BY DEF Edit
  <2>2. QED
    BY <1>7, <2>1, StartsType DEF RemoveCheck
<1>8. ASSUME NEW r \in Edits, RemoveCommit(r) PROVE StaffTypeOK'
  <2>1. account' \in [Accounts -> User \cup {Gone}] /\ worked' \subseteq Accounts
    BY <1>8 DEF RemoveCommit, StaffTypeOK
  <2>2. QED
    BY <1>8, <2>1, WritesType DEF RemoveCommit, StaffTypeOK
<1>9. ASSUME NEW r \in Edits, WriteFails(r) PROVE StaffTypeOK'
  BY <1>9 DEF WriteFails, StaffTypeOK, Edit
<1>10. ASSUME NEW u \in Accounts, Works(u) PROVE StaffTypeOK'
  BY <1>10 DEF Works, StaffTypeOK
<1>11. CASE UNCHANGED staffVars
  BY <1>11 DEF staffVars, StaffTypeOK
<1>12. QED
  BY <1>1, <1>2, <1>3, <1>4, <1>5, <1>6, <1>7, <1>8, <1>9, <1>10, <1>11 DEF StaffNext

\* Every account and every request in flight keeps its shape.
THEOREM StaffTyped == StaffSpec => []StaffTypeOK
BY InitType, NextType, PTL DEF StaffSpec

-----------------------------------------------------------------------------
(* Addresses and history *)

\* Only creations and saves write an address, and the index looks at both.
LEMMA NextUnique == StaffTypeOK /\ EmailsUnique /\ [StaffNext]_staffVars => EmailsUnique'
<1> SUFFICES ASSUME StaffTypeOK, EmailsUnique, [StaffNext]_staffVars PROVE EmailsUnique'
  OBVIOUS
<1>1. CASE UNCHANGED account
  BY <1>1 DEF EmailsUnique, Existing
<1>2. ASSUME NEW r \in Edits, NEW u \in Accounts, CreateCommit(r, u) PROVE EmailsUnique'
  BY <1>2 DEF CreateCommit, EmailsUnique, Existing, EmailFree, Holders, StaffTypeOK
<1>3. ASSUME NEW r \in Edits, UpdateCommit(r) PROVE EmailsUnique'
  BY <1>3 DEF UpdateCommit, EmailsUnique, Existing, EmailFree, Holders, StaffTypeOK
<1>4. ASSUME NEW r \in Edits, RemoveCommit(r) PROVE EmailsUnique'
  BY <1>4 DEF RemoveCommit, EmailsUnique, Existing, StaffTypeOK
<1>5. QED
  BY <1>1, <1>2, <1>3, <1>4
     DEF StaffNext, staffVars, RegisterCheck, CreateCheck, UpdateCheck, ProfileCheck, RemoveCheck,
         WriteFails, Works, Starts

\* Two accounts never share an address, whatever overlaps.
THEOREM EmailsStayUnique == StaffSpec => []EmailsUnique
<1>1. StaffInit => EmailsUnique
  BY DEF StaffInit, EmailsUnique, Existing, Gone
<1>2. QED
  BY <1>1, InitType, NextType, NextUnique, PTL DEF StaffSpec

LEMMA NextKept == StaffTypeOK /\ HistoryKeepsPeople /\ [StaffNext]_staffVars => HistoryKeepsPeople'
<1> SUFFICES ASSUME StaffTypeOK, HistoryKeepsPeople, [StaffNext]_staffVars PROVE HistoryKeepsPeople'
  OBVIOUS
<1>1. CASE UNCHANGED <<account, worked>>
  BY <1>1 DEF HistoryKeepsPeople, Existing
<1>2. ASSUME NEW r \in Edits, NEW u \in Accounts, CreateCommit(r, u) PROVE HistoryKeepsPeople'
  BY <1>2 DEF CreateCommit, HistoryKeepsPeople, Existing, StaffTypeOK
<1>3. ASSUME NEW r \in Edits, UpdateCommit(r) PROVE HistoryKeepsPeople'
  <2>1. editing[r].row \in User
    BY <1>3, EditShapes DEF UpdateCommit, StaffTypeOK
  <2>2. QED
    BY <1>3, <2>1, GoneIsNoUser DEF UpdateCommit, HistoryKeepsPeople, Existing, StaffTypeOK
<1>4. ASSUME NEW r \in Edits, RemoveCommit(r) PROVE HistoryKeepsPeople'
  BY <1>4 DEF RemoveCommit, HistoryKeepsPeople, Existing, Removable, StaffTypeOK
<1>5. ASSUME NEW u \in Accounts, Works(u) PROVE HistoryKeepsPeople'
  BY <1>5 DEF Works, HistoryKeepsPeople, Existing
<1>6. QED
  BY <1>1, <1>2, <1>3, <1>4, <1>5
     DEF StaffNext, staffVars, RegisterCheck, CreateCheck, UpdateCheck, ProfileCheck, RemoveCheck,
         WriteFails, Starts

\* Whoever sold, ran a shift or counted stock keeps an account, although
\* remove counts that work before, and apart from, its delete.
THEOREM PeopleAreKept == StaffSpec => []HistoryKeepsPeople
<1>1. StaffInit => HistoryKeepsPeople
  BY DEF StaffInit, HistoryKeepsPeople
<1>2. QED
  BY <1>1, InitType, NextType, NextKept, PTL DEF StaffSpec

-----------------------------------------------------------------------------
(* What requests in flight have read *)

\* A save that is not out of date changes only what it names, and neither
\* it nor such a removal takes the last administrator.
UnnamedKept(q) ==
  q.op = "save" /\ q.fresh =>
    \A f \in {"role", "status"} : f \notin q.named => q.row[f] = account[q.user][f]

LeavesAdmin(q) ==
  /\ q.op = "save" /\ q.fresh =>
       \/ q.row.role = "admin" /\ q.row.status = "active"
       \/ ActiveAdmins \ {q.user} # {}
       \/ ActiveAdmins = {}
  /\ q.op = "remove" /\ q.fresh => ActiveAdmins \ {q.user} # {}

ReadsHold == \A r \in Edits : UnnamedKept(editing[r]) /\ LeavesAdmin(editing[r])

LEMMA OneOfSeveral ==
  ASSUME NotLastAdmin, NEW u
  PROVE  ActiveAdmins \ {u} # {}
<1>1. SUFFICES ASSUME ActiveAdmins \ {u} = {} PROVE FALSE
  OBVIOUS
<1>2. ActiveAdmins = {} \/ ActiveAdmins = {u}
  BY <1>1
<1>3. Cardinality({}) = 0 /\ Cardinality({u}) = 1
  BY FS_EmptySet, FS_Singleton
<1>4. QED
  BY <1>2, <1>3 DEF NotLastAdmin

\* A step that leaves the accounts alone and starts one request keeps what
\* the others have read.
LEMMA StartReads ==
  ASSUME StaffTypeOK, ReadsHold, NEW r \in Edits, NEW q, Starts(r, q),
         UnnamedKept(q), LeavesAdmin(q)
  PROVE  ReadsHold'
BY DEF Starts, ReadsHold, UnnamedKept, LeavesAdmin, ActiveAdmins, StaffTypeOK

\* After a write nothing that others have read counts as fresh.
LEMMA WriteReads ==
  ASSUME StaffTypeOK, NEW r \in Edits, Writes(r)
  PROVE  ReadsHold'
<1>1. ASSUME NEW s \in Edits
      PROVE  editing'[s].op \in {"save", "remove"} => ~editing'[s].fresh
  <2>1. editing'[s] = IF s = r \/ editing[s] = NoEdit THEN NoEdit
                      ELSE [editing[s] EXCEPT !.fresh = FALSE]
    BY <1>1 DEF Writes
  <2>2. NoEdit.op = "idle"
    BY DEF NoEdit
  <2>3. editing[s] \in Edit
    BY DEF StaffTypeOK
  <2>4. QED
    BY <2>1, <2>2, <2>3, Outdating
<1>2. QED
  BY <1>1 DEF ReadsHold, UnnamedKept, LeavesAdmin

LEMMA NextReads == StaffTypeOK /\ ReadsHold /\ [StaffNext]_staffVars => ReadsHold'
<1> SUFFICES ASSUME StaffTypeOK, ReadsHold, [StaffNext]_staffVars PROVE ReadsHold'
  OBVIOUS
<1>1. ASSUME NEW r \in Edits, NEW e \in Emails, RegisterCheck(r, e) PROVE ReadsHold'
  BY <1>1, StartReads DEF RegisterCheck, UnnamedKept, LeavesAdmin
<1>2. ASSUME NEW r \in Edits, NEW row \in User, CreateCheck(r, row) PROVE ReadsHold'
  BY <1>2, StartReads DEF CreateCheck, UnnamedKept, LeavesAdmin
<1>3. ASSUME NEW r \in Edits, NEW u \in Accounts, CreateCommit(r, u) PROVE ReadsHold'
  BY <1>3, WriteReads DEF CreateCommit
<1>4. ASSUME NEW r \in Edits, NEW u \in Accounts, NEW role \in Roles \cup {Keep},
             NEW st \in UserStatus \cup {Keep}, NEW e \in Emails \cup {Keep},
             UpdateCheck(r, u, role, st, e)
      PROVE  ReadsHold'
  <2> DEFINE row == [role |-> Given(role, account[u].role),
                     status |-> Given(st, account[u].status),
                     email |-> Given(e, account[u].email)]
             named == (IF role = Keep THEN {} ELSE {"role"})
                        \cup (IF st = Keep THEN {} ELSE {"status"})
             q == [op |-> "save", user |-> u, fresh |-> TRUE, row |-> row, named |-> named]
  <2>1. UnnamedKept(q)
    BY DEF UnnamedKept, Given
  <2>2. account[u] \in User
    BY <1>4, ExistingUser DEF UpdateCheck
  <2>6. LeavesAdmin(q)
    <3>1. CASE u \notin ActiveAdmins
      BY <1>4, <3>1 DEF UpdateCheck, LeavesAdmin
    <3>2. CASE u \in ActiveAdmins /\ NotLastAdmin
      BY <3>2, OneOfSeveral DEF LeavesAdmin
    <3>3. CASE u \in ActiveAdmins /\ ~NotLastAdmin
      <4>1. account[u].role = "admin" /\ account[u].status = "active"
        BY <3>3 DEF ActiveAdmins
      <4>2. st # "blocked" /\ (role = Keep \/ role = "admin")
        BY <1>4, <3>3, <4>1 DEF UpdateCheck
      <4>3. row.role = "admin" /\ row.status = "active"
        BY <4>1, <4>2 DEF Given, Keep, UserStatus
      <4>4. QED
        BY <4>3 DEF LeavesAdmin
    <3>4. QED
      BY <3>1, <3>2, <3>3
  <2>7. Starts(r, q)
    BY <1>4 DEF UpdateCheck
  <2> HIDE DEF q
  <2>8. QED
    BY <2>1, <2>6, <2>7, StartReads
<1>5. ASSUME NEW r \in Edits, NEW u \in Accounts, NEW e \in Emails \cup {Keep},
             ProfileCheck(r, u, e)
      PROVE  ReadsHold'
  <2> DEFINE row == [account[u] EXCEPT !.email = Given(e, account[u].email)]
             q == [op |-> "save", user |-> u, fresh |-> TRUE, named |-> {}, row |-> row]
  <2>1. account[u] \in User
    BY <1>5, ExistingUser DEF ProfileCheck
  <2>2. row.role = account[u].role /\ row.status = account[u].status
    BY <2>1 DEF User
  <2>3. UnnamedKept(q)
    BY <2>2 DEF UnnamedKept
  <2>4. LeavesAdmin(q)
    BY <2>2 DEF LeavesAdmin, ActiveAdmins
  <2>5. Starts(r, q)
    BY <1>5 DEF ProfileCheck
  <2>6. QED
    BY <2>3, <2>4, <2>5, StartReads
<1>6. ASSUME NEW r \in Edits, UpdateCommit(r) PROVE ReadsHold'
  BY <1>6, WriteReads DEF UpdateCommit
<1>7. ASSUME NEW r \in Edits, NEW u \in Accounts, RemoveCheck(r, u) PROVE ReadsHold'
  BY <1>7, StartReads DEF RemoveCheck, UnnamedKept, LeavesAdmin
<1>8. ASSUME NEW r \in Edits, RemoveCommit(r) PROVE ReadsHold'
  BY <1>8, WriteReads DEF RemoveCommit
<1>9. ASSUME NEW r \in Edits, WriteFails(r) PROVE ReadsHold'
  BY <1>9 DEF WriteFails, ReadsHold, UnnamedKept, LeavesAdmin, ActiveAdmins, NoEdit, StaffTypeOK
<1>10. ASSUME NEW u \in Accounts, Works(u) PROVE ReadsHold'
  BY <1>10 DEF Works, ReadsHold, UnnamedKept, LeavesAdmin, ActiveAdmins
<1>11. CASE UNCHANGED staffVars
  BY <1>11 DEF staffVars, ReadsHold, UnnamedKept, LeavesAdmin, ActiveAdmins
<1>12. QED
  BY <1>1, <1>2, <1>3, <1>4, <1>5, <1>6, <1>7, <1>8, <1>9, <1>10, <1>11 DEF StaffNext

-----------------------------------------------------------------------------
(* The properties of the runs *)

LEMMA NextAdmin ==
  StaffTypeOK /\ ReadsHold /\ SomeAdminUnlessOverlap /\ [StaffNext]_staffVars
    => SomeAdminUnlessOverlap'
<1> SUFFICES ASSUME StaffTypeOK, ReadsHold, SomeAdminUnlessOverlap, [StaffNext]_staffVars
             PROVE  SomeAdminUnlessOverlap'
  OBVIOUS
<1>1. CASE UNCHANGED <<account, overlapped>>
  BY <1>1 DEF SomeAdminUnlessOverlap, ActiveAdmins
<1>2. ASSUME NEW r \in Edits, NEW u \in Accounts, CreateCommit(r, u)
      PROVE  SomeAdminUnlessOverlap'
  <2>1. ActiveAdmins \subseteq ActiveAdmins'
    BY <1>2 DEF CreateCommit, ActiveAdmins, StaffTypeOK, Gone
  <2>2. ~overlapped' => ~overlapped
    BY <1>2 DEF CreateCommit, Writes
  <2>3. QED
    BY <2>1, <2>2 DEF SomeAdminUnlessOverlap
<1>3. ASSUME NEW r \in Edits, UpdateCommit(r) PROVE SomeAdminUnlessOverlap'
  <2> DEFINE q == editing[r]
  <2>1. SUFFICES ASSUME ~overlapped' PROVE ActiveAdmins' # {}
    BY DEF SomeAdminUnlessOverlap
  <2>2. ~overlapped /\ q.fresh
    BY <1>3, <2>1 DEF UpdateCommit, Writes
  <2>3. ActiveAdmins # {} /\ LeavesAdmin(q)
    BY <2>2 DEF SomeAdminUnlessOverlap, ReadsHold
  <2>4. q.op = "save" /\ q.user \in Accounts /\ account' = [account EXCEPT ![q.user] = q.row]
    BY <1>3, EditShapes DEF UpdateCommit, StaffTypeOK
  <2>5. CASE q.row.role = "admin" /\ q.row.status = "active"
    BY <2>4, <2>5 DEF ActiveAdmins, StaffTypeOK
  <2>6. CASE ActiveAdmins \ {q.user} # {}
    <3>1. PICK v \in ActiveAdmins : v # q.user
      BY <2>6
    <3>2. v \in ActiveAdmins'
      BY <2>4, <3>1 DEF ActiveAdmins, StaffTypeOK
    <3>3. QED
      BY <3>2
  <2>7. QED
    BY <2>2, <2>3, <2>4, <2>5, <2>6 DEF LeavesAdmin
<1>4. ASSUME NEW r \in Edits, RemoveCommit(r) PROVE SomeAdminUnlessOverlap'
  <2> DEFINE q == editing[r]
  <2>1. SUFFICES ASSUME ~overlapped' PROVE ActiveAdmins' # {}
    BY DEF SomeAdminUnlessOverlap
  <2>2. q.fresh /\ q.op = "remove"
    BY <1>4, <2>1 DEF RemoveCommit, Writes
  <2>3. PICK v \in ActiveAdmins : v # q.user
    BY <2>2 DEF ReadsHold, LeavesAdmin
  <2>4. v \in ActiveAdmins'
    BY <1>4, <2>3 DEF RemoveCommit, ActiveAdmins, StaffTypeOK
  <2>5. QED
    BY <2>4
<1>5. QED
  BY <1>1, <1>2, <1>3, <1>4
     DEF StaffNext, staffVars, RegisterCheck, CreateCheck, UpdateCheck, ProfileCheck, RemoveCheck,
         WriteFails, Works, Starts

LEMMA InitReads == StaffInit => ReadsHold /\ SomeAdminUnlessOverlap
<1> SUFFICES ASSUME StaffInit PROVE ReadsHold /\ SomeAdminUnlessOverlap
  OBVIOUS
<1>1. ReadsHold
  BY DEF StaffInit, ReadsHold, UnnamedKept, LeavesAdmin, NoEdit
<1>2. FirstAdmin \in ActiveAdmins
  BY Seeded DEF StaffInit, ActiveAdmins
<1>3. QED
  BY <1>1, <1>2 DEF SomeAdminUnlessOverlap

\* The last administrator stays as long as no two requests overlap, for any
\* number of accounts (assertNotLastAdmin).
THEOREM SomeAdminStays == StaffSpec => []SomeAdminUnlessOverlap
BY InitType, InitReads, NextType, NextReads, NextAdmin, PTL DEF StaffSpec

\* The step property: a role or a status changes by name, or by an overlap.
ByName ==
  \A u \in Existing : \A f \in {"role", "status"} :
    account'[u] # Gone /\ account'[u][f] # account[u][f] =>
      \/ \E r \in Edits : editing[r].op = "save" /\ editing[r].user = u
                            /\ f \in editing[r].named /\ editing'[r] = NoEdit
      \/ overlapped'

LEMMA NextByName == StaffTypeOK /\ ReadsHold /\ [StaffNext]_staffVars => [ByName]_staffVars
<1> SUFFICES ASSUME StaffTypeOK, ReadsHold, [StaffNext]_staffVars PROVE ByName
  OBVIOUS
<1>1. CASE UNCHANGED account
  BY <1>1 DEF ByName
<1>2. ASSUME NEW r \in Edits, NEW v \in Accounts, CreateCommit(r, v) PROVE ByName
  BY <1>2 DEF CreateCommit, ByName, Existing, StaffTypeOK
<1>3. ASSUME NEW r \in Edits, UpdateCommit(r) PROVE ByName
  <2> DEFINE q == editing[r]
  <2> SUFFICES ASSUME NEW u \in Existing, NEW f \in {"role", "status"},
                      account'[u][f] # account[u][f], ~overlapped'
               PROVE  \E s \in Edits : editing[s].op = "save" /\ editing[s].user = u
                        /\ f \in editing[s].named /\ editing'[s] = NoEdit
    BY DEF ByName
  <2>1. q.op = "save" /\ q.fresh /\ q.user \in Accounts
    BY <1>3, EditShapes DEF UpdateCommit, Writes, StaffTypeOK
  <2>2. u = q.user /\ account'[u] = q.row
    BY <1>3, <2>1 DEF UpdateCommit, Existing, StaffTypeOK
  <2>3. f \in q.named
    BY <2>1, <2>2 DEF ReadsHold, UnnamedKept
  <2>4. editing'[r] = NoEdit
    BY <1>3 DEF UpdateCommit, Writes
  <2>5. QED
    BY <2>1, <2>2, <2>3, <2>4
<1>4. ASSUME NEW r \in Edits, RemoveCommit(r) PROVE ByName
  BY <1>4 DEF RemoveCommit, ByName, Existing, StaffTypeOK
<1>5. QED
  BY <1>1, <1>2, <1>3, <1>4
     DEF StaffNext, staffVars, RegisterCheck, CreateCheck, UpdateCheck, ProfileCheck, RemoveCheck,
         WriteFails, Works, Starts

\* Roles and statuses change by name, unless a save follows a write it has
\* not seen (update, updateProfile).
THEOREM RightsChangeByName == StaffSpec => RightsChangeByNameUnlessOverlap
BY InitType, InitReads, NextType, NextReads, NextByName, PTL
   DEF StaffSpec, ByName, RightsChangeByNameUnlessOverlap
=============================================================================
