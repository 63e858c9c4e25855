------------------------------ MODULE Sessions ------------------------------
(***************************************************************************)
(* Sign-in, refresh-token rotation, second factor, password reset and      *)
(* revocation (auth/auth.service.ts, auth/token.service.ts,                *)
(* common/guards/jwt-auth.guard.ts).                                       *)
(*                                                                         *)
(* Grain.  Redis executes single commands; a handler is a sequence of      *)
(* them, and other handlers, or a failure of this one, come in between.    *)
(* Each action is one command that changes something, with the reads just  *)
(* before it.  Whether a password or a code is right is an input; refresh  *)
(* tokens outlive the modelled time, access tokens do not.                 *)
(***************************************************************************)
EXTENDS Integers, FiniteSets

CONSTANTS
  Users,
  Jtis,             \* ids of token pairs
  Tickets,          \* ids of second-factor challenges and reset tokens
  Requests,         \* the requests handled in the modelled time
  TwoFactorEnabled, \* AUTH_2FA_ENABLED
  PerSecond,        \* clock ticks in a second
  AccessTtl,        \* JWT_ACCESS_TTL_SECONDS
  LastTick          \* bound on the clock

ASSUME Clock == PerSecond \in Nat \ {0} /\ AccessTtl \in Nat \ {0} /\ LastTick \in Nat
ASSUME Configuration == TwoFactorEnabled \in BOOLEAN

VARIABLES
  clock,
  status,       \* users.status
  required,     \* users whose role needs a second factor; roles do not change
  totp,         \* users.totp_enabled
  pair,         \* token pairs signed so far
  live,         \* auth:refresh:<jti> keys
  index,        \* auth:refresh-user:<user> sets
  revokedAt,    \* auth:revoke:<user>
  ticket,       \* auth:2fa:<id> and auth:reset:<token> keys
  pending,      \* requests being handled
  blockedAt,    \* history: when each user was last blocked
  orphans,      \* history: pairs indexed between the read and the delete
                \* of one sweep
  forked        \* history: a request used a refresh token that another
                \* one had revoked since it was verified

store   == <<live, index, revokedAt>>
history == <<blockedAt, orphans, forked>>
vars    == <<clock, status, required, totp, pair, store, ticket, pending, history>>

Never    == -1
NoPair   == [user |-> "none"]
NoTicket == [kind |-> "none"]
Idle     == [op |-> "idle"]
Done     == [op |-> "done"]
NoOrigin == "none"

\* The marks for "none" are no ids.
ASSUME NoPairIds == NoOrigin \notin Jtis /\ NoPair.user \notin Users

Ticks == 0..LastTick
Pair  == [user : Users, signed : Ticks, origin : Jtis, handed : BOOLEAN, late : BOOLEAN]
Ticket == [kind : {"verify", "enroll", "reset"}, user : Users]

\* "late" in a request: its user was blocked after it checked their status.
Request ==
  {Idle, Done}
  \cup [op : {"issue"}, user : Users, from : Jtis \cup {NoOrigin}, late : BOOLEAN]
  \cup [op : {"list"}, user : Users, jti : Jtis]
  \cup [op : {"revoke", "unlist"}, user : Users, jti : Jtis, renew : BOOLEAN, late : BOOLEAN]
  \cup [op : {"change"}, user : Users]
  \cup [op : {"sweep"}, user : Users, seen : SUBSET Jtis, before : SUBSET Jtis]
  \cup [op : {"stamp"}, user : Users]
  \cup [op : {"take"}, id : Tickets, was : Ticket]

TypeOK ==
  /\ clock \in Ticks
  /\ status \in [Users -> {"active", "blocked"}]
  /\ required \subseteq Users
  /\ totp \in [Users -> BOOLEAN]
  /\ pair \in [Jtis -> Pair \cup {NoPair}]
  /\ live \subseteq Jtis
  /\ index \in [Users -> SUBSET Jtis]
  /\ revokedAt \in [Users -> Ticks \cup {Never}]
  /\ ticket \in [Tickets -> Ticket \cup {NoTicket}]
  /\ pending \in [Requests -> Request]
  /\ blockedAt \in [Users -> Ticks \cup {Never}]
  /\ orphans \subseteq Jtis
  /\ forked \in BOOLEAN

Init ==
  /\ clock = 0
  /\ status = [u \in Users |-> "active"]
  /\ required \in SUBSET Users
  /\ totp = [u \in Users |-> FALSE]
  /\ pair = [j \in Jtis |-> NoPair]
  /\ live = {}
  /\ index = [u \in Users |-> {}]
  /\ revokedAt = [u \in Users |-> Never]
  /\ ticket = [t \in Tickets |-> NoTicket]
  /\ pending = [r \in Requests |-> Idle]
  /\ blockedAt = [u \in Users |-> Never]
  /\ orphans = {} /\ forked = FALSE

Handed(u) == {j \in Jtis : pair[j].user = u /\ pair[j].handed}
Second(t) == t \div PerSecond

-----------------------------------------------------------------------------
(* JwtAuthGuard *)

SecondsCompared(iat, at) == iat < Second(at)   \* mutant of Revoked

\* iat is in whole seconds, the revocation in milliseconds.
Revoked(iat, at) == at # Never /\ iat * PerSecond < at

\* answered: whether Redis is there to read the revocation from; without it
\* the guard takes the token as it is.
Accepted(j, answered) ==
  LET p == pair[j]
      iat == Second(p.signed)
  IN  /\ Second(clock) < iat + AccessTtl
      /\ answered => ~Revoked(iat, revokedAt[p.user])

-----------------------------------------------------------------------------
(* TokenService, command by command *)

Proceeds(r, next) == pending' = [pending EXCEPT ![r] = next]
Answers(r)        == Proceeds(r, Done)

\* issueTokenPair signs both tokens and stores the refresh token,
SignPair(r, j) ==
  /\ pending[r].op = "issue"
  /\ pair[j] = NoPair
  /\ pair' = [pair EXCEPT ![j] =
       [user |-> pending[r].user, signed |-> clock, handed |-> FALSE,
        origin |-> IF pending[r].from = NoOrigin THEN j ELSE pending[r].from,
        late |-> pending[r].late]]
  /\ live' = live \cup {j}
  /\ Proceeds(r, [op |-> "list", user |-> pending[r].user, jti |-> j])
  /\ UNCHANGED <<clock, required, status, totp, index, revokedAt, ticket, history>>

IndexLatest(u, j) == {j}   \* mutant of Listed: the list overwritten

\* then lists it under the user (the list lives as long as its newest
\* entry) and answers with the pair.
Listed(u, j) == index[u] \cup {j}

ListPair(r) ==
  LET u == pending[r].user
      j == pending[r].jti
  IN
  /\ pending[r].op = "list"
  /\ index' = [index EXCEPT ![u] = Listed(u, j)]
  /\ pair' = [pair EXCEPT ![j].handed = TRUE]
  /\ Answers(r)
  /\ UNCHANGED <<clock, required, status, totp, live, revokedAt, ticket, history>>

Undeleted(j) == live   \* mutant of WithoutKey

WithoutKey(j) == live \ {j}

\* revokeRefresh deletes the key and then the entry of the list.
RevokeKey(r) ==
  /\ pending[r].op = "revoke"
  /\ live' = WithoutKey(pending[r].jti)
  /\ forked' = (forked \/ pending[r].jti \notin live)
  /\ Proceeds(r, [pending[r] EXCEPT !.op = "unlist"])
  /\ UNCHANGED <<clock, required, status, totp, pair, index, revokedAt, ticket,
                 blockedAt, orphans>>

RevokeListed(r) ==
  LET q == pending[r] IN
  /\ q.op = "unlist"
  /\ index' = [index EXCEPT ![q.user] = @ \ {q.jti}]
  /\ Proceeds(r, IF q.renew
       THEN [op |-> "issue", user |-> q.user, from |-> pair[q.jti].origin, late |-> q.late]
       ELSE Done)
  /\ UNCHANGED <<clock, required, status, totp, pair, live, revokedAt, ticket, history>>

\* revokeAllSessions reads the list,
SweepRead(r) ==
  LET u == pending[r].user IN
  /\ pending[r].op = "change"
  /\ Proceeds(r, [op |-> "sweep", user |-> u, seen |-> index[u], before |-> Handed(u)])
  /\ UNCHANGED <<clock, required, status, totp, pair, store, ticket, history>>

OneKey(seen) == IF seen = {} THEN live ELSE live \ {CHOOSE j \in seen : TRUE}  \* mutant of Swept

\* deletes the keys it read and the whole list,
Swept(seen) == live \ seen

SweepDelete(r) ==
  LET q == pending[r] IN
  /\ q.op = "sweep"
  /\ live' = Swept(q.seen)
  /\ orphans' = orphans \cup (index[q.user] \ q.seen)
  /\ index' = [index EXCEPT ![q.user] = {}]
  /\ Proceeds(r, [op |-> "stamp", user |-> q.user])
  /\ UNCHANGED <<clock, required, status, totp, pair, revokedAt, ticket,
                 blockedAt, forked>>

\* and outdates the access tokens.
SweepStamp(r) ==
  LET q == pending[r] IN
  /\ q.op = "stamp"
  /\ revokedAt' = [revokedAt EXCEPT ![q.user] = clock]
  /\ Answers(r)
  /\ UNCHANGED <<clock, required, status, totp, pair, live, index, ticket,
                 history>>

-----------------------------------------------------------------------------
(* AuthService *)

Begins(r, request) ==
  /\ pending[r] = Idle
  /\ Proceeds(r, request)
  /\ UNCHANGED <<clock, required, status, totp, pair, store, ticket, history>>

Issue(u) == [op |-> "issue", user |-> u, from |-> NoOrigin, late |-> FALSE]

NeedsCode(u)   == TwoFactorEnabled /\ totp[u]
NeedsEnroll(u) == TwoFactorEnabled /\ u \in required /\ ~totp[u]

\* login with the right password, when no second factor is due.
Login(r, u) ==
  /\ status[u] = "active"
  /\ ~NeedsCode(u) /\ ~NeedsEnroll(u)
  /\ Begins(r, Issue(u))

SaveTicket(t, kind, u) ==
  /\ ticket[t] = NoTicket
  /\ ticket' = [ticket EXCEPT ![t] = [kind |-> kind, user |-> u]]
  /\ UNCHANGED <<clock, required, status, totp, pair, store, pending, history>>

\* login otherwise; setupTotp, by a signed-in user; forgotPassword.
LoginChallenge(u, t) ==
  /\ status[u] = "active"
  /\ \/ NeedsCode(u) /\ SaveTicket(t, "verify", u)
     \/ NeedsEnroll(u) /\ SaveTicket(t, "enroll", u)

SetupTotp(u, t) ==
  /\ TwoFactorEnabled
  /\ \E j \in Handed(u), answered \in BOOLEAN : Accepted(j, answered)
  /\ SaveTicket(t, "enroll", u)

ForgotPassword(u, t) ==
  /\ status[u] = "active"
  /\ SaveTicket(t, "reset", u)

\* takeTotpChallenge and takePasswordReset get the value, then delete the
\* key; a ticket also runs out on its own.
TakeGet(r, t) ==
  /\ ticket[t] # NoTicket
  /\ Begins(r, [op |-> "take", id |-> t, was |-> ticket[t]])

AfterTake(r) == ticket' = [ticket EXCEPT ![pending[r].id] = NoTicket]

\* confirmTwoFactor: the challenge is gone whether the code is right or not.
Confirm(r) ==
  LET u == pending[r].was.user IN
  /\ pending[r].op = "take" /\ pending[r].was.kind \in {"verify", "enroll"}
  /\ AfterTake(r)
  /\ \/ Answers(r) /\ UNCHANGED totp
     \/ /\ TwoFactorEnabled /\ status[u] = "active"
        /\ pending[r].was.kind = "verify" => totp[u]
        /\ totp' = [totp EXCEPT ![u] = TRUE]
        /\ Proceeds(r, Issue(u))
  /\ UNCHANGED <<clock, required, status, pair, store, history>>

\* enableTotp, for the signed-in user the challenge belongs to.
EnableTotp(r) ==
  LET u == pending[r].was.user IN
  /\ pending[r].op = "take" /\ pending[r].was.kind = "enroll"
  /\ TwoFactorEnabled
  /\ AfterTake(r)
  /\ totp' = [totp EXCEPT ![u] = TRUE]
  /\ Answers(r)
  /\ UNCHANGED <<clock, required, status, pair, store, history>>

DisableTotp(u) ==
  /\ u \notin required
  /\ totp[u] /\ \E j \in Handed(u), answered \in BOOLEAN : Accepted(j, answered)
  /\ totp' = [totp EXCEPT ![u] = FALSE]
  /\ UNCHANGED <<clock, required, status, pair, store, ticket, pending, history>>

\* resetPassword goes on to set the password and sweep the sessions.
ResetPassword(r) ==
  /\ pending[r].op = "take" /\ pending[r].was.kind = "reset"
  /\ AfterTake(r)
  /\ Proceeds(r, [op |-> "change", user |-> pending[r].was.user])
  /\ UNCHANGED <<clock, required, status, totp, pair, store, history>>

\* changePassword by an administrator or the user, and logoutAll.
SignOutEverywhere(r, u) == Begins(r, [op |-> "change", user |-> u])

AnyStatus(u) == TRUE   \* mutant of MayRefresh

MayRefresh(u) == status[u] = "active"

\* refresh and logout verify the key first.
Refresh(r, j) ==
  /\ j \in live /\ pair[j].handed
  /\ MayRefresh(pair[j].user)
  /\ Begins(r, [op |-> "revoke", user |-> pair[j].user, jti |-> j, renew |-> TRUE, late |-> FALSE])

Logout(r, j) ==
  /\ j \in live /\ pair[j].handed
  /\ Begins(r, [op |-> "revoke", user |-> pair[j].user, jti |-> j, renew |-> FALSE, late |-> FALSE])

\* Blocking an account leaves its sessions alone.
Block(u) ==
  /\ status[u] = "active"
  /\ status' = [status EXCEPT ![u] = "blocked"]
  /\ blockedAt' = [blockedAt EXCEPT ![u] = clock]
  /\ pending' = [r \in Requests |->
       IF pending[r].op \in {"issue", "revoke", "unlist"} /\ pending[r].user = u
       THEN [pending[r] EXCEPT !.late = TRUE] ELSE pending[r]]
  /\ UNCHANGED <<clock, required, totp, pair, store, ticket, orphans, forked>>

Unblock(u) ==
  /\ status[u] = "blocked"
  /\ status' = [status EXCEPT ![u] = "active"]
  /\ UNCHANGED <<clock, required, totp, pair, store, ticket, pending, history>>

\* A Redis or database error, or the end of the process, leaves a request
\* where it was.
Fails(r) ==
  /\ pending[r] \notin {Idle, Done}
  /\ Answers(r)
  /\ UNCHANGED <<clock, required, status, totp, pair, store, ticket, history>>

TicketExpires(t) ==
  /\ ticket[t] # NoTicket
  /\ ticket' = [ticket EXCEPT ![t] = NoTicket]
  /\ UNCHANGED <<clock, required, status, totp, pair, store, pending, history>>

Tick ==
  /\ clock < LastTick
  /\ clock' = clock + 1
  /\ UNCHANGED <<required, status, totp, pair, store, ticket, pending, history>>

Next ==
  \/ \E r \in Requests :
       \/ \E j \in Jtis : SignPair(r, j) \/ Refresh(r, j) \/ Logout(r, j)
       \/ ListPair(r) \/ RevokeKey(r) \/ RevokeListed(r)
       \/ SweepRead(r) \/ SweepDelete(r) \/ SweepStamp(r)
       \/ \E u \in Users : Login(r, u) \/ SignOutEverywhere(r, u)
       \/ \E t \in Tickets : TakeGet(r, t)
       \/ Confirm(r) \/ EnableTotp(r) \/ ResetPassword(r)
       \/ Fails(r)
  \/ \E u \in Users, t \in Tickets :
       LoginChallenge(u, t) \/ SetupTotp(u, t) \/ ForgotPassword(u, t)
  \/ \E u \in Users : DisableTotp(u) \/ Block(u) \/ Unblock(u)
  \/ \E t \in Tickets : TicketExpires(t)
  \/ Tick

Spec == Init /\ [][Next]_vars

-----------------------------------------------------------------------------
(* Properties *)

\* revokeAllSessions: the sweep of a logout-everywhere or password change
\* kills every refresh token the user held when it began, but those listed
\* just between the read and the delete of some sweep - this one or any
\* earlier one, which then escape all later ones too.
SignedOutUnlessOverlap ==
  [][\A r \in Requests :
       pending[r].op = "sweep" /\ pending'[r].op = "stamp" =>
         pending[r].before \cap live' \subseteq orphans']_vars

\* Why: every refresh token a user holds is on the list sweeps read.
HeldAreListed ==
  \A j \in live : pair[j].handed => j \in index[pair[j].user] \cup orphans

\* JwtAuthGuard, while Redis answers: no access token signed before the last completed
\* revocation is accepted, although tokens carry whole seconds and the
\* revocation milliseconds; one signed in a later second is accepted until
\* it runs out.
RevocationExact ==
  \A j \in Jtis : pair[j] # NoPair =>
    LET at == revokedAt[pair[j].user] IN
    /\ pair[j].signed < at => ~Accepted(j, TRUE)
    /\ Second(at) < Second(pair[j].signed) /\ Second(clock) < Second(pair[j].signed) + AccessTtl
         => Accepted(j, TRUE)

\* A blocked user can act for at most one access-token lifetime more: no
\* chain of refreshes, codes or logins prolongs it, whether Redis is there
\* to tell the guard of revocations or not.  Requests that had
\* checked the account before it was blocked are the exception.
BlockedRunsOut ==
  \A u \in Users : status[u] = "blocked" =>
    \A j \in Handed(u), answered \in BOOLEAN : Accepted(j, answered) /\ ~pair[j].late =>
      clock < blockedAt[u] + AccessTtl * PerSecond

\* One sign-in has one usable refresh token at a time, unless two requests
\* used the same token at once.
OneSuccessorUnlessFork ==
  ~forked => \A j, k \in live : pair[j].origin = pair[k].origin => j = k
=============================================================================
