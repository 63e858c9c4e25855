------------------------------- MODULE Staff -------------------------------
(***************************************************************************)
(* Staff accounts: registration, administration of roles and statuses,     *)
(* profile edits and removal (users/users.service.ts, and register and     *)
(* updateProfile of auth/auth.service.ts).                                 *)
(*                                                                         *)
(* Grain.  update and remove read the account and count administrators in  *)
(* a ...Check action and write in a ...Commit action, with other requests  *)
(* in between; save() writes the whole row that was read.  Any role other  *)
(* than admin is "staff"; names, phones and locations are left out.        *)
(*                                                                         *)
(* No name is one of Sessions, so that a module can extend both.           *)
(***************************************************************************)
EXTENDS Naturals, FiniteSets

CONSTANTS
  Accounts,       \* account ids
  Emails,         \* addresses
  FirstAdmin,     \* the administrator the database is seeded with
  FirstEmail,
  Edits           \* slots for requests between their reads and their write

ASSUME FiniteAccounts == IsFiniteSet(Accounts)
ASSUME Seeded == FirstAdmin \in Accounts /\ FirstEmail \in Emails

VARIABLES
  account,        \* users rows
  worked,         \* users named by sales, shifts or stock checks
  editing,        \* requests between their reads and their write
  overlapped      \* history: some write followed another request's write
                  \* that came after its own reads

staffVars == <<account, worked, editing, overlapped>>

Gone   == [role |-> "gone", status |-> "gone", email |-> "gone"]
NoEdit == [op |-> "idle", fresh |-> TRUE]
Roles  == {"admin", "staff"}
UserStatus == {"active", "blocked"}
User   == [role : Roles, status : UserStatus, email : Emails]
Keep   == "keep"      \* a field the request does not name

Edit ==
  {NoEdit}
    \cup [op : {"create"}, row : User, fresh : BOOLEAN]
    \cup [op : {"save"}, user : Accounts, row : User,
          named : SUBSET {"role", "status"}, fresh : BOOLEAN]
    \cup [op : {"remove"}, user : Accounts, fresh : BOOLEAN]

StaffTypeOK ==
  /\ account \in [Accounts -> User \cup {Gone}]
  /\ worked \subseteq Accounts
  /\ editing \in [Edits -> Edit]
  /\ overlapped \in BOOLEAN

StaffInit ==
  /\ account = [u \in Accounts |-> IF u = FirstAdmin
       THEN [role |-> "admin", status |-> "active", email |-> FirstEmail]
       ELSE Gone]
  /\ worked = {}
  /\ editing = [r \in Edits |-> NoEdit]
  /\ overlapped = FALSE

Existing     == {u \in Accounts : account[u] # Gone}
ActiveAdmins == {u \in Accounts : account[u].role = "admin" /\ account[u].status = "active"}
Holders(e)   == {u \in Existing : account[u].email = e}

-----------------------------------------------------------------------------
Starts(r, request) ==
  /\ editing[r] = NoEdit
  /\ editing' = [editing EXCEPT ![r] = request]
  /\ UNCHANGED <<account, worked, overlapped>>

\* A request answers; if it wrote, what the others have read is out of date.
Writes(r) ==
  /\ editing' = [q \in Edits |->
       IF q = r \/ editing[q] = NoEdit THEN NoEdit
       ELSE [editing[q] EXCEPT !.fresh = FALSE]]
  /\ overlapped' = (overlapped \/ ~editing[r].fresh)

\* users.email is unique.
EmailFree(e, others) == Holders(e) \cap others = {}

\* register looks the address up first; create by an administrator relies
\* on the index alone.
RegisterCheck(r, e) ==
  /\ Holders(e) = {}
  /\ Starts(r, [op |-> "create", fresh |-> TRUE,
                row |-> [role |-> "staff", status |-> "active", email |-> e]])

CreateCheck(r, row) ==
  /\ ActiveAdmins # {}
  /\ Starts(r, [op |-> "create", row |-> row, fresh |-> TRUE])

CreateCommit(r, u) ==
  /\ editing[r].op = "create"
  /\ account[u] = Gone /\ u \notin worked
  /\ EmailFree(editing[r].row.email, Accounts)
  /\ account' = [account EXCEPT ![u] = editing[r].row]
  /\ Writes(r)
  /\ UNCHANGED worked

CountsBlocked ==   \* mutant of NotLastAdmin
  Cardinality({u \in Existing : account[u].role = "admin"}) > 1

\* assertNotLastAdmin
NotLastAdmin == Cardinality(ActiveAdmins) > 1

\* A field the request leaves out keeps its value.
Given(field, old) == IF field = Keep THEN old ELSE field

\* update: status first, then role, each with its own check.
UpdateCheck(r, u, role, status, e) ==
  LET old == account[u] IN
  /\ ActiveAdmins # {}
  /\ u \in Existing
  /\ e # Keep => Holders(e) \subseteq {u}
  /\ status = "blocked" /\ old.role = "admin" /\ old.status # "blocked" => NotLastAdmin
  /\ role # Keep /\ old.role = "admin" /\ role # "admin" => NotLastAdmin
  /\ Starts(r, [op |-> "save", user |-> u, fresh |-> TRUE,
                row |-> [role |-> Given(role, old.role),
                         status |-> Given(status, old.status),
                         email |-> Given(e, old.email)],
                named |-> (IF role = Keep THEN {} ELSE {"role"})
                            \cup (IF status = Keep THEN {} ELSE {"status"})])

\* mutant of ProfileCheck: an edited profile is made active again.
ProfileReset(r, u, e) ==
  /\ u \in Existing
  /\ e # Keep => Holders(e) \subseteq {u}
  /\ Starts(r, [op |-> "save", user |-> u, fresh |-> TRUE, named |-> {},
                row |-> [account[u] EXCEPT !.status = "active",
                                           !.email = Given(e, account[u].email)]])

\* updateProfile: one's own address and names, through the same save; the
\* administrator's check of the previous action does not apply.
ProfileCheck(r, u, e) ==
  /\ u \in Existing
  /\ e # Keep => Holders(e) \subseteq {u}
  /\ Starts(r, [op |-> "save", user |-> u, fresh |-> TRUE, named |-> {},
                row |-> [account[u] EXCEPT !.email = Given(e, account[u].email)]])

\* The row has no default password hash, so save() cannot insert it again.
UpdateCommit(r) ==
  LET u == editing[r].user IN
  /\ editing[r].op = "save"
  /\ u \in Existing
  /\ EmailFree(editing[r].row.email, Accounts \ {u})
  /\ account' = [account EXCEPT ![u] = editing[r].row]
  /\ Writes(r)
  /\ UNCHANGED worked

\* remove: not oneself, not the last administrator, and nobody with sales,
\* shifts or stock checks.
RemoveCheck(r, u) ==
  /\ u \in Existing
  /\ ActiveAdmins \ {u} # {}
  /\ account[u].role = "admin" => NotLastAdmin
  /\ u \notin worked
  /\ Starts(r, [op |-> "remove", user |-> u, fresh |-> TRUE])

\* sales, shifts and stock_checks restrict the removal of a user.
Removable(u) == u \notin worked

RemoveCommit(r) ==
  LET u == editing[r].user IN
  /\ editing[r].op = "remove"
  /\ Removable(u)
  /\ account' = [account EXCEPT ![u] = Gone]
  /\ Writes(r)
  /\ UNCHANGED worked

\* The database refuses the write of a request.
WriteFails(r) ==
  /\ \/ /\ editing[r].op = "create"
        /\ ~EmailFree(editing[r].row.email, Accounts)
     \/ /\ editing[r].op = "save"
        /\ editing[r].user \in Existing =>
             ~EmailFree(editing[r].row.email, Accounts \ {editing[r].user})
     \/ editing[r].op = "remove" /\ ~Removable(editing[r].user)
  /\ editing' = [editing EXCEPT ![r] = NoEdit]
  /\ UNCHANGED <<account, worked, overlapped>>

\* A user opens a shift, makes a sale or counts stock.
Works(u) ==
  /\ u \in Existing
  /\ worked' = worked \cup {u}
  /\ UNCHANGED <<account, editing, overlapped>>

StaffNext ==
  \/ \E r \in Edits :
       \/ \E e \in Emails : RegisterCheck(r, e)
       \/ \E row \in User : CreateCheck(r, row)
       \/ \E u \in Accounts : CreateCommit(r, u)
       \/ \E u \in Accounts, role \in Roles \cup {Keep},
             status \in UserStatus \cup {Keep}, e \in Emails \cup {Keep} :
            UpdateCheck(r, u, role, status, e)
       \/ \E u \in Accounts, e \in Emails \cup {Keep} : ProfileCheck(r, u, e)
       \/ UpdateCommit(r)
       \/ \E u \in Accounts : RemoveCheck(r, u)
       \/ RemoveCommit(r)
       \/ WriteFails(r)
  \/ \E u \in Accounts : Works(u)

StaffSpec == StaffInit /\ [][StaffNext]_staffVars

-----------------------------------------------------------------------------
(* Properties *)

\* The system is left without an active administrator only when requests
\* overlap: one by one, no sequence of promotions, demotions, blocks,
\* removals and profile edits gets past assertNotLastAdmin.
SomeAdminUnlessOverlap == ~overlapped => ActiveAdmins # {}

\* A role or a status changes only through a request that names it.  Where
\* requests overlap, save() writes the old row back: a profile edit undoes
\* the block or the demotion that an administrator made after its read.
RightsChangeByNameUnlessOverlap ==
  [][\A u \in Existing : \A f \in {"role", "status"} :
       account'[u] # Gone /\ account'[u][f] # account[u][f] =>
         \/ \E r \in Edits : editing[r].op = "save" /\ editing[r].user = u
                               /\ f \in editing[r].named /\ editing'[r] = NoEdit
         \/ overlapped']_staffVars

\* Two accounts never share an address, although every handler that looks
\* it up does so before, and apart from, its write.
EmailsUnique == \A u, v \in Existing : account[u].email = account[v].email => u = v

\* People who sold, ran a shift or counted stock keep their account, also
\* when the work falls between the counts of remove and its delete.
HistoryKeepsPeople == worked \subseteq Existing
=============================================================================
