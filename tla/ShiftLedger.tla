----------------------------- MODULE ShiftLedger -----------------------------
(***************************************************************************)
(* What the till promises a shop owner, without drafts, items or requests: *)
(* every receipt is rung up at most once and on an open shift, is reversed *)
(* at most once and only while its shift is open, and at every moment each *)
(* drawer total is the sum of the receipts that stand.  Closing a shift    *)
(* freezes its totals and its receipts for good.                           *)
(***************************************************************************)
EXTENDS Sums

CONSTANTS Shifts, Sales

VARIABLES
  stage,    \* "new", "open" or "closed", for each shift
  entry,    \* the ledger entry of each receipt, if it has one
  totals    \* cash and card total of each shift

ledger == <<stage, entry, totals>>

PaymentMethods == {"cash", "card"}
Empty == [kind |-> "none"]
Entry == [kind : {"rung", "reversed"}, shift : Shifts,
          method : PaymentMethods, amount : Nat \ {0}]

LedgerTypeOK ==
  /\ stage \in [Shifts -> {"new", "open", "closed"}]
  /\ entry \in [Sales -> Entry \cup {Empty}]
  /\ totals \in [Shifts -> [PaymentMethods -> Nat]]

\* What receipt s adds to the total of method m on shift h.
Standing(e, h, m) ==
  [s \in Sales |-> IF e[s].kind = "rung" /\ e[s].shift = h /\ e[s].method = m
                   THEN e[s].amount ELSE 0]

Counted(e) == [h \in Shifts |-> [m \in PaymentMethods |-> SumOver(Standing(e, h, m))]]

LedgerInit ==
  /\ stage = [h \in Shifts |-> "new"]
  /\ entry = [s \in Sales |-> Empty]
  /\ totals = Counted(entry)

OpenShift(h) ==
  /\ stage[h] = "new"
  /\ stage' = [stage EXCEPT ![h] = "open"]
  /\ UNCHANGED <<entry, totals>>

CloseShift(h) ==
  /\ stage[h] = "open"
  /\ stage' = [stage EXCEPT ![h] = "closed"]
  /\ UNCHANGED <<entry, totals>>

\* A receipt for any positive amount, by either method.
Ring(s, h) ==
  /\ stage[h] = "open"
  /\ entry[s] = Empty
  /\ entry'[s] \in Entry /\ entry'[s].kind = "rung" /\ entry'[s].shift = h
  /\ entry' = [entry EXCEPT ![s] = entry'[s]]
  /\ totals' = Counted(entry')
  /\ UNCHANGED stage

Reverse(s) ==
  /\ entry[s].kind = "rung"
  /\ stage[entry[s].shift] = "open"
  /\ entry' = [entry EXCEPT ![s].kind = "reversed"]
  /\ totals' = Counted(entry')
  /\ UNCHANGED stage

LedgerNext ==
  \/ \E h \in Shifts : OpenShift(h) \/ CloseShift(h)
  \/ \E s \in Sales, h \in Shifts : Ring(s, h)
  \/ \E s \in Sales : Reverse(s)

LedgerSpec == LedgerInit /\ [][LedgerNext]_ledger
=============================================================================
