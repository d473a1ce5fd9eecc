------------------------- MODULE FinanceDeskProofs ---------------------------
(***************************************************************************)
(* The pages about money, for any number of accounts, payees, payouts,      *)
(* creators, videos, months, amounts, orders, payments and calls under way. *)
(*                                                                          *)
(* The payouts (PayoutDesk): a role's default account is unique and can be  *)
(* used (DefaultIsUsable, inductive by itself); a payout is one order at    *)
(* Payoneer (PaidOnce).  The strengthening PInv ties a reference to its row *)
(* on every way it takes: the row was committed before a call carries its   *)
(* reference (Carried), and an order at Payoneer is of the row that still   *)
(* has its reference (Ordered).  Nothing writes ref after create_payout.    *)
(*                                                                          *)
(* The statements (RevenueDesk): both results come from the row locks: as   *)
(* long as a transaction is under way, what it has read of the statement    *)
(* and of the settlements is still so (RInv).                               *)
(*                                                                          *)
(* The sale of a plan (PlanShop): what is credited was agreed to, once for  *)
(* an order, and no charge is forgotten.  ShopInv says that a payment which *)
(* may still be charged, or was reported, is the one its order remembers    *)
(* (Remembered, unless Telegram has an approval the server lost), and that  *)
(* an order is paid exactly when one of its payments was credited with its  *)
(* price (Worth), which a repeated report finds again.                      *)
(***************************************************************************)
EXTENDS PayoutDesk, RevenueDesk, PlanShop, FiniteSetTheorems, TLAPS

(* The payouts                                                              *)

States == Terminal \cup {"unknown", "pending", "returned"}
Statuses == Terminal \cup {"submitting", "pending"}
PayoutRows == [status : Statuses, payee : Payees, ref : Refs]
Calls == [payout : Payouts, ref : Refs, phase : {"ask", "write"}, form : BOOLEAN]
Checks == [payout : Payouts, read : Statuses, state : States]

(* The types that the argument uses, by component. *)
RowTypes == payout \in [Payouts -> {NoPayout} \cup PayoutRows]
OrderTypes == order \in [Refs -> [state : States, payout : Payouts \cup {None}]]
CallTypes == sending \subseteq Calls /\ checks \subseteq Checks

Carried ==
    /\ \A c \in sending : c.payout \in Created /\ payout[c.payout].ref = c.ref
    /\ \A c \in checks : c.payout \in Created

Ordered ==
    \A f \in Refs :
        IF order[f].state = "unknown" THEN order[f].payout = None
        ELSE order[f].payout \in Created /\ payout[order[f].payout].ref = f

PInv == RowTypes /\ OrderTypes /\ CallTypes /\ Carried /\ Ordered

AccountTypes == account \in [Accounts -> [active : BOOLEAN, enabled : SUBSET Roles,
                    default : SUBSET Roles, keys : SUBSET Roles, saved : BOOLEAN]]

LEMMA NoPayoutIsNoRow == NoPayout \notin PayoutRows
<1>1. \A x \in PayoutRows : x.status \in Statuses
  BY DEF PayoutRows
<1>2. NoPayout.status = "none" /\ "none" \notin Statuses
  BY DEF NoPayout, Statuses, Terminal
<1>3. QED
  BY <1>1, <1>2

LEMMA CreatedRows == ASSUME RowTypes, NEW r \in Created PROVE r \in Payouts /\ payout[r] \in PayoutRows
BY DEF Created, RowTypes

(* A status is written into a row that exists. *)
LEMMA StatusWritten ==
    ASSUME PInv, NEW r \in Created, NEW s \in Statuses,
           payout' = [payout EXCEPT ![r].status = s],
           UNCHANGED order, sending' \subseteq sending, checks' \subseteq checks
    PROVE  PInv'
<1>1. payout[r] \in PayoutRows /\ r \in Payouts
  BY CreatedRows DEF PInv
<1>2. [payout[r] EXCEPT !.status = s] \in PayoutRows
  BY <1>1 DEF PayoutRows
<1>3. payout' = [payout EXCEPT ![r] = [payout[r] EXCEPT !.status = s]]
  BY <1>1 DEF PInv, RowTypes
<1>4. RowTypes'
  BY <1>1, <1>2, <1>3 DEF PInv, RowTypes
<1>5. /\ payout'[r] \in PayoutRows /\ payout'[r].ref = payout[r].ref
      /\ \A q \in Payouts \ {r} : payout'[q] = payout[q]
  BY <1>1, <1>2, <1>3 DEF PInv, RowTypes, PayoutRows
<1>6. Created' = Created
  BY <1>1, <1>5, NoPayoutIsNoRow DEF Created
<1>7. \A q \in Created : payout'[q].ref = payout[q].ref
  BY <1>5 DEF Created
<1>8. OrderTypes' /\ CallTypes'
  BY DEF PInv, OrderTypes, CallTypes
<1>9. Carried' /\ Ordered'
  BY <1>6, <1>7 DEF PInv, Carried, Ordered
<1>10. QED
  BY <1>4, <1>8, <1>9 DEF PInv

LEMMA PInvAtFirst == PayoutInit => PInv
BY DEF PayoutInit, PInv, RowTypes, OrderTypes, CallTypes, Carried, Ordered, Created, States

LEMMA CreateStep ==
    ASSUME PInv, NEW r \in Payouts, NEW p \in Payees, NEW f \in Refs, PressSend(r, p, f)
    PROVE  PInv'
<1> DEFINE row == [status |-> "submitting", payee |-> p, ref |-> f]
           c == [payout |-> r, ref |-> f, phase |-> "ask", form |-> TRUE]
<1>1. /\ r \notin Created
      /\ payout' = [payout EXCEPT ![r] = row]
      /\ sending' = sending \cup {c}
      /\ UNCHANGED <<order, checks>>
  BY DEF PressSend, CreatePayout
<1>2. row \in PayoutRows /\ c \in Calls
  BY DEF PayoutRows, Statuses, Calls
<1>3. row.ref = f /\ c.payout = r /\ c.ref = f
  OBVIOUS
<1> HIDE DEF row, c
<1>4. RowTypes'
  BY <1>1, <1>2 DEF PInv, RowTypes
<1>5. payout'[r] = row /\ \A q \in Payouts \ {r} : payout'[q] = payout[q]
  BY <1>1 DEF PInv, RowTypes
<1>6. Created' = Created \cup {r}
  BY <1>2, <1>5, NoPayoutIsNoRow DEF Created
<1>7. \A q \in Created : q \in Payouts \ {r} /\ payout'[q] = payout[q]
  BY <1>1, <1>5 DEF Created
<1>8. OrderTypes' /\ CallTypes'
  BY <1>1, <1>2 DEF PInv, OrderTypes, CallTypes
<1>9. Carried'
  BY <1>1, <1>3, <1>5, <1>6, <1>7 DEF PInv, Carried
<1>10. Ordered'
  BY <1>1, <1>6, <1>7 DEF PInv, Ordered
<1>11. QED
  BY <1>4, <1>8, <1>9, <1>10 DEF PInv

LEMMA ResubmitStep ==
    ASSUME PInv, NEW r \in Payouts, Resubmit(r) \/ AskStatus(r)
    PROVE  PInv'
<1>1. r \in Created /\ UNCHANGED <<payout, order>>
  BY DEF Resubmit, AskStatus
<1>2. payout[r] \in PayoutRows /\ payout[r].ref \in Refs /\ payout[r].status \in Statuses
  BY <1>1, CreatedRows DEF PInv, PayoutRows
<1>3. RowTypes' /\ OrderTypes' /\ Ordered' /\ Created' = Created
  BY <1>1 DEF PInv, RowTypes, OrderTypes, Ordered, Created
<1>4. CASE Resubmit(r)
  <2> DEFINE c == [payout |-> r, ref |-> payout[r].ref, phase |-> "ask", form |-> FALSE]
  <2>1. c \in Calls /\ c.payout = r /\ c.ref = payout[r].ref
    BY <1>2 DEF Calls
  <2>2. sending' = sending \cup {c} /\ UNCHANGED checks
    BY <1>4 DEF Resubmit
  <2> HIDE DEF c
  <2>3. CallTypes' /\ Carried'
    BY <1>1, <1>3, <2>1, <2>2 DEF PInv, CallTypes, Carried
  <2>4. QED
    BY <1>3, <2>3 DEF PInv
<1>5. CASE AskStatus(r)
  <2> DEFINE c == [payout |-> r, read |-> payout[r].status, state |-> order[payout[r].ref].state]
  <2>1. c \in Checks /\ c.payout = r
    BY <1>2 DEF Checks, PInv, OrderTypes
  <2>2. checks' = checks \cup {c} /\ UNCHANGED sending
    BY <1>5 DEF AskStatus
  <2> HIDE DEF c
  <2>3. CallTypes' /\ Carried'
    BY <1>1, <1>3, <2>1, <2>2 DEF PInv, CallTypes, Carried
  <2>4. QED
    BY <1>3, <2>3 DEF PInv
<1>6. QED
  BY <1>4, <1>5

LEMMA SubmitStep ==
    ASSUME PInv, NEW c \in sending, AskPayoneer(c) \/ SendingFails(c) \/ RecordSubmission(c)
    PROVE  PInv'
<1>1. c \in Calls /\ c.payout \in Created /\ payout[c.payout].ref = c.ref
  BY DEF PInv, CallTypes, Carried
<1>2. c.ref \in Refs /\ c.payout \in Payouts
  BY <1>1 DEF Calls
<1>3. CASE AskPayoneer(c)
  <2> DEFINE d == [c EXCEPT !.phase = "write"]
  <2>1. d \in Calls /\ d.payout = c.payout /\ d.ref = c.ref
    BY <1>1 DEF Calls
  <2>2. sending' = (sending \ {c}) \cup {d} /\ UNCHANGED <<payout, checks>>
    BY <1>3 DEF AskPayoneer
  <2> HIDE DEF d
  <2>3. RowTypes' /\ Created' = Created
    BY <2>2 DEF PInv, RowTypes, Created
  <2>4. CallTypes' /\ Carried'
    BY <1>1, <2>1, <2>2, <2>3 DEF PInv, CallTypes, Carried
  <2>5. OrderTypes' /\ Ordered'
    <3> DEFINE new == [state |-> "pending", payout |-> c.payout]
    <3>1. new \in [state : States, payout : Payouts \cup {None}]
          /\ new.state # "unknown" /\ new.payout = c.payout
      BY <1>2 DEF States
    <3>2. UNCHANGED order \/ order' = [order EXCEPT ![c.ref] = new]
      BY <1>3 DEF AskPayoneer
    <3> HIDE DEF new
    <3>3. CASE UNCHANGED order
      BY <2>2, <2>3, <3>3 DEF PInv, OrderTypes, Ordered
    <3>4. CASE order' = [order EXCEPT ![c.ref] = new]
      <4>1. OrderTypes'
        BY <1>2, <3>1, <3>4 DEF PInv, OrderTypes
      <4>2. order'[c.ref] = new /\ \A f \in Refs \ {c.ref} : order'[f] = order[f]
        BY <1>2, <3>4 DEF PInv, OrderTypes
      <4>3. Ordered'
        BY <1>1, <1>2, <2>2, <2>3, <3>1, <4>2 DEF PInv, Ordered
      <4>4. QED
        BY <4>1, <4>3
    <3>5. QED
      BY <3>2, <3>3, <3>4
  <2>6. QED
    BY <2>3, <2>4, <2>5 DEF PInv
<1>4. CASE SendingFails(c)
  <2>1. sending' \subseteq sending /\ UNCHANGED <<payout, order, checks>>
    BY <1>4 DEF SendingFails
  <2>2. Created' = Created
    BY <2>1 DEF Created
  <2>3. QED
    BY <2>1, <2>2 DEF PInv, RowTypes, OrderTypes, CallTypes, Carried, Ordered
<1>5. CASE RecordSubmission(c)
  <2>1. payout[c.payout].status \in Statuses
    BY <1>1, CreatedRows DEF PInv, PayoutRows
  <2> DEFINE s == IF payout[c.payout].status = "submitting" THEN "pending"
                  ELSE payout[c.payout].status
  <2>2. s \in Statuses
    BY <2>1 DEF Statuses
  <2>3. payout' = [payout EXCEPT ![c.payout].status = s]
    BY <1>5 DEF RecordSubmission
  <2>4. UNCHANGED order /\ sending' \subseteq sending /\ checks' \subseteq checks
    BY <1>5 DEF RecordSubmission
  <2> HIDE DEF s
  <2>5. QED
    BY <1>1, <2>2, <2>3, <2>4, StatusWritten
<1>6. QED
  BY <1>3, <1>4, <1>5

LEMMA CheckStep ==
    ASSUME PInv, NEW c \in checks, WriteStatus(c)
    PROVE  PInv'
<1>1. c \in Checks /\ c.payout \in Created
  BY DEF PInv, CallTypes, Carried
<1>2. Reported(c) \in Statuses
  BY <1>1 DEF Reported, StatusMap, Checks, Statuses, States, Terminal
<1>3. UNCHANGED <<order, sending>> /\ checks' \subseteq checks
  BY DEF WriteStatus
<1>4. CASE UNCHANGED payout
  <2>1. Created' = Created
    BY <1>4 DEF Created
  <2>2. QED
    BY <1>3, <1>4, <2>1 DEF PInv, RowTypes, OrderTypes, CallTypes, Carried, Ordered
<1>5. CASE payout' = [payout EXCEPT ![c.payout].status = Reported(c)]
  BY <1>1, <1>2, <1>3, <1>5, StatusWritten
<1>6. QED
  BY <1>4, <1>5 DEF WriteStatus

LEMMA MoveStep ==
    ASSUME PInv, NEW f \in Refs, NEW state \in Terminal \cup {"returned"}, MoveOrder(f, state)
    PROVE  PInv'
<1>1. UNCHANGED <<payout, sending, checks>> /\ Created' = Created
  BY DEF MoveOrder, Created
<1>2. order[f].state # "unknown" /\ order' = [order EXCEPT ![f].state = state]
  BY DEF MoveOrder
<1> DEFINE new == [order[f] EXCEPT !.state = state]
<1>3. new \in [state : States, payout : Payouts \cup {None}]
      /\ new.state # "unknown" /\ new.payout = order[f].payout
  BY DEF PInv, OrderTypes, States, Terminal
<1>4. order' = [order EXCEPT ![f] = new]
  BY <1>2
<1> HIDE DEF new
<1>5. OrderTypes' /\ order'[f] = new /\ \A g \in Refs \ {f} : order'[g] = order[g]
  BY <1>3, <1>4 DEF PInv, OrderTypes
<1>6. Ordered'
  BY <1>1, <1>2, <1>3, <1>5 DEF PInv, Ordered
<1>7. QED
  BY <1>1, <1>5, <1>6 DEF PInv, RowTypes, CallTypes, Carried

LEMMA PInvStep == PInv /\ [PayoutNext]_payoutDeskVars => PInv'
<1> SUFFICES ASSUME PInv, [PayoutNext]_payoutDeskVars PROVE PInv'
  OBVIOUS
<1>1. ASSUME UNCHANGED payoutVars PROVE PInv'
  <2>1. Created' = Created
    BY <1>1 DEF payoutVars, Created
  <2>2. QED
    BY <1>1, <2>1 DEF payoutVars, PInv, RowTypes, OrderTypes, CallTypes, Carried, Ordered
<1>2. ASSUME NEW a \in Accounts, AccountStep(a, Fields) PROVE PInv'
  BY <1>1, <1>2 DEF AccountStep, SaveAccount, RemoveAccount
<1>3. ASSUME NEW p \in Payees, PayeeStep(p) PROVE PInv'
  BY <1>1, <1>3 DEF PayeeStep, AddPayee, RefreshPayee
<1>4. ASSUME PayoutsStep PROVE PInv'
  BY <1>4, CreateStep, ResubmitStep, SubmitStep, CheckStep, MoveStep
     DEF PayoutsStep, PayoutStep, CallStep
<1>5. CASE UNCHANGED payoutDeskVars
  BY <1>1, <1>5 DEF payoutDeskVars
<1>6. QED
  BY <1>2, <1>3, <1>4, <1>5 DEF PayoutNext

(* A payout is never two orders at Payoneer, for any number of payouts,    *)
(* references, overlapping submissions and lost answers: submit_payout     *)
(* sends the reference that create_payout drew, and nothing changes it.    *)
THEOREM OneOrderPerPayout == PayoutSpec => []PaidOnce
<1>1. ASSUME PInv PROVE PaidOnce
  <2> SUFFICES ASSUME NEW f \in Refs, NEW g \in Refs,
                      order[f].state # "unknown", order[f].payout = order[g].payout
               PROVE  f = g
    BY DEF PaidOnce
  <2>1. order[f].payout \in Payouts /\ payout[order[f].payout].ref = f
    BY <1>1 DEF PInv, Ordered, Created
  <2>2. order[g].payout # None
    BY <2>1, PayoutDeskAssumption
  <2>3. payout[order[g].payout].ref = g
    BY <1>1, <2>2 DEF PInv, Ordered
  <2>4. QED
    BY <2>1, <2>3
<1>2. QED
  BY <1>1, PInvAtFirst, PInvStep, PTL DEF PayoutSpec

-----------------------------------------------------------------------------
Usable == AccountTypes /\ DefaultIsUsable

(* One row of the accounts is replaced, and the others lose at most some   *)
(* of their default roles.                                                 *)
LEMMA UsableSave ==
    ASSUME Usable, NEW a \in Accounts, NEW fields \in Fields, SaveAccount(a, fields)
    PROVE  Usable'
<1>1. /\ Valid(fields) /\ account' = Written(a, fields)
  BY DEF SaveAccount
<1>2. /\ Saved(fields) \in [active : BOOLEAN, enabled : SUBSET Roles,
                            default : SUBSET Roles, keys : SUBSET Roles, saved : BOOLEAN]
      /\ Saved(fields).default = fields.default /\ Saved(fields).enabled = fields.enabled
      /\ Saved(fields).active = fields.active
  BY DEF Saved, Fields
<1>3. account'[a] = Saved(fields)
  BY <1>1 DEF Written
<1>4. ASSUME NEW b \in Accounts \ {a}
      PROVE  /\ account'[b] \in [active : BOOLEAN, enabled : SUBSET Roles,
                            default : SUBSET Roles, keys : SUBSET Roles, saved : BOOLEAN]
             /\ account'[b].active = account[b].active
             /\ account'[b].enabled = account[b].enabled
             /\ account'[b].default = account[b].default \ fields.default
  BY <1>1 DEF Written, Usable, AccountTypes
<1>5. AccountTypes'
  <2>1. account' \in [Accounts -> {account'[b] : b \in Accounts}]
    BY <1>1 DEF Written
  <2>2. QED
    BY <1>2, <1>3, <1>4, <2>1 DEF AccountTypes
<1>6. DefaultIsUsable'
  <2> SUFFICES ASSUME NEW b \in Accounts, NEW role \in Roles, role \in account'[b].default
               PROVE  /\ account'[b].active /\ role \in account'[b].enabled
                      /\ \A d \in Accounts : role \in account'[d].default => d = b
    BY DEF DefaultIsUsable
  <2>1. CASE b = a
    <3>1. fields.active /\ role \in fields.enabled /\ role \in fields.default
      BY <1>1, <1>2, <1>3, <2>1 DEF Valid
    <3>2. QED
      BY <1>2, <1>3, <1>4, <2>1, <3>1
  <2>2. CASE b # a
    <3>1. role \in account[b].default /\ role \notin fields.default
      BY <1>4, <2>2
    <3>2. account[b].active /\ role \in account[b].enabled
          /\ \A d \in Accounts : role \in account[d].default => d = b
      BY <3>1 DEF Usable, DefaultIsUsable
    <3>3. QED
      BY <1>2, <1>3, <1>4, <2>2, <3>1, <3>2
  <2>3. QED
    BY <2>1, <2>2
<1>7. QED
  BY <1>5, <1>6 DEF Usable

LEMMA UsableRemove ==
    ASSUME Usable, NEW a \in Accounts, RemoveAccount(a)
    PROVE  Usable'
<1>1. PICK row \in {Deactivated(a), NoRow} : account' = [account EXCEPT ![a] = row]
  BY DEF RemoveAccount
<1> DEFINE AccountRows == [active : BOOLEAN, enabled : SUBSET Roles, default : SUBSET Roles,
                           keys : SUBSET Roles, saved : BOOLEAN]
<1>2. row \in AccountRows /\ row.default = {}
  <2>1. account[a] \in AccountRows
    BY DEF Usable, AccountTypes
  <2>2. [account[a] EXCEPT !.active = FALSE, !.default = {}] \in AccountRows
    BY <2>1
  <2>3. [account[a] EXCEPT !.active = FALSE, !.default = {}].default = {}
    BY <2>1
  <2>4. NoRow \in AccountRows /\ NoRow.default = {}
    BY DEF NoRow
  <2>5. QED
    BY <2>2, <2>3, <2>4 DEF Deactivated
<1>3. AccountTypes' /\ account'[a] = row /\ \A b \in Accounts \ {a} : account'[b] = account[b]
  BY <1>1, <1>2 DEF Usable, AccountTypes
<1>4. DefaultIsUsable'
  BY <1>2, <1>3 DEF Usable, DefaultIsUsable
<1>5. QED
  BY <1>3, <1>4 DEF Usable

(* A role has at most one default account and it can be used, for any      *)
(* number of accounts, roles, administrators and payees (save_account,     *)
(* Account.delete).                                                        *)
THEOREM DefaultsStayUsable == PayoutSpec => []DefaultIsUsable
<1>1. PayoutInit => Usable
  BY DEF PayoutInit, Usable, AccountTypes, DefaultIsUsable, NoRow
<1>2. Usable /\ [PayoutNext]_payoutDeskVars => Usable'
  <2> SUFFICES ASSUME Usable, [PayoutNext]_payoutDeskVars PROVE Usable'
    OBVIOUS
  <2>1. ASSUME UNCHANGED account PROVE Usable'
    BY <2>1 DEF Usable, AccountTypes, DefaultIsUsable
  <2>2. ASSUME NEW a \in Accounts, AccountStep(a, Fields) PROVE Usable'
    BY <2>2, UsableSave, UsableRemove DEF AccountStep
  <2>3. ASSUME NEW p \in Payees, PayeeStep(p) PROVE Usable'
    BY <2>1, <2>3 DEF PayeeStep, AddPayee, RefreshPayee
  <2>4. ASSUME PayoutsStep PROVE Usable'
    BY <2>1, <2>4 DEF PayoutsStep, PayoutStep, CallStep, PressSend, CreatePayout, Resubmit,
       AskStatus, AskPayoneer, SendingFails, RecordSubmission, WriteStatus, MoveOrder
  <2>5. CASE UNCHANGED payoutDeskVars
    BY <2>1, <2>5 DEF payoutDeskVars
  <2>6. QED
    BY <2>2, <2>3, <2>4, <2>5 DEF PayoutNext
<1>3. Usable => DefaultIsUsable
  BY DEF Usable
<1>4. QED
  BY <1>1, <1>2, <1>3, PTL DEF PayoutSpec

-----------------------------------------------------------------------------
(* The statements                                                           *)

RowFields == {"status", "jobs", "fee", "deadline", "finalized"}

(* Who writes what: nothing is said of the amounts, which no lock depends  *)
(* on.                                                                     *)
RevenueShape ==
    /\ DOMAIN statement = Creators
    /\ \A c \in Creators : DOMAIN statement[c] = Months
    /\ \A c \in Creators, p \in Months : DOMAIN statement[c][p] = RowFields
    /\ charged \in [Creators -> [Months -> Nat]]

TxShape(tx) ==
    /\ tx.kind \in {"settle", "close", "finalize"}
    /\ tx.creator \in Creators /\ tx.month \in Months
    /\ tx.kind # "settle" => /\ {"kind", "creator", "month", "row"} \subseteq DOMAIN tx
                             /\ DOMAIN tx.row = RowFields

JobsOf(c, p) == {s.job : s \in Settled(c, p)}

(* A settlement is entered before there is a statement. *)
SettleHolds(tx) ==
    /\ tx.creator = OwnerOf[tx.settled.job] /\ tx.month = tx.settled.month
    /\ statement[tx.creator][tx.month].status = "none"

(* A statement about to be made has all settlements of its month. *)
CloseHolds(tx) ==
    /\ statement[tx.creator][tx.month].status = "none"
    /\ strict[tx.creator] => tx.row.jobs = JobsOf(tx.creator, tx.month)

(* A statement about to be final is the draft that was read. *)
FinalizeHolds(tx) ==
    /\ statement[tx.creator][tx.month].status = "draft"
    /\ tx.row.jobs = statement[tx.creator][tx.month].jobs

TxHolds(tx) ==
    /\ TxShape(tx)
    /\ tx.kind = "settle" => SettleHolds(tx)
    /\ tx.kind = "close" => CloseHolds(tx)
    /\ tx.kind = "finalize" => FinalizeHolds(tx)

(* The locks: of the row of the user, and of the row of the statement. *)
Locked ==
    \A t, u \in txs : t.creator = u.creator =>
        /\ t.kind # "finalize" /\ u.kind # "finalize" => t = u
        /\ t.kind = "finalize" /\ u.kind = "finalize" /\ t.month = u.month => t = u

RInv == RevenueShape /\ (\A tx \in txs : TxHolds(tx)) /\ Locked /\ SettlementsAreCounted

LEMMA RevenueAtFirst == RevenueInit => RInv
<1> SUFFICES ASSUME RevenueInit PROVE RInv
  OBVIOUS
<1>1. RevenueShape
  BY DEF RevenueInit, RevenueShape, RowFields, NoStatement
<1>2. txs = {}
  BY DEF RevenueInit
<1>3. SettlementsAreCounted
  BY DEF RevenueInit, SettlementsAreCounted, NoStatement
<1> QED
  BY <1>1, <1>2, <1>3 DEF RInv, Locked

(* Nothing is said of a transaction but what it has read and what the      *)
(* statement and the settlements of its month say now.                     *)
LEMMA Untouched ==
    ASSUME NEW tx, TxHolds(tx), UNCHANGED strict,
           statement'[tx.creator][tx.month] = statement[tx.creator][tx.month],
           JobsOf(tx.creator, tx.month)' = JobsOf(tx.creator, tx.month)
    PROVE  TxHolds(tx)'
BY DEF TxHolds, TxShape, SettleHolds, CloseHolds, FinalizeHolds

(* A step that changes neither the statements nor the settlements keeps    *)
(* the invariant when the transactions it leaves are in order.             *)
LEMMA RowsStay ==
    ASSUME RInv, UNCHANGED <<strict, settlement, statement>>,
           charged' \in [Creators -> [Months -> Nat]],
           \A tx \in txs' \ txs : TxHolds(tx), Locked'
    PROVE  RInv'
<1>1. RevenueShape'
  BY DEF RInv, RevenueShape
<1>2. \A c, p : JobsOf(c, p)' = JobsOf(c, p)
  BY DEF JobsOf, Settled
<1>3. ASSUME NEW tx \in txs' PROVE TxHolds(tx)'
  <2>1. TxHolds(tx)
    BY <1>3 DEF RInv
  <2> QED
    BY <2>1, <1>2, Untouched
<1>4. SettlementsAreCounted'
  BY DEF RInv, SettlementsAreCounted, Settled
<1> QED
  BY <1>1, <1>3, <1>4 DEF RInv

(* With fewer transactions the locks are as good as before. *)
LEMMA FewerLocked == ASSUME Locked, txs' \subseteq txs PROVE Locked'
BY DEF Locked

LEMMA BeginSettlementStep ==
    ASSUME RInv, RevenueDeskAssumption, NEW j \in Jobs, NEW p \in Months, NEW amount,
           BeginSettlement(j, p, amount)
    PROVE  RInv'
<1> DEFINE c == OwnerOf[j]
           new == [kind |-> "settle", creator |-> c, month |-> p,
                   settled |-> [job |-> j, month |-> p, amount |-> amount]]
<1>1. c \in Creators
  BY DEF RevenueDeskAssumption
<1>2. /\ UserFree(c) /\ statement[c][p].status = "none" /\ txs' = txs \cup {new}
      /\ UNCHANGED <<strict, settlement, statement, charged>>
  BY DEF BeginSettlement
<1>3. TxHolds(new)
  BY <1>1, <1>2 DEF TxHolds, TxShape, SettleHolds
<1>4. Locked'
  BY <1>2 DEF Locked, RInv, UserFree
<1> QED
  BY <1>2, <1>3, <1>4, RowsStay DEF RInv, RevenueShape

LEMMA BeginClosingStep ==
    ASSUME RInv, NEW c \in Creators, NEW p \in Months, NEW synced, BeginClosing(c, p, synced)
    PROVE  RInv'
<1>1. PICK row, fee :
        /\ row = [status |-> IF strict[c] THEN "draft" ELSE "finalized",
                  jobs |-> IF strict[c] THEN {s.job : s \in Settled(c, p)} ELSE {},
                  fee |-> fee, deadline |-> now + Window, finalized |-> now]
        /\ txs' = txs \cup {[kind |-> "close", creator |-> c, month |-> p, billed |-> FALSE,
                             row |-> row]}
  BY DEF BeginClosing
<1> DEFINE new == [kind |-> "close", creator |-> c, month |-> p, billed |-> FALSE, row |-> row]
<1>2. txs' = txs \cup {new}
  BY <1>1
<1>3. /\ UserFree(c) /\ statement[c][p].status = "none"
      /\ UNCHANGED <<strict, settlement, statement, charged>>
  BY DEF BeginClosing
<1>4. DOMAIN row = RowFields /\ (strict[c] => row.jobs = JobsOf(c, p))
  BY <1>1 DEF RowFields, JobsOf
<1>5. TxHolds(new)
  BY <1>3, <1>4 DEF TxHolds, TxShape, CloseHolds
<1>6. new.kind = "close" /\ new.creator = c
  OBVIOUS
<1> HIDE DEF new
<1>7. Locked'
  BY <1>2, <1>3, <1>6 DEF Locked, RInv, UserFree
<1> QED
  BY <1>2, <1>3, <1>5, <1>7, RowsStay DEF RInv, RevenueShape

LEMMA BeginFinalizingStep ==
    ASSUME RInv, NEW c \in Creators, NEW p \in Months, BeginFinalizing(c, p)
    PROVE  RInv'
<1> DEFINE row == [statement[c][p] EXCEPT !.status = "finalized", !.finalized = now]
           new == [kind |-> "finalize", creator |-> c, month |-> p, billed |-> FALSE,
                   row |-> row]
<1>1. /\ StatementFree(c, p) /\ statement[c][p].status = "draft"
      /\ txs' = txs \cup {new}
      /\ UNCHANGED <<strict, settlement, statement, charged>>
  BY DEF BeginFinalizing
<1>2. DOMAIN statement[c][p] = RowFields
  BY DEF RInv, RevenueShape
<1>3. DOMAIN row = RowFields /\ row.jobs = statement[c][p].jobs
  BY <1>2 DEF RowFields
<1> HIDE DEF row
<1>4. TxHolds(new)
  BY <1>1, <1>3 DEF TxHolds, TxShape, FinalizeHolds
<1>5. new.kind = "finalize" /\ new.creator = c /\ new.month = p
  OBVIOUS
<1> HIDE DEF new
<1>6. Locked'
  BY <1>1, <1>5 DEF Locked, RInv, StatementFree
<1> QED
  BY <1>1, <1>4, <1>6, RowsStay DEF RInv, RevenueShape

LEMMA BillStep ==
    ASSUME RInv, NEW tx \in txs, Bill(tx)
    PROVE  RInv'
<1> DEFINE new == [tx EXCEPT !.billed = TRUE]
<1>1. /\ tx.kind # "settle"
      /\ charged' = [charged EXCEPT ![tx.creator][tx.month] = @ + 1]
      /\ txs' = (txs \ {tx}) \cup {new}
      /\ UNCHANGED <<strict, settlement, statement>>
  BY DEF Bill
<1>2. TxHolds(tx)
  BY DEF RInv
<1>3. /\ {"kind", "creator", "month", "row"} \subseteq DOMAIN tx
      /\ DOMAIN new = DOMAIN tx
  BY <1>1, <1>2 DEF TxHolds, TxShape
<1>4. /\ new.kind = tx.kind /\ new.creator = tx.creator
      /\ new.month = tx.month /\ new.row = tx.row
  BY <1>3
<1> HIDE DEF new
<1>5. TxHolds(new)
  BY <1>1, <1>2, <1>3, <1>4 DEF TxHolds, TxShape, CloseHolds, FinalizeHolds
<1>6. Locked'
  BY <1>1, <1>4 DEF Locked, RInv
<1>7. charged' \in [Creators -> [Months -> Nat]]
  BY <1>1, <1>2 DEF RInv, RevenueShape, TxHolds, TxShape
<1> QED
  BY <1>1, <1>5, <1>6, <1>7, RowsStay

LEMMA CommitSettlementStep ==
    ASSUME RInv, NEW tx \in txs, CommitSettlement(tx)
    PROVE  RInv'
<1>1. /\ tx.kind = "settle" /\ settlement' = settlement \cup {tx.settled}
      /\ txs' = txs \ {tx} /\ UNCHANGED <<strict, statement, charged>>
  BY DEF CommitSettlement
<1>2. TxHolds(tx) /\ SettleHolds(tx)
  BY <1>1 DEF RInv, TxHolds
<1>3. \A c, p : c # tx.creator \/ p # tx.month => Settled(c, p)' = Settled(c, p)
  BY <1>1, <1>2 DEF Settled, SettleHolds
<1>4. ASSUME NEW u \in txs' PROVE TxHolds(u)'
  <2>1. u \in txs /\ u # tx /\ TxHolds(u)
    BY <1>1, <1>4 DEF RInv
  <2>2. CASE u.creator = tx.creator /\ u.month = tx.month
    <3>1. u.kind = "finalize"
      BY <2>1, <2>2, <1>1 DEF RInv, Locked
    <3> QED
      BY <3>1, <2>1, <1>1 DEF TxHolds, TxShape, FinalizeHolds
  <2>3. CASE ~(u.creator = tx.creator /\ u.month = tx.month)
    <3>1. JobsOf(u.creator, u.month)' = JobsOf(u.creator, u.month)
      BY <2>3, <1>3 DEF JobsOf
    <3> QED
      BY <3>1, <2>1, <1>1, Untouched
  <2> QED
    BY <2>2, <2>3
<1>5. SettlementsAreCounted'
  <2> SUFFICES ASSUME NEW c \in Creators, NEW p \in Months,
                      strict[c], statement[c][p].status # "none"
               PROVE  statement[c][p].jobs = {s.job : s \in Settled(c, p)'}
    BY <1>1 DEF SettlementsAreCounted
  <2>1. c # tx.creator \/ p # tx.month
    BY <1>2 DEF SettleHolds
  <2> QED
    BY <2>1, <1>3 DEF RInv, SettlementsAreCounted
<1> QED
  BY <1>1, <1>4, <1>5, FewerLocked DEF RInv, RevenueShape

(* A row is written that no other transaction but its own has locked. *)
LEMMA WriteRow ==
    ASSUME RInv, NEW c \in Creators, NEW p \in Months, NEW row, DOMAIN row = RowFields,
           statement' = [statement EXCEPT ![c][p] = row],
           UNCHANGED <<strict, settlement, charged>>,
           txs' \subseteq txs,
           \A u \in txs' : u.creator = c => u.month # p,
           strict[c] /\ row.status # "none" => row.jobs = JobsOf(c, p)
    PROVE  RInv'
<1>1. /\ RevenueShape' /\ statement'[c][p] = row
      /\ \A d \in Creators, q \in Months :
            d # c \/ q # p => statement'[d][q] = statement[d][q]
  <2>1. RevenueShape /\ DOMAIN statement' = Creators
    BY DEF RInv, RevenueShape
  <2>2. statement'[c] = [statement[c] EXCEPT ![p] = row]
    BY <2>1 DEF RevenueShape
  <2>3. \A d \in Creators : d # c => statement'[d] = statement[d]
    BY <2>1 DEF RevenueShape
  <2>4. DOMAIN statement'[c] = Months /\ statement'[c][p] = row
    BY <2>1, <2>2 DEF RevenueShape
  <2>5. \A q \in Months : q # p => statement'[c][q] = statement[c][q]
    BY <2>1, <2>2 DEF RevenueShape
  <2> QED
    BY <2>1, <2>3, <2>4, <2>5 DEF RevenueShape
<1>2. \A d, q : Settled(d, q)' = Settled(d, q) /\ JobsOf(d, q)' = JobsOf(d, q)
  BY DEF JobsOf, Settled
<1>3. ASSUME NEW u \in txs' PROVE TxHolds(u)'
  <2>1. TxHolds(u) /\ u.creator \in Creators /\ u.month \in Months
    BY DEF RInv, TxHolds, TxShape
  <2>2. statement'[u.creator][u.month] = statement[u.creator][u.month]
    BY <2>1, <1>1
  <2> QED
    BY <2>1, <2>2, <1>2, Untouched
<1>4. SettlementsAreCounted'
  BY <1>1, <1>2 DEF RInv, SettlementsAreCounted, JobsOf
<1> QED
  BY <1>1, <1>3, <1>4, FewerLocked DEF RInv

LEMMA CommitStatementStep ==
    ASSUME RInv, NEW tx \in txs, NEW status, CommitStatement(tx, status)
    PROVE  RInv'
<1>0. PICK c, p, row : /\ c = tx.creator /\ p = tx.month
                        /\ row = [tx.row EXCEPT !.status = status]
  OBVIOUS
<1>1. /\ tx.kind # "settle" /\ statement' = [statement EXCEPT ![c][p] = row]
      /\ txs' = txs \ {tx} /\ UNCHANGED <<strict, settlement, charged>>
  BY <1>0 DEF CommitStatement
<1>2. TxHolds(tx)
  BY DEF RInv
<1>3. c \in Creators /\ p \in Months /\ DOMAIN tx.row = RowFields
  BY <1>0, <1>1, <1>2 DEF TxHolds, TxShape
<1>4. DOMAIN row = RowFields /\ row.jobs = tx.row.jobs
  BY <1>0, <1>3 DEF RowFields
<1>5. ASSUME NEW u \in txs', u.creator = c PROVE u.month # p
  <2>1. u \in txs /\ u # tx /\ TxHolds(u)
    BY <1>1, <1>5 DEF RInv
  <2>2. u.kind # "finalize" /\ tx.kind # "finalize" => FALSE
    BY <2>1, <1>0, <1>5 DEF RInv, Locked
  <2>3. u.kind = "finalize" /\ tx.kind = "finalize" => u.month # p
    BY <2>1, <1>0, <1>5 DEF RInv, Locked
  <2>4. u.month = p => (u.kind = "finalize" <=> tx.kind = "finalize")
    BY <2>1, <1>0, <1>1, <1>2, <1>5 DEF TxHolds, TxShape, SettleHolds, CloseHolds, FinalizeHolds
  <2> QED
    BY <2>2, <2>3, <2>4
<1>6. strict[c] => row.jobs = JobsOf(c, p)
  <2>1. CASE tx.kind = "close"
    BY <2>1, <1>0, <1>2, <1>4 DEF TxHolds, CloseHolds
  <2>2. CASE tx.kind = "finalize"
    BY <2>2, <1>0, <1>2, <1>3, <1>4 DEF TxHolds, FinalizeHolds, RInv, SettlementsAreCounted, JobsOf
  <2> QED
    BY <2>1, <2>2, <1>1, <1>2 DEF TxHolds, TxShape
<1>7. /\ statement' = [statement EXCEPT ![c][p] = row]
      /\ UNCHANGED <<strict, settlement, charged>>
  BY <1>1
<1>8. txs' \subseteq txs /\ \A u \in txs' : u.creator = c => u.month # p
  BY <1>1, <1>5
<1>9. strict[c] /\ row.status # "none" => row.jobs = JobsOf(c, p)
  BY <1>6
<1>10. c \in Creators /\ p \in Months /\ DOMAIN row = RowFields
  BY <1>3, <1>4
<1> QED
  BY <1>7, <1>8, <1>9, <1>10, WriteRow

LEMMA SendDisputeStep ==
    ASSUME RInv, NEW c \in Creators, NEW p \in Months, SendDispute(c, p)
    PROVE  RInv'
<1> DEFINE row == [statement[c][p] EXCEPT !.status = "disputed"]
<1>1. /\ StatementFree(c, p) /\ Disputable(statement[c][p])
      /\ statement' = [statement EXCEPT ![c][p] = row]
      /\ UNCHANGED <<txs, strict, settlement, charged>>
  BY DEF SendDispute
<1>2. statement[c][p].status # "none"
  BY <1>1 DEF Disputable
<1>3. DOMAIN statement[c][p] = RowFields
  BY DEF RInv, RevenueShape
<1>4. DOMAIN row = RowFields /\ row.jobs = statement[c][p].jobs
  BY <1>3 DEF RowFields
<1>5. ASSUME NEW u \in txs, u.creator = c PROVE u.month # p
  <2>1. TxHolds(u)
    BY DEF RInv
  <2>2. u.kind # "finalize" => statement[c][u.month].status = "none"
    BY <2>1, <1>5 DEF TxHolds, TxShape, SettleHolds, CloseHolds
  <2> QED
    BY <2>2, <1>1, <1>2, <1>5 DEF StatementFree
<1>6. strict[c] => row.jobs = JobsOf(c, p)
  BY <1>2, <1>4 DEF RInv, SettlementsAreCounted, JobsOf
<1> HIDE DEF row
<1> QED
  BY <1>1, <1>4, <1>5, <1>6, WriteRow

LEMMA RInvIsKept ==
    ASSUME RInv, RevenueDeskAssumption, [RevenueNext]_revenueVars
    PROVE  RInv'
<1>1. ASSUME UNCHANGED <<strict, settlement, statement, txs, charged>> PROVE RInv'
  <2>1. Locked'
    BY <1>1, FewerLocked DEF RInv
  <2> QED
    BY <1>1, <2>1, RowsStay DEF RInv, RevenueShape
<1>2. CASE UNCHANGED revenueVars
  BY <1>1, <1>2 DEF revenueVars
<1>3. ASSUME NEW c \in Creators, CancelDispute(c) PROVE RInv'
  BY <1>1, <1>3 DEF CancelDispute
<1>4. ASSUME NEW c \in Creators, NEW p \in Months, CreatorStep(c, p) PROVE RInv'
  <2>1. CASE OpenDispute(c, p)
    BY <1>1, <2>1 DEF OpenDispute
  <2> QED
    BY <1>4, <2>1, SendDisputeStep, BeginFinalizingStep, BeginClosingStep DEF CreatorStep
<1>5. ASSUME NEW j \in Jobs, NEW p \in Months, NEW amount \in Amounts,
             SendSettlement(j, p, p + 1, amount)
      PROVE  RInv'
  BY <1>5, BeginSettlementStep DEF SendSettlement
<1>6. ASSUME NEW tx \in txs, TransactionStep(tx) PROVE RInv'
  <2>1. CASE Abort(tx)
    <3>1. txs' \subseteq txs /\ UNCHANGED <<strict, settlement, statement, charged>>
      BY <2>1 DEF Abort
    <3> QED
      BY <3>1, FewerLocked, RowsStay DEF RInv, RevenueShape
  <2> QED
    BY <1>6, <2>1, CommitSettlementStep, BillStep, CommitStatementStep DEF TransactionStep
<1>7. CASE Tick
  BY <1>1, <1>7 DEF Tick
<1> QED
  BY <1>2, <1>3, <1>4, <1>5, <1>6, <1>7 DEF RevenueNext

(* Every settlement of a month is in the statement that shares its revenue *)
(* (SettlementView.post, close_period_for_user), for every number of       *)
(* creators, videos and overlapping transactions.                          *)
THEOREM SettlementsStayCounted == RevenueSpec => []SettlementsAreCounted
<1>1. RInv => SettlementsAreCounted
  BY DEF RInv
<1> QED
  BY <1>1, RevenueAtFirst, RInvIsKept, RevenueDeskAssumption, PTL DEF RevenueSpec

(* Only what is about to be final is charged, and while it is, no dispute  *)
(* can be recorded (finalize_statement, dispute_statement).                *)
LEMMA ChargedStep ==
    ASSUME RInv, [RevenueNext]_revenueVars, NEW c \in Creators, NEW p \in Months,
           statement[c][p].status = "disputed"
    PROVE  charged'[c][p] = charged[c][p]
<1>1. ASSUME NEW tx \in txs, Bill(tx) PROVE charged'[c][p] = charged[c][p]
  <2>1. TxHolds(tx) /\ tx.kind # "settle"
    BY <1>1 DEF RInv, Bill
  <2>2. /\ tx.creator \in Creators /\ tx.month \in Months
        /\ statement[tx.creator][tx.month].status \in {"none", "draft"}
    BY <2>1 DEF TxHolds, TxShape, CloseHolds, FinalizeHolds
  <2>3. tx.creator # c \/ tx.month # p
    BY <2>2
  <2> QED
    BY <1>1, <2>2, <2>3 DEF Bill, RInv, RevenueShape
<1>2. (\A tx \in txs : ~Bill(tx)) => UNCHANGED charged
  BY DEF RevenueNext, revenueVars, CancelDispute, CreatorStep, OpenDispute, SendDispute,
         BeginFinalizing, BeginClosing, SendSettlement, BeginSettlement, TransactionStep,
         CommitSettlement, Abort, CommitStatement, Tick
<1> QED
  BY <1>1, <1>2

(* A disputed statement is never charged, for every number of creators,    *)
(* overlapping finalizations and disputes.                                 *)
THEOREM DisputedStaysUnbilled == RevenueSpec => DisputedIsNotBilled
<1>1. RInv /\ [RevenueNext]_revenueVars =>
      [\A c \in Creators, p \in Months :
          statement[c][p].status = "disputed" => charged'[c][p] = charged[c][p]]_revenueVars
  BY ChargedStep
<1> QED
  BY <1>1, RevenueAtFirst, RInvIsKept, RevenueDeskAssumption, PTL DEF RevenueSpec, DisputedIsNotBilled

-----------------------------------------------------------------------------
(* The sale of a plan                                                       *)

PlanRows == [price : Nat, discount : 0 .. 100, stars : Nat, active : BOOLEAN]
OrderRows ==
    [stars : Nat, net : Nat, brings : Nat, precheckout : Payments \cup {Nothing}, paid : BOOLEAN]
PaymentRows ==
    [order : Orders \cup {Nothing}, at : {"none", "asked", "approved", "charged", "ended"}]
SessionRows ==
    [price : Nat, at : {"none", "open", "running", "canceled", "deleted"},
     completed : {"none", "sent", "processed"},
     invoice : [Periods -> {"none", "paid", "processed"}]]

ShopTypes ==
    /\ plan \in PlanRows
    /\ bot \in [enabled : BOOLEAN, rate : Nat]
    /\ orders \in [Orders -> OrderRows]
    /\ payments \in [Payments -> PaymentRows]
    /\ updates \subseteq Payments
    /\ sessions \in [Purchases -> SessionRows]
    /\ entries \in [References -> Nat]

(* What is known of a payment and of the order its link was made for.      *)
Followed ==
    /\ \A y \in Payments : payments[y].at # "none" =>
          payments[y].order \in Orders /\ orders[payments[y].order] # NoOrder
    /\ \A y \in updates : payments[y].at \in {"charged", "ended"}
                          /\ orders[payments[y].order].paid

(* An order keeps the payment it was approved for.                         *)
Approved(y) == payments[y].at \in {"approved", "charged"} \/ y \in updates
Remembered ==
    \A y \in Payments : Approved(y) /\ payments[y].order \notin unsure =>
        orders[payments[y].order].precheckout = y

(* What is credited, and for whom.                                         *)
Worth ==
    /\ \A o \in Orders : orders[o].net <= orders[o].brings
    /\ \A y \in Payments : entries[y] > 0 =>
          y \in updates /\ entries[y] = orders[payments[y].order].net
    /\ \A x, y \in Payments :
          entries[x] > 0 /\ entries[y] > 0 /\ payments[x].order = payments[y].order => x = y
    /\ \A o \in Orders : orders[o].paid /\ orders[o].net > 0 =>
          \E y \in Payments : payments[y].order = o /\ entries[y] > 0

(* A period is credited at the price of its checkout session.              *)
Billed ==
    \A s \in Purchases, n \in Periods :
        /\ entries[<<s, n>>] \in {0, sessions[s].price}
        /\ sessions[s].at = "none" => sessions[s].invoice[n] = "none" /\ entries[<<s, n>>] = 0

ShopInv == ShopTypes /\ Followed /\ Remembered /\ Worth /\ Billed

(* economics.quote rounds amounts to amounts, and the tax is no discount.  *)
LEMMA QuoteIs ==
    ASSUME NEW p \in PlanRows
    PROVE  /\ quote(p).net \in Nat /\ quote(p).total \in Nat
           /\ quote(p).net <= quote(p).total
<1> DEFINE net == (p.price * (100 - p.discount) + 50) \div 100
<1>1. p.price \in Nat /\ 100 - p.discount \in Nat
  BY DEF PlanRows
<1>2. p.price * (100 - p.discount) \in Nat
  BY <1>1
<1>3. net \in Nat
  BY <1>2
<1>4. quote(p).net = net /\ quote(p).total = net + (net * 12 + 50) \div 100
  BY DEF quote
<1> HIDE DEF net
<1>5. (net * 12 + 50) \div 100 \in Nat
  BY <1>3
<1>6. QED
  BY <1>3, <1>4, <1>5

LEMMA ReferencesApart ==
    ASSUME NEW y \in Payments, NEW s \in Purchases, NEW n \in Periods
    PROVE  y # <<s, n>> /\ y \in References /\ <<s, n>> \in References /\ y # Nothing
<1>1. <<s, n>> \in Purchases \X Periods
  OBVIOUS
<1>2. QED
  BY <1>1, PlanShopAssumption DEF References

(* credit_payment writes one entry and leaves the others.                  *)
LEMMA EntryWritten ==
    ASSUME ShopTypes, NEW r \in References, NEW v,
           UNCHANGED entries \/ entries' = [entries EXCEPT ![r] = v]
    PROVE  /\ \A q \in References : q # r => entries'[q] = entries[q]
           /\ entries'[r] \in {entries[r], v}
BY DEF ShopTypes

LEMMA ShopAtFirst == ShopInit => ShopInv
<1> SUFFICES ASSUME ShopInit PROVE ShopInv
  OBVIOUS
<1>1. NoOrder \in OrderRows /\ NoPayment \in PaymentRows /\ NoSession \in SessionRows
  BY DEF NoOrder, NoPayment, NoSession, OrderRows, PaymentRows, SessionRows
<1>2. plan \in PlanRows /\ bot \in [enabled : BOOLEAN, rate : Nat]
  BY PlanShopAssumption DEF ShopInit, PlanRows
<1>3. ShopTypes
  BY <1>1, <1>2 DEF ShopInit, ShopTypes
<1>4. Followed /\ Remembered
  BY DEF ShopInit, Followed, Remembered, Approved, NoPayment
<1>5. \A r \in References : entries[r] = 0
  BY DEF ShopInit
<1>6. Worth
  BY <1>5 DEF ShopInit, Worth, NoOrder, References
<1>7. Billed
  BY <1>5, ReferencesApart DEF ShopInit, Billed, NoSession, References
<1>8. QED
  BY <1>3, <1>4, <1>6, <1>7 DEF ShopInv

(* The parts of the invariant that a step does not touch.                  *)
LEMMA StarsStay ==
    ASSUME Followed, Remembered, UNCHANGED <<orders, payments, updates, unsure>>
    PROVE  Followed' /\ Remembered'
BY DEF Followed, Remembered, Approved

LEMMA BilledStays ==
    ASSUME Billed, UNCHANGED sessions,
           \A s \in Purchases, n \in Periods : entries'[<<s, n>>] = entries[<<s, n>>]
    PROVE  Billed'
BY DEF Billed

LEMMA FormStep ==
    ASSUME ShopInv,
           \/ \E p \in Plans : SavePlan(p)
           \/ DiscountEnds
           \/ \E enabled \in BOOLEAN, rate \in Rates : SaveBot(enabled, rate)
    PROVE  ShopInv'
<1>1. UNCHANGED <<sub, orders, late, payments, updates, sessions, entries, unsure>>
  BY DEF SavePlan, DiscountEnds, SaveBot
<1>2. plan' \in PlanRows /\ bot' \in [enabled : BOOLEAN, rate : Nat]
  BY PlanShopAssumption DEF SavePlan, DiscountEnds, SaveBot, ShopInv, ShopTypes, PlanRows
<1>3. QED
  BY <1>1, <1>2 DEF ShopInv, ShopTypes, Followed, Remembered, Approved, Worth, Billed

LEMMA CheckoutStep ==
    ASSUME ShopInv, NEW o \in Orders, StarsCheckout(o)
    PROVE  ShopInv'
<1> USE DEF ShopInv
<1> DEFINE row == [stars |-> plan.stars, net |-> quote(plan).net,
                   brings |-> plan.stars * bot.rate,
                   precheckout |-> Nothing, paid |-> FALSE]
<1>1. plan \in PlanRows /\ plan.stars \in Nat /\ bot.rate \in Nat
  BY DEF ShopTypes, PlanRows
<1>2. plan.stars * bot.rate \in Nat
  BY <1>1
<1>3. quote(plan).net \in Nat /\ quote(plan).net <= plan.stars * bot.rate
  BY <1>1, <1>2, QuoteIs DEF StarsCheckout
<1>4. row \in OrderRows /\ row.net <= row.brings /\ ~row.paid
  BY <1>1, <1>2, <1>3 DEF OrderRows
<1>5. /\ orders' = [orders EXCEPT ![o] = row] /\ orders[o] = NoOrder
      /\ UNCHANGED <<plan, bot, sub, late, payments, updates, sessions, entries, unsure, forms, lost>>
  BY DEF StarsCheckout
<1> HIDE DEF row
<1>6. /\ orders' \in [Orders -> OrderRows] /\ orders'[o] = row
      /\ \A q \in Orders \ {o} : orders'[q] = orders[q]
  BY <1>4, <1>5 DEF ShopTypes
<1>7. \A y \in Payments : payments[y].at # "none" =>
          payments[y].order # o /\ orders'[payments[y].order] = orders[payments[y].order]
  BY <1>5, <1>6 DEF Followed
<1>8. \A y \in updates : payments[y].at # "none" /\ y \in Payments
  BY DEF Followed, ShopTypes
<1>9. ShopTypes'
  BY <1>5, <1>6 DEF ShopTypes
<1>10. Followed'
  BY <1>5, <1>6, <1>7, <1>8 DEF Followed
<1>11. Remembered'
  BY <1>5, <1>7, <1>8 DEF Remembered, Approved
<1>12. Worth'
  <2>1. \A q \in Orders : orders'[q].net <= orders'[q].brings
    BY <1>4, <1>6 DEF Worth
  <2>2. \A y \in Payments : entries[y] > 0 =>
            y \in updates /\ entries[y] = orders'[payments[y].order].net
    BY <1>7, <1>8 DEF Worth
  <2>3. \A q \in Orders : orders'[q].paid => orders'[q] = orders[q]
    BY <1>4, <1>6
  <2>4. QED
    BY <1>5, <2>1, <2>2, <2>3 DEF Worth
<1>13. Billed'
  BY <1>5, BilledStays
<1>14. QED
  BY <1>9, <1>10, <1>11, <1>12, <1>13

(* A payment goes on with its order, and only this payment.                *)
LEMMA GoesTo ==
    ASSUME ShopTypes, NEW y \in Payments, NEW at \in {"asked", "approved", "charged", "ended"},
           Goes(y, at)
    PROVE  /\ payments' \in [Payments -> PaymentRows]
           /\ payments'[y].at = at
           /\ \A x \in Payments : payments'[x].order = payments[x].order
           /\ \A x \in Payments \ {y} : payments'[x] = payments[x]
BY DEF ShopTypes, Goes, PaymentRows

LEMMA LinkStep ==
    ASSUME ShopInv,
           \/ \E o \in Orders : HalfAnHourPasses(o)
           \/ \E y \in Payments, o \in Orders : PressPay(y, o)
           \/ \E y \in Payments : TakeStars(y) \/ GiveUp(y)
    PROVE  ShopInv'
<1> USE DEF ShopInv
<1>1. UNCHANGED <<plan, bot, orders, updates, sessions, entries, unsure>>
  BY DEF HalfAnHourPasses, PressPay, TakeStars, GiveUp
<1>2. CASE UNCHANGED payments
  BY <1>1, <1>2 DEF ShopTypes, Followed, Remembered, Approved, Worth, Billed
<1>3. ASSUME NEW y \in Payments, NEW o \in Orders, PressPay(y, o) PROVE ShopInv'
  <2>1. /\ payments[y].at = "none" /\ orders[o] # NoOrder
        /\ payments' = [payments EXCEPT ![y] = [order |-> o, at |-> "asked"]]
    BY <1>3 DEF PressPay, NoPayment
  <2>2. /\ payments' \in [Payments -> PaymentRows] /\ payments'[y] = [order |-> o, at |-> "asked"]
        /\ \A x \in Payments \ {y} : payments'[x] = payments[x]
    BY <2>1 DEF ShopTypes, PaymentRows
  <2>3. y \notin updates /\ entries[y] = 0 /\ \A x \in updates : x \in Payments
    <3>1. y \notin updates /\ \A x \in updates : x \in Payments
      BY <2>1 DEF Followed, ShopTypes
    <3>2. entries[y] \in Nat
      BY DEF ShopTypes, References
    <3>3. QED
      BY <3>1, <3>2 DEF Worth
  <2>4. ShopTypes'
    BY <1>1, <2>2 DEF ShopTypes
  <2>5. Followed' /\ Remembered'
    BY <1>1, <2>1, <2>2, <2>3 DEF Followed, Remembered, Approved
  <2>6. Worth'
    <3>1. \A x \in Payments : entries[x] > 0 => payments'[x] = payments[x]
      BY <2>2, <2>3
    <3>2. QED
      BY <1>1, <3>1 DEF Worth
  <2>7. QED
    BY <1>1, <2>4, <2>5, <2>6, BilledStays
<1>4. ASSUME NEW y \in Payments, TakeStars(y) \/ GiveUp(y) PROVE ShopInv'
  <2>1. PICK at \in {"charged", "ended"} :
           /\ Goes(y, at) /\ payments[y].at \in {"asked", "approved"}
           /\ at = "charged" => payments[y].at = "approved"
    BY <1>4 DEF TakeStars, GiveUp
  <2>2. /\ payments' \in [Payments -> PaymentRows] /\ payments'[y].at = at
        /\ \A x \in Payments : payments'[x].order = payments[x].order
        /\ \A x \in Payments \ {y} : payments'[x] = payments[x]
    BY <2>1, GoesTo
  <2>3. \A x \in updates : x \in Payments
    BY DEF ShopTypes
  <2>4. ShopTypes' /\ Worth'
    BY <1>1, <2>2 DEF ShopTypes, Worth
  <2>5. Followed' /\ Remembered'
    BY <1>1, <2>1, <2>2, <2>3 DEF Followed, Remembered, Approved
  <2>6. QED
    BY <1>1, <2>4, <2>5, BilledStays
<1>5. QED
  BY <1>2, <1>3, <1>4 DEF HalfAnHourPasses

LEMMA PreCheckoutStep ==
    ASSUME ShopInv, NEW y \in Payments, AnswerPreCheckout(y)
    PROVE  ShopInv'
<1> USE DEF ShopInv
<1> DEFINE o == payments[y].order
           at == IF Payable(y, o) THEN "approved" ELSE "ended"
<1>1. /\ payments[y].at = "asked" /\ Goes(y, at) /\ at \in {"approved", "ended"}
      /\ UNCHANGED <<plan, bot, sub, late, updates, sessions, entries, forms>>
      /\ \/ /\ orders' = IF Payable(y, o) THEN [orders EXCEPT ![o].precheckout = y] ELSE orders
            /\ UNCHANGED unsure
         \/ /\ unsure' = IF Payable(y, o) THEN unsure \cup {o} ELSE unsure
            /\ UNCHANGED orders
  BY DEF AnswerPreCheckout
<1>2. /\ payments' \in [Payments -> PaymentRows] /\ payments'[y].at = at
      /\ \A x \in Payments : payments'[x].order = payments[x].order
      /\ \A x \in Payments \ {y} : payments'[x] = payments[x]
  BY <1>1, GoesTo
<1>3. /\ o \in Orders /\ orders[o] \in OrderRows /\ y \notin updates
      /\ \A x \in updates : x \in Payments
  BY <1>1 DEF Followed, ShopTypes
<1>4. ASSUME NEW q \in Orders
      PROVE  /\ orders'[q] \in OrderRows
             /\ orders'[q].net = orders[q].net /\ orders'[q].brings = orders[q].brings
             /\ orders'[q].paid = orders[q].paid
             /\ orders[q] # NoOrder => orders'[q] # NoOrder
             /\ q # o => orders'[q] = orders[q]
  <2>1. y # Nothing
    BY PlanShopAssumption
  <2>2. CASE orders' = [orders EXCEPT ![o].precheckout = y]
    BY <1>3, <2>1, <2>2 DEF ShopTypes, OrderRows, NoOrder
  <2>3. CASE UNCHANGED orders
    BY <2>3 DEF ShopTypes
  <2>4. QED
    BY <1>1, <2>2, <2>3
<1>5. ShopTypes'
  <2>1. orders' \in [Orders -> OrderRows]
    BY <1>1, <1>4 DEF ShopTypes
  <2>2. QED
    BY <1>1, <1>2, <2>1 DEF ShopTypes
<1>6. Followed'
  BY <1>1, <1>2, <1>3, <1>4 DEF Followed
<1>7. Remembered'
  <2> SUFFICES ASSUME NEW x \in Payments, Approved(x)', payments'[x].order \notin unsure'
               PROVE  orders'[payments'[x].order].precheckout = x
    BY DEF Remembered
  <2>1. unsure \subseteq unsure'
    BY <1>1
  <2>2. CASE x = y
    <3>1. Payable(y, o)
      BY <1>1, <1>2, <1>3, <2>2 DEF Approved
    <3>2. orders' = [orders EXCEPT ![o].precheckout = y]
      BY <1>1, <1>2, <2>2, <3>1
    <3>3. QED
      BY <1>2, <1>3, <2>2, <3>2 DEF ShopTypes, OrderRows
  <2>3. CASE x # y
    <3>1. Approved(x) /\ payments[x].order \notin unsure
      BY <1>1, <1>2, <2>1, <2>3 DEF Approved
    <3>2. orders[payments[x].order].precheckout = x /\ payments[x].order \in Orders
      BY <1>3, <3>1 DEF Remembered, Followed, Approved
    <3>3. CASE payments[x].order # o
      BY <1>2, <1>4, <3>2, <3>3
    <3>4. CASE payments[x].order = o
      <4>1. ~Payable(y, o)
        BY <2>3, <3>2, <3>4, PlanShopAssumption DEF Payable
      <4>2. QED
        BY <1>1, <1>2, <3>2, <4>1
    <3>5. QED
      BY <3>3, <3>4
  <2>4. QED
    BY <2>2, <2>3
<1>8. Worth'
  <2>1. \A x \in Payments : entries[x] > 0 => payments[x].order \in Orders
    BY <1>3 DEF Worth, Followed
  <2>2. QED
    BY <1>1, <1>2, <1>4, <2>1 DEF Worth
<1>9. QED
  BY <1>1, <1>5, <1>6, <1>7, <1>8, BilledStays

(* successful_payment: the first report of the order that is not paid yet  *)
(* pays it and credits it.                                                 *)
LEMMA FulfilStep ==
    ASSUME ShopInv, NEW y \in Payments, PaymentArrives(y)
    PROVE  ShopInv'
<1> USE DEF ShopInv
<1> DEFINE o == payments[y].order
<1>1. /\ payments[y].at = "charged" /\ Fulfil(y)
      /\ UNCHANGED <<plan, bot, late, sessions, unsure, forms>>
      /\ Goes(y, "ended") \/ UNCHANGED payments
      /\ updates' = updates \cup {y}
  BY DEF PaymentArrives, Processed, Fulfil
<1>2. /\ payments' \in [Payments -> PaymentRows] /\ payments'[y].at \in {"charged", "ended"}
      /\ \A x \in Payments : payments'[x].order = payments[x].order
      /\ \A x \in Payments \ {y} : payments'[x] = payments[x]
  BY <1>1, GoesTo DEF ShopTypes
<1>3. /\ o \in Orders /\ orders[o] \in OrderRows /\ orders[o] # NoOrder
      /\ \A x \in updates : x \in Payments
  BY <1>1 DEF Followed, ShopTypes
<1>4. Billed'
  <2>1. \A s \in Purchases, n \in Periods : entries'[<<s, n>>] = entries[<<s, n>>]
    <3>1. UNCHANGED entries \/ entries' = [entries EXCEPT ![y] = ByStars(y)]
      BY <1>1 DEF Fulfil, Credited
    <3>2. y \in References
      BY DEF References
    <3>3. \A q \in References : q # y => entries'[q] = entries[q]
      BY <3>1, <3>2, EntryWritten
    <3>4. QED
      BY <3>3, ReferencesApart
  <2>2. QED
    BY <1>1, <2>1, BilledStays
<1>5. CASE y \notin updates /\ ~orders[o].paid
  <2> DEFINE row == [orders[o] EXCEPT !.paid = TRUE]
  <2>1. /\ orders' = [orders EXCEPT ![o] = row] /\ row \in OrderRows
        /\ row.net = orders[o].net /\ row.brings = orders[o].brings /\ row.paid
        /\ row.precheckout = orders[o].precheckout /\ row # NoOrder
    BY <1>1, <1>3, <1>5 DEF Fulfil, Unpaid, OrderRows, NoOrder
  <2> HIDE DEF row
  <2>2. /\ orders' \in [Orders -> OrderRows] /\ orders'[o] = row
        /\ \A q \in Orders \ {o} : orders'[q] = orders[q]
    BY <1>3, <2>1 DEF ShopTypes
  <2>3. /\ \A q \in Orders : /\ orders'[q].net = orders[q].net
                             /\ orders'[q].brings = orders[q].brings
                             /\ orders'[q].precheckout = orders[q].precheckout
                             /\ orders[q].paid => orders'[q].paid
                             /\ orders[q] # NoOrder => orders'[q] # NoOrder
    BY <2>1, <2>2
  <2>4. entries[y] = 0
    <3>1. entries[y] \in Nat
      BY DEF ShopTypes, References
    <3>2. QED
      BY <1>5, <3>1 DEF Worth
  <2>5. entries' = [entries EXCEPT ![y] = orders[o].net]
    BY <1>1, <1>5, <2>4 DEF Fulfil, Unpaid, Credited, ByStars
  <2>6. /\ entries' \in [References -> Nat] /\ entries'[y] = orders[o].net
        /\ \A x \in Payments \ {y} : entries'[x] = entries[x]
    BY <1>3, <2>5 DEF ShopTypes, References, OrderRows
  <2>7. ShopTypes'
    BY <1>1, <1>2, <2>2, <2>6 DEF ShopTypes
  <2>8. \A x \in Payments : payments[x].at # "none" => payments[x].order \in Orders
    BY DEF Followed
  <2>9. Followed'
    BY <1>1, <1>2, <1>3, <2>1, <2>2, <2>3 DEF Followed
  <2>10. Remembered'
    BY <1>1, <1>2, <1>3, <2>3, <2>8 DEF Remembered, Approved, Followed
  <2>11. Worth'
    <3>1. \A x \in Payments : entries[x] > 0 => payments[x].order # o /\ payments[x].order \in Orders
      BY <1>5, <1>3 DEF Worth, Followed
    <3>2. \A x \in Payments : entries'[x] > 0 =>
              x \in updates' /\ entries'[x] = orders'[payments'[x].order].net
      BY <1>1, <1>2, <1>3, <2>3, <2>6, <3>1 DEF Worth
    <3>3. ASSUME NEW x \in Payments, NEW z \in Payments, entries'[x] > 0, entries'[z] > 0,
                 payments'[x].order = payments'[z].order
          PROVE  x = z
      BY <1>2, <2>6, <3>1, <3>3 DEF Worth
    <3>4. ASSUME NEW q \in Orders, orders'[q].paid, orders'[q].net > 0
          PROVE  \E x \in Payments : payments'[x].order = q /\ entries'[x] > 0
      <4>1. CASE q = o
        BY <1>2, <2>1, <2>2, <2>6, <3>4, <4>1
      <4>2. CASE q # o
        <5>1. PICK x \in Payments : payments[x].order = q /\ entries[x] > 0
          BY <2>2, <3>4, <4>2 DEF Worth
        <5>2. x # y
          BY <4>2, <5>1
        <5>3. QED
          BY <1>2, <2>6, <5>1, <5>2
      <4>3. QED
        BY <4>1, <4>2
    <3>5. \A q \in Orders : orders'[q].net <= orders'[q].brings
      BY <2>3 DEF Worth
    <3>6. QED
      BY <3>2, <3>3, <3>4, <3>5 DEF Worth
  <2>12. QED
    BY <1>4, <2>7, <2>9, <2>10, <2>11
<1>6. CASE y \in updates \/ orders[o].paid
  <2>1. UNCHANGED <<orders, entries>> /\ orders[o].paid
    BY <1>1, <1>6 DEF Fulfil, Unpaid, Followed
  <2>2. ShopTypes'
    BY <1>1, <1>2, <2>1 DEF ShopTypes
  <2>3. Followed' /\ Remembered'
    BY <1>1, <1>2, <1>3, <2>1 DEF Followed, Remembered, Approved
  <2>4. Worth'
    BY <1>1, <1>2, <2>1 DEF Worth
  <2>5. QED
    BY <1>4, <2>2, <2>3, <2>4
<1>7. QED
  BY <1>5, <1>6

(* Stripe's side has entries of its own.                                   *)
LEMMA StripeSteps ==
    ASSUME ShopInv, StripeStep
    PROVE  ShopInv'
<1> USE DEF ShopInv
<1>1. UNCHANGED <<plan, bot, orders, payments, updates, unsure>>
  BY DEF StripeStep, CheckoutSession, CancelStripe, CheckoutCompleted, SubscriptionDeleted,
         ChargePeriod, InvoicePaid
<1>2. ASSUME NEW s \in Purchases, NEW row \in SessionRows,
             sessions' = [sessions EXCEPT ![s] = row], UNCHANGED entries,
             \/ row.price = sessions[s].price
             \/ sessions[s].at = "none",
             \/ row.at # "none"
             \/ row.at = sessions[s].at /\ row.invoice = sessions[s].invoice
      PROVE  ShopInv'
  <2>1. /\ sessions' \in [Purchases -> SessionRows] /\ sessions'[s] = row
        /\ \A r \in Purchases \ {s} : sessions'[r] = sessions[r]
    BY <1>2 DEF ShopTypes
  <2>2. Billed'
    <3> SUFFICES ASSUME NEW r \in Purchases, NEW n \in Periods
                 PROVE  /\ entries[<<r, n>>] \in {0, sessions'[r].price}
                        /\ sessions'[r].at = "none" =>
                              sessions'[r].invoice[n] = "none" /\ entries[<<r, n>>] = 0
      BY <1>2 DEF Billed
    <3>1. /\ entries[<<r, n>>] \in {0, sessions[r].price}
          /\ sessions[r].at = "none" =>
                sessions[r].invoice[n] = "none" /\ entries[<<r, n>>] = 0
      BY DEF Billed
    <3>2. QED
      BY <1>2, <2>1, <3>1
  <2>3. ShopTypes' /\ Worth'
    BY <1>1, <1>2, <2>1 DEF ShopTypes, Worth
  <2>4. QED
    BY <1>1, <2>2, <2>3, StarsStay
<1>3. \A s \in Purchases : sessions[s] \in SessionRows
  BY DEF ShopTypes
<1>4. ASSUME NEW s \in Purchases, CheckoutSession(s) PROVE ShopInv'
  <2> DEFINE row == [sessions[s] EXCEPT !.at = "open", !.price = quote(plan).net]
  <2>1. quote(plan).net \in Nat
    BY QuoteIs DEF ShopTypes
  <2>2. row \in SessionRows /\ row.at = "open"
    BY <1>3, <2>1 DEF SessionRows
  <2>3. sessions' = [sessions EXCEPT ![s] = row] /\ UNCHANGED entries /\ sessions[s].at = "none"
    BY <1>4 DEF CheckoutSession
  <2> HIDE DEF row
  <2>4. QED
    BY <1>2, <2>2, <2>3
<1>5. ASSUME NEW s \in Purchases, CancelStripe(s) \/ SubscriptionDeleted(s) PROVE ShopInv'
  <2>1. PICK at \in {"canceled", "deleted"} : sessions' = [sessions EXCEPT ![s].at = at]
    BY <1>5 DEF CancelStripe, SubscriptionDeleted
  <2> DEFINE row == [sessions[s] EXCEPT !.at = at]
  <2>2. row \in SessionRows /\ row.at # "none" /\ row.price = sessions[s].price
    BY <1>3 DEF SessionRows
  <2>3. sessions' = [sessions EXCEPT ![s] = row] /\ UNCHANGED entries
    BY <1>5, <2>1 DEF CancelStripe, SubscriptionDeleted
  <2> HIDE DEF row
  <2>4. QED
    BY <1>2, <2>2, <2>3
<1>6. ASSUME NEW s \in Purchases, CheckoutCompleted(s) PROVE ShopInv'
  <2> DEFINE row == [sessions[s] EXCEPT !.completed = "processed"]
  <2>1. /\ row \in SessionRows /\ row.price = sessions[s].price /\ row.at = sessions[s].at
        /\ row.invoice = sessions[s].invoice
    BY <1>3 DEF SessionRows
  <2>2. sessions' = [sessions EXCEPT ![s] = row] /\ UNCHANGED entries
    BY <1>6 DEF CheckoutCompleted
  <2> HIDE DEF row
  <2>3. QED
    BY <1>2, <2>1, <2>2
<1>7. ASSUME NEW s \in Purchases, NEW n \in Periods, ChargePeriod(s, n) PROVE ShopInv'
  <2> DEFINE row == [sessions[s] EXCEPT !.at = "running", !.invoice[n] = "paid",
                        !.completed = IF n = 1 THEN "sent" ELSE @]
  <2>1. row \in SessionRows /\ row.price = sessions[s].price /\ row.at = "running"
    BY <1>3 DEF SessionRows
  <2>2. sessions' = [sessions EXCEPT ![s] = row] /\ UNCHANGED entries
    BY <1>3, <1>7 DEF ChargePeriod, SessionRows, ShopTypes
  <2> HIDE DEF row
  <2>3. QED
    BY <1>2, <2>1, <2>2
<1>8. ASSUME NEW s \in Purchases, NEW n \in Periods, InvoicePaid(s, n) PROVE ShopInv'
  <2>1. /\ sessions[s].invoice[n] = "paid" /\ <<s, n>> \in References
        /\ sessions' = [sessions EXCEPT ![s].invoice[n] = "processed"]
        /\ entries' = entries \/ entries' = [entries EXCEPT ![<<s, n>>] = sessions[s].price]
    BY <1>8 DEF InvoicePaid, Credited, References
  <2>2. sessions[s].at # "none" /\ sessions[s].price \in Nat
    BY <1>3, <2>1 DEF Billed, SessionRows
  <2>3. /\ sessions' \in [Purchases -> SessionRows]
        /\ sessions'[s].at = sessions[s].at /\ sessions'[s].price = sessions[s].price
        /\ \A r \in Purchases \ {s} : sessions'[r] = sessions[r]
    BY <1>3, <2>1 DEF ShopTypes, SessionRows
  <2>4. entries' \in [References -> Nat]
    BY <2>1, <2>2 DEF ShopTypes
  <2>5. \A y \in Payments : entries'[y] = entries[y]
    BY <2>1, ReferencesApart DEF ShopTypes
  <2>6. \A r \in Purchases, m \in Periods :
            \/ entries'[<<r, m>>] = entries[<<r, m>>]
            \/ r = s /\ entries'[<<r, m>>] = sessions[s].price
    <3> SUFFICES ASSUME NEW r \in Purchases, NEW m \in Periods
                 PROVE  \/ entries'[<<r, m>>] = entries[<<r, m>>]
                        \/ r = s /\ entries'[<<r, m>>] = sessions[s].price
      OBVIOUS
    <3>1. <<r, m>> \in References
      BY DEF References
    <3>2. /\ \A q \in References : q # <<s, n>> => entries'[q] = entries[q]
          /\ entries'[<<s, n>>] \in {entries[<<s, n>>], sessions[s].price}
      BY <2>1, EntryWritten
    <3>3. CASE <<r, m>> = <<s, n>>
      <4>1. r = s /\ m = n
        BY <3>3
      <4>2. QED
        BY <3>2, <4>1
    <3>4. CASE <<r, m>> # <<s, n>>
      BY <3>1, <3>2, <3>4
    <3>5. QED
      BY <3>3, <3>4
  <2>7. Billed'
    <3> SUFFICES ASSUME NEW r \in Purchases, NEW m \in Periods
                 PROVE  /\ entries'[<<r, m>>] \in {0, sessions'[r].price}
                        /\ sessions'[r].at = "none" =>
                              sessions'[r].invoice[m] = "none" /\ entries'[<<r, m>>] = 0
      BY DEF Billed
    <3>1. /\ entries[<<r, m>>] \in {0, sessions[r].price}
          /\ sessions[r].at = "none" =>
                sessions[r].invoice[m] = "none" /\ entries[<<r, m>>] = 0
      BY DEF Billed
    <3>2. QED
      BY <2>2, <2>3, <2>6, <3>1
  <2>8. ShopTypes' /\ Worth'
    BY <1>1, <2>3, <2>4, <2>5 DEF ShopTypes, Worth
  <2>9. QED
    BY <1>1, <2>7, <2>8, StarsStay
<1>9. QED
  BY <1>4, <1>5, <1>6, <1>7, <1>8 DEF StripeStep

LEMMA ShopStep == ShopInv /\ [ShopNext]_shopVars => ShopInv'
<1> SUFFICES ASSUME ShopInv, [ShopNext]_shopVars PROVE ShopInv'
  OBVIOUS
<1>1. CASE UNCHANGED shopVars
  BY <1>1 DEF shopVars, ShopInv, ShopTypes, Followed, Remembered, Approved, Worth, Billed
<1>2. CASE StarsStep
  BY <1>2, CheckoutStep, LinkStep, PreCheckoutStep, FulfilStep DEF StarsStep
<1>3. QED
  BY <1>1, <1>2, FormStep, StripeSteps DEF ShopNext

LEMMA ShopAlways == ShopSpec => []ShopInv
BY ShopAtFirst, ShopStep, PTL DEF ShopSpec

(* A set whose elements are all equal.                                     *)
LEMMA AtMostOne ==
    ASSUME NEW S, \A x, y \in S : x = y
    PROVE  IsFiniteSet(S) /\ Cardinality(S) <= 1
<1>1. CASE S = {}
  BY <1>1, FS_EmptySet
<1>2. ASSUME NEW x, S = {x} PROVE IsFiniteSet(S) /\ Cardinality(S) <= 1
  <2>1. IsFiniteSet({x}) /\ Cardinality({x}) = 1
    BY FS_Singleton
  <2>2. QED
    BY <1>2, <2>1
<1>3. S = {} \/ \E x : S = {x}
  OBVIOUS
<1>4. QED
  BY <1>1, <1>2, <1>3

(* WebhookView and credit_payment: what is credited is what the creator    *)
(* agreed to, once for an order.                                           *)
THEOREM CreditsAreAgreed == ShopSpec => []CreditedAsAgreed
<1>1. ShopInv => CreditedAsAgreed
  <2> SUFFICES ASSUME ShopInv PROVE CreditedAsAgreed
    OBVIOUS
  <2>1. ASSUME NEW o \in Orders
        PROVE  /\ Cardinality(Credits(o)) <= 1
               /\ \A y \in Credits(o) : entries[y] = orders[o].net /\ orders[o].net <= orders[o].brings
    <3>1. \A x, y \in Credits(o) : x = y
      BY DEF Credits, ShopInv, Worth
    <3>2. QED
      BY <3>1, AtMostOne DEF Credits, ShopInv, Worth
  <2>2. QED
    BY <2>1 DEF CreditedAsAgreed, ShopInv, Billed
<1>2. QED
  BY <1>1, ShopAlways, PTL

(* The pre-checkout lets one payment of an order through, unless Telegram  *)
(* has an approval that was undone.                                        *)
THEOREM OrdersAreChargedOnce == ShopSpec => []ChargedOnce
<1>1. ShopInv => ChargedOnce
  <2> SUFFICES ASSUME ShopInv, NEW o \in Orders, o \notin unsure
               PROVE  ~(Cardinality(Charged(o)) > 1)
    BY DEF ChargedOnce
  <2>1. \A x, y \in Charged(o) : x = y
    BY DEF Charged, ShopInv, Remembered, Approved
  <2>2. IsFiniteSet(Charged(o)) /\ Cardinality(Charged(o)) <= 1
    BY <2>1, AtMostOne
  <2>3. QED
    BY <2>2, FS_CardinalityType
<1>2. QED
  BY <1>1, ShopAlways, PTL

(* An order that was charged is credited, or Telegram still reports it.    *)
THEOREM ChargesAreNotForgotten == ShopSpec => []ChargeIsNotForgotten
<1>1. ShopInv => ChargeIsNotForgotten
  <2> SUFFICES ASSUME ShopInv, NEW o \in Orders, NEW y \in Charged(o), orders[o].net > 0
               PROVE  \/ Credits(o) # {}
                      \/ \E x \in Charged(o) : payments[x].at = "charged" /\ x \notin updates
    BY DEF ChargeIsNotForgotten
  <2>1. CASE y \in updates
    <3>1. orders[o].paid
      BY <2>1 DEF Charged, ShopInv, Followed
    <3>2. QED
      BY <3>1 DEF Credits, ShopInv, Worth
  <2>2. CASE y \notin updates
    BY <2>2 DEF Charged
  <2>3. QED
    BY <2>1, <2>2
<1>2. QED
  BY <1>1, ShopAlways, PTL
==============================================================================
