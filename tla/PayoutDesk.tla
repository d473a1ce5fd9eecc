----------------------------- MODULE PayoutDesk -----------------------------
(***************************************************************************)
(* The Payoneer page of the staff, frontend/src/pages/admin/               *)
(* AdminPayoneerPage.tsx, with the views and services of backend/payoneer  *)
(* and the mass payouts of Payoneer.                                       *)
(*                                                                         *)
(* Administrators edit the accounts; a form sends every field, as it was   *)
(* copied from a row that may have changed or gone since, so it is no      *)
(* state of its own: any fields can arrive for any row.  One finance page  *)
(* pays: its buttons can be pressed again while a call is under way, so    *)
(* submissions and status checks of one payout overlap.                    *)
(*                                                                         *)
(* An account has two roles, checkout and payouts, with the same fields;   *)
(* credentials are the identifiers of a role together with its secret.     *)
(* Amounts and descriptions are left out: a row keeps what it was created  *)
(* with.                                                                   *)
(***************************************************************************)
EXTENDS Naturals, FiniteSets

CONSTANTS
    Accounts,   \* rows payoneer_accounts can hold
    Roles,      \* roles of an account
    Paying,     \* the role payouts need
    Payees,     \* rows payoneer_payees can hold
    AccountOf,  \* the account a payee is added to
    Payouts,    \* rows payoneer_payouts can hold
    Refs,       \* references the server can draw
    None,       \* nobody, nothing
    MaxTurns,   \* bound: saves and removals of accounts, and payouts, in all
    MaxChecks,  \* bound: status checks under way at once
    MaxFaults   \* bound: calls whose answer is lost or refused

ASSUME PayoutDeskAssumption ==
    /\ Paying \in Roles
    /\ AccountOf \in [Payees -> Accounts]
    /\ None \notin Accounts \cup Payees \cup Payouts \cup Refs
    /\ MaxTurns \in Nat /\ MaxChecks \in Nat /\ MaxFaults \in Nat

VARIABLES
    account,  \* payoneer_accounts
    payee,    \* payoneer_payees: status
    payout,   \* payoneer_payouts
    order,    \* Payoneer: payout orders, by reference
    sending,  \* submit_payout calls that have not ended, by payout
    checks,   \* refresh_payout calls that have asked Payoneer
    turns, faults

payoutVars  == <<payout, order, sending, checks>>
payoutDeskVars == <<account, payee, payoutVars, turns, faults>>

-----------------------------------------------------------------------------
Fields == [active : BOOLEAN, enabled : SUBSET Roles, default : SUBSET Roles,
           keys : SUBSET Roles]
NoRow == [active |-> FALSE, enabled |-> {}, default |-> {}, keys |-> {}, saved |-> FALSE]
Saved(fields) == [active |-> fields.active, enabled |-> fields.enabled,
                  default |-> fields.default, keys |-> fields.keys, saved |-> TRUE]

(* checkout_ready and payouts_ready. *)
Ready(a, role) == account[a].active /\ role \in account[a].enabled /\ role \in account[a].keys

Terminal == {"transferred", "failed", "canceled"}
NoPayout == [status |-> "none"]
Created == {r \in Payouts : payout[r] # NoPayout}
Drawn == {payout[r].ref : r \in Created}

PayoutInit ==
    /\ account = [a \in Accounts |-> NoRow]
    /\ payee = [p \in Payees |-> "none"]
    /\ payout = [r \in Payouts |-> NoPayout]
    /\ order = [f \in Refs |-> [state |-> "unknown", payout |-> None]]
    /\ sending = {} /\ checks = {}
    /\ turns = 0 /\ faults = 0

-----------------------------------------------------------------------------
(* AccountSerializer.validate. *)
Valid(fields) ==
    /\ fields.default \subseteq fields.enabled
    /\ fields.default # {} => fields.active

(* save_account: a role the account is the default of is taken from the    *)
(* account that had it.                                                    *)
Written(a, fields) ==
    [b \in Accounts |-> IF b = a THEN Saved(fields)
                        ELSE [account[b] EXCEPT !.default = @ \ fields.default]]

(* AccountForm: a new row, or all the fields of one that is still there.   *)
SaveAccount(a, fields) ==
    /\ turns < MaxTurns
    /\ Valid(fields)
    /\ account' = Written(a, fields)
    /\ turns' = turns + 1
    /\ UNCHANGED <<payee, payoutVars, faults>>

(* Mutant of Deactivated: only the switch is turned. *)
DeactivatedOnly(a) == [account[a] EXCEPT !.active = FALSE]

Deactivated(a) == [account[a] EXCEPT !.active = FALSE, !.default = {}]

(* AccountRow "remove": an account that has payees is only switched off.   *)
RemoveAccount(a) ==
    /\ account[a].saved
    /\ turns < MaxTurns
    /\ account' = [account EXCEPT ![a] =
          IF \E p \in Payees : AccountOf[p] = a /\ payee[p] # "none"
          THEN Deactivated(a) ELSE NoRow]
    /\ turns' = turns + 1
    /\ UNCHANGED <<payee, payoutVars, faults>>

-----------------------------------------------------------------------------
(* The payees: added to an account that can pay, and registered at         *)
(* Payoneer by the link of the invitation.                                 *)
AddPayee(p) ==
    /\ payee[p] = "none" /\ Ready(AccountOf[p], Paying)
    /\ payee' = [payee EXCEPT ![p] = "invited"]
    /\ UNCHANGED <<account, payoutVars, turns, faults>>

(* refresh_payee: what is neither active nor still to be registered is     *)
(* inactive.                                                               *)
RefreshPayee(p, answer) ==
    /\ payee[p] # "none" /\ Ready(AccountOf[p], Paying)
    /\ answer # "pending"
    /\ payee' = [payee EXCEPT ![p] = IF answer = "active" THEN "active" ELSE "inactive"]
    /\ UNCHANGED <<account, payoutVars, turns, faults>>

-----------------------------------------------------------------------------
(* create_payout: the row is committed before Payoneer is asked.           *)
CreatePayout(r, p, f) ==
    /\ payee[p] = "active" /\ Ready(AccountOf[p], Paying)
    /\ turns < MaxTurns
    /\ r \notin Created /\ f \notin Drawn
    /\ payout' = [payout EXCEPT ![r] = [status |-> "submitting", payee |-> p, ref |-> f]]
    /\ sending' = sending \cup {[payout |-> r, ref |-> f, phase |-> "ask", form |-> TRUE]}
    /\ turns' = turns + 1
    /\ UNCHANGED <<account, payee, order, checks, faults>>

(* The form can be sent again only when its call has ended: after an error *)
(* too, with all it held.                                                  *)
PressSend(r, p, f) ==
    /\ \A c \in sending : ~c.form
    /\ CreatePayout(r, p, f)

(* Mutant of Resubmit: a new reference for a new submission. *)
ResubmitAnew(r) ==
    /\ r \in Created /\ payout[r].status = "submitting"
    /\ \A c \in sending : c.payout # r \/ c.form
    /\ \E f \in Refs \ Drawn :
          /\ payout' = [payout EXCEPT ![r].ref = f]
          /\ sending' = sending \cup {[payout |-> r, ref |-> f, phase |-> "ask", form |-> FALSE]}
    /\ UNCHANGED <<account, payee, order, checks, turns, faults>>

(* "Send again" on a row that is still being submitted; the answer of the  *)
(* first submission may be under way.                                      *)
Resubmit(r) ==
    /\ r \in Created /\ payout[r].status = "submitting"
    /\ \A c \in sending : c.payout # r \/ c.form
    /\ sending' = sending \cup
          {[payout |-> r, ref |-> payout[r].ref, phase |-> "ask", form |-> FALSE]}
    /\ UNCHANGED <<account, payee, payout, order, checks, turns, faults>>

PayingReady(r) == Ready(AccountOf[payout[r].payee], Paying)

(* submit_payout: Payoneer takes a reference once; the call may fail on    *)
(* either side of that, and fails for an account that cannot pay any more. *)
AskPayoneer(c) ==
    /\ c \in sending /\ c.phase = "ask" /\ PayingReady(c.payout)
    /\ order' = IF order[c.ref].state # "unknown" THEN order
                ELSE [order EXCEPT ![c.ref] = [state |-> "pending", payout |-> c.payout]]
    /\ sending' = (sending \ {c}) \cup {[c EXCEPT !.phase = "write"]}
    /\ UNCHANGED <<account, payee, payout, checks, turns, faults>>

SendingFails(c) ==
    /\ c \in sending
    /\ IF c.phase = "ask" /\ ~PayingReady(c.payout) THEN faults' = faults
       ELSE faults < MaxFaults /\ faults' = faults + 1
    /\ sending' = sending \ {c}
    /\ UNCHANGED <<account, payee, payout, order, checks, turns>>

RecordSubmission(c) ==
    /\ c \in sending /\ c.phase = "write"
    /\ payout' = [payout EXCEPT ![c.payout].status = IF @ = "submitting" THEN "pending" ELSE @]
    /\ sending' = sending \ {c}
    /\ UNCHANGED <<account, payee, order, checks, turns, faults>>

(* refresh_payout: the row was read before Payoneer is asked, and it is    *)
(* written from what was read then.                                        *)
AskStatus(r) ==
    /\ r \in Created /\ PayingReady(r)
    /\ Cardinality(checks) < MaxChecks
    /\ checks' = checks \cup
          {[payout |-> r, read |-> payout[r].status, state |-> order[payout[r].ref].state]}
    /\ UNCHANGED <<account, payee, payout, order, sending, turns, faults>>

StatusMap(state) == IF state = "returned" THEN "failed" ELSE state

Reported(c) ==
    IF c.state = "unknown" \/ c.read \notin {"submitting", "pending"} THEN c.read
    ELSE StatusMap(c.state)

WriteStatus(c) ==
    /\ c \in checks
    /\ payout' = IF Reported(c) = c.read THEN payout
                 ELSE [payout EXCEPT ![c.payout].status = Reported(c)]
    /\ checks' = checks \ {c}
    /\ UNCHANGED <<account, payee, order, sending, turns, faults>>

(* Payoneer carries an order out, or not; money can come back. *)
MoveOrder(f, state) ==
    /\ \/ order[f].state = "pending" /\ state \in Terminal
       \/ order[f].state = "transferred" /\ state = "returned"
    /\ order' = [order EXCEPT ![f].state = state]
    /\ UNCHANGED <<account, payee, payout, sending, checks, turns, faults>>

-----------------------------------------------------------------------------
AccountStep(a, forms) ==
    \/ RemoveAccount(a)
    \/ \E fields \in forms : SaveAccount(a, fields)

PayeeStep(p) ==
    \/ AddPayee(p)
    \/ \E answer \in {"active", "pending", "declined"} : RefreshPayee(p, answer)

PayoutStep(r) ==
    \/ Resubmit(r) \/ AskStatus(r)
    \/ \E p \in Payees, f \in Refs : PressSend(r, p, f)

CallStep ==
    \/ \E c \in sending : AskPayoneer(c) \/ SendingFails(c) \/ RecordSubmission(c)
    \/ \E c \in checks : WriteStatus(c)

PayoutsStep ==
    \/ \E r \in Payouts : PayoutStep(r)
    \/ CallStep
    \/ \E f \in Refs, state \in Terminal \cup {"returned"} : MoveOrder(f, state)

PayoutNext ==
    \/ \E a \in Accounts : AccountStep(a, Fields)
    \/ \E p \in Payees : PayeeStep(p)
    \/ PayoutsStep

PayoutSpec == PayoutInit /\ [][PayoutNext]_payoutDeskVars

-----------------------------------------------------------------------------
(* A role has at most one default account, and that account is active and  *)
(* has the role switched on, whoever saves which old copy of a row last    *)
(* and whichever account is removed (save_account, the partial unique      *)
(* constraints of models.py, Account.delete).                              *)
DefaultIsUsable ==
    \A a \in Accounts, role \in Roles : role \in account[a].default =>
        /\ account[a].active /\ role \in account[a].enabled
        /\ \A b \in Accounts : role \in account[b].default => b = a

(* One payout is never two orders at Payoneer, however often it is sent    *)
(* again, before or after a lost answer: AdminPayoneerPage says that every *)
(* payment has an ID of its own and sending again does not pay twice.      *)
PaidOnce ==
    \A f, g \in Refs :
        order[f].state # "unknown" /\ order[f].payout = order[g].payout => f = g
=============================================================================
