---------------------------- MODULE RevenueDesk ----------------------------
(***************************************************************************)
(* The month's revenue: the settlement form of the finance page            *)
(* (frontend/src/pages/admin/SettlementForm.tsx), the statements page of   *)
(* the creator (pages/creator/RevenuePage.tsx), the settlements, closing,  *)
(* finalizing and disputing of backend/revenue, and the charge of          *)
(* billing.create_revenue_share_invoice.                                   *)
(*                                                                         *)
(* A transaction is taken in two steps: it begins with the row lock and    *)
(* everything it reads, and ends with its writes.  The Stripe charge lies  *)
(* between them and is not undone when the transaction is.                 *)
(*                                                                         *)
(* Time is counted in half months, which the review window of 14 days is   *)
(* rounded to: the month p lasts from 2p - 2 to 2p.  Amounts are cents.    *)
(***************************************************************************)
EXTENDS Naturals, FiniteSetsExt

CONSTANTS
    Creators,    \* creators with an active contract
    Jobs,        \* published videos made by the platform
    OwnerOf,     \* the creator of a video
    Months,      \* months that are settled, 1 .. n
    Amounts,     \* revenue of a video or of a creator in a month
    CreatorPct,  \* the creator's share
    Minimum,     \* MIN_REVENUE_SHARE_INVOICE_AMOUNT
    MaxTime,     \* bound: half months
    MaxAborts    \* bound: transactions that fail at their end

ASSUME RevenueDeskAssumption ==
    /\ OwnerOf \in [Jobs -> Creators]
    /\ Months \subseteq Nat \ {0} /\ Amounts \subseteq Nat
    /\ CreatorPct \in 0 .. 100 /\ Minimum \in Nat
    /\ MaxTime \in Nat /\ MaxAborts \in Nat

VARIABLES
    now,
    strict,      \* contract of a creator: revenue_only_platform_published
    settlement,  \* revenue_settlements
    statement,   \* revenue_share_statements
    txs,         \* transactions under way
    charged,     \* Stripe: invoices finalized for a statement
    disputing,   \* the statements a creator has the dispute form open for
    aborts

revenueVars == <<now, strict, settlement, statement, txs, charged, disputing, aborts>>

Window == 1
Ended(p) == now >= 2 * p
NoStatement == [status |-> "none", jobs |-> {}, fee |-> 0, deadline |-> 0, finalized |-> 0]

RevenueInit ==
    /\ now = 0
    /\ strict \in [Creators -> BOOLEAN]
    /\ settlement = {}
    /\ statement = [c \in Creators |-> [p \in Months |-> NoStatement]]
    /\ txs = {}
    /\ charged = [c \in Creators |-> [p \in Months |-> 0]]
    /\ disputing = [c \in Creators |-> {}]
    /\ aborts = 0

Settled(c, p) == {s \in settlement : OwnerOf[s.job] = c /\ s.month = p}

(* Mutant of UserFree: nobody waits for the row of the user. *)
UserFreeAlways(c) == TRUE

(* User.objects.select_for_update: held by a settlement or a closing of    *)
(* the same creator.                                                       *)
UserFree(c) == \A tx \in txs : tx.creator = c => tx.kind = "finalize"

(* Mutant of StatementFree: a dispute does not wait for the row. *)
StatementFreeAlways(c, p) == TRUE

(* RevenueShareStatement.objects.select_for_update. *)
StatementFree(c, p) ==
    \A tx \in txs : ~(tx.kind = "finalize" /\ tx.creator = c /\ tx.month = p)

-----------------------------------------------------------------------------
(* SettlementView.post.  A video that is settled for the month is left as  *)
(* it is: the same request again is answered, another amount is refused.   *)
BeginSettlement(j, p, amount) ==
    LET c == OwnerOf[j] IN
    /\ Ended(p)
    /\ UserFree(c)
    /\ \A s \in Settled(c, p) : s.job # j
    /\ statement[c][p].status = "none"
    /\ txs' = txs \cup {[kind |-> "settle", creator |-> c, month |-> p,
                         settled |-> [job |-> j, month |-> p, amount |-> amount]]}
    /\ UNCHANGED <<now, strict, settlement, statement, charged, disputing, aborts>>

(* SettlementForm: the month is sent with the first day of the next one as *)
(* its end; the whole form is sent again after an error.                   *)
SendSettlement(j, p, end, amount) == end = p + 1 /\ BeginSettlement(j, p, amount)

CommitSettlement(tx) ==
    /\ tx \in txs /\ tx.kind = "settle"
    /\ settlement' = settlement \cup {tx.settled}
    /\ txs' = txs \ {tx}
    /\ UNCHANGED <<now, strict, statement, charged, disputing, aborts>>

-----------------------------------------------------------------------------
(* split_revenue: the creator's share is rounded half up, the platform has *)
(* the rest.                                                               *)
CreatorShare(gross) == (gross * CreatorPct + 50) \div 100
PlatformShare(gross) == gross - CreatorShare(gross)

(* previous_calendar_month. *)
PreviousMonth(p) == now \in {2 * p, 2 * p + 1}

(* close_period_for_user: a statement that exists is left as it is, and    *)
(* there is none without revenue.  Under an older contract the gross comes *)
(* from the synced records, and the statement is final at once.            *)
BeginClosing(c, p, synced) ==
    LET jobs  == IF strict[c] THEN {s.job : s \in Settled(c, p)} ELSE {}
        gross == IF strict[c] THEN MapThenSumSet(LAMBDA s : s.amount, Settled(c, p)) ELSE synced
    IN  /\ PreviousMonth(p)
        /\ UserFree(c)
        /\ statement[c][p].status = "none"
        /\ gross > 0
        /\ txs' = txs \cup
              {[kind |-> "close", creator |-> c, month |-> p, billed |-> FALSE,
                row |-> [status |-> IF strict[c] THEN "draft" ELSE "finalized",
                         jobs |-> jobs, fee |-> PlatformShare(gross),
                         deadline |-> now + Window, finalized |-> now]]}
        /\ UNCHANGED <<now, strict, settlement, statement, charged, disputing, aborts>>

(* finalize_statement, from finalize_reviewed_statements. *)
BeginFinalizing(c, p) ==
    /\ StatementFree(c, p)
    /\ statement[c][p].status = "draft"
    /\ now >= statement[c][p].deadline
    /\ txs' = txs \cup
          {[kind |-> "finalize", creator |-> c, month |-> p, billed |-> FALSE,
            row |-> [statement[c][p] EXCEPT !.status = "finalized", !.finalized = now]]}
    /\ UNCHANGED <<now, strict, settlement, statement, charged, disputing, aborts>>

(* create_revenue_share_invoice, by _invoice_or_carry_forward. *)
Bill(tx) ==
    /\ tx \in txs /\ tx.kind # "settle"
    /\ tx.row.status = "finalized" /\ ~tx.billed
    /\ tx.row.fee >= Minimum
    /\ charged' = [charged EXCEPT ![tx.creator][tx.month] = @ + 1]
    /\ txs' = (txs \ {tx}) \cup {[tx EXCEPT !.billed = TRUE]}
    /\ UNCHANGED <<now, strict, settlement, statement, disputing, aborts>>

(* A creator without a saved payment method is not charged and keeps a     *)
(* final statement.                                                        *)
Closed(tx) ==
    IF tx.row.status = "draft" THEN {"draft"}
    ELSE IF tx.billed THEN {"invoiced"}
    ELSE IF tx.row.fee < Minimum THEN {"carried_forward", "finalized"}
    ELSE {"finalized"}

(* One statement of a creator and month: uq_statement_period. *)
CommitStatement(tx, status) ==
    /\ tx \in txs /\ tx.kind # "settle"
    /\ tx.kind = "close" => statement[tx.creator][tx.month].status = "none"
    /\ status \in Closed(tx)
    /\ statement' = [statement EXCEPT ![tx.creator][tx.month] = [tx.row EXCEPT !.status = status]]
    /\ txs' = txs \ {tx}
    /\ UNCHANGED <<now, strict, settlement, charged, disputing, aborts>>

(* An error of Stripe that is not caught, or the end of the process. *)
Abort(tx) ==
    /\ tx \in txs
    /\ aborts < MaxAborts
    /\ aborts' = aborts + 1
    /\ txs' = txs \ {tx}
    /\ UNCHANGED <<now, strict, settlement, statement, charged, disputing>>

-----------------------------------------------------------------------------
(* RevenuePage: the button is there while the review lasts, or, for a      *)
(* statement that had none, within the window after it was final.          *)
Offered(c, p) ==
    LET row == statement[c][p] IN
    /\ row.status \in {"draft", "finalized", "invoiced"}
    /\ IF strict[c] THEN row.deadline > now ELSE now < row.finalized + Window

OpenDispute(c, p) ==
    /\ Offered(c, p)
    /\ disputing' = [disputing EXCEPT ![c] = {p}]
    /\ UNCHANGED <<now, strict, settlement, statement, txs, charged, aborts>>

CancelDispute(c) ==
    /\ disputing[c] # {}
    /\ disputing' = [disputing EXCEPT ![c] = {}]
    /\ UNCHANGED <<now, strict, settlement, statement, txs, charged, aborts>>

(* dispute_statement: up to the deadline of a draft, then within the       *)
(* window after it was final.                                              *)
Disputable(row) ==
    \/ row.status = "draft" /\ now <= row.deadline
    \/ row.status \in {"finalized", "invoiced"} /\ now <= row.finalized + Window

SendDispute(c, p) ==
    /\ p \in disputing[c]
    /\ StatementFree(c, p)
    /\ Disputable(statement[c][p])
    /\ statement' = [statement EXCEPT ![c][p].status = "disputed"]
    /\ disputing' = [disputing EXCEPT ![c] = {}]
    /\ UNCHANGED <<now, strict, settlement, txs, charged, aborts>>

(* The tasks run on every day: the month does not end before the statements *)
(* of the last one are closed, and a transaction is short.                  *)
Tick ==
    /\ now < MaxTime
    /\ txs = {}
    /\ now' = now + 1
    /\ UNCHANGED <<strict, settlement, statement, txs, charged, disputing, aborts>>

-----------------------------------------------------------------------------
CreatorStep(c, p) ==
    \/ OpenDispute(c, p) \/ SendDispute(c, p) \/ BeginFinalizing(c, p)
    \/ \E synced \in Amounts : BeginClosing(c, p, synced)

TransactionStep(tx) ==
    \/ CommitSettlement(tx) \/ Bill(tx) \/ Abort(tx)
    \/ \E status \in {"draft", "finalized", "invoiced", "carried_forward"} :
          CommitStatement(tx, status)

RevenueNext ==
    \/ \E c \in Creators : CancelDispute(c) \/ \E p \in Months : CreatorStep(c, p)
    \/ \E j \in Jobs, p \in Months, amount \in Amounts : SendSettlement(j, p, p + 1, amount)
    \/ \E tx \in txs : TransactionStep(tx)
    \/ Tick

RevenueSpec == RevenueInit /\ [][RevenueNext]_revenueVars

-----------------------------------------------------------------------------
(* Every settlement of a month is part of the creator's statement for it,  *)
(* whenever it is entered: nothing is added once the statement is there    *)
(* (settlements.py:90-97), although both look before they write.           *)
SettlementsAreCounted ==
    \A c \in Creators, p \in Months :
        strict[c] /\ statement[c][p].status # "none" =>
            statement[c][p].jobs = {s.job : s \in Settled(c, p)}

(* A creator who has disputed a statement is not charged for it any more,  *)
(* whichever of the dispute and the finalizing task began first            *)
(* (test_review_window_prevents_charge_and_dispute_blocks_...).            *)
DisputedIsNotBilled ==
    [][\A c \in Creators, p \in Months :
          statement[c][p].status = "disputed" => charged'[c][p] = charged[c][p]]_revenueVars
=============================================================================
