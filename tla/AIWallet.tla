------------------------------ MODULE AIWallet ------------------------------
(***************************************************************************)
(* The AI wallet of one creator (backend/billing/wallet.py): credit from   *)
(* paid Stripe invoices, reservations of video jobs, holds of content      *)
(* plans, the debit of every provider call, the reversal of refunds, and   *)
(* the Stripe event inbox (record_and_dispatch_webhook_event) and the      *)
(* reconciliation task (billing/maintenance.py) around them.               *)
(*                                                                         *)
(* Every function of wallet.py is a transaction that locks the wallet row; *)
(* one that reads before the lock takes two steps here.  The creator's     *)
(* plan has an AI budget throughout.  Amounts are whole units: the 70%     *)
(* share of a payment is Grant, and the share of the charge refunded so    *)
(* far, which Stripe reports with every refund, is one of Refunds.         *)
(***************************************************************************)
EXTENDS Integers, FiniteSets

CONSTANTS
    Jobs,      \* video jobs
    Workers,   \* who can be running a stage of a job, redelivered messages included
    Proposals, \* content plans being prepared
    Invoices,  \* paid Stripe invoices
    Grant,     \* AI credit of an invoice
    Refunds,   \* cumulative amounts a charge can have been refunded, in credit
    Budget,    \* job_budget_usd, the ceiling of a job
    Price,     \* what a content plan holds before its call
    Costs,     \* prices of provider calls
    Releasers, \* bound: how many can be releasing one reservation or hold at once
    MaxFaults  \* bound: crashes and failed handlers together

ASSUME AIWalletAssumption ==
    /\ Jobs \cap Proposals = {}
    /\ Releasers \in Nat
    /\ Grant \in Nat /\ Budget \in Nat /\ Price \in Nat
    /\ Refunds \subseteq Nat \ {0}
    /\ Costs \subseteq Nat
    /\ MaxFaults \in Nat

VARIABLES
    balance,   \* ai_wallets.balance_usd
    reserved,  \* ai_wallets.reserved_usd
    claim,     \* remaining_usd of a job, amount_usd of a hold not released
    used,      \* sum of the usage entries
    paid,      \* invoices with a payment entry
    refunded,  \* sum of the refund entries of an invoice
    spent,     \* job_total_cost_usd: committed api_usage_logs of a job
    call,      \* the provider call a worker is making for a job
    planStatus,\* content_plans.status; ready and failed are both "ended"
    planCall,  \* how far prepare_proposal is
    release,   \* how many transactions are releasing a claim
    event,     \* webhook_events.status
    hook,      \* how far the handler of an event is
    answered,  \* Stripe was answered 200 for the event
    lost,      \* history: what a job's calls cost whose debit died with its process
    faults     \* history: crashes and failed handlers so far

walletVars == <<balance, reserved, claim, used, paid, refunded>>
jobVars    == <<spent, call>>
planVars   == <<planStatus, planCall>>
stripeVars == <<event, hook, answered>>
histVars   == <<lost, faults>>
vars == <<walletVars, jobVars, planVars, release, stripeVars, histVars>>

----------------------------------------------------------------------------
Claims == Jobs \cup Proposals

(* invoice.paid is the event with amount 0, charge.refunded the others.    *)
Events == [inv : Invoices, amount : Refunds \cup {0}]

(* Between calls; credit reserved; allowed to call; called and logged, not *)
(* yet debited.                                                            *)
CallPCs == {"idle", "reserved", "allowed", "logged"}
NoCall  == [pc |-> "idle", cost |-> 0]

(* prepare_proposal: not running; taken; held; logged; debited.            *)
PlanPCs == {"idle", "taken", "held", "logged", "debited"}
NoPlanCall == [pc |-> "idle", cost |-> 0]

Init ==
    /\ balance = 0
    /\ reserved = 0
    /\ claim = [c \in Claims |-> 0]
    /\ used = 0
    /\ paid = {}
    /\ refunded = [i \in Invoices |-> 0]
    /\ spent = [j \in Jobs |-> 0]
    /\ call = [j \in Jobs |-> [w \in Workers |-> NoCall]]
    /\ planStatus = [p \in Proposals |-> "pending"]
    /\ planCall = [p \in Proposals |-> NoPlanCall]
    /\ release = [c \in Claims |-> 0]
    /\ event = [e \in Events |-> "none"]
    /\ hook = [e \in Events |-> "off"]
    /\ answered = {}
    /\ lost = [j \in Jobs |-> 0]
    /\ faults = 0

Fault == faults < MaxFaults /\ faults' = faults + 1

At(j, w, pc)  == call' = [call EXCEPT ![j][w].pc = pc]
PlanAt(p, pc) == planCall' = [planCall EXCEPT ![p].pc = pc]

----------------------------------------------------------------------------
(* A video job: reserve, check, call, debit                                *)

(* serialized_paid_stage: a worker holds the advisory lock of the job.     *)
Alone(j, w) == \A v \in Workers \ {w} : call[j][v].pc = "idle"

(* Mutant of ReserveJob: the ceiling forgets what the job has spent.       *)
ReserveWholeBudget(j, w) ==
    /\ call[j][w].pc = "idle" /\ Alone(j, w)
    /\ balance >= reserved
    /\ \/ claim[j] > 0 /\ UNCHANGED <<claim, reserved>>
       \/ /\ claim[j] = 0
          /\ balance - reserved >= Budget
          /\ claim' = [claim EXCEPT ![j] = Budget]
          /\ reserved' = reserved + Budget
    /\ At(j, w, "reserved")
    /\ UNCHANGED <<balance, used, paid, refunded, spent, planVars, release, stripeVars, histVars>>

(* reserve_job, before every call of a stage; for generate_now it is not   *)
(* followed by a call.                                                     *)
ReserveJob(j, w) ==
    LET ceiling == Budget - spent[j] IN
    /\ call[j][w].pc = "idle" /\ Alone(j, w)
    /\ balance >= reserved
    /\ \/ claim[j] > 0 /\ UNCHANGED <<claim, reserved>>
       \/ /\ claim[j] = 0
          /\ ceiling > 0
          /\ balance - reserved >= ceiling
          /\ claim' = [claim EXCEPT ![j] = ceiling]
          /\ reserved' = reserved + ceiling
    /\ At(j, w, "reserved")
    /\ UNCHANGED <<balance, used, paid, refunded, spent, planVars, release, stripeVars, histVars>>

(* ensure_job_call_budget: nothing is locked.                              *)
EnsureJobCallBudget(j, w) ==
    /\ call[j][w].pc = "reserved"
    /\ \/ \E cost \in Costs :
             /\ 0 < cost /\ cost <= claim[j]
             /\ balance >= reserved
             /\ call' = [call EXCEPT ![j][w] = [pc |-> "allowed", cost |-> cost]]
       \/ call' = [call EXCEPT ![j][w] = NoCall]
    /\ UNCHANGED <<walletVars, spent, planVars, release, stripeVars, histVars>>

(* The provider is called and record_api_usage commits its row, at most at *)
(* the price that was checked; a failed call costs nothing.                *)
CallProvider(j, w) ==
    /\ call[j][w].pc = "allowed"
    /\ \E cost \in Costs \cup {0} :
          /\ cost <= call[j][w].cost
          /\ spent' = [spent EXCEPT ![j] = @ + cost]
          /\ call' = [call EXCEPT ![j][w] = [pc |-> "logged", cost |-> cost]]
    /\ UNCHANGED <<walletVars, planVars, release, stripeVars, histVars>>

(* debit_usage, from the post_save signal of the row.                      *)
DebitUsage(j, w) ==
    LET cost == call[j][w].cost
        freed == IF claim[j] < cost THEN claim[j] ELSE cost IN
    /\ call[j][w].pc = "logged"
    /\ balance' = balance - cost
    /\ used' = used + cost
    /\ claim' = [claim EXCEPT ![j] = @ - freed]
    /\ reserved' = reserved - freed
    /\ call' = [call EXCEPT ![j][w] = NoCall]
    /\ UNCHANGED <<paid, refunded, spent, planVars, release, stripeVars, histVars>>

----------------------------------------------------------------------------
(* A content plan: hold, call, debit, release                              *)

(* prepare_proposal takes a pending plan, once.                            *)
StartPlan(p) ==
    /\ planStatus[p] = "pending"
    /\ planStatus' = [planStatus EXCEPT ![p] = "generating"]
    /\ PlanAt(p, "taken")
    /\ UNCHANGED <<walletVars, jobVars, release, stripeVars, histVars>>

(* hold_operation; it refuses when the credit is short.                    *)
HoldOperation(p) ==
    /\ planCall[p].pc = "taken"
    /\ Price > 0 /\ balance - reserved >= Price
    /\ claim' = [claim EXCEPT ![p] = Price]
    /\ reserved' = reserved + Price
    /\ PlanAt(p, "held")
    /\ UNCHANGED <<balance, used, paid, refunded, jobVars, planStatus, release, stripeVars, histVars>>

CallPlanner(p) ==
    /\ planCall[p].pc = "held"
    /\ \E cost \in Costs :
           planCall' = [planCall EXCEPT ![p] = [pc |-> "logged", cost |-> cost]]
    /\ UNCHANGED <<walletVars, jobVars, planStatus, release, stripeVars, histVars>>

(* debit_usage of a row without a job.                                     *)
DebitPlan(p) ==
    /\ planCall[p].pc = "logged"
    /\ balance' = balance - planCall[p].cost
    /\ used' = used + planCall[p].cost
    /\ planCall' = [planCall EXCEPT ![p] = [pc |-> "debited", cost |-> 0]]
    /\ UNCHANGED <<reserved, claim, paid, refunded, jobVars, planStatus, release, stripeVars, histVars>>

----------------------------------------------------------------------------
(* release_job and release_operation: the row is read, the wallet locked,  *)
(* the row read again.                                                     *)

Open(c) ==
    /\ release[c] < Releasers
    /\ release' = [release EXCEPT ![c] = @ + 1]

(* A finished status is saved (by the task or by whoever cancels), or the  *)
(* job waits for approval: release_finished_budget.                        *)
FinishJob(j) ==
    /\ claim[j] > 0
    /\ Open(j)
    /\ UNCHANGED <<walletVars, jobVars, planVars, stripeVars, histVars>>

(* prepare_proposal ends, well or with an exception of the hold, the call  *)
(* or the answer: the plan is ready or failed, the hold is released.       *)
FinishPlan(p) ==
    /\ planCall[p].pc \in {"taken", "held", "debited"}
    /\ planStatus' = [planStatus EXCEPT ![p] = "ended"]
    /\ planCall' = [planCall EXCEPT ![p] = NoPlanCall]
    /\ Open(p)
    /\ UNCHANGED <<walletVars, jobVars, stripeVars, histVars>>

(* Mutant of ReconcileHold: only plans still generating are looked at.     *)
ReconcileGenerating(p) ==
    /\ claim[p] > 0
    /\ planStatus[p] = "generating"
    /\ planStatus' = [planStatus EXCEPT ![p] = "ended"]
    /\ Open(p)
    /\ UNCHANGED <<walletVars, jobVars, planCall, stripeVars, histVars>>

(* reconcile_ai_wallets releases old holds; the two hours it waits are not  *)
(* counted, so it can also meet a worker that is still at it.              *)
ReconcileHold(p) ==
    /\ claim[p] > 0
    /\ planStatus' = [planStatus EXCEPT ![p] = "ended"]
    /\ Open(p)
    /\ UNCHANGED <<walletVars, jobVars, planCall, stripeVars, histVars>>

(* Mutant of Release: a hold that is already released is given back again. *)
ReleaseHeld(c) ==
    /\ release[c] > 0
    /\ reserved' = reserved - (IF c \in Proposals THEN Price ELSE claim[c])
    /\ claim' = [claim EXCEPT ![c] = 0]
    /\ release' = [release EXCEPT ![c] = @ - 1]
    /\ UNCHANGED <<balance, used, paid, refunded, jobVars, planVars, stripeVars, histVars>>

Release(c) ==
    /\ release[c] > 0
    /\ reserved' = reserved - claim[c]
    /\ claim' = [claim EXCEPT ![c] = 0]
    /\ release' = [release EXCEPT ![c] = @ - 1]
    /\ UNCHANGED <<balance, used, paid, refunded, jobVars, planVars, stripeVars, histVars>>

----------------------------------------------------------------------------
(* Payments and refunds                                                    *)

Processed(i) == {e \in Events : e.inv = i /\ e.amount > 0 /\ event[e] = "processed"}

(* Mutant of Reversed: what was reversed before is not taken off.          *)
ReversedAgain(i, n) == refunded[i] + (IF n < Grant THEN n ELSE Grant)

(* What reverse_stripe_refund leaves refunded of invoice i when the charge *)
(* has been refunded n in all: never less than before, never over Grant.   *)
Reversed(i, n) ==
    LET target == IF n < Grant THEN n ELSE Grant IN
    IF target > refunded[i] THEN target ELSE refunded[i]

(* What is refunded of invoice i once its processed refunds are applied.   *)
Applied(i, now) ==
    /\ now \in {refunded[i]} \cup {Reversed(i, r.amount) : r \in Processed(i)}
    /\ \A r \in Processed(i) : Reversed(i, r.amount) <= now

(* Mutant of CreditPayment: the wallet row is saved after the refunds were *)
(* applied, from the object loaded before them.                            *)
CreditSavedLast(e) ==
    /\ e.amount = 0 /\ hook[e] = "started"
    /\ paid' = paid \cup {e.inv}
    /\ \E now \in 0 .. Grant :
          /\ Applied(e.inv, now)
          /\ refunded' = [refunded EXCEPT ![e.inv] = now]
          /\ balance' = balance + (IF e.inv \in paid THEN 0 ELSE Grant)
    /\ hook' = [hook EXCEPT ![e] = "ran"]
    /\ UNCHANGED <<reserved, claim, used, jobVars, planVars, release, event, answered, histVars>>

(* credit_payment: once per invoice; refunds processed earlier are applied *)
(* in the same transaction.                                                *)
CreditPayment(e) ==
    /\ e.amount = 0 /\ hook[e] = "started"
    /\ paid' = paid \cup {e.inv}
    /\ \E now \in 0 .. Grant :
          /\ Applied(e.inv, now)
          /\ refunded' = [refunded EXCEPT ![e.inv] = now]
          /\ balance' = balance + (IF e.inv \in paid THEN 0 ELSE Grant) - (now - refunded[e.inv])
    /\ hook' = [hook EXCEPT ![e] = "ran"]
    /\ UNCHANGED <<reserved, claim, used, jobVars, planVars, release, event, answered, histVars>>

(* reverse_stripe_refund looks for the payment before it locks the wallet. *)
FindGrant(e) ==
    /\ e.amount > 0 /\ hook[e] = "started"
    /\ hook' = [hook EXCEPT ![e] = IF e.inv \in paid THEN "granted" ELSE "ran"]
    /\ UNCHANGED <<walletVars, jobVars, planVars, release, event, answered, histVars>>

ReverseStripeRefund(e) ==
    LET now == Reversed(e.inv, e.amount) IN
    /\ hook[e] = "granted"
    /\ refunded' = [refunded EXCEPT ![e.inv] = now]
    /\ balance' = balance - (now - refunded[e.inv])
    /\ hook' = [hook EXCEPT ![e] = "ran"]
    /\ UNCHANGED <<reserved, claim, used, paid, jobVars, planVars, release, event, answered, histVars>>

(* Mutant of ReconcileRefund: an invoice with a refund entry is skipped.   *)
ReconcileUntouched(e) ==
    LET now == Reversed(e.inv, e.amount) IN
    /\ e \in Processed(e.inv)
    /\ e.inv \in paid
    /\ refunded[e.inv] = 0
    /\ refunded' = [refunded EXCEPT ![e.inv] = now]
    /\ balance' = balance - now
    /\ UNCHANGED <<reserved, claim, used, paid, jobVars, planVars, release, stripeVars, histVars>>

(* reconcile_ai_wallets: processed refunds are applied once more.          *)
ReconcileRefund(e) ==
    LET now == Reversed(e.inv, e.amount) IN
    /\ e \in Processed(e.inv)
    /\ e.inv \in paid
    /\ refunded[e.inv] # now
    /\ refunded' = [refunded EXCEPT ![e.inv] = now]
    /\ balance' = balance - (now - refunded[e.inv])
    /\ UNCHANGED <<reserved, claim, used, paid, jobVars, planVars, release, stripeVars, histVars>>

----------------------------------------------------------------------------
(* record_and_dispatch_webhook_event                                       *)

(* Stripe delivers an event it has no 200 for, in any order and again; one *)
(* that has a row is answered 200 and not handled.                         *)
Deliver(e) ==
    /\ e \notin answered
    /\ IF event[e] = "none"
       THEN /\ event' = [event EXCEPT ![e] = "received"]
            /\ hook' = [hook EXCEPT ![e] = "started"]
            /\ UNCHANGED answered
       ELSE /\ answered' = answered \cup {e}
            /\ UNCHANGED <<event, hook>>
    /\ UNCHANGED <<walletVars, jobVars, planVars, release, histVars>>

MarkProcessed(e) ==
    /\ hook[e] = "ran"
    /\ event' = [event EXCEPT ![e] = "processed"]
    /\ hook' = [hook EXCEPT ![e] = "off"]
    /\ answered' = answered \cup {e}
    /\ UNCHANGED <<walletVars, jobVars, planVars, release, histVars>>

(* The handler raises: FAILED, and a 500 for Stripe to try again.          *)
MarkFailed(e) ==
    /\ hook[e] # "off"
    /\ Fault
    /\ event' = [event EXCEPT ![e] = "failed"]
    /\ hook' = [hook EXCEPT ![e] = "off"]
    /\ UNCHANGED <<walletVars, jobVars, planVars, release, answered, lost>>

----------------------------------------------------------------------------
(* Processes die between two transactions                                  *)

CrashHook(e) ==
    /\ hook[e] # "off"
    /\ Fault
    /\ hook' = [hook EXCEPT ![e] = "off"]
    /\ UNCHANGED <<walletVars, jobVars, planVars, release, event, answered, lost>>

(* The debit of a logged call dies with its process.                       *)
CrashCall(j, w) ==
    /\ call[j][w].pc = "logged"
    /\ Fault
    /\ call' = [call EXCEPT ![j][w] = NoCall]
    /\ lost' = [lost EXCEPT ![j] = @ + call[j][w].cost]
    /\ UNCHANGED <<walletVars, spent, planVars, release, stripeVars>>

(* A plan dies with its process at any point: nobody takes it again, since *)
(* its status is generating.                                               *)
CrashPlan(p) ==
    /\ planCall[p].pc # "idle"
    /\ Fault
    /\ planCall' = [planCall EXCEPT ![p] = NoPlanCall]
    /\ UNCHANGED <<walletVars, jobVars, planStatus, release, stripeVars, lost>>

CrashRelease(c) ==
    /\ release[c] > 0
    /\ Fault
    /\ release' = [release EXCEPT ![c] = @ - 1]
    /\ UNCHANGED <<walletVars, jobVars, planVars, stripeVars, lost>>

----------------------------------------------------------------------------
WorkerStep(j, w) ==
    ReserveJob(j, w) \/ EnsureJobCallBudget(j, w) \/ CallProvider(j, w) \/ DebitUsage(j, w)
        \/ CrashCall(j, w)
PlanStep(p) ==
    StartPlan(p) \/ HoldOperation(p) \/ CallPlanner(p) \/ DebitPlan(p) \/ FinishPlan(p)
        \/ CrashPlan(p)
HookStep(e) ==
    CreditPayment(e) \/ FindGrant(e) \/ ReverseStripeRefund(e) \/ MarkProcessed(e)

Next ==
    \/ \E j \in Jobs : FinishJob(j) \/ \E w \in Workers : WorkerStep(j, w)
    \/ \E p \in Proposals : PlanStep(p) \/ ReconcileHold(p)
    \/ \E c \in Claims : Release(c) \/ CrashRelease(c)
    \/ \E e \in Events : Deliver(e) \/ HookStep(e) \/ MarkFailed(e) \/ CrashHook(e)
    \/ \E e \in Events : ReconcileRefund(e)

Spec == Init /\ [][Next]_vars

(* The beat task reconcile_ai_wallets runs again and again, in a process of *)
(* its own, and a transaction that waits for the wallet row gets it.       *)
FairSpec ==
    /\ Spec
    /\ \A c \in Claims : WF_vars(Release(c))
    /\ \A p \in Proposals : SF_vars(ReconcileHold(p))
    /\ \A e \in Events : WF_vars(ReconcileRefund(e))

----------------------------------------------------------------------------
(* Every column, event and call keeps its shape.                           *)
TypeOK ==
    /\ balance \in Int
    /\ reserved \in Int
    /\ claim \in [Claims -> Nat]
    /\ used \in Nat
    /\ paid \subseteq Invoices
    /\ refunded \in [Invoices -> Nat]
    /\ spent \in [Jobs -> Nat]
    /\ call \in [Jobs -> [Workers -> [pc : CallPCs, cost : Nat]]]
    /\ planStatus \in [Proposals -> {"pending", "generating", "ended"}]
    /\ planCall \in [Proposals -> [pc : PlanPCs, cost : Nat]]
    /\ release \in [Claims -> 0 .. Releasers]
    /\ event \in [Events -> {"none", "received", "processed", "failed"}]
    /\ hook \in [Events -> {"off", "started", "granted", "ran"}]
    /\ answered \subseteq Events
    /\ lost \in [Jobs -> Nat]
    /\ faults \in 0 .. MaxFaults

(* The sum of the amounts of the rows of f: the units of each are told     *)
(* apart and counted.                                                      *)
Units(f) == UNION {{c} \X (1 .. f[c]) : c \in DOMAIN f}
Total(f) == Cardinality(Units(f))

(* The reserved column is what the open reservations and holds add up to,  *)
(* however releases, debits, reconciliation and crashes interleave: two    *)
(* releases of a claim, or a release and a debit, give it back once.       *)
ReservedIsBacked == reserved = Total(claim)

(* The balance column is what the entries add up to: an invoice credited   *)
(* once, every debit, every refund, in whatever order their events came.   *)
BalanceIsLedger == balance = Grant * Cardinality(paid) - used - Total(refunded)

(* Refunds never take back more than the invoice granted, and none is      *)
(* taken from an invoice that granted nothing.                             *)
RefundsWithinGrant == \A i \in Invoices : refunded[i] <= IF i \in paid THEN Grant ELSE 0

(* A job never spends more than its ceiling, but for calls whose debit     *)
(* died with its process: releases by a cancellation under a running call  *)
(* and reservations after them do not reset the ceiling, and the check     *)
(* before a call, which locks nothing, is enough because the stages of a   *)
(* job are serialized (FR-52, reserve_job).                                *)
SpentWithinBudget == \A j \in Jobs : spent[j] <= Budget + lost[j]

(* A hold is given back even if its worker died at any point, or between   *)
(* the plan and the release (reconcile_ai_wallets).                        *)
HoldsAreReturned == \A p \in Proposals : claim[p] > 0 ~> claim[p] = 0

(* A processed refund reaches the wallet even when it came before its      *)
(* payment, or raced with it.                                              *)
RefundsReachWallet ==
    \A e \in Events :
        event[e] = "processed" /\ e.amount > 0 /\ e.inv \in paid
            ~> refunded[e.inv] >= IF e.amount < Grant THEN e.amount ELSE Grant

(* StripeWebhookView: "handler failure: 500 so Stripe retries; event_id    *)
(* makes retry safe": what Stripe need not send again was processed.       *)
AnsweredIsProcessed == \A e \in answered : hook[e] = "off" => event[e] = "processed"
=============================================================================
