--------------------------- MODULE AgreementDesk ---------------------------
(***************************************************************************)
(* The contract page and the billing page of a creator (frontend/src/      *)
(* pages/creator/ContractPage.tsx, BillingPage.tsx) with                   *)
(* backend/contracts and the Stripe part of backend/billing.               *)
(*                                                                         *)
(* Contract: a creator reads a version in one of several tabs, ticks the   *)
(* consents and signs, while the administrator publishes and retires       *)
(* versions.  sign_contract reads, locks and writes in one transaction     *)
(* that another tab's can overlap.                                         *)
(*                                                                         *)
(* Billing: a plan is bought and a card is saved on pages of Stripe.       *)
(* Stripe then reports, in any order, and a handler loads the creator's    *)
(* subscription row and writes it back, whole or in part, with no lock, so *)
(* handlers overlap.  All sessions of a creator have one Stripe customer,  *)
(* by which a report of any of them finds the row.                         *)
(***************************************************************************)
EXTENDS Naturals, FiniteSets, Sequences, FiniteSetsExt

CONSTANTS
    Versions,       \* contract versions, ordered by effective_from
    Tabs,           \* tabs in which the contract page is open
    PaidPlans,      \* plans that cost something
    Free,           \* the free plan
    Sessions,       \* Stripe checkout sessions
    MaxEdits,       \* bound: versions published or retired
    MaxContracts,   \* bound: "sign" is pressed only below it
    MaxReports,     \* bound: handlers at work at once
    MaxWaiting      \* bound: Stripe goes on only while fewer reports wait

ASSUME AgreementDeskAssumption ==
    /\ Versions \subseteq Nat \ {0}
    /\ Free \notin PaidPlans
    /\ MaxEdits \in Nat /\ MaxContracts \in Nat /\ MaxReports \in Nat /\ MaxWaiting \in Nat

VARIABLES
    active,         \* contract_versions: those with is_active
    contracts,      \* contracts of the creator, in the order they were made
    edits,
    contractTab,    \* what each tab has loaded, what is ticked, its request
    subscription,   \* the subscriptions row
    session,        \* Stripe: the sessions and what became of them
    reports,        \* Stripe: reports that were not taken up yet
    handlers        \* reports being handled, with the row they loaded

contractVars  == <<active, contracts, edits, contractTab>>
billingVars   == <<subscription, session, reports, handlers>>
agreementVars == <<contractVars, billingVars>>

-----------------------------------------------------------------------------
Plans == PaidPlans \cup {Free}

NoRow == [plan |-> Free, status |-> "none", card |-> FALSE]

(* A creator who has saved a card before. *)
CardRow == [NoRow EXCEPT !.status = "trialing", !.card = TRUE]

Idle == [phase |-> "idle", version |-> 0, read |-> 0, locked |-> {}]

AgreementInit ==
    /\ active = {}
    /\ contracts = <<>>
    /\ edits = 0
    /\ contractTab = [t \in Tabs |->
          [version |-> 0, signed |-> FALSE, card |-> FALSE, ticked |-> 0, request |-> Idle]]
    /\ subscription \in {NoRow, CardRow}
    /\ session = [s \in Sessions |->
          [mode |-> "none", plan |-> Free, phase |-> "none"]]
    /\ reports = {} /\ handlers = {}

-----------------------------------------------------------------------------
(* get_active_contract_version: 0 when there is none. *)
Current == IF active = {} THEN 0 ELSE Max(active)

(* get_signed_contract *)
SignedActive(v) == {n \in DOMAIN contracts : contracts[n].version = v /\ contracts[n].standing = "active"}

(* Django admin: several versions may be active. *)
EditVersions(v) ==
    /\ edits < MaxEdits /\ edits' = edits + 1
    /\ active' = IF v \in active THEN active \ {v} ELSE active \cup {v}
    /\ UNCHANGED <<contracts, contractTab, billingVars>>

(* Mutant of Reset: the boxes stay ticked when another version comes up. *)
ResetNever(t) == contractTab[t].ticked

(* The effect on versionQuery.data.id clears the boxes. *)
Reset(t) == IF contractTab[t].version = Current THEN contractTab[t].ticked ELSE 0

(* GET /contracts/current *)
LoadContract(t) ==
    /\ contractTab' = [contractTab EXCEPT ![t] =
          [@ EXCEPT !.version = Current, !.signed = SignedActive(Current) # {},
                    !.card = subscription.card, !.ticked = Reset(t)]]
    /\ UNCHANGED <<active, contracts, edits, billingVars>>

SignOffered(t) ==
    /\ contractTab[t].version # 0
    /\ ~contractTab[t].signed

TickConsents(t) ==
    /\ SignOffered(t)
    /\ contractTab' = [contractTab EXCEPT ![t].ticked = contractTab[t].version]
    /\ UNCHANGED <<active, contracts, edits, billingVars>>

(* "Sign": the mandatory boxes are ticked, a card is known, and the id of  *)
(* the version on the page is sent.                                        *)
PressSign(t) ==
    /\ Len(contracts) < MaxContracts
    /\ SignOffered(t) /\ contractTab[t].card
    /\ contractTab[t].ticked # 0
    /\ contractTab[t].request.phase = "idle"
    /\ contractTab' = [contractTab EXCEPT ![t].request =
          [Idle EXCEPT !.phase = "asked", !.version = contractTab[t].version,
                       !.read = contractTab[t].ticked]]
    /\ UNCHANGED <<active, contracts, edits, billingVars>>

VersionToSign(t) == contractTab[t].request.version

(* sign_contract: refused when the version is retired or already signed. *)
CheckVersion(t) ==
    /\ contractTab[t].request.phase = "asked"
    /\ LET v == VersionToSign(t) IN
       contractTab' = [contractTab EXCEPT ![t].request =
          IF v \in active /\ SignedActive(v) = {}
          THEN [@ EXCEPT !.phase = "checked", !.version = v]
          ELSE Idle]
    /\ UNCHANGED <<active, contracts, edits, billingVars>>

(* select_for_update of the active contracts: waits for whoever holds one. *)
LockPrevious(t) ==
    LET previous == {n \in DOMAIN contracts : contracts[n].standing = "active"} IN
    /\ contractTab[t].request.phase = "checked"
    /\ \A u \in Tabs : contractTab[u].request.locked \cap previous = {}
    /\ contractTab' = [contractTab EXCEPT
          ![t].request.phase = "locked", ![t].request.locked = previous]
    /\ UNCHANGED <<active, contracts, edits, billingVars>>

(* The contract that a request makes; "read" is the version whose boxes    *)
(* were ticked.                                                            *)
NewContract(request) ==
    [version |-> request.version, read |-> request.read, standing |-> "active"]

(* The earlier contracts are superseded and the new one is made. *)
Sign(t) ==
    LET request == contractTab[t].request IN
    /\ request.phase = "locked"
    /\ contracts' = Append(
          [n \in DOMAIN contracts |->
              IF n \in request.locked THEN [contracts[n] EXCEPT !.standing = "superseded"]
              ELSE contracts[n]],
          NewContract(request))
    /\ contractTab' = [contractTab EXCEPT ![t].request = Idle]
    /\ UNCHANGED <<active, edits, billingVars>>

-----------------------------------------------------------------------------
(* Subscription.objects.get_or_create with the model's default status. *)
RowFor(p) ==
    IF subscription.status = "none"
    THEN [NoRow EXCEPT !.plan = p, !.status = "trialing"]
    ELSE subscription

(* "Change plan": create_checkout_session.  The page offers every plan but *)
(* the one it has loaded, which may have changed since.                    *)
Checkout(s, p) ==
    /\ session[s].phase = "none"
    /\ session' = [session EXCEPT ![s] = [mode |-> "subscription", plan |-> p, phase |-> "open"]]
    /\ subscription' = RowFor(p)
    /\ UNCHANGED <<contractVars, reports, handlers>>

(* "Manage payment": create_payment_setup_checkout. *)
SetupPayment(s) ==
    /\ session[s].phase = "none"
    /\ session' = [session EXCEPT ![s] = [mode |-> "setup", plan |-> Free, phase |-> "open"]]
    /\ subscription' = RowFor(Free)
    /\ UNCHANGED <<contractVars, reports, handlers>>

-----------------------------------------------------------------------------
(* Stripe.  A session that is completed is paid, or saves a card, or is    *)
(* yet to be paid; a subscription that was paid can be left unpaid at a    *)
(* renewal and can be canceled in the portal.                              *)
Report(types, s, paid) == reports' = reports \cup [type : types, session : {s}, paid : {paid}]

StripeCompletes(s) ==
    /\ session[s].phase = "open"
    /\ Cardinality(reports) < MaxWaiting
    /\ \/ /\ session[s].mode = "setup"
          /\ session' = [session EXCEPT ![s].phase = "saved"]
          /\ Report({"completed", "setup_intent"}, s, FALSE)
       \/ /\ session[s].mode = "subscription"
          /\ session' = [session EXCEPT ![s].phase = "paid"]
          /\ Report({"completed", "updated", "invoice_paid"}, s, TRUE)
       \/ /\ session[s].mode = "subscription"
          /\ session' = [session EXCEPT ![s].phase = "owed"]
          /\ Report({"completed"}, s, FALSE)
    /\ UNCHANGED <<contractVars, subscription, handlers>>

StripeCollects(s) ==
    /\ session[s].phase = "owed"
    /\ Cardinality(reports) < MaxWaiting
    /\ session' = [session EXCEPT ![s].phase = "paid"]
    /\ Report({"updated", "invoice_paid"}, s, TRUE)
    /\ UNCHANGED <<contractVars, subscription, handlers>>

StripeEnds(s) ==
    /\ session[s].phase = "paid"
    /\ Cardinality(reports) < MaxWaiting
    /\ \/ /\ session' = [session EXCEPT ![s].phase = "unpaid"]
          /\ Report({"updated", "payment_failed"}, s, FALSE)
       \/ /\ session' = [session EXCEPT ![s].phase = "canceled"]
          /\ Report({"deleted"}, s, FALSE)
    /\ UNCHANGED <<contractVars, subscription, handlers>>

-----------------------------------------------------------------------------
(* record_and_dispatch_webhook_event.  What a handler writes of the row    *)
(* may come from the row it has loaded; the others are one step.           *)
WrittenAtOnce ==
    [invoice_paid |-> [subscription EXCEPT !.status = "active"],
     deleted      |-> [subscription EXCEPT !.status = "canceled"],
     setup_intent |-> [subscription EXCEPT !.card = TRUE]]

HandleAtOnce(e) ==
    /\ e \in reports /\ e.type \in DOMAIN WrittenAtOnce
    /\ reports' = reports \ {e}
    /\ subscription' = WrittenAtOnce[e.type]
    /\ UNCHANGED <<contractVars, session, handlers>>

LoadRow(e) ==
    /\ e \in reports /\ e.type \notin DOMAIN WrittenAtOnce
    /\ Cardinality(handlers) < MaxReports
    /\ reports' = reports \ {e}
    /\ handlers' = handlers \cup {[event |-> e, row |-> subscription]}
    /\ UNCHANGED <<contractVars, subscription, session>>

(* Mutant of GrantsAccess: every completed session is taken for a purchase. *)
GrantsAccessAlways(e) == TRUE

(* A saved card is no purchase, and a delayed payment must become paid. *)
GrantsAccess(e) == session[e.session].mode # "setup" /\ e.paid

(* _handle_checkout_session_completed: the whole row is saved. *)
CheckoutCompleted(h) ==
    IF GrantsAccess(h.event)
    THEN [h.row EXCEPT !.plan = session[h.event.session].plan, !.status = "active"]
    ELSE subscription

(* _handle_subscription_updated: the whole row is saved. *)
SubscriptionUpdated(h) ==
    [h.row EXCEPT !.card = TRUE, !.status = IF h.event.paid THEN "active" ELSE "past_due"]

(* _handle_invoice_payment_failed: the status that was loaded, or past due. *)
PaymentFailed(h) ==
    [subscription EXCEPT !.status =
        IF h.row.status = "active" THEN "past_due" ELSE h.row.status]

SaveRow(h) ==
    /\ h \in handlers
    /\ handlers' = handlers \ {h}
    /\ subscription' =
          CASE h.event.type = "completed"      -> CheckoutCompleted(h)
            [] h.event.type = "updated"        -> SubscriptionUpdated(h)
            [] h.event.type = "payment_failed" -> PaymentFailed(h)
    /\ UNCHANGED <<contractVars, session, reports>>

-----------------------------------------------------------------------------
ContractStep ==
    \/ \E v \in Versions : EditVersions(v)
    \/ \E t \in Tabs :
          \/ LoadContract(t) \/ TickConsents(t) \/ PressSign(t)
          \/ CheckVersion(t) \/ LockPrevious(t) \/ Sign(t)

BillingStep ==
    \/ \E s \in Sessions : \E p \in PaidPlans : Checkout(s, p)
    \/ \E s \in Sessions :
          SetupPayment(s) \/ StripeCompletes(s) \/ StripeCollects(s) \/ StripeEnds(s)
    \/ \E e \in reports : HandleAtOnce(e) \/ LoadRow(e)
    \/ \E h \in handlers : SaveRow(h)

AgreementNext == ContractStep \/ BillingStep

AgreementSpec == AgreementInit /\ [][AgreementNext]_agreementVars

-----------------------------------------------------------------------------
(* FR-29: a contract is for the version that was on the page when its      *)
(* boxes were ticked, whatever is published, retired or signed in another  *)
(* tab before the request is carried out (ContractPage, sign_contract).    *)
SignedWasRead ==
    \A n \in DOMAIN contracts : contracts[n].version = contracts[n].read

(* A subscription is active only when a session of the creator was paid:   *)
(* saving a card or a payment that is still to come never makes it so, in  *)
(* whatever order the reports come and their handlers overlap              *)
(* (_handle_checkout_session_completed).                                   *)
ActiveWasPaid ==
    subscription.status = "active" =>
    \E s \in Sessions : session[s].phase \in {"paid", "unpaid", "canceled"}
=============================================================================
