--------------------------- MODULE ServiceOrders ---------------------------
(***************************************************************************)
(* Website-service orders, from the form in the customer's browser to the  *)
(* refund: frontend/src/pages/creator/WebServicesPage.tsx and              *)
(* pages/admin/AdminWebServicesPage.tsx, the views and services of         *)
(* backend/web_services, and the hosted payment pages of Payoneer.         *)
(*                                                                         *)
(* The price on the customer's page is a cached answer (react-query).  The *)
(* two lists of orders are cached too, but whatever they offer is checked  *)
(* again by the server, so an old list only offers less and the model does *)
(* without them.  A server call that asks Payoneer takes a step before and *)
(* a step after the answer: services.py makes these calls outside its      *)
(* transactions.                                                           *)
(*                                                                         *)
(* An offer is what a contract is built from on the server's side, the     *)
(* price and the terms of a package with the requisites of the executor; a *)
(* document is a draft with an offer, and its checksum is itself.          *)
(***************************************************************************)
EXTENDS Integers, FiniteSets

CONSTANTS
    Packages,   \* packages of the catalog
    Drafts,     \* what the form can hold
    PackageOf,  \* the package a draft orders
    Offers,     \* offers an operator can make of a package
    PriceOf,    \* price_usd of an offer
    Pages,      \* payment pages Payoneer can open
    None,       \* no page, no document, no package chosen
    MaxPending, \* MAX_PENDING of services.py
    MaxOrders,  \* bound: request keys the browser draws
    MaxAgreed,  \* bound: documents agreed to before the form is left alone
    MaxChanges  \* bound: changes the operator makes to offers and sales

ASSUME ServiceOrdersAssumption ==
    /\ PackageOf \in [Drafts -> Packages]
    /\ PriceOf \in [Offers -> Nat]
    /\ None \notin Pages \cup Drafts
    /\ MaxPending \in Nat /\ MaxOrders \in Nat
    /\ MaxAgreed \in Nat /\ MaxChanges \in Nat

Keys == 1 .. MaxOrders

VARIABLES
    offer,     \* service_packages and executor_profile: the offer of a package
    changes,   \* bound: changes made so far
    order,     \* service_orders, by request_key
    page,      \* payment pages (LIST sessions) and their charges at Payoneer
    hints,     \* notifications Payoneer still has to deliver
    lookups,   \* confirm_payment calls that have asked Payoneer
    refunds,   \* refund calls of the operator that have not ended
    call,      \* the POST orders and POST pay requests
    quote,     \* body of the POST orders request: document and quoted total
    catalog,   \* cache: the price the customer's page shows of a package
    draft,     \* the form
    preview,   \* the preview mutation
    reviewedFor,\* the draft the last preview was asked for
    accepted,  \* the checkbox under the contract
    key,       \* requestKey.current
    visited,   \* payment pages the browser has opened
    agreed     \* history: documents the customer pressed "Accept and pay" for

shopVars   == <<offer, changes>>
remoteVars == <<page, hints>>
callVars   == <<lookups, refunds, call, quote>>
clientVars == <<catalog, draft, preview, reviewedFor, accepted, key, visited>>
vars == <<shopVars, order, remoteVars, callVars, clientVars, agreed>>

-----------------------------------------------------------------------------
Documents == [draft : Drafts, offer : Offers]
Total(doc) == PriceOf[doc.offer]

(* draft_document: the contract as the server would build it now. *)
DraftDocument(d) == [draft |-> d, offer |-> offer[PackageOf[d]]]

Statuses == {"pending_payment", "paid", "in_progress", "delivered", "canceled",
             "refund_pending", "refunded"}
Refundable == {"paid", "in_progress", "delivered", "refund_pending"}
AdminTransitions ==
    [s \in Statuses |->
        CASE s = "pending_payment" -> {"canceled"}
          [] s = "paid"            -> {"in_progress", "canceled"}
          [] s = "in_progress"     -> {"delivered"}
          [] s = "delivered"       -> {"in_progress"}
          [] OTHER                 -> {}]

(* The buttons of the operator's page. *)
NextStatuses == [AdminTransitions EXCEPT !["paid"] = {"in_progress"}]

(* ContractDocument lays out the document it is given, nothing else. *)
OnPaper(x) == x.doc

NoOrder == [status |-> "none"]
Placed == {k \in Keys : order[k] # NoOrder}
(* The contract page of an order prints its snapshot. *)
PrintedContract(k) == OnPaper(order[k])
Pending(k) == order[k].status = "pending_payment"
Unpaid == {k \in Placed : Pending(k)}

NoPage == [state |-> "unused"]
Idle == [phase |-> "idle"]
NoPreview == [phase |-> "idle"]

Init ==
    /\ offer \in [Packages -> Offers]
    /\ changes = 0
    /\ order = [k \in Keys |-> NoOrder]
    /\ page = [s \in Pages |-> NoPage]
    /\ hints = {} /\ lookups = {} /\ refunds = {}
    /\ call = [c \in {"place", "pay"} |-> Idle]
    /\ quote = None
    /\ catalog = None
    /\ draft = None
    /\ preview = NoPreview
    /\ reviewedFor = None
    /\ accepted = FALSE
    /\ key = 1
    /\ visited = {}
    /\ agreed = {}

-----------------------------------------------------------------------------
(* The operator saves a package, its price and terms, or the requisites,   *)
(* which are part of every contract.                                       *)
Change ==
    /\ changes < MaxChanges
    /\ changes' = changes + 1
    /\ UNCHANGED <<order, remoteVars, callVars, clientVars, agreed>>

SavePackage(p) ==
    /\ Change
    /\ \E o \in Offers \ {offer[p]} : offer' = [offer EXCEPT ![p] = o]

SaveExecutor ==
    /\ Change
    /\ offer' \in {f \in [Packages -> Offers] : \A p \in Packages : f[p] # offer[p]}

-----------------------------------------------------------------------------
(* The customer's page.                                                    *)
FormInUse == key \in Keys /\ Cardinality(agreed) < MaxAgreed

LoadCatalog ==
    /\ FormInUse
    /\ catalog' = [p \in Packages |-> PriceOf[offer[p]]]
    /\ UNCHANGED <<shopVars, order, remoteVars, callVars, draft, preview,
                   reviewedFor, accepted, key, visited, agreed>>

(* choose: the form appears with the package; what was typed stays.        *)
ChoosePackage(d) ==
    /\ FormInUse
    /\ catalog # None
    /\ draft # None => PackageOf[draft] # PackageOf[d]
    /\ draft' = d
    /\ UNCHANGED <<shopVars, order, remoteVars, callVars, catalog, preview,
                   reviewedFor, accepted, key, visited, agreed>>

(* Typing into the form touches nothing else. *)
EditForm(d) ==
    /\ FormInUse
    /\ draft # None /\ PackageOf[draft] = PackageOf[d]
    /\ draft' = d
    /\ UNCHANGED <<shopVars, order, remoteVars, callVars, catalog, preview,
                   reviewedFor, accepted, key, visited, agreed>>

ReviewOffered == draft # None /\ preview.phase # "pending"

ReviewContract ==
    /\ FormInUse
    /\ ReviewOffered
    /\ reviewedFor' = draft
    /\ accepted' = FALSE
    /\ preview' = [phase |-> "pending"]
    /\ UNCHANGED <<shopVars, order, remoteVars, callVars, catalog, draft, key,
                   visited, agreed>>

(* POST contract-preview builds the document from the offer of the moment. *)
ContractPreview ==
    /\ preview.phase = "pending"
    /\ preview' \in {[phase |-> "done", doc |-> DraftDocument(reviewedFor)], NoPreview}
    /\ UNCHANGED <<shopVars, order, remoteVars, callVars, catalog, draft,
                   reviewedFor, accepted, key, visited, agreed>>

(* Editing the form after a preview makes it stale: the contract stays on  *)
(* the page, the checkbox and the button under it go.                      *)
Stale == reviewedFor # draft
Offered == preview.phase = "done" /\ ~Stale

AcceptTerms ==
    /\ Offered
    /\ accepted' = ~accepted
    /\ UNCHANGED <<shopVars, order, remoteVars, callVars, catalog, draft,
                   preview, reviewedFor, key, visited, agreed>>

Sent(k) == [phase |-> "sent", key |-> k, page |-> None, heard |-> TRUE]

PlaceOrder ==
    /\ Offered /\ accepted
    /\ call["place"] = Idle
    /\ key \in Keys
    /\ call' = [call EXCEPT !["place"] = Sent(key)]
    /\ quote' = [doc |-> OnPaper(preview), total |-> catalog[PackageOf[draft]]]
    /\ agreed' = agreed \cup {OnPaper(preview)}
    /\ UNCHANGED <<shopVars, order, remoteVars, lookups, refunds, clientVars>>

(* The list of orders: "Pay", "Check" (ConfirmPayment). *)
PressPay(k) ==
    /\ call["pay"] = Idle
    /\ call' = [call EXCEPT !["pay"] = Sent(k)]
    /\ UNCHANGED <<shopVars, order, remoteVars, lookups, refunds, quote,
                   clientVars, agreed>>

(* window.location.assign: the page of the application is gone, and coming *)
(* back from Payoneer builds it anew.                                      *)
Leave(s) ==
    /\ visited' = visited \cup {s}
    /\ catalog' = None
    /\ preview' = NoPreview
    /\ reviewedFor' = None
    /\ accepted' = FALSE
    /\ draft' = None

(* onSuccess of the two mutations; an answer that finds the page rebuilt   *)
(* reaches nobody.  A key that was sent is not drawn again.                *)
Answered(c) ==
    LET k == call[c].key
        goes == call[c].heard /\ order[k].page # None /\ (c = "pay" => Pending(k))
    IN  /\ call[c].phase = "answered"
        /\ key' = IF call[c].heard /\ key = k THEN key + 1 ELSE key
        /\ quote' = IF c = "place" THEN None ELSE quote
        /\ IF goes
           THEN /\ Leave(order[k].page)
                /\ call' = [x \in DOMAIN call |->
                               IF x = c \/ call[x] = Idle THEN Idle
                               ELSE [call[x] EXCEPT !.heard = FALSE]]
           ELSE /\ call' = [call EXCEPT ![c] = Idle]
                /\ UNCHANGED <<visited, catalog, preview, reviewedFor, accepted, draft>>
        /\ UNCHANGED <<shopVars, order, remoteVars, lookups, refunds, agreed>>

(* onError, also when only the answer was lost: the message is shown, the  *)
(* request key stays for a retry.                                          *)
Refused(c) ==
    /\ call[c].phase \in {"refused", "answered"}
    /\ call' = [call EXCEPT ![c] = Idle]
    /\ quote' = IF c = "place" THEN None ELSE quote
    /\ UNCHANGED <<shopVars, order, remoteVars, lookups, refunds, clientVars, agreed>>

-----------------------------------------------------------------------------
(* Mutant of CreateOrder: the document is not compared. *)
CreateUnread ==
    LET k == call["place"].key
        d == quote.doc.draft
    IN  /\ call["place"].phase = "sent"
        /\ k \notin Placed
        /\ order' = [order EXCEPT ![k] = [status |-> "pending_payment",
                        doc |-> DraftDocument(d), page |-> None, charge |-> None]]
        /\ call' = [call EXCEPT !["place"].phase = "opening"]
        /\ UNCHANGED <<shopVars, remoteVars, lookups, refunds, quote, clientVars, agreed>>

(* The server: POST orders.  A key that was used answers with its order;   *)
(* a new one needs the total and the document as they are now, and room.   *)
CreateOrder ==
    LET k == call["place"].key
        d == quote.doc.draft
        known == k \in Placed /\ PackageOf[order[k].doc.draft] = PackageOf[d]
        new == /\ k \notin Placed
               /\ quote.total = Total(DraftDocument(d))
               /\ quote.doc = DraftDocument(d)
               /\ Cardinality(Unpaid) < MaxPending
        answer(phase) == call' = [call EXCEPT !["place"].phase = phase]
    IN  /\ call["place"].phase = "sent"
        /\ IF known
           THEN /\ answer(IF Pending(k) /\ order[k].page = None THEN "opening" ELSE "answered")
                /\ UNCHANGED order
           ELSE IF new
           THEN /\ order' = [order EXCEPT ![k] = [status |-> "pending_payment",
                               doc |-> DraftDocument(d), page |-> None, charge |-> None]]
                /\ answer("opening")
           ELSE answer("refused") /\ UNCHANGED order
        /\ UNCHANGED <<shopVars, remoteVars, lookups, refunds, quote, clientVars, agreed>>

(* sales_state: the sales are paused, or no account of Payoneer is ready. *)
SalesPaused ==
    /\ call["place"].phase = "sent"
    /\ call' = [call EXCEPT !["place"].phase = "refused"]
    /\ UNCHANGED <<shopVars, order, remoteVars, lookups, refunds, quote,
                   clientVars, agreed>>

(* Mutant of OpenPage: the price of the package instead of the order's. *)
OpenAtCurrentPrice(c) ==
    /\ call[c].phase = "opening"
    /\ \E s \in Pages :
          /\ page[s] = NoPage
          /\ page' = [page EXCEPT ![s] = [state |-> "listed", key |-> call[c].key,
                         amount |-> Total(DraftDocument(order[call[c].key].doc.draft))]]
          /\ call' = [call EXCEPT ![c].phase = "opened", ![c].page = s]
    /\ UNCHANGED <<shopVars, order, hints, lookups, refunds, quote, clientVars, agreed>>

(* open_checkout: Payoneer opens a page for the price of the order and the *)
(* server saves it; either may fail, and Payoneer keeps what it has opened.*)
OpenPage(c) ==
    /\ call[c].phase = "opening"
    /\ \E s \in Pages :
          /\ page[s] = NoPage
          /\ page' = [page EXCEPT ![s] = [state |-> "listed", key |-> call[c].key,
                                         amount |-> Total(order[call[c].key].doc)]]
          /\ call' = [call EXCEPT ![c].phase = "opened", ![c].page = s]
    /\ UNCHANGED <<shopVars, order, hints, lookups, refunds, quote, clientVars, agreed>>

SavePage(c) ==
    /\ call[c].phase = "opened"
    /\ order' = [order EXCEPT ![call[c].key].page = call[c].page]
    /\ call' = [call EXCEPT ![c].phase = "answered"]
    /\ UNCHANGED <<shopVars, remoteVars, lookups, refunds, quote, clientVars, agreed>>

CheckoutFails(c) ==
    /\ call[c].phase \in {"opening", "opened"}
    /\ call' = [call EXCEPT ![c].phase = "refused"]
    /\ UNCHANGED <<shopVars, order, remoteVars, lookups, refunds, quote,
                   clientVars, agreed>>

(* Mutant of Settled: a canceled order is left as it is. *)
SettledPending(k, s) ==
    order' = [order EXCEPT ![k].status = IF @ = "pending_payment" THEN "paid" ELSE @,
                           ![k].charge = IF @ = None THEN s ELSE @]

Settled(k, s) ==
    order' = [order EXCEPT ![k].status = IF @ \in {"pending_payment", "canceled"} THEN "paid" ELSE @,
                           ![k].charge = IF @ = None THEN s ELSE @]

(* resume_checkout: a page that is still open is used again, one that was  *)
(* charged settles the order, any other is replaced.                       *)
ResumeCheckout ==
    LET k == call["pay"].key
        state == IF order[k].page = None THEN "gone" ELSE page[order[k].page].state
        answer(phase) == call' = [call EXCEPT !["pay"].phase = phase]
    IN  /\ call["pay"].phase = "sent"
        /\ IF ~Pending(k) THEN answer("refused") /\ UNCHANGED order
           ELSE IF state = "charged" THEN answer("answered") /\ Settled(k, None)
           ELSE IF state = "listed" THEN answer("answered") /\ UNCHANGED order
           ELSE answer("opening") /\ UNCHANGED order
        /\ UNCHANGED <<shopVars, remoteVars, lookups, refunds, quote, clientVars, agreed>>

-----------------------------------------------------------------------------
(* Payoneer: a page the browser was sent to is paid, or runs out; what it  *)
(* charges or pays out it tells until the server answers 200.              *)
Hint(s, event) == [page |-> s, event |-> event]
Telling == {"charged", "paid_out"}

MovePage(s, from, to) ==
    /\ page[s].state = from
    /\ page' = [page EXCEPT ![s].state = to]
    /\ hints' = IF to \in Telling THEN hints \cup {Hint(s, to)} ELSE hints
    /\ UNCHANGED <<shopVars, order, callVars, clientVars, agreed>>

Charge(s)     == s \in visited /\ MovePage(s, "listed", "charged")
RunsOut(s)    == MovePage(s, "listed", "gone")
PayoutEnds(s) == MovePage(s, "payout", "paid_out")

-----------------------------------------------------------------------------
(* confirm_payment: the order is read, Payoneer is asked, the answer is    *)
(* written under the lock of the order.  A notification asks about its     *)
(* charge; the customer's page (on return and by "Check") and the          *)
(* operator's page ask about the page of an order awaiting payment.        *)
Lookup(k, s, hint) == [key |-> k, page |-> s, code |-> page[s].state, hint |-> hint]

HandleNotification(h) ==
    /\ h \in hints
    /\ page[h.page].state \in Telling
    /\ lookups' = lookups \cup {Lookup(page[h.page].key, h.page, h)}
    /\ UNCHANGED <<shopVars, order, remoteVars, refunds, call, quote, clientVars, agreed>>

ConfirmPayment(k) ==
    /\ k \in Unpaid
    /\ order[k].page # None /\ page[order[k].page].state \in Telling
    /\ lookups' = lookups \cup {Lookup(k, order[k].page, Hint(None, "none"))}
    /\ UNCHANGED <<shopVars, order, remoteVars, refunds, call, quote, clientVars, agreed>>

(* Back from Payoneer the page asks once for the order in its address. *)
ReturnFromPayoneer(k) == order[k].page \in visited /\ ConfirmPayment(k)

ConfirmWrite(r) ==
    /\ r \in lookups
    /\ IF r.code = "charged"
       THEN Settled(r.key, r.hint.page)
       ELSE order' = [order EXCEPT ![r.key].status = IF @ \in Refundable THEN "refunded" ELSE @]
    /\ lookups' = lookups \ {r}
    /\ hints' = hints \ {r.hint}
    /\ UNCHANGED <<shopVars, page, refunds, call, quote, clientVars, agreed>>

-----------------------------------------------------------------------------
(* The operator's page.  update_status: a canceled order's page is deleted,*)
(* if Payoneer answers.                                                    *)
UpdateStatus(k, s) ==
    /\ s \in AdminTransitions[order[k].status]
    /\ ~(order[k].status = "paid" /\ s = "canceled")
    /\ order' = [order EXCEPT ![k].status = s]
    /\ \/ UNCHANGED page
       \/ /\ s = "canceled" /\ order[k].page # None /\ page[order[k].page].state = "listed"
          /\ page' = [page EXCEPT ![order[k].page].state = "gone"]
    /\ UNCHANGED <<shopVars, hints, callVars, clientVars, agreed>>

(* refund: checked, asked, and written whatever the order has become.      *)
AskRefund(k) ==
    /\ order[k].status \in Refundable /\ order[k].charge # None
    /\ refunds' = refunds \cup {[key |-> k, page |-> order[k].charge, code |-> "asked"]}
    /\ UNCHANGED <<shopVars, order, remoteVars, lookups, call, quote, clientVars, agreed>>

RefundCharge(r) ==
    /\ r \in refunds /\ r.code = "asked"
    /\ IF page[r.page].state = "charged"
       THEN \E code \in {"paid_out", "payout"} :
                /\ page' = [page EXCEPT ![r.page].state = code]
                /\ refunds' = (refunds \ {r}) \cup {[r EXCEPT !.code = code]}
                /\ hints' = hints \cup (IF code = "paid_out" THEN {Hint(r.page, code)} ELSE {})
       ELSE /\ refunds' = refunds \ {r}
            /\ UNCHANGED remoteVars
    /\ UNCHANGED <<shopVars, order, lookups, call, quote, clientVars, agreed>>

RefundWrite(r) ==
    /\ r \in refunds /\ r.code # "asked"
    /\ order' = [order EXCEPT ![r.key].status =
                    IF r.code = "paid_out" THEN "refunded" ELSE "refund_pending"]
    /\ refunds' = refunds \ {r}
    /\ UNCHANGED <<shopVars, remoteVars, lookups, call, quote, clientVars, agreed>>

-----------------------------------------------------------------------------
OrderRow(k) == PressPay(k) \/ ConfirmPayment(k)

Customer ==
    \/ LoadCatalog \/ ReviewContract \/ AcceptTerms \/ PlaceOrder
    \/ \E d \in Drafts : ChoosePackage(d) \/ EditForm(d)
    \/ \E k \in Unpaid : OrderRow(k) \/ ReturnFromPayoneer(k)
    \/ \E c \in DOMAIN call : Answered(c) \/ Refused(c)

Server ==
    \/ ContractPreview \/ CreateOrder \/ SalesPaused \/ ResumeCheckout
    \/ \E c \in DOMAIN call : OpenPage(c) \/ SavePage(c) \/ CheckoutFails(c)
    \/ \E h \in hints : HandleNotification(h)
    \/ \E r \in lookups : ConfirmWrite(r)
    \/ \E r \in refunds : RefundCharge(r) \/ RefundWrite(r)

AdminOrderRow(k) ==
    \/ \E s \in NextStatuses[order[k].status] : UpdateStatus(k, s)
    \/ ConfirmPayment(k)
    \/ AskRefund(k)

Operator ==
    \/ SaveExecutor
    \/ \E p \in Packages : SavePackage(p)
    \/ \E k \in Placed : AdminOrderRow(k)

Payoneer == \E s \in Pages : Charge(s) \/ RunsOut(s) \/ PayoutEnds(s)

Next == Customer \/ Server \/ Operator \/ Payoneer

Spec == Init /\ [][Next]_vars

-----------------------------------------------------------------------------
(* Nobody is bound by a contract he was not shown: the document an order   *)
(* is created with is one the customer pressed "Accept and pay" under,     *)
(* though prices, terms and the form change between the preview, the       *)
(* click and the request (create_order, quoted_total and preview_checksum).*)
OrderedWasAgreed == \A k \in Placed : PrintedContract(k) \in agreed

(* An order as ServiceSale sees it, and the amounts charged for it.        *)
Charged == {"charged", "payout", "paid_out"}
StageOf == [s \in Statuses |->
    CASE s = "pending_payment" -> "open"
      [] s = "canceled" -> "closed"
      [] s \in {"refund_pending", "refunded"} -> "returned"
      [] OTHER -> "paid"]
DealOf(k) ==
    IF order[k] = NoOrder THEN [stage |-> "none"]
    ELSE [stage |-> StageOf[order[k].status], doc |-> order[k].doc]
ChargesOf(k) ==
    {page[s].amount : s \in {x \in Pages : page[x].state \in Charged /\ page[x].key = k}}

(* The shop keeps the promise of ServiceSale: an order counts as paid only *)
(* after a charge at the price of its document, whatever the browser says, *)
(* and nothing follows a refund (confirm_payment, update_status, refund).  *)
Sale == INSTANCE ServiceSale WITH
    Orders <- Keys,
    Price <- Total,
    deal <- [k \in Keys |-> DealOf(k)],
    taken <- [k \in Keys |-> ChargesOf(k)]

KeepsSale == Sale!Spec

(* Money taken is never forgotten: a charged page belongs to an order that *)
(* no longer awaits payment, or Payoneer will still tell about it; also    *)
(* when the order was canceled meanwhile, its page was replaced, or the    *)
(* browser never came back (handle_notification, confirm_payment).         *)
ChargeIsKnown ==
    \A s \in Pages :
        page[s].state = "charged" =>
            \/ order[page[s].key].status \notin {"pending_payment", "canceled"}
            \/ Hint(s, "charged") \in hints
=============================================================================
