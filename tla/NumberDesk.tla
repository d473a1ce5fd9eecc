----------------------------- MODULE NumberDesk -----------------------------
(***************************************************************************)
(* Renting a phone number: the customer's page (frontend/src/pages/        *)
(* creator/VirtualNumbersPage.tsx), the operator's (pages/admin/           *)
(* AdminVirtualNumbersPage.tsx), the rentals of backend/virtual_numbers,   *)
(* and Stripe and PayPal as far as the code there uses them.               *)
(*                                                                         *)
(* One customer, one offer.  An order is named by the request key the page *)
(* made for it.  Prices are in cents.  A purchase takes three steps on the *)
(* server (reserve, call the gateway, record the checkout), a refund three *)
(* (read, call, write); webhooks come in any order, late, and again.       *)
(***************************************************************************)
EXTENDS Integers, FiniteSets

CONSTANTS
    Orders,        \* request keys
    Phones,        \* numbers
    FirstPhones,   \* those in stock at first
    Tariffs,       \* what the provider may ask, in cents, and the basis of the tax
    PendingLimit,  \* orders a customer may leave unpaid
    None,
    MaxSaves,      \* bound: offers the operator saves
    MaxFaults      \* bound: calls that fail half way

ASSUME NumberDeskAssumption ==
    /\ FirstPhones \subseteq Phones
    /\ Tariffs \subseteq [cost : Nat \ {0}, basis : {"base", "subtotal"}]
    /\ PendingLimit \in Nat /\ MaxSaves \in Nat /\ MaxFaults \in Nat
    /\ None \notin Orders

VARIABLES
    offer,    \* NumberOffer: cost, basis, and whether it may be sold
    phones,   \* PhoneNumber.state; "absent" before it is in stock
    orders,   \* NumberOrder
    seen,     \* PaymentEvent: events processed
    catalog,  \* the page: the price it offers, None when it offers none
    keys,     \* the page: keys.current, by gateway
    purchase, \* the purchase under way
    refund,   \* the refund under way
    pay,      \* the gateway: state of the checkout of an order
    quoted,   \* history: totals the page sent with a key
    saves, faults

pageVars == <<catalog, keys>>
boundVars == <<saves, faults>>
vars == <<offer, phones, orders, seen, pageVars, purchase, refund, pay,
          quoted, boundVars>>

-----------------------------------------------------------------------------
(* pricing.quote: each part rounded half up to a cent, then summed.        *)
Cents(amount, pct) == (amount * pct + 50) \div 100

(* Mutant of quote: the total is rounded once, from the percentages. *)
quoteAtOnce(cost, basis) ==
    [base |-> cost, profit |-> Cents(cost, 18), tax |-> Cents(cost, 12),
     total |-> Cents(cost, 130)]

quote(cost, basis) ==
    LET profit == Cents(cost, 18)
        tax == Cents(IF basis = "base" THEN cost ELSE cost + profit, 12)
    IN  [base |-> cost, profit |-> profit, tax |-> tax, total |-> cost + profit + tax]

(* What the gateway charges: Stripe its lines, PayPal the amount.          *)
stripe_line_items(o) == orders[o].parts.base + orders[o].parts.profit + orders[o].parts.tax
Charged(o) ==
    IF orders[o].provider = "stripe" THEN stripe_line_items(o) ELSE orders[o].parts.total

Gateways == {"stripe", "paypal"}
Offers == {[cost |-> t.cost, basis |-> t.basis, sellable |-> b] : t \in Tariffs, b \in BOOLEAN}
NoOrder == [status |-> "none"]
NoCall == [phase |-> "none"]
Placed == {o \in Orders : orders[o] # NoOrder}
With(statuses) == {o \in Orders : orders[o].status \in statuses}
Stock(state) == {p \in Phones : phones[p] = state}

Init ==
    /\ offer \in {f \in Offers : f.sellable}
    /\ phones = [p \in Phones |-> IF p \in FirstPhones THEN "available" ELSE "absent"]
    /\ orders = [o \in Orders |-> NoOrder]
    /\ seen = {}
    /\ catalog = None /\ keys = [g \in Gateways |-> None]
    /\ purchase = NoCall /\ refund = NoCall
    /\ pay = [o \in Orders |-> "none"]
    /\ quoted = [o \in Orders |-> {}]
    /\ saves = 0 /\ faults = 0

-----------------------------------------------------------------------------
(* The page.  It is mounted anew when the customer comes back to it.       *)
LoadCatalog ==
    /\ offer.sellable /\ Stock("available") # {}
    /\ catalog' = quote(offer.cost, offer.basis).total
    /\ UNCHANGED <<offer, phones, orders, seen, keys, purchase,
                   refund, pay, quoted, boundVars>>

PageLeft == catalog' = None /\ keys' = [g \in Gateways |-> None]

LeavePage ==
    /\ catalog # None
    /\ PageLeft
    /\ purchase' = IF purchase = NoCall THEN NoCall ELSE [purchase EXCEPT !.heard = FALSE]
    /\ UNCHANGED <<offer, phones, orders, seen, refund, pay, quoted, boundVars>>

(* The card of the offer: when its button can be pressed. *)
RentButton == catalog # None /\ purchase = NoCall

(* A key is made once for an offer and a gateway and kept until the        *)
(* purchase succeeds.                                                      *)
PressRent(g) ==
    /\ RentButton
    /\ LET fresh == {o \in Orders : quoted[o] = {}}
       IN  \E o \in Orders :
             /\ IF keys[g] # None THEN o = keys[g]
                ELSE fresh # {} /\ o = CHOOSE k \in fresh : TRUE
             /\ keys' = [keys EXCEPT ![g] = o]
             /\ quoted' = [quoted EXCEPT ![o] = @ \cup {catalog}]
             /\ purchase' = [phase |-> "sent", order |-> o, provider |-> g,
                             total |-> catalog, heard |-> TRUE]
    /\ UNCHANGED <<offer, phones, orders, seen, catalog, refund,
                   pay, boundVars>>

(* The answer: on success the browser goes on to the checkout, on an error *)
(* the page stays and keeps the key.                                       *)
Answered(ok) ==
    /\ purchase' = NoCall
    /\ IF ok /\ purchase.heard THEN PageLeft ELSE UNCHANGED pageVars

Fault == faults < MaxFaults /\ faults' = faults + 1 /\ UNCHANGED saves

(* The call is cut off after what the server has committed so far. *)
PurchaseFails ==
    /\ purchase # NoCall
    /\ Fault
    /\ Answered(FALSE)
    /\ UNCHANGED <<offer, phones, orders, seen, refund, pay, quoted>>

-----------------------------------------------------------------------------
(* start_checkout: one transaction that finds or reserves, the gateway,    *)
(* and one that records the checkout.                                      *)
(* Mutant of MayReserve: the page's total is taken on trust. *)
MayReserveUnquoted == offer.sellable /\ Cardinality(With({"pending"})) < PendingLimit

MayReserve ==
    /\ offer.sellable
    /\ purchase.total = quote(offer.cost, offer.basis).total
    /\ Cardinality(With({"pending"})) < PendingLimit

(* Mutant of Reserve: the number is marked only when it is paid. *)
ReserveUnmarked(p) ==
    /\ purchase.phase = "sent" /\ purchase.order \notin Placed
    /\ MayReserve
    /\ phones[p] = "available"
    /\ orders' = [orders EXCEPT ![purchase.order] =
           [phone |-> p, parts |-> quote(offer.cost, offer.basis), status |-> "pending",
            provider |-> purchase.provider, checkout |-> FALSE, intent |-> FALSE,
            over |-> FALSE]]
    /\ purchase' = [purchase EXCEPT !.phase = "create"]
    /\ UNCHANGED <<offer, phones, seen, pageVars, refund, pay, quoted, boundVars>>

Reserve(p) ==
    /\ purchase.phase = "sent" /\ purchase.order \notin Placed
    /\ MayReserve
    /\ phones[p] = "available"
    /\ phones' = [phones EXCEPT ![p] = "reserved"]
    /\ orders' = [orders EXCEPT ![purchase.order] =
           [phone |-> p, parts |-> quote(offer.cost, offer.basis), status |-> "pending",
            provider |-> purchase.provider, checkout |-> FALSE, intent |-> FALSE,
            over |-> FALSE]]
    /\ purchase' = [purchase EXCEPT !.phase = "create"]
    /\ UNCHANGED <<offer, seen, pageVars, refund, pay, quoted, boundVars>>

Awaited(o) == orders[o].status = "pending" /\ orders[o].provider = purchase.provider

(* A key seen before finds its order again. *)
FindOrder ==
    /\ purchase.phase = "sent" /\ purchase.order \in Placed
    /\ Awaited(purchase.order)
    /\ IF orders[purchase.order].checkout
       THEN Answered(TRUE)
       ELSE purchase' = [purchase EXCEPT !.phase = "create"] /\ UNCHANGED pageVars
    /\ UNCHANGED <<offer, phones, orders, seen, refund, pay, quoted, boundVars>>

RefusePurchase ==
    /\ purchase.phase = "sent"
    /\ IF purchase.order \in Placed THEN ~Awaited(purchase.order)
       ELSE ~MayReserve \/ Stock("available") = {}
    /\ Answered(FALSE)
    /\ UNCHANGED <<offer, phones, orders, seen, refund, pay, quoted, boundVars>>

(* The gateway makes one checkout of an order (its idempotency key); the   *)
(* call may fail on either side of that.                                   *)
CreateCheckout ==
    /\ purchase.phase = "create"
    /\ pay' = [pay EXCEPT ![purchase.order] = IF @ = "none" THEN "open" ELSE @]
    /\ \/ purchase' = [purchase EXCEPT !.phase = "record"] /\ UNCHANGED <<pageVars, boundVars>>
       \/ Fault /\ Answered(FALSE)
    /\ UNCHANGED <<offer, phones, orders, seen, refund, quoted>>

RecordCheckout ==
    /\ purchase.phase = "record"
    /\ orders' = [orders EXCEPT ![purchase.order].checkout = TRUE]
    /\ Answered(TRUE)
    /\ UNCHANGED <<offer, phones, seen, refund, pay, quoted, boundVars>>

-----------------------------------------------------------------------------
(* The gateway.                                                            *)
Approve(o) ==
    /\ pay[o] = "open"
    /\ pay' = [pay EXCEPT ![o] = IF orders[o].provider = "stripe" THEN "paid" ELSE "approved"]
    /\ UNCHANGED <<offer, phones, orders, seen, pageVars, purchase, refund,
                   quoted, boundVars>>

SessionRunsOut(o) ==
    /\ pay[o] = "open" /\ orders[o].provider = "stripe"
    /\ pay' = [pay EXCEPT ![o] = "expired"]
    /\ UNCHANGED <<offer, phones, orders, seen, pageVars, purchase, refund,
                   quoted, boundVars>>

(* The operator refunds in the dashboard of the gateway. *)
RefundAtGateway(o) ==
    /\ pay[o] = "paid"
    /\ pay' = [pay EXCEPT ![o] = "refunded"]
    /\ UNCHANGED <<offer, phones, orders, seen, pageVars, purchase, refund,
                   quoted, boundVars>>

(* Its events, in any order; one that was refused comes again.             *)
Event(kind, o) == <<kind, o>> \notin seen /\ seen' = seen \cup {<<kind, o>>}

Activate(o) ==
    /\ orders' = [orders EXCEPT ![o].status = "active", ![o].intent = TRUE,
                                ![o].checkout = TRUE]
    /\ phones' = [phones EXCEPT ![orders[o].phone] = "assigned"]

Retire(o, status) ==
    /\ orders' = [orders EXCEPT ![o].status = status]
    /\ phones' = [phones EXCEPT ![orders[o].phone] = "retired"]

(* process_payment: checkout.session.completed.  An amount that differs or *)
(* a number that is not reserved is refused and left to be reconciled.     *)
SessionCompleted(o) ==
    /\ orders[o] # NoOrder /\ orders[o].provider = "stripe" /\ pay[o] \in {"paid", "refunded"}
    /\ Charged(o) = orders[o].parts.total
    /\ Event("completed", o)
    /\ \/ orders[o].status # "pending" /\ UNCHANGED <<orders, phones>>
       \/ /\ orders[o].status = "pending" /\ phones[orders[o].phone] = "reserved"
          /\ Activate(o)
    /\ UNCHANGED <<offer, pageVars, purchase, refund, pay, quoted, boundVars>>

(* checkout.session.expired. *)
SessionExpired(o) ==
    /\ pay[o] = "expired"
    /\ Event("expired", o)
    /\ IF orders[o].status = "pending"
       THEN /\ orders' = [orders EXCEPT ![o].status = "canceled"]
            /\ phones' = [phones EXCEPT ![orders[o].phone] = "available"]
       ELSE UNCHANGED <<orders, phones>>
    /\ UNCHANGED <<offer, pageVars, purchase, refund, pay, quoted, boundVars>>

(* charge.refunded, PAYMENT.CAPTURE.REFUNDED: Stripe's is taken as         *)
(* processed even when no order has the payment yet, PayPal's is refused.  *)
GatewayRefunded(o) ==
    /\ orders[o] # NoOrder /\ pay[o] = "refunded"
    /\ Event("refunded", o)
    /\ \/ orders[o].intent /\ Retire(o, "refunded")
       \/ /\ ~orders[o].intent /\ orders[o].provider = "stripe"
          /\ UNCHANGED <<orders, phones>>
    /\ UNCHANGED <<offer, pageVars, purchase, refund, pay, quoted, boundVars>>

(* complete_paypal_order, on the return of the browser, the button, or an  *)
(* event: captures what is approved, and rents.  The capture stays when    *)
(* the process dies before it commits.                                     *)
CapturePayPal(o) ==
    /\ orders[o] # NoOrder /\ orders[o].provider = "paypal"
    /\ orders[o].checkout /\ orders[o].status = "pending"
    /\ pay[o] \in {"approved", "paid"}
    /\ pay' = [pay EXCEPT ![o] = "paid"]
    /\ \/ phones[orders[o].phone] = "reserved" /\ Activate(o) /\ UNCHANGED boundVars
       \/ Fault /\ UNCHANGED <<orders, phones>>
    /\ UNCHANGED <<offer, seen, pageVars, purchase, refund, quoted>>

-----------------------------------------------------------------------------
(* The rental.                                                             *)
(* expires_at passes. *)
RunOut(o) ==
    /\ orders[o].status \in {"active", "refund_requested"} /\ ~orders[o].over
    /\ orders' = [orders EXCEPT ![o].over = TRUE]
    /\ UNCHANGED <<offer, phones, seen, pageVars, purchase, refund, pay,
                   quoted, boundVars>>

(* maintain_virtual_numbers. *)
Maintain ==
    LET due == {o \in With({"active"}) : orders[o].over}
    IN  /\ due # {}
        /\ orders' = [o \in Orders |-> IF o \in due THEN [orders[o] EXCEPT !.status = "expired"]
                                       ELSE orders[o]]
        /\ phones' = [p \in Phones |-> IF \E o \in due : orders[o].phone = p THEN "retired"
                                       ELSE phones[p]]
        /\ UNCHANGED <<offer, seen, pageVars, purchase, refund, pay, quoted, boundVars>>

(* What the card of a rental offers. *)
RentalCard(o) ==
    (IF orders[o].status = "pending" /\ orders[o].provider = "paypal" THEN {"capture"} ELSE {})
        \cup (IF orders[o].status = "pending" /\ orders[o].checkout THEN {"pay"} ELSE {})
        \cup (IF orders[o].status \in {"active", "refund_requested"} /\ ~orders[o].over
              THEN {"inbox"} ELSE {})
        \cup (IF orders[o].status \in {"active", "expired"} THEN {"refund"} ELSE {})

RequestRefund(o) ==
    /\ "refund" \in RentalCard(o)
    /\ orders' = [orders EXCEPT ![o].status = "refund_requested"]
    /\ UNCHANGED <<offer, phones, seen, pageVars, purchase, refund, pay,
                   quoted, boundVars>>

(* refund_order: the order is read without a lock; the gateway returns the *)
(* money, or says so again, or refuses; then the order is written.         *)
PressRefund(o) ==
    /\ refund = NoCall
    /\ orders[o].status = "refund_requested" /\ orders[o].intent
    /\ refund' = [phase |-> "call", order |-> o]
    /\ UNCHANGED <<offer, phones, orders, seen, pageVars, purchase, pay,
                   quoted, boundVars>>

CallRefund ==
    /\ refund.phase = "call"
    /\ \/ /\ pay' = [pay EXCEPT ![refund.order] = "refunded"]
          /\ refund' = [refund EXCEPT !.phase = "write"]
          /\ UNCHANGED boundVars
       \/ /\ Fault
          /\ pay' \in {pay, [pay EXCEPT ![refund.order] = "refunded"]}
          /\ refund' = NoCall
    /\ UNCHANGED <<offer, phones, orders, seen, pageVars, purchase, quoted>>

WriteRefund ==
    /\ refund.phase = "write"
    /\ Retire(refund.order, "refunded")
    /\ refund' = NoCall
    /\ UNCHANGED <<offer, seen, pageVars, purchase, pay, quoted, boundVars>>

-----------------------------------------------------------------------------
(* The operator's page.                                                    *)
(* "edit" copies the tariff into the form, and the whole of it is sent.    *)
Drafted(f) == f \in Offers \ {offer}

(* AdminOfferSerializer.validate: sold only when confirmed, and the number *)
(* of a messenger only when it is mobile; "sellable" is all of that.       *)
SaveOffer(f) ==
    /\ saves < MaxSaves
    /\ Drafted(f)
    /\ offer' = f
    /\ saves' = saves + 1
    /\ UNCHANGED <<phones, orders, seen, pageVars, purchase, refund, pay,
                   quoted, faults>>

AddNumber(p) ==
    /\ phones[p] = "absent"
    /\ phones' = [phones EXCEPT ![p] = "available"]
    /\ UNCHANGED <<offer, orders, seen, pageVars, purchase, refund, pay,
                   quoted, boundVars>>

-----------------------------------------------------------------------------
Next ==
    \/ LoadCatalog \/ LeavePage \/ \E g \in Gateways : PressRent(g)
    \/ \E p \in Phones : Reserve(p) \/ AddNumber(p)
    \/ FindOrder \/ RefusePurchase \/ CreateCheckout \/ RecordCheckout \/ PurchaseFails
    \/ \E o \in Orders :
          \/ Approve(o) \/ SessionRunsOut(o) \/ RefundAtGateway(o)
          \/ SessionCompleted(o) \/ SessionExpired(o) \/ GatewayRefunded(o) \/ CapturePayPal(o)
          \/ RunOut(o) \/ RequestRefund(o) \/ PressRefund(o)
    \/ Maintain \/ CallRefund \/ WriteRefund
    \/ \E f \in Offers : SaveOffer(f)

Spec == Init /\ [][Next]_vars

-----------------------------------------------------------------------------
(* One number, one customer: an unpaid order holds its number in reserve,  *)
(* a running one has it assigned, no two of these share a number, and no   *)
(* number is held for nobody; never more unpaid orders than allowed.       *)
NumberIsExclusive ==
    /\ \A o \in With({"pending"}) : phones[orders[o].phone] = "reserved"
    /\ \A o \in With({"active"}) : phones[orders[o].phone] = "assigned"
    /\ \A a, b \in With({"pending", "active", "refund_requested"}) :
          orders[a].phone = orders[b].phone => a = b
    /\ \A p \in Stock("reserved") : \E o \in With({"pending"}) : orders[o].phone = p
    /\ Cardinality(With({"pending"})) <= PendingLimit

(* Money and rental agree: no paid order is canceled, an order paid at     *)
(* Stripe is served once the event is processed, a running one was paid    *)
(* for, and "refunded" is said only of money that went back.  The amount   *)
(* Stripe sums from rounded lines is the amount the webhook compares.      *)
MoneyMatchesRental ==
    \A o \in Placed :
       /\ orders[o].status = "canceled" => pay[o] = "expired"
       /\ <<"completed", o>> \in seen => orders[o].status \notin {"pending", "canceled"}
       /\ orders[o].status \in {"active", "expired", "refund_requested"} =>
              pay[o] \in {"paid", "refunded"}
       /\ orders[o].status = "refunded" => pay[o] = "refunded"
       /\ Charged(o) = orders[o].parts.total

(* An order costs what the page showed on one of the clicks that carried   *)
(* its key, however the offer was repriced in between (quoted_total).      *)
PricedAsQuoted == \A o \in Placed : orders[o].parts.total \in quoted[o]
=============================================================================
