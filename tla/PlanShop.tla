------------------------------ MODULE PlanShop ------------------------------
(***************************************************************************)
(* The sale of one plan with an AI budget to one creator: the plan and     *)
(* Telegram forms of the superadmins (frontend/src/pages/admin/            *)
(* CommercialSettings.tsx), the price lists (pages/creator/BillingPage.tsx *)
(* and pages/public/PricingPage.tsx), the Stars orders and the webhook of  *)
(* the bot (backend/telegram_integration/views.py), the checkout and the   *)
(* events of Stripe (backend/billing/services.py), and credit_payment      *)
(* (backend/billing/wallet.py); Telegram and Stripe as far as these use    *)
(* them.                                                                   *)
(*                                                                         *)
(* The webhook of the bot is one transaction around its calls to Telegram: *)
(* a call that fails undoes the transaction and not what Telegram did.     *)
(* Telegram and Stripe repeat what was not answered.                       *)
(***************************************************************************)
EXTENDS Naturals, FiniteSetsExt

CONSTANTS
    Plans,      \* what the superadmins may make of the plan
    Rates,      \* stars_net_usd, in cents
    Orders,     \* telegram_integration.StarsOrder
    Payments,   \* payments the creator tries on invoice links
    Purchases,  \* checkout sessions of Stripe
    Periods,    \* billing periods of a Stripe subscription, 1 .. n
    Nothing,
    MaxForms,   \* bound: forms saved, discounts run out
    MaxLost     \* bound: answers of Telegram and to Telegram that are lost

ASSUME PlanShopAssumption ==
    /\ Plans \subseteq [price : Nat, discount : 0 .. 100, stars : Nat, active : BOOLEAN]
    /\ Rates \subseteq Nat
    /\ Periods \subseteq Nat \ {0}
    /\ Nothing \notin Orders \cup Payments \cup Purchases
    /\ Payments \cap (Purchases \X Periods) = {}
    /\ MaxForms \in Nat /\ MaxLost \in Nat

VARIABLES
    plan,     \* billing.Plan
    bot,      \* TelegramConfig: enabled, rate
    sub,      \* billing.Subscription: plan, status, whose Stripe subscription
    orders,   \* StarsOrder; NoOrder before it is made
    late,     \* orders made more than 30 minutes ago
    payments, \* Telegram: the order a payment is for, and how far it is
    updates,  \* TelegramUpdate: payments whose successful_payment is processed
    sessions, \* Stripe: the price agreed for a checkout session, and its events
    entries,  \* AIWalletEntry of kind payment: net_usd, by reference
    unsure,   \* history: orders whose approval Telegram has and the server lost
    forms, lost

shopVars == <<plan, bot, sub, orders, late, payments, updates, sessions, entries,
              unsure, forms, lost>>

-----------------------------------------------------------------------------
(* economics.quote.                                                        *)
quote(p) ==
    LET net == (p.price * (100 - p.discount) + 50) \div 100
    IN  [net |-> net, total |-> net + (net * 12 + 50) \div 100]

NoOrder == [stars |-> 0, net |-> 0, brings |-> 0, precheckout |-> Nothing, paid |-> FALSE]
NoPayment == [order |-> Nothing, at |-> "none"]
NoSession == [price |-> 0, at |-> "none", completed |-> "none", invoice |-> [n \in Periods |-> "none"]]
References == Payments \cup (Purchases \X Periods)

(* The creator may have saved a card before, which makes the row with the  *)
(* free plan (create_payment_setup_checkout).                              *)
ShopInit ==
    /\ plan \in {p \in Plans : p.active}
    /\ bot \in [enabled : {TRUE}, rate : Rates]
    /\ sub \in [plan : {Nothing, "free"}, status : {"trialing"}, stripe : {Nothing}]
    /\ orders = [o \in Orders |-> NoOrder]
    /\ late = {}
    /\ payments = [y \in Payments |-> NoPayment]
    /\ updates = {}
    /\ sessions = [s \in Purchases |-> NoSession]
    /\ entries = [r \in References |-> 0]
    /\ unsure = {}
    /\ forms = 0 /\ lost = 0

-----------------------------------------------------------------------------
(* The superadmins                                                         *)

(* PlanEditor saves every field it shows, whoever changed them since it    *)
(* was opened.                                                             *)
SavePlan(p) ==
    /\ forms < MaxForms /\ p # plan
    /\ plan' = p
    /\ forms' = forms + 1
    /\ UNCHANGED <<bot, sub, orders, late, payments, updates, sessions, entries, unsure, lost>>

DiscountEnds ==
    /\ forms < MaxForms /\ plan.discount > 0
    /\ plan' = [plan EXCEPT !.discount = 0]
    /\ forms' = forms + 1
    /\ UNCHANGED <<bot, sub, orders, late, payments, updates, sessions, entries, unsure, lost>>

(* The Telegram form starts empty and switched off; it leaves the rate     *)
(* alone when none is typed.                                               *)
SaveBot(enabled, rate) ==
    /\ forms < MaxForms
    /\ bot' = [enabled |-> enabled, rate |-> rate]
    /\ bot' # bot
    /\ forms' = forms + 1
    /\ UNCHANGED <<plan, sub, orders, late, payments, updates, sessions, entries, unsure, lost>>

-----------------------------------------------------------------------------
(* Stars                                                                   *)

SubscribedOnTheWeb == sub.stripe # Nothing /\ sub.status # "canceled"

(* StarsCheckoutView.post: the order keeps the price of its moment.  A     *)
(* price list opened earlier still offers the plan.                        *)
StarsCheckout(o) ==
    /\ orders[o] = NoOrder
    /\ plan.active /\ plan.stars > 0
    /\ ~SubscribedOnTheWeb
    /\ bot.enabled /\ bot.rate > 0
    /\ plan.stars * bot.rate >= quote(plan).total
    /\ orders' = [orders EXCEPT ![o] =
                     [stars |-> plan.stars, net |-> quote(plan).net,
                      brings |-> plan.stars * bot.rate,
                      precheckout |-> Nothing, paid |-> FALSE]]
    /\ UNCHANGED <<plan, bot, sub, late, payments, updates, sessions, entries, unsure, forms, lost>>

HalfAnHourPasses(o) ==
    /\ orders[o] # NoOrder /\ o \notin late
    /\ late' = late \cup {o}
    /\ UNCHANGED <<plan, bot, sub, orders, payments, updates, sessions, entries, unsure, forms, lost>>

(* An invoice link can be opened and confirmed any number of times.        *)
PressPay(y, o) ==
    /\ payments[y] = NoPayment /\ orders[o] # NoOrder
    /\ payments' = [payments EXCEPT ![y] = [order |-> o, at |-> "asked"]]
    /\ UNCHANGED <<plan, bot, sub, orders, late, updates, sessions, entries, unsure, forms, lost>>

Goes(y, at) == payments' = [payments EXCEPT ![y].at = at]

(* Mutant of Payable: the first pre-checkout is not asked for.             *)
PayableAgain(y, o) == ~orders[o].paid /\ o \notin late

Payable(y, o) ==
    /\ ~orders[o].paid /\ o \notin late
    /\ orders[o].precheckout \in {Nothing, y}

(* pre_checkout_query: the order remembers the payment it was approved     *)
(* for, unless the answer of Telegram is lost: then the transaction is     *)
(* undone, and Telegram takes no second answer when it asks again.         *)
AnswerPreCheckout(y) ==
    LET o == payments[y].order IN
    /\ payments[y].at = "asked" /\ bot.enabled
    /\ Goes(y, IF Payable(y, o) THEN "approved" ELSE "ended")
    /\ \/ /\ orders' = IF Payable(y, o) THEN [orders EXCEPT ![o].precheckout = y] ELSE orders
          /\ UNCHANGED <<unsure, lost>>
       \/ /\ lost < MaxLost /\ lost' = lost + 1
          /\ unsure' = IF Payable(y, o) THEN unsure \cup {o} ELSE unsure
          /\ UNCHANGED orders
    /\ UNCHANGED <<plan, bot, sub, late, updates, sessions, entries, forms>>

(* Telegram takes the Stars, or gives up.                                  *)
TakeStars(y) ==
    /\ payments[y].at = "approved"
    /\ Goes(y, "charged")
    /\ UNCHANGED <<plan, bot, sub, orders, late, updates, sessions, entries, unsure, forms, lost>>

GiveUp(y) ==
    /\ payments[y].at \in {"asked", "approved"}
    /\ Goes(y, "ended")
    /\ UNCHANGED <<plan, bot, sub, orders, late, updates, sessions, entries, unsure, forms, lost>>

(* credit_payment: one entry for a reference.                              *)
Credited(r, net) == IF entries[r] = 0 THEN [entries EXCEPT ![r] = net] ELSE entries

(* Mutant of ByStars: the credit follows the plan as it is now.            *)
ByStarsAsOfNow(y) == quote(plan).net

ByStars(y) == orders[payments[y].order].net

Unpaid(y) == ~orders[payments[y].order].paid

(* successful_payment: the update, the order, the subscription and the     *)
(* credit are one transaction; an update processed before is only          *)
(* answered.                                                               *)
Fulfil(y) ==
    /\ updates' = updates \cup {y}
    /\ IF y \notin updates /\ Unpaid(y)
       THEN /\ orders' = [orders EXCEPT ![payments[y].order].paid = TRUE]
            /\ sub' = [sub EXCEPT !.plan = "ai", !.status = "active"]
            /\ entries' = Credited(y, ByStars(y))
       ELSE UNCHANGED <<orders, sub, entries>>

(* Mutant of Processed: the update is recorded before the transaction.     *)
ProcessedInTwo(y) ==
    \/ Fulfil(y)
    \/ y \notin updates /\ updates' = updates \cup {y} /\ UNCHANGED <<orders, sub, entries>>

Processed(y) == Fulfil(y)

PaymentArrives(y) ==
    /\ payments[y].at = "charged" /\ bot.enabled
    /\ Processed(y)
    /\ \/ Goes(y, "ended") /\ UNCHANGED lost
       \/ lost < MaxLost /\ lost' = lost + 1 /\ UNCHANGED payments
    /\ UNCHANGED <<plan, bot, late, sessions, unsure, forms>>

-----------------------------------------------------------------------------
(* Stripe                                                                  *)

(* create_checkout_session: the price of the moment becomes the recurring  *)
(* price; a creator without a row gets one with the plan.                  *)
CheckoutSession(s) ==
    /\ sessions[s].at = "none" /\ plan.active
    /\ sessions' = [sessions EXCEPT ![s].at = "open", ![s].price = quote(plan).net]
    /\ sub' = IF sub.plan = Nothing THEN [sub EXCEPT !.plan = "ai"] ELSE sub
    /\ UNCHANGED <<plan, bot, orders, late, payments, updates, entries, unsure, forms, lost>>

(* Stripe charges the first period, and the next ones; it reports each     *)
(* with an event, in any order.                                            *)
ChargePeriod(s, n) ==
    /\ sessions[s].at \in {"open", "running"}
    /\ sessions[s].invoice[n] = "none"
    /\ n > 1 => sessions[s].invoice[n - 1] # "none"
    /\ sessions' = [sessions EXCEPT ![s].at = "running", ![s].invoice[n] = "paid",
                       ![s].completed = IF n = 1 THEN "sent" ELSE @]
    /\ UNCHANGED <<plan, bot, sub, orders, late, payments, updates, entries, unsure, forms, lost>>

CancelStripe(s) ==
    /\ sessions[s].at = "running"
    /\ sessions' = [sessions EXCEPT ![s].at = "canceled"]
    /\ UNCHANGED <<plan, bot, sub, orders, late, payments, updates, entries, unsure, forms, lost>>

(* _handle_checkout_session_completed.                                     *)
CheckoutCompleted(s) ==
    /\ sessions[s].completed = "sent"
    /\ sessions' = [sessions EXCEPT ![s].completed = "processed"]
    /\ sub' = [plan |-> "ai", status |-> "active", stripe |-> s]
    /\ UNCHANGED <<plan, bot, orders, late, payments, updates, entries, unsure, forms, lost>>

(* _handle_invoice_paid: the row is found by the Stripe customer; nothing  *)
(* is credited while its plan has no AI budget.                            *)
InvoicePaid(s, n) ==
    /\ sessions[s].invoice[n] = "paid"
    /\ sessions' = [sessions EXCEPT ![s].invoice[n] = "processed"]
    /\ entries' = IF sub.plan = "ai" THEN Credited(<<s, n>>, sessions[s].price) ELSE entries
    /\ sub' = [sub EXCEPT !.status = "active"]
    /\ UNCHANGED <<plan, bot, orders, late, payments, updates, unsure, forms, lost>>

(* _handle_subscription_deleted.                                           *)
SubscriptionDeleted(s) ==
    /\ sessions[s].at = "canceled"
    /\ sessions' = [sessions EXCEPT ![s].at = "deleted"]
    /\ sub' = [sub EXCEPT !.status = "canceled"]
    /\ UNCHANGED <<plan, bot, orders, late, payments, updates, entries, unsure, forms, lost>>

-----------------------------------------------------------------------------
StarsStep ==
    \/ \E o \in Orders : StarsCheckout(o) \/ HalfAnHourPasses(o)
    \/ \E y \in Payments, o \in Orders : PressPay(y, o)
    \/ \E y \in Payments :
          AnswerPreCheckout(y) \/ TakeStars(y) \/ GiveUp(y) \/ PaymentArrives(y)

StripeStep ==
    \/ \E s \in Purchases : CheckoutSession(s) \/ CancelStripe(s) \/ CheckoutCompleted(s)
    \/ \E s \in Purchases : SubscriptionDeleted(s)
    \/ \E s \in Purchases, n \in Periods : ChargePeriod(s, n) \/ InvoicePaid(s, n)

ShopNext ==
    \/ \E p \in Plans : SavePlan(p)
    \/ DiscountEnds
    \/ \E enabled \in BOOLEAN, rate \in Rates : SaveBot(enabled, rate)
    \/ StarsStep \/ StripeStep

ShopSpec == ShopInit /\ [][ShopNext]_shopVars

-----------------------------------------------------------------------------
Charged(o) == {y \in Payments : /\ payments[y].order = o
                                /\ payments[y].at = "charged" \/ y \in updates}
Credits(o) == {y \in Payments : payments[y].order = o /\ entries[y] > 0}

(* What a payment credits is what the creator agreed to, at the price of   *)
(* the order or of the checkout session, once for an order however often   *)
(* it was charged and reported, and Stars bring at least that much,        *)
(* whatever the superadmins saved in between (views.py 226-237, 354-372).  *)
CreditedAsAgreed ==
    /\ \A o \in Orders :
          /\ Cardinality(Credits(o)) <= 1
          /\ \A y \in Credits(o) : entries[y] = orders[o].net /\ orders[o].net <= orders[o].brings
    /\ \A s \in Purchases, n \in Periods : entries[<<s, n>>] \in {0, sessions[s].price}

(* An order is charged once, though its link can be paid again and again,  *)
(* unless Telegram has an approval the server has lost.                    *)
ChargedOnce == \A o \in Orders : Cardinality(Charged(o)) > 1 => o \in unsure

(* An order that was charged is credited, unless the plan went for nothing *)
(* (credit_payment), or Telegram still reports it: no report is dropped    *)
(* while the bot is switched off or the handler fails.                     *)
ChargeIsNotForgotten ==
    \A o \in Orders : Charged(o) # {} /\ orders[o].net > 0 =>
        Credits(o) # {} \/ \E y \in Charged(o) : payments[y].at = "charged" /\ y \notin updates

(* Every invoice Stripe has reported as paid has filled the wallet.        *)
InvoiceFillsWallet ==
    \A s \in Purchases, n \in Periods :
        sessions[s].invoice[n] = "processed" => entries[<<s, n>>] > 0
=============================================================================
