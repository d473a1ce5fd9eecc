------------------------ MODULE ServiceOrdersProofs ------------------------
(***************************************************************************)
(* The shop of website services for any number of packages, drafts,        *)
(* offers, payment pages and orders: what is ordered was agreed to         *)
(* (OrderedWasAgreed), a charge is not forgotten (ChargeIsKnown) and the   *)
(* whole implements ServiceSale (KeepsSale).                               *)
(*                                                                         *)
(* The argument has two halves.  Orders and payment pages only evolve: a   *)
(* placed order keeps its document and a settled one stays settled, a page *)
(* keeps its order and amount and a charge stays one (OrdersEvolve and     *)
(* PagesEvolve, true of every step).  Whoever is on the way with an order  *)
(* or a page - a request, a lookup, a refund - knows things that survive   *)
(* such an evolution (CallsKnow, LookupsKnow, RefundsKnow), so nothing     *)
(* done between its steps can mislead it.                                  *)
(***************************************************************************)
EXTENDS ServiceOrders, TLAPS

PageStates == {"listed", "charged", "gone", "payout", "paid_out"}
Phases == {"sent", "opening", "opened", "answered", "refused"}

Order == [status : Statuses, doc : Documents, page : Pages \cup {None},
          charge : Pages \cup {None}]
PageRow == [state : PageStates, key : Keys, amount : Nat]
Call == [phase : Phases, key : Keys, page : Pages \cup {None}, heard : BOOLEAN]
Hints == [page : Pages, event : Telling]
Lookups == [key : Keys, page : Pages, code : Telling,
            hint : [page : Pages \cup {None}, event : Telling \cup {"none"}]]
Refunds == [key : Keys, page : Pages, code : {"asked", "paid_out", "payout"}]
Quotes == [doc : Documents, total : Nat]
Previews == {NoPreview, [phase |-> "pending"]} \cup [phase : {"done"}, doc : Documents]

ServerType ==
    /\ offer \in [Packages -> Offers]
    /\ order \in [Keys -> Order \cup {NoOrder}]
    /\ page \in [Pages -> PageRow \cup {NoPage}]
    /\ hints \subseteq Hints
    /\ lookups \subseteq Lookups
    /\ refunds \subseteq Refunds
    /\ call \in [{"place", "pay"} -> Call \cup {Idle}]

ClientType ==
    /\ changes \in 0 .. MaxChanges
    /\ key \in Nat
    /\ accepted \in BOOLEAN
    /\ visited \subseteq Pages
    /\ agreed \subseteq Documents
    /\ catalog \in [Packages -> Nat] \cup {None}
    /\ draft \in Drafts \cup {None}
    /\ draft # None => draft \in Drafts /\ catalog \in [Packages -> Nat]
    /\ reviewedFor \in Drafts \cup {None}
    /\ preview \in Previews
    /\ preview # NoPreview => reviewedFor \in Drafts
    /\ quote \in Quotes \cup {None}

TypeOK == ServerType /\ ClientType

Settling == Statuses \ {"pending_payment", "canceled"}

(* A page belongs to a placed order and has the price of its document; a   *)
(* saved page belongs to the order it is saved in.                         *)
PagesBelong ==
    \A s \in Pages : page[s] # NoPage =>
        /\ order[page[s].key] \in Order
        /\ page[s].amount = Total(order[page[s].key].doc)

SavedPages ==
    \A k \in Keys : order[k] \in Order /\ order[k].page # None =>
        page[order[k].page] \in PageRow /\ page[order[k].page].key = k

(* What a request knows in each of its phases. *)
CallKnows(c) ==
    /\ call[c].phase \in {"opening", "opened", "answered"} => order[call[c].key] \in Order
    /\ call[c].phase = "opened" =>
          call[c].page \in Pages /\ page[call[c].page] \in PageRow
          /\ page[call[c].page].key = call[c].key

CallsKnow ==
    /\ \A c \in {"place", "pay"} : call[c] # Idle => CallKnows(c)
    /\ call["pay"].phase = "sent" => order[call["pay"].key] \in Order
    /\ call["place"].phase = "sent" => quote \in Quotes /\ quote.doc \in agreed

(* What confirm_payment read at Payoneer stays true until it is written. *)
LookupsKnow ==
    \A r \in lookups :
        /\ page[r.page] \in PageRow /\ page[r.page].key = r.key
        /\ page[r.page].state \in Charged
        /\ r.code = "paid_out" => page[r.page].state = "paid_out"
        /\ r.hint.page \in {None, r.page}

(* A refund is asked for an order that was settled, and settled it stays. *)
RefundsKnow == \A r \in refunds : order[r.key] \in Order /\ order[r.key].status \in Settling

IInv ==
    /\ TypeOK
    /\ PagesBelong /\ SavedPages
    /\ CallsKnow /\ LookupsKnow /\ RefundsKnow
    /\ OrderedWasAgreed /\ ChargeIsKnown

(* What no step undoes, of an order and of a payment page.                 *)
OrdersEvolve ==
    \A k \in Keys : order[k] \in Order =>
        /\ order'[k] \in Order
        /\ order'[k].doc = order[k].doc
        /\ order[k].status \in Settling => order'[k].status \in Settling

PagesEvolve ==
    \A s \in Pages : page[s] \in PageRow =>
        /\ page'[s] \in PageRow
        /\ page'[s].key = page[s].key /\ page'[s].amount = page[s].amount
        /\ page[s].state \in Charged => page'[s].state \in Charged
        /\ page[s].state = "paid_out" => page'[s].state = "paid_out"
        /\ page'[s].state = "charged" =>
              page[s].state = "charged" \/ Hint(s, "charged") \in hints'

-----------------------------------------------------------------------------
(* Facts about the data.                                                   *)
LEMMA NoOrderIsNone == NoOrder \notin Order /\ \A x \in Order : x.status \in Statuses
<1>1. \A x \in Order : x.status \in Statuses
  BY DEF Order
<1>2. NoOrder.status = "none" /\ "none" \notin Statuses
  BY DEF NoOrder, Statuses
<1>3. QED
  BY <1>1, <1>2

LEMMA NoPageIsNone == NoPage \notin PageRow /\ \A x \in PageRow : x.state \in PageStates
<1>1. \A x \in PageRow : x.state \in PageStates
  BY DEF PageRow
<1>2. NoPage.state = "unused" /\ "unused" \notin PageStates
  BY DEF NoPage, PageStates
<1>3. QED
  BY <1>1, <1>2

LEMMA DraftedDocument ==
    ASSUME ServiceOrdersAssumption, offer \in [Packages -> Offers], NEW d \in Drafts
    PROVE  DraftDocument(d) \in Documents /\ Total(DraftDocument(d)) \in Nat
BY DEF ServiceOrdersAssumption, DraftDocument, Documents, Total

LEMMA TotalIsNat ==
    ASSUME ServiceOrdersAssumption, NEW d \in Documents
    PROVE  Total(d) \in Nat
BY DEF ServiceOrdersAssumption, Documents, Total

(* An order that a step has written is an order. *)
LEMMA StatusWritten ==
    ASSUME NEW x \in Order, NEW s \in Statuses
    PROVE  /\ [x EXCEPT !.status = s] \in Order
           /\ [x EXCEPT !.status = s].status = s
           /\ [x EXCEPT !.status = s].doc = x.doc
           /\ [x EXCEPT !.status = s].page = x.page
BY DEF Order

-----------------------------------------------------------------------------
(* Types.                                                                  *)
LEMMA TypeInit == ASSUME ServiceOrdersAssumption, Init PROVE TypeOK
<1>1. ServerType
  BY DEF Init, ServerType, NoPage, NoOrder, Idle
<1>2. ClientType
  <2>1. accepted \in BOOLEAN
    BY DEF Init
  <2>2. preview \in Previews /\ (preview # NoPreview => reviewedFor \in Drafts)
    BY DEF Init, Previews, NoPreview
  <2>3. QED
    BY <2>1, <2>2 DEF Init, ClientType, ServiceOrdersAssumption
<1>3. QED
  BY <1>1, <1>2 DEF TypeOK

(* The customer's page. *)
LEMMA CustomerTypes ==
    ASSUME ServiceOrdersAssumption, TypeOK,
           \/ LoadCatalog \/ ReviewContract \/ AcceptTerms
           \/ \E d \in Drafts : ChoosePackage(d) \/ EditForm(d)
    PROVE  TypeOK'
<1>1. UNCHANGED <<shopVars, order, remoteVars, callVars>>
  BY DEF LoadCatalog, ReviewContract, AcceptTerms, ChoosePackage, EditForm
<1>2. ServerType'
  BY <1>1 DEF ServerType, TypeOK, shopVars, remoteVars, callVars
<1>3. ClientType'
  <2> USE DEF ClientType, TypeOK, shopVars, remoteVars, callVars
  <2>1. CASE LoadCatalog
    BY <2>1 DEF LoadCatalog, ServerType, ServiceOrdersAssumption, FormInUse
  <2>2. CASE ReviewContract
    BY <2>2 DEF ReviewContract, ReviewOffered, Previews, FormInUse
  <2>3. CASE AcceptTerms
    BY <2>3 DEF AcceptTerms
  <2>4. ASSUME NEW d \in Drafts, ChoosePackage(d) PROVE ClientType'
    BY <2>4 DEF ChoosePackage, FormInUse
  <2>5. ASSUME NEW d \in Drafts, EditForm(d) PROVE ClientType'
    BY <2>5 DEF EditForm, FormInUse
  <2>6. QED
    BY <2>1, <2>2, <2>3, <2>4, <2>5
<1>4. QED
  BY <1>2, <1>3 DEF TypeOK

PlaceOrPay == {"place", "pay"}

LEMMA CallsAnswered ==
    ASSUME ServerType, NEW c \in PlaceOrPay, call[c] # Idle
    PROVE  /\ call[c] \in Call
           /\ \A p \in Phases : [call[c] EXCEPT !.phase = p] \in Call
BY DEF ServerType, Call, PlaceOrPay

(* What is sent with "Accept and pay" is the contract on the page.          *)
LEMMA QuotePlaced ==
    ASSUME ServiceOrdersAssumption, TypeOK, PlaceOrder
    PROVE  quote' \in Quotes /\ agreed' \subseteq Documents
<1> USE DEF TypeOK
<1>1. draft \in Drafts /\ catalog \in [Packages -> Nat] /\ preview.phase = "done"
  BY DEF PlaceOrder, Offered, Stale, ClientType, NoPreview, ServiceOrdersAssumption
<1>2. OnPaper(preview) \in Documents
  BY <1>1 DEF ClientType, Previews, NoPreview, OnPaper
<1>3. QED
  BY <1>1, <1>2 DEF PlaceOrder, Quotes, ClientType, ServiceOrdersAssumption

(* The requests of the customer's page and their answers. *)
LEMMA RequestTypes ==
    ASSUME ServiceOrdersAssumption, TypeOK, CallsKnow,
           \/ PlaceOrder
           \/ \E k \in Keys : PressPay(k)
           \/ \E c \in PlaceOrPay : Answered(c) \/ Refused(c)
    PROVE  TypeOK'
<1> USE DEF shopVars, remoteVars, callVars, clientVars, TypeOK
<1>1. UNCHANGED <<shopVars, order, remoteVars, lookups, refunds>>
  BY DEF PlaceOrder, PressPay, Answered, Refused
<1>2. CASE PlaceOrder
  <2>1. call' \in [PlaceOrPay -> Call \cup {Idle}]
    BY <1>2 DEF PlaceOrder, ServerType, Call, Sent, PlaceOrPay, Phases
  <2>2. quote' \in Quotes /\ agreed' \subseteq Documents
    BY <1>2, QuotePlaced
  <2>3. QED
    BY <1>1, <1>2, <2>1, <2>2 DEF PlaceOrder, ServerType, ClientType, PlaceOrPay
<1>3. ASSUME NEW k \in Keys, PressPay(k) PROVE TypeOK'
  <2>1. call' \in [PlaceOrPay -> Call \cup {Idle}]
    BY <1>3 DEF PressPay, ServerType, Call, Sent, PlaceOrPay, Phases
  <2>2. QED
    BY <1>1, <1>3, <2>1 DEF PressPay, ServerType, ClientType, PlaceOrPay
<1>4. ASSUME NEW c \in PlaceOrPay, Refused(c) PROVE TypeOK'
  <2>1. call' \in [PlaceOrPay -> Call \cup {Idle}]
    BY <1>4 DEF Refused, ServerType, PlaceOrPay
  <2>2. QED
    BY <1>1, <1>4, <2>1 DEF Refused, ServerType, ClientType, PlaceOrPay
<1>5. ASSUME NEW c \in PlaceOrPay, Answered(c) PROVE TypeOK'
  <2> DEFINE goes == call[c].heard /\ order[call[c].key].page # None
                     /\ (c = "pay" => Pending(call[c].key))
  <2>1. call[c] \in Call
    BY <1>5 DEF Answered, ServerType, Idle, PlaceOrPay
  <2>2. call' \in [PlaceOrPay -> Call \cup {Idle}]
    <3>1. CASE goes
      <4>1. \A x \in PlaceOrPay : call[x] \in Call => [call[x] EXCEPT !.heard = FALSE] \in Call
        BY DEF Call
      <4>2. call' = [x \in PlaceOrPay |-> IF x = c \/ call[x] = Idle THEN Idle
                                        ELSE [call[x] EXCEPT !.heard = FALSE]]
        BY <1>5, <3>1 DEF Answered, ServerType, PlaceOrPay
      <4>3. QED
        BY <4>1, <4>2 DEF ServerType, PlaceOrPay
    <3>2. CASE ~goes
      BY <1>5, <3>2 DEF Answered, ServerType, PlaceOrPay
    <3>3. QED
      BY <3>1, <3>2
  <2>3. key' \in Nat /\ quote' \in Quotes \cup {None} /\ UNCHANGED <<agreed, changes>>
    BY <1>5, <2>1 DEF Answered, ClientType, Call
  <2>4. CASE goes
    <3>1. Leave(order[call[c].key].page)
      BY <1>5, <2>4 DEF Answered
    <3>2. order[call[c].key].page \in Pages
      BY <1>5, <2>1, <2>4 DEF Answered, CallsKnow, CallKnows, Idle, Order, PlaceOrPay
    <3>3. visited' \subseteq Pages
      BY <3>1, <3>2 DEF Leave, ClientType
    <3>4. accepted' \in BOOLEAN /\ preview' \in Previews
      BY <3>1 DEF Leave, Previews
    <3>5. QED
      BY <1>1, <2>2, <2>3, <3>1, <3>3, <3>4 DEF Leave, ServerType, ClientType, PlaceOrPay
  <2>5. CASE ~goes
    BY <1>1, <1>5, <2>2, <2>3, <2>5 DEF Answered, ServerType, ClientType, PlaceOrPay
  <2>6. QED
    BY <2>4, <2>5
<1>6. QED
  BY <1>2, <1>3, <1>4, <1>5

-----------------------------------------------------------------------------
(* One order, one page and one request written.                            *)
LEMMA OrderWritten ==
    ASSUME ServerType, NEW k \in Keys, order[k] \in Order,
           NEW x \in Order, x.doc = order[k].doc,
           order[k].status \in Settling => x.status \in Settling,
           order' = [order EXCEPT ![k] = x]
    PROVE  order' \in [Keys -> Order \cup {NoOrder}] /\ OrdersEvolve
BY DEF ServerType, OrdersEvolve

LEMMA PageWritten ==
    ASSUME ServerType, NEW s \in Pages, page[s] \in PageRow, NEW t \in PageStates,
           page' = [page EXCEPT ![s].state = t]
    PROVE  page' \in [Pages -> PageRow \cup {NoPage}]
BY DEF ServerType, PageRow

LEMMA PageEvolves ==
    ASSUME ServerType, NEW s \in Pages, page[s] \in PageRow, NEW t \in PageStates,
           page' = [page EXCEPT ![s].state = t],
           page[s].state \in Charged => t \in Charged,
           page[s].state = "paid_out" => t = "paid_out",
           t = "charged" => Hint(s, "charged") \in hints'
    PROVE  PagesEvolve
<1>1. page' = [page EXCEPT ![s] = [page[s] EXCEPT !.state = t]]
  OBVIOUS
<1>2. /\ [page[s] EXCEPT !.state = t] \in PageRow
      /\ [page[s] EXCEPT !.state = t].key = page[s].key
      /\ [page[s] EXCEPT !.state = t].amount = page[s].amount
      /\ [page[s] EXCEPT !.state = t].state = t
  BY DEF PageRow
<1>3. QED
  BY <1>1, <1>2 DEF ServerType, PagesEvolve

LEMMA NothingEvolves ==
    ASSUME ServerType
    PROVE  /\ UNCHANGED order => OrdersEvolve
           /\ UNCHANGED page => PagesEvolve
BY DEF OrdersEvolve, PagesEvolve

LEMMA PhaseWritten ==
    ASSUME ServerType, NEW c \in PlaceOrPay, call[c] # Idle, NEW p \in Phases,
           call' = [call EXCEPT ![c].phase = p]
    PROVE  call' \in [PlaceOrPay -> Call \cup {Idle}]
BY CallsAnswered DEF ServerType, PlaceOrPay

(* The server's half of the types, and nothing evolves by a request.       *)
ServerStep == TypeOK' /\ OrdersEvolve /\ PagesEvolve

LEMMA CreateOrderStep == ASSUME ServiceOrdersAssumption, IInv, CreateOrder PROVE ServerStep
<1> USE DEF IInv, TypeOK
<1> DEFINE k == call["place"].key
           d == quote.doc.draft
<1>1. call["place"].phase = "sent" /\ call["place"] # Idle /\ call["place"] \in Call
  BY DEF CreateOrder, Idle, ServerType
<1>2. k \in Keys /\ quote.doc \in Documents /\ d \in Drafts
  BY <1>1 DEF Call, CallsKnow, Quotes, Documents
<1>3. call' \in [PlaceOrPay -> Call \cup {Idle}]
  <2>1. \E p \in Phases : call' = [call EXCEPT !["place"].phase = p]
    BY DEF CreateOrder, Phases
  <2>2. QED
    BY <1>1, <2>1, PhaseWritten DEF PlaceOrPay
<1>4. order' \in [Keys -> Order \cup {NoOrder}] /\ OrdersEvolve
  <2>1. CASE UNCHANGED order
    BY <2>1, NothingEvolves DEF ServerType
  <2>2. CASE /\ order[k] = NoOrder
             /\ order' = [order EXCEPT ![k] = [status |-> "pending_payment",
                             doc |-> DraftDocument(d), page |-> None, charge |-> None]]
    <3>1. [status |-> "pending_payment", doc |-> DraftDocument(d), page |-> None,
           charge |-> None] \in Order
      BY <1>2, DraftedDocument DEF ServerType, Order, Statuses
    <3>2. QED
      BY <1>2, <2>2, <3>1, NoOrderIsNone DEF ServerType, OrdersEvolve
  <2>3. QED
    BY <1>2, <2>1, <2>2 DEF CreateOrder, Placed
<1>5. ServerType'
  BY <1>3, <1>4 DEF CreateOrder, ServerType, shopVars, remoteVars, PlaceOrPay
<1>6. ClientType'
  BY DEF CreateOrder, ClientType, shopVars, clientVars
<1>7. QED
  BY <1>4, <1>5, <1>6, NothingEvolves DEF ServerStep, CreateOrder, remoteVars

LEMMA PageIsRow ==
    ASSUME ServerType, NEW s \in Pages, page[s].state \in PageStates
    PROVE  page[s] \in PageRow
BY DEF ServerType, NoPage, PageStates

(* A request that only moves on. *)
LEMMA PhaseStep ==
    ASSUME IInv, SalesPaused \/ \E c \in PlaceOrPay : CheckoutFails(c)
    PROVE  ServerStep
<1> USE DEF IInv, TypeOK
<1>1. PICK c \in PlaceOrPay : /\ call[c] # Idle
                             /\ call' = [call EXCEPT ![c].phase = "refused"]
  BY DEF SalesPaused, CheckoutFails, Idle, PlaceOrPay
<1>2. UNCHANGED <<shopVars, order, remoteVars, lookups, refunds, quote, clientVars, agreed>>
  BY DEF SalesPaused, CheckoutFails
<1>3. call' \in [PlaceOrPay -> Call \cup {Idle}]
  BY <1>1, PhaseWritten DEF Phases
<1>4. ServerType'
  BY <1>2, <1>3 DEF ServerType, shopVars, remoteVars, PlaceOrPay
<1>5. ClientType'
  BY <1>2 DEF ClientType, shopVars, clientVars
<1>6. QED
  BY <1>2, <1>4, <1>5, NothingEvolves DEF ServerStep, remoteVars

LEMMA ContractPreviewStep ==
    ASSUME ServiceOrdersAssumption, IInv, ContractPreview PROVE ServerStep
<1> USE DEF IInv, TypeOK, ContractPreview
<1>1. reviewedFor \in Drafts
  BY DEF ClientType, NoPreview
<1>2. preview' \in Previews
  BY <1>1, DraftedDocument DEF Previews, ServerType
<1>3. ClientType'
  BY <1>1, <1>2 DEF ClientType, shopVars, callVars
<1>4. ServerType'
  BY DEF ServerType, shopVars, remoteVars, callVars
<1>5. QED
  BY <1>3, <1>4, NothingEvolves DEF ServerStep, remoteVars

LEMMA OpenPageStep ==
    ASSUME ServiceOrdersAssumption, IInv, NEW c \in PlaceOrPay, OpenPage(c) PROVE ServerStep
<1> USE DEF IInv, TypeOK
<1>1. call[c] \in Call /\ order[call[c].key] \in Order
  BY DEF OpenPage, ServerType, CallsKnow, CallKnows, Idle, PlaceOrPay
<1> DEFINE row == [state |-> "listed", key |-> call[c].key,
                   amount |-> Total(order[call[c].key].doc)]
<1>2. PICK s \in Pages : /\ page[s] = NoPage
                        /\ page' = [page EXCEPT ![s] = row]
                        /\ call' = [call EXCEPT ![c].phase = "opened", ![c].page = s]
  BY DEF OpenPage
<1>3. row \in PageRow
  BY <1>1, TotalIsNat DEF PageRow, Call, Order, PageStates
<1>4. page' \in [Pages -> PageRow \cup {NoPage}] /\ PagesEvolve
  BY <1>2, <1>3, NoPageIsNone DEF ServerType, PagesEvolve
<1>5. call' \in [PlaceOrPay -> Call \cup {Idle}]
  BY <1>1, <1>2 DEF ServerType, Call, PlaceOrPay, Phases
<1>6. ServerType'
  BY <1>4, <1>5 DEF OpenPage, ServerType, shopVars, PlaceOrPay
<1>7. ClientType'
  BY DEF OpenPage, ClientType, shopVars, clientVars
<1>8. QED
  BY <1>4, <1>6, <1>7, NothingEvolves DEF ServerStep, OpenPage

LEMMA SavePageStep ==
    ASSUME IInv, NEW c \in PlaceOrPay, SavePage(c) PROVE ServerStep
<1> USE DEF IInv, TypeOK
<1> DEFINE k == call[c].key
           x == [order[k] EXCEPT !.page = call[c].page]
<1>1. /\ call[c] \in Call /\ call[c] # Idle
      /\ k \in Keys /\ order[k] \in Order /\ call[c].page \in Pages
  BY DEF SavePage, ServerType, CallsKnow, CallKnows, Idle, PlaceOrPay, Call
<1>2. x \in Order /\ x.doc = order[k].doc /\ x.status = order[k].status
  BY <1>1 DEF Order
<1>3. order' = [order EXCEPT ![k] = x]
  BY DEF SavePage
<1> HIDE DEF k, x
<1>4. order' \in [Keys -> Order \cup {NoOrder}] /\ OrdersEvolve
  BY <1>1, <1>2, <1>3, OrderWritten
<1>5. call' \in [PlaceOrPay -> Call \cup {Idle}]
  BY <1>1, PhaseWritten DEF SavePage, Phases
<1>6. ServerType'
  BY <1>4, <1>5 DEF SavePage, ServerType, shopVars, remoteVars, PlaceOrPay
<1>7. ClientType'
  BY DEF SavePage, ClientType, shopVars, clientVars
<1>8. QED
  BY <1>4, <1>6, <1>7, NothingEvolves DEF ServerStep, SavePage, remoteVars

LEMMA OrderSettled ==
    ASSUME ServerType, NEW k \in Keys, order[k] \in Order, NEW s \in Pages \cup {None},
           Settled(k, s)
    PROVE  /\ order' \in [Keys -> Order \cup {NoOrder}]
           /\ OrdersEvolve
           /\ order'[k].status \in Settling
<1> DEFINE x == [order[k] EXCEPT
                   !.status = IF @ \in {"pending_payment", "canceled"} THEN "paid" ELSE @,
                   !.charge = IF @ = None THEN s ELSE @]
<1>1. x \in Order /\ x.doc = order[k].doc /\ x.status \in Settling
  BY DEF Order, Statuses, Settling
<1>2. order' = [order EXCEPT ![k] = x]
  BY DEF Settled, ServerType
<1> HIDE DEF x
<1>3. QED
  BY <1>1, <1>2, OrderWritten DEF ServerType

LEMMA ResumeCheckoutStep == ASSUME IInv, ResumeCheckout PROVE ServerStep
<1> USE DEF IInv, TypeOK
<1> DEFINE k == call["pay"].key
<1>1. call["pay"] \in Call /\ call["pay"] # Idle /\ k \in Keys /\ order[k] \in Order
  BY DEF ResumeCheckout, ServerType, CallsKnow, Idle, Call
<1>2. call' \in [PlaceOrPay -> Call \cup {Idle}]
  <2>1. \E p \in Phases : call' = [call EXCEPT !["pay"].phase = p]
    BY DEF ResumeCheckout, Phases
  <2>2. QED
    BY <1>1, <2>1, PhaseWritten DEF PlaceOrPay
<1>3. UNCHANGED order \/ Settled(k, None)
  BY DEF ResumeCheckout
<1>4. order' \in [Keys -> Order \cup {NoOrder}] /\ OrdersEvolve
  BY <1>1, <1>3, OrderSettled, NothingEvolves DEF ServerType
<1>5. ServerType'
  BY <1>2, <1>4 DEF ResumeCheckout, ServerType, shopVars, remoteVars, PlaceOrPay
<1>6. ClientType'
  BY DEF ResumeCheckout, ClientType, shopVars, clientVars
<1>7. QED
  BY <1>4, <1>5, <1>6, NothingEvolves DEF ServerStep, ResumeCheckout, remoteVars

-----------------------------------------------------------------------------
(* Payoneer.                                                               *)
LEMMA MovePageStep ==
    ASSUME IInv, NEW s \in Pages, NEW from \in PageStates, NEW to \in PageStates,
           MovePage(s, from, to),
           from \in Charged => to \in Charged,
           from = "paid_out" => to = "paid_out"
    PROVE  ServerStep
<1> USE DEF IInv, TypeOK
<1>1. page[s] \in PageRow
  BY PageIsRow DEF MovePage
<1>2. to = "charged" => Hint(s, "charged") \in hints'
  BY DEF MovePage, Telling
<1>3. page' \in [Pages -> PageRow \cup {NoPage}] /\ PagesEvolve
  BY <1>1, <1>2, PageWritten, PageEvolves DEF MovePage
<1>4. hints' \subseteq Hints
  BY DEF MovePage, ServerType, Hints, Hint
<1>5. ServerType'
  BY <1>3, <1>4 DEF MovePage, ServerType, shopVars, callVars
<1>6. ClientType'
  BY DEF MovePage, ClientType, shopVars, callVars, clientVars
<1>7. QED
  BY <1>3, <1>5, <1>6, NothingEvolves DEF ServerStep, MovePage

LEMMA PayoneerStep == ASSUME IInv, Payoneer PROVE ServerStep
<1>1. PICK s \in Pages : Charge(s) \/ RunsOut(s) \/ PayoutEnds(s)
  BY DEF Payoneer
<1>2. CASE Charge(s)
  BY <1>2, MovePageStep DEF Charge, PageStates, Charged
<1>3. CASE RunsOut(s)
  BY <1>3, MovePageStep DEF RunsOut, PageStates, Charged
<1>4. CASE PayoutEnds(s)
  BY <1>4, MovePageStep DEF PayoutEnds, PageStates, Charged
<1>5. QED
  BY <1>1, <1>2, <1>3, <1>4

-----------------------------------------------------------------------------
(* confirm_payment.                                                        *)
LEMMA LookupsStep ==
    ASSUME IInv,
           \/ \E h \in hints : HandleNotification(h)
           \/ \E k \in Keys : ConfirmPayment(k)
    PROVE  ServerStep
<1> USE DEF IInv, TypeOK
<1>1. UNCHANGED <<shopVars, order, remoteVars, refunds, call, quote, clientVars, agreed>>
  BY DEF HandleNotification, ConfirmPayment
<1>2. lookups' \subseteq Lookups
  <2>1. ASSUME NEW h \in hints, HandleNotification(h) PROVE lookups' \subseteq Lookups
    <3>1. h \in [page : Pages, event : Telling] /\ page[h.page] \in PageRow
      BY <2>1, PageIsRow DEF HandleNotification, ServerType, Hints, Telling, PageStates
    <3>2. Lookup(page[h.page].key, h.page, h) \in Lookups
      BY <2>1, <3>1 DEF HandleNotification, Lookup, Lookups, PageRow
    <3>3. QED
      BY <2>1, <3>2 DEF HandleNotification, ServerType
  <2>2. ASSUME NEW k \in Keys, ConfirmPayment(k) PROVE lookups' \subseteq Lookups
    <3>1. order[k] \in Order
      BY <2>2 DEF ConfirmPayment, Unpaid, Placed, ServerType
    <3>2. order[k].page \in Pages /\ page[order[k].page].state \in Telling
      BY <2>2, <3>1 DEF ConfirmPayment, Order
    <3>3. Lookup(k, order[k].page, Hint(None, "none")) \in Lookups
      BY <3>2 DEF Lookup, Lookups, Hint
    <3>4. QED
      BY <2>2, <3>3 DEF ConfirmPayment, ServerType
  <2>3. QED
    BY <2>1, <2>2
<1>3. ServerType'
  BY <1>1, <1>2 DEF ServerType, shopVars, remoteVars
<1>4. ClientType'
  BY <1>1 DEF ClientType, shopVars, clientVars
<1>5. QED
  BY <1>1, <1>3, <1>4, NothingEvolves DEF ServerStep, remoteVars

LEMMA ConfirmWriteStep == ASSUME IInv, NEW r \in lookups, ConfirmWrite(r) PROVE ServerStep
<1> USE DEF IInv, TypeOK
<1>1. r.key \in Keys /\ r.hint.page \in Pages \cup {None} /\ order[r.key] \in Order
  BY DEF ServerType, Lookups, LookupsKnow, PagesBelong, PageRow, NoPage
<1>2. order' \in [Keys -> Order \cup {NoOrder}] /\ OrdersEvolve
  <2>1. CASE r.code = "charged"
    BY <1>1, <2>1, OrderSettled DEF ConfirmWrite
  <2>2. CASE r.code # "charged"
    <3> DEFINE s == IF order[r.key].status \in Refundable THEN "refunded"
                    ELSE order[r.key].status
               x == [order[r.key] EXCEPT !.status = s]
    <3>1. x \in Order /\ x.doc = order[r.key].doc /\ x.status = s
      <4>1. s \in Statuses
        BY <1>1, NoOrderIsNone DEF Statuses
      <4>2. QED
        BY <1>1, <4>1, StatusWritten
    <3>2. s \in Settling \/ s = order[r.key].status
      BY DEF Settling, Statuses
    <3>3. order' = [order EXCEPT ![r.key] = x]
      BY <2>2 DEF ConfirmWrite
    <3> HIDE DEF x, s
    <3>4. QED
      BY <1>1, <3>1, <3>2, <3>3, OrderWritten
  <2>3. QED
    BY <2>1, <2>2
<1>3. ServerType'
  BY <1>2 DEF ConfirmWrite, ServerType, shopVars
<1>4. ClientType'
  BY DEF ConfirmWrite, ClientType, shopVars, clientVars
<1>5. QED
  BY <1>2, <1>3, <1>4, NothingEvolves DEF ServerStep, ConfirmWrite

-----------------------------------------------------------------------------
(* The operator's page.                                                    *)
LEMMA ChangeStep ==
    ASSUME ServiceOrdersAssumption, IInv,
           SaveExecutor \/ \E p \in Packages : SavePackage(p)
    PROVE  ServerStep
<1> USE DEF IInv, TypeOK
<1>1. Change
  BY DEF SaveExecutor, SavePackage
<1>2. offer' \in [Packages -> Offers]
  BY DEF SaveExecutor, SavePackage, ServerType
<1>3. ServerType'
  BY <1>1, <1>2 DEF Change, ServerType, remoteVars, callVars
<1>4. changes' \in 0 .. MaxChanges
  BY <1>1 DEF Change, ClientType, ServiceOrdersAssumption
<1>5. ClientType'
  BY <1>1, <1>4 DEF Change, ClientType, clientVars, callVars
<1>6. QED
  BY <1>1, <1>3, <1>5, NothingEvolves DEF ServerStep, Change, remoteVars

LEMMA UpdateStatusStep ==
    ASSUME IInv, NEW k \in Placed, NEW t \in Statuses, UpdateStatus(k, t)
    PROVE  ServerStep
<1> USE DEF IInv, TypeOK
<1>1. k \in Keys /\ order[k] \in Order /\ order[k].status \in Statuses
  BY NoOrderIsNone DEF Placed, ServerType
<1>2. order[k].status \in Settling => t \in Settling
  BY <1>1 DEF UpdateStatus, AdminTransitions, Settling, Statuses
<1>3. order' \in [Keys -> Order \cup {NoOrder}] /\ OrdersEvolve
  <2> DEFINE x == [order[k] EXCEPT !.status = t]
  <2>1. x \in Order /\ x.doc = order[k].doc /\ x.status = t
    BY <1>1, StatusWritten
  <2>2. order' = [order EXCEPT ![k] = x]
    BY DEF UpdateStatus
  <2> HIDE DEF x
  <2>3. QED
    BY <1>1, <1>2, <2>1, <2>2, OrderWritten
<1>4. page' \in [Pages -> PageRow \cup {NoPage}] /\ PagesEvolve
  <2>1. CASE UNCHANGED page
    BY <2>1, NothingEvolves DEF ServerType
  <2>2. CASE /\ order[k].page # None /\ page[order[k].page].state = "listed"
             /\ page' = [page EXCEPT ![order[k].page].state = "gone"]
    <3>1. order[k].page \in Pages /\ page[order[k].page] \in PageRow
      BY <1>1, <2>2 DEF Order, SavedPages
    <3>2. QED
      BY <2>2, <3>1, PageWritten, PageEvolves DEF PageStates, Charged
  <2>3. QED
    BY <2>1, <2>2 DEF UpdateStatus
<1>5. ServerType'
  BY <1>3, <1>4 DEF UpdateStatus, ServerType, shopVars, callVars
<1>6. ClientType'
  BY DEF UpdateStatus, ClientType, shopVars, callVars, clientVars
<1>7. QED
  BY <1>3, <1>4, <1>5, <1>6 DEF ServerStep

LEMMA AskRefundStep == ASSUME IInv, NEW k \in Placed, AskRefund(k) PROVE ServerStep
<1> USE DEF IInv, TypeOK
<1>1. k \in Keys /\ order[k] \in Order
  BY DEF Placed, ServerType
<1>2. [key |-> k, page |-> order[k].charge, code |-> "asked"] \in Refunds
  BY <1>1 DEF AskRefund, Refunds, Order
<1>3. ServerType'
  BY <1>2 DEF AskRefund, ServerType, shopVars, remoteVars
<1>4. ClientType'
  BY DEF AskRefund, ClientType, shopVars, clientVars
<1>5. QED
  BY <1>3, <1>4, NothingEvolves DEF ServerStep, AskRefund, remoteVars

LEMMA RefundChargeStep == ASSUME IInv, NEW r \in refunds, RefundCharge(r) PROVE ServerStep
<1> USE DEF IInv, TypeOK
<1>1. r \in Refunds /\ r.page \in Pages
  BY DEF ServerType, Refunds
<1>2. /\ page' \in [Pages -> PageRow \cup {NoPage}] /\ PagesEvolve
      /\ refunds' \subseteq Refunds /\ hints' \subseteq Hints
  <2>1. CASE page[r.page].state = "charged"
    <3>1. PICK code \in {"paid_out", "payout"} :
             /\ page' = [page EXCEPT ![r.page].state = code]
             /\ refunds' = (refunds \ {r}) \cup {[r EXCEPT !.code = code]}
             /\ hints' = hints \cup (IF code = "paid_out" THEN {Hint(r.page, code)} ELSE {})
      BY <2>1 DEF RefundCharge
    <3>2. page[r.page] \in PageRow
      BY <1>1, <2>1, PageIsRow DEF PageStates
    <3>3. page' \in [Pages -> PageRow \cup {NoPage}] /\ PagesEvolve
      BY <1>1, <2>1, <3>1, <3>2, PageWritten, PageEvolves DEF PageStates, Charged
    <3>4. [r EXCEPT !.code = code] \in Refunds
      BY <1>1 DEF Refunds
    <3>5. hints' \subseteq Hints
      BY <1>1, <3>1 DEF ServerType, Hints, Hint, Telling
    <3>6. QED
      BY <3>1, <3>3, <3>4, <3>5 DEF ServerType
  <2>2. CASE page[r.page].state # "charged"
    BY <2>2, NothingEvolves DEF RefundCharge, ServerType, remoteVars
  <2>3. QED
    BY <2>1, <2>2
<1>3. ServerType'
  BY <1>2 DEF RefundCharge, ServerType, shopVars
<1>4. ClientType'
  BY DEF RefundCharge, ClientType, shopVars, clientVars
<1>5. QED
  BY <1>2, <1>3, <1>4, NothingEvolves DEF ServerStep, RefundCharge

LEMMA RefundWriteStep == ASSUME IInv, NEW r \in refunds, RefundWrite(r) PROVE ServerStep
<1> USE DEF IInv, TypeOK
<1> DEFINE t == IF r.code = "paid_out" THEN "refunded" ELSE "refund_pending"
           x == [order[r.key] EXCEPT !.status = t]
<1>1. r.key \in Keys /\ order[r.key] \in Order
  BY DEF ServerType, Refunds, RefundsKnow
<1>2. t \in Statuses /\ t \in Settling
  BY DEF Statuses, Settling
<1>3. x \in Order /\ x.doc = order[r.key].doc /\ x.status = t
  BY <1>1, <1>2, StatusWritten
<1>4. order' = [order EXCEPT ![r.key] = x]
  BY DEF RefundWrite
<1> HIDE DEF x, t
<1>5. order' \in [Keys -> Order \cup {NoOrder}] /\ OrdersEvolve
  BY <1>1, <1>2, <1>3, <1>4, OrderWritten
<1>6. ServerType'
  BY <1>5 DEF RefundWrite, ServerType, shopVars, remoteVars
<1>7. ClientType'
  BY DEF RefundWrite, ClientType, shopVars, clientVars
<1>8. QED
  BY <1>5, <1>6, <1>7, NothingEvolves DEF ServerStep, RefundWrite, remoteVars

-----------------------------------------------------------------------------
(* Every step is such a step.                                              *)
LEMMA ClientStep ==
    ASSUME ServiceOrdersAssumption, IInv,
           \/ LoadCatalog \/ ReviewContract \/ AcceptTerms \/ PlaceOrder
           \/ \E d \in Drafts : ChoosePackage(d) \/ EditForm(d)
           \/ \E k \in Keys : PressPay(k)
           \/ \E c \in PlaceOrPay : Answered(c) \/ Refused(c)
    PROVE  ServerStep
<1>1. UNCHANGED <<order, page>>
  BY DEF LoadCatalog, ReviewContract, AcceptTerms, PlaceOrder, ChoosePackage, EditForm,
         PressPay, Answered, Refused, remoteVars
<1>2. TypeOK'
  BY CustomerTypes, RequestTypes DEF IInv
<1>3. QED
  BY <1>1, <1>2, NothingEvolves DEF IInv, TypeOK, ServerStep

LEMMA EveryStep == ASSUME ServiceOrdersAssumption, IInv, [Next]_vars PROVE ServerStep
<1>1. CASE UNCHANGED vars
  <2>1. ServerType' /\ UNCHANGED <<order, page>>
    BY <1>1 DEF IInv, TypeOK, ServerType, vars, shopVars, remoteVars, callVars
  <2>2. ClientType'
    BY <1>1 DEF IInv, TypeOK, ClientType, vars, shopVars, callVars, clientVars
  <2>3. QED
    BY <2>1, <2>2, NothingEvolves DEF ServerStep, IInv, TypeOK
<1>2. CASE Customer
  <2>1. ASSUME NEW k \in Unpaid, ReturnFromPayoneer(k) \/ ConfirmPayment(k) PROVE ServerStep
    BY <2>1, LookupsStep DEF ReturnFromPayoneer, Unpaid, Placed
  <2>2. QED
    BY <1>2, <2>1, ClientStep
       DEF Customer, OrderRow, PlaceOrPay, IInv, TypeOK, ServerType, Unpaid, Placed
<1>3. CASE Server
  <2>1. DOMAIN call = PlaceOrPay
    BY DEF IInv, TypeOK, ServerType, PlaceOrPay
  <2>2. CASE \E c \in PlaceOrPay : OpenPage(c) \/ SavePage(c) \/ CheckoutFails(c)
    BY <2>2, OpenPageStep, SavePageStep, PhaseStep
  <2>3. CASE ContractPreview \/ CreateOrder \/ SalesPaused \/ ResumeCheckout
    BY <2>3, ContractPreviewStep, CreateOrderStep, PhaseStep, ResumeCheckoutStep
  <2>4. CASE \E h \in hints : HandleNotification(h)
    BY <2>4, LookupsStep
  <2>5. CASE \E r \in lookups : ConfirmWrite(r)
    BY <2>5, ConfirmWriteStep
  <2>6. CASE \E r \in refunds : RefundCharge(r) \/ RefundWrite(r)
    BY <2>6, RefundChargeStep, RefundWriteStep
  <2>7. QED
    BY <1>3, <2>1, <2>2, <2>3, <2>4, <2>5, <2>6 DEF Server
<1>4. CASE Operator
  <2>1. ASSUME NEW k \in Placed, AdminOrderRow(k) PROVE ServerStep
    <3>1. ASSUME NEW t \in NextStatuses[order[k].status], UpdateStatus(k, t) PROVE ServerStep
      <4>1. t \in Statuses
        BY <3>1 DEF NextStatuses, AdminTransitions, UpdateStatus, Placed, IInv, TypeOK,
                    ServerType, Order, NoOrder, Statuses
      <4>2. QED
        BY <3>1, <4>1, UpdateStatusStep
    <3>2. QED
      BY <2>1, <3>1, LookupsStep, AskRefundStep DEF AdminOrderRow, Placed
  <2>2. QED
    BY <1>4, <2>1, ChangeStep DEF Operator
<1>5. CASE Payoneer
  BY <1>5, PayoneerStep
<1>6. QED
  BY <1>1, <1>2, <1>3, <1>4, <1>5 DEF Next

-----------------------------------------------------------------------------
(* What each part of IInv needs of a step.                                 *)
LEMMA RowsAre ==
    ASSUME ServerType
    PROVE  /\ \A k \in Keys : order[k] = NoOrder <=> order[k] \notin Order
           /\ \A s \in Pages : page[s] = NoPage <=> page[s] \notin PageRow
BY NoOrderIsNone, NoPageIsNone DEF ServerType

LEMMA BelongFrame ==
    ASSUME IInv, ServerStep, \A s \in Pages : page'[s] # NoPage => page[s] # NoPage
    PROVE  PagesBelong'
<1>1. SUFFICES ASSUME NEW s \in Pages, page'[s] # NoPage
               PROVE  /\ order'[page'[s].key] \in Order
                      /\ page'[s].amount = Total(order'[page'[s].key].doc)
  BY DEF PagesBelong, Total
<1>2. page[s] \in PageRow
  BY <1>1, RowsAre DEF IInv, TypeOK
<1>3. page[s].key \in Keys
  BY <1>2 DEF PageRow
<1>4. QED
  BY <1>2, <1>3, RowsAre DEF IInv, TypeOK, PagesBelong, ServerStep, OrdersEvolve, PagesEvolve

LEMMA SavedFrame ==
    ASSUME IInv, ServerStep,
           \A k \in Keys : order'[k] \in Order /\ order'[k].page # None =>
               order[k] \in Order /\ order'[k].page = order[k].page
    PROVE  SavedPages'
BY DEF IInv, TypeOK, SavedPages, ServerStep, PagesEvolve, Order

LEMMA CallsFrame ==
    ASSUME IInv, ServerStep, UNCHANGED <<call, quote>>, agreed \subseteq agreed'
    PROVE  CallsKnow'
<1>1. ASSUME NEW c \in {"place", "pay"}, call[c] # Idle PROVE CallKnows(c)'
  <2>1. call[c].key \in Keys
    BY <1>1 DEF IInv, TypeOK, ServerType, Call
  <2>2. QED
    BY <1>1, <2>1 DEF IInv, CallsKnow, CallKnows, ServerStep, OrdersEvolve, PagesEvolve
<1>2. call["pay"].phase = "sent" => order'[call["pay"].key] \in Order
  BY DEF IInv, TypeOK, ServerType, CallsKnow, ServerStep, OrdersEvolve, Call, Idle
<1>3. QED
  BY <1>1, <1>2 DEF IInv, CallsKnow

LEMMA LookupsFrame ==
    ASSUME IInv, ServerStep, lookups' \subseteq lookups
    PROVE  LookupsKnow'
<1>1. \A r \in lookups : r.page \in Pages
  BY DEF IInv, TypeOK, ServerType, Lookups
<1>2. QED
  BY <1>1 DEF IInv, LookupsKnow, ServerStep, PagesEvolve

LEMMA RefundsFrame ==
    ASSUME IInv, ServerStep, \A r \in refunds' : \E q \in refunds : r.key = q.key
    PROVE  RefundsKnow'
<1>1. \A r \in refunds : r.key \in Keys
  BY DEF IInv, TypeOK, ServerType, Refunds
<1>2. QED
  BY <1>1 DEF IInv, RefundsKnow, ServerStep, OrdersEvolve

LEMMA AgreedFrame ==
    ASSUME IInv, ServerStep, agreed \subseteq agreed',
           \A k \in Keys : order'[k] \in Order => order[k] \in Order
    PROVE  OrderedWasAgreed'
<1>1. \A k \in Keys : order[k] \in Order => order[k].doc \in agreed
  BY NoOrderIsNone DEF IInv, OrderedWasAgreed, Placed, PrintedContract, OnPaper
<1>2. \A k \in Keys : order'[k] # NoOrder => order'[k] \in Order
  BY DEF ServerStep, TypeOK, ServerType
<1>3. QED
  BY <1>1, <1>2
     DEF ServerStep, OrdersEvolve, OrderedWasAgreed, Placed, PrintedContract, OnPaper

LEMMA ChargeFrame ==
    ASSUME IInv, ServerStep, hints \subseteq hints',
           \A s \in Pages : page'[s].state = "charged" => page[s] # NoPage
    PROVE  ChargeIsKnown'
<1>1. SUFFICES ASSUME NEW s \in Pages, page'[s].state = "charged"
               PROVE  \/ order'[page'[s].key].status \notin {"pending_payment", "canceled"}
                      \/ Hint(s, "charged") \in hints'
  BY DEF ChargeIsKnown, Hint
<1>2. page[s] \in PageRow /\ page[s].key \in Keys /\ page'[s].key = page[s].key
  BY <1>1, RowsAre DEF IInv, TypeOK, PageRow, ServerStep, PagesEvolve
<1>3. order[page[s].key] \in Order
  BY <1>2, RowsAre DEF IInv, TypeOK, PagesBelong
<1>4. CASE page[s].state = "charged"
  <2>1. CASE Hint(s, "charged") \in hints
    BY <2>1
  <2>2. CASE order[page[s].key].status \in Settling
    BY <1>2, <1>3, <2>2 DEF ServerStep, OrdersEvolve, Settling
  <2>3. QED
    BY <1>3, <1>4, <2>1, <2>2, NoOrderIsNone DEF IInv, ChargeIsKnown, Settling
<1>5. QED
  BY <1>1, <1>2, <1>4 DEF ServerStep, PagesEvolve

-----------------------------------------------------------------------------
(* The other parts of IInv, step by step.                                  *)
Links == /\ PagesBelong /\ SavedPages
         /\ CallsKnow /\ LookupsKnow /\ RefundsKnow
         /\ OrderedWasAgreed /\ ChargeIsKnown

(* A step that leaves orders, pages and Payoneer's side alone. *)
LEMMA QuietFrame ==
    ASSUME IInv, ServerStep, UNCHANGED <<order, page, hints, lookups, refunds>>,
           agreed \subseteq agreed', CallsKnow'
    PROVE  Links'
<1>1. PagesBelong' /\ SavedPages'
  BY BelongFrame, SavedFrame
<1>2. LookupsKnow' /\ RefundsKnow'
  BY LookupsFrame, RefundsFrame
<1>3. OrderedWasAgreed'
  BY AgreedFrame
<1>4. \A s \in Pages : page'[s].state = "charged" => page[s] # NoPage
  BY DEF NoPage
<1>5. ChargeIsKnown'
  BY <1>4, ChargeFrame
<1>6. QED
  BY <1>1, <1>2, <1>3, <1>5 DEF Links

LEMMA CustomerKeeps ==
    ASSUME IInv, ServerStep,
           \/ LoadCatalog \/ ReviewContract \/ AcceptTerms \/ ContractPreview
           \/ SaveExecutor \/ \E p \in Packages : SavePackage(p)
           \/ \E d \in Drafts : ChoosePackage(d) \/ EditForm(d)
           \/ UNCHANGED vars
    PROVE  Links'
<1>1. UNCHANGED <<order, remoteVars, callVars, agreed>>
  BY DEF LoadCatalog, ReviewContract, AcceptTerms, ContractPreview, SaveExecutor,
         SavePackage, Change, ChoosePackage, EditForm, vars
<1>2. QED
  BY <1>1, QuietFrame, CallsFrame DEF remoteVars, callVars

LEMMA RequestKeeps ==
    ASSUME ServiceOrdersAssumption, IInv, ServerStep,
           \/ PlaceOrder
           \/ \E k \in Unpaid : PressPay(k)
           \/ \E c \in PlaceOrPay : Answered(c) \/ Refused(c)
    PROVE  Links'
<1>1. UNCHANGED <<order, remoteVars, lookups, refunds>> /\ agreed \subseteq agreed'
  BY DEF PlaceOrder, PressPay, Answered, Refused
<1>2. CallsKnow'
  <2> USE <1>1 DEF IInv, CallsKnow, CallKnows, remoteVars, PlaceOrPay
  <2>1. CASE PlaceOrder
    <3>1. quote' \in Quotes /\ quote'.doc \in agreed'
      BY <2>1, QuotePlaced DEF PlaceOrder
    <3>2. call' = [call EXCEPT !["place"] = Sent(key)]
      BY <2>1 DEF PlaceOrder
    <3>3. QED
      BY <3>1, <3>2 DEF TypeOK, ServerType, Sent, Idle
  <2>2. ASSUME NEW k \in Unpaid, PressPay(k) PROVE CallsKnow'
    <3>1. order[k] \in Order
      BY RowsAre DEF TypeOK, Unpaid, Placed
    <3>2. QED
      BY <2>2, <3>1 DEF PressPay, TypeOK, ServerType, Sent, Idle
  <2>3. ASSUME NEW c \in PlaceOrPay, Refused(c) PROVE CallsKnow'
    BY <2>3 DEF Refused, TypeOK, ServerType, Idle
  <2>4. ASSUME NEW c \in PlaceOrPay, Answered(c) PROVE CallsKnow'
    <3>1. \A x \in PlaceOrPay : \/ call'[x] = Idle
                               \/ /\ call[x] \in Call /\ call'[x].phase = call[x].phase
                                  /\ call'[x].key = call[x].key /\ call'[x].page = call[x].page
      BY <2>4 DEF Answered, TypeOK, ServerType, Call
    <3>2. c = "place" => call'["place"] = Idle
      BY <2>4 DEF Answered, TypeOK, ServerType
    <3>3. call["place"].phase = "sent" /\ call'["place"] # Idle => quote' = quote
      BY <2>4, <3>2 DEF Answered
    <3>4. agreed' = agreed
      BY <2>4 DEF Answered
    <3>5. \A x \in Call : x # Idle
      BY DEF Call, Idle, Phases
    <3>6. QED
      BY <3>1, <3>3, <3>4, <3>5 DEF Idle
  <2>5. QED
    BY <2>1, <2>2, <2>3, <2>4
<1>3. QED
  BY <1>1, <1>2, QuietFrame DEF remoteVars

(* A request of which only the phase moves on keeps what it knows.         *)
LEMMA PhaseKeeps ==
    ASSUME IInv, ServerStep, UNCHANGED <<quote, agreed>>,
           NEW c \in PlaceOrPay, NEW p \in Phases \ {"sent", "opened"}, call[c] # Idle,
           call' = [call EXCEPT ![c].phase = p],
           p \in {"opening", "answered"} => order'[call[c].key] \in Order
    PROVE  CallsKnow'
<1> USE DEF PlaceOrPay
<1>1. \A x \in PlaceOrPay : call[x] # Idle => call[x] \in Call /\ call[x].key \in Keys
  BY DEF IInv, TypeOK, ServerType, Call
<1>2. /\ call' \in [PlaceOrPay -> Call \cup {Idle}]
      /\ \A x \in PlaceOrPay : x # c => call'[x] = call[x]
  BY DEF ServerStep, TypeOK, ServerType, IInv
<1>3. call'[c].phase = p /\ call'[c].key = call[c].key
  BY <1>1 DEF IInv, TypeOK, ServerType, Call
<1>4. \A x \in PlaceOrPay : call'[x] # Idle => CallKnows(x)'
  <2>1. CASE c = "pay"
    BY <1>1, <1>2, <1>3, <2>1
       DEF IInv, CallsKnow, CallKnows, ServerStep, OrdersEvolve, PagesEvolve, Phases
  <2>2. CASE c = "place"
    BY <1>1, <1>2, <1>3, <2>2
       DEF IInv, CallsKnow, CallKnows, ServerStep, OrdersEvolve, PagesEvolve, Phases
  <2>3. QED
    BY <2>1, <2>2
<1>5. call'["pay"].phase = "sent" => order'[call'["pay"].key] \in Order
  BY <1>1, <1>2, <1>3 DEF IInv, CallsKnow, ServerStep, OrdersEvolve, Idle
<1>6. call'["place"].phase = "sent" => quote' \in Quotes /\ quote'.doc \in agreed'
  BY <1>2, <1>3 DEF IInv, CallsKnow
<1>7. QED
  BY <1>4, <1>5, <1>6 DEF CallsKnow

LEMMA RefusedKeeps ==
    ASSUME IInv, ServerStep, SalesPaused \/ \E c \in PlaceOrPay : CheckoutFails(c)
    PROVE  Links'
<1>1. PICK c \in PlaceOrPay : /\ call[c] # Idle
                             /\ call' = [call EXCEPT ![c].phase = "refused"]
  BY DEF SalesPaused, CheckoutFails, Idle, PlaceOrPay
<1>2. UNCHANGED <<order, remoteVars, lookups, refunds, quote, agreed>>
  BY DEF SalesPaused, CheckoutFails
<1>3. CallsKnow'
  BY <1>1, <1>2, PhaseKeeps DEF Phases
<1>4. QED
  BY <1>2, <1>3, QuietFrame DEF remoteVars

LEMMA CreateOrderKeeps == ASSUME IInv, ServerStep, CreateOrder PROVE Links'
<1> DEFINE k == call["place"].key
           d == quote.doc.draft
<1>1. UNCHANGED <<remoteVars, lookups, refunds, quote, agreed>>
  BY DEF CreateOrder
<1>2. /\ call["place"].phase = "sent" /\ call["place"] # Idle /\ k \in Keys
      /\ quote \in Quotes /\ quote.doc \in agreed
  BY DEF CreateOrder, Idle, IInv, TypeOK, ServerType, CallsKnow, Call
<1>3. \/ UNCHANGED order
      \/ /\ DraftDocument(d) = quote.doc
         /\ order' = [order EXCEPT ![k] = [status |-> "pending_payment",
                         doc |-> DraftDocument(d), page |-> None, charge |-> None]]
  BY DEF CreateOrder
<1>4. PagesBelong' /\ LookupsKnow' /\ RefundsKnow'
  BY <1>1, BelongFrame, LookupsFrame, RefundsFrame DEF remoteVars
<1>5. SavedPages'
  BY <1>2, <1>3, SavedFrame DEF IInv, TypeOK, ServerType
<1>6. OrderedWasAgreed'
  <2>1. CASE UNCHANGED order
    BY <1>1, <2>1, AgreedFrame
  <2>2. CASE ~UNCHANGED order
    <3>1. order'[k].doc = quote.doc /\ \A j \in Keys \ {k} : order'[j] = order[j]
      BY <1>2, <1>3, <2>2 DEF IInv, TypeOK, ServerType
    <3>2. QED
      BY <1>1, <1>2, <3>1 DEF IInv, OrderedWasAgreed, Placed, PrintedContract, OnPaper
  <2>3. QED
    BY <2>1, <2>2
<1>7. ChargeIsKnown'
  BY <1>1, ChargeFrame DEF remoteVars, NoPage
<1>8. CallsKnow'
  <2>1. PICK p \in Phases \ {"sent", "opened"} :
           /\ call' = [call EXCEPT !["place"].phase = p]
           /\ p \in {"opening", "answered"} => order'[k] \in Order
    <3>1. order'[k] # NoOrder <=> order'[k] \in Order
      BY <1>2, NoOrderIsNone DEF ServerStep, TypeOK, ServerType
    <3>2. \/ /\ k \in Placed /\ UNCHANGED order
             /\ \E p \in {"opening", "answered"} : call' = [call EXCEPT !["place"].phase = p]
          \/ call' = [call EXCEPT !["place"].phase = "refused"]
          \/ /\ order' = [order EXCEPT ![k] = [status |-> "pending_payment",
                             doc |-> DraftDocument(d), page |-> None, charge |-> None]]
             /\ call' = [call EXCEPT !["place"].phase = "opening"]
      BY DEF CreateOrder
    <3>3. {"opening", "answered", "refused"} \subseteq Phases \ {"sent", "opened"}
      BY DEF Phases
    <3>4. CASE /\ k \in Placed /\ UNCHANGED order
               /\ \E p \in {"opening", "answered"} : call' = [call EXCEPT !["place"].phase = p]
      BY <3>1, <3>3, <3>4 DEF Placed
    <3>5. CASE call' = [call EXCEPT !["place"].phase = "refused"]
      <4>1. "refused" \notin {"opening", "answered"}
        OBVIOUS
      <4>2. QED
        BY <3>3, <3>5, <4>1
    <3>6. CASE /\ order' = [order EXCEPT ![k] = [status |-> "pending_payment",
                               doc |-> DraftDocument(d), page |-> None, charge |-> None]]
               /\ call' = [call EXCEPT !["place"].phase = "opening"]
      <4>1. order'[k].status = "pending_payment"
        BY <1>2, <3>6 DEF IInv, TypeOK, ServerType
      <4>2. order'[k] # NoOrder
        BY <4>1 DEF NoOrder
      <4>3. QED
        BY <3>1, <3>3, <3>6, <4>2
    <3>7. QED
      BY <3>2, <3>4, <3>5, <3>6
  <2>2. QED
    BY <1>1, <1>2, <2>1, PhaseKeeps DEF PlaceOrPay
<1>9. QED
  BY <1>4, <1>5, <1>6, <1>7, <1>8 DEF Links

LEMMA OpenPageKeeps ==
    ASSUME IInv, ServerStep, NEW c \in PlaceOrPay, OpenPage(c) PROVE Links'
<1> DEFINE k == call[c].key
<1>1. UNCHANGED <<order, hints, lookups, refunds, quote, agreed>>
  BY DEF OpenPage
<1>2. call[c] \in Call /\ k \in Keys /\ order[k] \in Order
  BY DEF OpenPage, IInv, TypeOK, ServerType, CallsKnow, CallKnows, Idle, Call, PlaceOrPay
<1>3. PICK s \in Pages :
         /\ page[s] = NoPage
         /\ page' = [page EXCEPT ![s] = [state |-> "listed", key |-> k,
                                        amount |-> Total(order[k].doc)]]
         /\ call' = [call EXCEPT ![c].phase = "opened", ![c].page = s]
  BY DEF OpenPage
<1>4. /\ page'[s].state = "listed" /\ page'[s].key = k /\ page'[s].amount = Total(order[k].doc)
      /\ page'[s] \in PageRow
      /\ \A t \in Pages \ {s} : page'[t] = page[t]
  <2>1. page'[s] = [state |-> "listed", key |-> k, amount |-> Total(order[k].doc)]
        /\ \A t \in Pages \ {s} : page'[t] = page[t]
    BY <1>3 DEF IInv, TypeOK, ServerType
  <2>2. page'[s] \in PageRow \cup {NoPage} /\ page'[s] # NoPage
    BY <2>1 DEF ServerStep, TypeOK, ServerType, NoPage
  <2>3. QED
    BY <2>1, <2>2
<1>5. PagesBelong'
  <2>1. ASSUME NEW t \in Pages \ {s}, page'[t] # NoPage
        PROVE  order[page[t].key] \in Order /\ page[t].amount = Total(order[page[t].key].doc)
    BY <1>4, <2>1 DEF IInv, PagesBelong
  <2>2. QED
    BY <1>1, <1>2, <1>4, <2>1 DEF PagesBelong, Total
<1>6. SavedPages' /\ LookupsKnow' /\ RefundsKnow'
  BY <1>1, SavedFrame, LookupsFrame, RefundsFrame
<1>7. OrderedWasAgreed'
  BY <1>1, AgreedFrame
<1>8. ChargeIsKnown'
  BY <1>1, <1>4, ChargeFrame DEF NoPage
<1>9. CallsKnow'
  <2>1. /\ call'[c].phase = "opened" /\ call'[c].page = s /\ call'[c].key = k
        /\ \A x \in PlaceOrPay \ {c} : call'[x] = call[x]
    BY <1>2, <1>3 DEF IInv, TypeOK, ServerType, Call, PlaceOrPay
  <2>2. CallKnows(c)'
    BY <1>1, <1>2, <1>4, <2>1 DEF CallKnows
  <2>3. ASSUME NEW x \in PlaceOrPay \ {c}, call[x] # Idle PROVE CallKnows(x)'
    BY <1>1, <2>1, <2>3 DEF IInv, CallsKnow, CallKnows, ServerStep, PagesEvolve, PlaceOrPay
  <2>4. QED
    BY <1>1, <2>1, <2>2, <2>3 DEF IInv, CallsKnow, PlaceOrPay
<1>10. QED
  BY <1>5, <1>6, <1>7, <1>8, <1>9 DEF Links

LEMMA SavePageKeeps ==
    ASSUME IInv, ServerStep, NEW c \in PlaceOrPay, SavePage(c) PROVE Links'
<1> DEFINE k == call[c].key
<1>1. UNCHANGED <<remoteVars, lookups, refunds, quote, agreed>>
  BY DEF SavePage
<1>2. /\ call[c] \in Call /\ call[c] # Idle /\ k \in Keys /\ order[k] \in Order
      /\ call[c].page \in Pages /\ page[call[c].page] \in PageRow
      /\ page[call[c].page].key = k
  BY DEF SavePage, IInv, TypeOK, ServerType, CallsKnow, CallKnows, Idle, Call, PlaceOrPay
<1>3. order'[k].page = call[c].page /\ \A j \in Keys \ {k} : order'[j] = order[j]
  BY <1>2 DEF SavePage, IInv, TypeOK, ServerType, Order
<1>4. PagesBelong' /\ LookupsKnow' /\ RefundsKnow'
  BY <1>1, BelongFrame, LookupsFrame, RefundsFrame DEF remoteVars
<1>5. SavedPages'
  BY <1>1, <1>2, <1>3 DEF IInv, SavedPages, remoteVars
<1>6. OrderedWasAgreed'
  BY <1>1, <1>2, <1>3, AgreedFrame
<1>7. ChargeIsKnown'
  BY <1>1, ChargeFrame DEF remoteVars, NoPage
<1>8. CallsKnow'
  <2>1. order'[k] \in Order
    BY <1>2 DEF ServerStep, OrdersEvolve
  <2>2. QED
    BY <1>1, <1>2, <2>1, PhaseKeeps DEF SavePage, Phases
<1>9. QED
  BY <1>4, <1>5, <1>6, <1>7, <1>8 DEF Links

(* A status written, the page and the documents of the orders untouched.   *)
LEMMA StatusKeeps ==
    ASSUME IInv, ServerStep, UNCHANGED <<page, quote, agreed>>,
           NEW k \in Keys, order[k] \in Order, NEW x,
           order' = [order EXCEPT ![k] = x], x.page = order[k].page
    PROVE  PagesBelong' /\ SavedPages' /\ OrderedWasAgreed'
<1>1. order'[k] = x /\ \A j \in Keys \ {k} : order'[j] = order[j]
  BY DEF IInv, TypeOK, ServerType
<1>2. QED
  BY <1>1, BelongFrame, SavedFrame, AgreedFrame

LEMMA SettledKeeps ==
    ASSUME IInv, ServerStep, UNCHANGED <<page, quote, agreed>>,
           NEW k \in Keys, order[k] \in Order, NEW s, Settled(k, s)
    PROVE  PagesBelong' /\ SavedPages' /\ OrderedWasAgreed'
<1> DEFINE x == [order[k] EXCEPT
                   !.status = IF @ \in {"pending_payment", "canceled"} THEN "paid" ELSE @,
                   !.charge = IF @ = None THEN s ELSE @]
<1>1. x.page = order[k].page
  BY DEF Order
<1>2. order' = [order EXCEPT ![k] = x]
  BY DEF Settled, IInv, TypeOK, ServerType
<1> HIDE DEF x
<1>3. QED
  BY <1>1, <1>2, StatusKeeps

LEMMA ResumeCheckoutKeeps == ASSUME IInv, ServerStep, ResumeCheckout PROVE Links'
<1> DEFINE k == call["pay"].key
<1>1. UNCHANGED <<remoteVars, lookups, refunds, quote, agreed>>
  BY DEF ResumeCheckout
<1>2. call["pay"] \in Call /\ call["pay"] # Idle /\ k \in Keys /\ order[k] \in Order
  BY DEF ResumeCheckout, IInv, TypeOK, ServerType, CallsKnow, Idle, Call
<1>3. PagesBelong' /\ SavedPages' /\ OrderedWasAgreed'
  <2>1. CASE UNCHANGED order
    BY <1>1, <2>1, BelongFrame, SavedFrame, AgreedFrame DEF remoteVars
  <2>2. CASE Settled(k, None)
    BY <1>1, <1>2, <2>2, SettledKeeps DEF remoteVars
  <2>3. QED
    BY <2>1, <2>2 DEF ResumeCheckout
<1>4. LookupsKnow' /\ RefundsKnow' /\ ChargeIsKnown'
  BY <1>1, LookupsFrame, RefundsFrame, ChargeFrame DEF remoteVars, NoPage
<1>5. CallsKnow'
  <2>1. \E p \in {"refused", "answered", "opening"} : call' = [call EXCEPT !["pay"].phase = p]
    BY DEF ResumeCheckout
  <2>2. order'[k] \in Order
    BY <1>2 DEF ServerStep, OrdersEvolve
  <2>3. {"refused", "answered", "opening"} \subseteq Phases \ {"sent", "opened"}
    BY DEF Phases
  <2>4. QED
    BY <1>1, <1>2, <2>1, <2>2, <2>3, PhaseKeeps DEF PlaceOrPay
<1>6. QED
  BY <1>3, <1>4, <1>5 DEF Links

LEMMA PayoneerKeeps == ASSUME IInv, ServerStep, Payoneer PROVE Links'
<1>1. PICK s \in Pages, from \in PageStates, to \in PageStates : MovePage(s, from, to)
  BY DEF Payoneer, Charge, RunsOut, PayoutEnds, PageStates
<1>2. page[s] \in PageRow /\ hints \subseteq hints'
  BY <1>1, PageIsRow DEF MovePage, IInv, TypeOK
<1>3. \A t \in Pages : page'[t] # NoPage => page[t] # NoPage
  BY <1>1, <1>2, RowsAre DEF MovePage, IInv, TypeOK, ServerType
<1>4. \A t \in Pages : page'[t].state = "charged" => page[t] # NoPage
  BY <1>3 DEF NoPage
<1>5. UNCHANGED <<order, lookups, refunds, call, quote, agreed>>
  BY <1>1 DEF MovePage, callVars
<1>6. QED
  BY <1>2, <1>3, <1>4, <1>5, BelongFrame, SavedFrame, CallsFrame, LookupsFrame, RefundsFrame,
     AgreedFrame, ChargeFrame DEF Links

LEMMA LookupsKeep ==
    ASSUME IInv, ServerStep,
           \/ \E h \in hints : HandleNotification(h)
           \/ \E k \in Keys : ConfirmPayment(k)
    PROVE  Links'
<1>1. UNCHANGED <<order, page, hints, refunds, call, quote, agreed>>
  BY DEF HandleNotification, ConfirmPayment, remoteVars
<1>2. PICK r : /\ lookups' = lookups \cup {r}
               /\ page[r.page] \in PageRow /\ page[r.page].key = r.key
               /\ page[r.page].state \in Telling /\ r.code = page[r.page].state
               /\ r.hint.page \in {None, r.page}
  <2>1. ASSUME NEW h \in hints, HandleNotification(h)
        PROVE  /\ page[h.page] \in PageRow /\ page[h.page].state \in Telling
               /\ lookups' = lookups \cup {Lookup(page[h.page].key, h.page, h)}
    BY <2>1, PageIsRow DEF HandleNotification, IInv, TypeOK, ServerType, Hints, Telling, PageStates
  <2>2. ASSUME NEW k \in Keys, ConfirmPayment(k)
        PROVE  /\ page[order[k].page] \in PageRow /\ page[order[k].page].key = k
               /\ page[order[k].page].state \in Telling
               /\ lookups' = lookups \cup {Lookup(k, order[k].page, Hint(None, "none"))}
    BY <2>2, RowsAre DEF ConfirmPayment, Unpaid, Placed, IInv, TypeOK, SavedPages
  <2>3. CASE \E h \in hints : HandleNotification(h)
    <3>1. PICK h \in hints : HandleNotification(h)
      BY <2>3
    <3> DEFINE r == Lookup(page[h.page].key, h.page, h)
    <3>2. r.key = page[h.page].key /\ r.page = h.page /\ r.code = page[h.page].state /\ r.hint = h
      BY DEF Lookup
    <3> HIDE DEF r
    <3>3. lookups' = lookups \cup {r}
      BY <2>1, <3>1 DEF r
    <3>4. QED
      BY <2>1, <3>1, <3>2, <3>3
  <2>4. CASE \E k \in Keys : ConfirmPayment(k)
    <3>1. PICK k \in Keys : ConfirmPayment(k)
      BY <2>4
    <3> DEFINE r == Lookup(k, order[k].page, Hint(None, "none"))
    <3>2. r.key = k /\ r.page = order[k].page /\ r.code = page[order[k].page].state
          /\ r.hint.page = None
      BY DEF Lookup, Hint
    <3> HIDE DEF r
    <3>3. lookups' = lookups \cup {r}
      BY <2>2, <3>1 DEF r
    <3>4. QED
      BY <2>2, <3>1, <3>2, <3>3
  <2>5. QED
    BY <2>3, <2>4
<1>3. LookupsKnow'
  <2>1. page[r.page].state \in Charged
    BY <1>2 DEF Telling, Charged
  <2>2. QED
    BY <1>1, <1>2, <2>1 DEF IInv, LookupsKnow
<1>4. QED
  BY <1>1, <1>3, BelongFrame, SavedFrame, CallsFrame, RefundsFrame, AgreedFrame, ChargeFrame
     DEF Links, NoPage

LEMMA ConfirmWriteKeeps ==
    ASSUME ServiceOrdersAssumption, IInv, ServerStep, NEW r \in lookups, ConfirmWrite(r)
    PROVE  Links'
<1>1. UNCHANGED <<page, refunds, call, quote, agreed>> /\ lookups' \subseteq lookups
  BY DEF ConfirmWrite
<1>2. /\ r \in Lookups /\ r.key \in Keys /\ r.page \in Pages
      /\ page[r.page] \in PageRow /\ page[r.page].key = r.key /\ order[r.key] \in Order
  BY RowsAre DEF IInv, TypeOK, ServerType, Lookups, LookupsKnow, PagesBelong
<1>3. PagesBelong' /\ SavedPages' /\ OrderedWasAgreed'
  <2>1. CASE r.code = "charged"
    BY <1>1, <1>2, <2>1, SettledKeeps DEF ConfirmWrite
  <2>2. CASE r.code # "charged"
    <3> DEFINE x == [order[r.key] EXCEPT !.status = IF @ \in Refundable THEN "refunded" ELSE @]
    <3>1. x.page = order[r.key].page /\ order' = [order EXCEPT ![r.key] = x]
      BY <1>2, <2>2 DEF ConfirmWrite, Order
    <3> HIDE DEF x
    <3>2. QED
      BY <1>1, <1>2, <3>1, StatusKeeps
  <2>3. QED
    BY <2>1, <2>2
<1>4. CallsKnow' /\ LookupsKnow' /\ RefundsKnow'
  BY <1>1, CallsFrame, LookupsFrame, RefundsFrame
<1>5. ChargeIsKnown'
  <2>1. SUFFICES ASSUME NEW s \in Pages, page[s].state = "charged"
                 PROVE  \/ order'[page[s].key].status \notin {"pending_payment", "canceled"}
                        \/ Hint(s, "charged") \in hints'
    BY <1>1 DEF ChargeIsKnown, Hint
  <2>2. page[s] \in PageRow /\ page[s].key \in Keys /\ order[page[s].key] \in Order
    BY <2>1, RowsAre DEF IInv, TypeOK, PagesBelong, NoPage, PageRow
  <2>3. CASE r.hint = Hint(s, "charged")
    <3>1. r.page = s \/ s = None
      BY <2>3 DEF IInv, LookupsKnow, Hint
    <3>2. s # None => r.page = s /\ r.code = "charged"
      BY <1>2, <2>1, <3>1 DEF IInv, LookupsKnow, Lookups, Telling
    <3>3. s # None => order'[page[s].key].status \in Settling
      <4>1. r.hint.page \in Pages \cup {None}
        BY <1>2 DEF Lookups
      <4>2. s # None => Settled(r.key, r.hint.page)
        BY <3>2 DEF ConfirmWrite
      <4>3. QED
        BY <1>2, <3>2, <4>1, <4>2, OrderSettled DEF IInv, TypeOK
    <3>4. s # None
      BY DEF ServiceOrdersAssumption
    <3>5. QED
      BY <3>3, <3>4 DEF Settling
  <2>4. CASE r.hint # Hint(s, "charged")
    <3>1. CASE Hint(s, "charged") \in hints
      BY <2>4, <3>1 DEF ConfirmWrite
    <3>2. CASE Hint(s, "charged") \notin hints
      <4>1. order[page[s].key].status \in Settling
        BY <2>1, <2>2, <3>2, NoOrderIsNone DEF IInv, ChargeIsKnown, Settling
      <4>2. QED
        BY <2>2, <4>1 DEF ServerStep, OrdersEvolve, Settling
    <3>3. QED
      BY <3>1, <3>2
  <2>5. QED
    BY <2>3, <2>4
<1>6. QED
  BY <1>3, <1>4, <1>5 DEF Links

LEMMA OperatorKeeps ==
    ASSUME IInv, ServerStep, NEW k \in Placed,
           AskRefund(k) \/ \E t \in Statuses : UpdateStatus(k, t)
    PROVE  Links'
<1>1. k \in Keys /\ order[k] \in Order
  BY RowsAre DEF Placed, IInv, TypeOK
<1>2. UNCHANGED <<hints, lookups, call, quote, agreed>>
  BY DEF AskRefund, UpdateStatus, remoteVars, callVars
<1>3. /\ \A s \in Pages : page'[s] # NoPage => page[s] # NoPage
      /\ \A s \in Pages : page'[s].state = "charged" => page[s] # NoPage
  <2>1. CASE UNCHANGED page
    BY <2>1 DEF NoPage
  <2>2. CASE /\ order[k].page # None
             /\ page' = [page EXCEPT ![order[k].page].state = "gone"]
    <3>1. order[k].page \in Pages /\ page[order[k].page] \in PageRow
      BY <1>1, <2>2 DEF IInv, SavedPages, Order
    <3>2. QED
      BY <2>2, <3>1, RowsAre DEF IInv, TypeOK, ServerType, NoPage
  <2>3. QED
    BY <2>1, <2>2 DEF AskRefund, UpdateStatus, remoteVars
<1>4. \A j \in Keys : order'[j] \in Order =>
         order[j] \in Order /\ order'[j].page = order[j].page
  <2>1. CASE UNCHANGED order
    BY <2>1
  <2>2. ASSUME NEW t \in Statuses, UpdateStatus(k, t)
        PROVE  \A j \in Keys : order'[j] \in Order =>
                  order[j] \in Order /\ order'[j].page = order[j].page
    <3>1. order' = [order EXCEPT ![k] = [order[k] EXCEPT !.status = t]]
      BY <2>2 DEF UpdateStatus
    <3>2. QED
      BY <1>1, <3>1, StatusWritten DEF IInv, TypeOK, ServerType
  <2>3. QED
    BY <2>1, <2>2 DEF AskRefund
<1>5. RefundsKnow'
  <2>1. CASE AskRefund(k)
    <3>1. order[k].status \in Settling
      BY <2>1 DEF AskRefund, Refundable, Settling, Statuses
    <3>2. QED
      BY <1>1, <2>1, <3>1 DEF AskRefund, IInv, RefundsKnow, remoteVars
  <2>2. CASE refunds' = refunds
    BY <2>2, RefundsFrame
  <2>3. QED
    BY <2>1, <2>2 DEF UpdateStatus, callVars
<1>6. QED
  BY <1>2, <1>3, <1>4, <1>5, BelongFrame, SavedFrame, CallsFrame, LookupsFrame, AgreedFrame,
     ChargeFrame DEF Links

LEMMA RefundChargeKeeps == ASSUME IInv, ServerStep, NEW r \in refunds, RefundCharge(r) PROVE Links'
<1>1. UNCHANGED <<order, lookups, call, quote, agreed>> /\ hints \subseteq hints'
  BY DEF RefundCharge, remoteVars
<1>2. \A q \in refunds' : \E p \in refunds : q.key = p.key
  <2>1. \A code : [r EXCEPT !.code = code].key = r.key
    BY DEF IInv, TypeOK, ServerType, Refunds
  <2>2. refunds' = refunds \ {r}
        \/ \E code : refunds' = (refunds \ {r}) \cup {[r EXCEPT !.code = code]}
    BY DEF RefundCharge
  <2>3. QED
    BY <2>1, <2>2
<1>3. \A s \in Pages : page'[s] # NoPage => page[s] # NoPage
  <2>1. r.page \in Pages
    BY DEF IInv, TypeOK, ServerType, Refunds
  <2>2. QED
    BY <2>1, PageIsRow, RowsAre
       DEF RefundCharge, IInv, TypeOK, ServerType, remoteVars, PageStates
<1>4. \A s \in Pages : page'[s].state = "charged" => page[s] # NoPage
  BY <1>3 DEF NoPage
<1>5. QED
  BY <1>1, <1>2, <1>3, <1>4, BelongFrame, SavedFrame, CallsFrame, LookupsFrame, RefundsFrame,
     AgreedFrame, ChargeFrame DEF Links

LEMMA RefundWriteKeeps == ASSUME IInv, ServerStep, NEW r \in refunds, RefundWrite(r) PROVE Links'
<1> DEFINE x == [order[r.key] EXCEPT
                   !.status = IF r.code = "paid_out" THEN "refunded" ELSE "refund_pending"]
<1>1. UNCHANGED <<page, hints, lookups, call, quote, agreed>> /\ refunds' \subseteq refunds
  BY DEF RefundWrite, remoteVars
<1>2. r.key \in Keys /\ order[r.key] \in Order
  BY DEF IInv, TypeOK, ServerType, Refunds, RefundsKnow
<1>3. x.page = order[r.key].page /\ order' = [order EXCEPT ![r.key] = x]
  BY <1>2 DEF RefundWrite, Order
<1> HIDE DEF x
<1>4. PagesBelong' /\ SavedPages' /\ OrderedWasAgreed'
  BY <1>1, <1>2, <1>3, StatusKeeps
<1>5. QED
  BY <1>1, <1>4, CallsFrame, LookupsFrame, RefundsFrame, ChargeFrame DEF Links, NoPage

LEMMA NextKeeps ==
    ASSUME ServiceOrdersAssumption, IInv, ServerStep, [Next]_vars PROVE Links'
<1>1. DOMAIN call = PlaceOrPay
  BY DEF IInv, TypeOK, ServerType, PlaceOrPay
<1>2. CASE Customer
  <2>1. ASSUME NEW k \in Unpaid, ReturnFromPayoneer(k) \/ ConfirmPayment(k) PROVE Links'
    BY <2>1, LookupsKeep DEF ReturnFromPayoneer, Unpaid, Placed
  <2>2. QED
    BY <1>1, <1>2, <2>1, CustomerKeeps, RequestKeeps DEF Customer, OrderRow
<1>3. CASE Server
  <2>1. CASE \E c \in PlaceOrPay : OpenPage(c) \/ SavePage(c) \/ CheckoutFails(c)
    BY <2>1, OpenPageKeeps, SavePageKeeps, RefusedKeeps
  <2>2. CASE ContractPreview \/ CreateOrder \/ SalesPaused \/ ResumeCheckout
    BY <2>2, CustomerKeeps, CreateOrderKeeps, RefusedKeeps, ResumeCheckoutKeeps
  <2>3. CASE \E h \in hints : HandleNotification(h)
    BY <2>3, LookupsKeep
  <2>4. CASE \E r \in lookups : ConfirmWrite(r)
    BY <2>4, ConfirmWriteKeeps
  <2>5. CASE \E r \in refunds : RefundCharge(r) \/ RefundWrite(r)
    BY <2>5, RefundChargeKeeps, RefundWriteKeeps
  <2>6. QED
    BY <1>1, <1>3, <2>1, <2>2, <2>3, <2>4, <2>5 DEF Server
<1>4. CASE Operator
  <2>1. ASSUME NEW k \in Placed, AdminOrderRow(k) PROVE Links'
    <3>1. NextStatuses[order[k].status] \subseteq Statuses
      BY NoOrderIsNone DEF NextStatuses, AdminTransitions, Placed, IInv, TypeOK,
         ServerType, Statuses
    <3>2. QED
      BY <2>1, <3>1, OperatorKeeps, LookupsKeep DEF AdminOrderRow, Placed
  <2>2. QED
    BY <1>4, <2>1, CustomerKeeps DEF Operator
<1>5. CASE Payoneer
  BY <1>5, PayoneerKeeps
<1>6. CASE UNCHANGED vars
  BY <1>6, CustomerKeeps
<1>7. QED
  BY <1>2, <1>3, <1>4, <1>5, <1>6 DEF Next

-----------------------------------------------------------------------------
LEMMA InitHolds == ASSUME ServiceOrdersAssumption, Init PROVE IInv
<1>1. TypeOK
  BY TypeInit
<1>2. \A k \in Keys : order[k] \notin Order
  BY NoOrderIsNone DEF Init
<1>3. \A s \in Pages : page[s] = NoPage /\ page[s].state # "charged"
  BY DEF Init, NoPage
<1>4. CallsKnow
  BY DEF Init, CallsKnow, Idle
<1>5. PagesBelong /\ SavedPages /\ LookupsKnow /\ RefundsKnow
  BY <1>2, <1>3 DEF Init, PagesBelong, SavedPages, LookupsKnow, RefundsKnow
<1>6. OrderedWasAgreed /\ ChargeIsKnown
  BY <1>3 DEF Init, OrderedWasAgreed, Placed, ChargeIsKnown
<1>7. QED
  BY <1>1, <1>4, <1>5, <1>6 DEF IInv

LEMMA Invariance == Spec => []IInv
<1>1. Init => IInv
  BY InitHolds, ServiceOrdersAssumption
<1>2. IInv /\ [Next]_vars => IInv'
  <2> SUFFICES ASSUME IInv, [Next]_vars PROVE IInv'
    OBVIOUS
  <2>1. ServerStep
    BY EveryStep, ServiceOrdersAssumption
  <2>2. Links'
    BY <2>1, NextKeeps, ServiceOrdersAssumption
  <2>3. QED
    BY <2>1, <2>2 DEF ServerStep, Links, IInv
<1>3. QED
  BY <1>1, <1>2, PTL DEF Spec

(* Types. *)
THEOREM TypeCorrect == Spec => []TypeOK
BY Invariance, PTL DEF IInv

(* The document of an order is one the customer pressed "Accept and pay"   *)
(* under (create_order), whatever was saved, edited or reloaded meanwhile. *)
THEOREM OrdersWereAgreed == Spec => []OrderedWasAgreed
BY Invariance, PTL DEF IInv

(* A charged page has settled its order, or Payoneer will still tell.      *)
THEOREM ChargesStayKnown == Spec => []ChargeIsKnown
BY Invariance, PTL DEF IInv

-----------------------------------------------------------------------------
(* The refinement: what each step is in ServiceSale.                       *)
LEMMA StageIs ==
    ASSUME NEW t \in Statuses
    PROVE  /\ StageOf[t] = "open" <=> t = "pending_payment"
           /\ StageOf[t] = "closed" <=> t = "canceled"
           /\ StageOf[t] = "returned" <=> t \in {"refund_pending", "refunded"}
           /\ StageOf[t] \in {"open", "closed", "returned", "paid"}
BY DEF StageOf, Statuses

LEMMA DealIs ==
    ASSUME NEW k \in Keys
    PROVE  /\ order[k] = NoOrder => DealOf(k) = Sale!Unplaced
           /\ order[k] # NoOrder =>
                 DealOf(k) = [stage |-> StageOf[order[k].status], doc |-> order[k].doc]
           /\ order'[k] = NoOrder => DealOf(k)' = Sale!Unplaced
           /\ order'[k] # NoOrder =>
                 DealOf(k)' = [stage |-> StageOf[order'[k].status], doc |-> order'[k].doc]
BY DEF DealOf, Sale!Unplaced, StageOf

(* Payment pages that are neither charged nor lose a charge. *)
ChargesStay == \A k \in Keys : ChargesOf(k)' = ChargesOf(k)

LEMMA SamePages == ASSUME UNCHANGED page PROVE ChargesStay
BY DEF ChargesStay, ChargesOf, Charged

LEMMA SameCharges ==
    ASSUME IInv, ServerStep,
           \A s \in Pages : page'[s].state \in Charged => page[s].state \in Charged
    PROVE  ChargesStay
<1>1. ASSUME NEW s \in Pages
      PROVE  /\ page'[s].state \in Charged <=> page[s].state \in Charged
             /\ page[s].state \in Charged =>
                   page'[s].key = page[s].key /\ page'[s].amount = page[s].amount
  <2>1. page[s].state \in Charged => page[s] \in PageRow
    BY PageIsRow DEF IInv, TypeOK, PageStates, Charged
  <2>2. QED
    BY <2>1 DEF ServerStep, PagesEvolve
<1>2. QED
  BY <1>1 DEF ChargesStay, ChargesOf, Charged

(* A step that moves no order to another stage and charges nothing.        *)
LEMMA SaleStutters ==
    ASSUME IInv, ServerStep, ChargesStay,
           \A k \in Keys : order[k] \in Order => StageOf[order'[k].status] = StageOf[order[k].status],
           \A k \in Keys : order'[k] \in Order => order[k] \in Order
    PROVE  UNCHANGED Sale!saleVars
<1>1. \A k \in Keys : DealOf(k)' = DealOf(k)
  <2> SUFFICES ASSUME NEW k \in Keys PROVE DealOf(k)' = DealOf(k)
    OBVIOUS
  <2>1. CASE order[k] \in Order
    <3>1. order'[k] \in Order /\ order'[k].doc = order[k].doc
      BY <2>1 DEF ServerStep, OrdersEvolve
    <3>2. order[k] # NoOrder /\ order'[k] # NoOrder
      BY <2>1, <3>1, NoOrderIsNone
    <3>3. QED
      BY <2>1, <3>1, <3>2, DealIs
  <2>2. CASE order[k] = NoOrder
    <3>1. order'[k] = NoOrder
      BY <2>2, NoOrderIsNone DEF ServerStep, TypeOK, ServerType
    <3>2. QED
      BY <2>2, <3>1, DealIs
  <2>3. QED
    BY <2>1, <2>2 DEF IInv, TypeOK, ServerType
<1>2. QED
  BY <1>1 DEF Sale!saleVars, ChargesStay

(* A step that writes the status of one order.                             *)
LEMMA SaleMoves ==
    ASSUME IInv, ServerStep, ChargesStay,
           NEW k \in Keys, order[k] \in Order,
           \A j \in Keys \ {k} : order'[j] = order[j],
           NEW from, StageOf[order[k].status] \in from
    PROVE  Sale!MoveTo(k, from, StageOf[order'[k].status])
<1> DEFINE deal == [j \in Keys |-> DealOf(j)]
           to == StageOf[order'[k].status]
<1>1. order'[k] \in Order /\ order'[k].doc = order[k].doc
  BY DEF ServerStep, OrdersEvolve
<1>2. order[k] # NoOrder /\ order'[k] # NoOrder
  BY <1>1, NoOrderIsNone
<1>3. /\ DealOf(k) = [stage |-> StageOf[order[k].status], doc |-> order[k].doc]
      /\ DealOf(k)' = [stage |-> to, doc |-> order[k].doc]
  BY <1>1, <1>2, DealIs
<1>4. \A j \in Keys \ {k} : DealOf(j)' = DealOf(j)
  BY DEF DealOf, StageOf
<1>5. [DealOf(k) EXCEPT !.stage = to] = DealOf(k)'
  BY <1>3
<1>6. [deal EXCEPT ![k].stage = to] = [j \in Keys |-> DealOf(j)']
  BY <1>4, <1>5
<1>7. deal[k].stage \in from
  BY <1>3
<1>8. QED
  BY <1>6, <1>7 DEF Sale!MoveTo, ChargesStay

LEMMA StatusStage ==
    ASSUME IInv, ServerStep, ChargesStay,
           NEW k \in Keys, order[k] \in Order, NEW t \in Statuses,
           order'[k].status = t, \A j \in Keys \ {k} : order'[j] = order[j],
           StageOf[t] = StageOf[order[k].status]
    PROVE  UNCHANGED Sale!saleVars
BY SaleStutters

LEMMA SettledSale ==
    ASSUME IInv, ServerStep, ChargesStay,
           NEW k \in Keys, order[k] \in Order, NEW s, Settled(k, s),
           NEW p \in Pages, page[p].state \in Charged, page[p].key = k
    PROVE  [Sale!Next]_(Sale!saleVars)
<1> DEFINE t == IF order[k].status \in {"pending_payment", "canceled"} THEN "paid"
                ELSE order[k].status
<1>1. order[k].status \in Statuses /\ t \in Statuses
  BY NoOrderIsNone DEF Statuses
<1>2. order'[k].status = t /\ \A j \in Keys \ {k} : order'[j] = order[j]
  BY DEF Settled, IInv, TypeOK, ServerType, Order
<1>3. ChargesOf(k) # {}
  BY DEF ChargesOf
<1>4. CASE order[k].status \in {"pending_payment", "canceled"}
  <2>1. StageOf[order[k].status] \in {"open", "closed"} /\ StageOf[order'[k].status] = "paid"
    BY <1>1, <1>2, <1>4 DEF StageOf, Statuses
  <2>2. Sale!MoveTo(k, {"open", "closed"}, "paid")
    BY <1>2, <2>1, SaleMoves
  <2>3. Sale!Settle(k)
    BY <1>3, <2>2 DEF Sale!Settle
  <2>4. QED
    BY <2>3 DEF Sale!Next
<1>5. CASE order[k].status \notin {"pending_payment", "canceled"}
  BY <1>1, <1>2, <1>5, StatusStage
<1>6. QED
  BY <1>4, <1>5

(* An order that is refunded was paid, or was returned already. *)
LEMMA ReturnedSale ==
    ASSUME IInv, ServerStep, ChargesStay,
           NEW k \in Keys, order[k] \in Order, order[k].status \in Settling,
           order'[k].status \in {"refund_pending", "refunded"},
           \A j \in Keys \ {k} : order'[j] = order[j]
    PROVE  [Sale!Next]_(Sale!saleVars)
<1>1. order'[k].status \in Statuses /\ order[k].status \in Statuses
  BY DEF Settling, Statuses
<1>2. StageOf[order'[k].status] = "returned" /\ StageOf[order[k].status] \in {"paid", "returned"}
  BY <1>1, StageIs DEF Settling
<1>3. CASE StageOf[order[k].status] = "paid"
  <2>1. Sale!MoveTo(k, {"paid"}, "returned")
    BY <1>2, <1>3, SaleMoves
  <2>2. QED
    BY <2>1 DEF Sale!Next, Sale!Return
<1>4. CASE StageOf[order[k].status] = "returned"
  BY <1>1, <1>2, <1>4, StatusStage
<1>5. QED
  BY <1>2, <1>3, <1>4

LEMMA CreateOrderSale == ASSUME IInv, ServerStep, CreateOrder PROVE [Sale!Next]_(Sale!saleVars)
<1>1. PICK k \in Keys, d \in Documents : k = call["place"].key /\ d = quote.doc
  BY DEF CreateOrder, Idle, IInv, TypeOK, ServerType, CallsKnow, Call, Quotes
<1>2. ChargesStay
  BY SamePages DEF CreateOrder, remoteVars
<1>3. CASE UNCHANGED order
  BY <1>2, <1>3, SaleStutters
<1>4. CASE /\ order[k] = NoOrder
           /\ order' = [order EXCEPT ![k] = [status |-> "pending_payment",
                           doc |-> d, page |-> None, charge |-> None]]
  <2> DEFINE deal == [j \in Keys |-> DealOf(j)]
  <2>1. /\ order'[k] # NoOrder /\ order'[k].status = "pending_payment" /\ order'[k].doc = d
        /\ \A j \in Keys \ {k} : order'[j] = order[j]
    <3>1. order'[k] = [status |-> "pending_payment", doc |-> d, page |-> None, charge |-> None]
          /\ \A j \in Keys \ {k} : order'[j] = order[j]
      BY <1>1, <1>4 DEF IInv, TypeOK, ServerType
    <3>2. order'[k].status # NoOrder.status
      BY <3>1 DEF NoOrder
    <3>3. QED
      BY <3>1, <3>2
  <2>2. StageOf["pending_payment"] = "open"
    BY DEF StageOf, Statuses
  <2>3. DealOf(k) = Sale!Unplaced /\ DealOf(k)' = [stage |-> "open", doc |-> d]
    BY <1>1, <1>4, <2>1, <2>2, DealIs
  <2>4. \A j \in Keys \ {k} : DealOf(j)' = DealOf(j)
    BY <2>1 DEF DealOf, StageOf
  <2>5. [j \in Keys |-> DealOf(j)'] = [deal EXCEPT ![k] = [stage |-> "open", doc |-> d]]
    BY <2>3, <2>4
  <2>6. deal[k] = Sale!Unplaced
    BY <1>1, <2>3
  <2>7. Sale!Agree(k, d)
    BY <1>2, <2>5, <2>6 DEF Sale!Agree, ChargesStay
  <2>8. QED
    BY <2>7 DEF Sale!Next
<1>5. QED
  BY <1>1, <1>3, <1>4 DEF CreateOrder, Placed

(* The card is charged at the price of the order's document.               *)
LEMMA ChargeSale == ASSUME IInv, ServerStep, NEW s \in Pages, Charge(s) PROVE Sale!Next
<1> DEFINE taken == [j \in Keys |-> ChargesOf(j)]
           deal == [j \in Keys |-> DealOf(j)]
<1>1. PICK k \in Keys : page[s] \in PageRow /\ page[s].state = "listed" /\ page[s].key = k
  BY PageIsRow DEF Charge, MovePage, IInv, TypeOK, PageStates, PageRow
<1>2. order[k] \in Order /\ page[s].amount = Total(order[k].doc)
  BY <1>1, NoPageIsNone DEF IInv, PagesBelong
<1>3. /\ page'[s].state = "charged" /\ page'[s].key = k /\ page'[s].amount = page[s].amount
      /\ \A t \in Pages \ {s} : page'[t] = page[t]
  BY <1>1 DEF Charge, MovePage, IInv, TypeOK, ServerType, PageRow
<1>4. ChargesOf(k)' = ChargesOf(k) \cup {Total(order[k].doc)}
  BY <1>1, <1>2, <1>3 DEF ChargesOf, Charged
<1>5. \A j \in Keys \ {k} : ChargesOf(j)' = ChargesOf(j)
  BY <1>1, <1>3 DEF ChargesOf, Charged
<1>6. order[k] # NoOrder
  BY <1>2, NoOrderIsNone
<1>7. deal[k].doc = order[k].doc /\ deal[k] # Sale!Unplaced
  <2>1. deal[k] = [stage |-> StageOf[order[k].status], doc |-> order[k].doc]
    BY <1>1, <1>6, DealIs
  <2>2. StageOf[order[k].status] # "none"
    BY <1>2, StageIs, NoOrderIsNone
  <2>3. QED
    BY <2>1, <2>2 DEF Sale!Unplaced
<1>8. [j \in Keys |-> ChargesOf(j)'] = [taken EXCEPT ![k] = @ \cup {Total(deal[k].doc)}]
  BY <1>4, <1>5, <1>7
<1>9. [j \in Keys |-> DealOf(j)'] = deal
  BY DEF Charge, MovePage, DealOf, StageOf
<1>10. Sale!Charge(k)
  BY <1>7, <1>8, <1>9 DEF Sale!Charge
<1>11. QED
  BY <1>10 DEF Sale!Next

LEMMA MoneySale ==
    ASSUME IInv, ServerStep,
           ResumeCheckout \/ \E r \in lookups : ConfirmWrite(r)
    PROVE  [Sale!Next]_(Sale!saleVars)
<1>1. ChargesStay
  BY SamePages DEF ResumeCheckout, ConfirmWrite, remoteVars
<1>2. CASE ResumeCheckout
  <2>1. PICK k \in Keys : k = call["pay"].key /\ order[k] \in Order
    BY <1>2 DEF ResumeCheckout, Idle, IInv, TypeOK, ServerType, CallsKnow, Call
  <2>2. CASE UNCHANGED order
    BY <1>1, <2>2, SaleStutters
  <2>3. CASE /\ Settled(k, None) /\ order[k].page # None
             /\ page[order[k].page].state = "charged"
    <3>1. /\ order[k].page \in Pages
          /\ page[order[k].page].key = k /\ page[order[k].page].state \in Charged
      BY <2>1, <2>3 DEF IInv, SavedPages, Order, Charged
    <3>2. QED
      BY <1>1, <2>1, <2>3, <3>1, SettledSale
  <2>4. QED
    BY <1>2, <2>1, <2>2, <2>3 DEF ResumeCheckout
<1>3. ASSUME NEW r \in lookups, ConfirmWrite(r) PROVE [Sale!Next]_(Sale!saleVars)
  <2>1. PICK k \in Keys : k = r.key
    BY DEF IInv, TypeOK, ServerType, Lookups
  <2>2. /\ r.page \in Pages /\ page[r.page].key = k /\ page[r.page].state \in Charged
        /\ order[k] \in Order
    BY <2>1, RowsAre DEF IInv, TypeOK, ServerType, Lookups, LookupsKnow, PagesBelong
  <2>3. CASE r.code = "charged"
    BY <1>1, <1>3, <2>1, <2>2, <2>3, SettledSale DEF ConfirmWrite
  <2>4. CASE r.code # "charged"
    <3>1. order' = [order EXCEPT ![k] = [order[k] EXCEPT
                      !.status = IF order[k].status \in Refundable THEN "refunded" ELSE order[k].status]]
      BY <1>3, <2>1, <2>4 DEF ConfirmWrite
    <3>2. /\ order'[k].status = IF order[k].status \in Refundable THEN "refunded" ELSE order[k].status
          /\ \A j \in Keys \ {k} : order'[j] = order[j]
      BY <2>2, <3>1 DEF IInv, TypeOK, ServerType, Order
    <3>3. CASE order[k].status \in Refundable
      <4>1. order[k].status \in Settling
        BY <3>3 DEF Refundable, Settling, Statuses
      <4>2. QED
        BY <1>1, <2>2, <3>2, <3>3, <4>1, ReturnedSale
    <3>4. CASE order[k].status \notin Refundable
      BY <1>1, <2>2, <3>2, <3>4, StatusStage, NoOrderIsNone
    <3>5. QED
      BY <3>3, <3>4
  <2>5. QED
    BY <2>3, <2>4
<1>4. QED
  BY <1>2, <1>3

LEMMA OperatorSale ==
    ASSUME IInv, ServerStep, NEW k \in Placed, NEW t \in Statuses, UpdateStatus(k, t)
    PROVE  [Sale!Next]_(Sale!saleVars)
<1>1. k \in Keys /\ order[k] \in Order /\ order[k].status \in Statuses
  BY NoOrderIsNone DEF Placed, IInv, TypeOK, ServerType
<1>2. ChargesStay
  <2>1. \A s \in Pages : page'[s].state \in Charged => page[s].state \in Charged
    <3>1. CASE UNCHANGED page
      BY <3>1
    <3>2. CASE order[k].page # None /\ page' = [page EXCEPT ![order[k].page].state = "gone"]
      <4>1. order[k].page \in Pages /\ page[order[k].page] \in PageRow
        BY <1>1, <3>2 DEF IInv, SavedPages, Order
      <4>2. QED
        BY <3>2, <4>1 DEF IInv, TypeOK, ServerType, PageRow, Charged
    <3>3. QED
      BY <3>1, <3>2 DEF UpdateStatus
  <2>2. QED
    BY <2>1, SameCharges
<1>3. order'[k].status = t /\ \A j \in Keys \ {k} : order'[j] = order[j]
  BY <1>1 DEF UpdateStatus, IInv, TypeOK, ServerType, Order
<1>4. CASE order[k].status = "pending_payment"
  <2>1. t = "canceled"
    BY <1>1, <1>4 DEF UpdateStatus, AdminTransitions
  <2>2. StageOf[order[k].status] = "open" /\ StageOf[order'[k].status] = "closed"
    BY <1>3, <1>4, <2>1 DEF StageOf, Statuses
  <2>3. Sale!MoveTo(k, {"open"}, "closed")
    BY <1>1, <1>2, <1>3, <2>2, SaleMoves
  <2>4. QED
    BY <1>1, <2>3 DEF Sale!Next, Sale!Close
<1>5. CASE order[k].status # "pending_payment"
  <2>1. StageOf[t] = StageOf[order[k].status]
    BY <1>1, <1>5 DEF UpdateStatus, AdminTransitions, StageOf, Statuses
  <2>2. QED
    BY <1>1, <1>2, <1>3, <2>1, StatusStage
<1>6. QED
  BY <1>4, <1>5

(* Steps that neither place, settle nor close an order, nor charge. *)
LEMMA OtherSale ==
    ASSUME IInv, ServerStep, UNCHANGED order,
           \A s \in Pages : page'[s].state \in Charged => page[s].state \in Charged
    PROVE  UNCHANGED Sale!saleVars
BY SameCharges, SaleStutters

LEMMA ServerSale == ASSUME IInv, ServerStep, Server PROVE [Sale!Next]_(Sale!saleVars)
<1>1. DOMAIN call = PlaceOrPay
  BY DEF IInv, TypeOK, ServerType, PlaceOrPay
<1>2. CASE CreateOrder
  BY <1>2, CreateOrderSale
<1>3. CASE ResumeCheckout \/ \E r \in lookups : ConfirmWrite(r)
  BY <1>3, MoneySale
<1>4. CASE \/ ContractPreview \/ SalesPaused
           \/ \E c \in PlaceOrPay : CheckoutFails(c)
           \/ \E h \in hints : HandleNotification(h)
  BY <1>4, OtherSale DEF ContractPreview, SalesPaused, CheckoutFails, HandleNotification,
                         remoteVars
<1>5. ASSUME NEW c \in PlaceOrPay, OpenPage(c) PROVE [Sale!Next]_(Sale!saleVars)
  <2>1. \A s \in Pages : page'[s].state \in Charged => page[s].state \in Charged
    BY <1>5 DEF OpenPage, IInv, TypeOK, ServerType, Charged
  <2>2. QED
    BY <1>5, <2>1, OtherSale DEF OpenPage
<1>6. ASSUME NEW c \in PlaceOrPay, SavePage(c) PROVE [Sale!Next]_(Sale!saleVars)
  <2>1. ChargesStay
    BY <1>6, SamePages DEF SavePage, remoteVars
  <2>2. PICK k \in Keys : k = call[c].key /\ order[k] \in Order
    BY <1>6 DEF SavePage, Idle, IInv, TypeOK, ServerType, CallsKnow, CallKnows, Call, PlaceOrPay
  <2>3. order'[k].status = order[k].status /\ \A j \in Keys \ {k} : order'[j] = order[j]
    BY <1>6, <2>2 DEF SavePage, IInv, TypeOK, ServerType, Order
  <2>4. QED
    BY <2>1, <2>2, <2>3, StatusStage, NoOrderIsNone
<1>7. ASSUME NEW r \in refunds, RefundCharge(r) PROVE [Sale!Next]_(Sale!saleVars)
  <2>1. r.page \in Pages
    BY DEF IInv, TypeOK, ServerType, Refunds
  <2>2. \A s \in Pages : page'[s].state \in Charged => page[s].state \in Charged
    BY <1>7, <2>1 DEF RefundCharge, IInv, TypeOK, ServerType, remoteVars, Charged
  <2>3. QED
    BY <1>7, <2>2, OtherSale DEF RefundCharge
<1>8. ASSUME NEW r \in refunds, RefundWrite(r) PROVE [Sale!Next]_(Sale!saleVars)
  <2>1. ChargesStay
    BY <1>8, SamePages DEF RefundWrite, remoteVars
  <2>2. PICK k \in Keys : k = r.key /\ order[k] \in Order /\ order[k].status \in Settling
    BY DEF IInv, TypeOK, ServerType, Refunds, RefundsKnow
  <2>3. /\ order'[k].status \in {"refund_pending", "refunded"}
        /\ \A j \in Keys \ {k} : order'[j] = order[j]
    BY <1>8, <2>2 DEF RefundWrite, IInv, TypeOK, ServerType, Order
  <2>4. QED
    BY <2>1, <2>2, <2>3, ReturnedSale
<1>9. QED
  BY <1>1, <1>2, <1>3, <1>4, <1>5, <1>6, <1>7, <1>8 DEF Server

LEMMA SaleStep == ASSUME IInv, ServerStep, [Next]_vars PROVE [Sale!Next]_(Sale!saleVars)
<1>1. CASE Customer
  <2>1. UNCHANGED <<order, page>>
    BY <1>1 DEF Customer, LoadCatalog, ReviewContract, AcceptTerms, PlaceOrder, ChoosePackage,
                EditForm, OrderRow, PressPay, ConfirmPayment, ReturnFromPayoneer, Answered,
                Refused, remoteVars
  <2>2. QED
    BY <2>1, OtherSale
<1>2. CASE Server
  BY <1>2, ServerSale
<1>3. CASE Operator
  <2>1. CASE UNCHANGED <<order, page>>
    BY <2>1, OtherSale
  <2>2. ASSUME NEW k \in Placed, NEW t \in NextStatuses[order[k].status], UpdateStatus(k, t)
        PROVE  [Sale!Next]_(Sale!saleVars)
    <3>1. t \in Statuses
      BY NoOrderIsNone DEF NextStatuses, AdminTransitions, Placed, IInv, TypeOK, ServerType,
         Statuses
    <3>2. QED
      BY <2>2, <3>1, OperatorSale
  <2>3. QED
    BY <1>3, <2>1, <2>2 DEF Operator, SaveExecutor, SavePackage, Change, AdminOrderRow,
                            ConfirmPayment, AskRefund, remoteVars
<1>4. CASE Payoneer
  <2>1. ASSUME NEW s \in Pages, NEW from, NEW to, MovePage(s, from, to),
               to \in Charged => from \in Charged
        PROVE  [Sale!Next]_(Sale!saleVars)
    <3>1. \A t \in Pages : page'[t].state \in Charged => page[t].state \in Charged
      BY <2>1 DEF MovePage, IInv, TypeOK, ServerType
    <3>2. QED
      BY <2>1, <3>1, OtherSale DEF MovePage
  <2>2. ASSUME NEW s \in Pages, RunsOut(s) \/ PayoutEnds(s) PROVE [Sale!Next]_(Sale!saleVars)
    BY <2>1, <2>2 DEF RunsOut, PayoutEnds, Charged
  <2>3. QED
    BY <1>4, <2>2, ChargeSale DEF Payoneer
<1>5. CASE UNCHANGED vars
  BY <1>5, OtherSale DEF vars, remoteVars
<1>6. QED
  BY <1>1, <1>2, <1>3, <1>4, <1>5 DEF Next

LEMMA SaleInit == ASSUME Init PROVE Sale!Init
<1>1. \A k \in Keys : DealOf(k) = Sale!Unplaced
  BY DEF Init, DealOf, Sale!Unplaced
<1>2. \A s \in Pages : page[s].state \notin Charged
  BY DEF Init, NoPage, Charged
<1>3. \A k \in Keys : ChargesOf(k) = {}
  BY <1>2 DEF ChargesOf
<1>4. QED
  BY <1>1, <1>3 DEF Sale!Init

(* The website-service shop implements ServiceSale: every step of the      *)
(* browser, the server, the operator and Payoneer is a step of the sale or *)
(* leaves it as it is.                                                     *)
THEOREM ShopImplementsSale == Spec => KeepsSale
<1>1. Init => Sale!Init
  BY SaleInit
<1>2. IInv /\ [Next]_vars => [Sale!Next]_(Sale!saleVars)
  BY EveryStep, SaleStep, ServiceOrdersAssumption
<1>3. QED
  BY <1>1, <1>2, Invariance, PTL DEF Spec, KeepsSale, Sale!Spec
=============================================================================
