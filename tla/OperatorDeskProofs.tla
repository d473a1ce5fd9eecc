------------------------ MODULE OperatorDeskProofs ---------------------------
(***************************************************************************)
(* The pages of the operator, for any number of rows, tabs, requests and    *)
(* answers under way.                                                       *)
(*                                                                          *)
(* The numbers (NumberDesk): a number is rented to one creator at a time,   *)
(* at the price that was shown, and the money is where the rental says.     *)
(* The inductive invariant NumberInv says of every call to a gateway and    *)
(* of every charge of Stripe which order it is for and how far that order   *)
(* may be (Rented, Few, Paid), and that a price on its way to the row is a  *)
(* price that was quoted (Quoted).                                          *)
(*                                                                          *)
(* The lists (PartnerDesk): the rows of the partners and of the sign-in     *)
(* logos keep their fields.  The inductive invariant Together follows a     *)
(* draft from the list to the form, from the form into a save request and   *)
(* from there into the row: on every one of these ways the id and the       *)
(* draft go together.                                                       *)
(***************************************************************************)
EXTENDS NumberDesk, PartnerDesk, FiniteSetTheorems, TLAPS

(* The numbers                                                              *)

(* Who has a number: whoever may still rent it or did.  A canceled order   *)
(* has given it back.                                                      *)
Served == {"active", "refund_requested", "expired", "refunded"}
Held == Served \cup {"pending"}

Totals == {quote(t.cost, t.basis).total : t \in Tariffs}
AllParts == {quote(t.cost, t.basis) : t \in Tariffs}
OrderRows ==
    [phone : Phones, parts : AllParts, status : Held \cup {"canceled"}, provider : Gateways,
     checkout : BOOLEAN, intent : BOOLEAN, over : BOOLEAN]
PurchaseCalls ==
    [phase : {"sent", "create", "record"}, order : Orders, provider : Gateways,
     total : Totals, heard : BOOLEAN]
RefundCalls == [phase : {"call", "write"}, order : Orders]
States == {"absent", "available", "reserved", "assigned", "retired"}

NumberTypes ==
    /\ offer \in Offers
    /\ phones \in [Phones -> States]
    /\ orders \in [Orders -> {NoOrder} \cup OrderRows]
    /\ catalog \in {None} \cup Totals
    /\ purchase \in {NoCall} \cup PurchaseCalls
    /\ refund \in {NoCall} \cup RefundCalls
    /\ pay \in [Orders -> {"none", "open", "paid", "approved", "expired", "refunded"}]
    /\ quoted \in [Orders -> SUBSET Totals]

(* What the number of an order is while the order has it.                  *)
Agreed(status, state) ==
    /\ status = "pending" => state = "reserved"
    /\ status = "active" => state = "assigned"
    /\ status \in Served \ {"active"} => state \in {"assigned", "retired"}

Rented ==
    /\ \A o \in With(Held) : Agreed(orders[o].status, phones[orders[o].phone])
    /\ \A a, b \in With(Held) : orders[a].phone = orders[b].phone => a = b
    /\ \A p \in Stock("reserved") : \E o \in With({"pending"}) : orders[o].phone = p

Few ==
    /\ IsFiniteSet(With({"pending"}))
    /\ Cardinality(With({"pending"})) <= PendingLimit

(* An order has its payment exactly when it was served; what the gateway   *)
(* returned it does not take again.                                        *)
Paid ==
    /\ \A o \in Placed : orders[o].intent <=> orders[o].status \in Served
    /\ \A o \in Orders : /\ <<"completed", o>> \in seen => orders[o].status \in Served
                         /\ orders[o].status \in Served => pay[o] \in {"paid", "refunded"}
                         /\ orders[o].status = "refunded" => pay[o] = "refunded"
                         /\ orders[o].status = "canceled" => pay[o] = "expired"
    /\ refund # NoCall => orders[refund.order].status \in Served
    /\ refund.phase = "write" => pay[refund.order] = "refunded"

Quoted ==
    /\ purchase # NoCall => purchase.total \in quoted[purchase.order]
    /\ purchase.phase \in {"create", "record"} => purchase.order \in Placed
    /\ \A o \in Placed : orders[o].parts.total \in quoted[o]

NumberInv == NumberTypes /\ Rented /\ Few /\ Paid /\ Quoted

LEMMA NumberAtFirst == Init => NumberInv
<1> SUFFICES ASSUME Init PROVE NumberInv
  OBVIOUS
<1>1. NumberTypes
  BY NumberDeskAssumption DEF Init, NumberTypes, States
<1>2. Placed = {} /\ With(Held) = {} /\ With({"pending"}) = {}
  BY DEF Init, Placed, With, Held, Served, NoOrder
<1>3. Rented
  BY <1>2 DEF Init, Rented, Stock
<1>4. Few
  BY <1>2, FS_EmptySet, NumberDeskAssumption DEF Few
<1>5. Paid
  BY <1>2 DEF Init, Paid, NoOrder, NoCall, Served
<1>6. Quoted
  BY <1>2 DEF Init, Quoted, NoCall
<1>7. QED
  BY <1>1, <1>3, <1>4, <1>5, <1>6 DEF NumberInv

(* What is known of an order that is there.                                *)
LEMMA PlacedRow ==
    ASSUME NumberTypes, NEW o \in Orders
    PROVE  /\ orders[o].status \in Held \cup {"canceled", "none"}
           /\ orders[o].status # "none" => orders[o] \in OrderRows /\ orders[o] # NoOrder
           /\ orders[o] \in OrderRows => orders[o].status # "none"
BY DEF NumberTypes, NoOrder, OrderRows, Held, Served

LEMMA NoCallIs ==
    /\ NoCall.phase = "none" /\ NoCall \notin PurchaseCalls /\ NoCall \notin RefundCalls
    /\ \A c \in PurchaseCalls : c.phase \in {"sent", "create", "record"} /\ c.order \in Orders
    /\ \A c \in RefundCalls : c.phase \in {"call", "write"} /\ c.order \in Orders
BY DEF NoCall, PurchaseCalls, RefundCalls

(* An order in the column of its number: neither moves.                    *)
LEMMA RentedStays ==
    ASSUME Rented, UNCHANGED phones,
           \A o \in Orders : /\ orders'[o].status = orders[o].status
                             /\ orders'[o].phone = orders[o].phone
    PROVE  Rented'
<1>1. /\ With(Held)' = With(Held) /\ With({"pending"})' = With({"pending"})
      /\ Stock("reserved")' = Stock("reserved")
  BY DEF With, Stock
<1>2. QED
  BY <1>1 DEF Rented, With

(* One order moves, and its number with it.                                *)
LEMMA RentedMoves ==
    ASSUME NumberTypes, Rented, NEW o \in With(Held), NEW status, NEW state \in States,
           phones' = [phones EXCEPT ![orders[o].phone] = state],
           \A b \in Orders \ {o} : orders'[b] = orders[b],
           orders'[o].phone = orders[o].phone, orders'[o].status = status,
           status \in Held => Agreed(status, state),
           status # "pending", state # "reserved"
    PROVE  Rented'
<1>1. o \in Orders /\ orders[o] \in OrderRows /\ orders[o].phone \in Phones
  BY PlacedRow DEF With, Held, Served, OrderRows
<1>2. /\ phones'[orders[o].phone] = state
      /\ \A p \in Phones \ {orders[o].phone} : phones'[p] = phones[p]
  BY <1>1 DEF NumberTypes
<1>3. \A b \in Orders \ {o} : b \in With(Held)' =>
          b \in With(Held) /\ orders[b].phone \in Phones /\ orders[b].phone # orders[o].phone
  BY <1>1, PlacedRow DEF Rented, With, Held, Served, OrderRows
<1>4. \A b \in With(Held)' : Agreed(orders'[b].status, phones'[orders'[b].phone])
  BY <1>1, <1>2, <1>3 DEF Rented, With
<1>5. \A a, b \in With(Held)' : orders'[a].phone = orders'[b].phone => a = b
  BY <1>1, <1>3 DEF Rented, With
<1>6. ASSUME NEW p \in Stock("reserved")'
      PROVE  \E b \in With({"pending"})' : orders'[b].phone = p
  <2>1. p \in Phones /\ p # orders[o].phone /\ phones[p] = "reserved"
    BY <1>2, <1>6 DEF Stock
  <2>2. PICK b \in With({"pending"}) : orders[b].phone = p
    BY <2>1 DEF Rented, Stock
  <2>3. b # o /\ b \in Orders /\ orders'[b] = orders[b]
    BY <2>1, <2>2 DEF With
  <2>4. QED
    BY <2>2, <2>3 DEF With
<1>7. QED
  BY <1>4, <1>5, <1>6 DEF Rented

LEMMA FewStays ==
    ASSUME Few, \A o \in Orders : orders'[o].status = "pending" => orders[o].status = "pending"
    PROVE  Few'
<1>1. With({"pending"})' \in SUBSET With({"pending"})
  BY DEF With
<1>2. /\ IsFiniteSet(With({"pending"})')
      /\ Cardinality(With({"pending"})') <= Cardinality(With({"pending"}))
  BY <1>1, FS_Subset DEF Few
<1>3. Cardinality(With({"pending"})) \in Nat /\ Cardinality(With({"pending"})') \in Nat
  BY <1>2, FS_CardinalityType DEF Few
<1>4. QED
  BY <1>2, <1>3, NumberDeskAssumption DEF Few

(* A row that changes in its own columns.                                  *)
LEMMA RowChanges ==
    ASSUME NumberTypes, NEW o \in Orders, NEW row \in OrderRows,
           orders' = [orders EXCEPT ![o] = row]
    PROVE  /\ orders' \in [Orders -> {NoOrder} \cup OrderRows]
           /\ orders'[o] = row
           /\ \A b \in Orders \ {o} : orders'[b] = orders[b]
BY DEF NumberTypes

LEMMA Answers ==
    ASSUME NumberTypes, NEW ok, Answered(ok)
    PROVE  purchase' = NoCall /\ catalog' \in {None} \cup Totals
BY DEF NumberTypes, Answered, PageLeft, pageVars

(* The steps of the page and of its purchase, before and after the order   *)
(* is made.                                                                *)
LEMMA PageSteps ==
    ASSUME NumberInv,
           \/ LoadCatalog \/ LeavePage \/ FindOrder \/ RefusePurchase \/ PurchaseFails
           \/ \E g \in Gateways : PressRent(g)
    PROVE  NumberInv'
<1> USE DEF NumberInv
<1>0. UNCHANGED <<offer, phones, orders, seen, refund, pay>>
  BY DEF LoadCatalog, LeavePage, FindOrder, RefusePurchase, PurchaseFails, PressRent
<1>1. /\ catalog' \in {None} \cup Totals
      /\ purchase' \in {NoCall} \cup PurchaseCalls
      /\ quoted' \in [Orders -> SUBSET Totals]
      /\ \A o \in Orders : quoted[o] \subseteq quoted'[o]
      /\ purchase' # NoCall => purchase'.total \in quoted'[purchase'.order]
      /\ purchase'.phase \in {"create", "record"} => purchase'.order \in Placed
  <2>1. CASE LoadCatalog
    <3>1. PICK t \in Tariffs : offer.cost = t.cost /\ offer.basis = t.basis
      BY DEF NumberTypes, Offers
    <3>2. quote(offer.cost, offer.basis).total \in Totals
      BY <3>1 DEF Totals
    <3>3. QED
      BY <2>1, <3>2 DEF LoadCatalog, NumberTypes, Quoted
  <2>2. CASE LeavePage
    <3>1. purchase' # NoCall => /\ purchase # NoCall /\ purchase' \in PurchaseCalls
                                /\ purchase'.total = purchase.total
                                /\ purchase'.order = purchase.order
                                /\ purchase'.phase = purchase.phase
      BY <2>2 DEF LeavePage, NumberTypes, PurchaseCalls
    <3>2. QED
      BY <2>2, <3>1 DEF LeavePage, PageLeft, NumberTypes, Quoted, NoCall
  <2>3. CASE FindOrder
    <3>1. CASE Answered(TRUE)
      BY <2>3, <3>1, Answers, NoCallIs DEF FindOrder, NumberTypes
    <3>2. CASE purchase' = [purchase EXCEPT !.phase = "create"] /\ UNCHANGED pageVars
      <4>1. purchase \in PurchaseCalls
        BY <2>3 DEF FindOrder, NumberTypes, NoCall
      <4>2. /\ purchase' \in PurchaseCalls /\ purchase'.total = purchase.total
            /\ purchase'.order = purchase.order /\ purchase # NoCall
        BY <2>3, <3>2, <4>1 DEF FindOrder, PurchaseCalls, NoCall
      <4>3. QED
        BY <2>3, <3>2, <4>2 DEF FindOrder, NumberTypes, Quoted, pageVars
    <3>3. QED
      BY <2>3, <3>1, <3>2 DEF FindOrder
  <2>4. CASE RefusePurchase \/ PurchaseFails
    BY <2>4, Answers, NoCallIs DEF RefusePurchase, PurchaseFails, NumberTypes
  <2>5. CASE \E g \in Gateways : PressRent(g)
    <3>1. PICK g \in Gateways : PressRent(g)
      BY <2>5
    <3>2. PICK o \in Orders : /\ quoted' = [quoted EXCEPT ![o] = @ \cup {catalog}]
                              /\ purchase' = [phase |-> "sent", order |-> o, provider |-> g,
                                              total |-> catalog, heard |-> TRUE]
      BY <3>1 DEF PressRent
    <3>3. catalog \in Totals /\ UNCHANGED catalog
      BY <3>1 DEF PressRent, RentButton, NumberTypes
    <3>4. purchase' \in PurchaseCalls
      BY <3>2, <3>3 DEF PurchaseCalls
    <3>5. QED
      BY <3>2, <3>3, <3>4 DEF NumberTypes
  <2>6. QED
    BY <2>1, <2>2, <2>3, <2>4, <2>5
<1>2. NumberTypes'
  BY <1>0, <1>1 DEF NumberTypes
<1>3. Rented' /\ Few'
  BY <1>0, RentedStays, FewStays
<1>4. Paid'
  BY <1>0 DEF Paid, Placed
<1>5. Quoted'
  BY <1>0, <1>1 DEF Quoted, Placed
<1>6. QED
  BY <1>2, <1>3, <1>4, <1>5

LEMMA ReserveStep ==
    ASSUME NumberInv, NEW p \in Phones, Reserve(p)
    PROVE  NumberInv'
<1> USE DEF NumberInv
<1> DEFINE o == purchase.order
           row == [phone |-> p, parts |-> quote(offer.cost, offer.basis), status |-> "pending",
                   provider |-> purchase.provider, checkout |-> FALSE, intent |-> FALSE,
                   over |-> FALSE]
<1>1. /\ purchase \in PurchaseCalls /\ o \in Orders /\ orders[o] = NoOrder
      /\ purchase # NoCall
  BY DEF Reserve, NumberTypes, NoCall, PurchaseCalls, Placed
<1>2. quote(offer.cost, offer.basis) \in AllParts
  <2>1. PICK t \in Tariffs : offer.cost = t.cost /\ offer.basis = t.basis
    BY DEF NumberTypes, Offers
  <2>2. QED
    BY <2>1 DEF AllParts
<1>3. row \in OrderRows
  BY <1>1, <1>2 DEF OrderRows, PurchaseCalls, Held
<1>4. /\ orders' \in [Orders -> {NoOrder} \cup OrderRows] /\ orders'[o] = row
      /\ \A b \in Orders \ {o} : orders'[b] = orders[b]
  BY <1>1, <1>3, RowChanges DEF Reserve
<1>5. /\ phones[p] = "available" /\ phones' = [phones EXCEPT ![p] = "reserved"]
      /\ purchase' = [purchase EXCEPT !.phase = "create"]
      /\ UNCHANGED <<offer, seen, pageVars, refund, pay, quoted, boundVars>>
  BY DEF Reserve
<1>6. /\ purchase' \in PurchaseCalls /\ purchase'.total = purchase.total
      /\ purchase'.order = o
  BY <1>1, <1>5 DEF PurchaseCalls
<1>7. NumberTypes'
  BY <1>4, <1>5, <1>6 DEF NumberTypes, pageVars, States
<1>8. Rented'
  <2>1. \A b \in With(Held)' : b = o \/ (b \in With(Held) /\ orders[b].phone # p)
    BY <1>4, <1>5 DEF Rented, With, Agreed, Held
  <2>2. \A b \in With(Held)' : Agreed(orders'[b].status, phones'[orders'[b].phone])
    <3>1. Agreed(orders'[o].status, phones'[orders'[o].phone])
      BY <1>4, <1>5 DEF NumberTypes, Agreed, Served
    <3>2. ASSUME NEW b \in With(Held), b # o, orders[b].phone # p
          PROVE  Agreed(orders'[b].status, phones'[orders'[b].phone])
      <4>1. orders[b].phone \in Phones /\ orders'[b] = orders[b]
        BY <1>4, <3>2, PlacedRow DEF With, Held, Served, OrderRows
      <4>2. phones'[orders[b].phone] = phones[orders[b].phone]
        BY <1>5, <3>2, <4>1 DEF NumberTypes
      <4>3. QED
        BY <4>1, <4>2 DEF Rented
    <3>3. QED
      BY <2>1, <3>1, <3>2
  <2>3. \A a, b \in With(Held)' : orders'[a].phone = orders'[b].phone => a = b
    BY <1>4, <2>1 DEF Rented, With
  <2>4. ASSUME NEW q \in Stock("reserved")'
        PROVE  \E b \in With({"pending"})' : orders'[b].phone = q
    <3>1. CASE q = p
      BY <1>1, <1>4, <3>1 DEF With
    <3>2. CASE q # p
      <4>1. q \in Stock("reserved")
        BY <1>5, <2>4, <3>2 DEF Stock, NumberTypes
      <4>2. PICK b \in With({"pending"}) : orders[b].phone = q
        BY <4>1 DEF Rented
      <4>3. b \in Orders \ {o} /\ orders'[b] = orders[b]
        BY <1>1, <1>4, <4>2 DEF With, NoOrder
      <4>4. QED
        BY <4>2, <4>3 DEF With
    <3>3. QED
      BY <3>1, <3>2
  <2>5. QED
    BY <2>2, <2>3, <2>4 DEF Rented
<1>9. Few'
  <2>1. With({"pending"})' = With({"pending"}) \cup {o}
    BY <1>1, <1>4 DEF With
  <2>2. Cardinality(With({"pending"})) < PendingLimit
    BY DEF Reserve, MayReserve
  <2>3. IsFiniteSet(With({"pending"})) /\ Cardinality(With({"pending"})) \in Nat
    BY FS_CardinalityType DEF Few
  <2>4. /\ IsFiniteSet(With({"pending"}) \cup {o})
        /\ Cardinality(With({"pending"}) \cup {o}) <= Cardinality(With({"pending"})) + 1
    BY <2>3, FS_AddElement
  <2>5. Cardinality(With({"pending"}) \cup {o}) \in Nat
    BY <2>4, FS_CardinalityType
  <2>6. PendingLimit \in Nat
    BY NumberDeskAssumption
  <2>7. Cardinality(With({"pending"}) \cup {o}) <= PendingLimit
    BY <2>2, <2>3, <2>4, <2>5, <2>6
  <2>8. QED
    BY <2>1, <2>4, <2>7 DEF Few
<1>10. Paid'
  <2>1. \A b \in Orders : b = o \/ (b \in Placed' <=> b \in Placed)
    BY <1>4 DEF Placed
  <2>2. orders[o].status = "none" /\ orders[o].status \notin Served
    BY <1>1 DEF NoOrder, Served
  <2>3. orders'[o].status = "pending" /\ "pending" \notin Served /\ ~orders'[o].intent
    BY <1>4 DEF Served
  <2>4. refund # NoCall => refund.order # o
    BY <2>2 DEF Paid
  <2>5. /\ \A b \in Placed' : orders'[b].intent <=> orders'[b].status \in Served
        /\ \A b \in Orders : b # o => orders'[b] = orders[b]
    BY <1>4, <2>1, <2>3 DEF Paid, Placed
  <2>6. refund # NoCall => refund.order \in Orders
    BY DEF NumberTypes, RefundCalls
  <2>7. QED
    BY <1>5, <2>2, <2>3, <2>4, <2>5, <2>6 DEF Paid
<1>11. Quoted'
  <2>1. orders'[o].parts.total \in quoted[o]
    BY <1>1, <1>4 DEF Quoted, Reserve, MayReserve
  <2>2. QED
    BY <1>1, <1>3, <1>4, <1>5, <1>6, <2>1, PlacedRow DEF Quoted, Placed
<1>12. QED
  BY <1>7, <1>8, <1>9, <1>10, <1>11

(* Steps that leave status, number and payment of every order, and every   *)
(* number that somebody has.                                               *)
LEMMA QuietSteps ==
    ASSUME NumberInv,
           \/ CreateCheckout \/ RecordCheckout \/ CallRefund
           \/ \E o \in Orders : \/ Approve(o) \/ SessionRunsOut(o) \/ RefundAtGateway(o)
                                \/ RunOut(o) \/ PressRefund(o)
           \/ \E f \in Offers : SaveOffer(f)
    PROVE  NumberInv'
<1> USE DEF NumberInv
<1>0. UNCHANGED <<phones, seen, quoted>>
  BY DEF CreateCheckout, RecordCheckout, CallRefund, Approve, SessionRunsOut,
         RefundAtGateway, RunOut, PressRefund, SaveOffer
<1>1. offer' \in Offers
  BY DEF CreateCheckout, RecordCheckout, CallRefund, Approve, SessionRunsOut,
         RefundAtGateway, RunOut, PressRefund, SaveOffer, NumberTypes
<1>2. /\ orders' \in [Orders -> {NoOrder} \cup OrderRows]
      /\ \A o \in Orders : /\ orders'[o].status = orders[o].status
                           /\ orders'[o].phone = orders[o].phone
                           /\ orders'[o].parts = orders[o].parts
                           /\ orders'[o].intent = orders[o].intent
  <2>1. CASE RecordCheckout
    <3>1. purchase \in PurchaseCalls /\ purchase.order \in Placed
      BY <2>1 DEF RecordCheckout, NumberTypes, NoCall, Quoted
    <3>2. orders[purchase.order] \in OrderRows /\ purchase.order \in Orders
      BY <3>1 DEF Placed, NumberTypes
    <3>3. [orders[purchase.order] EXCEPT !.checkout = TRUE] \in OrderRows
      BY <3>2 DEF OrderRows
    <3>4. orders' = [orders EXCEPT ![purchase.order] = [orders[purchase.order] EXCEPT !.checkout = TRUE]]
      BY <2>1 DEF RecordCheckout
    <3>5. QED
      BY <3>2, <3>3, <3>4, RowChanges DEF OrderRows
  <2>2. CASE \E o \in Orders : RunOut(o)
    <3>1. PICK o \in Orders : RunOut(o)
      BY <2>2
    <3>2. orders[o] \in OrderRows
      BY <3>1, PlacedRow DEF RunOut
    <3>3. [orders[o] EXCEPT !.over = TRUE] \in OrderRows
      BY <3>2 DEF OrderRows
    <3>4. orders' = [orders EXCEPT ![o] = [orders[o] EXCEPT !.over = TRUE]]
      BY <3>1 DEF RunOut
    <3>5. QED
      BY <3>2, <3>3, <3>4, RowChanges DEF OrderRows
  <2>3. CASE UNCHANGED orders
    BY <2>3 DEF NumberTypes
  <2>4. QED
    BY <2>1, <2>2, <2>3 DEF CreateCheckout, CallRefund, Approve, SessionRunsOut,
         RefundAtGateway, PressRefund, SaveOffer
<1>3. Placed' = Placed
  BY <1>2, PlacedRow DEF Placed, NumberTypes, OrderRows, NoOrder, Held, Served
<1>4. /\ catalog' \in {None} \cup Totals
      /\ purchase' \in {NoCall} \cup PurchaseCalls
      /\ purchase' # NoCall => purchase # NoCall /\ purchase'.total = purchase.total
                                /\ purchase'.order = purchase.order
      /\ purchase'.phase \in {"create", "record"} => purchase.phase \in {"create", "record"}
  <2>1. CASE CreateCheckout \/ RecordCheckout
    <3>1. purchase \in PurchaseCalls /\ purchase # NoCall
      BY <2>1, NoCallIs DEF CreateCheckout, RecordCheckout, NumberTypes
    <3>2. CASE purchase' = [purchase EXCEPT !.phase = "record"] /\ UNCHANGED catalog
      BY <2>1, <3>1, <3>2 DEF CreateCheckout, RecordCheckout, PurchaseCalls, NumberTypes
    <3>3. CASE \E ok \in BOOLEAN : Answered(ok)
      BY <3>1, <3>3, Answers, NoCallIs
    <3>4. QED
      BY <2>1, <3>2, <3>3 DEF CreateCheckout, RecordCheckout, pageVars
  <2>2. CASE UNCHANGED <<catalog, purchase>>
    BY <2>2 DEF NumberTypes
  <2>3. QED
    BY <2>1, <2>2 DEF CallRefund, Approve, SessionRunsOut, RefundAtGateway, RunOut,
         PressRefund, SaveOffer, pageVars
<1>5. /\ refund' \in {NoCall} \cup RefundCalls
      /\ refund' # NoCall => orders[refund'.order].status \in Served
      /\ refund'.phase = "write" => pay'[refund'.order] = "refunded"
      /\ pay' \in [Orders -> {"none", "open", "paid", "approved", "expired", "refunded"}]
      /\ \A o \in Orders : \/ pay'[o] = pay[o]
                           \/ pay[o] \notin {"paid", "refunded", "expired"}
                           \/ pay[o] = "paid" /\ pay'[o] = "refunded"
                           \/ orders[o].status \in Served /\ pay'[o] = "refunded"
  <2>1. CASE CallRefund
    <3>1. refund \in RefundCalls
      BY <2>1 DEF CallRefund, NumberTypes, NoCall
    <3>2. /\ refund.order \in Orders
          /\ refund' = NoCall \/ refund' = [refund EXCEPT !.phase = "write"]
          /\ pay' = pay \/ pay' = [pay EXCEPT ![refund.order] = "refunded"]
          /\ refund' # NoCall => pay' = [pay EXCEPT ![refund.order] = "refunded"]
          /\ orders[refund.order].status \in Served
      BY <2>1, <3>1 DEF CallRefund, RefundCalls, Paid, NoCall
    <3>3. QED
      BY <3>1, <3>2 DEF RefundCalls, NumberTypes, NoCall
  <2>2. CASE \E o \in Orders : PressRefund(o)
    <3>1. PICK o \in Orders : PressRefund(o)
      BY <2>2
    <3>2. refund' = [phase |-> "call", order |-> o] /\ UNCHANGED pay
          /\ orders[o].status \in Served
      BY <3>1 DEF PressRefund, Served
    <3>3. QED
      BY <3>2 DEF RefundCalls, NumberTypes
  <2>3. CASE UNCHANGED refund
    <3>1. /\ pay' \in [Orders -> {"none", "open", "paid", "approved", "expired", "refunded"}]
          /\ \A o \in Orders : \/ pay'[o] = pay[o]
                               \/ pay[o] \in {"none", "open"}
                               \/ pay[o] = "paid" /\ pay'[o] = "refunded"
      <4>1. CASE CreateCheckout
        <5>1. purchase \in PurchaseCalls
          BY <4>1 DEF CreateCheckout, NumberTypes, NoCall
        <5>2. QED
          BY <4>1, <5>1 DEF CreateCheckout, NumberTypes, PurchaseCalls
      <4>2. CASE UNCHANGED pay
        BY <4>2 DEF NumberTypes
      <4>3. CASE \E o \in Orders : Approve(o) \/ SessionRunsOut(o) \/ RefundAtGateway(o)
        BY <4>3 DEF Approve, SessionRunsOut, RefundAtGateway, NumberTypes
      <4>4. CASE CallRefund \/ \E o \in Orders : PressRefund(o)
        BY <2>3, <4>4 DEF CallRefund, PressRefund, NumberTypes, NoCall, RefundCalls
      <4>5. QED
        BY <4>1, <4>2, <4>3, <4>4 DEF RecordCheckout, RunOut, SaveOffer
    <3>2. QED
      BY <2>3, <3>1, NoCallIs DEF Paid, NumberTypes
  <2>4. QED
    BY <2>1, <2>2, <2>3 DEF CreateCheckout, RecordCheckout, Approve, SessionRunsOut,
         RefundAtGateway, RunOut, SaveOffer
<1>6. NumberTypes'
  BY <1>0, <1>1, <1>2, <1>4, <1>5 DEF NumberTypes
<1>7. Rented' /\ Few'
  BY <1>0, <1>2, RentedStays, FewStays
<1>8. Paid'
  <2>1. \A o \in Orders : orders[o].status \in Served \cup {"canceled"} =>
            pay[o] \in {"paid", "refunded", "expired"}
    BY DEF Paid
  <2>2. \A o \in Orders : /\ orders[o].status \in Served => pay'[o] \in {"paid", "refunded"}
                          /\ orders[o].status = "refunded" => pay'[o] = "refunded"
                          /\ orders[o].status = "canceled" => pay'[o] = "expired"
    BY <1>5, <2>1 DEF Paid, Served
  <2>3. (refund' # NoCall => refund'.order \in Orders) /\ Placed \subseteq Orders
    BY <1>5, NoCallIs DEF Placed
  <2>4. QED
    BY <1>0, <1>2, <1>3, <1>5, <2>2, <2>3 DEF Paid
<1>9. Quoted'
  <2>1. Placed \subseteq Orders
    BY DEF Placed
  <2>2. \A o \in Placed' : orders'[o].parts.total \in quoted'[o]
    BY <1>0, <1>2, <1>3, <2>1 DEF Quoted
  <2>3. purchase'.phase \in {"create", "record"} => purchase'.order \in Placed'
    <3>1. purchase'.phase \in {"create", "record"} => purchase' # NoCall
      BY NoCallIs
    <3>2. QED
      BY <1>3, <1>4, <3>1 DEF Quoted
  <2>4. QED
    BY <1>0, <1>4, <2>2, <2>3 DEF Quoted
<1>10. QED
  BY <1>6, <1>7, <1>8, <1>9

(* The lock of a number goes on with the order that has it.                *)
LEMMA MovesStep ==
    ASSUME NumberInv, NEW o \in Orders,
           \/ SessionCompleted(o) \/ SessionExpired(o) \/ GatewayRefunded(o)
           \/ CapturePayPal(o) \/ RequestRefund(o)
           \/ WriteRefund /\ o = refund.order
    PROVE  NumberInv'
<1> USE DEF NumberInv
<1>0. UNCHANGED <<offer, pageVars, purchase, quoted>>
  BY DEF SessionCompleted, SessionExpired, GatewayRefunded, CapturePayPal, RequestRefund,
         WriteRefund
<1>1. /\ pay' \in [Orders -> {"none", "open", "paid", "approved", "expired", "refunded"}]
      /\ \A b \in Orders : \/ pay'[b] = pay[b]
                           \/ b = o /\ pay[o] \in {"approved", "paid"} /\ pay'[o] = "paid"
      /\ refund' \in {NoCall, refund}
  BY DEF SessionCompleted, SessionExpired, GatewayRefunded, CapturePayPal, RequestRefund,
         WriteRefund, NumberTypes
<1>2. \A b \in Orders : <<"completed", b>> \in seen' =>
          <<"completed", b>> \in seen \/ (b = o /\ SessionCompleted(o))
  BY DEF SessionCompleted, SessionExpired, GatewayRefunded, CapturePayPal, RequestRefund,
         WriteRefund, Event
<1>3. CASE UNCHANGED <<orders, phones>>
  <2>1. NumberTypes' /\ Rented' /\ Few' /\ Quoted'
    BY <1>0, <1>1, <1>3, RentedStays, FewStays DEF NumberTypes, Quoted, Placed, pageVars
  <2>2. SessionCompleted(o) => orders[o].status \in Served
    <3> SUFFICES ASSUME SessionCompleted(o) PROVE orders[o].status \in Served
      OBVIOUS
    <3>1. orders[o].status # "none" /\ pay[o] \in {"paid", "refunded"}
      BY PlacedRow DEF SessionCompleted, NumberTypes
    <3>2. orders[o].status # "pending"
      <4> SUFFICES ASSUME orders[o].status = "pending" PROVE FALSE
        OBVIOUS
      <4>1. Activate(o)
        BY DEF SessionCompleted
      <4>2. orders[o] \in OrderRows
        BY <3>1, PlacedRow
      <4>3. orders'[o].status = "active"
        BY <4>1, <4>2 DEF Activate, OrderRows, NumberTypes
      <4>4. QED
        BY <1>3, <4>3
    <3>3. orders[o].status # "canceled"
      BY <3>1 DEF Paid
    <3>4. QED
      BY <3>1, <3>2, <3>3, PlacedRow DEF Held
  <2>3. Paid'
    BY <1>0, <1>1, <1>2, <1>3, <2>2, NoCallIs DEF Paid, Placed, Served, NumberTypes
  <2>4. QED
    BY <2>1, <2>3
<1>4. ASSUME NEW status \in {"active", "refund_requested", "refunded", "canceled"},
             NEW state \in States, NEW row \in OrderRows,
             orders[o].status \in Held, orders' = [orders EXCEPT ![o] = row],
             row.status = status, row.phone = orders[o].phone, row.parts = orders[o].parts,
             phones' = [phones EXCEPT ![orders[o].phone] = state], state # "reserved",
             status \in Held => Agreed(status, state),
             row.intent <=> status \in Served,
             status \in Served => pay'[o] \in {"paid", "refunded"},
             status = "refunded" => pay'[o] = "refunded",
             status = "canceled" => pay'[o] = "expired" /\ orders[o].status = "pending",
             SessionCompleted(o) => status \in Served
      PROVE  NumberInv'
  <2>1. /\ orders' \in [Orders -> {NoOrder} \cup OrderRows] /\ orders'[o] = row
        /\ \A b \in Orders \ {o} : orders'[b] = orders[b]
    BY <1>4, RowChanges
  <2>2. phones' \in [Phones -> States]
    BY <1>4 DEF NumberTypes
  <2>3. NumberTypes'
    BY <1>0, <1>1, <2>1, <2>2 DEF NumberTypes, pageVars
  <2>4. Rented'
    BY <1>4, <2>1, RentedMoves DEF With
  <2>5. Few'
    BY <1>4, <2>1, FewStays
  <2>6. o \in Placed /\ o \in Placed' /\ \A b \in Orders \ {o} : b \in Placed' <=> b \in Placed
    BY <1>4, <2>1, PlacedRow DEF Placed, Held, Served, NoOrder
  <2>7. Quoted'
    BY <1>0, <1>4, <2>1, <2>6 DEF Quoted, Placed
  <2>8. Paid'
    <3>1. \A b \in Placed' : orders'[b].intent <=> orders'[b].status \in Served
      BY <1>4, <2>1, <2>6 DEF Paid, Placed
    <3>2. ASSUME NEW b \in Orders
          PROVE  /\ <<"completed", b>> \in seen' => orders'[b].status \in Served
                 /\ orders'[b].status \in Served => pay'[b] \in {"paid", "refunded"}
                 /\ orders'[b].status = "refunded" => pay'[b] = "refunded"
                 /\ orders'[b].status = "canceled" => pay'[b] = "expired"
      <4>1. CASE b # o
        BY <1>1, <1>2, <2>1, <4>1 DEF Paid
      <4>2. CASE b = o
        <5>1. <<"completed", o>> \in seen => orders[o].status \in Served
          BY DEF Paid
        <5>2. status \in Served \cup {"canceled"}
          BY <1>4 DEF Served
        <5>3. <<"completed", o>> \in seen' => status \in Served
          BY <1>2, <1>4, <5>1, <5>2 DEF Served
        <5>4. QED
          BY <1>4, <2>1, <4>2, <5>3
      <4>3. QED
        BY <4>1, <4>2
    <3>3. refund' # NoCall => /\ refund' = refund /\ refund.order \in Orders
                              /\ orders'[refund.order].status \in Served
      <4>1. refund' # NoCall => refund' = refund /\ refund.order \in Orders
        BY <1>1, NoCallIs DEF NumberTypes
      <4>2. orders[o].status \in Served => status \in Served
        BY <1>4 DEF Served
      <4>3. QED
        BY <1>4, <2>1, <4>1, <4>2 DEF Paid
    <3>4. refund'.phase = "write" => pay'[refund'.order] = "refunded"
      <4> SUFFICES ASSUME refund'.phase = "write" PROVE pay'[refund'.order] = "refunded"
        OBVIOUS
      <4>1. refund' = refund /\ refund.order \in Orders
        BY <3>3, NoCallIs
      <4>2. pay[refund.order] = "refunded"
        BY <4>1 DEF Paid
      <4>3. QED
        BY <1>1, <4>1, <4>2
    <3>5. QED
      BY <3>1, <3>2, <3>3, <3>4 DEF Paid
  <2>9. QED
    BY <2>3, <2>4, <2>5, <2>7, <2>8
<1>5. orders[o].status \in Held => /\ orders[o] \in OrderRows /\ orders[o].phone \in Phones
                                   /\ (orders[o].intent <=> orders[o].status \in Served)
                                   /\ Agreed(orders[o].status, phones[orders[o].phone])
                                   /\ phones[orders[o].phone] \in States
  BY PlacedRow DEF Held, Served, OrderRows, Paid, Placed, Rented, With, NumberTypes
<1>6. ASSUME Activate(o), orders[o].status = "pending", pay'[o] \in {"paid", "refunded"}
      PROVE  NumberInv'
  <2> DEFINE row == [orders[o] EXCEPT !.status = "active", !.intent = TRUE, !.checkout = TRUE]
  <2>1. /\ row \in OrderRows /\ row.status = "active" /\ row.phone = orders[o].phone
        /\ row.parts = orders[o].parts /\ row.intent
    BY <1>5, <1>6 DEF OrderRows, Held, Served
  <2>2. /\ orders' = [orders EXCEPT ![o] = row]
        /\ phones' = [phones EXCEPT ![orders[o].phone] = "assigned"]
    BY <1>6 DEF Activate
  <2> HIDE DEF row
  <2>3. Agreed("active", "assigned") /\ "assigned" \in States /\ "pending" \in Held
        /\ "active" \in Served
    BY DEF Agreed, States, Held, Served
  <2>4. QED
    BY <1>4, <1>6, <2>1, <2>2, <2>3
<1>7. ASSUME Retire(o, "refunded"), orders[o].status \in Served, pay'[o] = "refunded"
      PROVE  NumberInv'
  <2> DEFINE row == [orders[o] EXCEPT !.status = "refunded"]
  <2>1. orders[o].status \in Held
    BY <1>7 DEF Held
  <2>2. /\ row \in OrderRows /\ row.status = "refunded" /\ row.phone = orders[o].phone
        /\ row.parts = orders[o].parts /\ row.intent
    BY <1>5, <1>7, <2>1 DEF OrderRows, Held, Served
  <2>3. /\ orders' = [orders EXCEPT ![o] = row]
        /\ phones' = [phones EXCEPT ![orders[o].phone] = "retired"]
    BY <1>7 DEF Retire
  <2> HIDE DEF row
  <2>4. Agreed("refunded", "retired") /\ "retired" \in States /\ "refunded" \in Served
    BY DEF Agreed, States, Served
  <2>5. QED
    BY <1>4, <1>7, <2>1, <2>2, <2>3, <2>4
<1>8. CASE SessionCompleted(o)
  <2>1. CASE Activate(o) /\ orders[o].status = "pending"
    BY <1>6, <1>8, <2>1 DEF SessionCompleted
  <2>2. QED
    BY <1>3, <1>8, <2>1 DEF SessionCompleted
<1>9. CASE SessionExpired(o)
  <2>1. CASE orders[o].status = "pending"
    <3> DEFINE row == [orders[o] EXCEPT !.status = "canceled"]
    <3>1. orders[o].status \in Held
      BY <2>1 DEF Held
    <3>2. /\ row \in OrderRows /\ row.status = "canceled" /\ row.phone = orders[o].phone
          /\ row.parts = orders[o].parts /\ ~row.intent
      BY <1>5, <2>1, <3>1 DEF OrderRows, Held, Served
    <3>3. /\ orders' = [orders EXCEPT ![o] = row]
          /\ phones' = [phones EXCEPT ![orders[o].phone] = "available"] /\ pay'[o] = "expired"
      BY <1>9, <2>1 DEF SessionExpired
    <3> HIDE DEF row
    <3>4. "available" \in States /\ "canceled" \notin Held /\ "canceled" \notin Served
      BY DEF States, Held, Served
    <3>5. ~SessionCompleted(o)
      BY <1>9 DEF SessionCompleted, SessionExpired
    <3>6. QED
      BY <1>4, <2>1, <3>1, <3>2, <3>3, <3>4, <3>5
  <2>2. QED
    BY <1>3, <1>9, <2>1 DEF SessionExpired
<1>10. CASE GatewayRefunded(o)
  <2>1. CASE orders[o].intent /\ Retire(o, "refunded")
    <3>1. orders[o].status \in Served /\ pay'[o] = "refunded"
      BY <1>10, <2>1 DEF GatewayRefunded, Paid, Placed
    <3>2. QED
      BY <1>7, <2>1, <3>1
  <2>2. QED
    BY <1>3, <1>10, <2>1 DEF GatewayRefunded
<1>11. CASE CapturePayPal(o)
  <2>1. pay'[o] = "paid" /\ orders[o].status = "pending"
    BY <1>11 DEF CapturePayPal, NumberTypes
  <2>2. QED
    BY <1>3, <1>6, <1>11, <2>1 DEF CapturePayPal
<1>12. CASE RequestRefund(o)
  <2> DEFINE row == [orders[o] EXCEPT !.status = "refund_requested"]
  <2>1. orders[o].status \in {"active", "expired"}
    BY <1>12 DEF RequestRefund, RentalCard
  <2>2. orders[o].status \in Held /\ orders[o].status \in Served
    BY <2>1 DEF Held, Served
  <2>3. /\ row \in OrderRows /\ row.status = "refund_requested"
        /\ row.phone = orders[o].phone /\ row.parts = orders[o].parts /\ row.intent
    BY <1>5, <2>2 DEF OrderRows, Held, Served
  <2>4. orders' = [orders EXCEPT ![o] = row]
    BY <1>12 DEF RequestRefund
  <2> HIDE DEF row
  <2> DEFINE state == phones[orders[o].phone]
  <2>5. /\ phones' = [phones EXCEPT ![orders[o].phone] = state]
        /\ state \in {"assigned", "retired"} /\ state \in States
        /\ pay'[o] \in {"paid", "refunded"} /\ ~SessionCompleted(o)
    <3>1. phones' = phones /\ pay' = pay /\ seen' = seen
      BY <1>12 DEF RequestRefund
    <3>2. phones' = [phones EXCEPT ![orders[o].phone] = state]
      BY <3>1 DEF NumberTypes
    <3>3. state \in {"assigned", "retired"} /\ state \in States
      BY <1>5, <2>1, <2>2 DEF Agreed, Served
    <3>4. pay'[o] \in {"paid", "refunded"}
      BY <2>2, <3>1 DEF Paid
    <3>5. ~SessionCompleted(o)
      BY <3>1 DEF SessionCompleted, Event
    <3>6. QED
      BY <3>2, <3>3, <3>4, <3>5
  <2>6. Agreed("refund_requested", state) /\ state # "reserved" /\ "refund_requested" \in Served
    BY <2>5 DEF Agreed, Served
  <2> HIDE DEF state
  <2>7. QED
    BY <1>4, <2>2, <2>3, <2>4, <2>5, <2>6
<1>13. CASE WriteRefund /\ o = refund.order
  <2>1. /\ refund # NoCall /\ refund.phase = "write" /\ UNCHANGED pay
        /\ Retire(o, "refunded")
    BY <1>13, NoCallIs DEF WriteRefund
  <2>2. orders[o].status \in Served /\ pay'[o] = "refunded"
    BY <1>13, <2>1 DEF Paid
  <2>3. QED
    BY <1>7, <2>1, <2>2
<1>14. QED
  BY <1>8, <1>9, <1>10, <1>11, <1>12, <1>13

(* maintain_virtual_numbers retires the numbers of all rentals that have   *)
(* run out: no other order has them.                                       *)
LEMMA MaintainStep ==
    ASSUME NumberInv, Maintain
    PROVE  NumberInv'
<1> USE DEF NumberInv
<1> DEFINE due == {o \in With({"active"}) : orders[o].over}
<1>0. UNCHANGED <<offer, seen, pageVars, purchase, refund, pay, quoted>>
  BY DEF Maintain
<1>1. /\ orders' = [o \in Orders |-> IF o \in due THEN [orders[o] EXCEPT !.status = "expired"]
                                    ELSE orders[o]]
      /\ phones' = [p \in Phones |-> IF \E o \in due : orders[o].phone = p THEN "retired"
                                    ELSE phones[p]]
  BY DEF Maintain
<1>2. /\ due \subseteq Orders
      /\ \A o \in due : orders[o] \in OrderRows /\ orders[o].status = "active"
  BY PlacedRow DEF With
<1> HIDE DEF due
<1>3. ASSUME NEW o \in due
      PROVE  /\ orders'[o] \in OrderRows /\ orders'[o].status = "expired"
             /\ orders'[o].phone = orders[o].phone /\ orders'[o].parts = orders[o].parts
             /\ orders'[o].intent = orders[o].intent
  <2>1. orders'[o] = [orders[o] EXCEPT !.status = "expired"]
    BY <1>1, <1>2, <1>3
  <2>2. QED
    BY <1>2, <1>3, <2>1 DEF OrderRows, Held, Served
<1>4. \A o \in Orders \ due : orders'[o] = orders[o]
  BY <1>1
<1>5. orders' \in [Orders -> {NoOrder} \cup OrderRows]
  <2>1. \A o \in Orders : orders'[o] \in {NoOrder} \cup OrderRows
    BY <1>3, <1>4 DEF NumberTypes
  <2>2. orders' = [o \in Orders |-> orders'[o]]
    BY <1>1
  <2>3. QED
    BY <2>1, <2>2
<1>6. phones' \in [Phones -> States]
  BY <1>1 DEF NumberTypes, States
<1>7. NumberTypes'
  BY <1>0, <1>5, <1>6 DEF NumberTypes, pageVars
<1>8. \A o \in Orders : o \in With(Held)' <=> o \in With(Held)
  BY <1>2, <1>3, <1>4 DEF With, Held, Served
<1>9. \A o \in With(Held) : o \in Orders /\ orders[o].phone \in Phones
                              /\ orders'[o].phone = orders[o].phone
  BY <1>3, <1>4, PlacedRow DEF With, Held, Served, OrderRows
<1>10. Rented'
  <2>1. ASSUME NEW o \in With(Held)
        PROVE  Agreed(orders'[o].status, phones'[orders'[o].phone])
    <3>1. CASE o \in due
      BY <1>1, <1>3, <1>9, <2>1, <3>1 DEF Agreed
    <3>2. CASE o \notin due
      <4>1. ~ \E b \in due : orders[b].phone = orders[o].phone
        BY <1>2, <2>1, <3>2 DEF Rented, With, Held, Served
      <4>2. phones'[orders[o].phone] = phones[orders[o].phone]
        BY <1>1, <1>9, <2>1, <4>1
      <4>3. QED
        BY <1>4, <1>9, <2>1, <3>2, <4>2 DEF Rented
    <3>3. QED
      BY <3>1, <3>2
  <2>2. \A a, b \in With(Held) : orders'[a].phone = orders'[b].phone => a = b
    BY <1>9 DEF Rented
  <2>3. ASSUME NEW p \in Stock("reserved")'
        PROVE  \E o \in With({"pending"})' : orders'[o].phone = p
    <3>1. p \in Stock("reserved")
      BY <1>1, <2>3 DEF Stock
    <3>2. PICK o \in With({"pending"}) : orders[o].phone = p
      BY <3>1 DEF Rented
    <3>3. o \in Orders \ due
      BY <1>2, <3>2 DEF With
    <3>4. QED
      BY <1>4, <3>2, <3>3 DEF With
  <2>4. With(Held)' \subseteq With(Held)
    BY <1>8 DEF With
  <2>5. QED
    BY <2>1, <2>2, <2>3, <2>4 DEF Rented
<1>11. Few'
  <2>1. \A o \in Orders : orders'[o].status = "pending" => orders[o].status = "pending"
    BY <1>3, <1>4
  <2>2. QED
    BY <2>1, FewStays
<1>12. Placed' = Placed
  BY <1>2, <1>3, <1>4 DEF Placed, NoOrder
<1>13. Quoted'
  BY <1>0, <1>3, <1>4, <1>12 DEF Quoted, Placed
<1>14. Paid'
  <2>1. \A o \in Orders : orders'[o].status \in Served <=> orders[o].status \in Served
    BY <1>2, <1>3, <1>4 DEF Served
  <2>2. \A o \in Orders : orders'[o].intent = orders[o].intent
    BY <1>3, <1>4
  <2>3. \A o \in Orders : orders'[o].status \in {"refunded", "canceled"} =>
                             orders'[o].status = orders[o].status
    BY <1>3, <1>4
  <2>4. refund # NoCall => refund.order \in Orders
    BY NoCallIs DEF NumberTypes
  <2>5. QED
    BY <1>0, <1>12, <2>1, <2>2, <2>3, <2>4 DEF Paid, Placed
<1>15. QED
  BY <1>7, <1>10, <1>11, <1>13, <1>14

LEMMA AddNumberStep ==
    ASSUME NumberInv, NEW p \in Phones, AddNumber(p)
    PROVE  NumberInv'
<1> USE DEF NumberInv
<1>1. /\ phones[p] = "absent" /\ phones' = [phones EXCEPT ![p] = "available"]
      /\ UNCHANGED <<offer, orders, seen, pageVars, purchase, refund, pay, quoted>>
  BY DEF AddNumber
<1>2. NumberTypes' /\ Paid' /\ Quoted'
  BY <1>1 DEF NumberTypes, Paid, Quoted, Placed, States, pageVars
<1>3. Few'
  BY <1>1, FewStays
<1>4. With(Held)' = With(Held) /\ With({"pending"})' = With({"pending"})
  BY <1>1 DEF With
<1>5. Stock("reserved")' = Stock("reserved")
  BY <1>1 DEF Stock, NumberTypes
<1>6. \A o \in With(Held) : phones'[orders[o].phone] = phones[orders[o].phone]
  <2>1. \A o \in With(Held) : orders[o].phone \in Phones
    BY PlacedRow DEF With, Held, Served, OrderRows
  <2>2. \A o \in With(Held) : phones[orders[o].phone] # "absent"
    BY DEF Rented, Agreed, With, Held, Served
  <2>3. QED
    BY <1>1, <2>1, <2>2 DEF NumberTypes
<1>7. Rented'
  BY <1>1, <1>4, <1>5, <1>6 DEF Rented
<1>8. QED
  BY <1>2, <1>3, <1>7

LEMMA NumberStep == NumberInv /\ [Next]_vars => NumberInv'
<1> SUFFICES ASSUME NumberInv, [Next]_vars PROVE NumberInv'
  OBVIOUS
<1>1. CASE UNCHANGED vars
  <2>1. Rented' /\ Few'
    BY <1>1, RentedStays, FewStays DEF vars, NumberInv
  <2>2. QED
    BY <1>1, <2>1 DEF vars, pageVars, NumberInv, NumberTypes, Paid, Quoted, Placed
<1>2. CASE WriteRefund
  <2>1. refund.order \in Orders
    BY <1>2, NoCallIs DEF WriteRefund, NumberInv, NumberTypes
  <2>2. QED
    BY <1>2, <2>1, MovesStep
<1>3. ASSUME NEW o \in Orders,
             \/ SessionCompleted(o) \/ SessionExpired(o) \/ GatewayRefunded(o)
             \/ CapturePayPal(o) \/ RequestRefund(o)
      PROVE  NumberInv'
  BY <1>3, MovesStep
<1>4. ASSUME NEW p \in Phones, Reserve(p) \/ AddNumber(p) PROVE NumberInv'
  BY <1>4, ReserveStep, AddNumberStep
<1>5. CASE Maintain
  BY <1>5, MaintainStep
<1>6. ASSUME \/ LoadCatalog \/ LeavePage \/ FindOrder \/ RefusePurchase \/ PurchaseFails
             \/ \E g \in Gateways : PressRent(g)
      PROVE  NumberInv'
  BY <1>6, PageSteps
<1>7. ASSUME \/ CreateCheckout \/ RecordCheckout \/ CallRefund
             \/ \E o \in Orders : \/ Approve(o) \/ SessionRunsOut(o) \/ RefundAtGateway(o)
                                  \/ RunOut(o) \/ PressRefund(o)
             \/ \E f \in Offers : SaveOffer(f)
      PROVE  NumberInv'
  BY <1>7, QuietSteps
<1>8. QED
  BY <1>1, <1>2, <1>3, <1>4, <1>5, <1>6, <1>7 DEF Next

LEMMA NumberAlways == Spec => []NumberInv
BY NumberAtFirst, NumberStep, PTL DEF Spec

(* reserve_order, process_payment, expire, refund_order and                *)
(* maintain_virtual_numbers: no number is in two hands, none is reserved   *)
(* for nobody, and no more orders wait for their money than are allowed.   *)
THEOREM NumbersAreExclusive == Spec => []NumberIsExclusive
<1>1. NumberInv => NumberIsExclusive
  <2> SUFFICES ASSUME NumberInv PROVE NumberIsExclusive
    OBVIOUS
  <2>1. \A o \in With({"pending"}) : o \in With(Held) /\ orders[o].status = "pending"
    BY DEF With, Held
  <2>2. \A o \in With({"active"}) : o \in With(Held) /\ orders[o].status = "active"
    BY DEF With, Held, Served
  <2>3. With({"pending", "active", "refund_requested"}) \subseteq With(Held)
    BY DEF With, Held, Served
  <2>4. QED
    BY <2>1, <2>2, <2>3 DEF NumberInv, Rented, Few, Agreed, NumberIsExclusive
<1>2. QED
  BY <1>1, NumberAlways, PTL

(* Money and rental agree, whatever order the events of the gateways come  *)
(* in and whichever call fails half way.                                   *)
THEOREM MoneyMatches == Spec => []MoneyMatchesRental
<1>1. NumberInv => MoneyMatchesRental
  <2> SUFFICES ASSUME NumberInv, NEW o \in Placed
               PROVE  /\ orders[o].status = "canceled" => pay[o] = "expired"
                      /\ <<"completed", o>> \in seen => orders[o].status \notin {"pending", "canceled"}
                      /\ orders[o].status \in {"active", "expired", "refund_requested"} =>
                             pay[o] \in {"paid", "refunded"}
                      /\ orders[o].status = "refunded" => pay[o] = "refunded"
                      /\ Charged(o) = orders[o].parts.total
    BY DEF MoneyMatchesRental
  <2>1. o \in Orders /\ orders[o] \in OrderRows
    BY DEF Placed, NumberInv, NumberTypes
  <2>2. PICK t \in Tariffs : orders[o].parts = quote(t.cost, t.basis)
    BY <2>1 DEF OrderRows, AllParts
  <2>3. Charged(o) = orders[o].parts.total
    BY <2>2 DEF Charged, stripe_line_items, quote
  <2>4. QED
    BY <2>1, <2>3 DEF NumberInv, Paid, Served
<1>2. QED
  BY <1>1, NumberAlways, PTL

(* quoted_total: an order costs what the page showed on one of the clicks  *)
(* that carried its key.                                                   *)
THEOREM PricesAreQuoted == Spec => []PricedAsQuoted
<1>1. NumberInv => PricedAsQuoted
  BY DEF NumberInv, Quoted, PricedAsQuoted
<1>2. QED
  BY <1>1, NumberAlways, PTL

-----------------------------------------------------------------------------
(* The lists of the public pages                                            *)

(* What a page shows or the server has of a row is nothing, or its own. *)
OwnFields(f) == f \in [Rows -> Rows \cup {Blank}] /\ \A r \in Rows : f[r] \in {Blank, r}

Drafts == {d \in [id : Rows \cup {Blank}, draft : Rows \cup {Blank}] : d.draft = d.id}

Saves == {c \in [at : {"sent", "done", "refused"}, id : Rows \cup {Blank},
                 draft : Rows \cup {Blank}] : c.draft = c.id}

Removals == [at : {"sent", "done", "refused"}, id : Rows]

(* The inductive invariant. *)
Together ==
    /\ OwnFields(fields)
    /\ loaded \in [Editors -> {f \in [Rows -> Rows \cup {Blank}] : OwnFields(f)}]
    /\ form \in [Editors -> Drafts]
    /\ saving \in [Editors -> {Idle} \cup Saves]
    /\ removing \in [Editors -> {Idle} \cup Removals]

(* A component of the state of a page is changed for that page alone. *)
LEMMA PageUpdate ==
    ASSUME NEW S, NEW f \in [Editors -> S], NEW e \in Editors, NEW x \in S
    PROVE  [f EXCEPT ![e] = x] \in [Editors -> S]
OBVIOUS

(* A row gets its own fields, or none. *)
LEMMA RowUpdate ==
    ASSUME NEW f, OwnFields(f), NEW r \in Rows, NEW x \in {Blank, r}
    PROVE  OwnFields([f EXCEPT ![r] = x])
BY DEF OwnFields

LEMMA TogetherAtFirst == PartnerInit => Together
<1> SUFFICES ASSUME PartnerInit PROVE Together
  OBVIOUS
<1>1. OwnFields([r \in Rows |-> Blank])
  BY DEF OwnFields
<1>2. Empty \in Drafts
  BY DEF Empty, Drafts
<1>3. QED
  BY <1>1, <1>2 DEF PartnerInit, Together, OwnFields

(* The steps of a page that only move what it has. *)
LEMMA ListPageSteps ==
    ASSUME Together, NEW e \in Editors,
           LoadRows(e) \/ CancelEdit(e) \/ PressSave(e) \/ SaveAnswered(e)
             \/ RemovalAnswered(e) \/ (\E r \in Rows : EditRow(e, r) \/ PressRemove(e, r))
    PROVE  Together'
<1>0. Empty \in Drafts
  BY DEF Empty, Drafts
<1>1. CASE LoadRows(e)
  BY <1>1, PageUpdate DEF LoadRows, Together, OwnFields
<1>2. CASE CancelEdit(e)
  BY <1>0, <1>2, PageUpdate DEF CancelEdit, Together, OwnFields
<1>3. CASE PressSave(e)
  <2>1. [at |-> "sent", id |-> form[e].id, draft |-> form[e].draft] \in Saves
    BY DEF Together, Drafts, Saves
  <2>2. saving' \in [Editors -> {Idle} \cup Saves]
    BY <1>3, <2>1, PageUpdate DEF PressSave, Together
  <2>3. QED
    BY <1>3, <2>2 DEF PressSave, Together, OwnFields
<1>4. CASE SaveAnswered(e)
  <2>1. saving' \in [Editors -> {Idle} \cup Saves]
    BY <1>4, PageUpdate DEF SaveAnswered, Together
  <2>2. form' \in [Editors -> Drafts]
    BY <1>0, <1>4, PageUpdate DEF SaveAnswered, Together
  <2>3. QED
    BY <1>4, <2>1, <2>2 DEF SaveAnswered, Together, OwnFields
<1>5. CASE RemovalAnswered(e)
  <2>1. removing' \in [Editors -> {Idle} \cup Removals]
    BY <1>5, PageUpdate DEF RemovalAnswered, Together
  <2>2. WithoutRow(form[e], removing[e].id) \in Drafts
    BY <1>0 DEF WithoutRow, Together
  <2>3. form' \in [Editors -> Drafts]
    BY <1>5, <2>2, PageUpdate DEF RemovalAnswered, Together
  <2>4. QED
    BY <1>5, <2>1, <2>3 DEF RemovalAnswered, Together, OwnFields
<1>6. ASSUME NEW r \in Rows, EditRow(e, r) PROVE Together'
  <2>1. loaded[e][r] = r
    BY <1>6 DEF EditRow, Together, OwnFields
  <2>2. [id |-> r, draft |-> loaded[e][r]] \in Drafts
    BY <2>1 DEF Drafts
  <2>3. form' \in [Editors -> Drafts]
    BY <1>6, <2>2, PageUpdate DEF EditRow, Together
  <2>4. QED
    BY <1>6, <2>3 DEF EditRow, Together, OwnFields
<1>7. ASSUME NEW r \in Rows, PressRemove(e, r) PROVE Together'
  <2>1. [at |-> "sent", id |-> r] \in Removals
    BY DEF Removals
  <2>2. removing' \in [Editors -> {Idle} \cup Removals]
    BY <1>7, <2>1, PageUpdate DEF PressRemove, Together
  <2>3. QED
    BY <1>7, <2>2 DEF PressRemove, Together, OwnFields
<1>8. QED
  BY <1>1, <1>2, <1>3, <1>4, <1>5, <1>6, <1>7

(* The server carries a save out. *)
LEMMA SaveStep ==
    ASSUME Together, NEW e \in Editors, NEW r \in Rows, SaveRow(e, r)
    PROVE  Together'
<1>1. saving[e] \in Saves
  BY DEF SaveRow, Together, Idle
<1>2. saving[e].id = Blank \/ saving[e].id = r
  BY DEF SaveRow
<1>3. Own(r, saving[e].draft) = r
  BY <1>1, <1>2 DEF Own, Saves
<1>4. OwnFields(fields')
  BY <1>3, RowUpdate DEF SaveRow, Together
<1>5. \A at \in {"done", "refused"} : [saving[e] EXCEPT !.at = at] \in Saves
  BY <1>1 DEF Saves
<1>6. saving' \in [Editors -> {Idle} \cup Saves]
  <2>1. PICK at \in {"done", "refused"} : saving' = [saving EXCEPT ![e].at = at]
    BY DEF SaveRow
  <2>2. saving' = [saving EXCEPT ![e] = [saving[e] EXCEPT !.at = at]]
    BY <2>1
  <2>3. QED
    BY <1>5, <2>2, PageUpdate DEF Together
<1>7. QED
  BY <1>4, <1>6 DEF SaveRow, Together, OwnFields

(* The server carries a removal out. *)
LEMMA RemovalStep ==
    ASSUME Together, NEW e \in Editors, RemoveRow(e)
    PROVE  Together'
<1>1. removing[e] \in Removals
  BY DEF RemoveRow, Together, Idle
<1>2. OwnFields(fields')
  <2>1. removing[e].id \in Rows
    BY <1>1 DEF Removals
  <2>2. QED
    BY <2>1, RowUpdate DEF RemoveRow, Together
<1>3. \A at \in {"done", "refused"} : [removing[e] EXCEPT !.at = at] \in Removals
  BY <1>1 DEF Removals
<1>4. removing' \in [Editors -> {Idle} \cup Removals]
  <2>1. PICK at \in {"done", "refused"} : removing' = [removing EXCEPT ![e].at = at]
    BY DEF RemoveRow
  <2>2. removing' = [removing EXCEPT ![e] = [removing[e] EXCEPT !.at = at]]
    BY <2>1
  <2>3. QED
    BY <1>3, <2>2, PageUpdate DEF Together
<1>5. QED
  BY <1>2, <1>4 DEF RemoveRow, Together, OwnFields

LEMMA TogetherStep == Together /\ [PartnerNext]_partnerVars => Together'
<1> SUFFICES ASSUME Together, [PartnerNext]_partnerVars PROVE Together'
  OBVIOUS
<1>1. CASE PartnerNext
  BY <1>1, ListPageSteps, SaveStep, RemovalStep DEF PartnerNext
<1>2. CASE UNCHANGED partnerVars
  BY <1>2 DEF partnerVars, Together, OwnFields
<1>3. QED
  BY <1>1, <1>2

(* No row ever has the fields of another one, for any number of pages: the *)
(* id and the draft of PartnersPage.tsx and AuthLogoSettings.tsx are never *)
(* parted by an edit, a save and a removal that overlap.                   *)
THEOREM FieldsStayTogether == PartnerSpec => []RowsKeepTheirFields
<1>1. Together => RowsKeepTheirFields
  BY DEF Together, OwnFields, RowsKeepTheirFields, Present
<1>2. QED
  BY <1>1, TogetherAtFirst, TogetherStep, PTL DEF PartnerSpec
==============================================================================
