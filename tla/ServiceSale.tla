---------------------------- MODULE ServiceSale ----------------------------
(***************************************************************************)
(* What the website-service shop promises about an order, whatever the     *)
(* order the browser, the server, the operator and Payoneer act in: it is  *)
(* placed for one document, which stays, money is taken only at the price  *)
(* of that document, it counts as paid only once money was taken, and a    *)
(* returned payment is the end of it.  ServiceOrders implements this.      *)
(***************************************************************************)
CONSTANTS
    Orders,    \* orders that can be placed
    Documents, \* contracts a customer can agree to
    Price(_)   \* the price of a contract

VARIABLES
    deal,      \* stage and document of an order
    taken      \* amounts charged for an order

saleVars == <<deal, taken>>

Unplaced == [stage |-> "none"]

Init ==
    /\ deal = [o \in Orders |-> Unplaced]
    /\ taken = [o \in Orders |-> {}]

(* The customer agrees to a document. *)
Agree(o, d) ==
    /\ deal[o] = Unplaced
    /\ deal' = [deal EXCEPT ![o] = [stage |-> "open", doc |-> d]]
    /\ UNCHANGED taken

(* The customer's card is charged, also for an order closed meanwhile. *)
Charge(o) ==
    /\ deal[o] # Unplaced
    /\ taken' = [taken EXCEPT ![o] = @ \cup {Price(deal[o].doc)}]
    /\ UNCHANGED deal

MoveTo(o, from, to) ==
    /\ deal[o].stage \in from
    /\ deal' = [deal EXCEPT ![o].stage = to]
    /\ UNCHANGED taken

Settle(o) == taken[o] # {} /\ MoveTo(o, {"open", "closed"}, "paid")
Close(o)  == MoveTo(o, {"open"}, "closed")
Return(o) == MoveTo(o, {"paid"}, "returned")

Next ==
    \E o \in Orders :
        \/ \E d \in Documents : Agree(o, d)
        \/ Charge(o)
        \/ Settle(o)
        \/ Close(o)
        \/ Return(o)

Spec == Init /\ [][Next]_saleVars
=============================================================================
