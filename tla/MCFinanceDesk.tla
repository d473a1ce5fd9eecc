---------------------------- MODULE MCFinanceDesk ----------------------------
(* A behaviour follows one page: the accounts, the payouts of one account, *)
(* the revenue, or the shop; the last two share no row with the others.    *)
EXTENDS PayoutDesk, RevenueDesk, PlanShop, TLC

CONSTANTS a1, p1, c1, j1, j2
MCAccountOf == (p1 :> a1)
MCOwnerOf == (j1 :> c1) @@ (j2 :> c1)
MCPlans ==
    {[price |-> 200, discount |-> 50, stars |-> 112, active |-> TRUE],
     [price |-> 200, discount |-> 0, stars |-> 112, active |-> TRUE],
     [price |-> 200, discount |-> 0, stars |-> 0, active |-> FALSE]}
Symmetry == Permutations(Refs) \cup Permutations(Payouts)

(* The account the payouts are made from. *)
Able == [active |-> TRUE, enabled |-> Roles, default |-> {}, keys |-> Roles]

CONSTANT Pages
VARIABLE page

MCInit ==
    /\ page \in Pages
    /\ RevenueInit /\ ShopInit
    /\ page # "shop" => plan.discount = 50 /\ bot.rate = 1 /\ sub.plan = "free"
    /\ page # "revenue" => \A c \in Creators : strict[c]
    /\ IF page # "payouts" THEN PayoutInit
       ELSE /\ account = [a \in Accounts |-> IF a = a1 THEN Saved(Able) ELSE NoRow]
            /\ payee = [p \in Payees |-> "active"]
            /\ payout = [r \in Payouts |-> NoPayout]
            /\ order = [f \in Refs |-> [state |-> "unknown", payout |-> None]]
            /\ sending = {} /\ checks = {}
            /\ turns = 0 /\ faults = 0

MCNext ==
    /\ page' = page
    /\ \/ /\ page \in {"accounts", "payouts"}
          /\ UNCHANGED <<revenueVars, shopVars>>
          /\ \/ \E a \in Accounts :
                   IF page = "accounts" THEN AccountStep(a, Fields)
                   ELSE a = a1 /\ AccountStep(a, {Able})
             \/ \E p \in Payees : PayeeStep(p)
             \/ page = "payouts" /\ PayoutsStep
       \/ page = "revenue" /\ RevenueNext /\ UNCHANGED <<payoutDeskVars, shopVars>>
       \/ page = "shop" /\ ShopNext /\ UNCHANGED <<payoutDeskVars, revenueVars>>
MCSpec == MCInit /\ [][MCNext]_<<page, payoutDeskVars, revenueVars, shopVars>>
=============================================================================
