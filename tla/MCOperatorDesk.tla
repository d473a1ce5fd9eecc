--------------------------- MODULE MCOperatorDesk ---------------------------
(* The numbers for rent (two, one of them not yet in stock, at a cost      *)
(* whose parts round differently from its total) and the two lists of the  *)
(* public pages, which share no row: a behaviour follows one of them.      *)
EXTENDS NumberDesk, PartnerDesk, TLC

TwoTariffs == {[cost |-> 102, basis |-> "base"], [cost |-> 250, basis |-> "subtotal"]}
Symmetry == Permutations(Editors) \cup Permutations(Rows)

VARIABLE page

MCInit ==
    /\ page \in {"numbers", "lists"}
    /\ Init /\ PartnerInit
    /\ page = "numbers" => list = "logos"
    /\ page = "lists" => offer.cost = 102

MCNext ==
    /\ page' = page
    /\ \/ page = "numbers" /\ Next /\ UNCHANGED partnerVars
       \/ page = "lists" /\ PartnerNext /\ UNCHANGED vars
MCSpec == MCInit /\ [][MCNext]_<<page, vars, partnerVars>>
=============================================================================
