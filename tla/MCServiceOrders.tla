-------------------------- MODULE MCServiceOrders --------------------------
(***************************************************************************)
(* Small instances of ServiceOrders for TLC.                               *)
(***************************************************************************)
EXTENDS ServiceOrders

CONSTANTS d1, d2, d3, site, shop, cheap, dear

(* Two drafts for one package, so that the form changes without a change   *)
(* of package, and, where a run has it, a third for another package; two   *)
(* offers of different prices.                                             *)
PackageOfDraft == [d \in Drafts |-> IF d = d3 THEN shop ELSE site]
PriceOfOffer == [o \in Offers |-> IF o = dear THEN 2 ELSE 1]
=============================================================================
