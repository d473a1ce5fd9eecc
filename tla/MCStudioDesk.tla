---------------------------- MODULE MCStudioDesk ----------------------------
(* The pages of the creator and of the configuration share no row, so a    *)
(* behaviour follows one of them.                                          *)
EXTENDS ChannelDesk, AgreementDesk, PlanningDesk, VideoDesk, ConfigDesk, TLC

CONSTANT Pages

(* Sets that never meet on a page are given the same elements, which keeps *)
(* the group of symmetries small.                                          *)
Symmetry ==
    UNION {Permutations(s) : s \in {Tokens, Consents, Tabs, Sessions, PlanTabs, Items,
                                    Workers, Admins, Models, ApiKeys}}

VARIABLE page

MCInit ==
    /\ page \in Pages
    /\ ChannelInit /\ AgreementInit /\ PlanningInit /\ VideoInit /\ ConfigInit
    /\ page # "billing" => subscription = CardRow
    /\ page # "prices" => ~paid.dated /\ paid.price = 0

MCNext ==
    /\ page' = page
    /\ \/ /\ page = "channel" /\ ChannelNext
          /\ UNCHANGED <<agreementVars, planningVars, videoVars, configVars>>
       \/ /\ page \in {"contract", "billing"}
          /\ page = "contract" => ContractStep
          /\ page = "billing" => BillingStep
          /\ UNCHANGED <<channelVars, planningVars, videoVars, configVars>>
       \/ /\ page \in {"message", "proposal", "plan"}
          /\ \/ page \in Asking /\ AskStep(page)
             \/ page = Message /\ SweepStep
             \/ page = "plan" /\ PlanStep
          /\ UNCHANGED <<channelVars, agreementVars, videoVars, configVars>>
       \/ /\ page = "video" /\ VideoNext
          /\ UNCHANGED <<channelVars, agreementVars, planningVars, configVars>>
       \/ /\ page \in {"engines", "prices"}
          /\ page = "engines" => EngineNext
          /\ page = "prices" => PriceNext
          /\ UNCHANGED <<channelVars, agreementVars, planningVars, videoVars>>

MCSpec == MCInit /\ [][MCNext]_<<page, channelVars, agreementVars, planningVars, videoVars, configVars>>
=============================================================================
