SPECIFICATION FairSpec
CONSTANTS
    Jobs = {j1}
    Workers = {w1}
    Proposals = {}
    Invoices = {i1}
    Grant = 3
    Refunds = {1, 3}
    Budget = 2
    Price = 1
    Costs = {1}
    Releasers = 1
    MaxFaults = 2
INVARIANTS
    BalanceIsLedger
    RefundsWithinGrant
PROPERTIES
    RefundsReachWallet
CHECK_DEADLOCK FALSE
