SPECIFICATION Spec
CONSTANTS
    Jobs = {j1}
    Workers = {w1}
    Proposals = {}
    Invoices = {i1}
    Grant = 2
    Refunds = {1}
    Budget = 1
    Price = 1
    Costs = {1}
    Releasers = 1
    MaxFaults = 1
INVARIANT AnsweredIsProcessed
CHECK_DEADLOCK FALSE
