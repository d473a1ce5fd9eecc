SPECIFICATION FairSpec
CONSTANTS
    Jobs = {j1}
    Workers = {w1, w2}
    Proposals = {p1}
    Invoices = {i1}
    Grant = 3
    Refunds = {}
    Budget = 2
    Price = 1
    Costs = {1, 2}
    Releasers = 2
    MaxFaults = 1
INVARIANTS
    ReservedIsBacked
    
PROPERTIES
    HoldsAreReturned
CHECK_DEADLOCK FALSE
