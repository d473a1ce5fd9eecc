SPECIFICATION MCSpec
CONSTANTS
    Pages = {"accounts", "payouts", "revenue", "shop"}
    a1 = a1
    p1 = p1
    c1 = c1
    j1 = j1
    j2 = j2
    Accounts = {a1, a2}
    Roles = {payouts}
    Paying = payouts
    Payees = {p1}
    AccountOf <- MCAccountOf
    Payouts = {r1, r2}
    Refs = {f1, f2}
    None = None
    MaxTurns = 2
    MaxChecks = 1
    MaxFaults = 1
    Creators = {c1}
    Jobs = {j1, j2}
    OwnerOf <- MCOwnerOf
    Months = {1, 2}
    Amounts = {4, 8}
    CreatorPct = 70
    Minimum = 2
    MaxTime = 5
    MaxAborts = 1
    Plans <- MCPlans
    Rates = {1, 2}
    Orders = {o1}
    Payments = {f1, f2}
    Purchases = {s1}
    Periods = {1, 2}
    Nothing = Nothing
    MaxForms = 2
    MaxLost = 1
SYMMETRY Symmetry
INVARIANTS DefaultIsUsable PaidOnce SettlementsAreCounted CreditedAsAgreed ChargedOnce ChargeIsNotForgotten
 
CHECK_DEADLOCK FALSE
