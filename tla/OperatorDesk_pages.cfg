SPECIFICATION MCSpec
CONSTANTS
    Orders = {k1, k2}
    Phones = {n1, n2}
    FirstPhones = {n1}
    Tariffs <- TwoTariffs
    PendingLimit = 1
    None = None
    MaxSaves = 1
    MaxFaults = 1
    Editors = {e1, e2}
    Rows = {w1, w2}
    Blank = Blank
SYMMETRY Symmetry
INVARIANTS NumberIsExclusive MoneyMatchesRental PricedAsQuoted RowsKeepTheirFields
CHECK_DEADLOCK FALSE
