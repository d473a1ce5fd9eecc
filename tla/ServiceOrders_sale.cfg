SPECIFICATION Spec
CONSTANTS
    d1 = d1
    d2 = d2
    d3 = d3
    site = site
    shop = shop
    cheap = cheap
    dear = dear
    None = None
    Packages = {site}
    Drafts = {d1, d2}
    Offers = {cheap, dear}
    Pages = {s1, s2}
    MaxPending = 1
    MaxOrders = 1
    MaxAgreed = 1
    MaxChanges = 1
    PackageOf <- PackageOfDraft
    PriceOf <- PriceOfOffer
INVARIANTS
    OrderedWasAgreed
    ChargeIsKnown
PROPERTIES
    KeepsSale
CHECK_DEADLOCK FALSE
