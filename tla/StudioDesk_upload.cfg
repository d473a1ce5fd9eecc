SPECIFICATION MCSpec
CONSTANTS
    Pages = {"video"}
    Kinds = {youtube, adsense}
    Channel = youtube
    Tokens = {v1, v2}
    NoToken = NoToken
    Consents = {u1, u2}
    MaxOpen = 2
    MaxSaves = 2
    MaxFailures = 1
    Versions = {1, 2}
    Tabs = {v1, v2}
    PaidPlans = {p1}
    Free = free
    Sessions = {u1, u2}
    MaxEdits = 3
    MaxContracts = 2
    MaxReports = 2
    MaxWaiting = 3
    Asking = {"message", "proposal"}
    Message = "message"
    Items = {u1, u2}
    PlanTabs = {v1, v2}
    MaxDrafts = 3
    MaxTexts = 1
    Workers = {v1, v2}
    MaxTextEdits = 1
    MaxCuts = 2
    MaxCalls = 2
    MaxAtOnce = 2
    MaxAgain = 1
    Admins = {v1, v2}
    Models = {u1, u2}
    ApiKeys = {v1, v2}
    None = None
    MaxPatches = 3
SYMMETRY Symmetry
INVARIANT UploadedOnce
CHECK_DEADLOCK FALSE
