SPECIFICATION Spec
CONSTANTS
    j1 = j1
    j2 = j2
    j3 = j3
    h1 = h1
    h2 = h2
    Jobs = {j1, j2}
    Handlers = {h1, h2}
    Nobody = Nobody
    NoJob = NoJob
    Plans <- FreeAndPaid
    MaxPeriod = 2
    FreeRegenerations = 0
    MaxRegen = 1
INVARIANTS
    QuotaExact
    NoOverdraft
    
 
SYMMETRY Symmetry
CHECK_DEADLOCK FALSE
