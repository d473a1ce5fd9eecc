SPECIFICATION FairSpec
CONSTANTS
    w1 = w1
    w2 = w2
    Workers = {w1, w2}
    NoWorker = NoWorker
    MaxRetries = 1
    MaxDisturbed = 1
INVARIANTS
    OneBuyer
    VoicePaidOnce
    
    NoSilentStall
PROPERTY JobSettles
CHECK_DEADLOCK FALSE
