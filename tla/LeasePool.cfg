SPECIFICATION FairSpec
CONSTANTS
    w1 = w1
    w2 = w2
    Workers = {w1, w2}
    None = None
    Steps = {"code", "review"}
    MaxGeneration = 2
    QueueClass <- MCQueueClass
    ClassLimit <- MCClassLimit
    ReadOnly <- MCReadOnly
    Idempotent <- MCIdempotent
    Keyed <- MCIdempotent
    Mutating <- MCMutating
    Transient <- MCTransient
    MaxAttempts <- MCMaxAttempts
INVARIANTS
    NoBlindRepeat
    QueuedIsClaimable
PROPERTIES
    ImplementsFencedLease
    LeaseEventuallyReleased
CHECK_DEADLOCK FALSE
