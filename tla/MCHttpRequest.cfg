\* One call of doJSON of each kind, every status class and every body.
CONSTANTS
    MaxAttempts = 3
    MaxRetryDelay = 300
    Statuses <- MCStatuses
    RetryAfters <- MCRetryAfters
SPECIFICATION FairSpec
INVARIANTS
    TypeOK
    RetriesAsAllowed
PROPERTIES
    KeepsContract
    ResendsOnlyTransient
    Terminates
