\* Two request ids compete for one child; every method of the pool is taken.
SPECIFICATION PoolSpec
CONSTANTS
    Jobs = {j1, j2}
    Owners = {o1}
    MaxConcurrent = 1
    TotalTokens = 2
    MinWorkers = 1
    MaxWorkers = 2
    QueueLease = 0
    Demands = {1}
    NoSlot = NoSlot
    NoTicket = NoTicket
    Scopes = {}
    Fingerprints = {}
    Budgets = {}
    MaxUnresolved = 2
    MaxUnresolvedPerOwner = 2
    MaxResults = 1
    ResultTTL = 0
    MaxGeneration = 2
    MaxClaims = 1
    NoJob = NoJob
    None = None
    TrustedBatch = 1
SYMMETRY JobSymmetry
INVARIANTS NoTicketOnceLost LostChildIsTold StopReachesChild
