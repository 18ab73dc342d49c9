\* One request id, claimed up to twice, through every executor and contract.
SPECIFICATION ServerSpec
CONSTANTS
    Jobs = {j1}
    Owners = {o1}
    Scopes = {}
    Fingerprints = {}
    Budgets = {2}
    MaxUnresolved = 1
    MaxUnresolvedPerOwner = 1
    MaxResults = 1
    ResultTTL = 1
    MaxGeneration = 5
    MaxClaims = 2
    NoJob = NoJob
    None = None
INVARIANTS ServerTypeOK OneExecutorPerGeneration ResultByNewestFence WriterMatchesPhase AgentOnlyNeverOnVps WatchdogArmed
PROPERTIES ImplementsPromise CancelIsFinal ResultIsFinal RescueAtMostOnce
