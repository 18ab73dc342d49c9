\* Four ids of two accounts: capacities, single flight and the pruning of results.
SPECIFICATION RegistrySpec
CONSTANTS
    Jobs = {j1, j2, j3, j4}
    Owners = {o1, o2}
    Scopes = {s1}
    Fingerprints = {p1}
    Budgets = {}
    MaxUnresolved = 3
    MaxUnresolvedPerOwner = 2
    MaxResults = 1
    ResultTTL = 1
    MaxGeneration = 2
    MaxClaims = 1
    NoJob = NoJob
    None = None
SYMMETRY JobSymmetry
INVARIANTS SingleFlight RegistryBounded
