\* Three requests, two accounts, four tokens, at most two children: both limits bind.
SPECIFICATION AdmissionSpec
CONSTANTS
    Jobs = {j1, j2, j3}
    Owners = {o1, o2}
    MaxConcurrent = 2
    TotalTokens = 4
    MinWorkers = 1
    MaxWorkers = 3
    QueueLease = 1
    Demands = {0, 2, 5}
    NoSlot = NoSlot
    NoTicket = NoTicket
SYMMETRY JobSymmetry
INVARIANTS AdmissionTypeOK NoOversubscription QueueIsLine
PROPERTIES NoOvertaking PlacesKept
