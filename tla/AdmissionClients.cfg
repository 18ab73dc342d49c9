\* Three requests, one of which may want more than the machine has.
SPECIFICATION ClientSpec
CONSTANTS
    Jobs = {j1, j2, j3}
    Owners = {o1}
    MaxConcurrent = 2
    TotalTokens = 3
    MinWorkers = 1
    MaxWorkers = 3
    QueueLease = 1
    Demands = {1, 5}
    NoSlot = NoSlot
    NoTicket = NoTicket
INVARIANT PollersHoldTickets
PROPERTY PollersServed
