------------------------ MODULE AdmissionClientsProofs ------------------------
(***************************************************************************)
(* The callers of the admission queue, for every number of requests, every *)
(* machine and every lease.  A caller only does what SolverAdmission lets  *)
(* any caller do, so what is proved of the queue holds with its callers;   *)
(* and the pruning of stale tickets never takes the place of a caller that *)
(* still polls.  That is an argument over time: the lease is longer than   *)
(* the distance of two polls, and every poll that does not start the child *)
(* ends with a live ticket.                                                *)
(***************************************************************************)
EXTENDS AdmissionClients, SolverAdmissionProofs

Callers == {"idle", "polling", "running"}

ClientInv ==
    /\ AdmissionTypeOK
    /\ caller \in [Jobs -> Callers]
    /\ wanted \in [Jobs -> Nat]
    /\ \A j \in Jobs : caller[j] = "polling" => wanted[j] \in Demands
    /\ PollersHoldTickets

-----------------------------------------------------------------------------
(* Which tickets are live after an operation on the queue                   *)

LEMMA DropLive ==
    ASSUME AdmissionTypeOK, NEW js, DropTickets(js)
    PROVE  Live' = Live \ (js \cup Stale)
BY DEF DropTickets, Live, Stale, Waiting

LEMMA TouchLive ==
    ASSUME AdmissionTypeOK, NEW j \in Live, TouchTicket(j)
    PROVE  Live' = Live
<1>1. [tickets[j] EXCEPT !.age = 0] \in Ticket /\ [tickets[j] EXCEPT !.age = 0].age = 0
  BY AbsentTicket, LiveIsWaiting DEF Ticket
<1>2. Waiting' = Live
  BY <1>1, AbsentTicket DEF TouchTicket, Waiting, Live
<1>3. \A i \in Live : tickets'[i] = IF i = j THEN [tickets[i] EXCEPT !.age = 0] ELSE tickets[i]
  BY LiveIsWaiting DEF TouchTicket, Live
<1>4. ASSUME NEW i \in Live PROVE ~(tickets'[i].age > QueueLease)
  <2>1. CASE i = j
    <3>1. tickets'[i].age = 0
      BY <1>1, <1>3, <2>1
    <3> QED
      BY <3>1, PoolAssumption
  <2>2. CASE i # j
    BY <1>3, <2>2 DEF Live, Stale
  <2> QED
    BY <2>1, <2>2
<1> QED
  BY <1>2, <1>4 DEF Live, Stale

LEMMA PushLive ==
    ASSUME AdmissionTypeOK, NEW j \in Jobs, NEW o \in Owners, NEW d \in Nat, PushBack(j, o, d)
    PROVE  Live' = Live \cup {j}
<1> DEFINE new == [workers |-> d, age |-> 0, owner |-> o]
<1>1. new \in Ticket /\ new.age = 0 /\ new # NoTicket
  BY AbsentAssumption DEF Ticket
<1>2. /\ tickets'[j] = new
      /\ \A i \in Jobs \ {j} : tickets'[i] = IF i \in Stale THEN NoTicket ELSE tickets[i]
  BY DEF PushBack
<1> HIDE DEF new
<1>3. Waiting' = Live \cup {j}
  BY <1>1, <1>2 DEF Waiting, Live
<1>4. \A i \in Live \cup {j} : ~(tickets'[i].age > QueueLease)
  BY <1>1, <1>2, LiveIsWaiting, PoolAssumption DEF Live, Stale
<1> QED
  BY <1>3, <1>4 DEF Live, Stale

\* What an admission attempt of j leaves: nobody else loses a live ticket or a
\* child, and j itself ends with one or the other unless it may not queue.
Attempted(j) ==
    /\ Running' \in {Running, Running \cup {j}}
    /\ Live \ {j} \subseteq Live'
    /\ j \in Running' \/ j \in Live'

LEMMA AcquireAttempt ==
    ASSUME AdmissionTypeOK, NEW j \in Jobs, NEW o \in Owners, NEW d \in Demands, j \notin Running,
           AcquireOrEnqueue(j, o, d, FALSE, FALSE)
    PROVE  Attempted(j)
<1>1. NormalizedDemand(d) \in Nat
  BY PoolAssumption, DemandBounds
<1>2. CASE AcquireRefused(j, o, FALSE)
  <2>1. j \in Live /\ Running' = Running
    BY <1>2 DEF AcquireRefused, Running
  <2>2. Live' = Live
    BY <1>2, DropLive DEF AcquireRefused, PruneStaleQueue, Live
  <2> QED
    BY <2>1, <2>2 DEF Attempted
<1>3. CASE AcquireAtOnce(j, o, d, FALSE, FALSE)
  <2>1. Running' = Running \cup {j}
    BY <1>1, <1>3, StartRunning DEF AcquireAtOnce
  <2> QED
    BY <1>3, <2>1 DEF AcquireAtOnce, Attempted
<1>4. CASE Enqueue(j, o, d, FALSE)
  <2>1. Running' = Running
    BY <1>4 DEF Enqueue, Running
  <2>2. Live' = Live \cup {j}
    BY <1>1, <1>4, PushLive DEF Enqueue
  <2> QED
    BY <2>1, <2>2 DEF Attempted
<1>5. CASE AcquireFromFront(j, o, FALSE, FALSE)
  <2>1. tickets[j].workers \in Nat /\ tickets[j].owner \in Owners
    BY <1>5, WaitingTicket, LiveIsWaiting DEF AcquireFromFront
  <2>2. Running' = Running \cup {j}
    BY <1>5, <2>1, StartRunning DEF AcquireFromFront
  <2>3. Live' = Live \ ((Stale \cup {j}) \cup Stale)
    BY <1>5, DropLive DEF AcquireFromFront
  <2> QED
    BY <2>2, <2>3 DEF Attempted, Live
<1>6. CASE StayQueued(j, o, FALSE)
  <2>1. Running' = Running /\ j \in Live
    BY <1>6 DEF StayQueued, Running
  <2>2. Live' = Live
    BY <1>6, <2>1, TouchLive DEF StayQueued
  <2> QED
    BY <2>1, <2>2 DEF Attempted
<1> QED
  BY <1>2, <1>3, <1>4, <1>5, <1>6 DEF AcquireOrEnqueue

LEMMA TryAttempt ==
    ASSUME AdmissionTypeOK, NEW j \in Jobs, NEW o \in Owners, NEW d \in Demands,
           TryAcquire(j, o, d, FALSE, FALSE)
    PROVE  Running' \in {Running, Running \cup {j}} /\ Live' = Live
<1>1. NormalizedDemand(d) \in Nat
  BY PoolAssumption, DemandBounds
<1>2. Live' = Live
  BY DropLive DEF TryAcquire, TryAcquireRefused, TryAcquired, PruneStaleQueue, Live
<1>3. CASE TryAcquireRefused(j, d, FALSE)
  BY <1>2, <1>3 DEF TryAcquireRefused, Running
<1>4. CASE TryAcquired(j, o, d, FALSE, FALSE)
  BY <1>1, <1>2, <1>4, StartRunning DEF TryAcquired
<1> QED
  BY <1>3, <1>4 DEF TryAcquire

LEMMA EvictLive ==
    ASSUME AdmissionTypeOK, NEW j \in Jobs, Evict({j}, {j})
    PROVE  Running' = Running /\ Live' = Live \ {j}
<1>1. Running' = Running
  BY FlagsRunning DEF Evict
<1>2. Live' = Live \ ({j} \cup Stale)
  BY DropLive DEF Evict
<1> QED
  BY <1>1, <1>2 DEF Live

\* A tick takes the ticket of nobody who polls within the lease.
LEMMA TickLive ==
    ASSUME AdmissionTypeOK, Tick, NEW j \in Live, caller[j] = "polling"
    PROVE  j \in Live'
<1>1. tickets[j] \in Ticket /\ tickets[j].age \in Nat /\ tickets[j].age < QueueLease
  BY AbsentTicket, WaitingTicket, LiveIsWaiting DEF Tick
<1>2. tickets'[j] = [tickets[j] EXCEPT !.age = @ + 1]
  BY LiveIsWaiting DEF Tick, AgeTickets
<1>3. tickets'[j].age = tickets[j].age + 1 /\ tickets'[j] \in Ticket
  BY <1>1, <1>2 DEF Ticket
<1>4. tickets'[j] # NoTicket /\ ~(tickets'[j].age > QueueLease)
  BY <1>1, <1>3, PoolAssumption, AbsentAssumption
<1> QED
  BY <1>4, LiveIsWaiting DEF Live, Stale, Waiting

-----------------------------------------------------------------------------
(* What a caller does is what SolverAdmission lets any caller do            *)

LEMMA ClientIsAdmission ==
    ASSUME ClientInv, [ClientNext]_clientVars
    PROVE  [AdmissionNext]_admissionVars
<1>1. ASSUME NEW j \in Jobs, NEW o \in Owners, NEW d \in Demands, Submit(j, o, d) \/ TryOnce(j, o, d)
      PROVE  AdmissionNext
  <2>1. AcquireOrEnqueue(j, o, d, FALSE, FALSE) \/ TryAcquire(j, o, d, FALSE, FALSE)
    BY <1>1 DEF Submit, TryOnce
  <2> QED
    BY <2>1 DEF AdmissionNext
<1>2. ASSUME NEW j \in Jobs, NEW o \in Owners, Poll(j, o) PROVE AdmissionNext
  <2>1. wanted[j] \in Demands /\ AcquireOrEnqueue(j, o, wanted[j], FALSE, FALSE)
    BY <1>2 DEF Poll, ClientInv
  <2> QED
    BY <2>1 DEF AdmissionNext
<1>3. ASSUME NEW j \in Jobs, Finish(j) PROVE AdmissionNext
  BY <1>3 DEF Finish, AdmissionNext
<1>4. ASSUME NEW j \in Jobs, Vanish(j) PROVE UNCHANGED admissionVars
  BY <1>4 DEF Vanish, admissionVars
<1>5. ASSUME NEW j \in Jobs, Withdraw(j) PROVE AdmissionNext
  <2>1. {j} \in SUBSET Jobs /\ Evict({j}, {j})
    BY <1>5 DEF Withdraw
  <2> QED
    BY <2>1 DEF AdmissionNext
<1>6. CASE Tick
  BY <1>6 DEF Tick, AdmissionNext
<1>7. CASE UNCHANGED clientVars
  BY <1>7 DEF clientVars, admissionVars
<1> QED
  BY <1>1, <1>2, <1>3, <1>4, <1>5, <1>6, <1>7 DEF ClientNext

-----------------------------------------------------------------------------
(* The callers' invariant                                                   *)

\* An attempt of a caller that was idle or polling, whose new state says what
\* the attempt left.
LEMMA AttemptKeeps ==
    ASSUME ClientInv, NEW j \in Jobs, caller[j] # "running", Attempted(j), AfterAcquire(j)
    PROVE  caller' \in [Jobs -> Callers] /\ PollersHoldTickets'
<1>1. \A i \in Jobs : caller'[i] = IF i # j THEN caller[i]
                                   ELSE IF j \in Running' THEN "running" ELSE "polling"
  BY DEF AfterAcquire, ClientInv
<1>2. j \notin Running
  BY DEF ClientInv, PollersHoldTickets
<1>3. caller' \in [Jobs -> Callers]
  BY DEF AfterAcquire, ClientInv, Callers
<1>4. ASSUME NEW i \in Jobs
      PROVE  (caller'[i] = "polling" => i \in Live') /\ (caller'[i] = "running" <=> i \in Running')
  <2>1. CASE i = j
    BY <1>1, <2>1 DEF Attempted
  <2>2. CASE i # j
    BY <1>1, <2>2 DEF Attempted, ClientInv, PollersHoldTickets
  <2> QED
    BY <2>1, <2>2
<1> QED
  BY <1>3, <1>4 DEF PollersHoldTickets

LEMMA ClientStep ==
    ASSUME ClientInv, [ClientNext]_clientVars
    PROVE  ClientInv'
<1>1. AdmissionTypeOK /\ AdmissionTypeOK'
  BY ClientIsAdmission, AdmissionTypeStep DEF ClientInv
<1>2. Demands \subseteq Nat
  BY PoolAssumption
<1> DEFINE Rest == /\ caller' \in [Jobs -> Callers]
                   /\ wanted' \in [Jobs -> Nat]
                   /\ \A j \in Jobs : caller'[j] = "polling" => wanted'[j] \in Demands
                   /\ PollersHoldTickets'
<1>3. ASSUME NEW j \in Jobs, NEW o \in Owners, NEW d \in Demands, Submit(j, o, d) PROVE Rest
  <2>1. caller[j] = "idle" /\ j \notin Running
    BY <1>3 DEF Submit, ClientInv, PollersHoldTickets
  <2>2. caller' \in [Jobs -> Callers] /\ PollersHoldTickets'
    BY <1>1, <1>3, <2>1, AcquireAttempt, AttemptKeeps DEF Submit
  <2>3. wanted' = [wanted EXCEPT ![j] = d] /\ \A i \in Jobs \ {j} : caller'[i] = caller[i]
    BY <1>3 DEF Submit, AfterAcquire, ClientInv
  <2> QED
    BY <1>2, <2>2, <2>3 DEF ClientInv
<1>4. ASSUME NEW j \in Jobs, NEW o \in Owners, Poll(j, o) PROVE Rest
  <2>1. caller[j] = "polling" /\ j \notin Running /\ wanted[j] \in Demands
    BY <1>4 DEF Poll, ClientInv, PollersHoldTickets
  <2>2. caller' \in [Jobs -> Callers] /\ PollersHoldTickets'
    BY <1>1, <1>4, <2>1, AcquireAttempt, AttemptKeeps DEF Poll
  <2>3. wanted' = wanted /\ \A i \in Jobs \ {j} : caller'[i] = caller[i]
    BY <1>4 DEF Poll, AfterAcquire, ClientInv
  <2> QED
    BY <2>1, <2>2, <2>3 DEF ClientInv
<1>5. ASSUME NEW j \in Jobs, NEW o \in Owners, NEW d \in Demands, TryOnce(j, o, d) PROVE Rest
  <2>1. Running' \in {Running, Running \cup {j}} /\ Live' = Live
    BY <1>1, <1>5, TryAttempt DEF TryOnce
  <2>2. \A i \in Jobs : caller'[i] = IF i # j THEN caller[i]
                                     ELSE IF j \in Running' THEN "running" ELSE "idle"
    BY <1>5 DEF TryOnce, ClientInv
  <2>3. j \notin Running
    BY <1>5 DEF TryOnce, ClientInv, PollersHoldTickets
  <2>4. PollersHoldTickets'
    BY <2>1, <2>2, <2>3 DEF PollersHoldTickets, ClientInv
  <2>5. caller' \in [Jobs -> Callers] /\ wanted' = wanted
    BY <1>5 DEF TryOnce, ClientInv, Callers
  <2> QED
    BY <2>2, <2>4, <2>5 DEF ClientInv
<1>6. ASSUME NEW j \in Jobs, caller' = [caller EXCEPT ![j] = "idle"], wanted' = wanted,
             Live \ {j} \subseteq Live', Running' = Running \ {j}
      PROVE  Rest
  <2>1. caller' \in [Jobs -> Callers] /\ \A i \in Jobs : caller'[i] = IF i = j THEN "idle" ELSE caller[i]
    BY <1>6 DEF ClientInv, Callers
  <2> QED
    BY <1>6, <2>1 DEF ClientInv, PollersHoldTickets
<1>7. ASSUME NEW j \in Jobs, Finish(j) PROVE Rest
  <2>1. Running' = Running \ {j} /\ Live' = Live
    BY <1>7 DEF Finish, ReleaseSlot, Running, Live, Stale, Waiting, ClientInv, AdmissionTypeOK
  <2> QED
    BY <1>6, <1>7, <2>1 DEF Finish
<1>8. ASSUME NEW j \in Jobs, Vanish(j) PROVE Rest
  <2>1. Running' = Running /\ Live' = Live
    BY <1>8 DEF Vanish, Running, Live, Stale, Waiting
  <2>2. j \notin Running
    BY <1>8 DEF Vanish, ClientInv, PollersHoldTickets
  <2> QED
    BY <1>6, <1>8, <2>1, <2>2 DEF Vanish
<1>9. ASSUME NEW j \in Jobs, Withdraw(j) PROVE Rest
  <2>1. Running' = Running /\ Live' = Live \ {j}
    BY <1>1, <1>9, EvictLive DEF Withdraw
  <2>2. j \notin Running
    BY <1>9 DEF Withdraw, ClientInv, PollersHoldTickets
  <2> QED
    BY <1>6, <1>9, <2>1, <2>2 DEF Withdraw
<1>10. ASSUME Tick PROVE Rest
  <2>1. caller' = caller /\ wanted' = wanted /\ Running' = Running
    BY <1>10 DEF Tick, AgeTickets, Running
  <2>2. \A j \in Jobs : caller[j] = "polling" => j \in Live'
    BY <1>1, <1>10, TickLive DEF ClientInv, PollersHoldTickets
  <2> QED
    BY <2>1, <2>2 DEF ClientInv, PollersHoldTickets
<1>11. ASSUME UNCHANGED clientVars PROVE Rest
  <2>1. caller' = caller /\ wanted' = wanted /\ Running' = Running /\ Live' = Live
    BY <1>11 DEF clientVars, Running, Live, Stale, Waiting
  <2> QED
    BY <2>1 DEF ClientInv, PollersHoldTickets
<1>12. Rest
  BY <1>3, <1>4, <1>5, <1>7, <1>8, <1>9, <1>10, <1>11 DEF ClientNext
<1> QED
  BY <1>1, <1>12 DEF ClientInv

LEMMA ClientInitSound == ClientInit => ClientInv
<1> SUFFICES ASSUME ClientInit PROVE ClientInv
  OBVIOUS
<1>1. AdmissionTypeOK
  BY DEF ClientInit, AdmissionInit, AdmissionTypeOK
<1>2. Running = {} /\ Live = {}
  BY DEF ClientInit, AdmissionInit, Running, Live, Waiting
<1> QED
  BY <1>1, <1>2 DEF ClientInit, ClientInv, Callers, PollersHoldTickets

LEMMA ClientSoundness == ClientSpec => []ClientInv
<1>1. ClientInv /\ [ClientNext]_clientVars => ClientInv'
  BY ClientStep
<1> QED
  BY <1>1, ClientInitSound, PTL DEF ClientSpec

\* With its callers the queue is still the queue of SolverAdmission: first come, first
\* served, the capacities and the line hold whatever the callers do.
THEOREM CallersUseAdmission == ClientSpec => AdmissionSpec
<1>1. ClientInit => AdmissionInit
  BY DEF ClientInit
<1>2. ClientInv /\ [ClientNext]_clientVars => [AdmissionNext]_admissionVars
  BY ClientIsAdmission
<1> QED
  BY <1>1, <1>2, ClientSoundness, PTL DEF ClientSpec, AdmissionSpec

\* A caller that still polls keeps its ticket and its place, and says "running" exactly
\* while its child runs: prune_stale_queue never takes the place of someone who polls.
THEOREM PollersKeepPlaces == ClientSpec => []PollersHoldTickets
<1>1. ClientInv => PollersHoldTickets
  BY DEF ClientInv
<1> QED
  BY <1>1, ClientSoundness, PTL
=============================================================================
