------------------------ MODULE SolverAdmissionProofs ------------------------
(***************************************************************************)
(* What SolverAdmission guarantees for every number of requests, every     *)
(* machine and every lease: its maps are well formed, the children that    *)
(* run never hold more than the machine has, the queue is a line, and      *)
(* nobody overtakes.                                                       *)
(***************************************************************************)
EXTENDS SolverAdmission, FiniteSetTheorems, TLAPS

\* Clamping a demand yields a number of workers the pool can grant.
LEMMA DemandBounds ==
    ASSUME NEW d \in Nat
    PROVE  /\ NormalizedDemand(d) \in Nat
           /\ MinWorkers <= NormalizedDemand(d)
           /\ NormalizedDemand(d) <= MaxWorkers
BY PoolAssumption DEF NormalizedDemand

-----------------------------------------------------------------------------
(* Each operation preserves the shape of the three maps.                    *)

LEMMA StartSlotType ==
    ASSUME AdmissionTypeOK, NEW j \in Jobs, NEW o \in Owners, NEW d \in Nat, NEW stop \in BOOLEAN,
           StartSlot(j, o, d, stop)
    PROVE  slots' \in [Jobs -> Slot \cup {NoSlot}]
BY DEF AdmissionTypeOK, StartSlot, Slot

LEMMA DropTicketsType ==
    ASSUME AdmissionTypeOK, NEW js, DropTickets(js)
    PROVE  /\ tickets' \in [Jobs -> Ticket \cup {NoTicket}]
           /\ ahead' \in SUBSET (Jobs \X Jobs)
BY DEF AdmissionTypeOK, DropTickets

LEMMA TouchTicketType ==
    ASSUME AdmissionTypeOK, NEW j \in Live, TouchTicket(j)
    PROVE  /\ tickets' \in [Jobs -> Ticket \cup {NoTicket}]
           /\ ahead' \in SUBSET (Jobs \X Jobs)
<1>1. [tickets[j] EXCEPT !.age = 0] \in Ticket
  BY DEF AdmissionTypeOK, Live, Waiting, Ticket
<1> QED
  BY <1>1 DEF AdmissionTypeOK, TouchTicket

LEMMA PushBackType ==
    ASSUME AdmissionTypeOK, NEW j \in Jobs, NEW o \in Owners, NEW d \in Nat, PushBack(j, o, d)
    PROVE  /\ tickets' \in [Jobs -> Ticket \cup {NoTicket}]
           /\ ahead' \in SUBSET (Jobs \X Jobs)
<1>1. [workers |-> d, age |-> 0, owner |-> o] \in Ticket
  BY DEF Ticket
<1>2. Live \subseteq Jobs
  BY DEF Live, Waiting
<1>3. tickets' \in [Jobs -> Ticket \cup {NoTicket}]
  BY <1>1 DEF AdmissionTypeOK, PushBack
<1>4. ahead' \in SUBSET (Jobs \X Jobs)
  BY <1>2 DEF AdmissionTypeOK, PushBack
<1> QED
  BY <1>3, <1>4

LEMMA FlagsType ==
    ASSUME AdmissionTypeOK, NEW js, FlagCancel(js) \/ FlagStop(js)
    PROVE  slots' \in [Jobs -> Slot \cup {NoSlot}]
<1>1. \A j \in Running : /\ [slots[j] EXCEPT !.cancel = TRUE] \in Slot
                         /\ [slots[j] EXCEPT !.stop = TRUE] \in Slot
  BY DEF AdmissionTypeOK, Running, Slot
<1>2. CASE FlagCancel(js)
  BY <1>1, <1>2 DEF AdmissionTypeOK, FlagCancel
<1>3. CASE FlagStop(js)
  BY <1>1, <1>3 DEF AdmissionTypeOK, FlagStop
<1> QED
  BY <1>2, <1>3

LEMMA WaitingTicket ==
    ASSUME AdmissionTypeOK, NEW j \in Waiting
    PROVE  /\ tickets[j].workers \in Nat
           /\ tickets[j].owner \in Owners
           /\ tickets[j].age \in Nat
BY DEF AdmissionTypeOK, Waiting, Ticket

LEMMA LiveIsWaiting == Live \subseteq Waiting /\ Waiting \subseteq Jobs
BY DEF Live, Waiting

LEMMA AdmissionTypeStep ==
    ASSUME AdmissionTypeOK, [AdmissionNext]_admissionVars
    PROVE  AdmissionTypeOK'
<1> USE DEF AdmissionTypeOK
<1>1. ASSUME NEW j \in Jobs, NEW o \in Owners, NEW d \in Demands, NEW blocked \in BOOLEAN,
             NEW stop \in BOOLEAN, AcquireOrEnqueue(j, o, d, blocked, stop)
      PROVE  AdmissionTypeOK'
  <2>1. d \in Nat /\ NormalizedDemand(d) \in Nat
    BY PoolAssumption, DemandBounds
  <2>2. CASE AcquireRefused(j, o, blocked)
    BY <2>2, DropTicketsType DEF AcquireRefused, PruneStaleQueue
  <2>3. CASE AcquireAtOnce(j, o, d, blocked, stop)
    BY <2>1, <2>3, DropTicketsType, StartSlotType DEF AcquireAtOnce, PruneStaleQueue
  <2>4. CASE Enqueue(j, o, d, blocked)
    BY <2>1, <2>4, PushBackType DEF Enqueue
  <2>5. CASE AcquireFromFront(j, o, blocked, stop)
    <3>1. tickets[j].workers \in Nat /\ tickets[j].owner \in Owners
      BY <2>5, WaitingTicket, LiveIsWaiting DEF AcquireFromFront
    <3> QED
      BY <2>5, <3>1, DropTicketsType, StartSlotType DEF AcquireFromFront
  <2>6. CASE StayQueued(j, o, blocked)
    BY <2>6, TouchTicketType DEF StayQueued
  <2> QED
    BY <1>1, <2>2, <2>3, <2>4, <2>5, <2>6 DEF AcquireOrEnqueue
<1>2. ASSUME NEW j \in Jobs, NEW o \in Owners, NEW d \in Demands, NEW blocked \in BOOLEAN,
             NEW stop \in BOOLEAN, TryAcquire(j, o, d, blocked, stop)
      PROVE  AdmissionTypeOK'
  <2>1. d \in Nat /\ NormalizedDemand(d) \in Nat
    BY PoolAssumption, DemandBounds
  <2>2. CASE TryAcquireRefused(j, d, blocked)
    BY <2>2, DropTicketsType DEF TryAcquireRefused, PruneStaleQueue
  <2>3. CASE TryAcquired(j, o, d, blocked, stop)
    BY <2>1, <2>3, DropTicketsType, StartSlotType DEF TryAcquired, PruneStaleQueue
  <2> QED
    BY <1>2, <2>2, <2>3 DEF TryAcquire
<1>3. ASSUME NEW j \in Jobs, ReleaseSlot(j)
      PROVE  AdmissionTypeOK'
  BY <1>3 DEF ReleaseSlot
<1>4. ASSUME NEW j \in Jobs, NEW o \in Owners, TouchQueued(j, o)
      PROVE  AdmissionTypeOK'
  BY <1>4, TouchTicketType, DropTicketsType DEF TouchQueued, PruneStaleQueue
<1>5. ASSUME NEW queued \in SUBSET Jobs, NEW running \in SUBSET Jobs, Evict(queued, running)
      PROVE  AdmissionTypeOK'
  BY <1>5, DropTicketsType, FlagsType DEF Evict
<1>6. ASSUME NEW js \in SUBSET Jobs, RequestStop(js)
      PROVE  AdmissionTypeOK'
  BY <1>6, FlagsType DEF RequestStop
<1>7. CASE PruneStaleQueue /\ UNCHANGED slots
  BY <1>7, DropTicketsType DEF PruneStaleQueue
<1>8. CASE AgeTickets
  <2>1. \A j \in Live : [tickets[j] EXCEPT !.age = @ + 1] \in Ticket
    BY WaitingTicket, LiveIsWaiting DEF Live, Waiting, Ticket
  <2> QED
    BY <1>8, <2>1 DEF AgeTickets
<1>9. CASE UNCHANGED admissionVars
  BY <1>9 DEF admissionVars
<1> HIDE DEF AdmissionTypeOK
<1> QED
  BY <1>1, <1>2, <1>3, <1>4, <1>5, <1>6, <1>7, <1>8, <1>9 DEF AdmissionNext

\* The maps of the pool stay well formed under every order of its methods.
THEOREM AdmissionTyping == AdmissionSpec => []AdmissionTypeOK
<1>1. AdmissionInit => AdmissionTypeOK
  BY DEF AdmissionInit, AdmissionTypeOK
<1>2. AdmissionTypeOK /\ [AdmissionNext]_admissionVars => AdmissionTypeOK'
  BY AdmissionTypeStep
<1> QED
  BY <1>1, <1>2, PTL DEF AdmissionSpec

-----------------------------------------------------------------------------
(* Capacity.  The tokens of different children are different pairs, so a    *)
(* child that starts adds exactly its demand to the allocated tokens.       *)

LEMMA RunningFinite ==
    ASSUME AdmissionTypeOK
    PROVE  /\ IsFiniteSet(Running)
           /\ \A j \in Running : /\ IsFiniteSet(TokensOf(j))
                                 /\ slots[j].workers \in Nat
           /\ IsFiniteSet(HeldTokens)
           /\ AllocatedWorkers \in Nat
           /\ Cardinality(Running) \in Nat
<1>1. IsFiniteSet(Running)
  BY JobsAssumption, FS_Subset DEF Running
<1>2. ASSUME NEW j \in Running
      PROVE  IsFiniteSet(TokensOf(j)) /\ slots[j].workers \in Nat
  <2>1. slots[j].workers \in Nat
    BY DEF AdmissionTypeOK, Running, Slot
  <2>2. IsFiniteSet({j})
    BY FS_Singleton
  <2>3. IsFiniteSet(1 .. slots[j].workers)
    BY <2>1, FS_Interval
  <2> QED
    BY <2>1, <2>2, <2>3, FS_Product DEF TokensOf
<1>3. IsFiniteSet({TokensOf(j) : j \in Running})
  <2> DEFINE sets == {TokensOf(j) : j \in Running}
  <2>1. [j \in Running |-> TokensOf(j)] \in Surjection(Running, sets)
    BY DEF Surjection
  <2> HIDE DEF sets
  <2>2. IsFiniteSet(sets)
    BY <1>1, <2>1, FS_Surjection
  <2> QED
    BY <2>2 DEF sets
<1>4. IsFiniteSet(HeldTokens)
  BY <1>2, <1>3, FS_UNION DEF HeldTokens
<1> QED
  BY <1>1, <1>2, <1>4, FS_CardinalityType DEF AllocatedWorkers

\* No new child and the same workers for every old one: capacity is kept.
LEMMA ShrinkKeepsCapacity ==
    ASSUME AdmissionTypeOK, NoOversubscription,
           \A i \in Running' : i \in Running /\ slots'[i].workers = slots[i].workers
    PROVE  NoOversubscription'
<1>1. Running' \subseteq Running /\ HeldTokens' \subseteq HeldTokens
  BY DEF HeldTokens, TokensOf
<1>2. /\ Cardinality(Running') <= Cardinality(Running)
      /\ Cardinality(HeldTokens') <= Cardinality(HeldTokens)
      /\ Cardinality(Running') \in Nat
      /\ Cardinality(HeldTokens') \in Nat
  BY <1>1, RunningFinite, FS_Subset, FS_CardinalityType
<1> QED
  BY <1>2, RunningFinite, PoolAssumption DEF NoOversubscription, AllocatedWorkers

\* A child that starts where HasRoom holds stays within both limits.
LEMMA StartKeepsCapacity ==
    ASSUME AdmissionTypeOK, NoOversubscription,
           NEW j \in Jobs, j \notin Running, NEW o \in Owners, NEW d \in Nat, NEW stop \in BOOLEAN,
           HasRoom(d), StartSlot(j, o, d, stop)
    PROVE  NoOversubscription'
<1> DEFINE added == {j} \X (1 .. d)
<1>1. slots'[j] = [workers |-> d, cancel |-> FALSE, stop |-> stop, owner |-> o]
  BY DEF AdmissionTypeOK, StartSlot
<1>2. slots'[j] \in Slot
  BY <1>1 DEF Slot
<1>3. \A i \in Jobs \ {j} : slots'[i] = slots[i]
  BY DEF AdmissionTypeOK, StartSlot
<1>4. Running' = Running \cup {j}
  BY <1>2, <1>3, AbsentAssumption DEF Running
<1>5. HeldTokens' = HeldTokens \cup added
  <2>1. TokensOf(j)' = added
    BY <1>1 DEF TokensOf
  <2>2. \A i \in Running : TokensOf(i)' = TokensOf(i)
    BY <1>3 DEF TokensOf, Running
  <2> QED
    BY <1>4, <2>1, <2>2 DEF HeldTokens
<1>6. IsFiniteSet(added) /\ Cardinality(added) = d
  <2>1. IsFiniteSet({j}) /\ Cardinality({j}) = 1
    BY FS_Singleton
  <2>2. IsFiniteSet(1 .. d) /\ Cardinality(1 .. d) = d
    BY FS_Interval
  <2> QED
    BY <2>1, <2>2, FS_Product
<1>7. HeldTokens \cap added = {}
  <2>1. ASSUME NEW p \in HeldTokens, p \in added
        PROVE  FALSE
    <3>1. PICK i \in Running : p \in TokensOf(i)
      BY DEF HeldTokens
    <3>2. p[1] = i /\ p[1] = j
      BY <2>1, <3>1 DEF TokensOf
    <3> QED
      BY <3>2
  <2> QED
    BY <2>1
<1>8. Cardinality(HeldTokens') = Cardinality(HeldTokens) + d
  <2> HIDE DEF added
  <2>1. IsFiniteSet(HeldTokens) /\ Cardinality(HeldTokens) \in Nat
    BY RunningFinite, FS_CardinalityType
  <2>2. Cardinality(HeldTokens \cup added) =
           Cardinality(HeldTokens) + Cardinality(added) - Cardinality(HeldTokens \cap added)
    BY <1>6, <2>1, FS_Union
  <2>3. Cardinality(HeldTokens \cap added) = 0
    BY <1>7, FS_EmptySet
  <2> QED
    BY <1>5, <1>6, <2>1, <2>2, <2>3
<1>9. Cardinality(Running') = Cardinality(Running) + 1
  BY <1>4, RunningFinite, FS_AddElement
<1> QED
  BY <1>8, <1>9, RunningFinite, PoolAssumption DEF NoOversubscription, AllocatedWorkers, HasRoom

LEMMA SameSlotsKeepCapacity ==
    ASSUME AdmissionTypeOK, NoOversubscription, UNCHANGED slots
    PROVE  NoOversubscription'
BY ShrinkKeepsCapacity DEF Running

LEMMA FlagsKeepCapacity ==
    ASSUME AdmissionTypeOK, NoOversubscription, NEW js, FlagCancel(js) \/ FlagStop(js)
    PROVE  NoOversubscription'
<1>1. ASSUME NEW i \in Running'
      PROVE  i \in Running /\ slots'[i].workers = slots[i].workers
  <2>1. CASE FlagCancel(js)
    BY <1>1, <2>1 DEF Running, FlagCancel, AdmissionTypeOK, Slot
  <2>2. CASE FlagStop(js)
    BY <1>1, <2>2 DEF Running, FlagStop, AdmissionTypeOK, Slot
  <2> QED
    BY <2>1, <2>2
<1> QED
  BY <1>1, ShrinkKeepsCapacity

LEMMA CapacityStep ==
    ASSUME AdmissionTypeOK, NoOversubscription, [AdmissionNext]_admissionVars
    PROVE  NoOversubscription'
<1>1. ASSUME NEW j \in Jobs, NEW o \in Owners, NEW d \in Demands, NEW blocked \in BOOLEAN,
             NEW stop \in BOOLEAN, AcquireOrEnqueue(j, o, d, blocked, stop)
      PROVE  NoOversubscription'
  <2>1. NormalizedDemand(d) \in Nat
    BY PoolAssumption, DemandBounds
  <2>2. CASE AcquireRefused(j, o, blocked) \/ Enqueue(j, o, d, blocked) \/ StayQueued(j, o, blocked)
    BY <2>2, SameSlotsKeepCapacity DEF AcquireRefused, Enqueue, StayQueued
  <2>3. CASE AcquireAtOnce(j, o, d, blocked, stop)
    BY <2>1, <2>3, StartKeepsCapacity DEF AcquireAtOnce, MayAcquire
  <2>4. CASE AcquireFromFront(j, o, blocked, stop)
    <3>1. tickets[j].workers \in Nat /\ tickets[j].owner \in Owners
      BY <2>4, WaitingTicket, LiveIsWaiting DEF AcquireFromFront
    <3> QED
      BY <2>4, <3>1, StartKeepsCapacity DEF AcquireFromFront, MayAcquire
  <2> QED
    BY <1>1, <2>2, <2>3, <2>4 DEF AcquireOrEnqueue
<1>2. ASSUME NEW j \in Jobs, NEW o \in Owners, NEW d \in Demands, NEW blocked \in BOOLEAN,
             NEW stop \in BOOLEAN, TryAcquire(j, o, d, blocked, stop)
      PROVE  NoOversubscription'
  <2>1. NormalizedDemand(d) \in Nat
    BY PoolAssumption, DemandBounds
  <2>2. CASE TryAcquireRefused(j, d, blocked)
    BY <2>2, SameSlotsKeepCapacity DEF TryAcquireRefused
  <2>3. CASE TryAcquired(j, o, d, blocked, stop)
    BY <2>1, <2>3, StartKeepsCapacity DEF TryAcquired
  <2> QED
    BY <1>2, <2>2, <2>3 DEF TryAcquire
<1>3. ASSUME NEW j \in Jobs, ReleaseSlot(j)
      PROVE  NoOversubscription'
  <2>1. \A i \in Running' : i \in Running /\ slots'[i] = slots[i]
    BY <1>3 DEF ReleaseSlot, Running, AdmissionTypeOK
  <2> QED
    BY <2>1, ShrinkKeepsCapacity
<1>4. ASSUME NEW j \in Jobs, NEW o \in Owners, TouchQueued(j, o)
      PROVE  NoOversubscription'
  BY <1>4, SameSlotsKeepCapacity DEF TouchQueued
<1>5. ASSUME NEW queued \in SUBSET Jobs, NEW running \in SUBSET Jobs, Evict(queued, running)
      PROVE  NoOversubscription'
  BY <1>5, FlagsKeepCapacity DEF Evict
<1>6. ASSUME NEW js \in SUBSET Jobs, RequestStop(js)
      PROVE  NoOversubscription'
  BY <1>6, FlagsKeepCapacity DEF RequestStop
<1>7. CASE (PruneStaleQueue /\ UNCHANGED slots) \/ AgeTickets \/ UNCHANGED admissionVars
  BY <1>7, SameSlotsKeepCapacity DEF AgeTickets, admissionVars
<1> QED
  BY <1>1, <1>2, <1>3, <1>4, <1>5, <1>6, <1>7 DEF AdmissionNext

\* The children that run never hold more tokens than the machine has and never
\* exceed the concurrency limit, whatever the order of the pool's methods.
THEOREM AdmissionCapacity == AdmissionSpec => []NoOversubscription
<1>1. AdmissionInit => NoOversubscription
  <2> SUFFICES ASSUME AdmissionInit
               PROVE  NoOversubscription
    OBVIOUS
  <2>1. Running = {} /\ HeldTokens = {}
    BY DEF AdmissionInit, Running, HeldTokens
  <2> QED
    BY <2>1, FS_EmptySet, PoolAssumption DEF NoOversubscription, AllocatedWorkers
<1>2. AdmissionTypeOK /\ NoOversubscription /\ [AdmissionNext]_admissionVars => NoOversubscription'
  BY CapacityStep
<1> QED
  BY <1>1, <1>2, AdmissionTyping, PTL DEF AdmissionSpec

-----------------------------------------------------------------------------
(* The line.  Every operation either removes tickets, keeping the order of  *)
(* the rest, or appends one ticket behind all live ones.                    *)

LEMMA AbsentTicket ==
    ASSUME AdmissionTypeOK
    PROVE  /\ \A t \in Ticket : t # NoTicket
           /\ \A s \in Slot : s # NoSlot
           /\ \A j \in Waiting : tickets[j] \in Ticket
           /\ \A j \in Running : slots[j] \in Slot
BY AbsentAssumption DEF AdmissionTypeOK, Waiting, Running

\* Fewer tickets in the same order are still a line.
LEMMA ShorterLine ==
    ASSUME QueueIsLine, Waiting' \subseteq Waiting, Waiting' \cap Running' = {},
           ahead' = {p \in ahead : p[1] \in Waiting' /\ p[2] \in Waiting'},
           AdmissionTypeOK
    PROVE  QueueIsLine'
<1>1. \A i, j \in Jobs : <<i, j>> \in ahead' <=> /\ <<i, j>> \in ahead
                                              /\ i \in Waiting' /\ j \in Waiting'
  OBVIOUS
<1>2. Waiting \subseteq Jobs /\ Waiting' \subseteq Jobs
  BY DEF Waiting
<1>3. \A p \in ahead' : p[1] \in Waiting' /\ p[2] \in Waiting'
  OBVIOUS
<1>4. \A i, j \in Waiting' : i # j => (<<i, j>> \in ahead' <=> <<j, i>> \notin ahead')
  BY <1>1, <1>2 DEF QueueIsLine
<1>5. \A j \in Jobs : <<j, j>> \notin ahead'
  BY <1>1 DEF QueueIsLine
<1>6. \A i, j, k \in Waiting' :
         <<i, j>> \in ahead' /\ <<j, k>> \in ahead' => <<i, k>> \in ahead'
  BY <1>1, <1>2 DEF QueueIsLine
<1> QED
  BY <1>3, <1>4, <1>5, <1>6 DEF QueueIsLine

LEMMA DropKeepsLine ==
    ASSUME AdmissionTypeOK, QueueIsLine, NEW js, DropTickets(js),
           \A j \in Running' : j \in Running \/ j \in js \/ j \notin Waiting
    PROVE  /\ QueueIsLine'
           /\ Waiting' = Waiting \ js
           /\ \A i, j \in Waiting : <<i, j>> \in ahead /\ i \notin js /\ j \notin js
                 => <<i, j>> \in ahead'
<1>1. Waiting' = Waiting \ js
  BY DEF DropTickets, Waiting
<1>2. ahead' = {p \in ahead : p[1] \in Waiting' /\ p[2] \in Waiting'}
  BY <1>1 DEF DropTickets, QueueIsLine
<1>3. Waiting' \cap Running' = {}
  BY <1>1 DEF QueueIsLine
<1> QED
  BY <1>1, <1>2, <1>3, ShorterLine

LEMMA TouchKeepsLine ==
    ASSUME AdmissionTypeOK, QueueIsLine, NEW j \in Live, TouchTicket(j), UNCHANGED slots
    PROVE  /\ QueueIsLine'
           /\ \A i, k \in Live : <<i, k>> \in ahead => <<i, k>> \in ahead'
<1>1. [tickets[j] EXCEPT !.age = 0] \in Ticket
  BY AbsentTicket, LiveIsWaiting DEF Ticket
<1>2. Waiting' = Live
  BY <1>1, AbsentTicket DEF TouchTicket, Waiting, Live
<1>3. ahead' = {p \in ahead : p[1] \in Waiting' /\ p[2] \in Waiting'}
  BY <1>2 DEF TouchTicket, QueueIsLine, Live
<1>4. Waiting' \cap Running' = {}
  BY <1>2, LiveIsWaiting DEF QueueIsLine, Running
<1>5. QueueIsLine'
  BY <1>2, <1>3, <1>4, LiveIsWaiting, ShorterLine
<1> QED
  BY <1>2, <1>3, <1>5

LEMMA PushBackKeepsLine ==
    ASSUME AdmissionTypeOK, QueueIsLine, NEW j \in Jobs, NEW o \in Owners, NEW d \in Nat,
           j \notin Live, j \notin Running, PushBack(j, o, d), UNCHANGED slots
    PROVE  /\ QueueIsLine'
           /\ \A i, k \in Live : <<i, k>> \in ahead => <<i, k>> \in ahead'
<1>1. [workers |-> d, age |-> 0, owner |-> o] \in Ticket
  BY DEF Ticket
<1>2. Waiting' = Live \cup {j}
  BY <1>1, AbsentTicket DEF PushBack, Waiting, Live
<1>3. Live \subseteq Jobs /\ Live \subseteq Waiting
  BY LiveIsWaiting
<1>4. \A i, k \in Jobs : <<i, k>> \in ahead' <=>
         \/ <<i, k>> \in ahead /\ i \in Live /\ k \in Live
         \/ i \in Live /\ k = j
  BY DEF PushBack, QueueIsLine, Live
<1>5. \A p \in ahead' : p[1] \in Waiting' /\ p[2] \in Waiting'
  BY <1>2 DEF PushBack, QueueIsLine, Live
<1>6. \A i, k \in Waiting' : i # k => (<<i, k>> \in ahead' <=> <<k, i>> \notin ahead')
  BY <1>2, <1>3, <1>4 DEF QueueIsLine
<1>7. \A i \in Jobs : <<i, i>> \notin ahead'
  BY <1>4 DEF QueueIsLine
<1>8. \A i, k, l \in Waiting' :
         <<i, k>> \in ahead' /\ <<k, l>> \in ahead' => <<i, l>> \in ahead'
  BY <1>2, <1>3, <1>4 DEF QueueIsLine
<1>9. Waiting' \cap Running' = {}
  BY <1>2, <1>3 DEF QueueIsLine, Running
<1>10. QueueIsLine'
  BY <1>5, <1>6, <1>7, <1>8, <1>9 DEF QueueIsLine
<1> QED
  BY <1>3, <1>4, <1>10

LEMMA StartRunning ==
    ASSUME AdmissionTypeOK, NEW j \in Jobs, NEW o \in Owners, NEW d \in Nat, NEW stop \in BOOLEAN,
           StartSlot(j, o, d, stop)
    PROVE  Running' = Running \cup {j}
<1>1. [workers |-> d, cancel |-> FALSE, stop |-> stop, owner |-> o] \in Slot
  BY DEF Slot
<1> QED
  BY <1>1, AbsentTicket DEF AdmissionTypeOK, StartSlot, Running

LEMMA FlagsRunning ==
    ASSUME AdmissionTypeOK, NEW js, FlagCancel(js) \/ FlagStop(js)
    PROVE  Running' = Running
<1>1. \A j \in Running : /\ [slots[j] EXCEPT !.cancel = TRUE] \in Slot
                         /\ [slots[j] EXCEPT !.stop = TRUE] \in Slot
  BY DEF AdmissionTypeOK, Running, Slot
<1>2. CASE FlagCancel(js)
  BY <1>1, <1>2, AbsentTicket DEF Running, FlagCancel
<1>3. CASE FlagStop(js)
  BY <1>1, <1>3, AbsentTicket DEF Running, FlagStop
<1> QED
  BY <1>2, <1>3

PlaceStep == \A i, j \in Live : (<<i, j>> \in ahead /\ i \in Waiting' /\ j \in Waiting') =>
                <<i, j>> \in ahead'

OvertakingStep == \A j \in Jobs : (j \notin Running /\ j \in Running') =>
                     \A i \in Live \ {j} : <<j, i>> \in ahead

LEMMA DropLine ==
    ASSUME AdmissionTypeOK, QueueIsLine, NEW js, DropTickets(js), Running' \subseteq Running \cup js
    PROVE  QueueIsLine' /\ PlaceStep
<1>1. \A j \in Running' : j \in Running \/ j \in js \/ j \notin Waiting
  OBVIOUS
<1> QED
  BY <1>1, DropKeepsLine, LiveIsWaiting DEF PlaceStep

\* One step of the pool keeps the line, keeps the places of those who stay in
\* it, and starts nobody before a request ahead of it.
LEMMA LineStep ==
    ASSUME AdmissionTypeOK, QueueIsLine, [AdmissionNext]_admissionVars
    PROVE  QueueIsLine' /\ PlaceStep /\ OvertakingStep
<1>1. ASSUME NEW j \in Jobs, NEW o \in Owners, NEW d \in Demands, NEW blocked \in BOOLEAN,
             NEW stop \in BOOLEAN, AcquireOrEnqueue(j, o, d, blocked, stop)
      PROVE  QueueIsLine' /\ PlaceStep /\ OvertakingStep
  <2>1. NormalizedDemand(d) \in Nat
    BY PoolAssumption, DemandBounds
  <2>2. CASE AcquireRefused(j, o, blocked)
    <3>1. Running' = Running
      BY <2>2 DEF AcquireRefused, Running
    <3> QED
      BY <2>2, <3>1, DropLine DEF AcquireRefused, PruneStaleQueue, OvertakingStep
  <2>3. CASE AcquireAtOnce(j, o, d, blocked, stop)
    <3>1. Running' = Running \cup {j}
      BY <2>1, <2>3, StartRunning DEF AcquireAtOnce
    <3>2. \A i \in Running' : i \in Running \/ i \in Stale \/ i \notin Waiting
      BY <2>3, <3>1 DEF AcquireAtOnce, Live
    <3>3. QueueIsLine' /\ PlaceStep
      BY <2>3, <3>2, DropKeepsLine DEF AcquireAtOnce, PruneStaleQueue, PlaceStep
    <3>4. OvertakingStep
      BY <2>3 DEF AcquireAtOnce, OvertakingStep
    <3> QED
      BY <3>3, <3>4
  <2>4. CASE Enqueue(j, o, d, blocked)
    <3>1. Running' = Running
      BY <2>4 DEF Enqueue, Running
    <3>2. QueueIsLine' /\ PlaceStep
      BY <2>1, <2>4, PushBackKeepsLine DEF Enqueue, MayAcquire, PlaceStep
    <3> QED
      BY <3>1, <3>2 DEF OvertakingStep
  <2>5. CASE AcquireFromFront(j, o, blocked, stop)
    <3>1. tickets[j].workers \in Nat /\ tickets[j].owner \in Owners
      BY <2>5, WaitingTicket, LiveIsWaiting DEF AcquireFromFront
    <3>2. Running' = Running \cup {j}
      BY <2>5, <3>1, StartRunning DEF AcquireFromFront
    <3>3. QueueIsLine' /\ PlaceStep
      BY <2>5, <3>2, DropLine DEF AcquireFromFront
    <3>4. \A i \in Live \ {j} : <<j, i>> \in ahead
      BY <2>5, LiveIsWaiting DEF AcquireFromFront, AtFront, QueueIsLine
    <3> QED
      BY <3>2, <3>3, <3>4 DEF OvertakingStep
  <2>6. CASE StayQueued(j, o, blocked)
    <3>1. Running' = Running
      BY <2>6 DEF StayQueued, Running
    <3>2. QueueIsLine' /\ PlaceStep
      BY <2>6, TouchKeepsLine DEF StayQueued, PlaceStep
    <3> QED
      BY <3>1, <3>2 DEF OvertakingStep
  <2> QED
    BY <1>1, <2>2, <2>3, <2>4, <2>5, <2>6 DEF AcquireOrEnqueue
<1>2. ASSUME NEW j \in Jobs, NEW o \in Owners, NEW d \in Demands, NEW blocked \in BOOLEAN,
             NEW stop \in BOOLEAN, TryAcquire(j, o, d, blocked, stop)
      PROVE  QueueIsLine' /\ PlaceStep /\ OvertakingStep
  <2>1. NormalizedDemand(d) \in Nat
    BY PoolAssumption, DemandBounds
  <2>2. CASE TryAcquireRefused(j, d, blocked)
    <3>1. Running' = Running
      BY <2>2 DEF TryAcquireRefused, Running
    <3> QED
      BY <2>2, <3>1, DropLine DEF TryAcquireRefused, PruneStaleQueue, OvertakingStep
  <2>3. CASE TryAcquired(j, o, d, blocked, stop)
    <3>1. Running' = Running \cup {j}
      BY <2>1, <2>3, StartRunning DEF TryAcquired
    <3>2. \A i \in Running' : i \in Running \/ i \in Stale \/ i \notin Waiting
      BY <2>3, <3>1 DEF TryAcquired, Live
    <3>3. QueueIsLine' /\ PlaceStep
      BY <2>3, <3>2, DropKeepsLine DEF TryAcquired, PruneStaleQueue, PlaceStep
    <3>4. OvertakingStep
      BY <2>3 DEF TryAcquired, OvertakingStep
    <3> QED
      BY <3>3, <3>4
  <2> QED
    BY <1>2, <2>2, <2>3 DEF TryAcquire
<1>3. ASSUME NEW j \in Jobs, ReleaseSlot(j)
      PROVE  QueueIsLine' /\ PlaceStep /\ OvertakingStep
  <2>1. Running' \subseteq Running
    BY <1>3 DEF ReleaseSlot, Running, AdmissionTypeOK
  <2>2. Waiting' = Waiting
    BY <1>3 DEF ReleaseSlot, Waiting
  <2> QED
    BY <1>3, <2>1, <2>2 DEF ReleaseSlot, QueueIsLine, PlaceStep, OvertakingStep
<1>4. ASSUME NEW j \in Jobs, NEW o \in Owners, TouchQueued(j, o)
      PROVE  QueueIsLine' /\ PlaceStep /\ OvertakingStep
  <2>1. Running' = Running
    BY <1>4 DEF TouchQueued, Running
  <2>2. CASE j \in Live /\ tickets[j].owner = o
    BY <1>4, <2>1, <2>2, TouchKeepsLine DEF TouchQueued, PlaceStep, OvertakingStep
  <2>3. CASE ~(j \in Live /\ tickets[j].owner = o)
    BY <1>4, <2>1, <2>3, DropLine DEF TouchQueued, PruneStaleQueue, OvertakingStep
  <2> QED
    BY <2>2, <2>3
<1>5. ASSUME NEW queued \in SUBSET Jobs, NEW running \in SUBSET Jobs, Evict(queued, running)
      PROVE  QueueIsLine' /\ PlaceStep /\ OvertakingStep
  <2>1. Running' = Running
    BY <1>5, FlagsRunning DEF Evict
  <2> QED
    BY <1>5, <2>1, DropLine DEF Evict, OvertakingStep
<1>6. ASSUME NEW js \in SUBSET Jobs, RequestStop(js)
      PROVE  QueueIsLine' /\ PlaceStep /\ OvertakingStep
  <2>1. Running' = Running /\ Waiting' = Waiting
    BY <1>6, FlagsRunning DEF RequestStop, Waiting
  <2> QED
    BY <1>6, <2>1 DEF RequestStop, QueueIsLine, PlaceStep, OvertakingStep
<1>7. CASE PruneStaleQueue /\ UNCHANGED slots
  <2>1. Running' = Running
    BY <1>7 DEF Running
  <2> QED
    BY <1>7, <2>1, DropLine DEF PruneStaleQueue, OvertakingStep
<1>8. CASE AgeTickets
  <2>1. \A j \in Live : [tickets[j] EXCEPT !.age = @ + 1] \in Ticket
    BY WaitingTicket, AbsentTicket, LiveIsWaiting DEF Ticket
  <2>2. Waiting' = Waiting
    BY <1>8, <2>1, AbsentTicket, LiveIsWaiting DEF AgeTickets, Waiting
  <2>3. Running' = Running
    BY <1>8 DEF AgeTickets, Running
  <2> QED
    BY <1>8, <2>2, <2>3 DEF AgeTickets, QueueIsLine, PlaceStep, OvertakingStep
<1>9. CASE UNCHANGED admissionVars
  <2>1. Running' = Running /\ Waiting' = Waiting
    BY <1>9 DEF admissionVars, Running, Waiting
  <2> QED
    BY <1>9, <2>1 DEF admissionVars, QueueIsLine, PlaceStep, OvertakingStep
<1> QED
  BY <1>1, <1>2, <1>3, <1>4, <1>5, <1>6, <1>7, <1>8, <1>9 DEF AdmissionNext

LEMMA LineInit == AdmissionInit => QueueIsLine
BY DEF AdmissionInit, QueueIsLine, Waiting, Running

\* The queue is a line under every order of the pool's methods, and no request
\* waits while its child runs.
THEOREM AdmissionLine == AdmissionSpec => []QueueIsLine
<1>1. AdmissionTypeOK /\ QueueIsLine /\ [AdmissionNext]_admissionVars => QueueIsLine'
  BY LineStep
<1> QED
  BY <1>1, LineInit, AdmissionTyping, PTL DEF AdmissionSpec

\* First come, first served, for any number of requests and any demands.
THEOREM AdmissionFIFO == AdmissionSpec => NoOvertaking
<1>1. AdmissionTypeOK /\ QueueIsLine /\ [AdmissionNext]_admissionVars =>
          [\A j \in Jobs : (j \notin Running /\ j \in Running') =>
              \A i \in Live \ {j} : <<j, i>> \in ahead]_admissionVars
  BY LineStep DEF OvertakingStep
<1> QED
  BY <1>1, AdmissionTyping, AdmissionLine, PTL DEF AdmissionSpec, NoOvertaking

\* Nobody who keeps a live ticket loses a place in the line.
THEOREM AdmissionPlaces == AdmissionSpec => PlacesKept
<1>1. AdmissionTypeOK /\ QueueIsLine /\ [AdmissionNext]_admissionVars =>
          [\A i, j \in Live : (<<i, j>> \in ahead /\ i \in Waiting' /\ j \in Waiting') =>
              <<i, j>> \in ahead']_admissionVars
  BY LineStep DEF PlaceStep
<1> QED
  BY <1>1, AdmissionTyping, AdmissionLine, PTL DEF AdmissionSpec, PlacesKept
=============================================================================
