--------------------------- MODULE SolverAdmission ---------------------------
(***************************************************************************)
(* Admission to the VPS solver: the `jobs` and `queue` fields of           *)
(* SolverPoolState in rust_api/src/solver_pool.rs.  Every method of the    *)
(* pool holds its mutex from the first read to the last write, so every    *)
(* method is one action here.                                              *)
(*                                                                         *)
(* `jobs` is the map of running solver children (slots), each holding      *)
(* some of the worker tokens.  `queue` is the FIFO of waiting requests: it *)
(* is represented by the ticket of each waiting request and the relation   *)
(* `ahead` of the requests that stand before it, which is what the         *)
(* positions of the VecDeque say.  A ticket carries the time since its     *)
(* caller was last seen instead of an absolute instant.                    *)
(*                                                                         *)
(* The actions that ServerJobs and callers drive (whether the canonical    *)
(* job admits a VPS child, when a child ends, who is evicted) take their   *)
(* inputs as parameters: here they are arbitrary, in SolverPool they are   *)
(* what the rest of the pool's state says.                                 *)
(***************************************************************************)
EXTENDS SolverIds

CONSTANTS MaxConcurrent,   \* max_concurrent
          TotalTokens,     \* total_worker_tokens
          MinWorkers,      \* min_workers_per_job
          MaxWorkers,      \* max_workers_per_job
          QueueLease,      \* QUEUE_LEASE_MS, in ticks
          Demands,         \* worker counts a request may ask for
          NoSlot, NoTicket

\* from_env clamps the configuration into this order
ASSUME PoolAssumption ==
    /\ MaxConcurrent \in Nat \ {0}
    /\ TotalTokens \in Nat /\ MinWorkers \in Nat /\ MaxWorkers \in Nat
    /\ 1 <= MinWorkers /\ MinWorkers <= MaxWorkers /\ MaxWorkers <= TotalTokens
    /\ QueueLease \in Nat
    /\ Demands \subseteq Nat

Slot   == [workers : Nat, cancel : BOOLEAN, stop : BOOLEAN, owner : Owners]
Ticket == [workers : Nat, age : Nat, owner : Owners]

ASSUME AbsentAssumption == NoSlot \notin Slot /\ NoTicket \notin Ticket

VARIABLES slots,    \* the running child of a request, or NoSlot
          tickets,  \* the queue entry of a request, or NoTicket
          ahead     \* <<i, j>> : the ticket of i stands before the ticket of j

admissionVars == <<slots, tickets, ahead>>

-----------------------------------------------------------------------------
Running == {j \in Jobs : slots[j] # NoSlot}
Waiting == {j \in Jobs : tickets[j] # NoTicket}

\* Faulty variant (see PROJECT.json, mutants): a ticket goes stale one tick early.
StaleEarly == {j \in Waiting : tickets[j].age >= QueueLease}

\* tickets prune_stale_queue would drop now, and those it would keep
Stale == {j \in Waiting : tickets[j].age > QueueLease}
Live  == Waiting \ Stale

\* the worker tokens held by the running children, one pair per token
TokensOf(j) == {j} \X (1 .. slots[j].workers)
HeldTokens == UNION {TokensOf(j) : j \in Running}
AllocatedWorkers == Cardinality(HeldTokens)

\* Faulty variants: the minimum is subtracted and the count wraps below zero; the
\* maximum is forgotten.
DemandMinusMinimum(d) == IF d > MaxWorkers THEN MaxWorkers ELSE d - MinWorkers
DemandUnclamped(d)    == IF d < MinWorkers THEN MinWorkers ELSE d

NormalizedDemand(d) ==
    IF d < MinWorkers THEN MinWorkers ELSE IF d > MaxWorkers THEN MaxWorkers ELSE d

\* Faulty variant: any free token admits, however many the request wants.
HasAnyRoom(d) == Cardinality(Running) < MaxConcurrent /\ AllocatedWorkers < TotalTokens

HasRoom(d) == /\ Cardinality(Running) < MaxConcurrent
              /\ AllocatedWorkers + d <= TotalTokens

\* Faulty variant: a line per account instead of one line.
AtFrontOfAccount(j) == \A i \in Live : tickets[i].owner = tickets[j].owner => <<i, j>> \notin ahead

AtFront(j) == \A i \in Live : <<i, j>> \notin ahead

StartSlot(j, o, d, stop) ==
    slots' = [slots EXCEPT ![j] = [workers |-> d, cancel |-> FALSE, stop |-> stop, owner |-> o]]

DropTickets(js) ==
    /\ tickets' = [j \in Jobs |-> IF j \in js THEN NoTicket ELSE tickets[j]]
    /\ ahead' = {p \in ahead : p[1] \notin js /\ p[2] \notin js}

PruneStaleQueue == DropTickets(Stale)

\* Faulty variant: a poll re-queues the ticket at the back.
TouchAtBack(j) ==
    /\ tickets' = [i \in Jobs |-> IF i \in Stale THEN NoTicket
                                  ELSE IF i = j THEN [tickets[i] EXCEPT !.age = 0]
                                  ELSE tickets[i]]
    /\ ahead' = {p \in ahead : p[1] \notin Stale \cup {j} /\ p[2] \notin Stale}
                   \cup ((Live \ {j}) \X {j})

\* drop the stale tickets and let j, who is in the line, be seen again
TouchTicket(j) ==
    /\ tickets' = [i \in Jobs |-> IF i \in Stale THEN NoTicket
                                  ELSE IF i = j THEN [tickets[i] EXCEPT !.age = 0]
                                  ELSE tickets[i]]
    /\ ahead' = {p \in ahead : p[1] \notin Stale /\ p[2] \notin Stale}

\* drop the stale tickets and append a ticket for j
PushBack(j, o, d) ==
    /\ tickets' = [i \in Jobs |-> IF i = j THEN [workers |-> d, age |-> 0, owner |-> o]
                                  ELSE IF i \in Stale THEN NoTicket ELSE tickets[i]]
    /\ ahead' = {p \in ahead : p[1] \notin Stale /\ p[2] \notin Stale} \cup (Live \X {j})

-----------------------------------------------------------------------------
(* acquire_or_enqueue_for_owner.  `blocked`: the canonical job of this      *)
(* owner is cancelled or belongs to another executor.                      *)

AcquireRefused(j, o, blocked) ==
    /\ \/ blocked
       \/ j \in Running
       \/ j \in Live /\ tickets[j].owner # o
    /\ PruneStaleQueue
    /\ UNCHANGED slots

MayAcquire(j, o, blocked) ==
    /\ ~blocked
    /\ j \notin Running
    /\ j \in Live => tickets[j].owner = o

\* an empty queue and room for the demand: the child starts without a ticket
AcquireAtOnce(j, o, d, blocked, stop) ==
    /\ MayAcquire(j, o, blocked)
    /\ Live = {}
    /\ HasRoom(NormalizedDemand(d))
    /\ StartSlot(j, o, NormalizedDemand(d), stop)
    /\ PruneStaleQueue

\* a new ticket: it can only be at the front when it lacks room
Enqueue(j, o, d, blocked) ==
    /\ MayAcquire(j, o, blocked)
    /\ j \notin Live
    /\ ~(Live = {} /\ HasRoom(NormalizedDemand(d)))
    /\ PushBack(j, o, NormalizedDemand(d))
    /\ UNCHANGED slots

\* Faulty variant: the ticket of the child that starts stays in the line.
AcquireKeepingTicket(j, o, blocked, stop) ==
    /\ MayAcquire(j, o, blocked)
    /\ j \in Live
    /\ AtFront(j)
    /\ HasRoom(tickets[j].workers)
    /\ StartSlot(j, tickets[j].owner, tickets[j].workers, stop)
    /\ PruneStaleQueue

\* the front ticket starts with the demand it was queued with
AcquireFromFront(j, o, blocked, stop) ==
    /\ MayAcquire(j, o, blocked)
    /\ j \in Live
    /\ AtFront(j)
    /\ HasRoom(tickets[j].workers)
    /\ StartSlot(j, tickets[j].owner, tickets[j].workers, stop)
    /\ DropTickets(Stale \cup {j})

StayQueued(j, o, blocked) ==
    /\ MayAcquire(j, o, blocked)
    /\ j \in Live
    /\ ~(AtFront(j) /\ HasRoom(tickets[j].workers))
    /\ TouchTicket(j)
    /\ UNCHANGED slots

AcquireOrEnqueue(j, o, d, blocked, stop) ==
    \/ AcquireRefused(j, o, blocked)
    \/ AcquireAtOnce(j, o, d, blocked, stop)
    \/ Enqueue(j, o, d, blocked)
    \/ AcquireFromFront(j, o, blocked, stop)
    \/ StayQueued(j, o, blocked)

(* try_acquire_for_owner, the admission of callers that cannot queue        *)

TryAcquireRefused(j, d, blocked) ==
    /\ \/ blocked
       \/ Live # {}
       \/ j \in Running
       \/ ~HasRoom(NormalizedDemand(d))
    /\ PruneStaleQueue
    /\ UNCHANGED slots

TryAcquired(j, o, d, blocked, stop) ==
    /\ ~blocked
    /\ j \notin Running
    /\ Live = {}
    /\ HasRoom(NormalizedDemand(d))
    /\ StartSlot(j, o, NormalizedDemand(d), stop)
    /\ PruneStaleQueue

TryAcquire(j, o, d, blocked, stop) ==
    \/ TryAcquireRefused(j, d, blocked)
    \/ TryAcquired(j, o, d, blocked, stop)

\* Drop of the SolverJobGuard that owns the slot
ReleaseSlot(j) ==
    /\ j \in Running
    /\ slots' = [slots EXCEPT ![j] = NoSlot]
    /\ UNCHANGED <<tickets, ahead>>

\* touch_queued_job_for_owner, called by a status poll
TouchQueued(j, o) ==
    /\ IF j \in Live /\ tickets[j].owner = o THEN TouchTicket(j) ELSE PruneStaleQueue
    /\ UNCHANGED slots

\* the cancellation flag a running child observes
FlagCancel(js) ==
    slots' = [j \in Jobs |-> IF j \in js /\ j \in Running
                             THEN [slots[j] EXCEPT !.cancel = TRUE] ELSE slots[j]]

FlagStop(js) ==
    slots' = [j \in Jobs |-> IF j \in js /\ j \in Running
                             THEN [slots[j] EXCEPT !.stop = TRUE] ELSE slots[j]]

\* handoff, cancellation or completion takes requests out of the line and
\* tells their children to stop
Evict(queued, running) ==
    /\ DropTickets(queued)
    /\ FlagCancel(running)

RequestStop(js) ==
    /\ FlagStop(js)
    /\ UNCHANGED <<tickets, ahead>>

\* a tick; an age stops counting once it has passed the lease
AgeTickets ==
    /\ tickets' = [j \in Jobs |-> IF j \in Live
                                  THEN [tickets[j] EXCEPT !.age = @ + 1] ELSE tickets[j]]
    /\ UNCHANGED <<slots, ahead>>

-----------------------------------------------------------------------------
AdmissionInit ==
    /\ slots = [j \in Jobs |-> NoSlot]
    /\ tickets = [j \in Jobs |-> NoTicket]
    /\ ahead = {}

AdmissionNext ==
    \/ \E j \in Jobs, o \in Owners, d \in Demands, blocked, stop \in BOOLEAN :
          \/ AcquireOrEnqueue(j, o, d, blocked, stop)
          \/ TryAcquire(j, o, d, blocked, stop)
    \/ \E j \in Jobs : ReleaseSlot(j)
    \/ \E j \in Jobs, o \in Owners : TouchQueued(j, o)
    \/ \E queued, running \in SUBSET Jobs : Evict(queued, running)
    \/ \E js \in SUBSET Jobs : RequestStop(js)
    \/ PruneStaleQueue /\ UNCHANGED slots
    \/ AgeTickets

AdmissionSpec == AdmissionInit /\ [][AdmissionNext]_admissionVars

-----------------------------------------------------------------------------
\* The pool's maps hold slots and tickets, and the line only orders requests.
AdmissionTypeOK ==
    /\ slots \in [Jobs -> Slot \cup {NoSlot}]
    /\ tickets \in [Jobs -> Ticket \cup {NoTicket}]
    /\ ahead \in SUBSET (Jobs \X Jobs)

\* The children that run never hold more worker tokens than the machine has,
\* and never exceed the configured concurrency: the admission checks of
\* acquire_or_enqueue_for_owner and try_acquire_for_owner keep this under any
\* order of admissions, releases and evictions, also for a ticket admitted
\* long after its demand was computed (`debug_assert!` in insert_job).
NoOversubscription ==
    /\ Cardinality(Running) <= MaxConcurrent
    /\ AllocatedWorkers <= TotalTokens

\* The queue is a line: of two waiting requests exactly one stands ahead of
\* the other, nobody who left it is still ahead of anyone, and no request
\* waits while a child of it runs (it would be started twice).
QueueIsLine ==
    /\ \A p \in ahead : p[1] \in Waiting /\ p[2] \in Waiting
    /\ \A i, j \in Waiting : i # j => (<<i, j>> \in ahead <=> <<j, i>> \notin ahead)
    /\ \A j \in Jobs : <<j, j>> \notin ahead
    /\ \A i, j, k \in Waiting : <<i, j>> \in ahead /\ <<j, k>> \in ahead => <<i, k>> \in ahead
    /\ Waiting \cap Running = {}

\* First come, first served: a child starts only when every request still
\* holding a live ticket stands behind it.  acquire_or_enqueue_for_owner must
\* not hand free tokens to a newcomer or to a cheap request in the middle.
NoOvertaking ==
    [][\A j \in Jobs : (j \notin Running /\ j \in Running') =>
          \A i \in Live \ {j} : <<j, i>> \in ahead]_admissionVars

\* A live ticket keeps its place: between two states no live waiting request
\* moves behind another one that was after it.
PlacesKept ==
    [][\A i, j \in Live : (<<i, j>> \in ahead /\ i \in Waiting' /\ j \in Waiting') =>
          <<i, j>> \in ahead']_admissionVars
=============================================================================
