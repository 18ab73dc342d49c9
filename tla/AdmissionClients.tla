--------------------------- MODULE AdmissionClients ---------------------------
(***************************************************************************)
(* The callers of SolverAdmission.  A request is polled until its child    *)
(* starts, by the coordinator thread of its canonical job (every 100 ms,   *)
(* the VPS start gate of spawn_server_owned_solver in rust_api/src/main.rs)*)
(* or by a browser that repeats its POST (every QUEUE_RETRY_AFTER_MS).     *)
(* Either may disappear without a word and leave its ticket behind; other  *)
(* callers do not queue at all (try_acquire_for_owner).                    *)
(*                                                                         *)
(* One account suffices here: the line does not distinguish accounts.      *)
(***************************************************************************)
EXTENDS SolverAdmission

VARIABLES caller,   \* what the caller of a request is doing
          wanted    \* the workers it asks for

clientVars == <<slots, tickets, ahead, caller, wanted>>

AfterAcquire(j) == caller' = [caller EXCEPT ![j] = IF j \in Running' THEN "running" ELSE "polling"]

-----------------------------------------------------------------------------
\* a request arrives, or comes back while its ticket is still in the line
Submit(j, o, d) ==
    /\ caller[j] = "idle"
    /\ AcquireOrEnqueue(j, o, d, FALSE, FALSE)
    /\ AfterAcquire(j)
    /\ wanted' = [wanted EXCEPT ![j] = d]

Poll(j, o) ==
    /\ caller[j] = "polling"
    /\ AcquireOrEnqueue(j, o, wanted[j], FALSE, FALSE)
    /\ AfterAcquire(j)
    /\ UNCHANGED wanted

\* an older client takes a free machine or is refused
TryOnce(j, o, d) ==
    /\ caller[j] = "idle"
    /\ TryAcquire(j, o, d, FALSE, FALSE)
    /\ caller' = [caller EXCEPT ![j] = IF j \in Running' THEN "running" ELSE "idle"]
    /\ UNCHANGED wanted

\* the child ends: it finished, was stopped, or ran out of its deadline
Finish(j) ==
    /\ caller[j] = "running"
    /\ ReleaseSlot(j)
    /\ caller' = [caller EXCEPT ![j] = "idle"]
    /\ UNCHANGED wanted

\* the tab is closed or the thread is gone; nobody removes the ticket
Vanish(j) ==
    /\ caller[j] = "polling"
    /\ caller' = [caller EXCEPT ![j] = "idle"]
    /\ UNCHANGED <<slots, tickets, ahead, wanted>>

\* a cancellation or a handoff takes the request out of the line
Withdraw(j) ==
    /\ caller[j] = "polling"
    /\ Evict({j}, {j})
    /\ caller' = [caller EXCEPT ![j] = "idle"]
    /\ UNCHANGED wanted

\* callers that still poll do so well within the lease
Tick ==
    /\ \A j \in Live : caller[j] = "polling" => tickets[j].age < QueueLease
    /\ AgeTickets
    /\ UNCHANGED <<caller, wanted>>

-----------------------------------------------------------------------------
ClientInit ==
    /\ AdmissionInit
    /\ caller = [j \in Jobs |-> "idle"]
    /\ wanted = [j \in Jobs |-> 0]

ClientNext ==
    \/ \E j \in Jobs, o \in Owners :
          \/ \E d \in Demands : Submit(j, o, d) \/ TryOnce(j, o, d)
          \/ Poll(j, o)
    \/ \E j \in Jobs : Finish(j) \/ Vanish(j) \/ Withdraw(j)
    \/ Tick

\* Polling threads run, children end (each has a deadline), and time passes.
ClientFairness ==
    /\ \A j \in Jobs, o \in Owners : WF_clientVars(Poll(j, o))
    /\ \A j \in Jobs : WF_clientVars(Finish(j))
    /\ WF_clientVars(Tick)

ClientSpec == ClientInit /\ [][ClientNext]_clientVars /\ ClientFairness

-----------------------------------------------------------------------------
\* Callers and children agree, and a caller that still polls has its ticket:
\* its place is never given away by the pruning of stale tickets.
PollersHoldTickets ==
    \A j \in Jobs : /\ caller[j] = "polling" => j \in Live
                    /\ caller[j] = "running" <=> j \in Running

\* Whoever keeps polling is served (or leaves on its own account): neither
\* newcomers, nor callers that do not queue, nor a request that wants the whole
\* machine, nor an abandoned ticket at the front can block the line for good.
PollersServed == \A j \in Jobs : caller[j] = "polling" ~> caller[j] # "polling"
=============================================================================
