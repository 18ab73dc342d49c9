-------------------------- MODULE ServerJobsRefine --------------------------
(***************************************************************************)
(* The canonical jobs of the pool implement CanonicalJob: the term of a    *)
(* job is its execution generation, its holder the executor of its phase.  *)
(***************************************************************************)
EXTENDS ServerJobs

HolderOf(phase) ==
    IF phase = "handoff_to_agent" THEN "handover"
    ELSE IF ExecutorOf(phase) = None THEN "nobody"
    ELSE ExecutorOf(phase)

DeskOf(job) ==
    [state  |-> IF job.response # None THEN "answered"
                ELSE IF job.cancel THEN "cancelled" ELSE "open",
     holder |-> HolderOf(job.phase),
     term   |-> job.generation,
     answer |-> IF job.response = None THEN None
                ELSE <<job.response.generation, job.response.executor>>]

NoDesk == [state |-> "absent", holder |-> "nobody", term |-> 0, answer |-> None]

Promise ==
    INSTANCE CanonicalJob
    WITH desk <- [j \in Jobs |-> IF serverJobs[j] = NoJob THEN NoDesk ELSE DeskOf(serverJobs[j])]

\* The pool keeps the promise: along every route a job takes between its executors, the
\* term rises when it is lost, and only the holder of the present term answers, once
\* (the generation handling of all the methods of the pool together).
ImplementsPromise == Promise!Spec
=============================================================================
