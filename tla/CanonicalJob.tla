---------------------------- MODULE CanonicalJob ----------------------------
(***************************************************************************)
(* What the pool promises of a canonical job, seen from outside: whoever   *)
(* works on it holds it for a term, losing it ends the term, and the one   *)
(* answer it ever gets comes from its holder, under the term of that day.  *)
(* ServerJobs is the detailed specification; ServerJobsRefine says how it  *)
(* implements this one.                                                    *)
(***************************************************************************)
EXTENDS Naturals

CONSTANTS Jobs, None

\* Nobody has the job yet, or it is on its way to an Agent; else its executor has it.
Holders == {"nobody", "handover", "vps", "agent", "serverless"}
Workers == {"vps", "agent", "serverless"}

\* The ways a job may go.  It goes to the cloud at first or never, and to a
\* handover from nowhere but a pending job and the VPS.
Routes == {<<"nobody", "vps">>, <<"nobody", "agent">>, <<"nobody", "serverless">>,
           <<"nobody", "handover">>, <<"vps", "handover">>,
           <<"serverless", "vps">>, <<"agent", "vps">>}

VARIABLE desk       \* [Jobs -> [state, holder, term, answer]]

Absent == [state |-> "absent", holder |-> "nobody", term |-> 0, answer |-> None]
Opened == [state |-> "open", holder |-> "nobody", term |-> 0, answer |-> None]

(***************************************************************************)
(* The steps of one job, as relations of what it was and what it becomes.  *)
(***************************************************************************)
\* An answered job may have expired just before its id is used again.
Opens(old, new) == old.state \in {"absent", "answered"} /\ new = Opened

Forgotten(old, new) == new = Absent

Moves(old, new) ==
    /\ old.state = "open"
    /\ <<old.holder, new.holder>> \in Routes
    /\ new = [state |-> "open", holder |-> new.holder, term |-> old.term + 1,
              answer |-> None]

\* The Agent a job was handed over to takes it in the term of the handover.
PicksUp(old, new) ==
    /\ old.state = "open" /\ old.holder = "handover"
    /\ new = [state |-> "open", holder |-> "agent", term |-> old.term, answer |-> None]

Answers(old, new) ==
    /\ old.state = "open" /\ old.holder \in Workers
    /\ new = [state |-> "answered", holder |-> "nobody", term |-> old.term,
              answer |-> <<old.term, old.holder>>]

Cancels(old, new) ==
    /\ old.state \in {"open", "cancelled"}
    /\ new = [state |-> "cancelled", holder |-> "nobody", term |-> old.term + 1,
              answer |-> None]

Step(old, new) ==
    \/ Opens(old, new) \/ Forgotten(old, new) \/ Moves(old, new) \/ PicksUp(old, new)
    \/ Answers(old, new) \/ Cancels(old, new)

Init == desk = [j \in Jobs |-> Absent]

\* One call may move, forget or open several jobs.
Next ==
    /\ desk' = [j \in Jobs |-> desk'[j]]
    /\ \A j \in Jobs : desk'[j] = desk[j] \/ Step(desk[j], desk'[j])

Spec == Init /\ [][Next]_desk
=============================================================================
