--------------------------- MODULE BridgeSolveProofs ---------------------------
(***************************************************************************)
(* What BridgeSolve guarantees for every set of run ids and every number   *)
(* of events and clicks.  A page is sound when the job it records, the     *)
(* jobs its two flows work on and the jobs it stopped fit what the server  *)
(* knows of them.  Most of a step is a chain of operations on the page     *)
(* (settle, clear, release, ...), so soundness is a predicate of a page    *)
(* and a server, each operation of the page is shown to preserve it, and   *)
(* each step of the server is shown to leave every page sound.             *)
(***************************************************************************)
EXTENDS BridgeSolve, TLAPS

FlowRecord == [pc : PCs, job : Maybe(Jobs), own : Maybe(Jobs), guard : Schedules,
               back : Schedules, watch : BOOLEAN, current : BOOLEAN, aborted : BOOLEAN, solve : BOOLEAN]

Browser ==
    [pending : Maybe(Pending), settled : SUBSET Jobs, intents : SUBSET Jobs,
     suppressed : BOOLEAN, tombstone : BOOLEAN, stored : Schedules,
     sched : Schedules, active : Maybe(Jobs), lease : Maybe(Jobs), due : BOOLEAN,
     halted : BOOLEAN, busy : BOOLEAN, resuming : BOOLEAN, run : Maybe(Flows),
     ctl : Maybe(Flows), deferred : Maybe(Jobs), savePending : Maybe(Jobs), saves : SUBSET Saves,
     sweep : {"idle", "listing", "cancelling"}, sweepJob : Maybe(Jobs), stopped : SUBSET Jobs,
     flow : [Flows -> FlowRecord]]

States == {"none", "posted", "live", "done", "failed", "gone"}
Server == [Jobs -> [state : States, fp : Schedules, cancelled : BOOLEAN]]

\* The job was posted under this schedule: the server's copy never changes again.
PostedFor(sv, j, fp) == j \in Jobs /\ sv[j].state # "none" /\ sv[j].fp = fp

\* Where a flow stands with a job, and for which schedule it works.
Turn == {"post", "poll", "body", "apply", "save"}
SoundFlow(fl, sv) ==
    /\ fl.pc \in {"stale", "probe"} /\ fl.job # None => PostedFor(sv, fl.job, fl.guard)
    /\ fl.pc = "stale" => fl.job # None
    /\ fl.pc \in Turn => /\ fl.job \in Jobs /\ fl.own \in Jobs /\ sv[fl.job].state # "none"
                         /\ ~fl.watch => sv[fl.job].fp = fl.guard
    /\ fl.pc \in {"body", "apply", "save"} => ~fl.watch
    /\ fl.pc = "apply" => fl.back = fl.guard

SoundPending(p, sv) == p # None => PostedFor(sv, p.job, p.fp)

\* A stopped job is no longer on its way to the server, and there it is
\* cancelled or the page still means to cancel it.
SoundStop(j, intents, sv) ==
    /\ sv[j].state \notin {"none", "posted"}
    /\ sv[j].state = "live" => sv[j].cancelled \/ j \in intents

Sound(b, sv) ==
    /\ b \in Browser /\ sv \in Server
    /\ SoundPending(b.pending, sv)
    /\ \A f \in Flows : SoundFlow(b.flow[f], sv)
    /\ \A j \in b.stopped : SoundStop(j, b.intents, sv)

BridgeInv ==
    /\ Sound(browser, server)
    /\ cancels \subseteq Requests
    /\ spent \in [events : 0..MaxEvents, clicks : 0..MaxClicks]

-----------------------------------------------------------------------------
(* Values the page's fields take                                            *)

LEMMA Values ==
    /\ None \in Maybe(Jobs) /\ None \in Maybe(Flows) /\ None \in Maybe(Pending)
    /\ \A j \in Jobs : j \in Maybe(Jobs) /\ j # None
    /\ \A f \in Flows : f \in Maybe(Flows)
    /\ \A p \in Pending : p \in Maybe(Pending) /\ p # None
    /\ TRUE \in BOOLEAN /\ FALSE \in BOOLEAN
    /\ "auto" \in Flows /\ "click" \in Flows
    /\ Schedule0 \in Schedules
BY BridgeAssumption DEF Maybe, Flows, Schedule0, Schedules

LEMMA Fields ==
    ASSUME NEW b \in Browser
    PROVE  /\ b.pending \in Maybe(Pending) /\ b.settled \subseteq Jobs /\ b.intents \subseteq Jobs
           /\ b.active \in Maybe(Jobs) /\ b.lease \in Maybe(Jobs)
           /\ b.deferred \in Maybe(Jobs) /\ b.savePending \in Maybe(Jobs)
           /\ b.sweepJob \in Maybe(Jobs) /\ b.stopped \subseteq Jobs
           /\ b.run \in Maybe(Flows) /\ b.ctl \in Maybe(Flows) /\ b.saves \subseteq Saves
           /\ b.stored \in Schedules /\ b.sched \in Schedules
           /\ {b.suppressed, b.tombstone, b.due, b.halted, b.busy, b.resuming} \subseteq BOOLEAN
           /\ b.flow \in [Flows -> FlowRecord] /\ \A f \in Flows : b.flow[f] \in FlowRecord
           /\ b.sweep \in {"idle", "listing", "cancelling"}
           /\ b.pending # None => /\ b.pending \in Pending /\ b.pending.job \in Jobs
                                  /\ b.pending.fp \in Schedules /\ b.pending.observe \in BOOLEAN
BY DEF Browser, Maybe, Pending

LEMMA FlowFields ==
    ASSUME NEW fl \in FlowRecord
    PROVE  /\ fl.pc \in PCs /\ fl.job \in Maybe(Jobs) /\ fl.own \in Maybe(Jobs)
           /\ fl.guard \in Schedules /\ fl.back \in Schedules
           /\ {fl.watch, fl.current, fl.aborted, fl.solve} \subseteq BOOLEAN
BY DEF FlowRecord

LEMMA RecordedIsJob ==
    ASSUME NEW b \in Browser
    PROVE  RecordedJob(b) \in Maybe(Jobs)
BY Fields, Values DEF RecordedJob

LEMMA IdleSound ==
    ASSUME NEW sv
    PROVE  IdleFlow \in FlowRecord /\ SoundFlow(IdleFlow, sv)
<1>1. IdleFlow \in FlowRecord
  BY Values DEF IdleFlow, FlowRecord, PCs
<1> QED
  BY <1>1 DEF SoundFlow, IdleFlow, Turn

\* Soundness only looks at the recorded job, the flows, the stopped jobs and the intents.
LEMMA SameSound ==
    ASSUME NEW b, NEW sv, Sound(b, sv), NEW c \in Browser,
           c.pending \in {b.pending, None}, c.flow = b.flow, c.stopped = b.stopped,
           b.intents \subseteq c.intents
    PROVE  Sound(c, sv)
BY DEF Sound, SoundPending, SoundStop

-----------------------------------------------------------------------------
(* The operations on a page                                                 *)

LEMMA SettleSound ==
    ASSUME NEW b, NEW sv, Sound(b, sv), NEW j \in Jobs
    PROVE  Sound(Settle(b, j), sv)
<1>1. b \in Browser /\ b.settled \cup {j} \in SUBSET Jobs
  BY Fields DEF Sound
<1>2. Settle(b, j) \in Browser
  BY <1>1, Zenon DEF Settle, Browser
<1>3. LET c == Settle(b, j) IN /\ c.pending = b.pending /\ c.flow = b.flow /\ c.stopped = b.stopped
                              /\ c.intents = b.intents
  BY <1>1 DEF Settle, Browser
<1> QED
  BY <1>2, <1>3, SameSound

LEMMA ForgetSound ==
    ASSUME NEW b, NEW sv, Sound(b, sv), NEW j \in Jobs
    PROVE  Sound(Forget(b, j), sv)
<1>1. b \in Browser /\ b.settled \ {j} \in SUBSET Jobs
  BY Fields DEF Sound
<1>2. Forget(b, j) \in Browser
  BY <1>1, Zenon DEF Forget, Browser
<1>3. LET c == Forget(b, j) IN /\ c.pending = b.pending /\ c.flow = b.flow /\ c.stopped = b.stopped
                              /\ c.intents = b.intents
  BY <1>1 DEF Forget, Browser
<1> QED
  BY <1>2, <1>3, SameSound

LEMMA RememberSound ==
    ASSUME NEW b, NEW sv, Sound(b, sv), NEW js \in SUBSET Jobs
    PROVE  /\ Sound(Remember(b, js), sv)
           /\ Remember(b, js).stopped = b.stopped /\ Remember(b, js).intents = b.intents \cup js
<1>1. b \in Browser /\ b.intents \cup js \in SUBSET Jobs
  BY Fields DEF Sound
<1>2. Remember(b, js) \in Browser
  BY <1>1, Zenon DEF Remember, Browser
<1>3. LET c == Remember(b, js) IN /\ c.pending = b.pending /\ c.flow = b.flow
                                 /\ c.stopped = b.stopped /\ c.intents = b.intents \cup js
  BY <1>1 DEF Remember, Browser
<1> QED
  BY <1>2, <1>3, SameSound

\* The intent of a job may go once the server has heard of the cancellation.
LEMMA ClearIntentSound ==
    ASSUME NEW b, NEW sv, Sound(b, sv), NEW j \in Jobs, sv[j].state = "live" => sv[j].cancelled
    PROVE  Sound(ClearIntent(b, j), sv)
<1>1. b \in Browser /\ b.intents \ {j} \in SUBSET Jobs
  BY Fields DEF Sound
<1>2. ClearIntent(b, j) \in Browser
  BY <1>1, Zenon DEF ClearIntent, Browser
<1>3. LET c == ClearIntent(b, j) IN /\ c.pending = b.pending /\ c.flow = b.flow
                                   /\ c.stopped = b.stopped /\ c.intents = b.intents \ {j}
  BY <1>1 DEF ClearIntent, Browser
<1> QED
  BY <1>2, <1>3 DEF Sound, SoundStop

\* A page that forgets its recorded job.
LEMMA NoPendingSound ==
    ASSUME NEW b, NEW sv, Sound(b, sv)
    PROVE  Sound([b EXCEPT !.pending = None], sv)
<1>1. b \in Browser
  BY DEF Sound
<1>2. [b EXCEPT !.pending = None] \in Browser
  BY <1>1, Values, Zenon DEF Browser
<1>3. LET c == [b EXCEPT !.pending = None]
      IN  c.pending = None /\ c.flow = b.flow /\ c.stopped = b.stopped /\ c.intents = b.intents
  BY <1>1 DEF Browser
<1> QED
  BY <1>2, <1>3, SameSound

LEMMA RemovePendingSound ==
    ASSUME NEW b, NEW sv, Sound(b, sv), NEW j
    PROVE  Sound(RemovePending(b, j), sv)
BY NoPendingSound DEF RemovePending

LEMMA WritePendingSound ==
    ASSUME NEW b, NEW sv, Sound(b, sv), NEW j, NEW fp, PostedFor(sv, j, fp),
           NEW observe \in BOOLEAN, NEW replay
    PROVE  /\ Sound(WritePending(b, j, fp, observe, replay), sv)
           /\ RecordedJob(WritePending(b, j, fp, observe, replay)) \in {RecordedJob(b), j}
<1> DEFINE p == [job |-> j, fp |-> fp, observe |-> observe]
           c == [b EXCEPT !.pending = p]
<1>1. b \in Browser /\ sv \in Server /\ j \in Jobs /\ fp \in Schedules
  BY DEF Sound, PostedFor, Server
<1>2. p \in Pending /\ p \in Maybe(Pending) /\ p # None /\ p.job = j /\ p.fp = fp
  BY <1>1, Values DEF Pending
<1>3. SoundPending(p, sv)
  BY <1>2 DEF SoundPending
<1> HIDE DEF p
<1>4. c \in Browser
  BY <1>1, <1>2, Zenon DEF Browser
<1>5. /\ c.pending = p /\ c.flow = b.flow /\ c.stopped = b.stopped /\ c.intents = b.intents
      /\ c.settled = b.settled
  BY <1>1 DEF Browser
<1>6. Sound(c, sv)
  BY <1>3, <1>4, <1>5 DEF Sound
<1>7. RecordedJob(c) = j
  BY <1>2, <1>5 DEF RecordedJob
<1>8. WritePending(b, j, fp, observe, replay) = IF j \in b.settled /\ ~replay THEN b ELSE c
  BY DEF WritePending, p
<1> HIDE DEF c
<1> QED
  BY <1>5, <1>6, <1>7, <1>8

\* A job that was not settled is recorded.
LEMMA WritePendingRecords ==
    ASSUME NEW b \in Browser, NEW j \in Jobs, NEW fp \in Schedules, NEW observe \in BOOLEAN,
           j \notin b.settled
    PROVE  RecordedJob(WritePending(b, j, fp, observe, FALSE)) = j
<1> DEFINE p == [job |-> j, fp |-> fp, observe |-> observe]
           c == [b EXCEPT !.pending = p]
<1>1. p # None /\ p.job = j
  BY Values DEF Pending
<1>2. WritePending(b, j, fp, observe, FALSE) = c
  BY DEF WritePending
<1> HIDE DEF p
<1>3. c.pending = p
  BY DEF Browser
<1> HIDE DEF c
<1> QED
  BY <1>1, <1>2, <1>3 DEF RecordedJob

LEMMA ActiveSound ==
    ASSUME NEW b, NEW sv, Sound(b, sv), NEW j \in Maybe(Jobs)
    PROVE  /\ Sound([b EXCEPT !.active = j], sv)
           /\ [b EXCEPT !.active = j].pending = b.pending /\ [b EXCEPT !.active = j].lease = b.lease
<1>1. b \in Browser
  BY DEF Sound
<1>2. [b EXCEPT !.active = j] \in Browser
  BY <1>1, Zenon DEF Browser
<1>3. LET c == [b EXCEPT !.active = j]
      IN  /\ c.pending = b.pending /\ c.flow = b.flow /\ c.stopped = b.stopped
          /\ c.intents = b.intents /\ c.lease = b.lease
  BY <1>1 DEF Browser
<1> QED
  BY <1>2, <1>3, SameSound

LEMMA SetActiveSound ==
    ASSUME NEW b, NEW sv, Sound(b, sv), NEW j, NEW fp, PostedFor(sv, j, fp)
    PROVE  Sound(SetActive(b, j, fp), sv)
<1>1. j \in Jobs /\ b \in Browser
  BY DEF PostedFor, Sound
<1>2. Sound([b EXCEPT !.active = j], sv)
  BY <1>1, ActiveSound, Values
<1>3. (RecordedJob(b) = j /\ b.pending.observe) \in BOOLEAN
  OBVIOUS
<1> QED
  BY <1>2, <1>3, WritePendingSound DEF SetActive

LEMMA EndLeaseSound ==
    ASSUME NEW b, NEW sv, Sound(b, sv), NEW j
    PROVE  Sound(EndLease(b, j), sv)
<1> DEFINE c == [b EXCEPT !.lease = None]
<1>1. b \in Browser
  BY DEF Sound
<1>2. c \in Browser
  BY <1>1, Values, Zenon DEF Browser
<1>3. c.pending = b.pending /\ c.flow = b.flow /\ c.stopped = b.stopped /\ c.intents = b.intents
  BY <1>1 DEF Browser
<1> HIDE DEF c
<1>4. Sound(c, sv)
  BY <1>2, <1>3, SameSound
<1> QED
  BY <1>4 DEF EndLease, c

LEMMA ClearActiveSound ==
    ASSUME NEW b, NEW sv, Sound(b, sv), NEW j \in Jobs, NEW force
    PROVE  Sound(ClearActive(b, j, force), sv)
<1>1. Sound([b EXCEPT !.active = None], sv)
  BY ActiveSound, Values
<1>2. Sound(RemovePending(Settle([b EXCEPT !.active = None], j), j), sv)
  BY <1>1, SettleSound, RemovePendingSound
<1> QED
  BY <1>2 DEF ClearActive

LEMMA TimerSound ==
    ASSUME NEW b, NEW sv, Sound(b, sv)
    PROVE  Sound(CancelTimer(b), sv) /\ Sound(ScheduleResume(b), sv) /\ Sound(ScheduleIfPending(b), sv)
<1>1. b \in Browser /\ (~Suppressed(b)) \in BOOLEAN
  BY DEF Sound
<1>2. ASSUME NEW v \in BOOLEAN PROVE Sound([b EXCEPT !.due = v], sv)
  <2>1. [b EXCEPT !.due = v] \in Browser
    BY <1>1, Zenon DEF Browser
  <2>2. LET c == [b EXCEPT !.due = v]
        IN  c.pending = b.pending /\ c.flow = b.flow /\ c.stopped = b.stopped /\ c.intents = b.intents
    BY <1>1 DEF Browser
  <2> QED
    BY <2>1, <2>2, SameSound
<1> QED
  BY <1>1, <1>2, Values DEF CancelTimer, ScheduleResume, ScheduleIfPending

\* A flow is replaced by one that is sound.
LEMMA FlowSound ==
    ASSUME NEW b, NEW sv, Sound(b, sv), NEW f \in Flows, NEW fl \in FlowRecord, SoundFlow(fl, sv)
    PROVE  Sound([b EXCEPT !.flow[f] = fl], sv)
<1> DEFINE c == [b EXCEPT !.flow[f] = fl]
<1>1. b \in Browser /\ b.flow \in [Flows -> FlowRecord]
  BY Fields DEF Sound
<1>2. [b.flow EXCEPT ![f] = fl] \in [Flows -> FlowRecord]
  BY <1>1
<1>3. c \in Browser
  BY <1>1, <1>2, SMT DEF Browser
<1>4. /\ c.pending = b.pending /\ c.stopped = b.stopped /\ c.intents = b.intents
      /\ c.flow = [b.flow EXCEPT ![f] = fl]
  BY <1>1 DEF Browser
<1> HIDE DEF c
<1>5. \A g \in Flows : SoundFlow(c.flow[g], sv)
  BY <1>1, <1>4 DEF Sound
<1>6. Sound(c, sv)
  BY <1>3, <1>4, <1>5 DEF Sound
<1> QED
  BY <1>6 DEF c

LEMMA EndFlowSound ==
    ASSUME NEW b, NEW sv, Sound(b, sv), NEW f \in Flows
    PROVE  Sound(EndFlow(b, f), sv)
BY FlowSound, IdleSound DEF EndFlow

LEMMA SettleDeferredSound ==
    ASSUME NEW b, NEW sv, Sound(b, sv), NEW j \in Jobs
    PROVE  Sound(SettleDeferred(b, j), sv)
<1> DEFINE d == IF b.deferred = j THEN None ELSE b.deferred
           s == IF b.savePending = j THEN None ELSE b.savePending
           c == [b EXCEPT !.deferred = d, !.savePending = s]
<1>1. b \in Browser /\ d \in Maybe(Jobs) /\ s \in Maybe(Jobs)
  BY Fields, Values DEF Sound
<1>2. SettleDeferred(b, j) = ClearActive(c, j, TRUE)
  BY DEF SettleDeferred
<1> HIDE DEF d, s
<1>3. c \in Browser
  BY <1>1, Zenon DEF Browser
<1>4. c.pending = b.pending /\ c.flow = b.flow /\ c.stopped = b.stopped /\ c.intents = b.intents
  BY <1>1 DEF Browser
<1> HIDE DEF c
<1> QED
  BY <1>2, <1>3, <1>4, SameSound, ClearActiveSound

LEMMA SettleStoppedSound ==
    ASSUME NEW b, NEW sv, Sound(b, sv), NEW own \in BOOLEAN
    PROVE  Sound(SettleStopped(b, own), sv)
<1> DEFINE c == SettleStopped(b, own)
<1>1. b \in Browser /\ (IF own THEN None ELSE b.ctl) \in Maybe(Flows)
  BY Fields, Values DEF Sound
<1>2. c \in Browser
  BY <1>1, Values, Zenon DEF SettleStopped, Browser
<1>3. c.pending = b.pending /\ c.flow = b.flow /\ c.stopped = b.stopped /\ c.intents = b.intents
  BY <1>1 DEF SettleStopped, Browser
<1> HIDE DEF c
<1>4. Sound(c, sv)
  BY <1>2, <1>3, SameSound
<1> QED
  BY <1>4 DEF c

LEMMA AbortSound ==
    ASSUME NEW b, NEW sv, Sound(b, sv)
    PROVE  Sound(Abort(b), sv)
<1> DEFINE new(f) == [b.flow[f] EXCEPT !.current = FALSE,
                          !.aborted = @ \/ (b.ctl = f /\ b.flow[f].pc \notin {"apply", "save"})]
           fls == [f \in Flows |-> new(f)]
           c == [b EXCEPT !.flow = fls]
<1>1. b \in Browser /\ \A f \in Flows : b.flow[f] \in FlowRecord
  BY Fields DEF Sound
<1>2. ASSUME NEW f \in Flows PROVE new(f) \in FlowRecord /\ SoundFlow(new(f), sv)
  <2> DEFINE fl == b.flow[f]
             v == fl.aborted \/ (b.ctl = f /\ fl.pc \notin {"apply", "save"})
  <2>1. fl \in FlowRecord /\ SoundFlow(fl, sv) /\ v \in BOOLEAN
    BY <1>1 DEF Sound
  <2>2. new(f) = [fl EXCEPT !.current = FALSE, !.aborted = v]
    BY <2>1 DEF FlowRecord
  <2> HIDE DEF fl, v, new
  <2>3. new(f) \in FlowRecord
    BY <2>1, <2>2, Values, Zenon DEF FlowRecord
  <2>4. /\ new(f).pc = fl.pc /\ new(f).job = fl.job /\ new(f).own = fl.own
        /\ new(f).guard = fl.guard
        /\ new(f).back = fl.back /\ new(f).watch = fl.watch
    BY <2>1, <2>2 DEF FlowRecord
  <2> QED
    BY <2>1, <2>3, <2>4 DEF SoundFlow
<1> HIDE DEF new
<1>3. fls \in [Flows -> FlowRecord] /\ \A f \in Flows : fls[f] = new(f)
  BY <1>2
<1> HIDE DEF fls
<1>4. c \in Browser
  BY <1>1, <1>3, Zenon DEF Browser
<1>5. c.pending = b.pending /\ c.flow = fls /\ c.stopped = b.stopped /\ c.intents = b.intents
  BY <1>1 DEF Browser
<1>6. c = Abort(b)
  BY DEF Abort, fls, new
<1> HIDE DEF c
<1>7. Sound(c, sv)
  BY <1>2, <1>3, <1>4, <1>5 DEF Sound
<1> QED
  BY <1>6, <1>7

LEMMA HardStopSound ==
    ASSUME NEW b, NEW sv, Sound(b, sv), NEW j \in Maybe(Jobs)
    PROVE  Sound(HardStop(b, j), sv)
<1> DEFINE h == [b EXCEPT !.suppressed = TRUE, !.halted = TRUE, !.due = FALSE]
           fenced == Abort(h)
           dropped == IF j = None THEN fenced
                      ELSE EndLease(RemovePending(Settle(fenced, j), j), j)
<1>1. b \in Browser
  BY DEF Sound
<1>2. h \in Browser
  BY <1>1, Values, Zenon DEF Browser
<1>3. h.pending = b.pending /\ h.flow = b.flow /\ h.stopped = b.stopped /\ h.intents = b.intents
  BY <1>1 DEF Browser
<1>4. HardStop(b, j) = SettleStopped(dropped, TRUE)
  BY DEF HardStop
<1> HIDE DEF h
<1>5. Sound(fenced, sv)
  BY <1>2, <1>3, SameSound, AbortSound
<1> HIDE DEF fenced
<1>6. j # None => j \in Jobs
  BY DEF Maybe
<1>7. Sound(dropped, sv)
  BY <1>5, <1>6, SettleSound, RemovePendingSound, EndLeaseSound
<1> HIDE DEF dropped
<1> QED
  BY <1>4, <1>7, SettleStoppedSound

LEMMA PrepareManualSound ==
    ASSUME NEW b, NEW sv, Sound(b, sv)
    PROVE  Sound(PrepareManual(b), sv)
<1> DEFINE kept == IF RecordedJob(b) \in b.settled THEN [b EXCEPT !.pending = None] ELSE b
           sw == IF b.tombstone /\ kept.sweep = "idle" THEN "listing" ELSE kept.sweep
           c == [kept EXCEPT !.due = FALSE, !.suppressed = FALSE, !.tombstone = FALSE,
                             !.halted = FALSE, !.sweep = sw]
<1>1. PrepareManual(b) = IF b.resuming THEN b ELSE c
  BY DEF PrepareManual
<1>2. Sound(kept, sv)
  BY NoPendingSound
<1> HIDE DEF kept
<1>3. kept \in Browser
  BY <1>2 DEF Sound
<1>4. sw \in {"idle", "listing", "cancelling"}
  BY <1>3, Fields
<1> HIDE DEF sw
<1>5. c \in Browser
  BY <1>3, <1>4, Values, Zenon DEF Browser
<1>6. c.pending = kept.pending /\ c.flow = kept.flow /\ c.stopped = kept.stopped /\ c.intents = kept.intents
  BY <1>3 DEF Browser
<1> HIDE DEF c
<1> QED
  BY <1>1, <1>2, <1>5, <1>6, SameSound

-----------------------------------------------------------------------------
(* Attaching to a job                                                       *)

\* A reattach polls for a job of the schedule that is shown.
LEMMA ReattachFlow ==
    ASSUME NEW sv, NEW j, NEW fp, PostedFor(sv, j, fp), NEW s \in Schedules, s = fp
    PROVE  LET fl == [IdleFlow EXCEPT !.pc = "poll", !.job = j, !.own = j, !.guard = s]
           IN  fl \in FlowRecord /\ SoundFlow(fl, sv)
<1> DEFINE fl == [IdleFlow EXCEPT !.pc = "poll", !.job = j, !.own = j, !.guard = s]
<1>1. IdleFlow \in FlowRecord /\ j \in Maybe(Jobs) /\ "poll" \in PCs
  BY IdleSound, Values DEF PostedFor, PCs
<1>2. fl \in FlowRecord
  BY <1>1, Zenon DEF FlowRecord
<1>3. fl.pc = "poll" /\ fl.job = j /\ fl.own = j /\ fl.guard = s
  BY <1>1 DEF FlowRecord
<1> HIDE DEF fl
<1>4. SoundFlow(fl, sv)
  BY <1>3 DEF SoundFlow, PostedFor, Turn
<1> QED
  BY <1>2, <1>4 DEF fl

LEMMA ObserveFlow ==
    ASSUME NEW sv, NEW j, NEW fp, PostedFor(sv, j, fp)
    PROVE  LET fl == [IdleFlow EXCEPT !.pc = "poll", !.job = j, !.own = j, !.watch = TRUE]
           IN  fl \in FlowRecord /\ SoundFlow(fl, sv)
<1> DEFINE fl == [IdleFlow EXCEPT !.pc = "poll", !.job = j, !.own = j, !.watch = TRUE]
<1>1. IdleFlow \in FlowRecord /\ j \in Maybe(Jobs) /\ "poll" \in PCs /\ TRUE \in BOOLEAN
  BY IdleSound, Values DEF PostedFor, PCs
<1>2. fl \in FlowRecord
  BY <1>1, Zenon DEF FlowRecord
<1>3. fl.pc = "poll" /\ fl.job = j /\ fl.own = j /\ fl.watch = TRUE
  BY <1>1 DEF FlowRecord
<1> HIDE DEF fl
<1>4. SoundFlow(fl, sv)
  BY <1>3 DEF SoundFlow, PostedFor, Turn
<1> QED
  BY <1>2, <1>4 DEF fl

LEMMA StartReattachSound ==
    ASSUME NEW b, NEW sv, Sound(b, sv), NEW f \in Flows, NEW j, NEW fp, PostedFor(sv, j, fp)
    PROVE  Sound(StartReattach(b, f, j, fp), sv)
<1> DEFINE leased == [b EXCEPT !.lease = j, !.resuming = TRUE, !.busy = TRUE, !.run = f, !.ctl = f]
           owned == SetActive(WritePending(leased, j, fp, FALSE, TRUE), j, fp)
           fl == [IdleFlow EXCEPT !.pc = "poll", !.job = j, !.own = j, !.guard = b.sched]
<1>1. b \in Browser /\ j \in Maybe(Jobs) /\ f \in Maybe(Flows)
  BY Values DEF Sound, PostedFor
<1>2. Suppressed(b) => StartReattach(b, f, j, fp) = EndFlow(b, f)
  BY DEF StartReattach
<1>3. ~Suppressed(b) /\ fp # b.sched => StartReattach(b, f, j, fp) = EndFlow(RemovePending(b, j), f)
  BY DEF StartReattach
<1>4. ~Suppressed(b) /\ fp = b.sched => StartReattach(b, f, j, fp) = [owned EXCEPT !.flow[f] = fl]
  BY DEF StartReattach
<1>5. leased \in Browser
  BY <1>1, Values, Zenon DEF Browser
<1>6. /\ leased.pending = b.pending /\ leased.flow = b.flow /\ leased.stopped = b.stopped
      /\ leased.intents = b.intents
  BY <1>1 DEF Browser
<1> HIDE DEF leased
<1>7. Sound(owned, sv)
  BY <1>5, <1>6, SameSound, Values, WritePendingSound, SetActiveSound
<1>8. fp = b.sched => fl \in FlowRecord /\ SoundFlow(fl, sv)
  BY <1>1, Fields, ReattachFlow
<1> HIDE DEF owned, fl
<1> QED
  BY <1>2, <1>3, <1>4, <1>7, <1>8, FlowSound, EndFlowSound, RemovePendingSound

\* An observer watches the recorded job, which it may record itself.
LEMMA StartObserveSound ==
    ASSUME NEW b, NEW sv, Sound(b, sv), NEW f \in Flows, NEW j, NEW fp, PostedFor(sv, j, fp),
           RecordedJob(b) \in {None, j} \/ j \notin b.settled
    PROVE  Sound(StartObserve(b, f, j, fp), sv)
<1> DEFINE seen == IF RecordedJob(b) = j /\ b.pending.observe THEN b
                   ELSE WritePending(b, j, fp, TRUE, FALSE)
           busy == [seen EXCEPT !.busy = TRUE, !.halted = FALSE, !.run = f, !.ctl = f]
           owned == SetActive(busy, j, seen.pending.fp)
           fl == [IdleFlow EXCEPT !.pc = "poll", !.job = j, !.own = j, !.watch = TRUE]
<1>1. StartObserve(b, f, j, fp) =
         IF seen.pending = None THEN EndFlow(b, f) ELSE [owned EXCEPT !.flow[f] = fl]
  BY DEF StartObserve
<1>2. Sound(seen, sv) /\ RecordedJob(seen) \in {None, j}
  <2>1. CASE RecordedJob(b) = j /\ b.pending.observe
    BY <2>1
  <2>2. CASE ~(RecordedJob(b) = j /\ b.pending.observe)
    <3> DEFINE w == WritePending(b, j, fp, TRUE, FALSE)
    <3>1. TRUE \in BOOLEAN
      OBVIOUS
    <3>2. Sound(w, sv) /\ RecordedJob(w) \in {RecordedJob(b), j}
      BY <3>1, WritePendingSound
    <3>3. ASSUME j \notin b.settled PROVE RecordedJob(w) = j
      <4>1. b \in Browser /\ j \in Jobs /\ fp \in Schedules
        BY DEF Sound, PostedFor, Server
      <4> QED
        BY <3>1, <3>3, <4>1, WritePendingRecords, Zenon
    <3>4. seen = w
      BY <2>2, Zenon
    <3> HIDE DEF w, seen
    <3> QED
      BY <3>2, <3>3, <3>4
  <2> QED
    BY <2>1, <2>2
<1> HIDE DEF seen
<1>3. seen \in Browser /\ f \in Maybe(Flows)
  BY <1>2, Values DEF Sound
<1>4. ASSUME seen.pending # None PROVE PostedFor(sv, j, seen.pending.fp)
  <2>1. seen.pending.job = j
    BY <1>2, <1>3, <1>4, Fields, Values DEF RecordedJob
  <2> QED
    BY <1>2, <1>4, <2>1 DEF Sound, SoundPending
<1>5. busy \in Browser
  BY <1>3, Values, Zenon DEF Browser
<1>6. /\ busy.pending = seen.pending /\ busy.flow = seen.flow /\ busy.stopped = seen.stopped
      /\ busy.intents = seen.intents
  BY <1>3 DEF Browser
<1> HIDE DEF busy
<1>7. seen.pending # None => Sound(owned, sv)
  BY <1>2, <1>4, <1>5, <1>6, SameSound, SetActiveSound
<1>8. fl \in FlowRecord /\ SoundFlow(fl, sv)
  BY ObserveFlow
<1> HIDE DEF owned, fl
<1> QED
  BY <1>1, <1>7, <1>8, FlowSound, EndFlowSound

-----------------------------------------------------------------------------
(* The ends of the flows                                                    *)

\* The page's own variables: busy, resuming, the run and its controller.
LEMMA OwnershipSound ==
    ASSUME NEW b, NEW sv, Sound(b, sv), NEW v \in BOOLEAN, NEW w \in BOOLEAN,
           NEW r \in Maybe(Flows), NEW c \in Maybe(Flows)
    PROVE  Sound([b EXCEPT !.busy = v, !.resuming = w, !.run = r, !.ctl = c], sv)
<1> DEFINE d == [b EXCEPT !.busy = v, !.resuming = w, !.run = r, !.ctl = c]
<1>1. b \in Browser
  BY DEF Sound
<1>2. d \in Browser
  BY <1>1, Zenon DEF Browser
<1>3. d.pending = b.pending /\ d.flow = b.flow /\ d.stopped = b.stopped /\ d.intents = b.intents
  BY <1>1 DEF Browser
<1> HIDE DEF d
<1>4. Sound(d, sv)
  BY <1>2, <1>3, SameSound
<1> QED
  BY <1>4 DEF d

LEMMA FinishReattachSound ==
    ASSUME NEW b, NEW sv, Sound(b, sv), NEW f \in Flows
    PROVE  Sound(FinishReattach(b, f), sv)
<1> DEFINE r == IF b.run = f THEN None ELSE b.run
           c == IF b.ctl = f THEN None ELSE b.ctl
           released == [ReleaseTurn(b, f) EXCEPT !.busy = FALSE, !.resuming = FALSE]
           free == EndFlow(EndLease(released, b.flow[f].job), f)
<1>1. b \in Browser /\ r \in Maybe(Flows) /\ c \in Maybe(Flows)
  BY Fields, Values DEF Sound
<1>2. released = [b EXCEPT !.busy = FALSE, !.resuming = FALSE, !.run = r, !.ctl = c]
  BY <1>1 DEF ReleaseTurn, Browser
<1>3. FinishReattach(b, f) = IF f = "auto" THEN ScheduleIfPending(free) ELSE free
  BY DEF FinishReattach
<1> HIDE DEF r, c, released
<1>4. Sound(released, sv)
  BY <1>1, <1>2, OwnershipSound, Values
<1>5. Sound(free, sv)
  BY <1>4, EndLeaseSound, EndFlowSound
<1> HIDE DEF free
<1> QED
  BY <1>3, <1>5, TimerSound

LEMMA FinishObserveSound ==
    ASSUME NEW b, NEW sv, Sound(b, sv), NEW f \in Flows
    PROVE  Sound(FinishObserve(b, f), sv)
<1> DEFINE free == [b EXCEPT !.active = None]
           r == IF b.run = f THEN None ELSE b.run
           c == IF b.ctl = f THEN None ELSE b.ctl
           released == [ReleaseTurn(b, f) EXCEPT !.active = None, !.busy = FALSE]
<1>1. Sound(free, sv)
  BY ActiveSound, Values
<1>2. FinishObserve(b, f) = EndFlow(released, f)
  BY DEF FinishObserve
<1>3. /\ b \in Browser /\ r \in Maybe(Flows) /\ c \in Maybe(Flows) /\ b.resuming \in BOOLEAN
  BY Fields, Values DEF Sound
<1>4. released = [free EXCEPT !.busy = FALSE, !.resuming = b.resuming, !.run = r, !.ctl = c]
  BY <1>3 DEF ReleaseTurn, Browser
<1> HIDE DEF r, c, free, released
<1>5. Sound(released, sv)
  BY <1>1, <1>3, <1>4, OwnershipSound, Values
<1> QED
  BY <1>2, <1>5, EndFlowSound

LEMMA FinishSolveSound ==
    ASSUME NEW b, NEW sv, Sound(b, sv), NEW f \in Flows
    PROVE  Sound(FinishSolve(b, f), sv)
<1> DEFINE c == IF b.ctl = f THEN None ELSE b.ctl
           r == IF b.run = f THEN None ELSE b.run
           v == IF b.run = f THEN FALSE ELSE b.busy
           free == IF b.run = f THEN [ReleaseTurn(b, f) EXCEPT !.busy = FALSE]
                   ELSE [b EXCEPT !.ctl = IF @ = f THEN None ELSE @]
<1>1. /\ b \in Browser /\ r \in Maybe(Flows) /\ c \in Maybe(Flows) /\ v \in BOOLEAN
      /\ b.resuming \in BOOLEAN
  BY Fields, Values DEF Sound
<1>2. free = [b EXCEPT !.busy = v, !.resuming = b.resuming, !.run = r, !.ctl = c]
  BY <1>1 DEF ReleaseTurn, Browser
<1>3. FinishSolve(b, f) = EndFlow(free, f)
  BY DEF FinishSolve
<1> HIDE DEF r, c, v, free
<1>4. Sound(free, sv)
  BY <1>1, <1>2, OwnershipSound
<1> QED
  BY <1>3, <1>4, EndFlowSound

LEMMA FinishSound ==
    ASSUME NEW b, NEW sv, Sound(b, sv), NEW f \in Flows
    PROVE  Sound(Finish(b, f), sv)
BY FinishReattachSound, FinishObserveSound, FinishSolveSound DEF Finish

\* The visible schedule and the saved one may be any schedule.
LEMMA SchedulesSound ==
    ASSUME NEW b, NEW sv, Sound(b, sv), NEW s \in Schedules, NEW t \in Schedules
    PROVE  Sound([b EXCEPT !.sched = s, !.stored = t], sv)
<1> DEFINE c == [b EXCEPT !.sched = s, !.stored = t]
<1>1. b \in Browser
  BY DEF Sound
<1>2. c \in Browser
  BY <1>1, Zenon DEF Browser
<1>3. c.pending = b.pending /\ c.flow = b.flow /\ c.stopped = b.stopped /\ c.intents = b.intents
  BY <1>1 DEF Browser
<1> HIDE DEF c
<1>4. Sound(c, sv)
  BY <1>2, <1>3, SameSound
<1> QED
  BY <1>4 DEF c

LEMMA RestoredSound ==
    ASSUME NEW b, NEW sv, Sound(b, sv), NEW f \in Flows
    PROVE  Sound(Restored(b, f), sv)
<1>1. b.flow[f].back \in Schedules
  BY Fields, FlowFields DEF Sound
<1>2. Sound([b EXCEPT !.sched = b.flow[f].back, !.stored = b.flow[f].back], sv)
  BY <1>1, SchedulesSound
<1> QED
  BY <1>2 DEF Restored

LEMMA DetachSound ==
    ASSUME NEW b, NEW sv, Sound(b, sv), NEW f \in Flows
    PROVE  Sound(Detach(b, f), sv)
BY TimerSound, RestoredSound, FinishSound DEF Detach

LEMMA RefuseSound ==
    ASSUME NEW b, NEW sv, Sound(b, sv), NEW f \in Flows
    PROVE  Sound(Refuse(b, f), sv)
BY RestoredSound, FinishSound DEF Refuse

\* The job of a flow that works on one, and the id it settles.
LEMMA TurnJob ==
    ASSUME NEW b, NEW sv, Sound(b, sv), NEW f \in Flows, b.flow[f].pc \in Turn
    PROVE  b.flow[f].job \in Jobs /\ b.flow[f].own \in Jobs
BY DEF Sound, SoundFlow

LEMMA FailSound ==
    ASSUME NEW b, NEW sv, Sound(b, sv), NEW f \in Flows, b.flow[f].pc \in Turn
    PROVE  Sound(Fail(b, f), sv)
BY TurnJob, ClearActiveSound, RestoredSound, FinishSound DEF Fail

LEMMA EndsCancelledSound ==
    ASSUME NEW b, NEW sv, Sound(b, sv), NEW f \in Flows, b.flow[f].pc \in Turn
    PROVE  Sound(EndsCancelled(b, f), sv)
BY FinishSound, FailSound DEF EndsCancelled

LEMMA SettledSound ==
    ASSUME NEW b, NEW sv, Sound(b, sv), NEW f \in Flows, b.flow[f].pc \in Turn
    PROVE  Sound(Settled(b, f), sv)
BY TurnJob, SettleDeferredSound, ClearActiveSound DEF Settled

-----------------------------------------------------------------------------
(* The steps of a turn that already runs                                    *)

\* A page in which one flow is replaced by one that is sound.
LEMMA FlowFrame ==
    ASSUME NEW b, NEW sv, Sound(b, sv), NEW f \in Flows, NEW fl \in FlowRecord, SoundFlow(fl, sv),
           NEW c \in Browser, c.flow = [b.flow EXCEPT ![f] = fl], c.pending \in {b.pending, None},
           c.stopped = b.stopped, c.intents = b.intents
    PROVE  Sound(c, sv)
<1>1. b.flow \in [Flows -> FlowRecord]
  BY Fields DEF Sound
<1>2. \A g \in Flows : SoundFlow(c.flow[g], sv)
  BY <1>1 DEF Sound
<1>3. SoundPending(c.pending, sv)
  BY DEF Sound, SoundPending
<1> QED
  BY <1>2, <1>3 DEF Sound

\* A flow moves on to another of its places.
LEMMA PcSound ==
    ASSUME NEW b, NEW sv, Sound(b, sv), NEW f \in Flows, NEW pc \in PCs,
           SoundFlow([b.flow[f] EXCEPT !.pc = pc], sv)
    PROVE  Sound([b EXCEPT !.flow[f].pc = pc], sv)
<1> DEFINE fl == [b.flow[f] EXCEPT !.pc = pc]
           fls == [b.flow EXCEPT ![f] = fl]
           c == [b EXCEPT !.flow = fls]
<1>1. b \in Browser /\ b.flow \in [Flows -> FlowRecord] /\ b.flow[f] \in FlowRecord
  BY Fields DEF Sound
<1>2. fl \in FlowRecord
  BY <1>1, Zenon DEF FlowRecord
<1>3. [b EXCEPT !.flow[f].pc = pc] = c
  OBVIOUS
<1>4. SoundFlow(fl, sv)
  OBVIOUS
<1> HIDE DEF fl
<1>5. fls \in [Flows -> FlowRecord]
  BY <1>1, <1>2
<1> HIDE DEF fls
<1>6. c \in Browser
  BY <1>1, <1>5, Zenon DEF Browser
<1>7. c.pending = b.pending /\ c.flow = fls /\ c.stopped = b.stopped /\ c.intents = b.intents
  BY <1>1 DEF Browser
<1> HIDE DEF c
<1>8. c.flow = [b.flow EXCEPT ![f] = fl]
  BY <1>7 DEF fls
<1>9. Sound(c, sv)
  BY <1>2, <1>4, <1>6, <1>7, <1>8, FlowFrame
<1> QED
  BY <1>3, <1>9

\* A flow whose place and one more field are updated one after the other.
LEMMA TwiceSound ==
    ASSUME NEW b, NEW sv, Sound(b, sv), NEW f \in Flows, NEW fl \in FlowRecord, SoundFlow(fl, sv),
           NEW first \in [Flows -> FlowRecord], NEW second, second = [b.flow EXCEPT ![f] = fl]
    PROVE  Sound([[b EXCEPT !.flow = first] EXCEPT !.flow = second], sv)
<1> DEFINE half == [b EXCEPT !.flow = first]
           c == [half EXCEPT !.flow = second]
<1>1. b \in Browser /\ b.flow \in [Flows -> FlowRecord]
  BY Fields DEF Sound
<1>2. second \in [Flows -> FlowRecord]
  BY <1>1
<1>3. half \in Browser
  BY <1>1, Zenon DEF Browser
<1>4. half.pending = b.pending /\ half.stopped = b.stopped /\ half.intents = b.intents
  BY <1>1 DEF Browser
<1> HIDE DEF half
<1>5. c \in Browser
  BY <1>2, <1>3, Zenon DEF Browser
<1>6. c.pending = b.pending /\ c.flow = second /\ c.stopped = b.stopped /\ c.intents = b.intents
  BY <1>3, <1>4 DEF Browser
<1> HIDE DEF c
<1>7. Sound(c, sv)
  BY <1>5, <1>6, FlowFrame
<1> QED
  BY <1>7 DEF c, half

\* A result starts to be applied over the schedule that is shown.
LEMMA PlaceSound ==
    ASSUME NEW b, NEW sv, Sound(b, sv), NEW f \in Flows, NEW pc \in PCs, NEW back \in Schedules,
           SoundFlow([b.flow[f] EXCEPT !.pc = pc, !.back = back], sv)
    PROVE  Sound([b EXCEPT !.flow[f].pc = pc, !.flow[f].back = back], sv)
<1> DEFINE fl == [b.flow[f] EXCEPT !.pc = pc, !.back = back]
           half == [b.flow[f] EXCEPT !.pc = pc]
           first == [b.flow EXCEPT ![f] = half]
           second == [first EXCEPT ![f] = [first[f] EXCEPT !.back = back]]
<1>1. b \in Browser /\ b.flow \in [Flows -> FlowRecord] /\ b.flow[f] \in FlowRecord
  BY Fields DEF Sound
<1>2. fl \in FlowRecord /\ half \in FlowRecord
  BY <1>1, Zenon DEF FlowRecord
<1>3. [b EXCEPT !.flow = first].flow = first
  BY <1>1 DEF Browser
<1>4. [b EXCEPT !.flow[f].pc = pc, !.flow[f].back = back]
         = [[b EXCEPT !.flow = first] EXCEPT !.flow = second]
  BY <1>3
<1>5. SoundFlow(fl, sv)
  OBVIOUS
<1>6. first[f] = half
  BY <1>1
<1>7. second = [b.flow EXCEPT ![f] = fl]
  BY <1>1, <1>6
<1> HIDE DEF fl, half
<1>8. first \in [Flows -> FlowRecord]
  BY <1>1, <1>2
<1> HIDE DEF first, second
<1>9. Sound([[b EXCEPT !.flow = first] EXCEPT !.flow = second], sv)
  BY <1>2, <1>5, <1>7, <1>8, TwiceSound, Zenon
<1> QED
  BY <1>4, <1>9, Zenon

LEMMA PollEndsSound ==
    ASSUME Sound(browser, server), NEW f \in Flows, PollEnds(f)
    PROVE  Sound(browser', server')
BY EndsCancelledSound DEF PollEnds, Turn

LEMMA PollLostSound ==
    ASSUME Sound(browser, server), NEW f \in Flows, PollLost(f)
    PROVE  Sound(browser', server')
BY DetachSound DEF PollLost

LEMMA PollAnsweredSound ==
    ASSUME Sound(browser, server), NEW f \in Flows, PollAnswered(f)
    PROVE  Sound(browser', server')
<1> DEFINE fl == browser.flow[f]
           gone == FinishObserve(ClearActive(browser, fl.job, FALSE), f)
           fetched == [browser EXCEPT !.flow[f].pc = "body"]
<1>1. /\ browser' \in {gone, Fail(browser, f)} \/ (~fl.watch /\ browser' = fetched)
      /\ fl.pc = "poll" /\ server' = server
  BY DEF PollAnswered
<1>2. fl.pc \in Turn
  BY <1>1 DEF Turn
<1>3. Sound(gone, server) /\ Sound(Fail(browser, f), server)
  BY <1>2, TurnJob, ClearActiveSound, FinishObserveSound, FailSound
<1>4. ASSUME ~fl.watch PROVE Sound(fetched, server)
  <2>1. fl \in FlowRecord /\ SoundFlow(fl, server)
    BY Fields DEF Sound
  <2>2. SoundFlow([fl EXCEPT !.pc = "body"], server)
    BY <1>1, <1>4, <2>1 DEF SoundFlow, FlowRecord, Turn
  <2>3. "body" \in PCs
    BY DEF PCs
  <2> QED
    BY <2>2, <2>3, PcSound
<1> HIDE DEF gone, fetched, fl
<1> QED
  BY <1>1, <1>3, <1>4

\* A page field that soundness does not look at.
LEMMA DeferredSound ==
    ASSUME NEW b, NEW sv, Sound(b, sv), NEW d \in Maybe(Jobs), NEW p \in Maybe(Jobs),
           NEW saves \in SUBSET Saves
    PROVE  Sound([b EXCEPT !.deferred = d, !.savePending = p, !.saves = saves], sv)
<1> DEFINE c == [b EXCEPT !.deferred = d, !.savePending = p, !.saves = saves]
<1>1. b \in Browser
  BY DEF Sound
<1>2. c \in Browser
  BY <1>1, Zenon DEF Browser
<1>3. c.pending = b.pending /\ c.flow = b.flow /\ c.stopped = b.stopped /\ c.intents = b.intents
  BY <1>1 DEF Browser
<1> HIDE DEF c
<1>4. Sound(c, sv)
  BY <1>2, <1>3, SameSound
<1> QED
  BY <1>4 DEF c

\* The result's body is read: it is applied only to the schedule it was computed for.
LEMMA BodyReadSound ==
    ASSUME Sound(browser, server), NEW f \in Flows, BodyRead(f)
    PROVE  Sound(browser', server')
<1> DEFINE fl == browser.flow[f]
           started == [browser EXCEPT !.flow[f].pc = "apply", !.flow[f].back = browser.sched]
           dropped == Finish(ClearActive(browser, fl.own, ~fl.solve), f)
           deferring == [started EXCEPT !.deferred = fl.own]
<1>1. /\ \/ browser' \in {Finish(browser, f), Fail(browser, f), dropped}
         \/ ~StaleResult(browser, f) /\ browser' \in {started, deferring}
      /\ fl.pc = "body" /\ server' = server
  BY DEF BodyRead
<1>2. fl.pc \in Turn /\ fl.own \in Maybe(Jobs) /\ browser.sched \in Schedules
  BY <1>1, TurnJob, Values, Fields DEF Turn, Sound
<1>3. Sound(Finish(browser, f), server) /\ Sound(Fail(browser, f), server) /\ Sound(dropped, server)
  BY <1>2, FinishSound, FailSound, TurnJob, ClearActiveSound
<1>4. ASSUME ~StaleResult(browser, f) PROVE Sound(started, server) /\ Sound(deferring, server)
  <2>1. fl \in FlowRecord /\ SoundFlow(fl, server) /\ browser.sched = fl.guard
    BY <1>4, Fields DEF Sound, StaleResult
  <2>2. SoundFlow([fl EXCEPT !.pc = "apply", !.back = browser.sched], server)
    BY <1>1, <2>1 DEF SoundFlow, FlowRecord, Turn
  <2>3. "apply" \in PCs
    BY DEF PCs
  <2>4. Sound(started, server)
    BY <1>2, <2>2, <2>3, PlaceSound
  <2> HIDE DEF started
  <2>5. started \in Browser
    BY <2>4 DEF Sound
  <2>6. deferring \in Browser
    BY <1>2, <2>5, Zenon DEF Browser
  <2>7. /\ deferring.pending = started.pending /\ deferring.flow = started.flow
        /\ deferring.stopped = started.stopped /\ deferring.intents = started.intents
    BY <2>5 DEF Browser
  <2> HIDE DEF deferring
  <2> QED
    BY <2>4, <2>6, <2>7, SameSound
<1> HIDE DEF started, deferring, dropped
<1> QED
  BY <1>1, <1>3, <1>4

LEMMA AppliesSound ==
    ASSUME Sound(browser, server), NEW f \in Flows, Applies(f)
    PROVE  Sound(browser', server')
<1> DEFINE fl == browser.flow[f]
           shown == [rev |-> browser.sched.rev + 1, by |-> fl.job]
<1>1. /\ fl.pc = "apply" /\ server' = server /\ browser \in Browser
      /\ browser' = [browser EXCEPT !.sched = shown, !.flow[f].pc = "save"]
  BY DEF Applies, Sound, Browser
<1>2. fl.job \in Jobs /\ browser.sched \in Schedules /\ browser.stored \in Schedules
  BY <1>1, TurnJob, Fields DEF Turn
<1>3. shown \in Schedules
  BY <1>2 DEF Schedules
<1> HIDE DEF shown
<1> DEFINE fls == [browser.flow EXCEPT ![f] = [fl EXCEPT !.pc = "save"]]
<1>6. browser' = [browser EXCEPT !.sched = shown, !.flow = fls]
  BY <1>1
<1>7. fl \in FlowRecord /\ SoundFlow(fl, server)
  BY Fields DEF Sound
<1>8. SoundFlow([fl EXCEPT !.pc = "save"], server)
  BY <1>1, <1>7 DEF SoundFlow, FlowRecord, Turn
<1>9. "save" \in PCs
  BY DEF PCs
<1>10. [fl EXCEPT !.pc = "save"] \in FlowRecord
  BY <1>7, <1>9, Zenon DEF FlowRecord
<1>11. browser.flow \in [Flows -> FlowRecord]
  BY Fields DEF Sound
<1>12. fls \in [Flows -> FlowRecord]
  BY <1>10, <1>11
<1> HIDE DEF fls
<1>13. browser' \in Browser
  BY <1>1, <1>3, <1>6, <1>12, Zenon DEF Browser
<1>14. /\ browser'.flow = fls /\ browser'.pending = browser.pending
       /\ browser'.stopped = browser.stopped /\ browser'.intents = browser.intents
  BY <1>1, <1>6 DEF Browser
<1>15. Sound(browser', server)
  BY <1>8, <1>10, <1>13, <1>14, FlowFrame DEF fls
<1> QED
  BY <1>1, <1>15

LEMMA ApplyFailsSound ==
    ASSUME Sound(browser, server), NEW f \in Flows, ApplyFails(f)
    PROVE  Sound(browser', server')
BY RefuseSound, FailSound DEF ApplyFails, Turn

LEMMA SaveLandsSound ==
    ASSUME Sound(browser, server), NEW f \in Flows, SaveLands(f)
    PROVE  Sound(browser', server')
<1> DEFINE saved == [browser EXCEPT !.stored = browser.sched]
<1>1. browser \in Browser /\ browser.sched \in Schedules
  BY Fields DEF Sound
<1>2. saved = [browser EXCEPT !.sched = browser.sched, !.stored = browser.sched]
  BY <1>1 DEF Browser
<1>3. saved.flow = browser.flow
  BY <1>1 DEF Browser
<1>4. browser.flow[f].pc \in Turn /\ browser' = Finish(Settled(saved, f), f) /\ server' = server
  BY DEF SaveLands, Turn
<1> HIDE DEF saved
<1>5. Sound(saved, server)
  BY <1>1, <1>2, SchedulesSound
<1> QED
  BY <1>3, <1>4, <1>5, SettledSound, FinishSound

LEMMA SaveWatchdogSound ==
    ASSUME Sound(browser, server), NEW f \in Flows, SaveWatchdog(f)
    PROVE  Sound(browser', server')
<1> DEFINE fl == browser.flow[f]
           saves == browser.saves \cup {[job |-> fl.own, deferred |-> fl.solve]}
           late == [browser EXCEPT !.saves = saves]
           waiting == [late EXCEPT !.savePending = fl.own]
<1>1. /\ fl.pc \in Turn /\ server' = server /\ browser \in Browser
      /\ browser' = Finish(IF fl.solve THEN waiting ELSE ClearActive(late, fl.own, TRUE), f)
  BY DEF SaveWatchdog, Turn, Sound, Browser
<1>2. /\ browser.deferred \in Maybe(Jobs) /\ browser.savePending \in Maybe(Jobs)
      /\ browser.saves \subseteq Saves /\ fl \in FlowRecord /\ fl.own \in Jobs
  BY <1>1, Fields, TurnJob
<1>3. saves \in SUBSET Saves /\ fl.own \in Maybe(Jobs)
  BY <1>2, FlowFields, Values DEF Saves
<1> HIDE DEF saves
<1>4. /\ late = [browser EXCEPT !.deferred = browser.deferred, !.savePending = browser.savePending,
                                !.saves = saves]
      /\ waiting = [browser EXCEPT !.deferred = browser.deferred, !.savePending = fl.own,
                                   !.saves = saves]
  BY <1>1 DEF Browser
<1>5. /\ Sound([browser EXCEPT !.deferred = browser.deferred, !.savePending = browser.savePending,
                              !.saves = saves], server)
      /\ Sound([browser EXCEPT !.deferred = browser.deferred, !.savePending = fl.own,
                              !.saves = saves], server)
  BY <1>2, <1>3, DeferredSound
<1>6. Sound(late, server) /\ Sound(waiting, server)
  BY <1>4, <1>5
<1> HIDE DEF late, waiting
<1> QED
  BY <1>1, <1>2, <1>6, ClearActiveSound, FinishSound

LEMMA LateSaveLandsSound ==
    ASSUME Sound(browser, server), NEW s \in Saves, LateSaveLands(s)
    PROVE  Sound(browser', server')
<1> DEFINE stored == [browser EXCEPT !.sched = browser.sched, !.stored = browser.sched]
           saves == browser.saves \ {s}
           saved == [browser EXCEPT !.stored = browser.sched, !.saves = saves]
<1>1. /\ browser \in Browser /\ browser.sched \in Schedules /\ saves \in SUBSET Saves
      /\ browser.deferred \in Maybe(Jobs) /\ browser.savePending \in Maybe(Jobs) /\ s.job \in Jobs
  BY Fields DEF Sound, Saves
<1>2. /\ browser' = IF s.deferred THEN SettleDeferred(saved, s.job)
                     ELSE [saved EXCEPT !.savePending = None]
      /\ server' = server
  BY DEF LateSaveLands
<1> HIDE DEF saves
<1>3. saved = [stored EXCEPT !.deferred = browser.deferred, !.savePending = browser.savePending,
                             !.saves = saves]
  BY <1>1 DEF Browser
<1> HIDE DEF saved
<1>4. Sound(stored, server)
  BY <1>1, SchedulesSound
<1> HIDE DEF stored
<1>5. Sound(saved, server)
  BY <1>1, <1>3, <1>4, DeferredSound
<1>6. /\ saved \in Browser /\ saved.deferred \in Maybe(Jobs) /\ saved.saves \in SUBSET Saves
      /\ None \in Maybe(Jobs)
  BY <1>5, Fields, Values DEF Sound
<1>7. Sound([saved EXCEPT !.deferred = saved.deferred, !.savePending = None,
                          !.saves = saved.saves], server)
  BY <1>5, <1>6, DeferredSound
<1>8. [saved EXCEPT !.deferred = saved.deferred, !.savePending = None, !.saves = saved.saves]
         = [saved EXCEPT !.savePending = None]
  BY <1>6 DEF Browser
<1> QED
  BY <1>1, <1>2, <1>5, <1>7, <1>8, SettleDeferredSound

LEMMA LateSaveFailsSound ==
    ASSUME Sound(browser, server), NEW s \in Saves, LateSaveFails(s)
    PROVE  Sound(browser', server')
<1> DEFINE saves == browser.saves \ {s}
           p == IF ~s.deferred \/ browser.savePending = s.job THEN None ELSE browser.savePending
           failed == [browser EXCEPT !.saves = saves]
           reported == [failed EXCEPT !.savePending =
                          IF ~s.deferred \/ @ = s.job THEN None ELSE @]
<1>1. /\ browser \in Browser /\ saves \in SUBSET Saves /\ p \in Maybe(Jobs)
      /\ browser.deferred \in Maybe(Jobs)
  BY Fields, Values DEF Sound
<1>2. browser' \in {reported, ScheduleResume(reported)} /\ server' = server
  BY DEF LateSaveFails
<1> HIDE DEF saves
<1>3. reported = [browser EXCEPT !.deferred = browser.deferred, !.savePending = p, !.saves = saves]
  BY <1>1 DEF Browser
<1> HIDE DEF reported, p
<1>4. Sound(reported, server)
  BY <1>1, <1>3, DeferredSound
<1> QED
  BY <1>2, <1>4, TimerSound

-----------------------------------------------------------------------------
(* The user's events and the sweep                                          *)

LEMMA KnownIsJob ==
    ASSUME NEW b \in Browser
    PROVE  KnownJob(b) \in Maybe(Jobs)
BY Fields, RecordedIsJob DEF KnownJob

\* Jobs the server knows are stopped once the page means to cancel them.
LEMMA StoppedSound ==
    ASSUME NEW b, NEW sv, Sound(b, sv), NEW js \in SUBSET b.intents,
           \A k \in js : sv[k].state \notin {"none", "posted"},
           NEW c \in Browser, c.pending = b.pending, c.flow = b.flow, c.intents = b.intents,
           c.stopped = b.stopped \cup js
    PROVE  Sound(c, sv)
BY DEF Sound, SoundStop

LEMMA EditSound ==
    ASSUME Sound(browser, server), Edit
    PROVE  Sound(browser', server')
<1> DEFINE edited == [rev |-> browser.sched.rev + 1, by |-> None]
<1>1. /\ browser' = [browser EXCEPT !.sched = edited, !.stored = edited]
      /\ server' = server
  BY DEF Edit
<1>2. edited \in Schedules
  BY Fields DEF Sound, Schedules
<1> HIDE DEF edited
<1> QED
  BY <1>1, <1>2, SchedulesSound

LEMMA StopSound ==
    ASSUME Sound(browser, server), Stop
    PROVE  Sound(browser', server') /\ (cancels \subseteq Requests => cancels' \subseteq Requests)
<1> DEFINE j == KnownJob(browser)
           asked == IF j = None THEN {} ELSE {j}
           known == {k \in asked : ~Unknown(k)}
           halted == Remember(HardStop(browser, j), asked)
           stopped == halted.stopped \cup known
<1>1. /\ browser' = [halted EXCEPT !.stopped = stopped]
      /\ cancels' = cancels \cup {[job |-> k, from |-> "stop"] : k \in asked}
      /\ server' = server
  BY DEF Stop
<1>2. j \in Maybe(Jobs) /\ asked \subseteq Jobs
  BY KnownIsJob DEF Sound, Maybe
<1> HIDE DEF j, asked
<1>3. Sound(HardStop(browser, j), server)
  BY <1>2, HardStopSound
<1>4. Sound(halted, server) /\ known \subseteq halted.intents
  BY <1>2, <1>3, RememberSound
<1>5. \A k \in known : server[k].state \notin {"none", "posted"}
  BY DEF Unknown
<1> HIDE DEF known, halted
<1>6. halted \in Browser /\ stopped \in SUBSET Jobs
  BY <1>4, Fields DEF Sound
<1>7. stopped = halted.stopped \cup known
  OBVIOUS
<1> HIDE DEF stopped
<1>8. browser' \in Browser
  BY <1>1, <1>6, Zenon DEF Browser
<1>9. /\ browser'.pending = halted.pending /\ browser'.flow = halted.flow
      /\ browser'.intents = halted.intents /\ browser'.stopped = halted.stopped \cup known
  BY <1>1, <1>6, <1>7 DEF Browser
<1>10. Sound(browser', server)
  BY <1>4, <1>5, <1>8, <1>9, StoppedSound
<1>11. {[job |-> k, from |-> "stop"] : k \in asked} \subseteq Requests
  BY <1>2 DEF Requests
<1> QED
  BY <1>1, <1>10, <1>11

LEMMA DeleteSound ==
    ASSUME Sound(browser, server), Delete
    PROVE  Sound(browser', server') /\ (cancels \subseteq Requests => cancels' \subseteq Requests)
<1> DEFINE j == KnownJob(browser)
           asked == IF j = None \/ browser.sweep # "idle" THEN {} ELSE {j}
           emptied == [rev |-> browser.sched.rev + 1, by |-> None]
           known == {k \in asked : ~Unknown(k)}
           halted == Remember(HardStop(browser, j), asked)
           stopped == halted.stopped \cup known
           sweep == IF halted.sweep = "idle" THEN "listing" ELSE halted.sweep
<1>1. /\ browser' = [halted EXCEPT !.sched = emptied, !.stored = emptied, !.tombstone = TRUE,
                                   !.stopped = stopped, !.sweep = sweep, !.sweepJob = j]
      /\ cancels' = cancels \cup {[job |-> k, from |-> "sweep"] : k \in asked}
      /\ server' = server
  BY DEF Delete
<1>2. j \in Maybe(Jobs) /\ asked \subseteq Jobs /\ emptied \in Schedules
  BY KnownIsJob, Fields DEF Sound, Maybe, Schedules
<1> HIDE DEF j, asked, emptied
<1>3. Sound(HardStop(browser, j), server)
  BY <1>2, HardStopSound
<1>4. Sound(halted, server) /\ known \subseteq halted.intents
  BY <1>2, <1>3, RememberSound
<1>5. \A k \in known : server[k].state \notin {"none", "posted"}
  BY DEF Unknown
<1> HIDE DEF known, halted
<1>6. /\ halted \in Browser /\ stopped \in SUBSET Jobs
      /\ sweep \in {"idle", "listing", "cancelling"}
  BY <1>4, Fields DEF Sound
<1>7. stopped = halted.stopped \cup known
  OBVIOUS
<1> HIDE DEF stopped, sweep
<1>8. browser' \in Browser
  BY <1>1, <1>2, <1>6, Values, Zenon DEF Browser
<1>9. /\ browser'.pending = halted.pending /\ browser'.flow = halted.flow
      /\ browser'.intents = halted.intents /\ browser'.stopped = halted.stopped \cup known
  BY <1>1, <1>6, <1>7 DEF Browser
<1>10. Sound(browser', server)
  BY <1>4, <1>5, <1>8, <1>9, StoppedSound
<1>11. {[job |-> k, from |-> "sweep"] : k \in asked} \subseteq Requests
  BY <1>2 DEF Requests
<1> QED
  BY <1>1, <1>10, <1>11

LEMMA SweepListsSound ==
    ASSUME Sound(browser, server), SweepLists
    PROVE  Sound(browser', server') /\ (cancels \subseteq Requests => cancels' \subseteq Requests)
<1>1. PICK heard \in BOOLEAN :
        LET found == {j \in Jobs : heard /\ Live(j) /\ ~server[j].cancelled}
        IN  /\ browser' = [Remember(browser, found) EXCEPT
                              !.sweep = "cancelling", !.stopped = @ \cup found]
            /\ cancels' = cancels \cup {[job |-> j, from |-> "sweep"] : j \in found}
  BY DEF SweepLists
<1> DEFINE found == {j \in Jobs : heard /\ Live(j) /\ ~server[j].cancelled}
           meant == Remember(browser, found)
           stopped == meant.stopped \cup found
<1>2. /\ browser' = [meant EXCEPT !.sweep = "cancelling", !.stopped = stopped]
      /\ cancels' = cancels \cup {[job |-> j, from |-> "sweep"] : j \in found}
      /\ server' = server
  BY <1>1 DEF SweepLists
<1>3. found \subseteq Jobs /\ \A j \in found : server[j].state \notin {"none", "posted"}
  BY DEF Live
<1> HIDE DEF found
<1>4. Sound(meant, server) /\ found \subseteq meant.intents
  BY <1>3, RememberSound
<1> HIDE DEF meant
<1>5. meant \in Browser /\ stopped \in SUBSET Jobs /\ stopped = meant.stopped \cup found
  BY <1>3, <1>4, Fields DEF Sound
<1>6. "cancelling" \in {"idle", "listing", "cancelling"}
  OBVIOUS
<1> HIDE DEF stopped
<1>7. browser' \in Browser
  BY <1>2, <1>5, <1>6, Zenon DEF Browser
<1>8. /\ browser'.pending = meant.pending /\ browser'.flow = meant.flow
      /\ browser'.intents = meant.intents /\ browser'.stopped = meant.stopped \cup found
  BY <1>2, <1>5 DEF Browser
<1>9. Sound(browser', server)
  BY <1>3, <1>4, <1>7, <1>8, StoppedSound
<1>10. {[job |-> j, from |-> "sweep"] : j \in found} \subseteq Requests
  BY <1>3 DEF Requests
<1> QED
  BY <1>2, <1>9, <1>10

LEMMA SweepEndsSound ==
    ASSUME Sound(browser, server), SweepEnds
    PROVE  Sound(browser', server')
<1> DEFINE j == browser.sweepJob
           done == IF j = None THEN browser ELSE ClearActive(browser, j, TRUE)
<1>1. browser' = [done EXCEPT !.sweep = "idle", !.sweepJob = None] /\ server' = server
  BY DEF SweepEnds
<1>2. j # None => j \in Jobs
  BY Fields DEF Sound, Maybe
<1>3. Sound(done, server)
  BY <1>2, ClearActiveSound
<1> HIDE DEF done
<1>4. done \in Browser /\ "idle" \in {"idle", "listing", "cancelling"}
  BY <1>3 DEF Sound
<1>5. browser' \in Browser
  BY <1>1, <1>4, Values, Zenon DEF Browser
<1>6. /\ browser'.pending = done.pending /\ browser'.flow = done.flow
      /\ browser'.stopped = done.stopped /\ browser'.intents = done.intents
  BY <1>1, <1>4 DEF Browser
<1> QED
  BY <1>1, <1>3, <1>5, <1>6, SameSound

LEMMA WakeSound ==
    ASSUME Sound(browser, server), Wake
    PROVE  Sound(browser', server') /\ (cancels \subseteq Requests => cancels' \subseteq Requests)
<1>1. {[job |-> j, from |-> "retry"] : j \in browser.intents} \subseteq Requests
  BY Fields DEF Sound, Requests
<1> QED
  BY <1>1, TimerSound DEF Wake

-----------------------------------------------------------------------------
(* The automatic flow                                                       *)

\* A flow that has no job to work on yet.
LEMMA EarlySound ==
    ASSUME NEW b, NEW sv, Sound(b, sv), NEW f \in Flows, NEW pc \in {"begin", "inspect", "barrier"}
    PROVE  Sound([b EXCEPT !.flow[f].pc = pc], sv)
<1>1. b.flow[f] \in FlowRecord /\ pc \in PCs
  BY Fields DEF Sound, PCs
<1>2. SoundFlow([b.flow[f] EXCEPT !.pc = pc], sv)
  BY <1>1 DEF SoundFlow, FlowRecord, Turn
<1> QED
  BY <1>1, <1>2, PcSound

LEMMA TimerFiresSound ==
    ASSUME Sound(browser, server), TimerFires
    PROVE  Sound(browser', server') /\ (cancels \subseteq Requests => cancels' \subseteq Requests)
<1> DEFINE rung == CancelTimer(browser)
           asked == {[job |-> j, from |-> "retry"] : j \in rung.intents}
<1>1. /\ browser' \in {[rung EXCEPT !.flow["auto"].pc = "begin"], rung}
      /\ cancels' \in {cancels, cancels \cup asked}
      /\ server' = server
  BY DEF TimerFires
<1>2. Sound(rung, server)
  BY TimerSound
<1> HIDE DEF rung
<1>3. Sound([rung EXCEPT !.flow["auto"].pc = "begin"], server)
  BY <1>2, EarlySound, Values
<1>4. asked \subseteq Requests
  BY <1>2, Fields DEF Sound, Requests
<1> HIDE DEF asked
<1> QED
  BY <1>1, <1>2, <1>3, <1>4

\* A probe asks for the recorded job, or for none.
LEMMA ProbeFlow ==
    ASSUME NEW b, NEW sv, Sound(b, sv), NEW stale \in BOOLEAN, stale => b.pending # None
    PROVE  LET fl == [IdleFlow EXCEPT !.pc = IF stale THEN "stale" ELSE "probe",
                                      !.job = RecordedJob(b),
                                      !.guard = IF b.pending = None THEN Schedule0 ELSE b.pending.fp,
                                      !.watch = b.pending # None /\ b.pending.observe]
           IN  fl \in FlowRecord /\ SoundFlow(fl, sv)
<1> DEFINE pc == IF stale THEN "stale" ELSE "probe"
           guard == IF b.pending = None THEN Schedule0 ELSE b.pending.fp
           watch == b.pending # None /\ b.pending.observe
           job == RecordedJob(b)
           fl == [IdleFlow EXCEPT !.pc = pc, !.job = job, !.guard = guard, !.watch = watch]
<1>1. IdleFlow \in FlowRecord /\ b \in Browser
  BY IdleSound DEF Sound
<1>2. pc \in PCs /\ pc \in {"stale", "probe"} /\ (pc = "stale" => b.pending # None)
  BY DEF PCs
<1>3. job \in Maybe(Jobs) /\ guard \in Schedules
  BY <1>1, RecordedIsJob, Fields, Values
<1>4. watch \in BOOLEAN
  BY <1>1, Fields
<1>5. /\ job # None => PostedFor(sv, job, guard)
      /\ b.pending # None => job # None
  BY <1>1, Fields, Values DEF RecordedJob, Sound, SoundPending
<1> HIDE DEF pc, guard, watch, job
<1>6. fl \in FlowRecord
  BY <1>1, <1>2, <1>3, <1>4, Zenon DEF FlowRecord
<1>7. fl.pc = pc /\ fl.job = job /\ fl.guard = guard
  BY <1>1 DEF FlowRecord
<1> HIDE DEF fl
<1>8. SoundFlow(fl, sv)
  BY <1>2, <1>5, <1>7 DEF SoundFlow, Turn
<1> QED
  BY <1>6, <1>8 DEF fl, pc, guard, watch, job

LEMMA ResumeBeginsSound ==
    ASSUME Sound(browser, server), ResumeBegins
    PROVE  Sound(browser', server')
<1> DEFINE b == browser
           adopt == Observing(b) /\ b.pending.fp = b.sched
           seen == IF adopt THEN WritePending(b, b.pending.job, b.sched, FALSE, FALSE) ELSE b
           p == seen.pending
           stale == p # None /\ p.fp # b.sched /\ ~p.observe
           leased == IF p = None \/ stale \/ p.observe THEN seen
                     ELSE [seen EXCEPT !.lease = p.job]
           fl == [IdleFlow EXCEPT !.pc = IF stale THEN "stale" ELSE "probe",
                                  !.job = RecordedJob(seen),
                                  !.guard = IF p = None THEN Schedule0 ELSE p.fp,
                                  !.watch = p # None /\ p.observe]
<1>1. /\ browser' \in {EndFlow(b, "auto"), EndFlow(ScheduleIfPending(b), "auto"),
                       [leased EXCEPT !.flow["auto"] = fl]}
      /\ server' = server
  BY DEF ResumeBegins
<1>2. Sound(b, server)
  OBVIOUS
<1> HIDE DEF b
<1>3. adopt => PostedFor(server, b.pending.job, b.sched)
  BY <1>2 DEF Observing, Sound, SoundPending
<1>4. Sound(seen, server)
  BY <1>2, <1>3, WritePendingSound
<1>5. fl \in FlowRecord /\ SoundFlow(fl, server)
  <2>1. stale \in BOOLEAN /\ (stale => seen.pending # None)
    OBVIOUS
  <2> HIDE DEF seen, stale
  <2> QED
    BY <1>4, <2>1, ProbeFlow
<1> HIDE DEF fl
<1>6. Sound(leased, server)
  <2> DEFINE c == [seen EXCEPT !.lease = p.job]
  <2> HIDE DEF seen
  <2>1. seen \in Browser /\ (p # None => p.job \in Maybe(Jobs))
    BY <1>4, Fields, Values DEF Sound
  <2>2. p # None => c \in Browser
    BY <2>1, Zenon DEF Browser
  <2>3. c.pending = seen.pending /\ c.flow = seen.flow /\ c.stopped = seen.stopped /\ c.intents = seen.intents
    BY <2>1 DEF Browser
  <2> HIDE DEF c
  <2>4. p # None => Sound(c, server)
    BY <1>4, <2>2, <2>3, SameSound
  <2> QED
    BY <1>4, <2>4 DEF c
<1> HIDE DEF leased
<1>7. "auto" \in Flows
  BY Values
<1>8. Sound(EndFlow(b, "auto"), server) /\ Sound(EndFlow(ScheduleIfPending(b), "auto"), server)
  BY <1>2, <1>7, TimerSound, EndFlowSound
<1>9. Sound([leased EXCEPT !.flow["auto"] = fl], server)
  BY <1>5, <1>6, <1>7, FlowSound
<1> QED
  BY <1>1, <1>8, <1>9

LEMMA ProbeLostSound ==
    ASSUME Sound(browser, server), ProbeLost
    PROVE  Sound(browser', server')
<1> DEFINE fl == browser.flow["auto"]
           b == IF fl.pc = "probe" /\ fl.job # None /\ ~fl.watch
                THEN EndLease(browser, fl.job) ELSE browser
<1>1. /\ browser' = EndFlow(IF Outdated(b) \/ fl.job = None THEN b ELSE ScheduleResume(b), "auto")
      /\ server' = server
  BY DEF ProbeLost
<1>2. Sound(b, server)
  BY EndLeaseSound
<1> HIDE DEF b
<1> QED
  BY <1>1, <1>2, TimerSound, EndFlowSound, Values

LEMMA StaleProbedSound ==
    ASSUME Sound(browser, server), StaleProbed
    PROVE  Sound(browser', server')
<1> DEFINE b == browser
           fl == b.flow["auto"]
           written == WritePending(b, fl.job, fl.guard, TRUE, FALSE)
           dropped == RemovePending(EndLease(Settle(b, fl.job), fl.job), fl.job)
<1>1. /\ \/ browser' \in {EndFlow(b, "auto"), EndFlow(dropped, "auto")}
         \/ /\ fl.job \notin b.settled
            /\ browser' = StartObserve(written, "auto", fl.job, fl.guard)
      /\ fl.pc = "stale" /\ server' = server
  BY DEF StaleProbed
<1>2. "auto" \in Flows /\ PostedFor(server, fl.job, fl.guard)
  BY <1>1, Values DEF Sound, SoundFlow
<1>3. fl.job \in Jobs /\ fl.guard \in Schedules /\ b \in Browser
  BY <1>2 DEF PostedFor, Sound, Server
<1>4. Sound(dropped, server)
  BY <1>3, SettleSound, EndLeaseSound, RemovePendingSound
<1>5. TRUE \in BOOLEAN
  OBVIOUS
<1>6. Sound(written, server)
  BY <1>2, <1>5, WritePendingSound
<1>7. ASSUME fl.job \notin b.settled PROVE RecordedJob(written) = fl.job
  BY <1>3, <1>5, <1>7, WritePendingRecords, Zenon
<1> HIDE DEF written, dropped, fl
<1>8. ASSUME fl.job \notin b.settled PROVE Sound(StartObserve(written, "auto", fl.job, fl.guard), server)
  <2>1. RecordedJob(written) \in {None, fl.job} \/ fl.job \notin written.settled
    BY <1>7, <1>8
  <2> QED
    BY <1>2, <1>6, <2>1, StartObserveSound
<1> QED
  BY <1>1, <1>2, <1>4, <1>8, EndFlowSound

\* The recorded job was posted for the schedule recorded with it.
LEMMA RecordedIsPosted ==
    ASSUME NEW b, NEW sv, Sound(b, sv), b.pending # None
    PROVE  /\ PostedFor(sv, b.pending.job, b.pending.fp) /\ b.pending.observe \in BOOLEAN
           /\ RecordedJob(b) = b.pending.job
BY Fields DEF Sound, SoundPending, RecordedJob

\* What the flow does with a job the answer named.
LEMMA ResumeSound ==
    ASSUME NEW b, Sound(b, server), NEW j, NEW fp, PostedFor(server, j, fp), NEW watch \in BOOLEAN
    PROVE  Sound(Resume(b, j, fp, watch), server)
<1> DEFINE p == IF b.pending = None THEN [job |-> j, fp |-> fp, observe |-> watch] ELSE b.pending
           lost == EndFlow(EndLease(ClearActive(RemovePending(Settle(b, j), j), j, TRUE), j), "auto")
           later == EndFlow(ScheduleResume(b), "auto")
           seen == StartObserve(b, "auto", p.job, p.fp)
           ended == StartReattach(b, "auto", p.job, p.fp)
<1>1. Resume(b, j, fp, watch) \in {lost, later, seen, ended, ScheduleIfPending(ended)}
  BY DEF Resume
<1>2. "auto" \in Flows /\ j \in Jobs
  BY Values DEF PostedFor
<1>3. Sound(lost, server) /\ Sound(later, server)
  BY <1>2, SettleSound, RemovePendingSound, ClearActiveSound, EndLeaseSound, TimerSound, EndFlowSound
<1>4. PostedFor(server, p.job, p.fp) /\ RecordedJob(b) \in {None, p.job}
  <2>1. CASE b.pending = None
    BY <2>1 DEF RecordedJob
  <2>2. CASE b.pending # None
    BY <2>2, RecordedIsPosted
  <2> QED
    BY <2>1, <2>2
<1> HIDE DEF p
<1>5. Sound(seen, server) /\ Sound(ended, server)
  BY <1>2, <1>4, StartObserveSound, StartReattachSound
<1>6. Sound(ScheduleIfPending(ended), server)
  BY <1>5, TimerSound
<1> HIDE DEF lost, later, seen, ended
<1> QED
  BY <1>1, <1>3, <1>5, <1>6

\* A job the server offers is one that was posted.
LEMMA Offered ==
    ASSUME NEW b, NEW j \in Discoverable(b)
    PROVE  j \in Jobs /\ PostedFor(server, j, server[j].fp)
BY DEF Discoverable, Matching, Watchable, Listed, Live, PostedFor

LEMMA DiscoverSound ==
    ASSUME NEW b, Sound(b, server), NEW j \in Discoverable(b)
    PROVE  Sound(Discover(b, j), server)
<1> DEFINE known == IF Live(j) THEN Forget(b, j) ELSE b
           other == server[j].fp # b.sched
<1>1. PostedFor(server, j, server[j].fp) /\ j \in Jobs /\ other \in BOOLEAN
  BY Offered
<1>2. Sound(known, server)
  BY <1>1, ForgetSound
<1>3. Discover(b, j) = WritePending(known, j, server[j].fp, other, FALSE)
  BY DEF Discover
<1>4. Sound(WritePending(known, j, server[j].fp, other, FALSE), server)
  <2> HIDE DEF known
  <2> QED
    BY <1>1, <1>2, WritePendingSound, Zenon
<1> QED
  BY <1>3, <1>4, Zenon

LEMMA ProbedSound ==
    ASSUME Sound(browser, server), Probed
    PROVE  Sound(browser', server')
<1> DEFINE fl == browser.flow["auto"]
           b == IF fl.job = None \/ fl.watch THEN browser ELSE EndLease(browser, fl.job)
<1>1. /\ \/ browser' = EndFlow(b, "auto")
         \/ fl.job # None /\ browser' = Resume(b, fl.job, fl.guard, fl.watch)
         \/ \E j \in Discoverable(b) :
               /\ RecordedJob(Discover(b, j)) = j
               /\ browser' = Resume(Discover(b, j), j, Discover(b, j).pending.fp,
                                    Discover(b, j).pending.observe)
      /\ fl.pc = "probe" /\ server' = server
  BY DEF Probed
<1>2. "auto" \in Flows /\ fl \in FlowRecord /\ SoundFlow(fl, server)
  BY Values, Fields DEF Sound
<1>3. Sound(b, server)
  BY EndLeaseSound
<1> HIDE DEF b
<1>4. CASE browser' = EndFlow(b, "auto")
  BY <1>1, <1>2, <1>3, <1>4, EndFlowSound
<1>5. CASE fl.job # None /\ browser' = Resume(b, fl.job, fl.guard, fl.watch)
  <2>1. PostedFor(server, fl.job, fl.guard) /\ fl.watch \in BOOLEAN
    BY <1>1, <1>2, <1>5, FlowFields DEF SoundFlow
  <2> QED
    BY <1>1, <1>3, <1>5, <2>1, ResumeSound
<1>6. ASSUME NEW j \in Discoverable(b), RecordedJob(Discover(b, j)) = j,
             browser' = Resume(Discover(b, j), j, Discover(b, j).pending.fp,
                               Discover(b, j).pending.observe)
      PROVE  Sound(browser', server')
  <2> DEFINE found == Discover(b, j)
  <2>1. Sound(found, server) /\ j \in Jobs /\ j # None
    BY <1>3, DiscoverSound, Offered, Values
  <2>2. RecordedJob(found) = j /\ browser' = Resume(found, j, found.pending.fp, found.pending.observe)
    BY <1>6
  <2> HIDE DEF found
  <2>3. found.pending # None
    BY <2>1, <2>2 DEF RecordedJob
  <2>4. PostedFor(server, j, found.pending.fp) /\ found.pending.observe \in BOOLEAN
    BY <2>1, <2>2, <2>3, RecordedIsPosted
  <2> QED
    BY <1>1, <2>1, <2>2, <2>4, ResumeSound
<1> QED
  BY <1>1, <1>4, <1>5, <1>6

-----------------------------------------------------------------------------
(* The sort button                                                          *)

LEMMA AdoptSound ==
    ASSUME NEW b, NEW sv, Sound(b, sv), NEW j, NEW fp, PostedFor(sv, j, fp)
    PROVE  Sound(Adopt(b, j, fp), sv)
BY PrepareManualSound, StartReattachSound, Values DEF Adopt

LEMMA ClickSound ==
    ASSUME Sound(browser, server), Click
    PROVE  Sound(browser', server')
<1> DEFINE b == browser
           p == b.pending
           barrier == [PrepareManual(b) EXCEPT !.flow["click"].pc = "barrier"]
           clicked == [b EXCEPT !.flow["click"].pc = "inspect"]
           seen == StartObserve(b, "click", p.job, p.fp)
           adopted == Adopt(b, p.job, p.fp)
<1>1. /\ \/ browser' \in {barrier, clicked}
         \/ p # None /\ browser' \in {seen, adopted}
      /\ server' = server
  BY DEF Click
<1>2. "click" \in Flows
  BY Values
<1>3. Sound(barrier, server) /\ Sound(clicked, server)
  BY <1>2, PrepareManualSound, EarlySound
<1>4. ASSUME p # None PROVE Sound(seen, server) /\ Sound(adopted, server)
  <2>1. PostedFor(server, p.job, p.fp) /\ RecordedJob(b) = p.job
    BY <1>4, RecordedIsPosted
  <2> HIDE DEF b, p
  <2> QED
    BY <1>2, <2>1, StartObserveSound, AdoptSound DEF b
<1> HIDE DEF barrier, clicked, seen, adopted
<1> QED
  BY <1>1, <1>3, <1>4

LEMMA InspectedSound ==
    ASSUME Sound(browser, server), Inspected
    PROVE  Sound(browser', server')
<1> DEFINE b == browser
           barrier == [PrepareManual(b) EXCEPT !.flow["click"].pc = "barrier"]
<1>1. /\ \/ browser' \in {EndFlow(b, "click"), barrier}
         \/ \E j \in Discoverable(b) :
               LET found == Discover(b, j)
               IN  /\ RecordedJob(found) = j
                   /\ browser' = IF server[j].fp = b.sched THEN Adopt(found, j, b.sched)
                                 ELSE StartObserve(found, "click", j, server[j].fp)
      /\ server' = server
  BY DEF Inspected
<1>2. "click" \in Flows
  BY Values
<1>3. Sound(EndFlow(b, "click"), server) /\ Sound(barrier, server)
  BY <1>2, EndFlowSound, PrepareManualSound, EarlySound
<1> HIDE DEF barrier
<1>4. ASSUME NEW j \in Discoverable(b), RecordedJob(Discover(b, j)) = j,
             browser' = IF server[j].fp = b.sched THEN Adopt(Discover(b, j), j, b.sched)
                        ELSE StartObserve(Discover(b, j), "click", j, server[j].fp)
      PROVE  Sound(browser', server')
  <2>1. Sound(Discover(b, j), server) /\ PostedFor(server, j, server[j].fp)
    BY DiscoverSound, Offered
  <2>2. Sound(StartObserve(Discover(b, j), "click", j, server[j].fp), server)
    BY <1>2, <1>4, <2>1, StartObserveSound
  <2>3. Sound(Adopt(Discover(b, j), j, server[j].fp), server)
    BY <2>1, AdoptSound
  <2> QED
    BY <1>1, <1>4, <2>2, <2>3
<1> QED
  BY <1>1, <1>3, <1>4

-----------------------------------------------------------------------------
(* The server                                                               *)

\* What the server never does: forget that a job was posted, change the
\* schedule it was posted for, or take a cancellation back from a live job.
Evolves(sv, sw) ==
    /\ sw \in Server
    /\ \A j \in Jobs :
          /\ sv[j].state # "none" => sw[j].state # "none" /\ sw[j].fp = sv[j].fp
          /\ sv[j].state \notin {"none", "posted"} =>
                /\ sw[j].state \notin {"none", "posted"}
                /\ sw[j].state = "live" =>
                      sv[j].state = "live" /\ (sv[j].cancelled => sw[j].cancelled)

LEMMA EvolvesSound ==
    ASSUME NEW b, NEW sv, NEW sw, Sound(b, sv), Evolves(sv, sw)
    PROVE  Sound(b, sw)
<1>1. b \in Browser /\ sv \in Server /\ sw \in Server
  BY DEF Sound, Evolves
<1>2. SoundPending(b.pending, sw)
  BY DEF Sound, SoundPending, PostedFor, Evolves
<1>3. ASSUME NEW f \in Flows PROVE SoundFlow(b.flow[f], sw)
  <2> DEFINE fl == b.flow[f]
  <2>1. SoundFlow(fl, sv)
    BY DEF Sound
  <2> HIDE DEF fl
  <2>2. fl.pc \in Turn => fl.job \in Jobs /\ sw[fl.job].state # "none" /\ sw[fl.job].fp = sv[fl.job].fp
    BY <2>1 DEF SoundFlow, Evolves
  <2>3. fl.pc \in {"stale", "probe"} /\ fl.job # None => PostedFor(sw, fl.job, fl.guard)
    BY <2>1 DEF SoundFlow, PostedFor, Evolves
  <2>4. SoundFlow(fl, sw)
    BY <2>1, <2>2, <2>3 DEF SoundFlow
  <2> QED
    BY <2>4 DEF fl
<1>4. ASSUME NEW j \in b.stopped PROVE SoundStop(j, b.intents, sw)
  <2>1. j \in Jobs /\ SoundStop(j, b.intents, sv)
    BY <1>1, Fields DEF Sound
  <2> QED
    BY <2>1 DEF SoundStop, Evolves
<1> QED
  BY <1>1, <1>2, <1>3, <1>4 DEF Sound

\* A cancel request that reaches the server.
LEMMA CancelledEvolves ==
    ASSUME server \in Server, NEW j \in Jobs
    PROVE  /\ Evolves(server, Cancelled(j)) /\ Evolves(server, server)
           /\ Cancelled(j)[j].state = "live" => Cancelled(j)[j].cancelled
           /\ \A k \in Jobs : Cancelled(j)[k].state = server[k].state /\ Cancelled(j)[k].fp = server[k].fp
<1>1. /\ server[j].cancelled \in BOOLEAN
      /\ \A k \in Jobs : server[k] \in [state : States, fp : Schedules, cancelled : BOOLEAN]
  BY DEF Server
<1>2. Live(j) \in BOOLEAN
  BY DEF Live
<1> DEFINE v == server[j].cancelled \/ Live(j)
           sw == [server EXCEPT ![j].cancelled = v]
<1>3. Cancelled(j) = sw
  BY DEF Cancelled
<1>4. v \in BOOLEAN /\ (server[j].state = "live" => v) /\ (server[j].cancelled => v)
  BY <1>1, <1>2 DEF Live
<1> HIDE DEF v
<1>5. sw \in Server
  BY <1>1, <1>4 DEF Server
<1>6. \A k \in Jobs : /\ sw[k].state = server[k].state /\ sw[k].fp = server[k].fp
                      /\ sw[k].cancelled = IF k = j THEN v ELSE server[k].cancelled
  BY <1>1 DEF Server
<1> HIDE DEF sw
<1>7. Evolves(server, sw) /\ Evolves(server, server)
  BY <1>4, <1>5, <1>6 DEF Evolves
<1> QED
  BY <1>3, <1>4, <1>6, <1>7

LEMMA PostLandsSound ==
    ASSUME Sound(browser, server), NEW j \in Jobs, PostLands(j)
    PROVE  Sound(browser', server')
<1>1. PICK state \in {"live", "gone"} : server' = [server EXCEPT ![j].state = state]
  BY DEF PostLands
<1>2. server \in Server /\ state \in States /\ server[j].state = "posted" /\ browser' = browser
  BY DEF Sound, PostLands, States
<1>3. server' \in Server
  BY <1>1, <1>2 DEF Server
<1>4. Evolves(server, server')
  BY <1>1, <1>2, <1>3 DEF Evolves, Server
<1> QED
  BY <1>2, <1>4, EvolvesSound

LEMMA JobEndsSound ==
    ASSUME Sound(browser, server), NEW j \in Jobs, JobEnds(j)
    PROVE  Sound(browser', server')
<1>1. PICK end \in {"done", "failed"} :
         server' = [server EXCEPT ![j].state = end, ![j].cancelled = FALSE]
  BY DEF JobEnds
<1>2. server \in Server /\ end \in States /\ server[j].state = "live" /\ browser' = browser
  BY DEF Sound, JobEnds, States, Live
<1>3. server' \in Server
  BY <1>1, <1>2 DEF Server
<1>4. Evolves(server, server')
  BY <1>1, <1>2, <1>3 DEF Evolves, Server
<1> QED
  BY <1>2, <1>4, EvolvesSound

LEMMA JobForgottenSound ==
    ASSUME Sound(browser, server), NEW j \in Jobs, JobForgotten(j)
    PROVE  Sound(browser', server')
<1>1. /\ server \in Server /\ "gone" \in States /\ server[j].state = "done" /\ browser' = browser
      /\ server' = [server EXCEPT ![j].state = "gone"]
  BY DEF Sound, JobForgotten, States
<1>2. server' \in Server
  BY <1>1 DEF Server
<1>3. Evolves(server, server')
  BY <1>1, <1>2 DEF Evolves, Server
<1> QED
  BY <1>1, <1>3, EvolvesSound

-----------------------------------------------------------------------------
(* The cancel requests                                                      *)

LEMMA AfterStopSound ==
    ASSUME NEW b, NEW sv, Sound(b, sv), NEW c \in Requests
    PROVE  Sound(AfterStop(b, c), sv)
<1>1. c.job \in Jobs /\ FALSE \in BOOLEAN
  BY DEF Requests
<1> QED
  BY <1>1, ClearActiveSound, SettleStoppedSound DEF AfterStop

\* The intent is dropped only once the server has cancelled what it knows of the job.
LEMMA CancelAnsweredSound ==
    ASSUME Sound(browser, server), NEW c \in Requests, CancelAnswered(c)
    PROVE  Sound(browser', server')
<1> DEFINE j == c.job
           known == IF Live(j) THEN ClearActive(browser, j, FALSE) ELSE browser
<1>1. j \in Jobs /\ server \in Server /\ server' = Cancelled(j)
  BY DEF Requests, CancelAnswered, Sound
<1>2. browser' = AfterStop(ClearIntent(known, j), c)
  BY DEF CancelAnswered, Acknowledged
<1>3. Sound(browser, server') /\ (server'[j].state = "live" => server'[j].cancelled)
  BY <1>1, CancelledEvolves, EvolvesSound
<1>4. Sound(known, server')
  BY <1>1, <1>3, ClearActiveSound
<1> HIDE DEF known, j
<1>5. Sound(ClearIntent(known, j), server')
  BY <1>1, <1>3, <1>4, ClearIntentSound
<1> QED
  BY <1>2, <1>5, AfterStopSound

LEMMA CancelLostSound ==
    ASSUME Sound(browser, server), NEW c \in Requests, CancelLost(c)
    PROVE  Sound(browser', server')
<1>1. /\ c.job \in Jobs /\ server \in Server /\ server' \in {server, Cancelled(c.job)}
      /\ browser' = AfterStop(browser, c)
  BY DEF Requests, CancelLost, Unanswered, Sound
<1>2. Sound(browser, server')
  BY <1>1, CancelledEvolves, EvolvesSound
<1> QED
  BY <1>1, <1>2, AfterStopSound

-----------------------------------------------------------------------------
(* Opening and reloading the page                                           *)

\* A page that opens holds what localStorage and the saved schedule tell it.
LEMMA PageSound ==
    ASSUME NEW sv \in Server, NEW stored \in Schedules, NEW disk,
           disk.pending \in Maybe(Pending), SoundPending(disk.pending, sv),
           disk.settled \in SUBSET Jobs, disk.intents \in SUBSET Jobs,
           disk.suppressed \in BOOLEAN, disk.tombstone \in BOOLEAN
    PROVE  LET b == Page(stored, disk)
           IN  Sound(b, sv) /\ b.intents = disk.intents /\ b.stopped = {}
<1> DEFINE b == Page(stored, disk)
           fls == [f \in Flows |-> IdleFlow]
<1>1. fls \in [Flows -> FlowRecord] /\ \A f \in Flows : SoundFlow(fls[f], sv)
  BY IdleSound
<1> HIDE DEF fls
<1>2. "idle" \in {"idle", "listing", "cancelling"} /\ {} \in SUBSET Jobs /\ {} \in SUBSET Saves
  OBVIOUS
<1>3. b = [pending |-> disk.pending, settled |-> disk.settled, intents |-> disk.intents,
           suppressed |-> disk.suppressed, tombstone |-> disk.tombstone, stored |-> stored,
           sched |-> stored, active |-> None, lease |-> None, due |-> TRUE,
           halted |-> FALSE, busy |-> FALSE, resuming |-> FALSE, run |-> None,
           ctl |-> None, deferred |-> None, savePending |-> None, saves |-> {},
           sweep |-> "idle", sweepJob |-> None, stopped |-> {}, flow |-> fls]
  BY DEF Page, fls
<1> HIDE DEF b
<1>4. b \in Browser
  BY <1>1, <1>2, <1>3, Values DEF Browser
<1>5. b.pending = disk.pending /\ b.flow = fls /\ b.intents = disk.intents /\ b.stopped = {}
  BY <1>3
<1>6. Sound(b, sv)
  BY <1>1, <1>4, <1>5 DEF Sound
<1> QED
  BY <1>5, <1>6 DEF b

LEMMA InitSound ==
    ASSUME Init
    PROVE  Sound(browser, server)
<1> DEFINE disk(p) == [pending |-> p, settled |-> {}, intents |-> {},
                       suppressed |-> FALSE, tombstone |-> FALSE]
<1>1. ASSUME NEW sv \in Server, NEW p \in Maybe(Pending), SoundPending(p, sv)
      PROVE  Sound(Opening(p), sv)
  <2>1. /\ disk(p).pending = p /\ disk(p).settled \in SUBSET Jobs /\ disk(p).intents \in SUBSET Jobs
        /\ disk(p).suppressed \in BOOLEAN /\ disk(p).tombstone \in BOOLEAN
    OBVIOUS
  <2>2. Opening(p) = Page(Schedule0, disk(p))
    BY DEF Opening
  <2> HIDE DEF disk
  <2> QED
    BY <1>1, <2>1, <2>2, Values, PageSound
<1>2. Untold \in [state : States, fp : Schedules, cancelled : BOOLEAN]
  BY Values DEF Untold, States
<1>3. CASE server = [j \in Jobs |-> Untold] /\ browser = Opening(None)
  <2>1. server \in Server
    BY <1>2, <1>3 DEF Server
  <2> QED
    BY <1>1, <1>3, <2>1, Values DEF SoundPending
<1>4. CASE LET j == CHOOSE j \in Jobs : TRUE
           IN  /\ server = [k \in Jobs |->
                       IF k = j THEN [Untold EXCEPT !.state = "live"] ELSE Untold]
               /\ browser = Opening([job |-> j, fp |-> Schedule0, observe |-> FALSE])
  <2> DEFINE j == CHOOSE j \in Jobs : TRUE
             p == [job |-> j, fp |-> Schedule0, observe |-> FALSE]
             told == [Untold EXCEPT !.state = "live"]
  <2>1. j \in Jobs
    BY BridgeAssumption
  <2>2. /\ server = [k \in Jobs |-> IF k = j THEN told ELSE Untold]
        /\ browser = Opening(p)
    BY <1>4
  <2> HIDE DEF j
  <2>3. told \in [state : States, fp : Schedules, cancelled : BOOLEAN]
    BY <1>2 DEF States
  <2>4. told.state = "live" /\ told.fp = Schedule0
    BY DEF Untold
  <2> HIDE DEF told
  <2>5. server \in Server /\ server[j] = told
    BY <1>2, <2>1, <2>2, <2>3 DEF Server
  <2>6. p \in Maybe(Pending) /\ SoundPending(p, server)
    BY <2>1, <2>4, <2>5, Values DEF Pending, Maybe, SoundPending, PostedFor
  <2> HIDE DEF p
  <2> QED
    BY <1>1, <2>2, <2>5, <2>6
<1> QED
  BY <1>3, <1>4 DEF Init

LEMMA ReloadSound ==
    ASSUME Sound(browser, server), Reload
    PROVE  Sound(browser', server') /\ cancels' = {}
<1>1. PICK reached \in SUBSET cancels :
        server' = [j \in Jobs |->
            [server[j] EXCEPT !.cancelled = @ \/ (Live(j) /\ \E c \in reached : c.job = j)]]
  BY DEF Reload
<1>2. server \in Server /\ browser \in Browser
  BY DEF Sound
<1>3. ASSUME NEW j \in Jobs
      PROVE  /\ server'[j] \in [state : States, fp : Schedules, cancelled : BOOLEAN]
             /\ server'[j].state = server[j].state /\ server'[j].fp = server[j].fp
             /\ server[j].cancelled => server'[j].cancelled
  <2> DEFINE v == server[j].cancelled \/ (Live(j) /\ \E c \in reached : c.job = j)
  <2>1. server[j] \in [state : States, fp : Schedules, cancelled : BOOLEAN]
    BY <1>2 DEF Server
  <2>2. server'[j] = [server[j] EXCEPT !.cancelled = v] /\ v \in BOOLEAN
    BY <1>1, <2>1
  <2>3. server[j].cancelled => v
    OBVIOUS
  <2> HIDE DEF v
  <2> QED
    BY <2>1, <2>2, <2>3
<1>4. server' \in Server
  BY <1>1, <1>3 DEF Server
<1>5. Evolves(server, server')
  BY <1>3, <1>4 DEF Evolves
<1>6. Sound(browser, server')
  BY <1>5, EvolvesSound
<1> DEFINE page == Page(browser.stored, browser)
<1>7. Sound(page, server') /\ page.intents = browser.intents /\ page.stopped = {}
  <2>1. SoundPending(browser.pending, server')
    BY <1>6 DEF Sound
  <2> QED
    BY <1>2, <1>4, <2>1, Fields, PageSound
<1>8. browser' = [page EXCEPT !.stopped = browser.stopped] /\ cancels' = {}
  BY DEF Reload
<1> HIDE DEF page
<1>9. page \in Browser /\ browser.stopped \in SUBSET Jobs
  BY <1>2, <1>7, Fields DEF Sound
<1>10. browser' \in Browser
  BY <1>8, <1>9, Zenon DEF Browser
<1>11. /\ browser'.pending = page.pending /\ browser'.flow = page.flow
       /\ browser'.intents = browser.intents /\ browser'.stopped = browser.stopped
  BY <1>7, <1>8, <1>9 DEF Browser
<1> QED
  BY <1>6, <1>7, <1>8, <1>10, <1>11 DEF Sound

-----------------------------------------------------------------------------
(* A new solve                                                              *)

LEMMA PostsJobSound ==
    ASSUME Sound(browser, server), NEW j \in Jobs, server[j].state = "none", PostsJob(j)
    PROVE  Sound(browser', server')
<1> DEFINE b == browser
           prior == IF b.deferred = None THEN b ELSE SettleDeferred(b, b.deferred)
           stale == prior.pending # None /\ prior.pending.fp # b.sched
           clear == IF stale THEN [prior EXCEPT !.pending = None] ELSE prior
           owned == [clear EXCEPT !.run = "click", !.busy = TRUE, !.ctl = "click"]
           fl == [IdleFlow EXCEPT !.pc = "post", !.job = j, !.own = j, !.solve = TRUE,
                                  !.guard = b.sched, !.back = b.sched]
<1>1. PICK reached \in BOOLEAN :
        server' = [IF stale /\ reached THEN Cancelled(RecordedJob(prior)) ELSE server
                      EXCEPT ![j].state = "posted", ![j].fp = b.sched]
  BY DEF PostsJob
<1>2. browser' = [SetActive(owned, j, b.sched) EXCEPT !.flow["click"] = fl]
  BY DEF PostsJob
<1>3. /\ server \in Server /\ b \in Browser /\ b.sched \in Schedules
      /\ b.deferred # None => b.deferred \in Jobs
  BY Fields DEF Sound, Maybe
<1>4. Sound(prior, server)
  BY <1>3, SettleDeferredSound
<1> HIDE DEF prior
<1> DEFINE dropped == IF stale /\ reached THEN Cancelled(RecordedJob(prior)) ELSE server
<1>5. /\ Evolves(server, dropped)
      /\ \A k \in Jobs : dropped[k].state = server[k].state /\ dropped[k].fp = server[k].fp
  <2>1. stale => RecordedJob(prior) \in Jobs
    BY <1>4, RecordedIsPosted DEF PostedFor
  <2> QED
    BY <1>3, <2>1, CancelledEvolves
<1>6. server' = [dropped EXCEPT ![j].state = "posted", ![j].fp = b.sched]
  BY <1>1
<1> HIDE DEF dropped
<1>7. dropped \in Server /\ dropped[j].state = "none"
  BY <1>5 DEF Evolves
<1>8. server' \in Server /\ server'[j].state = "posted" /\ server'[j].fp = b.sched
  BY <1>3, <1>6, <1>7 DEF Server, States
<1>9. \A k \in Jobs : k # j => server'[k] = dropped[k]
  BY <1>6, <1>7 DEF Server
<1>10. Evolves(dropped, server')
  BY <1>7, <1>8, <1>9 DEF Evolves
<1>11. Sound(prior, server') /\ PostedFor(server', j, b.sched)
  BY <1>4, <1>5, <1>8, <1>10, EvolvesSound DEF PostedFor
<1>12. Sound(clear, server')
  BY <1>11, NoPendingSound
<1> HIDE DEF clear
<1>13. clear \in Browser
  BY <1>12 DEF Sound
<1>14. owned \in Browser
  BY <1>13, Values, Zenon DEF Browser
<1>15. /\ owned.pending = clear.pending /\ owned.flow = clear.flow /\ owned.stopped = clear.stopped
       /\ owned.intents = clear.intents
  BY <1>13 DEF Browser
<1> HIDE DEF owned
<1>16. Sound(owned, server')
  BY <1>12, <1>14, <1>15, SameSound
<1>17. Sound(SetActive(owned, j, b.sched), server')
  BY <1>11, <1>16, SetActiveSound
<1>18. fl \in FlowRecord
  <2>1. IdleFlow \in FlowRecord /\ "post" \in PCs /\ j \in Maybe(Jobs) /\ TRUE \in BOOLEAN
    BY IdleSound, Values DEF PCs
  <2> QED
    BY <1>3, <2>1, Zenon DEF FlowRecord
<1>19. fl.pc = "post" /\ fl.job = j /\ fl.own = j /\ fl.guard = b.sched
  BY DEF IdleFlow
<1> HIDE DEF fl
<1>20. SoundFlow(fl, server')
  BY <1>8, <1>19 DEF SoundFlow, Turn
<1> QED
  BY <1>2, <1>17, <1>18, <1>20, Values, FlowSound

LEMMA BarrierOpensSound ==
    ASSUME Sound(browser, server), BarrierOpens
    PROVE  Sound(browser', server')
<1> DEFINE j == CHOOSE j \in Jobs : server[j].state = "none"
<1>1. CASE browser' = EndFlow(browser, "click") /\ server' = server
  BY <1>1, Values, EndFlowSound
<1>2. CASE (\E k \in Jobs : server[k].state = "none") /\ PostsJob(j)
  <2>1. j \in Jobs /\ server[j].state = "none"
    BY <1>2
  <2> HIDE DEF j
  <2> QED
    BY <1>2, <2>1, PostsJobSound
<1> QED
  BY <1>1, <1>2 DEF BarrierOpens

LEMMA PostAnsweredSound ==
    ASSUME Sound(browser, server), PostAnswered
    PROVE  Sound(browser', server')
<1> DEFINE b == browser
           fl == b.flow["click"]
<1>1. "click" \in Flows /\ fl \in FlowRecord /\ SoundFlow(fl, server) /\ b \in Browser
  BY Values, Fields DEF Sound
<1>2. /\ fl.pc = "post" /\ server' = server
      /\ \/ browser' = [b EXCEPT !.flow["click"].pc = "poll"]
         \/ \E k \in Twins(fl.guard) :
               browser' \in {Polls(RemovePending(b, fl.job), k, k), Polls(b, k, fl.job)}
  BY DEF PostAnswered
<1>3. CASE browser' = [b EXCEPT !.flow["click"].pc = "poll"]
  <2>1. "poll" \in PCs /\ SoundFlow([fl EXCEPT !.pc = "poll"], server)
    BY <1>1, <1>2 DEF SoundFlow, FlowRecord, Turn, PCs
  <2> QED
    BY <1>1, <1>2, <1>3, <2>1, PcSound
<1>4. ASSUME NEW k \in Twins(fl.guard), NEW c, Sound(c, server), NEW own \in Jobs
      PROVE  Sound(Polls(c, k, own), server)
  <2> DEFINE turn == [fl EXCEPT !.pc = "poll", !.job = k, !.own = own]
  <2>1. PostedFor(server, k, fl.guard)
    BY DEF Twins, Unresolved, Live, PostedFor
  <2>2. Sound(SetActive(c, k, fl.guard), server)
    BY <1>4, <2>1, SetActiveSound
  <2>3. "poll" \in PCs /\ k \in Jobs /\ k \in Maybe(Jobs) /\ own \in Maybe(Jobs)
    BY <2>1, Values DEF PCs, PostedFor
  <2>4. turn \in FlowRecord
    BY <1>1, <2>3, Zenon DEF FlowRecord
  <2>5. SoundFlow(turn, server)
    BY <1>1, <2>1, <2>3 DEF SoundFlow, FlowRecord, Turn, PostedFor
  <2>6. Polls(c, k, own) = [SetActive(c, k, fl.guard) EXCEPT !.flow["click"] = turn]
    BY DEF Polls
  <2> HIDE DEF turn
  <2> QED
    BY <1>1, <2>2, <2>4, <2>5, <2>6, FlowSound
<1>5. fl.job \in Jobs /\ Sound(RemovePending(b, fl.job), server)
  BY <1>1, <1>2, RemovePendingSound DEF SoundFlow, Turn
<1> HIDE DEF fl
<1>6. CASE \E k \in Twins(fl.guard) :
              browser' \in {Polls(RemovePending(b, fl.job), k, k), Polls(b, k, fl.job)}
  <2>1. PICK k \in Twins(fl.guard) :
              browser' \in {Polls(RemovePending(b, fl.job), k, k), Polls(b, k, fl.job)}
    BY <1>6
  <2>2. k \in Jobs
    BY DEF Twins, Unresolved
  <2> QED
    BY <1>2, <1>4, <1>5, <2>1, <2>2
<1> QED
  BY <1>2, <1>3, <1>6

LEMMA PostRefusedSound ==
    ASSUME Sound(browser, server), PostRefused
    PROVE  Sound(browser', server')
BY Values, FailSound, RefuseSound DEF PostRefused, Turn

-----------------------------------------------------------------------------
(* The invariant                                                            *)

SpentOK == spent \in [events : 0..MaxEvents, clicks : 0..MaxClicks]

LEMMA SpentStep ==
    ASSUME SpentOK, Next
    PROVE  SpentOK'
<1>1. CASE spent' = spent
  BY <1>1 DEF SpentOK
<1>2. CASE Happened
  BY <1>2, BridgeAssumption DEF SpentOK, Happened
<1>3. CASE Click
  BY <1>3, BridgeAssumption DEF SpentOK, Click
<1>4. CASE Edit \/ Stop \/ Delete \/ Reload
  BY <1>2, <1>4 DEF Edit, Stop, Delete, Reload
<1>5. CASE \E f \in Flows : FlowStep(f)
  BY <1>1, <1>5 DEF FlowStep, PollEnds, PollLost, PollAnswered, BodyRead, Applies, ApplyFails,
                    SaveLands, SaveWatchdog
<1>6. CASE \/ Wake \/ TimerFires \/ ResumeBegins \/ ProbeLost \/ StaleProbed \/ Probed
           \/ Inspected \/ BarrierOpens \/ PostAnswered \/ PostRefused \/ SweepLists
           \/ SweepEnds
  BY <1>1, <1>6 DEF Wake, TimerFires, ResumeBegins, ProbeLost, StaleProbed, Probed, Inspected,
                    BarrierOpens, PostAnswered, PostRefused, SweepLists, SweepEnds
<1>7. CASE \/ \E c \in Requests : CancelAnswered(c) \/ CancelLost(c)
           \/ \E j \in Jobs : PostLands(j) \/ JobEnds(j) \/ JobForgotten(j)
           \/ \E s \in Saves : LateSaveLands(s) \/ LateSaveFails(s)
  BY <1>1, <1>7 DEF CancelAnswered, CancelLost, PostLands, JobEnds, JobForgotten,
                    LateSaveLands, LateSaveFails
<1> QED
  BY <1>3, <1>4, <1>5, <1>6, <1>7 DEF Next

\* One step of a turn that already runs.
LEMMA FlowStepSound ==
    ASSUME Sound(browser, server), NEW f \in Flows, FlowStep(f)
    PROVE  Sound(browser', server') /\ cancels' = cancels
<1>1. CASE PollEnds(f)
  BY <1>1, PollEndsSound DEF PollEnds
<1>2. CASE PollLost(f)
  BY <1>2, PollLostSound DEF PollLost
<1>3. CASE PollAnswered(f)
  BY <1>3, PollAnsweredSound DEF PollAnswered
<1>4. CASE BodyRead(f)
  BY <1>4, BodyReadSound DEF BodyRead
<1>5. CASE Applies(f)
  BY <1>5, AppliesSound DEF Applies
<1>6. CASE ApplyFails(f)
  BY <1>6, ApplyFailsSound DEF ApplyFails
<1>7. CASE SaveLands(f)
  BY <1>7, SaveLandsSound DEF SaveLands
<1>8. CASE SaveWatchdog(f)
  BY <1>8, SaveWatchdogSound DEF SaveWatchdog
<1> QED
  BY <1>1, <1>2, <1>3, <1>4, <1>5, <1>6, <1>7, <1>8 DEF FlowStep

LEMMA NextSound ==
    ASSUME Sound(browser, server), cancels \subseteq Requests, Next
    PROVE  Sound(browser', server') /\ cancels' \subseteq Requests
<1>1. CASE Edit
  BY <1>1, EditSound DEF Edit
<1>2. CASE Stop
  BY <1>2, StopSound
<1>3. CASE Delete
  BY <1>3, DeleteSound
<1>4. CASE Reload
  BY <1>4, ReloadSound
<1>5. CASE Wake
  BY <1>5, WakeSound
<1>6. CASE Click
  BY <1>6, ClickSound DEF Click
<1>7. CASE TimerFires
  BY <1>7, TimerFiresSound
<1>8. CASE ResumeBegins
  BY <1>8, ResumeBeginsSound DEF ResumeBegins
<1>9. CASE ProbeLost
  BY <1>9, ProbeLostSound DEF ProbeLost
<1>10. CASE StaleProbed
  BY <1>10, StaleProbedSound DEF StaleProbed
<1>11. CASE Probed
  BY <1>11, ProbedSound DEF Probed
<1>12. CASE Inspected
  BY <1>12, InspectedSound DEF Inspected
<1>13. CASE BarrierOpens
  BY <1>13, BarrierOpensSound DEF BarrierOpens
<1>14. CASE PostAnswered
  BY <1>14, PostAnsweredSound DEF PostAnswered
<1>15. CASE SweepLists
  BY <1>15, SweepListsSound
<1>16. CASE SweepEnds
  BY <1>16, SweepEndsSound DEF SweepEnds
<1>17. ASSUME NEW c \in Requests, CancelAnswered(c) \/ CancelLost(c)
       PROVE  Sound(browser', server') /\ cancels' \subseteq Requests
  <2>1. cancels' = cancels \ {c}
    BY <1>17 DEF CancelAnswered, CancelLost
  <2> QED
    BY <1>17, <2>1, CancelAnsweredSound, CancelLostSound
<1>18. ASSUME NEW j \in Jobs, PostLands(j) \/ JobEnds(j) \/ JobForgotten(j)
       PROVE  Sound(browser', server') /\ cancels' \subseteq Requests
  <2>1. cancels' = cancels
    BY <1>18 DEF PostLands, JobEnds, JobForgotten
  <2> QED
    BY <1>18, <2>1, PostLandsSound, JobEndsSound, JobForgottenSound
<1>19. ASSUME NEW f \in Flows, FlowStep(f)
       PROVE  Sound(browser', server') /\ cancels' \subseteq Requests
  BY <1>19, FlowStepSound
<1>20. ASSUME NEW s \in Saves, LateSaveLands(s) \/ LateSaveFails(s)
       PROVE  Sound(browser', server') /\ cancels' \subseteq Requests
  <2>1. cancels' = cancels
    BY <1>20 DEF LateSaveLands, LateSaveFails
  <2> QED
    BY <1>20, <2>1, LateSaveLandsSound, LateSaveFailsSound
<1>21. CASE PostRefused
  BY <1>21, PostRefusedSound DEF PostRefused
<1> QED
  BY <1>1, <1>2, <1>3, <1>4, <1>5, <1>6, <1>7, <1>8, <1>9, <1>10, <1>11, <1>12, <1>13, <1>14,
     <1>15, <1>16, <1>17, <1>18, <1>19, <1>20, <1>21 DEF Next

LEMMA InitInv == Init => BridgeInv
<1> SUFFICES ASSUME Init PROVE BridgeInv
  OBVIOUS
<1>1. cancels \subseteq Requests /\ spent \in [events : 0..MaxEvents, clicks : 0..MaxClicks]
  BY BridgeAssumption DEF Init
<1> QED
  BY <1>1, InitSound DEF BridgeInv

LEMMA NextInv == BridgeInv /\ [Next]_vars => BridgeInv'
<1> SUFFICES ASSUME BridgeInv, [Next]_vars PROVE BridgeInv'
  OBVIOUS
<1>1. CASE Next
  <2>1. Sound(browser', server') /\ cancels' \subseteq Requests
    BY <1>1, NextSound DEF BridgeInv
  <2>2. SpentOK'
    BY <1>1, SpentStep DEF BridgeInv, SpentOK
  <2> QED
    BY <2>1, <2>2 DEF BridgeInv, SpentOK
<1>2. CASE UNCHANGED vars
  BY <1>2 DEF BridgeInv, vars
<1> QED
  BY <1>1, <1>2

\* The page stays sound for ever: its recorded job and the jobs of its flows
\* were posted under the schedules they are recorded with, and a job it
\* stopped is cancelled or still to be cancelled.
THEOREM PageStaysSound == Spec => []BridgeInv
BY InitInv, NextInv, PTL DEF Spec

LEMMA InvIsTyped == BridgeInv => TypeOK
<1> SUFFICES ASSUME BridgeInv PROVE TypeOK
  OBVIOUS
<1>1. browser \in Browser /\ Sound(browser, server)
  BY DEF BridgeInv, Sound
<1>2. \A f \in Flows : browser.flow[f].pc \in {"post", "poll", "body", "apply", "save"} =>
                         {browser.flow[f].job, browser.flow[f].own} \subseteq Jobs
  BY <1>1, TurnJob DEF Turn
<1>3. server \in [Jobs -> [state : {"none", "posted", "live", "done", "failed", "gone"},
                           fp : Schedules, cancelled : BOOLEAN]]
  BY DEF BridgeInv, Sound, Server, States
<1>4. cancels \subseteq Requests /\ spent \in [events : 0..MaxEvents, clicks : 0..MaxClicks]
  BY DEF BridgeInv
<1>5. browser.flow \in [Flows -> [pc : PCs, job : Maybe(Jobs), own : Maybe(Jobs),
                                  guard : Schedules, back : Schedules, watch : BOOLEAN,
                                  current : BOOLEAN, aborted : BOOLEAN, solve : BOOLEAN]]
  BY <1>1, Fields DEF FlowRecord
<1> QED
  BY <1>1, <1>2, <1>3, <1>4, <1>5, Fields DEF TypeOK

\* The bridge is type correct: what localStorage, the page and the server hold.
THEOREM BridgeTyped == Spec => []TypeOK
BY PageStaysSound, InvIsTyped, PTL

\* Stop and Delete reach the server: a job they found there is cancelled, or
\* the intent to cancel it is still recorded, whatever is lost, reloaded,
\* retried or clicked in between (HardStop, the intents and their retries).
THEOREM StopsAreKept == Spec => []StopReachesServer
<1>1. BridgeInv => StopReachesServer
  BY DEF BridgeInv, Sound, SoundStop, StopReachesServer, Live
<1> QED
  BY <1>1, PageStaysSound, PTL

\* A result is applied only over the schedule its job was posted for, by every
\* way a flow comes to a job: the recorded one, one the server offers, the twin
\* a POST was answered with, and the flow's own POST.
THEOREM ResultsBelong == Spec => []ResultIsOfItsSchedule
<1>1. BridgeInv => ResultIsOfItsSchedule
  BY DEF BridgeInv, Sound, SoundFlow, ResultIsOfItsSchedule, Turn
<1> QED
  BY <1>1, PageStaysSound, PTL
=============================================================================
