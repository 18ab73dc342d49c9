---------------------------- MODULE BridgeSolve ----------------------------
(***************************************************************************)
(* The browser's side of a server-owned solve (tkb-rust-bridge.js): how a  *)
(* tab starts a job, remembers it in localStorage, finds it again after a  *)
(* reload, applies its result to the schedule and saves it, and how Stop   *)
(* and Delete end it.  Two asynchronous flows run in one tab: "auto", the  *)
(* single-flight resume of the recorded job, and "click", the handler of   *)
(* the sort button.  JavaScript interleaves them, the user's events and    *)
(* the answers of the network at every await, so an action here is the     *)
(* code from one await to the next.                                        *)
(*                                                                         *)
(* One schedule scope, one tab.  The solver server is external: a job is   *)
(* created by a POST, finishes, and is forgotten.  A schedule is named by  *)
(* its revision and by the job whose result it holds (None for the user's  *)
(* own); its fingerprint is the schedule itself.                           *)
(***************************************************************************)
EXTENDS Naturals, FiniteSets

CONSTANTS Jobs,         \* solve run ids, a job is posted under one of them
          None,
          Events,       \* what may happen to a turn: edit, delete, stop, reload
          MaxEvents, MaxClicks

VARIABLES browser,      \* the tab: localStorage, page variables, both flows
          server,       \* external: what the server knows of each job
          cancels,      \* cancel requests in flight, by job and sender
          spent         \* how many of the user's events were used

vars == <<browser, server, cancels, spent>>

Schedules == [rev : Nat, by : Jobs \cup {None}]
Pending   == [job : Jobs, fp : Schedules, observe : BOOLEAN]

\* The tab may record a job when it opens; a missing job is none of the jobs.
ASSUME BridgeAssumption ==
    /\ Jobs # {} /\ None \notin Jobs /\ None \notin Pending
    /\ MaxEvents \in Nat /\ MaxClicks \in Nat

\* A turn polls one job and settles, in the end, its own: the id it was started
\* with, which an answer naming the same schedule's job may leave behind.
Flows == {"auto", "click"}
Schedule0 == [rev |-> 0, by |-> None]
IdleFlow == [pc |-> "idle", job |-> None, own |-> None, guard |-> Schedule0,
             back |-> Schedule0, watch |-> FALSE, current |-> TRUE, aborted |-> FALSE,
             solve |-> FALSE]

(***************************************************************************)
(* localStorage and the saved schedule survive a reload, the rest of the   *)
(* record is page state.                                                   *)
(***************************************************************************)
Page(stored, disk) ==
    [pending |-> disk.pending, settled |-> disk.settled, intents |-> disk.intents,
     suppressed |-> disk.suppressed, tombstone |-> disk.tombstone, stored |-> stored,
     sched |-> stored, active |-> None, lease |-> None, due |-> TRUE,
     halted |-> FALSE, busy |-> FALSE, resuming |-> FALSE, run |-> None,
     ctl |-> None, deferred |-> None, savePending |-> None, saves |-> {},
     sweep |-> "idle", sweepJob |-> None, stopped |-> {},
     flow |-> [f \in Flows |-> IdleFlow]]

Live(j) == server[j].state = "live"
Unknown(j) == server[j].state \in {"none", "posted", "gone"}

(***************************************************************************)
(* The recorded job, the settled jobs and the cancel intents.              *)
(***************************************************************************)
Suppressed(b) == b.halted \/ b.suppressed
Settle(b, j) == [b EXCEPT !.settled = @ \cup {j}]
Forget(b, j) == [b EXCEPT !.settled = @ \ {j}]
Remember(b, js) == [b EXCEPT !.intents = @ \cup js]
ClearIntent(b, j) == [b EXCEPT !.intents = @ \ {j}]
RecordedJob(b) == IF b.pending = None THEN None ELSE b.pending.job
Observing(b) == b.pending # None /\ b.pending.observe
\* Faulty variant: the record stays, without its job.
RemovePendingHalf(b, j) ==
    IF RecordedJob(b) = j THEN [b EXCEPT !.pending = [job |-> None]] ELSE b
RemovePending(b, j) == IF RecordedJob(b) = j THEN [b EXCEPT !.pending = None] ELSE b

WritePending(b, j, fp, observe, replay) ==
    IF j \in b.settled /\ ~replay THEN b
    ELSE [b EXCEPT !.pending = [job |-> j, fp |-> fp, observe |-> observe]]

SetActive(b, j, fp) ==
    WritePending([b EXCEPT !.active = j], j, fp,
                 RecordedJob(b) = j /\ b.pending.observe, b.lease = j)

EndLease(b, j) == IF b.lease = j THEN [b EXCEPT !.lease = None] ELSE b

ClearActive(b, j, force) ==
    IF \/ ~force /\ b.lease = j
       \/ b.active \notin {None, j}
    THEN b
    ELSE RemovePending(Settle([b EXCEPT !.active = None], j), j)

(***************************************************************************)
(* The resume timer.  Scheduling is refused, and the timer cleared, while  *)
(* automatic resume is suppressed.                                         *)
(***************************************************************************)
CancelTimer(b) == [b EXCEPT !.due = FALSE]
ScheduleResume(b) == [b EXCEPT !.due = ~Suppressed(b)]
ScheduleIfPending(b) == IF b.pending = None THEN b ELSE ScheduleResume(b)

EndFlow(b, f) == [b EXCEPT !.flow[f] = IdleFlow]

LocalActive(b) ==
    b.flow["click"].pc # "idle" \/ b.busy \/ b.resuming \/ b.ctl # None

(***************************************************************************)
(* Settling the deferred result of a turn: the job is recorded as settled  *)
(* and leaves the slot.                                                    *)
(***************************************************************************)
SettleDeferred(b, j) ==
    ClearActive([b EXCEPT !.deferred = IF @ = j THEN None ELSE @,
                          !.savePending = IF @ = j THEN None ELSE @], j, TRUE)

(***************************************************************************)
(* What Stop and Delete do to the page, and what a genuine click undoes.   *)
(* SettleStopped clears the controller only when it is still the stopped   *)
(* turn's own.                                                             *)
(***************************************************************************)
SettleStopped(b, own) ==
    [b EXCEPT !.due = FALSE, !.lease = None, !.active = None,
              !.ctl = IF own THEN None ELSE @, !.run = None,
              !.resuming = FALSE, !.busy = FALSE]

\* The abort signal is read only before the result is being applied.
Abort(b) ==
    [b EXCEPT !.flow = [f \in Flows |->
        [b.flow[f] EXCEPT
            !.current = FALSE,
            !.aborted = @ \/ (b.ctl = f /\ b.flow[f].pc \notin {"apply", "save"})]]]

KnownJob(b) == IF b.active # None THEN b.active ELSE RecordedJob(b)

HardStop(b, j) ==
    LET fenced == Abort([b EXCEPT !.suppressed = TRUE, !.halted = TRUE, !.due = FALSE])
        dropped == IF j = None THEN fenced
                   ELSE EndLease(RemovePending(Settle(fenced, j), j), j)
    IN  SettleStopped(dropped, TRUE)

PrepareManual(b) ==
    IF b.resuming THEN b
    ELSE LET kept == IF RecordedJob(b) \in b.settled THEN [b EXCEPT !.pending = None] ELSE b
         IN  [kept EXCEPT !.due = FALSE, !.suppressed = FALSE, !.tombstone = FALSE,
                          !.halted = FALSE,
                          !.sweep = IF b.tombstone /\ @ = "idle" THEN "listing" ELSE @]

(***************************************************************************)
(* Attaching to a job that already runs.  A reattach may apply the result, *)
(* an observer only waits for the end.                                     *)
(***************************************************************************)
StartReattach(b, f, j, fp) ==
    IF Suppressed(b) THEN EndFlow(b, f)
    ELSE IF fp # b.sched THEN EndFlow(RemovePending(b, j), f)
    ELSE LET leased == [b EXCEPT !.lease = j, !.resuming = TRUE, !.busy = TRUE,
                                 !.run = f, !.ctl = f]
             owned == SetActive(WritePending(leased, j, fp, FALSE, TRUE), j, fp)
         IN  [owned EXCEPT !.flow[f] =
                 [IdleFlow EXCEPT !.pc = "poll", !.job = j, !.own = j, !.guard = b.sched]]

StartObserve(b, f, j, fp) ==
    LET seen == IF RecordedJob(b) = j /\ b.pending.observe THEN b
                ELSE WritePending(b, j, fp, TRUE, FALSE)
        owned == SetActive([seen EXCEPT !.busy = TRUE, !.halted = FALSE,
                                        !.run = f, !.ctl = f], j, seen.pending.fp)
    IN  IF seen.pending = None THEN EndFlow(b, f)
        ELSE [owned EXCEPT !.flow[f] =
                 [IdleFlow EXCEPT !.pc = "poll", !.job = j, !.own = j, !.watch = TRUE]]

(***************************************************************************)
(* The ends of the flows.  A reattach and an observer clear the busy flags *)
(* whether or not they are still their own, and an observer the active     *)
(* job too, which may be a later turn's; the automatic flow then rearms    *)
(* the timer.                                                              *)
(***************************************************************************)
ReleaseTurn(b, f) == [b EXCEPT !.ctl = IF @ = f THEN None ELSE @,
                               !.run = IF @ = f THEN None ELSE @]

\* Faulty variant: the busy flags stay set.
FinishReattachBusy(b, f) ==
    LET free == EndFlow(EndLease(ReleaseTurn(b, f), b.flow[f].job), f)
    IN  IF f = "auto" THEN ScheduleIfPending(free) ELSE free
FinishReattach(b, f) ==
    LET j == b.flow[f].job
        free == EndFlow(EndLease([ReleaseTurn(b, f) EXCEPT !.busy = FALSE,
                                                           !.resuming = FALSE], j), f)
    IN  IF f = "auto" THEN ScheduleIfPending(free) ELSE free

FinishObserve(b, f) ==
    EndFlow([ReleaseTurn(b, f) EXCEPT !.active = None, !.busy = FALSE], f)

FinishSolve(b, f) ==
    EndFlow(IF b.run = f THEN [ReleaseTurn(b, f) EXCEPT !.busy = FALSE]
            ELSE [b EXCEPT !.ctl = IF @ = f THEN None ELSE @], f)

Finish(b, f) ==
    IF b.flow[f].watch THEN FinishObserve(b, f)
    ELSE IF b.flow[f].solve THEN FinishSolve(b, f)
    ELSE FinishReattach(b, f)

(***************************************************************************)
(* A failure that keeps the job recorded, with the timer rearmed or not,   *)
(* and one that settles it.  A solve that fails while the run is its own   *)
(* restores the schedule it started from and saves it; a reattach only     *)
(* when it was applying.                                                   *)
(***************************************************************************)
Restored(b, f) ==
    LET fl == b.flow[f]
        restores == IF fl.solve THEN b.run = f ELSE fl.pc \in {"apply", "save"}
    IN  IF restores THEN [b EXCEPT !.sched = fl.back, !.stored = fl.back] ELSE b

Detach(b, f) == Finish(Restored(ScheduleResume(b), f), f)
Refuse(b, f) == Finish(Restored(b, f), f)
Fail(b, f) ==
    LET fl == b.flow[f]
    IN  Finish(Restored(ClearActive(b, fl.own, ~fl.watch /\ ~fl.solve), f), f)

-----------------------------------------------------------------------------
(***************************************************************************)
(* The user's events and the page's own.                                   *)
(***************************************************************************)
Happened ==
    /\ spent.events < MaxEvents
    /\ spent' = [spent EXCEPT !.events = @ + 1]

Edit ==
    /\ "edit" \in Events
    /\ LET edited == [rev |-> browser.sched.rev + 1, by |-> None]
       IN  browser' = [browser EXCEPT !.sched = edited, !.stored = edited]
    /\ Happened
    /\ UNCHANGED <<server, cancels>>

\* requestStopActiveSolve without a best result to retain
Stop ==
    /\ "stop" \in Events
    /\ LET j == KnownJob(browser)
           asked == IF j = None THEN {} ELSE {j}
       IN  /\ browser' = [Remember(HardStop(browser, j), asked) EXCEPT
                             !.stopped = @ \cup {k \in asked : ~Unknown(k)}]
           /\ cancels' = cancels \cup {[job |-> k, from |-> "stop"] : k \in asked}
    /\ Happened
    /\ UNCHANGED server

\* invalidatePendingSolveForScheduleMutation, on the deletion of the schedule
Delete ==
    /\ "delete" \in Events
    /\ LET j == KnownJob(browser)
           asked == IF j = None \/ browser.sweep # "idle" THEN {} ELSE {j}
           emptied == [rev |-> browser.sched.rev + 1, by |-> None]
       IN  /\ browser' = [Remember(HardStop(browser, j), asked) EXCEPT
                             !.sched = emptied, !.stored = emptied, !.tombstone = TRUE,
                             !.stopped = @ \cup {k \in asked : ~Unknown(k)},
                             !.sweep = IF @ = "idle" THEN "listing" ELSE @,
                             !.sweepJob = j]
           /\ cancels' = cancels \cup {[job |-> k, from |-> "sweep"] : k \in asked}
    /\ Happened
    /\ UNCHANGED server

\* The state probe of the sweep: every live job of the schedule is cancelled.
SweepLists ==
    /\ browser.sweep = "listing"
    /\ \E heard \in BOOLEAN :
          LET found == {j \in Jobs : heard /\ Live(j) /\ ~server[j].cancelled}
          IN  /\ browser' = [Remember(browser, found) EXCEPT
                                !.sweep = "cancelling", !.stopped = @ \cup found]
              /\ cancels' = cancels \cup {[job |-> j, from |-> "sweep"] : j \in found}
    /\ UNCHANGED <<server, spent>>

SweepEnds ==
    /\ browser.sweep = "cancelling"
    /\ ~\E c \in cancels : c.from = "sweep"
    /\ LET j == browser.sweepJob
           done == IF j = None THEN browser ELSE ClearActive(browser, j, TRUE)
       IN  browser' = [done EXCEPT !.sweep = "idle", !.sweepJob = None]
    /\ UNCHANGED <<server, cancels, spent>>

\* A reload, a crash of the page, or the browser discarding it
Reload ==
    /\ "reload" \in Events
    /\ \E reached \in SUBSET cancels :
          server' = [j \in Jobs |->
              [server[j] EXCEPT !.cancelled =
                  @ \/ (Live(j) /\ \E c \in reached : c.job = j)]]
    /\ browser' = [Page(browser.stored, browser) EXCEPT
                      !.stopped = browser.stopped]
    /\ cancels' = {}
    /\ Happened

\* visibilitychange, pageshow, online: the intents are retried at once
Wake ==
    /\ browser' = ScheduleResume(browser)
    /\ cancels' = cancels \cup {[job |-> j, from |-> "retry"] : j \in browser.intents}
    /\ UNCHANGED <<server, spent>>

(***************************************************************************)
(* A cancel request.  The server answers ok whether or not it knows the    *)
(* job, and ok is enough for the sender to drop the intent.  After the     *)
(* answer, or the loss of it, Stop settles the page a second time.         *)
(***************************************************************************)
Cancelled(j) == [server EXCEPT ![j].cancelled = @ \/ Live(j)]

AfterStop(b, c) ==
    IF c.from = "stop" THEN SettleStopped(ClearActive(b, c.job, FALSE), FALSE) ELSE b

Acknowledged(b, j) ==
    LET known == IF Live(j) THEN ClearActive(b, j, FALSE) ELSE b
    IN  ClearIntent(known, j)

\* Faulty variant: the intent is dropped although nobody answered.
UnansweredForgets(b, j) == ClearIntent(b, j)

\* The intent survives a lost answer, so that Wake and TimerFires retry it.
Unanswered(b, j) == b

CancelAnswered(c) ==
    /\ c \in cancels
    /\ server' = Cancelled(c.job)
    /\ browser' = AfterStop(Acknowledged(browser, c.job), c)
    /\ cancels' = cancels \ {c}
    /\ UNCHANGED spent

CancelLost(c) ==
    /\ c \in cancels
    /\ server' \in {server, Cancelled(c.job)}
    /\ browser' = AfterStop(Unanswered(browser, c.job), c)
    /\ cancels' = cancels \ {c}
    /\ UNCHANGED spent

(***************************************************************************)
(* The server, external.                                                   *)
(***************************************************************************)
JobEnds(j) ==
    /\ Live(j)
    /\ \E end \in {"done", "failed"} :
          /\ server[j].cancelled => end = "failed"
          /\ server' = [server EXCEPT ![j].state = end, ![j].cancelled = FALSE]
    /\ UNCHANGED <<browser, cancels, spent>>

JobForgotten(j) ==
    /\ server[j].state = "done"
    /\ server' = [server EXCEPT ![j].state = "gone"]
    /\ UNCHANGED <<browser, cancels, spent>>

-----------------------------------------------------------------------------
(***************************************************************************)
(* The automatic flow.  The timer starts it, a call that finds it running  *)
(* joins it.  It first retries the cancel intents and waits for them.      *)
(***************************************************************************)
TimerFires ==
    /\ browser.due
    /\ LET rung == CancelTimer(browser)
           starts == ~Suppressed(rung) /\ rung.flow["auto"].pc = "idle"
       IN  /\ browser' = IF starts THEN [rung EXCEPT !.flow["auto"].pc = "begin"] ELSE rung
           /\ cancels' = IF starts
                         THEN cancels \cup {[job |-> j, from |-> "retry"] : j \in rung.intents}
                         ELSE cancels
    /\ UNCHANGED <<server, spent>>

\* From the retried intents to the probe of the server's state; the timer was
\* cancelled before the retry, one armed since then stays armed
ResumeBegins ==
    /\ browser.flow["auto"].pc = "begin"
    /\ ~\E c \in cancels : c.from = "retry"
    /\ LET b == browser
           adopt == Observing(b) /\ b.pending.fp = b.sched
           seen == IF adopt THEN WritePending(b, b.pending.job, b.sched, FALSE, FALSE) ELSE b
           p == seen.pending
           stale == p # None /\ p.fp # b.sched /\ ~p.observe
           leased == IF p = None \/ stale \/ p.observe THEN seen
                     ELSE [seen EXCEPT !.lease = p.job]
       IN  browser' =
             IF Suppressed(b) THEN EndFlow(b, "auto")
             ELSE IF LocalActive(b) THEN EndFlow(ScheduleIfPending(b), "auto")
             ELSE IF b.pending # None /\ b.savePending = b.pending.job THEN EndFlow(b, "auto")
             ELSE [leased EXCEPT !.flow["auto"] =
                     [IdleFlow EXCEPT !.pc = IF stale THEN "stale" ELSE "probe",
                                      !.job = RecordedJob(seen),
                                      !.guard = IF p = None THEN Schedule0 ELSE p.fp,
                                      !.watch = p # None /\ p.observe]]
    /\ UNCHANGED <<server, cancels, spent>>

Outdated(b) == Suppressed(b) \/ ~b.flow["auto"].current

ProbeLost ==
    /\ browser.flow["auto"].pc \in {"stale", "probe"}
    /\ LET fl == browser.flow["auto"]
           b == IF fl.pc = "probe" /\ fl.job # None /\ ~fl.watch
                THEN EndLease(browser, fl.job) ELSE browser
       IN  browser' = EndFlow(IF Outdated(b) \/ fl.job = None THEN b ELSE ScheduleResume(b),
                              "auto")
    /\ UNCHANGED <<server, cancels, spent>>

\* A recorded job of another schedule: watch it while it lives, else settle it
StaleProbed ==
    /\ browser.flow["auto"].pc = "stale"
    /\ LET b == browser
           fl == b.flow["auto"]
       IN  browser' =
             IF Outdated(b) THEN EndFlow(b, "auto")
             ELSE IF Live(fl.job) /\ fl.job \notin b.settled
                  THEN StartObserve(WritePending(b, fl.job, fl.guard, TRUE, FALSE),
                                    "auto", fl.job, fl.guard)
             ELSE EndFlow(RemovePending(EndLease(Settle(b, fl.job), fl.job), fl.job), "auto")
    /\ UNCHANGED <<server, cancels, spent>>

(***************************************************************************)
(* The jobs a state answer offers to a browser that recorded none: one of  *)
(* this very schedule, live or with a result not consumed here, else a     *)
(* live one of another revision to watch.                                  *)
(***************************************************************************)
Listed(b, j) == Live(j) \/ (server[j].state = "done" /\ j \notin b.settled)
Matching(b) == {j \in Jobs : Listed(b, j) /\ ~server[j].cancelled /\ server[j].fp = b.sched}
Watchable(b) == {j \in Jobs : Live(j) /\ ~server[j].cancelled /\ server[j].fp # b.sched}
Discoverable(b) == IF Matching(b) # {} THEN Matching(b) ELSE Watchable(b)

Discover(b, j) ==
    WritePending(IF Live(j) THEN Forget(b, j) ELSE b, j, server[j].fp,
                 server[j].fp # b.sched, FALSE)

\* What the flow does with a job the answer named
Resume(b, j, fp, watch) ==
    IF Unknown(j)
    THEN EndFlow(EndLease(ClearActive(RemovePending(Settle(b, j), j), j, TRUE), j), "auto")
    ELSE IF b.busy THEN EndFlow(ScheduleResume(b), "auto")
    ELSE LET p == IF b.pending = None THEN [job |-> j, fp |-> fp, observe |-> watch]
                  ELSE b.pending
         IN  IF p.observe THEN StartObserve(b, "auto", p.job, p.fp)
             ELSE LET ended == StartReattach(b, "auto", p.job, p.fp)
                  IN  IF ended.flow["auto"].pc = "idle" THEN ScheduleIfPending(ended) ELSE ended

Probed ==
    /\ browser.flow["auto"].pc = "probe"
    /\ LET fl == browser.flow["auto"]
           b == IF fl.job = None \/ fl.watch THEN browser ELSE EndLease(browser, fl.job)
       IN  IF Outdated(b) THEN browser' = EndFlow(b, "auto")
           ELSE IF fl.job # None THEN browser' = Resume(b, fl.job, fl.guard, fl.watch)
           ELSE IF Discoverable(b) = {} \/ LocalActive(b) THEN browser' = EndFlow(b, "auto")
           ELSE \E j \in Discoverable(b) :
                  LET found == Discover(b, j)
                  IN  browser' = IF RecordedJob(found) # j THEN EndFlow(b, "auto")
                                 ELSE Resume(found, j, found.pending.fp, found.pending.observe)
    /\ UNCHANGED <<server, cancels, spent>>

-----------------------------------------------------------------------------
(***************************************************************************)
(* The sort button.  A recorded job of this schedule is reattached at      *)
(* once; else the server is asked for one; else a new solve starts, after  *)
(* the cancellations of a deletion have ended.                             *)
(***************************************************************************)
Adopt(b, j, fp) == StartReattach(PrepareManual(b), "click", j, fp)

Click ==
    /\ spent.clicks < MaxClicks
    /\ browser.flow["click"].pc = "idle" /\ ~browser.busy
    /\ LET b == browser
           p == b.pending
           clicked == [b EXCEPT !.flow["click"].pc = "inspect"]
       IN  browser' =
             IF b.resuming \/ b.tombstone
             THEN [PrepareManual(b) EXCEPT !.flow["click"].pc = "barrier"]
             ELSE IF p = None THEN clicked
             ELSE IF p.observe THEN StartObserve(b, "click", p.job, p.fp)
             ELSE IF p.fp = b.sched THEN Adopt(b, p.job, p.fp)
             ELSE clicked
    /\ spent' = [spent EXCEPT !.clicks = @ + 1]
    /\ UNCHANGED <<server, cancels>>

Inspected ==
    /\ browser.flow["click"].pc = "inspect"
    /\ LET b == browser
           fresh == IF b.busy THEN EndFlow(b, "click")
                    ELSE [PrepareManual(b) EXCEPT !.flow["click"].pc = "barrier"]
       IN  \/ browser' = fresh
           \/ \E j \in Discoverable(b) :
                 LET found == Discover(b, j)
                 IN  /\ RecordedJob(found) = j
                     /\ browser' = IF server[j].fp = b.sched THEN Adopt(found, j, b.sched)
                                   ELSE StartObserve(found, "click", j, server[j].fp)
    /\ UNCHANGED <<server, cancels, spent>>

(***************************************************************************)
(* solveWithRustApi and the head of postSolve: refused when the deletion   *)
(* was not saved, when the precheck fails or when Stop was pressed.  The   *)
(* previous deferred result is settled, a stale recorded job cancelled.    *)
(***************************************************************************)
PostsJob(j) ==
    LET b == browser
        prior == IF b.deferred = None THEN b ELSE SettleDeferred(b, b.deferred)
        stale == prior.pending # None /\ prior.pending.fp # b.sched
        clear == IF stale THEN [prior EXCEPT !.pending = None] ELSE prior
        owned == [clear EXCEPT !.run = "click", !.busy = TRUE, !.ctl = "click"]
    IN  /\ browser' = [SetActive(owned, j, b.sched) EXCEPT !.flow["click"] =
                         [IdleFlow EXCEPT !.pc = "post", !.job = j, !.own = j,
                                          !.solve = TRUE, !.guard = b.sched,
                                          !.back = b.sched]]
        /\ \E reached \in BOOLEAN :
              LET dropped == IF stale /\ reached THEN Cancelled(RecordedJob(prior)) ELSE server
              IN  server' = [dropped EXCEPT ![j].state = "posted", ![j].fp = b.sched]

BarrierOpens ==
    /\ browser.flow["click"].pc = "barrier"
    /\ browser.sweep = "idle"
    /\ \/ /\ browser' = EndFlow(browser, "click")
          /\ UNCHANGED server
       \/ /\ ~browser.halted
          /\ ~Observing(browser)
          /\ \E j \in Jobs : server[j].state = "none"
          /\ PostsJob(CHOOSE j \in Jobs : server[j].state = "none")
    /\ UNCHANGED <<cancels, spent>>

PollCancelled(b, f) == b.halted \/ b.flow[f].aborted \/ b.run # f

(***************************************************************************)
(* The POST reaches the server, which creates the job unless a live one    *)
(* works on the schedule already, or the POST is lost or rejected, the     *)
(* page being there or not.                                                *)
(***************************************************************************)
Unresolved == {k \in Jobs : Live(k) /\ ~server[k].cancelled}
Twins(fp) == {k \in Unresolved : server[k].fp = fp}

PostLands(j) ==
    /\ server[j].state = "posted"
    /\ \E state \in IF Unresolved = {} THEN {"live", "gone"} ELSE {"gone"} :
          server' = [server EXCEPT ![j].state = state]
    /\ UNCHANGED <<browser, cancels, spent>>

(***************************************************************************)
(* A page that still waits polls the job it was answered with.  A live job *)
(* of the same schedule comes with a 202, and the turn makes it its own,   *)
(* or with a 409, which leaves the turn with the id it posted.             *)
(***************************************************************************)
Polls(b, k, own) ==
    LET fl == browser.flow["click"]
    IN  [SetActive(b, k, fl.guard) EXCEPT
            !.flow["click"] = [fl EXCEPT !.pc = "poll", !.job = k, !.own = own]]

PostAnswered ==
    /\ browser.flow["click"].pc = "post"
    /\ LET b == browser
           fl == b.flow["click"]
       IN  /\ ~PollCancelled(b, "click")
           /\ server[fl.job].state # "posted"
           /\ IF ~Unknown(fl.job) THEN browser' = [b EXCEPT !.flow["click"].pc = "poll"]
              ELSE \E k \in Twins(fl.guard) :
                     \/ browser' = Polls(RemovePending(b, fl.job), k, k)
                     \/ browser' = Polls(b, k, fl.job)
    /\ UNCHANGED <<server, cancels, spent>>

\* A final rejection settles the id; a schedule that is busy with other contents,
\* or a queue that is too long, leaves it recorded and arms no timer.
PostRefused ==
    /\ browser.flow["click"].pc = "post"
    /\ ~PollCancelled(browser, "click")
    /\ server[browser.flow["click"].job].state = "gone"
    /\ browser' \in {Fail(browser, "click"), Refuse(browser, "click")}
    /\ UNCHANGED <<server, cancels, spent>>

-----------------------------------------------------------------------------
(***************************************************************************)
(* Polling for the result.  A poll cycle that sees the stop flag, its own  *)
(* abort or another run ends as cancelled; once the final response has     *)
(* come, only its body is awaited.                                         *)
(***************************************************************************)
EndsCancelled(b, f) ==
    IF b.flow[f].watch \/ b.flow[f].solve THEN Finish(b, f) ELSE Fail(b, f)

PollEnds(f) ==
    /\ browser.flow[f].pc \in {"post", "poll"}
    /\ PollCancelled(browser, f)
    /\ browser' = EndsCancelled(browser, f)
    /\ UNCHANGED <<server, cancels, spent>>

\* Timeouts, repeated network failures and an unknown job: it stays recorded
PollLost(f) ==
    /\ browser.flow[f].pc \in {"post", "poll"}
    /\ ~PollCancelled(browser, f)
    /\ browser' = Detach(browser, f)
    /\ UNCHANGED <<server, cancels, spent>>

PollAnswered(f) ==
    /\ browser.flow[f].pc = "poll"
    /\ ~PollCancelled(browser, f)
    /\ LET fl == browser.flow[f]
       IN  /\ server[fl.job].state \in {"done", "failed"}
           /\ browser' =
                 IF fl.watch THEN FinishObserve(ClearActive(browser, fl.job, FALSE), f)
                 ELSE IF server[fl.job].state = "failed" THEN Fail(browser, f)
                 ELSE [browser EXCEPT !.flow[f].pc = "body"]
    /\ UNCHANGED <<server, cancels, spent>>

(***************************************************************************)
(* The result is in the browser.  Both paths refuse it when the schedule   *)
(* is no longer the one they started from; only a solve looks at the stop  *)
(* flag again.  A worse result than the visible schedule is dropped, and   *)
(* a solve defers the settling of a complete result until it is saved.     *)
(***************************************************************************)
\* Faulty variant: the result is taken for any schedule.
StaleResultIgnored(b, f) == FALSE

StaleResult(b, f) == b.sched # b.flow[f].guard

BodyRead(f) ==
    /\ browser.flow[f].pc = "body"
    /\ LET b == browser
           fl == b.flow[f]
           started == [b EXCEPT !.flow[f].pc = "apply", !.flow[f].back = b.sched]
       IN  IF fl.solve /\ PollCancelled(b, f) THEN browser' = Finish(b, f)
           ELSE IF StaleResult(b, f) THEN browser' = Fail(b, f)
           ELSE \/ browser' = Finish(ClearActive(b, fl.own, ~fl.solve), f)
                \/ browser' = IF fl.solve THEN [started EXCEPT !.deferred = fl.own] ELSE started
    /\ UNCHANGED <<server, cancels, spent>>

(***************************************************************************)
(* applyPayload: the schedule is replaced after several awaits, validated, *)
(* and saved with a watchdog.  When either fails, a reattach settles the   *)
(* job and a solve leaves it recorded.                                     *)
(***************************************************************************)
ApplyFails(f) ==
    /\ browser.flow[f].pc \in {"apply", "save"}
    /\ browser' = IF browser.flow[f].solve THEN Refuse(browser, f) ELSE Fail(browser, f)
    /\ UNCHANGED <<server, cancels, spent>>

Applies(f) ==
    /\ browser.flow[f].pc = "apply"
    /\ browser' = [browser EXCEPT
                      !.sched = [rev |-> @.rev + 1, by |-> browser.flow[f].job],
                      !.flow[f].pc = "save"]
    /\ UNCHANGED <<server, cancels, spent>>

Settled(b, f) ==
    IF b.flow[f].solve THEN SettleDeferred(b, b.flow[f].own)
    ELSE ClearActive(b, b.flow[f].own, TRUE)

SaveLands(f) ==
    /\ browser.flow[f].pc = "save"
    /\ browser' = Finish(Settled([browser EXCEPT !.stored = browser.sched], f), f)
    /\ UNCHANGED <<server, cancels, spent>>

\* The watchdog gives the turn up and leaves the save running.
SaveWatchdog(f) ==
    /\ browser.flow[f].pc = "save"
    /\ LET fl == browser.flow[f]
           late == [browser EXCEPT !.saves = @ \cup {[job |-> fl.own, deferred |-> fl.solve]}]
       IN  browser' = Finish(IF fl.solve THEN [late EXCEPT !.savePending = fl.own]
                             ELSE ClearActive(late, fl.own, TRUE), f)
    /\ UNCHANGED <<server, cancels, spent>>

\* A reattach deferred nothing: its save, come or failed, clears the mark of any
\* turn whose save still hangs.
LateSaveLands(s) ==
    /\ s \in browser.saves
    /\ LET saved == [browser EXCEPT !.stored = browser.sched, !.saves = @ \ {s}]
       IN  browser' = IF s.deferred THEN SettleDeferred(saved, s.job)
                      ELSE [saved EXCEPT !.savePending = None]
    /\ UNCHANGED <<server, cancels, spent>>

LateSaveFails(s) ==
    /\ s \in browser.saves
    /\ LET failed == [browser EXCEPT !.saves = @ \ {s}]
           reported == [failed EXCEPT !.savePending =
                          IF ~s.deferred \/ @ = s.job THEN None ELSE @]
           known == IF s.deferred THEN s.job ELSE browser.savePending
       IN  browser' = IF known # None /\ RecordedJob(reported) = known
                      THEN ScheduleResume(reported) ELSE reported
    /\ UNCHANGED <<server, cancels, spent>>

-----------------------------------------------------------------------------
(***************************************************************************)
(* The tab opens on a schedule nobody solved, or on one this browser       *)
(* started a job for before, which it still records.                       *)
(***************************************************************************)
Opening(pending) ==
    Page(Schedule0, [pending |-> pending, settled |-> {}, intents |-> {},
                     suppressed |-> FALSE, tombstone |-> FALSE])
Untold == [state |-> "none", fp |-> Schedule0, cancelled |-> FALSE]

Init ==
    /\ \/ /\ server = [j \in Jobs |-> Untold]
          /\ browser = Opening(None)
       \/ LET j == CHOOSE j \in Jobs : TRUE
          IN  /\ server = [k \in Jobs |->
                      IF k = j THEN [Untold EXCEPT !.state = "live"] ELSE Untold]
              /\ browser = Opening([job |-> j, fp |-> Schedule0, observe |-> FALSE])
    /\ cancels = {}
    /\ spent = [events |-> 0, clicks |-> 0]

Requests == [job : Jobs, from : {"stop", "sweep", "retry"}]
Saves == [job : Jobs, deferred : BOOLEAN]

FlowStep(f) ==
    \/ PollEnds(f) \/ PollLost(f) \/ PollAnswered(f) \/ BodyRead(f)
    \/ Applies(f) \/ ApplyFails(f) \/ SaveLands(f) \/ SaveWatchdog(f)

Next ==
    \/ Edit \/ Stop \/ Delete \/ Reload \/ Wake \/ Click
    \/ TimerFires \/ ResumeBegins \/ ProbeLost \/ StaleProbed \/ Probed
    \/ Inspected \/ BarrierOpens \/ PostAnswered \/ PostRefused \/ SweepLists \/ SweepEnds
    \/ \E c \in Requests : CancelAnswered(c) \/ CancelLost(c)
    \/ \E j \in Jobs : PostLands(j) \/ JobEnds(j) \/ JobForgotten(j)
    \/ \E f \in Flows : FlowStep(f)
    \/ \E s \in Saves : LateSaveLands(s) \/ LateSaveFails(s)

(***************************************************************************)
(* Timers fire, promises settle, the server answers requests and ends its  *)
(* jobs, and a request that is repeated for ever is answered at last.      *)
(* Wake is the user, who comes back to the page: some ends of a turn leave *)
(* a recorded job without a timer, and only the page's events rearm it.    *)
(***************************************************************************)
Awaited(f) ==
    \/ PollEnds(f) \/ PollLost(f) \/ BodyRead(f)
    \/ Applies(f) \/ ApplyFails(f) \/ SaveLands(f) \/ SaveWatchdog(f)
    \/ f = "click" /\ (Inspected \/ BarrierOpens \/ PostAnswered \/ PostRefused)

Fairness ==
    /\ WF_vars(Wake) /\ WF_vars(TimerFires) /\ SF_vars(ResumeBegins)
    /\ SF_vars(StaleProbed) /\ SF_vars(Probed)
    /\ \A f \in Flows : WF_vars(Awaited(f)) /\ SF_vars(PollAnswered(f))
    /\ WF_vars(SweepLists \/ SweepEnds)
    /\ \A c \in Requests : WF_vars(CancelAnswered(c) \/ CancelLost(c))
    /\ \A j \in Jobs : WF_vars(PostLands(j) \/ JobEnds(j))
    /\ WF_vars(\E s \in Saves : LateSaveLands(s) \/ LateSaveFails(s))

Spec == Init /\ [][Next]_vars
FairSpec == Spec /\ Fairness

-----------------------------------------------------------------------------
PCs == {"idle", "begin", "stale", "probe", "inspect", "barrier", "post", "poll",
        "body", "apply", "save"}
Maybe(S) == S \cup {None}

(***************************************************************************)
(* The types: what localStorage holds, the page's variables, the place of  *)
(* each flow, and the jobs on the server.                                  *)
(***************************************************************************)
TypeOK ==
    /\ browser.pending \in Maybe(Pending)
    /\ {browser.settled, browser.intents, browser.stopped} \subseteq SUBSET Jobs
    /\ {browser.suppressed, browser.tombstone, browser.due, browser.halted,
        browser.busy, browser.resuming} \subseteq BOOLEAN
    /\ {browser.stored, browser.sched} \subseteq Schedules
    /\ {browser.active, browser.lease, browser.deferred, browser.savePending,
        browser.sweepJob} \subseteq Maybe(Jobs)
    /\ {browser.run, browser.ctl} \subseteq Maybe(Flows)
    /\ browser.saves \subseteq Saves
    /\ browser.sweep \in {"idle", "listing", "cancelling"}
    /\ browser.flow \in [Flows -> [pc : PCs, job : Maybe(Jobs), own : Maybe(Jobs),
                                   guard : Schedules, back : Schedules, watch : BOOLEAN,
                                   current : BOOLEAN, aborted : BOOLEAN, solve : BOOLEAN]]
    /\ \A f \in Flows : browser.flow[f].pc \in {"post", "poll", "body", "apply", "save"} =>
                         {browser.flow[f].job, browser.flow[f].own} \subseteq Jobs
    /\ server \in [Jobs -> [state : {"none", "posted", "live", "done", "failed", "gone"},
                            fp : Schedules, cancelled : BOOLEAN]]
    /\ cancels \subseteq Requests
    /\ spent \in [events : 0..MaxEvents, clicks : 0..MaxClicks]

(***************************************************************************)
(* A job that Stop or Delete found on the server is cancelled there, or    *)
(* the intent to cancel it is still recorded: a lost request, a reload and *)
(* a new click do not let it run on.                                       *)
(***************************************************************************)
StopReachesServer ==
    \A j \in browser.stopped :
        Live(j) => server[j].cancelled \/ j \in browser.intents

(***************************************************************************)
(* A result that is about to be applied was computed for the schedule it   *)
(* replaces: neither an edit while it was computed, nor a reload, nor a    *)
(* job found again under another revision lets a foreign one through.      *)
(***************************************************************************)
ResultIsOfItsSchedule ==
    \A f \in Flows : browser.flow[f].pc = "apply" =>
        browser.flow[f].back = server[browser.flow[f].job].fp

(***************************************************************************)
(* A recorded job does not stay recorded for ever: it is applied, watched  *)
(* to its end, found lost, or dropped with automatic resume turned off.    *)
(* This rests on the fairness of Wake, an event of the user or the page:   *)
(* the job of a turn that ends with no timer armed, one refused because    *)
(* the schedule is busy, is taken up again only when the user comes back.  *)
(***************************************************************************)
PendingResolves ==
    browser.pending # None ~> browser.pending = None \/ Suppressed(browser)

(***************************************************************************)
(* Stop wins over a result already fetched: what the test of postSolve     *)
(* promises.  reattachExistingServerJobPollOnly reads the body and goes    *)
(* on to apply it without looking at the stop flag again.                  *)
(***************************************************************************)
StopWins ==
    \A f \in Flows : browser.flow[f].pc \in {"apply", "save"} =>
        ~browser.flow[f].aborted

(***************************************************************************)
(* A completed result stays recoverable until the save of its timetable    *)
(* resolves.  A reattached result is settled before its save, and the      *)
(* watchdog of awaitTrustedSolverApplySave settles one whose save hangs.   *)
(***************************************************************************)
ResultRecoverable ==
    \A s \in browser.saves : s.job \notin browser.settled
=============================================================================
