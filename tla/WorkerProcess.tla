---------------------------- MODULE WorkerProcess ----------------------------
(***************************************************************************)
(* One worker process: the poll timer claims jobs, each claimed job asks   *)
(* the ConcurrencyManager for a slot and enters the ExecutionPool, and     *)
(* SIGTERM drains the process.  JobLifecycle shows the same job from the   *)
(* database's side; here are the counters and the order of the callbacks   *)
(* of the single Node.js thread.  An action is the code between two        *)
(* awaits; every queue has a rate limit, so that poll's loop awaits once   *)
(* for each job.  The timer does not wait for a slow poll: several calls   *)
(* of poll may be under way.                                               *)
(***************************************************************************)
EXTENDS ExecutionPool

CONSTANTS
    Queues,
    QueueOf,       \* QueueOf[t]: the queue of job t
    QueueTables,   \* what the queues table may hold when the worker starts
    Limits,        \* the limits a request may give a queue
    Changes,       \* bound: requests that change a queue
    Polls,         \* calls of poll that may be under way together
    RateLimits,    \* whether the rate limiter ever refuses a job
    SlowHandlers   \* whether a handler may outlast the shutdown timeout

\* WORKER_CONCURRENCY sizes both the ConcurrencyManager and the pool.
Concurrency == MaxConcurrency

\* A row of queues, as far as a worker looks at it: to it DRAINING is like PAUSED.
QueueRow == [status : {"ACTIVE", "PAUSED"}, limit : Limits]

ASSUME QueueAssumption ==
    /\ QueueOf \in [Tasks -> Queues]
    /\ Limits \subseteq Nat \ {0}
    /\ QueueTables \subseteq [Queues -> QueueRow]
    /\ Changes \in Nat
ASSUME WorkerAssumption == RateLimits \in BOOLEAN /\ SlowHandlers \in BOOLEAN

VARIABLES
    globalActive,  \* ConcurrencyManager.globalActive
    active,        \* ConcurrencyManager.queueActiveCounts
    queueLimits,   \* ConcurrencyManager.queueLimits, 0 where it has no entry
    poll,          \* the calls of poll
    queues,        \* the queues table
    changes,       \* requests that may still change it
    row,           \* the job rows: queued, claimed, running, settled
    step,          \* where executeJob stands with a job
    proc,          \* the process and its shutdown handler
    atSignal,      \* history: the active jobs when the signal came
    bound          \* history: the highest limit that may have been in force

slotVars == <<globalActive, active, queueLimits>>
queueVars == <<queues, changes, bound>>

vars == <<poolVars, slotVars, queueVars, poll, row, step, proc, atSignal>>

\* alone is history: no other call of poll has been under way during this one.
\* read are the limits that refreshQueueLimits got, 0 for a queue it did not see.
NoPoll == [pc |-> "idle", read |-> [q \in Queues |-> 0], eligible |-> {}, limit |-> 0,
           todo |-> {}, alone |-> TRUE]

\* starting: before markRunning, handling: in the handler, reporting: the
\* outcome is committed, ending: the slot is released, the pool not yet left.
Steps == {"none", "starting", "handling", "reporting", "ending"}

Gone == proc \in {"stopped", "killed"}

Active(q) == queues[q].status = "ACTIVE"

\* WorkerService.activeJobs: from the start of executeJob to its finally.
activeJobs == {t \in Tasks : step[t] \in {"starting", "handling", "reporting"}}

\* No entry is no limit; with less than Concurrency jobs active that is the same.
LimitOf(q) == IF queueLimits[q] = 0 THEN Concurrency ELSE queueLimits[q]

CanAccept(q) == globalActive < Concurrency /\ active[q] < LimitOf(q)

Acquire(q) ==
    /\ CanAccept(q)
    /\ globalActive' = globalActive + 1
    /\ active' = [active EXCEPT ![q] = @ + 1]

\* Faulty variant: the queue's count is kept.
ReleaseGlobal(q) ==
    /\ globalActive' = IF globalActive = 0 THEN 0 ELSE globalActive - 1
    /\ UNCHANGED active

Release(q) ==
    /\ globalActive' = IF globalActive = 0 THEN 0 ELSE globalActive - 1
    /\ active' = [active EXCEPT ![q] = IF @ <= 1 THEN 0 ELSE @ - 1]

\* refreshQueueLimits: what it reads, 0 for a queue that is not active.
ActiveLimits == [q \in Queues |-> IF Active(q) THEN queues[q].limit ELSE 0]

\* start has refreshed the limits once and sets the timers.
Init ==
    /\ PoolInit
    /\ globalActive = 0
    /\ active = [q \in Queues |-> 0]
    /\ queues \in QueueTables
    /\ queueLimits = ActiveLimits
    /\ poll = [p \in Polls |-> NoPoll]
    /\ changes = Changes
    /\ bound = [q \in Queues |-> queues[q].limit]
    /\ row = [t \in Tasks |-> "queued"]
    /\ step = [t \in Tasks |-> "none"]
    /\ proc = "up"
    /\ atSignal = {}

-----------------------------------------------------------------------------
(* poll *)

PollStart(p) ==
    /\ proc = "up"
    /\ poll[p].pc = "idle"
    /\ globalActive < Concurrency
    /\ LET others == {o \in Polls \ {p} : poll[o].pc # "idle"} IN
       poll' = [o \in Polls |->
          IF o = p THEN [NoPoll EXCEPT !.pc = "refreshing", !.alone = (others = {})]
          ELSE IF o \in others THEN [poll[o] EXCEPT !.alone = FALSE]
          ELSE poll[o]]
    /\ UNCHANGED <<poolVars, slotVars, queueVars, row, step, proc, atSignal>>

\* The active queues are read ...
RefreshRead(p) ==
    /\ ~Gone
    /\ poll[p].pc = "refreshing"
    /\ poll' = [poll EXCEPT ![p].pc = "refreshed", ![p].read = ActiveLimits]
    /\ UNCHANGED <<poolVars, slotVars, queueVars, row, step, proc, atSignal>>

\* Faulty variant: a queue that is not active loses its entry.
RefreshForgets(p) ==
    /\ ~Gone
    /\ poll[p].pc = "refreshed"
    /\ queueLimits' = poll[p].read
    /\ poll' = [poll EXCEPT ![p].pc = "reading", ![p].read = NoPoll.read]
    /\ UNCHANGED <<poolVars, globalActive, active, queueVars, row, step, proc,
                   atSignal>>

\* ... and their limits entered, an older answer perhaps over a newer one.
Refresh(p) ==
    /\ ~Gone
    /\ poll[p].pc = "refreshed"
    /\ queueLimits' = [q \in Queues |->
          IF poll[p].read[q] = 0 THEN queueLimits[q] ELSE poll[p].read[q]]
    /\ poll' = [poll EXCEPT ![p].pc = "reading", ![p].read = NoPoll.read]
    /\ UNCHANGED <<poolVars, globalActive, active, queueVars, row, step, proc,
                   atSignal>>

\* After the active queues were read again: what this worker could take now.
PollEligible(p) ==
    LET eligible == {q \in Queues : Active(q) /\ CanAccept(q)} IN
    /\ ~Gone
    /\ poll[p].pc = "reading"
    /\ poll' = [poll EXCEPT ![p] =
          IF eligible = {} THEN NoPoll
          ELSE [@ EXCEPT !.pc = "claiming", !.eligible = eligible,
                         !.limit = Concurrency - globalActive]]
    /\ UNCHANGED <<poolVars, slotVars, queueVars, row, step, proc, atSignal>>

\* The claim's SELECT looks at the queue once more.
Offered(p, t) ==
    row[t] = "queued" /\ QueueOf[t] \in poll[p].eligible /\ Active(QueueOf[t])

\* Faulty variant: the free slots are not counted.
PollClaimFull(p, batch) ==
    /\ ~Gone
    /\ poll[p].pc = "claiming"
    /\ \A t \in batch : Offered(p, t)
    /\ Cardinality(batch) <= Concurrency
    /\ row' = [t \in Tasks |-> IF t \in batch THEN "claimed" ELSE row[t]]
    /\ poll' = [poll EXCEPT ![p] =
          IF batch = {} THEN NoPoll
          ELSE [@ EXCEPT !.pc = "loop", !.eligible = {}, !.limit = 0, !.todo = batch]]
    /\ UNCHANGED <<poolVars, slotVars, queueVars, step, proc, atSignal>>

\* claimJobs returns a batch.
PollClaim(p, batch) ==
    /\ ~Gone
    /\ poll[p].pc = "claiming"
    /\ \A t \in batch : Offered(p, t)
    /\ Cardinality(batch) <= poll[p].limit
    /\ row' = [t \in Tasks |-> IF t \in batch THEN "claimed" ELSE row[t]]
    /\ poll' = [poll EXCEPT ![p] =
          IF batch = {} THEN NoPoll
          ELSE [@ EXCEPT !.pc = "loop", !.eligible = {}, !.limit = 0, !.todo = batch]]
    /\ UNCHANGED <<poolVars, slotVars, queueVars, step, proc, atSignal>>

\* The loop is done with t.
Handled(p, t) ==
    poll' = [poll EXCEPT ![p] =
        IF poll[p].todo = {t} THEN NoPoll
        ELSE [poll[p] EXCEPT !.todo = poll[p].todo \ {t}]]

Refuse(p, t) ==
    /\ RateLimits /\ ~Gone
    /\ t \in poll[p].todo
    /\ row' = [row EXCEPT ![t] = "queued"]
    /\ Handled(p, t)
    /\ UNCHANGED <<poolVars, slotVars, queueVars, step, proc, atSignal>>

\* No slot: the loop goes on and nobody looks at the claimed job again.
Abandon(p, t) ==
    /\ ~Gone
    /\ t \in poll[p].todo
    /\ ~CanAccept(QueueOf[t])
    /\ Handled(p, t)
    /\ UNCHANGED <<poolVars, slotVars, queueVars, row, step, proc, atSignal>>

\* executeJob runs up to its first await as soon as the pool has room.
StartStep(t) ==
    step' = IF stage'[t] = "running" THEN [step EXCEPT ![t] = "starting"] ELSE step

Dispatch(p, t) ==
    /\ ~Gone
    /\ t \in poll[p].todo
    /\ Acquire(QueueOf[t])
    /\ Run(t) /\ StartStep(t)
    /\ Handled(p, t)
    /\ UNCHANGED <<queueLimits, queueVars, row, proc, atSignal>>

-----------------------------------------------------------------------------
(* executeJob *)

PoolResume(t) ==
    /\ ~Gone
    /\ Resume(t) /\ StartStep(t)
    /\ UNCHANGED <<slotVars, queueVars, poll, row, proc, atSignal>>

MarkRunning(t) ==
    /\ ~Gone
    /\ step[t] = "starting"
    /\ step' = [step EXCEPT ![t] = "handling"]
    /\ row' = [row EXCEPT ![t] = "running"]
    /\ UNCHANGED <<poolVars, slotVars, queueVars, poll, proc, atSignal>>

\* The handler returns and completeJob commits.
Complete(t) ==
    /\ ~Gone
    /\ step[t] = "handling"
    /\ step' = [step EXCEPT ![t] = "reporting"]
    /\ row' = [row EXCEPT ![t] = "settled"]
    /\ UNCHANGED <<poolVars, slotVars, queueVars, poll, proc, atSignal>>

\* The finally block up to its first await.
ReleaseSlot(t) ==
    /\ ~Gone
    /\ step[t] = "reporting"
    /\ Release(QueueOf[t])
    /\ step' = [step EXCEPT ![t] = "ending"]
    /\ UNCHANGED <<poolVars, queueLimits, queueVars, poll, row, proc, atSignal>>

\* executeJob settles after the writes of its finally block.
PoolFinish(t) ==
    /\ ~Gone
    /\ step[t] = "ending"
    /\ Finish(t)
    /\ step' = [step EXCEPT ![t] = "none"]
    /\ UNCHANGED <<slotVars, queueVars, poll, row, proc, atSignal>>

-----------------------------------------------------------------------------
(* The API's changes of a queue: pause, resume, drain, update, as long as there is a *)
(* worker to see them *)

\* bound is raised if the queue gets active and has no entry, after a poll read
\* the limits and before it reads the active queues.
SetStatus(q, status) ==
    /\ ~Gone
    /\ changes > 0 /\ changes' = changes - 1
    /\ status # queues[q].status
    /\ queues' = [queues EXCEPT ![q].status = status]
    /\ bound' = [bound EXCEPT ![q] =
          IF status = "ACTIVE" /\ queueLimits[q] = 0
             /\ \E p \in Polls : poll[p].pc \in {"refreshed", "reading"}
          THEN Concurrency ELSE @]
    /\ UNCHANGED <<poolVars, slotVars, poll, row, step, proc, atSignal>>

UpdateQueue(q, limit) ==
    /\ ~Gone
    /\ changes > 0 /\ changes' = changes - 1
    /\ limit # queues[q].limit
    /\ queues' = [queues EXCEPT ![q].limit = limit]
    /\ bound' = [bound EXCEPT ![q] = IF limit > @ THEN limit ELSE @]
    /\ UNCHANGED <<poolVars, slotVars, poll, row, step, proc, atSignal>>

ChangeQueue(q) ==
    \/ \E status \in {"ACTIVE", "PAUSED"} : SetStatus(q, status)
    \/ \E limit \in Limits : UpdateQueue(q, limit)

-----------------------------------------------------------------------------
(* setupGracefulShutdown *)

Signal ==
    /\ proc = "up"
    /\ proc' = "draining"
    /\ atSignal' = activeJobs
    /\ UNCHANGED <<poolVars, slotVars, queueVars, poll, row, step>>

\* DRAINING is written; the timeout is set and the loop begins.
ArmTimeout ==
    /\ proc = "draining"
    /\ proc' = "waiting"
    /\ UNCHANGED <<poolVars, slotVars, queueVars, poll, row, step, atSignal>>

\* Faulty variant: the loop waits for the count of slots to fall, not to zero.
DrainedEarly ==
    /\ proc = "waiting"
    /\ globalActive < Concurrency
    /\ proc' = "stopping"
    /\ UNCHANGED <<poolVars, slotVars, queueVars, poll, row, step, atSignal>>

\* Faulty variant: it waits until every job of the queues is settled.
DrainedWhenEmpty ==
    /\ proc = "waiting"
    /\ \A t \in Tasks : row[t] = "settled"
    /\ proc' = "stopping"
    /\ UNCHANGED <<poolVars, slotVars, queueVars, poll, row, step, atSignal>>

\* The loop finds no active job and the timeout is cleared.
Drained ==
    /\ proc = "waiting"
    /\ activeJobs = {}
    /\ proc' = "stopping"
    /\ UNCHANGED <<poolVars, slotVars, queueVars, poll, row, step, atSignal>>

\* STOPPED is written, connections are closed, process.exit(0).
Exit ==
    /\ proc = "stopping"
    /\ proc' = "stopped"
    /\ UNCHANGED <<poolVars, slotVars, queueVars, poll, row, step, atSignal>>

\* The timeout fires: process.exit(1).
ForceExit ==
    /\ SlowHandlers
    /\ proc = "waiting"
    /\ proc' = "killed"
    /\ UNCHANGED <<poolVars, slotVars, queueVars, poll, row, step, atSignal>>

-----------------------------------------------------------------------------
PollStep(p) ==
    \/ RefreshRead(p) \/ Refresh(p) \/ PollEligible(p)
    \/ \E batch \in SUBSET Tasks : PollClaim(p, batch)
    \/ \E t \in Tasks : Refuse(p, t) \/ Abandon(p, t) \/ Dispatch(p, t)

ExecuteStep(t) ==
    PoolResume(t) \/ MarkRunning(t) \/ Complete(t) \/ ReleaseSlot(t) \/ PoolFinish(t)

Shutdown == ArmTimeout \/ Drained \/ Exit

Next ==
    \/ \E p \in Polls : PollStart(p) \/ PollStep(p)
    \/ \E t \in Tasks : ExecuteStep(t)
    \/ \E q \in Queues : ChangeQueue(q)
    \/ Signal \/ Shutdown \/ ForceExit

Spec == Init /\ [][Next]_vars

\* Awaited calls return, handlers return, and the drain loop looks again.
FairSpec ==
    /\ Spec
    /\ \A p \in Polls : WF_vars(PollStep(p))
    /\ \A t \in Tasks : WF_vars(ExecuteStep(t))
    /\ WF_vars(Shutdown)

-----------------------------------------------------------------------------
(* Properties *)

TypeOK ==
    /\ PoolTypeOK
    /\ globalActive \in 0..Concurrency
    /\ active \in [Queues -> 0..Concurrency]
    /\ queueLimits \in [Queues -> Limits \cup {0}]
    /\ queues \in [Queues -> QueueRow]
    /\ changes \in 0..Changes
    /\ bound \in [Queues -> Limits \cup {Concurrency}]
    /\ poll \in [Polls -> [pc : {"idle", "refreshing", "refreshed", "reading",
                                 "claiming", "loop"},
                           read : [Queues -> Limits \cup {0}], eligible : SUBSET Queues, limit : 0..Concurrency,
                           todo : SUBSET Tasks, alone : BOOLEAN]]
    /\ row \in [Tasks -> {"queued", "claimed", "running", "settled"}]
    /\ step \in [Tasks -> Steps]
    /\ proc \in {"up", "draining", "waiting", "stopping", "stopped", "killed"}
    /\ atSignal \subseteq Tasks

\* A job holds its slot from acquire to the release in executeJob's finally,
\* waiting for the pool or not.
Holders == {t \in Tasks :
    \/ stage[t] \in {"queued", "woken"}
    \/ stage[t] = "running" /\ step[t] # "ending"}

\* No slot is leaked or given twice: the counters of the ConcurrencyManager are
\* the numbers of jobs on their way, and the clamping of release never hides an
\* error.  (The types of all variables are part of it.)
SlotsAccounted ==
    /\ TypeOK
    /\ globalActive = Cardinality(Holders)
    /\ \A q \in Queues : active[q] = Cardinality({t \in Holders : QueueOf[t] = q})

\* A worker executes at most WORKER_CONCURRENCY jobs, and of a queue at most the
\* limit of the queue or, if a request changes it, the highest it has had: although
\* slots are released before the pool is left, overlapping polls enter limits out of
\* order, and queues pause and resume.  The one exception is a queue that a worker
\* has never seen active and that resumes between the two readings of a poll: for
\* this poll it has no limit.
LimitsRespected ==
    /\ Cardinality(activeJobs) <= Concurrency
    /\ \A q \in Queues : Cardinality({t \in activeJobs : QueueOf[t] = q}) <= bound[q]

\* A job with a slot never waits for somebody's handler: as long as one waits
\* for the pool, another is only writing its last status updates or about to
\* take the free place.
WaitsForWindUpOnly ==
    queue # <<>> => \E t \in Tasks : step[t] = "ending" \/ stage[t] = "woken"

\* A graceful exit has waited for every execution that was under way when the
\* signal came.
DrainWaits == proc = "stopped" => \A t \in atSignal : row[t] = "settled"

\* A poll that no other overlaps gives each job it claimed a slot, unless the
\* limit of the job's queue is below WORKER_CONCURRENCY: only then, or with a
\* poll slower than its timer, is a job claimed and left to its lease.
EveryClaimGetsSlot ==
    \A p \in Polls : \A t \in poll[p].todo :
        poll[p].alone /\ LimitOf(QueueOf[t]) >= Concurrency => CanAccept(QueueOf[t])

\* A job with a slot is executed to its end unless the process exits first.
SlotLeadsToEnd ==
    \A t \in Tasks : (t \in Holders) ~> (stage[t] = "done" \/ Gone)

\* A signalled worker exits.
DrainEnds == (proc = "draining") ~> Gone
=============================================================================
