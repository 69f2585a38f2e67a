------------------------------ MODULE Scheduler ------------------------------
(***************************************************************************)
(* Scheduler instances compete for a leader lock in Redis at every tick;   *)
(* the tick that gets it turns due scheduled_jobs rows into jobs and       *)
(* releases the lock.  The timer does not wait for a slow tick, and all    *)
(* ticks of an instance use the same owner id, so an instance may have     *)
(* several ticks under way.  The API creates the scheduled_jobs rows.      *)
(*                                                                         *)
(* The clock is a number all instances agree on; an occurrence of a        *)
(* schedule is named by the next_run_at it was due at.                     *)
(***************************************************************************)
EXTENDS Integers

CONSTANTS
    Instances,   \* scheduler processes; a restarted one has a new leaderId
    Ticks,       \* calls of tick that may be under way
    InstanceOf,  \* InstanceOf[k]: the process of tick k
    Schedules,   \* scheduled_jobs rows
    Kind,        \* Kind[c]: RECURRING or CRON
    Interval,    \* Interval[c]: interval_ms of a recurring schedule
    CronNext,    \* CronNext[c][t]: the first match after t of a cron expression
    None,        \* no owner
    MaxTime,     \* bound: the clock stops here
    Mortal       \* instances that may stop or crash

ASSUME TickAssumption ==
    /\ InstanceOf \in [Ticks -> Instances]
    /\ Mortal \subseteq Instances
    /\ None \notin Instances
ASSUME ScheduleAssumption ==
    /\ Kind \in [Schedules -> {"RECURRING", "CRON"}]
    /\ Interval \in [Schedules -> Nat \ {0}]
    /\ CronNext \in [Schedules -> [0..MaxTime -> Nat]]
    /\ \A c \in Schedules, t \in 0..MaxTime : CronNext[c][t] > t
ASSUME TimeAssumption == MaxTime \in Nat

VARIABLES
    clock,
    lock,     \* the owner id stored under orbitqueue:scheduler:leader, or None
    tick,     \* the ticks
    overdue,  \* history: ticks whose lock ran out while they worked
    late,     \* history: whether a tick has outlasted SCHEDULER_LEADER_LOCK_TTL_MS
    up,       \* instances that are running
    row,      \* row[c]: absent, or listed once the API inserted it
    next,     \* next[c]: scheduled_jobs.next_run_at
    fired     \* history: fired[c][d]: jobs a tick created for occurrence d

vars == <<clock, lock, tick, overdue, late, up, row, next, fired>>

Times == 0..MaxTime

TickAt(pc, now, due, cur, seen) ==
    [pc |-> pc, now |-> now, due |-> due, cur |-> cur, seen |-> seen]

Idle == TickAt("idle", 0, {}, {}, 0)

\* A tick is at work from the acquisition of the lock to its release.
Working(k) == tick[k].pc # "idle"

Init ==
    /\ clock = 0
    /\ lock = None
    /\ tick = [k \in Ticks |-> Idle]
    /\ overdue = {}
    /\ late = FALSE
    /\ up = Instances
    /\ row = [c \in Schedules |-> "absent"]
    /\ next = [c \in Schedules |-> 0]
    /\ fired = [c \in Schedules |-> [d \in Times |-> 0]]

\* Faulty variant: a run that is due counts as the next one.
NextRunNow(c, now) ==
    IF Kind[c] = "CRON" THEN CronNext[c][clock] ELSE now

\* calculateNextRun: a cron expression is matched against the clock, an
\* interval is added to the tick's time, whenever the run was due.
NextRun(c, now) ==
    IF Kind[c] = "CRON" THEN CronNext[c][clock] ELSE now + Interval[c]

-----------------------------------------------------------------------------
(* The API: JobService.createJob of a recurring or cron job *)

\* The scheduled_jobs row.  The job that createJob inserts after it, SCHEDULED at
\* the same time, is not one of the scheduler's.
CreateSchedule(c) ==
    /\ row[c] = "absent"
    /\ row' = [row EXCEPT ![c] = "listed"]
    /\ next' = [next EXCEPT ![c] = NextRun(c, clock)]
    /\ UNCHANGED <<clock, lock, tick, overdue, late, up, fired>>

-----------------------------------------------------------------------------
(* One tick *)

\* Faulty variant: SET without NX.
AcquireAlways(k) ==
    /\ InstanceOf[k] \in up /\ ~Working(k)
    /\ lock' = InstanceOf[k]
    /\ tick' = [tick EXCEPT ![k] = TickAt("reading", clock, {}, {}, 0)]
    /\ UNCHANGED <<clock, overdue, late, up, row, next, fired>>

\* DistributedLock.acquire: SET key leaderId PX ttl NX.
Acquire(k) ==
    /\ InstanceOf[k] \in up /\ ~Working(k)
    /\ lock = None
    /\ lock' = InstanceOf[k]
    /\ tick' = [tick EXCEPT ![k] = TickAt("reading", clock, {}, {}, 0)]
    /\ UNCHANGED <<clock, overdue, late, up, row, next, fired>>

\* Faulty variant: a run is due only after its time.
DueLater(now) == {c \in Schedules : row[c] # "absent" /\ next[c] < now}

Due(now) == {c \in Schedules : row[c] # "absent" /\ next[c] <= now}

\* processScheduledJobs: the rows that are due.
ReadDue(k) ==
    /\ tick[k].pc = "reading"
    /\ tick' = [tick EXCEPT ![k] = TickAt("firing", @.now, Due(@.now), {}, 0)]
    /\ UNCHANGED <<clock, lock, overdue, late, up, row, next, fired>>

\* The transaction of one row reads it again, without a lock ...
FireRead(k, c) ==
    /\ tick[k].pc = "firing" /\ tick[k].cur = {}
    /\ c \in tick[k].due
    /\ next[c] <= tick[k].now
    /\ tick' = [tick EXCEPT ![k] = TickAt("firing", @.now, @.due \ {c}, {c}, next[c])]
    /\ UNCHANGED <<clock, lock, overdue, late, up, row, next, fired>>

\* ... and returns if another tick has moved it on.
FireSkip(k, c) ==
    /\ tick[k].pc = "firing" /\ tick[k].cur = {}
    /\ c \in tick[k].due
    /\ next[c] > tick[k].now
    /\ tick' = [tick EXCEPT ![k] = TickAt("firing", @.now, @.due \ {c}, {}, 0)]
    /\ UNCHANGED <<clock, lock, overdue, late, up, row, next, fired>>

\* Its job and the new next_run_at are committed.
FireWrite(k, c) ==
    /\ c \in tick[k].cur
    /\ fired' = [fired EXCEPT ![c][tick[k].seen] = @ + 1]
    /\ next' = [next EXCEPT ![c] = NextRun(c, tick[k].now)]
    /\ tick' = [tick EXCEPT ![k] = TickAt("firing", @.now, @.due, {}, 0)]
    /\ UNCHANGED <<clock, lock, overdue, late, up, row>>

\* Faulty variant: DEL without comparing the owner.
ReleaseAnyones(k) ==
    /\ tick[k].pc = "firing" /\ tick[k].cur = {} /\ tick[k].due = {}
    /\ lock' = None
    /\ tick' = [tick EXCEPT ![k] = Idle]
    /\ overdue' = overdue \ {k}
    /\ UNCHANGED <<clock, late, up, row, next, fired>>

\* DistributedLock.release compares the owner id, which all ticks of the
\* instance share.
Release(k) ==
    /\ tick[k].pc = "firing" /\ tick[k].cur = {} /\ tick[k].due = {}
    /\ lock' = IF lock = InstanceOf[k] THEN None ELSE lock
    /\ tick' = [tick EXCEPT ![k] = Idle]
    /\ overdue' = overdue \ {k}
    /\ UNCHANGED <<clock, late, up, row, next, fired>>

-----------------------------------------------------------------------------
(* The environment *)

\* The key's TTL runs out: of a tick that is late, or of one that is gone.
LockExpires ==
    /\ lock # None
    /\ lock' = None
    /\ overdue' = {k \in Ticks : Working(k)}
    /\ late' = (late \/ \E k \in Ticks : Working(k))
    /\ UNCHANGED <<clock, tick, up, row, next, fired>>

\* SchedulerService.stop, or a crash: what a tick has not committed is lost and
\* the lock is left to its TTL.
Stop(s) ==
    /\ s \in Mortal \cap up
    /\ up' = up \ {s}
    /\ tick' = [k \in Ticks |-> IF InstanceOf[k] = s THEN Idle ELSE tick[k]]
    /\ overdue' = {k \in overdue : InstanceOf[k] # s}
    /\ UNCHANGED <<clock, lock, late, row, next, fired>>

TimePasses ==
    /\ clock < MaxTime
    /\ clock' = clock + 1
    /\ UNCHANGED <<lock, tick, overdue, late, up, row, next, fired>>

TickStep(k) ==
    \/ ReadDue(k)
    \/ \E c \in Schedules : FireRead(k, c) \/ FireSkip(k, c) \/ FireWrite(k, c)
    \/ Release(k)

Next ==
    \/ \E c \in Schedules : CreateSchedule(c)
    \/ \E k \in Ticks : Acquire(k) \/ TickStep(k)
    \/ LockExpires
    \/ \E s \in Instances : Stop(s)
    \/ TimePasses

Spec == Init /\ [][Next]_vars

\* Timers fire, awaited calls return, and Redis drops a key whose TTL is over.
FairSpec ==
    /\ Spec
    /\ WF_vars(\E k \in Ticks : Acquire(k))
    /\ \A k \in Ticks : WF_vars(TickStep(k))
    /\ WF_vars(LockExpires)

-----------------------------------------------------------------------------
(* Properties *)

Tick == [pc : {"idle", "reading", "firing"}, now : Times, due : SUBSET Schedules,
         cur : SUBSET Schedules, seen : Times]

\* Besides the types: a schedule's next run is at most one interval away.
TypeOK ==
    /\ clock \in Times
    /\ lock \in Instances \cup {None}
    /\ tick \in [Ticks -> Tick]
    /\ overdue \subseteq Ticks
    /\ late \in BOOLEAN
    /\ up \subseteq Instances
    /\ row \in [Schedules -> {"absent", "listed"}]
    /\ next \in [Schedules -> Nat]
    /\ \A c \in Schedules : Kind[c] = "RECURRING" => next[c] <= clock + Interval[c]
    /\ fired \in [Schedules -> [Times -> Nat]]

\* Two ticks never work together ...
SingleLeader == \A j, k \in Ticks : Working(j) /\ Working(k) => j = k

\* ... and an occurrence of a schedule gets at most one job.
FiredOnce == \A c \in Schedules, d \in Times : fired[c][d] <= 1

\* The leader lock prevents duplicate generation: as long as no tick outlasts
\* it, the scheduler creates at most one job for each occurrence, whichever
\* instances stop in the middle of a tick.
OncePerOccurrence == late \/ FiredOnce

\* So long, too, schedules move forward only: no write sets an earlier next run.
NextRunAdvances ==
    [][late \/ \A c \in Schedules :
        row[c] # "absent" /\ next'[c] # next[c] => next'[c] > next[c]]_vars

\* A tick within its TTL is the only such tick, whatever late ticks of other
\* instances still run.  (A late tick releases the lock of a younger one of its own
\* instance; here each instance has one tick at a time.)
FreshLeaderAlone ==
    \A j, k \in Ticks :
        Working(j) /\ Working(k) /\ j \notin overdue /\ k \notin overdue => j = k

\* A due schedule runs, though the instance that leads may stop at any point.
DueRuns ==
    \A c \in Schedules :
        (row[c] # "absent" /\ next[c] <= clock) ~> (next[c] > clock)

(***************************************************************************)
(* Inductively, until a tick is late: the lock names the instance of the one *)
(* tick at work, what its transaction read is still in the row, and the    *)
(* occurrences that have a job lie before the next one.                    *)
(***************************************************************************)
LeaderHoldsLock ==
    /\ \A k \in Ticks : Working(k) => lock = InstanceOf[k]
    /\ SingleLeader

TicksPast == \A k \in Ticks : tick[k].now <= clock

ReadIsCurrent ==
    \A k \in Ticks, c \in Schedules : c \in tick[k].due \cup tick[k].cur =>
      /\ tick[k].pc = "firing"
      /\ row[c] # "absent"
      /\ c \in tick[k].cur => /\ tick[k].cur = {c}
                              /\ tick[k].seen = next[c]
                              /\ next[c] <= tick[k].now

FiredIsPast ==
    \A c \in Schedules, d \in Times : fired[c][d] > 0 => row[c] # "absent" /\ d < next[c]

Exclusive == LeaderHoldsLock /\ ReadIsCurrent /\ FiredIsPast /\ FiredOnce

SchedulerInv ==
    /\ TypeOK
    /\ TicksPast
    /\ late \/ Exclusive
=============================================================================
