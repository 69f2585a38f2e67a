---------------------------- MODULE WorkerRegistry ----------------------------
(***************************************************************************)
(* What the workers table says of one worker.  The row is written by       *)
(* every execution when it starts and ends, by the heartbeat timer, by the *)
(* shutdown handlers of the process, and by the workers that look for      *)
(* unhealthy ones.  A callback computes what it writes, sends it, and goes *)
(* on when it is answered; the writes of several callbacks are under way   *)
(* at the same time, on several connections, and are committed in any      *)
(* order.  No row says anything of another one, so one worker is enough.   *)
(***************************************************************************)
EXTENDS Integers, FiniteSets

CONSTANTS
    Tasks,      \* jobs that may have a slot or leave one at the same time
    Beats,      \* calls of sendHeartbeat that may be under way
    Signals,    \* SIGTERM and SIGINT, each of which may come
    Start,      \* the call of start
    Capacity    \* WORKER_CONCURRENCY, for slots and for places in the pool

ASSUME RegistryAssumption ==
    /\ IsFiniteSet(Tasks)
    /\ Capacity \in Nat \ {0}

VARIABLES
    row,      \* the worker's row, stale if its last heartbeat is 30 s old
    proc,     \* new, starting, up, draining, gone
    polling,  \* whether a poll that began before the signal is under way
    task,     \* where an execution stands
    handler,  \* where the handler of a signal stands
    sent      \* sent[c]: the write that callback c has under way

vars == <<row, proc, polling, task, handler, sent>>

Callbacks == Tasks \cup Beats \cup Signals \cup {Start}

Statuses == {"STARTING", "IDLE", "BUSY", "DRAINING", "STOPPED", "UNHEALTHY"}

NoRow == [status |-> "absent", jobs |-> 0, stale |-> FALSE]

\* concurrency.activeCount: the jobs that have a slot.
activeCount == Cardinality({t \in Tasks : task[t] \in {"waiting", "active"}})

\* activeJobs: the executions a drain waits for.
activeJobs == {t \in Tasks : task[t] = "active"}

InPool == {t \in Tasks : task[t] \in {"active", "ended", "resting"}}

\* An update of the row: keep leaves the status, beat renews last_heartbeat.
Update(status, jobs, beat) == [status |-> status, jobs |-> jobs, beat |-> beat]

Send(c, update) == sent' = [sent EXCEPT ![c] = {update}]

Answered(c) == sent[c] = {}

\* updateStatus and updateCurrentJobs write the number of slots in use now.
UpdateStatus(c, status) == Send(c, Update(status, activeCount', FALSE))
UpdateCurrentJobs(c) == Send(c, Update("keep", activeCount', FALSE))

Init ==
    /\ row = NoRow
    /\ proc = "new"
    /\ polling = FALSE
    /\ task = [t \in Tasks |-> "free"]
    /\ handler = [g \in Signals |-> "none"]
    /\ sent = [c \in Callbacks |-> {}]

\* The process is gone; what it sent is not.
Die ==
    /\ proc' = "gone"
    /\ polling' = FALSE
    /\ task' = [t \in Tasks |-> "free"]
    /\ handler' = [g \in Signals |-> "none"]
    /\ UNCHANGED <<row, sent>>

-----------------------------------------------------------------------------
(* start *)

\* The row is inserted; IDLE is written next.
Create ==
    /\ proc = "new"
    /\ proc' = "starting"
    /\ row' = [status |-> "STARTING", jobs |-> 0, stale |-> FALSE]
    /\ UNCHANGED <<polling, task, handler>>
    /\ UpdateStatus(Start, "IDLE")

\* Timers and signal handlers are set.
Ready ==
    /\ proc = "starting" /\ Answered(Start)
    /\ proc' = "up"
    /\ UNCHANGED <<row, polling, task, handler, sent>>

-----------------------------------------------------------------------------
(* poll and executeJob *)

\* poll gives slots as long as the worker is up, and a poll that was under way at
\* the signal goes on.
Acquire(t) ==
    /\ proc = "up" \/ polling
    /\ task[t] = "free"
    /\ activeCount < Capacity
    /\ task' = [task EXCEPT ![t] = "waiting"]
    /\ UNCHANGED <<row, proc, polling, handler, sent>>

PollEnd ==
    /\ polling
    /\ polling' = FALSE
    /\ UNCHANGED <<row, proc, task, handler, sent>>

\* The pool has room: executeJob begins with updateStatus('BUSY').
Begin(t) ==
    /\ task[t] = "waiting" /\ Cardinality(InPool) < Capacity
    /\ task' = [task EXCEPT ![t] = "active"]
    /\ UpdateStatus(t, "BUSY")
    /\ UNCHANGED <<row, proc, polling, handler>>

\* The finally block: the slot is released, updateCurrentJobs.
End(t) ==
    /\ task[t] = "active" /\ Answered(t)
    /\ task' = [task EXCEPT ![t] = "ended"]
    /\ UpdateCurrentJobs(t)
    /\ UNCHANGED <<row, proc, polling, handler>>

\* No other job has a slot, and the worker goes on: updateStatus('IDLE').
Rest(t) ==
    /\ proc = "up"
    /\ task[t] = "ended" /\ Answered(t)
    /\ activeCount = 0
    /\ task' = [task EXCEPT ![t] = "resting"]
    /\ UpdateStatus(t, "IDLE")
    /\ UNCHANGED <<row, proc, polling, handler>>

Leave(t) ==
    /\ \/ task[t] = "resting"
       \/ task[t] = "ended" /\ (activeCount > 0 \/ proc = "draining")
    /\ Answered(t)
    /\ task' = [task EXCEPT ![t] = "free"]
    /\ UNCHANGED <<row, proc, polling, handler, sent>>

-----------------------------------------------------------------------------
(* Timers *)

\* Faulty variant: the heartbeat leaves the status to the executions.
SendHeartbeatOnly(b) ==
    /\ proc = "up" /\ Answered(b)
    /\ Send(b, Update("keep", activeCount, TRUE))
    /\ UNCHANGED <<row, proc, polling, task, handler>>

\* The signal clears the timer, so that the status is never DRAINING here.
SendHeartbeat(b) ==
    /\ proc = "up" /\ Answered(b)
    /\ Send(b, Update(IF activeCount > 0 THEN "BUSY" ELSE "IDLE", activeCount, TRUE))
    /\ UNCHANGED <<row, proc, polling, task, handler>>

\* Faulty variant: a worker with jobs is taken to be alive.
MarkUnhealthyUnlessBusy ==
    /\ row.stale
    /\ row.status \notin {"absent", "STOPPED", "DRAINING", "BUSY"}
    /\ row' = [row EXCEPT !.status = "UNHEALTHY"]
    /\ UNCHANGED <<proc, polling, task, handler, sent>>

\* recoverLeases of any worker, this one included, looks for rows whose last
\* heartbeat is more than 30 s old.
MarkUnhealthy ==
    /\ row.stale
    /\ row.status \notin {"absent", "STOPPED", "DRAINING"}
    /\ row' = [row EXCEPT !.status = "UNHEALTHY"]
    /\ UNCHANGED <<proc, polling, task, handler, sent>>

-----------------------------------------------------------------------------
(* setupGracefulShutdown *)

\* Both signals may come, and each runs the handler.
Shutdown(g) ==
    /\ proc \in {"up", "draining"} /\ handler[g] = "none"
    /\ proc' = "draining"
    /\ polling' \in IF proc = "up" THEN BOOLEAN ELSE {polling}
    /\ handler' = [handler EXCEPT ![g] = "draining"]
    /\ UNCHANGED <<row, task>>
    /\ UpdateStatus(g, "DRAINING")

\* DRAINING is written and no job is active: updateStatus('STOPPED').
Drained(g) ==
    /\ proc = "draining"
    /\ handler[g] = "draining" /\ Answered(g)
    /\ activeJobs = {}
    /\ handler' = [handler EXCEPT ![g] = "stopping"]
    /\ UNCHANGED <<row, proc, polling, task>>
    /\ UpdateStatus(g, "STOPPED")

\* process.exit(0), whatever else is under way.
Exit(g) ==
    /\ proc = "draining"
    /\ handler[g] = "stopping" /\ Answered(g)
    /\ Die

\* The timeout that a handler sets once DRAINING is written: process.exit(1).
ForceExit(g) ==
    /\ proc = "draining"
    /\ handler[g] = "draining" /\ Answered(g)
    /\ Die

-----------------------------------------------------------------------------
(* The environment *)

\* The process dies, at any point after its row was created.
Crash ==
    /\ proc \in {"starting", "up", "draining"}
    /\ Die

\* A write is committed, also when its process is gone ...
Commit(c) ==
    /\ ~Answered(c)
    /\ \E update \in sent[c] :
        row' = [status |-> IF update.status = "keep" THEN row.status ELSE update.status,
                jobs |-> update.jobs,
                stale |-> row.stale /\ ~update.beat]
    /\ sent' = [sent EXCEPT ![c] = {}]
    /\ UNCHANGED <<proc, polling, task, handler>>

\* ... or it was lost with the process.
Lost(c) ==
    /\ proc = "gone" /\ ~Answered(c)
    /\ sent' = [sent EXCEPT ![c] = {}]
    /\ UNCHANGED <<row, proc, polling, task, handler>>

\* The last heartbeat becomes 30 s old: of a dead worker, or of one whose timer or
\* database is slow.
Ages ==
    /\ row.status # "absent" /\ ~row.stale
    /\ row' = [row EXCEPT !.stale = TRUE]
    /\ UNCHANGED <<proc, polling, task, handler, sent>>

ExecuteStep(t) == Acquire(t) \/ Begin(t) \/ End(t) \/ Rest(t) \/ Leave(t)

Next ==
    \/ Create \/ Ready
    \/ \E t \in Tasks : ExecuteStep(t)
    \/ PollEnd
    \/ \E b \in Beats : SendHeartbeat(b)
    \/ MarkUnhealthy
    \/ \E g \in Signals : Shutdown(g) \/ Drained(g) \/ Exit(g) \/ ForceExit(g)
    \/ Crash
    \/ \E c \in Callbacks : Commit(c) \/ Lost(c)
    \/ Ages

Spec == Init /\ [][Next]_vars

\* The heartbeat timer fires, the database answers, some other worker goes on
\* looking for unhealthy ones, and time passes for the row of a dead worker.
FairSpec ==
    /\ Spec
    /\ WF_vars(\E b \in Beats : SendHeartbeat(b))
    /\ \A c \in Callbacks : WF_vars(Commit(c))
    /\ WF_vars(MarkUnhealthy)
    /\ WF_vars(proc = "gone" /\ Ages)

-----------------------------------------------------------------------------
(* Properties *)

\* Besides the types: callbacks that are not running have nothing under way.
TypeOK ==
    /\ row \in [status : Statuses \cup {"absent"}, jobs : 0..Capacity,
                stale : BOOLEAN]
    /\ proc \in {"new", "starting", "up", "draining", "gone"}
    /\ polling \in BOOLEAN
    /\ task \in [Tasks -> {"free", "waiting", "active", "ended", "resting"}]
    /\ handler \in [Signals -> {"none", "draining", "stopping"}]
    /\ sent \in [Callbacks -> SUBSET [status : Statuses \cup {"keep"},
                                      jobs : 0..Capacity, beat : BOOLEAN]]
    /\ \A c \in Callbacks : Cardinality(sent[c]) <= 1
    /\ \A t \in Tasks :
          proc # "gone" /\ task[t] \in {"free", "waiting"} => Answered(t)

\* health of GET /workers is offline; else it is healthy or, from 15 s on, warning.
Offline == row.status = "STOPPED" \/ row.stale

\* A worker that is gone, however it ended and whatever it had under way, is
\* shown offline from some point on, and its status is neither IDLE nor BUSY:
\* an older write that comes last is corrected by another worker.  (That it
\* keeps DRAINING if it was killed in a drain is what the code does.)  The types of
\* all variables are part of it.
GoneIsNoticed ==
    /\ []TypeOK
    /\ (proc = "gone") ~>
          [](Offline /\ row.status \in {"STOPPED", "UNHEALTHY", "DRAINING"})

\* As long as a worker is up with the same n jobs it is shown with them again and
\* again, though older writes may come last and others may take it for dead.
LoadShown ==
    \A n \in 0..Capacity :
        <>[](proc = "up" /\ activeCount = n) =>
            []<>(row.jobs = n /\ row.status = IF n = 0 THEN "IDLE" ELSE "BUSY")
=============================================================================
