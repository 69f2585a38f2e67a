---------------------------- MODULE JobLifecycle ----------------------------
(***************************************************************************)
(* The life of a job row in PostgreSQL: worker processes claim it, execute *)
(* it and commit the outcome, every worker process recovers expired        *)
(* leases, the scheduler promotes due jobs, and the API cancels and        *)
(* retries jobs.  Each action is one database statement or transaction, or *)
(* the code between two awaits; a transaction that reads a row without     *)
(* locking it and writes it later is two actions, because under PostgreSQL *)
(* READ COMMITTED other transactions commit in between.                    *)
(*                                                                         *)
(* Wall-clock time is abstracted: a lease is either valid or expired, and  *)
(* a retry delay has passed whenever the job is claimed or promoted.       *)
(***************************************************************************)
EXTENDS Integers, FiniteSets

CONSTANTS
    Workers,      \* worker processes; a restarted one registers under a new id
    Jobs,         \* job rows
    Requests,     \* API retry requests that may be in flight, or cut short
    None,         \* SQL NULL / "nothing in hand"
    MaxAttempts,  \* jobs.max_attempts
    BatchLimit,   \* most jobs one claim takes (free worker slots)
    Recoverers,   \* workers whose recovery timer fires
    Mortal,       \* workers that may be killed
    Faults,       \* which of FaultKinds the environment exhibits
    MaxClaims     \* bound: claims of one job

(***************************************************************************)
(* lateLease: a live worker may be too slow to extend a lease in time.     *)
(* rateLimit: a claimed job may exceed its queue's rate limit.             *)
(* noSlot:    a claimed job may find its queue's concurrency limit taken.  *)
(* cancel, retry: the API operation is used.                               *)
(* apiCrash:  the API may stop between two statements of one request.      *)
(***************************************************************************)
FaultKinds ==
    {"lateLease", "rateLimit", "noSlot", "cancel", "retry", "apiCrash"}

ASSUME NoneAssumption == None \notin Workers /\ None \notin Jobs
ASSUME BoundAssumption ==
    /\ MaxAttempts \in Nat \ {0}
    /\ BatchLimit \in Nat \ {0}
    /\ MaxClaims \in Nat \ {0}
ASSUME EnvironmentAssumption ==
    Recoverers \subseteq Workers /\ Mortal \subseteq Workers /\ Faults \subseteq FaultKinds

VARIABLES
    job,      \* the jobs table
    dlq,      \* jobs that have a dead_letter_jobs row (job_id is unique)
    history,  \* the job_executions rows of each job
    exec,     \* exec[j][n]: the execution started by the n-th claim of j
    up,       \* worker processes that are running
    doomed,   \* workers with an unhandled promise rejection under way
    scan,     \* scan[w]: jobs w's recovery found expired and has yet to visit
    rec,      \* rec[w]: the row w's recovery transaction has read
    req       \* API retry requests between their statements

vars == <<job, dlq, history, exec, up, doomed, scan, rec, req>>

Attempts == 1..MaxClaims

\* FAILED is in the enum of the schema and no code writes it.
JobStatus == {"QUEUED", "SCHEDULED", "CLAIMED", "RUNNING", "COMPLETED",
              "FAILED", "RETRY_SCHEDULED", "DEAD_LETTER", "CANCELLED"}
Held == {"CLAIMED", "RUNNING"}
Waiting == {"QUEUED", "SCHEDULED", "RETRY_SCHEDULED"}
Retryable == {"FAILED", "DEAD_LETTER", "RETRY_SCHEDULED"}

\* The jobs as one batch: what GET batches/:batchId and the list of batches count.
BatchCompleted == {j \in Jobs : job[j].status = "COMPLETED"}
BatchFailed == {j \in Jobs : job[j].status \in {"FAILED", "DEAD_LETTER"}}
BatchPending ==
    {j \in Jobs : job[j].status \notin {"COMPLETED", "FAILED", "DEAD_LETTER", "CANCELLED"}}
ListPending == Jobs \ (BatchCompleted \cup BatchFailed)

\* claimed: in poll's loop, starting: before markRunning, running: in the
\* handler, returned: handler done, completing: completeJob has read the row.
Live == {"claimed", "starting", "running", "returned", "completing"}

ExecAt(pc, w) == [pc |-> pc, worker |-> w, ok |-> FALSE, seen |-> 0]
NoExec == ExecAt("none", None)
Over   == ExecAt("over", None)
NoRow  == [job |-> None, seen |-> 0]
NoReq  == [job |-> None, pc |-> "idle"]

\* Prisma's job.update({where: {id: j}}): whatever the row holds, it is written.
UpdateRow(j, status, worker) ==
    job' = [job EXCEPT ![j] = [@ EXCEPT !.status = status, !.worker = worker]]

SetExec(j, n, e) == exec' = [exec EXCEPT ![j][n] = e]

IsLive(j, n) == exec[j][n].pc \in Live

\* Faulty variant: the last attempt is counted twice.
ExhaustedEarly(attempt) == attempt + 1 >= MaxAttempts

Exhausted(attempt) == attempt >= MaxAttempts

\* Faulty variant: the job is marked, its dead letter row is forgotten.
InsertDeadLetterForgotten(j) == UNCHANGED dlq

InsertDeadLetter(j) == dlq' = dlq \cup {j}

Init ==
    /\ job \in [Jobs -> [status : {"QUEUED", "SCHEDULED"}, worker : {None},
                         attempt : {0}, expired : {FALSE}]]
    /\ dlq = {}
    /\ history = [j \in Jobs |-> {}]
    /\ exec = [j \in Jobs |-> [n \in Attempts |-> NoExec]]
    /\ up = Workers
    /\ doomed = {}
    /\ scan = [w \in Workers |-> {}]
    /\ rec = [w \in Workers |-> NoRow]
    /\ req = [r \in Requests |-> NoReq]

-----------------------------------------------------------------------------
(* Claiming and executing, on a worker *)

Claimable == {j \in Jobs : job[j].status \in {"QUEUED", "RETRY_SCHEDULED"}}

(***************************************************************************)
(* JobClaimer.claimJobs: one transaction whose row locks make the batch    *)
(* atomic.  The new lease ends after any recovery already under way        *)
(* started, so such a recovery passes the job over when it visits it.      *)
(***************************************************************************)
ClaimJobs(w, batch) ==
    /\ w \in up
    /\ batch # {} /\ batch \subseteq Claimable /\ Cardinality(batch) <= BatchLimit
    /\ \A j \in batch : job[j].attempt < MaxClaims
    /\ job' = [j \in Jobs |-> IF j \in batch
                 THEN [status |-> "CLAIMED", worker |-> w,
                       attempt |-> job[j].attempt + 1, expired |-> FALSE]
                 ELSE job[j]]
    /\ exec' = [j \in Jobs |-> IF j \in batch
                  THEN [exec[j] EXCEPT ![job[j].attempt + 1] = ExecAt("claimed", w)]
                  ELSE exec[j]]
    /\ scan' = [v \in Workers |-> scan[v] \ batch]
    /\ UNCHANGED <<dlq, history, up, doomed, rec, req>>

\* poll: the rate limiter refuses the claimed job, which goes back by id alone.
RateLimited(j, n) ==
    /\ "rateLimit" \in Faults
    /\ exec[j][n].pc = "claimed"
    /\ UpdateRow(j, "QUEUED", None)
    /\ SetExec(j, n, Over)
    /\ UNCHANGED <<dlq, history, up, doomed, scan, rec, req>>

\* poll: ConcurrencyManager.acquire refuses; the row stays CLAIMED.
NoSlot(j, n) ==
    /\ "noSlot" \in Faults
    /\ exec[j][n].pc = "claimed"
    /\ SetExec(j, n, Over)
    /\ UNCHANGED <<job, dlq, history, up, doomed, scan, rec, req>>

\* poll: the job gets a slot and executeJob begins.
StartExecution(j, n) ==
    /\ exec[j][n].pc = "claimed"
    /\ SetExec(j, n, [exec[j][n] EXCEPT !.pc = "starting"])
    /\ UNCHANGED <<job, dlq, history, up, doomed, scan, rec, req>>

(***************************************************************************)
(* JobLifecycleService.markRunning: the row must name this worker, in      *)
(* whatever status it is.  Otherwise Prisma throws, nothing in executeJob, *)
(* the pool or poll catches it, and Node ends the process.                 *)
(***************************************************************************)
MarkRunning(j, n) ==
    LET e == exec[j][n] IN
    /\ e.pc = "starting"
    /\ IF job[j].worker = e.worker
         THEN /\ UpdateRow(j, "RUNNING", e.worker)
              /\ SetExec(j, n, [e EXCEPT !.pc = "running"])
              /\ UNCHANGED doomed
         ELSE /\ SetExec(j, n, Over)
              /\ doomed' = doomed \cup {e.worker}
              /\ UNCHANGED job
    /\ UNCHANGED <<dlq, history, up, scan, rec, req>>

\* The lease timer that runs while the handler does; its result is ignored.
ExtendLease(j, n) ==
    /\ exec[j][n].pc = "running"
    /\ job[j].worker = exec[j][n].worker
    /\ job[j].status \in Held
    /\ job' = [job EXCEPT ![j].expired = FALSE]
    /\ scan' = [v \in Workers |-> scan[v] \ {j}]
    /\ UNCHANGED <<dlq, history, exec, up, doomed, rec, req>>

\* executeJobHandler returns, or throws and is caught.
HandlerReturns(j, n, ok) ==
    /\ exec[j][n].pc = "running"
    /\ SetExec(j, n, [exec[j][n] EXCEPT !.pc = "returned", !.ok = ok])
    /\ UNCHANGED <<job, dlq, history, up, doomed, scan, rec, req>>

\* completeJob, first half: the row is read by id, its owner is not compared.
ReadForCompletion(j, n) ==
    /\ exec[j][n].pc = "returned"
    /\ SetExec(j, n, [exec[j][n] EXCEPT !.pc = "completing", !.seen = job[j].attempt])
    /\ UNCHANGED <<job, dlq, history, up, doomed, scan, rec, req>>

\* completeJob, second half: the execution row, and one of three outcomes
\* decided from the attempt number read before.
ExecutionRow(j, n) ==
    [attempt |-> exec[j][n].seen, execution |-> n, ok |-> exec[j][n].ok]

\* Faulty variant: the commit is repeated as if it had been lost.
EndExecutionAgain(j, n) ==
    /\ exec[j][n].pc = "completing"
    /\ SetExec(j, n, [exec[j][n] EXCEPT !.pc = "returned"])
    /\ UNCHANGED <<up, scan, rec, req>>

EndExecution(j, n) ==
    /\ exec[j][n].pc = "completing"
    /\ SetExec(j, n, Over)
    /\ UNCHANGED <<up, scan, rec, req>>

\* Faulty variant: the execution is recorded, the job's status is not updated.
CommitSuccessUnmarked(j, n) ==
    /\ EndExecution(j, n)
    /\ exec[j][n].ok
    /\ history' = [history EXCEPT ![j] = @ \cup {ExecutionRow(j, n)}]
    /\ UNCHANGED <<job, dlq, doomed>>

CommitSuccess(j, n) ==
    /\ EndExecution(j, n)
    /\ exec[j][n].ok
    /\ UpdateRow(j, "COMPLETED", exec[j][n].worker)
    /\ history' = [history EXCEPT ![j] = @ \cup {ExecutionRow(j, n)}]
    /\ UNCHANGED <<dlq, doomed>>

CommitRetry(j, n) ==
    /\ EndExecution(j, n)
    /\ ~exec[j][n].ok /\ ~Exhausted(exec[j][n].seen)
    /\ UpdateRow(j, "RETRY_SCHEDULED", None)
    /\ history' = [history EXCEPT ![j] = @ \cup {ExecutionRow(j, n)}]
    /\ UNCHANGED <<dlq, doomed>>

\* dead_letter_jobs.job_id is unique: a second row rolls the transaction
\* back, and the rejection ends the process like the one of MarkRunning.
CommitDeadLetter(j, n) ==
    /\ EndExecution(j, n)
    /\ ~exec[j][n].ok /\ Exhausted(exec[j][n].seen)
    /\ IF j \notin dlq
         THEN /\ UpdateRow(j, "DEAD_LETTER", exec[j][n].worker)
              /\ InsertDeadLetter(j)
              /\ history' = [history EXCEPT ![j] = @ \cup {ExecutionRow(j, n)}]
              /\ UNCHANGED doomed
         ELSE /\ doomed' = doomed \cup {exec[j][n].worker}
              /\ UNCHANGED <<job, dlq, history>>

\* A worker is killed, or an unhandled rejection ends it.  Its open
\* transactions roll back; what it held in memory is gone.
Crash(w) ==
    /\ w \in up
    /\ w \in Mortal \/ w \in doomed
    /\ up' = up \ {w}
    /\ doomed' = doomed \ {w}
    /\ exec' = [j \in Jobs |-> [n \in Attempts |->
                  IF exec[j][n].worker = w THEN Over ELSE exec[j][n]]]
    /\ scan' = [scan EXCEPT ![w] = {}]
    /\ rec' = [rec EXCEPT ![w] = NoRow]
    /\ UNCHANGED <<job, dlq, history, req>>

-----------------------------------------------------------------------------
(* Lease expiry and recovery *)

(***************************************************************************)
(* Workers extend leases every 5 s against a lease of 60 s.  Unless the    *)
(* environment is late, only a job nobody is executing loses its lease.    *)
(***************************************************************************)
LeaseExpires(j) ==
    /\ job[j].status \in Held
    /\ ~job[j].expired
    /\ "lateLease" \in Faults \/ \A n \in Attempts : ~IsLive(j, n)
    /\ job' = [job EXCEPT ![j].expired = TRUE]
    /\ UNCHANGED <<dlq, history, exec, up, doomed, scan, rec, req>>

\* Faulty variant: the lease is not looked at.
HeldAtAll == {j \in Jobs : job[j].status \in Held}

\* Faulty variant: CLAIMED is forgotten.
ExpiredRunning == {j \in Jobs : job[j].status = "RUNNING" /\ job[j].expired}

\* recoverExpiredLeases: the first query, outside any transaction.
Expired == {j \in Jobs : job[j].status \in Held /\ job[j].expired}

ScanExpired(w) ==
    /\ w \in up \cap Recoverers
    /\ scan[w] = {} /\ rec[w] = NoRow
    /\ Expired # {}
    /\ scan' = [scan EXCEPT ![w] = Expired]
    /\ UNCHANGED <<job, dlq, history, exec, up, doomed, rec, req>>

\* The transaction of one job reads its row without a lock and skips a job
\* that is no longer held.
RecoverRead(w, j) ==
    /\ j \in scan[w] /\ rec[w] = NoRow
    /\ scan' = [scan EXCEPT ![w] = @ \ {j}]
    /\ rec' = IF job[j].status \in Held
                THEN [rec EXCEPT ![w] = [job |-> j, seen |-> job[j].attempt]]
                ELSE rec
    /\ UNCHANGED <<job, dlq, history, exec, up, doomed, req>>

\* ... and writes it by id, from what it read.
RecoverRetry(w) ==
    LET j == rec[w].job IN
    /\ rec[w] # NoRow
    /\ ~Exhausted(rec[w].seen)
    /\ UpdateRow(j, "RETRY_SCHEDULED", None)
    /\ rec' = [rec EXCEPT ![w] = NoRow]
    /\ UNCHANGED <<dlq, history, exec, up, doomed, scan, req>>

RecoverDeadLetter(w) ==
    LET j == rec[w].job IN
    /\ rec[w] # NoRow
    /\ Exhausted(rec[w].seen)
    /\ rec' = [rec EXCEPT ![w] = NoRow]
    /\ IF j \notin dlq
         THEN /\ UpdateRow(j, "DEAD_LETTER", None)
              /\ InsertDeadLetter(j)
              /\ UNCHANGED <<doomed, scan>>
         ELSE /\ doomed' = doomed \cup {w}
              /\ scan' = [scan EXCEPT ![w] = {}]
              /\ UNCHANGED <<job, dlq>>
    /\ UNCHANGED <<history, exec, up, req>>

-----------------------------------------------------------------------------
(* The scheduler and the API *)

\* SchedulerService.promoteReadyJobs: one updateMany per source status; the
\* jobs that are due are any of those in it.
Promote(source, due) ==
    /\ due # {} /\ \A j \in due : job[j].status = source
    /\ job' = [j \in Jobs |-> IF j \in due THEN [job[j] EXCEPT !.status = "QUEUED"]
                              ELSE job[j]]
    /\ UNCHANGED <<dlq, history, exec, up, doomed, scan, rec, req>>

\* POST queues/:queueId/retry-failures: one atomic updateMany.
RetryFailures ==
    LET failed == {j \in Jobs : job[j].status \in {"FAILED", "RETRY_SCHEDULED"}} IN
    /\ "retry" \in Faults
    /\ failed # {}
    /\ job' = [j \in Jobs |-> IF j \in failed
                 THEN [job[j] EXCEPT !.status = "QUEUED", !.worker = None] ELSE job[j]]
    /\ UNCHANGED <<dlq, history, exec, up, doomed, scan, rec, req>>

\* JobService.cancelJob: any status, and the owner stays on the row.
CancelJob(j) ==
    /\ "cancel" \in Faults
    /\ job[j].status # "CANCELLED"
    /\ UpdateRow(j, "CANCELLED", job[j].worker)
    /\ UNCHANGED <<dlq, history, exec, up, doomed, scan, rec, req>>

\* JobService.retryJob: the status check, the deletion of the dead letter row
\* and the update are three statements without a transaction.
RetryCheck(r, j) ==
    /\ "retry" \in Faults
    /\ req[r].pc = "idle"
    /\ job[j].status \in Retryable
    /\ req' = [req EXCEPT ![r] = [job |-> j,
                 pc |-> IF job[j].status = "DEAD_LETTER" THEN "deleting" ELSE "updating"]]
    /\ UNCHANGED <<job, dlq, history, exec, up, doomed, scan, rec>>

RetryDelete(r) ==
    /\ req[r].pc = "deleting"
    /\ dlq' = dlq \ {req[r].job}
    /\ req' = [req EXCEPT ![r].pc = "updating"]
    /\ UNCHANGED <<job, history, exec, up, doomed, scan, rec>>

RetryUpdate(r) ==
    LET j == req[r].job IN
    /\ req[r].pc = "updating"
    /\ UpdateRow(j, "QUEUED", None)
    /\ req' = [req EXCEPT ![r] = NoReq]
    /\ UNCHANGED <<dlq, history, exec, up, doomed, scan, rec>>

\* The API stops: the request is not taken up again.
RetryAborted(r) ==
    /\ "apiCrash" \in Faults
    /\ req[r].pc \in {"deleting", "updating"}
    /\ req' = [req EXCEPT ![r].pc = "aborted"]
    /\ UNCHANGED <<job, dlq, history, exec, up, doomed, scan, rec>>

-----------------------------------------------------------------------------
\* What poll and executeJob do next with an execution.
Execute(j, n) ==
    \/ RateLimited(j, n)
    \/ NoSlot(j, n)
    \/ StartExecution(j, n)
    \/ MarkRunning(j, n)
    \/ \E ok \in BOOLEAN : HandlerReturns(j, n, ok)
    \/ ReadForCompletion(j, n)
    \/ CommitSuccess(j, n)
    \/ CommitRetry(j, n)
    \/ CommitDeadLetter(j, n)

Recover(w) ==
    \/ ScanExpired(w)
    \/ \E j \in Jobs : RecoverRead(w, j)
    \/ RecoverRetry(w)
    \/ RecoverDeadLetter(w)

Api ==
    \/ RetryFailures
    \/ \E j \in Jobs : CancelJob(j)
    \/ \E r \in Requests, j \in Jobs : RetryCheck(r, j)
    \/ \E r \in Requests : RetryDelete(r) \/ RetryUpdate(r) \/ RetryAborted(r)

Next ==
    \/ \E w \in Workers, batch \in SUBSET Jobs : ClaimJobs(w, batch)
    \/ \E j \in Jobs, n \in Attempts : Execute(j, n) \/ ExtendLease(j, n)
    \/ \E j \in Jobs : LeaseExpires(j)
    \/ \E w \in Workers : Recover(w) \/ Crash(w)
    \/ \E source \in {"SCHEDULED", "RETRY_SCHEDULED"}, due \in SUBSET Jobs :
         Promote(source, due)
    \/ Api

Spec == Init /\ [][Next]_vars

(***************************************************************************)
(* Timers fire again and again and awaited calls return: a waiting job is  *)
(* promoted and claimed, an execution moves on (the handler returns), an   *)
(* unextended lease runs out, and the recovery of a running worker visits  *)
(* what it scanned.  Nothing is assumed of crashes, API calls and Mortal   *)
(* workers.                                                                *)
(***************************************************************************)
Fairness ==
    /\ \A j \in Jobs :
         /\ WF_vars(\E w \in Workers, batch \in SUBSET Jobs :
                      j \in batch /\ ClaimJobs(w, batch))
         /\ WF_vars(\E due \in SUBSET Jobs : j \in due /\ Promote("SCHEDULED", due))
         /\ WF_vars(LeaseExpires(j))
         /\ \A n \in Attempts : WF_vars(Execute(j, n))
    /\ \A w \in Workers : WF_vars(Recover(w))

FairSpec == Spec /\ Fairness

-----------------------------------------------------------------------------
(* Properties *)

Row == [status : JobStatus, worker : Workers \cup {None},
        attempt : 0..MaxClaims, expired : BOOLEAN]
HistoryRow == [attempt : 0..MaxClaims, execution : Attempts, ok : BOOLEAN]
ActiveExec == [pc : Live, worker : Workers, ok : BOOLEAN, seen : 0..MaxClaims]

TypeOK ==
    /\ job \in [Jobs -> Row]
    /\ dlq \subseteq Jobs
    /\ history \in [Jobs -> SUBSET HistoryRow]
    /\ exec \in [Jobs -> [Attempts -> ActiveExec \cup {NoExec, Over}]]
    /\ up \subseteq Workers
    /\ doomed \subseteq Workers
    /\ scan \in [Workers -> SUBSET Jobs]
    /\ rec \in [Workers -> [job : Jobs, seen : 0..MaxClaims] \cup {NoRow}]
    /\ req \in [Requests -> [job : Jobs, pc : {"deleting", "updating", "aborted"}] \cup {NoReq}]

\* No job is executed by two executions at a time ("no duplicate execution
\* under concurrent load"): from the claim to the commit of the outcome there
\* is one live execution of a job.
NoConcurrentExecution ==
    \A j \in Jobs : \A m, n \in Attempts : IsLive(j, m) /\ IsLive(j, n) => m = n

\* The side effects of a job that succeeded are not produced again: at most
\* one execution of a job commits a success.
AtMostOneSuccess ==
    \A j \in Jobs : \A a, b \in history[j] : a.ok /\ b.ok => a = b

\* No worker ends itself: markRunning always finds the row it claimed, and the
\* unique key of the dead letter table is never violated.
NoUnhandledRejection == doomed = {}

\* A job that is dead-lettered has used up its attempts, even when the one who
\* decides so works from a row read earlier.
DeadLetterExhausted ==
    \A j \in Jobs : job[j].status = "DEAD_LETTER" => job[j].attempt >= MaxAttempts

\* A DEAD_LETTER job is listed in the dead letter queue, from which an operator
\* requeues it, unless a retry request is about to set it to QUEUED or was cut
\* short before it did.
DeadLetterListed ==
    \A j \in Jobs : job[j].status = "DEAD_LETTER" =>
        \/ j \in dlq
        \/ \E r \in Requests : req[r].job = j /\ req[r].pc \in {"updating", "aborted"}

\* The execution history accounts for every execution once: rows of distinct
\* executions that are over, none recorded under an attempt older than the
\* execution's own or not begun yet; a COMPLETED job has a success on record.
HistoryAccounts ==
    \A j \in Jobs :
      /\ \A a \in history[j] :
           /\ a.execution <= a.attempt /\ a.attempt <= job[j].attempt
           /\ ~IsLive(j, a.execution)
           /\ \A b \in history[j] : a.execution = b.execution => a = b
      /\ job[j].status = "COMPLETED" => \E a \in history[j] : a.ok

\* The progress of a batch comes to its end and stays there, in both of the API's
\* counts: every job reaches an outcome and keeps it, whatever executions fail,
\* claims are abandoned and mortal workers die.
EventuallySettled == <>[](BatchPending = {} /\ ListPending = {})

(***************************************************************************)
(* The environment in which executions exclude each other: leases are      *)
(* extended in time, nobody uses the retry operations, and one worker at   *)
(* most runs the recovery.  Jobs may be cancelled, rate-limited and        *)
(* abandoned, and workers may die.                                         *)
(***************************************************************************)
Orderly ==
    /\ Faults \cap {"lateLease", "retry"} = {}
    /\ \A v, w \in Recoverers : v = w

\* A live execution is the one of the latest claim, and the row names its worker.
ExecutionOwnsRow ==
    \A j \in Jobs, n \in Attempts : IsLive(j, n) =>
      /\ n = job[j].attempt
      /\ job[j].worker = exec[j][n].worker
      /\ job[j].status \in Held \cup {"CANCELLED"}
      /\ ~job[j].expired

\* The recovery has in hand only jobs nobody executes and nobody can claim.
RecoveryOwnsRow ==
    \A w \in Workers :
      /\ scan[w] # {} \/ rec[w] # NoRow => w \in Recoverers
      /\ \A j \in scan[w] : \A n \in Attempts : ~IsLive(j, n)
      /\ rec[w] # NoRow =>
           /\ job[rec[w].job].status \in Held \cup {"CANCELLED"}
           /\ \A n \in Attempts : ~IsLive(rec[w].job, n)

\* A job with an outcome on record is out of everybody's hands.
OutcomeSettlesRow ==
    \A j \in Jobs : j \in dlq \/ (\E a \in history[j] : a.ok) =>
      /\ job[j].status \in {"COMPLETED", "DEAD_LETTER", "CANCELLED"}
      /\ \A n \in Attempts : ~IsLive(j, n)
      /\ \A w \in Workers : rec[w].job # j

ExclusionInv ==
    /\ TypeOK
    /\ ExecutionOwnsRow
    /\ RecoveryOwnsRow
    /\ OutcomeSettlesRow
    /\ AtMostOneSuccess
    /\ NoUnhandledRejection
    /\ \A r \in Requests : req[r] = NoReq

\* What a decision was read from is not newer than the row: attempts only grow.
SeenIsPast ==
    /\ \A j \in Jobs, n \in Attempts : exec[j][n].seen <= job[j].attempt
    /\ \A w \in Workers : rec[w] # NoRow => rec[w].seen <= job[rec[w].job].attempt

-----------------------------------------------------------------------------
(* The contract *)

Phase(j) ==
    CASE job[j].status \in Held -> "held"
      [] job[j].status = "COMPLETED" -> "done"
      [] job[j].status = "DEAD_LETTER" -> "dead"
      [] OTHER -> "waiting"

Contract == INSTANCE JobContract WITH
    phase <- [j \in Jobs |-> Phase(j)], tries <- [j \in Jobs |-> job[j].attempt],
    listed <- dlq

\* Every job goes through the phases the abstract contract allows and no others:
\* one holder at a time, no more than MaxAttempts hand-outs, final outcomes; and
\* the dead letter list holds exactly the dead ones.
ContractHolds == Contract!Spec
=============================================================================
