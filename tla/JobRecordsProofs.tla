--------------------------- MODULE JobRecordsProofs ---------------------------
(***************************************************************************)
(* What the records say of a job, in every environment: races, crashes,    *)
(* late leases, several recoverers and retry requests included.  Then, in  *)
(* a calm environment, that a job keeps its contract.                      *)
(***************************************************************************)
EXTENDS JobLifecycleProofs

\* A row becomes DEAD_LETTER together with a dead letter row, and COMPLETED
\* together with a success on record ...
FinalWithRecord ==
    \A j \in Jobs :
        /\ job'[j].status = "DEAD_LETTER" => job[j].status = "DEAD_LETTER" \/ j \in dlq'
        /\ job'[j].status = "COMPLETED" =>
              job[j].status = "COMPLETED" \/ \E a \in history'[j] : a.ok

\* ... an execution is recorded when it ends ...
OneRecorded ==
    \A j \in Jobs :
        \/ history'[j] = history[j]
        \/ \E n \in Attempts :
              /\ exec[j][n].pc = "completing" /\ exec'[j][n].pc \notin Live
              /\ history'[j] = history[j] \cup {ExecutionRow(j, n)}

\* ... and one begins with a new attempt, and reads the row before it completes.
ExecutionsMove ==
    \A j \in Jobs, n \in Attempts :
        /\ exec'[j][n].pc \in Live =>
              \/ IsLive(j, n)
              \/ /\ n = job[j].attempt + 1 /\ job'[j].attempt = n
                 /\ exec'[j][n].pc # "completing"
        /\ exec'[j][n].pc = "completing" =>
              \/ exec[j][n].pc = "completing" /\ exec'[j][n].seen = exec[j][n].seen
              \/ exec'[j][n].seen = job[j].attempt

Recorded == FinalWithRecord /\ OneRecorded /\ ExecutionsMove

-----------------------------------------------------------------------------
(* What each step does to the records *)

Undecided == JobStatus \ {"DEAD_LETTER", "COMPLETED"}

LEMMA UpdateRecords ==
  ASSUME TypeOK, NEW j \in Jobs, NEW status \in JobStatus,
         NEW w \in Workers \cup {None}, UpdateRow(j, status, w),
         status = "DEAD_LETTER" => j \in dlq',
         status = "COMPLETED" => \E a \in history'[j] : a.ok
  PROVE  FinalWithRecord
BY UpdateRowLemma DEF FinalWithRecord

\* Steps that record nothing and end no job.
LEMMA QuietRecords ==
  ASSUME history' = history, exec' = exec,
         \A j \in Jobs : job'[j].status \in {job[j].status} \cup Undecided
  PROVE  Recorded
<1>1. FinalWithRecord
  BY DEF FinalWithRecord, Undecided
<1>2. OneRecorded /\ ExecutionsMove
  BY DEF OneRecorded, ExecutionsMove, IsLive
<1> QED BY <1>1, <1>2 DEF Recorded

LEMMA ClaimRecords ==
  ASSUME TypeOK, NEW w \in Workers, NEW batch \in SUBSET Jobs, ClaimJobs(w, batch)
  PROVE  Recorded
<1>1. history' = history /\ job \in [Jobs -> Row]
  BY DEF ClaimJobs, TypeOK
<1>2. FinalWithRecord
  BY DEF FinalWithRecord, ClaimJobs
<1>3. OneRecorded
  BY <1>1 DEF OneRecorded
<1>4. ASSUME NEW j \in Jobs, NEW n \in Attempts
      PROVE  \/ exec'[j][n] = exec[j][n]
             \/ /\ n = job[j].attempt + 1 /\ job'[j].attempt = n
                /\ exec'[j][n].pc = "claimed"
  <2>1. CASE j \in batch /\ n = job[j].attempt + 1
    <3>1. /\ exec'[j][n] = ExecAt("claimed", w)
          /\ job'[j] = [status |-> "CLAIMED", worker |-> w, attempt |-> n, expired |-> FALSE]
      BY <2>1, ClaimLemma
    <3> QED BY <2>1, <3>1 DEF ExecAt
  <2>2. CASE j \in batch /\ n # job[j].attempt + 1
    BY <2>2, ClaimLemma
  <2>3. CASE j \notin batch
    BY <2>3, ClaimLemma
  <2> QED BY <2>1, <2>2, <2>3
<1>5. ExecutionsMove
  BY <1>4 DEF ExecutionsMove, IsLive
<1> QED BY <1>2, <1>3, <1>5 DEF Recorded

LEMMA ExecuteRecords ==
  ASSUME TypeOK, NEW j \in Jobs, NEW n \in Attempts, Execute(j, n)
  PROVE  Recorded
<1> DEFINE e == exec[j][n]
<1>0. /\ e \in ActiveExec /\ e.worker \in Workers /\ IsLive(j, n)
      /\ Over \in Exec /\ Over.pc \notin Live /\ Over.pc # "completing"
      /\ history \in [Jobs -> SUBSET HistoryRow]
  BY ExecuteTypes, LiveExec DEF Exec, Over, ExecAt, ActiveExec, Live, TypeOK
<1>1. ASSUME NEW f \in Exec, SetExec(j, n, f),
             f.pc = "completing" => f.seen = job[j].attempt
      PROVE  ExecutionsMove
  <2> SUFFICES ASSUME NEW i \in Jobs, NEW m \in Attempts
      PROVE  exec'[i][m] = exec[i][m] \/ (i = j /\ m = n /\ exec'[i][m] = f)
    BY <1>0, <1>1 DEF ExecutionsMove, IsLive
  <2> QED BY <1>1, SetExecLemma
<1>2. ASSUME history' = history PROVE OneRecorded
  BY <1>2 DEF OneRecorded
<1>3. ASSUME job' = job PROVE FinalWithRecord
  BY <1>3 DEF FinalWithRecord
<1>4. CASE RateLimited(j, n)
  BY <1>0, <1>1, <1>2, <1>4, UpdateRecords DEF RateLimited, JobStatus, Recorded
<1>5. CASE NoSlot(j, n)
  BY <1>0, <1>1, <1>2, <1>3, <1>5 DEF NoSlot, Recorded
<1>6. CASE StartExecution(j, n)
  <2> DEFINE f == [e EXCEPT !.pc = "starting"]
  <2>1. f \in Exec /\ f.pc = "starting"
    BY <1>0 DEF ActiveExec, Exec, Live
  <2>2. SetExec(j, n, f) /\ job' = job /\ history' = history
    BY <1>6 DEF StartExecution
  <2> HIDE DEF f
  <2> QED BY <1>1, <1>2, <1>3, <2>1, <2>2 DEF Recorded
<1>7. CASE MarkRunning(j, n)
  <2> DEFINE f == [e EXCEPT !.pc = "running"]
  <2>1. f \in Exec /\ f.pc = "running"
    BY <1>0 DEF ActiveExec, Exec, Live
  <2>2. history' = history /\ \/ SetExec(j, n, f) /\ UpdateRow(j, "RUNNING", e.worker)
                              \/ SetExec(j, n, Over) /\ job' = job
    BY <1>7 DEF MarkRunning
  <2> HIDE DEF f
  <2> QED BY <1>0, <1>1, <1>2, <1>3, <2>1, <2>2, UpdateRecords DEF JobStatus, Recorded
<1>8. CASE \E ok \in BOOLEAN : HandlerReturns(j, n, ok)
  <2> PICK ok \in BOOLEAN : HandlerReturns(j, n, ok)
    BY <1>8
  <2> DEFINE f == [e EXCEPT !.pc = "returned", !.ok = ok]
  <2>1. f \in Exec /\ f.pc = "returned"
    BY <1>0 DEF ActiveExec, Exec, Live
  <2>2. SetExec(j, n, f) /\ job' = job /\ history' = history
    BY DEF HandlerReturns
  <2> HIDE DEF f
  <2> QED BY <1>1, <1>2, <1>3, <2>1, <2>2 DEF Recorded
<1>9. CASE ReadForCompletion(j, n)
  <2> DEFINE f == [e EXCEPT !.pc = "completing", !.seen = job[j].attempt]
  <2>1. f \in Exec /\ f.seen = job[j].attempt
    BY <1>0 DEF ActiveExec, Exec, Live, TypeOK, Row
  <2>2. SetExec(j, n, f) /\ job' = job /\ history' = history
    BY <1>9 DEF ReadForCompletion
  <2> HIDE DEF f
  <2> QED BY <1>1, <1>2, <1>3, <2>1, <2>2 DEF Recorded
<1>10. CASE EndExecution(j, n)
  <2>1. SetExec(j, n, Over) /\ e.pc = "completing"
    BY <1>10 DEF EndExecution
  <2>2. ExecutionsMove /\ exec'[j][n].pc \notin Live
    BY <1>0, <1>1, <2>1, SetExecLemma
  <2>3. \/ history' = history
        \/ history' = [history EXCEPT ![j] = @ \cup {ExecutionRow(j, n)}]
    BY <1>10 DEF Execute, CommitSuccess, CommitRetry, CommitDeadLetter, EndExecution,
       RateLimited, NoSlot, StartExecution, MarkRunning, HandlerReturns, ReadForCompletion
  <2>4. OneRecorded
    <3> SUFFICES ASSUME NEW i \in Jobs
        PROVE  \/ history'[i] = history[i]
               \/ i = j /\ history'[i] = history[i] \cup {ExecutionRow(j, n)}
      BY <2>1, <2>2 DEF OneRecorded
    <3> QED BY <1>0, <2>3
  <2>5. CASE CommitSuccess(j, n)
    <3>1. ExecutionRow(j, n) \in history'[j] /\ ExecutionRow(j, n).ok
      BY <1>0, <2>5 DEF CommitSuccess, ExecutionRow
    <3>2. FinalWithRecord
      BY <1>0, <2>5, <3>1, UpdateRecords DEF CommitSuccess, JobStatus
    <3> QED BY <2>2, <2>4, <3>2 DEF Recorded
  <2>6. CASE CommitRetry(j, n)
    BY <1>0, <2>2, <2>4, <2>6, UpdateRecords DEF CommitRetry, JobStatus, Recorded
  <2>7. CASE CommitDeadLetter(j, n)
    BY <1>0, <1>3, <2>2, <2>4, <2>7, UpdateRecords
    DEF CommitDeadLetter, InsertDeadLetter, JobStatus, Recorded
  <2>8. CASE ~(CommitSuccess(j, n) \/ CommitRetry(j, n) \/ CommitDeadLetter(j, n))
    BY <1>4, <1>5, <1>6, <1>7, <1>8, <1>9, <2>8 DEF Execute
  <2> QED BY <2>5, <2>6, <2>7, <2>8
<1> QED BY <1>4, <1>5, <1>6, <1>7, <1>8, <1>9, <1>10
        DEF Execute, CommitSuccess, CommitRetry, CommitDeadLetter

LEMMA RecoverRecords ==
  ASSUME TypeOK, NEW w \in Workers, Recover(w)
  PROVE  Recorded
<1>1. history' = history /\ exec' = exec
  BY DEF Recover, ScanExpired, RecoverRead, RecoverRetry, RecoverDeadLetter
<1>2. OneRecorded /\ ExecutionsMove
  BY <1>1 DEF OneRecorded, ExecutionsMove, IsLive
<1>3. rec[w] # NoRow => rec[w].job \in Jobs
  BY DEF TypeOK
<1>4. job' = job => FinalWithRecord
  BY DEF FinalWithRecord
<1>5. RecoverRetry(w) => FinalWithRecord
  BY <1>3, UpdateRecords DEF RecoverRetry, JobStatus
<1>6. RecoverDeadLetter(w) => FinalWithRecord
  BY <1>3, <1>4, UpdateRecords DEF RecoverDeadLetter, InsertDeadLetter, JobStatus
<1> QED BY <1>2, <1>4, <1>5, <1>6 DEF Recover, ScanExpired, RecoverRead, Recorded

LEMMA CrashRecords ==
  ASSUME TypeOK, NEW w \in Workers, Crash(w)
  PROVE  Recorded
<1>1. /\ history' = history /\ job' = job
      /\ \A j \in Jobs, n \in Attempts : exec'[j][n] \in {exec[j][n], Over}
      /\ Over.pc \notin Live /\ Over.pc # "completing"
  BY DEF Crash, Over, ExecAt, Live
<1>2. ExecutionsMove
  BY <1>1 DEF ExecutionsMove, IsLive
<1> QED BY <1>1, <1>2 DEF Recorded, FinalWithRecord, OneRecorded

LEMMA ApiRecords ==
  ASSUME TypeOK, Api
  PROVE  Recorded
<1>1. history' = history /\ exec' = exec
  BY DEF Api, RetryFailures, CancelJob, RetryCheck, RetryDelete, RetryUpdate, RetryAborted
<1>2. job \in [Jobs -> Row]
  BY DEF TypeOK
<1>3. ASSUME NEW j \in Jobs, NEW status \in Undecided, NEW w \in Workers \cup {None},
             UpdateRow(j, status, w)
      PROVE  Recorded
  BY <1>1, <1>3, UpdateRowLemma, QuietRecords DEF Undecided
<1>4. CASE RetryFailures
  <2>1. \A j \in Jobs : job'[j].status \in {job[j].status, "QUEUED"}
    BY <1>2, <1>4 DEF RetryFailures, Row
  <2> QED BY <1>1, <2>1, QuietRecords DEF Undecided, JobStatus
<1>5. ASSUME NEW j \in Jobs, CancelJob(j) PROVE Recorded
  <2>1. job[j].worker \in Workers \cup {None}
    BY <1>2 DEF Row
  <2> QED BY <1>3, <1>5, <2>1 DEF CancelJob, Undecided, JobStatus
<1>6. ASSUME NEW r \in Requests, RetryUpdate(r) PROVE Recorded
  <2>1. req[r].job \in Jobs
    BY <1>6 DEF RetryUpdate, TypeOK, NoReq
  <2> QED BY <1>3, <1>6, <2>1 DEF RetryUpdate, Undecided, JobStatus
<1>7. CASE job' = job
  BY <1>1, <1>7, QuietRecords
<1> QED BY <1>4, <1>5, <1>6, <1>7 DEF Api, RetryCheck, RetryDelete, RetryAborted

LEMMA NextRecords ==
  ASSUME TypeOK, [Next]_vars
  PROVE  Recorded
<1>0. job \in [Jobs -> Row]
  BY DEF TypeOK
<1>1. ASSUME NEW j \in Jobs, LeaseExpires(j) \/ \E n \in Attempts : ExtendLease(j, n)
      PROVE  Recorded
  <2>1. history' = history /\ exec' = exec
    BY <1>1 DEF LeaseExpires, ExtendLease
  <2>2. \A i \in Jobs : job'[i].status = job[i].status
    BY <1>0, <1>1 DEF LeaseExpires, ExtendLease, Row
  <2> QED BY <2>1, <2>2, QuietRecords
<1>2. ASSUME NEW source \in {"SCHEDULED", "RETRY_SCHEDULED"}, NEW due \in SUBSET Jobs,
             Promote(source, due)
      PROVE  Recorded
  <2>1. history' = history /\ exec' = exec
    BY <1>2 DEF Promote
  <2>2. \A i \in Jobs : job'[i].status \in {job[i].status, "QUEUED"}
    BY <1>0, <1>2 DEF Promote, Row
  <2> QED BY <2>1, <2>2, QuietRecords DEF Undecided, JobStatus
<1>3. CASE UNCHANGED vars
  BY <1>3, QuietRecords DEF vars
<1> QED BY <1>1, <1>2, <1>3, ClaimRecords, ExecuteRecords, RecoverRecords, CrashRecords,
           ApiRecords DEF Next

-----------------------------------------------------------------------------
(* A dead job is on the dead letter list *)

\* A job leaves the list only for a retry request that is about to requeue it, and
\* such a request stays, if cut short, or requeues the job.
ListKept ==
    /\ \A j \in dlq : j \in dlq' \/ \E r \in Requests : req'[r].job = j /\ req'[r].pc = "updating"
    /\ \A r \in Requests : req[r].pc \in {"updating", "aborted"} =>
          \/ req'[r].job = req[r].job /\ req'[r].pc \in {"updating", "aborted"}
          \/ job'[req[r].job].status = "QUEUED"

LEMMA NextListKept ==
  ASSUME TypeOK, [Next]_vars
  PROVE  ListKept
<1>1. dlq \subseteq dlq' /\ req' = req => ListKept
  BY DEF ListKept
<1>2. ASSUME NEW r \in Requests, NEW j \in Jobs, RetryCheck(r, j) PROVE ListKept
  <2>1. /\ dlq' = dlq /\ req[r].pc = "idle"
        /\ \A q \in Requests \ {r} : req'[q] = req[q]
    BY <1>2 DEF RetryCheck, TypeOK
  <2> QED BY <2>1 DEF ListKept
<1>3. ASSUME NEW r \in Requests, req[r].pc # "idle"
      PROVE  req[r].job \in Jobs /\ req[r] \in [job : Jobs, pc : {"deleting", "updating", "aborted"}]
  BY <1>3 DEF TypeOK, NoReq
<1>4. ASSUME NEW r \in Requests, RetryDelete(r) \/ RetryAborted(r) PROVE ListKept
  <2>1. req[r] \in [job : Jobs, pc : {"deleting", "updating", "aborted"}]
    BY <1>3, <1>4 DEF RetryDelete, RetryAborted
  <2>2. /\ dlq' = dlq \/ (dlq' = dlq \ {req[r].job} /\ req'[r].pc = "updating")
        /\ req'[r].job = req[r].job /\ req'[r].pc \in {"updating", "aborted"}
        /\ \A q \in Requests \ {r} : req'[q] = req[q]
    BY <1>4, <2>1 DEF RetryDelete, RetryAborted, TypeOK
  <2> QED BY <2>2 DEF ListKept
<1>5. ASSUME NEW r \in Requests, RetryUpdate(r) PROVE ListKept
  <2>1. req[r].job \in Jobs
    BY <1>3, <1>5 DEF RetryUpdate
  <2>2. /\ dlq' = dlq /\ \A q \in Requests \ {r} : req'[q] = req[q]
        /\ job'[req[r].job].status = "QUEUED"
    BY <1>5, <2>1, UpdateRowLemma DEF RetryUpdate, TypeOK, JobStatus
  <2> QED BY <2>2 DEF ListKept
<1>6. ASSUME NEW w \in Workers, Recover(w) \/ Crash(w) PROVE ListKept
  BY <1>1, <1>6
  DEF Recover, ScanExpired, RecoverRead, RecoverRetry, RecoverDeadLetter, InsertDeadLetter, Crash
<1>7. ASSUME NEW j \in Jobs, NEW n \in Attempts, Execute(j, n) \/ ExtendLease(j, n)
      PROVE  ListKept
  BY <1>1, <1>7
  DEF Execute, RateLimited, NoSlot, StartExecution, MarkRunning, HandlerReturns,
      ReadForCompletion, CommitSuccess, CommitRetry, CommitDeadLetter, InsertDeadLetter,
      EndExecution, ExtendLease
<1>8. CASE UNCHANGED vars
  BY <1>1, <1>8 DEF vars
<1> QED BY <1>1, <1>2, <1>4, <1>5, <1>6, <1>7, <1>8
        DEF Next, Api, RetryFailures, CancelJob, ClaimJobs, LeaseExpires, Promote

\* No dead job is off the dead letter list, but for a retry request that is about
\* to requeue it or was cut short before it did.
THEOREM DeadAreListed == Spec => []DeadLetterListed
<1>1. Init => DeadLetterListed
  BY DEF Init, DeadLetterListed
<1>2. TypeOK /\ DeadLetterListed /\ [Next]_vars => DeadLetterListed'
  <2> SUFFICES ASSUME TypeOK, DeadLetterListed, [Next]_vars,
                      NEW j \in Jobs, job'[j].status = "DEAD_LETTER", j \notin dlq'
      PROVE  \E r \in Requests : req'[r].job = j /\ req'[r].pc \in {"updating", "aborted"}
    BY DEF DeadLetterListed
  <2>1. job[j].status = "DEAD_LETTER"
    BY NextRecords DEF Recorded, FinalWithRecord
  <2>2. ListKept
    BY NextListKept
  <2>3. CASE j \in dlq
    BY <2>2, <2>3 DEF ListKept
  <2>4. CASE j \notin dlq
    <3>1. PICK r \in Requests : req[r].job = j /\ req[r].pc \in {"updating", "aborted"}
      BY <2>1, <2>4 DEF DeadLetterListed
    <3> QED BY <2>2, <3>1 DEF ListKept
  <2> QED BY <2>3, <2>4
<1> QED BY <1>1, <1>2, TypeCorrect, PTL DEF Spec

-----------------------------------------------------------------------------
(* The history accounts for every execution *)

\* A live execution is not from the future; when it completes, nor is it from after
\* its reading of the row.
ExecutionsBegun ==
    \A j \in Jobs, n \in Attempts : IsLive(j, n) =>
        /\ n <= job[j].attempt
        /\ exec[j][n].pc = "completing" => n <= exec[j][n].seen

LEMMA NextBegun ==
  ASSUME TypeOK, ExecutionsBegun, [Next]_vars
  PROVE  ExecutionsBegun'
<1> SUFFICES ASSUME NEW j \in Jobs, NEW n \in Attempts, exec'[j][n].pc \in Live
    PROVE  /\ n <= job'[j].attempt
           /\ exec'[j][n].pc = "completing" => n <= exec'[j][n].seen
  BY DEF ExecutionsBegun, IsLive
<1>1. ExecutionsMove
  BY NextRecords DEF Recorded
<1>2. /\ job'[j].attempt >= job[j].attempt
      /\ job[j].attempt \in Nat /\ job'[j].attempt \in Nat /\ n \in Nat
  BY AttemptsGrow, NextType, BoundAssumption DEF TypeOK, Row, Attempts
<1>3. CASE IsLive(j, n)
  <2>1. n <= job[j].attempt /\ (exec[j][n].pc = "completing" => n <= exec[j][n].seen)
    BY <1>3 DEF ExecutionsBegun
  <2> QED BY <1>1, <1>2, <2>1 DEF ExecutionsMove
<1>4. CASE ~IsLive(j, n)
  BY <1>1, <1>2, <1>4 DEF ExecutionsMove
<1> QED BY <1>3, <1>4

LEMMA NextHistory ==
  ASSUME TypeOK, SeenIsPast, ExecutionsBegun, HistoryAccounts, [Next]_vars
  PROVE  HistoryAccounts'
<1>0. Recorded /\ TypeOK'
  BY NextRecords, NextType
<1> SUFFICES ASSUME NEW j \in Jobs
    PROVE  /\ \A a \in history'[j] :
                /\ a.execution <= a.attempt /\ a.attempt <= job'[j].attempt
                /\ exec'[j][a.execution].pc \notin Live
                /\ \A b \in history'[j] : a.execution = b.execution => a = b
           /\ job'[j].status = "COMPLETED" => \E a \in history'[j] : a.ok
  BY DEF HistoryAccounts, IsLive
<1>1. /\ job'[j].attempt >= job[j].attempt
      /\ job[j].attempt \in Nat /\ job'[j].attempt \in Nat
      /\ history[j] \subseteq HistoryRow
  BY <1>0, AttemptsGrow, BoundAssumption DEF TypeOK, Row
<1>2. \A a \in HistoryRow : a.execution \in Attempts /\ a.execution \in Nat /\ a.attempt \in Nat
  BY BoundAssumption DEF HistoryRow, Attempts
<1>3. ASSUME NEW a \in history[j]
      PROVE  /\ a.execution <= a.attempt /\ a.attempt <= job'[j].attempt
             /\ exec'[j][a.execution].pc \notin Live
             /\ ~IsLive(j, a.execution)
  <2>1. /\ a.execution <= a.attempt /\ a.attempt <= job[j].attempt
        /\ ~IsLive(j, a.execution)
    BY DEF HistoryAccounts
  <2>2. a.execution \in Attempts /\ a.execution \in Nat /\ a.attempt \in Nat
    BY <1>1, <1>2
  <2>3. a.execution # job[j].attempt + 1
    BY <1>1, <2>1, <2>2
  <2> QED BY <1>0, <1>1, <2>1, <2>2, <2>3 DEF Recorded, ExecutionsMove
<1>4. \A a, b \in history[j] : a.execution = b.execution => a = b
  BY DEF HistoryAccounts
<1>5. history[j] \subseteq history'[j]
  BY <1>0 DEF Recorded, OneRecorded
<1>6. job'[j].status = "COMPLETED" => \E a \in history'[j] : a.ok
  BY <1>0, <1>5 DEF Recorded, FinalWithRecord, HistoryAccounts
<1>7. CASE history'[j] = history[j]
  BY <1>3, <1>4, <1>6, <1>7
<1>8. ASSUME NEW n \in Attempts, exec[j][n].pc = "completing", exec'[j][n].pc \notin Live,
             history'[j] = history[j] \cup {ExecutionRow(j, n)}
      PROVE  \A a \in history'[j] :
                /\ a.execution <= a.attempt /\ a.attempt <= job'[j].attempt
                /\ exec'[j][a.execution].pc \notin Live
                /\ \A b \in history'[j] : a.execution = b.execution => a = b
  <2>1. IsLive(j, n) /\ n <= exec[j][n].seen /\ exec[j][n].seen <= job[j].attempt
    BY <1>8 DEF IsLive, Live, ExecutionsBegun, SeenIsPast
  <2>2. exec[j][n].seen \in Nat
    BY <2>1, LiveExec, BoundAssumption DEF ActiveExec
  <2>3. PICK row : row = ExecutionRow(j, n)
    OBVIOUS
  <2>4. row.execution = n /\ row.attempt = exec[j][n].seen
    BY <2>3 DEF ExecutionRow
  <2>5. /\ row.execution <= row.attempt /\ row.attempt <= job'[j].attempt
        /\ exec'[j][row.execution].pc \notin Live
    BY <1>1, <1>8, <2>1, <2>2, <2>4
  <2>6. \A a \in history[j] : a.execution # row.execution
    BY <1>3, <2>1, <2>4
  <2>7. history'[j] = history[j] \cup {row}
    BY <1>8, <2>3
  <2> QED BY <1>3, <1>4, <2>5, <2>6, <2>7
<1> QED BY <1>0, <1>6, <1>7, <1>8 DEF Recorded, OneRecorded

LEMMA InitHistory == Init => ExecutionsBegun /\ HistoryAccounts
<1> SUFFICES ASSUME Init PROVE ExecutionsBegun /\ HistoryAccounts
  OBVIOUS
<1>1. \A j \in Jobs, n \in Attempts : ~IsLive(j, n)
  BY DEF Init, IsLive, NoExec, ExecAt, Live
<1>2. \A j \in Jobs : history[j] = {} /\ job[j].status # "COMPLETED"
  BY DEF Init
<1> QED BY <1>1, <1>2 DEF ExecutionsBegun, HistoryAccounts

\* The history has one row for each execution that was recorded, none under an
\* attempt older than the execution or not begun yet, and a COMPLETED job has a
\* success on record, whoever else writes the job's row meanwhile.
THEOREM HistoryIsTrue == Spec => []HistoryAccounts
<1>1. TypeOK /\ SeenIsPast /\ DeadLetterExhausted /\ [Next]_vars
        => SeenIsPast' /\ DeadLetterExhausted'
  BY NextSeen
<1>2. TypeOK /\ ExecutionsBegun /\ [Next]_vars => ExecutionsBegun'
  BY NextBegun
<1>3. TypeOK /\ SeenIsPast /\ ExecutionsBegun /\ HistoryAccounts /\ [Next]_vars
        => HistoryAccounts'
  BY NextHistory
<1> QED BY <1>1, <1>2, <1>3, TypeCorrect, InitSeen, InitHistory, PTL DEF Spec

-----------------------------------------------------------------------------
(* The contract *)

\* The environment of the contract: an orderly one, where nobody cancels and no queue
\* has a rate limit, which gives a job back also when it has no attempt left.
Calm == Orderly /\ Faults \cap {"cancel", "rateLimit"} = {}

\* A waiting job has an attempt left, and who decides on a job has read its row as
\* it is.
ContractInv ==
    /\ \A j \in Jobs :
         /\ job[j].attempt <= MaxAttempts
         /\ job[j].status \in Waiting \cup Held \cup {"COMPLETED", "DEAD_LETTER"}
         /\ job[j].status \in Waiting => job[j].attempt < MaxAttempts
         /\ j \in dlq <=> job[j].status = "DEAD_LETTER"
    /\ \A j \in Jobs, n \in Attempts :
         exec[j][n].pc = "completing" => exec[j][n].seen = job[j].attempt
    /\ \A w \in Workers : rec[w] # NoRow => rec[w].seen = job[rec[w].job].attempt

\* What a step does to a row.
RowStep(j) ==
    \/ /\ job[j].status \in Waiting /\ job'[j].status \in Held
       /\ job[j].attempt < MaxAttempts /\ job'[j].attempt = job[j].attempt + 1
    \/ /\ job[j].status \in Held /\ job'[j].status = "COMPLETED"
       /\ job'[j].attempt = job[j].attempt
    \/ /\ job[j].status \in Held /\ job'[j].status \in Waiting
       /\ job[j].attempt < MaxAttempts /\ job'[j].attempt = job[j].attempt
    \/ /\ job[j].status \in Held /\ job'[j].status = "DEAD_LETTER"
       /\ job[j].attempt = MaxAttempts /\ job'[j].attempt = job[j].attempt
    \/ /\ \/ job'[j].status = job[j].status
          \/ job[j].status \in Held /\ job'[j].status \in Held
          \/ job[j].status \in Waiting /\ job'[j].status \in Waiting
       /\ job'[j].attempt = job[j].attempt

ListStep(j) ==
    \/ (j \in dlq' <=> j \in dlq)
       /\ (job'[j].status = "DEAD_LETTER" <=> job[j].status = "DEAD_LETTER")
    \/ j \in dlq' /\ job'[j].status = "DEAD_LETTER"

CalmStep ==
    /\ \A j \in Jobs : RowStep(j) /\ ListStep(j)
    /\ job' = job \/ \A w \in Workers : rec'[w] \in {rec[w], NoRow}

LEMMA SameRow ==
  ASSUME NEW j \in Jobs, job'[j] = job[j], j \in dlq' <=> j \in dlq
  PROVE  RowStep(j) /\ ListStep(j)
BY DEF RowStep, ListStep

LEMMA ClaimCalm ==
  ASSUME ExclusionInv, ContractInv,
         NEW w \in Workers, NEW batch \in SUBSET Jobs, ClaimJobs(w, batch)
  PROVE  CalmStep
<1>1. rec' = rec /\ dlq' = dlq /\ TypeOK
  BY DEF ClaimJobs, ExclusionInv
<1>2. ASSUME NEW j \in batch PROVE RowStep(j) /\ ListStep(j)
  <2>1. job'[j] = [status |-> "CLAIMED", worker |-> w,
                   attempt |-> job[j].attempt + 1, expired |-> FALSE]
    BY <1>1, ClaimLemma
  <2>2. job[j].status \in Waiting /\ job[j].status # "DEAD_LETTER"
    BY DEF ClaimJobs, Claimable, Waiting
  <2>3. job[j].attempt < MaxAttempts
    BY <2>2 DEF ContractInv
  <2> QED BY <1>1, <2>1, <2>2, <2>3 DEF RowStep, ListStep, Held
<1>3. ASSUME NEW j \in Jobs \ batch PROVE RowStep(j) /\ ListStep(j)
  BY <1>1, ClaimLemma, SameRow
<1> QED BY <1>1, <1>2, <1>3 DEF CalmStep

LEMMA ExecuteCalm ==
  ASSUME Calm, ExclusionInv, ContractInv, NEW j \in Jobs, NEW n \in Attempts, Execute(j, n)
  PROVE  CalmStep
<1> DEFINE e == exec[j][n]
<1>1. /\ n = job[j].attempt /\ j \notin dlq /\ rec' = rec
      /\ \A i \in Jobs \ {j} : job'[i] = job[i]
      /\ job'[j].attempt = job[j].attempt
      /\ dlq' = dlq \/ dlq' = dlq \cup {j}
  BY ExecuteEffect
<1>2. TypeOK /\ e \in ActiveExec /\ e.worker \in Workers
  BY ExecuteTypes DEF ExclusionInv, ActiveExec
<1>3. job[j].status \in Held
  <2>1. IsLive(j, n)
    BY ExecuteEffect
  <2> QED BY <2>1 DEF ExclusionInv, ExecutionOwnsRow, ContractInv, Waiting, Held
<1>4. job[j].attempt \in Nat /\ job[j].attempt <= MaxAttempts
  BY <1>2, BoundAssumption DEF TypeOK, Row, ContractInv
<1>5. job' = job /\ dlq' = dlq => RowStep(j) /\ ListStep(j)
  BY SameRow
<1>6. RowStep(j) /\ ListStep(j)
  <2>1. CASE RateLimited(j, n)
    BY <2>1 DEF Calm, RateLimited
  <2>2. CASE NoSlot(j, n) \/ StartExecution(j, n) \/ ReadForCompletion(j, n)
             \/ \E ok \in BOOLEAN : HandlerReturns(j, n, ok)
    BY <1>5, <2>2 DEF NoSlot, StartExecution, ReadForCompletion, HandlerReturns
  <2>3. CASE MarkRunning(j, n)
    <3>1. job' = job \/ job'[j].status = "RUNNING"
      BY <1>2, <2>3, UpdateRowLemma DEF MarkRunning, JobStatus
    <3>2. dlq' = dlq
      BY <2>3 DEF MarkRunning
    <3> QED BY <1>1, <1>3, <1>5, <3>1, <3>2 DEF RowStep, ListStep, Held
  <2>4. CASE CommitSuccess(j, n)
    <3>1. job'[j].status = "COMPLETED" /\ dlq' = dlq
      BY <1>2, <2>4, UpdateRowLemma DEF CommitSuccess, JobStatus
    <3> QED BY <1>1, <1>3, <3>1 DEF RowStep, ListStep, Held
  <2>5. CASE CommitRetry(j, n)
    <3>1. job'[j].status = "RETRY_SCHEDULED" /\ dlq' = dlq
      BY <1>2, <2>5, UpdateRowLemma DEF CommitRetry, JobStatus
    <3>2. ~Exhausted(job[j].attempt)
      BY <2>5 DEF CommitRetry, EndExecution, ContractInv
    <3> QED BY <1>1, <1>3, <1>4, <3>1, <3>2, BoundAssumption
            DEF RowStep, ListStep, Held, Waiting, Exhausted
  <2>6. CASE CommitDeadLetter(j, n)
    <3>1. job'[j].status = "DEAD_LETTER" /\ j \in dlq'
      BY <1>1, <1>2, <2>6, UpdateRowLemma DEF CommitDeadLetter, InsertDeadLetter, JobStatus
    <3>2. Exhausted(job[j].attempt)
      BY <2>6 DEF CommitDeadLetter, EndExecution, ContractInv
    <3> QED BY <1>1, <1>3, <1>4, <3>1, <3>2, BoundAssumption
            DEF RowStep, ListStep, Exhausted
  <2> QED BY <2>1, <2>2, <2>3, <2>4, <2>5, <2>6 DEF Execute
<1>7. ASSUME NEW i \in Jobs \ {j} PROVE RowStep(i) /\ ListStep(i)
  BY <1>1, SameRow
<1> QED BY <1>1, <1>6, <1>7 DEF CalmStep

LEMMA RecoverCalm ==
  ASSUME ExclusionInv, ContractInv, NEW w \in Workers, Recover(w)
  PROVE  CalmStep
<1>1. TypeOK
  BY DEF ExclusionInv
<1>2. job' = job /\ dlq' = dlq => CalmStep
  BY SameRow DEF CalmStep
<1>3. CASE RecoverRetry(w) \/ RecoverDeadLetter(w)
  <2>1. PICK j : j = rec[w].job
    OBVIOUS
  <2>2. /\ rec[w] # NoRow /\ j \in Jobs /\ job[j].attempt = rec[w].seen
        /\ \A v \in Workers : rec'[v] \in {rec[v], NoRow}
    BY <1>1, <1>3, <2>1 DEF RecoverRetry, RecoverDeadLetter, TypeOK, ContractInv
  <2>3. job[j].status \in Held /\ j \notin dlq
    BY <2>1, <2>2 DEF ExclusionInv, RecoveryOwnsRow, ContractInv, Waiting, Held
  <2>4. job[j].attempt \in Nat /\ job[j].attempt <= MaxAttempts
    BY <1>1, <2>2, BoundAssumption DEF TypeOK, Row, ContractInv
  <2>5. CASE RecoverRetry(w)
    <3>1. /\ job'[j].status = "RETRY_SCHEDULED" /\ job'[j].attempt = job[j].attempt
          /\ dlq' = dlq /\ \A i \in Jobs \ {j} : job'[i] = job[i]
      BY <1>1, <2>1, <2>2, <2>5, UpdateRowLemma DEF RecoverRetry, JobStatus
    <3>2. ~Exhausted(job[j].attempt)
      BY <2>2, <2>5 DEF RecoverRetry
    <3>3. RowStep(j) /\ ListStep(j)
      BY <2>3, <2>4, <3>1, <3>2, BoundAssumption
      DEF RowStep, ListStep, Held, Waiting, Exhausted
    <3> QED BY <2>2, <3>1, <3>3, SameRow DEF CalmStep
  <2>6. CASE RecoverDeadLetter(w)
    <3>1. /\ job'[j].status = "DEAD_LETTER" /\ job'[j].attempt = job[j].attempt
          /\ dlq' = dlq \cup {j} /\ \A i \in Jobs \ {j} : job'[i] = job[i]
      BY <1>1, <2>1, <2>2, <2>3, <2>6, UpdateRowLemma
      DEF RecoverDeadLetter, InsertDeadLetter, JobStatus
    <3>2. Exhausted(job[j].attempt)
      BY <2>2, <2>6 DEF RecoverDeadLetter
    <3>3. RowStep(j) /\ ListStep(j)
      BY <2>3, <2>4, <3>1, <3>2, BoundAssumption DEF RowStep, ListStep, Exhausted
    <3> QED BY <2>2, <3>1, <3>3, SameRow DEF CalmStep
  <2> QED BY <1>3, <2>5, <2>6
<1> QED BY <1>2, <1>3 DEF Recover, ScanExpired, RecoverRead

LEMMA NextCalm ==
  ASSUME Calm, ExclusionInv, ContractInv, [Next]_vars
  PROVE  CalmStep
<1>1. job \in [Jobs -> Row] /\ Orderly
  BY DEF ExclusionInv, TypeOK, Calm
<1>2. ASSUME NEW j \in Jobs, LeaseExpires(j) \/ \E n \in Attempts : ExtendLease(j, n)
      PROVE  CalmStep
  <2>1. rec' = rec /\ dlq' = dlq
    BY <1>2 DEF LeaseExpires, ExtendLease
  <2>2. \A i \in Jobs : job'[i].status = job[i].status /\ job'[i].attempt = job[i].attempt
    BY <1>1, <1>2 DEF LeaseExpires, ExtendLease, Row
  <2> QED BY <2>1, <2>2 DEF CalmStep, RowStep, ListStep
<1>3. ASSUME NEW source \in {"SCHEDULED", "RETRY_SCHEDULED"}, NEW due \in SUBSET Jobs,
             Promote(source, due)
      PROVE  CalmStep
  <2>1. rec' = rec /\ dlq' = dlq
    BY <1>3 DEF Promote
  <2>2. ASSUME NEW i \in Jobs PROVE RowStep(i) /\ ListStep(i)
    <3>1. CASE i \in due
      <4>1. /\ job[i].status \in {"SCHEDULED", "RETRY_SCHEDULED"}
            /\ job'[i].status = "QUEUED" /\ job'[i].attempt = job[i].attempt
        BY <1>1, <1>3, <3>1 DEF Promote, Row
      <4> QED BY <2>1, <4>1 DEF RowStep, ListStep, Waiting
    <3>2. CASE i \notin due
      BY <1>3, <2>1, <3>2, SameRow DEF Promote
    <3> QED BY <3>1, <3>2
  <2> QED BY <2>1, <2>2 DEF CalmStep
<1>4. ~Api
  <2>1. ~RetryFailures /\ \A r \in Requests, j \in Jobs : ~RetryCheck(r, j)
    BY <1>1 DEF RetryFailures, RetryCheck, Orderly
  <2>2. \A r \in Requests : ~RetryDelete(r) /\ ~RetryUpdate(r) /\ ~RetryAborted(r)
    BY DEF ExclusionInv, NoReq, RetryDelete, RetryUpdate, RetryAborted
  <2>3. \A j \in Jobs : ~CancelJob(j)
    BY DEF CancelJob, Calm
  <2> QED BY <2>1, <2>2, <2>3 DEF Api
<1>5. ASSUME NEW w \in Workers, Crash(w) PROVE CalmStep
  BY <1>5, SameRow DEF Crash, CalmStep
<1>6. CASE UNCHANGED vars
  BY <1>6, SameRow DEF vars, CalmStep
<1> QED BY <1>2, <1>3, <1>4, <1>5, <1>6, ClaimCalm, ExecuteCalm, RecoverCalm DEF Next

LEMMA NextContract ==
  ASSUME Calm, ExclusionInv, ContractInv, [Next]_vars
  PROVE  ContractInv'
<1>1. CalmStep /\ Recorded /\ ReadsPresent /\ TypeOK
  BY NextCalm, NextRecords, NextReads DEF ExclusionInv
<1>2. ASSUME NEW j \in Jobs
      PROVE  /\ job'[j].attempt <= MaxAttempts
             /\ job'[j].status \in Waiting \cup Held \cup {"COMPLETED", "DEAD_LETTER"}
             /\ job'[j].status \in Waiting => job'[j].attempt < MaxAttempts
             /\ j \in dlq' <=> job'[j].status = "DEAD_LETTER"
             /\ job[j].status \notin Waiting => job'[j].attempt = job[j].attempt
  <2>1. RowStep(j) /\ ListStep(j) /\ job[j].attempt \in Nat
    BY <1>1, BoundAssumption DEF CalmStep, TypeOK, Row
  <2>2. /\ job[j].attempt <= MaxAttempts
        /\ job[j].status \in Waiting \cup Held \cup {"COMPLETED", "DEAD_LETTER"}
        /\ job[j].status \in Waiting => job[j].attempt < MaxAttempts
        /\ j \in dlq <=> job[j].status = "DEAD_LETTER"
    BY DEF ContractInv
  <2>3. job'[j].attempt <= MaxAttempts
    BY <2>1, <2>2, BoundAssumption DEF RowStep
  <2>4. /\ job'[j].status \in Waiting \cup Held \cup {"COMPLETED", "DEAD_LETTER"}
        /\ job[j].status \notin Waiting => job'[j].attempt = job[j].attempt
    BY <2>1, <2>2 DEF RowStep
  <2>5. job'[j].status \in Waiting => job'[j].attempt < MaxAttempts
    BY <2>1, <2>2 DEF RowStep, Waiting, Held
  <2>6. j \in dlq' <=> job'[j].status = "DEAD_LETTER"
    BY <2>1, <2>2 DEF ListStep
  <2> QED BY <2>3, <2>4, <2>5, <2>6
<1>3. ASSUME NEW j \in Jobs, NEW n \in Attempts, exec'[j][n].pc = "completing"
      PROVE  exec'[j][n].seen = job'[j].attempt
  <2>1. IsLive(j, n)
    BY <1>1, <1>3 DEF Recorded, ExecutionsMove, Live
  <2>2. job[j].status \notin Waiting
    BY <2>1 DEF ExclusionInv, ExecutionOwnsRow, Held, Waiting
  <2>3. exec'[j][n].seen = job[j].attempt
    BY <1>1, <1>3 DEF Recorded, ExecutionsMove, ContractInv
  <2> QED BY <1>2, <2>2, <2>3
<1>4. ASSUME NEW w \in Workers, rec'[w] # NoRow
      PROVE  rec'[w].seen = job'[rec'[w].job].attempt
  <2>1. CASE rec'[w] = rec[w]
    <3>1. /\ rec[w] # NoRow /\ rec[w].job \in Jobs
          /\ rec[w].seen = job[rec[w].job].attempt
      BY <1>1, <1>4, <2>1 DEF ContractInv, TypeOK
    <3>2. job[rec[w].job].status \notin Waiting
      BY <3>1 DEF ExclusionInv, RecoveryOwnsRow, Held, Waiting
    <3> QED BY <1>2, <2>1, <3>1, <3>2
  <2>2. CASE rec'[w] # rec[w]
    <3>1. job' = job
      BY <1>1, <1>4, <2>2 DEF CalmStep
    <3>2. PICK j \in Jobs : rec'[w] = [job |-> j, seen |-> job[j].attempt]
      BY <1>1, <1>4, <2>2 DEF ReadsPresent
    <3> QED BY <3>1, <3>2
  <2> QED BY <2>1, <2>2
<1> QED BY <1>2, <1>3, <1>4 DEF ContractInv

LEMMA InitContract == Init => ContractInv
<1> SUFFICES ASSUME Init PROVE ContractInv
  OBVIOUS
<1>1. \A j \in Jobs : job[j].attempt = 0 /\ job[j].status \in {"QUEUED", "SCHEDULED"}
  BY DEF Init
<1>2. \A j \in Jobs, n \in Attempts : exec[j][n].pc = "none"
  BY DEF Init, NoExec, ExecAt
<1> QED BY <1>1, <1>2, BoundAssumption DEF Init, ContractInv, Waiting

\* In a calm environment a waiting job has an attempt left, whoever is about to
\* decide on a job has read the row as it is, and the list holds the dead jobs.
THEOREM DecisionsAreCurrent == ASSUME Calm PROVE Spec => []ContractInv
<1>1. ExclusionInv /\ ContractInv /\ [Next]_vars => ContractInv'
  BY NextContract
<1>2. Spec => []ExclusionInv
  BY ExclusionInvariant DEF Calm
<1> QED BY <1>1, <1>2, InitContract, PTL DEF Spec

LEMMA PhaseOf ==
  ASSUME NEW j \in Jobs
  PROVE  /\ job[j].status \in Held => Phase(j) = "held"
         /\ job[j].status = "COMPLETED" => Phase(j) = "done"
         /\ job[j].status = "DEAD_LETTER" => Phase(j) = "dead"
         /\ job[j].status \in Waiting => Phase(j) = "waiting"
BY DEF Phase, Held, Waiting

LEMMA PhaseAfter ==
  ASSUME NEW j \in Jobs
  PROVE  /\ job'[j].status \in Held => Phase(j)' = "held"
         /\ job'[j].status = "COMPLETED" => Phase(j)' = "done"
         /\ job'[j].status = "DEAD_LETTER" => Phase(j)' = "dead"
         /\ job'[j].status \in Waiting => Phase(j)' = "waiting"
BY DEF Phase, Held, Waiting

LEMMA InitPhases == Init => Contract!Init
<1> SUFFICES ASSUME Init PROVE Contract!Init
  OBVIOUS
<1>1. ASSUME NEW j \in Jobs PROVE Phase(j) = "waiting" /\ job[j].attempt = 0
  BY PhaseOf DEF Init, Waiting
<1>2. dlq = {}
  BY DEF Init
<1> QED BY <1>1, <1>2 DEF Contract!Init

LEMMA NextPhases ==
  ASSUME Calm, ExclusionInv, ContractInv, ContractInv', TypeOK', [Next]_vars
  PROVE  Contract!Next
<1>1. ASSUME NEW j \in Jobs
      PROVE  /\ Phase(j)' \in {"waiting", "held", "done", "dead"}
             /\ Phase(j)' = "dead" <=> j \in dlq'
             /\ job'[j].attempt \in 0..MaxAttempts
  <2>1. /\ job'[j].status \in Waiting \cup Held \cup {"COMPLETED", "DEAD_LETTER"}
        /\ j \in dlq' <=> job'[j].status = "DEAD_LETTER"
        /\ job'[j].attempt \in Nat /\ job'[j].attempt <= MaxAttempts
    BY BoundAssumption DEF ContractInv, TypeOK, Row
  <2>2. job'[j].status \in Waiting \cup Held \cup {"COMPLETED"}
          => job'[j].status # "DEAD_LETTER"
    BY DEF Waiting, Held
  <2>3. job'[j].attempt \in 0..MaxAttempts
    BY <2>1, BoundAssumption
  <2> QED BY <2>1, <2>2, <2>3, PhaseAfter
<1>2. dlq' = {j \in Jobs : Phase(j)' = "dead"}
  BY <1>1 DEF TypeOK
<1>3. ASSUME NEW j \in Jobs
      PROVE  \/ /\ Phase(j) = "waiting" /\ Phase(j)' = "held"
                /\ job[j].attempt < MaxAttempts /\ job'[j].attempt = job[j].attempt + 1
             \/ /\ Phase(j) = "held" /\ Phase(j)' = "done"
                /\ job'[j].attempt = job[j].attempt
             \/ /\ Phase(j) = "held" /\ Phase(j)' = "waiting"
                /\ job[j].attempt < MaxAttempts /\ job'[j].attempt = job[j].attempt
             \/ /\ Phase(j) = "held" /\ Phase(j)' = "dead"
                /\ job[j].attempt = MaxAttempts /\ job'[j].attempt = job[j].attempt
             \/ Phase(j)' = Phase(j) /\ job'[j].attempt = job[j].attempt
  <2>1. RowStep(j)
    BY NextCalm DEF CalmStep
  <2>2. job'[j].status = job[j].status => Phase(j)' = Phase(j)
    BY DEF Phase
  <2> QED BY <2>1, <2>2, PhaseOf, PhaseAfter DEF RowStep
<1> DEFINE phase == [j \in Jobs |-> Phase(j)]
           tries == [j \in Jobs |-> job[j].attempt]
<1>4. /\ phase' = [j \in Jobs |-> Phase(j)']
      /\ tries' = [j \in Jobs |-> job'[j].attempt]
  OBVIOUS
<1>5. ASSUME NEW j \in Jobs
      PROVE  /\ phase[j] = Phase(j) /\ phase'[j] = Phase(j)'
             /\ tries[j] = job[j].attempt /\ tries'[j] = job'[j].attempt
  BY <1>4
<1>6. /\ phase' \in [Jobs -> {"waiting", "held", "done", "dead"}]
      /\ tries' \in [Jobs -> 0..MaxAttempts]
      /\ dlq' = {j \in Jobs : phase'[j] = "dead"}
  BY <1>1, <1>2, <1>4
<1>7. ASSUME NEW j \in Jobs
      PROVE  \/ Contract!HandOut(j) \/ Contract!Succeed(j) \/ Contract!GiveBack(j)
             \/ Contract!GiveUp(j) \/ Contract!Idle(j)
  BY <1>3, <1>5 DEF Contract!HandOut, Contract!Succeed, Contract!GiveBack, Contract!GiveUp,
     Contract!Idle
<1> QED BY <1>6, <1>7 DEF Contract!Next, Contract!Phases

\* In a calm environment the system implements the abstract contract: every job has
\* one holder at a time, no more than MaxAttempts hand-outs and one final outcome,
\* and the dead letter list is the set of the dead.
THEOREM KeepsContract == ASSUME Calm PROVE Spec => ContractHolds
<1>1. Init => Contract!Init
  BY InitPhases
<1>2. /\ ExclusionInv /\ ContractInv /\ ContractInv' /\ TypeOK' /\ [Next]_vars
      => [Contract!Next]_(Contract!vars)
  BY NextPhases
<1>3. Spec => []ExclusionInv
  BY ExclusionInvariant DEF Calm
<1> QED BY <1>1, <1>2, <1>3, DecisionsAreCurrent, TypeCorrect, PTL
        DEF Spec, ContractHolds, Contract!Spec
=============================================================================
