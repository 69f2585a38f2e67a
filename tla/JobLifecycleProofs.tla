------------------------- MODULE JobLifecycleProofs -------------------------
(* Theorems about JobLifecycle, for every value of its constants. *)
EXTENDS JobLifecycle, TLAPS

Exec == ActiveExec \cup {NoExec, Over}

-----------------------------------------------------------------------------
(* What the operators the actions share do to well-typed tables *)

LEMMA ZeroInRange == 0 \in 0..MaxClaims
  BY BoundAssumption

\* A live execution has a full record, one that is not live one of the two constants.
LEMMA LiveExec ==
  ASSUME TypeOK, NEW j \in Jobs, NEW n \in Attempts
  PROVE  /\ exec[j][n] \in Exec
         /\ IsLive(j, n) <=> exec[j][n] \in ActiveExec
         /\ ~IsLive(j, n) <=> exec[j][n] \in {NoExec, Over}
<1>1. NoExec.pc \notin Live /\ Over.pc \notin Live
  BY DEF NoExec, Over, ExecAt, Live
<1>2. exec[j][n] \in Exec
  BY DEF TypeOK, Exec
<1>3. \A e \in ActiveExec : e.pc \in Live
  BY DEF ActiveExec
<1> QED BY <1>1, <1>2, <1>3 DEF IsLive, Exec

\* SetExec replaces one execution and leaves the others.
LEMMA SetExecLemma ==
  ASSUME TypeOK, NEW j \in Jobs, NEW n \in Attempts, NEW e \in Exec, SetExec(j, n, e)
  PROVE  /\ exec' \in [Jobs -> [Attempts -> Exec]]
         /\ exec'[j][n] = e
         /\ \A m \in Attempts \ {n} : exec'[j][m] = exec[j][m]
         /\ \A i \in Jobs \ {j} : exec'[i] = exec[i]
<1>1. exec \in [Jobs -> [Attempts -> Exec]]
  BY DEF TypeOK, Exec
<1>2. [exec[j] EXCEPT ![n] = e] \in [Attempts -> Exec]
  BY <1>1
<1>3. exec' = [exec EXCEPT ![j] = [exec[j] EXCEPT ![n] = e]]
  BY DEF SetExec
<1> QED BY <1>1, <1>2, <1>3

\* UpdateRow replaces status and owner of one row and leaves everything else.
LEMMA UpdateRowLemma ==
  ASSUME TypeOK, NEW j \in Jobs, NEW status \in JobStatus,
         NEW w \in Workers \cup {None}, UpdateRow(j, status, w)
  PROVE  /\ job' \in [Jobs -> Row]
         /\ job'[j].status = status /\ job'[j].worker = w
         /\ job'[j].attempt = job[j].attempt /\ job'[j].expired = job[j].expired
         /\ \A i \in Jobs \ {j} : job'[i] = job[i]
<1>1. job \in [Jobs -> Row] /\ job[j] \in Row
  BY DEF TypeOK
<1>2. [job[j] EXCEPT !.status = status, !.worker = w] \in Row
  BY <1>1 DEF Row
<1> QED BY <1>1, <1>2 DEF UpdateRow, Row

\* A claim raises the attempt of every job of the batch by one, makes the worker
\* its owner and starts an execution under the new attempt number.
LEMMA ClaimLemma ==
  ASSUME TypeOK, NEW w \in Workers, NEW batch \in SUBSET Jobs, ClaimJobs(w, batch)
  PROVE  /\ job' \in [Jobs -> Row] /\ exec' \in [Jobs -> [Attempts -> Exec]]
         /\ \A j \in batch :
              /\ job[j].attempt + 1 \in Attempts
              /\ job'[j] = [status |-> "CLAIMED", worker |-> w,
                            attempt |-> job[j].attempt + 1, expired |-> FALSE]
              /\ exec'[j][job[j].attempt + 1] = ExecAt("claimed", w)
              /\ \A n \in Attempts \ {job[j].attempt + 1} : exec'[j][n] = exec[j][n]
         /\ \A j \in Jobs \ batch : job'[j] = job[j] /\ exec'[j] = exec[j]
<1>1. job \in [Jobs -> Row] /\ exec \in [Jobs -> [Attempts -> Exec]]
  BY DEF TypeOK, Exec
<1>2. ASSUME NEW j \in batch
      PROVE  /\ job[j].attempt + 1 \in Attempts
             /\ [status |-> "CLAIMED", worker |-> w, attempt |-> job[j].attempt + 1,
                 expired |-> FALSE] \in Row
  <2>1. job[j].attempt \in 0..MaxClaims /\ job[j].attempt < MaxClaims
    BY <1>1 DEF ClaimJobs, Row
  <2>2. job[j].attempt + 1 \in Attempts /\ job[j].attempt + 1 \in 0..MaxClaims
    BY <2>1, BoundAssumption DEF Attempts
  <2> QED BY <2>2 DEF Row, JobStatus
<1>3. ExecAt("claimed", w) \in Exec
  BY ZeroInRange DEF ExecAt, Exec, ActiveExec, Live
<1> DEFINE f(j) == [exec[j] EXCEPT ![job[j].attempt + 1] = ExecAt("claimed", w)]
<1>4. ASSUME NEW j \in batch
      PROVE  /\ f(j) \in [Attempts -> Exec]
             /\ f(j)[job[j].attempt + 1] = ExecAt("claimed", w)
             /\ \A n \in Attempts \ {job[j].attempt + 1} : f(j)[n] = exec[j][n]
  BY <1>1, <1>2, <1>3
<1>5. exec' = [j \in Jobs |-> IF j \in batch THEN f(j) ELSE exec[j]]
  BY DEF ClaimJobs
<1>6. exec' \in [Jobs -> [Attempts -> Exec]]
  <2> HIDE DEF f
  <2> QED BY <1>1, <1>4, <1>5
<1>7. \A j \in batch : exec'[j] = f(j)
  BY <1>5
<1>8. job' \in [Jobs -> Row]
  BY <1>1, <1>2 DEF ClaimJobs
<1>9. \A j \in Jobs \ batch : job'[j] = job[j] /\ exec'[j] = exec[j]
  BY <1>5 DEF ClaimJobs
<1>10. \A j \in batch :
         job'[j] = [status |-> "CLAIMED", worker |-> w,
                    attempt |-> job[j].attempt + 1, expired |-> FALSE]
  BY DEF ClaimJobs
<1> HIDE DEF f
<1> QED BY <1>2, <1>4, <1>6, <1>7, <1>8, <1>9, <1>10

-----------------------------------------------------------------------------
(* Type correctness *)

LEMMA InitType == Init => TypeOK
<1> SUFFICES ASSUME Init PROVE TypeOK
  OBVIOUS
<1>1. job \in [Jobs -> Row]
  <2>1. [status : {"QUEUED", "SCHEDULED"}, worker : {None}, attempt : {0},
         expired : {FALSE}] \subseteq Row
    BY ZeroInRange DEF Row, JobStatus
  <2> QED BY <2>1 DEF Init
<1> QED BY <1>1 DEF TypeOK, Init

\* An execution step changes its own execution to a well-typed one.
LEMMA ExecuteTypes ==
  ASSUME TypeOK, NEW j \in Jobs, NEW n \in Attempts, Execute(j, n)
  PROVE  /\ exec' \in [Jobs -> [Attempts -> Exec]]
         /\ job' \in [Jobs -> Row]
         /\ exec[j][n] \in ActiveExec
<1> DEFINE e == exec[j][n]
<1>0. Over \in Exec /\ (e.pc \in Live => e \in ActiveExec) /\ job \in [Jobs -> Row]
  BY LiveExec DEF Exec, IsLive, TypeOK
<1>1. CASE RateLimited(j, n)
  BY <1>0, <1>1, SetExecLemma, UpdateRowLemma DEF RateLimited, Live, JobStatus
<1>2. CASE NoSlot(j, n)
  BY <1>0, <1>2, SetExecLemma DEF NoSlot, Live
<1>3. CASE StartExecution(j, n)
  <2>1. e \in ActiveExec
    BY <1>0, <1>3 DEF StartExecution, Live
  <2>2. [e EXCEPT !.pc = "starting"] \in Exec
    BY <2>1 DEF ActiveExec, Exec, Live
  <2> QED BY <1>0, <1>3, <2>1, <2>2, SetExecLemma DEF StartExecution
<1>4. CASE MarkRunning(j, n)
  <2>1. e \in ActiveExec
    BY <1>0, <1>4 DEF MarkRunning, Live
  <2>2. [e EXCEPT !.pc = "running"] \in Exec /\ e.worker \in Workers
    BY <2>1 DEF ActiveExec, Exec, Live
  <2> QED BY <1>0, <1>4, <2>1, <2>2, SetExecLemma, UpdateRowLemma DEF MarkRunning, JobStatus
<1>5. CASE \E ok \in BOOLEAN : HandlerReturns(j, n, ok)
  <2> PICK ok \in BOOLEAN : HandlerReturns(j, n, ok)
    BY <1>5
  <2>1. e \in ActiveExec
    BY <1>0 DEF HandlerReturns, Live
  <2>2. [e EXCEPT !.pc = "returned", !.ok = ok] \in Exec
    BY <2>1 DEF ActiveExec, Exec, Live
  <2> QED BY <1>0, <2>1, <2>2, SetExecLemma DEF HandlerReturns
<1>6. CASE ReadForCompletion(j, n)
  <2>1. e \in ActiveExec /\ job[j].attempt \in 0..MaxClaims
    BY <1>0, <1>6 DEF ReadForCompletion, Live, Row
  <2>2. [e EXCEPT !.pc = "completing", !.seen = job[j].attempt] \in Exec
    BY <2>1 DEF ActiveExec, Exec, Live
  <2> QED BY <1>0, <1>6, <2>1, <2>2, SetExecLemma DEF ReadForCompletion
<1>7. CASE CommitSuccess(j, n) \/ CommitRetry(j, n) \/ CommitDeadLetter(j, n)
  <2>1. EndExecution(j, n)
    BY <1>7 DEF CommitSuccess, CommitRetry, CommitDeadLetter
  <2>2. e \in ActiveExec /\ e.worker \in Workers
    BY <1>0, <2>1 DEF EndExecution, Live, ActiveExec
  <2>3. exec' \in [Jobs -> [Attempts -> Exec]]
    BY <1>0, <2>1, SetExecLemma DEF EndExecution
  <2>4. job' \in [Jobs -> Row]
    BY <1>0, <1>7, <2>2, UpdateRowLemma
    DEF CommitSuccess, CommitRetry, CommitDeadLetter, JobStatus
  <2> QED BY <2>2, <2>3, <2>4
<1> QED BY <1>1, <1>2, <1>3, <1>4, <1>5, <1>6, <1>7 DEF Execute

LEMMA ExecuteType ==
  ASSUME TypeOK, NEW j \in Jobs, NEW n \in Attempts, Execute(j, n)
  PROVE  TypeOK'
<1>1. /\ exec' \in [Jobs -> [Attempts -> Exec]] /\ job' \in [Jobs -> Row]
      /\ exec[j][n] \in ActiveExec
  BY ExecuteTypes
<1>2. exec[j][n].worker \in Workers /\ ExecutionRow(j, n) \in HistoryRow
  BY <1>1 DEF ActiveExec, ExecutionRow, HistoryRow
<1>3. dlq' \subseteq Jobs /\ doomed' \subseteq Workers
  BY <1>2 DEF TypeOK, Execute, RateLimited, NoSlot, StartExecution, MarkRunning,
     HandlerReturns, ReadForCompletion, CommitSuccess, CommitRetry, CommitDeadLetter,
     InsertDeadLetter
<1>4. history' \in [Jobs -> SUBSET HistoryRow]
  <2>1. history \in [Jobs -> SUBSET HistoryRow]
    BY DEF TypeOK
  <2>2. history' = history \/ history' = [history EXCEPT ![j] = @ \cup {ExecutionRow(j, n)}]
    BY DEF Execute, RateLimited, NoSlot, StartExecution, MarkRunning,
       HandlerReturns, ReadForCompletion, CommitSuccess, CommitRetry, CommitDeadLetter
  <2> QED BY <1>2, <2>1, <2>2
<1>5. UNCHANGED <<up, scan, rec, req>>
  BY DEF Execute, RateLimited, NoSlot, StartExecution, MarkRunning, HandlerReturns,
     ReadForCompletion, CommitSuccess, CommitRetry, CommitDeadLetter, EndExecution
<1> QED BY <1>1, <1>3, <1>4, <1>5 DEF TypeOK, Exec

LEMMA RecoverType ==
  ASSUME TypeOK, NEW w \in Workers, Recover(w)
  PROVE  TypeOK'
<1>1. CASE ScanExpired(w)
  BY <1>1 DEF TypeOK, ScanExpired, Expired
<1>2. ASSUME NEW j \in Jobs, RecoverRead(w, j) PROVE TypeOK'
  <2>1. [job |-> j, seen |-> job[j].attempt] \in [job : Jobs, seen : 0..MaxClaims]
    BY DEF TypeOK, Row
  <2>2. rec' \in [Workers -> [job : Jobs, seen : 0..MaxClaims] \cup {NoRow}]
    BY <1>2, <2>1 DEF TypeOK, RecoverRead
  <2>3. scan' \in [Workers -> SUBSET Jobs]
    BY <1>2 DEF TypeOK, RecoverRead
  <2> QED BY <1>2, <2>2, <2>3 DEF TypeOK, RecoverRead
<1>3. ASSUME rec[w] # NoRow PROVE rec[w].job \in Jobs
  BY <1>3 DEF TypeOK
<1>4. CASE RecoverRetry(w)
  <2>1. job' \in [Jobs -> Row]
    BY <1>3, <1>4, UpdateRowLemma DEF RecoverRetry, JobStatus
  <2> QED BY <1>4, <2>1 DEF TypeOK, RecoverRetry
<1>5. CASE RecoverDeadLetter(w)
  <2>1. job' \in [Jobs -> Row]
    BY <1>3, <1>5, UpdateRowLemma DEF RecoverDeadLetter, JobStatus, TypeOK
  <2>2. dlq' \subseteq Jobs /\ doomed' \subseteq Workers
    BY <1>3, <1>5 DEF RecoverDeadLetter, InsertDeadLetter, TypeOK
  <2> QED BY <1>5, <2>1, <2>2 DEF TypeOK, RecoverDeadLetter
<1> QED BY <1>1, <1>2, <1>4, <1>5 DEF Recover

LEMMA CrashType ==
  ASSUME TypeOK, NEW w \in Workers, Crash(w)
  PROVE  TypeOK'
<1>1. exec' \in [Jobs -> [Attempts -> Exec]]
  BY DEF TypeOK, Crash, Exec
<1> QED BY <1>1 DEF TypeOK, Crash, Exec

LEMMA ApiType ==
  ASSUME TypeOK, Api
  PROVE  TypeOK'
<1>1. CASE RetryFailures
  <2>1. job' \in [Jobs -> Row]
    <3>1. ASSUME NEW j \in Jobs
          PROVE  [job[j] EXCEPT !.status = "QUEUED", !.worker = None] \in Row
      <4>1. job[j] \in Row /\ "QUEUED" \in JobStatus
        BY DEF TypeOK, JobStatus
      <4> QED BY <4>1 DEF Row
    <3> QED BY <1>1, <3>1 DEF TypeOK, RetryFailures
  <2> QED BY <1>1, <2>1 DEF TypeOK, RetryFailures
<1>2. ASSUME NEW j \in Jobs, CancelJob(j) PROVE TypeOK'
  <2>1. job[j].worker \in Workers \cup {None}
    BY DEF TypeOK, Row
  <2>2. job' \in [Jobs -> Row]
    BY <1>2, <2>1, UpdateRowLemma DEF CancelJob, JobStatus
  <2> QED BY <1>2, <2>2 DEF TypeOK, CancelJob
<1>3. ASSUME NEW r \in Requests, NEW j \in Jobs, RetryCheck(r, j) PROVE TypeOK'
  <2>1. req' \in [Requests -> [job : Jobs, pc : {"deleting", "updating", "aborted"}] \cup {NoReq}]
    BY <1>3 DEF TypeOK, RetryCheck
  <2> QED BY <1>3, <2>1 DEF TypeOK, RetryCheck
<1>4. ASSUME NEW r \in Requests, RetryDelete(r) \/ RetryUpdate(r) \/ RetryAborted(r)
      PROVE  TypeOK'
  <2>1. req[r].pc # "idle" => req[r] \in [job : Jobs, pc : {"deleting", "updating", "aborted"}]
    BY DEF TypeOK, NoReq
  <2>2. req[r] \in [job : Jobs, pc : {"deleting", "updating", "aborted"}]
    BY <1>4, <2>1 DEF RetryDelete, RetryUpdate, RetryAborted
  <2>3. CASE RetryDelete(r)
    BY <2>2, <2>3 DEF TypeOK, RetryDelete
  <2>4. CASE RetryUpdate(r)
    <3>1. job' \in [Jobs -> Row]
      BY <2>2, <2>4, UpdateRowLemma DEF RetryUpdate, JobStatus
    <3> QED BY <2>4, <3>1 DEF TypeOK, RetryUpdate
  <2>5. CASE RetryAborted(r)
    BY <2>2, <2>5 DEF TypeOK, RetryAborted
  <2> QED BY <1>4, <2>3, <2>4, <2>5
<1> QED BY <1>1, <1>2, <1>3, <1>4 DEF Api

LEMMA NextType == TypeOK /\ [Next]_vars => TypeOK'
<1> SUFFICES ASSUME TypeOK, [Next]_vars PROVE TypeOK'
  OBVIOUS
<1>1. ASSUME NEW w \in Workers, NEW batch \in SUBSET Jobs, ClaimJobs(w, batch)
      PROVE  TypeOK'
  BY <1>1, ClaimLemma DEF TypeOK, ClaimJobs, Exec
<1>2. ASSUME NEW j \in Jobs, NEW n \in Attempts, Execute(j, n) PROVE TypeOK'
  BY <1>2, ExecuteType
<1>3. ASSUME NEW j \in Jobs, NEW n \in Attempts, ExtendLease(j, n) PROVE TypeOK'
  <2>1. job' \in [Jobs -> Row]
    BY <1>3 DEF TypeOK, ExtendLease, Row
  <2> QED BY <1>3, <2>1 DEF TypeOK, ExtendLease
<1>4. ASSUME NEW j \in Jobs, LeaseExpires(j) PROVE TypeOK'
  <2>1. job' \in [Jobs -> Row]
    BY <1>4 DEF TypeOK, LeaseExpires, Row
  <2> QED BY <1>4, <2>1 DEF TypeOK, LeaseExpires
<1>5. ASSUME NEW w \in Workers, Recover(w) \/ Crash(w) PROVE TypeOK'
  BY <1>5, RecoverType, CrashType
<1>6. ASSUME NEW source \in {"SCHEDULED", "RETRY_SCHEDULED"}, NEW due \in SUBSET Jobs,
             Promote(source, due)
      PROVE  TypeOK'
  <2>1. job' \in [Jobs -> Row]
    <3>1. ASSUME NEW j \in Jobs PROVE [job[j] EXCEPT !.status = "QUEUED"] \in Row
      <4>1. job[j] \in Row /\ "QUEUED" \in JobStatus
        BY DEF TypeOK, JobStatus
      <4> QED BY <4>1 DEF Row
    <3>2. job \in [Jobs -> Row]
      BY DEF TypeOK
    <3>3. job' = [j \in Jobs |-> IF j \in due THEN [job[j] EXCEPT !.status = "QUEUED"]
                                ELSE job[j]]
      BY <1>6 DEF Promote
    <3> QED BY <3>1, <3>2, <3>3
  <2> QED BY <1>6, <2>1 DEF TypeOK, Promote
<1>7. CASE Api
  BY <1>7, ApiType
<1>8. CASE UNCHANGED vars
  BY <1>8 DEF TypeOK, vars
<1> QED BY <1>1, <1>2, <1>3, <1>4, <1>5, <1>6, <1>7, <1>8 DEF Next

\* In every environment the tables and the workers' memory hold records of the
\* types the code gives them; live executions and open reads name real jobs.
THEOREM TypeCorrect == Spec => []TypeOK
  BY InitType, NextType, PTL DEF Spec

-----------------------------------------------------------------------------
(* Mutual exclusion of executions, in an orderly environment *)

LEMMA InitExclusion == Init => ExclusionInv
<1> SUFFICES ASSUME Init PROVE ExclusionInv
  OBVIOUS
<1>1. \A j \in Jobs, n \in Attempts : ~IsLive(j, n)
  BY DEF Init, IsLive, NoExec, ExecAt, Live
<1>2. ExecutionOwnsRow
  BY <1>1 DEF ExecutionOwnsRow
<1>3. RecoveryOwnsRow
  BY DEF RecoveryOwnsRow, Init
<1>4. OutcomeSettlesRow /\ AtMostOneSuccess /\ NoUnhandledRejection
  BY DEF Init, OutcomeSettlesRow, AtMostOneSuccess, NoUnhandledRejection
<1>5. \A r \in Requests : req[r] = NoReq
  BY DEF Init
<1> QED BY InitType, <1>2, <1>3, <1>4, <1>5 DEF ExclusionInv

\* Under the invariant an execution never loses its row, so each step of it keeps
\* row and execution together or ends the execution.
LEMMA ExecuteEffect ==
  ASSUME ExclusionInv, NEW j \in Jobs, NEW n \in Attempts, Execute(j, n)
  PROVE  /\ IsLive(j, n) /\ n = job[j].attempt /\ j \notin dlq
         /\ \A i \in Jobs \ {j} : job'[i] = job[i] /\ exec'[i] = exec[i]
                                  /\ history'[i] = history[i]
         /\ \A m \in Attempts \ {n} : exec'[j][m] = exec[j][m]
         /\ job'[j].attempt = job[j].attempt /\ job'[j].expired = job[j].expired
         /\ IsLive(j, n)' =>
              /\ exec'[j][n].worker = exec[j][n].worker
              /\ job'[j].worker = job[j].worker
              /\ job'[j].status \in {job[j].status, "RUNNING"}
              /\ history' = history /\ dlq' = dlq
         /\ \/ history'[j] = history[j]
            \/ /\ history'[j] = history[j] \cup {ExecutionRow(j, n)}
               /\ ExecutionRow(j, n).ok => job'[j].status = "COMPLETED" /\ ~IsLive(j, n)'
         /\ \/ dlq' = dlq
            \/ dlq' = dlq \cup {j} /\ job'[j].status = "DEAD_LETTER" /\ ~IsLive(j, n)'
         /\ UNCHANGED <<doomed, scan, rec, req>>
<1> DEFINE e == exec[j][n]
<1>0. TypeOK /\ Over \in Exec /\ ~(Over.pc \in Live)
  BY DEF ExclusionInv, Exec, Over, ExecAt, Live
<1>1. /\ IsLive(j, n) /\ n = job[j].attempt /\ job[j].worker = e.worker
      /\ e \in ActiveExec /\ j \notin dlq
  <2>1. e \in ActiveExec /\ IsLive(j, n)
    BY <1>0, ExecuteTypes, LiveExec
  <2> QED BY <2>1 DEF ExclusionInv, ExecutionOwnsRow, OutcomeSettlesRow
<1>2. e.worker \in Workers /\ history \in [Jobs -> SUBSET HistoryRow]
  BY <1>0, <1>1 DEF ActiveExec, TypeOK
<1>3. CASE RateLimited(j, n)
  BY <1>0, <1>1, <1>3, SetExecLemma, UpdateRowLemma DEF RateLimited, IsLive, JobStatus
<1>4. CASE NoSlot(j, n)
  BY <1>0, <1>1, <1>4, SetExecLemma DEF NoSlot, IsLive
<1>5. CASE StartExecution(j, n)
  <2> DEFINE f == [e EXCEPT !.pc = "starting"]
  <2>1. f \in Exec
    BY <1>0, <1>1 DEF ActiveExec, Exec, Live, TypeOK, Row
  <2>2. f.worker = e.worker
    BY <1>1 DEF ActiveExec
  <2>3. SetExec(j, n, f) /\ UNCHANGED <<job, dlq, history, doomed, scan, rec, req>>
    BY <1>5 DEF StartExecution
  <2> HIDE DEF f
  <2> QED BY <1>0, <1>1, <2>1, <2>2, <2>3, SetExecLemma
<1>6. CASE MarkRunning(j, n)
  <2> DEFINE f == [e EXCEPT !.pc = "running"]
  <2>1. f \in Exec
    BY <1>0, <1>1 DEF ActiveExec, Exec, Live, TypeOK, Row
  <2>2. f.worker = e.worker
    BY <1>1 DEF ActiveExec
  <2>3. /\ UpdateRow(j, "RUNNING", e.worker) /\ SetExec(j, n, f)
        /\ UNCHANGED <<dlq, history, doomed, scan, rec, req>>
    BY <1>1, <1>6 DEF MarkRunning
  <2> HIDE DEF f
  <2> QED BY <1>0, <1>1, <1>2, <2>1, <2>2, <2>3, SetExecLemma, UpdateRowLemma DEF JobStatus
<1>7. CASE \E ok \in BOOLEAN : HandlerReturns(j, n, ok)
  <2> PICK ok \in BOOLEAN : HandlerReturns(j, n, ok)
    BY <1>7
  <2> DEFINE f == [e EXCEPT !.pc = "returned", !.ok = ok]
  <2>1. f \in Exec
    BY <1>0, <1>1 DEF ActiveExec, Exec, Live, TypeOK, Row
  <2>2. f.worker = e.worker
    BY <1>1 DEF ActiveExec
  <2>3. SetExec(j, n, f) /\ UNCHANGED <<job, dlq, history, doomed, scan, rec, req>>
    BY DEF HandlerReturns
  <2> HIDE DEF f
  <2> QED BY <1>0, <1>1, <2>1, <2>2, <2>3, SetExecLemma
<1>8. CASE ReadForCompletion(j, n)
  <2> DEFINE f == [e EXCEPT !.pc = "completing", !.seen = job[j].attempt]
  <2>1. f \in Exec
    BY <1>0, <1>1 DEF ActiveExec, Exec, Live, TypeOK, Row
  <2>2. f.worker = e.worker
    BY <1>1 DEF ActiveExec
  <2>3. SetExec(j, n, f) /\ UNCHANGED <<job, dlq, history, doomed, scan, rec, req>>
    BY <1>8 DEF ReadForCompletion
  <2> HIDE DEF f
  <2> QED BY <1>0, <1>1, <2>1, <2>2, <2>3, SetExecLemma
<1>9. CASE CommitSuccess(j, n)
  BY <1>0, <1>1, <1>2, <1>9, SetExecLemma, UpdateRowLemma
  DEF CommitSuccess, EndExecution, IsLive, JobStatus
<1>10. CASE CommitRetry(j, n)
  <2>1. ~ExecutionRow(j, n).ok
    BY <1>10 DEF CommitRetry, ExecutionRow
  <2> QED BY <1>0, <1>1, <1>2, <1>10, <2>1, SetExecLemma, UpdateRowLemma
    DEF CommitRetry, EndExecution, IsLive, JobStatus
<1>11. CASE CommitDeadLetter(j, n)
  <2>1. ~ExecutionRow(j, n).ok
    BY <1>11 DEF CommitDeadLetter, ExecutionRow
  <2> QED BY <1>0, <1>1, <1>2, <1>11, <2>1, SetExecLemma, UpdateRowLemma
    DEF CommitDeadLetter, InsertDeadLetter, EndExecution, IsLive, JobStatus
<1> QED BY <1>3, <1>4, <1>5, <1>6, <1>7, <1>8, <1>9, <1>10, <1>11 DEF Execute

LEMMA ExecuteExclusion ==
  ASSUME ExclusionInv, NEW j \in Jobs, NEW n \in Attempts, Execute(j, n)
  PROVE  ExclusionInv'
<1>1. TypeOK /\ TypeOK'
  BY ExecuteType DEF ExclusionInv
<1>2. /\ IsLive(j, n) /\ n = job[j].attempt /\ j \notin dlq
      /\ \A i \in Jobs \ {j} : job'[i] = job[i] /\ exec'[i] = exec[i]
                               /\ history'[i] = history[i]
      /\ \A m \in Attempts \ {n} : exec'[j][m] = exec[j][m]
      /\ UNCHANGED <<doomed, scan, rec, req>>
  BY ExecuteEffect
<1>3. \A m \in Attempts : m # n => ~IsLive(j, m) /\ ~IsLive(j, m)'
  BY <1>2 DEF ExclusionInv, ExecutionOwnsRow, IsLive
<1>4. \A i \in Jobs \ {j}, m \in Attempts : IsLive(i, m)' <=> IsLive(i, m)
  BY <1>2 DEF IsLive
<1>5. \A w \in Workers : j \notin scan[w] /\ rec[w].job # j
  <2>1. ASSUME NEW w \in Workers, rec[w].job = j PROVE rec[w] # NoRow
    BY <2>1, NoneAssumption DEF NoRow
  <2> QED BY <1>2, <2>1 DEF ExclusionInv, RecoveryOwnsRow
<1>6. \A a \in history[j] : ~a.ok
  BY <1>2 DEF ExclusionInv, OutcomeSettlesRow
<1>7. ExecutionOwnsRow'
  <2> SUFFICES ASSUME NEW i \in Jobs, NEW m \in Attempts, IsLive(i, m)'
      PROVE  /\ m = job'[i].attempt
             /\ job'[i].worker = exec'[i][m].worker
             /\ job'[i].status \in Held \cup {"CANCELLED"}
             /\ ~job'[i].expired
    BY DEF ExecutionOwnsRow
  <2>1. CASE i # j
    BY <1>2, <1>4, <2>1 DEF ExclusionInv, ExecutionOwnsRow
  <2>2. CASE i = j
    <3>1. m = n
      BY <1>3, <2>2
    <3>2. /\ exec'[j][n].worker = exec[j][n].worker
          /\ job'[j].worker = job[j].worker
          /\ job'[j].status \in {job[j].status, "RUNNING"}
          /\ job'[j].attempt = job[j].attempt /\ job'[j].expired = job[j].expired
      BY <2>2, <3>1, ExecuteEffect
    <3> QED BY <1>2, <2>2, <3>1, <3>2 DEF ExclusionInv, ExecutionOwnsRow, Held
  <2> QED BY <2>1, <2>2
<1>8. RecoveryOwnsRow'
  <2>1. \A w \in Workers : rec[w] # NoRow => rec[w].job \in Jobs
    BY <1>1 DEF TypeOK
  <2>2. \A w \in Workers : scan[w] \subseteq Jobs
    BY <1>1 DEF TypeOK
  <2> QED BY <1>2, <1>4, <1>5, <2>1, <2>2 DEF ExclusionInv, RecoveryOwnsRow
<1>9. \/ history'[j] = history[j]
      \/ /\ history'[j] = history[j] \cup {ExecutionRow(j, n)}
         /\ ExecutionRow(j, n).ok => job'[j].status = "COMPLETED" /\ ~IsLive(j, n)'
  BY ExecuteEffect
<1>10. \/ dlq' = dlq
       \/ dlq' = dlq \cup {j} /\ job'[j].status = "DEAD_LETTER" /\ ~IsLive(j, n)'
  BY ExecuteEffect
<1>11. OutcomeSettlesRow'
  <2> SUFFICES ASSUME NEW i \in Jobs, i \in dlq' \/ \E a \in history'[i] : a.ok
      PROVE  /\ job'[i].status \in {"COMPLETED", "DEAD_LETTER", "CANCELLED"}
             /\ \A m \in Attempts : ~IsLive(i, m)'
             /\ \A w \in Workers : rec'[w].job # i
    BY DEF OutcomeSettlesRow
  <2>1. CASE i # j
    <3>1. i \in dlq \/ \E a \in history[i] : a.ok
      BY <1>2, <1>10, <2>1
    <3> QED BY <1>2, <1>4, <2>1, <3>1 DEF ExclusionInv, OutcomeSettlesRow
  <2>2. CASE i = j
    <3>1. job'[j].status \in {"COMPLETED", "DEAD_LETTER"} /\ ~IsLive(j, n)'
      BY <1>2, <1>6, <1>9, <1>10, <2>2
    <3> QED BY <1>2, <1>3, <1>5, <2>2, <3>1
  <2> QED BY <2>1, <2>2
<1>12. AtMostOneSuccess'
  BY <1>2, <1>6, <1>9 DEF ExclusionInv, AtMostOneSuccess
<1> QED
  BY <1>1, <1>2, <1>7, <1>8, <1>11, <1>12 DEF ExclusionInv, NoUnhandledRejection

LEMMA ClaimExclusion ==
  ASSUME ExclusionInv, NEW w \in Workers, NEW batch \in SUBSET Jobs, ClaimJobs(w, batch)
  PROVE  ExclusionInv'
<1>1. TypeOK /\ TypeOK'
  BY NextType DEF ExclusionInv, Next
<1>2. \A j \in batch : job[j].status \in {"QUEUED", "RETRY_SCHEDULED"}
  BY DEF ClaimJobs, Claimable
<1>3. \A j \in batch, n \in Attempts : ~IsLive(j, n)
  BY <1>2 DEF ExclusionInv, ExecutionOwnsRow, Held
<1>4. \A j \in batch : j \notin dlq /\ \A a \in history[j] : ~a.ok
  BY <1>2 DEF ExclusionInv, OutcomeSettlesRow
<1>5. \A j \in batch, v \in Workers : rec[v] # NoRow => rec[v].job # j
  BY <1>2 DEF ExclusionInv, RecoveryOwnsRow, Held
<1>6. /\ UNCHANGED <<dlq, history, doomed, rec, req>>
      /\ \A v \in Workers : scan'[v] = scan[v] \ batch
  BY DEF ClaimJobs
<1>7. \A j \in Jobs \ batch, n \in Attempts : IsLive(j, n)' <=> IsLive(j, n)
  BY <1>1, ClaimLemma DEF IsLive
<1>8. \A j \in batch, n \in Attempts : IsLive(j, n)' => n = job[j].attempt + 1
  <2> SUFFICES ASSUME NEW j \in batch, NEW n \in Attempts, n # job[j].attempt + 1
      PROVE  ~IsLive(j, n)'
    OBVIOUS
  <2>1. exec'[j][n] = exec[j][n]
    BY <1>1, ClaimLemma
  <2> QED BY <1>3, <2>1 DEF IsLive
<1>9. ExecutionOwnsRow'
  <2> SUFFICES ASSUME NEW i \in Jobs, NEW m \in Attempts, IsLive(i, m)'
      PROVE  /\ m = job'[i].attempt
             /\ job'[i].worker = exec'[i][m].worker
             /\ job'[i].status \in Held \cup {"CANCELLED"}
             /\ ~job'[i].expired
    BY DEF ExecutionOwnsRow
  <2>1. CASE i \in batch
    <3>1. job'[i] = [status |-> "CLAIMED", worker |-> w,
                     attempt |-> job[i].attempt + 1, expired |-> FALSE]
      BY <1>1, <2>1, ClaimLemma
    <3>2. m = job[i].attempt + 1
      BY <1>8, <2>1
    <3>3. exec'[i][m] = ExecAt("claimed", w)
      BY <1>1, <2>1, <3>2, ClaimLemma
    <3>4. exec'[i][m].worker = w
      BY <3>3 DEF ExecAt
    <3> QED BY <3>1, <3>2, <3>4 DEF Held
  <2>2. CASE i \notin batch
    <3>1. job'[i] = job[i] /\ exec'[i] = exec[i]
      BY <1>1, <2>2, ClaimLemma
    <3> QED BY <1>7, <2>2, <3>1 DEF ExclusionInv, ExecutionOwnsRow
  <2> QED BY <2>1, <2>2
<1>10. RecoveryOwnsRow'
  <2>1. \A v \in Workers : scan[v] \subseteq Jobs /\ (rec[v] # NoRow => rec[v].job \in Jobs)
    BY <1>1 DEF TypeOK
  <2>2. \A j \in Jobs \ batch : job'[j] = job[j]
    BY <1>1, ClaimLemma
  <2> QED BY <1>5, <1>6, <1>7, <2>1, <2>2 DEF ExclusionInv, RecoveryOwnsRow
<1>11. OutcomeSettlesRow'
  <2>1. \A j \in Jobs \ batch : job'[j] = job[j]
    BY <1>1, ClaimLemma
  <2> QED BY <1>4, <1>6, <1>7, <2>1 DEF ExclusionInv, OutcomeSettlesRow
<1>12. AtMostOneSuccess' /\ NoUnhandledRejection'
  BY <1>6 DEF ExclusionInv, AtMostOneSuccess, NoUnhandledRejection
<1> QED BY <1>1, <1>6, <1>9, <1>10, <1>11, <1>12 DEF ExclusionInv

LEMMA CrashExclusion ==
  ASSUME ExclusionInv, NEW w \in Workers, Crash(w)
  PROVE  ExclusionInv'
<1>1. TypeOK /\ TypeOK'
  BY CrashType DEF ExclusionInv
<1>2. UNCHANGED <<job, dlq, history, req>>
  BY DEF Crash
<1>3. \A j \in Jobs, n \in Attempts :
        IsLive(j, n)' => IsLive(j, n) /\ exec'[j][n] = exec[j][n]
  <2>1. Over.pc \notin Live
    BY DEF Over, ExecAt, Live
  <2> QED BY <1>1, <2>1 DEF Crash, IsLive
<1>4. \A v \in Workers : /\ scan'[v] \subseteq scan[v]
                         /\ rec'[v] \in {rec[v], NoRow}
  BY <1>1 DEF Crash, TypeOK
<1>5. \A v \in Workers : rec[v] # NoRow => rec[v].job \in Jobs
  BY <1>1 DEF TypeOK
<1>6. ExecutionOwnsRow'
  BY <1>2, <1>3 DEF ExclusionInv, ExecutionOwnsRow
<1>7. RecoveryOwnsRow'
  <2>1. \A v \in Workers : scan[v] \subseteq Jobs
    BY <1>1 DEF TypeOK
  <2> QED BY <1>2, <1>3, <1>4, <1>5, <2>1 DEF ExclusionInv, RecoveryOwnsRow
<1>8. OutcomeSettlesRow'
  <2>1. \A j \in Jobs : NoRow.job # j
    BY NoneAssumption DEF NoRow
  <2> QED BY <1>2, <1>3, <1>4, <2>1 DEF ExclusionInv, OutcomeSettlesRow
<1>9. AtMostOneSuccess' /\ NoUnhandledRejection'
  BY <1>2 DEF ExclusionInv, AtMostOneSuccess, NoUnhandledRejection, Crash
<1> QED BY <1>1, <1>2, <1>6, <1>7, <1>8, <1>9 DEF ExclusionInv

\* With one recoverer nobody rewrites the row it has read.
LEMMA RecoverExclusion ==
  ASSUME Orderly, ExclusionInv, NEW w \in Workers, Recover(w)
  PROVE  ExclusionInv'
<1>1. TypeOK /\ TypeOK'
  BY RecoverType DEF ExclusionInv
<1>2. UNCHANGED <<history, exec, req>>
  BY DEF Recover, ScanExpired, RecoverRead, RecoverRetry, RecoverDeadLetter
<1>3. \A j \in Jobs, n \in Attempts : IsLive(j, n)' <=> IsLive(j, n)
  BY <1>2 DEF IsLive
<1>4. /\ \A v \in Workers : rec[v] # NoRow => rec[v].job \in Jobs
      /\ \A v \in Workers : scan[v] \subseteq Jobs
  BY <1>1 DEF TypeOK
<1>5. AtMostOneSuccess'
  BY <1>2 DEF ExclusionInv, AtMostOneSuccess
<1>6. \A j \in Jobs : NoRow.job # j
  BY NoneAssumption DEF NoRow
<1>7. CASE ScanExpired(w)
  <2>1. UNCHANGED <<job, dlq, doomed, rec>> /\ w \in Recoverers
    BY <1>7 DEF ScanExpired
  <2>2. \A v \in Workers : scan'[v] = IF v = w THEN Expired ELSE scan[v]
    BY <1>1, <1>7 DEF ScanExpired, TypeOK
  <2>3. \A j \in Expired, n \in Attempts : ~IsLive(j, n)
    BY DEF ExclusionInv, ExecutionOwnsRow, Expired
  <2>4. ExecutionOwnsRow'
    BY <1>2, <1>3, <2>1 DEF ExclusionInv, ExecutionOwnsRow
  <2>5. RecoveryOwnsRow'
    <3>1. Expired \subseteq Jobs
      BY DEF Expired
    <3> QED BY <1>3, <1>4, <2>1, <2>2, <2>3, <3>1 DEF ExclusionInv, RecoveryOwnsRow
  <2>6. OutcomeSettlesRow'
    BY <1>2, <1>3, <2>1 DEF ExclusionInv, OutcomeSettlesRow
  <2> QED BY <1>1, <1>2, <1>5, <2>1, <2>4, <2>5, <2>6 DEF ExclusionInv, NoUnhandledRejection
<1>8. ASSUME NEW j \in Jobs, RecoverRead(w, j) PROVE ExclusionInv'
  <2>1. UNCHANGED <<job, dlq, doomed>> /\ j \in scan[w] /\ w \in Recoverers
    BY <1>8 DEF RecoverRead, ExclusionInv, RecoveryOwnsRow
  <2>2. \A v \in Workers : scan'[v] \subseteq scan[v]
    BY <1>1, <1>8 DEF RecoverRead, TypeOK
  <2>3. \A v \in Workers \ {w} : rec'[v] = rec[v]
    BY <1>1, <1>8 DEF RecoverRead, TypeOK
  <2>4. \/ rec'[w] = NoRow
        \/ rec'[w].job = j /\ job[j].status \in Held
    BY <1>1, <1>8 DEF RecoverRead, TypeOK
  <2>5. \A n \in Attempts : ~IsLive(j, n)
    BY <2>1 DEF ExclusionInv, RecoveryOwnsRow
  <2>6. ExecutionOwnsRow'
    BY <1>2, <1>3, <2>1 DEF ExclusionInv, ExecutionOwnsRow
  <2>7. RecoveryOwnsRow'
    BY <1>3, <1>4, <2>1, <2>2, <2>3, <2>4, <2>5 DEF ExclusionInv, RecoveryOwnsRow
  <2>8. OutcomeSettlesRow'
    BY <1>2, <1>3, <1>6, <2>1, <2>3, <2>4 DEF ExclusionInv, OutcomeSettlesRow, Held
  <2> QED BY <1>1, <1>2, <1>5, <2>1, <2>6, <2>7, <2>8 DEF ExclusionInv, NoUnhandledRejection
<1>9. CASE RecoverRetry(w) \/ RecoverDeadLetter(w)
  <2> DEFINE j == rec[w].job
  <2>1. /\ rec[w] # NoRow /\ j \in Jobs /\ w \in Recoverers /\ j \notin dlq
        /\ \A a \in history[j] : ~a.ok
        /\ \A n \in Attempts : ~IsLive(j, n)
    BY <1>4, <1>9
    DEF RecoverRetry, RecoverDeadLetter, ExclusionInv, RecoveryOwnsRow, OutcomeSettlesRow
  <2>2. /\ UNCHANGED <<doomed, scan>>
        /\ \/ UpdateRow(j, "RETRY_SCHEDULED", None) /\ dlq' = dlq
           \/ UpdateRow(j, "DEAD_LETTER", None) /\ dlq' = dlq \cup {j}
    BY <1>9, <2>1 DEF RecoverRetry, RecoverDeadLetter, InsertDeadLetter
  <2>3. /\ \A i \in Jobs \ {j} : job'[i] = job[i]
        /\ \/ dlq' = dlq
           \/ dlq' = dlq \cup {j} /\ job'[j].status = "DEAD_LETTER"
    BY <1>1, <2>1, <2>2, UpdateRowLemma DEF JobStatus
  <2>4. \A v \in Workers : rec'[v] = IF v = w THEN NoRow ELSE rec[v]
    BY <1>1, <1>9 DEF RecoverRetry, RecoverDeadLetter, TypeOK
  <2>5. \A v \in Workers \ {w} : rec[v] = NoRow /\ scan[v] = {}
    BY <2>1 DEF ExclusionInv, RecoveryOwnsRow, Orderly
  <2>6. ExecutionOwnsRow'
    BY <1>2, <1>3, <2>1, <2>3 DEF ExclusionInv, ExecutionOwnsRow
  <2>7. RecoveryOwnsRow'
    BY <1>3, <1>4, <2>2, <2>4, <2>5 DEF ExclusionInv, RecoveryOwnsRow
  <2>8. OutcomeSettlesRow'
    BY <1>2, <1>3, <1>6, <2>1, <2>3, <2>4, <2>5 DEF ExclusionInv, OutcomeSettlesRow
  <2> QED BY <1>1, <1>2, <1>5, <2>2, <2>6, <2>7, <2>8 DEF ExclusionInv, NoUnhandledRejection
<1> QED BY <1>7, <1>8, <1>9 DEF Recover

\* A step that only rewrites rows keeps the invariant when it changes neither owner
\* nor attempt, lets no lease of a live execution expire, and touches the status of
\* waiting jobs or cancels.
LEMMA RowStepExclusion ==
  ASSUME ExclusionInv, TypeOK',
         UNCHANGED <<dlq, history, exec, doomed, rec, req>>,
         \A w \in Workers : scan'[w] \subseteq scan[w],
         \A j \in Jobs :
           /\ job'[j].attempt = job[j].attempt /\ job'[j].worker = job[j].worker
           /\ job'[j].expired => job[j].expired \/ \A n \in Attempts : ~IsLive(j, n)
           /\ \/ job'[j].status = job[j].status
              \/ job'[j].status = "CANCELLED"
              \/ job[j].status \in Waiting
  PROVE  ExclusionInv'
<1>1. TypeOK
  BY DEF ExclusionInv
<1>2. \A j \in Jobs, n \in Attempts : IsLive(j, n)' <=> IsLive(j, n)
  BY DEF IsLive
<1>3. /\ \A w \in Workers : rec[w] # NoRow => rec[w].job \in Jobs
      /\ \A w \in Workers : scan[w] \subseteq Jobs
  BY <1>1 DEF TypeOK
<1>4. ExecutionOwnsRow'
  BY <1>2 DEF ExclusionInv, ExecutionOwnsRow, Held, Waiting
<1>5. RecoveryOwnsRow'
  <2> SUFFICES ASSUME NEW w \in Workers
      PROVE  /\ scan'[w] # {} \/ rec'[w] # NoRow => w \in Recoverers
             /\ \A j \in scan'[w] : \A n \in Attempts : ~IsLive(j, n)'
             /\ rec'[w] # NoRow =>
                  /\ job'[rec'[w].job].status \in Held \cup {"CANCELLED"}
                  /\ \A n \in Attempts : ~IsLive(rec[w].job, n)'
    BY DEF RecoveryOwnsRow
  <2>1. scan'[w] # {} \/ rec'[w] # NoRow => w \in Recoverers
    BY DEF ExclusionInv, RecoveryOwnsRow
  <2>2. \A j \in scan'[w] : \A n \in Attempts : ~IsLive(j, n)'
    BY <1>2, <1>3 DEF ExclusionInv, RecoveryOwnsRow
  <2>3. ASSUME rec[w] # NoRow
        PROVE  /\ job'[rec[w].job].status \in Held \cup {"CANCELLED"}
               /\ \A n \in Attempts : ~IsLive(rec[w].job, n)'
    <3>1. rec[w].job \in Jobs
      BY <1>3, <2>3
    <3>2. /\ job[rec[w].job].status \in Held \cup {"CANCELLED"}
          /\ \A n \in Attempts : ~IsLive(rec[w].job, n)
      BY <2>3 DEF ExclusionInv, RecoveryOwnsRow
    <3> QED BY <1>2, <3>1, <3>2 DEF Held, Waiting
  <2> QED BY <2>1, <2>2, <2>3
<1>6. OutcomeSettlesRow'
  BY <1>2 DEF ExclusionInv, OutcomeSettlesRow, Waiting
<1> QED
  BY <1>4, <1>5, <1>6 DEF ExclusionInv, AtMostOneSuccess, NoUnhandledRejection

LEMMA NextExclusion ==
  ASSUME Orderly, ExclusionInv, [Next]_vars
  PROVE  ExclusionInv'
<1>1. TypeOK /\ TypeOK' /\ job \in [Jobs -> Row]
  BY NextType DEF ExclusionInv, TypeOK
<1>2. ASSUME NEW w \in Workers, NEW batch \in SUBSET Jobs, ClaimJobs(w, batch)
      PROVE  ExclusionInv'
  BY <1>2, ClaimExclusion
<1>3. ASSUME NEW j \in Jobs, NEW n \in Attempts, Execute(j, n) PROVE ExclusionInv'
  BY <1>3, ExecuteExclusion
<1>4. ASSUME NEW j \in Jobs, NEW n \in Attempts, ExtendLease(j, n) PROVE ExclusionInv'
  <2>1. UNCHANGED <<dlq, history, exec, doomed, rec, req>>
    BY <1>4 DEF ExtendLease
  <2>2. \A w \in Workers : scan'[w] \subseteq scan[w]
    BY <1>1, <1>4 DEF ExtendLease, TypeOK
  <2>3. /\ \A i \in Jobs \ {j} : job'[i] = job[i]
        /\ job'[j] = [job[j] EXCEPT !.expired = FALSE]
    BY <1>1, <1>4 DEF ExtendLease
  <2>4. job[j] \in Row
    BY <1>1
  <2>5. /\ job'[j].attempt = job[j].attempt /\ job'[j].worker = job[j].worker
        /\ job'[j].status = job[j].status /\ ~job'[j].expired
    BY <2>3, <2>4 DEF Row
  <2> QED BY <1>1, <2>1, <2>2, <2>3, <2>5, RowStepExclusion
<1>5. ASSUME NEW j \in Jobs, LeaseExpires(j) PROVE ExclusionInv'
  <2>1. UNCHANGED <<dlq, history, exec, doomed, scan, rec, req>>
        /\ \A n \in Attempts : ~IsLive(j, n)
    BY <1>5 DEF LeaseExpires, Orderly
  <2>2. /\ \A i \in Jobs \ {j} : job'[i] = job[i]
        /\ job'[j] = [job[j] EXCEPT !.expired = TRUE]
    BY <1>1, <1>5 DEF LeaseExpires
  <2>3. job[j] \in Row
    BY <1>1
  <2>4. /\ job'[j].attempt = job[j].attempt /\ job'[j].worker = job[j].worker
        /\ job'[j].status = job[j].status
    BY <2>2, <2>3 DEF Row
  <2> QED BY <1>1, <2>1, <2>2, <2>4, RowStepExclusion
<1>6. ASSUME NEW w \in Workers, Recover(w) \/ Crash(w) PROVE ExclusionInv'
  BY <1>6, RecoverExclusion, CrashExclusion
<1>7. ASSUME NEW source \in {"SCHEDULED", "RETRY_SCHEDULED"}, NEW due \in SUBSET Jobs,
             Promote(source, due)
      PROVE  ExclusionInv'
  <2>1. UNCHANGED <<dlq, history, exec, doomed, scan, rec, req>>
        /\ \A j \in due : job[j].status \in Waiting
    BY <1>7 DEF Promote, Waiting
  <2>2. /\ \A j \in Jobs \ due : job'[j] = job[j]
        /\ \A j \in due : job'[j] = [job[j] EXCEPT !.status = "QUEUED"]
    BY <1>7 DEF Promote
  <2>3. \A j \in Jobs : job[j] \in Row
    BY <1>1
  <2>4. \A j \in due : /\ job'[j].attempt = job[j].attempt
                       /\ job'[j].worker = job[j].worker
                       /\ job'[j].expired = job[j].expired
    BY <2>2, <2>3 DEF Row
  <2> QED BY <1>1, <2>1, <2>2, <2>4, RowStepExclusion
<1>8. CASE Api
  <2>1. ~RetryFailures /\ \A r \in Requests, j \in Jobs : ~RetryCheck(r, j)
    BY DEF RetryFailures, RetryCheck, Orderly
  <2>2. \A r \in Requests : ~RetryDelete(r) /\ ~RetryUpdate(r) /\ ~RetryAborted(r)
    BY DEF ExclusionInv, NoReq, RetryDelete, RetryUpdate, RetryAborted
  <2>3. PICK j \in Jobs : CancelJob(j)
    BY <1>8, <2>1, <2>2 DEF Api
  <2>4. UNCHANGED <<dlq, history, exec, doomed, scan, rec, req>>
        /\ UpdateRow(j, "CANCELLED", job[j].worker)
    BY <2>3 DEF CancelJob
  <2>5. job[j].worker \in Workers \cup {None} /\ "CANCELLED" \in JobStatus
    BY <1>1 DEF Row, JobStatus
  <2>6. /\ job'[j].status = "CANCELLED" /\ job'[j].worker = job[j].worker
        /\ job'[j].attempt = job[j].attempt /\ job'[j].expired = job[j].expired
        /\ \A i \in Jobs \ {j} : job'[i] = job[i]
    BY <1>1, <2>4, <2>5, UpdateRowLemma
  <2> QED BY <1>1, <2>4, <2>6, RowStepExclusion
<1>9. CASE UNCHANGED vars
  BY <1>1, <1>9, RowStepExclusion DEF vars
<1> QED BY <1>2, <1>3, <1>4, <1>5, <1>6, <1>7, <1>8, <1>9 DEF Next

THEOREM ExclusionInvariant == ASSUME Orderly PROVE Spec => []ExclusionInv
<1>1. ExclusionInv /\ [Next]_vars => ExclusionInv'
  BY NextExclusion
<1> QED BY InitExclusion, <1>1, PTL DEF Spec

\* In an orderly environment no two executions of a job are ever live together,
\* however many workers claim, fail, die, abandon and recover it.
THEOREM NoDuplicateExecution == ASSUME Orderly PROVE Spec => []NoConcurrentExecution
<1>1. ExclusionInv => NoConcurrentExecution
  BY DEF ExclusionInv, ExecutionOwnsRow, NoConcurrentExecution
<1> QED BY ExclusionInvariant, <1>1, PTL

\* In an orderly environment a job succeeds at most once.
THEOREM SuccessOnce == ASSUME Orderly PROVE Spec => []AtMostOneSuccess
<1>1. ExclusionInv => AtMostOneSuccess
  BY DEF ExclusionInv
<1> QED BY ExclusionInvariant, <1>1, PTL

\* In an orderly environment no worker ends itself by an unhandled rejection.
THEOREM WorkersNeverEndThemselves == ASSUME Orderly PROVE Spec => []NoUnhandledRejection
<1>1. ExclusionInv => NoUnhandledRejection
  BY DEF ExclusionInv
<1> QED BY ExclusionInvariant, <1>1, PTL

-----------------------------------------------------------------------------
(* In every environment a dead-lettered job has used up its attempts *)

\* No step lowers an attempt number.
LEMMA AttemptsGrow ==
  ASSUME TypeOK, [Next]_vars, NEW j \in Jobs
  PROVE  job'[j].attempt >= job[j].attempt /\ job[j].attempt \in Nat
<1>1. job \in [Jobs -> Row] /\ job[j].attempt \in Nat
  BY BoundAssumption DEF TypeOK, Row
<1> DEFINE Same == job'[j].attempt = job[j].attempt
<1>2. ASSUME NEW i \in Jobs, NEW status \in JobStatus, NEW w \in Workers \cup {None},
             UpdateRow(i, status, w)
      PROVE  Same
  BY <1>2, UpdateRowLemma
<1>3. ASSUME NEW w \in Workers, NEW batch \in SUBSET Jobs, ClaimJobs(w, batch)
      PROVE  job'[j].attempt >= job[j].attempt
  <2>1. CASE j \in batch
    <3>1. job'[j] = [status |-> "CLAIMED", worker |-> w,
                     attempt |-> job[j].attempt + 1, expired |-> FALSE]
      BY <1>3, <2>1, ClaimLemma
    <3>2. job'[j].attempt = job[j].attempt + 1
      BY <3>1
    <3> QED BY <1>1, <3>2
  <2>2. CASE j \notin batch
    <3>1. job'[j] = job[j]
      BY <1>3, <2>2, ClaimLemma
    <3> QED BY <1>1, <3>1
  <2> QED BY <2>1, <2>2
<1>4. ASSUME NEW i \in Jobs, NEW n \in Attempts, Execute(i, n) PROVE Same
  <2>1. exec[i][n] \in ActiveExec
    BY <1>4, ExecuteTypes
  <2>2. exec[i][n].worker \in Workers \cup {None}
    BY <2>1 DEF ActiveExec
  <2>3. \/ job' = job
        \/ \E status \in JobStatus, w \in Workers \cup {None} : UpdateRow(i, status, w)
    BY <1>4, <2>2
    DEF Execute, RateLimited, NoSlot, StartExecution, MarkRunning, HandlerReturns,
        ReadForCompletion, CommitSuccess, CommitRetry, CommitDeadLetter, JobStatus
  <2> QED BY <1>2, <2>3
<1>5. ASSUME NEW i \in Jobs, LeaseExpires(i) \/ \E n \in Attempts : ExtendLease(i, n)
      PROVE  Same
  BY <1>1, <1>5 DEF ExtendLease, LeaseExpires, Row
<1>6. ASSUME NEW w \in Workers, Recover(w) \/ Crash(w) PROVE Same
  <2>1. rec[w] # NoRow => rec[w].job \in Jobs
    BY DEF TypeOK
  <2>2. \/ job' = job
        \/ \E i \in Jobs, status \in JobStatus : UpdateRow(i, status, None)
    BY <1>6, <2>1
    DEF Recover, ScanExpired, RecoverRead, RecoverRetry, RecoverDeadLetter, Crash, JobStatus
  <2> QED BY <1>2, <2>2
<1>7. ASSUME NEW source \in {"SCHEDULED", "RETRY_SCHEDULED"}, NEW due \in SUBSET Jobs,
             Promote(source, due)
      PROVE  Same
  BY <1>1, <1>7 DEF Promote, Row
<1>8. ASSUME Api PROVE Same
  <2>1. ASSUME RetryFailures PROVE Same
    <3>1. job'[j] \in {job[j], [job[j] EXCEPT !.status = "QUEUED", !.worker = None]}
      BY <2>1 DEF RetryFailures
    <3>2. job[j] \in Row
      BY <1>1
    <3> QED BY <3>1, <3>2 DEF Row
  <2>2. ASSUME NEW i \in Jobs, CancelJob(i) PROVE Same
    <3>1. job[i].worker \in Workers \cup {None}
      BY <1>1 DEF Row
    <3> QED BY <1>2, <2>2, <3>1 DEF CancelJob, JobStatus
  <2>3. ASSUME NEW r \in Requests, NEW i \in Jobs, RetryCheck(r, i) PROVE Same
    BY <2>3 DEF RetryCheck
  <2>4. ASSUME NEW r \in Requests, RetryDelete(r) \/ RetryUpdate(r) \/ RetryAborted(r)
        PROVE  Same
    <3>1. ASSUME RetryUpdate(r) PROVE req[r].job \in Jobs
      BY <3>1 DEF RetryUpdate, TypeOK, NoReq
    <3>2. CASE RetryUpdate(r)
      BY <1>2, <3>1, <3>2 DEF RetryUpdate, JobStatus
    <3>3. CASE RetryDelete(r) \/ RetryAborted(r)
      BY <3>3 DEF RetryDelete, RetryAborted
    <3> QED BY <2>4, <3>2, <3>3
  <2> QED BY <1>8, <2>1, <2>2, <2>3, <2>4 DEF Api
<1>9. ASSUME UNCHANGED vars PROVE Same
  BY <1>9 DEF vars
<1> DEFINE Grown == job'[j].attempt >= job[j].attempt
<1>10. Same => Grown
  BY <1>1
<1>11. ASSUME NEW w \in Workers, NEW batch \in SUBSET Jobs, ClaimJobs(w, batch) PROVE Grown
  BY <1>3, <1>11
<1> HIDE DEF Same, Grown
<1>12. Grown
  BY <1>4, <1>5, <1>6, <1>7, <1>8, <1>9, <1>10, <1>11 DEF Next
<1> QED BY <1>1, <1>12 DEF Grown

LEMMA InitSeen == Init => SeenIsPast /\ DeadLetterExhausted
<1> SUFFICES ASSUME Init PROVE SeenIsPast /\ DeadLetterExhausted
  OBVIOUS
<1>1. \A j \in Jobs : job[j].attempt = 0 /\ job[j].status # "DEAD_LETTER"
  BY DEF Init
<1>2. \A j \in Jobs, n \in Attempts : exec[j][n].seen = 0
  BY DEF Init, NoExec, ExecAt
<1>3. \A w \in Workers : rec[w] = NoRow
  BY DEF Init
<1> QED BY <1>1, <1>2, <1>3 DEF SeenIsPast, DeadLetterExhausted

\* A step sets what an execution or a recovery has read to nothing or to the
\* row's present attempt number ...
ReadsPresent ==
    /\ \A j \in Jobs, n \in Attempts :
         exec'[j][n].seen \in {exec[j][n].seen, 0, job[j].attempt}
    /\ \A w \in Workers : rec'[w] \in {rec[w], NoRow}
                          \cup {[job |-> j, seen |-> job[j].attempt] : j \in Jobs}

\* ... and dead-letters a job only if what it has read had used up the attempts.
DecidesFromRead ==
    \A j \in Jobs : job'[j].status = "DEAD_LETTER" =>
      \/ job[j].status = "DEAD_LETTER"
      \/ \E n \in Attempts : Exhausted(exec[j][n].seen)
      \/ \E w \in Workers : rec[w] # NoRow /\ rec[w].job = j /\ Exhausted(rec[w].seen)

LEMMA ExecuteReads ==
  ASSUME TypeOK, NEW j \in Jobs, NEW n \in Attempts, Execute(j, n)
  PROVE  ReadsPresent /\ DecidesFromRead
<1> DEFINE e == exec[j][n]
<1>0. /\ Over \in Exec /\ Over.seen = 0 /\ e \in ActiveExec /\ e.worker \in Workers
      /\ \A w \in Workers : rec'[w] = rec[w]
  BY ExecuteTypes
  DEF Exec, Over, ExecAt, ActiveExec, Execute, RateLimited, NoSlot, StartExecution,
      MarkRunning, HandlerReturns, ReadForCompletion, CommitSuccess, CommitRetry,
      CommitDeadLetter, EndExecution
<1>1. ASSUME NEW f \in Exec, SetExec(j, n, f), f.seen \in {e.seen, 0, job[j].attempt}
      PROVE  ReadsPresent
  <2> SUFFICES ASSUME NEW i \in Jobs, NEW m \in Attempts
      PROVE  exec'[i][m].seen \in {exec[i][m].seen, 0, job[i].attempt}
    BY <1>0 DEF ReadsPresent
  <2>1. CASE i = j /\ m = n
    BY <1>1, <2>1, SetExecLemma
  <2>2. CASE ~(i = j /\ m = n)
    BY <1>1, <2>2, SetExecLemma
  <2> QED BY <2>1, <2>2
<1>2. ASSUME job' = job PROVE DecidesFromRead
  BY <1>2 DEF DecidesFromRead
<1>3. ASSUME NEW status \in JobStatus \ {"DEAD_LETTER"}, NEW w \in Workers \cup {None},
             UpdateRow(j, status, w)
      PROVE  DecidesFromRead
  BY <1>3, UpdateRowLemma DEF DecidesFromRead
<1>4. CASE RateLimited(j, n)
  BY <1>0, <1>1, <1>3, <1>4 DEF RateLimited, JobStatus
<1>5. CASE NoSlot(j, n)
  BY <1>0, <1>1, <1>2, <1>5 DEF NoSlot
<1>6. CASE StartExecution(j, n)
  <2> DEFINE f == [e EXCEPT !.pc = "starting"]
  <2>1. f \in Exec /\ f.seen = e.seen
    BY <1>0 DEF ActiveExec, Exec, Live
  <2>2. SetExec(j, n, f) /\ job' = job
    BY <1>6 DEF StartExecution
  <2> HIDE DEF f
  <2> QED BY <1>1, <1>2, <2>1, <2>2
<1>7. CASE MarkRunning(j, n)
  <2> DEFINE f == [e EXCEPT !.pc = "running"]
  <2>1. f \in Exec /\ f.seen = e.seen
    BY <1>0 DEF ActiveExec, Exec, Live
  <2>2. \/ SetExec(j, n, f) /\ UpdateRow(j, "RUNNING", e.worker)
        \/ SetExec(j, n, Over) /\ job' = job
    BY <1>7 DEF MarkRunning
  <2> HIDE DEF f
  <2> QED BY <1>0, <1>1, <1>2, <1>3, <2>1, <2>2 DEF JobStatus
<1>8. CASE \E ok \in BOOLEAN : HandlerReturns(j, n, ok)
  <2> PICK ok \in BOOLEAN : HandlerReturns(j, n, ok)
    BY <1>8
  <2> DEFINE f == [e EXCEPT !.pc = "returned", !.ok = ok]
  <2>1. f \in Exec /\ f.seen = e.seen
    BY <1>0 DEF ActiveExec, Exec, Live
  <2>2. SetExec(j, n, f) /\ job' = job
    BY DEF HandlerReturns
  <2> HIDE DEF f
  <2> QED BY <1>1, <1>2, <2>1, <2>2
<1>9. CASE ReadForCompletion(j, n)
  <2> DEFINE f == [e EXCEPT !.pc = "completing", !.seen = job[j].attempt]
  <2>1. f \in Exec /\ f.seen = job[j].attempt
    BY <1>0 DEF ActiveExec, Exec, Live, TypeOK, Row
  <2>2. SetExec(j, n, f) /\ job' = job
    BY <1>9 DEF ReadForCompletion
  <2> HIDE DEF f
  <2> QED BY <1>1, <1>2, <2>1, <2>2
<1>10. CASE CommitSuccess(j, n) \/ CommitRetry(j, n)
  BY <1>0, <1>1, <1>3, <1>10 DEF CommitSuccess, CommitRetry, EndExecution, JobStatus
<1>11. CASE CommitDeadLetter(j, n)
  <2>1. SetExec(j, n, Over) /\ Exhausted(e.seen)
    BY <1>11 DEF CommitDeadLetter, EndExecution
  <2>2. \A i \in Jobs \ {j} : job'[i] = job[i]
    BY <1>0, <1>11, UpdateRowLemma DEF CommitDeadLetter, JobStatus
  <2> QED BY <1>0, <1>1, <2>1, <2>2 DEF DecidesFromRead
<1> QED BY <1>4, <1>5, <1>6, <1>7, <1>8, <1>9, <1>10, <1>11 DEF Execute

LEMMA RecoverReads ==
  ASSUME TypeOK, NEW w \in Workers, Recover(w)
  PROVE  ReadsPresent /\ DecidesFromRead
<1>1. exec' = exec
  BY DEF Recover, ScanExpired, RecoverRead, RecoverRetry, RecoverDeadLetter
<1>2. \A v \in Workers : rec'[v] \in {rec[v], NoRow}
                         \cup {[job |-> j, seen |-> job[j].attempt] : j \in Jobs}
  BY DEF TypeOK, Recover, ScanExpired, RecoverRead, RecoverRetry, RecoverDeadLetter
<1>3. ReadsPresent
  BY <1>1, <1>2 DEF ReadsPresent
<1>4. CASE job' = job
  BY <1>3, <1>4 DEF DecidesFromRead
<1>5. ASSUME rec[w] # NoRow PROVE rec[w].job \in Jobs
  BY <1>5 DEF TypeOK
<1>6. CASE RecoverRetry(w)
  <2>1. /\ job'[rec[w].job].status = "RETRY_SCHEDULED"
        /\ \A j \in Jobs \ {rec[w].job} : job'[j] = job[j]
    BY <1>5, <1>6, UpdateRowLemma DEF RecoverRetry, JobStatus
  <2> QED BY <1>3, <2>1 DEF DecidesFromRead
<1>7. CASE RecoverDeadLetter(w) /\ job' # job
  <2>1. \A j \in Jobs \ {rec[w].job} : job'[j] = job[j]
    BY <1>5, <1>7, UpdateRowLemma DEF RecoverDeadLetter, JobStatus
  <2>2. rec[w] # NoRow /\ Exhausted(rec[w].seen)
    BY <1>7 DEF RecoverDeadLetter
  <2> QED BY <1>3, <2>1, <2>2 DEF DecidesFromRead
<1> QED BY <1>4, <1>6, <1>7 DEF Recover, ScanExpired, RecoverRead

\* The remaining steps read nothing and dead-letter nothing.
LEMMA OtherReads ==
  ASSUME rec' = rec,
         \A j \in Jobs, n \in Attempts : exec'[j][n].seen \in {exec[j][n].seen, 0},
         \A j \in Jobs : job'[j].status \in {job[j].status, "CLAIMED", "QUEUED", "CANCELLED"}
  PROVE  ReadsPresent /\ DecidesFromRead
  BY DEF ReadsPresent, DecidesFromRead

LEMMA NextReads ==
  ASSUME TypeOK, [Next]_vars
  PROVE  ReadsPresent /\ DecidesFromRead
<1> DEFINE Goal == ReadsPresent /\ DecidesFromRead
<1>0. job \in [Jobs -> Row]
  BY DEF TypeOK
<1>1. ASSUME NEW w \in Workers, NEW batch \in SUBSET Jobs, ClaimJobs(w, batch) PROVE Goal
  <2>1. rec' = rec /\ ExecAt("claimed", w).seen = 0
    BY <1>1 DEF ClaimJobs, ExecAt
  <2>2. \A j \in Jobs : job'[j].status \in {job[j].status, "CLAIMED"}
    BY <1>1 DEF ClaimJobs
  <2>3. ASSUME NEW j \in Jobs, NEW n \in Attempts
        PROVE  exec'[j][n].seen \in {exec[j][n].seen, 0}
    <3>1. CASE j \in batch
      <4> DEFINE m == job[j].attempt + 1
      <4>1. /\ exec'[j][m] = ExecAt("claimed", w)
            /\ \A k \in Attempts \ {m} : exec'[j][k] = exec[j][k]
        BY <1>1, <3>1, ClaimLemma
      <4>2. CASE n = m
        BY <2>1, <4>1, <4>2
      <4>3. CASE n # m
        BY <4>1, <4>3
      <4> QED BY <4>2, <4>3
    <3>2. CASE j \notin batch
      BY <1>1, <3>2, ClaimLemma
    <3> QED BY <3>1, <3>2
  <2> QED BY <2>1, <2>2, <2>3, OtherReads
<1>2. ASSUME NEW j \in Jobs, NEW n \in Attempts, Execute(j, n) PROVE Goal
  BY <1>2, ExecuteReads
<1>3. ASSUME NEW w \in Workers, Recover(w) PROVE Goal
  BY <1>3, RecoverReads
<1>4. ASSUME NEW w \in Workers, Crash(w) PROVE Goal
  <2>1. job' = job /\ Over.seen = 0
    BY <1>4 DEF Crash, Over, ExecAt
  <2>2. \A v \in Workers : rec'[v] \in {rec[v], NoRow}
    BY <1>4 DEF Crash, TypeOK
  <2>3. \A j \in Jobs, n \in Attempts : exec'[j][n].seen \in {exec[j][n].seen, 0}
    BY <1>4, <2>1 DEF Crash
  <2> QED BY <2>1, <2>2, <2>3 DEF ReadsPresent, DecidesFromRead
<1>5. ASSUME NEW j \in Jobs, LeaseExpires(j) \/ \E n \in Attempts : ExtendLease(j, n)
      PROVE  Goal
  <2>1. rec' = rec /\ exec' = exec
    BY <1>5 DEF LeaseExpires, ExtendLease
  <2>2. \A i \in Jobs : job'[i].status = job[i].status
    BY <1>0, <1>5 DEF LeaseExpires, ExtendLease, Row
  <2> QED BY <2>1, <2>2, OtherReads
<1>6. ASSUME NEW source \in {"SCHEDULED", "RETRY_SCHEDULED"}, NEW due \in SUBSET Jobs,
             Promote(source, due)
      PROVE  Goal
  <2>1. rec' = rec /\ exec' = exec
    BY <1>6 DEF Promote
  <2>2. \A i \in Jobs : job'[i].status \in {job[i].status, "QUEUED"}
    BY <1>0, <1>6 DEF Promote, Row
  <2> QED BY <2>1, <2>2, OtherReads
<1>7. ASSUME Api PROVE Goal
  <2>1. rec' = rec /\ exec' = exec
    BY <1>7
    DEF Api, RetryFailures, CancelJob, RetryCheck, RetryDelete, RetryUpdate, RetryAborted
  <2>2. ASSUME NEW i \in Jobs
        PROVE  job'[i].status \in {job[i].status, "QUEUED", "CANCELLED"}
    <3>1. job[i] \in Row
      BY <1>0
    <3>2. CASE RetryFailures
      BY <3>1, <3>2 DEF RetryFailures, Row
    <3>3. ASSUME NEW j \in Jobs, NEW status \in {"QUEUED", "CANCELLED"}, NEW w,
                 UpdateRow(j, status, w)
          PROVE  job'[i].status \in {job[i].status, status}
      BY <1>0, <3>1, <3>3 DEF UpdateRow, Row
    <3>4. ASSUME NEW j \in Jobs, CancelJob(j)
          PROVE  job'[i].status \in {job[i].status, "CANCELLED"}
      BY <3>3, <3>4 DEF CancelJob
    <3>5. ASSUME NEW r \in Requests, RetryUpdate(r)
          PROVE  job'[i].status \in {job[i].status, "QUEUED"}
      <4>1. req[r].job \in Jobs
        BY <3>5 DEF RetryUpdate, TypeOK, NoReq
      <4> QED BY <3>3, <3>5, <4>1 DEF RetryUpdate
    <3>6. ASSUME NEW r \in Requests,
                 RetryDelete(r) \/ RetryAborted(r) \/ \E j \in Jobs : RetryCheck(r, j)
          PROVE  job' = job
      BY <3>6 DEF RetryDelete, RetryAborted, RetryCheck
    <3> QED BY <1>7, <3>2, <3>4, <3>5, <3>6 DEF Api
  <2> QED BY <2>1, <2>2, OtherReads
<1>8. ASSUME UNCHANGED vars PROVE Goal
  BY <1>8, OtherReads DEF vars
<1> HIDE DEF Goal
<1>9. Goal
  BY <1>1, <1>2, <1>3, <1>4, <1>5, <1>6, <1>7, <1>8 DEF Next
<1> QED BY <1>9 DEF Goal

LEMMA NextSeen ==
  ASSUME TypeOK, SeenIsPast, DeadLetterExhausted, [Next]_vars
  PROVE  SeenIsPast' /\ DeadLetterExhausted'
<1>1. \A j \in Jobs : /\ job'[j].attempt >= job[j].attempt
                     /\ job[j].attempt \in Nat /\ job'[j].attempt \in Nat
  BY AttemptsGrow, NextType, BoundAssumption DEF TypeOK, Row
<1>2. ReadsPresent /\ DecidesFromRead
  BY NextReads
<1>3. \A j \in Jobs, n \in Attempts : exec[j][n].seen \in Nat
  BY BoundAssumption DEF TypeOK, ActiveExec, NoExec, Over, ExecAt
<1>4. \A w \in Workers : rec[w] # NoRow => rec[w].job \in Jobs /\ rec[w].seen \in Nat
  BY BoundAssumption DEF TypeOK
<1>5. ASSUME NEW j \in Jobs, NEW n \in Attempts PROVE exec'[j][n].seen <= job'[j].attempt
  BY <1>1, <1>2, <1>3 DEF SeenIsPast, ReadsPresent
<1>6. ASSUME NEW w \in Workers, rec'[w] # NoRow
      PROVE  rec'[w].seen <= job'[rec'[w].job].attempt
  <2>1. CASE rec'[w] = rec[w]
    BY <1>1, <1>4, <1>6, <2>1 DEF SeenIsPast
  <2>2. CASE \E j \in Jobs : rec'[w] = [job |-> j, seen |-> job[j].attempt]
    BY <1>1, <2>2
  <2> QED BY <1>2, <1>6, <2>1, <2>2 DEF ReadsPresent
<1>7. ASSUME NEW j \in Jobs, job'[j].status = "DEAD_LETTER"
      PROVE  job'[j].attempt >= MaxAttempts
  <2>1. job[j].attempt >= MaxAttempts
    BY <1>1, <1>2, <1>3, <1>4, <1>7, BoundAssumption
    DEF DecidesFromRead, SeenIsPast, DeadLetterExhausted, Exhausted
  <2> QED BY <1>1, <2>1, BoundAssumption
<1> QED BY <1>5, <1>6, <1>7 DEF SeenIsPast, DeadLetterExhausted, Exhausted

\* Whatever races, retries, crashes and late leases there are, a job is in
\* DEAD_LETTER only after as many claims as jobs.max_attempts allows.
THEOREM NeverDeadLetteredEarly == Spec => []DeadLetterExhausted
<1>1. TypeOK /\ SeenIsPast /\ DeadLetterExhausted /\ [Next]_vars
        => (SeenIsPast /\ DeadLetterExhausted)'
  BY NextSeen
<1> QED BY TypeCorrect, InitSeen, <1>1, PTL DEF Spec
=============================================================================
