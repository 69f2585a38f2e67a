---------------------------- MODULE WorkflowProofs ----------------------------
(***************************************************************************)
(* Dependencies first, and no workflow closed early, for every graph, any  *)
(* number of jobs and executors, whichever of them die.                    *)
(***************************************************************************)
EXTENDS Workflow, TLAPS

\* All that n depends on is done.
Ready(n) == \A d \in Deps[n] : Done(d)

\* A job that waits may be claimed once more; no job comes before its time.
JobsSound ==
    \A j \in Jobs :
        /\ job[j].status = "QUEUED" => job[j].attempts < MaxAttempts
        /\ job[j].status # "absent" => job[j].purpose \in Nodes /\ Ready(job[j].purpose)

\* What a node's row says was so: its job was created for it.
NodesSound ==
    \A n \in Nodes :
        /\ nodeStatus[n] = "COMPLETED" => Done(n)
        /\ nodeStatus[n] = "READY" => Ready(n)
        /\ nodeJob[n] # None => /\ job[nodeJob[n]].status # "absent"
                                /\ job[nodeJob[n]].purpose = n

\* What an executor knows at s is still so.
StepSound(s) ==
    /\ s.pc = "run" => s.job \in Jobs /\ job[s.job].status = "RUNNING"
    /\ s.pc = "completed" => s.job \in Jobs /\ job[s.job].status = "COMPLETED"
    /\ s.pc = "mark" => s.node \in Nodes /\ Done(s.node)
    /\ s.pc = "ready" => s.cur \in Nodes /\ Ready(s.cur)
    /\ s.pc \in {"enqueue", "link"} => \A n \in s.todo : Ready(n)
    /\ s.pc = "link" => /\ s.cur \in Nodes /\ s.made \in Jobs
                        /\ job[s.made].status # "absent" /\ job[s.made].purpose = s.cur
    /\ s.pc = "close" => \A n \in Nodes : Done(n)

\* No two execute the same job.
Alone ==
    \A p, q \in Procs :
        p # q /\ proc[p].pc = "run" /\ proc[q].pc = "run" => proc[p].job # proc[q].job

WorkflowInv ==
    /\ TypeOK
    /\ JobsSound
    /\ NodesSound
    /\ \A p \in Procs : StepSound(proc[p])
    /\ Alone
    /\ CompletedTruthfully

JobStatus == {"absent", "QUEUED", "RUNNING", "COMPLETED", "DEAD_LETTER"}
JobRow == [status : JobStatus, attempts : 0 .. MaxAttempts, purpose : Nodes \cup {None}]
Pcs == {"idle", "run", "completed", "mark", "check", "ready", "enqueue", "link",
        "close", "failed", "fail", "failwf", "dead"}
ProcState ==
    [pc : Pcs, job : Jobs \cup {None}, node : Nodes \cup {None}, todo : SUBSET Nodes,
     cur : Nodes \cup {None}, made : Jobs \cup {None}]

-----------------------------------------------------------------------------
(* What a step of one process keeps of the jobs, and so of what others know *)

\* Jobs stay, with their purpose, and what is completed stays so.
JobsKept ==
    \A j \in Jobs :
        /\ job[j].status # "absent" =>
              job'[j].status # "absent" /\ job'[j].purpose = job[j].purpose
        /\ job[j].status = "COMPLETED" => job'[j].status = "COMPLETED"

\* The jobs that others execute stay as they are.
RunsKept(e) ==
    \A p \in Procs \ {e} : proc[p].pc = "run" => job'[proc[p].job] = job[proc[p].job]

LEMMA DoneIsFinal ==
  ASSUME WorkflowInv, JobsKept, NEW n \in Nodes
  PROVE  Done(n) => Done(n)'
<1> SUFFICES ASSUME Done(n) PROVE Done(n)'
  OBVIOUS
<1>1. PICK j \in Jobs : job[j].purpose = n /\ job[j].status = "COMPLETED"
  BY DEF Done
<1>2. job'[j].purpose = n /\ job'[j].status = "COMPLETED"
  BY <1>1 DEF JobsKept
<1> QED BY <1>2 DEF Done

LEMMA ReadyIsFinal ==
  ASSUME WorkflowInv, JobsKept, NEW n \in Nodes
  PROVE  Ready(n) => Ready(n)'
<1>1. Deps[n] \subseteq Nodes
  BY NodeAssumption
<1> QED BY <1>1, DoneIsFinal DEF Ready

\* The processes that take no step.
LEMMA OthersKnow ==
  ASSUME WorkflowInv, JobsKept, NEW e \in Procs, RunsKept(e), NEW s,
         proc' = [proc EXCEPT ![e] = s]
  PROVE  \A p \in Procs \ {e} : proc'[p] = proc[p] /\ StepSound(proc[p])'
<1> SUFFICES ASSUME NEW p \in Procs \ {e} PROVE proc'[p] = proc[p] /\ StepSound(proc[p])'
  OBVIOUS
<1>1. proc[p] \in ProcState /\ StepSound(proc[p])
  BY DEF WorkflowInv, TypeOK, ProcState, Pcs
<1>2. proc'[p] = proc[p]
  BY DEF WorkflowInv, TypeOK
<1>3. proc[p].pc = "run" => proc[p].job \in Jobs /\ job'[proc[p].job].status = "RUNNING"
  BY <1>1 DEF StepSound, RunsKept
<1>4. proc[p].pc = "completed" =>
         proc[p].job \in Jobs /\ job'[proc[p].job].status = "COMPLETED"
  BY <1>1 DEF StepSound, JobsKept
<1>5. proc[p].pc = "link" =>
         /\ proc[p].cur \in Nodes /\ proc[p].made \in Jobs
         /\ job'[proc[p].made].status # "absent"
         /\ job'[proc[p].made].purpose = proc[p].cur
  BY <1>1 DEF StepSound, JobsKept
<1>6. proc[p].pc = "mark" => proc[p].node \in Nodes /\ Done(proc[p].node)'
  BY <1>1, <1>2, DoneIsFinal DEF StepSound, Done
<1>7. proc[p].pc = "ready" => proc[p].cur \in Nodes /\ Ready(proc[p].cur)'
  BY <1>1, <1>2, ReadyIsFinal DEF StepSound, Ready, Done
<1>8. proc[p].pc \in {"enqueue", "link"} => \A n \in proc[p].todo : Ready(n)'
  BY <1>1, ReadyIsFinal DEF StepSound, ProcState
<1>9. proc[p].pc = "close" => \A n \in Nodes : Done(n)'
  BY <1>1, DoneIsFinal DEF StepSound
<1> QED BY <1>2, <1>3, <1>4, <1>5, <1>6, <1>7, <1>8, <1>9 DEF StepSound

\* A step that leaves the jobs alone.
LEMMA JobsUnchanged ==
  ASSUME WorkflowInv, UNCHANGED job
  PROVE  /\ JobsKept /\ JobsSound'
         /\ \A e \in Procs : RunsKept(e)
         /\ job' \in [Jobs -> JobRow]
<1>1. JobsKept /\ \A e \in Procs : RunsKept(e)
  BY DEF JobsKept, RunsKept
<1>2. JobsSound'
  <2> SUFFICES ASSUME NEW j \in Jobs
      PROVE  /\ job'[j].status = "QUEUED" => job'[j].attempts < MaxAttempts
             /\ job'[j].status # "absent" =>
                   job'[j].purpose \in Nodes /\ Ready(job[j].purpose)'
    BY DEF JobsSound
  <2>1. job[j].status # "absent" => job[j].purpose \in Nodes /\ Ready(job[j].purpose)
    BY DEF WorkflowInv, JobsSound
  <2>2. job[j].status # "absent" => Ready(job[j].purpose)'
    BY <1>1, <2>1, ReadyIsFinal DEF Ready, Done
  <2> QED BY <2>1, <2>2 DEF WorkflowInv, JobsSound
<1>3. job' \in [Jobs -> JobRow]
  BY DEF WorkflowInv, TypeOK, JobRow, JobStatus
<1> QED BY <1>1, <1>2, <1>3

\* A step of e that ends at s.
LEMMA StepOfOne ==
  ASSUME WorkflowInv, NEW e \in Procs, NEW s \in ProcState,
         proc' = [proc EXCEPT ![e] = s], StepSound(s)',
         JobsKept, RunsKept(e), JobsSound', NodesSound',
         s.pc = "run" =>
            \A p \in Procs \ {e} : proc[p].pc = "run" => proc[p].job # s.job,
         job' \in [Jobs -> JobRow], nodeStatus' \in [Nodes -> NodeStatus],
         nodeJob' \in [Nodes -> Jobs \cup {None}], wf' \in WorkflowStatus,
         UNCHANGED routed, CompletedTruthfully'
  PROVE  WorkflowInv'
<1>1. \A p \in Procs \ {e} : proc'[p] = proc[p] /\ StepSound(proc[p])'
  BY OthersKnow
<1>2. proc \in [Procs -> ProcState]
  BY DEF WorkflowInv, TypeOK, ProcState, Pcs
<1>3. proc'[e] = s /\ proc' \in [Procs -> ProcState]
  BY <1>2
<1>4. StepSound(proc[e])'
  BY <1>3 DEF StepSound, Ready, Done
<1>5. TypeOK'
  BY <1>3 DEF WorkflowInv, TypeOK, ProcState, Pcs, JobRow, JobStatus
<1>6. Alone'
  BY <1>1, <1>3 DEF WorkflowInv, Alone
<1> QED BY <1>1, <1>4, <1>5, <1>6 DEF WorkflowInv

\* A step of e that changes only what e does next.
LEMMA MoveOn ==
  ASSUME WorkflowInv, NEW e \in Procs, NEW s \in ProcState,
         proc' = [proc EXCEPT ![e] = s], StepSound(s), s.pc # "run",
         UNCHANGED <<nodeStatus, nodeJob, wf, job, routed>>
  PROVE  WorkflowInv'
<1>1. /\ JobsKept /\ JobsSound' /\ RunsKept(e)
      /\ job' \in [Jobs -> JobRow]
  BY JobsUnchanged
<1>2. StepSound(s)'
  BY DEF StepSound, Ready, Done
<1>3. NodesSound'
  BY DEF WorkflowInv, NodesSound, Ready, Done
<1>4. CompletedTruthfully'
  BY DEF WorkflowInv, CompletedTruthfully, Done
<1>5. /\ nodeStatus' \in [Nodes -> NodeStatus]
      /\ nodeJob' \in [Nodes -> Jobs \cup {None}]
      /\ wf' \in WorkflowStatus
  BY DEF WorkflowInv, TypeOK
<1> QED BY <1>1, <1>2, <1>3, <1>4, <1>5, StepOfOne

LEMMA States == WorkflowInv => proc \in [Procs -> ProcState]
BY DEF WorkflowInv, TypeOK, ProcState, Pcs

LEMMA IdleStates ==
  /\ Idle \in ProcState /\ StepSound(Idle) /\ Idle.pc = "idle"
  /\ At("dead", None, None, {}, None, None) \in ProcState
  /\ StepSound(At("dead", None, None, {}, None, None))
BY DEF Idle, At, ProcState, Pcs, StepSound

-----------------------------------------------------------------------------
(* Steps that read *)

LEMMA FindCompletedKeeps ==
  ASSUME WorkflowInv, NEW e \in Executors, FindCompleted(e)
  PROVE  WorkflowInv'
<1> USE DEF Procs
<1>1. /\ proc[e] \in ProcState /\ StepSound(proc[e]) /\ proc[e].pc = "completed"
      /\ UNCHANGED <<nodeStatus, nodeJob, wf, job, routed>>
  BY States DEF WorkflowInv, FindCompleted
<1>2. CASE proc' = [proc EXCEPT ![e] = Idle]
  BY <1>1, <1>2, IdleStates, MoveOn
<1>3. CASE \E n \in Nodes :
             /\ nodeJob[n] = proc[e].job
             /\ proc' = [proc EXCEPT ![e] = At("mark", @.job, n, {}, None, None)]
  <2>1. PICK n \in Nodes :
           /\ nodeJob[n] = proc[e].job
           /\ proc' = [proc EXCEPT ![e] = At("mark", @.job, n, {}, None, None)]
    BY <1>3
  <2>2. PICK s : s = At("mark", proc[e].job, n, {}, None, None)
    OBVIOUS
  <2>3. s \in ProcState /\ proc' = [proc EXCEPT ![e] = s] /\ s.pc = "mark" /\ s.node = n
    BY <1>1, <2>1, <2>2 DEF At, ProcState, Pcs
  <2>4. proc[e].job \in Jobs /\ job[proc[e].job].status = "COMPLETED"
    BY <1>1 DEF StepSound
  <2>5. Done(n)
    BY <2>1, <2>4, NodeAssumption DEF WorkflowInv, NodesSound, Done
  <2>6. StepSound(s)
    BY <2>3, <2>5 DEF StepSound
  <2> QED BY <1>1, <2>3, <2>6, MoveOn
<1> QED BY <1>2, <1>3 DEF FindCompleted

LEMMA CheckDependentKeeps ==
  ASSUME WorkflowInv, NEW e \in Executors, NEW d \in Nodes, CheckDependent(e, d)
  PROVE  WorkflowInv'
<1> USE DEF Procs
<1>1. /\ proc[e] \in ProcState
      /\ UNCHANGED <<nodeStatus, nodeJob, wf, job, routed>>
  BY States DEF CheckDependent
<1>2. PICK s : s = IF AllComplete(d)
                   THEN At("ready", proc[e].job, proc[e].node, proc[e].todo, d, None)
                   ELSE At("check", proc[e].job, proc[e].node, proc[e].todo \ {d}, None, None)
  OBVIOUS
<1>3. proc' = [proc EXCEPT ![e] = s]
  BY <1>2 DEF CheckDependent
<1>4. s \in ProcState /\ s.pc \in {"ready", "check"}
  BY <1>1, <1>2 DEF At, ProcState, Pcs
<1>5. AllComplete(d) => Ready(d)
  BY NodeAssumption DEF AllComplete, Ready, WorkflowInv, NodesSound
<1>6. StepSound(s)
  BY <1>2, <1>4, <1>5 DEF StepSound, At
<1> QED BY <1>1, <1>3, <1>4, <1>6, MoveOn

LEMMA ReadReadyKeeps ==
  ASSUME WorkflowInv, NEW p \in Procs, ReadReady(p)
  PROVE  WorkflowInv'
<1>1. /\ proc[p] \in ProcState
      /\ UNCHANGED <<nodeStatus, nodeJob, wf, job, routed>>
  BY States DEF ReadReady
<1>2. PICK s : s = At("enqueue", proc[p].job, proc[p].node, Unserved, None, None)
  OBVIOUS
<1>3. proc' = [proc EXCEPT ![p] = s]
  BY <1>2 DEF ReadReady
<1>4. s \in ProcState /\ s.pc = "enqueue" /\ s.todo = Unserved
  BY <1>1, <1>2 DEF At, ProcState, Pcs, Unserved
<1>5. \A n \in Unserved : Ready(n)
  BY DEF Unserved, WorkflowInv, NodesSound
<1>6. StepSound(s)
  BY <1>4, <1>5 DEF StepSound
<1> QED BY <1>1, <1>3, <1>4, <1>6, MoveOn

LEMMA SkipNodeKeeps ==
  ASSUME WorkflowInv, NEW p \in Procs, NEW n \in Nodes, SkipNode(p, n)
  PROVE  WorkflowInv'
<1>1. /\ proc[p] \in ProcState /\ StepSound(proc[p]) /\ proc[p].pc = "enqueue"
      /\ UNCHANGED <<nodeStatus, nodeJob, wf, job, routed>>
  BY States DEF SkipNode, WorkflowInv
<1>2. PICK s : s = At("enqueue", proc[p].job, proc[p].node, proc[p].todo \ {n}, None, None)
  OBVIOUS
<1>3. proc' = [proc EXCEPT ![p] = s]
  BY <1>2 DEF SkipNode
<1>4. s \in ProcState /\ s.pc = "enqueue" /\ s.todo = proc[p].todo \ {n}
  BY <1>1, <1>2 DEF At, ProcState, Pcs
<1>5. StepSound(s)
  BY <1>1, <1>4 DEF StepSound
<1> QED BY <1>1, <1>3, <1>4, <1>5, MoveOn

LEMMA CountPendingKeeps ==
  ASSUME WorkflowInv, NEW p \in Procs, CountPending(p)
  PROVE  WorkflowInv'
<1>1. /\ proc[p] \in ProcState
      /\ UNCHANGED <<nodeStatus, nodeJob, wf, job, routed>>
  BY States DEF CountPending
<1>2. PICK s : s = IF p # Creator /\ Pending = {}
                   THEN At("close", proc[p].job, proc[p].node, {}, None, None) ELSE Idle
  OBVIOUS
<1>3. proc' = [proc EXCEPT ![p] = s]
  BY <1>2 DEF CountPending
<1>4. s \in ProcState /\ s.pc # "run"
  BY <1>1, <1>2, IdleStates DEF At, ProcState, Pcs
<1>5. Pending = {} => \A n \in Nodes : Done(n)
  BY DEF Pending, WorkflowInv, NodesSound
<1>6. StepSound(s)
  BY <1>2, <1>5, IdleStates DEF StepSound, At
<1> QED BY <1>1, <1>3, <1>4, <1>6, MoveOn

LEMMA FindFailedKeeps ==
  ASSUME WorkflowInv, NEW e \in Executors, FindFailed(e)
  PROVE  WorkflowInv'
<1> USE DEF Procs
<1>1. /\ proc[e] \in ProcState
      /\ UNCHANGED <<nodeStatus, nodeJob, wf, job, routed>>
  BY States DEF FindFailed
<1>2. PICK n, s :
         /\ n \in Nodes \cup {None} /\ proc' = [proc EXCEPT ![e] = s]
         /\ s = Idle \/ s = At("fail", proc[e].job, n, {}, None, None)
  BY DEF FindFailed
<1>3. s \in ProcState /\ s.pc \in {"idle", "fail"}
  BY <1>1, <1>2, IdleStates DEF At, ProcState, Pcs
<1>4. StepSound(s)
  BY <1>3 DEF StepSound
<1> QED BY <1>1, <1>2, <1>3, <1>4, MoveOn

-----------------------------------------------------------------------------
(* Steps that write a node or the workflow *)

\* A step of e that leaves the jobs alone.
LEMMA JobsAlone ==
  ASSUME WorkflowInv, NEW e \in Procs, NEW s \in ProcState,
         proc' = [proc EXCEPT ![e] = s], StepSound(s), s.pc # "run",
         nodeStatus' \in [Nodes -> NodeStatus],
         nodeJob' \in [Nodes -> Jobs \cup {None}], wf' \in WorkflowStatus,
         NodesSound', CompletedTruthfully', UNCHANGED <<job, routed>>
  PROVE  WorkflowInv'
<1>1. /\ JobsKept /\ JobsSound' /\ RunsKept(e)
      /\ job' \in [Jobs -> JobRow]
  BY JobsUnchanged
<1>2. StepSound(s)'
  BY DEF StepSound, Ready, Done
<1> QED BY <1>1, <1>2, StepOfOne

LEMMA MarkCompletedKeeps ==
  ASSUME WorkflowInv, NEW e \in Executors, MarkCompleted(e)
  PROVE  WorkflowInv'
<1> USE DEF Procs
<1>1. /\ proc[e] \in ProcState /\ StepSound(proc[e]) /\ proc[e].pc = "mark"
      /\ UNCHANGED <<nodeJob, wf, job, routed>>
  BY States DEF WorkflowInv, MarkCompleted
<1>2. PICK n : n = proc[e].node
  OBVIOUS
<1>3. n \in Nodes /\ Done(n)
  BY <1>1, <1>2 DEF StepSound
<1>4. PICK s : s = At("check", proc[e].job, n, {d \in Nodes : n \in Deps[d]}, None, None)
  OBVIOUS
<1>5. /\ proc' = [proc EXCEPT ![e] = s]
      /\ nodeStatus' = [nodeStatus EXCEPT ![n] = "COMPLETED"]
  BY <1>2, <1>4 DEF MarkCompleted
<1>6. s \in ProcState /\ s.pc = "check"
  BY <1>1, <1>3, <1>4 DEF At, ProcState, Pcs
<1>7. StepSound(s)
  BY <1>6 DEF StepSound
<1>8. NodesSound'
  BY <1>1, <1>3, <1>5 DEF WorkflowInv, TypeOK, NodesSound, Ready, Done
<1>9. /\ nodeStatus' \in [Nodes -> NodeStatus] /\ wf' \in WorkflowStatus
      /\ nodeJob' \in [Nodes -> Jobs \cup {None}] /\ CompletedTruthfully'
  BY <1>1, <1>5 DEF WorkflowInv, TypeOK, NodeStatus, CompletedTruthfully, Done
<1> QED BY <1>1, <1>5, <1>6, <1>7, <1>8, <1>9, JobsAlone

LEMMA SetReadyKeeps ==
  ASSUME WorkflowInv, NEW e \in Executors, SetReady(e)
  PROVE  WorkflowInv'
<1> USE DEF Procs
<1>1. /\ proc[e] \in ProcState /\ StepSound(proc[e]) /\ proc[e].pc = "ready"
      /\ UNCHANGED <<nodeJob, wf, job, routed>>
  BY States DEF WorkflowInv, SetReady
<1>2. PICK n : n = proc[e].cur
  OBVIOUS
<1>3. n \in Nodes /\ Ready(n)
  BY <1>1, <1>2 DEF StepSound
<1>4. PICK s : s = At("check", proc[e].job, proc[e].node, proc[e].todo \ {n}, None, None)
  OBVIOUS
<1>5. /\ proc' = [proc EXCEPT ![e] = s]
      /\ nodeStatus' = [nodeStatus EXCEPT ![n] = "READY"]
  BY <1>2, <1>4 DEF SetReady
<1>6. s \in ProcState /\ s.pc = "check"
  BY <1>1, <1>4 DEF At, ProcState, Pcs
<1>7. StepSound(s)
  BY <1>6 DEF StepSound
<1>8. NodesSound'
  BY <1>1, <1>3, <1>5 DEF WorkflowInv, TypeOK, NodesSound, Ready, Done
<1>9. /\ nodeStatus' \in [Nodes -> NodeStatus] /\ wf' \in WorkflowStatus
      /\ nodeJob' \in [Nodes -> Jobs \cup {None}] /\ CompletedTruthfully'
  BY <1>1, <1>5 DEF WorkflowInv, TypeOK, NodeStatus, CompletedTruthfully, Done
<1> QED BY <1>1, <1>5, <1>6, <1>7, <1>8, <1>9, JobsAlone

LEMMA LinkJobKeeps ==
  ASSUME WorkflowInv, NEW p \in Procs, LinkJob(p)
  PROVE  WorkflowInv'
<1>1. /\ proc[p] \in ProcState /\ StepSound(proc[p]) /\ proc[p].pc = "link"
      /\ UNCHANGED <<wf, job, routed>>
  BY States DEF WorkflowInv, LinkJob
<1>2. PICK n, j : n = proc[p].cur /\ j = proc[p].made
  OBVIOUS
<1>3. n \in Nodes /\ j \in Jobs /\ job[j].status # "absent" /\ job[j].purpose = n
  BY <1>1, <1>2 DEF StepSound
<1>4. PICK s : s = At("enqueue", proc[p].job, proc[p].node, proc[p].todo \ {n}, None, None)
  OBVIOUS
<1>5. /\ proc' = [proc EXCEPT ![p] = s]
      /\ nodeStatus' = [nodeStatus EXCEPT ![n] = "RUNNING"]
      /\ nodeJob' = [nodeJob EXCEPT ![n] = j]
  BY <1>2, <1>4 DEF LinkJob
<1>6. s \in ProcState /\ s.pc = "enqueue" /\ s.todo = proc[p].todo \ {n}
  BY <1>1, <1>4 DEF At, ProcState, Pcs
<1>7. StepSound(s)
  BY <1>1, <1>6 DEF StepSound
<1>8. NodesSound'
  BY <1>1, <1>3, <1>5 DEF WorkflowInv, TypeOK, NodesSound, Ready, Done
<1>9. /\ nodeStatus' \in [Nodes -> NodeStatus] /\ wf' \in WorkflowStatus
      /\ nodeJob' \in [Nodes -> Jobs \cup {None}] /\ CompletedTruthfully'
  BY <1>1, <1>3, <1>5 DEF WorkflowInv, TypeOK, NodeStatus, CompletedTruthfully, Done
<1> QED BY <1>1, <1>5, <1>6, <1>7, <1>8, <1>9, JobsAlone

LEMMA FailNodeKeeps ==
  ASSUME WorkflowInv, NEW e \in Executors, FailNode(e)
  PROVE  WorkflowInv'
<1> USE DEF Procs
<1>1. /\ proc[e] \in ProcState /\ UNCHANGED <<nodeJob, wf, job, routed>>
  BY States DEF FailNode
<1>2. PICK n, s : /\ n = proc[e].node
                  /\ s = At("failwf", proc[e].job, proc[e].node, {}, None, None)
  OBVIOUS
<1>3. /\ proc' = [proc EXCEPT ![e] = s]
      /\ nodeStatus' = [nodeStatus EXCEPT ![n] = "FAILED"]
  BY <1>2 DEF FailNode
<1>4. s \in ProcState /\ s.pc = "failwf"
  BY <1>1, <1>2 DEF At, ProcState, Pcs
<1>5. StepSound(s)
  BY <1>4 DEF StepSound
<1>6. NodesSound'
  BY <1>1, <1>3 DEF WorkflowInv, TypeOK, NodesSound, Ready, Done
<1>7. nodeStatus' \in [Nodes -> NodeStatus]
  <2>1. nodeStatus \in [Nodes -> NodeStatus] /\ "FAILED" \in NodeStatus
    BY DEF WorkflowInv, TypeOK, NodeStatus
  <2> QED BY <1>3, <2>1
<1>8. /\ nodeJob' \in [Nodes -> Jobs \cup {None}] /\ wf' \in WorkflowStatus
      /\ CompletedTruthfully'
  BY <1>1 DEF WorkflowInv, TypeOK, CompletedTruthfully, Done
<1> QED BY <1>1, <1>3, <1>4, <1>5, <1>6, <1>7, <1>8, JobsAlone

LEMMA WorkflowWritten ==
  ASSUME WorkflowInv, NEW e \in Executors, CloseWorkflow(e) \/ FailWorkflow(e)
  PROVE  WorkflowInv'
<1> USE DEF Procs
<1>1. /\ StepSound(proc[e]) /\ proc' = [proc EXCEPT ![e] = Idle]
      /\ UNCHANGED <<nodeStatus, nodeJob, job, routed>> /\ wf' \in WorkflowStatus
      /\ \/ wf' = "COMPLETED" /\ proc[e].pc = "close"
         \/ wf' = "FAILED"
  BY DEF WorkflowInv, CloseWorkflow, FailWorkflow, WorkflowStatus
<1>2. CompletedTruthfully'
  BY <1>1 DEF StepSound, CompletedTruthfully, Done
<1>3. NodesSound' /\ nodeStatus' \in [Nodes -> NodeStatus]
      /\ nodeJob' \in [Nodes -> Jobs \cup {None}]
  BY <1>1 DEF WorkflowInv, TypeOK, NodesSound, Ready, Done
<1> QED BY <1>1, <1>2, <1>3, IdleStates, JobsAlone

-----------------------------------------------------------------------------
(* Steps that write a job *)

\* A row that a job may have once it is created.
RowSound(r) ==
    /\ r \in JobRow /\ r.status # "absent"
    /\ r.status = "QUEUED" => r.attempts < MaxAttempts

\* A step of e that changes no node and not the workflow; the row of j becomes r.
LEMMA JobWritten ==
  ASSUME WorkflowInv, NEW e \in Procs, NEW s \in ProcState, NEW j \in Jobs, NEW r, RowSound(r),
         proc' = [proc EXCEPT ![e] = s], StepSound(s)',
         job' = [job EXCEPT ![j] = r], job[j].status # "COMPLETED",
         \A p \in Procs \ {e} : proc[p].pc = "run" => proc[p].job # j,
         s.pc = "run" => s.job = j,
         \/ job[j].status = "absent" /\ r.purpose \in Nodes /\ Ready(r.purpose)
         \/ job[j].status # "absent" /\ r.purpose = job[j].purpose,
         UNCHANGED <<nodeStatus, nodeJob, wf, routed>>
  PROVE  WorkflowInv'
<1> USE DEF RowSound
<1>1. /\ job' \in [Jobs -> JobRow] /\ job'[j] = r
      /\ \A i \in Jobs \ {j} : job'[i] = job[i]
  BY DEF WorkflowInv, TypeOK, JobRow, JobStatus
<1>2. JobsKept
  BY <1>1 DEF JobsKept
<1>3. RunsKept(e)
  BY <1>1 DEF RunsKept, WorkflowInv, StepSound
<1>4. r.purpose \in Nodes /\ Ready(r.purpose)
  BY DEF WorkflowInv, JobsSound
<1>5. Ready(r.purpose)'
  BY <1>2, <1>4, ReadyIsFinal DEF Ready, Done
<1>6. JobsSound'
  <2> SUFFICES ASSUME NEW i \in Jobs
      PROVE  /\ job'[i].status = "QUEUED" => job'[i].attempts < MaxAttempts
             /\ job'[i].status # "absent" =>
                   job'[i].purpose \in Nodes /\ Ready(job[i].purpose)'
    BY DEF JobsSound
  <2>1. CASE i = j
    BY <1>1, <1>4, <1>5, <2>1 DEF Ready, Done
  <2>2. CASE i # j
    <3>1. job'[i] = job[i]
      BY <1>1, <2>2
    <3>2. job[i].status # "absent" => job[i].purpose \in Nodes /\ Ready(job[i].purpose)
      BY DEF WorkflowInv, JobsSound
    <3>3. job[i].status # "absent" => Ready(job[i].purpose)'
      <4> SUFFICES ASSUME job[i].status # "absent" PROVE Ready(job[i].purpose)'
        OBVIOUS
      <4>1. PICK m \in Nodes : m = job[i].purpose
        BY <3>2
      <4>2. Ready(m)'
        BY <1>2, <3>2, <4>1, ReadyIsFinal
      <4> QED BY <3>1, <4>1, <4>2 DEF Ready, Done
    <3> QED BY <3>1, <3>2, <3>3 DEF WorkflowInv, JobsSound
  <2> QED BY <2>1, <2>2
<1>7. NodesSound'
  <2> SUFFICES ASSUME NEW n \in Nodes
      PROVE  /\ nodeStatus[n] = "COMPLETED" => Done(n)'
             /\ nodeStatus[n] = "READY" => Ready(n)'
             /\ nodeJob[n] # None => /\ job'[nodeJob[n]].status # "absent"
                                     /\ job'[nodeJob[n]].purpose = n
    BY DEF NodesSound
  <2>1. /\ nodeStatus[n] = "COMPLETED" => Done(n)
        /\ nodeStatus[n] = "READY" => Ready(n)
        /\ nodeJob[n] # None => /\ nodeJob[n] \in Jobs
                                /\ job[nodeJob[n]].status # "absent"
                                /\ job[nodeJob[n]].purpose = n
    BY DEF WorkflowInv, TypeOK, NodesSound
  <2> QED BY <1>2, <2>1, DoneIsFinal, ReadyIsFinal DEF JobsKept
<1>8. CompletedTruthfully'
  BY <1>2, DoneIsFinal DEF WorkflowInv, CompletedTruthfully
<1>9. /\ nodeStatus' \in [Nodes -> NodeStatus] /\ wf' \in WorkflowStatus
      /\ nodeJob' \in [Nodes -> Jobs \cup {None}]
  BY DEF WorkflowInv, TypeOK
<1> QED BY <1>1, <1>2, <1>3, <1>6, <1>7, <1>8, <1>9, StepOfOne

LEMMA ClaimKeeps ==
  ASSUME WorkflowInv, NEW e \in Executors, NEW j \in Jobs, Claim(e, j)
  PROVE  WorkflowInv'
<1> USE DEF Procs
<1>1. /\ job[j] \in JobRow /\ job[j].status = "QUEUED" /\ job[j].attempts < MaxAttempts
      /\ UNCHANGED <<nodeStatus, nodeJob, wf, routed>>
  BY DEF WorkflowInv, TypeOK, JobsSound, JobRow, JobStatus, Claim
<1>2. PICK r : r = Row("RUNNING", job[j].attempts + 1, job[j].purpose)
  OBVIOUS
<1>3. PICK s : s = At("run", j, None, {}, None, None)
  OBVIOUS
<1>4. job' = [job EXCEPT ![j] = r] /\ proc' = [proc EXCEPT ![e] = s]
  BY <1>2, <1>3 DEF Claim
<1>5. RowSound(r) /\ r.status = "RUNNING" /\ r.purpose = job[j].purpose
  BY <1>1, <1>2, AttemptAssumption DEF Row, JobRow, JobStatus, RowSound
<1>6. s \in ProcState /\ s.pc = "run" /\ s.job = j
  BY <1>3 DEF At, ProcState, Pcs
<1>7. job'[j] = r
  BY <1>4 DEF WorkflowInv, TypeOK
<1>8. StepSound(s)'
  BY <1>5, <1>6, <1>7 DEF StepSound
<1>9. \A p \in Procs \ {e} : proc[p].pc = "run" => proc[p].job # j
  BY <1>1 DEF WorkflowInv, StepSound
<1> QED BY <1>1, <1>4, <1>5, <1>6, <1>8, <1>9, JobWritten

\* An execution of j, by e alone, ends, in whichever way.
LEMMA RunEnds ==
  ASSUME WorkflowInv, NEW e \in Procs, NEW j \in Jobs, job[j].status = "RUNNING",
         \A p \in Procs \ {e} : proc[p].pc = "run" => proc[p].job # j,
         NEW r, RowSound(r), NEW s \in ProcState,
         job' = [job EXCEPT ![j] = r] /\ proc' = [proc EXCEPT ![e] = s],
         r.purpose = job[j].purpose,
         \/ s.pc = "completed" /\ s.job = j /\ r.status = "COMPLETED"
         \/ s.pc \in {"failed", "dead"},
         UNCHANGED <<nodeStatus, nodeJob, wf, routed>>
  PROVE  WorkflowInv'
<1>1. job'[j] = r
  BY DEF WorkflowInv, TypeOK
<1>2. StepSound(s)'
  BY <1>1 DEF StepSound
<1>3. /\ s.pc = "run" => s.job = j
      /\ job[j].status # "COMPLETED"
      /\ \/ job[j].status = "absent" /\ r.purpose \in Nodes /\ Ready(r.purpose)
         \/ job[j].status # "absent" /\ r.purpose = job[j].purpose
  OBVIOUS
<1>4. \A p \in Procs \ {e} : proc[p].pc = "run" => proc[p].job # j
  OBVIOUS
<1> QED BY <1>2, <1>3, <1>4, JobWritten

LEMMA RunningRow ==
  ASSUME WorkflowInv, NEW e \in Procs, proc[e].pc = "run", NEW j, j = proc[e].job
  PROVE  /\ j \in Jobs /\ job[j] \in JobRow /\ job[j].status = "RUNNING"
         /\ \A p \in Procs \ {e} : proc[p].pc = "run" => proc[p].job # j
BY DEF WorkflowInv, TypeOK, StepSound, JobRow, JobStatus, Alone

LEMMA SucceedKeeps ==
  ASSUME WorkflowInv, NEW e \in Executors, Succeed(e)
  PROVE  WorkflowInv'
<1> USE DEF Procs
<1>1. proc[e].pc = "run" /\ UNCHANGED <<nodeStatus, nodeJob, wf, routed>>
  BY DEF Succeed
<1>2. PICK j : j = proc[e].job
  OBVIOUS
<1>3. /\ j \in Jobs /\ job[j] \in JobRow /\ job[j].status = "RUNNING"
      /\ \A p \in Procs \ {e} : proc[p].pc = "run" => proc[p].job # j
  BY <1>1, <1>2, RunningRow
<1>4. PICK r, s : /\ r = Row("COMPLETED", job[j].attempts, job[j].purpose)
                  /\ s = At("completed", j, None, {}, None, None)
  OBVIOUS
<1>5. job' = [job EXCEPT ![j] = r] /\ proc' = [proc EXCEPT ![e] = s]
  BY <1>2, <1>4 DEF Succeed
<1>6. RowSound(r) /\ r.status = "COMPLETED" /\ r.purpose = job[j].purpose
  BY <1>3, <1>4 DEF Row, JobRow, JobStatus, RowSound
<1>7. s \in ProcState /\ s.pc = "completed" /\ s.job = j
  BY <1>3, <1>4 DEF At, ProcState, Pcs
<1> QED BY <1>1, <1>3, <1>5, <1>6, <1>7, RunEnds

LEMMA FailedRow ==
  ASSUME NEW j \in Jobs, job[j] \in JobRow,
         NEW r, r = Row(AfterFailure(j), job[j].attempts, job[j].purpose)
  PROVE  RowSound(r) /\ r.purpose = job[j].purpose
BY DEF Row, AfterFailure, JobRow, JobStatus, RowSound

LEMMA FailKeeps ==
  ASSUME WorkflowInv, NEW e \in Executors, Fail(e)
  PROVE  WorkflowInv'
<1> USE DEF Procs
<1>1. proc[e].pc = "run" /\ UNCHANGED <<nodeStatus, nodeJob, wf, routed>>
  BY DEF Fail
<1>2. PICK j : j = proc[e].job
  OBVIOUS
<1>3. /\ j \in Jobs /\ job[j] \in JobRow /\ job[j].status = "RUNNING"
      /\ \A p \in Procs \ {e} : proc[p].pc = "run" => proc[p].job # j
  BY <1>1, <1>2, RunningRow
<1>4. PICK r, s : /\ r = Row(AfterFailure(j), job[j].attempts, job[j].purpose)
                  /\ s = At("failed", j, None, {}, None, None)
  OBVIOUS
<1>5. job' = [job EXCEPT ![j] = r] /\ proc' = [proc EXCEPT ![e] = s]
  BY <1>2, <1>4 DEF Fail
<1>6. RowSound(r) /\ r.purpose = job[j].purpose
  BY <1>3, <1>4, FailedRow
<1>7. s \in ProcState /\ s.pc = "failed"
  BY <1>3, <1>4 DEF At, ProcState, Pcs
<1> QED BY <1>1, <1>3, <1>5, <1>6, <1>7, RunEnds

LEMMA CreateJobKeeps ==
  ASSUME WorkflowInv, NEW p \in Procs, NEW n \in Nodes, NEW j \in Jobs, CreateJob(p, n, j)
  PROVE  WorkflowInv'
<1>1. /\ proc[p] \in ProcState /\ StepSound(proc[p])
      /\ proc[p].pc = "enqueue" /\ n \in proc[p].todo /\ job[j].status = "absent"
      /\ UNCHANGED <<nodeStatus, nodeJob, wf, routed>>
  BY States DEF WorkflowInv, CreateJob
<1>2. PICK r, s : /\ r = Row("QUEUED", 0, n)
                  /\ s = At("link", proc[p].job, proc[p].node, proc[p].todo, n, j)
  OBVIOUS
<1>3. job' = [job EXCEPT ![j] = r] /\ proc' = [proc EXCEPT ![p] = s]
  BY <1>2 DEF CreateJob
<1>4. RowSound(r) /\ r.status = "QUEUED" /\ r.purpose = n
  BY <1>2, AttemptAssumption DEF Row, JobRow, JobStatus, RowSound
<1>5. /\ s \in ProcState /\ s.pc = "link" /\ s.todo = proc[p].todo
      /\ s.cur = n /\ s.made = j
  BY <1>1, <1>2 DEF At, ProcState, Pcs
<1>6. Ready(n) /\ \A m \in s.todo : m \in Nodes /\ Ready(m)
  BY <1>1, <1>5 DEF StepSound, ProcState
<1>7. JobsKept /\ job'[j] = r
  BY <1>1, <1>3 DEF JobsKept, WorkflowInv, TypeOK
<1>8. \A m \in s.todo : Ready(m)'
  BY <1>6, <1>7, ReadyIsFinal
<1>9. StepSound(s)'
  BY <1>4, <1>5, <1>7, <1>8 DEF StepSound
<1>10. \A q \in Procs \ {p} : proc[q].pc = "run" => proc[q].job # j
  BY <1>1 DEF WorkflowInv, StepSound
<1>11. /\ s.pc # "run" /\ job[j].status # "COMPLETED"
       /\ r.purpose \in Nodes /\ Ready(r.purpose)
  BY <1>1, <1>4, <1>5, <1>6
<1> QED BY <1>1, <1>3, <1>4, <1>5, <1>9, <1>10, <1>11, JobWritten

LEMMA CrashKeeps ==
  ASSUME WorkflowInv, NEW p \in Procs, Crash(p)
  PROVE  WorkflowInv'
<1>1. PICK s : s = At("dead", None, None, {}, None, None)
  OBVIOUS
<1>2. /\ s \in ProcState /\ StepSound(s) /\ s.pc = "dead"
      /\ proc' = [proc EXCEPT ![p] = s]
      /\ UNCHANGED <<nodeStatus, nodeJob, wf, routed>>
  BY <1>1, IdleStates DEF Crash, At
<1>3. CASE proc[p].pc # "run"
  BY <1>2, <1>3, MoveOn DEF Crash
<1>4. CASE proc[p].pc = "run"
  <2>1. PICK j : j = proc[p].job
    OBVIOUS
  <2>2. /\ j \in Jobs /\ job[j] \in JobRow /\ job[j].status = "RUNNING"
        /\ \A q \in Procs \ {p} : proc[q].pc = "run" => proc[q].job # j
    BY <1>4, <2>1, RunningRow
  <2>3. PICK r : r = Row(AfterFailure(j), job[j].attempts, job[j].purpose)
    OBVIOUS
  <2>4. job' = [job EXCEPT ![j] = r]
    BY <1>4, <2>1, <2>3 DEF Crash
  <2>5. RowSound(r) /\ r.purpose = job[j].purpose
    BY <2>2, <2>3, FailedRow
  <2> QED BY <1>2, <2>2, <2>4, <2>5, RunEnds
<1> QED BY <1>3, <1>4

-----------------------------------------------------------------------------
(* The theorems *)

LEMMA InitSound == Init => WorkflowInv
<1> SUFFICES ASSUME Init PROVE WorkflowInv
  OBVIOUS
<1>1. TypeOK
  <2>1. proc \in [Procs -> ProcState]
    BY DEF Init, Idle, At, ProcState, Pcs
  <2> QED BY <2>1, AttemptAssumption DEF Init, TypeOK, ProcState, Pcs, NodeStatus,
                                         WorkflowStatus, Row
<1>2. JobsSound
  BY DEF Init, JobsSound, Row
<1>3. NodesSound
  BY DEF Init, NodesSound, Ready
<1>4. \A p \in Procs : StepSound(proc[p])
  BY DEF Init, StepSound, Idle, At
<1>5. Alone
  BY DEF Init, Alone, Idle, At
<1>6. CompletedTruthfully
  BY DEF Init, CompletedTruthfully
<1> QED BY <1>1, <1>2, <1>3, <1>4, <1>5, <1>6 DEF WorkflowInv

LEMMA StepSoundness == WorkflowInv /\ [Next]_vars => WorkflowInv'
<1> SUFFICES ASSUME WorkflowInv, [Next]_vars PROVE WorkflowInv'
  OBVIOUS
<1>1. ASSUME NEW e \in Executors, ExecuteJob(e) PROVE WorkflowInv'
  BY <1>1, ClaimKeeps, SucceedKeeps, FailKeeps DEF ExecuteJob
<1>2. ASSUME NEW e \in Executors, OnJobCompleted(e) PROVE WorkflowInv'
  BY <1>2, FindCompletedKeeps, MarkCompletedKeeps, CheckDependentKeeps, SetReadyKeeps,
     WorkflowWritten DEF OnJobCompleted
<1>3. ASSUME NEW e \in Executors, OnJobFailed(e) PROVE WorkflowInv'
  BY <1>3, FindFailedKeeps, FailNodeKeeps, WorkflowWritten DEF OnJobFailed
<1>4. ASSUME NEW p \in Procs, Enqueue(p) PROVE WorkflowInv'
  BY <1>4, ReadReadyKeeps, SkipNodeKeeps, CreateJobKeeps, LinkJobKeeps, CountPendingKeeps
     DEF Enqueue
<1>5. CASE UNCHANGED vars
  BY <1>5 DEF vars, WorkflowInv, TypeOK, JobsSound, NodesSound, StepSound, Alone,
              CompletedTruthfully, Ready, Done
<1> QED BY <1>1, <1>2, <1>3, <1>4, <1>5, CrashKeeps DEF Next

\* What rows and workers hold was so and stays so: a node COMPLETED is done, one
\* READY, or about to be, has all its dependencies done, in every interleaving of
\* callbacks and crashes.
THEOREM WorkflowInvariant == Spec => []WorkflowInv
<1> QED BY InitSound, StepSoundness, PTL DEF Spec

\* No job is created for a node before the nodes it depends on are done.
THEOREM NoJobBeforeItsTime == Spec => []DependenciesFirst
<1>1. WorkflowInv => DependenciesFirst
  BY DEF WorkflowInv, JobsSound, Ready, DependenciesFirst
<1> QED BY <1>1, WorkflowInvariant, PTL

\* A workflow that says COMPLETED has done all its nodes.
THEOREM NeverClosedEarly == Spec => []CompletedTruthfully
<1>1. WorkflowInv => CompletedTruthfully
  BY DEF WorkflowInv
<1> QED BY <1>1, WorkflowInvariant, PTL

-----------------------------------------------------------------------------
(* No node is forgotten *)

\* A process at s is going to check n, or to make a job for n if n is ready.
Checks(s, n) == s.pc \in {"check", "ready"} /\ n \in s.todo
Serves(s, n) ==
    \/ s.pc \in {"check", "ready"}
    \/ s.pc \in {"enqueue", "link"} /\ n \in s.todo

\* The nodes that somebody must look after.
Overdue(n) == nodeStatus[n] = "PENDING" /\ AllComplete(n)
Waiting == Unserved \cap routed

\* A step of e from its state to s: e drops no node that needs it, and nobody else
\* has to know of one that comes to need somebody.
LEMMA LooksAfter ==
  ASSUME WorkflowInv, NodesNotForgotten, NEW e \in Procs, NEW s,
         proc' = [proc EXCEPT ![e] = s], proc[e].pc # "dead",
         \A n \in Nodes : Overdue(n)' => Checks(s, n) \/ (Overdue(n) /\ ~Checks(proc[e], n)),
         \A n \in Waiting' : Serves(s, n) \/ (n \in Waiting /\ ~Serves(proc[e], n))
  PROVE  NodesNotForgotten'
<1> SUFFICES ASSUME AllAlive'
             PROVE  /\ \A n \in Nodes : Overdue(n)' => \E p \in Procs : Checks(proc'[p], n)
                    /\ \A n \in Waiting' : \E p \in Procs : Serves(proc'[p], n)
  BY DEF NodesNotForgotten, Overdue, Waiting, Checks, Serves, AllComplete
<1>1. proc'[e] = s /\ \A p \in Procs \ {e} : proc'[p] = proc[p]
  BY DEF WorkflowInv, TypeOK
<1>2. AllAlive
  BY <1>1 DEF AllAlive
<1>3. /\ \A n \in Nodes : Overdue(n) => \E p \in Procs : Checks(proc[p], n)
      /\ \A n \in Waiting : \E p \in Procs : Serves(proc[p], n)
  BY <1>2 DEF NodesNotForgotten, Overdue, Waiting, Checks, Serves
<1>4. ASSUME NEW n \in Nodes, Overdue(n)' PROVE \E p \in Procs : Checks(proc'[p], n)
  <2>1. CASE Checks(s, n)
    BY <2>1, <1>1
  <2>2. CASE Overdue(n) /\ ~Checks(proc[e], n)
    BY <2>2, <1>1, <1>3
  <2> QED BY <2>1, <2>2, <1>4
<1>5. ASSUME NEW n \in Waiting' PROVE \E p \in Procs : Serves(proc'[p], n)
  <2>1. CASE Serves(s, n)
    BY <2>1, <1>1
  <2>2. CASE n \in Waiting /\ ~Serves(proc[e], n)
    BY <2>2, <1>1, <1>3
  <2> QED BY <2>1, <2>2, <1>5
<1> QED BY <1>4, <1>5

\* Where no node becomes COMPLETED, PENDING or READY, or loses its job, none comes to
\* need somebody.
LEMMA NoNewNeed ==
  ASSUME WorkflowInv, nodeJob' = nodeJob, routed' = routed,
         \A n \in Nodes : nodeStatus'[n] \in {nodeStatus[n], "RUNNING", "FAILED"}
  PROVE  /\ \A n \in Nodes : Overdue(n)' => Overdue(n)
         /\ Waiting' \subseteq Waiting
<1>1. \A n \in Nodes : Deps[n] \subseteq Nodes
  BY NodeAssumption
<1> QED BY <1>1 DEF Overdue, AllComplete, Waiting, Unserved

\* Steps of a process that looks after no node.
LEMMA UnconcernedKeeps ==
  ASSUME WorkflowInv, NodesNotForgotten, NEW e \in Procs, NEW s,
         proc' = [proc EXCEPT ![e] = s],
         proc[e].pc \in {"idle", "run", "completed", "failed", "fail", "failwf", "close"},
         nodeJob' = nodeJob, routed' = routed,
         \A n \in Nodes : nodeStatus'[n] \in {nodeStatus[n], "RUNNING", "FAILED"}
  PROVE  NodesNotForgotten'
<1>1. /\ \A n \in Nodes : Overdue(n)' => Overdue(n)
      /\ Waiting' \subseteq Waiting
  BY NoNewNeed
<1>2. \A n : ~Checks(proc[e], n) /\ ~Serves(proc[e], n)
  BY DEF Checks, Serves
<1> QED BY <1>1, <1>2, LooksAfter

LEMMA MarkingForgetsNone ==
  ASSUME WorkflowInv, NodesNotForgotten, NEW e \in Executors, MarkCompleted(e)
  PROVE  NodesNotForgotten'
<1> USE DEF Procs
<1>1. PICK m, s : /\ m = proc[e].node
                  /\ s = At("check", proc[e].job, m, {d \in Nodes : m \in Deps[d]}, None, None)
  OBVIOUS
<1>2. /\ proc' = [proc EXCEPT ![e] = s] /\ proc[e].pc = "mark"
      /\ nodeStatus' = [nodeStatus EXCEPT ![m] = "COMPLETED"]
      /\ UNCHANGED <<nodeJob, routed>>
  BY <1>1 DEF MarkCompleted
<1>3. s.pc = "check" /\ s.todo = {d \in Nodes : m \in Deps[d]}
  BY <1>1 DEF At
<1>4. ASSUME NEW n \in Nodes, Overdue(n)', ~Checks(s, n) PROVE Overdue(n)
  <2>1. m \notin Deps[n] /\ Deps[n] \subseteq Nodes
    BY <1>3, <1>4, NodeAssumption DEF Checks
  <2>2. \A d \in Nodes : d # m => nodeStatus'[d] = nodeStatus[d]
    BY <1>2 DEF WorkflowInv, TypeOK
  <2>3. nodeStatus'[n] = nodeStatus[n]
    BY <1>2, <1>4, <2>2 DEF Overdue, WorkflowInv, TypeOK
  <2> QED BY <1>4, <2>1, <2>2, <2>3 DEF Overdue, AllComplete
<1>5. \A n : ~Checks(proc[e], n) /\ Serves(s, n)
  BY <1>2, <1>3 DEF Checks, Serves
<1> QED BY <1>2, <1>4, <1>5, LooksAfter

LEMMA CheckingForgetsNone ==
  ASSUME WorkflowInv, NodesNotForgotten, NEW e \in Executors, NEW d \in Nodes,
         CheckDependent(e, d)
  PROVE  NodesNotForgotten'
<1> USE DEF Procs
<1>1. PICK s : s = IF AllComplete(d)
                   THEN At("ready", proc[e].job, proc[e].node, proc[e].todo, d, None)
                   ELSE At("check", proc[e].job, proc[e].node, proc[e].todo \ {d}, None, None)
  OBVIOUS
<1>2. /\ proc' = [proc EXCEPT ![e] = s] /\ proc[e].pc = "check"
      /\ UNCHANGED <<nodeStatus, nodeJob, routed>>
  BY <1>1 DEF CheckDependent
<1>3. /\ s.pc \in {"check", "ready"}
      /\ s.todo = IF AllComplete(d) THEN proc[e].todo ELSE proc[e].todo \ {d}
  BY <1>1 DEF At
<1>4. \A n \in Nodes : Overdue(n)' => Overdue(n)
  BY <1>2, NoNewNeed
<1>5. ASSUME NEW n \in Nodes, Overdue(n), Checks(proc[e], n) PROVE Checks(s, n)
  BY <1>3, <1>5 DEF Checks, Overdue
<1>6. \A n : Serves(s, n)
  BY <1>3 DEF Serves
<1> QED BY <1>2, <1>4, <1>5, <1>6, LooksAfter

LEMMA ReadyingForgetsNone ==
  ASSUME WorkflowInv, NodesNotForgotten, NEW e \in Executors, SetReady(e)
  PROVE  NodesNotForgotten'
<1> USE DEF Procs
<1>1. PICK m, s : /\ m = proc[e].cur
                  /\ s = At("check", proc[e].job, proc[e].node, proc[e].todo \ {m}, None, None)
  OBVIOUS
<1>2. /\ proc' = [proc EXCEPT ![e] = s] /\ proc[e].pc = "ready"
      /\ nodeStatus' = [nodeStatus EXCEPT ![m] = "READY"]
      /\ UNCHANGED <<nodeJob, routed>>
  BY <1>1 DEF SetReady
<1>3. s.pc = "check" /\ s.todo = proc[e].todo \ {m}
  BY <1>1 DEF At
<1>4. ASSUME NEW n \in Nodes, Overdue(n)' PROVE Overdue(n) /\ n # m
  <2>1. \A d \in Nodes : nodeStatus'[d] = IF d = m THEN "READY" ELSE nodeStatus[d]
    BY <1>2 DEF WorkflowInv, TypeOK
  <2>2. Deps[n] \subseteq Nodes
    BY NodeAssumption
  <2> QED BY <1>4, <2>1, <2>2 DEF Overdue, AllComplete
<1>5. \A n \in Nodes : Overdue(n)' => Checks(s, n) \/ (Overdue(n) /\ ~Checks(proc[e], n))
  BY <1>2, <1>3, <1>4 DEF Checks
<1>6. \A n : Serves(s, n)
  BY <1>3 DEF Serves
<1> QED BY <1>2, <1>5, <1>6, LooksAfter

LEMMA EnqueueForgetsNone ==
  ASSUME WorkflowInv, NodesNotForgotten, NEW p \in Procs, Enqueue(p)
  PROVE  NodesNotForgotten'
<1>1. CASE ReadReady(p)
  <2>1. PICK s : s = At("enqueue", proc[p].job, proc[p].node, Unserved, None, None)
    OBVIOUS
  <2>2. /\ proc' = [proc EXCEPT ![p] = s] /\ proc[p].pc = "check" /\ proc[p].todo = {}
        /\ UNCHANGED <<nodeStatus, nodeJob, routed>>
    BY <1>1, <2>1 DEF ReadReady
  <2>3. s.pc = "enqueue" /\ s.todo = Unserved
    BY <2>1 DEF At
  <2>4. /\ \A n \in Nodes : Overdue(n)' => Overdue(n)
        /\ Waiting' \subseteq Waiting
    BY <2>2, NoNewNeed
  <2>5. \A n : ~Checks(proc[p], n)
    BY <2>2 DEF Checks
  <2>6. \A n \in Waiting : Serves(s, n)
    BY <2>3 DEF Waiting, Serves
  <2> QED BY <2>2, <2>4, <2>5, <2>6, LooksAfter
<1>2. ASSUME NEW m \in Nodes, SkipNode(p, m) PROVE NodesNotForgotten'
  <2>1. PICK s : s = At("enqueue", proc[p].job, proc[p].node, proc[p].todo \ {m}, None, None)
    OBVIOUS
  <2>2. /\ proc' = [proc EXCEPT ![p] = s] /\ proc[p].pc = "enqueue" /\ m \notin routed
        /\ UNCHANGED <<nodeStatus, nodeJob, routed>>
    BY <1>2, <2>1 DEF SkipNode
  <2>3. s.pc = "enqueue" /\ s.todo = proc[p].todo \ {m}
    BY <2>1 DEF At
  <2>4. /\ \A n \in Nodes : Overdue(n)' => Overdue(n)
        /\ Waiting' \subseteq Waiting
    BY <2>2, NoNewNeed
  <2>5. \A n : ~Checks(proc[p], n)
    BY <2>2 DEF Checks
  <2>6. \A n \in Waiting : Serves(proc[p], n) => Serves(s, n)
    BY <2>2, <2>3 DEF Waiting, Serves
  <2> QED BY <2>2, <2>4, <2>5, <2>6, LooksAfter
<1>3. ASSUME NEW m \in Nodes, NEW j \in Jobs, CreateJob(p, m, j) PROVE NodesNotForgotten'
  <2>1. PICK s : s = At("link", proc[p].job, proc[p].node, proc[p].todo, m, j)
    OBVIOUS
  <2>2. /\ proc' = [proc EXCEPT ![p] = s] /\ proc[p].pc = "enqueue"
        /\ UNCHANGED <<nodeStatus, nodeJob, routed>>
    BY <1>3, <2>1 DEF CreateJob
  <2>3. s.pc = "link" /\ s.todo = proc[p].todo
    BY <2>1 DEF At
  <2>4. /\ \A n \in Nodes : Overdue(n)' => Overdue(n)
        /\ Waiting' \subseteq Waiting
    BY <2>2, NoNewNeed
  <2>5. \A n : ~Checks(proc[p], n) /\ (Serves(proc[p], n) => Serves(s, n))
    BY <2>2, <2>3 DEF Checks, Serves
  <2> QED BY <2>2, <2>4, <2>5, LooksAfter
<1>4. CASE LinkJob(p)
  <2>1. PICK m, s : /\ m = proc[p].cur
                    /\ s = At("enqueue", proc[p].job, proc[p].node, proc[p].todo \ {m}, None, None)
    OBVIOUS
  <2>2. /\ proc' = [proc EXCEPT ![p] = s] /\ proc[p].pc = "link"
        /\ nodeStatus' = [nodeStatus EXCEPT ![m] = "RUNNING"]
        /\ nodeJob' = [nodeJob EXCEPT ![m] = proc[p].made] /\ routed' = routed
    BY <1>4, <2>1 DEF LinkJob
  <2>3. s.pc = "enqueue" /\ s.todo = proc[p].todo \ {m}
    BY <2>1 DEF At
  <2>4. ASSUME NEW n \in Nodes
        PROVE  /\ nodeStatus'[n] = IF n = m THEN "RUNNING" ELSE nodeStatus[n]
               /\ n # m => nodeJob'[n] = nodeJob[n]
               /\ Deps[n] \subseteq Nodes
    BY <2>2, NodeAssumption DEF WorkflowInv, TypeOK
  <2>5. \A n \in Nodes : Overdue(n)' => Overdue(n)
    BY <2>4 DEF Overdue, AllComplete
  <2>6. \A n \in Waiting' : n \in Waiting /\ n # m
    BY <2>2, <2>4 DEF Waiting, Unserved
  <2>7. \A n : ~Checks(proc[p], n) /\ (Serves(proc[p], n) /\ n # m => Serves(s, n))
    BY <2>2, <2>3 DEF Checks, Serves
  <2> QED BY <2>2, <2>5, <2>6, <2>7, LooksAfter
<1>5. CASE CountPending(p)
  <2>1. PICK s : s = IF p # Creator /\ Pending = {}
                     THEN At("close", proc[p].job, proc[p].node, {}, None, None) ELSE Idle
    OBVIOUS
  <2>2. /\ proc' = [proc EXCEPT ![p] = s] /\ proc[p].pc = "enqueue" /\ proc[p].todo = {}
        /\ UNCHANGED <<nodeStatus, nodeJob, routed>>
    BY <1>5, <2>1 DEF CountPending
  <2>3. /\ \A n \in Nodes : Overdue(n)' => Overdue(n)
        /\ Waiting' \subseteq Waiting
    BY <2>2, NoNewNeed
  <2>4. \A n : ~Checks(proc[p], n) /\ ~Serves(proc[p], n)
    BY <2>2 DEF Checks, Serves
  <2> QED BY <2>2, <2>3, <2>4, LooksAfter
<1> QED BY <1>1, <1>2, <1>3, <1>4, <1>5 DEF Enqueue

LEMMA ForgetNext == WorkflowInv /\ NodesNotForgotten /\ [Next]_vars => NodesNotForgotten'
<1> SUFFICES ASSUME WorkflowInv, NodesNotForgotten, [Next]_vars PROVE NodesNotForgotten'
  OBVIOUS
<1>1. ASSUME NEW e \in Executors, ExecuteJob(e) \/ OnJobFailed(e) PROVE NodesNotForgotten'
  <2>1. PICK s : proc' = [proc EXCEPT ![e] = s]
    BY <1>1 DEF ExecuteJob, OnJobFailed, Claim, Succeed, Fail, FindFailed, FailNode, FailWorkflow
  <2>2. proc[e].pc \in {"idle", "run", "failed", "fail", "failwf"} /\ e \in Procs
    BY <1>1 DEF ExecuteJob, OnJobFailed, Claim, Succeed, Fail, FindFailed, FailNode, FailWorkflow,
       Procs
  <2>3. nodeJob' = nodeJob /\ routed' = routed
    BY <1>1 DEF ExecuteJob, OnJobFailed, Claim, Succeed, Fail, FindFailed, FailNode, FailWorkflow
  <2>4. \A n \in Nodes : nodeStatus'[n] \in {nodeStatus[n], "RUNNING", "FAILED"}
    BY <1>1 DEF ExecuteJob, OnJobFailed, Claim, Succeed, Fail, FindFailed, FailNode, FailWorkflow,
       WorkflowInv, TypeOK
  <2> QED BY <2>1, <2>2, <2>3, <2>4, UnconcernedKeeps
<1>2. ASSUME NEW e \in Executors, FindCompleted(e) \/ CloseWorkflow(e) PROVE NodesNotForgotten'
  <2>1. PICK s : proc' = [proc EXCEPT ![e] = s]
    BY <1>2 DEF FindCompleted, CloseWorkflow
  <2>2. /\ proc[e].pc \in {"completed", "close"} /\ e \in Procs
        /\ UNCHANGED <<nodeStatus, nodeJob, routed>>
    BY <1>2 DEF FindCompleted, CloseWorkflow, Procs
  <2> QED BY <2>1, <2>2, UnconcernedKeeps
<1>3. ASSUME NEW e \in Executors, OnJobCompleted(e) PROVE NodesNotForgotten'
  BY <1>2, <1>3, MarkingForgetsNone, CheckingForgetsNone, ReadyingForgetsNone DEF OnJobCompleted
<1>4. ASSUME NEW p \in Procs, Crash(p) PROVE NodesNotForgotten'
  <2>1. proc'[p].pc = "dead"
    BY <1>4 DEF Crash, At, WorkflowInv, TypeOK
  <2> QED BY <2>1 DEF NodesNotForgotten, AllAlive
<1>5. CASE UNCHANGED vars
  BY <1>5 DEF vars, NodesNotForgotten, AllAlive, AllComplete, Unserved
<1> QED BY <1>1, <1>3, <1>4, <1>5, EnqueueForgetsNone DEF Next

\* Unless a process dies, every node whose time has come is on somebody's list: of
\* several workers that complete a join's dependencies at once the last to mark checks
\* it, and who makes a node ready reads the ready ones afterwards.
THEOREM NoNodeForgotten == Spec => []NodesNotForgotten
<1>1. Init => NodesNotForgotten
  <2> SUFFICES ASSUME Init PROVE NodesNotForgotten
    OBVIOUS
  <2>1. \A n \in Nodes : nodeStatus[n] = IF Deps[n] = {} THEN "READY" ELSE "PENDING"
    BY DEF Init
  <2>2. \A n \in Nodes : ~(nodeStatus[n] = "PENDING" /\ AllComplete(n))
    BY <2>1, NodeAssumption DEF AllComplete
  <2>3. Creator \in Procs /\ proc[Creator].pc = "check"
    BY DEF Init, At, Procs
  <2> QED BY <2>2, <2>3 DEF NodesNotForgotten
<1> QED BY <1>1, ForgetNext, WorkflowInvariant, PTL DEF Spec
-----------------------------------------------------------------------------
(* One job per node, where one executor serves a workflow with one entry *)

Serial ==
    /\ \A e, f \in Executors : e = f
    /\ \A m, n \in Nodes : Deps[m] = {} /\ Deps[n] = {} => m = n

HasJob(n) == \E j \in Jobs : job[j].status # "absent" /\ job[j].purpose = n

\* No node has its job yet.  Only the creator makes one, for the entry; if it dies
\* before the entry refers to that job, nobody is going to find the node.
Entering ==
    /\ \A n \in Nodes : nodeJob[n] = None /\ (nodeStatus[n] = "READY" => Deps[n] = {})
    /\ \A e \in Executors :
          proc[e].pc \in {"idle", "run", "completed", "failed", "fail", "failwf", "dead"}
    /\ proc[Creator].pc \in {"check", "enqueue", "link", "idle", "dead"}
    /\ proc[Creator].pc \in {"enqueue", "link"} => \A n \in proc[Creator].todo : Deps[n] = {}
    /\ proc[Creator].pc = "link" => Deps[proc[Creator].cur] = {}
    /\ \A j \in Jobs : job[j].status # "absent" =>
          /\ proc[Creator].pc \notin {"check", "enqueue"}
          /\ proc[Creator].pc = "link" => j = proc[Creator].made

\* The creator makes no more jobs.  A node that has a job refers to it, unless the
\* executor is about to link it or died before it did; and the executor makes jobs for
\* nodes without one only.
Going ==
    /\ \/ proc[Creator].pc \in {"idle", "dead"}
       \/ proc[Creator].pc = "enqueue" /\ proc[Creator].todo = {}
    /\ \A e \in Executors :
          /\ \A n \in Nodes : HasJob(n) /\ nodeJob[n] = None =>
                proc[e].pc = "dead" \/ (proc[e].pc = "link" /\ proc[e].cur = n)
          /\ proc[e].pc \in {"enqueue", "link"} =>
                \A n \in proc[e].todo : nodeJob[n] = None
          /\ proc[e].pc = "link" => nodeJob[proc[e].cur] = None

SerialInv ==
    /\ OneJobPerNode
    /\ \A j \in Jobs : job[j].status = "absent" => job[j].purpose = None
    /\ Entering \/ Going

\* Where jobs may change but none comes.
NoNewJob ==
    \A j \in Jobs : /\ job'[j].purpose = job[j].purpose
                    /\ job'[j].status = "absent" <=> job[j].status = "absent"

LEMMA JobsOfNodesKept ==
  ASSUME SerialInv, NoNewJob
  PROVE  /\ OneJobPerNode'
         /\ (\A j \in Jobs : job[j].status = "absent" => job[j].purpose = None)'
         /\ \A n : HasJob(n)' => HasJob(n)
BY DEF SerialInv, NoNewJob, OneJobPerNode, HasJob

\* A step of an executor while no node has its job.
LEMMA EnteringKept ==
  ASSUME WorkflowInv, SerialInv, Serial, Entering, NoNewJob, NEW e \in Executors, NEW s,
         proc' = [proc EXCEPT ![e] = s],
         s.pc \in {"idle", "run", "completed", "failed", "fail", "failwf", "dead"},
         nodeJob' = nodeJob, \A n \in Nodes : nodeStatus'[n] = "READY" => nodeStatus[n] = "READY"
  PROVE  SerialInv'
<1>1. /\ \A f \in Executors : proc'[f] = s /\ f = e
      /\ proc'[Creator] = proc[Creator]
  BY ProcAssumption DEF Serial, WorkflowInv, TypeOK, Procs
<1>2. Entering'
  <2>1. (\A n \in Nodes : nodeJob[n] = None /\ (nodeStatus[n] = "READY" => Deps[n] = {}))'
    BY DEF Entering
  <2>2. (\A f \in Executors :
           proc[f].pc \in {"idle", "run", "completed", "failed", "fail", "failwf", "dead"})'
    BY <1>1
  <2>3. (\A j \in Jobs : job[j].status # "absent" =>
           /\ proc[Creator].pc \notin {"check", "enqueue"}
           /\ proc[Creator].pc = "link" => j = proc[Creator].made)'
    BY <1>1 DEF Entering, NoNewJob
  <2> QED BY <1>1, <2>1, <2>2, <2>3 DEF Entering
<1> QED BY <1>2, JobsOfNodesKept DEF SerialInv

\* A step of an executor, other than to create or to link a job, when the creator is done.
LEMMA GoingKept ==
  ASSUME WorkflowInv, SerialInv, Serial, Going, NoNewJob, NEW e \in Executors, NEW s,
         proc' = [proc EXCEPT ![e] = s], nodeJob' = nodeJob,
         s.pc = "dead" \/ (proc[e].pc \notin {"link", "dead"} /\ s.pc # "link"),
         s.pc = "enqueue" => \A n \in s.todo : nodeJob[n] = None
  PROVE  SerialInv'
<1>1. /\ \A f \in Executors : proc'[f] = s /\ f = e
      /\ proc'[Creator] = proc[Creator]
  BY ProcAssumption DEF Serial, WorkflowInv, TypeOK, Procs
<1>2. Going'
  <2>1. (\/ proc[Creator].pc \in {"idle", "dead"}
         \/ proc[Creator].pc = "enqueue" /\ proc[Creator].todo = {})'
    BY <1>1 DEF Going
  <2>2. ASSUME NEW f \in Executors, NEW n \in Nodes, HasJob(n)', nodeJob'[n] = None
        PROVE  proc'[f].pc = "dead"
    <3>1. HasJob(n) /\ nodeJob[n] = None
      BY <2>2, JobsOfNodesKept
    <3>2. proc[e].pc \in {"dead", "link"}
      BY <3>1 DEF Going
    <3> QED BY <1>1, <3>2
  <2>3. (\A f \in Executors :
           /\ proc[f].pc \in {"enqueue", "link"} => \A n \in proc[f].todo : nodeJob[n] = None
           /\ proc[f].pc = "link" => nodeJob[proc[f].cur] = None)'
    BY <1>1
  <2> QED BY <2>1, <2>2, <2>3 DEF Going
<1> QED BY <1>2, JobsOfNodesKept DEF SerialInv

\* The creator's steps, other than to create or to link a job.
LEMMA CreatorKept ==
  ASSUME WorkflowInv, SerialInv, Serial, NoNewJob, NEW s,
         proc' = [proc EXCEPT ![Creator] = s], nodeJob' = nodeJob, nodeStatus' = nodeStatus,
         \/ s.pc \in {"idle", "dead"}
         \/ /\ Entering /\ proc[Creator].pc \in {"check", "enqueue"}
            /\ s.pc = "enqueue" /\ \A n \in s.todo : Deps[n] = {}
  PROVE  SerialInv'
<1>1. /\ \A f \in Executors : proc'[f] = proc[f]
      /\ proc'[Creator] = s
  BY ProcAssumption DEF WorkflowInv, TypeOK, Procs
<1>2. CASE Going /\ s.pc \in {"idle", "dead"}
  <2>1. \A n \in Nodes : HasJob(n)' => HasJob(n)
    BY JobsOfNodesKept
  <2>2. Going'
    BY <1>1, <1>2, <2>1 DEF Going
  <2> QED BY <2>2, JobsOfNodesKept DEF SerialInv
<1>3. CASE Entering
  <2>1. (\A n \in Nodes : nodeJob[n] = None /\ (nodeStatus[n] = "READY" => Deps[n] = {}))'
    BY <1>3 DEF Entering
  <2>2. (\A f \in Executors :
           proc[f].pc \in {"idle", "run", "completed", "failed", "fail", "failwf", "dead"})'
    BY <1>1, <1>3 DEF Entering
  <2>3. (\A j \in Jobs : job[j].status # "absent" =>
           /\ proc[Creator].pc \notin {"check", "enqueue"}
           /\ proc[Creator].pc = "link" => j = proc[Creator].made)'
    BY <1>1, <1>3 DEF Entering, NoNewJob
  <2>4. Entering'
    BY <1>1, <2>1, <2>2, <2>3 DEF Entering
  <2> QED BY <2>4, JobsOfNodesKept DEF SerialInv
<1> QED BY <1>2, <1>3 DEF SerialInv

LEMMA StateOf ==
  \A pc, j, n, todo, cur, made :
     At(pc, j, n, todo, cur, made).pc = pc /\ At(pc, j, n, todo, cur, made).todo = todo
BY DEF At

LEMMA ExecutorStaysSerial ==
  ASSUME WorkflowInv, SerialInv, Serial, NEW e \in Executors,
         ExecuteJob(e) \/ OnJobCompleted(e) \/ OnJobFailed(e)
  PROVE  SerialInv'
<1> e \in Procs
  BY DEF Procs
<1>1. CASE ExecuteJob(e)
  <2>1. PICK s : proc' = [proc EXCEPT ![e] = s] /\ s.pc \in {"run", "completed", "failed"}
    BY <1>1, StateOf DEF ExecuteJob, Claim, Succeed, Fail
  <2>2. /\ proc[e].pc \in {"idle", "run"} /\ UNCHANGED <<nodeJob, nodeStatus>>
    BY <1>1 DEF ExecuteJob, Claim, Succeed, Fail
  <2>3. NoNewJob
    <3>1. proc[e].pc = "run" => proc[e].job \in Jobs /\ job[proc[e].job].status = "RUNNING"
      BY DEF WorkflowInv, StepSound
    <3>2. CASE \E j \in Jobs : Claim(e, j)
      BY <3>2 DEF Claim, NoNewJob, Row, WorkflowInv, TypeOK
    <3>3. CASE Succeed(e)
      BY <3>1, <3>3 DEF Succeed, NoNewJob, Row, WorkflowInv, TypeOK
    <3>4. CASE Fail(e)
      BY <3>1, <3>4 DEF Fail, NoNewJob, Row, AfterFailure, WorkflowInv, TypeOK
    <3> QED BY <1>1, <3>2, <3>3, <3>4 DEF ExecuteJob
  <2> QED BY <2>1, <2>2, <2>3, EnteringKept, GoingKept DEF SerialInv
<1>2. CASE FindCompleted(e)
  <2>1. NoNewJob /\ UNCHANGED <<nodeJob, nodeStatus>> /\ proc[e].pc = "completed"
    BY <1>2 DEF FindCompleted, NoNewJob
  <2>2. CASE proc' = [proc EXCEPT ![e] = Idle]
    <3>1. Idle.pc = "idle"
      BY IdleStates
    <3> QED BY <2>1, <2>2, <3>1, EnteringKept, GoingKept DEF SerialInv
  <2>3. ASSUME NEW n \in Nodes, nodeJob[n] = proc[e].job,
               proc' = [proc EXCEPT ![e] = At("mark", @.job, n, {}, None, None)]
        PROVE  SerialInv'
    <3>1. PICK s : s = At("mark", proc[e].job, n, {}, None, None)
      OBVIOUS
    <3>2. proc' = [proc EXCEPT ![e] = s] /\ s.pc = "mark"
      BY <2>3, <3>1 DEF At
    <3>3. proc[e].job \in Jobs
      BY <2>1 DEF WorkflowInv, StepSound
    <3>4. Going
      BY <2>3, <3>3, NodeAssumption DEF SerialInv, Entering
    <3> QED BY <2>1, <3>2, <3>4, GoingKept
  <2> QED BY <1>2, <2>2, <2>3 DEF FindCompleted
<1>3. CASE OnJobCompleted(e) /\ ~FindCompleted(e)
  <2>1. NoNewJob /\ nodeJob' = nodeJob /\ proc[e].pc \in {"mark", "check", "ready", "close"}
    BY <1>3 DEF OnJobCompleted, MarkCompleted, CheckDependent, SetReady, CloseWorkflow, NoNewJob
  <2>2. PICK s : proc' = [proc EXCEPT ![e] = s] /\ s.pc \in {"check", "ready", "idle"}
    <3>1. CASE MarkCompleted(e) \/ SetReady(e) \/ CloseWorkflow(e)
      BY <3>1, StateOf, IdleStates DEF MarkCompleted, SetReady, CloseWorkflow
    <3>2. ASSUME NEW d \in Nodes, CheckDependent(e, d)
          PROVE  \E s : proc' = [proc EXCEPT ![e] = s] /\ s.pc \in {"check", "ready", "idle"}
      <4>1. PICK s : s = IF AllComplete(d)
                         THEN At("ready", proc[e].job, proc[e].node, proc[e].todo, d, None)
                         ELSE At("check", proc[e].job, proc[e].node, proc[e].todo \ {d}, None, None)
        OBVIOUS
      <4>2. proc' = [proc EXCEPT ![e] = s]
        BY <3>2, <4>1 DEF CheckDependent
      <4>3. s.pc \in {"check", "ready"}
        BY <4>1, StateOf
      <4> QED BY <4>2, <4>3
    <3> QED BY <1>3, <3>1, <3>2 DEF OnJobCompleted
  <2>3. Going
    BY <2>1 DEF SerialInv, Entering
  <2> QED BY <2>1, <2>2, <2>3, GoingKept
<1>4. CASE OnJobFailed(e)
  <2>1. NoNewJob /\ nodeJob' = nodeJob /\ proc[e].pc \in {"failed", "fail", "failwf"}
    BY <1>4 DEF OnJobFailed, FindFailed, FailNode, FailWorkflow, NoNewJob
  <2>2. PICK s : proc' = [proc EXCEPT ![e] = s] /\ s.pc \in {"fail", "failwf", "idle"}
    BY <1>4 DEF OnJobFailed, FindFailed, FailNode, FailWorkflow, At, Idle
  <2>3. \A n \in Nodes : nodeStatus'[n] = "READY" => nodeStatus[n] = "READY"
    BY <1>4 DEF OnJobFailed, FindFailed, FailNode, FailWorkflow, WorkflowInv, TypeOK
  <2> QED BY <2>1, <2>2, <2>3, EnteringKept, GoingKept DEF SerialInv
<1> QED BY <1>1, <1>2, <1>3, <1>4 DEF OnJobCompleted

\* Whoever creates a job for n: n had none.
LEMMA CreationKeepsOne ==
  ASSUME WorkflowInv, SerialInv, NEW n \in Nodes, NEW j \in Jobs, ~HasJob(n),
         job[j].status = "absent", job' = [job EXCEPT ![j] = Row("QUEUED", 0, n)]
  PROVE  /\ OneJobPerNode'
         /\ (\A i \in Jobs : job[i].status = "absent" => job[i].purpose = None)'
         /\ \A m \in Nodes : HasJob(m)' => HasJob(m) \/ m = n
         /\ \A i \in Jobs : job'[i].status # "absent" => job[i].status # "absent" \/ i = j
<1>1. /\ job'[j].status = "QUEUED" /\ job'[j].purpose = n
      /\ \A i \in Jobs \ {j} : job'[i] = job[i]
  BY DEF Row, WorkflowInv, TypeOK
<1>2. \A i \in Jobs : job[i].purpose = n => i = j
  BY NodeAssumption DEF HasJob, SerialInv
<1>3. \A i, k \in Jobs : job[i].status # "absent" /\ job[i].purpose = job[k].purpose => i = k
  BY DEF SerialInv, OneJobPerNode
<1>4. ASSUME NEW i \in Jobs, NEW k \in Jobs,
             job'[i].status # "absent", job'[i].purpose = job'[k].purpose
      PROVE  i = k
  BY <1>1, <1>2, <1>3, <1>4
<1>5. OneJobPerNode'
  BY <1>4 DEF OneJobPerNode
<1>6. \A m \in Nodes : HasJob(m)' => HasJob(m) \/ m = n
  BY <1>1 DEF HasJob
<1> QED BY <1>1, <1>5, <1>6 DEF SerialInv

LEMMA CreatorStaysSerial ==
  ASSUME WorkflowInv, SerialInv, Serial, Enqueue(Creator)
  PROVE  SerialInv'
<1> USE ProcAssumption DEF Procs
<1>1. proc[Creator] \in ProcState /\ StepSound(proc[Creator])
  BY States DEF WorkflowInv
<1>2. CASE ReadReady(Creator)
  <2>1. PICK s : s = At("enqueue", proc[Creator].job, proc[Creator].node, Unserved, None, None)
    OBVIOUS
  <2>2. s.pc = "enqueue" /\ s.todo = Unserved
    BY <2>1, StateOf
  <2>3. /\ NoNewJob /\ proc' = [proc EXCEPT ![Creator] = s] /\ proc[Creator].pc = "check"
        /\ UNCHANGED <<nodeJob, nodeStatus>>
    BY <1>2, <2>1 DEF ReadReady, NoNewJob
  <2>4. Entering
    BY <2>3 DEF SerialInv, Going
  <2>5. \A n \in Unserved : Deps[n] = {}
    BY <2>4 DEF Entering, Unserved
  <2> QED BY <2>2, <2>3, <2>4, <2>5, CreatorKept
<1>3. ASSUME NEW n \in Nodes, SkipNode(Creator, n) PROVE SerialInv'
  <2>1. PICK s : s = At("enqueue", proc[Creator].job, proc[Creator].node,
                        proc[Creator].todo \ {n}, None, None)
    OBVIOUS
  <2>2. s.pc = "enqueue" /\ s.todo = proc[Creator].todo \ {n}
    BY <2>1, StateOf
  <2>3. /\ NoNewJob /\ proc' = [proc EXCEPT ![Creator] = s]
        /\ proc[Creator].pc = "enqueue" /\ n \in proc[Creator].todo
        /\ UNCHANGED <<nodeJob, nodeStatus>>
    BY <1>3, <2>1 DEF SkipNode, NoNewJob
  <2>4. Entering
    BY <2>3 DEF SerialInv, Going
  <2>5. \A m \in s.todo : Deps[m] = {}
    BY <2>2, <2>3, <2>4 DEF Entering
  <2> QED BY <2>2, <2>3, <2>4, <2>5, CreatorKept
<1>4. ASSUME NEW n \in Nodes, NEW j \in Jobs, CreateJob(Creator, n, j) PROVE SerialInv'
  <2>1. PICK s : s = At("link", proc[Creator].job, proc[Creator].node, proc[Creator].todo, n, j)
    OBVIOUS
  <2>2. s.pc = "link" /\ s.todo = proc[Creator].todo /\ s.cur = n /\ s.made = j
    BY <2>1 DEF At
  <2>3. /\ proc' = [proc EXCEPT ![Creator] = s]
        /\ proc[Creator].pc = "enqueue" /\ n \in proc[Creator].todo
        /\ job[j].status = "absent" /\ job' = [job EXCEPT ![j] = Row("QUEUED", 0, n)]
        /\ UNCHANGED <<nodeJob, nodeStatus>>
    BY <1>4, <2>1 DEF CreateJob
  <2>4. Entering
    BY <2>3 DEF SerialInv, Going
  <2>5. \A i \in Jobs : job[i].status = "absent"
    BY <2>3, <2>4 DEF Entering
  <2>6. ~HasJob(n)
    BY <2>5 DEF HasJob
  <2>7. /\ OneJobPerNode'
        /\ (\A i \in Jobs : job[i].status = "absent" => job[i].purpose = None)'
        /\ \A i \in Jobs : job'[i].status # "absent" => i = j
    BY <2>3, <2>5, <2>6, CreationKeepsOne
  <2>8. proc'[Creator] = s /\ \A f \in Executors : proc'[f] = proc[f]
    BY <2>3 DEF WorkflowInv, TypeOK
  <2>9. Entering'
    <3>1. (\A m \in Nodes : nodeJob[m] = None /\ (nodeStatus[m] = "READY" => Deps[m] = {}))'
      BY <2>3, <2>4 DEF Entering
    <3>2. (\A f \in Executors :
             proc[f].pc \in {"idle", "run", "completed", "failed", "fail", "failwf", "dead"})'
      BY <2>4, <2>8 DEF Entering
    <3>3. \A m \in s.todo : Deps[m] = {}
      BY <2>2, <2>3, <2>4 DEF Entering
    <3> QED BY <2>2, <2>3, <2>7, <2>8, <3>1, <3>2, <3>3 DEF Entering
  <2> QED BY <2>7, <2>9 DEF SerialInv
<1>5. CASE LinkJob(Creator)
  <2>1. PICK n, s : /\ n = proc[Creator].cur
                    /\ s = At("enqueue", proc[Creator].job, proc[Creator].node,
                              proc[Creator].todo \ {n}, None, None)
    OBVIOUS
  <2>2. s.pc = "enqueue" /\ s.todo = proc[Creator].todo \ {n}
    BY <2>1, StateOf
  <2>3. /\ NoNewJob /\ proc' = [proc EXCEPT ![Creator] = s] /\ proc[Creator].pc = "link"
        /\ nodeJob' = [nodeJob EXCEPT ![n] = proc[Creator].made] /\ job' = job
    BY <1>5, <2>1 DEF LinkJob, NoNewJob
  <2>4. Entering
    BY <2>3 DEF SerialInv, Going
  <2>5. /\ n \in Nodes /\ Deps[n] = {} /\ proc[Creator].made \in Jobs
        /\ job[proc[Creator].made].purpose = n
    BY <1>1, <2>1, <2>3, <2>4 DEF StepSound, Entering
  <2>6. s.todo = {}
    <3>1. \A m \in proc[Creator].todo : m \in Nodes /\ Deps[m] = {}
      BY <1>1, <2>3, <2>4 DEF Entering, ProcState
    <3> QED BY <2>2, <2>5, <3>1 DEF Serial
  <2>7. proc'[Creator] = s /\ \A f \in Executors : proc'[f] = proc[f]
    BY <2>3 DEF WorkflowInv, TypeOK
  <2>8. \A m \in Nodes : HasJob(m)' => m = n
    BY <2>3, <2>4, <2>5 DEF HasJob, Entering
  <2>9. nodeJob'[n] # None
    BY <2>3, <2>5, NodeAssumption DEF WorkflowInv, TypeOK
  <2>10. \A f \in Executors : proc'[f].pc \notin {"enqueue", "link"}
    BY <2>4, <2>7 DEF Entering
  <2>11. Going'
    BY <2>2, <2>6, <2>7, <2>8, <2>9, <2>10 DEF Going
  <2> QED BY <2>3, <2>11, JobsOfNodesKept DEF SerialInv
<1>6. CASE CountPending(Creator)
  <2>1. /\ NoNewJob /\ proc' = [proc EXCEPT ![Creator] = Idle]
        /\ UNCHANGED <<nodeJob, nodeStatus>>
    BY <1>6 DEF CountPending, NoNewJob
  <2> QED BY <2>1, IdleStates, CreatorKept
<1> QED BY <1>2, <1>3, <1>4, <1>5, <1>6 DEF Enqueue

LEMMA ExecutorEnqueuesSerially ==
  ASSUME WorkflowInv, SerialInv, Serial, NEW e \in Executors, Enqueue(e)
  PROVE  SerialInv'
<1> USE DEF Procs
<1>1. proc[e] \in ProcState /\ StepSound(proc[e]) /\ proc[e].pc \in {"check", "enqueue", "link"}
  BY States DEF WorkflowInv, Enqueue, ReadReady, SkipNode, CreateJob, LinkJob, CountPending
<1>2. Going
  BY <1>1 DEF SerialInv, Entering
<1>3. CASE ReadReady(e)
  <2>1. PICK s : s = At("enqueue", proc[e].job, proc[e].node, Unserved, None, None)
    OBVIOUS
  <2>2. s.pc = "enqueue" /\ s.todo = Unserved
    BY <2>1, StateOf
  <2>3. /\ NoNewJob /\ proc' = [proc EXCEPT ![e] = s] /\ proc[e].pc = "check"
        /\ nodeJob' = nodeJob
    BY <1>3, <2>1 DEF ReadReady, NoNewJob
  <2> QED BY <1>2, <2>2, <2>3, GoingKept DEF Unserved
<1>4. ASSUME NEW n \in Nodes, SkipNode(e, n) PROVE SerialInv'
  <2>1. PICK s : s = At("enqueue", proc[e].job, proc[e].node, proc[e].todo \ {n}, None, None)
    OBVIOUS
  <2>2. s.pc = "enqueue" /\ s.todo = proc[e].todo \ {n}
    BY <2>1, StateOf
  <2>3. /\ NoNewJob /\ proc' = [proc EXCEPT ![e] = s] /\ proc[e].pc = "enqueue"
        /\ nodeJob' = nodeJob
    BY <1>4, <2>1 DEF SkipNode, NoNewJob
  <2>4. \A m \in s.todo : nodeJob[m] = None
    BY <1>2, <2>2, <2>3 DEF Going
  <2> QED BY <1>2, <2>2, <2>3, <2>4, GoingKept
<1>5. ASSUME NEW n \in Nodes, NEW j \in Jobs, CreateJob(e, n, j) PROVE SerialInv'
  <2>1. PICK s : s = At("link", proc[e].job, proc[e].node, proc[e].todo, n, j)
    OBVIOUS
  <2>2. s.pc = "link" /\ s.todo = proc[e].todo /\ s.cur = n
    BY <2>1 DEF At
  <2>3. /\ proc' = [proc EXCEPT ![e] = s]
        /\ proc[e].pc = "enqueue" /\ n \in proc[e].todo
        /\ job[j].status = "absent" /\ job' = [job EXCEPT ![j] = Row("QUEUED", 0, n)]
        /\ nodeJob' = nodeJob
    BY <1>5, <2>1 DEF CreateJob
  <2>4. \A m \in proc[e].todo : nodeJob[m] = None
    BY <1>2, <2>3 DEF Going
  <2>5. \A m \in Nodes : HasJob(m) => nodeJob[m] # None
    BY <1>2, <2>3 DEF Going
  <2>6. ~HasJob(n)
    BY <2>3, <2>4, <2>5
  <2>7. /\ OneJobPerNode'
        /\ (\A i \in Jobs : job[i].status = "absent" => job[i].purpose = None)'
        /\ \A m \in Nodes : HasJob(m)' => HasJob(m) \/ m = n
    BY <2>3, <2>6, CreationKeepsOne
  <2>8. /\ \A f \in Executors : proc'[f] = s /\ f = e
        /\ proc'[Creator] = proc[Creator]
    BY <2>3, ProcAssumption DEF Serial, WorkflowInv, TypeOK
  <2>9. Going'
    BY <1>2, <2>2, <2>3, <2>4, <2>5, <2>7, <2>8 DEF Going
  <2> QED BY <2>7, <2>9 DEF SerialInv
<1>6. CASE LinkJob(e)
  <2>1. PICK n, s : /\ n = proc[e].cur
                    /\ s = At("enqueue", proc[e].job, proc[e].node, proc[e].todo \ {n}, None, None)
    OBVIOUS
  <2>2. s.pc = "enqueue" /\ s.todo = proc[e].todo \ {n}
    BY <2>1, StateOf
  <2>3. /\ NoNewJob /\ proc' = [proc EXCEPT ![e] = s] /\ proc[e].pc = "link"
        /\ nodeJob' = [nodeJob EXCEPT ![n] = proc[e].made]
    BY <1>6, <2>1 DEF LinkJob, NoNewJob
  <2>4. n \in Nodes /\ proc[e].made \in Jobs /\ proc[e].todo \subseteq Nodes
    BY <1>1, <2>1, <2>3 DEF StepSound, ProcState
  <2>5. nodeJob'[n] # None /\ \A m \in Nodes \ {n} : nodeJob'[m] = nodeJob[m]
    BY <2>3, <2>4, NodeAssumption DEF WorkflowInv, TypeOK
  <2>6. \A m \in s.todo : nodeJob'[m] = None
    BY <1>2, <2>2, <2>3, <2>4, <2>5 DEF Going
  <2>7. \A m \in Nodes : HasJob(m)' => nodeJob'[m] # None
    <3>1. \A m \in Nodes : HasJob(m)' => HasJob(m)
      BY <2>3, JobsOfNodesKept
    <3>2. \A m \in Nodes : HasJob(m) /\ nodeJob[m] = None => m = n
      BY <1>2, <2>1, <2>3 DEF Going
    <3> QED BY <2>5, <3>1, <3>2
  <2>8. /\ \A f \in Executors : proc'[f] = s /\ f = e
        /\ proc'[Creator] = proc[Creator]
    BY <2>3, ProcAssumption DEF Serial, WorkflowInv, TypeOK
  <2>9. Going'
    BY <1>2, <2>2, <2>6, <2>7, <2>8 DEF Going
  <2> QED BY <2>3, <2>9, JobsOfNodesKept DEF SerialInv
<1>7. CASE CountPending(e)
  <2>1. PICK s : s = IF e # Creator /\ Pending = {}
                     THEN At("close", proc[e].job, proc[e].node, {}, None, None) ELSE Idle
    OBVIOUS
  <2>2. s.pc \in {"close", "idle"}
    BY <2>1, StateOf, IdleStates
  <2>3. /\ NoNewJob /\ proc' = [proc EXCEPT ![e] = s] /\ proc[e].pc = "enqueue"
        /\ nodeJob' = nodeJob
    BY <1>7, <2>1 DEF CountPending, NoNewJob
  <2> QED BY <1>2, <2>2, <2>3, GoingKept
<1> QED BY <1>3, <1>4, <1>5, <1>6, <1>7 DEF Enqueue

LEMMA CrashStaysSerial ==
  ASSUME WorkflowInv, SerialInv, Serial, NEW p \in Procs, Crash(p)
  PROVE  SerialInv'
<1>1. PICK s : s = At("dead", None, None, {}, None, None)
  OBVIOUS
<1>2. /\ proc' = [proc EXCEPT ![p] = s] /\ s.pc = "dead"
      /\ UNCHANGED <<nodeJob, nodeStatus>>
  BY <1>1, StateOf DEF Crash
<1>3. NoNewJob
  <2>1. proc[p].pc = "run" => proc[p].job \in Jobs /\ job[proc[p].job].status = "RUNNING"
    BY DEF WorkflowInv, StepSound
  <2>2. CASE proc[p].pc = "run"
    BY <2>1, <2>2 DEF Crash, NoNewJob, Row, AfterFailure, WorkflowInv, TypeOK
  <2>3. CASE proc[p].pc # "run"
    BY <2>3 DEF Crash, NoNewJob
  <2> QED BY <2>2, <2>3
<1>4. CASE p = Creator
  BY <1>2, <1>3, <1>4, CreatorKept
<1>5. CASE p \in Executors
  BY <1>2, <1>3, <1>5, EnteringKept, GoingKept DEF SerialInv
<1> QED BY <1>4, <1>5 DEF Procs

\* A node becomes one job, if the workflow has one entry and the executors take its
\* jobs one after the other: the creator makes the entry's, and until it has linked it
\* no executor reads the ready nodes; later the one executor alone does.  This holds
\* whoever dies at any point, and also if a job is executed before it is linked.
THEOREM OneJobEach == Spec => [](Serial => OneJobPerNode)
<1>1. Init => SerialInv
  <2> SUFFICES ASSUME Init PROVE SerialInv
    OBVIOUS
  <2>1. \A j \in Jobs : job[j].status = "absent" /\ job[j].purpose = None
    BY DEF Init, Row
  <2>2. \A n \in Nodes : nodeJob[n] = None /\ (nodeStatus[n] = "READY" => Deps[n] = {})
    BY DEF Init
  <2>3. proc[Creator].pc = "check" /\ \A e \in Executors : proc[e].pc = "idle"
    BY StateOf, IdleStates, ProcAssumption DEF Init, Procs
  <2> QED BY <2>1, <2>2, <2>3 DEF SerialInv, OneJobPerNode, Entering
<1>2. (Serial => SerialInv) /\ WorkflowInv /\ [Next]_vars => (Serial => SerialInv)'
  <2> SUFFICES ASSUME Serial, WorkflowInv, SerialInv, [Next]_vars PROVE SerialInv'
    BY DEF Serial
  <2>1. CASE UNCHANGED vars
    BY <2>1 DEF vars, SerialInv, OneJobPerNode, Entering, Going, HasJob
  <2>2. ASSUME NEW p \in Procs, Enqueue(p) PROVE SerialInv'
    BY <2>2, CreatorStaysSerial, ExecutorEnqueuesSerially DEF Procs
  <2> QED BY <2>1, <2>2, ExecutorStaysSerial, CrashStaysSerial DEF Next
<1>3. Spec => [](Serial => SerialInv)
  BY <1>1, <1>2, WorkflowInvariant, PTL DEF Spec
<1>4. SerialInv => OneJobPerNode
  BY DEF SerialInv
<1> QED BY <1>3, <1>4, PTL
=============================================================================
