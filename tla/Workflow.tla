------------------------------- MODULE Workflow -------------------------------
(***************************************************************************)
(* A workflow is a graph of nodes, each of which becomes a job when its    *)
(* dependencies have completed.  Nobody coordinates this: the worker that  *)
(* has completed a node's job marks the node, looks which dependents have  *)
(* all their dependencies marked, makes those READY, and creates jobs for  *)
(* every READY node without one.  Each step is a query or a write of its   *)
(* own, and several workers, and the request that created the workflow,    *)
(* take such steps at the same time.                                       *)
(*                                                                         *)
(* A job is executed by one executor at a time (see JobLifecycle).         *)
(***************************************************************************)
EXTENDS Naturals

CONSTANTS
    Nodes,        \* workflow_nodes of one workflow
    Deps,         \* Deps[n]: the nodes n depends on
    Strays,       \* nodes whose queue may not exist
    Jobs,         \* bound: rows of jobs
    Executors,    \* the workers' execution slots
    Creator,      \* the API request that creates the workflow
    None,
    MaxAttempts,  \* jobs.max_attempts
    Failures,     \* whether handlers may fail
    LinkFirst,    \* whether a job waits until its node refers to it
    Mortal        \* executors, or Creator, whose process may die

Procs == Executors \cup {Creator}

ASSUME NodeAssumption ==
    /\ Deps \in [Nodes -> SUBSET Nodes]
    /\ Strays \subseteq Nodes
    /\ None \notin Nodes \cup Jobs
ASSUME ProcAssumption == Creator \notin Executors /\ Mortal \subseteq Procs
ASSUME AttemptAssumption ==
    MaxAttempts \in Nat \ {0} /\ Failures \in BOOLEAN /\ LinkFirst \in BOOLEAN

VARIABLES
    nodeStatus,  \* workflow_nodes.status
    nodeJob,     \* workflow_nodes.job_id
    wf,          \* workflows.status
    job,         \* the rows of jobs that belong to the workflow
    proc,        \* what each executor, and the creator, is doing
    routed       \* nodes whose queue exists

vars == <<nodeStatus, nodeJob, wf, job, proc, routed>>

\* The schema also has SKIPPED for a node and PENDING for a workflow, which no code
\* writes.
NodeStatus == {"PENDING", "READY", "RUNNING", "COMPLETED", "FAILED"}
WorkflowStatus == {"RUNNING", "COMPLETED", "FAILED"}

\* purpose is kept for properties only: a jobs row does not say for which node
\* it was created.
Row(status, attempts, purpose) ==
    [status |-> status, attempts |-> attempts, purpose |-> purpose]

\* job: the job of the execution; node: the node found for it; todo: dependents
\* to check or nodes to create jobs for; cur: the one at hand; made: its job.
At(pc, j, n, todo, cur, made) ==
    [pc |-> pc, job |-> j, node |-> n, todo |-> todo, cur |-> cur, made |-> made]

Idle == At("idle", None, None, {}, None, None)

\* The transaction of WorkflowService.create has committed; the creator goes on
\* with enqueueReadyNodes.
Init ==
    /\ nodeStatus = [n \in Nodes |-> IF Deps[n] = {} THEN "READY" ELSE "PENDING"]
    /\ nodeJob = [n \in Nodes |-> None]
    /\ wf = "RUNNING"
    /\ job = [j \in Jobs |-> Row("absent", 0, None)]
    /\ proc = [p \in Procs |-> IF p = Creator THEN At("check", None, None, {}, None, None)
                                              ELSE Idle]
    /\ routed \in {Nodes \ s : s \in SUBSET Strays}

-----------------------------------------------------------------------------
(* An execution of a job, seen from the workflow *)

Claim(e, j) ==
    /\ proc[e].pc = "idle"
    /\ job[j].status = "QUEUED"
    /\ LinkFirst => \A p \in Procs : proc[p].made # j
    /\ job' = [job EXCEPT ![j] = Row("RUNNING", @.attempts + 1, @.purpose)]
    /\ proc' = [proc EXCEPT ![e] = At("run", j, None, {}, None, None)]
    /\ UNCHANGED <<nodeStatus, nodeJob, wf, routed>>

\* completeJob commits; then the worker calls WorkflowRunner.onJobCompleted ...
Succeed(e) ==
    /\ proc[e].pc = "run"
    /\ job' = [job EXCEPT ![proc[e].job] = Row("COMPLETED", @.attempts, @.purpose)]
    /\ proc' = [proc EXCEPT ![e] = At("completed", @.job, None, {}, None, None)]
    /\ UNCHANGED <<nodeStatus, nodeJob, wf, routed>>

AfterFailure(j) == IF job[j].attempts < MaxAttempts THEN "QUEUED" ELSE "DEAD_LETTER"

\* ... or onJobFailed, also when the job will be retried.
Fail(e) ==
    /\ Failures
    /\ proc[e].pc = "run"
    /\ job' = [job EXCEPT ![proc[e].job] =
                  Row(AfterFailure(proc[e].job), @.attempts, @.purpose)]
    /\ proc' = [proc EXCEPT ![e] = At("failed", @.job, None, {}, None, None)]
    /\ UNCHANGED <<nodeStatus, nodeJob, wf, routed>>

-----------------------------------------------------------------------------
(* WorkflowRunner.onJobCompleted *)

FindCompleted(e) ==
    /\ proc[e].pc = "completed"
    /\ \/ \E n \in Nodes : /\ nodeJob[n] = proc[e].job
                           /\ proc' = [proc EXCEPT ![e] = At("mark", @.job, n, {}, None, None)]
       \/ /\ \A n \in Nodes : nodeJob[n] # proc[e].job
          /\ proc' = [proc EXCEPT ![e] = Idle]
    /\ UNCHANGED <<nodeStatus, nodeJob, wf, job, routed>>

\* Faulty variant: the dependents are checked before the node is marked.
MarkCompletedLast(e) ==
    LET n == proc[e].node IN
    /\ proc[e].pc = "mark"
    /\ nodeStatus' = [nodeStatus EXCEPT ![n] = "COMPLETED"]
    /\ proc' = [proc EXCEPT ![e] =
          At("check", @.job, n, {d \in Nodes : /\ n \in Deps[d]
                                             /\ \A x \in Deps[d] : nodeStatus[x] = "COMPLETED"},
             None, None)]
    /\ UNCHANGED <<nodeJob, wf, job, routed>>

\* The node is marked and its dependents are read, which never change.
MarkCompleted(e) ==
    LET n == proc[e].node IN
    /\ proc[e].pc = "mark"
    /\ nodeStatus' = [nodeStatus EXCEPT ![n] = "COMPLETED"]
    /\ proc' = [proc EXCEPT ![e] =
          At("check", @.job, n, {d \in Nodes : n \in Deps[d]}, None, None)]
    /\ UNCHANGED <<nodeJob, wf, job, routed>>

\* Faulty variant: one completed dependency is enough.
AnyComplete(n) == \E d \in Deps[n] : nodeStatus[d] = "COMPLETED"

\* areAllDependenciesComplete
AllComplete(n) == \A d \in Deps[n] : nodeStatus[d] = "COMPLETED"

CheckDependent(e, d) ==
    /\ proc[e].pc = "check" /\ d \in proc[e].todo
    /\ proc' = [proc EXCEPT ![e] =
          IF AllComplete(d) THEN At("ready", @.job, @.node, @.todo, d, None)
                            ELSE At("check", @.job, @.node, @.todo \ {d}, None, None)]
    /\ UNCHANGED <<nodeStatus, nodeJob, wf, job, routed>>

\* Whatever the dependent's status has become.
SetReady(e) ==
    LET n == proc[e].cur IN
    /\ proc[e].pc = "ready"
    /\ nodeStatus' = [nodeStatus EXCEPT ![n] = "READY"]
    /\ proc' = [proc EXCEPT ![e] = At("check", @.job, @.node, @.todo \ {n}, None, None)]
    /\ UNCHANGED <<nodeJob, wf, job, routed>>

\* Faulty variant: nodes that have a job and are under way are read, too.
UnservedOrRunning == {n \in Nodes : nodeStatus[n] \in {"READY", "RUNNING"}}

Unserved == {n \in Nodes : nodeStatus[n] = "READY" /\ nodeJob[n] = None}

\* enqueueReadyNodes: every READY node of the workflow that has no job.
ReadReady(p) ==
    /\ proc[p].pc = "check" /\ proc[p].todo = {}
    /\ proc' = [proc EXCEPT ![p] = At("enqueue", @.job, @.node, Unserved, None, None)]
    /\ UNCHANGED <<nodeStatus, nodeJob, wf, job, routed>>

\* The node's queue does not exist.
SkipNode(p, n) ==
    /\ proc[p].pc = "enqueue" /\ n \in proc[p].todo
    /\ n \notin routed
    /\ proc' = [proc EXCEPT ![p] = At("enqueue", @.job, @.node, @.todo \ {n}, None, None)]
    /\ UNCHANGED <<nodeStatus, nodeJob, wf, job, routed>>

CreateJob(p, n, j) ==
    /\ proc[p].pc = "enqueue" /\ n \in proc[p].todo
    /\ n \in routed
    /\ job[j].status = "absent"
    /\ job' = [job EXCEPT ![j] = Row("QUEUED", 0, n)]
    /\ proc' = [proc EXCEPT ![p] = At("link", @.job, @.node, @.todo, n, j)]
    /\ UNCHANGED <<nodeStatus, nodeJob, wf, routed>>

LinkJob(p) ==
    LET n == proc[p].cur IN
    /\ proc[p].pc = "link"
    /\ nodeStatus' = [nodeStatus EXCEPT ![n] = "RUNNING"]
    /\ nodeJob' = [nodeJob EXCEPT ![n] = proc[p].made]
    /\ proc' = [proc EXCEPT ![p] = At("enqueue", @.job, @.node, @.todo \ {n}, None, None)]
    /\ UNCHANGED <<wf, job, routed>>

\* Faulty variant: only nodes that are under way count.
PendingUnderWay == {n \in Nodes : nodeStatus[n] \in {"READY", "RUNNING"}}

Pending == {n \in Nodes : nodeStatus[n] # "COMPLETED"}

\* The creator is done; an executor counts the nodes that are not completed.
CountPending(p) ==
    /\ proc[p].pc = "enqueue" /\ proc[p].todo = {}
    /\ proc' = [proc EXCEPT ![p] =
          IF p # Creator /\ Pending = {}
            THEN At("close", @.job, @.node, {}, None, None) ELSE Idle]
    /\ UNCHANGED <<nodeStatus, nodeJob, wf, job, routed>>

CloseWorkflow(e) ==
    /\ proc[e].pc = "close"
    /\ wf' = "COMPLETED"
    /\ proc' = [proc EXCEPT ![e] = Idle]
    /\ UNCHANGED <<nodeStatus, nodeJob, job, routed>>

-----------------------------------------------------------------------------
(* WorkflowRunner.onJobFailed *)

FindFailed(e) ==
    /\ proc[e].pc = "failed"
    /\ \/ \E n \in Nodes : /\ nodeJob[n] = proc[e].job
                           /\ proc' = [proc EXCEPT ![e] = At("fail", @.job, n, {}, None, None)]
       \/ /\ \A n \in Nodes : nodeJob[n] # proc[e].job
          /\ proc' = [proc EXCEPT ![e] = Idle]
    /\ UNCHANGED <<nodeStatus, nodeJob, wf, job, routed>>

FailNode(e) ==
    /\ proc[e].pc = "fail"
    /\ nodeStatus' = [nodeStatus EXCEPT ![proc[e].node] = "FAILED"]
    /\ proc' = [proc EXCEPT ![e] = At("failwf", @.job, @.node, {}, None, None)]
    /\ UNCHANGED <<nodeJob, wf, job, routed>>

FailWorkflow(e) ==
    /\ proc[e].pc = "failwf"
    /\ wf' = "FAILED"
    /\ proc' = [proc EXCEPT ![e] = Idle]
    /\ UNCHANGED <<nodeStatus, nodeJob, job, routed>>

-----------------------------------------------------------------------------
\* A process dies: its job is recovered when the lease runs out, its callback is
\* not repeated.  A worker that is started again is another executor.
Crash(p) ==
    /\ p \in Mortal /\ proc[p].pc \notin {"idle", "dead"}
    /\ job' = IF proc[p].pc = "run"
                THEN [job EXCEPT ![proc[p].job] =
                         Row(AfterFailure(proc[p].job), @.attempts, @.purpose)]
                ELSE job
    /\ proc' = [proc EXCEPT ![p] = At("dead", None, None, {}, None, None)]
    /\ UNCHANGED <<nodeStatus, nodeJob, wf, routed>>

Enqueue(p) ==
    \/ ReadReady(p)
    \/ \E n \in Nodes : SkipNode(p, n) \/ \E j \in Jobs : CreateJob(p, n, j)
    \/ LinkJob(p) \/ CountPending(p)

OnJobCompleted(e) ==
    \/ FindCompleted(e) \/ MarkCompleted(e)
    \/ \E d \in Nodes : CheckDependent(e, d)
    \/ SetReady(e) \/ CloseWorkflow(e)

OnJobFailed(e) == FindFailed(e) \/ FailNode(e) \/ FailWorkflow(e)

ExecuteJob(e) ==
    \/ \E j \in Jobs : Claim(e, j)
    \/ Succeed(e) \/ Fail(e)

Next ==
    \/ \E e \in Executors : ExecuteJob(e) \/ OnJobCompleted(e) \/ OnJobFailed(e)
    \/ \E p \in Procs : Enqueue(p) \/ Crash(p)

Spec == Init /\ [][Next]_vars

\* Workers poll, handlers return and awaited calls return.
FairSpec ==
    /\ Spec
    /\ \A e \in Executors : WF_vars(ExecuteJob(e) \/ OnJobCompleted(e) \/ OnJobFailed(e))
    /\ \A p \in Procs : WF_vars(Enqueue(p))

-----------------------------------------------------------------------------
(* Properties *)

TypeOK ==
    /\ nodeStatus \in [Nodes -> NodeStatus]
    /\ nodeJob \in [Nodes -> Jobs \cup {None}]
    /\ wf \in WorkflowStatus
    /\ job \in [Jobs -> [status : {"absent", "QUEUED", "RUNNING", "COMPLETED", "DEAD_LETTER"},
                         attempts : 0..MaxAttempts, purpose : Nodes \cup {None}]]
    /\ proc \in [Procs -> [pc : {"idle", "run", "completed", "mark", "check", "ready",
                                 "enqueue", "link", "close", "failed", "fail", "failwf",
                                 "dead"},
                           job : Jobs \cup {None}, node : Nodes \cup {None},
                           todo : SUBSET Nodes, cur : Nodes \cup {None},
                           made : Jobs \cup {None}]]
    /\ routed \subseteq Nodes

\* A node is done when a job created for it has completed; that is final.
Done(n) == \E j \in Jobs : job[j].purpose = n /\ job[j].status = "COMPLETED"

\* A job is created for a node only after all the nodes it depends on are done,
\* in every interleaving of callbacks and whichever statuses they overwrite.
\* (The types of all variables are part of it.)
DependenciesFirst ==
    /\ TypeOK
    /\ \A j \in Jobs : job[j].status # "absent" =>
          \A d \in Deps[job[j].purpose] : Done(d)

\* A workflow that says COMPLETED has done all its nodes.
CompletedTruthfully == wf = "COMPLETED" => \A n \in Nodes : Done(n)

AllAlive == \A p \in Procs : proc[p].pc # "dead"

\* Unless a process dies, no node is forgotten.  Of the workers that complete a
\* join's dependencies at the same time one notices: if all are marked, the join is
\* no longer PENDING or somebody still has it on the list of dependents to check.
\* And a READY node without a job is going to get one: somebody will read the
\* ready nodes, or has read it.
NodesNotForgotten ==
    AllAlive =>
        /\ \A n \in Nodes : nodeStatus[n] = "PENDING" /\ AllComplete(n) =>
              \E p \in Procs : proc[p].pc \in {"check", "ready"} /\ n \in proc[p].todo
        /\ \A n \in Unserved \cap routed :
              \E p \in Procs : \/ proc[p].pc \in {"check", "ready"}
                               \/ proc[p].pc \in {"enqueue", "link"} /\ n \in proc[p].todo

\* A node becomes one job.
OneJobPerNode ==
    \A i, j \in Jobs :
        job[i].status # "absent" /\ job[i].purpose = job[j].purpose => i = j

\* The workflow comes to its end: COMPLETED, or FAILED with a dead job.
WorkflowEnds ==
    <>[](\/ wf = "COMPLETED"
         \/ wf = "FAILED" /\ \E j \in Jobs : job[j].status = "DEAD_LETTER")
=============================================================================
