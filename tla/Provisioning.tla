----------------------------- MODULE Provisioning -----------------------------
(***************************************************************************)
(* Projects, queues and demo data.  The API inserts a project and its      *)
(* first member, or a queue and the retry policy and rate limit it refers  *)
(* to, by statements of their own; the seed script finds or inserts its    *)
(* user, organization, projects and queues, and adds jobs, workers and     *)
(* metrics.  A request or a run of the seed may end between any two of     *)
(* them, and the seed is run again.                                        *)
(***************************************************************************)
EXTENDS Accounts

CONSTANTS
    Seeds,        \* bound: runs of the seed script, 1, 2, ..., one after the other
    MortalSeeds,  \* those that may die
    DemoUser,
    Projects,     \* bound: 1, 2, ..., in the order the script fills them
    Names,        \* names of queues
    Policies,     \* bound: rows of retry_policies and rate_limits, 1, 2, ...
    DemoWorkers   \* bound: 1, 2, ..., in the order the script inserts them

ASSUME ProvisioningAssumption ==
    /\ Projects \in Nat /\ DemoWorkers \in Nat /\ Seeds \in Nat /\ Policies \in Nat
    /\ DemoUser \in Users
    /\ \A n \in 1..Policies : n # None
    /\ \A S \in SUBSET (1..Policies) : S # None

VARIABLES
    project,     \* projects: "none", "bare" or, with a member, "managed"
    policy,      \* the rows of retry_policies and rate_limits there are
    queue,       \* queues: None, or the policies a queue refers to
    failed,      \* jobs seeded as FAILED, of one run in one project
    listed,      \* dead_letter_jobs: which of them it lists
    worker,      \* workers of the script's own
    measured,    \* queues with queue_metrics
    seed         \* the runs of the seed: what each does next, in which project,
                 \* the statements that have returned, and the policies it made

rows == <<project, policy, queue, failed, listed, worker, measured>>
provisioningVars == <<vars, rows, seed>>

Queues == (1..Projects) \X Names
Of(p) == {p} \X Names

ProvisioningInit ==
    /\ Init
    /\ project = [p \in 1..Projects |-> "none"]
    /\ policy = {}
    /\ queue = [q \in Queues |-> None]
    /\ failed = {}
    /\ listed = {}
    /\ worker = {}
    /\ measured = {}
    /\ seed = [s \in 1..Seeds |->
                 [pc |-> "user", at |-> 1, done |-> {}, made |-> [q \in Queues |-> None]]]

-----------------------------------------------------------------------------
(* The API: POST projects and POST queues *)

ProjectCreate(r, p) ==
    /\ req[r].pc = "new"
    /\ founder # None
    /\ IF project[p] = "none"
         THEN project' = [project EXCEPT ![p] = "bare"] /\ Goes(r, "projectMember", <<p>>)
         ELSE Ends(r) /\ UNCHANGED project
    /\ UNCHANGED <<registered, token, founder, member, apiKey, audit, session,
                   policy, queue, failed, listed, worker, measured, seed>>

ProjectMember(r) ==
    /\ req[r].pc = "projectMember"
    /\ project' = [project EXCEPT ![req[r].on[1]] = "managed"]
    /\ Ends(r)
    /\ UNCHANGED <<registered, token, founder, member, apiKey, audit, session,
                   policy, queue, failed, listed, worker, measured, seed>>

\* The next row, while there is one.
NewPolicy == {Cardinality(policy) + 1} \cap 1..Policies

\* What the body asks for: nothing, or a new row.
Wanted == {{}} \cup {{x} : x \in NewPolicy}

RetryPolicyCreate(r, q, wanted) ==
    /\ req[r].pc = "new"
    /\ project[q[1]] # "none"
    /\ policy' = policy \cup wanted
    /\ Goes(r, "rateLimit", <<q, wanted>>)
    /\ UNCHANGED <<registered, token, founder, member, apiKey, audit, session,
                   project, queue, failed, listed, worker, measured, seed>>

RateLimitCreate(r, wanted) ==
    LET on == req[r].on IN
    /\ req[r].pc = "rateLimit"
    /\ policy' = policy \cup wanted
    /\ Goes(r, "queue", <<on[1], on[2] \cup wanted>>)
    /\ UNCHANGED <<registered, token, founder, member, apiKey, audit, session,
                   project, queue, failed, listed, worker, measured, seed>>

\* Faulty variant: an upsert that replaces the policies of a queue it finds.
QueueUpsert(r) ==
    LET on == req[r].on IN
    /\ req[r].pc = "queue"
    /\ queue' = [queue EXCEPT ![on[1]] = on[2]]
    /\ Ends(r)
    /\ UNCHANGED <<registered, token, founder, member, apiKey, audit, session,
                   project, policy, failed, listed, worker, measured, seed>>

\* The unique index of a project's queues may object.
QueueCreate(r) ==
    LET on == req[r].on IN
    /\ req[r].pc = "queue"
    /\ IF queue[on[1]] = None
         THEN queue' = [queue EXCEPT ![on[1]] = on[2]] /\ Ends(r)
         ELSE Goes(r, "failed", on) /\ UNCHANGED queue
    /\ UNCHANGED <<registered, token, founder, member, apiKey, audit, session,
                   project, policy, failed, listed, worker, measured, seed>>

ApiCrash(r) ==
    /\ r \in Mortal
    /\ req[r].pc \in {"projectMember", "rateLimit", "queue"}
    /\ Goes(r, "dead", req[r].on)
    /\ UNCHANGED <<registered, token, founder, member, apiKey, audit, session, rows, seed>>

-----------------------------------------------------------------------------
(* The seed script *)

Seeding(s, pc) == seed[s].pc = pc

\* The run goes on with pc.
Then(s, pc) == seed' = [seed EXCEPT ![s].pc = pc, ![s].done = {}]

\* One of several statements has returned; after all of them the run goes on.
Returned(s, x, all, pc) ==
    IF all \subseteq seed[s].done \cup {x} THEN Then(s, pc)
    ELSE seed' = [seed EXCEPT ![s].done = @ \cup {x}]

SeedUser(s) ==
    /\ Seeding(s, "user")
    /\ \A earlier \in 1..(s - 1) : seed[earlier].pc \in {"complete", "dead"}
    /\ registered' = registered \cup {DemoUser}
    /\ Then(s, "organization")
    /\ UNCHANGED <<token, founder, member, apiKey, audit, req, session, rows>>

\* Faulty variant: the organization without its member.
SeedOrganizationAlone(s) ==
    /\ Seeding(s, "organization")
    /\ founder' = IF founder = None THEN DemoUser ELSE founder
    /\ Then(s, "projects")
    /\ UNCHANGED <<registered, token, member, apiKey, audit, req, session, rows>>

SeedOrganization(s) ==
    /\ Seeding(s, "organization")
    /\ IF founder = None
         THEN founder' = DemoUser /\ member' = [member EXCEPT ![DemoUser] = Admin]
         ELSE UNCHANGED <<founder, member>>
    /\ Then(s, "projects")
    /\ UNCHANGED <<registered, token, apiKey, audit, req, session, rows>>

\* With its member, in one transaction, unless it is there.
UpsertProject(s, p) ==
    /\ Seeding(s, "projects")
    /\ p \notin seed[s].done
    /\ IF project[p] = "none" THEN project' = [project EXCEPT ![p] = "managed"]
                              ELSE UNCHANGED project
    /\ Returned(s, p, 1..Projects, "queues")
    /\ UNCHANGED <<vars, policy, queue, failed, listed, worker, measured>>

CreateQueuePolicy(s, q, x) ==
    /\ Seeding(s, "queues")
    /\ q \in Of(seed[s].at)
    /\ seed[s].made[q] = None
    /\ policy' = policy \cup {x}
    /\ seed' = [seed EXCEPT ![s].made[q] = x]
    /\ UNCHANGED <<vars, project, queue, failed, listed, worker, measured>>

\* The queue with the new policy, unless it is there.
CreateQueue(s, q) ==
    /\ Seeding(s, "queues")
    /\ q \in Of(seed[s].at)
    /\ seed[s].made[q] # None /\ q \notin seed[s].done
    /\ IF queue[q] = None THEN queue' = [queue EXCEPT ![q] = {seed[s].made[q]}]
                          ELSE UNCHANGED queue
    /\ Returned(s, q, Of(seed[s].at), "jobs")
    /\ UNCHANGED <<vars, project, policy, failed, listed, worker, measured>>

\* The fourth of the templates; the others are left out.
SeedJobs(s) ==
    /\ Seeding(s, "jobs")
    /\ failed' = failed \cup {<<s, seed[s].at>>}
    /\ Then(s, "deadLetter")
    /\ UNCHANGED <<vars, project, policy, queue, listed, worker, measured>>

\* findFirst: any FAILED job of the project.  A second dead letter of the same
\* job is rejected, and nobody minds.
SeedDeadLetter(s, j) ==
    /\ Seeding(s, "deadLetter")
    /\ j \in failed /\ j[2] = seed[s].at
    /\ listed' = listed \cup {j}
    /\ Then(s, "count")
    /\ UNCHANGED <<vars, project, policy, queue, failed, worker, measured>>

\* No demo workers where there is a worker.
CountWorkers(s) ==
    /\ Seeding(s, "count")
    /\ Then(s, IF worker = {} THEN "workers" ELSE "metrics")
    /\ UNCHANGED <<vars, rows>>

\* The next one; its five heartbeats are left out.
SeedWorker(s, w) ==
    /\ Seeding(s, "workers")
    /\ w = Cardinality(seed[s].done) + 1
    /\ worker' = worker \cup {w}
    /\ Returned(s, w, 1..DemoWorkers, "metrics")
    /\ UNCHANGED <<vars, project, policy, queue, failed, listed, measured>>

\* The last project is followed by SEED_COMPLETE.
SeedMetrics(s) ==
    LET last == seed[s].at = Projects IN
    /\ Seeding(s, "metrics")
    /\ measured' = measured \cup Of(seed[s].at)
    /\ seed' = [seed EXCEPT ![s].pc = IF last THEN "complete" ELSE "queues",
                            ![s].at = IF last THEN @ ELSE @ + 1]
    /\ UNCHANGED <<vars, project, policy, queue, failed, listed, worker>>

\* A statement is rejected, or the process is stopped.
SeedDies(s) ==
    /\ s \in MortalSeeds
    /\ seed[s].pc \notin {"user", "complete", "dead"}
    /\ Then(s, "dead")
    /\ UNCHANGED <<vars, rows>>

-----------------------------------------------------------------------------
Provision(r) ==
    \/ \E p \in 1..Projects : ProjectCreate(r, p)
    \/ ProjectMember(r) \/ QueueCreate(r) \/ ApiCrash(r)
    \/ \E wanted \in Wanted :
          RateLimitCreate(r, wanted) \/ \E q \in Queues : RetryPolicyCreate(r, q, wanted)

Seed(s) ==
    \/ SeedUser(s) \/ SeedOrganization(s)
    \/ \E p \in 1..Projects : UpsertProject(s, p)
    \/ \E q \in Queues : CreateQueue(s, q) \/ \E x \in NewPolicy : CreateQueuePolicy(s, q, x)
    \/ SeedJobs(s) \/ CountWorkers(s) \/ SeedMetrics(s) \/ SeedDies(s)
    \/ \E j \in failed : SeedDeadLetter(s, j)
    \/ \E w \in 1..DemoWorkers : SeedWorker(s, w)

ProvisioningNext ==
    \/ Next /\ UNCHANGED <<rows, seed>>
    \/ \E r \in Requests : Provision(r)
    \/ \E s \in 1..Seeds : Seed(s)

ProvisioningSpec == ProvisioningInit /\ [][ProvisioningNext]_provisioningVars

-----------------------------------------------------------------------------
(* Properties *)

Refers(q) == IF queue[q] = None THEN {} ELSE queue[q]

\* A queue refers to policies of its own, and every retry policy and rate limit
\* belongs to a queue, but for those of a request or a run of the seed that has
\* yet to insert the queue, died before it did, or found the queue there: the
\* rows they leave behind are explained by one of these, and no queue ever loses
\* its own to a later request or run.
PoliciesAccounted ==
    /\ \A q \in Queues : Refers(q) \subseteq policy
    /\ \A q1, q2 \in Queues : q1 # q2 => Refers(q1) \cap Refers(q2) = {}
    /\ \A x \in policy \ UNION {Refers(q) : q \in Queues} :
          \/ \E r \in Requests, q \in Queues, made \in SUBSET policy :
                /\ x \in made /\ req[r].on = <<q, made>>
                /\ \/ req[r].pc \in {"rateLimit", "queue", "dead"}
                   \/ req[r].pc = "failed" /\ queue[q] # None
          \/ \E s \in 1..Seeds, q \in Queues :
                /\ seed[s].made[q] = x
                /\ (seed[s].pc \in {"queues", "dead"} \/ queue[q] # None)

\* What SEED_COMPLETE announces, whatever was there before the run, however far
\* earlier runs came, and whatever the API did beside it: the demo user can sign
\* in and administers the organization unless somebody else had founded it; every
\* project has its queues, all with metrics, a failed job on its dead letter list,
\* and a member unless a request has left it without; and there are workers, all
\* of them unless an earlier run died.
SeedComplete ==
    \A s \in 1..Seeds : seed[s].pc = "complete" =>
        /\ DemoUser \in registered /\ founder # None
        /\ founder = DemoUser => member[DemoUser] = Admin
        /\ \A p \in 1..Projects :
              /\ project[p] = "managed" \/ \E r \in Requests : Pending(r, "projectMember", <<p>>)
              /\ \A q \in Of(p) : queue[q] # None /\ q \in measured
              /\ \E j \in listed : j[2] = p
        /\ \/ 1..DemoWorkers \subseteq worker
           \/ \E other \in 1..Seeds : seed[other].pc = "dead" /\ worker # {}
=============================================================================
