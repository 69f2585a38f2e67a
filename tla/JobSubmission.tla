----------------------------- MODULE JobSubmission -----------------------------
(***************************************************************************)
(* Requests that create a job in one queue, under one Idempotency-Key or   *)
(* without one.  createJob looks the key up, creates the schedule of a     *)
(* recurring job, the job and the idempotency record in separate           *)
(* statements; two unique indexes are all that keeps racing and repeated   *)
(* requests apart.  Records are deleted a day later, and operators may     *)
(* delete completed jobs.                                                  *)
(***************************************************************************)
EXTENDS Naturals, FiniteSets

CONSTANTS
    Requests,   \* a repeated one is another request
    Keyless,    \* those without the key
    Recurring,  \* those whose job has a schedule
    Jobs,       \* bound: ids of the jobs they may create
    None,
    Mortal      \* requests whose API process may die

ASSUME RequestAssumption ==
    /\ Keyless \subseteq Requests
    /\ Recurring \subseteq Requests
    /\ Mortal \subseteq Requests
    /\ None \notin Jobs
    /\ "error" \notin Jobs \cup {None}

VARIABLES
    row,        \* row[j]: the job: absent, live, completed, deleted
    keyed,      \* the jobs that carry, or carried, the key
    record,     \* the job of the idempotency record, or None
    scheduled,  \* requests that inserted a row of scheduled_jobs
    req,        \* the requests
    late        \* history: requests with the key that began when one of them
                \* had been answered

vars == <<row, keyed, record, scheduled, req, late>>

\* job: the one read or created; answer: what the client was told.
At(pc, job, answer) == [pc |-> pc, job |-> job, answer |-> answer]

Ended(r) == req[r].pc \in {"done", "dead"}

\* Jobs that the clients with the key have been told.
Told == {req[r].answer : r \in Requests \ Keyless} \cap Jobs

Exists(j) == row[j] \in {"live", "completed"}

Init ==
    /\ row = [j \in Jobs |-> "absent"]
    /\ keyed = {}
    /\ record = None
    /\ scheduled = {}
    /\ req = [r \in Requests |-> At("new", None, None)]
    /\ late = {}

-----------------------------------------------------------------------------
(* createJob *)

\* Where a request goes that has found no job.
Insert(r) == IF r \in Recurring THEN "schedule" ELSE "create"

Begins(r) == late' = IF Told = {} \/ r \in Keyless THEN late ELSE late \cup {r}

\* The record is read if there is a key to look up.
LookUp(r) ==
    /\ req[r].pc = "new"
    /\ Begins(r)
    /\ req' = [req EXCEPT ![r] = IF record = None \/ r \in Keyless
                                 THEN At(Insert(r), None, None)
                                 ELSE At("fetch", record, None)]
    /\ UNCHANGED <<row, keyed, record, scheduled>>

\* Faulty variant: only a job that is not completed is returned.
FetchLive(r) ==
    /\ req[r].pc = "fetch"
    /\ req' = [req EXCEPT ![r] = IF row[@.job] = "live" THEN At("done", @.job, @.job)
                                 ELSE At(Insert(r), None, None)]
    /\ UNCHANGED <<row, keyed, record, scheduled, late>>

\* The job of the record, if it still exists.
Fetch(r) ==
    /\ req[r].pc = "fetch"
    /\ req' = [req EXCEPT ![r] = IF Exists(@.job) THEN At("done", @.job, @.job)
                                 ELSE At(Insert(r), None, None)]
    /\ UNCHANGED <<row, keyed, record, scheduled, late>>

CreateSchedule(r) ==
    /\ req[r].pc = "schedule"
    /\ scheduled' = scheduled \cup {r}
    /\ req' = [req EXCEPT ![r] = At("create", None, None)]
    /\ UNCHANGED <<row, keyed, record, late>>

\* Jobs the unique index on (queue_id, idempotency_key) is about.
WithKey == {j \in keyed : Exists(j)}

\* A request without a key has its answer now.  Which new id the job gets does
\* not matter.
CreateRow(r, j) ==
    /\ row[j] = "absent"
    /\ j = CHOOSE i \in Jobs : row[i] = "absent"
    /\ row' = [row EXCEPT ![j] = "live"]
    /\ keyed' = IF r \in Keyless THEN keyed ELSE keyed \cup {j}
    /\ req' = [req EXCEPT ![r] = IF r \in Keyless THEN At("done", j, j)
                                 ELSE At("record", j, None)]
    /\ UNCHANGED <<record, scheduled, late>>

\* Faulty variant: there is no such index.
CreateJobTwice(r, j) ==
    /\ req[r].pc = "create"
    /\ CreateRow(r, j)

CreateJob(r, j) ==
    /\ req[r].pc = "create"
    /\ r \in Keyless \/ WithKey = {}
    /\ CreateRow(r, j)

\* The client gets an error.
JobRefused(r) ==
    /\ req[r].pc = "create"
    /\ r \notin Keyless /\ WithKey # {}
    /\ req' = [req EXCEPT ![r] = At("done", None, "error")]
    /\ UNCHANGED <<row, keyed, record, scheduled, late>>

CreateRecord(r) ==
    /\ req[r].pc = "record"
    /\ record = None
    /\ record' = req[r].job
    /\ req' = [req EXCEPT ![r] = At("done", @.job, @.job)]
    /\ UNCHANGED <<row, keyed, scheduled, late>>

\* The unique index of idempotency_records: a record whose job is deleted.
RecordRefused(r) ==
    /\ req[r].pc = "record"
    /\ record # None
    /\ req' = [req EXCEPT ![r] = At("done", @.job, "error")]
    /\ UNCHANGED <<row, keyed, record, scheduled, late>>

-----------------------------------------------------------------------------
\* The API process dies with the request; its client is not answered.
Crash(r) ==
    /\ r \in Mortal /\ ~Ended(r) /\ req[r].pc # "new"
    /\ req' = [req EXCEPT ![r] = At("dead", @.job, None)]
    /\ UNCHANGED <<row, keyed, record, scheduled, late>>

\* The scheduler's cleanupIdempotencyRecords.
RecordExpires ==
    /\ record # None
    /\ record' = None
    /\ UNCHANGED <<row, keyed, scheduled, req, late>>

JobCompletes(j) ==
    /\ row[j] = "live"
    /\ row' = [row EXCEPT ![j] = "completed"]
    /\ UNCHANGED <<keyed, record, scheduled, req, late>>

\* DELETE .../queues/:queueId/completed
DeleteCompleted ==
    /\ \E j \in Jobs : row[j] = "completed"
    /\ row' = [j \in Jobs |-> IF row[j] = "completed" THEN "deleted" ELSE row[j]]
    /\ UNCHANGED <<keyed, record, scheduled, req, late>>

Step(r) ==
    \/ LookUp(r) \/ Fetch(r) \/ CreateSchedule(r)
    \/ \E j \in Jobs : CreateJob(r, j)
    \/ JobRefused(r) \/ CreateRecord(r) \/ RecordRefused(r)

Next ==
    \/ \E r \in Requests : Step(r) \/ Crash(r)
    \/ RecordExpires \/ DeleteCompleted
    \/ \E j \in Jobs : JobCompletes(j)

Spec == Init /\ [][Next]_vars

-----------------------------------------------------------------------------
(* Properties *)

TypeOK ==
    /\ row \in [Jobs -> {"absent", "live", "completed", "deleted"}]
    /\ keyed \subseteq Jobs
    /\ record \in keyed \cup {None}
    /\ scheduled \subseteq Requests
    /\ req \in [Requests -> [pc : {"new", "fetch", "schedule", "create", "record",
                                   "done", "dead"},
                             job : Jobs \cup {None}, answer : Jobs \cup {None, "error"}]]
    /\ late \subseteq Requests \ Keyless

\* No job of the key was deleted.
Kept == \A j \in keyed : row[j] # "deleted"

Sender(pc) == {r \in Requests : req[r].pc = pc}

\* What a request knows of a job; and, as long as nothing is deleted: one job,
\* whose creator is the only one to write the record, before anybody is answered;
\* once there is a record, late requests find it.
SubmissionInv ==
    /\ TypeOK
    /\ Sender("record") \cap Keyless = {}
    /\ \A j \in keyed : row[j] # "absent"
    /\ \A r \in Sender("fetch") \cup Sender("record") : req[r].job \in keyed
    /\ Told \subseteq keyed
    /\ scheduled \cap Sender("new") = {}
    /\ keyed = {} => late = {}
    /\ (\E r \in Requests \ Keyless : req[r].answer = "error") => keyed # {}
    /\ Kept => /\ \A i, j \in keyed : i = j
               /\ Sender("record") # {} => /\ record = None /\ Told = {} /\ late = {}
                                          /\ Sender("fetch") = {}
               /\ \A q, r \in Sender("record") : q = r
               /\ record # None => late \subseteq (Sender("fetch") \cup Sender("done")
                                                  \cup Sender("dead")) \ scheduled
               /\ record # None => \A r \in late : req[r].answer # "error"

\* As long as nothing is deleted the key stands for one job: whoever is told a
\* job is told the same one, whichever requests race, die or are repeated, and
\* the record names it.  Who is told an error is not the first: the key has had
\* its job by then, although nothing holds the key between the look-up and the
\* creation.
OneAnswer ==
    /\ Kept => \A i, j \in Told \cup ({record} \ {None}) : i = j
    /\ (\E r \in Requests \ Keyless : req[r].answer = "error") => keyed # {}

\* While the record and the job are kept, a request repeated after an answer is
\* not refused, whatever its predecessors raced with, and adds no schedule: only
\* the requests that overlap the first one do.
RepeatedGetsTheJob ==
    Kept /\ record # None =>
        \A r \in late : req[r].answer # "error" /\ r \notin scheduled
=============================================================================
