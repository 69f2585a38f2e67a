-------------------------- MODULE MCWorkerProcess --------------------------
(* WorkerProcess with four jobs in two queues. *)
EXTENDS WorkerProcess, TLC

CONSTANTS t1, t2, t3, t4, q1, q2

\* Two jobs in the first queue and one in the second, or three and one.
TwoAndOne == t1 :> q1 @@ t2 :> q1 @@ t3 :> q2
ThreeAndOne == t1 :> q1 @@ t2 :> q1 @@ t3 :> q1 @@ t4 :> q2

\* A limit that binds below WORKER_CONCURRENCY = 2, of a queue that may be paused,
\* and one that does not.
Row(status, limit) == [status |-> status, limit |-> limit]
TightTables ==
    {q1 :> Row(status, 1) @@ q2 :> Row("ACTIVE", 2) : status \in {"ACTIVE", "PAUSED"}}
WideTable == {q1 :> Row("ACTIVE", 2) @@ q2 :> Row("ACTIVE", 2)}

\* Jobs of one queue, and calls of poll, are alike.
Alike == Permutations({t1, t2}) \cup Permutations(Polls)
=============================================================================
