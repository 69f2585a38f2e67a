---------------------------- MODULE ExecutionPool ----------------------------
(***************************************************************************)
(* ExecutionPool: run(fn) starts fn at once or waits in a queue until a    *)
(* running one ends.  The end of one only wakes the next: the woken one    *)
(* resumes in a later microtask and tests the capacity again, and a task   *)
(* that arrives in between takes the place and sends it back to the tail.  *)
(***************************************************************************)
EXTENDS Integers, Sequences, FiniteSets

CONSTANTS
    Tasks,           \* the calls of run
    MaxConcurrency   \* the pool's size

ASSUME PoolAssumption == IsFiniteSet(Tasks) /\ MaxConcurrency \in Nat \ {0}

VARIABLES
    running,   \* the counter of the pool
    queue,     \* tasks whose promise is pending, first in first out
    stage      \* where each call of run stands

poolVars == <<running, queue, stage>>

InStage(s) == {t \in Tasks : stage[t] = s}

PoolInit ==
    /\ running = 0
    /\ queue = <<>>
    /\ stage = [t \in Tasks |-> "new"]

Begin(t) ==
    /\ running < MaxConcurrency
    /\ running' = running + 1
    /\ stage' = [stage EXCEPT ![t] = "running"]
    /\ UNCHANGED queue

Wait(t) ==
    /\ running >= MaxConcurrency
    /\ queue' = Append(queue, t)
    /\ stage' = [stage EXCEPT ![t] = "queued"]
    /\ UNCHANGED running

\* The while loop of run, up to its first await or into fn.
Run(t) == stage[t] = "new" /\ (Begin(t) \/ Wait(t))

\* Faulty variant: the capacity is tested once, before the wait.
ResumeUnchecked(t) ==
    /\ stage[t] = "woken"
    /\ running' = running + 1
    /\ stage' = [stage EXCEPT ![t] = "running"]
    /\ UNCHANGED queue

\* The loop's condition is tested again after the await.
Resume(t) == stage[t] = "woken" /\ (Begin(t) \/ Wait(t))

\* Faulty variant: nobody is woken.
FinishSilently(t) ==
    /\ stage[t] = "running"
    /\ running' = running - 1
    /\ stage' = [stage EXCEPT ![t] = "done"]
    /\ UNCHANGED queue

\* The finally block, once fn has settled.
Finish(t) ==
    /\ stage[t] = "running"
    /\ running' = running - 1
    /\ IF queue = <<>>
         THEN /\ stage' = [stage EXCEPT ![t] = "done"]
              /\ UNCHANGED queue
         ELSE /\ stage' = [stage EXCEPT ![t] = "done", ![Head(queue)] = "woken"]
              /\ queue' = Tail(queue)

PoolNext == \E t \in Tasks : Run(t) \/ Resume(t) \/ Finish(t)

PoolSpec == PoolInit /\ [][PoolNext]_poolVars

-----------------------------------------------------------------------------
Stages == {"new", "queued", "woken", "running", "done"}

PoolTypeOK ==
    /\ running \in Nat
    /\ queue \in Seq(Tasks)
    /\ stage \in [Tasks -> Stages]

\* The pool never runs more than its size, and its counter is the number of
\* functions that run ("limits concurrent executions").
WithinCapacity ==
    /\ running = Cardinality(InStage("running"))
    /\ running <= MaxConcurrency

\* The queue holds each waiting task once.
QueueIsWaiting ==
    /\ \A i \in 1..Len(queue) : stage[queue[i]] = "queued"
    /\ \A i, j \in 1..Len(queue) : queue[i] = queue[j] => i = j
    /\ \A t \in InStage("queued") : \E i \in 1..Len(queue) : queue[i] = t

\* No wake-up is lost: while a task waits, the running and the woken ones fill
\* the pool, so somebody is left whose end wakes the next.
NoLostWakeup ==
    queue # <<>> => running + Cardinality(InStage("woken")) >= MaxConcurrency

\* What the pool relies on, inductively.
PoolInv == PoolTypeOK /\ WithinCapacity /\ QueueIsWaiting /\ NoLostWakeup
=============================================================================
