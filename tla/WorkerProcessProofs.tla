-------------------------- MODULE WorkerProcessProofs --------------------------
(***************************************************************************)
(* The execution pool stays within its size and loses no wake-up, for any  *)
(* number of tasks: the count of woken tasks is what makes its invariant   *)
(* inductive, for an end lowers the running count and raises the woken     *)
(* one.  The worker process is such a pool with counters around it, and    *)
(* keeps its slots, its queues' limits and its drain in order whatever its *)
(* polls, the requests that change a queue and the signal interleave to.   *)
(***************************************************************************)
EXTENDS WorkerProcess, FiniteSetTheorems, TLAPS

-----------------------------------------------------------------------------
(* The pool *)


\* A stage is a finite set whose size is a number.
LEMMA StageFinite ==
  ASSUME NEW s
  PROVE  IsFiniteSet(InStage(s)) /\ Cardinality(InStage(s)) \in Nat
<1>1. IsFiniteSet(InStage(s))
  BY PoolAssumption, FS_Subset DEF InStage
<1> QED BY <1>1, FS_CardinalityType

\* The same of the stage after a step.
LEMMA StageFiniteNext ==
  ASSUME NEW s
  PROVE  IsFiniteSet(InStage(s)') /\ Cardinality(InStage(s)') \in Nat
<1>1. IsFiniteSet(InStage(s)')
  BY PoolAssumption, FS_Subset DEF InStage
<1> QED BY <1>1, FS_CardinalityType

\* How the counts change when one task moves from stage a to stage b.
LEMMA MoveOne ==
  ASSUME PoolTypeOK, NEW t \in Tasks, NEW CONSTANT a \in Stages, NEW CONSTANT b \in Stages,
         stage[t] = a, a # b, stage' = [stage EXCEPT ![t] = b]
  PROVE  /\ Cardinality(InStage(b)') = Cardinality(InStage(b)) + 1
         /\ Cardinality(InStage(a)') = Cardinality(InStage(a)) - 1
         /\ \A s \in Stages \ {a, b} : InStage(s)' = InStage(s)
<1>1. /\ InStage(b)' = InStage(b) \cup {t} /\ t \notin InStage(b)
      /\ InStage(a)' = InStage(a) \ {t} /\ t \in InStage(a)
      /\ \A s \in Stages \ {a, b} : InStage(s)' = InStage(s)
  BY DEF InStage, PoolTypeOK
<1>2. Cardinality(InStage(b) \cup {t}) = Cardinality(InStage(b)) + 1
  BY <1>1, StageFinite, FS_AddElement
<1>3. Cardinality(InStage(a) \ {t}) = Cardinality(InStage(a)) - 1
  BY <1>1, StageFinite, FS_RemoveElement
<1> QED BY <1>1, <1>2, <1>3

LEMMA PoolInitInv == PoolInit => PoolInv
<1> SUFFICES ASSUME PoolInit PROVE PoolInv
  OBVIOUS
<1>1. InStage("running") = {}
  BY DEF PoolInit, InStage
<1>2. WithinCapacity
  BY <1>1, FS_EmptySet, PoolAssumption DEF WithinCapacity, PoolInit
<1>3. PoolTypeOK /\ QueueIsWaiting /\ NoLostWakeup
  BY DEF PoolInit, PoolTypeOK, Stages, QueueIsWaiting, NoLostWakeup, InStage
<1> QED BY <1>2, <1>3 DEF PoolInv

\* A new or woken task that finds room.
LEMMA BeginInv ==
  ASSUME PoolInv, NEW t \in Tasks, stage[t] \in {"new", "woken"}, Begin(t)
  PROVE  PoolInv'
<1>1. PoolTypeOK'
  BY DEF PoolInv, PoolTypeOK, Begin, Stages
<1>2. /\ Cardinality(InStage("running")') = Cardinality(InStage("running")) + 1
      /\ Cardinality(InStage("woken")') >= Cardinality(InStage("woken")) - 1
  <2>1. PoolTypeOK /\ stage' = [stage EXCEPT ![t] = "running"]
        /\ "running" \in Stages /\ "woken" \in Stages /\ "new" \in Stages
    BY DEF PoolInv, Begin, Stages
  <2>2. CASE stage[t] = "woken"
    <3>1. /\ Cardinality(InStage("running")') = Cardinality(InStage("running")) + 1
          /\ Cardinality(InStage("woken")') = Cardinality(InStage("woken")) - 1
      BY <2>1, <2>2, MoveOne
    <3> QED BY <3>1, StageFinite, StageFiniteNext
  <2>3. CASE stage[t] = "new"
    <3>1. /\ Cardinality(InStage("running")') = Cardinality(InStage("running")) + 1
          /\ \A s \in Stages \ {"new", "running"} : InStage(s)' = InStage(s)
      BY <2>1, <2>3, MoveOne
    <3>2. InStage("woken")' = InStage("woken")
      BY <3>1, <2>1
    <3> QED BY <3>1, <3>2, StageFinite
  <2> QED BY <2>2, <2>3
<1>3. WithinCapacity'
  BY <1>2, PoolAssumption DEF PoolInv, PoolTypeOK, WithinCapacity, Begin
<1>4. QueueIsWaiting'
  BY DEF PoolInv, PoolTypeOK, QueueIsWaiting, Begin, InStage
<1>5. NoLostWakeup'
  BY <1>2, StageFinite, StageFiniteNext, PoolAssumption
  DEF PoolInv, PoolTypeOK, NoLostWakeup, Begin
<1> QED BY <1>1, <1>3, <1>4, <1>5 DEF PoolInv

\* A new or woken task that finds the pool full.
LEMMA WaitInv ==
  ASSUME PoolInv, NEW t \in Tasks, stage[t] \in {"new", "woken"}, Wait(t)
  PROVE  PoolInv'
<1>1. /\ queue' = Append(queue, t) /\ queue \in Seq(Tasks) /\ queue' \in Seq(Tasks)
      /\ stage' = [stage EXCEPT ![t] = "queued"] /\ running' = running
      /\ running >= MaxConcurrency
  BY DEF PoolInv, PoolTypeOK, Wait
<1>2. PoolTypeOK'
  BY <1>1 DEF PoolInv, PoolTypeOK, Stages
<1>3. InStage("running")' = InStage("running")
  BY <1>1 DEF PoolInv, PoolTypeOK, InStage
<1>4. WithinCapacity'
  BY <1>1, <1>3 DEF PoolInv, WithinCapacity
<1>5. QueueIsWaiting'
  <2>1. /\ Len(queue') = Len(queue) + 1
        /\ queue'[Len(queue) + 1] = t
        /\ \A i \in 1..Len(queue) : queue'[i] = queue[i] /\ queue[i] \in Tasks
    BY <1>1
  <2>2. \A i \in 1..Len(queue) : queue[i] # t
    BY <2>1 DEF PoolInv, QueueIsWaiting
  <2>3. \A i \in 1..Len(queue') : i \in 1..Len(queue) \/ i = Len(queue) + 1
    BY <2>1, <1>1
  <2>4. \A i \in 1..Len(queue') : stage'[queue'[i]] = "queued"
    BY <2>1, <2>2, <2>3, <1>1 DEF PoolInv, PoolTypeOK, QueueIsWaiting
  <2>5. \A i, j \in 1..Len(queue') : queue'[i] = queue'[j] => i = j
    BY <2>1, <2>2, <2>3 DEF PoolInv, QueueIsWaiting
  <2>6. ASSUME NEW u \in InStage("queued")'
        PROVE  \E i \in 1..Len(queue') : queue'[i] = u
    <3>1. CASE u = t
      BY <3>1, <2>1, <1>1
    <3>2. CASE u # t
      <4>1. u \in InStage("queued")
        BY <2>6, <3>2, <1>1 DEF PoolInv, PoolTypeOK, InStage
      <4>2. PICK i \in 1..Len(queue) : queue[i] = u
        BY <4>1 DEF PoolInv, QueueIsWaiting
      <4> QED BY <4>2, <2>1, <1>1
    <3> QED BY <3>1, <3>2
  <2> QED BY <2>4, <2>5, <2>6 DEF QueueIsWaiting
<1>6. NoLostWakeup'
  BY <1>1, StageFiniteNext, PoolAssumption DEF PoolInv, PoolTypeOK, NoLostWakeup
<1> QED BY <1>2, <1>4, <1>5, <1>6 DEF PoolInv

\* The end of a running task while others wait: the first of them is woken.
LEMMA WakeInv ==
  ASSUME PoolInv, NEW t \in Tasks, Finish(t), queue # <<>>
  PROVE  PoolInv'
<1> DEFINE h == Head(queue)
<1>1. /\ stage[t] = "running" /\ running' = running - 1
      /\ stage' = [stage EXCEPT ![t] = "done", ![h] = "woken"]
      /\ queue' = Tail(queue)
  BY DEF Finish
<1>2. /\ queue \in Seq(Tasks) /\ Len(queue) \in Nat /\ Len(queue) >= 1 /\ h = queue[1]
      /\ queue' \in Seq(Tasks) /\ Len(queue') = Len(queue) - 1
      /\ \A i \in 1..Len(queue') : queue'[i] = queue[i + 1]
  BY <1>1 DEF PoolInv, PoolTypeOK
<1>3. h \in Tasks /\ stage[h] = "queued" /\ h # t
  BY <1>1, <1>2 DEF PoolInv, QueueIsWaiting
<1>4. stage \in [Tasks -> Stages]
  BY DEF PoolInv, PoolTypeOK
<1> HIDE DEF h
<1>5. /\ InStage("running")' = InStage("running") \ {t} /\ t \in InStage("running")
      /\ InStage("woken")' = InStage("woken") \cup {h} /\ h \notin InStage("woken")
      /\ InStage("queued")' = InStage("queued") \ {h}
      /\ \A u \in Tasks \ {t, h} : stage'[u] = stage[u]
  BY <1>1, <1>3, <1>4 DEF InStage
<1>6. /\ Cardinality(InStage("running")') = Cardinality(InStage("running")) - 1
      /\ Cardinality(InStage("woken")') = Cardinality(InStage("woken")) + 1
  <2>1. Cardinality(InStage("running") \ {t}) = Cardinality(InStage("running")) - 1
    BY <1>5, StageFinite, FS_RemoveElement
  <2>2. Cardinality(InStage("woken") \cup {h}) = Cardinality(InStage("woken")) + 1
    BY <1>5, StageFinite, FS_AddElement
  <2> QED BY <1>5, <2>1, <2>2
<1>7. WithinCapacity' /\ running' \in Nat
  BY <1>1, <1>6, StageFinite, StageFiniteNext, PoolAssumption
  DEF PoolInv, PoolTypeOK, WithinCapacity
<1>8. PoolTypeOK'
  <2>1. stage' \in [Tasks -> Stages]
    BY <1>1, <1>4 DEF Stages
  <2> QED BY <2>1, <1>2, <1>7 DEF PoolTypeOK
<1>9. QueueIsWaiting'
  <2>1. \A i \in 1..Len(queue') : i + 1 \in 1..Len(queue) /\ i + 1 # 1
    BY <1>2
  <2>2. \A i \in 1..Len(queue') : /\ stage[queue'[i]] = "queued"
                                  /\ queue'[i] # h /\ queue'[i] \in Tasks
    BY <2>1, <1>2 DEF PoolInv, QueueIsWaiting
  <2>3. \A i \in 1..Len(queue') : stage'[queue'[i]] = "queued"
    BY <2>2, <1>5, <1>1
  <2>4. \A i, j \in 1..Len(queue') : queue'[i] = queue'[j] => i = j
    BY <2>1, <1>2 DEF PoolInv, QueueIsWaiting
  <2>5. ASSUME NEW u \in InStage("queued")'
        PROVE  \E i \in 1..Len(queue') : queue'[i] = u
    <3>1. u \in InStage("queued") /\ u # h
      BY <2>5, <1>5
    <3>2. PICK k \in 1..Len(queue) : queue[k] = u
      BY <3>1 DEF PoolInv, QueueIsWaiting
    <3>3. k - 1 \in 1..Len(queue') /\ (k - 1) + 1 = k
      BY <3>1, <3>2, <1>2
    <3> QED BY <3>2, <3>3, <1>2
  <2> QED BY <2>3, <2>4, <2>5 DEF QueueIsWaiting
<1>10. NoLostWakeup'
  BY <1>1, <1>6, StageFinite, StageFiniteNext, PoolAssumption
  DEF PoolInv, PoolTypeOK, NoLostWakeup
<1> QED BY <1>7, <1>8, <1>9, <1>10 DEF PoolInv

\* The end of a running task while nobody waits.
LEMMA EndInv ==
  ASSUME PoolInv, NEW t \in Tasks, Finish(t), queue = <<>>
  PROVE  PoolInv'
<1>1. /\ stage[t] = "running" /\ running' = running - 1 /\ queue' = <<>>
      /\ stage' = [stage EXCEPT ![t] = "done"] /\ stage \in [Tasks -> Stages]
  BY DEF Finish, PoolInv, PoolTypeOK
<1>2. /\ InStage("running")' = InStage("running") \ {t} /\ t \in InStage("running")
      /\ InStage("queued")' = InStage("queued")
  BY <1>1 DEF InStage
<1>3. Cardinality(InStage("running")') = Cardinality(InStage("running")) - 1
  BY <1>2, StageFinite, FS_RemoveElement
<1>4. WithinCapacity' /\ running' \in Nat
  BY <1>1, <1>3, StageFinite, StageFiniteNext, PoolAssumption
  DEF PoolInv, PoolTypeOK, WithinCapacity
<1>5. PoolTypeOK'
  BY <1>1, <1>4 DEF PoolInv, PoolTypeOK, Stages
<1>6. QueueIsWaiting' /\ NoLostWakeup'
  BY <1>1, <1>2 DEF PoolInv, QueueIsWaiting, NoLostWakeup
<1> QED BY <1>4, <1>5, <1>6 DEF PoolInv

LEMMA PoolNextInv == PoolInv /\ [PoolNext]_poolVars => PoolInv'
<1> SUFFICES ASSUME PoolInv, [PoolNext]_poolVars PROVE PoolInv'
  OBVIOUS
<1>1. ASSUME NEW t \in Tasks, Run(t) \/ Resume(t) PROVE PoolInv'
  BY <1>1, BeginInv, WaitInv DEF Run, Resume
<1>2. ASSUME NEW t \in Tasks, Finish(t) PROVE PoolInv'
  BY <1>2, WakeInv, EndInv
<1>3. CASE UNCHANGED poolVars
  BY <1>3 DEF poolVars, PoolInv, PoolTypeOK, WithinCapacity, QueueIsWaiting,
     NoLostWakeup, InStage
<1> QED BY <1>1, <1>2, <1>3 DEF PoolNext

\* The pool never runs more functions than its size, counts them exactly, and
\* whenever somebody waits the running and woken tasks fill it.
THEOREM PoolInvariant == PoolSpec => []PoolInv
BY PoolInitInv, PoolNextInv, PTL DEF PoolSpec

\* No wake-up is lost, for any number of tasks and any size of the pool.
THEOREM WakeupsKept == PoolSpec => []NoLostWakeup
<1>1. PoolInv => NoLostWakeup
  BY DEF PoolInv
<1> QED BY <1>1, PoolInvariant, PTL

-----------------------------------------------------------------------------
(* The worker process *)

\* What it does to its pool is what the pool allows: a claimed job that gets a
\* slot calls run, and nothing else of the worker touches the pool.
LEMMA StepIsPoolStep == [Next]_vars => [PoolNext]_poolVars
<1> SUFFICES ASSUME [Next]_vars PROVE [PoolNext]_poolVars
  OBVIOUS
<1>1. ASSUME NEW p \in Polls, NEW t \in Tasks, Dispatch(p, t) PROVE PoolNext
  BY <1>1 DEF Dispatch, PoolNext
<1>2. ASSUME NEW t \in Tasks, PoolResume(t) \/ PoolFinish(t) PROVE PoolNext
  BY <1>2 DEF PoolResume, PoolFinish, PoolNext
<1>3. ASSUME NEW p \in Polls, PollStart(p) \/ RefreshRead(p) \/ Refresh(p) \/ PollEligible(p)
      PROVE  UNCHANGED poolVars
  BY <1>3 DEF PollStart, RefreshRead, Refresh, PollEligible
<1>4. ASSUME NEW p \in Polls, NEW batch \in SUBSET Tasks, PollClaim(p, batch)
      PROVE  UNCHANGED poolVars
  BY <1>4 DEF PollClaim
<1>5. ASSUME NEW p \in Polls, NEW t \in Tasks, Refuse(p, t) \/ Abandon(p, t)
      PROVE  UNCHANGED poolVars
  BY <1>5 DEF Refuse, Abandon
<1>6. ASSUME NEW t \in Tasks, MarkRunning(t) \/ Complete(t) \/ ReleaseSlot(t)
      PROVE  UNCHANGED poolVars
  BY <1>6 DEF MarkRunning, Complete, ReleaseSlot
<1>7. ASSUME NEW q \in Queues, ChangeQueue(q) PROVE UNCHANGED poolVars
  BY <1>7 DEF ChangeQueue, SetStatus, UpdateQueue
<1>8. CASE Signal \/ Shutdown \/ ForceExit
  BY <1>8 DEF Signal, Shutdown, ArmTimeout, Drained, Exit, ForceExit
<1>9. CASE UNCHANGED vars
  BY <1>9 DEF vars
<1> QED BY <1>1, <1>2, <1>3, <1>4, <1>5, <1>6, <1>7, <1>8, <1>9
        DEF Next, PollStep, ExecuteStep

\* The worker process implements the pool: whatever polls, requests and signals
\* do, its calls of run, wake-ups and ends are those of an ExecutionPool.
THEOREM WorkerImplementsPool == Spec => PoolSpec
<1>1. Init => PoolInit
  BY DEF Init
<1> QED BY <1>1, StepIsPoolStep, PTL DEF Spec, PoolSpec

\* So the pool of a worker never runs more than WORKER_CONCURRENCY functions and
\* loses no wake-up.
THEOREM WorkerKeepsPool == Spec => []PoolInv
BY WorkerImplementsPool, PoolInvariant, PTL

\* What the worker's counters, limits and drain rely on, inductively.
HoldersOf(q) == {t \in Holders : QueueOf[t] = q}

\* executeJob runs inside the pool, and the row follows it.
StepsMatch == \A t \in Tasks :
    /\ step[t] # "none" <=> stage[t] = "running"
    /\ row[t] = "queued" => stage[t] = "new"
    /\ stage[t] \in {"queued", "woken"} \/ step[t] = "starting" => row[t] = "claimed"
    /\ step[t] = "reporting" => row[t] = "settled"

\* A claimed job is in the loop of one poll, and has not called run yet.
PollsHold == \A p \in Polls :
    /\ \A t \in poll[p].todo : row[t] = "claimed" /\ stage[t] = "new"
    /\ \A o \in Polls \ {p} : poll[o].todo \cap poll[p].todo = {}
    /\ poll[p].todo # {} => poll[p].pc = "loop"
    /\ poll[p].eligible # {} => poll[p].pc = "claiming"

CountsExact ==
    /\ globalActive = Cardinality(Holders)
    /\ \A q \in Queues : active[q] = Cardinality(HoldersOf(q))

\* bound allows the limit, or it allows everything the worker may run.
Covers(q, limit) == limit <= bound[q] \/ Concurrency <= bound[q]

\* Poll p may take a job of q although it has read no limit of q.
MayOverlook(p, q) ==
    \/ Active(q) /\ poll[p].pc = "refreshed" /\ poll[p].read[q] = 0
    \/ Active(q) /\ poll[p].pc = "reading"
    \/ q \in poll[p].eligible
    \/ \E t \in poll[p].todo : QueueOf[t] = q

LimitsCovered == \A q \in Queues :
    /\ Covers(q, queues[q].limit)
    /\ Covers(q, queueLimits[q])
    /\ \A p \in Polls : Covers(q, poll[p].read[q])
    /\ queueLimits[q] = 0 => \A p \in Polls : MayOverlook(p, q) => Concurrency <= bound[q]
    /\ active[q] <= bound[q]

\* What a poll without company has asked for fits into the free slots.
AlonePolls == \A p \in Polls : poll[p].alone =>
    /\ poll[p].pc # "idle" => \A o \in Polls \ {p} : poll[o].pc = "idle"
    /\ poll[p].pc = "claiming" => poll[p].limit + globalActive <= Concurrency
    /\ Cardinality(poll[p].todo) + globalActive <= Concurrency

\* A job that was executing at the signal executes still or is settled.
Signalled ==
    /\ proc = "up" => atSignal = {}
    /\ \A t \in atSignal : t \in activeJobs \/ row[t] = "settled"
    /\ proc \in {"stopping", "stopped"} => \A t \in atSignal : row[t] = "settled"

WorkerInv ==
    /\ TypeOK /\ PoolInv
    /\ StepsMatch /\ PollsHold /\ CountsExact /\ LimitsCovered /\ AlonePolls /\ Signalled

PollRecord == [pc : {"idle", "refreshing", "refreshed", "reading", "claiming", "loop"},
               read : [Queues -> Limits \cup {0}], eligible : SUBSET Queues,
               limit : 0..Concurrency, todo : SUBSET Tasks, alone : BOOLEAN]

-----------------------------------------------------------------------------
(* Lemmas about slots and polls *)

\* The jobs with a slot are finitely many, and those of a queue not more.
LEMMA HoldersFinite ==
  ASSUME NEW q
  PROVE  /\ IsFiniteSet(Holders) /\ Cardinality(Holders) \in Nat
         /\ IsFiniteSet(HoldersOf(q)) /\ Cardinality(HoldersOf(q)) \in Nat
         /\ Cardinality(HoldersOf(q)) <= Cardinality(Holders)
<1>1. IsFiniteSet(Holders)
  BY PoolAssumption, FS_Subset DEF Holders
<1>2. HoldersOf(q) \subseteq Holders
  BY DEF HoldersOf
<1>3. IsFiniteSet(HoldersOf(q)) /\ Cardinality(HoldersOf(q)) <= Cardinality(Holders)
  BY <1>1, <1>2, FS_Subset
<1> QED BY <1>1, <1>3, FS_CardinalityType

\* acquire: the job enters the holders, those of its queue and no others.
LEMMA HolderEnters ==
  ASSUME NEW t \in Tasks, t \notin Holders, Holders' = Holders \cup {t}, QueueAssumption
  PROVE  /\ Cardinality(Holders') = Cardinality(Holders) + 1
         /\ \A q \in Queues : Cardinality(HoldersOf(q)') =
              IF q = QueueOf[t] THEN Cardinality(HoldersOf(q)) + 1
              ELSE Cardinality(HoldersOf(q))
<1>1. Cardinality(Holders \cup {t}) = Cardinality(Holders) + 1
  BY HoldersFinite, FS_AddElement
<1>2. ASSUME NEW q \in Queues, q = QueueOf[t]
      PROVE  Cardinality(HoldersOf(q)') = Cardinality(HoldersOf(q)) + 1
  <2>1. HoldersOf(q)' = HoldersOf(q) \cup {t} /\ t \notin HoldersOf(q)
    BY <1>2 DEF HoldersOf
  <2>2. Cardinality(HoldersOf(q) \cup {t}) = Cardinality(HoldersOf(q)) + 1
    BY <2>1, HoldersFinite, FS_AddElement
  <2> QED BY <2>1, <2>2
<1>3. ASSUME NEW q \in Queues, q # QueueOf[t]
      PROVE  Cardinality(HoldersOf(q)') = Cardinality(HoldersOf(q))
  <2>1. HoldersOf(q)' = HoldersOf(q)
    BY <1>3 DEF HoldersOf
  <2> QED BY <2>1
<1> QED BY <1>1, <1>2, <1>3

\* release: the job leaves them.
LEMMA HolderLeaves ==
  ASSUME NEW t \in Tasks, t \in Holders, Holders' = Holders \ {t}, QueueAssumption
  PROVE  /\ Cardinality(Holders') = Cardinality(Holders) - 1
         /\ \A q \in Queues : Cardinality(HoldersOf(q)') =
              IF q = QueueOf[t] THEN Cardinality(HoldersOf(q)) - 1
              ELSE Cardinality(HoldersOf(q))
<1>1. Cardinality(Holders \ {t}) = Cardinality(Holders) - 1
  BY HoldersFinite, FS_RemoveElement
<1>2. ASSUME NEW q \in Queues, q = QueueOf[t]
      PROVE  Cardinality(HoldersOf(q)') = Cardinality(HoldersOf(q)) - 1
  <2>1. HoldersOf(q)' = HoldersOf(q) \ {t} /\ t \in HoldersOf(q)
    BY <1>2 DEF HoldersOf
  <2>2. Cardinality(HoldersOf(q) \ {t}) = Cardinality(HoldersOf(q)) - 1
    BY <2>1, HoldersFinite, FS_RemoveElement
  <2> QED BY <2>1, <2>2
<1>3. ASSUME NEW q \in Queues, q # QueueOf[t]
      PROVE  Cardinality(HoldersOf(q)') = Cardinality(HoldersOf(q))
  <2>1. HoldersOf(q)' = HoldersOf(q)
    BY <1>3 DEF HoldersOf
  <2> QED BY <2>1
<1> QED BY <1>1, <1>2, <1>3

\* The counters stay exact while nobody gets or loses a slot.
LEMMA CountsKept ==
  ASSUME CountsExact, Holders' = Holders, UNCHANGED <<globalActive, active>>
  PROVE  CountsExact'
<1>1. \A q : HoldersOf(q)' = HoldersOf(q)
  BY DEF HoldersOf
<1> QED BY <1>1 DEF CountsExact

\* The counters of the ConcurrencyManager bound each other.
LEMMA CountsOrdered ==
  ASSUME CountsExact, NEW q \in Queues
  PROVE  globalActive \in Nat /\ active[q] \in Nat /\ active[q] <= globalActive
BY HoldersFinite DEF CountsExact

LEMMA NoPollType == NoPoll \in PollRecord
<1>1. 0 \in 0..Concurrency
  BY PoolAssumption DEF Concurrency
<1>2. [q \in Queues |-> 0] \in [Queues -> Limits \cup {0}]
  OBVIOUS
<1> QED BY <1>1, <1>2 DEF NoPoll, PollRecord

\* One call of poll goes on, the others stay where they are.
LEMMA OnePoll ==
  ASSUME TypeOK, NEW p \in Polls, NEW r \in PollRecord, poll' = [poll EXCEPT ![p] = r]
  PROVE  /\ poll' \in [Polls -> PollRecord] /\ poll'[p] = r
         /\ \A o \in Polls \ {p} : poll'[o] = poll[o]
BY DEF TypeOK, PollRecord

\* The types but for those of the polls, where nothing else changes.
LEMMA PollTypes ==
  ASSUME TypeOK, poll' \in [Polls -> PollRecord], row' \in [Tasks -> {"queued", "claimed", "running", "settled"}],
         UNCHANGED <<poolVars, slotVars, queueVars, step, proc, atSignal>>
  PROVE  TypeOK'
BY DEF TypeOK, PollRecord, PoolTypeOK, poolVars, slotVars, queueVars

\* Limits and counts are numbers.
LEMMA Numbers ==
  ASSUME TypeOK, NEW q \in Queues
  PROVE  /\ bound[q] \in Nat /\ queueLimits[q] \in Nat /\ queues[q].limit \in Nat
         /\ \A p \in Polls : poll[p].read[q] \in Nat
         /\ active[q] \in Nat /\ globalActive \in Nat /\ Concurrency \in Nat
<1>1. Limits \cup {0} \subseteq Nat /\ Concurrency \in Nat
  BY QueueAssumption, PoolAssumption DEF Concurrency
<1>2. Limits \cup {Concurrency} \subseteq Nat
  BY <1>1
<1>3. bound[q] \in Limits \cup {Concurrency} /\ queueLimits[q] \in Limits \cup {0}
  BY DEF TypeOK
<1>4. queues[q].limit \in Limits
  BY DEF TypeOK, QueueRow
<1>5. \A p \in Polls : poll[p].read[q] \in Limits \cup {0}
  BY DEF TypeOK
<1>6. active[q] \in 0..Concurrency /\ globalActive \in 0..Concurrency
  BY DEF TypeOK
<1> QED BY <1>1, <1>2, <1>3, <1>4, <1>5, <1>6

-----------------------------------------------------------------------------
(* poll keeps the invariant *)

LEMMA PollStartInv ==
  ASSUME WorkerInv, PoolInv', NEW p \in Polls, PollStart(p)
  PROVE  WorkerInv'
<1> DEFINE others == {o \in Polls \ {p} : poll[o].pc # "idle"}
           r == [NoPoll EXCEPT !.pc = "refreshing", !.alone = (others = {})]
<1>1. /\ poll' = [o \in Polls |-> IF o = p THEN r
                                  ELSE IF o \in others THEN [poll[o] EXCEPT !.alone = FALSE]
                                  ELSE poll[o]]
      /\ UNCHANGED <<poolVars, slotVars, queueVars, row, step, proc, atSignal>>
      /\ proc = "up" /\ poll[p].pc = "idle" /\ globalActive < Concurrency
  BY DEF PollStart
<1>2. poll \in [Polls -> PollRecord] /\ TypeOK
  BY DEF WorkerInv, TypeOK, PollRecord
<1>3. r \in PollRecord /\ r.pc = "refreshing" /\ r.read = [q \in Queues |-> 0]
      /\ r.eligible = {} /\ r.todo = {} /\ (r.alone <=> others = {})
  BY NoPollType DEF NoPoll, PollRecord
<1>4. /\ poll'[p] = r
      /\ \A o \in Polls \ {p} :
           /\ poll'[o] \in PollRecord
           /\ poll'[o].pc = poll[o].pc /\ poll'[o].read = poll[o].read
           /\ poll'[o].eligible = poll[o].eligible /\ poll'[o].todo = poll[o].todo
           /\ poll'[o].limit = poll[o].limit
           /\ poll'[o].alone => poll[o].alone /\ poll[o].pc = "idle"
  BY <1>1, <1>2 DEF PollRecord
<1> HIDE DEF r
<1>5. TypeOK'
  <2>1. poll' \in [Polls -> PollRecord]
    BY <1>1, <1>3, <1>4
  <2> QED BY <1>1, <1>2, <2>1, PollTypes DEF TypeOK
<1>6. StepsMatch' /\ Signalled'
  BY <1>1 DEF WorkerInv, StepsMatch, Signalled, poolVars, activeJobs
<1>7. PollsHold'
  BY <1>1, <1>3, <1>4 DEF WorkerInv, PollsHold, poolVars
<1>8. CountsExact'
  BY <1>1, CountsKept DEF WorkerInv, poolVars, slotVars, Holders
<1>9. LimitsCovered'
  <2> SUFFICES ASSUME NEW q \in Queues PROVE LimitsCovered!(q)'
    BY DEF LimitsCovered
  <2>1. LimitsCovered!(q)
    BY DEF WorkerInv, LimitsCovered
  <2>2. Active(q)' = Active(q) /\ r.read[q] = 0 /\ bound' = bound /\ queues' = queues
        /\ queueLimits' = queueLimits /\ active' = active
    BY <1>1, <1>3 DEF Active, queueVars, slotVars
  <2>3. bound[q] \in Nat
    BY <1>2, QueueAssumption, PoolAssumption DEF TypeOK, Concurrency
  <2>4. \A o \in Polls : MayOverlook(o, q)' => o # p /\ MayOverlook(o, q)
    BY <2>2, <1>3, <1>4 DEF MayOverlook
  <2>5. \A o \in Polls : Covers(q, poll[o].read[q])'
    BY <2>1, <2>2, <2>3, <1>4 DEF Covers
  <2> QED BY <2>1, <2>2, <2>4, <2>5 DEF Covers
<1>10. AlonePolls'
  <2> SUFFICES ASSUME NEW o \in Polls, poll'[o].alone PROVE AlonePolls!(o)'
    BY DEF AlonePolls
  <2>1. globalActive' = globalActive /\ globalActive \in Nat
    BY <1>1, <1>2, PoolAssumption DEF slotVars, TypeOK
  <2>2. poll'[o].todo = {}
    BY <1>3, <1>4 DEF WorkerInv, PollsHold
  <2>3. Cardinality(poll'[o].todo) = 0
    BY <2>2, FS_EmptySet
  <2>4. poll'[o].pc # "idle" => \A u \in Polls \ {o} : poll'[u].pc = "idle"
    <3>1. CASE o = p
      BY <3>1, <1>3, <1>4, <2>1
    <3>2. CASE o # p
      BY <3>2, <1>4
    <3> QED BY <3>1, <3>2
  <2>5. poll'[o].pc # "claiming"
    BY <1>3, <1>4
  <2> QED BY <2>1, <2>3, <2>4, <2>5, <1>1, PoolAssumption DEF Concurrency
<1> QED BY <1>5, <1>6, <1>7, <1>8, <1>9, <1>10 DEF WorkerInv

LEMMA RefreshReadInv ==
  ASSUME WorkerInv, PoolInv', NEW p \in Polls, RefreshRead(p)
  PROVE  WorkerInv'
<1> DEFINE r == [poll[p] EXCEPT !.pc = "refreshed", !.read = ActiveLimits]
<1>1. /\ poll' = [poll EXCEPT ![p] = r] /\ poll[p].pc = "refreshing"
      /\ UNCHANGED <<poolVars, slotVars, queueVars, row, step, proc, atSignal>>
  BY DEF RefreshRead
<1>2. poll \in [Polls -> PollRecord] /\ TypeOK
  BY DEF WorkerInv, TypeOK, PollRecord
<1>3. ActiveLimits \in [Queues -> Limits \cup {0}]
  BY <1>2 DEF ActiveLimits, TypeOK, QueueRow
<1>4. r \in PollRecord /\ r.pc = "refreshed" /\ r.read = ActiveLimits /\ r.todo = poll[p].todo
      /\ r.eligible = poll[p].eligible /\ (r.alone <=> poll[p].alone)
  BY <1>2, <1>3 DEF PollRecord
<1> HIDE DEF r
<1>5. /\ poll' \in [Polls -> PollRecord] /\ poll'[p] = r
      /\ \A o \in Polls \ {p} : poll'[o] = poll[o]
  BY <1>1, <1>2, <1>4, OnePoll
<1>6. TypeOK'
  BY <1>1, <1>2, <1>5, PollTypes DEF TypeOK
<1>7. StepsMatch' /\ Signalled'
  BY <1>1 DEF WorkerInv, StepsMatch, Signalled, poolVars, activeJobs
<1>8. CountsExact'
  BY <1>1, CountsKept DEF WorkerInv, poolVars, slotVars, Holders
<1>9. PollsHold'
  BY <1>1, <1>4, <1>5 DEF WorkerInv, PollsHold, poolVars
<1>10. LimitsCovered'
  <2> SUFFICES ASSUME NEW q \in Queues PROVE LimitsCovered!(q)'
    BY DEF LimitsCovered
  <2>1. LimitsCovered!(q)
    BY DEF WorkerInv, LimitsCovered
  <2>2. Active(q)' = Active(q) /\ bound' = bound /\ queues' = queues
        /\ queueLimits' = queueLimits /\ active' = active
    BY <1>1 DEF Active, queueVars, slotVars
  <2>3. bound[q] \in Nat /\ queues[q].limit # 0
    BY <1>2, QueueAssumption, PoolAssumption DEF TypeOK, Concurrency, QueueRow
  <2>4. r.read[q] = IF Active(q) THEN queues[q].limit ELSE 0
    BY <1>4 DEF ActiveLimits
  <2>5. \A o \in Polls : MayOverlook(o, q)' => MayOverlook(o, q)
    BY <2>2, <2>3, <2>4, <1>4, <1>5 DEF MayOverlook
  <2>6. \A o \in Polls : Covers(q, poll[o].read[q])'
    BY <2>1, <2>2, <2>3, <2>4, <1>5 DEF Covers
  <2> QED BY <2>1, <2>2, <2>5, <2>6 DEF Covers
<1>11. AlonePolls'
  BY <1>1, <1>4, <1>5 DEF WorkerInv, AlonePolls, slotVars
<1> QED BY <1>6, <1>7, <1>8, <1>9, <1>10, <1>11 DEF WorkerInv

LEMMA RefreshInv ==
  ASSUME WorkerInv, PoolInv', NEW p \in Polls, Refresh(p)
  PROVE  WorkerInv'
<1> DEFINE r == [poll[p] EXCEPT !.pc = "reading", !.read = NoPoll.read]
<1>1. /\ poll' = [poll EXCEPT ![p] = r] /\ poll[p].pc = "refreshed"
      /\ queueLimits' = [q \in Queues |->
            IF poll[p].read[q] = 0 THEN queueLimits[q] ELSE poll[p].read[q]]
      /\ UNCHANGED <<poolVars, globalActive, active, queueVars, row, step, proc, atSignal>>
  BY DEF Refresh
<1>2. poll \in [Polls -> PollRecord] /\ TypeOK
  BY DEF WorkerInv, TypeOK, PollRecord
<1>3. NoPoll.read = [q \in Queues |-> 0] /\ NoPoll.read \in [Queues -> Limits \cup {0}]
  BY DEF NoPoll
<1>4. r \in PollRecord /\ r.pc = "reading" /\ r.read = NoPoll.read /\ r.todo = poll[p].todo
      /\ r.eligible = poll[p].eligible /\ (r.alone <=> poll[p].alone)
  BY <1>2, <1>3 DEF PollRecord
<1> HIDE DEF r
<1>5. /\ poll' \in [Polls -> PollRecord] /\ poll'[p] = r
      /\ \A o \in Polls \ {p} : poll'[o] = poll[o]
  BY <1>1, <1>2, <1>4, OnePoll
<1>6. TypeOK'
  <2>1. queueLimits' \in [Queues -> Limits \cup {0}]
    BY <1>1, <1>2 DEF TypeOK, PollRecord
  <2> QED BY <2>1, <1>1, <1>2, <1>5 DEF TypeOK, PoolTypeOK, PollRecord, poolVars, queueVars
<1>7. StepsMatch' /\ Signalled'
  BY <1>1 DEF WorkerInv, StepsMatch, Signalled, poolVars, activeJobs
<1>8. CountsExact'
  BY <1>1, CountsKept DEF WorkerInv, poolVars, Holders
<1>9. PollsHold'
  BY <1>1, <1>4, <1>5 DEF WorkerInv, PollsHold, poolVars
<1>10. LimitsCovered'
  <2> SUFFICES ASSUME NEW q \in Queues PROVE LimitsCovered!(q)'
    BY DEF LimitsCovered
  <2>1. LimitsCovered!(q)
    BY DEF WorkerInv, LimitsCovered
  <2>2. Active(q)' = Active(q) /\ bound' = bound /\ queues' = queues /\ active' = active
    BY <1>1 DEF Active, queueVars
  <2>3. queueLimits'[q] = IF poll[p].read[q] = 0 THEN queueLimits[q] ELSE poll[p].read[q]
    BY <1>1
  <2>4. bound[q] \in Nat /\ r.read[q] = 0
    BY <1>2, <1>3, <1>4, QueueAssumption, PoolAssumption DEF TypeOK, Concurrency
  <2>5. ASSUME queueLimits'[q] = 0 PROVE queueLimits[q] = 0 /\ poll[p].read[q] = 0
    BY <2>3, <2>5
  <2>6. ASSUME queueLimits'[q] = 0, NEW o \in Polls, MayOverlook(o, q)' PROVE MayOverlook(o, q)
    BY <2>2, <2>5, <2>6, <1>1, <1>4, <1>5 DEF MayOverlook
  <2>7. \A o \in Polls : Covers(q, poll[o].read[q])'
    BY <2>1, <2>2, <2>4, <1>5 DEF Covers
  <2>8. Covers(q, queueLimits[q])'
    BY <2>1, <2>2, <2>3 DEF Covers
  <2> QED BY <2>1, <2>2, <2>5, <2>6, <2>7, <2>8 DEF Covers
<1>11. AlonePolls'
  BY <1>1, <1>4, <1>5 DEF WorkerInv, AlonePolls
<1> QED BY <1>6, <1>7, <1>8, <1>9, <1>10, <1>11 DEF WorkerInv

LEMMA PollEligibleInv ==
  ASSUME WorkerInv, PoolInv', NEW p \in Polls, PollEligible(p)
  PROVE  WorkerInv'
<1> DEFINE eligible == {q \in Queues : Active(q) /\ CanAccept(q)}
           r == IF eligible = {} THEN NoPoll
                ELSE [poll[p] EXCEPT !.pc = "claiming", !.eligible = eligible,
                                     !.limit = Concurrency - globalActive]
<1>1. /\ poll' = [poll EXCEPT ![p] = r] /\ poll[p].pc = "reading"
      /\ UNCHANGED <<poolVars, slotVars, queueVars, row, step, proc, atSignal>>
  BY DEF PollEligible
<1>2. poll \in [Polls -> PollRecord] /\ TypeOK
  BY DEF WorkerInv, TypeOK, PollRecord
<1>3. Concurrency - globalActive \in 0..Concurrency /\ globalActive \in Nat
  BY <1>2, PoolAssumption DEF TypeOK, Concurrency
<1>4. poll[p].todo = {} /\ poll[p].eligible = {}
  BY <1>1 DEF WorkerInv, PollsHold
<1>5. /\ r \in PollRecord /\ r.todo = {} /\ r.pc \in {"idle", "claiming"}
      /\ \A q \in r.eligible : q \in Queues /\ Active(q)
      /\ r.eligible # {} => r.pc = "claiming"
      /\ r.pc = "claiming" => r.limit = Concurrency - globalActive /\ (r.alone <=> poll[p].alone)
      /\ \A q \in Queues : r.read[q] \in {0, poll[p].read[q]}
  <2>1. CASE eligible = {}
    BY <2>1, NoPollType DEF NoPoll
  <2>2. CASE eligible # {}
    BY <2>2, <1>2, <1>3, <1>4 DEF PollRecord
  <2> QED BY <2>1, <2>2
<1> HIDE DEF r, eligible
<1>6. /\ poll' \in [Polls -> PollRecord] /\ poll'[p] = r
      /\ \A o \in Polls \ {p} : poll'[o] = poll[o]
  BY <1>1, <1>2, <1>5, OnePoll
<1>7. TypeOK'
  BY <1>1, <1>2, <1>6, PollTypes DEF TypeOK
<1>8. StepsMatch' /\ Signalled'
  BY <1>1 DEF WorkerInv, StepsMatch, Signalled, poolVars, activeJobs
<1>9. CountsExact'
  BY <1>1, CountsKept DEF WorkerInv, poolVars, slotVars, Holders
<1>10. PollsHold'
  BY <1>1, <1>5, <1>6 DEF WorkerInv, PollsHold, poolVars
<1>11. LimitsCovered'
  <2> SUFFICES ASSUME NEW q \in Queues PROVE LimitsCovered!(q)'
    BY DEF LimitsCovered
  <2>1. LimitsCovered!(q)
    BY DEF WorkerInv, LimitsCovered
  <2>2. Active(q)' = Active(q) /\ bound' = bound /\ queues' = queues
        /\ queueLimits' = queueLimits /\ active' = active
    BY <1>1 DEF Active, queueVars, slotVars
  <2>3. bound[q] \in Nat
    BY <1>2, QueueAssumption, PoolAssumption DEF TypeOK, Concurrency
  <2>4. \A o \in Polls : MayOverlook(o, q)' => MayOverlook(o, q)
    BY <2>2, <1>1, <1>5, <1>6 DEF MayOverlook
  <2>5. \A o \in Polls : Covers(q, poll[o].read[q])'
    BY <2>1, <2>2, <2>3, <1>5, <1>6 DEF Covers
  <2> QED BY <2>1, <2>2, <2>4, <2>5 DEF Covers
<1>12. AlonePolls'
  <2> SUFFICES ASSUME NEW o \in Polls, poll'[o].alone PROVE AlonePolls!(o)'
    BY DEF AlonePolls
  <2>1. globalActive' = globalActive
    BY <1>1 DEF slotVars
  <2>2. CASE o = p /\ poll'[o].pc = "idle"
    <3>1. Cardinality(poll'[o].todo) = 0
      BY <2>2, <1>5, <1>6, FS_EmptySet
    <3> QED BY <3>1, <2>1, <2>2, <1>2, <1>3, PoolAssumption DEF Concurrency, TypeOK
  <2>3. CASE o = p /\ poll'[o].pc # "idle"
    <3>1. poll[p].alone /\ r.pc = "claiming"
      BY <2>3, <1>5, <1>6
    <3>2. \A u \in Polls \ {o} : poll'[u].pc = "idle"
      BY <3>1, <2>3, <1>1, <1>6 DEF WorkerInv, AlonePolls
    <3>3. r.limit + globalActive <= Concurrency /\ Cardinality(r.todo) = 0
      BY <3>1, <1>3, <1>5, FS_EmptySet, PoolAssumption DEF Concurrency
    <3> QED BY <3>1, <3>2, <3>3, <2>1, <2>3, <1>2, <1>3, <1>6, PoolAssumption
            DEF Concurrency, TypeOK
  <2>4. CASE o # p
    <3>1. AlonePolls!(o) /\ poll'[o] = poll[o] /\ poll[o].alone
      BY <2>4, <1>6 DEF WorkerInv, AlonePolls
    <3>2. poll[o].pc = "idle"
      BY <3>1, <2>4, <1>1
    <3> QED BY <3>1, <3>2, <2>1
  <2> QED BY <2>2, <2>3, <2>4
<1> QED BY <1>7, <1>8, <1>9, <1>10, <1>11, <1>12 DEF WorkerInv

LEMMA PollClaimInv ==
  ASSUME WorkerInv, PoolInv', NEW p \in Polls, NEW batch \in SUBSET Tasks, PollClaim(p, batch)
  PROVE  WorkerInv'
<1> DEFINE r == IF batch = {} THEN NoPoll
                ELSE [poll[p] EXCEPT !.pc = "loop", !.eligible = {}, !.limit = 0, !.todo = batch]
<1>1. /\ poll' = [poll EXCEPT ![p] = r] /\ poll[p].pc = "claiming"
      /\ \A t \in batch : row[t] = "queued" /\ QueueOf[t] \in poll[p].eligible
      /\ Cardinality(batch) <= poll[p].limit
      /\ row' = [t \in Tasks |-> IF t \in batch THEN "claimed" ELSE row[t]]
      /\ UNCHANGED <<poolVars, slotVars, queueVars, step, proc, atSignal>>
  BY DEF PollClaim, Offered
<1>2. poll \in [Polls -> PollRecord] /\ TypeOK
  BY DEF WorkerInv, TypeOK, PollRecord
<1>3. 0 \in 0..Concurrency /\ globalActive \in Nat
  BY <1>2, PoolAssumption DEF Concurrency, TypeOK
<1>4. /\ r \in PollRecord /\ r.pc \in {"idle", "loop"} /\ r.eligible = {} /\ r.todo = batch
      /\ r.todo # {} => r.pc = "loop"
      /\ r.pc = "loop" => (r.alone <=> poll[p].alone)
      /\ \A q \in Queues : r.read[q] \in {0, poll[p].read[q]}
  <2>1. CASE batch = {}
    BY <2>1, NoPollType DEF NoPoll
  <2>2. CASE batch # {}
    BY <2>2, <1>2, <1>3 DEF PollRecord
  <2> QED BY <2>1, <2>2
<1> HIDE DEF r
<1>5. /\ poll' \in [Polls -> PollRecord] /\ poll'[p] = r
      /\ \A o \in Polls \ {p} : poll'[o] = poll[o]
  BY <1>1, <1>2, <1>4, OnePoll
<1>6. TypeOK'
  <2>1. row' \in [Tasks -> {"queued", "claimed", "running", "settled"}]
    BY <1>1, <1>2 DEF TypeOK
  <2> QED BY <2>1, <1>1, <1>2, <1>5, PollTypes
<1>7. StepsMatch'
  BY <1>1 DEF WorkerInv, StepsMatch, poolVars
<1>8. Signalled'
  BY <1>1, <1>2 DEF WorkerInv, Signalled, activeJobs, TypeOK
<1>9. CountsExact'
  BY <1>1, CountsKept DEF WorkerInv, poolVars, slotVars, Holders
<1>10. PollsHold'
  <2>1. \A t \in batch : row[t] = "queued" /\ stage[t] = "new" /\ stage' = stage
    BY <1>1 DEF WorkerInv, StepsMatch, poolVars
  <2>2. \A o \in Polls : \A t \in poll'[o].todo : row'[t] = "claimed" /\ stage'[t] = "new"
    BY <2>1, <1>1, <1>2, <1>4, <1>5 DEF WorkerInv, PollsHold, poolVars, PollRecord
  <2>3. \A o \in Polls \ {p} : poll[o].todo \cap batch = {}
    BY <2>1 DEF WorkerInv, PollsHold
  <2>4. \A o, u \in Polls : o # u => poll'[o].todo \cap poll'[u].todo = {}
    BY <2>3, <1>4, <1>5 DEF WorkerInv, PollsHold
  <2>5. \A o \in Polls : /\ poll'[o].todo # {} => poll'[o].pc = "loop"
                         /\ poll'[o].eligible # {} => poll'[o].pc = "claiming"
    BY <1>4, <1>5 DEF WorkerInv, PollsHold
  <2> QED BY <2>2, <2>4, <2>5 DEF PollsHold
<1>11. LimitsCovered'
  <2> SUFFICES ASSUME NEW q \in Queues PROVE LimitsCovered!(q)'
    BY DEF LimitsCovered
  <2>1. LimitsCovered!(q)
    BY DEF WorkerInv, LimitsCovered
  <2>2. Active(q)' = Active(q) /\ bound' = bound /\ queues' = queues
        /\ queueLimits' = queueLimits /\ active' = active
    BY <1>1 DEF Active, queueVars, slotVars
  <2>3. bound[q] \in Nat
    BY <1>2, QueueAssumption, PoolAssumption DEF TypeOK, Concurrency
  <2>4. \A o \in Polls : MayOverlook(o, q)' => MayOverlook(o, q)
    BY <2>2, <1>1, <1>4, <1>5 DEF MayOverlook
  <2>5. \A o \in Polls : Covers(q, poll[o].read[q])'
    BY <2>1, <2>2, <2>3, <1>4, <1>5 DEF Covers
  <2> QED BY <2>1, <2>2, <2>4, <2>5 DEF Covers
<1>12. AlonePolls'
  <2> SUFFICES ASSUME NEW o \in Polls, poll'[o].alone PROVE AlonePolls!(o)'
    BY DEF AlonePolls
  <2>1. globalActive' = globalActive
    BY <1>1 DEF slotVars
  <2>2. CASE o = p /\ batch = {}
    <3>1. Cardinality(poll'[o].todo) = 0 /\ poll'[o].pc = "idle"
      BY <2>2, <1>4, <1>5, FS_EmptySet DEF r, NoPoll
    <3> QED BY <3>1, <2>1, <1>2, PoolAssumption DEF Concurrency, TypeOK
  <2>3. CASE o = p /\ batch # {}
    <3>1. poll[p].alone /\ poll'[o].pc = "loop" /\ poll'[o].todo = batch
      BY <2>3, <1>4, <1>5
    <3>2. /\ \A u \in Polls \ {p} : poll[u].pc = "idle"
          /\ poll[p].limit + globalActive <= Concurrency
      BY <3>1, <1>1 DEF WorkerInv, AlonePolls
    <3>3. Cardinality(batch) + globalActive <= Concurrency
      <4>1. Cardinality(batch) \in Nat
        BY PoolAssumption, FS_Subset, FS_CardinalityType
      <4> QED BY <4>1, <3>2, <1>1, <1>2, <1>3, PoolAssumption DEF Concurrency, PollRecord
    <3> QED BY <3>1, <3>2, <3>3, <2>1, <2>3, <1>5
  <2>4. CASE o # p
    <3>1. AlonePolls!(o) /\ poll'[o] = poll[o] /\ poll[o].alone
      BY <2>4, <1>5 DEF WorkerInv, AlonePolls
    <3>2. poll[o].pc = "idle"
      BY <3>1, <2>4, <1>1
    <3> QED BY <3>1, <3>2, <2>1
  <2> QED BY <2>2, <2>3, <2>4
<1> QED BY <1>6, <1>7, <1>8, <1>9, <1>10, <1>11, <1>12 DEF WorkerInv

\* What Handled does to a poll: the job leaves its loop, which ends with the last one.
LEMMA HandledPoll ==
  ASSUME WorkerInv, NEW p \in Polls, NEW t \in poll[p].todo, Handled(p, t)
  PROVE  /\ poll' \in [Polls -> PollRecord]
         /\ \A o \in Polls \ {p} : poll'[o] = poll[o]
         /\ poll'[p].todo = poll[p].todo \ {t} /\ poll'[p].eligible = {}
         /\ poll'[p].pc \in {"idle", "loop"} /\ poll[p].pc = "loop"
         /\ poll'[p].todo # {} => poll'[p].pc = "loop"
         /\ poll'[p].pc = "loop" => (poll'[p].alone <=> poll[p].alone)
         /\ \A q \in Queues : poll'[p].read[q] \in {0, poll[p].read[q]}
         /\ t \in Tasks /\ row[t] = "claimed" /\ stage[t] = "new"
         /\ \A o \in Polls \ {p} : t \notin poll[o].todo
<1> DEFINE r == IF poll[p].todo = {t} THEN NoPoll
                ELSE [poll[p] EXCEPT !.todo = poll[p].todo \ {t}]
<1>1. poll' = [poll EXCEPT ![p] = r]
  BY DEF Handled
<1>2. poll \in [Polls -> PollRecord] /\ TypeOK /\ poll[p] \in PollRecord
  BY DEF WorkerInv, TypeOK, PollRecord
<1>3. /\ poll[p].pc = "loop" /\ poll[p].eligible = {} /\ row[t] = "claimed" /\ stage[t] = "new"
      /\ \A o \in Polls \ {p} : t \notin poll[o].todo
  BY DEF WorkerInv, PollsHold
<1>4. /\ r \in PollRecord /\ r.pc \in {"idle", "loop"} /\ r.eligible = {}
      /\ r.todo = poll[p].todo \ {t}
      /\ r.todo # {} => r.pc = "loop"
      /\ r.pc = "loop" => (r.alone <=> poll[p].alone)
      /\ \A q \in Queues : r.read[q] \in {0, poll[p].read[q]}
  <2>1. CASE poll[p].todo = {t}
    BY <2>1, NoPollType DEF NoPoll
  <2>2. CASE poll[p].todo # {t}
    BY <2>2, <1>2, <1>3 DEF PollRecord
  <2> QED BY <2>1, <2>2
<1> HIDE DEF r
<1>5. /\ poll' \in [Polls -> PollRecord] /\ poll'[p] = r
      /\ \A o \in Polls \ {p} : poll'[o] = poll[o]
  BY <1>1, <1>2, <1>4, OnePoll
<1> QED BY <1>2, <1>3, <1>4, <1>5 DEF PollRecord

\* Then the limits are covered as before, unless a slot was taken.
LEMMA HandledLimits ==
  ASSUME WorkerInv, NEW p \in Polls, NEW t \in poll[p].todo, Handled(p, t),
         UNCHANGED <<queueLimits, queueVars>>, \A q \in Queues : active'[q] <= bound[q]
  PROVE  LimitsCovered'
<1> SUFFICES ASSUME NEW q \in Queues PROVE LimitsCovered!(q)'
  BY DEF LimitsCovered
<1>1. LimitsCovered!(q) /\ bound[q] \in Nat
  BY QueueAssumption, PoolAssumption DEF WorkerInv, LimitsCovered, TypeOK, Concurrency
<1>2. Active(q)' = Active(q) /\ bound' = bound /\ queues' = queues /\ queueLimits' = queueLimits
  BY DEF Active, queueVars
<1>3. \A o \in Polls : MayOverlook(o, q)' => MayOverlook(o, q)
  BY <1>2, HandledPoll DEF MayOverlook
<1>4. \A o \in Polls : Covers(q, poll[o].read[q])'
  BY <1>1, <1>2, HandledPoll DEF Covers
<1> QED BY <1>1, <1>2, <1>3, <1>4 DEF Covers

\* And each poll's jobs are still its own, if those it keeps were not touched.
LEMMA HandledHolds ==
  ASSUME WorkerInv, NEW p \in Polls, NEW t \in poll[p].todo, Handled(p, t),
         \A u \in Tasks \ {t} : row'[u] = row[u] /\ (stage[u] = "new" => stage'[u] = "new")
  PROVE  PollsHold'
<1>1. \A o \in Polls : \A u \in poll'[o].todo : u \in Tasks \ {t} /\ u \in poll[o].todo
  BY HandledPoll DEF WorkerInv, TypeOK
<1>2. \A o \in Polls : \A u \in poll'[o].todo : row'[u] = "claimed" /\ stage'[u] = "new"
  BY <1>1 DEF WorkerInv, PollsHold
<1>3. \A o, u \in Polls : o # u => poll'[o].todo \cap poll'[u].todo = {}
  BY <1>1 DEF WorkerInv, PollsHold
<1>4. \A o \in Polls : /\ poll'[o].todo # {} => poll'[o].pc = "loop"
                       /\ poll'[o].eligible # {} => poll'[o].pc = "claiming"
  BY HandledPoll DEF WorkerInv, PollsHold
<1> QED BY <1>2, <1>3, <1>4 DEF PollsHold

\* The handled job makes room for one slot.
LEMMA HandledAlone ==
  ASSUME WorkerInv, NEW p \in Polls, NEW t \in poll[p].todo, Handled(p, t),
         globalActive' \in 0..Concurrency, globalActive' <= globalActive + 1
  PROVE  AlonePolls'
<1> SUFFICES ASSUME NEW o \in Polls, poll'[o].alone PROVE AlonePolls!(o)'
  BY DEF AlonePolls
<1>1. TypeOK /\ globalActive \in Nat /\ Concurrency \in Nat /\ poll[p].todo \in SUBSET Tasks
  BY PoolAssumption DEF WorkerInv, TypeOK, Concurrency
<1>2. CASE poll'[o].pc = "idle"
  <2>1. poll'[o].todo = {}
    BY <1>2, HandledPoll DEF WorkerInv, PollsHold
  <2>2. Cardinality(poll'[o].todo) = 0
    BY <2>1, FS_EmptySet
  <2> QED BY <2>2, <1>1, <1>2
<1>3. CASE o = p /\ poll'[o].pc = "loop"
  <2>1. poll[p].alone /\ poll[p].pc = "loop" /\ poll'[o].todo = poll[p].todo \ {t}
    BY <1>3, HandledPoll
  <2>2. /\ \A u \in Polls \ {p} : poll[u].pc = "idle"
        /\ Cardinality(poll[p].todo) + globalActive <= Concurrency
    BY <2>1 DEF WorkerInv, AlonePolls
  <2>3. Cardinality(poll[p].todo \ {t}) = Cardinality(poll[p].todo) - 1
        /\ Cardinality(poll[p].todo) \in Nat
    <3>1. IsFiniteSet(poll[p].todo)
      BY <1>1, PoolAssumption, FS_Subset
    <3> QED BY <3>1, FS_RemoveElement, FS_CardinalityType
  <2>4. Cardinality(poll'[o].todo) + globalActive' <= Concurrency
    BY <2>1, <2>2, <2>3, <1>1
  <2> QED BY <2>2, <2>4, <1>3, HandledPoll
<1>4. CASE o # p /\ poll'[o].pc # "idle"
  <2>1. poll[o].alone /\ poll[o].pc # "idle" /\ poll[p].pc = "loop"
    BY <1>4, HandledPoll
  <2> QED BY <2>1, <1>4 DEF WorkerInv, AlonePolls
<1> QED BY <1>2, <1>3, <1>4, HandledPoll

LEMMA RefuseInv ==
  ASSUME WorkerInv, PoolInv', NEW p \in Polls, NEW t \in Tasks, Refuse(p, t)
  PROVE  WorkerInv'
<1>1. /\ t \in poll[p].todo /\ Handled(p, t) /\ row' = [row EXCEPT ![t] = "queued"]
      /\ UNCHANGED <<poolVars, slotVars, queueVars, step, proc, atSignal>>
  BY DEF Refuse
<1>2. TypeOK /\ row' \in [Tasks -> {"queued", "claimed", "running", "settled"}]
  BY <1>1 DEF WorkerInv, TypeOK
<1>3. TypeOK'
  BY <1>1, <1>2, HandledPoll, PollTypes
<1>4. row[t] = "claimed" /\ stage[t] = "new"
  BY <1>1, HandledPoll
<1>5. StepsMatch'
  BY <1>1, <1>2, <1>4 DEF WorkerInv, StepsMatch, poolVars, TypeOK
<1>6. Signalled'
  BY <1>1, <1>2, <1>4 DEF WorkerInv, Signalled, activeJobs, TypeOK
<1>7. CountsExact'
  BY <1>1, CountsKept DEF WorkerInv, poolVars, slotVars, Holders
<1>8. PollsHold'
  BY <1>1, <1>2, HandledHolds DEF poolVars, TypeOK
<1>9. LimitsCovered'
  BY <1>1, HandledLimits DEF slotVars, WorkerInv, LimitsCovered
<1>10. AlonePolls'
  BY <1>1, <1>2, HandledAlone, PoolAssumption DEF slotVars, TypeOK, Concurrency
<1> QED BY <1>3, <1>5, <1>6, <1>7, <1>8, <1>9, <1>10 DEF WorkerInv

LEMMA AbandonInv ==
  ASSUME WorkerInv, PoolInv', NEW p \in Polls, NEW t \in Tasks, Abandon(p, t)
  PROVE  WorkerInv'
<1>1. /\ t \in poll[p].todo /\ Handled(p, t)
      /\ UNCHANGED <<poolVars, slotVars, queueVars, row, step, proc, atSignal>>
  BY DEF Abandon
<1>2. TypeOK /\ row' \in [Tasks -> {"queued", "claimed", "running", "settled"}]
  BY <1>1 DEF WorkerInv, TypeOK
<1>3. TypeOK'
  BY <1>1, <1>2, HandledPoll, PollTypes
<1>4. StepsMatch' /\ Signalled'
  BY <1>1 DEF WorkerInv, StepsMatch, Signalled, poolVars, activeJobs
<1>5. CountsExact'
  BY <1>1, CountsKept DEF WorkerInv, poolVars, slotVars, Holders
<1>6. PollsHold'
  BY <1>1, <1>2, HandledHolds DEF poolVars
<1>7. LimitsCovered'
  BY <1>1, HandledLimits DEF slotVars, WorkerInv, LimitsCovered
<1>8. AlonePolls'
  BY <1>1, <1>2, HandledAlone, PoolAssumption DEF slotVars, TypeOK, Concurrency
<1> QED BY <1>3, <1>4, <1>5, <1>6, <1>7, <1>8 DEF WorkerInv

\* A job that gets a slot: below the global limit, and below the queue's limit if
\* the worker knows one.  If it does not, bound says that nothing limits the queue.
LEMMA DispatchInv ==
  ASSUME WorkerInv, PoolInv', NEW p \in Polls, NEW t \in Tasks, Dispatch(p, t)
  PROVE  WorkerInv'
<1> DEFINE k == QueueOf[t]
<1>1. /\ t \in poll[p].todo /\ Handled(p, t) /\ k \in Queues
      /\ CanAccept(k) /\ globalActive' = globalActive + 1
      /\ active' = [active EXCEPT ![k] = @ + 1]
      /\ Run(t) /\ StartStep(t)
      /\ UNCHANGED <<queueLimits, queueVars, row, proc, atSignal>>
  BY QueueAssumption DEF Dispatch, Acquire
<1> HIDE DEF k
<1>2. /\ TypeOK /\ row[t] = "claimed" /\ stage[t] = "new"
      /\ globalActive \in Nat /\ globalActive < Concurrency /\ Concurrency \in Nat
      /\ \A q \in Queues : active[q] \in Nat /\ active[q] <= globalActive
  BY <1>1, HandledPoll, CountsOrdered, PoolAssumption DEF WorkerInv, CanAccept, Concurrency
<1>3. step[t] = "none" /\ t \notin Holders
  BY <1>2 DEF WorkerInv, StepsMatch, Holders
<1>4. \/ /\ stage' = [stage EXCEPT ![t] = "running"]
         /\ step' = [step EXCEPT ![t] = "starting"]
      \/ /\ stage' = [stage EXCEPT ![t] = "queued"]
         /\ step' = step
  BY <1>1, <1>2 DEF Run, Begin, Wait, StartStep, TypeOK, PoolTypeOK
<1>5. Holders' = Holders \cup {t}
  BY <1>2, <1>3, <1>4 DEF Holders, TypeOK, PoolTypeOK
<1>6. CountsExact'
  <2>1. /\ Cardinality(Holders') = Cardinality(Holders) + 1
        /\ \A q \in Queues : Cardinality(HoldersOf(q)') =
             IF q = QueueOf[t] THEN Cardinality(HoldersOf(q)) + 1
             ELSE Cardinality(HoldersOf(q))
    BY <1>3, <1>5, HolderEnters, QueueAssumption
  <2>2. \A q \in Queues : active'[q] = Cardinality(HoldersOf(q)')
    BY <2>1, <1>1, <1>2 DEF WorkerInv, CountsExact, TypeOK, k
  <2> QED BY <2>1, <2>2, <1>1 DEF WorkerInv, CountsExact
<1>7. TypeOK'
  <2>1. globalActive' \in 0..Concurrency
    BY <1>1, <1>2
  <2>2. active' \in [Queues -> 0..Concurrency]
    BY <1>1, <1>2 DEF TypeOK
  <2>3. step' \in [Tasks -> Steps] /\ PoolTypeOK'
    BY <1>2, <1>4 DEF TypeOK, Steps, PoolInv
  <2>4. poll' \in [Polls -> PollRecord]
    BY <1>1, HandledPoll
  <2> QED BY <2>1, <2>2, <2>3, <2>4, <1>1, <1>2 DEF TypeOK, PollRecord, queueVars
<1>8. StepsMatch'
  BY <1>1, <1>2, <1>3, <1>4 DEF WorkerInv, StepsMatch, TypeOK, PoolTypeOK
<1>9. Signalled'
  BY <1>1, <1>2, <1>3, <1>4 DEF WorkerInv, Signalled, activeJobs, TypeOK
<1>10. PollsHold'
  BY <1>1, <1>2, <1>4, HandledHolds DEF TypeOK, PoolTypeOK
<1>11. LimitsCovered'
  <2>1. ASSUME NEW q \in Queues, q # k PROVE active'[q] <= bound[q]
    BY <2>1, <1>1, <1>2 DEF WorkerInv, LimitsCovered, TypeOK
  <2>2. active[k] + 1 <= bound[k]
    <3>1. LimitsCovered!(k)
      BY <1>1 DEF WorkerInv, LimitsCovered
    <3>4. bound[k] \in Nat /\ queueLimits[k] \in Nat
      BY <1>1, <1>2, Numbers
    <3>2. CASE queueLimits[k] = 0
      <4>1. MayOverlook(p, k)
        BY <1>1, <1>2 DEF MayOverlook, TypeOK, k
      <4> QED BY <4>1, <3>1, <3>4, <3>2, <1>1, <1>2
    <3>3. CASE queueLimits[k] # 0
      <4>1. active[k] < queueLimits[k]
        BY <3>3, <1>1 DEF CanAccept, LimitOf
      <4> QED BY <4>1, <3>1, <3>4, <1>1, <1>2 DEF Covers
    <3> QED BY <3>2, <3>3
  <2>3. \A q \in Queues : active'[q] <= bound[q]
    BY <2>1, <2>2, <1>1, <1>2 DEF TypeOK
  <2> QED BY <2>3, <1>1, HandledLimits
<1>12. AlonePolls'
  BY <1>1, <1>2, HandledAlone
<1> QED BY <1>6, <1>7, <1>8, <1>9, <1>10, <1>11, <1>12 DEF WorkerInv

-----------------------------------------------------------------------------
(* executeJob keeps the invariant *)

\* Nothing about polls and limits changes while an execution goes on.
LEMMA PollsKept ==
  ASSUME WorkerInv, UNCHANGED <<poll, queues, bound, queueLimits>>,
         \A u \in Tasks : row[u] = "claimed" /\ stage[u] = "new"
                            => row'[u] = "claimed" /\ stage'[u] = "new",
         globalActive' \in Nat, globalActive' <= globalActive,
         \A q \in Queues : active'[q] \in Nat /\ active'[q] <= active[q]
  PROVE  PollsHold' /\ LimitsCovered' /\ AlonePolls'
<1>1. TypeOK /\ poll \in [Polls -> PollRecord] /\ globalActive \in Nat
  BY PoolAssumption DEF WorkerInv, TypeOK, PollRecord, Concurrency
<1>2. PollsHold'
  BY <1>1 DEF WorkerInv, PollsHold, PollRecord
<1>3. LimitsCovered'
  <2> SUFFICES ASSUME NEW q \in Queues PROVE LimitsCovered!(q)'
    BY DEF LimitsCovered
  <2>1. LimitsCovered!(q)
    BY DEF WorkerInv, LimitsCovered
  <2>3. active[q] \in Nat /\ bound[q] \in Nat
    BY <1>1, Numbers
  <2>2. \A o \in Polls : MayOverlook(o, q)' <=> MayOverlook(o, q)
    BY DEF MayOverlook, Active
  <2> QED BY <2>1, <2>2, <2>3 DEF Covers
<1>4. AlonePolls'
  <2> SUFFICES ASSUME NEW o \in Polls, poll'[o].alone PROVE AlonePolls!(o)'
    BY DEF AlonePolls
  <2>1. AlonePolls!(o) /\ poll[o].alone
    BY DEF WorkerInv, AlonePolls
  <2>2. poll[o].limit \in Nat /\ Cardinality(poll[o].todo) \in Nat /\ Concurrency \in Nat
    BY <1>1, PoolAssumption, FS_Subset, FS_CardinalityType DEF PollRecord, Concurrency
  <2> QED BY <2>1, <2>2, <1>1
<1> QED BY <1>2, <1>3, <1>4

LEMMA PoolResumeInv ==
  ASSUME WorkerInv, PoolInv', NEW t \in Tasks, PoolResume(t)
  PROVE  WorkerInv'
<1>1. /\ stage[t] = "woken" /\ Resume(t) /\ StartStep(t)
      /\ UNCHANGED <<slotVars, queueVars, poll, row, proc, atSignal>>
  BY DEF PoolResume, Resume
<1>2. TypeOK /\ row[t] = "claimed" /\ step[t] = "none"
  BY <1>1 DEF WorkerInv, StepsMatch
<1>3. \/ /\ stage' = [stage EXCEPT ![t] = "running"]
         /\ step' = [step EXCEPT ![t] = "starting"]
      \/ /\ stage' = [stage EXCEPT ![t] = "queued"]
         /\ step' = step
  BY <1>1, <1>2 DEF Resume, Begin, Wait, StartStep, TypeOK, PoolTypeOK
<1>4. Holders' = Holders
  BY <1>1, <1>2, <1>3 DEF Holders, TypeOK, PoolTypeOK
<1>5. CountsExact'
  BY <1>1, <1>4, CountsKept DEF WorkerInv, slotVars
<1>6. TypeOK'
  <2>1. step' \in [Tasks -> Steps] /\ PoolTypeOK'
    BY <1>2, <1>3 DEF TypeOK, Steps, PoolInv
  <2> QED BY <2>1, <1>1, <1>2 DEF TypeOK, slotVars, queueVars
<1>7. StepsMatch'
  BY <1>1, <1>2, <1>3 DEF WorkerInv, StepsMatch, TypeOK, PoolTypeOK
<1>8. Signalled'
  BY <1>1, <1>2, <1>3 DEF WorkerInv, Signalled, activeJobs, TypeOK
<1>9. PollsHold' /\ LimitsCovered' /\ AlonePolls'
  BY <1>1, <1>2, <1>3, PollsKept, PoolAssumption
  DEF slotVars, queueVars, TypeOK, PoolTypeOK, Concurrency
<1> QED BY <1>5, <1>6, <1>7, <1>8, <1>9 DEF WorkerInv

\* MarkRunning and Complete: the job keeps its slot.
LEMMA ExecutingInv ==
  ASSUME WorkerInv, PoolInv', NEW t \in Tasks, MarkRunning(t) \/ Complete(t)
  PROVE  WorkerInv'
<1>1. /\ \/ /\ step[t] = "starting" /\ step' = [step EXCEPT ![t] = "handling"]
            /\ row' = [row EXCEPT ![t] = "running"]
         \/ /\ step[t] = "handling" /\ step' = [step EXCEPT ![t] = "reporting"]
            /\ row' = [row EXCEPT ![t] = "settled"]
      /\ UNCHANGED <<poolVars, slotVars, queueVars, poll, proc, atSignal>>
  BY DEF MarkRunning, Complete
<1>2. /\ TypeOK /\ stage[t] = "running" /\ stage' = stage
      /\ step[t] = "starting" => row[t] = "claimed"
  BY <1>1 DEF WorkerInv, StepsMatch, poolVars
<1>3. Holders' = Holders
  BY <1>1, <1>2 DEF Holders, TypeOK
<1>4. CountsExact'
  BY <1>1, <1>3, CountsKept DEF WorkerInv, slotVars
<1>5. TypeOK'
  <2>1. step' \in [Tasks -> Steps] /\ row' \in [Tasks -> {"queued", "claimed", "running", "settled"}]
    BY <1>1, <1>2 DEF TypeOK, Steps
  <2> QED BY <2>1, <1>1, <1>2 DEF TypeOK, PoolTypeOK, poolVars, slotVars, queueVars
<1>6. StepsMatch'
  BY <1>1, <1>2 DEF WorkerInv, StepsMatch, TypeOK, PoolTypeOK
<1>7. Signalled'
  <2>1. \A u \in Tasks : row[u] = "settled" => row'[u] = "settled"
    BY <1>1, <1>2 DEF TypeOK
  <2>2. activeJobs' = activeJobs
    BY <1>1, <1>2 DEF activeJobs, TypeOK
  <2> QED BY <2>1, <2>2, <1>1, <1>2 DEF WorkerInv, Signalled, TypeOK
<1>8. PollsHold' /\ LimitsCovered' /\ AlonePolls'
  BY <1>1, <1>2, PollsKept, PoolAssumption
  DEF slotVars, queueVars, TypeOK, PoolTypeOK, Concurrency
<1> QED BY <1>4, <1>5, <1>6, <1>7, <1>8 DEF WorkerInv

\* The release never clamps: whoever releases a slot has been counted.
LEMMA ReleaseSlotInv ==
  ASSUME WorkerInv, PoolInv', NEW t \in Tasks, ReleaseSlot(t)
  PROVE  WorkerInv'
<1> DEFINE k == QueueOf[t]
<1>1. /\ step[t] = "reporting" /\ step' = [step EXCEPT ![t] = "ending"] /\ k \in Queues
      /\ globalActive' = IF globalActive = 0 THEN 0 ELSE globalActive - 1
      /\ active' = [active EXCEPT ![k] = IF @ <= 1 THEN 0 ELSE @ - 1]
      /\ UNCHANGED <<poolVars, queueLimits, queueVars, poll, row, proc, atSignal>>
  BY QueueAssumption DEF ReleaseSlot, Release
<1> HIDE DEF k
<1>2. TypeOK /\ stage[t] = "running" /\ stage' = stage /\ t \in Holders
      /\ row[t] = "settled"
  BY <1>1 DEF WorkerInv, StepsMatch, poolVars, Holders
<1>3. Holders' = Holders \ {t}
  BY <1>1, <1>2 DEF Holders, TypeOK
<1>4. /\ Cardinality(Holders') = Cardinality(Holders) - 1
      /\ \A q \in Queues : Cardinality(HoldersOf(q)') =
           IF q = k THEN Cardinality(HoldersOf(q)) - 1 ELSE Cardinality(HoldersOf(q))
  BY <1>2, <1>3, HolderLeaves, QueueAssumption DEF k
<1>5. Cardinality(Holders') \in Nat /\ \A q \in Queues : Cardinality(HoldersOf(q)') \in Nat
  <2>1. IsFiniteSet(Holders') /\ \A q \in Queues : IsFiniteSet(HoldersOf(q)')
    BY <1>3, HoldersFinite, FS_Subset DEF HoldersOf
  <2> QED BY <2>1, FS_CardinalityType
<1>6. /\ globalActive \in 0..Concurrency /\ globalActive = Cardinality(Holders)
      /\ \A q \in Queues : active[q] \in 0..Concurrency /\ active[q] = Cardinality(HoldersOf(q))
      /\ Concurrency \in Nat
  BY <1>2, PoolAssumption DEF WorkerInv, CountsExact, TypeOK, Concurrency
<1>7. CountsExact'
  <2>1. globalActive' = Cardinality(Holders')
    BY <1>1, <1>4, <1>5, <1>6
  <2>2. \A q \in Queues : active'[q] = Cardinality(HoldersOf(q)')
    BY <1>1, <1>2, <1>4, <1>5, <1>6 DEF TypeOK
  <2> QED BY <2>1, <2>2 DEF CountsExact
<1>8. /\ globalActive' \in 0..Concurrency /\ globalActive' <= globalActive
      /\ active' \in [Queues -> 0..Concurrency]
      /\ \A q \in Queues : active'[q] \in Nat /\ active'[q] <= active[q]
  <2>1. globalActive' \in 0..Concurrency /\ globalActive' <= globalActive
    BY <1>1, <1>6
  <2>2. \A q \in Queues : active'[q] = IF q = k THEN IF active[q] <= 1 THEN 0 ELSE active[q] - 1
                                        ELSE active[q]
    BY <1>1, <1>2 DEF TypeOK
  <2>3. \A q \in Queues : active'[q] \in 0..Concurrency /\ active'[q] <= active[q]
    BY <2>2, <1>6
  <2>4. active' \in [Queues -> 0..Concurrency]
    BY <2>3, <1>1, <1>2 DEF TypeOK
  <2> QED BY <2>1, <2>3, <2>4, <1>6
<1>9. TypeOK'
  <2>1. step' \in [Tasks -> Steps]
    BY <1>1, <1>2 DEF TypeOK, Steps
  <2> QED BY <2>1, <1>1, <1>2, <1>8 DEF TypeOK, PoolTypeOK, poolVars, queueVars
<1>10. StepsMatch'
  BY <1>1, <1>2 DEF WorkerInv, StepsMatch, TypeOK, PoolTypeOK
<1>11. Signalled'
  BY <1>1, <1>2 DEF WorkerInv, Signalled, activeJobs, TypeOK
<1>12. PollsHold' /\ LimitsCovered' /\ AlonePolls'
  BY <1>1, <1>2, <1>8, PollsKept, PoolAssumption DEF queueVars, Concurrency
<1> QED BY <1>7, <1>9, <1>10, <1>11, <1>12 DEF WorkerInv

\* Leaving the pool is not a matter of slots, neither for the job nor for the one it wakes.
LEMMA PoolFinishInv ==
  ASSUME WorkerInv, PoolInv', NEW t \in Tasks, PoolFinish(t)
  PROVE  WorkerInv'
<1>1. /\ step[t] = "ending" /\ Finish(t) /\ step' = [step EXCEPT ![t] = "none"]
      /\ UNCHANGED <<slotVars, queueVars, poll, row, proc, atSignal>>
  BY DEF PoolFinish
<1>2. TypeOK /\ stage[t] = "running" /\ stage \in [Tasks -> Stages] /\ row[t] # "queued"
  BY <1>1 DEF WorkerInv, StepsMatch, TypeOK, PoolTypeOK, Finish
<1>3. \/ stage' = [stage EXCEPT ![t] = "done"]
      \/ \E h \in Tasks : /\ stage[h] = "queued" /\ h # t
                          /\ stage' = [stage EXCEPT ![t] = "done", ![h] = "woken"]
  <2>1. CASE queue = <<>>
    BY <2>1, <1>1 DEF Finish
  <2>2. CASE queue # <<>>
    <3>1. queue \in Seq(Tasks) /\ Len(queue) \in Nat /\ Len(queue) >= 1 /\ Head(queue) = queue[1]
      BY <2>2, <1>2 DEF TypeOK, PoolTypeOK
    <3>2. Head(queue) \in Tasks /\ stage[Head(queue)] = "queued"
      BY <3>1 DEF WorkerInv, PoolInv, QueueIsWaiting
    <3> QED BY <3>2, <2>2, <1>1, <1>2 DEF Finish
  <2> QED BY <2>1, <2>2
<1> DEFINE Kept == \A u \in Tasks :
              /\ stage'[u] \in {"queued", "woken"} <=> stage[u] \in {"queued", "woken"}
              /\ stage'[u] = "new" <=> stage[u] = "new"
              /\ stage'[u] = "running" <=> stage[u] = "running" /\ u # t
<1>4. Kept
  <2>1. CASE stage' = [stage EXCEPT ![t] = "done"]
    BY <2>1, <1>2
  <2>2. ASSUME NEW h \in Tasks, stage[h] = "queued", h # t,
               stage' = [stage EXCEPT ![t] = "done", ![h] = "woken"]
        PROVE  Kept
    BY <2>2, <1>2
  <2> QED BY <2>1, <2>2, <1>3
<1>5. Holders' = Holders
  BY <1>1, <1>2, <1>4 DEF Holders, TypeOK
<1>6. CountsExact'
  BY <1>1, <1>5, CountsKept DEF WorkerInv, slotVars
<1>7. TypeOK'
  <2>1. step' \in [Tasks -> Steps] /\ PoolTypeOK'
    BY <1>1, <1>2 DEF TypeOK, Steps, PoolInv
  <2> QED BY <2>1, <1>1, <1>2 DEF TypeOK, slotVars, queueVars
<1>8. StepsMatch'
  BY <1>1, <1>2, <1>4 DEF WorkerInv, StepsMatch, TypeOK
<1>9. Signalled'
  BY <1>1, <1>2 DEF WorkerInv, Signalled, activeJobs, TypeOK
<1>10. PollsHold' /\ LimitsCovered' /\ AlonePolls'
  BY <1>1, <1>2, <1>4, PollsKept, PoolAssumption
  DEF slotVars, queueVars, TypeOK, Concurrency
<1> QED BY <1>6, <1>7, <1>8, <1>9, <1>10 DEF WorkerInv

-----------------------------------------------------------------------------
(* Requests, the signal and the drain *)

\* A request changes what the limits are compared with, and bound follows it.
LEMMA ChangeQueueInv ==
  ASSUME WorkerInv, PoolInv', NEW k \in Queues, ChangeQueue(k)
  PROVE  WorkerInv'
<1>1. /\ UNCHANGED <<poolVars, slotVars, poll, row, step, proc, atSignal>>
      /\ changes > 0 /\ changes' = changes - 1
      /\ \/ \E status \in {"ACTIVE", "PAUSED"} :
              /\ queues' = [queues EXCEPT ![k].status = status]
              /\ bound' = [bound EXCEPT ![k] =
                    IF status = "ACTIVE" /\ queueLimits[k] = 0
                       /\ \E p \in Polls : poll[p].pc \in {"refreshed", "reading"}
                    THEN Concurrency ELSE @]
         \/ \E limit \in Limits :
              /\ queues' = [queues EXCEPT ![k].limit = limit]
              /\ bound' = [bound EXCEPT ![k] = IF limit > @ THEN limit ELSE @]
  BY DEF ChangeQueue, SetStatus, UpdateQueue
<1>2. TypeOK /\ Concurrency \in Nat /\ Limits \subseteq Nat
  BY PoolAssumption, QueueAssumption DEF WorkerInv, Concurrency
<1>3. /\ queues' \in [Queues -> QueueRow] /\ bound' \in [Queues -> Limits \cup {Concurrency}]
      /\ \A q \in Queues \ {k} : queues'[q] = queues[q] /\ bound'[q] = bound[q]
  <2>1. queues \in [Queues -> QueueRow] /\ bound \in [Queues -> Limits \cup {Concurrency}]
    BY <1>2 DEF TypeOK
  <2>2. ASSUME NEW status \in {"ACTIVE", "PAUSED"}, queues' = [queues EXCEPT ![k].status = status]
        PROVE  queues' \in [Queues -> QueueRow]
    BY <2>1, <2>2 DEF QueueRow
  <2>3. ASSUME NEW limit \in Limits, queues' = [queues EXCEPT ![k].limit = limit]
        PROVE  queues' \in [Queues -> QueueRow]
    BY <2>1, <2>3 DEF QueueRow
  <2>4. bound' \in [Queues -> Limits \cup {Concurrency}]
    BY <2>1, <1>1
  <2>5. \A q \in Queues \ {k} : queues'[q] = queues[q] /\ bound'[q] = bound[q]
    BY <2>1, <1>1
  <2> QED BY <2>2, <2>3, <2>4, <2>5, <1>1
<1>4. \A q \in Queues : bound'[q] \in Nat /\ bound[q] \in Nat /\ active[q] \in Nat
                        /\ active[q] <= Concurrency
  <2> SUFFICES ASSUME NEW q \in Queues
               PROVE  bound'[q] \in Nat /\ bound[q] \in Nat /\ active[q] \in Nat
                      /\ active[q] <= Concurrency
    OBVIOUS
  <2>1. bound'[q] \in Nat
    <3>1. Limits \cup {Concurrency} \subseteq Nat
      BY <1>2
    <3>2. bound'[q] \in Limits \cup {Concurrency}
      BY <1>3
    <3> QED BY <3>1, <3>2
  <2>2. active[q] \in 0..Concurrency
    BY <1>2 DEF TypeOK
  <2>3. bound[q] \in Nat
    BY <1>2, Numbers
  <2> QED BY <2>1, <2>2, <2>3, <1>2
<1>5. \A q \in Queues : bound[q] <= bound'[q] \/ Concurrency <= bound'[q]
  <2>1. bound'[k] = bound[k] \/ bound'[k] = Concurrency \/ bound'[k] > bound[k]
    BY <1>1, <1>2 DEF TypeOK
  <2> QED BY <2>1, <1>2, <1>3, <1>4
<1>6. TypeOK'
  <2>1. changes' \in 0..Changes
    BY <1>1, <1>2, QueueAssumption DEF TypeOK
  <2> QED BY <2>1, <1>1, <1>2, <1>3 DEF TypeOK, PoolTypeOK, poolVars, slotVars
<1>7. StepsMatch' /\ Signalled' /\ PollsHold' /\ AlonePolls'
  BY <1>1 DEF WorkerInv, StepsMatch, Signalled, PollsHold, AlonePolls, poolVars, slotVars,
     activeJobs
<1>8. CountsExact'
  BY <1>1, CountsKept DEF WorkerInv, poolVars, slotVars, Holders
<1>9. LimitsCovered'
  <2> SUFFICES ASSUME NEW q \in Queues PROVE LimitsCovered!(q)'
    BY DEF LimitsCovered
  <2>1. LimitsCovered!(q) /\ queueLimits' = queueLimits /\ active' = active /\ poll' = poll
    BY <1>1 DEF WorkerInv, LimitsCovered, slotVars
  <2>2. queueLimits[q] \in Nat /\ queues[q].limit \in Nat /\ queues'[q].limit \in Nat
        /\ \A o \in Polls : poll[o].read[q] \in Nat
    BY <1>2, <1>3, Numbers DEF QueueRow
  <2>3. \A n \in Nat : Covers(q, n) => n <= bound'[q] \/ Concurrency <= bound'[q]
    BY <1>2, <1>4, <1>5 DEF Covers
  <2>4. Covers(q, queueLimits[q])' /\ \A o \in Polls : Covers(q, poll[o].read[q])'
    BY <2>1, <2>2, <2>3 DEF Covers
  <2>5. active'[q] <= bound'[q]
    BY <2>1, <1>2, <1>4, <1>5
  <2>6. Covers(q, queues[q].limit)'
    <3>1. CASE queues'[q].limit = queues[q].limit
      BY <3>1, <2>1, <2>2, <2>3 DEF Covers
    <3>2. CASE queues'[q].limit # queues[q].limit
      <4>1. q = k
        BY <3>2, <1>3
      <4>2. PICK limit \in Limits :
               /\ queues' = [queues EXCEPT ![k].limit = limit]
               /\ bound' = [bound EXCEPT ![k] = IF limit > @ THEN limit ELSE @]
        <5>1. ASSUME NEW status, queues' = [queues EXCEPT ![k].status = status]
              PROVE  queues'[k].limit = queues[k].limit
          BY <5>1, <1>2 DEF TypeOK, QueueRow
        <5> QED BY <5>1, <1>1, <3>2, <4>1
      <4>3. queues'[q].limit = limit /\ limit <= bound'[q]
        BY <4>1, <4>2, <1>2, <1>4 DEF TypeOK, QueueRow
      <4> QED BY <4>3 DEF Covers
    <3> QED BY <3>1, <3>2
  <2>7. ASSUME queueLimits[q] = 0, NEW o \in Polls, MayOverlook(o, q)'
        PROVE  Concurrency <= bound'[q]
    <3>1. CASE MayOverlook(o, q)
      <4>1. Concurrency <= bound[q]
        BY <3>1, <2>1, <2>7
      <4> QED BY <4>1, <1>2, <1>4, <1>5
    <3>2. CASE ~MayOverlook(o, q)
      <4>1. ~Active(q) /\ Active(q)' /\ poll[o].pc \in {"refreshed", "reading"}
        BY <3>2, <2>1, <2>7 DEF MayOverlook
      <4>2. q = k /\ queues'[q].status = "ACTIVE" /\ queues[q].status # "ACTIVE"
        BY <4>1, <1>3 DEF Active
      <4>3. PICK status \in {"ACTIVE", "PAUSED"} :
               /\ queues' = [queues EXCEPT ![k].status = status]
               /\ bound' = [bound EXCEPT ![k] =
                     IF status = "ACTIVE" /\ queueLimits[k] = 0
                        /\ \E p \in Polls : poll[p].pc \in {"refreshed", "reading"}
                     THEN Concurrency ELSE @]
        <5>1. ASSUME NEW limit, queues' = [queues EXCEPT ![k].limit = limit]
              PROVE  queues'[k].status = queues[k].status
          BY <5>1, <1>2 DEF TypeOK, QueueRow
        <5> QED BY <5>1, <4>2, <1>1
      <4>4. status = "ACTIVE"
        BY <4>2, <4>3, <1>2 DEF TypeOK, QueueRow
      <4>5. bound'[q] = Concurrency
        BY <4>1, <4>2, <4>3, <4>4, <2>7, <1>2 DEF TypeOK
      <4> QED BY <4>5, <1>2
    <3> QED BY <3>1, <3>2
  <2> QED BY <2>1, <2>4, <2>5, <2>6, <2>7
<1> QED BY <1>6, <1>7, <1>8, <1>9 DEF WorkerInv

\* The signal notes who is executing; the drain loop ends when nobody is.
LEMMA ShutdownInv ==
  ASSUME WorkerInv, PoolInv', Signal \/ Shutdown \/ ForceExit
  PROVE  WorkerInv'
<1>1. UNCHANGED <<poolVars, slotVars, queueVars, poll, row, step>>
  BY DEF Signal, Shutdown, ArmTimeout, Drained, Exit, ForceExit
<1>2. /\ proc' \in {"draining", "waiting", "stopping", "stopped", "killed"}
      /\ atSignal' = atSignal \/ (atSignal' = activeJobs /\ proc' = "draining")
      /\ proc' = "stopping" => activeJobs = {} /\ atSignal' = atSignal
      /\ proc' = "stopped" => proc = "stopping" /\ atSignal' = atSignal
  BY DEF Signal, Shutdown, ArmTimeout, Drained, Exit, ForceExit
<1>3. TypeOK /\ activeJobs' = activeJobs /\ activeJobs \subseteq Tasks
  BY <1>1 DEF WorkerInv, activeJobs
<1>4. TypeOK'
  BY <1>1, <1>2, <1>3 DEF TypeOK, PoolTypeOK, poolVars, slotVars, queueVars
<1>5. Signalled'
  <2>1. \A t \in atSignal' : t \in activeJobs \/ row[t] = "settled"
    BY <1>2 DEF WorkerInv, Signalled
  <2> QED BY <2>1, <1>1, <1>2, <1>3 DEF WorkerInv, Signalled
<1>6. StepsMatch' /\ PollsHold' /\ AlonePolls'
  BY <1>1 DEF WorkerInv, StepsMatch, PollsHold, AlonePolls, poolVars, slotVars
<1>7. CountsExact'
  BY <1>1, CountsKept DEF WorkerInv, poolVars, slotVars, Holders
<1>8. LimitsCovered'
  BY <1>1 DEF WorkerInv, LimitsCovered, Covers, MayOverlook, Active, slotVars, queueVars
<1> QED BY <1>4, <1>5, <1>6, <1>7, <1>8 DEF WorkerInv

-----------------------------------------------------------------------------
(* The theorems *)

LEMMA WorkerInitInv == Init => WorkerInv
<1> SUFFICES ASSUME Init PROVE WorkerInv
  OBVIOUS
<1>1. PoolInv /\ stage = [t \in Tasks |-> "new"]
  BY PoolInitInv DEF Init, PoolInit
<1>2. /\ globalActive = 0 /\ active = [q \in Queues |-> 0]
      /\ queues \in [Queues -> QueueRow] /\ queueLimits = ActiveLimits
      /\ poll = [p \in Polls |-> NoPoll] /\ changes = Changes
      /\ bound = [q \in Queues |-> queues[q].limit]
      /\ row = [t \in Tasks |-> "queued"] /\ step = [t \in Tasks |-> "none"]
      /\ proc = "up" /\ atSignal = {}
  BY QueueAssumption DEF Init
<1>3. \A q \in Queues : bound[q] \in Limits
  BY <1>2 DEF QueueRow
<1>4. TypeOK
  <2>1. globalActive \in 0..Concurrency /\ active \in [Queues -> 0..Concurrency]
    BY <1>2, PoolAssumption DEF Concurrency
  <2>2. queueLimits \in [Queues -> Limits \cup {0}]
    BY <1>2 DEF ActiveLimits, QueueRow
  <2>3. bound \in [Queues -> Limits \cup {Concurrency}]
    BY <1>2, <1>3
  <2>4. poll \in [Polls -> PollRecord]
    BY <1>2, NoPollType
  <2>5. changes \in 0..Changes
    BY <1>2, QueueAssumption
  <2> QED BY <2>1, <2>2, <2>3, <2>4, <2>5, <1>1, <1>2 DEF TypeOK, PoolInv, PollRecord, Steps
<1>5. \A p \in Polls : /\ poll[p].pc = "idle" /\ poll[p].todo = {} /\ poll[p].eligible = {}
                       /\ \A q \in Queues : poll[p].read[q] = 0
  BY <1>2 DEF NoPoll
<1>6. StepsMatch /\ Signalled
  BY <1>1, <1>2 DEF StepsMatch, Signalled
<1>7. PollsHold
  BY <1>5 DEF PollsHold
<1>8. CountsExact
  <2>1. Holders = {}
    BY <1>1 DEF Holders
  <2>2. \A q : HoldersOf(q) = {}
    BY <2>1 DEF HoldersOf
  <2> QED BY <2>1, <2>2, <1>2, FS_EmptySet DEF CountsExact
<1>9. LimitsCovered
  <2> SUFFICES ASSUME NEW q \in Queues PROVE LimitsCovered!(q)
    BY DEF LimitsCovered
  <2>1. bound[q] \in Nat /\ bound[q] = queues[q].limit /\ active[q] = 0
    BY <1>2, <1>4, Numbers
  <2>2. queueLimits[q] \in {0, bound[q]}
    BY <1>2, <2>1 DEF ActiveLimits
  <2>3. Covers(q, queues[q].limit) /\ Covers(q, queueLimits[q])
        /\ \A p \in Polls : Covers(q, poll[p].read[q])
    BY <2>1, <2>2, <1>5 DEF Covers
  <2>4. \A p \in Polls : ~MayOverlook(p, q)
    BY <1>5 DEF MayOverlook
  <2> QED BY <2>1, <2>3, <2>4
<1>10. AlonePolls
  <2> SUFFICES ASSUME NEW p \in Polls PROVE AlonePolls!(p)
    BY DEF AlonePolls
  <2>1. Cardinality(poll[p].todo) = 0
    BY <1>5, FS_EmptySet
  <2> QED BY <2>1, <1>2, <1>5, PoolAssumption DEF Concurrency
<1> QED BY <1>1, <1>4, <1>6, <1>7, <1>8, <1>9, <1>10 DEF WorkerInv

LEMMA WorkerNextInv == WorkerInv /\ [Next]_vars => WorkerInv'
<1> SUFFICES ASSUME WorkerInv, [Next]_vars PROVE WorkerInv'
  OBVIOUS
<1>1. PoolInv'
  BY StepIsPoolStep, PoolNextInv DEF WorkerInv
<1>2. ASSUME NEW p \in Polls, PollStart(p) \/ PollStep(p) PROVE WorkerInv'
  BY <1>1, <1>2, PollStartInv, RefreshReadInv, RefreshInv, PollEligibleInv, PollClaimInv,
     RefuseInv, AbandonInv, DispatchInv DEF PollStep
<1>3. ASSUME NEW t \in Tasks, ExecuteStep(t) PROVE WorkerInv'
  BY <1>1, <1>3, PoolResumeInv, ExecutingInv, ReleaseSlotInv, PoolFinishInv DEF ExecuteStep
<1>4. ASSUME NEW q \in Queues, ChangeQueue(q) PROVE WorkerInv'
  BY <1>1, <1>4, ChangeQueueInv
<1>5. CASE Signal \/ Shutdown \/ ForceExit
  BY <1>1, <1>5, ShutdownInv
<1>6. CASE UNCHANGED vars
  <2>1. UNCHANGED <<poolVars, slotVars, queueVars, poll, row, step, proc, atSignal>>
    BY <1>6 DEF vars
  <2>2. TypeOK'
    BY <2>1 DEF WorkerInv, TypeOK, PoolTypeOK, poolVars, slotVars, queueVars
  <2>3. CountsExact'
    BY <2>1, CountsKept DEF WorkerInv, poolVars, slotVars, Holders
  <2>4. StepsMatch' /\ PollsHold' /\ AlonePolls' /\ Signalled'
    BY <2>1 DEF WorkerInv, StepsMatch, PollsHold, AlonePolls, Signalled, poolVars, slotVars,
       activeJobs
  <2>5. LimitsCovered'
    BY <2>1 DEF WorkerInv, LimitsCovered, Covers, MayOverlook, Active, slotVars, queueVars
  <2> QED BY <1>1, <2>2, <2>3, <2>4, <2>5 DEF WorkerInv
<1> QED BY <1>2, <1>3, <1>4, <1>5, <1>6 DEF Next

\* The worker's inductive invariant, for any jobs, queues, limits and polls.
THEOREM WorkerInvariant == Spec => []WorkerInv
BY WorkerInitInv, WorkerNextInv, PTL DEF Spec

\* No slot is leaked or given twice, and release never hides an error by clamping.
THEOREM WorkerSlotsAccounted == Spec => []SlotsAccounted
<1>1. WorkerInv => SlotsAccounted
  BY DEF WorkerInv, CountsExact, HoldersOf, SlotsAccounted
<1> QED BY <1>1, WorkerInvariant, PTL

\* Of a queue no more jobs execute than the highest limit it has had allows, and in
\* all no more than WORKER_CONCURRENCY: who executes has a slot.
THEOREM WorkerLimitsRespected == Spec => []LimitsRespected
<1>1. WorkerInv => LimitsRespected
  <2> SUFFICES ASSUME WorkerInv PROVE LimitsRespected
    OBVIOUS
  <2>1. activeJobs \subseteq Holders
    BY DEF WorkerInv, StepsMatch, activeJobs, Holders
  <2>2. Cardinality(activeJobs) <= Concurrency
    <3>1. Cardinality(activeJobs) <= Cardinality(Holders) /\ Cardinality(activeJobs) \in Nat
      BY <2>1, HoldersFinite, FS_Subset, FS_CardinalityType
    <3> QED BY <3>1, PoolAssumption DEF WorkerInv, CountsExact, TypeOK, Concurrency
  <2>3. ASSUME NEW q \in Queues
        PROVE  Cardinality({t \in activeJobs : QueueOf[t] = q}) <= bound[q]
    <3> DEFINE S == {t \in activeJobs : QueueOf[t] = q}
    <3>1. S \subseteq HoldersOf(q)
      BY <2>1 DEF HoldersOf
    <3>2. Cardinality(S) <= Cardinality(HoldersOf(q)) /\ Cardinality(S) \in Nat
      BY <3>1, HoldersFinite, FS_Subset, FS_CardinalityType
    <3>3. Cardinality(HoldersOf(q)) <= bound[q] /\ bound[q] \in Nat
      BY Numbers DEF WorkerInv, CountsExact, LimitsCovered
    <3> HIDE DEF S
    <3>4. Cardinality(S) <= bound[q]
      BY <3>2, <3>3, HoldersFinite
    <3> QED BY <3>4 DEF S
  <2> QED BY <2>2, <2>3 DEF LimitsRespected
<1> QED BY <1>1, WorkerInvariant, PTL

\* A graceful exit has waited for every execution under way at the signal.
THEOREM WorkerDrainWaits == Spec => []DrainWaits
<1>1. WorkerInv => DrainWaits
  BY DEF WorkerInv, Signalled, DrainWaits
<1> QED BY <1>1, WorkerInvariant, PTL

\* A poll without company has a slot for each job it claimed, unless a limit binds.
THEOREM WorkerClaimsGetSlots == Spec => []EveryClaimGetsSlot
<1>1. WorkerInv => EveryClaimGetsSlot
  <2> SUFFICES ASSUME WorkerInv, NEW p \in Polls, NEW t \in poll[p].todo,
                      poll[p].alone, LimitOf(QueueOf[t]) >= Concurrency
               PROVE  CanAccept(QueueOf[t])
    BY DEF EveryClaimGetsSlot
  <2>1. poll[p].todo \subseteq Tasks
    BY DEF WorkerInv, TypeOK
  <2>2. Cardinality(poll[p].todo) \in Nat /\ Cardinality(poll[p].todo) # 0
    <3>1. IsFiniteSet(poll[p].todo)
      BY <2>1, PoolAssumption, FS_Subset
    <3> QED BY <3>1, FS_CardinalityType, FS_EmptySet
  <2>3. QueueOf[t] \in Queues
    BY <2>1, QueueAssumption
  <2>4. /\ globalActive \in Nat /\ Concurrency \in Nat /\ active[QueueOf[t]] \in Nat
        /\ active[QueueOf[t]] <= globalActive
    BY <2>3, CountsOrdered, PoolAssumption DEF WorkerInv, Concurrency
  <2>5. Cardinality(poll[p].todo) + globalActive <= Concurrency
    BY DEF WorkerInv, AlonePolls
  <2>6. globalActive < Concurrency
    BY <2>2, <2>4, <2>5
  <2>7. LimitOf(QueueOf[t]) \in Nat
    BY <2>3, <2>4, Numbers DEF WorkerInv, LimitOf
  <2> QED BY <2>4, <2>6, <2>7 DEF CanAccept
<1> QED BY <1>1, WorkerInvariant, PTL

\* A job with a slot waits for the pool only behind a woken job or one that is
\* winding up: otherwise the running jobs alone would hold all slots, and it one more.
THEOREM WorkerWaitsForWindUpOnly == Spec => []WaitsForWindUpOnly
<1>1. WorkerInv => WaitsForWindUpOnly
  <2> SUFFICES ASSUME WorkerInv, queue # <<>>,
                      \A t \in Tasks : step[t] # "ending" /\ stage[t] # "woken"
               PROVE  FALSE
    BY DEF WaitsForWindUpOnly
  <2>1. InStage("woken") = {}
    BY DEF InStage
  <2>2. running = MaxConcurrency /\ Cardinality(InStage("running")) = MaxConcurrency
    <3>1. Cardinality(InStage("woken")) = 0
      BY <2>1, FS_EmptySet
    <3>2. /\ running + Cardinality(InStage("woken")) >= MaxConcurrency /\ running <= MaxConcurrency
          /\ running = Cardinality(InStage("running")) /\ running \in Nat
      BY DEF WorkerInv, PoolInv, PoolTypeOK, WithinCapacity, NoLostWakeup
    <3> QED BY <3>1, <3>2, PoolAssumption
  <2>3. queue \in Seq(Tasks) /\ 1 \in 1..Len(queue) /\ queue[1] \in Tasks
    BY DEF WorkerInv, PoolInv, PoolTypeOK
  <2>4. stage[queue[1]] = "queued" /\ queue[1] \notin InStage("running")
    BY <2>3 DEF WorkerInv, PoolInv, QueueIsWaiting, InStage
  <2>5. InStage("running") \cup {queue[1]} \subseteq Holders
    BY <2>3, <2>4 DEF InStage, Holders
  <2>6. Cardinality(InStage("running") \cup {queue[1]}) = MaxConcurrency + 1
    BY <2>2, <2>4, StageFinite, FS_AddElement
  <2>7. Cardinality(Holders) >= MaxConcurrency + 1
    BY <2>5, <2>6, HoldersFinite, FS_Subset
  <2> QED BY <2>7, HoldersFinite, PoolAssumption DEF WorkerInv, CountsExact, TypeOK, Concurrency
<1> QED BY <1>1, WorkerInvariant, PTL
=============================================================================
