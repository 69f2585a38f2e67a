--------------------------- MODULE SchedulerProofs ---------------------------
(***************************************************************************)
(* Types hold whatever happens.  As long as no tick outlasts the lock's TTL   *)
(* one tick works at a time, so what a transaction read without a lock is  *)
(* still in the row when it writes, and an occurrence gets one job.        *)
(***************************************************************************)
EXTENDS Scheduler, TLAPS

\* The next run is later than the tick's time, and at most an interval after
\* the clock.
LEMMA NextRunLater ==
  ASSUME TypeOK, NEW c \in Schedules, NEW now \in Times, now <= clock
  PROVE  /\ NextRun(c, now) \in Nat /\ NextRun(c, now) > now
         /\ Kind[c] = "RECURRING" => NextRun(c, now) <= clock + Interval[c]
<1>0. clock \in 0..MaxTime
  BY DEF TypeOK, Times
<1>1. /\ clock \in 0..MaxTime /\ Interval[c] \in Nat /\ Interval[c] > 0
      /\ CronNext[c][clock] \in Nat /\ CronNext[c][clock] > clock
  <2>1. Interval[c] \in Nat \ {0} /\ CronNext[c] \in [0..MaxTime -> Nat]
    BY ScheduleAssumption
  <2>2. CronNext[c][clock] > clock
    <3>1. \A d \in Schedules, t \in 0..MaxTime : CronNext[d][t] > t
      BY ScheduleAssumption
    <3> QED BY <1>0, <3>1
  <2>3. CronNext[c][clock] \in Nat
    BY <1>0, <2>1
  <2>4. Interval[c] \in Nat /\ Interval[c] > 0
    BY <2>1
  <2> QED BY <1>0, <2>2, <2>3, <2>4
<1>2. now \in 0..MaxTime
  BY DEF Times
<1>3. CASE Kind[c] = "CRON"
  BY <1>1, <1>2, <1>3, TimeAssumption DEF NextRun
<1>4. CASE Kind[c] = "RECURRING"
  BY <1>1, <1>2, <1>4, TimeAssumption DEF NextRun
<1> QED BY <1>3, <1>4, ScheduleAssumption

\* A record built by TickAt is a tick.
LEMMA TickAtType ==
  ASSUME NEW pc \in {"idle", "reading", "firing"}, NEW now \in Times,
         NEW due \in SUBSET Schedules, NEW cur \in SUBSET Schedules, NEW seen \in Times
  PROVE  TickAt(pc, now, due, cur, seen) \in Tick
         /\ TickAt(pc, now, due, cur, seen).now = now
BY DEF TickAt, Tick

LEMMA IdleType == Idle \in Tick /\ Idle.now = 0 /\ 0 \in Times
<1>1. 0 \in Times
  BY TimeAssumption DEF Times
<1> QED BY <1>1, TickAtType DEF Idle

\* What a step does to a tick: it becomes idle or a tick of the right shape.
LEMMA TickType ==
  ASSUME TypeOK, TicksPast, NEW k \in Ticks, Acquire(k) \/ TickStep(k)
  PROVE  tick' \in [Ticks -> Tick] /\ TicksPast'
<1> DEFINE at == tick[k]
<1>1. /\ at \in Tick /\ at.now \in Times /\ clock \in Times /\ clock' = clock
      /\ at.due \in SUBSET Schedules /\ at.now <= clock
      /\ Times \subseteq Nat /\ 0 \in Times /\ 0 <= clock /\ clock <= clock
  <2>1. at \in Tick /\ clock \in Times
    BY DEF TypeOK
  <2>2. at.now \in Times /\ at.due \in SUBSET Schedules
    BY <2>1 DEF Tick
  <2>3. clock' = clock
    BY DEF Acquire, TickStep, ReadDue, FireRead, FireSkip, FireWrite, Release
  <2>4. at.now <= clock
    BY DEF TicksPast
  <2> QED BY <2>1, <2>2, <2>3, <2>4, TimeAssumption DEF Times
\* It is enough to know the new record and that its time has come.
<1>2. ASSUME NEW new \in Tick, new.now <= clock, tick' = [tick EXCEPT ![k] = new]
      PROVE  tick' \in [Ticks -> Tick] /\ TicksPast'
  <2>1. tick \in [Ticks -> Tick]
    BY DEF TypeOK
  <2>2. tick' \in [Ticks -> Tick]
    BY <1>2, <2>1
  <2>3. ASSUME NEW j \in Ticks PROVE tick'[j].now <= clock
    BY <1>2, <2>1 DEF TicksPast
  <2> QED BY <1>1, <2>2, <2>3 DEF TicksPast
<1>3. CASE Acquire(k)
  <2>1. tick' = [tick EXCEPT ![k] = TickAt("reading", clock, {}, {}, 0)]
    BY <1>3 DEF Acquire
  <2>2. TickAt("reading", clock, {}, {}, 0) \in Tick
        /\ TickAt("reading", clock, {}, {}, 0).now = clock
    BY <1>1, TickAtType
  <2> QED BY <1>1, <1>2, <2>1, <2>2
<1>4. CASE ReadDue(k)
  <2>1. Due(at.now) \in SUBSET Schedules
    BY DEF Due
  <2>2. tick' = [tick EXCEPT ![k] = TickAt("firing", at.now, Due(at.now), {}, 0)]
    BY <1>4 DEF ReadDue, TypeOK
  <2>3. TickAt("firing", at.now, Due(at.now), {}, 0) \in Tick
        /\ TickAt("firing", at.now, Due(at.now), {}, 0).now = at.now
    <3> HIDE DEF at
    <3> QED BY <1>1, <2>1, TickAtType, SMTT(20) DEF TickAt, Tick
  <2> HIDE DEF at
  <2> QED BY <1>1, <1>2, <2>2, <2>3
<1>5. ASSUME NEW c \in Schedules, FireRead(k, c) PROVE tick' \in [Ticks -> Tick] /\ TicksPast'
  <2>1. next[c] \in Times /\ {c} \in SUBSET Schedules /\ at.due \ {c} \in SUBSET Schedules
    <3>1. next[c] \in Nat /\ next[c] <= at.now
      BY <1>5 DEF FireRead, TypeOK
    <3> QED BY <1>1, <3>1, TimeAssumption DEF Times
  <2>2. tick' = [tick EXCEPT ![k] = TickAt("firing", at.now, at.due \ {c}, {c}, next[c])]
    BY <1>5 DEF FireRead, TypeOK
  <2>3. TickAt("firing", at.now, at.due \ {c}, {c}, next[c]) \in Tick
        /\ TickAt("firing", at.now, at.due \ {c}, {c}, next[c]).now = at.now
    <3> HIDE DEF at
    <3> QED BY <1>1, <2>1, TickAtType, SMTT(20) DEF TickAt, Tick
  <2> HIDE DEF at
  <2> QED BY <1>1, <1>2, <2>2, <2>3
<1>6. ASSUME NEW c \in Schedules, FireSkip(k, c) PROVE tick' \in [Ticks -> Tick] /\ TicksPast'
  <2>2. tick' = [tick EXCEPT ![k] = TickAt("firing", at.now, at.due \ {c}, {}, 0)]
    BY <1>6 DEF FireSkip, TypeOK
  <2>3. TickAt("firing", at.now, at.due \ {c}, {}, 0) \in Tick
        /\ TickAt("firing", at.now, at.due \ {c}, {}, 0).now = at.now
    <3> HIDE DEF at
    <3> QED BY <1>1, TickAtType, SMTT(20) DEF TickAt, Tick
  <2> HIDE DEF at
  <2> QED BY <1>1, <1>2, <2>2, <2>3
<1>7. ASSUME NEW c \in Schedules, FireWrite(k, c) PROVE tick' \in [Ticks -> Tick] /\ TicksPast'
  <2>2. tick' = [tick EXCEPT ![k] = TickAt("firing", at.now, at.due, {}, 0)]
    BY <1>7 DEF FireWrite, TypeOK
  <2>3. TickAt("firing", at.now, at.due, {}, 0) \in Tick
        /\ TickAt("firing", at.now, at.due, {}, 0).now = at.now
    <3> HIDE DEF at
    <3> QED BY <1>1, TickAtType, SMTT(20) DEF TickAt, Tick
  <2> HIDE DEF at
  <2> QED BY <1>1, <1>2, <2>2, <2>3
<1>8. CASE Release(k)
  BY <1>1, <1>2, <1>8, IdleType DEF Release
<1> QED BY <1>3, <1>4, <1>5, <1>6, <1>7, <1>8 DEF TickStep

LEMMA TypeNext == TypeOK /\ TicksPast /\ [Next]_vars => TypeOK' /\ TicksPast'
<1> SUFFICES ASSUME TypeOK, TicksPast, [Next]_vars PROVE TypeOK' /\ TicksPast'
  OBVIOUS
<1>0. clock \in Nat /\ Times \subseteq Nat /\ 0 \in Times /\ clock <= clock
      /\ \A k \in Ticks : tick[k].now \in Times
  BY TimeAssumption DEF TypeOK, Times, Tick
<1>1. ASSUME NEW c \in Schedules, CreateSchedule(c) PROVE TypeOK' /\ TicksPast'
  <2>1. /\ NextRun(c, clock) \in Nat
        /\ Kind[c] = "RECURRING" => NextRun(c, clock) <= clock + Interval[c]
    BY <1>0, NextRunLater DEF TypeOK
  <2> QED BY <1>1, <2>1 DEF CreateSchedule, TypeOK, TicksPast
<1>3. ASSUME NEW k \in Ticks, Acquire(k) PROVE TypeOK' /\ TicksPast'
  <2>1. tick' \in [Ticks -> Tick] /\ TicksPast'
    BY <1>3, TickType
  <2> QED BY <1>3, <2>1, TickAssumption DEF Acquire, TypeOK
<1>4. ASSUME NEW k \in Ticks, TickStep(k) PROVE TypeOK' /\ TicksPast'
  <2>1. tick' \in [Ticks -> Tick] /\ TicksPast'
    BY <1>4, TickType
  <2>2. CASE ReadDue(k)
    BY <2>1, <2>2 DEF ReadDue, TypeOK
  <2>3. ASSUME NEW c \in Schedules, FireRead(k, c) PROVE TypeOK'
    BY <2>1, <2>3 DEF FireRead, TypeOK
  <2>6. ASSUME NEW c \in Schedules, FireSkip(k, c) PROVE TypeOK'
    BY <2>1, <2>6 DEF FireSkip, TypeOK
  <2>4. ASSUME NEW c \in Schedules, FireWrite(k, c) PROVE TypeOK'
    <3>1. /\ NextRun(c, tick[k].now) \in Nat
          /\ Kind[c] = "RECURRING" => NextRun(c, tick[k].now) <= clock + Interval[c]
      BY <1>0, NextRunLater DEF TicksPast
    <3>2. fired' \in [Schedules -> [Times -> Nat]]
      <4>1. fired[c] \in [Times -> Nat] /\ tick[k].seen \in Times
        BY DEF TypeOK, Tick
      <4>2. [fired[c] EXCEPT ![tick[k].seen] = @ + 1] \in [Times -> Nat]
        BY <4>1
      <4>3. fired' = [fired EXCEPT ![c] = [fired[c] EXCEPT ![tick[k].seen] = @ + 1]]
        BY <2>4 DEF FireWrite, TypeOK
      <4> QED BY <4>2, <4>3 DEF TypeOK
    <3> QED BY <2>1, <2>4, <3>1, <3>2 DEF FireWrite, TypeOK
  <2>5. CASE Release(k)
    BY <2>1, <2>5 DEF Release, TypeOK
  <2> QED BY <1>4, <2>1, <2>2, <2>3, <2>4, <2>5, <2>6 DEF TickStep
<1>5. CASE LockExpires
  BY <1>5 DEF LockExpires, TypeOK, TicksPast
<1>6. ASSUME NEW s \in Instances, Stop(s) PROVE TypeOK' /\ TicksPast'
  <2>1. Idle \in Tick /\ Idle.now = 0
    BY IdleType
  <2> QED BY <1>0, <1>6, <2>1 DEF Stop, TypeOK, TicksPast
<1>7. CASE TimePasses
  <2>1. clock' \in Times /\ clock' = clock + 1 /\ clock < MaxTime
    BY <1>7, <1>0, TimeAssumption DEF TimePasses, Times, TypeOK
  <2>2. TicksPast'
    <3>1. ASSUME NEW k \in Ticks PROVE tick[k].now <= clock'
      <4>1. tick[k].now \in Nat /\ tick[k].now <= clock
        BY <1>0 DEF TicksPast
      <4> QED BY <1>0, <2>1, <4>1
    <3>2. tick' = tick
      BY <1>7 DEF TimePasses
    <3> QED BY <3>1, <3>2 DEF TicksPast
  <2>3. ASSUME NEW c \in Schedules, Kind[c] = "RECURRING"
        PROVE  next[c] <= clock' + Interval[c]
    <3>1. next[c] \in Nat /\ next[c] <= clock + Interval[c] /\ Interval[c] \in Nat
      BY <2>3, ScheduleAssumption DEF TypeOK
    <3> QED BY <1>0, <2>1, <3>1
  <2> QED BY <1>7, <2>1, <2>2, <2>3 DEF TimePasses, TypeOK
<1>8. CASE UNCHANGED vars
  BY <1>8 DEF vars, TypeOK, TicksPast
<1> QED BY <1>1, <1>3, <1>4, <1>5, <1>6, <1>7, <1>8 DEF Next

LEMMA InitType == Init => TypeOK /\ TicksPast
<1> SUFFICES ASSUME Init PROVE TypeOK /\ TicksPast
  OBVIOUS
<1>1. 0 \in Times /\ Idle \in Tick /\ Idle.now = 0
  BY IdleType
<1>2. clock = 0 /\ late = FALSE /\ overdue = {} /\ lock = None /\ up = Instances
  BY DEF Init
<1>3. /\ tick \in [Ticks -> Tick] /\ TicksPast
      /\ row \in [Schedules -> {"absent", "listed"}]
      /\ fired \in [Schedules -> [Times -> Nat]]
  BY <1>1 DEF Init, TicksPast
<1>4. next \in [Schedules -> Nat]
      /\ \A c \in Schedules : Kind[c] = "RECURRING" => next[c] <= clock + Interval[c]
  <2>1. \A c \in Schedules : next[c] = 0 /\ Interval[c] \in Nat
    BY ScheduleAssumption DEF Init
  <2> QED BY <1>2, <2>1 DEF Init
<1>5. late \in BOOLEAN
  BY <1>2
<1> QED BY <1>1, <1>2, <1>3, <1>4, <1>5 DEF TypeOK

\* In every environment, late ticks included, the types hold, and the next run
\* of a recurring schedule is at most one interval away.
THEOREM TypeCorrect == Spec => []TypeOK
<1>1. Spec => [](TypeOK /\ TicksPast)
  BY InitType, TypeNext, PTL DEF Spec
<1> QED BY <1>1, PTL

-----------------------------------------------------------------------------
\* The ticks a tick's step leaves alone, and the tick it makes.
LEMMA OtherTicks ==
  ASSUME TypeOK, NEW k \in Ticks, NEW new, tick' = [tick EXCEPT ![k] = new]
  PROVE  tick'[k] = new /\ \A j \in Ticks : j # k => tick'[j] = tick[j]
BY DEF TypeOK

LEMMA IdleFields == Idle.pc = "idle" /\ Idle.due = {} /\ Idle.cur = {}
BY DEF Idle, TickAt

\* If the ticks at work are at work already, and the lock has not changed, the
\* lock still names the instance of the one tick at work.
LEMMA LeaderStays ==
  ASSUME LeaderHoldsLock, lock' = lock,
         \A j \in Ticks : tick'[j].pc # "idle" => tick[j].pc # "idle"
  PROVE  LeaderHoldsLock'
BY DEF LeaderHoldsLock, SingleLeader, Working

\* A tick at work is the only one.
LEMMA OthersRest ==
  ASSUME LeaderHoldsLock, NEW k \in Ticks, Working(k), NEW j \in Ticks, j # k
  PROVE  tick[j].pc = "idle"
BY DEF LeaderHoldsLock, SingleLeader, Working

LEMMA LeaderNext ==
  ASSUME ~late', TypeOK, ReadIsCurrent, LeaderHoldsLock, [Next]_vars
  PROVE  LeaderHoldsLock'
<1>1. ASSUME NEW c \in Schedules, CreateSchedule(c) PROVE LeaderHoldsLock'
  BY <1>1, LeaderStays DEF CreateSchedule
<1>2. ASSUME NEW k \in Ticks, Acquire(k) PROVE LeaderHoldsLock'
  <2>1. \A j \in Ticks : tick[j].pc = "idle"
    BY <1>2, TickAssumption DEF Acquire, LeaderHoldsLock, Working
  <2>2. \A j \in Ticks : j # k => tick'[j] = tick[j]
    BY <1>2, OtherTicks DEF Acquire
  <2>3. lock' = InstanceOf[k]
    BY <1>2 DEF Acquire
  <2> QED BY <2>1, <2>2, <2>3 DEF LeaderHoldsLock, SingleLeader, Working
<1>3. ASSUME NEW k \in Ticks, TickStep(k) PROVE LeaderHoldsLock'
  <2>1. CASE ReadDue(k)
    <3>1. tick[k].pc = "reading" /\ lock' = lock
          /\ \A j \in Ticks : j # k => tick'[j] = tick[j]
      BY <2>1, OtherTicks DEF ReadDue
    <3> QED BY <3>1, LeaderStays
  <2>2. ASSUME NEW c \in Schedules, FireRead(k, c) \/ FireSkip(k, c)
        PROVE  LeaderHoldsLock'
    <3>1. tick[k].pc = "firing" /\ lock' = lock
          /\ \A j \in Ticks : j # k => tick'[j] = tick[j]
      BY <2>2, OtherTicks DEF FireRead, FireSkip
    <3> QED BY <3>1, LeaderStays
  <2>3. ASSUME NEW c \in Schedules, FireWrite(k, c) PROVE LeaderHoldsLock'
    <3>1. tick[k].pc = "firing"
      BY <2>3 DEF FireWrite, ReadIsCurrent
    <3>2. lock' = lock /\ \A j \in Ticks : j # k => tick'[j] = tick[j]
      BY <2>3, OtherTicks DEF FireWrite
    <3> QED BY <3>1, <3>2, LeaderStays
  <2>4. CASE Release(k)
    <3>1. Working(k)
      BY <2>4 DEF Release, Working
    <3>2. tick'[k] = Idle /\ \A j \in Ticks : j # k => tick'[j] = tick[j]
      BY <2>4, OtherTicks DEF Release
    <3>3. \A j \in Ticks : tick'[j].pc = "idle"
      BY <3>1, <3>2, IdleFields, OthersRest
    <3> QED BY <3>3 DEF LeaderHoldsLock, SingleLeader, Working
  <2> QED BY <1>3, <2>1, <2>2, <2>3, <2>4 DEF TickStep
<1>4. CASE LockExpires
  BY <1>4 DEF LockExpires, LeaderHoldsLock, SingleLeader, Working
<1>5. ASSUME NEW s \in Instances, Stop(s) PROVE LeaderHoldsLock'
  <2>1. \A j \in Ticks : tick'[j] = Idle \/ tick'[j] = tick[j]
    BY <1>5 DEF Stop
  <2>2. lock' = lock
    BY <1>5 DEF Stop
  <2> QED BY <2>1, <2>2, IdleFields, LeaderStays
<1>6. CASE TimePasses
  BY <1>6, LeaderStays DEF TimePasses
<1>7. CASE UNCHANGED vars
  BY <1>7, LeaderStays DEF vars
<1> QED BY <1>1, <1>2, <1>3, <1>4, <1>5, <1>6, <1>7 DEF Next

\* A tick with nothing in hand, or with no more than before, is no obstacle to
\* ReadIsCurrent as long as the rows stay as they are.
LEMMA ReadStays ==
  ASSUME ReadIsCurrent, row' = row, next' = next,
         \A j \in Ticks : \/ tick'[j] = tick[j]
                          \/ tick'[j].due = {} /\ tick'[j].cur = {}
  PROVE  ReadIsCurrent'
BY DEF ReadIsCurrent

\* Nor is a tick at work on rows that exist, with a current row in hand.
LEMMA ReadOne ==
  ASSUME ReadIsCurrent, row' = row, next' = next, NEW k \in Ticks,
         \A j \in Ticks : j # k => tick'[j] = tick[j],
         tick'[k].pc = "firing",
         \A d \in Schedules : d \in tick'[k].due \cup tick'[k].cur => row[d] # "absent",
         \A d \in Schedules : d \in tick'[k].cur => /\ tick'[k].cur = {d}
                                                  /\ tick'[k].seen = next[d]
                                                  /\ next[d] <= tick'[k].now
  PROVE  ReadIsCurrent'
<1> SUFFICES ASSUME NEW j \in Ticks, NEW c \in Schedules,
                    c \in tick'[j].due \cup tick'[j].cur
             PROVE  /\ tick'[j].pc = "firing"
                    /\ row'[c] # "absent"
                    /\ c \in tick'[j].cur => /\ tick'[j].cur = {c}
                                             /\ tick'[j].seen = next'[c]
                                             /\ next'[c] <= tick'[j].now
  BY DEF ReadIsCurrent
<1>1. CASE j = k
  BY <1>1
<1>2. CASE j # k
  BY <1>2 DEF ReadIsCurrent
<1> QED BY <1>1, <1>2

LEMMA ReadNext ==
  ASSUME TypeOK, ReadIsCurrent, LeaderHoldsLock, [Next]_vars
  PROVE  ReadIsCurrent'
<1>1. ASSUME NEW c \in Schedules, CreateSchedule(c) PROVE ReadIsCurrent'
  <2>1. /\ tick' = tick /\ row[c] = "absent"
        /\ \A d \in Schedules : d # c => row'[d] = row[d] /\ next'[d] = next[d]
    BY <1>1 DEF CreateSchedule, TypeOK
  <2> QED BY <2>1 DEF ReadIsCurrent
<1>3. ASSUME NEW k \in Ticks, Acquire(k) PROVE ReadIsCurrent'
  <2>1. tick'[k] = TickAt("reading", clock, {}, {}, 0)
        /\ \A j \in Ticks : j # k => tick'[j] = tick[j]
    BY <1>3, OtherTicks DEF Acquire
  <2>2. tick'[k].due = {} /\ tick'[k].cur = {}
    BY <2>1 DEF TickAt
  <2> QED BY <1>3, <2>1, <2>2, ReadStays DEF Acquire
<1>4. ASSUME NEW k \in Ticks, TickStep(k) PROVE ReadIsCurrent'
  <2> DEFINE at == tick[k]
             new == tick'[k]
  <2>1. CASE ReadDue(k)
    <3>1. new = TickAt("firing", at.now, Due(at.now), {}, 0)
          /\ \A j \in Ticks : j # k => tick'[j] = tick[j]
      BY <2>1, OtherTicks DEF ReadDue, TypeOK
    <3>2. new.pc = "firing" /\ new.due = Due(at.now) /\ new.cur = {}
      BY <3>1 DEF TickAt
    <3>3. row' = row /\ next' = next
      BY <2>1 DEF ReadDue
    <3>4. \A c \in Due(at.now) : row[c] # "absent"
      BY DEF Due
    <3> QED BY <3>1, <3>2, <3>3, <3>4 DEF ReadIsCurrent
  <2>2. ASSUME NEW c \in Schedules, FireRead(k, c) PROVE ReadIsCurrent'
    <3>1. new = TickAt("firing", at.now, at.due \ {c}, {c}, next[c])
          /\ \A j \in Ticks : j # k => tick'[j] = tick[j]
      BY <2>2, OtherTicks DEF FireRead, TypeOK
    <3>2. /\ new.pc = "firing" /\ new.due = at.due \ {c} /\ new.cur = {c}
          /\ new.seen = next[c] /\ new.now = at.now
      BY <3>1 DEF TickAt
    <3>3. row' = row /\ next' = next /\ c \in at.due /\ next[c] <= at.now
      BY <2>2 DEF FireRead
    <3>4. \A d \in Schedules : d \in at.due => row[d] # "absent"
      BY DEF ReadIsCurrent
    <3> QED BY <3>1, <3>2, <3>3, <3>4, ReadOne
  <2>3. ASSUME NEW c \in Schedules, FireSkip(k, c) PROVE ReadIsCurrent'
    <3>1. new = TickAt("firing", at.now, at.due \ {c}, {}, 0)
          /\ \A j \in Ticks : j # k => tick'[j] = tick[j]
      BY <2>3, OtherTicks DEF FireSkip, TypeOK
    <3>2. new.pc = "firing" /\ new.due = at.due \ {c} /\ new.cur = {}
      BY <3>1 DEF TickAt
    <3>3. row' = row /\ next' = next
      BY <2>3 DEF FireSkip
    <3>4. \A d \in Schedules : d \in at.due => row[d] # "absent"
      BY DEF ReadIsCurrent
    <3> QED BY <3>1, <3>2, <3>3, <3>4, ReadOne
  <2>4. ASSUME NEW c \in Schedules, FireWrite(k, c) PROVE ReadIsCurrent'
    <3>1. new = TickAt("firing", at.now, at.due, {}, 0)
          /\ \A j \in Ticks : j # k => tick'[j] = tick[j]
      BY <2>4, OtherTicks DEF FireWrite, TypeOK
    <3>2. new.pc = "firing" /\ new.due = at.due /\ new.cur = {}
      BY <3>1 DEF TickAt
    <3>3. row' = row
      BY <2>4 DEF FireWrite
    <3>4. Working(k)
      BY <2>4 DEF FireWrite, ReadIsCurrent, Working
    <3>5. \A j \in Ticks : j # k => \A d \in Schedules : d \notin tick[j].due \cup tick[j].cur
      BY <3>4, OthersRest DEF ReadIsCurrent
    <3> QED BY <3>1, <3>2, <3>3, <3>5 DEF ReadIsCurrent
  <2>5. CASE Release(k)
    <3>1. new = Idle /\ \A j \in Ticks : j # k => tick'[j] = tick[j]
      BY <2>5, OtherTicks DEF Release
    <3> QED BY <2>5, <3>1, IdleFields, ReadStays DEF Release
  <2> QED BY <1>4, <2>1, <2>2, <2>3, <2>4, <2>5 DEF TickStep
<1>5. CASE LockExpires
  BY <1>5, ReadStays DEF LockExpires
<1>6. ASSUME NEW s \in Instances, Stop(s) PROVE ReadIsCurrent'
  <2>1. \A j \in Ticks : tick'[j] = Idle \/ tick'[j] = tick[j]
    BY <1>6 DEF Stop
  <2> QED BY <1>6, <2>1, IdleFields, ReadStays DEF Stop
<1>7. CASE TimePasses
  BY <1>7, ReadStays DEF TimePasses
<1>8. CASE UNCHANGED vars
  BY <1>8, ReadStays DEF vars
<1> QED BY <1>1, <1>3, <1>4, <1>5, <1>6, <1>7, <1>8 DEF Next

\* The one step that creates a job for an occurrence and moves the schedule on:
\* the occurrence had no job yet, and the next run is later.
LEMMA FireWriteEffect ==
  ASSUME TypeOK, TicksPast, ReadIsCurrent, FiredIsPast,
         NEW k \in Ticks, NEW c \in Schedules, FireWrite(k, c)
  PROVE  /\ tick[k].seen = next[c] /\ row[c] # "absent"
         /\ next[c] \in Times /\ fired[c][next[c]] = 0
         /\ NextRun(c, tick[k].now) \in Nat /\ NextRun(c, tick[k].now) > next[c]
<1>1. /\ tick[k].seen = next[c] /\ row[c] # "absent" /\ next[c] <= tick[k].now
  BY DEF FireWrite, ReadIsCurrent
<1>2. tick[k].now \in Times /\ tick[k].seen \in Times /\ tick[k].now <= clock
  BY DEF TypeOK, Tick, TicksPast
<1>3. NextRun(c, tick[k].now) \in Nat /\ NextRun(c, tick[k].now) > tick[k].now
  BY <1>2, NextRunLater
<1>4. next[c] \in Times /\ next[c] \in Nat /\ tick[k].now \in Nat
  BY <1>1, <1>2, TimeAssumption DEF Times
<1>5. fired[c][next[c]] = 0
  <2>1. fired[c][next[c]] \in Nat
    BY <1>4 DEF TypeOK
  <2>2. ~(fired[c][next[c]] > 0)
    BY <1>4 DEF FiredIsPast
  <2> QED BY <2>1, <2>2
<1> QED BY <1>1, <1>3, <1>4, <1>5

LEMMA FiredNext ==
  ASSUME TypeOK, TicksPast, ReadIsCurrent, FiredIsPast, FiredOnce, [Next]_vars
  PROVE  FiredIsPast' /\ FiredOnce'
<1>1. ASSUME NEW c \in Schedules, CreateSchedule(c)
      PROVE  FiredIsPast' /\ FiredOnce'
  <2>1. /\ fired' = fired /\ row[c] = "absent"
        /\ \A d \in Schedules : d # c => row'[d] = row[d] /\ next'[d] = next[d]
    BY <1>1 DEF CreateSchedule, TypeOK
  <2> QED BY <2>1 DEF FiredIsPast, FiredOnce
<1>3. ASSUME NEW k \in Ticks, NEW c \in Schedules, FireWrite(k, c)
      PROVE  FiredIsPast' /\ FiredOnce'
  <2> DEFINE later == NextRun(c, tick[k].now)
  <2>1. /\ tick[k].seen = next[c] /\ row[c] # "absent"
        /\ next[c] \in Times /\ fired[c][next[c]] = 0 /\ later \in Nat /\ later > next[c]
    BY <1>3, FireWriteEffect
  <2>2. /\ row' = row /\ next' = [next EXCEPT ![c] = later]
        /\ fired' = [fired EXCEPT ![c][next[c]] = @ + 1]
    BY <1>3, <2>1 DEF FireWrite
  <2> HIDE DEF later
  <2>3. ASSUME NEW e \in Schedules, NEW d \in Times
        PROVE  /\ fired'[e][d] <= 1
               /\ fired'[e][d] > 0 => row'[e] # "absent" /\ d < next'[e]
    <3>1. next[c] \in Nat /\ d \in Nat
      BY <2>1, <2>3, TimeAssumption DEF Times
    <3>2. CASE e # c
      <4>1. fired'[e] = fired[e] /\ next'[e] = next[e]
        BY <2>2, <3>2 DEF TypeOK
      <4> QED BY <2>2, <4>1 DEF FiredIsPast, FiredOnce
    <3>3. CASE e = c /\ d # next[c]
      <4>1. fired'[c][d] = fired[c][d] /\ next'[c] = later
        BY <2>2, <3>3 DEF TypeOK
      <4>2. /\ fired[c][d] <= 1
            /\ fired[c][d] > 0 => d < next[c]
        BY DEF FiredIsPast, FiredOnce
      <4> QED BY <2>1, <2>2, <3>1, <3>3, <4>1, <4>2
    <3>4. CASE e = c /\ d = next[c]
      <4>1. fired'[c][d] = 1 /\ next'[c] = later
        BY <2>1, <2>2, <3>4 DEF TypeOK
      <4> QED BY <2>1, <2>2, <3>4, <4>1
    <3> QED BY <3>2, <3>3, <3>4
  <2> QED BY <2>3 DEF FiredIsPast, FiredOnce
<1>4. ASSUME fired' = fired, row' = row, next' = next
      PROVE  FiredIsPast' /\ FiredOnce'
  BY <1>4 DEF FiredIsPast, FiredOnce
<1>5. ASSUME NEW k \in Ticks, Acquire(k) \/ TickStep(k)
      PROVE  FiredIsPast' /\ FiredOnce'
  BY <1>3, <1>4, <1>5 DEF Acquire, TickStep, ReadDue, FireRead, FireSkip, Release
<1>6. ASSUME LockExpires \/ (\E s \in Instances : Stop(s)) \/ TimePasses \/ UNCHANGED vars
      PROVE  FiredIsPast' /\ FiredOnce'
  BY <1>4, <1>6 DEF LockExpires, Stop, TimePasses, vars
<1> QED BY <1>1, <1>5, <1>6 DEF Next

LEMMA InitInv == Init => SchedulerInv
<1> SUFFICES ASSUME Init PROVE SchedulerInv
  OBVIOUS
<1>1. TypeOK /\ TicksPast
  BY InitType
<1>2. \A k \in Ticks : tick[k].pc = "idle" /\ tick[k].due = {} /\ tick[k].cur = {}
  BY IdleFields DEF Init
<1>3. \A c \in Schedules, d \in Times : fired[c][d] = 0
  BY DEF Init
<1> QED BY <1>1, <1>2, <1>3 DEF SchedulerInv, LeaderHoldsLock, SingleLeader, Working,
           Exclusive, ReadIsCurrent, FiredIsPast, FiredOnce

\* A tick that was late once was late for ever.
LEMMA LateStays == late /\ [Next]_vars => late'
<1> SUFFICES ASSUME late, [Next]_vars PROVE late'
  OBVIOUS
<1>1. ASSUME NEW c \in Schedules, CreateSchedule(c) PROVE late'
  BY <1>1 DEF CreateSchedule
<1>2. ASSUME NEW k \in Ticks, Acquire(k) \/ TickStep(k) PROVE late'
  BY <1>2 DEF Acquire, TickStep, ReadDue, FireRead, FireSkip, FireWrite, Release
<1>3. ASSUME LockExpires \/ (\E s \in Instances : Stop(s)) \/ TimePasses \/ UNCHANGED vars
      PROVE  late'
  BY <1>3 DEF LockExpires, Stop, TimePasses, vars
<1> QED BY <1>1, <1>2, <1>3 DEF Next

LEMMA NextInv == SchedulerInv /\ [Next]_vars => SchedulerInv'
<1> SUFFICES ASSUME SchedulerInv, [Next]_vars PROVE SchedulerInv'
  OBVIOUS
<1>1. TypeOK' /\ TicksPast'
  BY TypeNext DEF SchedulerInv
<1>2. ASSUME ~late' PROVE Exclusive'
  <2>1. Exclusive
    BY <1>2, LateStays DEF SchedulerInv
  <2> QED BY <1>2, <2>1, LeaderNext, ReadNext, FiredNext DEF SchedulerInv, Exclusive
<1> QED BY <1>1, <1>2 DEF SchedulerInv

\* The inductive invariant: it says of every environment what holds as long as
\* no tick has outlasted the lock's TTL.
THEOREM Timely == Spec => []SchedulerInv
BY InitInv, NextInv, PTL DEF Spec

\* In particular each occurrence of a schedule gets at most one job from the
\* scheduler, however its instances and their ticks interleave.
THEOREM NoDuplicateOccurrence == Spec => []OncePerOccurrence
<1>1. SchedulerInv => OncePerOccurrence
  BY DEF SchedulerInv, Exclusive, OncePerOccurrence
<1> QED BY <1>1, Timely, PTL

\* One tick works at a time.
THEOREM OneLeader == Spec => [](late \/ SingleLeader)
<1>1. SchedulerInv => late \/ SingleLeader
  BY DEF SchedulerInv, Exclusive, LeaderHoldsLock
<1> QED BY <1>1, Timely, PTL

LEMMA AdvanceStep ==
  ASSUME SchedulerInv, ~late, [Next]_vars, NEW c \in Schedules,
         row[c] # "absent", next'[c] # next[c]
  PROVE  next'[c] > next[c]
<1>1. ASSUME NEW k \in Ticks, NEW e \in Schedules, FireWrite(k, e) PROVE next'[c] > next[c]
  <2>1. NextRun(e, tick[k].now) \in Nat /\ NextRun(e, tick[k].now) > next[e]
    BY <1>1, FireWriteEffect DEF SchedulerInv, Exclusive
  <2>2. next' = [next EXCEPT ![e] = NextRun(e, tick[k].now)]
    BY <1>1 DEF FireWrite
  <2>3. e = c
    BY <2>2 DEF SchedulerInv, TypeOK
  <2> QED BY <2>1, <2>2, <2>3 DEF SchedulerInv, TypeOK
<1>2. ASSUME NEW e \in Schedules, CreateSchedule(e) PROVE FALSE
  BY <1>2 DEF CreateSchedule, SchedulerInv, TypeOK
<1>3. ASSUME next' = next PROVE FALSE
  BY <1>3
<1>4. ASSUME NEW k \in Ticks, Acquire(k) \/ TickStep(k) PROVE next'[c] > next[c]
  BY <1>1, <1>3, <1>4 DEF Acquire, TickStep, ReadDue, FireRead, FireSkip, Release
<1>5. ASSUME \/ LockExpires \/ (\E s \in Instances : Stop(s)) \/ TimePasses \/ UNCHANGED vars
      PROVE  FALSE
  BY <1>3, <1>5 DEF LockExpires, Stop, TimePasses, vars
<1> QED BY <1>2, <1>4, <1>5 DEF Next

\* And a schedule only moves forward: no write of a tick undoes a later one.
THEOREM ForwardOnly == Spec => NextRunAdvances
<1>1. SchedulerInv /\ [Next]_vars =>
        [late \/ \A c \in Schedules :
           row[c] # "absent" /\ next'[c] # next[c] => next'[c] > next[c]]_vars
  BY AdvanceStep
<1> QED BY <1>1, Timely, PTL DEF Spec, NextRunAdvances

-----------------------------------------------------------------------------
(* What is left of the lock once a tick has outlasted it *)

\* No instance starts a tick while an older one of its own is at work.
OneTickEach == \A j, k \in Ticks : InstanceOf[j] = InstanceOf[k] => j = k

\* The lock of a tick within its TTL is there.
FreshHoldsLock == \A k \in Ticks : Working(k) /\ k \notin overdue => lock = InstanceOf[k]

\* A tick with a row in hand is at work.
HandsAtWork == \A k \in Ticks : tick[k].cur # {} => Working(k)

FreshInv == HandsAtWork /\ (OneTickEach => FreshHoldsLock)

\* If nobody starts to work or is no longer late, and the lock has not changed, a
\* tick within its TTL still has it.
LEMMA FreshStays ==
  ASSUME FreshInv, lock' = lock, overdue' = overdue,
         \A j \in Ticks : /\ tick'[j].pc # "idle" => tick[j].pc # "idle"
                          /\ tick'[j].cur # {} => tick'[j].pc # "idle"
  PROVE  FreshInv'
BY DEF FreshInv, HandsAtWork, FreshHoldsLock, Working

LEMMA FreshNext == TypeOK /\ FreshInv /\ [Next]_vars => FreshInv'
<1> SUFFICES ASSUME TypeOK, FreshInv, [Next]_vars PROVE FreshInv'
  OBVIOUS
<1>0. \A j \in Ticks : tick[j].cur # {} => tick[j].pc # "idle"
  BY DEF FreshInv, HandsAtWork, Working
<1>1. ASSUME NEW c \in Schedules, CreateSchedule(c) PROVE FreshInv'
  BY <1>0, <1>1, FreshStays DEF CreateSchedule
<1>2. ASSUME NEW k \in Ticks, Acquire(k) PROVE FreshInv'
  <2>1. /\ tick'[k] = TickAt("reading", clock, {}, {}, 0)
        /\ \A j \in Ticks : j # k => tick'[j] = tick[j]
        /\ lock = None /\ lock' = InstanceOf[k] /\ overdue' = overdue
    BY <1>2, OtherTicks DEF Acquire
  <2>2. tick'[k].cur = {}
    BY <2>1 DEF TickAt
  <2>3. OneTickEach => \A j \in Ticks : tick[j].pc # "idle" => j \in overdue
    BY <2>1, TickAssumption DEF FreshInv, FreshHoldsLock, Working
  <2> QED BY <1>0, <2>1, <2>2, <2>3 DEF FreshInv, HandsAtWork, FreshHoldsLock, Working
<1>3. ASSUME NEW k \in Ticks, NEW new, tick' = [tick EXCEPT ![k] = new],
             tick[k].pc # "idle", new.cur # {} => new.pc # "idle",
             lock' = lock, overdue' = overdue
      PROVE  FreshInv'
  <2>1. tick'[k] = new /\ \A j \in Ticks : j # k => tick'[j] = tick[j]
    BY <1>3, OtherTicks
  <2> QED BY <1>0, <1>3, <2>1, FreshStays
<1>4. ASSUME NEW k \in Ticks, TickStep(k) PROVE FreshInv'
  <2>1. CASE ReadDue(k)
    <3>1. tick' = [tick EXCEPT ![k] = TickAt("firing", tick[k].now, Due(tick[k].now), {}, 0)]
          /\ tick[k].pc # "idle" /\ lock' = lock /\ overdue' = overdue
      BY <2>1 DEF ReadDue, TypeOK
    <3> QED BY <3>1, <1>3 DEF TickAt
  <2>2. ASSUME NEW c \in Schedules, FireRead(k, c) PROVE FreshInv'
    <3>1. tick' = [tick EXCEPT ![k] =
                     TickAt("firing", tick[k].now, tick[k].due \ {c}, {c}, next[c])]
          /\ tick[k].pc # "idle" /\ lock' = lock /\ overdue' = overdue
      BY <2>2 DEF FireRead, TypeOK
    <3> QED BY <3>1, <1>3 DEF TickAt
  <2>3. ASSUME NEW c \in Schedules, FireSkip(k, c) PROVE FreshInv'
    <3>1. tick' = [tick EXCEPT ![k] =
                     TickAt("firing", tick[k].now, tick[k].due \ {c}, {}, 0)]
          /\ tick[k].pc # "idle" /\ lock' = lock /\ overdue' = overdue
      BY <2>3 DEF FireSkip, TypeOK
    <3> QED BY <3>1, <1>3 DEF TickAt
  <2>4. ASSUME NEW c \in Schedules, FireWrite(k, c) PROVE FreshInv'
    <3>1. tick' = [tick EXCEPT ![k] = TickAt("firing", tick[k].now, tick[k].due, {}, 0)]
          /\ tick[k].pc # "idle" /\ lock' = lock /\ overdue' = overdue
      BY <1>0, <2>4 DEF FireWrite, TypeOK
    <3> QED BY <3>1, <1>3 DEF TickAt
  <2>5. CASE Release(k)
    <3>1. /\ tick'[k].pc = "idle" /\ tick'[k].cur = {} /\ tick[k].pc # "idle"
          /\ \A j \in Ticks : j # k => tick'[j] = tick[j]
          /\ lock' = IF lock = InstanceOf[k] THEN None ELSE lock
          /\ overdue' = overdue \ {k}
      BY <2>5, OtherTicks, IdleFields DEF Release
    <3>2. ASSUME OneTickEach, NEW j \in Ticks, tick'[j].pc # "idle", j \notin overdue'
          PROVE  lock' = InstanceOf[j]
      <4>1. j # k /\ lock = InstanceOf[j]
        BY <3>1, <3>2 DEF FreshInv, FreshHoldsLock, Working
      <4>2. InstanceOf[j] # InstanceOf[k]
        BY <4>1, <3>2 DEF OneTickEach
      <4> QED BY <3>1, <4>1, <4>2
    <3> QED BY <1>0, <3>1, <3>2 DEF FreshInv, HandsAtWork, FreshHoldsLock, Working
  <2> QED BY <1>4, <2>1, <2>2, <2>3, <2>4, <2>5 DEF TickStep
<1>5. CASE LockExpires
  BY <1>0, <1>5 DEF LockExpires, FreshInv, HandsAtWork, FreshHoldsLock, Working
<1>6. ASSUME NEW s \in Instances, Stop(s) PROVE FreshInv'
  <2>1. /\ tick' = [k \in Ticks |-> IF InstanceOf[k] = s THEN Idle ELSE tick[k]]
        /\ overdue' = {k \in overdue : InstanceOf[k] # s} /\ lock' = lock
    BY <1>6 DEF Stop
  <2> QED BY <1>0, <2>1, IdleFields DEF FreshInv, HandsAtWork, FreshHoldsLock, Working
<1>7. CASE TimePasses
  BY <1>0, <1>7, FreshStays DEF TimePasses
<1>8. CASE UNCHANGED vars
  BY <1>0, <1>8, FreshStays DEF vars
<1> QED BY <1>1, <1>2, <1>4, <1>5, <1>6, <1>7, <1>8 DEF Next

\* A tick within its TTL is the only such tick, late or not, if no instance overtakes
\* itself: a release compares owners, so it frees nobody else's lock.
THEOREM FreshLeaders == Spec => [](OneTickEach => FreshLeaderAlone)
<1>1. Init => FreshInv
  BY IdleFields DEF Init, FreshInv, HandsAtWork, FreshHoldsLock, Working
<1>2. Spec => []FreshInv
  BY <1>1, FreshNext, TypeCorrect, PTL DEF Spec
<1>3. FreshInv => (OneTickEach => FreshLeaderAlone)
  BY DEF FreshInv, FreshHoldsLock, FreshLeaderAlone, OneTickEach
<1> QED BY <1>2, <1>3, PTL
=============================================================================
