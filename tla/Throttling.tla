------------------------------ MODULE Throttling ------------------------------
(***************************************************************************)
(* The jobs of one rate-limited queue, from claim to claim.  A claimed job *)
(* asks the RateLimiter: the caller reads its clock, and Redis executes    *)
(* the pipeline a moment later.  A job that is refused is put back, a job  *)
(* that fails is retried after its delay.  Time passes in ticks, and every *)
(* time is kept as its distance from now.  Workers that die or find no     *)
(* slot are the subject of JobLifecycle.                                   *)
(***************************************************************************)
EXTENDS RetryDelay, FiniteSets

CONSTANTS
    Jobs,
    Limit, Window,  \* the queue's row of rate_limits
    Policy,         \* its row of retry_policies
    MaxAttempts,
    Requeue,        \* a refused job is not claimed again for so long
    MaxLag          \* bound: from a caller's clock to its pipeline in Redis

ASSUME ThrottlingAssumption ==
    /\ Policy \in RetryPolicies
    /\ {Limit, Window, MaxAttempts} \subseteq Nat \ {0}
    /\ {Requeue, MaxLag} \subseteq Nat
    /\ MaxLag < Window
\* Of the delays a job may get: each doubles.
ASSUME DelayAssumption ==
    \A a \in 1 .. MaxAttempts :
        /\ Uncapped(a, Policy) \in Nat
        /\ Policy.backoff = "EXPONENTIAL" =>
              \A b \in 1 .. a - 1 : Uncapped(a, Policy) >= 2 * Uncapped(b, Policy)

VARIABLES
    status,    \* status[j]: waiting, asking, running or settled
    due,       \* due[j]: until available_at
    attempt,   \* attempt[j]: attempt_number
    lag,       \* lag[j]: since the clock of its call was read
    log,       \* the sorted set in Redis: log[a] members are a ticks old
    calls,     \* calls[a] of them reached Redis a ticks ago
    admitted,  \* history: those of them that were allowed
    waited     \* history: waited[j]: the job's last retry delay

limiter == <<log, calls, admitted>>
vars == <<status, due, attempt, lag, limiter, waited>>

\* Older entries are in no caller's window.
Ages == 0 .. Window + MaxLag - 1

\* Ticks for which the limit is certain.
Stretch == 0 .. Window - MaxLag - 1

\* What f counts at the ages in S, one by one.
Members(f, S) == UNION {{a} \X (1 .. f[a]) : a \in S}
Total(f, S) == Cardinality(Members(f, S))

Init ==
    /\ status = [j \in Jobs |-> "waiting"]
    /\ due = [j \in Jobs |-> 0]
    /\ attempt = [j \in Jobs |-> 0]
    /\ lag = [j \in Jobs |-> 0]
    /\ log = [a \in Ages |-> 0]
    /\ calls = [a \in Ages |-> 0]
    /\ admitted = [a \in Stretch |-> 0]
    /\ waited = [j \in Jobs |-> 0]

\* claimJobs counts the attempt; checkLimit reads the clock.
Claim(j) ==
    /\ status[j] = "waiting"
    /\ due[j] = 0
    /\ status' = [status EXCEPT ![j] = "asking"]
    /\ attempt' = [attempt EXCEPT ![j] = IF @ < MaxAttempts THEN @ + 1 ELSE @]
    /\ UNCHANGED <<due, lag, limiter, waited>>

\* Faulty variant: entries leave the window a tick early.
PrunedEarly(now) == [a \in Ages |-> IF a + 1 >= now + Window THEN 0 ELSE log[a]]

\* zremrangebyscore, by the caller's clock: now ticks ago.
Pruned(now) == [a \in Ages |-> IF a >= now + Window THEN 0 ELSE log[a]]

\* zadd counts the call itself, allowed or not.
Added(now) == [Pruned(now) EXCEPT ![now] = @ + 1]

\* Faulty variant: the call that reaches the limit is refused.
AllowedBelow(now) == Total(Added(now), Ages) < Limit

Allowed(now) == Total(Added(now), Ages) <= Limit

\* The pipeline, which Redis executes as one.
CheckLimit(j) ==
    /\ status[j] = "asking"
    /\ log' = Added(lag[j])
    /\ calls' = [calls EXCEPT ![0] = @ + 1]
    /\ admitted' = [admitted EXCEPT ![0] = IF Allowed(lag[j]) THEN @ + 1 ELSE @]
    /\ lag' = [lag EXCEPT ![j] = 0]

Admit(j) ==
    /\ Allowed(lag[j])
    /\ CheckLimit(j)
    /\ status' = [status EXCEPT ![j] = "running"]
    /\ UNCHANGED <<due, attempt, waited>>

\* The attempt stays counted.
Refuse(j) ==
    /\ ~Allowed(lag[j])
    /\ CheckLimit(j)
    /\ status' = [status EXCEPT ![j] = "waiting"]
    /\ due' = [due EXCEPT ![j] = Requeue]
    /\ UNCHANGED <<attempt, waited>>

Settle(j, success) ==
    /\ status[j] = "running"
    /\ success \/ ~ShouldRetry(attempt[j], MaxAttempts)
    /\ status' = [status EXCEPT ![j] = "settled"]
    /\ UNCHANGED <<due, attempt, lag, limiter, waited>>

Retry(j) ==
    /\ status[j] = "running"
    /\ ShouldRetry(attempt[j], MaxAttempts)
    /\ status' = [status EXCEPT ![j] = "waiting"]
    /\ \E d \in RetryDelays(attempt[j], Policy) :
          /\ due' = [due EXCEPT ![j] = d]
          /\ waited' = [waited EXCEPT ![j] = d]
    /\ UNCHANGED <<attempt, lag, limiter>>

Older(f) == [a \in DOMAIN f |-> IF a = 0 THEN 0 ELSE f[a - 1]]

\* A tick; no call takes longer than MaxLag.  pexpire: the log of a limiter that
\* nobody has called for a whole window is gone.
Tick ==
    /\ \A j \in Jobs : status[j] = "asking" => lag[j] < MaxLag
    /\ due' = [j \in Jobs |-> IF due[j] = 0 THEN 0 ELSE due[j] - 1]
    /\ lag' = [j \in Jobs |-> IF status[j] = "asking" THEN lag[j] + 1 ELSE 0]
    /\ calls' = Older(calls)
    /\ log' = IF \A a \in 0 .. Window - 1 : calls'[a] = 0
               THEN [a \in Ages |-> 0] ELSE Older(log)
    /\ admitted' = Older(admitted)
    /\ UNCHANGED <<status, attempt, waited>>

Next ==
    \/ \E j \in Jobs :
          \/ Claim(j) \/ Admit(j) \/ Refuse(j) \/ Retry(j)
          \/ \E success \in BOOLEAN : Settle(j, success)
    \/ Tick

Spec == Init /\ [][Next]_vars

-----------------------------------------------------------------------------
(* Properties *)

\* The types; the log holds no more than the calls, and of those whoever called
\* less than Window - MaxLag ago.
TypeOK ==
    /\ status \in [Jobs -> {"waiting", "asking", "running", "settled"}]
    /\ due \in [Jobs -> Nat]
    /\ attempt \in [Jobs -> 0 .. MaxAttempts]
    /\ lag \in [Jobs -> 0 .. MaxLag]
    /\ {log, calls} \subseteq [Ages -> Nat]
    /\ admitted \in [Stretch -> Nat]
    /\ Total(calls, Stretch) <= Total(log, Ages)
    /\ Total(log, Ages) <= Total(calls, Ages)

\* However the pipelines of several workers overtake each other, no stretch of
\* Window - MaxLag sees more than Limit jobs admitted: a call that prunes the
\* log by its later clock cannot make room for one that was delayed.
LimitHolds == TypeOK /\ Total(admitted, Stretch) <= Limit

\* A job is put back only if, with its own, more than Limit calls were made in
\* the last Window + MaxLag; those that were refused count.
RefusalsJustified ==
    [][\A j \in Jobs : status[j] = "asking" /\ status'[j] = "waiting"
          => Total(calls', Ages) > Limit]_vars

\* Below its maximum the exponential back-off outgrows its jitter: a later
\* attempt, however often the job was refused in between, never waits less than
\* an earlier one; and no wait is longer than five quarters of the maximum.
BackoffGrows ==
    [][\A j \in Jobs : status[j] = "running" /\ status'[j] = "waiting" =>
          /\ 4 * waited'[j] <= 5 * Policy.max
          /\ Policy.backoff = "EXPONENTIAL" /\ Uncapped(attempt[j], Policy) <= Policy.max
                => waited'[j] >= waited[j]]_vars
===============================================================================
