------------------------------ MODULE RetryDelay ------------------------------
(***************************************************************************)
(* How long a failed job waits: calculateRetryDelay and shouldRetry.  A    *)
(* policy is the row of retry_policies, its delays in whole ticks.         *)
(***************************************************************************)
EXTENDS Naturals

Backoffs == {"FIXED", "LINEAR", "EXPONENTIAL"}

RetryPolicies ==
    [backoff : Backoffs, initial : Nat, max : Nat, jitter : BOOLEAN]

\* attempt is at least 1: a claim has counted it.
Uncapped(attempt, policy) ==
    CASE policy.backoff = "LINEAR" -> policy.initial * attempt
      [] policy.backoff = "EXPONENTIAL" -> policy.initial * 2 ^ (attempt - 1)
      [] OTHER -> policy.initial

Base(attempt, policy) ==
    IF Uncapped(attempt, policy) < policy.max
    THEN Uncapped(attempt, policy) ELSE policy.max

\* Faulty variant: jitter of half the delay.
JitteredByHalf(delay) == delay \div 2 .. (3 * delay) \div 2

\* The whole parts of delay * (3/4 + random / 2), random at least 0, below 1.
Jittered(delay) ==
    (3 * delay) \div 4 .. (IF delay = 0 THEN 0 ELSE (5 * delay - 1) \div 4)

RetryDelays(attempt, policy) ==
    IF policy.jitter THEN Jittered(Base(attempt, policy)) ELSE {Base(attempt, policy)}

ShouldRetry(attempt, maxAttempts) == attempt < maxAttempts
===============================================================================
