---------------------------- MODULE ThrottlingProofs ----------------------------
(***************************************************************************)
(* Retry delays, for every policy: how far jitter may move a delay, and    *)
(* that doubling outgrows it.  And the limiter, for every limit and any    *)
(* number of callers whose calls are late: what it admits, and refuses.    *)
(***************************************************************************)
EXTENDS Throttling, FiniteSetTheorems, TLAPS

\* A jittered delay is between three and five quarters of the delay.
LEMMA JitterBounds ==
  ASSUME NEW d \in Nat, NEW x \in Jittered(d)
  PROVE  x \in Nat /\ 4 * x <= 5 * d /\ 3 * d <= 4 * x + 3
BY DEF Jittered

\* Delays of which one is twice the other never change places.
LEMMA JitterKeepsOrder ==
  ASSUME NEW d \in Nat, NEW e \in Nat, 2 * d <= e,
         NEW x \in Jittered(d), NEW y \in Jittered(e)
  PROVE  x <= y
<1>1. CASE d = 0
  BY <1>1 DEF Jittered
<1>2. CASE d > 0
  <2>1. x <= (5 * d - 1) \div 4 /\ (3 * e) \div 4 <= y /\ x \in Int /\ y \in Int
    BY <1>2 DEF Jittered
  <2>2. (5 * d - 1) \div 4 <= (3 * e) \div 4
    BY <1>2
  <2> QED BY <2>1, <2>2
<1> QED BY <1>1, <1>2

LEMMA PolicyDelays == Policy.initial \in Nat /\ Policy.max \in Nat /\ Policy.jitter \in BOOLEAN
BY ThrottlingAssumption DEF RetryPolicies

\* The jitter is added after the delay is cut: a delay may exceed the maximum, but
\* by no more than a quarter.
THEOREM DelayBounded ==
  ASSUME NEW a \in 1 .. MaxAttempts, NEW x \in RetryDelays(a, Policy)
  PROVE  x \in Nat /\ 4 * x <= 5 * Policy.max
<1>1. Base(a, Policy) \in Nat /\ Base(a, Policy) <= Policy.max
  BY DelayAssumption, PolicyDelays DEF Base
<1>2. CASE Policy.jitter
  <2>1. x \in Jittered(Base(a, Policy))
    BY <1>2 DEF RetryDelays
  <2>2. x \in Nat /\ 4 * x <= 5 * Base(a, Policy)
    BY <1>1, <2>1, JitterBounds
  <2> QED BY <1>1, <2>2, PolicyDelays
<1>3. CASE ~Policy.jitter
  <2>1. x = Base(a, Policy)
    BY <1>3 DEF RetryDelays
  <2> QED BY <1>1, <2>1, PolicyDelays
<1> QED BY <1>2, <1>3

\* Below the maximum a later attempt waits no less than an earlier one.
THEOREM DelayGrows ==
  ASSUME NEW a \in 1 .. MaxAttempts, NEW b \in 1 .. a - 1,
         Policy.backoff = "EXPONENTIAL", Uncapped(a, Policy) <= Policy.max,
         NEW x \in RetryDelays(b, Policy), NEW y \in RetryDelays(a, Policy)
  PROVE  x <= y
<1>1. /\ Uncapped(a, Policy) \in Nat /\ Uncapped(b, Policy) \in Nat
      /\ 2 * Uncapped(b, Policy) <= Uncapped(a, Policy)
  BY DelayAssumption, ThrottlingAssumption
<1>2. /\ Base(a, Policy) \in Nat /\ Base(b, Policy) \in Nat
      /\ 2 * Base(b, Policy) <= Base(a, Policy)
  BY <1>1, PolicyDelays DEF Base
<1>3. CASE Policy.jitter
  <2>1. x \in Jittered(Base(b, Policy)) /\ y \in Jittered(Base(a, Policy))
    BY <1>3 DEF RetryDelays
  <2> QED BY <1>2, <2>1, JitterKeepsOrder
<1>4. CASE ~Policy.jitter
  <2>1. x = Base(b, Policy) /\ y = Base(a, Policy)
    BY <1>4 DEF RetryDelays
  <2> QED BY <1>2, <2>1
<1> QED BY <1>3, <1>4

\* A job's last delay is of an attempt it has behind it.
Behind(j) == IF status[j] = "waiting" THEN attempt[j] ELSE attempt[j] - 1

WaitedInv ==
    /\ status \in [Jobs -> {"waiting", "asking", "running", "settled"}]
    /\ attempt \in [Jobs -> 0 .. MaxAttempts]
    /\ waited \in [Jobs -> Nat]
    /\ \A j \in Jobs : status[j] # "waiting" => attempt[j] > 0
    /\ \A j \in Jobs : waited[j] = 0 \/
          \E a \in 1 .. MaxAttempts - 1 : a <= Behind(j) /\ waited[j] \in RetryDelays(a, Policy)

LEMMA InitWaited == Init => WaitedInv
BY ThrottlingAssumption DEF Init, WaitedInv, Behind

LEMMA WaitedStep == WaitedInv /\ [Next]_vars => WaitedInv'
<1> SUFFICES ASSUME WaitedInv, [Next]_vars PROVE WaitedInv'
  OBVIOUS
<1>1. ASSUME NEW j \in Jobs, Claim(j) PROVE WaitedInv'
  BY <1>1, ThrottlingAssumption DEF Claim, WaitedInv, Behind
<1>2. ASSUME NEW j \in Jobs, Admit(j) \/ Refuse(j) PROVE WaitedInv'
  BY <1>2, ThrottlingAssumption DEF Admit, Refuse, CheckLimit, WaitedInv, Behind
<1>3. ASSUME NEW j \in Jobs, NEW success \in BOOLEAN, Settle(j, success) PROVE WaitedInv'
  BY <1>3 DEF Settle, WaitedInv, Behind
<1>4. ASSUME NEW j \in Jobs, Retry(j) PROVE WaitedInv'
  <2>1. /\ attempt[j] \in 1 .. MaxAttempts - 1 /\ status[j] = "running"
        /\ status' = [status EXCEPT ![j] = "waiting"] /\ attempt' = attempt
    BY <1>4, ThrottlingAssumption DEF Retry, ShouldRetry, WaitedInv
  <2>2. PICK d \in RetryDelays(attempt[j], Policy) : waited' = [waited EXCEPT ![j] = d]
    BY <1>4 DEF Retry
  <2>3. d \in Nat
    BY <2>1, DelayBounded, ThrottlingAssumption
  <2> QED BY <2>1, <2>2, <2>3 DEF WaitedInv, Behind
<1>5. CASE Tick \/ UNCHANGED vars
  BY <1>5 DEF Tick, vars, WaitedInv, Behind
<1> QED BY <1>1, <1>2, <1>3, <1>4, <1>5 DEF Next

\* For every policy and any number of jobs and refusals: no wait is longer than
\* five quarters of the maximum, and the exponential back-off outgrows its jitter.
THEOREM BackoffIsOrdered == Spec => BackoffGrows
<1>1. ASSUME WaitedInv, [Next]_vars, NEW j \in Jobs,
             status[j] = "running", status'[j] = "waiting"
      PROVE  /\ 4 * waited'[j] <= 5 * Policy.max
             /\ Policy.backoff = "EXPONENTIAL" /\ Uncapped(attempt[j], Policy) <= Policy.max
                   => waited'[j] >= waited[j]
  <2>1. Retry(j)
    BY <1>1 DEF Next, Claim, Admit, Refuse, CheckLimit, Settle, Retry, Tick, vars, WaitedInv
  <2>2. PICK d \in RetryDelays(attempt[j], Policy) : waited'[j] = d
    BY <1>1, <2>1 DEF Retry, WaitedInv
  <2>3. attempt[j] \in 1 .. MaxAttempts
    BY <1>1, ThrottlingAssumption DEF WaitedInv
  <2>4. d \in Nat /\ 4 * d <= 5 * Policy.max
    BY <2>3, DelayBounded
  <2>5. ASSUME Policy.backoff = "EXPONENTIAL", Uncapped(attempt[j], Policy) <= Policy.max
        PROVE  waited[j] <= d
    <3>1. CASE waited[j] = 0
      BY <3>1, <2>4
    <3>2. CASE waited[j] # 0
      <4>1. PICK a \in 1 .. attempt[j] - 1 : waited[j] \in RetryDelays(a, Policy)
        BY <1>1, <2>3, <3>2, ThrottlingAssumption DEF WaitedInv, Behind
      <4> QED BY <2>3, <2>5, <4>1, DelayGrows
    <3> QED BY <3>1, <3>2
  <2> QED BY <1>1, <2>2, <2>4, <2>5 DEF WaitedInv
<1>2. WaitedInv /\ [Next]_vars
      => [\A j \in Jobs : status[j] = "running" /\ status'[j] = "waiting" =>
            /\ 4 * waited'[j] <= 5 * Policy.max
            /\ Policy.backoff = "EXPONENTIAL" /\ Uncapped(attempt[j], Policy) <= Policy.max
                  => waited'[j] >= waited[j]]_vars
  BY <1>1
<1> QED BY <1>2, InitWaited, WaitedStep, PTL DEF Spec, BackoffGrows

-------------------------------------------------------------------------------
(* Counting *)

LEMMA MemberOf ==
  ASSUME NEW f, NEW S
  PROVE  /\ \A a \in S : \A i \in 1 .. f[a] : <<a, i>> \in Members(f, S)
         /\ \A x \in Members(f, S) : \E a \in S, i \in Nat : i \in 1 .. f[a] /\ x = <<a, i>>
BY DEF Members

LEMMA MembersFinite ==
  ASSUME NEW f, NEW S, IsFiniteSet(S), \A a \in S : f[a] \in Nat
  PROVE  IsFiniteSet(Members(f, S)) /\ Total(f, S) \in Nat
<1> DEFINE Column(a) == {a} \X (1 .. f[a])
           Columns == {Column(a) : a \in S}
           column == [a \in S |-> Column(a)]
<1>1. column \in Surjection(S, Columns)
  BY DEF Surjection
<1>2. IsFiniteSet(Columns)
  <2> HIDE DEF column, Columns
  <2> QED BY <1>1, FS_Surjection
<1>3. ASSUME NEW a \in S PROVE IsFiniteSet(Column(a))
  <2>1. IsFiniteSet({a})
    BY FS_Singleton
  <2>2. f[a] \in Int /\ 1 \in Int
    OBVIOUS
  <2>3. IsFiniteSet(1 .. f[a])
    BY <2>2, FS_Interval
  <2> QED BY <2>1, <2>3, FS_Product
<1>4. IsFiniteSet(UNION Columns)
  <2>1. \A T \in Columns : IsFiniteSet(T)
    BY <1>3
  <2> HIDE DEF Columns
  <2> QED BY <1>2, <2>1, FS_UNION
<1> QED BY <1>4, FS_CardinalityType DEF Members, Total

\* Counting more, at more ages.
LEMMA TotalMonotone ==
  ASSUME NEW f, NEW g, NEW S, NEW T, IsFiniteSet(T), S \subseteq T,
         \A a \in T : g[a] \in Nat, \A a \in S : f[a] \in Nat /\ f[a] <= g[a]
  PROVE  Total(f, S) <= Total(g, T)
<1>1. Members(f, S) \subseteq Members(g, T)
  <2> SUFFICES ASSUME NEW x \in Members(f, S) PROVE x \in Members(g, T)
    OBVIOUS
  <2>1. PICK a \in S, i \in Nat : i \in 1 .. f[a] /\ x = <<a, i>>
    BY MemberOf
  <2>2. a \in T /\ i \in 1 .. g[a]
    BY <2>1
  <2> QED BY <2>1, <2>2, MemberOf
<1> QED BY <1>1, MembersFinite, FS_Subset DEF Total

\* One more at b.
LEMMA TotalOneMore ==
  ASSUME NEW f, NEW g, NEW S, IsFiniteSet(S), NEW b \in S, \A a \in S : f[a] \in Nat,
         g[b] = f[b] + 1, \A a \in S : a # b => g[a] = f[a]
  PROVE  Total(g, S) = Total(f, S) + 1
<1>1. Members(g, S) = Members(f, S) \cup {<<b, f[b] + 1>>}
  <2>1. ASSUME NEW x \in Members(g, S) PROVE x \in Members(f, S) \cup {<<b, f[b] + 1>>}
    <3>1. PICK a \in S, i \in Nat : i \in 1 .. g[a] /\ x = <<a, i>>
      BY MemberOf
    <3>2. i \in 1 .. f[a] \/ (a = b /\ i = f[b] + 1)
      BY <3>1
    <3> QED BY <3>1, <3>2, MemberOf
  <2>2. ASSUME NEW x \in Members(f, S) PROVE x \in Members(g, S)
    <3>1. PICK a \in S, i \in Nat : i \in 1 .. f[a] /\ x = <<a, i>>
      BY MemberOf
    <3>2. i \in 1 .. g[a]
      BY <3>1
    <3> QED BY <3>1, <3>2, MemberOf
  <2>3. <<b, f[b] + 1>> \in Members(g, S)
    <3>1. f[b] + 1 \in 1 .. g[b]
      OBVIOUS
    <3> QED BY <3>1, MemberOf
  <2> QED BY <2>1, <2>2, <2>3
<1>2. <<b, f[b] + 1>> \notin Members(f, S)
  <2> SUFFICES ASSUME <<b, f[b] + 1>> \in Members(f, S) PROVE FALSE
    OBVIOUS
  <2>1. PICK a \in S, i \in Nat : i \in 1 .. f[a] /\ <<b, f[b] + 1>> = <<a, i>>
    BY MemberOf
  <2> QED BY <2>1
<1>3. IsFiniteSet(Members(f, S))
  BY MembersFinite
<1>4. Cardinality(Members(f, S) \cup {<<b, f[b] + 1>>}) = Cardinality(Members(f, S)) + 1
  BY <1>2, <1>3, FS_AddElement
<1> QED BY <1>1, <1>4 DEF Total

\* A tick later.
LEMMA TotalOlder ==
  ASSUME NEW f, NEW g, NEW t \in Nat, \A a \in 0 .. t - 1 : f[a] \in Nat,
         g[0] = 0, \A a \in 1 .. t : g[a] = f[a - 1]
  PROVE  Total(g, 0 .. t) = Total(f, 0 .. t - 1)
<1> DEFINE S == Members(f, 0 .. t - 1)
           T == Members(g, 0 .. t)
           older == [x \in S |-> <<x[1] + 1, x[2]>>]
<1>1. ASSUME NEW x \in S
      PROVE  x = <<x[1], x[2]>> /\ x[1] \in 0 .. t - 1 /\ <<x[1] + 1, x[2]>> \in T
  <2>1. PICK a \in 0 .. t - 1, i \in Nat : i \in 1 .. f[a] /\ x = <<a, i>>
    BY MemberOf
  <2>2. a + 1 \in 0 .. t /\ i \in 1 .. g[a + 1]
    BY <2>1
  <2>3. <<a + 1, i>> \in T
    BY <2>2, MemberOf
  <2> QED BY <2>1, <2>3
<1>2. ASSUME NEW y \in T PROVE \E x \in S : y = <<x[1] + 1, x[2]>>
  <2>1. PICK a \in 0 .. t, i \in Nat : i \in 1 .. g[a] /\ y = <<a, i>>
    BY MemberOf
  <2>2. a # 0
    BY <2>1
  <2>3. a - 1 \in 0 .. t - 1 /\ i \in 1 .. f[a - 1]
    BY <2>1, <2>2
  <2>4. <<a - 1, i>> \in S
    BY <2>3, MemberOf
  <2>5. y = <<<<a - 1, i>>[1] + 1, <<a - 1, i>>[2]>>
    BY <2>1, <2>3
  <2> HIDE DEF S
  <2> QED BY <2>4, <2>5
<1>3. IsFiniteSet(S)
  <2>1. IsFiniteSet(0 .. t - 1)
    BY FS_Interval
  <2> QED BY <2>1, MembersFinite
<1> HIDE DEF S, T
<1>4. older \in [S -> T]
  BY <1>1
<1>5. older \in Surjection(S, T)
  BY <1>2, <1>4 DEF Surjection
<1>6. older \in Injection(S, T)
  <2> SUFFICES ASSUME NEW x \in S, NEW y \in S, older[x] = older[y] PROVE x = y
    BY <1>4 DEF Injection, IsInjective
  <2>1. x[1] + 1 = y[1] + 1 /\ x[2] = y[2]
    OBVIOUS
  <2>2. x[1] = y[1]
    BY <1>1, <2>1
  <2> QED BY <1>1, <2>1, <2>2
<1>7. Cardinality(T) = Cardinality(S)
  <2> HIDE DEF older
  <2> QED BY <1>3, <1>5, <1>6, FS_Surjection
<1> QED BY <1>7 DEF Total, S, T

-------------------------------------------------------------------------------
(* The limiter *)

\* Who called t ticks ago has read its clock at most MaxLag before: its entry is in the
\* log, at an age the caller's window holds.  And no entry is younger than its call.
LogInv ==
    /\ log \in [Ages -> Nat] /\ calls \in [Ages -> Nat] /\ admitted \in [Stretch -> Nat]
    /\ lag \in [Jobs -> 0 .. MaxLag]
    /\ \A t \in Stretch : Total(calls, 0 .. t) <= Total(log, 0 .. t + MaxLag)
    /\ \A t \in Ages : Total(log, 0 .. t) <= Total(calls, 0 .. t)
    /\ \A a \in Stretch : admitted[a] <= calls[a]
    /\ Total(admitted, Stretch) <= Limit

LimiterInv == WaitedInv /\ due \in [Jobs -> Nat] /\ LogInv

LEMMA Sizes ==
  /\ Window \in Nat /\ MaxLag \in Nat /\ Limit \in Nat /\ Requeue \in Nat
  /\ MaxLag < Window /\ Limit >= 1
  /\ \A t \in Int : IsFiniteSet(0 .. t)
<1>1. ASSUME NEW t \in Int PROVE IsFiniteSet(0 .. t)
  <2>1. 0 \in Int
    OBVIOUS
  <2> QED BY <2>1, FS_Interval
<1>2. /\ Window \in Nat \ {0} /\ Limit \in Nat \ {0}
      /\ MaxLag \in Nat /\ Requeue \in Nat /\ MaxLag < Window
  BY ThrottlingAssumption
<1> QED BY <1>1, <1>2

LEMMA CallKeeps ==
  ASSUME LogInv, NEW j \in Jobs, CheckLimit(j)
  PROVE  LogInv'
<1> USE Sizes
<1>1. PICK now : now = lag[j]
  OBVIOUS
<1>2. PICK p : p = Pruned(now)
  OBVIOUS
<1>3. /\ now \in 0 .. MaxLag /\ now \in Ages /\ 0 \in Ages /\ 0 \in Stretch
      /\ p \in [Ages -> Nat] /\ calls \in [Ages -> Nat] /\ log \in [Ages -> Nat]
      /\ admitted \in [Stretch -> Nat] /\ Stretch \subseteq Ages
  <2>1. /\ now \in 0 .. MaxLag
        /\ calls \in [Ages -> Nat] /\ log \in [Ages -> Nat] /\ admitted \in [Stretch -> Nat]
    BY <1>1 DEF LogInv
  <2>2. now \in Ages /\ 0 \in Ages /\ 0 \in Stretch /\ Stretch \subseteq Ages
    BY <2>1 DEF Ages, Stretch
  <2>3. p \in [Ages -> Nat]
    BY <1>2, <2>1 DEF Pruned
  <2> QED BY <2>1, <2>2, <2>3
<1>4. \A a \in Ages : p[a] <= log[a] /\ (a < Window => p[a] = log[a])
  BY <1>2, <1>3 DEF Pruned, Ages
<1>5. /\ log' = [p EXCEPT ![now] = @ + 1] /\ calls' = [calls EXCEPT ![0] = @ + 1]
      /\ admitted' = [admitted EXCEPT ![0] = IF Allowed(now) THEN @ + 1 ELSE @]
      /\ lag' = [lag EXCEPT ![j] = 0]
  BY <1>1, <1>2 DEF CheckLimit, Added
<1>6. /\ log' \in [Ages -> Nat] /\ calls' \in [Ages -> Nat]
      /\ admitted' \in [Stretch -> Nat] /\ lag' \in [Jobs -> 0 .. MaxLag]
  <2>1. lag' \in [Jobs -> 0 .. MaxLag]
    BY <1>5 DEF LogInv
  <2>2. admitted' \in [Stretch -> Nat]
    BY <1>3, <1>5
  <2>3. log' \in [Ages -> Nat]
    BY <1>3, <1>5
  <2>4. calls' \in [Ages -> Nat]
    BY <1>3, <1>5
  <2> QED BY <2>1, <2>2, <2>3, <2>4
<1>7. ASSUME NEW t \in Ages
      PROVE  /\ t \in Nat /\ 0 .. t \subseteq Ages /\ IsFiniteSet(0 .. t)
             /\ Total(calls, 0 .. t) \in Nat /\ Total(log, 0 .. t) \in Nat
             /\ Total(p, 0 .. t) \in Nat
             /\ Total(calls', 0 .. t) = Total(calls, 0 .. t) + 1
             /\ now <= t => Total(log', 0 .. t) = Total(p, 0 .. t) + 1
  <2>1. t \in Nat /\ 0 .. t \subseteq Ages /\ 0 \in 0 .. t /\ IsFiniteSet(0 .. t)
    BY DEF Ages
  <2>2. \A a \in 0 .. t : calls[a] \in Nat /\ log[a] \in Nat /\ p[a] \in Nat
    BY <1>3, <2>1
  <2>3. /\ Total(calls, 0 .. t) \in Nat /\ Total(log, 0 .. t) \in Nat
        /\ Total(p, 0 .. t) \in Nat
    BY <2>1, <2>2, MembersFinite
  <2>4. calls'[0] = calls[0] + 1 /\ \A a \in 0 .. t : a # 0 => calls'[a] = calls[a]
    BY <1>3, <1>5, <2>1
  <2>5. Total(calls', 0 .. t) = Total(calls, 0 .. t) + 1
    BY <2>1, <2>2, <2>4, TotalOneMore
  <2>6. ASSUME now <= t PROVE Total(log', 0 .. t) = Total(p, 0 .. t) + 1
    <3>1. now \in 0 .. t
      BY <1>3, <2>1, <2>6
    <3>2. log'[now] = p[now] + 1 /\ \A a \in 0 .. t : a # now => log'[a] = p[a]
      BY <1>3, <1>5, <2>1
    <3> QED BY <2>1, <2>2, <3>1, <3>2, TotalOneMore
  <2> QED BY <2>1, <2>3, <2>5, <2>6
<1>8. ASSUME NEW t \in Stretch
      PROVE  Total(calls', 0 .. t) <= Total(log', 0 .. t + MaxLag)
  <2>1. t \in Ages /\ t + MaxLag \in Ages /\ t + MaxLag < Window /\ now <= t + MaxLag
    BY <1>3 DEF Ages, Stretch
  <2>2. \A a \in 0 .. t + MaxLag : log[a] \in Nat /\ p[a] \in Nat /\ log[a] <= p[a]
    BY <1>3, <1>4, <2>1 DEF Ages, Stretch
  <2>3. Total(log, 0 .. t + MaxLag) <= Total(p, 0 .. t + MaxLag)
    <3>1. IsFiniteSet(0 .. t + MaxLag)
      BY <2>1, <1>7
    <3> QED BY <2>2, <3>1, TotalMonotone
  <2>4. Total(calls, 0 .. t) <= Total(log, 0 .. t + MaxLag)
    BY DEF LogInv
  <2> QED BY <2>1, <2>3, <2>4, <1>7
<1>9. ASSUME NEW t \in Ages PROVE Total(log', 0 .. t) <= Total(calls', 0 .. t)
  <2>1. Total(log, 0 .. t) <= Total(calls, 0 .. t)
    BY DEF LogInv
  <2>2. CASE now <= t
    <3>1. \A a \in 0 .. t : log[a] \in Nat /\ p[a] \in Nat /\ p[a] <= log[a]
      BY <1>3, <1>4, <1>7
    <3>2. Total(p, 0 .. t) <= Total(log, 0 .. t)
      <4>1. IsFiniteSet(0 .. t)
        BY <1>7
      <4> QED BY <3>1, <4>1, TotalMonotone
    <3> QED BY <2>1, <2>2, <3>2, <1>7
  <2>3. CASE ~(now <= t)
    <3>1. \A a \in 0 .. t : log[a] \in Nat /\ log'[a] \in Nat /\ log'[a] <= log[a]
      BY <1>3, <1>4, <1>5, <1>7, <2>3
    <3>2. Total(log', 0 .. t) <= Total(log, 0 .. t)
      <4>1. IsFiniteSet(0 .. t)
        BY <1>7
      <4> QED BY <3>1, <4>1, TotalMonotone
    <3>3. Total(log', 0 .. t) \in Nat
      BY <3>1, <1>7, MembersFinite
    <3> QED BY <2>1, <3>2, <3>3, <1>7
  <2> QED BY <2>2, <2>3
<1>10. \A a \in Stretch : admitted'[a] <= calls'[a]
  <2> SUFFICES ASSUME NEW a \in Stretch PROVE admitted'[a] <= calls'[a]
    OBVIOUS
  <2>1. admitted[a] <= calls[a] /\ admitted[a] \in Nat /\ calls[a] \in Nat
    BY <1>3 DEF LogInv
  <2>2. calls'[a] = IF a = 0 THEN calls[a] + 1 ELSE calls[a]
    BY <1>3, <1>5
  <2>3. admitted'[a] = admitted[a] \/ (a = 0 /\ admitted'[a] = admitted[a] + 1)
    BY <1>3, <1>5
  <2> QED BY <2>1, <2>2, <2>3
<1>11. Total(admitted', Stretch) <= Limit
  <2>1. CASE Allowed(now)
    <3>1. PICK t, u : t = Window - MaxLag - 1 /\ u = t + MaxLag
      OBVIOUS
    <3>2. t \in Stretch /\ Stretch = 0 .. t /\ u \in Ages /\ 0 .. u \subseteq Ages
          /\ 0 .. t \subseteq Ages /\ t \in Nat /\ u \in Nat
      BY <3>1 DEF Stretch, Ages
    <3>3. Total(log', Ages) <= Limit
      BY <1>2, <1>5, <2>1 DEF Allowed, Added
    <3>4. Total(calls', 0 .. t) <= Total(log', 0 .. u)
      BY <1>8, <3>1, <3>2
    <3>5. Total(log', 0 .. u) <= Total(log', Ages)
      <4>1. IsFiniteSet(Ages)
        BY DEF Ages
      <4>2. \A a \in Ages : log'[a] \in Nat /\ log'[a] <= log'[a]
        BY <1>6
      <4> QED BY <3>2, <4>1, <4>2, TotalMonotone
    <3>6. Total(admitted', 0 .. t) <= Total(calls', 0 .. t)
      <4>1. \A a \in 0 .. t : admitted'[a] \in Nat /\ calls'[a] \in Nat
        BY <1>6, <3>2
      <4> QED BY <1>10, <3>2, <4>1, TotalMonotone
    <3>7. /\ Total(admitted', 0 .. t) \in Nat /\ Total(calls', 0 .. t) \in Nat
          /\ Total(log', 0 .. u) \in Nat /\ Total(log', Ages) \in Nat
      <4>1. /\ \A a \in 0 .. t : admitted'[a] \in Nat /\ calls'[a] \in Nat
            /\ \A a \in Ages : log'[a] \in Nat
        BY <1>6, <3>2
      <4>2. IsFiniteSet(0 .. t) /\ IsFiniteSet(0 .. u) /\ IsFiniteSet(Ages)
        BY <3>2 DEF Ages
      <4> QED BY <3>2, <4>1, <4>2, MembersFinite
    <3> QED BY <3>2, <3>3, <3>4, <3>5, <3>6, <3>7
  <2>2. CASE ~Allowed(now)
    <3>1. admitted' = admitted
      BY <1>3, <1>5, <2>2
    <3> QED BY <3>1 DEF LogInv, Stretch
  <2> QED BY <2>1, <2>2
<1> QED BY <1>6, <1>8, <1>9, <1>10, <1>11 DEF LogInv, Ages, Stretch

LEMMA TickKeeps ==
  ASSUME LogInv, Tick
  PROVE  LogInv'
<1> USE Sizes
<1>0. calls \in [Ages -> Nat] /\ log \in [Ages -> Nat]
  BY DEF LogInv
<1>1. /\ calls \in [Ages -> Nat] /\ log \in [Ages -> Nat] /\ admitted \in [Stretch -> Nat]
      /\ Ages = 0 .. Window + MaxLag - 1 /\ Stretch = 0 .. Window - MaxLag - 1
      /\ Stretch \subseteq Ages
  BY DEF LogInv, Ages, Stretch
<1>2. /\ calls' \in [Ages -> Nat] /\ calls'[0] = 0
      /\ \A a \in Ages : a # 0 => calls'[a] = calls[a - 1]
  <2>1. \A a \in Ages : a # 0 => a - 1 \in Ages
    BY <1>1
  <2>2. calls' = [a \in Ages |-> IF a = 0 THEN 0 ELSE calls[a - 1]]
    BY <1>1 DEF Tick, Older
  <2> QED BY <1>1, <2>1, <2>2
<1>3. /\ admitted' \in [Stretch -> Nat] /\ admitted'[0] = 0
      /\ \A a \in Stretch : a # 0 => admitted'[a] = admitted[a - 1] /\ a - 1 \in Stretch
  <2>1. \A a \in Stretch : a # 0 => a - 1 \in Stretch
    BY <1>1
  <2>2. admitted' = [a \in Stretch |-> IF a = 0 THEN 0 ELSE admitted[a - 1]]
    BY <1>1 DEF Tick, Older
  <2> QED BY <1>1, <2>1, <2>2
<1>4. \/ (\A a \in 0 .. Window - 1 : calls'[a] = 0) /\ log' = [a \in Ages |-> 0]
      \/ log' = [a \in Ages |-> IF a = 0 THEN 0 ELSE log[a - 1]]
  BY <1>1 DEF Tick, Older
<1>5. log' \in [Ages -> Nat]
  <2>1. \A a \in Ages : a # 0 => a - 1 \in Ages
    BY <1>1
  <2> QED BY <1>1, <1>4, <2>1
<1>6. lag' \in [Jobs -> 0 .. MaxLag]
  BY DEF Tick, LogInv
<1>7. ASSUME NEW t \in Nat, 0 .. t \subseteq Ages
       PROVE  Total(calls', 0 .. t) = Total(calls, 0 .. t - 1)
  <2>1. /\ \A a \in 0 .. t - 1 : a \in Ages
        /\ \A a \in 1 .. t : a \in Ages /\ a # 0
    BY <1>7
  <2>2. \A a \in 0 .. t - 1 : calls[a] \in Nat
    BY <1>0, <2>1
  <2>3. \A a \in 1 .. t : calls'[a] = calls[a - 1]
    BY <1>2, <2>1
  <2> QED BY <1>2, <2>2, <2>3, TotalOlder
<1>8. ASSUME NEW t \in Nat, 0 .. t \subseteq Ages,
              log' = [a \in Ages |-> IF a = 0 THEN 0 ELSE log[a - 1]]
       PROVE  Total(log', 0 .. t) = Total(log, 0 .. t - 1)
  <2>1. /\ \A a \in 0 .. t - 1 : a \in Ages
        /\ \A a \in 1 .. t : a \in Ages /\ a # 0
        /\ 0 \in Ages
    BY <1>8
  <2>2. \A a \in 0 .. t - 1 : log[a] \in Nat
    BY <1>0, <2>1
  <2>3. log'[0] = 0 /\ \A a \in 1 .. t : log'[a] = log[a - 1]
    BY <1>8, <2>1
  <2> QED BY <2>2, <2>3, TotalOlder
<1>9. ASSUME NEW t \in Stretch
      PROVE  Total(calls', 0 .. t) <= Total(log', 0 .. t + MaxLag)
  <2>1. /\ t \in Nat /\ t + MaxLag \in Nat /\ 0 .. t \subseteq 0 .. t + MaxLag
        /\ 0 .. t + MaxLag \subseteq Ages /\ 0 .. t \subseteq 0 .. Window - 1
        /\ IsFiniteSet(0 .. t + MaxLag)
    BY <1>1
  <2>2. \A a \in 0 .. t + MaxLag : log'[a] \in Nat /\ calls'[a] \in Nat
    BY <1>2, <1>5, <2>1
  <2>3. CASE \A a \in 0 .. t : calls'[a] = 0
    <3>1. \A a \in 0 .. t : calls'[a] \in Nat /\ calls'[a] <= log'[a]
      BY <2>1, <2>2, <2>3
    <3> QED BY <2>1, <2>2, <3>1, TotalMonotone
  <2>4. CASE t # 0 /\ log' = [a \in Ages |-> IF a = 0 THEN 0 ELSE log[a - 1]]
    <3>1. t - 1 \in Stretch /\ (t + MaxLag) - 1 = (t - 1) + MaxLag
      BY <1>1, <2>1, <2>4
    <3>2. Total(calls', 0 .. t) = Total(calls, 0 .. t - 1)
      BY <1>7, <2>1
    <3>3. Total(log', 0 .. t + MaxLag) = Total(log, 0 .. (t + MaxLag) - 1)
      BY <1>8, <2>1, <2>4
    <3>4. Total(calls, 0 .. t - 1) <= Total(log, 0 .. (t - 1) + MaxLag)
      BY <3>1 DEF LogInv
    <3> QED BY <3>1, <3>2, <3>3, <3>4
  <2>5. t = 0 => \A a \in 0 .. t : calls'[a] = 0
    BY <1>2
  <2> QED BY <1>4, <2>1, <2>3, <2>4, <2>5
<1>10. ASSUME NEW t \in Ages PROVE Total(log', 0 .. t) <= Total(calls', 0 .. t)
  <2>1. t \in Nat /\ 0 .. t \subseteq Ages /\ IsFiniteSet(0 .. t)
    BY <1>1
  <2>2. \A a \in 0 .. t : log'[a] \in Nat /\ calls'[a] \in Nat
    BY <1>2, <1>5, <2>1
  <2>3. CASE \A a \in 0 .. t : log'[a] = 0
    <3>1. \A a \in 0 .. t : log'[a] <= calls'[a]
      BY <2>2, <2>3
    <3> QED BY <2>1, <2>2, <3>1, TotalMonotone
  <2>4. CASE t # 0 /\ log' = [a \in Ages |-> IF a = 0 THEN 0 ELSE log[a - 1]]
    <3>1. t - 1 \in Ages
      BY <1>1, <2>1, <2>4
    <3>2. Total(calls', 0 .. t) = Total(calls, 0 .. t - 1)
      BY <1>7, <2>1
    <3>3. Total(log', 0 .. t) = Total(log, 0 .. t - 1)
      BY <1>8, <2>1, <2>4
    <3> QED BY <3>1, <3>2, <3>3 DEF LogInv
  <2>5. CASE log' = [a \in Ages |-> 0]
    BY <2>1, <2>3, <2>5
  <2>6. CASE t = 0 /\ log' = [a \in Ages |-> IF a = 0 THEN 0 ELSE log[a - 1]]
    BY <2>1, <2>3, <2>6
  <2> QED BY <1>4, <2>4, <2>5, <2>6
<1>11. ASSUME NEW a \in Stretch PROVE admitted'[a] <= calls'[a]
  <2>1. CASE a = 0
    BY <1>2, <1>3, <2>1
  <2>2. CASE a # 0
    <3>1. a - 1 \in Stretch /\ admitted'[a] = admitted[a - 1] /\ calls'[a] = calls[a - 1]
      BY <1>1, <1>2, <1>3, <2>2
    <3> QED BY <3>1 DEF LogInv
  <2> QED BY <2>1, <2>2
<1>12. Total(admitted', Stretch) <= Limit
  <2>1. PICK t : t = Window - MaxLag - 1
    OBVIOUS
  <2>2. /\ t \in Nat /\ t - 1 \in Int /\ Stretch = 0 .. t /\ 0 .. t - 1 \subseteq 0 .. t
    BY <1>1, <2>1
  <2>3. /\ \A a \in 0 .. t : admitted[a] \in Nat
        /\ \A a \in 1 .. t : admitted'[a] = admitted[a - 1]
    BY <1>1, <1>3, <2>2
  <2>4. Total(admitted', 0 .. t) = Total(admitted, 0 .. t - 1)
    BY <1>3, <2>2, <2>3, TotalOlder
  <2>5. IsFiniteSet(0 .. t) /\ IsFiniteSet(0 .. t - 1)
    BY <2>2
  <2>6. Total(admitted, 0 .. t - 1) <= Total(admitted, 0 .. t)
    BY <2>2, <2>3, <2>5, TotalMonotone
  <2>7. Total(admitted, 0 .. t - 1) \in Nat /\ Total(admitted, 0 .. t) \in Nat
    BY <2>2, <2>3, <2>5, MembersFinite
  <2> QED BY <2>2, <2>4, <2>6, <2>7 DEF LogInv
<1> QED BY <1>2, <1>3, <1>5, <1>6, <1>9, <1>10, <1>11, <1>12 DEF LogInv, Ages, Stretch

LEMMA LogUnchanged ==
  ASSUME LogInv, UNCHANGED limiter, lag' \in [Jobs -> 0 .. MaxLag]
  PROVE  LogInv'
BY DEF LogInv, limiter, Ages, Stretch

LEMMA LimiterStep == LimiterInv /\ [Next]_vars => LimiterInv'
<1> SUFFICES ASSUME LimiterInv, [Next]_vars PROVE LimiterInv'
  OBVIOUS
<1> USE Sizes
<1>1. WaitedInv' /\ WaitedInv /\ LogInv /\ due \in [Jobs -> Nat] /\ lag \in [Jobs -> 0 .. MaxLag]
  BY WaitedStep DEF LimiterInv, LogInv
<1>2. ASSUME NEW j \in Jobs, Claim(j) PROVE LimiterInv'
  BY <1>1, <1>2, LogUnchanged DEF Claim, LimiterInv
<1>3. ASSUME NEW j \in Jobs, Admit(j) PROVE LimiterInv'
  BY <1>1, <1>3, CallKeeps DEF Admit, LimiterInv
<1>4. ASSUME NEW j \in Jobs, Refuse(j) PROVE LimiterInv'
  BY <1>1, <1>4, CallKeeps DEF Refuse, LimiterInv
<1>5. ASSUME NEW j \in Jobs, NEW success \in BOOLEAN, Settle(j, success) PROVE LimiterInv'
  BY <1>1, <1>5, LogUnchanged DEF Settle, LimiterInv
<1>6. ASSUME NEW j \in Jobs, Retry(j) PROVE LimiterInv'
  <2>1. attempt[j] \in 1 .. MaxAttempts
    BY <1>1, <1>6, ThrottlingAssumption DEF Retry, WaitedInv
  <2>2. PICK d \in RetryDelays(attempt[j], Policy) : due' = [due EXCEPT ![j] = d]
    BY <1>6 DEF Retry
  <2>3. d \in Nat
    BY <2>1, DelayBounded
  <2>4. due' \in [Jobs -> Nat] /\ LogInv'
    BY <1>1, <1>6, <2>2, <2>3, LogUnchanged DEF Retry
  <2> QED BY <1>1, <2>4 DEF LimiterInv
<1>7. CASE Tick
  <2>1. due' \in [Jobs -> Nat]
    BY <1>1, <1>7 DEF Tick
  <2> QED BY <1>1, <1>7, <2>1, TickKeeps DEF LimiterInv
<1>8. CASE UNCHANGED vars
  BY <1>1, <1>8, LogUnchanged DEF vars, LimiterInv
<1> QED BY <1>2, <1>3, <1>4, <1>5, <1>6, <1>7, <1>8 DEF Next

LEMMA LimiterInit == Init => LimiterInv
<1> SUFFICES ASSUME Init PROVE LimiterInv
  OBVIOUS
<1> USE Sizes
<1>1. \A t \in Int : 0 .. t \subseteq 0 .. t + MaxLag
  OBVIOUS
<1>2. /\ log = [a \in Ages |-> 0] /\ calls = [a \in Ages |-> 0]
      /\ admitted = [a \in Stretch |-> 0] /\ lag = [j \in Jobs |-> 0]
      /\ due = [j \in Jobs |-> 0]
  BY DEF Init
<1>3. Total(admitted, Stretch) = 0
  <2>1. Members(admitted, Stretch) = {}
    <3>1. \A a \in Stretch : admitted[a] = 0
      BY <1>2
    <3> QED BY <3>1, MemberOf
  <2> QED BY <2>1, FS_EmptySet DEF Total
<1>4. ASSUME NEW t \in Stretch PROVE Total(calls, 0 .. t) <= Total(log, 0 .. t + MaxLag)
  <2>1. t \in Int /\ 0 .. t + MaxLag \subseteq Ages
    BY DEF Stretch, Ages
  <2>2. 0 .. t \subseteq 0 .. t + MaxLag /\ IsFiniteSet(0 .. t + MaxLag)
    BY <1>1, <2>1
  <2>3. \A a \in 0 .. t + MaxLag : log[a] \in Nat /\ calls[a] \in Nat /\ calls[a] <= log[a]
    BY <1>2, <2>1
  <2> QED BY <2>2, <2>3, TotalMonotone
<1>5. ASSUME NEW t \in Ages PROVE Total(log, 0 .. t) <= Total(calls, 0 .. t)
  <2>1. t \in Int /\ 0 .. t \subseteq Ages /\ IsFiniteSet(0 .. t)
    BY DEF Ages
  <2>2. \A a \in 0 .. t : log[a] = 0 /\ calls[a] = 0
    BY <1>2, <2>1
  <2> QED BY <2>1, <2>2, TotalMonotone
<1>6. \A a \in Stretch : admitted[a] <= calls[a]
  BY <1>2 DEF Stretch, Ages
<1>7. LogInv
  BY <1>2, <1>3, <1>4, <1>5, <1>6 DEF LogInv
<1> QED BY <1>2, <1>7, InitWaited DEF LimiterInv

\* What the log holds and what was called keep pace, in whatever order the pipelines
\* of any number of callers reach Redis.
THEOREM LimiterInvariant == Spec => []LimiterInv
<1> QED BY LimiterInit, LimiterStep, PTL DEF Spec

\* Of all calls, those of a stretch are in the log.
LogHolds ==
    /\ Total(calls, Stretch) <= Total(log, Ages)
    /\ Total(log, Ages) <= Total(calls, Ages)
    /\ Total(calls, Ages) \in Nat /\ Total(log, Ages) \in Nat

LEMMA LogOfCalls == LogInv => LogHolds
<1> SUFFICES ASSUME LogInv PROVE LogHolds
  OBVIOUS
<1> USE Sizes
<1>1. PICK t, u, v : t = Window - MaxLag - 1 /\ u = t + MaxLag /\ v = Window + MaxLag - 1
  OBVIOUS
<1>2. /\ Stretch = 0 .. t /\ t \in Stretch /\ Ages = 0 .. v /\ v \in Ages /\ u \in Nat
      /\ 0 .. u \subseteq 0 .. v /\ 0 .. t \subseteq 0 .. v /\ t \in Nat /\ v \in Nat
  BY <1>1 DEF Stretch, Ages
<1>3. \A a \in 0 .. v : calls[a] \in Nat /\ log[a] \in Nat
  BY <1>2 DEF LogInv
<1>4. IsFiniteSet(0 .. t) /\ IsFiniteSet(0 .. u) /\ IsFiniteSet(0 .. v)
  BY <1>2
<1>5. Total(log, 0 .. u) <= Total(log, 0 .. v)
  BY <1>2, <1>3, <1>4, TotalMonotone
<1>6. /\ Total(calls, 0 .. t) \in Nat /\ Total(log, 0 .. u) \in Nat
      /\ Total(log, 0 .. v) \in Nat /\ Total(calls, 0 .. v) \in Nat
  BY <1>2, <1>3, <1>4, MembersFinite
<1> QED BY <1>1, <1>2, <1>5, <1>6 DEF LogInv, LogHolds

\* For every limit, window and number of jobs: no stretch of Window - MaxLag sees more
\* than Limit jobs admitted, if no call takes longer than MaxLag to reach Redis.
THEOREM LimitKept == Spec => []LimitHolds
<1>1. LimiterInv => LimitHolds
  BY LogOfCalls DEF LogHolds, LimiterInv, WaitedInv, LogInv, LimitHolds, TypeOK
<1> QED BY <1>1, LimiterInvariant, PTL

\* A job is put back only after more than Limit calls, with its own, in Window + MaxLag.
THEOREM RefusalsAreJustified == Spec => RefusalsJustified
<1>1. ASSUME LimiterInv, LogHolds', [Next]_vars, NEW j \in Jobs,
             status[j] = "asking", status'[j] = "waiting"
      PROVE  Total(calls', Ages) > Limit
  <2>1. Refuse(j)
    BY <1>1 DEF Next, Claim, Admit, Refuse, CheckLimit, Settle, Retry, Tick, vars, LimiterInv,
                WaitedInv
  <2>2. PICK now : now = lag[j]
    OBVIOUS
  <2>3. log' = Added(now) /\ ~Allowed(now)
    BY <2>1, <2>2 DEF Refuse, CheckLimit
  <2>4. ~(Total(log', Ages) <= Limit)
    BY <2>3 DEF Allowed
  <2>5. /\ Total(log', Ages) <= Total(calls', Ages)
        /\ Total(calls', Ages) \in Nat /\ Total(log', Ages) \in Nat
    BY <1>1 DEF LogHolds
  <2> QED BY <2>4, <2>5, Sizes
<1>2. LimiterInv /\ LogHolds' /\ [Next]_vars
      => [\A j \in Jobs : status[j] = "asking" /\ status'[j] = "waiting"
            => Total(calls', Ages) > Limit]_vars
  BY <1>1
<1>3. LimiterInv => LogHolds
  BY LogOfCalls DEF LimiterInv
<1> QED BY <1>2, <1>3, LimiterInvariant, PTL DEF Spec, RefusalsJustified
=================================================================================
