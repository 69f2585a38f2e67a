----------------------------- MODULE MCScheduler -----------------------------
(* Scheduler on a small instance. *)
EXTENDS Scheduler, TLC

CONSTANTS k1, k2, s1, s2, c1, c2

\* Two instances, neither of which overtakes itself.
OneEach == k1 :> s1 @@ k2 :> s2

\* A recurring schedule and a cron schedule that matches at even times.
BothKinds == c1 :> "RECURRING" @@ c2 :> "CRON"
EveryTwo == c1 :> 2 @@ c2 :> 1
EvenTimes == [c \in Schedules |-> [t \in 0..MaxTime |-> 2 * (t \div 2) + 2]]
=============================================================================
