----------------------------- MODULE JobContract -----------------------------
(***************************************************************************)
(* What the queue promises the owners of jobs: a job is handed to one      *)
(* executor at a time, at most MaxAttempts times; it is done after the     *)
(* first success, and dead only when the last allowed attempt failed or    *)
(* was lost, when it enters the dead letter list.  One step may concern    *)
(* several jobs (a claim takes a batch).                                   *)
(***************************************************************************)
EXTENDS Naturals

CONSTANTS Jobs, MaxAttempts

VARIABLES
    phase,   \* where each job stands
    tries,   \* how often it was handed out
    listed   \* the dead letter list

vars == <<phase, tries, listed>>

Phases == {"waiting", "held", "done", "dead"}

Init ==
    /\ phase = [j \in Jobs |-> "waiting"]
    /\ tries = [j \in Jobs |-> 0]
    /\ listed = {}

HandOut(j) ==
    /\ phase[j] = "waiting" /\ phase'[j] = "held"
    /\ tries[j] < MaxAttempts /\ tries'[j] = tries[j] + 1

Succeed(j) ==
    /\ phase[j] = "held" /\ phase'[j] = "done"
    /\ tries'[j] = tries[j]

GiveBack(j) ==
    /\ phase[j] = "held" /\ phase'[j] = "waiting"
    /\ tries[j] < MaxAttempts /\ tries'[j] = tries[j]

GiveUp(j) ==
    /\ phase[j] = "held" /\ phase'[j] = "dead"
    /\ tries[j] = MaxAttempts /\ tries'[j] = tries[j]

Idle(j) == phase'[j] = phase[j] /\ tries'[j] = tries[j]

Next ==
    /\ phase' \in [Jobs -> Phases]
    /\ tries' \in [Jobs -> 0..MaxAttempts]
    /\ listed' = {j \in Jobs : phase'[j] = "dead"}
    /\ \A j \in Jobs : HandOut(j) \/ Succeed(j) \/ GiveBack(j) \/ GiveUp(j) \/ Idle(j)

Spec == Init /\ [][Next]_vars
=============================================================================
