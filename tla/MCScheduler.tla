----------------------------- MODULE MCScheduler -----------------------------
(* Small instances of Scheduler: a one-shot due in the middle of second 0   *)
(* (its stored next_run_at is the start of that second) and an interval     *)
(* action of one second. The thresholds 3 and 10 are scaled to 1 and 2.     *)
EXTENDS Scheduler

CONSTANTS o1, i1

MCAt == [a \in {o1} |-> 1]
MCPeriod == [a \in {i1} |-> 1]
MCBackoffSecs == [f \in 1 .. 1 |-> 2]
=============================================================================
