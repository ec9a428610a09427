--------------------------- MODULE CircuitBreaker ---------------------------
(***************************************************************************)
(* The circuit breaker of a provider or a tool (xibi/circuit_breaker.py):  *)
(* one row of circuit_breakers shared by every process and thread, and the *)
(* callers that ask it (is_open) before they call and tell it what became  *)
(* of the call (record_success, record_failure): router.py's               *)
(* BreakerWrappedClient and executor.py.                                   *)
(*                                                                         *)
(* A step is one transaction: every method reads, decides and writes in    *)
(* separate ones, so a decision may be stale when it is written. Every     *)
(* transaction may fail, and the methods then carry on with defaults.      *)
(***************************************************************************)
EXTENDS Integers

CONSTANTS
  Procs,            \* processes and threads that share the breaker
  Threshold,        \* failure_threshold
  SuccessThreshold, \* success_threshold
  Recovery,         \* recovery_timeout_secs, in ticks
  Null,             \* opened_at IS NULL
  MaxFlips,         \* bound: times the provider goes down or comes back
  MaxFaults         \* bound: transactions that raise and callers that die

ASSUME BreakerAssumption ==
  /\ Threshold \in Nat \ {0} /\ SuccessThreshold \in Nat \ {0}
  /\ Recovery \in Nat /\ Null \notin Nat
  /\ MaxFlips \in Nat /\ MaxFaults \in Nat

VARIABLES
  row,      \* the row; opened is the age of opened_at, or Null
  pc,       \* where a caller is
  failures, \* what record_failure's increment returned to it
  up,       \* the provider answers
  flips, faults

vars == <<row, pc, failures, up, flips, faults>>

States == {"closed", "open", "half_open"}
Ages == 0 .. (Recovery + 1)      \* an older row is as good as Recovery + 1
\* The counters are compared with their thresholds only, so they stop there.
Rows == [state : States, failures : 0 .. Threshold,
         successes : 0 .. SuccessThreshold, opened : Ages \cup {Null}]
Places == {"idle", "half", "calling", "succeeded", "count", "forgive", "reset",
           "failed", "check", "trip", "held"}

TypeOK ==
  /\ row \in Rows /\ pc \in [Procs -> Places]
  /\ failures \in [Procs -> 0 .. Threshold]
  /\ up \in BOOLEAN /\ flips \in 0 .. MaxFlips /\ faults \in 0 .. MaxFaults

\* _DEFAULTS, which is also the row as it is inserted and as _reset leaves it.
Defaults == [state |-> "closed", failures |-> 0, successes |-> 0, opened |-> Null]

Init ==
  /\ row = Defaults
  /\ pc = [p \in Procs |-> "idle"] /\ failures = [p \in Procs |-> 0]
  /\ up \in BOOLEAN /\ flips = 0 /\ faults = 0

-----------------------------------------------------------------------------
Bumped(count, limit) == IF count < limit THEN count + 1 ELSE limit

\* _set_state: COALESCE keeps the old opened_at when none is given.
HalfOpened(r) == [r EXCEPT !.state = "half_open"]

\* Mutant of Tripped: opened_at is not passed.
TrippedUntimed(r) == [r EXCEPT !.state = "open"]

Tripped(r) == [r EXCEPT !.state = "open", !.opened = 0]

\* _reset
Reset(r) == Defaults

\* is_open: whether the recovery time is over.
Recovering(r) == r.state = "open" /\ r.opened # Null /\ r.opened > Recovery

\* Mutant of MayTrip: a failed trial does not open the circuit again.
MayTripClosed(r) == r.state = "closed"

\* record_failure: the states that too many failures open.
MayTrip(r) == r.state \in {"closed", "half_open"}

Goto(p, place) == pc' = [pc EXCEPT ![p] = place]

\* A transaction: it succeeds, or it raises and the method logs a warning.
Committed == UNCHANGED faults
Raised == faults < MaxFaults /\ faults' = faults + 1

\* _get_row: the row, or the defaults when the database raises. An absent row
\* reads as the defaults too, and is inserted.
Read(r) == \/ Committed /\ r = row
           \/ Raised /\ r = Defaults

Write(r) == \/ Committed /\ row' = r
            \/ Raised /\ UNCHANGED row

-----------------------------------------------------------------------------
\* is_open, before a client is built or a tool is run: refused, or on to the call.
Ask(p) ==
  /\ pc[p] = "idle"
  /\ \E r \in {row, Defaults} :
       /\ Read(r)
       /\ Goto(p, IF Recovering(r) THEN "half"
                  ELSE IF r.state = "open" THEN "idle" ELSE "calling")
  /\ UNCHANGED <<row, failures, up, flips>>

SetHalfOpen(p) ==
  /\ pc[p] = "half" /\ Goto(p, "calling")
  /\ Write(HalfOpened(row))
  /\ UNCHANGED <<failures, up, flips>>

\* The call itself, and how BreakerWrappedClient and execute classify its end.
Answered(p) ==
  /\ pc[p] = "calling" /\ Goto(p, IF up THEN "succeeded" ELSE "failed")
  /\ UNCHANGED <<row, failures, up, flips, faults>>

\* A failure that is not the provider's (bad JSON, validation) is TRANSIENT:
\* it moves only a counter that nothing reads.
AnsweredBadly(p) ==
  /\ pc[p] = "calling" /\ up /\ Goto(p, "held")
  /\ UNCHANGED <<row, failures, up, flips, faults>>

\* record_success reads the state, ...
ReadSuccess(p) ==
  /\ pc[p] = "succeeded"
  /\ \E r \in {row, Defaults} :
       /\ Read(r)
       /\ Goto(p, CASE r.state = "half_open" -> "count"
                    [] r.state = "closed" -> "forgive"
                    [] OTHER -> "held")
  /\ UNCHANGED <<row, failures, up, flips>>

\* ... and then counts a success, which may be the one that closes, ...
CountSuccess(p) ==
  /\ pc[p] = "count"
  /\ LET n == Bumped(row.successes, SuccessThreshold)
     IN  \/ /\ Committed /\ row' = [row EXCEPT !.successes = n]
            /\ Goto(p, IF n >= SuccessThreshold THEN "reset" ELSE "held")
         \/ Raised /\ UNCHANGED row /\ Goto(p, "held")
  /\ UNCHANGED <<failures, up, flips>>

Close(p) ==
  /\ pc[p] = "reset" /\ Goto(p, "held")
  /\ Write(Reset(row))
  /\ UNCHANGED <<failures, up, flips>>

\* ... or forgives the failures so far.
Forgive(p) ==
  /\ pc[p] = "forgive" /\ Goto(p, "held")
  /\ Write([row EXCEPT !.failures = 0])
  /\ UNCHANGED <<failures, up, flips>>

\* record_failure counts (0 if it cannot), ...
CountFailure(p) ==
  /\ pc[p] = "failed" /\ Goto(p, "check")
  /\ LET n == Bumped(row.failures, Threshold)
     IN  \/ /\ Committed /\ row' = [row EXCEPT !.failures = n]
            /\ failures' = [failures EXCEPT ![p] = n]
         \/ /\ Raised /\ UNCHANGED row
            /\ failures' = [failures EXCEPT ![p] = 0]
  /\ UNCHANGED <<up, flips>>

\* ... reads the state, ...
Check(p) ==
  /\ pc[p] = "check"
  /\ \E r \in {row, Defaults} :
       /\ Read(r)
       /\ Goto(p, IF MayTrip(r) /\ failures[p] >= Threshold THEN "trip" ELSE "held")
  /\ UNCHANGED <<row, failures, up, flips>>

\* ... and opens the circuit.
Trip(p) ==
  /\ pc[p] = "trip" /\ Goto(p, "held")
  /\ Write(Tripped(row))
  /\ UNCHANGED <<failures, up, flips>>

\* A client built while the circuit was not open asks no more: a ReAct loop
\* calls it at every step. A tool call, and the next loop, ask again.
Reuse(p) == /\ pc[p] = "held" /\ Goto(p, "calling")
            /\ UNCHANGED <<row, failures, up, flips, faults>>
Drop(p) == /\ pc[p] = "held" /\ Goto(p, "idle")
           /\ UNCHANGED <<row, failures, up, flips, faults>>

Die(p) == /\ pc[p] # "idle" /\ Goto(p, "idle") /\ Raised
          /\ UNCHANGED <<row, failures, up, flips>>

Record(p) == \/ SetHalfOpen(p) \/ ReadSuccess(p) \/ CountSuccess(p) \/ Close(p)
             \/ Forgive(p) \/ CountFailure(p) \/ Check(p) \/ Trip(p)

\* Time: opened_at lies one tick further back.
Tick == /\ row.opened # Null /\ row.opened <= Recovery
        /\ row' = [row EXCEPT !.opened = @ + 1]
        /\ UNCHANGED <<pc, failures, up, flips, faults>>

Flip == /\ flips < MaxFlips /\ flips' = flips + 1 /\ up' = ~up
        /\ UNCHANGED <<row, pc, failures, faults>>

Next == \/ \E p \in Procs : \/ Ask(p) \/ Answered(p) \/ AnsweredBadly(p)
                            \/ Record(p) \/ Reuse(p) \/ Drop(p) \/ Die(p)
        \/ Tick \/ Flip

Spec == Init /\ [][Next]_vars

\* Callers keep coming, calls end (each has a timeout) and not always in a
\* malformed answer, and a loop gives its client up after max_steps.
Fairness ==
  /\ WF_vars(Tick)
  /\ \A p \in Procs : /\ WF_vars(Ask(p)) /\ SF_vars(Answered(p))
                      /\ WF_vars(Record(p)) /\ SF_vars(Drop(p))

FairSpec == Spec /\ Fairness

-----------------------------------------------------------------------------
\* An open circuit knows since when: is_open never lets a request through an
\* open circuit without opened_at, so such a circuit would stay open for ever.
OpenHasTime == row.state = "open" => row.opened # Null

\* Once the provider is up for good the circuit closes, and stays closed, though
\* a stale is_open or record_failure may disturb the row after it was closed.
ClosesWhenUp == <>[]up => <>[](row.state = "closed")

\* While the provider stays down the circuit opens again and again, though a late success may
\* have zeroed the count, and does not stay open: after the recovery time some caller is let
\* through to try, whatever stale decisions are written in between.
OpensWhenDown == <>[](~up) => []<>(row.state = "open") /\ []<>(row.state # "open")

\* The row is well formed, and an open one has its time.
RowIsSound == TypeOK /\ OpenHasTime
=============================================================================
