----------------------------- MODULE SubagentRun -----------------------------
(***************************************************************************)
(* One run of a subagent (xibi/subagent): a row of subagent_runs, its rows *)
(* of subagent_checklist_steps and the rows of pending_l2_actions its      *)
(* steps park. spawn_subagent and resume_run work through the checklist    *)
(* on a copy of the row that they write back whole; cancel_subagent and    *)
(* the sweep cleanup_expired_runs work on the same rows from other         *)
(* processes.                                                              *)
(*                                                                         *)
(* A step of this module is one transaction, or one LLM exchange. Cost and *)
(* duration budgets are a choice: they may be exhausted before any step.   *)
(***************************************************************************)
EXTENDS Integers, FiniteSets

CONSTANTS
  N,          \* length of the checklist
  MaxCalls,   \* budget_max_calls
  Spawner,    \* the process that calls spawn_subagent
  Resumers,   \* processes that call resume_run
  Gated,      \* steps whose output asks for a tool that needs approval
  Overlap,    \* bound: whether resume_run is called while another execution of
              \* the run is under way, as nothing in the code prevents
  MaxResumes, \* bound: calls of resume_run, over all processes
  MaxCrashes, \* bound: crashes of a process that executes the run
  MaxErrs,    \* bound: transactions that raise
  MaxCancels  \* bound: calls of cancel_subagent

Procs == {Spawner} \cup Resumers
Steps == 1 .. N

ASSUME SubagentAssumption ==
  /\ N \in Nat \ {0} /\ MaxCalls \in Nat
  /\ Spawner \notin Resumers /\ Gated \subseteq Steps /\ Overlap \in BOOLEAN
  /\ MaxResumes \in Nat /\ MaxCrashes \in Nat
  /\ MaxErrs \in Nat /\ MaxCancels \in Nat

VARIABLES
  row,      \* the row of the run: its status, actual_calls and completed_at
  step,     \* column status of each step's row
  parked,   \* rows of pending_l2_actions, for each step
  pc,       \* where a process is
  copy,     \* its SubagentRun object
  snap,     \* the steps that were DONE, or had no row, when it loaded them
  cur,      \* the step it is at
  answers,  \* LLM calls of the current step that were answered
  seen,     \* the row cancel_subagent has read, or NoRow
  old       \* the latest completed_at that lies more than the TTL back

db == <<row, step, parked>>
local == <<pc, copy, snap, cur, answers>>

\* History and bounds.
VARIABLES
  made,       \* LLM calls that were answered, in all executions
  cancelled,  \* the row was set to CANCELLED since the last start
  resumes, crashes, errs, cancels

history == <<made, cancelled, resumes, crashes, errs, cancels>>
vars == <<db, local, seen, old, history>>

NoRow == [status |-> "absent", calls |-> 0, completed |-> 0]
Running == {"SPAWNED", "RUNNING"}
RunStatuses == {"absent", "SPAWNED", "RUNNING", "COMPLETING", "DONE", "FAILED",
                "TIMEOUT", "CANCELLED"}
StepStatuses == {"absent", "PENDING", "RUNNING", "DONE", "FAILED"}
Snapshot == [done : SUBSET Steps, missing : SUBSET Steps]
RunRow == [status : RunStatuses, calls : Nat, completed : Nat]
Places == {"idle", "create", "read", "start", "loop", "llm", "park", "finish step",
           "totals", "failed", "finish", "summary"}

TypeOK ==
  /\ row \in RunRow /\ step \in [Steps -> StepStatuses]
  /\ parked \in [Steps -> Nat]
  /\ pc \in [Procs -> Places] /\ copy \in [Procs -> RunRow]
  /\ snap \in [Procs -> Snapshot] /\ cur \in [Procs -> 1 .. (N + 1)]
  /\ answers \in [Procs -> 0 .. 2]
  /\ seen \in RunRow /\ old \in Nat
  /\ made \in Nat /\ cancelled \in BOOLEAN
  /\ resumes \in Nat /\ crashes \in Nat /\ errs \in Nat /\ cancels \in Nat

Init ==
  /\ row = NoRow /\ step = [s \in Steps |-> "absent"]
  /\ parked = [s \in Steps |-> 0]
  /\ pc = [p \in Procs |-> "idle"] /\ copy = [p \in Procs |-> NoRow]
  /\ snap = [p \in Procs |-> [done |-> {}, missing |-> {}]] /\ cur = [p \in Procs |-> 1]
  /\ answers = [p \in Procs |-> 0] /\ seen = NoRow /\ old = 0
  /\ made = 0 /\ cancelled = FALSE
  /\ resumes = 0 /\ crashes = 0 /\ errs = 0 /\ cancels = 0

-----------------------------------------------------------------------------
\* The row and a process's copy of it

Exists == row.status # "absent"
Busy(p) == pc[p] # "idle"
Goto(p, place) == pc' = [pc EXCEPT ![p] = place]
SetStatus(p, st) == copy' = [copy EXCEPT ![p].status = st]

\* update_run: the whole copy r replaces the row, if there is still one.
UpdateRun(r) == row' = IF Exists THEN r ELSE row
UpdateStep(s, st) ==
  step' = IF step[s] = "absent" THEN step ELSE [step EXCEPT ![s] = st]

-----------------------------------------------------------------------------
\* spawn_subagent and resume_run, up to the checklist

\* The run row, then one transaction for each step row.
Spawn ==
  /\ pc[Spawner] = "idle" /\ copy[Spawner] = NoRow
  /\ row' = [NoRow EXCEPT !.status = "SPAWNED"]
  /\ copy' = [copy EXCEPT ![Spawner] = row']
  /\ Goto(Spawner, "create")
  /\ UNCHANGED <<step, parked, snap, cur, answers, seen, old, history>>

Err == errs < MaxErrs /\ errs' = errs + 1

\* The manifest, the checklist or create_run raises: spawn_subagent records a
\* FAILED run that has no steps.
SpawnRaises ==
  /\ pc[Spawner] = "idle" /\ copy[Spawner] = NoRow /\ Err
  /\ row' = [NoRow EXCEPT !.status = "FAILED"]
  /\ copy' = [copy EXCEPT ![Spawner] = row']
  /\ UNCHANGED <<step, parked, pc, snap, cur, answers, seen, old, made, cancelled,
                 resumes, crashes, cancels>>

CreateStep ==
  /\ pc[Spawner] = "create"
  /\ step' = [step EXCEPT ![cur[Spawner]] = "PENDING"]
  /\ IF cur[Spawner] = N
     THEN Goto(Spawner, "start") /\ cur' = [cur EXCEPT ![Spawner] = 1]
     ELSE UNCHANGED pc /\ cur' = [cur EXCEPT ![Spawner] = @ + 1]
  /\ UNCHANGED <<row, parked, copy, snap, answers, seen, old, history>>

\* An exception outside the step's own handler: spawn_subagent marks the
\* row FAILED, or inserts one if it is gone; resume_run passes the exception on.
Escape(p) ==
  /\ Goto(p, "idle")
  /\ row' = IF p = Spawner THEN [row EXCEPT !.status = "FAILED"] ELSE row
  /\ UNCHANGED <<step, parked, copy, snap, cur, answers, seen, old>>

CreateFails ==
  /\ pc[Spawner] = "create" /\ Err /\ Escape(Spawner)
  /\ UNCHANGED <<made, cancelled, resumes, crashes, cancels>>

Resumable == {"SPAWNED", "COMPLETING", "FAILED", "TIMEOUT", "CANCELLED"}

\* Mutant of Resumed: the budget counters start again.
ResumedAfresh(r) == [r EXCEPT !.calls = 0]

\* "Budget counters continue from where they were (not reset)."
Resumed(r) == r

\* resume_run reads the row, and returns at once if it is DONE or RUNNING.
Resume(p) ==
  /\ p \in Resumers /\ ~Busy(p) /\ resumes < MaxResumes
  /\ Overlap \/ \A q \in Procs : ~Busy(q)
  /\ row.status \in Resumable
  /\ copy' = [copy EXCEPT ![p] = Resumed(row)]
  /\ Goto(p, "start")
  /\ resumes' = resumes + 1
  /\ UNCHANGED <<db, snap, cur, answers, seen, old, made, cancelled, crashes,
                 errs, cancels>>

-----------------------------------------------------------------------------
\* execute_checklist

\* Mutants of Checkpoints: persisted steps are run again; failed ones are not.
NoCheckpoints == {}
AttemptedCheckpoints == {s \in Steps : step[s] \notin {"PENDING", "absent"}}

Checkpoints == {s \in Steps : step[s] = "DONE"}

\* The steps are loaded and the run marked RUNNING.
Start(p) ==
  /\ pc[p] = "start" /\ Goto(p, "loop")
  /\ snap' = [snap EXCEPT ![p] = [done |-> Checkpoints,
                                  missing |-> {s \in Steps : step[s] = "absent"}]]
  /\ cur' = [cur EXCEPT ![p] = 1]
  /\ SetStatus(p, "RUNNING") /\ UpdateRun(copy'[p])
  /\ cancelled' = FALSE
  /\ UNCHANGED <<step, parked, answers, seen, old, made, resumes,
                 crashes, errs, cancels>>

AtStep(p) ==
  /\ pc[p] = "loop" /\ cur[p] <= N
  /\ cur[p] \notin snap[p].done \cup snap[p].missing

Skip(p) ==
  /\ pc[p] = "loop" /\ cur[p] <= N /\ cur[p] \in snap[p].done
  /\ cur' = [cur EXCEPT ![p] = @ + 1]
  /\ UNCHANGED <<db, pc, copy, snap, answers, seen, old, history>>

OutOfCalls(p) == copy[p].calls >= MaxCalls

\* The budget checks of calls, cost and duration.
OutOfBudget(p) ==
  /\ AtStep(p) /\ Goto(p, "finish") /\ SetStatus(p, "TIMEOUT")
  /\ UNCHANGED <<db, snap, cur, answers, seen, old, history>>

\* The poll for cancellation. A row that is gone is not cancelled.
PollCancelled(p) ==
  /\ AtStep(p) /\ ~OutOfCalls(p) /\ row.status = "CANCELLED"
  /\ Goto(p, "finish") /\ SetStatus(p, "CANCELLED")
  /\ UNCHANGED <<db, snap, cur, answers, seen, old, history>>

BeginStep(p) ==
  /\ AtStep(p) /\ ~OutOfCalls(p) /\ row.status # "CANCELLED"
  /\ Goto(p, "llm") /\ UpdateStep(cur[p], "RUNNING")
  /\ UNCHANGED <<row, parked, copy, snap, cur, answers, seen, old, history>>

\* steps[i] of a step whose row was never created.
NoStepRow(p) ==
  /\ pc[p] = "loop" /\ cur[p] <= N /\ cur[p] \in snap[p].missing
  /\ Escape(p) /\ UNCHANGED history

\* Prefetch, prompt and LLM call with its attempts, then the validation retry.
Answer(p, k) ==
  /\ pc[p] = "llm" /\ Goto(p, "park")
  /\ answers' = [answers EXCEPT ![p] = k] /\ made' = made + k
  /\ UNCHANGED <<db, copy, snap, cur, seen, old, cancelled, resumes,
                 crashes, errs, cancels>>

NoAnswer(p) ==
  /\ pc[p] = "llm" /\ Goto(p, "failed")
  /\ UNCHANGED <<db, copy, snap, cur, answers, seen, old, history>>

\* enforce_trust parks at most one action; the row refers to the run's row.
ParkActions(p) ==
  /\ pc[p] = "park"
  /\ \/ /\ Goto(p, "finish step")
        /\ Exists \/ cur[p] \notin Gated
        /\ parked' = IF cur[p] \in Gated THEN [parked EXCEPT ![cur[p]] = @ + 1]
                     ELSE parked
     \/ /\ Goto(p, "failed")
        /\ ~Exists /\ cur[p] \in Gated
        /\ UNCHANGED parked
  /\ UNCHANGED <<row, step, copy, snap, cur, answers, seen, old, history>>

FinishStep(p) ==
  /\ pc[p] = "finish step" /\ Goto(p, "totals")
  /\ UpdateStep(cur[p], "DONE")
  /\ UNCHANGED <<row, parked, copy, snap, cur, answers, seen, old, history>>

\* The cost events, which refer to the run's row, and the run's totals; the
\* copy that is written back still says RUNNING.
Totals(p) ==
  /\ pc[p] = "totals"
  /\ IF Exists
     THEN /\ Goto(p, "loop")
          /\ copy' = [copy EXCEPT ![p].calls = @ + answers[p]]
          /\ UpdateRun(copy'[p])
          /\ cur' = [cur EXCEPT ![p] = @ + 1]
     ELSE Goto(p, "failed") /\ UNCHANGED <<row, copy, cur>>
  /\ UNCHANGED <<step, parked, snap, answers, seen, old, history>>

\* A transaction outside the step's handler, or in it, raises.
ExecutionRaises(p) ==
  /\ pc[p] \in {"start", "loop", "failed", "finish"} /\ Err /\ Escape(p)
  /\ UNCHANGED <<made, cancelled, resumes, crashes, cancels>>

\* A transaction of the step raises and its exception is caught.
StepRaises(p) ==
  /\ pc[p] \in {"park", "finish step", "totals"} /\ Err /\ Goto(p, "failed")
  /\ UNCHANGED <<db, copy, snap, cur, answers, seen, old, made, cancelled,
                 resumes, crashes, cancels>>

FailStep(p) ==
  /\ pc[p] = "failed" /\ Goto(p, "finish")
  /\ UpdateStep(cur[p], "FAILED") /\ SetStatus(p, "FAILED")
  /\ UNCHANGED <<row, parked, snap, cur, answers, seen, old, history>>

EndLoop(p) ==
  /\ pc[p] = "loop" /\ cur[p] = N + 1
  /\ Goto(p, "finish") /\ SetStatus(p, "COMPLETING")
  /\ UNCHANGED <<db, snap, cur, answers, seen, old, history>>

\* Mutant of NeedsSummary: it looks for the status that a summary leads to.
NeedsSummaryDone(p) == copy[p].status = "DONE"

NeedsSummary(p) == copy[p].status = "COMPLETING"

\* The run's end is recorded. A completed_at above old is one the TTL has not
\* passed for; which of several it is makes no difference.
Finish(p) ==
  /\ pc[p] = "finish"
  /\ Goto(p, IF NeedsSummary(p) THEN "summary" ELSE "idle")
  /\ copy' = [copy EXCEPT ![p].completed = old + 1]
  /\ UpdateRun(copy'[p])
  /\ UNCHANGED <<step, parked, snap, cur, answers, seen, old, history>>

Summarise(p) ==
  /\ pc[p] = "summary" /\ Goto(p, "idle")
  /\ \E st \in {"DONE", "FAILED"} : SetStatus(p, st)
  /\ UpdateRun(copy'[p])
  /\ UNCHANGED <<step, parked, snap, cur, answers, seen, old, history>>

Crash(p) ==
  /\ Busy(p) /\ crashes < MaxCrashes /\ crashes' = crashes + 1
  /\ Goto(p, "idle")
  /\ UNCHANGED <<db, copy, snap, cur, answers, seen, old, made, cancelled,
                 resumes, errs, cancels>>

-----------------------------------------------------------------------------
\* The other processes

\* cancel_subagent: the row is read, then written back whole.
CancelRead ==
  /\ seen = NoRow /\ row.status \in Running
  /\ cancels < MaxCancels /\ cancels' = cancels + 1
  /\ seen' = row
  /\ UNCHANGED <<db, local, old, made, cancelled, resumes, crashes,
                 errs>>

\* Mutant of CancelStatus: a status that nobody polls for.
CancelStatusTypo == "CANCELED"

CancelStatus == "CANCELLED"

CancelWrite ==
  /\ seen # NoRow /\ seen' = NoRow
  /\ UpdateRun([seen EXCEPT !.status = CancelStatus])
  /\ cancelled' = TRUE
  /\ UNCHANGED <<step, parked, local, old, made, resumes, crashes,
                 errs, cancels>>

\* output_ttl_hours pass since the last end of the run.
Expire ==
  /\ row.completed > old /\ old' = old + 1
  /\ UNCHANGED <<db, local, seen, history>>

Expired == row.completed # 0 /\ row.completed <= old

\* Mutant of Swept: only runs that ended well.
SweptDone == Expired /\ row.status = "DONE"

Swept == Expired

\* cleanup_expired_runs deletes the steps before the pending actions that
\* refer to them, and foreign keys are on: with an action parked the whole
\* transaction fails.
Cleanup ==
  /\ Swept /\ \A s \in Steps : parked[s] = 0
  /\ row' = NoRow /\ step' = [s \in Steps |-> "absent"]
  /\ UNCHANGED <<parked, local, seen, old, history>>

Execute(p) ==
  \/ Start(p) \/ Skip(p) \/ OutOfBudget(p) \/ PollCancelled(p) \/ BeginStep(p)
  \/ NoStepRow(p) \/ NoAnswer(p) \/ \E k \in 1 .. 2 : Answer(p, k)
  \/ ParkActions(p) \/ FinishStep(p) \/ Totals(p) \/ FailStep(p) \/ EndLoop(p)
  \/ Finish(p) \/ Summarise(p)

Next ==
  \/ Spawn \/ SpawnRaises \/ CreateStep \/ CreateFails
  \/ \E p \in Procs : Execute(p) \/ Resume(p) \/ Crash(p)
                       \/ StepRaises(p) \/ ExecutionRaises(p)
  \/ CancelRead \/ CancelWrite \/ Expire \/ Cleanup

Spec == Init /\ [][Next]_vars
\* Nothing in an execution waits for ever, and the sweep runs once a day.
FairSpec ==
  /\ Spec /\ WF_vars(CreateStep) /\ \A p \in Procs : WF_vars(Execute(p))
  /\ WF_vars(Expire) /\ WF_vars(Cleanup)

-----------------------------------------------------------------------------
\* Properties

\* "Skip steps with status=DONE": a step recorded DONE is never run again or
\* reset by a later execution, whatever failed or crashed in between; only the
\* handler of an exception raised after it was recorded resets it.
CheckpointsKept ==
  [][\A s \in Steps :
       step[s] = "DONE" /\ step'[s] # "DONE"
         => \/ step'[s] = "absent"
            \/ \E p \in Procs : pc[p] = "failed" /\ cur[p] = s]_vars

\* A run is handed to the summary, and DONE, only with every step DONE.
DoneMeansAllDone ==
  row.status \in {"COMPLETING", "DONE"}
    => \A s \in Steps : step[s] = "DONE"

\* "Agent exceeding budget is terminated": the calls made in all executions of
\* a run exceed the budget by at most the second call of its last step, and by
\* the calls of a step whose execution was cut short before they were counted.
\* (cancel_subagent may write an old count back, which a resume goes on from.)
CallsBudgeted ==
  cancels = 0 => made <= MaxCalls + 1 + 2 * (crashes + errs)

\* An execution that ends without a crash or an error leaves no run behind
\* that looks alive: resume_run would return a RUNNING one untouched for ever.
NoRunStranded ==
  (\A p \in Procs : ~Busy(p)) /\ row.status \in {"SPAWNED", "RUNNING", "COMPLETING"}
    => crashes + errs > 0

\* "Per-row TTL semantics preserved": a run whose TTL has passed is deleted, or
\* has ended again since, unless one of its actions was parked.
ExpiredIsDeleted == Expired ~> ~Expired \/ \E s \in Steps : parked[s] > 0
=============================================================================
