------------------------------ MODULE Scheduler ------------------------------
(***************************************************************************)
(* The scheduled-actions kernel of xibi/scheduling: the heartbeat process  *)
(* ticks, selects the due rows of the table scheduled_actions and runs     *)
(* them one by one; other processes call fire_now, disable_action,         *)
(* enable_action, delete_action and register_action on the same table.     *)
(*                                                                         *)
(* Every operation of the code is one or more database transactions, and a *)
(* step of this module is one transaction, or the run of one handler.      *)
(* What a process remembers between two of them (the rows it selected, the *)
(* run in progress) is in todo and run: the process works on that snapshot *)
(* while the table moves on.                                               *)
(*                                                                         *)
(* Time is counted in instants, Res of them in a second; the table keeps   *)
(* whole seconds, as the strftime format of the code does.                 *)
(***************************************************************************)
EXTENDS Integers, FiniteSets

CONSTANTS
  Actions,      \* ids of scheduled_actions rows
  Oneshots,     \* the actions whose trigger_type is "oneshot"
  At,           \* instant in trigger_config["at"], for each one-shot
  Period,       \* trigger_config["every_seconds"], for the interval actions
  Gated,        \* tool_call actions, which the command layer may refuse
  Tickers,      \* processes that call ScheduledActionKernel.tick
  Firers,       \* processes that call fire_now
  MaxPerTick,   \* LIMIT of the SELECT in tick
  BackoffAt,    \* consecutive failures from which a run is put off (3)
  DisableAt,    \* consecutive failures that disable an action (10)
  BackoffSecs,  \* min(2^failures, 86400), for the counts that use it
  Res,          \* instants in a second
  Never,        \* datetime.max
  NoRun,        \* a process between two runs
  Horizon,      \* bound: the last instant of the clock
  MaxFaults,    \* bound: crashes and failed transactions
  MaxManual     \* bound: calls of fire_now and enable_action

Procs == Tickers \cup Firers

ASSUME SchedulerAssumption ==
  /\ Oneshots \subseteq Actions /\ Gated \subseteq Actions
  /\ IsFiniteSet(Actions) /\ IsFiniteSet(Procs)
  /\ Tickers \cap Firers = {}
  /\ Res \in Nat \ {0} /\ MaxPerTick \in Nat \ {0}
  /\ At \in [Oneshots -> Nat]
  /\ \A a \in Actions \ Oneshots : Period[a] \in Nat \ {0}
  /\ BackoffAt \in Nat \ {0} /\ DisableAt \in Nat /\ BackoffAt <= DisableAt
  /\ \A f \in BackoffAt .. (DisableAt - 1) : BackoffSecs[f] \in Nat \ {0}
  /\ Never \notin Nat
  /\ Horizon \in Nat /\ MaxFaults \in Nat /\ MaxManual \in Nat

VARIABLES
  clock,    \* the current instant
  live,     \* actions that have a row
  deleted,  \* actions whose row was deleted; an id is never used again
  enabled,  \* column enabled
  next,     \* column next_run_at, in seconds, or Never
  fails,    \* column consecutive_failures
  rows,     \* scheduled_action_runs rows of an action with status 'running'
  todo,     \* rows a process has selected and not yet reached
  run       \* the run a process is in, or NoRun

table == <<live, deleted, enabled, next, fails, rows>>

\* History, for the properties only: no guard and no update of the variables
\* above reads these, but for the bounds on faults and manual.
VARIABLES
  quiet,      \* disabled while nobody held the row, not touched since
  reenabled,  \* enable_action was called after the last recorded run
  streak,     \* failures recorded since the last recorded non-failure
  delivered,  \* successful runs of the handler of a one-shot
  lost,       \* runs of an action that were never recorded
  manual,     \* calls of fire_now and enable_action on an action
  faults      \* crashes and failed transactions so far

history == <<quiet, reenabled, streak, delivered, lost, manual, faults>>
vars == <<clock, table, todo, run, history>>

\* A handler turns every exception into an error; a timeout counts as one.
HandlerOutcomes == {"success", "failure"}
Outcomes == HandlerOutcomes \cup {"running", "skipped"}
Snapshot == [id : Actions, fails : Nat, next : Nat \cup {Never}]
Run == [id : Actions, fails : Nat, started : Nat, outcome : Outcomes]

ASSUME NoRunAssumption == NoRun \notin Run

TypeOK ==
  /\ clock \in Nat
  /\ live \subseteq Actions /\ deleted \subseteq Actions
  /\ live \cap deleted = {}
  /\ enabled \in [Actions -> BOOLEAN]
  /\ next \in [Actions -> Nat \cup {Never}]
  /\ fails \in [Actions -> Nat]
  /\ rows \in [Actions -> Int]
  /\ todo \in [Procs -> SUBSET Snapshot]
  /\ run \in [Procs -> Run \cup {NoRun}]
  /\ quiet \subseteq Actions /\ reenabled \subseteq Actions
  /\ streak \in [Actions -> Nat] /\ delivered \in [Actions -> Nat]
  /\ lost \in [Actions -> Nat] /\ manual \in [Actions -> Nat]
  /\ faults \in Nat

-----------------------------------------------------------------------------
\* Time and triggers

Sec(t) == t \div Res

\* Mutant of NextRun: the period is not added.
NextRunAtOnce(a, after) ==
  IF a \notin Oneshots THEN Sec(after)
  ELSE IF after < At[a] THEN Sec(At[a]) ELSE Never

\* compute_next_run, rounded to the second it is stored with: an interval
\* counts from the start of the run, a one-shot is due at its time and never
\* again once that instant has passed.
NextRun(a, after) ==
  IF a \notin Oneshots THEN Sec(after) + Period[a]
  ELSE IF after < At[a] THEN Sec(At[a]) ELSE Never

\* Mutant of Due: the SELECT forgets enabled = 1.
DueEvenDisabled(a) == a \in live /\ next[a] # Never /\ next[a] <= Sec(clock)

Due(a) == a \in live /\ enabled[a] /\ next[a] # Never /\ next[a] <= Sec(clock)

Earlier(s, t) == t = Never \/ (s # Never /\ s <= t)

Row(a) == [id |-> a, fails |-> fails[a], next |-> next[a]]

Holds(p, a) ==
  \/ \E s \in todo[p] : s.id = a
  \/ run[p] # NoRun /\ run[p].id = a

Idle(p) == todo[p] = {} /\ run[p] = NoRun

-----------------------------------------------------------------------------
\* The kernel

\* tick: the due rows, oldest next_run_at first, at most MaxPerTick of them.
Select(p) ==
  /\ Idle(p)
  /\ \E S \in SUBSET {a \in Actions : Due(a)} :
       /\ \/ Cardinality(S) = MaxPerTick
          \/ Cardinality(S) < MaxPerTick /\ \A a \in Actions : Due(a) => a \in S
       /\ \A a \in S, b \in Actions : Due(b) /\ b \notin S => next[a] <= next[b]
       /\ todo' = [todo EXCEPT ![p] = {Row(a) : a \in S}]
  /\ UNCHANGED <<clock, table, run, history>>

\* fire_now reads the row whatever its state and processes it.
FireNow(p, a) ==
  /\ Idle(p) /\ a \in live /\ manual[a] < MaxManual
  /\ todo' = [todo EXCEPT ![p] = {Row(a)}]
  /\ manual' = [manual EXCEPT ![a] = @ + 1]
  /\ quiet' = quiet \ {a}
  /\ UNCHANGED <<clock, table, run, reenabled, streak, delivered, lost, faults>>

\* _process_action inserts the run row. The foreign key refuses a row for an
\* action that is gone, and the process goes on to its next one.
Begin(p) ==
  /\ run[p] = NoRun
  /\ \E s \in todo[p] :
       /\ \A u \in todo[p] : Earlier(s.next, u.next)
       /\ todo' = [todo EXCEPT ![p] = @ \ {s}]
       /\ IF s.id \in live
          THEN /\ run' = [run EXCEPT ![p] = [id |-> s.id, fails |-> s.fails,
                                             started |-> clock,
                                             outcome |-> "running"]]
               /\ rows' = [rows EXCEPT ![s.id] = @ + 1]
          ELSE UNCHANGED <<run, rows>>
  /\ UNCHANGED <<clock, live, deleted, enabled, next, fails, history>>

\* The permission check of a tool call, or the handler under its timeout.
Execute(p) ==
  /\ run[p] # NoRun /\ run[p].outcome = "running"
  /\ \E o \in HandlerOutcomes \cup {"skipped"} :
       /\ o = "skipped" => run[p].id \in Gated
       /\ run' = [run EXCEPT ![p].outcome = o]
       /\ delivered' =
            IF o = "success" /\ run[p].id \in Oneshots
            THEN [delivered EXCEPT ![run[p].id] = @ + 1] ELSE delivered
  /\ UNCHANGED <<clock, table, todo, quiet, reenabled, streak, lost, manual, faults>>

\* Mutants of NewFails: a success takes one failure off; a refusal counts.
NewFailsDecay(r) == IF r.outcome = "failure" THEN r.fails + 1 ELSE r.fails - 1

\* consecutive_failures as the run found it, plus one or back to zero
NewFails(r) == IF r.outcome = "failure" THEN r.fails + 1 ELSE 0

\* Mutants of StaysEnabled: one failure too many, and a one-shot that stays on.
StaysEnabledOffByOne(r) ==
  \/ r.outcome = "failure" /\ NewFails(r) <= DisableAt
  \/ r.outcome # "failure" /\ r.id \notin Oneshots
StaysEnabledOneshot(r) == r.outcome = "failure" => NewFails(r) < DisableAt

StaysEnabled(r) ==
  \/ r.outcome = "failure" /\ NewFails(r) < DisableAt
  \/ r.outcome # "failure" /\ r.id \notin Oneshots

\* From BackoffAt failures on, the backoff takes the place of the trigger
NewNext(r) ==
  IF r.outcome = "failure" /\ NewFails(r) \in BackoffAt .. (DisableAt - 1)
  THEN Sec(r.started) + BackoffSecs[NewFails(r)]
  ELSE NextRun(r.id, r.started)

\* The transaction that closes the run row and rewrites the action's columns,
\* all of them from the snapshot. It touches nothing when the row is gone.
Record(p) ==
  LET r == run[p]
      a == run[p].id
  IN /\ run[p] # NoRun /\ run[p].outcome # "running"
     /\ run' = [run EXCEPT ![p] = NoRun]
     /\ IF a \in live
        THEN /\ enabled' = [enabled EXCEPT ![a] = StaysEnabled(r)]
             /\ next' = [next EXCEPT ![a] = NewNext(r)]
             /\ fails' = [fails EXCEPT ![a] = NewFails(r)]
             /\ rows' = [rows EXCEPT ![a] = @ - 1]
             /\ reenabled' = reenabled \ {a}
             /\ streak' = [streak EXCEPT ![a] =
                             IF r.outcome = "failure" THEN @ + 1 ELSE 0]
        ELSE UNCHANGED <<enabled, next, fails, rows, reenabled, streak>>
     /\ UNCHANGED <<clock, live, deleted, todo, quiet, delivered, lost, manual, faults>>

Lose(p) ==
  /\ faults < MaxFaults
  /\ faults' = faults + 1
  /\ run' = [run EXCEPT ![p] = NoRun]
  /\ lost' = IF run[p] = NoRun THEN lost
             ELSE [lost EXCEPT ![run[p].id] = @ + 1]
  /\ UNCHANGED <<clock, table, quiet, reenabled, streak, delivered, manual>>

\* The recording transaction fails: the code logs it and goes on with the
\* rows it has left.
RecordFails(p) ==
  /\ run[p] # NoRun /\ run[p].outcome # "running"
  /\ Lose(p)
  /\ UNCHANGED todo

\* The process is killed, or the timeout exception arrives outside the try
\* and ends the tick: what it had selected is forgotten.
Crash(p) ==
  /\ ~Idle(p)
  /\ Lose(p)
  /\ todo' = [todo EXCEPT ![p] = {}]

-----------------------------------------------------------------------------
\* The public functions of xibi/scheduling/api.py

Register(a) ==
  /\ a \notin live \cup deleted
  /\ live' = live \cup {a}
  /\ enabled' = [enabled EXCEPT ![a] = TRUE]
  /\ next' = [next EXCEPT ![a] = NextRun(a, clock)]
  /\ UNCHANGED <<clock, deleted, fails, rows, todo, run, history>>

Disable(a) ==
  /\ a \in live
  /\ enabled' = [enabled EXCEPT ![a] = FALSE]
  /\ quiet' = IF \E p \in Procs : Holds(p, a) THEN quiet ELSE quiet \cup {a}
  /\ UNCHANGED <<clock, live, deleted, next, fails, rows, todo, run, reenabled,
                 streak, delivered, lost, manual, faults>>

Enable(a) ==
  /\ a \in live /\ manual[a] < MaxManual
  /\ enabled' = [enabled EXCEPT ![a] = TRUE]
  /\ quiet' = quiet \ {a}
  /\ reenabled' = reenabled \cup {a}
  /\ manual' = [manual EXCEPT ![a] = @ + 1]
  /\ UNCHANGED <<clock, live, deleted, next, fails, rows, todo, run, streak,
                 delivered, lost, faults>>

\* Deleting the action cascades to its run rows.
Delete(a) ==
  /\ a \in live
  /\ live' = live \ {a}
  /\ deleted' = deleted \cup {a}
  /\ rows' = [rows EXCEPT ![a] = 0]
  /\ UNCHANGED <<clock, enabled, next, fails, todo, run, history>>

Advance ==
  /\ clock < Horizon
  /\ clock' = clock + 1
  /\ UNCHANGED <<table, todo, run, history>>

-----------------------------------------------------------------------------
Init ==
  /\ clock = 0
  /\ live = {} /\ deleted = {}
  /\ enabled = [a \in Actions |-> FALSE]
  /\ next = [a \in Actions |-> Never]
  /\ fails = [a \in Actions |-> 0]
  /\ rows = [a \in Actions |-> 0]
  /\ todo = [p \in Procs |-> {}]
  /\ run = [p \in Procs |-> NoRun]
  /\ quiet = {} /\ reenabled = {}
  /\ streak = [a \in Actions |-> 0]
  /\ delivered = [a \in Actions |-> 0]
  /\ lost = [a \in Actions |-> 0]
  /\ manual = [a \in Actions |-> 0]
  /\ faults = 0

\* A process at work, without faults
Work(p) == Begin(p) \/ Execute(p) \/ Record(p)

Next ==
  \/ Advance
  \/ \E p \in Tickers : Select(p)
  \/ \E p \in Firers, a \in Actions : FireNow(p, a)
  \/ \E p \in Procs : Work(p) \/ RecordFails(p) \/ Crash(p)
  \/ \E a \in Actions : Register(a) \/ Disable(a) \/ Enable(a) \/ Delete(a)

Spec == Init /\ [][Next]_vars

\* The heartbeat keeps ticking, its handlers come back (the timeout sees to
\* it) and time passes. Nobody is obliged to call the API.
FairSpec ==
  /\ Spec
  /\ WF_vars(Advance)
  /\ \A p \in Tickers : WF_vars(Select(p)) /\ WF_vars(Work(p))

-----------------------------------------------------------------------------
\* Properties

\* An action disabled while no process held its row stays disabled until
\* somebody enables it or fires it by hand: a tick can undo a disable only
\* by finishing a run that was already selected.
QuietDisableSticks ==
  \A a \in quiet \cap live :
    ~enabled[a] /\ \A p \in Procs : ~Holds(p, a)

\* An action that has failed DisableAt times in a row, as its row counts, is
\* disabled unless enable_action was called since.
AutoDisabled ==
  \A a \in live : fails[a] >= DisableAt => ~enabled[a] \/ a \in reenabled

\* The column consecutive_failures is the number of failures recorded since
\* the last run that did not fail, so the backoff and the auto-disable count
\* what really happened (one kernel and no fire_now at work on the row).
FailuresCounted == \A a \in live : manual[a] = 0 => fails[a] = streak[a]

\* A one-shot is carried out once. Each crash or failed write between its
\* handler and its record, and each manual intervention, can add one more
\* delivery, and nothing else can.
OneshotDeliveredOnce ==
  \A a \in Oneshots : delivered[a] <= 1 + lost[a] + manual[a]

\* A run row reads 'running' exactly while a process is in that run, or for
\* ever when the run was lost: nothing else leaves one behind.
RunningRowsAccounted ==
  \A a \in live :
    rows[a] = Cardinality({p \in Procs : run[p] # NoRun /\ run[p].id = a}) + lost[a]

\* No action is selected for ever without its turn: a due action is run,
\* disabled or deleted.
DueIsServed == \A a \in Actions : Due(a) ~> ~Due(a)

\* The books of the runs agree with what was done: the failures, the deliveries
\* of the one-shots and the rows that read 'running'.
RunsAccounted == FailuresCounted /\ OneshotDeliveredOnce /\ RunningRowsAccounted
=============================================================================
