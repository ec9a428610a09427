--------------------------- MODULE SchedulerProofs ---------------------------
(* Theorems about Scheduler, for every set of actions and processes and      *)
(* every value of the thresholds and bounds: the types of its variables, and *)
(* two invariants of the enabled column under any interleaving of kernels,   *)
(* fire_now calls, API calls and crashes.                                    *)
EXTENDS Scheduler, FiniteSetTheorems, TLAPS

\* A stored time is a whole number of seconds.
LEMMA SecType == \A t \in Nat : Sec(t) \in Nat
BY SchedulerAssumption DEF Sec

\* compute_next_run yields a second, or datetime.max.
LEMMA NextRunType ==
  ASSUME NEW a \in Actions, NEW t \in Nat
  PROVE  NextRun(a, t) \in Nat \cup {Never}
<1>1. CASE a \notin Oneshots
  <2>1. Period[a] \in Nat /\ Sec(t) \in Nat
    BY <1>1, SecType, SchedulerAssumption
  <2> QED BY <1>1, <2>1 DEF NextRun
<1>2. CASE a \in Oneshots
  <2>1. Sec(At[a]) \in Nat
    BY <1>2, SecType, SchedulerAssumption
  <2> QED BY <1>2, <2>1 DEF NextRun
<1> QED BY <1>1, <1>2

\* What a run writes back has the type of the columns it goes to.
LEMMA RecordedTypes ==
  ASSUME NEW r \in Run
  PROVE  /\ NewFails(r) \in Nat
         /\ StaysEnabled(r) \in BOOLEAN
         /\ NewNext(r) \in Nat \cup {Never}
<1>1. NewFails(r) \in Nat
  BY DEF NewFails, Run
<1>2. StaysEnabled(r) \in BOOLEAN
  BY DEF StaysEnabled
<1>3. NewNext(r) \in Nat \cup {Never}
  <2>1. CASE r.outcome = "failure" /\ NewFails(r) \in BackoffAt .. (DisableAt - 1)
    <3>1. BackoffSecs[NewFails(r)] \in Nat
      BY <2>1, SchedulerAssumption
    <3>2. Sec(r.started) \in Nat
      BY SecType DEF Run
    <3> QED BY <2>1, <3>1, <3>2 DEF NewNext
  <2>2. CASE ~(r.outcome = "failure" /\ NewFails(r) \in BackoffAt .. (DisableAt - 1))
    <3>1. r.id \in Actions /\ r.started \in Nat
      BY DEF Run
    <3>2. NextRun(r.id, r.started) \in Nat \cup {Never}
      BY <3>1, NextRunType
    <3> QED BY <2>2, <3>2 DEF NewNext
  <2> QED BY <2>1, <2>2
<1> QED BY <1>1, <1>2, <1>3

-----------------------------------------------------------------------------
USE DEF table, history, vars

LEMMA InitTypeOK == Init => TypeOK
BY SchedulerAssumption DEF Init, TypeOK

\* The steps of the processes keep the types: what a process holds is a copy
\* of a row, and what it writes back is covered by RecordedTypes.
LEMMA ProcessTypeOK ==
  ASSUME TypeOK, NEW p \in Procs,
         \/ p \in Tickers /\ Select(p)
         \/ p \in Firers /\ \E a \in Actions : FireNow(p, a)
         \/ Work(p) \/ RecordFails(p) \/ Crash(p)
  PROVE  TypeOK'
<1> USE DEF TypeOK
<1>0. \A a \in Actions : Row(a) \in Snapshot
  BY DEF Row, Snapshot
<1>1. CASE Select(p)
  BY <1>0, <1>1 DEF Select
<1>2. ASSUME NEW a \in Actions, FireNow(p, a) PROVE TypeOK'
  BY <1>0, <1>2 DEF FireNow
<1>3. CASE Begin(p)
  <2>1. PICK s \in todo[p] :
          /\ todo' = [todo EXCEPT ![p] = @ \ {s}]
          /\ IF s.id \in live
             THEN /\ run' = [run EXCEPT ![p] = [id |-> s.id, fails |-> s.fails,
                                                started |-> clock,
                                                outcome |-> "running"]]
                  /\ rows' = [rows EXCEPT ![s.id] = @ + 1]
             ELSE UNCHANGED <<run, rows>>
    BY <1>3 DEF Begin
  <2>2. s \in Snapshot
    OBVIOUS
  <2>3. [id |-> s.id, fails |-> s.fails, started |-> clock,
         outcome |-> "running"] \in Run
    BY <2>2 DEF Snapshot, Run, Outcomes
  <2>4. run' \in [Procs -> Run \cup {NoRun}] /\ rows' \in [Actions -> Int]
    BY <2>1, <2>2, <2>3 DEF Snapshot
  <2>5. todo' \in [Procs -> SUBSET Snapshot]
    BY <2>1
  <2> QED BY <1>3, <2>4, <2>5 DEF Begin
<1>4. CASE Execute(p)
  <2>1. run[p] \in Run
    BY <1>4 DEF Execute
  <2>2. run' \in [Procs -> Run \cup {NoRun}]
    BY <1>4, <2>1 DEF Execute, Run, Outcomes
  <2>3. delivered' \in [Actions -> Nat]
    BY <1>4, <2>1 DEF Execute, Run
  <2> QED BY <1>4, <2>2, <2>3 DEF Execute
<1>5. CASE Record(p)
  <2>1. run[p] \in Run /\ run[p].id \in Actions
    BY <1>5 DEF Record, Run
  <2>2. run' \in [Procs -> Run \cup {NoRun}]
    BY <1>5 DEF Record
  <2>3. CASE run[p].id \in live
    <3>1. /\ enabled' \in [Actions -> BOOLEAN]
          /\ next' \in [Actions -> Nat \cup {Never}]
          /\ fails' \in [Actions -> Nat]
          /\ streak' \in [Actions -> Nat]
      BY <1>5, <2>1, <2>3, RecordedTypes DEF Record
    <3>2. rows' \in [Actions -> Int]
      BY <1>5, <2>1, <2>3 DEF Record
    <3> QED BY <1>5, <2>2, <3>1, <3>2, <2>3 DEF Record
  <2>4. CASE run[p].id \notin live
    BY <1>5, <2>2, <2>4 DEF Record
  <2> QED BY <2>3, <2>4
<1>6. CASE RecordFails(p)
  BY <1>6 DEF RecordFails, Lose, Run
<1>7. CASE Crash(p)
  BY <1>7 DEF Crash, Lose, Run
<1> QED BY <1>1, <1>2, <1>3, <1>4, <1>5, <1>6, <1>7 DEF Work

\* The steps of the API and of the clock keep the types.
LEMMA EnvironmentTypeOK ==
  ASSUME TypeOK, NEW a \in Actions,
         Register(a) \/ Disable(a) \/ Enable(a) \/ Delete(a) \/ Advance
  PROVE  TypeOK'
<1> USE DEF TypeOK
<1>1. CASE Register(a)
  BY <1>1, NextRunType DEF Register
<1>2. CASE Disable(a)
  BY <1>2 DEF Disable
<1>3. CASE Enable(a)
  BY <1>3 DEF Enable
<1>4. CASE Delete(a)
  BY <1>4 DEF Delete
<1>5. CASE Advance
  BY <1>5 DEF Advance
<1> QED BY <1>1, <1>2, <1>3, <1>4, <1>5

\* Every variable of the scheduler keeps its type in every behaviour.
THEOREM TypeCorrect == Spec => []TypeOK
<1>1. TypeOK /\ [Next]_vars => TypeOK'
  <2> SUFFICES ASSUME TypeOK, [Next]_vars PROVE TypeOK'
    OBVIOUS
  <2>1. CASE Advance
    <3>1. CASE Actions = {}
      BY <2>1 DEF Advance, TypeOK
    <3>2. CASE Actions # {}
      BY <2>1, <3>2, EnvironmentTypeOK
    <3> QED BY <3>1, <3>2
  <2>2. CASE \E p \in Tickers : Select(p)
    BY <2>2, ProcessTypeOK DEF Procs
  <2>3. CASE \E p \in Firers, a \in Actions : FireNow(p, a)
    BY <2>3, ProcessTypeOK DEF Procs
  <2>4. CASE \E p \in Procs : Work(p) \/ RecordFails(p) \/ Crash(p)
    BY <2>4, ProcessTypeOK
  <2>5. CASE \E a \in Actions : Register(a) \/ Disable(a) \/ Enable(a) \/ Delete(a)
    BY <2>5, EnvironmentTypeOK
  <2>6. CASE UNCHANGED vars
    BY <2>6 DEF TypeOK
  <2> QED BY <2>1, <2>2, <2>3, <2>4, <2>5, <2>6 DEF Next
<1> QED BY InitTypeOK, <1>1, PTL DEF Spec

-----------------------------------------------------------------------------
(* AutoDisabled is not inductive as it stands: registering an action makes   *)
(* it live with the count its row starts with, so that count has to be zero. *)

AutoDisabledInv ==
  /\ AutoDisabled
  /\ \A a \in Actions : a \notin live \cup deleted => fails[a] = 0

\* An action that has reached DisableAt failures is off until somebody turns
\* it on again, whatever kernels, fire_now calls and crashes interleave: the
\* count and the enabled column are written in one transaction.
THEOREM AutoDisabledAlways == Spec => []AutoDisabled
<1>1. Init => AutoDisabledInv
  BY DEF Init, AutoDisabledInv, AutoDisabled
<1>2. TypeOK /\ TypeOK' /\ AutoDisabledInv /\ [Next]_vars => AutoDisabledInv'
  <2> SUFFICES ASSUME TypeOK, AutoDisabledInv, [Next]_vars
               PROVE  AutoDisabledInv'
    OBVIOUS
  <2> USE DEF AutoDisabledInv, AutoDisabled, TypeOK
  <2>1. CASE UNCHANGED <<live, deleted, enabled, fails, reenabled>>
    BY <2>1
  <2>2. ASSUME NEW p \in Procs, Record(p), run[p].id \in live
        PROVE  AutoDisabledInv'
    <3>1. run[p] \in Run
      BY <2>2 DEF Record
    <3>2. run[p].id \in Actions
      BY <3>1 DEF Run
    <3>3. /\ enabled' = [enabled EXCEPT ![run[p].id] = StaysEnabled(run[p])]
          /\ fails' = [fails EXCEPT ![run[p].id] = NewFails(run[p])]
          /\ reenabled' = reenabled \ {run[p].id}
          /\ UNCHANGED <<live, deleted>>
      BY <2>2 DEF Record
    <3>4. NewFails(run[p]) >= DisableAt => ~StaysEnabled(run[p])
      BY <3>1, SchedulerAssumption DEF StaysEnabled, NewFails, Run
    <3> QED BY <3>2, <3>3, <3>4, <2>2
  <2>3. ASSUME NEW a \in Actions, Register(a)
        PROVE  AutoDisabledInv'
    BY <2>3, SchedulerAssumption DEF Register
  <2>4. ASSUME NEW a \in Actions, Disable(a) \/ Enable(a) \/ Delete(a)
        PROVE  AutoDisabledInv'
    BY <2>4 DEF Disable, Enable, Delete
  <2>5. ASSUME NEW p \in Procs, Work(p) \/ RecordFails(p) \/ Crash(p),
               ~(Record(p) /\ run[p].id \in live)
        PROVE  UNCHANGED <<live, deleted, enabled, fails, reenabled>>
    BY <2>5 DEF Work, Begin, Execute, Record, RecordFails, Crash, Lose
  <2>6. ASSUME Advance \/ (\E p \in Procs : Select(p))
               \/ (\E p \in Procs, a \in Actions : FireNow(p, a))
               \/ UNCHANGED vars
        PROVE  UNCHANGED <<live, deleted, enabled, fails, reenabled>>
    BY <2>6 DEF Advance, Select, FireNow
  <2> QED BY <2>1, <2>2, <2>3, <2>4, <2>5, <2>6 DEF Next, Procs
<1>3. AutoDisabledInv => AutoDisabled
  BY DEF AutoDisabledInv
<1> QED BY <1>1, <1>2, <1>3, TypeCorrect, PTL DEF Spec

-----------------------------------------------------------------------------
(* QuietDisableSticks needs to know that a quiet action has had a row:       *)
(* registering one that never had would turn it on.                          *)

QuietInv ==
  /\ QuietDisableSticks
  /\ quiet \subseteq live \cup deleted

\* What a process holds was due, or was fired by hand, when it took it; a
\* step other than those two never adds to what a process holds.
LEMMA HoldingShrinks ==
  ASSUME TypeOK, NEW p \in Procs, Work(p) \/ RecordFails(p) \/ Crash(p)
  PROVE  \A q \in Procs, a \in Actions : Holds(q, a)' => Holds(q, a)
<1> USE DEF TypeOK, Holds
<1>1. CASE Begin(p)
  BY <1>1 DEF Begin, Snapshot
<1>2. CASE Execute(p)
  BY <1>2 DEF Execute, Run
<1>3. CASE Record(p)
  BY <1>3 DEF Record
<1>4. CASE RecordFails(p) \/ Crash(p)
  BY <1>4 DEF RecordFails, Crash, Lose
<1> QED BY <1>1, <1>2, <1>3, <1>4 DEF Work

\* A disable that reaches the table while no process holds the action lasts
\* until enable_action or fire_now is called on it.
THEOREM QuietDisableSticksAlways == Spec => []QuietDisableSticks
<1>1. Init => QuietInv
  BY DEF Init, QuietInv, QuietDisableSticks
<1>2. TypeOK /\ QuietInv /\ [Next]_vars => QuietInv'
  <2> SUFFICES ASSUME TypeOK, QuietInv, [Next]_vars
               PROVE  QuietInv'
    OBVIOUS
  <2> USE DEF QuietInv, QuietDisableSticks, TypeOK
  <2>1. ASSUME UNCHANGED <<live, deleted, enabled, todo, run, quiet>>
        PROVE  QuietInv'
    BY <2>1 DEF Holds
  <2>2. ASSUME NEW p \in Tickers, Select(p)
        PROVE  QuietInv'
    <3>1. PICK S \in SUBSET {a \in Actions : Due(a)} :
            todo' = [todo EXCEPT ![p] = {Row(a) : a \in S}]
      BY <2>2 DEF Select
    <3>2. \A a \in S : enabled[a]
      BY <3>1 DEF Due
    <3>3. \A q \in Procs, a \in Actions : Holds(q, a)' => Holds(q, a) \/ a \in S
      BY <2>2, <3>1 DEF Select, Holds, Row, Procs
    <3> QED BY <2>2, <3>2, <3>3 DEF Select
  <2>3. ASSUME NEW p \in Firers, NEW a \in Actions, FireNow(p, a)
        PROVE  QuietInv'
    <3>1. \A q \in Procs, b \in Actions : Holds(q, b)' => Holds(q, b) \/ b = a
      BY <2>3 DEF FireNow, Holds, Row, Procs
    <3> QED BY <2>3, <3>1 DEF FireNow
  <2>4. ASSUME NEW p \in Procs, Work(p) \/ RecordFails(p) \/ Crash(p)
        PROVE  QuietInv'
    <3>1. \A q \in Procs, b \in Actions : Holds(q, b)' => Holds(q, b)
      BY <2>4, HoldingShrinks
    <3>2. \A b \in Actions : enabled'[b] # enabled[b] => Holds(p, b)
      BY <2>4 DEF Work, Begin, Execute, Record, RecordFails, Crash, Lose, Holds, Run
    <3>3. UNCHANGED <<live, deleted, quiet>>
      BY <2>4 DEF Work, Begin, Execute, Record, RecordFails, Crash, Lose
    <3> QED BY <3>1, <3>2, <3>3
  <2>5. ASSUME NEW a \in Actions, Register(a) \/ Delete(a)
        PROVE  QuietInv'
    BY <2>5 DEF Register, Delete, Holds
  <2>6. ASSUME NEW a \in Actions, Disable(a) \/ Enable(a)
        PROVE  QuietInv'
    BY <2>6 DEF Disable, Enable, Holds
  <2>7. ASSUME Advance \/ UNCHANGED vars
        PROVE  QuietInv'
    BY <2>7, <2>1 DEF Advance
  <2> QED BY <2>2, <2>3, <2>4, <2>5, <2>6, <2>7 DEF Next
<1> QED BY <1>1, <1>2, TypeCorrect, PTL DEF Spec, QuietInv

-----------------------------------------------------------------------------
(* The books of the runs.  They are kept by one kernel: two of them could    *)
(* select one row before either records its run.  The heartbeat process is   *)
(* the only caller of tick.                                                  *)

OneKernel == \A p, q \in Tickers : p = q

\* An action without a row has no past, and who holds an action found its row.
\* A row held by fire_now was asked for by hand.
PastInv ==
  /\ \A a \in Actions : a \notin live \cup deleted =>
       /\ fails[a] = 0 /\ streak[a] = 0 /\ delivered[a] = 0
       /\ rows[a] = 0 /\ lost[a] = 0
  /\ \A p \in Procs, a \in Actions : Holds(p, a) => a \in live \cup deleted
  /\ \A p \in Firers, a \in Actions : Holds(p, a) => manual[a] > 0

LEMMA PastStep ==
  ASSUME TypeOK, TypeOK', PastInv, [Next]_vars
  PROVE  PastInv'
<1> USE DEF PastInv
<1>1. CASE UNCHANGED vars
  BY <1>1 DEF Holds
<1>2. ASSUME NEW p \in Tickers, Select(p) PROVE PastInv'
  <2>1. PICK S \in SUBSET {a \in Actions : Due(a)} :
          todo' = [todo EXCEPT ![p] = {Row(a) : a \in S}]
    BY <1>2 DEF Select
  <2>2. \A a \in S : a \in live
    BY <2>1 DEF Due
  <2>3. \A q \in Procs, a \in Actions : Holds(q, a)' => Holds(q, a) \/ (q = p /\ a \in S)
    BY <1>2, <2>1 DEF Select, Holds, Row, Procs, TypeOK
  <2>4. p \notin Firers /\ \A q \in Firers : q \in Procs
    BY SchedulerAssumption DEF Procs
  <2>5. UNCHANGED <<table, history>>
    BY <1>2 DEF Select
  <2>6. \A q \in Procs, a \in Actions : Holds(q, a)' => a \in live \cup deleted
    BY <2>2, <2>3
  <2>7. \A q \in Firers, a \in Actions : Holds(q, a)' => manual[a] > 0
    BY <2>3, <2>4
  <2> QED BY <2>5, <2>6, <2>7
<1>3. ASSUME NEW p \in Firers, NEW a \in Actions, FireNow(p, a) PROVE PastInv'
  <2>1. \A q \in Procs, b \in Actions : Holds(q, b)' => Holds(q, b) \/ b = a
    BY <1>3 DEF FireNow, Holds, Row, Procs, TypeOK
  <2>2. a \in live /\ manual' = [manual EXCEPT ![a] = @ + 1]
        /\ UNCHANGED <<live, deleted, fails, streak, delivered, rows, lost>>
    BY <1>3 DEF FireNow
  <2>3. \A b \in Actions : manual'[b] >= manual[b] /\ (b = a => manual'[b] > 0)
    BY <2>2 DEF TypeOK
  <2>4. \A b \in Actions : manual[b] \in Nat /\ manual'[b] \in Nat
    BY DEF TypeOK
  <2>5. \A q \in Procs, b \in Actions : Holds(q, b)' => b \in live \cup deleted
    BY <2>1, <2>2
  <2>6. \A q \in Firers : q \in Procs
    BY DEF Procs
  <2>7. \A q \in Firers, b \in Actions : Holds(q, b)' => manual'[b] > 0
    BY <2>1, <2>3, <2>4, <2>6
  <2> QED BY <2>2, <2>5, <2>7
<1>4. ASSUME NEW p \in Procs, Work(p) \/ RecordFails(p) \/ Crash(p) PROVE PastInv'
  <2>1. \A q \in Procs, b \in Actions : Holds(q, b)' => Holds(q, b)
    BY <1>4, HoldingShrinks
  <2>2. UNCHANGED <<live, deleted, manual>>
    BY <1>4 DEF Work, Begin, Execute, Record, RecordFails, Crash, Lose
  <2>3. ASSUME NEW b \in Actions, ~Holds(p, b)
        PROVE  UNCHANGED <<fails[b], streak[b], delivered[b], rows[b], lost[b]>>
    <3>1. run[p] # NoRun => run[p].id # b
      BY <2>3 DEF Holds
    <3>2. CASE Begin(p)
      BY <2>3, <3>2 DEF Begin, Holds, TypeOK
    <3>3. CASE Execute(p)
      BY <3>1, <3>3 DEF Execute, TypeOK
    <3>4. CASE Record(p)
      BY <3>1, <3>4 DEF Record, TypeOK
    <3>5. CASE RecordFails(p) \/ Crash(p)
      BY <3>1, <3>5 DEF RecordFails, Crash, Lose, TypeOK
    <3> QED BY <1>4, <3>2, <3>3, <3>4, <3>5 DEF Work
  <2>4. Procs = Tickers \cup Firers
    BY DEF Procs
  <2> QED BY <2>1, <2>2, <2>3, <2>4
<1>5. ASSUME NEW a \in Actions, Register(a) \/ Disable(a) \/ Enable(a) \/ Delete(a)
      PROVE  PastInv'
  <2>1. \A q \in Procs, b \in Actions : Holds(q, b)' <=> Holds(q, b)
    BY <1>5 DEF Register, Disable, Enable, Delete, Holds
  <2>2. \A b \in Actions : manual'[b] >= manual[b]
    BY <1>5 DEF Register, Disable, Enable, Delete, TypeOK
  <2>3. \A b \in Actions : manual[b] \in Nat /\ manual'[b] \in Nat
    BY DEF TypeOK
  <2>4. live \cup deleted \subseteq live' \cup deleted'
    BY <1>5 DEF Register, Disable, Enable, Delete
  <2>5. UNCHANGED <<fails, streak, delivered, lost>>
    BY <1>5 DEF Register, Disable, Enable, Delete
  <2>6. \A b \in Actions : rows'[b] = rows[b] \/ rows'[b] = 0
    BY <1>5 DEF Register, Disable, Enable, Delete, TypeOK
  <2>7. \A q \in Firers : q \in Procs
    BY DEF Procs
  <2>8. \A q \in Firers, b \in Actions : Holds(q, b)' => manual'[b] > 0
    BY <2>1, <2>2, <2>3, <2>7
  <2> QED BY <2>1, <2>4, <2>5, <2>6, <2>8
<1>6. CASE Advance
  BY <1>6 DEF Advance, Holds
<1> QED BY <1>1, <1>2, <1>3, <1>4, <1>5, <1>6 DEF Next

\* What the kernel holds is what the row says, as long as nobody intervenes.
SnapshotsInv ==
  \A p \in Tickers :
    /\ \A s \in todo[p] : s.id \in live /\ manual[s.id] = 0 => s.fails = fails[s.id]
    /\ \A s, t \in todo[p] : s.id = t.id => s = t
    /\ run[p] # NoRun =>
         /\ \A s \in todo[p] : s.id # run[p].id
         /\ run[p].id \in live /\ manual[run[p].id] = 0
              => run[p].fails = fails[run[p].id]

\* A step after which the kernel holds no more than before, and which leaves
\* the counts alone that nobody asked for by hand.
LEMMA SnapshotsKept ==
  ASSUME TypeOK, PastInv, SnapshotsInv,
         \A p \in Tickers :
           /\ todo'[p] \subseteq todo[p]
           /\ run'[p] = NoRun \/ (run[p] # NoRun /\ run'[p].id = run[p].id /\ run'[p].fails = run[p].fails),
         \A a \in Actions : manual'[a] = 0 => manual[a] = 0,
         live' \cap deleted = {},
         \A a \in live : a \in live' /\ manual'[a] = 0 => fails'[a] = fails[a]
  PROVE  SnapshotsInv'
<1> SUFFICES ASSUME NEW p \in Tickers
             PROVE  /\ \A s \in todo'[p] : s.id \in live' /\ manual'[s.id] = 0
                                            => s.fails = fails'[s.id]
                    /\ \A s, t \in todo'[p] : s.id = t.id => s = t
                    /\ run'[p] # NoRun =>
                         /\ \A s \in todo'[p] : s.id # run'[p].id
                         /\ run'[p].id \in live' /\ manual'[run'[p].id] = 0
                              => run'[p].fails = fails'[run'[p].id]
  BY DEF SnapshotsInv
<1> p \in Procs
  BY DEF Procs
<1>1. ASSUME NEW s \in todo'[p], s.id \in live', manual'[s.id] = 0
      PROVE  s.fails = fails'[s.id]
  <2>1. s \in todo[p] /\ s.id \in Actions
    BY DEF TypeOK, Snapshot
  <2>2. Holds(p, s.id)
    BY <2>1 DEF Holds
  <2>3. s.id \in live
    BY <1>1, <2>1, <2>2 DEF PastInv
  <2> QED BY <1>1, <2>1, <2>3 DEF SnapshotsInv
<1>2. ASSUME run'[p] # NoRun, run'[p].id \in live', manual'[run'[p].id] = 0
      PROVE  run'[p].fails = fails'[run'[p].id]
  <2>1. run[p] # NoRun /\ run'[p].id = run[p].id /\ run'[p].fails = run[p].fails
    BY <1>2
  <2>2. run[p].id \in Actions
    BY <2>1 DEF TypeOK, Run
  <2>3. Holds(p, run[p].id)
    BY <2>1 DEF Holds
  <2>4. run[p].id \in live
    BY <1>2, <2>1, <2>2, <2>3 DEF PastInv
  <2> QED BY <1>2, <2>1, <2>2, <2>4 DEF SnapshotsInv
<1>3. \A s, t \in todo'[p] : s.id = t.id => s = t
  BY DEF SnapshotsInv
<1>4. run'[p] # NoRun => \A s \in todo'[p] : s.id # run'[p].id
  BY DEF SnapshotsInv
<1> QED BY <1>1, <1>2, <1>3, <1>4

CountInv == SnapshotsInv /\ FailuresCounted

\* The kernel selects rows as they are.
LEMMA SelectCounted ==
  ASSUME OneKernel, TypeOK, PastInv, CountInv, NEW p \in Tickers, Select(p)
  PROVE  CountInv'
<1>1. PICK S \in SUBSET {a \in Actions : Due(a)} :
        todo' = [todo EXCEPT ![p] = {Row(a) : a \in S}]
  BY DEF Select
<1>2. p \in Procs /\ run[p] = NoRun
  BY DEF Procs, Select, Idle
<1>3. todo'[p] = {Row(a) : a \in S}
  BY <1>1, <1>2 DEF TypeOK
<1>4. UNCHANGED <<live, fails, manual, streak, run>>
  BY DEF Select
<1>5. \A s \in todo'[p] : s.fails = fails[s.id]
  BY <1>3 DEF Row
<1>6. \A s, t \in todo'[p] : s.id = t.id => s = t
  BY <1>3 DEF Row
<1>7. \A q \in Tickers : q = p
  BY DEF OneKernel
<1>8. SnapshotsInv'
  BY <1>2, <1>4, <1>5, <1>6, <1>7 DEF SnapshotsInv
<1> QED BY <1>4, <1>8 DEF CountInv, FailuresCounted

\* The kernel begins the run of one of its rows.
LEMMA BeginCounted ==
  ASSUME TypeOK, PastInv, CountInv, NEW p \in Procs, Begin(p)
  PROVE  CountInv'
<1>1. PICK s \in todo[p] :
        /\ todo' = [todo EXCEPT ![p] = @ \ {s}]
        /\ IF s.id \in live
           THEN /\ run' = [run EXCEPT ![p] = [id |-> s.id, fails |-> s.fails,
                                              started |-> clock,
                                              outcome |-> "running"]]
                /\ rows' = [rows EXCEPT ![s.id] = @ + 1]
           ELSE UNCHANGED <<run, rows>>
  BY DEF Begin
<1>2. UNCHANGED <<live, deleted, fails, manual, streak>> /\ run[p] = NoRun
  BY DEF Begin
<1>3. todo'[p] = todo[p] \ {s} /\ \A q \in Procs : q # p => todo'[q] = todo[q]
  BY <1>1 DEF TypeOK
<1>4. \A q \in Procs : q # p => run'[q] = run[q]
  BY <1>1 DEF TypeOK
<1>5. run'[p] # NoRun => run'[p].id = s.id /\ run'[p].fails = s.fails
  BY <1>1, <1>2 DEF TypeOK
<1>6. SnapshotsInv'
  <2> SUFFICES ASSUME NEW q \in Tickers
               PROVE  /\ \A u \in todo'[q] : u.id \in live /\ manual[u.id] = 0
                                              => u.fails = fails[u.id]
                      /\ \A u, t \in todo'[q] : u.id = t.id => u = t
                      /\ run'[q] # NoRun =>
                           /\ \A u \in todo'[q] : u.id # run'[q].id
                           /\ run'[q].id \in live /\ manual[run'[q].id] = 0
                                => run'[q].fails = fails[run'[q].id]
    BY <1>2 DEF SnapshotsInv
  <2> q \in Procs
    BY DEF Procs
  <2>1. CASE q # p
    BY <2>1, <1>3, <1>4 DEF CountInv, SnapshotsInv
  <2>2. CASE q = p
    <3>1. \A u \in todo[p] : u.id \in live /\ manual[u.id] = 0 => u.fails = fails[u.id]
      BY <2>2 DEF CountInv, SnapshotsInv
    <3>2. \A u, t \in todo[p] : u.id = t.id => u = t
      BY <2>2 DEF CountInv, SnapshotsInv
    <3> QED BY <2>2, <1>3, <1>5, <3>1, <3>2
  <2> QED BY <2>1, <2>2
<1> QED BY <1>2, <1>6 DEF CountInv, FailuresCounted

\* The kernel counts on from the row; fire_now only touches a row that was
\* asked for by hand.
LEMMA RecordCounted ==
  ASSUME OneKernel, TypeOK, PastInv, CountInv, NEW p \in Procs, Record(p)
  PROVE  CountInv'
<1> DEFINE a == run[p].id
<1>1. run[p] \in Run /\ a \in Actions /\ run[p] # NoRun
  BY DEF Record, TypeOK, Run
<1>2. Holds(p, a)
  BY <1>1 DEF Holds
<1>3. UNCHANGED <<live, deleted, manual, todo>>
  BY DEF Record
<1>4. run'[p] = NoRun /\ \A q \in Procs : q # p => run'[q] = run[q]
  BY DEF Record, TypeOK
<1>5. \A b \in Actions : b # a => fails'[b] = fails[b] /\ streak'[b] = streak[b]
  BY DEF Record, TypeOK
<1>6. a \notin live => UNCHANGED <<fails, streak>>
  BY DEF Record
<1>7. CASE p \in Firers
  <2>1. manual[a] > 0
    BY <1>1, <1>2, <1>7 DEF PastInv
  <2>2. p \notin Tickers /\ \A q \in Tickers : q \in Procs
    BY <1>7, SchedulerAssumption DEF Procs
  <2>3. \A b \in live : manual[b] = 0 => fails'[b] = fails[b] /\ streak'[b] = streak[b]
    <3> SUFFICES ASSUME NEW b \in live, manual[b] = 0
                 PROVE  fails'[b] = fails[b] /\ streak'[b] = streak[b]
      OBVIOUS
    <3>1. manual[a] \in Nat /\ b \in Actions
      BY <1>1 DEF TypeOK
    <3>2. b # a
      BY <2>1, <3>1
    <3> QED BY <1>5, <3>1, <3>2
  <2>4. FailuresCounted'
    BY <1>3, <2>3 DEF CountInv, FailuresCounted
  <2>5. \A q \in Tickers : todo'[q] \subseteq todo[q]
                           /\ (run'[q] = NoRun \/ (run[q] # NoRun /\ run'[q] = run[q]))
    BY <1>3, <1>4, <2>2
  <2>6. live' \cap deleted = {}
    BY <1>3 DEF TypeOK
  <2>7. SnapshotsInv'
    BY <1>3, <2>3, <2>5, <2>6, SnapshotsKept DEF CountInv
  <2> QED BY <2>4, <2>7 DEF CountInv
<1>8. CASE p \in Tickers
  <2>1. \A q \in Tickers : q = p
    BY <1>8 DEF OneKernel
  <2>2. \A s \in todo[p] : s.id # a /\ s.id \in Actions
    BY <1>1, <1>8 DEF CountInv, SnapshotsInv, TypeOK, Snapshot
  <2>3. \A s \in todo[p] : fails'[s.id] = fails[s.id]
    BY <1>5, <2>2
  <2>4. SnapshotsInv'
    BY <1>3, <1>4, <2>1, <2>3 DEF CountInv, SnapshotsInv
  <2>5. ASSUME a \in live, manual[a] = 0 PROVE fails'[a] = streak'[a]
    <3>1. run[p].fails = fails[a] /\ fails[a] = streak[a]
      BY <1>1, <1>8, <2>5 DEF CountInv, SnapshotsInv, FailuresCounted
    <3>2. fails'[a] = NewFails(run[p])
          /\ streak'[a] = IF run[p].outcome = "failure" THEN streak[a] + 1 ELSE 0
      BY <1>1, <2>5 DEF Record, TypeOK
    <3> QED BY <3>1, <3>2 DEF NewFails
  <2>6. FailuresCounted'
    <3> SUFFICES ASSUME NEW b \in live, manual[b] = 0 PROVE fails'[b] = streak'[b]
      BY <1>3 DEF FailuresCounted
    <3>1. CASE b = a
      BY <3>1, <2>5
    <3>2. CASE b # a
      BY <3>2, <1>5 DEF CountInv, FailuresCounted, TypeOK
    <3> QED BY <3>1, <3>2
  <2> QED BY <2>4, <2>6 DEF CountInv
<1> QED BY <1>7, <1>8 DEF Procs

LEMMA CountStep ==
  ASSUME OneKernel, TypeOK, PastInv, CountInv, [Next]_vars
  PROVE  CountInv'
<1>0. \A q \in Tickers : q \in Procs /\ q \notin Firers
  BY SchedulerAssumption DEF Procs
<1>1. CASE UNCHANGED vars
  BY <1>1 DEF CountInv, SnapshotsInv, FailuresCounted
<1>2. ASSUME NEW p \in Tickers, Select(p) PROVE CountInv'
  BY <1>2, SelectCounted
<1>3. ASSUME NEW p \in Firers, NEW a \in Actions, FireNow(p, a) PROVE CountInv'
  <2>1. \A q \in Tickers : todo'[q] = todo[q] /\ run'[q] = run[q]
    BY <1>0, <1>3 DEF FireNow, TypeOK
  <2>2. \A b \in Actions : manual'[b] = 0 => manual[b] = 0
    BY <1>3 DEF FireNow, TypeOK
  <2>3. UNCHANGED <<live, deleted, fails, streak>>
    BY <1>3 DEF FireNow
  <2>4. live' \cap deleted = {}
    BY <2>3 DEF TypeOK
  <2>5. SnapshotsInv'
    BY <2>1, <2>2, <2>3, <2>4, SnapshotsKept DEF CountInv
  <2>6. FailuresCounted'
    BY <2>2, <2>3 DEF CountInv, FailuresCounted, TypeOK
  <2> QED BY <2>5, <2>6 DEF CountInv
<1>4. ASSUME NEW p \in Procs, Begin(p) PROVE CountInv'
  BY <1>4, BeginCounted
<1>5. ASSUME NEW p \in Procs, Record(p) PROVE CountInv'
  BY <1>5, RecordCounted
<1>6. ASSUME NEW p \in Procs, Execute(p) \/ RecordFails(p) \/ Crash(p)
      PROVE  CountInv'
  <2>1. UNCHANGED <<live, deleted, fails, streak, manual>>
    BY <1>6 DEF Execute, RecordFails, Crash, Lose
  <2>2. \A q \in Procs : todo'[q] \subseteq todo[q]
    BY <1>6 DEF Execute, RecordFails, Crash, TypeOK
  <2>3. \A q \in Procs : run'[q] = NoRun \/ (run[q] # NoRun /\ run'[q].id = run[q].id /\ run'[q].fails = run[q].fails)
    <3>1. CASE Execute(p)
      <4>1. run[p] \in Run /\ run[p] # NoRun
        BY <3>1 DEF Execute, TypeOK
      <4>2. PICK o : run' = [run EXCEPT ![p].outcome = o]
        BY <3>1 DEF Execute
      <4>3. run'[p] = [run[p] EXCEPT !.outcome = o] /\ \A q \in Procs : q # p => run'[q] = run[q]
        BY <4>2 DEF TypeOK
      <4>4. run'[p].id = run[p].id /\ run'[p].fails = run[p].fails
        BY <4>1, <4>3 DEF Run
      <4> QED BY <4>1, <4>3, <4>4
    <3>2. CASE RecordFails(p) \/ Crash(p)
      BY <3>2 DEF RecordFails, Crash, Lose, TypeOK
    <3> QED BY <1>6, <3>1, <3>2
  <2>4. live' \cap deleted = {}
    BY <2>1 DEF TypeOK
  <2>5. \A q \in Tickers :
          /\ todo'[q] \subseteq todo[q]
          /\ run'[q] = NoRun \/ (run[q] # NoRun /\ run'[q].id = run[q].id /\ run'[q].fails = run[q].fails)
    BY <1>0, <2>2, <2>3
  <2>6. /\ \A b \in Actions : manual'[b] = 0 => manual[b] = 0
        /\ \A b \in live : b \in live' /\ manual'[b] = 0 => fails'[b] = fails[b]
    BY <2>1
  <2>7. SnapshotsInv'
    BY <2>4, <2>5, <2>6, SnapshotsKept DEF CountInv
  <2> QED BY <2>1, <2>7 DEF CountInv, FailuresCounted
<1>7. ASSUME NEW a \in Actions, Register(a) \/ Disable(a) \/ Enable(a) \/ Delete(a)
      PROVE  CountInv'
  <2>1. UNCHANGED <<todo, run, fails, streak>>
    BY <1>7 DEF Register, Disable, Enable, Delete
  <2>2. \A b \in Actions : manual'[b] = 0 => manual[b] = 0
    BY <1>7 DEF Register, Disable, Enable, Delete, TypeOK
  <2>3. live' \cap deleted = {}
    BY <1>7 DEF Register, Disable, Enable, Delete, TypeOK
  <2>4. \A b \in live' : b \in live \/ (fails[b] = 0 /\ streak[b] = 0)
    BY <1>7 DEF Register, Disable, Enable, Delete, PastInv, TypeOK
  <2>5. SnapshotsInv'
    BY <2>1, <2>2, <2>3, SnapshotsKept DEF CountInv
  <2>6. live' \subseteq Actions
    BY <1>7 DEF Register, Disable, Enable, Delete, TypeOK
  <2>7. FailuresCounted'
    BY <2>1, <2>2, <2>4, <2>6 DEF CountInv, FailuresCounted
  <2> QED BY <2>5, <2>7 DEF CountInv
<1>8. CASE Advance
  BY <1>8 DEF Advance, CountInv, SnapshotsInv, FailuresCounted
<1> QED BY <1>1, <1>2, <1>3, <1>4, <1>5, <1>6, <1>7, <1>8 DEF Next, Work

-----------------------------------------------------------------------------
(* The rows that read 'running'.                                             *)

RunsOf(a) == {p \in Procs : run[p] # NoRun /\ run[p].id = a}

RowsInv ==
  \A a \in Actions :
    a \in live \/ a \notin deleted => rows[a] = Cardinality(RunsOf(a)) + lost[a]

LEMMA RunsOfFinite ==
  ASSUME NEW a
  PROVE  IsFiniteSet(RunsOf(a)) /\ Cardinality(RunsOf(a)) \in Nat
<1>1. IsFiniteSet(Procs) /\ RunsOf(a) \subseteq Procs
  BY SchedulerAssumption DEF RunsOf
<1>2. IsFiniteSet(RunsOf(a))
  BY <1>1, FS_Subset
<1> QED BY <1>2, FS_CardinalityType

\* A process that comes into a run, and one that leaves it.
LEMMA RunsOfJoin ==
  ASSUME TypeOK, NEW p \in Procs, run[p] = NoRun, NEW r \in Run,
         run' = [run EXCEPT ![p] = r]
  PROVE  /\ Cardinality(RunsOf(r.id)') = Cardinality(RunsOf(r.id)) + 1
         /\ \A a \in Actions : a # r.id => RunsOf(a)' = RunsOf(a)
<1>1. run'[p] = r /\ \A q \in Procs : q # p => run'[q] = run[q]
  BY DEF TypeOK
<1>2. r # NoRun
  BY NoRunAssumption
<1>3. RunsOf(r.id)' = RunsOf(r.id) \cup {p} /\ p \notin RunsOf(r.id)
  BY <1>1, <1>2 DEF RunsOf
<1>4. \A a \in Actions : a # r.id => RunsOf(a)' = RunsOf(a)
  BY <1>1, <1>2 DEF RunsOf
<1> QED BY <1>3, <1>4, RunsOfFinite, FS_AddElement

LEMMA RunsOfLeave ==
  ASSUME TypeOK, NEW p \in Procs, NEW b \in Actions, run[p] # NoRun, run[p].id = b,
         run' = [run EXCEPT ![p] = NoRun]
  PROVE  /\ Cardinality(RunsOf(b)') = Cardinality(RunsOf(b)) - 1
         /\ \A a \in Actions : a # b => RunsOf(a)' = RunsOf(a)
<1>1. run'[p] = NoRun /\ \A q \in Procs : q # p => run'[q] = run[q]
  BY DEF TypeOK
<1>2. RunsOf(b)' = RunsOf(b) \ {p} /\ p \in RunsOf(b)
  BY <1>1 DEF RunsOf
<1>3. \A a \in Actions : a # b => RunsOf(a)' = RunsOf(a)
  BY <1>1 DEF RunsOf
<1>4. Cardinality(RunsOf(b) \ {p}) = Cardinality(RunsOf(b)) - 1
  BY <1>2, RunsOfFinite, FS_RemoveElement
<1> QED BY <1>2, <1>3, <1>4

LEMMA RowsStep ==
  ASSUME TypeOK, PastInv, RowsInv, [Next]_vars
  PROVE  RowsInv'
<1>0. \A a \in Actions : Cardinality(RunsOf(a)) \in Nat /\ lost[a] \in Nat /\ rows[a] \in Int
  BY RunsOfFinite DEF TypeOK
<1>1. ASSUME UNCHANGED <<live, deleted, rows, run, lost>> PROVE RowsInv'
  BY <1>1 DEF RowsInv, RunsOf
<1>2. CASE UNCHANGED vars \/ Advance \/ (\E p \in Tickers : Select(p))
           \/ (\E p \in Firers, a \in Actions : FireNow(p, a))
  BY <1>1, <1>2 DEF Advance, Select, FireNow
<1>3. ASSUME NEW p \in Procs, Begin(p) PROVE RowsInv'
  <2>1. PICK s \in todo[p] :
          IF s.id \in live
          THEN /\ run' = [run EXCEPT ![p] = [id |-> s.id, fails |-> s.fails,
                                             started |-> clock,
                                             outcome |-> "running"]]
               /\ rows' = [rows EXCEPT ![s.id] = @ + 1]
          ELSE UNCHANGED <<run, rows>>
    BY <1>3 DEF Begin
  <2>2. UNCHANGED <<live, deleted, lost>> /\ run[p] = NoRun
    BY <1>3 DEF Begin
  <2>3. CASE s.id \in live
    <3> DEFINE r == [id |-> s.id, fails |-> s.fails, started |-> clock, outcome |-> "running"]
    <3>1. s.id \in Actions /\ r \in Run
      BY DEF TypeOK, Snapshot, Run, Outcomes
    <3>2. run' = [run EXCEPT ![p] = r] /\ rows' = [rows EXCEPT ![s.id] = @ + 1]
      BY <2>1, <2>3
    <3>3. r.id = s.id
      OBVIOUS
    <3> HIDE DEF r
    <3>4. Cardinality(RunsOf(s.id)') = Cardinality(RunsOf(s.id)) + 1
          /\ \A a \in Actions : a # s.id => RunsOf(a)' = RunsOf(a)
      BY <2>2, <3>1, <3>2, <3>3, RunsOfJoin
    <3>5. rows'[s.id] = rows[s.id] + 1
          /\ \A a \in Actions : a # s.id => rows'[a] = rows[a]
      BY <3>1, <3>2 DEF TypeOK
    <3> QED BY <1>0, <2>2, <2>3, <3>1, <3>4, <3>5 DEF RowsInv
  <2>4. CASE s.id \notin live
    BY <1>1, <2>1, <2>2, <2>4
  <2> QED BY <2>3, <2>4
<1>4. ASSUME NEW p \in Procs, Execute(p) PROVE RowsInv'
  <2>1. UNCHANGED <<live, deleted, lost, rows>> /\ run[p] \in Run /\ run[p] # NoRun
    BY <1>4 DEF Execute, TypeOK
  <2>2. PICK o \in Outcomes : run' = [run EXCEPT ![p].outcome = o]
    BY <1>4 DEF Execute, Outcomes
  <2>3. run'[p] \in Run /\ run'[p].id = run[p].id
        /\ \A q \in Procs : q # p => run'[q] = run[q]
    BY <2>1, <2>2 DEF TypeOK, Run
  <2>4. run'[p] # NoRun
    BY <2>3, NoRunAssumption
  <2>5. \A a \in Actions : RunsOf(a)' = RunsOf(a)
    BY <2>1, <2>3, <2>4 DEF RunsOf
  <2> QED BY <2>1, <2>5 DEF RowsInv
<1>5. ASSUME NEW p \in Procs, Record(p) \/ RecordFails(p) \/ Crash(p), run[p] # NoRun
      PROVE  RowsInv'
  <2>1. PICK b \in Actions : run[p].id = b
    BY <1>5 DEF TypeOK, Run
  <2>2. run' = [run EXCEPT ![p] = NoRun] /\ UNCHANGED <<live, deleted>>
    BY <1>5 DEF Record, RecordFails, Crash, Lose
  <2>3. Cardinality(RunsOf(b)') = Cardinality(RunsOf(b)) - 1
        /\ \A a \in Actions : a # b => RunsOf(a)' = RunsOf(a)
    BY <1>5, <2>1, <2>2, RunsOfLeave
  <2>4. \A a \in Actions : a # b => rows'[a] = rows[a] /\ lost'[a] = lost[a]
    BY <1>5, <2>1 DEF Record, RecordFails, Crash, Lose, TypeOK
  <2>5. b \in live => rows'[b] - lost'[b] = rows[b] - lost[b] - 1
    <3>1. CASE Record(p)
      BY <1>0, <2>1, <3>1 DEF Record, TypeOK
    <3>2. CASE RecordFails(p) \/ Crash(p)
      BY <1>0, <1>5, <2>1, <3>2 DEF RecordFails, Crash, Lose, TypeOK
    <3> QED BY <1>5, <3>1, <3>2
  <2>6. b \in live => rows'[b] \in Int /\ lost'[b] \in Int
    <3>1. CASE Record(p)
      BY <1>0, <2>1, <3>1 DEF Record, TypeOK
    <3>2. CASE RecordFails(p) \/ Crash(p)
      BY <1>0, <1>5, <2>1, <3>2 DEF RecordFails, Crash, Lose, TypeOK
    <3> QED BY <1>5, <3>1, <3>2
  <2>7. b \in live \cup deleted
    <3>1. Holds(p, b)
      BY <1>5, <2>1 DEF Holds
    <3> QED BY <2>1, <3>1 DEF PastInv
  <2>8. b \in live => b \notin deleted /\ rows[b] = Cardinality(RunsOf(b)) + lost[b]
    BY <2>1 DEF RowsInv, TypeOK
  <2>9. b \in live => rows'[b] = Cardinality(RunsOf(b)') + lost'[b]
    BY <1>0, <2>1, <2>3, <2>5, <2>6, <2>8
  <2>10. \A a \in Actions : a # b /\ (a \in live \/ a \notin deleted)
            => rows'[a] = Cardinality(RunsOf(a)') + lost'[a]
    BY <2>3, <2>4 DEF RowsInv
  <2>11. b \in live \/ b \notin deleted => b \in live
    BY <2>7
  <2> QED BY <2>2, <2>9, <2>10, <2>11 DEF RowsInv
<1>6. ASSUME NEW p \in Procs, RecordFails(p) \/ Crash(p), run[p] = NoRun
      PROVE  RowsInv'
  <2>1. run' = run
    BY <1>6 DEF RecordFails, Crash, Lose, TypeOK
  <2> QED BY <1>1, <1>6, <2>1 DEF RecordFails, Crash, Lose
<1>7. ASSUME NEW a \in Actions, Register(a) \/ Disable(a) \/ Enable(a) PROVE RowsInv'
  BY <1>7 DEF Register, Disable, Enable, RowsInv, RunsOf
<1>8. ASSUME NEW a \in Actions, Delete(a) PROVE RowsInv'
  BY <1>8 DEF Delete, RowsInv, RunsOf, TypeOK
<1> QED BY <1>2, <1>3, <1>4, <1>5, <1>6, <1>7, <1>8 DEF Next, Work, Record

-----------------------------------------------------------------------------
(* The deliveries of a one-shot.  Each of them is paid for: by the action    *)
(* being enabled or held by the kernel, by a call of fire_now, by a run that *)
(* was lost or by a call of enable_action.  A run that succeeded and is not  *)
(* recorded yet pays for nothing: its record will disable the action.        *)

Pending(p, a) ==
  \/ \E s \in todo[p] : s.id = a
  \/ run[p] # NoRun /\ run[p].id = a /\ run[p].outcome \in {"running", "failure"}

Ready(a) == a \in live /\ enabled[a] /\ \A p \in Tickers : run[p] = NoRun \/ run[p].id # a

ByKernel(a) == IF (\E p \in Tickers : Pending(p, a)) \/ Ready(a) THEN 1 ELSE 0

Hands(a) == {p \in Firers : Pending(p, a)}

PaidInv ==
  \A a \in Oneshots :
    delivered[a] + ByKernel(a) + Cardinality(Hands(a)) <= 1 + lost[a] + manual[a]

\* fire_now works on one row.
FirerInv ==
  \A p \in Firers : /\ \A s, t \in todo[p] : s = t
                    /\ run[p] # NoRun => todo[p] = {}

LEMMA FirerStep ==
  ASSUME TypeOK, FirerInv, [Next]_vars
  PROVE  FirerInv'
<1>0. \A q \in Firers : q \in Procs /\ q \notin Tickers
  BY SchedulerAssumption DEF Procs
<1>1. ASSUME \A q \in Firers : /\ todo'[q] \subseteq todo[q]
                               /\ run'[q] = NoRun \/ run[q] # NoRun
      PROVE  FirerInv'
  BY <1>1 DEF FirerInv
<1>2. ASSUME UNCHANGED <<todo, run>> PROVE FirerInv'
  BY <1>2, <1>1
<1>3. ASSUME NEW p \in Tickers, Select(p) PROVE FirerInv'
  BY <1>0, <1>1, <1>3 DEF Select, TypeOK
<1>4. ASSUME NEW p \in Firers, NEW a \in Actions, FireNow(p, a) PROVE FirerInv'
  BY <1>0, <1>4 DEF FireNow, Idle, FirerInv, TypeOK
<1>5. ASSUME NEW p \in Procs, Begin(p) PROVE FirerInv'
  <2>1. PICK s \in todo[p] : todo' = [todo EXCEPT ![p] = @ \ {s}]
    BY <1>5 DEF Begin
  <2>2. todo'[p] = todo[p] \ {s} /\ \A q \in Procs : q # p => todo'[q] = todo[q]
    BY <2>1 DEF TypeOK
  <2>3. \A q \in Procs : q # p => run'[q] = run[q]
    BY <1>5 DEF Begin, TypeOK
  <2> QED BY <1>0, <2>2, <2>3 DEF FirerInv
<1>6. ASSUME NEW p \in Procs, Execute(p) \/ Record(p) \/ RecordFails(p) \/ Crash(p)
      PROVE  FirerInv'
  <2>1. \A q \in Firers : todo'[q] \subseteq todo[q]
    BY <1>0, <1>6 DEF Execute, Record, RecordFails, Crash, TypeOK
  <2>2. \A q \in Firers : run'[q] = NoRun \/ run[q] # NoRun
    BY <1>0, <1>6 DEF Execute, Record, RecordFails, Crash, Lose, TypeOK
  <2> QED BY <1>1, <2>1, <2>2
<1>7. ASSUME NEW a \in Actions, Register(a) \/ Disable(a) \/ Enable(a) \/ Delete(a)
      PROVE  FirerInv'
  BY <1>2, <1>7 DEF Register, Disable, Enable, Delete
<1>8. CASE Advance \/ UNCHANGED vars
  BY <1>2, <1>8 DEF Advance
<1> QED BY <1>3, <1>4, <1>5, <1>6, <1>7, <1>8 DEF Next, Work

LEMMA FirersFinite ==
  \A S \in SUBSET Firers : IsFiniteSet(S) /\ Cardinality(S) \in Nat
<1> SUFFICES ASSUME NEW S \in SUBSET Firers PROVE IsFiniteSet(S) /\ Cardinality(S) \in Nat
  OBVIOUS
<1>1. IsFiniteSet(Firers)
  <2>1. Firers \subseteq Procs /\ IsFiniteSet(Procs)
    BY SchedulerAssumption DEF Procs
  <2> QED BY <2>1, FS_Subset
<1>2. IsFiniteSet(S)
  BY <1>1, FS_Subset
<1> QED BY <1>2, FS_CardinalityType

LEMMA HandsFinite ==
  \A a : IsFiniteSet(Hands(a)) /\ Cardinality(Hands(a)) \in Nat
BY FirersFinite DEF Hands

\* Hands that let go of an action are fewer; one more counts for one.
LEMMA FewerHands ==
  ASSUME NEW a, \A q \in Firers : Pending(q, a)' => Pending(q, a)
  PROVE  Cardinality(Hands(a)') <= Cardinality(Hands(a))
<1>1. Hands(a)' \subseteq Hands(a)
  BY DEF Hands
<1> QED BY <1>1, HandsFinite, FS_Subset

LEMMA OneHandLess ==
  ASSUME NEW a, NEW p \in Firers, Pending(p, a), ~Pending(p, a)',
         \A q \in Firers : Pending(q, a)' => Pending(q, a)
  PROVE  Cardinality(Hands(a)') <= Cardinality(Hands(a)) - 1
<1>1. Hands(a)' \subseteq Hands(a) \ {p} /\ p \in Hands(a)
  BY DEF Hands
<1>2. IsFiniteSet(Hands(a) \ {p}) /\ Cardinality(Hands(a) \ {p}) = Cardinality(Hands(a)) - 1
  BY <1>1, HandsFinite, FS_RemoveElement
<1>3. Cardinality(Hands(a)') <= Cardinality(Hands(a) \ {p})
  BY <1>1, <1>2, FS_Subset
<1> QED BY <1>2, <1>3

LEMMA OneHandMore ==
  ASSUME NEW a, NEW p, \A q \in Firers : Pending(q, a)' => q = p \/ Pending(q, a)
  PROVE  Cardinality(Hands(a)') <= Cardinality(Hands(a)) + 1
<1>1. Hands(a)' \subseteq Hands(a) \cup {p}
  BY DEF Hands
<1>2. IsFiniteSet(Hands(a) \cup {p}) /\ Cardinality(Hands(a) \cup {p}) <= Cardinality(Hands(a)) + 1
  BY HandsFinite, FS_AddElement
<1>3. Cardinality(Hands(a)') <= Cardinality(Hands(a) \cup {p})
  BY <1>1, <1>2, FS_Subset
<1>4. Cardinality(Hands(a) \cup {p}) \in Nat /\ Cardinality(Hands(a)) \in Nat
  BY <1>2, HandsFinite, FS_CardinalityType
<1>5. Cardinality(Hands(a)') \in Nat
  <2>1. IsFiniteSet(Hands(a)')
    BY <1>1, <1>2, FS_Subset
  <2> QED BY <2>1, FS_CardinalityType
<1> QED BY <1>2, <1>3, <1>4, <1>5

Paid(a) == delivered[a] + ByKernel(a) + Cardinality(Hands(a)) <= 1 + lost[a] + manual[a]

LEMMA PaidTypes ==
  ASSUME TypeOK, NEW a \in Actions
  PROVE  /\ delivered[a] \in Nat /\ lost[a] \in Nat /\ manual[a] \in Nat
         /\ Cardinality(Hands(a)) \in Nat /\ Cardinality(Hands(a)') \in Nat
         /\ ByKernel(a) \in {0, 1} /\ ByKernel(a)' \in {0, 1}
<1>1. Cardinality(Hands(a)) \in Nat
  BY HandsFinite
<1>2. Cardinality(Hands(a)') \in Nat
  <2>1. Hands(a)' \in SUBSET Firers
    BY DEF Hands
  <2> QED BY <2>1, FirersFinite
<1> QED BY <1>1, <1>2 DEF TypeOK, ByKernel

LEMMA KernelKept ==
  ASSUME NEW a,
         \A q \in Tickers : Pending(q, a)' => (\E r \in Tickers : Pending(r, a)) \/ Ready(a),
         Ready(a)' => (\E r \in Tickers : Pending(r, a)) \/ Ready(a)
  PROVE  ByKernel(a)' <= ByKernel(a)
BY DEF ByKernel

\* A step that hands out nothing, or pays for what it hands out.
LEMMA PaidForNothing ==
  ASSUME TypeOK, TypeOK', NEW a \in Actions, Paid(a),
         delivered'[a] = delivered[a], lost'[a] >= lost[a], manual'[a] >= manual[a],
         Cardinality(Hands(a)') <= Cardinality(Hands(a)), ByKernel(a)' <= ByKernel(a)
  PROVE  Paid(a)'
<1>1. delivered'[a] \in Nat /\ lost'[a] \in Nat /\ manual'[a] \in Nat
  BY DEF TypeOK
<1> QED BY <1>1, PaidTypes DEF Paid

\* The processes other than the one that moves.
LEMMA OthersPending ==
  ASSUME TypeOK, NEW p \in Procs, Work(p) \/ RecordFails(p) \/ Crash(p),
         NEW q \in Procs, q # p, NEW a
  PROVE  todo'[q] = todo[q] /\ run'[q] = run[q] /\ (Pending(q, a)' <=> Pending(q, a))
<1>1. todo'[q] = todo[q]
  BY DEF Work, Begin, Execute, Record, RecordFails, Crash, TypeOK
<1>2. run'[q] = run[q]
  BY DEF Work, Begin, Execute, Record, RecordFails, Crash, Lose, TypeOK
<1> QED BY <1>1, <1>2 DEF Pending

\* The kernel selects what is ready.
LEMMA SelectPaid ==
  ASSUME OneKernel, TypeOK, TypeOK', NEW a \in Oneshots, Paid(a), NEW p \in Tickers, Select(p)
  PROVE  Paid(a)'
<1>0. a \in Actions /\ p \in Procs /\ p \notin Firers /\ \A q \in Firers : q \in Procs
  BY SchedulerAssumption DEF Procs
<1>1. PICK S \in SUBSET {b \in Actions : Due(b)} :
        todo' = [todo EXCEPT ![p] = {Row(b) : b \in S}]
  BY DEF Select
<1>2. run[p] = NoRun /\ UNCHANGED <<run, live, enabled, delivered, lost, manual>>
  BY DEF Select, Idle
<1>3. todo'[p] = {Row(b) : b \in S} /\ \A q \in Procs : q # p => todo'[q] = todo[q]
  BY <1>0, <1>1 DEF TypeOK
<1>4. Pending(p, a)' => Ready(a)
  <2>1. \A q \in Tickers : q = p
    BY DEF OneKernel
  <2>2. Pending(p, a)' => a \in S
    BY <1>2, <1>3 DEF Pending, Row
  <2> QED BY <1>2, <2>1, <2>2 DEF Ready, Due
<1>5. ByKernel(a)' <= ByKernel(a)
  <2>1. \A q \in Tickers : q = p
    BY DEF OneKernel
  <2>2. Ready(a)' => Ready(a)
    BY <1>2 DEF Ready
  <2> QED BY <1>4, <2>1, <2>2, KernelKept
<1>6. \A q \in Firers : Pending(q, a)' => Pending(q, a)
  BY <1>0, <1>2, <1>3 DEF Pending
<1>7. Cardinality(Hands(a)') <= Cardinality(Hands(a))
  BY <1>6, FewerHands
<1>8. lost[a] \in Nat /\ manual[a] \in Nat
  BY <1>0 DEF TypeOK
<1> QED BY <1>0, <1>2, <1>5, <1>7, <1>8, PaidForNothing

\* A call of fire_now pays for one delivery.
LEMMA FirePaid ==
  ASSUME TypeOK, TypeOK', NEW a \in Oneshots, Paid(a),
         NEW p \in Firers, NEW b \in Actions, FireNow(p, b)
  PROVE  Paid(a)'
<1>0. a \in Actions /\ p \in Procs /\ \A q \in Tickers : q \in Procs /\ q # p
  BY SchedulerAssumption DEF Procs
<1>1. todo'[p] = {Row(b)} /\ \A q \in Procs : q # p => todo'[q] = todo[q]
  BY <1>0 DEF FireNow, TypeOK
<1>2. run[p] = NoRun /\ UNCHANGED <<run, live, enabled, delivered, lost>>
  BY DEF FireNow, Idle
<1>3. \A q \in Tickers : Pending(q, a)' <=> Pending(q, a)
  BY <1>0, <1>1, <1>2 DEF Pending
<1>4. ByKernel(a)' <= ByKernel(a)
  <2>1. Ready(a)' => Ready(a)
    BY <1>2 DEF Ready
  <2> QED BY <1>3, <2>1, KernelKept
<1>5. \A q \in Firers : q # p => (Pending(q, a)' <=> Pending(q, a))
  BY <1>1, <1>2 DEF Pending, Procs
<1>6. Pending(p, a)' => b = a
  BY <1>1, <1>2 DEF Pending, Row
<1>7. lost[a] \in Nat /\ manual[a] \in Nat /\ delivered[a] \in Nat /\ manual'[a] \in Nat
  BY <1>0 DEF TypeOK
<1>8. CASE b = a
  <2>1. manual'[a] = manual[a] + 1
    BY <1>0, <1>8 DEF FireNow, TypeOK
  <2>2. Cardinality(Hands(a)') <= Cardinality(Hands(a)) + 1
    BY <1>5, OneHandMore
  <2> QED BY <1>0, <1>2, <1>4, <1>7, <2>1, <2>2, PaidTypes DEF Paid
<1>9. CASE b # a
  <2>1. manual'[a] = manual[a]
    BY <1>0, <1>9 DEF FireNow, TypeOK
  <2>2. Cardinality(Hands(a)') <= Cardinality(Hands(a))
    BY <1>5, <1>6, <1>9, FewerHands
  <2> QED BY <1>0, <1>2, <1>4, <1>7, <2>1, <2>2, PaidForNothing
<1> QED BY <1>8, <1>9

\* Beginning a run hands out nothing new.
LEMMA BeginPaid ==
  ASSUME TypeOK, TypeOK', NEW a \in Oneshots, Paid(a), NEW p \in Procs, Begin(p)
  PROVE  Paid(a)'
<1>0. a \in Actions /\ (\A q \in Firers : q \in Procs) /\ (\A q \in Tickers : q \in Procs)
  BY SchedulerAssumption DEF Procs
<1>1. PICK s \in todo[p] :
        /\ todo' = [todo EXCEPT ![p] = @ \ {s}]
        /\ IF s.id \in live
           THEN /\ run' = [run EXCEPT ![p] = [id |-> s.id, fails |-> s.fails,
                                              started |-> clock,
                                              outcome |-> "running"]]
                /\ rows' = [rows EXCEPT ![s.id] = @ + 1]
           ELSE UNCHANGED <<run, rows>>
  BY DEF Begin
<1>2. todo'[p] = todo[p] \ {s} /\ run[p] = NoRun
  BY <1>1 DEF Begin, TypeOK
<1>3. run'[p] # NoRun => run'[p].id = s.id
  BY <1>1, <1>2 DEF TypeOK
<1>4. Pending(p, a)' => Pending(p, a)
  BY <1>2, <1>3 DEF Pending
<1>5. \A q \in Procs : Pending(q, a)' => Pending(q, a)
  BY <1>4, OthersPending DEF Work
<1>6. UNCHANGED <<live, enabled, delivered, lost, manual>>
  BY DEF Begin
<1>7. Ready(a)' => Ready(a)
  <2> SUFFICES ASSUME Ready(a)', NEW q \in Tickers PROVE run[q] = NoRun \/ run[q].id # a
    BY <1>6 DEF Ready
  <2>1. CASE q = p
    BY <1>2, <2>1
  <2>2. CASE q # p
    <3>1. run'[q] = run[q]
      BY <1>0, <2>2, OthersPending DEF Work
    <3> QED BY <3>1 DEF Ready
  <2> QED BY <2>1, <2>2
<1>8. ByKernel(a)' <= ByKernel(a)
  BY <1>0, <1>5, <1>7, KernelKept
<1>9. Cardinality(Hands(a)') <= Cardinality(Hands(a))
  BY <1>0, <1>5, FewerHands
<1>10. lost[a] \in Nat /\ manual[a] \in Nat
  BY <1>0 DEF TypeOK
<1> QED BY <1>0, <1>6, <1>8, <1>9, <1>10, PaidForNothing

\* A delivery is paid for by the run that makes it, which pays for no other.
LEMMA ExecutePaid ==
  ASSUME OneKernel, TypeOK, TypeOK', SnapshotsInv, FirerInv,
         NEW a \in Oneshots, Paid(a), NEW p \in Procs, Execute(p)
  PROVE  Paid(a)'
<1>0. a \in Actions /\ (\A q \in Firers : q \in Procs /\ q \notin Tickers)
      /\ (\A q \in Tickers : q \in Procs /\ q \notin Firers)
  BY SchedulerAssumption DEF Procs
<1>1. run[p] \in Run /\ run[p] # NoRun /\ run[p].outcome = "running"
  BY DEF Execute, TypeOK
<1>2. PICK o \in HandlerOutcomes \cup {"skipped"} :
        /\ run' = [run EXCEPT ![p].outcome = o]
        /\ delivered' = IF o = "success" /\ run[p].id \in Oneshots
                        THEN [delivered EXCEPT ![run[p].id] = @ + 1] ELSE delivered
  BY DEF Execute
<1>3. run'[p] \in Run /\ run'[p].id = run[p].id /\ run'[p].outcome = o
      /\ \A q \in Procs : q # p => run'[q] = run[q]
  BY <1>1, <1>2 DEF TypeOK, Run, Outcomes
<1>4. run'[p] # NoRun
  BY <1>3, NoRunAssumption
<1>5. UNCHANGED <<todo, live, enabled, lost, manual>>
  BY DEF Execute
<1>6. Pending(p, a)' => Pending(p, a)
  BY <1>1, <1>3, <1>4, <1>5 DEF Pending
<1>7. \A q \in Procs : Pending(q, a)' => Pending(q, a)
  BY <1>6, OthersPending DEF Work
<1>8. Ready(a)' => Ready(a)
  BY <1>0, <1>1, <1>3, <1>4, <1>5 DEF Ready
<1>9. delivered[a] \in Nat /\ lost[a] \in Nat /\ manual[a] \in Nat
  BY <1>0 DEF TypeOK
<1>10. Cardinality(Hands(a)') <= Cardinality(Hands(a)) /\ ByKernel(a)' <= ByKernel(a)
  BY <1>0, <1>7, <1>8, FewerHands, KernelKept
<1>11. CASE run[p].id = a /\ o = "success"
  <2>1. delivered'[a] = delivered[a] + 1
    BY <1>0, <1>2, <1>11 DEF TypeOK
  <2>2. Pending(p, a)
    BY <1>1, <1>11 DEF Pending
  <2>3. \A s \in todo[p] : s.id # a
    BY <1>1, <1>11 DEF SnapshotsInv, FirerInv, Procs
  <2>4. ~Pending(p, a)'
    BY <1>3, <1>5, <1>11, <2>3 DEF Pending
  <2>5. CASE p \in Firers
    <3>1. Cardinality(Hands(a)') <= Cardinality(Hands(a)) - 1
      BY <1>0, <1>7, <2>2, <2>4, <2>5, OneHandLess
    <3> QED BY <1>0, <1>5, <1>9, <1>10, <2>1, <3>1, PaidTypes DEF Paid
  <2>6. CASE p \in Tickers
    <3>1. \A q \in Tickers : q = p
      BY <2>6 DEF OneKernel
    <3>2. ~Ready(a)'
      BY <1>3, <1>4, <1>11, <2>6 DEF Ready
    <3>3. ByKernel(a) = 1 /\ ByKernel(a)' = 0
      BY <2>2, <2>4, <2>6, <3>1, <3>2 DEF ByKernel
    <3> QED BY <1>0, <1>5, <1>9, <1>10, <2>1, <3>3, PaidTypes DEF Paid
  <2> QED BY <2>5, <2>6 DEF Procs
<1>12. CASE ~(run[p].id = a /\ o = "success")
  <2>1. delivered'[a] = delivered[a]
    BY <1>0, <1>1, <1>2, <1>12 DEF TypeOK, Run
  <2> QED BY <1>0, <1>5, <1>9, <1>10, <2>1, PaidForNothing
<1> QED BY <1>11, <1>12

\* The record of a failure passes the payment on to the row, any other record
\* disables the one-shot.
LEMMA RecordPaid ==
  ASSUME OneKernel, TypeOK, TypeOK', SnapshotsInv, FirerInv,
         NEW a \in Oneshots, Paid(a), NEW p \in Procs, Record(p)
  PROVE  Paid(a)'
<1>0. a \in Actions /\ (\A q \in Firers : q \in Procs /\ q \notin Tickers)
      /\ (\A q \in Tickers : q \in Procs /\ q \notin Firers)
  BY SchedulerAssumption DEF Procs
<1>1. run[p] \in Run /\ run[p] # NoRun /\ run[p].outcome # "running"
  BY DEF Record, TypeOK
<1>2. run'[p] = NoRun /\ \A q \in Procs : q # p => run'[q] = run[q]
  BY DEF Record, TypeOK
<1>3. UNCHANGED <<todo, live, delivered, lost, manual>>
  BY DEF Record
<1>4. \A q \in Procs : Pending(q, a)' => Pending(q, a)
  BY <1>2, <1>3 DEF Pending
<1>5. delivered[a] \in Nat /\ lost[a] \in Nat /\ manual[a] \in Nat
  BY <1>0 DEF TypeOK
<1>6. Cardinality(Hands(a)') <= Cardinality(Hands(a))
  BY <1>0, <1>4, FewerHands
<1>7. CASE run[p].id # a
  <2>1. enabled'[a] = enabled[a]
    BY <1>0, <1>7 DEF Record, TypeOK
  <2>2. Ready(a)' => Ready(a)
    BY <1>0, <1>2, <1>3, <1>7, <2>1 DEF Ready
  <2>3. ByKernel(a)' <= ByKernel(a)
    BY <1>0, <1>4, <2>2, KernelKept
  <2> QED BY <1>0, <1>3, <1>5, <1>6, <2>3, PaidForNothing
<1>8. CASE run[p].id = a /\ run[p].outcome = "failure"
  <2>1. Pending(p, a)
    BY <1>1, <1>8 DEF Pending
  <2>2. CASE p \in Tickers
    <3>1. ByKernel(a) = 1
      BY <2>1, <2>2 DEF ByKernel
    <3>2. ByKernel(a)' <= ByKernel(a)
      BY <1>0, <3>1, PaidTypes
    <3> QED BY <1>0, <1>3, <1>5, <1>6, <3>2, PaidForNothing
  <2>3. CASE p \in Firers
    <3>1. \A s \in todo[p] : s.id # a
      BY <1>1, <2>3 DEF FirerInv
    <3>2. ~Pending(p, a)'
      BY <1>2, <1>3, <3>1 DEF Pending
    <3>3. Cardinality(Hands(a)') <= Cardinality(Hands(a)) - 1
      BY <1>0, <1>4, <2>1, <2>3, <3>2, OneHandLess
    <3> QED BY <1>0, <1>3, <1>5, <3>3, PaidTypes DEF Paid
  <2> QED BY <2>2, <2>3 DEF Procs
<1>9. CASE run[p].id = a /\ run[p].outcome # "failure"
  <2>1. ~StaysEnabled(run[p])
    BY <1>9 DEF StaysEnabled
  <2>2. a \in live => ~enabled'[a]
    BY <1>0, <1>9, <2>1 DEF Record, TypeOK
  <2>3. ~Ready(a)'
    BY <1>3, <2>2 DEF Ready
  <2>4. ByKernel(a)' <= ByKernel(a)
    BY <1>0, <1>4, <2>3, KernelKept
  <2> QED BY <1>0, <1>3, <1>5, <1>6, <2>4, PaidForNothing
<1> QED BY <1>7, <1>8, <1>9

\* A run that is lost may have left the one-shot enabled, and pays for it.
LEMMA LosePaid ==
  ASSUME TypeOK, TypeOK', NEW a \in Oneshots, Paid(a),
         NEW p \in Procs, RecordFails(p) \/ Crash(p)
  PROVE  Paid(a)'
<1>0. a \in Actions /\ (\A q \in Firers : q \in Procs) /\ (\A q \in Tickers : q \in Procs)
  BY SchedulerAssumption DEF Procs
<1>1. run'[p] = NoRun /\ todo'[p] \subseteq todo[p]
  BY DEF RecordFails, Crash, Lose, TypeOK
<1>2. \A q \in Procs : q # p => run'[q] = run[q]
  BY OthersPending
<1>3. UNCHANGED <<live, enabled, delivered, manual>>
  BY DEF RecordFails, Crash, Lose
<1>4. Pending(p, a)' => Pending(p, a)
  BY <1>1 DEF Pending
<1>5. \A q \in Procs : Pending(q, a)' => Pending(q, a)
  BY <1>4, OthersPending
<1>6. Cardinality(Hands(a)') <= Cardinality(Hands(a))
  BY <1>0, <1>5, FewerHands
<1>7. delivered[a] \in Nat /\ lost[a] \in Nat /\ manual[a] \in Nat
  BY <1>0 DEF TypeOK
<1>8. CASE run[p] # NoRun /\ run[p].id = a
  <2>1. lost'[a] = lost[a] + 1
    BY <1>0, <1>8 DEF RecordFails, Crash, Lose, TypeOK
  <2> QED BY <1>0, <1>3, <1>6, <1>7, <2>1, PaidTypes DEF Paid
<1>9. CASE ~(run[p] # NoRun /\ run[p].id = a)
  <2>1. lost'[a] = lost[a]
    BY <1>0, <1>9 DEF RecordFails, Crash, Lose, TypeOK, Run
  <2>2. Ready(a)' => Ready(a)
    BY <1>0, <1>2, <1>3, <1>9 DEF Ready
  <2>3. ByKernel(a)' <= ByKernel(a)
    BY <1>0, <1>5, <2>2, KernelKept
  <2> QED BY <1>0, <1>3, <1>6, <1>7, <2>1, <2>3, PaidForNothing
<1> QED BY <1>8, <1>9

\* A new one-shot has one delivery to its credit, enable_action pays for one.
LEMMA ApiPaid ==
  ASSUME TypeOK, TypeOK', PastInv, NEW a \in Oneshots, Paid(a), NEW b \in Actions,
         Register(b) \/ Disable(b) \/ Enable(b) \/ Delete(b)
  PROVE  Paid(a)'
<1>0. a \in Actions /\ (\A q \in Firers : q \in Procs) /\ (\A q \in Tickers : q \in Procs)
  BY SchedulerAssumption DEF Procs
<1>1. UNCHANGED <<todo, run, delivered, lost>>
  BY DEF Register, Disable, Enable, Delete
<1>2. \A q \in Procs : Pending(q, a)' <=> Pending(q, a)
  BY <1>1 DEF Pending
<1>3. Cardinality(Hands(a)') <= Cardinality(Hands(a))
  BY <1>0, <1>2, FewerHands
<1>4. delivered[a] \in Nat /\ lost[a] \in Nat /\ manual[a] \in Nat /\ manual'[a] \in Nat
  BY <1>0 DEF TypeOK
<1>5. CASE Register(b) /\ a = b
  <2>1. a \notin live \cup deleted /\ manual' = manual
    BY <1>5 DEF Register
  <2>2. delivered[a] = 0
    BY <1>0, <2>1 DEF PastInv
  <2>3. \A q \in Procs : ~Pending(q, a)
    <3>1. \A q \in Procs : Pending(q, a) => Holds(q, a)
      BY DEF Pending, Holds
    <3> QED BY <1>0, <2>1, <3>1 DEF PastInv
  <2>4. Hands(a)' = {}
    BY <1>0, <1>2, <2>3 DEF Hands
  <2>5. Cardinality(Hands(a)') = 0
    BY <2>4, FS_EmptySet
  <2> QED BY <1>0, <1>1, <1>4, <2>1, <2>2, <2>5, PaidTypes DEF Paid
<1>6. CASE Enable(b) /\ a = b
  <2>1. manual'[a] = manual[a] + 1
    BY <1>0, <1>6 DEF Enable, TypeOK
  <2> QED BY <1>0, <1>1, <1>3, <1>4, <2>1, PaidTypes DEF Paid
<1>7. CASE ~(Register(b) /\ a = b) /\ ~(Enable(b) /\ a = b)
  <2>1. manual'[a] >= manual[a] /\ (a \in live' => a \in live) /\ (enabled'[a] => enabled[a])
    BY <1>0, <1>7 DEF Register, Disable, Enable, Delete, TypeOK
  <2>2. Ready(a)' => Ready(a)
    BY <1>1, <2>1 DEF Ready
  <2>3. ByKernel(a)' <= ByKernel(a)
    BY <1>0, <1>2, <2>2, KernelKept
  <2> QED BY <1>0, <1>1, <1>3, <1>4, <2>1, <2>3, PaidForNothing
<1> QED BY <1>5, <1>6, <1>7

LEMMA PaidStep ==
  ASSUME OneKernel, TypeOK, TypeOK', PastInv, SnapshotsInv, FirerInv, PaidInv, [Next]_vars
  PROVE  PaidInv'
<1> SUFFICES ASSUME NEW a \in Oneshots PROVE Paid(a)'
  BY DEF PaidInv, Paid
<1>0. Paid(a) /\ a \in Actions
  BY SchedulerAssumption DEF PaidInv, Paid
<1>1. ASSUME UNCHANGED <<live, enabled, todo, run, delivered, lost, manual>> PROVE Paid(a)'
  <2>1. Hands(a)' = Hands(a) /\ (Ready(a)' <=> Ready(a))
        /\ (\A q : Pending(q, a)' <=> Pending(q, a))
    BY <1>1 DEF Hands, Ready, Pending
  <2> QED BY <1>0, <1>1, <2>1 DEF Paid, ByKernel
<1>2. CASE UNCHANGED vars \/ Advance
  BY <1>1, <1>2 DEF Advance
<1>3. CASE \E p \in Tickers : Select(p)
  BY <1>0, <1>3, SelectPaid
<1>4. CASE \E p \in Firers, b \in Actions : FireNow(p, b)
  BY <1>0, <1>4, FirePaid
<1>5. CASE \E p \in Procs : Work(p) \/ RecordFails(p) \/ Crash(p)
  BY <1>0, <1>5, BeginPaid, ExecutePaid, RecordPaid, LosePaid DEF Work
<1>6. CASE \E b \in Actions : Register(b) \/ Disable(b) \/ Enable(b) \/ Delete(b)
  BY <1>0, <1>6, ApiPaid
<1> QED BY <1>2, <1>3, <1>4, <1>5, <1>6 DEF Next

-----------------------------------------------------------------------------
BooksInv == PastInv /\ CountInv /\ RowsInv /\ FirerInv /\ PaidInv

LEMMA InitBooks == Init => BooksInv
<1> SUFFICES ASSUME Init PROVE BooksInv
  OBVIOUS
<1>1. \A p \in Procs : todo[p] = {} /\ run[p] = NoRun
  BY DEF Init
<1>2. live = {} /\ deleted = {} /\ \A a \in Actions :
        /\ fails[a] = 0 /\ streak[a] = 0 /\ delivered[a] = 0 /\ rows[a] = 0
        /\ lost[a] = 0 /\ manual[a] = 0
  BY DEF Init
<1>3. PastInv
  BY <1>1, <1>2 DEF PastInv, Holds, Procs
<1>4. CountInv /\ FirerInv
  BY <1>1, <1>2 DEF CountInv, SnapshotsInv, FailuresCounted, FirerInv, Procs
<1>5. RowsInv
  <2>1. \A a : RunsOf(a) = {}
    BY <1>1 DEF RunsOf
  <2> QED BY <1>2, <2>1, FS_EmptySet DEF RowsInv
<1>6. PaidInv
  <2>1. \A a : Hands(a) = {} /\ ByKernel(a) = 0
    BY <1>1, <1>2 DEF Hands, ByKernel, Pending, Ready, Procs
  <2>2. \A a \in Oneshots : a \in Actions
    BY SchedulerAssumption
  <2> QED BY <1>2, <2>1, <2>2, FS_EmptySet DEF PaidInv
<1> QED BY <1>3, <1>4, <1>5, <1>6 DEF BooksInv

\* With one kernel the books of the runs agree with what was done, whatever
\* fire_now calls, API calls, crashes and failed transactions interleave: the
\* failures of an action nobody touched by hand are counted one for one, a
\* one-shot is delivered once but for losses and interventions, and a row
\* reads 'running' for each run in progress or lost.
THEOREM RunsAccountedAlways ==
  ASSUME OneKernel PROVE Spec => []RunsAccounted
<1>1. BooksInv /\ TypeOK /\ TypeOK' /\ [Next]_vars => BooksInv'
  BY PastStep, CountStep, RowsStep, FirerStep, PaidStep DEF BooksInv, CountInv
<1>2. BooksInv /\ TypeOK => RunsAccounted
  <2> SUFFICES ASSUME BooksInv, TypeOK PROVE RunsAccounted
    OBVIOUS
  <2>1. FailuresCounted
    BY DEF BooksInv, CountInv
  <2>2. OneshotDeliveredOnce
    <3> SUFFICES ASSUME NEW a \in Oneshots PROVE delivered[a] <= 1 + lost[a] + manual[a]
      BY DEF OneshotDeliveredOnce
    <3>1. a \in Actions /\ Paid(a)
      BY SchedulerAssumption DEF BooksInv, PaidInv, Paid
    <3>2. ByKernel(a) \in Nat /\ Cardinality(Hands(a)) \in Nat
      BY HandsFinite DEF ByKernel
    <3>3. delivered[a] \in Nat /\ lost[a] \in Nat /\ manual[a] \in Nat
      BY <3>1 DEF TypeOK
    <3> QED BY <3>1, <3>2, <3>3 DEF Paid
  <2>3. RunningRowsAccounted
    BY DEF BooksInv, RowsInv, RunningRowsAccounted, RunsOf, TypeOK
  <2> QED BY <2>1, <2>2, <2>3 DEF RunsAccounted
<1> QED BY InitBooks, <1>1, <1>2, TypeCorrect, PTL DEF Spec
=============================================================================
