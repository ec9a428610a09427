-------------------------- MODULE SubagentRunProofs --------------------------
(***************************************************************************)
(* For every checklist, budget, number of processes and of faults: the     *)
(* state keeps its types. As long as executions of the run do not overlap, *)
(* a run is handed to the summary with every step DONE, the calls of all   *)
(* its executions stay within the budget, a step recorded DONE is not run  *)
(* again, and only a crash or an error leaves a run behind that looks      *)
(* alive.                                                                  *)
(***************************************************************************)
EXTENDS SubagentRun, TLAPS

USE SubagentAssumption

-----------------------------------------------------------------------------
\* Type correctness

AtCur == {"llm", "park", "finish step", "totals", "failed"}

\* What the place of a process says of its own variables.
Placed(p) ==
  /\ pc[p] \in AtCur => /\ cur[p] \in Steps
                        /\ cur[p] \notin snap[p].done \cup snap[p].missing
  /\ pc[p] # "idle" => copy[p].status # "absent"

\* spawn_subagent runs once: what says so is the copy it leaves behind.
Spawned ==
  /\ pc[Spawner] = "create" => cur[Spawner] \in Steps
  /\ copy[Spawner] = NoRow => cur[Spawner] = 1 /\ pc[Spawner] = "idle"
  /\ copy[Spawner] # NoRow => copy[Spawner].status # "absent"

TInv == TypeOK /\ (\A p \in Procs : Placed(p)) /\ Spawned

LEMMA NoRowType == NoRow \in RunRow /\ NoRow.status = "absent"
  BY DEF NoRow, RunRow, RunStatuses

\* What the helpers of the actions write.
LEMMA GotoDo ==
  ASSUME TypeOK, NEW p \in Procs, NEW place \in Places, Goto(p, place)
  PROVE  /\ pc' \in [Procs -> Places] /\ pc'[p] = place
         /\ \A q \in Procs \ {p} : pc'[q] = pc[q]
  BY DEF TypeOK, Goto

LEMMA SetStatusDo ==
  ASSUME TypeOK, NEW p \in Procs, NEW st \in RunStatuses, SetStatus(p, st)
  PROVE  /\ copy' \in [Procs -> RunRow] /\ copy'[p].status = st
         /\ \A q \in Procs \ {p} : copy'[q] = copy[q]
<1>1. [copy[p] EXCEPT !.status = st] \in RunRow
  BY DEF TypeOK, RunRow
<1>2. copy' = [copy EXCEPT ![p] = [copy[p] EXCEPT !.status = st]]
  BY DEF SetStatus
<1>. QED
  BY <1>1, <1>2 DEF TypeOK, RunRow

LEMMA UpdateRunDo ==
  ASSUME TypeOK, NEW r \in RunRow, UpdateRun(r)
  PROVE  row' \in RunRow
  BY DEF TypeOK, UpdateRun

LEMMA UpdateStepDo ==
  ASSUME TypeOK, NEW s, NEW st \in StepStatuses, UpdateStep(s, st)
  PROVE  step' \in [Steps -> StepStatuses]
  BY DEF TypeOK, UpdateStep

LEMMA InitTInv == Init => TInv
<1>. SUFFICES ASSUME Init PROVE TInv
  OBVIOUS
<1>1. 1 \in 1 .. (N + 1) /\ 1 \in Steps /\ {} \in SUBSET Steps
  BY DEF Steps
<1>2. [done |-> {}, missing |-> {}] \in Snapshot
  BY <1>1 DEF Snapshot
<1>3. /\ pc \in [Procs -> Places] /\ cur \in [Procs -> 1 .. (N + 1)]
      /\ \A p \in Procs : pc[p] = "idle"
  BY <1>1 DEF Init, Places
<1>4. /\ copy \in [Procs -> RunRow] /\ snap \in [Procs -> Snapshot]
      /\ step \in [Steps -> StepStatuses]
  BY <1>2, NoRowType DEF Init, StepStatuses
<1>5. TypeOK
  <2>1. row \in RunRow /\ seen \in RunRow
    BY NoRowType DEF Init
  <2>2. answers \in [Procs -> 0 .. 2] /\ parked \in [Steps -> Nat]
    BY DEF Init
  <2>. QED
    BY <1>3, <1>4, <2>1, <2>2 DEF Init, TypeOK
<1>6. Spawner \in Procs
  BY DEF Procs
<1>7. Spawned /\ \A p \in Procs : Placed(p)
  BY <1>3, <1>6 DEF Init, Spawned, Placed, AtCur
<1>. QED
  BY <1>5, <1>7 DEF TInv


\* Every step of one process p: it is typed, and leaves p placed.
LEMMA LocalStep ==
  ASSUME TInv, TypeOK', NEW p \in Procs,
         \A q \in Procs \ {p} : /\ pc'[q] = pc[q] /\ copy'[q] = copy[q]
                                /\ snap'[q] = snap[q] /\ cur'[q] = cur[q],
         Placed(p)', copy'[p].status # "absent",
         pc'[p] = "create" => cur'[p] \in Steps
  PROVE  TInv'
<1>1. \A q \in Procs : Placed(q)'
  BY DEF TInv, Placed
<1>2. copy'[p] # NoRow
  BY DEF NoRow
<1>3. Spawned'
  BY <1>2 DEF TInv, Spawned, Procs
<1>. QED
  BY <1>1, <1>3 DEF TInv

\* A step that leaves the current checklist step, or comes to it.
LEMMA MoveStep ==
  ASSUME TInv, TypeOK', NEW p \in Procs,
         NEW place \in Places, place \notin AtCur \cup {"create"}, Goto(p, place),
         copy'[p].status # "absent",
         \A q \in Procs \ {p} : copy'[q] = copy[q] /\ snap'[q] = snap[q] /\ cur'[q] = cur[q]
  PROVE  TInv'
<1>1. pc'[p] = place /\ \A q \in Procs \ {p} : pc'[q] = pc[q]
  BY GotoDo DEF TInv
<1>2. Placed(p)'
  BY <1>1 DEF Placed
<1>. QED
  BY <1>1, <1>2, LocalStep

\* The same, with a new status in the copy.
LEMMA StatusStep ==
  ASSUME TInv, TypeOK', NEW p \in Procs,
         NEW place \in Places, place \notin AtCur \cup {"create"}, Goto(p, place),
         NEW st \in RunStatuses, st # "absent", SetStatus(p, st),
         \A q \in Procs \ {p} : snap'[q] = snap[q] /\ cur'[q] = cur[q]
  PROVE  TInv'
<1>1. copy'[p].status = st /\ \A q \in Procs \ {p} : copy'[q] = copy[q]
  BY SetStatusDo DEF TInv
<1>. QED
  BY <1>1, MoveStep

LEMMA EscapeTInv ==
  ASSUME TInv, NEW p \in Procs, pc[p] # "idle", Escape(p),
         made' \in Nat, cancelled' \in BOOLEAN, resumes' \in Nat,
         crashes' \in Nat, errs' \in Nat, cancels' \in Nat
  PROVE  TInv'
<1>1. TypeOK /\ copy[p].status # "absent" /\ "idle" \in Places
  BY DEF TInv, Placed, Places
<1>2. row' \in RunRow
  BY <1>1 DEF Escape, TypeOK, RunRow, RunStatuses
<1>3. TypeOK'
  BY <1>1, <1>2, GotoDo DEF Escape, TypeOK
<1>. QED
  BY <1>1, <1>3, GotoDo, LocalStep DEF Escape, Placed, AtCur

LEMMA ExecuteTInv ==
  ASSUME TInv, NEW p \in Procs, Execute(p) PROVE TInv'
<1>. TypeOK /\ Placed(p) /\ Spawned
  BY DEF TInv
<1>a. /\ copy[p] \in RunRow /\ snap[p] \in Snapshot /\ cur[p] \in 1 .. (N + 1)
      /\ row \in RunRow
  BY DEF TypeOK
<1>st. /\ "RUNNING" \in RunStatuses /\ "TIMEOUT" \in RunStatuses /\ "CANCELLED" \in RunStatuses
       /\ "FAILED" \in RunStatuses /\ "COMPLETING" \in RunStatuses /\ "DONE" \in RunStatuses
  BY DEF RunStatuses
<1>pl. /\ "idle" \in Places /\ "loop" \in Places /\ "llm" \in Places /\ "park" \in Places
       /\ "finish step" \in Places /\ "totals" \in Places /\ "failed" \in Places
       /\ "finish" \in Places /\ "summary" \in Places
  BY DEF Places
<1>1. CASE Start(p)
  <2>1. [done |-> Checkpoints, missing |-> {s \in Steps : step[s] = "absent"}] \in Snapshot
    BY DEF Checkpoints, Snapshot
  <2>2. snap' \in [Procs -> Snapshot] /\ cur' \in [Procs -> 1 .. (N + 1)]
    BY <1>1, <2>1 DEF Start, TypeOK
  <2>3. row' \in RunRow
    BY <1>1, <1>st, SetStatusDo, UpdateRunDo DEF Start
  <2>4. TypeOK'
    BY <1>1, <1>st, <1>pl, <2>2, <2>3, SetStatusDo, GotoDo DEF Start, TypeOK
  <2>. QED
    BY <1>1, <1>st, <1>pl, <2>4, StatusStep DEF Start, AtCur, TypeOK
<1>2. CASE Skip(p)
  <2>1. TypeOK'
    BY <1>2 DEF Skip, TypeOK, db, history
  <2>. QED
    BY <1>2, <2>1, LocalStep DEF Skip, Placed, AtCur, TypeOK
<1>3. CASE OutOfBudget(p)
  <2>1. TypeOK'
    BY <1>3, <1>st, <1>pl, SetStatusDo, GotoDo DEF OutOfBudget, TypeOK, db, history
  <2>. QED
    BY <1>3, <1>st, <1>pl, <2>1, StatusStep DEF OutOfBudget, AtCur
<1>4. CASE PollCancelled(p)
  <2>1. TypeOK'
    BY <1>4, <1>st, <1>pl, SetStatusDo, GotoDo DEF PollCancelled, TypeOK, db, history
  <2>. QED
    BY <1>4, <1>st, <1>pl, <2>1, StatusStep DEF PollCancelled, AtCur
<1>5. CASE BeginStep(p)
  <2>1. TypeOK'
    BY <1>5, <1>pl, GotoDo, UpdateStepDo DEF BeginStep, TypeOK, history, StepStatuses
  <2>2. cur[p] \in Steps /\ cur[p] \notin snap[p].done \cup snap[p].missing
    BY <1>5, <1>a DEF BeginStep, AtStep, Steps
  <2>. QED
    BY <1>5, <1>pl, <2>1, <2>2, GotoDo, LocalStep DEF BeginStep, AtStep, Placed, AtCur, TypeOK
<1>6. CASE NoAnswer(p)
  <2>1. TypeOK'
    BY <1>6, <1>st, <1>pl, GotoDo DEF NoAnswer, TypeOK, db, history
  <2>. QED
    BY <1>6, <1>st, <1>pl, <2>1, GotoDo, LocalStep DEF NoAnswer, Placed, AtCur, TypeOK
<1>7. CASE FinishStep(p)
  <2>1. TypeOK'
    BY <1>7, <1>st, <1>pl, GotoDo, UpdateStepDo DEF FinishStep, TypeOK, db, history, StepStatuses
  <2>. QED
    BY <1>7, <1>st, <1>pl, <2>1, GotoDo, LocalStep DEF FinishStep, Placed, AtCur, TypeOK
<1>8. CASE FailStep(p)
  <2>1. TypeOK'
    BY <1>8, <1>st, <1>pl, SetStatusDo, GotoDo, UpdateStepDo DEF FailStep, TypeOK, db, history, StepStatuses
  <2>. QED
    BY <1>8, <1>st, <1>pl, <2>1, StatusStep DEF FailStep, AtCur
<1>9. CASE EndLoop(p)
  <2>1. TypeOK'
    BY <1>9, <1>st, <1>pl, SetStatusDo, GotoDo DEF EndLoop, TypeOK, db, history
  <2>. QED
    BY <1>9, <1>st, <1>pl, <2>1, StatusStep DEF EndLoop, AtCur
<1>10. CASE NoStepRow(p)
  BY <1>10, EscapeTInv DEF NoStepRow, history, TypeOK
<1>11. CASE \E k \in 1 .. 2 : Answer(p, k)
  <2>1. PICK k \in 1 .. 2 : Answer(p, k)
    BY <1>11
  <2>2. answers' \in [Procs -> 0 .. 2] /\ made' \in Nat
    BY <2>1 DEF Answer, TypeOK
  <2>3. TypeOK'
    BY <2>1, <2>2, <1>pl, GotoDo DEF Answer, TypeOK, db
  <2>. QED
    BY <2>1, <2>3, <1>pl, GotoDo, LocalStep DEF Answer, Placed, AtCur, TypeOK
<1>12. CASE ParkActions(p)
  <2>1. parked' \in [Steps -> Nat]
    <3>1. cur[p] \in Steps
      BY <1>12 DEF ParkActions, Placed, AtCur
    <3>2. parked \in [Steps -> Nat]
      BY DEF TypeOK
    <3>3. parked[cur[p]] + 1 \in Nat
      BY <3>1, <3>2
    <3>4. parked' = parked \/ parked' = [parked EXCEPT ![cur[p]] = parked[cur[p]] + 1]
      BY <1>12 DEF ParkActions
    <3>5. [parked EXCEPT ![cur[p]] = parked[cur[p]] + 1] \in [Steps -> Nat]
      BY <3>2, <3>3
    <3>. QED
      BY <3>2, <3>4, <3>5
  <2>2. PICK place \in {"finish step", "failed"} : Goto(p, place)
    BY <1>12 DEF ParkActions
  <2>3. TypeOK'
    BY <1>12, <2>1, <2>2, <1>pl, GotoDo DEF ParkActions, TypeOK, history
  <2>. QED
    BY <1>12, <2>1, <2>3, <1>pl, GotoDo, LocalStep DEF ParkActions, Placed, AtCur, TypeOK
<1>13. CASE Totals(p)
  <2>1. CASE Exists
    <3>1. copy[p].calls + answers[p] \in Nat /\ cur[p] + 1 \in 1 .. (N + 1)
      <4>1. copy[p].calls \in Nat /\ answers[p] \in Nat
        BY <1>a DEF TypeOK, RunRow
      <4>2. cur[p] \in 1 .. N
        BY <1>13 DEF Totals, Placed, AtCur, Steps
      <4>. QED
        BY <4>1, <4>2
    <3>2. PICK c \in Nat : c = copy[p].calls + answers[p]
      BY <3>1
    <3>3. copy' = [copy EXCEPT ![p] = [copy[p] EXCEPT !.calls = c]]
      BY <1>13, <2>1, <3>2 DEF Totals
    <3>4. [copy[p] EXCEPT !.calls = c] \in RunRow /\ [copy[p] EXCEPT !.calls = c].status = copy[p].status
      BY <1>a DEF RunRow
    <3>5. /\ copy' \in [Procs -> RunRow] /\ copy'[p].status = copy[p].status
          /\ \A q \in Procs \ {p} : copy'[q] = copy[q]
      BY <3>3, <3>4 DEF TypeOK
    <3>6. row' \in RunRow
      BY <1>13, <2>1, <3>5, UpdateRunDo DEF Totals
    <3>7. TypeOK'
      <4>1. cur' \in [Procs -> 1 .. (N + 1)]
        BY <1>13, <2>1, <3>1 DEF Totals, TypeOK
      <4>2. pc' \in [Procs -> Places]
        BY <1>13, <2>1, <1>pl, GotoDo DEF Totals, TypeOK
      <4>3. UNCHANGED <<step, parked, snap, answers, seen, old, history>>
        BY <1>13 DEF Totals
      <4>. QED
        BY <3>5, <3>6, <4>1, <4>2, <4>3 DEF TypeOK, history
    <3>8. copy[p].status # "absent"
      BY <1>13 DEF Totals, Placed
    <3>. QED
      BY <1>13, <2>1, <3>5, <3>7, <3>8, <1>pl, MoveStep DEF Totals, AtCur, TypeOK
  <2>2. CASE ~Exists
    <3>1. TypeOK'
      BY <1>13, <2>2, <1>pl, GotoDo DEF Totals, TypeOK, history
    <3>. QED
      BY <1>13, <2>2, <3>1, <1>pl, GotoDo, LocalStep DEF Totals, Placed, AtCur, TypeOK
  <2>. QED
    BY <2>1, <2>2
<1>14. CASE Finish(p)
  <2>1. PICK place \in {"summary", "idle"} : Goto(p, place)
    BY <1>14 DEF Finish
  <2>2. PICK c \in Nat : c = old + 1
    BY DEF TypeOK
  <2>3. copy' = [copy EXCEPT ![p] = [copy[p] EXCEPT !.completed = c]]
    BY <1>14, <2>2 DEF Finish
  <2>4. [copy[p] EXCEPT !.completed = c] \in RunRow /\ [copy[p] EXCEPT !.completed = c].status = copy[p].status
    BY <1>a DEF RunRow
  <2>5. /\ copy' \in [Procs -> RunRow] /\ copy'[p].status = copy[p].status
        /\ \A q \in Procs \ {p} : copy'[q] = copy[q]
    BY <2>3, <2>4 DEF TypeOK
  <2>6. row' \in RunRow
    BY <1>14, <2>5, UpdateRunDo DEF Finish
  <2>7. TypeOK'
    BY <1>14, <2>1, <2>5, <2>6, <1>pl, GotoDo DEF Finish, TypeOK, history
  <2>8. copy[p].status # "absent"
    BY <1>14 DEF Finish, Placed
  <2>. QED
    BY <1>14, <2>1, <2>5, <2>7, <2>8, <1>pl, MoveStep DEF Finish, AtCur
<1>15. CASE Summarise(p)
  <2>1. PICK st \in {"DONE", "FAILED"} : SetStatus(p, st)
    BY <1>15 DEF Summarise
  <2>2. row' \in RunRow
    BY <1>15, <1>st, <2>1, SetStatusDo, UpdateRunDo DEF Summarise
  <2>3. TypeOK'
    BY <1>15, <1>st, <1>pl, <2>1, <2>2, SetStatusDo, GotoDo DEF Summarise, TypeOK, history
  <2>. QED
    BY <1>15, <1>st, <1>pl, <2>1, <2>3, StatusStep DEF Summarise, AtCur
<1>. QED
  BY <1>1, <1>2, <1>3, <1>4, <1>5, <1>6, <1>7, <1>8, <1>9, <1>10, <1>11, <1>12, <1>13,
     <1>14, <1>15 DEF Execute

LEMMA NextTInv == TInv /\ [Next]_vars => TInv'
<1>. SUFFICES ASSUME TInv, [Next]_vars PROVE TInv'
  OBVIOUS
<1>. TypeOK /\ Spawned /\ Spawner \in Procs
  BY DEF TInv, Procs
<1>pl. "idle" \in Places /\ "create" \in Places /\ "start" \in Places /\ "failed" \in Places
  BY DEF Places
<1>1. ASSUME NEW p \in Procs, Execute(p) PROVE TInv'
  BY <1>1, ExecuteTInv
<1>2. CASE Spawn
  <2>1. row' = [status |-> "SPAWNED", calls |-> 0, completed |-> 0] /\ row' \in RunRow
    BY <1>2 DEF Spawn, NoRow, RunRow, RunStatuses
  <2>2. /\ copy' \in [Procs -> RunRow] /\ copy'[Spawner].status = "SPAWNED"
        /\ \A q \in Procs \ {Spawner} : copy'[q] = copy[q]
    BY <1>2, <2>1 DEF Spawn, TypeOK
  <2>3. TypeOK'
    BY <1>2, <2>1, <2>2, <1>pl, GotoDo DEF Spawn, TypeOK, history
  <2>4. cur'[Spawner] \in Steps
    BY <1>2 DEF Spawn, Spawned, Steps
  <2>. QED
    BY ZenonT(60), <1>2, <2>2, <2>3, <2>4, <1>pl, GotoDo, LocalStep DEF Spawn, Placed, AtCur
<1>3. CASE SpawnRaises
  <2>1. row' = [status |-> "FAILED", calls |-> 0, completed |-> 0] /\ row' \in RunRow
    BY <1>3 DEF SpawnRaises, NoRow, RunRow, RunStatuses
  <2>2. /\ copy' \in [Procs -> RunRow] /\ copy'[Spawner].status = "FAILED"
        /\ \A q \in Procs \ {Spawner} : copy'[q] = copy[q]
    BY <1>3, <2>1 DEF SpawnRaises, TypeOK
  <2>3. TypeOK'
    BY <1>3, <2>1, <2>2 DEF SpawnRaises, Err, TypeOK
  <2>. QED
    BY <1>3, <2>2, <2>3, LocalStep DEF SpawnRaises, Placed, AtCur
<1>4. CASE CreateStep
  <2>1. cur[Spawner] \in Steps /\ copy[Spawner].status # "absent"
    BY <1>4 DEF CreateStep, Spawned, TInv, Placed
  <2>2. step' \in [Steps -> StepStatuses]
    BY <1>4 DEF CreateStep, TypeOK, StepStatuses
  <2>3. CASE cur[Spawner] = N
    <3>1. TypeOK'
      BY <1>4, <2>2, <2>3, <1>pl, GotoDo DEF CreateStep, TypeOK, history
    <3>. QED
      BY <1>4, <2>1, <2>3, <3>1, <1>pl, MoveStep DEF CreateStep, AtCur, TypeOK
  <2>4. CASE cur[Spawner] # N
    <3>1. cur[Spawner] + 1 \in Steps /\ cur[Spawner] + 1 \in 1 .. (N + 1)
      BY <2>1, <2>4 DEF Steps
    <3>2. TypeOK'
      BY <1>4, <2>2, <2>4, <3>1 DEF CreateStep, TypeOK, history
    <3>. QED
      BY ZenonT(60), <1>4, <2>1, <2>4, <3>1, <3>2, LocalStep DEF CreateStep, Placed, AtCur, TypeOK
  <2>. QED
    BY <2>3, <2>4
<1>5. CASE CreateFails
  BY <1>5, EscapeTInv DEF CreateFails, Err, TypeOK
<1>6. ASSUME NEW p \in Procs, Resume(p) PROVE TInv'
  <2>1. row.status # "absent"
    BY <1>6 DEF Resume, Resumable
  <2>2. copy' \in [Procs -> RunRow] /\ copy'[p] = row
    BY <1>6 DEF Resume, Resumed, TypeOK
  <2>3. TypeOK'
    BY <1>6, <2>2, <1>pl, GotoDo DEF Resume, TypeOK, db
  <2>. QED
    BY <1>6, <2>1, <2>2, <2>3, <1>pl, MoveStep DEF Resume, AtCur, TypeOK
<1>7. ASSUME NEW p \in Procs, Crash(p) PROVE TInv'
  <2>1. TypeOK'
    BY <1>7, <1>pl, GotoDo DEF Crash, TypeOK, db
  <2>. QED
    BY ZenonT(60), <1>7, <2>1, <1>pl, GotoDo, LocalStep DEF Crash, Busy, Placed, AtCur, TInv
<1>8. ASSUME NEW p \in Procs, StepRaises(p) PROVE TInv'
  <2>1. TypeOK'
    <3>0. Err
      BY <1>8 DEF StepRaises
    <3>1. errs' \in Nat
      BY <3>0 DEF Err, TypeOK
    <3>. QED
      BY <1>8, <1>pl, <3>1, GotoDo DEF StepRaises, TypeOK, db
  <2>. QED
    BY <1>8, <2>1, <1>pl, GotoDo, LocalStep DEF StepRaises, Placed, AtCur, TInv
<1>9. ASSUME NEW p \in Procs, ExecutionRaises(p) PROVE TInv'
  BY <1>9, EscapeTInv DEF ExecutionRaises, Err, TypeOK
<1>10. CASE CancelWrite
  <2>1. [seen EXCEPT !.status = CancelStatus] \in RunRow
    BY DEF CancelStatus, TypeOK, RunRow, RunStatuses
  <2>2. row' \in RunRow
    BY <1>10, <2>1, UpdateRunDo DEF CancelWrite
  <2>3. TypeOK'
    BY <1>10, <2>2, NoRowType DEF CancelWrite, TypeOK, local
  <2>. QED
    BY <1>10, <2>3 DEF CancelWrite, local, TInv, Placed, Spawned
<1>11. CASE CancelRead \/ Expire \/ Cleanup \/ UNCHANGED vars
  <2>1. TypeOK'
    <3>1. CASE CancelRead
      BY <3>1 DEF CancelRead, TypeOK, db, local
    <3>2. CASE Expire
      BY <3>2 DEF Expire, TypeOK, db, local, history
    <3>3. CASE Cleanup
      BY <3>3, NoRowType DEF Cleanup, TypeOK, local, history, StepStatuses
    <3>4. CASE UNCHANGED vars
      BY <3>4 DEF vars, TypeOK, db, local, history
    <3>. QED
      BY <1>11, <3>1, <3>2, <3>3, <3>4
  <2>2. UNCHANGED local
    BY <1>11 DEF CancelRead, Expire, Cleanup, vars
  <2>. QED
    BY <2>1, <2>2 DEF local, TInv, Placed, Spawned
<1>. QED
  BY <1>1, <1>2, <1>3, <1>4, <1>5, <1>6, <1>7, <1>8, <1>9, <1>10, <1>11 DEF Next

\* The rows, the copies and the places keep their types.
THEOREM TypesHold == Spec => []TypeOK
<1>1. Spec => []TInv
  BY InitTInv, NextTInv, PTL DEF Spec
<1>2. TInv => TypeOK
  BY DEF TInv
<1>. QED
  BY <1>1, <1>2, PTL

-----------------------------------------------------------------------------
\* A run handed to the summary has every step DONE

Ended == {"COMPLETING", "DONE"}
InLoop == AtCur \cup {"loop"}
AllDone == \A s \in Steps : step[s] = "DONE"

\* At most one process executes the run, and none before it is spawned.
Alone == \A p, q \in Procs : Busy(p) /\ Busy(q) => p = q
Fresh == copy[Spawner] = NoRow => row = NoRow /\ \A p \in Procs : ~Busy(p)

\* What an execution has behind it is DONE in the table.
Kept(p) == pc[p] \in InLoop =>
  /\ \A s \in Steps \ snap[p].missing : step[s] # "absent"
  /\ pc[p] # "failed" =>
       \A s \in Steps : s < cur[p] \/ s \in snap[p].done => step[s] = "DONE"
  /\ pc[p] = "totals" => step[cur[p]] = "DONE"

\* Nothing says the run has ended while its loop goes on; what the sweep has
\* deleted stays deleted until the execution is over.
Sound(p) ==
  /\ pc[p] \in InLoop => copy[p].status \notin Ended
  /\ pc[p] \in InLoop \cup {"create", "finish"} => row.status \notin Ended
  /\ Exists => Kept(p)
  /\ Exists /\ pc[p] = "finish" /\ copy[p].status \in Ended => AllDone
  /\ Exists /\ pc[p] = "summary" => AllDone

IInv == TInv /\ Alone /\ Fresh /\ DoneMeansAllDone /\ \A p \in Procs : Sound(p)

LEMMA InitIInv == Init => IInv
<1>1. Init => \A p \in Procs : pc[p] = "idle"
  BY DEF Init
<1>2. Init => row.status = "absent"
  BY NoRowType DEF Init
<1>. QED
  BY <1>1, <1>2, InitTInv DEF Init, IInv, Alone, Fresh, Busy, DoneMeansAllDone, Sound,
     InLoop, AtCur, Exists

\* An idle process is sound; so a step of the one at work is all there is to see.
LEMMA BusyStep ==
  ASSUME IInv, TInv', NEW p \in Procs, Busy(p),
         \A q \in Procs \ {p} : pc'[q] = pc[q] /\ copy'[q] = copy[q],
         copy'[p].status # "absent", DoneMeansAllDone', Sound(p)'
  PROVE  IInv'
<1>1. \A q \in Procs \ {p} : pc'[q] = "idle"
  BY DEF IInv, Alone, Busy
<1>2. \A q \in Procs \ {p} : Sound(q)'
  BY <1>1 DEF Sound, Kept, InLoop, AtCur
<1>3. Alone'
  BY <1>1 DEF Alone, Busy
<1>4. copy[Spawner] # NoRow
  BY DEF IInv, Fresh
<1>5. copy'[p] # NoRow
  BY DEF NoRow
<1>6. Fresh'
  BY <1>4, <1>5 DEF Fresh, Procs
<1>. QED
  BY <1>2, <1>3, <1>6 DEF IInv

LEMMA RowDo ==
  ASSUME NEW r, r.status # "absent", UpdateRun(r)
  PROVE  /\ Exists' <=> Exists
         /\ Exists => row'.status = r.status
         /\ ~Exists => row'.status = "absent"
  BY DEF UpdateRun, Exists

LEMMA EscapeIInv ==
  ASSUME IInv, TInv', NEW p \in Procs, Busy(p), Escape(p) PROVE IInv'
<1>1. TypeOK /\ copy[p].status # "absent" /\ "idle" \in Places
  BY DEF IInv, TInv, Placed, Busy, Places
<1>2. pc'[p] = "idle" /\ \A q \in Procs \ {p} : pc'[q] = pc[q]
  BY <1>1, GotoDo DEF Escape
<1>3. Sound(p)'
  BY <1>2 DEF Sound, Kept, InLoop, AtCur
<1>4. row'.status = row.status \/ row'.status = "FAILED"
  BY <1>1 DEF Escape, TypeOK, RunRow
<1>5. DoneMeansAllDone'
  BY <1>4 DEF Escape, IInv, DoneMeansAllDone
<1>. QED
  BY <1>1, <1>2, <1>3, <1>5, BusyStep DEF Escape

LEMMA ExecuteIInv ==
  ASSUME IInv, TInv', NEW p \in Procs, Execute(p), Busy(p) PROVE IInv'
<1>a. /\ TypeOK /\ Placed(p) /\ Sound(p) /\ DoneMeansAllDone
      /\ copy[p].status # "absent" /\ cur[p] \in 1 .. (N + 1)
  BY DEF IInv, TInv, Placed, Busy, TypeOK
<1>st. /\ "RUNNING" \in RunStatuses /\ "TIMEOUT" \in RunStatuses /\ "CANCELLED" \in RunStatuses
       /\ "FAILED" \in RunStatuses /\ "COMPLETING" \in RunStatuses /\ "DONE" \in RunStatuses
  BY DEF RunStatuses
<1>pl. /\ "idle" \in Places /\ "loop" \in Places /\ "llm" \in Places /\ "park" \in Places
       /\ "finish step" \in Places /\ "totals" \in Places /\ "failed" \in Places
       /\ "finish" \in Places /\ "summary" \in Places
  BY DEF Places
<1>1. CASE Start(p)
  <2>1. /\ pc'[p] = "loop" /\ \A q \in Procs \ {p} : pc'[q] = pc[q]
        /\ copy'[p].status = "RUNNING" /\ \A q \in Procs \ {p} : copy'[q] = copy[q]
    BY <1>1, <1>a, <1>st, <1>pl, GotoDo, SetStatusDo DEF Start
  <2>2. /\ Exists' <=> Exists
        /\ row'.status \notin Ended
    BY <1>1, <2>1, RowDo DEF Start, Ended
  <2>3. /\ snap'[p].done = Checkpoints /\ snap'[p].missing = {s \in Steps : step[s] = "absent"}
        /\ cur'[p] = 1 /\ step' = step
    BY <1>1, <1>a DEF Start, TypeOK
  <2>4. \A s \in Steps : ~(s < 1)
    BY DEF Steps
  <2>5. Kept(p)'
    BY <2>1, <2>3, <2>4 DEF Kept, Checkpoints
  <2>6. Sound(p)' /\ DoneMeansAllDone'
    BY <2>1, <2>2, <2>5 DEF Sound, InLoop, AtCur, Ended, DoneMeansAllDone
  <2>. QED
    BY <2>1, <2>6, BusyStep
<1>2. CASE Skip(p)
  <2>1. /\ pc[p] = "loop" /\ cur[p] \in snap[p].done /\ cur'[p] = cur[p] + 1
        /\ UNCHANGED <<row, step, pc, copy, snap>>
    BY <1>2, <1>a DEF Skip, db, TypeOK
  <2>2. \A s \in Steps : s < cur[p] + 1 => s < cur[p] \/ s = cur[p]
    BY <1>a DEF Steps
  <2>3. Sound(p)'
    BY <1>a, <2>1, <2>2 DEF Sound, Kept, InLoop, AtCur, Exists
  <2>. QED
    BY <1>a, <2>1, <2>3, BusyStep DEF DoneMeansAllDone
<1>3. CASE OutOfBudget(p) \/ PollCancelled(p)
  <2>1. PICK st \in {"TIMEOUT", "CANCELLED"} : SetStatus(p, st)
    BY <1>3 DEF OutOfBudget, PollCancelled
  <2>2. /\ pc[p] = "loop" /\ pc'[p] = "finish" /\ \A q \in Procs \ {p} : pc'[q] = pc[q]
        /\ copy'[p].status = st /\ \A q \in Procs \ {p} : copy'[q] = copy[q]
        /\ UNCHANGED <<row, step>>
    BY ZenonT(60), <1>3, <1>a, <1>st, <1>pl, <2>1, GotoDo, SetStatusDo DEF OutOfBudget, PollCancelled, AtStep, db
  <2>3. Sound(p)'
    BY <1>a, <2>1, <2>2 DEF Sound, Kept, InLoop, AtCur, Ended
  <2>. QED
    BY <1>a, <2>1, <2>2, <2>3, BusyStep DEF DoneMeansAllDone
<1>4. CASE BeginStep(p)
  <2>1. /\ pc[p] = "loop" /\ pc'[p] = "llm" /\ \A q \in Procs \ {p} : pc'[q] = pc[q]
        /\ cur[p] \in Steps /\ cur[p] \notin snap[p].done
        /\ UNCHANGED <<row, copy, snap, cur>>
    <3>1. pc[p] = "loop" /\ cur[p] \in Steps /\ cur[p] \notin snap[p].done
      BY <1>4, <1>a DEF BeginStep, AtStep, Steps
    <3>2. pc'[p] = "llm" /\ \A q \in Procs \ {p} : pc'[q] = pc[q]
      BY <1>4, <1>a, <1>pl, GotoDo DEF BeginStep
    <3>. QED
      BY <1>4, <3>1, <3>2 DEF BeginStep
  <2>2. /\ \A s \in Steps \ {cur[p]} : step'[s] = step[s]
        /\ step[cur[p]] # "absent" => step'[cur[p]] # "absent"
    BY <1>4, <1>a DEF BeginStep, UpdateStep, TypeOK
  <2>3. ~(cur[p] < cur[p])
    BY <1>a
  <2>4. row.status \notin Ended
    BY <1>a, <2>1 DEF Sound, InLoop
  <2>5. Exists => Kept(p)'
    BY <1>a, <2>1, <2>2, <2>3 DEF Sound, Kept, InLoop, AtCur
  <2>6. Sound(p)'
    BY <1>a, <2>1, <2>4, <2>5 DEF Sound, InLoop, AtCur, Exists
  <2>. QED
    BY <1>a, <2>1, <2>4, <2>6, BusyStep DEF DoneMeansAllDone, Ended
<1>5. CASE NoStepRow(p)
  BY <1>5, EscapeIInv DEF NoStepRow
<1>6. CASE NoAnswer(p) \/ \E k \in 1 .. 2 : Answer(p, k)
  <2>1. PICK place \in {"failed", "park"} : Goto(p, place)
    BY <1>6 DEF NoAnswer, Answer
  <2>2. /\ pc[p] = "llm" /\ pc'[p] = place /\ \A q \in Procs \ {p} : pc'[q] = pc[q]
        /\ UNCHANGED <<row, step, copy, snap, cur>>
    BY <1>6, <1>a, <1>pl, <2>1, GotoDo DEF NoAnswer, Answer, db
  <2>3. Sound(p)'
    BY <1>a, <2>1, <2>2 DEF Sound, Kept, InLoop, AtCur, Exists
  <2>. QED
    BY <1>a, <2>2, <2>3, BusyStep DEF DoneMeansAllDone
<1>7. CASE ParkActions(p)
  <2>1. PICK place \in {"finish step", "failed"} : Goto(p, place)
    BY <1>7 DEF ParkActions
  <2>2. /\ pc[p] = "park" /\ pc'[p] = place /\ \A q \in Procs \ {p} : pc'[q] = pc[q]
        /\ UNCHANGED <<row, step, copy, snap, cur>>
    BY <1>7, <1>a, <1>pl, <2>1, GotoDo DEF ParkActions
  <2>3. Sound(p)'
    BY <1>a, <2>1, <2>2 DEF Sound, Kept, InLoop, AtCur, Exists
  <2>. QED
    BY <1>a, <2>2, <2>3, BusyStep DEF DoneMeansAllDone
<1>8. CASE FinishStep(p)
  <2>1. /\ pc[p] = "finish step" /\ pc'[p] = "totals" /\ \A q \in Procs \ {p} : pc'[q] = pc[q]
        /\ cur[p] \in Steps \ snap[p].missing
        /\ UNCHANGED <<row, copy, snap, cur>>
    BY <1>8, <1>a, <1>pl, GotoDo DEF FinishStep, Placed, AtCur
  <2>2. /\ \A s \in Steps \ {cur[p]} : step'[s] = step[s]
        /\ step[cur[p]] # "absent" => step'[cur[p]] = "DONE"
    BY <1>8, <1>a, <2>1 DEF FinishStep, UpdateStep, TypeOK
  <2>3. Exists => Kept(p)'
    BY <1>a, <2>1, <2>2 DEF Sound, Kept, InLoop, AtCur
  <2>4. row.status \notin Ended
    BY <1>a, <2>1 DEF Sound, InLoop, AtCur
  <2>5. Sound(p)'
    BY <1>a, <2>1, <2>3, <2>4 DEF Sound, InLoop, AtCur, Exists
  <2>. QED
    BY <1>a, <2>1, <2>4, <2>5, BusyStep DEF DoneMeansAllDone, Ended
<1>9. CASE Totals(p)
  <2>1. CASE Exists
    <3>1. /\ pc[p] = "totals" /\ pc'[p] = "loop" /\ \A q \in Procs \ {p} : pc'[q] = pc[q]
          /\ cur[p] \in Steps /\ cur'[p] = cur[p] + 1
          /\ UNCHANGED <<step, snap>>
      BY <1>9, <1>a, <1>pl, <2>1, GotoDo DEF Totals, Placed, AtCur, TypeOK
    <3>2. /\ copy'[p].status = copy[p].status
          /\ \A q \in Procs \ {p} : copy'[q] = copy[q]
      BY <1>9, <1>a, <2>1 DEF Totals, TypeOK, RunRow
    <3>3. Exists' /\ row'.status = copy[p].status
      BY <1>9, <1>a, <2>1, <3>2, RowDo DEF Totals
    <3>4. \A s \in Steps : s < cur[p] + 1 => s < cur[p] \/ s = cur[p]
      BY <1>a DEF Steps
    <3>5. copy[p].status \notin Ended
      BY <1>a, <3>1 DEF Sound, InLoop, AtCur
    <3>6. Kept(p)'
      BY <1>a, <2>1, <3>1, <3>4 DEF Sound, Kept, InLoop, AtCur
    <3>7. Sound(p)' /\ DoneMeansAllDone'
      BY <3>1, <3>2, <3>3, <3>5, <3>6 DEF Sound, InLoop, AtCur, DoneMeansAllDone, Ended
    <3>. QED
      BY <1>a, <3>1, <3>2, <3>7, BusyStep
  <2>2. CASE ~Exists
    <3>1. /\ pc[p] = "totals" /\ pc'[p] = "failed" /\ \A q \in Procs \ {p} : pc'[q] = pc[q]
          /\ UNCHANGED <<row, step, copy, snap, cur>>
      BY <1>9, <1>a, <1>pl, <2>2, GotoDo DEF Totals
    <3>2. Sound(p)'
      BY <1>a, <2>2, <3>1 DEF Sound, InLoop, AtCur, Exists
    <3>. QED
      BY <1>a, <3>1, <3>2, BusyStep DEF DoneMeansAllDone
  <2>. QED
    BY <2>1, <2>2
<1>10. CASE FailStep(p)
  <2>1. /\ pc[p] = "failed" /\ pc'[p] = "finish" /\ \A q \in Procs \ {p} : pc'[q] = pc[q]
        /\ copy'[p].status = "FAILED" /\ \A q \in Procs \ {p} : copy'[q] = copy[q]
        /\ row' = row
    BY <1>10, <1>a, <1>st, <1>pl, GotoDo, SetStatusDo DEF FailStep
  <2>2. row.status \notin Ended
    BY <1>a, <2>1 DEF Sound, InLoop, AtCur
  <2>3. Sound(p)' /\ DoneMeansAllDone'
    BY <2>1, <2>2 DEF Sound, InLoop, AtCur, Ended, Kept, DoneMeansAllDone
  <2>. QED
    BY <2>1, <2>3, BusyStep
<1>11. CASE EndLoop(p)
  <2>1. /\ pc[p] = "loop" /\ pc'[p] = "finish" /\ \A q \in Procs \ {p} : pc'[q] = pc[q]
        /\ copy'[p].status = "COMPLETING" /\ \A q \in Procs \ {p} : copy'[q] = copy[q]
        /\ UNCHANGED <<row, step>> /\ cur[p] = N + 1
    BY <1>11, <1>a, <1>st, <1>pl, GotoDo, SetStatusDo DEF EndLoop, db
  <2>2. \A s \in Steps : s < N + 1
    BY DEF Steps
  <2>3. Exists => AllDone
    BY <1>a, <2>1, <2>2 DEF Sound, Kept, InLoop, AtCur, AllDone
  <2>4. Sound(p)'
    BY <1>a, <2>1, <2>3 DEF Sound, InLoop, AtCur, Ended, Kept, Exists, AllDone
  <2>. QED
    BY <1>a, <2>1, <2>4, BusyStep DEF DoneMeansAllDone
<1>12. CASE Finish(p)
  <2>1. PICK place \in {"summary", "idle"} :
          Goto(p, place) /\ (place = "summary" => copy[p].status = "COMPLETING")
    BY <1>12 DEF Finish, NeedsSummary
  <2>2. /\ pc[p] = "finish" /\ pc'[p] = place /\ \A q \in Procs \ {p} : pc'[q] = pc[q]
        /\ UNCHANGED step
    BY <1>12, <1>a, <1>pl, <2>1, GotoDo DEF Finish
  <2>3. /\ copy'[p].status = copy[p].status
        /\ \A q \in Procs \ {p} : copy'[q] = copy[q]
    BY <1>12, <1>a DEF Finish, TypeOK, RunRow
  <2>4. /\ Exists' <=> Exists
        /\ Exists => row'.status = copy[p].status
        /\ ~Exists => row'.status = "absent"
    BY <1>12, <1>a, <2>3, RowDo DEF Finish
  <2>5. Exists /\ copy[p].status \in Ended => AllDone
    BY <1>a, <2>2 DEF Sound
  <2>6. Sound(p)'
    BY <2>1, <2>2, <2>4, <2>5 DEF Sound, Kept, InLoop, AtCur, AllDone, Ended
  <2>7. DoneMeansAllDone'
    BY <2>2, <2>4, <2>5 DEF DoneMeansAllDone, AllDone, Ended
  <2>. QED
    BY <1>a, <2>2, <2>3, <2>6, <2>7, BusyStep
<1>13. CASE Summarise(p)
  <2>1. PICK st \in {"DONE", "FAILED"} : SetStatus(p, st)
    BY <1>13 DEF Summarise
  <2>2. /\ pc[p] = "summary" /\ pc'[p] = "idle" /\ \A q \in Procs \ {p} : pc'[q] = pc[q]
        /\ copy'[p].status = st /\ \A q \in Procs \ {p} : copy'[q] = copy[q]
        /\ UNCHANGED step
    BY ZenonT(60), <1>13, <1>a, <1>st, <1>pl, <2>1, GotoDo, SetStatusDo DEF Summarise
  <2>3. Exists => AllDone
    BY <1>a, <2>2 DEF Sound
  <2>4. ~Exists => row'.status = "absent"
    BY <1>13, <2>1, <2>2, RowDo DEF Summarise
  <2>5. Sound(p)' /\ DoneMeansAllDone'
    BY <2>2, <2>3, <2>4 DEF Sound, Kept, InLoop, AtCur, DoneMeansAllDone, AllDone
  <2>. QED
    BY <2>1, <2>2, <2>5, BusyStep
<1>. QED
  BY <1>1, <1>2, <1>3, <1>4, <1>5, <1>6, <1>7, <1>8, <1>9, <1>10, <1>11, <1>12, <1>13
     DEF Execute

LEMMA NextIInv ==
  ASSUME ~Overlap PROVE IInv /\ [Next]_vars => IInv'
<1>. SUFFICES ASSUME IInv, [Next]_vars PROVE IInv'
  OBVIOUS
<1>a. /\ TInv /\ TInv' /\ TypeOK /\ DoneMeansAllDone /\ Spawner \in Procs
  BY NextTInv DEF IInv, TInv, Procs
<1>pl. /\ "idle" \in Places /\ "create" \in Places /\ "start" \in Places /\ "failed" \in Places
  BY DEF Places
<1>1. ASSUME NEW p \in Procs, Execute(p) PROVE IInv'
  <2>1. Busy(p)
    BY <1>1 DEF Execute, Busy, Start, Skip, OutOfBudget, PollCancelled, BeginStep, AtStep,
       NoStepRow, NoAnswer, Answer, ParkActions, FinishStep, Totals, FailStep, EndLoop,
       Finish, Summarise
  <2>. QED
    BY <1>1, <1>a, <2>1, ExecuteIInv
<1>2. CASE Spawn
  <2>1. \A q \in Procs : pc[q] = "idle"
    BY <1>2 DEF Spawn, IInv, Fresh, Busy
  <2>2. /\ row'.status = "SPAWNED" /\ copy'[Spawner].status = "SPAWNED"
        /\ pc'[Spawner] = "create" /\ \A q \in Procs \ {Spawner} : pc'[q] = "idle"
    BY <1>2, <1>a, <1>pl, <2>1, GotoDo DEF Spawn, NoRow, TypeOK
  <2>3. Alone' /\ Fresh' /\ DoneMeansAllDone'
    BY <2>2, NoRowType DEF Alone, Busy, Fresh, DoneMeansAllDone
  <2>4. \A q \in Procs : Sound(q)'
    BY <2>2 DEF Sound, Kept, InLoop, AtCur, Ended
  <2>. QED
    BY <1>a, <2>3, <2>4 DEF IInv
<1>3. CASE SpawnRaises
  <2>1. \A q \in Procs : pc'[q] = "idle"
    BY <1>3 DEF SpawnRaises, IInv, Fresh, Busy
  <2>2. row'.status = "FAILED" /\ copy'[Spawner].status = "FAILED"
    BY <1>3, <1>a DEF SpawnRaises, NoRow, TypeOK
  <2>3. Alone' /\ Fresh' /\ DoneMeansAllDone'
    BY <2>1, <2>2, NoRowType DEF Alone, Busy, Fresh, DoneMeansAllDone
  <2>4. \A q \in Procs : Sound(q)'
    BY <2>1 DEF Sound, Kept, InLoop, AtCur
  <2>. QED
    BY <1>a, <2>3, <2>4 DEF IInv
<1>4. CASE CreateStep
  <2>1. pc[Spawner] = "create" /\ copy[Spawner].status # "absent" /\ row.status \notin Ended
    BY <1>4, <1>a DEF CreateStep, IInv, Sound, TInv, Placed
  <2>2. /\ pc'[Spawner] \in {"create", "start"} /\ \A q \in Procs \ {Spawner} : pc'[q] = pc[q]
        /\ UNCHANGED <<row, copy>>
    BY <1>4, <1>a, <1>pl, GotoDo DEF CreateStep
  <2>3. Sound(Spawner)' /\ DoneMeansAllDone'
    BY <2>1, <2>2 DEF Sound, Kept, InLoop, AtCur, DoneMeansAllDone, Ended
  <2>. QED
    BY <1>a, <2>1, <2>2, <2>3, BusyStep DEF Busy
<1>5. CASE CreateFails
  BY <1>5, <1>a, EscapeIInv DEF CreateFails, Busy
<1>6. ASSUME NEW p \in Procs, Resume(p) PROVE IInv'
  <2>1. \A q \in Procs : pc[q] = "idle"
    BY <1>6 DEF Resume, Busy
  <2>2. row.status # "absent" /\ UNCHANGED <<row, step>>
    BY <1>6 DEF Resume, Resumable, db
  <2>3. /\ pc'[p] = "start" /\ \A q \in Procs \ {p} : pc'[q] = "idle"
        /\ copy'[p] = row /\ \A q \in Procs \ {p} : copy'[q] = copy[q]
    BY <1>6, <1>a, <1>pl, <2>1, GotoDo DEF Resume, Resumed, TypeOK
  <2>4. copy[Spawner] # NoRow /\ row # NoRow
    BY <2>2, NoRowType DEF IInv, Fresh
  <2>5. Alone' /\ Fresh' /\ DoneMeansAllDone'
    BY <1>a, <2>2, <2>3, <2>4 DEF Alone, Busy, Fresh, DoneMeansAllDone
  <2>6. \A q \in Procs : Sound(q)'
    BY <2>3 DEF Sound, Kept, InLoop, AtCur
  <2>. QED
    BY <1>a, <2>5, <2>6 DEF IInv
<1>7. ASSUME NEW p \in Procs, Crash(p) PROVE IInv'
  <2>1. /\ pc'[p] = "idle" /\ \A q \in Procs \ {p} : pc'[q] = pc[q]
        /\ UNCHANGED <<row, step, copy>> /\ copy[p].status # "absent"
    BY <1>7, <1>a, <1>pl, GotoDo DEF Crash, db, Busy, TInv, Placed
  <2>2. Sound(p)'
    BY <2>1 DEF Sound, Kept, InLoop, AtCur
  <2>. QED
    BY <1>7, <1>a, <2>1, <2>2, BusyStep DEF Crash, DoneMeansAllDone
<1>8. ASSUME NEW p \in Procs, StepRaises(p) PROVE IInv'
  <2>1. /\ pc[p] \in {"park", "finish step", "totals"}
        /\ pc'[p] = "failed" /\ \A q \in Procs \ {p} : pc'[q] = pc[q]
        /\ UNCHANGED <<row, step, copy, snap, cur>>
    BY <1>8, <1>a, <1>pl, GotoDo DEF StepRaises, db
  <2>2. copy[p].status # "absent" /\ Busy(p) /\ Sound(p)
    BY <1>a, <2>1 DEF Busy, TInv, Placed, IInv
  <2>3. Sound(p)'
    BY <2>1, <2>2 DEF Sound, Kept, InLoop, AtCur, Exists
  <2>. QED
    BY <1>a, <2>1, <2>2, <2>3, BusyStep DEF DoneMeansAllDone
<1>9. ASSUME NEW p \in Procs, ExecutionRaises(p) PROVE IInv'
  BY <1>9, <1>a, EscapeIInv DEF ExecutionRaises, Busy
<1>10. CASE CancelRead \/ Expire \/ UNCHANGED vars
  <2>1. UNCHANGED <<row, step, pc, copy, snap, cur>>
    BY <1>10 DEF CancelRead, Expire, vars, db, local
  <2>. QED
    BY <1>a, <2>1 DEF IInv, Alone, Fresh, Busy, DoneMeansAllDone, Sound, Kept, Exists, AllDone
<1>11. CASE CancelWrite
  <2>1. UNCHANGED <<step, pc, copy, snap, cur>>
    BY <1>11 DEF CancelWrite, local
  <2>2. [seen EXCEPT !.status = CancelStatus].status = "CANCELLED"
    BY <1>a DEF TypeOK, RunRow, CancelStatus
  <2>3. /\ Exists' <=> Exists
        /\ row'.status \notin Ended
        /\ row = NoRow => row' = NoRow
    BY <1>11, <2>2, RowDo, NoRowType DEF CancelWrite, UpdateRun, Exists, Ended
  <2>4. Alone' /\ Fresh' /\ DoneMeansAllDone'
    BY <2>1, <2>3 DEF IInv, Alone, Fresh, Busy, DoneMeansAllDone, Ended
  <2>5. \A q \in Procs : Sound(q)'
    BY <2>1, <2>3 DEF IInv, Sound, Kept, AllDone
  <2>. QED
    BY <1>a, <2>4, <2>5 DEF IInv
<1>12. CASE Cleanup
  <2>1. UNCHANGED <<pc, copy, snap, cur>> /\ row' = NoRow /\ ~Exists' /\ row'.status = "absent"
    BY <1>12, NoRowType DEF Cleanup, local, Exists
  <2>2. Alone' /\ Fresh' /\ DoneMeansAllDone'
    BY <2>1 DEF IInv, Alone, Fresh, Busy, DoneMeansAllDone
  <2>3. \A q \in Procs : Sound(q)'
    BY <2>1 DEF IInv, Sound, Ended
  <2>. QED
    BY <1>a, <2>2, <2>3 DEF IInv
<1>. QED
  BY <1>1, <1>2, <1>3, <1>4, <1>5, <1>6, <1>7, <1>8, <1>9, <1>10, <1>11, <1>12 DEF Next

\* Whatever fails, crashes, is cancelled or swept: as long as resume_run is not
\* called while the run is being executed, only a finished checklist ends DONE.
THEOREM DoneOnlyWhenAllDone ==
  ASSUME ~Overlap PROVE Spec => []DoneMeansAllDone
<1>1. Spec => []IInv
  BY InitIInv, NextIInv, PTL DEF Spec
<1>2. IInv => DoneMeansAllDone
  BY DEF IInv
<1>. QED
  BY <1>1, <1>2, PTL

-----------------------------------------------------------------------------
\* The budget of calls

\* Answers may be outstanding: made, and not in the totals yet.
Asked == {"park", "finish step", "totals"}
\* What crashes and errors may have kept out of the totals
Lost == 2 * (crashes + errs)

\* The row counts what the copy counts, and the copy what was made before this
\* step. The sweep spares the first execution: the run has not ended yet.
Charged(p) == Busy(p) =>
  /\ Exists => row.calls = copy[p].calls
  /\ copy[p].calls <= MaxCalls + 1
  /\ pc[p] \in Asked \cup {"llm"} => copy[p].calls < MaxCalls
  /\ pc[p] \in {"start", "loop", "llm"} => made <= copy[p].calls + Lost
  /\ pc[p] \in Asked => made <= copy[p].calls + answers[p] + Lost
  /\ p = Spawner /\ pc[p] # "summary" =>
       Exists /\ row.completed = 0 /\ copy[p].completed = 0

\* What the next execution takes over.
Ledger ==
  /\ made <= MaxCalls + 1 + Lost
  /\ row.calls <= MaxCalls + 1
  /\ Exists /\ (\A p \in Procs : pc[p] \notin Asked) => made <= row.calls + Lost

Budget ==
  /\ seen = NoRow
  /\ copy[Spawner] = NoRow => made = 0
  /\ Ledger
  /\ \A p \in Procs : Charged(p)

BInv == IInv /\ (cancels = 0 => Budget)

LEMMA InitBInv == Init => BInv
<1>1. Init => \A p \in Procs : pc[p] = "idle"
  BY DEF Init
<1>2. Init => row.calls = 0 /\ row.status = "absent" /\ made = 0 /\ Lost = 0
  BY DEF Init, NoRow, Lost
<1>3. Init => Ledger
  BY <1>2 DEF Ledger, Exists
<1>. QED
  BY <1>1, <1>2, <1>3, InitIInv DEF Init, BInv, Budget, Charged, Busy

\* The numbers, with their types.
LEMMA Numbers ==
  ASSUME TypeOK
  PROVE  /\ row.calls \in Nat /\ row.completed \in Nat /\ made \in Nat /\ old \in Nat
         /\ Lost \in Nat
         /\ \A p \in Procs : copy[p].calls \in Nat /\ copy[p].completed \in Nat
                             /\ answers[p] \in 0 .. 2
  BY DEF TypeOK, RunRow, Lost

\* A step of the process at work: only its own account, and the ledger, change.
LEMMA BusyBudget ==
  ASSUME IInv, Budget, NEW p \in Procs, Busy(p), seen' = seen,
         \A q \in Procs \ {p} : pc'[q] = pc[q] /\ copy'[q] = copy[q],
         copy'[p].status # "absent", Ledger', Charged(p)'
  PROVE  Budget'
<1>1. \A q \in Procs \ {p} : pc'[q] = "idle"
  BY DEF IInv, Alone, Busy
<1>2. \A q \in Procs \ {p} : Charged(q)'
  BY <1>1 DEF Charged, Busy
<1>3. copy[Spawner] # NoRow
  BY DEF IInv, Fresh
<1>4. copy'[Spawner] # NoRow
  BY <1>3, NoRowType DEF Procs
<1>. QED
  BY <1>2, <1>4 DEF Budget

LEMMA EscapeBudget ==
  ASSUME IInv, TypeOK', Budget, NEW p \in Procs, Busy(p), Escape(p),
         pc[p] # "summary", pc[p] \notin Asked, made' = made, Lost' \in {Lost, Lost + 2}
  PROVE  Budget'
<1>1. TypeOK /\ copy[p].status # "absent" /\ "idle" \in Places
  BY DEF IInv, TInv, Placed, Busy, Places
<1>2. pc'[p] = "idle" /\ \A q \in Procs \ {p} : pc'[q] = pc[q] /\ pc[q] = "idle"
  BY <1>1, GotoDo DEF Escape, IInv, Alone, Busy
<1>3. row'.calls = row.calls /\ (Exists' => Exists)
  BY <1>1 DEF Escape, Budget, Charged, Exists, TypeOK, RunRow
<1>4. /\ row.calls \in Nat /\ made \in Nat /\ Lost \in Nat /\ Lost' \in Nat
  <2>1. row.calls \in Nat /\ made \in Nat /\ Lost \in Nat
    BY <1>1, Numbers
  <2>. QED
    BY <2>1
<1>5. \A q \in Procs : pc[q] \notin Asked
  BY <1>2 DEF Asked
<1>6. Ledger'
  BY <1>3, <1>4, <1>5 DEF Budget, Ledger
<1>7. Charged(p)'
  BY <1>2 DEF Charged, Busy
<1>. QED
  BY <1>1, <1>2, <1>6, <1>7, BusyBudget DEF Escape

\* What update_run does to the numbers of the row
LEMMA RowNumbers ==
  ASSUME NEW r, r.status # "absent", UpdateRun(r)
  PROVE  /\ Exists' <=> Exists
         /\ Exists => row' = r
         /\ ~Exists => row' = row
  BY DEF UpdateRun, Exists

\* A step that leaves the numbers of row and copy alone, and no answer open.
LEMMA SameNumbers ==
  ASSUME IInv, TypeOK', Budget, NEW p \in Procs, Busy(p), pc'[p] # "idle",
         pc[p] \notin Asked, pc'[p] \notin Asked \cup {"llm"},
         pc[p] \in {"start", "loop", "llm"} \/ pc'[p] \notin {"start", "loop"},
         pc[p] # "summary", seen' = seen, made' = made, Lost' = Lost,
         \A q \in Procs \ {p} : pc'[q] = pc[q] /\ copy'[q] = copy[q],
         copy'[p].status # "absent", copy'[p].calls = copy[p].calls,
         copy'[p].completed = copy[p].completed,
         Exists' <=> Exists, row'.calls = row.calls,
         p = Spawner => row'.completed = row.completed
  PROVE  Budget'
<1>1. TypeOK /\ \A q \in Procs \ {p} : pc[q] = "idle"
  BY DEF IInv, TInv, Alone, Busy
<1>2. Charged(p)'
  BY DEF Budget, Charged, Busy
<1>3. \A q \in Procs : pc[q] \notin Asked
  BY <1>1 DEF Asked
<1>4. Ledger'
  BY <1>3 DEF Budget, Ledger
<1>. QED
  BY <1>2, <1>4, BusyBudget

LEMMA ExecuteBudget ==
  ASSUME IInv, TypeOK', Budget, NEW p \in Procs, Execute(p), Busy(p) PROVE Budget'
<1>a. /\ TypeOK /\ Placed(p) /\ Charged(p) /\ Ledger /\ copy[p].status # "absent"
      /\ \A q \in Procs \ {p} : pc[q] = "idle"
  BY DEF IInv, TInv, Placed, Alone, Busy, Budget
<1>n. /\ row.calls \in Nat /\ row.completed \in Nat /\ made \in Nat /\ Lost \in Nat
      /\ copy[p].calls \in Nat /\ copy[p].completed \in Nat /\ answers[p] \in 0 .. 2
      /\ MaxCalls \in Nat
  BY <1>a, Numbers
<1>st. /\ "RUNNING" \in RunStatuses /\ "TIMEOUT" \in RunStatuses /\ "CANCELLED" \in RunStatuses
       /\ "FAILED" \in RunStatuses /\ "COMPLETING" \in RunStatuses /\ "DONE" \in RunStatuses
  BY DEF RunStatuses
<1>pl. /\ "idle" \in Places /\ "loop" \in Places /\ "llm" \in Places /\ "park" \in Places
       /\ "finish step" \in Places /\ "totals" \in Places /\ "failed" \in Places
       /\ "finish" \in Places /\ "summary" \in Places
  BY DEF Places
<1>set. ASSUME NEW st \in RunStatuses, SetStatus(p, st)
        PROVE  /\ copy'[p].status = st /\ copy'[p].calls = copy[p].calls
               /\ copy'[p].completed = copy[p].completed
               /\ \A q \in Procs \ {p} : copy'[q] = copy[q]
  BY <1>a, <1>set DEF SetStatus, TypeOK, RunRow
<1>1. CASE Start(p)
  <2>1. /\ pc[p] = "start" /\ pc'[p] = "loop" /\ \A q \in Procs \ {p} : pc'[q] = pc[q]
        /\ UNCHANGED <<seen, made>> /\ Lost' = Lost
    BY <1>1, <1>a, <1>pl, GotoDo DEF Start, Lost
  <2>2. /\ copy'[p].status = "RUNNING" /\ copy'[p].calls = copy[p].calls
        /\ copy'[p].completed = copy[p].completed
        /\ \A q \in Procs \ {p} : copy'[q] = copy[q]
    BY <1>1, <1>st, <1>set DEF Start
  <2>3. /\ Exists' <=> Exists
        /\ Exists => row' = copy'[p]
        /\ ~Exists => row' = row
    BY <1>1, <2>2, RowNumbers DEF Start
  <2>4. row'.calls = row.calls /\ (p = Spawner => row'.completed = row.completed)
    BY <1>a, <2>1, <2>2, <2>3 DEF Charged, Busy
  <2>. QED
    BY <2>1, <2>2, <2>3, <2>4, SameNumbers DEF Asked
<1>2. CASE Skip(p)
  <2>1. /\ pc[p] = "loop" /\ UNCHANGED <<row, pc, copy, seen, made>> /\ Lost' = Lost
    BY <1>2 DEF Skip, db, history, Lost
  <2>. QED
    BY <1>a, <2>1, SameNumbers DEF Asked, Exists
<1>3. CASE OutOfBudget(p) \/ PollCancelled(p) \/ FailStep(p) \/ EndLoop(p)
  <2>1. PICK st \in RunStatuses \ {"absent"} : SetStatus(p, st)
    BY <1>3, <1>st DEF OutOfBudget, PollCancelled, FailStep, EndLoop
  <2>2. /\ pc[p] \in {"loop", "failed"} /\ pc'[p] = "finish"
        /\ \A q \in Procs \ {p} : pc'[q] = pc[q]
        /\ UNCHANGED <<row, seen, made>> /\ Lost' = Lost
    BY <1>3, <1>a, <1>pl, GotoDo
       DEF OutOfBudget, PollCancelled, FailStep, EndLoop, AtStep, db, history, Lost
  <2>. QED
    BY <1>set, <2>1, <2>2, SameNumbers DEF Asked, Exists
<1>4. CASE BeginStep(p)
  <2>1. /\ pc[p] = "loop" /\ pc'[p] = "llm" /\ \A q \in Procs \ {p} : pc'[q] = pc[q]
        /\ UNCHANGED <<row, copy, seen, made>> /\ Lost' = Lost
    BY <1>4, <1>a, <1>pl, GotoDo DEF BeginStep, AtStep, history, Lost
  <2>2. copy[p].calls < MaxCalls
    BY <1>4, <1>n DEF BeginStep, OutOfCalls
  <2>3. Charged(p)'
    BY <1>a, <2>1, <2>2 DEF Charged, Busy, Asked, Exists
  <2>4. Ledger'
    BY <1>a, <2>1 DEF Ledger, Exists, Asked
  <2>. QED
    BY <1>a, <2>1, <2>3, <2>4, BusyBudget
<1>5. CASE NoStepRow(p)
  <2>1. /\ pc[p] = "loop" /\ Escape(p) /\ made' = made /\ Lost' = Lost
    BY <1>5 DEF NoStepRow, history, Lost
  <2>. QED
    BY <2>1, EscapeBudget DEF Asked
<1>6. CASE NoAnswer(p)
  <2>1. /\ pc[p] = "llm" /\ pc'[p] = "failed" /\ \A q \in Procs \ {p} : pc'[q] = pc[q]
        /\ UNCHANGED <<row, copy, seen, made>> /\ Lost' = Lost
    BY <1>6, <1>a, <1>pl, GotoDo DEF NoAnswer, db, history, Lost
  <2>. QED
    BY <1>a, <2>1, SameNumbers DEF Asked, Exists
<1>7. CASE \E k \in 1 .. 2 : Answer(p, k)
  <2>1. PICK k \in 1 .. 2 : Answer(p, k)
    BY <1>7
  <2>2. /\ pc[p] = "llm" /\ pc'[p] = "park" /\ \A q \in Procs \ {p} : pc'[q] = pc[q]
        /\ UNCHANGED <<row, copy, seen>> /\ Lost' = Lost
        /\ made' = made + k /\ answers'[p] = k
    BY <2>1, <1>a, <1>pl, GotoDo DEF Answer, db, Lost, TypeOK
  <2>3. copy[p].calls < MaxCalls /\ made <= copy[p].calls + Lost
    BY <1>a, <2>2 DEF Charged, Busy
  <2>4. /\ made' <= copy[p].calls + k + Lost /\ made' <= MaxCalls + 1 + Lost
    BY <1>n, <2>2, <2>3
  <2>5. Charged(p)'
    BY <1>a, <2>2, <2>3, <2>4 DEF Charged, Busy, Asked, Exists
  <2>6. Ledger'
    BY <1>a, <2>2, <2>4 DEF Ledger, Exists, Asked
  <2>. QED
    BY <1>a, <2>2, <2>5, <2>6, BusyBudget
<1>8. CASE ParkActions(p) \/ FinishStep(p) \/ (Totals(p) /\ ~Exists)
  <2>1. PICK place \in {"finish step", "totals", "failed"} :
          Goto(p, place) /\ (place = "failed" => ~Exists)
    BY <1>8 DEF ParkActions, FinishStep, Totals
  <2>2. /\ pc[p] \in Asked /\ pc'[p] = place /\ \A q \in Procs \ {p} : pc'[q] = pc[q]
        /\ UNCHANGED <<row, copy, answers, seen, made>> /\ Lost' = Lost
    BY <1>8, <1>a, <1>pl, <2>1, GotoDo DEF ParkActions, FinishStep, Totals, Asked, history, Lost
  <2>3. Charged(p)'
    BY <1>a, <2>1, <2>2 DEF Charged, Busy, Asked, Exists
  <2>4. Ledger'
    BY <1>a, <2>1, <2>2 DEF Ledger, Exists, Asked
  <2>. QED
    BY <1>a, <2>2, <2>3, <2>4, BusyBudget
<1>9. CASE Totals(p) /\ Exists
  <2>1. /\ pc[p] = "totals" /\ pc'[p] = "loop" /\ \A q \in Procs \ {p} : pc'[q] = pc[q]
        /\ UNCHANGED <<seen, made>> /\ Lost' = Lost
    BY <1>9, <1>a, <1>pl, GotoDo DEF Totals, history, Lost
  <2>2. /\ copy'[p].status = copy[p].status /\ copy'[p].completed = copy[p].completed
        /\ copy'[p].calls = copy[p].calls + answers[p]
        /\ \A q \in Procs \ {p} : copy'[q] = copy[q]
    BY <1>9, <1>a DEF Totals, TypeOK, RunRow
  <2>3. Exists' /\ row' = copy'[p]
    BY <1>9, <1>a, <2>2, RowNumbers DEF Totals
  <2>4. /\ copy[p].calls < MaxCalls /\ made <= copy[p].calls + answers[p] + Lost
        /\ p = Spawner => copy[p].completed = 0
    BY <1>a, <2>1 DEF Charged, Busy, Asked
  <2>5. copy[p].calls + answers[p] <= MaxCalls + 1
    BY <1>n, <2>4
  <2>6. Charged(p)'
    BY <2>1, <2>2, <2>3, <2>4, <2>5 DEF Charged, Asked
  <2>7. Ledger'
    BY <1>a, <2>1, <2>2, <2>3, <2>4, <2>5 DEF Ledger
  <2>. QED
    BY <1>a, <2>1, <2>2, <2>6, <2>7, BusyBudget
<1>10. CASE Finish(p) \/ Summarise(p)
  <2>1. PICK place \in {"summary", "idle"} : Goto(p, place)
    BY <1>10 DEF Finish, Summarise
  <2>2. /\ pc[p] \in {"finish", "summary"}
        /\ pc'[p] = place /\ \A q \in Procs \ {p} : pc'[q] = pc[q]
        /\ UNCHANGED <<seen, made>> /\ Lost' = Lost
    BY <1>10, <1>a, <1>pl, <2>1, GotoDo DEF Finish, Summarise, history, Lost
  <2>3. /\ copy'[p].status # "absent" /\ copy'[p].calls = copy[p].calls
        /\ \A q \in Procs \ {p} : copy'[q] = copy[q]
    <3>1. CASE Finish(p)
      BY <3>1, <1>a DEF Finish, TypeOK, RunRow
    <3>2. CASE Summarise(p)
      BY <3>2, <1>st, <1>set DEF Summarise
    <3>. QED
      BY <1>10, <3>1, <3>2
  <2>4. UpdateRun(copy'[p])
    BY <1>10 DEF Finish, Summarise
  <2>5. /\ Exists' <=> Exists
        /\ Exists => row' = copy'[p]
        /\ ~Exists => row' = row
    BY <2>3, <2>4, RowNumbers
  <2>6. row'.calls = row.calls
    BY <1>a, <2>2, <2>3, <2>5 DEF Charged, Busy
  <2>7. Charged(p)'
    BY <1>a, <2>2, <2>3, <2>5 DEF Charged, Busy, Asked
  <2>8. \A q \in Procs : pc[q] \notin Asked
    BY <1>a, <2>2 DEF Asked
  <2>9. Ledger'
    BY <1>a, <2>2, <2>5, <2>6, <2>8 DEF Ledger
  <2>. QED
    BY <2>2, <2>3, <2>7, <2>9, BusyBudget
<1>. QED
  BY <1>1, <1>2, <1>3, <1>4, <1>5, <1>6, <1>7, <1>8, <1>9, <1>10 DEF Execute

LEMMA NextBInv ==
  ASSUME ~Overlap PROVE BInv /\ [Next]_vars => BInv'
<1>. SUFFICES ASSUME BInv, [Next]_vars PROVE BInv'
  OBVIOUS
<1>a. /\ IInv /\ IInv' /\ TypeOK /\ TypeOK' /\ Spawner \in Procs
  BY NextIInv DEF BInv, IInv, TInv, Procs
<1>b. SUFFICES ASSUME cancels' = 0 PROVE Budget'
  BY <1>a DEF BInv
<1>n. /\ row.calls \in Nat /\ made \in Nat /\ Lost \in Nat /\ MaxCalls \in Nat
      /\ \A q \in Procs : copy[q].calls \in Nat /\ answers[q] \in 0 .. 2
  BY <1>a, Numbers
<1>e. /\ crashes' = crashes + 1 /\ errs' = errs => Lost' = Lost + 2
      /\ crashes' = crashes /\ errs' = errs + 1 => Lost' = Lost + 2
  <2>1. crashes \in Nat /\ errs \in Nat
    BY <1>a DEF TypeOK
  <2>. QED
    BY <2>1 DEF Lost
<1>pl. /\ "idle" \in Places /\ "create" \in Places /\ "start" \in Places /\ "failed" \in Places
  BY DEF Places
<1>1. CASE CancelRead
  <2>1. cancels \in Nat /\ cancels' = cancels + 1
    BY <1>1, <1>a DEF CancelRead, TypeOK
  <2>. QED
    BY <1>b, <2>1
<1>2. CASE CancelWrite
  <2>1. cancels = 0 /\ seen # NoRow
    BY <1>2, <1>b DEF CancelWrite
  <2>. QED
    BY <2>1 DEF BInv, Budget
<1>. SUFFICES ASSUME ~CancelRead, ~CancelWrite PROVE Budget'
  BY <1>1, <1>2
<1>3. Budget
  <2>1. cancels' = cancels
    BY ZenonT(60) DEF Next, Execute, Spawn, SpawnRaises, CreateStep, CreateFails, Resume, Crash,
       StepRaises, ExecutionRaises, Expire, Cleanup, vars, history, Start, Skip,
       OutOfBudget, PollCancelled, BeginStep, NoStepRow, NoAnswer, Answer, ParkActions,
       FinishStep, Totals, FailStep, EndLoop, Finish, Summarise
  <2>. QED
    BY <1>b, <2>1 DEF BInv
<1>4. ASSUME NEW p \in Procs, Execute(p) PROVE Budget'
  <2>1. Busy(p)
    BY <1>4 DEF Execute, Busy, Start, Skip, OutOfBudget, PollCancelled, BeginStep, AtStep,
       NoStepRow, NoAnswer, Answer, ParkActions, FinishStep, Totals, FailStep, EndLoop,
       Finish, Summarise
  <2>. QED
    BY <1>3, <1>4, <1>a, <2>1, ExecuteBudget
<1>5. CASE Spawn
  <2>1. made = 0 /\ \A q \in Procs : pc[q] = "idle"
    BY <1>3, <1>5, <1>a DEF Spawn, Budget, IInv, Fresh, Busy
  <2>2. /\ row' = [NoRow EXCEPT !.status = "SPAWNED"] /\ copy'[Spawner] = row'
        /\ pc'[Spawner] = "create" /\ \A q \in Procs \ {Spawner} : pc'[q] = "idle"
        /\ UNCHANGED <<seen, made>> /\ Lost' = Lost
    BY <1>5, <1>a, <1>pl, <2>1, GotoDo DEF Spawn, history, Lost, TypeOK
  <2>3. row'.calls = 0 /\ row'.completed = 0 /\ row'.status = "SPAWNED"
    BY <2>2 DEF NoRow
  <2>4. Ledger'
    BY <1>n, <2>1, <2>2, <2>3 DEF Ledger
  <2>5. \A q \in Procs : Charged(q)'
    <3>1. Exists' /\ 0 <= MaxCalls + 1
      BY <1>n, <2>3 DEF Exists
    <3>2. Charged(Spawner)'
      BY <2>2, <2>3, <3>1 DEF Charged, Asked
    <3>3. \A q \in Procs \ {Spawner} : Charged(q)'
      BY <2>2 DEF Charged, Busy
    <3>. QED
      BY <3>2, <3>3
  <2>. QED
    BY <1>3, <2>1, <2>2, <2>4, <2>5 DEF Budget
<1>6. CASE SpawnRaises
  <2>1. made = 0 /\ \A q \in Procs : pc[q] = "idle"
    BY <1>3, <1>6, <1>a DEF SpawnRaises, Budget, IInv, Fresh, Busy
  <2>2. /\ row' = [NoRow EXCEPT !.status = "FAILED"]
        /\ UNCHANGED <<pc, seen, made>> /\ Lost' = Lost + 2
    BY <1>6, <1>e DEF SpawnRaises, Err
  <2>3. row'.calls = 0
    BY <2>2 DEF NoRow
  <2>4. Ledger' /\ \A q \in Procs : Charged(q)'
    BY <1>n, <2>1, <2>2, <2>3 DEF Ledger, Charged, Busy
  <2>. QED
    BY <1>3, <2>1, <2>2, <2>4 DEF Budget
<1>7. CASE CreateStep
  <2>1. /\ pc[Spawner] = "create" /\ Charged(Spawner) /\ Ledger /\ copy[Spawner].status # "absent"
        /\ \A q \in Procs \ {Spawner} : pc[q] = "idle"
    BY <1>3, <1>7, <1>a DEF CreateStep, Budget, IInv, TInv, Placed, Alone, Busy
  <2>2. /\ pc'[Spawner] \in {"create", "start"} /\ \A q \in Procs \ {Spawner} : pc'[q] = pc[q]
        /\ UNCHANGED <<row, copy, seen, made>> /\ Lost' = Lost
    BY <1>7, <1>a, <1>pl, GotoDo DEF CreateStep, history, Lost
  <2>3. Exists /\ made <= row.calls + Lost
    BY <2>1 DEF Charged, Busy, Ledger, Asked
  <2>4. Charged(Spawner)' /\ Ledger'
    BY <2>1, <2>2, <2>3 DEF Charged, Ledger, Busy, Asked, Exists
  <2>. QED
    BY <1>3, <1>a, <2>1, <2>2, <2>4, BusyBudget DEF Busy
<1>8. ASSUME NEW p \in Procs, (CreateFails /\ p = Spawner) \/ ExecutionRaises(p) PROVE Budget'
  <2>1. /\ pc[p] \in {"create", "start", "loop", "failed", "finish"}
        /\ Escape(p) /\ made' = made /\ Lost' = Lost + 2
    BY <1>8, <1>e DEF CreateFails, ExecutionRaises, Err
  <2>. QED
    BY <1>3, <1>a, <2>1, EscapeBudget DEF Busy, Asked
<1>9. ASSUME NEW p \in Procs, Resume(p) PROVE Budget'
  <2>1. p # Spawner /\ row.status # "absent" /\ \A q \in Procs : pc[q] = "idle"
    BY <1>9 DEF Resume, Busy, Resumable
  <2>2. /\ pc'[p] = "start" /\ \A q \in Procs \ {p} : pc'[q] = "idle"
        /\ copy'[p] = row /\ \A q \in Procs \ {p} : copy'[q] = copy[q]
        /\ UNCHANGED <<row, seen, made>> /\ Lost' = Lost
    BY <1>9, <1>a, <1>pl, <2>1, GotoDo DEF Resume, Resumed, db, Lost, TypeOK
  <2>3. row.calls <= MaxCalls + 1 /\ made <= row.calls + Lost
    BY <1>3, <2>1 DEF Budget, Ledger, Exists, Asked
  <2>4. \A q \in Procs : Charged(q)'
    BY <2>1, <2>2, <2>3 DEF Charged, Busy, Asked
  <2>5. Ledger'
    BY <1>3, <2>2, <2>3 DEF Budget, Ledger
  <2>6. copy'[Spawner] = copy[Spawner]
    BY <1>a, <2>1, <2>2
  <2>. QED
    BY <1>3, <2>2, <2>4, <2>5, <2>6 DEF Budget
<1>10. ASSUME NEW p \in Procs, Crash(p) \/ StepRaises(p) PROVE Budget'
  <2>1. PICK place \in {"idle", "failed"} :
          Goto(p, place) /\ (place = "failed" => pc[p] \in Asked)
    BY <1>10 DEF Crash, StepRaises, Asked
  <2>2. /\ pc'[p] = place /\ \A q \in Procs \ {p} : pc'[q] = pc[q]
        /\ UNCHANGED <<row, copy, answers, seen, made>> /\ Lost' = Lost + 2
    BY <1>10, <1>a, <1>e, <1>pl, <2>1, GotoDo DEF Crash, StepRaises, Err, db
  <2>3. /\ Busy(p) /\ Charged(p) /\ Ledger /\ copy[p].status # "absent"
        /\ \A q \in Procs \ {p} : pc[q] = "idle"
    BY <1>3, <1>10, <1>a DEF Crash, StepRaises, Budget, IInv, TInv, Placed, Alone, Busy
  <2>4. pc[p] \in Asked => made <= copy[p].calls + answers[p] + Lost
    BY <2>3 DEF Charged
  <2>5. Exists => made <= row.calls + Lost'
    <3>1. CASE pc[p] \in Asked
      BY <1>n, <2>2, <2>3, <2>4, <3>1 DEF Charged
    <3>2. CASE pc[p] \notin Asked
      <4>1. \A q \in Procs : pc[q] \notin Asked
        BY <2>3, <3>2 DEF Asked
      <4>. QED
        BY <1>n, <2>2, <2>3, <4>1 DEF Ledger
    <3>. QED
      BY <3>1, <3>2
  <2>6. Ledger'
    BY <1>n, <2>2, <2>3, <2>5 DEF Ledger, Exists
  <2>7. Charged(p)'
    BY <2>1, <2>2, <2>3 DEF Charged, Busy, Asked, Exists
  <2>. QED
    BY <1>3, <1>a, <2>2, <2>3, <2>6, <2>7, BusyBudget
<1>11. CASE Expire \/ UNCHANGED vars
  <2>1. UNCHANGED <<row, pc, copy, answers, seen, made>> /\ Lost' = Lost
    BY <1>11 DEF Expire, vars, db, local, history, Lost
  <2>2. Ledger' /\ \A q \in Procs : Charged(q)'
    BY <1>3, <2>1 DEF Budget, Ledger, Charged, Busy, Exists
  <2>. QED
    BY <1>3, <2>1, <2>2 DEF Budget
<1>12. CASE Cleanup
  <2>1. /\ UNCHANGED <<pc, copy, answers, seen, made>> /\ Lost' = Lost
        /\ row' = NoRow /\ ~Exists' /\ row.completed # 0
    BY <1>12, NoRowType DEF Cleanup, Swept, Expired, local, history, Exists, Lost
  <2>2. row'.calls = 0
    BY <2>1 DEF NoRow
  <2>3. Ledger'
    BY <1>3, <1>n, <2>1, <2>2 DEF Budget, Ledger
  <2>4. ASSUME NEW q \in Procs PROVE Charged(q)'
    <3>1. Charged(q)
      BY <1>3 DEF Budget
    <3>2. pc'[q] = pc[q] /\ copy'[q] = copy[q] /\ answers'[q] = answers[q]
      BY <2>1
    <3>. QED
      BY <2>1, <3>1, <3>2 DEF Charged, Busy
  <2>. QED
    BY <1>3, <2>1, <2>3, <2>4 DEF Budget
<1>. QED
  BY <1>a, <1>4, <1>5, <1>6, <1>7, <1>8, <1>9, <1>10, <1>11, <1>12 DEF Next

\* The calls of all executions together stay within the budget, but for a second
\* call and for the steps that were cut short.
THEOREM CallsStayBudgeted ==
  ASSUME ~Overlap PROVE Spec => []CallsBudgeted
<1>1. Spec => []BInv
  BY InitBInv, NextBInv, PTL DEF Spec
<1>2. BInv => CallsBudgeted
  BY DEF BInv, Budget, Ledger, Lost, CallsBudgeted
<1>. QED
  BY <1>1, <1>2, PTL
-----------------------------------------------------------------------------
\* A step recorded DONE is not run again

\* The steps an execution has before it are DONE only if it has seen that.
Ahead(p) == pc[p] \in InLoop =>
  \A s \in Steps : (s > cur[p] \/ (s = cur[p] /\ pc[p] = "loop")) /\ step[s] = "DONE"
                     => s \in snap[p].done

KInv ==
  /\ copy[Spawner] = NoRow => \A s \in Steps : step[s] = "absent"
  /\ pc[Spawner] = "create" => \A s \in Steps : s >= cur[Spawner] => step[s] # "DONE"
  /\ \A p \in Procs : Ahead(p)

\* What the one execution at work does to the rows of the steps is all there is to see.
LEMMA WorkKInv ==
  ASSUME IInv, IInv', KInv, NEW p \in Procs, Busy(p), pc'[p] # "create",
         \A q \in Procs \ {p} : pc'[q] = pc[q],
         copy'[p] # NoRow, \A q \in Procs \ {p} : copy'[q] = copy[q],
         Ahead(p)'
  PROVE  KInv'
<1>1. \A q \in Procs \ {p} : pc'[q] = "idle"
  BY DEF IInv, Alone, Busy
<1>2. \A q \in Procs : Ahead(q)'
  BY <1>1 DEF Ahead, InLoop, AtCur
<1>3. pc'[Spawner] # "create"
  BY <1>1 DEF Procs
<1>4. copy[Spawner] # NoRow
  BY DEF IInv, Fresh
<1>5. copy'[Spawner] # NoRow
  BY <1>4 DEF Procs
<1>. QED
  BY <1>2, <1>3, <1>5 DEF KInv

\* Every step of an execution moves its own process only, and keeps a copy.
LEMMA ExecuteMoves ==
  ASSUME IInv, IInv', NEW p \in Procs, Execute(p) \/ StepRaises(p) \/ ExecutionRaises(p) \/ Crash(p)
  PROVE  /\ Busy(p) /\ \A q \in Procs \ {p} : pc'[q] = pc[q] /\ copy'[q] = copy[q]
         /\ copy'[p] # NoRow /\ pc'[p] # "create"
<1>a. TypeOK /\ pc \in [Procs -> Places] /\ copy \in [Procs -> RunRow]
  BY DEF IInv, TInv, TypeOK
<1>1. Busy(p)
  BY DEF Execute, Busy, Start, Skip, OutOfBudget, PollCancelled, BeginStep, AtStep, NoStepRow,
     NoAnswer, Answer, ParkActions, FinishStep, Totals, FailStep, EndLoop, Finish, Summarise,
     StepRaises, ExecutionRaises, Crash
<1>2. PICK place : place # "create" /\ pc' = [pc EXCEPT ![p] = place]
  <2>1. CASE Skip(p)
    <3>1. pc[p] = "loop" /\ pc' = [pc EXCEPT ![p] = "loop"]
      BY <2>1, <1>a DEF Skip
    <3>. QED
      BY <3>1
  <2>2. CASE Finish(p)
    <3>1. \E place \in {"summary", "idle"} : pc' = [pc EXCEPT ![p] = place]
      BY <2>2 DEF Finish, Goto
    <3>. QED
      BY <3>1
  <2>3. CASE Totals(p)
    <3>1. \E place \in {"loop", "failed"} : pc' = [pc EXCEPT ![p] = place]
      BY <2>3 DEF Totals, Goto
    <3>. QED
      BY <3>1
  <2>4. CASE ParkActions(p)
    <3>1. \E place \in {"finish step", "failed"} : pc' = [pc EXCEPT ![p] = place]
      BY <2>4 DEF ParkActions, Goto
    <3>. QED
      BY <3>1
  <2>5. CASE Start(p) \/ OutOfBudget(p) \/ PollCancelled(p) \/ BeginStep(p) \/ NoStepRow(p)
              \/ NoAnswer(p) \/ (\E k \in 1 .. 2 : Answer(p, k)) \/ FinishStep(p) \/ FailStep(p)
              \/ EndLoop(p) \/ Summarise(p) \/ StepRaises(p) \/ ExecutionRaises(p) \/ Crash(p)
    <3>1. \E place \in {"loop", "finish", "llm", "idle", "failed", "park", "totals"} :
             pc' = [pc EXCEPT ![p] = place]
      BY <2>5 DEF Start, OutOfBudget, PollCancelled, BeginStep, NoStepRow, Escape, NoAnswer, Answer,
         FinishStep, FailStep, EndLoop, Summarise, StepRaises, ExecutionRaises, Crash, Goto
    <3>. QED
      BY <3>1
  <2>. QED
    BY <2>1, <2>2, <2>3, <2>4, <2>5 DEF Execute
<1>3. \A q \in Procs \ {p} : copy'[q] = copy[q]
  BY <1>a DEF Execute, Start, Skip, OutOfBudget, PollCancelled, BeginStep, NoStepRow, Escape,
     NoAnswer, Answer, ParkActions, FinishStep, Totals, FailStep, EndLoop, Finish, Summarise,
     StepRaises, ExecutionRaises, Crash, SetStatus
<1>4. copy'[p].status # "absent"
  <2>1. copy[p].status # "absent"
    BY <1>1 DEF IInv, TInv, Placed, Busy
  <2>2. CASE copy' = copy
    BY <2>1, <2>2
  <2>3. CASE Totals(p) \/ Finish(p)
    BY <2>1, <2>3, <1>a DEF Totals, Finish, RunRow
  <2>4. CASE \E st \in RunStatuses \ {"absent"} : SetStatus(p, st)
    BY <2>4, <1>a DEF SetStatus, RunRow
  <2>5. CASE Start(p) \/ OutOfBudget(p) \/ PollCancelled(p) \/ FailStep(p) \/ EndLoop(p) \/ Summarise(p)
    BY <2>4, <2>5 DEF Start, OutOfBudget, PollCancelled, FailStep, EndLoop, Summarise, RunStatuses
  <2>. QED
    BY <2>2, <2>3, <2>5 DEF Execute, Skip, BeginStep, NoStepRow, Escape, NoAnswer, Answer,
       ParkActions, FinishStep, StepRaises, ExecutionRaises, Crash
<1>5. copy'[p] # NoRow
  BY <1>4 DEF NoRow
<1>6. pc'[p] # "create" /\ \A q \in Procs \ {p} : pc'[q] = pc[q]
  BY <1>2, <1>a
<1>. QED
  BY <1>1, <1>3, <1>5, <1>6

\* UpdateStep touches one row, and only if it is there.
LEMMA OneStepWritten ==
  ASSUME TypeOK, NEW s \in Steps, NEW st \in StepStatuses, UpdateStep(s, st)
  PROVE  /\ \A t \in Steps \ {s} : step'[t] = step[t]
         /\ step'[s] = IF step[s] = "absent" THEN "absent" ELSE st
  BY DEF UpdateStep, TypeOK

LEMMA ExecuteKInv ==
  ASSUME IInv, IInv', KInv, NEW p \in Procs,
         Execute(p) \/ StepRaises(p) \/ ExecutionRaises(p) \/ Crash(p)
  PROVE  KInv'
<1>a. /\ TypeOK /\ Placed(p) /\ Ahead(p) /\ cur[p] \in 1 .. (N + 1)
      /\ pc \in [Procs -> Places] /\ snap \in [Procs -> Snapshot]
  BY DEF IInv, TInv, KInv, TypeOK
<1>b. Ahead(p)' => KInv'
  BY ExecuteMoves, WorkKInv
<1>s. "RUNNING" \in StepStatuses /\ "DONE" \in StepStatuses /\ "FAILED" \in StepStatuses
  BY DEF StepStatuses
<1>1. CASE pc'[p] \notin InLoop
  BY <1>1, <1>b DEF Ahead
<1>2. CASE Start(p)
  <2>1. snap'[p].done = Checkpoints /\ step' = step
    BY <1>2, <1>a DEF Start
  <2>. QED
    BY <2>1, <1>b DEF Ahead, Checkpoints
<1>3. CASE Skip(p)
  <2>1. /\ pc[p] = "loop" /\ pc'[p] = "loop" /\ cur'[p] = cur[p] + 1
        /\ UNCHANGED <<step, snap>>
    BY <1>3, <1>a DEF Skip, db, TypeOK
  <2>2. \A s \in Steps : s > cur[p] + 1 \/ s = cur[p] + 1 => s > cur[p]
    BY <1>a DEF Steps
  <2>. QED
    BY <1>a, <1>b, <2>1, <2>2 DEF Ahead, InLoop
<1>4. CASE BeginStep(p)
  <2>1. /\ pc[p] = "loop" /\ pc'[p] = "llm" /\ cur[p] \in Steps
        /\ UNCHANGED <<snap, cur>> /\ UpdateStep(cur[p], "RUNNING")
    BY <1>4, <1>a DEF BeginStep, AtStep, Goto, Steps
  <2>2. \A s \in Steps : s > cur[p] => step'[s] = step[s]
    BY <1>a, <1>s, <2>1, OneStepWritten DEF Steps
  <2>. QED
    BY <1>a, <1>b, <2>1, <2>2 DEF Ahead, InLoop
<1>5. CASE NoAnswer(p) \/ (\E k \in 1 .. 2 : Answer(p, k)) \/ ParkActions(p) \/ StepRaises(p)
  <2>1. /\ pc[p] \in AtCur /\ pc'[p] # "loop"
        /\ UNCHANGED <<snap, cur, step>>
    BY <1>5, <1>a DEF NoAnswer, Answer, ParkActions, StepRaises, Goto, db, AtCur
  <2>. QED
    BY <1>a, <1>b, <2>1 DEF Ahead, InLoop
<1>6. CASE FinishStep(p)
  <2>1. /\ pc[p] = "finish step" /\ pc'[p] = "totals" /\ cur[p] \in Steps
        /\ UNCHANGED <<snap, cur>> /\ UpdateStep(cur[p], "DONE")
    BY <1>6, <1>a DEF FinishStep, Goto, Placed, AtCur
  <2>2. \A s \in Steps : s > cur[p] => s # cur[p]
    BY <1>a DEF Steps
  <2>3. \A s \in Steps : s > cur[p] => step'[s] = step[s]
    BY <1>a, <1>s, <2>1, <2>2, OneStepWritten
  <2>. QED
    BY <1>a, <1>b, <2>1, <2>3 DEF Ahead, InLoop, AtCur
<1>7. CASE Totals(p)
  <2>1. pc[p] = "totals" /\ UNCHANGED <<step, snap>>
    BY <1>7 DEF Totals
  <2>2. CASE cur' = [cur EXCEPT ![p] = @ + 1]
    <3>1. cur'[p] = cur[p] + 1
      BY <2>2 DEF IInv, TInv, TypeOK
    <3>2. \A s \in Steps : s > cur[p] + 1 \/ s = cur[p] + 1 => s > cur[p]
      BY <1>a DEF Steps
    <3>. QED
      BY <1>a, <1>b, <2>1, <3>1, <3>2 DEF Ahead, InLoop, AtCur
  <2>3. CASE pc'[p] = "failed" /\ cur' = cur
    BY <1>a, <1>b, <2>1, <2>3 DEF Ahead, InLoop, AtCur
  <2>. QED
    BY <1>7, <1>a, <2>2, <2>3 DEF Totals, Goto
<1>8. OutOfBudget(p) \/ PollCancelled(p) \/ NoStepRow(p) \/ FailStep(p) \/ EndLoop(p) \/ Finish(p)
        \/ Summarise(p) \/ ExecutionRaises(p) \/ Crash(p) => pc'[p] \notin InLoop
  BY <1>a DEF OutOfBudget, PollCancelled, NoStepRow, FailStep, EndLoop, Finish, Summarise,
     ExecutionRaises, Crash, Escape, Goto, InLoop, AtCur
<1>. QED
  BY <1>1, <1>2, <1>3, <1>4, <1>5, <1>6, <1>7, <1>8 DEF Execute

LEMMA NextKInv == ASSUME IInv, IInv', KInv, [Next]_vars PROVE KInv'
<1>a. /\ TypeOK /\ Spawner \in Procs /\ pc \in [Procs -> Places] /\ cur \in [Procs -> 1 .. (N + 1)]
  BY DEF IInv, TInv, TypeOK, Procs
<1>1. CASE Spawn
  <2>1. /\ \A s \in Steps : step[s] = "absent" /\ step' = step
    BY <1>1 DEF Spawn, KInv
  <2>2. copy'[Spawner].status = "SPAWNED"
    BY <1>1, <1>a DEF Spawn, NoRow, TypeOK
  <2>3. copy'[Spawner] # NoRow
    BY <2>2 DEF NoRow
  <2>. QED
    BY <2>1, <2>3 DEF KInv, Ahead
<1>2. CASE SpawnRaises
  <2>1. UNCHANGED <<step, pc, cur, snap>> /\ \A s \in Steps : step[s] = "absent"
    BY <1>2 DEF SpawnRaises, KInv
  <2>. QED
    BY <2>1 DEF KInv, Ahead
<1>3. CASE CreateStep
  <2>1. /\ pc[Spawner] = "create" /\ copy' = copy /\ copy[Spawner] # NoRow
        /\ \A q \in Procs \ {Spawner} : pc[q] = "idle" /\ pc'[q] = pc[q]
        /\ pc'[Spawner] \notin InLoop
    BY <1>3, <1>a DEF CreateStep, Goto, IInv, Alone, Fresh, Busy, InLoop, AtCur
  <2>2. \A q \in Procs : Ahead(q)'
    BY <2>1 DEF Ahead, InLoop, AtCur
  <2>3. ASSUME pc'[Spawner] = "create", NEW s \in Steps, s >= cur'[Spawner]
        PROVE  step'[s] # "DONE"
    <3>1. cur'[Spawner] = cur[Spawner] + 1
      BY <1>3, <1>a, <2>3 DEF CreateStep, Goto
    <3>2. s > cur[Spawner] /\ s # cur[Spawner] /\ s >= cur[Spawner]
      BY <1>a, <2>3, <3>1 DEF Steps
    <3>3. step'[s] = step[s]
      BY <1>3, <1>a, <3>2 DEF CreateStep, TypeOK
    <3>. QED
      BY <2>1, <3>2, <3>3 DEF KInv
  <2>. QED
    BY <2>1, <2>2, <2>3 DEF KInv
<1>4. CASE CreateFails
  <2>1. /\ pc[Spawner] = "create" /\ copy' = copy /\ copy[Spawner] # NoRow
        /\ \A q \in Procs : pc'[q] = "idle"
    BY <1>4, <1>a DEF CreateFails, Escape, Goto, IInv, Alone, Fresh, Busy
  <2>. QED
    BY <1>a, <2>1 DEF KInv, Ahead, InLoop, AtCur
<1>5. ASSUME NEW p \in Procs, Resume(p) PROVE KInv'
  <2>1. /\ p # Spawner /\ pc' = [pc EXCEPT ![p] = "start"] /\ UNCHANGED <<step, snap, cur>>
        /\ copy' = [copy EXCEPT ![p] = row]
    BY <1>5 DEF Resume, Resumed, Goto, db, Procs, SubagentAssumption
  <2>2. copy'[Spawner] = copy[Spawner] /\ pc'[Spawner] = pc[Spawner]
    BY <1>a, <2>1 DEF TypeOK
  <2>3. \A q \in Procs : pc'[q] = pc[q] \/ pc'[q] = "start"
    BY <1>a, <2>1
  <2>. QED
    BY <2>1, <2>2, <2>3 DEF KInv, Ahead, InLoop, AtCur
<1>6. CASE Cleanup
  <2>1. UNCHANGED <<pc, copy, snap, cur>> /\ \A s \in Steps : step'[s] = "absent"
    BY <1>6 DEF Cleanup, local
  <2>. QED
    BY <2>1 DEF KInv, Ahead
<1>7. CASE CancelRead \/ CancelWrite \/ Expire \/ UNCHANGED vars
  <2>1. UNCHANGED <<pc, copy, snap, cur, step>>
    BY <1>7 DEF CancelRead, CancelWrite, Expire, vars, db, local
  <2>. QED
    BY <2>1 DEF KInv, Ahead
<1>. QED
  BY <1>1, <1>2, <1>3, <1>4, <1>5, <1>6, <1>7, ExecuteKInv DEF Next

\* The rows a step of the system takes the status DONE from.
LEMMA DoneIsKept ==
  ASSUME IInv, KInv, [Next]_vars, NEW s \in Steps, step[s] = "DONE", step'[s] # "DONE"
  PROVE  step'[s] = "absent" \/ \E p \in Procs : pc[p] = "failed" /\ cur[p] = s
<1>a. TypeOK /\ \A p \in Procs : Placed(p)
  BY DEF IInv, TInv
<1>s. "RUNNING" \in StepStatuses /\ "DONE" \in StepStatuses /\ "FAILED" \in StepStatuses
  BY DEF StepStatuses
<1>1. CASE CreateStep
  <2>1. pc[Spawner] = "create" /\ step' = [step EXCEPT ![cur[Spawner]] = "PENDING"]
    BY <1>1 DEF CreateStep
  <2>2. s = cur[Spawner]
    BY <1>a, <2>1 DEF TypeOK
  <2>3. s >= cur[Spawner]
    BY <2>2 DEF Steps
  <2>. QED
    BY <2>1, <2>3 DEF KInv
<1>2. ASSUME NEW p \in Procs, BeginStep(p) PROVE FALSE
  <2>1. cur[p] \in 1 .. (N + 1)
    BY <1>a DEF TypeOK
  <2>2. /\ cur[p] \in Steps /\ pc[p] = "loop" /\ cur[p] \notin snap[p].done
        /\ UpdateStep(cur[p], "RUNNING")
    BY <1>2, <2>1 DEF BeginStep, AtStep, Steps
  <2>3. s = cur[p]
    BY <1>a, <1>s, <2>2, OneStepWritten
  <2>. QED
    BY <2>2, <2>3 DEF KInv, Ahead, InLoop
<1>3. ASSUME NEW p \in Procs, FinishStep(p) PROVE FALSE
  <2>1. cur[p] \in Steps /\ UpdateStep(cur[p], "DONE")
    BY <1>3, <1>a DEF FinishStep, Placed, AtCur
  <2>. QED
    BY <1>a, <1>s, <2>1, OneStepWritten
<1>4. ASSUME NEW p \in Procs, FailStep(p) PROVE pc[p] = "failed" /\ cur[p] = s
  <2>1. pc[p] = "failed" /\ cur[p] \in Steps /\ UpdateStep(cur[p], "FAILED")
    BY <1>4, <1>a DEF FailStep, Placed, AtCur
  <2>. QED
    BY <1>a, <1>s, <2>1, OneStepWritten
<1>5. CASE Cleanup
  BY <1>5 DEF Cleanup
<1>6. step' # step
  OBVIOUS
<1>7. CreateStep \/ Cleanup
        \/ \E p \in Procs : BeginStep(p) \/ FinishStep(p) \/ FailStep(p)
  BY ZenonT(60), <1>6 DEF Next, Execute, Spawn, SpawnRaises, CreateFails, Resume, Crash, StepRaises,
     ExecutionRaises, CancelRead, CancelWrite, Expire, vars, db, local, Start, Skip,
     OutOfBudget, PollCancelled, NoStepRow, Escape, NoAnswer, Answer, ParkActions, Totals, EndLoop,
     Finish, Summarise
<1>. QED
  BY <1>1, <1>2, <1>3, <1>4, <1>5, <1>7

\* Whatever crashes, errors, cancels and sweeps come in between, a step that is recorded DONE
\* is not run again and not reset, but by the handler of an exception raised after it was.
THEOREM CheckpointsKeptAlways ==
  ASSUME ~Overlap PROVE Spec => CheckpointsKept
<1>1. Init => IInv /\ KInv
  <2>1. Init => KInv
    BY DEF Init, KInv, Ahead, InLoop, AtCur, Procs
  <2>. QED
    BY <2>1, InitIInv
<1>2. IInv /\ KInv /\ [Next]_vars => IInv' /\ KInv'
  BY NextIInv, NextKInv
<1>3. IInv /\ KInv /\ [Next]_vars =>
        [\A s \in Steps :
           step[s] = "DONE" /\ step'[s] # "DONE"
             => \/ step'[s] = "absent"
                \/ \E p \in Procs : pc[p] = "failed" /\ cur[p] = s]_vars
  BY DoneIsKept
<1>. QED
  BY <1>1, <1>2, <1>3, PTL DEF Spec, CheckpointsKept

-----------------------------------------------------------------------------
\* Only a crash or an error strands a run

NoFault == crashes = 0 /\ errs = 0
LooksAlive == {"SPAWNED", "RUNNING", "COMPLETING"}
Endings == {"TIMEOUT", "CANCELLED", "FAILED", "COMPLETING"}

\* The execution that spawn_subagent began, up to the end it records.
First == Busy(Spawner) /\ pc[Spawner] # "summary"

\* While it lasts nothing can have expired, so the sweep leaves its rows alone.
Unexpired ==
  /\ copy[Spawner] = NoRow \/ First => seen.completed = 0
  /\ First => Exists /\ row.completed = 0 /\ copy[Spawner].completed = 0

\* The rows of the steps are created before anybody can load them.
Rooted == \A s \in Steps : step[s] = "absent" => pc[Spawner] = "create" /\ s >= cur[Spawner]

OnCourse(p) ==
  /\ Exists /\ pc[p] \in InLoop => snap[p].missing = {}
  /\ pc[p] = "finish" => copy[p].status \in Endings

Settled == (\A p \in Procs : ~Busy(p)) => row.status \notin LooksAlive

AInv == NoFault => /\ Settled /\ (Exists => Rooted) /\ Unexpired
                   /\ \A p \in Procs : OnCourse(p)

\* What the one execution at work has to show.
LEMMA WorkAInv ==
  ASSUME IInv, IInv', AInv, NoFault, NEW p \in Procs, Execute(p),
         seen' = seen, Exists' => Exists,
         \A s \in Steps : step'[s] = "absent" => step[s] = "absent",
         OnCourse(p)',
         pc'[p] = "idle" => row'.status \notin LooksAlive,
         p = Spawner /\ pc[p] # "summary" /\ pc'[p] \notin {"idle", "summary"}
           => Exists' /\ row'.completed = 0 /\ copy'[p].completed = 0
  PROVE  AInv'
<1>1. /\ Busy(p) /\ \A q \in Procs \ {p} : pc'[q] = pc[q] /\ copy'[q] = copy[q]
      /\ copy'[p] # NoRow /\ pc'[p] # "create" /\ Spawner \in Procs
  BY ExecuteMoves DEF Procs
<1>2. \A q \in Procs \ {p} : pc[q] = "idle"
  BY <1>1 DEF IInv, Alone, Busy
<1>3. pc[p] # "create"
  BY DEF Execute, Start, Skip, OutOfBudget, PollCancelled, BeginStep, AtStep, NoStepRow,
     NoAnswer, Answer, ParkActions, FinishStep, Totals, FailStep, EndLoop, Finish, Summarise
<1>4. pc[p] = "summary" => pc'[p] = "idle"
  <2>1. pc[p] = "summary" => Summarise(p)
    BY DEF Execute, Start, Skip, OutOfBudget, PollCancelled, BeginStep, AtStep, NoStepRow,
     NoAnswer, Answer, ParkActions, FinishStep, Totals, FailStep, EndLoop, Finish
  <2>2. pc \in [Procs -> Places]
    BY DEF IInv, TInv, TypeOK
  <2>. QED
    BY <2>1, <2>2 DEF Summarise, Goto
<1>5. Exists => \A s \in Steps : step[s] # "absent"
  BY <1>1, <1>2, <1>3 DEF AInv, Rooted
<1>6. Settled'
  BY <1>1 DEF Settled, Busy
<1>7. Exists' => Rooted'
  BY <1>5 DEF Rooted
<1>8. \A q \in Procs : OnCourse(q)'
  BY <1>1, <1>2 DEF OnCourse, InLoop, AtCur
<1>9. Unexpired'
  <2>1. CASE p = Spawner
    <3>1. First' => First
      BY <1>1, <1>4, <2>1 DEF First, Busy
    <3>. QED
      BY <1>1, <2>1, <3>1 DEF AInv, Unexpired, First, Busy
  <2>2. CASE p # Spawner
    <3>1. ~First' /\ copy'[Spawner] = copy[Spawner]
      BY <1>1, <1>2, <2>2 DEF First, Busy
    <3>. QED
      BY <3>1 DEF AInv, Unexpired
  <2>. QED
    BY <2>1, <2>2
<1>. QED
  BY <1>6, <1>7, <1>8, <1>9 DEF AInv

LEMMA UpdateStepKeeps ==
  ASSUME TypeOK, NEW s, NEW st \in StepStatuses \ {"absent"}, UpdateStep(s, st)
  PROVE  \A t \in Steps : step'[t] = "absent" => step[t] = "absent"
  BY DEF UpdateStep, TypeOK

LEMMA ExecuteAInv ==
  ASSUME IInv, IInv', AInv, NoFault, NEW p \in Procs, Execute(p) PROVE AInv'
<1>a. /\ TypeOK /\ pc \in [Procs -> Places] /\ copy \in [Procs -> RunRow] /\ row \in RunRow
      /\ snap \in [Procs -> Snapshot] /\ OnCourse(p) /\ Busy(p) /\ Spawner \in Procs
      /\ copy[p].status # "absent" /\ cur[p] \in 1 .. (N + 1)
      /\ \A q \in Procs \ {p} : pc[q] = "idle"
  <2>1. Busy(p)
    BY ExecuteMoves
  <2>. QED
    BY <2>1 DEF IInv, TInv, TypeOK, AInv, Alone, Placed, Busy, Procs
<1>f. p = Spawner /\ pc[p] # "summary" => Exists /\ row.completed = 0 /\ copy[p].completed = 0
  BY <1>a DEF AInv, Unexpired, First
<1>s. /\ "RUNNING" \in StepStatuses \ {"absent"} /\ "DONE" \in StepStatuses \ {"absent"}
      /\ "FAILED" \in StepStatuses \ {"absent"}
  BY DEF StepStatuses
<1>st. /\ "RUNNING" \in RunStatuses /\ "TIMEOUT" \in RunStatuses /\ "CANCELLED" \in RunStatuses
       /\ "FAILED" \in RunStatuses /\ "COMPLETING" \in RunStatuses /\ "DONE" \in RunStatuses
  BY DEF RunStatuses
<1>set. \A st \in RunStatuses : SetStatus(p, st) =>
          copy'[p].status = st /\ copy'[p].completed = copy[p].completed /\ copy'[p] \in RunRow
  BY <1>a DEF SetStatus, RunRow
<1>1. CASE Start(p)
  <2>1. /\ pc[p] = "start" /\ pc'[p] = "loop" /\ UNCHANGED <<seen, step>>
        /\ snap'[p].missing = {s \in Steps : step[s] = "absent"}
        /\ UpdateRun(copy'[p])
    BY <1>1, <1>a DEF Start, Goto
  <2>2. copy'[p].status = "RUNNING" /\ copy'[p].completed = copy[p].completed
    BY <1>1, <1>set, <1>st DEF Start
  <2>3. /\ Exists' <=> Exists
        /\ Exists => row' = copy'[p]
    BY <2>1, <2>2 DEF UpdateRun, Exists
  <2>4. Exists => \A s \in Steps : step[s] # "absent"
    BY <1>a, <2>1 DEF AInv, Rooted
  <2>5. OnCourse(p)'
    BY <2>1, <2>3, <2>4 DEF OnCourse
  <2>. QED
    BY <1>f, <2>1, <2>2, <2>3, <2>5, WorkAInv
<1>2. CASE OutOfBudget(p) \/ PollCancelled(p) \/ FailStep(p) \/ EndLoop(p)
  <2>1. PICK st \in Endings : SetStatus(p, st)
    BY <1>2 DEF OutOfBudget, PollCancelled, FailStep, EndLoop, Endings
  <2>2. st \in RunStatuses
    BY <1>st DEF Endings
  <2>3. copy'[p].status = st /\ copy'[p].completed = copy[p].completed
    BY <2>1, <2>2, <1>set
  <2>4. /\ pc[p] # "summary" /\ pc'[p] = "finish" /\ UNCHANGED <<row, seen>>
    BY <1>2, <1>a DEF OutOfBudget, PollCancelled, FailStep, EndLoop, AtStep, Goto, db
  <2>5. \A s \in Steps : step'[s] = "absent" => step[s] = "absent"
    BY <1>2, <1>a, <1>s, UpdateStepKeeps DEF OutOfBudget, PollCancelled, FailStep, EndLoop, db
  <2>6. OnCourse(p)'
    BY <2>1, <2>3, <2>4 DEF OnCourse, InLoop, AtCur
  <2>. QED
    BY <1>f, <2>3, <2>4, <2>5, <2>6, WorkAInv DEF Exists
<1>3. CASE NoStepRow(p)
  <2>1. /\ pc[p] = "loop" /\ cur[p] \in snap[p].missing
        /\ Escape(p)
    BY <1>3 DEF NoStepRow
  <2>2. ~Exists
    BY <1>a, <2>1 DEF OnCourse, InLoop
  <2>3. p # Spawner
    BY <1>f, <2>1, <2>2
  <2>4. pc'[p] = "idle" /\ UNCHANGED <<row, seen, step>>
    BY <1>a, <2>1, <2>3 DEF Escape, Goto
  <2>5. row'.status \notin LooksAlive
    BY <2>2, <2>4 DEF Exists, LooksAlive
  <2>6. OnCourse(p)'
    BY <2>4 DEF OnCourse, InLoop, AtCur
  <2>. QED
    BY <2>2, <2>3, <2>4, <2>5, <2>6, WorkAInv DEF Exists
<1>4. CASE Skip(p) \/ BeginStep(p) \/ NoAnswer(p) \/ (\E k \in 1 .. 2 : Answer(p, k))
             \/ ParkActions(p) \/ FinishStep(p) \/ (Totals(p) /\ ~Exists)
  <2>1. /\ pc[p] \in InLoop /\ UNCHANGED <<row, copy, snap, seen>>
    BY <1>4 DEF Skip, BeginStep, AtStep, NoAnswer, Answer, ParkActions, FinishStep, Totals, db,
       InLoop, AtCur
  <2>2. pc'[p] \in InLoop
    BY <1>4, <1>a DEF Skip, BeginStep, NoAnswer, Answer, ParkActions, FinishStep, Totals, Goto,
       InLoop, AtCur
  <2>3. \A s \in Steps : step'[s] = "absent" => step[s] = "absent"
    BY <1>4, <1>a, <1>s, UpdateStepKeeps
       DEF Skip, BeginStep, NoAnswer, Answer, ParkActions, FinishStep, Totals, db
  <2>4. OnCourse(p)' /\ pc[p] # "summary" /\ pc'[p] # "idle" /\ (Exists' <=> Exists)
    BY <1>a, <2>1, <2>2 DEF OnCourse, InLoop, AtCur, Exists
  <2>. QED
    BY <1>f, <2>1, <2>3, <2>4, WorkAInv
<1>5. CASE Totals(p) /\ Exists
  <2>1. /\ pc[p] = "totals" /\ pc'[p] = "loop" /\ UNCHANGED <<snap, seen, step>>
    BY <1>5, <1>a DEF Totals, Goto
  <2>2. copy'[p].status = copy[p].status /\ copy'[p].completed = copy[p].completed
    BY <1>5, <1>a DEF Totals, RunRow
  <2>3. Exists' /\ row' = copy'[p]
    BY <1>5, <1>a, <2>2 DEF Totals, UpdateRun, Exists
  <2>4. OnCourse(p)'
    BY <1>5, <1>a, <2>1 DEF OnCourse, InLoop, AtCur
  <2>. QED
    BY <1>5, <1>f, <2>1, <2>2, <2>3, <2>4, WorkAInv
<1>6. CASE Finish(p)
  <2>1. /\ pc[p] = "finish" /\ pc'[p] = IF copy[p].status = "COMPLETING" THEN "summary" ELSE "idle"
        /\ UNCHANGED <<seen, step>> /\ UpdateRun(copy'[p])
    BY <1>6, <1>a DEF Finish, Goto, NeedsSummary
  <2>2. copy'[p].status = copy[p].status
    BY <1>6, <1>a DEF Finish, RunRow
  <2>3. /\ Exists' <=> Exists
        /\ Exists => row' = copy'[p]
        /\ ~Exists => row'.status = "absent"
    BY <1>a, <2>1, <2>2 DEF UpdateRun, Exists
  <2>4. pc'[p] = "idle" => row'.status \notin LooksAlive
    BY <1>a, <2>1, <2>2, <2>3 DEF OnCourse, Endings, LooksAlive
  <2>5. OnCourse(p)' /\ pc'[p] \in {"idle", "summary"}
    BY <2>1 DEF OnCourse, InLoop, AtCur
  <2>. QED
    BY <2>1, <2>3, <2>4, <2>5, WorkAInv
<1>7. CASE Summarise(p)
  <2>1. PICK st \in {"DONE", "FAILED"} : SetStatus(p, st)
    BY <1>7 DEF Summarise
  <2>2. /\ pc[p] = "summary" /\ pc'[p] = "idle" /\ UNCHANGED <<seen, step>> /\ UpdateRun(copy'[p])
    BY <1>7, <1>a DEF Summarise, Goto
  <2>3. copy'[p].status = st
    BY <2>1, <1>set, <1>st
  <2>4. /\ Exists' <=> Exists
        /\ row'.status \notin LooksAlive
    BY <2>2, <2>3 DEF UpdateRun, Exists, LooksAlive
  <2>5. OnCourse(p)'
    BY <2>2 DEF OnCourse, InLoop, AtCur
  <2>. QED
    BY <2>2, <2>4, <2>5, WorkAInv
<1>. QED
  BY <1>1, <1>2, <1>3, <1>4, <1>5, <1>6, <1>7 DEF Execute

LEMMA NextAInv == ASSUME ~Overlap, IInv, IInv', AInv, [Next]_vars PROVE AInv'
<1>. SUFFICES ASSUME NoFault' PROVE AInv'
  BY DEF AInv
<1>a. /\ TypeOK /\ Spawner \in Procs /\ pc \in [Procs -> Places] /\ cur \in [Procs -> 1 .. (N + 1)]
      /\ copy \in [Procs -> RunRow] /\ crashes \in Nat /\ errs \in Nat
  BY DEF IInv, TInv, TypeOK, Procs
<1>1. ~SpawnRaises /\ ~CreateFails
      /\ \A p \in Procs : ~Crash(p) /\ ~StepRaises(p) /\ ~ExecutionRaises(p)
  <2>1. crashes' # crashes + 1 /\ errs' # errs + 1
    BY <1>a DEF NoFault
  <2>. QED
    BY <2>1 DEF SpawnRaises, CreateFails, Crash, StepRaises, ExecutionRaises, Err
<1>2. NoFault
  BY ZenonT(60), <1>1 DEF NoFault, Next, Execute, Spawn, CreateStep, Resume, CancelRead, CancelWrite, Expire,
     Cleanup, vars, history, Start, Skip, OutOfBudget, PollCancelled, BeginStep, NoStepRow, NoAnswer,
     Answer, ParkActions, FinishStep, Totals, FailStep, EndLoop, Finish, Summarise
<1>b. /\ Settled /\ (Exists => Rooted) /\ Unexpired /\ \A p \in Procs : OnCourse(p)
  BY <1>2 DEF AInv
<1>3. CASE Spawn
  <2>1. /\ \A q \in Procs : pc[q] = "idle"
        /\ copy[Spawner] = NoRow /\ cur[Spawner] = 1 /\ row = NoRow
    BY <1>3 DEF Spawn, IInv, Fresh, Busy, TInv, Spawned
  <2>2. /\ row' = [status |-> "SPAWNED", calls |-> 0, completed |-> 0]
        /\ pc'[Spawner] = "create" /\ \A q \in Procs \ {Spawner} : pc'[q] = "idle"
        /\ copy'[Spawner] = row' /\ UNCHANGED <<seen, cur>>
    BY <1>3, <1>a, <2>1 DEF Spawn, Goto, NoRow
  <2>3. Rooted' /\ Settled'
    BY <1>a, <2>1, <2>2 DEF Rooted, Settled, Busy, Steps
  <2>4. Unexpired'
    BY <1>b, <2>1, <2>2 DEF Unexpired, Exists
  <2>5. \A q \in Procs : OnCourse(q)'
    BY <2>2 DEF OnCourse, InLoop, AtCur
  <2>. QED
    BY <2>3, <2>4, <2>5 DEF AInv
<1>4. CASE CreateStep
  <2>1. /\ pc[Spawner] = "create" /\ \A q \in Procs \ {Spawner} : pc[q] = "idle"
        /\ cur[Spawner] \in Steps
    BY <1>4, <1>a DEF CreateStep, IInv, Alone, Busy, TInv, Spawned
  <2>2. /\ pc'[Spawner] \in {"create", "start"} /\ \A q \in Procs \ {Spawner} : pc'[q] = "idle"
        /\ UNCHANGED <<row, copy, seen>> /\ step' = [step EXCEPT ![cur[Spawner]] = "PENDING"]
    BY <1>4, <1>a, <2>1 DEF CreateStep, Goto
  <2>3. First /\ First'
    BY <2>1, <2>2 DEF First, Busy
  <2>4. Unexpired' /\ Exists
    BY <1>b, <2>2, <2>3 DEF Unexpired, Exists
  <2>5. ASSUME NEW s \in Steps, step'[s] = "absent" PROVE pc'[Spawner] = "create" /\ s >= cur'[Spawner]
    <3>1. s # cur[Spawner] /\ step[s] = "absent"
      BY <1>a, <2>1, <2>2, <2>5 DEF TypeOK
    <3>2. s >= cur[Spawner]
      BY <1>b, <2>4, <3>1 DEF Rooted
    <3>3. s > cur[Spawner] /\ s <= N /\ s >= cur[Spawner] + 1
      BY <3>1, <3>2, <2>1 DEF Steps
    <3>4. cur[Spawner] # N
      BY <3>3, <2>1 DEF Steps
    <3>. QED
      BY <1>4, <1>a, <2>1, <3>3, <3>4 DEF CreateStep
  <2>6. /\ Settled' /\ \A q \in Procs : OnCourse(q)'
    BY <1>a, <2>2 DEF Settled, Busy, OnCourse, InLoop, AtCur
  <2>. QED
    BY <2>4, <2>5, <2>6 DEF AInv, Rooted
<1>5. ASSUME NEW p \in Procs, Execute(p) PROVE AInv'
  BY <1>2, <1>5, ExecuteAInv
<1>6. ASSUME NEW p \in Procs, Resume(p) PROVE AInv'
  <2>1. /\ p # Spawner /\ \A q \in Procs : pc[q] = "idle"
        /\ pc' = [pc EXCEPT ![p] = "start"] /\ UNCHANGED <<row, step, seen, cur, snap>>
        /\ copy' = [copy EXCEPT ![p] = row]
    BY <1>6 DEF Resume, Resumed, Goto, db, Procs, Busy
  <2>2. /\ copy'[Spawner] = copy[Spawner] /\ pc'[Spawner] = "idle"
        /\ pc'[p] = "start" /\ \A q \in Procs : pc'[q] \in {"idle", "start"}
    BY <1>a, <2>1
  <2>3. Settled' /\ \A q \in Procs : OnCourse(q)'
    BY <2>2 DEF Settled, Busy, OnCourse, InLoop, AtCur
  <2>4. Unexpired'
    BY <1>b, <2>1, <2>2 DEF Unexpired, First, Busy
  <2>5. Exists' => Rooted'
    BY <1>b, <2>1 DEF Exists, Rooted
  <2>. QED
    BY <2>3, <2>4, <2>5 DEF AInv
<1>7. CASE CancelRead
  <2>1. seen' = row /\ Exists /\ UNCHANGED <<row, step, pc, copy, snap, cur>>
    BY <1>7 DEF CancelRead, db, local, Running, Exists
  <2>2. copy[Spawner] # NoRow
    BY <2>1, NoRowType DEF IInv, Fresh, Exists
  <2>. QED
    BY <1>b, <2>1, <2>2 DEF AInv, Settled, Rooted, Unexpired, First, OnCourse, Busy, Exists
<1>8. CASE CancelWrite
  <2>1. /\ UNCHANGED <<step, pc, copy, snap, cur>> /\ seen' = NoRow /\ seen \in RunRow
    BY <1>8, <1>a DEF CancelWrite, local, TypeOK
  <2>2. /\ Exists' <=> Exists
        /\ Exists => row'.status = "CANCELLED" /\ row'.completed = seen.completed
        /\ ~Exists => row' = row
    BY <1>8, <2>1 DEF CancelWrite, UpdateRun, Exists, RunRow, CancelStatus
  <2>3. Settled'
    BY <2>2 DEF Settled, LooksAlive, Exists
  <2>4. Unexpired'
    BY <1>b, <2>1, <2>2 DEF Unexpired, First, Busy, NoRow
  <2>5. /\ Exists' => Rooted'
        /\ \A q \in Procs : OnCourse(q)'
    BY <1>b, <2>1, <2>2 DEF Rooted, OnCourse
  <2>. QED
    BY <2>3, <2>4, <2>5 DEF AInv
<1>9. CASE Expire \/ UNCHANGED vars
  <2>1. UNCHANGED <<row, step, pc, copy, snap, cur, seen>>
    BY <1>9 DEF Expire, vars, db, local
  <2>. QED
    BY <1>b, <2>1 DEF AInv, Settled, Rooted, Unexpired, First, OnCourse, Busy, Exists
<1>10. CASE Cleanup
  <2>1. /\ UNCHANGED <<pc, copy, snap, cur, seen>> /\ row' = NoRow /\ ~Exists' /\ row.completed # 0
    BY <1>10, NoRowType DEF Cleanup, Swept, Expired, local, Exists
  <2>2. ~First
    BY <1>b, <2>1 DEF Unexpired
  <2>3. Settled' /\ Unexpired'
    BY <1>b, <2>1, <2>2, NoRowType DEF Settled, LooksAlive, Unexpired, First, Busy
  <2>4. \A q \in Procs : OnCourse(q)'
    BY <1>b, <2>1 DEF OnCourse
  <2>. QED
    BY <2>1, <2>3, <2>4 DEF AInv
<1>. QED
  BY <1>1, <1>3, <1>4, <1>5, <1>6, <1>7, <1>8, <1>9, <1>10 DEF Next

\* However executions, cancels and sweeps follow each other, a run that nobody executes any
\* more and that still looks alive has met a crash or an error.
THEOREM NoRunStrandedEver ==
  ASSUME ~Overlap PROVE Spec => []NoRunStranded
<1>1. Init => AInv
  BY NoRowType DEF Init, AInv, Settled, Rooted, Unexpired, First, OnCourse, Busy, Exists, LooksAlive,
     InLoop, AtCur, Procs, NoRow
<1>2. AInv /\ TypeOK => NoRunStranded
  <2>. SUFFICES ASSUME AInv, TypeOK, \A p \in Procs : ~Busy(p), row.status \in LooksAlive
       PROVE  crashes + errs > 0
    BY DEF NoRunStranded, LooksAlive
  <2>1. ~NoFault
    BY DEF AInv, Settled
  <2>2. crashes \in Nat /\ errs \in Nat
    BY DEF TypeOK
  <2>. QED
    BY <2>1, <2>2 DEF NoFault
<1>3. Spec => []IInv
  BY InitIInv, NextIInv, PTL DEF Spec
<1>4. IInv /\ IInv' /\ AInv /\ [Next]_vars => AInv'
  BY NextAInv
<1>5. IInv => TypeOK
  BY DEF IInv, TInv
<1>. QED
  BY <1>1, <1>2, <1>3, <1>4, <1>5, PTL DEF Spec
=============================================================================
