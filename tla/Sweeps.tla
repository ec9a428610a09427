------------------------------- MODULE Sweeps -------------------------------
(***************************************************************************)
(* The sweeps of the heartbeat: sweep_registry.py and sweeps.py.  A tick   *)
(* goes once through the registered sweeps, each tick from one further on, *)
(* runs those whose interval has passed, and gives up when its time is     *)
(* used.  One of the sweeps, Rollup, adds the old events of a day up into  *)
(* the row of the day and deletes them; the other one of that kind         *)
(* (spans) and the sweeps that only delete need no data of their own.      *)
(*                                                                         *)
(* Time is counted in slots, an event is the slot it was recorded in (one  *)
(* stands for all), and a row of the rollup is the set of events it adds.  *)
(***************************************************************************)
EXTENDS Integers, Sequences, FiniteSets, SequencesExt

CONSTANTS
  Order,      \* the sweeps, in order of registration
  Interval,   \* Interval[s]: slots between two runs of s
  Rollup,     \* _sweep_inference_events
  DayLength,  \* slots of a day
  Retention,  \* slots an event is kept
  LastSlot,   \* bound: the clock
  SweepFaults \* bound: crashes, failed reads, writes and sweeps

Names == ToSet(Order)
N     == Len(Order)
Slots == 0 .. LastSlot
Day(e) == e \div DayLength
Days  == {Day(e) : e \in Slots}
Never == -1

SweepsAssumption ==
  /\ Order \in Seq(Names) /\ IsInjective(Order) /\ Rollup \in Names
  /\ Interval \in [Names -> Nat \ {0}]
  /\ DayLength \in Nat \ {0} /\ Retention \in Nat /\ LastSlot \in Nat /\ SweepFaults \in Nat

VARIABLES
  now,      \* the clock
  raw,      \* inference_events
  daily,    \* inference_daily_rollup: the events in the row of each day
  lastRun,  \* the {name}_last_run rows of heartbeat_state
  offset,   \* _state.rotation_offset
  queue,    \* the sweeps this tick has not come to
  tick,     \* current_now of the tick
  summed,   \* what the rollup has selected
  selected, \* it has
  slipped,  \* history: events the DELETE of a rollup took and its SELECT had not seen
  late,     \* history: ticks since the start at which the sweep was due and not run
  trouble   \* history: everything that went wrong

data    == <<raw, daily>>
ticking == <<offset, queue, tick>>
rolling == <<summed, selected>>
vars == <<now, data, lastRun, ticking, rolling, slipped, late, trouble>>

TypeOK ==
  /\ now \in Slots /\ raw \subseteq Slots
  /\ daily \in [Days -> SUBSET Slots] /\ \A d \in Days : \A e \in daily[d] : Day(e) = d
  /\ lastRun \in [Names -> Slots \cup {Never}]
  /\ offset \in 0 .. N - 1 /\ queue \in Seq(Names) /\ Len(queue) <= N /\ tick \in Slots
  /\ summed \subseteq Slots /\ selected \in BOOLEAN
  /\ selected => queue # <<>> /\ Head(queue) = Rollup /\ summed \subseteq raw
  /\ slipped \subseteq Slots /\ late \in [Names -> Nat] /\ trouble \in 0 .. SweepFaults

Init ==
  /\ now = 0 /\ raw = {0}
  /\ daily = [d \in Days |-> {}] /\ lastRun = [s \in Names |-> Never]
  /\ offset = 0 /\ queue = <<>> /\ tick = 0
  /\ summed = {} /\ selected = FALSE
  /\ slipped = {} /\ late = [s \in Names |-> 0] /\ trouble = 0

Trouble   == trouble < SweepFaults /\ trouble' = trouble + 1
NoTrouble == UNCHANGED trouble

-----------------------------------------------------------------------------
(* The world.                                                              *)

\* Models are called all the time: every slot has its event.
Pass ==
  /\ now < LastSlot /\ now' = now + 1
  /\ raw' = raw \cup {now'}
  /\ UNCHANGED <<daily, lastRun, ticking, rolling, slipped, late, trouble>>

-----------------------------------------------------------------------------
(* run_registered_sweeps.                                                  *)

\* A row that is missing or that cannot be parsed is never.
Due(s, t) == lastRun[s] = Never \/ t - lastRun[s] >= Interval[s]

Rotated(k) == SubSeq(Order, k + 1, N) \o SubSeq(Order, 1, k)

\* Mutant of Turned: the next tick goes on only if this one got through.
TurnedIfDone == IF \E s \in Names : late[s] > 0 THEN offset ELSE (offset + 1) % N

Turned == (offset + 1) % N

BeginTick ==
  /\ queue = <<>>
  /\ queue' = Rotated(offset) /\ offset' = Turned /\ tick' = now
  /\ late' = [s \in Names |-> IF Due(s, now) THEN late[s] + 1 ELSE 0]
  /\ UNCHANGED <<now, data, lastRun, rolling, slipped, trouble>>

\* The time is used up: asked before each sweep, so never before the first.
Exhaust ==
  /\ Len(queue) \in 1 .. N - 1 /\ ~selected
  /\ queue' = <<>>
  /\ UNCHANGED <<now, data, lastRun, offset, tick, rolling, slipped, late, trouble>>

\* It is not the turn of the next sweep, or its gate cannot be read.
Skip ==
  /\ queue # <<>> /\ ~selected
  /\ \/ ~Due(Head(queue), tick) /\ NoTrouble
     \/ Due(Head(queue), tick) /\ Trouble
  /\ queue' = Tail(queue)
  /\ UNCHANGED <<now, data, lastRun, offset, tick, rolling, slipped, late>>

\* The sweep has run or failed: its gate is written in either case, or that fails too.
Ran(s) ==
  /\ queue' = Tail(queue)
  /\ late' = [late EXCEPT ![s] = 0]
  /\ \/ lastRun' = [lastRun EXCEPT ![s] = tick] /\ NoTrouble
     \/ UNCHANGED lastRun /\ Trouble

\* A sweep other than Rollup.
Sweep ==
  /\ queue # <<>>
  /\ LET s == Head(queue) IN s # Rollup /\ Due(s, tick) /\ Ran(s)
  /\ UNCHANGED <<now, data, offset, tick, rolling, slipped>>

-----------------------------------------------------------------------------
(* _sweep_inference_events.                                                *)

Old(t) == {e \in raw : e < t - Retention}

\* The SELECT, with the clock as it is.
Select ==
  /\ queue # <<>> /\ Head(queue) = Rollup /\ Due(Rollup, tick) /\ ~selected
  /\ selected' = TRUE /\ summed' = Old(now)
  /\ UNCHANGED <<now, data, lastRun, ticking, slipped, late, trouble>>

Unselect == selected' = FALSE /\ summed' = {}

Slice(d) == {e \in summed : Day(e) = d}

\* INSERT OR REPLACE: the row of a day is that of the slice that came last.
Replaced(d) == IF Slice(d) = {} THEN daily[d] ELSE Slice(d)

\* The DELETE asks the clock again.
Deleted == Old(now)

\* The rows, the DELETE and the commit.
Commit ==
  /\ selected
  /\ daily' = [d \in Days |-> Replaced(d)]
  /\ raw' = raw \ Deleted
  /\ slipped' = slipped \cup (Deleted \ summed)
  /\ Unselect /\ Ran(Rollup)
  /\ UNCHANGED <<now, offset, tick>>

\* The transaction fails; the sweep reports 0 rows and its gate is written.
RollBack ==
  /\ selected /\ Trouble
  /\ Unselect
  /\ queue' = Tail(queue) /\ late' = [late EXCEPT ![Rollup] = 0]
  /\ lastRun' = [lastRun EXCEPT ![Rollup] = tick]
  /\ UNCHANGED <<now, data, offset, tick, slipped>>

\* The heartbeat dies and is started again; the rotation is in its memory.
Restart ==
  /\ Trouble
  /\ queue' = <<>> /\ offset' = 0 /\ Unselect
  /\ late' = [s \in Names |-> 0]
  /\ UNCHANGED <<now, data, lastRun, tick, slipped>>

Next ==
  \/ Pass \/ BeginTick \/ Exhaust \/ Skip \/ Sweep \/ Select \/ Commit \/ RollBack \/ Restart

Spec == Init /\ [][Next]_vars

-----------------------------------------------------------------------------
(* Properties.                                                             *)

\* However slow the sweeps are, a sweep that is due runs within N ticks, each failed gate
\* costing it one round more (sweep_registry.py:194).
NobodyStarves == \A s \in Names : late[s] <= N * (1 + trouble)

\* No event is in a daily row and still in the table: it would be counted again when the
\* rollup comes by next (sweeps.py:253).
NoDoubleCounting == \A d \in Days : daily[d] \cap raw = {}

\* An event is in the table or in the row of its day.  It is in neither only if the row was
\* replaced by one of later events of the day, or if the clock moved between the SELECT
\* and the DELETE.
EventsAccounted ==
  \A e \in (0 .. now) \ (raw \cup slipped) : \E f \in daily[Day(e)] : f >= e
=============================================================================
