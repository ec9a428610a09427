---------------------------- MODULE Observation ----------------------------
(***************************************************************************)
(* What the heartbeat does with the signals it collected: enrichment       *)
(* (signal_intelligence.py), the triage and manager cycles                 *)
(* (observation.py) under the cost ceiling (radiant.py), and the           *)
(* chief-of-staff review (heartbeat/review_cycle.py), in this order at the *)
(* end of each tick.                                                       *)
(*                                                                         *)
(* Nothing marks a signal as observed.  The rows of observation_cycles say *)
(* how far the triage got, and when the manager and the review last ran;   *)
(* a row counts once it is completed.                                      *)
(***************************************************************************)
EXTENDS Integers, FiniteSets, FiniteSetsExt

CONSTANTS
  MaxSignals,  \* bound: signals that arrive
  BatchSize,   \* signals enriched per tick (20)
  CycleCap,    \* signals a triage cycle collects (100)
  Threshold,   \* trigger_threshold: new signals that make a cycle due
  MaxDues,     \* bound: MaxDues[d] times the manager, a review slot or the ceiling comes due
  MaxFaults    \* bound: failed statements and model calls, and crashes

Due == {"manager", "review", "ceiling"}

ASSUME ObservationAssumption ==
  /\ MaxSignals \in Nat
  /\ BatchSize \in Nat \ {0} /\ CycleCap \in Nat \ {0} /\ Threshold \in Nat \ {0}
  /\ MaxDues \in [Due -> Nat] /\ MaxFaults \in Nat

Ids   == 1 .. MaxSignals
Never == -1

VARIABLES
  last,      \* id of the newest row of signals
  tier1,     \* ids whose intel_tier is 1
  threaded,  \* ids with a thread_id
  counted,   \* counted[id]: times id was added to the signal_count of a thread
  anyThread, \* whether there is an active thread
  mark,      \* last_signal_id of the newest completed triage cycle, or Never
  elapsed,   \* since that cycle: 0 below min_interval, 2 from max_interval on, else 1
  managed,   \* whether a manager cycle ever completed
  due,       \* of manager and review: the time has come; of the ceiling: it is reached
  pc,        \* where the tick is
  work,      \* ids of the batch that is enriched, or of the triage cycle
  left,      \* ids of the batch that have no thread yet
  next,      \* new_watermark of the triage cycle
  shown,     \* shown[id]: history, cycles that collected id
  handled,   \* history: ids of cycles in which one of the three roles finished
  sent,      \* history: digests of the manager and messages of the review
  dues,      \* history: times each of Due came due
  faults     \* history: everything that went wrong and was not made good so far

signals == <<last, tier1, threaded, counted, anyThread>>
cycles  == <<mark, elapsed, managed>>
clock   == <<due, dues>>
local   == <<work, left, next>>
told    == <<shown, handled, sent>>
vars    == <<signals, cycles, clock, pc, local, told, faults>>

TypeOK ==
  /\ last \in 0 .. MaxSignals
  /\ tier1 \subseteq 1 .. last /\ threaded \subseteq tier1
  /\ counted \in [Ids -> Nat] /\ anyThread \in BOOLEAN
  /\ mark \in Never .. last /\ elapsed \in 0 .. 2 /\ managed \in BOOLEAN
  /\ due \in [Due -> BOOLEAN]
  /\ pc \in {"idle", "assign", "write", "decide", "review role", "think role", "reflex", "triage row",
             "digest", "manager row", "briefing", "message", "review row"}
  /\ work \subseteq 1 .. last /\ left \subseteq work /\ next \in 0 .. last
  /\ shown \in [Ids -> Nat] /\ handled \subseteq 1 .. last
  /\ sent \in [{"digest", "brief"} -> Nat]
  /\ dues \in [Due -> Nat] /\ faults \in 0 .. MaxFaults

Init ==
  /\ last = 0 /\ tier1 = {} /\ threaded = {} /\ counted = [i \in Ids |-> 0] /\ anyThread = FALSE
  /\ mark = Never /\ elapsed = 0 /\ managed = FALSE
  /\ due = [d \in Due |-> FALSE] /\ dues = [d \in Due |-> 0]
  /\ pc = "idle" /\ work = {} /\ left = {} /\ next = 0
  /\ shown = [i \in Ids |-> 0] /\ handled = {}
  /\ sent = [k \in {"digest", "brief"} |-> 0]
  /\ faults = 0

Fault   == faults < MaxFaults /\ faults' = faults + 1
NoFault == UNCHANGED faults

\* The n smallest elements of S: ORDER BY id ASC LIMIT n.
Oldest(S, n) == {i \in S : Cardinality({j \in S : j < i}) < n}

-----------------------------------------------------------------------------
(* The world: signals, the clock and the bill.                             *)

\* Phases 1 and 2 of the tick insert the signals, before the steps below.
Arrive ==
  /\ pc = "idle" /\ last < MaxSignals
  /\ last' = last + 1
  /\ UNCHANGED <<tier1, threaded, counted, anyThread, cycles, clock, pc, local, told, faults>>

Elapse ==
  /\ pc = "idle" /\ elapsed < 2
  /\ elapsed' = elapsed + 1
  /\ UNCHANGED <<signals, mark, managed, clock, pc, local, told, faults>>

\* manager_interval_hours pass since the last manager cycle; a slot of the review schedule is crossed; the
\* inference events of the day reach cost_ceiling_daily.
ComesDue(d) ==
  /\ pc = "idle" /\ ~due[d] /\ dues[d] < MaxDues[d]
  /\ d = "manager" => managed
  /\ due' = [due EXCEPT ![d] = TRUE] /\ dues' = [dues EXCEPT ![d] = @ + 1]
  /\ UNCHANGED <<signals, cycles, pc, local, told, faults>>

\* At midnight daily_cost starts again, and a slot of yesterday is no longer looked for.
Lapse(d) ==
  /\ pc = "idle" /\ due[d]
  /\ due' = [due EXCEPT ![d] = FALSE]
  /\ UNCHANGED <<signals, cycles, dues, pc, local, told, faults>>

-----------------------------------------------------------------------------
(* Enrichment: threads are assigned signal by signal, in transactions of   *)
(* their own; the signals are written back in one.                         *)

Raw == 1 .. last \ tier1

BeginTick ==
  /\ pc = "idle"
  /\ work' = Oldest(Raw, BatchSize) /\ left' = work'
  /\ pc' = IF Raw = {} THEN "decide" ELSE "assign"
  /\ UNCHANGED <<signals, cycles, clock, next, told, faults>>

\* The next signal of the batch gets a thread, old or new, and is counted there.
AssignThread ==
  /\ pc = "assign"
  /\ counted' = [i \in Ids |-> IF i \in Oldest(left, 1) THEN counted[i] + 1 ELSE counted[i]]
  /\ left' = left \ Oldest(left, 1)
  /\ anyThread' = TRUE
  /\ pc' = IF left' = {} THEN "write" ELSE "assign"
  /\ UNCHANGED <<last, tier1, threaded, cycles, clock, work, next, told, faults>>

\* An exception (a thread made and not counted, or none made) ends the loop for all the
\* signals left: they are written back all the same, with no thread.
AssignFails ==
  /\ pc = "assign"
  /\ Fault
  /\ anyThread' \in {anyThread, TRUE}
  /\ pc' = "write"
  /\ UNCHANGED <<last, tier1, threaded, counted, cycles, clock, local, told>>

\* The contacts, and then one transaction for the batch; without it the batch is raw
\* again in the next tick, although its threads have been counted.
WriteBack ==
  /\ pc = "write"
  /\ \/ NoFault /\ tier1' = tier1 \cup work /\ threaded' = threaded \cup (work \ left)
     \/ Fault /\ UNCHANGED <<tier1, threaded>>
  /\ pc' = "decide" /\ work' = {} /\ left' = {}
  /\ UNCHANGED <<last, counted, anyThread, cycles, clock, next, told>>

-----------------------------------------------------------------------------
(* The triage cycle.                                                       *)

ManagerDue == IF managed THEN due["manager"] ELSE anyThread

Watermark == IF mark = Never THEN 0 ELSE mark

\* Mutant of TriageDue: no cycle is due before Threshold signals are new.
TriageDueForgetsAge ==
  /\ mark = Never \/ elapsed > 0
  /\ last - Watermark >= Threshold

TriageDue ==
  /\ mark = Never \/ elapsed > 0
  /\ \/ last - Watermark >= Threshold
     \/ mark # Never /\ elapsed = 2 /\ last > Watermark

\* Mutant of Window: the newest signals are collected.
WindowNewestFirst(w) == {i \in w + 1 .. last : last - i < CycleCap}

Window(w) == Oldest(w + 1 .. last, CycleCap)

\* The cycle is skipped under the ceiling, or because nothing is due: on to the review.
Skip ==
  /\ pc = "decide"
  /\ \/ due["ceiling"] /\ NoFault
     \/ ~ManagerDue /\ ~TriageDue /\ NoFault
     \/ ~due["ceiling"] /\ (ManagerDue \/ TriageDue) /\ Fault    \* its row is not inserted
  /\ pc' = "briefing"
  /\ UNCHANGED <<signals, cycles, clock, local, told>>

NewMark(w, W) == IF W = {} THEN w ELSE Max(W)

\* A triage cycle opens its row and collects.  Each of its reads may fail: then the
\* manager is not due; the triage is; the watermark is 0; there are no signals.
StartTriage ==
  /\ pc = "decide" /\ ~due["ceiling"]
  /\ \E w \in {0, Watermark} : \E W \in {{}, Window(w)} :
       /\ IF ~ManagerDue /\ TriageDue /\ w = Watermark /\ W = Window(w) THEN NoFault ELSE Fault
       /\ work' = W /\ left' = {}
       /\ next' = NewMark(w, W)
       /\ pc' = IF W = {} THEN "triage row" ELSE "review role"
       /\ shown' = [i \in Ids |-> IF i \in W THEN shown[i] + 1 ELSE shown[i]]
  /\ UNCHANGED <<signals, cycles, clock, handled, sent>>

Roles == {"review role", "think role", "reflex"}

RoleEnds ==
  /\ pc \in Roles
  /\ handled' = handled \cup work
  /\ pc' = "triage row"
  /\ UNCHANGED <<signals, cycles, clock, local, shown, sent, faults>>

\* A model that fails is replaced: by a smaller one, then by the reflex.
RoleFallsBack ==
  /\ \/ pc = "review role" /\ pc' = "think role"
     \/ pc = "think role" /\ pc' = "reflex"
  /\ UNCHANGED <<signals, cycles, clock, local, told, faults>>

\* What the reflex raises, and what is raised before the first role runs, only ends
\* the cycle.
CycleRaises ==
  /\ pc \in {"review role", "reflex"} /\ Fault
  /\ pc' = "triage row"
  /\ UNCHANGED <<signals, cycles, clock, local, told>>

\* _persist_cycle, whose failure is only logged, completes the row, also of a cycle that
\* raised.
EndTriage ==
  /\ pc = "triage row"
  /\ \/ NoFault /\ mark' = next /\ elapsed' = 0
     \/ Fault /\ UNCHANGED <<mark, elapsed>>
  /\ pc' = "briefing" /\ work' = {} /\ left' = {} /\ next' = 0
  /\ UNCHANGED <<signals, managed, clock, told>>

-----------------------------------------------------------------------------
(* The manager cycle.                                                      *)

\* It opens its row and asks the model for updates and a digest: the model may have none,
\* or fail, or something else raises, and the cycle ends as completed all the same.
StartManager ==
  /\ pc = "decide" /\ ~due["ceiling"] /\ ManagerDue
  /\ \/ NoFault /\ pc' \in {"digest", "manager row"}
     \/ Fault /\ pc' = "manager row"
  /\ UNCHANGED <<signals, cycles, clock, local, told>>

SendDigest ==
  /\ pc = "digest"
  /\ \/ NoFault /\ sent' = [sent EXCEPT !["digest"] = @ + 1]
     \/ Fault /\ UNCHANGED sent
  /\ pc' = "manager row"
  /\ UNCHANGED <<signals, cycles, clock, local, shown, handled>>

CompleteManager ==
  /\ managed' = TRUE /\ due' = [due EXCEPT !["manager"] = FALSE]
  /\ UNCHANGED <<mark, elapsed>>

EndManager ==
  /\ pc = "manager row"
  /\ \/ NoFault /\ CompleteManager
     \/ Fault /\ UNCHANGED <<mark, elapsed, managed, due>>
  /\ pc' = "briefing"
  /\ UNCHANGED <<signals, dues, local, told>>

-----------------------------------------------------------------------------
(* The chief-of-staff review.                                              *)

NoReview ==
  /\ pc = "briefing"
  /\ \/ ~due["review"] /\ NoFault
     \/ Fault              \* the row cannot be inserted, or the context not be read
  /\ pc' = "idle"
  /\ UNCHANGED <<signals, cycles, clock, local, told>>

\* The review opens its row, reads its context and asks the model.  If the model fails
\* the output is empty, and is applied like any other.
StartReview ==
  /\ pc = "briefing" /\ due["review"]
  /\ \/ NoFault /\ pc' \in {"message", "review row"}
     \/ Fault /\ pc' = "review row"
  /\ UNCHANGED <<signals, cycles, clock, local, shown, handled, sent>>

\* Its updates are applied, each in a transaction of its own, and its message is sent.
SendBrief ==
  /\ pc = "message"
  /\ sent' = [sent EXCEPT !["brief"] = @ + 1]
  /\ pc' = "review row"
  /\ UNCHANGED <<signals, cycles, clock, local, shown, handled, faults>>

\* Whatever fails before the row is completed leaves it open: the slot is due again.
ReviewFails ==
  /\ pc \in {"message", "review row"} /\ Fault
  /\ pc' = "idle"
  /\ UNCHANGED <<signals, cycles, clock, local, told>>

EndReview ==
  /\ pc = "review row"
  /\ due' = [due EXCEPT !["review"] = FALSE]
  /\ pc' = "idle"
  /\ UNCHANGED <<signals, mark, elapsed, managed, dues, local, told, faults>>

\* The heartbeat stops in the middle of a tick and is started again.
Crash ==
  /\ pc # "idle" /\ Fault
  /\ pc' = "idle" /\ work' = {} /\ left' = {} /\ next' = 0
  /\ UNCHANGED <<signals, cycles, clock, told>>

-----------------------------------------------------------------------------
Step ==
  \/ BeginTick \/ AssignThread \/ AssignFails \/ WriteBack
  \/ Skip \/ StartTriage \/ RoleEnds \/ RoleFallsBack \/ CycleRaises \/ EndTriage
  \/ StartManager \/ SendDigest \/ EndManager
  \/ NoReview \/ StartReview \/ SendBrief \/ ReviewFails \/ EndReview

Next ==
  \/ Arrive \/ Elapse \/ Crash \/ Step
  \/ \E d \in Due : ComesDue(d)
  \/ \E d \in {"review", "ceiling"} : Lapse(d)

\* Ticks follow each other and run to their end; between them time passes, days end.
Fairness ==
  /\ WF_vars(Step) /\ SF_vars(Elapse) /\ SF_vars(Lapse("ceiling"))

Spec == Init /\ [][Next]_vars /\ Fairness

-----------------------------------------------------------------------------
(* Properties.                                                             *)

\* No signal is put before a model again unless something failed: the manager's and the
\* review's rows, which carry other marks, do not move the triage (observation.py:418).
ShownOncePerFailure == \A i \in Ids : shown[i] <= 1 + faults

\* The triage has no gaps: of the signals at or below the watermark, all have been in a
\* cycle that one of the roles finished, except for one window per failure.
SkippedOnlyByFailure ==
  Cardinality({i \in 1 .. Watermark : i \notin handled}) <= CycleCap * faults

\* The signal_count of the threads: each signal with a thread was counted, and none twice
\* unless an enrichment failed after counting it (signal_intelligence.py:250).
CountedOncePerFailure ==
  /\ \A i \in threaded : counted[i] >= 1
  /\ \A i \in Ids : counted[i] <= 1 + faults

\* The user is not told again what he was told: at most one digest each time the manager
\* comes due, one message each time a slot of the review is crossed, and one more
\* for each failure (a cycle that is not recorded as completed repeats).
ToldOncePerDue ==
  /\ sent["digest"] <= 1 + dues["manager"] + faults
  /\ sent["brief"] <= dues["review"] + faults

\* However few signals come, they are observed, once a first cycle has completed: the
\* interval sees to it, and neither the manager nor the cost ceiling starves the triage.
SignalsAreObserved == (mark # Never) ~> (Watermark = last)

\* Nothing is observed, counted or told twice, and nothing passed over, but for a failure.
OncePerSignal ==
  TypeOK /\ ShownOncePerFailure /\ SkippedOnlyByFailure /\ CountedOncePerFailure /\ ToldOncePerDue
=============================================================================
