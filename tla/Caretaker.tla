------------------------------ MODULE Caretaker ------------------------------
(***************************************************************************)
(* The pulses of the caretaker: caretaker/pulse.py, dedup.py, notifier.py  *)
(* and the checks.  A pulse is a process of its own, started by the timer  *)
(* every 15 minutes or by the user.  It runs the checks one after the      *)
(* other, compares what they find with the rows of caretaker_drift_state,  *)
(* deletes the rows of what is no longer found, and sends a telegram for   *)
(* each finding that had no row.  Every look at the rows and every change  *)
(* of them is a connection of its own.                                     *)
(*                                                                         *)
(* A key stands for the finding of one check.  A key of Wavering (provider *)
(* health) has a grey zone between its two thresholds.                     *)
(***************************************************************************)
EXTENDS Integers, Sequences, FiniteSets, SequencesExt

CONSTANTS
  Checks,       \* the keys, in the order of their checks
  Wavering,     \* keys with hysteresis
  Timer,        \* the pulse of the timer
  Manual,       \* the pulse of the user (xibi caretaker run)
  MaxChanges,   \* bound: changes of the world
  MaxAccepts,   \* bound: accept-drift
  PulseFaults   \* bound: crashes, failed checks, failed sends

Keys   == ToSet(Checks)
Pulses == {Timer, Manual}

CaretakerAssumption ==
  /\ Checks \in Seq(Keys) /\ IsInjective(Checks) /\ Wavering \subseteq Keys /\ Timer # Manual
  /\ MaxChanges \in Nat /\ MaxAccepts \in Nat /\ PulseFaults \in Nat

VARIABLES
  level,    \* what the checks would see
  row,      \* caretaker_drift_state
  stage,    \* what a pulse is doing
  todo,     \* keys this stage has before it
  observed, \* observed_keys
  fresh,    \* new_findings
  told,     \* history: telegrams since the row was made
  healthy,  \* history: the key was healthy at some time of the row's life
  blind,    \* history: its check raised in the row's life
  unsent,   \* history: new findings of a pulse that died, or whose telegram failed
  shared,   \* history: two pulses ran at once in the row's life
  changes, accepts, flaws \* bounds

pulse   == <<stage, todo, observed, fresh>>
history == <<told, healthy, blind, unsent, shared>>
bounds  == <<changes, accepts, flaws>>
vars == <<level, row, pulse, history, bounds>>

Levels(k) == {"healthy", "bad"} \cup IF k \in Wavering THEN {"grey"} ELSE {}

TypeOK ==
  /\ \A k \in Keys : level[k] \in Levels(k)
  /\ row \in [Keys -> {"none", "open", "accepted"}]
  /\ stage \in [Pulses -> {"off", "check", "judge", "record", "list", "resolve", "notify"}]
  /\ todo \in [Pulses -> SUBSET Keys]
  /\ observed \in [Pulses -> SUBSET Keys] /\ fresh \in [Pulses -> SUBSET Keys]
  /\ told \in [Keys -> Nat] /\ healthy \subseteq Keys /\ blind \subseteq Keys /\ unsent \subseteq Keys
  /\ shared \subseteq Keys
  /\ changes \in 0 .. MaxChanges /\ accepts \in 0 .. MaxAccepts /\ flaws \in 0 .. PulseFaults

Init ==
  /\ level \in {l \in [Keys -> {"healthy", "grey", "bad"}] : \A k \in Keys : l[k] \in Levels(k)}
  /\ row = [k \in Keys |-> "none"]
  /\ stage = [p \in Pulses |-> "off"] /\ todo = [p \in Pulses |-> {}]
  /\ observed = [p \in Pulses |-> {}] /\ fresh = [p \in Pulses |-> {}]
  /\ told = [k \in Keys |-> 0] /\ healthy = {} /\ blind = {} /\ unsent = {} /\ shared = {}
  /\ changes = 0 /\ accepts = 0 /\ flaws = 0

Flaw   == flaws < PulseFaults /\ flaws' = flaws + 1 /\ UNCHANGED <<changes, accepts>>
NoFlaw == UNCHANGED bounds

-----------------------------------------------------------------------------
(* The world and the user.                                                 *)

\* A provider degrades or recovers, a file is edited or accepted by accept-config, a review
\* is late or done.
Change(k) ==
  /\ changes < MaxChanges /\ changes' = changes + 1
  /\ \E l \in Levels(k) \ {level[k]} :
       /\ level' = [level EXCEPT ![k] = l]
       /\ healthy' = healthy \cup IF l = "healthy" THEN {k} ELSE {}
  /\ UNCHANGED <<row, pulse, told, blind, unsent, shared, accepts, flaws>>

\* accept-drift: of a key without a row it is nothing.
Accept(k) ==
  /\ accepts < MaxAccepts /\ accepts' = accepts + 1
  /\ row[k] = "open"
  /\ row' = [row EXCEPT ![k] = "accepted"]
  /\ UNCHANGED <<level, pulse, history, changes, flaws>>

-----------------------------------------------------------------------------
(* A pulse.                                                                *)

Alone(p) == \A q \in Pulses \ {p} : stage[q] = "off"

StartPulse(p) ==
  /\ stage[p] = "off"
  /\ stage' = [stage EXCEPT ![p] = "check"] /\ todo' = [todo EXCEPT ![p] = Keys]
  /\ UNCHANGED <<observed, fresh>>
  /\ shared' = shared \cup IF Alone(p) THEN {} ELSE Keys
  /\ UNCHANGED <<level, row, told, healthy, blind, unsent, bounds>>

\* The stage has the keys ks before it; a stage that has none is passed over.
At(p, s, ks) == stage' = [stage EXCEPT ![p] = s] /\ todo' = [todo EXCEPT ![p] = ks]

Judging(p, ks)   == IF ks = {} THEN At(p, "list", ks) ELSE At(p, "judge", ks)
Resolving(p, ks) == IF ks = {} THEN At(p, "notify", fresh[p]) ELSE At(p, "resolve", ks)

Place(k) == CHOOSE i \in DOMAIN Checks : Checks[i] = k

\* Findings are in the order of their checks.
Turn(p, k) == k \in todo[p] /\ \A j \in todo[p] : Place(k) <= Place(j)
Left(p, k) == todo[p] \ {k}

\* In the grey zone a finding stays one if it has a row.
Produced(k) == level[k] = "bad" \/ (level[k] = "grey" /\ row[k] # "none")

\* The next check, which may raise, or be unable to read and find nothing.
Check(p) ==
  /\ stage[p] = "check" /\ \E k \in Keys :
       /\ Turn(p, k)
       /\ \/ observed' = [observed EXCEPT ![p] = @ \cup IF Produced(k) THEN {k} ELSE {}]
             /\ blind' = blind /\ NoFlaw
          \/ UNCHANGED observed /\ blind' = blind \cup {k} /\ Flaw
       /\ IF Left(p, k) = {} THEN Judging(p, observed'[p]) ELSE At(p, "check", Left(p, k))
  /\ UNCHANGED <<level, row, fresh, told, healthy, unsent, shared>>

\* Mutant of Unseen: only acceptance silences a finding.
UnseenIfOpen(k) == row[k] # "accepted"

Unseen(k) == row[k] = "none"

\* seen_before, and is_accepted, which makes no difference here but for the status.
Judge(p) ==
  /\ stage[p] = "judge" /\ \E k \in Keys :
       /\ Turn(p, k)
       /\ IF Unseen(k) THEN At(p, "record", todo[p]) ELSE Judging(p, Left(p, k))
  /\ UNCHANGED <<level, row, observed, fresh, history, bounds>>

\* record_finding; the row of another pulse is left as it is.
Record(p) ==
  /\ stage[p] = "record" /\ \E k \in Keys :
       /\ Turn(p, k) /\ Judging(p, Left(p, k))
       /\ row' = [row EXCEPT ![k] = IF @ = "none" THEN "open" ELSE @]
       /\ fresh' = [fresh EXCEPT ![p] = @ \cup {k}]
       /\ IF row[k] = "none"
          THEN /\ told' = [told EXCEPT ![k] = 0]
               /\ healthy' = IF level[k] = "healthy" THEN healthy \cup {k} ELSE healthy \ {k}
               /\ blind' = blind \ {k} /\ unsent' = unsent \ {k}
               /\ shared' = IF Alone(p) THEN shared \ {k} ELSE shared
          ELSE UNCHANGED <<told, healthy, blind, unsent, shared>>
  /\ UNCHANGED <<level, observed, bounds>>

\* Mutant of Stale: what was accepted stays.
StaleButAccepted(p) == {k \in Keys : row[k] = "open" /\ k \notin observed[p]}

\* active_keys less observed_keys.
Stale(p) == {k \in Keys : row[k] # "none" /\ k \notin observed[p]}

List(p) ==
  /\ stage[p] = "list"
  /\ Resolving(p, Stale(p))
  /\ observed' = [observed EXCEPT ![p] = {}]
  /\ UNCHANGED <<level, row, fresh, history, bounds>>

\* resolve: the row is deleted, whatever it has become; in no order.
Resolve(p) ==
  /\ stage[p] = "resolve" /\ \E k \in todo[p] :
       row' = [row EXCEPT ![k] = "none"] /\ Resolving(p, Left(p, k))
  /\ UNCHANGED <<level, observed, fresh, history, bounds>>

\* The next telegram.  One that fails is logged and counted as sent.
Notify(p) ==
  /\ stage[p] = "notify" /\ \E k \in Keys :
       /\ Turn(p, k) /\ At(p, "notify", Left(p, k))
       /\ fresh' = [fresh EXCEPT ![p] = @ \ {k}]
       /\ \/ told' = [told EXCEPT ![k] = @ + 1] /\ NoFlaw /\ UNCHANGED unsent
          \/ unsent' = unsent \cup {k} /\ Flaw /\ UNCHANGED told
  /\ UNCHANGED <<level, row, observed, healthy, blind, shared>>

EndPulse(p) ==
  /\ stage[p] = "notify" /\ todo[p] = {} /\ At(p, "off", {})
  /\ UNCHANGED <<level, row, observed, fresh, history, bounds>>

\* The process is killed, or one of its connections fails.
Die(p) ==
  /\ stage[p] # "off" /\ Flaw
  /\ unsent' = unsent \cup fresh[p]
  /\ At(p, "off", {})
  /\ fresh' = [fresh EXCEPT ![p] = {}] /\ observed' = [observed EXCEPT ![p] = {}]
  /\ UNCHANGED <<level, row, told, healthy, blind, shared>>

PulseStep(p) == Check(p) \/ Judge(p) \/ Record(p) \/ List(p) \/ Resolve(p) \/ Notify(p) \/ EndPulse(p)

Next ==
  \/ \E k \in Keys : Change(k) \/ Accept(k)
  \/ \E p \in Pulses : StartPulse(p) \/ PulseStep(p) \/ Die(p)

\* The timer starts a pulse 15 minutes after the last, and a pulse that runs goes on.
Fairness == WF_vars(StartPulse(Timer)) /\ \A p \in Pulses : WF_vars(PulseStep(p))

Spec == Init /\ [][Next]_vars /\ Fairness

-----------------------------------------------------------------------------
(* Properties.                                                             *)

\* A problem is told once as long as its row lives, and twice at most when the timer and
\* the user run a pulse at the same time (dedup.py record_finding).
ToldOnce == \A k \in Keys : row[k] # "none" => told[k] <= (IF k \in shared THEN 2 ELSE 1)

\* A row tells of a telegram: sent, about to be, or lost with its pulse.
RowsWereTold ==
  \A k \in Keys : row[k] # "none" /\ k \notin shared =>
    \/ told[k] > 0 \/ k \in unsent
    \/ \E p \in Pulses : k \in fresh[p]

\* Only a problem that was gone for a while, or whose check failed, is taken for solved: not
\* one in the grey zone, and no new one.  Its acceptance goes with the row.
SolvedMeansHealthy ==
  [][\A k \in Keys : row[k] # "none" /\ row'[k] = "none" => k \in healthy \cup blind \cup shared]_vars

\* At last the rows say what is wrong.
RowsSettle ==
  \A k \in Keys : /\ <>[](level[k] = "bad") => <>[](row[k] # "none")
                 /\ <>[](level[k] = "healthy") => <>[](row[k] = "none")
=============================================================================
