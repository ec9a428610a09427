---------------------------- MODULE Housekeeping ----------------------------
(***************************************************************************)
(* What keeps an installation in order: the migrations when a service      *)
(* starts, the sweeps of the heartbeat, the pulses of the caretaker.  None *)
(* of them reads what another writes: a tick and a pulse come after the    *)
(* migrations of their process, the rollup keeps a day of the events at    *)
(* least, and that is the window of the caretaker.  So it is enough to     *)
(* look at one of them at a time: subject says which one moves.            *)
(***************************************************************************)
EXTENDS Integers, Sequences

CONSTANTS
  Order, Interval, Rollup, DayLength, Retention, LastSlot, SweepFaults,
  Checks, Wavering, Timer, Manual, MaxChanges, MaxAccepts, PulseFaults,
  Procs, Body, References, Rows, NoProc, Installed, MaxFaults

VARIABLES
  now, raw, daily, lastRun, offset, queue, tick, summed, selected, slipped, late, trouble,
  level, row, stage, todo, observed, fresh, told, healthy, blind, unsent, shared, changes, accepts, flaws,
  disk, lock, writer, pc, at, stmt, work, kept, raised, faults,
  subject

S == INSTANCE Sweeps
C == INSTANCE Caretaker
M == INSTANCE Migrations

ASSUME HousekeepingAssumption ==
  S!SweepsAssumption /\ C!CaretakerAssumption /\ M!MigrationsAssumption /\ References = M!Built

sweeps     == <<now, raw, daily, lastRun, offset, queue, tick, summed, selected, slipped, late, trouble>>
pulses     == <<level, row, stage, todo, observed, fresh, told, healthy, blind, unsent, shared,
                changes, accepts, flaws>>
migrations == <<disk, lock, writer, pc, at, stmt, work, kept, raised, faults>>
vars       == <<sweeps, pulses, migrations, subject>>

\* What does not move is at rest.  At first nothing is wrong.
Init ==
  /\ S!Init /\ C!Init /\ M!Init /\ subject \in {"sweeps", "caretaker", "migrations"}
  /\ \A k \in C!Keys : level[k] = "healthy"
  /\ subject # "migrations" => disk = M!Empty

Sweeping     == subject = "sweeps" /\ S!Next /\ UNCHANGED <<pulses, migrations, subject>>
Caring(A)    == subject = "caretaker" /\ A /\ UNCHANGED <<sweeps, migrations, subject>>
Migrating(A) == subject = "migrations" /\ A /\ UNCHANGED <<sweeps, pulses, subject>>

Next == Sweeping \/ Caring(C!Next) \/ Migrating(M!Next)

\* That of the components.
Fairness ==
  /\ WF_vars(Caring(C!StartPulse(Timer)))
  /\ \A p \in C!Pulses : WF_vars(Caring(C!PulseStep(p)))
  /\ \A p \in Procs : WF_vars(Migrating(M!Work(p)))

Spec == Init /\ [][Next]_vars /\ Fairness

-----------------------------------------------------------------------------
(* The properties of the components, which say more of each.               *)

\* Every sweep that is due gets its turn (sweep_registry.py:194).  No event is added up
\* twice (sweeps.py:253): it is kept, added up, or replaced by later ones of its day.
SweepsAreSound == S!TypeOK /\ S!NobodyStarves /\ S!NoDoubleCounting /\ S!EventsAccounted

\* A problem is told once in the life of its row, a row tells of a telegram (dedup.py), and only
\* what was healthy, or could not be checked, is taken for solved (pulse.py:290).
PulsesAreSound == [](C!TypeOK /\ C!ToldOnce /\ C!RowsWereTold) /\ C!SolvedMeansHealthy

\* At last the rows of the caretaker say what is wrong (pulse.py:268).
RowsSettle == subject = "caretaker" => C!RowsSettle

\* A version is recorded only with its schema (migrations.py:6), a migration without a script
\* with its version or not at all (migrations.py:18); migrate() raises only for a script that
\* was cut off or an unreadable version, and the rows outlive the rebuilding of their table.
MigrationsAreSound ==
  subject = "migrations" =>
    M!TypeOK /\ M!VersionTellsSchema /\ M!AllOrNothing /\ M!RaisesOnlyIfTorn /\ M!RowsAreKept

\* Every service comes up unless the script of migration 21 was cut off.
EverybodyComesUp == subject = "migrations" => M!EverybodyComesUp
=============================================================================
