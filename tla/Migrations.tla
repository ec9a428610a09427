----------------------------- MODULE Migrations -----------------------------
(***************************************************************************)
(* The migration runner of db/migrations.py.  The telegram bot, the        *)
(* heartbeat and the caretaker each call migrate() when they start: it     *)
(* takes a file lock, reads the highest version in schema_version and      *)
(* applies the migrations above it, one after the other, each with its     *)
(* version row.  A process that dies or raises is started again.           *)
(*                                                                         *)
(* A migration is begun in a transaction, but sqlite3's executescript      *)
(* commits it first, and the script and all that follows it is then        *)
(* committed statement by statement.  So the body of a migration is a      *)
(* sequence of statements, "commit" being one of them, and a step of this  *)
(* module is one statement.  XibiSchema has the bodies.                    *)
(***************************************************************************)
EXTENDS Integers, Sequences, FiniteSets, FiniteSetsExt, SequencesExt

CONSTANTS
  Procs,    \* processes that call migrate()
  Body,     \* Body[v]: the statements of _migration_v
  References, \* References[v + 1]: the database that version v is, which Built works out
  Rows,     \* the table whose rows are followed
  NoProc,   \* nobody
  Installed,\* versions of the installations that are there; 0 is a new one
  MaxFaults \* bound: crashes, failed statements, late locks, unreadable versions

Versions == 1 .. Len(Body)

\* An object is a table <<t>>, or a column or index of it <<t, name>>.
TableOf(o) == <<o[1]>>

MigrationsAssumption ==
  /\ IsFiniteSet(Procs) /\ NoProc \notin Procs
  /\ \A v \in 1 .. Len(Body) : \A i \in 1 .. Len(Body[v]) :
       Body[v][i].op \in {"make", "commit", "unless", "copy", "drop", "rename"}
  /\ Installed \subseteq 0 .. Len(Body) /\ MaxFaults \in Nat

VARIABLES
  disk,   \* [versions, objs, holds]: version rows, objects, tables with the user's rows
  lock,   \* holder of the file lock
  writer, \* process in a transaction
  pc,     \* what a process is doing
  at,     \* version it is applying
  stmt,   \* statement of the body it is about to run
  work,   \* the database as its transaction has it
  kept,   \* history: the user has rows
  raised, \* history: versions whose migration raised, nothing having gone wrong just then
  faults  \* history: everything that went wrong

proc    == <<pc, at, stmt, work>>
history == <<kept, raised>>
vars    == <<disk, lock, writer, proc, history, faults>>

Empty == [versions |-> {}, objs |-> {}, holds |-> {}]

-----------------------------------------------------------------------------
(* Statements.                                                             *)

\* Mutant of Fails: IF NOT EXISTS is forgotten everywhere.
FailsTwice(s, d) == s.op = "make" /\ (~(s.needs \subseteq d.objs) \/ s.makes \cap d.objs # {})

Fails(s, d) ==
  \/ ~(s.needs \subseteq d.objs)
  \/ s.op \in {"make", "rename"} /\ ~s.guarded /\ s.makes \cap d.objs # {}

\* The tables T with their columns and indexes.
Of(T, d) == {o \in d.objs : TableOf(o) \in T}

Do(s, d) ==
  CASE s.op = "make" /\ s.makes \cap d.objs = {} -> [d EXCEPT !.objs = @ \cup s.makes]
    [] s.op = "copy" /\ s.needs \cap d.holds # {} ->
         [d EXCEPT !.holds = @ \cup {TableOf(o) : o \in s.makes}]
    [] s.op = "drop" -> [d EXCEPT !.objs = @ \ Of(s.needs, d), !.holds = @ \ s.needs]
    [] s.op = "rename" ->
         [d EXCEPT !.objs = (@ \ Of(s.needs, d)) \cup s.makes,
                   !.holds = (@ \ s.needs)
                     \cup IF s.needs \cap @ # {} THEN {TableOf(o) : o \in s.makes} ELSE {}]
    [] OTHER -> d

\* build_reference_schema: all the bodies up to v, on an empty database.
Apply(d, v) == [FoldLeft(LAMBDA e, s : Do(s, e), d, Body[v]) EXCEPT !.versions = @ \cup {v}]

Built ==
  FoldLeft(LAMBDA ds, v : Append(ds, Apply(Last(ds), v)), <<Empty>>, [v \in Versions |-> v])

Reference(v) == References[v + 1]

Latest(d) == IF d.versions = {} THEN 0 ELSE Max(d.versions)

\* check_schema_drift, against the schema of the version that is recorded.
Drift(d) == Reference(Latest(d)).objs \ d.objs

TypeOK ==
  /\ disk.versions \subseteq Versions /\ IsFiniteSet(disk.objs)
  /\ disk.holds \subseteq disk.objs
  /\ lock \in Procs \cup {NoProc} /\ writer \in Procs \cup {NoProc}
  /\ pc \in [Procs -> {"off", "waiting", "probing", "migrating", "up"}]
  /\ at \in [Procs -> 0 .. Len(Body) + 1] /\ stmt \in [Procs -> Nat]
  /\ \A p \in Procs : pc[p] \in {"probing", "migrating"} => lock = p
  /\ \A p \in Procs : work[p] # Empty => writer = p
  /\ kept \in BOOLEAN /\ raised \subseteq Versions /\ faults \in 0 .. MaxFaults

\* A new installation or an older one, with or without rows.
Init ==
  /\ \E v \in Installed, h \in {{}, {Rows}} :
       disk = [Reference(v) EXCEPT !.holds = h \cap Reference(v).objs]
  /\ lock = NoProc /\ writer = NoProc
  /\ pc = [p \in Procs |-> "off"] /\ at = [p \in Procs |-> 0]
  /\ stmt = [p \in Procs |-> 1] /\ work = [p \in Procs |-> Empty]
  /\ kept = (disk.holds # {}) /\ raised = {} /\ faults = 0

Fault   == faults < MaxFaults /\ faults' = faults + 1
NoFault == UNCHANGED faults

-----------------------------------------------------------------------------
(* migrate().                                                              *)

\* The process is started, by systemd, the timer or the user.
Start(p) ==
  /\ pc[p] = "off"
  /\ pc' = [pc EXCEPT ![p] = "waiting"]
  /\ UNCHANGED <<disk, lock, writer, at, stmt, work, history, faults>>

Free == lock = NoProc

Acquire(p) ==
  /\ pc[p] = "waiting" /\ Free
  /\ lock' = p /\ pc' = [pc EXCEPT ![p] = "probing"]
  /\ UNCHANGED <<disk, writer, at, stmt, work, history, faults>>

\* Locked out for 30 seconds: TimeoutError.
TimeOut(p) ==
  /\ pc[p] = "waiting" /\ lock # NoProc /\ Fault
  /\ pc' = [pc EXCEPT ![p] = "off"]
  /\ UNCHANGED <<disk, lock, writer, at, stmt, work, history>>

\* On to version v, or done: the lock is given back.
Turn(p, v) ==
  /\ at' = [at EXCEPT ![p] = v] /\ stmt' = [stmt EXCEPT ![p] = 1]
  /\ IF v <= Len(Body)
     THEN pc' = [pc EXCEPT ![p] = "migrating"] /\ UNCHANGED lock
     ELSE pc' = [pc EXCEPT ![p] = "up"] /\ lock' = NoProc

\* get_version: an OperationalError, whatever its cause, reads as version 0.
Probe(p) ==
  /\ pc[p] = "probing"
  /\ \/ NoFault /\ Turn(p, Latest(disk) + 1)
     \/ Fault /\ Turn(p, 1)
  /\ UNCHANGED <<disk, writer, work, history>>

\* The transaction that precedes the first statement; it holds the write lock from there.
Begin(p) ==
  /\ pc[p] = "migrating" /\ stmt[p] = 1 /\ writer = NoProc
  /\ writer' = p /\ work' = [work EXCEPT ![p] = disk]
  /\ stmt' = [stmt EXCEPT ![p] = 2]
  /\ UNCHANGED <<disk, lock, pc, at, history, faults>>

\* stmt counts BEGIN as 1.
Running(p)  == pc[p] = "migrating" /\ stmt[p] > 1 /\ writer \in {p, NoProc}
Upcoming(p) == Body[at[p]][stmt[p] - 1]
AtTheEnd(p) == stmt[p] - 1 > Len(Body[at[p]])
View(p)     == IF writer = p THEN work[p] ELSE disk

\* In the transaction, or straight to the disk when a script has ended it.
Write(p, d) ==
  IF writer = p THEN work' = [work EXCEPT ![p] = d] /\ UNCHANGED disk
  ELSE disk' = d /\ UNCHANGED work

\* One statement that succeeds.
Step(p) ==
  /\ Running(p) /\ ~AtTheEnd(p)
  /\ LET s == Upcoming(p)
     IN /\ s.op # "commit" /\ ~Fails(s, View(p))
        /\ Write(p, Do(s, View(p)))
        /\ stmt' = [stmt EXCEPT ![p] =
             IF s.op = "unless" /\ s.makes \subseteq View(p).objs THEN Len(Body[at[p]]) + 2 ELSE @ + 1]
  /\ UNCHANGED <<lock, writer, pc, at, history, faults>>

\* What executescript does before its script.
Commit(p) ==
  /\ Running(p) /\ ~AtTheEnd(p) /\ Upcoming(p).op = "commit"
  /\ disk' = View(p) /\ writer' = NoProc /\ work' = [work EXCEPT ![p] = Empty]
  /\ stmt' = [stmt EXCEPT ![p] = @ + 1]
  /\ UNCHANGED <<lock, pc, at, history, faults>>

\* The version row; its insert opens a transaction if there is none.
Record(p) ==
  /\ Running(p) /\ AtTheEnd(p) /\ at[p] \notin View(p).versions
  /\ disk' = [View(p) EXCEPT !.versions = @ \cup {at[p]}]
  /\ writer' = NoProc /\ work' = [work EXCEPT ![p] = Empty]
  /\ Turn(p, at[p] + 1)
  /\ UNCHANGED <<history, faults>>

\* The transaction is rolled back, the lock released and the process gone.
GoDown(p) ==
  /\ pc' = [pc EXCEPT ![p] = "off"] /\ work' = [work EXCEPT ![p] = Empty]
  /\ writer' = IF writer = p THEN NoProc ELSE writer
  /\ lock' = IF lock = p THEN NoProc ELSE lock
  /\ at' = [at EXCEPT ![p] = 0] /\ stmt' = [stmt EXCEPT ![p] = 1]

\* A statement that cannot succeed, or a version that is there already.
Raise(p) ==
  /\ Running(p)
  /\ IF AtTheEnd(p) THEN at[p] \in View(p).versions
     ELSE Upcoming(p).op # "commit" /\ Fails(Upcoming(p), View(p))
  /\ raised' = raised \cup {at[p]}
  /\ GoDown(p)
  /\ UNCHANGED <<disk, kept, faults>>

\* Mutant of Die: the failure is suppressed and the version recorded (BUG-009).
DieSuppressed(p) ==
  IF pc[p] = "migrating" /\ writer = p
  THEN /\ disk' = [work[p] EXCEPT !.versions = @ \cup {at[p]}]
       /\ writer' = NoProc /\ work' = [work EXCEPT ![p] = Empty]
       /\ Turn(p, at[p] + 1)
  ELSE GoDown(p) /\ UNCHANGED disk

Die(p) == GoDown(p) /\ UNCHANGED disk

\* A crash, or an error at whatever it does: disk full, a locked database.
Fail(p) ==
  /\ pc[p] \in {"waiting", "probing", "migrating", "up"} /\ Fault
  /\ Die(p)
  /\ UNCHANGED history

\* A process that came up, of this version or an older one, writes the user's rows; it
\* does not ask for the file lock.
AddRow ==
  /\ writer = NoProc /\ Rows \in disk.objs /\ Rows \notin disk.holds
  /\ disk' = [disk EXCEPT !.holds = @ \cup {Rows}] /\ kept' = TRUE
  /\ UNCHANGED <<lock, writer, proc, raised, faults>>

-----------------------------------------------------------------------------
Work(p) ==
  \/ Start(p) \/ Acquire(p) \/ Probe(p) \/ Begin(p) \/ Step(p) \/ Commit(p) \/ Record(p) \/ Raise(p)

Next == AddRow \/ \E p \in Procs : Work(p) \/ TimeOut(p) \/ Fail(p)

\* systemd and the timer start a process that is down again, and one that runs goes on.
Fairness == \A p \in Procs : WF_vars(Work(p))

Spec == Init /\ [][Next]_vars /\ Fairness

-----------------------------------------------------------------------------
(* Properties.                                                             *)

\* A version is recorded only with its schema: no failure leaves a stale version number
\* (migrations.py:6), and doctor finds no drift (schema_check.py:128).
VersionTellsSchema == Drift(disk) = {}

Scripted(v) == \E i \in 1 .. Len(Body[v]) : Body[v][i].op = "commit"

\* A migration without a script is applied with its version row or not at all.
AllOrNothing ==
  \A v \in Versions \ disk.versions :
    ~Scripted(v) => (Reference(v).objs \ Reference(v - 1).objs) \cap disk.objs = {}

\* A script that creates without IF NOT EXISTS (0021_scheduled_actions.sql).
Brittle(v) == Scripted(v) /\ \E i \in 1 .. Len(Body[v]) :
                Body[v][i].op = "make" /\ ~Body[v][i].guarded

\* Torn: it was cut off in the middle, and cannot be repeated.
Torn == \E v \in Versions \ disk.versions :
          Brittle(v) /\ (Reference(v).objs \ Reference(v - 1).objs) \cap disk.objs # {}

\* Whatever interrupted migrate(), and whoever else runs it, it raises only for a torn
\* script, or at version 1 after the version could not be read.
RaisesOnlyIfTorn ==
  \A v \in raised : (Brittle(v) \/ v = 1) /\ faults > 0

\* The user's rows outlive every migration (migration 37 drops their table).
RowsAreKept == kept => Rows \in disk.holds

\* Every process comes up on a database of the last version, whatever went wrong on the
\* way, unless a script was torn.
EverybodyComesUp ==
  <>[](Torn \/ (Latest(disk) = Len(Body) /\ \A p \in Procs : pc[p] = "up"))
=============================================================================
