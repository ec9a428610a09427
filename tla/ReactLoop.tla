----------------------------- MODULE ReactLoop -----------------------------
(***************************************************************************)
(* A ReAct run of the chat (react.py) beside a cycle of the heartbeat      *)
(* (observation.py).  Both pass their tool calls through dispatch and the  *)
(* command layer, which suppresses a nudge that access_log shows as told,  *)
(* and both keep one trust record of the model up to date.  The run keeps  *)
(* large outputs in a HandleStore and shows the model their handles.       *)
(*                                                                         *)
(* Two windows are open: the log is read before a call and written after   *)
(* it, and the trust record is read in one transaction and replaced in     *)
(* another.                                                                *)
(***************************************************************************)
EXTENDS Integers, Sequences, FiniteSets, FiniteSetsExt

CONSTANTS
  MaxSteps,        \* max_steps of a run (10)
  ErrorLimit,      \* consecutive errors that end a run (3)
  MaxHandles,      \* handles of a store (64)
  MaxBytes,        \* bytes of a store (32 MiB)
  Sizes,           \* sizes of a large output
  Refs,            \* what a nudge can refer to
  PromoteAfter,    \* clean outputs that double the audit interval (10)
  InitialInterval, MinInterval, MaxInterval,  \* of the audits (5, 2, 50)
  MaxRuns,         \* bound: MaxRuns[p] runs or cycles of process p
  MaxAlerts,       \* bound: late alerts of a cycle
  MaxWindows,      \* bound: times the four hours of the dedup pass
  MaxFaults        \* bound: failed statements, and crashes

Process == {"chat", "heartbeat"}

ASSUME ReactLoopAssumption ==
  /\ MaxSteps \in Nat /\ ErrorLimit \in Nat \ {0}
  /\ MaxHandles \in Nat \ {0} /\ MaxBytes \in Nat /\ Sizes \subseteq Nat \ {0}
  /\ PromoteAfter \in Nat \ {0}
  /\ MinInterval \in Nat \ {0} /\ InitialInterval \in MinInterval .. MaxInterval /\ MaxInterval \in Nat
  /\ MaxRuns \in [Process -> Nat] /\ MaxAlerts \in Nat /\ MaxWindows \in Nat /\ MaxFaults \in Nat

\* thread: (thread_id, category).  A late alert and a digest have no refs.
Nudge  == [tool : {"nudge"}, thread : {"topic"}, refs : SUBSET Refs]
          \cup [tool : {"nudge"}, thread : {"late"}, refs : {{}}]
Plain  == [tool : {"read", "send"}]                      \* GREEN; RED
Follow == [tool : {"read"}, handle : 1 .. MaxSteps]      \* its input is a handle
Call   == Nudge \cup Plain \cup Follow
NoCall == [tool |-> "none"]
Output == {"ok", "large", "error", "suppressed", "blocked"}
Event  == {"success", "recovered", "persistent", "transient"}

VARIABLES
  pc,        \* pc[p]: where p is
  call,      \* call[p]: tool call it dispatches
  output,    \* output[p]: what it returned
  event,     \* event[p]: what it records of the model
  copy,      \* copy[p]: trust record as it read it
  then,      \* where the chat goes once it has recorded
  alerts,    \* late alerts the heartbeat has still to send
  step, errors,  \* step_num and consecutive_errors of the run
  tried,     \* whether its scratchpad has a tool call
  external,  \* whether the last step of the scratchpad read from outside
  sizes,     \* sizes of the payloads created in the run
  store,     \* payloads, by number, that the store still has
  log,       \* nudges in access_log in the last four hours
  trust,     \* row of trust_records
  runs,      \* runs[p]: history, runs or cycles begun
  windows,   \* history: dedup windows that passed
  executed,  \* history: nudges executed in this window
  suppressed,\* history: nudges suppressed in this window
  repeats,   \* history: nudges executed although they had been in this window
  together,  \* history: nudges that passed the gate while the other process was on its way from gate to audit
  successes, \* history: successes recorded
  faults     \* history: everything that went wrong

calls   == <<call, output>>
notes   == <<event, copy>>
run     == <<then, step, errors, tried, external>>
handles == <<sizes, store>>
told    == <<executed, suppressed, repeats, together>>
shared  == <<log, trust>>
vars    == <<pc, calls, notes, run, handles, alerts, shared, runs, windows, told, successes, faults>>

Record == [interval : Nat, clean : Nat, total : Nat, failures : Nat]
Fresh  == [interval |-> InitialInterval, clean |-> 0, total |-> 0, failures |-> 0]

TypeOK ==
  /\ pc \in [Process -> {"idle", "think", "read trust", "write trust", "act", "gate", "execute", "audit", "observe"}]
  /\ call \in [Process -> Call \cup {NoCall}] /\ output \in [Process -> Output \cup {"none"}]
  /\ event \in [Process -> Event \cup {"none"}] /\ copy \in [Process -> Record]
  /\ then \in {"act", "unparsed", "exit"} /\ alerts \in 0 .. MaxAlerts
  /\ step \in 0 .. MaxSteps + 1 /\ errors \in 0 .. ErrorLimit
  /\ tried \in BOOLEAN /\ external \in BOOLEAN
  /\ sizes \in Seq(Sizes) /\ Len(sizes) < MaxSteps + 1 /\ store \subseteq 1 .. Len(sizes)
  /\ log \subseteq Nudge /\ trust \in Record /\ trust.interval \in MinInterval .. MaxInterval
  /\ trust.failures <= trust.total /\ (trust.clean < PromoteAfter \/ trust.interval = MaxInterval)
  /\ runs \in [Process -> Nat] /\ windows \in 0 .. MaxWindows
  /\ executed \subseteq Nudge /\ suppressed \subseteq Nudge /\ repeats \in Nat /\ together \in Nat
  /\ successes \in Nat /\ faults \in 0 .. MaxFaults

Init ==
  /\ pc = [p \in Process |-> "idle"]
  /\ call = [p \in Process |-> NoCall] /\ output = [p \in Process |-> "none"]
  /\ event = [p \in Process |-> "none"] /\ copy = [p \in Process |-> Fresh]
  /\ then = "act" /\ alerts = 0 /\ step = 0 /\ errors = 0
  /\ tried = FALSE /\ external = FALSE
  /\ sizes = <<>> /\ store = {}
  /\ log = {} /\ trust = Fresh
  /\ runs = [p \in Process |-> 0] /\ windows = 0
  /\ executed = {} /\ suppressed = {} /\ repeats = 0 /\ together = 0
  /\ successes = 0 /\ faults = 0

Fault   == faults < MaxFaults /\ faults' = faults + 1
NoFault == UNCHANGED faults

Set(f, p, x) == [f EXCEPT ![p] = x]
Goes(p, to)  == pc' = Set(pc, p, to)
Other(p)     == CHOOSE q \in Process : q # p

-----------------------------------------------------------------------------
(* Runs and cycles.                                                        *)

Begins(p) ==
  /\ pc[p] = "idle" /\ runs[p] < MaxRuns[p]
  /\ runs' = Set(runs, p, runs[p] + 1)

\* The loop is entered with an empty scratchpad and store.
StartRun ==
  /\ Begins("chat") /\ Goes("chat", "think")
  /\ step' = 1 /\ errors' = 0 /\ tried' = FALSE /\ external' = FALSE
  /\ sizes' = <<>> /\ store' = {}
  /\ UNCHANGED <<calls, notes, then, alerts, shared, windows, told, successes, faults>>

\* The shadow matcher knows what the user wants: one call without a loop.
StartDirect ==
  /\ Begins("chat") /\ Goes("chat", "gate")
  /\ \E c \in Nudge \cup Plain : call' = Set(call, "chat", c)
  /\ step' = 0 /\ external' = FALSE
  /\ UNCHANGED <<output, notes, then, errors, tried, handles, alerts, shared, windows, told, successes, faults>>

LateAlert == [tool |-> "nudge", thread |-> "late", refs |-> {}]

\* A manager cycle has reclassified signals as urgent.
StartAlerts ==
  /\ Begins("heartbeat") /\ Goes("heartbeat", "gate")
  /\ \E n \in 1 .. MaxAlerts : alerts' = n - 1
  /\ call' = Set(call, "heartbeat", LateAlert)
  /\ UNCHANGED <<output, notes, run, handles, shared, windows, told, successes, faults>>

\* A role of the triage nudges.
StartRole ==
  /\ Begins("heartbeat") /\ Goes("heartbeat", "gate")
  /\ \E c \in Nudge : call' = Set(call, "heartbeat", c)
  /\ UNCHANGED <<output, notes, run, handles, alerts, shared, windows, told, successes, faults>>

\* enrich_signals records whether the batch was any good.
StartEnrichment ==
  /\ Begins("heartbeat") /\ Goes("heartbeat", "read trust")
  /\ \E e \in {"success", "persistent"} : event' = Set(event, "heartbeat", e)
  /\ UNCHANGED <<calls, copy, run, handles, alerts, shared, windows, told, successes, faults>>

-----------------------------------------------------------------------------
(* The trust record.                                                       *)

Records(e, to) ==
  /\ event' = Set(event, "chat", e) /\ then' = to
  /\ Goes("chat", "read trust")

\* The model is asked for the next step; or the time is up, which it is between steps.
Think ==
  /\ pc["chat"] = "think" /\ step <= MaxSteps
  /\ \/ Records("success", "act")             \* parsed, or parsed on the second try
     \/ Records("persistent", "unparsed")     \* neither the answer nor its repetition
     \/ Records("persistent", "exit")         \* XibiError: the breakers are open
     \/ Records("transient", "exit")          \* OSError and others; max_secs
  /\ UNCHANGED <<calls, copy, step, errors, tried, external, handles, alerts, shared, runs, windows,
                 told, successes, faults>>

\* max_steps.
Exhausted ==
  /\ pc["chat"] = "think" /\ step > MaxSteps
  /\ Goes("chat", "idle") /\ step' = 0
  /\ UNCHANGED <<calls, notes, then, errors, tried, external, handles, alerts, shared, runs, windows,
                 told, successes, faults>>

ReadTrust(p) ==
  /\ pc[p] = "read trust"
  /\ copy' = Set(copy, p, trust)
  /\ Goes(p, "write trust")
  /\ UNCHANGED <<calls, event, run, handles, alerts, shared, runs, windows, told, successes, faults>>

\* Mutant of Clean: a promotion does not start the count again.
CleanForgetsPromotion(r) ==
  IF r.clean + 1 >= PromoteAfter /\ r.interval < MaxInterval
  THEN [r EXCEPT !.interval = Min({2 * @, MaxInterval}), !.clean = @ + 1, !.total = @ + 1]
  ELSE [r EXCEPT !.clean = @ + 1, !.total = @ + 1]

\* record_success.
Clean(r) ==
  IF r.clean + 1 >= PromoteAfter /\ r.interval < MaxInterval
  THEN [r EXCEPT !.interval = Min({2 * @, MaxInterval}), !.clean = 0, !.total = @ + 1]
  ELSE [r EXCEPT !.clean = @ + 1, !.total = @ + 1]

Demoted(i, e) == Max({MinInterval, IF e = "persistent" THEN i \div 2 ELSE (3 * i) \div 4})

\* record_failure.
Failed(r, e) ==
  [r EXCEPT !.interval = Demoted(@, e), !.clean = 0, !.total = @ + 1, !.failures = @ + 1]

\* Where p goes when it has recorded.
Recorded(p) ==
  Goes(p, IF p = "heartbeat" \/ then = "exit" THEN "idle" ELSE IF then = "act" THEN "act" ELSE "observe")

WriteTrust(p) ==
  /\ pc[p] = "write trust"
  /\ LET good == event[p] \in {"success", "recovered"} IN
       /\ trust' = IF good THEN Clean(copy[p]) ELSE Failed(copy[p], event[p])
       /\ successes' = IF good THEN successes + 1 ELSE successes
  /\ Recorded(p)
  /\ output' = IF p = "chat" /\ then = "unparsed" THEN Set(output, p, "error") ELSE output
  /\ call' = IF p = "chat" /\ then = "unparsed" THEN Set(call, p, NoCall) ELSE call
  /\ event' = Set(event, p, "none")
  /\ copy' = Set(copy, p, Fresh)
  /\ UNCHANGED <<run, handles, alerts, log, runs, windows, told, faults>>

\* A statement fails.  The chat takes it for an answer that could not be parsed and asks
\* again; when this fails too, or was not the first failure, the exception ends the run.
TrustFails(p) ==
  /\ pc[p] = "write trust"
  /\ Fault
  /\ IF p = "chat" /\ event[p] = "success"
     THEN /\ \/ event' = Set(event, p, "recovered") /\ UNCHANGED then
             \/ event' = Set(event, p, "persistent") /\ then' = "unparsed"
          /\ Goes(p, "read trust")
     ELSE IF event[p] = "recovered"
     THEN event' = Set(event, p, "persistent") /\ then' = "unparsed" /\ Goes(p, "read trust")
     ELSE event' = Set(event, p, "none") /\ Goes(p, "idle") /\ UNCHANGED then
  /\ copy' = Set(copy, p, Fresh)
  /\ UNCHANGED <<calls, step, errors, tried, external, handles, alerts, shared, runs, windows, told, successes>>

-----------------------------------------------------------------------------
(* dispatch and the command layer.                                         *)

Ends == Goes("chat", "idle") /\ step' = 0

\* finish and ask_user.
Finish ==
  /\ pc["chat"] = "act" /\ Ends
  /\ UNCHANGED <<calls, notes, then, errors, tried, external, handles, alerts, shared, runs, windows,
                 told, successes, faults>>

\* The model calls a tool, maybe with a handle it was shown.
Act ==
  /\ pc["chat"] = "act"
  /\ \E c \in Nudge \cup Plain \cup [tool : {"read"}, handle : 1 .. Len(sizes)] : call' = Set(call, "chat", c)
  /\ Goes("chat", "gate")
  /\ UNCHANGED <<output, notes, run, handles, alerts, shared, runs, windows, told, successes, faults>>

\* More than 60% of its words were in an earlier call of the tool: an error, and no step
\* of the loop after this one.
Repeat ==
  /\ pc["chat"] = "act"
  /\ tried
  /\ errors' = errors + 1 /\ external' = FALSE
  /\ IF errors' >= ErrorLimit THEN Ends ELSE step' = step + 1 /\ Goes("chat", "think")
  /\ UNCHANGED <<calls, notes, then, tried, handles, alerts, shared, runs, windows, told, successes, faults>>

\* A handle whose payload is gone ends the run.
Dangling ==
  /\ pc["chat"] = "gate" /\ "handle" \in DOMAIN call["chat"] /\ call["chat"].handle \notin store
  /\ Records("persistent", "exit") /\ call' = Set(call, "chat", NoCall)
  /\ UNCHANGED <<output, copy, step, errors, tried, external, handles, alerts, shared, runs, windows,
                 told, successes, faults>>

\* A nudge that was logged makes another one redundant.
Covers(m, n) == m.thread = n.thread /\ n.refs \subseteq m.refs

IsNudge(c)   == c.tool = "nudge"

\* Mutant of Duplicate: what the nudges refer to is not compared.
DuplicateForgetsRefs(c) == IsNudge(c) /\ \E m \in log : m.thread = c.thread

Duplicate(c) == IsNudge(c) /\ \E m \in log : Covers(m, c)

Bumped(p, c) == p = "chat" /\ external /\ IsNudge(c)   \* a write after an external read is RED

Resolves(p) == "handle" \in DOMAIN call[p] => call[p].handle \in store
Passing(q)  == pc[q] \in {"execute", "audit"} /\ IsNudge(call[q])

Refuse(p) ==
  /\ pc[p] = "gate" /\ Resolves(p)
  /\ \/ output' = Set(output, p, "error") /\ NoFault /\ UNCHANGED suppressed             \* schema
     \/ /\ call[p].tool = "send" \/ Bumped(p, call[p])                                   \* RED
        /\ output' = Set(output, p, "blocked") /\ NoFault /\ UNCHANGED suppressed
     \/ /\ Duplicate(call[p]) /\ ~Bumped(p, call[p])
        /\ output' = Set(output, p, "suppressed") /\ NoFault
        /\ suppressed' = suppressed \cup {call[p]}
     \/ Fault /\ output' = Set(output, p, "blocked") /\ UNCHANGED suppressed             \* check raises
  /\ Goes(p, "observe")
  /\ UNCHANGED <<call, notes, run, handles, alerts, shared, runs, windows, executed, repeats, together, successes>>

\* The log that cannot be read allows the call.
Allow(p) ==
  /\ pc[p] = "gate" /\ Resolves(p)
  /\ call[p].tool # "send" /\ ~Bumped(p, call[p])
  /\ IF Duplicate(call[p]) THEN Fault ELSE NoFault
  /\ together' = IF IsNudge(call[p]) /\ Passing(Other(p)) THEN together + 1 ELSE together
  /\ Goes(p, "execute")
  /\ UNCHANGED <<calls, notes, run, handles, alerts, shared, runs, windows, executed, suppressed, repeats, successes>>

\* The executor never raises; what a nudge tells is told even if it reports an error.
Execute(p) ==
  /\ pc[p] = "execute"
  /\ LET c == call[p] IN
       /\ \E o \in {"ok", "error"} \cup (IF c.tool = "read" THEN {"large"} ELSE {}) : output' = Set(output, p, o)
       /\ executed' = IF IsNudge(c) THEN executed \cup {c} ELSE executed
       /\ repeats' = IF c \in executed THEN repeats + 1 ELSE repeats
       /\ Goes(p, IF IsNudge(c) THEN "audit" ELSE "observe")
  /\ UNCHANGED <<call, notes, run, handles, alerts, shared, runs, windows, suppressed, together, successes, faults>>

Audited(p) == log \cup {call[p]}

\* A failing audit is only logged elsewhere.
Audit(p) ==
  /\ pc[p] = "audit"
  /\ \/ NoFault /\ log' = Audited(p)
     \/ Fault /\ UNCHANGED log
  /\ Goes(p, "observe")
  /\ UNCHANGED <<calls, notes, run, handles, alerts, trust, runs, windows, told, successes>>

-----------------------------------------------------------------------------
(* What comes of a call.                                                   *)

\* What the payloads in S weigh, payload i weighing z[i].
Bytes(z, S) == FoldSet(LAMBDA i, n : z[i] + n, 0, S)

\* _evict_if_needed: what is left of S, the oldest gone, until n bytes fit or nothing is left.
Room(S, n) ==
  LET Kept(k) == {i \in S : Cardinality({j \in S : j > i}) < k}
  IN  Kept(Max({k \in 0 .. Cardinality(S) : k < MaxHandles /\ Bytes(sizes, Kept(k)) + n <= MaxBytes} \cup {0}))

Wrap ==
  IF output["chat"] = "large"
  THEN \E n \in Sizes :
         /\ sizes' = Append(sizes, n)
         /\ store' = Room(store, n) \cup {Len(sizes')}
  ELSE UNCHANGED handles

Counted == IF output["chat"] = "error" THEN errors + 1 ELSE 0

\* The output is wrapped and becomes a step of the scratchpad.
Observe ==
  /\ pc["chat"] = "observe" /\ step > 0
  /\ Wrap
  /\ tried' = (tried \/ call["chat"] # NoCall)
  /\ external' \in (IF call["chat"].tool = "read" /\ output["chat"] \in {"ok", "large"} THEN BOOLEAN ELSE {FALSE})
  /\ errors' = Counted
  /\ IF errors' >= ErrorLimit THEN Ends ELSE step' = step + 1 /\ Goes("chat", "think")
  /\ call' = Set(call, "chat", NoCall) /\ output' = Set(output, "chat", "none")
  /\ UNCHANGED <<notes, then, alerts, shared, runs, windows, told, successes, faults>>

ObserveDirect ==
  /\ pc["chat"] = "observe" /\ step = 0
  /\ Goes("chat", "idle")
  /\ call' = Set(call, "chat", NoCall) /\ output' = Set(output, "chat", "none")
  /\ UNCHANGED <<notes, run, handles, alerts, shared, runs, windows, told, successes, faults>>

\* The next alert, whatever became of the one before.
ObserveHeartbeat ==
  /\ pc["heartbeat"] = "observe"
  /\ IF alerts > 0
     THEN Goes("heartbeat", "gate") /\ alerts' = alerts - 1 /\ UNCHANGED call
     ELSE Goes("heartbeat", "idle") /\ call' = Set(call, "heartbeat", NoCall) /\ UNCHANGED alerts
  /\ output' = Set(output, "heartbeat", "none")
  /\ UNCHANGED <<notes, run, handles, shared, runs, windows, told, successes, faults>>

-----------------------------------------------------------------------------
\* Four hours pass.
Window ==
  /\ windows < MaxWindows /\ \A p \in Process : ~Passing(p)
  /\ windows' = windows + 1
  /\ log' = {} /\ executed' = {} /\ suppressed' = {}
  /\ UNCHANGED <<pc, calls, notes, run, handles, alerts, trust, runs, repeats, together, successes, faults>>

Crash(p) ==
  /\ pc[p] # "idle" /\ Fault
  /\ Goes(p, "idle")
  /\ call' = Set(call, p, NoCall) /\ output' = Set(output, p, "none")
  /\ event' = Set(event, p, "none") /\ copy' = Set(copy, p, Fresh)
  /\ alerts' = IF p = "heartbeat" THEN 0 ELSE alerts
  /\ step' = IF p = "chat" THEN 0 ELSE step
  /\ UNCHANGED <<then, errors, tried, external, handles, shared, runs, windows, told, successes>>

Both(p) == ReadTrust(p) \/ WriteTrust(p) \/ TrustFails(p) \/ Refuse(p) \/ Allow(p) \/ Execute(p) \/ Audit(p)

ChatStep == Both("chat") \/ Think \/ Exhausted \/ Finish \/ Act \/ Repeat \/ Dangling \/ Observe \/ ObserveDirect

Next ==
  \/ StartRun \/ StartDirect \/ StartAlerts \/ StartRole \/ StartEnrichment
  \/ ChatStep \/ Both("heartbeat") \/ ObserveHeartbeat
  \/ Window \/ \E p \in Process : Crash(p)

Spec == Init /\ [][Next]_vars

-----------------------------------------------------------------------------
(* Properties.                                                             *)

\* No nudge is sent twice within the window, unless the two were on their way from gate to
\* audit together, or the log failed (command_layer.py:288).
NudgedOncePerWindow == repeats <= together + faults

\* A nudge is suppressed only if one was executed in the window that tells all it refers to.
SuppressedWasTold == \A n \in suppressed : \E m \in executed : Covers(m, n)

\* Trust is earned: each doubling of the audit interval stands for PromoteAfter recorded
\* successes that no other doubling stands for, whichever records overwrite each other
\* (gradient.py:115).
TrustIsEarned ==
  trust.interval <= InitialInterval * 2 ^ ((successes - trust.clean) \div PromoteAfter)

\* The store holds the newest payloads: always the last one, none that is older than one
\* that is gone, and no more than fit, unless the last alone is too large.
NewestAreKept ==
  step > 0 /\ sizes # <<>> =>
    /\ Len(sizes) \in store
    /\ \A i \in store : i .. Len(sizes) \subseteq store
    /\ \/ store = {Len(sizes)}
       \/ Cardinality(store) <= MaxHandles /\ Bytes(sizes, store) <= MaxBytes

\* A nudge is told once: the log lets no second one through, and stops none that tells more.
NudgesToldOnce == NudgedOncePerWindow /\ SuppressedWasTold

\* The stores of the loop, shared by its processes, keep what they promise.
StoresAreSound == TypeOK /\ TrustIsEarned /\ NewestAreKept
=============================================================================
