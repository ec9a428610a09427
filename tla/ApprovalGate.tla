---------------------------- MODULE ApprovalGate ----------------------------
(***************************************************************************)
(* The approval gate of xibi: tool calls a subagent asked for wait in the  *)
(* table pending_l2_actions until the operator taps a button of the        *)
(* Telegram message that announces them.                                   *)
(*                                                                         *)
(* The poll loop of xibi/channels/telegram.py handles one update at a time *)
(* and saves the offset when it is done with it, so an update is delivered *)
(* again after a crash. The handler of a tap is several database           *)
(* transactions, tool calls and Telegram calls; a step of this module is   *)
(* one of them. The rows of the table are never deleted: see Cleanup in    *)
(* SubagentRun.                                                            *)
(***************************************************************************)
EXTENDS Naturals, Sequences, FiniteSets

CONSTANTS
  Ids,        \* ids of pending_l2_actions rows
  Parked,     \* the rows that subagents park; the others are retries
  CallOf,     \* what a parked row asks for: its run_id, tool and args
  NoCall,     \* what an absent retry asks for
  NoId,       \* no row
  MaxTaps,    \* bound: taps of the operator
  MaxCrashes, \* bound: crashes of the Telegram process
  MaxDbErrs,  \* bound: transactions and calls that raise
  MaxApiErrs  \* bound: Telegram calls that fail, which the code only logs

ASSUME ApprovalAssumption ==
  /\ NoId \notin Ids /\ Parked \subseteq Ids
  /\ MaxTaps \in Nat /\ MaxCrashes \in Nat
  /\ MaxDbErrs \in Nat /\ MaxApiErrs \in Nat

VARIABLES
  status,   \* column status of a row, or "absent"
  call,     \* columns run_id, tool and args of a row
  buttons,  \* the inline keyboard of the message that announces a row
  updates,  \* taps whose offset is not saved yet, oldest first
  at,       \* where the poll loop is in the handler of Head(updates)
  new,      \* the row the handler of a Retry tap has inserted, or NoId
  late,     \* rows whose tool call outlived its timeout and still runs
  effects,  \* how often the tool call of a row has taken effect
  retries,  \* rows inserted by a Retry tap
  taps, crashes, dbErrs, apiErrs   \* spent bounds

table == <<status, call, retries>>
bounds == <<crashes, dbErrs, apiErrs>>
vars == <<table, buttons, updates, at, new, late, effects, taps, bounds>>

Statuses == {"absent", "PENDING", "APPROVED", "REJECTED", "EXEC_FAILED"}
Keyboards == {"none", "decide", "retry"}
Decisions == {"approve", "reject"}
Taps == [kind : Decisions \cup {"retry"}, id : Ids]
Stages == {"idle", "execute", "fail", "offer", "announce", "strip", "save"}

TypeOK ==
  /\ status \in [Ids -> Statuses] /\ DOMAIN call = Ids
  /\ buttons \in [Ids -> Keyboards] /\ updates \in Seq(Taps)
  /\ at \in Stages /\ new \in Ids \cup {NoId}
  /\ late \subseteq Ids /\ retries \subseteq Ids
  /\ effects \in [Ids -> Nat]
  /\ taps \in Nat /\ crashes \in Nat /\ dbErrs \in Nat /\ apiErrs \in Nat
  /\ at # "idle" => updates # <<>>
  /\ at = "announce" => new # NoId

Init ==
  /\ status = [i \in Ids |-> "absent"]
  /\ call = [i \in Ids |-> IF i \in Parked THEN CallOf[i] ELSE NoCall]
  /\ buttons = [i \in Ids |-> "none"] /\ updates = <<>>
  /\ at = "idle" /\ new = NoId /\ late = {} /\ retries = {}
  /\ effects = [i \in Ids |-> 0]
  /\ taps = 0 /\ crashes = 0 /\ dbErrs = 0 /\ apiErrs = 0

-----------------------------------------------------------------------------
\* Telegram calls and failures

Tap == Head(updates)
Exec(i) == effects' = [effects EXCEPT ![i] = @ + 1]

\* A Telegram call gives row i's message the keyboard k, or fails and is
\* logged: the message keeps the keyboard it has.
ShowKeyboard(i, k) ==
  \/ /\ buttons' = [buttons EXCEPT ![i] = k]
     /\ UNCHANGED apiErrs
  \/ /\ apiErrs < MaxApiErrs /\ apiErrs' = apiErrs + 1
     /\ UNCHANGED buttons

\* An exception in the handler is caught by it; it strips the buttons.
Raise ==
  /\ dbErrs < MaxDbErrs /\ dbErrs' = dbErrs + 1
  /\ at' = "strip"

-----------------------------------------------------------------------------
\* The subagent's side, and the operator's

\* execute_checklist parks an action: the row, then the message.
Park(i) ==
  /\ i \in Parked /\ status[i] = "absent"
  /\ status' = [status EXCEPT ![i] = "PENDING"]
  /\ ShowKeyboard(i, "decide")
  /\ UNCHANGED <<call, retries, updates, at, new, late, effects, taps,
                 crashes, dbErrs>>

Offered(i) == CASE buttons[i] = "none"   -> {}
                [] buttons[i] = "decide" -> Decisions
                [] buttons[i] = "retry"  -> {"retry"}

\* The operator taps a button that is still there, as often as he likes.
OperatorTaps(i) ==
  /\ taps < MaxTaps /\ taps' = taps + 1
  /\ \E k \in Offered(i) : updates' = Append(updates, [kind |-> k, id |-> i])
  /\ UNCHANGED <<table, buttons, at, new, late, effects, bounds>>

-----------------------------------------------------------------------------
\* The handler of an approve or reject tap

\* Mutant of Flips: the status found by the SELECT is not looked at.
FlipsAnyRow(i) == status[i] # "absent"

Flips(i) == status[i] = "PENDING"

Flipped(decision) ==
  IF decision = "approve" THEN "APPROVED" ELSE "REJECTED"

\* The status flips if the row is PENDING; an approved call is executed next,
\* any other tap ends with the buttons stripped.
Decide ==
  /\ at = "idle" /\ updates # <<>> /\ Tap.kind \in Decisions
  /\ IF Flips(Tap.id)
     THEN /\ status' = [status EXCEPT ![Tap.id] = Flipped(Tap.kind)]
          /\ at' = IF Tap.kind = "approve" THEN "execute" ELSE "strip"
     ELSE at' = "strip" /\ UNCHANGED status
  /\ UNCHANGED <<call, retries, buttons, updates, new, late, effects, taps,
                 bounds>>

\* The tool call succeeds, is refused or fails, or outlives its timeout and
\* goes on in the executor's thread pool.
Execute ==
  /\ at = "execute"
  /\ \/ at' = "strip" /\ Exec(Tap.id) /\ UNCHANGED late
     \/ at' = "fail" /\ UNCHANGED <<late, effects>>
     \/ at' = "fail" /\ late' = late \cup {Tap.id} /\ UNCHANGED effects
  /\ UNCHANGED <<table, buttons, updates, new, taps, bounds>>

\* The circuit breaker's transactions raise, before or after the call.
ExecuteRaises ==
  /\ at = "execute" /\ Raise
  /\ Exec(Tap.id) \/ UNCHANGED effects
  /\ UNCHANGED <<table, buttons, updates, new, late, taps, crashes, apiErrs>>

\* Mutant of MarkFailed: the transaction is skipped, the button still offered.
MarkFailedForgets ==
  /\ at = "fail" /\ at' = "offer"
  /\ UNCHANGED <<table, buttons, updates, new, late, effects, taps, bounds>>

\* Mutant of FailedStatus: a status the Retry handler does not know.
FailedStatusTypo == "FAILED"

FailedStatus == "EXEC_FAILED"

MarkFailed ==
  /\ at = "fail" /\ at' = "offer"
  /\ status' = [status EXCEPT ![Tap.id] = FailedStatus]
  /\ UNCHANGED <<call, retries, buttons, updates, new, late, effects, taps,
                 bounds>>

OfferRetry ==
  /\ at = "offer" /\ at' = "save"
  /\ ShowKeyboard(Tap.id, "retry")
  /\ UNCHANGED <<table, updates, new, late, effects, taps, crashes, dbErrs>>

StripButtons ==
  /\ at = "strip" /\ at' = "save" /\ new' = NoId
  /\ ShowKeyboard(Tap.id, "none")
  /\ UNCHANGED <<table, updates, late, effects, taps, crashes, dbErrs>>

-----------------------------------------------------------------------------
\* The handler of a Retry tap

\* Mutant of AlreadyRetried: the SELECT for an undecided duplicate is dropped.
NeverRetried(i) == FALSE

AlreadyRetried(i) ==
  \E j \in Ids : status[j] = "PENDING" /\ call[j] = call[i]

Retry ==
  /\ at = "idle" /\ updates # <<>> /\ Tap.kind = "retry"
  /\ IF status[Tap.id] = "EXEC_FAILED" /\ ~AlreadyRetried(Tap.id)
     THEN \E j \in Ids \ Parked :
            /\ status[j] = "absent"
            /\ status' = [status EXCEPT ![j] = "PENDING"]
            /\ call' = [call EXCEPT ![j] = call[Tap.id]]
            /\ retries' = retries \cup {j}
            /\ new' = j /\ at' = "announce"
     ELSE at' = "strip" /\ UNCHANGED <<table, new>>
  /\ UNCHANGED <<buttons, updates, late, effects, taps, bounds>>

Announce ==
  /\ at = "announce" /\ at' = "strip"
  /\ ShowKeyboard(new, "decide")
  /\ UNCHANGED <<table, updates, new, late, effects, taps, crashes, dbErrs>>

-----------------------------------------------------------------------------
\* The poll loop and the failures

\* Mutant of Handled: the offset is saved before the update is handled.
HandledEarly == TRUE

Handled == at = "save"

SaveOffset ==
  /\ updates # <<>> /\ Handled
  /\ at' = "idle" /\ updates' = Tail(updates) /\ new' = NoId
  /\ UNCHANGED <<table, buttons, late, effects, taps, bounds>>

\* A transaction of the handler raises and rolls back.
HandlerRaises ==
  /\ \/ at = "idle" /\ updates # <<>>
     \/ at = "fail"
  /\ Raise
  /\ UNCHANGED <<table, buttons, updates, new, late, effects, taps, crashes,
                 apiErrs>>

\* A call that outlived its timeout takes effect, or comes to nothing.
LateEnd(i) ==
  /\ i \in late /\ late' = late \ {i}
  /\ Exec(i) \/ UNCHANGED effects
  /\ UNCHANGED <<table, buttons, updates, at, new, taps, bounds>>

\* The process dies: the tap being handled is delivered again.
Crash ==
  /\ at # "idle" \/ late # {}
  /\ crashes < MaxCrashes /\ crashes' = crashes + 1
  /\ at' = "idle" /\ new' = NoId /\ late' = {}
  /\ UNCHANGED <<table, buttons, updates, effects, taps, dbErrs, apiErrs>>

Poll ==
  \/ Decide \/ Execute \/ MarkFailed \/ OfferRetry \/ StripButtons
  \/ Retry \/ Announce \/ SaveOffset

Next ==
  \/ \E i \in Ids : Park(i) \/ OperatorTaps(i) \/ LateEnd(i)
  \/ Poll \/ ExecuteRaises \/ HandlerRaises \/ Crash

Spec == Init /\ [][Next]_vars
\* The process is restarted by systemd, and its loop never waits for long.
FairSpec == Spec /\ WF_vars(Poll)
-----------------------------------------------------------------------------
\* Properties

Running(i) == i \in late \/ (at = "execute" /\ Tap.id = i)

\* No call takes effect, or is left running, for a row that was not approved:
\* neither a rejected row nor one nobody decided, whatever was tapped twice,
\* delivered again or failed.
OnlyApprovedRun ==
  \A i \in Ids : effects[i] > 0 \/ Running(i)
                   => status[i] \in {"APPROVED", "EXEC_FAILED"}

\* "The execution side-effect is irreversible": the call of one row takes
\* effect at most once, and never while it is running still, however often
\* the tap is repeated, delivered again after a crash, or timed out.
OncePerRow ==
  \A i \in Ids : effects[i] <= 1 /\ (Running(i) => effects[i] = 0)

\* Taps on Retry leave at most one undecided retry of the same call.
OneOpenRetry ==
  \A i, j \in retries :
    status[i] = "PENDING" /\ status[j] = "PENDING" /\ call[i] = call[j] => i = j

\* A message that offers Retry announces a row that really failed: otherwise
\* the tap would be refused and the call could never be retried.
RetryButtonIsGood ==
  \A i \in Ids : buttons[i] = "retry" => status[i] = "EXEC_FAILED"

\* A row whose approve or reject button was tapped gets decided, through any
\* crash of the poll loop, unless a transaction raised: the handler then
\* strips the buttons, and the tap is spent.
TapsAreDecided ==
  \A i \in Ids :
    (\E n \in DOMAIN updates : updates[n].id = i /\ updates[n].kind \in Decisions)
      ~> (status[i] # "PENDING" \/ dbErrs > 0)

\* The gate implements its promise: a failed row is still an approved one, and
\* a retry is a request of its own.
DecisionOf(st) == CASE st = "absent"                      -> "not asked"
                    [] st = "PENDING"                     -> "open"
                    [] st = "REJECTED"                    -> "rejected"
                    [] st \in {"APPROVED", "EXEC_FAILED"} -> "approved"

Promise == INSTANCE GatedCall WITH decision <- [i \in Ids |-> DecisionOf(status[i])],
                                   done <- effects

\* Every behaviour of the gate is one of GatedCall: decisions are final and an
\* effect follows its approval, once.
KeepsPromise == Promise!GatedSpec

Quiet == at = "idle" /\ updates = <<>>

\* "Distinguish APPROVED-and-failed from APPROVED-and-executed via a separate
\* EXEC_FAILED status": once all taps are handled, a row still APPROVED has
\* been executed, unless a crash or a failed transaction came in between.
ApprovedIsExecuted ==
  Quiet => \A i \in Ids : status[i] = "APPROVED" => effects[i] = 1 \/ crashes + dbErrs > 0

\* What was decided is what happens: only approved calls take effect, once each,
\* and a failed one has one open retry at most, offered where it can be tapped.
DecisionsHold == OnlyApprovedRun /\ OncePerRow /\ OneOpenRetry /\ RetryButtonIsGood
=============================================================================
