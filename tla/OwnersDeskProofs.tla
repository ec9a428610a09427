-------------------------- MODULE OwnersDeskProofs --------------------------
(***************************************************************************)
(* What waits for the owner, for every number of rows, drafts, lists,      *)
(* accounts, taps and failures.  Each component has an inductive invariant *)
(* of its own, which its steps keep and those of the others leave alone.   *)
(***************************************************************************)
EXTENDS OwnersDesk, FiniteSetTheorems, WellFoundedInduction, TLAPS

-----------------------------------------------------------------------------
(* The approval gate.  The argument is in StageInv: where the poll loop is *)
(* in its handler says what the row of the tap must be.  A call is about   *)
(* to run, or has just failed, only for a row the same handler flipped to  *)
(* APPROVED, and a row is flipped only once because the flip needs it to   *)
(* be PENDING.                                                             *)

StageInv ==
  /\ at \in {"execute", "fail"} => status[Tap.id] = "APPROVED"
  /\ at = "offer" => status[Tap.id] = "EXEC_FAILED"
  /\ at = "execute" => effects[Tap.id] = 0 /\ Tap.id \notin late

RetriesInv == retries \cap Parked = {}

IInv ==
  /\ TypeOK /\ StageInv /\ RetriesInv
  /\ OnlyApprovedRun /\ OncePerRow /\ OneOpenRetry /\ RetryButtonIsGood

\* What a tap is, and that one more tap at the end leaves the first alone.
LEMMA TapType == ASSUME TypeOK, updates # <<>> PROVE Tap \in Taps
  BY DEF TypeOK, Tap

LEMMA AppendKeepsHead ==
  ASSUME NEW u \in Seq(Taps), NEW t \in Taps, u # <<>>
  PROVE  Head(Append(u, t)) = Head(u) /\ Append(u, t) # <<>>
  OBVIOUS

\* A Telegram call keeps the types of what it may change.
LEMMA ShowKeyboardType ==
  ASSUME TypeOK, NEW i, NEW k \in Keyboards, ShowKeyboard(i, k)
  PROVE  buttons' \in [Ids -> Keyboards] /\ apiErrs' \in Nat
  <1>1. CASE buttons' = [buttons EXCEPT ![i] = k] /\ UNCHANGED apiErrs
    BY <1>1 DEF TypeOK
  <1>2. CASE apiErrs' = apiErrs + 1 /\ UNCHANGED buttons
    BY <1>2 DEF TypeOK
  <1> QED BY <1>1, <1>2 DEF ShowKeyboard

THEOREM InitIInv == Init => IInv
  BY ApprovalAssumption
     DEF Init, IInv, TypeOK, StageInv, RetriesInv, OnlyApprovedRun, OncePerRow,
         OneOpenRetry, RetryButtonIsGood, Statuses, Keyboards, Stages, Running

\* The subagent parks a row.
LEMMA ParkIInv ==
  ASSUME IInv, NEW i \in Ids, Park(i)
  PROVE  IInv'
  <1> USE DEF IInv, Park, ShowKeyboard
  <1>1. TypeOK'
    <2>1. buttons' \in [Ids -> Keyboards] /\ apiErrs' \in Nat
      BY ShowKeyboardType DEF Keyboards
    <2>2. status' \in [Ids -> Statuses] BY DEF TypeOK, Statuses
    <2> QED BY <2>1, <2>2 DEF TypeOK
  <1>2. StageInv' /\ RetriesInv'
    BY TapType DEF StageInv, RetriesInv, TypeOK, Tap, Taps, Stages
  <1>3. OnlyApprovedRun' /\ OncePerRow'
    BY TapType DEF OnlyApprovedRun, OncePerRow, Running, TypeOK, Tap, Taps
  <1>4. OneOpenRetry' BY DEF OneOpenRetry, RetriesInv, TypeOK
  <1>5. RetryButtonIsGood' BY DEF RetryButtonIsGood, TypeOK
  <1> QED BY <1>1, <1>2, <1>3, <1>4, <1>5

\* The operator taps.
LEMMA TapIInv ==
  ASSUME IInv, NEW i \in Ids, OperatorTaps(i)
  PROVE  IInv'
  <1> USE DEF IInv
  <1>1. PICK k \in Offered(i) : updates' = Append(updates, [kind |-> k, id |-> i])
    BY DEF OperatorTaps
  <1>2. [kind |-> k, id |-> i] \in Taps
    BY <1>1 DEF Offered, TypeOK, Keyboards, Taps, Decisions
  <1>3. updates' \in Seq(Taps) /\ (updates # <<>> => Tap' = Tap) /\ updates' # <<>>
    BY <1>1, <1>2, AppendKeepsHead DEF TypeOK, Tap
  <1>4. TypeOK' BY <1>3 DEF TypeOK, OperatorTaps, table, bounds
  <1>5. UNCHANGED <<status, call, retries, buttons, at, late, effects>>
    BY DEF OperatorTaps, table
  <1>6. at # "idle" => updates # <<>> BY DEF TypeOK
  <1>7. StageInv' /\ RetriesInv' BY <1>3, <1>5, <1>6 DEF StageInv, RetriesInv
  <1>8. OnlyApprovedRun' /\ OncePerRow'
    BY <1>3, <1>5, <1>6 DEF OnlyApprovedRun, OncePerRow, Running
  <1>9. OneOpenRetry' /\ RetryButtonIsGood'
    BY <1>5 DEF OneOpenRetry, RetryButtonIsGood
  <1> QED BY <1>4, <1>7, <1>8, <1>9

\* The approve or reject tap: the only step that makes a call about to run.
LEMMA DecideIInv ==
  ASSUME IInv, Decide
  PROVE  IInv'
  <1> USE DEF IInv
  <1>1. Tap \in Taps /\ Tap' = Tap BY TapType DEF Decide, Tap
  <1>2. TypeOK'
    BY <1>1 DEF TypeOK, Decide, Flipped, Statuses, Stages, Taps, bounds
  <1>3. StageInv' /\ RetriesInv'
    BY <1>1 DEF StageInv, RetriesInv, Decide, Flips, Flipped, TypeOK, Taps,
                OnlyApprovedRun, OncePerRow, Running
  <1>4. OnlyApprovedRun' /\ OncePerRow'
    BY <1>1 DEF OnlyApprovedRun, OncePerRow, Running, Decide, Flips, Flipped,
                TypeOK, Taps
  <1>5. OneOpenRetry'
    BY <1>1 DEF OneOpenRetry, Decide, Flips, Flipped, TypeOK, Taps
  <1>6. RetryButtonIsGood'
    BY <1>1 DEF RetryButtonIsGood, Decide, Flips, Flipped, TypeOK, Taps
  <1> QED BY <1>2, <1>3, <1>4, <1>5, <1>6

\* The call runs, fails or is left running.
LEMMA ExecuteIInv ==
  ASSUME IInv, Execute \/ ExecuteRaises
  PROVE  IInv'
  <1> USE DEF IInv, Execute, ExecuteRaises, Raise, Exec, table, bounds
  <1>1. updates # <<>> /\ Tap \in Taps /\ Tap' = Tap /\ at = "execute"
    BY TapType DEF TypeOK, Tap
  <1>2. TypeOK'
    <2>1. effects' \in [Ids -> Nat]
      <3>1. effects' = [effects EXCEPT ![Tap.id] = @ + 1] \/ UNCHANGED effects
        OBVIOUS
      <3> HIDE DEF Execute, ExecuteRaises
      <3> QED BY <3>1 DEF TypeOK
    <2>2. late' \subseteq Ids /\ dbErrs' \in Nat /\ at' \in Stages
      BY <1>1 DEF TypeOK, Taps, Stages
    <2> QED BY <1>1, <2>1, <2>2 DEF TypeOK
  <1>3. StageInv' /\ RetriesInv'
    BY <1>1 DEF StageInv, RetriesInv
  <1>4. OnlyApprovedRun' /\ OncePerRow'
    BY <1>1 DEF StageInv, OnlyApprovedRun, OncePerRow, Running, TypeOK, Taps
  <1>5. OneOpenRetry' /\ RetryButtonIsGood'
    BY DEF OneOpenRetry, RetryButtonIsGood
  <1> QED BY <1>2, <1>3, <1>4, <1>5

\* The failure is recorded.
LEMMA MarkFailedIInv ==
  ASSUME IInv, MarkFailed
  PROVE  IInv'
  <1> USE DEF IInv, MarkFailed, FailedStatus, bounds
  <1>1. updates # <<>> /\ Tap \in Taps /\ Tap' = Tap /\ status[Tap.id] = "APPROVED"
    BY TapType DEF TypeOK, Tap, StageInv
  <1>2. TypeOK' BY <1>1 DEF TypeOK, Statuses, Stages, Taps
  <1>3. StageInv' /\ RetriesInv'
    BY <1>1 DEF StageInv, RetriesInv, TypeOK, Taps
  <1>4. OnlyApprovedRun' /\ OncePerRow'
    BY <1>1 DEF OnlyApprovedRun, OncePerRow, Running, TypeOK, Taps
  <1>5. OneOpenRetry' /\ RetryButtonIsGood'
    BY <1>1 DEF OneOpenRetry, RetryButtonIsGood, TypeOK, Taps
  <1> QED BY <1>2, <1>3, <1>4, <1>5

\* The Telegram calls that end a handler.
LEMMA KeyboardIInv ==
  ASSUME IInv, OfferRetry \/ StripButtons \/ Announce
  PROVE  IInv'
  <1> USE DEF IInv, OfferRetry, StripButtons, Announce, ShowKeyboard, table
  <1>1. updates # <<>> /\ Tap \in Taps /\ Tap' = Tap
    BY TapType DEF TypeOK, Tap
  <1>2. TypeOK'
    <2>1. buttons' \in [Ids -> Keyboards] /\ apiErrs' \in Nat
      <3> USE DEF Keyboards
      <3>1. CASE OfferRetry BY <3>1, ShowKeyboardType
      <3>2. CASE StripButtons BY <3>2, ShowKeyboardType
      <3>3. CASE Announce BY <3>3, ShowKeyboardType
      <3> QED BY <3>1, <3>2, <3>3
    <2>2. UNCHANGED <<status, call, retries, updates, late, effects, taps,
                      crashes, dbErrs>>
      OBVIOUS
    <2>3. at' \in Stages /\ new' \in Ids \cup {NoId} /\ at' # "announce"
      BY DEF TypeOK, Stages
    <2> QED BY <1>1, <2>1, <2>2, <2>3 DEF TypeOK
  <1>3. StageInv' /\ RetriesInv' BY <1>1 DEF StageInv, RetriesInv
  <1>4. OnlyApprovedRun' /\ OncePerRow'
    BY <1>1 DEF OnlyApprovedRun, OncePerRow, Running
  <1>5. OneOpenRetry' BY DEF OneOpenRetry
  <1>6. RetryButtonIsGood'
    BY <1>1 DEF RetryButtonIsGood, StageInv, TypeOK, Taps
  <1> QED BY <1>2, <1>3, <1>4, <1>5, <1>6

\* The Retry tap inserts at most one row, and only where none is undecided.
LEMMA RetryIInv ==
  ASSUME IInv, Retry
  PROVE  IInv'
  <1> USE DEF IInv
  <1>1. Tap \in Taps /\ Tap' = Tap /\ updates # <<>> /\ at = "idle"
    BY TapType DEF Retry, Tap
  <1>2. CASE UNCHANGED <<table, new>> /\ at' = "strip"
    <2>1. TypeOK' BY <1>1, <1>2 DEF TypeOK, Retry, table, Stages, bounds
    <2>2. UNCHANGED <<status, call, retries, buttons, late, effects>>
      BY <1>2 DEF Retry, table
    <2>3. StageInv' /\ RetriesInv' BY <1>2, <2>2 DEF StageInv, RetriesInv
    <2>4. OnlyApprovedRun' /\ OncePerRow'
      BY <1>1, <1>2, <2>2 DEF OnlyApprovedRun, OncePerRow, Running
    <2>5. OneOpenRetry' /\ RetryButtonIsGood'
      BY <2>2 DEF OneOpenRetry, RetryButtonIsGood
    <2> QED BY <2>1, <2>3, <2>4, <2>5
  <1>3. ASSUME NEW j \in Ids \ Parked, ~AlreadyRetried(Tap.id),
               status[j] = "absent",
               status' = [status EXCEPT ![j] = "PENDING"],
               call' = [call EXCEPT ![j] = call[Tap.id]],
               retries' = retries \cup {j}, new' = j, at' = "announce"
        PROVE  IInv'
    <2>1. UNCHANGED <<buttons, updates, late, effects, taps, bounds>>
      BY DEF Retry
    <2>2. TypeOK'
      <3>1. status' \in [Ids -> Statuses] BY <1>3 DEF TypeOK, Statuses
      <3>2. DOMAIN call' = Ids BY <1>3 DEF TypeOK
      <3>3. retries' \subseteq Ids /\ new' \in Ids /\ at' \in Stages
        BY <1>3 DEF TypeOK, Stages
      <3>4. new' # NoId BY <3>3, ApprovalAssumption
      <3> QED BY <1>1, <2>1, <3>1, <3>2, <3>3, <3>4 DEF TypeOK, bounds
    <2>3. StageInv' /\ RetriesInv' BY <1>3, <2>1 DEF StageInv, RetriesInv
    <2>4. OnlyApprovedRun' /\ OncePerRow'
      BY <1>1, <1>3, <2>1 DEF OnlyApprovedRun, OncePerRow, Running, TypeOK
    <2>5. OneOpenRetry'
      BY <1>1, <1>3 DEF OneOpenRetry, AlreadyRetried, TypeOK, Taps
    <2>6. RetryButtonIsGood' BY <1>3, <2>1 DEF RetryButtonIsGood, TypeOK
    <2> QED BY <2>2, <2>3, <2>4, <2>5, <2>6
  <1> QED BY <1>2, <1>3 DEF Retry

\* The offset is saved, an exception is caught, a late call ends, a crash.
LEMMA FailureIInv ==
  ASSUME IInv,
         SaveOffset \/ HandlerRaises \/ Crash \/ \E i \in Ids : LateEnd(i)
  PROVE  IInv'
  <1> USE DEF IInv
  <1>1. UNCHANGED table /\ UNCHANGED buttons
    BY DEF SaveOffset, HandlerRaises, Crash, LateEnd
  <1>2. RetriesInv' /\ OneOpenRetry' /\ RetryButtonIsGood'
    BY <1>1 DEF RetriesInv, OneOpenRetry, RetryButtonIsGood, table
  <1>3. CASE SaveOffset
    <2>1. TypeOK' BY <1>3 DEF TypeOK, SaveOffset, table, bounds, Stages
    <2>2. StageInv' /\ OnlyApprovedRun' /\ OncePerRow'
      BY <1>3 DEF StageInv, OnlyApprovedRun, OncePerRow, Running, SaveOffset, table
    <2> QED BY <2>1, <2>2, <1>2
  <1>4. CASE HandlerRaises
    <2>1. TypeOK' BY <1>4 DEF TypeOK, HandlerRaises, Raise, table, Stages
    <2>2. StageInv' /\ OnlyApprovedRun' /\ OncePerRow'
      BY <1>4 DEF StageInv, OnlyApprovedRun, OncePerRow, Running, HandlerRaises,
                  Raise, table
    <2> QED BY <2>1, <2>2, <1>2
  <1>5. CASE Crash
    <2>1. TypeOK' BY <1>5 DEF TypeOK, Crash, table, Stages
    <2>2. StageInv' /\ OnlyApprovedRun' /\ OncePerRow'
      BY <1>5 DEF StageInv, OnlyApprovedRun, OncePerRow, Running, Crash, table
    <2> QED BY <2>1, <2>2, <1>2
  <1>6. ASSUME NEW i \in Ids, LateEnd(i) PROVE IInv'
    <2>1. TypeOK' BY <1>6 DEF TypeOK, LateEnd, Exec, table, bounds
    <2>2. UNCHANGED <<status, updates, at>> /\ late' = late \ {i} /\ i \in late
          /\ effects' \in {effects, [effects EXCEPT ![i] = @ + 1]}
      BY <1>6 DEF LateEnd, Exec, table
    <2>3. Tap' = Tap BY <2>2 DEF Tap
    <2>4. StageInv'
      <3>1. at = "execute" => Tap \in Taps BY TapType DEF TypeOK
      <3> QED BY <2>2, <2>3, <3>1 DEF StageInv, TypeOK, Taps
    <2>5. OnlyApprovedRun' /\ OncePerRow'
      BY <2>2, <2>3 DEF StageInv, OnlyApprovedRun, OncePerRow, Running, TypeOK
    <2> QED BY <2>1, <2>4, <2>5, <1>2
  <1> QED BY <1>3, <1>4, <1>5, <1>6

THEOREM NextIInv == IInv /\ [Next]_vars => IInv'
  <1> SUFFICES ASSUME IInv, [Next]_vars PROVE IInv' OBVIOUS
  <1>1. CASE UNCHANGED vars
    BY <1>1 DEF vars, table, bounds, IInv, TypeOK, StageInv, RetriesInv,
       OnlyApprovedRun, OncePerRow, OneOpenRetry, RetryButtonIsGood, Running, Tap
  <1>2. CASE Next
    BY <1>2, ParkIInv, TapIInv, DecideIInv, ExecuteIInv, MarkFailedIInv,
       KeyboardIInv, RetryIInv, FailureIInv DEF Next, Poll
  <1> QED BY <1>1, <1>2

\* The invariant is kept by every behaviour of the gate.
THEOREM Invariance == Spec => []IInv
  BY InitIInv, NextIInv, PTL DEF Spec

\* Every variable keeps its type.
THEOREM GateTypeCorrect == Spec => []TypeOK
  BY Invariance, PTL DEF IInv

\* Only approved calls run, once each, and a failed one has one open retry at most, offered on
\* a row that failed: however taps are repeated, delivered again or time out.
THEOREM DecisionsHoldAlways == Spec => []DecisionsHold
  <1>1. IInv => DecisionsHold
    BY DEF IInv, DecisionsHold
  <1> QED BY <1>1, Invariance, PTL

-----------------------------------------------------------------------------
\* An APPROVED row has been executed.

\* Between the flip and the end of its call a row is the one the handler is at.
ExecutedInv ==
  crashes = 0 /\ dbErrs = 0 =>
    \A i \in Ids : status[i] = "APPROVED"
                     => effects[i] = 1 \/ (at \in {"execute", "fail"} /\ Tap.id = i)

\* The handler's own steps.
LEMMA HandlerExecuted ==
  ASSUME IInv, ExecutedInv, Decide \/ Execute \/ MarkFailed
  PROVE  ExecutedInv'
  <1> USE DEF IInv
  <1>1. Tap \in Taps /\ Tap' = Tap /\ updates # <<>>
    BY TapType DEF Decide, Execute, MarkFailed, TypeOK, Tap
  <1>2. CASE Decide
    BY <1>1, <1>2 DEF ExecutedInv, Decide, Flipped, TypeOK, Taps, bounds
  <1>3. CASE Execute
    <2>1. effects[Tap.id] = 0 BY <1>3 DEF Execute, StageInv
    <2>2. CASE Exec(Tap.id) /\ at' = "strip" /\ UNCHANGED late
      <3>1. effects' = [effects EXCEPT ![Tap.id] = 1]
        BY <1>1, <2>1, <2>2 DEF Exec, TypeOK, Taps
      <3>2. UNCHANGED <<status, crashes, dbErrs>> BY <1>3 DEF Execute, table, bounds
      <3> QED BY <1>1, <1>3, <3>1, <3>2 DEF ExecutedInv, Execute, TypeOK, Taps
    <2>3. CASE at' = "fail" /\ UNCHANGED effects
      BY <1>1, <1>3, <2>3 DEF ExecutedInv, Execute, table, bounds
    <2> QED BY <1>3, <2>2, <2>3 DEF Execute
  <1>4. CASE MarkFailed
    <2>1. at = "fail" /\ status' = [status EXCEPT ![Tap.id] = "EXEC_FAILED"]
          /\ UNCHANGED <<effects, crashes, dbErrs>>
      BY <1>4 DEF MarkFailed, FailedStatus, bounds
    <2> QED BY <1>1, <2>1 DEF ExecutedInv, TypeOK, Taps
  <1> QED BY <1>2, <1>3, <1>4

\* A late call that takes effect is the first of its row.
LEMMA LateExecuted ==
  ASSUME IInv, ExecutedInv, NEW i \in Ids, LateEnd(i)
  PROVE  ExecutedInv'
  <1>1. effects[i] = 0 BY DEF IInv, OncePerRow, Running, LateEnd
  <1>2. effects' \in {effects, [effects EXCEPT ![i] = 1]}
    BY <1>1 DEF LateEnd, Exec, IInv, TypeOK
  <1>3. UNCHANGED <<status, updates, at, crashes, dbErrs>>
    BY DEF LateEnd, table, bounds
  <1> QED BY <1>2, <1>3 DEF ExecutedInv, IInv, TypeOK, Tap

LEMMA StepExecuted ==
  ASSUME IInv, ExecutedInv, [Next]_vars
  PROVE  ExecutedInv'
  <1> USE DEF ExecutedInv, table, bounds
  <1>1. CASE UNCHANGED vars BY <1>1 DEF vars, Tap
  <1>2. ASSUME NEW i \in Ids, Park(i) PROVE ExecutedInv'
    BY <1>2 DEF Park, Tap, IInv, TypeOK
  <1>3. ASSUME NEW i \in Ids, OperatorTaps(i) PROVE ExecutedInv'
    <2>1. PICK k \in Offered(i) : updates' = Append(updates, [kind |-> k, id |-> i])
      BY <1>3 DEF OperatorTaps
    <2>2. [kind |-> k, id |-> i] \in Taps
      BY <2>1 DEF IInv, Offered, TypeOK, Keyboards, Taps, Decisions
    <2>3. updates # <<>> => Tap' = Tap
      BY <2>1, <2>2, AppendKeepsHead DEF IInv, TypeOK, Tap
    <2>4. at # "idle" => updates # <<>> BY DEF IInv, TypeOK
    <2>5. UNCHANGED <<status, at, effects, crashes, dbErrs>> BY <1>3 DEF OperatorTaps
    <2> QED BY <2>3, <2>4, <2>5
  <1>4. CASE Decide \/ Execute \/ MarkFailed BY <1>4, HandlerExecuted
  <1>5. CASE OfferRetry \/ StripButtons \/ Announce
    <2>1. UNCHANGED <<status, effects, crashes, dbErrs>> /\ at \notin {"execute", "fail"}
      BY <1>5 DEF OfferRetry, StripButtons, Announce
    <2> QED BY <2>1
  <1>6. CASE Retry
    <2>1. at = "idle" /\ UNCHANGED <<effects, crashes, dbErrs>> BY <1>6 DEF Retry
    <2>2. \A i \in Ids : status'[i] = "APPROVED" => status[i] = "APPROVED"
      BY <1>6 DEF Retry, IInv, TypeOK
    <2> QED BY <2>1, <2>2
  <1>7. CASE SaveOffset
    <2>1. UNCHANGED <<status, effects, crashes, dbErrs>> /\ at = "save"
      BY <1>7 DEF SaveOffset, Handled
    <2> QED BY <2>1
  <1>8. ASSUME ExecuteRaises \/ HandlerRaises \/ Crash PROVE ExecutedInv'
    <2>1. crashes' # 0 \/ dbErrs' # 0
      BY <1>8 DEF ExecuteRaises, HandlerRaises, Crash, Raise, IInv, TypeOK
    <2> QED BY <2>1
  <1>9. ASSUME NEW i \in Ids, LateEnd(i) PROVE ExecutedInv' BY <1>9, LateExecuted
  <1> QED BY <1>1, <1>2, <1>3, <1>4, <1>5, <1>6, <1>7, <1>8, <1>9 DEF Next, Poll

\* Once every tap is handled, an APPROVED row has been executed, unless the process died or
\* a transaction raised: APPROVED and EXEC_FAILED tell the two outcomes apart.
THEOREM ApprovedIsExecutedAlways == Spec => []ApprovedIsExecuted
  <1>1. Init => ExecutedInv BY DEF Init, ExecutedInv
  <1>2. IInv /\ ExecutedInv /\ [Next]_vars => ExecutedInv' BY StepExecuted
  <1>3. IInv /\ ExecutedInv => ApprovedIsExecuted
    <2> SUFFICES ASSUME IInv, ExecutedInv, Quiet, NEW i \in Ids,
                        status[i] = "APPROVED", effects[i] # 1
                 PROVE  crashes + dbErrs > 0
      BY DEF ApprovedIsExecuted
    <2>1. crashes \in Nat /\ dbErrs \in Nat BY DEF IInv, TypeOK
    <2>2. ~(crashes = 0 /\ dbErrs = 0) BY DEF ExecutedInv, Quiet
    <2> QED BY <2>1, <2>2
  <1> QED BY <1>1, <1>2, <1>3, Invariance, PTL DEF Spec

-----------------------------------------------------------------------------
\* The gate implements GatedCall.

DecisionMap == [i \in Ids |-> DecisionOf(status[i])]

LEMMA DecisionOfStatus ==
  /\ DecisionOf("absent") = "not asked" /\ DecisionOf("PENDING") = "open"
  /\ DecisionOf("REJECTED") = "rejected"
  /\ DecisionOf("APPROVED") = "approved" /\ DecisionOf("EXEC_FAILED") = "approved"
  BY DEF DecisionOf

\* A change of one row's status is a change of one decision.
LEMMA OneDecision ==
  ASSUME TypeOK, NEW i \in Ids, NEW st, status' = [status EXCEPT ![i] = st]
  PROVE  DecisionMap' = [DecisionMap EXCEPT ![i] = DecisionOf(st)]
  BY DEF TypeOK, DecisionMap

LEMMA SameDecision ==
  ASSUME TypeOK, NEW i \in Ids, NEW st, status' = [status EXCEPT ![i] = st],
         DecisionOf(st) = DecisionOf(status[i])
  PROVE  DecisionMap' = DecisionMap
  BY DEF TypeOK, DecisionMap

\* A call takes effect in the gate as it does in GatedCall.
LEMMA EffectSimulated ==
  ASSUME IInv, NEW i \in Ids, UNCHANGED status, Exec(i), Running(i)
  PROVE  Promise!GatedNext
  <1>1. effects[i] = 0 /\ effects' = [effects EXCEPT ![i] = 1]
    <2>1. effects[i] = 0 BY DEF IInv, OncePerRow
    <2>2. effects[i] + 1 = 1 BY <2>1
    <2>3. effects' = [effects EXCEPT ![i] = effects[i] + 1] BY DEF Exec
    <2> QED BY <2>1, <2>2, <2>3, Zenon
  <1>2. DecisionOf(status[i]) = "approved"
    <2>1. status[i] \in {"APPROVED", "EXEC_FAILED"} BY DEF IInv, OnlyApprovedRun
    <2>2. CASE status[i] = "APPROVED" BY <2>2, DecisionOfStatus
    <2>3. CASE status[i] = "EXEC_FAILED" BY <2>3, DecisionOfStatus
    <2> QED BY <2>1, <2>2, <2>3
  <1>3. UNCHANGED DecisionMap BY DEF DecisionMap
  <1> QED BY <1>1, <1>2, <1>3
          DEF Promise!GatedNext, Promise!TakeEffect, DecisionMap

LEMMA StepSimulated ==
  ASSUME IInv, [Next]_vars
  PROVE  [Promise!GatedNext]_Promise!callVars
  <1> SUFFICES ASSUME Next
               PROVE  Promise!GatedNext \/ UNCHANGED <<DecisionMap, effects>>
    BY DEF vars, table, Promise!callVars, DecisionMap
  <1> USE DEF IInv
  <1>1. ASSUME NEW i \in Ids, Park(i) PROVE Promise!GatedNext
    <2>1. DecisionMap' = [DecisionMap EXCEPT ![i] = "open"]
      BY <1>1, OneDecision, DecisionOfStatus DEF Park
    <2> QED BY <1>1, <2>1, DecisionOfStatus
            DEF Park, Promise!GatedNext, Promise!Ask, DecisionMap
  <1>2. ASSUME NEW i \in Ids, OperatorTaps(i)
        PROVE  UNCHANGED <<DecisionMap, effects>>
    BY <1>2 DEF OperatorTaps, table, DecisionMap
  <1>3. CASE Decide
    <2>1. Tap.id \in Ids /\ Tap.kind \in Decisions
      BY <1>3, TapType DEF Decide, Taps
    <2>2. CASE Flips(Tap.id)
      <3>1. status[Tap.id] = "PENDING" /\ UNCHANGED effects
            /\ status' = [status EXCEPT ![Tap.id] = Flipped(Tap.kind)]
        BY <1>3, <2>2 DEF Decide, Flips
      <3>2. DecisionOf(Flipped(Tap.kind)) \in {"approved", "rejected"}
        BY DecisionOfStatus DEF Flipped
      <3>3. DecisionMap' = [DecisionMap EXCEPT ![Tap.id] = DecisionOf(Flipped(Tap.kind))]
        BY <2>1, <3>1, OneDecision
      <3>4. DecisionMap[Tap.id] = "open"
        BY <2>1, <3>1, DecisionOfStatus DEF DecisionMap
      <3>5. Promise!Settle(Tap.id, DecisionOf(Flipped(Tap.kind)))
        BY <3>1, <3>3, <3>4 DEF Promise!Settle, DecisionMap
      <3> QED BY <2>1, <3>2, <3>5 DEF Promise!GatedNext
    <2>3. CASE ~Flips(Tap.id)
      BY <1>3, <2>3 DEF Decide, DecisionMap
    <2> QED BY <2>2, <2>3
  <1>4. CASE Execute \/ ExecuteRaises
    <2>1. Tap.id \in Ids /\ Running(Tap.id) /\ UNCHANGED status
      BY <1>4, TapType DEF Execute, ExecuteRaises, Running, table, TypeOK, Taps
    <2>2. Exec(Tap.id) \/ UNCHANGED effects
      BY <1>4 DEF Execute, ExecuteRaises
    <2> QED BY <2>1, <2>2, EffectSimulated DEF DecisionMap
  <1>5. CASE MarkFailed
    <2>1. Tap.id \in Ids /\ status[Tap.id] = "APPROVED"
      BY <1>5, TapType DEF MarkFailed, StageInv, TypeOK, Taps
    <2>2. DecisionMap' = DecisionMap
      BY <1>5, <2>1, SameDecision, DecisionOfStatus DEF MarkFailed, FailedStatus
    <2> QED BY <1>5, <2>2 DEF MarkFailed
  <1>6. CASE OfferRetry \/ StripButtons \/ Announce \/ SaveOffset
             \/ HandlerRaises \/ Crash
    BY <1>6 DEF OfferRetry, StripButtons, Announce, SaveOffset, HandlerRaises,
                Crash, table, DecisionMap
  <1>7. CASE Retry
    <2>1. CASE UNCHANGED table
      BY <1>7, <2>1 DEF Retry, table, DecisionMap
    <2>2. ASSUME NEW j \in Ids, status[j] = "absent",
                 status' = [status EXCEPT ![j] = "PENDING"]
          PROVE  Promise!GatedNext
      <3>1. DecisionMap' = [DecisionMap EXCEPT ![j] = "open"]
        BY ZenonT(60), <2>2, OneDecision, DecisionOfStatus
      <3> QED BY <1>7, <2>2, <3>1, DecisionOfStatus
              DEF Retry, Promise!GatedNext, Promise!Ask, DecisionMap
    <2> QED BY <1>7, <2>1, <2>2 DEF Retry, table
  <1>8. ASSUME NEW i \in Ids, LateEnd(i)
        PROVE  Promise!GatedNext \/ UNCHANGED <<DecisionMap, effects>>
    <2>1. UNCHANGED status /\ Running(i) /\ (Exec(i) \/ UNCHANGED effects)
      BY <1>8 DEF LateEnd, Running, table
    <2> QED BY <2>1, EffectSimulated DEF DecisionMap
  <1> QED BY <1>1, <1>2, <1>3, <1>4, <1>5, <1>6, <1>7, <1>8 DEF Next, Poll

\* Every behaviour of the approval gate is a behaviour of GatedCall.
THEOREM Implements == Spec => KeepsPromise
  <1>1. Init => Promise!GatedInit
    BY ZenonT(60), DecisionOfStatus DEF Init, Promise!GatedInit
  <1>2. IInv /\ [Next]_vars => [Promise!GatedNext]_Promise!callVars
    BY StepSimulated
  <1> QED BY <1>1, <1>2, Invariance, PTL DEF Spec, KeepsPromise, Promise!GatedSpec

-----------------------------------------------------------------------------
(* Accounts.                                                               *)

Storing  == server.at \in {"store", "write", "close"}
Deleting == leaving.at \in {"secret", "write", "close"}

\* What a request that is under way knows, and a link that may be used.
RequestsInv ==
  /\ server.at = "rest" <=> server.nick = NoNick
  /\ leaving.at = "rest" <=> leaving.nick = NoNick
  /\ server.at \in {"insert", "store", "write", "close"} => server.grant # 0
  /\ leaving.at = "revoke" => leaving.grant # 0
  /\ \A u \in Users : asking[u] = A!Idle \/ (asking[u].nick \in Nicks /\ asking[u].grant # 0)
  /\ \A n \in Nicks : A!Exists(n) => row[n].of # 0
LinksInv == \A l \in Links : used[l] <= 1 /\ (pending[l] # NoNick => used[l] = 0)

\* The file as it is, or as the one who has truncated it will leave it; it has the secret of every
\* account but the one that is being added.
File == IF server.at = "close" THEN server.read ELSE IF leaving.at = "close" THEN leaving.read ELSE file
FiledInv ==
  /\ ~(A!Writing(server) /\ A!Writing(leaving))
  /\ server.at = "write" => server.read = [file EXCEPT ![server.nick] = server.grant]
  /\ leaving.at = "write" => leaving.read = [file EXCEPT ![leaving.nick] = 0]
  /\ server.at = "close" => server.read[server.nick] = server.grant
  /\ server.at = "close" \/ leaving.at = "close" => file = A!NoFile
  /\ \A n \in Nicks \ crossed : A!Exists(n) =>
       row[n].of = IF Storing /\ server.nick = n THEN server.grant ELSE File[n]
LeftInv == Deleting => leaving.nick \in crossed \/ ~A!Exists(leaving.nick)

\* A refresh that is under way uses the secret of the account.
AskedInv == \A n \in Nicks \ crossed, u \in Users :
  A!Exists(n) /\ asking[u].nick = n => asking[u].grant = row[n].of

\* A grant stands for one nickname wherever it stands.
Holds(n, g) ==
  \/ file[n] = g \/ row[n].of = g \/ server.read[n] = g \/ leaving.read[n] = g
  \/ server.nick = n /\ server.grant = g
  \/ \E u \in Users : cache[u][n] = g \/ (asking[u].nick = n /\ asking[u].grant = g)
OwnedInv == \A n \in Nicks, g \in 1 .. MaxGrants : Holds(n, g) =>
  grants[g] # "unused" /\ \A m \in Nicks \ {n} : ~Holds(m, g)

AccountsInv ==
  /\ A!TypeOK /\ RequestsInv /\ LinksInv /\ LeftInv /\ OwnedInv
  /\ ~damaged => FiledInv /\ AskedInv /\ A!RowSaysTrue

LEMMA AccountsAssumed == A!AccountsAssumption
  BY OwnersDeskAssumption

LEMMA AccountsConstants ==
  /\ 0 \in A!Grants /\ A!NoFile \in [Nicks -> A!Grants] /\ NoNick \notin Nicks
  /\ \A g \in 1 .. MaxGrants : g \in A!Grants /\ g # 0
  /\ \A n \in Nicks : A!NoFile[n] = 0
  /\ 0 \in 0 .. Restarts /\ 0 \in 0 .. MaxErrors
  BY AccountsAssumed DEF A!AccountsAssumption, A!Grants, A!NoFile

LEMMA ErrorsCounted == errors \in 0 .. MaxErrors /\ (A!Works \/ A!Fails) => errors' \in 0 .. MaxErrors
  BY AccountsAssumed DEF A!AccountsAssumption, A!Works, A!Fails

LEMMA RestartsCounted ==
  restarts \in 0 .. Restarts /\ restarts < Restarts /\ restarts' = restarts + 1 => restarts' \in 0 .. Restarts
  BY AccountsAssumed DEF A!AccountsAssumption

LEMMA RestTyped ==
  \A S : "rest" \in S => A!Rest \in A!Request(S)
  BY AccountsConstants DEF A!Rest, A!Request

\* A function with another value somewhere.
LEMMA Updated ==
  ASSUME NEW S, NEW T, NEW f \in [S -> T], NEW x, NEW y \in T
  PROVE  [f EXCEPT ![x] = y] \in [S -> T]
  OBVIOUS

LEMMA IdleTyped == A!NoRow \in A!Account /\ A!Idle \in A!Asked
  BY AccountsConstants DEF A!NoRow, A!Account, A!Idle, A!Asked

LEMMA InitAccounts == A!Init => AccountsInv
<1>. USE AccountsAssumed DEF A!AccountsAssumption, A!Init, A!NoRow, A!Rest, A!Idle
<1>. SUFFICES ASSUME A!Init PROVE AccountsInv
  OBVIOUS
<1>1. A!TypeOK
  BY AccountsConstants, RestTyped, IdleTyped DEF A!TypeOK, A!Request
<1>2. RequestsInv /\ LinksInv /\ LeftInv
  BY AccountsConstants DEF RequestsInv, LinksInv, LeftInv, Deleting, A!Exists
<1>3. OwnedInv
  BY AccountsConstants DEF OwnedInv, Holds
<1>4. FiledInv /\ AskedInv /\ A!RowSaysTrue
  BY AccountsConstants DEF FiledInv, AskedInv, A!RowSaysTrue, A!Exists, A!Writing
<1>. QED
  BY <1>1, <1>2, <1>3, <1>4 DEF AccountsInv

LEMMA AccountsTyped == A!TypeOK /\ RequestsInv /\ (A!Next \/ UNCHANGED A!vars) => A!TypeOK'
<1>. USE AccountsConstants, ErrorsCounted, RestartsCounted DEF A!TypeOK, A!Request
<1>. SUFFICES ASSUME A!TypeOK, RequestsInv, A!Next \/ UNCHANGED A!vars PROVE A!TypeOK'
  OBVIOUS
<1>1. ASSUME NEW l \in Links, A!Callback(l) PROVE A!TypeOK'
  <2>1. server' \in A!Request({"rest", "exchange", "insert", "store", "write", "close"})
    BY <1>1 DEF A!Callback, A!Rest
  <2>2. pending' \in [Links -> Nicks \cup {NoNick}] /\ used' \in [Links -> Nat]
    BY <1>1 DEF A!Callback, A!Consumed
  <2>. QED
    BY <1>1, <2>1, <2>2 DEF A!Callback
<1>2. ASSUME NEW l \in Links, A!Expire(l) PROVE A!TypeOK'
  BY <1>2 DEF A!Expire
<1>3. ASSUME NEW l \in Links, NEW n \in Nicks, A!Connect(l, n) PROVE A!TypeOK'
  BY <1>3 DEF A!Connect
<1>4. CASE A!Exchange
  <2>1. server' \in A!Request({"rest", "exchange", "insert", "store", "write", "close"})
    BY <1>4, RestTyped DEF A!Exchange
  <2>2. grants' \in [1 .. MaxGrants -> {"unused", "live", "dead"}]
    <3>1. CASE UNCHANGED grants
      BY <3>1
    <3>2. CASE \E g \in 1 .. MaxGrants : grants' = [grants EXCEPT ![g] = "live"]
      BY <3>2
    <3>. QED
      BY <1>4, <3>1, <3>2 DEF A!Exchange
  <2>3. UNCHANGED <<pending, used, row, file, leaving, asking, cache, crossed, damaged, restarts>> /\ (A!Works \/ A!Fails)
    BY <1>4 DEF A!Exchange
  <2>4. errors' \in 0 .. MaxErrors
    BY <2>3, ErrorsCounted
  <2>. QED
    BY <2>1, <2>2, <2>3, <2>4
<1>5. CASE A!Insert
  <2>1. server' \in A!Request({"rest", "exchange", "insert", "store", "write", "close"})
    BY <1>5, RestTyped DEF A!Insert
  <2>2. server.nick \in Nicks
    BY <1>5 DEF A!Insert, RequestsInv
  <2>3. row' \in [Nicks -> A!Account]
    <3>1. server.grant \in A!Grants
      OBVIOUS
    <3>2. \/ UNCHANGED row
          \/ row' = [row EXCEPT ![server.nick] = [status |-> "active", of |-> server.grant, alias |-> server.grant]]
          \/ row' = [row EXCEPT ![server.nick] = [status |-> "active", of |-> server.grant, alias |-> 0]]
      BY <1>5 DEF A!Insert
    <3>3. /\ [status |-> "active", of |-> server.grant, alias |-> server.grant] \in A!Account
          /\ [status |-> "active", of |-> server.grant, alias |-> 0] \in A!Account
      BY <3>1, AccountsConstants DEF A!Account
    <3>. QED
      BY <3>2, <3>3, <2>2
  <2>4. crossed' \subseteq Nicks
    BY <1>5, <2>2 DEF A!Insert, A!Crossing
  <2>5. errors' \in 0 .. MaxErrors
    BY <1>5 DEF A!Insert
  <2>. QED
    BY <1>5, <2>1, <2>3, <2>4, <2>5 DEF A!Insert
<1>6. CASE A!ReadToStore
  BY <1>6 DEF A!ReadToStore, A!Writing
<1>7. CASE A!ReadToDelete
  BY <1>7 DEF A!ReadToDelete, A!Writing, A!Rest
<1>8. CASE A!Truncate
  BY <1>8 DEF A!Truncate
<1>9. CASE A!WriteOut
  BY <1>9 DEF A!WriteOut, A!Rest
<1>10. CASE A!Revoke
  BY <1>10 DEF A!Revoke
<1>11. CASE A!DeleteRow
  BY <1>11, IdleTyped DEF A!DeleteRow
<1>12. ASSUME NEW n \in Nicks, A!Disconnect(n) PROVE A!TypeOK'
  BY <1>12 DEF A!Disconnect, A!Rest
<1>13. ASSUME NEW u \in Users, A!Refresh(u) PROVE A!TypeOK'
  <2>1. asking[u].nick \in Nicks /\ asking[u].grant \in A!Grants
    BY <1>13 DEF A!Refresh, RequestsInv, A!Asked
  <2>2. asking' \in [Users -> A!Asked]
    BY <1>13, IdleTyped DEF A!Refresh
  <2>3. row' \in [Nicks -> A!Account]
    <3>. DEFINE n == asking[u].nick
                g == asking[u].grant
    <3>1. \/ UNCHANGED row
          \/ row' = [row EXCEPT ![n] = A!Refused(row[n], grants[g] = "dead")]
          \/ row' = [row EXCEPT ![n] = [row[n] EXCEPT !.alias = g]]
          \/ row' = [row EXCEPT ![n] = [row[n] EXCEPT !.alias = 0]]
      BY <1>13, <2>1 DEF A!Refresh
    <3>2. row[n] \in A!Account
      BY <2>1
    <3>3. /\ A!Refused(row[n], grants[g] = "dead") \in A!Account
          /\ [row[n] EXCEPT !.alias = g] \in A!Account /\ [row[n] EXCEPT !.alias = 0] \in A!Account
      BY <3>2, <2>1, AccountsConstants DEF A!Refused, A!Account
    <3>4. n \in Nicks /\ row \in [Nicks -> A!Account]
      BY <2>1
    <3>. HIDE DEF n, g
    <3>. QED
      BY <3>1, <3>3, <3>4, Updated
  <2>4. cache' \in [Users -> [Nicks -> A!Grants]]
    <3>1. \/ UNCHANGED cache
          \/ cache' = [cache EXCEPT ![u] = [cache[u] EXCEPT ![asking[u].nick] = asking[u].grant]]
      BY <1>13 DEF A!Refresh
    <3>2. [cache[u] EXCEPT ![asking[u].nick] = asking[u].grant] \in [Nicks -> A!Grants]
      BY <2>1
    <3>3. cache \in [Users -> [Nicks -> A!Grants]]
      OBVIOUS
    <3>. QED
      BY <3>1, <3>2, <3>3, Updated
  <2>5. errors' \in 0 .. MaxErrors
    <3>1. A!Works \/ A!Fails
      BY <1>13 DEF A!Refresh
    <3>. QED
      BY <3>1
  <2>. QED
    BY <1>13, <2>2, <2>3, <2>4, <2>5 DEF A!Refresh
<1>14. ASSUME NEW u \in Users, NEW n \in Nicks, A!AskToken(u, n) PROVE A!TypeOK'
  BY <1>14 DEF A!AskToken, A!Asked, A!Asks, A!HalfThere
<1>15. ASSUME NEW u \in Users, NEW n \in Nicks, A!AskAlias(u, n) PROVE A!TypeOK'
  BY <1>15 DEF A!AskAlias, A!Asked, A!Asks, A!HalfThere
<1>16. ASSUME NEW u \in Users, NEW n \in Nicks, A!Forget(u, n) PROVE A!TypeOK'
  BY <1>16 DEF A!Forget
<1>17. ASSUME NEW g \in 1 .. MaxGrants, A!Withdraw(g) PROVE A!TypeOK'
  BY <1>17 DEF A!Withdraw
<1>18. CASE A!Crash
  <2>1. /\ server' \in A!Request({"rest", "exchange", "insert", "store", "write", "close"})
        /\ leaving' \in A!Request({"rest", "revoke", "row", "secret", "write", "close"})
    BY <1>18, RestTyped DEF A!Crash
  <2>2. /\ asking' \in [Users -> A!Asked]
        /\ cache' \in [Users -> [Nicks -> A!Grants]]
    <3>1. \/ UNCHANGED <<asking, cache>>
          \/ \E u \in Users : asking' = [asking EXCEPT ![u] = A!Idle] /\ cache' = [cache EXCEPT ![u] = A!NoFile]
      BY <1>18 DEF A!Crash
    <3>2. A!Idle \in A!Asked
      BY IdleTyped
    <3>3. ASSUME NEW u \in Users PROVE [asking EXCEPT ![u] = A!Idle] \in [Users -> A!Asked]
      BY <3>2
    <3>4. ASSUME NEW u \in Users PROVE [cache EXCEPT ![u] = A!NoFile] \in [Users -> [Nicks -> A!Grants]]
      OBVIOUS
    <3>5. CASE \E u \in Users : asking' = [asking EXCEPT ![u] = A!Idle] /\ cache' = [cache EXCEPT ![u] = A!NoFile]
      <4>1. PICK u \in Users : asking' = [asking EXCEPT ![u] = A!Idle] /\ cache' = [cache EXCEPT ![u] = A!NoFile]
        BY <3>5
      <4>. QED
        BY <4>1, <3>3, <3>4
    <3>6. CASE UNCHANGED <<asking, cache>>
      BY <3>6
    <3>. QED
      BY <3>1, <3>5, <3>6
  <2>3. crossed' \subseteq Nicks
    BY <1>18 DEF A!Crash, RequestsInv
  <2>4. damaged' \in BOOLEAN /\ restarts' \in 0 .. Restarts
    BY <1>18 DEF A!Crash
  <2>. QED
    BY <1>18, <2>1, <2>2, <2>3, <2>4 DEF A!Crash
<1>19. CASE UNCHANGED A!vars
  BY <1>19 DEF A!vars
<1>. QED
  BY <1>1, <1>2, <1>3, <1>4, <1>5, <1>6, <1>7, <1>8, <1>9, <1>10, <1>11, <1>12, <1>13, <1>14, <1>15,
     <1>16, <1>17, <1>18, <1>19 DEF A!Next

\* What an exchange does.
Granted(g) ==
  /\ grants[g] = "unused" /\ grants' = [grants EXCEPT ![g] = "live"]
  /\ server' = [server EXCEPT !.at = "insert", !.grant = g]

LEMMA ExchangeWrites ==
  ASSUME A!TypeOK, A!Exchange
  PROVE  /\ server.at = "exchange" /\ server'.at \in {"rest", "insert"}
         /\ (server' = A!Rest /\ UNCHANGED grants) \/ \E g \in 1 .. MaxGrants : Granted(g)
<1>1. server.at = "exchange" /\ ((server' = A!Rest /\ UNCHANGED grants) \/ \E g \in 1 .. MaxGrants : Granted(g))
  BY DEF A!Exchange, Granted
<1>2. CASE server' = A!Rest
  BY <1>1, <1>2 DEF A!Rest
<1>3. CASE \E g \in 1 .. MaxGrants : Granted(g)
  BY <1>1, <1>3 DEF Granted, A!TypeOK, A!Request
<1>. QED
  BY <1>1, <1>2, <1>3

\* What a refresh of grant g does to the row of n.
Wrote(n, g) ==
  /\ \A m \in Nicks \ {n} : row'[m] = row[m]
  /\ row'[n].of = row[n].of
  /\ \/ row'[n].status = row[n].status
     \/ row[n].status # "none" /\ row'[n].status = "revoked" /\ grants[g] = "dead"
  /\ row'[n].alias \in {row[n].alias, 0} \/ (row[n].status # "none" /\ row'[n].alias = g)

LEMMA RefreshWrites ==
  ASSUME A!TypeOK, RequestsInv, NEW u \in Users, A!Refresh(u)
  PROVE  /\ asking[u].nick \in Nicks /\ asking[u].grant \in 1 .. MaxGrants
         /\ Wrote(asking[u].nick, asking[u].grant)
<1>1. asking[u].nick \in Nicks /\ asking[u].grant \in 1 .. MaxGrants
  BY DEF A!Refresh, RequestsInv, A!TypeOK, A!Asked, A!Grants
<1>2. SUFFICES ASSUME NEW n, NEW g, n = asking[u].nick, g = asking[u].grant PROVE Wrote(n, g)
  BY <1>1
<1>3. \/ UNCHANGED row
      \/ row' = [row EXCEPT ![n] = A!Refused(row[n], grants[g] = "dead")]
      \/ \E a : (a = 0 \/ (a = g /\ row[n].status # "none")) /\ row' = [row EXCEPT ![n] = [row[n] EXCEPT !.alias = a]]
  BY <1>1, <1>2 DEF A!Refresh, A!Exists
<1>4. n \in Nicks /\ row \in [Nicks -> A!Account]
  BY <1>1, <1>2 DEF A!TypeOK
<1>5. ASSUME NEW r, row' = [row EXCEPT ![n] = r] PROVE row'[n] = r /\ \A m \in Nicks \ {n} : row'[m] = row[m]
  BY <1>4, <1>5
<1>6. CASE row' = [row EXCEPT ![n] = A!Refused(row[n], grants[g] = "dead")]
  <2>1. row'[n] = A!Refused(row[n], grants[g] = "dead") /\ \A m \in Nicks \ {n} : row'[m] = row[m]
    BY <1>5, <1>6
  <2>2. CASE row[n].status # "none" /\ grants[g] = "dead"
    BY <1>4, <2>1, <2>2 DEF A!Refused, Wrote, A!Account
  <2>3. CASE ~(row[n].status # "none" /\ grants[g] = "dead")
    BY <1>4, <2>1, <2>3 DEF A!Refused, Wrote
  <2>. QED
    BY <2>2, <2>3
<1>7. CASE \E a : (a = 0 \/ (a = g /\ row[n].status # "none")) /\ row' = [row EXCEPT ![n] = [row[n] EXCEPT !.alias = a]]
  <2>1. PICK a : (a = 0 \/ (a = g /\ row[n].status # "none")) /\ row' = [row EXCEPT ![n] = [row[n] EXCEPT !.alias = a]]
    BY <1>7
  <2>2. row'[n] = [row[n] EXCEPT !.alias = a] /\ \A m \in Nicks \ {n} : row'[m] = row[m]
    BY <1>5, <2>1
  <2>. QED
    <3>1. row'[n].of = row[n].of /\ row'[n].status = row[n].status /\ row'[n].alias = a
      BY <1>4, <2>2 DEF A!Account
    <3>. QED
      BY <2>1, <2>2, <3>1 DEF Wrote
<1>. QED
  BY <1>3, <1>6, <1>7 DEF Wrote

LEMMA RequestsKept ==
  ASSUME A!TypeOK, RequestsInv, LinksInv, LeftInv, A!Next \/ UNCHANGED A!vars
  PROVE  RequestsInv' /\ LinksInv' /\ LeftInv'
<1>. USE AccountsConstants DEF RequestsInv, LinksInv, LeftInv, Deleting, A!Exists, A!TypeOK, A!Request, A!Rest
<1>1. ASSUME NEW l \in Links, A!Callback(l) PROVE RequestsInv' /\ LinksInv' /\ LeftInv'
  BY <1>1 DEF A!Callback, A!Consumed
<1>2. ASSUME NEW l \in Links, A!Expire(l) PROVE RequestsInv' /\ LinksInv' /\ LeftInv'
  BY <1>2 DEF A!Expire
<1>3. ASSUME NEW l \in Links, NEW n \in Nicks, A!Connect(l, n) PROVE RequestsInv' /\ LinksInv' /\ LeftInv'
  BY <1>3 DEF A!Connect
<1>4. CASE A!Exchange
  <2>1. CASE server' = A!Rest
    BY <1>4, <2>1 DEF A!Exchange
  <2>2. ASSUME NEW g \in 1 .. MaxGrants, Granted(g) PROVE RequestsInv' /\ LinksInv' /\ LeftInv'
    BY <1>4, <2>2, ExchangeWrites DEF A!Exchange, Granted
  <2>. QED
    BY <1>4, <2>1, <2>2, ExchangeWrites
<1>5. CASE A!Insert
  BY <1>5 DEF A!Insert, A!Crossing, A!Overlapped
<1>6. CASE A!ReadToStore
  BY <1>6 DEF A!ReadToStore
<1>7. CASE A!ReadToDelete
  BY <1>7 DEF A!ReadToDelete
<1>8. CASE A!Truncate
  BY <1>8 DEF A!Truncate
<1>9. CASE A!WriteOut
  BY <1>9 DEF A!WriteOut
<1>10. CASE A!Revoke
  BY <1>10 DEF A!Revoke
<1>11. CASE A!DeleteRow
  BY <1>11 DEF A!DeleteRow, A!NoRow
<1>12. ASSUME NEW n \in Nicks, A!Disconnect(n) PROVE RequestsInv' /\ LinksInv' /\ LeftInv'
  BY <1>12 DEF A!Disconnect
<1>13. ASSUME NEW u \in Users, A!Refresh(u) PROVE RequestsInv' /\ LinksInv' /\ LeftInv'
  <2>2. ASSUME NEW n \in Nicks PROVE row'[n].of = row[n].of /\ (row'[n].status = "none" <=> row[n].status = "none")
    BY <1>13, RefreshWrites DEF Wrote
  <2>3. ASSUME NEW v \in Users PROVE asking'[v] = asking[v] \/ asking'[v] = A!Idle
    BY <1>13 DEF A!Refresh
  <2>. QED
    BY <1>13, <2>2, <2>3 DEF A!Refresh
<1>14. ASSUME NEW u \in Users, NEW n \in Nicks, A!AskToken(u, n) PROVE RequestsInv' /\ LinksInv' /\ LeftInv'
  BY <1>14 DEF A!AskToken, A!Asks
<1>15. ASSUME NEW u \in Users, NEW n \in Nicks, A!AskAlias(u, n) PROVE RequestsInv' /\ LinksInv' /\ LeftInv'
  BY <1>15 DEF A!AskAlias, A!Asks
<1>16. ASSUME NEW u \in Users, NEW n \in Nicks, A!Forget(u, n) PROVE RequestsInv' /\ LinksInv' /\ LeftInv'
  BY <1>16 DEF A!Forget
<1>17. ASSUME NEW g \in 1 .. MaxGrants, A!Withdraw(g) PROVE RequestsInv' /\ LinksInv' /\ LeftInv'
  BY <1>17 DEF A!Withdraw
<1>18. CASE A!Crash
  BY <1>18 DEF A!Crash
<1>19. CASE UNCHANGED A!vars
  BY <1>19 DEF A!vars
<1>. QED
  BY <1>1, <1>2, <1>3, <1>4, <1>5, <1>6, <1>7, <1>8, <1>9, <1>10, <1>11, <1>12, <1>13, <1>14, <1>15,
     <1>16, <1>17, <1>18, <1>19 DEF A!Next
LEMMA FiledKept ==
  ASSUME A!TypeOK, RequestsInv, LeftInv, FiledInv, ~damaged, ~damaged', A!Next \/ UNCHANGED A!vars
  PROVE  FiledInv'
<1>. USE AccountsConstants DEF FiledInv, File, RequestsInv, LeftInv, Storing, Deleting, A!Exists, A!Writing, A!TypeOK, A!Request, A!Rest
<1>1. ASSUME NEW l \in Links, A!Callback(l) PROVE FiledInv'
  BY <1>1 DEF A!Callback, A!Consumed
<1>2. ASSUME NEW l \in Links, A!Expire(l) PROVE FiledInv'
  BY <1>2 DEF A!Expire
<1>3. ASSUME NEW l \in Links, NEW n \in Nicks, A!Connect(l, n) PROVE FiledInv'
  BY <1>3 DEF A!Connect
<1>4. CASE A!Exchange
  <2>1. server.at = "exchange" /\ server'.at \in {"rest", "insert"}
    BY <1>4, ExchangeWrites
  <2>2. UNCHANGED <<row, file, leaving, crossed>>
    BY <1>4 DEF A!Exchange
  <2>. QED
    BY <2>1, <2>2
<1>5. CASE A!Insert
  BY <1>5 DEF A!Insert, A!Crossing, A!Overlapped
<1>6. CASE A!ReadToStore
  BY <1>6 DEF A!ReadToStore
<1>7. CASE A!ReadToDelete
  BY <1>7 DEF A!ReadToDelete
<1>8. CASE A!Truncate
  <2>1. CASE server.at = "write" /\ server' = [server EXCEPT !.at = "close"] /\ UNCHANGED leaving
    BY <1>8, <2>1 DEF A!Truncate
  <2>2. CASE leaving.at = "write" /\ leaving' = [leaving EXCEPT !.at = "close"] /\ UNCHANGED server
    BY <1>8, <2>2 DEF A!Truncate
  <2>. QED
    BY <1>8, <2>1, <2>2 DEF A!Truncate
<1>9. CASE A!WriteOut
  BY <1>9 DEF A!WriteOut
<1>10. CASE A!Revoke
  BY <1>10 DEF A!Revoke
<1>11. CASE A!DeleteRow
  BY <1>11 DEF A!DeleteRow, A!NoRow
<1>12. ASSUME NEW n \in Nicks, A!Disconnect(n) PROVE FiledInv'
  BY <1>12 DEF A!Disconnect
<1>13. ASSUME NEW u \in Users, A!Refresh(u) PROVE FiledInv'
  <2>1. ASSUME NEW n \in Nicks PROVE row'[n].of = row[n].of /\ (row'[n].status = "none" <=> row[n].status = "none")
    <3>1. PICK m, g : Wrote(m, g)
      BY <1>13, RefreshWrites
    <3>2. CASE n = m
      BY <3>1, <3>2 DEF Wrote
    <3>3. CASE n # m
      BY <3>1, <3>3 DEF Wrote
    <3>. QED
      BY <3>2, <3>3
  <2>2. UNCHANGED <<file, server, leaving, crossed>>
    BY <1>13 DEF A!Refresh
  <2>3. ASSUME NEW n \in Nicks \ crossed', A!Exists(n)'
        PROVE  row'[n].of = (IF Storing /\ server.nick = n THEN server.grant ELSE File[n])'
    <3>1. n \in Nicks \ crossed /\ A!Exists(n)
      BY <2>1, <2>2, <2>3
    <3>2. row[n].of = IF Storing /\ server.nick = n THEN server.grant ELSE File[n]
      BY <3>1
    <3>. QED
      BY <2>1, <2>2, <3>1, <3>2
  <2>. QED
    BY <2>2, <2>3
<1>14. ASSUME NEW u \in Users, NEW n \in Nicks, A!AskToken(u, n) PROVE FiledInv'
  BY <1>14 DEF A!AskToken, A!Asks
<1>15. ASSUME NEW u \in Users, NEW n \in Nicks, A!AskAlias(u, n) PROVE FiledInv'
  BY <1>15 DEF A!AskAlias, A!Asks
<1>16. ASSUME NEW u \in Users, NEW n \in Nicks, A!Forget(u, n) PROVE FiledInv'
  BY <1>16 DEF A!Forget
<1>17. ASSUME NEW g \in 1 .. MaxGrants, A!Withdraw(g) PROVE FiledInv'
  BY <1>17 DEF A!Withdraw
<1>18. CASE A!Crash
  <2>. UNCHANGED <<row, file>>
    BY <1>18 DEF A!Crash
  <2>1. CASE /\ server' = A!Rest /\ UNCHANGED leaving /\ damaged' = (damaged \/ server.at = "close")
             /\ crossed' = IF server.at \in {"store", "write", "close"} THEN crossed \cup {server.nick} ELSE crossed
    <3>1. server.at # "close"
      BY <2>1
    <3>. QED
      BY <2>1, <3>1
  <2>2. CASE /\ leaving' = A!Rest /\ UNCHANGED <<server, crossed>> /\ damaged' = (damaged \/ leaving.at = "close")
    <3>1. leaving.at # "close"
      BY <2>2
    <3>. QED
      BY <2>2, <3>1
  <2>3. CASE UNCHANGED <<server, leaving, crossed>>
    BY <2>3
  <2>. QED
    BY <1>18, <2>1, <2>2, <2>3 DEF A!Crash
<1>19. CASE UNCHANGED A!vars
  BY <1>19 DEF A!vars
<1>. QED
  BY <1>1, <1>2, <1>3, <1>4, <1>5, <1>6, <1>7, <1>8, <1>9, <1>10, <1>11, <1>12, <1>13, <1>14, <1>15,
     <1>16, <1>17, <1>18, <1>19 DEF A!Next
\* The grant of a row is one Google gave.
LEMMA Revoked == A!TypeOK /\ RequestsInv => \A n \in Nicks : A!Exists(n) => row[n].of \in 1 .. MaxGrants
  BY DEF A!TypeOK, RequestsInv, A!Account, A!Grants

LEMMA RowsKept ==
  ASSUME A!TypeOK, RequestsInv, FiledInv, AskedInv, A!RowSaysTrue, ~damaged, ~damaged', A!Next \/ UNCHANGED A!vars
  PROVE  AskedInv' /\ A!RowSaysTrue'
<1>. USE AccountsConstants DEF AskedInv, A!RowSaysTrue, RequestsInv, A!Exists, A!TypeOK
<1>1. ASSUME NEW l \in Links, A!Callback(l) PROVE AskedInv' /\ A!RowSaysTrue'
  BY <1>1 DEF A!Callback, A!Consumed
<1>2. ASSUME NEW l \in Links, A!Expire(l) PROVE AskedInv' /\ A!RowSaysTrue'
  BY <1>2 DEF A!Expire
<1>3. ASSUME NEW l \in Links, NEW n \in Nicks, A!Connect(l, n) PROVE AskedInv' /\ A!RowSaysTrue'
  BY <1>3 DEF A!Connect
<1>4. CASE A!Exchange
  <2>1. ASSUME NEW g \in 1 .. MaxGrants, grants[g] = "dead" PROVE grants'[g] = "dead"
    BY <1>4, <2>1, ExchangeWrites DEF Granted
  <2>. QED
    BY <1>4, <2>1, Revoked DEF A!Exchange
<1>5. CASE A!Insert
  BY <1>5 DEF A!Insert, A!Crossing, A!Overlapped
<1>6. CASE A!ReadToStore
  BY <1>6 DEF A!ReadToStore
<1>7. CASE A!ReadToDelete
  BY <1>7 DEF A!ReadToDelete
<1>8. CASE A!Truncate
  BY <1>8 DEF A!Truncate
<1>9. CASE A!WriteOut
  BY <1>9 DEF A!WriteOut
<1>10. CASE A!Revoke
  <2>1. ASSUME NEW g \in 1 .. MaxGrants, grants[g] = "dead" PROVE grants'[g] = "dead"
    BY <1>10, <2>1 DEF A!Revoke
  <2>. QED
    BY <1>10, <2>1, Revoked DEF A!Revoke
<1>11. CASE A!DeleteRow
  BY <1>11 DEF A!DeleteRow, A!NoRow
<1>12. ASSUME NEW n \in Nicks, A!Disconnect(n) PROVE AskedInv' /\ A!RowSaysTrue'
  BY <1>12 DEF A!Disconnect
<1>13. ASSUME NEW u \in Users, A!Refresh(u) PROVE AskedInv' /\ A!RowSaysTrue'
  <2>. DEFINE n == asking[u].nick
              g == asking[u].grant
  <2>1. n \in Nicks /\ g \in 1 .. MaxGrants /\ Wrote(n, g) /\ UNCHANGED <<grants, crossed>>
    BY <1>13, RefreshWrites DEF A!Refresh
  <2>2. n \notin crossed /\ A!Exists(n) => g = row[n].of
    BY <2>1
  <2>3. ASSUME NEW v \in Users PROVE asking'[v] = asking[v] \/ asking'[v] = A!Idle
    <3>1. asking' = [asking EXCEPT ![u] = A!Idle]
      BY <1>13 DEF A!Refresh
    <3>. QED
      BY <3>1
  <2>4. AskedInv'
    <3>1. ASSUME NEW m \in Nicks PROVE row'[m].of = row[m].of /\ (row'[m].status = "none" <=> row[m].status = "none")
      <4>1. CASE m = n
        BY <2>1, <4>1 DEF Wrote
      <4>2. CASE m # n
        BY <2>1, <4>2 DEF Wrote
      <4>. QED
        BY <4>1, <4>2
    <3>2. A!Idle.nick \notin Nicks
      BY DEF A!Idle
    <3>3. ASSUME NEW m \in Nicks \ crossed', NEW v \in Users, row'[m].status # "none", asking'[v].nick = m
          PROVE  asking'[v].grant = row'[m].of
      <4>1. asking'[v] = asking[v] /\ m \in Nicks \ crossed /\ row[m].status # "none"
        BY <2>1, <2>3, <3>1, <3>2, <3>3
      <4>. QED
        BY <3>1, <3>3, <4>1
    <3>. QED
      BY <3>3
  <2>5. ASSUME NEW m \in Nicks \ crossed PROVE
          /\ row'[m].status = "revoked" => grants[row'[m].of] = "dead"
          /\ row'[m].alias \in {0, row'[m].of}
    <3>1. CASE m = n
      BY <2>1, <2>2, <3>1 DEF Wrote
    <3>2. CASE m # n
      BY <2>1, <3>2 DEF Wrote
    <3>. QED
      BY <3>1, <3>2
  <2>. QED
    BY <2>1, <2>4, <2>5
<1>14. ASSUME NEW u \in Users, NEW n \in Nicks, A!AskToken(u, n) PROVE AskedInv' /\ A!RowSaysTrue'
  BY <1>14 DEF A!AskToken, A!Asks, A!HalfThere, FiledInv, File, Storing
<1>15. ASSUME NEW u \in Users, NEW n \in Nicks, A!AskAlias(u, n) PROVE AskedInv' /\ A!RowSaysTrue'
  BY <1>15 DEF A!AskAlias, A!Asks, A!HalfThere, FiledInv, File, Storing
<1>16. ASSUME NEW u \in Users, NEW n \in Nicks, A!Forget(u, n) PROVE AskedInv' /\ A!RowSaysTrue'
  BY <1>16 DEF A!Forget
<1>17. ASSUME NEW g \in 1 .. MaxGrants, A!Withdraw(g) PROVE AskedInv' /\ A!RowSaysTrue'
  BY <1>17 DEF A!Withdraw
<1>18. CASE A!Crash
  BY <1>18 DEF A!Crash, A!Idle
<1>19. CASE UNCHANGED A!vars
  BY <1>19 DEF A!vars
<1>. QED
  BY <1>1, <1>2, <1>3, <1>4, <1>5, <1>6, <1>7, <1>8, <1>9, <1>10, <1>11, <1>12, <1>13, <1>14, <1>15,
     <1>16, <1>17, <1>18, <1>19 DEF A!Next

\* What stands anywhere has stood there for the same nickname, or is new.
Fresh(n, g) == server.at = "exchange" /\ server.nick = n /\ grants[g] = "unused" /\ grants'[g] = "live"

LEMMA HeldBefore ==
  ASSUME NEW k \in Nicks, NEW h \in 1 .. MaxGrants, A!TypeOK, RequestsInv, A!Next \/ UNCHANGED A!vars, Holds(k, h)'
  PROVE  Holds(k, h) \/ Fresh(k, h)
<1>. USE AccountsConstants DEF Holds, RequestsInv, A!TypeOK, A!Request, A!Rest
<1>1. ASSUME NEW l \in Links, A!Callback(l) PROVE Holds(k, h) \/ Fresh(k, h)
  BY <1>1 DEF A!Callback, A!Consumed
<1>2. ASSUME NEW l \in Links, A!Expire(l) PROVE Holds(k, h) \/ Fresh(k, h)
  BY <1>2 DEF A!Expire
<1>3. ASSUME NEW l \in Links, NEW n \in Nicks, A!Connect(l, n) PROVE Holds(k, h) \/ Fresh(k, h)
  BY <1>3 DEF A!Connect
<1>4. CASE A!Exchange
  <2>1. UNCHANGED <<file, row, leaving, cache, asking>>
    BY <1>4 DEF A!Exchange
  <2>2. CASE server' = A!Rest
    BY <2>1, <2>2
  <2>3. ASSUME NEW g \in 1 .. MaxGrants, Granted(g) PROVE Holds(k, h) \/ Fresh(k, h)
    <3>1. server'.nick = server.nick /\ server'.read = server.read /\ server'.grant = g /\ grants'[g] = "live"
      BY <2>3 DEF Granted
    <3>. QED
      BY <1>4, <2>1, <2>3, <3>1, ExchangeWrites DEF Granted, Fresh
  <2>. QED
    BY <1>4, <2>2, <2>3, ExchangeWrites
<1>5. CASE A!Insert
  <2>1. UNCHANGED <<file, leaving, cache, asking>>
    BY <1>5 DEF A!Insert
  <2>2. row'[k].of = row[k].of \/ (server.nick = k /\ row'[k].of = server.grant)
    BY <1>5 DEF A!Insert
  <2>3. server' = A!Rest \/ (server'.nick = server.nick /\ server'.grant = server.grant /\ server'.read = server.read)
    BY <1>5 DEF A!Insert
  <2>. QED
    BY <2>1, <2>2, <2>3
<1>6. CASE A!ReadToStore
  BY <1>6 DEF A!ReadToStore
<1>7. CASE A!ReadToDelete
  BY <1>7 DEF A!ReadToDelete
<1>8. CASE A!Truncate
  BY <1>8 DEF A!Truncate
<1>9. CASE A!WriteOut
  BY <1>9 DEF A!WriteOut
<1>10. CASE A!Revoke
  BY <1>10 DEF A!Revoke
<1>11. CASE A!DeleteRow
  BY <1>11 DEF A!DeleteRow, A!NoRow
<1>12. ASSUME NEW n \in Nicks, A!Disconnect(n) PROVE Holds(k, h) \/ Fresh(k, h)
  BY <1>12 DEF A!Disconnect
<1>13. ASSUME NEW u \in Users, A!Refresh(u) PROVE Holds(k, h) \/ Fresh(k, h)
  <2>1. UNCHANGED <<file, server, leaving>> /\ row'[k].of = row[k].of
    BY <1>13, RefreshWrites DEF A!Refresh, Wrote
  <2>2. \A v \in Users : asking'[v] = asking[v] \/ asking'[v] = A!Idle
    BY <1>13 DEF A!Refresh
  <2>3. \A v \in Users : cache'[v][k] = cache[v][k] \/ (v = u /\ k = asking[u].nick /\ cache'[v][k] = asking[u].grant)
    BY <1>13, RefreshWrites DEF A!Refresh
  <2>4. ASSUME NEW v \in Users, asking'[v].nick = k, asking'[v].grant = h PROVE Holds(k, h)
    <3>1. asking'[v] # A!Idle
      BY <2>4 DEF A!Idle
    <3>. QED
      BY <2>2, <2>4, <3>1
  <2>5. ASSUME NEW v \in Users, cache'[v][k] = h PROVE Holds(k, h)
    BY <2>3, <2>5
  <2>. QED
    BY <2>1, <2>4, <2>5
<1>14. ASSUME NEW u \in Users, NEW n \in Nicks, A!AskToken(u, n) PROVE Holds(k, h) \/ Fresh(k, h)
  BY <1>14 DEF A!AskToken, A!Asks
<1>15. ASSUME NEW u \in Users, NEW n \in Nicks, A!AskAlias(u, n) PROVE Holds(k, h) \/ Fresh(k, h)
  BY <1>15 DEF A!AskAlias, A!Asks
<1>16. ASSUME NEW u \in Users, NEW n \in Nicks, A!Forget(u, n) PROVE Holds(k, h) \/ Fresh(k, h)
  BY <1>16 DEF A!Forget
<1>17. ASSUME NEW g \in 1 .. MaxGrants, A!Withdraw(g) PROVE Holds(k, h) \/ Fresh(k, h)
  BY <1>17 DEF A!Withdraw
<1>18. CASE A!Crash
  <2>1. UNCHANGED <<file, row>>
    BY <1>18 DEF A!Crash
  <2>2. server' \in {server, A!Rest} /\ leaving' \in {leaving, A!Rest}
    BY <1>18 DEF A!Crash
  <2>3. ASSUME NEW v \in Users PROVE asking'[v] \in {asking[v], A!Idle} /\ cache'[v] \in {cache[v], A!NoFile}
    BY <1>18 DEF A!Crash
  <2>4. ASSUME NEW v \in Users, cache'[v][k] = h \/ (asking'[v].nick = k /\ asking'[v].grant = h) PROVE Holds(k, h)
    BY <2>3, <2>4 DEF A!Idle, A!NoFile
  <2>. QED
    BY <2>1, <2>2, <2>4
<1>19. CASE UNCHANGED A!vars
  BY <1>19 DEF A!vars
<1>. QED
  BY <1>1, <1>2, <1>3, <1>4, <1>5, <1>6, <1>7, <1>8, <1>9, <1>10, <1>11, <1>12, <1>13, <1>14, <1>15,
     <1>16, <1>17, <1>18, <1>19 DEF A!Next

LEMMA GrantsStay ==
  ASSUME A!TypeOK, RequestsInv, A!Next \/ UNCHANGED A!vars, NEW g \in 1 .. MaxGrants, grants[g] # "unused"
  PROVE  grants'[g] # "unused"
<1>1. CASE A!Exchange
  BY <1>1, ExchangeWrites DEF Granted, A!TypeOK
<1>2. CASE A!Revoke
  BY <1>2 DEF A!Revoke, A!TypeOK
<1>3. ASSUME NEW h \in 1 .. MaxGrants, A!Withdraw(h) PROVE grants'[g] # "unused"
  BY <1>3 DEF A!Withdraw, A!TypeOK
<1>4. CASE UNCHANGED grants
  BY <1>4
<1>5. A!Exchange \/ A!Revoke \/ (\E h \in 1 .. MaxGrants : A!Withdraw(h)) \/ UNCHANGED grants
  BY DEF A!Next, A!vars, A!Callback, A!Expire, A!Connect, A!Insert, A!ReadToStore, A!ReadToDelete, A!Truncate,
         A!WriteOut, A!DeleteRow, A!Disconnect, A!Refresh, A!AskToken, A!AskAlias, A!Forget, A!Crash
<1>. QED
  BY <1>1, <1>2, <1>3, <1>4, <1>5

LEMMA OwnedKept ==
  ASSUME A!TypeOK, RequestsInv, OwnedInv, A!Next \/ UNCHANGED A!vars
  PROVE  OwnedInv'
<1>1. ASSUME NEW n \in Nicks, NEW g \in 1 .. MaxGrants, Holds(n, g)'
      PROVE  grants'[g] # "unused" /\ \A m \in Nicks \ {n} : ~Holds(m, g)'
  <2>1. Holds(n, g) \/ Fresh(n, g)
    BY <1>1, HeldBefore
  <2>2. ASSUME NEW m \in Nicks \ {n}, Holds(m, g)' PROVE Holds(m, g) \/ Fresh(m, g)
    BY <2>2, HeldBefore
  <2>3. CASE Holds(n, g)
    <3>1. grants[g] # "unused" /\ \A m \in Nicks \ {n} : ~Holds(m, g)
      BY <2>3 DEF OwnedInv
    <3>. QED
      BY <2>2, <3>1, GrantsStay DEF Fresh
  <2>4. CASE Fresh(n, g)
    <3>1. \A m \in Nicks : ~Holds(m, g)
      BY <2>4 DEF OwnedInv, Fresh
    <3>. QED
      BY <2>2, <2>4, <3>1 DEF Fresh
  <2>. QED
    BY <2>1, <2>3, <2>4
<1>. QED
  BY <1>1 DEF OwnedInv

LEMMA DamageStays == damaged /\ (A!Next \/ UNCHANGED A!vars) => damaged'
<1>. SUFFICES ASSUME damaged, A!Next \/ UNCHANGED A!vars PROVE damaged'
  OBVIOUS
<1>1. UNCHANGED damaged \/ A!ReadToStore \/ A!ReadToDelete \/ A!Crash
  BY DEF A!Next, A!vars, A!Callback, A!Expire, A!Connect, A!Exchange, A!Insert, A!Truncate, A!WriteOut, A!Revoke,
         A!DeleteRow, A!Disconnect, A!Refresh, A!AskToken, A!AskAlias, A!Forget, A!Withdraw
<1>. QED
  BY <1>1 DEF A!ReadToStore, A!ReadToDelete, A!Crash

LEMMA AccountsKept == AccountsInv /\ (A!Next \/ UNCHANGED A!vars) => AccountsInv'
<1>. SUFFICES ASSUME AccountsInv, A!Next \/ UNCHANGED A!vars PROVE AccountsInv'
  OBVIOUS
<1>. A!TypeOK /\ RequestsInv /\ LinksInv /\ LeftInv /\ OwnedInv
  BY DEF AccountsInv
<1>1. A!TypeOK' /\ RequestsInv' /\ LinksInv' /\ LeftInv' /\ OwnedInv'
  BY AccountsTyped, RequestsKept, OwnedKept
<1>2. ASSUME ~damaged' PROVE FiledInv' /\ AskedInv' /\ A!RowSaysTrue'
  <2>1. ~damaged
    BY <1>2, DamageStays
  <2>2. FiledInv /\ AskedInv /\ A!RowSaysTrue
    BY <2>1 DEF AccountsInv
  <2>. QED
    BY <1>2, <2>1, <2>2, FiledKept, RowsKept
<1>. QED
  BY <1>1, <1>2 DEF AccountsInv

LEMMA AccountsSound == AccountsInv => AccountsAreSound
<1>. SUFFICES ASSUME AccountsInv PROVE AccountsAreSound
  OBVIOUS
<1>. A!TypeOK /\ RequestsInv /\ LinksInv /\ OwnedInv
  BY DEF AccountsInv
<1>1. A!LinkUsedOnce
  BY DEF LinksInv, A!LinkUsedOnce
<1>2. A!OneRecord
  BY DEF AccountsInv, FiledInv, File, Storing, A!OneRecord
<1>3. A!RowSaysTrue
  BY DEF AccountsInv, A!RowSaysTrue
<1>4. A!OwnTokens
  <2>1. ASSUME NEW u \in Users, NEW n \in Nicks, cache[u][n] # 0, NEW m \in Nicks \ {n}
        PROVE  cache[u][n] # row[m].of
    <3>1. cache[u][n] \in 1 .. MaxGrants
      BY <2>1, AccountsAssumed DEF A!AccountsAssumption, A!TypeOK, A!Grants
    <3>. QED
      BY <2>1, <3>1 DEF OwnedInv, Holds
  <2>. QED
    BY <2>1 DEF A!OwnTokens
<1>. QED
  BY <1>1, <1>2, <1>3, <1>4 DEF AccountsAreSound

-----------------------------------------------------------------------------
(* Lists.                                                                  *)

LEMMA Lowest ==
  ASSUME NEW T \in SUBSET Nat, T # {} PROVE \E m \in T : \A x \in T : m <= x
<1>. DEFINE Below == {ss \in Nat \X Nat : ss[1] < ss[2]}
<1>1. IsWellFoundedOn(Below, Nat)
  BY NatLessThanWellFounded DEF OpToRel
<1>2. ASSUME NEW x \in Nat, NEW m \in Nat, x < m PROVE <<x, m>> \in Below
  <2>1. <<x, m>> \in Nat \X Nat /\ <<x, m>>[1] = x /\ <<x, m>>[2] = m
    OBVIOUS
  <2>. QED
    BY <1>2, <2>1
<1>. HIDE DEF Below
<1>3. PICK m \in T : \A x \in T : ~ (<<x, m>> \in Below)
  BY <1>1, WFMin
<1>4. ASSUME NEW x \in T PROVE m <= x
  <2>1. ~ (x < m)
    BY <1>2, <1>3
  <2>. QED
    BY <2>1
<1>. QED
  BY <1>4

\* The latest of some lists is one of them.
LEMMA LatestIsOne ==
  ASSUME NEW n \in Nat, NEW S \in SUBSET (1 .. n), S # {} PROVE L!Max(S) \in S
<1>. DEFINE T == {n - x : x \in S}
<1>1. T \in SUBSET Nat /\ T # {}
  <2>1. ASSUME NEW x \in S PROVE n - x \in Nat
    OBVIOUS
  <2>. QED
    BY <2>1
<1>2. PICK m \in T : \A y \in T : m <= y
  BY <1>1, Lowest
<1>3. PICK x \in S : m = n - x
  BY <1>2
<1>4. ASSUME NEW y \in S PROVE x >= y
  <2>1. n - y \in T
    OBVIOUS
  <2>2. n - x <= n - y
    BY <1>2, <1>3, <2>1
  <2>. QED
    BY <2>2
<1>. QED
  BY <1>4 DEF L!Max

\* A list of items one after the other keeps those it had.
LEMMA Grown ==
  ASSUME NEW S, NEW s \in Seq(S), NEW t \in Seq(S)
  PROVE  /\ s \o t \in Seq(S) /\ Len(s \o t) = Len(s) + Len(t)
         /\ DOMAIN (s \o t) = 1 .. Len(s) + Len(t)
         /\ \A i \in DOMAIN s : i \in DOMAIN (s \o t) /\ (s \o t)[i] = s[i]
         /\ \A i \in DOMAIN (s \o t) \ DOMAIN s : i - Len(s) \in DOMAIN t /\ (s \o t)[i] = t[i - Len(s)]
  OBVIOUS

LEMMA ListsAssumed ==
  /\ Template \in Seq(Lines) /\ MaxLists \in Nat \ {0} /\ MaxEdits \in Nat /\ MaxBroken \in Nat
  BY OwnersDeskAssumption DEF L!ChecklistsAssumption

ItemShape == [list : Nat, line : Lines, done : BOOLEAN, asked : {"no", "now", "long"}, waited : BOOLEAN, from : Nat]
Fits(it, n, i) == it \in ItemShape /\ it.list <= n /\ it.from < i

\* Everything that is kept of lists and items has its type.
ItemsTyped ==
  /\ lists \in Seq({"open", "closed", "expired"}) /\ Len(lists) \in 1 .. MaxLists
  /\ items \in Seq(ItemShape) /\ \A i \in DOMAIN items : Fits(items[i], Len(lists), i)
HookTyped ==
  /\ hook \in [at : {"rest", "made", "read"}, new : Nat, prev : Nat, open : Seq(Nat)]
  /\ hook.new <= Len(lists) /\ hook.prev <= Len(lists)
  /\ hook.at # "rest" => hook.new > 1
  /\ hook.at # "read" => hook.open = <<>>
  /\ \A j \in DOMAIN hook.open : hook.open[j] \in DOMAIN items
InsertingTyped ==
  inserting = L!Nothing \/ inserting \in [list : DOMAIN lists, line : Lines, from : {0} \cup DOMAIN items]
SetsTyped ==
  /\ policy \in Policies
  /\ questions \subseteq DOMAIN items /\ dropped \subseteq DOMAIN items /\ told \subseteq DOMAIN items
  /\ behind \subseteq DOMAIN items /\ rolled \subseteq DOMAIN lists
  /\ unmade \in BOOLEAN /\ edits \in 0 .. MaxEdits /\ broken \in 0 .. MaxBroken
ListsTyped == ItemsTyped /\ HookTyped /\ InsertingTyped /\ SetsTyped

LEMMA ItemFits ==
  ASSUME NEW k \in Nat, NEW line \in Lines, NEW from \in Nat, NEW i, from < i
  PROVE  Fits(L!Item(k, line, from), k, i)
  BY DEF Fits, ItemShape, L!Item

\* A copy of the template.
LEMMA CopiedFits ==
  ASSUME NEW k \in Nat
  PROVE  /\ L!Copied(k) \in Seq(ItemShape)
         /\ \A j \in DOMAIN L!Copied(k) : \A i \in Nat \ {0} : Fits(L!Copied(k)[j], k, i)
         /\ Len(L!Copied(k)) = Len(Template)
<1>1. ASSUME NEW j \in DOMAIN Template, NEW i \in Nat \ {0} PROVE Fits(L!Item(k, Template[j], 0), k, i)
  BY ListsAssumed, ItemFits
<1>2. ASSUME NEW j \in DOMAIN Template PROVE L!Item(k, Template[j], 0) \in ItemShape
  BY <1>1 DEF Fits
<1>. QED
  BY <1>1, <1>2, ListsAssumed DEF L!Copied

\* Lists and items that are added at the end.
LEMMA ItemsAdded ==
  ASSUME ItemsTyped, NEW n \in Nat, n >= Len(lists), NEW fresh \in Seq(ItemShape),
         \A j \in DOMAIN fresh : Fits(fresh[j], n, Len(items) + j)
  PROVE  items \o fresh \in Seq(ItemShape) /\ \A i \in DOMAIN (items \o fresh) : Fits((items \o fresh)[i], n, i)
<1>. DEFINE all == items \o fresh
<1>1. items \in Seq(ItemShape) /\ Len(items) \in Nat /\ DOMAIN items = 1 .. Len(items)
  BY DEF ItemsTyped
<1>2. /\ all \in Seq(ItemShape) /\ \A i \in DOMAIN items : all[i] = items[i]
      /\ \A i \in DOMAIN all \ DOMAIN items : i \in Nat /\ i - Len(items) \in DOMAIN fresh /\ all[i] = fresh[i - Len(items)]
  BY <1>1, Grown
<1>. HIDE DEF all
<1>3. ASSUME NEW i \in DOMAIN items PROVE Fits(all[i], n, i)
  <2>1. all[i] = items[i] /\ Fits(items[i], Len(lists), i)
    BY <1>2 DEF ItemsTyped
  <2>2. items[i].list \in Nat /\ Len(lists) \in Nat
    BY <2>1 DEF Fits, ItemShape, ItemsTyped
  <2>. QED
    BY <2>1, <2>2 DEF Fits
<1>4. ASSUME NEW i \in DOMAIN all \ DOMAIN items PROVE Fits(all[i], n, i)
  <2>1. Fits(fresh[i - Len(items)], n, Len(items) + (i - Len(items)))
    BY <1>2
  <2>2. Len(items) + (i - Len(items)) = i
    BY <1>1, <1>2
  <2>. QED
    BY <2>1, <2>2, <1>2
<1>. QED
  BY <1>2, <1>3, <1>4 DEF all

\* Items that are changed where they are.
LEMMA ItemsChanged ==
  ASSUME ItemsTyped, Len(lists') = Len(lists), lists' \in Seq({"open", "closed", "expired"}),
         DOMAIN items' = DOMAIN items, items' \in Seq(ItemShape),
         \A i \in DOMAIN items : items'[i].list \in {0, items[i].list} /\ items'[i].from = items[i].from
  PROVE  ItemsTyped'
<1>1. ASSUME NEW i \in DOMAIN items' PROVE Fits(items'[i], Len(lists'), i)
  <2>1. Fits(items[i], Len(lists), i) /\ items'[i] \in ItemShape
    BY DEF ItemsTyped
  <2>2. items[i].list \in Nat /\ items[i].list <= Len(lists) /\ items[i].from < i /\ Len(lists) \in Nat
    BY <2>1 DEF Fits, ItemShape, ItemsTyped
  <2>3. items'[i].list <= Len(lists') /\ items'[i].from < i
    BY <2>2
  <2>. QED
    BY <2>1, <2>3 DEF Fits
<1>. QED
  BY <1>1 DEF ItemsTyped

LEMMA NewListTyped ==
  ASSUME ItemsTyped, L!NewList
  PROVE  /\ ItemsTyped' /\ lists' = Append(lists, "open") /\ Len(lists') = Len(lists) + 1
         /\ DOMAIN items \subseteq DOMAIN items' /\ \A i \in DOMAIN items : items'[i] = items[i]
         /\ \A i \in DOMAIN items' \ DOMAIN items : \E j \in DOMAIN Template : items'[i] = L!Item(Len(lists) + 1, Template[j], 0)
<1>. DEFINE k   == Len(lists) + 1
            fresh == L!Copied(k)
<1>1. /\ lists' = Append(lists, "open") /\ items' = items \o fresh /\ Len(lists) < MaxLists
  BY DEF L!NewList, L!Room
<1>2. k \in Nat /\ lists' \in Seq({"open", "closed", "expired"}) /\ Len(lists') = k /\ k \in 1 .. MaxLists /\ k >= Len(lists)
  BY <1>1, ListsAssumed DEF ItemsTyped
<1>3. /\ fresh \in Seq(ItemShape) /\ items \in Seq(ItemShape) /\ DOMAIN fresh = DOMAIN Template
      /\ \A j \in DOMAIN fresh : fresh[j] = L!Item(k, Template[j], 0)
  BY <1>2, CopiedFits, ListsAssumed DEF ItemsTyped, L!Copied
<1>4. ASSUME NEW j \in DOMAIN fresh PROVE Fits(fresh[j], k, Len(items) + j)
  <2>1. Len(items) + j \in Nat \ {0}
    BY <1>3
  <2>. QED
    BY <2>1, <1>2, CopiedFits
<1>. HIDE DEF fresh, k
<1>5. items' \in Seq(ItemShape) /\ \A i \in DOMAIN items' : Fits(items'[i], k, i)
  BY <1>1, <1>2, <1>3, <1>4, ItemsAdded
<1>6. ItemsTyped'
  BY <1>2, <1>5 DEF ItemsTyped
<1>7. /\ DOMAIN items \subseteq DOMAIN items' /\ \A i \in DOMAIN items : items'[i] = items[i]
      /\ \A i \in DOMAIN items' \ DOMAIN items : i - Len(items) \in DOMAIN fresh /\ items'[i] = fresh[i - Len(items)]
  BY <1>1, <1>3, Grown
<1>. QED
  BY <1>1, <1>2, <1>3, <1>6, <1>7 DEF k

\* What is kept besides keeps its type as lists and items get more.
Wider == ItemsTyped' /\ DOMAIN lists \subseteq DOMAIN lists' /\ DOMAIN items \subseteq DOMAIN items'
LEMMA HookWider == HookTyped /\ Wider /\ ItemsTyped /\ UNCHANGED hook => HookTyped'
<1>. SUFFICES ASSUME HookTyped, Wider, ItemsTyped, UNCHANGED hook PROVE HookTyped'
  OBVIOUS
<1>1. Len(lists) <= Len(lists') /\ Len(lists) \in Nat /\ Len(lists') \in Nat
  <2>1. Len(lists) \in DOMAIN lists /\ Len(lists) \in Nat /\ DOMAIN lists' = 1 .. Len(lists') /\ Len(lists') \in Nat
    BY DEF ItemsTyped, Wider
  <2>. QED
    BY <2>1 DEF Wider
<1>. QED
  BY <1>1 DEF HookTyped, Wider
LEMMA RestFits == L!AtRest \in [at : {"rest", "made", "read"}, new : Nat, prev : Nat, open : Seq(Nat)]
  BY DEF L!AtRest
LEMMA HookRests == ItemsTyped' /\ hook' = L!AtRest => HookTyped'
<1>. SUFFICES ASSUME ItemsTyped', hook' = L!AtRest PROVE HookTyped'
  OBVIOUS
<1>1. Len(lists') \in Nat
  BY DEF ItemsTyped
<1>2. hook'.at = "rest" /\ hook'.new = 0 /\ hook'.prev = 0 /\ hook'.open = <<>>
  BY DEF L!AtRest
<1>3. DOMAIN hook'.open = {}
  BY <1>2
<1>. QED
  BY <1>1, <1>2, <1>3, RestFits DEF HookTyped
LEMMA InsertingWider == InsertingTyped /\ Wider /\ UNCHANGED inserting => InsertingTyped'
  BY DEF InsertingTyped, Wider
LEMMA SetsWider ==
  /\ SetsTyped /\ Wider
  /\ UNCHANGED <<policy, questions, dropped, told, behind, rolled, unmade, edits, broken>>
  => SetsTyped'
  BY DEF SetsTyped, Wider

LEMMA ItemOf ==
  ASSUME ItemsTyped, NEW i \in DOMAIN items
  PROVE  /\ items[i] \in ItemShape /\ i \in Nat /\ items[i].list \in 0 .. Len(lists) /\ items[i].from \in Nat
         /\ items[i].list # 0 => items[i].list \in DOMAIN lists
  BY DEF ItemsTyped, Fits, ItemShape

\* A written item is where it was, or removed.
Like(fresh, it) == fresh \in ItemShape /\ fresh.list \in {0, it.list} /\ fresh.from = it.from
LEMMA ItemWrites ==
  ASSUME NEW it \in ItemShape
  PROVE  /\ Like([it EXCEPT !.done = TRUE], it) /\ Like([it EXCEPT !.done = FALSE], it)
         /\ Like([it EXCEPT !.asked = "now"], it) /\ Like([it EXCEPT !.asked = "no"], it)
         /\ Like([it EXCEPT !.asked = "long", !.waited = TRUE], it)
         /\ Like([it EXCEPT !.list = 0], it) /\ \A line \in Lines : Like([it EXCEPT !.line = line], it)
  BY DEF ItemShape, Like

\* Ticked, and the list perhaps closed.
LEMMA DoneTyped ==
  ASSUME ItemsTyped, NEW i \in DOMAIN items, items[i].list # 0, L!Done(i)
  PROVE  ItemsTyped' /\ DOMAIN items' = DOMAIN items /\ DOMAIN lists' = DOMAIN lists
<1>1. items' = [items EXCEPT ![i] = [items[i] EXCEPT !.done = TRUE]]
  BY DEF L!Done
<1>. DEFINE it == [items[i] EXCEPT !.done = TRUE]
<1>0. items[i] \in ItemShape
  BY ItemOf
<1>2. it \in ItemShape
  BY <1>0, ItemWrites DEF Like
<1>3. it.list = items[i].list /\ it.from = items[i].from
  BY <1>0 DEF ItemShape
<1>. HIDE DEF it
<1>4. /\ DOMAIN items' = DOMAIN items /\ items' \in Seq(ItemShape)
      /\ \A j \in DOMAIN items : items'[j].list \in {0, items[j].list} /\ items'[j].from = items[j].from
  <2>1. items' = [items EXCEPT ![i] = it] /\ items \in Seq(ItemShape) /\ it \in ItemShape
    BY <1>1, <1>2 DEF ItemsTyped, it
  <2>2. DOMAIN items' = DOMAIN items /\ items' \in Seq(ItemShape)
    BY <2>1
  <2>3. \A j \in DOMAIN items : items'[j] = IF j = i THEN it ELSE items[j]
    BY <2>1
  <2>. QED
    BY <1>3, <2>2, <2>3
<1>5. lists' \in Seq({"open", "closed", "expired"}) /\ Len(lists') = Len(lists) /\ DOMAIN lists' = DOMAIN lists
  <2>1. lists \in Seq({"open", "closed", "expired"})
    BY DEF ItemsTyped
  <2>2. lists' = lists \/ \E k : lists' = [lists EXCEPT ![k] = "closed"]
    BY DEF L!Done
  <2>. QED
    BY <2>1, <2>2
<1>. QED
  BY <1>4, <1>5, ItemsChanged

\* Lists expired.
LEMMA ExpiredTyped ==
  ASSUME ItemsTyped, NEW ks
  PROVE  /\ L!Expired(ks) \in Seq({"open", "closed", "expired"})
         /\ Len(L!Expired(ks)) = Len(lists) /\ DOMAIN L!Expired(ks) = DOMAIN lists
         /\ \A k \in DOMAIN lists : L!Expired(ks)[k] = IF k \in ks THEN "expired" ELSE lists[k]
  BY DEF L!Expired, ItemsTyped

\* The item of a question that is answered, or of one that was carried.
Rewritten(i, it) == items' = [items EXCEPT ![i] = it] /\ UNCHANGED lists
LEMMA RewrittenTyped ==
  ASSUME ItemsTyped, NEW i \in DOMAIN items, NEW it, Rewritten(i, it), Like(it, items[i])
  PROVE  ItemsTyped' /\ DOMAIN items' = DOMAIN items /\ DOMAIN lists' = DOMAIN lists
<1>1. /\ DOMAIN items' = DOMAIN items /\ items' \in Seq(ItemShape)
      /\ \A j \in DOMAIN items : items'[j].list \in {0, items[j].list} /\ items'[j].from = items[j].from
  BY DEF ItemsTyped, Rewritten, Like
<1>2. lists' \in Seq({"open", "closed", "expired"}) /\ Len(lists') = Len(lists) /\ DOMAIN lists' = DOMAIN lists
  BY DEF Rewritten, ItemsTyped
<1>. QED
  BY <1>1, <1>2, ItemsChanged

\* Questions asked, or waited for.
Asks(S, it(_)) == items' = [i \in DOMAIN items |-> IF i \in S THEN it(items[i]) ELSE items[i]]
Now(it)  == [it EXCEPT !.asked = "now"]
Long(it) == [it EXCEPT !.asked = "long", !.waited = TRUE]
LEMMA AskedTyped ==
  ASSUME ItemsTyped, UNCHANGED lists, NEW S,
         Asks(S, Now) \/ Asks(S, Long)
  PROVE  ItemsTyped' /\ DOMAIN items' = DOMAIN items /\ DOMAIN lists' = DOMAIN lists
<1>1. ASSUME NEW i \in DOMAIN items
      PROVE  /\ Now(items[i]) \in ItemShape /\ Now(items[i]).list = items[i].list /\ Now(items[i]).from = items[i].from
             /\ Long(items[i]) \in ItemShape /\ Long(items[i]).list = items[i].list /\ Long(items[i]).from = items[i].from
  BY ItemOf DEF Now, Long, ItemShape
<1>2. /\ DOMAIN items' = DOMAIN items /\ items' \in Seq(ItemShape)
      /\ \A j \in DOMAIN items : items'[j].list \in {0, items[j].list} /\ items'[j].from = items[j].from
  <2>1. CASE Asks(S, Now)
    BY <1>1, <2>1 DEF Asks, ItemsTyped
  <2>2. CASE Asks(S, Long)
    BY <1>1, <2>2 DEF Asks, ItemsTyped
  <2>. QED
    BY <2>1, <2>2
<1>3. lists' \in Seq({"open", "closed", "expired"}) /\ Len(lists') = Len(lists) /\ DOMAIN lists' = DOMAIN lists
  BY DEF ItemsTyped
<1>. QED
  BY <1>2, <1>3, ItemsChanged

LEMMA WiderLists == Wider => Len(lists') \in Nat
  BY DEF Wider, ItemsTyped

LEMMA FireTyped == ListsTyped /\ (L!FireRecurrence \/ L!Instantiate) => ListsTyped' /\ Wider
<1>. SUFFICES ASSUME ListsTyped, L!FireRecurrence \/ L!Instantiate PROVE ListsTyped' /\ Wider
  OBVIOUS
<1>. ItemsTyped /\ HookTyped /\ InsertingTyped /\ SetsTyped
  BY DEF ListsTyped
<1>1. UNCHANGED <<policy, inserting, questions, dropped, told, behind, rolled, edits, broken>>
  BY DEF L!FireRecurrence, L!Instantiate
<1>2. \/ L!NewList /\ UNCHANGED <<unmade, hook>>
      \/ L!NewList /\ UNCHANGED unmade /\ hook' = [L!AtRest EXCEPT !.at = "made", !.new = Len(lists) + 1]
      \/ UNCHANGED <<lists, items, hook>> /\ unmade' = TRUE
  BY DEF L!FireRecurrence, L!Instantiate
<1>3. ASSUME L!NewList
      PROVE  Wider /\ InsertingTyped' /\ Len(lists') = Len(lists) + 1 /\ Len(lists) \in Nat /\ Len(lists) >= 1
  <2>1. DOMAIN lists \subseteq DOMAIN lists'
    BY <1>3, NewListTyped DEF ItemsTyped
  <2>2. Wider /\ Len(lists') = Len(lists) + 1 /\ Len(lists) \in Nat /\ Len(lists) >= 1
    BY <1>3, <2>1, NewListTyped DEF Wider, ItemsTyped
  <2>. QED
    BY <1>1, <2>2, InsertingWider
<1>4. CASE L!NewList /\ UNCHANGED <<unmade, hook>>
  BY <1>1, <1>3, <1>4, HookWider, SetsWider DEF ListsTyped, Wider
<1>5. CASE L!NewList /\ UNCHANGED unmade /\ hook' = [L!AtRest EXCEPT !.at = "made", !.new = Len(lists) + 1]
  <2>1. hook' = [at |-> "made", new |-> Len(lists) + 1, prev |-> 0, open |-> <<>>]
    BY <1>5 DEF L!AtRest
  <2>2. Len(lists) + 1 \in Nat /\ Len(lists) + 1 > 1
    BY <1>3, <1>5
  <2>3. HookTyped'
    <3>1. hook' \in [at : {"rest", "made", "read"}, new : Nat, prev : Nat, open : Seq(Nat)]
      BY <2>1, <2>2
    <3>2. DOMAIN hook'.open = {} /\ hook'.open = <<>> /\ hook'.at = "made"
      BY <2>1
    <3>3. hook'.new = Len(lists) + 1 /\ hook'.prev = 0 /\ Len(lists') = Len(lists) + 1 /\ Len(lists) \in Nat
      <4>1. Len(lists') = Len(lists) + 1 /\ Len(lists) \in Nat
        BY <1>3, <1>5
      <4>. QED
        BY <2>1, <4>1
    <3>4. hook'.new <= Len(lists') /\ hook'.prev <= Len(lists') /\ hook'.new > 1
      BY <3>3, <2>2
    <3>. QED
      BY <3>1, <3>2, <3>4 DEF HookTyped
  <2>. QED
    BY <1>1, <1>3, <1>5, <2>3, SetsWider DEF ListsTyped, Wider
<1>6. CASE UNCHANGED <<lists, items, hook>> /\ unmade' = TRUE
  <2>1. Wider
    BY <1>6 DEF Wider, ItemsTyped
  <2>2. InsertingTyped' /\ HookTyped' /\ ItemsTyped'
    BY <1>1, <1>6, <2>1, HookWider, InsertingWider DEF Wider
  <2>3. unmade' \in BOOLEAN
    BY <1>6
  <2>4. SetsTyped'
    BY <1>1, <1>6, <2>3 DEF SetsTyped
  <2>. QED
    BY <2>1, <2>2, <2>4 DEF ListsTyped
<1>. QED
  BY <1>2, <1>4, <1>5, <1>6

LEMMA UndoneItems ==
  ASSUME ItemsTyped, NEW k
  PROVE  L!Undone(k) \subseteq DOMAIN items /\ L!Cardinality(L!Undone(k)) \in Nat
<1>1. L!Undone(k) \subseteq 1 .. Len(items) /\ Len(items) \in Nat
  BY DEF L!Undone, L!On, ItemsTyped
<1>2. IsFiniteSet(1 .. Len(items))
  BY <1>1, FS_Interval
<1>3. IsFiniteSet(L!Undone(k))
  BY <1>1, <1>2, FS_Subset
<1>4. Cardinality(L!Undone(k)) \in Nat
  BY <1>3, FS_CardinalityType
<1>5. L!Cardinality(L!Undone(k)) = Cardinality(L!Undone(k))
  BY DEF L!Cardinality, Cardinality
<1>. QED
  BY <1>1, <1>4, <1>5 DEF ItemsTyped

\* What ReadPrevious finds.
ReadsOpen(prev, open) ==
  /\ hook' = [hook EXCEPT !.at = "read", !.prev = prev, !.open = open]
  /\ open \in Seq(Nat) /\ L!Range(open) = L!Undone(prev)
LEMMA PreviousRead ==
  ASSUME ListsTyped, L!ReadPrevious
  PROVE  \E prev \in DOMAIN lists :
           /\ rolled' = rolled \cup {prev}
           /\ \/ hook' = L!AtRest
              \/ \E open : ReadsOpen(prev, open)
<1>. DEFINE S    == (DOMAIN lists) \ {hook.new}
            prev == L!Max(S)
<1>1. ItemsTyped /\ HookTyped
  BY DEF ListsTyped
<1>2. 1 \in S /\ S \subseteq 1 .. Len(lists) /\ Len(lists) \in Nat
  <2>1. hook.new > 1 /\ hook.new \in Nat
    BY <1>1 DEF HookTyped, L!ReadPrevious
  <2>2. 1 \in DOMAIN lists /\ DOMAIN lists = 1 .. Len(lists) /\ Len(lists) \in Nat
    BY <1>1 DEF ItemsTyped
  <2>. QED
    BY <2>1, <2>2
<1>3. prev \in DOMAIN lists
  BY <1>2, LatestIsOne
<1>4. /\ rolled' = rolled \cup {prev}
      /\ \/ hook' = L!AtRest
         \/ \E open \in L!Sorted(L!Undone(prev)) : hook' = [hook EXCEPT !.at = "read", !.prev = prev, !.open = open]
  BY DEF L!ReadPrevious
<1>. HIDE DEF prev
<1>5. ASSUME NEW open \in L!Sorted(L!Undone(prev)) PROVE open \in Seq(Nat) /\ L!Range(open) = L!Undone(prev)
  <2>1. open \in [1 .. L!Cardinality(L!Undone(prev)) -> L!Undone(prev)] /\ L!Range(open) = L!Undone(prev)
    BY DEF L!Sorted
  <2>2. L!Undone(prev) \subseteq Nat
    BY <1>1, UndoneItems DEF ItemsTyped
  <2>. QED
    BY <1>1, <2>1, <2>2, UndoneItems
<1>. QED
  BY <1>3, <1>4, <1>5 DEF ReadsOpen

LEMMA ReadTyped == ListsTyped /\ L!ReadPrevious => ListsTyped' /\ Wider
<1>. SUFFICES ASSUME ListsTyped, L!ReadPrevious PROVE ListsTyped' /\ Wider
  OBVIOUS
<1>. ItemsTyped /\ HookTyped /\ InsertingTyped /\ SetsTyped
  BY DEF ListsTyped
<1>1. PICK prev \in DOMAIN lists : rolled' = rolled \cup {prev} /\ (hook' = L!AtRest \/ \E open : ReadsOpen(prev, open))
  BY PreviousRead
<1>2. ItemsTyped' /\ UNCHANGED <<lists, items, policy, inserting, questions, dropped, told, behind, unmade, edits, broken>>
  <2>1. UNCHANGED <<lists, items, policy, inserting, questions, dropped, told, behind, unmade, edits, broken>>
    BY DEF L!ReadPrevious
  <2>. QED
    BY <2>1 DEF ItemsTyped
<1>3. Wider /\ SetsTyped' /\ InsertingTyped'
  BY <1>1, <1>2 DEF SetsTyped, Wider, InsertingTyped
<1>4. ASSUME NEW open, ReadsOpen(prev, open) PROVE HookTyped'
  <2>1. hook'.at = "read" /\ hook'.new = hook.new /\ hook'.prev = prev /\ hook'.open = open /\ hook.at = "made"
    BY <1>4 DEF ReadsOpen, HookTyped, L!ReadPrevious
  <2>2. hook' \in [at : {"rest", "made", "read"}, new : Nat, prev : Nat, open : Seq(Nat)]
    <3>1. prev \in Nat /\ open \in Seq(Nat)
      BY <1>4 DEF ReadsOpen, ItemsTyped
    <3>2. hook' = [hook EXCEPT !.at = "read", !.prev = prev, !.open = open]
      BY <1>4 DEF ReadsOpen
    <3>. QED
      BY <3>1, <3>2 DEF HookTyped
  <2>3. \A j \in DOMAIN open : open[j] \in DOMAIN items
    BY <1>4, UndoneItems DEF ReadsOpen, L!Range
  <2>4. prev <= Len(lists)
    BY DEF ItemsTyped
  <2>. QED
    BY <1>2, <2>1, <2>2, <2>3, <2>4 DEF HookTyped
<1>5. HookTyped'
  BY <1>1, <1>2, <1>4, HookRests
<1>. QED
  BY <1>2, <1>3, <1>5 DEF ListsTyped

\* What the rollover carries.
Carries(it) ==
  /\ items' = items \o [j \in DOMAIN hook.open |-> L!Item(hook.new, items[hook.open[j]].line, hook.open[j])]
  /\ it = [j \in DOMAIN hook.open |-> L!Item(hook.new, items[hook.open[j]].line, hook.open[j])]
LEMMA CarriedTyped ==
  ASSUME ItemsTyped, HookTyped, hook.at = "read", NEW fresh, Carries(fresh)
  PROVE  /\ fresh \in Seq(ItemShape) /\ DOMAIN fresh = DOMAIN hook.open
         /\ \A j \in DOMAIN fresh : fresh[j] = L!Item(hook.new, items[hook.open[j]].line, hook.open[j])
         /\ items' \in Seq(ItemShape) /\ \A i \in DOMAIN items' : Fits(items'[i], Len(lists), i)
         /\ DOMAIN items \subseteq DOMAIN items' /\ \A i \in DOMAIN items : items'[i] = items[i]
         /\ \A i \in DOMAIN items' \ DOMAIN items : i - Len(items) \in DOMAIN fresh /\ items'[i] = fresh[i - Len(items)]
         /\ Len(items') = Len(items) + Len(fresh)
<1>. DEFINE N == Len(items)
            O == hook.open
<1>1. /\ N \in Nat /\ DOMAIN items = 1 .. N /\ items \in Seq(ItemShape)
      /\ O \in Seq(Nat) /\ hook.new \in Nat /\ hook.new <= Len(lists) /\ Len(lists) \in Nat
  BY DEF ItemsTyped, HookTyped
<1>2. ASSUME NEW j \in DOMAIN O
      PROVE  /\ L!Item(hook.new, items[O[j]].line, O[j]) \in ItemShape
             /\ Fits(L!Item(hook.new, items[O[j]].line, O[j]), Len(lists), N + j)
  <2>1. O[j] \in DOMAIN items /\ O[j] \in Nat /\ j \in Nat /\ j >= 1
    BY <1>1 DEF HookTyped
  <2>2. items[O[j]].line \in Lines
    BY <2>1, ItemOf DEF ItemShape
  <2>3. O[j] < N + j
    BY <1>1, <2>1
  <2>4. Fits(L!Item(hook.new, items[O[j]].line, O[j]), hook.new, N + j)
    BY <1>1, <2>1, <2>2, <2>3, ItemFits
  <2>. QED
    BY <1>1, <2>4 DEF Fits, ItemShape
<1>3. /\ fresh \in Seq(ItemShape) /\ DOMAIN fresh = DOMAIN O
      /\ \A j \in DOMAIN fresh : fresh[j] = L!Item(hook.new, items[O[j]].line, O[j])
      /\ items' = items \o fresh
  <2>1. fresh = [j \in DOMAIN O |-> L!Item(hook.new, items[O[j]].line, O[j])] /\ items' = items \o fresh
    BY DEF Carries
  <2>2. DOMAIN O = 1 .. Len(O) /\ Len(O) \in Nat
    BY <1>1
  <2>. HIDE DEF O
  <2>. QED
    BY <1>2, <2>1, <2>2
<1>4. items' \in Seq(ItemShape) /\ \A i \in DOMAIN items' : Fits(items'[i], Len(lists), i)
  <2>1. ASSUME NEW j \in DOMAIN fresh PROVE Fits(fresh[j], Len(lists), Len(items) + j)
    BY <1>2, <1>3
  <2>2. Len(lists) \in Nat /\ Len(lists) >= Len(lists) /\ fresh \in Seq(ItemShape)
    BY <1>1, <1>3
  <2>3. items \o fresh \in Seq(ItemShape) /\ \A i \in DOMAIN (items \o fresh) : Fits((items \o fresh)[i], Len(lists), i)
    BY <2>1, <2>2, ItemsAdded
  <2>. QED
    BY <1>3, <2>3
<1>5. /\ DOMAIN items \subseteq DOMAIN items' /\ \A i \in DOMAIN items : items'[i] = items[i]
      /\ \A i \in DOMAIN items' \ DOMAIN items : i - Len(items) \in DOMAIN fresh /\ items'[i] = fresh[i - Len(items)]
      /\ Len(items') = Len(items) + Len(fresh)
  BY <1>1, <1>3, Grown
<1>. QED
  BY <1>3, <1>4, <1>5

LEMMA RolloverTyped == ListsTyped /\ L!Rollover => ListsTyped' /\ Wider
<1>. SUFFICES ASSUME ListsTyped, L!Rollover PROVE ListsTyped' /\ Wider
  OBVIOUS
<1>. ItemsTyped /\ HookTyped /\ InsertingTyped /\ SetsTyped
  BY DEF ListsTyped
<1>. DEFINE open == L!Range(hook.open)
<1>1. hook.at = "read" /\ hook' = L!AtRest /\ UNCHANGED <<policy, inserting, dropped, rolled, unmade, edits, broken>>
  BY DEF L!Rollover
<1>2. open \subseteq DOMAIN items
  BY DEF HookTyped, L!Range
<1>3. ASSUME ItemsTyped', DOMAIN lists' = DOMAIN lists, DOMAIN items \subseteq DOMAIN items',
             questions' \subseteq DOMAIN items', told' \subseteq DOMAIN items', behind' \subseteq DOMAIN items'
      PROVE  ListsTyped' /\ Wider
  <2>1. Wider
    BY <1>3 DEF Wider
  <2>2. SetsTyped'
    BY <1>1, <1>3 DEF SetsTyped
  <2>. QED
    BY <1>1, <1>3, <2>1, <2>2, HookRests, InsertingWider DEF ListsTyped
<1>4. CASE lists' = L!Expired({hook.prev}) /\ UNCHANGED <<items, questions, behind>> /\ told' \in {told, told \cup open}
  <2>1. ItemsTyped' /\ DOMAIN lists' = DOMAIN lists
    BY <1>4, ExpiredTyped DEF ItemsTyped
  <2>. QED
    BY <1>2, <1>3, <1>4, <2>1 DEF SetsTyped
<1>5. ASSUME NEW fresh, Carries(fresh), lists' = L!Expired({hook.prev}), UNCHANGED <<questions, told>>,
             behind' \in {behind, behind \cup (DOMAIN items' \ DOMAIN items)}
      PROVE  ListsTyped' /\ Wider
  <2>1. ItemsTyped' /\ DOMAIN lists' = DOMAIN lists /\ DOMAIN items \subseteq DOMAIN items'
    BY <1>1, <1>5, CarriedTyped, ExpiredTyped DEF ItemsTyped
  <2>. QED
    BY <1>3, <1>5, <2>1 DEF SetsTyped
<1>6. CASE L!Asking /\ Asks(open, Now) /\ UNCHANGED <<lists, told, behind>>
  <2>1. ItemsTyped' /\ DOMAIN lists' = DOMAIN lists /\ DOMAIN items' = DOMAIN items
    BY <1>6, AskedTyped
  <2>2. questions' \subseteq DOMAIN items
    BY <1>2, <1>6 DEF SetsTyped, L!Asking
  <2>. QED
    BY <1>3, <1>6, <2>1, <2>2 DEF SetsTyped
<1>7. \/ lists' = L!Expired({hook.prev}) /\ UNCHANGED <<items, questions, behind>> /\ told' \in {told, told \cup open}
      \/ /\ \E fresh : Carries(fresh)
         /\ lists' = L!Expired({hook.prev}) /\ UNCHANGED <<questions, told>>
         /\ behind' \in {behind, behind \cup (DOMAIN items' \ DOMAIN items)}
      \/ L!Asking /\ Asks(open, Now) /\ UNCHANGED <<lists, told, behind>>
  BY DEF L!Rollover, Carries, Asks, Now
<1>. QED
  BY <1>4, <1>5, <1>6, <1>7

\* The owner's requests that touch one item at most.
LEMMA RequestTyped ==
  ASSUME ListsTyped,
         \/ \E i \in DOMAIN items : L!Check(i) \/ L!Uncheck(i) \/ L!PressDone(i) \/ L!PressDrop(i) \/ L!PressCarry(i)
         \/ \E line \in Lines : L!AddItem(line) \/ \E h \in Hints : L!UpdateItem(h, line)
         \/ \E h \in Hints : L!RemoveItem(h)
  PROVE  ListsTyped' /\ Wider
<1>. ItemsTyped /\ HookTyped /\ InsertingTyped /\ SetsTyped
  BY DEF ListsTyped
<1>1. ASSUME ItemsTyped', DOMAIN lists' = DOMAIN lists, DOMAIN items' = DOMAIN items, UNCHANGED <<hook, inserting>>,
             UNCHANGED <<policy, questions, told, rolled, unmade, broken>>,
             dropped' \subseteq DOMAIN items, behind' \subseteq DOMAIN items, edits' \in 0 .. MaxEdits
      PROVE  ListsTyped' /\ Wider
  <2>1. Wider
    BY <1>1 DEF Wider
  <2>2. SetsTyped'
    BY <1>1 DEF SetsTyped
  <2>. QED
    BY <1>1, <2>1, <2>2, HookWider, InsertingWider DEF ListsTyped
<1>2. ASSUME L!Edit PROVE edits' \in 0 .. MaxEdits
  BY <1>2, ListsAssumed DEF SetsTyped, L!Edit
<1>3. ASSUME NEW i \in DOMAIN items, L!Check(i) \/ L!PressDone(i) PROVE ListsTyped' /\ Wider
  <2>1. ItemsTyped' /\ DOMAIN items' = DOMAIN items /\ DOMAIN lists' = DOMAIN lists
    BY <1>3, DoneTyped DEF L!Check, L!PressDone, L!Pressed
  <2>. QED
    BY <1>1, <1>3, <2>1 DEF SetsTyped, L!Check, L!PressDone
<1>4. ASSUME NEW i \in DOMAIN items, L!Uncheck(i) PROVE ListsTyped' /\ Wider
  <2>1. Rewritten(i, [items[i] EXCEPT !.done = FALSE])
    BY <1>4 DEF L!Uncheck, Rewritten
  <2>2. ItemsTyped' /\ DOMAIN items' = DOMAIN items /\ DOMAIN lists' = DOMAIN lists
    BY <2>1, RewrittenTyped, ItemWrites, ItemOf
  <2>. QED
    BY <1>1, <1>2, <1>4, <2>2 DEF SetsTyped, L!Uncheck
<1>5. ASSUME NEW i \in DOMAIN items, L!PressDrop(i) PROVE ListsTyped' /\ Wider
  <2>1. Rewritten(i, [items[i] EXCEPT !.asked = "no"])
    BY <1>5 DEF L!PressDrop, Rewritten
  <2>2. ItemsTyped' /\ DOMAIN items' = DOMAIN items /\ DOMAIN lists' = DOMAIN lists
    BY <2>1, RewrittenTyped, ItemWrites, ItemOf
  <2>. QED
    BY <1>1, <1>5, <2>2 DEF SetsTyped, L!PressDrop
<1>6. ASSUME NEW h \in Hints, L!RemoveItem(h) PROVE ListsTyped' /\ Wider
  <2>1. PICK i \in L!Found(h, L!Max(L!Opened)) : items' = [items EXCEPT ![i].list = 0]
    BY <1>6 DEF L!RemoveItem
  <2>2. i \in DOMAIN items /\ Rewritten(i, [items[i] EXCEPT !.list = 0])
    BY <1>6, <2>1 DEF L!RemoveItem, Rewritten, L!Found, L!On
  <2>3. ItemsTyped' /\ DOMAIN items' = DOMAIN items /\ DOMAIN lists' = DOMAIN lists
    BY <2>2, RewrittenTyped, ItemWrites, ItemOf
  <2>. QED
    BY <1>1, <1>2, <1>6, <2>3 DEF SetsTyped, L!RemoveItem
<1>7. ASSUME NEW h \in Hints, NEW line \in Lines, L!UpdateItem(h, line) PROVE ListsTyped' /\ Wider
  <2>1. PICK i \in L!Found(h, L!Max(L!Opened)) : items' = [items EXCEPT ![i].line = line]
    BY <1>7 DEF L!UpdateItem
  <2>2. i \in DOMAIN items /\ Rewritten(i, [items[i] EXCEPT !.line = line])
    BY <1>7, <2>1 DEF L!UpdateItem, Rewritten, L!Found, L!On
  <2>3. ItemsTyped' /\ DOMAIN items' = DOMAIN items /\ DOMAIN lists' = DOMAIN lists
    BY <2>2, RewrittenTyped, ItemWrites, ItemOf
  <2>. QED
    BY <1>1, <1>2, <1>7, <2>3 DEF SetsTyped, L!UpdateItem
<1>8. ASSUME UNCHANGED <<policy, lists, items, hook, questions, dropped, told, behind, rolled, unmade, broken>>,
             edits' \in 0 .. MaxEdits, inserting' \in [list : DOMAIN lists, line : Lines, from : {0} \cup DOMAIN items]
      PROVE  ListsTyped' /\ Wider
  <2>1. ItemsTyped' /\ Wider
    BY <1>8 DEF ItemsTyped, Wider
  <2>2. SetsTyped' /\ InsertingTyped'
    BY <1>8 DEF SetsTyped, InsertingTyped
  <2>. QED
    BY <1>8, <2>1, <2>2, HookWider DEF ListsTyped
<1>9. ASSUME NEW line \in Lines, L!AddItem(line) PROVE ListsTyped' /\ Wider
  <2>1. L!Opened \subseteq 1 .. Len(lists) /\ L!Opened # {} /\ Len(lists) \in Nat /\ DOMAIN lists = 1 .. Len(lists)
    BY <1>9 DEF L!Opened, L!AddItem, ItemsTyped
  <2>2. L!Max(L!Opened) \in DOMAIN lists
    BY <2>1, LatestIsOne
  <2>. QED
    BY <1>2, <1>8, <1>9, <2>2 DEF L!AddItem
<1>10. ASSUME NEW i \in DOMAIN items, L!PressCarry(i) PROVE ListsTyped' /\ Wider
  <2>1. Len(lists) \in DOMAIN lists /\ items[i].line \in Lines
    BY ItemOf DEF ItemsTyped, ItemShape
  <2>. QED
    BY <1>8, <1>10, <2>1 DEF L!PressCarry, SetsTyped
<1>. QED
  BY <1>3, <1>4, <1>5, <1>6, <1>7, <1>9, <1>10

\* The item that goes in.
LEMMA InsertWrites ==
  ASSUME ListsTyped, L!Insert
  PROVE  \E it \in ItemShape :
    /\ it = L!Item(inserting.list, inserting.line, inserting.from) /\ inserting.list \in DOMAIN lists
    /\ inserting.from \in {0} \cup DOMAIN items
    /\ items' \in Seq(ItemShape) /\ DOMAIN items' = DOMAIN items \cup {Len(items) + 1} /\ Len(items) + 1 \notin DOMAIN items
    /\ items'[Len(items) + 1] = it
    /\ \A i \in DOMAIN items :
         items'[i] = IF i = inserting.from THEN [items[i] EXCEPT !.asked = "no"] ELSE items[i]
<1>. DEFINE it == L!Item(inserting.list, inserting.line, inserting.from)
            fresh == Append(items, it)
<1>1. items \in Seq(ItemShape) /\ Len(items) \in Nat /\ DOMAIN items = 1 .. Len(items)
  BY DEF ListsTyped, ItemsTyped
<1>2. inserting \in [list : DOMAIN lists, line : Lines, from : {0} \cup DOMAIN items]
  BY DEF ListsTyped, InsertingTyped, L!Insert, L!Free
<1>3. it \in ItemShape
  BY <1>1, <1>2 DEF L!Item, ItemShape, ListsTyped, ItemsTyped
<1>. HIDE DEF it
<1>4. /\ fresh \in Seq(ItemShape) /\ DOMAIN fresh = DOMAIN items \cup {Len(items) + 1} /\ Len(items) + 1 \notin DOMAIN items
      /\ fresh[Len(items) + 1] = it /\ \A i \in DOMAIN items : fresh[i] = items[i]
  BY <1>1, <1>3
<1>. HIDE DEF fresh
<1>5. items' = IF inserting.from = 0 THEN fresh ELSE [fresh EXCEPT ![inserting.from] = [fresh[inserting.from] EXCEPT !.asked = "no"]]
  BY DEF L!Insert, fresh, it
<1>6. CASE inserting.from = 0
  BY <1>1, <1>2, <1>3, <1>4, <1>5, <1>6 DEF it
<1>7. CASE inserting.from # 0
  <2>1. inserting.from \in DOMAIN items /\ fresh[inserting.from] = items[inserting.from] /\ items[inserting.from] \in ItemShape
    BY <1>1, <1>2, <1>4, <1>7
  <2>2. [items[inserting.from] EXCEPT !.asked = "no"] \in ItemShape
    BY <2>1, ItemWrites DEF Like
  <2>3. items' = [fresh EXCEPT ![inserting.from] = [items[inserting.from] EXCEPT !.asked = "no"]]
    BY <1>5, <1>7, <2>1
  <2>4. items' \in Seq(ItemShape) /\ DOMAIN items' = DOMAIN fresh
    BY <1>4, <2>1, <2>2, <2>3
  <2>. QED
    BY <1>1, <1>2, <1>3, <1>4, <2>1, <2>3, <2>4 DEF it
<1>. QED
  BY <1>6, <1>7

LEMMA InsertTyped == ListsTyped /\ L!Insert => ListsTyped' /\ Wider
<1>. SUFFICES ASSUME ListsTyped, L!Insert PROVE ListsTyped' /\ Wider
  OBVIOUS
<1>. ItemsTyped /\ HookTyped /\ SetsTyped
  BY DEF ListsTyped
<1>1. PICK it \in ItemShape :
    /\ it = L!Item(inserting.list, inserting.line, inserting.from) /\ inserting.list \in DOMAIN lists
    /\ inserting.from \in {0} \cup DOMAIN items
    /\ items' \in Seq(ItemShape) /\ DOMAIN items' = DOMAIN items \cup {Len(items) + 1} /\ Len(items) + 1 \notin DOMAIN items
    /\ items'[Len(items) + 1] = it
    /\ \A i \in DOMAIN items :
         items'[i] = IF i = inserting.from THEN [items[i] EXCEPT !.asked = "no"] ELSE items[i]
  BY InsertWrites
<1>2. /\ inserting' = L!Nothing /\ UNCHANGED <<policy, lists, hook, questions, dropped, told, rolled, unmade, edits, broken>>
      /\ behind' \in {behind, behind \cup {Len(items) + 1}}
  BY DEF L!Insert
<1>3. ASSUME NEW i \in DOMAIN items PROVE Fits(items'[i], Len(lists), i)
  <2>1. Like(items'[i], items[i])
    <3>1. items[i] \in ItemShape /\ Like(items[i], items[i])
      BY ItemOf DEF Like
    <3>2. Like([items[i] EXCEPT !.asked = "no"], items[i])
      BY <3>1, ItemWrites
    <3>. QED
      BY <1>1, <3>1, <3>2
  <2>. QED
    BY <2>1, ItemOf DEF Like, ItemsTyped, Fits
<1>4. Fits(items'[Len(items) + 1], Len(lists), Len(items) + 1)
  <2>1. it.list = inserting.list /\ it.from = inserting.from
    BY <1>1 DEF L!Item
  <2>2. inserting.list <= Len(lists) /\ inserting.from < Len(items) + 1
    BY <1>1 DEF ItemsTyped
  <2>. QED
    BY <1>1, <2>1, <2>2 DEF Fits
<1>5. ItemsTyped'
  BY <1>1, <1>2, <1>3, <1>4 DEF ItemsTyped
<1>6. Wider
  BY <1>1, <1>2, <1>5 DEF Wider
<1>7. SetsTyped' /\ InsertingTyped'
  BY <1>1, <1>2 DEF SetsTyped, InsertingTyped
<1>. QED
  BY <1>2, <1>5, <1>6, <1>7, HookWider DEF ListsTyped

LEMMA ListsStayTyped == ListsTyped /\ (L!Next \/ UNCHANGED L!vars) => ListsTyped' /\ Wider
<1>. SUFFICES ASSUME ListsTyped, L!Next \/ UNCHANGED L!vars PROVE ListsTyped' /\ Wider
  OBVIOUS
<1>. ItemsTyped /\ HookTyped /\ InsertingTyped /\ SetsTyped
  BY DEF ListsTyped
<1>1. ASSUME ItemsTyped', DOMAIN lists' = DOMAIN lists, DOMAIN items' = DOMAIN items, HookTyped',
             UNCHANGED <<inserting, policy, dropped, told, behind, rolled, unmade, edits>>,
             questions' \subseteq DOMAIN items, broken' \in 0 .. MaxBroken
      PROVE  ListsTyped' /\ Wider
  <2>1. Wider
    BY <1>1 DEF Wider
  <2>2. SetsTyped'
    BY <1>1 DEF SetsTyped
  <2>. QED
    BY <1>1, <2>1, <2>2, InsertingWider DEF ListsTyped
<1>2. CASE L!BreakOff
  <2>1. ItemsTyped' /\ hook' = L!AtRest
    BY <1>2 DEF L!BreakOff, ItemsTyped
  <2>2. questions' \subseteq DOMAIN items
    BY <1>2 DEF L!BreakOff, L!Asking, SetsTyped, HookTyped, L!Range
  <2>3. broken' \in 0 .. MaxBroken
    BY <1>2, ListsAssumed DEF L!BreakOff, SetsTyped
  <2>. QED
    BY <1>1, <1>2, <2>1, <2>2, <2>3, HookRests DEF L!BreakOff
<1>3. CASE L!Wait
  <2>1. Asks({i \in DOMAIN items : items[i].asked = "now"}, Long)
    BY <1>3 DEF L!Wait, Asks, Long
  <2>2. ItemsTyped' /\ DOMAIN items' = DOMAIN items /\ DOMAIN lists' = DOMAIN lists
    BY <1>3, <2>1, AskedTyped DEF L!Wait
  <2>3. HookTyped'
    BY <1>3, <2>2, HookWider DEF L!Wait, Wider
  <2>. QED
    BY <1>1, <1>3, <2>2, <2>3 DEF L!Wait, SetsTyped
<1>4. CASE L!Timeout
  <2>. DEFINE over == {k \in DOMAIN lists : lists[k] = "open" /\ \E i \in L!On(k) : L!Stale(i)}
  <2>0. lists' = L!Expired(over) /\ UNCHANGED <<policy, items, hook, inserting, questions, dropped, told, behind, rolled, unmade, edits, broken>>
    BY <1>4 DEF L!Timeout
  <2>. HIDE DEF over
  <2>1. ItemsTyped' /\ DOMAIN items' = DOMAIN items /\ DOMAIN lists' = DOMAIN lists
    BY <2>0, ExpiredTyped DEF ItemsTyped
  <2>2. HookTyped'
    BY <2>0, <2>1, HookWider DEF Wider
  <2>. QED
    BY <1>1, <2>0, <2>1, <2>2 DEF SetsTyped
<1>5. CASE UNCHANGED L!vars
  <2>1. ItemsTyped' /\ Wider
    BY <1>5 DEF L!vars, ItemsTyped, Wider
  <2>. QED
    BY <1>5, <2>1, HookWider, InsertingWider, SetsWider DEF L!vars, ListsTyped
<1>. QED
  BY <1>2, <1>3, <1>4, <1>5, FireTyped, ReadTyped, RolloverTyped, InsertTyped, RequestTyped DEF L!Next

LEMMA ListsTypedSound == ListsTyped => L!TypeOK
<1>. SUFFICES ASSUME ListsTyped PROVE L!TypeOK
  OBVIOUS
<1>. ItemsTyped /\ HookTyped /\ InsertingTyped /\ SetsTyped
  BY DEF ListsTyped
<1>1. ASSUME NEW i \in DOMAIN items
      PROVE  items[i] \in [list : 0 .. Len(lists), line : Lines, done : BOOLEAN, asked : {"no", "now", "long"},
                           waited : BOOLEAN, from : 0 .. i - 1]
  <2>1. items[i] \in ItemShape /\ items[i].list \in 0 .. Len(lists) /\ items[i].from \in 0 .. i - 1
    BY ItemOf DEF ItemsTyped, Fits
  <2>. QED
    BY <2>1 DEF ItemShape
<1>2. /\ hook.at \in {"rest", "made", "read"} /\ hook.new \in 0 .. Len(lists) /\ hook.prev \in 0 .. Len(lists)
      /\ lists \in Seq({"open", "closed", "expired"}) /\ Len(lists) <= MaxLists
  BY DEF HookTyped, ItemsTyped
<1>3. inserting.list \in 0 .. Len(lists)
  <2>1. Len(lists) \in Nat /\ DOMAIN lists = 1 .. Len(lists)
    BY DEF ItemsTyped
  <2>2. CASE inserting = L!Nothing
    <3>1. inserting.list = 0
      BY <2>2 DEF L!Nothing
    <3>. QED
      BY <2>1, <3>1
  <2>. QED
    BY <2>1, <2>2 DEF InsertingTyped
<1>. QED
  BY <1>1, <1>2, <1>3 DEF SetsTyped, L!TypeOK

\* What came before a rollover is in what it has read.
HookInv == hook.at = "read" =>
  /\ hook.prev \in rolled
  /\ \A i \in L!Range(hook.open) : items[i].list \in {0, hook.prev}
  /\ \A i \in L!Undone(hook.prev) : i \in L!Range(hook.open) \cup behind

Excused(i) == i \in behind \cup dropped \/ L!Carried(i)
Put(i)     == items[i].asked # "no" \/ items[i].waited

\* Where the owner was asked about one item he was asked about every other that is open, and has
\* had his time for all of them.
QuestionInv(i) ==
  /\ items[i].asked = "long" => items[i].waited
  /\ Put(i) => policy = "confirm" /\ items[i].list \in rolled \cup {0}
  /\ items[i].list # 0 => \A j \in DOMAIN items :
       items[j].list = items[i].list /\ ~items[j].done /\ ~Excused(j) =>
         (Put(i) => Put(j)) /\ (items[i].waited => items[j].waited)
QuestionsInv == \A i \in DOMAIN items : QuestionInv(i)

ListsInv == ListsTyped /\ HookInv /\ QuestionsInv /\ L!NoSilentLoss

\* What every step keeps, ...
Grows ==
  /\ Wider /\ UNCHANGED policy
  /\ \A i \in DOMAIN items : /\ items'[i].list \in {0, items[i].list} /\ items'[i].from = items[i].from
                             /\ items[i].waited => items'[i].waited
  /\ behind \subseteq behind' /\ dropped \subseteq dropped' /\ told \subseteq told' /\ rolled \subseteq rolled'

\* ... and what one does that asks nothing.
Unasked(i) ==
  /\ i \notin DOMAIN items =>
       /\ items'[i].asked = "no" /\ ~items'[i].waited
       /\ i \in behind' \/ (items'[i].list \notin rolled' /\ lists'[items'[i].list] = "open")
  /\ i \in DOMAIN items =>
       /\ items'[i].waited <=> items[i].waited
       /\ items'[i].asked # items[i].asked => items'[i].asked = "no" /\ Excused(i)'
       /\ items[i].done /\ ~items'[i].done =>
            i \in behind' \/ (items[i].list \notin rolled /\ lists'[items[i].list] = "open")
Calm == Grows /\ \A i \in DOMAIN items' : Unasked(i)

LEMMA ExcuseStays ==
  ASSUME Grows, NEW i \in DOMAIN items
  PROVE  (Excused(i) => Excused(i)') /\ (L!Carried(i) => L!Carried(i)') /\ (L!AnsweredFor(i) => L!AnsweredFor(i)')
<1>1. L!Carried(i) => L!Carried(i)'
  BY DEF L!Carried, Grows, Wider
<1>2. Excused(i) => Excused(i)'
  BY <1>1 DEF Excused, Grows
<1>3. ASSUME L!AnsweredFor(i) PROVE L!AnsweredFor(i)'
  <2>1. policy' = policy /\ told \subseteq told' /\ dropped \subseteq dropped' /\ (items[i].waited => items'[i].waited)
    BY DEF Grows
  <2>. QED
    BY <1>1, <1>3, <2>1 DEF L!AnsweredFor, L!Carried
<1>. QED
  BY <1>1, <1>2, <1>3

LEMMA CalmAsks == ListsInv /\ Calm => QuestionsInv'
<1>. SUFFICES ASSUME ListsInv, Calm, NEW i \in DOMAIN items' PROVE QuestionInv(i)'
  BY DEF QuestionsInv
<1>. Grows /\ Unasked(i) /\ (i \in DOMAIN items => QuestionInv(i))
  BY DEF Calm, ListsInv, QuestionsInv
<1>1. CASE i \notin DOMAIN items
  <2>1. items'[i].asked = "no" /\ ~items'[i].waited
    BY <1>1 DEF Unasked
  <2>. QED
    BY <2>1 DEF QuestionInv, Put
<1>2. CASE i \in DOMAIN items
  <2>1. /\ items'[i].list \in {0, items[i].list} /\ (items'[i].waited <=> items[i].waited)
        /\ items'[i].asked = items[i].asked \/ items'[i].asked = "no"
    BY <1>2 DEF Grows, Unasked
  <2>2. Put(i)' => Put(i)
    BY <2>1 DEF Put
  <2>3. (items'[i].asked = "long" => items'[i].waited) /\ (Put(i)' => policy' = "confirm" /\ items'[i].list \in rolled' \cup {0})
    BY <1>2, <2>1, <2>2 DEF QuestionInv, Grows
  <2>4. ASSUME items'[i].list # 0, NEW j \in DOMAIN items', items'[j].list = items'[i].list, ~items'[j].done, ~Excused(j)'
        PROVE  (Put(i)' => Put(j)') /\ (items'[i].waited => items'[j].waited)
    <3>. SUFFICES ASSUME Put(i)' PROVE Put(j)' /\ (items'[i].waited => items'[j].waited)
      BY DEF Put
    <3>. Unasked(j) /\ j \notin behind'
      BY <2>4 DEF Calm, Excused
    <3>1. items'[i].list = items[i].list /\ items[i].list \in rolled /\ items[i].list \in rolled'
      BY <1>2, <2>1, <2>2, <2>4 DEF QuestionInv, Grows
    <3>2. j \in DOMAIN items
      BY <2>4, <3>1 DEF Unasked
    <3>3. items[j].list = items[i].list /\ items[i].list # 0 /\ ~items[j].done
      BY <2>4, <3>1, <3>2 DEF Grows, Unasked
    <3>4. ~Excused(j)
      BY <2>4, <3>2, ExcuseStays
    <3>5. Put(j) /\ (items[i].waited => items[j].waited)
      BY <1>2, <2>2, <3>2, <3>3, <3>4 DEF QuestionInv
    <3>6. items'[j].asked = items[j].asked /\ (items'[j].waited <=> items[j].waited)
      BY <2>4, <3>2 DEF Unasked
    <3>. QED
      BY <2>1, <3>5, <3>6 DEF Put
  <2>. QED
    BY <2>3, <2>4 DEF QuestionInv
<1>. QED
  BY <1>1, <1>2

\* What goes from the open lists in a step is answered for.
ClosesAnswered == \A i \in DOMAIN items :
  items[i].list # 0 /\ items'[i].list # 0 /\ ~items[i].done /\ ~items'[i].done =>
    lists'[items[i].list] = lists[items[i].list] \/ i \in behind' \/ L!AnsweredFor(i)'

LEMMA CalmLosesNothing ==
  ASSUME ListsInv, Calm, ClosesAnswered
  PROVE  L!NoSilentLoss'
<1>. SUFFICES ASSUME NEW i \in DOMAIN items', items'[i].list # 0, ~items'[i].done, lists'[items'[i].list] # "open",
                     i \notin behind'
              PROVE  L!AnsweredFor(i)'
  BY DEF L!NoSilentLoss
<1>. Grows /\ Unasked(i)
  BY DEF Calm
<1>1. i \in DOMAIN items
  BY DEF Unasked
<1>2. items'[i].list = items[i].list /\ items[i].list # 0 /\ i \notin behind
  BY <1>1 DEF Grows
<1>3. items[i].list \in DOMAIN lists
  BY <1>1, <1>2, ItemOf DEF ListsInv, ListsTyped
<1>4. CASE items[i].done
  <2>1. lists'[items[i].list] = "open"
    BY <1>1, <1>4 DEF Unasked
  <2>. QED
    BY <1>2, <2>1
<1>5. CASE ~items[i].done
  <2>1. CASE lists'[items[i].list] = lists[items[i].list]
    <3>1. L!AnsweredFor(i)
      BY <1>1, <1>2, <1>5, <2>1 DEF ListsInv, L!NoSilentLoss
    <3>. QED
      BY <1>1, <3>1, ExcuseStays
  <2>. QED
    BY <1>1, <1>2, <1>5, <2>1 DEF ClosesAnswered
<1>. QED
  BY <1>4, <1>5

LEMMA CalmHook == ListsInv /\ Calm /\ UNCHANGED hook => HookInv'
<1>. SUFFICES ASSUME ListsInv, Calm, UNCHANGED hook, hook.at = "read" PROVE HookInv'
  BY DEF HookInv
<1>. Grows /\ HookInv /\ hook.prev \in rolled /\ hook.prev \in rolled'
  BY DEF Calm, ListsInv, HookInv, Grows
<1>1. \A i \in L!Range(hook.open) : items'[i].list \in {0, hook.prev}
  BY DEF HookInv, Grows, ListsInv, ListsTyped, HookTyped, L!Range
<1>2. ASSUME NEW i \in L!Undone(hook.prev)' PROVE i \in L!Range(hook.open) \cup behind'
  <2>1. i \in DOMAIN items' /\ items'[i].list = hook.prev /\ ~items'[i].done /\ Unasked(i)
    BY <1>2 DEF L!Undone, L!On, Calm
  <2>2. CASE i \notin DOMAIN items
    BY <2>1, <2>2 DEF Unasked
  <2>3. CASE i \in DOMAIN items
    <3>1. hook.prev # 0
      BY DEF ListsInv, ListsTyped, SetsTyped, ItemsTyped
    <3>2. items[i].list = hook.prev
      BY <2>1, <2>3, <3>1 DEF Grows
    <3>3. CASE items[i].done
      BY <2>1, <2>3, <3>2, <3>3 DEF Unasked
    <3>4. CASE ~items[i].done
      <4>1. i \in L!Undone(hook.prev)
        BY <2>3, <3>2, <3>4 DEF L!Undone, L!On
      <4>. QED
        BY <4>1 DEF HookInv, Grows
    <3>. QED
      BY <3>3, <3>4
  <2>. QED
    BY <2>2, <2>3
<1>. QED
  BY <1>1, <1>2 DEF HookInv

LEMMA CalmKeeps ==
  ASSUME ListsInv, Calm, ClosesAnswered, ListsTyped', UNCHANGED hook \/ HookInv'
  PROVE  ListsInv'
  BY CalmAsks, CalmLosesNothing, CalmHook DEF ListsInv

\* Steps that leave the items alone.
LEMMA SameItems ==
  ASSUME ListsInv, Wider, UNCHANGED <<policy, items>>, behind \subseteq behind', dropped \subseteq dropped',
         told \subseteq told', rolled \subseteq rolled'
  PROVE  Calm
  BY DEF Calm, Grows, Unasked

\* Nothing goes.
LEMMA SameLists == (\A k \in DOMAIN lists : lists'[k] = lists[k]) /\ ListsInv => ClosesAnswered
  BY ItemOf DEF ListsInv, ListsTyped, ClosesAnswered

\* Steps that write one item and leave its list alone.
LEMMA OneItem ==
  ASSUME ListsInv, Wider, NEW i \in DOMAIN items, NEW it, Rewritten(i, it), Like(it, items[i]), it.waited = items[i].waited,
         UNCHANGED <<policy, told, rolled>>, behind \subseteq behind', dropped \subseteq dropped',
         it.asked # items[i].asked => it.asked = "no" /\ i \in dropped',
         items[i].done /\ ~it.done =>
           i \in behind' \/ (items[i].list \notin rolled /\ lists[items[i].list] = "open")
  PROVE  Calm /\ ClosesAnswered
<1>1. /\ DOMAIN items' = DOMAIN items /\ items'[i] = it /\ \A j \in DOMAIN items \ {i} : items'[j] = items[j]
      /\ lists' = lists
  BY DEF Rewritten, ListsInv, ListsTyped, ItemsTyped
<1>2. Grows
  BY <1>1 DEF Grows, Like
<1>3. ASSUME NEW j \in DOMAIN items' PROVE Unasked(j)
  <2>1. CASE j = i
    BY <1>1, <2>1 DEF Unasked, Excused
  <2>2. CASE j # i
    BY <1>1, <2>2 DEF Unasked
  <2>. QED
    BY <2>1, <2>2
<1>. QED
  BY <1>1, <1>2, <1>3, SameLists DEF Calm

\* An item when it is put in.
LEMMA FreshItem ==
  ASSUME NEW k, NEW line, NEW from
  PROVE  LET it == L!Item(k, line, from) IN it.asked = "no" /\ ~it.waited /\ it.list = k /\ it.from = from
  BY DEF L!Item

LEMMA FireKeeps == ListsInv /\ (L!FireRecurrence \/ L!Instantiate) => ListsInv'
<1>. SUFFICES ASSUME ListsInv, L!FireRecurrence \/ L!Instantiate PROVE ListsInv'
  OBVIOUS
<1>. ListsTyped /\ ListsTyped' /\ Wider
  BY FireTyped DEF ListsInv
<1>1. UNCHANGED <<policy, inserting, questions, dropped, told, behind, rolled, edits, broken>>
  BY DEF L!FireRecurrence, L!Instantiate
<1>2. UNCHANGED hook \/ HookInv'
  BY DEF L!FireRecurrence, L!Instantiate, HookInv, L!AtRest
<1>3. CASE UNCHANGED <<lists, items>>
  BY <1>1, <1>2, <1>3, SameItems, SameLists, CalmKeeps
<1>4. CASE L!NewList
  <2>. DEFINE n == Len(lists) + 1
  <2>1. /\ lists' = Append(lists, "open")
        /\ DOMAIN items \subseteq DOMAIN items' /\ \A i \in DOMAIN items : items'[i] = items[i]
        /\ \A i \in DOMAIN items' \ DOMAIN items : \E j \in DOMAIN Template : items'[i] = L!Item(n, Template[j], 0)
    BY <1>4, NewListTyped DEF ListsTyped
  <2>2. lists'[n] = "open" /\ n \notin rolled /\ \A k \in DOMAIN lists : lists'[k] = lists[k]
    BY <2>1 DEF ListsTyped, ItemsTyped, SetsTyped
  <2>. HIDE DEF n
  <2>3. Grows
    BY <1>1, <2>1 DEF Grows
  <2>4. ASSUME NEW i \in DOMAIN items' PROVE Unasked(i)
    <3>1. CASE i \in DOMAIN items
      BY <2>1, <3>1 DEF Unasked
    <3>2. CASE i \notin DOMAIN items
      <4>1. items'[i].asked = "no" /\ ~items'[i].waited /\ items'[i].list = n
        BY <2>1, <3>2, FreshItem
      <4>. QED
        BY <1>1, <2>2, <3>2, <4>1 DEF Unasked
    <3>. QED
      BY <3>1, <3>2
  <2>. QED
    BY <1>2, <2>2, <2>3, <2>4, SameLists, CalmKeeps DEF Calm
<1>. QED
  BY <1>3, <1>4 DEF L!FireRecurrence, L!Instantiate

LEMMA ReadKeeps == ListsInv /\ L!ReadPrevious => ListsInv'
<1>. SUFFICES ASSUME ListsInv, L!ReadPrevious PROVE ListsInv'
  OBVIOUS
<1>. ListsTyped /\ ListsTyped' /\ Wider
  BY ReadTyped DEF ListsInv
<1>1. UNCHANGED <<policy, lists, items, inserting, questions, dropped, told, behind, unmade, edits, broken>>
  BY DEF L!ReadPrevious
<1>2. PICK prev \in DOMAIN lists : rolled' = rolled \cup {prev} /\ (hook' = L!AtRest \/ \E open : ReadsOpen(prev, open))
  BY PreviousRead
<1>3. ASSUME NEW open, ReadsOpen(prev, open) PROVE HookInv'
  <2>1. hook'.prev = prev /\ hook'.open = open
    BY <1>3 DEF ReadsOpen, ListsTyped, HookTyped
  <2>2. L!Undone(prev)' = L!Undone(prev) /\ \A i \in L!Undone(prev) : items[i].list = prev
    BY <1>1 DEF L!Undone, L!On
  <2>3. L!Range(open) = L!Undone(prev)
    BY <1>3 DEF ReadsOpen
  <2>. QED
    BY <1>1, <1>2, <2>1, <2>2, <2>3 DEF HookInv, L!Undone, L!On
<1>4. HookInv'
  <2>1. hook' = L!AtRest => HookInv'
    BY DEF HookInv, L!AtRest
  <2>. QED
    BY <1>2, <1>3, <2>1
<1>. QED
  BY <1>1, <1>2, <1>4, SameItems, SameLists, CalmKeeps

\* What the rollover finds of the list before is told, carried or asked about.
LEMMA RolloverKeeps == ListsInv /\ L!Rollover => ListsInv'
<1>. SUFFICES ASSUME ListsInv, L!Rollover PROVE ListsInv'
  OBVIOUS
<1>. DEFINE open == L!Range(hook.open)
            prev == hook.prev
<1>. ListsTyped /\ ListsTyped' /\ Wider /\ QuestionsInv /\ L!NoSilentLoss
  BY RolloverTyped DEF ListsInv
<1>1. /\ hook.at = "read" /\ hook' = L!AtRest /\ HookInv'
      /\ UNCHANGED <<policy, inserting, dropped, rolled, unmade, edits, broken>>
  BY DEF L!Rollover, HookInv, L!AtRest
<1>2. /\ prev \in rolled /\ prev \in DOMAIN lists /\ prev # 0
      /\ \A i \in open : i \in DOMAIN items /\ items[i].list \in {0, prev}
      /\ \A i \in DOMAIN items : items[i].list = prev /\ ~items[i].done => i \in open \cup behind
  <2>1. /\ prev \in rolled /\ \A i \in open : items[i].list \in {0, prev}
        /\ \A i \in L!Undone(prev) : i \in open \cup behind
    BY <1>1 DEF ListsInv, HookInv
  <2>2. open \subseteq DOMAIN items
    BY DEF ListsTyped, HookTyped, L!Range
  <2>3. prev \in DOMAIN lists /\ prev # 0
    BY <2>1 DEF ListsTyped, SetsTyped, ItemsTyped
  <2>. QED
    BY <2>1, <2>2, <2>3 DEF L!Undone, L!On
<1>. HIDE DEF open
<1>3. ASSUME lists' = L!Expired({prev}), \A i \in open : L!AnsweredFor(i)', behind \subseteq behind'
      PROVE  ClosesAnswered
  <2>. SUFFICES ASSUME NEW i \in DOMAIN items, items[i].list # 0, ~items[i].done
                PROVE  lists'[items[i].list] = lists[items[i].list] \/ i \in behind' \/ L!AnsweredFor(i)'
    BY DEF ClosesAnswered
  <2>1. CASE items[i].list = prev
    BY <1>2, <1>3, <2>1
  <2>2. CASE items[i].list # prev
    BY <1>3, <2>2, ExpiredTyped, ItemOf DEF ListsTyped
  <2>. QED
    BY <2>1, <2>2
<1>4. CASE policy = "expire" /\ lists' = L!Expired({prev}) /\ UNCHANGED <<items, questions, told, behind>>
  <2>1. \A i \in open : L!AnsweredFor(i)'
    BY <1>1, <1>4 DEF L!AnsweredFor
  <2>. QED
    BY <1>1, <1>3, <1>4, <2>1, SameItems, CalmKeeps
<1>5. CASE policy = "nag" /\ lists' = L!Expired({prev}) /\ told' = told \cup open /\ UNCHANGED <<items, questions, behind>>
  <2>1. \A i \in open : L!AnsweredFor(i)'
    BY <1>1, <1>5 DEF L!AnsweredFor
  <2>. QED
    BY <1>1, <1>3, <1>5, <2>1, SameItems, CalmKeeps
<1>6. ASSUME policy = "roll_forward", lists' = L!Expired({prev}), NEW fresh, Carries(fresh), UNCHANGED <<questions, told>>,
             behind' = IF L!Behind(hook.new) THEN behind \cup (DOMAIN items' \ DOMAIN items) ELSE behind
      PROVE  ListsInv'
  <2>1. /\ DOMAIN fresh = DOMAIN hook.open
        /\ \A j \in DOMAIN fresh : fresh[j] = L!Item(hook.new, items[hook.open[j]].line, hook.open[j])
        /\ DOMAIN items \subseteq DOMAIN items' /\ \A i \in DOMAIN items : items'[i] = items[i]
        /\ \A i \in DOMAIN items' \ DOMAIN items : i - Len(items) \in DOMAIN fresh /\ items'[i] = fresh[i - Len(items)]
    BY <1>1, <1>6, CarriedTyped DEF ListsTyped
  <2>2. ASSUME NEW j \in DOMAIN hook.open
        PROVE  Len(items) + j \in DOMAIN items' /\ items'[Len(items) + j].from = hook.open[j]
    <3>1. items' = items \o fresh /\ items \in Seq(ItemShape) /\ fresh \in Seq(ItemShape)
      BY <1>1, <1>6, CarriedTyped DEF ListsTyped, ItemsTyped, Carries
    <3>2. j \in DOMAIN fresh
      BY <2>1, <2>2
    <3>3. Len(items) + j \in DOMAIN items' /\ items'[Len(items) + j] = fresh[j]
      BY <3>1, <3>2
    <3>4. fresh[j].from = hook.open[j]
      BY <2>1, <3>2, FreshItem
    <3>. QED
      BY <3>3, <3>4
  <2>3. ASSUME NEW i \in open PROVE L!AnsweredFor(i)'
    <3>1. PICK j \in DOMAIN hook.open : i = hook.open[j]
      BY DEF open, L!Range
    <3>2. L!Carried(i)'
      BY <2>2, <3>1 DEF L!Carried
    <3>. QED
      BY <1>1, <1>6, <3>2 DEF L!AnsweredFor
  <2>4. ClosesAnswered
    BY <1>3, <1>6, <2>3
  <2>5. Grows
    BY <1>1, <1>6, <2>1 DEF Grows
  <2>6. ASSUME NEW i \in DOMAIN items' PROVE Unasked(i)
    <3>1. CASE i \in DOMAIN items
      BY <2>1, <3>1 DEF Unasked
    <3>2. CASE i \notin DOMAIN items
      <4>1. items'[i].asked = "no" /\ ~items'[i].waited /\ items'[i].list = hook.new
        BY <2>1, <3>2, FreshItem
      <4>2. CASE L!Behind(hook.new)
        BY <1>6, <3>2, <4>1, <4>2 DEF Unasked
      <4>3. CASE ~L!Behind(hook.new)
        <5>1. hook.new \notin rolled /\ lists[hook.new] = "open"
          BY <4>3 DEF L!Behind
        <5>2. hook.new \in DOMAIN lists
          BY <1>1 DEF ListsTyped, HookTyped, ItemsTyped
        <5>3. lists'[hook.new] = "open"
          BY <1>2, <1>6, <5>1, <5>2, ExpiredTyped DEF ListsTyped
        <5>. QED
          BY <1>1, <3>2, <4>1, <5>1, <5>3 DEF Unasked
      <4>. QED
        BY <4>2, <4>3
    <3>. QED
      BY <3>1, <3>2
  <2>. QED
    BY <1>1, <2>4, <2>5, <2>6, CalmKeeps DEF Calm
<1>7. CASE policy = "confirm" /\ Asks(open, Now) /\ UNCHANGED <<lists, told, behind>>
  <2>1. ASSUME NEW i \in DOMAIN items
        PROVE  /\ items'[i].list = items[i].list /\ items'[i].done = items[i].done /\ items'[i].from = items[i].from
               /\ items'[i].waited = items[i].waited
               /\ items'[i].asked = IF i \in open THEN "now" ELSE items[i].asked
    BY <1>7, ItemOf DEF ListsTyped, Asks, Now, ItemShape
  <2>2. DOMAIN items' = DOMAIN items
    BY <1>7 DEF Asks
  <2>3. Grows
    BY <1>1, <1>7, <2>1 DEF Grows
  <2>4. L!NoSilentLoss'
    BY <1>7, <2>1, <2>2, <2>3, ExcuseStays DEF L!NoSilentLoss
  <2>5. ASSUME NEW i \in DOMAIN items PROVE QuestionInv(i)'
    <3>1. QuestionInv(i)
      BY DEF QuestionsInv
    <3>2. items'[i].asked = "long" => items'[i].waited
      BY <2>1, <3>1 DEF QuestionInv
    <3>3. Put(i)' => i \in open \/ Put(i)
      BY <2>1 DEF Put
    <3>4. Put(i)' => policy' = "confirm" /\ items'[i].list \in rolled' \cup {0}
      BY <1>1, <1>2, <1>7, <2>1, <3>1, <3>3 DEF QuestionInv
    <3>5. ASSUME items'[i].list # 0, NEW j \in DOMAIN items, items'[j].list = items'[i].list, ~items'[j].done, ~Excused(j)'
          PROVE  (Put(i)' => Put(j)') /\ (items'[i].waited => items'[j].waited)
      <4>1. items[i].list # 0 /\ items[j].list = items[i].list /\ ~items[j].done /\ ~Excused(j)
        BY <2>1, <2>3, <3>5, ExcuseStays
      <4>2. (Put(i) => Put(j)) /\ (items[i].waited => items[j].waited)
        BY <3>1, <4>1 DEF QuestionInv
      <4>3. Put(j) \/ j \in open => Put(j)'
        BY <2>1 DEF Put
      <4>4. i \in open => j \in open
        BY <1>2, <4>1 DEF Excused
      <4>. QED
        BY <2>1, <3>3, <4>2, <4>3, <4>4
    <3>. QED
      BY <2>2, <3>2, <3>4, <3>5 DEF QuestionInv
  <2>. QED
    BY <1>1, <2>2, <2>4, <2>5 DEF ListsInv, QuestionsInv
<1>8. \/ policy = "expire" /\ lists' = L!Expired({prev}) /\ UNCHANGED <<items, questions, told, behind>>
      \/ policy = "nag" /\ lists' = L!Expired({prev}) /\ told' = told \cup open /\ UNCHANGED <<items, questions, behind>>
      \/ /\ policy = "roll_forward" /\ lists' = L!Expired({prev}) /\ (\E fresh : Carries(fresh)) /\ UNCHANGED <<questions, told>>
         /\ behind' = IF L!Behind(hook.new) THEN behind \cup (DOMAIN items' \ DOMAIN items) ELSE behind
      \/ policy = "confirm" /\ Asks(open, Now) /\ UNCHANGED <<lists, told, behind>>
  BY DEF L!Rollover, Carries, Asks, Now, open
<1>. QED
  BY <1>4, <1>5, <1>6, <1>7, <1>8

LEMMA WaitKeeps == ListsInv /\ L!Wait => ListsInv'
<1>. SUFFICES ASSUME ListsInv, L!Wait PROVE ListsInv'
  OBVIOUS
<1>. ListsTyped /\ ListsTyped' /\ Wider /\ QuestionsInv /\ L!NoSilentLoss /\ HookInv
  BY ListsStayTyped DEF ListsInv, L!Next
<1>1. UNCHANGED <<policy, lists, hook, inserting, questions, dropped, told, behind, rolled, unmade, edits, broken>>
  BY DEF L!Wait
<1>2. ASSUME NEW i \in DOMAIN items
      PROVE  /\ items'[i].list = items[i].list /\ items'[i].done = items[i].done /\ items'[i].from = items[i].from
             /\ items'[i].waited = (items[i].waited \/ items[i].asked = "now")
             /\ items'[i].asked = IF items[i].asked = "now" THEN "long" ELSE items[i].asked
  <2>1. items[i] \in ItemShape
    BY ItemOf DEF ListsTyped
  <2>2. items'[i] = IF items[i].asked = "now" THEN [items[i] EXCEPT !.asked = "long", !.waited = TRUE] ELSE items[i]
    BY DEF L!Wait
  <2>3. CASE items[i].asked = "now"
    BY <2>1, <2>2, <2>3 DEF ItemShape
  <2>4. CASE items[i].asked # "now"
    BY <2>1, <2>2, <2>4 DEF ItemShape
  <2>. QED
    BY <2>3, <2>4
<1>3. DOMAIN items' = DOMAIN items
  BY DEF L!Wait
<1>4. Grows
  BY <1>1, <1>2 DEF Grows
<1>5. L!NoSilentLoss'
  BY <1>1, <1>2, <1>3, <1>4, ExcuseStays DEF L!NoSilentLoss
<1>6. HookInv'
  <2>1. ASSUME hook.at = "read" PROVE \A i \in L!Range(hook.open) : items'[i].list = items[i].list
    BY <1>2 DEF ListsTyped, HookTyped, L!Range
  <2>2. L!Undone(hook.prev)' = L!Undone(hook.prev)
    BY <1>1, <1>2, <1>3 DEF L!Undone, L!On
  <2>. QED
    BY <1>1, <2>1, <2>2 DEF HookInv
<1>7. ASSUME NEW i \in DOMAIN items PROVE QuestionInv(i)'
  <2>1. QuestionInv(i)
    BY DEF QuestionsInv
  <2>2. items'[i].asked = "long" => items'[i].waited
    BY <1>2, <2>1 DEF QuestionInv
  <2>3. Put(i)' => Put(i)
    BY <1>2 DEF Put
  <2>4. Put(i)' => policy' = "confirm" /\ items'[i].list \in rolled' \cup {0}
    BY <1>1, <1>2, <2>1, <2>3 DEF QuestionInv
  <2>5. ASSUME items'[i].list # 0, NEW j \in DOMAIN items, items'[j].list = items'[i].list, ~items'[j].done, ~Excused(j)'
        PROVE  (Put(i)' => Put(j)') /\ (items'[i].waited => items'[j].waited)
    <3>1. items[i].list # 0 /\ items[j].list = items[i].list /\ ~items[j].done /\ ~Excused(j)
      BY <1>2, <1>4, <2>5, ExcuseStays
    <3>2. (Put(i) => Put(j)) /\ (items[i].waited => items[j].waited)
      BY <2>1, <3>1 DEF QuestionInv
    <3>3. Put(j) => Put(j)' /\ items'[j].waited
      <4>1. items[j].asked \in {"no", "now", "long"}
        BY ItemOf DEF ListsTyped, ItemShape
      <4>2. items[j].asked = "long" => items[j].waited
        BY DEF QuestionsInv, QuestionInv
      <4>. QED
        BY <1>2, <4>1, <4>2 DEF Put
    <3>4. items'[i].waited => Put(i)
      BY <1>2 DEF Put
    <3>. QED
      BY <2>3, <3>2, <3>3, <3>4
  <2>. QED
    BY <1>3, <2>2, <2>4, <2>5 DEF QuestionInv
<1>. QED
  BY <1>3, <1>5, <1>6, <1>7 DEF ListsInv, QuestionsInv

\* When one item of a list had its time, so had the others.
LEMMA TimeoutKeeps == ListsInv /\ L!Timeout => ListsInv'
<1>. SUFFICES ASSUME ListsInv, L!Timeout PROVE ListsInv'
  OBVIOUS
<1>. DEFINE over == {k \in DOMAIN lists : lists[k] = "open" /\ \E i \in L!On(k) : L!Stale(i)}
<1>. ListsTyped /\ ListsTyped' /\ Wider /\ QuestionsInv
  BY ListsStayTyped DEF ListsInv, L!Next
<1>1. /\ lists' = L!Expired(over)
      /\ UNCHANGED <<policy, items, hook, inserting, questions, dropped, told, behind, rolled, unmade, edits, broken>>
  BY DEF L!Timeout
<1>2. \A k \in over : \E i \in DOMAIN items : items[i].list = k /\ items[i].asked = "long"
  BY DEF L!On, L!Stale
<1>. HIDE DEF over
<1>3. ASSUME NEW j \in DOMAIN items, items[j].list # 0, ~items[j].done
      PROVE  lists'[items[j].list] = lists[items[j].list] \/ j \in behind' \/ L!AnsweredFor(j)'
  <2>1. CASE items[j].list \in over
    <3>1. PICK i \in DOMAIN items : items[i].list = items[j].list /\ items[i].asked = "long"
      BY <1>2, <2>1
    <3>2. QuestionInv(i)
      BY DEF QuestionsInv
    <3>3. items[i].waited /\ policy = "confirm"
      BY <3>1, <3>2 DEF QuestionInv, Put
    <3>4. Excused(j) \/ items[j].waited
      BY <1>3, <3>1, <3>2, <3>3 DEF QuestionInv
    <3>5. j \in behind \/ L!AnsweredFor(j)
      BY <3>3, <3>4 DEF Excused, L!AnsweredFor
    <3>. QED
      BY <1>1, <3>5 DEF L!AnsweredFor, L!Carried
  <2>2. CASE items[j].list \notin over
    BY <1>1, <1>3, <2>2, ExpiredTyped, ItemOf DEF ListsTyped
  <2>. QED
    BY <2>1, <2>2
<1>. QED
  BY <1>1, <1>3, SameItems, CalmKeeps DEF ClosesAnswered

LEMMA InsertKeeps == ListsInv /\ L!Insert => ListsInv'
<1>. SUFFICES ASSUME ListsInv, L!Insert PROVE ListsInv'
  OBVIOUS
<1>. ListsTyped /\ ListsTyped' /\ Wider
  BY InsertTyped DEF ListsInv
<1>. DEFINE n == Len(items) + 1
<1>1. PICK it \in ItemShape :
    /\ it = L!Item(inserting.list, inserting.line, inserting.from) /\ inserting.list \in DOMAIN lists
    /\ inserting.from \in {0} \cup DOMAIN items
    /\ items' \in Seq(ItemShape) /\ DOMAIN items' = DOMAIN items \cup {n} /\ n \notin DOMAIN items
    /\ items'[n] = it
    /\ \A i \in DOMAIN items :
         items'[i] = IF i = inserting.from THEN [items[i] EXCEPT !.asked = "no"] ELSE items[i]
  BY InsertWrites
<1>2. /\ UNCHANGED <<policy, lists, hook, questions, dropped, told, rolled, unmade, edits, broken>>
      /\ behind' = IF L!Behind(inserting.list) THEN behind \cup {n} ELSE behind
  BY DEF L!Insert
<1>. HIDE DEF n
<1>3. it.asked = "no" /\ ~it.waited /\ it.list = inserting.list /\ it.from = inserting.from
  BY <1>1, FreshItem
<1>4. ASSUME NEW i \in DOMAIN items
      PROVE  /\ items'[i].list = items[i].list /\ items'[i].from = items[i].from /\ items'[i].done = items[i].done
             /\ items'[i].waited = items[i].waited
             /\ items'[i].asked # items[i].asked => items'[i].asked = "no" /\ i = inserting.from
  <2>1. items[i] \in ItemShape
    BY ItemOf DEF ListsTyped
  <2>2. CASE i = inserting.from
    <3>1. items'[i] = [items[i] EXCEPT !.asked = "no"]
      BY <1>1, <2>2
    <3>. QED
      BY <2>1, <2>2, <3>1 DEF ItemShape
  <2>3. CASE i # inserting.from
    <3>1. items'[i] = items[i]
      BY <1>1, <2>3
    <3>. QED
      BY <3>1
  <2>. QED
    BY <2>2, <2>3
<1>5. Grows
  BY <1>2, <1>4 DEF Grows
<1>6. ASSUME NEW i \in DOMAIN items' PROVE Unasked(i)
  <2>1. CASE i = n
    <3>1. i \in behind' \/ (items'[i].list \notin rolled' /\ lists'[items'[i].list] = "open")
      BY <1>1, <1>2, <1>3, <2>1 DEF L!Behind
    <3>. QED
      BY <1>1, <1>3, <2>1, <3>1 DEF Unasked
  <2>2. CASE i # n
    <3>1. i \in DOMAIN items
      BY <1>1, <2>2
    <3>2. i = inserting.from => L!Carried(i)'
      BY <1>1, <1>3 DEF L!Carried
    <3>. QED
      BY <1>4, <3>1, <3>2 DEF Unasked, Excused
  <2>. QED
    BY <2>1, <2>2
<1>. QED
  BY <1>2, <1>5, <1>6, SameLists, CalmKeeps DEF Calm

\* A list that a tick closes has no other item open.
LEMMA DoneKeeps ==
  ASSUME ListsInv, NEW i \in DOMAIN items, items[i].list # 0, L!Done(i), ListsTyped', Wider,
         UNCHANGED <<policy, hook, dropped, told, behind, rolled>>
  PROVE  ListsInv'
<1>. ListsTyped
  BY DEF ListsInv
<1>. DEFINE it == [items[i] EXCEPT !.done = TRUE]
<1>1. items[i] \in ItemShape /\ items[i].list \in DOMAIN lists
  BY ItemOf DEF ListsTyped
<1>2. it.list = items[i].list /\ it.from = items[i].from /\ it.asked = items[i].asked /\ it.waited = items[i].waited /\ it.done
  BY <1>1 DEF ItemShape
<1>3. items' = [items EXCEPT ![i] = it]
  BY DEF L!Done
<1>. HIDE DEF it
<1>4. DOMAIN items' = DOMAIN items /\ items'[i] = it /\ \A j \in DOMAIN items \ {i} : items'[j] = items[j]
  BY <1>3 DEF ListsTyped, ItemsTyped
<1>5. Grows
  BY <1>2, <1>4 DEF Grows
<1>6. ASSUME NEW j \in DOMAIN items' PROVE Unasked(j)
  <2>1. CASE j = i
    BY <1>2, <1>4, <2>1 DEF Unasked
  <2>2. CASE j # i
    BY <1>4, <2>2 DEF Unasked
  <2>. QED
    BY <2>1, <2>2
<1>7. ASSUME NEW j \in DOMAIN items, items[j].list # 0, ~items[j].done, ~items'[j].done
      PROVE  lists'[items[j].list] = lists[items[j].list]
  <2>1. j # i
    BY <1>2, <1>4, <1>7
  <2>2. items[j].list \in DOMAIN lists
    BY <1>7, ItemOf DEF ListsTyped
  <2>3. CASE items[j].list = items[i].list
    <3>1. j \in L!Undone(items[i].list)
      BY <1>7, <2>3 DEF L!Undone, L!On
    <3>. QED
      BY <2>1, <3>1 DEF L!Done
  <2>4. CASE items[j].list # items[i].list
    BY <1>1, <2>2, <2>4 DEF L!Done, ListsTyped, ItemsTyped
  <2>. QED
    BY <2>3, <2>4
<1>. QED
  BY <1>5, <1>6, <1>7, CalmKeeps DEF Calm, ClosesAnswered

LEMMA RequestKeeps ==
  ASSUME ListsInv,
         \/ \E i \in DOMAIN items : L!Check(i) \/ L!Uncheck(i) \/ L!PressDone(i) \/ L!PressDrop(i) \/ L!PressCarry(i)
         \/ \E line \in Lines : L!AddItem(line) \/ \E h \in Hints : L!UpdateItem(h, line)
         \/ \E h \in Hints : L!RemoveItem(h)
  PROVE  ListsInv'
<1>. ListsTyped /\ ListsTyped' /\ Wider
  BY RequestTyped DEF ListsInv
<1>. ItemsTyped
  BY DEF ListsTyped
<1>1. ASSUME NEW i \in DOMAIN items, L!Check(i) \/ L!PressDone(i) PROVE ListsInv'
  BY <1>1, DoneKeeps DEF L!Check, L!PressDone, L!Pressed
<1>2. ASSUME NEW i \in DOMAIN items, L!Uncheck(i) PROVE ListsInv'
  <2>. DEFINE it == [items[i] EXCEPT !.done = FALSE]
  <2>1. items[i] \in ItemShape /\ Rewritten(i, it) /\ Like(it, items[i])
    BY <1>2, ItemWrites, ItemOf DEF L!Uncheck, Rewritten
  <2>2. it.waited = items[i].waited /\ it.asked = items[i].asked
    BY <2>1 DEF ItemShape
  <2>3. i \in behind' \/ (items[i].list \notin rolled /\ lists[items[i].list] = "open")
    BY <1>2 DEF L!Uncheck, L!Behind
  <2>4. behind \subseteq behind' /\ UNCHANGED <<policy, hook, told, rolled, dropped>>
    BY <1>2 DEF L!Uncheck
  <2>. HIDE DEF it
  <2>. QED
    BY <2>1, <2>2, <2>3, <2>4, OneItem, CalmKeeps
<1>3. ASSUME NEW i \in DOMAIN items, L!PressDrop(i) PROVE ListsInv'
  <2>. DEFINE it == [items[i] EXCEPT !.asked = "no"]
  <2>1. items[i] \in ItemShape /\ Rewritten(i, it) /\ Like(it, items[i])
    BY <1>3, ItemWrites, ItemOf DEF L!PressDrop, Rewritten
  <2>2. it.waited = items[i].waited /\ it.asked = "no" /\ it.done = items[i].done
    BY <2>1 DEF ItemShape
  <2>3. dropped' = dropped \cup {i} /\ UNCHANGED <<policy, hook, told, rolled, behind>>
    BY <1>3 DEF L!PressDrop
  <2>. HIDE DEF it
  <2>. QED
    BY <2>1, <2>2, <2>3, OneItem, CalmKeeps
<1>4. ASSUME NEW i \in DOMAIN items, NEW it, Rewritten(i, it), Like(it, items[i]), it.waited = items[i].waited,
             it.asked = items[i].asked, it.done = items[i].done,
             UNCHANGED <<policy, hook, told, rolled, behind, dropped>>
      PROVE  ListsInv'
  BY <1>4, OneItem, CalmKeeps
<1>5. ASSUME NEW h \in Hints, L!RemoveItem(h) PROVE ListsInv'
  <2>1. PICK i \in L!Found(h, L!Max(L!Opened)) : items' = [items EXCEPT ![i].list = 0]
    BY <1>5 DEF L!RemoveItem
  <2>. DEFINE it == [items[i] EXCEPT !.list = 0]
  <2>2. i \in DOMAIN items /\ items[i] \in ItemShape /\ Rewritten(i, it)
    BY <1>5, <2>1, ItemOf DEF L!RemoveItem, Rewritten, L!Found, L!On
  <2>3. Like(it, items[i])
    BY <2>2, ItemWrites
  <2>4. it.waited = items[i].waited /\ it.asked = items[i].asked /\ it.done = items[i].done
    BY <2>2 DEF ItemShape
  <2>. HIDE DEF it
  <2>. QED
    BY <1>4, <1>5, <2>2, <2>3, <2>4 DEF L!RemoveItem
<1>6. ASSUME NEW h \in Hints, NEW line \in Lines, L!UpdateItem(h, line) PROVE ListsInv'
  <2>1. PICK i \in L!Found(h, L!Max(L!Opened)) : items' = [items EXCEPT ![i].line = line]
    BY <1>6 DEF L!UpdateItem
  <2>. DEFINE it == [items[i] EXCEPT !.line = line]
  <2>2. i \in DOMAIN items /\ items[i] \in ItemShape /\ Rewritten(i, it)
    BY <1>6, <2>1, ItemOf DEF L!UpdateItem, Rewritten, L!Found, L!On
  <2>3. Like(it, items[i])
    BY <2>2, ItemWrites
  <2>4. it.waited = items[i].waited /\ it.asked = items[i].asked /\ it.done = items[i].done
    BY <2>2 DEF ItemShape
  <2>. HIDE DEF it
  <2>. QED
    BY <1>4, <1>6, <2>2, <2>3, <2>4 DEF L!UpdateItem
<1>7. ASSUME UNCHANGED <<policy, lists, items, hook, questions, dropped, told, behind, rolled>> PROVE ListsInv'
  BY <1>7, SameItems, SameLists, CalmKeeps
<1>. QED
  BY <1>1, <1>2, <1>3, <1>5, <1>6, <1>7 DEF L!AddItem, L!PressCarry

LEMMA ListsKept == ListsInv /\ (L!Next \/ UNCHANGED L!vars) => ListsInv'
<1>. SUFFICES ASSUME ListsInv, L!Next \/ UNCHANGED L!vars PROVE ListsInv'
  OBVIOUS
<1>1. CASE L!BreakOff \/ UNCHANGED L!vars
  <2>1. ListsTyped' /\ Wider
    BY ListsStayTyped DEF ListsInv
  <2>2. UNCHANGED <<policy, lists, items, dropped, told, behind, rolled>> /\ (UNCHANGED hook \/ HookInv')
    BY <1>1 DEF L!BreakOff, L!vars, HookInv, L!AtRest
  <2>. QED
    BY <2>1, <2>2, SameItems, SameLists, CalmKeeps
<1>. QED
  BY <1>1, FireKeeps, ReadKeeps, RolloverKeeps, WaitKeeps, TimeoutKeeps, InsertKeeps, RequestKeeps DEF L!Next

LEMMA InitLists == L!Init => ListsInv
<1>. SUFFICES ASSUME L!Init PROVE ListsInv
  OBVIOUS
<1>1. /\ policy \in Policies /\ lists = <<"open">> /\ items = L!Copied(1) /\ hook = L!AtRest /\ inserting = L!Nothing
      /\ questions = {} /\ dropped = {} /\ told = {} /\ behind = {} /\ rolled = {}
      /\ unmade = FALSE /\ edits = 0 /\ broken = 0
  BY DEF L!Init
<1>2. lists \in Seq({"open", "closed", "expired"}) /\ Len(lists) = 1 /\ DOMAIN lists = {1} /\ lists[1] = "open"
  BY <1>1
<1>3. items \in Seq(ItemShape) /\ \A i \in DOMAIN items : Fits(items[i], 1, i)
  <2>1. 1 \in Nat
    OBVIOUS
  <2>2. /\ L!Copied(1) \in Seq(ItemShape)
        /\ \A j \in DOMAIN L!Copied(1) : \A i \in Nat \ {0} : Fits(L!Copied(1)[j], 1, i)
    BY <2>1, CopiedFits
  <2>3. DOMAIN L!Copied(1) \subseteq Nat \ {0}
    BY <2>2
  <2>. QED
    BY <1>1, <2>2, <2>3
<1>4. ItemsTyped
  BY <1>2, <1>3, ListsAssumed DEF ItemsTyped
<1>5. HookTyped
  <2>1. hook.at = "rest" /\ hook.new = 0 /\ hook.prev = 0 /\ hook.open = <<>>
    BY <1>1 DEF L!AtRest
  <2>2. DOMAIN hook.open = {}
    BY <2>1
  <2>. QED
    BY <1>1, <1>2, <2>1, <2>2, RestFits DEF HookTyped
<1>6. InsertingTyped /\ SetsTyped
  <2>1. edits \in 0 .. MaxEdits /\ broken \in 0 .. MaxBroken
    BY <1>1, ListsAssumed
  <2>2. SetsTyped
    BY <1>1, <2>1 DEF SetsTyped
  <2>. QED
    BY <1>1, <2>2 DEF InsertingTyped
<1>7. \A i \in DOMAIN items : items[i].asked = "no" /\ ~items[i].waited /\ items[i].list = 1
  <2>1. \A i \in DOMAIN items : items[i] = L!Item(1, Template[i], 0)
    BY <1>1, ListsAssumed DEF L!Copied
  <2>. QED
    BY <2>1, FreshItem
<1>8. QuestionsInv
  BY <1>7 DEF QuestionsInv, QuestionInv, Put
<1>9. L!NoSilentLoss
  BY <1>2, <1>7 DEF L!NoSilentLoss
<1>10. HookInv
  BY <1>1 DEF HookInv, L!AtRest
<1>. QED
  BY <1>4, <1>5, <1>6, <1>8, <1>9, <1>10 DEF ListsInv, ListsTyped

LEMMA ListsSound == ListsInv => ListsAreSound
  BY ListsTypedSound DEF ListsInv, ListsAreSound

-----------------------------------------------------------------------------
(* Drafts.  A draft that is confirmed, and every thread that is at it and  *)
(* may yet mail it or give its claim back, is worth one mail: a step may   *)
(* pass that on, but only a confirmation adds to it.                       *)

LEMMA DraftsAssumed ==
  /\ NoDraft \notin Draft /\ NoThread \notin Threads /\ IsFiniteSet(Threads)
  /\ MaxVersions \in Nat /\ DraftTaps \in Nat /\ MaxSlow \in Nat /\ MaxFaults \in Nat
  BY OwnersDeskAssumption DEF D!DraftsAssumption, D!IsFiniteSet, IsFiniteSet

\* What the loop and the chat keep has its type.
LoopTyped ==
  /\ keyboard \subseteq Draft /\ tapping \in D!Tap \cup {D!NoTap}
  /\ loopAt \in {"idle", "preview", "tap", "send", "wait"}
  /\ current \in Draft \cup {NoDraft} /\ (loopAt # "idle" => current \in Draft)
  /\ waits \in Threads \cup {NoThread} /\ (loopAt = "wait" <=> waits # NoThread)
  /\ tapped \in 0 .. DraftTaps /\ slow \in 0 .. MaxSlow /\ faults \in 0 .. MaxFaults

\* So do the rows and the threads, each with a draft that was composed.
RowsTyped ==
  /\ draft \in [Draft -> {"none", "pending", "confirmed", "sending", "sent", "discarded"}]
  /\ composed \in 0 .. MaxVersions /\ content \in [Draft -> 0 .. composed]
  /\ \A d \in Draft : draft[d] # "none" => content[d] > 0
  /\ thread \in [Threads -> D!Sending \cup {D!Free}]
  /\ \A t \in Threads : thread[t] # D!Free => content[thread[t].draft] > 0
  /\ waits # NoThread => thread[waits] # D!Free
  /\ confirms \in [Draft -> [D!Version -> Nat]] /\ mails \in [Draft -> [D!Version -> Nat]]
  /\ agreed \in [Draft -> Nat] /\ mailed \in [Draft -> Nat]
DraftsTyped == LoopTyped /\ RowsTyped

\* What a thread may be at.
LEMMA FreeAt == D!Free.at = "free"
  BY DEF D!Free
LEMMA SendParts ==
  ASSUME NEW s \in D!Sending \cup {D!Free}
  PROVE  /\ s = D!Free \/ s.draft \in Draft
         /\ s.at # "free" => s # D!Free
         /\ s.at \in {"mail", "record ok", "record failed"} => s.version \in D!Version
<1>1. CASE s \in [at : {"claim", "read", "done ok", "done failed"}, draft : Draft]
  <2>1. s.at \in {"claim", "read", "done ok", "done failed"} /\ s.draft \in Draft
    BY <1>1
  <2>2. s.at # "free" /\ s.at \notin {"mail", "record ok", "record failed"}
    BY <2>1
  <2>. QED
    BY <2>1, <2>2, FreeAt
<1>2. CASE s \in [at : {"mail", "record ok", "record failed"}, draft : Draft, version : D!Version]
  <2>1. s.at \in {"mail", "record ok", "record failed"} /\ s.draft \in Draft /\ s.version \in D!Version
    BY <1>2
  <2>2. s.at # "free"
    BY <2>1
  <2>. QED
    BY <2>1, <2>2, FreeAt
<1>3. CASE s = D!Free
  BY <1>3, FreeAt
<1>. QED
  BY <1>1, <1>2, <1>3 DEF D!Sending

LEMMA Sendings ==
  ASSUME NEW d \in Draft
  PROVE  /\ \A a \in {"claim", "read", "done ok", "done failed"} : [at |-> a, draft |-> d] \in D!Sending
         /\ \A a \in {"mail", "record ok", "record failed"}, v \in D!Version :
              [at |-> a, draft |-> d, version |-> v] \in D!Sending
  BY DEF D!Sending
LEMMA SendingIsNotFree ==
  ASSUME NEW s \in D!Sending PROVE s # D!Free
<1>1. s.at # "free"
  <2>1. CASE s \in [at : {"claim", "read", "done ok", "done failed"}, draft : Draft]
    BY <2>1
  <2>2. CASE s \in [at : {"mail", "record ok", "record failed"}, draft : Draft, version : D!Version]
    BY <2>2
  <2>. QED
    BY <2>1, <2>2 DEF D!Sending
<1>. QED
  BY <1>1 DEF D!Free

LEMMA VersionsAre == D!Version = 1 .. MaxVersions
  BY DEF D!Version
LEMMA ContentVersion ==
  ASSUME RowsTyped, NEW d \in Draft, content[d] > 0
  PROVE  content[d] \in D!Version
<1>1. content[d] \in 0 .. composed /\ composed \in 0 .. MaxVersions
  BY DEF RowsTyped
<1>. QED
  BY <1>1, VersionsAre, DraftsAssumed
LEMMA FaultCounted ==
  faults \in 0 .. MaxFaults /\ (D!Fault \/ D!NoFault) => faults' \in 0 .. MaxFaults /\ faults' >= faults
  BY DraftsAssumed DEF D!Fault, D!NoFault

\* A call is given to a thread that is free, or refused.
Submits(t) ==
  /\ thread[t] = D!Free /\ thread' = [thread EXCEPT ![t] = [at |-> "claim", draft |-> current]] /\ waits' = t
  /\ loopAt' = "wait" /\ draft[current] = "confirmed" /\ UNCHANGED <<tapping, current, faults>>
Refuses == (D!Fault \/ D!NoFault) /\ D!Answered /\ UNCHANGED <<thread, waits>>
LEMMA SubmitShapes ==
  ASSUME D!Submit
  PROVE  /\ loopAt = "send" /\ UNCHANGED <<D!row, D!chat, D!history, slow>>
         /\ (\E t \in Threads : Submits(t)) \/ Refuses
<1>1. loopAt = "send" /\ UNCHANGED <<D!row, D!chat, D!history, slow>>
  BY DEF D!Submit
<1>. DEFINE t == CHOOSE u \in Threads : thread[u] = D!Free
<1>2. CASE /\ D!NoFault /\ draft[current] = "confirmed" /\ \E u \in Threads : thread[u] = D!Free
           /\ thread' = D!Set(thread, t, [at |-> "claim", draft |-> current]) /\ waits' = t
           /\ loopAt' = "wait" /\ UNCHANGED <<tapping, current>>
  <2>1. t \in Threads /\ thread[t] = D!Free
    BY <1>2
  <2>. HIDE DEF t
  <2>. QED
    BY <1>1, <1>2, <2>1 DEF Submits, D!Set, D!NoFault
<1>3. CASE (D!Fault \/ D!NoFault) /\ D!Answered /\ UNCHANGED <<thread, waits>>
  BY <1>1, <1>3 DEF Refuses
<1>. QED
  BY <1>2, <1>3 DEF D!Submit

\* Steps of the chat and the loop that give no thread anything to do.
Chats == \/ \E d \in Draft : D!Compose(d) \/ D!ChatConfirm(d) \/ D!ChatSend(d) \/ D!ChatDiscard(d)
         \/ \E b \in D!Button, d \in Draft : D!TakeTap(b, d)
         \/ D!Preview \/ D!TapSend \/ D!TapStale \/ D!TapDiscard \/ D!TapLeave
         \/ D!Submit /\ Refuses

\* What they do to the rows: a new version, a confirmation, a discarded draft or nothing.
Composes(d) ==
  /\ composed' = composed + 1 /\ D!Upsert(d) /\ composed < MaxVersions
  /\ UNCHANGED <<confirms, agreed, faults>>
Confirms(d) == D!Confirm(d) /\ UNCHANGED <<content, composed, faults>>
Discards(d) == D!Discard(d) /\ UNCHANGED <<content, composed, confirms, agreed, faults>>
Leaves ==
  /\ UNCHANGED <<D!row, D!history, thread, waits, slow>> /\ loopAt # "wait" /\ loopAt' # "wait"
  /\ D!Fault \/ D!NoFault
Nothing ==
  /\ UNCHANGED <<draft, content, confirms, agreed>> /\ composed' \in {composed, composed + 1} /\ composed' <= MaxVersions
  /\ D!Fault \/ D!NoFault

LEMMA ChatShapes ==
  ASSUME DraftsTyped, Chats
  PROVE  /\ UNCHANGED <<thread, waits, mails, mailed, slow>> /\ loopAt # "wait" /\ loopAt' # "wait"
         /\ \/ (\E d \in Draft : Composes(d) \/ Confirms(d) \/ Discards(d)) \/ Nothing
<1>1. ASSUME NEW d \in Draft, D!Compose(d)
      PROVE  UNCHANGED <<thread, waits, mails, mailed, slow>> /\ loopAt # "wait" /\ loopAt' # "wait" /\ (Composes(d) \/ Nothing)
  <2>1. CASE D!NoFault /\ D!Upsert(d)
    BY <1>1, <2>1 DEF D!Compose, D!history, D!chat, Composes, D!NoFault
  <2>2. CASE D!Fault /\ UNCHANGED <<content, draft>>
    BY <1>1, <2>2, DraftsAssumed DEF D!Compose, D!history, D!chat, Nothing, DraftsTyped, RowsTyped
  <2>. QED
    BY <1>1, <2>1, <2>2 DEF D!Compose, D!history
<1>2. ASSUME NEW d \in Draft, D!ChatConfirm(d) \/ D!ChatDiscard(d)
      PROVE  /\ UNCHANGED <<thread, waits, mails, mailed, slow>> /\ loopAt # "wait" /\ loopAt' # "wait"
             /\ Confirms(d) \/ Discards(d)
  BY <1>2 DEF D!ChatConfirm, D!ChatDiscard, D!history, D!loop, Confirms, Discards
<1>3. CASE D!TapSend
  <2>1. current \in Draft
    BY <1>3 DEF D!TapSend, DraftsTyped, LoopTyped
  <2>. QED
    BY <1>3, <2>1 DEF D!TapSend, Confirms
<1>4. CASE D!TapDiscard
  <2>1. current \in Draft
    BY <1>4 DEF D!TapDiscard, DraftsTyped, LoopTyped
  <2>2. composed <= MaxVersions
    BY DraftsAssumed DEF DraftsTyped, RowsTyped
  <2>3. Discards(current) \/ Nothing
    BY <1>4, <2>2 DEF D!TapDiscard, Discards, Nothing, D!NoFault, D!history
  <2>. QED
    BY <1>4, <2>1, <2>3 DEF D!TapDiscard, D!Answered, D!history
<1>5. CASE Leaves
  <2>1. composed <= MaxVersions
    BY DraftsAssumed DEF DraftsTyped, RowsTyped
  <2>. QED
    BY <1>5, <2>1 DEF Leaves, Nothing, D!row, D!history
<1>6. ASSUME NEW d \in Draft, D!ChatSend(d) \/ \E b \in D!Button : D!TakeTap(b, d) PROVE Leaves
  BY <1>6 DEF D!ChatSend, D!TakeTap, D!NoFault, Leaves
<1>8. CASE D!Submit /\ Refuses
  BY <1>5, <1>8, SubmitShapes DEF Refuses, Leaves, D!Answered
<1>7. CASE D!Preview \/ D!TapStale \/ D!TapLeave
  <2>1. Leaves
    BY <1>7 DEF D!Preview, D!TapStale, D!TapLeave, D!Answered, D!NoFault, Leaves
  <2>. QED
    BY <1>5, <2>1
<1>. QED
  BY <1>1, <1>2, <1>3, <1>4, <1>5, <1>6, <1>7, <1>8 DEF Chats

\* What a step of a thread does, by what the thread is at before, old, and after, s, with draft d.
Claimed(d, old, s) ==
  /\ old.at = "claim" /\ s.at = "read" /\ draft[d] = "confirmed" /\ draft' = [draft EXCEPT ![d] = "sending"]
  /\ UNCHANGED <<mails, mailed, faults>>
GaveBack(d, old, s) ==
  /\ old.at \in {"read", "record failed"} /\ s.at = "done failed" /\ draft' = D!Reverted(d)
  /\ UNCHANGED <<mails, mailed, faults>>
ReadIt(d, old, s) ==
  /\ old.at = "read" /\ s.at = "mail" /\ s.version = content[d]
  /\ UNCHANGED <<draft, mails, mailed, faults>>
MailedIt(d, old, s) ==
  /\ old.at = "mail" /\ s.version = old.version /\ D!Mailed(d, old.version) /\ UNCHANGED draft
  /\ \/ s.at = "record ok" /\ UNCHANGED faults
     \/ s.at = "record failed" /\ faults' = faults + 1
NotMailed(d, old, s) ==
  /\ old.at = "mail" /\ s.at = "record failed" /\ s.version = old.version
  /\ UNCHANGED <<draft, mails, mailed, faults>>
SentIt(d, old, s) ==
  /\ old.at = "record ok" /\ s.at = "done ok" /\ draft' = [draft EXCEPT ![d] = "sent"]
  /\ UNCHANGED <<mails, mailed, faults>>
Ends(d, old, s) ==
  /\ old.at \in {"claim", "record ok", "record failed", "done ok", "done failed"} /\ s.at \in {"done failed", "free"}
  /\ UNCHANGED <<draft, mails, mailed>>
  /\ \/ faults' = faults + 1
     \/ UNCHANGED faults /\ old.at \in {"claim", "done ok", "done failed"}
Sends(d, old, s) ==
  \/ Claimed(d, old, s) \/ GaveBack(d, old, s) \/ ReadIt(d, old, s) \/ MailedIt(d, old, s) \/ NotMailed(d, old, s)
  \/ SentIt(d, old, s) \/ Ends(d, old, s)

\* Where the loop is then.
GoesOn(t, s) ==
  /\ s \in D!Sending \cup {D!Free} /\ thread' = [thread EXCEPT ![t] = s] /\ (s = D!Free \/ s.draft = thread[t].draft)
  /\ UNCHANGED <<content, composed, confirms, agreed, slow, keyboard, tapped>>
  /\ \/ UNCHANGED <<loopAt, tapping, current, waits>> /\ (s = D!Free => waits # t)
     \/ s = D!Free /\ waits = t /\ waits' = NoThread /\ D!Answered

LEMMA SendShapes ==
  ASSUME DraftsTyped, NEW t \in Threads, D!ThreadStep(t)
  PROVE  /\ thread[t] # D!Free /\ thread[t].draft \in Draft
         /\ \E s : GoesOn(t, s) /\ Sends(thread[t].draft, thread[t], s)
<1>. DEFINE d == thread[t].draft
            v == thread[t].version
<1>1. thread[t] \in D!Sending \cup {D!Free} /\ thread[t] # D!Free /\ d \in Draft
  <2>1. thread[t] \in D!Sending \cup {D!Free}
    BY DEF DraftsTyped, RowsTyped
  <2>. QED
    BY <2>1, SendParts DEF D!ThreadStep
<1>. SUFFICES \E s : GoesOn(t, s) /\ Sends(d, thread[t], s)
  BY <1>1
<1>2. thread[t].at \in {"mail", "record ok", "record failed"} => v \in D!Version
  BY <1>1, SendParts
<1>3. content[d] \in D!Version
  <2>1. content[d] > 0 /\ RowsTyped
    BY <1>1 DEF DraftsTyped, RowsTyped
  <2>. QED
    BY <1>1, <2>1, ContentVersion
<1>. DEFINE At(a)      == [at |-> a, draft |-> d]
            AtOf(a, w) == [at |-> a, draft |-> d, version |-> w]
<1>4. /\ \A a \in {"claim", "read", "done ok", "done failed"} : At(a) \in D!Sending /\ At(a).at = a /\ At(a).draft = d
      /\ \A a \in {"mail", "record ok", "record failed"}, w \in D!Version :
            AtOf(a, w) \in D!Sending /\ AtOf(a, w).at = a /\ AtOf(a, w).draft = d /\ AtOf(a, w).version = w
  BY <1>1, Sendings
<1>. DEFINE Still == UNCHANGED <<content, composed, confirms, agreed, slow, keyboard, tapped, loopAt, tapping, current, waits>>
<1>10. ASSUME Still, NEW a \in {"claim", "read", "done ok", "done failed"}, D!Goes(t, At(a)), Sends(d, thread[t], At(a))
       PROVE  \E s : GoesOn(t, s) /\ Sends(d, thread[t], s)
  <2>1. At(a) \in D!Sending /\ At(a) # D!Free /\ At(a).draft = d
    BY <1>4, SendingIsNotFree
  <2>. HIDE DEF At
  <2>2. GoesOn(t, At(a))
    BY <1>10, <2>1 DEF GoesOn, D!Goes, D!Set
  <2>. QED
    BY <1>10, <2>2
<1>11. ASSUME Still, NEW a \in {"mail", "record ok", "record failed"}, NEW w \in D!Version, D!Goes(t, AtOf(a, w)),
              Sends(d, thread[t], AtOf(a, w))
       PROVE  \E s : GoesOn(t, s) /\ Sends(d, thread[t], s)
  <2>1. AtOf(a, w) \in D!Sending /\ AtOf(a, w) # D!Free /\ AtOf(a, w).draft = d
    BY <1>4, SendingIsNotFree
  <2>. HIDE DEF AtOf
  <2>2. GoesOn(t, AtOf(a, w))
    BY <1>11, <2>1 DEF GoesOn, D!Goes, D!Set
  <2>. QED
    BY <1>11, <2>2
<1>. HIDE DEF At, AtOf
<1>5. CASE D!Claim(t)
  <2>1. /\ UNCHANGED <<content, composed, confirms, agreed, slow, keyboard, tapped, loopAt, tapping, current, waits, mails, mailed>>
        /\ thread[t].at = "claim"
    BY <1>5 DEF D!Claim, D!chat, D!loop, D!history
  <2>2. CASE D!NoFault /\ D!Claimable(d) /\ draft' = D!Set(draft, d, "sending") /\ D!Goes(t, At("read"))
    <3>1. Claimed(d, thread[t], At("read"))
      BY <1>4, <2>1, <2>2 DEF D!NoFault, D!Claimable, D!Set, Claimed
    <3>. QED
      BY <2>2, <2>1, <3>1, <1>10 DEF Sends
  <2>3. CASE (IF D!Claimable(d) THEN D!Fault ELSE D!NoFault) /\ D!Goes(t, At("done failed")) /\ UNCHANGED draft
    <3>1. Ends(d, thread[t], At("done failed"))
      BY <1>4, <2>1, <2>3 DEF D!NoFault, D!Fault, Ends
    <3>. QED
      BY <2>3, <2>1, <3>1, <1>10 DEF Sends
  <2>. QED
    BY <1>5, <2>2, <2>3 DEF D!Claim, D!Fails, At
<1>6. CASE D!Read(t)
  <2>1. /\ UNCHANGED <<content, composed, confirms, agreed, slow, keyboard, tapped, loopAt, tapping, current, waits, mails, mailed, faults>>
        /\ thread[t].at = "read"
    BY <1>6 DEF D!Read, D!chat, D!loop, D!history
  <2>2. CASE D!Goes(t, AtOf("mail", content[d])) /\ UNCHANGED draft
    <3>1. ReadIt(d, thread[t], AtOf("mail", content[d]))
      BY <1>3, <1>4, <2>1, <2>2 DEF ReadIt
    <3>. QED
      BY <1>3, <2>2, <2>1, <3>1, <1>11 DEF Sends
  <2>3. CASE D!Goes(t, At("done failed")) /\ draft' = D!Reverted(d)
    <3>1. GaveBack(d, thread[t], At("done failed"))
      BY <1>4, <2>1, <2>3 DEF GaveBack
    <3>. QED
      BY <2>3, <2>1, <3>1, <1>10 DEF Sends
  <2>. QED
    BY <1>6, <2>2, <2>3 DEF D!Read, D!Fails, At, AtOf
<1>7. CASE D!Mail(t)
  <2>1. /\ UNCHANGED <<draft, content, composed, confirms, agreed, slow, keyboard, tapped, loopAt, tapping, current, waits>>
        /\ thread[t].at = "mail"
    BY <1>7 DEF D!Mail, D!chat, D!loop, D!row
  <2>2. CASE D!NoFault /\ D!Mailed(d, v) /\ D!Goes(t, AtOf("record ok", v))
    <3>1. MailedIt(d, thread[t], AtOf("record ok", v))
      BY <1>2, <1>4, <2>1, <2>2 DEF D!NoFault, MailedIt
    <3>. QED
      BY <1>2, <2>2, <2>1, <3>1, <1>11 DEF Sends
  <2>3. CASE D!NoFault /\ UNCHANGED <<mails, mailed>> /\ D!Goes(t, AtOf("record failed", v))
    <3>1. NotMailed(d, thread[t], AtOf("record failed", v))
      BY <1>2, <1>4, <2>1, <2>3 DEF D!NoFault, NotMailed
    <3>. QED
      BY <1>2, <2>3, <2>1, <3>1, <1>11 DEF Sends
  <2>4. CASE D!Fault /\ D!Mailed(d, v) /\ D!Goes(t, AtOf("record failed", v))
    <3>1. MailedIt(d, thread[t], AtOf("record failed", v))
      BY <1>2, <1>4, <2>1, <2>4 DEF D!Fault, MailedIt
    <3>. QED
      BY <1>2, <2>4, <2>1, <3>1, <1>11 DEF Sends
  <2>. QED
    BY <1>7, <2>2, <2>3, <2>4 DEF D!Mail, AtOf
<1>8. CASE D!Record(t)
  <2>1. /\ UNCHANGED <<content, composed, confirms, agreed, slow, keyboard, tapped, loopAt, tapping, current, waits, mails, mailed>>
        /\ thread[t].at \in {"record ok", "record failed"}
    BY <1>8 DEF D!Record, D!chat, D!loop, D!history
  <2>2. CASE D!NoFault /\ thread[t].at = "record ok" /\ D!Goes(t, At("done ok")) /\ draft' = D!Set(draft, d, "sent")
    <3>1. SentIt(d, thread[t], At("done ok"))
      BY <1>4, <2>1, <2>2 DEF D!NoFault, D!Set, SentIt
    <3>. QED
      BY <2>2, <2>1, <3>1, <1>10 DEF Sends
  <2>3. CASE D!NoFault /\ thread[t].at = "record failed" /\ D!Goes(t, At("done failed")) /\ draft' = D!Reverted(d)
    <3>1. GaveBack(d, thread[t], At("done failed"))
      BY <1>4, <2>1, <2>3 DEF D!NoFault, GaveBack
    <3>. QED
      BY <2>3, <2>1, <3>1, <1>10 DEF Sends
  <2>4. CASE D!Fault /\ D!Goes(t, At("done failed")) /\ UNCHANGED draft
    <3>1. Ends(d, thread[t], At("done failed"))
      BY <1>4, <2>1, <2>4 DEF D!Fault, Ends
    <3>. QED
      BY <2>4, <2>1, <3>1, <1>10 DEF Sends
  <2>. QED
    BY <1>8, <2>1, <2>2, <2>3, <2>4 DEF D!Record, D!Fails, At
<1>9. CASE D!Return(t)
  <2>1. /\ UNCHANGED <<draft, content, composed, confirms, agreed, slow, keyboard, tapped, mails, mailed, faults>>
        /\ thread[t].at \in {"done ok", "done failed"} /\ D!Goes(t, D!Free)
        /\ IF waits = t THEN waits' = NoThread /\ D!Answered ELSE UNCHANGED <<loopAt, tapping, current, waits>>
    BY <1>9 DEF D!Return, D!chat, D!loop, D!history, D!row
  <2>2. GoesOn(t, D!Free)
    BY <2>1 DEF D!Goes, D!Set, GoesOn
  <2>3. Ends(d, thread[t], D!Free)
    BY <2>1, FreeAt DEF Ends
  <2>. QED
    BY <1>1, <2>2, <2>3 DEF Sends
<1>. QED
  BY <1>1, <1>5, <1>6, <1>7, <1>8, <1>9 DEF D!ThreadStep


LEMMA LoopStaysTyped ==
  ASSUME LoopTyped, D!Next \/ UNCHANGED D!vars
  PROVE  LoopTyped' /\ faults' >= faults
<1>. USE DraftsAssumed
<1>0. ASSUME D!Fault \/ D!NoFault PROVE faults' \in 0 .. MaxFaults /\ faults' >= faults
  BY <1>0, FaultCounted DEF LoopTyped
<1>. USE DEF LoopTyped, D!chat, D!loop
<1>1. ASSUME NEW d \in Draft, D!Compose(d) PROVE LoopTyped' /\ faults' >= faults
  BY <1>0, <1>1 DEF D!Compose
<1>2. ASSUME NEW d \in Draft, D!ChatConfirm(d) \/ D!ChatSend(d) \/ D!ChatDiscard(d) PROVE LoopTyped' /\ faults' >= faults
  BY <1>2 DEF D!ChatConfirm, D!ChatSend, D!ChatDiscard
<1>3. ASSUME NEW b \in D!Button, NEW d \in Draft, D!TakeTap(b, d) PROVE LoopTyped' /\ faults' >= faults
  BY <1>3 DEF D!TakeTap, D!Tap
<1>4. CASE D!Preview
  BY <1>0, <1>4 DEF D!Preview
<1>5. CASE D!TapSend
  BY <1>5 DEF D!TapSend
<1>6. CASE D!TapStale \/ D!TapDiscard \/ D!TapLeave
  <2>1. D!Answered /\ UNCHANGED <<keyboard, tapped, waits, slow>> /\ (D!Fault \/ D!NoFault) /\ loopAt = "tap"
    BY <1>6 DEF D!TapStale, D!TapDiscard, D!TapLeave, D!NoFault
  <2>. QED
    BY <1>0, <2>1 DEF D!Answered
<1>7. CASE D!Submit
  <2>1. ASSUME NEW t \in Threads, Submits(t) PROVE LoopTyped' /\ faults' >= faults
    BY <1>7, <2>1, SubmitShapes DEF Submits
  <2>2. CASE Refuses
    BY <1>0, <1>7, <2>2, SubmitShapes DEF Refuses, D!Answered
  <2>. QED
    BY <1>7, <2>1, <2>2, SubmitShapes
<1>8. CASE D!TimesOut
  BY <1>8 DEF D!TimesOut, D!Answered
<1>9. CASE D!Crash
  BY <1>0, <1>9 DEF D!Crash, D!Answered
<1>10. ASSUME NEW t \in Threads, D!ThreadStep(t) PROVE LoopTyped' /\ faults' >= faults
  <2>1. UNCHANGED <<keyboard, tapped, slow>> /\ (D!Fault \/ D!NoFault)
    BY <1>10 DEF D!ThreadStep, D!Claim, D!Read, D!Mail, D!Record, D!Return, D!NoFault
  <2>2. UNCHANGED <<loopAt, tapping, current, waits>> \/ (waits' = NoThread /\ D!Answered)
    BY <1>10 DEF D!ThreadStep, D!Claim, D!Read, D!Mail, D!Record, D!Return
  <2>. QED
    BY <1>0, <2>1, <2>2 DEF D!Answered
<1>11. CASE UNCHANGED D!vars
  BY <1>11 DEF D!vars
<1>. QED
  BY <1>1, <1>2, <1>3, <1>4, <1>5, <1>6, <1>7, <1>8, <1>9, <1>10, <1>11 DEF D!Next


\* Every step, by its shape.
Steps ==
  \/ Chats
  \/ D!Submit /\ \E t \in Threads : Submits(t)
  \/ \E t \in Threads : D!ThreadStep(t)
  \/ D!TimesOut \/ D!Crash \/ UNCHANGED D!vars
LEMMA NextSteps == DraftsTyped /\ (D!Next \/ UNCHANGED D!vars) => Steps
  BY SubmitShapes DEF D!Next, Steps, Chats

LEMMA CountTyped ==
  ASSUME NEW f \in [Draft -> [D!Version -> Nat]], NEW d \in Draft, NEW v \in D!Version
  PROVE  /\ D!Count(f, d, v) \in [Draft -> [D!Version -> Nat]]
         /\ D!Count(f, d, v)[d][v] = f[d][v] + 1
         /\ \A e \in Draft, w \in D!Version : e # d \/ w # v => D!Count(f, d, v)[e][w] = f[e][w]
<1>1. D!Count(f, d, v) = [f EXCEPT ![d] = [f[d] EXCEPT ![v] = f[d][v] + 1]]
  BY DEF D!Count
<1>2. [f[d] EXCEPT ![v] = f[d][v] + 1] \in [D!Version -> Nat]
  OBVIOUS
<1>. QED
  BY <1>1, <1>2

LEMMA UpsertTyped ==
  ASSUME RowsTyped, NEW d \in Draft, Composes(d)
  PROVE  /\ draft' \in [Draft -> {"none", "pending", "confirmed", "sending", "sent", "discarded"}]
         /\ composed' = composed + 1 /\ composed' \in 0 .. MaxVersions
         /\ content' = [content EXCEPT ![d] = composed'] /\ content' \in [Draft -> 0 .. composed']
         /\ draft'[d] = "pending" /\ \A e \in Draft \ {d} : draft'[e] \in {draft[e], "discarded"}
         /\ \A e \in Draft : draft'[e] # "none" => content'[e] > 0
<1>1. /\ composed' = composed + 1 /\ composed' \in 0 .. MaxVersions /\ composed' > 0 /\ composed \in Nat
      /\ content' = [content EXCEPT ![d] = composed']
  BY DraftsAssumed DEF RowsTyped, Composes, D!Upsert, D!Set
<1>2. content' \in [Draft -> 0 .. composed']
  BY <1>1 DEF RowsTyped
<1>3. draft' = [e \in Draft |-> IF e = d THEN "pending"
       ELSE IF draft[d] = "none" /\ To[e] = To[d] /\ draft[e] = "pending" THEN "discarded" ELSE draft[e]]
  BY DEF Composes, D!Upsert
<1>4. /\ draft' \in [Draft -> {"none", "pending", "confirmed", "sending", "sent", "discarded"}]
      /\ draft'[d] = "pending"
  BY <1>3 DEF RowsTyped
<1>5. ASSUME NEW e \in Draft \ {d} PROVE draft'[e] \in {draft[e], "discarded"} /\ (draft'[e] # "none" => draft[e] # "none")
  BY <1>3
<1>6. ASSUME NEW e \in Draft, draft'[e] # "none" PROVE content'[e] > 0
  BY <1>1, <1>5, <1>6 DEF RowsTyped
<1>. QED
  BY <1>1, <1>2, <1>4, <1>5, <1>6

LEMMA RowsStayTyped ==
  ASSUME DraftsTyped, D!Next \/ UNCHANGED D!vars
  PROVE  DraftsTyped' /\ faults' >= faults
<1>0. LoopTyped /\ RowsTyped /\ LoopTyped' /\ faults' >= faults
  BY LoopStaysTyped DEF DraftsTyped
<1>. SUFFICES RowsTyped'
  BY <1>0 DEF DraftsTyped
<1>. USE <1>0
<1>1. CASE Chats
  <2>0. UNCHANGED <<thread, waits, mails, mailed, slow>>
    BY <1>1, ChatShapes
  <2>1. ASSUME NEW d \in Draft, Composes(d) PROVE RowsTyped'
    <3>1. ASSUME NEW t \in Threads, thread'[t] # D!Free PROVE content'[thread'[t].draft] > 0
      <4>1. thread[t].draft \in Draft /\ content[thread[t].draft] > 0
        BY <2>0, <3>1, SendParts DEF RowsTyped
      <4>2. composed' > 0
        BY <2>1 DEF Composes, RowsTyped
      <4>3. thread'[t].draft = thread[t].draft /\ content' = [content EXCEPT ![d] = composed']
        BY <2>0, <2>1, UpsertTyped
      <4>. QED
        BY <4>1, <4>2, <4>3 DEF RowsTyped
    <3>2. UNCHANGED <<confirms, agreed>>
      BY <2>1 DEF Composes
    <3>. QED
      BY <2>0, <2>1, <3>1, <3>2, UpsertTyped DEF RowsTyped
  <2>2. ASSUME NEW d \in Draft, Confirms(d) PROVE RowsTyped'
    <3>1. /\ draft[d] = "pending" /\ draft' = [draft EXCEPT ![d] = "confirmed"] /\ agreed' = [agreed EXCEPT ![d] = agreed[d] + 1]
          /\ confirms' = D!Count(confirms, d, content[d]) /\ UNCHANGED <<content, composed>>
      BY <2>2 DEF Confirms, D!Confirm, D!Confirmable, D!Set
    <3>2. content[d] \in D!Version
      <4>1. content[d] > 0
        BY <3>1 DEF RowsTyped
      <4>. QED
        BY <4>1, ContentVersion
    <3>3. confirms' \in [Draft -> [D!Version -> Nat]]
      BY <3>1, <3>2, CountTyped DEF RowsTyped
    <3>4. agreed' \in [Draft -> Nat]
      BY <3>1 DEF RowsTyped
    <3>. QED
      BY <2>0, <3>1, <3>3, <3>4 DEF RowsTyped
  <2>3. ASSUME NEW d \in Draft, Discards(d) PROVE RowsTyped'
    BY <2>0, <2>3 DEF Discards, D!Discard, D!Set, RowsTyped
  <2>4. CASE Nothing
    <3>1. composed' \in 0 .. MaxVersions /\ content \in [Draft -> 0 .. composed']
      BY <2>4, DraftsAssumed DEF Nothing, RowsTyped
    <3>. QED
      BY <2>0, <2>4, <3>1 DEF Nothing, RowsTyped
  <2>. QED
    BY <1>1, <2>1, <2>2, <2>3, <2>4, ChatShapes
<1>2. ASSUME NEW t \in Threads, D!Submit, Submits(t) PROVE RowsTyped'
  <2>1. UNCHANGED <<draft, content, composed, confirms, agreed, mails, mailed>> /\ loopAt = "send"
    BY <1>2, SubmitShapes DEF D!row, D!history
  <2>2. /\ current \in Draft /\ content[current] > 0
    BY <1>2, <2>1 DEF LoopTyped, RowsTyped, Submits
  <2>. DEFINE s == [at |-> "claim", draft |-> current]
  <2>3. s \in D!Sending /\ s # D!Free /\ s.draft = current
    BY <2>2, Sendings, SendingIsNotFree
  <2>. HIDE DEF s
  <2>4. thread' = [thread EXCEPT ![t] = s] /\ waits' = t
    BY <1>2 DEF Submits, s
  <2>5. thread' \in [Threads -> D!Sending \cup {D!Free}] /\ thread'[t] = s
    BY <2>3, <2>4 DEF RowsTyped
  <2>6. \A u \in Threads : thread'[u] # D!Free => content[thread'[u].draft] > 0
    BY <2>2, <2>3, <2>4 DEF RowsTyped
  <2>. QED
    BY <2>1, <2>3, <2>4, <2>5, <2>6 DEF RowsTyped
<1>3. ASSUME NEW t \in Threads, D!ThreadStep(t) PROVE RowsTyped'
  <2>. DEFINE d == thread[t].draft
  <2>1. PICK s : GoesOn(t, s) /\ Sends(d, thread[t], s)
    BY <1>3, SendShapes DEF DraftsTyped
  <2>2. thread[t] # D!Free /\ d \in Draft /\ content[d] > 0
    BY <1>3, SendShapes DEF DraftsTyped, RowsTyped
  <2>3. UNCHANGED <<content, composed, confirms, agreed>>
    BY <2>1 DEF GoesOn
  <2>4. /\ thread' \in [Threads -> D!Sending \cup {D!Free}] /\ thread'[t] = s
        /\ \A u \in Threads \ {t} : thread'[u] = thread[u]
    BY <2>1 DEF GoesOn, RowsTyped
  <2>5. \A u \in Threads : thread'[u] # D!Free => content'[thread'[u].draft] > 0
    BY <2>1, <2>2, <2>3, <2>4 DEF GoesOn, RowsTyped
  <2>6. waits' # NoThread => thread'[waits'] # D!Free
    BY <2>1, <2>4 DEF GoesOn, RowsTyped, LoopTyped
  <2>7. /\ draft' \in [Draft -> {"none", "pending", "confirmed", "sending", "sent", "discarded"}]
        /\ \A e \in Draft : draft'[e] # "none" => content[e] > 0
    <3>1. UNCHANGED draft \/ \E x \in {"sending", "sent", "confirmed"} : draft' = [draft EXCEPT ![d] = x]
      BY <2>1 DEF Sends, Claimed, GaveBack, ReadIt, MailedIt, NotMailed, SentIt, Ends, D!Reverted, D!Set
    <3>. QED
      BY <2>2, <3>1 DEF RowsTyped
  <2>8. mails' \in [Draft -> [D!Version -> Nat]] /\ mailed' \in [Draft -> Nat]
    <3>1. UNCHANGED <<mails, mailed>> \/ MailedIt(d, thread[t], s)
      BY <2>1 DEF Sends, Claimed, GaveBack, ReadIt, NotMailed, SentIt, Ends
    <3>2. CASE MailedIt(d, thread[t], s)
      <4>1. thread[t].version \in D!Version
        BY <3>2, SendParts DEF MailedIt, RowsTyped
      <4>2. mails' = D!Count(mails, d, thread[t].version) /\ mailed' = [mailed EXCEPT ![d] = mailed[d] + 1]
        BY <3>2 DEF MailedIt, D!Mailed, D!Set
      <4>3. mailed' \in [Draft -> Nat]
        BY <2>2, <4>2 DEF RowsTyped
      <4>. QED
        BY <2>2, <4>1, <4>2, <4>3, CountTyped DEF RowsTyped
    <3>. QED
      BY <3>1, <3>2 DEF RowsTyped
  <2>. HIDE DEF d
  <2>. QED
    BY <2>3, <2>4, <2>5, <2>6, <2>7, <2>8 DEF RowsTyped
<1>4. CASE D!TimesOut
  BY <1>4 DEF D!TimesOut, RowsTyped, D!row, D!history
<1>5. CASE D!Crash
  BY <1>5 DEF D!Crash, RowsTyped, D!row, D!history
<1>6. CASE UNCHANGED D!vars
  BY <1>6 DEF D!vars, D!row, D!history, D!loop, RowsTyped
<1>. QED
  BY <1>1, <1>2, <1>3, <1>4, <1>5, <1>6, NextSteps DEF Steps, DraftsTyped

LEMMA DraftsTypedSound == DraftsTyped => D!TypeOK
  BY DEF DraftsTyped, LoopTyped, RowsTyped, D!TypeOK

\* Threads counted.
One(b) == IF b THEN 1 ELSE 0
LEMMA Counted ==
  ASSUME NEW S \in SUBSET Threads
  PROVE  IsFiniteSet(S) /\ Cardinality(S) \in Nat
  BY DraftsAssumed, FS_Subset, FS_CardinalityType
LEMMA Fewer ==
  ASSUME NEW S \in SUBSET Threads, NEW T \in SUBSET S
  PROVE  Cardinality(T) <= Cardinality(S)
  BY Counted, FS_Subset
LEMMA Moved ==
  ASSUME NEW S \in SUBSET Threads, NEW T \in SUBSET Threads, NEW t \in Threads,
         \A u \in Threads \ {t} : u \in T <=> u \in S
  PROVE  Cardinality(T) + One(t \in S) = Cardinality(S) + One(t \in T)
<1>1. S \ {t} = T \ {t}
  OBVIOUS
<1>2. IsFiniteSet(S) /\ IsFiniteSet(T) /\ Cardinality(S) \in Nat /\ Cardinality(T) \in Nat
  BY Counted
<1>3. Cardinality(S \ {t}) = IF t \in S THEN Cardinality(S) - 1 ELSE Cardinality(S)
  BY <1>2, FS_RemoveElement
<1>4. Cardinality(T \ {t}) = IF t \in T THEN Cardinality(T) - 1 ELSE Cardinality(T)
  BY <1>2, FS_RemoveElement
<1>. QED
  BY <1>1, <1>2, <1>3, <1>4 DEF One

\* A thread that may yet mail d or give its claim back, and one about to mail version v of it.
Acts(s, d)     == s.at \in {"read", "mail", "record failed"} /\ s.draft = d
Active(d)      == {t \in Threads : Acts(thread[t], d)}
Brings(s, d, v) == s.at = "mail" /\ s.draft = d /\ s.version = v
Bringing(d, v) == {t \in Threads : Brings(thread[t], d, v)}
\* Threads that go on though nobody waits for them.
Left == {t \in Threads : thread[t] # D!Free /\ t # waits}

\* A draft is worth what it was confirmed.
WorthInv == \A d \in Draft :
  mailed[d] + Cardinality(Active(d)) + One(draft[d] = "confirmed") <= agreed[d] + faults
\* A version is worth one mail, and more only if its sends are late or fail.
VersionsInv == \A d \in Draft, v \in D!Version :
  /\ v = content[d] => mails[d][v] + Cardinality(Active(d)) + One(draft[d] \in {"pending", "confirmed"}) <= 1 + slow + faults
  /\ v # content[d] => mails[d][v] + Cardinality(Bringing(d, v)) <= 1 + slow + faults
  /\ v > composed => mails[d][v] = 0
LateInv ==
  /\ Cardinality(Left) <= slow
  /\ \A t \in Threads : thread[t].at \in {"mail", "record ok", "record failed"} => thread[t].version <= composed
ConfirmedInv == \A d \in Draft : draft[d] \in {"confirmed", "sending"} => confirms[d][content[d]] > 0
\* While no send is late, a draft is changed by nobody but the thread at it.
Owns(t) ==
  LET s == thread[t] IN
    /\ s.at \in {"read", "mail", "record ok", "record failed"} => draft[s.draft] = "sending"
    /\ s.at \in {"mail", "record ok", "record failed"} => s.version = content[s.draft]
    /\ s.at = "record ok" => mails[s.draft][s.version] > 0
AloneInv == slow = 0 => \A t \in Threads : Owns(t)
DraftsInv ==
  /\ DraftsTyped /\ WorthInv /\ VersionsInv /\ LateInv /\ ConfirmedInv /\ AloneInv
  /\ D!MailedAsConfirmed /\ D!SentWasMailed /\ D!ClaimHasOwner

LEMMA ActiveCounted ==
  \A d \in Draft : /\ Cardinality(Active(d)) \in Nat
                   /\ \A v \in D!Version : Cardinality(Bringing(d, v)) <= Cardinality(Active(d)) /\ Cardinality(Bringing(d, v)) \in Nat
<1>. SUFFICES ASSUME NEW d \in Draft
     PROVE  /\ Cardinality(Active(d)) \in Nat
            /\ \A v \in D!Version : Cardinality(Bringing(d, v)) <= Cardinality(Active(d)) /\ Cardinality(Bringing(d, v)) \in Nat
  OBVIOUS
<1>1. Active(d) \in SUBSET Threads
  BY DEF Active
<1>2. ASSUME NEW v \in D!Version PROVE Bringing(d, v) \in SUBSET Active(d)
  BY DEF Bringing, Brings, Active, Acts
<1>. QED
  BY <1>1, <1>2, Counted, Fewer

\* A step of a thread adds it to those at d, or takes it away.
LEMMA ActiveMoves ==
  ASSUME RowsTyped, NEW t \in Threads, NEW s, thread' = [thread EXCEPT ![t] = s], NEW d \in Draft
  PROVE  /\ Cardinality(Active(d)') \in Nat
         /\ Cardinality(Active(d)') + One(Acts(thread[t], d)) = Cardinality(Active(d)) + One(Acts(s, d))
         /\ \A v \in D!Version : /\ Cardinality(Bringing(d, v)') \in Nat
              /\ Cardinality(Bringing(d, v)') + One(Brings(thread[t], d, v)) = Cardinality(Bringing(d, v)) + One(Brings(s, d, v))
<1>1. thread'[t] = s /\ \A u \in Threads \ {t} : thread'[u] = thread[u]
  BY DEF GoesOn, RowsTyped
<1>2. Active(d) \in SUBSET Threads /\ Active(d)' \in SUBSET Threads
  BY DEF Active
<1>3. \A u \in Threads \ {t} : u \in Active(d)' <=> u \in Active(d)
  BY <1>1 DEF Active
<1>4. (t \in Active(d) <=> Acts(thread[t], d)) /\ (t \in Active(d)' <=> Acts(s, d))
  BY <1>1 DEF Active
<1>5. Cardinality(Active(d)') + One(t \in Active(d)) = Cardinality(Active(d)) + One(t \in Active(d)')
  BY <1>2, <1>3, Moved
<1>6. ASSUME NEW v \in D!Version
      PROVE  /\ Cardinality(Bringing(d, v)') \in Nat
             /\ Cardinality(Bringing(d, v)') + One(Brings(thread[t], d, v)) = Cardinality(Bringing(d, v)) + One(Brings(s, d, v))
  <2>2. Bringing(d, v) \in SUBSET Threads /\ Bringing(d, v)' \in SUBSET Threads
    BY DEF Bringing
  <2>3. \A u \in Threads \ {t} : u \in Bringing(d, v)' <=> u \in Bringing(d, v)
    BY <1>1 DEF Bringing
  <2>4. (t \in Bringing(d, v) <=> Brings(thread[t], d, v)) /\ (t \in Bringing(d, v)' <=> Brings(s, d, v))
    BY <1>1 DEF Bringing
  <2>5. Cardinality(Bringing(d, v)') + One(t \in Bringing(d, v)) = Cardinality(Bringing(d, v)) + One(t \in Bringing(d, v)')
    BY <2>2, <2>3, Moved
  <2>. QED
    BY <2>2, <2>4, <2>5, Counted DEF One
<1>. QED
  BY <1>2, <1>4, <1>5, <1>6, Counted DEF One

\* The other steps leave the rows alone, and no more threads at a draft than there were.
Elsewhere ==
  /\ UNCHANGED <<D!row, D!history>> /\ faults' >= faults /\ slow' >= slow
  /\ \A d \in Draft : /\ Cardinality(Active(d)') \in Nat /\ Cardinality(Active(d)') <= Cardinality(Active(d))
                      /\ \A v \in D!Version : /\ Cardinality(Bringing(d, v)') \in Nat
                                              /\ Cardinality(Bringing(d, v)') <= Cardinality(Bringing(d, v))
OtherSteps == (D!Submit /\ \E t \in Threads : Submits(t)) \/ D!TimesOut \/ D!Crash \/ UNCHANGED D!vars
LEMMA OthersElsewhere ==
  ASSUME DraftsTyped, OtherSteps, faults' >= faults
  PROVE  Elsewhere
<1>. USE DEF DraftsTyped
<1>1. UNCHANGED <<D!row, D!history>> /\ slow' >= slow
  BY SubmitShapes DEF OtherSteps, D!TimesOut, D!Crash, D!vars, LoopTyped
<1>. SUFFICES ASSUME NEW d \in Draft
     PROVE  /\ Cardinality(Active(d)') \in Nat /\ Cardinality(Active(d)') <= Cardinality(Active(d))
            /\ \A v \in D!Version : /\ Cardinality(Bringing(d, v)') \in Nat
                                    /\ Cardinality(Bringing(d, v)') <= Cardinality(Bringing(d, v))
  BY <1>1 DEF Elsewhere
<1>2. ASSUME NEW t \in Threads, Submits(t)
      PROVE  /\ Cardinality(Active(d)') \in Nat /\ Cardinality(Active(d)') <= Cardinality(Active(d))
             /\ \A v \in D!Version : /\ Cardinality(Bringing(d, v)') \in Nat
                                     /\ Cardinality(Bringing(d, v)') <= Cardinality(Bringing(d, v))
  <2>. DEFINE s == [at |-> "claim", draft |-> current]
  <2>1. ~Acts(s, d) /\ \A v \in D!Version : ~Brings(s, d, v)
    BY DEF Acts, Brings
  <2>2. ~Acts(thread[t], d) /\ \A v \in D!Version : ~Brings(thread[t], d, v)
    BY <1>2, FreeAt DEF Acts, Brings, Submits
  <2>3. thread' = [thread EXCEPT ![t] = s]
    BY <1>2 DEF Submits
  <2>. HIDE DEF s
  <2>4. /\ Cardinality(Active(d)') \in Nat
        /\ Cardinality(Active(d)') + One(Acts(thread[t], d)) = Cardinality(Active(d)) + One(Acts(s, d))
        /\ \A v \in D!Version : /\ Cardinality(Bringing(d, v)') \in Nat
              /\ Cardinality(Bringing(d, v)') + One(Brings(thread[t], d, v)) = Cardinality(Bringing(d, v)) + One(Brings(s, d, v))
    BY <2>3, ActiveMoves
  <2>5. One(FALSE) = 0 /\ Cardinality(Active(d)) \in Nat /\ \A v \in D!Version : Cardinality(Bringing(d, v)) \in Nat
    BY ActiveCounted DEF One
  <2>. QED
    BY <2>1, <2>2, <2>4, <2>5 DEF One
<1>3. ASSUME \A u \in Threads : thread'[u] = thread[u] \/ thread'[u] = D!Free
      PROVE  /\ Cardinality(Active(d)') \in Nat /\ Cardinality(Active(d)') <= Cardinality(Active(d))
             /\ \A v \in D!Version : /\ Cardinality(Bringing(d, v)') \in Nat
                                     /\ Cardinality(Bringing(d, v)') <= Cardinality(Bringing(d, v))
  <2>1. Active(d)' \in SUBSET Active(d) /\ Active(d) \in SUBSET Threads
    BY <1>3, FreeAt DEF Active, Acts
  <2>2. \A v \in D!Version : Bringing(d, v)' \in SUBSET Bringing(d, v) /\ Bringing(d, v) \in SUBSET Threads
    BY <1>3, FreeAt DEF Bringing, Brings
  <2>. QED
    BY <2>1, <2>2, Counted, Fewer
<1>4. CASE D!TimesOut \/ D!Crash \/ UNCHANGED D!vars
  <2>1. \A u \in Threads : thread'[u] = thread[u] \/ thread'[u] = D!Free
    BY <1>4 DEF D!TimesOut, D!Crash, D!vars
  <2>. QED
    BY <1>3, <2>1
<1>. QED
  BY <1>2, <1>4 DEF OtherSteps

\* Without a step of a thread the count is what it was.
LEMMA ActiveStays ==
  UNCHANGED thread => \A d \in Draft : Active(d)' = Active(d) /\ \A v \in D!Version : Bringing(d, v)' = Bringing(d, v)
  BY DEF Active, Bringing

LEMMA WorthKept ==
  ASSUME DraftsTyped, DraftsTyped', WorthInv, D!Next \/ UNCHANGED D!vars
  PROVE  WorthInv'
<1>0. Steps /\ faults' >= faults /\ faults \in Nat /\ faults' \in Nat /\ RowsTyped /\ RowsTyped'
  BY NextSteps, RowsStayTyped, DraftsAssumed DEF DraftsTyped, LoopTyped
<1>. SUFFICES ASSUME NEW e \in Draft
     PROVE  mailed'[e] + Cardinality(Active(e)') + One(draft'[e] = "confirmed") <= agreed'[e] + faults'
  BY DEF WorthInv
<1>1. /\ mailed[e] \in Nat /\ agreed[e] \in Nat /\ mailed'[e] \in Nat /\ agreed'[e] \in Nat /\ Cardinality(Active(e)) \in Nat
      /\ mailed[e] + Cardinality(Active(e)) + One(draft[e] = "confirmed") <= agreed[e] + faults
  BY <1>0, ActiveCounted DEF RowsTyped, WorthInv
<1>2. CASE Chats
  <2>0. UNCHANGED <<thread, mailed>> /\ Active(e)' = Active(e)
    BY <1>2, ChatShapes, ActiveStays
  <2>1. ASSUME agreed'[e] >= agreed[e], draft'[e] = draft[e] \/ draft'[e] # "confirmed" \/ agreed'[e] = agreed[e] + 1
        PROVE  mailed'[e] + Cardinality(Active(e)') + One(draft'[e] = "confirmed") <= agreed'[e] + faults'
    BY <1>0, <1>1, <2>0, <2>1 DEF One
  <2>2. ASSUME NEW d \in Draft, Composes(d) PROVE agreed'[e] = agreed[e] /\ (draft'[e] = draft[e] \/ draft'[e] # "confirmed")
    BY <1>0, <2>2, UpsertTyped DEF Composes
  <2>3. ASSUME NEW d \in Draft, Confirms(d)
        PROVE  agreed'[e] >= agreed[e] /\ (draft'[e] = draft[e] \/ agreed'[e] = agreed[e] + 1)
    <3>1. draft' = [draft EXCEPT ![d] = "confirmed"] /\ agreed' = [agreed EXCEPT ![d] = agreed[d] + 1]
      BY <2>3 DEF Confirms, D!Confirm, D!Set
    <3>. QED
      BY <1>0, <1>1, <3>1 DEF RowsTyped
  <2>4. ASSUME NEW d \in Draft, Discards(d) PROVE agreed'[e] = agreed[e] /\ (draft'[e] = draft[e] \/ draft'[e] # "confirmed")
    BY <1>0, <2>4 DEF Discards, D!Discard, D!Set, RowsTyped
  <2>5. CASE Nothing
    BY <1>1, <2>1, <2>5 DEF Nothing
  <2>. QED
    BY <1>1, <1>2, <2>1, <2>2, <2>3, <2>4, <2>5, ChatShapes
<1>3. ASSUME NEW t \in Threads, D!ThreadStep(t)
      PROVE  mailed'[e] + Cardinality(Active(e)') + One(draft'[e] = "confirmed") <= agreed'[e] + faults'
  <2>. DEFINE d == thread[t].draft
  <2>1. PICK s : GoesOn(t, s) /\ Sends(d, thread[t], s)
    BY <1>3, SendShapes
  <2>2. thread[t] # D!Free /\ d \in Draft
    BY <1>3, SendShapes
  <2>3. /\ Cardinality(Active(e)') \in Nat
        /\ Cardinality(Active(e)') + One(Acts(thread[t], e)) = Cardinality(Active(e)) + One(Acts(s, e))
    BY <1>0, <2>1, ActiveMoves DEF GoesOn
  <2>4. UNCHANGED agreed /\ (s = D!Free \/ s.draft = d)
    BY <2>1 DEF GoesOn
  <2>5. CASE e # d
    <3>1. ~Acts(thread[t], e) /\ ~Acts(s, e)
      BY <2>4, <2>5, FreeAt DEF Acts
    <3>2. draft'[e] = draft[e] /\ mailed'[e] = mailed[e]
      BY <1>0, <2>1, <2>2, <2>5
      DEF Sends, Claimed, GaveBack, ReadIt, MailedIt, NotMailed, SentIt, Ends, D!Reverted, D!Set, D!Mailed, RowsTyped
    <3>. QED
      BY <1>0, <1>1, <2>3, <2>4, <3>1, <3>2 DEF One
  <2>6. CASE e = d
    <3>0. (Acts(thread[t], d) <=> thread[t].at \in {"read", "mail", "record failed"})
          /\ (Acts(s, d) <=> s.at \in {"read", "mail", "record failed"})
      BY <2>4, FreeAt DEF Acts
    <3>1. \/ mailed'[d] = mailed[d] /\ (draft'[d] = draft[d] \/ draft'[d] # "confirmed")
             /\ (Acts(s, d) => Acts(thread[t], d) \/ (draft[d] = "confirmed" /\ draft'[d] # "confirmed"))
          \/ mailed'[d] = mailed[d] /\ ~Acts(s, d) /\ Acts(thread[t], d)
          \/ mailed'[d] = mailed[d] + 1 /\ draft'[d] = draft[d] /\ Acts(thread[t], d) /\ (Acts(s, d) => faults' = faults + 1)
      <4>1. CASE Claimed(d, thread[t], s)
        BY <1>0, <2>2, <3>0, <4>1 DEF Claimed, RowsTyped
      <4>2. CASE GaveBack(d, thread[t], s)
        BY <3>0, <4>2 DEF GaveBack
      <4>3. CASE ReadIt(d, thread[t], s) \/ NotMailed(d, thread[t], s)
        BY <3>0, <4>3 DEF ReadIt, NotMailed
      <4>4. CASE MailedIt(d, thread[t], s)
        <5>1. mailed'[d] = mailed[d] + 1
          BY <1>0, <2>2, <4>4 DEF MailedIt, D!Mailed, D!Set, RowsTyped
        <5>. QED
          BY <3>0, <4>4, <5>1 DEF MailedIt
      <4>5. CASE SentIt(d, thread[t], s)
        BY <1>0, <2>2, <3>0, <4>5 DEF SentIt, RowsTyped
      <4>6. CASE Ends(d, thread[t], s)
        BY <3>0, <4>6 DEF Ends
      <4>. QED
        BY <2>1, <4>1, <4>2, <4>3, <4>4, <4>5, <4>6 DEF Sends
    <3>. HIDE DEF d
    <3>. QED
      BY <1>0, <1>1, <2>3, <2>4, <2>6, <3>1 DEF One
  <2>. QED
    BY <2>5, <2>6
<1>4. CASE OtherSteps
  <2>1. UNCHANGED <<draft, mailed, agreed>> /\ Cardinality(Active(e)') \in Nat /\ Cardinality(Active(e)') <= Cardinality(Active(e))
    BY <1>0, <1>4, OthersElsewhere DEF Elsewhere, D!row, D!history
  <2>. QED
    BY <1>0, <1>1, <2>1 DEF One
<1>. QED
  BY <1>0, <1>2, <1>3, <1>4 DEF Steps, OtherSteps

\* A thread brings only what was composed, and is left behind only by a send that is late.
LEMMA LateKept ==
  ASSUME DraftsTyped, DraftsTyped', LateInv, D!Next \/ UNCHANGED D!vars
  PROVE  LateInv'
<1>0. Steps /\ RowsTyped /\ RowsTyped' /\ LoopTyped /\ slow \in Nat /\ NoThread \notin Threads
  BY NextSteps, DraftsAssumed DEF DraftsTyped, LoopTyped
<1>. DEFINE Brought(t) == thread[t].at \in {"mail", "record ok", "record failed"} => thread[t].version <= composed
<1>. SUFFICES Cardinality(Left') <= slow' /\ \A t \in Threads : Brought(t)'
  BY DEF LateInv
<1>1. Left \in SUBSET Threads /\ Cardinality(Left) \in Nat /\ Cardinality(Left) <= slow
  BY Counted DEF Left, LateInv
<1>2. ASSUME Left' \in SUBSET Left, slow' = slow PROVE Cardinality(Left') <= slow'
  <2>1. Left' \in SUBSET Threads
    BY <1>1, <1>2
  <2>2. Cardinality(Left') <= Cardinality(Left)
    BY <1>1, <1>2, Fewer
  <2>3. Cardinality(Left') \in Nat
    BY <2>1, Counted
  <2>. QED
    BY <1>0, <1>1, <1>2, <2>2, <2>3
<1>3. ASSUME NEW t \in Threads, thread'[t] = thread[t], composed' >= composed PROVE Brought(t)'
  <2>1. CASE thread[t].at \in {"mail", "record ok", "record failed"}
    <3>1. thread[t].version \in D!Version /\ thread[t].version <= composed
      BY <1>0, <2>1, SendParts DEF RowsTyped, LateInv
    <3>2. composed \in Nat /\ composed' \in Nat /\ thread[t].version \in Nat
      BY <1>0, <3>1, VersionsAre, DraftsAssumed DEF RowsTyped
    <3>3. thread[t].version <= composed'
      BY <1>3, <3>1, <3>2
    <3>. QED
      BY <1>3, <3>3
  <2>. QED
    BY <1>3, <2>1
<1>. HIDE DEF Brought
<1>4. CASE Chats
  <2>1. UNCHANGED <<thread, waits, slow>>
    BY <1>4, ChatShapes
  <2>2. composed' >= composed
    <3>1. composed' \in {composed, composed + 1}
      BY <1>4, ChatShapes DEF Composes, Confirms, Discards, Nothing
    <3>. QED
      BY <1>0, <3>1, DraftsAssumed DEF RowsTyped
  <2>. QED
    BY <1>2, <1>3, <2>1, <2>2 DEF Left
<1>5. ASSUME NEW t \in Threads, D!Submit, Submits(t) PROVE Cardinality(Left') <= slow' /\ \A u \in Threads : Brought(u)'
  <2>1. UNCHANGED <<composed, slow>> /\ loopAt = "send"
    BY <1>5, SubmitShapes DEF D!row
  <2>2. waits = NoThread
    BY <1>0, <2>1 DEF LoopTyped
  <2>3. /\ thread'[t] = [at |-> "claim", draft |-> current] /\ waits' = t
        /\ \A u \in Threads \ {t} : thread'[u] = thread[u]
    BY <1>0, <1>5 DEF Submits, RowsTyped
  <2>4. thread'[t].at = "claim"
    BY <2>3
  <2>5. Left' \in SUBSET Left
    BY <1>0, <2>2, <2>3 DEF Left
  <2>6. composed' >= composed
    BY <1>0, <2>1, DraftsAssumed DEF RowsTyped
  <2>7. Brought(t)'
    BY <2>4 DEF Brought
  <2>. QED
    BY <1>2, <1>3, <2>1, <2>3, <2>5, <2>6, <2>7
<1>6. ASSUME NEW t \in Threads, D!ThreadStep(t) PROVE Cardinality(Left') <= slow' /\ \A u \in Threads : Brought(u)'
  <2>. DEFINE d == thread[t].draft
  <2>1. PICK s : GoesOn(t, s) /\ Sends(d, thread[t], s)
    BY <1>6, SendShapes
  <2>2. thread[t] # D!Free /\ d \in Draft
    BY <1>6, SendShapes
  <2>3. /\ thread'[t] = s /\ \A u \in Threads \ {t} : thread'[u] = thread[u]
        /\ UNCHANGED <<composed, slow>> /\ (waits' = waits \/ (s = D!Free /\ waits = t))
    BY <1>0, <2>1 DEF GoesOn, RowsTyped
  <2>4. Left' \in SUBSET Left
    BY <2>2, <2>3 DEF Left
  <2>5. composed' >= composed
    BY <1>0, <2>3, DraftsAssumed DEF RowsTyped
  <2>6. content[d] <= composed
    <3>1. content[d] \in 0 .. composed
      BY <1>0, <2>2 DEF RowsTyped
    <3>. QED
      BY <1>0, <3>1, DraftsAssumed DEF RowsTyped
  <2>7. s.at \in {"mail", "record ok", "record failed"} => s.version <= composed
    <3>1. thread[t].at \in {"mail", "record ok", "record failed"} => thread[t].version <= composed
      BY DEF LateInv
    <3>. HIDE DEF d
    <3>. QED
      BY <2>1, <2>6, <3>1, FreeAt DEF Sends, Claimed, GaveBack, ReadIt, MailedIt, NotMailed, SentIt, Ends
  <2>8. Brought(t)'
    BY <2>3, <2>7 DEF Brought
  <2>. QED
    BY <1>2, <1>3, <2>3, <2>4, <2>5, <2>8
<1>7. CASE D!TimesOut
  <2>1. UNCHANGED <<thread, composed>> /\ slow' = slow + 1 /\ waits' = NoThread /\ waits \in Threads
    BY <1>0, <1>7 DEF D!TimesOut, D!row, LoopTyped
  <2>2. Left' \in SUBSET (Left \cup {waits})
    BY <2>1 DEF Left
  <2>3. Cardinality(Left \cup {waits}) <= Cardinality(Left) + 1 /\ Left \cup {waits} \in SUBSET Threads
    BY <1>1, <2>1, Counted, FS_AddElement
  <2>4. Cardinality(Left') <= Cardinality(Left \cup {waits}) /\ Cardinality(Left') \in Nat /\ Cardinality(Left \cup {waits}) \in Nat
    BY <2>2, <2>3, Counted, Fewer
  <2>5. composed' >= composed
    BY <1>0, <2>1, DraftsAssumed DEF RowsTyped
  <2>. QED
    BY <1>0, <1>1, <1>3, <2>1, <2>3, <2>4, <2>5
<1>8. CASE D!Crash
  <2>1. slow' = slow /\ thread' = [u \in Threads |-> D!Free]
    BY <1>8 DEF D!Crash
  <2>2. Left' = {}
    BY <2>1 DEF Left
  <2>3. \A u \in Threads : Brought(u)'
    BY <2>1, FreeAt DEF Brought
  <2>. QED
    BY <1>2, <2>1, <2>2, <2>3
<1>9. CASE UNCHANGED D!vars
  <2>1. UNCHANGED <<thread, waits, slow, composed>>
    BY <1>9 DEF D!vars, D!row, D!loop
  <2>2. composed' >= composed
    BY <1>0, <2>1, DraftsAssumed DEF RowsTyped
  <2>. QED
    BY <1>2, <1>3, <2>1, <2>2 DEF Left
<1>. QED
  BY <1>0, <1>4, <1>5, <1>6, <1>7, <1>8, <1>9 DEF Steps

LEMMA ConfirmedKept ==
  ASSUME DraftsTyped, DraftsTyped', ConfirmedInv, D!Next \/ UNCHANGED D!vars
  PROVE  ConfirmedInv'
<1>0. Steps /\ RowsTyped /\ RowsTyped' /\ faults' >= faults
  BY NextSteps, RowsStayTyped DEF DraftsTyped
<1>. SUFFICES ASSUME NEW e \in Draft, draft'[e] \in {"confirmed", "sending"} PROVE confirms'[e][content'[e]] > 0
  BY DEF ConfirmedInv
<1>1. ASSUME draft[e] \in {"confirmed", "sending"}, UNCHANGED confirms, content'[e] = content[e] PROVE confirms'[e][content'[e]] > 0
  BY <1>1 DEF ConfirmedInv
<1>2. CASE Chats
  <2>1. ASSUME NEW d \in Draft, Composes(d) PROVE confirms'[e][content'[e]] > 0
    <3>1. e # d /\ draft'[e] = draft[e] /\ content'[e] = content[e] /\ UNCHANGED confirms
      BY <1>0, <2>1, UpsertTyped DEF Composes, RowsTyped
    <3>. QED
      BY <1>1, <3>1
  <2>2. ASSUME NEW d \in Draft, Confirms(d) PROVE confirms'[e][content'[e]] > 0
    <3>1. /\ draft[d] = "pending" /\ draft' = [draft EXCEPT ![d] = "confirmed"]
          /\ confirms' = D!Count(confirms, d, content[d]) /\ UNCHANGED content
      BY <2>2 DEF Confirms, D!Confirm, D!Confirmable, D!Set
    <3>2. content[d] \in D!Version
      <4>1. content[d] > 0
        BY <1>0, <3>1 DEF RowsTyped
      <4>. QED
        BY <1>0, <4>1, ContentVersion
    <3>3. confirms[d][content[d]] \in Nat
      BY <1>0, <3>2 DEF RowsTyped
    <3>6. confirms \in [Draft -> [D!Version -> Nat]]
      BY <1>0 DEF RowsTyped
    <3>7. /\ confirms'[d][content[d]] = confirms[d][content[d]] + 1
          /\ \A a \in Draft, w \in D!Version : a # d \/ w # content[d] => confirms'[a][w] = confirms[a][w]
      BY <3>1, <3>2, <3>6, CountTyped
    <3>4. CASE e = d
      BY <3>1, <3>3, <3>4, <3>7
    <3>5. CASE e # d
      <4>1. draft'[e] = draft[e]
        BY <1>0, <3>1, <3>5 DEF RowsTyped
      <4>2. confirms[e][content[e]] > 0 /\ content[e] > 0
        BY <1>0, <4>1 DEF ConfirmedInv, RowsTyped
      <4>3. content[e] \in D!Version
        BY <1>0, <4>2, ContentVersion
      <4>. QED
        BY <3>1, <3>5, <3>7, <4>2, <4>3
    <3>. QED
      BY <3>4, <3>5
  <2>3. ASSUME NEW d \in Draft, Discards(d) PROVE confirms'[e][content'[e]] > 0
    <3>1. draft'[e] = draft[e] /\ UNCHANGED <<content, confirms>>
      BY <1>0, <2>3 DEF Discards, D!Discard, D!Set, RowsTyped
    <3>. QED
      BY <1>1, <3>1
  <2>4. CASE Nothing
    BY <1>1, <2>4 DEF Nothing
  <2>. QED
    BY <1>2, <2>1, <2>2, <2>3, <2>4, ChatShapes
<1>3. ASSUME NEW t \in Threads, D!ThreadStep(t) PROVE confirms'[e][content'[e]] > 0
  <2>. DEFINE d == thread[t].draft
  <2>1. PICK s : GoesOn(t, s) /\ Sends(d, thread[t], s)
    BY <1>3, SendShapes
  <2>2. UNCHANGED <<confirms, content>>
    BY <2>1 DEF GoesOn
  <2>3. draft[e] \in {"confirmed", "sending"}
    <3>1. \/ UNCHANGED draft
          \/ draft' = [draft EXCEPT ![d] = "sent"]
          \/ draft[d] \in {"confirmed", "sending"} /\ \E x \in {"confirmed", "sending"} : draft' = [draft EXCEPT ![d] = x]
      <4>. HIDE DEF d
      <4>. QED
        BY <2>1 DEF Sends, Claimed, GaveBack, ReadIt, MailedIt, NotMailed, SentIt, Ends, D!Reverted, D!Set
    <3>. HIDE DEF d
    <3>. QED
      BY <1>0, <3>1 DEF RowsTyped
  <2>. QED
    BY <1>1, <2>2, <2>3
<1>4. CASE OtherSteps
  BY <1>0, <1>1, <1>4, OthersElsewhere DEF Elsewhere, D!row, D!history
<1>. QED
  BY <1>0, <1>2, <1>3, <1>4 DEF Steps, OtherSteps

VersionSound(d, v) ==
  /\ v = content[d] => mails[d][v] + Cardinality(Active(d)) + One(draft[d] \in {"pending", "confirmed"}) <= 1 + slow + faults
  /\ v # content[d] => mails[d][v] + Cardinality(Bringing(d, v)) <= 1 + slow + faults
  /\ v > composed => mails[d][v] = 0

LEMMA VersionsKept ==
  ASSUME DraftsTyped, DraftsTyped', LateInv, VersionsInv, D!Next \/ UNCHANGED D!vars
  PROVE  VersionsInv'
<1>0. /\ Steps /\ RowsTyped /\ RowsTyped' /\ faults' >= faults /\ faults \in Nat /\ faults' \in Nat /\ slow \in Nat /\ slow' \in Nat
  BY NextSteps, RowsStayTyped, DraftsAssumed DEF DraftsTyped, LoopTyped
<1>. SUFFICES ASSUME NEW e \in Draft, NEW v \in D!Version PROVE VersionSound(e, v)'
  BY DEF VersionsInv, VersionSound
<1>1. /\ VersionSound(e, v)
      /\ mails[e][v] \in Nat /\ mails'[e][v] \in Nat /\ v \in Nat /\ composed \in Nat /\ composed' \in Nat
      /\ Cardinality(Active(e)) \in Nat /\ Cardinality(Bringing(e, v)) \in Nat
      /\ Cardinality(Bringing(e, v)) <= Cardinality(Active(e))
  BY <1>0, ActiveCounted, VersionsAre, DraftsAssumed DEF RowsTyped, VersionsInv, VersionSound
<1>2. ASSUME content'[e] = content[e], mails'[e] = mails[e], composed' >= composed, slow' >= slow,
             draft'[e] \in {"pending", "confirmed"} => draft[e] \in {"pending", "confirmed"},
             Cardinality(Active(e)') \in Nat, Cardinality(Active(e)') <= Cardinality(Active(e)),
             Cardinality(Bringing(e, v)') \in Nat, Cardinality(Bringing(e, v)') <= Cardinality(Bringing(e, v))
      PROVE  VersionSound(e, v)'
  BY <1>0, <1>1, <1>2 DEF VersionSound, One
<1>3. CASE Chats
  <2>0. /\ UNCHANGED <<thread, waits, mails, slow>> /\ loopAt # "wait"
        /\ Active(e)' = Active(e) /\ Bringing(e, v)' = Bringing(e, v)
    BY <1>3, ChatShapes, ActiveStays
  <2>1. ASSUME content'[e] = content[e], composed' >= composed,
               draft'[e] \in {"pending", "confirmed"} => draft[e] \in {"pending", "confirmed"}
        PROVE  VersionSound(e, v)'
    BY <1>0, <1>1, <1>2, <2>0, <2>1
  <2>2. ASSUME NEW d \in Draft, Composes(d) PROVE VersionSound(e, v)'
    <3>1. composed' = composed + 1 /\ content' = [content EXCEPT ![d] = composed']
      BY <1>0, <2>2, UpsertTyped
    <3>2. CASE e # d
      <4>1. draft'[e] \in {draft[e], "discarded"} /\ content'[e] = content[e]
        BY <1>0, <2>2, <3>2, UpsertTyped DEF RowsTyped
      <4>. QED
        BY <1>1, <2>1, <3>1, <4>1
    <3>3. CASE e = d
      <4>1. content'[e] = composed + 1
        BY <1>0, <3>1, <3>3 DEF RowsTyped
      <4>2. Cardinality(Active(e)) <= slow
        <5>1. waits = NoThread /\ NoThread \notin Threads
          BY <2>0, DraftsAssumed DEF DraftsTyped, LoopTyped
        <5>2. Active(e) \in SUBSET Left /\ Left \in SUBSET Threads
          BY <5>1, FreeAt DEF Active, Acts, Left
        <5>3. Cardinality(Active(e)) <= Cardinality(Left) /\ Cardinality(Left) \in Nat
          BY <5>2, Counted, Fewer
        <5>4. Cardinality(Left) <= slow
          BY DEF LateInv
        <5>. QED
          BY <1>0, <1>1, <5>3, <5>4
      <4>. QED
        BY <1>0, <1>1, <2>0, <3>1, <4>1, <4>2 DEF VersionSound, One
    <3>. QED
      BY <3>2, <3>3
  <2>3. ASSUME NEW d \in Draft, Confirms(d) PROVE VersionSound(e, v)'
    <3>1. draft[d] = "pending" /\ draft' = [draft EXCEPT ![d] = "confirmed"] /\ UNCHANGED <<content, composed>>
      BY <2>3 DEF Confirms, D!Confirm, D!Confirmable, D!Set
    <3>2. draft'[e] \in {"pending", "confirmed"} => draft[e] \in {"pending", "confirmed"}
      BY <1>0, <3>1 DEF RowsTyped
    <3>. QED
      BY <1>1, <2>1, <3>1, <3>2
  <2>4. ASSUME NEW d \in Draft, Discards(d) PROVE VersionSound(e, v)'
    <3>1. draft' = [draft EXCEPT ![d] = "discarded"] /\ UNCHANGED <<content, composed>>
      BY <2>4 DEF Discards, D!Discard, D!Set
    <3>2. draft'[e] \in {"pending", "confirmed"} => draft[e] \in {"pending", "confirmed"}
      BY <1>0, <3>1 DEF RowsTyped
    <3>. QED
      BY <1>1, <2>1, <3>1, <3>2
  <2>5. CASE Nothing
    <3>1. composed' >= composed
      BY <1>1, <2>5 DEF Nothing
    <3>. QED
      BY <2>1, <2>5, <3>1 DEF Nothing
  <2>. QED
    BY <1>3, <2>2, <2>3, <2>4, <2>5, ChatShapes
<1>4. ASSUME NEW t \in Threads, D!ThreadStep(t) PROVE VersionSound(e, v)'
  <2>. DEFINE d == thread[t].draft
              w == thread[t].version
  <2>1. PICK s : GoesOn(t, s) /\ Sends(d, thread[t], s)
    BY <1>4, SendShapes
  <2>2. thread[t] # D!Free /\ d \in Draft
    BY <1>4, SendShapes
  <2>3. /\ Cardinality(Active(e)') \in Nat
        /\ Cardinality(Active(e)') + One(Acts(thread[t], e)) = Cardinality(Active(e)) + One(Acts(s, e))
        /\ Cardinality(Bringing(e, v)') \in Nat
        /\ Cardinality(Bringing(e, v)') + One(Brings(thread[t], e, v)) = Cardinality(Bringing(e, v)) + One(Brings(s, e, v))
    BY <1>0, <2>1, ActiveMoves DEF GoesOn
  <2>4. UNCHANGED <<content, composed, slow>> /\ (s = D!Free \/ s.draft = d)
    BY <2>1 DEF GoesOn
  <2>5. ASSUME MailedIt(d, thread[t], s)
        PROVE  /\ w \in D!Version /\ w <= composed
               /\ mails'[d][w] = mails[d][w] + 1
               /\ \A a \in Draft, x \in D!Version : a # d \/ x # w => mails'[a][x] = mails[a][x]
    <3>1. thread[t].at = "mail" /\ mails' = D!Count(mails, d, w)
      BY <2>5 DEF MailedIt, D!Mailed
    <3>2. w \in D!Version /\ w <= composed
      BY <1>0, <3>1, SendParts DEF LateInv, RowsTyped
    <3>3. mails \in [Draft -> [D!Version -> Nat]]
      BY <1>0 DEF RowsTyped
    <3>. HIDE DEF d, w
    <3>. QED
      BY <2>2, <3>1, <3>2, <3>3, CountTyped
  <2>6. UNCHANGED mails \/ MailedIt(d, thread[t], s)
    BY <2>1 DEF Sends, Claimed, GaveBack, ReadIt, NotMailed, SentIt, Ends
  <2>7. CASE e # d
    <3>1. ~Acts(thread[t], e) /\ ~Acts(s, e) /\ ~Brings(thread[t], e, v) /\ ~Brings(s, e, v)
      BY <2>4, <2>7, FreeAt DEF Acts, Brings
    <3>2. draft'[e] = draft[e]
      BY <1>0, <2>1, <2>2, <2>7
      DEF Sends, Claimed, GaveBack, ReadIt, MailedIt, NotMailed, SentIt, Ends, D!Reverted, D!Set, RowsTyped
    <3>3. mails'[e][v] = mails[e][v]
      BY <2>5, <2>6, <2>7
    <3>. HIDE DEF d, w
    <3>. QED
      BY <1>0, <1>1, <2>3, <2>4, <3>1, <3>2, <3>3 DEF One, VersionSound
  <2>8. CASE e = d
    <3>. DEFINE open == draft[e] \in {"pending", "confirmed"}
    <3>0. /\ Acts(thread[t], e) <=> thread[t].at \in {"read", "mail", "record failed"}
          /\ Acts(s, e) <=> s.at \in {"read", "mail", "record failed"}
          /\ Brings(thread[t], e, v) <=> thread[t].at = "mail" /\ w = v
          /\ Brings(s, e, v) <=> s.at = "mail" /\ s.version = v
      BY <2>8, <2>4, FreeAt DEF Acts, Brings
    <3>1. \/ /\ mails'[e][v] = mails[e][v] /\ (v # content[e] => (Brings(s, e, v) => Brings(thread[t], e, v)))
             /\ \/ ~open' /\ (Acts(s, e) => open \/ Acts(thread[t], e))
                \/ Acts(thread[t], e) /\ ~Acts(s, e)
                \/ draft'[e] = draft[e] /\ (Acts(s, e) => Acts(thread[t], e))
          \/ /\ mails'[e][v] = mails[e][v] + 1 /\ v <= composed /\ draft'[e] = draft[e]
             /\ Brings(thread[t], e, v) /\ ~Brings(s, e, v)
             /\ Acts(thread[t], e) /\ (Acts(s, e) => faults' = faults + 1)
      <4>1. CASE Claimed(d, thread[t], s)
        <5>1. draft'[e] = "sending" /\ open
          BY <2>8, <1>0, <2>2, <4>1 DEF Claimed, RowsTyped
        <5>. QED
          BY <2>8, <3>0, <4>1, <5>1 DEF Claimed
      <4>2. CASE GaveBack(d, thread[t], s)
        BY <2>8, <3>0, <4>2 DEF GaveBack
      <4>3. CASE ReadIt(d, thread[t], s) \/ NotMailed(d, thread[t], s)
        BY <2>8, <3>0, <4>3 DEF ReadIt, NotMailed
      <4>4. CASE MailedIt(d, thread[t], s)
        <5>1. CASE v = w
          BY <2>8, <2>2, <2>5, <3>0, <4>4, <5>1 DEF MailedIt
        <5>2. CASE v # w
          BY <2>8, <2>2, <2>5, <3>0, <4>4, <5>2 DEF MailedIt
        <5>. QED
          BY <5>1, <5>2
      <4>5. CASE SentIt(d, thread[t], s)
        <5>1. draft'[e] = "sent"
          BY <2>8, <1>0, <2>2, <4>5 DEF SentIt, RowsTyped
        <5>. QED
          BY <2>8, <3>0, <4>5, <5>1 DEF SentIt
      <4>6. CASE Ends(d, thread[t], s)
        BY <2>8, <3>0, <4>6 DEF Ends
      <4>. QED
        BY <2>1, <4>1, <4>2, <4>3, <4>4, <4>5, <4>6 DEF Sends
    <3>2. /\ Brings(thread[t], e, v) => Acts(thread[t], e)
          /\ content'[e] = content[e] /\ composed' = composed /\ slow' = slow
      BY <2>8, <2>4 DEF Brings, Acts
    <3>. DEFINE a == Cardinality(Active(e))
                b == Cardinality(Bringing(e, v))
                m == mails[e][v]
    <3>3. /\ a \in Nat /\ b \in Nat /\ a' \in Nat /\ b' \in Nat /\ m \in Nat /\ m' \in Nat
          /\ a' <= a + 1 /\ (Acts(thread[t], e) \/ ~Acts(s, e) => a' <= a) /\ (Acts(thread[t], e) /\ ~Acts(s, e) => a' = a - 1)
          /\ Brings(thread[t], e, v) \/ ~Brings(s, e, v) => b' <= b
          /\ Brings(thread[t], e, v) /\ ~Brings(s, e, v) => b' = b - 1
      BY <1>1, <2>3 DEF One
    <3>8. /\ One(open) \in 0 .. 1 /\ (open => One(open) = 1)
          /\ One(open') \in 0 .. 1 /\ (~open' => One(open') = 0) /\ (draft'[e] = draft[e] => One(open') = One(open))
      BY DEF One
    <3>4. \/ m' = m /\ a' + One(open') <= a + One(open)
          \/ m' = m + 1 /\ One(open') = One(open) /\ (a' = a - 1 \/ (a' <= a /\ faults' = faults + 1))
      <4>. HIDE DEF a, b, m, open
      <4>1. CASE m' = m + 1 /\ draft'[e] = draft[e] /\ Acts(thread[t], e) /\ (Acts(s, e) => faults' = faults + 1)
        BY <3>3, <3>8, <4>1
      <4>2. CASE m' = m /\ ~open' /\ (Acts(s, e) => open \/ Acts(thread[t], e))
        BY <3>3, <3>8, <4>2
      <4>3. CASE m' = m /\ Acts(thread[t], e) /\ ~Acts(s, e)
        BY <3>3, <3>8, <4>3
      <4>4. CASE m' = m /\ draft'[e] = draft[e] /\ (Acts(s, e) => Acts(thread[t], e))
        BY <3>3, <3>8, <4>4
      <4>. QED
        BY <3>1, <4>1, <4>2, <4>3, <4>4 DEF m
    <3>5. v # content[e] => m' + b' <= m + b
      <4>. HIDE DEF a, b, open
      <4>1. CASE m' = m /\ (v # content[e] => (Brings(s, e, v) => Brings(thread[t], e, v)))
        BY <3>3, <3>8, <4>1
      <4>2. CASE m' = m + 1 /\ Brings(thread[t], e, v) /\ ~Brings(s, e, v)
        BY <3>3, <3>8, <4>2
      <4>. QED
        BY <3>1, <4>1, <4>2
    <3>6. m' = m \/ v <= composed
      BY <3>1
    <3>7. /\ v = content[e] => m + a + One(open) <= 1 + slow + faults
          /\ v # content[e] => m + b <= 1 + slow + faults
          /\ v > composed => m = 0
      BY <1>1 DEF VersionSound
    <3>9. /\ v = content'[e] => m' + a' + One(open') <= 1 + slow' + faults'
          /\ v # content'[e] => m' + b' <= 1 + slow' + faults'
          /\ v > composed' => m' = 0
      <4>. HIDE DEF a, b, m, open
      <4>1. CASE v = content[e]
        <5>1. m + a + One(open) <= 1 + slow + faults
          BY <3>7, <4>1
        <5>. QED
          BY <1>0, <1>1, <3>2, <3>3, <3>4, <3>6, <3>7, <3>8, <4>1, <5>1
      <4>2. CASE v # content[e]
        BY <1>0, <1>1, <3>2, <3>3, <3>5, <3>6, <3>7, <4>2
      <4>. QED
        BY <4>1, <4>2
    <3>. QED
      BY <3>9 DEF VersionSound
  <2>. QED
    BY <2>7, <2>8
<1>5. CASE OtherSteps
  <2>1. Elsewhere
    BY <1>0, <1>5, OthersElsewhere
  <2>. QED
    BY <1>1, <1>2, <2>1 DEF Elsewhere, D!row, D!history
<1>. QED
  BY <1>0, <1>3, <1>4, <1>5 DEF Steps, OtherSteps

\* Unless a send is late, only the thread is busy that the loop waits for.
LEMMA OnlyAwaited ==
  ASSUME DraftsTyped, LateInv, slow = 0, NEW t \in Threads, thread[t] # D!Free
  PROVE  t = waits /\ loopAt = "wait"
<1>1. Left \in SUBSET Threads /\ Cardinality(Left) \in Nat /\ Cardinality(Left) <= slow /\ IsFiniteSet(Left)
  BY Counted DEF Left, LateInv
<1>2. Left = {}
  BY <1>1, FS_EmptySet
<1>3. t = waits
  BY <1>2 DEF Left
<1>. QED
  BY <1>3, DraftsAssumed DEF DraftsTyped, LoopTyped

LEMMA SlowGrows ==
  ASSUME DraftsTyped, D!Next \/ UNCHANGED D!vars
  PROVE  slow \in Nat /\ slow' \in Nat /\ faults \in Nat /\ faults' \in Nat /\ slow' >= slow /\ faults' >= faults
<1>1. Steps /\ faults' >= faults /\ slow \in Nat /\ slow' \in Nat /\ faults \in Nat /\ faults' \in Nat
  BY NextSteps, RowsStayTyped, DraftsAssumed DEF DraftsTyped, LoopTyped
<1>2. CASE Chats
  BY <1>1, <1>2, ChatShapes
<1>3. ASSUME NEW t \in Threads, D!ThreadStep(t) PROVE slow' = slow
  BY <1>3, SendShapes DEF GoesOn
<1>4. CASE OtherSteps
  BY <1>1, <1>4, OthersElsewhere DEF Elsewhere
<1>. QED
  BY <1>1, <1>2, <1>3, <1>4 DEF Steps, OtherSteps

\* What a mail of version w of d adds.
LEMMA MailCounted ==
  ASSUME RowsTyped, NEW d \in Draft, NEW w \in D!Version, D!Mailed(d, w)
  PROVE  /\ mails'[d][w] = mails[d][w] + 1 /\ mails[d][w] \in Nat
         /\ \A a \in Draft, x \in D!Version : a # d \/ x # w => mails'[a][x] = mails[a][x]
<1>1. mails \in [Draft -> [D!Version -> Nat]] /\ mails' = D!Count(mails, d, w)
  BY DEF RowsTyped, D!Mailed
<1>. QED
  BY <1>1, CountTyped

LEMMA AloneKept ==
  ASSUME DraftsTyped, DraftsTyped', LateInv, AloneInv, D!Next \/ UNCHANGED D!vars
  PROVE  AloneInv'
<1>. SUFFICES ASSUME slow' = 0, NEW u \in Threads PROVE Owns(u)'
  BY DEF AloneInv
<1>0. Steps /\ RowsTyped /\ RowsTyped' /\ slow = 0 /\ slow \in Nat /\ slow' \in Nat
  BY NextSteps, SlowGrows DEF DraftsTyped
<1>1. ASSUME thread'[u].at \notin {"read", "mail", "record ok", "record failed"} PROVE Owns(u)'
  BY <1>1 DEF Owns
<1>2. CASE Chats
  <2>1. thread' = thread /\ loopAt # "wait"
    BY <1>2, ChatShapes
  <2>2. thread[u] = D!Free
    BY <1>0, <2>1, OnlyAwaited
  <2>. QED
    BY <1>1, <2>1, <2>2, FreeAt
<1>3. ASSUME NEW t \in Threads, D!Submit, Submits(t) PROVE Owns(u)'
  <2>1. loopAt = "send"
    BY <1>3, SubmitShapes
  <2>2. thread[u] = D!Free
    BY <1>0, <2>1, OnlyAwaited
  <2>3. thread'[u] = thread[u] \/ thread'[u].at = "claim"
    BY <1>0, <1>3 DEF Submits, RowsTyped
  <2>. QED
    BY <1>1, <2>2, <2>3, FreeAt
<1>4. ASSUME NEW t \in Threads, D!ThreadStep(t) PROVE Owns(u)'
  <2>1. thread[t] # D!Free /\ thread[t].draft \in Draft
    BY <1>4, SendShapes
  <2>2. PICK d \in Draft : d = thread[t].draft
    BY <2>1
  <2>3. PICK s : GoesOn(t, s) /\ Sends(d, thread[t], s)
    BY <1>4, <2>2, SendShapes
  <2>4. /\ thread'[t] = s /\ \A x \in Threads \ {t} : thread'[x] = thread[x]
        /\ UNCHANGED content /\ (s = D!Free \/ s.draft = d)
    BY <1>0, <2>2, <2>3 DEF GoesOn, RowsTyped
  <2>5. CASE u # t
    <3>1. thread[u] = D!Free
      BY <1>0, <2>1, <2>5, OnlyAwaited
    <3>. QED
      BY <1>1, <2>4, <2>5, <3>1, FreeAt
  <2>6. CASE u = t
    <3>1. Owns(t)
      BY <1>0 DEF AloneInv
    <3>2. ASSUME s.at \in {"read", "mail", "record ok", "record failed"}
          PROVE  /\ draft'[d] = "sending"
                 /\ s.at # "read" => s.version = content[d]
                 /\ s.at = "record ok" => mails'[d][s.version] > 0
      <4>1. CASE Claimed(d, thread[t], s)
        BY <1>0, <4>1 DEF Claimed, RowsTyped
      <4>2. CASE ReadIt(d, thread[t], s) \/ NotMailed(d, thread[t], s)
        BY <2>2, <3>1, <4>2 DEF ReadIt, NotMailed, Owns
      <4>3. CASE MailedIt(d, thread[t], s)
        <5>1. /\ thread[t].at = "mail" /\ s.version = thread[t].version /\ D!Mailed(d, s.version) /\ UNCHANGED draft
          BY <4>3 DEF MailedIt
        <5>2. s.version \in D!Version
          BY <1>0, <5>1, SendParts DEF RowsTyped
        <5>3. mails'[d][s.version] > 0
          BY <1>0, <5>1, <5>2, MailCounted
        <5>. QED
          BY <2>2, <3>1, <5>1, <5>3 DEF Owns
      <4>. QED
        BY <2>3, <3>2, <4>1, <4>2, <4>3 DEF Sends, GaveBack, SentIt, Ends
    <3>3. CASE s.at \in {"read", "mail", "record ok", "record failed"}
      <4>1. s.draft = d
        BY <2>4, <3>3, FreeAt
      <4>. QED
        BY <2>4, <2>6, <3>2, <3>3, <4>1 DEF Owns
    <3>. QED
      BY <1>1, <2>4, <2>6, <3>3
  <2>. QED
    BY <2>5, <2>6
<1>5. CASE D!TimesOut
  BY <1>0, <1>5 DEF D!TimesOut
<1>6. CASE D!Crash
  <2>1. thread'[u] = D!Free
    BY <1>6 DEF D!Crash
  <2>. QED
    BY <1>1, <2>1, FreeAt
<1>7. CASE UNCHANGED D!vars
  <2>1. UNCHANGED <<thread, draft, content, mails>>
    BY <1>7 DEF D!vars, D!row, D!history
  <2>2. Owns(u)
    BY <1>0 DEF AloneInv
  <2>. QED
    BY <2>1, <2>2 DEF Owns
<1>. QED
  BY <1>0, <1>2, <1>3, <1>4, <1>5, <1>6, <1>7 DEF Steps

LEMMA MailedAsConfirmedKept ==
  ASSUME DraftsTyped, DraftsTyped', AloneInv, ConfirmedInv, D!MailedAsConfirmed, D!Next \/ UNCHANGED D!vars
  PROVE  D!MailedAsConfirmed'
<1>. SUFFICES ASSUME slow' = 0, NEW e \in Draft, NEW v \in D!Version, mails'[e][v] > 0 PROVE confirms'[e][v] > 0
  BY DEF D!MailedAsConfirmed
<1>0. Steps /\ RowsTyped /\ RowsTyped' /\ slow = 0 /\ faults' >= faults
  BY NextSteps, SlowGrows DEF DraftsTyped
<1>1. ASSUME mails'[e][v] = mails[e][v], confirms'[e][v] >= confirms[e][v] PROVE confirms'[e][v] > 0
  <2>1. confirms[e][v] \in Nat /\ confirms'[e][v] \in Nat /\ confirms[e][v] > 0
    BY <1>0, <1>1 DEF RowsTyped, D!MailedAsConfirmed
  <2>. QED
    BY <1>1, <2>1
<1>2. confirms[e][v] \in Nat
  BY <1>0 DEF RowsTyped
<1>3. CASE Chats
  <2>1. UNCHANGED mails
    BY <1>3, ChatShapes
  <2>2. confirms'[e][v] >= confirms[e][v]
    <3>1. ASSUME NEW d \in Draft, Confirms(d) PROVE confirms'[e][v] >= confirms[e][v]
      <4>1. draft[d] = "pending" /\ confirms' = D!Count(confirms, d, content[d])
        BY <3>1 DEF Confirms, D!Confirm, D!Confirmable
      <4>2. content[d] > 0
        BY <1>0, <4>1 DEF RowsTyped
      <4>3. content[d] \in D!Version
        BY <1>0, <4>2, ContentVersion
      <4>4. confirms \in [Draft -> [D!Version -> Nat]]
        BY <1>0 DEF RowsTyped
      <4>5. \/ e = d /\ v = content[d] /\ confirms'[e][v] = confirms[e][v] + 1
            \/ confirms'[e][v] = confirms[e][v]
        <5>1. /\ confirms'[d][content[d]] = confirms[d][content[d]] + 1
              /\ \A a \in Draft, w \in D!Version : a # d \/ w # content[d] => confirms'[a][w] = confirms[a][w]
          BY <4>1, <4>3, <4>4, CountTyped
        <5>. QED
          BY <5>1
      <4>. QED
        BY <1>2, <4>5
    <3>2. CASE UNCHANGED confirms
      BY <1>2, <3>2
    <3>. QED
      BY <1>3, <3>1, <3>2, ChatShapes DEF Composes, Discards, Nothing
  <2>. QED
    BY <1>1, <2>1, <2>2
<1>4. ASSUME NEW t \in Threads, D!ThreadStep(t) PROVE confirms'[e][v] > 0
  <2>1. thread[t] # D!Free /\ thread[t].draft \in Draft
    BY <1>4, SendShapes
  <2>2. PICK d \in Draft : d = thread[t].draft
    BY <2>1
  <2>3. PICK s : GoesOn(t, s) /\ Sends(d, thread[t], s)
    BY <1>4, <2>2, SendShapes
  <2>4. UNCHANGED <<confirms, content>> /\ (UNCHANGED mails \/ MailedIt(d, thread[t], s))
    BY <2>3 DEF GoesOn, Sends, Claimed, GaveBack, ReadIt, NotMailed, SentIt, Ends
  <2>5. CASE MailedIt(d, thread[t], s) /\ e = d /\ v = thread[t].version
    <3>1. Owns(t) /\ thread[t].at = "mail"
      BY <1>0, <2>5 DEF AloneInv, MailedIt
    <3>2. draft[d] = "sending" /\ v = content[d]
      BY <2>2, <2>5, <3>1 DEF Owns
    <3>. QED
      BY <2>4, <2>5, <3>2 DEF ConfirmedInv
  <2>6. CASE MailedIt(d, thread[t], s) /\ ~(e = d /\ v = thread[t].version)
    <3>1. thread[t].at = "mail" /\ D!Mailed(d, thread[t].version)
      BY <2>6 DEF MailedIt
    <3>2. thread[t].version \in D!Version
      BY <1>0, <3>1, SendParts DEF RowsTyped
    <3>3. mails'[e][v] = mails[e][v]
      BY <1>0, <2>6, <3>1, <3>2, MailCounted
    <3>. QED
      BY <1>1, <1>2, <2>4, <3>3
  <2>. QED
    BY <1>1, <1>2, <2>4, <2>5, <2>6
<1>5. CASE OtherSteps
  BY <1>0, <1>1, <1>2, <1>5, OthersElsewhere DEF Elsewhere, D!history
<1>. QED
  BY <1>0, <1>3, <1>4, <1>5 DEF Steps, OtherSteps

LEMMA SentWasMailedKept ==
  ASSUME DraftsTyped, DraftsTyped', AloneInv, D!SentWasMailed, D!Next \/ UNCHANGED D!vars
  PROVE  D!SentWasMailed'
<1>. SUFFICES ASSUME slow' = 0, NEW e \in Draft, draft'[e] = "sent" PROVE mails'[e][content'[e]] > 0
  BY DEF D!SentWasMailed
<1>0. Steps /\ RowsTyped /\ RowsTyped' /\ slow = 0 /\ faults' >= faults
  BY NextSteps, SlowGrows DEF DraftsTyped
<1>1. ASSUME draft[e] = "sent", content'[e] = content[e], mails'[e][content[e]] >= mails[e][content[e]]
      PROVE  mails'[e][content'[e]] > 0
  <2>1. content[e] > 0
    BY <1>0, <1>1 DEF RowsTyped
  <2>2. content[e] \in D!Version
    BY <1>0, <2>1, ContentVersion
  <2>3. mails[e][content[e]] \in Nat /\ mails'[e][content[e]] \in Nat /\ mails[e][content[e]] > 0
    BY <1>0, <1>1, <2>2 DEF RowsTyped, D!SentWasMailed
  <2>. QED
    BY <1>1, <2>3
<1>2. ASSUME draft[e] = "sent", content'[e] = content[e], UNCHANGED mails PROVE mails'[e][content'[e]] > 0
  BY <1>0, <1>2 DEF D!SentWasMailed
<1>3. CASE Chats
  <2>1. UNCHANGED mails
    BY <1>3, ChatShapes
  <2>2. ASSUME NEW d \in Draft, Composes(d) PROVE draft[e] = "sent" /\ content'[e] = content[e]
    BY <1>0, <2>2, UpsertTyped DEF RowsTyped
  <2>3. ASSUME NEW d \in Draft, Confirms(d) PROVE draft[e] = "sent" /\ content'[e] = content[e]
    BY <1>0, <2>3 DEF Confirms, D!Confirm, D!Set, RowsTyped
  <2>4. ASSUME NEW d \in Draft, Discards(d) PROVE draft[e] = "sent" /\ content'[e] = content[e]
    BY <1>0, <2>4 DEF Discards, D!Discard, D!Set, RowsTyped
  <2>5. CASE Nothing
    BY <1>2, <2>1, <2>5 DEF Nothing
  <2>. QED
    BY <1>2, <1>3, <2>1, <2>2, <2>3, <2>4, <2>5, ChatShapes
<1>4. ASSUME NEW t \in Threads, D!ThreadStep(t) PROVE mails'[e][content'[e]] > 0
  <2>1. thread[t] # D!Free /\ thread[t].draft \in Draft
    BY <1>4, SendShapes
  <2>2. PICK d \in Draft : d = thread[t].draft
    BY <2>1
  <2>3. PICK s : GoesOn(t, s) /\ Sends(d, thread[t], s)
    BY <1>4, <2>2, SendShapes
  <2>4. UNCHANGED content
    BY <2>3 DEF GoesOn
  <2>5. CASE SentIt(d, thread[t], s) /\ e = d
    <3>1. Owns(t) /\ thread[t].at = "record ok" /\ UNCHANGED mails
      BY <1>0, <2>5 DEF AloneInv, SentIt
    <3>. QED
      BY <2>2, <2>4, <2>5, <3>1 DEF Owns
  <2>6. CASE MailedIt(d, thread[t], s)
    <3>1. thread[t].at = "mail" /\ D!Mailed(d, thread[t].version) /\ UNCHANGED draft
      BY <2>6 DEF MailedIt
    <3>2. thread[t].version \in D!Version
      BY <1>0, <3>1, SendParts DEF RowsTyped
    <3>3. content[e] > 0
      BY <1>0, <3>1 DEF RowsTyped
    <3>4. content[e] \in D!Version
      BY <1>0, <3>3, ContentVersion
    <3>5. mails[e][content[e]] \in Nat
      BY <1>0, <3>4 DEF RowsTyped
    <3>6. mails'[e][content[e]] \in {mails[e][content[e]], mails[e][content[e]] + 1}
      BY <1>0, <3>1, <3>2, <3>4, MailCounted
    <3>7. mails'[e][content[e]] >= mails[e][content[e]]
      BY <3>5, <3>6
    <3>. QED
      BY <1>1, <2>4, <3>1, <3>7
  <2>7. CASE ~(SentIt(d, thread[t], s) /\ e = d) /\ ~MailedIt(d, thread[t], s)
    <3>1. UNCHANGED mails
      BY <2>3, <2>7 DEF Sends, Claimed, GaveBack, ReadIt, NotMailed, SentIt, Ends
    <3>2. UNCHANGED draft \/ \E a \in Draft, x \in {"sending", "confirmed", "sent"} :
            draft' = [draft EXCEPT ![a] = x] /\ (x = "sent" => a # e)
      BY <2>3, <2>7 DEF Sends, Claimed, GaveBack, ReadIt, NotMailed, SentIt, Ends, D!Reverted, D!Set
    <3>3. draft[e] = "sent"
      BY <1>0, <3>2 DEF RowsTyped
    <3>. QED
      BY <1>2, <2>4, <3>1, <3>3
  <2>. QED
    BY <2>5, <2>6, <2>7
<1>5. CASE OtherSteps
  BY <1>0, <1>2, <1>5, OthersElsewhere DEF Elsewhere, D!history, D!row
<1>. QED
  BY <1>0, <1>3, <1>4, <1>5 DEF Steps, OtherSteps

\* A thread that took draft e and has neither recorded it nor given it back.
Owner(s, e) == s.at \in {"read", "mail", "record ok", "record failed"} /\ s.draft = e

LEMMA ClaimHasOwnerKept ==
  ASSUME DraftsTyped, DraftsTyped', D!ClaimHasOwner, D!Next \/ UNCHANGED D!vars
  PROVE  D!ClaimHasOwner'
<1>. SUFFICES ASSUME faults' = 0, NEW e \in Draft, draft'[e] = "sending" PROVE \E t \in Threads : Owner(thread'[t], e)
  BY DEF D!ClaimHasOwner, Owner
<1>0. Steps /\ RowsTyped /\ RowsTyped' /\ faults = 0 /\ faults' >= faults
  BY NextSteps, SlowGrows DEF DraftsTyped
<1>1. draft[e] = "sending" => \E u \in Threads : Owner(thread[u], e)
  BY <1>0 DEF D!ClaimHasOwner, Owner
<1>2. CASE Chats
  <2>1. UNCHANGED thread
    BY <1>2, ChatShapes
  <2>2. ASSUME NEW d \in Draft, Composes(d) PROVE draft[e] = "sending"
    BY <1>0, <2>2, UpsertTyped DEF RowsTyped
  <2>3. ASSUME NEW d \in Draft, Confirms(d) PROVE draft[e] = "sending"
    BY <1>0, <2>3 DEF Confirms, D!Confirm, D!Set, RowsTyped
  <2>4. ASSUME NEW d \in Draft, Discards(d) PROVE draft[e] = "sending"
    BY <1>0, <2>4 DEF Discards, D!Discard, D!Set, RowsTyped
  <2>5. CASE Nothing
    BY <1>1, <2>1, <2>5 DEF Nothing
  <2>. QED
    BY <1>1, <1>2, <2>1, <2>2, <2>3, <2>4, <2>5, ChatShapes
<1>3. ASSUME NEW t \in Threads, D!ThreadStep(t) PROVE \E u \in Threads : Owner(thread'[u], e)
  <2>1. thread[t] # D!Free /\ thread[t].draft \in Draft
    BY <1>3, SendShapes
  <2>2. PICK d \in Draft : d = thread[t].draft
    BY <2>1
  <2>3. PICK s : GoesOn(t, s) /\ Sends(d, thread[t], s)
    BY <1>3, <2>2, SendShapes
  <2>4. thread'[t] = s /\ (\A u \in Threads \ {t} : thread'[u] = thread[u]) /\ (s = D!Free \/ s.draft = d)
    BY <1>0, <2>2, <2>3 DEF GoesOn, RowsTyped
  <2>5. ASSUME draft[e] = "sending", ~Owner(thread[t], e) PROVE \E u \in Threads : Owner(thread'[u], e)
    <3>1. PICK u \in Threads : Owner(thread[u], e)
      BY <1>1, <2>5
    <3>. QED
      BY <2>4, <2>5, <3>1
  <2>6. CASE e # d
    <3>1. draft[e] = "sending"
      BY <1>0, <2>3, <2>6
      DEF Sends, Claimed, GaveBack, ReadIt, MailedIt, NotMailed, SentIt, Ends, D!Reverted, D!Set, RowsTyped
    <3>2. ~Owner(thread[t], e)
      BY <2>2, <2>6 DEF Owner
    <3>. QED
      BY <2>5, <3>1, <3>2
  <2>7. CASE e = d
    <3>1. CASE s.at \in {"read", "mail", "record ok", "record failed"}
      <4>1. Owner(thread'[t], e)
        BY <2>4, <2>7, <3>1, FreeAt DEF Owner
      <4>. QED
        BY <4>1
    <3>2. CASE s.at \notin {"read", "mail", "record ok", "record failed"}
      <4>1. ~GaveBack(d, thread[t], s) /\ ~SentIt(d, thread[t], s)
        BY <1>0, <2>7 DEF GaveBack, SentIt, D!Reverted, D!Set, RowsTyped
      <4>2. Ends(d, thread[t], s)
        BY <2>3, <3>2, <4>1 DEF Sends, Claimed, ReadIt, MailedIt, NotMailed
      <4>3. UNCHANGED draft /\ thread[t].at \in {"claim", "done ok", "done failed"}
        <5>1. ~(faults' = faults + 1)
          BY <1>0
        <5>. QED
          BY <4>2, <5>1 DEF Ends
      <4>4. draft[e] = "sending" /\ ~Owner(thread[t], e)
        BY <4>3 DEF Owner
      <4>. QED
        BY <2>5, <4>4
    <3>. QED
      BY <3>1, <3>2
  <2>. QED
    BY <2>6, <2>7
<1>4. ASSUME NEW t \in Threads, D!Submit, Submits(t) PROVE \E u \in Threads : Owner(thread'[u], e)
  <2>1. draft' = draft
    BY <1>4, SubmitShapes DEF D!row
  <2>2. PICK u \in Threads : Owner(thread[u], e)
    BY <1>1, <2>1
  <2>3. u # t
    BY <1>4, <2>2, FreeAt DEF Submits, Owner
  <2>4. thread'[u] = thread[u]
    BY <1>0, <1>4, <2>3 DEF Submits, RowsTyped
  <2>. QED
    BY <2>2, <2>4
<1>5. CASE D!TimesOut \/ UNCHANGED D!vars
  <2>1. UNCHANGED <<draft, thread>>
    BY <1>5 DEF D!TimesOut, D!vars, D!row
  <2>. QED
    BY <1>1, <2>1
<1>6. CASE D!Crash
  BY <1>0, <1>6 DEF D!Crash, D!Fault
<1>. QED
  BY <1>0, <1>2, <1>3, <1>4, <1>5, <1>6 DEF Steps

LEMMA DraftsKept == DraftsInv /\ (D!Next \/ UNCHANGED D!vars) => DraftsInv'
<1>1. ASSUME DraftsInv, D!Next \/ UNCHANGED D!vars PROVE DraftsTyped'
  BY <1>1, RowsStayTyped DEF DraftsInv
<1>. QED
  BY <1>1, WorthKept, VersionsKept, LateKept, ConfirmedKept, AloneKept, MailedAsConfirmedKept, SentWasMailedKept,
     ClaimHasOwnerKept DEF DraftsInv

LEMMA InitDrafts == D!Init => DraftsInv
<1>. SUFFICES ASSUME D!Init PROVE DraftsInv
  OBVIOUS
<1>1. /\ draft = [d \in Draft |-> "none"] /\ content = [d \in Draft |-> 0] /\ composed = 0
      /\ thread = [t \in Threads |-> D!Free] /\ waits = NoThread /\ slow = 0 /\ faults = 0
      /\ confirms = D!Zero /\ mails = D!Zero
      /\ agreed = [d \in Draft |-> 0] /\ mailed = [d \in Draft |-> 0]
  BY DEF D!Init
<1>2. D!Zero \in [Draft -> [D!Version -> Nat]] /\ \A d \in Draft, v \in D!Version : D!Zero[d][v] = 0
  BY DEF D!Zero
<1>3. LoopTyped
  BY DraftsAssumed DEF D!Init, LoopTyped
<1>4. RowsTyped
  BY <1>1, <1>2, DraftsAssumed DEF RowsTyped
<1>5. \A t \in Threads : thread[t] = D!Free /\ thread[t].at = "free"
  BY <1>1, FreeAt
<1>6. /\ Left = {} /\ \A d \in Draft : Active(d) = {} /\ \A v \in D!Version : Bringing(d, v) = {}
  BY <1>5 DEF Left, Active, Acts, Bringing, Brings
<1>7. Cardinality({}) = 0
  BY FS_EmptySet
<1>8. WorthInv
  BY <1>1, <1>6, <1>7 DEF WorthInv, One
<1>9. VersionsInv
  <2>1. ASSUME NEW d \in Draft, NEW v \in D!Version
        PROVE  mails[d][v] = 0 /\ content[d] = 0 /\ v # content[d] /\ Cardinality(Bringing(d, v)) = 0
    <3>1. mails[d][v] = 0 /\ content[d] = 0
      BY <1>1, <1>2
    <3>2. Cardinality(Bringing(d, v)) = 0
      BY <1>6, <1>7
    <3>3. v # 0
      BY VersionsAre, DraftsAssumed
    <3>. QED
      BY <3>1, <3>2, <3>3
  <2>. QED
    BY <1>1, <2>1 DEF VersionsInv
<1>10. LateInv
  <2>1. Cardinality(Left) <= slow
    BY <1>1, <1>6, <1>7
  <2>. QED
    BY <1>5, <2>1 DEF LateInv
<1>11. ConfirmedInv /\ D!SentWasMailed /\ D!ClaimHasOwner
  BY <1>1 DEF ConfirmedInv, D!SentWasMailed, D!ClaimHasOwner
<1>12. AloneInv
  BY <1>5 DEF AloneInv, Owns
<1>13. D!MailedAsConfirmed
  BY <1>1, <1>2 DEF D!MailedAsConfirmed
<1>. QED
  BY <1>3, <1>4, <1>8, <1>9, <1>10, <1>11, <1>12, <1>13 DEF DraftsInv, DraftsTyped

LEMMA DraftsSound == DraftsInv => DraftsAreSound
<1>. SUFFICES ASSUME DraftsInv PROVE DraftsAreSound
  OBVIOUS
<1>0. RowsTyped /\ faults \in Nat /\ slow \in Nat
  BY DraftsAssumed DEF DraftsInv, DraftsTyped, LoopTyped
<1>1. D!TypeOK
  BY DraftsTypedSound DEF DraftsInv
<1>2. ASSUME NEW d \in Draft, NEW v \in D!Version PROVE mails[d][v] <= 1 + slow + faults
  <2>1. /\ v = content[d] => mails[d][v] + Cardinality(Active(d)) + One(draft[d] \in {"pending", "confirmed"}) <= 1 + slow + faults
        /\ v # content[d] => mails[d][v] + Cardinality(Bringing(d, v)) <= 1 + slow + faults
    BY DEF DraftsInv, VersionsInv
  <2>2. mails[d][v] \in Nat /\ Cardinality(Active(d)) \in Nat /\ Cardinality(Bringing(d, v)) \in Nat
    BY <1>0, ActiveCounted DEF RowsTyped
  <2>3. One(draft[d] \in {"pending", "confirmed"}) \in 0 .. 1
    BY DEF One
  <2>. QED
    BY <1>0, <2>1, <2>2, <2>3
<1>3. ASSUME NEW d \in Draft PROVE mailed[d] <= agreed[d] + faults
  <2>1. mailed[d] + Cardinality(Active(d)) + One(draft[d] = "confirmed") <= agreed[d] + faults
    BY DEF DraftsInv, WorthInv
  <2>2. mailed[d] \in Nat /\ agreed[d] \in Nat /\ Cardinality(Active(d)) \in Nat
    BY <1>0, ActiveCounted DEF RowsTyped
  <2>3. One(draft[d] = "confirmed") \in 0 .. 1
    BY DEF One
  <2>. QED
    BY <1>0, <2>1, <2>2, <2>3
<1>. QED
  BY <1>1, <1>2, <1>3 DEF DraftsInv, DraftsAreSound, D!StatusIsTrue, D!NoDoubleMail, D!MailedOncePerConfirmation

-----------------------------------------------------------------------------
(* Together: a step moves one component and leaves the others what they    *)
(* are.                                                                    *)

DeskInv == IInv /\ ExecutedInv /\ AccountsInv /\ ListsInv /\ DraftsInv

LEMMA InitDesk == DeskInit => DeskInv
<1>1. Init => ExecutedInv
  BY DEF Init, ExecutedInv
<1>. QED
  BY <1>1, InitIInv, InitAccounts, InitLists, InitDrafts DEF DeskInit, DeskInv

LEMMA DeskKept == DeskInv /\ [DeskNext]_desk => DeskInv'
<1>. SUFFICES ASSUME IInv, ExecutedInv, AccountsInv, ListsInv, DraftsInv, [DeskNext]_desk
              PROVE  IInv' /\ ExecutedInv' /\ AccountsInv' /\ ListsInv' /\ DraftsInv'
  BY DEF DeskInv
<1>1. [Next]_vars /\ (L!Next \/ UNCHANGED L!vars) /\ (A!Next \/ UNCHANGED A!vars)
  BY DEF DeskNext, Parking, Drafting, Listing, Linking, desk, parking, listing, linking, L!vars, A!vars
<1>2. D!Next \/ UNCHANGED D!vars
  BY DEF DeskNext, Parking, Drafting, Listing, Linking, desk, drafting, D!vars, D!row, D!chat, D!loop, D!history
<1>. QED
  BY <1>1, <1>2, NextIInv, StepExecuted, AccountsKept, ListsKept, DraftsKept

THEOREM DeskInvariance == DeskSpec => []DeskInv
  BY InitDesk, DeskKept, PTL DEF DeskSpec

\* Whatever is ticked, added, removed or left unanswered, and wherever the heartbeat is restarted
\* in a rollover: no open item leaves the open lists but as its template's policy says.
THEOREM ListsAreSoundAlways == DeskSpec => []ListsAreSound
<1>1. DeskInv => ListsAreSound
  BY ListsSound DEF DeskInv
<1>. QED
  BY <1>1, DeskInvariance, PTL

\* However taps, edits, late sends, failures and crashes interleave: a draft is mailed once per
\* confirmation and as it was confirmed, and its status tells what became of it.
THEOREM DraftsAreSoundAlways == DeskSpec => []DraftsAreSound
<1>1. DeskInv => DraftsAreSound
  BY DraftsSound DEF DeskInv
<1>. QED
  BY <1>1, DeskInvariance, PTL

\* However grants, refreshes and disconnects of accounts interleave and fail: a link connects once,
\* row and tokens are of one grant, and a row is revoked only if its grant is.
THEOREM AccountsAreSoundAlways == DeskSpec => []AccountsAreSound
<1>1. DeskInv => AccountsAreSound
  BY AccountsSound DEF DeskInv
<1>. QED
  BY <1>1, DeskInvariance, PTL

=============================================================================
