-------------------------- MODULE ReactLoopProofs --------------------------
(***************************************************************************)
(* For any nudges, runs, cycles, windows and faults: a nudge is sent twice *)
(* in a window only if both were on their way from gate to audit, or       *)
(* something failed; and it is suppressed only if one was sent that tells  *)
(* all it refers to.                                                       *)
(*                                                                         *)
(* The argument is a balance.  Every passage that another call may use for *)
(* a repetition was paid for, by a fault or by meeting the other process   *)
(* on its way: so what may still be repeated for nothing is bounded.       *)
(*                                                                         *)
(* And the stores of the loop are sound: the trust record, because what    *)
(* was read stays earned while others write; and the store of handles,     *)
(* because eviction leaves the newest part of what the run created.        *)
(***************************************************************************)
EXTENDS ReactLoop, FiniteSetTheorems, WellFoundedInduction, TLAPS

\* What the balance needs to know of the types.
AnyCall == Nudge \cup Plain \cup [tool : {"read"}, handle : Int] \cup {NoCall}

Place == {"idle", "think", "read trust", "write trust", "act", "gate", "execute", "audit", "observe"}

NudgeTypes ==
  /\ pc \in [Process -> Place]
  /\ call \in [Process -> AnyCall]
  /\ log \subseteq Nudge /\ suppressed \subseteq Nudge
  /\ executed \subseteq Nudge /\ IsFiniteSet(executed)
  /\ repeats \in Nat /\ together \in Nat /\ faults \in Nat

Way == {"execute", "audit"}   \* from gate to audit

LogInv ==
  /\ log \subseteq executed
  /\ \A p \in Process : pc[p] = "audit" => IsNudge(call[p]) /\ call[p] \in executed

Covered(c)    == \E m \in log : Covers(m, c)
Pending(p, c) == pc[p] \in Way /\ IsNudge(call[p]) /\ call[p] = c

\* Sent, but not known to the log, and nobody is about to see to it: the next one passes.
Abandoned == {c \in executed : ~Covered(c) /\ \A p \in Process : ~Pending(p, c)}

\* On its way to be a repetition.
Repeating(p) == IF pc[p] = "execute" /\ call[p] \in executed THEN 1 ELSE 0

\* One of the two will be the first, and the other one a repetition.
Racing ==
  /\ \A p \in Process : pc[p] = "execute" /\ IsNudge(call[p]) /\ call[p] \notin executed
  /\ \A p, q \in Process : call[p] = call[q]

Met == IF Racing THEN 1 ELSE 0

Due == Cardinality(Abandoned) + Repeating("chat") + Repeating("heartbeat") + Met

Balance == repeats + Due <= together + faults

NInv == NudgeTypes /\ LogInv /\ SuppressedWasTold /\ Balance

-----------------------------------------------------------------------------
LEMMA NudgeFacts ==
  /\ \A c \in Nudge : IsNudge(c) /\ Covers(c, c)
  /\ \A c \in AnyCall : IsNudge(c) => c \in Nudge
  /\ LateAlert \in Nudge
<1>1. \A c \in Nudge : IsNudge(c) /\ Covers(c, c)
  BY DEF Nudge, IsNudge, Covers
<1>2. \A c \in AnyCall : IsNudge(c) => c \in Nudge
  BY DEF AnyCall, Plain, NoCall, IsNudge
<1>3. LateAlert \in Nudge
  BY DEF LateAlert, Nudge
<1>. QED
  BY <1>1, <1>2, <1>3

LEMMA TwoProcesses ==
  ASSUME NEW p \in Process
  PROVE  /\ Other(p) \in Process /\ Other(p) # p /\ Process = {p, Other(p)}
         /\ {p, Other(p)} = {"chat", "heartbeat"}
<1>1. \E q \in Process : q # p
  BY DEF Process
<1>2. Other(p) \in Process /\ Other(p) # p
  BY <1>1 DEF Other
<1>. QED
  BY <1>2 DEF Process

\* The balance, seen from one process; and after a step.
LEMMA BalanceFrom ==
  ASSUME NudgeTypes, NEW p \in Process
  PROVE  /\ repeats \in Nat /\ together \in Nat /\ faults \in Nat
         /\ Repeating(p) \in 0 .. 1 /\ Repeating(Other(p)) \in 0 .. 1 /\ Met \in 0 .. 1
         /\ Cardinality(Abandoned) \in Nat
         /\ Racing => Repeating(p) = 0 /\ Repeating(Other(p)) = 0
         /\ Balance <=> repeats + Cardinality(Abandoned) + Repeating(p) + Repeating(Other(p)) + Met
                          <= together + faults
<1>1. Cardinality(Abandoned) \in Nat
  <2>1. Abandoned \subseteq executed /\ IsFiniteSet(executed)
    BY DEF Abandoned, NudgeTypes
  <2>. QED
    BY <2>1, FS_Subset, FS_CardinalityType
<1>2. (\A q : Repeating(q) \in 0 .. 1) /\ Met \in 0 .. 1
  BY DEF Repeating, Met
<1>3. Repeating("chat") + Repeating("heartbeat") = Repeating(p) + Repeating(Other(p))
  <2>1. (p = "chat" /\ Other(p) = "heartbeat") \/ (p = "heartbeat" /\ Other(p) = "chat")
    BY TwoProcesses
  <2>2. Repeating("chat") \in Nat /\ Repeating("heartbeat") \in Nat
    BY <1>2
  <2>. QED
    BY <2>1, <2>2
<1>4. Racing => Repeating(p) = 0 /\ Repeating(Other(p)) = 0
  BY TwoProcesses DEF Racing, Repeating
<1>5. repeats \in Nat /\ together \in Nat /\ faults \in Nat
  BY DEF NudgeTypes
<1>6. repeats + Due = repeats + Cardinality(Abandoned) + Repeating(p) + Repeating(Other(p)) + Met
  <2>1. Due = Cardinality(Abandoned) + (Repeating("chat") + Repeating("heartbeat")) + Met
    <3>1. /\ Cardinality(Abandoned) \in Int /\ Repeating("chat") \in Int /\ Repeating("heartbeat") \in Int
          /\ Met \in Int
      BY <1>1, <1>2
    <3>. QED
      BY <3>1 DEF Due
  <2>2. /\ Cardinality(Abandoned) \in Int /\ Repeating(p) \in Int /\ Repeating(Other(p)) \in Int
        /\ Met \in Int /\ repeats \in Int
    BY <1>1, <1>2, <1>5
  <2>. QED
    BY <1>3, <2>1, <2>2
<1>7. Balance <=> repeats + Due <= together + faults
  BY DEF Balance
<1>. QED
  BY <1>1, <1>2, <1>4, <1>5, <1>6, <1>7

LEMMA BalanceThen ==
  ASSUME NudgeTypes', NEW p \in Process
  PROVE  /\ repeats' \in Nat /\ together' \in Nat /\ faults' \in Nat
         /\ Repeating(p)' \in 0 .. 1 /\ Repeating(Other(p))' \in 0 .. 1 /\ Met' \in 0 .. 1
         /\ Cardinality(Abandoned') \in Nat
         /\ Racing' => Repeating(p)' = 0 /\ Repeating(Other(p))' = 0
         /\ Balance' <=> repeats' + Cardinality(Abandoned') + Repeating(p)' + Repeating(Other(p))' + Met'
                          <= together' + faults'
<1>1. Cardinality(Abandoned') \in Nat
  <2>1. Abandoned' \subseteq executed' /\ IsFiniteSet(executed')
    BY DEF Abandoned, NudgeTypes
  <2>. QED
    BY <2>1, FS_Subset, FS_CardinalityType
<1>2. (\A q : Repeating(q)' \in 0 .. 1) /\ Met' \in 0 .. 1
  BY DEF Repeating, Met
<1>3. Repeating("chat")' + Repeating("heartbeat")' = Repeating(p)' + Repeating(Other(p))'
  <2>1. (p = "chat" /\ Other(p) = "heartbeat") \/ (p = "heartbeat" /\ Other(p) = "chat")
    BY TwoProcesses
  <2>2. Repeating("chat")' \in Nat /\ Repeating("heartbeat")' \in Nat
    BY <1>2
  <2>. QED
    BY <2>1, <2>2
<1>4. Racing' => Repeating(p)' = 0 /\ Repeating(Other(p))' = 0
  BY TwoProcesses DEF Racing, Repeating
<1>5. repeats' \in Nat /\ together' \in Nat /\ faults' \in Nat
  BY DEF NudgeTypes
<1>6. repeats' + Due' = repeats' + Cardinality(Abandoned') + Repeating(p)' + Repeating(Other(p))' + Met'
  <2>1. Due' = Cardinality(Abandoned') + (Repeating("chat")' + Repeating("heartbeat")') + Met'
    <3>1. /\ Cardinality(Abandoned') \in Int /\ Repeating("chat")' \in Int /\ Repeating("heartbeat")' \in Int
          /\ Met' \in Int
      BY <1>1, <1>2
    <3>. QED
      BY <3>1 DEF Due
  <2>2. /\ Cardinality(Abandoned') \in Int /\ Repeating(p)' \in Int /\ Repeating(Other(p))' \in Int
        /\ Met' \in Int /\ repeats' \in Int
    BY <1>1, <1>2, <1>5
  <2>. QED
    BY <1>3, <2>1, <2>2
<1>7. Balance' <=> repeats' + Due' <= together' + faults'
  BY DEF Balance
<1>. QED
  BY <1>1, <1>2, <1>4, <1>5, <1>6, <1>7

LEMMA CardinalityDown ==
  ASSUME NEW S, NEW T, IsFiniteSet(S), T \subseteq S
  PROVE  Cardinality(T) \in Nat /\ Cardinality(S) \in Nat /\ Cardinality(T) <= Cardinality(S)
BY FS_Subset, FS_CardinalityType

LEMMA CardinalityUpOne ==
  ASSUME NEW S, NEW T, NEW x, IsFiniteSet(S), T \subseteq S \cup {x}
  PROVE  Cardinality(T) \in Nat /\ Cardinality(T) <= Cardinality(S) + 1
<1>1. IsFiniteSet(S \cup {x}) /\ Cardinality(S \cup {x}) <= Cardinality(S) + 1
  <2>1. Cardinality(S) \in Nat
    BY FS_CardinalityType
  <2>2. CASE x \in S
    <3>1. S \cup {x} = S
      BY <2>2
    <3>. QED
      BY <2>1, <3>1
  <2>3. CASE x \notin S
    <3>1. Cardinality(S \cup {x}) = Cardinality(S) + 1 /\ IsFiniteSet(S \cup {x})
      BY <2>3, FS_AddElement
    <3>. QED
      BY <2>1, <3>1
  <2>. QED
    BY <2>2, <2>3
<1>. QED
  BY <1>1, CardinalityDown, FS_CardinalityType

-----------------------------------------------------------------------------
\* A step of p that is not on its way before or after, and leaves the log and the books alone.
LEMMA AsideStep ==
  ASSUME NInv, NudgeTypes', NEW p \in Process, pc[p] \notin Way, pc'[p] \notin Way,
         pc'[Other(p)] = pc[Other(p)], call'[Other(p)] = call[Other(p)],
         UNCHANGED <<log, executed, repeats, together>>, faults' >= faults,
         SuppressedWasTold'
  PROVE  NInv'
<1>1. Process = {p, Other(p)} /\ Other(p) \in Process /\ Other(p) # p
  BY TwoProcesses
<1>2. \A q \in Process : \A c : Pending(q, c)' <=> Pending(q, c)
  BY <1>1 DEF Pending, Way
<1>3. Abandoned' = Abandoned
  BY <1>2 DEF Abandoned, Covered
<1>4. /\ Repeating(p)' = 0 /\ Repeating(p) = 0
      /\ Repeating(Other(p))' = Repeating(Other(p))
      /\ ~Racing /\ ~Racing'
  BY <1>1 DEF Repeating, Racing, Way
<1>5. Balance'
  <2>1. Met = 0 /\ Met' = 0 /\ repeats' = repeats /\ together' = together
    BY <1>4 DEF Met
  <2>2. repeats + Cardinality(Abandoned) + 0 + Repeating(Other(p)) + 0 <= together + faults
    BY <1>4, <2>1, BalanceFrom DEF NInv
  <2>3. /\ Repeating(Other(p)) \in Nat /\ Cardinality(Abandoned) \in Nat
        /\ repeats \in Nat /\ together \in Nat /\ faults \in Nat
    BY BalanceFrom DEF NInv
  <2>4. faults' \in Nat
    BY BalanceThen
  <2>5. repeats + Cardinality(Abandoned) + 0 + Repeating(Other(p)) + 0 <= together + faults'
    BY <2>2, <2>3, <2>4
  <2>. QED
    BY <1>3, <1>4, <2>1, <2>5, BalanceThen
<1>6. LogInv'
  BY <1>1 DEF NInv, LogInv, Way
<1>. QED
  BY <1>5, <1>6 DEF NInv

\* What a step of p does to what the other one is due: nothing, while nothing is executed.
LEMMA OtherKept ==
  ASSUME NEW p \in Process, pc'[Other(p)] = pc[Other(p)], call'[Other(p)] = call[Other(p)],
         UNCHANGED executed
  PROVE  Repeating(Other(p))' = Repeating(Other(p))
BY DEF Repeating

-----------------------------------------------------------------------------
LEMMA AllowStep ==
  ASSUME NInv, NudgeTypes', NEW p \in Process, Allow(p)
  PROVE  NInv'
<1>1. Process = {p, Other(p)} /\ Other(p) \in Process /\ Other(p) # p
  BY TwoProcesses
<1>2. /\ pc[p] = "gate" /\ pc'[p] = "execute" /\ pc'[Other(p)] = pc[Other(p)]
      /\ call' = call /\ log' = log /\ executed' = executed /\ suppressed' = suppressed
      /\ repeats' = repeats
  BY <1>1 DEF Allow, Goes, Set, calls, shared, NInv, NudgeTypes
<1>3. /\ Repeating(p) = 0 /\ Repeating(Other(p))' = Repeating(Other(p)) /\ ~Racing /\ Met = 0
  <2>1. Repeating(p) = 0
    BY <1>2 DEF Repeating
  <2>2. ~Racing
    BY <1>2 DEF Racing
  <2>. QED
    BY <1>2, <2>1, <2>2, OtherKept DEF Met
<1>4. \A x : Covered(x)' <=> Covered(x)
  BY <1>2 DEF Covered
<1>5. \A x : Pending(Other(p), x)' <=> Pending(Other(p), x)
  BY <1>2 DEF Pending
<1>6. \A x : ~Pending(p, x)
  BY <1>2 DEF Pending, Way
<1>7. \A x : Pending(p, x)' <=> IsNudge(call[p]) /\ call[p] = x
  BY <1>2 DEF Pending, Way
<1>8. Abandoned' \subseteq Abandoned /\ (IsNudge(call[p]) => call[p] \notin Abandoned')
  <2>1. \A x \in Abandoned' : x \in executed /\ ~Covered(x) /\ ~Pending(Other(p), x)
    BY <1>1, <1>2, <1>4, <1>5 DEF Abandoned
  <2>2. \A x \in Abandoned' : x \in Abandoned
    BY <1>1, <1>6, <2>1 DEF Abandoned
  <2>3. IsNudge(call[p]) => call[p] \notin Abandoned'
    BY <1>7 DEF Abandoned
  <2>. QED
    BY <2>2, <2>3
<1>9. IsFiniteSet(Abandoned)
  BY FS_Subset DEF Abandoned, NInv, NudgeTypes
<1>10. Cardinality(Abandoned') <= Cardinality(Abandoned)
  BY <1>8, <1>9, CardinalityDown
<1>11. call[p] \in executed => IsNudge(call[p])
  BY NudgeFacts DEF NInv, NudgeTypes
<1>12. Racing' => IsNudge(call[p]) /\ Passing(Other(p))
  BY <1>1, <1>2 DEF Racing, Passing
<1>13. /\ Repeating(p)' = IF call[p] \in executed THEN 1 ELSE 0
       /\ Repeating(p)' + Met' <= 1
  <2>1. Repeating(p)' = IF call[p] \in executed THEN 1 ELSE 0
    BY <1>2 DEF Repeating
  <2>2. Racing' => call[p] \notin executed
    BY <1>2 DEF Racing
  <2>3. Met' = IF Racing' THEN 1 ELSE 0
    BY DEF Met
  <2>. QED
    BY <2>1, <2>2, <2>3
<1>14. Cardinality(Abandoned') + Repeating(p)' + Met' + together + faults <= Cardinality(Abandoned) + together' + faults'
  <2>0. /\ Cardinality(Abandoned') \in Nat /\ Cardinality(Abandoned) \in Nat
        /\ Repeating(p)' \in Nat /\ Met' \in Nat
        /\ together \in Nat /\ faults \in Nat
    BY BalanceFrom, BalanceThen DEF NInv
  <2>1. CASE Duplicate(call[p])
    <3>1. faults' = faults + 1 /\ (together' = together \/ together' = together + 1)
      BY <2>1 DEF Allow, Fault
    <3>2. Repeating(p)' + Met' <= 1
      BY <1>13
    <3>. QED
      BY <1>10, <2>0, <3>1, <3>2
  <2>2. CASE ~Duplicate(call[p]) /\ IsNudge(call[p]) /\ Passing(Other(p))
    <3>1. faults' = faults /\ together' = together + 1
      BY <2>2 DEF Allow, NoFault
    <3>2. Repeating(p)' + Met' <= 1
      BY <1>13
    <3>. QED
      BY <1>10, <2>0, <3>1, <3>2
  <2>3. CASE ~Duplicate(call[p]) /\ ~(IsNudge(call[p]) /\ Passing(Other(p)))
    <3>1. faults' = faults /\ together' = together
      BY <2>3 DEF Allow, NoFault
    <3>2. Met' = 0
      BY <1>12, <2>3 DEF Met
    <3>3. CASE call[p] \in executed
      <4>1. IsNudge(call[p]) /\ ~Passing(Other(p))
        BY <1>11, <2>3, <3>3
      <4>2. ~Covered(call[p]) /\ ~Pending(Other(p), call[p])
        BY <2>3, <4>1 DEF Covered, Duplicate, Pending, Passing, Way
      <4>3. call[p] \in Abandoned
        BY <1>1, <1>6, <3>3, <4>2 DEF Abandoned
      <4>4. Abandoned' \subseteq Abandoned \ {call[p]}
        BY <1>8, <4>1
      <4>5. IsFiniteSet(Abandoned \ {call[p]}) /\ Cardinality(Abandoned \ {call[p]}) = Cardinality(Abandoned) - 1
        BY <1>9, <4>3, FS_RemoveElement
      <4>6. Cardinality(Abandoned') <= Cardinality(Abandoned) - 1
        BY <4>4, <4>5, CardinalityDown
      <4>7. Repeating(p)' = 1
        BY <1>13, <3>3
      <4>. QED
        BY <2>0, <3>1, <3>2, <4>6, <4>7
    <3>4. CASE call[p] \notin executed
      <4>1. Repeating(p)' = 0
        BY <1>13, <3>4
      <4>. QED
        BY <1>10, <2>0, <3>1, <3>2, <4>1
    <3>. QED
      BY <3>3, <3>4
  <2>. QED
    BY <2>1, <2>2, <2>3
<1>15. Balance'
  <2>1. /\ repeats + Cardinality(Abandoned) + 0 + Repeating(Other(p)) + 0 <= together + faults
        /\ repeats \in Nat /\ Cardinality(Abandoned) \in Nat /\ Repeating(Other(p)) \in Nat
        /\ together \in Nat /\ faults \in Nat
    BY <1>3, BalanceFrom DEF NInv
  <2>2. /\ together' \in Nat /\ faults' \in Nat /\ Repeating(p)' \in Nat /\ Met' \in Nat
        /\ Cardinality(Abandoned') \in Nat
    BY BalanceThen
  <2>3. repeats + Cardinality(Abandoned') + Repeating(p)' + Repeating(Other(p)) + Met' <= together' + faults'
    BY <1>14, <2>1, <2>2
  <2>. QED
    BY <1>2, <1>3, <2>3, BalanceThen
<1>16. LogInv'
  BY <1>1, <1>2 DEF NInv, LogInv
<1>17. SuppressedWasTold'
  BY <1>2 DEF NInv, SuppressedWasTold
<1>. QED
  BY <1>15, <1>16, <1>17 DEF NInv

LEMMA ExecuteStep ==
  ASSUME NInv, NudgeTypes', NEW p \in Process, Execute(p)
  PROVE  NInv'
<1>1. Process = {p, Other(p)} /\ Other(p) \in Process /\ Other(p) # p
  BY TwoProcesses
<1>2. /\ pc[p] = "execute" /\ pc'[Other(p)] = pc[Other(p)]
      /\ pc'[p] = IF IsNudge(call[p]) THEN "audit" ELSE "observe"
      /\ call' = call /\ log' = log /\ suppressed' = suppressed
      /\ executed' = IF IsNudge(call[p]) THEN executed \cup {call[p]} ELSE executed
      /\ repeats' = IF call[p] \in executed THEN repeats + 1 ELSE repeats
      /\ together' = together /\ faults' = faults
  BY <1>1 DEF Execute, Goes, Set, shared, NInv, NudgeTypes
<1>3. call[p] \in executed => IsNudge(call[p]) /\ executed' = executed
  <2>1. call[p] \in executed => IsNudge(call[p])
    BY NudgeFacts DEF NInv, NudgeTypes
  <2>. QED
    BY <1>2, <2>1
<1>4. \A q \in Process : \A x : Pending(q, x)' <=> Pending(q, x)
  BY <1>1, <1>2 DEF Pending, Way
<1>5. Abandoned' \subseteq Abandoned
  <2>1. \A x : Covered(x)' <=> Covered(x)
    BY <1>2 DEF Covered
  <2>2. IsNudge(call[p]) => Pending(p, call[p])
    BY <1>2 DEF Pending, Way
  <2>3. \A x \in executed' : x \in executed \/ (x = call[p] /\ IsNudge(call[p]))
    BY <1>2
  <2>4. \A x \in Abandoned' : ~Covered(x) /\ (\A q \in Process : ~Pending(q, x)) /\ x \in executed'
    BY <1>4, <2>1 DEF Abandoned
  <2>. QED
    BY <2>2, <2>3, <2>4 DEF Abandoned
<1>6. Cardinality(Abandoned') <= Cardinality(Abandoned)
  <2>1. IsFiniteSet(Abandoned)
    BY FS_Subset DEF Abandoned, NInv, NudgeTypes
  <2>. QED
    BY <1>5, <2>1, CardinalityDown
<1>7. Repeating(p)' = 0 /\ Met' = 0
  BY <1>2 DEF Repeating, Met, Racing
<1>8. Repeating(p) = IF call[p] \in executed THEN 1 ELSE 0
  BY <1>2 DEF Repeating
<1>9. Repeating(Other(p))' <= Repeating(Other(p)) + Met
  <2>0. Repeating(Other(p))' \in 0 .. 1 /\ Repeating(Other(p)) \in 0 .. 1 /\ Met \in 0 .. 1
    BY BalanceFrom, BalanceThen DEF NInv
  <2>1. CASE Repeating(Other(p)) = 0 /\ Repeating(Other(p))' = 1
    <3>1. pc[Other(p)] = "execute" /\ call[Other(p)] \notin executed /\ call[Other(p)] \in executed'
      BY <1>2, <2>1 DEF Repeating
    <3>2. IsNudge(call[p]) /\ call[Other(p)] = call[p]
      BY <1>2, <3>1
    <3>3. Racing
      BY <1>1, <1>2, <3>1, <3>2 DEF Racing
    <3>. QED
      BY <2>1, <3>3 DEF Met
  <2>2. CASE ~(Repeating(Other(p)) = 0 /\ Repeating(Other(p))' = 1)
    BY <2>0, <2>2
  <2>. QED
    BY <2>1, <2>2
<1>10. Balance'
  <2>1. /\ repeats + Cardinality(Abandoned) + Repeating(p) + Repeating(Other(p)) + Met <= together + faults
        /\ repeats \in Nat /\ Cardinality(Abandoned) \in Nat /\ Repeating(Other(p)) \in Nat /\ Met \in Nat
        /\ together \in Nat /\ faults \in Nat /\ Repeating(p) \in Nat
    BY BalanceFrom DEF NInv
  <2>2. /\ Repeating(Other(p))' \in Nat /\ Cardinality(Abandoned') \in Nat
    BY BalanceThen
  <2>3. repeats' = repeats + Repeating(p)
    BY <1>2, <1>8, <2>1
  <2>4. repeats' + Cardinality(Abandoned') + 0 + Repeating(Other(p))' + 0 <= together + faults
    BY <1>6, <1>9, <2>1, <2>2, <2>3
  <2>. QED
    BY <1>2, <1>7, <2>4, BalanceThen
<1>11. LogInv'
  BY <1>1, <1>2 DEF NInv, LogInv
<1>12. SuppressedWasTold'
  BY <1>2 DEF NInv, SuppressedWasTold
<1>. QED
  BY <1>10, <1>11, <1>12 DEF NInv

LEMMA AuditStep ==
  ASSUME NInv, NudgeTypes', NEW p \in Process, Audit(p)
  PROVE  NInv'
<1>1. Process = {p, Other(p)} /\ Other(p) \in Process /\ Other(p) # p
  BY TwoProcesses
<1>2. /\ pc[p] = "audit" /\ pc'[p] = "observe" /\ pc'[Other(p)] = pc[Other(p)]
      /\ call' = call /\ executed' = executed /\ suppressed' = suppressed
      /\ repeats' = repeats /\ together' = together
  BY <1>1 DEF Audit, Goes, Set, calls, told, NInv, NudgeTypes
<1>3. IsNudge(call[p]) /\ call[p] \in executed /\ Covers(call[p], call[p])
  <2>1. IsNudge(call[p]) /\ call[p] \in executed
    BY <1>2 DEF NInv, LogInv
  <2>. QED
    BY <2>1, NudgeFacts DEF NInv, NudgeTypes
<1>4. /\ Repeating(p) = 0 /\ Repeating(p)' = 0 /\ Met = 0 /\ Met' = 0
      /\ Repeating(Other(p))' = Repeating(Other(p))
  BY <1>2, OtherKept DEF Repeating, Met, Racing
<1>5. \A x : Pending(Other(p), x)' <=> Pending(Other(p), x)
  BY <1>2 DEF Pending
<1>6. \A x : Pending(p, x) => x = call[p]
  BY DEF Pending
<1>7. IsFiniteSet(Abandoned)
  BY FS_Subset DEF Abandoned, NInv, NudgeTypes
<1>8. /\ faults' \in {faults, faults + 1} /\ log' \subseteq executed
      /\ Cardinality(Abandoned') + faults <= Cardinality(Abandoned) + faults'
  <2>0. Cardinality(Abandoned') \in Nat /\ Cardinality(Abandoned) \in Nat /\ faults \in Nat
    BY BalanceFrom, BalanceThen DEF NInv
  <2>1. CASE faults' = faults /\ log' = log \cup {call[p]}
    <3>1. \A x : Covered(x) => Covered(x)'
      BY <2>1 DEF Covered
    <3>2. Covered(call[p])'
      BY <1>2, <1>3, <2>1 DEF Covered
    <3>3. \A x \in Abandoned' : x \in executed /\ ~Covered(x) /\ ~Pending(Other(p), x) /\ x # call[p]
      BY <1>1, <1>2, <1>5, <3>1, <3>2 DEF Abandoned
    <3>4. Abandoned' \subseteq Abandoned
      BY <1>1, <1>6, <3>3 DEF Abandoned
    <3>5. Cardinality(Abandoned') <= Cardinality(Abandoned)
      BY <1>7, <3>4, CardinalityDown
    <3>. QED
      BY <1>3, <2>0, <2>1, <3>5 DEF NInv, LogInv
  <2>2. CASE faults' = faults + 1 /\ log' = log
    <3>1. \A x : Covered(x)' <=> Covered(x)
      BY <2>2 DEF Covered
    <3>2. \A x \in Abandoned' : x \in executed /\ ~Covered(x) /\ ~Pending(Other(p), x)
      BY <1>1, <1>2, <1>5, <3>1 DEF Abandoned
    <3>3. Abandoned' \subseteq Abandoned \cup {call[p]}
      BY <1>1, <1>6, <3>2 DEF Abandoned
    <3>4. Cardinality(Abandoned') <= Cardinality(Abandoned) + 1
      BY <1>7, <3>3, CardinalityUpOne
    <3>. QED
      BY <2>0, <2>2, <3>4 DEF NInv, LogInv
  <2>. QED
    BY <2>1, <2>2 DEF Audit, Audited, Fault, NoFault
<1>9. Balance'
  <2>1. /\ repeats + Cardinality(Abandoned) + 0 + Repeating(Other(p)) + 0 <= together + faults
        /\ repeats \in Nat /\ Cardinality(Abandoned) \in Nat /\ Repeating(Other(p)) \in Nat
        /\ together \in Nat /\ faults \in Nat
    BY <1>4, BalanceFrom DEF NInv
  <2>2. Cardinality(Abandoned') \in Nat /\ faults' \in Nat
    BY BalanceThen
  <2>3. repeats + Cardinality(Abandoned') + 0 + Repeating(Other(p)) + 0 <= together + faults'
    BY <1>8, <2>1, <2>2
  <2>. QED
    BY <1>2, <1>4, <2>3, BalanceThen
<1>10. LogInv'
  BY <1>1, <1>2, <1>8 DEF NInv, LogInv
<1>11. SuppressedWasTold'
  BY <1>2 DEF NInv, SuppressedWasTold
<1>. QED
  BY <1>9, <1>10, <1>11 DEF NInv

LEMMA CrashStep ==
  ASSUME NInv, NudgeTypes', NEW p \in Process, Crash(p)
  PROVE  NInv'
<1>1. Process = {p, Other(p)} /\ Other(p) \in Process /\ Other(p) # p
  BY TwoProcesses
<1>2. /\ pc'[p] = "idle" /\ pc'[Other(p)] = pc[Other(p)] /\ call'[Other(p)] = call[Other(p)]
      /\ log' = log /\ executed' = executed /\ suppressed' = suppressed
      /\ repeats' = repeats /\ together' = together /\ faults' = faults + 1
  BY <1>1 DEF Crash, Goes, Set, Fault, shared, told, NInv, NudgeTypes
<1>3. /\ Repeating(p)' = 0 /\ Met' = 0 /\ Repeating(Other(p))' = Repeating(Other(p))
  BY <1>2, OtherKept DEF Repeating, Met, Racing
<1>4. Abandoned' \subseteq Abandoned \cup {call[p]}
  <2>1. \A x : (Pending(Other(p), x)' <=> Pending(Other(p), x)) /\ (Covered(x)' <=> Covered(x))
    BY <1>2 DEF Pending, Covered
  <2>2. \A x : Pending(p, x) => x = call[p]
    BY DEF Pending
  <2>3. \A x \in Abandoned' : x \in executed /\ ~Covered(x) /\ ~Pending(Other(p), x)
    BY <1>1, <1>2, <2>1 DEF Abandoned
  <2>. QED
    BY <1>1, <2>2, <2>3 DEF Abandoned
<1>5. Cardinality(Abandoned') <= Cardinality(Abandoned) + 1
  <2>1. IsFiniteSet(Abandoned)
    BY FS_Subset DEF Abandoned, NInv, NudgeTypes
  <2>. QED
    BY <1>4, <2>1, CardinalityUpOne
<1>6. Balance'
  <2>1. /\ repeats + Cardinality(Abandoned) + Repeating(p) + Repeating(Other(p)) + Met <= together + faults
        /\ repeats \in Nat /\ Cardinality(Abandoned) \in Nat /\ Repeating(Other(p)) \in Nat /\ Met \in Nat
        /\ together \in Nat /\ faults \in Nat /\ Repeating(p) \in Nat
    BY BalanceFrom DEF NInv
  <2>2. Cardinality(Abandoned') \in Nat
    BY BalanceThen
  <2>3. repeats + Cardinality(Abandoned') + 0 + Repeating(Other(p)) + 0 <= together + (faults + 1)
    BY <1>5, <2>1, <2>2
  <2>. QED
    BY <1>2, <1>3, <2>3, BalanceThen
<1>7. LogInv'
  BY <1>1, <1>2 DEF NInv, LogInv
<1>8. SuppressedWasTold'
  BY <1>2 DEF NInv, SuppressedWasTold
<1>. QED
  BY <1>6, <1>7, <1>8 DEF NInv

LEMMA WindowStep ==
  ASSUME NInv, NudgeTypes', Window
  PROVE  NInv'
<1>1. /\ \A p \in Process : ~Passing(p)
      /\ pc' = pc /\ call' = call /\ log' = {} /\ executed' = {} /\ suppressed' = {}
      /\ repeats' = repeats /\ together' = together /\ faults' = faults
  BY DEF Window, calls
<1>2. "chat" \in Process
  BY DEF Process
<1>3. /\ Repeating("chat")' = 0 /\ Repeating(Other("chat"))' = 0
      /\ Abandoned' = {} /\ ~Racing'
  <2>1. Abandoned' = {}
    BY <1>1 DEF Abandoned
  <2>2. ~Racing'
    BY <1>1, <1>2 DEF Racing, Passing
  <2>. QED
    BY <1>1, <2>1, <2>2 DEF Repeating
<1>4. Balance'
  <2>1. /\ repeats + Cardinality(Abandoned) + Repeating("chat") + Repeating(Other("chat")) + Met <= together + faults
        /\ repeats \in Nat /\ Cardinality(Abandoned) \in Nat /\ Repeating(Other("chat")) \in Nat /\ Met \in Nat
        /\ together \in Nat /\ faults \in Nat /\ Repeating("chat") \in Nat
    BY <1>2, BalanceFrom DEF NInv
  <2>2. repeats + 0 + 0 + 0 + 0 <= together + faults
    BY <2>1
  <2>3. Cardinality(Abandoned') = 0 /\ Met' = 0
    BY <1>3, FS_EmptySet DEF Met
  <2>. QED
    BY <1>1, <1>2, <1>3, <2>2, <2>3, BalanceThen
<1>5. LogInv'
  BY <1>1 DEF NInv, LogInv, Passing
<1>6. SuppressedWasTold'
  BY <1>1 DEF SuppressedWasTold
<1>. QED
  BY <1>4, <1>5, <1>6 DEF NInv

-----------------------------------------------------------------------------
LEMMA TypesStay ==
  ASSUME NudgeTypes, LogInv, [Next]_vars
  PROVE  NudgeTypes'
<1>0. /\ NoCall \in AnyCall /\ LateAlert \in AnyCall /\ Nudge \subseteq AnyCall /\ Plain \subseteq AnyCall
      /\ [tool : {"read"}, handle : 1 .. Len(sizes)] \subseteq AnyCall
      /\ \A c \in AnyCall : IsNudge(c) => c \in Nudge
      /\ "chat" \in Process /\ "heartbeat" \in Process
  BY NudgeFacts DEF AnyCall, Process
<1> DEFINE PcTypes    == pc \in [Process -> Place]
           CallTypes  == call \in [Process -> AnyCall]
           LogTypes   == log \subseteq Nudge /\ suppressed \subseteq Nudge
                         /\ executed \subseteq Nudge /\ IsFiniteSet(executed)
           CountTypes == repeats \in Nat /\ together \in Nat /\ faults \in Nat
<1>1. PcTypes /\ CallTypes /\ LogTypes /\ CountTypes
  BY DEF NudgeTypes
<1>2. SUFFICES PcTypes' /\ CallTypes' /\ LogTypes' /\ CountTypes'
  BY DEF NudgeTypes
<1>3. repeats + 1 \in Nat /\ together + 1 \in Nat /\ faults + 1 \in Nat
  BY <1>1
<1> DEFINE Same == UNCHANGED <<log, suppressed, executed>>
<1>4. ASSUME Same PROVE LogTypes'
  <2>1. log' = log /\ suppressed' = suppressed /\ executed' = executed
    BY <1>4
  <2>. QED
    BY <1>1, <2>1
<1>5. UNCHANGED call => CallTypes'
  BY <1>1
<1>6. repeats' \in {repeats, repeats + 1} /\ together' \in {together, together + 1} /\ faults' \in {faults, faults + 1}
        => CountTypes'
  BY <1>1, <1>3
<1>7. ASSUME NEW p \in Process, Both(p) PROVE PcTypes' /\ CallTypes' /\ LogTypes' /\ CountTypes'
  <2> HIDE DEF LogTypes, CountTypes
  <2> USE DEF Goes, Set, calls, notes, run, handles, told, shared, Fault, NoFault, Place
  <2>1. CASE ReadTrust(p)
    BY <1>1, <1>4, <1>5, <1>6, <2>1 DEF ReadTrust
  <2>2. CASE WriteTrust(p)
    <3>1. PcTypes' /\ CallTypes'
      BY <1>0, <1>1, <2>2 DEF WriteTrust, Recorded
    <3>. QED
      BY <1>4, <1>6, <2>2, <3>1 DEF WriteTrust
  <2>3. CASE TrustFails(p)
    <3>1. PcTypes'
      BY <1>1, <2>3 DEF TrustFails
    <3>. QED
      BY <1>4, <1>5, <1>6, <2>3, <3>1 DEF TrustFails
  <2>4. CASE Refuse(p)
    <3>1. PcTypes'
      BY <1>1, <2>4 DEF Refuse
    <3>2. LogTypes'
      <4>1. Duplicate(call[p]) => call[p] \in Nudge
        BY <1>0, <1>1 DEF Duplicate
      <4>. QED
        BY <1>1, <2>4, <4>1 DEF Refuse, LogTypes
    <3>3. repeats' = repeats /\ together' = together /\ (faults' = faults \/ faults' = faults + 1) /\ call' = call
      BY <2>4 DEF Refuse
    <3>. QED
      BY <1>5, <1>6, <3>1, <3>2, <3>3
  <2>5. CASE Allow(p)
    <3>1. PcTypes'
      BY <1>1, <2>5 DEF Allow
    <3>2. repeats' = repeats /\ (together' = together \/ together' = together + 1)
          /\ (faults' = faults \/ faults' = faults + 1) /\ call' = call /\ Same
      BY <2>5 DEF Allow
    <3>. QED
      BY <1>4, <1>5, <1>6, <3>1, <3>2
  <2>6. CASE Execute(p)
    <3>1. PcTypes'
      BY <1>1, <2>6 DEF Execute
    <3>2. LogTypes'
      <4>1. IsNudge(call[p]) => call[p] \in Nudge
        BY <1>0, <1>1
      <4>2. IsFiniteSet(executed \cup {call[p]})
        BY <1>1, FS_AddElement DEF LogTypes
      <4>3. executed' = executed \/ (IsNudge(call[p]) /\ executed' = executed \cup {call[p]})
        BY <2>6 DEF Execute
      <4>4. log' = log /\ suppressed' = suppressed
        BY <2>6 DEF Execute
      <4>. QED
        BY <1>1, <4>1, <4>2, <4>3, <4>4 DEF LogTypes
    <3>3. (repeats' = repeats \/ repeats' = repeats + 1) /\ together' = together /\ faults' = faults /\ call' = call
      BY <2>6 DEF Execute
    <3>. QED
      BY <1>5, <1>6, <3>1, <3>2, <3>3
  <2>7. CASE Audit(p)
    <3>1. PcTypes'
      BY <1>1, <2>7 DEF Audit
    <3>2. LogTypes'
      <4>1. call[p] \in Nudge
        BY <1>0, <1>1, <2>7 DEF Audit, LogInv
      <4>2. log' = log \/ log' = log \cup {call[p]}
        BY <2>7 DEF Audit, Audited
      <4>3. suppressed' = suppressed /\ executed' = executed
        BY <2>7 DEF Audit
      <4>. QED
        BY <1>1, <4>1, <4>2, <4>3 DEF LogTypes
    <3>3. repeats' = repeats /\ together' = together /\ (faults' = faults \/ faults' = faults + 1) /\ call' = call
      BY <2>7 DEF Audit
    <3>. QED
      BY <1>5, <1>6, <3>1, <3>2, <3>3
  <2>. QED
    BY <1>7, <2>1, <2>2, <2>3, <2>4, <2>5, <2>6, <2>7 DEF Both
<1>8. ASSUME NEW p \in Process, Crash(p) PROVE PcTypes' /\ CallTypes' /\ LogTypes' /\ CountTypes'
  BY <1>0, <1>1, <1>3, <1>8 DEF Place, Crash, Goes, Set, Fault, shared, told
<1>9. CASE Window
  <2>1. IsFiniteSet({})
    BY FS_EmptySet
  <2>. QED
    BY <1>1, <1>9, <2>1 DEF Window, calls
<1> USE DEF Goes, Set, calls, notes, run, handles, told, shared, Place
<1>10. CASE StartRun
  BY <1>1, <1>10 DEF StartRun, Begins
<1>11. CASE StartDirect
  BY <1>0, <1>1, <1>11 DEF StartDirect, Begins
<1>12. CASE StartAlerts
  BY <1>0, <1>1, <1>12 DEF StartAlerts, Begins
<1>13. CASE StartRole
  BY <1>0, <1>1, <1>13 DEF StartRole, Begins
<1>14. CASE StartEnrichment
  BY <1>0, <1>1, <1>14 DEF StartEnrichment, Begins
<1>15. CASE Think
  BY <1>1, <1>15 DEF Think, Records
<1>16. CASE Exhausted
  BY <1>1, <1>16 DEF Exhausted
<1>17. CASE Finish
  BY <1>1, <1>17 DEF Finish, Ends
<1>18. CASE Act
  BY <1>0, <1>1, <1>18 DEF Act
<1>19. CASE Repeat
  BY <1>1, <1>19 DEF Repeat, Ends
<1>20. CASE Dangling
  BY <1>0, <1>1, <1>20 DEF Dangling, Records
<1>21. CASE Observe
  BY <1>0, <1>1, <1>21 DEF Observe, Ends
<1>22. CASE ObserveDirect
  BY <1>0, <1>1, <1>22 DEF ObserveDirect
<1>23. CASE ObserveHeartbeat
  BY <1>0, <1>1, <1>23 DEF ObserveHeartbeat
<1>24. CASE UNCHANGED vars
  BY <1>1, <1>24 DEF vars
<1>. QED
  BY <1>0, <1>7, <1>8, <1>9, <1>10, <1>11, <1>12, <1>13, <1>14, <1>15, <1>16, <1>17, <1>18, <1>19,
     <1>20, <1>21, <1>22, <1>23, <1>24 DEF Next, ChatStep, Both

-----------------------------------------------------------------------------
\* All other steps take place off the way from gate to audit.
LEMMA OffTheWay ==
  ASSUME NInv, NudgeTypes', Next,
         \A p \in Process : ~Allow(p) /\ ~Execute(p) /\ ~Audit(p) /\ ~Crash(p), ~Window
  PROVE  NInv'
<1>1. "chat" \in Process /\ "heartbeat" \in Process /\ Other("chat") = "heartbeat" /\ Other("heartbeat") = "chat"
  BY TwoProcesses DEF Process
<1> DEFINE Kept == UNCHANGED <<log, executed, repeats, together>>
           Aside(p) ==
             /\ pc[p] \notin Way /\ pc'[p] \notin Way
             /\ pc'[Other(p)] = pc[Other(p)] /\ call'[Other(p)] = call[Other(p)]
             /\ Kept /\ faults' >= faults /\ SuppressedWasTold'
<1>2. SUFFICES \E p \in Process : Aside(p)
  BY AsideStep
<1>3. NudgeTypes /\ LogInv /\ SuppressedWasTold
  BY DEF NInv
<1>4. (faults' = faults \/ faults' = faults + 1) => faults' >= faults
  <2>1. faults \in Nat
    BY <1>3 DEF NudgeTypes
  <2>. QED
    BY <2>1
<1>5. UNCHANGED <<executed, suppressed>> => SuppressedWasTold'
  BY <1>3 DEF SuppressedWasTold
<1> HIDE DEF Aside
<1>6. ASSUME NEW p \in Process, Both(p) PROVE Aside(p)
  <2>0. Other(p) \in Process /\ Other(p) # p /\ pc \in [Process -> Place] /\ call \in [Process -> AnyCall]
    BY <1>3, TwoProcesses DEF NudgeTypes
  <2> USE DEF Goes, Set, calls, notes, run, handles, told, shared, Fault, NoFault, Place
  <2>1. CASE ReadTrust(p)
    BY <1>4, <1>5, <2>0, <2>1 DEF ReadTrust, Aside, Way
  <2>2. CASE WriteTrust(p)
    <3>1. pc[p] \notin Way /\ pc'[p] \notin Way /\ pc'[Other(p)] = pc[Other(p)]
      BY <2>0, <2>2 DEF WriteTrust, Recorded, Way
    <3>2. call'[Other(p)] = call[Other(p)]
      BY <2>0, <2>2 DEF WriteTrust
    <3>3. Kept /\ faults' = faults /\ UNCHANGED suppressed
      BY <2>2 DEF WriteTrust
    <3>. QED
      BY <1>4, <1>5, <3>1, <3>2, <3>3 DEF Aside
  <2>3. CASE TrustFails(p)
    <3>1. pc[p] \notin Way /\ pc'[p] \notin Way /\ pc'[Other(p)] = pc[Other(p)]
      BY <2>0, <2>3 DEF TrustFails, Way
    <3>2. Kept /\ faults' = faults + 1 /\ UNCHANGED <<call, suppressed>>
      BY <2>3 DEF TrustFails
    <3>. QED
      BY <1>4, <1>5, <3>1, <3>2 DEF Aside
  <2>4. CASE Refuse(p)
    <3>1. pc[p] \notin Way /\ pc'[p] \notin Way /\ pc'[Other(p)] = pc[Other(p)]
      BY <2>0, <2>4 DEF Refuse, Way
    <3>2. Kept /\ (faults' = faults \/ faults' = faults + 1) /\ UNCHANGED call
      BY <2>4 DEF Refuse
    <3>3. SuppressedWasTold'
      <4>1. Duplicate(call[p]) => \E m \in executed : Covers(m, call[p])
        BY <1>3 DEF Duplicate, LogInv
      <4>2. suppressed' = suppressed \/ (Duplicate(call[p]) /\ suppressed' = suppressed \cup {call[p]})
        BY <2>4 DEF Refuse
      <4>3. executed' = executed
        BY <3>2
      <4>. QED
        BY <1>3, <4>1, <4>2, <4>3 DEF SuppressedWasTold
    <3>. QED
      BY <1>4, <3>1, <3>2, <3>3 DEF Aside
  <2>. QED
    BY <1>6, <2>1, <2>2, <2>3, <2>4 DEF Both
<1>7. ASSUME pc["chat"] \notin Way, pc'["chat"] \notin Way, pc'["heartbeat"] = pc["heartbeat"],
             call'["heartbeat"] = call["heartbeat"], UNCHANGED <<shared, told, faults>>
      PROVE  Aside("chat")
  BY <1>1, <1>4, <1>5, <1>7 DEF Aside, shared, told
<1>8. ASSUME pc["heartbeat"] \notin Way, pc'["heartbeat"] \notin Way, pc'["chat"] = pc["chat"],
             call'["chat"] = call["chat"], UNCHANGED <<shared, told, faults>>
      PROVE  Aside("heartbeat")
  BY <1>1, <1>4, <1>5, <1>8 DEF Aside, shared, told
<1>9. pc \in [Process -> Place] /\ call \in [Process -> AnyCall]
  BY <1>3 DEF NudgeTypes
<1> USE DEF Goes, Set, calls, notes, run, handles, Way
<1>10. CASE StartRun
  BY <1>1, <1>7, <1>9, <1>10 DEF StartRun, Begins
<1>11. CASE StartDirect
  BY <1>1, <1>7, <1>9, <1>11 DEF StartDirect, Begins
<1>12. CASE StartAlerts
  BY <1>1, <1>8, <1>9, <1>12 DEF StartAlerts, Begins
<1>13. CASE StartRole
  BY <1>1, <1>8, <1>9, <1>13 DEF StartRole, Begins
<1>14. CASE StartEnrichment
  BY <1>1, <1>8, <1>9, <1>14 DEF StartEnrichment, Begins
<1>15. CASE Think
  BY <1>1, <1>7, <1>9, <1>15 DEF Think, Records
<1>16. CASE Exhausted
  BY <1>1, <1>7, <1>9, <1>16 DEF Exhausted
<1>17. CASE Finish
  BY <1>1, <1>7, <1>9, <1>17 DEF Finish, Ends
<1>18. CASE Act
  BY <1>1, <1>7, <1>9, <1>18 DEF Act
<1>19. CASE Repeat
  BY <1>1, <1>7, <1>9, <1>19 DEF Repeat, Ends
<1>20. CASE Dangling
  BY <1>1, <1>7, <1>9, <1>20 DEF Dangling, Records
<1>21. CASE Observe
  BY <1>1, <1>7, <1>9, <1>21 DEF Observe, Ends
<1>22. CASE ObserveDirect
  BY <1>1, <1>7, <1>9, <1>22 DEF ObserveDirect
<1>23. CASE ObserveHeartbeat
  BY <1>1, <1>8, <1>9, <1>23 DEF ObserveHeartbeat
<1>. QED
  BY <1>1, <1>6, <1>10, <1>11, <1>12, <1>13, <1>14, <1>15, <1>16, <1>17, <1>18, <1>19,
     <1>20, <1>21, <1>22, <1>23 DEF Next, ChatStep, Both

LEMMA NothingHappens ==
  ASSUME NInv, UNCHANGED vars
  PROVE  NInv'
<1>1. UNCHANGED <<pc, call, log, suppressed, executed, repeats, together, faults>>
  BY DEF vars, calls, shared, told
<1>2. NudgeTypes' /\ LogInv' /\ SuppressedWasTold'
  BY <1>1 DEF NInv, NudgeTypes, LogInv, SuppressedWasTold
<1>3. Due' = Due
  <2>1. Abandoned' = Abandoned
    BY <1>1 DEF Abandoned, Covered, Pending
  <2>2. \A p : Repeating(p)' = Repeating(p)
    BY <1>1 DEF Repeating
  <2>3. Met' = Met
    BY <1>1 DEF Met, Racing
  <2>. QED
    BY <2>1, <2>2, <2>3 DEF Due
<1>. QED
  BY <1>1, <1>2, <1>3 DEF NInv, Balance

LEMMA NudgesStart == Init => NInv
<1> SUFFICES ASSUME Init PROVE NInv
  OBVIOUS
<1>1. NudgeTypes
  BY FS_EmptySet DEF Init, NudgeTypes, AnyCall, Place
<1>2. LogInv /\ SuppressedWasTold
  BY DEF Init, LogInv, SuppressedWasTold
<1>3. Balance
  <2>1. "chat" \in Process
    BY DEF Process
  <2>2. Abandoned = {}
    BY DEF Init, Abandoned
  <2>3. Repeating("chat") = 0 /\ Repeating(Other("chat")) = 0 /\ Met = 0
    BY <2>1 DEF Init, Repeating, Met, Racing
  <2>4. Cardinality(Abandoned) = 0
    BY <2>2, FS_EmptySet
  <2>5. repeats = 0 /\ together = 0 /\ faults = 0
    BY DEF Init
  <2>. QED
    BY <1>1, <2>1, <2>3, <2>4, <2>5, BalanceFrom
<1>. QED
  BY <1>1, <1>2, <1>3 DEF NInv

LEMMA NudgesStay ==
  ASSUME NInv, [Next]_vars
  PROVE  NInv'
<1>1. NudgeTypes'
  BY TypesStay DEF NInv
<1>. QED
  BY <1>1, AllowStep, ExecuteStep, AuditStep, CrashStep, WindowStep, OffTheWay, NothingHappens

\* Whatever the refs, the lengths of runs, the alerts, windows and faults: a nudge is sent
\* twice in a window only if two were on their way at once or something failed, and none is
\* suppressed that tells what no other told (command_layer.py:288).
THEOREM NudgesToldOnceAlways == Spec => []NudgesToldOnce
<1>1. NInv => NudgesToldOnce
  <2> SUFFICES ASSUME NInv PROVE NudgesToldOnce
    OBVIOUS
  <2>1. "chat" \in Process
    BY DEF Process
  <2>2. /\ repeats + Cardinality(Abandoned) + Repeating("chat") + Repeating(Other("chat")) + Met <= together + faults
        /\ repeats \in Nat /\ Cardinality(Abandoned) \in Nat /\ Repeating(Other("chat")) \in Nat /\ Met \in Nat
        /\ together \in Nat /\ faults \in Nat /\ Repeating("chat") \in Nat
    BY <2>1, BalanceFrom DEF NInv
  <2>3. repeats <= together + faults
    BY <2>2
  <2>. QED
    BY <2>3 DEF NInv, NudgesToldOnce, NudgedOncePerWindow
<1>. QED
  BY <1>1, NudgesStart, NudgesStay, PTL DEF Spec

-----------------------------------------------------------------------------
(* Powers of two, which count subsets.                                     *)

LEMMA PowerCounts ==
  ASSUME NEW n \in Nat
  PROVE  /\ IsFiniteSet(1 .. n) /\ IsFiniteSet(SUBSET (1 .. n))
         /\ Cardinality(SUBSET (1 .. n)) = 2 ^ n /\ 2 ^ n \in Nat
<1>1. IsFiniteSet(1 .. n) /\ Cardinality(1 .. n) = n
  BY FS_Interval
<1>. QED
  BY <1>1, FS_SUBSET, FS_CardinalityType

LEMMA PowerUp ==
  ASSUME NEW m \in Nat, NEW n \in Nat, m <= n
  PROVE  2 ^ m <= 2 ^ n
<1>1. SUBSET (1 .. m) \in SUBSET (SUBSET (1 .. n))
  OBVIOUS
<1>2. Cardinality(SUBSET (1 .. m)) <= Cardinality(SUBSET (1 .. n))
  BY <1>1, PowerCounts, FS_Subset
<1>. QED
  BY <1>2, PowerCounts

\* Of the subsets of 1 .. n + 1, half contain n + 1.
LEMMA PowerNext ==
  ASSUME NEW n \in Nat
  PROVE  2 ^ (n + 1) = 2 * 2 ^ n
<1>. DEFINE A == SUBSET (1 .. n)
            B == {t \in SUBSET (1 .. n + 1) : n + 1 \in t}
            f == [s \in A |-> s \cup {n + 1}]
<1>a. \A i : i \in 1 .. n + 1 <=> i \in 1 .. n \/ i = n + 1
  OBVIOUS
<1>b. n + 1 \notin 1 .. n
  OBVIOUS
<1>1. f \in Bijection(A, B)
  <2>1. f \in [A -> B]
    <3>1. ASSUME NEW s \in A PROVE s \cup {n + 1} \in B
      BY <1>a
    <3>. QED
      BY <3>1
  <2>2. ASSUME NEW s \in A, NEW t \in A, f[s] = f[t] PROVE s = t
    <3>1. s \cup {n + 1} = t \cup {n + 1}
      BY <2>2
    <3>2. n + 1 \notin s /\ n + 1 \notin t
      BY <1>b
    <3>. QED
      BY <3>1, <3>2
  <2>3. ASSUME NEW t \in B PROVE \E s \in A : f[s] = t
    <3>1. t \ {n + 1} \in A
      BY <1>a
    <3>2. (t \ {n + 1}) \cup {n + 1} = t
      OBVIOUS
    <3>3. f[t \ {n + 1}] = t
      BY <3>1, <3>2
    <3>. QED
      BY <3>1, <3>3
  <2>. HIDE DEF A, B, f
  <2>4. f \in Injection(A, B)
    BY <2>1, <2>2 DEF Injection, IsInjective
  <2>5. f \in Surjection(A, B)
    BY <2>1, <2>3 DEF Surjection
  <2>. QED
    BY <2>4, <2>5 DEF Bijection
<1>2. IsFiniteSet(A) /\ Cardinality(A) = 2 ^ n /\ 2 ^ n \in Nat
  BY PowerCounts
<1>3. IsFiniteSet(SUBSET (1 .. n + 1)) /\ Cardinality(SUBSET (1 .. n + 1)) = 2 ^ (n + 1)
  <2>1. n + 1 \in Nat
    OBVIOUS
  <2>. QED
    BY <2>1, PowerCounts
<1>4. SUBSET (1 .. n + 1) = A \cup B /\ A \cap B = {}
  <2>1. ASSUME NEW t \in SUBSET (1 .. n + 1) PROVE t \in A \cup B
    BY <1>a
  <2>2. ASSUME NEW t \in A PROVE t \in SUBSET (1 .. n + 1) /\ t \notin B
    BY <1>a, <1>b
  <2>3. B \subseteq SUBSET (1 .. n + 1)
    OBVIOUS
  <2>. HIDE DEF A, B
  <2>. QED
    BY <2>1, <2>2, <2>3
<1>. HIDE DEF A, B, f
<1>5. ExistsBijection(A, B)
  BY <1>1 DEF ExistsBijection
<1>6. IsFiniteSet(B) /\ Cardinality(B) = Cardinality(A)
  BY <1>2, <1>5, FS_Bijection
<1>7. Cardinality(A \cup B) = Cardinality(A) + Cardinality(B) - Cardinality(A \cap B)
  BY <1>2, <1>6, FS_Union
<1>8. Cardinality(A \cap B) = 0
  BY <1>4, FS_EmptySet
<1>. DEFINE p == 2 ^ n
            q == 2 ^ (n + 1)
<1>9. /\ Cardinality(A) = p /\ p \in Nat
      /\ Cardinality(A \cup B) = q
  <2>1. Cardinality(A) = p /\ p \in Nat
    BY <1>2
  <2>2. Cardinality(A \cup B) = q
    BY <1>3, <1>4
  <2>. QED
    BY <2>1, <2>2
<1>. HIDE DEF p, q
<1>10. q = 2 * p
  BY <1>6, <1>7, <1>8, <1>9
<1>. QED
  BY <1>10 DEF p, q

-----------------------------------------------------------------------------
(* What a set of payloads weighs.  The sum is defined by recursion over    *)
(* its subsets, one chosen element at a time; a subset for which a claim   *)
(* of this section failed would have a smaller one.                        *)

LEMMA Lowest ==
  ASSUME NEW T \in SUBSET Nat, T # {} PROVE \E m \in T : \A x \in T : m <= x
<1>. DEFINE R == {ss \in Nat \X Nat : ss[1] < ss[2]}
<1>1. IsWellFoundedOn(R, Nat)
  BY NatLessThanWellFounded DEF OpToRel
<1>2. ASSUME NEW x \in Nat, NEW m \in Nat, x < m PROVE <<x, m>> \in R
  <2>1. <<x, m>> \in Nat \X Nat /\ <<x, m>>[1] = x /\ <<x, m>>[2] = m
    OBVIOUS
  <2>. QED
    BY <1>2, <2>1
<1>. HIDE DEF R
<1>3. PICK m \in T : \A x \in T : ~ (<<x, m>> \in R)
  BY <1>1, WFMin
<1>4. ASSUME NEW x \in T PROVE m <= x
  <2>1. ~ (x < m)
    BY <1>2, <1>3
  <2>. QED
    BY <2>1
<1>. QED
  BY <1>4

LEMMA Smallest ==
  ASSUME NEW S, IsFiniteSet(S), NEW T \in SUBSET (SUBSET S), T # {}
  PROVE  \E s \in T : \A t \in T : Cardinality(s) <= Cardinality(t)
<1>. DEFINE N == {Cardinality(s) : s \in T}
<1>1. \A s \in SUBSET S : Cardinality(s) \in Nat
  BY FS_Subset, FS_CardinalityType
<1>2. N \in SUBSET Nat /\ N # {}
  BY <1>1
<1>3. PICK m \in N : \A x \in N : m <= x
  BY <1>2, Lowest
<1>. QED
  BY <1>3

One(s)       == CHOOSE i \in s : TRUE
Adds(z, g, s) == g[s] = IF s = {} THEN 0 ELSE z[One(s)] + g[s \ {One(s)}]
Sums(z, S, g) == g = [s \in SUBSET S |-> IF s = {} THEN 0 ELSE z[One(s)] + g[s \ {One(s)}]]

LEMMA BytesChosen ==
  ASSUME NEW z, NEW S PROVE Bytes(z, S) = (CHOOSE g : Sums(z, S, g))[S]
  BY DEF Bytes, FoldSet, MapThenFoldSet, One, Sums

LEMMA OneIsIn == ASSUME NEW s, s # {} PROVE One(s) \in s
  BY DEF One

LEMMA Smaller ==
  ASSUME NEW S, IsFiniteSet(S), NEW s \in SUBSET S, NEW x \in s
  PROVE  /\ s \ {x} \in SUBSET S /\ Cardinality(s \ {x}) \in Nat
         /\ Cardinality(s) = Cardinality(s \ {x}) + 1
<1>1. IsFiniteSet(s) /\ Cardinality(s) \in Nat
  BY FS_Subset, FS_CardinalityType
<1>2. IsFiniteSet(s \ {x}) /\ Cardinality(s \ {x}) = Cardinality(s) - 1
  BY <1>1, FS_RemoveElement
<1>3. Cardinality(s \ {x}) \in Nat
  BY <1>2, FS_CardinalityType
<1>. QED
  BY <1>1, <1>2, <1>3

\* Up to any size, and so for all subsets, the sums exist.
LEMMA SumsExist ==
  ASSUME NEW S, IsFiniteSet(S), NEW z, \A i \in S : z[i] \in Int
  PROVE  \E g : Sums(z, S, g)
<1>. DEFINE Upto(k) == {s \in SUBSET S : Cardinality(s) <= k}
            Exist(k) == \E g \in [Upto(k) -> Int] : \A s \in Upto(k) : Adds(z, g, s)
<1>0. \A s \in SUBSET S : Cardinality(s) \in Nat
  BY FS_Subset, FS_CardinalityType
<1>1. Exist(0)
  <2>. DEFINE g == [s \in Upto(0) |-> 0]
  <2>1. \A s \in Upto(0) : s = {}
    <3>1. ASSUME NEW s \in Upto(0) PROVE s = {}
      BY <1>0, FS_Subset, FS_EmptySet
    <3>. QED
      BY <3>1
  <2>2. g \in [Upto(0) -> Int] /\ \A s \in Upto(0) : Adds(z, g, s)
    BY <2>1 DEF Adds
  <2>. QED
    BY <2>2
<1>2. ASSUME NEW k \in Nat, Exist(k) PROVE Exist(k + 1)
  <2>1. PICK g \in [Upto(k) -> Int] : \A s \in Upto(k) : Adds(z, g, s)
    BY <1>2
  <2>. DEFINE h == [s \in Upto(k + 1) |-> IF s \in Upto(k) THEN g[s] ELSE z[One(s)] + g[s \ {One(s)}]]
  <2>2. ASSUME NEW s \in Upto(k + 1), s # {}
        PROVE  One(s) \in S /\ s \ {One(s)} \in Upto(k) /\ s \ {One(s)} \in Upto(k + 1)
    BY <1>0, <2>2, OneIsIn, Smaller
  <2>3. {} \in Upto(k)
    BY FS_EmptySet
  <2>4. h \in [Upto(k + 1) -> Int]
    <3>1. ASSUME NEW s \in Upto(k + 1), s \notin Upto(k) PROVE z[One(s)] + g[s \ {One(s)}] \in Int
      <4>1. s # {}
        BY <2>3, <3>1
      <4>2. z[One(s)] \in Int /\ g[s \ {One(s)}] \in Int
        BY <2>1, <2>2, <4>1
      <4>. QED
        BY <4>2
    <3>2. \A s \in Upto(k) : g[s] \in Int
      BY <2>1
    <3>. HIDE DEF Upto
    <3>. QED
      BY <3>1, <3>2
  <2>5. ASSUME NEW s \in Upto(k + 1) PROVE Adds(z, h, s)
    <3>1. CASE s = {}
      BY <2>1, <2>3, <3>1 DEF Adds
    <3>2. CASE s # {} /\ s \in Upto(k)
      BY <2>1, <2>2, <3>2 DEF Adds
    <3>3. CASE s # {} /\ s \notin Upto(k)
      BY <2>2, <3>3 DEF Adds
    <3>. QED
      BY <3>1, <3>2, <3>3
  <2>. HIDE DEF h, Upto
  <2>. QED
    BY <2>4, <2>5
<1>3. \A k \in Nat : Exist(k)
  <2>. DEFINE T == {k \in Nat : ~Exist(k)}
  <2>. HIDE DEF Exist
  <2>. SUFFICES ASSUME T # {} PROVE FALSE
    OBVIOUS
  <2>1. PICK m \in T : \A x \in T : m <= x
    BY Lowest
  <2>2. m # 0
    BY <1>1
  <2>3. m - 1 \in Nat /\ m - 1 \notin T
    BY <2>1, <2>2
  <2>4. Exist((m - 1) + 1)
    BY <1>2, <2>3
  <2>. QED
    BY <2>4
<1>4. Cardinality(S) \in Nat /\ \A s \in SUBSET S : Cardinality(s) <= Cardinality(S)
  BY FS_CardinalityType, FS_Subset
<1>5. Upto(Cardinality(S)) = SUBSET S
  BY <1>4
<1>6. PICK g \in [SUBSET S -> Int] : \A s \in SUBSET S : Adds(z, g, s)
  BY <1>3, <1>4, <1>5
<1>7. Sums(z, S, g)
  BY <1>6 DEF Sums, Adds
<1>. QED
  BY <1>7

LEMMA SumsAdd ==
  ASSUME NEW S, NEW z, NEW g, Sums(z, S, g), NEW s \in SUBSET S
  PROVE  Adds(z, g, s)
<1>. DEFINE e(u) == IF u = {} THEN 0 ELSE z[One(u)] + g[u \ {One(u)}]
<1>1. g = [u \in SUBSET S |-> e(u)]
  BY DEF Sums
<1>. HIDE DEF e
<1>2. g[s] = e(s)
  BY <1>1
<1>. QED
  BY <1>2 DEF e, Adds

LEMMA SumsAreIntegers ==
  ASSUME NEW S, IsFiniteSet(S), NEW z, \A i \in S : z[i] \in Int, NEW g, Sums(z, S, g)
  PROVE  \A s \in SUBSET S : g[s] \in Int
<1>. DEFINE T == {s \in SUBSET S : g[s] \notin Int}
<1>. SUFFICES ASSUME T # {} PROVE FALSE
  OBVIOUS
<1>1. PICK s \in T : \A t \in T : Cardinality(s) <= Cardinality(t)
  BY Smallest
<1>2. Adds(z, g, s)
  BY SumsAdd
<1>3. s # {}
  BY <1>2 DEF Adds
<1>. DEFINE x == One(s)
<1>4. x \in s /\ x \in S
  BY <1>3, OneIsIn
<1>5. s \ {x} \in SUBSET S /\ Cardinality(s \ {x}) \in Nat /\ Cardinality(s) = Cardinality(s \ {x}) + 1
  BY <1>4, Smaller
<1>6. g[s \ {x}] \in Int
  <2>1. s \ {x} \notin T
    <3>1. s \ {x} \in T => Cardinality(s) <= Cardinality(s \ {x})
      BY <1>1
    <3>2. ~ (Cardinality(s) <= Cardinality(s \ {x}))
      BY <1>5
    <3>. QED
      BY <3>1, <3>2
  <2>. QED
    BY <1>5, <2>1
<1>7. g[s] = z[x] + g[s \ {x}]
  BY <1>2, <1>3 DEF Adds
<1>. QED
  BY <1>4, <1>6, <1>7

\* It does not matter which element is taken first.
LEMMA SumsCommute ==
  ASSUME NEW S, IsFiniteSet(S), NEW z, \A i \in S : z[i] \in Int, NEW g, Sums(z, S, g)
  PROVE  \A s \in SUBSET S : \A x \in s : g[s] = z[x] + g[s \ {x}]
<1>. DEFINE T == {s \in SUBSET S : \E x \in s : g[s] # z[x] + g[s \ {x}]}
<1>. SUFFICES ASSUME T # {} PROVE FALSE
  OBVIOUS
<1>1. PICK s \in T : \A t \in T : Cardinality(s) <= Cardinality(t)
  BY Smallest
<1>2. PICK x \in s : g[s] # z[x] + g[s \ {x}]
  OBVIOUS
<1>. DEFINE y == One(s)
            r == (s \ {x}) \ {y}
<1>3. y \in s /\ g[s] = z[y] + g[s \ {y}]
  <2>1. s \in SUBSET S /\ s # {}
    OBVIOUS
  <2>2. Adds(z, g, s)
    BY <2>1, SumsAdd
  <2>. QED
    BY <2>1, <2>2, OneIsIn DEF Adds
<1>4. x # y
  BY <1>2, <1>3
<1>5. /\ s \ {x} \in SUBSET S /\ Cardinality(s \ {x}) < Cardinality(s)
      /\ s \ {y} \in SUBSET S /\ Cardinality(s \ {y}) < Cardinality(s)
  <2>1. \A u \in s : s \ {u} \in SUBSET S /\ Cardinality(s \ {u}) < Cardinality(s)
    <3>1. ASSUME NEW u \in s PROVE s \ {u} \in SUBSET S /\ Cardinality(s \ {u}) < Cardinality(s)
      <4>1. s \ {u} \in SUBSET S /\ Cardinality(s \ {u}) \in Nat /\ Cardinality(s) = Cardinality(s \ {u}) + 1
        BY Smaller
      <4>. QED
        BY <4>1
    <3>. QED
      BY <3>1
  <2>. QED
    BY <1>3, <2>1
<1>6. s \ {x} \notin T /\ s \ {y} \notin T
  <2>1. \A t \in SUBSET S : Cardinality(t) \in Nat
    BY FS_Subset, FS_CardinalityType
  <2>2. s \in SUBSET S
    OBVIOUS
  <2>. HIDE DEF T, y
  <2>. QED
    BY <1>1, <1>5, <2>1, <2>2
<1>7. g[s \ {x}] = z[y] + g[r]
  BY <1>3, <1>4, <1>5, <1>6
<1>8. g[s \ {y}] = z[x] + g[r]
  <2>1. r = (s \ {y}) \ {x}
    OBVIOUS
  <2>. QED
    BY <1>4, <1>5, <1>6, <2>1
<1>9. z[x] \in Int /\ z[y] \in Int /\ g[r] \in Int
  <2>1. r \in SUBSET S
    OBVIOUS
  <2>. QED
    BY <1>3, <2>1, SumsAreIntegers
<1>. QED
  BY <1>2, <1>3, <1>7, <1>8, <1>9

\* A sum depends only on what is added.
LEMMA SumsAgree ==
  ASSUME NEW T, IsFiniteSet(T), NEW S \in SUBSET T, NEW z, NEW w, \A i \in S : z[i] = w[i],
         NEW g, Sums(z, S, g), NEW h, Sums(w, T, h)
  PROVE  \A s \in SUBSET S : g[s] = h[s]
<1>. DEFINE D == {s \in SUBSET S : g[s] # h[s]}
<1>. SUFFICES ASSUME D # {} PROVE FALSE
  OBVIOUS
<1>1. IsFiniteSet(S)
  BY FS_Subset
<1>2. PICK s \in D : \A t \in D : Cardinality(s) <= Cardinality(t)
  BY <1>1, Smallest
<1>3. Adds(z, g, s) /\ Adds(w, h, s)
  BY SumsAdd
<1>4. s # {}
  BY <1>3 DEF Adds
<1>. DEFINE x == One(s)
<1>5. x \in s
  BY <1>4, OneIsIn
<1>6. s \ {x} \in SUBSET S /\ Cardinality(s \ {x}) \in Nat /\ Cardinality(s) = Cardinality(s \ {x}) + 1
  BY <1>1, <1>5, Smaller
<1>7. g[s \ {x}] = h[s \ {x}]
  <2>1. s \ {x} \notin D
    <3>1. s \ {x} \in D => Cardinality(s) <= Cardinality(s \ {x})
      BY <1>2
    <3>2. ~ (Cardinality(s) <= Cardinality(s \ {x}))
      BY <1>6
    <3>. QED
      BY <3>1, <3>2
  <2>. QED
    BY <1>6, <2>1
<1>8. g[s] = z[x] + g[s \ {x}] /\ h[s] = w[x] + h[s \ {x}]
  BY <1>3, <1>4 DEF Adds
<1>. QED
  BY <1>5, <1>7, <1>8

LEMMA BytesOfNone == ASSUME NEW z PROVE Bytes(z, {}) = 0
<1>1. PICK g : Sums(z, {}, g)
  BY FS_EmptySet, SumsExist
<1>2. Sums(z, {}, CHOOSE f : Sums(z, {}, f))
  BY <1>1
<1>3. (CHOOSE f : Sums(z, {}, f))[{}] = 0
  BY <1>2, SumsAdd DEF Adds
<1>. QED
  BY <1>3, BytesChosen

\* Payload x is added to those in S.
LEMMA BytesOfMore ==
  ASSUME NEW S, IsFiniteSet(S), NEW x, x \notin S, NEW z, NEW w,
         \A i \in S \cup {x} : w[i] \in Int, \A i \in S : z[i] = w[i]
  PROVE  Bytes(z, S) \in Int /\ Bytes(w, S \cup {x}) = w[x] + Bytes(z, S)
<1>. DEFINE T == S \cup {x}
            g == CHOOSE f : Sums(z, S, f)
            h == CHOOSE f : Sums(w, T, f)
<1>1. IsFiniteSet(T)
  BY FS_AddElement
<1>2. Sums(z, S, g) /\ Sums(w, T, h)
  BY <1>1, SumsExist
<1>3. Bytes(z, S) = g[S] /\ Bytes(w, T) = h[T]
  BY BytesChosen
<1>. HIDE DEF g, h
<1>4. g[S] \in Int /\ g[S] = h[S]
  BY <1>1, <1>2, SumsAreIntegers, SumsAgree
<1>5. h[T] = w[x] + h[T \ {x}]
  BY <1>1, <1>2, SumsCommute
<1>6. T \ {x} = S
  OBVIOUS
<1>. QED
  BY <1>3, <1>4, <1>5, <1>6

-----------------------------------------------------------------------------
(* Trust.  A record somebody read is still one that its successes earned,  *)
(* however many were recorded since: so what it is replaced by is earned.  *)

LEMMA LargerOfTwo ==
  ASSUME NEW a \in Int, NEW b \in Int
  PROVE  Max({a, b}) \in {a, b} /\ Max({a, b}) >= a /\ Max({a, b}) >= b
<1>1. \E x \in {a, b} : \A y \in {a, b} : x >= y
  OBVIOUS
<1>2. Max({a, b}) \in {a, b} /\ \A y \in {a, b} : Max({a, b}) >= y
  BY <1>1 DEF Max
<1>. QED
  BY <1>2

LEMMA SmallerOfTwo ==
  ASSUME NEW a \in Int, NEW b \in Int
  PROVE  Min({a, b}) \in {a, b} /\ Min({a, b}) <= a /\ Min({a, b}) <= b
<1>1. \E x \in {a, b} : \A y \in {a, b} : x <= y
  OBVIOUS
<1>2. Min({a, b}) \in {a, b} /\ \A y \in {a, b} : Min({a, b}) <= y
  BY <1>1 DEF Min
<1>. QED
  BY <1>2

\* With n clean outputs beyond those counted in a record.
Worth(n) == InitialInterval * 2 ^ (n \div PromoteAfter)

RecordOK(r) ==
  /\ r \in Record /\ r.interval \in MinInterval .. MaxInterval
  /\ r.failures <= r.total /\ (r.clean < PromoteAfter \/ r.interval = MaxInterval)

Earned(r, n) == r.clean <= n /\ r.interval <= Worth(n - r.clean)

TrustInv ==
  /\ successes \in Nat /\ copy \in [Process -> Record]
  /\ RecordOK(trust) /\ Earned(trust, successes)
  /\ \A p \in Process : RecordOK(copy[p]) /\ Earned(copy[p], successes)

LEMMA Quotients ==
  ASSUME NEW m \in Nat, NEW n \in Nat
  PROVE  /\ n \div PromoteAfter \in Nat
         /\ m <= n => m \div PromoteAfter <= n \div PromoteAfter
         /\ m + PromoteAfter <= n => (m \div PromoteAfter) + 1 <= n \div PromoteAfter
<1>. PromoteAfter \in Nat \ {0}
  BY ReactLoopAssumption
<1>. DEFINE P == PromoteAfter
            q == m \div P
            r == n \div P
<1>1. q \in Int /\ P * q <= m /\ m < P * (q + 1)
  OBVIOUS
<1>2. r \in Int /\ P * r <= n /\ n < P * (r + 1)
  OBVIOUS
<1>3. r \in Nat
  <2>1. CASE r < 0
    <3>1. P * (r + 1) <= 0
      BY <1>2, <2>1
    <3>. QED
      BY <1>2, <3>1
  <2>. QED
    BY <1>2, <2>1
<1>. QED
  BY <1>1, <1>2, <1>3

LEMMA WorthUp ==
  ASSUME NEW m \in Nat, NEW n \in Nat, m <= n
  PROVE  Worth(m) \in Nat /\ Worth(m) <= Worth(n) /\ InitialInterval <= Worth(m)
<1>. InitialInterval \in Nat \ {0}
  BY ReactLoopAssumption
<1>. DEFINE a == 2 ^ (m \div PromoteAfter)
            b == 2 ^ (n \div PromoteAfter)
<1>1. a \in Nat /\ b \in Nat /\ a <= b
  BY Quotients, PowerUp, PowerCounts
<1>2. 1 <= a
  <2>1. 0 \in Nat /\ m \div PromoteAfter \in Nat /\ 0 <= m \div PromoteAfter
    BY Quotients
  <2>2. 2 ^ 0 <= a
    BY <2>1, PowerUp
  <2>3. 2 ^ 0 = 1
    OBVIOUS
  <2>. QED
    BY <2>2, <2>3
<1>. HIDE DEF a, b
<1>3. InitialInterval * a \in Nat /\ InitialInterval * a <= InitialInterval * b /\ InitialInterval <= InitialInterval * a
  BY <1>1, <1>2
<1>. QED
  BY <1>3 DEF a, b, Worth

LEMMA WorthTwice ==
  ASSUME NEW m \in Nat, NEW n \in Nat, m + PromoteAfter <= n
  PROVE  2 * Worth(m) <= Worth(n)
<1>. InitialInterval \in Nat \ {0} /\ PromoteAfter \in Nat \ {0}
  BY ReactLoopAssumption
<1>. DEFINE k == m \div PromoteAfter
            a == 2 ^ k
            b == 2 ^ (n \div PromoteAfter)
<1>1. k \in Nat /\ n \div PromoteAfter \in Nat /\ k + 1 <= n \div PromoteAfter
  BY Quotients
<1>2. 2 ^ (k + 1) <= b
  BY <1>1, PowerUp
<1>3. 2 * a <= b /\ a \in Nat /\ b \in Nat
  BY <1>1, <1>2, PowerNext, PowerCounts
<1>. HIDE DEF a, b
<1>4. 2 * (InitialInterval * a) <= InitialInterval * b
  BY <1>3
<1>. QED
  BY <1>4 DEF a, b, Worth

LEMMA FreshIsEarned == RecordOK(Fresh) /\ \A n \in Nat : Earned(Fresh, n)
<1>1. RecordOK(Fresh)
  BY ReactLoopAssumption DEF RecordOK, Fresh, Record
<1>2. ASSUME NEW n \in Nat PROVE Earned(Fresh, n)
  <2>1. InitialInterval <= Worth(n)
    BY WorthUp
  <2>. QED
    BY <2>1 DEF Earned, Fresh
<1>. QED
  BY <1>1, <1>2

LEMMA EarnedStays ==
  ASSUME NEW r, RecordOK(r), NEW m \in Nat, NEW n \in Nat, m <= n, Earned(r, m)
  PROVE  Earned(r, n)
<1>1. r.clean \in Nat /\ r.interval \in Nat
  BY DEF RecordOK, Record
<1>2. m - r.clean \in Nat /\ n - r.clean \in Nat /\ m - r.clean <= n - r.clean
  BY <1>1 DEF Earned
<1>3. Worth(m - r.clean) <= Worth(n - r.clean) /\ Worth(m - r.clean) \in Nat /\ Worth(n - r.clean) \in Nat
  BY <1>2, WorthUp
<1>. QED
  BY <1>1, <1>2, <1>3 DEF Earned

LEMMA CleanIsEarned ==
  ASSUME NEW r, RecordOK(r), NEW n \in Nat, Earned(r, n)
  PROVE  RecordOK(Clean(r)) /\ Earned(Clean(r), n + 1)
<1>. /\ PromoteAfter \in Nat \ {0} /\ MinInterval \in Nat \ {0} /\ MaxInterval \in Nat
     /\ MinInterval <= MaxInterval
  BY ReactLoopAssumption
<1>1. /\ r \in Record /\ r.clean \in Nat /\ r.interval \in MinInterval .. MaxInterval
      /\ r.failures \in Nat /\ r.total \in Nat /\ r.failures <= r.total
  BY DEF RecordOK, Record
<1>2. n - r.clean \in Nat /\ r.interval <= Worth(n - r.clean) /\ Worth(n - r.clean) \in Nat
  BY <1>1, WorthUp DEF Earned
<1>3. CASE r.clean + 1 >= PromoteAfter /\ r.interval < MaxInterval
  <2>. DEFINE i == Min({2 * r.interval, MaxInterval})
  <2>1. i \in {2 * r.interval, MaxInterval} /\ i <= 2 * r.interval /\ i <= MaxInterval
    <3>1. 2 * r.interval \in Int /\ MaxInterval \in Int
      BY <1>1
    <3>. QED
      BY <3>1, SmallerOfTwo
  <2>. HIDE DEF i
  <2>2. Clean(r) = [interval |-> i, clean |-> 0, total |-> r.total + 1, failures |-> r.failures]
    <3>1. Clean(r) = [r EXCEPT !.interval = i, !.clean = 0, !.total = r.total + 1]
      BY <1>1, <1>3 DEF Clean, i
    <3>. QED
      BY <1>1, <3>1 DEF Record
  <2>3. /\ Clean(r) \in Record /\ Clean(r).interval = i /\ Clean(r).clean = 0
        /\ Clean(r).total = r.total + 1 /\ Clean(r).failures = r.failures
    <3>1. i \in Nat /\ r.total + 1 \in Nat
      BY <1>1, <2>1
    <3>. QED
      BY <1>1, <2>2, <3>1 DEF Record
  <2>4. RecordOK(Clean(r))
    BY <1>1, <2>1, <2>3 DEF RecordOK
  <2>5. 2 * Worth(n - r.clean) <= Worth(n + 1) /\ Worth(n + 1) \in Nat
    BY <1>1, <1>2, <1>3, WorthTwice, WorthUp
  <2>6. i <= Worth((n + 1) - 0)
    BY <1>1, <1>2, <2>1, <2>5
  <2>. QED
    BY <2>3, <2>4, <2>6 DEF Earned
<1>4. CASE ~ (r.clean + 1 >= PromoteAfter /\ r.interval < MaxInterval)
  <2>1. Clean(r) = [r EXCEPT !.clean = r.clean + 1, !.total = r.total + 1]
    BY <1>1, <1>4 DEF Clean
  <2>2. /\ Clean(r) \in Record /\ Clean(r).interval = r.interval /\ Clean(r).clean = r.clean + 1
        /\ Clean(r).total = r.total + 1 /\ Clean(r).failures = r.failures
    <3>1. r.clean + 1 \in Nat /\ r.total + 1 \in Nat
      BY <1>1
    <3>. QED
      BY <1>1, <2>1, <3>1 DEF Record
  <2>3. RecordOK(Clean(r))
    BY <1>1, <1>4, <2>2 DEF RecordOK
  <2>4. (n + 1) - (r.clean + 1) = n - r.clean
    BY <1>1
  <2>. QED
    BY <1>1, <1>2, <2>2, <2>3, <2>4 DEF Earned
<1>. QED
  BY <1>3, <1>4

LEMMA FailedIsEarned ==
  ASSUME NEW r, RecordOK(r), NEW n \in Nat, Earned(r, n), NEW e
  PROVE  RecordOK(Failed(r, e)) /\ Earned(Failed(r, e), n)
<1>. /\ PromoteAfter \in Nat \ {0} /\ MinInterval \in Nat \ {0} /\ MaxInterval \in Nat
  BY ReactLoopAssumption
<1>1. /\ r \in Record /\ r.clean \in Nat /\ r.interval \in MinInterval .. MaxInterval
      /\ r.failures \in Nat /\ r.total \in Nat /\ r.failures <= r.total
  BY DEF RecordOK, Record
<1>. DEFINE i == Demoted(r.interval, e)
<1>2. i \in MinInterval .. r.interval
  <2>1. r.interval \in Nat /\ r.interval \div 2 \in Int /\ r.interval \div 2 <= r.interval
    BY <1>1
  <2>2. (3 * r.interval) \div 4 \in Int /\ (3 * r.interval) \div 4 <= r.interval
    BY <1>1
  <2>3. \A d \in Int : d <= r.interval => Max({MinInterval, d}) \in MinInterval .. r.interval
    <3>1. ASSUME NEW d \in Int, d <= r.interval PROVE Max({MinInterval, d}) \in MinInterval .. r.interval
      <4>1. Max({MinInterval, d}) \in {MinInterval, d} /\ Max({MinInterval, d}) >= MinInterval
        <5>1. MinInterval \in Int
          OBVIOUS
        <5>. QED
          BY <5>1, LargerOfTwo
      <4>. QED
        BY <1>1, <3>1, <4>1
    <3>. QED
      BY <3>1
  <2>. QED
    BY <2>1, <2>2, <2>3 DEF Demoted
<1>. HIDE DEF i
<1>3. Failed(r, e) = [interval |-> i, clean |-> 0, total |-> r.total + 1, failures |-> r.failures + 1]
  <2>1. Failed(r, e) = [r EXCEPT !.interval = i, !.clean = 0, !.total = r.total + 1, !.failures = r.failures + 1]
    BY <1>1 DEF Failed, i
  <2>. QED
    BY <1>1, <2>1 DEF Record
<1>4. /\ Failed(r, e) \in Record /\ Failed(r, e).interval = i /\ Failed(r, e).clean = 0
      /\ Failed(r, e).total = r.total + 1 /\ Failed(r, e).failures = r.failures + 1
  <2>1. i \in Nat /\ r.total + 1 \in Nat /\ r.failures + 1 \in Nat
    BY <1>1, <1>2
  <2>. QED
    BY <1>1, <1>3, <2>1 DEF Record
<1>5. RecordOK(Failed(r, e))
  BY <1>1, <1>2, <1>4 DEF RecordOK
<1>6. n - r.clean \in Nat /\ n - r.clean <= n /\ r.interval <= Worth(n - r.clean)
  BY <1>1 DEF Earned
<1>7. Worth(n - r.clean) <= Worth(n - 0) /\ Worth(n - r.clean) \in Nat /\ Worth(n - 0) \in Nat
  BY <1>6, WorthUp
<1>8. i <= Worth(n - 0)
  BY <1>1, <1>2, <1>6, <1>7
<1>. QED
  BY <1>4, <1>5, <1>8 DEF Earned

LEMMA TrustStays ==
  ASSUME TrustInv, [Next]_vars
  PROVE  TrustInv'
<1>1. /\ successes \in Nat /\ copy \in [Process -> Record] /\ RecordOK(trust) /\ Earned(trust, successes)
      /\ \A p \in Process : RecordOK(copy[p]) /\ Earned(copy[p], successes)
  BY DEF TrustInv
<1>2. \A n \in Nat : RecordOK(Fresh) /\ Earned(Fresh, n)
  BY FreshIsEarned
<1>3. Fresh \in Record /\ \A r : RecordOK(r) => r \in Record
  BY <1>2 DEF RecordOK
<1>4. ASSUME NEW p \in Process, ReadTrust(p) PROVE TrustInv'
  <2>1. copy' = [copy EXCEPT ![p] = trust] /\ trust' = trust /\ successes' = successes
    BY <1>4 DEF ReadTrust, Set, shared
  <2>. QED
    BY <1>1, <1>3, <2>1 DEF TrustInv
<1>5. ASSUME NEW p \in Process, WriteTrust(p) PROVE TrustInv'
  <2>1. copy' = [copy EXCEPT ![p] = Fresh]
    BY <1>5 DEF WriteTrust, Set
  <2>2. \/ trust' = Clean(copy[p]) /\ successes' = successes + 1
        \/ trust' = Failed(copy[p], event[p]) /\ successes' = successes
    BY <1>5 DEF WriteTrust
  <2>3. RecordOK(copy[p]) /\ Earned(copy[p], successes)
    BY <1>1
  <2>4. successes' \in Nat /\ successes <= successes' /\ RecordOK(trust') /\ Earned(trust', successes')
    BY <1>1, <2>2, <2>3, CleanIsEarned, FailedIsEarned
  <2>5. \A q \in Process : RecordOK(copy[q]) /\ Earned(copy[q], successes')
    BY <1>1, <2>4, EarnedStays
  <2>6. \A q \in Process : copy'[q] = copy[q] \/ copy'[q] = Fresh
    BY <1>1, <2>1
  <2>7. copy' \in [Process -> Record]
    BY <1>1, <1>3, <2>1
  <2>8. \A q \in Process : RecordOK(copy'[q]) /\ Earned(copy'[q], successes')
    BY <1>2, <2>4, <2>5, <2>6
  <2>. QED
    BY <2>4, <2>7, <2>8 DEF TrustInv
<1>6. ASSUME NEW p \in Process, TrustFails(p) \/ Crash(p) PROVE TrustInv'
  <2>1. copy' = [copy EXCEPT ![p] = Fresh] /\ trust' = trust /\ successes' = successes
    BY <1>6 DEF TrustFails, Crash, Set, shared
  <2>2. \A q \in Process : copy'[q] = copy[q] \/ copy'[q] = Fresh
    BY <1>1, <2>1
  <2>3. copy' \in [Process -> Record]
    BY <1>1, <1>3, <2>1
  <2>. QED
    BY <1>1, <1>2, <2>1, <2>2, <2>3 DEF TrustInv
<1>7. CASE UNCHANGED <<trust, copy, successes>>
  BY <1>1, <1>7 DEF TrustInv
<1>8. ASSUME NEW p \in Process, Refuse(p) \/ Allow(p) \/ Execute(p) \/ Audit(p)
      PROVE  UNCHANGED <<trust, copy, successes>>
  BY <1>8 DEF Refuse, Allow, Execute, Audit, notes, shared
<1>9. ASSUME \/ StartRun \/ StartDirect \/ StartAlerts \/ StartRole \/ StartEnrichment \/ Window \/ UNCHANGED vars
      PROVE  UNCHANGED <<trust, copy, successes>>
  BY <1>9 DEF StartRun, StartDirect, StartAlerts, StartRole, StartEnrichment, Window, vars, notes, shared
<1>10. ASSUME Think \/ Exhausted \/ Finish \/ Act \/ Repeat \/ Dangling \/ Observe \/ ObserveDirect \/ ObserveHeartbeat
       PROVE  UNCHANGED <<trust, copy, successes>>
  BY <1>10 DEF Think, Exhausted, Finish, Act, Repeat, Dangling, Observe, ObserveDirect, ObserveHeartbeat, notes, shared
<1>. QED
  BY <1>4, <1>5, <1>6, <1>7, <1>8, <1>9, <1>10 DEF Next, ChatStep, Both, Process

LEMMA TrustStarts == Init => TrustInv
<1>1. ASSUME Init PROVE TrustInv
  <2>1. successes = 0 /\ trust = Fresh /\ copy = [p \in Process |-> Fresh]
    BY <1>1 DEF Init
  <2>. QED
    BY <2>1, FreshIsEarned DEF TrustInv, RecordOK
<1>. QED
  BY <1>1

LEMMA TrustEarned == TrustInv => TrustIsEarned
<1>1. ASSUME TrustInv PROVE TrustIsEarned
  <2>1. Earned(trust, successes)
    BY <1>1 DEF TrustInv
  <2>. QED
    BY <2>1 DEF Earned, Worth, TrustIsEarned
<1>. QED
  BY <1>1

-----------------------------------------------------------------------------
(* The store: what eviction leaves is the newest part of it, and fits.     *)

\* The newest k of S.
Newest(S, k) == {i \in S : Cardinality({j \in S : j > i}) < k}

LEMMA NewestOf ==
  ASSUME NEW L \in Nat, NEW S \in SUBSET (1 .. L), NEW k \in Nat
  PROVE  /\ Newest(S, k) \subseteq S /\ IsFiniteSet(Newest(S, k)) /\ Cardinality(Newest(S, k)) <= k
         /\ \A i \in Newest(S, k), j \in S : i <= j => j \in Newest(S, k)
<1>. DEFINE After(i) == {j \in S : j > i}
            K == Newest(S, k)
<1>0. \A i \in S : i \in Nat
  OBVIOUS
<1>1. IsFiniteSet(S)
  <2>1. IsFiniteSet(1 .. L)
    BY FS_Interval
  <2>. QED
    BY <2>1, FS_Subset
<1>2. \A i \in S : IsFiniteSet(After(i)) /\ Cardinality(After(i)) \in Nat
  BY <1>1, FS_Subset, FS_CardinalityType
<1>3. K \subseteq S /\ IsFiniteSet(K) /\ Cardinality(K) \in Nat
  BY <1>1, FS_Subset, FS_CardinalityType DEF Newest
<1>4. ASSUME NEW i \in K, NEW j \in S, i <= j PROVE j \in K
  <2>0. i \in S /\ i \in Nat /\ j \in Nat
    BY <1>0, <1>3
  <2>1. After(j) \in SUBSET After(i)
    <3>1. \A x \in S : x > j => x > i
      BY <1>0, <1>4, <2>0
    <3>. QED
      BY <3>1
  <2>2. Cardinality(After(j)) <= Cardinality(After(i))
    BY <1>2, <2>0, <2>1, FS_Subset
  <2>3. Cardinality(After(i)) < k
    BY DEF Newest
  <2>4. Cardinality(After(j)) < k
    <3>1. Cardinality(After(j)) \in Nat /\ Cardinality(After(i)) \in Nat
      BY <1>2, <2>0
    <3>. QED
      BY <2>2, <2>3, <3>1
  <2>. QED
    BY <2>4 DEF Newest
<1>5. Cardinality(K) <= k
  <2>1. CASE K = {}
    BY <2>1, FS_EmptySet
  <2>2. CASE K # {}
    <3>1. PICK m \in K : \A i \in K : m <= i
      <4>1. K \in SUBSET Nat
        <5>1. \A i \in K : i \in Nat
          BY <1>0, <1>3
        <5>. QED
          BY <5>1
      <4>. QED
        BY <2>2, <4>1, Lowest
    <3>2. K \ {m} \in SUBSET After(m)
      <4>1. ASSUME NEW i \in K \ {m} PROVE i \in After(m)
        <5>1. i \in S /\ i \in Nat /\ m \in Nat /\ m <= i /\ i # m
          BY <1>0, <1>3, <3>1
        <5>. QED
          BY <5>1
      <4>. QED
        BY <4>1
    <3>3. Cardinality(K \ {m}) <= Cardinality(After(m))
      BY <1>2, <1>3, <3>2, FS_Subset
    <3>4. Cardinality(After(m)) < k
      BY DEF Newest
    <3>5. Cardinality(K \ {m}) = Cardinality(K) - 1
      BY <1>3, FS_RemoveElement
    <3>6. Cardinality(After(m)) \in Nat
      BY <1>2, <1>3
    <3>. QED
      BY <1>3, <3>3, <3>4, <3>5, <3>6
  <2>. QED
    BY <2>1, <2>2
<1>. QED
  BY <1>3, <1>4, <1>5

LEMMA GreatestOf ==
  ASSUME NEW n \in Nat, NEW T \in SUBSET (0 .. n), T # {}
  PROVE  Max(T) \in T
<1>. DEFINE N == {n - x : x \in T}
<1>0. \A x \in T : x \in Nat /\ n - x \in Nat
  <2>1. \A x \in T : x \in 0 .. n
    OBVIOUS
  <2>. QED
    BY <2>1
<1>1. N \in SUBSET Nat /\ N # {}
  BY <1>0
<1>2. PICK m \in N : \A y \in N : m <= y
  BY <1>1, Lowest
<1>3. PICK x \in T : m = n - x
  BY <1>2
<1>4. \A y \in T : x >= y
  <2>1. ASSUME NEW y \in T PROVE x >= y
    <3>1. n - y \in N
      OBVIOUS
    <3>2. m <= n - y
      BY <1>2, <3>1
    <3>. QED
      BY <1>0, <1>3, <3>2
  <2>. QED
    BY <2>1
<1>. QED
  BY <1>4 DEF Max

\* What is left when n bytes are to fit.
LEMMA RoomFor ==
  ASSUME NEW L \in Nat, NEW S \in SUBSET (1 .. L), NEW n \in Nat
  PROVE  /\ Room(S, n) \subseteq S /\ \A i \in Room(S, n), j \in S : i <= j => j \in Room(S, n)
         /\ \/ Room(S, n) = {}
            \/ Cardinality(Room(S, n)) < MaxHandles /\ Bytes(sizes, Room(S, n)) + n <= MaxBytes
<1>. DEFINE T == {k \in 0 .. Cardinality(S) : k < MaxHandles /\ Bytes(sizes, Newest(S, k)) + n <= MaxBytes} \cup {0}
<1>1. Room(S, n) = Newest(S, Max(T))
  BY DEF Room, Newest
<1>2. IsFiniteSet(S) /\ Cardinality(S) \in Nat
  <2>1. IsFiniteSet(1 .. L)
    BY FS_Interval
  <2>. QED
    BY <2>1, FS_Subset, FS_CardinalityType
<1>3. T \in SUBSET (0 .. Cardinality(S)) /\ T # {}
  BY <1>2
<1>. DEFINE k == Max(T)
<1>4. k \in T
  BY <1>2, <1>3, GreatestOf
<1>5. k \in Nat /\ (k = 0 \/ (k < MaxHandles /\ Bytes(sizes, Newest(S, k)) + n <= MaxBytes))
  <2>1. \A c \in T : c \in Nat /\ (c = 0 \/ (c < MaxHandles /\ Bytes(sizes, Newest(S, c)) + n <= MaxBytes))
    BY <1>2
  <2>. HIDE DEF k, T
  <2>. QED
    BY <1>4, <2>1
<1>. HIDE DEF k, T
<1>6. /\ Newest(S, k) \subseteq S /\ IsFiniteSet(Newest(S, k)) /\ Cardinality(Newest(S, k)) <= k
      /\ \A i \in Newest(S, k), j \in S : i <= j => j \in Newest(S, k)
  BY <1>5, NewestOf
<1>7. Cardinality(Newest(S, k)) \in Nat
  BY <1>6, FS_CardinalityType
<1>8. CASE k = 0
  <2>1. Newest(S, k) = {}
    BY <1>6, <1>7, <1>8, FS_EmptySet
  <2>. QED
    BY <1>1, <2>1 DEF k
<1>9. CASE k < MaxHandles /\ Bytes(sizes, Newest(S, k)) + n <= MaxBytes
  <2>1. Cardinality(Newest(S, k)) < MaxHandles
    BY <1>5, <1>6, <1>7, <1>9, ReactLoopAssumption
  <2>. QED
    BY <1>1, <1>6, <1>9, <2>1 DEF k
<1>. QED
  BY <1>5, <1>8, <1>9

NewestInv ==
  /\ sizes \in Seq(Sizes) /\ store \subseteq 1 .. Len(sizes)
  /\ sizes # <<>> =>
       /\ Len(sizes) \in store
       /\ \A i \in store : i .. Len(sizes) \subseteq store
       /\ \/ store = {Len(sizes)}
          \/ Cardinality(store) <= MaxHandles /\ Bytes(sizes, store) <= MaxBytes

LEMMA WrapKeeps ==
  ASSUME NewestInv, Wrap
  PROVE  NewestInv'
<1>1. CASE UNCHANGED handles
  BY <1>1 DEF NewestInv, handles
<1>2. CASE ~ UNCHANGED handles
  <2>. DEFINE L == Len(sizes)
              M == L + 1
  <2>1. PICK n \in Sizes : sizes' = Append(sizes, n) /\ store' = Room(store, n) \cup {Len(sizes')}
    BY <1>2 DEF Wrap
  <2>2. sizes \in Seq(Sizes) /\ L \in Nat /\ store \in SUBSET (1 .. L) /\ Sizes \subseteq Nat \ {0}
    BY ReactLoopAssumption DEF NewestInv
  <2>3. /\ sizes' \in Seq(Sizes) /\ Len(sizes') = M /\ sizes'[M] = n /\ n \in Nat
        /\ \A i \in 1 .. L : sizes'[i] = sizes[i] /\ sizes[i] \in Nat
    <3>1. \A s \in Seq(Sizes) : /\ Append(s, n) \in Seq(Sizes) /\ Len(Append(s, n)) = Len(s) + 1
                               /\ Append(s, n)[Len(s) + 1] = n
                               /\ \A i \in 1 .. Len(s) : Append(s, n)[i] = s[i] /\ s[i] \in Sizes
      OBVIOUS
    <3>2. \A c \in Sizes : c \in Nat
      BY <2>2
    <3>. QED
      BY <2>1, <2>2, <3>1, <3>2
  <2>. DEFINE R == Room(store, n)
  <2>4. /\ R \subseteq store /\ \A i \in R, j \in store : i <= j => j \in R
        /\ R = {} \/ (Cardinality(R) < MaxHandles /\ Bytes(sizes, R) + n <= MaxBytes)
    <3>1. n \in Nat /\ L \in Nat /\ store \in SUBSET (1 .. L)
      BY <2>2
    <3>. HIDE DEF L
    <3>. QED
      BY <3>1, RoomFor
  <2>5. store' = R \cup {M}
    BY <2>1, <2>3
  <2>. HIDE DEF R
  <2>6. store' \subseteq 1 .. M
    <3>1. M \in 1 .. M /\ \A i \in 1 .. L : i \in 1 .. M
      BY <2>2
    <3>2. \A i \in R : i \in 1 .. L
      BY <2>2, <2>4
    <3>. QED
      BY <2>5, <3>1, <3>2
  <2>7. ASSUME NEW i \in store' PROVE i .. M \subseteq store'
    <3>1. CASE i = M
      BY <2>2, <2>5, <3>1
    <3>2. CASE i \in R
      <4>1. \A j \in i .. L : j \in store
        BY <2>2, <2>4, <3>2 DEF NewestInv
      <4>2. \A j \in i .. L : j \in R
        BY <2>2, <2>4, <3>2, <4>1
      <4>3. \A j \in i .. M : j \in i .. L \/ j = M
        BY <2>2, <2>4, <3>2
      <4>. QED
        BY <2>5, <4>2, <4>3
    <3>. QED
      BY <2>5, <3>1, <3>2
  <2>8. store' = {M} \/ (Cardinality(store') <= MaxHandles /\ Bytes(sizes', store') <= MaxBytes)
    <3>1. CASE R = {}
      BY <2>5, <3>1
    <3>2. CASE Cardinality(R) < MaxHandles /\ Bytes(sizes, R) + n <= MaxBytes
      <4>1. IsFiniteSet(R) /\ Cardinality(R) \in Nat /\ M \notin R
        <5>1. R \in SUBSET (1 .. L)
          BY <2>2, <2>4
        <5>2. IsFiniteSet(1 .. L) /\ M \notin 1 .. L
          BY <2>2, FS_Interval
        <5>. QED
          BY <5>1, <5>2, FS_Subset, FS_CardinalityType
      <4>2. Cardinality(store') = Cardinality(R) + 1
        BY <2>5, <4>1, FS_AddElement
      <4>3. (\A i \in R \cup {M} : sizes'[i] \in Int) /\ \A i \in R : sizes[i] = sizes'[i]
        BY <2>2, <2>3, <2>4
      <4>4. Bytes(sizes, R) \in Int /\ Bytes(sizes', R \cup {M}) = sizes'[M] + Bytes(sizes, R)
        BY <4>1, <4>3, BytesOfMore
      <4>5. Bytes(sizes', store') <= MaxBytes
        BY <2>3, <2>5, <3>2, <4>4, ReactLoopAssumption
      <4>6. Cardinality(store') <= MaxHandles
        BY <3>2, <4>1, <4>2, ReactLoopAssumption
      <4>. QED
        BY <4>5, <4>6
    <3>. QED
      BY <2>4, <3>1, <3>2
  <2>9. M \in store'
    BY <2>5
  <2>. QED
    BY <2>3, <2>6, <2>7, <2>8, <2>9 DEF NewestInv
<1>. QED
  BY <1>1, <1>2

-----------------------------------------------------------------------------
(* The run: where its steps end, and so how many payloads it creates.      *)

Handling == {"gate", "execute", "audit", "observe"}

RunInv ==
  /\ step \in 0 .. MaxSteps + 1 /\ errors \in 0 .. ErrorLimit /\ Len(sizes) \in 0 .. MaxSteps
  /\ step > 0 => Len(sizes) < step /\ errors < ErrorLimit
  /\ pc["chat"] \in {"think", "read trust", "write trust", "act"} => step > 0
  /\ pc["chat"] # "think" => step <= MaxSteps
  /\ "handle" \in DOMAIN call["chat"] => step > 0 /\ pc["chat"] \in Handling

\* What a step of the run may leave alone.
LEMMA RunAsBefore ==
  ASSUME RunInv, UNCHANGED <<step, errors, sizes>>,
         \/ pc'["chat"] = pc["chat"]
         \/ pc'["chat"] \in {"read trust", "write trust", "act"} /\ pc["chat"] \in {"read trust", "write trust", "act"}
         \/ pc'["chat"] = "idle" /\ pc["chat"] # "think"
         \/ pc'["chat"] \in Handling /\ pc["chat"] # "think",
         \/ call'["chat"] = call["chat"] /\ (pc'["chat"] = pc["chat"] \/ pc'["chat"] \in Handling)
         \/ "handle" \notin DOMAIN call'["chat"]
  PROVE  RunInv'
  BY DEF RunInv, Handling

LEMMA RunOver ==
  ASSUME step' = 0, errors' \in 0 .. ErrorLimit, Len(sizes') \in 0 .. MaxSteps,
         pc'["chat"] = "idle" \/ pc'["chat"] \in Handling, "handle" \notin DOMAIN call'["chat"]
  PROVE  RunInv'
<1>1. /\ MaxSteps \in Nat /\ step' \in 0 .. MaxSteps + 1 /\ ~ (step' > 0) /\ step' <= MaxSteps
  BY ReactLoopAssumption
<1>2. pc'["chat"] \notin {"think", "read trust", "write trust", "act"}
  BY DEF Handling
<1>. QED
  BY <1>1, <1>2 DEF RunInv

LEMMA NoHandles ==
  /\ \A c \in Nudge \cup Plain \cup {NoCall} : "handle" \notin DOMAIN c
  /\ LateAlert \in Nudge
  BY DEF Nudge, Plain, NoCall, LateAlert

LEMMA RunStays ==
  ASSUME NudgeTypes, call \in [Process -> Call \cup {NoCall}], sizes \in Seq(Sizes), RunInv, [Next]_vars
  PROVE  RunInv'
<1>0. /\ MaxSteps \in Nat /\ ErrorLimit \in Nat \ {0} /\ Len(sizes) \in Nat
      /\ pc \in [Process -> Place] /\ "chat" \in Process /\ "heartbeat" \in Process
  BY ReactLoopAssumption DEF NudgeTypes, Process
<1>n. "handle" \notin DOMAIN NoCall /\ \A c \in Nudge \cup Plain : "handle" \notin DOMAIN c
  BY NoHandles
<1>1. ASSUME Both("heartbeat") PROVE RunInv'
  <2>1. UNCHANGED <<step, errors, sizes>>
    BY <1>1 DEF Both, ReadTrust, WriteTrust, TrustFails, Refuse, Allow, Execute, Audit, run, handles
  <2>2. pc'["chat"] = pc["chat"] /\ call'["chat"] = call["chat"]
    BY <1>0, <1>1 DEF Both, ReadTrust, WriteTrust, TrustFails, Refuse, Allow, Execute, Audit, Goes, Set, Recorded, calls
  <2>. QED
    BY <2>1, <2>2, RunAsBefore
<1>2. ASSUME ReadTrust("chat") \/ WriteTrust("chat") \/ TrustFails("chat") PROVE RunInv'
  <2>1. UNCHANGED <<step, errors, sizes>>
    BY <1>2 DEF ReadTrust, WriteTrust, TrustFails, run, handles
  <2>2. /\ pc["chat"] \in {"read trust", "write trust"}
        /\ pc'["chat"] \in {"read trust", "write trust", "act", "idle", "observe"}
    BY <1>0, <1>2 DEF ReadTrust, WriteTrust, TrustFails, Goes, Set, Recorded
  <2>3. call'["chat"] = call["chat"] \/ call'["chat"] = NoCall
    BY <1>0, <1>2 DEF ReadTrust, WriteTrust, TrustFails, Set, calls
  <2>4. "handle" \notin DOMAIN call'["chat"]
    BY <1>n, <2>2, <2>3 DEF RunInv, Handling
  <2>. QED
    BY <2>1, <2>2, <2>4, RunAsBefore DEF Handling
<1>3. ASSUME Refuse("chat") \/ Allow("chat") \/ Execute("chat") \/ Audit("chat") PROVE RunInv'
  <2>1. UNCHANGED <<step, errors, sizes, call>>
    BY <1>3 DEF Refuse, Allow, Execute, Audit, run, handles, calls
  <2>2. pc["chat"] \in Handling /\ pc'["chat"] \in Handling
    BY <1>0, <1>3 DEF Refuse, Allow, Execute, Audit, Goes, Set, Handling
  <2>. QED
    BY <2>1, <2>2, RunAsBefore DEF Handling
<1>4. ASSUME Think PROVE RunInv'
  <2>1. UNCHANGED <<step, errors, sizes, call>> /\ pc["chat"] = "think" /\ step <= MaxSteps /\ pc'["chat"] = "read trust"
    BY <1>0, <1>4 DEF Think, Records, Goes, Set, handles, calls
  <2>. QED
    BY <2>1 DEF RunInv, Handling
<1>5. ASSUME Exhausted \/ Finish PROVE RunInv'
  <2>1. /\ UNCHANGED <<errors, sizes, call>> /\ step' = 0 /\ pc'["chat"] = "idle"
        /\ pc["chat"] \in {"think", "act"}
    BY <1>0, <1>5 DEF Exhausted, Finish, Ends, Goes, Set, handles, calls
  <2>2. "handle" \notin DOMAIN call'["chat"] /\ errors \in 0 .. ErrorLimit /\ Len(sizes) \in 0 .. MaxSteps
    BY <2>1 DEF RunInv, Handling
  <2>. QED
    BY <2>1, <2>2, RunOver
<1>6. ASSUME Act PROVE RunInv'
  <2>1. UNCHANGED <<step, errors, sizes>> /\ pc["chat"] = "act" /\ pc'["chat"] = "gate"
    BY <1>0, <1>6 DEF Act, run, handles, Goes, Set
  <2>. QED
    BY <2>1 DEF RunInv, Handling
<1>7. ASSUME Repeat PROVE RunInv'
  <2>1. /\ UNCHANGED <<sizes, call>> /\ pc["chat"] = "act" /\ errors' = errors + 1
        /\ \/ errors' >= ErrorLimit /\ pc'["chat"] = "idle" /\ step' = 0
           \/ errors' < ErrorLimit /\ pc'["chat"] = "think" /\ step' = step + 1
    <3>1. CASE errors' >= ErrorLimit
      BY <1>0, <1>7, <3>1 DEF Repeat, Ends, handles, calls, Goes, Set
    <3>2. CASE ~ (errors' >= ErrorLimit)
      <4>1. errors + 1 < ErrorLimit
        BY <1>0, <1>7, <3>2 DEF Repeat, RunInv
      <4>. QED
        BY <1>0, <1>7, <3>2, <4>1 DEF Repeat, handles, calls, Goes, Set
    <3>. QED
      BY <3>1, <3>2
  <2>2. /\ step > 0 /\ errors < ErrorLimit /\ errors \in Nat /\ Len(sizes) \in 0 .. MaxSteps /\ Len(sizes) < step
        /\ step <= MaxSteps /\ step \in Nat /\ "handle" \notin DOMAIN call["chat"]
    BY <1>0, <2>1 DEF RunInv, Handling
  <2>3. CASE errors' >= ErrorLimit /\ pc'["chat"] = "idle" /\ step' = 0
    BY <1>0, <2>1, <2>2, <2>3, RunOver
  <2>4. CASE errors' < ErrorLimit /\ pc'["chat"] = "think" /\ step' = step + 1
    BY <1>0, <2>1, <2>2, <2>4 DEF RunInv
  <2>. QED
    BY <2>1, <2>3, <2>4
<1>8. ASSUME Dangling PROVE RunInv'
  <2>1. /\ UNCHANGED <<step, errors, sizes>> /\ pc["chat"] = "gate" /\ pc'["chat"] = "read trust"
        /\ call'["chat"] = NoCall /\ "handle" \in DOMAIN call["chat"]
    BY <1>0, <1>8 DEF Dangling, Records, Goes, Set, handles
  <2>. QED
    BY <1>n, <2>1 DEF RunInv, Handling
<1>9. ASSUME Observe PROVE RunInv'
  <2>1. /\ pc["chat"] = "observe" /\ step > 0 /\ call'["chat"] = NoCall
        /\ Len(sizes') \in {Len(sizes), Len(sizes) + 1} /\ errors' = Counted
    <3>1. Len(sizes') \in {Len(sizes), Len(sizes) + 1}
      BY <1>9 DEF Observe, Wrap, handles
    <3>. QED
      BY <1>0, <1>9, <3>1 DEF Observe, Set
  <2>2. \/ errors' >= ErrorLimit /\ pc'["chat"] = "idle" /\ step' = 0
        \/ ~ (errors' >= ErrorLimit) /\ pc'["chat"] = "think" /\ step' = step + 1
    BY <1>0, <1>9 DEF Observe, Ends, Goes, Set
  <2>3. errors' = errors + 1 \/ errors' = 0
    BY <2>1 DEF Counted
  <2>4. /\ errors < ErrorLimit /\ errors \in Nat /\ Len(sizes) < step /\ step <= MaxSteps /\ step \in Nat
    BY <1>0, <2>1 DEF RunInv
  <2>5. errors' \in 0 .. ErrorLimit /\ Len(sizes') \in 0 .. MaxSteps /\ Len(sizes') <= step
    BY <1>0, <2>1, <2>3, <2>4
  <2>6. CASE errors' >= ErrorLimit /\ pc'["chat"] = "idle" /\ step' = 0
    BY <1>n, <2>1, <2>5, <2>6, RunOver
  <2>7. CASE ~ (errors' >= ErrorLimit) /\ pc'["chat"] = "think" /\ step' = step + 1
    BY <1>0, <1>n, <2>1, <2>4, <2>5, <2>7 DEF RunInv
  <2>. QED
    BY <2>2, <2>6, <2>7
<1>10. ASSUME ObserveDirect PROVE RunInv'
  <2>1. /\ UNCHANGED <<step, errors, sizes>> /\ pc["chat"] = "observe" /\ pc'["chat"] = "idle" /\ call'["chat"] = NoCall
    BY <1>0, <1>10 DEF ObserveDirect, Goes, Set, run, handles
  <2>. QED
    BY <1>n, <2>1, RunAsBefore
<1>11. ASSUME StartRun PROVE RunInv'
  <2>1. /\ step' = 1 /\ errors' = 0 /\ Len(sizes') = 0 /\ pc["chat"] = "idle" /\ pc'["chat"] = "think" /\ call' = call
    BY <1>0, <1>11 DEF StartRun, Begins, Goes, Set, calls
  <2>. QED
    BY <1>0, <2>1 DEF RunInv, Handling
<1>12. ASSUME StartDirect PROVE RunInv'
  <2>1. /\ step' = 0 /\ UNCHANGED <<errors, sizes>> /\ pc'["chat"] = "gate" /\ "handle" \notin DOMAIN call'["chat"]
    BY <1>0, <1>n, <1>12 DEF StartDirect, Begins, Goes, Set, handles
  <2>2. errors \in 0 .. ErrorLimit /\ Len(sizes) \in 0 .. MaxSteps
    BY DEF RunInv
  <2>. QED
    BY <2>1, <2>2, RunOver DEF Handling
<1>13. ASSUME StartAlerts \/ StartRole \/ StartEnrichment \/ ObserveHeartbeat \/ Window \/ UNCHANGED vars PROVE RunInv'
  <2>1. UNCHANGED <<step, errors, sizes>>
    BY <1>13 DEF StartAlerts, StartRole, StartEnrichment, ObserveHeartbeat, Window, vars, run, handles
  <2>2. pc'["chat"] = pc["chat"] /\ call'["chat"] = call["chat"]
    BY <1>0, <1>13 DEF StartAlerts, StartRole, StartEnrichment, ObserveHeartbeat, Window, vars, Begins, Goes, Set, calls
  <2>. QED
    BY <2>1, <2>2, RunAsBefore
<1>14. ASSUME NEW p \in Process, Crash(p) PROVE RunInv'
  <2>1. UNCHANGED <<errors, sizes>>
    BY <1>14 DEF Crash, handles
  <2>2. CASE p = "chat"
    <3>1. step' = 0 /\ pc'["chat"] = "idle" /\ call'["chat"] = NoCall
      BY <1>0, <1>14, <2>2 DEF Crash, Goes, Set
    <3>2. errors \in 0 .. ErrorLimit /\ Len(sizes) \in 0 .. MaxSteps
      BY DEF RunInv
    <3>. QED
      BY <1>n, <2>1, <3>1, <3>2, RunOver
  <2>3. CASE p # "chat"
    <3>1. step' = step /\ pc'["chat"] = pc["chat"] /\ call'["chat"] = call["chat"]
      BY <1>0, <1>14, <2>3 DEF Crash, Goes, Set
    <3>. QED
      BY <2>1, <3>1, RunAsBefore
  <2>. QED
    BY <2>2, <2>3
<1>. QED
  BY <1>1, <1>2, <1>3, <1>4, <1>5, <1>6, <1>7, <1>8, <1>9, <1>10, <1>11, <1>12, <1>13, <1>14
     DEF Next, ChatStep, Both

LEMMA StoreStays ==
  ASSUME NewestInv, [Next]_vars
  PROVE  NewestInv'
<1>1. CASE UNCHANGED handles
  BY <1>1 DEF NewestInv, handles
<1>2. CASE Observe
  BY <1>2, WrapKeeps DEF Observe
<1>3. CASE StartRun
  <2>1. sizes' = <<>> /\ store' = {}
    BY <1>3 DEF StartRun
  <2>. QED
    BY <2>1 DEF NewestInv
<1>4. ASSUME \/ StartDirect \/ StartAlerts \/ StartRole \/ StartEnrichment \/ Window \/ UNCHANGED vars
      PROVE  UNCHANGED handles
  BY <1>4 DEF StartDirect, StartAlerts, StartRole, StartEnrichment, Window, vars
<1>5. ASSUME Think \/ Exhausted \/ Finish \/ Act \/ Repeat \/ Dangling \/ ObserveDirect \/ ObserveHeartbeat
      PROVE  UNCHANGED handles
  BY <1>5 DEF Think, Exhausted, Finish, Act, Repeat, Dangling, ObserveDirect, ObserveHeartbeat
<1>6. ASSUME NEW p \in Process, Both(p) \/ Crash(p) PROVE UNCHANGED handles
  BY <1>6 DEF Both, ReadTrust, WriteTrust, TrustFails, Refuse, Allow, Execute, Audit, Crash
<1>. QED
  BY <1>1, <1>2, <1>3, <1>4, <1>5, <1>6 DEF Next, ChatStep, Process

-----------------------------------------------------------------------------
(* The other types.                                                        *)

RestTypes ==
  /\ call \in [Process -> Call \cup {NoCall}] /\ output \in [Process -> Output \cup {"none"}]
  /\ event \in [Process -> Event \cup {"none"}]
  /\ then \in {"act", "unparsed", "exit"} /\ alerts \in 0 .. MaxAlerts
  /\ tried \in BOOLEAN /\ external \in BOOLEAN
  /\ runs \in [Process -> Nat] /\ windows \in 0 .. MaxWindows
  /\ faults \in 0 .. MaxFaults

LoopInv == NInv /\ TrustInv /\ NewestInv /\ RunInv /\ RestTypes

LEMMA RestStays ==
  ASSUME NewestInv, RunInv, RestTypes, [Next]_vars
  PROVE  RestTypes'
<1>0. /\ MaxSteps \in Nat /\ MaxAlerts \in Nat /\ MaxWindows \in Nat /\ MaxFaults \in Nat
      /\ "chat" \in Process /\ "heartbeat" \in Process
  BY ReactLoopAssumption DEF Process
<1>1. /\ NoCall \in Call \cup {NoCall} /\ LateAlert \in Call \cup {NoCall}
      /\ Nudge \cup Plain \subseteq Call \cup {NoCall}
      /\ [tool : {"read"}, handle : 1 .. Len(sizes)] \subseteq Call \cup {NoCall}
  <2>0. Len(sizes) \in 0 .. MaxSteps
    BY DEF RunInv
  <2>1. \A i \in 1 .. Len(sizes) : i \in 1 .. MaxSteps
    BY <1>0, <2>0
  <2>2. [tool : {"read"}, handle : 1 .. Len(sizes)] \subseteq [tool : {"read"}, handle : 1 .. MaxSteps]
    BY <2>1
  <2>. QED
    BY <2>2, NoHandles DEF Call, Follow
<1>. DEFINE Calls   == call \in [Process -> Call \cup {NoCall}]
            Outputs == output \in [Process -> Output \cup {"none"}]
            Events  == event \in [Process -> Event \cup {"none"}]
            Scalars == /\ then \in {"act", "unparsed", "exit"} /\ alerts \in 0 .. MaxAlerts
                       /\ tried \in BOOLEAN /\ external \in BOOLEAN
                       /\ windows \in 0 .. MaxWindows /\ faults \in 0 .. MaxFaults
            Begun   == runs \in [Process -> Nat]
<1>2. Calls /\ Outputs /\ Events /\ Scalars /\ Begun
  BY DEF RestTypes
<1>3. SUFFICES Calls' /\ Outputs' /\ Events' /\ Scalars' /\ Begun'
  BY DEF RestTypes
<1>4. /\ UNCHANGED call => Calls'
      /\ UNCHANGED output => Outputs'
      /\ UNCHANGED event => Events'
      /\ UNCHANGED runs => Begun'
  BY <1>2
<1>5. ASSUME then' \in {"act", "unparsed", "exit"}, alerts' \in 0 .. MaxAlerts, tried' \in BOOLEAN, external' \in BOOLEAN,
             windows' \in 0 .. MaxWindows, faults' \in 0 .. MaxFaults
      PROVE  Scalars'
  BY <1>5
<1>6. UNCHANGED <<then, alerts, tried, external, windows>> /\ (NoFault \/ Fault) => Scalars'
  BY <1>0, <1>2 DEF Fault, NoFault
<1>7. ASSUME NEW p \in Process, Both(p) PROVE Calls' /\ Outputs' /\ Events' /\ Scalars' /\ Begun'
  <2>. HIDE DEF Calls, Outputs, Events, Scalars, Begun
  <2>1. CASE ReadTrust(p)
    BY <1>4, <1>6, <2>1 DEF ReadTrust, calls, run, NoFault
  <2>2. CASE WriteTrust(p)
    <3>1. Calls' /\ Outputs' /\ Events'
      BY <1>1, <1>2, <2>2 DEF WriteTrust, Set, Output, Event, Calls, Outputs, Events
    <3>. QED
      BY <1>4, <1>6, <2>2, <3>1 DEF WriteTrust, run, NoFault
  <2>3. CASE TrustFails(p)
    <3>1. Events' /\ then' \in {"act", "unparsed", "exit"}
      BY <1>2, <2>3 DEF TrustFails, Set, Event, Events, Scalars
    <3>2. UNCHANGED <<call, output, alerts, tried, external, windows, runs>> /\ Fault
      BY <2>3 DEF TrustFails, calls
    <3>3. Scalars'
      <4>1. faults' \in 0 .. MaxFaults
        BY <1>0, <1>2, <3>2 DEF Fault, Scalars
      <4>. QED
        BY <1>2, <3>1, <3>2, <4>1 DEF Scalars
    <3>. QED
      BY <1>4, <3>1, <3>2, <3>3
  <2>4. CASE Refuse(p)
    <3>1. Outputs'
      BY <1>2, <2>4 DEF Refuse, Set, Output, Outputs
    <3>. QED
      BY <1>4, <1>6, <2>4, <3>1 DEF Refuse, notes, run
  <2>5. CASE Allow(p)
    BY <1>4, <1>6, <2>5 DEF Allow, calls, notes, run
  <2>6. CASE Execute(p)
    <3>1. Outputs'
      BY <1>2, <2>6 DEF Execute, Set, Output, Outputs
    <3>. QED
      BY <1>4, <1>6, <2>6, <3>1 DEF Execute, notes, run, NoFault
  <2>7. CASE Audit(p)
    BY <1>4, <1>6, <2>7 DEF Audit, calls, notes, run
  <2>. QED
    BY <1>7, <2>1, <2>2, <2>3, <2>4, <2>5, <2>6, <2>7 DEF Both
<1>8. ASSUME NEW p \in Process, Crash(p) PROVE Calls' /\ Outputs' /\ Events' /\ Scalars' /\ Begun'
  <2>1. Calls' /\ Outputs' /\ Events'
    BY <1>1, <1>2, <1>8 DEF Crash, Set
  <2>2. Scalars' /\ Begun'
    BY <1>0, <1>2, <1>8 DEF Crash, Fault
  <2>. QED
    BY <2>1, <2>2
<1>9. ASSUME Begins("chat") \/ Begins("heartbeat") PROVE Begun'
  <2>1. \A p \in Process : runs[p] + 1 \in Nat
    BY <1>2
  <2>. QED
    BY <1>0, <1>2, <1>9, <2>1 DEF Begins, Set
<1>. HIDE DEF Begun
<1>10. CASE StartRun
  BY <1>2, <1>9, <1>10 DEF StartRun, calls, notes
<1>11. CASE StartDirect
  BY <1>0, <1>1, <1>2, <1>9, <1>11 DEF StartDirect, Set, notes
<1>12. CASE StartAlerts
  <2>1. Calls' /\ Outputs' /\ Events'
    BY <1>0, <1>1, <1>2, <1>12 DEF StartAlerts, Set, notes
  <2>2. alerts' \in 0 .. MaxAlerts /\ UNCHANGED <<then, tried, external, windows, faults>>
    BY <1>0, <1>12 DEF StartAlerts, run
  <2>. QED
    BY <1>2, <1>9, <1>12, <2>1, <2>2 DEF StartAlerts
<1>13. CASE StartRole
  <2>1. Calls'
    BY <1>0, <1>1, <1>2, <1>13 DEF StartRole, Set
  <2>. QED
    BY <1>2, <1>9, <1>13, <2>1 DEF StartRole, notes, run
<1>14. CASE StartEnrichment
  <2>1. Events'
    BY <1>0, <1>2, <1>14 DEF StartEnrichment, Set, Event
  <2>. QED
    BY <1>2, <1>9, <1>14, <2>1 DEF StartEnrichment, calls, run
<1>15. CASE Think
  <2>1. Events' /\ then' \in {"act", "unparsed", "exit"}
    BY <1>0, <1>2, <1>15 DEF Think, Records, Set, Event
  <2>. QED
    BY <1>2, <1>4, <1>15, <2>1 DEF Think, calls
<1>16. CASE Exhausted \/ Finish
  BY <1>2, <1>4, <1>16 DEF Exhausted, Finish, calls, notes
<1>17. CASE Act
  <2>1. Calls'
    BY <1>0, <1>1, <1>2, <1>17 DEF Act, Set
  <2>. QED
    BY <1>2, <1>4, <1>17, <2>1 DEF Act, notes, run
<1>18. CASE Repeat
  BY <1>2, <1>4, <1>18 DEF Repeat, calls, notes
<1>19. CASE Dangling
  <2>1. Events' /\ Calls' /\ then' \in {"act", "unparsed", "exit"}
    BY <1>0, <1>1, <1>2, <1>19 DEF Dangling, Records, Set, Event
  <2>. QED
    BY <1>2, <1>4, <1>19, <2>1 DEF Dangling
<1>20. CASE Observe
  <2>1. Calls' /\ Outputs'
    BY <1>0, <1>1, <1>2, <1>20 DEF Observe, Set
  <2>2. tried' \in BOOLEAN /\ external' \in BOOLEAN /\ UNCHANGED <<then, alerts, windows, faults, event, runs>>
    BY <1>20 DEF Observe, notes
  <2>. QED
    BY <1>2, <1>4, <2>1, <2>2
<1>21. CASE ObserveDirect
  BY <1>0, <1>1, <1>2, <1>4, <1>21 DEF ObserveDirect, Set, notes, run
<1>22. CASE ObserveHeartbeat
  <2>1. Calls' /\ Outputs'
    BY <1>0, <1>1, <1>2, <1>22 DEF ObserveHeartbeat, Set
  <2>2. alerts' \in 0 .. MaxAlerts /\ UNCHANGED <<then, tried, external, windows, faults, event, runs>>
    BY <1>0, <1>2, <1>22 DEF ObserveHeartbeat, run, notes
  <2>. QED
    BY <1>2, <1>4, <2>1, <2>2
<1>23. CASE Window
  <2>1. windows' \in 0 .. MaxWindows /\ UNCHANGED <<then, alerts, tried, external, faults, calls, event, runs>>
    BY <1>0, <1>2, <1>23 DEF Window, run, notes
  <2>. QED
    BY <1>2, <1>4, <2>1 DEF calls
<1>24. CASE UNCHANGED vars
  BY <1>2, <1>4, <1>24 DEF vars, calls, notes, run
<1>. QED
  BY <1>0, <1>7, <1>8, <1>10, <1>11, <1>12, <1>13, <1>14, <1>15, <1>16, <1>17, <1>18, <1>19,
     <1>20, <1>21, <1>22, <1>23, <1>24 DEF Next, ChatStep

LEMMA LoopStarts == Init => LoopInv
<1>1. ASSUME Init PROVE NewestInv /\ RunInv /\ RestTypes
  <2>1. NewestInv
    BY <1>1 DEF Init, NewestInv
  <2>2. RunInv
    <3>1. Len(sizes) = 0 /\ step = 0 /\ errors = 0 /\ pc["chat"] = "idle" /\ call["chat"] = NoCall
      BY <1>1 DEF Init, Process
    <3>. QED
      BY <3>1, NoHandles, ReactLoopAssumption DEF RunInv, Handling
  <2>3. RestTypes
    <3>1. MaxAlerts \in Nat /\ MaxWindows \in Nat /\ MaxFaults \in Nat
      BY ReactLoopAssumption
    <3>2. 0 \in 0 .. MaxAlerts /\ 0 \in 0 .. MaxWindows /\ 0 \in 0 .. MaxFaults
      BY <3>1
    <3>. QED
      BY <1>1, <3>2 DEF Init, RestTypes
  <2>. QED
    BY <2>1, <2>2, <2>3
<1>. QED
  BY <1>1, NudgesStart, TrustStarts DEF LoopInv

LEMMA LoopStays == LoopInv /\ [Next]_vars => LoopInv'
<1>. SUFFICES ASSUME LoopInv, [Next]_vars PROVE LoopInv'
  OBVIOUS
<1>1. NInv' /\ TrustInv' /\ NewestInv' /\ RestTypes'
  BY NudgesStay, TrustStays, StoreStays, RestStays DEF LoopInv
<1>2. RunInv'
  BY RunStays DEF LoopInv, NInv, NewestInv, RestTypes
<1>. QED
  BY <1>1, <1>2 DEF LoopInv

\* Whichever of the two writes last, a doubling of the audit interval stands for PromoteAfter
\* recorded successes that no other doubling stands for (gradient.py:115); and whatever the
\* sizes of the payloads, the store holds the newest of them and no more than fit
\* (handles.py:124).
THEOREM StoresAreSoundAlways == Spec => []StoresAreSound
<1>1. LoopInv => StoresAreSound
  <2>. SUFFICES ASSUME LoopInv PROVE StoresAreSound
    OBVIOUS
  <2>1. TypeOK
    <3>0. Len(sizes) \in 0 .. MaxSteps /\ MaxSteps \in Nat
      BY ReactLoopAssumption DEF LoopInv, RunInv
    <3>1. sizes \in Seq(Sizes) /\ Len(sizes) < MaxSteps + 1 /\ store \subseteq 1 .. Len(sizes)
      BY <3>0 DEF LoopInv, NewestInv
    <3>2. step \in 0 .. MaxSteps + 1 /\ errors \in 0 .. ErrorLimit
      BY DEF LoopInv, RunInv
    <3>3. /\ copy \in [Process -> Record] /\ trust \in Record /\ trust.interval \in MinInterval .. MaxInterval
          /\ trust.failures <= trust.total /\ (trust.clean < PromoteAfter \/ trust.interval = MaxInterval)
          /\ successes \in Nat
      BY DEF LoopInv, TrustInv, RecordOK
    <3>4. /\ pc \in [Process -> {"idle", "think", "read trust", "write trust", "act", "gate", "execute", "audit", "observe"}]
          /\ log \subseteq Nudge /\ executed \subseteq Nudge /\ suppressed \subseteq Nudge
          /\ repeats \in Nat /\ together \in Nat
      BY DEF LoopInv, NInv, NudgeTypes, Place
    <3>. QED
      BY <3>1, <3>2, <3>3, <3>4 DEF LoopInv, RestTypes, TypeOK
  <2>2. TrustIsEarned
    BY TrustEarned DEF LoopInv
  <2>3. NewestAreKept
    BY DEF LoopInv, NewestInv, NewestAreKept
  <2>. QED
    BY <2>1, <2>2, <2>3 DEF StoresAreSound
<1>. QED
  BY <1>1, LoopStarts, LoopStays, PTL DEF Spec

=============================================================================
