--------------------------- MODULE OutsideProofs ---------------------------
(***************************************************************************)
(* The clients of what is outside, for every number of callers, roles,     *)
(* providers and servers, and for every number of faults: an open circuit  *)
(* knows since when it is open; a provider that is shut out was down or    *)
(* failed; an answer of a server is that of the call that reports it.      *)
(***************************************************************************)
EXTENDS Outside, FiniteSetTheorems, WellFoundedInduction, TLAPS

-----------------------------------------------------------------------------
(* The circuit breaker.                                                    *)

\* The two invariants, by what a step may disturb: the row, or the callers.
GoodRow(r) == r \in Rows /\ (r.state = "open" => r.opened # Null)
CallersTyped ==
  /\ pc \in [Procs -> Places] /\ failures \in [Procs -> 0 .. Threshold]
  /\ up \in BOOLEAN /\ flips \in 0 .. MaxFlips /\ faults \in 0 .. MaxFaults
BreakerInv == GoodRow(row) /\ CallersTyped

USE BreakerAssumption

LEMMA BumpedType ==
  ASSUME NEW limit \in Nat, NEW n \in 0 .. limit
  PROVE  Bumped(n, limit) \in 0 .. limit
  BY DEF Bumped

LEMMA DefaultsGood == GoodRow(Defaults)
  BY DEF GoodRow, Defaults, Rows, States

\* What a caller writes to the row keeps its type, and opens it only with a time.
LEMMA StateWrites ==
  ASSUME NEW r, GoodRow(r) PROVE GoodRow(HalfOpened(r)) /\ GoodRow(Tripped(r))
<1>1. GoodRow(HalfOpened(r))
  BY DEF GoodRow, HalfOpened, Rows, States
<1>2. 0 \in Ages /\ 0 # Null
  BY DEF Ages
<1>3. /\ Tripped(r) \in Rows /\ Tripped(r).opened = 0
  BY <1>2 DEF GoodRow, Tripped, Rows, States
<1>4. GoodRow(Tripped(r))
  BY <1>2, <1>3 DEF GoodRow
<1>. QED
  BY <1>1, <1>4

LEMMA CounterWrites ==
  ASSUME NEW r, GoodRow(r)
  PROVE  /\ \A n \in 0 .. Threshold : GoodRow([r EXCEPT !.failures = n])
         /\ \A n \in 0 .. SuccessThreshold : GoodRow([r EXCEPT !.successes = n])
  BY DEF GoodRow, Rows

LEMMA Aging ==
  ASSUME NEW r, GoodRow(r), r.opened # Null, r.opened <= Recovery
  PROVE  GoodRow([r EXCEPT !.opened = @ + 1])
<1>1. r.opened + 1 \in Ages /\ r.opened + 1 # Null
  BY DEF GoodRow, Rows, Ages
<1>. QED
  BY <1>1 DEF GoodRow, Rows

LEMMA InitBreaker == Init => BreakerInv
  BY DefaultsGood DEF Init, BreakerInv, CallersTyped, Places

\* The callers' part: every step moves one caller to a place and counts its faults.
LEMMA CallersKeep == BreakerInv /\ [Next]_vars => CallersTyped'
<1>. SUFFICES ASSUME BreakerInv, [Next]_vars PROVE CallersTyped'
  OBVIOUS
<1>. CallersTyped /\ GoodRow(row)
  BY DEF BreakerInv
<1>1. /\ Raised => faults' \in 0 .. MaxFaults
      /\ Committed => faults' \in 0 .. MaxFaults
  BY DEF Raised, Committed, CallersTyped
<1>2. ASSUME NEW r, Read(r) \/ Write(r) PROVE faults' \in 0 .. MaxFaults
  BY <1>1, <1>2 DEF Read, Write
<1>3. ASSUME NEW p \in Procs, NEW place \in Places, Goto(p, place)
      PROVE  pc' \in [Procs -> Places]
  BY <1>3 DEF Goto, CallersTyped
<1>4. ASSUME NEW p \in Procs, Ask(p) PROVE CallersTyped'
  BY <1>1, <1>2, <1>3, <1>4 DEF Ask, CallersTyped, Places
<1>5. ASSUME NEW p \in Procs, SetHalfOpen(p) PROVE CallersTyped'
  BY <1>1, <1>2, <1>3, <1>5 DEF SetHalfOpen, CallersTyped, Places
<1>6. ASSUME NEW p \in Procs, Answered(p) PROVE CallersTyped'
  BY <1>1, <1>2, <1>3, <1>6 DEF Answered, CallersTyped, Places
<1>7. ASSUME NEW p \in Procs, AnsweredBadly(p) PROVE CallersTyped'
  BY <1>1, <1>2, <1>3, <1>7 DEF AnsweredBadly, CallersTyped, Places
<1>8. ASSUME NEW p \in Procs, ReadSuccess(p) PROVE CallersTyped'
  BY <1>1, <1>2, <1>3, <1>8 DEF ReadSuccess, CallersTyped, Places
<1>9. ASSUME NEW p \in Procs, CountSuccess(p) PROVE CallersTyped'
  BY <1>1, <1>2, <1>3, <1>9 DEF CountSuccess, CallersTyped, Places
<1>10. ASSUME NEW p \in Procs, Close(p) PROVE CallersTyped'
  BY <1>1, <1>2, <1>3, <1>10 DEF Close, CallersTyped, Places
<1>11. ASSUME NEW p \in Procs, Forgive(p) PROVE CallersTyped'
  BY <1>1, <1>2, <1>3, <1>11 DEF Forgive, CallersTyped, Places
<1>12. ASSUME NEW p \in Procs, Check(p) PROVE CallersTyped'
  BY <1>1, <1>2, <1>3, <1>12 DEF Check, CallersTyped, Places
<1>13. ASSUME NEW p \in Procs, Trip(p) PROVE CallersTyped'
  BY <1>1, <1>2, <1>3, <1>13 DEF Trip, CallersTyped, Places
<1>14. ASSUME NEW p \in Procs, Reuse(p) PROVE CallersTyped'
  BY <1>1, <1>2, <1>3, <1>14 DEF Reuse, CallersTyped, Places
<1>15. ASSUME NEW p \in Procs, Drop(p) PROVE CallersTyped'
  BY <1>1, <1>2, <1>3, <1>15 DEF Drop, CallersTyped, Places
<1>16. ASSUME NEW p \in Procs, Die(p) PROVE CallersTyped'
  BY <1>1, <1>2, <1>3, <1>16 DEF Die, CallersTyped, Places
<1>17. ASSUME NEW p \in Procs, CountFailure(p) PROVE CallersTyped'
  <2>1. Bumped(row.failures, Threshold) \in 0 .. Threshold /\ 0 \in 0 .. Threshold
    BY BumpedType DEF GoodRow, Rows
  <2>2. failures' \in [Procs -> 0 .. Threshold]
    BY <1>17, <2>1 DEF CountFailure, CallersTyped
  <2>. QED
    BY <1>1, <1>3, <1>17, <2>2 DEF CountFailure, CallersTyped, Places
<1>18. ASSUME Tick \/ UNCHANGED vars PROVE CallersTyped'
  BY <1>18, Zenon DEF Tick, vars, CallersTyped
<1>19. ASSUME Flip PROVE CallersTyped'
  <2>1. flips' \in 0 .. MaxFlips
    BY <1>19 DEF Flip, CallersTyped
  <2>2. up' \in BOOLEAN
    BY <1>19 DEF Flip
  <2>. QED
    BY <1>19, <2>1, <2>2, Zenon DEF Flip, CallersTyped
<1>. QED
  BY <1>4, <1>5, <1>6, <1>7, <1>8, <1>9, <1>10, <1>11, <1>12, <1>13, <1>14, <1>15,
     <1>16, <1>17, <1>18, <1>19 DEF Next, Record

\* The row's part: a step that writes it writes a good row, or leaves it alone.
LEMMA RowKeeps == BreakerInv /\ [Next]_vars => GoodRow(row)'
<1>. SUFFICES ASSUME BreakerInv, [Next]_vars PROVE GoodRow(row')
  BY DEF GoodRow
<1>. GoodRow(row)
  BY DEF BreakerInv
<1>1. ASSUME NEW r, GoodRow(r), Write(r) PROVE GoodRow(row')
  BY <1>1 DEF Write
<1>2. ASSUME NEW p \in Procs, SetHalfOpen(p) \/ Trip(p) PROVE GoodRow(row')
  BY <1>1, <1>2, StateWrites DEF SetHalfOpen, Trip
<1>3. ASSUME NEW p \in Procs, Close(p) PROVE GoodRow(row')
  BY <1>1, <1>3, DefaultsGood DEF Close, Reset
<1>4. ASSUME NEW p \in Procs, Forgive(p) PROVE GoodRow(row')
  <2>1. GoodRow([row EXCEPT !.failures = 0])
    BY CounterWrites
  <2>. QED
    BY <1>1, <1>4, <2>1 DEF Forgive
<1>5. ASSUME NEW p \in Procs, CountSuccess(p) PROVE GoodRow(row')
  <2>1. Bumped(row.successes, SuccessThreshold) \in 0 .. SuccessThreshold
    BY BumpedType DEF GoodRow, Rows
  <2>. QED
    BY <1>5, <2>1, CounterWrites DEF CountSuccess
<1>6. ASSUME NEW p \in Procs, CountFailure(p) PROVE GoodRow(row')
  <2>1. Bumped(row.failures, Threshold) \in 0 .. Threshold
    BY BumpedType DEF GoodRow, Rows
  <2>. QED
    BY <1>6, <2>1, CounterWrites DEF CountFailure
<1>7. CASE Tick
  BY <1>7, Aging DEF Tick
<1>8. ASSUME NEW p \in Procs,
             \/ Ask(p) \/ Answered(p) \/ AnsweredBadly(p) \/ ReadSuccess(p)
             \/ Check(p) \/ Reuse(p) \/ Drop(p) \/ Die(p)
      PROVE  row' = row
  BY <1>8 DEF Ask, Answered, AnsweredBadly, ReadSuccess, Check, Reuse, Drop, Die
<1>9. Flip \/ UNCHANGED vars => row' = row
  BY DEF Flip, vars
<1>. QED
  BY <1>2, <1>3, <1>4, <1>5, <1>6, <1>7, <1>8, <1>9 DEF Next, Record

-----------------------------------------------------------------------------
(* The chain of roles.  What the loop of Chain does is shown for the least *)
(* number of passes that might not do it.                                  *)

LEMMA Lowest ==
  ASSUME NEW T \in SUBSET Nat, T # {} PROVE \E m \in T : \A x \in T : m <= x
<1>. DEFINE D == {ss \in Nat \X Nat : ss[1] < ss[2]}
<1>1. IsWellFoundedOn(D, Nat)
  BY NatLessThanWellFounded DEF OpToRel
<1>2. ASSUME NEW x \in Nat, NEW m \in Nat, x < m PROVE <<x, m>> \in D
  <2>1. <<x, m>> \in Nat \X Nat /\ <<x, m>>[1] = x /\ <<x, m>>[2] = m
    OBVIOUS
  <2>. QED
    BY <1>2, <2>1
<1>. HIDE DEF D
<1>3. PICK m \in T : \A x \in T : ~ (<<x, m>> \in D)
  BY <1>1, WFMin
<1>4. ASSUME NEW x \in T PROVE m <= x
  <2>1. ~ (x < m)
    BY <1>2, <1>3
  <2>. QED
    BY <2>1
<1>. QED
  BY <1>4

Pass(f, r, w, n) == IF n = 1 THEN <<r>> ELSE R!Longer(f, w[n - 1])
Walk(f, r, n, w) == w = [k \in 1 .. n |-> Pass(f, r, w, k)]

\* There is a function that does n passes.
LEMMA WalkExists ==
  ASSUME NEW f, NEW r, NEW n \in Nat PROVE \E w : Walk(f, r, n, w)
<1>. DEFINE T == {k \in Nat : ~ \E w : Walk(f, r, k, w)}
<1>. SUFFICES ASSUME n \in T PROVE FALSE
  OBVIOUS
<1>1. T \in SUBSET Nat /\ T # {}
  OBVIOUS
<1>2. PICK m \in T : \A x \in T : m <= x
  BY <1>1, Lowest
<1>. m \in Nat
  BY <1>2
<1>3. CASE m = 0
  <2>. DEFINE v == [k \in 1 .. 0 |-> r]
  <2>1. 1 .. 0 = {}
    OBVIOUS
  <2>2. Walk(f, r, 0, v)
    BY <2>1 DEF Walk
  <2>. QED
    BY <1>2, <1>3, <2>2
<1>4. CASE m # 0
  <2>1. m - 1 \in Nat /\ m - 1 \notin T
    BY <1>2, <1>4
  <2>2. PICK v : Walk(f, r, m - 1, v)
    BY <2>1
  <2>. DEFINE u == [k \in 1 .. m |-> Pass(f, r, v, k)]
  <2>3. ASSUME NEW k \in 1 .. m, k # 1 PROVE v[k - 1] = u[k - 1]
    <3>1. k - 1 \in 1 .. (m - 1) /\ k - 1 \in 1 .. m
      BY <2>3
    <3>. QED
      BY <2>2, <3>1 DEF Walk
  <2>4. ASSUME NEW k \in 1 .. m PROVE Pass(f, r, v, k) = Pass(f, r, u, k)
    BY <2>3, Zenon DEF Pass
  <2>5. Walk(f, r, m, u)
    BY <2>4, Zenon DEF Walk
  <2>. QED
    BY <1>2, <2>5
<1>. QED
  BY <1>3, <1>4

\* A pass adds at most one role.
LEMMA LongerDo ==
  ASSUME NEW f \in [Roles -> Roles \cup {NoRole}], NEW s \in Seq(Roles), s # <<>>
  PROVE  R!Longer(f, s) \in Seq(Roles) \ {<<>>} /\ Len(R!Longer(f, s)) <= Len(s) + 1
<1>. DEFINE n == f[R!Last(s)]
<1>1. R!Last(s) \in Roles
  BY DEF R!Last
<1>2. n \in Roles \cup {NoRole}
  BY <1>1
<1>3. CASE n = NoRole \/ n \in R!ToSet(s)
  BY <1>3 DEF R!Longer
<1>4. CASE ~ (n = NoRole \/ n \in R!ToSet(s))
  <2>1. R!Longer(f, s) = Append(s, n) /\ n \in Roles
    BY <1>2, <1>4 DEF R!Longer
  <2>. HIDE DEF n
  <2>2. Append(s, n) \in Seq(Roles) /\ Len(Append(s, n)) = Len(s) + 1
    BY <2>1
  <2>3. Append(s, n) # <<>>
    BY <2>2
  <2>. QED
    BY <2>1, <2>2, <2>3
<1>. QED
  BY <1>3, <1>4

LEMMA WalkDo ==
  ASSUME NEW f \in [Roles -> Roles \cup {NoRole}], NEW r \in Roles,
         NEW n \in Nat, NEW w, Walk(f, r, n, w), NEW k \in 1 .. n
  PROVE  w[k] \in Seq(Roles) \ {<<>>} /\ Len(w[k]) <= k
<1>. DEFINE Fine(j) == w[j] \in Seq(Roles) \ {<<>>} /\ Len(w[j]) <= j
            T == {j \in 1 .. n : ~ Fine(j)}
<1>. SUFFICES ASSUME ~ Fine(k) PROVE FALSE
  OBVIOUS
<1>1. T \in SUBSET Nat /\ T # {}
  OBVIOUS
<1>2. PICK m \in T : \A x \in T : m <= x
  BY <1>1, Lowest
<1>3. m \in 1 .. n /\ ~ Fine(m)
  BY <1>2
<1>4. w[m] = Pass(f, r, w, m)
  BY <1>3 DEF Walk
<1>5. CASE m = 1
  <2>1. w[m] = <<r>>
    BY <1>4, <1>5 DEF Pass
  <2>. QED
    BY <1>3, <1>5, <2>1
<1>6. CASE m # 1
  <2>1. m - 1 \in 1 .. n /\ m - 1 \notin T
    BY <1>2, <1>3, <1>6
  <2>2. Fine(m - 1)
    BY <2>1
  <2>3. w[m] = R!Longer(f, w[m - 1])
    BY <1>4, <1>6 DEF Pass
  <2>4. w[m] \in Seq(Roles) \ {<<>>} /\ Len(w[m]) <= Len(w[m - 1]) + 1
    BY <2>2, <2>3, LongerDo
  <2>5. Len(w[m - 1]) \in Nat /\ Len(w[m]) \in Nat
    BY <2>2, <2>4
  <2>6. Len(w[m]) <= m
    BY <1>3, <2>2, <2>4, <2>5
  <2>. QED
    BY <1>3, <2>4, <2>6
<1>. QED
  BY <1>5, <1>6

Count == R!Cardinality(Roles)

LEMMA Counted == Count \in Nat \ {0}
<1>1. Cardinality(Roles) \in Nat \ {0}
  BY FS_CardinalityType, FS_EmptySet, OutsideAssumption
<1>2. Cardinality(Roles) = R!Cardinality(Roles)
  BY DEF Cardinality, R!Cardinality
<1>. QED
  BY <1>1, <1>2 DEF Count

\* A chain has a role, and no more than there are.
LEMMA ChainDo ==
  ASSUME NEW f \in [Roles -> Roles \cup {NoRole}], NEW r \in Roles
  PROVE  R!Chain(f, r) \in Seq(Roles) /\ Len(R!Chain(f, r)) <= Count
<1>. DEFINE v == CHOOSE w : Walk(f, r, Count, w)
<1>1. Walk(f, r, Count, v)
  BY Counted, WalkExists
<1>2. R!Chain(f, r) = v[Count]
  BY DEF R!Chain, Walk, Pass, Count
<1>. HIDE DEF v
<1>. QED
  BY <1>1, <1>2, Counted, WalkDo

-----------------------------------------------------------------------------
(* The router.                                                             *)

Buildable == {"ollama", "gemini", "openai", "anthropic"}

\* No client was made of a class that cannot be.
Made == \A c \in Callers : \A i \in 1 .. Len(chain[c]) : KindOf[ProviderOf[chain[c][i]]] \in Buildable

\* A caller that holds a client has a chain, and a walk is within it.
Placed ==
  \A c \in Callers :
    /\ at[c] \in {"held"} \cup R!Methods => Len(chain[c]) > 0
    /\ at[c] \in R!Methods => pos[c] \in 1 .. Len(chain[c])

Bounded == \A c \in Callers : Len(links[c]) + Len(chain[c]) <= Count

DownIsExcused == Providers \ alive \subseteq excused

CallersInv ==
  /\ at \in [Callers -> {"idle", "build", "held"} \cup R!Methods]
  /\ links \in [Callers -> Seq(Roles)] /\ chain \in [Callers -> Seq(Roles)]
  /\ pos \in [Callers -> 0 .. Count] /\ served \in [Callers -> Roles \cup {NoRole}]
  /\ Made /\ Placed /\ Bounded

CircuitRow == [state : {"closed", "open", "half_open"}, failures : 0 .. FailureThreshold,
               wins : 0 .. Wins, waited : BOOLEAN]

CircuitsInv ==
  /\ circuit \in [Providers -> CircuitRow]
  /\ alive \subseteq Providers /\ excused \subseteq Providers
  /\ DownIsExcused /\ R!NoWrongBlame

CountsTyped ==
  /\ fallback \in Configs /\ asked \in [Callers -> Roles \cup {Unknown, NoRole}]
  /\ downs \in 0 .. MaxDowns /\ odd \in 0 .. MaxOdd

RouterInv == CallersInv /\ CircuitsInv /\ CountsTyped

LEMMA RouterAtFirst == R!Init => RouterInv
<1>. SUFFICES ASSUME R!Init PROVE RouterInv
  OBVIOUS
<1>. USE OutsideAssumption, Counted
<1>1. Made /\ Placed
  BY DEF R!Init, Made, Placed, R!Methods
<1>2. Bounded
  BY DEF R!Init, Bounded
<1>3. CallersInv
  BY <1>1, <1>2 DEF R!Init, CallersInv
<1>4. CircuitsInv
  BY DEF R!Init, CircuitsInv, DownIsExcused, R!NoWrongBlame, R!Fresh, CircuitRow
<1>5. CountsTyped
  BY DEF R!Init, CountsTyped
<1>. QED
  BY <1>3, <1>4, <1>5 DEF RouterInv

LEMMA RowDo ==
  ASSUME NEW r \in CircuitRow
  PROVE  /\ R!Won(r) \in CircuitRow /\ R!Lost(r) \in CircuitRow
         /\ r.state = "closed" => R!Won(r).state = "closed"
         /\ [r EXCEPT !.state = "half_open"] \in CircuitRow
         /\ [r EXCEPT !.waited = TRUE] \in CircuitRow
<1>. FailureThreshold \in Nat /\ Wins \in Nat
  BY OutsideAssumption
<1>1. /\ r.failures \in 0 .. FailureThreshold /\ r.wins \in 0 .. Wins
      /\ r.state \in {"closed", "open", "half_open"}
  BY DEF CircuitRow
<1>2. R!Fresh \in CircuitRow
  BY DEF R!Fresh, CircuitRow
<1>3. [r EXCEPT !.failures = 0] \in CircuitRow /\ [r EXCEPT !.failures = 0].state = r.state
  BY DEF CircuitRow
<1>4. ASSUME ~ (r.wins + 1 >= Wins) PROVE [r EXCEPT !.wins = @ + 1] \in CircuitRow
  <2>1. r.wins + 1 \in 0 .. Wins
    BY <1>1, <1>4
  <2>. QED
    BY <2>1 DEF CircuitRow
<1>5. R!Won(r) \in CircuitRow /\ (r.state = "closed" => R!Won(r).state = "closed")
  <2>1. CASE r.state = "closed"
    BY <1>3, <2>1 DEF R!Won
  <2>2. CASE r.state = "half_open" /\ r.wins + 1 >= Wins
    <3>1. R!Won(r) = R!Fresh
      BY <1>1, <2>2 DEF R!Won
    <3>. QED
      BY <1>2, <2>2, <3>1
  <2>3. CASE r.state = "half_open" /\ ~ (r.wins + 1 >= Wins)
    BY <1>1, <1>4, <2>3 DEF R!Won
  <2>4. CASE r.state = "open"
    BY <2>4 DEF R!Won
  <2>. QED
    BY <1>1, <2>1, <2>2, <2>3, <2>4
<1>. DEFINE n == IF r.failures < FailureThreshold THEN r.failures + 1 ELSE FailureThreshold
<1>6. n \in 0 .. FailureThreshold
  BY <1>1
<1>7. \/ R!Lost(r) = [r EXCEPT !.state = "open", !.failures = n, !.waited = FALSE]
      \/ R!Lost(r) = [r EXCEPT !.failures = n]
  BY DEF R!Lost
<1>. HIDE DEF n
<1>8. R!Lost(r) \in CircuitRow
  BY <1>6, <1>7 DEF CircuitRow
<1>. QED
  BY <1>5, <1>8 DEF CircuitRow

\* What a call ends in is known of the clients that are made.
LEMMA MayDo ==
  ASSUME NEW p, KindOf[p] \in Buildable, NEW m PROVE R!May(p, m) \subseteq {"ok", "parse", "raised"}
  BY DEF Buildable, R!May, R!OllamaMay, R!GeminiMay, R!OpenAIMay, R!AnthropicMay

\* What an attempt may come to.
Outcomes == {"ok", "parse", "down", "raised"}

LEMMA RecordDo ==
  ASSUME NEW r \in CircuitRow, NEW o \in Outcomes
  PROVE  /\ R!Record(r, o) \in CircuitRow
         /\ o \in {"ok", "parse"} => (r.state = "closed" => R!Record(r, o).state = "closed")
  BY RowDo DEF Outcomes, R!Record

\* What a caller may be, and a step that makes it so.
Fit(a, ls, ch, n, s) ==
  /\ a \in {"idle", "build", "held"} \cup R!Methods /\ ls \in Seq(Roles) /\ ch \in Seq(Roles)
  /\ n \in 0 .. Count /\ s \in Roles \cup {NoRole} /\ Len(ls) + Len(ch) <= Count
  /\ \A i \in 1 .. Len(ch) : KindOf[ProviderOf[ch[i]]] \in Buildable
  /\ a \in {"held"} \cup R!Methods => Len(ch) > 0
  /\ a \in R!Methods => n \in 1 .. Len(ch)

Becomes(c, a, ls, ch, n, s) ==
  /\ at' = [at EXCEPT ![c] = a] /\ links' = [links EXCEPT ![c] = ls] /\ chain' = [chain EXCEPT ![c] = ch]
  /\ pos' = [pos EXCEPT ![c] = n] /\ served' = [served EXCEPT ![c] = s]

LEMMA CallerMoves ==
  ASSUME CallersInv, NEW c \in Callers, NEW a, NEW ls, NEW ch, NEW n, NEW s,
         Fit(a, ls, ch, n, s), Becomes(c, a, ls, ch, n, s)
  PROVE  CallersInv'
<1>. USE DEF Fit, Becomes
<1>. /\ at \in [Callers -> {"idle", "build", "held"} \cup R!Methods]
     /\ links \in [Callers -> Seq(Roles)] /\ chain \in [Callers -> Seq(Roles)]
     /\ pos \in [Callers -> 0 .. Count] /\ served \in [Callers -> Roles \cup {NoRole}]
  BY DEF CallersInv
<1>1. /\ at' \in [Callers -> {"idle", "build", "held"} \cup R!Methods]
      /\ links' \in [Callers -> Seq(Roles)] /\ chain' \in [Callers -> Seq(Roles)]
      /\ pos' \in [Callers -> 0 .. Count] /\ served' \in [Callers -> Roles \cup {NoRole}]
  OBVIOUS
<1>2. /\ at'[c] = a /\ links'[c] = ls /\ chain'[c] = ch /\ pos'[c] = n
      /\ \A d \in Callers \ {c} : /\ at'[d] = at[d] /\ links'[d] = links[d]
                                  /\ chain'[d] = chain[d] /\ pos'[d] = pos[d]
  OBVIOUS
<1>3. Made'
  BY <1>2 DEF CallersInv, Made
<1>4. Placed'
  BY <1>2 DEF CallersInv, Placed
<1>5. Bounded'
  BY <1>2 DEF CallersInv, Bounded
<1>. QED
  BY <1>1, <1>3, <1>4, <1>5 DEF CallersInv

\* A caller as it stands, which what a step leaves alone is read off.
Fits(c) ==
  /\ at[c] \in {"idle", "build", "held"} \cup R!Methods /\ at = [at EXCEPT ![c] = at[c]]
  /\ links[c] \in Seq(Roles) /\ links = [links EXCEPT ![c] = links[c]]
  /\ chain[c] \in Seq(Roles) /\ chain = [chain EXCEPT ![c] = chain[c]]
  /\ pos[c] \in 0 .. Count /\ pos = [pos EXCEPT ![c] = pos[c]]
  /\ served[c] \in Roles \cup {NoRole} /\ served = [served EXCEPT ![c] = served[c]]
  /\ Len(links[c]) \in Nat /\ Len(chain[c]) \in Nat /\ Count \in Nat \ {0}
  /\ Len(links[c]) + Len(chain[c]) <= Count
  /\ \A i \in 1 .. Len(chain[c]) : KindOf[ProviderOf[chain[c][i]]] \in Buildable
  /\ at[c] \in {"held"} \cup R!Methods => Len(chain[c]) > 0
  /\ at[c] \in R!Methods => pos[c] \in 1 .. Len(chain[c])

LEMMA Caller == ASSUME CallersInv, NEW c \in Callers PROVE Fits(c)
<1>. /\ at \in [Callers -> {"idle", "build", "held"} \cup R!Methods]
     /\ links \in [Callers -> Seq(Roles)] /\ chain \in [Callers -> Seq(Roles)]
     /\ pos \in [Callers -> 0 .. Count] /\ served \in [Callers -> Roles \cup {NoRole}]
  BY DEF CallersInv
<1>1. /\ at = [at EXCEPT ![c] = at[c]] /\ links = [links EXCEPT ![c] = links[c]]
      /\ chain = [chain EXCEPT ![c] = chain[c]] /\ pos = [pos EXCEPT ![c] = pos[c]]
      /\ served = [served EXCEPT ![c] = served[c]]
  OBVIOUS
<1>2. /\ Len(links[c]) + Len(chain[c]) <= Count
      /\ \A i \in 1 .. Len(chain[c]) : KindOf[ProviderOf[chain[c][i]]] \in Buildable
      /\ at[c] \in {"held"} \cup R!Methods => Len(chain[c]) > 0
      /\ at[c] \in R!Methods => pos[c] \in 1 .. Len(chain[c])
  BY DEF CallersInv, Bounded, Made, Placed
<1>. QED
  BY <1>1, <1>2, Counted DEF Fits

\* The effort that is asked for has a chain.
LEMMA LinksDo ==
  ASSUME fallback \in Configs, NEW e PROVE R!Links(e) \in Seq(Roles) /\ Len(R!Links(e)) <= Count
<1>1. R!Resolved(e) \in Roles
  BY OutsideAssumption DEF R!Resolved
<1>2. fallback \in [Roles -> Roles \cup {NoRole}]
  BY OutsideAssumption
<1>3. CASE e \notin Roles /\ Think \notin Roles
  <2>1. R!Links(e) = <<R!Resolved(e)>>
    BY <1>3 DEF R!Links
  <2>2. <<R!Resolved(e)>> \in Seq(Roles) /\ Len(<<R!Resolved(e)>>) = 1
    BY <1>1
  <2>. QED
    BY <2>1, <2>2, Counted
<1>4. CASE ~ (e \notin Roles /\ Think \notin Roles)
  BY <1>1, <1>2, <1>4, ChainDo DEF R!Links
<1>. QED
  BY <1>3, <1>4

LEMMA AskKeeps ==
  ASSUME RouterInv, NEW c \in Callers, R!Ask(c) PROVE RouterInv'
<1>. CallersInv /\ CircuitsInv /\ CountsTyped
  BY DEF RouterInv
<1>. Fits(c)
  BY Caller
<1>. USE DEF Fits
<1>1. PICK e \in Roles \cup {Unknown} :
        /\ at' = [at EXCEPT ![c] = "build"] /\ asked' = [asked EXCEPT ![c] = e]
        /\ links' = [links EXCEPT ![c] = R!Links(e)] /\ chain' = [chain EXCEPT ![c] = <<>>]
        /\ served' = [served EXCEPT ![c] = NoRole] /\ pos' = pos
        /\ UNCHANGED <<fallback, circuit, alive, excused, downs, odd>>
  BY DEF R!Ask
<1>2. R!Links(e) \in Seq(Roles) /\ Len(R!Links(e)) <= Count
  BY LinksDo DEF CountsTyped
<1>. DEFINE ls == R!Links(e)
<1>. HIDE DEF ls
<1>3. ls \in Seq(Roles) /\ Len(ls) <= Count /\ links' = [links EXCEPT ![c] = ls]
  BY <1>1, <1>2 DEF ls
<1>4. Len(ls) + Len(<<>>) <= Count /\ <<>> \in Seq(Roles) /\ 1 .. Len(<<>>) = {}
  BY <1>3
<1>5. pos' = [pos EXCEPT ![c] = pos[c]] /\ pos[c] \in 0 .. Count
  BY <1>1
<1>6. "build" \notin {"held"} \cup R!Methods
  BY DEF R!Methods
<1>7. CallersInv'
  <2>1. Fit("build", ls, <<>>, pos[c], NoRole)
    BY <1>3, <1>4, <1>5, <1>6 DEF Fit
  <2>2. Becomes(c, "build", ls, <<>>, pos[c], NoRole)
    BY <1>1, <1>3, <1>5 DEF Becomes
  <2>. QED
    BY <2>1, <2>2, CallerMoves
<1>8. CircuitsInv'
  BY <1>1 DEF CircuitsInv, DownIsExcused, R!NoWrongBlame
<1>9. CountsTyped'
  BY <1>1 DEF CountsTyped
<1>. QED
  BY <1>7, <1>8, <1>9 DEF RouterInv

Building(c) == at[c] = "build"

\* What becomes of a caller that takes the next role, or gives up.
LEMMA TakeKeeps ==
  ASSUME CallersInv, NEW c \in Callers, links[c] # <<>>,
         Building(c), links' = [links EXCEPT ![c] = Tail(@)],
         \/ chain' = chain
         \/ /\ KindOf[ProviderOf[Head(links[c])]] \in Buildable
            /\ chain' = [chain EXCEPT ![c] = Append(@, Head(links[c]))],
         UNCHANGED <<at, pos, served>>
  PROVE  CallersInv'
<1>0. Fits(c)
  BY Caller
<1>. DEFINE h == Head(links[c])
            ls == Tail(links[c])
<1>1. h \in Roles /\ ls \in Seq(Roles) /\ Len(ls) = Len(links[c]) - 1
  BY <1>0 DEF Fits
<1>2. /\ links' = [links EXCEPT ![c] = ls]
      /\ at' = [at EXCEPT ![c] = "build"] /\ pos' = [pos EXCEPT ![c] = pos[c]]
      /\ served' = [served EXCEPT ![c] = served[c]]
  BY <1>0 DEF Fits, Building
<1>3. /\ chain[c] \in Seq(Roles) /\ pos[c] \in 0 .. Count /\ served[c] \in Roles \cup {NoRole}
      /\ \A i \in 1 .. Len(chain[c]) : KindOf[ProviderOf[chain[c][i]]] \in Buildable
  BY <1>0 DEF Fits
<1>4. /\ Len(links[c]) \in Nat /\ Len(chain[c]) \in Nat /\ Count \in Nat
      /\ Len(links[c]) + Len(chain[c]) <= Count
  BY <1>0 DEF Fits
<1>. HIDE DEF h, ls
<1>5. PICK ch \in Seq(Roles) :
        /\ chain' = [chain EXCEPT ![c] = ch] /\ Len(ch) <= Len(chain[c]) + 1
        /\ \A i \in 1 .. Len(ch) : KindOf[ProviderOf[ch[i]]] \in Buildable
  <2>1. CASE chain' = chain
    <3>1. chain' = [chain EXCEPT ![c] = chain[c]]
      BY <1>0, <2>1 DEF Fits
    <3>2. Len(chain[c]) <= Len(chain[c]) + 1
      BY <1>4
    <3>. QED
      BY <1>3, <3>1, <3>2
  <2>2. CASE /\ KindOf[ProviderOf[h]] \in Buildable
             /\ chain' = [chain EXCEPT ![c] = Append(@, h)]
    <3>1. Append(chain[c], h) \in Seq(Roles) /\ Len(Append(chain[c], h)) = Len(chain[c]) + 1
      BY <1>1, <1>3
    <3>2. ASSUME NEW i \in 1 .. Len(chain[c]) + 1
          PROVE  KindOf[ProviderOf[Append(chain[c], h)[i]]] \in Buildable
      <4>1. CASE i = Len(chain[c]) + 1
        BY <1>1, <1>3, <2>2, <4>1
      <4>2. CASE i # Len(chain[c]) + 1
        <5>1. i \in 1 .. Len(chain[c])
          BY <1>4, <4>2
        <5>2. Append(chain[c], h)[i] = chain[c][i]
          BY <1>1, <1>3, <5>1
        <5>. QED
          BY <1>3, <5>1, <5>2
      <4>. QED
        BY <4>1, <4>2
    <3>3. Len(chain[c]) + 1 <= Len(chain[c]) + 1
      BY <1>4
    <3>. QED
      BY <2>2, <3>1, <3>2, <3>3
  <2>. QED
    BY <2>1, <2>2 DEF h
<1>6. Len(ch) \in Nat
  OBVIOUS
<1>7. Len(ls) + Len(ch) <= Count
  <2>. DEFINE a == Len(ls)
              b == Len(ch)
              x == Len(links[c])
              y == Len(chain[c])
  <2>1. a \in Nat /\ b \in Nat /\ x \in Nat /\ y \in Nat /\ Count \in Nat
    BY <1>1, <1>4, <1>6
  <2>2. a = x - 1 /\ b <= y + 1 /\ x + y <= Count
    BY <1>1, <1>4, <1>5
  <2>. HIDE DEF a, b, x, y
  <2>3. a + b <= Count
    BY <2>1, <2>2
  <2>. QED
    BY <2>3 DEF a, b
<1>8. Fit("build", ls, ch, pos[c], served[c])
  BY <1>1, <1>3, <1>5, <1>7 DEF Fit, R!Methods
<1>9. Becomes(c, "build", ls, ch, pos[c], served[c])
  BY <1>2, <1>5 DEF Becomes
<1>. QED
  BY <1>8, <1>9, CallerMoves

LEMMA GiveUpKeeps ==
  ASSUME CallersInv, NEW c \in Callers, R!GiveUp(c) PROVE CallersInv'
<1>. Fits(c)
  BY Caller
<1>. USE DEF Fits
<1>1. /\ at' = [at EXCEPT ![c] = "idle"] /\ links' = [links EXCEPT ![c] = <<>>]
      /\ chain' = [chain EXCEPT ![c] = <<>>]
      /\ pos' = [pos EXCEPT ![c] = pos[c]] /\ served' = [served EXCEPT ![c] = served[c]]
  BY DEF R!GiveUp
<1>2. Len(<<>>) + Len(<<>>) <= Count /\ <<>> \in Seq(Roles) /\ 1 .. Len(<<>>) = {}
  OBVIOUS
<1>3. Fit("idle", <<>>, <<>>, pos[c], served[c])
  BY <1>2 DEF Fit, R!Methods
<1>4. Becomes(c, "idle", <<>>, <<>>, pos[c], served[c])
  BY <1>1 DEF Becomes
<1>. QED
  BY <1>3, <1>4, CallerMoves

\* Of the circuits: what a step does to one of them.
LEMMA CircuitMoves ==
  ASSUME CircuitsInv, NEW p \in Providers, NEW r \in CircuitRow,
         circuit' = [circuit EXCEPT ![p] = r], alive' = alive,
         excused' \subseteq Providers, excused \subseteq excused',
         r.state # "closed" => circuit[p].state # "closed" \/ p \in excused'
  PROVE  CircuitsInv'
<1>. circuit \in [Providers -> CircuitRow]
  BY DEF CircuitsInv
<1>1. circuit' \in [Providers -> CircuitRow]
  OBVIOUS
<1>2. circuit'[p] = r /\ \A q \in Providers \ {p} : circuit'[q] = circuit[q]
  OBVIOUS
<1>3. R!NoWrongBlame'
  BY <1>2 DEF CircuitsInv, R!NoWrongBlame
<1>. QED
  BY <1>1, <1>3 DEF CircuitsInv, DownIsExcused

LEMMA CircuitsStay ==
  ASSUME CircuitsInv, UNCHANGED <<circuit, alive, excused>> PROVE CircuitsInv'
  BY DEF CircuitsInv, DownIsExcused, R!NoWrongBlame

LEMMA OddDo == ASSUME odd \in 0 .. MaxOdd, R!Odd PROVE odd' \in 0 .. MaxOdd
  BY OutsideAssumption DEF R!Odd

\* Tried leaves a circuit that was closed closed.
LEMMA TriedDo ==
  ASSUME CircuitsInv, NEW p \in Providers, circuit' = [circuit EXCEPT ![p] = R!Tried(p)],
         UNCHANGED <<alive, excused>>
  PROVE  CircuitsInv'
<1>. circuit[p] \in CircuitRow /\ excused \subseteq Providers
  BY DEF CircuitsInv
<1>1. R!Tried(p) \in CircuitRow
  BY RowDo DEF R!Tried
<1>2. R!Tried(p).state # "closed" => circuit[p].state # "closed" \/ p \in excused'
  BY DEF R!Tried, CircuitRow
<1>. QED
  BY <1>1, <1>2, CircuitMoves

LEMMA BuildKeeps ==
  ASSUME RouterInv, NEW c \in Callers, R!Build(c) PROVE RouterInv'
<1>. CallersInv /\ CircuitsInv /\ CountsTyped
  BY DEF RouterInv
<1>. DEFINE p == ProviderOf[Head(links[c])]
<1>0. Building(c) /\ links[c] # <<>> /\ UNCHANGED <<fallback, alive, asked, excused, downs>>
  BY DEF R!Build, Building
<1>1. p \in Providers /\ KindOf[p] \in R!Kinds
  <2>1. links[c] \in Seq(Roles)
    BY Caller DEF Fits
  <2>2. Head(links[c]) \in Roles
    BY <1>0, <2>1
  <2>. QED
    BY <2>2, OutsideAssumption
<1>2. UNCHANGED circuit \/ circuit' = [circuit EXCEPT ![p] = R!Tried(p)]
  BY DEF R!Build
<1>3. UNCHANGED odd \/ R!Odd
  BY DEF R!Build
<1>4. \/ R!GiveUp(c)
      \/ /\ links' = [links EXCEPT ![c] = Tail(@)] /\ UNCHANGED <<at, pos, served>>
         /\ \/ chain' = chain
            \/ /\ ~R!Raises(p) /\ ~R!Missing(p)
               /\ chain' = [chain EXCEPT ![c] = Append(@, Head(links[c]))]
  BY DEF R!Build
<1>5. ~R!Raises(p) => KindOf[p] \in Buildable
  BY <1>1 DEF R!Raises, R!Kinds, Buildable
<1>6. CallersInv'
  BY <1>0, <1>4, <1>5, TakeKeeps, GiveUpKeeps
<1>7. CircuitsInv'
  BY <1>0, <1>1, <1>2, TriedDo, CircuitsStay
<1>8. CountsTyped'
  BY <1>0, <1>3, OddDo DEF CountsTyped
<1>. QED
  BY <1>6, <1>7, <1>8 DEF RouterInv

LEMMA BuiltKeeps ==
  ASSUME RouterInv, NEW c \in Callers, R!Built(c) PROVE RouterInv'
<1>. CallersInv /\ CircuitsInv /\ CountsTyped
  BY DEF RouterInv
<1>0. Fits(c)
  BY Caller
<1>1. CallersInv'
  <2>1. CASE chain[c] = <<>>
    BY <2>1, GiveUpKeeps DEF R!Built
  <2>2. CASE chain[c] # <<>>
    <3>1. at' = [at EXCEPT ![c] = "held"] /\ UNCHANGED <<links, chain, pos, served>>
      BY <2>2 DEF R!Built
    <3>2. Len(chain[c]) > 0
      BY <1>0, <2>2 DEF Fits
    <3>3. Fit("held", links[c], chain[c], pos[c], served[c])
      BY <1>0, <3>2 DEF Fit, Fits, R!Methods
    <3>4. Becomes(c, "held", links[c], chain[c], pos[c], served[c])
      BY <1>0, <3>1 DEF Becomes, Fits
    <3>. QED
      BY <3>3, <3>4, CallerMoves
  <2>. QED
    BY <2>1, <2>2
<1>2. CircuitsInv'
  BY CircuitsStay DEF R!Built
<1>3. CountsTyped'
  BY DEF R!Built, CountsTyped
<1>. QED
  BY <1>1, <1>2, <1>3 DEF RouterInv

LEMMA CallKeeps ==
  ASSUME RouterInv, NEW c \in Callers, R!Call(c) PROVE RouterInv'
<1>. CallersInv /\ CircuitsInv /\ CountsTyped
  BY DEF RouterInv
<1>0. Fits(c)
  BY Caller
<1>1. PICK m \in R!Methods :
        at[c] = "held" /\ at' = [at EXCEPT ![c] = m] /\ pos' = [pos EXCEPT ![c] = 1]
  BY DEF R!Call
<1>2. UNCHANGED <<fallback, circuit, alive, asked, links, chain, served, excused, downs, odd>>
  BY DEF R!Call
<1>3. Len(chain[c]) > 0 /\ Len(chain[c]) \in Nat
  BY <1>0, <1>1 DEF Fits
<1>4. 1 \in 1 .. Len(chain[c]) /\ 1 \in 0 .. Count
  BY <1>3, Counted
<1>5. Fit(m, links[c], chain[c], 1, served[c])
  BY <1>0, <1>3, <1>4 DEF Fit, Fits
<1>6. Becomes(c, m, links[c], chain[c], 1, served[c])
  BY <1>0, <1>1, <1>2 DEF Becomes, Fits
<1>7. CallersInv'
  BY <1>5, <1>6, CallerMoves
<1>8. CircuitsInv'
  BY <1>2, CircuitsStay
<1>9. CountsTyped'
  BY <1>2 DEF CountsTyped
<1>. QED
  BY <1>7, <1>8, <1>9 DEF RouterInv

LEMMA DropKeeps ==
  ASSUME RouterInv, NEW c \in Callers, R!Drop(c) PROVE RouterInv'
<1>. CallersInv /\ CircuitsInv /\ CountsTyped
  BY DEF RouterInv
<1>0. Fits(c)
  BY Caller
<1>1. Len(links[c]) + Len(<<>>) <= Count /\ <<>> \in Seq(Roles) /\ 1 .. Len(<<>>) = {}
  <2>. DEFINE x == Len(links[c])
              y == Len(chain[c])
  <2>1. x \in Nat /\ y \in Nat /\ x + y <= Count /\ Count \in Nat
    BY <1>0 DEF Fits
  <2>. HIDE DEF x, y
  <2>2. x + 0 <= Count
    BY <2>1
  <2>. QED
    BY <2>2 DEF x
<1>2. Fit("idle", links[c], <<>>, pos[c], NoRole)
  BY <1>0, <1>1 DEF Fit, Fits, R!Methods
<1>3. Becomes(c, "idle", links[c], <<>>, pos[c], NoRole)
  BY <1>0 DEF R!Drop, Becomes, Fits
<1>4. CallersInv'
  BY <1>2, <1>3, CallerMoves
<1>5. CircuitsInv'
  BY CircuitsStay DEF R!Drop
<1>6. CountsTyped'
  BY DEF R!Drop, CountsTyped
<1>. QED
  BY <1>4, <1>5, <1>6 DEF RouterInv

LEMMA WaitKeeps ==
  ASSUME RouterInv, NEW p \in Providers, R!Wait(p) PROVE RouterInv'
<1>. CallersInv /\ CircuitsInv /\ CountsTyped
  BY DEF RouterInv
<1>1. circuit[p] \in CircuitRow /\ excused \subseteq Providers
  BY DEF CircuitsInv
<1>2. circuit' = [circuit EXCEPT ![p] = [circuit[p] EXCEPT !.waited = TRUE]] /\ circuit[p].state # "closed"
  BY DEF R!Wait, R!Blocked
<1>3. CircuitsInv'
  BY <1>1, <1>2, RowDo, CircuitMoves DEF R!Wait
<1>4. CallersInv'
  BY DEF R!Wait, CallersInv, Made, Placed, Bounded
<1>5. CountsTyped'
  BY DEF R!Wait, CountsTyped
<1>. QED
  BY <1>3, <1>4, <1>5 DEF RouterInv

LEMMA FlipKeeps ==
  ASSUME RouterInv, NEW p \in Providers, R!Flip(p) PROVE RouterInv'
<1>. CallersInv /\ CircuitsInv /\ CountsTyped
  BY DEF RouterInv
<1>1. CircuitsInv'
  BY DEF R!Flip, CircuitsInv, DownIsExcused, R!NoWrongBlame
<1>2. CallersInv'
  BY DEF R!Flip, CallersInv, Made, Placed, Bounded
<1>3. CountsTyped'
  BY OutsideAssumption DEF R!Flip, CountsTyped
<1>. QED
  BY <1>1, <1>2, <1>3 DEF RouterInv

\* What an attempt comes to: the circuit, the caller, who is excused.
Ended(c, p, o) ==
  /\ o \in Outcomes /\ circuit' = [circuit EXCEPT ![p] = R!Record(@, o)] /\ R!Walk(c, o)
  /\ excused' = excused \/ excused' = excused \cup {p}
  /\ o \in {"down", "raised"} => p \in excused'
  /\ UNCHANGED odd \/ R!Odd

LEMMA AttemptEnds ==
  ASSUME RouterInv, NEW c \in Callers, R!Attempt(c)
  PROVE  \E p \in Providers : \E o : Ended(c, p, o)
<1>. CallersInv /\ CircuitsInv /\ CountsTyped
  BY DEF RouterInv
<1>0. Fits(c)
  BY Caller
<1>. DEFINE p == ProviderOf[chain[c][pos[c]]]
<1>1. /\ at[c] \in R!Methods /\ pos[c] \in 1 .. Len(chain[c]) /\ chain[c] \in Seq(Roles)
  BY <1>0 DEF Fits, R!Attempt
<1>2. KindOf[p] \in Buildable
  BY <1>0, <1>1 DEF Fits
<1>3. p \in Providers
  BY <1>1, OutsideAssumption
<1>4. p \notin alive => p \in excused
  BY <1>3 DEF CircuitsInv, DownIsExcused
<1>5. R!May(p, at[c]) \subseteq {"ok", "parse", "raised"}
  BY <1>2, MayDo
<1>. DEFINE Ends(o) == circuit' = [circuit EXCEPT ![p] = R!Record(@, o)] /\ R!Walk(c, o)
<1>6. \/ Ends("raised") /\ excused' = excused \cup {p} /\ UNCHANGED odd
      \/ p \notin alive /\ Ends("down") /\ UNCHANGED <<excused, odd>>
      \/ Ends("ok") /\ UNCHANGED <<excused, odd>>
      \/ Ends("parse") /\ R!Odd /\ UNCHANGED excused
      \/ \E o \in {"down"} \cup (R!May(p, at[c]) \ {"ok", "parse"}) :
           Ends(o) /\ R!Odd /\ excused' = excused \cup {p}
  BY DEF R!Attempt
<1>. HIDE DEF p
<1>7. CASE Ends("raised") /\ excused' = excused \cup {p} /\ UNCHANGED odd
  <2>1. Ended(c, p, "raised")
    BY <1>7 DEF Ended, Outcomes
  <2>. QED
    BY <1>3, <2>1
<1>8. CASE p \notin alive /\ Ends("down") /\ UNCHANGED <<excused, odd>>
  <2>1. Ended(c, p, "down")
    BY <1>4, <1>8 DEF Ended, Outcomes
  <2>. QED
    BY <1>3, <2>1
<1>9. CASE Ends("ok") /\ UNCHANGED <<excused, odd>>
  <2>1. Ended(c, p, "ok")
    BY <1>9 DEF Ended, Outcomes
  <2>. QED
    BY <1>3, <2>1
<1>10. CASE Ends("parse") /\ R!Odd /\ UNCHANGED excused
  <2>1. Ended(c, p, "parse")
    BY <1>10 DEF Ended, Outcomes
  <2>. QED
    BY <1>3, <2>1
<1>11. ASSUME NEW o \in {"down"} \cup (R!May(p, at[c]) \ {"ok", "parse"}),
              Ends(o) /\ R!Odd /\ excused' = excused \cup {p}
       PROVE  Ended(c, p, o)
  <2>1. o \in {"down", "raised"}
    BY <1>5, <1>11
  <2>. QED
    BY <1>11, <2>1 DEF Ended, Outcomes
<1>. QED
  BY <1>3, <1>6, <1>7, <1>8, <1>9, <1>10, <1>11

\* A walk stays within its chain, and serves by one of its roles.
LEMMA WalkKeeps ==
  ASSUME CallersInv, NEW c \in Callers, at[c] \in R!Methods, NEW o, R!Walk(c, o), UNCHANGED <<links, chain>>
  PROVE  CallersInv'
<1>0. Fits(c)
  BY Caller
<1>. DEFINE y == Len(chain[c])
<1>1. /\ pos[c] \in 1 .. y /\ y \in Nat /\ y > 0 /\ chain[c] \in Seq(Roles) /\ Count \in Nat
      /\ y <= Count /\ chain[c][pos[c]] \in Roles
  <2>1. pos[c] \in 1 .. y /\ y \in Nat /\ chain[c] \in Seq(Roles) /\ Count \in Nat
    BY <1>0 DEF Fits
  <2>. DEFINE x == Len(links[c])
  <2>2. x \in Nat /\ x + y <= Count
    BY <1>0 DEF Fits
  <2>3. chain[c][pos[c]] \in Roles
    BY <2>1
  <2>. HIDE DEF x, y
  <2>. QED
    BY <2>1, <2>2, <2>3
<1>. HIDE DEF y
<1>2. 0 \in 0 .. Count /\ (pos[c] < y => pos[c] + 1 \in 0 .. Count /\ pos[c] + 1 \in 1 .. y)
  BY <1>1
<1>3. /\ Fit("held", links[c], chain[c], 0, served[c])
      /\ Fit("held", links[c], chain[c], 0, chain[c][pos[c]])
      /\ pos[c] < y => Fit(at[c], links[c], chain[c], pos[c] + 1, served[c])
  BY <1>0, <1>1, <1>2 DEF Fit, Fits, R!Methods, y
<1>4. links' = [links EXCEPT ![c] = links[c]] /\ chain' = [chain EXCEPT ![c] = chain[c]]
  BY <1>0 DEF Fits
<1>5. CASE o = "ok"
  <2>1. Becomes(c, "held", links[c], chain[c], 0, chain[c][pos[c]])
    BY <1>4, <1>5 DEF R!Walk, Becomes
  <2>. QED
    BY <1>3, <2>1, CallerMoves
<1>6. CASE o # "ok" /\ o \in {"down", "parse"} /\ pos[c] < y
  <2>1. Becomes(c, at[c], links[c], chain[c], pos[c] + 1, served[c])
    BY <1>0, <1>4, <1>6 DEF R!Walk, Becomes, Fits, y
  <2>. QED
    BY <1>3, <1>6, <2>1, CallerMoves
<1>7. CASE o # "ok" /\ ~ (o \in {"down", "parse"} /\ pos[c] < y)
  <2>1. Becomes(c, "held", links[c], chain[c], 0, served[c])
    BY <1>0, <1>4, <1>7 DEF R!Walk, Becomes, Fits, y
  <2>. QED
    BY <1>3, <2>1, CallerMoves
<1>. QED
  BY <1>5, <1>6, <1>7

LEMMA AttemptKeeps ==
  ASSUME RouterInv, NEW c \in Callers, R!Attempt(c) PROVE RouterInv'
<1>. CallersInv /\ CircuitsInv /\ CountsTyped
  BY DEF RouterInv
<1>1. at[c] \in R!Methods /\ UNCHANGED <<fallback, alive, asked, links, chain, downs>>
  BY DEF R!Attempt
<1>2. PICK p \in Providers : \E o : Ended(c, p, o)
  BY AttemptEnds
<1>3. PICK o : Ended(c, p, o)
  BY <1>2
<1>4. CallersInv'
  BY <1>1, <1>3, WalkKeeps DEF Ended
<1>5. CircuitsInv'
  <2>. DEFINE r == R!Record(circuit[p], o)
  <2>1. circuit[p] \in CircuitRow /\ excused \subseteq Providers
    BY DEF CircuitsInv
  <2>2. r \in CircuitRow /\ (o \in {"ok", "parse"} => (circuit[p].state = "closed" => r.state = "closed"))
    BY <1>3, <2>1, RecordDo DEF Ended
  <2>3. /\ circuit' = [circuit EXCEPT ![p] = r] /\ excused' \subseteq Providers /\ excused \subseteq excused'
        /\ o \in {"down", "raised"} => p \in excused'
    BY <1>3, <2>1 DEF Ended
  <2>4. o \in {"ok", "parse"} \/ o \in {"down", "raised"}
    BY <1>3 DEF Ended, Outcomes
  <2>. HIDE DEF r
  <2>5. r.state # "closed" => circuit[p].state # "closed" \/ p \in excused'
    BY <2>2, <2>3, <2>4
  <2>. QED
    BY <1>1, <2>2, <2>3, <2>5, CircuitMoves
<1>6. CountsTyped'
  BY <1>1, <1>3, OddDo DEF CountsTyped, Ended
<1>. QED
  BY <1>4, <1>5, <1>6 DEF RouterInv

\* The router, whoever moves.
LEMMA RouterKeeps == RouterInv /\ (R!Next \/ UNCHANGED router) => RouterInv'
<1>. SUFFICES ASSUME RouterInv, R!Next \/ UNCHANGED router PROVE RouterInv'
  OBVIOUS
<1>1. CASE UNCHANGED router
  <2>1. CallersInv' /\ CircuitsInv' /\ CountsTyped'
    BY <1>1 DEF router, RouterInv, CallersInv, Made, Placed, Bounded, CircuitsInv, DownIsExcused,
                R!NoWrongBlame, CountsTyped
  <2>. QED
    BY <2>1 DEF RouterInv
<1>2. CASE R!Next
  BY <1>2, AskKeeps, BuildKeeps, BuiltKeeps, AttemptKeeps, CallKeeps, DropKeeps, WaitKeeps, FlipKeeps
     DEF R!Next, R!Work
<1>. QED
  BY <1>1, <1>2

LEMMA RouterSound == RouterInv => R!TypeOK /\ R!NoWrongBlame
  BY DEF RouterInv, CallersInv, CircuitsInv, CountsTyped, CircuitRow, Count, R!TypeOK

-----------------------------------------------------------------------------
(* The MCP servers.                                                        *)

Lines == P!Lines
Quiet == P!Idle

\* Lines that may come, or have come and are not read: those given up on, and the one waited for.
Waits(x, s) == IF x.server = s THEN 1 ELSE 0
Balanced(s) == Len(owed[s]) + Len(pipe[s]) <= surplus[s] + Waits(exchange, s)

QueuesInv ==
  /\ owed \in [P!Servers -> Seq(Lines)] /\ pipe \in [P!Servers -> Seq(Lines)]
  /\ surplus \in [P!Servers -> Nat]
  /\ \A s \in P!Servers : Balanced(s)

\* Who is asked, and what for: a handshake that is waited for is of a restart or of the next server.
StartsNext == exchange # Quiet /\ P!Setup /\ ~restarted
ExchangeInv ==
  /\ exchange \in [server : P!Servers \cup {NoServer}, kind : P!Kinds, id : Lines]
  /\ exchange.server = NoServer => exchange = Quiet
  /\ restarted => exchange.kind = "initialize"
  /\ StartsNext => todo # <<>>
  /\ todo \in Seq(P!Servers)

\* A name says whose it is, unless it is the tool's own.
NamesInv ==
  /\ \A x \in tools : x.server \in P!Servers /\ x.name \in {<<x.tool>>, <<x.server, x.tool>>}
  /\ \A x, y \in tools : x.name = y.name => x.server = y.server
  /\ \A x \in tools, t \in Local : x.name # <<t>>

Results == [status : {"none", "ok", "timeout", "closed", "mismatch", "down"}, asked : Lines, answers : Lines]
ResultInv == result \in Results /\ P!OwnAnswers

ProcsInv ==
  /\ proc \in [P!Servers -> {"none", "up", "dead"}] /\ nextId \in [P!Servers -> Lines]
  /\ restarted \in BOOLEAN /\ upsets \in 0 .. MaxUpsets

ServersInv == QueuesInv /\ ExchangeInv /\ NamesInv /\ ResultInv /\ ProcsInv

LEMMA LinesDo == Lines = 0 .. MaxIds /\ MaxIds \in Nat /\ 0 \in Lines /\ Lines \subseteq Nat
  BY OutsideAssumption DEF Lines, P!Lines

LEMMA ServersAtFirst == P!Init => ServersInv
<1>. SUFFICES ASSUME P!Init PROVE ServersInv
  OBVIOUS
<1>. USE DEF P!Init
<1>1. QueuesInv
  <2>1. owed \in [P!Servers -> Seq(Lines)] /\ pipe \in [P!Servers -> Seq(Lines)] /\ surplus \in [P!Servers -> Nat]
    OBVIOUS
  <2>2. ASSUME NEW s \in P!Servers PROVE Balanced(s)
    <3>1. owed[s] = <<>> /\ pipe[s] = <<>> /\ surplus[s] = 0 /\ Len(<<>>) = 0
      OBVIOUS
    <3>2. Waits(exchange, s) \in {0, 1}
      BY DEF Waits
    <3>. QED
      BY <3>1, <3>2 DEF Balanced
  <2>. QED
    BY <2>1, <2>2 DEF QueuesInv
<1>2. ExchangeInv
  BY OutsideAssumption, LinesDo DEF ExchangeInv, StartsNext, Quiet, P!Idle, P!Kinds
<1>3. NamesInv
  BY DEF NamesInv
<1>4. ResultInv
  BY LinesDo DEF ResultInv, Results, P!None, P!OwnAnswers
<1>5. ProcsInv
  <2>1. restarted \in BOOLEAN
    BY Zenon
  <2>2. 0 \in 0 .. MaxUpsets
    BY OutsideAssumption
  <2>. QED
    BY <2>1, <2>2, LinesDo DEF ProcsInv
<1>. QED
  BY <1>1, <1>2, <1>3, <1>4, <1>5 DEF ServersInv

\* Of the queues: what a step does to those of one server.
LEMMA QueuesMove ==
  ASSUME QueuesInv, NEW s \in P!Servers, NEW o \in Seq(Lines), NEW q \in Seq(Lines), NEW n \in Nat,
         owed' = [owed EXCEPT ![s] = o], pipe' = [pipe EXCEPT ![s] = q], surplus' = [surplus EXCEPT ![s] = n],
         Len(o) + Len(q) <= n + Waits(exchange', s),
         \A r \in P!Servers \ {s} : Waits(exchange', r) = Waits(exchange, r)
  PROVE  QueuesInv'
<1>1. /\ owed' \in [P!Servers -> Seq(Lines)] /\ pipe' \in [P!Servers -> Seq(Lines)]
      /\ surplus' \in [P!Servers -> Nat]
  BY DEF QueuesInv
<1>2. /\ owed'[s] = o /\ pipe'[s] = q /\ surplus'[s] = n
      /\ \A r \in P!Servers \ {s} : owed'[r] = owed[r] /\ pipe'[r] = pipe[r] /\ surplus'[r] = surplus[r]
  BY DEF QueuesInv
<1>3. ASSUME NEW r \in P!Servers PROVE Balanced(r)'
  <2>1. CASE r = s
    BY <1>2, <2>1 DEF Balanced
  <2>2. CASE r # s
    BY <1>2, <2>2 DEF QueuesInv, Balanced
  <2>. QED
    BY <2>1, <2>2
<1>. QED
  BY <1>1, <1>3 DEF QueuesInv

\* Nobody else is waited for, before or after.
LEMMA OneIsAsked ==
  ASSUME ExchangeInv, NEW s \in P!Servers, exchange = Quiet \/ exchange.server = s,
         exchange' = Quiet \/ exchange'.server = s
  PROVE  \A r \in P!Servers \ {s} : Waits(exchange', r) = Waits(exchange, r)
<1>1. \A r \in P!Servers : r # NoServer
  BY OutsideAssumption
<1>2. Quiet.server = NoServer
  BY DEF Quiet, P!Idle
<1>. QED
  BY <1>1, <1>2 DEF Waits

LEMMA QuietWaits == ASSUME NEW s \in P!Servers PROVE Waits(Quiet, s) = 0
  BY OutsideAssumption DEF Waits, Quiet, P!Idle

LEMMA AskedDo ==
  ASSUME ExchangeInv, exchange # Quiet PROVE exchange.server \in P!Servers
  BY DEF ExchangeInv

\* A request: who is asked, and its id.
Asked(s, kind) ==
  /\ exchange' \in [server : P!Servers \cup {NoServer}, kind : P!Kinds, id : Lines]
  /\ exchange'.server = s /\ exchange'.kind = kind
  /\ nextId' \in [P!Servers -> Lines]

LEMMA SendsDo ==
  ASSUME ProcsInv, NEW s \in P!Servers, NEW kind \in P!Kinds, P!Sends(s, kind)
  PROVE  Asked(s, kind) /\ nextId[s] + 1 \in Lines
<1>1. nextId[s] \in Lines /\ nextId[s] < MaxIds
  BY DEF ProcsInv, P!Sends
<1>2. nextId[s] + 1 \in Lines
  BY <1>1, LinesDo
<1>3. nextId' \in [P!Servers -> Lines]
  BY <1>2 DEF ProcsInv, P!Sends
<1>4. exchange' = [server |-> s, kind |-> kind, id |-> nextId[s] + 1]
  BY DEF P!Sends
<1>. QED
  BY <1>2, <1>3, <1>4 DEF Asked

\* A fresh subprocess owes the answer to its handshake.
LEMMA ConnectDo ==
  ASSUME QueuesInv, ExchangeInv, ProcsInv, NEW s \in P!Servers, exchange = Quiet, P!Connect(s)
  PROVE  QueuesInv' /\ Asked(s, "initialize") /\ proc' \in [P!Servers -> {"none", "up", "dead"}]
<1>1. "initialize" \in P!Kinds
  BY DEF P!Kinds
<1>2. Asked(s, "initialize") /\ nextId[s] + 1 \in Lines
  BY <1>1, SendsDo DEF P!Connect
<1>3. exchange'.server = s
  BY <1>2 DEF Asked
<1>4. Waits(exchange', s) = 1
  BY <1>3 DEF Waits
<1>5. \A r \in P!Servers \ {s} : Waits(exchange', r) = Waits(exchange, r)
  BY <1>3, OneIsAsked
<1>. DEFINE o == <<nextId[s] + 1>>
<1>6. o \in Seq(Lines) /\ <<>> \in Seq(Lines) /\ 0 \in Nat /\ Len(o) + Len(<<>>) <= 0 + 1
  BY <1>2
<1>7. owed' = [owed EXCEPT ![s] = o] /\ pipe' = [pipe EXCEPT ![s] = <<>>] /\ surplus' = [surplus EXCEPT ![s] = 0]
  BY DEF P!Connect
<1>. HIDE DEF o
<1>8. QueuesInv'
  BY <1>4, <1>5, <1>6, <1>7, QueuesMove
<1>9. proc' \in [P!Servers -> {"none", "up", "dead"}]
  BY DEF ProcsInv, P!Connect
<1>. QED
  BY <1>2, <1>8, <1>9

\* A line to a subprocess that runs.
LEMMA SendDo ==
  ASSUME QueuesInv, ExchangeInv, ProcsInv, NEW s \in P!Servers, NEW kind \in P!Kinds,
         exchange = Quiet, P!Send(s, kind), UNCHANGED <<pipe, surplus>>
  PROVE  QueuesInv' /\ Asked(s, kind)
<1>1. Asked(s, kind) /\ nextId[s] + 1 \in Lines
  BY SendsDo DEF P!Send
<1>2. exchange'.server = s
  BY <1>1 DEF Asked
<1>3. Waits(exchange', s) = 1 /\ Waits(exchange, s) = 0
  BY <1>2, QuietWaits DEF Waits
<1>4. \A r \in P!Servers \ {s} : Waits(exchange', r) = Waits(exchange, r)
  BY <1>2, OneIsAsked
<1>. DEFINE o == Append(owed[s], nextId[s] + 1)
<1>5. /\ owed[s] \in Seq(Lines) /\ pipe[s] \in Seq(Lines) /\ surplus[s] \in Nat
      /\ Len(owed[s]) + Len(pipe[s]) <= surplus[s] + 0
  BY <1>3 DEF QueuesInv, Balanced
<1>6. o \in Seq(Lines) /\ Len(o) = Len(owed[s]) + 1
  BY <1>1, <1>5
<1>7. /\ owed' = [owed EXCEPT ![s] = o] /\ pipe' = [pipe EXCEPT ![s] = pipe[s]]
      /\ surplus' = [surplus EXCEPT ![s] = surplus[s]]
  BY DEF P!Send, QueuesInv
<1>. HIDE DEF o
<1>8. Len(o) + Len(pipe[s]) <= surplus[s] + Waits(exchange', s)
  <2>. DEFINE a == Len(owed[s])
              b == Len(pipe[s])
              x == Len(o)
              y == surplus[s]
  <2>0. a \in Nat /\ b \in Nat /\ y \in Nat
    BY <1>5
  <2>1. a + b <= y + 0 /\ x = a + 1
    BY <1>5, <1>6
  <2>. HIDE DEF a, b, x, y
  <2>2. x + b <= y + 1
    BY <2>0, <2>1
  <2>. QED
    BY <1>3, <2>2 DEF b, x, y
<1>9. QueuesInv'
  BY <1>4, <1>5, <1>6, <1>7, <1>8, QueuesMove
<1>. QED
  BY <1>1, <1>9

\* The next request of an exchange, after the line that answers the one before.
LEMMA SendOnDo ==
  ASSUME QueuesInv, ExchangeInv, ProcsInv, NEW s \in P!Servers, NEW kind \in P!Kinds,
         exchange.server = s, pipe[s] # <<>>, P!Send(s, kind),
         pipe' = [pipe EXCEPT ![s] = Tail(@)], UNCHANGED surplus
  PROVE  QueuesInv' /\ Asked(s, kind)
<1>1. Asked(s, kind) /\ nextId[s] + 1 \in Lines
  BY SendsDo DEF P!Send
<1>2. exchange'.server = s
  BY <1>1 DEF Asked
<1>3. Waits(exchange', s) = 1 /\ Waits(exchange, s) = 1
  BY <1>2 DEF Waits
<1>4. \A r \in P!Servers \ {s} : Waits(exchange', r) = Waits(exchange, r)
  BY <1>2, OneIsAsked
<1>. DEFINE o == Append(owed[s], nextId[s] + 1)
            q == Tail(pipe[s])
<1>5. /\ owed[s] \in Seq(Lines) /\ pipe[s] \in Seq(Lines) /\ surplus[s] \in Nat
      /\ Len(owed[s]) + Len(pipe[s]) <= surplus[s] + 1
  BY <1>3 DEF QueuesInv, Balanced
<1>6. o \in Seq(Lines) /\ Len(o) = Len(owed[s]) + 1 /\ q \in Seq(Lines) /\ Len(q) = Len(pipe[s]) - 1
  BY <1>1, <1>5
<1>7. /\ owed' = [owed EXCEPT ![s] = o] /\ pipe' = [pipe EXCEPT ![s] = q]
      /\ surplus' = [surplus EXCEPT ![s] = surplus[s]]
  BY DEF P!Send, QueuesInv
<1>. HIDE DEF o, q
<1>8. Len(o) + Len(q) <= surplus[s] + Waits(exchange', s)
  <2>. DEFINE a == Len(owed[s])
              b == Len(pipe[s])
              x == Len(o)
              z == Len(q)
              y == surplus[s]
  <2>0. a \in Nat /\ b \in Nat /\ y \in Nat
    BY <1>5
  <2>1. a + b <= y + 1 /\ x = a + 1 /\ z = b - 1
    BY <1>5, <1>6
  <2>. HIDE DEF a, b, x, y, z
  <2>2. x + z <= y + 1
    BY <2>0, <2>1
  <2>. QED
    BY <1>3, <2>2 DEF x, y, z
<1>9. QueuesInv'
  BY <1>4, <1>5, <1>6, <1>7, <1>8, QueuesMove
<1>. QED
  BY <1>1, <1>9

LEMMA UpsetDo == ASSUME ProcsInv, P!Upset PROVE upsets' \in 0 .. MaxUpsets
  BY OutsideAssumption DEF ProcsInv, P!Upset

\* The parts a step leaves alone.
LEMMA NamesStay == ASSUME NamesInv, UNCHANGED tools PROVE NamesInv'
  BY DEF NamesInv

LEMMA ResultStays == ASSUME ResultInv, UNCHANGED result PROVE ResultInv'
  BY DEF ResultInv, P!OwnAnswers

LEMMA NothingGiven == P!None \in Results /\ [P!None EXCEPT !.status = "down"] \in Results
  BY LinesDo DEF P!None, Results

LEMMA ResultDo ==
  ASSUME result' \in {P!None, [P!None EXCEPT !.status = "down"]} PROVE ResultInv'
  BY NothingGiven DEF ResultInv, P!OwnAnswers, P!None

LEMMA QueuesStay == ASSUME QueuesInv, UNCHANGED <<owed, pipe, surplus, exchange>> PROVE QueuesInv'
  BY DEF QueuesInv, Balanced

LEMMA TodoDo ==
  ASSUME ExchangeInv, todo # <<>> PROVE Head(todo) \in P!Servers /\ Tail(todo) \in Seq(P!Servers)
  BY DEF ExchangeInv

LEMMA AskedKeeps ==
  ASSUME ExchangeInv, NEW s \in P!Servers, NEW kind \in P!Kinds, Asked(s, kind), UNCHANGED todo,
         restarted' => kind = "initialize",
         kind \in {"initialize", "list"} /\ ~restarted' => todo # <<>>
  PROVE  ExchangeInv'
  BY OutsideAssumption DEF ExchangeInv, StartsNext, Asked, P!Setup

LEMMA QuietDo == Quiet \in [server : P!Servers \cup {NoServer}, kind : P!Kinds, id : Lines] /\ Quiet.kind = "list"
  BY LinesDo DEF Quiet, P!Idle, P!Kinds

LEMMA StartServerKeeps == ASSUME ServersInv, P!StartServer PROVE ServersInv'
<1>. QueuesInv /\ ExchangeInv /\ NamesInv /\ ResultInv /\ ProcsInv
  BY DEF ServersInv
<1>1. exchange = Quiet /\ todo # <<>> /\ UNCHANGED <<restarted, tools, result>>
  BY DEF P!StartServer, Quiet
<1>2. NamesInv' /\ ResultInv'
  BY <1>1, NamesStay, ResultStays
<1>3. ~restarted
  BY <1>1, QuietDo DEF ExchangeInv
<1>4. CASE P!Connect(Head(todo)) /\ UNCHANGED <<todo, upsets>>
  <2>. DEFINE s == Head(todo)
  <2>1. s \in P!Servers
    BY <1>1, TodoDo
  <2>2. QueuesInv' /\ Asked(s, "initialize") /\ proc' \in [P!Servers -> {"none", "up", "dead"}]
    BY <1>1, <1>4, <2>1, ConnectDo
  <2>3. "initialize" \in P!Kinds
    BY DEF P!Kinds
  <2>. HIDE DEF s
  <2>4. ExchangeInv'
    BY <1>1, <1>3, <1>4, <2>1, <2>2, <2>3, AskedKeeps
  <2>5. ProcsInv'
    BY <1>1, <1>4, <2>2 DEF ProcsInv, Asked
  <2>. QED
    BY <1>2, <2>2, <2>4, <2>5 DEF ServersInv
<1>5. CASE P!Upset /\ todo' = Tail(todo) /\ UNCHANGED <<proc, nextId, owed, pipe, exchange, surplus>>
  <2>1. QueuesInv'
    BY <1>5, QueuesStay
  <2>2. ExchangeInv'
    BY <1>1, <1>3, <1>5, TodoDo DEF ExchangeInv, StartsNext
  <2>3. ProcsInv'
    BY <1>1, <1>5, UpsetDo DEF ProcsInv
  <2>. QED
    BY <1>2, <2>1, <2>2, <2>3 DEF ServersInv
<1>. QED
  BY <1>4, <1>5 DEF P!StartServer

\* A client that is closed keeps nothing, and nobody waits for it.
LEMMA ClosedDo ==
  ASSUME QueuesInv, ExchangeInv, ProcsInv, NEW s \in P!Servers, P!Closed(s),
         exchange = Quiet \/ exchange.server = s, exchange' = Quiet
  PROVE  QueuesInv' /\ proc' \in [P!Servers -> {"none", "up", "dead"}]
<1>1. \A r \in P!Servers \ {s} : Waits(exchange', r) = Waits(exchange, r)
  BY OneIsAsked
<1>2. Waits(exchange', s) = 0
  BY QuietWaits
<1>3. /\ owed' = [owed EXCEPT ![s] = <<>>] /\ pipe' = [pipe EXCEPT ![s] = <<>>]
      /\ surplus' = [surplus EXCEPT ![s] = 0]
  BY DEF P!Closed, P!Close
<1>4. <<>> \in Seq(Lines) /\ Len(<<>>) + Len(<<>>) <= 0 + Waits(exchange', s) /\ 0 \in Nat
  BY <1>2
<1>5. QueuesInv'
  BY <1>1, <1>3, <1>4, QueuesMove
<1>6. proc' \in [P!Servers -> {"none", "up", "dead"}]
  BY DEF ProcsInv, P!Closed, P!Close
<1>. QED
  BY <1>5, <1>6

LEMMA CallToolKeeps == ASSUME ServersInv, P!CallTool PROVE ServersInv'
<1>. QueuesInv /\ ExchangeInv /\ NamesInv /\ ResultInv /\ ProcsInv
  BY DEF ServersInv
<1>0. PICK t \in tools :
        /\ exchange = Quiet /\ todo = <<>> /\ UNCHANGED <<todo, tools>>
        /\ LET s == t.server
           IN  \/ /\ proc[s] = "up" /\ P!Send(s, "call") /\ result' = P!None
                  /\ UNCHANGED <<proc, pipe, restarted, surplus, upsets>>
               \/ /\ proc[s] # "up" /\ P!Connect(s) /\ restarted' = TRUE /\ result' = P!None
                  /\ UNCHANGED upsets
               \/ /\ proc[s] # "up" /\ P!Upset /\ P!Closed(s) /\ result' = [P!None EXCEPT !.status = "down"]
                  /\ UNCHANGED <<nextId, exchange, restarted>>
  BY DEF P!CallTool, Quiet
<1>. DEFINE s == t.server
<1>1. s \in P!Servers
  BY DEF NamesInv
<1>2. NamesInv' /\ ResultInv'
  BY <1>0, NamesStay, ResultDo
<1>3. ~restarted
  BY <1>0, QuietDo DEF ExchangeInv
<1>. HIDE DEF s
<1>4. CASE proc[s] = "up" /\ P!Send(s, "call") /\ UNCHANGED <<proc, pipe, restarted, surplus, upsets>>
  <2>1. "call" \in P!Kinds /\ "call" \notin {"initialize", "list"}
    BY DEF P!Kinds
  <2>2. QueuesInv' /\ Asked(s, "call")
    BY <1>0, <1>1, <1>4, <2>1, SendDo
  <2>3. ExchangeInv'
    BY <1>0, <1>1, <1>3, <1>4, <2>1, <2>2, AskedKeeps
  <2>4. ProcsInv'
    BY <1>4, <2>2 DEF ProcsInv, Asked
  <2>. QED
    BY <1>2, <2>2, <2>3, <2>4 DEF ServersInv
<1>5. CASE P!Connect(s) /\ restarted' = TRUE /\ UNCHANGED upsets
  <2>1. "initialize" \in P!Kinds
    BY DEF P!Kinds
  <2>2. QueuesInv' /\ Asked(s, "initialize") /\ proc' \in [P!Servers -> {"none", "up", "dead"}]
    BY <1>0, <1>1, <1>5, ConnectDo
  <2>3. ExchangeInv'
    BY <1>0, <1>1, <1>5, <2>1, <2>2, AskedKeeps
  <2>4. ProcsInv'
    BY <1>5, <2>2 DEF ProcsInv, Asked
  <2>. QED
    BY <1>2, <2>2, <2>3, <2>4 DEF ServersInv
<1>6. CASE P!Upset /\ P!Closed(s) /\ UNCHANGED <<nextId, exchange, restarted>>
  <2>1. QueuesInv' /\ proc' \in [P!Servers -> {"none", "up", "dead"}]
    BY <1>0, <1>1, <1>6, ClosedDo
  <2>2. ExchangeInv'
    BY <1>0, <1>6 DEF ExchangeInv, StartsNext, P!Setup
  <2>3. ProcsInv'
    BY <1>6, <2>1, UpsetDo DEF ProcsInv
  <2>. QED
    BY <1>2, <2>1, <2>2, <2>3 DEF ServersInv
<1>. QED
  BY <1>0, <1>4, <1>5, <1>6 DEF s

LEMMA ReadResourceKeeps == ASSUME ServersInv, P!ReadResource PROVE ServersInv'
<1>. QueuesInv /\ ExchangeInv /\ NamesInv /\ ResultInv /\ ProcsInv
  BY DEF ServersInv
<1>0. PICK s \in P!Servers :
        /\ exchange = Quiet /\ UNCHANGED <<todo, proc, pipe, restarted, tools, surplus, upsets>>
        /\ \/ P!Send(s, "resource") /\ result' = P!None
           \/ /\ result' = [P!None EXCEPT !.status = "down"] /\ UNCHANGED <<nextId, owed, exchange>>
  BY DEF P!ReadResource, Quiet
<1>1. NamesInv' /\ ResultInv'
  BY <1>0, NamesStay, ResultDo
<1>2. ~restarted
  BY <1>0, QuietDo DEF ExchangeInv
<1>3. CASE P!Send(s, "resource")
  <2>1. "resource" \in P!Kinds /\ "resource" \notin {"initialize", "list"}
    BY DEF P!Kinds
  <2>2. QueuesInv' /\ Asked(s, "resource")
    BY <1>0, <1>3, <2>1, SendDo
  <2>3. ExchangeInv'
    BY <1>0, <1>2, <2>1, <2>2, AskedKeeps
  <2>4. ProcsInv'
    BY <1>0, <2>2 DEF ProcsInv, Asked
  <2>. QED
    BY <1>1, <2>2, <2>3, <2>4 DEF ServersInv
<1>4. CASE UNCHANGED <<nextId, owed, exchange>>
  <2>1. QueuesInv'
    BY <1>0, <1>4, QueuesStay
  <2>2. ExchangeInv' /\ ProcsInv'
    BY <1>0, <1>4 DEF ExchangeInv, StartsNext, ProcsInv, P!Setup
  <2>. QED
    BY <1>1, <2>1, <2>2 DEF ServersInv
<1>. QED
  BY <1>0, <1>3, <1>4

\* The end of an exchange: a line was read, or the wait is over.
LEMMA ReadDo ==
  ASSUME QueuesInv, ExchangeInv, NEW s \in P!Servers, exchange.server = s, exchange' = Quiet,
         pipe[s] # <<>>, pipe' = [pipe EXCEPT ![s] = Tail(@)], UNCHANGED <<owed, surplus>>
  PROVE  QueuesInv'
<1>1. Waits(exchange', s) = 0 /\ Waits(exchange, s) = 1
  BY QuietWaits DEF Waits
<1>2. \A r \in P!Servers \ {s} : Waits(exchange', r) = Waits(exchange, r)
  BY OneIsAsked
<1>. DEFINE q == Tail(pipe[s])
<1>3. /\ owed[s] \in Seq(Lines) /\ pipe[s] \in Seq(Lines) /\ surplus[s] \in Nat
      /\ Len(owed[s]) + Len(pipe[s]) <= surplus[s] + 1
  BY <1>1 DEF QueuesInv, Balanced
<1>4. q \in Seq(Lines) /\ Len(q) = Len(pipe[s]) - 1
  BY <1>3
<1>5. /\ owed' = [owed EXCEPT ![s] = owed[s]] /\ pipe' = [pipe EXCEPT ![s] = q]
      /\ surplus' = [surplus EXCEPT ![s] = surplus[s]]
  BY DEF QueuesInv
<1>. HIDE DEF q
<1>6. Len(owed[s]) + Len(q) <= surplus[s] + Waits(exchange', s)
  <2>. DEFINE a == Len(owed[s])
              b == Len(pipe[s])
              z == Len(q)
              y == surplus[s]
  <2>1. a \in Nat /\ b \in Nat /\ y \in Nat
    BY <1>3
  <2>2. a + b <= y + 1 /\ z = b - 1
    BY <1>3, <1>4
  <2>. HIDE DEF a, b, y, z
  <2>3. a + z <= y + 0
    BY <2>1, <2>2
  <2>. QED
    BY <1>1, <2>3 DEF a, y, z
<1>. QED
  BY <1>2, <1>3, <1>4, <1>5, <1>6, QueuesMove

LEMMA GivenUpDo ==
  ASSUME QueuesInv, ExchangeInv, NEW s \in P!Servers, exchange.server = s, exchange' = Quiet,
         surplus' = [surplus EXCEPT ![s] = @ + 1], UNCHANGED <<owed, pipe>>
  PROVE  QueuesInv'
<1>1. Waits(exchange', s) = 0 /\ Waits(exchange, s) = 1
  BY QuietWaits DEF Waits
<1>2. \A r \in P!Servers \ {s} : Waits(exchange', r) = Waits(exchange, r)
  BY OneIsAsked
<1>3. /\ owed[s] \in Seq(Lines) /\ pipe[s] \in Seq(Lines) /\ surplus[s] \in Nat
      /\ Len(owed[s]) + Len(pipe[s]) <= surplus[s] + 1
  BY <1>1 DEF QueuesInv, Balanced
<1>4. /\ owed' = [owed EXCEPT ![s] = owed[s]] /\ pipe' = [pipe EXCEPT ![s] = pipe[s]]
      /\ surplus' = [surplus EXCEPT ![s] = surplus[s] + 1]
  BY DEF QueuesInv
<1>5. Len(owed[s]) + Len(pipe[s]) <= (surplus[s] + 1) + Waits(exchange', s)
  <2>1. surplus[s] + 1 \in Nat
    BY <1>3
  <2>2. (surplus[s] + 1) + 0 = surplus[s] + 1
    BY <2>1
  <2>. QED
    BY <1>1, <1>3, <2>2
<1>6. surplus[s] + 1 \in Nat
  BY <1>3
<1>. QED
  BY <1>2, <1>3, <1>4, <1>5, <1>6, QueuesMove

\* After the end of an exchange nobody is asked.
LEMMA QuietKeeps ==
  ASSUME exchange' = Quiet, ~restarted', todo' \in Seq(P!Servers) PROVE ExchangeInv'
  BY QuietDo DEF ExchangeInv, StartsNext

LEMMA GiveUpServerKeeps ==
  ASSUME ServersInv, exchange # Quiet, P!Setup, NEW status, P!GiveUp(exchange.server, status), UNCHANGED upsets
  PROVE  ServersInv'
<1>. QueuesInv /\ ExchangeInv /\ NamesInv /\ ResultInv /\ ProcsInv
  BY DEF ServersInv
<1>. DEFINE s == exchange.server
<1>1. s \in P!Servers
  BY AskedDo
<1>2. P!Closed(s) /\ exchange' = Quiet /\ restarted' = FALSE /\ UNCHANGED <<nextId, tools>>
  BY DEF P!GiveUp, Quiet
<1>3. QueuesInv' /\ proc' \in [P!Servers -> {"none", "up", "dead"}]
  BY <1>1, <1>2, ClosedDo
<1>4. \/ result' = [P!None EXCEPT !.status = "down"] /\ UNCHANGED todo
      \/ ~restarted /\ todo' = Tail(todo) /\ UNCHANGED result
  BY DEF P!GiveUp
<1>5. ResultInv'
  BY <1>4, ResultDo, ResultStays
<1>6. NamesInv'
  BY <1>2, NamesStay
<1>7. todo' \in Seq(P!Servers)
  BY <1>4, TodoDo DEF ExchangeInv, StartsNext
<1>8. ExchangeInv'
  BY <1>2, <1>7, QuietKeeps
<1>9. ProcsInv'
  BY <1>2, <1>3 DEF ProcsInv
<1>. QED
  BY <1>3, <1>5, <1>6, <1>8, <1>9 DEF ServersInv

\* A tool call or a resource that fails, as far as the queues are not concerned.
LEMMA FailKeeps ==
  ASSUME ServersInv, exchange # Quiet, ~P!Setup, NEW status \in {"timeout", "closed", "mismatch"},
         NEW answers \in Lines, P!Fail(status, answers), QueuesInv', UNCHANGED upsets
  PROVE  ServersInv'
<1>. QueuesInv /\ ExchangeInv /\ NamesInv /\ ResultInv /\ ProcsInv
  BY DEF ServersInv
<1>1. /\ result' = [status |-> status, asked |-> exchange.id, answers |-> answers] /\ exchange' = Quiet
      /\ UNCHANGED <<todo, proc, nextId, owed, restarted, tools>>
  BY DEF P!Fail, P!Gave, Quiet
<1>2. exchange.id \in Lines
  BY DEF ExchangeInv
<1>3. ResultInv'
  BY <1>1, <1>2 DEF ResultInv, Results, P!OwnAnswers
<1>4. NamesInv'
  BY <1>1, NamesStay
<1>5. ~restarted'
  BY <1>1 DEF ExchangeInv, P!Setup
<1>6. ExchangeInv'
  BY <1>1, <1>5, QuietKeeps DEF ExchangeInv
<1>7. ProcsInv'
  BY <1>1 DEF ProcsInv
<1>. QED
  BY <1>3, <1>4, <1>6, <1>7 DEF ServersInv

\* The names a server's tools are given are not taken, so that they stay its own.
LEMMA NamesDo ==
  ASSUME NamesInv, NEW s \in P!Servers, tools' = tools \cup P!Registered(s) PROVE NamesInv'
<1>1. ASSUME NEW x \in P!Registered(s)
      PROVE  /\ x.server = s
             /\ \/ x.name = <<x.tool>> /\ <<x.tool>> \notin P!Taken
                \/ x.name = <<s, x.tool>>
  <2>1. PICK t \in Tools[s] : x = [name |-> P!NameOf(s, t), server |-> s, tool |-> t]
    BY <1>1 DEF P!Registered
  <2>2. x.name = P!NameOf(s, t) /\ x.server = s /\ x.tool = t
    BY <2>1
  <2>3. \/ P!NameOf(s, t) = <<t>> /\ <<t>> \notin P!Taken
        \/ P!NameOf(s, t) = <<s, t>>
    BY DEF P!NameOf
  <2>. QED
    BY <2>2, <2>3, Zenon
<1>2. /\ \A t \in Local : <<t>> \in P!Taken
      /\ \A x \in tools : x.name \in P!Taken
  BY DEF P!Taken
<1>3. \A a, b, c : <<a>> # <<b, c>>
  OBVIOUS
<1>4. \A a, b, c, d : <<a, b>> = <<c, d>> => a = c /\ b = d
  OBVIOUS
<1>5. ASSUME NEW x \in tools' PROVE x.server \in P!Servers /\ x.name \in {<<x.tool>>, <<x.server, x.tool>>}
  BY <1>1, <1>5 DEF NamesInv
<1>6. ASSUME NEW x \in tools', NEW t \in Local PROVE x.name # <<t>>
  <2>1. CASE x \in tools
    BY <2>1 DEF NamesInv
  <2>2. CASE x \in P!Registered(s)
    <3>1. CASE x.name = <<x.tool>> /\ <<x.tool>> \notin P!Taken
      BY <1>2, <3>1, Zenon
    <3>2. CASE x.name = <<s, x.tool>>
      BY <1>3, <3>2
    <3>. QED
      BY <1>1, <2>2, <3>1, <3>2
  <2>. QED
    BY <1>6, <2>1, <2>2
<1>7. ASSUME NEW x \in P!Registered(s), NEW y \in tools, x.name = y.name PROVE y.server = s
  <2>1. x.name = <<s, x.tool>>
    BY <1>1, <1>2, <1>7
  <2>2. y.name = <<y.server, y.tool>>
    BY <1>3, <1>7, <2>1 DEF NamesInv
  <2>3. <<s, x.tool>> = <<y.server, y.tool>>
    BY <1>7, <2>1, <2>2, Zenon
  <2>. QED
    BY <1>4, <2>3, Zenon
<1>8. ASSUME NEW x \in tools', NEW y \in tools', x.name = y.name PROVE x.server = y.server
  BY <1>1, <1>7, <1>8 DEF NamesInv
<1>. QED
  BY <1>5, <1>6, <1>8 DEF NamesInv

LEMMA ProceedKeeps ==
  ASSUME ServersInv, exchange # Quiet, pipe[exchange.server] # <<>>,
         P!Matches(exchange.id, Head(pipe[exchange.server])), P!Proceed(exchange.server),
         pipe' = [pipe EXCEPT ![exchange.server] = Tail(@)], UNCHANGED <<proc, surplus, upsets>>
  PROVE  ServersInv'
<1>. QueuesInv /\ ExchangeInv /\ NamesInv /\ ResultInv /\ ProcsInv
  BY DEF ServersInv
<1>. DEFINE s == exchange.server
<1>0. s \in P!Servers /\ exchange.server = s
  BY AskedDo
<1>. HIDE DEF s
<1>1. "list" \in P!Kinds /\ "call" \in P!Kinds
  BY DEF P!Kinds
<1>2. CASE exchange.kind = "initialize" /\ ~restarted
  <2>1. P!Send(s, "list") /\ UNCHANGED <<todo, restarted, tools, result>>
    BY <1>0, <1>2 DEF P!Proceed
  <2>2. QueuesInv' /\ Asked(s, "list")
    BY <1>0, <1>1, <2>1, SendOnDo
  <2>3. todo # <<>>
    BY <1>2 DEF ExchangeInv, StartsNext, P!Setup
  <2>4. ExchangeInv'
    BY <1>0, <1>1, <1>2, <2>1, <2>2, <2>3, AskedKeeps
  <2>5. NamesInv' /\ ResultInv'
    BY <2>1, NamesStay, ResultStays
  <2>6. ProcsInv'
    BY <2>1, <2>2 DEF ProcsInv, Asked
  <2>. QED
    BY <2>2, <2>4, <2>5, <2>6 DEF ServersInv
<1>3. CASE exchange.kind = "initialize" /\ restarted
  <2>1. P!Send(s, "call") /\ restarted' = FALSE /\ UNCHANGED <<todo, tools, result>>
    BY <1>0, <1>3 DEF P!Proceed
  <2>2. QueuesInv' /\ Asked(s, "call")
    BY <1>0, <1>1, <2>1, SendOnDo
  <2>3. ExchangeInv'
    BY <1>0, <1>1, <2>1, <2>2, AskedKeeps
  <2>4. NamesInv' /\ ResultInv'
    BY <2>1, NamesStay, ResultStays
  <2>5. ProcsInv'
    BY <2>1, <2>2 DEF ProcsInv, Asked
  <2>. QED
    BY <2>2, <2>3, <2>4, <2>5 DEF ServersInv
<1>4. CASE exchange.kind = "list"
  <2>1. /\ tools' = tools \cup P!Registered(s) /\ todo' = Tail(todo) /\ exchange' = Quiet
        /\ UNCHANGED <<nextId, owed, restarted, result>>
    BY <1>0, <1>4 DEF P!Proceed, Quiet
  <2>2. ~restarted /\ todo # <<>>
    BY <1>4 DEF ExchangeInv, StartsNext, P!Setup
  <2>3. QueuesInv'
    BY <1>0, <2>1, ReadDo
  <2>4. ExchangeInv'
    BY <2>1, <2>2, TodoDo, QuietKeeps
  <2>5. NamesInv' /\ ResultInv'
    BY <1>0, <2>1, NamesDo, ResultStays
  <2>6. ProcsInv'
    BY <2>1 DEF ProcsInv
  <2>. QED
    BY <2>3, <2>4, <2>5, <2>6 DEF ServersInv
<1>5. CASE exchange.kind \notin {"initialize", "list"}
  <2>1. /\ result' = [status |-> "ok", asked |-> exchange.id, answers |-> Head(pipe[s])] /\ exchange' = Quiet
        /\ UNCHANGED <<todo, nextId, owed, restarted, tools>>
    BY <1>0, <1>5 DEF P!Proceed, P!Gave, Quiet
  <2>2. ~restarted
    BY <1>5 DEF ExchangeInv
  <2>3. QueuesInv'
    BY <1>0, <2>1, ReadDo
  <2>4. ExchangeInv'
    BY <2>1, <2>2, QuietKeeps DEF ExchangeInv
  <2>5. exchange.id \in Lines /\ Head(pipe[s]) = exchange.id
    BY <1>0 DEF ExchangeInv, P!Matches
  <2>6. NamesInv' /\ ResultInv'
    BY <2>1, <2>5, NamesStay DEF ResultInv, Results, P!OwnAnswers
  <2>7. ProcsInv'
    BY <2>1 DEF ProcsInv
  <2>. QED
    BY <2>3, <2>4, <2>6, <2>7 DEF ServersInv
<1>. QED
  BY <1>2, <1>3, <1>4, <1>5

LEMMA ReceiveKeeps == ASSUME ServersInv, P!Receive PROVE ServersInv'
<1>. DEFINE s == exchange.server
            line == Head(pipe[s])
<1>0. exchange # Quiet /\ pipe[s] # <<>> /\ UNCHANGED upsets
  BY DEF P!Receive, Quiet
<1>1. CASE P!Matches(exchange.id, line)
  BY <1>0, <1>1, ProceedKeeps DEF P!Receive
<1>2. CASE ~P!Matches(exchange.id, line) /\ P!Setup
  BY <1>0, <1>2, GiveUpServerKeeps DEF P!Receive
<1>3. CASE ~P!Matches(exchange.id, line) /\ ~P!Setup
  <2>1. P!Fail("mismatch", line) /\ pipe' = [pipe EXCEPT ![s] = Tail(@)] /\ UNCHANGED surplus
    BY <1>3 DEF P!Receive
  <2>2. QueuesInv /\ ExchangeInv /\ s \in P!Servers
    BY <1>0, AskedDo DEF ServersInv
  <2>3. UNCHANGED owed /\ exchange' = Quiet
    BY <2>1 DEF P!Fail, Quiet
  <2>4. QueuesInv'
    BY <1>0, <2>1, <2>2, <2>3, ReadDo
  <2>5. line \in Lines
    BY <1>0, <2>2 DEF QueuesInv
  <2>. QED
    BY <1>0, <1>3, <2>1, <2>4, <2>5, FailKeeps
<1>. QED
  BY <1>1, <1>2, <1>3

LEMMA NoAnswerKeeps == ASSUME ServersInv, P!NoAnswer PROVE ServersInv'
<1>. DEFINE s == exchange.server
<1>0. exchange # Quiet /\ UNCHANGED upsets
  BY DEF P!NoAnswer, Quiet
<1>1. CASE P!Setup
  BY <1>0, <1>1, GiveUpServerKeeps DEF P!NoAnswer
<1>2. CASE ~P!Setup
  <2>1. PICK status \in {"timeout", "closed"} :
          P!Fail(status, 0) /\ surplus' = [surplus EXCEPT ![s] = @ + 1] /\ UNCHANGED pipe
    BY <1>2 DEF P!NoAnswer
  <2>2. QueuesInv /\ ExchangeInv /\ s \in P!Servers
    BY <1>0, AskedDo DEF ServersInv
  <2>3. UNCHANGED owed /\ exchange' = Quiet
    BY <2>1 DEF P!Fail, Quiet
  <2>4. QueuesInv'
    BY <2>1, <2>2, <2>3, GivenUpDo
  <2>. QED
    BY <1>0, <1>2, <2>1, <2>4, LinesDo, FailKeeps
<1>. QED
  BY <1>1, <1>2

\* The steps of a server leave the service alone.
LEMMA ServiceStays ==
  ASSUME ServersInv, UNCHANGED <<todo, nextId, exchange, restarted, tools, result>>,
         proc' \in [P!Servers -> {"none", "up", "dead"}], upsets' \in 0 .. MaxUpsets, QueuesInv'
  PROVE  ServersInv'
<1>. QueuesInv /\ ExchangeInv /\ NamesInv /\ ResultInv /\ ProcsInv
  BY DEF ServersInv
<1>1. ExchangeInv'
  BY DEF ExchangeInv, StartsNext, P!Setup
<1>2. NamesInv'
  BY NamesStay
<1>3. ResultInv'
  BY DEF ResultInv, P!OwnAnswers
<1>4. ProcsInv'
  BY DEF ProcsInv
<1>. QED
  BY <1>1, <1>2, <1>3, <1>4 DEF ServersInv

LEMMA AnswerKeeps == ASSUME ServersInv, NEW s \in P!Servers, P!Answer(s) PROVE ServersInv'
<1>. QueuesInv /\ ExchangeInv /\ ProcsInv
  BY DEF ServersInv
<1>0. owed[s] # <<>> /\ UNCHANGED <<todo, proc, nextId, exchange, restarted, tools, result, surplus, upsets>>
  BY DEF P!Answer
<1>. DEFINE h == Head(owed[s])
            o == Tail(owed[s])
            q == Append(pipe[s], h)
<1>1. /\ owed[s] \in Seq(Lines) /\ pipe[s] \in Seq(Lines) /\ surplus[s] \in Nat
      /\ Len(owed[s]) + Len(pipe[s]) <= surplus[s] + Waits(exchange, s)
  BY DEF QueuesInv, Balanced
<1>2. h \in Lines /\ o \in Seq(Lines) /\ Len(o) = Len(owed[s]) - 1
  BY <1>0, <1>1
<1>3. owed' = [owed EXCEPT ![s] = o] /\ pipe' = [pipe EXCEPT ![s] = q] /\ surplus' = [surplus EXCEPT ![s] = surplus[s]]
  BY <1>0 DEF P!Answer, QueuesInv
<1>. HIDE DEF h, o
<1>4. q \in Seq(Lines) /\ Len(q) = Len(pipe[s]) + 1
  BY <1>1, <1>2
<1>. HIDE DEF q
<1>5. Len(o) + Len(q) <= surplus[s] + Waits(exchange', s)
  <2>. DEFINE a == Len(owed[s])
              b == Len(pipe[s])
              x == Len(o)
              z == Len(q)
              y == surplus[s] + Waits(exchange, s)
  <2>1. a \in Nat /\ b \in Nat
    BY <1>1
  <2>2. y \in Nat
    BY <1>1 DEF Waits
  <2>3. a + b <= y /\ x = a - 1 /\ z = b + 1
    BY <1>1, <1>2, <1>4
  <2>. HIDE DEF a, b, x, y, z
  <2>4. x + z <= y
    BY <2>1, <2>2, <2>3
  <2>. QED
    BY <1>0, <2>4 DEF x, y, z
<1>6. \A r \in P!Servers \ {s} : Waits(exchange', r) = Waits(exchange, r)
  BY <1>0
<1>7. QueuesInv'
  BY <1>1, <1>2, <1>3, <1>4, <1>5, <1>6, QueuesMove
<1>. QED
  BY <1>0, <1>7, ServiceStays DEF ProcsInv

LEMMA RemarkKeeps == ASSUME ServersInv, NEW s \in P!Servers, P!Remark(s) PROVE ServersInv'
<1>. QueuesInv /\ ExchangeInv /\ ProcsInv
  BY DEF ServersInv
<1>0. UNCHANGED <<todo, proc, nextId, owed, exchange, restarted, tools, result>> /\ P!Upset
  BY DEF P!Remark
<1>. DEFINE q == Append(pipe[s], 0)
            n == surplus[s] + 1
<1>1. /\ owed[s] \in Seq(Lines) /\ pipe[s] \in Seq(Lines) /\ surplus[s] \in Nat
      /\ Len(owed[s]) + Len(pipe[s]) <= surplus[s] + Waits(exchange, s)
  BY DEF QueuesInv, Balanced
<1>2. owed' = [owed EXCEPT ![s] = owed[s]] /\ pipe' = [pipe EXCEPT ![s] = q] /\ surplus' = [surplus EXCEPT ![s] = n]
  BY <1>0 DEF P!Remark, QueuesInv
<1>3. q \in Seq(Lines) /\ Len(q) = Len(pipe[s]) + 1
  BY <1>1, LinesDo
<1>4. n \in Nat
  BY <1>1
<1>. HIDE DEF q
<1>5. Len(owed[s]) + Len(q) <= n + Waits(exchange', s)
  <2>. DEFINE a == Len(owed[s])
              b == Len(pipe[s])
              z == Len(q)
              y == surplus[s]
              w == Waits(exchange, s)
  <2>1. a \in Nat /\ b \in Nat /\ y \in Nat
    BY <1>1
  <2>2. w \in Nat
    BY DEF Waits
  <2>3. a + b <= y + w /\ z = b + 1
    BY <1>1, <1>3
  <2>. HIDE DEF a, b, y, z, w
  <2>4. a + z <= (y + 1) + w
    BY <2>1, <2>2, <2>3
  <2>. QED
    BY <1>0, <2>4 DEF a, y, z, w
<1>. HIDE DEF n
<1>6. \A r \in P!Servers \ {s} : Waits(exchange', r) = Waits(exchange, r)
  BY <1>0
<1>7. QueuesInv'
  BY <1>1, <1>2, <1>3, <1>4, <1>5, <1>6, QueuesMove
<1>. QED
  BY <1>0, <1>7, UpsetDo, ServiceStays DEF ProcsInv

LEMMA DieKeeps == ASSUME ServersInv, NEW s \in P!Servers, P!Die(s) PROVE ServersInv'
<1>. QueuesInv /\ ExchangeInv /\ ProcsInv
  BY DEF ServersInv
<1>0. UNCHANGED <<todo, nextId, pipe, exchange, restarted, tools, result, surplus>> /\ P!Upset
  BY DEF P!Die
<1>1. /\ owed[s] \in Seq(Lines) /\ pipe[s] \in Seq(Lines) /\ surplus[s] \in Nat
      /\ Len(owed[s]) + Len(pipe[s]) <= surplus[s] + Waits(exchange, s)
  BY DEF QueuesInv, Balanced
<1>2. owed' = [owed EXCEPT ![s] = <<>>] /\ pipe' = [pipe EXCEPT ![s] = pipe[s]] /\ surplus' = [surplus EXCEPT ![s] = surplus[s]]
  BY <1>0 DEF P!Die, QueuesInv
<1>3. <<>> \in Seq(Lines) /\ Len(<<>>) = 0
  OBVIOUS
<1>4. Len(<<>>) + Len(pipe[s]) <= surplus[s] + Waits(exchange', s)
  <2>. DEFINE a == Len(owed[s])
              b == Len(pipe[s])
              y == surplus[s] + Waits(exchange, s)
  <2>1. a \in Nat /\ b \in Nat
    BY <1>1
  <2>2. y \in Nat
    BY <1>1 DEF Waits
  <2>3. a + b <= y
    BY <1>1
  <2>. HIDE DEF a, b, y
  <2>4. 0 + b <= y
    BY <2>1, <2>2, <2>3
  <2>. QED
    BY <1>0, <1>3, <2>4 DEF b, y
<1>5. \A r \in P!Servers \ {s} : Waits(exchange', r) = Waits(exchange, r)
  BY <1>0
<1>6. QueuesInv'
  BY <1>1, <1>2, <1>3, <1>4, <1>5, QueuesMove
<1>7. proc' \in [P!Servers -> {"none", "up", "dead"}]
  BY DEF P!Die, ProcsInv
<1>. QED
  BY <1>0, <1>6, <1>7, UpsetDo, ServiceStays

\* The servers, whoever moves.
LEMMA ServersKeep == ServersInv /\ (P!Next \/ UNCHANGED servers) => ServersInv'
<1>. SUFFICES ASSUME ServersInv, P!Next \/ UNCHANGED servers PROVE ServersInv'
  OBVIOUS
<1>1. CASE UNCHANGED servers
  <2>1. QueuesInv' /\ proc' \in [P!Servers -> {"none", "up", "dead"}] /\ upsets' \in 0 .. MaxUpsets
    BY <1>1, QueuesStay DEF servers, ServersInv, ProcsInv
  <2>. QED
    BY <1>1, <2>1, ServiceStays DEF servers
<1>2. CASE P!Next
  BY <1>2, StartServerKeeps, CallToolKeeps, ReadResourceKeeps, ReceiveKeeps, NoAnswerKeeps,
     AnswerKeeps, RemarkKeeps, DieKeeps DEF P!Next
<1>. QED
  BY <1>1, <1>2

LEMMA ServersSound == ServersInv => P!TypeOK /\ P!OwnAnswers /\ P!InStep /\ P!UniqueNames
<1>. SUFFICES ASSUME ServersInv PROVE P!TypeOK /\ P!OwnAnswers /\ P!InStep /\ P!UniqueNames
  OBVIOUS
<1>. QueuesInv /\ ExchangeInv /\ NamesInv /\ ResultInv /\ ProcsInv
  BY DEF ServersInv
<1>1. P!ToSet(todo) \subseteq P!Servers
  BY DEF ExchangeInv, P!ToSet
<1>2. P!TypeOK
  BY <1>1 DEF QueuesInv, ExchangeInv, NamesInv, ResultInv, Results, ProcsInv, Lines, P!TypeOK
<1>3. P!InStep
  BY DEF QueuesInv, Balanced, Waits, P!InStep
<1>4. P!UniqueNames
  <2>1. ASSUME NEW t \in tools PROVE P!Routes(t.name) = {t.server}
    BY DEF NamesInv, P!Routes
  <2>2. {t.name : t \in tools} \cap {<<t>> : t \in Local} = {}
    BY DEF NamesInv
  <2>. QED
    BY <2>1, <2>2 DEF P!UniqueNames
<1>. QED
  BY <1>2, <1>3, <1>4 DEF ResultInv

-----------------------------------------------------------------------------
(* Together.                                                               *)

LEMMA BreakerKeeps == BreakerInv /\ [Next]_vars => BreakerInv'
  BY CallersKeep, RowKeeps DEF BreakerInv

LEMMA BreakerSound == BreakerInv => RowIsSound
  BY DEF BreakerInv, GoodRow, CallersTyped, TypeOK, OpenHasTime, RowIsSound

OutsideInv == BreakerInv /\ RouterInv /\ ServersInv

LEMMA OutsideInvariant == OutsideSpec => []OutsideInv
<1>1. OutsideInit => OutsideInv
  BY InitBreaker, RouterAtFirst, ServersAtFirst DEF OutsideInit, OutsideInv
<1>2. OutsideInv /\ [OutsideNext]_outside => OutsideInv'
  <2>. SUFFICES ASSUME OutsideInv, [OutsideNext]_outside PROVE OutsideInv'
    OBVIOUS
  <2>1. /\ [Next]_vars
        /\ R!Next \/ UNCHANGED router
        /\ P!Next \/ UNCHANGED servers
    BY DEF OutsideNext, Breaking, Routing, Serving, outside, breaker
  <2>. QED
    BY <2>1, BreakerKeeps, RouterKeeps, ServersKeep DEF OutsideInv
<1>. QED
  BY <1>1, <1>2, PTL DEF OutsideSpec

\* Every variable of a breaker keeps its type, and an open circuit has an opened_at, however stale
\* the decisions that is_open, record_success and record_failure write (circuit_breaker.py:154).
THEOREM RowIsSoundAlways == OutsideSpec => []RowIsSound
  BY OutsideInvariant, BreakerSound, PTL DEF OutsideInv

\* A provider that is shut out was down or failed (router.py:1079), an answer that is reported is
\* that of the request, a server is out of step only after it was given up on or spoke unasked
\* (client.py:296), and a name leads to one server (registry.py:60).
THEOREM ClientsAreSoundAlways == OutsideSpec => []ClientsAreSound
<1>1. OutsideInv => ClientsAreSound
  BY RouterSound, ServersSound DEF OutsideInv, ClientsAreSound
<1>. QED
  BY <1>1, OutsideInvariant, PTL
=============================================================================
