-------------------------- MODULE HeartbeatProofs --------------------------
(***************************************************************************)
(* The tick of the heartbeat, for any signals, feeds, emails, limits and   *)
(* faults.                                                                 *)
(*                                                                         *)
(* Signals: nothing is observed, counted or told twice, and nothing is     *)
(* passed over, but for a failure.  Each part of OncePerSignal becomes     *)
(* inductive when it is told what the tick has in hand: how far the open   *)
(* triage cycle will move the watermark, which signals of a batch were     *)
(* counted and are not written back, and which digest or message was sent  *)
(* for a row that is still open.  FeedsAreSound needs what the feeds' open *)
(* transaction adds to the rows.                                           *)
(*                                                                         *)
(* Mail: EmailTriage shares no variable with Tick.                         *)
(* The user hears of an email once because what has been said and what is  *)
(* still going to be said are counted together.                            *)
(*                                                                         *)
(* Contacts: what each of the two services has in hand is stated for any   *)
(* stage it is at, with the other at any of its own.  A mail is taken once *)
(* because the pages of a poll that are still to come lie below those it   *)
(* has listed, however much is sent meanwhile.                             *)
(***************************************************************************)
EXTENDS Tick, EmailTriage, FiniteSetTheorems, WellFoundedInduction, TLAPS

Enriching == {"assign", "write"}
Triage    == Roles \cup {"triage row"}

\* How far the triage got, if the open cycle is completed.
Reach == IF pc \in Triage THEN next ELSE Watermark

\* A signal the triage has not reached was only shown by cycles that failed.
ShownInv ==
  \A i \in Ids : shown[i] <= 1 + faults /\ (i > Reach => shown[i] <= faults)

Passed(n, h) == {i \in 1 .. n : i \notin h}

SkippedInv ==
  /\ Cardinality(Passed(Watermark, handled)) <= CycleCap * faults
  /\ pc \in Roles => /\ Cardinality(work) <= CycleCap
                     /\ Cardinality(Passed(next, handled) \ work) <= CycleCap * faults
  /\ pc = "triage row" => Cardinality(Passed(next, handled)) <= CycleCap * faults

\* Of the batch, what has its thread.
InHand == IF pc \in Enriching THEN work \ left ELSE {}

CountedInv ==
  /\ \A i \in threaded \cup InHand : counted[i] >= 1
  /\ \A i \in Ids : /\ counted[i] <= 1 + faults
                    /\ i \notin tier1 \cup InHand => counted[i] <= faults
  /\ pc \in Enriching => work \cap tier1 = {}

\* A digest, or a message, that may still be sent for nothing, and one that was.
MayDigest  == ~managed \/ due["manager"]
DigestOwed == IF MayDigest THEN 1 ELSE 0
DigestRow  == pc = "manager row"
DigestSent == IF DigestRow THEN 1 ELSE 0
BriefOwed  == IF due["review"] THEN 1 ELSE 0
BriefRow   == pc = "review row"
BriefSent  == IF BriefRow THEN 1 ELSE 0

ToldInv ==
  /\ due["manager"] => managed
  /\ pc \in {"digest", "manager row"} => MayDigest
  /\ sent["digest"] + DigestOwed <= 1 + dues["manager"] + faults + DigestSent
  /\ pc \in {"message", "review row"} => due["review"]
  /\ sent["brief"] + BriefOwed <= dues["review"] + faults + BriefSent

ObsInv == TypeOK /\ ShownInv /\ SkippedInv /\ CountedInv /\ ToldInv

-----------------------------------------------------------------------------
(* The lowest and the highest of a set, and the oldest of one.             *)

LEMMA Lowest ==
  ASSUME NEW T \in SUBSET Nat, T # {} PROVE \E m \in T : \A x \in T : m <= x
<1>. DEFINE R == {ss \in Nat \X Nat : ss[1] < ss[2]}
<1>1. IsWellFoundedOn(R, Nat)
  BY NatLessThanWellFounded DEF OpToRel
<1>2. ASSUME NEW x \in Nat, NEW m \in Nat, x < m PROVE <<x, m>> \in R
  <2>1. <<x, m>> \in Nat \X Nat /\ <<x, m>>[1] = x /\ <<x, m>>[2] = m
    OBVIOUS
  <2>. QED
    BY <1>2, <2>1
<1>. HIDE DEF R
<1>3. PICK m \in T : \A x \in T : ~ (<<x, m>> \in R)
  BY <1>1, WFMin
<1>4. ASSUME NEW x \in T PROVE m <= x
  <2>1. ~ (x < m)
    BY <1>2, <1>3
  <2>. QED
    BY <2>1
<1>. QED
  BY <1>4

LEMMA Highest ==
  ASSUME NEW n \in Nat, NEW W \in SUBSET (1 .. n), W # {}
  PROVE  Max(W) \in W /\ \A x \in W : x <= Max(W)
<1>. DEFINE T == {n - x : x \in W}
<1>1. T \in SUBSET Nat /\ T # {}
  <2>1. \A x \in W : n - x \in Nat
    OBVIOUS
  <2>. QED
    BY <2>1
<1>2. PICK m \in T : \A t \in T : m <= t
  BY <1>1, Lowest
<1>3. PICK h \in W : m = n - h
  BY <1>2
<1>4. ASSUME NEW x \in W PROVE h >= x
  <2>1. n - h <= n - x
    BY <1>2, <1>3
  <2>. QED
    BY <2>1
<1>5. \E x \in W : \A y \in W : x >= y
  BY <1>4
<1>6. Max(W) \in W /\ \A y \in W : Max(W) >= y
  BY <1>5 DEF Max
<1>. QED
  BY <1>6

LEMMA OldestDo ==
  ASSUME NEW n \in Nat, NEW S \in SUBSET (1 .. n), NEW k \in Nat
  PROVE  /\ Oldest(S, k) \subseteq S /\ IsFiniteSet(Oldest(S, k))
         /\ Cardinality(Oldest(S, k)) <= k
         /\ \A i \in Oldest(S, k) : \A j \in S : j < i => j \in Oldest(S, k)
<1>1. IsFiniteSet(1 .. n)
  BY FS_Interval
<1>2. \A T \in SUBSET (1 .. n) : IsFiniteSet(T) /\ Cardinality(T) \in Nat
  BY <1>1, FS_Subset, FS_CardinalityType
<1>3. Oldest(S, k) \subseteq S
  BY DEF Oldest
<1>4. ASSUME NEW i \in Oldest(S, k), NEW j \in S, j < i PROVE j \in Oldest(S, k)
  <2>. DEFINE Before(x) == {y \in S : y < x}
  <2>1. Before(i) \in SUBSET (1 .. n) /\ Before(j) \in SUBSET (1 .. n)
    OBVIOUS
  <2>2. ASSUME NEW y \in Before(j) PROVE y \in Before(i)
    <3>a. i \in S /\ j \in S /\ y \in S /\ S \subseteq Int
      BY <1>3
    <3>1. i \in Int /\ j \in Int /\ y \in Int /\ y < j /\ j < i
      BY <1>4, <3>a
    <3>. QED
      BY <3>a, <3>1
  <2>3. Cardinality(Before(j)) <= Cardinality(Before(i))
    BY <1>2, <2>1, <2>2, FS_Subset
  <2>4. Cardinality(Before(i)) < k
    BY DEF Oldest
  <2>5. Cardinality(Before(j)) < k
    BY <1>2, <2>1, <2>3, <2>4
  <2>. QED
    BY <2>5 DEF Oldest
<1>5. Cardinality(Oldest(S, k)) <= k
  <2>1. CASE Oldest(S, k) = {}
    BY <2>1, FS_EmptySet
  <2>2. CASE Oldest(S, k) # {}
    <3>. DEFINE W == Oldest(S, k)
                h == Max(W)
                B == {y \in S : y < h}
    <3>1. W \in SUBSET (1 .. n) /\ W # {}
      BY <1>3, <2>2
    <3>2. h \in W /\ \A x \in W : x <= h
      BY <3>1, Highest
    <3>3. Cardinality(B) < k
      BY <3>2 DEF Oldest
    <3>4. B \in SUBSET (1 .. n) /\ W \ {h} \subseteq B /\ W \ {h} \in SUBSET (1 .. n)
      <4>1. ASSUME NEW x \in W, x # h PROVE x \in S /\ x < h
        <5>1. x \in Int /\ h \in Int /\ x <= h /\ x \in S
          BY <1>3, <3>1, <3>2
        <5>. QED
          BY <4>1, <5>1
      <4>. QED
        BY <3>1, <4>1
    <3>5. Cardinality(W \ {h}) = Cardinality(W) - 1
      BY <1>2, <3>1, <3>2, FS_RemoveElement
    <3>6. Cardinality(W \ {h}) <= Cardinality(B)
      BY <1>2, <3>4, FS_Subset
    <3>7. Cardinality(B) \in Nat /\ Cardinality(W \ {h}) \in Nat /\ Cardinality(W) \in Nat
      BY <1>2, <3>1, <3>4
    <3>8. Cardinality(W) <= k
      <4>. HIDE DEF W, h, B
      <4>. QED
        BY <3>3, <3>5, <3>6, <3>7
    <3>. QED
      BY <3>8
  <2>. QED
    BY <2>1, <2>2
<1>. QED
  BY <1>2, <1>3, <1>4, <1>5

\* What the steps need to know of the types.
LEMMA Typed ==
  ASSUME TypeOK
  PROVE  /\ MaxSignals \in Nat /\ last \in 0 .. MaxSignals /\ last \in Nat
         /\ CycleCap \in Nat /\ BatchSize \in Nat /\ faults \in Nat /\ CycleCap * faults \in Nat
         /\ mark \in Never .. last /\ Watermark \in 0 .. last /\ next \in 0 .. last
         /\ 1 .. last \subseteq Ids
         /\ tier1 \subseteq 1 .. last /\ threaded \subseteq tier1 /\ handled \subseteq 1 .. last
         /\ work \subseteq 1 .. last /\ left \subseteq work
         /\ counted \in [Ids -> Nat] /\ shown \in [Ids -> Nat]
<1>1. /\ MaxSignals \in Nat /\ CycleCap \in Nat /\ BatchSize \in Nat /\ MaxFaults \in Nat
  BY ObservationAssumption
<1>2. /\ last \in 0 .. MaxSignals /\ mark \in Never .. last /\ next \in 0 .. last /\ faults \in 0 .. MaxFaults
      /\ tier1 \subseteq 1 .. last /\ threaded \subseteq tier1 /\ handled \subseteq 1 .. last
      /\ work \subseteq 1 .. last /\ left \subseteq work
      /\ counted \in [Ids -> Nat] /\ shown \in [Ids -> Nat]
  BY DEF TypeOK
<1>3. last \in Nat /\ faults \in Nat
  BY <1>1, <1>2
<1>4. CycleCap * faults \in Nat
  BY <1>1, <1>3
<1>5. Watermark \in 0 .. last
  <2>1. CASE mark = Never
    BY <1>3, <2>1 DEF Watermark
  <2>2. CASE mark # Never
    BY <1>2, <1>3, <2>2 DEF Watermark, Never
  <2>. QED
    BY <2>1, <2>2
<1>6. 1 .. last \subseteq Ids
  BY <1>1, <1>2 DEF Ids
<1>. QED
  BY <1>1, <1>2, <1>3, <1>4, <1>5, <1>6

\* The window reaches from the watermark to its newest signal, with no gap.
LEMMA WindowDo ==
  ASSUME TypeOK, NEW w \in {0, Watermark}
  PROVE  /\ w \in 0 .. last /\ Window(w) \subseteq w + 1 .. last /\ Window(w) \subseteq 1 .. last
         /\ Cardinality(Window(w)) <= CycleCap
         /\ NewMark(w, Window(w)) \in w .. last
         /\ w + 1 .. NewMark(w, Window(w)) \subseteq Window(w)
         /\ \A i \in Window(w) : i <= NewMark(w, Window(w))
<1>. DEFINE S == w + 1 .. last
            W == Window(w)
<1>1. last \in Nat /\ CycleCap \in Nat
  BY Typed
<1>2. w \in 0 .. last
  BY Typed
<1>3. S \in SUBSET (1 .. last)
  BY <1>1, <1>2
<1>4. /\ W \subseteq S /\ Cardinality(W) <= CycleCap
      /\ \A i \in W : \A j \in S : j < i => j \in W
  BY <1>1, <1>3, OldestDo DEF Window
<1>5. CASE W = {}
  <2>1. NewMark(w, W) = w
    BY <1>5 DEF NewMark
  <2>. QED
    BY <1>1, <1>2, <1>3, <1>4, <1>5, <2>1
<1>6. CASE W # {}
  <2>1. Max(W) \in W /\ \A x \in W : x <= Max(W)
    BY <1>1, <1>3, <1>4, <1>6, Highest
  <2>2. NewMark(w, W) = Max(W)
    BY <1>6 DEF NewMark
  <2>3. Max(W) \in w + 1 .. last
    BY <1>4, <2>1
  <2>4. ASSUME NEW j \in w + 1 .. Max(W) PROVE j \in W
    <3>1. j \in S /\ (j = Max(W) \/ j < Max(W))
      BY <1>1, <1>2, <2>3
    <3>. QED
      BY <1>4, <2>1, <3>1
  <2>. HIDE DEF W
  <2>5. w + 1 .. NewMark(w, W) \subseteq W
    BY <2>2, <2>4
  <2>6. NewMark(w, W) \in w .. last
    BY <1>1, <1>2, <2>2, <2>3
  <2>. QED
    BY <1>2, <1>3, <1>4, <2>1, <2>2, <2>5, <2>6 DEF W
<1>. QED
  BY <1>5, <1>6

-----------------------------------------------------------------------------
(* The types.                                                              *)

Places == {"idle", "assign", "write", "decide", "review role", "think role", "reflex", "triage row",
           "digest", "manager row", "briefing", "message", "review row"}

LEMMA BatchDo ==
  ASSUME TypeOK
  PROVE  Oldest(Raw, BatchSize) \subseteq 1 .. last /\ Oldest(Raw, BatchSize) \cap tier1 = {}
<1>1. last \in Nat /\ BatchSize \in Nat /\ Raw \in SUBSET (1 .. last) /\ Raw \cap tier1 = {}
  BY Typed DEF Raw
<1>2. Oldest(Raw, BatchSize) \subseteq Raw
  BY <1>1, OldestDo
<1>. QED
  BY <1>1, <1>2

\* A triage cycle that starts at w with the signals W.
Triages(w, W) ==
  /\ w = Watermark \/ (w = 0 /\ Fault)
  /\ Fault \/ NoFault
  /\ IsFiniteSet(W) /\ Cardinality(W) <= CycleCap
  /\ W \subseteq w + 1 .. last /\ work' = W /\ left' = {}
  /\ next' \in w .. last /\ w + 1 .. next' \subseteq W /\ \A i \in W : i <= next'
  /\ pc' = IF W = {} THEN "triage row" ELSE "review role"
  /\ shown' = [i \in Ids |-> IF i \in W THEN shown[i] + 1 ELSE shown[i]]

LEMMA StartDo ==
  ASSUME TypeOK, StartTriage
  PROVE  \E w \in 0 .. last, W \in SUBSET (1 .. last) : Triages(w, W)
<1>1. PICK w \in {0, Watermark} : \E W \in {{}, Window(w)} :
        /\ IF ~ManagerDue /\ TriageDue /\ w = Watermark /\ W = Window(w) THEN NoFault ELSE Fault
        /\ work' = W /\ left' = {}
        /\ next' = NewMark(w, W)
        /\ pc' = IF W = {} THEN "triage row" ELSE "review role"
        /\ shown' = [i \in Ids |-> IF i \in W THEN shown[i] + 1 ELSE shown[i]]
  BY DEF StartTriage
<1>2. PICK W \in {{}, Window(w)} :
        /\ IF ~ManagerDue /\ TriageDue /\ w = Watermark /\ W = Window(w) THEN NoFault ELSE Fault
        /\ work' = W /\ left' = {}
        /\ next' = NewMark(w, W)
        /\ pc' = IF W = {} THEN "triage row" ELSE "review role"
        /\ shown' = [i \in Ids |-> IF i \in W THEN shown[i] + 1 ELSE shown[i]]
  BY <1>1
<1>3. w = Watermark \/ (w = 0 /\ Fault)
  <2>1. CASE w = Watermark
    BY <2>1
  <2>2. CASE w # Watermark
    BY <1>2, <2>2, Zenon
  <2>. QED
    BY <2>1, <2>2
<1>a. Fault \/ NoFault
  BY <1>2, Zenon
<1>4. w \in 0 .. last /\ last \in Nat /\ CycleCap \in Nat
  BY Typed, WindowDo
<1>5. CASE W = {}
  <2>1. NewMark(w, W) = w /\ w \in w .. last /\ w + 1 .. w = {}
    BY <1>4, <1>5 DEF NewMark
  <2>2. IsFiniteSet(W) /\ Cardinality(W) <= CycleCap
    BY <1>4, <1>5, FS_EmptySet
  <2>3. Triages(w, W)
    BY <1>2, <1>3, <1>a, <1>5, <2>1, <2>2 DEF Triages
  <2>. QED
    BY <1>4, <1>5, <2>3
<1>6. CASE W = Window(w)
  <2>1. /\ W \subseteq w + 1 .. last /\ W \subseteq 1 .. last /\ Cardinality(W) <= CycleCap
        /\ NewMark(w, W) \in w .. last
        /\ w + 1 .. NewMark(w, W) \subseteq W
        /\ \A i \in W : i <= NewMark(w, W)
    BY <1>6, WindowDo
  <2>2. IsFiniteSet(W)
    <3>1. IsFiniteSet(1 .. last)
      BY <1>4, FS_Interval
    <3>. QED
      BY <2>1, <3>1, FS_Subset
  <2>3. Triages(w, W)
    BY <1>2, <1>3, <1>a, <2>1, <2>2 DEF Triages
  <2>. QED
    BY <1>4, <2>1, <2>3
<1>. QED
  BY <1>2, <1>5, <1>6

LEMMA TriagesDo ==
  ASSUME TypeOK, NEW w \in 0 .. last, NEW W \in SUBSET (1 .. last), Triages(w, W)
  PROVE  /\ w \in Nat /\ next' \in Nat /\ w <= next' /\ next' <= last
         /\ \A i \in W : i \in Nat /\ w < i /\ i <= next'
         /\ \A i \in Nat : w < i /\ i <= next' => i \in W
<1>1. last \in Nat /\ w \in Nat
  BY Typed
<1>2. /\ next' \in w .. last /\ W \subseteq w + 1 .. last /\ w + 1 .. next' \subseteq W
      /\ \A i \in W : i <= next'
  BY DEF Triages
<1>3. next' \in Nat /\ w <= next' /\ next' <= last
  BY <1>1, <1>2
<1>4. ASSUME NEW i \in W PROVE i \in Nat /\ w < i /\ i <= next'
  <2>1. i \in w + 1 .. last /\ i <= next'
    BY <1>2
  <2>. QED
    BY <1>1, <2>1
<1>5. ASSUME NEW i \in Nat, w < i, i <= next' PROVE i \in W
  <2>1. i \in w + 1 .. next'
    BY <1>1, <1>3, <1>5
  <2>. QED
    BY <1>2, <2>1
<1>. QED
  BY <1>1, <1>3, <1>4, <1>5

LEMMA TypeStep ==
  ASSUME TypeOK, [Next]_vars PROVE TypeOK'
<1>t. /\ MaxSignals \in Nat /\ last \in 0 .. MaxSignals /\ last \in Nat
      /\ mark \in Never .. last /\ Watermark \in 0 .. last /\ next \in 0 .. last
      /\ 1 .. last \subseteq Ids
      /\ tier1 \subseteq 1 .. last /\ threaded \subseteq tier1 /\ handled \subseteq 1 .. last
      /\ work \subseteq 1 .. last /\ left \subseteq work
      /\ counted \in [Ids -> Nat] /\ shown \in [Ids -> Nat]
  BY Typed
<1>f. (Fault \/ NoFault) => faults' \in 0 .. MaxFaults
  <2>1. faults \in 0 .. MaxFaults /\ MaxFaults \in Nat
    BY ObservationAssumption DEF TypeOK
  <2>. QED
    BY <2>1 DEF Fault, NoFault
<1>1. CASE Arrive
  <2>1. last' \in 0 .. MaxSignals /\ 1 .. last \subseteq 1 .. last' /\ 0 .. last \subseteq 0 .. last'
        /\ Never .. last \subseteq Never .. last'
    BY <1>1, <1>t DEF Arrive, Never
  <2>. QED
    BY <1>1, <1>t, <2>1 DEF Arrive, TypeOK, cycles, clock, local, told
<1>2. CASE Elapse
  <2>1. elapsed' \in 0 .. 2
    BY <1>2 DEF Elapse, TypeOK
  <2>. QED
    BY <1>2, <2>1 DEF Elapse, TypeOK, signals, clock, local, told
<1>3. ASSUME NEW d \in Due, ComesDue(d) PROVE TypeOK'
  <2>1. due' \in [Due -> BOOLEAN] /\ dues' \in [Due -> Nat]
    BY <1>3 DEF ComesDue, TypeOK
  <2>. QED
    BY <1>3, <2>1 DEF ComesDue, TypeOK, signals, cycles, local, told
<1>4. ASSUME NEW d \in Due, Lapse(d) PROVE TypeOK'
  <2>1. due' \in [Due -> BOOLEAN]
    BY <1>4 DEF Lapse, TypeOK
  <2>. QED
    BY <1>4, <2>1 DEF Lapse, TypeOK, signals, cycles, local, told
<1>5. CASE Crash
  <2>1. 0 \in 0 .. last
    BY <1>t
  <2>. QED
    BY <1>5, <1>f, <2>1 DEF Crash, TypeOK, signals, cycles, clock, told
<1>6. CASE BeginTick
  <2>1. work' \subseteq 1 .. last /\ left' = work'
    BY <1>6, BatchDo DEF BeginTick
  <2>. QED
    BY <1>6, <2>1 DEF BeginTick, TypeOK, signals, cycles, clock, told
<1>7. CASE AssignThread
  <2>1. counted' \in [Ids -> Nat]
    BY <1>7, <1>t DEF AssignThread
  <2>. QED
    BY <1>7, <2>1 DEF AssignThread, TypeOK, cycles, clock, told
<1>8. CASE AssignFails
  BY <1>8, <1>f DEF AssignFails, TypeOK, cycles, clock, local, told
<1>9. CASE WriteBack
  <2>1. tier1' \subseteq 1 .. last /\ threaded' \subseteq tier1'
    BY <1>9, <1>t DEF WriteBack
  <2>2. faults' \in 0 .. MaxFaults
    BY <1>9, <1>f DEF WriteBack
  <2>. QED
    BY <1>9, <2>1, <2>2 DEF WriteBack, TypeOK, cycles, clock, told
<1>10. CASE Skip
  <2>1. faults' \in 0 .. MaxFaults
    BY <1>10, <1>f DEF Skip
  <2>. QED
    BY <1>10, <2>1 DEF Skip, TypeOK, signals, cycles, clock, local, told
<1>11. CASE StartTriage
  <2>1. PICK w \in 0 .. last, W \in SUBSET (1 .. last) : Triages(w, W)
    BY <1>11, StartDo
  <2>2. work' = W /\ left' = {} /\ next' \in 0 .. last /\ pc' \in Places /\ shown' \in [Ids -> Nat]
    <3>a. w \in 0 .. last /\ next' \in w .. last
      BY <2>1 DEF Triages
    <3>b. next' \in 0 .. last
      BY <1>t, <3>a
    <3>1. shown' \in [Ids -> Nat]
      <4>1. shown' = [i \in Ids |-> IF i \in W THEN shown[i] + 1 ELSE shown[i]]
        BY <2>1 DEF Triages
      <4>2. \A i \in Ids : shown[i] \in Nat /\ shown[i] + 1 \in Nat
        BY <1>t
      <4>. QED
        BY <4>1, <4>2
    <3>2. pc' = "triage row" \/ pc' = "review role"
      BY <2>1 DEF Triages
    <3>. QED
      BY <2>1, <3>b, <3>1, <3>2 DEF Triages, Places
  <2>3. faults' \in 0 .. MaxFaults
    BY <1>f, <2>1 DEF Triages
  <2>. QED
    BY <1>11, <2>1, <2>2, <2>3 DEF StartTriage, Places, TypeOK, signals, cycles, clock
<1>12. CASE RoleEnds
  <2>1. handled' \subseteq 1 .. last
    BY <1>12, <1>t DEF RoleEnds
  <2>. QED
    BY <1>12, <2>1 DEF RoleEnds, TypeOK, signals, cycles, clock, local
<1>13. CASE RoleFallsBack
  BY <1>13 DEF RoleFallsBack, TypeOK, signals, cycles, clock, local, told
<1>14. CASE CycleRaises
  BY <1>14, <1>f DEF CycleRaises, TypeOK, signals, cycles, clock, local, told
<1>15. CASE EndTriage
  <2>0. mark' = next \/ mark' = mark
    BY <1>15 DEF EndTriage
  <2>1. mark' \in Never .. last /\ 0 \in 0 .. last
    BY <1>t, <2>0 DEF Never
  <2>a. elapsed' \in 0 .. 2
    <3>1. elapsed \in 0 .. 2 /\ (elapsed' = 0 \/ elapsed' = elapsed)
      BY <1>15 DEF EndTriage, TypeOK
    <3>. QED
      BY <3>1
  <2>2. faults' \in 0 .. MaxFaults
    BY <1>15, <1>f DEF EndTriage
  <2>. QED
    BY <1>15, <2>1, <2>a, <2>2 DEF EndTriage, TypeOK, signals, clock, told
<1>16. CASE StartManager
  <2>1. faults' \in 0 .. MaxFaults
    BY <1>16, <1>f DEF StartManager
  <2>. QED
    BY <1>16, <2>1 DEF StartManager, TypeOK, signals, cycles, clock, local, told
<1>17. CASE SendDigest
  <2>0. faults' \in 0 .. MaxFaults
    BY <1>17, <1>f DEF SendDigest
  <2>1. sent' \in [{"digest", "brief"} -> Nat]
    <3>1. sent \in [{"digest", "brief"} -> Nat]
      BY DEF TypeOK
    <3>2. sent' = sent \/ sent' = [sent EXCEPT !["digest"] = sent["digest"] + 1]
      BY <1>17 DEF SendDigest
    <3>. QED
      BY <3>1, <3>2
  <2>. QED
    BY <1>17, <2>0, <2>1 DEF SendDigest, TypeOK, signals, cycles, clock, local
<1>18. CASE EndManager
  <2>1. faults' \in 0 .. MaxFaults /\ due' \in [Due -> BOOLEAN] /\ managed' \in BOOLEAN
        /\ mark' = mark /\ elapsed' = elapsed
    BY <1>18, <1>f DEF EndManager, CompleteManager, TypeOK
  <2>. QED
    BY <1>18, <2>1 DEF EndManager, TypeOK, signals, local, told
<1>19. CASE NoReview
  <2>1. faults' \in 0 .. MaxFaults
    BY <1>19, <1>f DEF NoReview
  <2>. QED
    BY <1>19, <2>1 DEF NoReview, TypeOK, signals, cycles, clock, local, told
<1>20. CASE StartReview
  <2>1. faults' \in 0 .. MaxFaults
    BY <1>20, <1>f DEF StartReview
  <2>. QED
    BY <1>20, <2>1 DEF StartReview, TypeOK, signals, cycles, clock, local
<1>21. CASE SendBrief
  <2>1. sent' \in [{"digest", "brief"} -> Nat]
    <3>1. sent \in [{"digest", "brief"} -> Nat]
      BY DEF TypeOK
    <3>2. sent' = [sent EXCEPT !["brief"] = sent["brief"] + 1]
      BY <1>21 DEF SendBrief
    <3>. QED
      BY <3>1, <3>2
  <2>. QED
    BY <1>21, <2>1 DEF SendBrief, TypeOK, signals, cycles, clock, local
<1>22. CASE ReviewFails
  BY <1>22, <1>f DEF ReviewFails, TypeOK, signals, cycles, clock, local, told
<1>23. CASE EndReview
  <2>1. due' \in [Due -> BOOLEAN]
    BY <1>23 DEF EndReview, TypeOK
  <2>. QED
    BY <1>23, <2>1 DEF EndReview, TypeOK, signals, local, told
<1>24. CASE UNCHANGED vars
  BY <1>24 DEF vars, TypeOK, signals, cycles, clock, local, told
<1>. QED
  BY <1>1, <1>2, <1>3, <1>4, <1>5, <1>6, <1>7, <1>8, <1>9, <1>10, <1>11, <1>12, <1>13, <1>14, <1>15,
     <1>16, <1>17, <1>18, <1>19, <1>20, <1>21, <1>22, <1>23, <1>24 DEF Next, Step, Due

-----------------------------------------------------------------------------
(* Signals are shown again only by failures.                               *)

LEMMA FaultsGrow ==
  ASSUME TypeOK, [Next]_vars
  PROVE  /\ faults \in Nat /\ faults' \in Nat /\ faults' >= faults
         /\ Fault => faults' = faults + 1
<1>1. faults \in Nat
  BY Typed
<1>2. Fault \/ NoFault
  BY DEF Next, Step, vars, Arrive, Elapse, ComesDue, Lapse, Crash, BeginTick, AssignThread, AssignFails,
     WriteBack, Skip, StartTriage, RoleEnds, RoleFallsBack, CycleRaises, EndTriage, StartManager, SendDigest,
     EndManager, NoReview, StartReview, SendBrief, ReviewFails, EndReview, NoFault
<1>. QED
  BY <1>1, <1>2 DEF Fault, NoFault

LEMMA ShownStep ==
  ASSUME TypeOK, ShownInv, [Next]_vars PROVE ShownInv'
<1>f. faults \in Nat /\ faults' \in Nat /\ faults' >= faults /\ (Fault => faults' = faults + 1)
  BY FaultsGrow
<1>t. /\ last \in Nat /\ shown \in [Ids -> Nat] /\ Ids \subseteq Nat
      /\ Watermark \in 0 .. last /\ next \in 0 .. last
  BY Typed DEF Ids
<1>s. \A i \in Ids : shown[i] \in Nat /\ shown[i] <= 1 + faults /\ (i > Reach => shown[i] <= faults)
  BY <1>t DEF ShownInv
\* What leaves shown alone, and the reach too or else has failed.
<1>1. ASSUME UNCHANGED shown, Reach' = Reach \/ Fault PROVE ShownInv'
  <2>1. CASE Reach' = Reach
    BY <1>1, <1>f, <1>s, <2>1 DEF ShownInv
  <2>2. CASE Fault
    <3>1. ASSUME NEW i \in Ids PROVE shown'[i] <= 1 + faults' /\ shown'[i] <= faults'
      <4>1. shown'[i] = shown[i] /\ shown[i] \in Nat /\ shown[i] <= 1 + faults
        BY <1>1, <1>s
      <4>. QED
        BY <1>f, <2>2, <4>1
    <3>. QED
      BY <3>1 DEF ShownInv
  <2>. QED
    BY <1>1, <2>1, <2>2
<1>2. CASE StartTriage
  <2>1. PICK w \in 0 .. last, W \in SUBSET (1 .. last) : Triages(w, W)
    BY <1>2, StartDo
  <2>2. pc' \in Triage
    BY <2>1 DEF Triages, Triage, Roles
  <2>3. Reach' = next'
    BY <2>2 DEF Reach
  <2>4. Reach = Watermark
    BY <1>2 DEF StartTriage, Reach, Triage, Roles
  <2>5. ASSUME NEW i \in Ids PROVE shown'[i] <= 1 + faults' /\ (i > Reach' => shown'[i] <= faults')
    <3>0. i \in Nat /\ next' \in Nat /\ w \in Nat
      BY <1>t, <2>1, TriagesDo
    <3>1. shown[i] \in Nat /\ shown[i] <= 1 + faults /\ (i > Watermark => shown[i] <= faults)
      BY <1>s, <2>4
    <3>2. CASE i \in W
      <4>1. shown'[i] = shown[i] + 1 /\ i <= next' /\ i > w
        BY <2>1, <3>2, TriagesDo DEF Triages
      <4>2. ~ (i > Reach')
        BY <2>3, <3>0, <4>1
      <4>3. CASE Fault
        BY <1>f, <3>1, <4>1, <4>2, <4>3
      <4>4. CASE w = Watermark
        BY <1>f, <3>1, <4>1, <4>2, <4>4
      <4>. QED
        BY <2>1, <4>3, <4>4 DEF Triages
    <3>3. CASE i \notin W
      <4>1. shown'[i] = shown[i]
        BY <2>1, <3>3 DEF Triages
      <4>2. CASE Fault
        BY <1>f, <3>1, <4>1, <4>2
      <4>3. CASE w = Watermark
        <5>1. i > Reach' => i > Watermark
          BY <2>1, <2>3, <3>0, <4>3, TriagesDo
        <5>. QED
          BY <1>f, <3>1, <4>1, <5>1
      <4>. QED
        BY <2>1, <4>2, <4>3 DEF Triages
    <3>. QED
      BY <3>2, <3>3
  <2>. QED
    BY <2>5 DEF ShownInv, Ids
\* The cycle is completed, or is not.
<1>3. CASE EndTriage
  <2>1. UNCHANGED shown
    BY <1>3 DEF EndTriage, told
  <2>2. CASE mark' = next
    <3>0. pc' = "briefing" /\ pc = "triage row"
      BY <1>3 DEF EndTriage
    <3>1. mark' # Never
      BY <1>t, <2>2 DEF Never
    <3>2. Reach' = next /\ Reach = next
      BY <2>2, <3>0, <3>1 DEF Reach, Watermark, Triage, Roles
    <3>. QED
      BY <1>1, <2>1, <3>2
  <2>3. CASE Fault
    BY <1>1, <2>1, <2>3
  <2>. QED
    BY <1>3, <2>2, <2>3 DEF EndTriage
<1>4. CASE Crash
  BY <1>1, <1>4 DEF Crash, told
<1>5. CASE RoleEnds \/ RoleFallsBack \/ CycleRaises
  <2>1. UNCHANGED shown /\ pc \in Triage /\ pc' \in Triage /\ next' = next
    BY <1>5 DEF RoleEnds, RoleFallsBack, CycleRaises, told, local, Triage, Roles
  <2>. QED
    BY <1>1, <2>1 DEF Reach
<1>6. CASE Arrive \/ Elapse \/ (\E d \in Due : ComesDue(d)) \/ (\E d \in {"review", "ceiling"} : Lapse(d))
            \/ UNCHANGED vars
  <2>1. UNCHANGED <<shown, pc, next, mark>>
    BY <1>6 DEF Arrive, Elapse, ComesDue, Lapse, vars, told, local, cycles
  <2>. QED
    BY <1>1, <2>1 DEF Reach, Watermark
<1>7. CASE BeginTick \/ AssignThread \/ AssignFails \/ WriteBack \/ Skip \/ StartManager \/ SendDigest \/ EndManager
            \/ NoReview \/ StartReview \/ SendBrief \/ ReviewFails \/ EndReview
  <2>1. UNCHANGED <<shown, mark>>
    BY <1>7 DEF BeginTick, AssignThread, AssignFails, WriteBack, Skip, StartManager, SendDigest, EndManager,
       CompleteManager, NoReview, StartReview, SendBrief, ReviewFails, EndReview, told, cycles
  <2>2. pc \notin Triage /\ pc' \notin Triage
    BY <1>7 DEF BeginTick, AssignThread, AssignFails, WriteBack, Skip, StartManager, SendDigest, EndManager,
       NoReview, StartReview, SendBrief, ReviewFails, EndReview, Triage, Roles
  <2>. QED
    BY <1>1, <2>1, <2>2 DEF Reach, Watermark
<1>. QED
  BY <1>2, <1>3, <1>4, <1>5, <1>6, <1>7 DEF Next, Step

-----------------------------------------------------------------------------
(* Signals are passed over only by failures.                               *)

LEMMA PassedDo ==
  ASSUME NEW n \in Nat, NEW h
  PROVE  IsFiniteSet(Passed(n, h)) /\ Cardinality(Passed(n, h)) \in Nat
<1>1. IsFiniteSet(1 .. n) /\ Passed(n, h) \in SUBSET (1 .. n)
  BY FS_Interval DEF Passed
<1>. QED
  BY <1>1, FS_Subset, FS_CardinalityType

LEMMA CapGrows ==
  ASSUME TypeOK, [Next]_vars
  PROVE  /\ CycleCap \in Nat /\ CycleCap * faults \in Nat /\ CycleCap * faults' \in Nat
         /\ CycleCap * faults' >= CycleCap * faults
         /\ Fault => CycleCap * faults' = CycleCap * faults + CycleCap
<1>1. /\ faults \in Nat /\ faults' \in Nat /\ faults' >= faults
      /\ Fault => faults' = faults + 1
  BY FaultsGrow
<1>2. CycleCap \in Nat
  BY Typed
<1>3. \A c, m, n \in Nat : /\ c * m \in Nat /\ c * (m + 1) = c * m + c
                           /\ n >= m => c * n >= c * m
  <2>1. \A c, m \in Nat : c * m \in Nat /\ c * (m + 1) = c * m + c
    OBVIOUS
  <2>2. ASSUME NEW c \in Nat, NEW m \in Nat, NEW n \in Nat, n >= m PROVE c * n >= c * m
    <3>1. c * n = c * m + c * (n - m) /\ n - m \in Nat
      BY <2>2
    <3>2. c * (n - m) \in Nat /\ c * m \in Nat
      BY <2>1, <3>1
    <3>. QED
      BY <3>1, <3>2
  <2>. QED
    BY <2>1, <2>2
<1>. QED
  BY <1>1, <1>2, <1>3

LEMMA SkippedStep ==
  ASSUME TypeOK, SkippedInv, [Next]_vars PROVE SkippedInv'
<1>f. /\ CycleCap \in Nat /\ CycleCap * faults \in Nat /\ CycleCap * faults' \in Nat
      /\ CycleCap * faults' >= CycleCap * faults
      /\ Fault => CycleCap * faults' = CycleCap * faults + CycleCap
  BY CapGrows
<1>t. /\ last \in Nat /\ Watermark \in Nat /\ next \in Nat
      /\ handled \subseteq 1 .. last /\ work \subseteq 1 .. last
  BY Typed
<1>w. Cardinality(Passed(Watermark, handled)) \in Nat
  BY <1>t, PassedDo
<1>s. Cardinality(Passed(Watermark, handled)) <= CycleCap * faults
  BY DEF SkippedInv
<1>m. Cardinality(Passed(Watermark, handled)) <= CycleCap * faults'
  BY <1>f, <1>s, <1>w
<1>1. ASSUME UNCHANGED <<handled, mark>>, pc' \notin Triage PROVE SkippedInv'
  <2>1. Watermark' = Watermark
    BY <1>1 DEF Watermark
  <2>. QED
    BY <1>1, <1>m, <2>1 DEF SkippedInv, Triage
<1>2. CASE StartTriage
  <2>1. PICK w \in 0 .. last, W \in SUBSET (1 .. last) : Triages(w, W)
    BY <1>2, StartDo
  <2>2. /\ handled' = handled /\ mark' = mark /\ Watermark' = Watermark
    BY <1>2 DEF StartTriage, cycles, Watermark
  <2>3. w \in Nat /\ next' \in Nat /\ (w = Watermark \/ w = 0)
    BY <2>1, TriagesDo DEF Triages
  <2>4. ASSUME NEW i \in Passed(next', handled) \ W PROVE i \in Passed(w, handled)
    <3>1. i \in Nat /\ 1 <= i /\ i <= next' /\ i \notin handled /\ i \notin W
      BY <2>3 DEF Passed
    <3>2. ~ (w < i)
      BY <2>1, <3>1, TriagesDo
    <3>. QED
      BY <2>3, <3>1, <3>2 DEF Passed
  <2>5. Cardinality(Passed(w, handled)) <= CycleCap * faults' /\ Cardinality(Passed(w, handled)) \in Nat
    <3>1. CASE w = Watermark
      BY <1>m, <1>w, <3>1
    <3>2. CASE w = 0
      <4>1. Passed(w, handled) = {}
        BY <3>2 DEF Passed
      <4>. QED
        BY <1>f, <4>1, FS_EmptySet
    <3>. QED
      BY <2>3, <3>1, <3>2
  <2>6. Cardinality(Passed(next', handled) \ W) <= CycleCap * faults'
    <3>1. IsFiniteSet(Passed(w, handled)) /\ Passed(next', handled) \ W \in SUBSET Passed(w, handled)
      BY <2>3, <2>4, PassedDo
    <3>2. /\ Cardinality(Passed(next', handled) \ W) <= Cardinality(Passed(w, handled))
          /\ Cardinality(Passed(next', handled) \ W) \in Nat
      BY <3>1, FS_Subset, FS_CardinalityType
    <3>. QED
      BY <1>f, <2>5, <3>2
  <2>7. /\ work' = W /\ Cardinality(W) <= CycleCap
        /\ pc' = IF W = {} THEN "triage row" ELSE "review role"
    BY <2>1 DEF Triages
  <2>8. W = {} => Passed(next', handled) \ W = Passed(next', handled)
    OBVIOUS
  <2>9. CASE W = {}
    BY <1>m, <2>2, <2>6, <2>7, <2>8, <2>9 DEF SkippedInv, Roles
  <2>10. CASE W # {}
    BY <1>m, <2>2, <2>6, <2>7, <2>10 DEF SkippedInv, Roles
  <2>. QED
    BY <2>9, <2>10
<1>3. CASE RoleEnds
  <2>1. /\ pc \in Roles /\ pc' = "triage row" /\ handled' = handled \cup work
        /\ UNCHANGED <<mark, next, faults>>
    BY <1>3 DEF RoleEnds, cycles, local
  <2>2. Passed(next', handled') = Passed(next, handled) \ work
    BY <2>1 DEF Passed
  <2>3. Cardinality(Passed(next', handled')) <= CycleCap * faults'
    BY <2>1, <2>2 DEF SkippedInv
  <2>4. Passed(Watermark, handled') \in SUBSET Passed(Watermark, handled)
    BY <2>1 DEF Passed
  <2>5. /\ Cardinality(Passed(Watermark, handled')) <= Cardinality(Passed(Watermark, handled))
        /\ Cardinality(Passed(Watermark, handled')) \in Nat
    BY <1>t, <2>4, PassedDo, FS_Subset, FS_CardinalityType
  <2>6. Cardinality(Passed(Watermark, handled')) <= CycleCap * faults'
    BY <1>f, <1>m, <1>w, <2>5
  <2>7. Watermark' = Watermark
    BY <2>1 DEF Watermark
  <2>. QED
    BY <2>1, <2>3, <2>6, <2>7 DEF SkippedInv, Roles
<1>4. CASE CycleRaises
  <2>1. /\ pc \in Roles /\ pc' = "triage row" /\ UNCHANGED <<handled, mark, next, work>> /\ Fault
    BY <1>4 DEF CycleRaises, cycles, local, told, Roles
  <2>. DEFINE P == Passed(next, handled)
  <2>2. IsFiniteSet(P) /\ Cardinality(P) \in Nat
    BY <1>t, PassedDo
  <2>3. IsFiniteSet(work) /\ Cardinality(work) \in Nat
    <3>1. IsFiniteSet(1 .. last)
      BY <1>t, FS_Interval
    <3>. QED
      BY <1>t, <3>1, FS_Subset, FS_CardinalityType
  <2>4. Cardinality(P \ work) = Cardinality(P) - Cardinality(P \cap work)
    BY <2>2, FS_Difference
  <2>5. Cardinality(P \cap work) <= Cardinality(work) /\ Cardinality(P \cap work) \in Nat
    BY <2>3, FS_Subset, FS_CardinalityType
  <2>6. Cardinality(P \ work) <= CycleCap * faults /\ Cardinality(work) <= CycleCap
    BY <2>1 DEF SkippedInv
  <2>7. Cardinality(P) <= CycleCap * faults'
    <3>. HIDE DEF P
    <3>1. CycleCap * faults' = CycleCap * faults + CycleCap
      BY <1>f, <2>1
    <3>. QED
      BY <1>f, <2>2, <2>3, <2>4, <2>5, <2>6, <3>1
  <2>8. Watermark' = Watermark
    BY <2>1 DEF Watermark
  <2>. QED
    BY <1>m, <2>1, <2>7, <2>8 DEF SkippedInv, Roles
<1>5. CASE RoleFallsBack
  <2>1. pc \in Roles /\ pc' \in Roles /\ UNCHANGED <<handled, mark, next, work, faults>>
    BY <1>5 DEF RoleFallsBack, cycles, local, told, Roles
  <2>2. Watermark' = Watermark /\ pc' # "triage row"
    BY <2>1 DEF Watermark, Roles
  <2>. QED
    BY <2>1, <2>2 DEF SkippedInv
<1>6. CASE EndTriage
  <2>1. pc = "triage row" /\ pc' = "briefing" /\ UNCHANGED handled
    BY <1>6 DEF EndTriage, told
  <2>2. CASE mark' = next
    <3>0. mark' # Never
      BY <1>t, <2>2 DEF Never
    <3>1. Watermark' = next
      BY <2>2, <3>0 DEF Watermark
    <3>2. Cardinality(Passed(next, handled)) <= CycleCap * faults
      BY <2>1 DEF SkippedInv
    <3>3. Cardinality(Passed(next, handled)) \in Nat
      BY <1>t, PassedDo
    <3>4. Cardinality(Passed(next, handled)) <= CycleCap * faults'
      BY <1>f, <3>2, <3>3
    <3>. QED
      BY <2>1, <3>1, <3>4 DEF SkippedInv, Roles
  <2>3. CASE mark' = mark
    BY <1>1, <2>1, <2>3 DEF Triage, Roles
  <2>. QED
    BY <1>6, <2>2, <2>3 DEF EndTriage
<1>7. CASE UNCHANGED vars
  <2>1. UNCHANGED <<pc, handled, mark, next, work, faults>>
    BY <1>7 DEF vars, cycles, local, told
  <2>2. Watermark' = Watermark
    BY <2>1 DEF Watermark
  <2>. QED
    BY <2>1, <2>2 DEF SkippedInv
<1>8. CASE Arrive \/ Elapse \/ (\E d \in Due : ComesDue(d)) \/ (\E d \in {"review", "ceiling"} : Lapse(d))
  <2>1. UNCHANGED <<handled, mark>> /\ pc' \notin Triage
    BY <1>8 DEF Arrive, Elapse, ComesDue, Lapse, told, cycles, Triage, Roles
  <2>. QED
    BY <1>1, <2>1
<1>9. CASE BeginTick \/ AssignThread \/ AssignFails \/ WriteBack \/ Skip \/ StartManager \/ SendDigest \/ EndManager
            \/ NoReview \/ StartReview \/ SendBrief \/ ReviewFails \/ EndReview \/ Crash
  <2>1. UNCHANGED <<handled, mark>>
    BY <1>9 DEF BeginTick, AssignThread, AssignFails, WriteBack, Skip, StartManager, SendDigest, EndManager,
       CompleteManager, NoReview, StartReview, SendBrief, ReviewFails, EndReview, Crash, told, cycles
  <2>2. pc' \notin Triage
    BY <1>9 DEF BeginTick, AssignThread, AssignFails, WriteBack, Skip, StartManager, SendDigest, EndManager,
       NoReview, StartReview, SendBrief, ReviewFails, EndReview, Crash, Triage, Roles
  <2>. QED
    BY <1>1, <2>1, <2>2
<1>. QED
  BY <1>2, <1>3, <1>4, <1>5, <1>6, <1>7, <1>8, <1>9 DEF Next, Step

-----------------------------------------------------------------------------
(* Signals are counted again only by failures.                             *)

LEMMA CountedStep ==
  ASSUME TypeOK, CountedInv, [Next]_vars PROVE CountedInv'
<1>f. faults \in Nat /\ faults' \in Nat /\ faults' >= faults /\ (Fault => faults' = faults + 1)
  BY FaultsGrow
<1>t. /\ last \in Nat /\ counted \in [Ids -> Nat] /\ 1 .. last \subseteq Ids
      /\ tier1 \subseteq 1 .. last /\ threaded \subseteq tier1
      /\ work \subseteq 1 .. last /\ left \subseteq work
  BY Typed
<1>s. /\ \A i \in threaded \cup InHand : counted[i] >= 1
      /\ \A i \in Ids : /\ counted[i] \in Nat /\ counted[i] <= 1 + faults
                        /\ i \notin tier1 \cup InHand => counted[i] <= faults
      /\ pc \in Enriching => work \cap tier1 = {}
  BY <1>t DEF CountedInv
<1>i. Ids' = Ids
  BY DEF Ids
\* What leaves the counts and what is in hand alone.
<1>1. ASSUME UNCHANGED <<counted, tier1, threaded>>, InHand' = InHand,
             pc' \in Enriching => pc \in Enriching /\ work' = work
      PROVE  CountedInv'
  <2>1. \A i \in Ids : counted[i] <= 1 + faults' /\ (i \notin tier1 \cup InHand => counted[i] <= faults')
    BY <1>f, <1>s
  <2>2. pc' \in Enriching => work' \cap tier1' = {}
    BY <1>1, <1>s
  <2>. QED
    BY <1>1, <1>s, <1>i, <2>1, <2>2 DEF CountedInv
\* What ends the enrichment with a failure.
<1>2. ASSUME UNCHANGED <<counted, tier1, threaded>>, pc' \notin Enriching, Fault PROVE CountedInv'
  <2>1. \A i \in Ids : counted[i] <= 1 + faults' /\ counted[i] <= faults'
    BY <1>2, <1>f, <1>s
  <2>2. InHand' = {}
    BY <1>2 DEF InHand
  <2>. QED
    BY <1>2, <1>s, <1>i, <2>1, <2>2 DEF CountedInv
<1>3. CASE BeginTick
  <2>1. /\ UNCHANGED <<counted, tier1, threaded, faults>> /\ pc = "idle" /\ left' = work'
        /\ work' = Oldest(Raw, BatchSize)
    BY <1>3 DEF BeginTick, signals
  <2>2. InHand = {} /\ InHand' = {}
    BY <2>1 DEF InHand, Enriching
  <2>3. work' \cap tier1' = {}
    BY <2>1, BatchDo
  <2>. QED
    BY <1>s, <1>i, <2>1, <2>2, <2>3 DEF CountedInv
<1>4. CASE AssignThread
  <2>. DEFINE O == Oldest(left, 1)
  <2>1. /\ pc \in Enriching /\ pc' \in Enriching /\ left' = left \ O
        /\ UNCHANGED <<tier1, threaded, work, faults>>
        /\ counted' = [i \in Ids |-> IF i \in O THEN counted[i] + 1 ELSE counted[i]]
    BY <1>4 DEF AssignThread, Enriching
  <2>2. O \subseteq left
    BY DEF Oldest
  <2>. HIDE DEF O
  <2>3. InHand = work \ left /\ InHand' = InHand \cup O
    BY <1>t, <2>1, <2>2 DEF InHand
  <2>4. ASSUME NEW i \in Ids
        PROVE  /\ counted'[i] <= 1 + faults
               /\ i \notin tier1 \cup InHand' => counted'[i] <= faults
    <3>1. CASE i \in O
      <4>1. i \notin tier1 \cup InHand
        BY <1>s, <1>t, <2>1, <2>2, <2>3, <3>1
      <4>2. counted[i] \in Nat /\ counted[i] <= faults /\ counted'[i] = counted[i] + 1
        BY <1>s, <2>1, <3>1, <4>1
      <4>. QED
        BY <1>f, <2>3, <3>1, <4>2
    <3>2. CASE i \notin O
      BY <1>s, <2>1, <2>3, <3>2
    <3>. QED
      BY <3>1, <3>2
  <2>5. ASSUME NEW i \in threaded \cup InHand' PROVE counted'[i] >= 1
    <3>1. i \in Ids
      BY <1>t, <2>2, <2>3
    <3>2. counted[i] \in Nat
      BY <1>s, <3>1
    <3>3. CASE i \in O
      BY <2>1, <3>1, <3>2, <3>3
    <3>4. CASE i \notin O
      BY <1>s, <2>1, <2>3, <3>1, <3>4
    <3>. QED
      BY <3>3, <3>4
  <2>6. work' \cap tier1' = {}
    BY <1>s, <2>1
  <2>. QED
    BY <1>i, <2>1, <2>4, <2>5, <2>6 DEF CountedInv
<1>5. CASE AssignFails
  <2>1. UNCHANGED <<counted, tier1, threaded, work, left>> /\ pc \in Enriching /\ pc' \in Enriching
    BY <1>5 DEF AssignFails, local, Enriching
  <2>. QED
    BY <1>1, <2>1 DEF InHand
<1>6. CASE WriteBack
  <2>1. pc \in Enriching /\ pc' \notin Enriching /\ counted' = counted
    BY <1>6 DEF WriteBack, Enriching
  <2>2. CASE NoFault /\ tier1' = tier1 \cup work /\ threaded' = threaded \cup (work \ left)
    <3>1. InHand = work \ left /\ InHand' = {} /\ faults' = faults
      BY <2>1, <2>2 DEF InHand, NoFault
    <3>2. threaded' \cup InHand' = threaded \cup InHand
      BY <2>2, <3>1
    <3>3. tier1 \cup InHand \subseteq tier1' \cup InHand'
      BY <2>2, <3>1
    <3>4. \A i \in threaded' \cup InHand' : counted'[i] >= 1
      BY <1>s, <2>1, <3>2
    <3>5. \A i \in Ids : /\ counted'[i] <= 1 + faults'
                         /\ i \notin tier1' \cup InHand' => counted'[i] <= faults'
      BY <1>s, <2>1, <3>1, <3>3
    <3>. QED
      BY <1>i, <2>1, <3>4, <3>5 DEF CountedInv
  <2>3. CASE Fault /\ UNCHANGED <<tier1, threaded>>
    BY <1>2, <2>1, <2>3
  <2>. QED
    BY <1>6, <2>2, <2>3 DEF WriteBack
<1>7. CASE Crash
  <2>1. UNCHANGED <<counted, tier1, threaded>> /\ pc' \notin Enriching /\ Fault
    BY <1>7 DEF Crash, signals, Enriching
  <2>. QED
    BY <1>2, <2>1
<1>8. CASE UNCHANGED vars
  <2>1. UNCHANGED <<counted, tier1, threaded, pc, work, left>>
    BY <1>8 DEF vars, signals, local
  <2>. QED
    BY <1>1, <2>1 DEF InHand
<1>9. CASE Arrive \/ Elapse \/ (\E d \in Due : ComesDue(d)) \/ (\E d \in {"review", "ceiling"} : Lapse(d))
            \/ Skip \/ StartTriage \/ RoleEnds \/ RoleFallsBack \/ CycleRaises \/ EndTriage
            \/ StartManager \/ SendDigest \/ EndManager
            \/ NoReview \/ StartReview \/ SendBrief \/ ReviewFails \/ EndReview
  <2>1. UNCHANGED <<counted, tier1, threaded>>
    BY <1>9 DEF Arrive, Elapse, ComesDue, Lapse, Skip, StartTriage, RoleEnds, RoleFallsBack, CycleRaises, EndTriage,
       StartManager, SendDigest, EndManager, NoReview, StartReview, SendBrief, ReviewFails, EndReview, signals
  <2>2. pc \notin Enriching /\ pc' \notin Enriching
    BY <1>9 DEF Arrive, Elapse, ComesDue, Lapse, Skip, StartTriage, RoleEnds, RoleFallsBack, CycleRaises, EndTriage,
       StartManager, SendDigest, EndManager, NoReview, StartReview, SendBrief, ReviewFails, EndReview, Roles, Enriching
  <2>3. InHand' = InHand
    BY <2>2 DEF InHand
  <2>. QED
    BY <1>1, <2>1, <2>2, <2>3
<1>. QED
  BY <1>3, <1>4, <1>5, <1>6, <1>7, <1>8, <1>9 DEF Next, Step

-----------------------------------------------------------------------------
(* The user is told again only by failures.                                *)

LEMMA ToldStep ==
  ASSUME TypeOK, ToldInv, [Next]_vars PROVE ToldInv'
<1>f. faults \in Nat /\ faults' \in Nat /\ faults' >= faults /\ (Fault => faults' = faults + 1)
  BY FaultsGrow
<1>t. /\ managed \in BOOLEAN /\ due \in [Due -> BOOLEAN] /\ dues \in [Due -> Nat]
      /\ sent \in [{"digest", "brief"} -> Nat]
  BY DEF TypeOK
<1>n. /\ sent["digest"] \in Nat /\ sent["brief"] \in Nat /\ dues["manager"] \in Nat /\ dues["review"] \in Nat
      /\ due["manager"] \in BOOLEAN /\ due["review"] \in BOOLEAN
  BY <1>t DEF Due
<1>o. /\ (MayDigest /\ DigestOwed = 1) \/ (~MayDigest /\ DigestOwed = 0)
      /\ (MayDigest' /\ DigestOwed' = 1) \/ (~MayDigest' /\ DigestOwed' = 0)
      /\ (due["review"] /\ BriefOwed = 1) \/ (~due["review"] /\ BriefOwed = 0)
      /\ (due'["review"] /\ BriefOwed' = 1) \/ (~due'["review"] /\ BriefOwed' = 0)
      /\ (DigestRow /\ DigestSent = 1) \/ (~DigestRow /\ DigestSent = 0)
      /\ (DigestRow' /\ DigestSent' = 1) \/ (~DigestRow' /\ DigestSent' = 0)
      /\ (BriefRow /\ BriefSent = 1) \/ (~BriefRow /\ BriefSent = 0)
      /\ (BriefRow' /\ BriefSent' = 1) \/ (~BriefRow' /\ BriefSent' = 0)
  BY DEF DigestOwed, DigestSent, BriefOwed, BriefSent
<1>r. /\ DigestOwed \in 0 .. 1 /\ DigestOwed' \in 0 .. 1 /\ BriefOwed \in 0 .. 1 /\ BriefOwed' \in 0 .. 1
      /\ DigestSent \in 0 .. 1 /\ DigestSent' \in 0 .. 1 /\ BriefSent \in 0 .. 1 /\ BriefSent' \in 0 .. 1
  BY <1>o
<1>g. faults \in Nat /\ faults' \in Nat /\ faults' >= faults
  BY <1>f
\* What changes nothing of it but pc, between places that owe nothing, or fails.
<1>1. ASSUME UNCHANGED <<managed, due, dues, sent>>,
             pc' \notin {"digest", "manager row", "message", "review row"},
             Fault \/ pc \notin {"manager row", "review row"}
      PROVE  ToldInv'
  <2>1. MayDigest' <=> MayDigest
    BY <1>1 DEF MayDigest
  <2>2. DigestSent' = 0 /\ BriefSent' = 0 /\ DigestOwed' = DigestOwed /\ BriefOwed' = BriefOwed
    BY <1>1, <1>o, <2>1 DEF DigestRow, BriefRow
  <2>3. /\ sent["digest"] + DigestOwed <= 1 + dues["manager"] + faults + DigestSent
        /\ sent["brief"] + BriefOwed <= dues["review"] + faults + BriefSent
    BY DEF ToldInv
  <2>4. faults' = faults + 1 \/ (DigestSent = 0 /\ BriefSent = 0 /\ faults' >= faults)
    BY <1>1, <1>f, <1>o DEF DigestRow, BriefRow
  <2>5. /\ sent["digest"] + DigestOwed' <= 1 + dues["manager"] + faults' + DigestSent'
        /\ sent["brief"] + BriefOwed' <= dues["review"] + faults' + BriefSent'
    BY <1>g, <1>n, <1>r, <2>2, <2>3, <2>4
  <2>6. due["manager"] => managed
    BY DEF ToldInv
  <2>. QED
    BY <1>1, <2>5, <2>6 DEF ToldInv
\* The two bounds, in numbers.
<1>2. /\ sent["digest"] + DigestOwed <= 1 + dues["manager"] + faults + DigestSent
      /\ sent["brief"] + BriefOwed <= dues["review"] + faults + BriefSent
      /\ due["manager"] => managed
      /\ pc \in {"digest", "manager row"} => MayDigest
      /\ pc \in {"message", "review row"} => due["review"]
  BY DEF ToldInv
<1>b. /\ sent["digest"] + DigestOwed <= 1 + dues["manager"] + faults + DigestSent
      /\ sent["brief"] + BriefOwed <= dues["review"] + faults + BriefSent
  BY <1>2
<1>3. ASSUME NEW d \in Due, ComesDue(d) PROVE ToldInv'
  <2>1. /\ pc = "idle" /\ pc' = "idle" /\ ~due[d] /\ (d = "manager" => managed)
        /\ due' = [due EXCEPT ![d] = TRUE] /\ dues' = [dues EXCEPT ![d] = dues[d] + 1]
        /\ UNCHANGED <<managed, sent, faults>>
    BY <1>3 DEF ComesDue, cycles, told
  <2>2. DigestSent = 0 /\ BriefSent = 0 /\ DigestSent' = 0 /\ BriefSent' = 0
    BY <1>o, <2>1 DEF DigestRow, BriefRow
  <2>3. due'["manager"] => managed'
    BY <1>2, <1>t, <2>1 DEF Due
  <2>4. \/ DigestOwed = 0 /\ DigestOwed' = 1 /\ dues'["manager"] = dues["manager"] + 1
        \/ DigestOwed' = DigestOwed /\ dues'["manager"] = dues["manager"]
    <3>1. CASE d = "manager"
      <4>1. ~MayDigest /\ MayDigest' /\ dues'["manager"] = dues["manager"] + 1
        BY <1>t, <2>1, <3>1 DEF MayDigest, Due
      <4>. QED
        BY <1>o, <4>1 DEF DigestRow, BriefRow
    <3>2. CASE d # "manager"
      <4>1. (MayDigest' <=> MayDigest) /\ dues'["manager"] = dues["manager"]
        BY <1>t, <2>1, <3>2 DEF MayDigest, Due
      <4>. QED
        BY <1>o, <4>1 DEF DigestRow, BriefRow
    <3>. QED
      BY <3>1, <3>2
  <2>5. \/ BriefOwed = 0 /\ BriefOwed' = 1 /\ dues'["review"] = dues["review"] + 1
        \/ BriefOwed' = BriefOwed /\ dues'["review"] = dues["review"]
    <3>1. CASE d = "review"
      <4>1. ~due["review"] /\ due'["review"] /\ dues'["review"] = dues["review"] + 1
        BY <1>t, <2>1, <3>1 DEF Due
      <4>. QED
        BY <1>o, <4>1 DEF DigestRow, BriefRow
    <3>2. CASE d # "review"
      <4>1. due'["review"] = due["review"] /\ dues'["review"] = dues["review"]
        BY <1>t, <2>1, <3>2 DEF Due
      <4>. QED
        BY <1>o, <4>1 DEF DigestRow, BriefRow
    <3>. QED
      BY <3>1, <3>2
  <2>6. /\ sent'["digest"] + DigestOwed' <= 1 + dues'["manager"] + faults' + DigestSent'
        /\ sent'["brief"] + BriefOwed' <= dues'["review"] + faults' + BriefSent'
    BY <1>b, <1>g, <1>n, <1>r, <2>1, <2>2, <2>4, <2>5
  <2>. QED
    BY <2>1, <2>3, <2>6 DEF ToldInv
<1>4. ASSUME NEW d \in {"review", "ceiling"}, Lapse(d) PROVE ToldInv'
  <2>1. /\ pc = "idle" /\ pc' = "idle" /\ due' = [due EXCEPT ![d] = FALSE]
        /\ UNCHANGED <<managed, sent, dues, faults>>
    BY <1>4 DEF Lapse, cycles, told
  <2>2. due'["manager"] = due["manager"] /\ (due'["review"] => due["review"])
    BY <1>t, <2>1 DEF Due
  <2>3. MayDigest' <=> MayDigest
    BY <2>1, <2>2 DEF MayDigest
  <2>4. /\ BriefOwed' <= BriefOwed /\ DigestOwed' = DigestOwed
        /\ DigestSent' = DigestSent /\ BriefSent' = BriefSent
    BY <1>o, <2>1, <2>2, <2>3 DEF DigestRow, BriefRow
  <2>5. /\ sent'["digest"] + DigestOwed' <= 1 + dues'["manager"] + faults' + DigestSent'
        /\ sent'["brief"] + BriefOwed' <= dues'["review"] + faults' + BriefSent'
    BY <1>b, <1>g, <1>n, <1>r, <2>1, <2>4
  <2>. QED
    BY <1>2, <2>1, <2>2, <2>5 DEF ToldInv
<1>5. CASE StartManager
  <2>1. /\ pc = "decide" /\ pc' \in {"digest", "manager row"} /\ ManagerDue
        /\ UNCHANGED <<managed, due, dues, sent>>
    BY <1>5 DEF StartManager, cycles, clock, told
  <2>u. dues' = dues /\ sent' = sent
    BY <2>1
  <2>2. MayDigest /\ MayDigest'
    BY <2>1 DEF ManagerDue, MayDigest
  <2>3. /\ DigestOwed = 1 /\ DigestSent = 0 /\ BriefSent = 0
        /\ DigestOwed' = 1 /\ BriefSent' = 0 /\ BriefOwed' = BriefOwed
    BY <1>o, <2>1, <2>2 DEF DigestRow, BriefRow
  <2>4. /\ sent'["digest"] + DigestOwed' <= 1 + dues'["manager"] + faults' + DigestSent'
        /\ sent'["brief"] + BriefOwed' <= dues'["review"] + faults' + BriefSent'
    BY <1>b, <1>g, <1>n, <1>r, <2>u, <2>3
  <2>. QED
    BY <1>2, <2>1, <2>2, <2>4 DEF ToldInv
<1>6. CASE SendDigest
  <2>1. /\ pc = "digest" /\ pc' = "manager row" /\ UNCHANGED <<managed, due, dues>>
        /\ (Fault /\ sent' = sent) \/ (NoFault /\ sent' = [sent EXCEPT !["digest"] = sent["digest"] + 1])
    BY <1>6 DEF SendDigest, cycles, clock
  <2>2. MayDigest /\ MayDigest'
    BY <1>2, <2>1 DEF MayDigest
  <2>3. /\ DigestOwed = 1 /\ DigestSent = 0 /\ BriefSent = 0
        /\ DigestOwed' = 1 /\ DigestSent' = 1 /\ BriefSent' = 0 /\ BriefOwed' = BriefOwed
    BY <1>o, <2>1, <2>2 DEF DigestRow, BriefRow
  <2>4. /\ sent'["brief"] = sent["brief"] /\ dues' = dues
        /\ sent'["digest"] = sent["digest"] \/ sent'["digest"] = sent["digest"] + 1
    BY <1>t, <2>1
  <2>5. /\ sent'["digest"] + DigestOwed' <= 1 + dues'["manager"] + faults' + DigestSent'
        /\ sent'["brief"] + BriefOwed' <= dues'["review"] + faults' + BriefSent'
    BY <1>b, <1>g, <1>n, <1>r, <2>3, <2>4
  <2>. QED
    BY <1>2, <2>1, <2>2, <2>5 DEF ToldInv
<1>7. CASE EndManager
  <2>1. pc = "manager row" /\ pc' = "briefing" /\ UNCHANGED <<dues, sent>>
    BY <1>7 DEF EndManager, told
  <2>u. dues' = dues /\ sent' = sent
    BY <2>1
  <2>2. CASE NoFault /\ CompleteManager
    <3>1. managed' = TRUE /\ due' = [due EXCEPT !["manager"] = FALSE] /\ faults' = faults
      BY <2>2 DEF CompleteManager, NoFault
    <3>u. faults' = faults
      BY <3>1
    <3>2. due'["manager"] = FALSE /\ due'["review"] = due["review"]
      BY <1>t, <3>1 DEF Due
    <3>3. MayDigest /\ ~MayDigest'
      BY <1>2, <2>1, <3>1, <3>2 DEF MayDigest
    <3>4. /\ DigestOwed = 1 /\ DigestSent = 1 /\ BriefSent = 0
          /\ DigestOwed' = 0 /\ DigestSent' = 0 /\ BriefSent' = 0 /\ BriefOwed' = BriefOwed
      BY <1>o, <2>1, <3>2, <3>3 DEF DigestRow, BriefRow
    <3>5. /\ sent'["digest"] + DigestOwed' <= 1 + dues'["manager"] + faults' + DigestSent'
        /\ sent'["brief"] + BriefOwed' <= dues'["review"] + faults' + BriefSent'
      BY <1>b, <1>g, <1>n, <1>r, <2>u, <3>u, <3>4
    <3>. QED
      BY <2>1, <3>1, <3>2, <3>5 DEF ToldInv
  <2>3. CASE Fault /\ UNCHANGED <<mark, elapsed, managed, due>>
    BY <1>1, <2>1, <2>3
  <2>. QED
    BY <1>7, <2>2, <2>3 DEF EndManager
<1>8. CASE StartReview
  <2>1. /\ pc = "briefing" /\ due["review"] /\ pc' \in {"message", "review row"}
        /\ UNCHANGED <<managed, due, dues, sent>>
    BY <1>8 DEF StartReview, cycles, clock
  <2>u. dues' = dues /\ sent' = sent
    BY <2>1
  <2>2. MayDigest' <=> MayDigest
    BY <2>1 DEF MayDigest
  <2>3. /\ DigestSent = 0 /\ BriefSent = 0 /\ BriefOwed = 1
        /\ DigestSent' = 0 /\ BriefOwed' = 1 /\ DigestOwed' = DigestOwed
    BY <1>o, <2>1, <2>2 DEF DigestRow, BriefRow
  <2>4. /\ sent'["digest"] + DigestOwed' <= 1 + dues'["manager"] + faults' + DigestSent'
        /\ sent'["brief"] + BriefOwed' <= dues'["review"] + faults' + BriefSent'
    BY <1>b, <1>g, <1>n, <1>r, <2>u, <2>3
  <2>. QED
    BY <1>2, <2>1, <2>2, <2>4 DEF ToldInv
<1>9. CASE SendBrief
  <2>1. /\ pc = "message" /\ pc' = "review row" /\ UNCHANGED <<managed, due, dues, faults>>
        /\ sent' = [sent EXCEPT !["brief"] = sent["brief"] + 1]
    BY <1>9 DEF SendBrief, cycles, clock
  <2>u. dues' = dues /\ faults' = faults
    BY <2>1
  <2>2. MayDigest' <=> MayDigest
    BY <2>1 DEF MayDigest
  <2>3. /\ DigestSent = 0 /\ BriefSent = 0 /\ BriefOwed = 1
        /\ DigestSent' = 0 /\ BriefSent' = 1 /\ BriefOwed' = 1 /\ DigestOwed' = DigestOwed
    BY <1>2, <1>o, <2>1, <2>2 DEF DigestRow, BriefRow
  <2>4. sent'["brief"] = sent["brief"] + 1 /\ sent'["digest"] = sent["digest"]
    BY <1>t, <2>1
  <2>5. /\ sent'["digest"] + DigestOwed' <= 1 + dues'["manager"] + faults' + DigestSent'
        /\ sent'["brief"] + BriefOwed' <= dues'["review"] + faults' + BriefSent'
    BY <1>b, <1>g, <1>n, <1>r, <2>u, <2>3, <2>4
  <2>. QED
    BY <1>2, <2>1, <2>2, <2>5 DEF ToldInv
<1>10. CASE EndReview
  <2>1. /\ pc = "review row" /\ pc' = "idle" /\ due' = [due EXCEPT !["review"] = FALSE]
        /\ UNCHANGED <<managed, dues, sent, faults>>
    BY <1>10 DEF EndReview, told
  <2>u. dues' = dues /\ sent' = sent /\ faults' = faults
    BY <2>1
  <2>2. due["review"] /\ due'["review"] = FALSE /\ due'["manager"] = due["manager"]
    BY <1>2, <1>t, <2>1 DEF Due
  <2>3. MayDigest' <=> MayDigest
    BY <2>1, <2>2 DEF MayDigest
  <2>4. /\ DigestSent = 0 /\ BriefSent = 1 /\ BriefOwed = 1
        /\ BriefOwed' = 0 /\ DigestSent' = 0 /\ BriefSent' = 0 /\ DigestOwed' = DigestOwed
    BY <1>o, <2>1, <2>2, <2>3 DEF DigestRow, BriefRow
  <2>5. /\ sent'["digest"] + DigestOwed' <= 1 + dues'["manager"] + faults' + DigestSent'
        /\ sent'["brief"] + BriefOwed' <= dues'["review"] + faults' + BriefSent'
    BY <1>b, <1>g, <1>n, <1>r, <2>u, <2>4
  <2>. QED
    BY <1>2, <2>1, <2>2, <2>3, <2>5 DEF ToldInv
<1>11. CASE UNCHANGED vars
  <2>1. UNCHANGED <<pc, managed, due, dues, sent, faults>>
    BY <1>11 DEF vars, cycles, clock, told
  <2>2. /\ (MayDigest' <=> MayDigest) /\ DigestOwed' = DigestOwed /\ DigestSent' = DigestSent
        /\ BriefOwed' = BriefOwed /\ BriefSent' = BriefSent
    BY <2>1 DEF MayDigest, DigestOwed, DigestSent, BriefOwed, BriefSent, DigestRow, BriefRow
  <2>. QED
    BY <1>2, <2>1, <2>2 DEF ToldInv
<1>12. CASE Crash \/ ReviewFails
  <2>1. /\ UNCHANGED <<managed, due, dues, sent>> /\ pc' = "idle" /\ Fault
    BY <1>12 DEF Crash, ReviewFails, cycles, clock, told
  <2>. QED
    BY <1>1, <2>1
<1>13. CASE Arrive \/ Elapse \/ BeginTick \/ AssignThread \/ AssignFails \/ WriteBack \/ Skip \/ StartTriage
            \/ RoleEnds \/ RoleFallsBack \/ CycleRaises \/ EndTriage \/ NoReview
  <2>1. UNCHANGED <<managed, due, dues, sent>>
    BY <1>13 DEF Arrive, Elapse, BeginTick, AssignThread, AssignFails, WriteBack, Skip, StartTriage, RoleEnds,
       RoleFallsBack, CycleRaises, EndTriage, NoReview, cycles, clock, told
  <2>2. /\ pc' \notin {"digest", "manager row", "message", "review row"}
        /\ pc \notin {"manager row", "review row"}
    BY <1>13 DEF Arrive, Elapse, BeginTick, AssignThread, AssignFails, WriteBack, Skip, StartTriage, RoleEnds,
       RoleFallsBack, CycleRaises, EndTriage, NoReview, Roles
  <2>. QED
    BY <1>1, <2>1, <2>2
<1>. QED
  BY <1>3, <1>4, <1>5, <1>6, <1>7, <1>8, <1>9, <1>10, <1>11, <1>12, <1>13 DEF Next, Step

-----------------------------------------------------------------------------
(* The tick.                                                               *)

LEMMA AtFirst == Init => ObsInv
<1>. SUFFICES ASSUME Init PROVE ObsInv
  OBVIOUS
<1>c. MaxSignals \in Nat /\ CycleCap \in Nat /\ MaxFaults \in Nat /\ Ids \subseteq Nat
  BY ObservationAssumption DEF Ids
<1>1. TypeOK
  <2>1. /\ last \in 0 .. MaxSignals /\ mark \in Never .. last /\ next \in 0 .. last /\ faults \in 0 .. MaxFaults
        /\ elapsed \in 0 .. 2
    BY <1>c DEF Init, Never
  <2>2. /\ tier1 \subseteq 1 .. last /\ threaded \subseteq tier1 /\ work \subseteq 1 .. last /\ left \subseteq work
        /\ handled \subseteq 1 .. last
    BY DEF Init
  <2>3. /\ counted \in [Ids -> Nat] /\ shown \in [Ids -> Nat] /\ sent \in [{"digest", "brief"} -> Nat]
        /\ due \in [Due -> BOOLEAN] /\ dues \in [Due -> Nat]
    BY DEF Init
  <2>. QED
    BY <2>1, <2>2, <2>3 DEF Init, TypeOK
<1>2. pc = "idle" /\ faults = 0 /\ handled = {} /\ Watermark = 0
  BY DEF Init, Watermark
<1>3. ShownInv
  BY <1>c, <1>2 DEF Init, ShownInv
<1>4. SkippedInv
  <2>1. Passed(0, {}) = {}
    BY DEF Passed
  <2>2. Cardinality(Passed(Watermark, handled)) <= CycleCap * faults
    BY <1>c, <1>2, <2>1, FS_EmptySet
  <2>. QED
    BY <1>2, <2>2 DEF SkippedInv, Roles
<1>5. CountedInv
  <2>1. InHand = {}
    BY <1>2 DEF InHand, Enriching
  <2>. QED
    BY <1>c, <1>2, <2>1 DEF Init, CountedInv, Enriching
<1>6. ToldInv
  BY <1>2 DEF Init, ToldInv, MayDigest, DigestOwed, DigestSent, BriefOwed, BriefSent, DigestRow, BriefRow, Due
<1>. QED
  BY <1>1, <1>3, <1>4, <1>5, <1>6 DEF ObsInv

\* Of a tick, and of what else it does.
LEMMA ObsInvariant == TickSpec => []ObsInv
<1>1. TickInit => ObsInv
  BY AtFirst DEF TickInit
<1>2. ObsInv /\ [TickNext]_tick => ObsInv'
  <2>1. [TickNext]_tick => [Next]_vars
    BY DEF TickNext, Observing, Feeding, Meeting, tick, observing
  <2>. QED
    BY <2>1, TypeStep, ShownStep, SkippedStep, CountedStep, ToldStep DEF ObsInv
<1>. QED
  BY <1>1, <1>2, PTL DEF TickSpec

\* Nothing is observed, counted or told twice, and nothing is passed over, but for a failure: for any
\* batch and cap, and whatever the rest of the tick does (observation.py:418, signal_intelligence.py:250).
THEOREM OncePerSignalAlways == TickSpec => []OncePerSignal
<1>1. ObsInv => OncePerSignal
  <2>1. ASSUME ObsInv PROVE ShownOncePerFailure
    BY <2>1 DEF ObsInv, ShownInv, ShownOncePerFailure
  <2>2. ASSUME ObsInv PROVE SkippedOnlyByFailure
    BY <2>2 DEF ObsInv, SkippedInv, Passed, SkippedOnlyByFailure
  <2>3. ASSUME ObsInv PROVE CountedOncePerFailure
    BY <2>3 DEF ObsInv, CountedInv, CountedOncePerFailure
  <2>4. ASSUME ObsInv PROVE ToldOncePerDue
    <3>1. TypeOK /\ ToldInv
      BY <2>4 DEF ObsInv
    <3>2. /\ sent["digest"] \in Nat /\ sent["brief"] \in Nat /\ dues["manager"] \in Nat /\ dues["review"] \in Nat
          /\ faults \in Nat
      BY <3>1, Typed DEF TypeOK, Due
    <3>4. /\ DigestOwed \in 0 .. 1 /\ BriefOwed \in 0 .. 1 /\ DigestSent \in 0 .. 1 /\ BriefSent \in 0 .. 1
          /\ DigestSent <= DigestOwed /\ BriefSent <= BriefOwed
      <4>1. /\ (MayDigest /\ DigestOwed = 1) \/ (~MayDigest /\ DigestOwed = 0)
            /\ (due["review"] /\ BriefOwed = 1) \/ (~due["review"] /\ BriefOwed = 0)
            /\ (DigestRow /\ DigestSent = 1) \/ (~DigestRow /\ DigestSent = 0)
            /\ (BriefRow /\ BriefSent = 1) \/ (~BriefRow /\ BriefSent = 0)
        BY DEF DigestOwed, DigestSent, BriefOwed, BriefSent
      <4>2. (DigestRow => MayDigest) /\ (BriefRow => due["review"])
        BY <3>1 DEF ToldInv, DigestRow, BriefRow
      <4>. QED
        BY <4>1, <4>2
    <3>5. /\ sent["digest"] + DigestOwed <= 1 + dues["manager"] + faults + DigestSent
          /\ sent["brief"] + BriefOwed <= dues["review"] + faults + BriefSent
      BY <3>1 DEF ToldInv
    <3>6. /\ sent["digest"] <= 1 + dues["manager"] + faults
          /\ sent["brief"] <= dues["review"] + faults
      BY <3>2, <3>4, <3>5
    <3>. QED
      BY <3>6 DEF ToldOncePerDue
  <2>. QED
    BY <2>1, <2>2, <2>3, <2>4 DEF OncePerSignal, ObsInv
<1>. QED
  BY <1>1, ObsInvariant, PTL

-----------------------------------------------------------------------------
(* The feeds.  A row of the open transaction is written only if there is   *)
(* none yet, committed or not, so together they are one: the transaction   *)
(* of a feed counts its rows before they are seen.                         *)

FeedInv ==
  /\ F!TypeOK
  /\ at = "log" => results # <<>>
  /\ \A r \in 1 .. Len(results) : results[r].things \subseteq Listable[results[r].feed]
  /\ \A k \in F!Keys : logged[k][0] + logged[k][1] + logged[k][2] + open[k] <= 1

\* What is extracted of a part of what a feed may list has keys of the feed.
LEMMA ExtractedDo ==
  ASSUME NEW f \in F!Feeds, NEW S, S \subseteq Listable[f]
  PROVE  /\ DOMAIN F!Extracted(f, S) \subseteq F!Things
         /\ \A i \in DOMAIN F!Extracted(f, S) : F!Extracted(f, S)[i] \in F!Keys
<1>. DEFINE L == Listable[f]
<1>1. Extractor[f] \in {"web_search", "file_content", "github_activity", "jobs", "calendar"}
  BY TickAssumption DEF F!FeedsAssumption
<1>2. /\ DOMAIN F!Extracted(f, S) \subseteq S
      /\ DOMAIN F!Extracted(f, S) \subseteq DOMAIN F!Extracted(f, L)
      /\ \A i \in DOMAIN F!Extracted(f, S) : F!Extracted(f, S)[i] = F!Extracted(f, L)[i]
  <2>1. CASE Extractor[f] = "web_search"
    BY <2>1 DEF F!Extracted, F!WebSearch
  <2>2. CASE Extractor[f] = "file_content"
    BY <2>2 DEF F!Extracted, F!FileContent
  <2>3. CASE Extractor[f] = "github_activity"
    BY <2>3 DEF F!Extracted, F!GithubActivity
  <2>4. CASE Extractor[f] = "jobs"
    BY <2>4 DEF F!Extracted, F!JobListings
  <2>5. CASE Extractor[f] = "calendar"
    BY <2>5 DEF F!Extracted, F!CalendarEvents
  <2>. QED
    BY <1>1, <2>1, <2>2, <2>3, <2>4, <2>5
<1>3. DOMAIN F!Extracted(f, S) \subseteq F!Things
  BY <1>2 DEF F!Things
<1>4. ASSUME NEW i \in DOMAIN F!Extracted(f, S) PROVE F!Extracted(f, S)[i] \in F!Keys
  <2>1. F!Extracted(f, S)[i] \in F!KeysOf(f, L)
    BY <1>2 DEF F!KeysOf
  <2>. QED
    BY <2>1 DEF F!Keys
<1>. QED
  BY <1>3, <1>4

LEMMA FeedsAtFirst == F!Init => FeedInv
<1>. SUFFICES ASSUME F!Init PROVE FeedInv
  OBVIOUS
<1>1. F!TypeOK
  <2>1. listed \in [F!Feeds -> SUBSET F!Things] /\ \A f \in F!Feeds : listed[f] \subseteq Listable[f]
    BY DEF F!Init
  <2>2. open \in [F!Keys -> Nat] /\ logged \in [F!Keys -> [F!Dates -> Nat]]
    BY DEF F!Init, F!NoRows
  <2>3. results \in Seq([feed : F!Feeds, things : SUBSET F!Things])
    BY DEF F!Init
  <2>4. DOMAIN batch = {}
    BY DEF F!Init
  <2>5. changes \in 0 .. MaxChanges /\ skips \in 0 .. MaxSkips /\ failures \in 0 .. Failures
    BY TickAssumption DEF F!Init, F!FeedsAssumption
  <2>. QED
    BY <2>1, <2>2, <2>3, <2>4, <2>5 DEF F!Init, F!TypeOK
<1>2. results = <<>> /\ at = "rest"
  BY DEF F!Init
<1>3. ASSUME NEW k \in F!Keys PROVE logged[k][0] + logged[k][1] + logged[k][2] + open[k] <= 1
  BY DEF F!Init, F!NoRows, F!Dates
<1>. QED
  BY <1>1, <1>2, <1>3 DEF FeedInv

LEMMA FaultsDo ==
  ASSUME F!TypeOK, F!Fault \/ F!NoFault
  PROVE  failures' \in 0 .. Failures
<1>. QED
  BY TickAssumption DEF F!TypeOK, F!Fault, F!NoFault, F!FeedsAssumption

\* A poll appends at most one answer, of what its feed may list.
LEMMA CalledDo ==
  ASSUME F!TypeOK, NEW f \in F!Feeds, F!Source(f) \/ F!Directory(f) \/ F!Repository(f)
  PROVE  /\ toPoll' \subseteq F!Feeds /\ failures' \in 0 .. Failures
         /\ \/ results' = results
            \/ \E S \in SUBSET Listable[f] : results' = Append(results, [feed |-> f, things |-> S])
<1>1. F!Fault \/ F!NoFault
  BY DEF F!Source, F!Directory, F!Repository, F!Called
<1>2. toPoll' \subseteq F!Feeds
  BY DEF F!Source, F!Directory, F!Repository, F!Called, F!Noted, F!TypeOK
<1>3. listed[f] \subseteq Listable[f]
  BY DEF F!TypeOK
<1>4. \/ results' = results
      \/ F!Answer(f, listed[f]) \/ F!Answer(f, {})
  BY DEF F!Source, F!Directory, F!Repository, F!Called
<1>5. \/ results' = results
      \/ \E S \in SUBSET Listable[f] : results' = Append(results, [feed |-> f, things |-> S])
  BY <1>3, <1>4 DEF F!Answer
<1>. QED
  BY <1>1, <1>2, <1>5, FaultsDo

LEMMA FeedStep ==
  ASSUME FeedInv, F!Next
  PROVE  FeedInv'
<1>. USE DEF FeedInv
<1>0. /\ listed \in [F!Feeds -> SUBSET F!Things] /\ \A f \in F!Feeds : listed[f] \subseteq Listable[f]
      /\ results \in Seq([feed : F!Feeds, things : SUBSET F!Things])
      /\ open \in [F!Keys -> Nat] /\ logged \in [F!Keys -> [F!Dates -> Nat]]
      /\ F!Dates = 0 .. 2
  BY DEF F!TypeOK, F!Dates
<1>a. \A k \in F!Keys : open[k] \in Nat /\ \A d \in F!Dates : logged[k][d] \in Nat
  BY <1>0
<1>. DEFINE Kept == /\ \A r \in 1 .. Len(results) : results[r].things \subseteq Listable[results[r].feed]
                    /\ \A k \in F!Keys : logged[k][0] + logged[k][1] + logged[k][2] + open[k] <= 1
<1>b. Kept
  OBVIOUS
<1>c. ASSUME results # <<>>
      PROVE  /\ Tail(results) \in Seq([feed : F!Feeds, things : SUBSET F!Things])
             /\ \A r \in 1 .. Len(Tail(results)) : Tail(results)[r].things \subseteq Listable[Tail(results)[r].feed]
  <2>1. Tail(results) \in Seq([feed : F!Feeds, things : SUBSET F!Things]) /\ Len(Tail(results)) = Len(results) - 1
    BY <1>0, <1>c
  <2>2. ASSUME NEW r \in 1 .. Len(Tail(results)) PROVE Tail(results)[r] = results[r + 1] /\ r + 1 \in 1 .. Len(results)
    BY <1>0, <1>c, <2>1
  <2>. QED
    BY <1>b, <2>1, <2>2
<1>d. \A r \in 1 .. Len(<<>>) : <<>>[r].things \subseteq Listable[<<>>[r].feed]
  OBVIOUS
<1>e. F!NoRows \in [F!Keys -> Nat] /\ \A k \in F!Keys : F!NoRows[k] = 0
  BY DEF F!NoRows
<1>1. ASSUME NEW f \in F!Feeds, NEW i \in Listable[f], F!Change(f, i) PROVE FeedInv'
  <2>1. Listable[f] \subseteq F!Things
    BY DEF F!Things
  <2>2. /\ listed' \in [F!Feeds -> SUBSET F!Things]
        /\ \A g \in F!Feeds : listed'[g] \subseteq Listable[g]
    BY <1>0, <1>1, <2>1 DEF F!Change
  <2>3. changes' \in 0 .. MaxChanges
    BY <1>1, TickAssumption DEF F!Change, F!TypeOK, F!FeedsAssumption
  <2>4. F!TypeOK'
    BY <1>1, <2>2, <2>3 DEF F!Change, F!TypeOK
  <2>. QED
    BY <1>1, <1>b, <2>4 DEF F!Change
<1>2. ASSUME NEW f \in F!Feeds, F!Elapse(f) PROVE FeedInv'
  <2>1. F!TypeOK'
    BY <1>2 DEF F!Elapse, F!TypeOK
  <2>. QED
    BY <1>2, <1>b, <2>1 DEF F!Elapse
<1>3. ASSUME F!Midnight PROVE FeedInv'
  <2>1. logged' \in [F!Keys -> [F!Dates -> Nat]]
    BY <1>0, <1>a, <1>3 DEF F!Midnight
  <2>2. F!TypeOK'
    BY <1>3, <2>1 DEF F!Midnight, F!TypeOK
  <2>3. ASSUME NEW k \in F!Keys PROVE logged'[k][0] + logged'[k][1] + logged'[k][2] + open'[k] <= 1
    <3>1. logged'[k][0] = 0 /\ logged'[k][1] = logged[k][0] /\ logged'[k][2] = logged[k][1] /\ open' = open
      BY <1>0, <1>3 DEF F!Midnight
    <3>2. logged[k][0] + logged[k][1] + logged[k][2] + open[k] <= 1 /\ logged[k][2] \in Nat
          /\ logged[k][0] \in Nat /\ logged[k][1] \in Nat /\ open[k] \in Nat
      BY <1>0, <1>a, <1>b
    <3>. QED
      BY <3>1, <3>2
  <2>. QED
    BY <1>3, <1>b, <2>2, <2>3 DEF F!Midnight
<1>4. ASSUME F!StartTick PROVE FeedInv'
  <2>1. F!TypeOK'
    BY <1>4 DEF F!StartTick, F!TypeOK
  <2>. QED
    BY <1>4, <1>b, <2>1 DEF F!StartTick
<1>5. ASSUME F!Poll PROVE FeedInv'
  <2>1. PICK n \in queue : /\ queue' = queue \ {n} /\ at' = IF queue' = {} THEN "extract" ELSE "poll"
                           /\ F!Source(Order[n]) \/ F!Directory(Order[n]) \/ F!Repository(Order[n])
    BY <1>5 DEF F!Poll
  <2>2. Order[n] \in F!Feeds
    BY DEF F!TypeOK, F!Feeds
  <2>3. /\ toPoll' \subseteq F!Feeds /\ failures' \in 0 .. Failures
        /\ \/ results' = results
           \/ \E S \in SUBSET Listable[Order[n]] : results' = Append(results, [feed |-> Order[n], things |-> S])
    BY <2>1, <2>2, CalledDo
  <2>4. /\ results' \in Seq([feed : F!Feeds, things : SUBSET F!Things])
        /\ \A r \in 1 .. Len(results') : results'[r].things \subseteq Listable[results'[r].feed]
    <3>1. CASE results' = results
      BY <3>1, <1>0, <1>b
    <3>2. ASSUME NEW S \in SUBSET Listable[Order[n]], results' = Append(results, [feed |-> Order[n], things |-> S])
          PROVE  <2>4!:
      <4>1. [feed |-> Order[n], things |-> S] \in [feed : F!Feeds, things : SUBSET F!Things]
        BY <2>2 DEF F!Things
      <4>2. /\ results' \in Seq([feed : F!Feeds, things : SUBSET F!Things]) /\ Len(results') = Len(results) + 1
            /\ \A r \in 1 .. Len(results) : results'[r] = results[r]
            /\ results'[Len(results) + 1] = [feed |-> Order[n], things |-> S]
        BY <1>0, <3>2, <4>1
      <4>3. ASSUME NEW r \in 1 .. Len(results') PROVE results'[r].things \subseteq Listable[results'[r].feed]
        <5>1. r \in 1 .. Len(results) \/ r = Len(results) + 1
          BY <4>2, <1>0
        <5>. QED
          BY <5>1, <4>2, <1>b
      <4>. QED
        BY <4>2, <4>3
    <3>. QED
      BY <2>3, <3>1, <3>2
  <2>5. F!TypeOK'
    BY <1>5, <2>1, <2>3, <2>4 DEF F!Poll, F!TypeOK
  <2>. QED
    BY <1>5, <2>1, <1>b, <2>4, <2>5 DEF F!Poll
<1>6. ASSUME F!Extract PROVE FeedInv'
  <2>1. CASE at' = "log" /\ batch' = F!Extracted(Head(results).feed, Head(results).things) /\ UNCHANGED <<results, skips>>
    <3>1. results # <<>>
      BY <1>6 DEF F!Extract
    <3>2. Len(results) \in Nat /\ Len(results) # 0 /\ Head(results) = results[1]
      BY <3>1, <1>0
    <3>6. 1 \in 1 .. Len(results)
      BY <3>2
    <3>7. results[1] \in [feed : F!Feeds, things : SUBSET F!Things]
      <4>. DEFINE P == [feed : F!Feeds, things : SUBSET F!Things]
      <4>1. results \in Seq(P)
        BY <1>0
      <4>. HIDE DEF P
      <4>2. results[1] \in P
        BY <4>1, <3>6
      <4>. QED
        BY <4>2 DEF P
    <3>3. Head(results).feed \in F!Feeds /\ Head(results).things \subseteq Listable[Head(results).feed]
      BY <3>2, <3>6, <3>7, <1>b
    <3>4. DOMAIN batch' \subseteq F!Things /\ \A i \in DOMAIN batch' : batch'[i] \in F!Keys
      BY <2>1, <3>3, ExtractedDo
    <3>5. F!TypeOK'
      BY <1>6, <2>1, <3>4 DEF F!Extract, F!TypeOK
    <3>. QED
      BY <1>6, <2>1, <3>1, <1>b, <3>5 DEF F!Extract
  <2>2. CASE skips < MaxSkips /\ skips' = skips + 1 /\ results' = <<>> /\ UNCHANGED <<at, batch>>
    <3>1. skips' \in 0 .. MaxSkips
      BY <2>2, TickAssumption DEF F!TypeOK, F!FeedsAssumption
    <3>2. results' \in Seq([feed : F!Feeds, things : SUBSET F!Things])
      BY <2>2
    <3>3. F!TypeOK'
      BY <1>6, <2>2, <3>1, <3>2 DEF F!Extract, F!TypeOK
    <3>4. at' # "log"
      BY <1>6, <2>2 DEF F!Extract
    <3>5. \A r \in 1 .. Len(results') : results'[r].things \subseteq Listable[results'[r].feed]
      BY <2>2
    <3>. QED
      BY <1>6, <1>b, <3>3, <3>4, <3>5 DEF F!Extract
  <2>. QED
    BY <1>6, <2>1, <2>2 DEF F!Extract
<1>7. ASSUME F!EndTick PROVE FeedInv'
  <2>1. F!TypeOK'
    BY <1>7 DEF F!EndTick, F!TypeOK
  <2>. QED
    BY <1>7, <1>b, <2>1 DEF F!EndTick
<1>8. ASSUME F!Log PROVE FeedInv'
  <2>1. PICK i \in DOMAIN batch :
          /\ batch' = [j \in DOMAIN batch \ {i} |-> batch[j]]
          /\ \/ F!NoFault /\ UNCHANGED open
             \/ F!Fault /\ UNCHANGED open
             \/ /\ ~F!Duplicate(batch[i]) /\ ~F!Recorded(batch[i]) /\ F!NoFault
                /\ open' = [open EXCEPT ![batch[i]] = @ + 1]
    BY <1>8 DEF F!Log
  <2>2. batch[i] \in F!Keys /\ DOMAIN batch \subseteq F!Things /\ \A j \in DOMAIN batch : batch[j] \in F!Keys
    BY DEF F!TypeOK
  <2>3. DOMAIN batch' \subseteq F!Things /\ \A j \in DOMAIN batch' : batch'[j] \in F!Keys
    BY <2>1, <2>2
  <2>4. failures' \in 0 .. Failures
    BY <2>1, FaultsDo
  <2>5. open' \in [F!Keys -> Nat]
    <3>1. open \in [F!Keys -> Nat] /\ open[batch[i]] + 1 \in Nat
      BY <1>0, <2>2
    <3>2. open' = open \/ open' = [open EXCEPT ![batch[i]] = open[batch[i]] + 1]
      BY <2>1
    <3>. QED
      BY <3>1, <3>2, <2>2
  <2>6. F!TypeOK'
    BY <1>8, <2>3, <2>4, <2>5 DEF F!Log, F!TypeOK
  <2>7. ASSUME NEW k \in F!Keys PROVE logged'[k][0] + logged'[k][1] + logged'[k][2] + open'[k] <= 1
    <3>0. logged' = logged /\ logged[k][0] + logged[k][1] + logged[k][2] + open[k] <= 1
          /\ logged[k][0] \in Nat /\ logged[k][1] \in Nat /\ logged[k][2] \in Nat /\ open[k] \in Nat
      BY <1>0, <1>8, <1>a, <1>b DEF F!Log
    <3>1. CASE open'[k] = open[k]
      BY <3>0, <3>1
    <3>2. CASE open'[k] # open[k]
      <4>1. k = batch[i] /\ ~F!Recorded(k) /\ open'[k] = open[k] + 1
        BY <1>0, <2>1, <2>2, <3>2
      <4>2. open[k] = 0 /\ \A d \in F!Dates : logged[k][d] = 0
        BY <4>1, <1>0, <1>a DEF F!Recorded, F!Duplicate
      <4>3. logged[k][0] = 0 /\ logged[k][1] = 0 /\ logged[k][2] = 0
        BY <4>2, <1>0
      <4>. QED
        BY <3>0, <4>1, <4>2, <4>3
    <3>. QED
      BY <3>1, <3>2
  <2>. QED
    BY <1>8, <1>b, <2>6, <2>7 DEF F!Log
<1>9. ASSUME F!Commit PROVE FeedInv'
  <2>1. results # <<>> /\ results' = Tail(results) /\ at' = "extract" /\ open' = F!NoRows
    BY <1>9 DEF F!Commit
  <2>2. /\ results' \in Seq([feed : F!Feeds, things : SUBSET F!Things])
        /\ \A r \in 1 .. Len(results') : results'[r].things \subseteq Listable[results'[r].feed]
    BY <2>1, <1>c
  <2>3. logged' = [k \in F!Keys |-> [logged[k] EXCEPT ![0] = @ + open[k]]]
    BY <1>9 DEF F!Commit
  <2>4. ASSUME NEW k \in F!Keys
        PROVE  /\ logged'[k] \in [F!Dates -> Nat]
               /\ logged'[k][0] = logged[k][0] + open[k] /\ logged'[k][1] = logged[k][1] /\ logged'[k][2] = logged[k][2]
    <3>1. logged'[k] = [logged[k] EXCEPT ![0] = @ + open[k]]
      BY <2>3
    <3>2. logged[k] \in [F!Dates -> Nat] /\ open[k] \in Nat /\ 0 \in F!Dates /\ 1 \in F!Dates /\ 2 \in F!Dates
      BY <1>0
    <3>3. logged[k][0] + open[k] \in Nat
      BY <3>2
    <3>4. logged'[k] \in [F!Dates -> Nat]
      BY <3>1, <3>2, <3>3
    <3>5. logged'[k][0] = logged[k][0] + open[k]
      BY <3>1, <3>2
    <3>6. logged'[k][1] = logged[k][1] /\ logged'[k][2] = logged[k][2]
      BY <3>1, <3>2
    <3>. QED
      BY <3>4, <3>5, <3>6
  <2>5. logged' \in [F!Keys -> [F!Dates -> Nat]]
    BY <2>3, <2>4
  <2>6. F!TypeOK'
    BY <1>9, <1>e, <2>1, <2>2, <2>5 DEF F!Commit, F!TypeOK
  <2>7. ASSUME NEW k \in F!Keys PROVE logged'[k][0] + logged'[k][1] + logged'[k][2] + open'[k] <= 1
    <3>1. logged[k][0] + logged[k][1] + logged[k][2] + open[k] <= 1
          /\ logged[k][0] \in Nat /\ logged[k][1] \in Nat /\ logged[k][2] \in Nat /\ open[k] \in Nat
      BY <1>0, <1>a, <1>b
    <3>. QED
      BY <3>1, <1>e, <2>1, <2>4
  <2>. QED
    BY <2>1, <2>2, <2>6, <2>7
<1>10. ASSUME F!Lose PROVE FeedInv'
  <2>1. results # <<>> /\ results' = Tail(results) /\ at' = "extract" /\ open' = F!NoRows
        /\ batch' = <<>> /\ logged' = logged /\ F!Fault
    BY <1>10 DEF F!Lose
  <2>2. /\ results' \in Seq([feed : F!Feeds, things : SUBSET F!Things])
        /\ \A r \in 1 .. Len(results') : results'[r].things \subseteq Listable[results'[r].feed]
    BY <2>1, <1>c
  <2>3. failures' \in 0 .. Failures /\ DOMAIN batch' = {}
    BY <2>1, FaultsDo
  <2>4. F!TypeOK'
    BY <1>10, <1>e, <2>1, <2>2, <2>3 DEF F!Lose, F!TypeOK
  <2>5. ASSUME NEW k \in F!Keys PROVE logged'[k][0] + logged'[k][1] + logged'[k][2] + open'[k] <= 1
    <3>1. logged[k][0] + logged[k][1] + logged[k][2] + open[k] <= 1
          /\ logged[k][0] \in Nat /\ logged[k][1] \in Nat /\ logged[k][2] \in Nat /\ open[k] \in Nat
      BY <1>0, <1>a, <1>b
    <3>. QED
      BY <3>1, <1>e, <2>1
  <2>. QED
    BY <2>1, <2>2, <2>4, <2>5
<1>11. ASSUME F!Crash PROVE FeedInv'
  <2>1. results' = <<>> /\ at' = "rest" /\ open' = F!NoRows /\ batch' = <<>> /\ logged' = logged /\ F!Fault
    BY <1>11 DEF F!Crash
  <2>2. results' \in Seq([feed : F!Feeds, things : SUBSET F!Things])
    BY <2>1
  <2>3. failures' \in 0 .. Failures /\ DOMAIN batch' = {}
    BY <2>1, FaultsDo
  <2>4. F!TypeOK'
    BY <1>11, <1>e, <2>1, <2>2, <2>3 DEF F!Crash, F!TypeOK
  <2>5. ASSUME NEW k \in F!Keys PROVE logged'[k][0] + logged'[k][1] + logged'[k][2] + open'[k] <= 1
    <3>1. logged[k][0] + logged[k][1] + logged[k][2] + open[k] <= 1
          /\ logged[k][0] \in Nat /\ logged[k][1] \in Nat /\ logged[k][2] \in Nat /\ open[k] \in Nat
      BY <1>0, <1>a, <1>b
    <3>. QED
      BY <3>1, <1>e, <2>1
  <2>6. \A r \in 1 .. Len(results') : results'[r].things \subseteq Listable[results'[r].feed]
    BY <2>1
  <2>. QED
    BY <2>1, <2>4, <2>5, <2>6
<1>. QED
  BY <1>1, <1>2, <1>3, <1>4, <1>5, <1>6, <1>7, <1>8, <1>9, <1>10, <1>11 DEF F!Next, F!Step

LEMMA FeedInvariant == TickSpec => []FeedInv
<1>1. TickInit => FeedInv
  BY FeedsAtFirst DEF TickInit
<1>2. FeedInv /\ [TickNext]_tick => FeedInv'
  <2>1. SUFFICES ASSUME FeedInv, [TickNext]_tick PROVE FeedInv'
    OBVIOUS
  <2>2. CASE F!Next
    BY <2>1, <2>2, FeedStep
  <2>3. CASE UNCHANGED feeding
    BY <2>1, <2>3 DEF FeedInv, feeding, F!TypeOK
  <2>. QED
    BY <2>1, <2>2, <2>3 DEF TickNext, Observing, Feeding, Meeting, tick
<1>. QED
  BY <1>1, <1>2, PTL DEF TickSpec

\* What feeds list is logged once in three dates, whatever they list and how often: for any feeds,
\* lists, slow ticks and failures (rules.py:377).
THEOREM FeedsAreSoundAlways == TickSpec => []FeedsAreSound
<1>1. FeedInv => FeedsAreSound
  <2>1. SUFFICES ASSUME FeedInv, NEW k \in F!Keys PROVE logged[k][0] + logged[k][1] + logged[k][2] <= 1
    BY DEF FeedInv, FeedsAreSound, F!NeverTwice
  <2>2. logged[k] \in [F!Dates -> Nat] /\ open[k] \in Nat
    BY <2>1 DEF FeedInv, F!TypeOK
  <2>3. logged[k][0] \in Nat /\ logged[k][1] \in Nat /\ logged[k][2] \in Nat
    BY <2>2 DEF F!Dates
  <2>4. logged[k][0] + logged[k][1] + logged[k][2] + open[k] <= 1
    BY <2>1 DEF FeedInv
  <2>. QED
    BY <2>2, <2>3, <2>4
<1>. QED
  BY <1>1, FeedInvariant, PTL

-----------------------------------------------------------------------------
(* Mail.                                                                   *)

Statements == {"signal", "triage", "seen"}

LEMMA StatementsFinite == IsFiniteSet(Statements)
<1>1. IsFiniteSet({}) /\ IsFiniteSet({} \cup {"signal"})
  BY FS_EmptySet, FS_AddElement
<1>2. IsFiniteSet(({} \cup {"signal"}) \cup {"triage"})
  BY <1>1, FS_AddElement
<1>3. IsFiniteSet((({} \cup {"signal"}) \cup {"triage"}) \cup {"seen"})
  BY <1>2, FS_AddElement
<1>4. Statements = (({} \cup {"signal"}) \cup {"triage"}) \cup {"seen"}
  BY DEF Statements
<1>. QED
  BY <1>3, <1>4

LEMMA StatementsCount ==
  ASSUME NEW fails \in SUBSET Statements
  PROVE  Cardinality(fails) \in Nat
<1>1. IsFiniteSet(fails)
  BY StatementsFinite, FS_Subset
<1>. QED
  BY <1>1, FS_CardinalityType

-----------------------------------------------------------------------------
(* Types.                                                                  *)

LEMMA MailInitTypes == ASSUME MailInit PROVE MailTypeOK
  BY EmailAssumption DEF MailInit, MailTypeOK, Zero, NoRows, Verdicts, NoItem

LEMMA EnvironmentTypes == ASSUME MailTypeOK, Environment PROVE MailTypeOK'
<1>1. ASSUME NEW e \in Mail, Deliver(e) PROVE MailTypeOK'
  <2>1. /\ box' \in [Mail -> {"away", "unread", "read"}] /\ old' \subseteq Mail
        /\ UNCHANGED <<tables, mailPc, mailLocal, memory, user, sweeps, blind, mailFaults>>
    BY <1>1 DEF Deliver, MailTypeOK
  <2>. QED
    BY <2>1 DEF MailTypeOK, tables, mailLocal, memory, user
<1>2. ASSUME NEW e \in Mail, Flag(e) PROVE MailTypeOK'
  BY <1>2 DEF Flag, MailTypeOK, tables, mailLocal, memory, user
<1>3. ASSUME NEW e \in Mail, Age(e) PROVE MailTypeOK'
  BY <1>3 DEF Age, MailTypeOK, tables, mailLocal, memory, user
<1>4. CASE HourEnds
  BY <1>4, EmailAssumption DEF HourEnds, MailTypeOK, mailbox, tables, mailLocal,
              user
<1>. QED
  BY <1>1, <1>2, <1>3, <1>4 DEF Environment

LEMMA WriteTypes ==
  ASSUME MailTypeOK, NEW e \in Mail, NEW v \in Verdicts,
         NEW fails \in SUBSET Statements, Write(e, v, fails)
  PROVE  MailTypeOK'
<1>1. /\ UNCHANGED <<mailbox, known, memory, user, sweeps>>
      /\ mails' \subseteq Mail /\ signal' \subseteq Mail /\ seen' \subseteq Mail
  BY DEF Write, MailTypeOK, SignalAfter
<1>2. mailFaults' \in 0 .. MailFaults /\ blind' \in Nat
  <2>1. Cardinality(fails) \in Nat
    BY StatementsCount
  <2>. QED
    BY <2>1, EmailAssumption DEF Write, MailTypeOK, MoreFaults, NoMoreFaults
<1>3. triage' \in [Mail -> SUBSET Verdicts]
  BY DEF Write, MailTypeOK
<1>4. pending' \in [Mail -> [Verdicts -> Nat]]
  <2>1. CASE pending' = [pending EXCEPT ![e][v] = @ + 1]
    BY <2>1 DEF MailTypeOK
  <2>2. CASE pending' = pending
    BY <2>2 DEF MailTypeOK
  <2>. QED
    BY <2>1, <2>2 DEF Write
<1>5. mailPc' \in {"idle", "loaded", "write", "nudge"} /\ item' \subseteq Mail
  BY DEF Write, MailTypeOK
<1>. QED
  BY <1>1, <1>2, <1>3, <1>4, <1>5 DEF MailTypeOK, mailbox, memory, user

LEMMA NudgeTypes ==
  ASSUME MailTypeOK, NEW e \in Mail, Nudge(e)
  PROVE  MailTypeOK'
<1>1. /\ UNCHANGED <<mailbox, tables, mails, known, recapped, sweeps, blind>>
      /\ mailPc' = "write" /\ item' = {}
  BY DEF Nudge, NoItem
<1>2. slots' \in 0 .. MaxPerHour
  BY EmailAssumption DEF Nudge, SendNudge, QueueNudge, LimitExpires,
         Allowed, MailTypeOK
<1>3. overflow' \in [Mail -> Nat]
  BY DEF Nudge, SendNudge, QueueNudge, LimitExpires, Bump, MailTypeOK
<1>4. heard' \in [Mail -> Nat]
  <2>1. [heard EXCEPT ![e] = @ + 1] \in [Mail -> Nat]
    BY DEF MailTypeOK
  <2>2. heard' = heard \/ heard' = [heard EXCEPT ![e] = @ + 1]
    BY DEF Nudge, SendNudge, QueueNudge, LimitExpires, Bump
  <2>. QED
    BY <2>1, <2>2 DEF MailTypeOK
<1>5. mailFaults' \in 0 .. MailFaults
  BY EmailAssumption DEF Nudge, SendNudge, QueueNudge, LimitExpires,
         MoreFaults, NoMoreFaults, MailTypeOK
<1>. QED
  BY <1>1, <1>2, <1>3, <1>4, <1>5 DEF MailTypeOK, mailbox, tables

LEMMA HeartbeatTypes == ASSUME MailTypeOK, Heartbeat PROVE MailTypeOK'
<1>1. CASE Poll
  BY <1>1, EmailAssumption DEF Poll, Unread, MoreFaults, NoMoreFaults, MailTypeOK,
              mailbox, tables, memory, user
<1>2. CASE Gate
  BY <1>2, EmailAssumption DEF Gate, Stale, MarkStale, MoreFaults, NoMoreFaults,
              MailTypeOK, mailbox, memory, user
<1>3. CASE Abandon
  BY <1>3, EmailAssumption DEF Abandon, MoreFaults, MailTypeOK, mailbox, tables,
              memory, user
<1>4. CASE EndTick
  BY <1>4 DEF EndTick, MailTypeOK, mailbox, tables, memory, user
<1>5. ASSUME NEW e \in Mail, NEW v \in Verdicts, NEW fails \in SUBSET Statements, Write(e, v, fails)
      PROVE  MailTypeOK'
  BY <1>5, WriteTypes
<1>6. ASSUME NEW e \in Mail, WriteFails(e) PROVE MailTypeOK'
  BY <1>6, EmailAssumption DEF WriteFails, MoreFaults, MailTypeOK, mailbox, tables,
              memory, user
<1>7. ASSUME NEW e \in Mail, Nudge(e) PROVE MailTypeOK'
  BY <1>7, NudgeTypes
<1>. QED
  BY <1>1, <1>2, <1>3, <1>4, <1>5, <1>6, <1>7 DEF Heartbeat, Statements

LEMMA RecapTypes == ASSUME MailTypeOK, Recap PROVE MailTypeOK'
<1>1. /\ UNCHANGED <<mailbox, seen, signal, triage, mailPc, mailLocal, slots, sweeps, blind>>
      /\ pending' \in [Mail -> [Verdicts -> Nat]] /\ overflow' \in [Mail -> Nat]
  BY DEF Recap, AfterPop, AfterDigest, NoRows, Zero, MailTypeOK
<1>2. heard' \in [Mail -> Nat] /\ recapped' \in [Mail -> Nat]
  <2>1. [e \in Mail |-> heard[e] + overflow[e]] \in [Mail -> Nat]
    BY DEF MailTypeOK
  <2>2. "normal" \in Verdicts
    BY DEF Verdicts
  <2>3. ASSUME NEW L \in Listings
        PROVE  [e \in Mail |-> IF e \in L THEN recapped[e] + pending[e]["normal"] ELSE recapped[e]]
                 \in [Mail -> Nat]
    BY <2>2 DEF MailTypeOK
  <2>. QED
    BY <2>1, <2>3 DEF Recap, MailTypeOK, user
<1>3. mailFaults' \in 0 .. MailFaults
  BY EmailAssumption DEF Recap, MoreFaults, NoMoreFaults, MailTypeOK
<1>. QED
  BY <1>1, <1>2, <1>3 DEF MailTypeOK, mailbox, mailLocal

LEMMA MailStepTypes == ASSUME MailTypeOK, [MailNext]_mailVars PROVE MailTypeOK'
<1>1. CASE Environment
  BY <1>1, EnvironmentTypes
<1>2. CASE Heartbeat
  BY <1>2, HeartbeatTypes
<1>3. ASSUME NEW e \in Mail, SweepSeen(e) PROVE MailTypeOK'
  BY <1>3, EmailAssumption DEF SweepSeen, MailTypeOK, mailbox, mailLocal, memory,
              user
<1>4. CASE Recap
  BY <1>4, RecapTypes
<1>5. CASE Restart
  BY <1>5, EmailAssumption DEF Restart, MoreFaults, NoItem, Zero, MailTypeOK,
              mailbox, tables, user
<1>6. CASE UNCHANGED mailVars
  BY <1>6 DEF mailVars, MailTypeOK, mailbox, tables, mailLocal, memory, user
<1>. QED
  BY <1>1, <1>2, <1>3, <1>4, <1>5, <1>6 DEF MailNext

\* Every variable keeps its type, for any emails, limits and number of faults.
THEOREM MailTypes == MailSpec => []MailTypeOK
<1>1. MailInit => MailTypeOK
  BY MailInitTypes
<1>2. MailTypeOK /\ [MailNext]_mailVars => MailTypeOK'
  BY MailStepTypes
<1>. QED
  BY <1>1, <1>2, PTL DEF MailSpec

-----------------------------------------------------------------------------
(* The user hears of an email once.                                        *)

\* What the user has heard, or is going to hear, of e.
MailDue(e) == heard[e] + recapped[e] + overflow[e] + pending[e]["normal"] + (IF e \in item THEN 1 ELSE 0)

\* It is one beyond the blind ticks, and not even that for an email that this tick or a
\* later one may take for new.
DueInv(e) ==
  /\ MailDue(e) <= 1 + blind
  /\ e \notin seen /\ e \notin old => MailDue(e) <= blind
  /\ mailPc = "loaded" /\ e \in mails /\ e \notin known /\ e \notin old => MailDue(e) <= blind
  /\ mailPc \in {"write", "nudge"} /\ e \in mails /\ e \notin known => MailDue(e) <= blind

HeardInv == MailTypeOK /\ \A e \in Mail \ Undated : DueInv(e)

LEMMA DueNat ==
  ASSUME MailTypeOK, NEW e \in Mail
  PROVE  MailDue(e) \in Nat /\ heard[e] + recapped[e] <= MailDue(e)
<1>1. pending[e]["normal"] \in Nat
  BY DEF MailTypeOK, Verdicts
<1>. QED
  BY <1>1 DEF MailTypeOK, MailDue

\* A step in which nothing more becomes due, and that makes no email new, keeps DueInv.
LEMMA QuietStep ==
  ASSUME HeardInv, MailTypeOK', NEW e \in Mail \ Undated,
         MailDue(e)' <= MailDue(e), blind' \in Nat, blind <= blind',
         e \notin seen' /\ e \notin old' => e \notin seen /\ e \notin old,
         mailPc' = "loaded" /\ e \in mails' /\ e \notin known' /\ e \notin old' =>
           \/ mailPc = "loaded" /\ e \in mails /\ e \notin known /\ e \notin old
           \/ blind' = blind + 1
           \/ e \notin seen /\ e \notin old,
         mailPc' \in {"write", "nudge"} /\ e \in mails' /\ e \notin known' =>
           \/ mailPc \in {"write", "nudge"} /\ e \in mails /\ e \notin known
           \/ mailPc = "loaded" /\ e \in mails /\ e \notin known /\ e \notin old
  PROVE  DueInv(e)'
<1>1. MailDue(e) \in Nat /\ MailDue(e)' \in Nat /\ blind \in Nat /\ DueInv(e)
  <2>1. MailDue(e) \in Nat
    BY DueNat DEF HeardInv
  <2>2. MailDue(e)' \in Nat
    <3>1. pending'[e]["normal"] \in Nat
      BY DEF MailTypeOK, Verdicts
    <3>. QED
      BY <3>1 DEF MailTypeOK, MailDue
  <2>. QED
    BY <2>1, <2>2 DEF HeardInv, MailTypeOK
<1>. QED
  BY <1>1 DEF DueInv

LEMMA WriteDue ==
  ASSUME HeardInv, MailTypeOK', NEW e \in Mail \ Undated,
         NEW m \in Mail, NEW v \in Verdicts, NEW fails \in SUBSET Statements, Write(m, v, fails)
  PROVE  DueInv(e)'
<1>a. /\ mailPc = "write" /\ m \in mails /\ mailPc' \in {"write", "nudge"}
      /\ mails' = mails \ {m}
      /\ UNCHANGED <<old, known, heard, recapped, overflow>>
      /\ blind \in Nat /\ blind' \in Nat /\ blind <= blind' /\ seen \subseteq seen'
  BY DEF Write, mailbox, memory, user, HeardInv, MailTypeOK
<1>b. /\ heard[e] \in Nat /\ recapped[e] \in Nat /\ overflow[e] \in Nat
      /\ pending[e]["normal"] \in Nat /\ pending'[e]["normal"] \in Nat
  BY DEF HeardInv, MailTypeOK, Verdicts
<1>1. CASE e # m
  <2>1. pending'[e]["normal"] = pending[e]["normal"]
    BY <1>1 DEF Write, HeardInv, MailTypeOK
  <2>2. e \in item' => e \in item
    BY <1>1 DEF Write
  <2>3. MailDue(e)' <= MailDue(e)
    BY <1>a, <1>b, <2>1, <2>2 DEF MailDue
  <2>. QED
    BY <1>a, <2>3, QuietStep
<1>2. CASE e = m /\ ~IsNew(m)
  <2>1. pending' = pending /\ item' = item
    BY <1>2 DEF Write
  <2>2. MailDue(e)' <= MailDue(e)
    BY <1>a, <1>b, <2>1 DEF MailDue
  <2>. QED
    BY <1>a, <2>2, QuietStep
<1>3. CASE e = m /\ IsNew(m)
  <2>1. MailDue(e) <= blind
    BY <1>3, <1>a DEF HeardInv, DueInv, IsNew
  <2>2. MailDue(e)' <= MailDue(e) + 1
    <3>1. CASE v = "urgent"
      <4>1. pending' = pending
        BY <3>1 DEF Write
      <4>. QED
        BY <1>a, <1>b, <4>1 DEF MailDue
    <3>2. CASE v # "urgent"
      <4>1. item' = item
        BY <3>2 DEF Write
      <4>2. pending'[e]["normal"] <= pending[e]["normal"] + 1
        <5>1. CASE pending' = [pending EXCEPT ![m][v] = @ + 1]
          <6>1. CASE v = "normal"
            BY <1>3, <1>b, <5>1, <6>1 DEF HeardInv, MailTypeOK, Verdicts
          <6>2. CASE v # "normal"
            BY <1>3, <1>b, <5>1, <6>2 DEF HeardInv, MailTypeOK, Verdicts
          <6>. QED
            BY <6>1, <6>2
        <5>2. CASE pending' = pending
          BY <1>b, <5>2
        <5>. QED
          BY <5>1, <5>2 DEF Write
      <4>. QED
        BY <1>a, <1>b, <4>1, <4>2 DEF MailDue
    <3>. QED
      BY <3>1, <3>2
  <2>3. e \notin seen' => blind' = blind + 1
    BY <1>3 DEF Write
  <2>4. MailDue(e) \in Nat /\ MailDue(e)' \in Nat
    BY <1>a, <1>b DEF MailDue
  <2>5. e \notin mails'
    BY <1>3, <1>a
  <2>. QED
    BY <1>a, <2>1, <2>2, <2>3, <2>4, <2>5 DEF DueInv
<1>. QED
  BY <1>1, <1>2, <1>3

LEMMA NudgeDue ==
  ASSUME HeardInv, MailTypeOK', NEW e \in Mail \ Undated, NEW m \in Mail,
         Nudge(m)
  PROVE  DueInv(e)'
<1>1. /\ mailPc = "nudge" /\ m \in item /\ mailPc' = "write" /\ item' = {}
      /\ UNCHANGED <<old, seen, pending, mails, known, recapped, blind>>
  BY DEF Nudge, NoItem, mailbox, tables
<1>2. /\ heard[e] \in Nat /\ recapped[e] \in Nat /\ overflow[e] \in Nat
      /\ pending[e]["normal"] \in Nat /\ blind \in Nat
  BY DEF HeardInv, MailTypeOK, Verdicts
<1>3. CASE e # m
  <2>1. heard'[e] = heard[e] /\ overflow'[e] = overflow[e]
    BY <1>3 DEF Nudge, SendNudge, QueueNudge, LimitExpires, Bump, HeardInv,
                MailTypeOK
  <2>. QED
    BY <1>1, <1>2, <2>1, QuietStep DEF MailDue
<1>4. CASE e = m
  <2>1. /\ heard'[e] \in Nat /\ overflow'[e] \in Nat
        /\ heard'[e] + overflow'[e] <= heard[e] + overflow[e] + 1
    <3>1. CASE SendNudge(m)
      BY <1>2, <1>4, <3>1 DEF SendNudge, Bump, HeardInv, MailTypeOK
    <3>2. CASE QueueNudge(m)
      BY <1>2, <1>4, <3>2 DEF QueueNudge, Bump, HeardInv, MailTypeOK
    <3>3. CASE LimitExpires(m)
      BY <1>2, <1>4, <3>3 DEF LimitExpires, Bump, HeardInv, MailTypeOK
    <3>. QED
      BY <3>1, <3>2, <3>3 DEF Nudge
  <2>2. MailDue(e)' <= MailDue(e)
    BY <1>1, <1>2, <1>4, <2>1 DEF MailDue
  <2>. QED
    BY <1>1, <1>2, <2>2, QuietStep
<1>. QED
  BY <1>3, <1>4

LEMMA RecapDue ==
  ASSUME HeardInv, MailTypeOK', NEW e \in Mail \ Undated, Recap
  PROVE  DueInv(e)'
<1>1. /\ mailPc = "idle" /\ UNCHANGED <<old, seen, mailPc, mails, known, item, blind>>
  BY DEF Recap, mailbox, mailLocal
<1>2. /\ heard[e] \in Nat /\ recapped[e] \in Nat /\ overflow[e] \in Nat
      /\ pending[e]["normal"] \in Nat /\ blind \in Nat
  BY DEF HeardInv, MailTypeOK, Verdicts
<1>3. pending'[e]["normal"] = 0
  BY DEF Recap, AfterPop, NoRows, Verdicts
<1>4. /\ heard'[e] \in Nat /\ overflow'[e] \in Nat
      /\ heard'[e] + overflow'[e] <= heard[e] + overflow[e]
  <2>1. CASE Worth = {}
    BY <1>2, <2>1 DEF Recap, AfterDigest, user
  <2>2. CASE Worth # {}
    <3>1. overflow'[e] = 0
      BY <2>2 DEF Recap, AfterDigest, Zero
    <3>2. heard'[e] = heard[e] \/ heard'[e] = heard[e] + overflow[e]
      BY <2>2 DEF Recap, user
    <3>. QED
      BY <1>2, <3>1, <3>2
  <2>. QED
    BY <2>1, <2>2
<1>5. recapped'[e] \in Nat /\ recapped'[e] <= recapped[e] + pending[e]["normal"]
  <2>1. recapped'[e] = recapped[e] \/ recapped'[e] = recapped[e] + pending[e]["normal"]
    BY DEF Recap, user
  <2>. QED
    BY <1>2, <2>1
<1>6. MailDue(e)' <= MailDue(e)
  BY <1>1, <1>2, <1>3, <1>4, <1>5 DEF MailDue
<1>. QED
  BY <1>1, <1>2, <1>6, QuietStep

\* Steps that touch nothing the user hears of.
LEMMA StillDue ==
  ASSUME MailTypeOK, NEW e \in Mail, UNCHANGED <<heard, recapped, overflow,
         pending, item>>
  PROVE  MailDue(e)' <= MailDue(e)
<1>1. MailDue(e)' = MailDue(e)
  BY DEF MailDue
<1>. QED
  BY <1>1, DueNat

LEMMA StepDue == ASSUME HeardInv, [MailNext]_mailVars PROVE HeardInv'
<1>t. MailTypeOK'
  BY MailStepTypes DEF HeardInv
<1>. SUFFICES ASSUME NEW e \in Mail \ Undated PROVE DueInv(e)'
  BY <1>t DEF HeardInv
<1>n. blind \in Nat /\ MailTypeOK
  BY DEF HeardInv, MailTypeOK
<1>1. CASE Environment
  <2>1. /\ UNCHANGED <<heard, recapped, overflow, pending, item, seen, mailPc, mails, known, blind>>
        /\ old \subseteq old'
    BY <1>1 DEF Environment, Deliver, Flag, Age, HourEnds, tables,
                mailLocal, memory, user, mailbox
  <2>. QED
    BY <1>n, <1>t, <2>1, StillDue, QuietStep
<1>2. CASE Poll
  <2>1. /\ UNCHANGED <<heard, recapped, overflow, pending, item, seen, old>> /\ mailPc' = "loaded"
        /\ (known' = seen /\ blind' = blind) \/ blind' = blind + 1
    BY <1>2 DEF Poll, mailbox, tables, memory, user
  <2>. QED
    BY <1>n, <1>t, <2>1, StillDue, QuietStep
<1>3. CASE Gate
  <2>1. /\ UNCHANGED <<heard, recapped, overflow, pending, item, old, known, blind>>
        /\ seen \subseteq seen' /\ mailPc = "loaded" /\ mailPc' = "write" /\ mails' = mails \ Stale
    BY <1>3 DEF Gate, MarkStale, mailbox, memory, user
  <2>2. e \in mails' /\ e \notin known => e \in mails /\ e \notin old
    BY <2>1 DEF Stale
  <2>. QED
    BY <1>n, <1>t, <2>1, <2>2, StillDue, QuietStep
<1>4. CASE Abandon \/ EndTick
  <2>1. /\ UNCHANGED <<heard, recapped, overflow, pending, item, old, seen, blind>> /\ mailPc' = "idle"
    BY <1>4 DEF Abandon, EndTick, mailbox, tables, memory, user
  <2>. QED
    BY <1>n, <1>t, <2>1, StillDue, QuietStep
<1>5. ASSUME NEW m \in Mail, NEW v \in Verdicts, NEW fails \in SUBSET Statements, Write(m, v, fails)
      PROVE  DueInv(e)'
  BY <1>5, <1>t, WriteDue
<1>6. ASSUME NEW m \in Mail, WriteFails(m) PROVE DueInv(e)'
  <2>1. /\ UNCHANGED <<heard, recapped, overflow, pending, item, old, seen, mailPc, known, blind>>
        /\ mails' \subseteq mails /\ mailPc = "write"
    BY <1>6 DEF WriteFails, mailbox, tables, memory, user
  <2>. QED
    BY <1>n, <1>t, <2>1, StillDue, QuietStep
<1>7. ASSUME NEW m \in Mail, Nudge(m) PROVE DueInv(e)'
  BY <1>7, <1>t, NudgeDue
<1>8. ASSUME NEW m \in Mail, SweepSeen(m) PROVE DueInv(e)'
  <2>1. /\ UNCHANGED <<heard, recapped, overflow, pending, item, old, mailPc, mails, known, blind>>
        /\ seen' = seen \ {m} /\ m \in old \cup Undated
    BY <1>8 DEF SweepSeen, SeenExpired, mailbox, mailLocal, memory, user
  <2>2. e \notin seen' /\ e \notin old' => e \notin seen /\ e \notin old
    BY <2>1
  <2>. QED
    BY <1>n, <1>t, <2>1, <2>2, StillDue, QuietStep
<1>9. CASE Recap
  BY <1>9, <1>t, RecapDue
<1>10. CASE Restart
  <2>1. /\ UNCHANGED <<heard, recapped, pending, old, seen, blind>>
        /\ overflow'[e] = 0 /\ item' = {} /\ mailPc' = "idle"
    BY <1>10 DEF Restart, Zero, NoItem, mailbox, tables, user
  <2>2. /\ heard[e] \in Nat /\ recapped[e] \in Nat /\ overflow[e] \in Nat
        /\ pending[e]["normal"] \in Nat
    BY <1>n DEF MailTypeOK, Verdicts
  <2>3. MailDue(e)' <= MailDue(e)
    BY <2>1, <2>2 DEF MailDue
  <2>. QED
    BY <1>n, <1>t, <2>1, <2>3, QuietStep
<1>11. CASE UNCHANGED mailVars
  <2>1. UNCHANGED <<heard, recapped, overflow, pending, item, old, seen, mailPc, mails, known, blind>>
    BY <1>11 DEF mailVars, mailbox, tables, mailLocal, memory, user
  <2>. QED
    BY <1>n, <1>t, <2>1, StillDue, QuietStep
<1>. QED
  BY <1>1, <1>2, <1>3, <1>4, <1>5, <1>6, <1>7, <1>8, <1>9, <1>10, <1>11
     DEF MailNext, Heartbeat, Statements

\* The user hears of an email once, beyond the ticks that could not read or write
\* seen_emails: for any number of crashes, failed sends, failed transactions and sweeps.
THEOREM HeardOnceAlways == MailSpec => []HeardOnce
<1>1. MailInit => HeardInv
  <2>. SUFFICES ASSUME MailInit PROVE HeardInv
    OBVIOUS
  <2>1. MailTypeOK
    BY MailInitTypes
  <2>2. ASSUME NEW e \in Mail PROVE MailDue(e) = 0
    BY DEF MailInit, MailDue, Zero, NoRows, NoItem, Verdicts
  <2>3. blind = 0
    BY DEF MailInit
  <2>. QED
    BY <2>1, <2>2, <2>3 DEF HeardInv, DueInv
<1>2. HeardInv /\ [MailNext]_mailVars => HeardInv'
  BY StepDue
<1>3. HeardInv => HeardOnce
  <2>. SUFFICES ASSUME HeardInv, NEW e \in Mail \ Undated PROVE heard[e] + recapped[e] <= 1 + blind
    BY DEF HeardOnce
  <2>1. /\ MailDue(e) \in Nat /\ heard[e] + recapped[e] <= MailDue(e) /\ MailDue(e) <= 1 + blind
    BY DueNat DEF HeardInv, DueInv
  <2>2. heard[e] \in Nat /\ recapped[e] \in Nat /\ blind \in Nat
    BY DEF HeardInv, MailTypeOK
  <2>. QED
    BY <2>1, <2>2
<1>. QED
  BY <1>1, <1>2, <1>3, PTL DEF MailSpec

-----------------------------------------------------------------------------
(* While nothing fails every urgent email is accounted for.                *)

MailInHand(e) == IF e \in item THEN 1 ELSE 0

Balanced(e) == heard[e] + overflow[e] + MailInHand(e) = IF "urgent" \in triage[e] THEN 1 ELSE 0

\* An email is triaged once, for a triaged one is seen or old, and the tick takes neither
\* for new; and one email at most is in hand.
AccountInv(e) ==
  /\ Balanced(e)
  /\ triage[e] # {} => e \in seen \cup old
  /\ mailPc = "loaded" /\ e \in mails /\ e \notin known \cup old => triage[e] = {}
  /\ mailPc \in {"write", "nudge"} /\ e \in mails /\ e \notin known => triage[e] = {}

ItemInv == item # {} => mailPc = "nudge" /\ \E e \in Mail : item = {e}

AccountsInv == mailFaults = 0 => \A e \in Mail \ Undated : AccountInv(e)

LEMMA ItemStep == ASSUME ItemInv, [MailNext]_mailVars PROVE ItemInv'
<1>1. CASE UNCHANGED mailVars \/ Environment \/ Recap \/ (\E e \in Mail : SweepSeen(e))
  BY <1>1 DEF ItemInv, mailVars, mailLocal, Environment, Deliver, Flag, Age,
              HourEnds, Recap, SweepSeen
<1>2. CASE Heartbeat
  BY <1>2 DEF ItemInv, Heartbeat, Poll, Gate, Abandon, EndTick, Write,
              WriteFails, Nudge, NoItem
<1>3. CASE Restart
  BY <1>3 DEF ItemInv, Restart, NoItem
<1>. QED
  BY <1>1, <1>2, <1>3 DEF MailNext

\* A step that leaves what is told of e alone, and makes no email new.
LEMMA AccountKept ==
  ASSUME NEW e \in Mail, AccountInv(e),
         heard'[e] = heard[e], overflow'[e] = overflow[e], triage'[e] = triage[e],
         e \in item' <=> e \in item,
         e \in seen => e \in seen' \cup old', old \subseteq old',
         mailPc' = "loaded" /\ e \in mails' /\ e \notin known' \cup old' =>
           e \notin seen \cup old \/ (mailPc = "loaded" /\ e \in mails /\ e \notin known \cup old),
         mailPc' \in {"write", "nudge"} /\ e \in mails' /\ e \notin known' =>
           \/ mailPc = "loaded" /\ e \in mails /\ e \notin known \cup old
           \/ mailPc \in {"write", "nudge"} /\ e \in mails /\ e \notin known
  PROVE  AccountInv(e)'
<1>1. Balanced(e)'
  BY DEF AccountInv, Balanced, MailInHand
<1>2. triage'[e] # {} => e \in seen' \cup old'
  BY DEF AccountInv
<1>. QED
  BY <1>1, <1>2 DEF AccountInv

\* The verdict of a new email, none of whose statements fails.
LEMMA WriteAccount ==
  ASSUME MailTypeOK, ItemInv, NEW e \in Mail \ Undated, AccountInv(e),
         NEW m \in Mail, NEW v \in Verdicts,
         Write(m, v, {}), mailFaults' = 0
  PROVE  AccountInv(e)'
<1>1. /\ mailPc = "write" /\ m \in mails /\ mailPc' \in {"write", "nudge"} /\ mails' = mails \ {m}
      /\ UNCHANGED <<old, known, heard, overflow>> /\ seen \subseteq seen' /\ item = {}
  BY DEF Write, mailbox, memory, user, ItemInv
<1>2. CASE e # m
  <2>1. triage'[e] = triage[e] /\ e \notin item'
    BY <1>1, <1>2 DEF Write, MailTypeOK
  <2>. QED
    BY <1>1, <2>1, AccountKept
<1>3. CASE e = m /\ ~IsNew(m)
  <2>1. UNCHANGED <<triage, item>>
    BY <1>3 DEF Write
  <2>. QED
    BY <1>1, <2>1, AccountKept
<1>4. CASE e = m /\ IsNew(m)
  <2>1. triage[e] = {}
    BY <1>1, <1>4 DEF AccountInv, IsNew
  <2>2. triage'[e] = {v} /\ seen' = seen \cup {e}
    BY <1>4, <2>1 DEF Write, MailTypeOK
  <2>3. item' = IF v = "urgent" THEN {e} ELSE {}
    BY <1>1, <1>4 DEF Write
  <2>4. heard[e] + overflow[e] = 0 /\ heard[e] \in Nat /\ overflow[e] \in Nat
    BY <1>1, <2>1 DEF AccountInv, Balanced, MailInHand, MailTypeOK
  <2>5. Balanced(e)'
    BY <1>1, <2>2, <2>3, <2>4 DEF Balanced, MailInHand
  <2>. QED
    BY <1>1, <1>4, <2>2, <2>5 DEF AccountInv
<1>. QED
  BY <1>2, <1>3, <1>4

\* The nudge is sent or queued.
LEMMA NudgeAccount ==
  ASSUME MailTypeOK, ItemInv, NEW e \in Mail \ Undated, AccountInv(e),
         NEW m \in Mail, Nudge(m),
         mailFaults = 0, mailFaults' = 0
  PROVE  AccountInv(e)'
<1>1. /\ m \in item /\ item = {m} /\ item' = {} /\ mailPc = "nudge" /\ mailPc' = "write"
      /\ UNCHANGED <<old, seen, triage, mails, known>>
  BY DEF Nudge, NoItem, mailbox, tables, ItemInv
<1>2. SendNudge(m) \/ QueueNudge(m)
  BY DEF Nudge, LimitExpires, MoreFaults
<1>3. CASE e # m
  <2>1. heard'[e] = heard[e] /\ overflow'[e] = overflow[e]
    BY <1>2, <1>3 DEF SendNudge, QueueNudge, Bump, MailTypeOK
  <2>. QED
    BY <1>1, <1>3, <2>1, AccountKept
<1>4. CASE e = m
  <2>1. heard'[e] + overflow'[e] = heard[e] + overflow[e] + 1
    <3>1. CASE SendNudge(m)
      BY <1>4, <3>1 DEF SendNudge, Bump, MoreFaults, MailTypeOK
    <3>2. CASE QueueNudge(m)
      BY <1>4, <3>2 DEF QueueNudge, Bump, MailTypeOK
    <3>. QED
      BY <1>2, <3>1, <3>2
  <2>2. Balanced(e)'
    BY <1>1, <1>4, <2>1 DEF AccountInv, Balanced, MailInHand, MailTypeOK
  <2>. QED
    BY <1>1, <2>2 DEF AccountInv
<1>. QED
  BY <1>3, <1>4

\* The digest tells what was queued.
LEMMA RecapAccount ==
  ASSUME MailTypeOK, NEW e \in Mail \ Undated, AccountInv(e), Recap,
         mailFaults = 0, mailFaults' = 0
  PROVE  AccountInv(e)'
<1>1. UNCHANGED <<old, seen, triage, mailPc, mails, known, item>> /\ mailPc = "idle"
  BY DEF Recap, mailbox, mailLocal
<1>2. heard'[e] + overflow'[e] = heard[e] + overflow[e]
  <2>1. CASE Worth = {}
    BY <2>1 DEF Recap, AfterDigest, user
  <2>2. CASE Worth # {}
    <3>1. overflow'[e] = 0
      BY <2>2 DEF Recap, AfterDigest, Zero
    <3>2. heard'[e] = heard[e] + overflow[e]
      BY <2>2 DEF Recap, MoreFaults
    <3>. QED
      BY <3>1, <3>2 DEF MailTypeOK
  <2>. QED
    BY <2>1, <2>2
<1>3. Balanced(e)'
  BY <1>1, <1>2 DEF AccountInv, Balanced, MailInHand, MailTypeOK
<1>. QED
  BY <1>1, <1>3 DEF AccountInv

LEMMA StepAccounts ==
  ASSUME MailTypeOK, ItemInv, AccountsInv, [MailNext]_mailVars
  PROVE  AccountsInv'
<1>. SUFFICES ASSUME mailFaults' = 0, NEW e \in Mail \ Undated PROVE AccountInv(e)'
  BY DEF AccountsInv
<1>0. mailFaults = 0
  <2>1. mailFaults \in Nat
    BY EmailAssumption DEF MailTypeOK
  <2>2. ASSUME NEW m \in Mail, NEW v \in Verdicts, NEW fails \in SUBSET Statements, Write(m, v, fails)
        PROVE  mailFaults = 0
    BY <2>1, <2>2, StatementsCount DEF Write, MoreFaults, NoMoreFaults
  <2>3. CASE \/ UNCHANGED mailVars \/ Environment \/ Recap \/ Restart
             \/ \E m \in Mail : SweepSeen(m)
    BY <2>1, <2>3 DEF mailVars, Environment, Deliver, Flag, Age, HourEnds,
                      Recap, Restart, SweepSeen, MoreFaults, NoMoreFaults
  <2>4. CASE \/ Poll \/ Gate \/ Abandon \/ EndTick
             \/ \E m \in Mail : WriteFails(m) \/ Nudge(m)
    BY <2>1, <2>4 DEF Poll, Gate, Abandon, EndTick, WriteFails, Nudge,
                      SendNudge, QueueNudge, LimitExpires,
                      MoreFaults, NoMoreFaults
  <2>. QED
    BY <2>2, <2>3, <2>4 DEF MailNext, Heartbeat, Statements
<1>1. AccountInv(e)
  BY <1>0 DEF AccountsInv
<1>2. CASE UNCHANGED mailVars \/ Environment
  <2>1. /\ UNCHANGED <<heard, overflow, triage, item, seen, mailPc, mails, known>> /\ old \subseteq old'
    BY <1>2 DEF mailVars, Environment, Deliver, Flag, Age, HourEnds,
                mailbox, tables, mailLocal, memory, user
  <2>. QED
    BY <1>1, <2>1, AccountKept
<1>3. CASE Poll
  <2>1. UNCHANGED <<heard, overflow, triage, item, seen, old>> /\ known' = seen /\ mailPc' = "loaded"
    BY <1>0, <1>3 DEF Poll, MoreFaults, mailbox, tables, memory, user
  <2>. QED
    BY <1>1, <2>1, AccountKept
<1>4. CASE Gate
  <2>1. /\ UNCHANGED <<heard, overflow, triage, item, old, known>> /\ seen \subseteq seen'
        /\ mailPc = "loaded" /\ mailPc' = "write" /\ mails' = mails \ Stale
    BY <1>4 DEF Gate, MarkStale, mailbox, memory, user
  <2>2. e \in mails' /\ e \notin known => e \in mails /\ e \notin old
    BY <2>1 DEF Stale
  <2>. QED
    BY <1>1, <2>1, <2>2, AccountKept
<1>5. CASE Abandon \/ Restart \/ (\E m \in Mail : WriteFails(m))
  BY <1>0, <1>5 DEF Abandon, Restart, WriteFails, MoreFaults
<1>6. CASE EndTick
  <2>1. UNCHANGED <<heard, overflow, triage, item, seen, old>> /\ mailPc' = "idle"
    BY <1>6 DEF EndTick, mailbox, tables, memory, user
  <2>. QED
    BY <1>1, <2>1, AccountKept
<1>7. ASSUME NEW m \in Mail, NEW v \in Verdicts, NEW fails \in SUBSET Statements, Write(m, v, fails)
      PROVE  AccountInv(e)'
  <2>1. fails = {}
    <3>. SUFFICES ASSUME fails # {} PROVE FALSE
      OBVIOUS
    <3>1. mailFaults' = mailFaults + Cardinality(fails)
      BY <1>7 DEF Write, MoreFaults
    <3>2. Cardinality(fails) = 0
      BY <1>0, <3>1, StatementsCount
    <3>3. IsFiniteSet(fails)
      BY StatementsFinite, FS_Subset
    <3>. QED
      BY <3>2, <3>3, FS_EmptySet
  <2>. QED
    BY <1>1, <1>7, <2>1, WriteAccount
<1>8. ASSUME NEW m \in Mail, Nudge(m) PROVE AccountInv(e)'
  BY <1>0, <1>1, <1>8, NudgeAccount
<1>9. ASSUME NEW m \in Mail, SweepSeen(m) PROVE AccountInv(e)'
  <2>1. /\ UNCHANGED <<heard, overflow, triage, item, old, mailPc, mails, known>>
        /\ seen' = seen \ {m} /\ m \in old \cup Undated /\ mailPc = "idle"
    BY <1>9 DEF SweepSeen, SeenExpired, mailbox, mailLocal, memory, user
  <2>. QED
    BY <1>1, <2>1, AccountKept
<1>10. CASE Recap
  BY <1>0, <1>1, <1>10, RecapAccount
<1>. QED
  BY <1>2, <1>3, <1>4, <1>5, <1>6, <1>7, <1>8, <1>9, <1>10 DEF MailNext, Heartbeat, Statements

\* While nothing fails, an email judged urgent has led to one message, or is about to, or
\* waits for the digest, and no other email has: for any number of emails and any limit.
THEOREM UrgentAccountedAlways == MailSpec => []UrgentAccounted
<1>1. MailInit => ItemInv /\ AccountsInv
  BY DEF MailInit, ItemInv, AccountsInv, AccountInv, Balanced, MailInHand, NoItem, Zero
<1>2. MailTypeOK /\ ItemInv /\ AccountsInv /\ [MailNext]_mailVars => ItemInv' /\ AccountsInv'
  BY ItemStep, StepAccounts
<1>3. AccountsInv => UrgentAccounted
  BY DEF AccountsInv, AccountInv, Balanced, MailInHand, UrgentAccounted
<1>. QED
  BY <1>1, <1>2, <1>3, MailTypes, PTL DEF MailSpec

-----------------------------------------------------------------------------
-----------------------------------------------------------------------------
(* The contacts.                                                           *)

Clock == C!Clock

\* What the scan lists.
Listed == IF scan.on \in {"backfill_received", "signals"} THEN Len(inbox) ELSE Len(folder)

\* The folder is in the order of time, no later than the clock.
MailInv ==
  /\ Len(folder) <= Len(To) /\ Len(taken) = Len(folder)
  /\ \A m \in 1 .. Len(folder) : folder[m].at <= m
  /\ \A m, n \in 1 .. Len(folder) : m <= n => folder[m].at <= folder[n].at
  /\ watermark <= Clock /\ scan.low <= scan.high /\ scan.high <= Clock
  /\ \A i \in 1 .. Len(scan.rest) : scan.rest[i] \in 1 .. Listed
  /\ scan.on \in {"backfill_sent", "backfill_received", "poll"} => scan.page >= 1

\* A service and the contact it is at: who, and from some stage on whose.
OpOf(s) ==
  /\ op[s].at = "idle" => op[s] = C!Idle
  /\ op[s].at # "idle" =>
       op[s].kind \in IF s = "heartbeat" THEN {"sent", "received", "signal"} ELSE {"track", "mention"}
  /\ op[s].kind = "mention" => op[s].at \in {"resolve", "create"} /\ op[s].who = Mentioned
  /\ op[s].at # "idle" /\ op[s].kind # "mention" => op[s].who \in Handles
  /\ op[s].at \in {"create", "bind", "count", "stamp"} => op[s].id = op[s].who
  /\ op[s].at = "update" => contacts[op[s].id] # None
  /\ op[s].at = "count" => C!Outbound(op[s])
  /\ op[s].at = "stamp" => s = "heartbeat"

OpInv ==
  /\ \A s \in C!Service : OpOf(s)
  /\ origins # None => op["telegram"] = C!Idle /\ origins \subseteq C!Known
  /\ \A h \in Handles : channel[h] # None => contacts[channel[h]] # None

\* A contact that was made for a mail sent and is not counted yet.
Uncounted(c) ==
  IF /\ op["heartbeat"].kind = "sent" /\ op["heartbeat"].at \in {"bind", "count"}
     /\ op["heartbeat"].id = c /\ contacts[c].received > 0
  THEN 1 ELSE 0

CountOf(c) ==
  IF contacts[c] = None THEN outs[c] = 0 /\ ins[c] = 0 /\ extras[c] = 0
  ELSE /\ contacts[c].sent <= outs[c]
       /\ contacts[c].received <= ins[c] + extras[c] + mishaps + Uncounted(c)

CountInv == \A c \in C!Ids : CountOf(c)

MeetInv == C!TypeOK /\ MailInv /\ OpInv /\ CountInv

\* What is mail of a poll: after low, as far as the poll has come.
Ahead(m) == (\E i \in 1 .. Len(scan.rest) : scan.rest[i] = m)
Behind   == C!Top(Len(folder), scan.page)
AheadOf(m) == IF Ahead(m) THEN 1 ELSE 0
BehindOf(m) == IF m <= Behind THEN 1 ELSE 0

\* A mail is taken once more by a poll, if it is later than the watermark; for each page it is on.
TakenInv ==
  \A m \in 1 .. Len(folder) :
    /\ taken[m] <= 1 + pushed + mishaps
    /\ folder[m].at > watermark /\ (scan.on = "poll" => folder[m].at <= scan.low \/ folder[m].at > scan.high) =>
         taken[m] <= pushed + mishaps
    /\ scan.on = "poll" /\ folder[m].at > scan.low =>
         taken[m] + AheadOf(m) + (IF scan.last THEN 0 ELSE BehindOf(m)) <= 1 + pushed + mishaps

\* The first of its second.
Leads(m) == m = 1 \/ folder[m - 1].at < folder[m].at

\* Of the rest of a page each mail is the one before; a poll starts from the watermark or later.
RestInv ==
  scan.on = "poll" =>
    watermark <= scan.low /\ \A i \in 1 .. Len(scan.rest) : scan.rest[i] = scan.rest[1] + 1 - i

\* What comes next.
NextOne == IF scan.rest # <<>> THEN scan.rest[1] ELSE IF scan.last THEN 0 ELSE Behind

SeenInv == mishaps = 0 =>
  /\ C!SentSeen
  /\ scan.on = "poll" =>
       /\ watermark # C!NoMark => scan.low = watermark
       /\ scan.rest # <<>> =>
            LET z == scan.rest[Len(scan.rest)]
            IN  IF scan.last THEN z = 1 ELSE Behind >= z - 1
       /\ \A m \in 1 .. Len(folder) :
            folder[m].at > scan.low /\ folder[m].at <= scan.high /\ Leads(m) => taken[m] > 0 \/ m <= NextOne

PollInv == RestInv /\ TakenInv /\ SeenInv

Half(s, h)   == op[s].who = h /\ op[s].at \in {"bind", "count"} /\ C!Outbound(op[s])
Pending(h)   == \E s \in C!Service : Half(s, h)
Beyond       == {"create", "update", "bind", "count", "stamp", "channel"}
At(s, h)     == op[s].who = h /\ op[s].at \in Beyond
Mailed(c)    == contacts[c] # None /\ contacts[c].sent > 0
Weak(h)      == contacts[h] # None /\ contacts[h].sent = 0 /\ ~ Pending(h)

\* While nothing failed: a service that made a contact or found it is at a contact, and one that
\* counted mail sent to it left it with some.
Stands(s) ==
  /\ op[s].at \in {"bind", "count", "stamp", "channel"} => contacts[op[s].id] # None
  /\ op[s].at \in {"stamp", "channel"} /\ C!Outbound(op[s]) => Mailed(op[s].id)

\* Whoever made a contact binds it.
MadeBound(h) == contacts[h] # None /\ channel[h] = None => \E s \in C!Service : op[s].who = h /\ op[s].at = "bind"

\* The heartbeat makes nobody whose address is that of another, or that the Telegram service takes for another.
MakesOwn(h) ==
  op["heartbeat"].at = "create" /\ op["heartbeat"].who = h =>
    channel[h] \in {None, h} /\ (At("telegram", h) => op["telegram"].id = h)

\* The Telegram service finds by the address, or binds it.
TrackBound(h) == op["telegram"].who = h /\ op["telegram"].at \in {"update", "count", "channel"} => channel[h] # None

\* Of who is known by an address only, both services find the same.
OneFound(h) ==
  \A s \in C!Service :
    contacts[h] = None /\ channel[h] # None /\ op[s].who = h /\ op[s].at \in {"update", "channel"} => op[s].id = channel[h]

\* Where a contact of its own counts no mail sent, the address is nobody else's.
WeakOwn(h) == Weak(h) => channel[h] \in {None, h} /\ \A s \in C!Service : At(s, h) => op[s].id = h

\* Who was written to leads to a contact that counts mail sent, whoever is at work on him.
Leading(h) ==
  h \in written => channel[h] # None /\ ~ Weak(h) /\ (contacts[h] = None => Mailed(channel[h]))

FoundInv == mishaps = 0 =>
  /\ \A s \in C!Service : Stands(s)
  /\ \A h \in Handles : MadeBound(h) /\ MakesOwn(h) /\ TrackBound(h) /\ OneFound(h) /\ WeakOwn(h) /\ Leading(h)

\* While neither crosses the other, what a service makes is new, ...
New(s) ==
  /\ op[s].at = "create" /\ op[s].kind # "mention" => contacts[op[s].who] = None
  /\ op[s].at \in {"bind", "count"} => contacts[op[s].id].sent = 0 /\ contacts[op[s].id].received = 1
  /\ op[s].at \in {"bind", "count", "stamp"} => contacts[op[s].id].origin = None
  /\ op[s].at \in Beyond /\ op[s].who \in written =>
       op[s].at \in {"update", "channel"} /\ op[s].id = channel[op[s].who]

\* ... and the counts are exact.
Exact(c) == contacts[c] # None =>
  contacts[c].sent = outs[c] /\ contacts[c].received = ins[c] + extras[c] + Uncounted(c)

AloneInv == ~ crossed =>
  /\ op["heartbeat"] = C!Idle \/ (op["telegram"] = C!Idle /\ origins = None)
  /\ mishaps = 0 =>
       /\ \A s \in C!Service : New(s)
       /\ origins # None => \A c \in origins : contacts[c].origin = None
       /\ \A h \in written : channel[h] # None /\ Mailed(channel[h])
       /\ \A c \in C!Ids : Exact(c)

ContactInv == MeetInv /\ PollInv /\ FoundInv /\ AloneInv

LEMMA ContactsAre ==
  /\ Mentioned \notin Handles /\ None \notin C!Ids /\ None \notin C!Row
  /\ PageSize \in Nat \ {0} /\ To \in Seq(Handles) /\ From \in Seq(Handles)
  /\ MaxTracks \in Nat /\ Mishaps \in Nat /\ MaxEvents \in Nat
  /\ C!Ids = Handles \cup {Mentioned} /\ C!Service = {"heartbeat", "telegram"} /\ C!Second = 0 .. Len(To)
  /\ Len(To) \in Nat
<1>. QED
  BY TickAssumption DEF C!ContactsAssumption, C!Ids, C!Service, C!Second

-----------------------------------------------------------------------------
(* Types, in two halves: what the services do to contacts, and the rest.    *)

GraphTypes ==
  /\ contacts \in [C!Ids -> C!Row \cup {None}] /\ channel \in [Handles -> C!Ids \cup {None}]
  /\ op \in [C!Service -> [at : {"idle", "resolve", "update", "create", "bind", "count", "stamp", "channel"},
                         kind : {"none", "sent", "received", "signal", "track", "mention"}, who : C!Ids, id : C!Ids]]
  /\ origins \in (SUBSET C!Ids) \cup {None} /\ written \subseteq Handles /\ crossed \in BOOLEAN
  /\ outs \in [C!Ids -> Nat] /\ ins \in [C!Ids -> Nat] /\ extras \in [C!Ids -> Nat]

ScanTypes ==
  /\ backfilled \in BOOLEAN /\ watermark \in C!Second \cup {C!NoMark} /\ pollDue \in BOOLEAN
  /\ folder \in Seq([to : Handles, at : C!Second]) /\ inbox \in Seq(Handles) /\ enriched \in 0 .. Len(inbox)
  /\ scan \in [on : C!Scans, page : Nat, rest : Seq(Nat), low : C!Second, high : C!Second, last : BOOLEAN]
  /\ taken \in Seq(Nat) /\ pushed \in Nat /\ since \in C!Second \cup {C!NoMark}
  /\ tracks \in 0 .. MaxTracks /\ mishaps \in 0 .. Mishaps

LEMMA ElementOf == ASSUME NEW S, NEW q \in Seq(S), NEW i \in 1 .. Len(q) PROVE q[i] \in S
<1>. QED
  OBVIOUS

LEMMA FolderIs ==
  ASSUME ScanTypes, NEW m \in 1 .. Len(folder)
  PROVE  folder[m].to \in Handles /\ folder[m].at \in C!Second /\ folder[m].at \in Nat
<1>1. folder[m] \in [to : Handles, at : C!Second]
  BY ElementOf DEF ScanTypes
<1>. QED
  BY <1>1, ContactsAre

LEMMA TwoHalves == C!TypeOK <=> GraphTypes /\ ScanTypes
<1>. QED
  BY DEF C!TypeOK, GraphTypes, ScanTypes

\* What a scan does not touch, and what the services do not.
graphs == <<contacts, channel, op, origins, written, outs, ins, extras, crossed>>
scans  == <<backfilled, watermark, pollDue, folder, inbox, enriched, scan, taken, pushed, since>>

LEMMA MishapsGrow ==
  ASSUME ScanTypes, C!Next
  PROVE  /\ mishaps' \in 0 .. Mishaps /\ mishaps' \in {mishaps, mishaps + 1}
         /\ tracks' \in 0 .. MaxTracks
<1>1. mishaps \in Nat /\ tracks \in Nat /\ tracks <= MaxTracks /\ mishaps <= Mishaps /\ Mishaps \in Nat /\ MaxTracks \in Nat
  BY ContactsAre DEF ScanTypes
<1>2. (mishaps' = mishaps \/ C!Fault) /\ (tracks' = tracks \/ (tracks < MaxTracks /\ tracks' = tracks + 1))
  BY DEF C!Next, C!Send, C!Receive, C!Hour, C!StartBackfill, C!StartPoll, C!NextPage, C!TakeSent, C!TakeReceived,
     C!EndBackfill, C!EndPoll, C!StartSignals, C!TakeSignal, C!EndSignals, C!Track, C!Mention, C!ReadOrigins, C!WriteOrigins,
     C!Resolve, C!Update, C!Create, C!Bind, C!CountFirst, C!Stamp, C!Finish, C!Crash, C!NoFault, C!Free
<1>. QED
  BY <1>1, <1>2 DEF C!Fault

\* Service s begins with somebody.
Begins(s) ==
  /\ op[s] = C!Idle /\ (s = "telegram" => origins = None)
  /\ \E kind \in IF s = "heartbeat" THEN {"sent", "received", "signal"} ELSE {"track", "mention"} :
       \E who \in IF kind = "mention" THEN {Mentioned} ELSE Handles : C!Begin(s, kind, who)
  /\ UNCHANGED <<contacts, channel, origins, written, outs, ins, extras, mishaps>>

Works(s) ==
  C!Resolve(s) \/ C!Update(s) \/ C!Create(s) \/ C!Bind(s) \/ C!CountFirst(s) \/ C!Stamp(s) \/ C!Finish(s)

\* What a step may be to the contacts.
LEMMA GraphSteps ==
  ASSUME C!TypeOK, MailInv, C!Next
  PROVE  \/ UNCHANGED graphs
         \/ \E s \in C!Service : Begins(s) \/ Works(s)
         \/ C!ReadOrigins \/ C!WriteOrigins \/ C!Crash
<1>0. ScanTypes
  BY TwoHalves
<1>1. CASE C!TakeSent
  <2>. DEFINE m == Head(scan.rest)
  <2>1. op["heartbeat"] = C!Idle /\ scan.on # "backfill_received" /\ scan.on # "signals"
    BY <1>1 DEF C!TakeSent, C!Listing
  <2>2. folder[m].to \in Handles
    <3>1. scan.rest # <<>> /\ scan.rest \in Seq(Nat)
      BY <1>0, <1>1 DEF C!TakeSent, ScanTypes
    <3>2. 1 \in 1 .. Len(scan.rest) /\ m = scan.rest[1]
      BY <3>1
    <3>3. m \in 1 .. Len(folder)
      BY <2>1, <3>2 DEF MailInv, Listed
    <3>. HIDE DEF m
    <3>. QED
      BY <1>0, <3>3, FolderIs
  <2>3. UNCHANGED graphs \/ (C!Begin("heartbeat", "sent", folder[m].to) /\ mishaps' = mishaps)
    BY <1>1 DEF C!TakeSent, graphs, C!graph, C!NoFault
  <2>4. UNCHANGED <<contacts, channel, origins, written, outs, ins, extras>>
    BY <1>1 DEF C!TakeSent, C!graph
  <2>. QED
    BY <2>1, <2>2, <2>3, <2>4, ContactsAre DEF Begins
<1>2. CASE C!TakeReceived \/ C!TakeSignal
  <2>. DEFINE m == Head(scan.rest)
  <2>1. op["heartbeat"] = C!Idle /\ scan.on \in {"backfill_received", "signals"}
    BY <1>2 DEF C!TakeReceived, C!TakeSignal, C!Listing
  <2>2. inbox[m] \in Handles
    <3>1. scan.rest # <<>> /\ scan.rest \in Seq(Nat)
      BY <1>0, <1>2 DEF C!TakeReceived, C!TakeSignal, ScanTypes
    <3>2. 1 \in 1 .. Len(scan.rest) /\ m = scan.rest[1]
      BY <3>1
    <3>3. m \in 1 .. Len(inbox)
      BY <2>1, <3>2 DEF MailInv, Listed
    <3>. HIDE DEF m
    <3>. QED
      BY <1>0, <3>3, ElementOf DEF ScanTypes
  <2>3. \E kind \in {"received", "signal"} : C!Begin("heartbeat", kind, inbox[m])
    BY <1>2 DEF C!TakeReceived, C!TakeSignal
  <2>4. UNCHANGED <<contacts, channel, origins, written, outs, ins, extras, mishaps>>
    BY <1>2 DEF C!TakeReceived, C!TakeSignal, C!graph
  <2>. QED
    BY <2>1, <2>2, <2>3, <2>4, ContactsAre DEF Begins
<1>3. ASSUME C!Mention \/ \E h \in Handles : C!Track(h) PROVE Begins("telegram")
  <2>1. op["telegram"] = C!Idle /\ origins = None
    BY <1>3 DEF C!Mention, C!Track, C!Free
  <2>2. \/ C!Begin("telegram", "mention", Mentioned)
        \/ \E h \in Handles : C!Begin("telegram", "track", h)
    BY <1>3 DEF C!Mention, C!Track
  <2>4. UNCHANGED <<contacts, channel, origins, written, outs, ins, extras, mishaps>>
    BY <1>3 DEF C!Mention, C!Track, C!graph
  <2>. QED
    BY <2>1, <2>2, <2>4 DEF Begins
<1>4. ASSUME C!Send \/ C!Receive \/ C!Hour \/ C!StartBackfill \/ C!StartPoll \/ C!NextPage \/ C!EndBackfill \/ C!EndPoll
             \/ C!StartSignals \/ C!EndSignals
      PROVE  UNCHANGED graphs
  BY <1>4 DEF C!Send, C!Receive, C!Hour, C!StartBackfill, C!StartPoll, C!NextPage, C!EndBackfill, C!EndPoll,
     C!StartSignals, C!EndSignals, C!graph, C!history, graphs
<1>. QED
  BY <1>1, <1>2, <1>3, <1>4, ContactsAre DEF C!Next, Works

-----------------------------------------------------------------------------
(* What each step of a service makes of the contact it is at.               *)

LEMMA RowIs ==
  ASSUME GraphTypes, NEW c \in C!Ids, contacts[c] # None
  PROVE  /\ contacts[c] \in C!Row /\ contacts[c].sent \in Nat /\ contacts[c].received \in Nat
         /\ contacts[c].name \in C!Names /\ contacts[c].origin \in C!Vias /\ contacts[c].seen \subseteq {Personal, Inbox}
<1>1. contacts[c] \in C!Row
  BY DEF GraphTypes
<1>. QED
  BY <1>1 DEF C!Row

LEMMA OpIs ==
  ASSUME GraphTypes, NEW s \in C!Service
  PROVE  /\ op[s].at \in {"idle", "resolve", "update", "create", "bind", "count", "stamp", "channel"}
         /\ op[s].kind \in {"none", "sent", "received", "signal", "track", "mention"}
         /\ op[s].who \in C!Ids /\ op[s].id \in C!Ids
<1>. QED
  BY DEF GraphTypes

\* The fields of a row that is seen through an account.
LEMMA SeenDo ==
  ASSUME NEW r \in C!Row, NEW via \in C!Vias
  PROVE  /\ C!Seen(r, via) \in C!Row
         /\ C!Seen(r, via).sent = r.sent /\ C!Seen(r, via).received = r.received
         /\ r.origin # None => C!Seen(r, via).origin = r.origin
<1>. DEFINE q == [name |-> r.name, sent |-> r.sent, received |-> r.received,
                  origin |-> IF r.origin = None THEN via ELSE r.origin, seen |-> r.seen \cup {via}]
<1>0. r = [name |-> r.name, sent |-> r.sent, received |-> r.received, origin |-> r.origin, seen |-> r.seen]
      /\ r.name \in C!Names /\ r.sent \in Nat /\ r.received \in Nat /\ r.origin \in C!Vias
      /\ r.seen \subseteq {Personal, Inbox}
  BY DEF C!Row
<1>1. C!Seen(r, via) = r \/ (via # None /\ C!Seen(r, via) = q)
  BY <1>0 DEF C!Seen
<1>2. via # None => q \in C!Row
  BY <1>0 DEF C!Row, C!Vias
<1>. QED
  BY <1>1, <1>2

LEMMA ViaIs ==
  ASSUME GraphTypes, OpInv, NEW s \in C!Service
  PROVE  /\ C!Via(op[s]) \in C!Vias
         /\ op[s].kind \in {"sent", "received", "signal"} => C!Via(op[s]) \in {Personal, Inbox}
<1>1. C!Via(op[s]) = Personal \/ C!Via(op[s]) = Inbox \/ (op[s].kind \notin {"sent", "received", "signal"} /\ C!Via(op[s]) = None)
  BY DEF C!Via
<1>. QED
  BY <1>1 DEF C!Vias

\* Nothing but the place of s changes, and perhaps its contact.
Goes(s, at_) ==
  /\ \A r \in C!Service \ {s} : op'[r] = op[r]
  /\ op'[s].at = at_ /\ op'[s].kind = op[s].kind /\ op'[s].who = op[s].who /\ op'[s].id = op[s].id

Rests(s) == op'[s] = C!Idle /\ \A r \in C!Service \ {s} : op'[r] = op[r]

OpType == [at : {"idle", "resolve", "update", "create", "bind", "count", "stamp", "channel"},
           kind : {"none", "sent", "received", "signal", "track", "mention"}, who : C!Ids, id : C!Ids]

LEMMA IdleIs == C!Idle \in OpType /\ C!Idle.at = "idle" /\ C!Idle.kind = "none" /\ C!Idle.who = Mentioned /\ C!Idle.id = Mentioned
<1>. QED
  BY DEF C!Idle, OpType, C!Ids

LEMMA GoDo ==
  ASSUME GraphTypes, NEW s \in C!Service,
         NEW at_ \in {"idle", "resolve", "update", "create", "bind", "count", "stamp", "channel"}, C!Go(s, at_)
  PROVE  op' \in [C!Service -> OpType] /\ Goes(s, at_)
<1>1. op \in [C!Service -> OpType]
  BY DEF GraphTypes, OpType
<1>2. op' = [op EXCEPT ![s] = [op[s] EXCEPT !.at = at_]]
  BY DEF C!Go
<1>3. op[s] \in OpType
  BY <1>1
<1>. DEFINE n == [op[s] EXCEPT !.at = at_]
<1>4. n \in OpType /\ n.at = at_ /\ n.kind = op[s].kind /\ n.who = op[s].who /\ n.id = op[s].id
  BY <1>3 DEF OpType
<1>5. op' = [op EXCEPT ![s] = n]
  BY <1>2
<1>. HIDE DEF n
<1>. QED
  BY <1>1, <1>4, <1>5 DEF Goes

LEMMA RestDo ==
  ASSUME GraphTypes, NEW s \in C!Service, op' = [op EXCEPT ![s] = C!Idle]
  PROVE  op' \in [C!Service -> OpType] /\ Rests(s)
<1>1. op \in [C!Service -> OpType]
  BY DEF GraphTypes, OpType
<1>. QED
  BY <1>1, IdleIs DEF Rests

\* Whom a service finds.
LEMMA ResolvedIs ==
  ASSUME GraphTypes, OpInv, NEW s \in C!Service, op[s].at = "resolve"
  PROVE  /\ \A c \in C!Resolved(op[s]) : c \in C!Ids /\ contacts[c] # None
         /\ op[s].kind # "mention" /\ channel[op[s].who] # None => C!Resolved(op[s]) = {channel[op[s].who]}
         /\ op[s].kind = "track" /\ channel[op[s].who] = None => C!Resolved(op[s]) = {}
<1>1. \A h \in Handles : channel[h] # None => channel[h] \in C!Ids /\ contacts[channel[h]] # None
  BY DEF GraphTypes, OpInv, OpOf
<1>2. op[s].kind # "mention" => op[s].who \in Handles
  BY DEF OpInv, OpOf
<1>3. \A x : C!Named(x) \subseteq C!Known /\ \A h : C!Near(x, h) \subseteq C!Known
  BY DEF C!Named, C!Near
<1>4. \A c \in C!Known : c \in C!Ids /\ contacts[c] # None
  BY DEF C!Known
<1>5. op[s].kind # "mention" /\ channel[op[s].who] # None => C!Resolved(op[s]) = {channel[op[s].who]}
  BY DEF C!Resolved
<1>6. op[s].kind = "track" /\ channel[op[s].who] = None => C!Resolved(op[s]) = {}
  BY DEF C!Resolved
<1>7. \/ op[s].kind # "mention" /\ channel[op[s].who] # None /\ C!Resolved(op[s]) = {channel[op[s].who]}
      \/ C!Resolved(op[s]) \subseteq C!Known
  BY <1>3 DEF C!Resolved
<1>. QED
  BY <1>1, <1>2, <1>4, <1>5, <1>6, <1>7

LEMMA FaultIs == ASSUME mishaps \in Nat PROVE C!Fault => mishaps' > mishaps
<1>. QED
  BY DEF C!Fault

LEMMA ResolveDo ==
  ASSUME GraphTypes, OpInv, mishaps \in Nat, NEW s \in C!Service, C!Resolve(s)
  PROVE  /\ op' \in [C!Service -> OpType] /\ op[s].at = "resolve"
         /\ UNCHANGED <<contacts, channel, origins, written, outs, ins, extras, crossed>>
         /\ \/ Rests(s) /\ op[s].kind = "mention"
            \/ /\ \A r \in C!Service \ {s} : op'[r] = op[r]
               /\ op'[s].kind = op[s].kind /\ op'[s].who = op[s].who
               /\ \/ /\ op'[s].at = "update" /\ contacts[op'[s].id] # None /\ op[s].kind # "mention"
                     /\ channel[op[s].who] # None => op'[s].id = channel[op[s].who]
                     /\ op[s].kind = "track" => channel[op[s].who] # None
                  \/ /\ op'[s].at = "create" /\ op'[s].id = op[s].who
                     /\ mishaps' = mishaps /\ op[s].kind # "mention" => channel[op[s].who] = None
<1>0. op \in [C!Service -> OpType] /\ op[s] \in OpType
  BY DEF GraphTypes, OpType
<1>1. op[s].at = "resolve" /\ UNCHANGED <<contacts, channel, origins, written, outs, ins, extras, crossed>>
  BY DEF C!Resolve, C!graph, C!history
<1>2. ASSUME NEW c \in C!Resolved(op[s]), op[s].kind # "mention", op' = [op EXCEPT ![s] = [op[s] EXCEPT !.at = "update", !.id = c]]
      PROVE  /\ op' \in [C!Service -> OpType]
             /\ \A r \in C!Service \ {s} : op'[r] = op[r]
             /\ op'[s].kind = op[s].kind /\ op'[s].who = op[s].who
             /\ op'[s].at = "update" /\ contacts[op'[s].id] # None
             /\ channel[op[s].who] # None => op'[s].id = channel[op[s].who]
             /\ op[s].kind = "track" => channel[op[s].who] # None
  <2>. DEFINE n == [op[s] EXCEPT !.at = "update", !.id = c]
  <2>1. /\ c \in C!Ids /\ contacts[c] # None
        /\ channel[op[s].who] # None => c = channel[op[s].who]
        /\ op[s].kind = "track" => channel[op[s].who] # None
    BY <1>1, <1>2, ResolvedIs
  <2>2. n \in OpType /\ n.at = "update" /\ n.kind = op[s].kind /\ n.who = op[s].who /\ n.id = c
    BY <1>0, <2>1 DEF OpType
  <2>3. op' = [op EXCEPT ![s] = n]
    BY <1>2
  <2>. HIDE DEF n
  <2>. QED
    BY <1>0, <2>1, <2>2, <2>3
<1>3. ASSUME op' = [op EXCEPT ![s] = [op[s] EXCEPT !.at = "create", !.id = op[s].who]]
      PROVE  /\ op' \in [C!Service -> OpType]
             /\ \A r \in C!Service \ {s} : op'[r] = op[r]
             /\ op'[s].kind = op[s].kind /\ op'[s].who = op[s].who
             /\ op'[s].at = "create" /\ op'[s].id = op[s].who
  <2>. DEFINE n == [op[s] EXCEPT !.at = "create", !.id = op[s].who]
  <2>2. n \in OpType /\ n.at = "create" /\ n.kind = op[s].kind /\ n.who = op[s].who /\ n.id = op[s].who
    BY <1>0 DEF OpType
  <2>3. op' = [op EXCEPT ![s] = n]
    BY <1>3
  <2>. HIDE DEF n
  <2>. QED
    BY <1>0, <2>2, <2>3
<1>4. ASSUME C!Resolved(op[s]) = {}, op[s].kind # "mention" PROVE channel[op[s].who] = None
  <2>1. channel[op[s].who] # None => C!Resolved(op[s]) = {channel[op[s].who]}
    BY <1>1, <1>4, ResolvedIs
  <2>. QED
    BY <1>4, <2>1
<1>5. \/ \E c \in C!Resolved(op[s]) :
            op' = [op EXCEPT ![s] = IF op[s].kind = "mention" THEN C!Idle ELSE [op[s] EXCEPT !.at = "update", !.id = c]]
      \/ /\ op' = [op EXCEPT ![s] = [op[s] EXCEPT !.at = "create", !.id = op[s].who]]
         /\ C!Resolved(op[s]) = {} \/ mishaps' > mishaps
  BY FaultIs DEF C!Resolve
<1>6. CASE op[s].kind = "mention" /\ op' = [op EXCEPT ![s] = C!Idle]
  BY <1>1, <1>6, RestDo
<1>7. mishaps' > mishaps => mishaps' # mishaps
  OBVIOUS
<1>. QED
  BY <1>1, <1>2, <1>3, <1>4, <1>5, <1>6, <1>7

\* One row is written.
Writes(c, row) == contacts' = [contacts EXCEPT ![c] = row]

LEMMA WriteDo ==
  ASSUME GraphTypes, NEW c \in C!Ids, NEW row \in C!Row \cup {None}, Writes(c, row)
  PROVE  /\ contacts' \in [C!Ids -> C!Row \cup {None}] /\ contacts'[c] = row
         /\ \A d \in C!Ids : d # c => contacts'[d] = contacts[d]
<1>. QED
  BY DEF GraphTypes, Writes

LEMMA MoreDo ==
  ASSUME NEW n \in [C!Ids -> Nat], NEW c \in C!Ids, NEW yes \in BOOLEAN
  PROVE  /\ C!More(n, c, yes) \in [C!Ids -> Nat]
         /\ C!More(n, c, yes)[c] = n[c] + (IF yes THEN 1 ELSE 0)
         /\ \A d \in C!Ids : d # c => C!More(n, c, yes)[d] = n[d]
<1>. QED
  BY DEF C!More

LEMMA UpdateDo ==
  ASSUME GraphTypes, OpInv, mishaps \in Nat, NEW s \in C!Service, C!Update(s)
  PROVE  LET c == op[s].id
             out == IF C!Outbound(op[s]) THEN 1 ELSE 0
         IN  /\ op' \in [C!Service -> OpType] /\ op[s].at = "update" /\ Goes(s, "channel")
             /\ UNCHANGED <<channel, origins, written, extras, crossed>>
             /\ c \in C!Ids /\ contacts[c] # None
             /\ contacts' \in [C!Ids -> C!Row \cup {None}] /\ outs' \in [C!Ids -> Nat] /\ ins' \in [C!Ids -> Nat]
             /\ \A d \in C!Ids : d # c => contacts'[d] = contacts[d] /\ outs'[d] = outs[d] /\ ins'[d] = ins[d]
             /\ \/ /\ contacts'[c] \in C!Row
                   /\ contacts'[c].sent = contacts[c].sent + out /\ outs'[c] = outs[c] + out
                   /\ contacts'[c].received = contacts[c].received + (1 - out) /\ ins'[c] = ins[c] + (1 - out)
                   /\ contacts[c].origin # None => contacts'[c].origin = contacts[c].origin
                \/ mishaps' > mishaps /\ UNCHANGED <<contacts, outs, ins>>
<1>. DEFINE o == op[s]
            c == op[s].id
            out == IF C!Outbound(op[s]) THEN 1 ELSE 0
            r == C!Tallied(o, contacts[c])
            q == C!Seen(r, C!Via(o))
<1>1. /\ op[s].at = "update" /\ UNCHANGED <<channel, origins, written, extras, crossed>>
      /\ C!Go(s, "channel")
  BY DEF C!Update
<1>2. c \in C!Ids /\ contacts[c] # None /\ contacts[c] \in C!Row
  BY <1>1, OpIs, RowIs DEF OpInv, OpOf
<1>3. op' \in [C!Service -> OpType] /\ Goes(s, "channel")
  BY <1>1, GoDo
<1>4. r \in C!Row /\ r.sent = contacts[c].sent + out /\ r.received = contacts[c].received + (1 - out) /\ r.origin = contacts[c].origin
  <2>1. contacts[c] = [name |-> contacts[c].name, sent |-> contacts[c].sent, received |-> contacts[c].received,
                       origin |-> contacts[c].origin, seen |-> contacts[c].seen]
        /\ contacts[c].sent \in Nat /\ contacts[c].received \in Nat
    BY <1>2 DEF C!Row
  <2>. QED
    BY <1>2, <2>1 DEF C!Row, C!Tallied
<1>5. q \in C!Row /\ q.sent = r.sent /\ q.received = r.received /\ (r.origin # None => q.origin = r.origin)
  BY <1>4, SeenDo, ViaIs
<1>6. \/ mishaps' > mishaps /\ UNCHANGED <<contacts, outs, ins>>
      \/ /\ Writes(c, q)
         /\ outs' = C!More(outs, c, C!Outbound(o)) /\ ins' = C!More(ins, c, ~ C!Outbound(o))
  BY FaultIs DEF C!Update, Writes
<1>. HIDE DEF q, r
<1>7. CASE mishaps' > mishaps /\ UNCHANGED <<contacts, outs, ins>>
  BY <1>1, <1>2, <1>3, <1>7 DEF GraphTypes
<1>8. CASE Writes(c, q) /\ outs' = C!More(outs, c, C!Outbound(o)) /\ ins' = C!More(ins, c, ~ C!Outbound(o))
  <2>1. /\ contacts' \in [C!Ids -> C!Row \cup {None}] /\ contacts'[c] = q
        /\ \A d \in C!Ids : d # c => contacts'[d] = contacts[d]
    BY <1>2, <1>5, <1>8, WriteDo
  <2>2. outs \in [C!Ids -> Nat] /\ ins \in [C!Ids -> Nat] /\ C!Outbound(o) \in BOOLEAN
    BY DEF GraphTypes, C!Outbound
  <2>3. /\ outs' \in [C!Ids -> Nat] /\ outs'[c] = outs[c] + out
        /\ \A d \in C!Ids : d # c => outs'[d] = outs[d]
    BY <1>2, <1>8, <2>2, MoreDo
  <2>4. /\ ins' \in [C!Ids -> Nat] /\ ins'[c] = ins[c] + (1 - out)
        /\ \A d \in C!Ids : d # c => ins'[d] = ins[d]
    <3>. DEFINE b == ~ C!Outbound(o)
    <3>1. b \in BOOLEAN /\ (IF b THEN 1 ELSE 0) = 1 - out
      BY <2>2
    <3>2. ins' = C!More(ins, c, b)
      BY <1>8
    <3>. HIDE DEF b
    <3>. QED
      BY <1>2, <2>2, <3>1, <3>2, MoreDo
  <2>. QED
    BY <1>1, <1>2, <1>3, <1>4, <1>5, <2>1, <2>3, <2>4
<1>. QED
  BY <1>6, <1>7, <1>8

LEMMA CreateDo ==
  ASSUME GraphTypes, OpInv, mishaps \in Nat, NEW s \in C!Service, C!Create(s)
  PROVE  LET c == op[s].id
         IN  /\ op' \in [C!Service -> OpType] /\ op[s].at = "create" /\ c = op[s].who
             /\ UNCHANGED <<channel, origins, written, outs, crossed>>
             /\ c \in C!Ids
             /\ contacts' \in [C!Ids -> C!Row \cup {None}] /\ ins' \in [C!Ids -> Nat] /\ extras' \in [C!Ids -> Nat]
             /\ \A d \in C!Ids : d # c => contacts'[d] = contacts[d] /\ ins'[d] = ins[d] /\ extras'[d] = extras[d]
             /\ \/ /\ contacts'[c] \in C!Row
                   /\ contacts[c] = None => contacts'[c].sent = 0 /\ contacts'[c].received = 1 /\ contacts'[c].origin = None
                   /\ contacts[c] # None =>
                        /\ contacts'[c].sent = contacts[c].sent /\ contacts'[c].received = contacts[c].received + 1
                        /\ contacts'[c].origin = contacts[c].origin
                   /\ op[s].kind \in {"received", "signal", "track", "mention"} =>
                        ins'[c] + extras'[c] = ins[c] + extras[c] + 1
                   /\ op[s].kind = "sent" => ins'[c] = ins[c] /\ extras'[c] = extras[c]
                   /\ IF op[s].kind = "mention" THEN Rests(s) ELSE Goes(s, "bind")
                \/ /\ mishaps' > mishaps /\ UNCHANGED <<contacts, ins, extras>>
                   /\ IF s = "telegram" THEN Rests(s) ELSE Goes(s, IF C!Outbound(op[s]) THEN "count" ELSE "stamp")
<1>. DEFINE o == op[s]
            c == op[s].id
            q == C!Made(o, contacts[c])
            a == IF C!Outbound(o) THEN "count" ELSE "stamp"
            i == o.kind \in {"received", "signal"}
            e == o.kind \in {"track", "mention"}
<1>1. op[s].at = "create" /\ UNCHANGED <<channel, origins, written, outs, crossed>>
  BY DEF C!Create
<1>2. c \in C!Ids /\ c = op[s].who /\ op[s].kind \in {"sent", "received", "signal", "track", "mention"}
  BY <1>1, OpIs, ContactsAre DEF OpInv, OpOf
<1>3. /\ q \in C!Row
      /\ contacts[c] = None => q.sent = 0 /\ q.received = 1 /\ q.origin = None
      /\ contacts[c] # None =>
           q.sent = contacts[c].sent /\ q.received = contacts[c].received + 1 /\ q.origin = contacts[c].origin
  <2>1. C!Name(o) \in C!Names /\ None \in C!Vias
    <3>1. o.who \in C!Ids /\ (o.kind \in {"sent", "received"} => o.who \in Handles)
      BY <1>1, <1>2, OpIs DEF OpInv, OpOf
    <3>. QED
      BY <3>1 DEF C!Name, C!Names, C!Vias
  <2>2. CASE contacts[c] = None
    BY <2>1, <2>2 DEF C!Made, C!Row
  <2>3. CASE contacts[c] # None
    <3>1. contacts[c] = [name |-> contacts[c].name, sent |-> contacts[c].sent, received |-> contacts[c].received,
                         origin |-> contacts[c].origin, seen |-> contacts[c].seen]
          /\ contacts[c] \in C!Row /\ contacts[c].received \in Nat
      BY <1>2, <2>3, RowIs DEF C!Row
    <3>2. q = [name |-> C!Name(o), sent |-> contacts[c].sent, received |-> contacts[c].received + 1,
               origin |-> contacts[c].origin, seen |-> contacts[c].seen]
      BY <2>3, <3>1 DEF C!Made
    <3>3. contacts[c].sent \in Nat /\ contacts[c].origin \in C!Vias /\ contacts[c].seen \in SUBSET {Personal, Inbox}
      BY <1>2, <2>3, RowIs
    <3>. HIDE DEF q
    <3>. QED
      BY <2>1, <2>3, <3>1, <3>2, <3>3 DEF C!Row
  <2>. QED
    BY <2>2, <2>3
<1>4. \/ /\ mishaps' > mishaps /\ UNCHANGED <<contacts, ins, extras>>
         /\ IF s = "telegram" THEN op' = [op EXCEPT ![s] = C!Idle] ELSE C!Go(s, a)
      \/ /\ Writes(c, q) /\ ins' = C!More(ins, c, i) /\ extras' = C!More(extras, c, e)
         /\ IF op[s].kind = "mention" THEN op' = [op EXCEPT ![s] = C!Idle] ELSE C!Go(s, "bind")
  BY FaultIs DEF C!Create, Writes
<1>5. a \in {"count", "stamp"} /\ i \in BOOLEAN /\ e \in BOOLEAN
  OBVIOUS
<1>6. (op' = [op EXCEPT ![s] = C!Idle]) => op' \in [C!Service -> OpType] /\ Rests(s)
  BY RestDo
<1>7. ASSUME C!Go(s, a) PROVE op' \in [C!Service -> OpType] /\ Goes(s, a)
  <2>. HIDE DEF a
  <2>. QED
    BY <1>5, <1>7, GoDo
<1>8. C!Go(s, "bind") => op' \in [C!Service -> OpType] /\ Goes(s, "bind")
  BY GoDo
<1>9. CASE /\ mishaps' > mishaps /\ UNCHANGED <<contacts, ins, extras>>
           /\ IF s = "telegram" THEN op' = [op EXCEPT ![s] = C!Idle] ELSE C!Go(s, a)
  <2>1. contacts' \in [C!Ids -> C!Row \cup {None}] /\ ins' \in [C!Ids -> Nat] /\ extras' \in [C!Ids -> Nat]
    BY <1>9 DEF GraphTypes
  <2>2. op' \in [C!Service -> OpType] /\ IF s = "telegram" THEN Rests(s) ELSE Goes(s, a)
    BY <1>6, <1>7, <1>9
  <2>. QED
    BY <1>1, <1>2, <1>9, <2>1, <2>2
<1>10. CASE /\ Writes(c, q) /\ ins' = C!More(ins, c, i) /\ extras' = C!More(extras, c, e)
            /\ IF op[s].kind = "mention" THEN op' = [op EXCEPT ![s] = C!Idle] ELSE C!Go(s, "bind")
  <2>1. /\ contacts' \in [C!Ids -> C!Row \cup {None}] /\ contacts'[c] = q
        /\ \A d \in C!Ids : d # c => contacts'[d] = contacts[d]
    <3>. HIDE DEF q
    <3>. QED
      BY <1>2, <1>3, <1>10, WriteDo
  <2>2. ins \in [C!Ids -> Nat] /\ extras \in [C!Ids -> Nat] /\ ins[c] \in Nat /\ extras[c] \in Nat
    BY <1>2 DEF GraphTypes
  <2>3. /\ ins' \in [C!Ids -> Nat] /\ ins'[c] = ins[c] + (IF i THEN 1 ELSE 0)
        /\ \A d \in C!Ids : d # c => ins'[d] = ins[d]
    <3>. HIDE DEF i
    <3>. QED
      BY <1>2, <1>5, <1>10, <2>2, MoreDo
  <2>4. /\ extras' \in [C!Ids -> Nat] /\ extras'[c] = extras[c] + (IF e THEN 1 ELSE 0)
        /\ \A d \in C!Ids : d # c => extras'[d] = extras[d]
    <3>. HIDE DEF e
    <3>. QED
      BY <1>2, <1>5, <1>10, <2>2, MoreDo
  <2>5. op' \in [C!Service -> OpType] /\ IF op[s].kind = "mention" THEN Rests(s) ELSE Goes(s, "bind")
    BY <1>6, <1>8, <1>10
  <2>6. /\ op[s].kind \in {"received", "signal", "track", "mention"} => ins'[c] + extras'[c] = ins[c] + extras[c] + 1
        /\ op[s].kind = "sent" => ins'[c] = ins[c] /\ extras'[c] = extras[c]
    BY <1>2, <2>2, <2>3, <2>4
  <2>. HIDE DEF q, i, e, a
  <2>. QED
    BY <1>1, <1>2, <1>3, <2>1, <2>3, <2>4, <2>5, <2>6
<1>. QED
  BY <1>4, <1>9, <1>10

\* The address of s is bound to its contact, if there is one.
Binds(s) ==
  /\ channel' \in [Handles -> C!Ids \cup {None}] /\ \A h \in Handles : h # op[s].who => channel'[h] = channel[h]
  /\ \/ channel'[op[s].who] = (IF contacts[op[s].id] = None THEN channel[op[s].who] ELSE op[s].id)
     \/ mishaps' > mishaps /\ channel'[op[s].who] = channel[op[s].who]

LEMMA BoundDo ==
  ASSUME GraphTypes, NEW s \in C!Service, op[s].who \in Handles,
         channel' = C!Bound(op[s]) \/ (mishaps' > mishaps /\ channel' = channel)
  PROVE  Binds(s)
<1>1. channel \in [Handles -> C!Ids \cup {None}] /\ op[s].id \in C!Ids
  BY OpIs DEF GraphTypes
<1>2. CASE channel' = channel
  <2>1. \/ mishaps' > mishaps
        \/ channel' = C!Bound(op[s])
    OBVIOUS
  <2>. QED
    BY <1>1, <1>2, <2>1 DEF Binds, C!Bound
<1>3. CASE channel' = [channel EXCEPT ![op[s].who] = op[s].id] /\ contacts[op[s].id] # None
  BY <1>1, <1>3 DEF Binds
<1>. QED
  BY <1>2, <1>3 DEF C!Bound

LEMMA BindDo ==
  ASSUME GraphTypes, OpInv, mishaps \in Nat, NEW s \in C!Service, C!Bind(s)
  PROVE  /\ op' \in [C!Service -> OpType] /\ op[s].at = "bind" /\ op[s].id = op[s].who /\ op[s].who \in Handles
         /\ Goes(s, IF C!Outbound(op[s]) THEN "count" ELSE "stamp") /\ (s = "telegram" => C!Outbound(op[s]))
         /\ UNCHANGED <<contacts, origins, written, outs, ins, extras, crossed>> /\ Binds(s)
<1>. DEFINE a == IF C!Outbound(op[s]) THEN "count" ELSE "stamp"
<1>1. op[s].at = "bind" /\ UNCHANGED <<contacts, origins, written, outs, ins, extras, crossed>> /\ C!Go(s, a)
  BY DEF C!Bind, C!history
<1>2. op[s].id = op[s].who /\ op[s].who \in Handles
  BY <1>1 DEF OpInv, OpOf
<1>3. s = "telegram" => C!Outbound(op[s])
  BY <1>1 DEF OpInv, OpOf, C!Outbound
<1>4. a \in {"count", "stamp"}
  OBVIOUS
<1>5. channel' = C!Bound(op[s]) \/ (mishaps' > mishaps /\ channel' = channel)
  BY FaultIs DEF C!Bind
<1>6. Binds(s)
  BY <1>2, <1>5, BoundDo
<1>. HIDE DEF a
<1>7. op' \in [C!Service -> OpType] /\ Goes(s, a)
  BY <1>1, <1>4, GoDo
<1>. QED
  BY <1>1, <1>2, <1>3, <1>6, <1>7 DEF a

LEMMA FinishDo ==
  ASSUME GraphTypes, OpInv, mishaps \in Nat, NEW s \in C!Service, C!Finish(s)
  PROVE  /\ op' \in [C!Service -> OpType] /\ op[s].at = "channel" /\ op[s].who \in Handles
         /\ Rests(s)
         /\ UNCHANGED <<contacts, origins, outs, ins, extras, crossed>> /\ Binds(s)
         /\ written' = IF C!Outbound(op[s]) THEN written \cup {op[s].who} ELSE written
<1>1. op[s].at = "channel" /\ UNCHANGED <<contacts, origins, outs, ins, extras, crossed>> /\ op' = [op EXCEPT ![s] = C!Idle]
      /\ written' = IF C!Outbound(op[s]) THEN written \cup {op[s].who} ELSE written
  BY DEF C!Finish
<1>2. op[s].who \in Handles
  BY <1>1 DEF OpInv, OpOf
<1>5. channel' = C!Bound(op[s]) \/ (mishaps' > mishaps /\ channel' = channel)
  BY FaultIs DEF C!Finish
<1>6. Binds(s)
  BY <1>2, <1>5, BoundDo
<1>. QED
  BY <1>1, <1>2, <1>6, RestDo

LEMMA CountDo ==
  ASSUME GraphTypes, OpInv, mishaps \in Nat, NEW s \in C!Service, C!CountFirst(s)
  PROVE  LET c == op[s].id
         IN  /\ op' \in [C!Service -> OpType] /\ op[s].at = "count" /\ c = op[s].who /\ c \in Handles /\ C!Outbound(op[s])
             /\ Goes(s, IF op[s].kind = "sent" THEN "stamp" ELSE "channel") /\ (s = "heartbeat" <=> op[s].kind = "sent")
             /\ UNCHANGED <<channel, origins, written, ins, extras, crossed>>
             /\ contacts' \in [C!Ids -> C!Row \cup {None}] /\ outs' \in [C!Ids -> Nat]
             /\ \A d \in C!Ids : d # c => contacts'[d] = contacts[d] /\ outs'[d] = outs[d]
             /\ \/ contacts[c] = None /\ contacts'[c] = None /\ outs'[c] = outs[c]
                \/ /\ contacts[c] # None /\ contacts'[c] \in C!Row /\ outs'[c] = outs[c] + 1
                   /\ contacts'[c].sent = 1 /\ contacts'[c].origin = contacts[c].origin
                   /\ contacts'[c].received = IF op[s].kind = "sent" THEN 0 ELSE contacts[c].received
                \/ mishaps' > mishaps /\ UNCHANGED <<contacts, outs>>
<1>. DEFINE o == op[s]
            c == op[s].id
            q == C!FirstSent(o, contacts[c])
            a == IF op[s].kind = "sent" THEN "stamp" ELSE "channel"
            y == contacts[c] # None
<1>1. op[s].at = "count" /\ UNCHANGED <<channel, origins, written, ins, extras, crossed>> /\ C!Go(s, a)
  BY DEF C!CountFirst
<1>2. c \in C!Ids /\ c = op[s].who /\ c \in Handles /\ C!Outbound(op[s]) /\ (s = "heartbeat" <=> op[s].kind = "sent")
  <2>1. C!Outbound(op[s]) /\ op[s].kind \in {"sent", "track"}
    BY <1>1 DEF OpInv, OpOf, C!Outbound
  <2>2. c = op[s].who /\ c \in Handles
    BY <1>1, <2>1 DEF OpInv, OpOf
  <2>3. op[s].kind \in IF s = "heartbeat" THEN {"sent", "received", "signal"} ELSE {"track", "mention"}
    BY <1>1 DEF OpInv, OpOf
  <2>. QED
    BY <2>1, <2>2, <2>3, ContactsAre
<1>3. /\ q \in C!Row \cup {None}
      /\ contacts[c] = None => q = None
      /\ contacts[c] # None =>
           /\ q \in C!Row /\ q.sent = 1 /\ q.origin = contacts[c].origin
           /\ q.received = IF o.kind = "sent" THEN 0 ELSE contacts[c].received
  <2>2. CASE contacts[c] = None
    BY <2>2 DEF C!FirstSent
  <2>3. CASE contacts[c] # None
    <3>1. contacts[c] = [name |-> contacts[c].name, sent |-> contacts[c].sent, received |-> contacts[c].received,
                         origin |-> contacts[c].origin, seen |-> contacts[c].seen]
          /\ contacts[c] \in C!Row /\ contacts[c].received \in Nat
      BY <1>2, <2>3, RowIs DEF C!Row
    <3>. QED
      BY <2>3, <3>1 DEF C!FirstSent, C!Row
  <2>. QED
    BY <2>2, <2>3
<1>4. \/ mishaps' > mishaps /\ UNCHANGED <<contacts, outs>>
      \/ Writes(c, q) /\ outs' = C!More(outs, c, y)
  BY FaultIs DEF C!CountFirst, Writes
<1>5. a \in {"stamp", "channel"} /\ y \in BOOLEAN
  OBVIOUS
<1>6. op' \in [C!Service -> OpType] /\ Goes(s, a)
  <2>. HIDE DEF a
  <2>. QED
    BY <1>1, <1>5, GoDo
<1>7. CASE mishaps' > mishaps /\ UNCHANGED <<contacts, outs>>
  BY <1>1, <1>2, <1>6, <1>7 DEF GraphTypes
<1>8. CASE Writes(c, q) /\ outs' = C!More(outs, c, y)
  <2>1. /\ contacts' \in [C!Ids -> C!Row \cup {None}] /\ contacts'[c] = q
        /\ \A d \in C!Ids : d # c => contacts'[d] = contacts[d]
    <3>. HIDE DEF q
    <3>. QED
      BY <1>2, <1>3, <1>8, WriteDo
  <2>2. outs \in [C!Ids -> Nat] /\ outs[c] \in Nat
    BY <1>2 DEF GraphTypes
  <2>3. /\ outs' \in [C!Ids -> Nat] /\ outs'[c] = outs[c] + (IF y THEN 1 ELSE 0)
        /\ \A d \in C!Ids : d # c => outs'[d] = outs[d]
    <3>. HIDE DEF y
    <3>. QED
      BY <1>2, <1>5, <1>8, <2>2, MoreDo
  <2>. HIDE DEF q, a
  <2>. QED
    BY <1>1, <1>2, <1>3, <1>6, <2>1, <2>2, <2>3 DEF a
<1>. QED
  BY <1>4, <1>7, <1>8

LEMMA StampDo ==
  ASSUME GraphTypes, OpInv, mishaps \in Nat, NEW s \in C!Service, C!Stamp(s)
  PROVE  LET c == op[s].id
         IN  /\ op' \in [C!Service -> OpType] /\ op[s].at = "stamp" /\ c = op[s].who /\ c \in Handles /\ s = "heartbeat"
             /\ Goes(s, "channel")
             /\ UNCHANGED <<channel, origins, written, outs, ins, extras, crossed>>
             /\ contacts' \in [C!Ids -> C!Row \cup {None}]
             /\ \A d \in C!Ids : d # c => contacts'[d] = contacts[d]
             /\ \/ contacts[c] = None /\ contacts'[c] = None
                \/ /\ contacts[c] # None /\ contacts'[c] \in C!Row
                   /\ contacts'[c].sent = contacts[c].sent /\ contacts'[c].received = contacts[c].received
                \/ mishaps' > mishaps /\ UNCHANGED contacts
<1>. DEFINE o == op[s]
            c == op[s].id
            q == C!Stamped(o, contacts[c])
<1>1. op[s].at = "stamp" /\ UNCHANGED <<channel, origins, written, outs, ins, extras, crossed>> /\ C!Go(s, "channel")
  BY DEF C!Stamp, C!history
<1>2. c \in C!Ids /\ c = op[s].who /\ c \in Handles /\ s = "heartbeat" /\ op[s].kind \in {"sent", "received", "signal"}
  BY <1>1, ContactsAre DEF OpInv, OpOf
<1>3. /\ q \in C!Row \cup {None}
      /\ contacts[c] = None => q = None
      /\ contacts[c] # None => q \in C!Row /\ q.sent = contacts[c].sent /\ q.received = contacts[c].received
  <2>2. CASE contacts[c] = None
    BY <2>2 DEF C!Stamped
  <2>3. CASE contacts[c] # None
    <3>1. contacts[c] = [name |-> contacts[c].name, sent |-> contacts[c].sent, received |-> contacts[c].received,
                         origin |-> contacts[c].origin, seen |-> contacts[c].seen]
          /\ contacts[c] \in C!Row
      BY <1>2, <2>3, RowIs DEF C!Row
    <3>2. C!Via(o) \in C!Vias /\ C!Via(o) \in {Personal, Inbox}
      BY <1>2, ViaIs
    <3>. QED
      BY <2>3, <3>1, <3>2 DEF C!Stamped, C!Row
  <2>. QED
    BY <2>2, <2>3
<1>4. \/ mishaps' > mishaps /\ UNCHANGED contacts
      \/ Writes(c, q)
  BY FaultIs DEF C!Stamp, Writes
<1>6. op' \in [C!Service -> OpType] /\ Goes(s, "channel")
  BY <1>1, GoDo
<1>7. CASE mishaps' > mishaps /\ UNCHANGED contacts
  BY <1>1, <1>2, <1>6, <1>7 DEF GraphTypes
<1>8. CASE Writes(c, q)
  <2>. HIDE DEF q
  <2>1. /\ contacts' \in [C!Ids -> C!Row \cup {None}] /\ contacts'[c] = q
        /\ \A d \in C!Ids : d # c => contacts'[d] = contacts[d]
    BY <1>2, <1>3, <1>8, WriteDo
  <2>. QED
    BY <1>1, <1>2, <1>3, <1>6, <2>1
<1>. QED
  BY <1>4, <1>7, <1>8

LEMMA BeginDo ==
  ASSUME GraphTypes, NEW s \in C!Service, Begins(s)
  PROVE  /\ op' \in [C!Service -> OpType] /\ op[s] = C!Idle /\ (s = "telegram" => origins = None)
         /\ \A r \in C!Service \ {s} : op'[r] = op[r]
         /\ op'[s].at = "resolve" /\ (op'[s].kind = "mention" => op'[s].who = Mentioned)
         /\ (op'[s].kind # "mention" => op'[s].who \in Handles)
         /\ op'[s].kind \in IF s = "heartbeat" THEN {"sent", "received", "signal"} ELSE {"track", "mention"}
         /\ crossed' \in BOOLEAN
         /\ (~ crossed' => ~ crossed /\ origins = None /\ \A r \in C!Service \ {s} : op[r] = C!Idle)
         /\ UNCHANGED <<contacts, channel, origins, written, outs, ins, extras, mishaps>>
<1>1. PICK kind \in IF s = "heartbeat" THEN {"sent", "received", "signal"} ELSE {"track", "mention"} :
      \E who \in IF kind = "mention" THEN {Mentioned} ELSE Handles : C!Begin(s, kind, who)
  BY DEF Begins
<1>2. PICK who \in IF kind = "mention" THEN {Mentioned} ELSE Handles : C!Begin(s, kind, who)
  BY <1>1
<1>. DEFINE n == [C!Idle EXCEPT !.at = "resolve", !.kind = kind, !.who = who]
<1>3. who \in C!Ids
  BY ContactsAre
<1>4. n \in OpType /\ n.at = "resolve" /\ n.kind = kind /\ n.who = who
  BY <1>3 DEF C!Idle, OpType, C!Ids
<1>5. op' = [op EXCEPT ![s] = n] /\ crossed' = (crossed \/ origins # None \/ \E r \in C!Service \ {s} : op[r] # C!Idle)
  BY <1>2 DEF C!Begin
<1>. HIDE DEF n
<1>6. op \in [C!Service -> OpType] /\ crossed \in BOOLEAN
  BY DEF GraphTypes, OpType
<1>7. /\ op' \in [C!Service -> OpType] /\ op'[s] = n /\ \A r \in C!Service \ {s} : op'[r] = op[r]
  BY <1>4, <1>5, <1>6
<1>8. /\ op[s] = C!Idle /\ (s = "telegram" => origins = None)
      /\ UNCHANGED <<contacts, channel, origins, written, outs, ins, extras, mishaps>>
  BY DEF Begins
<1>9. crossed' \in BOOLEAN /\ (~ crossed' => ~ crossed /\ origins = None /\ \A r \in C!Service \ {s} : op[r] = C!Idle)
  BY <1>5, <1>6
<1>. QED
  BY <1>1, <1>2, <1>4, <1>7, <1>8, <1>9

LEMMA ReadDo ==
  ASSUME GraphTypes, C!ReadOrigins
  PROVE  /\ op["telegram"] = C!Idle /\ origins = None /\ origins' \subseteq C!Known
         /\ (\A c \in origins' : contacts[c].origin = None) /\ origins' \in SUBSET C!Ids
         /\ crossed' = (crossed \/ op["heartbeat"] # C!Idle) /\ crossed' \in BOOLEAN
         /\ UNCHANGED <<contacts, channel, op, written, outs, ins, extras, mishaps>>
<1>1. crossed' = (crossed \/ op["heartbeat"] # C!Idle) /\ crossed \in BOOLEAN
  BY DEF C!ReadOrigins, GraphTypes
<1>2. origins' = {c \in C!Known : contacts[c].origin = None} /\ C!Known \subseteq C!Ids
  BY DEF C!ReadOrigins, C!Known
<1>. QED
  BY <1>1, <1>2 DEF C!ReadOrigins, C!Free, C!graph

LEMMA PlacedDo ==
  ASSUME NEW r \in C!Row
  PROVE  C!Placed(r) \in C!Row /\ C!Placed(r).sent = r.sent /\ C!Placed(r).received = r.received
<1>. DEFINE e == IF r.seen = {} THEN {Inbox} ELSE r.seen
            q == [name |-> r.name, sent |-> r.sent, received |-> r.received, origin |-> Inbox, seen |-> e]
<1>1. r = [name |-> r.name, sent |-> r.sent, received |-> r.received, origin |-> r.origin, seen |-> r.seen]
      /\ r.name \in C!Names /\ r.sent \in Nat /\ r.received \in Nat /\ e \in SUBSET {Personal, Inbox}
  BY DEF C!Row
<1>2. q \in C!Row
  BY <1>1 DEF C!Row, C!Vias
<1>3. C!Placed(r) = [r EXCEPT !.origin = Inbox, !.seen = e]
  BY DEF C!Placed
<1>4. C!Placed(r) = q
  <2>. HIDE DEF e
  <2>. QED
    BY <1>1, <1>3
<1>. QED
  BY <1>2, <1>4

LEMMA OriginsDo ==
  ASSUME GraphTypes, OpInv, C!WriteOrigins
  PROVE  /\ origins # None /\ origins \subseteq C!Known /\ origins' = None /\ op["telegram"] = C!Idle
         /\ contacts' \in [C!Ids -> C!Row \cup {None}]
         /\ \A c \in C!Ids :
              \/ contacts'[c] = contacts[c]
              \/ /\ c \in origins /\ contacts[c] # None /\ contacts'[c] \in C!Row
                 /\ contacts'[c].sent = contacts[c].sent /\ contacts'[c].received = contacts[c].received
         /\ UNCHANGED <<channel, op, written, outs, ins, extras, crossed, mishaps>>
<1>1. /\ origins # None /\ origins' = None
      /\ UNCHANGED <<channel, op, written, outs, ins, extras, crossed, mishaps>>
  BY DEF C!WriteOrigins, C!history
<1>2. origins \subseteq C!Known /\ op["telegram"] = C!Idle
  BY <1>1 DEF OpInv, OpOf
<1>. DEFINE w(c) == C!Placed(contacts[c])
            q(c) == IF c \in origins /\ \E m \in 1 .. Len(inbox) : inbox[m] = c THEN w(c) ELSE contacts[c]
<1>3. contacts' = [c \in C!Ids |-> q(c)]
  BY DEF C!WriteOrigins
<1>4. ASSUME NEW c \in C!Ids, c \in origins
      PROVE  /\ contacts[c] # None /\ w(c) \in C!Row
             /\ w(c).sent = contacts[c].sent /\ w(c).received = contacts[c].received
  <2>1. contacts[c] # None
    BY <1>2, <1>4 DEF C!Known
  <2>2. contacts[c] \in C!Row
    BY <2>1, RowIs
  <2>. QED
    BY <2>1, <2>2, PlacedDo
<1>. HIDE DEF w
<1>5. ASSUME NEW c \in C!Ids
      PROVE  /\ q(c) \in C!Row \cup {None}
             /\ \/ q(c) = contacts[c]
                \/ /\ c \in origins /\ contacts[c] # None /\ q(c) \in C!Row
                   /\ q(c).sent = contacts[c].sent /\ q(c).received = contacts[c].received
  <2>1. contacts[c] \in C!Row \cup {None}
    BY DEF GraphTypes
  <2>. QED
    BY <1>4, <2>1
<1>. HIDE DEF q
<1>. QED
  BY <1>1, <1>2, <1>3, <1>5

LEMMA CrashDo ==
  ASSUME GraphTypes, mishaps \in Nat, C!Crash
  PROVE  /\ mishaps' > mishaps /\ UNCHANGED <<contacts, channel, written, outs, ins, extras, crossed>>
         /\ op' \in [C!Service -> OpType] /\ origins' \in {origins, None}
         /\ \A s \in C!Service : op'[s] = op[s] \/ op'[s] = C!Idle
         /\ (op'["telegram"] = C!Idle \/ UNCHANGED origins)
         /\ (op'["telegram"] = op["telegram"] \/ origins' = None)
<1>1. op \in [C!Service -> OpType]
  BY DEF GraphTypes, OpType
<1>2. mishaps' > mishaps /\ UNCHANGED <<contacts, channel, written, outs, ins, extras, crossed>>
  BY FaultIs DEF C!Crash, C!graph, C!history
<1>3. \/ op' = [op EXCEPT !["heartbeat"] = C!Idle] /\ UNCHANGED origins
      \/ op' = [op EXCEPT !["telegram"] = C!Idle] /\ origins' = None
  BY DEF C!Crash
<1>. QED
  BY <1>1, <1>2, <1>3, IdleIs, ContactsAre

-----------------------------------------------------------------------------
(* The invariants of the contacts, step by step.                           *)

GraphInv == GraphTypes /\ OpInv /\ CountInv /\ FoundInv /\ AloneInv

\* Contacts stay, and those that count mail sent go on counting some.
Grows == \A c \in C!Ids : contacts[c] # None =>
           /\ contacts'[c] # None /\ contacts[c].sent \in Nat /\ contacts'[c].sent \in Nat
           /\ contacts[c].sent > 0 => contacts'[c].sent > 0

LEMMA OpStep ==
  ASSUME GraphTypes, OpInv, Grows, NEW s \in C!Service, op[s].at # "idle",
         \A r \in C!Service \ {s} : op'[r] = op[r], OpOf(s)', origins' = origins,
         \A h \in Handles : channel'[h] # None => channel'[h] = channel[h] \/ contacts'[channel'[h]] # None
  PROVE  OpInv'
<1>1. \A d \in C!Ids : contacts[d] # None => contacts'[d] # None
  BY DEF Grows
<1>2. ASSUME NEW r \in C!Service, r # s PROVE OpOf(r)'
  <2>1. op'[r] = op[r] /\ op[r].id \in C!Ids /\ OpOf(r)
    BY <1>2, OpIs DEF OpInv
  <2>. QED
    BY <1>1, <2>1 DEF OpOf, C!Outbound
<1>3. origins' # None => op'["telegram"] = C!Idle /\ origins' \subseteq C!Known'
  <2>1. origins # None => op["telegram"] = C!Idle /\ origins \subseteq C!Known
    BY DEF OpInv
  <2>2. origins # None => s # "telegram"
    BY <2>1, IdleIs
  <2>. QED
    BY <1>1, <2>1, <2>2, ContactsAre DEF C!Known
<1>4. ASSUME NEW h \in Handles, channel'[h] # None PROVE contacts'[channel'[h]] # None
  <2>1. channel[h] \in C!Ids \cup {None} /\ (channel[h] # None => contacts[channel[h]] # None)
    BY DEF OpInv, GraphTypes
  <2>. QED
    BY <1>1, <1>4, <2>1
<1>. QED
  BY <1>2, <1>3, <1>4 DEF OpInv

\* The mail counted to a contact that a step leaves alone.
LEMMA CountStep ==
  ASSUME GraphTypes, CountInv, mishaps \in Nat, mishaps' \in Nat, NEW c \in C!Ids,
         contacts'[c] = contacts[c], outs'[c] = outs[c], ins'[c] = ins[c], extras'[c] = extras[c],
         mishaps' >= mishaps, Uncounted(c)' >= Uncounted(c) \/ mishaps' > mishaps
  PROVE  CountOf(c)'
<1>1. CountOf(c) /\ outs[c] \in Nat /\ ins[c] \in Nat /\ extras[c] \in Nat
      /\ (contacts[c] # None => contacts[c].sent \in Nat /\ contacts[c].received \in Nat)
  BY RowIs DEF CountInv, GraphTypes
<1>2. Uncounted(c) \in 0 .. 1 /\ Uncounted(c)' \in 0 .. 1
  BY DEF Uncounted
<1>. QED
  BY <1>1, <1>2 DEF CountOf

\* Only the heartbeat, where it has made a contact for a mail sent, leaves one uncounted.
LEMMA UncountedStep ==
  ASSUME NEW s \in C!Service, NEW c \in C!Ids, \A r \in C!Service \ {s} : op'[r] = op[r],
         op[s].at \in {"bind", "count"} /\ op[s].kind = "sent" /\ s = "heartbeat" =>
           op'[s].at \in {"bind", "count"} /\ op'[s].kind = "sent" /\ op'[s].id = op[s].id,
         contacts'[c] = contacts[c]
           \/ (contacts[c].received \in Nat /\ contacts'[c].received \in Nat /\ contacts'[c].received >= contacts[c].received)
  PROVE  Uncounted(c) \in 0 .. 1 /\ Uncounted(c)' \in 0 .. 1 /\ Uncounted(c)' >= Uncounted(c)
<1>1. s = "heartbeat" \/ op'["heartbeat"] = op["heartbeat"]
  BY ContactsAre
<1>2. contacts[c].received > 0 => contacts'[c].received > 0
  OBVIOUS
<1>3. Uncounted(c) = 1 => Uncounted(c)' = 1
  BY <1>1, <1>2 DEF Uncounted
<1>4. Uncounted(c) \in {0, 1} /\ Uncounted(c)' \in {0, 1}
  BY DEF Uncounted
<1>. QED
  BY <1>3, <1>4

\* While neither crosses the other, the one that works is alone.
Alone(s) ==
  /\ origins = None /\ \A r \in C!Service \ {s} : op[r] = C!Idle
  /\ mishaps = 0 =>
       /\ New(s)
       /\ \A h \in written : channel[h] # None /\ Mailed(channel[h])
       /\ \A d \in C!Ids : Exact(d)

LEMMA AloneIs ==
  ASSUME OpInv, AloneInv, ~ crossed, NEW s \in C!Service, op[s].at # "idle"
  PROVE  Alone(s)
<1>1. op["heartbeat"] = C!Idle \/ (op["telegram"] = C!Idle /\ origins = None)
  BY DEF AloneInv
<1>2. origins # None => op["telegram"] = C!Idle
  BY DEF OpInv
<1>3. op[s] # C!Idle
  BY IdleIs
<1>. QED
  BY <1>1, <1>2, <1>3, ContactsAre DEF Alone, AloneInv

\* The others remain idle, and new.
LEMMA NewStep ==
  ASSUME NEW s \in C!Service, Alone(s), \A r \in C!Service \ {s} : op'[r] = op[r], New(s)', NEW r \in C!Service
  PROVE  New(r)'
<1>1. r = s \/ (op'[r].at = "idle" /\ op'[r].at \notin Beyond)
  BY IdleIs DEF Alone, Beyond
<1>. QED
  BY <1>1 DEF New

LEMMA UpdateKeeps ==
  ASSUME GraphInv, mishaps \in Nat, mishaps' \in {mishaps, mishaps + 1}, NEW s \in C!Service, C!Update(s)
  PROVE  GraphInv'
<1>0. GraphTypes /\ OpInv /\ CountInv /\ FoundInv /\ AloneInv
  BY DEF GraphInv
<1>a. PICK c \in C!Ids : c = op[s].id
  BY <1>0, OpIs
<1>. DEFINE out == IF C!Outbound(op[s]) THEN 1 ELSE 0
<1>1. /\ op' \in [C!Service -> OpType] /\ op[s].at = "update" /\ Goes(s, "channel")
      /\ UNCHANGED <<channel, origins, written, extras, crossed>>
      /\ c \in C!Ids /\ contacts[c] # None
      /\ contacts' \in [C!Ids -> C!Row \cup {None}] /\ outs' \in [C!Ids -> Nat] /\ ins' \in [C!Ids -> Nat]
      /\ \A d \in C!Ids : d # c => contacts'[d] = contacts[d] /\ outs'[d] = outs[d] /\ ins'[d] = ins[d]
      /\ \/ /\ contacts'[c] \in C!Row
            /\ contacts'[c].sent = contacts[c].sent + out /\ outs'[c] = outs[c] + out
            /\ contacts'[c].received = contacts[c].received + (1 - out) /\ ins'[c] = ins[c] + (1 - out)
            /\ contacts[c].origin # None => contacts'[c].origin = contacts[c].origin
         \/ mishaps' > mishaps /\ UNCHANGED <<contacts, outs, ins>>
  BY <1>0, <1>a, UpdateDo
<1>2. GraphTypes'
  BY <1>0, <1>1 DEF GraphTypes, OpType
<1>3. Grows /\ \A d \in C!Ids : contacts[d] = None => contacts'[d] = None
  <2>1. \A d \in C!Ids : contacts[d] # None => contacts[d].sent \in Nat
    BY <1>0, RowIs
  <2>2. C!Row \cap {None} = {}
    BY ContactsAre
  <2>3. out \in 0 .. 1
    OBVIOUS
  <2>. HIDE DEF out
  <2>. QED
    BY <1>1, <2>1, <2>2, <2>3 DEF Grows
<1>4. OpInv'
  <2>1. OpOf(s)'
    BY <1>0, <1>1 DEF OpInv, OpOf, Goes, C!Outbound
  <2>. QED
    BY <1>0, <1>1, <1>3, <2>1, OpStep DEF Goes
<1>. HIDE DEF out
<1>5. CountInv'
  <2>1. op[s].at = "update" /\ op'[s].at = "channel" /\ \A r \in C!Service \ {s} : op'[r] = op[r]
    BY <1>1 DEF Goes
  <2>2. ASSUME NEW d \in C!Ids, d # c PROVE CountOf(d)'
    <3>1. contacts'[d] = contacts[d] /\ outs'[d] = outs[d] /\ ins'[d] = ins[d] /\ extras'[d] = extras[d]
      BY <1>1, <2>2
    <3>2. Uncounted(d)' >= Uncounted(d)
      BY <2>1, <3>1, UncountedStep
    <3>. QED
      BY <1>0, <3>1, <3>2, CountStep
  <2>3. CountOf(c)'
    <3>1. CountOf(c) /\ outs[c] \in Nat /\ ins[c] \in Nat /\ extras[c] \in Nat
          /\ contacts[c].sent \in Nat /\ contacts[c].received \in Nat /\ out \in 0 .. 1 /\ contacts[c] # None
      BY <1>0, <1>1, RowIs DEF CountInv, GraphTypes, out
    <3>2. contacts'[c] # None /\ (contacts'[c] = contacts[c] \/ (contacts'[c].received \in Nat /\ contacts'[c].received >= contacts[c].received))
      BY <1>1, <1>3, <3>1 DEF Grows
    <3>3. Uncounted(c)' >= Uncounted(c) /\ Uncounted(c) \in Nat /\ Uncounted(c)' \in Nat
      BY <1>1, <2>1, <3>1, <3>2, UncountedStep
    <3>4. extras'[c] = extras[c] /\ contacts[c].sent <= outs[c] /\ contacts[c].received <= ins[c] + extras[c] + mishaps + Uncounted(c)
      BY <1>1, <3>1 DEF CountOf
    <3>5. contacts'[c].sent <= outs'[c] /\ contacts'[c].received <= ins'[c] + extras'[c] + mishaps' + Uncounted(c)'
      BY <1>1, <3>1, <3>3, <3>4
    <3>. QED
      BY <3>2, <3>5 DEF CountOf
  <2>. QED
    BY <2>2, <2>3 DEF CountInv
<1>6. FoundInv'
  <2>. SUFFICES ASSUME mishaps' = 0
                PROVE  /\ \A r \in C!Service : Stands(r)'
                       /\ \A h \in Handles :
                            MadeBound(h)' /\ MakesOwn(h)' /\ TrackBound(h)' /\ OneFound(h)' /\ WeakOwn(h)' /\ Leading(h)'
    BY DEF FoundInv
  <2>1. /\ \A r \in C!Service : Stands(r)
        /\ \A h \in Handles : MadeBound(h) /\ MakesOwn(h) /\ TrackBound(h) /\ OneFound(h) /\ WeakOwn(h) /\ Leading(h)
    BY <1>0 DEF FoundInv
  <2>2. /\ op[s].at = "update" /\ op'[s].at = "channel"
        /\ \A r \in C!Service : op'[r].who = op[r].who /\ op'[r].id = op[r].id /\ op'[r].kind = op[r].kind
        /\ \A r \in C!Service \ {s} : op'[r].at = op[r].at
    BY <1>1 DEF Goes
  <2>3. /\ \A d \in C!Ids : contacts[d] = None <=> contacts'[d] = None
        /\ \A d \in C!Ids : contacts[d] # None => contacts'[d].sent \in Nat /\ (contacts[d].sent > 0 => contacts'[d].sent > 0)
        /\ C!Outbound(op[s]) => contacts'[c].sent > 0
    <3>1. \A d \in C!Ids : contacts[d] # None => contacts[d].sent \in Nat
      BY <1>0, RowIs
    <3>2. mishaps = 0 /\ ~ (mishaps' > mishaps)
      OBVIOUS
    <3>3. C!Outbound(op[s]) => contacts'[c].sent > 0
      BY <1>1, <3>1, <3>2 DEF out
    <3>. QED
      BY <1>3, <3>1, <3>3 DEF Grows
  <2>13. ASSUME NEW h \in C!Ids, Weak(h)' PROVE Weak(h)
    <3>1. contacts[h] # None => contacts[h].sent \in Nat
      BY <1>0, <2>13, RowIs
    <3>2. \A r \in C!Service : Half(r, h) => Half(r, h)'
      BY <2>2 DEF Half, C!Outbound
    <3>. QED
      BY <1>3, <2>3, <2>13, <3>1, <3>2 DEF Weak, Pending, Grows
  <2>4. \A r \in C!Service : op[r].id \in C!Ids
    BY <1>0, OpIs
  <2>5. channel' = channel /\ written' = written /\ \A h \in Handles : channel[h] # None => channel[h] \in C!Ids
    BY <1>0, <1>1 DEF GraphTypes
  <2>6. ASSUME NEW r \in C!Service PROVE Stands(r)'
    BY <2>1, <2>2, <2>3, <2>4, <1>1, <1>a DEF Stands, C!Outbound, Mailed
  <2>7. ASSUME NEW h \in Handles PROVE MadeBound(h)'
    BY <2>1, <2>2, <2>3, <2>5, ContactsAre DEF MadeBound
  <2>8. ASSUME NEW h \in Handles PROVE MakesOwn(h)'
    BY <2>1, <2>2, <2>3, <2>5, ContactsAre DEF MakesOwn, At, Beyond
  <2>9. ASSUME NEW h \in Handles PROVE TrackBound(h)'
    BY <2>1, <2>2, <2>5, ContactsAre DEF TrackBound
  <2>10. ASSUME NEW h \in Handles PROVE OneFound(h)'
    BY <2>1, <2>2, <2>3, <2>5, ContactsAre DEF OneFound
  <2>11. ASSUME NEW h \in Handles PROVE WeakOwn(h)'
    BY <2>1, <2>2, <2>13, <2>5, ContactsAre DEF WeakOwn, At, Beyond
  <2>12. ASSUME NEW h \in Handles PROVE Leading(h)'
    BY <2>1, <2>2, <2>3, <2>13, <2>5, ContactsAre DEF Leading, Mailed
  <2>. QED
    BY <2>6, <2>7, <2>8, <2>9, <2>10, <2>11, <2>12
<1>7. AloneInv'
  <2>. SUFFICES ASSUME ~ crossed'
                PROVE  /\ op'["heartbeat"] = C!Idle \/ (op'["telegram"] = C!Idle /\ origins' = None)
                       /\ mishaps' = 0 =>
                            /\ \A r \in C!Service : New(r)'
                            /\ origins' # None => \A d \in origins' : contacts'[d].origin = None
                            /\ \A h \in written' : channel'[h] # None /\ Mailed(channel[h])'
                            /\ \A d \in C!Ids : Exact(d)'
    BY DEF AloneInv
  <2>1. Alone(s)
    BY <1>0, <1>1, AloneIs
  <2>2. op'["heartbeat"] = C!Idle \/ (op'["telegram"] = C!Idle /\ origins' = None)
    BY <1>1, <2>1, ContactsAre DEF Alone, Goes
  <2>. SUFFICES ASSUME mishaps' = 0
                PROVE  /\ \A r \in C!Service : New(r)'
                       /\ \A h \in written' : channel'[h] # None /\ Mailed(channel[h])'
                       /\ \A d \in C!Ids : Exact(d)'
    BY <1>1, <2>1, <2>2 DEF Alone
  <2>6. mishaps = 0 /\ ~ (mishaps' > mishaps)
    OBVIOUS
  <2>3. ASSUME NEW r \in C!Service PROVE New(r)'
    <3>1. New(s)'
      BY <1>1, <1>a, <2>1, <2>6 DEF Alone, New, Goes, Beyond
    <3>. QED
      BY <1>1, <2>1, <3>1, NewStep DEF Goes
  <2>4. ASSUME NEW h \in written' PROVE channel'[h] # None /\ Mailed(channel[h])'
    <3>1. h \in Handles /\ channel[h] \in C!Ids \cup {None} /\ channel[h] # None /\ Mailed(channel[h])
      BY <1>0, <1>1, <2>1, <2>6 DEF Alone, GraphTypes
    <3>. QED
      BY <1>1, <1>3, <3>1 DEF Mailed, Grows
  <2>5. ASSUME NEW d \in C!Ids PROVE Exact(d)'
    <3>1. Exact(d) /\ Uncounted(d) = 0 /\ Uncounted(d)' = 0
      BY <1>1, <2>1, <2>6, ContactsAre, IdleIs DEF Alone, Goes, Uncounted
    <3>2. outs[d] \in Nat /\ ins[d] \in Nat /\ extras[d] \in Nat
          /\ (contacts[d] # None => contacts[d].sent \in Nat /\ contacts[d].received \in Nat)
      BY <1>0, RowIs DEF GraphTypes
    <3>3. CASE d # c
      BY <1>1, <3>1, <3>3 DEF Exact
    <3>4. CASE d = c
      BY <1>1, <2>6, <3>1, <3>2, <3>4 DEF Exact, out
    <3>. QED
      BY <3>3, <3>4
  <2>. QED
    BY <2>3, <2>4, <2>5
<1>. QED
  BY <1>2, <1>4, <1>5, <1>6, <1>7 DEF GraphInv

\* A service that is not at a contact, before and after.
Away(s) == op[s].at \in {"idle", "resolve"}

\* What it does makes no difference to the counts and to who is found.
LEMMA QuietKeeps ==
  ASSUME GraphInv, mishaps \in Nat, mishaps' \in {mishaps, mishaps + 1},
         UNCHANGED <<contacts, channel, written, outs, ins, extras>>,
         \A r \in C!Service : op'[r] = op[r] \/ (Away(r) /\ Away(r)')
  PROVE  CountInv' /\ FoundInv'
<1>0. GraphTypes /\ OpInv /\ CountInv /\ FoundInv /\ AloneInv
  BY DEF GraphInv
<1>1. \A r \in C!Service : op'[r] = op[r] \/ (op[r].at \in {"idle", "resolve"} /\ op'[r].at \in {"idle", "resolve"})
  BY DEF Away
<1>2. CountInv'
  <2>1. ASSUME NEW c \in C!Ids PROVE CountOf(c)'
    <3>1. Uncounted(c) = Uncounted(c)' /\ Uncounted(c) \in Nat
      BY <1>1, ContactsAre DEF Uncounted
    <3>. QED
      BY <1>0, <3>1, CountStep
  <2>. QED
    BY <2>1 DEF CountInv
<1>3. FoundInv'
  <2>. SUFFICES ASSUME mishaps' = 0
                PROVE  /\ \A r \in C!Service : Stands(r)'
                       /\ \A h \in Handles :
                            MadeBound(h)' /\ MakesOwn(h)' /\ TrackBound(h)' /\ OneFound(h)' /\ WeakOwn(h)' /\ Leading(h)'
    BY DEF FoundInv
  <2>1. /\ \A r \in C!Service : Stands(r)
        /\ \A h \in Handles : MadeBound(h) /\ MakesOwn(h) /\ TrackBound(h) /\ OneFound(h) /\ WeakOwn(h) /\ Leading(h)
    BY <1>0 DEF FoundInv
  <2>2. ASSUME NEW r \in C!Service PROVE Stands(r)'
    BY <1>1, <2>1 DEF Stands, C!Outbound, Mailed
  <2>3. ASSUME NEW h \in C!Ids PROVE Weak(h) <=> Weak(h)'
    <3>1. Pending(h) <=> Pending(h)'
      BY <1>1 DEF Pending, Half, C!Outbound
    <3>. QED
      BY <3>1 DEF Weak
  <2>4. ASSUME NEW h \in Handles, NEW r \in C!Service PROVE At(r, h)' => At(r, h) /\ op'[r] = op[r]
    BY <1>1 DEF At, Beyond
  <2>5. ASSUME NEW h \in Handles PROVE MadeBound(h)'
    BY <1>1, <2>1 DEF MadeBound
  <2>6. ASSUME NEW h \in Handles PROVE MakesOwn(h)'
    BY <1>1, <2>1, <2>4, ContactsAre DEF MakesOwn
  <2>7. ASSUME NEW h \in Handles PROVE TrackBound(h)'
    BY <1>1, <2>1, ContactsAre DEF TrackBound
  <2>8. ASSUME NEW h \in Handles PROVE OneFound(h)'
    BY <1>1, <2>1 DEF OneFound
  <2>9. ASSUME NEW h \in Handles PROVE WeakOwn(h)'
    BY <2>1, <2>3, <2>4, ContactsAre DEF WeakOwn
  <2>10. ASSUME NEW h \in Handles PROVE Leading(h)'
    BY <2>1, <2>3, ContactsAre DEF Leading, Mailed
  <2>. QED
    BY <2>2, <2>5, <2>6, <2>7, <2>8, <2>9, <2>10
<1>. QED
  BY <1>2, <1>3

LEMMA BeginKeeps ==
  ASSUME GraphInv, mishaps \in Nat, NEW s \in C!Service, Begins(s)
  PROVE  GraphInv'
<1>0. GraphTypes /\ OpInv /\ CountInv /\ FoundInv /\ AloneInv
  BY DEF GraphInv
<1>1. /\ op' \in [C!Service -> OpType] /\ op[s] = C!Idle /\ (s = "telegram" => origins = None)
      /\ \A r \in C!Service \ {s} : op'[r] = op[r]
      /\ op'[s].at = "resolve" /\ (op'[s].kind = "mention" => op'[s].who = Mentioned)
      /\ (op'[s].kind # "mention" => op'[s].who \in Handles)
      /\ op'[s].kind \in IF s = "heartbeat" THEN {"sent", "received", "signal"} ELSE {"track", "mention"}
      /\ crossed' \in BOOLEAN
      /\ (~ crossed' => ~ crossed /\ origins = None /\ \A r \in C!Service \ {s} : op[r] = C!Idle)
      /\ UNCHANGED <<contacts, channel, origins, written, outs, ins, extras, mishaps>>
  BY <1>0, BeginDo
<1>2. GraphTypes'
  BY <1>0, <1>1 DEF GraphTypes, OpType
<1>3. OpInv'
  <2>1. ASSUME NEW r \in C!Service, r # s PROVE OpOf(r)'
    <3>1. op'[r] = op[r] /\ OpOf(r)
      BY <1>0, <1>1, <2>1 DEF OpInv
    <3>. QED
      BY <1>1, <3>1 DEF OpOf, C!Outbound
  <2>2. OpOf(s)'
    BY <1>1 DEF OpOf
  <2>. QED
    BY <1>0, <1>1, <2>1, <2>2, ContactsAre DEF OpInv, C!Known
<1>4. CountInv' /\ FoundInv'
  <2>1. \A r \in C!Service : op'[r] = op[r] \/ (Away(r) /\ Away(r)')
    BY <1>1, IdleIs DEF Away
  <2>. QED
    BY <1>1, <2>1, QuietKeeps
<1>5. AloneInv'
  <2>. SUFFICES ASSUME ~ crossed'
                PROVE  /\ op'["heartbeat"] = C!Idle \/ (op'["telegram"] = C!Idle /\ origins' = None)
                       /\ mishaps' = 0 =>
                            /\ \A r \in C!Service : New(r)'
                            /\ origins' # None => \A d \in origins' : contacts'[d].origin = None
                            /\ \A h \in written' : channel'[h] # None /\ Mailed(channel[h])'
                            /\ \A d \in C!Ids : Exact(d)'
    BY DEF AloneInv
  <2>1. op'["heartbeat"] = C!Idle \/ (op'["telegram"] = C!Idle /\ origins' = None)
    BY <1>1, ContactsAre
  <2>. SUFFICES ASSUME mishaps' = 0
                PROVE  /\ \A r \in C!Service : New(r)'
                       /\ \A h \in written' : channel'[h] # None /\ Mailed(channel[h])'
                       /\ \A d \in C!Ids : Exact(d)'
    BY <1>1, <2>1
  <2>2. ~ crossed /\ mishaps = 0
    BY <1>1
  <2>3. ASSUME NEW r \in C!Service PROVE New(r)'
    BY <1>1, IdleIs DEF New, Beyond
  <2>4. ASSUME NEW h \in written' PROVE channel'[h] # None /\ Mailed(channel[h])'
    BY <1>0, <1>1, <2>2 DEF AloneInv, Mailed
  <2>5. ASSUME NEW d \in C!Ids PROVE Exact(d)'
    <3>1. Exact(d) /\ Uncounted(d) = 0 /\ Uncounted(d)' = 0
      BY <1>0, <1>1, <2>2, ContactsAre, IdleIs DEF AloneInv, Uncounted
    <3>. QED
      BY <1>1, <3>1 DEF Exact
  <2>. QED
    BY <2>3, <2>4, <2>5
<1>. QED
  BY <1>2, <1>3, <1>4, <1>5 DEF GraphInv

LEMMA ResolveKeeps ==
  ASSUME GraphInv, mishaps \in Nat, mishaps' \in {mishaps, mishaps + 1}, NEW s \in C!Service, C!Resolve(s)
  PROVE  GraphInv'
<1>0. GraphTypes /\ OpInv /\ CountInv /\ FoundInv /\ AloneInv
  BY DEF GraphInv
<1>1. /\ op' \in [C!Service -> OpType] /\ op[s].at = "resolve" /\ \A r \in C!Service \ {s} : op'[r] = op[r]
      /\ UNCHANGED <<contacts, channel, origins, written, outs, ins, extras, crossed>>
  BY <1>0, ResolveDo DEF Rests
<1>a. \/ op'[s] = C!Idle
      \/ /\ op'[s].kind = op[s].kind /\ op'[s].who = op[s].who
         /\ \/ /\ op'[s].at = "update" /\ contacts[op'[s].id] # None /\ op[s].kind # "mention"
               /\ channel[op[s].who] # None => op'[s].id = channel[op[s].who]
               /\ op[s].kind = "track" => channel[op[s].who] # None
            \/ /\ op'[s].at = "create" /\ op'[s].id = op[s].who
               /\ mishaps' = mishaps /\ op[s].kind # "mention" => channel[op[s].who] = None
  BY <1>0, ResolveDo DEF Rests
<1>2. GraphTypes'
  BY <1>0, <1>1 DEF GraphTypes, OpType
<1>3. Grows
  BY <1>0, <1>1, RowIs DEF Grows
<1>b. OpOf(s)
  BY <1>0 DEF OpInv
<1>4. OpInv'
  <2>1. OpOf(s)'
    BY <1>a, <1>b, <1>1, IdleIs DEF OpOf
  <2>. QED
    BY <1>0, <1>1, <1>3, <2>1, OpStep
<1>5. CountInv'
  <2>1. ASSUME NEW c \in C!Ids PROVE CountOf(c)'
    <3>1. Uncounted(c)' >= Uncounted(c)
      BY <1>1, UncountedStep
    <3>. QED
      BY <1>0, <1>1, <3>1, CountStep
  <2>. QED
    BY <2>1 DEF CountInv
<1>6. FoundInv'
  <2>. SUFFICES ASSUME mishaps' = 0
                PROVE  /\ \A r \in C!Service : Stands(r)'
                       /\ \A h \in Handles :
                            MadeBound(h)' /\ MakesOwn(h)' /\ TrackBound(h)' /\ OneFound(h)' /\ WeakOwn(h)' /\ Leading(h)'
    BY DEF FoundInv
  <2>1. /\ \A r \in C!Service : Stands(r)
        /\ \A h \in Handles : MadeBound(h) /\ MakesOwn(h) /\ TrackBound(h) /\ OneFound(h) /\ WeakOwn(h) /\ Leading(h)
    BY <1>0 DEF FoundInv
  <2>c. mishaps' = mishaps
    OBVIOUS
  <2>2. ASSUME NEW r \in C!Service PROVE Stands(r)'
    BY <1>1, <1>a, <2>1, IdleIs DEF Stands, C!Outbound, Mailed
  <2>3. ASSUME NEW h \in C!Ids PROVE Weak(h) <=> Weak(h)'
    <3>1. Pending(h) <=> Pending(h)'
      BY <1>1, <1>a, IdleIs DEF Pending, Half, C!Outbound
    <3>. QED
      BY <1>1, <3>1 DEF Weak
  <2>4. op[s].kind = "mention" => op[s].who \notin Handles
    BY <1>b, ContactsAre DEF OpOf
  <2>5. ASSUME NEW h \in Handles PROVE MadeBound(h)'
    BY <1>1, <2>1 DEF MadeBound
  <2>7. ASSUME NEW h \in Handles PROVE TrackBound(h)'
    <3>1. op[s].kind # "track" => s # "telegram" \/ op[s].kind = "mention"
      BY <1>1, <1>b, ContactsAre DEF OpOf
    <3>. QED
      BY <1>1, <1>a, <2>1, <2>4, <3>1, IdleIs, ContactsAre DEF TrackBound
  <2>6. ASSUME NEW h \in Handles PROVE MakesOwn(h)'
    <3>. SUFFICES ASSUME op'["heartbeat"].at = "create", op'["heartbeat"].who = h
                  PROVE  channel[h] \in {None, h} /\ (At("telegram", h)' => op'["telegram"].id = h)
      BY <1>1 DEF MakesOwn
    <3>1. channel[h] \in {None, h}
      <4>1. CASE s = "heartbeat"
        BY <1>a, <2>4, <2>c, <4>1, IdleIs
      <4>2. CASE s # "heartbeat"
        BY <1>1, <2>1, <4>2, ContactsAre DEF MakesOwn
      <4>. QED
        BY <4>1, <4>2
    <3>2. ASSUME At("telegram", h)' PROVE op'["telegram"].id = h
      <4>1. op'["telegram"].who = h /\ op'["telegram"].at \in Beyond
        BY <3>2 DEF At
      <4>2. CASE s = "heartbeat"
        <5>1. op'["telegram"] = op["telegram"] /\ OpOf("telegram") /\ TrackBound(h) /\ channel[h] = None
          BY <1>0, <1>1, <1>a, <2>1, <2>4, <2>c, <4>2, IdleIs, ContactsAre DEF OpInv
        <5>. QED
          BY <4>1, <5>1 DEF Beyond, TrackBound, OpOf
      <4>3. CASE s = "telegram"
        <5>1. op[s].kind \in {"track", "mention"}
          BY <1>1, <1>b, <4>3 DEF OpOf
        <5>. QED
          BY <1>a, <2>4, <3>1, <4>1, <4>3, <5>1, IdleIs DEF Beyond
      <4>. QED
        BY <4>2, <4>3, ContactsAre
    <3>. QED
      BY <3>1, <3>2
  <2>8. ASSUME NEW h \in Handles PROVE OneFound(h)'
    BY <1>1, <1>a, <2>1, IdleIs DEF OneFound
  <2>9. ASSUME NEW h \in Handles PROVE WeakOwn(h)'
    <3>. SUFFICES ASSUME Weak(h)
                  PROVE  channel[h] \in {None, h} /\ \A r \in C!Service : At(r, h)' => op'[r].id = h
      BY <1>1, <2>3, ContactsAre DEF WeakOwn
    <3>1. channel[h] \in {None, h} /\ \A r \in C!Service : At(r, h) => op[r].id = h
      BY <2>1 DEF WeakOwn
    <3>2. ASSUME At(s, h)', op'[s].at = "update" PROVE op'[s].id = h
      <4>1. op[s].who = h /\ (channel[h] # None => op'[s].id = channel[h]) /\ (op[s].kind = "track" => channel[h] # None)
            /\ op[s].kind # "mention"
        BY <1>a, <3>2, IdleIs DEF At, Beyond
      <4>2. ASSUME channel[h] = None PROVE FALSE
        <5>1. PICK q \in C!Service : op[q].who = h /\ op[q].at = "bind"
          BY <2>1, <4>2 DEF MadeBound, Weak
        <5>2. OpOf(q) /\ q # s
          BY <1>0, <1>1, <5>1 DEF OpInv
        <5>3. q = "telegram" => op[q].kind = "track"
          BY <5>1, <5>2 DEF OpOf
        <5>4. s = "telegram" => op[s].kind = "track"
          BY <1>1, <1>b, <4>1 DEF OpOf
        <5>5. op[q].kind # "track"
          BY <5>1 DEF Weak, Pending, Half, C!Outbound
        <5>. QED
          BY <4>1, <4>2, <5>2, <5>3, <5>4, <5>5, ContactsAre
      <4>. QED
        BY <3>1, <4>1, <4>2
    <3>3. ASSUME NEW r \in C!Service, At(r, h)' PROVE op'[r].id = h
      BY <1>1, <1>a, <3>1, <3>2, <3>3, IdleIs DEF At, Beyond
    <3>. QED
      BY <3>1, <3>3
  <2>10. ASSUME NEW h \in Handles PROVE Leading(h)'
    BY <1>1, <2>1, <2>3, ContactsAre DEF Leading, Mailed
  <2>. QED
    BY <2>2, <2>5, <2>6, <2>7, <2>8, <2>9, <2>10
<1>7. AloneInv'
  <2>. SUFFICES ASSUME ~ crossed'
                PROVE  /\ op'["heartbeat"] = C!Idle \/ (op'["telegram"] = C!Idle /\ origins' = None)
                       /\ mishaps' = 0 =>
                            /\ \A r \in C!Service : New(r)'
                            /\ origins' # None => \A d \in origins' : contacts'[d].origin = None
                            /\ \A h \in written' : channel'[h] # None /\ Mailed(channel[h])'
                            /\ \A d \in C!Ids : Exact(d)'
    BY DEF AloneInv
  <2>1. Alone(s)
    BY <1>0, <1>1, AloneIs
  <2>2. op'["heartbeat"] = C!Idle \/ (op'["telegram"] = C!Idle /\ origins' = None)
    BY <1>1, <2>1, ContactsAre DEF Alone
  <2>. SUFFICES ASSUME mishaps' = 0
                PROVE  /\ \A r \in C!Service : New(r)'
                       /\ \A h \in written' : channel'[h] # None /\ Mailed(channel[h])'
                       /\ \A d \in C!Ids : Exact(d)'
    BY <1>1, <2>1, <2>2 DEF Alone
  <2>6. mishaps = 0 /\ mishaps' = mishaps
    OBVIOUS
  <2>4. ASSUME NEW h \in written' PROVE channel'[h] # None /\ Mailed(channel[h])'
    BY <1>1, <2>1, <2>6 DEF Alone, Mailed
  <2>3. ASSUME NEW r \in C!Service PROVE New(r)'
    <3>1. New(s)'
      <4>1. CASE op'[s] = C!Idle
        BY <4>1, IdleIs DEF New, Beyond
      <4>2. CASE op'[s].at = "update" /\ op'[s].who = op[s].who /\ (channel[op[s].who] # None => op'[s].id = channel[op[s].who])
        BY <1>1, <2>1, <2>6, <4>2 DEF New, Beyond, Alone
      <4>3. CASE op'[s].at = "create" /\ op'[s].kind = op[s].kind /\ op'[s].who = op[s].who /\ op'[s].id = op[s].who
                 /\ (op[s].kind # "mention" => channel[op[s].who] = None)
        <5>1. op[s].who \in Handles \/ op[s].who = Mentioned
          BY <1>b, <1>1 DEF OpOf
        <5>2. op[s].kind # "mention" => op[s].who \in Handles
          BY <1>b, <1>1 DEF OpOf
        <5>3. op[s].kind = "mention" => op[s].who \notin Handles
          BY <1>b, ContactsAre DEF OpOf
        <5>4. op[s].who \notin written
          BY <1>0, <2>1, <2>6, <4>3, <5>2, <5>3 DEF Alone, GraphTypes
        <5>5. ASSUME op[s].kind # "mention" PROVE contacts[op[s].who] = None
          <6>1. MadeBound(op[s].who)
            BY <1>0, <2>6, <5>2, <5>5 DEF FoundInv
          <6>. QED
            BY <1>1, <2>1, <4>3, <5>5, <6>1, IdleIs DEF MadeBound, Alone
        <5>. QED
          BY <1>1, <4>3, <5>4, <5>5 DEF New
      <4>. QED
        BY <1>a, <2>6, <4>1, <4>2, <4>3
    <3>. QED
      BY <1>1, <2>1, <3>1, NewStep
  <2>5. ASSUME NEW d \in C!Ids PROVE Exact(d)'
    <3>1. Exact(d) /\ Uncounted(d) = 0 /\ Uncounted(d)' = 0
      BY <1>1, <1>a, <2>1, <2>6, ContactsAre, IdleIs DEF Alone, Uncounted
    <3>. QED
      BY <1>1, <3>1 DEF Exact
  <2>. QED
    BY <2>3, <2>4, <2>5
<1>. QED
  BY <1>2, <1>4, <1>5, <1>6, <1>7 DEF GraphInv

LEMMA CreateKeeps ==
  ASSUME GraphInv, mishaps \in Nat, mishaps' \in {mishaps, mishaps + 1}, NEW s \in C!Service, C!Create(s)
  PROVE  GraphInv'
<1>0. GraphTypes /\ OpInv /\ CountInv /\ FoundInv /\ AloneInv
  BY DEF GraphInv
<1>a. PICK c \in C!Ids : c = op[s].id
  BY <1>0, OpIs
<1>1. /\ op' \in [C!Service -> OpType] /\ op[s].at = "create" /\ c = op[s].who
      /\ UNCHANGED <<channel, origins, written, outs, crossed>> /\ \A r \in C!Service \ {s} : op'[r] = op[r]
      /\ contacts' \in [C!Ids -> C!Row \cup {None}] /\ ins' \in [C!Ids -> Nat] /\ extras' \in [C!Ids -> Nat]
      /\ \A d \in C!Ids : d # c => contacts'[d] = contacts[d] /\ ins'[d] = ins[d] /\ extras'[d] = extras[d]
  BY <1>0, <1>a, CreateDo DEF Rests, Goes
<1>b. \/ /\ contacts'[c] \in C!Row
         /\ contacts[c] = None => contacts'[c].sent = 0 /\ contacts'[c].received = 1 /\ contacts'[c].origin = None
         /\ contacts[c] # None =>
              /\ contacts'[c].sent = contacts[c].sent /\ contacts'[c].received = contacts[c].received + 1
              /\ contacts'[c].origin = contacts[c].origin
         /\ op[s].kind \in {"received", "signal", "track", "mention"} =>
              ins'[c] + extras'[c] = ins[c] + extras[c] + 1
         /\ op[s].kind = "sent" => ins'[c] = ins[c] /\ extras'[c] = extras[c]
         /\ IF op[s].kind = "mention" THEN op'[s] = C!Idle
            ELSE op'[s].at = "bind" /\ op'[s].kind = op[s].kind /\ op'[s].who = op[s].who /\ op'[s].id = op[s].id
      \/ /\ mishaps' > mishaps /\ UNCHANGED <<contacts, ins, extras>>
         /\ IF s = "telegram" THEN op'[s] = C!Idle
            ELSE /\ op'[s].kind = op[s].kind /\ op'[s].who = op[s].who /\ op'[s].id = op[s].id
                 /\ op'[s].at = IF C!Outbound(op[s]) THEN "count" ELSE "stamp"
  BY <1>0, <1>a, CreateDo DEF Rests, Goes
<1>d. op[s].at = "create" /\ (\A r \in C!Service \ {s} : op'[r] = op[r]) /\ origins' = origins /\ channel' = channel
  BY <1>1
<1>c. OpOf(s) /\ op[s].kind \in {"sent", "received", "signal", "track", "mention"}
  BY <1>0, <1>1, ContactsAre DEF OpInv, OpOf
<1>2. GraphTypes'
  BY <1>0, <1>1 DEF GraphTypes, OpType
<1>3. Grows
  <2>1. \A d \in C!Ids : contacts[d] # None => contacts[d].sent \in Nat
    BY <1>0, RowIs
  <2>2. C!Row \cap {None} = {}
    BY ContactsAre
  <2>3. contacts[c] # None => contacts'[c] # None /\ contacts'[c].sent = contacts[c].sent
    BY <1>b, <2>2
  <2>. QED
    BY <1>1, <2>1, <2>3 DEF Grows
<1>4. OpInv'
  <2>1. OpOf(s)'
    BY <1>1, <1>a, <1>b, <1>c, IdleIs, ContactsAre DEF OpOf, C!Outbound
  <2>. QED
    BY <1>0, <1>1, <1>3, <2>1, OpStep
<1>5. CountInv'
  <2>2. ASSUME NEW d \in C!Ids, d # c PROVE CountOf(d)'
    <3>1. contacts'[d] = contacts[d] /\ outs'[d] = outs[d] /\ ins'[d] = ins[d] /\ extras'[d] = extras[d]
      BY <1>1, <2>2
    <3>2. Uncounted(d)' >= Uncounted(d)
      BY <1>1, <3>1, UncountedStep
    <3>. QED
      BY <1>0, <3>1, <3>2, CountStep
  <2>3. CountOf(c)'
    <3>1. CountOf(c) /\ outs[c] \in Nat /\ ins[c] \in Nat /\ extras[c] \in Nat
          /\ (contacts[c] # None => contacts[c].sent \in Nat /\ contacts[c].received \in Nat)
      BY <1>0, RowIs DEF CountInv, GraphTypes
    <3>2. CASE mishaps' > mishaps /\ UNCHANGED <<contacts, ins, extras>>
      <4>1. Uncounted(c)' >= Uncounted(c)
        BY <1>1, <3>2, UncountedStep
      <4>. QED
        BY <1>0, <1>1, <3>2, <4>1, CountStep
    <3>3. CASE ~ (mishaps' > mishaps /\ UNCHANGED <<contacts, ins, extras>>)
      <4>1. contacts'[c] \in C!Row /\ contacts'[c] # None /\ mishaps' >= mishaps /\ mishaps' \in Nat
        BY <1>b, <3>3, ContactsAre
      <4>2. Uncounted(c) \in 0 .. 1 /\ Uncounted(c)' \in 0 .. 1
        BY DEF Uncounted
      <4>3. contacts[c] # None => Uncounted(c)' >= Uncounted(c)
        <5>1. ASSUME contacts[c] # None PROVE contacts[c].received \in Nat /\ contacts'[c].received \in Nat /\ contacts'[c].received >= contacts[c].received
          BY <1>b, <3>1, <3>3, <5>1
        <5>. QED
          BY <1>1, <5>1, UncountedStep
      <4>4. op[s].kind = "sent" => s = "heartbeat" /\ Uncounted(c) = 0 /\ Uncounted(c)' = 1
        <5>1. op[s].kind = "sent" => s = "heartbeat"
          BY <1>1, <1>c, ContactsAre DEF OpOf
        <5>2. contacts'[c].received > 0
          <6>1. CASE contacts[c] = None
            BY <1>b, <3>3, <6>1
          <6>2. CASE contacts[c] # None
            BY <1>b, <3>1, <3>3, <6>2
          <6>. QED
            BY <6>1, <6>2
        <5>. QED
          BY <1>1, <1>a, <1>b, <3>3, <5>1, <5>2 DEF Uncounted
      <4>5. ins'[c] \in Nat /\ extras'[c] \in Nat /\ outs'[c] = outs[c]
        BY <1>1
      <4>6. CASE contacts[c] = None
        <5>1. outs[c] = 0 /\ ins[c] = 0 /\ extras[c] = 0
          BY <3>1, <4>6 DEF CountOf
        <5>2. contacts'[c].sent = 0 /\ contacts'[c].received = 1
          BY <1>b, <3>3, <4>6
        <5>3. ins'[c] + extras'[c] + Uncounted(c)' >= 1
          BY <1>b, <1>c, <3>3, <4>2, <4>4, <4>5, <5>1
        <5>. QED
          BY <4>1, <4>2, <4>5, <5>1, <5>2, <5>3 DEF CountOf
      <4>7. CASE contacts[c] # None
        BY <1>b, <1>c, <3>1, <3>3, <4>1, <4>2, <4>3, <4>4, <4>5, <4>7 DEF CountOf
      <4>. QED
        BY <4>6, <4>7
    <3>. QED
      BY <1>b, <3>2, <3>3
  <2>. QED
    BY <2>2, <2>3 DEF CountInv
<1>6. FoundInv'
  <2>. SUFFICES ASSUME mishaps' = 0
                PROVE  /\ \A r \in C!Service : Stands(r)'
                       /\ \A h \in Handles :
                            MadeBound(h)' /\ MakesOwn(h)' /\ TrackBound(h)' /\ OneFound(h)' /\ WeakOwn(h)' /\ Leading(h)'
    BY DEF FoundInv
  <2>1. /\ \A r \in C!Service : Stands(r)
        /\ \A h \in Handles : MadeBound(h) /\ MakesOwn(h) /\ TrackBound(h) /\ OneFound(h) /\ WeakOwn(h) /\ Leading(h)
    BY <1>0 DEF FoundInv
  <2>2. ~ (mishaps' > mishaps) /\ mishaps = 0
    OBVIOUS
  <2>3. /\ op'[s] = C!Idle \/ (op'[s].at = "bind" /\ op'[s].kind = op[s].kind /\ op'[s].who = c /\ op'[s].id = c)
        /\ contacts'[c] # None /\ (contacts[c] # None => contacts'[c].sent = contacts[c].sent)
        /\ c \notin Handles \/ op'[s].at = "bind"
    BY <1>1, <1>a, <1>b, <1>c, <2>2, ContactsAre DEF OpOf
  <2>4. ASSUME NEW r \in C!Service PROVE Stands(r)'
    <3>1. \A d \in C!Ids : contacts[d] # None => contacts'[d] # None /\ (contacts[d].sent > 0 => contacts'[d].sent > 0)
      BY <1>1, <2>3
    <3>2. op[r].id \in C!Ids
      BY <1>0, OpIs
    <3>. QED
      BY <1>1, <2>1, <2>3, <3>1, <3>2, IdleIs DEF Stands, C!Outbound, Mailed
  <2>12. \A h \in Handles : h \in C!Ids /\ (h # c => contacts'[h] = contacts[h])
    BY <1>1, ContactsAre
  <2>13. \A r \in C!Service : r # s => op'[r] = op[r]
    BY <1>1
  <2>14. op[s].at = "create" /\ op'[s].at \in {"idle", "bind"}
    BY <1>1, <2>3, IdleIs
  <2>5. ASSUME NEW h \in Handles PROVE MadeBound(h)'
    <3>1. CASE h = c
      BY <2>3, <3>1, IdleIs DEF MadeBound
    <3>2. CASE h # c
      BY <1>d, <2>1, <2>12, <2>13, <2>14, <3>2 DEF MadeBound
    <3>. QED
      BY <3>1, <3>2
  <2>6. ASSUME NEW h \in Handles PROVE MakesOwn(h)'
    BY <1>1, <2>1, <2>3, IdleIs, ContactsAre DEF MakesOwn, At, Beyond
  <2>7. ASSUME NEW h \in Handles PROVE TrackBound(h)'
    <3>1. CASE s = "telegram"
      BY <2>14, <3>1 DEF TrackBound
    <3>2. CASE s # "telegram"
      <4>1. op'["telegram"] = op["telegram"]
        BY <2>13, <3>2, ContactsAre
      <4>. QED
        BY <1>d, <2>1, <4>1 DEF TrackBound
    <3>. QED
      BY <3>1, <3>2
  <2>8. ASSUME NEW h \in Handles PROVE OneFound(h)'
    <3>1. contacts'[h] = None => contacts[h] = None
      BY <2>3, <2>12
    <3>. QED
      BY <1>d, <2>1, <2>13, <2>14, <3>1 DEF OneFound
  <2>9. ASSUME NEW h \in Handles, Weak(h)' PROVE Weak(h) \/ (h = c /\ s = "heartbeat")
    <3>1. Pending(h) => Pending(h)'
      BY <2>13, <2>14 DEF Pending, Half, C!Outbound
    <3>2. h # c => Weak(h)
      BY <2>9, <2>12, <3>1 DEF Weak
    <3>3. h = c /\ s # "heartbeat" => Half(s, h)'
      BY <1>1, <1>c, <2>3, IdleIs, ContactsAre DEF Half, C!Outbound, OpOf
    <3>. QED
      BY <2>9, <3>2, <3>3 DEF Weak, Pending
  <2>10. ASSUME NEW h \in Handles PROVE WeakOwn(h)'
    <3>. SUFFICES ASSUME Weak(h)'
                  PROVE  channel[h] \in {None, h} /\ \A r \in C!Service : At(r, h)' => op'[r].id = h
      BY <1>d DEF WeakOwn
    <3>1. At(s, h)' => op'[s].id = h
      BY <2>3, IdleIs DEF At, Beyond
    <3>2. ASSUME NEW r \in C!Service, r # s PROVE At(r, h)' <=> At(r, h) /\ op'[r].id = op[r].id
      BY <2>13, <3>2 DEF At
    <3>3. CASE Weak(h)
      BY <2>1, <3>1, <3>2, <3>3 DEF WeakOwn
    <3>4. CASE h = c /\ s = "heartbeat"
      BY <1>1, <2>1, <3>1, <3>2, <3>4, ContactsAre DEF MakesOwn
    <3>. QED
      BY <2>9, <3>3, <3>4
  <2>11. ASSUME NEW h \in Handles PROVE Leading(h)'
    <3>. SUFFICES ASSUME h \in written
                  PROVE  channel[h] # None /\ ~ Weak(h)' /\ (contacts'[h] = None => Mailed(channel[h])')
      BY <1>1 DEF Leading
    <3>1. channel[h] # None /\ ~ Weak(h) /\ (contacts[h] = None => Mailed(channel[h])) /\ channel[h] \in C!Ids
          /\ contacts[channel[h]] # None
      BY <1>0, <2>1 DEF Leading, GraphTypes, OpInv
    <3>2. contacts'[h] = None => Mailed(channel[h])'
      <4>1. contacts'[h] = None => contacts[h] = None
        BY <2>3, <2>12
      <4>2. channel'[h] = channel[h]
        BY <1>d
      <4>. QED
        BY <1>3, <3>1, <4>1, <4>2 DEF Mailed, Grows
    <3>3. ASSUME Weak(h)' PROVE FALSE
      <4>1. h = c /\ s = "heartbeat"
        BY <2>9, <3>1, <3>3
      <4>2. channel[h] = h
        BY <1>1, <2>1, <3>1, <4>1 DEF MakesOwn
      <4>3. contacts[h] # None /\ contacts'[h].sent = contacts[h].sent
        BY <2>3, <3>1, <4>1, <4>2
      <4>4. Pending(h) => Pending(h)'
        BY <2>13, <2>14 DEF Pending, Half, C!Outbound
      <4>. QED
        BY <3>1, <3>3, <4>3, <4>4 DEF Weak
    <3>. QED
      BY <3>1, <3>2, <3>3
  <2>. QED
    BY <2>4, <2>5, <2>6, <2>7, <2>8, <2>10, <2>11
<1>7. AloneInv'
  <2>. SUFFICES ASSUME ~ crossed'
                PROVE  /\ op'["heartbeat"] = C!Idle \/ (op'["telegram"] = C!Idle /\ origins' = None)
                       /\ mishaps' = 0 =>
                            /\ \A r \in C!Service : New(r)'
                            /\ origins' # None => \A d \in origins' : contacts'[d].origin = None
                            /\ \A h \in written' : channel'[h] # None /\ Mailed(channel[h])'
                            /\ \A d \in C!Ids : Exact(d)'
    BY DEF AloneInv
  <2>1. Alone(s)
    BY <1>0, <1>1, AloneIs
  <2>2. op'["heartbeat"] = C!Idle \/ (op'["telegram"] = C!Idle /\ origins' = None)
    BY <1>d, <2>1, ContactsAre DEF Alone
  <2>. SUFFICES ASSUME mishaps' = 0
                PROVE  /\ \A r \in C!Service : New(r)'
                       /\ \A h \in written' : channel'[h] # None /\ Mailed(channel[h])'
                       /\ \A d \in C!Ids : Exact(d)'
    BY <1>1, <2>1, <2>2 DEF Alone
  <2>6. mishaps = 0 /\ ~ (mishaps' > mishaps)
    OBVIOUS
  <2>4. ASSUME NEW h \in written' PROVE channel'[h] # None /\ Mailed(channel[h])'
    <3>1. h \in Handles /\ channel[h] \in C!Ids \cup {None} /\ channel[h] # None /\ Mailed(channel[h])
      BY <1>0, <1>1, <2>1, <2>6 DEF Alone, GraphTypes
    <3>. QED
      BY <1>1, <1>3, <3>1 DEF Mailed, Grows
  <2>3. ASSUME NEW r \in C!Service PROVE New(r)'
    <3>1. New(s)'
      BY <1>1, <1>a, <1>b, <2>1, <2>6, IdleIs DEF Alone, New, Beyond
    <3>. QED
      BY <1>1, <2>1, <3>1, NewStep
  <2>5. ASSUME NEW d \in C!Ids PROVE Exact(d)'
    <3>1. Exact(d) /\ Uncounted(d) = 0
      BY <1>d, <2>1, <2>6, ContactsAre, IdleIs DEF Alone, Uncounted
    <3>2. outs[d] \in Nat /\ ins[d] \in Nat /\ extras[d] \in Nat /\ ins'[d] \in Nat /\ extras'[d] \in Nat /\ outs'[d] = outs[d]
          /\ (contacts[d] # None => contacts[d].sent \in Nat /\ contacts[d].received \in Nat)
      BY <1>0, <1>1, RowIs DEF GraphTypes
    <3>3. CASE d # c
      <4>1. Uncounted(d)' = 0
        BY <1>1, <1>a, <1>b, <2>1, <2>6, <3>3, ContactsAre, IdleIs DEF Alone, Uncounted
      <4>. QED
        BY <1>1, <3>1, <3>3, <4>1 DEF Exact
    <3>4. CASE d = c
      <4>1. op[s].kind = "sent" => s = "heartbeat" /\ op'[s].at = "bind" /\ op'[s].kind = "sent" /\ op'[s].id = c
        BY <1>1, <1>a, <1>b, <1>c, <2>6, ContactsAre DEF OpOf
      <4>2. op[s].kind # "sent" => Uncounted(c)' = 0
        BY <1>1, <1>b, <2>1, <2>6, ContactsAre, IdleIs DEF Alone, Uncounted
      <4>3. op[s].kind # "mention" => contacts[c] = None
        BY <1>1, <2>1, <2>6 DEF Alone, New
      <4>4. contacts[c] = None => outs[c] = 0 /\ ins[c] = 0 /\ extras[c] = 0
        BY <1>0 DEF CountInv, CountOf
      <4>5. CASE op[s].kind = "sent"
        <5>1. contacts'[c].sent = 0 /\ contacts'[c].received = 1 /\ ins'[c] = 0 /\ extras'[c] = 0
          BY <1>b, <2>6, <4>3, <4>4, <4>5
        <5>2. Uncounted(c)' = 1
          BY <4>1, <4>5, <5>1 DEF Uncounted
        <5>. QED
          BY <3>2, <3>4, <4>3, <4>4, <4>5, <5>1, <5>2 DEF Exact
      <4>6. CASE op[s].kind # "sent"
        <5>1. ins'[c] + extras'[c] = ins[c] + extras[c] + 1
          BY <1>b, <1>c, <2>6, <4>6
        <5>2. CASE contacts[c] = None
          BY <1>b, <2>6, <3>2, <3>4, <4>2, <4>4, <4>6, <5>1, <5>2 DEF Exact
        <5>3. CASE contacts[c] # None
          BY <1>b, <2>6, <3>1, <3>2, <3>4, <4>2, <4>6, <5>1, <5>3 DEF Exact
        <5>. QED
          BY <5>2, <5>3
      <4>. QED
        BY <4>5, <4>6
    <3>. QED
      BY <3>3, <3>4
  <2>. QED
    BY <2>3, <2>4, <2>5
<1>. QED
  BY <1>2, <1>4, <1>5, <1>6, <1>7 DEF GraphInv

LEMMA BindKeeps ==
  ASSUME GraphInv, mishaps \in Nat, mishaps' \in {mishaps, mishaps + 1}, NEW s \in C!Service, C!Bind(s)
  PROVE  GraphInv'
<1>0. GraphTypes /\ OpInv /\ CountInv /\ FoundInv /\ AloneInv
  BY DEF GraphInv
<1>a. PICK c \in C!Ids : c = op[s].id
  BY <1>0, OpIs
<1>1. /\ op' \in [C!Service -> OpType] /\ op[s].at = "bind" /\ c = op[s].who /\ c \in Handles
      /\ op'[s].at = (IF C!Outbound(op[s]) THEN "count" ELSE "stamp") /\ (s = "telegram" => C!Outbound(op[s]))
      /\ op'[s].kind = op[s].kind /\ op'[s].who = c /\ op'[s].id = c
      /\ \A r \in C!Service \ {s} : op'[r] = op[r]
      /\ UNCHANGED <<contacts, origins, written, outs, ins, extras, crossed>>
  BY <1>0, <1>a, BindDo DEF Goes
<1>b. /\ channel' \in [Handles -> C!Ids \cup {None}] /\ \A h \in Handles : h # c => channel'[h] = channel[h]
      /\ \/ channel'[c] = (IF contacts[c] = None THEN channel[c] ELSE c)
         \/ mishaps' > mishaps /\ channel'[c] = channel[c]
  BY <1>0, <1>a, <1>1, BindDo DEF Binds
<1>c. OpOf(s)
  BY <1>0 DEF OpInv
<1>d. op[s].at = "bind" /\ (\A r \in C!Service \ {s} : op'[r] = op[r]) /\ origins' = origins /\ contacts' = contacts
  BY <1>1
<1>2. GraphTypes'
  BY <1>0, <1>1, <1>b DEF GraphTypes, OpType
<1>3. Grows
  BY <1>0, <1>1, RowIs DEF Grows
<1>4. OpInv'
  <2>1. OpOf(s)'
    BY <1>1, <1>a, <1>c, ContactsAre DEF OpOf, C!Outbound
  <2>2. ASSUME NEW h \in Handles, channel'[h] # None PROVE channel'[h] = channel[h] \/ contacts'[channel'[h]] # None
    BY <1>b, <1>d, <2>2
  <2>. QED
    BY <1>0, <1>1, <1>3, <2>1, <2>2, OpStep
<1>5. CountInv'
  <2>1. ASSUME NEW d \in C!Ids PROVE CountOf(d)'
    <3>1. Uncounted(d)' >= Uncounted(d)
      <4>1. op[s].kind = "sent" => op'[s].at = "count" /\ op'[s].kind = "sent" /\ op'[s].id = op[s].id
        BY <1>1, <1>a DEF C!Outbound
      <4>. QED
        BY <1>1, <4>1, UncountedStep
    <3>. QED
      BY <1>0, <1>1, <3>1, CountStep
  <2>. QED
    BY <2>1 DEF CountInv
<1>6. FoundInv'
  <2>. SUFFICES ASSUME mishaps' = 0
                PROVE  /\ \A r \in C!Service : Stands(r)'
                       /\ \A h \in Handles :
                            MadeBound(h)' /\ MakesOwn(h)' /\ TrackBound(h)' /\ OneFound(h)' /\ WeakOwn(h)' /\ Leading(h)'
    BY DEF FoundInv
  <2>1. /\ \A r \in C!Service : Stands(r)
        /\ \A h \in Handles : MadeBound(h) /\ MakesOwn(h) /\ TrackBound(h) /\ OneFound(h) /\ WeakOwn(h) /\ Leading(h)
    BY <1>0 DEF FoundInv
  <2>2. ~ (mishaps' > mishaps) /\ mishaps = 0
    OBVIOUS
  <2>3. contacts[c] # None /\ channel'[c] = c /\ c # None
    BY <1>1, <1>a, <1>b, <2>1, <2>2, ContactsAre DEF Stands
  <2>12. \A h \in Handles : h # c => channel'[h] = channel[h]
    BY <1>b
  <2>13. \A r \in C!Service : r # s => op'[r] = op[r]
    BY <1>1
  <2>14. /\ op'[s].at \in {"count", "stamp"} /\ (op'[s].at = "stamp" => ~ C!Outbound(op[s])) /\ op[s].at = "bind"
         /\ op[s].who = c /\ op[s].id = c /\ op'[s].who = c /\ op'[s].id = c /\ op'[s].kind = op[s].kind
    BY <1>1, <1>a
  <2>4. ASSUME NEW r \in C!Service PROVE Stands(r)'
    BY <1>d, <2>1, <2>3, <2>13, <2>14 DEF Stands, C!Outbound, Mailed
  <2>5. ASSUME NEW h \in Handles PROVE MadeBound(h)'
    BY <1>d, <2>1, <2>3, <2>12, <2>13, <2>14 DEF MadeBound
  <2>a. ASSUME NEW h \in Handles, NEW r \in C!Service PROVE At(r, h)' <=> At(r, h) /\ op'[r].id = op[r].id
    BY <2>13, <2>14 DEF At, Beyond
  <2>6. ASSUME NEW h \in Handles PROVE MakesOwn(h)'
    <3>1. op'["heartbeat"].at = "create" => op'["heartbeat"] = op["heartbeat"]
      BY <2>13, <2>14, ContactsAre
    <3>. QED
      BY <2>1, <2>3, <2>12, <2>a, <3>1, ContactsAre DEF MakesOwn
  <2>7. ASSUME NEW h \in Handles PROVE TrackBound(h)'
    <3>1. CASE h = c
      BY <2>3, <3>1 DEF TrackBound
    <3>2. CASE h # c
      BY <2>1, <2>12, <2>13, <2>14, <3>2, ContactsAre DEF TrackBound
    <3>. QED
      BY <3>1, <3>2
  <2>8. ASSUME NEW h \in Handles PROVE OneFound(h)'
    BY <1>d, <2>1, <2>3, <2>12, <2>13, <2>14 DEF OneFound
  <2>9. ASSUME NEW h \in Handles PROVE Weak(h)' <=> Weak(h)
    <3>1. Pending(h) <=> Pending(h)'
      BY <2>13, <2>14 DEF Pending, Half, C!Outbound
    <3>. QED
      BY <1>d, <3>1 DEF Weak
  <2>10. ASSUME NEW h \in Handles PROVE WeakOwn(h)'
    BY <2>1, <2>3, <2>9, <2>12, <2>a DEF WeakOwn
  <2>11. ASSUME NEW h \in Handles PROVE Leading(h)'
    BY <1>1, <2>1, <2>3, <2>9, <2>12 DEF Leading, Mailed
  <2>. QED
    BY <2>4, <2>5, <2>6, <2>7, <2>8, <2>10, <2>11
<1>7. AloneInv'
  <2>. SUFFICES ASSUME ~ crossed'
                PROVE  /\ op'["heartbeat"] = C!Idle \/ (op'["telegram"] = C!Idle /\ origins' = None)
                       /\ mishaps' = 0 =>
                            /\ \A r \in C!Service : New(r)'
                            /\ origins' # None => \A d \in origins' : contacts'[d].origin = None
                            /\ \A h \in written' : channel'[h] # None /\ Mailed(channel[h])'
                            /\ \A d \in C!Ids : Exact(d)'
    BY DEF AloneInv
  <2>1. Alone(s)
    BY <1>0, <1>1, AloneIs
  <2>2. op'["heartbeat"] = C!Idle \/ (op'["telegram"] = C!Idle /\ origins' = None)
    BY <1>d, <2>1, ContactsAre DEF Alone
  <2>. SUFFICES ASSUME mishaps' = 0
                PROVE  /\ \A r \in C!Service : New(r)'
                       /\ \A h \in written' : channel'[h] # None /\ Mailed(channel[h])'
                       /\ \A d \in C!Ids : Exact(d)'
    BY <1>1, <2>1, <2>2 DEF Alone
  <2>6. mishaps = 0 /\ ~ (mishaps' > mishaps)
    OBVIOUS
  <2>7. c \notin written
    BY <1>1, <2>1, <2>6 DEF Alone, New, Beyond
  <2>4. ASSUME NEW h \in written' PROVE channel'[h] # None /\ Mailed(channel[h])'
    BY <1>0, <1>1, <1>b, <2>1, <2>6, <2>7 DEF Alone, GraphTypes, Mailed
  <2>3. ASSUME NEW r \in C!Service PROVE New(r)'
    <3>1. New(s)'
      BY <1>1, <1>a, <2>1, <2>6, <2>7 DEF Alone, New, Beyond
    <3>. QED
      BY <1>1, <2>1, <3>1, NewStep
  <2>5. ASSUME NEW d \in C!Ids PROVE Exact(d)'
    <3>1. Exact(d)
      BY <2>1, <2>6 DEF Alone
    <3>2. Uncounted(d)' = Uncounted(d)
      <4>1. op[s].kind = "sent" => op'[s].at = "count"
        BY <1>1 DEF C!Outbound
      <4>2. s = "heartbeat" \/ (op["heartbeat"].at = "idle" /\ op'["heartbeat"].at = "idle")
        BY <1>1, <2>1, IdleIs, ContactsAre DEF Alone
      <4>. QED
        BY <1>1, <1>a, <4>1, <4>2 DEF Uncounted
    <3>. QED
      BY <1>1, <3>1, <3>2 DEF Exact
  <2>. QED
    BY <2>3, <2>4, <2>5
<1>. QED
  BY <1>2, <1>4, <1>5, <1>6, <1>7 DEF GraphInv

LEMMA CountKeeps ==
  ASSUME GraphInv, mishaps \in Nat, mishaps' \in {mishaps, mishaps + 1}, NEW s \in C!Service, C!CountFirst(s)
  PROVE  GraphInv'
<1>0. GraphTypes /\ OpInv /\ CountInv /\ FoundInv /\ AloneInv
  BY DEF GraphInv
<1>a. PICK c \in C!Ids : c = op[s].id
  BY <1>0, OpIs
<1>1. /\ op' \in [C!Service -> OpType] /\ op[s].at = "count" /\ c = op[s].who /\ c \in Handles /\ C!Outbound(op[s])
      /\ op'[s].at = (IF op[s].kind = "sent" THEN "stamp" ELSE "channel") /\ (s = "heartbeat" <=> op[s].kind = "sent")
      /\ op'[s].kind = op[s].kind /\ op'[s].who = c /\ op'[s].id = c
      /\ \A r \in C!Service \ {s} : op'[r] = op[r]
      /\ UNCHANGED <<channel, origins, written, ins, extras, crossed>>
      /\ contacts' \in [C!Ids -> C!Row \cup {None}] /\ outs' \in [C!Ids -> Nat]
      /\ \A d \in C!Ids : d # c => contacts'[d] = contacts[d] /\ outs'[d] = outs[d]
  BY <1>0, <1>a, CountDo DEF Goes
<1>b. \/ contacts[c] = None /\ contacts'[c] = None /\ outs'[c] = outs[c]
      \/ /\ contacts[c] # None /\ contacts'[c] \in C!Row /\ outs'[c] = outs[c] + 1
         /\ contacts'[c].sent = 1 /\ contacts'[c].origin = contacts[c].origin
         /\ contacts'[c].received = IF op[s].kind = "sent" THEN 0 ELSE contacts[c].received
      \/ mishaps' > mishaps /\ UNCHANGED <<contacts, outs>>
  BY <1>0, <1>a, CountDo
<1>c. OpOf(s)
  BY <1>0 DEF OpInv
<1>d. op[s].at = "count" /\ (\A r \in C!Service \ {s} : op'[r] = op[r]) /\ origins' = origins /\ channel' = channel
  BY <1>1
<1>2. GraphTypes'
  BY <1>0, <1>1 DEF GraphTypes, OpType
<1>3. Grows
  <2>1. \A d \in C!Ids : contacts[d] # None => contacts[d].sent \in Nat
    BY <1>0, RowIs
  <2>2. C!Row \cap {None} = {}
    BY ContactsAre
  <2>3. contacts'[c] = contacts[c] \/ (contacts'[c] # None /\ contacts'[c].sent = 1)
    BY <1>b, <2>2
  <2>. QED
    BY <1>1, <2>1, <2>3 DEF Grows
<1>4. OpInv'
  <2>1. OpOf(s)'
    BY <1>1, <1>a, <1>c, ContactsAre DEF OpOf, C!Outbound
  <2>. QED
    BY <1>0, <1>1, <1>3, <2>1, OpStep
<1>5. CountInv'
  <2>2. ASSUME NEW d \in C!Ids, d # c PROVE CountOf(d)'
    <3>1. contacts'[d] = contacts[d] /\ outs'[d] = outs[d] /\ ins'[d] = ins[d] /\ extras'[d] = extras[d]
      BY <1>1, <2>2
    <3>2. Uncounted(d)' >= Uncounted(d)
      <4>1. s = "heartbeat" => Uncounted(d) = 0
        BY <1>1, <1>a, <2>2 DEF Uncounted
      <4>2. s # "heartbeat" => Uncounted(d)' >= Uncounted(d)
        BY <1>1, <3>1, UncountedStep
      <4>3. Uncounted(d)' \in {0, 1}
        BY DEF Uncounted
      <4>. QED
        BY <4>1, <4>2, <4>3
    <3>. QED
      BY <1>0, <3>1, <3>2, CountStep
  <2>3. CountOf(c)'
    <3>1. CountOf(c) /\ outs[c] \in Nat /\ ins[c] \in Nat /\ extras[c] \in Nat
          /\ (contacts[c] # None => contacts[c].sent \in Nat /\ contacts[c].received \in Nat)
      BY <1>0, RowIs DEF CountInv, GraphTypes
    <3>2. Uncounted(c) \in 0 .. 1 /\ Uncounted(c)' \in 0 .. 1
      BY DEF Uncounted
    <3>3. s # "heartbeat" /\ contacts'[c].received = contacts[c].received => Uncounted(c)' = Uncounted(c)
      BY <1>1, ContactsAre DEF Uncounted
    <3>4. CASE contacts[c] = None /\ contacts'[c] = None /\ outs'[c] = outs[c]
      BY <1>1, <3>1, <3>4 DEF CountOf
    <3>5. CASE /\ contacts[c] # None /\ contacts'[c] \in C!Row /\ outs'[c] = outs[c] + 1
               /\ contacts'[c].sent = 1
               /\ contacts'[c].received = IF op[s].kind = "sent" THEN 0 ELSE contacts[c].received
      <4>1. contacts'[c] # None /\ contacts'[c].sent <= outs'[c]
        BY <3>1, <3>5, ContactsAre
      <4>2. contacts'[c].received <= ins[c] + extras[c] + mishaps' + Uncounted(c)'
        <5>1. CASE op[s].kind = "sent"
          BY <3>1, <3>2, <3>5, <5>1
        <5>2. CASE op[s].kind # "sent"
          BY <1>1, <3>1, <3>2, <3>3, <3>5, <5>2 DEF CountOf
        <5>. QED
          BY <5>1, <5>2
      <4>. QED
        BY <1>1, <4>1, <4>2 DEF CountOf
    <3>6. CASE mishaps' > mishaps /\ UNCHANGED <<contacts, outs>>
      BY <1>0, <1>1, <3>6, CountStep
    <3>. QED
      BY <1>b, <3>4, <3>5, <3>6
  <2>. QED
    BY <2>2, <2>3 DEF CountInv
<1>6. FoundInv'
  <2>. SUFFICES ASSUME mishaps' = 0
                PROVE  /\ \A r \in C!Service : Stands(r)'
                       /\ \A h \in Handles :
                            MadeBound(h)' /\ MakesOwn(h)' /\ TrackBound(h)' /\ OneFound(h)' /\ WeakOwn(h)' /\ Leading(h)'
    BY DEF FoundInv
  <2>1. /\ \A r \in C!Service : Stands(r)
        /\ \A h \in Handles : MadeBound(h) /\ MakesOwn(h) /\ TrackBound(h) /\ OneFound(h) /\ WeakOwn(h) /\ Leading(h)
    BY <1>0 DEF FoundInv
  <2>2. ~ (mishaps' > mishaps) /\ mishaps = 0
    OBVIOUS
  <2>3. contacts[c] # None /\ contacts'[c] # None /\ contacts'[c].sent = 1 /\ channel' = channel
    BY <1>1, <1>a, <1>b, <2>1, <2>2, ContactsAre DEF Stands
  <2>12. \A d \in C!Ids : d # c => contacts'[d] = contacts[d]
    BY <1>1
  <2>13. \A r \in C!Service : r # s => op'[r] = op[r]
    BY <1>1
  <2>14. /\ op'[s].at \in {"stamp", "channel"} /\ (s = "telegram" => op'[s].at = "channel") /\ op[s].at = "count"
         /\ op[s].who = c /\ op[s].id = c /\ op'[s].who = c /\ op'[s].id = c /\ op'[s].kind = op[s].kind
         /\ C!Outbound(op[s])
    BY <1>1, <1>a, ContactsAre
  <2>4. ASSUME NEW r \in C!Service PROVE Stands(r)'
    <3>1. op[r].id \in C!Ids
      BY <1>0, OpIs
    <3>. QED
      BY <2>1, <2>3, <2>12, <2>13, <2>14, <3>1 DEF Stands, C!Outbound, Mailed
  <2>b. \A h \in Handles : h \in C!Ids /\ (contacts'[h] = None <=> contacts[h] = None)
    BY <2>3, <2>12, ContactsAre
  <2>5. ASSUME NEW h \in Handles PROVE MadeBound(h)'
    BY <2>1, <2>3, <2>b, <2>13, <2>14 DEF MadeBound
  <2>a. ASSUME NEW h \in Handles, NEW r \in C!Service PROVE At(r, h)' <=> At(r, h) /\ op'[r].id = op[r].id
    BY <2>13, <2>14 DEF At, Beyond
  <2>6. ASSUME NEW h \in Handles PROVE MakesOwn(h)'
    <3>1. op'["heartbeat"].at = "create" => op'["heartbeat"] = op["heartbeat"]
      BY <2>13, <2>14, ContactsAre
    <3>. QED
      BY <2>1, <2>3, <2>a, <3>1, ContactsAre DEF MakesOwn
  <2>7. ASSUME NEW h \in Handles PROVE TrackBound(h)'
    <3>1. op'["telegram"].who = op["telegram"].who
          /\ (op'["telegram"].at \in {"update", "count", "channel"} => op["telegram"].at \in {"update", "count", "channel"})
      BY <2>13, <2>14, ContactsAre
    <3>. QED
      BY <2>1, <2>3, <3>1 DEF TrackBound
  <2>8. ASSUME NEW h \in Handles PROVE OneFound(h)'
    BY <2>1, <2>3, <2>b, <2>13, <2>14 DEF OneFound
  <2>9. ASSUME NEW h \in Handles PROVE Weak(h)' => Weak(h)
    <3>1. CASE h = c
      BY <2>3, <3>1 DEF Weak
    <3>2. CASE h # c
      <4>1. Pending(h) <=> Pending(h)'
        BY <2>13, <2>14, <3>2 DEF Pending, Half, C!Outbound
      <4>. QED
        BY <2>12, <2>b, <3>2, <4>1 DEF Weak
    <3>. QED
      BY <3>1, <3>2
  <2>10. ASSUME NEW h \in Handles PROVE WeakOwn(h)'
    BY <2>1, <2>3, <2>9, <2>a DEF WeakOwn
  <2>11. ASSUME NEW h \in Handles PROVE Leading(h)'
    <3>1. channel[h] # None => channel[h] \in C!Ids
      BY <1>0 DEF GraphTypes
    <3>. QED
      BY <1>1, <2>1, <2>3, <2>9, <2>12, <2>b, <3>1 DEF Leading, Mailed
  <2>. QED
    BY <2>4, <2>5, <2>6, <2>7, <2>8, <2>10, <2>11
<1>7. AloneInv'
  <2>. SUFFICES ASSUME ~ crossed'
                PROVE  /\ op'["heartbeat"] = C!Idle \/ (op'["telegram"] = C!Idle /\ origins' = None)
                       /\ mishaps' = 0 =>
                            /\ \A r \in C!Service : New(r)'
                            /\ origins' # None => \A d \in origins' : contacts'[d].origin = None
                            /\ \A h \in written' : channel'[h] # None /\ Mailed(channel[h])'
                            /\ \A d \in C!Ids : Exact(d)'
    BY DEF AloneInv
  <2>1. Alone(s)
    BY <1>0, <1>1, AloneIs
  <2>2. op'["heartbeat"] = C!Idle \/ (op'["telegram"] = C!Idle /\ origins' = None)
    BY <1>d, <2>1, ContactsAre DEF Alone
  <2>. SUFFICES ASSUME mishaps' = 0
                PROVE  /\ \A r \in C!Service : New(r)'
                       /\ \A h \in written' : channel'[h] # None /\ Mailed(channel[h])'
                       /\ \A d \in C!Ids : Exact(d)'
    BY <1>1, <2>1, <2>2 DEF Alone
  <2>6. mishaps = 0 /\ ~ (mishaps' > mishaps)
    OBVIOUS
  <2>7. c \notin written
    BY <1>1, <2>1, <2>6 DEF Alone, New, Beyond
  <2>4. ASSUME NEW h \in written' PROVE channel'[h] # None /\ Mailed(channel[h])'
    <3>1. h \in Handles /\ channel[h] \in C!Ids \cup {None} /\ channel[h] # None /\ Mailed(channel[h])
      BY <1>0, <1>1, <2>1, <2>6 DEF Alone, GraphTypes
    <3>. QED
      BY <1>1, <1>3, <3>1 DEF Mailed, Grows
  <2>3. ASSUME NEW r \in C!Service PROVE New(r)'
    <3>1. New(s)'
      BY <1>1, <1>a, <1>b, <2>1, <2>6, <2>7 DEF Alone, New, Beyond
    <3>. QED
      BY <1>1, <2>1, <3>1, NewStep
  <2>5. ASSUME NEW d \in C!Ids PROVE Exact(d)'
    <3>1. Exact(d)
      BY <2>1, <2>6 DEF Alone
    <3>2. outs[d] \in Nat /\ ins[d] \in Nat /\ extras[d] \in Nat /\ ins' = ins /\ extras' = extras
          /\ (contacts[d] # None => contacts[d].sent \in Nat /\ contacts[d].received \in Nat)
      BY <1>0, <1>1, RowIs DEF GraphTypes
    <3>3. Uncounted(d)' = 0 /\ (d # c => Uncounted(d) = 0)
      <4>1. s = "heartbeat" \/ (op["heartbeat"].at = "idle" /\ op'["heartbeat"].at = "idle")
        BY <1>1, <2>1, IdleIs, ContactsAre DEF Alone
      <4>. QED
        BY <1>1, <1>a, <4>1 DEF Uncounted
    <3>4. CASE d # c
      BY <1>1, <3>1, <3>2, <3>3, <3>4 DEF Exact
    <3>5. CASE d = c /\ contacts[c] = None
      BY <1>b, <2>6, <3>5 DEF Exact
    <3>6. CASE d = c /\ contacts[c] # None
      <4>1. contacts'[c].sent = 1 /\ outs'[c] = outs[c] + 1
            /\ contacts'[c].received = IF op[s].kind = "sent" THEN 0 ELSE contacts[c].received
        BY <1>b, <2>6, <3>6
      <4>2. contacts[c].sent = 0 /\ contacts[c].received = 1
        BY <1>1, <1>a, <2>1, <2>6 DEF Alone, New
      <4>3. Uncounted(c) = IF op[s].kind = "sent" THEN 1 ELSE 0
        <5>1. s = "heartbeat" \/ op["heartbeat"].at = "idle"
          BY <1>1, <2>1, IdleIs, ContactsAre DEF Alone
        <5>. QED
          BY <1>1, <1>a, <4>2, <5>1 DEF Uncounted
      <4>. QED
        BY <3>1, <3>2, <3>3, <3>6, <4>1, <4>2, <4>3 DEF Exact
    <3>. QED
      BY <3>4, <3>5, <3>6
  <2>. QED
    BY <2>3, <2>4, <2>5
<1>. QED
  BY <1>2, <1>4, <1>5, <1>6, <1>7 DEF GraphInv

LEMMA StampKeeps ==
  ASSUME GraphInv, mishaps \in Nat, mishaps' \in {mishaps, mishaps + 1}, NEW s \in C!Service, C!Stamp(s)
  PROVE  GraphInv'
<1>0. GraphTypes /\ OpInv /\ CountInv /\ FoundInv /\ AloneInv
  BY DEF GraphInv
<1>a. PICK c \in C!Ids : c = op[s].id
  BY <1>0, OpIs
<1>1. /\ op' \in [C!Service -> OpType] /\ op[s].at = "stamp" /\ c = op[s].who /\ c \in Handles /\ s = "heartbeat"
      /\ op'[s].at = "channel" /\ op'[s].kind = op[s].kind /\ op'[s].who = c /\ op'[s].id = c
      /\ \A r \in C!Service \ {s} : op'[r] = op[r]
      /\ UNCHANGED <<channel, origins, written, outs, ins, extras, crossed>>
      /\ contacts' \in [C!Ids -> C!Row \cup {None}]
      /\ \A d \in C!Ids : d # c => contacts'[d] = contacts[d]
  BY <1>0, <1>a, StampDo DEF Goes
<1>b. \/ contacts'[c] = contacts[c]
      \/ /\ contacts[c] # None /\ contacts'[c] \in C!Row
         /\ contacts'[c].sent = contacts[c].sent /\ contacts'[c].received = contacts[c].received
  BY <1>0, <1>a, StampDo
<1>c. OpOf(s)
  BY <1>0 DEF OpInv
<1>d. op[s].at = "stamp" /\ (\A r \in C!Service \ {s} : op'[r] = op[r]) /\ origins' = origins /\ channel' = channel
  BY <1>1
<1>e. \A d \in C!Ids :
        /\ contacts'[d] = None <=> contacts[d] = None
        /\ contacts[d] # None => contacts'[d].sent = contacts[d].sent /\ contacts'[d].received = contacts[d].received
  BY <1>1, <1>b, ContactsAre
<1>2. GraphTypes'
  BY <1>0, <1>1 DEF GraphTypes, OpType
<1>3. Grows
  BY <1>0, <1>e, RowIs DEF Grows
<1>4. OpInv'
  <2>1. OpOf(s)'
    BY <1>1, <1>a, <1>c, ContactsAre DEF OpOf, C!Outbound
  <2>. QED
    BY <1>0, <1>1, <1>3, <2>1, OpStep
<1>5. CountInv'
  <2>1. ASSUME NEW d \in C!Ids PROVE CountOf(d)'
    <3>1. CountOf(d) /\ outs[d] \in Nat /\ ins[d] \in Nat /\ extras[d] \in Nat
          /\ (contacts[d] # None => contacts[d].sent \in Nat /\ contacts[d].received \in Nat)
      BY <1>0, RowIs DEF CountInv, GraphTypes
    <3>2. Uncounted(d) = 0 /\ Uncounted(d)' = 0
      BY <1>1 DEF Uncounted
    <3>. QED
      BY <1>1, <1>e, <3>1, <3>2 DEF CountOf
  <2>. QED
    BY <2>1 DEF CountInv
<1>6. FoundInv'
  <2>. SUFFICES ASSUME mishaps' = 0
                PROVE  /\ \A r \in C!Service : Stands(r)'
                       /\ \A h \in Handles :
                            MadeBound(h)' /\ MakesOwn(h)' /\ TrackBound(h)' /\ OneFound(h)' /\ WeakOwn(h)' /\ Leading(h)'
    BY DEF FoundInv
  <2>1. /\ \A r \in C!Service : Stands(r)
        /\ \A h \in Handles : MadeBound(h) /\ MakesOwn(h) /\ TrackBound(h) /\ OneFound(h) /\ WeakOwn(h) /\ Leading(h)
    BY <1>0 DEF FoundInv
  <2>13. \A r \in C!Service : r # s => op'[r] = op[r]
    BY <1>1
  <2>14. /\ op'[s].at = "channel" /\ s = "heartbeat" /\ op[s].at = "stamp"
         /\ op[s].who = c /\ op[s].id = c /\ op'[s].who = c /\ op'[s].id = c /\ op'[s].kind = op[s].kind
    BY <1>1, <1>a
  <2>2. contacts[c] # None
    BY <2>1, <2>14 DEF Stands
  <2>4. ASSUME NEW r \in C!Service PROVE Stands(r)'
    <3>1. op[r].id \in C!Ids
      BY <1>0, OpIs
    <3>2. /\ contacts'[op[r].id] = None <=> contacts[op[r].id] = None
          /\ contacts[op[r].id] # None => contacts'[op[r].id].sent = contacts[op[r].id].sent
      BY <1>e, <3>1
    <3>3. CASE r = s
      BY <2>1, <2>14, <3>2, <3>3 DEF Stands, C!Outbound, Mailed
    <3>4. CASE r # s
      BY <2>1, <2>13, <3>2, <3>4 DEF Stands, C!Outbound, Mailed
    <3>. QED
      BY <3>3, <3>4
  <2>b. \A h \in Handles : h \in C!Ids /\ (contacts'[h] = None <=> contacts[h] = None)
    BY <1>e, ContactsAre
  <2>5. ASSUME NEW h \in Handles PROVE MadeBound(h)'
    BY <1>d, <2>1, <2>b, <2>13, <2>14 DEF MadeBound
  <2>a. ASSUME NEW h \in Handles, NEW r \in C!Service PROVE At(r, h)' <=> At(r, h) /\ op'[r].id = op[r].id
    BY <2>13, <2>14 DEF At, Beyond
  <2>6. ASSUME NEW h \in Handles PROVE MakesOwn(h)'
    BY <2>14 DEF MakesOwn
  <2>7. ASSUME NEW h \in Handles PROVE TrackBound(h)'
    BY <1>d, <2>1, <2>13, <2>14, ContactsAre DEF TrackBound
  <2>8. ASSUME NEW h \in Handles PROVE OneFound(h)'
    BY <1>d, <2>1, <2>2, <2>b, <2>13, <2>14 DEF OneFound
  <2>9. ASSUME NEW h \in Handles PROVE Weak(h)' <=> Weak(h)
    <3>1. Pending(h) <=> Pending(h)'
      BY <2>13, <2>14 DEF Pending, Half, C!Outbound
    <3>. QED
      BY <1>e, <2>b, <3>1 DEF Weak
  <2>10. ASSUME NEW h \in Handles PROVE WeakOwn(h)'
    BY <1>d, <2>1, <2>9, <2>a DEF WeakOwn
  <2>11. ASSUME NEW h \in Handles PROVE Leading(h)'
    <3>1. channel[h] # None => channel[h] \in C!Ids
      BY <1>0 DEF GraphTypes
    <3>. QED
      BY <1>1, <1>e, <2>1, <2>9, <2>b, <3>1 DEF Leading, Mailed
  <2>. QED
    BY <2>4, <2>5, <2>6, <2>7, <2>8, <2>10, <2>11
<1>7. AloneInv'
  <2>. SUFFICES ASSUME ~ crossed'
                PROVE  /\ op'["heartbeat"] = C!Idle \/ (op'["telegram"] = C!Idle /\ origins' = None)
                       /\ mishaps' = 0 =>
                            /\ \A r \in C!Service : New(r)'
                            /\ origins' # None => \A d \in origins' : contacts'[d].origin = None
                            /\ \A h \in written' : channel'[h] # None /\ Mailed(channel[h])'
                            /\ \A d \in C!Ids : Exact(d)'
    BY DEF AloneInv
  <2>1. Alone(s)
    BY <1>0, <1>1, AloneIs
  <2>2. op'["heartbeat"] = C!Idle \/ (op'["telegram"] = C!Idle /\ origins' = None)
    BY <1>d, <2>1, ContactsAre DEF Alone
  <2>. SUFFICES ASSUME mishaps' = 0
                PROVE  /\ \A r \in C!Service : New(r)'
                       /\ \A h \in written' : channel'[h] # None /\ Mailed(channel[h])'
                       /\ \A d \in C!Ids : Exact(d)'
    BY <1>1, <2>1, <2>2 DEF Alone
  <2>6. mishaps = 0 /\ ~ (mishaps' > mishaps)
    OBVIOUS
  <2>7. c \notin written
    BY <1>1, <2>1, <2>6 DEF Alone, New, Beyond
  <2>4. ASSUME NEW h \in written' PROVE channel'[h] # None /\ Mailed(channel[h])'
    <3>1. h \in Handles /\ channel[h] \in C!Ids \cup {None} /\ channel[h] # None /\ Mailed(channel[h])
      BY <1>0, <1>1, <2>1, <2>6 DEF Alone, GraphTypes
    <3>. QED
      BY <1>1, <1>3, <3>1 DEF Mailed, Grows
  <2>3. ASSUME NEW r \in C!Service PROVE New(r)'
    <3>1. New(s)'
      BY <1>1, <2>7 DEF New, Beyond
    <3>. QED
      BY <1>1, <2>1, <3>1, NewStep
  <2>5. ASSUME NEW d \in C!Ids PROVE Exact(d)'
    <3>1. Exact(d) /\ Uncounted(d) = 0 /\ Uncounted(d)' = 0
      BY <1>1, <2>1, <2>6 DEF Alone, Uncounted
    <3>. QED
      BY <1>1, <1>e, <3>1 DEF Exact
  <2>. QED
    BY <2>3, <2>4, <2>5
<1>. QED
  BY <1>2, <1>4, <1>5, <1>6, <1>7 DEF GraphInv

LEMMA FinishKeeps ==
  ASSUME GraphInv, mishaps \in Nat, mishaps' \in {mishaps, mishaps + 1}, NEW s \in C!Service, C!Finish(s)
  PROVE  GraphInv'
<1>0. GraphTypes /\ OpInv /\ CountInv /\ FoundInv /\ AloneInv
  BY DEF GraphInv
<1>a. PICK c \in C!Ids : c = op[s].id
  BY <1>0, OpIs
<1>f. PICK who \in Handles : who = op[s].who
  BY <1>0, FinishDo
<1>1. /\ op' \in [C!Service -> OpType] /\ op[s].at = "channel" /\ op'[s] = C!Idle
      /\ \A r \in C!Service \ {s} : op'[r] = op[r]
      /\ UNCHANGED <<contacts, origins, outs, ins, extras, crossed>>
      /\ written' = IF C!Outbound(op[s]) THEN written \cup {who} ELSE written
  BY <1>0, <1>f, FinishDo DEF Rests
<1>b. /\ channel' \in [Handles -> C!Ids \cup {None}] /\ \A h \in Handles : h # who => channel'[h] = channel[h]
      /\ \/ channel'[who] = (IF contacts[c] = None THEN channel[who] ELSE c)
         \/ mishaps' > mishaps /\ channel'[who] = channel[who]
  BY <1>0, <1>a, <1>f, FinishDo DEF Binds
<1>c. OpOf(s)
  BY <1>0 DEF OpInv
<1>d. op[s].at = "channel" /\ (\A r \in C!Service \ {s} : op'[r] = op[r]) /\ origins' = origins /\ contacts' = contacts
  BY <1>1
<1>2. GraphTypes'
  <2>1. written' \subseteq Handles
    BY <1>0, <1>1 DEF GraphTypes
  <2>. QED
    BY <1>0, <1>1, <1>b, <2>1 DEF GraphTypes, OpType
<1>3. Grows
  BY <1>0, <1>1, RowIs DEF Grows
<1>4. OpInv'
  <2>1. OpOf(s)'
    BY <1>1, IdleIs DEF OpOf
  <2>2. ASSUME NEW h \in Handles, channel'[h] # None PROVE channel'[h] = channel[h] \/ contacts'[channel'[h]] # None
    BY <1>b, <1>d, <2>2
  <2>. QED
    BY <1>0, <1>1, <1>3, <2>1, <2>2, OpStep
<1>5. CountInv'
  <2>1. ASSUME NEW d \in C!Ids PROVE CountOf(d)'
    <3>1. Uncounted(d)' >= Uncounted(d)
      BY <1>1, UncountedStep
    <3>. QED
      BY <1>0, <1>1, <3>1, CountStep
  <2>. QED
    BY <2>1 DEF CountInv
<1>6. FoundInv'
  <2>. SUFFICES ASSUME mishaps' = 0
                PROVE  /\ \A r \in C!Service : Stands(r)'
                       /\ \A h \in Handles :
                            MadeBound(h)' /\ MakesOwn(h)' /\ TrackBound(h)' /\ OneFound(h)' /\ WeakOwn(h)' /\ Leading(h)'
    BY DEF FoundInv
  <2>1. /\ \A r \in C!Service : Stands(r)
        /\ \A h \in Handles : MadeBound(h) /\ MakesOwn(h) /\ TrackBound(h) /\ OneFound(h) /\ WeakOwn(h) /\ Leading(h)
    BY <1>0 DEF FoundInv
  <2>2. ~ (mishaps' > mishaps) /\ mishaps = 0
    OBVIOUS
  <2>3. contacts[c] # None /\ channel'[who] = c /\ c # None /\ (C!Outbound(op[s]) => Mailed(c))
    BY <1>1, <1>a, <1>b, <2>1, <2>2, ContactsAre DEF Stands
  <2>12. \A h \in Handles : (h # who => channel'[h] = channel[h]) /\ (channel[h] # None => channel'[h] # None)
    BY <1>b, <2>3
  <2>13. \A r \in C!Service : r # s => op'[r] = op[r]
    BY <1>1
  <2>14. op[s].at = "channel" /\ op[s].who = who /\ op[s].id = c /\ op'[s] = C!Idle /\ op'[s].at = "idle"
    BY <1>1, <1>a, <1>f, IdleIs
  <2>4. ASSUME NEW r \in C!Service PROVE Stands(r)'
    BY <1>d, <2>1, <2>13, <2>14 DEF Stands, C!Outbound, Mailed
  <2>5. ASSUME NEW h \in Handles PROVE MadeBound(h)'
    BY <1>d, <2>1, <2>12, <2>13, <2>14 DEF MadeBound
  <2>a. ASSUME NEW h \in Handles, NEW r \in C!Service, At(r, h)' PROVE At(r, h) /\ op'[r].id = op[r].id /\ r # s
    BY <2>13, <2>14, <2>a DEF At, Beyond
  <2>6. ASSUME NEW h \in Handles PROVE MakesOwn(h)'
    <3>. SUFFICES ASSUME op'["heartbeat"].at = "create", op'["heartbeat"].who = h
                  PROVE  channel'[h] \in {None, h} /\ (At("telegram", h)' => op'["telegram"].id = h)
      BY DEF MakesOwn
    <3>1. s = "telegram" /\ op["heartbeat"].at = "create" /\ op["heartbeat"].who = h
      BY <2>13, <2>14, ContactsAre
    <3>2. channel[h] \in {None, h} /\ (At("telegram", h) => op["telegram"].id = h)
      BY <2>1, <3>1 DEF MakesOwn
    <3>3. h = who => At("telegram", h)
      BY <2>14, <3>1 DEF At, Beyond
    <3>. QED
      BY <2>3, <2>12, <2>14, <2>a, <3>1, <3>2, <3>3, ContactsAre
  <2>7. ASSUME NEW h \in Handles PROVE TrackBound(h)'
    BY <2>1, <2>12, <2>13, <2>14, ContactsAre DEF TrackBound
  <2>8. ASSUME NEW h \in Handles PROVE OneFound(h)'
    <3>. SUFFICES ASSUME NEW r \in C!Service, contacts[h] = None, channel'[h] # None, op'[r].who = h, op'[r].at \in {"update", "channel"}
                  PROVE  op'[r].id = channel'[h]
      BY <1>d DEF OneFound
    <3>1. r # s /\ op'[r] = op[r]
      BY <2>13, <2>14
    <3>2. h = who => channel[h] # None
      BY <2>1, <2>14, <3>1, ContactsAre DEF TrackBound
    <3>3. channel[h] # None => op[r].id = channel[h] /\ (h = who => c = channel[h])
      BY <2>1, <2>14, <3>1 DEF OneFound
    <3>4. h # who => channel'[h] = channel[h] /\ channel[h] # None
      BY <2>12
    <3>. QED
      BY <2>3, <3>1, <3>2, <3>3, <3>4
  <2>9. ASSUME NEW h \in Handles PROVE Weak(h)' <=> Weak(h)
    <3>1. Pending(h) <=> Pending(h)'
      BY <2>13, <2>14 DEF Pending, Half, C!Outbound
    <3>. QED
      BY <1>d, <3>1 DEF Weak
  <2>10. ASSUME NEW h \in Handles PROVE WeakOwn(h)'
    <3>1. Weak(h) /\ h = who => c = h
      BY <2>1, <2>14 DEF WeakOwn, At, Beyond
    <3>. QED
      BY <2>1, <2>3, <2>9, <2>12, <2>a, <3>1 DEF WeakOwn
  <2>11. ASSUME NEW h \in Handles PROVE Leading(h)'
    <3>1. CASE h # who
      BY <1>1, <2>1, <2>9, <2>12, <3>1 DEF Leading, Mailed
    <3>2. CASE h = who
      <4>1. h \in written \/ C!Outbound(op[s]) \/ h \notin written'
        BY <1>1
      <4>2. CASE C!Outbound(op[s])
        <5>1. ~ Weak(h)
          BY <2>1, <2>3, <2>14, <3>2, <4>2, ContactsAre DEF WeakOwn, At, Beyond, Weak, Mailed
        <5>. QED
          BY <1>d, <2>3, <2>9, <3>2, <4>2, <5>1 DEF Leading, Mailed
      <4>3. CASE h \in written
        <5>1. channel[h] # None /\ ~ Weak(h) /\ (contacts[h] = None => Mailed(channel[h]))
          BY <2>1, <4>3 DEF Leading
        <5>2. contacts[h] = None => c = channel[h]
          BY <2>1, <2>14, <3>2, <5>1 DEF OneFound
        <5>. QED
          BY <1>d, <2>3, <2>9, <3>2, <5>1, <5>2 DEF Leading, Mailed
      <4>. QED
        BY <4>1, <4>2, <4>3 DEF Leading
    <3>. QED
      BY <3>1, <3>2
  <2>. QED
    BY <2>4, <2>5, <2>6, <2>7, <2>8, <2>10, <2>11
<1>7. AloneInv'
  <2>. SUFFICES ASSUME ~ crossed'
                PROVE  /\ op'["heartbeat"] = C!Idle \/ (op'["telegram"] = C!Idle /\ origins' = None)
                       /\ mishaps' = 0 =>
                            /\ \A r \in C!Service : New(r)'
                            /\ origins' # None => \A d \in origins' : contacts'[d].origin = None
                            /\ \A h \in written' : channel'[h] # None /\ Mailed(channel[h])'
                            /\ \A d \in C!Ids : Exact(d)'
    BY DEF AloneInv
  <2>1. Alone(s)
    BY <1>0, <1>1, AloneIs
  <2>2. op'["heartbeat"] = C!Idle \/ (op'["telegram"] = C!Idle /\ origins' = None)
    BY <1>d, <2>1, ContactsAre DEF Alone
  <2>. SUFFICES ASSUME mishaps' = 0
                PROVE  /\ \A r \in C!Service : New(r)'
                       /\ \A h \in written' : channel'[h] # None /\ Mailed(channel[h])'
                       /\ \A d \in C!Ids : Exact(d)'
    BY <1>1, <2>1, <2>2 DEF Alone
  <2>6. mishaps = 0 /\ ~ (mishaps' > mishaps)
    OBVIOUS
  <2>4. ASSUME NEW h \in written' PROVE channel'[h] # None /\ Mailed(channel[h])'
    <3>1. contacts[c] # None /\ channel'[who] = c /\ c # None /\ (C!Outbound(op[s]) => Mailed(c))
      <4>1. Stands(s)
        BY <1>0, <2>6 DEF FoundInv
      <4>. QED
        BY <1>1, <1>a, <1>b, <2>6, <4>1, ContactsAre DEF Stands
    <3>2. h \in written => channel[h] # None /\ Mailed(channel[h]) /\ h \in Handles
      BY <1>0, <2>1, <2>6 DEF Alone, GraphTypes
    <3>3. CASE h = who
      <4>1. CASE C!Outbound(op[s])
        BY <1>d, <3>1, <3>3, <4>1 DEF Mailed
      <4>2. CASE ~ C!Outbound(op[s])
        <5>1. h \in written
          BY <1>1, <4>2
        <5>2. channel[h] = c
          BY <1>1, <1>a, <1>f, <2>1, <2>6, <3>3, <5>1 DEF Alone, New, Beyond
        <5>. QED
          BY <1>d, <3>1, <3>2, <3>3, <5>1, <5>2 DEF Mailed
      <4>. QED
        BY <4>1, <4>2
    <3>4. CASE h # who
      <4>1. h \in written
        BY <1>1, <3>4
      <4>. QED
        BY <1>b, <1>d, <3>2, <3>4, <4>1 DEF Mailed
    <3>. QED
      BY <3>3, <3>4
  <2>3. ASSUME NEW r \in C!Service PROVE New(r)'
    <3>1. New(s)'
      BY <1>1, IdleIs DEF New, Beyond
    <3>. QED
      BY <1>1, <2>1, <3>1, NewStep
  <2>5. ASSUME NEW d \in C!Ids PROVE Exact(d)'
    <3>1. Exact(d) /\ Uncounted(d) = 0 /\ Uncounted(d)' = 0
      BY <1>1, <2>1, <2>6, IdleIs, ContactsAre DEF Alone, Uncounted
    <3>. QED
      BY <1>1, <3>1 DEF Exact
  <2>. QED
    BY <2>3, <2>4, <2>5
<1>. QED
  BY <1>2, <1>4, <1>5, <1>6, <1>7 DEF GraphInv

LEMMA ReadKeeps ==
  ASSUME GraphInv, mishaps \in Nat, C!ReadOrigins
  PROVE  GraphInv'
<1>0. GraphTypes /\ OpInv /\ CountInv /\ FoundInv /\ AloneInv
  BY DEF GraphInv
<1>1. /\ op["telegram"] = C!Idle /\ origins = None /\ origins' \subseteq C!Known
      /\ (\A c \in origins' : contacts[c].origin = None) /\ origins' \in SUBSET C!Ids
      /\ crossed' = (crossed \/ op["heartbeat"] # C!Idle) /\ crossed' \in BOOLEAN
      /\ UNCHANGED <<contacts, channel, op, written, outs, ins, extras, mishaps>>
  BY <1>0, ReadDo
<1>2. GraphTypes'
  BY <1>0, <1>1 DEF GraphTypes
<1>3. OpInv'
  BY <1>0, <1>1 DEF OpInv, OpOf, C!Known, C!Outbound
<1>4. CountInv' /\ FoundInv'
  BY <1>1, QuietKeeps
<1>5. AloneInv'
  <2>. SUFFICES ASSUME ~ crossed'
                PROVE  /\ op'["heartbeat"] = C!Idle \/ (op'["telegram"] = C!Idle /\ origins' = None)
                       /\ mishaps' = 0 =>
                            /\ \A r \in C!Service : New(r)'
                            /\ origins' # None => \A d \in origins' : contacts'[d].origin = None
                            /\ \A h \in written' : channel'[h] # None /\ Mailed(channel[h])'
                            /\ \A d \in C!Ids : Exact(d)'
    BY DEF AloneInv
  <2>1. ~ crossed /\ op["heartbeat"] = C!Idle
    BY <1>0, <1>1 DEF GraphTypes
  <2>2. mishaps' = 0 =>
          /\ \A r \in C!Service : New(r)
          /\ \A h \in written : channel[h] # None /\ Mailed(channel[h])
          /\ \A d \in C!Ids : Exact(d)
    BY <1>0, <1>1, <2>1 DEF AloneInv
  <2>3. mishaps' = 0 => \A r \in C!Service : New(r)'
    BY <1>1, <2>2 DEF New
  <2>4. mishaps' = 0 => \A h \in written' : channel'[h] # None /\ Mailed(channel[h])'
    BY <1>1, <2>2 DEF Mailed
  <2>5. mishaps' = 0 => \A d \in C!Ids : Exact(d)'
    BY <1>1, <2>2 DEF Exact, Uncounted
  <2>. QED
    BY <1>1, <2>1, <2>3, <2>4, <2>5
<1>. QED
  BY <1>2, <1>3, <1>4, <1>5 DEF GraphInv

LEMMA OriginsKeep ==
  ASSUME GraphInv, mishaps \in Nat, C!WriteOrigins
  PROVE  GraphInv'
<1>0. GraphTypes /\ OpInv /\ CountInv /\ FoundInv /\ AloneInv
  BY DEF GraphInv
<1>1. /\ origins # None /\ origins \subseteq C!Known /\ origins' = None /\ op["telegram"] = C!Idle
      /\ contacts' \in [C!Ids -> C!Row \cup {None}]
      /\ UNCHANGED <<channel, op, written, outs, ins, extras, crossed, mishaps>>
  BY <1>0, OriginsDo
<1>e. \A d \in C!Ids :
        /\ contacts'[d] = None <=> contacts[d] = None
        /\ contacts[d] # None => contacts'[d].sent = contacts[d].sent /\ contacts'[d].received = contacts[d].received
  BY <1>0, OriginsDo, ContactsAre
<1>2. GraphTypes'
  BY <1>0, <1>1 DEF GraphTypes
<1>a. /\ \A r \in C!Service : op[r].id \in C!Ids
      /\ \A h \in Handles : h \in C!Ids /\ (channel[h] # None => channel[h] \in C!Ids)
  BY <1>0, OpIs, ContactsAre DEF GraphTypes
<1>3. OpInv'
  <2>1. ASSUME NEW r \in C!Service PROVE OpOf(r)'
    BY <1>0, <1>1, <1>a, <1>e DEF OpInv, OpOf, C!Outbound
  <2>. QED
    BY <1>0, <1>1, <1>a, <1>e, <2>1 DEF OpInv
<1>b. \A d \in C!Ids : Uncounted(d)' = Uncounted(d)
  <2>1. ASSUME NEW d \in C!Ids PROVE Uncounted(d)' = Uncounted(d)
    <3>1. CASE contacts[d] # None
      BY <1>1, <1>e, <3>1 DEF Uncounted
    <3>2. CASE contacts[d] = None
      <4>1. contacts'[d] = contacts[d]
        BY <1>e, <3>2
      <4>. QED
        BY <1>1, <4>1 DEF Uncounted
    <3>. QED
      BY <3>1, <3>2
  <2>. QED
    BY <2>1
<1>4. CountInv'
  <2>1. ASSUME NEW d \in C!Ids PROVE CountOf(d)'
    BY <1>0, <1>1, <1>b, <1>e, <2>1 DEF CountInv, CountOf
  <2>. QED
    BY <2>1 DEF CountInv
<1>5. FoundInv'
  <2>. SUFFICES ASSUME mishaps' = 0
                PROVE  /\ \A r \in C!Service : Stands(r)'
                       /\ \A h \in Handles :
                            MadeBound(h)' /\ MakesOwn(h)' /\ TrackBound(h)' /\ OneFound(h)' /\ WeakOwn(h)' /\ Leading(h)'
    BY DEF FoundInv
  <2>1. /\ \A r \in C!Service : Stands(r)
        /\ \A h \in Handles : MadeBound(h) /\ MakesOwn(h) /\ TrackBound(h) /\ OneFound(h) /\ WeakOwn(h) /\ Leading(h)
    BY <1>0, <1>1 DEF FoundInv
  <2>d. contacts' = contacts' /\ channel' = channel /\ op' = op /\ written' = written
    BY <1>1
  <2>2. ASSUME NEW r \in C!Service PROVE Stands(r)'
    BY <1>a, <1>e, <2>d, <2>1 DEF Stands, C!Outbound, Mailed
  <2>3. ASSUME NEW h \in Handles PROVE Weak(h)' <=> Weak(h)
    BY <1>a, <1>e, <2>d DEF Weak, Pending, Half, C!Outbound
  <2>4. ASSUME NEW h \in Handles PROVE MadeBound(h)'
    BY <1>a, <1>e, <2>d, <2>1 DEF MadeBound
  <2>5. ASSUME NEW h \in Handles PROVE MakesOwn(h)'
    BY <2>d, <2>1 DEF MakesOwn, At
  <2>6. ASSUME NEW h \in Handles PROVE TrackBound(h)'
    BY <2>d, <2>1 DEF TrackBound
  <2>7. ASSUME NEW h \in Handles PROVE OneFound(h)'
    BY <1>a, <1>e, <2>d, <2>1 DEF OneFound
  <2>8. ASSUME NEW h \in Handles PROVE WeakOwn(h)'
    BY <2>d, <2>1, <2>3 DEF WeakOwn, At
  <2>9. ASSUME NEW h \in Handles PROVE Leading(h)'
    BY <1>a, <1>e, <2>d, <2>1, <2>3 DEF Leading, Mailed
  <2>. QED
    BY <2>2, <2>4, <2>5, <2>6, <2>7, <2>8, <2>9
<1>6. AloneInv'
  <2>. SUFFICES ASSUME ~ crossed'
                PROVE  /\ op'["heartbeat"] = C!Idle \/ (op'["telegram"] = C!Idle /\ origins' = None)
                       /\ mishaps' = 0 =>
                            /\ \A r \in C!Service : New(r)'
                            /\ origins' # None => \A d \in origins' : contacts'[d].origin = None
                            /\ \A h \in written' : channel'[h] # None /\ Mailed(channel[h])'
                            /\ \A d \in C!Ids : Exact(d)'
    BY DEF AloneInv
  <2>1. op["heartbeat"] = C!Idle /\ \A r \in C!Service : op'[r].at = "idle"
    BY <1>0, <1>1, IdleIs, ContactsAre DEF AloneInv
  <2>2. mishaps' = 0 =>
          /\ \A h \in written : channel[h] # None /\ Mailed(channel[h])
          /\ \A d \in C!Ids : Exact(d)
    BY <1>0, <1>1 DEF AloneInv
  <2>3. \A r \in C!Service : New(r)'
    BY <2>1 DEF New, Beyond
  <2>4. ASSUME mishaps' = 0, NEW h \in written' PROVE channel'[h] # None /\ Mailed(channel[h])'
    <3>1. h \in Handles /\ channel[h] \in C!Ids /\ channel[h] # None /\ Mailed(channel[h])
      BY <1>0, <1>1, <1>a, <2>2, <2>4 DEF GraphTypes
    <3>. QED
      BY <1>1, <1>e, <3>1 DEF Mailed
  <2>5. ASSUME mishaps' = 0, NEW d \in C!Ids PROVE Exact(d)'
    BY <1>1, <1>b, <1>e, <2>2, <2>5 DEF Exact
  <2>. QED
    BY <1>1, <2>1, <2>3, <2>4, <2>5
<1>. QED
  BY <1>2, <1>3, <1>4, <1>5, <1>6 DEF GraphInv

LEMMA CrashKeeps ==
  ASSUME GraphInv, mishaps \in Nat, mishaps' \in {mishaps, mishaps + 1}, C!Crash
  PROVE  GraphInv'
<1>0. GraphTypes /\ OpInv /\ CountInv /\ FoundInv /\ AloneInv
  BY DEF GraphInv
<1>1. /\ mishaps' > mishaps /\ UNCHANGED <<contacts, channel, written, outs, ins, extras, crossed>>
      /\ op' \in [C!Service -> OpType] /\ origins' \in {origins, None}
      /\ \A s \in C!Service : op'[s] = op[s] \/ op'[s] = C!Idle
      /\ (op'["telegram"] = C!Idle \/ UNCHANGED origins)
      /\ (op'["telegram"] = op["telegram"] \/ origins' = None)
  BY <1>0, CrashDo
<1>2. GraphTypes'
  BY <1>0, <1>1 DEF GraphTypes, OpType
<1>3. OpInv'
  <2>1. ASSUME NEW r \in C!Service PROVE OpOf(r)'
    BY <1>0, <1>1, IdleIs DEF OpInv, OpOf, C!Outbound
  <2>. QED
    BY <1>0, <1>1, <2>1 DEF OpInv, C!Known
<1>4. CountInv'
  <2>1. ASSUME NEW d \in C!Ids PROVE CountOf(d)'
    BY <1>0, <1>1, CountStep
  <2>. QED
    BY <2>1 DEF CountInv
<1>5. mishaps' # 0
  BY <1>1
<1>6. FoundInv'
  BY <1>5 DEF FoundInv
<1>7. AloneInv'
  BY <1>0, <1>1, <1>5, ContactsAre DEF AloneInv
<1>. QED
  BY <1>2, <1>3, <1>4, <1>6, <1>7 DEF GraphInv

LEMMA StillKeeps ==
  ASSUME GraphInv, mishaps \in Nat, mishaps' \in {mishaps, mishaps + 1}, UNCHANGED graphs
  PROVE  GraphInv'
<1>0. GraphTypes /\ OpInv /\ CountInv /\ FoundInv /\ AloneInv
  BY DEF GraphInv
<1>1. UNCHANGED <<contacts, channel, op, origins, written, outs, ins, extras, crossed>>
  BY DEF graphs
<1>2. GraphTypes'
  BY <1>0, <1>1 DEF GraphTypes
<1>3. OpInv'
  BY <1>0, <1>1 DEF OpInv, OpOf, C!Known, C!Outbound
<1>4. CountInv' /\ FoundInv'
  BY <1>1, QuietKeeps
<1>5. AloneInv'
  <2>1. mishaps' = 0 => mishaps = 0
    OBVIOUS
  <2>2. \A r \in C!Service : New(r) => New(r)'
    BY <1>1 DEF New
  <2>3. \A h \in written : Mailed(channel[h]) => contacts'[channel'[h]] # None /\ contacts'[channel'[h]].sent > 0
    BY <1>1 DEF Mailed
  <2>4. \A d \in C!Ids : Exact(d) => Exact(d)'
    BY <1>1 DEF Exact, Uncounted
  <2>. QED
    BY <1>0, <1>1, <2>1, <2>2, <2>3, <2>4 DEF AloneInv, Mailed
<1>. QED
  BY <1>2, <1>3, <1>4, <1>5 DEF GraphInv

\* What was proved of each step.
LEMMA GraphKept ==
  ASSUME C!TypeOK, MailInv, GraphInv, C!Next
  PROVE  GraphInv'
<1>1. mishaps \in Nat /\ mishaps' \in {mishaps, mishaps + 1}
  BY TwoHalves, MishapsGrow DEF ScanTypes
<1>2. \/ UNCHANGED graphs
      \/ \E s \in C!Service : Begins(s) \/ Works(s)
      \/ C!ReadOrigins \/ C!WriteOrigins \/ C!Crash
  BY GraphSteps
<1>3. ASSUME NEW s \in C!Service, Works(s) PROVE GraphInv'
  BY <1>1, <1>3, ResolveKeeps, UpdateKeeps, CreateKeeps, BindKeeps, CountKeeps, StampKeeps, FinishKeeps DEF Works
<1>. QED
  BY <1>1, <1>2, <1>3, StillKeeps, BeginKeeps, ReadKeeps, OriginsKeep, CrashKeeps

-----------------------------------------------------------------------------
(* The invariants of the scans, step by step.                              *)

ScanInv == ScanTypes /\ MailInv /\ PollInv

LEMMA ScanIs ==
  ASSUME ScanTypes
  PROVE  /\ scan.on \in C!Scans /\ scan.page \in Nat /\ scan.rest \in Seq(Nat) /\ scan.low \in Nat /\ scan.high \in Nat
         /\ scan.low \in C!Second /\ scan.high \in C!Second /\ scan.last \in BOOLEAN
         /\ Len(folder) \in Nat /\ Len(inbox) \in Nat /\ Len(taken) \in Nat /\ Len(scan.rest) \in Nat
         /\ watermark \in Int /\ pushed \in Nat /\ since \in Int /\ mishaps \in Nat
<1>1. scan \in [on : C!Scans, page : Nat, rest : Seq(Nat), low : C!Second, high : C!Second, last : BOOLEAN]
  BY DEF ScanTypes
<1>2. \A x \in C!Second : x \in Nat
  BY ContactsAre
<1>3. folder \in Seq([to : Handles, at : C!Second]) /\ inbox \in Seq(Handles) /\ taken \in Seq(Nat)
  BY DEF ScanTypes
<1>4. watermark \in Int /\ since \in Int
  BY <1>2 DEF ScanTypes, C!NoMark
<1>5. pushed \in Nat /\ mishaps \in Nat
  BY DEF ScanTypes
<1>. QED
  BY <1>1, <1>2, <1>3, <1>4, <1>5

LEMMA ClockIs ==
  ASSUME ScanTypes, MailInv
  PROVE  /\ Clock \in Nat /\ Clock <= Len(folder) /\ Clock \in C!Second
         /\ \A m \in 1 .. Len(folder) : folder[m].at <= Clock
         /\ Len(folder) > 0 => Clock = folder[Len(folder)].at
         /\ Len(folder) = 0 => Clock = 0
<1>1. folder \in Seq([to : Handles, at : C!Second]) /\ Len(folder) \in Nat
  BY ScanIs DEF ScanTypes
<1>a. (\A m \in 1 .. Len(folder) : folder[m].at <= m) /\ \A m, n \in 1 .. Len(folder) : m <= n => folder[m].at <= folder[n].at
  BY DEF MailInv
<1>2. folder = <<>> <=> Len(folder) = 0
  BY <1>1
<1>3. CASE Len(folder) = 0
  BY <1>2, <1>3, ContactsAre DEF Clock, C!Clock
<1>4. CASE Len(folder) > 0
  <2>1. Clock = folder[Len(folder)].at /\ Len(folder) \in 1 .. Len(folder)
    BY <1>1, <1>2, <1>4 DEF Clock, C!Clock
  <2>2. Clock \in Nat /\ Clock \in C!Second /\ Clock <= Len(folder)
    BY <1>a, <2>1, FolderIs
  <2>3. \A m \in 1 .. Len(folder) : folder[m].at <= Clock
    BY <1>1, <1>a, <2>1
  <2>. QED
    BY <1>4, <2>1, <2>2, <2>3
<1>. QED
  BY <1>1, <1>3, <1>4

LEMMA MinMaxIs ==
  ASSUME NEW a \in Int, NEW b \in Int
  PROVE  /\ C!Min({a, b}) = IF b < a THEN b ELSE a
         /\ C!Max({a, b}) = IF b > a THEN b ELSE a
<1>1. \E x \in {a, b} : \A y \in {a, b} : x =< y
  <2>1. (a =< b /\ a =< a) \/ (b =< a /\ b =< b)
    OBVIOUS
  <2>. QED
    BY <2>1
<1>2. C!Min({a, b}) \in {a, b} /\ \A y \in {a, b} : C!Min({a, b}) =< y
  BY <1>1 DEF C!Min
<1>3. \E x \in {a, b} : \A y \in {a, b} : x >= y
  <2>1. (a >= b /\ a >= a) \/ (b >= a /\ b >= b)
    OBVIOUS
  <2>. QED
    BY <2>1
<1>4. C!Max({a, b}) \in {a, b} /\ \A y \in {a, b} : C!Max({a, b}) >= y
  BY <1>3 DEF C!Max
<1>5. C!Min({a, b}) =< a /\ C!Min({a, b}) =< b /\ C!Max({a, b}) >= a /\ C!Max({a, b}) >= b
  BY <1>2, <1>4
<1>. QED
  BY <1>2, <1>4, <1>5

\* The page that is listed.
LEMMA PageIs ==
  ASSUME NEW n \in Nat, NEW p \in Nat, p >= 1
  PROVE  LET b == C!Top(n, p)
             q == C!Page(n, p)
         IN  /\ b \in Int /\ b <= n /\ C!Top(n, p + 1) = b - PageSize
             /\ q \in Seq(Nat)
             /\ b <= 0 => q = <<>>
             /\ b > 0 => Len(q) = (IF b < PageSize THEN b ELSE PageSize) /\ Len(q) >= 1
             /\ \A i \in 1 .. Len(q) : q[i] = b + 1 - i /\ q[i] \in 1 .. n
<1>. DEFINE b == C!Top(n, p)
            k == C!Min({PageSize, b})
            q == C!Page(n, p)
<1>1. PageSize \in Nat /\ PageSize > 0
  BY ContactsAre
<1>2. b \in Int /\ b <= n /\ C!Top(n, p + 1) = b - PageSize
  <2>1. p - 1 \in Nat
    OBVIOUS
  <2>2. \A x \in Nat : x * PageSize \in Nat /\ (x + 1) * PageSize = x * PageSize + PageSize
    BY <1>1
  <2>3. (p - 1) * PageSize \in Nat /\ (p - 1 + 1) * PageSize = (p - 1) * PageSize + PageSize /\ (p + 1) - 1 = p - 1 + 1
    BY <2>1, <2>2
  <2>. QED
    BY <1>1, <2>3 DEF C!Top
<1>3. k = IF b < PageSize THEN b ELSE PageSize
  <2>. HIDE DEF b
  <2>. QED
    BY <1>1, <1>2, MinMaxIs
<1>4. q = [i \in 1 .. k |-> b + 1 - i]
  BY DEF C!Page
<1>. HIDE DEF b, k, q
<1>5. ASSUME b <= 0 PROVE q = <<>>
  <2>1. 1 .. k = {}
    BY <1>1, <1>2, <1>3, <1>5
  <2>. QED
    BY <1>4, <2>1
<1>6. ASSUME b > 0
      PROVE  /\ q \in Seq(Nat) /\ Len(q) = (IF b < PageSize THEN b ELSE PageSize) /\ Len(q) >= 1
             /\ \A i \in 1 .. Len(q) : q[i] = b + 1 - i /\ q[i] \in 1 .. n
  <2>1. k \in Nat /\ k >= 1 /\ k <= b
    BY <1>1, <1>2, <1>3, <1>6
  <2>2. \A i \in 1 .. k : b + 1 - i \in Nat /\ b + 1 - i \in 1 .. n
    <3>1. ASSUME NEW i \in 1 .. k PROVE b + 1 - i \in Nat /\ b + 1 - i \in 1 .. n
      BY <1>2, <1>6, <2>1, <3>1
    <3>. QED
      BY <3>1
  <2>3. q \in Seq(Nat) /\ Len(q) = k /\ \A i \in 1 .. k : q[i] = b + 1 - i
    BY <1>4, <2>1, <2>2
  <2>. QED
    BY <1>3, <2>1, <2>2, <2>3
<1>7. q = <<>> => q \in Seq(Nat) /\ Len(q) = 0
  OBVIOUS
<1>8. /\ b \in Int /\ b <= n /\ C!Top(n, p + 1) = b - PageSize
      /\ q \in Seq(Nat)
      /\ b <= 0 => q = <<>>
      /\ b > 0 => Len(q) = (IF b < PageSize THEN b ELSE PageSize) /\ Len(q) >= 1
      /\ \A i \in 1 .. Len(q) : q[i] = b + 1 - i /\ q[i] \in 1 .. n
  <2>1. CASE b <= 0
    BY <1>2, <1>5, <1>7, <2>1
  <2>2. CASE b > 0
    BY <1>2, <1>6, <2>2
  <2>. QED
    BY <1>2, <2>1, <2>2
<1>. QED
  BY <1>8 DEF b, q

LEMMA TailIs ==
  ASSUME NEW q \in Seq(Nat), q # <<>>
  PROVE  /\ Tail(q) \in Seq(Nat) /\ Len(Tail(q)) = Len(q) - 1 /\ Len(q) \in Nat /\ Len(q) >= 1 /\ Head(q) = q[1]
         /\ \A i \in 1 .. Len(q) - 1 : Tail(q)[i] = q[i + 1]
<1>. QED
  OBVIOUS

LEMMA RestingIs ==
  /\ C!Resting.on = "nothing" /\ C!Resting.page = 0 /\ C!Resting.rest = <<>> /\ C!Resting.low = 0
  /\ C!Resting.high = 0 /\ C!Resting.last = FALSE
<1>. QED
  BY DEF C!Resting

ScanType == [on : C!Scans, page : Nat, rest : Seq(Nat), low : C!Second, high : C!Second, last : BOOLEAN]

\* How the scan begins something else, where no poll was.
Anew(what, first, these) == scan' = [on |-> what, page |-> first, rest |-> these, low |-> 0, high |-> 0, last |-> FALSE]

LEMMA AnewIs ==
  ASSUME ScanTypes, MailInv, NEW what \in C!Scans, NEW first \in Nat, NEW these \in Seq(Nat), Anew(what, first, these)
  PROVE  /\ scan' \in ScanType /\ scan'.on = what /\ scan'.page = first /\ scan'.rest = these
         /\ scan'.low = 0 /\ scan'.high = 0 /\ scan'.last = FALSE
<1>1. 0 \in C!Second
  BY ContactsAre
<1>. QED
  BY <1>1 DEF Anew, ScanType

\* What is left of a page is on the list.
OnList == \A i \in 1 .. Len(scan.rest) : scan.rest[i] \in 1 .. Listed

\* Steps that only go on with a scan, or begin one.
LEMMA MailStep ==
  ASSUME MailInv, UNCHANGED <<folder, taken, watermark>>, OnList',
         scan'.low <= scan'.high, scan'.high <= Clock,
         scan'.on \in {"backfill_sent", "backfill_received", "poll"} => scan'.page >= 1
  PROVE  MailInv'
<1>1. Clock' = Clock
  BY DEF Clock, C!Clock
<1>. QED
  BY <1>1 DEF MailInv, OnList

LEMMA ClockNat ==
  ASSUME ScanTypes, MailInv
  PROVE  Clock \in Nat /\ 0 <= Clock
<1>. QED
  BY ClockIs

LEMMA NoPoll ==
  ASSUME ScanInv, UNCHANGED <<folder, taken, pushed, watermark, since>>, mishaps' \in {mishaps, mishaps + 1},
         scan.on # "poll", scan'.on # "poll"
  PROVE  PollInv'
<1>0. ScanTypes /\ MailInv /\ TakenInv /\ SeenInv /\ mishaps \in Nat /\ pushed \in Nat
  BY ScanIs DEF ScanInv, PollInv
<1>1. RestInv'
  BY DEF RestInv
<1>2. TakenInv'
  <2>1. ASSUME NEW m \in 1 .. Len(folder) PROVE taken[m] \in Nat
    BY <1>0, ElementOf DEF ScanTypes, MailInv
  <2>. QED
    BY <1>0, <2>1 DEF TakenInv
<1>3. SeenInv'
  BY <1>0 DEF SeenInv, C!SentSeen
<1>. QED
  BY <1>1, <1>2, <1>3 DEF PollInv

LEMMA StillScans ==
  ASSUME ScanInv, UNCHANGED scans, mishaps' \in {mishaps, mishaps + 1}, mishaps' \in 0 .. Mishaps, tracks' \in 0 .. MaxTracks
  PROVE  ScanInv'
<1>0. ScanTypes /\ MailInv /\ RestInv /\ TakenInv /\ SeenInv /\ mishaps \in Nat /\ pushed \in Nat
  BY ScanIs DEF ScanInv, PollInv
<1>1. UNCHANGED <<backfilled, watermark, pollDue, folder, inbox, enriched, scan, taken, pushed, since>>
  BY DEF scans
<1>2. ScanTypes'
  BY <1>0, <1>1 DEF ScanTypes
<1>3. MailInv'
  BY <1>0, <1>1 DEF MailInv, Listed, Clock, C!Clock
<1>4. RestInv'
  BY <1>0, <1>1 DEF RestInv
<1>5. TakenInv'
  <2>1. ASSUME NEW m \in 1 .. Len(folder) PROVE taken[m] \in Nat /\ AheadOf(m) \in Nat /\ BehindOf(m) \in Nat
    BY <1>0, ElementOf DEF ScanTypes, MailInv, AheadOf, BehindOf
  <2>2. ASSUME NEW m PROVE AheadOf(m)' = AheadOf(m) /\ BehindOf(m)' = BehindOf(m)
    BY <1>1 DEF AheadOf, Ahead, BehindOf, Behind, C!Top
  <2>. QED
    BY <1>0, <1>1, <2>1, <2>2 DEF TakenInv
<1>6. SeenInv'
  <2>1. mishaps' = 0 => mishaps = 0
    BY <1>0
  <2>. QED
    BY <1>0, <1>1, <2>1 DEF SeenInv, C!SentSeen, Leads, NextOne, Behind, C!Top
<1>. QED
  BY <1>2, <1>3, <1>4, <1>5, <1>6 DEF ScanInv, PollInv

\* A scan that is broken off, in one way or another.
LEMMA StopKeeps ==
  ASSUME ScanInv, mishaps' = mishaps + 1, mishaps' \in 0 .. Mishaps, tracks' \in 0 .. MaxTracks,
         backfilled' \in BOOLEAN, pollDue' \in BOOLEAN,
         UNCHANGED <<watermark, folder, inbox, enriched, taken, pushed, since>>, scan' = C!Resting
  PROVE  ScanInv'
<1>0. ScanTypes /\ MailInv /\ RestInv /\ TakenInv /\ SeenInv /\ mishaps \in Nat /\ pushed \in Nat
  BY ScanIs DEF ScanInv, PollInv
<1>1. scan' \in ScanType /\ scan'.on = "nothing" /\ scan'.page = 0 /\ scan'.rest = <<>> /\ scan'.low = 0 /\ scan'.high = 0
  <2>1. "nothing" \in C!Scans /\ <<>> \in Seq(Nat) /\ Anew("nothing", 0, <<>>)
    BY DEF C!Scans, C!Resting, Anew
  <2>. QED
    BY <1>0, <2>1, AnewIs
<1>2. ScanTypes'
  BY <1>0, <1>1 DEF ScanTypes, ScanType
<1>3. MailInv'
  <2>1. 0 <= Clock
    BY <1>0, ClockNat
  <2>2. OnList'
    BY <1>1 DEF OnList
  <2>3. scan'.low <= scan'.high /\ scan'.high <= Clock
    BY <1>1, <2>1
  <2>. QED
    BY <1>0, <1>1, <2>2, <2>3, MailStep
<1>4. RestInv'
  BY <1>1 DEF RestInv
<1>5. TakenInv'
  <2>1. ASSUME NEW m \in 1 .. Len(folder) PROVE taken[m] \in Nat
    BY <1>0, ElementOf DEF ScanTypes, MailInv
  <2>. QED
    BY <1>0, <1>1, <2>1 DEF TakenInv
<1>6. SeenInv'
  BY <1>0 DEF SeenInv
<1>. QED
  BY <1>2, <1>3, <1>4, <1>5, <1>6 DEF ScanInv, PollInv

\* What is no poll.
Off ==
  /\ scan \in ScanType /\ scan.on # "poll" /\ scan.low <= scan.high /\ scan.high <= Clock
  /\ scan.on \in {"backfill_sent", "backfill_received", "poll"} => scan.page >= 1
  /\ OnList /\ enriched \in 0 .. Len(inbox) /\ inbox \in Seq(Handles)

LEMMA OffMail ==
  ASSUME MailInv, Off', UNCHANGED <<watermark, folder, taken>>
  PROVE  MailInv'
<1>1. Clock' = Clock
  BY DEF Clock, C!Clock
<1>2. scan'.low <= scan'.high /\ scan'.high <= Clock /\ OnList'
      /\ (scan'.on \in {"backfill_sent", "backfill_received", "poll"} => scan'.page >= 1)
  BY <1>1 DEF Off
<1>. QED
  BY <1>2, MailStep

LEMMA OffKeeps ==
  ASSUME ScanInv, mishaps' \in {mishaps, mishaps + 1}, mishaps' \in 0 .. Mishaps, tracks' \in 0 .. MaxTracks,
         backfilled' \in BOOLEAN, pollDue' \in BOOLEAN,
         UNCHANGED <<watermark, folder, taken, pushed, since>>, scan.on # "poll", Off'
  PROVE  ScanInv'
<1>0. ScanTypes /\ MailInv
  BY DEF ScanInv
<1>1. scan' \in ScanType /\ scan'.on # "poll" /\ enriched' \in 0 .. Len(inbox') /\ inbox' \in Seq(Handles)
  BY DEF Off
<1>2. ScanTypes'
  BY <1>0, <1>1 DEF ScanTypes, ScanType
<1>3. MailInv'
  BY <1>0, OffMail
<1>4. PollInv'
  BY <1>1, NoPoll
<1>. QED
  BY <1>2, <1>3, <1>4 DEF ScanInv

LEMMA ZeroIs == \A a, b : a = 0 /\ b \in Nat => a <= b
<1>. QED
  OBVIOUS

\* Something else begins.
LEMMA AnewOff ==
  ASSUME ScanTypes, MailInv, UNCHANGED folder, enriched' \in 0 .. Len(inbox'), inbox' \in Seq(Handles),
         NEW what \in C!Scans, what # "poll", NEW first \in Nat,
         what \in {"backfill_sent", "backfill_received", "poll"} => first >= 1, NEW these \in Seq(Nat),
         Anew(what, first, these), OnList'
  PROVE  Off'
<1>1. Clock' = Clock /\ Clock \in Nat
  BY ClockNat DEF Clock, C!Clock
<1>3. scan' \in ScanType /\ scan'.on = what /\ scan'.page = first /\ scan'.rest = these /\ scan'.low = 0 /\ scan'.high = 0
  BY AnewIs
<1>4. scan'.low <= scan'.high /\ scan'.high <= Clock'
  <2>1. 0 \in Nat
    BY Zenon, ZeroIs
  <2>. QED
    BY <1>1, <1>3, <2>1, ZeroIs, Zenon
<1>. QED
  BY <1>3, <1>4 DEF Off

\* Nothing is listed.
LEMMA NoPage ==
  ASSUME scan'.rest = <<>>
  PROVE  OnList'
<1>1. Len(<<>>) = 0 /\ \A i \in 1 .. 0 : FALSE
  OBVIOUS
<1>. QED
  BY <1>1 DEF OnList

LEMMA Empty == <<>> \in Seq(Nat)
<1>. QED
  OBVIOUS

\* What every step lets the counters be.
Bounded == mishaps \in 0 .. Mishaps /\ tracks \in 0 .. MaxTracks

\* What a poll does not change otherwise either.
Switches == backfilled \in BOOLEAN /\ pollDue \in BOOLEAN /\ enriched \in 0 .. Len(inbox) /\ inbox \in Seq(Handles)

\* Nothing is being listed, but perhaps something is to be.
Blank(what, first) == scan' = [on |-> what, page |-> first, rest |-> <<>>, low |-> 0, high |-> 0, last |-> FALSE]

LEMMA BlankIs ==
  ASSUME NEW what, NEW first, Blank(what, first)
  PROVE  \E q \in Seq(Nat) : q = <<>> /\ Anew(what, first, q) /\ scan'.rest = <<>>
<1>1. Anew(what, first, <<>>) /\ scan'.rest = <<>>
  BY DEF Anew, Blank
<1>. QED
  BY <1>1, Empty, Zenon

LEMMA ThatScan ==
  ASSUME NEW what \in {"nothing", "checked", "backfill_sent", "backfill_received"}, NEW first \in {0, 1},
         what \in {"backfill_sent", "backfill_received"} => first = 1
  PROVE  what \in C!Scans /\ what # "poll" /\ first \in Nat /\ (what \in {"backfill_sent", "backfill_received", "poll"} => first >= 1)
<1>. QED
  BY DEF C!Scans

LEMMA BlankKeeps ==
  ASSUME ScanInv, Bounded', Switches', mishaps' \in {mishaps, mishaps + 1}, scan.on # "poll",
         UNCHANGED <<watermark, folder, taken, pushed, since>>,
         NEW what \in {"nothing", "checked", "backfill_sent", "backfill_received"}, NEW first \in {0, 1},
         what \in {"backfill_sent", "backfill_received"} => first = 1, Blank(what, first)
  PROVE  ScanInv'
<1>0. ScanTypes /\ MailInv /\ mishaps' \in 0 .. Mishaps /\ tracks' \in 0 .. MaxTracks
      /\ backfilled' \in BOOLEAN /\ pollDue' \in BOOLEAN /\ enriched' \in 0 .. Len(inbox') /\ inbox' \in Seq(Handles)
  BY DEF ScanInv, Bounded, Switches
<1>1. PICK q \in Seq(Nat) : q = <<>> /\ Anew(what, first, q) /\ scan'.rest = <<>>
  BY BlankIs
<1>2. OnList'
  BY <1>1, NoPage
<1>5. what \in C!Scans /\ what # "poll" /\ first \in Nat /\ (what \in {"backfill_sent", "backfill_received", "poll"} => first >= 1)
  BY ThatScan, Zenon
<1>6. Off'
  BY <1>0, <1>1, <1>2, <1>5, AnewOff
<1>. QED
  BY <1>0, <1>6, OffKeeps

LEMMA ScanHyp ==
  ASSUME ScanInv
  PROVE  /\ ScanTypes /\ MailInv /\ Switches /\ Clock \in Nat /\ 0 <= Clock
         /\ scan \in ScanType /\ mishaps \in Nat /\ pushed \in Nat
<1>1. ScanTypes /\ MailInv
  BY DEF ScanInv
<1>. QED
  BY <1>1, ScanIs, ClockNat DEF ScanTypes, Switches, ScanType

LEMMA RestingScan ==
  /\ scan' = C!Resting => Blank("nothing", 0)
  /\ scan' = [C!Resting EXCEPT !.on = "checked"] => Blank("checked", 0)
  /\ scan' = [C!Resting EXCEPT !.on = "backfill_sent", !.page = 1] => Blank("backfill_sent", 1)
  /\ scan' = [C!Resting EXCEPT !.on = "backfill_received", !.page = 1] => Blank("backfill_received", 1)
<1>. QED
  BY DEF C!Resting, Blank

\* The steps after which nothing is being listed.
LEMMA HourKeeps ==
  ASSUME ScanInv, Bounded', mishaps' \in {mishaps, mishaps + 1}, C!Hour
  PROVE  ScanInv'
<1>1. scan.on # "poll" /\ Blank("nothing", 0)
  BY RestingScan, RestingIs DEF C!Hour
<1>2. Switches' /\ UNCHANGED <<watermark, folder, taken, pushed, since>>
  BY ScanHyp DEF C!Hour, Switches, C!mail, C!history
<1>. QED
  BY <1>1, <1>2, BlankKeeps

LEMMA ReceiveKeeps ==
  ASSUME ScanInv, Bounded', mishaps' \in {mishaps, mishaps + 1}, C!Receive
  PROVE  ScanInv'
<1>1. scan.on # "poll" /\ Blank("nothing", 0)
  BY RestingScan, RestingIs DEF C!Receive
<1>2. UNCHANGED <<watermark, folder, taken, pushed, since, backfilled, pollDue, enriched>> /\ inbox' = Append(inbox, From[Len(inbox) + 1])
  BY DEF C!Receive, C!state, C!history
<1>3. inbox \in Seq(Handles) /\ enriched \in 0 .. Len(inbox) /\ Len(inbox) + 1 \in 1 .. Len(From)
  BY ScanHyp, ContactsAre DEF C!Receive, Switches
<1>4. From[Len(inbox) + 1] \in Handles
  BY <1>3, ContactsAre, ElementOf
<1>5. inbox' \in Seq(Handles) /\ Len(inbox') = Len(inbox) + 1
  BY <1>2, <1>3, <1>4
<1>6. Switches'
  BY <1>2, <1>3, <1>5, ScanHyp DEF Switches
<1>. QED
  BY <1>1, <1>2, <1>6, BlankKeeps

LEMMA StartBackfillKeeps ==
  ASSUME ScanInv, Bounded', mishaps' \in {mishaps, mishaps + 1}, C!StartBackfill
  PROVE  ScanInv'
<1>1. scan.on # "poll" /\ (Blank("backfill_sent", 1) \/ Blank("backfill_received", 1))
  BY RestingScan, RestingIs DEF C!StartBackfill
<1>2. Switches' /\ UNCHANGED <<watermark, folder, taken, pushed, since>>
  BY ScanHyp DEF C!StartBackfill, Switches, C!mail, C!history, C!state
<1>. QED
  BY <1>1, <1>2, BlankKeeps

LEMMA EndBackfillKeeps ==
  ASSUME ScanInv, Bounded', mishaps' \in {mishaps, mishaps + 1}, C!EndBackfill
  PROVE  ScanInv'
<1>1. scan.on # "poll" /\ (Blank("backfill_received", 1) \/ Blank("checked", 0) \/ Blank("nothing", 0))
  BY RestingScan DEF C!EndBackfill
<1>2. Switches' /\ UNCHANGED <<watermark, folder, taken, pushed, since>>
  BY ScanHyp DEF C!EndBackfill, Switches, C!mail, C!history
<1>. QED
  BY <1>1, <1>2, BlankKeeps

LEMMA EndSignalsKeeps ==
  ASSUME ScanInv, Bounded', mishaps' \in {mishaps, mishaps + 1}, C!EndSignals
  PROVE  ScanInv'
<1>1. scan.on # "poll" /\ Blank("nothing", 0)
  BY RestingScan DEF C!EndSignals
<1>2. Switches' /\ UNCHANGED <<watermark, folder, taken, pushed, since>>
  <2>1. UNCHANGED <<watermark, folder, taken, pushed, since, inbox, backfilled, pollDue>> /\ enriched' \in {enriched, Len(inbox)}
    BY DEF C!EndSignals, C!history, C!state
  <2>2. Len(inbox) \in 0 .. Len(inbox)
    BY ScanHyp DEF Switches
  <2>. QED
    BY <2>1, <2>2, ScanHyp DEF Switches
<1>. QED
  BY <1>1, <1>2, BlankKeeps

\* A scan that goes on, and is no poll.
LEMMA OnKeeps ==
  ASSUME ScanInv, Bounded', mishaps' \in {mishaps, mishaps + 1}, scan.on # "poll",
         UNCHANGED <<watermark, folder, taken, pushed, since, backfilled, pollDue, enriched, inbox>>,
         NEW page_ \in Nat, page_ >= scan.page, NEW rest_ \in Seq(Nat), NEW last_ \in BOOLEAN, NEW high_ \in C!Second,
         scan.high <= high_, high_ <= Clock,
         scan' = [scan EXCEPT !.page = page_, !.rest = rest_, !.last = last_, !.high = high_],
         \A i \in 1 .. Len(rest_) : rest_[i] \in 1 .. Listed
  PROVE  ScanInv'
<1>1. ScanTypes /\ MailInv /\ Switches /\ scan \in ScanType
  BY ScanHyp
<1>2. /\ scan' \in ScanType /\ scan'.on = scan.on /\ scan'.page = page_ /\ scan'.rest = rest_ /\ scan'.low = scan.low
      /\ scan'.high = high_
  BY <1>1 DEF ScanType
<1>3. Clock' = Clock /\ Listed' = Listed
  BY <1>2 DEF Clock, C!Clock, Listed
<1>4. scan.low <= scan.high /\ (scan.on \in {"backfill_sent", "backfill_received", "poll"} => scan.page >= 1)
  BY <1>1 DEF MailInv
<1>5. OnList'
  BY <1>2, <1>3 DEF OnList
<1>6. scan'.low <= scan'.high
  BY <1>1, <1>2, <1>4, ContactsAre, SMTT(30) DEF ScanType
<1>7. scan'.page >= 1 \/ scan'.on \notin {"backfill_sent", "backfill_received", "poll"}
  BY <1>1, <1>2, <1>4 DEF ScanType
<1>8. Off'
  BY <1>1, <1>2, <1>3, <1>5, <1>6, <1>7 DEF Off, Switches
<1>9. mishaps' \in 0 .. Mishaps /\ tracks' \in 0 .. MaxTracks /\ backfilled' \in BOOLEAN /\ pollDue' \in BOOLEAN
  BY <1>1 DEF Bounded, Switches
<1>. QED
  BY <1>8, <1>9, OffKeeps

\* What is left of a page is of the list.
LEMMA RestHere ==
  ASSUME ScanInv, scan.rest # <<>>
  PROVE  /\ scan.rest \in Seq(Nat) /\ Len(scan.rest) \in Nat /\ Len(scan.rest) >= 1 /\ Head(scan.rest) = scan.rest[1]
         /\ Head(scan.rest) \in 1 .. Listed
         /\ Tail(scan.rest) \in Seq(Nat) /\ Len(Tail(scan.rest)) = Len(scan.rest) - 1
         /\ \A i \in 1 .. Len(scan.rest) - 1 : Tail(scan.rest)[i] = scan.rest[i + 1]
         /\ \A i \in 1 .. Len(Tail(scan.rest)) : Tail(scan.rest)[i] \in 1 .. Listed
<1>1. scan.rest \in Seq(Nat) /\ \A i \in 1 .. Len(scan.rest) : scan.rest[i] \in 1 .. Listed
  BY ScanIs DEF ScanInv, MailInv
<1>. DEFINE r == scan.rest
<1>2. r \in Seq(Nat) /\ r # <<>>
  BY <1>1
<1>. HIDE DEF r
<1>3. /\ Tail(r) \in Seq(Nat) /\ Len(Tail(r)) = Len(r) - 1 /\ Len(r) \in Nat /\ Len(r) >= 1 /\ Head(r) = r[1]
      /\ \A i \in 1 .. Len(r) - 1 : Tail(r)[i] = r[i + 1]
  BY <1>2, TailIs
<1>4. /\ Tail(scan.rest) \in Seq(Nat) /\ Len(Tail(scan.rest)) = Len(scan.rest) - 1 /\ Len(scan.rest) \in Nat
      /\ Len(scan.rest) >= 1 /\ Head(scan.rest) = scan.rest[1]
      /\ \A i \in 1 .. Len(scan.rest) - 1 : Tail(scan.rest)[i] = scan.rest[i + 1]
  BY <1>3 DEF r
<1>. QED
  BY <1>1, <1>4

LEMMA StartSignalsKeeps ==
  ASSUME ScanInv, Bounded', mishaps' \in {mishaps, mishaps + 1}, C!StartSignals
  PROVE  ScanInv'
<1>. DEFINE q == [i \in 1 .. Len(inbox) - enriched |-> enriched + i]
<1>1. ScanTypes /\ MailInv /\ Switches /\ UNCHANGED <<watermark, folder, taken, pushed, since, backfilled, pollDue, enriched, inbox>>
  BY ScanHyp DEF C!StartSignals, C!history, C!state, C!mail
<1>2. scan.on # "poll" /\ Anew("signals", 0, q)
  BY RestingIs DEF C!StartSignals, Anew, C!Resting
<1>3. enriched \in Nat /\ Len(inbox) \in Nat /\ enriched <= Len(inbox)
  BY <1>1 DEF Switches
<1>4. q \in Seq(Nat) /\ Len(q) = Len(inbox) - enriched /\ \A i \in 1 .. Len(q) : q[i] \in 1 .. Len(inbox)
  BY <1>3
<1>. HIDE DEF q
<1>5. "signals" \in C!Scans /\ scan'.on = "signals" /\ scan'.rest = q
  BY <1>2 DEF C!Scans, Anew
<1>6. OnList'
  BY <1>1, <1>4, <1>5 DEF OnList, Listed
<1>7. Switches'
  BY <1>1 DEF Switches
<1>8. Off'
  <2>1. enriched' \in 0 .. Len(inbox') /\ inbox' \in Seq(Handles) /\ UNCHANGED folder
    BY <1>1, <1>7 DEF Switches
  <2>2. "signals" \in C!Scans /\ "signals" # "poll" /\ 0 \in Nat /\ "signals" \notin {"backfill_sent", "backfill_received", "poll"}
    BY <1>5
  <2>. QED
    BY <1>1, <1>2, <1>4, <1>6, <2>1, <2>2, AnewOff
<1>9. mishaps' \in 0 .. Mishaps /\ tracks' \in 0 .. MaxTracks /\ backfilled' \in BOOLEAN /\ pollDue' \in BOOLEAN
  BY <1>7 DEF Bounded, Switches
<1>. QED
  BY <1>1, <1>2, <1>8, <1>9, OffKeeps

LEMMA TakeKeeps ==
  ASSUME ScanInv, Bounded', mishaps' \in {mishaps, mishaps + 1}, C!TakeReceived \/ C!TakeSignal
  PROVE  ScanInv'
<1>1. /\ UNCHANGED <<watermark, folder, taken, pushed, since, backfilled, pollDue, enriched, inbox>>
      /\ scan.rest # <<>> /\ scan.on # "poll" /\ scan' = [scan EXCEPT !.rest = Tail(scan.rest)]
  BY DEF C!TakeReceived, C!TakeSignal, C!state, C!mail
<1>2. scan \in ScanType /\ scan.high <= Clock /\ ScanTypes
  BY ScanHyp DEF MailInv
<1>3. scan.page \in Nat /\ scan.high \in C!Second /\ scan.last \in BOOLEAN /\ scan.page >= scan.page /\ scan.high <= scan.high
  BY <1>2, ScanIs, ContactsAre
<1>4. scan' = [scan EXCEPT !.page = scan.page, !.rest = Tail(scan.rest), !.last = scan.last, !.high = scan.high]
  BY <1>1, <1>2 DEF ScanType
<1>5. Tail(scan.rest) \in Seq(Nat) /\ \A i \in 1 .. Len(Tail(scan.rest)) : Tail(scan.rest)[i] \in 1 .. Listed
  BY <1>1, RestHere
<1>. QED
  BY <1>1, <1>2, <1>3, <1>4, <1>5, OnKeeps, ZenonT(40)

LEMMA HighIs ==
  ASSUME ScanInv, NEW m \in 1 .. Len(folder)
  PROVE  /\ C!Max({scan.high, folder[m].at}) = IF folder[m].at > scan.high THEN folder[m].at ELSE scan.high
         /\ C!Max({scan.high, folder[m].at}) \in C!Second
         /\ scan.high <= C!Max({scan.high, folder[m].at}) /\ C!Max({scan.high, folder[m].at}) <= Clock
         /\ folder[m].at <= C!Max({scan.high, folder[m].at})
<1>1. ScanTypes /\ MailInv /\ scan.high <= Clock
  BY ScanHyp DEF MailInv
<1>2. folder[m].at \in C!Second /\ folder[m].at \in Nat /\ scan.high \in C!Second /\ scan.high \in Nat /\ folder[m].at <= Clock /\ Clock \in Nat
  BY <1>1, ScanIs, FolderIs, ClockIs
<1>3. C!Max({scan.high, folder[m].at}) = IF folder[m].at > scan.high THEN folder[m].at ELSE scan.high
  <2>1. scan.high \in Int /\ folder[m].at \in Int
    BY <1>2
  <2>. QED
    BY <2>1, MinMaxIs, Zenon
<1>. QED
  BY <1>1, <1>2, <1>3

\* What TakeSent does.
LEMMA TakeSentIs ==
  ASSUME ScanInv, C!TakeSent
  PROVE  /\ UNCHANGED <<watermark, folder, pushed, since, backfilled, pollDue, enriched, inbox>>
         /\ scan.rest # <<>> /\ scan.on \in {"backfill_sent", "poll"}
         /\ scan.rest[1] \in 1 .. Len(folder)
         /\ LET m == scan.rest[1]
                h == C!Max({scan.high, folder[m].at})
            IN  \/ /\ scan.on = "poll" /\ folder[m].at <= scan.low /\ UNCHANGED <<taken, mishaps>>
                   /\ scan' = [scan EXCEPT !.rest = <<>>, !.last = TRUE]
                \/ /\ scan.on = "poll" => ~ folder[m].at <= scan.low
                   /\ scan' = [scan EXCEPT !.rest = Tail(scan.rest), !.high = h]
                   /\ taken' = IF scan.on = "poll" THEN [taken EXCEPT ![m] = taken[m] + 1] ELSE taken
<1>1. scan.rest # <<>> /\ scan.on \in {"backfill_sent", "poll"}
  BY DEF C!TakeSent, C!Listing
<1>2. Head(scan.rest) = scan.rest[1] /\ scan.rest[1] \in 1 .. Listed
  BY <1>1, RestHere
<1>3. scan.rest[1] \in 1 .. Len(folder)
  BY <1>1, <1>2 DEF Listed
<1>4. UNCHANGED <<watermark, folder, pushed, since, backfilled, pollDue, enriched, inbox>>
  BY DEF C!TakeSent, C!state, C!mail
<1>5. LET m == scan.rest[1]
          h == C!Max({scan.high, folder[m].at})
      IN  \/ /\ scan.on = "poll" /\ folder[m].at <= scan.low /\ UNCHANGED <<taken, mishaps>>
             /\ scan' = [scan EXCEPT !.rest = <<>>, !.last = TRUE]
          \/ /\ scan.on = "poll" => ~ folder[m].at <= scan.low
             /\ scan' = [scan EXCEPT !.rest = Tail(scan.rest), !.high = h]
             /\ taken' = IF scan.on = "poll" THEN [taken EXCEPT ![m] = taken[m] + 1] ELSE taken
  <2>1. CASE C!Reached(scan.rest[1])
    BY <1>2, <2>1 DEF C!TakeSent, C!Reached, C!NoFault
  <2>2. CASE ~ C!Reached(scan.rest[1])
    BY <1>2, <2>2 DEF C!TakeSent, C!Reached
  <2>. QED
    BY <2>1, <2>2
<1>. QED
  BY <1>1, <1>3, <1>4, <1>5

LEMMA BackfillSentKeeps ==
  ASSUME ScanInv, Bounded', mishaps' \in {mishaps, mishaps + 1}, C!TakeSent, scan.on # "poll"
  PROVE  ScanInv'
<1>. DEFINE m == scan.rest[1]
            h == C!Max({scan.high, folder[m].at})
<1>1. /\ UNCHANGED <<watermark, folder, taken, pushed, since, backfilled, pollDue, enriched, inbox>>
      /\ scan.rest # <<>> /\ m \in 1 .. Len(folder) /\ scan' = [scan EXCEPT !.rest = Tail(scan.rest), !.high = h]
  BY TakeSentIs
<1>2. scan \in ScanType /\ ScanTypes
  BY ScanHyp
<1>3. h \in C!Second /\ scan.high <= h /\ h <= Clock
  BY <1>1, HighIs
<1>4. scan.page \in Nat /\ scan.last \in BOOLEAN /\ scan.page >= scan.page
  BY <1>2, ScanIs
<1>. HIDE DEF h, m
<1>5. scan' = [scan EXCEPT !.page = scan.page, !.rest = Tail(scan.rest), !.last = scan.last, !.high = h]
  BY <1>1, <1>2 DEF ScanType
<1>6. Tail(scan.rest) \in Seq(Nat) /\ \A i \in 1 .. Len(Tail(scan.rest)) : Tail(scan.rest)[i] \in 1 .. Listed
  BY <1>1, RestHere
<1>. QED
  BY <1>1, <1>3, <1>4, <1>5, <1>6, OnKeeps

\* What NextPage does.
LEMMA NextPageIs ==
  ASSUME ScanInv, C!NextPage
  PROVE  /\ UNCHANGED <<watermark, folder, taken, pushed, since, backfilled, pollDue, enriched, inbox>>
         /\ scan.rest = <<>> /\ ~ scan.last /\ scan.on \in {"backfill_sent", "backfill_received", "poll"} /\ scan.page >= 1
         /\ \E q \in {<<>>, C!Page(Listed, scan.page)} :
              /\ q # C!Page(Listed, scan.page) => mishaps' = mishaps + 1
              /\ scan' = [scan EXCEPT !.rest = q, !.page = scan.page + 1, !.last = Len(q) < PageSize]
<1>1. scan.rest = <<>> /\ ~ scan.last /\ scan.on \in {"backfill_sent", "backfill_received", "poll"}
  BY DEF C!NextPage, C!Listing
<1>2. UNCHANGED <<watermark, folder, taken, pushed, since, backfilled, pollDue, enriched, inbox>>
  BY DEF C!NextPage, C!state, C!mail, C!history
<1>3. Listed = IF scan.on = "backfill_received" THEN Len(inbox) ELSE Len(folder)
  BY <1>1 DEF Listed
<1>4. \E q \in {<<>>, C!Page(Listed, scan.page)} :
        /\ q # C!Page(Listed, scan.page) => mishaps' = mishaps + 1
        /\ scan' = [scan EXCEPT !.rest = q, !.page = scan.page + 1, !.last = Len(q) < PageSize]
  BY <1>3 DEF C!NextPage, C!Fault
<1>. QED
  BY <1>1, <1>2, <1>4, ScanHyp DEF MailInv

LEMMA BackfillPageKeeps ==
  ASSUME ScanInv, Bounded', mishaps' \in {mishaps, mishaps + 1}, C!NextPage, scan.on # "poll"
  PROVE  ScanInv'
<1>1. /\ UNCHANGED <<watermark, folder, taken, pushed, since, backfilled, pollDue, enriched, inbox>> /\ scan.page >= 1
      /\ \E q \in {<<>>, C!Page(Listed, scan.page)} :
              scan' = [scan EXCEPT !.rest = q, !.page = scan.page + 1, !.last = Len(q) < PageSize]
  BY NextPageIs
<1>2. scan \in ScanType /\ scan.high <= Clock /\ ScanTypes
  BY ScanHyp DEF MailInv
<1>3. scan.page \in Nat /\ Listed \in Nat /\ scan.high \in C!Second /\ scan.high \in Nat
  BY <1>2, ScanIs DEF Listed
<1>. DEFINE n == Listed
            p == scan.page
<1>4. C!Page(n, p) \in Seq(Nat) /\ \A i \in 1 .. Len(C!Page(n, p)) : C!Page(n, p)[i] \in 1 .. n
  <2>1. n \in Nat /\ p \in Nat /\ p >= 1
    BY <1>1, <1>3
  <2>. HIDE DEF n, p
  <2>. QED
    BY <2>1, PageIs
<1>5. PICK q \in {<<>>, C!Page(Listed, scan.page)} :
        scan' = [scan EXCEPT !.rest = q, !.page = scan.page + 1, !.last = Len(q) < PageSize]
  BY <1>1
<1>6. q \in Seq(Nat) /\ \A i \in 1 .. Len(q) : q[i] \in 1 .. Listed
  <2>1. CASE q = C!Page(n, p)
    BY <1>4, <2>1
  <2>2. CASE q = <<>>
    BY <2>2, Empty
  <2>. QED
    BY <1>5, <2>1, <2>2
<1>7. scan' = [scan EXCEPT !.page = scan.page + 1, !.rest = q, !.last = Len(q) < PageSize, !.high = scan.high]
  BY <1>2, <1>5 DEF ScanType
<1>8. scan.page + 1 \in Nat /\ scan.page + 1 >= scan.page /\ (Len(q) < PageSize) \in BOOLEAN /\ scan.high <= scan.high
  BY <1>3
<1>. QED
  BY <1>1, <1>2, <1>3, <1>6, <1>7, <1>8, OnKeeps

\* A poll begins at the watermark, or where it finds none at some second.
LEMMA StartPollKeeps ==
  ASSUME ScanInv, Bounded', mishaps' \in {mishaps, mishaps + 1}, C!StartPoll
  PROVE  ScanInv'
<1>0. ScanTypes /\ MailInv /\ Switches /\ PollInv /\ Clock \in Nat /\ Clock \in C!Second /\ mishaps \in Nat /\ pushed \in Nat
      /\ mishaps' \in 0 .. Mishaps /\ tracks' \in 0 .. MaxTracks /\ watermark \in Int /\ watermark <= Clock
  BY ScanHyp, ClockIs, ScanIs DEF ScanInv, Bounded, MailInv
<1>1. scan.on # "poll" /\ UNCHANGED <<watermark, folder, taken, pushed, since, backfilled, enriched, inbox>>
  BY RestingIs DEF C!StartPoll, C!Checked, C!mail, C!history
<1>2. CASE scan' = C!Resting /\ pollDue' = FALSE
  <2>1. Blank("nothing", 0) /\ Switches'
    BY <1>0, <1>1, <1>2, RestingScan DEF Switches
  <2>. QED
    BY <1>1, <2>1, BlankKeeps
<1>3. ASSUME NEW low \in IF watermark = C!NoMark THEN 0 .. Clock ELSE {watermark}, UNCHANGED pollDue,
             scan' = [C!Resting EXCEPT !.on = "poll", !.page = 1, !.low = low, !.high = low]
      PROVE  ScanInv'
  <2>1. low \in C!Second /\ low <= Clock /\ watermark <= low /\ low \in Nat
    <3>1. Clock <= Len(To) /\ Len(To) \in Nat /\ C!Second = 0 .. Len(To) /\ C!NoMark = -1
      BY <1>0, ContactsAre DEF C!NoMark
    <3>2. CASE watermark = C!NoMark
      BY <1>0, <1>3, <3>1, <3>2
    <3>3. CASE watermark # C!NoMark
      <4>1. watermark \in C!Second /\ low = watermark
        BY <1>0, <1>3, <3>3 DEF ScanTypes
      <4>. QED
        BY <1>0, <3>1, <4>1
    <3>. QED
      BY <3>2, <3>3
  <2>2. scan' = [on |-> "poll", page |-> 1, rest |-> <<>>, low |-> low, high |-> low, last |-> FALSE]
    BY <1>3 DEF C!Resting
  <2>3. scan' \in ScanType /\ scan'.on = "poll" /\ scan'.page = 1 /\ scan'.rest = <<>> /\ scan'.low = low /\ scan'.high = low /\ scan'.last = FALSE
    BY <2>1, <2>2, Empty DEF ScanType, C!Scans
  <2>4. ScanTypes'
    BY <1>0, <1>1, <1>3, <2>3 DEF ScanTypes, ScanType, Switches
  <2>5. MailInv'
    BY <1>0, <1>1, <2>1, <2>3, NoPage, MailStep
  <2>6. RestInv'
    <3>1. Len(scan'.rest) = 0
      BY <2>3
    <3>. QED
      BY <1>1, <2>1, <2>3, <3>1 DEF RestInv
  <2>7. TakenInv'
    <3>1. ASSUME NEW m \in 1 .. Len(folder)
          PROVE  /\ taken[m] \in Nat /\ folder[m].at \in Nat
                 /\ taken[m] <= 1 + pushed + mishaps
                 /\ folder[m].at > watermark => taken[m] <= pushed + mishaps
      <4>1. taken[m] \in Nat /\ folder[m].at \in Nat
        BY <1>0, FolderIs, ElementOf DEF ScanTypes, MailInv
      <4>. QED
        BY <1>0, <1>1, <4>1 DEF PollInv, TakenInv
    <3>2. ASSUME NEW m PROVE AheadOf(m)' = 0 /\ BehindOf(m)' \in {0, 1}
      <4>1. Len(scan'.rest) = 0
        BY <2>3
      <4>. QED
        BY <4>1 DEF AheadOf, Ahead, BehindOf
    <3>. QED
      <4>1. ASSUME NEW m \in 1 .. Len(folder)
            PROVE  taken[m] <= 1 + pushed + mishaps' /\ (folder[m].at > watermark => taken[m] <= pushed + mishaps')
        BY <1>0, <3>1
      <4>2. ASSUME NEW m \in 1 .. Len(folder), folder[m].at > low
            PROVE  taken[m] + AheadOf(m)' + BehindOf(m)' <= 1 + pushed + mishaps'
        <5>1. folder[m].at > watermark
          BY <1>0, <2>1, <3>1, <4>2
        <5>2. taken[m] <= pushed + mishaps' /\ taken[m] \in Nat /\ pushed \in Nat /\ mishaps' \in Nat
          BY <1>0, <3>1, <4>1, <5>1, SMTT(30)
        <5>3. AheadOf(m)' = 0 /\ BehindOf(m)' \in {0, 1}
          BY <3>2
        <5>4. \A a, b : a = 0 /\ b \in {0, 1} => taken[m] + a + b <= 1 + pushed + mishaps'
          BY <5>2
        <5>. QED
          BY <5>3, <5>4, Zenon
      <4>. QED
        BY <1>1, <2>3, <4>1, <4>2 DEF TakenInv
  <2>8. SeenInv'
    <3>1. mishaps' = 0 => C!SentSeen /\ mishaps = 0
      BY <1>0 DEF PollInv, SeenInv
    <3>2. C!SentSeen /\ mishaps' = 0 /\ mishaps = 0 => C!SentSeen'
      BY <1>1 DEF C!SentSeen
    <3>3. watermark' # C!NoMark => scan'.low = watermark'
      BY <1>1, <1>3, <2>3
    <3>4. ASSUME NEW m \in 1 .. Len(folder') PROVE ~ (folder'[m].at > scan'.low /\ folder'[m].at <= scan'.high)
      <4>1. folder'[m].at \in Nat
        BY <1>0, <1>1, FolderIs
      <4>. QED
        BY <2>1, <2>3, <4>1
    <3>. QED
      BY <2>3, <3>1, <3>2, <3>3, <3>4 DEF SeenInv
  <2>. QED
    BY <2>4, <2>5, <2>6, <2>7, <2>8 DEF ScanInv, PollInv
<1>4. \/ scan' = C!Resting /\ pollDue' = FALSE
      \/ \E low \in IF watermark = C!NoMark THEN 0 .. Clock ELSE {watermark} :
           UNCHANGED pollDue /\ scan' = [C!Resting EXCEPT !.on = "poll", !.page = 1, !.low = low, !.high = low]
  BY DEF C!StartPoll, Clock
<1>. QED
  BY <1>2, <1>3, <1>4

\* A service is restarted.
LEMMA CrashScans ==
  ASSUME ScanInv, Bounded', C!Crash
  PROVE  ScanInv'
<1>1. mishaps' = mishaps + 1 /\ mishaps' \in 0 .. Mishaps /\ tracks' \in 0 .. MaxTracks
  BY DEF C!Crash, C!Fault, Bounded
<1>2. UNCHANGED <<backfilled, watermark, pollDue, folder, inbox, enriched, taken, pushed, since>> /\ (scan' = C!Resting \/ UNCHANGED scan)
  BY DEF C!Crash, C!state, C!mail, C!history
<1>3. CASE UNCHANGED scan
  <2>1. UNCHANGED scans
    BY <1>2, <1>3 DEF scans
  <2>. QED
    BY <1>1, <2>1, StillScans
<1>4. CASE scan' = C!Resting
  <2>1. backfilled' \in BOOLEAN /\ pollDue' \in BOOLEAN
    BY <1>2, ScanHyp DEF Switches
  <2>. QED
    BY <1>1, <1>2, <1>4, <2>1, StopKeeps
<1>. QED
  BY <1>2, <1>3, <1>4

-----------------------------------------------------------------------------
(* Polls.                                                                  *)

LEMMA TakenIs ==
  ASSUME ScanInv, NEW m \in 1 .. Len(folder)
  PROVE  /\ taken[m] \in Nat /\ folder[m].at \in Nat /\ AheadOf(m) \in {0, 1} /\ BehindOf(m) \in {0, 1}
         /\ taken[m] <= 1 + pushed + mishaps
         /\ folder[m].at > watermark /\ (scan.on = "poll" => folder[m].at <= scan.low \/ folder[m].at > scan.high) =>
              taken[m] <= pushed + mishaps
         /\ scan.on = "poll" /\ folder[m].at > scan.low =>
              taken[m] + AheadOf(m) + (IF scan.last THEN 0 ELSE BehindOf(m)) <= 1 + pushed + mishaps
<1>1. ScanTypes /\ MailInv /\ TakenInv
  BY DEF ScanInv, PollInv
<1>2. taken[m] \in Nat /\ folder[m].at \in Nat
  BY <1>1, FolderIs, ElementOf DEF ScanTypes, MailInv
<1>. QED
  BY <1>1, <1>2 DEF TakenInv, AheadOf, BehindOf

LEMMA PollIs ==
  ASSUME ScanInv, scan.on = "poll"
  PROVE  /\ scan.low \in Nat /\ scan.high \in Nat /\ scan.page \in Nat /\ scan.page >= 1 /\ Behind \in Int
         /\ watermark \in Int /\ watermark <= scan.low /\ scan.low <= scan.high /\ scan.high <= Clock
         /\ \A i \in 1 .. Len(scan.rest) : scan.rest[i] = scan.rest[1] + 1 - i
<1>1. ScanTypes /\ MailInv /\ RestInv
  BY DEF ScanInv, PollInv
<1>2. scan.page >= 1 /\ scan.low <= scan.high /\ scan.high <= Clock
  BY <1>1 DEF MailInv
<1>3. scan.low \in Nat /\ scan.high \in Nat /\ scan.page \in Nat /\ Len(folder) \in Nat /\ watermark \in Int
  BY <1>1, ScanIs
<1>4. Behind \in Int
  <2>1. Len(folder) \in Nat /\ scan.page \in Nat /\ scan.page >= 1
    BY <1>2, <1>3
  <2>. QED
    BY <2>1, PageIs DEF Behind
<1>. QED
  BY <1>1, <1>2, <1>3, <1>4 DEF RestInv

\* What was seen by now.
LEMMA SeenIs ==
  ASSUME ScanInv, mishaps = 0
  PROVE  /\ C!SentSeen
         /\ scan.on = "poll" =>
              /\ watermark # C!NoMark => scan.low = watermark
              /\ scan.rest # <<>> => IF scan.last THEN scan.rest[Len(scan.rest)] = 1 ELSE Behind >= scan.rest[Len(scan.rest)] - 1
              /\ \A m \in 1 .. Len(folder) :
                   folder[m].at > scan.low /\ folder[m].at <= scan.high /\ Leads(m) => taken[m] > 0 \/ m <= NextOne
<1>. QED
  BY DEF ScanInv, PollInv, SeenInv

\* The next page of a poll: what was behind comes ahead, as far as the page goes.
LEMMA PollPage ==
  ASSUME ScanInv, scan.on = "poll", C!NextPage
  PROVE  /\ UNCHANGED <<watermark, folder, taken, pushed, since, backfilled, pollDue, enriched, inbox>>
         /\ scan.rest = <<>> /\ ~ scan.last
         /\ scan' \in ScanType /\ scan'.on = "poll" /\ scan'.low = scan.low /\ scan'.high = scan.high
         /\ scan'.page = scan.page + 1 /\ scan'.page >= 1
         /\ Behind' = Behind - PageSize
         /\ \A i \in 1 .. Len(scan'.rest) : scan'.rest[i] \in 1 .. Len(folder) /\ scan'.rest[i] = Behind + 1 - i
         /\ Len(scan'.rest) \in Nat /\ Len(scan'.rest) <= PageSize /\ (Behind > 0 => Len(scan'.rest) <= Behind)
         /\ Behind <= 0 => scan'.rest = <<>>
         /\ scan'.last <=> Len(scan'.rest) < PageSize
         /\ mishaps' # mishaps + 1 /\ Behind > 0 =>
              scan'.rest # <<>> /\ Len(scan'.rest) = IF Behind < PageSize THEN Behind ELSE PageSize
<1>1. /\ UNCHANGED <<watermark, folder, taken, pushed, since, backfilled, pollDue, enriched, inbox>>
      /\ scan.rest = <<>> /\ ~ scan.last /\ scan.page >= 1
      /\ \E q \in {<<>>, C!Page(Listed, scan.page)} :
           /\ q # C!Page(Listed, scan.page) => mishaps' = mishaps + 1
           /\ scan' = [scan EXCEPT !.rest = q, !.page = scan.page + 1, !.last = Len(q) < PageSize]
  BY NextPageIs
<1>2. Listed = Len(folder) /\ Len(folder) \in Nat /\ scan.page \in Nat /\ scan \in ScanType /\ PageSize \in Nat /\ PageSize >= 1
  BY ScanHyp, ScanIs, ContactsAre DEF Listed
<1>. DEFINE n == Len(folder)
            p == scan.page
            page == C!Page(n, p)
            b == C!Top(n, p)
<1>3. /\ b \in Int /\ C!Top(n, p + 1) = b - PageSize
      /\ page \in Seq(Nat)
      /\ b <= 0 => page = <<>>
      /\ b > 0 => Len(page) = (IF b < PageSize THEN b ELSE PageSize) /\ Len(page) >= 1
      /\ \A i \in 1 .. Len(page) : page[i] = b + 1 - i /\ page[i] \in 1 .. n
  <2>1. n \in Nat /\ p \in Nat /\ p >= 1
    BY <1>1, <1>2
  <2>. HIDE DEF n, p
  <2>. QED
    BY <2>1, PageIs
<1>4. PICK q \in {<<>>, page} :
           /\ q # page => mishaps' = mishaps + 1
           /\ scan' = [scan EXCEPT !.rest = q, !.page = scan.page + 1, !.last = Len(q) < PageSize]
  BY <1>1, <1>2
<1>5. b = Behind
  BY DEF Behind
<1>. HIDE DEF page, b
<1>6. /\ q \in Seq(Nat) /\ Len(q) \in Nat
      /\ b <= 0 => q = <<>>
      /\ b > 0 => Len(q) <= b
      /\ Len(q) <= PageSize
      /\ \A i \in 1 .. Len(q) : q[i] = b + 1 - i /\ q[i] \in 1 .. n
      /\ mishaps' # mishaps + 1 /\ b > 0 => q # <<>> /\ Len(q) = IF b < PageSize THEN b ELSE PageSize
  <2>0. <<>> \in Seq(Nat) /\ Len(<<>>) = 0
    OBVIOUS
  <2>1. CASE q = <<>>
    <3>1. mishaps' # mishaps + 1 => q = page
      BY <1>4
    <3>2. b > 0 => page # <<>>
      BY <1>3, <2>0
    <3>. QED
      BY <1>2, <1>3, <2>0, <2>1, <3>1, <3>2
  <2>2. CASE q = page
    <3>1. b > 0 => page # <<>>
      BY <1>3, <2>0
    <3>2. Len(page) \in Nat
      BY <1>3
    <3>3. Len(page) <= PageSize /\ (b > 0 => Len(page) <= b)
      <4>1. CASE b > 0
        BY <1>2, <1>3, <3>2, <4>1
      <4>2. CASE ~ b > 0
        BY <1>2, <1>3, <2>0, <4>2
      <4>. QED
        BY <4>1, <4>2
    <3>. QED
      BY <1>3, <2>2, <3>1, <3>2, <3>3
  <2>. QED
    BY <1>4, <2>1, <2>2
<1>7. scan' \in ScanType /\ scan'.on = "poll" /\ scan'.low = scan.low /\ scan'.high = scan.high /\ scan'.page = scan.page + 1
      /\ scan'.rest = q /\ (scan'.last <=> Len(q) < PageSize)
  <2>. DEFINE l == Len(q) < PageSize
  <2>1. l \in BOOLEAN /\ scan.page + 1 \in Nat
    BY <1>2
  <2>2. scan' = [scan EXCEPT !.rest = q, !.page = scan.page + 1, !.last = l]
    BY <1>4
  <2>. HIDE DEF l
  <2>3. scan' \in ScanType /\ scan'.on = "poll" /\ scan'.low = scan.low /\ scan'.high = scan.high /\ scan'.page = scan.page + 1
        /\ scan'.rest = q /\ scan'.last = l
    BY <1>2, <1>6, <2>1, <2>2 DEF ScanType
  <2>. QED
    BY <2>3 DEF l
<1>8. Behind' = b - PageSize
  <2>1. Behind' = C!Top(Len(folder'), scan'.page)
    BY DEF Behind, C!Top
  <2>. QED
    BY <1>1, <1>3, <1>7, <2>1
<1>9. scan'.page >= 1
  BY <1>1, <1>2, <1>7
<1>. QED
  BY <1>1, <1>5, <1>6, <1>7, <1>8, <1>9

\* Types of a scan that is there, in a poll.
LEMMA PollTypes ==
  ASSUME ScanInv, Bounded', scan' \in ScanType, folder' = folder, inbox' = inbox, pushed' \in Nat, taken' \in Seq(Nat),
         UNCHANGED <<backfilled, enriched>>, pollDue' \in BOOLEAN,
         watermark' \in C!Second \cup {C!NoMark}, since' \in C!Second \cup {C!NoMark}
  PROVE  ScanTypes'
<1>1. ScanTypes /\ mishaps' \in 0 .. Mishaps /\ tracks' \in 0 .. MaxTracks
  BY DEF ScanInv, Bounded
<1>. QED
  BY <1>1 DEF ScanTypes, ScanType

LEMMA PollPageKeeps ==
  ASSUME ScanInv, Bounded', mishaps' \in {mishaps, mishaps + 1}, C!NextPage, scan.on = "poll"
  PROVE  ScanInv'
<1>1. /\ UNCHANGED <<watermark, folder, taken, pushed, since, backfilled, pollDue, enriched, inbox>>
      /\ scan.rest = <<>> /\ ~ scan.last
      /\ scan' \in ScanType /\ scan'.on = "poll" /\ scan'.low = scan.low /\ scan'.high = scan.high
      /\ scan'.page = scan.page + 1 /\ scan'.page >= 1
      /\ Behind' = Behind - PageSize
  BY PollPage
<1>2. /\ \A i \in 1 .. Len(scan'.rest) : scan'.rest[i] \in 1 .. Len(folder) /\ scan'.rest[i] = Behind + 1 - i
      /\ Len(scan'.rest) \in Nat /\ Len(scan'.rest) <= PageSize /\ (Behind > 0 => Len(scan'.rest) <= Behind)
      /\ Behind <= 0 => scan'.rest = <<>>
      /\ scan'.last <=> Len(scan'.rest) < PageSize
      /\ mishaps' # mishaps + 1 /\ Behind > 0 =>
           scan'.rest # <<>> /\ Len(scan'.rest) = IF Behind < PageSize THEN Behind ELSE PageSize
  BY PollPage
<1>3. /\ scan.low \in Nat /\ scan.high \in Nat /\ Behind \in Int
      /\ watermark \in Int /\ watermark <= scan.low /\ scan.low <= scan.high /\ scan.high <= Clock
  BY PollIs
<1>4. ScanTypes /\ MailInv /\ Switches /\ mishaps \in Nat /\ pushed \in Nat /\ PageSize \in Nat /\ PageSize >= 1 /\ Len(folder) \in Nat
  BY ScanHyp, ScanIs, ContactsAre
<1>5. ScanTypes'
  <2>1. pushed' \in Nat /\ taken' \in Seq(Nat) /\ pollDue' \in BOOLEAN
        /\ watermark' \in C!Second \cup {C!NoMark} /\ since' \in C!Second \cup {C!NoMark}
    BY <1>1, <1>4 DEF ScanTypes
  <2>. QED
    BY <1>1, <2>1, PollTypes
<1>6. MailInv'
  <2>1. OnList'
    BY <1>1, <1>2 DEF OnList, Listed
  <2>. QED
    BY <1>1, <1>3, <1>4, <2>1, MailStep
<1>7. RestInv'
  <2>1. ASSUME NEW i \in 1 .. Len(scan'.rest) PROVE scan'.rest[i] = scan'.rest[1] + 1 - i
    <3>1. 1 \in 1 .. Len(scan'.rest)
      BY <1>2
    <3>2. scan'.rest[1] = Behind + 1 - 1 /\ scan'.rest[i] = Behind + 1 - i
      BY <1>2, <3>1
    <3>. QED
      BY <1>3, <3>2
  <2>. QED
    BY <1>1, <1>3, <2>1 DEF RestInv
<1>8. TakenInv'
  <2>1. ASSUME NEW m \in 1 .. Len(folder)
        PROVE  AheadOf(m)' + (IF scan'.last THEN 0 ELSE BehindOf(m)') <= BehindOf(m)
    <3>1. AheadOf(m)' = 1 => m <= Behind /\ ~ m <= Behind'
      <4>1. ASSUME NEW i \in 1 .. Len(scan'.rest), scan'.rest[i] = m PROVE m <= Behind /\ ~ m <= Behind'
        <5>1. m = Behind + 1 - i
          BY <1>2, <4>1
        <5>. QED
          BY <1>1, <1>2, <1>3, <1>4, <5>1
      <4>. QED
        BY <4>1 DEF AheadOf, Ahead
    <3>2. m <= Behind' => m <= Behind
      BY <1>1, <1>3, <1>4
    <3>3. AheadOf(m)' \in {0, 1} /\ BehindOf(m)' = (IF m <= Behind' THEN 1 ELSE 0) /\ BehindOf(m) = IF m <= Behind THEN 1 ELSE 0
      BY DEF AheadOf, BehindOf
    <3>. QED
      BY <3>1, <3>2, <3>3
  <2>2. ASSUME NEW m \in 1 .. Len(folder)
        PROVE  /\ taken[m] <= 1 + pushed + mishaps'
               /\ folder[m].at > watermark /\ (folder[m].at <= scan.low \/ folder[m].at > scan.high) =>
                    taken[m] <= pushed + mishaps'
               /\ folder[m].at > scan.low =>
                    taken[m] + AheadOf(m)' + (IF scan'.last THEN 0 ELSE BehindOf(m)') <= 1 + pushed + mishaps'
    <3>0. DEFINE a == AheadOf(m)'
                 b == IF scan'.last THEN 0 ELSE BehindOf(m)'
    <3>1. /\ taken[m] \in Nat /\ AheadOf(m) \in {0, 1} /\ BehindOf(m) \in {0, 1}
          /\ taken[m] <= 1 + pushed + mishaps
          /\ folder[m].at > watermark /\ (folder[m].at <= scan.low \/ folder[m].at > scan.high) => taken[m] <= pushed + mishaps
          /\ folder[m].at > scan.low => taken[m] + AheadOf(m) + BehindOf(m) <= 1 + pushed + mishaps
      BY <1>1, TakenIs
    <3>2. a + b <= BehindOf(m) /\ a \in {0, 1} /\ b \in {0, 1}
      BY <2>1 DEF AheadOf, BehindOf
    <3>. HIDE DEF a, b
    <3>3. /\ taken[m] <= 1 + pushed + mishaps'
          /\ folder[m].at > watermark /\ (folder[m].at <= scan.low \/ folder[m].at > scan.high) => taken[m] <= pushed + mishaps'
          /\ folder[m].at > scan.low => taken[m] + a + b <= 1 + pushed + mishaps'
      <4>1. mishaps' \in Nat /\ mishaps <= mishaps' /\ pushed \in Nat /\ mishaps \in Nat
        BY <1>4
      <4>2. \A x \in {0, 1}, y \in {0, 1} :
              folder[m].at > scan.low /\ x + y <= BehindOf(m) => taken[m] + x + y <= 1 + pushed + mishaps'
        BY <3>1, <4>1, SMTT(30)
      <4>. QED
        BY <3>1, <3>2, <4>1, <4>2, SMTT(30)
    <3>. QED
      BY <3>3 DEF a, b
  <2>. QED
    BY <1>1, <2>2 DEF TakenInv
<1>9. SeenInv'
  <2>. SUFFICES ASSUME mishaps' = 0 PROVE SeenInv'
    BY DEF SeenInv
  <2>1. mishaps = 0 /\ mishaps' # mishaps + 1
    BY <1>4
  <2>2. /\ C!SentSeen
        /\ watermark # C!NoMark => scan.low = watermark
        /\ \A m \in 1 .. Len(folder) :
             folder[m].at > scan.low /\ folder[m].at <= scan.high /\ Leads(m) => taken[m] > 0 \/ m <= NextOne
    BY <1>1, <2>1, SeenIs
  <2>3. C!SentSeen'
    BY <1>1, <2>1, <2>2 DEF C!SentSeen
  <2>4. NextOne = Behind
    BY <1>1 DEF NextOne
  <2>5. ASSUME Behind > 0
        PROVE  /\ scan'.rest # <<>> /\ NextOne' = Behind
               /\ IF scan'.last THEN scan'.rest[Len(scan'.rest)] = 1 ELSE Behind' >= scan'.rest[Len(scan'.rest)] - 1
    <3>1. scan'.rest # <<>> /\ Len(scan'.rest) = (IF Behind < PageSize THEN Behind ELSE PageSize)
      BY <1>2, <2>1, <2>5
    <3>2. 1 \in 1 .. Len(scan'.rest) /\ Len(scan'.rest) \in 1 .. Len(scan'.rest)
      BY <1>2, <1>3, <1>4, <2>5, <3>1
    <3>3. scan'.rest[1] = Behind + 1 - 1 /\ scan'.rest[Len(scan'.rest)] = Behind + 1 - Len(scan'.rest)
      BY <1>2, <3>2
    <3>4. NextOne' = scan'.rest[1]
      BY <3>1 DEF NextOne
    <3>. QED
      BY <1>1, <1>2, <1>3, <1>4, <3>1, <3>3, <3>4
  <2>6. ASSUME NEW m \in 1 .. Len(folder), folder[m].at > scan.low, folder[m].at <= scan.high, Leads(m)
        PROVE  taken[m] > 0 \/ m <= NextOne'
    <3>1. taken[m] > 0 \/ m <= Behind
      BY <2>2, <2>4, <2>6
    <3>. QED
      BY <1>3, <2>5, <3>1
  <2>7. scan'.rest # <<>> => Behind > 0
    BY <1>2, <1>3
  <2>8. \A m : Leads(m)' <=> Leads(m)
    BY <1>1 DEF Leads
  <2>. QED
    BY <1>1, <2>2, <2>3, <2>5, <2>6, <2>7, <2>8 DEF SeenInv
<1>. QED
  BY <1>5, <1>6, <1>7, <1>8, <1>9 DEF ScanInv, PollInv

\* A poll reaches the watermark: nothing of the page is left.
LEMMA ReachedKeeps ==
  ASSUME ScanInv, Bounded', UNCHANGED <<watermark, folder, taken, pushed, since, backfilled, pollDue, enriched, inbox, mishaps>>,
         scan.on = "poll", scan.rest # <<>>, scan.rest[1] \in 1 .. Len(folder), folder[scan.rest[1]].at <= scan.low,
         scan' = [scan EXCEPT !.rest = <<>>, !.last = TRUE]
  PROVE  ScanInv'
<1>1. ScanTypes /\ MailInv /\ Switches /\ mishaps \in Nat /\ pushed \in Nat /\ Len(folder) \in Nat /\ scan \in ScanType
  BY ScanHyp, ScanIs
<1>2. /\ scan' \in ScanType /\ scan'.on = "poll" /\ scan'.low = scan.low /\ scan'.high = scan.high
      /\ scan'.page = scan.page /\ scan'.rest = <<>> /\ scan'.last = TRUE
  BY <1>1, Empty DEF ScanType
<1>3. /\ scan.low \in Nat /\ scan.high \in Nat /\ scan.page >= 1 /\ watermark \in Int /\ watermark <= scan.low
      /\ scan.low <= scan.high /\ scan.high <= Clock
  BY PollIs
<1>4. Len(scan'.rest) = 0
  BY <1>2
<1>5. ScanTypes'
  <2>1. pushed' \in Nat /\ taken' \in Seq(Nat) /\ pollDue' \in BOOLEAN
        /\ watermark' \in C!Second \cup {C!NoMark} /\ since' \in C!Second \cup {C!NoMark}
    BY <1>1 DEF ScanTypes
  <2>. QED
    BY <1>2, <2>1, PollTypes
<1>6. MailInv'
  BY <1>1, <1>2, <1>3, NoPage, MailStep
<1>7. RestInv'
  BY <1>2, <1>3, <1>4 DEF RestInv
<1>8. TakenInv'
  <2>1. ASSUME NEW m \in 1 .. Len(folder)
        PROVE  /\ taken[m] <= 1 + pushed + mishaps
               /\ folder[m].at > watermark /\ (folder[m].at <= scan.low \/ folder[m].at > scan.high) => taken[m] <= pushed + mishaps
               /\ AheadOf(m)' = 0
               /\ folder[m].at > scan.low => taken[m] + 0 + 0 <= 1 + pushed + mishaps
    <3>1. /\ taken[m] \in Nat /\ taken[m] <= 1 + pushed + mishaps
          /\ folder[m].at > watermark /\ (folder[m].at <= scan.low \/ folder[m].at > scan.high) => taken[m] <= pushed + mishaps
      BY TakenIs
    <3>2. AheadOf(m)' = 0
      BY <1>4 DEF AheadOf, Ahead
    <3>. QED
      BY <1>1, <3>1, <3>2
  <2>. QED
    BY <1>2, <2>1 DEF TakenInv
<1>9. SeenInv'
  <2>. SUFFICES ASSUME mishaps = 0 PROVE SeenInv'
    BY DEF SeenInv
  <2>1. /\ C!SentSeen
        /\ watermark # C!NoMark => scan.low = watermark
        /\ \A m \in 1 .. Len(folder) :
             folder[m].at > scan.low /\ folder[m].at <= scan.high /\ Leads(m) => taken[m] > 0 \/ m <= NextOne
    BY SeenIs
  <2>2. C!SentSeen'
    BY <2>1 DEF C!SentSeen
  <2>3. NextOne = scan.rest[1]
    BY DEF NextOne
  <2>4. ASSUME NEW m \in 1 .. Len(folder), folder[m].at > scan.low, folder[m].at <= scan.high, Leads(m)
        PROVE  taken[m] > 0
    <3>1. taken[m] > 0 \/ m <= scan.rest[1]
      BY <2>1, <2>3, <2>4
    <3>2. m <= scan.rest[1] => folder[m].at <= folder[scan.rest[1]].at
      BY <1>1 DEF MailInv
    <3>3. folder[m].at \in Nat /\ folder[scan.rest[1]].at \in Nat
      BY <1>1, FolderIs
    <3>. QED
      BY <1>3, <2>4, <3>1, <3>2, <3>3
  <2>5. \A m : Leads(m)' <=> Leads(m)
    BY DEF Leads
  <2>. QED
    BY <1>2, <2>1, <2>2, <2>4, <2>5 DEF SeenInv
<1>. QED
  BY <1>5, <1>6, <1>7, <1>8, <1>9 DEF ScanInv, PollInv

\* A poll takes a mail.
LEMMA TakenKeeps ==
  ASSUME ScanInv, Bounded', mishaps' \in {mishaps, mishaps + 1},
         UNCHANGED <<watermark, folder, pushed, since, backfilled, pollDue, enriched, inbox>>,
         scan.on = "poll", scan.rest # <<>>, NEW t \in 1 .. Len(folder), t = scan.rest[1], folder[t].at > scan.low,
         NEW h, h = C!Max({scan.high, folder[t].at}),
         scan' = [scan EXCEPT !.rest = Tail(scan.rest), !.high = h], taken' = [taken EXCEPT ![t] = taken[t] + 1]
  PROVE  ScanInv'
<1>1. ScanTypes /\ MailInv /\ Switches /\ mishaps \in Nat /\ pushed \in Nat /\ Len(folder) \in Nat /\ scan \in ScanType
  BY ScanHyp, ScanIs
<1>2. /\ scan.low \in Nat /\ scan.high \in Nat /\ scan.page >= 1 /\ watermark \in Int /\ watermark <= scan.low
      /\ scan.low <= scan.high /\ Behind \in Int
      /\ \A i \in 1 .. Len(scan.rest) : scan.rest[i] = scan.rest[1] + 1 - i
  BY PollIs
<1>3. /\ Tail(scan.rest) \in Seq(Nat) /\ Len(Tail(scan.rest)) = Len(scan.rest) - 1 /\ Len(scan.rest) \in Nat /\ Len(scan.rest) >= 1
      /\ \A i \in 1 .. Len(scan.rest) - 1 : Tail(scan.rest)[i] = scan.rest[i + 1]
      /\ \A i \in 1 .. Len(Tail(scan.rest)) : Tail(scan.rest)[i] \in 1 .. Listed
  BY RestHere
<1>4. /\ h = IF folder[t].at > scan.high THEN folder[t].at ELSE scan.high
      /\ h \in C!Second /\ scan.high <= h /\ h <= Clock /\ folder[t].at <= h
  BY HighIs
<1>h. h \in Nat /\ scan.low <= h
  BY <1>2, <1>4, ContactsAre
<1>5. /\ scan' \in ScanType /\ scan'.on = "poll" /\ scan'.low = scan.low /\ scan'.high = h
      /\ scan'.page = scan.page /\ scan'.rest = Tail(scan.rest) /\ scan'.last = scan.last
  BY <1>1, <1>3, <1>4 DEF ScanType
<1>6. taken \in Seq(Nat) /\ Len(taken) = Len(folder) /\ taken' \in Seq(Nat) /\ Len(taken') = Len(taken)
      /\ \A m \in 1 .. Len(folder) : taken[m] \in Nat /\ taken'[m] = IF m = t THEN taken[m] + 1 ELSE taken[m]
  <2>1. taken \in Seq(Nat) /\ Len(taken) = Len(folder)
    BY <1>1 DEF ScanTypes, MailInv
  <2>2. \A m \in 1 .. Len(folder) : taken[m] \in Nat
    BY <2>1, ElementOf
  <2>. QED
    BY <2>1, <2>2
<1>t. t \in Nat /\ t >= 1 /\ scan.rest[1] = t
  BY <1>1
<1>7. /\ \A i \in 1 .. Len(scan'.rest) : scan'.rest[i] = t - i
      /\ Len(scan'.rest) = Len(scan.rest) - 1 /\ Len(scan'.rest) \in Nat
  <2>1. ASSUME NEW i \in 1 .. Len(scan.rest) - 1 PROVE Tail(scan.rest)[i] = t - i
    <3>1. i + 1 \in 1 .. Len(scan.rest) /\ i \in Nat
      BY <1>3, SMTT(30)
    <3>2. Tail(scan.rest)[i] = scan.rest[i + 1] /\ scan.rest[i + 1] = t + 1 - (i + 1)
      BY <1>2, <1>3, <1>t, <3>1
    <3>3. \A x, y \in Nat : x + 1 - (y + 1) = x - y
      BY SMT
    <3>. QED
      BY <1>t, <3>1, <3>2, <3>3, Zenon
  <2>. QED
    BY <1>3, <1>5, <2>1
<1>8. ScanTypes'
  <2>1. pushed' \in Nat /\ pollDue' \in BOOLEAN /\ watermark' \in C!Second \cup {C!NoMark} /\ since' \in C!Second \cup {C!NoMark}
    BY <1>1 DEF ScanTypes
  <2>. QED
    BY <1>5, <1>6, <2>1, PollTypes
<1>9. MailInv'
  <2>1. OnList'
    BY <1>3, <1>5 DEF OnList, Listed
  <2>2. Clock' = Clock
    BY DEF Clock, C!Clock
  <2>. QED
    BY <1>1, <1>2, <1>4, <1>h, <1>5, <1>6, <2>1, <2>2 DEF MailInv, OnList
<1>10. RestInv'
  <2>1. ASSUME NEW i \in 1 .. Len(scan'.rest) PROVE scan'.rest[i] = scan'.rest[1] + 1 - i
    <3>1. 1 \in 1 .. Len(scan'.rest)
      BY <1>3, <1>7
    <3>2. scan'.rest[1] = t - 1 /\ scan'.rest[i] = t - i
      BY <1>7, <3>1, Zenon
    <3>3. i \in Nat
      BY <1>7
    <3>. QED
      BY <1>t, <3>2, <3>3, SMTT(30)
  <2>. QED
    BY <1>2, <1>5, <2>1 DEF RestInv
<1>11. Behind' = Behind
  BY <1>5 DEF Behind, C!Top
<1>12. TakenInv'
  <2>1. ASSUME NEW m \in 1 .. Len(folder)
        PROVE  /\ taken[m] \in Nat /\ folder[m].at \in Nat /\ AheadOf(m) \in {0, 1} /\ BehindOf(m) \in {0, 1}
               /\ taken[m] <= 1 + pushed + mishaps
               /\ folder[m].at > watermark /\ (folder[m].at <= scan.low \/ folder[m].at > scan.high) => taken[m] <= pushed + mishaps
               /\ folder[m].at > scan.low =>
                    taken[m] + AheadOf(m) + (IF scan.last THEN 0 ELSE BehindOf(m)) <= 1 + pushed + mishaps
    BY TakenIs
  <2>2. ASSUME NEW m \in 1 .. Len(folder)
        PROVE  BehindOf(m)' = BehindOf(m) /\ AheadOf(m)' \in {0, 1} /\ (AheadOf(m)' = 1 => m < t /\ AheadOf(m) = 1)
    <3>1. BehindOf(m)' = BehindOf(m)
      BY <1>11 DEF BehindOf
    <3>2. ASSUME NEW i \in 1 .. Len(scan'.rest), scan'.rest[i] = m PROVE m < t /\ AheadOf(m) = 1
      <4>0. m = t - i
        BY <1>7, <3>2, Zenon
      <4>1. i + 1 \in 1 .. Len(scan.rest) /\ i \in Nat /\ i >= 1
        <5>1. \A n, k \in Nat : k = n - 1 => \A j \in 1 .. k : j + 1 \in 1 .. n /\ j \in Nat /\ j >= 1
          BY SMT
        <5>. QED
          BY <1>3, <1>7, <5>1, Zenon
      <4>2. scan.rest[i + 1] = t + 1 - (i + 1)
        BY <1>2, <1>t, <4>1
      <4>3. scan.rest[i + 1] = m /\ m < t
        BY <1>t, <4>0, <4>1, <4>2, SMTT(30)
      <4>. QED
        BY <4>1, <4>3 DEF AheadOf, Ahead
    <3>. QED
      BY <3>1, <3>2 DEF AheadOf, Ahead
  <2>3. AheadOf(t) = 1 /\ AheadOf(t)' = 0
    <3>1. 1 \in 1 .. Len(scan.rest) /\ scan.rest[1] = t
      BY <1>3
    <3>2. AheadOf(t) = 1
      BY <3>1 DEF AheadOf, Ahead
    <3>3. AheadOf(t)' # 1
      BY <2>2
    <3>. QED
      BY <2>2, <3>2, <3>3
  <2>4. mishaps' \in Nat /\ mishaps <= mishaps'
    BY <1>1
  <2>5. ASSUME NEW m \in 1 .. Len(folder)
        PROVE  /\ taken'[m] <= 1 + pushed + mishaps'
               /\ folder[m].at > watermark /\ (folder[m].at <= scan.low \/ folder[m].at > h) => taken'[m] <= pushed + mishaps'
               /\ folder[m].at > scan.low =>
                    taken'[m] + AheadOf(m)' + (IF scan.last THEN 0 ELSE BehindOf(m)') <= 1 + pushed + mishaps'
    <3>. DEFINE b == IF scan.last THEN 0 ELSE BehindOf(m)
                a == AheadOf(m)'
    <3>0. b \in {0, 1} /\ a \in {0, 1} /\ (IF scan.last THEN 0 ELSE BehindOf(m)') = b
      BY <2>1, <2>2
    <3>1. folder[m].at > scan.low => taken[m] + AheadOf(m) + b <= 1 + pushed + mishaps
      BY <2>1
    <3>2. (m = t => AheadOf(m) = 1 /\ a = 0) /\ (a = 1 => AheadOf(m) = 1)
      BY <2>2, <2>3
    <3>3. (m = t => ~ folder[m].at <= scan.low /\ ~ folder[m].at > h) /\ (folder[m].at > h => folder[m].at > scan.high)
      BY <1>2, <1>4, <1>h, <2>1, SMTT(30)
    <3>4. taken'[m] = IF m = t THEN taken[m] + 1 ELSE taken[m]
      BY <1>6
    <3>. HIDE DEF a, b
    <3>5. CASE m = t
      <4>1. folder[m].at > scan.low /\ taken'[m] = taken[m] + 1 /\ AheadOf(m) = 1 /\ a = 0
        BY <3>2, <3>4, <3>5
      <4>2. taken[m] + 1 + b <= 1 + pushed + mishaps
        BY <3>1, <4>1
      <4>3. taken'[m] <= 1 + pushed + mishaps' /\ taken'[m] + 0 + b <= 1 + pushed + mishaps'
        BY <1>1, <2>1, <2>4, <3>0, <4>1, <4>2, SMTT(30)
      <4>. QED
        BY <3>0, <3>3, <3>5, <4>1, <4>3 DEF a
    <3>6. CASE m # t
      <4>1. taken'[m] = taken[m]
        BY <3>4, <3>6
      <4>2. taken[m] <= 1 + pushed + mishaps' /\ (folder[m].at > watermark /\ (folder[m].at <= scan.low \/ folder[m].at > h) => taken[m] <= pushed + mishaps')
        BY <1>1, <2>1, <2>4, <3>3
      <4>3. folder[m].at > scan.low => taken[m] + a + b <= 1 + pushed + mishaps'
        <5>1. \A x \in {0, 1}, y \in {0, 1} :
                taken[m] + AheadOf(m) + y <= 1 + pushed + mishaps /\ (x = 1 => AheadOf(m) = 1) => taken[m] + x + y <= 1 + pushed + mishaps'
          BY <1>1, <2>1, <2>4
        <5>. QED
          BY <3>0, <3>1, <3>2, <5>1
      <4>. QED
        BY <3>0, <4>1, <4>2, <4>3 DEF a
    <3>. QED
      BY <3>5, <3>6
  <2>. QED
    BY <1>5, <2>5 DEF TakenInv
<1>13. SeenInv'
  <2>. SUFFICES ASSUME mishaps' = 0 PROVE SeenInv'
    BY DEF SeenInv
  <2>0. mishaps = 0
    BY <1>1
  <2>1. /\ C!SentSeen
        /\ watermark # C!NoMark => scan.low = watermark
        /\ IF scan.last THEN scan.rest[Len(scan.rest)] = 1 ELSE Behind >= scan.rest[Len(scan.rest)] - 1
        /\ \A m \in 1 .. Len(folder) :
             folder[m].at > scan.low /\ folder[m].at <= scan.high /\ Leads(m) => taken[m] > 0 \/ m <= NextOne
    BY <2>0, SeenIs
  <2>2. \A m \in 1 .. Len(folder) : taken[m] > 0 => taken'[m] > 0
    BY <1>6
  <2>3. C!SentSeen'
    BY <2>0, <2>1, <2>2 DEF C!SentSeen
  <2>4. NextOne = t
    BY DEF NextOne
  <2>5. scan'.rest # <<>> => scan'.rest[Len(scan'.rest)] = scan.rest[Len(scan.rest)]
    <3>. SUFFICES ASSUME scan'.rest # <<>> PROVE scan'.rest[Len(scan'.rest)] = scan.rest[Len(scan.rest)]
      OBVIOUS
    <3>1. Len(scan'.rest) \in Nat /\ Len(scan'.rest) >= 1
      BY <1>3, <1>5
    <3>2. Len(scan'.rest) \in 1 .. Len(scan'.rest) /\ Len(scan.rest) \in 1 .. Len(scan.rest)
      BY <1>3, <3>1
    <3>3. scan'.rest[Len(scan'.rest)] = t - Len(scan'.rest) /\ scan.rest[Len(scan.rest)] = t + 1 - Len(scan.rest)
      BY <1>2, <1>t, <1>7, <3>2
    <3>4. Len(scan'.rest) = Len(scan.rest) - 1 /\ Len(scan.rest) \in Nat
      BY <1>3, <1>7
    <3>5. \A x, y, z \in Nat : y = z - 1 => x - y = x + 1 - z
      BY SMT
    <3>. QED
      BY <1>t, <3>1, <3>3, <3>4, <3>5, Zenon
  <2>6. NextOne' \in Int /\ NextOne' >= t - 1
    <3>1. CASE scan'.rest # <<>>
      <4>1. 1 \in 1 .. Len(scan'.rest)
        BY <1>3, <1>5, <3>1
      <4>2. scan'.rest[1] = t - 1
        BY <1>7, <4>1
      <4>3. NextOne' = scan'.rest[1]
        BY <3>1 DEF NextOne
      <4>. QED
        BY <1>t, <4>2, <4>3
    <3>2. CASE scan'.rest = <<>>
      <4>1. Len(scan.rest) = 1
        <5>1. Len(scan'.rest) = 0
          BY <3>2
        <5>. QED
          BY <1>3, <1>7, <5>1
      <4>2. IF scan.last THEN t = 1 ELSE Behind >= t - 1
        BY <1>t, <2>1, <4>1
      <4>3. NextOne' = IF scan.last THEN 0 ELSE Behind
        BY <1>5, <1>11, <3>2 DEF NextOne
      <4>. QED
        BY <1>t, <1>2, <4>2, <4>3
    <3>. QED
      BY <3>1, <3>2
  <2>7. ASSUME NEW m \in 1 .. Len(folder), folder[m].at > scan.low, folder[m].at <= h, Leads(m)
        PROVE  taken'[m] > 0 \/ m <= NextOne'
    <3>0. folder[m].at \in Nat /\ folder[t].at \in Nat /\ m \in Nat /\ t \in Nat
      BY <1>1, FolderIs
    <3>1. CASE m = t
      BY <1>6, <3>1
    <3>2. CASE m < t
      BY <2>6, <3>0, <3>2
    <3>3. CASE m > t /\ folder[m].at <= scan.high
      <4>1. taken[m] > 0 \/ m <= t
        BY <2>1, <2>4, <2>7, <3>3
      <4>. QED
        BY <2>2, <3>0, <3>3, <4>1
    <3>4. CASE m > t /\ ~ folder[m].at <= scan.high
      <4>1. h = folder[t].at
        BY <1>2, <1>4, <2>7, <3>0, <3>4
      <4>2. m - 1 \in 1 .. Len(folder) /\ t <= m - 1 /\ m # 1
        BY <1>1, <3>0, <3>4
      <4>3. folder[t].at <= folder[m - 1].at
        BY <1>1, <4>2 DEF MailInv
      <4>4. folder[m - 1].at < folder[m].at /\ folder[m - 1].at \in Nat
        BY <1>1, <2>7, <4>2, FolderIs DEF Leads
      <4>. QED
        <5>1. folder[m].at <= folder[t].at
          BY <2>7, <4>1
        <5>. QED
          BY <3>0, <4>3, <4>4, <5>1
    <3>. QED
      BY <3>0, <3>1, <3>2, <3>3, <3>4
  <2>8. \A m : Leads(m)' <=> Leads(m)
    BY DEF Leads
  <2>. QED
    BY <1>5, <1>11, <2>1, <2>3, <2>5, <2>7, <2>8 DEF SeenInv
<1>. QED
  BY <1>8, <1>9, <1>10, <1>12, <1>13 DEF ScanInv, PollInv

LEMMA PollTakeKeeps ==
  ASSUME ScanInv, Bounded', mishaps' \in {mishaps, mishaps + 1}, C!TakeSent, scan.on = "poll"
  PROVE  ScanInv'
<1>. DEFINE t == scan.rest[1]
            h == C!Max({scan.high, folder[t].at})
<1>1. /\ UNCHANGED <<watermark, folder, pushed, since, backfilled, pollDue, enriched, inbox>>
      /\ scan.rest # <<>> /\ t \in 1 .. Len(folder)
      /\ \/ folder[t].at <= scan.low /\ UNCHANGED <<taken, mishaps>> /\ scan' = [scan EXCEPT !.rest = <<>>, !.last = TRUE]
         \/ /\ ~ folder[t].at <= scan.low
            /\ scan' = [scan EXCEPT !.rest = Tail(scan.rest), !.high = h] /\ taken' = [taken EXCEPT ![t] = taken[t] + 1]
  BY TakeSentIs
<1>2. folder[t].at \in Nat /\ scan.low \in Nat
  BY <1>1, FolderIs, ScanIs DEF ScanInv
<1>3. ~ folder[t].at <= scan.low => folder[t].at > scan.low
  BY <1>2
<1>4. CASE folder[t].at <= scan.low /\ UNCHANGED <<taken, mishaps>> /\ scan' = [scan EXCEPT !.rest = <<>>, !.last = TRUE]
  BY <1>1, <1>4, ReachedKeeps
<1>5. CASE folder[t].at > scan.low /\ scan' = [scan EXCEPT !.rest = Tail(scan.rest), !.high = h]
           /\ taken' = [taken EXCEPT ![t] = taken[t] + 1]
  BY <1>1, <1>5, TakenKeeps
<1>. QED
  BY <1>1, <1>3, <1>4, <1>5

LEMMA EndPollKeeps ==
  ASSUME ScanInv, Bounded', mishaps' \in {mishaps, mishaps + 1}, C!EndPoll
  PROVE  ScanInv'
<1>0. scan.on = "poll" /\ scan.rest = <<>> /\ scan.last /\ scan' = C!Resting
  BY DEF C!EndPoll, C!Finished
<1>1. ScanTypes /\ MailInv /\ Switches /\ mishaps \in Nat /\ pushed \in Nat /\ scan.high \in C!Second /\ scan.low \in C!Second
  BY ScanHyp, ScanIs
<1>2. /\ scan.low \in Nat /\ scan.high \in Nat /\ watermark \in Int /\ watermark <= scan.low
      /\ scan.low <= scan.high /\ scan.high <= Clock
  BY <1>0, PollIs
<1>3. /\ UNCHANGED <<folder, taken, pushed, backfilled, enriched, inbox>>
      /\ since' = IF watermark = C!NoMark /\ watermark' # C!NoMark THEN scan.low ELSE since
      /\ pollDue' \in {FALSE, pollDue}
      /\ \/ watermark' = IF scan.high > scan.low THEN scan.high ELSE watermark
         \/ watermark' = watermark /\ mishaps' = mishaps + 1
  BY DEF C!EndPoll, C!mail, C!Fault
<1>4. scan' \in ScanType /\ scan'.on = "nothing" /\ scan'.rest = <<>> /\ scan'.low = 0 /\ scan'.high = 0
  <2>1. Anew("nothing", 0, <<>>) /\ "nothing" \in C!Scans
    BY <1>0 DEF Anew, C!Resting, C!Scans
  <2>. QED
    BY <1>1, <2>1, Empty, AnewIs
<1>5. ScanTypes'
  <2>1. pushed' \in Nat /\ taken' \in Seq(Nat) /\ pollDue' \in BOOLEAN
        /\ watermark' \in C!Second \cup {C!NoMark} /\ since' \in C!Second \cup {C!NoMark}
    BY <1>1, <1>3 DEF ScanTypes
  <2>. QED
    BY <1>3, <1>4, <2>1, PollTypes
<1>6. MailInv'
  <2>1. Clock' = Clock /\ watermark <= Clock /\ 0 <= Clock /\ Clock \in Nat
    BY <1>1, <1>3, ScanHyp DEF Clock, C!Clock, MailInv
  <2>2. watermark' <= Clock
    BY <1>2, <1>3, <2>1
  <2>3. OnList'
    BY <1>4, NoPage
  <2>4. scan'.low <= scan'.high /\ scan'.high <= Clock'
    BY <1>4, <2>1
  <2>. QED
    BY <1>1, <1>3, <1>4, <2>1, <2>2, <2>3, <2>4 DEF MailInv, OnList
<1>7. RestInv'
  BY <1>4 DEF RestInv
<1>8. TakenInv'
  <2>1. ASSUME NEW m \in 1 .. Len(folder)
        PROVE  taken[m] <= 1 + pushed + mishaps' /\ (folder[m].at > watermark' => taken[m] <= pushed + mishaps')
    <3>1. /\ taken[m] \in Nat /\ folder[m].at \in Nat /\ taken[m] <= 1 + pushed + mishaps
          /\ folder[m].at > watermark /\ (folder[m].at <= scan.low \/ folder[m].at > scan.high) => taken[m] <= pushed + mishaps
      BY <1>0, TakenIs
    <3>2. mishaps' \in Nat /\ mishaps <= mishaps'
      BY <1>1
    <3>3. CASE watermark' = IF scan.high > scan.low THEN scan.high ELSE watermark
      <4>1. folder[m].at > watermark' => folder[m].at > watermark /\ (folder[m].at <= scan.low \/ folder[m].at > scan.high)
        BY <1>2, <3>1, <3>3
      <4>. QED
        BY <1>1, <3>1, <3>2, <4>1
    <3>4. CASE mishaps' = mishaps + 1
      BY <1>1, <3>1, <3>4
    <3>. QED
      BY <1>3, <3>3, <3>4
  <2>. QED
    BY <1>3, <1>4, <2>1 DEF TakenInv
<1>9. SeenInv'
  <2>. SUFFICES ASSUME mishaps' = 0 PROVE C!SentSeen'
    BY <1>4 DEF SeenInv
  <2>0. mishaps = 0 /\ watermark' = IF scan.high > scan.low THEN scan.high ELSE watermark
    BY <1>1, <1>3
  <2>1. /\ C!SentSeen
        /\ watermark # C!NoMark => scan.low = watermark
        /\ \A m \in 1 .. Len(folder) :
             folder[m].at > scan.low /\ folder[m].at <= scan.high /\ Leads(m) => taken[m] > 0 \/ m <= NextOne
    BY <1>0, <2>0, SeenIs
  <2>2. NextOne = 0
    BY <1>0 DEF NextOne
  <2>3. ASSUME NEW m \in 1 .. Len(folder), watermark' # C!NoMark, folder[m].at > since', folder[m].at <= watermark', Leads(m)
        PROVE  taken[m] > 0
    <3>1. folder[m].at \in Nat /\ m >= 1
      BY <1>1, FolderIs
    <3>2. CASE folder[m].at > scan.low /\ folder[m].at <= scan.high
      <4>1. taken[m] > 0 \/ m <= 0
        BY <2>1, <2>2, <2>3, <3>2
      <4>. QED
        BY <3>1, <4>1
    <3>3. CASE ~ (folder[m].at > scan.low /\ folder[m].at <= scan.high)
      <4>1. watermark # C!NoMark
        BY <1>2, <1>3, <2>0, <2>3, <3>1, <3>3
      <4>2. since' = since /\ scan.low = watermark
        BY <1>3, <2>1, <4>1
      <4>3. folder[m].at <= watermark
        BY <1>2, <2>0, <2>3, <3>1, <3>3, <4>2
      <4>. QED
        BY <2>0, <2>1, <2>3, <4>1, <4>2, <4>3 DEF C!SentSeen, Leads
    <3>. QED
      BY <3>2, <3>3
  <2>. QED
    BY <1>3, <2>3 DEF C!SentSeen, Leads
<1>. QED
  BY <1>5, <1>6, <1>7, <1>8, <1>9 DEF ScanInv, PollInv

\* What is sent comes behind everything else in the folder, perhaps in the second of the last.
LEMMA SendIs ==
  ASSUME ScanInv, C!Send
  PROVE  /\ UNCHANGED <<watermark, since, backfilled, pollDue, enriched, inbox, scan, mishaps>>
         /\ Len(folder') = Len(folder) + 1 /\ Len(folder) \in Nat /\ Len(folder') <= Len(To)
         /\ \A m \in 1 .. Len(folder) : folder'[m] = folder[m]
         /\ folder' \in Seq([to : Handles, at : C!Second])
         /\ folder'[Len(folder')].at \in {Clock, Clock + 1} /\ folder'[Len(folder')].at > 0
         /\ Clock' = folder'[Len(folder')].at
         /\ taken' \in Seq(Nat) /\ Len(taken') = Len(folder')
         /\ \A m \in 1 .. Len(folder) : taken'[m] = taken[m]
         /\ taken'[Len(folder')] = 0
         /\ pushed' = IF scan.on = "poll" THEN pushed + 1 ELSE pushed
<1>1. ScanTypes /\ MailInv
  BY ScanHyp
<1>2. /\ folder \in Seq([to : Handles, at : C!Second]) /\ Len(folder) \in Nat /\ Clock \in Nat /\ Clock <= Len(folder)
      /\ taken \in Seq(Nat) /\ Len(taken) = Len(folder) /\ To \in Seq(Handles) /\ C!Second = 0 .. Len(To) /\ Len(To) \in Nat
  BY <1>1, ScanIs, ClockIs, ContactsAre DEF ScanTypes, MailInv
<1>3. PICK t \in {Clock, Clock + 1} : t > 0 /\ folder' = Append(folder, [to |-> To[Len(folder) + 1], at |-> t])
  BY DEF C!Send, Clock
<1>4. Len(folder) < Len(To) /\ taken' = Append(taken, 0) /\ pushed' = (IF scan.on = "poll" THEN pushed + 1 ELSE pushed)
      /\ UNCHANGED <<watermark, since, backfilled, pollDue, enriched, inbox, scan, mishaps>>
  BY DEF C!Send, C!state
<1>. DEFINE e == [to |-> To[Len(folder) + 1], at |-> t]
<1>5. e \in [to : Handles, at : C!Second] /\ e.at = t
  <2>1. Len(folder) + 1 \in 1 .. Len(To)
    BY <1>2, <1>4
  <2>2. To[Len(folder) + 1] \in Handles
    BY <1>2, <2>1, ElementOf
  <2>3. t \in C!Second
    BY <1>2, <1>3, <1>4
  <2>. QED
    BY <2>2, <2>3
<1>6. folder' = Append(folder, e)
  BY <1>3
<1>. HIDE DEF e
<1>7. /\ folder' \in Seq([to : Handles, at : C!Second]) /\ Len(folder') = Len(folder) + 1
      /\ \A m \in 1 .. Len(folder) : folder'[m] = folder[m]
      /\ folder'[Len(folder) + 1] = e
  <2>. DEFINE S == [to : Handles, at : C!Second]
  <2>1. folder \in Seq(S) /\ e \in S
    BY <1>2, <1>5
  <2>. HIDE DEF S
  <2>2. /\ folder' \in Seq(S) /\ Len(folder') = Len(folder) + 1
        /\ \A m \in 1 .. Len(folder) : folder'[m] = folder[m]
        /\ folder'[Len(folder) + 1] = e
    BY <1>6, <2>1
  <2>. QED
    BY <2>2 DEF S
<1>8. /\ taken' \in Seq(Nat) /\ Len(taken') = Len(folder) + 1 /\ taken'[Len(folder) + 1] = 0
      /\ \A m \in 1 .. Len(folder) : taken'[m] = taken[m]
  BY <1>2, <1>4
<1>9. Clock' = folder'[Len(folder')].at
  <2>1. folder' # <<>>
    <3>1. Len(folder') # 0
      BY <1>2, <1>7
    <3>. QED
      BY <3>1
  <2>. QED
    BY <2>1 DEF Clock, C!Clock
<1>10. Len(folder') <= Len(To)
  BY <1>2, <1>4, <1>7
<1>. QED
  BY <1>2, <1>3, <1>4, <1>5, <1>7, <1>8, <1>9, <1>10

LEMMA SendKeeps ==
  ASSUME ScanInv, Bounded', C!Send
  PROVE  ScanInv'
<1>n. PICK n : n = Len(folder)
  OBVIOUS
<1>. DEFINE t == folder'[n + 1].at
<1>0. ScanTypes /\ MailInv /\ Switches /\ mishaps \in Nat /\ pushed \in Nat /\ scan \in ScanType /\ n \in Nat
      /\ mishaps' \in 0 .. Mishaps /\ tracks' \in 0 .. MaxTracks
  BY <1>n, ScanHyp, ScanIs DEF Bounded
<1>1. /\ UNCHANGED <<watermark, since, backfilled, pollDue, enriched, inbox, scan, mishaps>>
      /\ Len(folder') = n + 1 /\ Len(folder') <= Len(To)
      /\ \A m \in 1 .. n : folder'[m] = folder[m]
      /\ folder' \in Seq([to : Handles, at : C!Second])
      /\ t \in {Clock, Clock + 1} /\ t > 0
      /\ Clock' = t
      /\ taken' \in Seq(Nat) /\ Len(taken') = n + 1
      /\ \A m \in 1 .. n : taken'[m] = taken[m]
      /\ taken'[n + 1] = 0
      /\ pushed' = IF scan.on = "poll" THEN pushed + 1 ELSE pushed
  BY <1>n, SendIs
<1>2. /\ Clock \in Nat /\ Clock <= n
      /\ \A m \in 1 .. n : folder[m].at <= Clock
      /\ n > 0 => Clock = folder[n].at
      /\ n = 0 => Clock = 0
  BY <1>0, <1>n, ClockIs
<1>3. scan.low \in Nat /\ scan.high \in Nat /\ watermark \in Int /\ watermark <= Clock /\ scan.low <= scan.high /\ scan.high <= Clock
  BY <1>0, ScanIs DEF MailInv
<1>4. \A m \in 1 .. n : folder[m].at \in Nat /\ taken[m] \in Nat
  BY <1>0, <1>n, FolderIs, TakenIs
<1>. HIDE DEF t
<1>5. t \in Nat /\ Clock <= t /\ t <= n + 1
  BY <1>0, <1>1, <1>2, SMTT(30)
<1>6. ScanTypes'
  BY <1>0, <1>1 DEF ScanTypes
<1>7. MailInv'
  <2>1. /\ \A m \in 1 .. n + 1 : folder'[m].at <= m
        /\ \A m, k \in 1 .. n + 1 : m <= k => folder'[m].at <= folder'[k].at
    <3>1. \A m \in 1 .. n : folder'[m].at = folder[m].at /\ folder[m].at <= m /\ folder[m].at <= t
      BY <1>0, <1>n, <1>1, <1>2, <1>4, <1>5 DEF MailInv
    <3>2. \A m, k \in 1 .. n : m <= k => folder'[m].at <= folder'[k].at
      BY <1>0, <1>n, <1>1 DEF MailInv
    <3>3. folder'[n + 1].at = t /\ n + 1 \in Nat /\ \A m \in 1 .. n + 1 : m \in 1 .. n \/ m = n + 1
      BY <1>0 DEF t
    <3>. QED
      BY <1>0, <1>5, <3>1, <3>2, <3>3
  <2>2. OnList'
    <3>1. Listed \in Nat /\ Listed' \in Nat /\ Listed <= Listed'
      BY <1>0, <1>n, <1>1, ScanIs DEF Listed
    <3>2. \A i \in 1 .. Len(scan.rest) : scan.rest[i] \in 1 .. Listed
      BY <1>0 DEF MailInv
    <3>. QED
      BY <1>1, <3>1, <3>2 DEF OnList
  <2>3. watermark <= t /\ scan.high <= t
    BY <1>3, <1>2, <1>5
  <2>. QED
    BY <1>0, <1>n, <1>1, <2>1, <2>2, <2>3 DEF MailInv, OnList
<1>8. RestInv'
  BY <1>0, <1>1 DEF ScanInv, PollInv, RestInv
<1>9. scan.on = "poll" => Behind \in Int /\ Behind' = Behind + 1 /\ Behind <= n
  <2>. SUFFICES ASSUME scan.on = "poll" PROVE Behind \in Int /\ Behind' = Behind + 1 /\ Behind <= n
    OBVIOUS
  <2>. DEFINE k == (scan.page - 1) * PageSize
  <2>1. Behind \in Int /\ scan.page \in Nat /\ scan.page >= 1 /\ PageSize \in Nat
    BY PollIs, ContactsAre
  <2>2. \A x, y \in Nat : x * y \in Nat
    OBVIOUS
  <2>3. k \in Nat
    <3>1. scan.page - 1 \in Nat
      BY <2>1
    <3>. QED
      BY <2>1, <2>2, <3>1
  <2>4. Behind = n - k
    BY <1>n DEF Behind, C!Top
  <2>5. Behind' = Len(folder') - k
    BY <1>1 DEF Behind, C!Top
  <2>. HIDE DEF k
  <2>. QED
    BY <1>0, <1>1, <2>3, <2>4, <2>5
<1>10. TakenInv'
  <2>1. ASSUME NEW m \in 1 .. n
        PROVE  /\ taken'[m] <= 1 + pushed' + mishaps
               /\ folder'[m].at > watermark /\ (scan.on = "poll" => folder'[m].at <= scan.low \/ folder'[m].at > scan.high) =>
                    taken'[m] <= pushed' + mishaps
               /\ scan.on = "poll" /\ folder'[m].at > scan.low =>
                    taken'[m] + AheadOf(m)' + (IF scan.last THEN 0 ELSE BehindOf(m)') <= 1 + pushed' + mishaps
    <3>. DEFINE b == BehindOf(m)'
    <3>1. /\ taken[m] \in Nat /\ folder[m].at \in Nat /\ AheadOf(m) \in {0, 1} /\ BehindOf(m) \in {0, 1}
          /\ taken[m] <= 1 + pushed + mishaps
          /\ folder[m].at > watermark /\ (scan.on = "poll" => folder[m].at <= scan.low \/ folder[m].at > scan.high) =>
               taken[m] <= pushed + mishaps
          /\ scan.on = "poll" /\ folder[m].at > scan.low =>
               taken[m] + AheadOf(m) + (IF scan.last THEN 0 ELSE BehindOf(m)) <= 1 + pushed + mishaps
      BY <1>n, TakenIs
    <3>2. AheadOf(m)' = AheadOf(m) /\ b \in {0, 1} /\ taken'[m] = taken[m] /\ folder'[m] = folder[m]
      BY <1>1 DEF AheadOf, Ahead, BehindOf
    <3>3. pushed' \in Nat /\ pushed <= pushed' /\ (scan.on = "poll" => pushed' = pushed + 1)
      BY <1>0, <1>1
    <3>. HIDE DEF b
    <3>4. taken'[m] <= 1 + pushed' + mishaps
          /\ (taken[m] <= pushed + mishaps => taken[m] <= pushed' + mishaps)
      BY <1>0, <3>1, <3>2, <3>3
    <3>5. scan.on = "poll" /\ folder[m].at > scan.low =>
               taken[m] + AheadOf(m) + (IF scan.last THEN 0 ELSE b) <= 1 + pushed' + mishaps
      BY <1>0, <3>1, <3>2, <3>3
    <3>. QED
      BY <3>1, <3>2, <3>4, <3>5 DEF b
  <2>2. (taken'[n + 1] = 0 /\ pushed' \in Nat /\ AheadOf(n + 1)' = 0) \/ scan.on # "poll"
    <3>. SUFFICES ASSUME scan.on = "poll" PROVE AheadOf(n + 1)' = 0 /\ taken'[n + 1] = 0 /\ pushed' \in Nat
      OBVIOUS
    <3>1. \A i \in 1 .. Len(scan.rest) : scan.rest[i] \in 1 .. n
      BY <1>0, <1>n DEF MailInv, Listed
    <3>2. \A i \in 1 .. Len(scan'.rest) : scan'.rest[i] # n + 1
      BY <1>0, <1>1, <3>1
    <3>. QED
      BY <1>0, <1>1, <3>2 DEF AheadOf, Ahead
  <2>3. /\ taken'[n + 1] <= 1 + pushed' + mishaps
        /\ taken'[n + 1] <= pushed' + mishaps
        /\ scan.on = "poll" => taken'[n + 1] + AheadOf(n + 1)' + (IF scan.last THEN 0 ELSE BehindOf(n + 1)') <= 1 + pushed' + mishaps
    <3>1. pushed' \in Nat /\ taken'[n + 1] = 0
      BY <1>0, <1>1
    <3>2. BehindOf(n + 1)' \in {0, 1}
      BY DEF BehindOf
    <3>a. \A a, b \in Nat : 0 <= 1 + a + b /\ 0 <= a + b /\ \A x \in {0, 1} : 0 + 0 + x <= 1 + a + b
      BY SMT
    <3>b. mishaps \in Nat
      BY <1>0
    <3>c. 0 <= 1 + pushed' + mishaps /\ 0 <= pushed' + mishaps /\ \A x \in {0, 1} : 0 + 0 + x <= 1 + pushed' + mishaps
      BY <3>a, <3>b, <3>1, Zenon
    <3>3. \A x \in {0, 1} : 0 + 0 + (IF scan.last THEN 0 ELSE x) <= 1 + pushed' + mishaps
      BY <3>c
    <3>4. scan.on = "poll" => taken'[n + 1] + AheadOf(n + 1)' + (IF scan.last THEN 0 ELSE BehindOf(n + 1)') <= 1 + pushed' + mishaps
      BY <2>2, <3>1, <3>2, <3>3
    <3>. QED
      BY <3>1, <3>c, <3>4, Zenon
  <2>4. ASSUME NEW m \in 1 .. n + 1 PROVE m \in 1 .. n \/ m = n + 1
    BY <1>0
  <2>5. ASSUME NEW m \in 1 .. n + 1
        PROVE  /\ taken'[m] <= 1 + pushed' + mishaps
               /\ folder'[m].at > watermark /\ (scan.on = "poll" => folder'[m].at <= scan.low \/ folder'[m].at > scan.high) =>
                    taken'[m] <= pushed' + mishaps
               /\ scan.on = "poll" /\ folder'[m].at > scan.low =>
                    taken'[m] + AheadOf(m)' + (IF scan.last THEN 0 ELSE BehindOf(m)') <= 1 + pushed' + mishaps
    <3>1. CASE m \in 1 .. n
      BY <2>1, <3>1
    <3>2. CASE m = n + 1
      BY <2>3, <3>2
    <3>. QED
      BY <2>4, <3>1, <3>2
  <2>. QED
    BY <1>1, <2>5 DEF TakenInv
<1>11. SeenInv'
  <2>. SUFFICES ASSUME mishaps = 0 PROVE SeenInv'
    BY <1>1 DEF SeenInv
  <2>1. /\ C!SentSeen
        /\ scan.on = "poll" =>
             /\ watermark # C!NoMark => scan.low = watermark
             /\ scan.rest # <<>> => IF scan.last THEN scan.rest[Len(scan.rest)] = 1 ELSE Behind >= scan.rest[Len(scan.rest)] - 1
             /\ \A m \in 1 .. n :
                  folder[m].at > scan.low /\ folder[m].at <= scan.high /\ Leads(m) => taken[m] > 0 \/ m <= NextOne
    BY <1>n, SeenIs
  <2>2. \A m \in 1 .. n : m # 1 => m - 1 \in 1 .. n
    BY <1>0
  <2>3. \A m \in 1 .. n : Leads(m)' <=> Leads(m)
    BY <1>1, <2>2 DEF Leads
  <2>4. Leads(n + 1)' => t > Clock
    <3>1. CASE n = 0
      BY <1>1, <1>2, <3>1
    <3>2. CASE n > 0
      <4>1. n \in 1 .. n /\ n + 1 # 1 /\ (n + 1) - 1 = n
        BY <1>0, <3>2
      <4>2. folder'[n] = folder[n] /\ folder[n].at = Clock
        BY <1>1, <1>2, <3>2, <4>1
      <4>3. Leads(n + 1)' => folder'[n].at < folder'[n + 1].at
        BY <4>1 DEF Leads
      <4>. QED
        BY <1>2, <1>5, <4>2, <4>3 DEF t
    <3>. QED
      BY <1>0, <3>1, <3>2
  <2>5. \A m \in 1 .. n + 1 : m \in 1 .. n \/ m = n + 1
    BY <1>0
  <2>6. C!SentSeen'
    <3>1. ASSUME watermark # C!NoMark, NEW m \in 1 .. n + 1, folder'[m].at > since, folder'[m].at <= watermark, Leads(m)'
          PROVE  taken'[m] > 0
      <4>1. CASE m \in 1 .. n
        <5>1. Leads(m) /\ folder'[m] = folder[m] /\ taken'[m] = taken[m]
          BY <1>1, <2>3, <3>1, <4>1
        <5>. QED
          BY <1>n, <2>1, <3>1, <4>1, <5>1 DEF C!SentSeen, Leads
      <4>2. CASE m = n + 1
        <5>1. t <= watermark /\ t > Clock
          BY <2>4, <3>1, <4>2 DEF t
        <5>. QED
          BY <1>2, <1>3, <1>5, <5>1
      <4>. QED
        BY <2>5, <4>1, <4>2
    <3>. QED
      BY <1>1, <3>1 DEF C!SentSeen, Leads
  <2>7. ASSUME scan.on = "poll"
        PROVE  /\ scan.rest # <<>> => IF scan.last THEN scan.rest[Len(scan.rest)] = 1 ELSE Behind' >= scan.rest[Len(scan.rest)] - 1
               /\ \A m \in 1 .. n + 1 :
                    folder'[m].at > scan.low /\ folder'[m].at <= scan.high /\ Leads(m)' => taken'[m] > 0 \/ m <= NextOne'
    <3>1. scan.rest # <<>> => IF scan.last THEN scan.rest[Len(scan.rest)] = 1 ELSE Behind' >= scan.rest[Len(scan.rest)] - 1
      <4>. SUFFICES ASSUME scan.rest # <<>>, ~ scan.last PROVE Behind' >= scan.rest[Len(scan.rest)] - 1
        BY <2>1, <2>7
      <4>1. Len(scan.rest) \in 1 .. Len(scan.rest)
        BY RestHere
      <4>2. scan.rest[Len(scan.rest)] \in 1 .. n
        BY <1>0, <1>n, <2>7, <4>1 DEF MailInv, Listed
      <4>3. Behind >= scan.rest[Len(scan.rest)] - 1
        BY <2>1, <2>7
      <4>. QED
        BY <1>0, <1>9, <2>7, <4>2, <4>3
    <3>2. NextOne' = NextOne \/ (NextOne' = NextOne + 1 /\ NextOne \in Int)
      BY <1>1, <1>9, <2>7 DEF NextOne
    <3>3. ASSUME NEW m \in 1 .. n + 1, folder'[m].at > scan.low, folder'[m].at <= scan.high, Leads(m)'
          PROVE  taken'[m] > 0 \/ m <= NextOne'
      <4>1. CASE m \in 1 .. n
        <5>1. Leads(m) /\ folder'[m] = folder[m] /\ taken'[m] = taken[m]
          BY <1>1, <2>3, <3>3, <4>1
        <5>2. taken[m] > 0 \/ m <= NextOne
          BY <2>1, <2>7, <3>3, <4>1, <5>1
        <5>. QED
          BY <1>0, <3>2, <4>1, <5>1, <5>2
      <4>2. CASE m = n + 1
        <5>1. t <= scan.high /\ t > Clock
          BY <2>4, <3>3, <4>2 DEF t
        <5>. QED
          BY <1>2, <1>3, <1>5, <5>1
      <4>. QED
        BY <2>5, <4>1, <4>2
    <3>. QED
      BY <3>1, <3>3
  <2>. QED
    BY <1>1, <2>1, <2>6, <2>7 DEF SeenInv
<1>. QED
  BY <1>6, <1>7, <1>8, <1>10, <1>11 DEF ScanInv, PollInv

\* What a step leaves of the mail and the scan.
LEMMA ScanKept ==
  ASSUME ScanInv, C!Next
  PROVE  ScanInv'
<1>1. Bounded' /\ mishaps' \in {mishaps, mishaps + 1} /\ mishaps' \in 0 .. Mishaps /\ tracks' \in 0 .. MaxTracks
  BY ScanHyp, MishapsGrow DEF Bounded
<1>2. CASE C!Send \/ C!Receive \/ C!Hour
  BY <1>1, <1>2, SendKeeps, ReceiveKeeps, HourKeeps
<1>3. CASE C!StartBackfill \/ C!StartPoll \/ C!EndBackfill \/ C!EndPoll
  BY <1>1, <1>3, StartBackfillKeeps, StartPollKeeps, EndBackfillKeeps, EndPollKeeps
<1>4. CASE C!NextPage
  BY <1>1, <1>4, BackfillPageKeeps, PollPageKeeps
<1>5. CASE C!TakeSent
  BY <1>1, <1>5, BackfillSentKeeps, PollTakeKeeps
<1>6. CASE C!TakeReceived \/ C!TakeSignal \/ C!StartSignals \/ C!EndSignals
  BY <1>1, <1>6, TakeKeeps, StartSignalsKeeps, EndSignalsKeeps
<1>7. CASE C!Mention \/ C!ReadOrigins \/ C!WriteOrigins \/ \E h \in Handles : C!Track(h)
  <2>1. UNCHANGED scans
    BY <1>7 DEF C!Mention, C!ReadOrigins, C!WriteOrigins, C!Track, C!state, C!mail, C!history, scans
  <2>. QED
    BY <1>1, <2>1, StillScans
<1>8. ASSUME NEW s \in C!Service,
             C!Resolve(s) \/ C!Update(s) \/ C!Create(s) \/ C!Bind(s) \/ C!CountFirst(s) \/ C!Stamp(s) \/ C!Finish(s)
      PROVE  ScanInv'
  <2>1. UNCHANGED scans
    BY <1>8 DEF C!Resolve, C!Update, C!Create, C!Bind, C!CountFirst, C!Stamp, C!Finish, C!state, C!mail, C!history, scans
  <2>. QED
    BY <1>1, <2>1, StillScans
<1>9. CASE C!Crash
  BY <1>1, <1>9, CrashScans
<1>. QED
  BY <1>2, <1>3, <1>4, <1>5, <1>6, <1>7, <1>8, <1>9 DEF C!Next

-----------------------------------------------------------------------------
(* The contacts, always.                                                   *)

LEMMA InvHalves == ContactInv <=> GraphInv /\ ScanInv
<1>. QED
  BY TwoHalves DEF ContactInv, MeetInv, GraphInv, ScanInv

LEMMA ContactInit == ASSUME C!Init PROVE ContactInv
<1>1. /\ contacts = [c \in C!Ids |-> None] /\ channel = [h \in Handles |-> None] /\ op = [s \in C!Service |-> C!Idle] /\ origins = None
      /\ written = {} /\ crossed = FALSE
      /\ outs = [c \in C!Ids |-> 0] /\ ins = [c \in C!Ids |-> 0] /\ extras = [c \in C!Ids |-> 0]
  BY DEF C!Init
<1>2. /\ backfilled = FALSE /\ watermark = C!NoMark /\ pollDue = TRUE /\ folder = <<>> /\ inbox = <<>> /\ enriched = 0
      /\ scan = C!Resting /\ taken = <<>> /\ pushed = 0 /\ since = C!NoMark /\ tracks = 0 /\ mishaps = 0
  BY DEF C!Init
<1>3. GraphInv
  <2>1. (\A c \in C!Ids : contacts[c] = None /\ outs[c] = 0 /\ ins[c] = 0 /\ extras[c] = 0) /\ (\A h \in Handles : channel[h] = None)
        /\ \A s \in C!Service : op[s] = C!Idle /\ op[s].at = "idle" /\ op[s].kind = "none" /\ op[s].id = Mentioned /\ op[s].who = Mentioned
    BY <1>1, IdleIs
  <2>2. GraphTypes
    <3>1. op \in [C!Service -> OpType]
      BY <1>1, IdleIs
    <3>2. /\ contacts \in [C!Ids -> C!Row \cup {None}] /\ channel \in [Handles -> C!Ids \cup {None}]
          /\ outs \in [C!Ids -> Nat] /\ ins \in [C!Ids -> Nat] /\ extras \in [C!Ids -> Nat]
      BY <1>1
    <3>. QED
      BY <1>1, <3>1, <3>2 DEF GraphTypes, OpType
  <2>3. OpInv
    BY <1>1, <2>1 DEF OpInv, OpOf
  <2>4. CountInv
    BY <2>1 DEF CountInv, CountOf
  <2>5. FoundInv
    <3>1. \A h \in Handles : h \in C!Ids /\ h # Mentioned
      BY ContactsAre
    <3>2. "heartbeat" \in C!Service /\ "telegram" \in C!Service
      BY ContactsAre
    <3>3. \A s \in C!Service : Stands(s)
      BY <2>1 DEF Stands
    <3>4. \A h \in Handles : MadeBound(h) /\ MakesOwn(h) /\ TrackBound(h) /\ OneFound(h) /\ WeakOwn(h) /\ Leading(h)
      BY <1>1, <2>1, <3>1, <3>2 DEF MadeBound, MakesOwn, TrackBound, OneFound, WeakOwn, Leading, Weak
    <3>. QED
      BY <3>3, <3>4 DEF FoundInv
  <2>6. AloneInv
    <3>1. "heartbeat" \in C!Service
      BY ContactsAre
    <3>2. \A s \in C!Service : New(s)
      BY <2>1 DEF New, Beyond
    <3>3. \A c \in C!Ids : Exact(c)
      BY <2>1 DEF Exact
    <3>. QED
      BY <1>1, <2>1, <3>1, <3>2, <3>3 DEF AloneInv
  <2>. QED
    BY <2>2, <2>3, <2>4, <2>5, <2>6 DEF GraphInv
<1>4. ScanInv
  <2>1. /\ scan.on = "nothing" /\ scan.page = 0 /\ scan.rest = <<>> /\ scan.low = 0 /\ scan.high = 0 /\ scan.last = FALSE
    BY <1>2, RestingIs
  <2>2. Len(folder) = 0 /\ Len(inbox) = 0 /\ Len(taken) = 0 /\ Len(scan.rest) = 0
    BY <1>2, <2>1
  <2>3. ScanTypes
    <3>1. scan \in ScanType
      <4>1. 0 \in C!Second
        BY ContactsAre
      <4>. QED
        BY <1>2, <4>1, Empty DEF C!Resting, ScanType, C!Scans
    <3>2. <<>> \in Seq([to : Handles, at : C!Second]) /\ <<>> \in Seq(Handles) /\ <<>> \in Seq(Nat)
      OBVIOUS
    <3>3. 0 \in 0 .. MaxTracks /\ 0 \in 0 .. Mishaps
      BY ContactsAre
    <3>4. /\ backfilled \in BOOLEAN /\ pollDue \in BOOLEAN /\ watermark \in C!Second \cup {C!NoMark} /\ since \in C!Second \cup {C!NoMark}
          /\ enriched \in 0 .. Len(inbox) /\ pushed \in Nat
      <4>1. enriched \in 0 .. Len(inbox) /\ pushed \in Nat
        BY <1>2, <2>2
      <4>. QED
        BY <1>2, <4>1, Zenon
    <3>5. /\ folder \in Seq([to : Handles, at : C!Second]) /\ inbox \in Seq(Handles) /\ taken \in Seq(Nat)
          /\ tracks \in 0 .. MaxTracks /\ mishaps \in 0 .. Mishaps
      BY <1>2, <3>2, <3>3, Zenon
    <3>. QED
      BY <3>1, <3>4, <3>5 DEF ScanTypes, ScanType
  <2>4. MailInv
    <3>1. Clock = 0 /\ C!NoMark <= 0 /\ Len(To) \in Nat
      BY <1>2, ContactsAre DEF Clock, C!Clock, C!NoMark
    <3>. QED
      BY <1>2, <2>1, <2>2, <3>1 DEF MailInv
  <2>5. PollInv
    BY <1>2, <2>1, <2>2 DEF PollInv, RestInv, TakenInv, SeenInv, C!SentSeen
  <2>. QED
    BY <2>3, <2>4, <2>5 DEF ScanInv
<1>. QED
  BY <1>3, <1>4, InvHalves

LEMMA ContactStep == ASSUME ContactInv, C!Next PROVE ContactInv'
<1>1. GraphInv' /\ ScanInv'
  BY InvHalves, GraphKept, ScanKept DEF ContactInv, MeetInv
<1>2. C!TypeOK' <=> GraphTypes' /\ ScanTypes'
  BY DEF C!TypeOK, GraphTypes, ScanTypes
<1>. QED
  BY <1>1, <1>2 DEF ContactInv, MeetInv, GraphInv, ScanInv

LEMMA ContactStill == ASSUME ContactInv, UNCHANGED meeting PROVE ContactInv'
<1>1. GraphInv /\ ScanInv
  BY InvHalves
<1>2. UNCHANGED graphs /\ UNCHANGED scans /\ mishaps' = mishaps /\ tracks' = tracks
  BY DEF meeting, graphs, scans
<1>3. mishaps \in Nat /\ mishaps \in 0 .. Mishaps /\ tracks \in 0 .. MaxTracks
  BY <1>1, ScanHyp DEF ScanTypes
<1>4. GraphInv'
  BY <1>1, <1>2, <1>3, StillKeeps
<1>5. ScanInv'
  BY <1>1, <1>2, <1>3, StillScans
<1>6. C!TypeOK' <=> GraphTypes' /\ ScanTypes'
  BY DEF C!TypeOK, GraphTypes, ScanTypes
<1>. QED
  BY <1>4, <1>5, <1>6 DEF ContactInv, MeetInv, GraphInv, ScanInv

\* The invariant, whichever component it is that moves.
LEMMA ContactInvariant == TickSpec => []ContactInv
<1>1. TickInit => ContactInv
  BY ContactInit DEF TickInit
<1>2. ContactInv /\ [TickNext]_tick => ContactInv'
  <2>1. ASSUME [TickNext]_tick PROVE C!Next \/ UNCHANGED meeting
    BY <2>1 DEF TickNext, Observing, Feeding, Meeting, tick
  <2>. QED
    BY <2>1, ContactStep, ContactStill
<1>. QED
  BY <1>1, <1>2, PTL DEF TickSpec

\* What the invariant says of the mail, ...
LEMMA MailFacts == ASSUME ContactInv PROVE C!TypeOK /\ C!SentSeen /\ C!TakenOnce
<1>. QED
  BY DEF ContactInv, MeetInv, PollInv, SeenInv, TakenInv, C!SentSeen, C!TakenOnce

LEMMA SizeIs == ASSUME NEW S PROVE C!Cardinality(S) = Cardinality(S)
<1>. QED
  BY DEF C!Cardinality, Cardinality

\* ... of the counts, ...
LEMMA CountFacts == ASSUME ContactInv PROVE C!CountsTrue
<1>1. GraphInv /\ GraphTypes /\ CountInv /\ AloneInv /\ mishaps \in Nat
  BY InvHalves, ScanHyp DEF GraphInv
<1>2. ASSUME NEW c \in C!Known
      PROVE  /\ contacts[c].sent <= outs[c]
             /\ contacts[c].received <= ins[c] + extras[c] + Cardinality(C!Half(c)) + mishaps
  <2>1. c \in C!Ids /\ contacts[c] # None
    BY DEF C!Known
  <2>2. contacts[c].sent <= outs[c] /\ contacts[c].received <= ins[c] + extras[c] + mishaps + Uncounted(c)
    BY <1>1, <2>1 DEF CountInv, CountOf
  <2>3. contacts[c].received \in Nat /\ ins[c] \in Nat /\ extras[c] \in Nat
    BY <1>1, <2>1, RowIs DEF GraphTypes
  <2>4. IsFiniteSet(C!Half(c)) /\ Cardinality(C!Half(c)) \in Nat
    <3>1. IsFiniteSet({}) /\ IsFiniteSet({} \cup {"heartbeat"})
      BY FS_EmptySet, FS_AddElement
    <3>2. IsFiniteSet(({} \cup {"heartbeat"}) \cup {"telegram"})
      BY <3>1, FS_AddElement
    <3>3. C!Half(c) \subseteq ({} \cup {"heartbeat"}) \cup {"telegram"}
      BY ContactsAre DEF C!Half
    <3>. QED
      BY <3>2, <3>3, FS_Subset, FS_CardinalityType
  <2>5. Uncounted(c) \in {0, 1} /\ (Uncounted(c) = 1 => "heartbeat" \in C!Half(c))
    BY ContactsAre DEF Uncounted, C!Half
  <2>6. "heartbeat" \in C!Half(c) => Cardinality(C!Half(c)) # 0
    BY <2>4, FS_EmptySet
  <2>7. Uncounted(c) <= Cardinality(C!Half(c))
    BY <2>4, <2>5, <2>6
  <2>. QED
    BY <1>1, <2>2, <2>3, <2>4, <2>5, <2>7
<1>3. ASSUME NEW c \in C!Known, C!Quiet, ~ crossed, mishaps = 0
      PROVE  contacts[c].sent = outs[c] /\ contacts[c].received = ins[c] + extras[c]
  <2>1. c \in C!Ids /\ contacts[c] # None
    BY DEF C!Known
  <2>2. op["heartbeat"] = C!Idle
    BY <1>3, ContactsAre DEF C!Quiet
  <2>3. Uncounted(c) = 0
    BY <2>2, IdleIs DEF Uncounted
  <2>4. contacts[c].sent = outs[c] /\ contacts[c].received = ins[c] + extras[c] + 0
    BY <1>1, <1>3, <2>1, <2>3 DEF AloneInv, Exact
  <2>5. ins[c] \in Nat /\ extras[c] \in Nat
    BY <1>1, <2>1 DEF GraphTypes
  <2>. QED
    BY <2>4, <2>5
<1>. QED
  BY <1>2, <1>3, SizeIs DEF C!CountsTrue

\* ... and of who was written to.
LEMMA WrittenFacts == ASSUME ContactInv PROVE C!NotForgotten
<1>1. GraphTypes /\ FoundInv /\ AloneInv /\ written \subseteq Handles
  BY InvHalves DEF GraphInv, GraphTypes
<1>2. ASSUME mishaps = 0, NEW h \in written, \A s \in C!Service : op[s].who # h
      PROVE  C!Tier(h) = "ESTABLISHED" /\ (~ crossed => C!Looked(h).sent > 0)
  <2>1. h \in Handles /\ h \in C!Ids
    BY <1>1, ContactsAre
  <2>2. channel[h] # None /\ ~ Weak(h) /\ (contacts[h] = None => Mailed(channel[h]))
    BY <1>1, <1>2, <2>1 DEF FoundInv, Leading
  <2>3. ~ Pending(h)
    BY <1>2 DEF Pending, Half
  <2>4. CASE contacts[h] # None
    <3>1. contacts[h].sent \in Nat /\ contacts[h].sent # 0
      BY <1>1, <2>1, <2>2, <2>3, <2>4, RowIs DEF Weak
    <3>2. C!Found(h) = contacts[h]
      BY <2>4 DEF C!Found
    <3>. QED
      BY <1>1, <1>2, <2>2, <2>4, <3>1, <3>2 DEF C!Tier, C!Looked, AloneInv, Mailed
  <2>5. CASE contacts[h] = None
    <3>1. C!Found(h) = contacts[channel[h]] /\ contacts[channel[h]] # None /\ contacts[channel[h]].sent > 0
      BY <2>2, <2>5 DEF C!Found, Mailed
    <3>. QED
      BY <2>2, <3>1 DEF C!Tier, C!Looked
  <2>. QED
    BY <2>4, <2>5
<1>. QED
  BY <1>2 DEF C!NotForgotten

\* Who has an account of origin keeps it, while nothing fails or crosses.
KeptHere == \A c \in C!Known :
  contacts[c].origin # None /\ contacts'[c].origin # contacts[c].origin => mishaps > 0 \/ crossed

LEMMA OriginStays == ASSUME ContactInv, C!Next PROVE KeptHere
<1>1. GraphTypes /\ OpInv /\ AloneInv /\ MailInv /\ C!TypeOK /\ mishaps \in Nat
  BY InvHalves, ScanHyp DEF GraphInv, ContactInv, MeetInv
<1>. SUFFICES ASSUME NEW c \in C!Known, contacts[c].origin # None, mishaps = 0, ~ crossed
              PROVE  contacts'[c].origin = contacts[c].origin
  BY <1>1 DEF KeptHere
<1>2. c \in C!Ids /\ contacts[c] # None
  BY DEF C!Known
<1>3. (\A s \in C!Service : New(s)) /\ (origins # None => \A d \in origins : contacts[d].origin = None)
  BY <1>1 DEF AloneInv
<1>4. \/ UNCHANGED contacts
      \/ \E s \in C!Service : C!Update(s) \/ C!Create(s) \/ C!CountFirst(s) \/ C!Stamp(s)
      \/ C!WriteOrigins
  <2>1. \/ UNCHANGED graphs
        \/ \E s \in C!Service : Begins(s) \/ Works(s)
        \/ C!ReadOrigins \/ C!WriteOrigins \/ C!Crash
    BY <1>1, GraphSteps
  <2>2. ASSUME NEW s \in C!Service, C!Resolve(s) \/ C!Bind(s) \/ C!Finish(s) PROVE UNCHANGED contacts
    BY <2>2 DEF C!Resolve, C!Bind, C!Finish, C!graph
  <2>3. C!ReadOrigins \/ C!Crash => UNCHANGED contacts
    BY DEF C!ReadOrigins, C!Crash, C!graph
  <2>. QED
    BY <2>1, <2>2, <2>3 DEF graphs, Begins, Works
<1>5. ASSUME NEW s \in C!Service, C!Update(s) PROVE contacts'[c].origin = contacts[c].origin
  BY <1>1, <1>2, <1>5, UpdateDo
<1>6. ASSUME NEW s \in C!Service, C!Create(s) PROVE contacts'[c].origin = contacts[c].origin
  BY <1>1, <1>2, <1>6, CreateDo
<1>7. ASSUME NEW s \in C!Service, C!CountFirst(s) PROVE contacts'[c].origin = contacts[c].origin
  BY <1>1, <1>2, <1>7, CountDo
<1>8. ASSUME NEW s \in C!Service, C!Stamp(s) PROVE contacts'[c].origin = contacts[c].origin
  <2>1. op[s].at = "stamp" /\ \A d \in C!Ids : d # op[s].id => contacts'[d] = contacts[d]
    BY <1>1, <1>8, StampDo
  <2>2. contacts[op[s].id].origin = None
    BY <1>3, <2>1 DEF New
  <2>. QED
    BY <1>2, <2>1, <2>2
<1>9. ASSUME C!WriteOrigins PROVE contacts'[c].origin = contacts[c].origin
  <2>1. origins # None /\ (contacts'[c] = contacts[c] \/ c \in origins)
    BY <1>1, <1>2, <1>9, OriginsDo
  <2>. QED
    BY <1>3, <2>1
<1>. QED
  BY <1>4, <1>5, <1>6, <1>7, <1>8, <1>9

\* Mail is seen and counted once, who was written to is known as such, and the account a contact came from is
\* written once (contact_poller.py:258, sender_trust.py:5, resolver.py:29), whatever the two services do at the
\* same time and whatever is sent under the pages of a poll: for every folder, however long, and every page size.
THEOREM ContactsAreSoundAlways == TickSpec => ContactsAreSound
<1>1. ContactInv => (subject = "contacts" => C!TypeOK /\ C!SentSeen /\ C!TakenOnce /\ C!CountsTrue /\ C!NotForgotten)
  BY MailFacts, CountFacts, WrittenFacts
<1>2. ContactInv /\ [TickNext]_tick => [KeptHere]_(C!vars)
  <2>1. ASSUME [TickNext]_tick PROVE C!Next \/ UNCHANGED C!vars
    BY <2>1 DEF TickNext, Observing, Feeding, Meeting, tick, meeting, C!vars, C!graph, C!state, C!mail, C!history
  <2>. QED
    BY <2>1, OriginStays
<1>3. TickSpec => [][KeptHere]_(C!vars)
  BY <1>2, ContactInvariant, PTL DEF TickSpec
<1>4. TickSpec => C!OriginKept
  BY <1>3 DEF C!OriginKept, KeptHere
<1>. QED
  BY <1>1, <1>4, ContactInvariant, PTL DEF ContactsAreSound
=============================================================================
