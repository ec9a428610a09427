------------------------- MODULE HousekeepingProofs -------------------------
(***************************************************************************)
(* The sweeps of the heartbeat and the pulses of the caretaker, for any    *)
(* sweeps, intervals, retention, checks and faults.                        *)
(*                                                                         *)
(* Pulses: what a row has been told is told together with what two pulses  *)
(* are still going to tell.  A pulse holds a telegram for a key if it is   *)
(* in its new findings, or it is about to record it; it holds one at most, *)
(* as a key is in front of a pulse or behind it, never both.               *)
(*                                                                         *)
(* Sweeps: each tick starts one sweep further on and its first sweep is    *)
(* never given up, so a sweep that is due is late by its distance from the *)
(* start at most.  The rollup deletes the oldest events, so what is left   *)
(* of a day is later than what was added up, and nothing is added twice.   *)
(***************************************************************************)
EXTENDS Housekeeping, FiniteSetTheorems, SequenceTheorems, TLAPS

-----------------------------------------------------------------------------
(* The caretaker.                                                          *)

Telegram(p, k) == k \in fresh[p] \/ (stage[p] = "record" /\ C!Turn(p, k))
Due(p, k)      == IF Telegram(p, k) THEN 1 ELSE 0

\* Where a key is: in front of the pulse or among its new findings.
PlacesInv ==
  \A p \in C!Pulses :
    /\ stage[p] \in {"off", "check"} => fresh[p] = {}
    /\ stage[p] \in {"judge", "record"} => todo[p] \cap fresh[p] = {} /\ todo[p] \subseteq observed[p]
    /\ stage[p] = "notify" => todo[p] = fresh[p]

\* Two pulses that run at the same time share all rows.
SharedInv == (\A p \in C!Pulses : stage[p] # "off") => shared = C!Keys

ToldInv ==
  \A k \in C!Keys : row[k] # "none" =>
    told[k] + Due(Timer, k) + Due(Manual, k) <= (IF k \in shared THEN 2 ELSE 1)

Excused(k) == k \in healthy \cup blind \cup shared

\* A row may be deleted of what is excused.  A pulse that has looked at a key and has not found it will
\* delete its row.
SolvedInv ==
  /\ \A k \in C!Keys : row[k] # "none" /\ level[k] = "healthy" => k \in healthy
  /\ \A p \in C!Pulses : \A k \in C!Keys : row[k] # "none" =>
       /\ stage[p] = "check" /\ k \notin todo[p] \cup observed[p] => Excused(k)
       /\ stage[p] \in {"judge", "record", "list"} /\ k \notin observed[p] => Excused(k)
       /\ stage[p] = "resolve" /\ k \in todo[p] => Excused(k)

PulseInv == C!TypeOK /\ PlacesInv /\ SharedInv /\ ToldInv /\ C!RowsWereTold /\ SolvedInv

LEMMA PulsesAre ==
  /\ C!Pulses = {Timer, Manual} /\ Timer # Manual
  /\ MaxChanges \in Nat /\ MaxAccepts \in Nat /\ PulseFaults \in Nat
<1>. QED
  BY HousekeepingAssumption DEF C!CaretakerAssumption, C!Pulses

\* No two keys have the same turn.
LEMMA OneTurn ==
  ASSUME C!TypeOK, NEW p \in C!Pulses, NEW k, NEW j, C!Turn(p, k), C!Turn(p, j)
  PROVE  k \in C!Keys /\ k = j
<1>1. C!Keys = {Checks[i] : i \in DOMAIN Checks} /\ DOMAIN Checks \subseteq Int
  BY HousekeepingAssumption DEF C!CaretakerAssumption, C!Keys, C!ToSet
<1>2. ASSUME NEW x \in C!Keys PROVE C!Place(x) \in DOMAIN Checks /\ Checks[C!Place(x)] = x
  <2>1. \E i \in DOMAIN Checks : Checks[i] = x
    BY <1>1
  <2>. QED
    BY <2>1 DEF C!Place
<1>3. k \in C!Keys /\ j \in C!Keys
  BY DEF C!Turn, C!TypeOK
<1>4. C!Place(k) <= C!Place(j) /\ C!Place(j) <= C!Place(k)
  BY DEF C!Turn
<1>5. C!Place(k) \in Int /\ C!Place(j) \in Int
  BY <1>1, <1>2, <1>3
<1>6. C!Place(k) = C!Place(j)
  BY <1>4, <1>5
<1>. QED
  BY <1>2, <1>3, <1>6

LEMMA PulseAtFirst == Init => PulseInv
<1>. SUFFICES ASSUME Init PROVE PulseInv
  OBVIOUS
<1>1. C!Init /\ \A k \in C!Keys : level[k] = "healthy"
  BY DEF Init
<1>2. C!TypeOK
  BY <1>1, PulsesAre DEF C!Init, C!TypeOK, C!Levels
<1>. QED
  BY <1>1, <1>2, PulsesAre
  DEF C!Init, PulseInv, PlacesInv, SharedInv, ToldInv, SolvedInv, C!RowsWereTold

\* What a pulse does to its place.
LEMMA AtDo ==
  ASSUME C!TypeOK, NEW p \in C!Pulses, NEW ks \in SUBSET C!Keys, NEW s, C!At(p, s, ks),
         s \in {"off", "check", "judge", "record", "list", "resolve", "notify"}
  PROVE  /\ stage' \in [C!Pulses -> {"off", "check", "judge", "record", "list", "resolve", "notify"}]
         /\ todo' \in [C!Pulses -> SUBSET C!Keys]
         /\ stage'[p] = s /\ todo'[p] = ks
         /\ \A q \in C!Pulses \ {p} : stage'[q] = stage[q] /\ todo'[q] = todo[q]
<1>. QED
  BY DEF C!TypeOK, C!At

LEMMA JudgingDo ==
  ASSUME C!TypeOK, NEW p \in C!Pulses, NEW ks \in SUBSET C!Keys, C!Judging(p, ks)
  PROVE  \E s \in {"list", "judge"} : C!At(p, s, ks)
<1>. QED
  BY DEF C!Judging

LEMMA ResolvingDo ==
  ASSUME C!TypeOK, NEW p \in C!Pulses, NEW ks \in SUBSET C!Keys, C!Resolving(p, ks)
  PROVE  \/ C!At(p, "resolve", ks)
         \/ ks = {} /\ C!At(p, "notify", fresh[p])
<1>. QED
  BY DEF C!Resolving

LEMMA TypeStep == ASSUME C!TypeOK, C!Next PROVE C!TypeOK'
<1>. USE PulsesAre
<1>1. ASSUME NEW k \in C!Keys, C!Change(k) PROVE C!TypeOK'
  BY <1>1 DEF C!TypeOK, C!Change, C!pulse, C!Levels
<1>2. ASSUME NEW k \in C!Keys, C!Accept(k) PROVE C!TypeOK'
  BY <1>2 DEF C!TypeOK, C!Accept, C!pulse, C!history
<1>3. ASSUME NEW p \in C!Pulses, C!StartPulse(p) PROVE C!TypeOK'
  BY <1>3 DEF C!TypeOK, C!StartPulse, C!bounds
<1>4. ASSUME NEW p \in C!Pulses, C!Check(p) PROVE C!TypeOK'
  <2>1. PICK k \in C!Keys :
          /\ C!Turn(p, k)
          /\ \/ observed' = [observed EXCEPT ![p] = @ \cup IF C!Produced(k) THEN {k} ELSE {}]
                /\ blind' = blind /\ C!NoFlaw
             \/ UNCHANGED observed /\ blind' = blind \cup {k} /\ C!Flaw
          /\ IF C!Left(p, k) = {} THEN C!Judging(p, observed'[p]) ELSE C!At(p, "check", C!Left(p, k))
    BY <1>4 DEF C!Check
  <2>2. /\ observed' \in [C!Pulses -> SUBSET C!Keys] /\ blind' \subseteq C!Keys
        /\ changes' \in 0 .. MaxChanges /\ accepts' \in 0 .. MaxAccepts /\ flaws' \in 0 .. PulseFaults
    BY <2>1 DEF C!TypeOK, C!NoFlaw, C!Flaw, C!bounds
  <2>3. observed'[p] \in SUBSET C!Keys /\ C!Left(p, k) \in SUBSET C!Keys
    BY <2>2 DEF C!TypeOK, C!Left
  <2>4. \E s \in {"list", "judge", "check"}, ks \in SUBSET C!Keys : C!At(p, s, ks)
    BY <2>1, <2>3, JudgingDo
  <2>5. /\ stage' \in [C!Pulses -> {"off", "check", "judge", "record", "list", "resolve", "notify"}]
        /\ todo' \in [C!Pulses -> SUBSET C!Keys]
    BY <2>4, AtDo
  <2>. QED
    BY <1>4, <2>2, <2>5 DEF C!Check, C!TypeOK
<1>5. ASSUME NEW p \in C!Pulses, C!Judge(p) PROVE C!TypeOK'
  <2>1. PICK k \in C!Keys : IF C!Unseen(k) THEN C!At(p, "record", todo[p]) ELSE C!Judging(p, C!Left(p, k))
    BY <1>5 DEF C!Judge
  <2>2. todo[p] \in SUBSET C!Keys /\ C!Left(p, k) \in SUBSET C!Keys
    BY DEF C!TypeOK, C!Left
  <2>3. \E s \in {"list", "judge", "record"}, ks \in SUBSET C!Keys : C!At(p, s, ks)
    BY <2>1, <2>2, JudgingDo
  <2>4. /\ stage' \in [C!Pulses -> {"off", "check", "judge", "record", "list", "resolve", "notify"}]
        /\ todo' \in [C!Pulses -> SUBSET C!Keys]
    BY <2>3, AtDo
  <2>. QED
    BY <1>5, <2>4 DEF C!Judge, C!TypeOK, C!history, C!bounds
<1>6. ASSUME NEW p \in C!Pulses, C!Record(p) PROVE C!TypeOK'
  <2>1. PICK k \in C!Keys :
          /\ C!Judging(p, C!Left(p, k))
          /\ row' = [row EXCEPT ![k] = IF @ = "none" THEN "open" ELSE @]
          /\ fresh' = [fresh EXCEPT ![p] = @ \cup {k}]
          /\ IF row[k] = "none"
             THEN /\ told' = [told EXCEPT ![k] = 0]
                  /\ healthy' = IF level[k] = "healthy" THEN healthy \cup {k} ELSE healthy \ {k}
                  /\ blind' = blind \ {k} /\ unsent' = unsent \ {k}
                  /\ shared' = IF C!Alone(p) THEN shared \ {k} ELSE shared
             ELSE UNCHANGED <<told, healthy, blind, unsent, shared>>
    BY <1>6 DEF C!Record
  <2>2. C!Left(p, k) \in SUBSET C!Keys
    BY DEF C!TypeOK, C!Left
  <2>3. \E s \in {"list", "judge"}, ks \in SUBSET C!Keys : C!At(p, s, ks)
    BY <2>1, <2>2, JudgingDo
  <2>4. /\ stage' \in [C!Pulses -> {"off", "check", "judge", "record", "list", "resolve", "notify"}]
        /\ todo' \in [C!Pulses -> SUBSET C!Keys]
    BY <2>3, AtDo
  <2>5. /\ row' \in [C!Keys -> {"none", "open", "accepted"}] /\ fresh' \in [C!Pulses -> SUBSET C!Keys]
        /\ told' \in [C!Keys -> Nat] /\ healthy' \subseteq C!Keys /\ blind' \subseteq C!Keys
        /\ unsent' \subseteq C!Keys /\ shared' \subseteq C!Keys
    BY <2>1 DEF C!TypeOK
  <2>. QED
    BY <1>6, <2>4, <2>5 DEF C!Record, C!TypeOK, C!bounds
<1>7. ASSUME NEW p \in C!Pulses, C!List(p) PROVE C!TypeOK'
  <2>1. C!Stale(p) \in SUBSET C!Keys /\ fresh[p] \in SUBSET C!Keys /\ C!Resolving(p, C!Stale(p))
    BY <1>7 DEF C!Stale, C!List, C!TypeOK
  <2>2. \E s \in {"resolve", "notify"}, ks \in SUBSET C!Keys : C!At(p, s, ks)
    BY <2>1, ResolvingDo
  <2>3. /\ stage' \in [C!Pulses -> {"off", "check", "judge", "record", "list", "resolve", "notify"}]
        /\ todo' \in [C!Pulses -> SUBSET C!Keys]
    BY <2>2, AtDo
  <2>. QED
    BY <1>7, <2>3 DEF C!List, C!TypeOK, C!history, C!bounds
<1>8. ASSUME NEW p \in C!Pulses, C!Resolve(p) PROVE C!TypeOK'
  <2>1. PICK k \in todo[p] : row' = [row EXCEPT ![k] = "none"] /\ C!Resolving(p, C!Left(p, k))
    BY <1>8 DEF C!Resolve
  <2>2. C!Left(p, k) \in SUBSET C!Keys /\ fresh[p] \in SUBSET C!Keys
    BY DEF C!Left, C!TypeOK
  <2>3. \E s \in {"resolve", "notify"}, ks \in SUBSET C!Keys : C!At(p, s, ks)
    BY <2>1, <2>2, ResolvingDo
  <2>4. /\ stage' \in [C!Pulses -> {"off", "check", "judge", "record", "list", "resolve", "notify"}]
        /\ todo' \in [C!Pulses -> SUBSET C!Keys]
    BY <2>3, AtDo
  <2>5. row' \in [C!Keys -> {"none", "open", "accepted"}]
    BY <2>1 DEF C!TypeOK
  <2>. QED
    BY <1>8, <2>4, <2>5 DEF C!Resolve, C!TypeOK, C!history, C!bounds
<1>9. ASSUME NEW p \in C!Pulses, C!Notify(p) PROVE C!TypeOK'
  BY <1>9 DEF C!Notify, C!TypeOK, C!At, C!Left, C!NoFlaw, C!Flaw, C!bounds
<1>10. ASSUME NEW p \in C!Pulses, C!EndPulse(p) PROVE C!TypeOK'
  BY <1>10 DEF C!EndPulse, C!TypeOK, C!At, C!history, C!bounds
<1>11. ASSUME NEW p \in C!Pulses, C!Die(p) PROVE C!TypeOK'
  BY <1>11 DEF C!Die, C!TypeOK, C!At, C!Flaw
<1>. QED
  BY <1>1, <1>2, <1>3, <1>4, <1>5, <1>6, <1>7, <1>8, <1>9, <1>10, <1>11 DEF C!Next, C!PulseStep

LEMMA PlacesStep == ASSUME C!TypeOK, PlacesInv, C!Next PROVE PlacesInv'
<1>. USE DEF PlacesInv, C!TypeOK
<1>1. ASSUME NEW k \in C!Keys, C!Change(k) \/ C!Accept(k) PROVE PlacesInv'
  BY <1>1 DEF C!Change, C!Accept, C!pulse
<1>3. ASSUME NEW p \in C!Pulses, C!StartPulse(p) PROVE PlacesInv'
  BY <1>3 DEF C!StartPulse
<1>4. ASSUME NEW p \in C!Pulses, C!Check(p) PROVE PlacesInv'
  BY <1>4 DEF C!Check, C!At, C!Judging
<1>5. ASSUME NEW p \in C!Pulses, C!Judge(p) PROVE PlacesInv'
  BY <1>5 DEF C!Judge, C!At, C!Judging, C!Left
<1>6. ASSUME NEW p \in C!Pulses, C!Record(p) PROVE PlacesInv'
  BY <1>6 DEF C!Record, C!At, C!Judging, C!Left
<1>7. ASSUME NEW p \in C!Pulses, C!List(p) PROVE PlacesInv'
  BY <1>7 DEF C!List, C!At, C!Resolving
<1>8. ASSUME NEW p \in C!Pulses, C!Resolve(p) PROVE PlacesInv'
  BY <1>8 DEF C!Resolve, C!At, C!Resolving, C!Left
<1>9. ASSUME NEW p \in C!Pulses, C!Notify(p) PROVE PlacesInv'
  BY <1>9 DEF C!Notify, C!At, C!Left
<1>10. ASSUME NEW p \in C!Pulses, C!EndPulse(p) PROVE PlacesInv'
  BY <1>10 DEF C!EndPulse, C!At
<1>11. ASSUME NEW p \in C!Pulses, C!Die(p) PROVE PlacesInv'
  BY <1>11 DEF C!Die, C!At
<1>. QED
  BY <1>1, <1>3, <1>4, <1>5, <1>6, <1>7, <1>8, <1>9, <1>10, <1>11 DEF C!Next, C!PulseStep

\* A pulse that makes a step was not off, and leaves the other where it is.
LEMMA OthersStay ==
  ASSUME C!TypeOK, NEW p \in C!Pulses, C!PulseStep(p) \/ C!Die(p)
  PROVE  /\ stage[p] # "off"
         /\ \A q \in C!Pulses \ {p} : stage'[q] = stage[q] /\ todo'[q] = todo[q]
         /\ \A q \in C!Pulses \ {p} : fresh'[q] = fresh[q] /\ observed'[q] = observed[q]
<1>. USE DEF C!TypeOK
<1>4. CASE C!Check(p)
  BY <1>4 DEF C!Check, C!At, C!Judging
<1>5. CASE C!Judge(p)
  BY <1>5 DEF C!Judge, C!At, C!Judging
<1>6. CASE C!Record(p)
  BY <1>6 DEF C!Record, C!At, C!Judging
<1>7. CASE C!List(p)
  BY <1>7 DEF C!List, C!At, C!Resolving
<1>8. CASE C!Resolve(p)
  BY <1>8 DEF C!Resolve, C!At, C!Resolving
<1>9. CASE C!Notify(p)
  BY <1>9 DEF C!Notify, C!At
<1>10. CASE C!EndPulse(p)
  BY <1>10 DEF C!EndPulse, C!At
<1>11. CASE C!Die(p)
  BY <1>11 DEF C!Die, C!At
<1>. QED
  BY <1>4, <1>5, <1>6, <1>7, <1>8, <1>9, <1>10, <1>11 DEF C!PulseStep

LEMMA SharedStep == ASSUME C!TypeOK, SharedInv, C!Next PROVE SharedInv'
<1>. USE DEF SharedInv, C!TypeOK
<1>1. ASSUME NEW k \in C!Keys, C!Change(k) \/ C!Accept(k) PROVE SharedInv'
  BY <1>1 DEF C!Change, C!Accept, C!pulse, C!history
<1>2. ASSUME NEW p \in C!Pulses, C!StartPulse(p) PROVE SharedInv'
  BY <1>2, PulsesAre DEF C!StartPulse, C!Alone
<1>3. ASSUME NEW p \in C!Pulses, C!Record(p) PROVE SharedInv'
  <2>1. shared' = shared \/ C!Alone(p)
    BY <1>3 DEF C!Record
  <2>2. stage[p] # "off" /\ \A q \in C!Pulses \ {p} : stage'[q] = stage[q]
    BY <1>3, OthersStay DEF C!PulseStep
  <2>3. CASE C!Alone(p)
    BY <2>2, <2>3, PulsesAre DEF C!Alone
  <2>4. CASE shared' = shared
    BY <2>2, <2>4, PulsesAre
  <2>. QED
    BY <2>1, <2>3, <2>4
<1>4. ASSUME NEW p \in C!Pulses, C!PulseStep(p) \/ C!Die(p), ~C!Record(p) PROVE SharedInv'
  <2>1. stage[p] # "off" /\ \A q \in C!Pulses \ {p} : stage'[q] = stage[q]
    BY <1>4, OthersStay
  <2>2. shared' = shared
    BY <1>4 DEF C!PulseStep, C!Check, C!Judge, C!List, C!Resolve, C!Notify, C!EndPulse, C!Die, C!history
  <2>. QED
    BY <2>1, <2>2
<1>. QED
  BY <1>1, <1>2, <1>3, <1>4 DEF C!Next

\* Two of a pulse and a key are told apart: the telegrams of the other pulse stay.
LEMMA OthersTelegrams ==
  ASSUME C!TypeOK, NEW p \in C!Pulses, C!PulseStep(p) \/ C!Die(p), NEW q \in C!Pulses \ {p}, NEW k
  PROVE  Due(q, k)' = Due(q, k)
<1>1. stage'[q] = stage[q] /\ todo'[q] = todo[q] /\ fresh'[q] = fresh[q]
  BY OthersStay
<1>. QED
  BY <1>1 DEF Due, Telegram, C!Turn

LEMMA Bounded == \A p, k : Due(p, k) \in 0 .. 1
<1>. QED
  BY DEF Due

\* With no more telegrams of p than before, and no more told.
LEMMA ToldKept ==
  ASSUME C!TypeOK, ToldInv, NEW p \in C!Pulses, C!PulseStep(p) \/ C!Die(p), NEW k \in C!Keys,
         row[k] # "none", told'[k] + Due(p, k)' <= told[k] + Due(p, k),
         told'[k] \in Nat, k \in shared => k \in shared'
  PROVE  told'[k] + Due(Timer, k)' + Due(Manual, k)' <= (IF k \in shared' THEN 2 ELSE 1)
<1>1. told[k] \in Nat
  BY DEF C!TypeOK
<1>2. /\ Due(Timer, k) \in 0 .. 1 /\ Due(Manual, k) \in 0 .. 1
      /\ Due(Timer, k)' \in 0 .. 1 /\ Due(Manual, k)' \in 0 .. 1
  BY DEF Due
<1>3. told[k] + Due(Timer, k) + Due(Manual, k) <= (IF k \in shared THEN 2 ELSE 1)
  BY DEF ToldInv
<1>4. CASE p = Timer
  <2>1. Due(Manual, k)' = Due(Manual, k)
    BY <1>4, PulsesAre, OthersTelegrams
  <2>. QED
    BY <1>1, <1>2, <1>3, <1>4, <2>1
<1>5. CASE p = Manual
  <2>1. Due(Timer, k)' = Due(Timer, k)
    BY <1>5, PulsesAre, OthersTelegrams
  <2>. QED
    BY <1>1, <1>2, <1>3, <1>5, <2>1
<1>. QED
  BY <1>4, <1>5, PulsesAre

LEMMA ToldStep ==
  ASSUME C!TypeOK, C!TypeOK', PlacesInv, PlacesInv', SharedInv, ToldInv, C!Next
  PROVE  ToldInv'
<1>0. \A k \in C!Keys : told[k] \in Nat /\ told'[k] \in Nat
  BY DEF C!TypeOK
<1>1. ASSUME NEW x \in C!Keys, C!Change(x) \/ C!Accept(x) PROVE ToldInv'
  <2>1. UNCHANGED <<stage, todo, fresh, told, shared>>
    BY <1>1 DEF C!Change, C!Accept, C!pulse, C!history
  <2>2. \A k \in C!Keys : row'[k] # "none" => row[k] # "none"
    BY <1>1 DEF C!Change, C!Accept, C!TypeOK
  <2>. QED
    BY <2>1, <2>2 DEF ToldInv, Due, Telegram, C!Turn
<1>2. ASSUME NEW p \in C!Pulses, C!StartPulse(p) PROVE ToldInv'
  <2>1. /\ stage[p] = "off" /\ stage'[p] = "check" /\ UNCHANGED <<fresh, told, row>> /\ shared \subseteq shared'
        /\ \A q \in C!Pulses \ {p} : stage'[q] = stage[q] /\ todo'[q] = todo[q]
    BY <1>2 DEF C!StartPulse, C!TypeOK
  <2>2. ASSUME NEW q \in C!Pulses, NEW k PROVE Due(q, k)' = Due(q, k)
    BY <2>1 DEF Due, Telegram, C!Turn
  <2>3. ASSUME NEW k \in C!Keys, row[k] # "none"
        PROVE  told[k] + Due(Timer, k) + Due(Manual, k) <= (IF k \in shared' THEN 2 ELSE 1)
    BY <1>0, <2>1, <2>3, Bounded DEF ToldInv
  <2>. QED
    BY <2>1, <2>2, <2>3, PulsesAre DEF ToldInv
<1>3. ASSUME NEW p \in C!Pulses, C!Check(p) \/ C!Judge(p) \/ C!List(p) \/ C!Resolve(p) \/ C!EndPulse(p) PROVE ToldInv'
  <2>1. C!PulseStep(p)
    BY <1>3 DEF C!PulseStep
  <2>2. UNCHANGED <<fresh, told, shared>> /\ \A k \in C!Keys : row'[k] # "none" => row[k] # "none"
    BY <1>3 DEF C!Check, C!Judge, C!List, C!Resolve, C!EndPulse, C!history, C!TypeOK
  <2>3. ASSUME NEW k \in C!Keys, row'[k] # "none" PROVE Due(p, k)' <= Due(p, k)
    <3>1. CASE C!Judge(p)
      <4>1. PICK j \in C!Keys : /\ C!Turn(p, j)
                                /\ IF C!Unseen(j) THEN C!At(p, "record", todo[p]) ELSE C!Judging(p, C!Left(p, j))
        BY <3>1 DEF C!Judge
      <4>2. CASE C!Unseen(j)
        <5>1. row[k] # "none" /\ todo'[p] = todo[p]
          BY <2>2, <2>3, <4>1, <4>2 DEF C!At, C!TypeOK
        <5>2. C!Turn(p, k)' => C!Turn(p, k)
          BY <5>1 DEF C!Turn
        <5>3. k # j
          BY <4>2, <5>1 DEF C!Unseen
        <5>4. ~ C!Turn(p, k)'
          BY <4>1, <5>2, <5>3, OneTurn
        <5>. QED
          BY <2>2, <5>4 DEF Due, Telegram
      <4>3. CASE ~ C!Unseen(j)
        <5>1. stage'[p] # "record"
          BY <4>1, <4>3 DEF C!Judging, C!At, C!TypeOK
        <5>. QED
          BY <2>2, <5>1 DEF Due, Telegram
      <4>. QED
        BY <4>2, <4>3
    <3>2. CASE C!Check(p) \/ C!List(p) \/ C!Resolve(p) \/ C!EndPulse(p)
      <4>1. stage'[p] # "record"
        BY <3>2 DEF C!Check, C!List, C!Resolve, C!EndPulse, C!Judging, C!Resolving, C!At, C!TypeOK
      <4>. QED
        BY <2>2, <4>1 DEF Due, Telegram
    <3>. QED
      BY <1>3, <3>1, <3>2
  <2>4. ASSUME NEW k \in C!Keys, row'[k] # "none"
        PROVE  told'[k] + Due(Timer, k)' + Due(Manual, k)' <= (IF k \in shared' THEN 2 ELSE 1)
    <3>1. Due(p, k)' <= Due(p, k) /\ row[k] # "none" /\ told'[k] = told[k] /\ shared' = shared
      BY <2>2, <2>3, <2>4
    <3>2. Due(p, k) \in 0 .. 1 /\ Due(p, k)' \in 0 .. 1
      BY DEF Due
    <3>3. told'[k] + Due(p, k)' <= told[k] + Due(p, k)
      BY <1>0, <3>1, <3>2
    <3>. QED
      BY <1>0, <2>1, <3>1, <3>3, ToldKept
  <2>. QED
    BY <2>4 DEF ToldInv
<1>4. ASSUME NEW p \in C!Pulses, C!Record(p) PROVE ToldInv'
  <2>0. C!PulseStep(p)
    BY <1>4 DEF C!PulseStep
  <2>1. PICK j \in C!Keys :
          /\ C!Turn(p, j) /\ C!Judging(p, C!Left(p, j))
          /\ row' = [row EXCEPT ![j] = IF @ = "none" THEN "open" ELSE @]
          /\ fresh' = [fresh EXCEPT ![p] = @ \cup {j}]
          /\ IF row[j] = "none"
             THEN told' = [told EXCEPT ![j] = 0] /\ shared' = IF C!Alone(p) THEN shared \ {j} ELSE shared
             ELSE UNCHANGED <<told, shared>>
    BY <1>4 DEF C!Record
  <2>2. stage[p] = "record" /\ stage'[p] # "record" /\ fresh'[p] = fresh[p] \cup {j}
    BY <1>4, <2>1 DEF C!Record, C!Judging, C!At, C!TypeOK
  <2>3. ASSUME NEW k \in C!Keys PROVE Due(p, k)' <= Due(p, k)
    <3>1. k \in fresh'[p] => Telegram(p, k)
      BY <2>1, <2>2 DEF Telegram
    <3>. QED
      BY <2>2, <3>1 DEF Due, Telegram
  <2>4. ASSUME NEW k \in C!Keys, row'[k] # "none"
        PROVE  told'[k] + Due(Timer, k)' + Due(Manual, k)' <= (IF k \in shared' THEN 2 ELSE 1)
    <3>1. CASE row[k] # "none"
      <4>1. told'[k] = told[k] /\ (k \in shared => k \in shared')
        BY <2>1, <3>1 DEF C!TypeOK
      <4>2. Due(p, k) \in 0 .. 1 /\ Due(p, k)' \in 0 .. 1 /\ Due(p, k)' <= Due(p, k)
        BY <2>3 DEF Due
      <4>3. told'[k] + Due(p, k)' <= told[k] + Due(p, k)
        BY <1>0, <4>1, <4>2
      <4>. QED
        BY <1>0, <2>0, <3>1, <4>1, <4>3, ToldKept
    <3>2. CASE row[k] = "none"
      <4>1. k = j /\ told'[k] = 0 /\ (shared' = IF C!Alone(p) THEN shared \ {j} ELSE shared)
        BY <2>1, <2>4, <3>2 DEF C!TypeOK
      <4>2. Due(Timer, k)' \in 0 .. 1 /\ Due(Manual, k)' \in 0 .. 1
        BY DEF Due
      <4>3. CASE C!Alone(p)
        <5>1. ASSUME NEW q \in C!Pulses \ {p} PROVE Due(q, k)' = 0
          <6>1. stage[q] = "off"
            BY <4>3 DEF C!Alone
          <6>2. Due(q, k) = 0
            BY <6>1 DEF Due, Telegram, PlacesInv
          <6>. QED
            BY <2>0, <6>2, OthersTelegrams
        <5>. QED
          BY <4>1, <4>2, <4>3, <5>1, PulsesAre
      <4>4. CASE ~C!Alone(p)
        <5>1. shared = C!Keys
          BY <2>2, <4>4, PulsesAre DEF C!Alone, SharedInv
        <5>. QED
          BY <4>1, <4>2, <4>4, <5>1
      <4>. QED
        BY <4>3, <4>4
    <3>. QED
      BY <3>1, <3>2
  <2>. QED
    BY <2>4 DEF ToldInv
<1>5. ASSUME NEW p \in C!Pulses, C!Notify(p) PROVE ToldInv'
  <2>0. C!PulseStep(p)
    BY <1>5 DEF C!PulseStep
  <2>1. PICK j \in C!Keys :
          /\ C!Turn(p, j) /\ C!At(p, "notify", C!Left(p, j))
          /\ fresh' = [fresh EXCEPT ![p] = @ \ {j}]
          /\ told' = told \/ told' = [told EXCEPT ![j] = @ + 1]
    BY <1>5 DEF C!Notify
  <2>2. j \in fresh[p] /\ stage'[p] = "notify" /\ stage[p] = "notify" /\ row' = row /\ shared' = shared
        /\ fresh'[p] = fresh[p] \ {j}
    BY <1>5, <2>1 DEF C!Notify, C!Turn, C!At, PlacesInv, C!TypeOK
  <2>3. ASSUME NEW k \in C!Keys PROVE told'[k] + Due(p, k)' <= told[k] + Due(p, k)
    <3>1. CASE k = j
      <4>1. Due(p, k) = 1 /\ Due(p, k)' = 0
        BY <2>2, <3>1 DEF Due, Telegram
      <4>2. told'[k] = told[k] \/ told'[k] = told[k] + 1
        BY <2>1, <3>1 DEF C!TypeOK
      <4>. QED
        BY <1>0, <4>1, <4>2
    <3>2. CASE k # j
      <4>1. Due(p, k)' = Due(p, k) /\ Due(p, k) \in 0 .. 1
        BY <2>2, <3>2 DEF Due, Telegram
      <4>2. told'[k] = told[k]
        BY <2>1, <3>2 DEF C!TypeOK
      <4>. QED
        BY <1>0, <4>1, <4>2
    <3>. QED
      BY <3>1, <3>2
  <2>4. ASSUME NEW k \in C!Keys, row'[k] # "none"
        PROVE  told'[k] + Due(Timer, k)' + Due(Manual, k)' <= (IF k \in shared' THEN 2 ELSE 1)
    BY <1>0, <2>0, <2>2, <2>3, <2>4, ToldKept
  <2>. QED
    BY <2>4 DEF ToldInv
<1>6. ASSUME NEW p \in C!Pulses, C!Die(p) PROVE ToldInv'
  <2>1. stage'[p] = "off" /\ fresh'[p] = {} /\ UNCHANGED <<row, told, shared>>
    BY <1>6 DEF C!Die, C!At, C!TypeOK
  <2>2. ASSUME NEW k \in C!Keys, row'[k] # "none"
        PROVE  told'[k] + Due(Timer, k)' + Due(Manual, k)' <= (IF k \in shared' THEN 2 ELSE 1)
    <3>1. Due(p, k)' = 0 /\ Due(p, k) \in 0 .. 1
      BY <2>1 DEF Due, Telegram
    <3>2. told'[k] + Due(p, k)' <= told[k] + Due(p, k)
      BY <1>0, <2>1, <3>1
    <3>. QED
      BY <1>0, <1>6, <2>1, <2>2, <3>2, ToldKept
  <2>. QED
    BY <2>2 DEF ToldInv
<1>. QED
  BY <1>1, <1>2, <1>3, <1>4, <1>5, <1>6 DEF C!Next, C!PulseStep

LEMMA RowsStep ==
  ASSUME C!TypeOK, PlacesInv, C!RowsWereTold, C!Next
  PROVE  C!RowsWereTold'
<1>. USE DEF C!RowsWereTold, C!TypeOK
<1>1. ASSUME NEW x \in C!Keys, C!Change(x) \/ C!Accept(x) PROVE C!RowsWereTold'
  BY <1>1 DEF C!Change, C!Accept, C!pulse, C!history
<1>2. ASSUME NEW p \in C!Pulses, C!StartPulse(p) PROVE C!RowsWereTold'
  BY <1>2 DEF C!StartPulse
<1>3. ASSUME NEW p \in C!Pulses, C!Check(p) \/ C!Judge(p) \/ C!List(p) \/ C!Resolve(p) \/ C!EndPulse(p)
      PROVE  C!RowsWereTold'
  <2>1. UNCHANGED <<fresh, told, unsent, shared>> /\ \A k \in C!Keys : row'[k] # "none" => row[k] # "none"
    BY <1>3 DEF C!Check, C!Judge, C!List, C!Resolve, C!EndPulse, C!history
  <2>. QED
    BY <2>1
<1>4. ASSUME NEW p \in C!Pulses, C!Record(p) PROVE C!RowsWereTold'
  <2>1. PICK j \in C!Keys :
          /\ row' = [row EXCEPT ![j] = IF @ = "none" THEN "open" ELSE @]
          /\ fresh' = [fresh EXCEPT ![p] = @ \cup {j}]
          /\ IF row[j] = "none"
             THEN /\ told' = [told EXCEPT ![j] = 0] /\ unsent' = unsent \ {j}
                  /\ shared' = IF C!Alone(p) THEN shared \ {j} ELSE shared
             ELSE UNCHANGED <<told, unsent, shared>>
    BY <1>4 DEF C!Record
  <2>2. j \in fresh'[p] /\ \A q \in C!Pulses : fresh[q] \subseteq fresh'[q]
    BY <2>1
  <2>3. ASSUME NEW k \in C!Keys, k # j
        PROVE  told'[k] = told[k] /\ row'[k] = row[k] /\ (k \in unsent <=> k \in unsent') /\ (k \in shared <=> k \in shared')
    BY <2>1, <2>3
  <2>. QED
    BY <2>2, <2>3
<1>5. ASSUME NEW p \in C!Pulses, C!Notify(p) PROVE C!RowsWereTold'
  <2>1. PICK j \in C!Keys :
          /\ fresh' = [fresh EXCEPT ![p] = @ \ {j}]
          /\ \/ told' = [told EXCEPT ![j] = @ + 1] /\ UNCHANGED unsent
             \/ unsent' = unsent \cup {j} /\ UNCHANGED told
    BY <1>5 DEF C!Notify
  <2>2. UNCHANGED <<row, shared>>
    BY <1>5 DEF C!Notify
  <2>3. told'[j] > 0 \/ j \in unsent'
    BY <2>1
  <2>4. ASSUME NEW k \in C!Keys, k # j
        PROVE  /\ told'[k] = told[k] /\ (k \in unsent => k \in unsent')
               /\ \A q \in C!Pulses : k \in fresh[q] => k \in fresh'[q]
    BY <2>1, <2>4
  <2>. QED
    BY <2>2, <2>3, <2>4
<1>6. ASSUME NEW p \in C!Pulses, C!Die(p) PROVE C!RowsWereTold'
  <2>1. /\ UNCHANGED <<row, told, shared>> /\ unsent' = unsent \cup fresh[p]
        /\ \A q \in C!Pulses \ {p} : fresh'[q] = fresh[q]
    BY <1>6 DEF C!Die
  <2>. QED
    BY <2>1
<1>. QED
  BY <1>1, <1>2, <1>3, <1>4, <1>5, <1>6 DEF C!Next, C!PulseStep

\* What another pulse was to delete stays excused, as long as the rows and the excuses do.
LEMMA SolvedKept ==
  ASSUME C!TypeOK, SolvedInv, NEW p \in C!Pulses, C!PulseStep(p) \/ C!Die(p), ~C!Record(p)
  PROVE  /\ \A k \in C!Keys : row'[k] # "none" => row[k] # "none" /\ (Excused(k) => Excused(k)')
         /\ UNCHANGED <<level, healthy>>
<1>1. UNCHANGED <<level, healthy, shared>> /\ blind \subseteq blind'
  BY DEF C!PulseStep, C!Check, C!Judge, C!List, C!Resolve, C!Notify, C!EndPulse, C!Die, C!history
<1>2. \A k \in C!Keys : row'[k] # "none" => row[k] # "none"
  BY DEF C!PulseStep, C!Check, C!Judge, C!List, C!Resolve, C!Notify, C!EndPulse, C!Die, C!TypeOK
<1>. QED
  BY <1>1, <1>2 DEF Excused

LEMMA SolvedStep ==
  ASSUME C!TypeOK, PlacesInv, SharedInv, SolvedInv, C!Next
  PROVE  SolvedInv'
<1>. USE DEF C!TypeOK
<1>1. ASSUME NEW x \in C!Keys, C!Change(x) PROVE SolvedInv'
  <2>1. UNCHANGED <<row, stage, todo, observed, blind, shared>> /\ healthy \subseteq healthy'
    BY <1>1 DEF C!Change, C!pulse
  <2>2. ASSUME NEW k \in C!Keys, row[k] # "none", level'[k] = "healthy" PROVE k \in healthy'
    BY <1>1, <2>1, <2>2 DEF C!Change, SolvedInv
  <2>. QED
    BY <2>1, <2>2 DEF SolvedInv, Excused
<1>2. ASSUME NEW x \in C!Keys, C!Accept(x) PROVE SolvedInv'
  <2>1. UNCHANGED <<level, stage, todo, observed, healthy, blind, shared>>
    BY <1>2 DEF C!Accept, C!pulse, C!history
  <2>2. \A k \in C!Keys : row'[k] # "none" => row[k] # "none"
    BY <1>2 DEF C!Accept
  <2>. QED
    BY <2>1, <2>2 DEF SolvedInv, Excused
<1>3. ASSUME NEW p \in C!Pulses, C!StartPulse(p) PROVE SolvedInv'
  <2>1. /\ UNCHANGED <<level, row, observed, healthy, blind>> /\ shared \subseteq shared'
        /\ stage'[p] = "check" /\ todo'[p] = C!Keys
        /\ \A q \in C!Pulses \ {p} : stage'[q] = stage[q] /\ todo'[q] = todo[q]
    BY <1>3 DEF C!StartPulse
  <2>. QED
    BY <2>1 DEF SolvedInv, Excused
\* A step of a pulse that makes no row: it is enough to look at that pulse.
<1>4. ASSUME NEW p \in C!Pulses, C!PulseStep(p) \/ C!Die(p), ~C!Record(p),
             \A k \in C!Keys : row'[k] # "none" =>
               /\ stage'[p] = "check" /\ k \notin todo'[p] \cup observed'[p] => Excused(k)'
               /\ stage'[p] \in {"judge", "record", "list"} /\ k \notin observed'[p] => Excused(k)'
               /\ stage'[p] = "resolve" /\ k \in todo'[p] => Excused(k)'
      PROVE  SolvedInv'
  <2>1. /\ \A q \in C!Pulses \ {p} : stage'[q] = stage[q] /\ todo'[q] = todo[q] /\ observed'[q] = observed[q]
    BY <1>4, OthersStay
  <2>2. /\ \A k \in C!Keys : row'[k] # "none" => row[k] # "none" /\ (Excused(k) => Excused(k)')
        /\ UNCHANGED <<level, healthy>>
    BY <1>4, SolvedKept
  <2>3. ASSUME NEW q \in C!Pulses \ {p}, NEW k \in C!Keys, row'[k] # "none"
        PROVE  /\ stage'[q] = "check" /\ k \notin todo'[q] \cup observed'[q] => Excused(k)'
               /\ stage'[q] \in {"judge", "record", "list"} /\ k \notin observed'[q] => Excused(k)'
               /\ stage'[q] = "resolve" /\ k \in todo'[q] => Excused(k)'
    BY <2>1, <2>2, <2>3 DEF SolvedInv
  <2>. QED
    BY <1>4, <2>2, <2>3 DEF SolvedInv
<1>5. ASSUME NEW p \in C!Pulses, C!Check(p) PROVE SolvedInv'
  <2>0. C!PulseStep(p) /\ ~C!Record(p) /\ stage[p] = "check"
    BY <1>5 DEF C!PulseStep, C!Check, C!Record
  <2>1. PICK j \in C!Keys :
          /\ C!Turn(p, j)
          /\ \/ observed' = [observed EXCEPT ![p] = @ \cup IF C!Produced(j) THEN {j} ELSE {}]
             \/ UNCHANGED observed /\ blind' = blind \cup {j}
          /\ IF C!Left(p, j) = {} THEN C!Judging(p, observed'[p]) ELSE C!At(p, "check", C!Left(p, j))
    BY <1>5 DEF C!Check
  <2>2. \/ stage'[p] = "check" /\ todo'[p] = todo[p] \ {j}
        \/ stage'[p] \in {"judge", "list"} /\ todo[p] \ {j} = {}
    BY <2>1 DEF C!At, C!Judging, C!Left
  <2>3. /\ \A k \in C!Keys : row'[k] # "none" => row[k] # "none" /\ (Excused(k) => Excused(k)')
        /\ UNCHANGED <<level, healthy>>
    BY <2>0, SolvedKept
  <2>4. ASSUME NEW k \in C!Keys, row'[k] # "none", k \notin todo[p] \ {j}, k \notin observed'[p]
        PROVE  Excused(k)'
    <3>1. row[k] # "none" /\ k \notin observed[p]
      BY <2>1, <2>3, <2>4
    <3>2. CASE k # j
      BY <2>0, <2>3, <2>4, <3>1, <3>2 DEF SolvedInv
    <3>3. CASE k = j
      <4>1. ~C!Produced(j) \/ j \in blind'
        BY <2>1, <2>4, <3>3
      <4>2. ASSUME ~C!Produced(j) PROVE j \in healthy
        <5>1. level[j] = "healthy"
          BY <3>1, <3>3, <4>2 DEF C!Produced, C!Levels
        <5>. QED
          BY <3>1, <3>3, <5>1 DEF SolvedInv
      <4>. QED
        BY <2>3, <3>3, <4>1, <4>2 DEF Excused
    <3>. QED
      BY <3>2, <3>3
  <2>5. \A k \in C!Keys : row'[k] # "none" =>
          /\ stage'[p] = "check" /\ k \notin todo'[p] \cup observed'[p] => Excused(k)'
          /\ stage'[p] \in {"judge", "record", "list"} /\ k \notin observed'[p] => Excused(k)'
          /\ stage'[p] = "resolve" /\ k \in todo'[p] => Excused(k)'
    BY <2>2, <2>4
  <2>. QED
    BY <1>4, <2>0, <2>5
<1>6. ASSUME NEW p \in C!Pulses, C!Judge(p) PROVE SolvedInv'
  <2>0. C!PulseStep(p) /\ ~C!Record(p) /\ stage[p] = "judge"
    BY <1>6 DEF C!PulseStep, C!Judge, C!Record
  <2>1. stage'[p] \in {"judge", "record", "list"} /\ observed' = observed
    BY <1>6 DEF C!Judge, C!At, C!Judging
  <2>2. \A k \in C!Keys : row'[k] # "none" => row[k] # "none" /\ (Excused(k) => Excused(k)')
    BY <2>0, SolvedKept
  <2>. QED
    BY <1>4, <2>0, <2>1, <2>2 DEF SolvedInv
<1>7. ASSUME NEW p \in C!Pulses, C!Record(p) PROVE SolvedInv'
  <2>0. C!PulseStep(p) /\ stage[p] = "record" /\ UNCHANGED <<level, observed>>
    BY <1>7 DEF C!PulseStep, C!Record
  <2>1. PICK j \in C!Keys :
          /\ C!Turn(p, j) /\ C!Judging(p, C!Left(p, j))
          /\ row' = [row EXCEPT ![j] = IF @ = "none" THEN "open" ELSE @]
          /\ IF row[j] = "none"
             THEN /\ healthy' = IF level[j] = "healthy" THEN healthy \cup {j} ELSE healthy \ {j}
                  /\ blind' = blind \ {j}
                  /\ shared' = IF C!Alone(p) THEN shared \ {j} ELSE shared
             ELSE UNCHANGED <<healthy, blind, shared>>
    BY <1>7 DEF C!Record
  <2>2. stage'[p] \in {"judge", "list"} /\ j \in observed[p]
    BY <2>0, <2>1 DEF C!At, C!Judging, C!Turn, PlacesInv
  <2>3. \A q \in C!Pulses \ {p} : stage'[q] = stage[q] /\ todo'[q] = todo[q]
    BY <2>0, OthersStay
  <2>4. ASSUME NEW k \in C!Keys, row'[k] # "none", row[k] # "none"
        PROVE  (Excused(k) => Excused(k)') /\ (k \in healthy => k \in healthy')
    BY <2>1, <2>4 DEF Excused
  <2>5. ASSUME NEW k \in C!Keys, row'[k] # "none", row[k] = "none"
        PROVE  k = j /\ (level'[k] = "healthy" => k \in healthy')
               /\ \A q \in C!Pulses \ {p} : stage[q] # "off" => Excused(k)'
    <3>1. k = j
      BY <2>1, <2>5
    <3>2. ASSUME NEW q \in C!Pulses \ {p}, stage[q] # "off" PROVE Excused(k)'
      <4>1. shared = C!Keys /\ ~C!Alone(p)
        BY <2>0, <3>2, PulsesAre DEF SharedInv, C!Alone
      <4>. QED
        BY <2>1, <4>1, <3>1, <2>5 DEF Excused
    <3>. QED
      BY <2>0, <2>1, <2>5, <3>1, <3>2
  <2>6. \A k \in C!Keys : row'[k] # "none" /\ level'[k] = "healthy" => k \in healthy'
    BY <2>0, <2>4, <2>5 DEF SolvedInv
  <2>7. ASSUME NEW k \in C!Keys, row'[k] # "none", k \notin observed[p] PROVE Excused(k)'
    BY <2>0, <2>2, <2>4, <2>5, <2>7 DEF SolvedInv
  <2>8. ASSUME NEW q \in C!Pulses \ {p}, NEW k \in C!Keys, row'[k] # "none"
        PROVE  /\ stage[q] = "check" /\ k \notin todo[q] \cup observed[q] => Excused(k)'
               /\ stage[q] \in {"judge", "record", "list"} /\ k \notin observed[q] => Excused(k)'
               /\ stage[q] = "resolve" /\ k \in todo[q] => Excused(k)'
    BY <2>4, <2>5, <2>8 DEF SolvedInv
  <2>. QED
    BY <2>0, <2>2, <2>3, <2>6, <2>7, <2>8 DEF SolvedInv
<1>8. ASSUME NEW p \in C!Pulses, C!List(p) PROVE SolvedInv'
  <2>0. C!PulseStep(p) /\ ~C!Record(p) /\ stage[p] = "list"
    BY <1>8 DEF C!PulseStep, C!List, C!Record
  <2>1. stage'[p] = "notify" \/ (stage'[p] = "resolve" /\ todo'[p] = C!Stale(p))
    BY <1>8 DEF C!List, C!At, C!Resolving
  <2>2. \A k \in C!Keys : row'[k] # "none" => row[k] # "none" /\ (Excused(k) => Excused(k)')
    BY <2>0, SolvedKept
  <2>3. \A k \in C!Stale(p) : row'[k] # "none" => Excused(k)'
    BY <2>0, <2>2 DEF SolvedInv, C!Stale
  <2>. QED
    BY <1>4, <2>0, <2>1, <2>3
<1>9. ASSUME NEW p \in C!Pulses, C!Resolve(p) PROVE SolvedInv'
  <2>0. C!PulseStep(p) /\ ~C!Record(p) /\ stage[p] = "resolve"
    BY <1>9 DEF C!PulseStep, C!Resolve, C!Record
  <2>1. stage'[p] = "notify" \/ (stage'[p] = "resolve" /\ todo'[p] \subseteq todo[p])
    BY <1>9 DEF C!Resolve, C!At, C!Resolving, C!Left
  <2>2. \A k \in C!Keys : row'[k] # "none" => row[k] # "none" /\ (Excused(k) => Excused(k)')
    BY <2>0, SolvedKept
  <2>. QED
    BY <1>4, <2>0, <2>1, <2>2 DEF SolvedInv
<1>10. ASSUME NEW p \in C!Pulses, C!Notify(p) \/ C!EndPulse(p) \/ C!Die(p) PROVE SolvedInv'
  <2>1. stage'[p] \in {"notify", "off"} /\ (C!PulseStep(p) \/ C!Die(p))
    BY <1>10 DEF C!Notify, C!EndPulse, C!Die, C!At, C!PulseStep
  <2>2. ~C!Record(p)
    BY <1>10, <2>1 DEF C!Notify, C!EndPulse, C!Die, C!Record, C!At, C!Judging
  <2>. QED
    BY <1>4, <2>1, <2>2
<1>. QED
  BY <1>1, <1>2, <1>3, <1>5, <1>6, <1>7, <1>8, <1>9, <1>10 DEF C!Next, C!PulseStep

\* Rows are deleted one at a time, by a pulse that was to do so.
LEMMA DeletedExcused ==
  ASSUME C!TypeOK, SolvedInv, C!Next, NEW k \in C!Keys, row[k] # "none", row'[k] = "none"
  PROVE  Excused(k)
<1>1. PICK p \in C!Pulses : C!Resolve(p)
  <2>1. ~ (\E x \in C!Keys : C!Change(x) \/ C!Accept(x))
    BY DEF C!Change, C!Accept, C!TypeOK
  <2>2. ~ (\E p \in C!Pulses : C!StartPulse(p) \/ C!Die(p) \/ C!Check(p) \/ C!Judge(p) \/ C!List(p)
                                \/ C!Notify(p) \/ C!EndPulse(p))
    BY DEF C!StartPulse, C!Die, C!Check, C!Judge, C!List, C!Notify, C!EndPulse
  <2>3. ~ (\E p \in C!Pulses : C!Record(p))
    BY DEF C!Record, C!TypeOK
  <2>. QED
    BY <2>1, <2>2, <2>3 DEF C!Next, C!PulseStep
<1>2. k \in todo[p] /\ stage[p] = "resolve"
  BY <1>1 DEF C!Resolve, C!TypeOK
<1>. QED
  BY <1>2 DEF SolvedInv

LEMMA PulseAtRest == ASSUME PulseInv, UNCHANGED pulses PROVE PulseInv'
<1>1. /\ UNCHANGED <<level, row, stage, todo, observed, fresh, told, healthy, blind, unsent, shared>>
      /\ UNCHANGED <<changes, accepts, flaws>>
  BY DEF pulses
<1>2. C!TypeOK'
  BY <1>1 DEF PulseInv, C!TypeOK, C!Levels
<1>3. PlacesInv' /\ SharedInv' /\ C!RowsWereTold'
  BY <1>1 DEF PulseInv, PlacesInv, SharedInv, C!RowsWereTold
<1>4. ToldInv' /\ SolvedInv'
  BY <1>1 DEF PulseInv, ToldInv, SolvedInv, Excused, Due, Telegram, C!Turn
<1>. QED
  BY <1>2, <1>3, <1>4 DEF PulseInv

LEMMA PulseStepKeeps == ASSUME PulseInv, [Next]_vars PROVE PulseInv'
<1>1. CASE C!Next
  BY <1>1, TypeStep, PlacesStep, SharedStep, ToldStep, RowsStep, SolvedStep DEF PulseInv
<1>2. CASE UNCHANGED pulses
  BY <1>2, PulseAtRest
<1>. QED
  BY <1>1, <1>2 DEF Next, Sweeping, Caring, Migrating, vars

LEMMA PulseInvariant == Spec => []PulseInv
<1>1. Init => PulseInv
  BY PulseAtFirst
<1>2. PulseInv /\ [Next]_vars => PulseInv'
  BY PulseStepKeeps
<1>. QED
  BY <1>1, <1>2, PTL DEF Spec

\* A problem is told once in the life of its row, a row tells of a telegram (dedup.py record_finding), and
\* a row is deleted only of what was healthy, could not be checked, or was seen by two pulses at once
\* (pulse.py run).
THEOREM PulsesAreSoundAlways == Spec => PulsesAreSound
<1>1. PulseInv => C!TypeOK /\ C!ToldOnce /\ C!RowsWereTold
  <2>1. ASSUME PulseInv PROVE C!ToldOnce
    <3>1. \A k \in C!Keys : told[k] \in Nat
      BY <2>1 DEF PulseInv, C!TypeOK
    <3>. QED
      BY <2>1, <3>1, Bounded DEF PulseInv, ToldInv, C!ToldOnce
  <2>. QED
    BY <2>1 DEF PulseInv
<1>2. PulseInv /\ [Next]_vars =>
        [\A k \in C!Keys : row[k] # "none" /\ row'[k] = "none" => k \in healthy \cup blind \cup shared]_(C!vars)
  <2>1. ASSUME PulseInv, C!Next, NEW k \in C!Keys, row[k] # "none", row'[k] = "none"
        PROVE  k \in healthy \cup blind \cup shared
    BY <2>1, DeletedExcused DEF PulseInv, Excused
  <2>2. ASSUME UNCHANGED pulses PROVE UNCHANGED C!vars
    BY <2>2 DEF pulses, C!vars, C!pulse, C!history, C!bounds
  <2>. QED
    BY <2>1, <2>2 DEF Next, Sweeping, Caring, Migrating, vars
<1>3. Spec => [][\A k \in C!Keys : row[k] # "none" /\ row'[k] = "none" => k \in healthy \cup blind \cup shared]_(C!vars)
  BY <1>2, PulseInvariant, PTL DEF Spec
<1>4. Spec => C!SolvedMeansHealthy
  BY <1>3 DEF C!SolvedMeansHealthy
<1>. QED
  BY <1>1, <1>4, PulseInvariant, PTL DEF PulsesAreSound

-----------------------------------------------------------------------------
(* The sweeps.                                                             *)

Place(s)    == CHOOSE i \in 1 .. S!N : Order[i] = s
Distance(s) == IF Place(s) > offset THEN Place(s) - 1 - offset ELSE Place(s) - 1 - offset + S!N
First(s)    == Len(queue) = S!N /\ Head(queue) = s

\* The rounds that were lost to failed gates.
Lost == S!N * trouble

LateInv ==
  \A s \in S!Names :
    /\ First(s) => Distance(s) = S!N - 1 /\ (late[s] > 0 => S!Due(s, tick))
    /\ late[s] <= Lost + (IF First(s) THEN S!N ELSE S!N - 1 - Distance(s))

\* The table holds the latest events, and what the rollup has selected is old by now.
EventInv ==
  /\ raw \subseteq 0 .. now /\ \A e \in raw : e .. now \subseteq raw
  /\ \A e \in summed : e < now - Retention
  /\ \A d \in S!Days : daily[d] \subseteq 0 .. now

SweepInv == S!TypeOK /\ LateInv /\ EventInv /\ S!NoDoubleCounting /\ S!EventsAccounted

LEMMA SweepsAre ==
  /\ S!N \in Nat \ {0} /\ Rollup \in S!Names /\ Order \in Seq(S!Names)
  /\ S!Names = {Order[i] : i \in 1 .. S!N} /\ \A i, j \in 1 .. S!N : Order[i] = Order[j] => i = j
  /\ DayLength \in Nat \ {0} /\ Retention \in Nat /\ LastSlot \in Nat /\ SweepFaults \in Nat
<1>1. Order \in Seq(S!Names) /\ Rollup \in S!Names /\ S!IsInjective(Order)
  BY HousekeepingAssumption DEF S!SweepsAssumption
<1>2. S!N \in Nat /\ DOMAIN Order = 1 .. S!N
  BY <1>1 DEF S!N
<1>3. S!Names = {Order[i] : i \in 1 .. S!N}
  BY <1>2 DEF S!Names, S!ToSet
<1>4. S!N # 0
  BY <1>1, <1>2, <1>3
<1>5. \A i, j \in 1 .. S!N : Order[i] = Order[j] => i = j
  BY <1>1, <1>2 DEF S!IsInjective
<1>. QED
  BY <1>1, <1>2, <1>3, <1>4, <1>5, HousekeepingAssumption DEF S!SweepsAssumption

LEMMA SizesAre == S!N \in Nat \ {0} /\ 0 \in 0 .. S!N - 1 /\ SweepFaults \in Nat /\ Retention \in Nat
<1>1. S!N \in Nat \ {0}
  BY SweepsAre
<1>. QED
  BY <1>1, SweepsAre

LEMMA PlaceOf == ASSUME NEW s \in S!Names PROVE Place(s) \in 1 .. S!N /\ Order[Place(s)] = s
<1>1. \E i \in 1 .. S!N : Order[i] = s
  BY SweepsAre
<1>. QED
  BY <1>1 DEF Place

LEMMA DistanceIs ==
  ASSUME NEW s \in S!Names
  PROVE  /\ offset \in 0 .. S!N - 1 => Distance(s) \in 0 .. S!N - 1
         /\ offset' \in 0 .. S!N - 1 => Distance(s)' \in 0 .. S!N - 1
<1>1. ASSUME NEW n \in Nat, NEW i \in 1 .. n, NEW o \in 0 .. n - 1
      PROVE  (IF i > o THEN i - 1 - o ELSE i - 1 - o + n) \in 0 .. n - 1
  OBVIOUS
<1>2. S!N \in Nat /\ Place(s) \in 1 .. S!N
  BY SizesAre, PlaceOf
<1>. QED
  BY <1>1, <1>2 DEF Distance, Place, S!N

LEMMA RotatedIs ==
  ASSUME NEW k \in 0 .. S!N - 1
  PROVE  /\ S!Rotated(k) \in Seq(S!Names) /\ Len(S!Rotated(k)) = S!N
         /\ Head(S!Rotated(k)) = Order[k + 1]
<1>. DEFINE a == SubSeq(Order, k + 1, S!N)
            b == SubSeq(Order, 1, k)
<1>0. S!N \in Nat
  BY SweepsAre
<1>1. \A i \in 1 .. S!N : Order[i] \in S!Names
  BY SweepsAre
<1>2. a \in Seq(S!Names) /\ Len(a) = S!N - k /\ a[1] = Order[k + 1]
  <2>1. \A i \in k + 1 .. S!N : Order[i] \in S!Names
    BY <1>0, <1>1
  <2>. QED
    BY <2>1, SweepsAre, SubSeqProperties
<1>3. b \in Seq(S!Names) /\ Len(b) = k
  <2>1. \A i \in 1 .. k : Order[i] \in S!Names
    BY <1>0, <1>1
  <2>2. k \in Nat
    BY <1>0
  <2>. QED
    BY <2>1, <2>2, SubSeqProperties
<1>4. /\ a \o b \in Seq(S!Names) /\ Len(a \o b) = Len(a) + Len(b)
      /\ \A i \in 1 .. Len(a) + Len(b) : (a \o b)[i] = IF i <= Len(a) THEN a[i] ELSE b[i - Len(a)]
  BY <1>2, <1>3, ConcatProperties
<1>5. Len(a \o b) = S!N /\ (a \o b)[1] = Order[k + 1]
  <2>1. Len(a) >= 1 /\ Len(a) + Len(b) = S!N /\ 1 \in 1 .. S!N
    BY <1>0, <1>2, <1>3
  <2>. QED
    BY <1>2, <1>4, <2>1
<1>6. Head(a \o b) = (a \o b)[1]
  BY <1>4, <1>5
<1>. QED
  BY <1>4, <1>5, <1>6 DEF S!Rotated

LEMMA TurnedIs ==
  ASSUME offset \in 0 .. S!N - 1
  PROVE  S!Turned = (IF offset = S!N - 1 THEN 0 ELSE offset + 1) /\ S!Turned \in 0 .. S!N - 1
<1>1. ASSUME NEW n \in Nat \ {0}, NEW o \in 0 .. n - 1
      PROVE  (o + 1) % n = (IF o = n - 1 THEN 0 ELSE o + 1) /\ (o + 1) % n \in 0 .. n - 1
  OBVIOUS
<1>. QED
  BY <1>1, SizesAre DEF S!Turned

LEMMA LostIs ==
  ASSUME S!TypeOK
  PROVE  /\ Lost \in Nat
         /\ S!TypeOK' => Lost' \in Nat
         /\ S!Trouble => Lost' = Lost + S!N
         /\ S!NoTrouble => Lost' = Lost
<1>1. trouble \in Nat /\ S!N \in Nat
  BY SweepsAre DEF S!TypeOK
<1>2. \A n, t \in Nat : n * t \in Nat /\ n * (t + 1) = n * t + n
  OBVIOUS
<1>3. S!TypeOK' => trouble' \in Nat
  BY SweepsAre DEF S!TypeOK
<1>. QED
  BY <1>1, <1>2, <1>3 DEF Lost, S!Trouble, S!NoTrouble

LEMMA SweepAtFirst == Init => SweepInv
<1>. SUFFICES ASSUME Init PROVE SweepInv
  OBVIOUS
<1>1. S!Init
  BY DEF Init
<1>2. S!TypeOK
  <2>1. S!Slots = 0 .. LastSlot /\ 0 \in S!Slots /\ 0 \in 0 .. S!N - 1 /\ 0 \in 0 .. SweepFaults /\ Len(<<>>) = 0
    BY SweepsAre DEF S!Slots
  <2>2. <<>> \in Seq(S!Names) /\ 0 <= S!N
    BY SweepsAre
  <2>. QED
    BY <1>1, <2>1, <2>2 DEF S!Init, S!TypeOK, S!Never
<1>3. LateInv
  <2>1. ASSUME NEW s \in S!Names PROVE late[s] = 0 /\ ~First(s) /\ Distance(s) \in 0 .. S!N - 1
    <3>1. late[s] = 0 /\ queue = <<>> /\ offset \in 0 .. S!N - 1
      BY <1>1, SizesAre DEF S!Init
    <3>2. ~First(s)
      BY <3>1, SizesAre DEF First
    <3>. QED
      BY <3>1, <3>2, DistanceIs
  <2>2. Lost \in Nat /\ S!N \in Nat
    BY <1>2, LostIs, SizesAre
  <2>. QED
    BY <2>1, <2>2 DEF LateInv
<1>4. EventInv
  BY <1>1, SweepsAre DEF S!Init, EventInv
<1>5. S!NoDoubleCounting /\ S!EventsAccounted
  BY <1>1 DEF S!Init, S!NoDoubleCounting, S!EventsAccounted
<1>. QED
  BY <1>2, <1>3, <1>4, <1>5 DEF SweepInv

\* The queue of a tick.
LEMMA QueueIs ==
  ASSUME S!TypeOK, queue # <<>>
  PROVE  /\ Head(queue) \in S!Names /\ Tail(queue) \in Seq(S!Names)
         /\ Len(Tail(queue)) = Len(queue) - 1 /\ Len(queue) \in 1 .. S!N
<1>1. queue \in Seq(S!Names) /\ Len(queue) <= S!N
  BY DEF S!TypeOK
<1>2. Head(queue) \in S!Names /\ Tail(queue) \in Seq(S!Names) /\ Len(Tail(queue)) = Len(queue) - 1
  BY <1>1, HeadTailProperties
<1>3. Len(queue) \in Nat /\ Len(queue) # 0
  BY <1>1
<1>. QED
  BY <1>1, <1>2, <1>3, SizesAre

LEMMA SweepTypeStep == ASSUME S!TypeOK, S!Next PROVE S!TypeOK'
<1>0. now \in 0 .. LastSlot /\ S!Slots = 0 .. LastSlot
  BY DEF S!TypeOK, S!Slots
<1>1. ASSUME queue # <<>>, queue' = Tail(queue) PROVE queue' \in Seq(S!Names) /\ Len(queue') <= S!N
  <2>1. Len(Tail(queue)) = Len(queue) - 1 /\ Len(queue) \in 1 .. S!N /\ Tail(queue) \in Seq(S!Names)
    BY <1>1, QueueIs
  <2>. QED
    BY <1>1, <2>1, SizesAre
<1>2. CASE S!Pass
  BY <1>0, <1>2, SweepsAre DEF S!Pass, S!TypeOK, S!ticking, S!rolling
<1>3. CASE S!BeginTick
  <2>1. queue' \in Seq(S!Names) /\ Len(queue') <= S!N /\ offset' \in 0 .. S!N - 1
    <3>1. offset \in 0 .. S!N - 1 /\ queue' = S!Rotated(offset) /\ offset' = S!Turned
      BY <1>3 DEF S!BeginTick, S!TypeOK
    <3>2. Len(queue') = S!N /\ queue' \in Seq(S!Names)
      BY <3>1, RotatedIs
    <3>. QED
      BY <3>1, <3>2, SizesAre, TurnedIs
  <2>2. late' \in [S!Names -> Nat]
    BY <1>3 DEF S!BeginTick, S!TypeOK
  <2>3. selected' = FALSE
    BY <1>3 DEF S!BeginTick, S!rolling, S!TypeOK
  <2>. QED
    BY <1>3, <2>1, <2>2, <2>3 DEF S!BeginTick, S!TypeOK, S!data, S!rolling
<1>4. CASE S!Exhaust \/ S!Restart
  <2>1. queue' \in Seq(S!Names) /\ Len(queue') <= S!N /\ 0 \in 0 .. S!N - 1
    <3>1. queue' = <<>>
      BY <1>4 DEF S!Exhaust, S!Restart
    <3>2. <<>> \in Seq(S!Names) /\ Len(<<>>) = 0
      OBVIOUS
    <3>. QED
      BY <3>1, <3>2, SizesAre
  <2>2. selected' = FALSE
    BY <1>4 DEF S!Exhaust, S!Restart, S!rolling, S!TypeOK, S!Unselect
  <2>3. trouble' \in 0 .. SweepFaults
    BY <1>4, SizesAre DEF S!Exhaust, S!Restart, S!Trouble, S!TypeOK
  <2>4. late' \in [S!Names -> Nat] /\ offset' \in 0 .. S!N - 1 /\ summed' \subseteq S!Slots
    BY <1>4, <2>1 DEF S!Exhaust, S!Restart, S!rolling, S!Unselect, S!TypeOK
  <2>. QED
    BY <1>4, <2>1, <2>2, <2>3, <2>4 DEF S!Exhaust, S!Restart, S!TypeOK, S!data
<1>5. CASE S!Skip
  <2>1. queue' \in Seq(S!Names) /\ Len(queue') <= S!N /\ selected' = FALSE
    BY <1>1, <1>5 DEF S!Skip, S!rolling, S!TypeOK
  <2>2. trouble' \in 0 .. SweepFaults
    BY <1>5, SweepsAre DEF S!Skip, S!TypeOK, S!Trouble, S!NoTrouble
  <2>. QED
    BY <1>5, <2>1, <2>2 DEF S!Skip, S!TypeOK, S!data, S!rolling
<1>6. ASSUME NEW s \in S!Names, queue # <<>>, S!Ran(s)
      PROVE  /\ queue' \in Seq(S!Names) /\ Len(queue') <= S!N
             /\ late' \in [S!Names -> Nat] /\ lastRun' \in [S!Names -> S!Slots \cup {S!Never}]
             /\ trouble' \in 0 .. SweepFaults
  <2>1. queue' \in Seq(S!Names) /\ Len(queue') <= S!N
    BY <1>1, <1>6 DEF S!Ran
  <2>2. late' \in [S!Names -> Nat]
    BY <1>6 DEF S!Ran, S!TypeOK
  <2>3. lastRun' \in [S!Names -> S!Slots \cup {S!Never}]
    BY <1>6 DEF S!Ran, S!TypeOK
  <2>4. trouble' \in 0 .. SweepFaults
    BY <1>6, SizesAre DEF S!Ran, S!Trouble, S!NoTrouble, S!TypeOK
  <2>. QED
    BY <2>1, <2>2, <2>3, <2>4
<1>7. CASE S!Sweep
  <2>1. queue # <<>> /\ Head(queue) \in S!Names /\ S!Ran(Head(queue)) /\ ~selected
    BY <1>7, QueueIs DEF S!Sweep, S!TypeOK
  <2>2. selected' = FALSE
    BY <1>7, <2>1 DEF S!Sweep, S!rolling, S!TypeOK
  <2>. QED
    BY <1>6, <1>7, <2>1, <2>2 DEF S!Sweep, S!TypeOK, S!data, S!rolling
<1>8. CASE S!Select
  BY <1>8 DEF S!Select, S!TypeOK, S!data, S!ticking, S!Old
<1>9. CASE S!Commit
  <2>1. queue # <<>> /\ S!Ran(Rollup) /\ selected' = FALSE /\ summed' = {}
    BY <1>9 DEF S!Commit, S!Unselect, S!TypeOK
  <2>2. /\ daily' \in [S!Days -> SUBSET S!Slots]
        /\ \A d \in S!Days : \A e \in daily'[d] : S!Day(e) = d
    BY <1>9 DEF S!Commit, S!Replaced, S!Slice, S!TypeOK
  <2>3. raw' \subseteq S!Slots /\ slipped' \subseteq S!Slots
    BY <1>9 DEF S!Commit, S!Deleted, S!Old, S!TypeOK
  <2>. QED
    BY <1>6, <1>9, <2>1, <2>2, <2>3, SweepsAre DEF S!Commit, S!TypeOK
<1>10. CASE S!RollBack
  <2>1. queue # <<>> /\ selected' = FALSE /\ summed' = {} /\ queue' = Tail(queue)
    BY <1>10 DEF S!RollBack, S!Unselect, S!TypeOK
  <2>2. queue' \in Seq(S!Names) /\ Len(queue') <= S!N
    BY <1>1, <2>1
  <2>3. late' \in [S!Names -> Nat] /\ lastRun' \in [S!Names -> S!Slots \cup {S!Never}]
    BY <1>10 DEF S!RollBack, S!TypeOK
  <2>4. trouble' \in 0 .. SweepFaults
    BY <1>10, SizesAre DEF S!RollBack, S!Trouble, S!TypeOK
  <2>. QED
    BY <1>10, <2>1, <2>2, <2>3, <2>4 DEF S!RollBack, S!TypeOK, S!data
<1>. QED
  BY <1>2, <1>3, <1>4, <1>5, <1>7, <1>8, <1>9, <1>10 DEF S!Next

LEMMA EventStep ==
  ASSUME S!TypeOK, EventInv, S!NoDoubleCounting, S!EventsAccounted, S!Next
  PROVE  EventInv' /\ S!NoDoubleCounting' /\ S!EventsAccounted'
<1>0. now \in Nat /\ Retention \in Nat /\ now' \in Nat
  <2>1. now \in Nat
    BY SweepsAre DEF S!TypeOK, S!Slots
  <2>2. now' = now \/ now' = now + 1
    BY DEF S!Next, S!Pass, S!BeginTick, S!Exhaust, S!Skip, S!Sweep, S!Select, S!Commit, S!RollBack, S!Restart
  <2>. QED
    BY <2>1, <2>2, SweepsAre
<1>1. ASSUME UNCHANGED <<now, raw, daily, slipped>>, \A e \in summed' : e < now - Retention
      PROVE  EventInv' /\ S!NoDoubleCounting' /\ S!EventsAccounted'
  BY <1>1 DEF EventInv, S!NoDoubleCounting, S!EventsAccounted
<1>2. CASE S!BeginTick \/ S!Exhaust \/ S!Skip \/ S!Sweep \/ S!RollBack \/ S!Restart
  <2>1. UNCHANGED <<now, raw, daily, slipped>> /\ (summed' = summed \/ summed' = {})
    BY <1>2 DEF S!BeginTick, S!Exhaust, S!Skip, S!Sweep, S!RollBack, S!Restart, S!Unselect, S!data, S!rolling
  <2>. QED
    BY <1>1, <2>1 DEF EventInv
<1>3. CASE S!Select
  <2>1. UNCHANGED <<now, raw, daily, slipped>> /\ \A e \in summed' : e < now - Retention
    BY <1>3 DEF S!Select, S!Old, S!data
  <2>. QED
    BY <1>1, <2>1
<1>4. CASE S!Pass
  <2>1. now' = now + 1 /\ raw' = raw \cup {now + 1} /\ UNCHANGED <<daily, summed, slipped>>
    BY <1>4 DEF S!Pass, S!rolling
  <2>2. \A e \in raw : e \in Int
    BY <1>0 DEF EventInv
  <2>3. raw' \subseteq 0 .. now' /\ \A e \in raw' : e .. now' \subseteq raw'
    <3>1. raw' \subseteq 0 .. now'
      BY <1>0, <2>1 DEF EventInv
    <3>2. ASSUME NEW e \in raw', NEW g \in e .. now' PROVE g \in raw'
      <4>1. g = now + 1 \/ (e \in raw /\ g \in e .. now)
        BY <1>0, <2>1, <2>2, <3>2
      <4>. QED
        BY <2>1, <4>1 DEF EventInv
    <3>. QED
      BY <3>1, <3>2
  <2>4. \A e \in summed' : e < now' - Retention
    BY <1>0, <2>1 DEF EventInv, S!TypeOK, S!Slots
  <2>5. \A d \in S!Days : daily'[d] \subseteq 0 .. now'
    BY <1>0, <2>1 DEF EventInv
  <2>6. S!NoDoubleCounting'
    BY <1>0, <2>1 DEF EventInv, S!NoDoubleCounting
  <2>7. S!EventsAccounted'
    BY <1>0, <2>1 DEF S!EventsAccounted
  <2>. QED
    BY <2>3, <2>4, <2>5, <2>6, <2>7 DEF EventInv
<1>5. CASE S!Commit
  <2>1. /\ daily' = [d \in S!Days |-> S!Replaced(d)] /\ raw' = raw \ S!Deleted /\ now' = now
        /\ slipped' = slipped \cup (S!Deleted \ summed) /\ summed' = {} /\ summed \subseteq raw
    BY <1>5 DEF S!Commit, S!Unselect, S!TypeOK
  <2>2. S!Deleted = {e \in raw : e < now - Retention} /\ summed \subseteq S!Deleted
    BY <2>1 DEF S!Deleted, S!Old, EventInv
  <2>3. \A d \in S!Days : daily'[d] = daily[d] \/ daily'[d] \subseteq summed
    BY <2>1 DEF S!Replaced, S!Slice
  <2>4. raw' \subseteq 0 .. now' /\ \A e \in raw' : e .. now' \subseteq raw'
    <3>1. raw' = {e \in raw : ~ (e < now - Retention)} /\ raw \subseteq 0 .. now
      BY <2>1, <2>2 DEF EventInv
    <3>2. ASSUME NEW e \in raw', NEW g \in e .. now' PROVE g \in raw'
      <4>1. e \in raw /\ e \in Int /\ ~ (e < now - Retention)
        BY <3>1, <3>2, <1>0
      <4>2. g \in raw
        BY <2>1, <3>2, <4>1 DEF EventInv
      <4>3. ~ (g < now - Retention)
        BY <1>0, <3>2, <4>1, <2>1
      <4>. QED
        BY <3>1, <4>2, <4>3
    <3>. QED
      BY <2>1, <3>1, <3>2
  <2>5. \A d \in S!Days : daily'[d] \subseteq 0 .. now'
    BY <2>1, <2>3 DEF EventInv
  <2>6. S!NoDoubleCounting'
    BY <2>1, <2>2, <2>3 DEF S!NoDoubleCounting
  <2>7. ASSUME NEW e \in (0 .. now) \ (raw' \cup slipped')
        PROVE  \E f \in daily'[S!Day(e)] : f >= e
    <3>1. S!Day(e) \in S!Days
      <4>1. e \in S!Slots
        BY <1>0, SweepsAre DEF S!TypeOK, S!Slots
      <4>. QED
        BY <4>1 DEF S!Days
    <3>2. CASE e \in raw
      <4>1. e \in summed
        BY <2>1, <2>7, <3>2
      <4>2. e \in S!Slice(S!Day(e))
        BY <4>1 DEF S!Slice
      <4>3. daily'[S!Day(e)] = S!Slice(S!Day(e))
        BY <2>1, <3>1, <4>2 DEF S!Replaced
      <4>. QED
        BY <4>2, <4>3
    <3>3. CASE e \notin raw
      <4>1. PICK f \in daily[S!Day(e)] : f >= e
        BY <2>1, <2>7, <3>3 DEF S!EventsAccounted
      <4>2. CASE S!Slice(S!Day(e)) = {}
        BY <2>1, <3>1, <4>1, <4>2 DEF S!Replaced
      <4>3. CASE S!Slice(S!Day(e)) # {}
        <5>1. PICK g \in S!Slice(S!Day(e)) : TRUE
          BY <4>3
        <5>2. g \in raw
          BY <2>1, <5>1 DEF S!Slice
        <5>3. g >= e
          <6>1. g \in 0 .. now /\ g .. now \subseteq raw /\ e \in 0 .. now
            BY <5>2 DEF EventInv
          <6>2. e \notin g .. now
            BY <3>3, <6>1
          <6>. QED
            BY <1>0, <6>1, <6>2
        <5>4. daily'[S!Day(e)] = S!Slice(S!Day(e))
          BY <2>1, <3>1, <4>3 DEF S!Replaced
        <5>. QED
          BY <5>1, <5>3, <5>4
      <4>. QED
        BY <4>2, <4>3
    <3>. QED
      BY <3>2, <3>3
  <2>. QED
    BY <2>1, <2>4, <2>5, <2>6, <2>7 DEF EventInv, S!EventsAccounted
<1>. QED
  BY <1>2, <1>3, <1>4, <1>5 DEF S!Next

LEMMA FirstIs ==
  ASSUME S!TypeOK, NEW s \in S!Names, First(s)
  PROVE  queue # <<>> /\ Head(queue) = s /\ Len(queue) = S!N
<1>1. queue \in Seq(S!Names)
  BY DEF S!TypeOK
<1>. QED
  BY <1>1, SizesAre DEF First

\* A tick that is not at its start: a sweep has been run, or waits as long as before, or was the first
\* and has lost its round.
LEMMA LateKept ==
  ASSUME S!TypeOK, S!TypeOK', LateInv, Len(queue') < S!N,
         \A s \in S!Names : \/ late'[s] = 0
                            \/ /\ late'[s] = late[s] /\ offset' = offset /\ Lost' >= Lost
                               /\ First(s) => Lost' = Lost + S!N
  PROVE  LateInv'
<1>1. ASSUME NEW s \in S!Names
      PROVE  ~First(s)' /\ late'[s] <= Lost' + (S!N - 1 - Distance(s)')
  <2>0. S!N' = S!N
    BY DEF S!N
  <2>1. ~First(s)'
    <3>1. Len(queue') \in Nat
      BY DEF S!TypeOK
    <3>. QED
      BY <2>0, <3>1, SizesAre DEF First
  <2>2. Lost \in Nat /\ Lost' \in Nat
    BY LostIs
  <2>3. offset \in 0 .. S!N - 1 /\ offset' \in 0 .. S!N - 1 /\ late[s] \in Nat
    BY <2>0 DEF S!TypeOK
  <2>4. Place(s) \in 1 .. S!N
    BY PlaceOf
  <2>5. Distance(s) \in 0 .. S!N - 1 /\ Distance(s)' \in 0 .. S!N - 1
    BY <2>3, DistanceIs
  <2>6. offset' = offset => Distance(s)' = Distance(s)
    BY <2>0 DEF Distance, Place
  <2>7. CASE late'[s] = 0
    BY <2>1, <2>2, <2>5, <2>7, SizesAre
  <2>8. CASE late'[s] = late[s] /\ offset' = offset /\ Lost' >= Lost /\ (First(s) => Lost' = Lost + S!N)
    <3>1. late[s] <= Lost + (IF First(s) THEN S!N ELSE S!N - 1 - Distance(s))
      BY DEF LateInv
    <3>2. First(s) => Distance(s) = S!N - 1
      BY DEF LateInv
    <3>. QED
      BY <2>1, <2>2, <2>3, <2>5, <2>6, <2>8, <3>1, <3>2, SizesAre
  <2>. QED
    BY <2>7, <2>8
<1>. QED
  BY <1>1 DEF LateInv

LEMMA LateStep == ASSUME S!TypeOK, S!TypeOK', LateInv, S!Next PROVE LateInv'
<1>0. S!N \in Nat \ {0} /\ Lost \in Nat /\ Lost' \in Nat /\ \A s \in S!Names : late[s] \in Nat
  BY SizesAre, LostIs DEF S!TypeOK
<1>1. ASSUME UNCHANGED <<queue, tick, offset, late, trouble, lastRun>> PROVE LateInv'
  BY <1>1 DEF LateInv, First, Distance, Place, Lost, S!Due, S!N
<1>2. CASE S!Pass \/ S!Select
  BY <1>1, <1>2 DEF S!Pass, S!Select, S!ticking
<1>3. CASE S!BeginTick
  <2>1. /\ queue = <<>> /\ queue' = S!Rotated(offset) /\ offset' = S!Turned /\ tick' = now /\ lastRun' = lastRun
        /\ late' = [s \in S!Names |-> IF S!Due(s, now) THEN late[s] + 1 ELSE 0] /\ trouble' = trouble
        /\ offset \in 0 .. S!N - 1
    BY <1>3 DEF S!BeginTick, S!TypeOK
  <2>2. Len(queue') = S!N /\ Head(queue') = Order[offset + 1]
    BY <2>1, RotatedIs
  <2>3. offset' = IF offset = S!N - 1 THEN 0 ELSE offset + 1
    BY <2>1, TurnedIs
  <2>4. ASSUME NEW s \in S!Names
        PROVE  /\ First(s)' => Distance(s)' = S!N - 1 /\ (late'[s] > 0 => S!Due(s, tick)')
               /\ late'[s] <= Lost' + (IF First(s)' THEN S!N ELSE S!N - 1 - Distance(s)')
    <3>1. Place(s) \in 1 .. S!N /\ Order[Place(s)] = s
      BY PlaceOf
    <3>2. First(s)' <=> Place(s) = offset + 1
      <4>1. First(s)' <=> Order[offset + 1] = s
        BY <2>2 DEF First, S!N
      <4>2. offset + 1 \in 1 .. S!N
        BY <1>0, <2>1
      <4>. QED
        BY <3>1, <4>1, <4>2, SweepsAre
    <3>3. Distance(s)' = IF Place(s) > offset' THEN Place(s) - 1 - offset' ELSE Place(s) - 1 - offset' + S!N
      BY DEF Distance, Place, S!N
    <3>4. IF Place(s) = offset + 1 THEN Distance(s) = 0 /\ Distance(s)' = S!N - 1 ELSE Distance(s)' = Distance(s) - 1
      <4>1. ASSUME NEW n \in Nat \ {0}, NEW i \in 1 .. n, NEW o \in 0 .. n - 1, NEW o2,
                   o2 = IF o = n - 1 THEN 0 ELSE o + 1
            PROVE  IF i = o + 1
                   THEN /\ (IF i > o THEN i - 1 - o ELSE i - 1 - o + n) = 0
                        /\ (IF i > o2 THEN i - 1 - o2 ELSE i - 1 - o2 + n) = n - 1
                   ELSE (IF i > o2 THEN i - 1 - o2 ELSE i - 1 - o2 + n)
                          = (IF i > o THEN i - 1 - o ELSE i - 1 - o + n) - 1
        BY <4>1
      <4>. QED
        BY <1>0, <2>1, <2>3, <3>1, <3>3, <4>1 DEF Distance
    <3>5. ~First(s)
      BY <2>1, FirstIs
    <3>6. late[s] <= Lost + (S!N - 1 - Distance(s)) /\ Distance(s) \in 0 .. S!N - 1
      BY <2>1, <3>5, DistanceIs DEF LateInv
    <3>7. late'[s] <= late[s] + 1 /\ late'[s] \in Nat /\ Lost' = Lost
      BY <1>0, <2>1 DEF Lost, S!N
    <3>8. late'[s] > 0 => S!Due(s, tick)'
      BY <2>1 DEF S!Due
    <3>9. Distance(s)' \in Int
      BY <1>0, <3>4, <3>6
    <3>. QED
      BY <1>0, <3>2, <3>4, <3>6, <3>7, <3>8, <3>9
  <2>. QED
    BY <2>4 DEF LateInv, S!N
<1>4. ASSUME NEW x \in S!Names, queue # <<>>, Head(queue) = x, queue' = Tail(queue), offset' = offset,
             \A s \in S!Names \ {x} : late'[s] = late[s], Lost' = Lost \/ Lost' = Lost + S!N,
             late'[x] = 0 \/ (late'[x] = late[x] /\ Lost' = Lost + S!N)
      PROVE  LateInv'
  <2>1. Len(queue') < S!N
    BY <1>0, <1>4, QueueIs
  <2>2. ASSUME NEW s \in S!Names \ {x} PROVE ~First(s)
    BY <1>4, <2>2, FirstIs
  <2>. QED
    BY <1>0, <1>4, <2>1, <2>2, LateKept
<1>5. CASE S!Exhaust
  <2>1. Len(queue) \in 1 .. S!N - 1 /\ queue' = <<>> /\ UNCHANGED <<offset, late, trouble>>
    BY <1>5 DEF S!Exhaust
  <2>2. \A s \in S!Names : ~First(s)
    BY <1>0, <2>1 DEF First
  <2>3. Len(queue') < S!N /\ Lost' = Lost
    BY <1>0, <2>1 DEF Lost, S!N
  <2>. QED
    BY <1>0, <2>1, <2>2, <2>3, LateKept
<1>6. CASE S!Skip
  <2>1. queue # <<>> /\ queue' = Tail(queue) /\ UNCHANGED <<offset, late>> /\ Head(queue) \in S!Names
    BY <1>6, QueueIs DEF S!Skip
  <2>2. CASE S!Due(Head(queue), tick) /\ S!Trouble
    BY <1>4, <2>1, <2>2, LostIs
  <2>3. CASE ~S!Due(Head(queue), tick) /\ S!NoTrouble
    <3>1. Lost' = Lost /\ Len(queue') < S!N
      BY <1>0, <2>1, <2>3, LostIs, QueueIs
    <3>2. ASSUME NEW s \in S!Names, First(s) PROVE late'[s] = 0
      <4>1. s = Head(queue)
        BY <3>2, FirstIs
      <4>2. ~ (late[s] > 0)
        BY <2>3, <3>2, <4>1 DEF LateInv
      <4>. QED
        BY <1>0, <2>1, <4>2
    <3>. QED
      BY <1>0, <2>1, <3>1, <3>2, LateKept
  <2>. QED
    BY <1>6, <2>2, <2>3 DEF S!Skip
<1>7. ASSUME NEW x \in S!Names, queue # <<>>, Head(queue) = x, offset' = offset, S!Ran(x) PROVE LateInv'
  <2>1. queue' = Tail(queue) /\ late' = [late EXCEPT ![x] = 0] /\ (S!Trouble \/ S!NoTrouble)
    BY <1>7 DEF S!Ran
  <2>2. late'[x] = 0 /\ \A s \in S!Names \ {x} : late'[s] = late[s]
    BY <2>1 DEF S!TypeOK
  <2>. QED
    BY <1>4, <1>7, <2>1, <2>2, LostIs
<1>8. CASE S!Sweep
  <2>1. queue # <<>> /\ Head(queue) \in S!Names /\ S!Ran(Head(queue)) /\ offset' = offset
    BY <1>8, QueueIs DEF S!Sweep
  <2>. QED
    BY <1>7, <2>1
<1>9. CASE S!Commit
  <2>1. queue # <<>> /\ Head(queue) = Rollup /\ S!Ran(Rollup) /\ offset' = offset
    BY <1>9 DEF S!Commit, S!TypeOK
  <2>. QED
    BY <1>7, <2>1, SweepsAre
<1>10. CASE S!RollBack
  <2>1. queue # <<>> /\ Head(queue) = Rollup /\ queue' = Tail(queue) /\ offset' = offset
        /\ late' = [late EXCEPT ![Rollup] = 0] /\ S!Trouble
    BY <1>10 DEF S!RollBack, S!TypeOK
  <2>2. late'[Rollup] = 0 /\ \A s \in S!Names \ {Rollup} : late'[s] = late[s]
    BY <2>1, SweepsAre DEF S!TypeOK
  <2>. QED
    BY <1>4, <2>1, <2>2, LostIs, SweepsAre
<1>11. CASE S!Restart
  <2>1. queue' = <<>> /\ \A s \in S!Names : late'[s] = 0
    BY <1>11 DEF S!Restart
  <2>. QED
    BY <1>0, <2>1, LateKept
<1>. QED
  BY <1>2, <1>3, <1>5, <1>6, <1>8, <1>9, <1>10, <1>11 DEF S!Next

LEMMA SweepAtRest == ASSUME SweepInv, UNCHANGED sweeps PROVE SweepInv'
<1>1. /\ UNCHANGED <<now, raw, daily, lastRun, offset, queue, tick, summed, selected, slipped, late, trouble>>
  BY DEF sweeps
<1>2. S!TypeOK'
  BY <1>1 DEF SweepInv, S!TypeOK
<1>3. LateInv'
  BY <1>1 DEF SweepInv, LateInv, First, Distance, Lost, S!Due
<1>4. EventInv' /\ S!NoDoubleCounting' /\ S!EventsAccounted'
  BY <1>1 DEF SweepInv, EventInv, S!NoDoubleCounting, S!EventsAccounted
<1>. QED
  BY <1>2, <1>3, <1>4 DEF SweepInv

LEMMA SweepInvariant == Spec => []SweepInv
<1>1. Init => SweepInv
  BY SweepAtFirst
<1>2. SweepInv /\ [Next]_vars => SweepInv'
  <2>1. ASSUME SweepInv, S!Next PROVE SweepInv'
    <3>1. S!TypeOK'
      BY <2>1, SweepTypeStep DEF SweepInv
    <3>. QED
      BY <2>1, <3>1, EventStep, LateStep DEF SweepInv
  <2>. QED
    BY <2>1, SweepAtRest DEF Next, Sweeping, Caring, Migrating, vars
<1>. QED
  BY <1>1, <1>2, PTL DEF Spec

\* However slow the sweeps are, one that is due gets its turn within as many ticks as there are sweeps, and
\* each failed gate costs one round more (sweep_registry.py run_registered_sweeps).  The rollup neither
\* counts an event twice nor loses one but for what the code itself gives up (sweeps.py).
THEOREM SweepsAreSoundAlways == Spec => []SweepsAreSound
<1>1. SweepInv => SweepsAreSound
  <2>1. ASSUME SweepInv PROVE S!NobodyStarves
    <3>1. ASSUME NEW s \in S!Names PROVE late[s] <= S!N * (1 + trouble)
      <4>1. S!TypeOK /\ LateInv /\ trouble \in Nat /\ late[s] \in Nat /\ S!N \in Nat
        BY <2>1, SizesAre DEF SweepInv, S!TypeOK
      <4>2. Distance(s) \in 0 .. S!N - 1 /\ Lost \in Nat
        BY <4>1, DistanceIs, LostIs DEF S!TypeOK
      <4>3. late[s] <= Lost + (IF First(s) THEN S!N ELSE S!N - 1 - Distance(s))
        BY <4>1 DEF LateInv
      <4>4. late[s] <= Lost + S!N
        BY <4>1, <4>2, <4>3
      <4>5. \A n, t \in Nat : n * (1 + t) = n * t + n
        OBVIOUS
      <4>. QED
        BY <4>1, <4>4, <4>5 DEF Lost
    <3>. QED
      BY <3>1 DEF S!NobodyStarves
  <2>. QED
    BY <2>1 DEF SweepInv, SweepsAreSound
<1>. QED
  BY <1>1, SweepInvariant, PTL
=============================================================================
