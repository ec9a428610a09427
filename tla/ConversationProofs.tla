------------------------- MODULE ConversationProofs -------------------------
(***************************************************************************)
(* For any number of updates, nudges, reviews, days and faults: an update  *)
(* that the offset has passed was handled, and is handled again only if    *)
(* its first handling was not recorded; a session is compressed once; a    *)
(* plain turn is reviewed once, but for a review that failed.              *)
(***************************************************************************)
EXTENDS Conversation, TLAPS

USE ConversationAssumption

Places == {"idle", "chitchat", "context", "compress", "answer", "mark", "save"}

\* The loop has an update in hand that it has not answered yet.
Handling  == {"chitchat", "context", "compress", "answer"}
InHand(u) == u = current /\ pc \in Handling

-----------------------------------------------------------------------------
\* Type correctness

\* What the place of the loop says of its variables.
LoopInv ==
  /\ pc # "idle" => saved < next
  /\ pc \in Handling => session \in Day
  /\ pc \in Handling \cup {"mark"} => kind[current] # "tap"
  /\ \A u \in processed : kind[u] # "tap"
  /\ \A s \in Day : threads[s] > 0 => s <= today
  /\ pc = "compress" => session \notin sentinels

LEMMA CurrentUpdate ==
  ASSUME TypeOK, LoopInv, pc # "idle"
  PROVE  current \in 1 .. Len(kind) /\ current \in Updates /\ saved <= current /\ current < next
BY DEF TypeOK, LoopInv, current, Updates

LEMMA InsertDo ==
  ASSUME TypeOK, NEW by \in {"react", "chitchat", "nudge"}, NEW s \in Day, s <= today, Insert(by, s)
  PROVE  /\ turns' \in Seq(Turn) /\ reviewed' \in Seq(Nat)
         /\ Len(turns') = Len(turns) + 1 /\ Len(reviewed') = Len(turns) + 1
         /\ \A i \in 1 .. Len(turns) : turns'[i] = turns[i] /\ reviewed'[i] = reviewed[i]
         /\ reviewed'[Len(turns) + 1] = 0 /\ turns'[Len(turns) + 1].by = by
         /\ \A i \in 1 .. Len(turns') : turns'[i].session <= turns'[i].day
<1>1. [by |-> by, day |-> today, session |-> s] \in Turn
  BY DEF Turn, TypeOK
<1>2. PICK t \in Turn : t = [by |-> by, day |-> today, session |-> s]
  BY <1>1
<1>3. turns' = Append(turns, t) /\ t.by = by /\ t.session <= t.day
  BY <1>2 DEF Insert
<1>4. /\ turns' \in Seq(Turn) /\ Len(turns') = Len(turns) + 1
      /\ \A i \in 1 .. Len(turns) : turns'[i] = turns[i]
      /\ turns'[Len(turns) + 1] = t
  BY <1>3 DEF TypeOK
<1>5. /\ reviewed' \in Seq(Nat) /\ Len(reviewed') = Len(turns) + 1
      /\ \A i \in 1 .. Len(turns) : reviewed'[i] = reviewed[i]
      /\ reviewed'[Len(turns) + 1] = 0
  BY SMTT(30) DEF Insert, TypeOK
<1>6. \A i \in 1 .. Len(turns') : turns'[i].session <= turns'[i].day
  <2>1. Len(turns) \in Nat
    BY DEF TypeOK
  <2>2. \A i \in 1 .. Len(turns') : i \in 1 .. Len(turns) \/ i = Len(turns) + 1
    BY <1>4, <2>1
  <2>. QED
    BY <1>3, <1>4, <2>2 DEF TypeOK
<1>. QED
  BY <1>3, <1>4, <1>5, <1>6

\* A turn is added, or none is.
LEMMA InsertTypeOK ==
  ASSUME TypeOK, UNCHANGED chat \/ \E by \in {"react", "chitchat", "nudge"}, s \in Day :
                                      s <= today /\ Insert(by, s),
         UNCHANGED <<old, today, context, review, since>>
  PROVE  /\ turns' \in Seq(Turn) /\ reviewed' \in Seq(Nat) /\ Len(reviewed') = Len(turns')
         /\ \A i \in 1 .. Len(turns') : turns'[i].session <= turns'[i].day
         /\ context' \subseteq 1 .. Len(turns') /\ old' \in 0 .. Len(turns')
         /\ since' \in [at : 0 .. Len(turns'), day : Day]
<1>1. CASE UNCHANGED chat
  BY <1>1 DEF TypeOK, chat
<1>2. CASE \E by \in {"react", "chitchat", "nudge"}, s \in Day : s <= today /\ Insert(by, s)
  <2>1. PICK by \in {"react", "chitchat", "nudge"}, s \in Day : s <= today /\ Insert(by, s)
    BY <1>2
  <2>2. /\ turns' \in Seq(Turn) /\ reviewed' \in Seq(Nat)
        /\ Len(turns') = Len(turns) + 1 /\ Len(reviewed') = Len(turns) + 1
        /\ \A i \in 1 .. Len(turns') : turns'[i].session <= turns'[i].day
    BY <2>1, InsertDo
  <2>3. Len(turns) \in Nat
    BY DEF TypeOK
  <2>4. 1 .. Len(turns) \subseteq 1 .. Len(turns') /\ 0 .. Len(turns) \subseteq 0 .. Len(turns')
    BY <2>2, <2>3
  <2>. QED
    BY <2>2, <2>4 DEF TypeOK
<1>. QED
  BY <1>1, <1>2

LEMMA CountDo ==
  ASSUME NEW S, NEW f \in [S -> Nat], NEW x \in S, NEW g, g = Count(f, x)
  PROVE  g \in [S -> Nat] /\ g[x] = f[x] + 1 /\ \A y \in S \ {x} : g[y] = f[y]
BY DEF Count

LEMMA TypeStep ==
  ASSUME TypeOK, LoopInv, [Next]_vars PROVE TypeOK'
<1>a. /\ next \in Nat /\ saved \in Nat /\ Len(kind) \in Nat /\ today \in Day
      /\ answered \in [Updates -> Nat] /\ again \in [Updates -> Nat] /\ faults \in Nat
      /\ Len(turns) \in Nat /\ threads \in [Day -> Nat]
  BY SMTT(30) DEF TypeOK, Day
<1>f. (Fault \/ NoFault) => faults' \in 0 .. MaxFaults
  BY SMTT(30) DEF Fault, NoFault, TypeOK
<1>1. ASSUME NEW k \in {"chat", "chitchat", "tap"}, Say(k) PROVE TypeOK'
  <2>1. /\ kind' \in Seq({"chat", "chitchat", "tap"}) /\ Len(kind') = Len(kind) + 1
        /\ Len(kind') <= MaxUpdates
    BY <1>1 DEF Say, TypeOK
  <2>2. next' \in 1 .. Len(kind') + 1 /\ processed' \subseteq 1 .. Len(kind')
    BY SMTT(30), <1>1, <2>1, <1>a DEF Say, TypeOK, loop
  <2>. QED
    BY <1>1, <2>1, <2>2 DEF Say, TypeOK, loop, chat, memory, chief, clock, history
<1>2. CASE Midnight
  <2>1. today < MaxDays /\ today' = today + 1 /\ session' = session /\ session <= today
        /\ (session \in Nat \/ session = -1)
    BY <1>2 DEF Midnight, TypeOK, loop, Day, Never
  <2>2. today' \in Day /\ session' <= today'
    BY <2>1, <1>a DEF Day
  <2>. QED
    BY <1>2, <2>2 DEF Midnight, TypeOK, loop, chat, memory, chief, clock, history
<1>3. CASE Gap
  <2>1. old' \in 0 .. Len(turns) /\ gaps' \in 0 .. MaxPauses
    BY <1>3, <1>a DEF Gap, TypeOK, Day
  <2>. QED
    BY <1>3, <2>1 DEF Gap, TypeOK, loop, chat, memory, chief, clock, history
<1>4. Take => /\ next' = next + 1 /\ next \in 1 .. Len(kind) /\ next \in Updates /\ saved' = saved
              /\ saved' \in 1 .. next' /\ next' \in 1 .. Len(kind) + 1
  <2>1. next \in 1 .. Len(kind) + 1 /\ saved \in 1 .. next /\ Len(kind) <= MaxUpdates /\ MaxUpdates \in Nat
    BY DEF TypeOK, ConversationAssumption
  <2>2. Take => next <= Len(kind) /\ next' = next + 1 /\ saved' = saved
    BY DEF Take, Taken
  <2>. QED
    BY <1>a, <2>1, <2>2 DEF Updates
<1>41. CASE SkipProcessed
  BY <1>4, <1>41 DEF SkipProcessed, TypeOK, chat, memory, chief, clock, history
<1>42. CASE Handle
  <2>1. next \in Updates
    BY <1>4, <1>42 DEF Handle
  <2>2. again' = again \/ again' = Count(again, next)
    BY <1>42 DEF Handle
  <2>3. again' \in [Updates -> Nat]
    BY <2>1, <2>2, <1>a, CountDo
  <2>4. session' \in Day \cup {Never} /\ session' <= today'
    BY <1>42, <1>a DEF Handle, TypeOK, clock, Day
  <2>5. faults' \in 0 .. MaxFaults /\ pc' \in Places
    BY <1>42, <1>f DEF Handle, Places
  <2>. QED
    BY <1>4, <1>42, <2>3, <2>4, <2>5 DEF Handle, TypeOK, Places, chat, memory, chief, clock
<1>43. CASE HandleTap
  <2>1. answered' \in [Updates -> Nat]
    BY <1>4, <1>43, <1>a, CountDo DEF HandleTap
  <2>. QED
    BY <1>4, <1>43, <2>1 DEF HandleTap, TypeOK, chat, memory, chief, clock, history
<1>5. CASE Chitchat
  <2>1. current \in Updates /\ session \in Day /\ session <= today
    BY <1>5, CurrentUpdate DEF Chitchat, LoopInv, Handling, TypeOK
  <2>2. answered' \in [Updates -> Nat]
    BY <1>5, <2>1, <1>a, CountDo DEF Chitchat
  <2>3. UNCHANGED chat \/ Insert("chitchat", session)
    BY <1>5 DEF Chitchat
  <2>4. UNCHANGED <<old, today, context, review, since>>
    BY <1>5 DEF Chitchat, clock, chief
  <2>5. pc' \in Places /\ faults' \in 0 .. MaxFaults
    BY <1>5, <1>f DEF Chitchat, Places
  <2>. QED
    BY <1>5, <2>1, <2>2, <2>3, <2>4, <2>5, InsertTypeOK DEF Chitchat, TypeOK, Places, memory, chief, clock
<1>6. CASE Context
  <2>1. context' \subseteq 1 .. Len(turns)
    BY <1>6 DEF Context, Latest, OfSession
  <2>2. pc' \in Places
    BY <1>6 DEF Context, Places
  <2>. QED
    BY <1>6, <2>1, <2>2 DEF Context, TypeOK, Places, chat, memory, chief, clock, history
<1>7. CASE Compress
  <2>1. session \in Day
    BY <1>7 DEF Compress, LoopInv, Handling
  <2>2. memories' = memories \/ memories' = Count(memories, session)
    BY <1>7 DEF Compress, memory
  <2>3. memories' \in [Day -> Nat]
    <3>1. memories \in [Day -> Nat]
      BY DEF TypeOK
    <3>. QED
      BY <2>1, <2>2, <3>1, CountDo
  <2>4. sentinels' \subseteq Day
    BY <1>7, <2>1 DEF Compress, TypeOK, Sealed, memory
  <2>5. faults' \in 0 .. MaxFaults
    BY <1>7, <1>f DEF Compress
  <2>. QED
    BY <1>7, <2>3, <2>4, <2>5 DEF Compress, TypeOK, chat, chief, clock, history
<1>8. CASE Answer
  <2>1. current \in Updates /\ session \in Day
    BY <1>8, CurrentUpdate DEF Answer, LoopInv, Handling
  <2>2. answered' \in [Updates -> Nat] /\ threads' \in [Day -> Nat]
    BY <1>8, <2>1, <1>a, CountDo DEF Answer
  <2>3. faults' \in 0 .. MaxFaults /\ context' \subseteq 1 .. Len(turns)
    BY <1>8, <1>f DEF Answer
  <2>. QED
    BY <1>8, <2>2, <2>3 DEF Answer, TypeOK, chat, memory, chief, clock
<1>9. CASE Mark
  <2>1. current \in Updates /\ current \in 1 .. Len(kind)
    BY <1>9, CurrentUpdate DEF Mark
  <2>2. finished' \subseteq Updates /\ processed' \subseteq 1 .. Len(kind)
    BY <1>9, <2>1 DEF Mark, Marked, TypeOK
  <2>3. faults' \in 0 .. MaxFaults
    BY <1>9, <1>f DEF Mark
  <2>. QED
    BY <1>9, <2>2, <2>3 DEF Mark, TypeOK, chat, memory, chief, clock
<1>10. CASE Save
  <2>1. current \in Updates
    BY <1>10, CurrentUpdate DEF Save
  <2>2. finished' \subseteq Updates /\ saved' \in 1 .. next
    BY SMTT(30), <1>10, <2>1, <1>a DEF Save, TypeOK
  <2>3. faults' \in 0 .. MaxFaults
    BY <1>10, <1>f DEF Save
  <2>. QED
    BY <1>10, <2>2, <2>3 DEF Save, TypeOK, chat, memory, chief, clock
<1>11. CASE Crash
  <2>1. next' = saved /\ saved' = saved /\ saved' \in 1 .. next' /\ next' \in 1 .. Len(kind) + 1
    BY <1>11, <1>a DEF Crash, TypeOK
  <2>2. again' \in [Updates -> Nat] /\ threads' \in [Day -> Nat]
    BY <1>11, <1>a DEF Crash
  <2>3. session' \in Day \cup {Never} /\ session' <= today /\ context' \subseteq 1 .. Len(turns)
    BY <1>11, <1>a DEF Crash, Never, Day
  <2>4. faults' \in 0 .. MaxFaults
    BY <1>11, <1>f DEF Crash
  <2>. QED
    BY <1>11, <2>1, <2>2, <2>3, <2>4 DEF Crash, TypeOK, chat, memory, chief, clock
<1>12. ASSUME NEW s \in Day, WriteTurn(s) PROVE TypeOK'
  <2>1. threads[s] - 1 \in Nat /\ s <= today
    BY <1>12, <1>a DEF WriteTurn, LoopInv
  <2>2. threads' \in [Day -> Nat]
    BY <1>12, <2>1, <1>a DEF WriteTurn
  <2>3. UNCHANGED chat \/ Insert("react", s)
    BY <1>12 DEF WriteTurn
  <2>4. UNCHANGED <<old, today, context, review, since>>
    BY <1>12 DEF WriteTurn, loop, clock, chief
  <2>5. faults' \in 0 .. MaxFaults
    BY <1>12, <1>f DEF WriteTurn
  <2>. QED
    BY <1>12, <2>1, <2>2, <2>3, <2>4, <2>5, InsertTypeOK
       DEF WriteTurn, TypeOK, loop, memory, chief, clock, history
<1>13. CASE Nudge
  <2>1. Insert("nudge", today) /\ today <= today
    BY <1>13, <1>a DEF Nudge, Day
  <2>2. UNCHANGED <<old, today, context, review, since>>
    BY <1>13 DEF Nudge, loop, clock, chief
  <2>. QED
    BY <1>13, <1>a, <2>1, <2>2, InsertTypeOK DEF Nudge, TypeOK, loop, memory, chief, clock, history
<1>14. CASE StartReview
  <2>1. reviews' \in 0 .. MaxReviews
    BY <1>14 DEF StartReview, TypeOK
  <2>2. ASSUME NEW i \in 1 .. Len(turns)
        PROVE  reviewed[i] + (IF i \in First(Recent, ReviewRows) THEN 1 ELSE 0) \in Nat
    <3>1. reviewed \in Seq(Nat) /\ i \in 1 .. Len(reviewed)
      BY DEF TypeOK
    <3>. QED
      BY <3>1
  <2>3. reviewed' \in Seq(Nat) /\ Len(reviewed') = Len(turns)
    <3>1. reviewed' \in [1 .. Len(turns) -> Nat]
      BY <1>14, <2>2 DEF StartReview
    <3>. QED
      BY <3>1, <1>a
  <2>. QED
    BY <1>14, <2>1, <2>3 DEF StartReview, TypeOK, loop, memory, clock, history
<1>15. CASE EndReview
  <2>1. since' \in [at : 0 .. Len(turns), day : Day]
    BY SMTT(30), <1>15, <1>a DEF EndReview, TypeOK
  <2>2. faults' \in 0 .. MaxFaults
    BY <1>15, <1>f DEF EndReview
  <2>. QED
    BY <1>15, <2>1, <2>2 DEF EndReview, TypeOK, loop, chat, memory, clock, history
<1>16. CASE UNCHANGED vars
  BY <1>16 DEF vars, TypeOK, loop, chat, memory, chief, clock, history
<1>. QED
  BY <1>1, <1>2, <1>3, <1>41, <1>42, <1>43, <1>5, <1>6, <1>7, <1>8, <1>9, <1>10, <1>11, <1>12, <1>13,
     <1>14, <1>15, <1>16 DEF Next, LoopStep

LEMMA LoopStepInv ==
  ASSUME TypeOK, LoopInv, [Next]_vars PROVE LoopInv'
<1>a. /\ next \in Nat /\ saved \in Nat /\ saved <= next /\ today \in Day /\ today \in Nat
      /\ kind \in Seq({"chat", "chitchat", "tap"}) /\ Len(kind) \in Nat
      /\ processed \subseteq 1 .. Len(kind) /\ threads \in [Day -> Nat]
      /\ session \in Day \cup {Never} /\ session <= today
  BY SMTT(30) DEF TypeOK, Day
<1>1. ASSUME NEW k \in {"chat", "chitchat", "tap"}, Say(k) PROVE LoopInv'
  <2>1. \A u \in 1 .. Len(kind) : kind'[u] = kind[u]
    BY <1>1, <1>a DEF Say
  <2>2. /\ pc' = pc /\ next' = next /\ saved' = saved /\ session' = session /\ processed' = processed
        /\ threads' = threads /\ today' = today /\ sentinels' = sentinels /\ current' = current
    BY <1>1 DEF Say, loop, clock, memory, current
  <2>3. pc # "idle" => current \in 1 .. Len(kind)
    BY CurrentUpdate
  <2>4. pc \in Handling \cup {"mark"} => pc # "idle"
    BY DEF Handling
  <2>. QED
    BY <1>a, <2>1, <2>2, <2>3, <2>4 DEF LoopInv
<1>2. CASE Midnight
  <2>1. \A s \in Day : s \in Nat
    BY DEF Day
  <2>2. /\ UNCHANGED <<kind, next, saved, processed, pc, session, threads, sentinels>> /\ today' = today + 1
        /\ current' = current
    BY <1>2 DEF Midnight, loop, memory, current
  <2>3. \A s \in Day : threads'[s] > 0 => s <= today'
    BY <1>a, <2>1, <2>2 DEF LoopInv
  <2>. QED
    BY <2>2, <2>3 DEF LoopInv
<1>3. CASE Gap \/ Nudge \/ StartReview \/ EndReview \/ UNCHANGED vars
  <2>1. UNCHANGED <<kind, next, saved, processed, pc, session, threads, today, sentinels, current>>
    BY <1>3 DEF Gap, Nudge, StartReview, EndReview, vars, loop, clock, memory, current
  <2>. QED
    BY <2>1 DEF LoopInv
<1>4. CASE SkipProcessed \/ HandleTap
  <2>1. /\ pc' = "save" /\ next' = next + 1 /\ saved' = saved
        /\ UNCHANGED <<kind, processed, threads, today>>
    BY <1>4 DEF SkipProcessed, HandleTap, Take, Taken, clock
  <2>. QED
    BY <1>a, <2>1 DEF LoopInv, Handling
<1>5. CASE Handle
  <2>1. /\ pc' \in {"chitchat", "context"} /\ next' = next + 1 /\ saved' = saved /\ kind[next] # "tap"
        /\ UNCHANGED <<kind, processed, threads, today>>
        /\ session' = IF session = Never THEN today ELSE session
    BY <1>5 DEF Handle, Take, Taken, clock
  <2>2. current' = next /\ session' \in Day /\ saved' < next'
    BY <1>a, <2>1 DEF current
  <2>. QED
    BY <2>1, <2>2 DEF LoopInv
<1>6. CASE Chitchat \/ Context \/ Compress \/ Mark
  <2>1. /\ UNCHANGED <<kind, next, saved, session, threads, today, current>>
    BY <1>6 DEF Chitchat, Context, Compress, Mark, clock, current
  <2>2. /\ pc \in Handling \cup {"mark"} /\ pc # "idle"
        /\ pc' \in {"context", "compress", "answer", "mark", "save"}
        /\ pc \notin Handling => pc' = "save"
    BY <1>6 DEF Chitchat, Context, Compress, Mark, Handling
  <2>3. pc' = "compress" => session \notin sentinels /\ sentinels' = sentinels
    BY <1>6 DEF Chitchat, Context, Compress, Mark, memory
  <2>4. processed' = processed \/ processed' = processed \cup {current}
    BY <1>6 DEF Chitchat, Context, Compress, Mark, Marked
  <2>5. \A u \in processed' : kind[u] # "tap"
    BY <2>2, <2>4 DEF LoopInv
  <2>. QED
    BY <2>1, <2>2, <2>3, <2>5 DEF LoopInv, Handling
<1>7. CASE Answer
  <2>1. /\ UNCHANGED <<kind, next, saved, session, processed, today, current>>
        /\ pc = "answer" /\ pc' = "mark" /\ session \in Day
    BY <1>7 DEF Answer, clock, current, LoopInv, Handling
  <2>2. threads' = threads \/ threads' = Count(threads, session)
    BY <1>7 DEF Answer
  <2>3. \A s \in Day \ {session} : threads'[s] = threads[s]
    <3>1. threads' = Count(threads, session) => \A s \in Day \ {session} : threads'[s] = threads[s]
      BY <1>a, <2>1 DEF Count
    <3>. QED
      BY <2>2, <3>1
  <2>4. \A s \in Day : threads'[s] > 0 => s <= today
    BY <1>a, <2>1, <2>3 DEF LoopInv
  <2>. QED
    BY <2>1, <2>4 DEF LoopInv, Handling
<1>8. CASE Save
  <2>1. pc' = "idle" /\ UNCHANGED <<kind, processed, threads, today>>
    BY <1>8 DEF Save, clock
  <2>. QED
    BY <2>1 DEF LoopInv, Handling
<1>9. CASE Crash
  <2>1. /\ pc' = "idle" /\ UNCHANGED <<kind, processed, today>> /\ \A s \in Day : threads'[s] = 0
    BY <1>9 DEF Crash, clock
  <2>. QED
    BY <2>1 DEF LoopInv, Handling
<1>10. ASSUME NEW s \in Day, WriteTurn(s) PROVE LoopInv'
  <2>1. UNCHANGED <<kind, next, saved, processed, pc, session, today, sentinels, current>>
    BY <1>10 DEF WriteTurn, loop, clock, memory, current
  <2>2. \A t \in Day : threads'[t] > 0 => threads[t] > 0
    BY <1>10, <1>a DEF WriteTurn
  <2>. QED
    BY <2>1, <2>2 DEF LoopInv
<1>. QED
  BY <1>1, <1>2, <1>3, <1>4, <1>5, <1>6, <1>7, <1>8, <1>9, <1>10 DEF Next, LoopStep

-----------------------------------------------------------------------------
\* Updates

\* What the offset has passed was handled, but for the update in hand.
HandledInv ==
  /\ \A u \in 1 .. next - 1 : answered[u] > 0 \/ InHand(u)
  /\ \A u \in processed : answered[u] > 0

\* A handling that was recorded is known to processed_messages or to the file.
RecordedInv == \A u \in finished : u \in processed \/ u < saved

\* A repetition is owed to a handling that was not recorded; it may come yet.
AgainInv ==
  \A u \in Updates :
    /\ answered[u] <= 1 + again[u]
    /\ InHand(u) => answered[u] <= again[u]
    /\ u >= next => answered[u] <= again[u] \/ u \in processed

UpdatesInv == HandledInv /\ RecordedInv /\ AgainInv

LEMMA UpdatesStep ==
  ASSUME TypeOK, LoopInv, UpdatesInv, [Next]_vars PROVE UpdatesInv'
<1>a. /\ next \in Nat /\ saved \in Nat /\ 1 <= saved /\ saved <= next /\ next <= Len(kind) + 1
      /\ Len(kind) \in Nat /\ Len(kind) <= MaxUpdates
      /\ answered \in [Updates -> Nat] /\ again \in [Updates -> Nat]
  BY DEF TypeOK
<1>b. \A u \in Updates : u \in Nat /\ answered[u] \in Nat /\ again[u] \in Nat
  BY <1>a DEF Updates
<1>c. 1 .. next - 1 \subseteq Updates
  BY <1>a DEF Updates
<1>1. CASE (\E k \in {"chat", "chitchat", "tap"} : Say(k)) \/ Midnight \/ Gap \/ Nudge \/ StartReview
             \/ EndReview \/ UNCHANGED vars \/ \E s \in Day : WriteTurn(s)
  <2>1. UNCHANGED <<next, saved, processed, pc, answered, finished, again, current>>
    BY <1>1 DEF Say, Midnight, Gap, Nudge, StartReview, EndReview, WriteTurn, vars, loop, history, current
  <2>. QED
    BY <2>1 DEF UpdatesInv, HandledInv, RecordedInv, AgainInv, InHand
<1>d. \A u : pc' \in Handling => (InHand(u)' <=> u = next' - 1)
  BY DEF InHand, current
<1>2. CASE SkipProcessed
  <2>1. /\ pc' = "save" /\ next' = next + 1 /\ next \in processed /\ pc = "idle"
        /\ UNCHANGED <<saved, processed, answered, finished, again>>
    BY <1>2 DEF SkipProcessed, Take, Taken, history
  <2>2. \A u : ~InHand(u) /\ ~InHand(u)'
    BY <2>1 DEF InHand, Handling
  <2>3. \A u \in 1 .. next' - 1 : u \in 1 .. next - 1 \/ u = next
    BY <1>a, <2>1
  <2>4. HandledInv'
    BY <2>1, <2>2, <2>3 DEF UpdatesInv, HandledInv
  <2>5. \A u \in Updates : u >= next' => u >= next
    BY <1>a, <1>b, <2>1
  <2>6. AgainInv'
    BY <2>1, <2>2, <2>5 DEF UpdatesInv, AgainInv
  <2>. QED
    BY <2>1, <2>4, <2>6 DEF UpdatesInv, RecordedInv
<1>3. CASE Handle
  <2>1. /\ pc = "idle" /\ pc' \in Handling /\ next' = next + 1 /\ next <= Len(kind)
        /\ UNCHANGED <<saved, processed, answered, finished>>
        /\ next \in processed => again' = Count(again, next)
        /\ next \notin processed => again' = again
    BY <1>3 DEF Handle, Take, Taken, Handling
  <2>2. /\ \A u : ~InHand(u)
        /\ \A u : InHand(u)' <=> u = next' - 1
    BY <1>d, <2>1 DEF InHand, Handling
  <2>3. next \in Updates /\ next' - 1 = next
    BY <1>a, <2>1 DEF Updates
  <2>4. \A u \in 1 .. next' - 1 : u \in 1 .. next - 1 \/ u = next
    BY <1>a, <2>1
  <2>5. HandledInv'
    BY <2>1, <2>2, <2>3, <2>4 DEF UpdatesInv, HandledInv
  <2>6. /\ \A u \in Updates : again'[u] >= again[u]
        /\ next \in processed => again'[next] = again[next] + 1
    <3>1. CASE next \in processed
      BY <1>a, <1>b, <2>1, <2>3, <3>1 DEF Count
    <3>2. CASE next \notin processed
      BY <1>b, <2>1, <3>2
    <3>. QED
      BY <3>1, <3>2
  <2>7. again' \in [Updates -> Nat]
    <3>1. next \in processed => again' \in [Updates -> Nat]
      BY <1>a, <2>1, <2>3, CountDo
    <3>. QED
      BY <1>a, <2>1, <3>1
  <2>8. ASSUME NEW u \in Updates
        PROVE  /\ answered'[u] <= 1 + again'[u]
               /\ InHand(u)' => answered'[u] <= again'[u]
               /\ u >= next' => answered'[u] <= again'[u] \/ u \in processed'
    <3>1. answered[u] \in Nat /\ again[u] \in Nat /\ again'[u] \in Nat /\ u \in Nat
      BY <1>b, <2>7
    <3>2. /\ answered[u] <= 1 + again[u]
          /\ u >= next => answered[u] <= again[u] \/ u \in processed
      BY DEF UpdatesInv, AgainInv
    <3>3. answered'[u] = answered[u] /\ again'[u] >= again[u]
      BY <2>1, <2>6
    <3>4. u = next => answered[u] <= again'[u]
      BY <1>a, <2>6, <3>1, <3>2, <3>3
    <3>5. u >= next' => answered[u] <= again'[u] \/ u \in processed
      BY <1>a, <2>1, <3>1, <3>2, <3>3
    <3>6. answered[u] <= 1 + again'[u]
      BY <3>1, <3>2, <3>3
    <3>. QED
      BY <2>1, <2>2, <2>3, <3>3, <3>4, <3>5, <3>6
  <2>. QED
    BY <2>1, <2>5, <2>8 DEF UpdatesInv, RecordedInv, AgainInv
<1>4. CASE HandleTap
  <2>1. /\ pc = "idle" /\ pc' = "save" /\ next' = next + 1 /\ next <= Len(kind) /\ kind[next] = "tap"
        /\ UNCHANGED <<saved, processed, again, finished>>
        /\ answered' = Count(answered, next)
    BY <1>4 DEF HandleTap, Take, Taken
  <2>2. /\ \A u : ~InHand(u) /\ ~InHand(u)'
        /\ next \notin processed
    BY <2>1 DEF InHand, Handling, LoopInv
  <2>3. next \in Updates
    BY <1>a, <2>1 DEF Updates
  <2>4. answered'[next] = answered[next] + 1 /\ \A u \in Updates \ {next} : answered'[u] = answered[u]
    BY <1>a, <2>1, <2>3 DEF Count
  <2>5. \A u \in 1 .. next' - 1 : u \in 1 .. next - 1 \/ u = next
    BY <1>a, <2>1
  <2>6. \A u \in processed : u \in Updates
    BY <1>a DEF TypeOK, Updates
  <2>7. HandledInv'
    <3>1. \A u \in Updates : answered[u] > 0 => answered'[u] > 0
      BY <1>b, <2>3, <2>4
    <3>2. answered'[next] > 0
      BY <1>b, <2>3, <2>4
    <3>. QED
      BY <1>c, <2>1, <2>2, <2>5, <2>6, <3>1, <3>2 DEF UpdatesInv, HandledInv
  <2>8. answered'[next] <= 1 + again[next]
    <3>1. answered[next] <= again[next]
      BY <1>a, <2>2, <2>3 DEF UpdatesInv, AgainInv
    <3>. QED
      BY <1>b, <2>3, <2>4, <3>1
  <2>9. \A u \in Updates : u >= next' => u >= next /\ u # next
    BY <1>a, <1>b, <2>1
  <2>10. AgainInv'
    BY <2>1, <2>2, <2>4, <2>8, <2>9 DEF UpdatesInv, AgainInv
  <2>. QED
    BY <2>1, <2>7, <2>10 DEF UpdatesInv, RecordedInv
<1>5. CASE Chitchat \/ Context \/ Compress \/ Answer
  <2>1. /\ pc \in Handling /\ pc # "idle" /\ pc' \in Handling \cup {"mark"}
        /\ UNCHANGED <<next, saved, processed, again, finished>>
        /\ IF pc' = "mark" THEN answered' = Count(answered, current) ELSE answered' = answered
    BY <1>5 DEF Chitchat, Context, Compress, Answer, Handling, history
  <2>2. current \in Updates /\ current < next /\ current = next - 1 /\ current' = current
    BY <2>1, CurrentUpdate DEF current
  <2>3. CASE pc' # "mark"
    <3>1. \A u : InHand(u)' <=> InHand(u)
      BY <2>1, <2>2, <2>3 DEF InHand, Handling
    <3>. QED
      BY <2>1, <2>3, <3>1 DEF UpdatesInv, HandledInv, RecordedInv, AgainInv
  <2>4. CASE pc' = "mark"
    <3>1. \A u : ~InHand(u)'
      BY <2>4 DEF InHand, Handling
    <3>2. \A u : InHand(u) <=> u = current
      BY <2>1 DEF InHand
    <3>3. /\ answered'[current] = answered[current] + 1
          /\ \A u \in Updates \ {current} : answered'[u] = answered[u]
      BY <1>a, <2>1, <2>2, <2>4 DEF Count
    <3>4. answered'[current] > 0 /\ answered'[current] <= 1 + again[current]
      <4>1. answered[current] <= again[current]
        BY <2>2, <3>2 DEF UpdatesInv, AgainInv
      <4>. QED
        BY <1>b, <2>2, <3>3, <4>1
    <3>5. \A u \in processed : u \in Updates
      BY <1>a DEF TypeOK, Updates
    <3>6. HandledInv'
      BY <1>c, <2>1, <3>1, <3>2, <3>3, <3>4, <3>5 DEF UpdatesInv, HandledInv
    <3>7. ~(current >= next)
      BY <1>a, <2>2
    <3>8. AgainInv'
      BY <2>1, <3>1, <3>3, <3>4, <3>7 DEF UpdatesInv, AgainInv
    <3>. QED
      BY <2>1, <3>6, <3>8 DEF UpdatesInv, RecordedInv
  <2>. QED
    BY <2>3, <2>4
<1>6. CASE Mark
  <2>1. /\ pc = "mark" /\ pc' = "save" /\ UNCHANGED <<next, saved, answered, again>>
        /\ \/ processed' = processed \cup {current} /\ finished' = finished \cup {current}
           \/ processed' = processed /\ finished' = finished
    BY <1>6 DEF Mark, Marked
  <2>2. \A u : ~InHand(u) /\ ~InHand(u)'
    BY <2>1 DEF InHand, Handling
  <2>3. current \in 1 .. next - 1
    BY <1>a, <2>1, CurrentUpdate DEF current
  <2>4. answered[current] > 0
    BY <2>2, <2>3 DEF UpdatesInv, HandledInv
  <2>. QED
    BY <2>1, <2>2, <2>4 DEF UpdatesInv, HandledInv, RecordedInv, AgainInv
<1>7. CASE Save
  <2>1. /\ pc = "save" /\ pc' = "idle" /\ UNCHANGED <<next, processed, answered, again>>
        /\ \/ saved' = next /\ finished' = finished \cup {current}
           \/ saved' = saved /\ finished' = finished
    BY <1>7 DEF Save
  <2>2. \A u : ~InHand(u) /\ ~InHand(u)'
    BY <2>1 DEF InHand, Handling
  <2>3. current < next /\ saved <= next /\ \A u \in finished : u \in Nat
    BY <1>a, <1>b, <2>1, CurrentUpdate DEF TypeOK
  <2>4. RecordedInv'
    <3>1. CASE saved' = next /\ finished' = finished \cup {current}
      <4>1. \A u \in finished : u < saved => u < next
        BY <1>a, <2>3
      <4>. QED
        BY <2>1, <2>3, <3>1, <4>1 DEF UpdatesInv, RecordedInv
    <3>2. CASE saved' = saved /\ finished' = finished
      BY <2>1, <3>2 DEF UpdatesInv, RecordedInv
    <3>. QED
      BY <2>1, <3>1, <3>2
  <2>. QED
    BY <2>1, <2>2, <2>4 DEF UpdatesInv, HandledInv, AgainInv
<1>8. CASE Crash
  <2>1. /\ pc' = "idle" /\ next' = saved /\ UNCHANGED <<saved, processed, answered, finished>>
        /\ again' = [u \in Updates |->
                       IF u \in saved .. next - 1 /\ u \notin finished THEN again[u] + 1 ELSE again[u]]
    BY <1>8 DEF Crash
  <2>2. \A u : ~InHand(u)'
    BY <2>1 DEF InHand, Handling
  <2>3. \A u \in 1 .. saved - 1 : u \in 1 .. next - 1 /\ ~InHand(u)
    <3>1. pc \in Handling => saved < next
      BY DEF LoopInv, Handling
    <3>. QED
      BY <1>a, <3>1 DEF InHand, current
  <2>4. HandledInv'
    BY <2>1, <2>3 DEF UpdatesInv, HandledInv
  <2>5. ASSUME NEW u \in Updates
        PROVE  /\ answered[u] <= 1 + again'[u]
               /\ u >= saved => answered[u] <= again'[u] \/ u \in processed
    <3>1. /\ answered[u] <= 1 + again[u]
          /\ u >= next => answered[u] <= again[u] \/ u \in processed
      BY DEF UpdatesInv, AgainInv
    <3>2. CASE u \in saved .. next - 1 /\ u \notin finished
      <4>1. again'[u] = again[u] + 1
        BY <2>1, <3>2
      <4>. QED
        BY <1>b, <3>1, <4>1
    <3>3. CASE ~(u \in saved .. next - 1 /\ u \notin finished)
      <4>1. again'[u] = again[u]
        BY <2>1, <3>3
      <4>2. u \in finished => u \in processed \/ u < saved
        BY DEF UpdatesInv, RecordedInv
      <4>3. u >= saved => u \in processed \/ u >= next
        BY <1>a, <1>b, <3>3, <4>2
      <4>. QED
        BY <3>1, <4>1, <4>3
    <3>. QED
      BY <3>2, <3>3
  <2>6. AgainInv'
    BY <2>1, <2>2, <2>5 DEF AgainInv
  <2>. QED
    BY <2>1, <2>4, <2>6 DEF UpdatesInv, RecordedInv
<1>. QED
  BY <1>1, <1>2, <1>3, <1>4, <1>5, <1>6, <1>7, <1>8 DEF Next, LoopStep

-----------------------------------------------------------------------------
\* Summaries and reviews

CompressedInv == \A s \in Day : memories[s] = IF s \in sentinels THEN 1 ELSE 0

LEMMA CompressedStep ==
  ASSUME TypeOK, LoopInv, CompressedInv, [Next]_vars PROVE CompressedInv'
<1>1. CASE Compress
  <2>1. session \in Day /\ session \notin sentinels /\ memories \in [Day -> Nat]
    BY <1>1 DEF Compress, LoopInv, Handling, TypeOK
  <2>2. CASE UNCHANGED memory
    BY <2>2 DEF memory, CompressedInv
  <2>3. CASE memories' = Count(memories, session) /\ sentinels' = sentinels \cup {session}
    <3>1. /\ memories'[session] = memories[session] + 1
          /\ \A s \in Day \ {session} : memories'[s] = memories[s]
      BY <2>1, <2>3, CountDo
    <3>. QED
      BY <2>1, <2>3, <3>1 DEF CompressedInv
  <2>. QED
    BY <1>1, <2>2, <2>3 DEF Compress, Sealed
<1>2. ~Compress => UNCHANGED memory
  BY DEF Next, LoopStep, Say, SkipProcessed, Handle, HandleTap, Chitchat, Context, Answer, Mark, Save,
     Crash, WriteTurn, Midnight, Gap, Nudge, StartReview, EndReview, vars, memory
<1>. QED
  BY <1>1, <1>2 DEF CompressedInv, memory

\* A plain turn is before the last completed review, or was read by reviews that failed,
\* and by the one that is under way.
ReviewedInv ==
  \A i \in 1 .. Len(turns) : turns[i].by # "react" =>
     /\ reviewed[i] <= 1 + faults
     /\ i > since.at /\ ~review => reviewed[i] <= faults

LEMMA ReviewedStep ==
  ASSUME TypeOK, TypeOK', LoopInv, ReviewedInv, [Next]_vars PROVE ReviewedInv'
<1>a. /\ Len(turns) \in Nat /\ faults \in Nat /\ faults' \in Nat /\ since.at \in Nat /\ since'.at \in Nat
      /\ \A i \in 1 .. Len(turns) : reviewed[i] \in Nat
      /\ review \in BOOLEAN
  <2>1. reviewed \in Seq(Nat) /\ Len(reviewed) = Len(turns)
    BY DEF TypeOK
  <2>2. \A i \in 1 .. Len(turns) : reviewed[i] \in Nat
    BY <2>1
  <2>. QED
    BY <2>2 DEF TypeOK
<1>b. faults' >= faults
  BY SMTT(30), <1>a DEF Next, LoopStep, Say, SkipProcessed, Handle, HandleTap, Chitchat, Context, Compress, Answer,
     Mark, Save, Crash, WriteTurn, Midnight, Gap, Nudge, StartReview, EndReview, vars, Fault, NoFault
<1>1. CASE StartReview
  <2>1. /\ ~review /\ review' = TRUE /\ UNCHANGED <<turns, since, faults>>
        /\ reviewed' = [i \in 1 .. Len(turns) |->
             reviewed[i] + IF i \in First(Recent, ReviewRows) THEN 1 ELSE 0]
    BY <1>1 DEF StartReview
  <2>2. ASSUME NEW i \in 1 .. Len(turns), turns[i].by # "react" PROVE reviewed'[i] <= 1 + faults
    <3>1. reviewed'[i] = reviewed[i] + IF i \in First(Recent, ReviewRows) THEN 1 ELSE 0
      BY <2>1
    <3>2. i \in First(Recent, ReviewRows) => i > since.at
      BY <2>2 DEF First, Recent
    <3>3. /\ reviewed[i] <= 1 + faults
          /\ i > since.at => reviewed[i] <= faults
      BY <2>1, <2>2 DEF ReviewedInv
    <3>. QED
      BY <1>a, <3>1, <3>2, <3>3
  <2>. QED
    BY <2>1, <2>2 DEF ReviewedInv
<1>2. CASE EndReview
  <2>1. /\ review /\ review' = FALSE /\ UNCHANGED <<turns, reviewed>>
        /\ (NoFault /\ since'.at = Len(turns)) \/ (Fault /\ since' = since)
    BY <1>2 DEF EndReview, chat
  <2>2. CASE NoFault /\ since'.at = Len(turns)
    <3>1. \A i \in 1 .. Len(turns) : ~(i > since'.at)
      BY <1>a, <2>2
    <3>. QED
      BY <2>1, <2>2, <3>1 DEF ReviewedInv, NoFault
  <2>3. CASE Fault
    <3>1. faults' = faults + 1
      BY <2>3 DEF Fault
    <3>2. ASSUME NEW i \in 1 .. Len(turns), reviewed[i] <= 1 + faults
          PROVE  reviewed[i] <= faults' /\ reviewed[i] <= 1 + faults'
      BY <1>a, <3>1, <3>2
    <3>. QED
      BY <2>1, <3>2 DEF ReviewedInv
  <2>. QED
    BY <2>1, <2>2, <2>3
<1>3. CASE UNCHANGED <<review, since>>
            /\ (UNCHANGED chat \/ \E by \in {"react", "chitchat", "nudge"}, s \in Day :
                                    s <= today /\ Insert(by, s))
  <2>1. PICK n \in Nat :
          /\ \A i \in 1 .. Len(turns') : i \in 1 .. Len(turns) \/ i = n
          /\ \A i \in 1 .. Len(turns) : turns'[i] = turns[i] /\ reviewed'[i] = reviewed[i]
          /\ n \in 1 .. Len(turns') => reviewed'[n] = 0
    <3>1. CASE UNCHANGED chat
      <4>1. 0 \notin 1 .. Len(turns')
        BY <1>a, <3>1
      <4>. QED
        BY <3>1, <4>1 DEF chat
    <3>2. CASE \E by \in {"react", "chitchat", "nudge"}, s \in Day : s <= today /\ Insert(by, s)
      <4>1. PICK by \in {"react", "chitchat", "nudge"}, s \in Day : s <= today /\ Insert(by, s)
        BY <3>2
      <4>2. /\ Len(turns') = Len(turns) + 1
            /\ \A i \in 1 .. Len(turns) : turns'[i] = turns[i] /\ reviewed'[i] = reviewed[i]
            /\ reviewed'[Len(turns) + 1] = 0
        BY <4>1, InsertDo
      <4>3. Len(turns) + 1 \in Nat /\ \A i \in 1 .. Len(turns') : i \in 1 .. Len(turns) \/ i = Len(turns) + 1
        BY <1>a, <4>2
      <4>. QED
        BY <4>2, <4>3
    <3>. QED
      BY <1>3, <3>1, <3>2
  <2>2. ASSUME NEW i \in 1 .. Len(turns'), turns'[i].by # "react"
        PROVE  /\ reviewed'[i] <= 1 + faults'
               /\ i > since'.at /\ ~review' => reviewed'[i] <= faults'
    <3>1. CASE i \in 1 .. Len(turns)
      <4>1. /\ reviewed[i] <= 1 + faults
            /\ i > since.at /\ ~review => reviewed[i] <= faults
        BY <2>1, <2>2, <3>1 DEF ReviewedInv
      <4>2. reviewed'[i] = reviewed[i] /\ reviewed[i] \in Nat
        BY <1>a, <2>1, <3>1
      <4>. QED
        BY <1>3, <1>a, <1>b, <4>1, <4>2
    <3>2. CASE i = n /\ i \notin 1 .. Len(turns)
      BY <1>a, <2>1, <3>2
    <3>. QED
      BY <2>1, <3>1, <3>2
  <2>. QED
    BY <2>2 DEF ReviewedInv
<1>4. CASE Chitchat
  <2>1. session \in Day /\ session <= today
    BY <1>4 DEF Chitchat, LoopInv, Handling, TypeOK
  <2>. QED
    BY <1>3, <1>4, <2>1 DEF Chitchat, chief
<1>5. CASE \E s \in Day : WriteTurn(s)
  <2>1. PICK s \in Day : WriteTurn(s)
    BY <1>5
  <2>2. s <= today
    BY <2>1 DEF WriteTurn, LoopInv
  <2>. QED
    BY <1>3, <2>1, <2>2 DEF WriteTurn, chief
<1>6. CASE Nudge
  <2>1. today \in Day /\ today <= today
    BY DEF TypeOK, Day
  <2>. QED
    BY <1>3, <1>6, <2>1 DEF Nudge, chief
<1>7. \/ StartReview \/ EndReview \/ Chitchat \/ Nudge \/ (\E s \in Day : WriteTurn(s))
      \/ UNCHANGED <<review, since, chat>>
  BY DEF Next, LoopStep, Say, SkipProcessed, Handle, HandleTap, Context, Compress, Answer,
     Mark, Save, Crash, Midnight, Gap, vars, chief, chat
<1>. QED
  BY <1>1, <1>2, <1>3, <1>4, <1>5, <1>6, <1>7

-----------------------------------------------------------------------------
CInv == TypeOK /\ LoopInv /\ UpdatesInv /\ CompressedInv /\ ReviewedInv

LEMMA InitCInv == Init => CInv
<1>. SUFFICES ASSUME Init PROVE CInv
  OBVIOUS
<1>1. TypeOK
  <2>1. 0 \in Day /\ Len(turns) = 0 /\ Len(kind) = 0 /\ Len(reviewed) = 0
    BY DEF Init, Day
  <2>2. /\ turns \in Seq(Turn) /\ kind \in Seq({"chat", "chitchat", "tap"}) /\ reviewed \in Seq(Nat)
    BY DEF Init
  <2>3. since \in [at : 0 .. Len(turns), day : Day] /\ session <= today
    BY <2>1 DEF Init, Never
  <2>. QED
    BY <2>1, <2>2, <2>3 DEF Init, TypeOK, Never
<1>2. Len(turns) = 0
  BY DEF Init
<1>. QED
  BY <1>1, <1>2 DEF Init, CInv, LoopInv, UpdatesInv, HandledInv, RecordedInv, AgainInv, CompressedInv, ReviewedInv,
     InHand, Handling

\* Whatever crashes, failed statements and repetitions come in between: no update is
\* acknowledged unhandled, none is handled again once its handling is recorded, no session is
\* compressed twice, and no plain turn is reviewed again but for a review that failed.
THEOREM OnceEachAlways == Spec => []OnceEach
<1>1. CInv /\ [Next]_vars => CInv'
  BY TypeStep, LoopStepInv, UpdatesStep, CompressedStep, ReviewedStep DEF CInv
<1>2. CInv => OnceEach
  <2>. SUFFICES ASSUME CInv PROVE OnceEach
    OBVIOUS
  <2>1. NothingAcknowledgedUnhandled
    <3>1. pc \in Handling => saved < next
      BY DEF CInv, LoopInv, Handling
    <3>2. \A u \in 1 .. saved - 1 : u \in 1 .. next - 1 /\ ~InHand(u)
      BY <3>1 DEF CInv, TypeOK, InHand, current
    <3>. QED
      BY <3>2 DEF CInv, UpdatesInv, HandledInv, NothingAcknowledgedUnhandled
  <2>2. HandledAgainOnlyIfUnrecorded
    BY DEF CInv, UpdatesInv, AgainInv, HandledAgainOnlyIfUnrecorded
  <2>3. CompressedOnce
    BY DEF CInv, CompressedInv, CompressedOnce
  <2>4. PlainTurnsReviewedOnce
    BY DEF CInv, ReviewedInv, PlainTurnsReviewedOnce
  <2>. QED
    BY <2>1, <2>2, <2>3, <2>4 DEF CInv, OnceEach
<1>. QED
  BY InitCInv, <1>1, <1>2, PTL DEF Spec
=============================================================================
