---------------------------- MODULE Conversation ----------------------------
(***************************************************************************)
(* What was said in a chat, and who remembers it.  The Telegram loop       *)
(* (channels/telegram.py) takes one update after the other, answers it,    *)
(* marks its message in processed_messages and saves the offset; a thread  *)
(* writes the turn to session_turns (session.py).  The heartbeat writes a  *)
(* turn for each nudge it sends, and its review reads the turns of all     *)
(* sessions.  The next answer is given in the context of the last turns.   *)
(*                                                                         *)
(* created_at is text: add_turn writes 2026-01-31T09:00 where the default  *)
(* of the column, and completed_at of a review, are 2026-01-31 09:00.  The *)
(* first sorts after the second all day long.                              *)
(***************************************************************************)
EXTENDS Integers, Sequences, FiniteSets, FiniteSetsExt

CONSTANTS
  ContextRows, \* turns of the session in a context (10)
  KeptRows,    \* of these, after a gap of half an hour (2)
  ReviewRows,  \* turns a review reads (20)
  MaxUpdates,  \* bound: messages and taps of the user
  MaxNudges,   \* bound: nudges
  MaxReviews,  \* bound: reviews
  MaxDays,     \* bound: midnights
  MaxPauses,   \* bound: midnights and gaps of half an hour
  MaxFaults    \* bound: failed statements and model calls, and crashes

ASSUME ConversationAssumption ==
  /\ ContextRows \in Nat /\ KeptRows \in Nat /\ ReviewRows \in Nat
  /\ MaxUpdates \in Nat /\ MaxNudges \in Nat /\ MaxReviews \in Nat
  /\ MaxDays \in Nat /\ MaxPauses \in Nat /\ MaxFaults \in Nat

Updates == 1 .. MaxUpdates
Day     == 0 .. MaxDays
Never   == -1

\* by: who wrote the turn, the ReAct loop, the chitchat path or a nudge.
Turn == [by : {"react", "chitchat", "nudge"}, day : Day, session : Day]

VARIABLES
  kind,      \* sequence of the updates so far: "chat", "chitchat" or "tap"
  next,      \* offset of the loop: the update it takes next
  saved,     \* offset in the file
  processed, \* updates in processed_messages
  pc,        \* what the loop is doing to update next - 1
  session,   \* day of the session that the loop has cached, or Never
  context,   \* rows of session_turns in the context of the answer
  threads,   \* turns that threads are about to write: number per session
  turns,     \* session_turns, in the order of their insertion
  old,       \* turns up to here are older than half an hour
  today,     \* the day
  sentinels, \* sessions with a session_compression_marker
  review,    \* whether a review is under way
  since,     \* [at, day] of the last completed review: the turns there were, and the day
  answered,  \* answered[u]: history, times update u was handled to its end
  finished,  \* history: updates whose handling was recorded as the code means to
  again,     \* again[u]: history, times u was to come again, its handling not being recorded
  memories,  \* memories[s]: history, times session s was compressed to the end
  reviewed,  \* reviewed[i]: history, reviews that read turn i
  reviews,   \* history: reviews
  gaps,      \* history: gaps
  faults     \* history: everything that went wrong

loop    == <<next, saved, processed, pc, session, context>>
memory  == <<sentinels, memories>>
chief   == <<review, since, reviews>>
chat    == <<turns, reviewed>>
clock   == <<old, today, gaps>>
history == <<answered, finished, again>>
vars    == <<kind, loop, threads, chat, memory, chief, clock, history, faults>>

TypeOK ==
  /\ kind \in Seq({"chat", "chitchat", "tap"}) /\ Len(kind) <= MaxUpdates
  /\ saved \in 1 .. next /\ next \in 1 .. Len(kind) + 1
  /\ processed \subseteq 1 .. Len(kind)
  /\ pc \in {"idle", "chitchat", "context", "compress", "answer", "mark", "save"}
  /\ session \in Day \cup {Never} /\ session <= today
  /\ turns \in Seq(Turn) /\ reviewed \in Seq(Nat) /\ Len(reviewed) = Len(turns)
  /\ \A i \in 1 .. Len(turns) : turns[i].session <= turns[i].day
  /\ context \subseteq 1 .. Len(turns)
  /\ threads \in [Day -> Nat] /\ old \in 0 .. Len(turns) /\ today \in Day
  /\ sentinels \subseteq Day /\ memories \in [Day -> Nat]
  /\ review \in BOOLEAN /\ since \in [at : 0 .. Len(turns), day : Day]
  /\ answered \in [Updates -> Nat] /\ finished \subseteq Updates /\ again \in [Updates -> Nat]
  /\ reviews \in 0 .. MaxReviews
  /\ gaps \in 0 .. MaxPauses /\ faults \in 0 .. MaxFaults

Init ==
  /\ kind = <<>> /\ next = 1 /\ saved = 1 /\ processed = {}
  /\ pc = "idle" /\ session = Never /\ context = {}
  /\ turns = <<>> /\ threads = [s \in Day |-> 0] /\ old = 0 /\ today = 0
  /\ sentinels = {} /\ memories = [s \in Day |-> 0]
  /\ review = FALSE /\ since = [at |-> 0, day |-> 0]
  /\ answered = [u \in Updates |-> 0] /\ finished = {} /\ again = [u \in Updates |-> 0]
  /\ reviewed = <<>> /\ reviews = 0
  /\ gaps = 0 /\ faults = 0

Fault   == faults < MaxFaults /\ faults' = faults + 1
NoFault == UNCHANGED faults

Count(f, x) == [f EXCEPT ![x] = @ + 1]
current     == next - 1 \* the update in hand, unless idle

-----------------------------------------------------------------------------
(* created_at, as text.                                                    *)

\* Rank of the day's two spellings.
Spelling(i) == 2 * turns[i].day + IF turns[i].by = "react" THEN 1 ELSE 0

\* created_at of turn i sorts before that of turn j.
Before(i, j) == Spelling(i) < Spelling(j) \/ (Spelling(i) = Spelling(j) /\ i < j)

\* ORDER BY created_at DESC LIMIT n, and ASC.
Latest(S, n) == {i \in S : Cardinality({j \in S : Before(i, j)}) < n}
First(S, n)  == {i \in S : Cardinality({j \in S : Before(j, i)}) < n}

Insert(by, s) ==
  /\ turns' = Append(turns, [by |-> by, day |-> today, session |-> s])
  /\ reviewed' = Append(reviewed, 0)

-----------------------------------------------------------------------------
(* The user, the clock.                                                    *)

Say(k) ==
  /\ Len(kind) < MaxUpdates
  /\ kind' = Append(kind, k)
  /\ UNCHANGED <<loop, threads, chat, memory, chief, clock, history, faults>>

Midnight ==
  /\ today < MaxDays /\ gaps + today < MaxPauses
  /\ today' = today + 1
  /\ UNCHANGED <<kind, loop, threads, chat, memory, chief, old, gaps, history, faults>>

\* Half an hour passes in which nothing is said.
Gap ==
  /\ gaps + today < MaxPauses /\ pc = "idle"
  /\ gaps' = gaps + 1 /\ old' = Len(turns)
  /\ UNCHANGED <<kind, loop, threads, chat, memory, chief, today, history, faults>>

-----------------------------------------------------------------------------
(* The Telegram loop.                                                      *)

\* Mutant of Taken: the offset is saved when the update is taken.
TakenSaves == saved' = next + 1

Taken == UNCHANGED saved

Take ==
  /\ pc = "idle" /\ next <= Len(kind)
  /\ next' = next + 1 /\ Taken

\* The idempotency gate; if it cannot be read the message is handled.
SkipProcessed ==
  /\ Take /\ kind[next] # "tap" /\ next \in processed
  /\ pc' = "save"
  /\ UNCHANGED <<kind, processed, session, context, threads, chat, memory, chief, clock, history, faults>>

Handle ==
  /\ Take /\ kind[next] # "tap"
  /\ IF next \in processed
     THEN Fault /\ again' = Count(again, next)
     ELSE NoFault /\ UNCHANGED again
  /\ session' = IF session = Never THEN today ELSE session
  /\ pc' = IF kind[next] = "chitchat" THEN "chitchat" ELSE "context"
  /\ UNCHANGED <<kind, processed, context, threads, chat, memory, chief, clock, answered, finished>>

\* A tap, a reaction: what its handler does is not the subject here.
HandleTap ==
  /\ Take /\ kind[next] = "tap"
  /\ answered' = Count(answered, next)
  /\ pc' = "save"
  /\ UNCHANGED <<kind, processed, session, context, threads, chat, memory, chief, clock,
                 finished, again, faults>>

\* The chitchat path writes its turn and answers; if the model or the statement fails,
\* the ReAct loop takes over, also after the turn was written.
Chitchat ==
  /\ pc = "chitchat"
  /\ \/ NoFault /\ Insert("chitchat", session) /\ answered' = Count(answered, current) /\ pc' = "mark"
     \/ Fault /\ (UNCHANGED chat \/ Insert("chitchat", session)) /\ UNCHANGED answered /\ pc' = "context"
  /\ UNCHANGED <<kind, next, saved, processed, session, context, threads, memory, chief, clock, finished, again>>

OfSession == {i \in 1 .. Len(turns) : turns[i].session = session}
Stale     == \E i \in Latest(OfSession, 1) : i <= old

\* get_context_block; after a gap the session is compressed first, once.
Context ==
  /\ pc = "context"
  /\ context' = Latest(OfSession, IF Stale THEN KeptRows ELSE ContextRows)
  /\ pc' = IF Stale /\ session \notin sentinels /\ \E i \in OfSession : turns[i].by # "nudge"
           THEN "compress" ELSE "answer"
  /\ UNCHANGED <<kind, next, saved, processed, session, threads, chat, memory, chief, clock, history, faults>>

Sealed == sentinels' = sentinels \cup {session}

\* compress_to_beliefs never raises: it may end after any of its inserts.
Compress ==
  /\ pc = "compress"
  /\ \/ NoFault /\ memories' = Count(memories, session) /\ Sealed
     \/ Fault /\ UNCHANGED memory
  /\ pc' = "answer"
  /\ UNCHANGED <<kind, next, saved, processed, session, context, threads, chat, chief, clock, history>>

\* The ReAct loop answers, and a thread is started for the turn; or something raises, and
\* the apology is all.
Answer ==
  /\ pc = "answer"
  /\ \/ NoFault /\ threads' = Count(threads, session)
     \/ Fault /\ UNCHANGED threads
  /\ answered' = Count(answered, current) /\ context' = {}
  /\ pc' = "mark"
  /\ UNCHANGED <<kind, next, saved, processed, session, chat, memory, chief, clock, finished, again>>

Marked == processed' = processed \cup {current}

Mark ==
  /\ pc = "mark"
  /\ \/ NoFault /\ Marked /\ finished' = finished \cup {current}
     \/ Fault /\ UNCHANGED <<processed, finished>>
  /\ pc' = "save"
  /\ UNCHANGED <<kind, next, saved, session, context, threads, chat, memory, chief, clock, answered, again>>

\* A failure to write the file is only logged.
Save ==
  /\ pc = "save"
  /\ \/ NoFault /\ saved' = next /\ finished' = finished \cup {current}
     \/ Fault /\ UNCHANGED <<saved, finished>>
  /\ pc' = "idle"
  /\ UNCHANGED <<kind, next, processed, session, context, threads, chat, memory, chief, clock, answered, again>>

\* The process dies with its threads, and starts from the offset in the file.
Crash ==
  /\ Fault
  /\ next' = saved /\ pc' = "idle" /\ session' = Never /\ context' = {}
  /\ threads' = [s \in Day |-> 0]
  /\ again' = [u \in Updates |-> IF u \in saved .. next - 1 /\ u \notin finished THEN again[u] + 1 ELSE again[u]]
  /\ UNCHANGED <<kind, saved, processed, chat, memory, chief, clock, answered, finished>>

\* A thread of the Telegram process runs add_turn; a failure is only logged.
WriteTurn(s) ==
  /\ threads[s] > 0
  /\ threads' = [threads EXCEPT ![s] = @ - 1]
  /\ \/ NoFault /\ Insert("react", s)
     \/ Fault /\ UNCHANGED chat
  /\ UNCHANGED <<kind, loop, memory, chief, clock, history>>

-----------------------------------------------------------------------------
(* The heartbeat.                                                          *)

Nudges == Cardinality({i \in 1 .. Len(turns) : turns[i].by = "nudge"})

\* A broadcast is sent and becomes a turn of the session of the day.
Nudge ==
  /\ Nudges < MaxNudges
  /\ Insert("nudge", today)
  /\ UNCHANGED <<kind, loop, threads, memory, chief, clock, history, faults>>

\* Mutant of Recent: what was said on the day of the last review is read again.
RecentOfTheDay == {i \in 1 .. Len(turns) : turns[i].day >= since.day}

\* created_at > completed_at of the last review.  (The model starts after the first review,
\* which finds no completed_at and reads nothing.)
Recent ==
  {i \in 1 .. Len(turns) :
     IF turns[i].by = "react" THEN turns[i].day >= since.day ELSE i > since.at}

StartReview ==
  /\ ~review /\ reviews < MaxReviews
  /\ review' = TRUE /\ reviews' = reviews + 1
  /\ reviewed' = [i \in 1 .. Len(turns) |->
       reviewed[i] + IF i \in First(Recent, ReviewRows) THEN 1 ELSE 0]
  /\ UNCHANGED <<kind, loop, threads, turns, memory, since, clock, history, faults>>

\* Its row is completed, or not: then the next review reads from the same point.
EndReview ==
  /\ review /\ review' = FALSE
  /\ \/ NoFault /\ since' = [at |-> Len(turns), day |-> today]
     \/ Fault /\ UNCHANGED since
  /\ UNCHANGED <<kind, loop, threads, chat, memory, reviews, clock, history>>

-----------------------------------------------------------------------------
LoopStep ==
  \/ SkipProcessed \/ Handle \/ HandleTap \/ Chitchat \/ Context \/ Compress
  \/ Answer \/ Mark \/ Save

Next ==
  \/ \E k \in {"chat", "chitchat", "tap"} : Say(k)
  \/ LoopStep \/ Crash
  \/ \E s \in Day : WriteTurn(s)
  \/ Midnight \/ Gap \/ Nudge \/ StartReview \/ EndReview

\* The loop and its threads run.
Fairness == WF_vars(LoopStep) /\ \A s \in Day : WF_vars(WriteTurn(s))

Spec == Init /\ [][Next]_vars /\ Fairness

-----------------------------------------------------------------------------
(* Properties.                                                             *)

\* An update that will not be delivered again was handled to its end, whenever the
\* process dies (telegram.py:718).
NothingAcknowledgedUnhandled == \A u \in 1 .. saved - 1 : answered[u] > 0

\* An update is handled again only if the process died, or a statement failed, before its
\* first handling was recorded: the offset or processed_messages keeps it off.
HandledAgainOnlyIfUnrecorded == \A u \in Updates : answered[u] <= 1 + again[u]

\* The beliefs of a session are extracted once, whoever asks for its context again: only a
\* compression that failed is repeated (session.py:69).
CompressedOnce == \A s \in Day : memories[s] <= 1

\* A review reads what was sent or chatted since the last one: no such turn is read twice,
\* unless a review failed.  (Not so for the turns of the ReAct loop: see Recent.)
PlainTurnsReviewedOnce ==
  \A i \in 1 .. Len(turns) : turns[i].by # "react" => reviewed[i] <= 1 + faults

\* Whatever the user says is handled in the end, crashes and failures or not.
UpdatesAreHandled == <>[](\A u \in 1 .. Len(kind) : answered[u] > 0)

\* Updates, summaries and reviews: nothing is lost, and nothing done twice but for a failure.
OnceEach ==
  /\ TypeOK /\ NothingAcknowledgedUnhandled /\ HandledAgainOnlyIfUnrecorded
  /\ CompressedOnce /\ PlainTurnsReviewedOnce
=============================================================================
