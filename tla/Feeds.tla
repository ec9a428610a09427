------------------------------- MODULE Feeds --------------------------------
(***************************************************************************)
(* The feeds of the heartbeat other than mail (heartbeat/source_poller.py, *)
(* heartbeat/extractors.py): at each tick those whose interval is over are *)
(* polled, then what they list is turned into signals, feed by feed.       *)
(*                                                                         *)
(* Only the heartbeat works on feeds, one step after the other.  What can  *)
(* go wrong is in the order: when a feed was polled is in memory and is    *)
(* noted before its signals are written, a transaction for each feed; and  *)
(* a feed lists the same things again and again, which only the signals of *)
(* the last three dates tell.                                              *)
(***************************************************************************)
EXTENDS Integers, Sequences, FiniteSets

CONSTANTS
  Order,      \* the feeds: sources, watched topics, directories and repositories
  Extractor,  \* Extractor[f]: how its lists are read
  Listable,   \* Listable[f]: what it may list
  Loose,      \* things listed without a URL, a title or an id
  Bare,       \* files whose text does not begin with their path
  Processed,  \* what processed_messages has
  MaxChanges, \* bound: things that are listed anew or no longer
  MaxSkips,   \* bound: ticks that run out of time
  MaxFaults   \* bound: failing calls and statements, and crashes

Feeds   == {Order[i] : i \in DOMAIN Order}
Things  == UNION {Listable[f] : f \in Feeds}
Dates   == 0 .. 2     \* today, yesterday, the day before

-----------------------------------------------------------------------------
(* The keys of things, ref_source and ref_id, by the extractor.            *)

\* Results without a URL are dropped; the id is the hash of the URL.
WebSearch(S) == [i \in S \ Loose |-> <<"web_search", i>>]

\* The id is the hash of the path; of "unknown" if there is none.
FileContent(S) == [i \in S |-> <<"filesystem", IF i \in Bare THEN "unknown" ELSE i>>]

\* A commit by its hash, an issue and a pull request by repository and number; incomplete ones are dropped.
GithubActivity(S) == [i \in S \ Loose |-> <<"github", i>>]

\* Jobs and events keep the id they have; without one nothing tells them, and they are not looked at here.
JobListings(S)    == [i \in S \ Loose |-> <<"jobspy", i>>]
CalendarEvents(S) == [i \in S \ Loose |-> <<"calendar", i>>]

Extracted(f, S) ==
  CASE Extractor[f] = "web_search"      -> WebSearch(S)
    [] Extractor[f] = "file_content"    -> FileContent(S)
    [] Extractor[f] = "github_activity" -> GithubActivity(S)
    [] Extractor[f] = "jobs"            -> JobListings(S)
    [] Extractor[f] = "calendar"        -> CalendarEvents(S)

KeysOf(f, S) == {Extracted(f, S)[i] : i \in DOMAIN Extracted(f, S)}
Keys == UNION {KeysOf(f, Listable[f]) : f \in Feeds}

-----------------------------------------------------------------------------
FeedsAssumption ==
  /\ Extractor \in [Feeds -> {"web_search", "file_content", "github_activity", "jobs", "calendar"}]
  /\ Loose \cup Bare \subseteq Things /\ Processed \subseteq Keys
  /\ MaxChanges \in Nat /\ MaxSkips \in Nat /\ MaxFaults \in Nat

VARIABLES
  listed,  \* listed[f]: what it lists now
  due,     \* feeds whose interval is over; all, when the heartbeat starts
  pc,
  queue,   \* feeds to poll in this tick: their places in Order
  results, \* what was polled and is not extracted
  batch,   \* of the first of results: keys of the things that are left, while its transaction is open
  open,    \* open[k]: rows of the transaction
  logged,  \* logged[k][d]: rows of signals, by date
  changes, skips, faults

vars == <<listed, due, pc, queue, results, batch, open, logged, changes, skips, faults>>

NoRows == [k \in Keys |-> 0]

TypeOK ==
  /\ listed \in [Feeds -> SUBSET Things] /\ \A f \in Feeds : listed[f] \subseteq Listable[f]
  /\ due \subseteq Feeds /\ pc \in {"rest", "poll", "extract", "log"}
  /\ queue \subseteq DOMAIN Order /\ results \in Seq([feed : Feeds, things : SUBSET Things])
  /\ DOMAIN batch \subseteq Things /\ \A i \in DOMAIN batch : batch[i] \in Keys
  /\ open \in [Keys -> Nat] /\ logged \in [Keys -> [Dates -> Nat]]
  /\ changes \in 0 .. MaxChanges /\ skips \in 0 .. MaxSkips /\ faults \in 0 .. MaxFaults

Init ==
  /\ listed = [f \in Feeds |-> {}] /\ due = Feeds
  /\ pc = "rest" /\ queue = {} /\ results = <<>> /\ batch = <<>>
  /\ open = NoRows /\ logged = [k \in Keys |-> [d \in Dates |-> 0]]
  /\ changes = 0 /\ skips = 0 /\ faults = 0

Fault   == faults < MaxFaults /\ faults' = faults + 1
NoFault == UNCHANGED faults

-----------------------------------------------------------------------------
(* The world, between ticks.                                               *)

\* A feed lists something, or no longer.
Change(f, i) ==
  /\ pc = "rest" /\ changes < MaxChanges /\ changes' = changes + 1
  /\ listed' = [listed EXCEPT ![f] = (@ \ {i}) \cup ({i} \ @)]
  /\ UNCHANGED <<due, pc, queue, results, batch, open, logged, skips, faults>>

\* interval_minutes pass.
Elapse(f) ==
  /\ pc = "rest" /\ f \notin due /\ due' = due \cup {f}
  /\ UNCHANGED <<listed, pc, queue, results, batch, open, logged, changes, skips, faults>>

\* The window begins at the same time three days ago, but dates are compared first, and then a "T" with the
\* blank of CURRENT_TIMESTAMP: it is all of the last three dates.
Midnight ==
  /\ pc = "rest"
  /\ logged' = [k \in Keys |-> [d \in Dates |-> IF d = 0 THEN 0 ELSE logged[k][d - 1]]]
  /\ logged' # logged
  /\ UNCHANGED <<listed, due, pc, queue, results, batch, open, changes, skips, faults>>

-----------------------------------------------------------------------------
(* Phase 0: polling.                                                       *)

StartTick ==
  /\ pc = "rest" /\ due # {} /\ pc' = "poll"
  /\ queue' = {n \in DOMAIN Order : Order[n] \in due}
  /\ UNCHANGED <<listed, due, results, batch, open, logged, changes, skips, faults>>

\* That it was polled is noted, in memory.
Noted(f) == due' = due \ {f}

Answer(f, S) == results' = Append(results, [feed |-> f, things |-> S])

\* A call that raises leaves the feed due.  One that is answered by an error is an answer: the
\* signal made of it has no id and is not looked at here.
Called(f) ==
  \/ NoFault /\ Noted(f) /\ Answer(f, listed[f])
  \/ Fault /\ Noted(f) /\ Answer(f, {})
  \/ Fault /\ UNCHANGED <<due, results>>

\* A source, a watched topic (_poll_watch_topics) and a repository (_poll_watch_repos): a call.
Source(f)     == Extractor[f] \in {"jobs", "calendar", "web_search"} /\ Called(f)
Repository(f) == Extractor[f] = "github_activity" /\ Called(f)

\* _poll_watch_dirs: the directory is listed and noted, then its files are read.
Directory(f) ==
  /\ Extractor[f] = "file_content"
  /\ Called(f) \/ (Fault /\ Noted(f) /\ UNCHANGED results)

Poll ==
  /\ pc = "poll" /\ \E n \in queue :
       /\ \A m \in queue : n <= m
       /\ queue' = queue \ {n} /\ pc' = IF queue' = {} THEN "extract" ELSE "poll"
       /\ Source(Order[n]) \/ Directory(Order[n]) \/ Repository(Order[n])
  /\ UNCHANGED <<listed, batch, open, logged, changes, skips>>

-----------------------------------------------------------------------------
(* Phase 2: extraction.                                                    *)

\* The next feed, if there is time; else all that are left are dropped.
Extract ==
  /\ pc = "extract" /\ results # <<>>
  /\ \/ pc' = "log" /\ batch' = Extracted(Head(results).feed, Head(results).things) /\ UNCHANGED <<results, skips>>
     \/ skips < MaxSkips /\ skips' = skips + 1 /\ results' = <<>> /\ UNCHANGED <<pc, batch>>
  /\ UNCHANGED <<listed, due, queue, open, logged, changes, faults>>

EndTick ==
  /\ pc = "extract" /\ results = <<>> /\ pc' = "rest"
  /\ UNCHANGED <<listed, due, queue, results, batch, open, logged, changes, skips, faults>>

\* is_duplicate_signal: on a connection of its own, it does not see the open transaction.
Duplicate(k) == \E d \in Dates : logged[k][d] > 0

\* Mutant of Recorded: log_signal_with_conn only looks at what is committed.
RecordedBefore(k) == Duplicate(k)

\* Mutant of Recorded: it looks for the id in any source.
RecordedAnywhere(k) == \E j \in Keys : j[2] = k[2] /\ (Duplicate(j) \/ open[j] > 0)

\* log_signal_with_conn sees it.
Recorded(k) == Duplicate(k) \/ open[k] > 0

\* The next signal of the feed; what fails in writing it is only logged.
Log ==
  /\ pc = "log" /\ \E i \in DOMAIN batch :
       /\ batch' = [j \in DOMAIN batch \ {i} |-> batch[j]]
       /\ LET k == batch[i]
          IN  IF Duplicate(k) \/ k \in Processed \/ Recorded(k) THEN NoFault /\ UNCHANGED open
              ELSE \/ NoFault /\ open' = [open EXCEPT ![k] = @ + 1]
                   \/ Fault /\ UNCHANGED open
  /\ UNCHANGED <<listed, due, pc, queue, results, logged, changes, skips>>

Commit ==
  /\ pc = "log" /\ DOMAIN batch = {} /\ pc' = "extract" /\ results' = Tail(results)
  /\ logged' = [k \in Keys |-> [logged[k] EXCEPT ![0] = @ + open[k]]] /\ open' = NoRows
  /\ UNCHANGED <<listed, due, queue, batch, changes, skips, faults>>

\* Anything else that raises costs what the feed listed.
Lose ==
  /\ pc = "log" /\ Fault /\ pc' = "extract" /\ results' = Tail(results) /\ batch' = <<>> /\ open' = NoRows
  /\ UNCHANGED <<listed, due, queue, logged, changes, skips>>

\* The heartbeat is restarted: it does not know when it polled.
Crash ==
  /\ pc # "rest" /\ Fault /\ pc' = "rest"
  /\ due' = Feeds /\ queue' = {} /\ results' = <<>> /\ batch' = <<>> /\ open' = NoRows
  /\ UNCHANGED <<listed, logged, changes, skips>>

Step == StartTick \/ Poll \/ Extract \/ EndTick \/ Log \/ Commit \/ Lose

Next ==
  \/ \E f \in Feeds : Elapse(f) \/ \E i \in Listable[f] : Change(f, i)
  \/ Midnight \/ Step \/ Crash

\* Ticks follow each other and run to their end; time passes, so every interval does.
Fairness == WF_vars(Step) /\ \A f \in Feeds : SF_vars(Elapse(f))

Spec == Init /\ [][Next]_vars /\ Fairness

-----------------------------------------------------------------------------
(* Properties.                                                             *)

\* "the same source id never lands twice" (rules.py:377) in three dates, although a feed lists
\* it at each poll, several feeds list it, and one lists two things with one id.
NeverTwice == \A k \in Keys : logged[k][0] + logged[k][1] + logged[k][2] <= 1

Listed(k) == \E f \in Feeds : k \in KeysOf(f, listed[f])

\* What a feed goes on listing is a signal at last, and again when that is three dates old,
\* although a slow tick drops what it polled and takes it for polled.
ListedIsLogged == \A k \in Keys \ Processed : Listed(k) ~> Duplicate(k) \/ ~Listed(k)
=============================================================================
