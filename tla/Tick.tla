-------------------------------- MODULE Tick --------------------------------
(***************************************************************************)
(* What a tick of the heartbeat does beside mail, sweeps and scheduled     *)
(* actions: it fills the contacts (Contacts), turns feeds into signals     *)
(* (Feeds), and enriches and observes the signals (Observation).  All they *)
(* have in common are the signals that are there, and each of them is      *)
(* prepared for any that come, so it is enough to look at one at a time:   *)
(* subject says which one moves.                                           *)
(***************************************************************************)
EXTENDS Observation, Sequences

CONSTANTS
  Order, Extractor, Listable, Loose, Bare, Processed, MaxChanges, MaxSkips, Failures,
  Handles, NameIn, DomainOf, Alike, Mentioned, Personal, Inbox, None, PageSize, To, From, MaxTracks, Mishaps, MaxEvents

VARIABLES
  listed, toPoll, at, queue, results, batch, open, logged, changes, skips, failures,
  contacts, channel, backfilled, watermark, pollDue, folder, inbox, enriched, scan, op, origins,
  taken, pushed, since, written, outs, ins, extras, crossed, tracks, mishaps,
  subject,
  watched  \* what a feed may list

F == INSTANCE Feeds WITH due <- toPoll, pc <- at, faults <- failures, MaxFaults <- Failures
C == INSTANCE Contacts WITH mark <- watermark, sent <- folder, faults <- mishaps, MaxFaults <- Mishaps

ASSUME TickAssumption == F!FeedsAssumption /\ C!ContactsAssumption

observing == vars
feeding   == <<listed, toPoll, at, queue, results, batch, open, logged, changes, skips, failures>>
meeting   == <<contacts, channel, backfilled, watermark, pollDue, folder, inbox, enriched, scan, op, origins,
               taken, pushed, since, written, outs, ins, extras, crossed, tracks, mishaps>>
chosen    == <<subject, watched>>
tick      == <<observing, feeding, meeting, chosen>>

\* What does not move is at rest.
TickInit ==
  /\ Init /\ F!Init /\ C!Init /\ subject \in {"observation", "feeds", "contacts"}
  /\ watched \in F!Keys \ Processed
  /\ subject # "feeds" => watched = CHOOSE k \in F!Keys \ Processed : TRUE

Observing(A) == subject = "observation" /\ A /\ UNCHANGED <<feeding, meeting, chosen>>
Feeding(A)   == subject = "feeds" /\ A /\ UNCHANGED <<observing, meeting, chosen>>
Meeting      == subject = "contacts" /\ C!Next /\ UNCHANGED <<observing, feeding, chosen>>

TickNext == Observing(Next) \/ Feeding(F!Next) \/ Meeting

\* The interval of a feed that lists what is watched passes.
PollComes == \E f \in F!Feeds : watched \in F!KeysOf(f, listed[f]) /\ F!Elapse(f)

\* That of the components, or less.  As subject does not change, to be fair to one action or another
\* is to be fair to both.
TickFairness ==
  /\ WF_tick(Observing(Step) \/ Feeding(F!Step))
  /\ SF_tick(Observing(Lapse("ceiling")))
  /\ SF_tick(Observing(Elapse) \/ Feeding(PollComes))

TickSpec == TickInit /\ [][TickNext]_tick /\ TickFairness

-----------------------------------------------------------------------------
(* The properties of the components, which say more of each; that of       *)
(* Observation's states is OncePerSignal.                                  *)

Waiting == IF subject = "feeds" THEN F!Listed(watched) ELSE mark # Never
Served  == IF subject = "feeds" THEN F!Duplicate(watched) \/ ~F!Listed(watched) ELSE Watermark = last

\* However few signals come, they are observed (observation.py:253); what a feed goes on listing is a
\* signal at last, although a slow tick drops what it polled (poller.py:544).
NothingStarves == Waiting ~> Served

\* What a feed lists is logged, and not twice in three dates (rules.py:377).
FeedsAreSound == subject = "feeds" => F!TypeOK /\ F!NeverTwice

\* Mail is seen and counted once (contact_poller.py:258), and who was written to is known as
\* such (sender_trust.py:5); the account a contact came from is written once (resolver.py:29).
ContactsAreSound ==
  /\ [](subject = "contacts" => C!TypeOK /\ C!SentSeen /\ C!TakenOnce /\ C!CountsTrue /\ C!NotForgotten)
  /\ C!OriginKept
=============================================================================
