------------------------------ MODULE Contacts ------------------------------
(***************************************************************************)
(* The contact graph: who was written to and who wrote.  The heartbeat     *)
(* fills it from the sent folder (heartbeat/contact_poller.py: at first    *)
(* from the mail of 90 days, then once an hour) and from the signals it    *)
(* enriches (signal_intelligence.py); the Telegram service from the mail   *)
(* it sends (send_email.py), the people a session mentions (session.py),   *)
(* and the signals, for contacts without an account of origin              *)
(* (skills/accounts/handler.py).                                           *)
(*                                                                         *)
(* A contact is found and then written in one to five transactions, while  *)
(* the other service does the same.  A state is one transaction or one     *)
(* page of the folder.                                                     *)
(***************************************************************************)
EXTENDS Integers, Sequences, FiniteSets, FiniteSetsExt

CONSTANTS
  Handles,    \* addresses; the contact made for one has an id made of it
  NameIn,     \* NameIn[h]: the name beside h in mail; h itself if there is none
  DomainOf,   \* DomainOf[h]
  Alike,      \* Alike[n]: the names that share most of their words with n
  Mentioned,  \* a name people use in sessions
  Personal, Inbox,  \* the account of the sent folder, and that of the mail that comes in
  None,
  PageSize,   \* envelopes on a page (50 and 100)
  To, From,   \* bounds: to whom the mail in the sent folder goes, in this order; from whom mail is received
  MaxTracks,  \* bound: requests the Telegram service handles
  MaxFaults,  \* bound: failed statements and listings, and crashes
  MaxEvents   \* bound: all of these together

VARIABLES
  contacts,   \* contacts[id]: the row, or None
  channel,    \* contact_channels: the contact of an address, or None
  backfilled, mark, pollDue,  \* heartbeat_state: contacts_backfilled, sent_mail_watermark, an hour since last_sent_poll_at
  sent,       \* the sent folder, oldest first: to whom and in which second
  inbox,      \* mail received, oldest first: from whom
  enriched,   \* how many of them have been enriched as signals, oldest first
  scan,       \* what the heartbeat goes through
  op,         \* the contact a service is at
  origins,    \* backfill_contacts_origin: the contacts it found without origin, or None
  taken, pushed,  \* history: times a sent mail was taken by a poll; mail sent during one
  since,      \* history: the watermark the first poll that set one started from
  written,    \* history: addresses mail was counted to
  outs, ins, extras,  \* history: mail counted to a contact as sent and as received; those it began with that were none
  crossed,    \* history: the services worked on contacts at the same time
  tracks, faults

graph   == <<contacts, channel>>
state   == <<backfilled, mark, pollDue>>
mail    == <<sent, inbox, enriched>>
history == <<taken, pushed, since, written, outs, ins, extras, crossed>>
vars    == <<graph, state, mail, scan, op, origins, history, tracks, faults>>

Ids     == Handles \cup {Mentioned}
Names   == {NameIn[h] : h \in Handles} \cup Ids
Vias    == {Personal, Inbox, None}
Row     == [name : Names, sent : Nat, received : Nat, origin : Vias, seen : SUBSET {Personal, Inbox}]
Service == {"heartbeat", "telegram"}
Second  == 0 .. Len(To)
NoMark  == -1

\* None is no contact and no row; a mentioned person is known by no address.
ContactsAssumption ==
  /\ Mentioned \notin Handles /\ None \notin Ids /\ None \notin Row
  /\ PageSize \in Nat \ {0} /\ To \in Seq(Handles) /\ From \in Seq(Handles)
  /\ MaxTracks \in Nat /\ MaxFaults \in Nat /\ MaxEvents \in Nat

Scans   == {"nothing", "checked", "backfill_sent", "backfill_received", "poll", "signals"}

Resting == [on |-> "nothing", page |-> 0, rest |-> <<>>, low |-> 0, high |-> 0, last |-> FALSE]
Idle    == [at |-> "idle", kind |-> "none", who |-> Mentioned, id |-> Mentioned]

TypeOK ==
  /\ contacts \in [Ids -> Row \cup {None}] /\ channel \in [Handles -> Ids \cup {None}]
  /\ backfilled \in BOOLEAN /\ mark \in Second \cup {NoMark} /\ pollDue \in BOOLEAN
  /\ sent \in Seq([to : Handles, at : Second]) /\ inbox \in Seq(Handles) /\ enriched \in 0 .. Len(inbox)
  /\ scan \in [on : Scans, page : Nat, rest : Seq(Nat), low : Second, high : Second, last : BOOLEAN]
  /\ op \in [Service -> [at : {"idle", "resolve", "update", "create", "bind", "count", "stamp", "channel"},
                         kind : {"none", "sent", "received", "signal", "track", "mention"}, who : Ids, id : Ids]]
  /\ origins \in (SUBSET Ids) \cup {None}
  /\ taken \in Seq(Nat) /\ pushed \in Nat /\ since \in Second \cup {NoMark}
  /\ written \subseteq Handles /\ crossed \in BOOLEAN
  /\ outs \in [Ids -> Nat] /\ ins \in [Ids -> Nat] /\ extras \in [Ids -> Nat]
  /\ tracks \in 0 .. MaxTracks /\ faults \in 0 .. MaxFaults

Init ==
  /\ contacts = [c \in Ids |-> None] /\ channel = [h \in Handles |-> None]
  /\ backfilled = FALSE /\ mark = NoMark /\ pollDue = TRUE
  /\ sent = <<>> /\ inbox = <<>> /\ enriched = 0
  /\ scan = Resting /\ op = [s \in Service |-> Idle] /\ origins = None
  /\ taken = <<>> /\ pushed = 0 /\ since = NoMark
  /\ written = {} /\ crossed = FALSE
  /\ outs = [c \in Ids |-> 0] /\ ins = [c \in Ids |-> 0] /\ extras = [c \in Ids |-> 0]
  /\ tracks = 0 /\ faults = 0

Another == Len(sent) + Len(inbox) + tracks + faults < MaxEvents

Fault   == Another /\ faults < MaxFaults /\ faults' = faults + 1
NoFault == UNCHANGED faults

Known == {c \in Ids : contacts[c] # None}

-----------------------------------------------------------------------------
(* Mail and the clock.                                                     *)

Clock == IF sent = <<>> THEN 0 ELSE sent[Len(sent)].at

Quiet == \A s \in Service : op[s] = Idle

\* A mail leaves the owner's account, perhaps in the second of the one before.  It makes no
\* difference when, while a service is at a contact; nor for the next two.
Send ==
  /\ Quiet /\ Another /\ Len(sent) < Len(To)
  /\ \E t \in {Clock, Clock + 1} : t > 0 /\ sent' = Append(sent, [to |-> To[Len(sent) + 1], at |-> t])
  /\ taken' = Append(taken, 0)
  /\ pushed' = IF scan.on = "poll" THEN pushed + 1 ELSE pushed
  /\ UNCHANGED <<graph, state, inbox, enriched, scan, op, origins, since, written, outs, ins, extras, crossed, tracks, faults>>

\* A mail comes in: phase 2 of a tick makes a signal of it.
Receive ==
  /\ Quiet /\ Another /\ Len(inbox) < Len(From) /\ scan = Resting
  /\ inbox' = Append(inbox, From[Len(inbox) + 1])
  /\ UNCHANGED <<graph, state, sent, enriched, scan, op, origins, history, tracks, faults>>

Hour ==
  /\ Quiet /\ ~pollDue /\ scan = Resting /\ pollDue' = TRUE
  /\ UNCHANGED <<graph, backfilled, mark, mail, scan, op, origins, history, tracks, faults>>

-----------------------------------------------------------------------------
(* What the heartbeat goes through.                                        *)

Fresh == Known = {} /\ ~backfilled

\* _check_contact_backfill: once, and only while there are no contacts.
StartBackfill ==
  /\ scan = Resting /\ Fresh
  /\ \/ NoFault /\ scan' = [Resting EXCEPT !.on = "backfill_sent", !.page = 1]
     \/ Fault /\ scan' = [Resting EXCEPT !.on = "backfill_received", !.page = 1]   \* no folder is found
  /\ UNCHANGED <<graph, state, mail, op, origins, history, tracks>>

\* The backfill is behind the tick.
Checked == (scan = Resting /\ ~Fresh) \/ scan.on = "checked"

\* poll_sent_folder: without a watermark, back for an hour: to the mail after some second.
StartPoll ==
  /\ Checked /\ pollDue
  /\ \E low \in IF mark = NoMark THEN 0 .. Clock ELSE {mark} :
       \/ NoFault /\ scan' = [Resting EXCEPT !.on = "poll", !.page = 1, !.low = low, !.high = low] /\ UNCHANGED pollDue
       \/ Fault /\ scan' = Resting /\ pollDue' = FALSE   \* no folder is found
  /\ UNCHANGED <<graph, backfilled, mark, mail, op, origins, history, tracks>>

\* The newest mail of page p, of n.
Top(n, p) == n - (p - 1) * PageSize

\* The folder as it is now, newest first, cut into pages.
Page(n, p) == [i \in 1 .. Min({PageSize, Top(n, p)}) |-> Top(n, p) + 1 - i]

Listing == scan.on \in {"backfill_sent", "backfill_received", "poll"} /\ op["heartbeat"] = Idle

\* _list_envelopes: a listing that fails looks like an empty page.
NextPage ==
  /\ Listing /\ scan.rest = <<>> /\ ~scan.last
  /\ \E rest \in {<<>>, Page(IF scan.on = "backfill_received" THEN Len(inbox) ELSE Len(sent), scan.page)} :
       /\ IF rest = <<>> /\ Page(IF scan.on = "backfill_received" THEN Len(inbox) ELSE Len(sent), scan.page) # <<>>
          THEN Fault ELSE NoFault
       /\ scan' = [scan EXCEPT !.rest = rest, !.page = @ + 1, !.last = Len(rest) < PageSize]
  /\ UNCHANGED <<graph, state, mail, op, origins, history, tracks>>

\* Mutant of Reached: mail in the second of the watermark is taken again.
ReachedLater(m) == scan.on = "poll" /\ sent[m].at < scan.low

Reached(m) == scan.on = "poll" /\ sent[m].at <= scan.low

Begin(s, kind, who) ==
  /\ op' = [op EXCEPT ![s] = [Idle EXCEPT !.at = "resolve", !.kind = kind, !.who = who]]
  /\ crossed' = (crossed \/ origins # None \/ \E r \in Service \ {s} : op[r] # Idle)

\* The next envelope: of the watermark or before, it ends the scan; else its date counts, and its
\* recipient, unless the recipients cannot be read.
TakeSent ==
  /\ Listing /\ scan.on # "backfill_received" /\ scan.rest # <<>>
  /\ LET m == Head(scan.rest)
     IN  IF Reached(m)
         THEN scan' = [scan EXCEPT !.rest = <<>>, !.last = TRUE] /\ NoFault /\ UNCHANGED <<op, taken, crossed>>
         ELSE /\ scan' = [scan EXCEPT !.rest = Tail(@), !.high = Max({@, sent[m].at})]
              /\ taken' = IF scan.on = "poll" THEN [taken EXCEPT ![m] = @ + 1] ELSE taken
              /\ \/ NoFault /\ Begin("heartbeat", "sent", sent[m].to)
                 \/ Fault /\ UNCHANGED <<op, crossed>>
  /\ UNCHANGED <<graph, state, mail, origins, pushed, since, written, outs, ins, extras, tracks>>

TakeReceived ==
  /\ Listing /\ scan.on = "backfill_received" /\ scan.rest # <<>>
  /\ scan' = [scan EXCEPT !.rest = Tail(@)]
  /\ Begin("heartbeat", "received", inbox[Head(scan.rest)])
  /\ UNCHANGED <<graph, state, mail, origins, taken, pushed, since, written, outs, ins, extras, tracks, faults>>

Finished == Listing /\ scan.rest = <<>> /\ scan.last

\* The backfill goes on with the mail received, and is marked as done at the end, if it gets there.
EndBackfill ==
  /\ Finished
  /\ \/ scan.on = "backfill_sent" /\ NoFault /\ UNCHANGED backfilled
        /\ scan' = [Resting EXCEPT !.on = "backfill_received", !.page = 1]
     \/ /\ scan.on = "backfill_received"
        /\ scan' = IF pollDue THEN [Resting EXCEPT !.on = "checked"] ELSE Resting
        /\ \/ NoFault /\ backfilled' = TRUE
           \/ Fault /\ UNCHANGED backfilled
  /\ UNCHANGED <<graph, mark, pollDue, mail, op, origins, history, tracks>>

\* The watermark is saved whatever happened to the pages, if it can be; and then the hour.
EndPoll ==
  /\ Finished /\ scan.on = "poll" /\ scan' = Resting
  /\ \/ /\ mark' = IF scan.high > scan.low THEN scan.high ELSE mark
        /\ \/ NoFault /\ pollDue' = FALSE
           \/ Fault /\ UNCHANGED pollDue
     \/ Fault /\ pollDue' = FALSE /\ UNCHANGED mark
  /\ since' = IF mark = NoMark /\ mark' # NoMark THEN scan.low ELSE since
  /\ UNCHANGED <<graph, backfilled, mail, op, origins, taken, pushed, written, outs, ins, extras, crossed, tracks>>

\* enrich_signals: the sender of each new signal, ...
StartSignals ==
  /\ scan = Resting /\ ~Fresh /\ enriched < Len(inbox)
  /\ scan' = [Resting EXCEPT !.on = "signals", !.rest = [i \in 1 .. Len(inbox) - enriched |-> enriched + i]]
  /\ UNCHANGED <<graph, state, mail, op, origins, history, tracks, faults>>

TakeSignal ==
  /\ scan.on = "signals" /\ scan.rest # <<>> /\ op["heartbeat"] = Idle
  /\ scan' = [scan EXCEPT !.rest = Tail(@)]
  /\ Begin("heartbeat", "signal", inbox[Head(scan.rest)])
  /\ UNCHANGED <<graph, state, mail, origins, taken, pushed, since, written, outs, ins, extras, tracks, faults>>

\* ... then the batch is written back, or all of it is new again.
EndSignals ==
  /\ scan.on = "signals" /\ scan.rest = <<>> /\ op["heartbeat"] = Idle
  /\ scan' = Resting
  /\ \/ NoFault /\ enriched' = Len(inbox)
     \/ Fault /\ UNCHANGED enriched
  /\ UNCHANGED <<graph, state, sent, inbox, op, origins, history, tracks>>

-----------------------------------------------------------------------------
(* What the Telegram service does.                                         *)

Free == op["telegram"] = Idle /\ origins = None /\ Another /\ tracks < MaxTracks /\ tracks' = tracks + 1

\* _track_outbound, after a mail was handed over.
Track(h) ==
  /\ Free /\ Begin("telegram", "track", h)
  /\ UNCHANGED <<graph, state, mail, scan, origins, taken, pushed, since, written, outs, ins, extras, faults>>

\* bridge_to_contacts, for a name of the second session.
Mention ==
  /\ Free /\ Begin("telegram", "mention", Mentioned)
  /\ UNCHANGED <<graph, state, mail, scan, origins, taken, pushed, since, written, outs, ins, extras, faults>>

\* backfill_contacts_origin: the contacts without origin are read, ...
ReadOrigins ==
  /\ Free /\ origins' = {c \in Known : contacts[c].origin = None}
  /\ crossed' = (crossed \/ op["heartbeat"] # Idle)
  /\ UNCHANGED <<graph, state, mail, scan, op, taken, pushed, since, written, outs, ins, extras, faults>>

Placed(r) == [r EXCEPT !.origin = Inbox, !.seen = IF r.seen = {} THEN {Inbox} ELSE r.seen]

\* ... and in one transaction those with a signal get its account, whatever they have by now.
WriteOrigins ==
  /\ origins # None /\ origins' = None
  /\ contacts' = [c \in Ids |->
       IF c \in origins /\ \E m \in 1 .. Len(inbox) : inbox[m] = c THEN Placed(contacts[c]) ELSE contacts[c]]
  /\ UNCHANGED <<channel, state, mail, scan, op, history, tracks, faults>>

-----------------------------------------------------------------------------
(* A contact is found and written: resolve_contact, _upsert_contact_core,  *)
(* create_contact and upsert_contact_channel.                              *)

\* The name a contact is looked for and made with.
Name(o) == IF o.kind \in {"sent", "received"} THEN NameIn[o.who] ELSE o.who

Named(n) == {c \in Known : contacts[c].name = n}

\* Of that name, with an address of the domain of h.
Near(n, h) == {c \in Named(n) : \E g \in Handles : channel[g] = c /\ DomainOf[g] = DomainOf[h]}

\* What resolve_contact may return: the contact of the address; else, if it knows a name, one
\* of that name in the domain; else the only one of that name.
Resolved(o) ==
  LET named == Named(Name(o))
      near  == IF o.kind = "mention" THEN {} ELSE Near(Name(o), o.who)
  IN  IF o.kind # "mention" /\ channel[o.who] # None THEN {channel[o.who]}
      ELSE IF o.kind = "track" THEN {}
      ELSE IF near # {} THEN near
      ELSE IF Cardinality(named) = 1 THEN named ELSE {}

Go(s, at) == op' = [op EXCEPT ![s].at = at]

\* If it raises, nobody is found.  A mention is linked to the contact and that is all.
Resolve(s) ==
  /\ op[s].at = "resolve"
  /\ \/ \E c \in Resolved(op[s]) :
          /\ op' = [op EXCEPT ![s] = IF op[s].kind = "mention" THEN Idle ELSE [@ EXCEPT !.at = "update", !.id = c]]
          /\ NoFault
     \/ /\ op' = [op EXCEPT ![s] = [@ EXCEPT !.at = "create", !.id = op[s].who]]
        /\ IF Resolved(op[s]) = {} THEN NoFault ELSE Fault
  /\ UNCHANGED <<graph, state, mail, scan, origins, history, tracks>>

Outbound(o) == o.kind \in {"sent", "track"}

\* The account a mail came or went through.
Via(o) == CASE o.kind \in {"sent", "received"} -> Personal [] o.kind = "signal" -> Inbox [] OTHER -> None

\* Mutant of Seen: the account of the last mail.
SeenLast(r, via) == IF via = None THEN r ELSE [r EXCEPT !.origin = via, !.seen = @ \cup {via}]

\* The first account is the origin, for good; the others are only noted.
Seen(r, via) ==
  IF via = None \/ via \in r.seen THEN r
  ELSE [r EXCEPT !.origin = IF @ = None THEN via ELSE @, !.seen = @ \cup {via}]

More(n, c, yes) == IF yes THEN [n EXCEPT ![c] = @ + 1] ELSE n

Tallied(o, r) == IF Outbound(o) THEN [r EXCEPT !.sent = @ + 1] ELSE [r EXCEPT !.received = @ + 1]

\* The contact that was found is counted on.
Update(s) ==
  /\ op[s].at = "update" /\ Go(s, "channel")
  /\ LET o == op[s]
     IN  \/ /\ NoFault /\ outs' = More(outs, o.id, Outbound(o)) /\ ins' = More(ins, o.id, ~Outbound(o))
            /\ contacts' = [contacts EXCEPT ![o.id] = Seen(Tallied(o, @), Via(o))]
         \/ Fault /\ UNCHANGED <<contacts, outs, ins>>
  /\ UNCHANGED <<channel, state, mail, scan, origins, taken, pushed, since, written, extras, crossed, tracks>>

Made(o, r) ==
  IF r = None THEN [name |-> Name(o), sent |-> 0, received |-> 1, origin |-> None, seen |-> {}]
  ELSE [r EXCEPT !.name = Name(o), !.received = @ + 1]

\* create_contact counts one received, also for one that is there after all (ON CONFLICT).  If it
\* fails the heartbeat goes on with the id it would have had.
Create(s) ==
  /\ op[s].at = "create"
  /\ LET o == op[s]
     IN  \/ /\ NoFault
            /\ contacts' = [contacts EXCEPT ![o.id] = Made(o, @)]
            /\ IF o.kind = "mention" THEN op' = [op EXCEPT ![s] = Idle] ELSE Go(s, "bind")
            /\ ins' = More(ins, o.id, o.kind \in {"received", "signal"})
            /\ extras' = More(extras, o.id, o.kind \in {"track", "mention"})
         \/ /\ Fault /\ UNCHANGED <<contacts, ins, extras>>
            /\ IF s = "telegram" THEN op' = [op EXCEPT ![s] = Idle] ELSE Go(s, IF Outbound(o) THEN "count" ELSE "stamp")
  /\ UNCHANGED <<channel, state, mail, scan, origins, taken, pushed, since, written, outs, crossed, tracks>>

\* upsert_contact_channel: the address is that of the contact from now on.  It says nothing if it fails,
\* or there is no such contact.
Bound(o) == IF contacts[o.id] = None THEN channel ELSE [channel EXCEPT ![o.who] = o.id]

Bind(s) ==
  /\ op[s].at = "bind" /\ Go(s, IF Outbound(op[s]) THEN "count" ELSE "stamp")
  /\ \/ NoFault /\ channel' = Bound(op[s])
     \/ Fault /\ UNCHANGED channel
  /\ UNCHANGED <<contacts, state, mail, scan, origins, history, tracks>>

\* Mutant of FirstSent: what create_contact counted stays.
FirstSentForgotten(o, r) == r

\* A contact made for a mail that was sent begins with that one.
FirstSent(o, r) ==
  IF r = None THEN r
  ELSE IF o.kind = "sent" THEN [r EXCEPT !.sent = 1, !.received = 0] ELSE [r EXCEPT !.sent = 1]

CountFirst(s) ==
  /\ op[s].at = "count" /\ Go(s, IF op[s].kind = "sent" THEN "stamp" ELSE "channel")
  /\ LET o == op[s]
     IN  \/ /\ NoFault /\ contacts' = [contacts EXCEPT ![o.id] = FirstSent(o, @)]
            /\ outs' = More(outs, o.id, contacts[o.id] # None)
         \/ Fault /\ UNCHANGED <<contacts, outs>>
  /\ UNCHANGED <<channel, state, mail, scan, origins, taken, pushed, since, written, ins, extras, crossed, tracks>>

Stamped(o, r) == IF r = None THEN r ELSE [r EXCEPT !.origin = Via(o), !.seen = {Via(o)}]

\* ... and with its account.
Stamp(s) ==
  /\ op[s].at = "stamp" /\ Go(s, "channel")
  /\ LET o == op[s]
     IN  \/ NoFault /\ contacts' = [contacts EXCEPT ![o.id] = Stamped(o, @)]
         \/ Fault /\ UNCHANGED contacts
  /\ UNCHANGED <<channel, state, mail, scan, origins, history, tracks>>

\* At the end the address is bound, again or anew.
Finish(s) ==
  /\ op[s].at = "channel" /\ op' = [op EXCEPT ![s] = Idle]
  /\ \/ NoFault /\ channel' = Bound(op[s])
     \/ Fault /\ UNCHANGED channel
  /\ written' = IF Outbound(op[s]) THEN written \cup {op[s].who} ELSE written
  /\ UNCHANGED <<contacts, state, mail, scan, origins, taken, pushed, since, outs, ins, extras, crossed, tracks>>

\* A service is restarted.
Crash ==
  /\ Fault
  /\ \/ /\ scan # Resting /\ scan' = Resting
        /\ op' = [op EXCEPT !["heartbeat"] = Idle] /\ UNCHANGED origins
     \/ /\ op["telegram"] # Idle \/ origins # None
        /\ op' = [op EXCEPT !["telegram"] = Idle] /\ origins' = None /\ UNCHANGED scan
  /\ UNCHANGED <<graph, state, mail, history, tracks>>

Next ==
  \/ Send \/ Receive \/ Hour \/ \E h \in Handles : Track(h)
  \/ StartBackfill \/ StartPoll \/ NextPage \/ TakeSent \/ TakeReceived \/ EndBackfill \/ EndPoll
  \/ StartSignals \/ TakeSignal \/ EndSignals
  \/ Mention \/ ReadOrigins \/ WriteOrigins
  \/ \E s \in Service : Resolve(s) \/ Update(s) \/ Create(s) \/ Bind(s) \/ CountFirst(s) \/ Stamp(s) \/ Finish(s)
  \/ Crash

Spec == Init /\ [][Next]_vars

-----------------------------------------------------------------------------
(* Who somebody is.                                                        *)

\* assess_sender_trust looks for the address in the contacts, then in the channels.
Found(h) == IF contacts[h] # None THEN contacts[h] ELSE IF channel[h] # None THEN contacts[channel[h]] ELSE None

\* A contact whose name is much like the one beside the address.
Resembling(h) == {c \in Known : contacts[c].name \in Alike[NameIn[h]]}

Tier(h) ==
  IF Found(h) # None THEN IF Found(h).sent > 0 THEN "ESTABLISHED" ELSE "RECOGNIZED"
  ELSE IF Resembling(h) # {} THEN "NAME_MISMATCH" ELSE "UNKNOWN"

\* lookup_contact looks in the channels first.
Looked(h) == IF channel[h] # None THEN contacts[channel[h]] ELSE contacts[h]

-----------------------------------------------------------------------------
(* Properties.                                                             *)

\* The mail in the folder since the first watermark, up to the last, was looked at
\* (contact_poller.py:258), although the folder grows under the pages; but for what was
\* sent in the second of the mail before, and for a failure.
SentSeen ==
  mark # NoMark /\ faults = 0 => \A m \in 1 .. Len(sent) :
    sent[m].at > since /\ sent[m].at <= mark /\ (m = 1 \/ sent[m - 1].at < sent[m].at) => taken[m] > 0

\* By polls a mail is taken once, but once more for each mail that shifts the pages of a running
\* one, and for each failure.
TakenOnce == \A m \in 1 .. Len(sent) : taken[m] <= 1 + pushed + faults

Half(c) == {s \in Service : op[s].at \in {"bind", "count"} /\ op[s].id = c}

\* The counts of a contact are those of the mail, and of the one received that it begins with if it
\* is made for a mention or by _track_outbound: never more, and exactly that while the services do
\* not work at the same time.
CountsTrue ==
  \A c \in Known :
    /\ contacts[c].sent <= outs[c]
    /\ contacts[c].received <= ins[c] + extras[c] + Cardinality(Half(c)) + faults
    /\ Quiet /\ ~crossed /\ faults = 0 =>
         contacts[c].sent = outs[c] /\ contacts[c].received = ins[c] + extras[c]

\* Who was written to is not a stranger (sender_trust.py:5): whatever the two services do to the
\* contact at the same time, he stays ESTABLISHED; and while they do not, lookup_contact agrees.
NotForgotten ==
  faults = 0 => \A h \in written : (\A s \in Service : op[s].who # h) =>
    /\ Tier(h) = "ESTABLISHED"
    /\ ~crossed => Looked(h).sent > 0

\* "account_origin is write-once" (resolver.py:29), but that a failed look-up makes a contact again,
\* and that backfill_contacts_origin and the making of a contact cross.
OriginKept == [][\A c \in Known :
  contacts[c].origin # None /\ contacts'[c].origin # contacts[c].origin =>
    faults > 0 \/ crossed]_vars

Inv == TypeOK /\ SentSeen /\ TakenOnce /\ CountsTrue /\ NotForgotten
=============================================================================
