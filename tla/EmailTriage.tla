---------------------------- MODULE EmailTriage ----------------------------
(***************************************************************************)
(* The email half of the heartbeat: heartbeat/poller.py polls the unread   *)
(* mail, gates it by age, writes one transaction per email and nudges the  *)
(* user about urgent ones; alerting/rules.py keeps the tables; the digest  *)
(* carries what was not urgent, and the nudges over the hourly limit.      *)
(*                                                                         *)
(* One process does all of this, tick after tick.  What makes it hard is   *)
(* that mail stays unread for days, so every email comes back in every     *)
(* tick, and only the tables say what was done with it: tables whose       *)
(* writes may fail one by one, beside memory that a crash forgets.         *)
(*                                                                         *)
(* No name is also one of Tick, which has the rest of the heartbeat: what  *)
(* is proved about the two is in one module, HeartbeatProofs.              *)
(***************************************************************************)
EXTENDS Integers, FiniteSets

CONSTANTS
  Mail,          \* emails that may arrive
  Undated,       \* those whose date cannot be parsed: the age gate lets them through
  MaxPerHour,    \* nudges the limiter allows per hour
  ListMax,       \* emails a digest message lists
  LegacyDigest,  \* the configuration flag enable_legacy_digest
  MailFaults,    \* bound: failed calls, failed statements and crashes
  MaxSweeps      \* bound: rows the retention sweep deletes

ASSUME EmailAssumption ==
  /\ Undated \subseteq Mail
  /\ MaxPerHour \in Nat \ {0} /\ ListMax \in Nat /\ MailFaults \in Nat /\ MaxSweeps \in Nat
  /\ LegacyDigest \in BOOLEAN

VARIABLES
  box,       \* box[e]: where e is in the user's mailbox
  old,       \* emails older than XIBI_EMAIL_MAX_AGE_DAYS
  seen,      \* table seen_emails
  signal,    \* emails with a row in signals
  triage,    \* triage[e]: verdicts of e in triage_log
  pending,   \* pending[e][v]: its rows that are newer than the digest watermark
  mailPc,    \* where the tick is
  mails,     \* emails of this tick that are still to be processed
  known,     \* seen_ids, the tick's copy of seen
  item,      \* the email just written, about to be nudged
  slots,     \* time stamps the rate limiter holds for the last hour
  overflow,  \* overflow[e]: entries of e in _digest_overflow
  heard,     \* heard[e]: messages to the user about e as an urgent email
  recapped,  \* recapped[e]: times a digest listed e
  sweeps,    \* rows of seen_emails deleted so far
  blind,     \* history: times the record of what was seen could not be read or written
  mailFaults \* history: everything that went wrong so far

mailbox   == <<box, old>>
tables    == <<seen, signal, triage, pending>>
mailLocal == <<mails, known, item>>
memory    == <<slots, overflow>>
user      == <<heard, recapped>>
mailVars  == <<mailbox, tables, mailPc, mailLocal, memory, user, sweeps, blind, mailFaults>>

Verdicts == {"urgent", "normal", "noise"}
Zero     == [e \in Mail |-> 0]
NoRows   == [e \in Mail |-> [v \in Verdicts |-> 0]]
NoItem   == {}

MailTypeOK ==
  /\ box \in [Mail -> {"away", "unread", "read"}]
  /\ old \subseteq Mail /\ seen \subseteq Mail /\ signal \subseteq Mail /\ triage \in [Mail -> SUBSET Verdicts]
  /\ pending \in [Mail -> [Verdicts -> Nat]]
  /\ mailPc \in {"idle", "loaded", "write", "nudge"}
  /\ mails \subseteq Mail /\ known \subseteq Mail /\ item \subseteq Mail
  /\ slots \in 0 .. MaxPerHour /\ overflow \in [Mail -> Nat]
  /\ heard \in [Mail -> Nat] /\ recapped \in [Mail -> Nat]
  /\ sweeps \in 0 .. MaxSweeps /\ blind \in Nat /\ mailFaults \in 0 .. MailFaults

MailInit ==
  /\ box = [e \in Mail |-> "away"] /\ old = {}
  /\ seen = {} /\ signal = {} /\ triage = [e \in Mail |-> {}] /\ pending = NoRows
  /\ mailPc = "idle" /\ mails = {} /\ known = {} /\ item = NoItem
  /\ slots = 0 /\ overflow = Zero
  /\ heard = Zero /\ recapped = Zero
  /\ sweeps = 0 /\ blind = 0 /\ mailFaults = 0

\* n more things go wrong.
MoreFaults(n) == mailFaults + n <= MailFaults /\ mailFaults' = mailFaults + n
NoMoreFaults  == UNCHANGED mailFaults
Bump(f, e)    == [f EXCEPT ![e] = @ + 1]

-----------------------------------------------------------------------------
(* The mailbox and the clock.                                              *)

Deliver(e) ==
  /\ box[e] = "away"
  /\ box' = [box EXCEPT ![e] = "unread"]
  /\ \E late \in BOOLEAN : old' = IF late /\ e \notin Undated THEN old \cup {e} ELSE old
  /\ UNCHANGED <<tables, mailPc, mailLocal, memory, user, sweeps, blind, mailFaults>>

\* The user opens an email, or marks it unread again.
Flag(e) ==
  /\ box[e] # "away"
  /\ box' = [box EXCEPT ![e] = IF @ = "read" THEN "unread" ELSE "read"]
  /\ UNCHANGED <<old, tables, mailPc, mailLocal, memory, user, sweeps, blind, mailFaults>>

Age(e) ==
  /\ box[e] # "away" /\ e \notin old \cup Undated
  /\ old' = old \cup {e}
  /\ UNCHANGED <<box, tables, mailPc, mailLocal, memory, user, sweeps, blind, mailFaults>>

\* A time stamp of the rate limiter becomes older than an hour.
HourEnds ==
  /\ slots > 0
  /\ slots' = slots - 1
  /\ UNCHANGED <<mailbox, tables, mailPc, mailLocal, overflow, user, sweeps, blind, mailFaults>>

-----------------------------------------------------------------------------
(* The tick.                                                               *)

\* What the daily sweep may delete: rows of 90 days, and so of emails far older
\* than the seven days of the age gate, unless they have no date.
SeenExpired(e) == e \in old \cup Undated

SweepSeen(e) ==
  /\ mailPc = "idle" /\ e \in seen /\ SeenExpired(e) /\ sweeps < MaxSweeps
  /\ seen' = seen \ {e} /\ sweeps' = sweeps + 1
  /\ UNCHANGED <<mailbox, signal, triage, pending, mailPc, mailLocal, memory, user, blind, mailFaults>>

Unread == {e \in Mail : box[e] = "unread"}

\* Phase 0 lists the unread mail.  Phase 1 reads seen_emails, in a transaction that
\* writes first; if it fails the tick goes on with an empty set.
Poll ==
  /\ mailPc = "idle" /\ Unread # {}
  /\ mails' = Unread
  /\ \/ known' = seen /\ NoMoreFaults /\ UNCHANGED blind
     \/ known' = {} /\ MoreFaults(1) /\ blind' = blind + 1
  /\ mailPc' = "loaded"
  /\ UNCHANGED <<mailbox, tables, item, memory, user, sweeps>>

Stale == {e \in mails : e \in old \ known}

\* Mutant of MarkStale: the gated emails leave the batch and are not marked.
MarkStaleForgets == seen

MarkStale == seen \cup Stale

\* Old emails leave the batch and are marked; that transaction may fail.
Gate ==
  /\ mailPc = "loaded"
  /\ mails' = mails \ Stale
  /\ \/ seen' = MarkStale /\ NoMoreFaults
     \/ Stale # {} /\ UNCHANGED seen /\ MoreFaults(1)
  /\ mailPc' = "write"
  /\ UNCHANGED <<mailbox, signal, triage, pending, known, item, memory, user, sweeps, blind>>

\* The batch is given up before anything is written: the deadline of Phase 2, or
\* an exception while contexts and verdicts are prepared.
Abandon ==
  /\ mailPc = "loaded" /\ MoreFaults(1)
  /\ mailPc' = "idle" /\ mails' = {} /\ known' = {}
  /\ UNCHANGED <<mailbox, tables, item, memory, user, sweeps, blind>>

IsNew(e) == e \notin known

\* Mutant of SignalAfter: only new emails get as far as the signal.
SignalAfterNewOnly(e) == IF IsNew(e) THEN signal \cup {e} ELSE signal

\* Emails of every tick come by here: log_signal_with_conn inserts unless there is
\* a row of the last 72 hours.
SignalAfter(e) == signal \cup {e}

\* The transaction of one email.  Each statement catches its own error, so some may
\* fail and the others still commit.
Write(e, v, fails) ==
  /\ mailPc = "write" /\ e \in mails
  /\ IF fails = {} THEN NoMoreFaults ELSE MoreFaults(Cardinality(fails))
  /\ signal' = IF "signal" \in fails THEN signal ELSE SignalAfter(e)
  /\ IF IsNew(e) /\ "triage" \notin fails
       THEN /\ triage' = [triage EXCEPT ![e] = @ \cup {v}]
            /\ pending' = IF v = "urgent" THEN pending ELSE [pending EXCEPT ![e][v] = @ + 1]
       ELSE UNCHANGED <<triage, pending>>
  /\ seen' = IF IsNew(e) /\ "seen" \notin fails THEN seen \cup {e} ELSE seen
  /\ blind' = IF "seen" \in fails THEN blind + 1 ELSE blind
  /\ mails' = mails \ {e}
  /\ IF IsNew(e) /\ v = "urgent"
       THEN mailPc' = "nudge" /\ item' = {e}
       ELSE UNCHANGED <<mailPc, item>>
  /\ UNCHANGED <<mailbox, known, memory, user, sweeps>>

\* The transaction does not commit: the email is as before.
WriteFails(e) ==
  /\ mailPc = "write" /\ e \in mails /\ MoreFaults(1)
  /\ mails' = mails \ {e}
  /\ UNCHANGED <<mailbox, tables, mailPc, known, item, memory, user, sweeps, blind>>

-----------------------------------------------------------------------------
(* The nudge, after the commit.                                            *)

\* Mutant of Allowed: one too many.
AllowedOneMore == slots <= MaxPerHour

Allowed == slots < MaxPerHour

\* Within the limit the nudge is composed and sent, and either may fail.
SendNudge(e) ==
  /\ Allowed
  /\ slots' = slots + 1
  /\ \/ heard' = Bump(heard, e) /\ NoMoreFaults
     \/ UNCHANGED heard /\ MoreFaults(1)
  /\ UNCHANGED overflow

\* Over the limit it waits for the digest.
QueueNudge(e) ==
  /\ ~Allowed
  /\ overflow' = Bump(overflow, e)
  /\ UNCHANGED <<slots, heard>> /\ NoMoreFaults

\* The limiter is asked a second time (elif), and the oldest stamp has just expired:
\* this takes its slot, and the branch that is left is the alert of the rules table,
\* which a sender with a name need not match.
LimitExpires(e) ==
  /\ ~Allowed /\ MoreFaults(1)
  /\ heard' \in {heard, Bump(heard, e)}
  /\ UNCHANGED <<slots, overflow>>

Nudge(e) ==
  /\ mailPc = "nudge" /\ e \in item
  /\ SendNudge(e) \/ QueueNudge(e) \/ LimitExpires(e)
  /\ mailPc' = "write" /\ item' = NoItem
  /\ UNCHANGED <<mailbox, tables, mails, known, recapped, sweeps, blind>>

EndTick ==
  /\ mailPc = "write" /\ mails = {}
  /\ mailPc' = "idle" /\ known' = {}
  /\ UNCHANGED <<mailbox, tables, mails, item, memory, user, sweeps, blind, mailFaults>>

-----------------------------------------------------------------------------
(* The digest.                                                             *)

Worth == {e \in Mail : pending[e]["normal"] > 0}
\* The message lists the first ListMax emails that are worth it.
Listings == {L \in SUBSET Worth :
               Cardinality(L) = IF Cardinality(Worth) < ListMax THEN Cardinality(Worth) ELSE ListMax}

\* Mutant of AfterDigest: the queue is cleared although nothing is sent.
AfterDigestClears == Zero

\* The queue of nudges goes with a message.
AfterDigest == IF Worth = {} THEN overflow ELSE Zero

\* Mutant of AfterPop: the watermark stays.
AfterPopStays == pending

\* The watermark is the time of the pop: no row is newer.
AfterPop == NoRows

\* The rows are popped, the watermark moves, and a message goes out unless all of
\* them are noise.  Sending it may fail.
Recap ==
  /\ LegacyDigest /\ mailPc = "idle" /\ pending # NoRows
  /\ pending' = AfterPop
  /\ overflow' = AfterDigest
  /\ \/ /\ NoMoreFaults
        /\ heard' = IF Worth = {} THEN heard ELSE [e \in Mail |-> heard[e] + overflow[e]]
        /\ \E L \in Listings :
             recapped' = [e \in Mail |-> IF e \in L THEN recapped[e] + pending[e]["normal"] ELSE recapped[e]]
     \/ Worth # {} /\ MoreFaults(1) /\ UNCHANGED user
  /\ UNCHANGED <<mailbox, seen, signal, triage, mailPc, mailLocal, slots, sweeps, blind>>

\* The process dies and systemd starts it again: its memory is gone.
Restart ==
  /\ MoreFaults(1)
  /\ mailPc' = "idle" /\ mails' = {} /\ known' = {} /\ item' = NoItem
  /\ slots' = 0 /\ overflow' = Zero
  /\ UNCHANGED <<mailbox, tables, user, sweeps, blind>>

-----------------------------------------------------------------------------
Environment ==
  \/ \E e \in Mail : Deliver(e) \/ Flag(e) \/ Age(e)
  \/ HourEnds

Heartbeat ==
  \/ Poll \/ Gate \/ Abandon \/ EndTick
  \/ \E e \in Mail :
       \/ \E v \in Verdicts, fails \in SUBSET {"signal", "triage", "seen"} : Write(e, v, fails)
       \/ WriteFails(e) \/ Nudge(e)

MailNext == Environment \/ Heartbeat \/ (\E e \in Mail : SweepSeen(e)) \/ Recap \/ Restart

MailSpec == MailInit /\ [][MailNext]_mailVars

\* The heartbeat goes on: it is restarted, and every phase has a timeout.
FairSpec == MailSpec /\ WF_mailVars(Heartbeat)

-----------------------------------------------------------------------------
(* Properties.                                                             *)

\* The user hears of an email once: nothing that fails, and no crash, repeats it,
\* except a tick in which seen_emails could not be read or written.  An email may
\* outlive its row in seen_emails, for by then the age gate holds it back.
HeardOnce == \A e \in Mail \ Undated : heard[e] + recapped[e] <= 1 + blind

\* While nothing fails no urgent email is lost, and no other one is told as urgent: the
\* verdict has led to one message, or is about to, or waits in the queue of the digest.
UrgentAccounted ==
  mailFaults = 0 => \A e \in Mail \ Undated :
    heard[e] + overflow[e] + (IF e \in item THEN 1 ELSE 0) = IF "urgent" \in triage[e] THEN 1 ELSE 0

\* Every unread email is dealt with, whatever fails in between: it gets its row in
\* seen_emails and, unless the age gate took it out, its row in signals, which a later
\* tick writes if the first could not, although the email is seen by then.
UnreadIsDealtWith ==
  \A e \in Mail :
    box[e] = "unread" ~> \/ box[e] # "unread"
                         \/ e \in seen /\ (triage[e] # {} => e \in signal)

\* "mark stale emails as seen so they never re-enter" (poller.py:1107): an email that
\* the age gate took out, and that was never triaged, has no signal.
GatedNeverEnters ==
  \A e \in Mail : (e \in seen /\ triage[e] = {}) => e \notin signal
=============================================================================
