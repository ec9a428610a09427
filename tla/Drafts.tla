------------------------------- MODULE Drafts -------------------------------
(***************************************************************************)
(* An email from draft to mail server.  draft_email keeps the draft as a   *)
(* row of ledger, the chat shows it with four buttons, confirm_draft flips *)
(* it from pending to confirmed, and send_email (reply_email is the same)  *)
(* claims it, reads its content, mails it and records the outcome.         *)
(*                                                                         *)
(* The Telegram loop handles one message or tap at a time, but a send that *)
(* exceeds the executor's timeout goes on in its thread while the loop     *)
(* reports a failure and takes the next tap; buttons name a draft, not the *)
(* version that was shown with them; a tap is delivered again after a crash.*)
(***************************************************************************)
EXTENDS Integers, FiniteSets

CONSTANTS
  Draft,       \* ids of drafts
  To,          \* To[d]: recipient of d
  Threads,     \* threads of the executor's pool
  ChatMaySend, \* whether send_email is allowed in a chat turn (it is RED by default)
  NoThread, NoDraft,
  MaxVersions, \* bound: versions of the drafts
  MaxTaps,     \* bound: taps of the user
  MaxSlow,     \* bound: sends that exceed the timeout
  MaxFaults    \* bound: failed statements, turns and acknowledgements, and crashes

DraftsAssumption ==
  /\ ChatMaySend \in BOOLEAN /\ NoDraft \notin Draft /\ NoThread \notin Threads /\ IsFiniteSet(Threads)
  /\ MaxVersions \in Nat /\ MaxTaps \in Nat /\ MaxSlow \in Nat /\ MaxFaults \in Nat

Version == 1 .. MaxVersions
Button  == {"send", "discard", "leave"}    \* leave: Revise or Save, which only answer
Tap     == [button : Button, draft : Draft]
NoTap   == [button |-> "none"]
Free    == [at |-> "free"]
Sending == [at : {"claim", "read", "done ok", "done failed"}, draft : Draft]
           \cup [at : {"mail", "record ok", "record failed"}, draft : Draft, version : Version]

VARIABLES
  status,    \* status[d] of the row of d, or "none"
  content,   \* content[d]: version in the row
  composed,  \* versions composed so far, of all the drafts
  keyboard,  \* drafts that were shown with buttons
  tap,       \* the tap being handled
  pc,        \* what the loop is doing
  current,   \* draft it is doing it to
  waits,     \* thread whose result it waits for
  thread,    \* thread[t]: send it executes
  confirms,  \* confirms[d][v]: history, times version v became confirmed
  mails,     \* mails[d][v]: history, mails sent with version v
  agreed,    \* agreed[d]: history, times any version of d became confirmed
  mailed,    \* mailed[d]: history, mails sent of d
  tapped,    \* history: taps
  slow,      \* history: sends that exceeded the timeout
  faults     \* history: everything else that went wrong

row     == <<status, content, composed>>
chat    == <<keyboard, tapped>>
loop    == <<pc, tap, current, waits>>
history == <<confirms, mails, agreed, mailed>>
vars    == <<row, chat, loop, thread, history, slow, faults>>

TypeOK ==
  /\ status \in [Draft -> {"none", "pending", "confirmed", "sending", "sent", "discarded"}]
  /\ composed \in 0 .. MaxVersions
  /\ content \in [Draft -> 0 .. composed] /\ \A d \in Draft : status[d] # "none" => content[d] > 0
  /\ keyboard \subseteq Draft /\ tap \in Tap \cup {NoTap}
  /\ pc \in {"idle", "preview", "tap", "send", "wait"}
  /\ current \in Draft \cup {NoDraft} /\ waits \in Threads \cup {NoThread} /\ (pc = "wait" <=> waits # NoThread)
  /\ thread \in [Threads -> Sending \cup {Free}]
  /\ confirms \in [Draft -> [Version -> Nat]] /\ mails \in [Draft -> [Version -> Nat]]
  /\ agreed \in [Draft -> Nat] /\ mailed \in [Draft -> Nat]
  /\ tapped \in 0 .. MaxTaps /\ slow \in 0 .. MaxSlow /\ faults \in 0 .. MaxFaults

Zero == [d \in Draft |-> [v \in Version |-> 0]]

Init ==
  /\ status = [d \in Draft |-> "none"] /\ content = [d \in Draft |-> 0] /\ composed = 0
  /\ keyboard = {} /\ tap = NoTap
  /\ pc = "idle" /\ current = NoDraft /\ waits = NoThread
  /\ thread = [t \in Threads |-> Free]
  /\ confirms = Zero /\ mails = Zero
  /\ agreed = [d \in Draft |-> 0] /\ mailed = [d \in Draft |-> 0]
  /\ tapped = 0 /\ slow = 0 /\ faults = 0

Fault   == faults < MaxFaults /\ faults' = faults + 1
NoFault == UNCHANGED faults

Set(f, d, x)  == [f EXCEPT ![d] = x]
Count(f, d, v) == [f EXCEPT ![d][v] = @ + 1]

-----------------------------------------------------------------------------
(* Chat turns.                                                             *)

\* Mutant of Upsert: a draft that is edited keeps its status.
UpsertForgetsStatus(d) ==
  /\ content' = Set(content, d, composed')
  /\ status' = IF status[d] = "none" THEN Set(status, d, "pending") ELSE status

\* The ledger after draft_email: the version is stored and has to be confirmed; a new
\* draft discards those to the same recipient that are pending.
Upsert(d) ==
  /\ content' = Set(content, d, composed')
  /\ status' = [e \in Draft |->
       IF e = d THEN "pending"
       ELSE IF status[d] = "none" /\ To[e] = To[d] /\ status[e] = "pending" THEN "discarded"
       ELSE status[e]]

\* The model composes a version of d, new or not.  A failing upsert is only logged: the
\* draft is reported as saved.
Compose(d) ==
  /\ pc = "idle" /\ composed < MaxVersions
  /\ composed' = composed + 1
  /\ \/ NoFault /\ Upsert(d)
     \/ Fault /\ UNCHANGED <<content, status>>
  /\ pc' = "preview" /\ current' = d
  /\ UNCHANGED <<chat, tap, waits, thread, history, slow>>

\* The turn ends with the text and the buttons of the draft, or without them.
Preview ==
  /\ pc = "preview"
  /\ \/ NoFault /\ keyboard' = keyboard \cup {current}
     \/ Fault /\ UNCHANGED keyboard
  /\ pc' = "idle" /\ current' = NoDraft
  /\ UNCHANGED <<row, tapped, tap, waits, thread, history, slow>>

Confirmable(d) == status[d] = "pending"

\* confirm_draft.
Confirm(d) ==
  /\ Confirmable(d)
  /\ status' = Set(status, d, "confirmed")
  /\ confirms' = Count(confirms, d, content[d]) /\ agreed' = Set(agreed, d, agreed[d] + 1)

\* The user says yes in words, and the model calls confirm_draft; what it was told is not
\* the loop's business.
ChatConfirm(d) ==
  /\ pc = "idle" /\ Confirm(d)
  /\ UNCHANGED <<content, composed, chat, loop, thread, mails, mailed, slow, faults>>

\* The model calls send_email, in the chats where it may.
ChatSend(d) ==
  /\ pc = "idle" /\ ChatMaySend /\ status[d] = "confirmed"
  /\ pc' = "send" /\ current' = d
  /\ UNCHANGED <<row, chat, tap, waits, thread, history, slow, faults>>

\* discard_draft asks for no status.
Discard(d) ==
  /\ status[d] # "none"
  /\ status' = Set(status, d, "discarded")

ChatDiscard(d) ==
  /\ pc = "idle" /\ Discard(d)
  /\ UNCHANGED <<content, composed, chat, loop, thread, history, slow, faults>>

-----------------------------------------------------------------------------
(* Buttons.                                                                *)

\* A tap on a draft that was shown: the buttons may be gone when it arrives, for taps wait in
\* getUpdates, and one whose handling was cut off comes again.
TakeTap(b, d) ==
  /\ pc = "idle" /\ d \in keyboard /\ tapped < MaxTaps
  /\ tap' = [button |-> b, draft |-> d] /\ current' = d /\ tapped' = tapped + 1
  /\ pc' = "tap"
  /\ UNCHANGED <<row, keyboard, waits, thread, history, slow, faults>>

\* The offset is saved: the tap will not be delivered again.
Answered == pc' = "idle" /\ tap' = NoTap /\ current' = NoDraft

\* Send confirms the draft of the button as it now is, whatever it was when shown.
TapSend ==
  /\ pc = "tap" /\ tap.button = "send"
  /\ Confirm(current)
  /\ pc' = "send"
  /\ UNCHANGED <<content, composed, chat, tap, current, waits, thread, mails, mailed, slow, faults>>

\* A draft that cannot be confirmed was actioned already.
TapStale ==
  /\ pc = "tap" /\ tap.button = "send"
  /\ IF Confirmable(current) THEN Fault ELSE NoFault
  /\ Answered
  /\ UNCHANGED <<row, chat, waits, thread, history, slow>>

TapDiscard ==
  /\ pc = "tap" /\ tap.button = "discard"
  /\ \/ NoFault /\ Discard(current)
     \/ NoFault /\ status[current] = "none" /\ UNCHANGED status
     \/ Fault /\ UNCHANGED status
  /\ Answered
  /\ UNCHANGED <<content, composed, chat, waits, thread, history, slow>>

TapLeave ==
  /\ pc = "tap" /\ tap.button = "leave"
  /\ Answered
  /\ UNCHANGED <<row, chat, waits, thread, history, slow, faults>>

-----------------------------------------------------------------------------
(* send_email, executed by a thread while the loop waits for it.           *)

\* The loop submits the call; while the tool's breaker is open it is refused, and so it
\* is when the precondition finds the draft not confirmed.
Submit ==
  /\ pc = "send"
  /\ \/ /\ NoFault /\ status[current] = "confirmed"
        /\ \E t \in Threads : thread[t] = Free
        /\ LET t == CHOOSE u \in Threads : thread[u] = Free IN
             thread' = Set(thread, t, [at |-> "claim", draft |-> current]) /\ waits' = t
        /\ pc' = "wait" /\ UNCHANGED <<tap, current>>
     \/ /\ IF status[current] = "confirmed" THEN Fault ELSE NoFault
        /\ Answered /\ UNCHANGED <<thread, waits>>
  /\ UNCHANGED <<row, chat, history, slow>>

Goes(t, s) == thread' = Set(thread, t, s)
Fails(t)   == Goes(t, [at |-> "done failed", draft |-> thread[t].draft])

\* Mutant of Claimable: the draft is taken whoever is sending it.
ClaimableForgetsSending(d) == status[d] \in {"confirmed", "sending"}

Claimable(d) == status[d] = "confirmed"

\* _atomic_claim.
Claim(t) ==
  /\ thread[t].at = "claim"
  /\ LET d == thread[t].draft IN
       \/ /\ NoFault /\ Claimable(d)
          /\ status' = Set(status, d, "sending")
          /\ Goes(t, [at |-> "read", draft |-> d])
       \/ /\ IF Claimable(d) THEN Fault ELSE NoFault
          /\ Fails(t) /\ UNCHANGED status
  /\ UNCHANGED <<content, composed, chat, loop, history, slow>>

Reverted(d) == IF status[d] = "sending" THEN Set(status, d, "confirmed") ELSE status

\* _read_payload reads the row again.  Without a recipient, or with two possible reply
\* addresses, the claim is given up.
Read(t) ==
  /\ thread[t].at = "read"
  /\ LET d == thread[t].draft IN
       \/ /\ Goes(t, [at |-> "mail", draft |-> d, version |-> content[d]])
          /\ UNCHANGED status
       \/ Fails(t) /\ status' = Reverted(d)
  /\ UNCHANGED <<content, composed, chat, loop, history, slow, faults>>

Mailed(d, v) == mails' = Count(mails, d, v) /\ mailed' = Set(mailed, d, mailed[d] + 1)

\* The server accepts the mail or not; if what follows raises, the mail counts as failed.
Mail(t) ==
  /\ thread[t].at = "mail"
  /\ LET d == thread[t].draft
         v == thread[t].version IN
       \/ /\ NoFault /\ Mailed(d, v)
          /\ Goes(t, [at |-> "record ok", draft |-> d, version |-> v])
       \/ /\ NoFault /\ UNCHANGED <<mails, mailed>>
          /\ Goes(t, [at |-> "record failed", draft |-> d, version |-> v])
       \/ /\ Fault /\ Mailed(d, v)
          /\ Goes(t, [at |-> "record failed", draft |-> d, version |-> v])
  /\ UNCHANGED <<row, chat, loop, confirms, agreed, slow>>

\* The outcome is recorded: sent in any case, given up only if it is still being sent.
Record(t) ==
  /\ thread[t].at \in {"record ok", "record failed"}
  /\ LET d == thread[t].draft
         ok == thread[t].at = "record ok" IN
       \/ /\ NoFault
          /\ Goes(t, [at |-> IF ok THEN "done ok" ELSE "done failed", draft |-> d])
          /\ status' = IF ok THEN Set(status, d, "sent") ELSE Reverted(d)
       \/ Fault /\ Fails(t) /\ UNCHANGED status
  /\ UNCHANGED <<content, composed, chat, loop, history, slow>>

\* The loop has its answer; after a failure the buttons are shown again, with "Tap Send to retry".
Return(t) ==
  /\ thread[t].at \in {"done ok", "done failed"}
  /\ Goes(t, Free)
  /\ IF waits = t THEN waits' = NoThread /\ Answered ELSE UNCHANGED loop
  /\ UNCHANGED <<row, chat, history, slow, faults>>

\* future.result times out, which to the loop is a failure; the thread goes on.
TimesOut ==
  /\ pc = "wait" /\ slow < MaxSlow
  /\ slow' = slow + 1 /\ waits' = NoThread /\ Answered
  /\ UNCHANGED <<row, chat, thread, history, faults>>

\* The process dies with its threads; the tap it was handling is delivered again.
Crash ==
  /\ pc # "idle" \/ \E t \in Threads : thread[t] # Free
  /\ Fault
  /\ thread' = [t \in Threads |-> Free] /\ waits' = NoThread /\ Answered
  /\ UNCHANGED <<row, chat, history, slow>>

-----------------------------------------------------------------------------
ThreadStep(t) == thread[t] # Free /\ (Claim(t) \/ Read(t) \/ Mail(t) \/ Record(t) \/ Return(t))

Next ==
  \/ \E d \in Draft : Compose(d) \/ ChatConfirm(d) \/ ChatSend(d) \/ ChatDiscard(d)
  \/ \E b \in Button, d \in Draft : TakeTap(b, d)
  \/ Preview \/ TapSend \/ TapStale \/ TapDiscard \/ TapLeave \/ Submit \/ TimesOut \/ Crash
  \/ \E t \in Threads : ThreadStep(t)

Spec == Init /\ [][Next]_vars

-----------------------------------------------------------------------------
(* Properties.                                                             *)

\* A draft is mailed no more often than it was confirmed, though sends overlap, retry and
\* give each other's claims back; except for a mail that was taken for a failure
\* (send_email.py:290).
MailedOncePerConfirmation == \A d \in Draft : mailed[d] <= agreed[d] + faults

\* No version goes out twice, except after a send that outlived its timeout or a mail that
\* was taken for a failure.
NoDoubleMail ==
  \A d \in Draft, v \in Version : mails[d][v] <= 1 + slow + faults

\* What goes out was confirmed as it is: the row is read after it was claimed, and may
\* only have changed in between if the send outlived its timeout.
MailedAsConfirmed ==
  slow = 0 => \A d \in Draft, v \in Version : mails[d][v] > 0 => confirms[d][v] > 0

\* A draft marked as sent was mailed as the row shows it, unless a send outlived its
\* timeout (the late result overwrites what the draft has become).
SentWasMailed ==
  slow = 0 => \A d \in Draft : status[d] = "sent" => mails[d][content[d]] > 0

\* A draft is being sent only while a thread is at it, which gives the claim back or
\* records the mail; or a statement or the process failed.
ClaimHasOwner ==
  faults = 0 => \A d \in Draft : status[d] = "sending" =>
    \E t \in Threads : thread[t].at \in {"read", "mail", "record ok", "record failed"} /\ thread[t].draft = d

\* The status of a draft tells what became of it: what went out, and who is at it.
StatusIsTrue == TypeOK /\ NoDoubleMail /\ MailedAsConfirmed /\ SentWasMailed /\ ClaimHasOwner
=============================================================================
