----------------------------- MODULE OwnersDesk -----------------------------
(***************************************************************************)
(* What waits for the owner in the Telegram service: parked tool calls     *)
(* (ApprovalGate), drafts (Drafts), lists and the questions of their       *)
(* rollover (Checklists), and accounts to connect (Accounts).  None of     *)
(* them reads what another keeps, and the poll loop finishes one update    *)
(* before the next, so it is enough to look at one at a time: subject says *)
(* which one moves.                                                        *)
(***************************************************************************)
EXTENDS ApprovalGate

CONSTANTS
  Draft, To, Threads, ChatMaySend, NoThread, NoDraft, MaxVersions, DraftTaps, MaxSlow, MaxFaults,
  Handed, Policies, Template, Lines, Hints, Shared, Within, MaxLists, MaxItems, MaxEdits, MaxBroken,
  Nicks, NoNick, Users, Links, MaxGrants, Restarts, MaxErrors

VARIABLES
  draft, content, composed, keyboard, tapping, loopAt, current, waits, thread, confirms, mails, agreed, mailed, tapped,
  slow, faults,
  policy, lists, items, hook, inserting, questions, dropped, told, behind, rolled, unmade, edits, broken,
  pending, used, row, file, grants, server, leaving, asking, cache, crossed, damaged, restarts, errors,
  subject

D == INSTANCE Drafts WITH status <- draft, tap <- tapping, pc <- loopAt, MaxTaps <- DraftTaps
L == INSTANCE Checklists WITH buttons <- questions, late <- behind
A == INSTANCE Accounts WITH crashes <- restarts, MaxCrashes <- Restarts

ASSUME OwnersDeskAssumption == D!DraftsAssumption /\ L!ChecklistsAssumption /\ A!AccountsAssumption

parking  == vars
drafting == <<draft, content, composed, keyboard, tapping, loopAt, current, waits, thread, confirms, mails,
              agreed, mailed, tapped, slow, faults>>
listing  == <<policy, lists, items, hook, inserting, questions, dropped, told, behind, rolled, unmade, edits, broken>>
linking  == <<pending, used, row, file, grants, server, leaving, asking, cache, crossed, damaged, restarts, errors>>
desk     == <<parking, drafting, listing, linking, subject>>

\* What does not move is at rest.
DeskInit ==
  /\ Init /\ D!Init /\ L!Init /\ A!Init
  /\ subject \in {"gate", "drafts", "lists", "accounts"}
  /\ subject # "lists" => policy = CHOOSE p \in Policies : TRUE

Parking(Act) == subject = "gate" /\ Act /\ UNCHANGED <<drafting, listing, linking, subject>>
Drafting     == subject = "drafts" /\ D!Next /\ UNCHANGED <<parking, listing, linking, subject>>
Listing      == subject = "lists" /\ L!Next /\ UNCHANGED <<parking, drafting, linking, subject>>
Linking      == subject = "accounts" /\ A!Next /\ UNCHANGED <<parking, drafting, listing, subject>>

DeskNext == Parking(Next) \/ Drafting \/ Listing \/ Linking

\* That of the gate.
DeskSpec == DeskInit /\ [][DeskNext]_desk /\ WF_desk(Parking(Poll))

-----------------------------------------------------------------------------
(* The properties of the components, which say more of each.  Those of the *)
(* gate are in ApprovalGate.                                               *)

\* Every tap on an open row is decided.
DecisionsCome == subject = "gate" => TapsAreDecided

\* What goes out was confirmed, and once per confirmation (send_email.py:54).
DraftsAreSound == D!StatusIsTrue /\ D!MailedOncePerConfirmation

\* An open item leaves the open lists only as the rollover policy says (lifecycle.py:148).
ListsAreSound == L!TypeOK /\ L!NoSilentLoss

\* An account is one record in two stores (store.py:5), connected once by a link, and revoked only
\* if its grant is.
AccountsAreSound == A!TypeOK /\ A!LinkUsedOnce /\ A!OneRecord /\ A!RowSaysTrue /\ A!OwnTokens

\* "rolling daily or weekly templates into a new instance" (lifecycle.py:5): a firing of the
\* recurrence makes a list.
RecurrenceMakesLists == L!RecurrenceMakesLists
=============================================================================
