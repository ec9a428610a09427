----------------------------- MODULE Checklists -----------------------------
(***************************************************************************)
(* The lists of one template (xibi/checklists): the recurrence hook that   *)
(* the kernel of the heartbeat fires makes a new list and rolls the one    *)
(* before over by the policy of the template; its owner ticks, adds and    *)
(* removes items and answers the questions of the rollover, one request    *)
(* after the other, in the Telegram service.  A state is one committed     *)
(* transaction, with what is read before its first write in a step of its  *)
(* own where that is used later.                                           *)
(*                                                                         *)
(* Lists and items are numbered in the order they are made.  The actions a *)
(* deadline registers are left out: register_action opens a connection of  *)
(* its own under the write transaction of the hook, is locked out by it    *)
(* and its error is logged, so no item ever has any.                       *)
(***************************************************************************)
EXTENDS Integers, Sequences, FiniteSets, FiniteSetsExt, Functions

CONSTANTS
  Handed,      \* what a hook is called with: "args" of its action_config or the "config" itself
  Policies,    \* rollover policies a template may have
  Template,    \* its lines
  Lines,       \* labels
  Hints,       \* what the owner calls an item,
  Shared,      \* the words it shares with a label,
  Within,      \* and the labels it is a part of
  MaxLists,    \* bound: lists made
  MaxItems,    \* bound: items made
  MaxEdits,    \* bound: items reopened, added, removed or renamed
  MaxBroken    \* bound: restarts of the heartbeat between two transactions

VARIABLES
  policy,    \* rollover_policy
  lists,     \* their status
  items,
  hook,      \* where the recurrence hook is
  inserting, \* what add_item or a carry is about to insert
  buttons,   \* items with a question
  dropped,   \* items the owner dropped
  told,      \* items a nag named
  late,      \* items put into a list, or open again, after it was closed or a rollover had read it
  rolled,    \* the lists a rollover has read
  unmade,    \* a firing of the recurrence made no list
  edits,
  broken

ChecklistsAssumption ==
  /\ Template \in Seq(Lines) /\ MaxLists \in Nat \ {0}
  /\ MaxEdits \in Nat /\ MaxBroken \in Nat

vars == <<policy, lists, items, hook, inserting, buttons, dropped, told, late, rolled, unmade, edits, broken>>

AtRest  == [at |-> "rest", new |-> 0, prev |-> 0, open |-> <<>>]
Nothing == [list |-> 0, line |-> "", from |-> 0]

\* waited is history: the owner had 48 hours for an answer.
Item(k, line, from) == [list |-> k, line |-> line, done |-> FALSE, asked |-> "no", waited |-> FALSE, from |-> from]

TypeOK ==
  /\ policy \in Policies
  /\ lists \in Seq({"open", "closed", "expired"}) /\ Len(lists) <= MaxLists
  /\ \A i \in DOMAIN items : items[i] \in
       [list : 0 .. Len(lists), line : Lines, done : BOOLEAN, asked : {"no", "now", "long"}, waited : BOOLEAN,
        from : 0 .. i - 1]
  /\ hook.at \in {"rest", "made", "read"} /\ {hook.new, hook.prev} \subseteq 0 .. Len(lists)
  /\ inserting.list \in 0 .. Len(lists)
  /\ buttons \cup dropped \cup told \cup late \subseteq DOMAIN items
  /\ rolled \subseteq DOMAIN lists /\ unmade \in BOOLEAN /\ edits \in 0 .. MaxEdits /\ broken \in 0 .. MaxBroken

Copied(k) == [j \in DOMAIN Template |-> Item(k, Template[j], 0)]

\* create_checklist_template and a first list.
Init ==
  /\ policy \in Policies /\ lists = <<"open">> /\ items = Copied(1)
  /\ hook = AtRest /\ inserting = Nothing
  /\ buttons = {} /\ dropped = {} /\ told = {} /\ late = {}
  /\ rolled = {} /\ unmade = FALSE /\ edits = 0 /\ broken = 0

On(k)     == {i \in DOMAIN items : items[i].list = k}
Undone(k) == {i \in On(k) : ~items[i].done}
Room      == Len(lists) < MaxLists /\ Len(items) + Len(Template) <= MaxItems

\* What comes to such a list is not asked about.
Behind(k) == k \in rolled \/ lists[k] # "open"

-----------------------------------------------------------------------------
(* The recurrence.                                                         *)

NewList ==
  /\ Room
  /\ lists' = Append(lists, "open")
  /\ items' = items \o Copied(Len(lists) + 1)

\* instantiate_checklist
Instantiate ==
  /\ NewList
  /\ UNCHANGED <<policy, hook, inserting, buttons, dropped, told, late, rolled, unmade, edits, broken>>

\* _handle_fire_recurrence asks what it is handed for its "args", and then for the template.
\* The first transaction: the new list and its items.
FireRecurrence ==
  /\ hook = AtRest
  /\ IF Handed = "args" THEN unmade' = TRUE /\ UNCHANGED <<lists, items, hook>>
     ELSE /\ NewList /\ UNCHANGED unmade
          /\ hook' = [AtRest EXCEPT !.at = "made", !.new = Len(lists) + 1]
  /\ UNCHANGED <<policy, inserting, buttons, dropped, told, late, rolled, edits, broken>>

\* What SELECT returns, by rowid.
Sorted(S) == {s \in [1 .. Cardinality(S) -> S] : Range(s) = S /\ \A i, j \in DOMAIN s : i < j => s[i] < s[j]}

\* _handle_rollover: the latest other list, of whatever status, and its open items.
ReadPrevious ==
  /\ hook.at = "made"
  /\ LET prev == Max((DOMAIN lists) \ {hook.new})
     IN  /\ IF Undone(prev) = {} THEN hook' = AtRest
            ELSE \E open \in Sorted(Undone(prev)) : hook' = [hook EXCEPT !.at = "read", !.prev = prev, !.open = open]
         /\ rolled' = rolled \cup {prev}
  /\ UNCHANGED <<policy, lists, items, inserting, buttons, dropped, told, late, unmade, edits, broken>>

Expired(ks) == [k \in DOMAIN lists |-> IF k \in ks THEN "expired" ELSE lists[k]]

\* A question that does not reach the owner is one that is never answered.
Asking == buttons' = buttons \cup {i \in Range(hook.open) : items[i].list # 0}

Rollover ==
  /\ hook.at = "read" /\ hook' = AtRest
  /\ LET open == Range(hook.open)
     IN  \/ /\ policy = "expire" /\ lists' = Expired({hook.prev})
            /\ UNCHANGED <<items, buttons, told, late>>
         \/ /\ policy = "roll_forward" /\ lists' = Expired({hook.prev})
            /\ Len(items) + Len(hook.open) <= MaxItems
            /\ items' = items \o [j \in DOMAIN hook.open |-> Item(hook.new, items[hook.open[j]].line, hook.open[j])]
            /\ late' = IF Behind(hook.new) THEN late \cup (DOMAIN items' \ DOMAIN items) ELSE late
            /\ UNCHANGED <<buttons, told>>
         \/ /\ policy = "nag" /\ lists' = Expired({hook.prev}) /\ told' = told \cup open
            /\ UNCHANGED <<items, buttons, late>>
         \/ /\ policy = "confirm" /\ Asking
            /\ items' = [i \in DOMAIN items |-> IF i \in open THEN [items[i] EXCEPT !.asked = "now"] ELSE items[i]]
            /\ UNCHANGED <<lists, told, late>>
  /\ UNCHANGED <<policy, inserting, dropped, rolled, unmade, edits, broken>>

\* The heartbeat is restarted between the transactions, or in the second one, whose questions are
\* sent one by one before it commits.
BreakOff ==
  /\ hook # AtRest /\ broken < MaxBroken /\ broken' = broken + 1 /\ hook' = AtRest
  /\ IF hook.at = "read" /\ policy = "confirm" THEN Asking ELSE UNCHANGED buttons
  /\ UNCHANGED <<policy, lists, items, inserting, dropped, told, late, rolled, unmade, edits>>

-----------------------------------------------------------------------------
(* Questions nobody answers.                                               *)

\* 48 hours pass.
Wait ==
  /\ \E i \in DOMAIN items : items[i].asked = "now"
  /\ items' = [i \in DOMAIN items |-> IF items[i].asked = "now" THEN [items[i] EXCEPT !.asked = "long", !.waited = TRUE] ELSE items[i]]
  /\ UNCHANGED <<policy, lists, hook, inserting, buttons, dropped, told, late, rolled, unmade, edits, broken>>

\* Mutant of Stale: any question is.
StaleAtOnce(i) == items[i].asked # "no"

Stale(i) == items[i].asked = "long"

\* _handle_rollover_timeout: the lists with such a question are expired as a whole.
Timeout ==
  LET over == {k \in DOMAIN lists : lists[k] = "open" /\ \E i \in On(k) : Stale(i)}
  IN  /\ over # {} /\ lists' = Expired(over)
      /\ UNCHANGED <<policy, items, hook, inserting, buttons, dropped, told, late, rolled, unmade, edits, broken>>

-----------------------------------------------------------------------------
(* The owner's requests, one at a time.                                    *)

Free == inserting = Nothing
Edit == edits < MaxEdits /\ edits' = edits + 1

\* update_checklist_item and the Done button: an item of a list of any status, which is closed
\* when no open one is left.
Done(i) ==
  /\ items' = [items EXCEPT ![i].done = TRUE]
  /\ lists' = IF Undone(items[i].list) \subseteq {i} THEN [lists EXCEPT ![items[i].list] = "closed"] ELSE lists

Check(i) ==
  /\ Free /\ items[i].list # 0 /\ ~items[i].done /\ Done(i)
  /\ UNCHANGED <<policy, hook, inserting, buttons, dropped, told, late, rolled, unmade, edits, broken>>

\* The list stays what it is.
Uncheck(i) ==
  /\ Free /\ Edit /\ items[i].list # 0 /\ items[i].done
  /\ items' = [items EXCEPT ![i].done = FALSE]
  /\ late' = IF Behind(items[i].list) THEN late \cup {i} ELSE late
  /\ UNCHANGED <<policy, lists, hook, inserting, buttons, dropped, told, rolled, unmade, broken>>

Opened == {k \in DOMAIN lists : lists[k] = "open"}

\* add_item: to the latest open list, ...
AddItem(line) ==
  /\ Free /\ Edit /\ Opened # {} /\ Len(items) < MaxItems
  /\ inserting' = [list |-> Max(Opened), line |-> line, from |-> 0]
  /\ UNCHANGED <<policy, lists, items, hook, buttons, dropped, told, late, rolled, unmade, broken>>

\* ... which is not looked at again.  A carried item is asked about no more.
Insert ==
  /\ ~Free /\ inserting' = Nothing /\ Len(items) < MaxItems
  /\ LET new == Append(items, Item(inserting.list, inserting.line, inserting.from))
     IN  items' = IF inserting.from = 0 THEN new ELSE [new EXCEPT ![inserting.from].asked = "no"]
  /\ late' = IF Behind(inserting.list) THEN late \cup {Len(items) + 1} ELSE late
  /\ UNCHANGED <<policy, lists, hook, buttons, dropped, told, rolled, unmade, edits, broken>>

Score(h, i) == Shared[h][items[i].line] + IF items[i].line \in Within[h] THEN 2 ELSE 0

\* fuzzy_match_item: the best one, if it is well ahead of each other one.
Found(h, k) == {i \in On(k) : Score(h, i) > 0 /\
  \A j \in On(k) \ {i} : \/ 2 * Score(h, i) >= 3 * Score(h, j)
                         \/ Score(h, i) - Score(h, j) >= 2}

\* remove_item
RemoveItem(h) ==
  /\ Free /\ Edit /\ Opened # {} /\ \E i \in Found(h, Max(Opened)) : items' = [items EXCEPT ![i].list = 0]
  /\ UNCHANGED <<policy, lists, hook, inserting, buttons, dropped, told, late, rolled, unmade, broken>>

\* update_item: its status "done" is another column, and ticks nothing.
UpdateItem(h, line) ==
  /\ Free /\ Edit /\ Opened # {} /\ \E i \in Found(h, Max(Opened)) : items' = [items EXCEPT ![i].line = line]
  /\ UNCHANGED <<policy, lists, hook, inserting, buttons, dropped, told, late, rolled, unmade, broken>>

\* The buttons are taken away after they were answered, unless that fails, and a tap comes again
\* after a restart.
Pressed(i) == Free /\ i \in buttons /\ items[i].list # 0

PressDone(i) ==
  /\ Pressed(i) /\ Done(i)
  /\ UNCHANGED <<policy, hook, inserting, buttons, dropped, told, late, rolled, unmade, edits, broken>>

PressDrop(i) ==
  /\ Pressed(i) /\ dropped' = dropped \cup {i}
  /\ items' = [items EXCEPT ![i].asked = "no"]
  /\ UNCHANGED <<policy, lists, hook, inserting, buttons, told, late, rolled, unmade, edits, broken>>

\* Carried to the latest list, of whatever status.
PressCarry(i) ==
  /\ Pressed(i) /\ items[i].list # Len(lists) /\ Len(items) < MaxItems
  /\ inserting' = [list |-> Len(lists), line |-> items[i].line, from |-> i]
  /\ UNCHANGED <<policy, lists, items, hook, buttons, dropped, told, late, rolled, unmade, edits, broken>>

Next ==
  \/ Instantiate \/ FireRecurrence \/ ReadPrevious \/ Rollover \/ BreakOff \/ Wait \/ Timeout \/ Insert
  \/ \E i \in DOMAIN items : Check(i) \/ Uncheck(i) \/ PressDone(i) \/ PressDrop(i) \/ PressCarry(i)
  \/ \E line \in Lines : AddItem(line) \/ \E h \in Hints : UpdateItem(h, line)
  \/ \E h \in Hints : RemoveItem(h)

Spec == Init /\ [][Next]_vars

-----------------------------------------------------------------------------
(* Properties.                                                             *)

Carried(i) == \E j \in DOMAIN items : items[j].from = i

AnsweredFor(i) ==
  \/ policy = "expire"
  \/ policy = "nag" /\ i \in told
  \/ policy = "roll_forward" /\ Carried(i)
  \/ policy = "confirm" /\ (i \in dropped \/ items[i].waited \/ Carried(i))

\* An open item leaves the open lists only as its template's policy says (lifecycle.py:148): named,
\* copied to a later list, dropped, carried or asked about for 48 hours; whatever is ticked,
\* added or removed meanwhile, and if the heartbeat is restarted halfway.  What came late is
\* not covered: nobody asks about that.
NoSilentLoss == \A i \in DOMAIN items :
  items[i].list # 0 /\ ~items[i].done /\ lists[items[i].list] # "open" => i \in late \/ AnsweredFor(i)

\* "rolling daily or weekly templates into a new instance" (lifecycle.py:5): a firing of the
\* recurrence makes a list.
RecurrenceMakesLists == ~unmade
=============================================================================
