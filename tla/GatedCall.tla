------------------------------ MODULE GatedCall ------------------------------
(***************************************************************************)
(* What the approval gate promises, without its rows, messages and         *)
(* handlers: a tool call that was asked for is decided once, and takes     *)
(* effect at most once, only after it was approved. ApprovalGate           *)
(* implements this specification.                                          *)
(***************************************************************************)
EXTENDS Naturals

CONSTANT Ids   \* the requests

VARIABLES
  decision,    \* what was decided of a request
  done         \* how often its call has taken effect

callVars == <<decision, done>>

GatedInit ==
  /\ decision = [i \in Ids |-> "not asked"]
  /\ done = [i \in Ids |-> 0]

Ask(i) ==
  /\ decision[i] = "not asked"
  /\ decision' = [decision EXCEPT ![i] = "open"]
  /\ UNCHANGED done

Settle(i, d) ==
  /\ decision[i] = "open"
  /\ decision' = [decision EXCEPT ![i] = d]
  /\ UNCHANGED done

TakeEffect(i) ==
  /\ decision[i] = "approved" /\ done[i] = 0
  /\ done' = [done EXCEPT ![i] = 1]
  /\ UNCHANGED decision

GatedNext ==
  \E i \in Ids : Ask(i) \/ TakeEffect(i) \/ \E d \in {"approved", "rejected"} : Settle(i, d)

GatedSpec == GatedInit /\ [][GatedNext]_callVars
=============================================================================
