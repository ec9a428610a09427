---------------------------- MODULE MCOwnersDesk ----------------------------
EXTENDS OwnersDesk, TLC

CONSTANTS p1, p2, c1, d1, d2, milk, oat, justMilk, oatMilk

\* Two rows parked by one run that ask for the same call, the case in which a retry of one meets the
\* other; there are as many ids for retries as the taps allow.
MCCallOf == [i \in {p1, p2} |-> c1]

MCTo == [d \in Draft |-> "someone"]

\* "milk" and "oat milk": the first is a part of both labels.
MCTemplate == <<milk>>
MCShared   == justMilk :> (milk :> 1 @@ oat :> 1) @@ oatMilk :> (milk :> 1 @@ oat :> 2)
MCWithin   == justMilk :> {milk, oat} @@ oatMilk :> {oat}
=============================================================================
