---------------------------- MODULE MCReactLoop ----------------------------
(* ReactLoop on a small instance: one chat run of three steps, beside a    *)
(* cycle of the heartbeat.                                                 *)
EXTENDS ReactLoop

MCMaxRuns == [chat |-> 1, heartbeat |-> 1]
=============================================================================
