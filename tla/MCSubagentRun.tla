---------------------------- MODULE MCSubagentRun ----------------------------
(* Small instances of SubagentRun: a checklist of two steps, of which the   *)
(* first asks for an approval, and a budget that its second call reaches.   *)
EXTENDS SubagentRun
=============================================================================
