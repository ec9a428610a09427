----------------------------- MODULE McpServers -----------------------------
(***************************************************************************)
(* The MCP servers of a service (xibi/mcp): MCPServerRegistry starts them  *)
(* one after the other and registers their tools under names that are free,*)
(* MCPClient owns one subprocess each and speaks JSON-RPC with it over a   *)
(* pipe, one request at a time: write a line, wait 15 s, read a line.  A   *)
(* request that timed out leaves its answer in the pipe.                   *)
(* Servers are external: they answer in order, may be slow, may send lines *)
(* nobody asked for, and may die.                                          *)
(***************************************************************************)
EXTENDS Integers, Sequences, SequencesExt

CONSTANTS
  ServerOrder,   \* "mcp_servers" of the config
  Tools,         \* the tools each server lists
  Local,         \* the tools of the local skills
  NoServer,
  MaxIds,        \* bound: requests to a server
  MaxUpsets      \* bound: deaths, failed spawns and unasked lines

Servers == ToSet(ServerOrder)

VARIABLES
  todo,      \* the servers initialize_all has not come to
  proc,      \* the subprocess of each client
  nextId,    \* _id_counter
  owed,      \* requests a server has not answered
  pipe,      \* ids of the lines it has written and nobody has read, 0 without one
  exchange,  \* the request the service waits for
  restarted, \* the tool call that waits for the handshake of a restart
  tools,     \* what is registered: a name, the server, the tool it is there
  result,    \* what the last request came to
  surplus,   \* of this subprocess: requests given up, and unasked lines
  upsets

vars == <<todo, proc, nextId, owed, pipe, exchange, restarted, tools, result, surplus, upsets>>

Kinds == {"initialize", "list", "call", "resource"}
Idle == [server |-> NoServer, kind |-> "list", id |-> 0]
None == [status |-> "none", asked |-> 0, answers |-> 0]
Lines == 0 .. MaxIds

TypeOK ==
  /\ ToSet(todo) \subseteq Servers
  /\ proc \in [Servers -> {"none", "up", "dead"}] /\ nextId \in [Servers -> Lines]
  /\ owed \in [Servers -> Seq(Lines)] /\ pipe \in [Servers -> Seq(Lines)]
  /\ exchange \in [server : Servers \cup {NoServer}, kind : Kinds, id : Lines]
  /\ restarted \in BOOLEAN
  /\ \A t \in tools : t.server \in Servers
  /\ result \in [status : {"none", "ok", "timeout", "closed", "mismatch", "down"}, asked : Lines, answers : Lines]
  /\ surplus \in [Servers -> Nat] /\ upsets \in 0 .. MaxUpsets

Init ==
  /\ todo = ServerOrder /\ proc = [s \in Servers |-> "none"] /\ nextId = [s \in Servers |-> 0]
  /\ owed = [s \in Servers |-> <<>>] /\ pipe = [s \in Servers |-> <<>>]
  /\ exchange = Idle /\ restarted = FALSE /\ tools = {} /\ result = None
  /\ surplus = [s \in Servers |-> 0] /\ upsets = 0

Upset == upsets < MaxUpsets /\ upsets' = upsets + 1

-----------------------------------------------------------------------------
(* The registry.                                                           *)

Taken == {<<t>> : t \in Local} \cup {t.name : t \in tools}

\* Mutant of NameOf: the names of the local skills are not looked at.
NameOfMcpOnly(s, t) == IF <<t>> \in {x.name : x \in tools} THEN <<s, t>> ELSE <<t>>

\* The name a tool is registered under: its own if that is free.
NameOf(s, t) == IF <<t>> \in Taken THEN <<s, t>> ELSE <<t>>

Registered(s) == {[name |-> NameOf(s, t), server |-> s, tool |-> t] : t \in Tools[s]}

\* MCPExecutor.execute: the server whose tool this is.
Routes(n) == {t.server : t \in {x \in tools : x.name = n}}

-----------------------------------------------------------------------------
(* The client.                                                             *)

\* _send_and_receive: the next id, a line to the server.
Sends(s, kind) ==
  /\ nextId[s] < MaxIds /\ nextId' = [nextId EXCEPT ![s] = @ + 1]
  /\ exchange' = [server |-> s, kind |-> kind, id |-> nextId[s] + 1]

Send(s, kind) == Sends(s, kind) /\ owed' = [owed EXCEPT ![s] = Append(@, nextId[s] + 1)]

\* _connect: a new subprocess, nothing in its pipe, and the handshake.
Connect(s) ==
  /\ Sends(s, "initialize") /\ proc' = [proc EXCEPT ![s] = "up"]
  /\ owed' = [owed EXCEPT ![s] = <<nextId[s] + 1>>]
  /\ pipe' = [pipe EXCEPT ![s] = <<>>] /\ surplus' = [surplus EXCEPT ![s] = 0]

\* close
Close(s) ==
  /\ proc' = [proc EXCEPT ![s] = "none"]
  /\ owed' = [owed EXCEPT ![s] = <<>>] /\ pipe' = [pipe EXCEPT ![s] = <<>>]

Closed(s) == Close(s) /\ surplus' = [surplus EXCEPT ![s] = 0]

Gave(status, answers) == result' = [status |-> status, asked |-> exchange.id, answers |-> answers]

\* initialize_all: the next server, or on if it cannot be spawned.
StartServer ==
  /\ exchange = Idle /\ todo # <<>>
  /\ \/ Connect(Head(todo)) /\ UNCHANGED <<todo, upsets>>
     \/ Upset /\ todo' = Tail(todo) /\ UNCHANGED <<proc, nextId, owed, pipe, exchange, surplus>>
  /\ UNCHANGED <<restarted, tools, result>>

\* call_tool: _ensure_alive restarts a dead subprocess, and the call waits for its handshake.
CallTool == \E t \in tools :
  /\ exchange = Idle /\ todo = <<>>
  /\ LET s == t.server
     IN  \/ /\ proc[s] = "up" /\ Send(s, "call") /\ result' = None
            /\ UNCHANGED <<proc, pipe, restarted, surplus, upsets>>
         \/ /\ proc[s] # "up" /\ Connect(s) /\ restarted' = TRUE /\ result' = None
            /\ UNCHANGED upsets
         \/ /\ proc[s] # "up" /\ Upset /\ Closed(s) /\ result' = [None EXCEPT !.status = "down"]
            /\ UNCHANGED <<nextId, exchange, restarted>>
  /\ UNCHANGED <<todo, tools>>

\* read_resource: it neither restarts the subprocess nor needs it to be there.
ReadResource == \E s \in Servers :
  /\ exchange = Idle /\ todo = <<>> /\ \E t \in tools : t.server = s
  /\ IF proc[s] = "up" THEN Send(s, "resource") /\ result' = None
     ELSE /\ result' = [None EXCEPT !.status = "down"] /\ UNCHANGED <<nextId, owed, exchange>>
  /\ UNCHANGED <<todo, proc, pipe, restarted, tools, surplus, upsets>>

\* A handshake or a listing that fails closes the client: its server is left out, or the call ends.
GiveUp(s, status) ==
  /\ Closed(s) /\ exchange' = Idle /\ restarted' = FALSE
  /\ IF restarted THEN result' = [None EXCEPT !.status = "down"] /\ UNCHANGED todo
     ELSE todo' = Tail(todo) /\ UNCHANGED result
  /\ UNCHANGED <<nextId, tools>>

\* A tool call or a resource that fails leaves the subprocess as it is.
Fail(status, answers) ==
  /\ Gave(status, answers) /\ exchange' = Idle
  /\ UNCHANGED <<todo, proc, nextId, owed, restarted, tools>>

Setup == exchange.kind \in {"initialize", "list"}

\* What follows the answer to a request.
Proceed(s) ==
  CASE exchange.kind = "initialize" /\ ~restarted ->
         Send(s, "list") /\ UNCHANGED <<todo, restarted, tools, result>>
    [] exchange.kind = "initialize" /\ restarted ->
         Send(s, "call") /\ restarted' = FALSE /\ UNCHANGED <<todo, tools, result>>
    [] exchange.kind = "list" ->
         /\ tools' = tools \cup Registered(s) /\ todo' = Tail(todo) /\ exchange' = Idle
         /\ UNCHANGED <<nextId, owed, restarted, result>>
    [] OTHER ->
         /\ Gave("ok", Head(pipe[s])) /\ exchange' = Idle
         /\ UNCHANGED <<todo, nextId, owed, restarted, tools>>

\* Mutant of Matches: a notification, which has no id, passes.
MatchesLoosely(id, line) == line \in {0, id}

\* The line has the id of the request.
Matches(id, line) == line = id

\* readline
Receive ==
  /\ exchange # Idle
  /\ LET s == exchange.server
         line == Head(pipe[s])
     IN  /\ pipe[s] # <<>>
         /\ IF Matches(exchange.id, line)
            THEN Proceed(s) /\ pipe' = [pipe EXCEPT ![s] = Tail(@)] /\ UNCHANGED <<proc, surplus>>
            ELSE IF Setup THEN GiveUp(s, "mismatch")
            ELSE /\ Fail("mismatch", line) /\ pipe' = [pipe EXCEPT ![s] = Tail(@)]
                 /\ UNCHANGED surplus
  /\ UNCHANGED upsets

\* select, or the end of the file: a dead subprocess is seen at the next call.
NoAnswer ==
  /\ exchange # Idle
  /\ LET s == exchange.server
     IN  /\ pipe[s] = <<>>
         /\ IF Setup THEN GiveUp(s, "timeout")
            ELSE /\ Fail(IF proc[s] = "up" THEN "timeout" ELSE "closed", 0)
                 /\ surplus' = [surplus EXCEPT ![s] = @ + 1] /\ UNCHANGED pipe
  /\ UNCHANGED upsets

-----------------------------------------------------------------------------
(* The servers.                                                            *)

Answer(s) ==
  /\ proc[s] = "up" /\ owed[s] # <<>>
  /\ pipe' = [pipe EXCEPT ![s] = Append(@, Head(owed[s]))]
  /\ owed' = [owed EXCEPT ![s] = Tail(@)]
  /\ UNCHANGED <<todo, proc, nextId, exchange, restarted, tools, result, surplus, upsets>>

\* A line nobody asked for: a log message, a changed list.
Remark(s) ==
  /\ proc[s] = "up" /\ Upset
  /\ pipe' = [pipe EXCEPT ![s] = Append(@, 0)] /\ surplus' = [surplus EXCEPT ![s] = @ + 1]
  /\ UNCHANGED <<todo, proc, nextId, owed, exchange, restarted, tools, result>>

Die(s) ==
  /\ proc[s] = "up" /\ Upset
  /\ proc' = [proc EXCEPT ![s] = "dead"] /\ owed' = [owed EXCEPT ![s] = <<>>]
  /\ UNCHANGED <<todo, nextId, pipe, exchange, restarted, tools, result, surplus>>

Next == \/ StartServer \/ CallTool \/ ReadResource \/ Receive \/ NoAnswer
        \/ \E s \in Servers : Answer(s) \/ Remark(s) \/ Die(s)

Spec == Init /\ [][Next]_vars

-----------------------------------------------------------------------------
(* Properties.                                                             *)

\* What a call reports as the answer of a tool answers that call, and none before it,
\* whatever timed out before (client.py:296).
OwnAnswers == result.status = "ok" => result.answers = result.asked

\* An answer is taken for a foreign one only in a subprocess that was given up on before, or
\* spoke unasked: a healthy server is never out of step, nor after a restart.
InStep == \A s \in Servers :
  LET waits == IF exchange.server = s THEN 1 ELSE 0
  IN  Len(owed[s]) + Len(pipe[s]) <= surplus[s] + waits

\* "global uniqueness" (registry.py:60): a name leads to one server, and to no local skill.
UniqueNames ==
  /\ \A t \in tools : Routes(t.name) = {t.server}
  /\ {t.name : t \in tools} \cap {<<t>> : t \in Local} = {}

=============================================================================
