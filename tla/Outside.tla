------------------------------ MODULE Outside ------------------------------
(***************************************************************************)
(* What an agent reaches outside its process: the providers behind their   *)
(* circuit breaker, transaction by transaction (CircuitBreaker), the chain *)
(* of models that is walked over them (ModelChain, where a circuit moves   *)
(* in one step), and the MCP servers (McpServers).  A call is a call of    *)
(* one of them, so it is enough to look at one at a time: subject says     *)
(* which one moves.                                                        *)
(***************************************************************************)
EXTENDS CircuitBreaker, Sequences, FiniteSets

CONSTANTS
  Roles, Think, Unknown, NoRole, Providers, ProviderOf, KindOf, Keyless, Configs, Callers,
  FailureThreshold, Wins, MaxDowns, MaxOdd,
  ServerOrder, Tools, Local, NoServer, MaxIds, MaxUpsets

VARIABLES
  fallback, circuit, alive, at, asked, links, chain, pos, served, excused, downs, odd,
  todo, proc, nextId, owed, pipe, exchange, restarted, tools, result, surplus, upsets,
  subject

R == INSTANCE ModelChain
P == INSTANCE McpServers

\* load_config: there is a role, every role names a provider and a fallback that is a role or none.
ASSUME OutsideAssumption ==
  /\ IsFiniteSet(Roles) /\ Roles # {} /\ NoRole \notin Roles
  /\ ProviderOf \in [Roles -> Providers] /\ KindOf \in [Providers -> R!Kinds]
  /\ Configs \subseteq [Roles -> Roles \cup {NoRole}]
  /\ FailureThreshold \in Nat \ {0} /\ Wins \in Nat \ {0} /\ MaxDowns \in Nat /\ MaxOdd \in Nat
  /\ ServerOrder \in Seq(P!Servers) /\ NoServer \notin P!Servers
  /\ MaxIds \in Nat /\ MaxUpsets \in Nat

breaker == vars
router  == <<fallback, circuit, alive, at, asked, links, chain, pos, served, excused, downs, odd>>
servers == <<todo, proc, nextId, owed, pipe, exchange, restarted, tools, result, surplus, upsets>>
outside == <<breaker, router, servers, subject>>

\* What does not move is at rest.
OutsideInit ==
  /\ Init /\ R!Init /\ P!Init /\ subject \in {"breaker", "router", "servers"}
  /\ subject # "breaker" => up
  /\ subject # "router" => fallback = CHOOSE f \in Configs : R!Accepted(f)

Breaking(A) == subject = "breaker" /\ A /\ UNCHANGED <<router, servers, subject>>
Routing(A)  == subject = "router" /\ A /\ UNCHANGED <<breaker, servers, subject>>
Serving     == subject = "servers" /\ P!Next /\ UNCHANGED <<breaker, router, subject>>

OutsideNext == Breaking(Next) \/ Routing(R!Next) \/ Serving

\* That of the components.
OutsideFairness ==
  /\ WF_outside(Breaking(Tick))
  /\ \A p \in Procs : /\ WF_outside(Breaking(Ask(p))) /\ SF_outside(Breaking(Answered(p)))
                      /\ WF_outside(Breaking(Record(p))) /\ SF_outside(Breaking(Drop(p)))
  /\ \A c \in Callers : WF_outside(Routing(R!Work(c))) /\ SF_outside(Routing(R!Drop(c)))
  /\ \A p \in Providers : WF_outside(Routing(R!Wait(p)))

OutsideSpec == OutsideInit /\ [][OutsideNext]_outside /\ OutsideFairness

-----------------------------------------------------------------------------
(* The properties of the components, which say more of each.               *)

\* A caller's provider is only shut out for failing (router.py:1079); what a tool call reports
\* is its own answer (client.py:296) from the server that owns the name (registry.py:60).
ClientsAreSound ==
  /\ R!TypeOK /\ R!NoWrongBlame
  /\ P!TypeOK /\ P!OwnAnswers /\ P!InStep /\ P!UniqueNames

\* The breaker is not stuck: it closes for a provider that is up for good, and opens for one that is
\* down for good.
BreakerFollows == subject = "breaker" => ClosesWhenUp /\ OpensWhenDown

\* When all providers are up for good, calls are served by their primary role again
\* (router.py:1086).
PrimaryServesAgain == subject = "router" => R!PrimaryServesAgain
=============================================================================
