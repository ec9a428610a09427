----------------------------- MODULE ModelChain -----------------------------
(***************************************************************************)
(* The model router (xibi/router.py): a caller names an effort, get_model  *)
(* resolves the chain of its fallbacks, builds a client for each role that *)
(* is healthy and whose circuit is not open, and the chain is walked again *)
(* at every call.  The roles of one provider share its circuit, which is   *)
(* taken here transaction by transaction; CircuitBreaker takes it apart.   *)
(***************************************************************************)
EXTENDS Integers, FiniteSets, Sequences, SequencesExt

CONSTANTS
  Roles,            \* the efforts of the config
  Think,            \* the effort that stands in for an unknown one
  Unknown,          \* an effort the config has no role for
  NoRole,
  Providers,
  ProviderOf,       \* the provider of a role
  KindOf,           \* the class of its client
  Keyless,          \* providers whose API key is not in the environment
  Configs,          \* the fallbacks a config file may give
  Callers,
  FailureThreshold, \* of the breaker config
  Wins,             \* its success_threshold
  MaxDowns,         \* bound: times a provider goes down or comes back
  MaxOdd            \* bound: probes and calls that fail though the provider is up

VARIABLES
  fallback,   \* the config that was loaded
  circuit,    \* the row of each provider
  alive,      \* the providers that answer
  at,         \* where a caller is
  asked,      \* the effort it asked for
  links,      \* the roles get_model has yet to build
  chain,      \* the roles it has built
  pos,        \* the place in the chain that is tried
  served,     \* the role that gave the last answer
  excused,     \* providers that were down, failed oddly or were misused
  downs, odd

vars == <<fallback, circuit, alive, at, asked, links, chain, pos, served, excused, downs, odd>>

Methods == {"generate", "structured", "tools"}
Kinds == {"ollama", "gemini", "openai", "anthropic", "groq"}

TypeOK ==
  /\ fallback \in Configs
  /\ circuit \in [Providers -> [state : {"closed", "open", "half_open"}, failures : 0 .. FailureThreshold,
                                wins : 0 .. Wins, waited : BOOLEAN]]
  /\ alive \subseteq Providers /\ excused \subseteq Providers
  /\ at \in [Callers -> {"idle", "build", "held"} \cup Methods]
  /\ asked \in [Callers -> Roles \cup {Unknown, NoRole}]
  /\ links \in [Callers -> Seq(Roles)] /\ chain \in [Callers -> Seq(Roles)]
  /\ pos \in [Callers -> 0 .. Cardinality(Roles)]
  /\ served \in [Callers -> Roles \cup {NoRole}]
  /\ downs \in 0 .. MaxDowns /\ odd \in 0 .. MaxOdd

-----------------------------------------------------------------------------
(* The config.                                                             *)

\* A pass of the loop: the fallback of the last role is added, unless there is none or it was seen.
Longer(f, s) ==
  LET n == f[Last(s)] IN IF n = NoRole \/ n \in ToSet(s) THEN s ELSE Append(s, n)

\* The roles from r on, each followed by its fallback, none twice: there are no more passes than roles.
Chain(f, r) ==
  LET walk[n \in 1 .. Cardinality(Roles)] == IF n = 1 THEN <<r>> ELSE Longer(f, walk[n - 1])
  IN  walk[Cardinality(Roles)]

\* load_config refuses a chain that comes back to one of its roles.
Accepted(f) == \A r \in Roles : f[Last(Chain(f, r))] = NoRole

\* An unknown effort is served as "think", or by any role if there is none.
Resolved(e) == IF e \in Roles THEN e
               ELSE IF Think \in Roles THEN Think ELSE CHOOSE r \in Roles : TRUE

\* _resolve_role_chain
Links(e) == IF e \notin Roles /\ Think \notin Roles THEN <<Resolved(e)>>
            ELSE Chain(fallback, Resolved(e))

-----------------------------------------------------------------------------
(* The clients: what may become of a call while the provider answers.      *)
(* "parse" and "down" are XibiErrors the chain walks on, "down" stands for *)
(* a timeout too; "raised" is an error of another class.                   *)

\* The only one with native tool calls.
OllamaMay(m) == IF m = "structured" THEN {"ok", "parse"} ELSE {"ok"}

\* A blocked response has no text, which json.loads answers with a TypeError.
GeminiMay(m) == IF m = "structured" THEN {"ok", "parse", "raised"} ELSE {"ok"}

\* dict() of a JSON list raises as well.
OpenAIMay(m) == IF m = "structured" THEN {"ok", "parse", "raised"} ELSE {"ok"}
AnthropicMay(m) == IF m = "structured" THEN {"ok", "parse", "raised"} ELSE {"ok"}

\* generate_with_tools of the wrapper is there for every client, that of the client only for Ollama.
Native(p) == KindOf[p] = "ollama"

May(p, m) == CASE KindOf[p] = "ollama"    -> OllamaMay(m)
               [] KindOf[p] = "gemini"    -> GeminiMay(m)
               [] KindOf[p] = "openai"    -> OpenAIMay(m)
               [] KindOf[p] = "anthropic" -> AnthropicMay(m)

Misused(p, m) == m = "tools" /\ ~Native(p)

-----------------------------------------------------------------------------
(* The circuit of a provider.                                              *)

Fresh == [state |-> "closed", failures |-> 0, wins |-> 0, waited |-> FALSE]

\* Mutant of Blocked: the recovery time is not looked at.
BlockedForever(p) == circuit[p].state = "open"

\* is_open: an open circuit whose recovery time is over lets the caller try.
Blocked(p) == circuit[p].state = "open" /\ ~circuit[p].waited
Tried(p) == IF circuit[p].state = "open" THEN [circuit[p] EXCEPT !.state = "half_open"] ELSE circuit[p]

\* record_success
Won(row) == CASE row.state = "closed"                             -> [row EXCEPT !.failures = 0]
              [] row.state = "half_open" /\ row.wins + 1 >= Wins -> Fresh
              [] row.state = "half_open" /\ row.wins + 1 < Wins  -> [row EXCEPT !.wins = @ + 1]
              [] OTHER                                            -> row

\* record_failure(PERSISTENT)
Lost(row) ==
  LET n == IF row.failures < FailureThreshold THEN row.failures + 1 ELSE FailureThreshold
  IN  IF row.state # "open" /\ n >= FailureThreshold
      THEN [row EXCEPT !.state = "open", !.failures = n, !.waited = FALSE]
      ELSE [row EXCEPT !.failures = n]

\* Mutant of Record: an answer that cannot be parsed is a persistent failure as well.
RecordEvery(row, o) == IF o = "ok" THEN Won(row) ELSE Lost(row)

\* BreakerWrappedClient: what a call's end does to the circuit.
Record(row, o) == CASE o = "ok"                -> Won(row)
                    [] o \in {"down", "raised"} -> Lost(row)
                    [] o = "parse"              -> row

-----------------------------------------------------------------------------
Init ==
  /\ fallback \in {f \in Configs : Accepted(f)}
  /\ circuit = [p \in Providers |-> Fresh] /\ alive = Providers /\ excused = {}
  /\ at = [c \in Callers |-> "idle"] /\ asked = [c \in Callers |-> NoRole]
  /\ links = [c \in Callers |-> <<>>] /\ chain = [c \in Callers |-> <<>>]
  /\ pos = [c \in Callers |-> 0] /\ served = [c \in Callers |-> NoRole]
  /\ downs = 0 /\ odd = 0

Ask(c) == \E e \in Roles \cup {Unknown} :
  /\ at[c] = "idle"
  /\ at' = [at EXCEPT ![c] = "build"] /\ asked' = [asked EXCEPT ![c] = e]
  /\ links' = [links EXCEPT ![c] = Links(e)] /\ chain' = [chain EXCEPT ![c] = <<>>]
  /\ served' = [served EXCEPT ![c] = NoRole]
  /\ UNCHANGED <<fallback, circuit, alive, pos, excused, downs, odd>>

\* An odd event: something fails though the provider is up.
Odd == odd < MaxOdd /\ odd' = odd + 1

\* _check_provider_health probes Ollama and Gemini only.
Healthy(p) == IF KindOf[p] \in {"ollama", "gemini"} THEN p \in alive ELSE TRUE

\* The constructor: Gemini without a key is passed over; the others raise, and Groq always does.
Missing(p) == KindOf[p] = "gemini" /\ p \in Keyless
Raises(p) == KindOf[p] = "groq" \/ (KindOf[p] \in {"openai", "anthropic"} /\ p \in Keyless)

\* get_model gives up: no role is left, or a constructor raised.
GiveUp(c) ==
  /\ at' = [at EXCEPT ![c] = "idle"] /\ links' = [links EXCEPT ![c] = <<>>]
  /\ chain' = [chain EXCEPT ![c] = <<>>] /\ UNCHANGED <<pos, served>>

\* _build_role_client for the next role: the circuit, the probe, the client.
Build(c) ==
  /\ at[c] = "build" /\ links[c] # <<>>
  /\ LET r == Head(links[c])
         p == ProviderOf[r]
         Take(keep) ==
           /\ links' = [links EXCEPT ![c] = Tail(@)]
           /\ chain' = IF keep THEN [chain EXCEPT ![c] = Append(@, r)] ELSE chain
           /\ UNCHANGED <<at, pos, served>>
     IN  \/ /\ Blocked(p) /\ Take(FALSE) /\ UNCHANGED <<circuit, odd>>
         \/ /\ ~Blocked(p) /\ circuit' = [circuit EXCEPT ![p] = Tried(p)]
            /\ \/ Healthy(p) /\ ~Raises(p) /\ Take(~Missing(p)) /\ UNCHANGED odd
               \/ Healthy(p) /\ Raises(p) /\ GiveUp(c) /\ UNCHANGED odd
               \/ ~Healthy(p) /\ Take(FALSE) /\ UNCHANGED odd
               \/ Healthy(p) /\ KindOf[p] \in {"ollama", "gemini"} /\ Odd /\ Take(FALSE)
  /\ UNCHANGED <<fallback, alive, asked, excused, downs>>

Built(c) ==
  /\ at[c] = "build" /\ links[c] = <<>>
  /\ IF chain[c] = <<>> THEN GiveUp(c)
     ELSE at' = [at EXCEPT ![c] = "held"] /\ UNCHANGED <<links, chain, pos, served>>
  /\ UNCHANGED <<fallback, circuit, alive, asked, excused, downs, odd>>

\* The caller asks the first client whether there are native tool calls.
Call(c) == \E m \in Methods :
  /\ at[c] = "held" /\ (m = "tools" => Native(ProviderOf[Head(chain[c])]))
  /\ at' = [at EXCEPT ![c] = m] /\ pos' = [pos EXCEPT ![c] = 1]
  /\ UNCHANGED <<fallback, circuit, alive, asked, links, chain, served, excused, downs, odd>>

\* _walk: on to the next role after an error it walks on, out of the chain after any other.
Walk(c, o) ==
  IF o = "ok" THEN /\ served' = [served EXCEPT ![c] = chain[c][pos[c]]]
                   /\ at' = [at EXCEPT ![c] = "held"] /\ pos' = [pos EXCEPT ![c] = 0]
  ELSE /\ UNCHANGED served
       /\ IF o \in {"down", "parse"} /\ pos[c] < Len(chain[c])
          THEN pos' = [pos EXCEPT ![c] = @ + 1] /\ UNCHANGED at
          ELSE pos' = [pos EXCEPT ![c] = 0] /\ at' = [at EXCEPT ![c] = "held"]

\* A call of one client of the chain.
Attempt(c) ==
  /\ at[c] \in Methods
  /\ LET p == ProviderOf[chain[c][pos[c]]]
         Ends(o) == circuit' = [circuit EXCEPT ![p] = Record(@, o)] /\ Walk(c, o)
     IN  CASE Misused(p, at[c]) ->
                Ends("raised") /\ excused' = excused \cup {p} /\ UNCHANGED odd
           [] ~Misused(p, at[c]) /\ p \notin alive ->
                Ends("down") /\ UNCHANGED <<excused, odd>>
           [] OTHER ->
                \/ Ends("ok") /\ UNCHANGED <<excused, odd>>
                \/ Ends("parse") /\ "parse" \in May(p, at[c]) /\ Odd /\ UNCHANGED excused
                \/ \E o \in {"down"} \cup (May(p, at[c]) \ {"ok", "parse"}) :
                     Ends(o) /\ Odd /\ excused' = excused \cup {p}
  /\ UNCHANGED <<fallback, alive, asked, links, chain, downs>>

\* The client is dropped: nobody keeps one longer than a run.
Drop(c) ==
  /\ at[c] = "held" /\ at' = [at EXCEPT ![c] = "idle"]
  /\ chain' = [chain EXCEPT ![c] = <<>>] /\ asked' = [asked EXCEPT ![c] = NoRole]
  /\ served' = [served EXCEPT ![c] = NoRole]
  /\ UNCHANGED <<fallback, circuit, alive, links, pos, excused, downs, odd>>

\* The recovery time of an open circuit passes.
Wait(p) ==
  /\ Blocked(p) /\ circuit' = [circuit EXCEPT ![p].waited = TRUE]
  /\ UNCHANGED <<fallback, alive, at, asked, links, chain, pos, served, excused, downs, odd>>

Flip(p) ==
  /\ downs < MaxDowns /\ downs' = downs + 1
  /\ alive' = IF p \in alive THEN alive \ {p} ELSE alive \cup {p}
  /\ excused' = excused \cup {p}
  /\ UNCHANGED <<fallback, circuit, at, asked, links, chain, pos, served, odd>>

Work(c) == Build(c) \/ Built(c) \/ Attempt(c)

Next == (\E c \in Callers : Ask(c) \/ Work(c) \/ Call(c) \/ Drop(c)) \/ (\E p \in Providers : Wait(p) \/ Flip(p))

\* A walk ends: every client has a timeout.  Time passes.
Fairness ==
  /\ \A c \in Callers : WF_vars(Work(c)) /\ SF_vars(Drop(c))
  /\ \A p \in Providers : WF_vars(Wait(p))

Spec == Init /\ [][Next]_vars /\ Fairness

-----------------------------------------------------------------------------
(* Properties.                                                             *)

\* No provider is shut out that was always up and used for what its client can do: the roles
\* that share its circuit do not shut it out with answers that are badly formed only.
NoWrongBlame == \A p \in Providers : circuit[p].state # "closed" => p \in excused

\* The role an effort should be served by: the first of its chain that has a client.
First(e) == SelectSeq(Links(e), LAMBDA r : ~Missing(ProviderOf[r]))[1]

\* "The next call starts from the configured primary" (router.py:1086): when all providers
\* are up for good, it is the primary role that answers again in the end, though its circuit
\* was opened, and chains were built without it.
PrimaryServesAgain ==
  <>[](alive = Providers) =>
    \A c \in Callers : <>[](served[c] \in {NoRole, First(asked[c])})

=============================================================================
