----------------------------- MODULE MCOutside -----------------------------
EXTENDS Outside, TLC

CONSTANTS fast, think, review, deep, ollama, gemini, openai, files, mail, read, send, note

MCRoles      == {fast, think, review, deep}
MCProviders  == {ollama, gemini, openai}
MCProviderOf == (fast :> ollama) @@ (think :> ollama) @@ (review :> gemini) @@ (deep :> openai)
MCKindOf     == (ollama :> "ollama") @@ (gemini :> "gemini") @@ (openai :> "openai")

Fallbacks(a, b, c, d) == (fast :> a) @@ (think :> b) @@ (review :> c) @@ (deep :> d)

\* Gemini between two roles of Ollama, a chain that ends in a client that cannot be built, a cycle.
MCConfigs == {Fallbacks(review, NoRole, think, fast), Fallbacks(think, NoRole, deep, NoRole),
              Fallbacks(think, fast, NoRole, NoRole)}

\* load_config accepts exactly the fallbacks along which no set of roles is closed.
Closed(f, S) == \A r \in S : f[r] \in S
ASSUME \A f \in [Roles -> Roles \cup {NoRole}] :
         R!Accepted(f) <=> \A S \in (SUBSET Roles) \ {{}} : ~Closed(f, S)

MCServerOrder == <<files, mail>>
MCTools       == (files :> {read, note}) @@ (mail :> {read, send})
=============================================================================
