------------------------------- MODULE MCTick -------------------------------
EXTENDS Tick

CONSTANTS u, v, b, c, h1, h2, nm

MCMaxDues == [manager |-> 1, review |-> 1, ceiling |-> 1]

\* A search and the pull requests of a repository that list things with one id, and files without
\* their paths; one pull request is incomplete.
MCOrder     == <<"search", "files", "pulls">>
MCExtractor == [search |-> "web_search", files |-> "file_content", pulls |-> "github_activity"]
MCListable  == [search |-> {u}, files |-> {b, c}, pulls |-> {u, v}]

\* Two addresses of one domain with one name, which is also a name people use.
MCNameIn   == [h \in Handles |-> nm]
MCDomainOf == [h \in Handles |-> "domain"]
MCAlike    == [n \in Handles \cup {nm} |-> {n}]
MCTo       == <<h1, h2>>
MCFrom     == <<h1>>
=============================================================================
