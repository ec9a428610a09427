\* Two callers of a breaker; a chain of four roles; two MCP servers.
CONSTANTS
  Procs = {p1, p2}
  Threshold = 2
  SuccessThreshold = 2
  Recovery = 1
  Null = Null
  MaxFlips = 2
  MaxFaults = 1
SPECIFICATION OutsideSpec
CONSTANTS
  fast = fast
  think = think
  review = review
  deep = deep
  ollama = ollama
  gemini = gemini
  openai = openai
  Roles <- MCRoles
  Think = think
  Unknown = Unknown
  NoRole = NoRole
  Providers <- MCProviders
  ProviderOf <- MCProviderOf
  KindOf <- MCKindOf
  Keyless = {openai}
  Configs <- MCConfigs
  Callers = {c1}
  FailureThreshold = 2
  Wins = 1
  MaxDowns = 2
  MaxOdd = 2
  files = files
  mail = mail
  read = read
  send = send
  note = note
  ServerOrder <- MCServerOrder
  Tools <- MCTools
  Local = {note}
  NoServer = NoServer
  MaxIds = 4
  MaxUpsets = 2
INVARIANTS RowIsSound 
PROPERTIES BreakerFollows PrimaryServesAgain
CHECK_DEADLOCK FALSE
