\* Three signals, the review and the manager due once; three feeds, two changes of what they
\* list; three mails, requests or faults that meet two addresses.
SPECIFICATION TickSpec
CONSTANTS
  MaxSignals = 3
  BatchSize = 2
  CycleCap = 1
  Threshold = 2
  MaxDues <- MCMaxDues
  MaxFaults = 1
  u = u
  v = v
  b = b
  c = c
  Order <- MCOrder
  Extractor <- MCExtractor
  Listable <- MCListable
  Loose = {v}
  Bare = {b, c}
  Processed = {}
  MaxChanges = 2
  MaxSkips = 1
  Failures = 1
  h1 = h1
  h2 = h2
  nm = nm
  Handles = {h1, h2}
  NameIn <- MCNameIn
  DomainOf <- MCDomainOf
  Alike <- MCAlike
  Mentioned = nm
  Personal = Personal
  Inbox = Inbox
  None = None
  PageSize = 1
  To <- MCTo
  From <- MCFrom
  MaxTracks = 2
  Mishaps = 1
  MaxEvents = 3
INVARIANTS OncePerSignal FeedsAreSound
PROPERTIES NothingStarves 
CHECK_DEADLOCK FALSE
