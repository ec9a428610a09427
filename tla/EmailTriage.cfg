SPECIFICATION FairSpec
CONSTANTS
  Mail = {m1, m2}
  Undated = {m2}
  MaxPerHour = 1
  ListMax = 1
  LegacyDigest = TRUE
  MailFaults = 1
  MaxSweeps = 1
INVARIANTS
  MailTypeOK
  HeardOnce
  UrgentAccounted
PROPERTIES
  UnreadIsDealtWith
