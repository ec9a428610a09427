SPECIFICATION MailSpec
CONSTANTS
  Mail = {m1, m2}
  Undated = {m2}
  MaxPerHour = 1
  ListMax = 1
  LegacyDigest = FALSE
  MailFaults = 0
  MaxSweeps = 1
INVARIANTS
  GatedNeverEnters
