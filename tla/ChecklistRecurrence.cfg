\* Two rows parked by one run; two drafts to one recipient; three lists; two accounts.
SPECIFICATION DeskSpec
CONSTANTS
  p1 = p1
  p2 = p2
  c1 = c1
  Ids = {p1, p2, r1, r2}
  Parked = {p1, p2}
  CallOf <- MCCallOf
  NoCall = NoCall
  NoId = NoId
  MaxTaps = 3
  MaxCrashes = 1
  MaxDbErrs = 1
  MaxApiErrs = 1
  d1 = d1
  d2 = d2
  Draft = {d1, d2}
  To <- MCTo
  Threads = {t1, t2}
  NoThread = NoThread
  NoDraft = NoDraft
  ChatMaySend = TRUE
  MaxVersions = 2
  DraftTaps = 3
  MaxSlow = 1
  MaxFaults = 1
  milk = milk
  oat = oat
  justMilk = justMilk
  oatMilk = oatMilk
  Handed = "args"
  Policies = {"expire", "nag", "roll_forward", "confirm"}
  Template <- MCTemplate
  Lines = {milk, oat}
  Hints = {justMilk, oatMilk}
  Shared <- MCShared
  Within <- MCWithin
  MaxLists = 3
  MaxItems = 4
  MaxEdits = 1
  MaxBroken = 1
  Nicks = {work, home}
  NoNick = NoNick
  Users = {u1}
  Links = {l1, l2}
  MaxGrants = 2
  Restarts = 1
  MaxErrors = 1
INVARIANTS RecurrenceMakesLists
CHECK_DEADLOCK FALSE
