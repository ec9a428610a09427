SPECIFICATION Spec
CONSTANTS
  o1 = o1
  i1 = i1
  Actions = {o1, i1}
  Oneshots = {o1}
  At <- MCAt
  Period <- MCPeriod
  Gated = {o1}
  Tickers = {kernel}
  Firers = {manual}
  MaxPerTick = 1
  BackoffAt = 1
  DisableAt = 2
  BackoffSecs <- MCBackoffSecs
  Res = 2
  Never = Never
  NoRun = NoRun
  Horizon = 3
  MaxFaults = 1
  MaxManual = 1
INVARIANTS TypeOK QuietDisableSticks AutoDisabled RunsAccounted
