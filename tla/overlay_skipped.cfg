\* A skipped follow-up.
SPECIFICATION Spec
CONSTANTS
  Procs = {p1}
  Sessions = {s1, s2}
  Accounts = {a1}
  Trades = {x}
  Transfers = {tx1}
  Results = {"succeeded", "failed", "skipped"}
  MaxClock = 1
  NoAccount = NoAccount
  NoTransfer = NoTransfer
  NoCard = NoCard
  NoRow = NoRow
INVARIANT
  ActiveIsUnfinished
CHECK_DEADLOCK FALSE
