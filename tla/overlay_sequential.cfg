\* One command at a time, two sessions, two accounts.
SPECIFICATION FairSpec
CONSTANTS
  Procs = {p1}
  Sessions = {s1, s2}
  Accounts = {a1, a2}
  Trades = {x}
  Transfers = {tx1, tx2}
  Results = {"succeeded", "failed"}
  MaxClock = 1
  NoAccount = NoAccount
  NoTransfer = NoTransfer
  NoCard = NoCard
  NoRow = NoRow
INVARIANTS
  TypeOK
  OneRowPerSession
  StepFitsStatus
  ActiveIsUnfinished
PROPERTIES
  IsBoard
  FocusFollowsCommand
  AccountsApart
  SessionsDrain
CHECK_DEADLOCK FALSE
