\* Two commands at a time: what one recorded, the other undoes.
SPECIFICATION Spec
CONSTANTS
  Procs = {p1, p2}
  Sessions = {s1, s2}
  Accounts = {a1}
  Trades = {x}
  Transfers = {tx1, tx2}
  Results = {"succeeded", "failed"}
  MaxClock = 1
  NoAccount = NoAccount
  NoTransfer = NoTransfer
  NoCard = NoCard
  NoRow = NoRow
PROPERTY
  TransferStaysRecorded
CHECK_DEADLOCK FALSE
