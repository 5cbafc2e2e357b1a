\* One wallet command after another, from every kind of environment.
SPECIFICATION FairSpec
CONSTANTS
  Derived = Derived
  Other = Other
  NoVault = NoVault
  Environments <- SomeEnvironments
  ToolSets <- SomeToolSets
  Headroom = 1
  MaxGas = 1
  MaxBalance = 2
  Target = 3
  ApprovalSets <- SomeApprovalSets
  MaxUsdt = 5
INVARIANTS
  TypeOK
  AcceptedServes
  VaultReportTrue
  SessionsForLiveVaults
  NothingLeftOpen
  WithdrawalAffordable
  ReserveRemains
  RedeemableIsSo
  FundedFromEmpty
  ReadyIsSo
  Answered
PROPERTIES
  BroadcastOnRequest
  FundingStopsAtTarget
  CommandsEnd
