\* A buy is refused again after its funding has been carried out.
SPECIFICATION FairSpec
CONSTANTS
  Derived = Derived
  Other = Other
  NoVault = NoVault
  Environments <- SomeEnvironments
  ToolSets <- SomeToolSets
  Headroom = 1
  MaxGas = 1
  MaxBalance = 1
  Target = 3
  ApprovalSets <- SomeApprovalSets
  MaxUsdt = 5
INVARIANT
  FundedBuyGoesThrough
