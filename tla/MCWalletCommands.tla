-------------------------- MODULE MCWalletCommands --------------------------
(* Small instances of WalletCommands. *)
EXTENDS WalletCommands

(* Every environment, up to inputs that make no difference to one another. *)
SomeEnvironments ==
  { e \in AllEnvironments :
      /\ e.bad # "none" => e.env = "testnet" /\ ~e.caps /\ e.core \in {{}, Core} /\ e.broadcast = "unset"
      /\ e.bad \in {"eoaKey", "privyKey", "ownKey"} => e.chain = "unset"
      /\ e.bad = "eoaKey" => e.eoa
      /\ e.bad = "privyKey" => e.privy
      /\ e.bad = "ownKey" => e.key # "none"
      /\ e.key # "none" => e.bad = "ownKey" \/ (e.bad = "none" /\ ~(e.eoa \/ e.address \/ e.privy))
      /\ e.mode = "predict-account" /\ (e.core = Core \/ e.vault # NoVault) => e.broadcast = "unset"
      /\ e.env = "testnet" => e.apiKey
      /\ e.key \in {"executor", "bootstrap"} => e.bad = "ownKey" }

(* Whole servers, an older and a newer one, and servers that lack a tool. *)
SomeToolSets ==
  { AllTools, AllTools \ BootstrapRequired, AllTools \ V1Required,
    AllTools \ {VaultTool.prepare_create_vault},
    {VaultTool.health_check, VaultTool.prepare_create_vault} }

(* All, none, one group, or all but one of the approvals. *)
SomeApprovalSets ==
  {{}, AllApprovals} \cup {Of(g) : g \in Groups} \cup {AllApprovals \ {a} : a \in AllApprovals}
=============================================================================
