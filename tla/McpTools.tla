------------------------------ MODULE McpTools ------------------------------
(***************************************************************************)
(* MandatedVaultMcpBridge of lib/mandated_mcp_bridge.py, over the client   *)
(* of McpClient: which tool each method calls, whether the server has what *)
(* the call needs, and what becomes of its reply.                          *)
(***************************************************************************)

(* The tool behind every method: about vaults, for the funding of an      *)
(* account, for what an operator records of it, for a vault's transfers.   *)
VaultTool ==
  [ health_check          |-> "vault_health_check",
    predict_vault_address |-> "factory_predict_vault_address",
    prepare_create_vault  |-> "factory_create_vault_prepare",
    vault_bootstrap       |-> "vault_bootstrap" ]

AgentTool ==
  [ create_agent_account_context         |-> "agent_account_context_create",
    create_agent_funding_policy          |-> "agent_funding_policy_create",
    build_agent_fund_and_action_plan     |-> "agent_build_fund_and_action_plan",
    create_agent_fund_and_action_session |-> "agent_fund_and_action_session_create" ]

SessionTool ==
  [ next_agent_fund_and_action_session_step   |-> "agent_fund_and_action_session_next_step",
    apply_agent_fund_and_action_session_event |-> "agent_fund_and_action_session_apply_event",
    create_agent_follow_up_action_result      |-> "agent_follow_up_action_result_create",
    create_vault_asset_transfer_result        |-> "vault_asset_transfer_result_create" ]

TransferTool ==
  [ check_vault_asset_transfer_policy            |-> "vault_check_asset_transfer_policy",
    build_vault_asset_transfer_plan_from_context |-> "vault_build_asset_transfer_plan_from_context",
    simulate_vault_asset_transfer_from_context   |-> "vault_simulate_asset_transfer_from_context",
    prepare_vault_asset_transfer_from_context    |-> "vault_prepare_asset_transfer_from_context" ]

Behind(table) == {table[m] : m \in DOMAIN table}

V1Required == Behind(VaultTool) \ {VaultTool.vault_bootstrap}
BootstrapRequired == {VaultTool.vault_bootstrap}
AllTools == Behind(VaultTool) \cup Behind(AgentTool) \cup Behind(SessionTool) \cup Behind(TransferTool)

(* supports_vault_bootstrap, runtime_ready and missing_required_tools, of  *)
(* a server with these tools.                                              *)
SupportsBootstrap(tools) == BootstrapRequired \subseteq tools
RuntimeReady(tools) == SupportsBootstrap(tools) \/ V1Required \subseteq tools
MissingRequired(tools) == IF RuntimeReady(tools) THEN {} ELSE V1Required \ tools

(* _assert_tool_available: preparing a transaction takes a ready server,   *)
(* not just the tool.                                                      *)
Available(tool, tools) ==
  /\ tool \in tools
  /\ tool = VaultTool.prepare_create_vault => MissingRequired(tools) = {}

(* How a call may end: _call_tool and _parse_result.  A tool's own error   *)
(* is an MCP error, a reply that does not validate a ValueError, a write   *)
(* to a server that has gone an OSError.                                   *)
CallErrors(tool, tools) ==
  IF Available(tool, tools) THEN {"McpError", "ValueError", "OSError"} ELSE {"McpError"}
=============================================================================
