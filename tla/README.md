# PredictClaw in TLA+

Specifications of PredictClaw, the command-line client for predict.fun orders
with MandatedVault funding: TLA+ modules, TLC configurations that check them on
small instances, and TLAPS proofs. Paths below are relative to the repository
root (`src/` in PROJECT.json).

Run `tlc -config X.cfg M` for a configuration X of module M (the table under
"Runs"), and `tlapm M_proofs.tla` for the proofs. PROJECT.json lists for every
definition the lines it translates, for every property a mutation of the code
that breaks it, and the hazards the properties are for.

## 1. Inventory

Every CLI command is a process of its own. It reads the environment, does its
work on one asyncio loop, prints and exits. What survives a command is in two
JSON files of the storage directory, on the exchange, on the chain, and nowhere
else: the MCP server that builds funding plans keeps no session.

| Component | State it keeps | Operations | Speaks to |
|---|---|---|---|
| JSON journals: file layer (`lib/position_storage.py`, `lib/session_storage.py`) | two files, a sibling `.tmp` each, a module-level lock per process | `upsert`, `list_*`, `get_active_session`, `seed` | every service |
| Overlay funding sessions (`lib/funding_service.py`, `lib/trade_service.py`, `lib/session_storage.py`) | one record per fund-and-action session: server session, next step, trade it is for | a buy short of USDT, `wallet continue-funding`, `wallet continue-follow-up`, `wallet deposit` (read) | MCP bridge, file layer |
| Orders and the positions journal (`lib/trade_service.py`, `lib/positions_service.py`) | one row per (market, outcome): order hash, order status, status | `trade buy`, `positions` | REST client, wallet SDK, file layer |
| REST client and authentication (`lib/api.py`, `lib/auth.py`, `lib/models.py`) | HTTP client, cached JWT | typed requests with retries | predict.fun |
| MCP bridge (`lib/mandated_mcp_bridge.py`) | subprocess, stdout buffer, request counter, stderr tail, tool list | `connect`, `close`, `request`, `notify`, tool calls | MCP server over stdio |
| Vault resolution and bootstrap (`lib/wallet_manager.py`) | none (a resolution per command) | explicit or predicted vault, health check, prepare, broadcast | MCP bridge, chain |
| Funding plan amounts (`lib/wallet_manager.py`, `lib/trade_service.py`) | none | balance check of a buy, target, required amount | wallet SDK, MCP bridge |
| Withdrawals and redeem preview (`lib/funding_service.py`) | none | `wallet withdraw`, `wallet redeem-vault` | wallet SDK, chain |
| Configuration (`lib/config.py`) | none | environment to wallet mode or error | everything |
| Wallet SDK, approvals (`lib/wallet_manager.py`) | none | balances, approvals | chain |
| Markets, hedge scan, LLM, PnL | none | read-only pipelines, pure arithmetic | REST client, LLM |
| Command line and setup (`scripts/`) | none | parsing, routing, printing | services |

What is hard, and what makes each component correct:

* **File layer.** Read, modify, write of the whole file under a lock that only
  threads of one process see. Correct when the file always parses, when an upsert
  changes one row at one instant or not at all, and when the lock is released on
  every path. A reader takes unparsable text for an empty journal, so the first
  of these protects everything else.
* **Overlay sessions.** A command reads the active session, waits for several
  calls to the MCP server, then re-reads the file and writes. It picks the session
  itself, by status and a timestamp of one-second resolution. Correct when each
  command moves the session the operator is working on by one step and no other
  session, when the stored next step agrees with the stored status, and when
  every session can be brought to its end.
* **Orders.** Posting is retried with the same signed order, so an error says
  nothing of whether the exchange took it. The journal is written once, after
  polling. `positions` later merges three accounts of one position: the remote
  position, the remote order, the journal. Correct when the journal names only
  orders that exist, never rebinds a position in a listing, and comes to agree
  with the exchange when that comes to rest.
* **MCP transport.** Two framings on one byte stream, answers matched by id, no
  timeout, a subprocess to be ended from every state. Correct when a caller
  receives the answer to its own request or an error, and no subprocess or task
  outlives `close`.
* **Configuration.** Some twenty variables, four modes and an overlay, with
  defaults that depend on one another. Correct when every combination that is
  accepted gives the commands of its mode what they ask for.
* **Vault commands.** A handful of calls to the bridge, each of which may fail,
  about a chain that others change in between. Correct when what is printed of a
  vault is so, when nothing is broadcast that was not asked for, when no session
  is made for a vault that is not there, and when the server has been ended, by the
  `finally` clause of the command's own route, and the error answered wherever the
  command ends.
* **Amounts.** Balances that are read, compared and then spent. Correct when a
  withdrawal that passes its checks can be paid and leaves the reserve, when the
  redeem preview agrees with the vault, when a funded buy goes through.
* **Approvals.** Ten reads that are reported as two states, two groups that are
  changed one after the other.

PROJECT.json's "hazards" lists these at their lines.

## 2. Modules

| Module | What it is |
|---|---|
| `RowStore` | abstract: a table whose upserts each take effect at one instant or not at all |
| `JsonRowStore` | the file layer step by step; implements `RowStore` when one process has the file |
| `JsonRowStore_proofs` | its theorems |
| `RowList` | the in-memory list both upserts work on: `Put`, and what "one row per id" means |
| `RowList_proofs` | lemmas on `Put`, used by both journals' proofs |
| `SessionBoard` | abstract: a board with a card per session that moves column by column |
| `FundingOverlay` | sessions, commands, crashes, other commands in between; implements `SessionBoard` for commands one at a time |
| `FundingOverlay_proofs` | its theorems for commands that overlap |
| `SequentialOverlay_proofs` | its theorems for commands one at a time, with the refinement |
| `OrderJournal` | orders, positions, `trade buy`, `positions`, crashes, the exchange moving on its own |
| `OrderJournal_proofs` | its theorems |
| `McpCall` | abstract: requests that are answered or fail once, over a connection |
| `McpClient` | the subprocess client over its byte stream; implements `McpCall` |
| `McpClient_proofs` | its theorems |
| `McpTools` | the bridge's methods, the tools behind them, and what a call needs |
| `WalletConfig` | from an environment to a setup or an error |
| `VaultCommands` | status, deposit, bootstrap-vault and the funding orchestration |
| `FundsOut` | withdraw and redeem-vault |
| `BuyFunding` | a buy short of USDT, its funding plan, and the buy again |
| `Approvals` | the approval reads of status, and approve |
| `WalletCommands` | the composition of the last five: one command after another |
| `WalletCommands_proofs` | theorems on configuration, vaults, broadcasts, endings |
| `WalletFunds_proofs` | theorems on amounts and approvals, and type correctness |
| `MCJsonRowStore`, `MCFundingOverlay`, `MCOrderJournal`, `MCWalletCommands` | constants for TLC |

### The layers

The file layer is modelled once, since `position_storage.py` and
`session_storage.py` hold the same code. `FundingOverlay` and `OrderJournal` sit
on top and take a file write as one step. `OneProcessIsRowStore` justifies that
for commands that do not overlap: there `JsonRowStore` is a table with atomic
upserts. For overlapping commands the two journals are modelled in their best
case, a file that at least always parses; what overlap does to the file itself
is shown by the run `two_processes`. `FundingOverlay` splits an upsert into its
read and its write, so that lost updates show; in `OrderJournal` the rows a
listing read before its remote calls play that role, and an upsert is one step.

### JsonRowStore

`main` and `tmp` are the contents of the two paths: rows, nothing readable
(`Blank`: opened for writing and truncated), text that does not parse (`Torn`),
or `NoFile`. Per thread there are the next step of `upsert` (`pc`), its argument,
the list it computed and what its open handle points at. `CallUpsert`, `Acquire`,
`ReadRows`, `OpenTmp`, `WriteText`, `Rename` are `upsert` and `_write_payload` in
order; `RenameRaises` is `Path.replace` on a temporary file that has gone, which
the `with` statement turns into a release of the lock. `Kill` takes a process
away between any two steps. A handle follows its file through a rename, so a
writer can end up writing into the journal itself.

Left out: the loss of written data at a power failure (the code does not fsync),
a text that reaches the file in several writes (`Blank` stands for every state
short of the full text), `seed`.

### FundingOverlay

`file` is the list of rows in `fund_and_action_sessions.json`. A row holds what
selects and drives a session: id, account, trade, server status, task of the
stored next step, confirmed transfer, `updated_at`. A command is

* `BuyShort` - `TradeService.buy` finds too little USDT: the server creates a
  session, the record goes to `_persist_overlay_session`;
* `ContinueFunding`, `ConfirmFunding` - `continue_funding` up to and after its
  MCP calls; the guard is the check of the stored next step;
* `ContinueFollowUp`, `RecordFollowUp` - the same for `continue_follow_up`;
* `UpsertRead`, `UpsertWrite` - the two halves of `SessionStorage.upsert`;
* `Stop` - an MCP error or the end of the process.

`IsActive` is `get_active_session`: filter by status and, if an account is
configured, by account; the last after a stable sort by `updated_at`. The server's
transitions (`TaskFor`, `StartStatuses`, the statuses written by the two events)
are external and follow the client's types and its tests. A record that is written
back from an old list keeps a next step that fits its status, so that `StepFitsStatus`
says nothing of lost updates; `TransferStaysRecorded` does.

### OrderJournal

The exchange is `orders` (status per order hash) and `held` (per trade, its
position); both move on their own (`MoveOrder`, `MovePosition`). `trade buy` is
`SignOrder`, then `PostAnswered`, `PostRetried` or `PostRaises` (in the latter two
the order may have been taken or not), `Poll` and `PollRaises`, `Persist`.
`positions` is `ListLocal`, `FetchPositions`, per row `FetchOrder` or
`FetchOrderFails` and `WriteBack`, with `ListRaises` wherever an error ends the
command. `Resolved` is `_resolve_position_status`. `Die` is the end of a process.
Prices, amounts and notes are left out, as is a listing without credentials,
which changes no row. Every order is assumed to have a hash: `buy` computes one for a
signed order that has none before it posts it (`trade_service.py:211`). What the code
does for an empty one - no polling (`trade_service.py:231`), no lookup
(`positions_service.py:120`) - is left out.

### McpClient

The server's output is a sequence of symbols: ends of lines, length headers, the
two halves of a message. A message is a line of JSON or a header, a blank line
and a body. `pipe` holds what the server has written and the client has not
read; a read of the stream takes any prefix of it as its chunk. `reader`,
`buffer`, `length` and `body` are where `_read_message`, `_stdout_buffer`, the
header loop and `_read_stdout_exactly` are. `Request` and `Receive` are `request`,
which skips what has another id; `Connect`, `ListTools`, `NotifyRaises`,
`CallTool`, `BeginClose` are the bridge's `connect`, its tool calls and `close`;
`ServerGone`, `Terminate`, `Kill`, `Drained` the client's `close`; `StderrEnds`
the task of `_capture_stderr`. The server answers in any order, late or never,
notifies, prints what is no message (`Prints`) and exits between or within messages.

### McpTools

A table per family of methods, what `runtime_ready` and `missing_required_tools`
make of a server's tools, `Available` (`_assert_tool_available`: preparing a
transaction takes a ready server, not just the tool) and `CallErrors`, the kinds
of exception a call may end in.

### WalletConfig, VaultCommands, FundsOut, BuyFunding, Approvals, WalletCommands

`phase` is what the command is doing, `setup` the configuration it runs with, and
`error` the kind of exception it met. All parts share them; every other variable
belongs to one part, which keeps it at rest while another part's command runs.

* `WalletConfig`: an environment says which variables are set, and which one, if
  any, holds text that cannot be read. `Outcome` is `from_env` with
  `validate_runtime_contract`: accepted, a `ConfigError`, or the bare `ValueError` of
  what is read before the `try`, in the order in which the code comes to them. A
  private key is "ready", "unreadable" or "none" (`KeyText`): a malformed one is
  accepted, unless the authority is derived from it (`DefaultsRaise`), and raises where
  an address is made of it. `SetupOf` keeps what commands ask of an accepted
  configuration, as the derived properties compute it; `SdkError` is what
  `_require_sdk` and `make_wallet_sdk` do with it.
* `VaultCommands`: `Begin` starts a command that has a vault behind it, after the SDK
  it may need has been made (`MakesSdk`, `Refusal`). `Connect` starts a server and hands
  it the broadcast switch (`Switch`), `ListTools` shows its tools. `ResolveExplicit`,
  `ResolveByPlan`, `ResolveByPrediction`, `Healthy`, `Undeployed`, `Prepare` are the
  branches of `resolve_mandated_vault`; `found` is its `MandatedVaultResolution`.
  `IsExpectedUndeployed` looks for the markers in the text of a health error; the
  server, which is external, is trusted to use none of them of a vault that is there
  (`HealthErrors`). `Metadata` and `AgentCall` are
  `resolve_overlay_vault_runtime_metadata` and the five calls of
  `build_vault_to_predict_account_orchestration`. `Bootstrap` is `bootstrap_vault`, and
  what a call of `vault_bootstrap` does, planning or executing, is `Bootstraps`, for
  every command that makes one. `CallFails` and `ChainRaises` raise at any call and lead
  to the `finally` clause; each of the eight routes has its own (`CloseMandatedStatus`,
  `CloseOverlayStatus`, ... `CloseContinueFollowUp`). The two commands that continue a
  session are here for the server they start; what they do with it is
  `FundingOverlay`'s. `code` is what is deployed, `before` what was when the command
  began; `Deployed` is somebody else's deployment between any two steps.
* `FundsOut`: `ReadBnb`, `ReadUsdt`, `Decide`, `Transfer` are `withdraw` in order;
  `ReadShares`, `ReadMax`, `Simulate`, `Judge` are `preview_vault_redeem`. Amounts are
  wei, and what is typed is in halves of a wei, so that there is something for
  `_parse_amount_to_wei` to cut off.
* `BuyFunding`: `Try` is the balance check of `TradeService.buy`, `Plan` the funding
  target that the orchestration sends, `Fund` the transfer of the session's next
  step; then the buy is tried again. `Shortfall`, the server's part, is external and
  follows the bridge's tests (required less current).
* `Approvals`: `ReadApproval` fills one field of `ApprovalSnapshot` after another;
  `SetApprovals` is one of the two calls of `set_all_approvals`.
* `WalletCommands`: `Start` loads the configuration, each `Handle...` action is the
  end of a command in its handler, with the errors that handler answers; `answer`
  says whether it reported, answered an error with exit code 1, or ended in a
  traceback. `World` is what others do meanwhile.

What the composition brings out, beside the properties:

* `bootstrap-vault` in a mode that has a vault address but neither an authority nor
  a signer meets the assertions of `wallet_manager.py:1430` and ends in a traceback
  (`BootstrapAsserts`); `Answered` speaks of the program's own errors only.
* A private key that cannot be read is accepted by the validator and ends whatever
  command first makes an address of it in a bare `ValueError`: the SDK's
  (`SdkError`), the bootstrap signer's (`ResolveRaises`, `BootstrapAsserts`), or that of
  the roles at the very end of a status, a deposit or a redeem preview
  (`RolesUnreadable`). `AcceptedServes` therefore asks for a key, not for one that can
  be read.
* The bare `ValueError` of `from_env`, and the arithmetic error of an amount such as
  `infinity`, also end in tracebacks, as does an `OSError` from writing to a server
  that has gone.
* `wallet deposit` with an explicit vault that is not deployed, and derivation inputs
  that lead to another, prepares the creation of that other vault. `VaultReportTrue`
  says nothing of preparations.
* The snapshot of a confirmed bootstrap says "deployed" of what was there before the
  broadcast (`Snapshot`).

## 3. Runs

| Run | Instance | Expected | Shows |
|---|---|---|---|
| `one_process` | 3 threads, 1 process, 2 keys, 2 values | pass | `TypeOK`, `FileAlwaysParses`, `IsRowStore` |
| `two_processes_lock` | a process of 2 threads and one of 1 | pass | `LockIsReleased`, also when a rename raises |
| `two_processes` | 2 processes | violation | `FileAlwaysParses` fails: two commands share `.tmp` |
| `overlay_sequential` | 1 process, 2 sessions, 2 accounts, 2 transfers | pass | `TypeOK`, `OneRowPerSession`, `StepFitsStatus`, `ActiveIsUnfinished`, `IsBoard`, `FocusFollowsCommand`, `AccountsApart`, `SessionsDrain` |
| `overlay_skipped` | follow-ups may be skipped | violation | `ActiveIsUnfinished` fails: a skipped session stays active |
| `overlay_lost_record` | 2 processes | violation | `TransferStaysRecorded` fails: a lost update |
| `journal_sequential` | 1 process, 2 positions | pass | `TypeOK`, `OneRowPerPosition`, `JournalNeverAhead`, `ListingKeepsOrders`, `OrderStatusMovesForward`, `OrdersStayInSight`, `BuyEnds`, `JournalFindsTruth` |
| `journal_rebound` | 2 processes, 2 orders of one position | violation | `ListingKeepsOrders` fails: a listing restores an old order |
| `journal_failed_buy` | 1 process, 1 order | violation | `FailedBuyPlacesNothing` fails: a failed buy with a live order |
| `mcp_client` | 4 requests, 1 notification or piece of noise, either framing | pass | `TypeOK`, `FramingReassembles`, `NothingSurvivesClose`, `IsMcpCall`, `CallsReturn`, `CloseEnds` |
| `wallet_commands` | 5 servers, 2 vaults, every kind of environment | pass | `TypeOK`, `AcceptedServes`, `VaultReportTrue`, `SessionsForLiveVaults`, `NothingLeftOpen`, `WithdrawalAffordable`, `ReserveRemains`, `RedeemableIsSo`, `FundedFromEmpty`, `ReadyIsSo`, `Answered`, `BroadcastOnRequest`, `FundingStopsAtTarget`, `CommandsEnd` |
| `funding_target` | a target of 3, buys of up to 5 | violation | `FundedBuyGoesThrough` fails: a buy above the target is refused for ever |

"one process" for the two journals means commands one at a time; a process that
ends is free to run the next command, so the runs cover every sequence of
commands. Commands that overlap are the subject of `overlay_lost_record` and
`journal_rebound`, which show what overlap breaks, and of the theorems of section 4
that hold for any number of commands. `IsBoard` contains `TransferStaysRecorded` for
commands one at a time, and `JournalNeverAhead` contains `JournalNamesPlacedOrders`.

**Bounds.** Three threads are enough for one to hold the lock, one to wait and one
to arrive; two keys tell a changed row from the others. Two sessions give an
active one and one behind it; two sessions over two accounts, with the
unconfigured account as a third choice of the operator, give every case of the
filter. `MaxClock` = 1 gives both equal and different timestamps, which is all the
sort distinguishes between two sessions. Two transfers tell a
confirmation that is kept from one that is overwritten. `MaxPosts` = 2 and `MaxPolls` = 2 (3 and
15 in the code) have a first, a repeated and a last attempt. Two orders of one
position are needed for a listing to hold an old one, as in `journal_rebound`;
`journal_sequential` has one order for each of two positions, so that a second buy of a
position, which takes its row over, is not met there: for `OrdersStayInSight` the theorem
`SightKept` covers it, for `OneRowPerPosition` the theorem `OneRowEach`. Nor can commands
one at a time write back a row that has gone stale; that is the subject of
`journal_rebound` and of the premise of `ListingAlone`. `Orders` and `Sessions` are
used up, so a run covers that many buys; `MaxRows` only bounds the rows the
fairness condition names, and the journal never has more rows than trades.

`MaxCalls` = 4 are initialize, tools/list and two tool calls: a call that fails over
noise leaves its answer to arrive late, while the next one is waiting for its own.
`MaxAsides` = 1: the server says one thing unasked, a notification or a piece of noise,
before, between or after its answers; both in one connection are beyond the bound, and
any number of calls and notifications is covered by the theorems. Two messages fit in
one chunk. A body has two halves with an end of line between
them, so that it is cut in every way that matters. A length counts symbols.

`SomeEnvironments` in `MCWalletCommands` is every environment, up to inputs that
make no difference to one another: a variable that cannot be read is tried with
few of the others, and the broadcast switch in the modes that have a vault.
`SomeToolSets` are the whole server, an older and a newer one, and two that lack a
tool somewhere in the middle of a command. Amounts of up to two wei, a reserve of
one and a gas price of one have every case around the reserve: nothing, less,
exactly, more. A target of 3 with buys of up to 5 has buys below, at and above it.
`SomeApprovalSets` are none, all, one group, and all but one. Others change
funds, a buyer's balance and approvals at most once per command, at any moment,
which is what the properties distinguish; deployments are not bounded.

**What the properties leave out.** `WithdrawalAffordable`, `ReserveRemains` and
`RedeemableIsSo` speak of balances that nobody else moves between the reads and the
act (`~moved`), and `ReadyIsSo` of approvals that nobody revokes between its reads: the
code promises nothing else. The movements are in the model, for the errors they lead
to (`Answered`, `CommandsEnd`), and PROJECT.json notes at those hazards that no property
covers them.
`Answered` speaks of `ConfigError` and `MandatedVaultMcpError` only.

**Deadlock** is checked except in `FundingOverlay`'s runs and in `mcp_client`. In the
former the operator may stop for good: sessions used up, all closed, the clock at
its bound. In the latter a connection that is closed is over.

**Fairness.** `JsonRowStore`: a thread that has the lock runs on (weak fairness of
its steps); nothing is asked of the lock's acquisition. `FundingOverlay`: an
operator who runs the continuation commands of every account again and again, on a
machine that does not cut the same step short for ever (strong fairness, since a
command may die and be tried again). It asks nothing of `BuyShort`. `OrderJournal`:
a running command takes its next step (the code awaits with timeouts on its HTTP
client and bounds its loops); the operator lists again and again, and for every row
it happens again and again that both its order and its market are answered. Nothing
is asked of the exchange, so `BuyEnds` holds also for an order that stays pending,
and `JournalFindsTruth` wherever orders and positions come to rest; they do, since
their statuses only move forward. These conditions name the code's own steps and
the operator's persistence; none says that a call succeeds always.

`McpClient`: the event loop runs what can run (weak fairness of reading, of what
follows the start, and of the steps of `close`), and a server that owes an answer
gives it or goes. The last is an assumption about the server: the client has no
timeout (`mandated_mcp_bridge.py:683`), so that without it a request may wait for
ever. Nothing is asked of the task that reads standard error. `WalletCommands`: a
command takes its next step; the calls it awaits return, which for the bridge is
what `mcp_client` shows.

## 4. Proofs

All theorems hold for every value of the constants under the named assumptions in
the modules (`ConstantsAssumption`, `OverlayAssumption`, `JournalAssumption`,
`McpAssumption`, `NoMsgAssumption`, `EnvironmentsAssumption`, `ToolSetsAssumption`,
`FundsAssumption`, `BuyAssumption`, `ApprovalAssumption`). They keep marker values
apart from data, bounds in `Nat` and the instances' sets within their types; the
one with content is `MaxGas <= Headroom` of `FundsAssumption`, that the reserve the
code keeps covers the gas of a transfer.

* `JsonRowStore_proofs`: `TypeCorrect` for any threads and processes. With
  `SingleProcess` (all threads belong to one process), `OneProcessFileParses` and
  `OneProcessIsRowStore`. `FileAlwaysParses` is not inductive: that the
  rename installs whole text rests on nobody else having opened `.tmp` since, which
  rests on the lock. `OneProcessInv` adds `LockedAlone` (who holds the lock, and
  that nobody else is inside) and `WorkIsCurrent` (what the holder computed is still
  right for the file, and `.tmp` is its own). The refinement maps `Rename` to
  `Commit`, `Kill` to `Abandon`, the steps in between to stuttering;
  `RenameRaises` cannot happen with one process;
  `WorkIsCurrent` is what makes the rename the commit of this one row.
  `LockIsExact` (`LockMeansOneInside`) for any number of processes: whatever renames
  raise and whoever dies, a process's lock is held exactly while one of its threads is
  inside; one lemma per way in (`EnterKeepsLock`), out (`LeaveKeepsLock`) and away
  (`KillKeepsLock`).
* `FundingOverlay_proofs`: `TypeCorrect`, and `JournalWellFormed` for any number of
  concurrent commands: `OneRowPerSession` and `StepFitsStatus`. Since a command may
  write back a list it read long ago, `OverlayInv` carries both facts also for the
  lists and records in memory (`MemoryFits`). `SessionsKeepTrade`
  (`SessionKeepsItsTrade`), also for any number: the copies of a session, in the file,
  in the memory of commands and in the lists they will write, may differ in age but
  agree on account and trade (`CopiesAgree`), since every step derives its copies from
  earlier ones and only a buy adds one, of a session that had none (`CopiesOfStep`).
* `SequentialOverlay_proofs`, for commands one at a time (`OneCommand`), each of which
  may be cut short anywhere: `CommandsAreBoard` (the refinement `IsBoard`),
  `NextCommandFollows` (`FocusFollowsCommand`) and `CommandsStayInAccount`
  (`AccountsApart`). `SequentialInv` says what a command carries from its read to its
  write: the row it picked is still the active one of its account, what it holds is that
  row or that row moved forward by one event, no timestamp lies ahead of the clock, and
  the list it will write is the file with this one change. `TransfersStay`
  (`TransferStaysRecorded`) adds to it that a session waiting for its funding has no
  transfer yet (`UnfundedBare`); finding 3 is what overlap makes of it. `EndedIsNotActive`
  (`ActiveIsUnfinished`) holds for any number of commands, given that no follow-up is
  recorded as skipped; finding 2 is what happens without that.
* `OrderJournal_proofs`: `TypeCorrect`, and `JournalSound` for any number of
  concurrent commands: `JournalNamesPlacedOrders` and `OneRowPerPosition`. The same
  kind of strengthening: an order past its post has been taken, a listing's rows name
  orders that were, and an order never becomes "unplaced" again. `ListingAlone`
  (`ListingKeepsOrders`) for commands one at a time: the rows a listing has read bind the
  same positions to the same orders as the journal does.
  `NeverAhead` (`JournalNeverAhead`) for any number of commands: the exchange moves
  forward only (`MovesForward`), and rows, positions and answers that a command has in
  memory, however old, are behind it too (`MemoryBehind`), so that whatever is made of
  them by `Resolved` still is when it is written. `StatusForward`
  (`OrderStatusMovesForward`) and `SightKept` (`OrdersStayInSight`) for commands one at a
  time, from `BoundInv` (rows bind signed orders to their own positions, and the order of
  a running buy is not in the journal yet) and `ListingHolds` (the rows a listing has
  still to write are those of the journal, and what it has fetched is not older).
* `RowList_proofs`: what `Put` does to a list with unique ids (`PutAppends`,
  `PutReplaces`, `PutKeepsTable`).

* `McpClient_proofs`: `TypeCorrect`, `CloseIsComplete` (`NothingSurvivesClose`) and
  `ClientIsMcpCall`, the refinement of `McpCall`. The invariant says where a
  connection is at each stage: requests before the last one are over, the last is
  pending exactly while something is being read, and a message in any part of the
  stream - pipe, buffer or body - is one the server has written, so that what is
  matched to a request was said with its number. `AnyChunksReassemble`
  (`FramingReassembles`): unless noise has spoiled the stream, there are a text the
  server has written in all, the places where its messages end, and a position the client
  has reached in it, of which buffer, body and pipe are the next pieces (`StreamInv`).
  Reading a chunk or a line moves the position; no induction over the stream is needed.
* `WalletCommands_proofs`: `EveryAcceptedServes` from a case split over the modes
  (`AcceptedSetupServes`): which credentials the validator requires of a mode, and which
  of them the identity and the SDK's key are then made of (`TradersHaveKeys`).
  `VaultReportsAreTrue`, `SessionsAreForLiveVaults`, `BridgeIsClosed` and
  `NoUnaskedBroadcast` from `VaultInv`: what has been found out of a vault stays so
  because vaults do not disappear, what was found missing was missing when the
  command began, and a call of the orchestration is only reached with a vault found
  deployed. Its part `BridgeInv` says of the server that it runs in the phases between
  connect and the `finally` clauses and in no other, and was told of broadcasting what
  `Switch` makes of the command and its environment: the first is preserved because
  every step out of these phases is one of the eight clauses (`ClosingsKeep`), the second
  gives `NoUnaskedBroadcast`, since only a call in execute mode of a server that was not
  told otherwise creates (`OnlyBootstrapSends`). `OwnErrorsAreAnswered`
  (`Answered`) from `ErrorInv`: an error belongs to the step that ends a command's
  work, and one of the bridge to a command whose handler expects it.
* `WalletFunds_proofs`: `FundingServesEmpty` and `FundingIsBounded` from `BuyInv`, which
  follows the balance from the first refusal through plan and transfer;
  `WithdrawalsAreCovered`, `WithdrawalsLeaveTheReserve` and `RedeemableIsRight` from
  `FundsInv`, that what has been read is what is there unless others have moved
  it; `ReadinessIsRight` from `ApprovalInv`, the same for the approvals read so far;
  and `TypeCorrect` for all parts together.

Only model-checked: all liveness (`LockIsReleased`, `SessionsDrain`, `BuyEnds`,
`JournalFindsTruth`, `CallsReturn`, `CloseEnds`, `CommandsEnd`), since liveness under
fairness and ENABLED are outside what TLAPS does. Every safety property of a passing
run is also a theorem; `LockMeansOneInside` and `SessionKeepsItsTrade` are theorems only,
about processes and commands in any number. Proved for commands one at a time are `IsBoard`,
`FocusFollowsCommand`, `AccountsApart`, `TransferStaysRecorded`, `ListingKeepsOrders`,
`OrderStatusMovesForward` and `OrdersStayInSight`, `FileAlwaysParses` and `IsRowStore`
for one process with the file; the others hold with overlap as well (`ActiveIsUnfinished`
where no follow-up is recorded as skipped).

## 5. Findings

Each is a run that must end in a counterexample; PROJECT.json quotes the line it
disagrees with.

1. `two_processes`: two commands on one storage directory can leave a journal that
   does not parse and is then read as empty.
2. `overlay_skipped`: `skipped` ends a session for the server and for
   `trade_service.py`, but `get_active_session` does not count it as terminal.
3. `overlay_lost_record`: overlapping commands lose a recorded transfer.
4. `journal_rebound`: a listing writes whole rows back and so undoes a buy that was
   journaled while it waited.
5. `journal_failed_buy`: a buy that reports failure may have a live order that no
   journal knows.
6. `funding_target`: a refused buy asks for its funding and a retry, but the plan's
   target is a fixed 5 USDT: a larger buy is refused again, however often it is
   funded. `FundedFromEmpty` is what does hold.

## 6. Not modelled

* **Markets, hedge scan, coverage, LLM, PnL.** They keep no state; their content is
  text and decimal arithmetic, which a model would have to copy.
* **REST client beyond order posting.** Response normalisation is data. The JWT is
  fetched once per process and nothing reacts to its expiry; an expired token is one
  more failing call, as in `PollRaises` and `FetchOrderFails`.
* **Fields of the MCP results** (`extra="forbid"` models): a reply validates or raises a
  `ValueError` (`CallErrors`).
* **Text**: argument parsing, printing, redaction, addresses and checksums, the
  selectors and hex data by which a simulated redeem's error is told (`Simulate`
  chooses among the kinds).
* **Receipts of BNB withdrawals**: `_transfer_bnb` does not look at the receipt's
  status; `Transfer` lets either outcome be reported as sent or raise.
* **Overlay approvals**: the approvals that an overlay's status prints are read as in
  `Approvals`; `VaultCommands` keeps only that the reads may raise (`ChainRaises`).
* **Interrupts** (Ctrl-C) during the start of the MCP server.
* **Setup, proof-of-concept scripts, fixtures**: not part of the running system.
* **Power failure** under the journals (no fsync), and `seed`.
