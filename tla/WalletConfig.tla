---------------------------- MODULE WalletConfig ----------------------------
(***************************************************************************)
(* How a command gets its configuration: PredictConfig.from_env of         *)
(* lib/config.py, its validator and its derived properties.                *)
(*                                                                         *)
(* An environment says which variables are set, not what text they hold.   *)
(* "bad" names the one variable whose text cannot be read.  An accepted    *)
(* environment is kept as a setup: what the commands ask of it.            *)
(***************************************************************************)
CONSTANTS
  Derived,       \* the vault address the derivation inputs lead to
  Other,         \* another vault address
  NoVault,
  Environments   \* environments a command may be started in

Vaults == {Derived, Other}

(* Derivation inputs: "naming" stands for name, symbol and salt.  "key" is *)
(* the one private key of the vault's own that is set, "caps" any other    *)
(* ERC_MANDATED input; "testnet" is every network that needs no API key.   *)
Core == {"asset", "authority", "naming"}
OwnKeys == {"authority", "executor", "bootstrap"}
Keys == {"none", "ready", "unreadable"}   \* what Account.from_key makes of one

AllEnvironments ==
  [ env : {"mainnet", "testnet"}, apiKey : BOOLEAN,
    mode : {"none", "read-only", "eoa", "predict-account", "mandated-vault"},
    eoa : BOOLEAN, address : BOOLEAN, privy : BOOLEAN,
    vault : Vaults \cup {NoVault}, core : SUBSET Core,
    key : OwnKeys \cup {"none"}, caps : BOOLEAN,
    chain : {"unset", "known", "unknown"}, broadcast : {"unset", "on", "off"},
    bad : {"none", "env", "mode", "chain", "broadcast", "root",
           "eoaKey", "privyKey", "ownKey"} ]

ASSUME EnvironmentsAssumption ==
  /\ Environments \subseteq AllEnvironments
  /\ Derived # Other /\ NoVault \notin Vaults

VARIABLES
  phase,   \* what the command is doing
  setup,   \* the configuration it runs with
  error    \* how the last command ended: none, or the kind of exception

configVars == <<phase, setup, error>>

Errors == {"none", "ConfigError", "McpError", "ValueError", "ArithmeticError",
           "AssertionError", "ChainError", "OSError"}

-----------------------------------------------------------------------------
Pair(e) == e.address /\ e.privy
HasMandatedInput(e) ==
  \/ e.vault # NoVault \/ e.core # {} \/ e.key # "none" \/ e.caps
  \/ e.chain # "unset" \/ e.broadcast # "unset"

(* A key that is set has some text; only its use shows whether it is one.  *)
KeyText(e, given, name) ==
  IF ~given THEN "none" ELSE IF e.bad = name THEN "unreadable" ELSE "ready"
EoaKey(e) == KeyText(e, e.eoa, "eoaKey")
OwnKey(e) == KeyText(e, e.key # "none", "ownKey")

(* In mandated-vault mode what is needed to derive a vault has defaults,   *)
(* the authority the one of the EOA key; the asset's depends on the chain. *)
Defaults(e) == e.mode = "mandated-vault" /\ e.vault = NoVault
Asset(e) == "asset" \in e.core \/ Defaults(e)
Naming(e) == "naming" \in e.core \/ Defaults(e)
Authority(e) == "authority" \in e.core \/ (Defaults(e) /\ e.eoa)

(* What from_env raises before its try: bare ValueErrors, and between them *)
(* the conflict of routes.  "broadcast" and "root" are read within it.     *)
Unreadable(e) == e.bad \in {"env", "mode", "chain"}

RouteConflict(e) == e.mode = "mandated-vault" /\ Pair(e) /\ HasMandatedInput(e)

DefaultsRaise(e) ==
  /\ Defaults(e)
  /\ \/ "asset" \notin e.core /\ e.chain = "unknown"
     \/ "authority" \notin e.core /\ EoaKey(e) = "unreadable"

PartialCore(e) == e.core # {} /\ e.core # Core

(* validate_mandated_overlay_inputs *)
OverlayFits(e) ==
  HasMandatedInput(e) => ~PartialCore(e) /\ (e.vault # NoVault \/ e.core = Core)

ModeFits(e) ==
  CASE e.mode = "none" ->
         /\ ~HasMandatedInput(e)
         /\ e.address = e.privy
         /\ ~(e.eoa /\ (e.address \/ e.privy))
    [] e.mode = "read-only" ->
         ~(e.eoa \/ e.address \/ e.privy \/ HasMandatedInput(e))
    [] e.mode = "eoa" ->
         e.eoa /\ ~(e.address \/ e.privy \/ HasMandatedInput(e))
    [] e.mode = "predict-account" ->
         Pair(e) /\ ~e.eoa /\ OverlayFits(e)
    [] e.mode = "mandated-vault" ->
         /\ ~(e.address \/ e.privy)
         /\ ~PartialCore(e)
         /\ e.eoa \/ e.vault # NoVault \/ e.core = Core

(* The validator with a check gone: any key in place of the vault, or an   *)
(* account without the half of its pair.                                   *)
ValidKeyless(e) ==
  /\ e.env = "mainnet" => e.apiKey
  /\ ModeFits([e EXCEPT !.eoa = (e.mode = "mandated-vault" /\ e.key # "none") \/ @])

ValidUnpaired(e) ==
  /\ e.env = "mainnet" => e.apiKey
  /\ ModeFits([e EXCEPT !.address = (e.mode = "predict-account" /\ e.privy) \/ @])

Valid(e) ==
  /\ e.env = "mainnet" => e.apiKey
  /\ ModeFits(e)

(* from_env: accepted, or how it fails. *)
Outcome(e) ==
  IF Unreadable(e) THEN "ValueError"
  ELSE IF RouteConflict(e) THEN "ConfigError"
  ELSE IF DefaultsRaise(e) THEN "ValueError"
  ELSE IF e.bad \in {"broadcast", "root"} \/ ~Valid(e) THEN "ConfigError"
  ELSE "none"

(* wallet_mode *)
Mode(e) ==
  IF e.mode # "none" THEN e.mode
  ELSE IF Pair(e) THEN "predict-account"
  ELSE IF e.eoa THEN "eoa"
  ELSE "read-only"

(* mandated_bootstrap_private_key_value, mandated_executor_private_key_value *)
BootstrapKey(e) ==
  IF e.key = "bootstrap" THEN OwnKey(e)
  ELSE IF Mode(e) = "mandated-vault" /\ e.eoa THEN EoaKey(e)
  ELSE IF e.key = "authority" THEN OwnKey(e)
  ELSE "none"

ExecutorKey(e) ==
  IF e.key \in {"executor", "authority"} THEN OwnKey(e)
  ELSE IF Mode(e) = "mandated-vault" THEN EoaKey(e)
  ELSE "none"

(* mandated_bootstrap_signer_address and mandated_executor_address: of a   *)
(* key, else the authority.                                                *)
AddressOf(e, key) ==
  IF key # "none" THEN key ELSE IF Authority(e) THEN "ready" ELSE "none"
BootstrapSigner(e) == AddressOf(e, BootstrapKey(e))
Executor(e) == AddressOf(e, ExecutorKey(e))

(* auth_signer_address *)
AuthSigner(e) ==
  CASE Mode(e) = "predict-account" -> IF e.address THEN "ready" ELSE "none"
    [] Mode(e) = "eoa" -> EoaKey(e)
    [] Mode(e) \notin {"predict-account", "eoa"} -> "none"

(* The key make_wallet_sdk builds on; an account takes both of its pair.   *)
SdkKey(e) ==
  CASE Mode(e) = "predict-account" -> KeyText(e, Pair(e), "privyKey")
    [] Mode(e) = "eoa" -> EoaKey(e)
    [] Mode(e) \notin {"predict-account", "eoa"} -> "none"

SetupOf(e) ==
  [ mode |-> Mode(e), vault |-> e.vault, overlay |-> Mode(e) = "predict-account" /\ HasMandatedInput(e),
    asset |-> Asset(e), authority |-> Authority(e),
    derivation |-> Asset(e) /\ Naming(e) /\ Authority(e),
    signer |-> BootstrapSigner(e), executor |-> Executor(e),
    auth |-> AuthSigner(e), sdk |-> SdkKey(e), broadcast |-> e.broadcast ]

NoSetup ==
  [ mode |-> "none", vault |-> NoVault, overlay |-> FALSE, asset |-> FALSE,
    authority |-> FALSE, derivation |-> FALSE, signer |-> "none", executor |-> "none",
    auth |-> "none", sdk |-> "none", broadcast |-> "unset" ]

Setups ==
  [ mode : {"none", "read-only", "eoa", "predict-account", "mandated-vault"},
    vault : Vaults \cup {NoVault}, overlay : BOOLEAN, asset : BOOLEAN,
    authority : BOOLEAN, derivation : BOOLEAN, signer : Keys, executor : Keys,
    auth : Keys, sdk : Keys, broadcast : {"unset", "on", "off"} ]

-----------------------------------------------------------------------------
Go(next) == phase' = next /\ UNCHANGED <<setup, error>>
Raise(kind, next) == phase' = next /\ error' = kind /\ UNCHANGED setup

Load ==
  /\ phase = "idle"
  /\ \E e \in Environments :
       /\ error' = Outcome(e)
       /\ IF Outcome(e) = "none"
            THEN phase' = "loaded" /\ setup' = SetupOf(e)
            ELSE phase' = "idle" /\ setup' = NoSetup

(* _require_sdk: how a command of a trading mode fails to get its SDK.     *)
SdkError ==
  IF setup.auth = "none" THEN "ConfigError"
  ELSE IF setup.sdk = "none" THEN "AssertionError"
  ELSE IF "unreadable" \in {setup.auth, setup.sdk} THEN "ValueError"
  ELSE "none"

(* The roles a command prints are addresses of keys: another bare error.   *)
RolesUnreadable == "unreadable" \in {setup.signer, setup.executor}

(* A configuration that was accepted is enough for what its mode does: a   *)
(* trading mode has the identity and the key that its SDK is built on,     *)
(* and every vault that a command will look for is configured, or can be   *)
(* derived with an authority and a signer.  So neither the refusals nor    *)
(* the assertions of _require_sdk, make_wallet_sdk and                     *)
(* resolve_mandated_vault are met; whether a key can be read is not known  *)
(* until it is used.                                                       *)
AcceptedServes ==
  phase = "loaded" =>
    /\ setup.overlay \/ setup.mode = "mandated-vault" =>
         setup.vault # NoVault \/ (setup.derivation /\ setup.signer # "none")
    /\ setup.mode \in {"eoa", "predict-account"} =>
         SdkError \notin {"ConfigError", "AssertionError"}
=============================================================================
