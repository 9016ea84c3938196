----------------------------- MODULE WalletConfig -----------------------------
(***************************************************************************)
(* wallet.toml (config.rs): what a text means, what the two front ends      *)
(* write (wizard.rs), what loads, and what a file cut short still says.     *)
(*                                                                          *)
(* A text is a sequence of tables, a table a name and its fields; the five  *)
(* amounts of [policy] are one, max_sat.  Strings go into the text between  *)
(* quotes as they are, so one that holds a quote, a backslash or a line     *)
(* break (Unquotable) makes a text that does not parse.  An extended public *)
(* key is the key, the network kind of its version bytes and its depth; a   *)
(* derivation path is its number of steps, -1 one that does not parse.      *)
(***************************************************************************)
EXTENDS Integers, Sequences, FiniteSets, Functions, TLC

CONSTANTS
  Key,             \* what an xpub that parses is the public half of
  Fingerprint,     \* the strings of eight hex digits
  ValidOn(_),      \* the networks a string is an address of
  Npub, RelayUrl,  \* the strings the two prompts for them accept
  Mailbox,         \* the strings that parse as a mail address
  Unquotable,      \* strings a basic TOML string cannot hold
  RpcUrl,          \* the strings bitcoind's client takes for a URL
  CookieFile,      \* the files it can read a cookie from
  LedgerPath,      \* where a ledger can be opened
  BindAddr,        \* the addresses the machine lets a server listen on
  MaxTomlInt,      \* i64::MAX, the largest integer of a TOML text
  U16, U32,        \* how many values the two integer types have
  Nothing          \* an absent value

ASSUME ConfigAssumption ==
  /\ Nothing \notin Key /\ IsFiniteSet(Key)
  /\ MaxTomlInt \in Nat
  /\ U16 \in 1..MaxTomlInt /\ U32 \in 1..MaxTomlInt

Networks == {"mainnet", "testnet", "signet", "regtest"}

xpub_network_kind(network) == IF network = "mainnet" THEN "main" ELSE "test"

-----------------------------------------------------------------------------
(* Texts. *)

Table(name, fields) == [name |-> name, fields |-> fields]

KeyTables == {"keys.satochip", "keys.mobile", "keys.server"}

\* The fields of each table, in the order they are written.
Lines(name) ==
  CASE name = "wallet" ->
         <<"network", "i_understand_this_is_mainnet", "timelock_blocks">>
    [] name \in KeyTables -> <<"master_fingerprint", "derivation_path", "xpub">>
    [] name = "bitcoind" ->
         <<"rpc_url", "rpc_cookie_file", "rpc_user", "rpc_password">>
    [] name = "server" -> <<"bind_addr", "gap_limit", "ledger_db_path">>
    [] name = "server_signing" -> <<"xprv_file", "xprv_env_var">>
    [] name = "policy" -> <<"max_sat", "max_fee_rate", "destination_whitelist">>
    [] name = "notify" -> <<"hold_seconds", "sweep_interval_seconds",
                            "renotify_interval_seconds">>
    [] name = "notify.ntfy" -> <<"url", "auth_token">>
    [] name = "notify.smtp" ->
         <<"host", "port", "username", "password", "from", "to">>
    [] name = "recovery" -> <<"hold_seconds", "destination_whitelist">>
    [] name = "nostr_transport" ->
         <<"nsec_file", "nsec_env_var", "relays", "allowed_npubs">>

\* Those serde has no default for.
Required(name) ==
  CASE name = "wallet" -> {"network", "timelock_blocks"}
    [] name \in KeyTables -> {"master_fingerprint", "derivation_path", "xpub"}
    [] name = "bitcoind" -> {"rpc_url"}
    [] name = "server" -> {"bind_addr"}
    [] name = "policy" -> {"max_sat", "max_fee_rate"}
    [] name = "notify.ntfy" -> {"url"}
    [] name = "notify.smtp" -> {"host", "username", "password", "from", "to"}
    [] name = "nostr_transport" -> {"relays", "allowed_npubs"}
    [] OTHER -> {}

Numbers == {"timelock_blocks", "gap_limit", "max_sat", "hold_seconds", "port",
            "sweep_interval_seconds", "renotify_interval_seconds"}

\* What the type of such a field can hold.
Values(f) ==
  CASE f \in {"timelock_blocks", "port"} -> 0..(U16 - 1)
    [] f = "gap_limit" -> 0..(U32 - 1)
    [] f \in {"max_sat", "sweep_interval_seconds"} -> 0..MaxTomlInt
    [] OTHER -> (-MaxTomlInt - 1)..MaxTomlInt

RawStrings ==
  {"rpc_url", "rpc_cookie_file", "rpc_user", "rpc_password", "bind_addr",
   "ledger_db_path", "xprv_file", "xprv_env_var", "url", "auth_token", "host",
   "username", "password", "from", "to", "nsec_file", "nsec_env_var"}

WellFormed(t) ==
  LET present == DOMAIN t.fields IN
  /\ Required(t.name) \subseteq present
  /\ \A f \in present \cap Numbers : t.fields[f] \in Values(f)
  /\ \A f \in present \cap RawStrings : t.fields[f] \notin Unquotable
  /\ "max_fee_rate" \in present => t.fields.max_fee_rate \notin {"NaN", "null"}

Names(text) == {text[i].name : i \in DOMAIN text}

\* toml::from_str.
Parses(text) ==
  /\ Cardinality(Names(text)) = Len(text)
  /\ {"wallet"} \cup KeyTables \subseteq Names(text)
  /\ \A i \in DOMAIN text : WellFormed(text[i])

Section(text, name) ==
  text[CHOOSE i \in DOMAIN text : text[i].name = name].fields

Has(fields, f) == f \in DOMAIN fields

-----------------------------------------------------------------------------
(* WalletConfig::validate. *)

\* KeySpec::validate, and the validators of the prompts for a key.
ValidKey(k, network) ==
  /\ k.master_fingerprint \in Fingerprint
  /\ k.derivation_path >= 0
  /\ k.xpub.key \in Key
  /\ k.xpub.kind = xpub_network_kind(network)
  /\ k.xpub.depth = k.derivation_path

ValidBitcoind(b) ==
  /\ Has(b, "rpc_cookie_file") # (Has(b, "rpc_user") \/ Has(b, "rpc_password"))
  /\ Has(b, "rpc_user") = Has(b, "rpc_password")

\* PolicyConfig::compile and RecoveryConfig's whitelist.
ValidWhitelist(fields, network) ==
  Has(fields, "destination_whitelist") =>
    \A address \in fields.destination_whitelist : network \in ValidOn(address)

\* Mutant: a [notify] with no channel is good enough.
ValidNotifyAny(text) ==
  LET notify == Section(text, "notify") IN
  Has(notify, "hold_seconds") => notify.hold_seconds >= 0

ValidNotify(text) ==
  LET notify == Section(text, "notify") IN
  /\ Has(notify, "hold_seconds") => notify.hold_seconds >= 0
  /\ {"notify.ntfy", "notify.smtp"} \cap Names(text) # {}

ValidRecovery(r, network) ==
  /\ Has(r, "hold_seconds") => r.hold_seconds >= 0
  /\ ValidWhitelist(r, network)

ValidNostr(n) ==
  /\ Has(n, "nsec_file") # Has(n, "nsec_env_var")
  /\ n.relays # {} /\ n.allowed_npubs # {}
  /\ n.allowed_npubs \subseteq Npub

validate(text) ==
  LET wallet == Section(text, "wallet")
      network == wallet.network
      keys == {Section(text, name) : name \in KeyTables}
      If(name, Valid(_)) ==
        name \in Names(text) => Valid(Section(text, name))
  IN /\ network = "mainnet" => Has(wallet, "i_understand_this_is_mainnet")
     /\ wallet.timelock_blocks # 0
     /\ \A k \in keys : ValidKey(k, network)
     /\ Cardinality({k.master_fingerprint : k \in keys}) = 3
     /\ Cardinality({k.xpub : k \in keys}) = 3
     /\ If("bitcoind", ValidBitcoind)
     /\ If("policy", LAMBDA p : ValidWhitelist(p, network))
     /\ If("server_signing",
           LAMBDA s : Has(s, "xprv_file") # Has(s, "xprv_env_var"))
     /\ "notify" \in Names(text) => ValidNotify(text)
     /\ If("recovery", LAMBDA r : ValidRecovery(r, network))
     /\ If("nostr_transport", ValidNostr)

\* WalletConfig::load, and what both front ends do before they write.
Loads(text) == Parses(text) /\ validate(text)

-----------------------------------------------------------------------------
(* The rendering of answers. *)

When(condition, tables) == IF condition THEN tables ELSE <<>>

OptionalLine(f, v, present) ==
  [x \in IF present THEN {f} ELSE {} |-> v]

Fields(always, optional) ==
  [f \in DOMAIN always \cup DOMAIN optional |->
     IF f \in DOMAIN always THEN always[f] ELSE optional[f]]

Whitelist(list) == OptionalLine("destination_whitelist", list, list # {})

DeploymentTables(rpc_url, auth, bind_addr, gap_limit, ledger_db_path) ==
  <<Table("bitcoind", [f \in {"rpc_url"} \cup DOMAIN auth |->
                         IF f = "rpc_url" THEN rpc_url ELSE auth[f]]),
    Table("server", [bind_addr |-> bind_addr, gap_limit |-> gap_limit,
                     ledger_db_path |-> ledger_db_path])>>

render(a, include_deployment) ==
  <<Table("wallet",
      Fields([network |-> a.network, timelock_blocks |-> a.timelock_blocks],
             OptionalLine("i_understand_this_is_mainnet", TRUE,
                          a.network = "mainnet"))),
    Table("keys.satochip", a.satochip), Table("keys.mobile", a.mobile),
    Table("keys.server", a.server)>>
  \o When(include_deployment,
          DeploymentTables(a.bitcoind_rpc_url, a.bitcoind_auth, a.bind_addr,
                           a.gap_limit, a.ledger_db_path))
  \o <<Table("server_signing", a.server_signing),
       Table("policy",
         Fields([max_sat |-> a.max_sat, max_fee_rate |-> a.max_fee_rate],
                Whitelist(a.destination_whitelist))),
       Table("notify", a.notify)>>
  \o When(a.ntfy # Nothing, <<Table("notify.ntfy", a.ntfy)>>)
  \o When(a.smtp # Nothing, <<Table("notify.smtp", a.smtp)>>)
  \o <<Table("recovery",
         Fields([hold_seconds |-> a.recovery_hold_seconds],
                Whitelist(a.recovery_destination_whitelist)))>>
  \o When(a.nostr_transport # Nothing,
          <<Table("nostr_transport", a.nostr_transport)>>)

render_toml(a) == render(a, TRUE)

\* Mutant: the two sections the entrypoint appends are written as well.
render_user_tomlFull(a) == render(a, TRUE)

render_user_toml(a) == render(a, FALSE)

-----------------------------------------------------------------------------
(* The prompts of cosigner init. *)

\* prompt_validated asks again until its answer passes.
prompt_wallet(a) ==
  /\ a.network \in Networks
  /\ a.network = "mainnet" => a.confirmation = "YES"
  /\ a.timelock_blocks \in 1..(U16 - 1)

\* validate_xpub_for and its siblings are the checks of KeySpec::validate.
prompt_key(k, network) == ValidKey(k, network)

prompt_nostr(n) ==
  /\ n.relays # {} /\ n.relays \subseteq RelayUrl
  /\ n.allowed_npubs # {} /\ n.allowed_npubs \subseteq Npub

\* The addresses of the two whitelists, the sign of a hold and the size of an
\* amount are not looked at.
Accepts(a) ==
  /\ prompt_wallet(a)
  /\ \A k \in {a.satochip, a.mobile, a.server} : prompt_key(k, a.network)
  /\ a.ntfy # Nothing \/ a.smtp # Nothing
  /\ a.nostr_transport # Nothing => prompt_nostr(a.nostr_transport)

\* The answers it collects: two numbers are typed as u64 and narrowed.
run_interactive(a) ==
  [a EXCEPT !.gap_limit = @ % U32,
            !.smtp = IF @ = Nothing THEN @ ELSE [@ EXCEPT !.port = @ % U16]]

-----------------------------------------------------------------------------
(* Files cut short. *)

\* A table that ends after one of its lines, or inside the digits of a number;
\* a cut anywhere else leaves a line that does not parse.
CutTable(t) ==
  LET lines == SelectSeq(Lines(t.name), LAMBDA f : Has(t.fields, f))
      First(n) == Restrict(t.fields, {lines[i] : i \in 1..n})
  IN {Table(t.name, First(n)) : n \in 0..(Len(lines) - 1)}
     \cup {Table(t.name, [First(c[1]) EXCEPT ![lines[c[1]]] = @ \div 10^c[2]]) :
             c \in {c \in (1..Len(lines)) \X (1..9) :
                      /\ lines[c[1]] \in Numbers
                      /\ t.fields[lines[c[1]]] >= 10^c[2]}}

\* The one text that stands for all those that do not load.
Garbled == <<>>

\* What a write that did not finish may leave; the last of it may be missing
\* from the disk only.
Remains(text) ==
  LET before(i) == SubSeq(text, 1, i - 1) IN
  {Garbled, text} \cup
  {p \in UNION {{before(i)}
                 \cup {before(i) \o <<t>> : t \in CutTable(text[i])} :
                   i \in DOMAIN text} : Loads(p)}

-----------------------------------------------------------------------------
(* What cosigner serve does before it listens. *)

NoKey == [key |-> Nothing, whole |-> FALSE, by |-> "nobody"]

\* ServerSigningKey::load, of an account key: [key, whole, by].
KeyMatches(text, xprv, env_xprv) ==
  LET signing == Section(text, "server_signing")
      raw == IF Has(signing, "xprv_file") THEN xprv ELSE env_xprv
  IN /\ raw.whole
     /\ raw.key = Section(text, "keys.server").xpub.key

\* SmtpNotifier::new, from MultiNotifier::from_config.
MailboxesParse(text) ==
  "notify.smtp" \in Names(text) =>
    LET smtp == Section(text, "notify.smtp")
    IN smtp.from \in Mailbox /\ smtp.to \in Mailbox

\* The cookie is read when the client is made; the node is not asked yet.
bitcoind_client(b) ==
  /\ b.rpc_url \in RpcUrl
  /\ Has(b, "rpc_cookie_file") => b.rpc_cookie_file \in CookieFile

\* [policy] as serde_json writes it, which has no infinite number.
policy_json(text) ==
  [Section(text, "policy") EXCEPT
     !["max_fee_rate"] = IF @ = "inf" THEN "null" ELSE @]

\* The policy of the first start of all stays in the ledger.
load_or_seed_policy_state(row, text) ==
  IF row = Nothing THEN policy_json(text) ELSE row

\* serde_json::from_str into a PolicyConfig, and compile.
Reads(row, network) ==
  row.max_fee_rate # "null" /\ ValidWhitelist(row, network)

\* All there is to pass before the ledger is open.
opens_ledger(text, xprv, env_xprv) ==
  /\ Loads(text)
  /\ {"bitcoind", "server", "server_signing", "policy", "notify"}
       \subseteq Names(text)
  /\ Has(Section(text, "server"), "ledger_db_path")
  /\ KeyMatches(text, xprv, env_xprv)
  /\ MailboxesParse(text)
  /\ bitcoind_client(Section(text, "bitcoind"))
  /\ Section(text, "server").ledger_db_path \in LedgerPath

\* What listens then: with the policy the ledger has, or is given.
listens(text, row) ==
  /\ Reads(load_or_seed_policy_state(row, text),
           Section(text, "wallet").network)
  /\ Section(text, "server").bind_addr \in BindAddr
=============================================================================
