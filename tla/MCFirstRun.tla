------------------------------ MODULE MCFirstRun ------------------------------
(***************************************************************************)
(* An instance of RecoveryKit for TLC: two tabs, two generated keys, forms  *)
(* and scripts of every sort, an Umbrel, a plain container and a host.      *)
(***************************************************************************)
EXTENDS RecoveryKit

CONSTANTS satochip, mobile, s1, s2, elsewhere

MCFreshPrint(k) == IF k = s1 THEN "5e1" ELSE "5e2"

MCValidOn(address) ==
  CASE address = "tb1" -> {"testnet", "signet"}
    [] address = "bc1" -> {"mainnet"}
    [] OTHER -> {}

KeyOf(fingerprint, k, kind, depth) ==
  [master_fingerprint |-> fingerprint, derivation_path |-> 4,
   xpub |-> [key |-> k, kind |-> kind, depth |-> depth]]

MCUnquotable == {"to\"pic"}

Card  == KeyOf("5a7", satochip, "test", 4)
Phone == KeyOf("30b", mobile, "test", 4)

Smtp(from) == [host |-> "mail", port |-> 587, username |-> "me",
               password |-> "pw", from |-> from, to |-> "me@x"]

Form ==
  [timelock_blocks |-> 4320, satochip |-> Card, mobile |-> Phone, max_sat |-> 5,
   hold_seconds |-> 900, recovery_hold_seconds |-> 20, ntfy_url |-> "topic",
   smtp |-> Nothing]

\* One that is accepted, and two that are refused: by the key check, and by
\* what finish asks of its text.
MCRequests ==
  {Form,
   [Form EXCEPT !.mobile = KeyOf("30b", mobile, "main", 4)],
   [Form EXCEPT !.ntfy_url = "to\"pic"]}

Script ==
  [network |-> "signet", confirmation |-> "", timelock_blocks |-> 4320,
   satochip |-> Card, mobile |-> Phone,
   server |-> KeyOf("e15", elsewhere, "test", 4),
   server_signing |-> [xprv_file |-> "server.xprv"],
   bitcoind_rpc_url |-> "http",
   bitcoind_auth |-> [rpc_cookie_file |-> "cookie"], bind_addr |-> "local",
   gap_limit |-> U32 + 1, ledger_db_path |-> "ledger",
   max_sat |-> 5, max_fee_rate |-> "finite", destination_whitelist |-> {"tb1"},
   notify |-> [hold_seconds |-> 900, sweep_interval_seconds |-> 5,
               renotify_interval_seconds |-> 21600],
   ntfy |-> [url |-> "topic", auth_token |-> "token"], smtp |-> Nothing,
   recovery_hold_seconds |-> 20, recovery_destination_whitelist |-> {"tb1"},
   nostr_transport |-> Nothing]

MCScripts ==
  {Script,
   [Script EXCEPT !.destination_whitelist = {"bc1"}],
   [Script EXCEPT !.max_fee_rate = "NaN"],
   [Script EXCEPT !.max_fee_rate = "inf"],
   [Script EXCEPT !.network = "mainnet", !.confirmation = "yes"]}

Plain ==
  [container |-> TRUE, app_network |-> Nothing, network |-> "signet",
   rpc_url |-> "http", cookie |-> Nothing, user |-> "u", password |-> "p",
   bind_addr |-> "0.0.0.0", gap_limit |-> Nothing, env_xprv |-> NoKey]

Umbrel(network) == [Plain EXCEPT !.app_network = network, !.cookie = "cookie"]
Host == [Plain EXCEPT !.container = FALSE]

\* A gap limit that is no number, and a node's URL that does not parse.
BadGap == [Plain EXCEPT !.gap_limit = -1]
BadUrl == [Plain EXCEPT !.rpc_url = "node:8332"]

MCEnvironments ==
  {Plain, BadGap, BadUrl, Umbrel("testnet4"), Umbrel("mainnet"), Host}

\* Two tabs, two keys and an operator on Umbrel; an operator on a host; a plain
\* container that is set up, backed up, lost and restored.
MCBounds(e) ==
  CASE e.app_network # Nothing ->
         [tabs |-> Tab, keys |-> 2, scripts |-> {Script}, exports |-> 0,
          losses |-> 0]
    [] e = Host ->
         [tabs |-> {}, keys |-> 0, scripts |-> Scripts, exports |-> 0,
          losses |-> 1]
    [] e \in {Plain, BadGap, BadUrl} ->
         [tabs |-> {CHOOSE t \in Tab : TRUE}, keys |-> 1, scripts |-> {},
          exports |-> 1, losses |-> 1]
=============================================================================
