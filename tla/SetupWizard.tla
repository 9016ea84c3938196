----------------------------- MODULE SetupWizard ------------------------------
(***************************************************************************)
(* First run: docker-entrypoint.sh starts the browser wizard (setup.rs)     *)
(* while there is no wallet.toml, and cosigner serve once there is one.     *)
(* Several browser tabs may have a request at the wizard.  The process, or  *)
(* the machine, may end between any two steps and inside a write; a write   *)
(* may fail.  Either way the file may be left cut short.                    *)
(*                                                                          *)
(* In finish_handler nothing is awaited once it has the lock, so no other   *)
(* handler that takes the lock runs before it ends; the two file writes are *)
(* still steps of their own, because the process may end between them.      *)
(***************************************************************************)
EXTENDS WalletConfig

CONSTANTS
  Tab,             \* the requests that may be at the wizard at a time
  FreshKey,        \* the keys the generator may come up with
  FreshPrint(_),   \* their master fingerprints
  ServerDepth,     \* the steps of default_derivation_path
  Requests,        \* the forms users may send
  Environments,    \* what the container may be started with
  Bounds(_)        \* the bounds of the instance in an environment: the tabs,
                   \* generated keys, scripts, exports and lost disks it has

ASSUME SetupAssumption ==
  FreshKey \subseteq Key /\ \A k \in FreshKey : FreshPrint(k) \in Fingerprint

VARIABLES
  env,        \* the container's environment, and the chain its node serves
  mode,       \* "down", "setup" or "serve"
  toml,       \* config/wallet.toml: [text, by], or NoFile
  xprv,       \* config/server.xprv: [key, whole, by], or NoKey
  stored,     \* per ledger its policy_state.policy_json, or Nothing
  generated,  \* the SERVER key in memory, or Nothing
  tab,        \* per request: [pc, form, text]
  leaving,    \* whether the wizard has been told to shut down
  serving,    \* the file serve has loaded, or NoFile
  made,       \* history: the keys generated so far
  standing    \* history: the pair last answered for, while nobody changed it

files   == <<toml, xprv>>
process == <<mode, generated, tab, leaving, serving>>
history == <<made, standing>>

NoFile == [text |-> Garbled, by |-> "nobody"]

Idle == [pc |-> "idle", form |-> Nothing, text |-> Garbled]

SetupInit ==
  /\ env \in Environments
  /\ mode = "down" /\ toml = NoFile /\ xprv = NoKey
  /\ stored = [path \in LedgerPath |-> Nothing]
  /\ generated = Nothing /\ tab = [t \in Tab |-> Idle] /\ leaving = FALSE
  /\ serving = NoFile
  /\ made = {} /\ standing = {}

-----------------------------------------------------------------------------
(* The start of the container, and of a host's own serve. *)

\* cmd_setup's reading of --network.
SetupNetwork(e) ==
  LET name == IF e.app_network # Nothing THEN e.app_network ELSE e.network
  IN CASE name \in {"mainnet", "bitcoin", "main"} -> "mainnet"
       [] name \in {"testnet", "testnet4", "test"} -> "testnet"
       [] OTHER -> name

\* The entrypoint's check against what Umbrel announces.
AnnouncedNetwork(e) ==
  IF e.app_network = "testnet4" THEN "testnet" ELSE e.app_network

NetworkAgrees(e, text) ==
  e.app_network # Nothing /\ "wallet" \in Names(text) =>
    Section(text, "wallet").network = AnnouncedNetwork(e)

Auth(e) ==
  IF e.cookie # Nothing
  THEN [rpc_cookie_file |-> e.cookie]
  ELSE [rpc_user |-> e.user, rpc_password |-> e.password]

\* The entrypoint has what it needs to write [bitcoind].
Wired(e) ==
  /\ e.rpc_url # Nothing
  /\ e.cookie # Nothing \/ (e.user # Nothing /\ e.password # Nothing)

\* COSIGNER_GAP_LIMIT goes into the text as it is, whatever it says.
GapLimit(e) == IF e.gap_limit = Nothing THEN 1000 ELSE e.gap_limit

generated_toml(e, text) ==
  text \o DeploymentTables(e.rpc_url, Auth(e), e.bind_addr, GapLimit(e),
                           "ledger")

\* The text serve is given, once the entrypoint has let it pass.
ServedText(e, text) == IF e.container THEN generated_toml(e, text) ELSE text

LedgerOf(whole) == Section(whole, "server").ledger_db_path

Opens(e, text, key) ==
  /\ e.container => Wired(e) /\ NetworkAgrees(e, text)
  /\ \E whole \in {ServedText(e, text)} : opens_ledger(whole, key, e.env_xprv)

Boots(e, text, key, rows) ==
  /\ Opens(e, text, key)
  /\ \E whole \in {ServedText(e, text)} : listens(whole, rows[LedgerOf(whole)])

Seeds(whole) ==
  stored' = [stored EXCEPT
               ![LedgerOf(whole)] = load_or_seed_policy_state(@, whole)]

\* Mutant: the wizard is started although there is a wallet.
StartSetupAgain ==
  /\ mode = "down" /\ env.container
  /\ SetupNetwork(env) \in Networks
  /\ mode' = "setup"
  /\ UNCHANGED <<env, files, generated, tab, leaving, serving, history>>

StartSetup ==
  /\ mode = "down" /\ env.container /\ toml = NoFile
  /\ SetupNetwork(env) \in Networks
  /\ mode' = "setup"
  /\ UNCHANGED <<env, files, generated, tab, leaving, serving, history>>

\* A start that is refused ends, and Docker tries again.
StartServe ==
  /\ mode = "down" /\ toml # NoFile
  /\ Boots(env, toml.text, xprv, stored)
  /\ Seeds(ServedText(env, toml.text))
  /\ mode' = "serve"
  /\ serving' = toml
  /\ UNCHANGED <<env, files, generated, tab, leaving, history>>

\* One that has opened its ledger and does not get to listen, by what it finds
\* there or by a crash, has left its policy in it.
StartEnds ==
  /\ mode = "down" /\ toml # NoFile
  /\ Opens(env, toml.text, xprv)
  /\ Seeds(ServedText(env, toml.text))
  /\ UNCHANGED <<env, files, process, history>>

\* The container is created anew, by hand or because Umbrel's node has moved.
Reconfigure ==
  /\ mode = "down"
  /\ env' \in {e \in Environments : Bounds(e) = Bounds(env)}
  /\ UNCHANGED <<files, process, history>>

-----------------------------------------------------------------------------
(* The wizard's handlers. *)

LockFree == \A t \in Tab : tab[t].pc \notin {"key", "toml"}

\* server_key_handler: whichever tab asks, one key is kept.
server_key ==
  /\ mode = "setup" /\ ~leaving /\ LockFree
  /\ Cardinality(made) < Bounds(env).keys
  /\ \E k \in FreshKey \ made : generated' = k /\ made' = made \cup {k}
  /\ UNCHANGED <<env, files, mode, tab, leaving, serving, standing>>

\* finish_handler, up to its wait for the lock.
finish_check(t, form) ==
  /\ t \in Bounds(env).tabs
  /\ mode = "setup" /\ ~leaving /\ tab[t].pc = "idle"
  /\ toml = NoFile
  /\ ValidKey(form.satochip, SetupNetwork(env))
  /\ ValidKey(form.mobile, SetupNetwork(env))
  /\ tab' = [tab EXCEPT
               ![t] = [pc |-> "check", form |-> form, text |-> Garbled]]
  /\ UNCHANGED <<env, files, mode, generated, leaving, serving, history>>

\* The key origin of the generated key, and build_answers.
ServerKeyOf(k, network) ==
  [master_fingerprint |-> FreshPrint(k), derivation_path |-> ServerDepth,
   xpub |-> [key |-> k, kind |-> xpub_network_kind(network),
             depth |-> ServerDepth]]

build_answers(e, form, k) ==
  [network |-> SetupNetwork(e), timelock_blocks |-> form.timelock_blocks,
   satochip |-> form.satochip, mobile |-> form.mobile,
   server |-> ServerKeyOf(k, SetupNetwork(e)),
   server_signing |-> [xprv_file |-> "server.xprv"],
   bitcoind_rpc_url |-> e.rpc_url,
   bitcoind_auth |-> [rpc_user |-> e.user, rpc_password |-> e.password],
   bind_addr |-> e.bind_addr, gap_limit |-> 1000, ledger_db_path |-> "ledger",
   max_sat |-> form.max_sat, max_fee_rate |-> "finite",
   destination_whitelist |-> {},
   notify |-> [hold_seconds |-> form.hold_seconds,
               sweep_interval_seconds |-> 30,
               renotify_interval_seconds |-> 3600],
   ntfy |-> IF form.ntfy_url = "" THEN Nothing ELSE [url |-> form.ntfy_url],
   smtp |-> form.smtp,
   recovery_hold_seconds |-> form.recovery_hold_seconds,
   recovery_destination_whitelist |-> {}, nostr_transport |-> Nothing]

HasChannel(form) ==
  \/ form.ntfy_url # ""
  \/ form.smtp # Nothing /\ form.smtp.host # "" /\ form.smtp.to # ""

\* What finish asks of the form and the key before it writes.
FinishAccepts(form, text) ==
  /\ generated # Nothing
  /\ form.timelock_blocks # 0
  /\ HasChannel(form)
  /\ Cardinality({form.satochip.xpub, form.mobile.xpub,
                  ServerKeyOf(generated, SetupNetwork(env)).xpub}) = 3
  /\ Loads(text)

\* Mutant: the lock is not awaited.
finish_renderUnlocked(t) ==
  /\ tab[t].pc = "check"
  /\ LET text == render_user_toml(build_answers(env, tab[t].form, generated)) IN
     tab' = [tab EXCEPT ![t] =
               IF FinishAccepts(tab[t].form, text)
               THEN [pc |-> "key", form |-> Nothing, text |-> text]
               ELSE Idle]
  /\ UNCHANGED <<env, files, mode, generated, leaving, serving, history>>

finish_render(t) ==
  /\ tab[t].pc = "check" /\ LockFree
  /\ \E answers \in {build_answers(env, tab[t].form, generated)} :
     \E text \in {render_user_toml(answers)} :
       tab' = [tab EXCEPT ![t] =
                 IF FinishAccepts(tab[t].form, text)
                 THEN [pc |-> "key", form |-> Nothing, text |-> text]
                 ELSE Idle]
  /\ UNCHANGED <<env, files, mode, generated, leaving, serving, history>>

KeyFile(whole) == [key |-> generated, whole |-> whole, by |-> "setup"]

\* Mutant: the file is created if need be, not only if there is none.
write_keyOver(t) ==
  /\ tab[t].pc = "key"
  /\ xprv' = KeyFile(TRUE)
  /\ tab' = [tab EXCEPT ![t].pc = "toml"]
  /\ UNCHANGED <<env, toml, mode, generated, leaving, serving, history>>

\* write_private refuses a path that exists.
write_key(t) ==
  /\ tab[t].pc = "key"
  /\ IF xprv = NoKey
     THEN xprv' = KeyFile(TRUE) /\ tab' = [tab EXCEPT ![t].pc = "toml"]
     ELSE UNCHANGED xprv /\ tab' = [tab EXCEPT ![t] = Idle]
  /\ UNCHANGED <<env, toml, mode, generated, leaving, serving, history>>

write_key_fails(t) ==
  /\ tab[t].pc = "key" /\ xprv = NoKey
  /\ xprv' \in {NoKey, KeyFile(FALSE)}
  /\ tab' = [tab EXCEPT ![t] = Idle]
  /\ UNCHANGED <<env, toml, mode, generated, leaving, serving, history>>

write_toml(t) ==
  /\ tab[t].pc = "toml" /\ toml = NoFile
  /\ toml' = [text |-> tab[t].text, by |-> "setup"]
  /\ generated' = Nothing
  /\ standing' = standing \cup {[text |-> tab[t].text, key |-> generated]}
  /\ tab' = [tab EXCEPT ![t] = Idle]
  /\ UNCHANGED <<env, xprv, mode, leaving, serving, made>>

\* The error path takes the key file away again, if that succeeds.
write_toml_fails(t) ==
  /\ tab[t].pc = "toml"
  /\ \/ UNCHANGED toml
     \/ /\ toml = NoFile
        /\ \E rest \in Remains(tab[t].text) :
             toml' = [text |-> rest, by |-> "setup"]
  /\ xprv' \in {NoKey, xprv}
  /\ tab' = [tab EXCEPT ![t] = Idle]
  /\ UNCHANGED <<env, mode, generated, leaving, serving, history>>

\* start_handler.
start ==
  /\ mode = "setup" /\ toml # NoFile
  /\ leaving' = TRUE
  /\ UNCHANGED <<env, files, mode, generated, tab, serving, history>>

-----------------------------------------------------------------------------
(* The end of a process. *)

Ended ==
  /\ mode' = "down" /\ generated' = Nothing /\ leaving' = FALSE
  /\ tab' = [t \in Tab |-> Idle] /\ serving' = NoFile

\* The graceful shutdown waits for the requests it has accepted.
Exit ==
  /\ leaving /\ \A t \in Tab : tab[t].pc = "idle"
  /\ Ended
  /\ UNCHANGED <<env, files, history>>

Crash ==
  /\ mode # "down"
  /\ Ended
  /\ UNCHANGED <<env, files, history>>

\* ... and inside a write.
CrashInKey(t) ==
  /\ tab[t].pc = "key" /\ xprv = NoKey
  /\ xprv' = KeyFile(FALSE)
  /\ Ended
  /\ UNCHANGED <<env, toml, history>>

CrashInToml(t) ==
  /\ tab[t].pc = "toml" /\ toml = NoFile
  /\ \E rest \in Remains(tab[t].text) : toml' = [text |-> rest, by |-> "setup"]
  /\ Ended
  /\ UNCHANGED <<env, xprv, history>>

Finish(t) ==
  \/ finish_render(t)
  \/ write_key(t) \/ write_key_fails(t) \/ write_toml(t) \/ write_toml_fails(t)

\* Of its steps only the start of serve opens the ledger.
WizardStep ==
  \/ StartSetup \/ Reconfigure
  \/ server_key \/ start \/ Exit \/ Crash
  \/ \E t \in Tab :
       \/ \E form \in Requests : finish_check(t, form)
       \/ Finish(t) \/ CrashInKey(t) \/ CrashInToml(t)

SetupNext == StartServe \/ StartEnds \/ (WizardStep /\ UNCHANGED stored)
=============================================================================
