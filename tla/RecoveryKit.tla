----------------------------- MODULE RecoveryKit ------------------------------
(***************************************************************************)
(* The life of a box's two files: the wizard (SetupWizard), the commands    *)
(* an operator runs beside it (cosigner init, recovery-kit export, publish, *)
(* fetch and import), the Nostr relays that keep kits, and the loss of the  *)
(* disk.  The operator runs one command at a time; the wizard and the       *)
(* container run on beside it.                                              *)
(*                                                                          *)
(* A kit is the text and the key file's contents, encrypted under the one   *)
(* passphrase everything here uses.  A relay keeps the identity's event of  *)
(* the latest created_at; of two equal ones the smaller id, so either.      *)
(***************************************************************************)
EXTENDS SetupWizard

CONSTANTS
  Relay,
  Scripts,      \* the answers operators may give to cosigner init
  OperatorKey,  \* SERVER keys made elsewhere, which operators may install
  MaxSecond     \* bound on the created_at of an event

ASSUME KitAssumption ==
  /\ OperatorKey \subseteq Key \ FreshKey
  /\ MaxSecond \in Nat

VARIABLES
  op,       \* the command that is between two of its steps, or "none"
  kit,      \* the armored file the operator holds, or NoKit
  relays,   \* per relay the event it keeps: [kit, at]
  last,     \* history: when a kit was last published, and who took it
  exports, losses

nostr == <<relays, last>>
kits  == <<op, kit, exports, losses, nostr>>
vars  == <<env, files, stored, process, history, kits>>

NoKit == [text |-> Garbled, key |-> Nothing, whole |-> FALSE, stands |-> FALSE]

NoEvent == [kit |-> NoKit, at |-> -1]

Init ==
  /\ SetupInit
  /\ op = "none" /\ kit = NoKit
  /\ relays = [r \in Relay |-> NoEvent]
  /\ last = [at |-> -1, takers |-> {}]
  /\ exports = 0 /\ losses = 0

-----------------------------------------------------------------------------
(* cosigner init. *)

\* Without --force it looks once, before the prompts.
init_check ==
  /\ Bounds(env).scripts # {}
  /\ op = "none"
  /\ \E force \in BOOLEAN : force \/ toml = NoFile
  /\ op' = "init"
  /\ UNCHANGED <<env, files, process, history, kit, nostr, exports, losses>>

InitText(script) == render_toml(run_interactive(script))

init_write(script) ==
  /\ op = "init" /\ script \in Bounds(env).scripts /\ Accepts(script)
  /\ op' = "none"
  /\ IF Loads(InitText(script))
     THEN /\ \E text \in {InitText(script)} \cup Remains(InitText(script)) :
               toml' = [text |-> text, by |-> "init"]
          /\ standing' = {}
     ELSE UNCHANGED <<toml, standing>>
  /\ UNCHANGED <<env, xprv, process, made, kit, nostr, exports, losses>>

\* The operator puts the account key of a SERVER made elsewhere in place.
place_key ==
  /\ op = "none" /\ ~env.container
  /\ \E k \in OperatorKey : xprv' = [key |-> k, whole |-> TRUE, by |-> "hand"]
  /\ standing' = {}
  /\ UNCHANGED <<env, toml, process, made, kits>>

-----------------------------------------------------------------------------
(* cosigner recovery-kit. *)

\* The pair is not checked against itself: any text that loads, with whatever
\* the key file holds.
export ==
  /\ exports < Bounds(env).exports /\ exports' = exports + 1
  /\ op = "none" /\ toml # NoFile
  /\ Loads(toml.text)
  /\ xprv # NoKey
  /\ kit' = [text |-> toml.text, key |-> xprv.key, whole |-> xprv.whole,
             stands |-> standing # {}]
  /\ UNCHANGED <<env, files, process, history, op, nostr, losses>>

Newest(events) == {e \in events : \A other \in events : other.at <= e.at}

\* publish: some relays take the event, none is an error.  It is made in the
\* second of the one before, or later.
publish ==
  /\ op = "none" /\ kit # NoKit
  /\ \E takers \in SUBSET Relay \ {{}} :
     \E at \in {last.at, last.at + 1} \cap 0..MaxSecond :
       LET event == [kit |-> kit, at |-> at] IN
       /\ relays' \in [Relay -> {relays[r] : r \in Relay} \cup {event}]
       /\ \A r \in Relay : relays'[r] \in
            IF r \in takers THEN Newest({relays[r], event}) ELSE {relays[r]}
       /\ last' = [at |-> at, takers |-> takers]
  /\ UNCHANGED <<env, files, process, history, op, kit, exports, losses>>

\* Mutant: whichever event comes first.
FoundFirst(answering) == {relays[r] : r \in answering} \ {NoEvent}

\* What fetch takes when these relays answer in time: of all events the newest.
Found(answering) == Newest({relays[r] : r \in answering} \ {NoEvent})

fetch ==
  /\ op = "none"
  /\ \E answering \in SUBSET Relay : \E e \in Found(answering) : kit' = e.kit
  /\ UNCHANGED <<env, files, process, history, op, nostr, exports, losses>>

\* import without --force looks for both files, then writes them in turn.
import_check ==
  /\ op = "none" /\ kit # NoKit
  /\ toml = NoFile /\ xprv = NoKey
  /\ op' = "import_config"
  /\ UNCHANGED <<env, files, process, history, kit, nostr, exports, losses>>

import_config ==
  /\ op = "import_config"
  /\ op' = "import_key"
  /\ toml' = [text |-> kit.text, by |-> "import"]
  /\ standing' = {}
  /\ UNCHANGED <<env, xprv, process, made, kit, nostr, exports, losses>>

\* The pair stands, unless a finish has just put its own key there and will
\* take the key file away when it finds this wallet.toml.
import_key ==
  /\ op = "import_key"
  /\ op' = "none"
  /\ xprv' = [key |-> kit.key, whole |-> kit.whole, by |-> "import"]
  /\ standing' = IF kit.stands /\ LockFree /\ toml.by = "import"
                 THEN {[text |-> kit.text, key |-> kit.key]}
                 ELSE {}
  /\ UNCHANGED <<env, toml, process, made, kit, nostr, exports, losses>>

\* A command ends between its steps, or import inside a write.
quit ==
  /\ op # "none"
  /\ op' = "none"
  /\ \/ UNCHANGED <<files, standing>>
     \/ /\ op # "init" /\ standing' = {}
        /\ IF op = "import_config"
           THEN /\ \E rest \in Remains(kit.text) :
                     toml' = [text |-> rest, by |-> "import"]
                /\ UNCHANGED xprv
           ELSE /\ xprv' = [key |-> kit.key, whole |-> FALSE, by |-> "import"]
                /\ UNCHANGED toml
  /\ UNCHANGED <<env, process, made, kit, nostr, exports, losses>>

-----------------------------------------------------------------------------
(* The world. *)

\* The box is gone, with the kits that never left it.
LoseDisk ==
  /\ losses < Bounds(env).losses /\ losses' = losses + 1
  /\ toml' = NoFile /\ xprv' = NoKey /\ kit' = NoKit /\ op' = "none"
  /\ stored' = [path \in LedgerPath |-> Nothing]
  /\ standing' = {}
  /\ Ended
  /\ UNCHANGED <<env, made, exports, nostr>>

Operator ==
  \/ init_check \/ \E script \in Scripts : init_write(script)
  \/ place_key \/ export \/ publish \/ fetch
  \/ import_check \/ import_config \/ import_key \/ quit

Next ==
  \/ SetupNext /\ UNCHANGED kits
  \/ Operator /\ UNCHANGED stored
  \/ LoseDisk

Spec == Init /\ [][Next]_vars

\* Docker restarts the container until a start that can succeed does; a finish
\* gets the lock and then on to its first write, where it ends if another has
\* answered.
FairSpec ==
  /\ Spec
  /\ WF_vars((StartServe \/ (Exit /\ UNCHANGED stored)) /\ UNCHANGED kits)
  /\ \A t \in Tab : WF_vars((finish_render(t) \/ write_key(t))
                             /\ UNCHANGED <<stored, kits>>)

-----------------------------------------------------------------------------
(* Properties. *)

\* One finish at a time is past the lock, only a wizard that runs has requests,
\* and only a process that serves has loaded a wallet.
TypeOK ==
  /\ mode \in {"down", "setup", "serve"} /\ leaving \in BOOLEAN
  /\ leaving => mode = "setup"
  /\ (serving # NoFile) = (mode = "serve")
  /\ generated \in FreshKey \cup {Nothing} /\ made \subseteq FreshKey
  /\ \A t \in Tab :
       /\ tab[t].pc \in {"idle", "check", "key", "toml"}
       /\ tab[t].pc # "idle" => mode = "setup"
       /\ tab[t].pc \in {"key", "toml"} =>
            generated # Nothing
            /\ \A u \in Tab \ {t} : tab[u].pc \notin {"key", "toml"}
  /\ xprv # NoKey => xprv.key \in Key /\ xprv.whole \in BOOLEAN
  /\ op \in {"none", "init", "import_config", "import_key"}

\* The wallet finish has answered with, or import has restored, is the one on
\* the disk until an operator writes a file or the disk is lost: no other tab,
\* regenerated key, crash or failed write of the wizard touches it.
AnsweredWalletStands ==
  \A pair \in standing :
    /\ toml # NoFile /\ toml.text = pair.text
    /\ xprv # NoKey /\ xprv.key = pair.key /\ xprv.whole

\* A container that was set up, or restored, for the network its environment
\* announces by one of Umbrel's names, with strings a TOML string can hold and
\* a gap limit that is a number.
Deployed(text) ==
  /\ env.container /\ Wired(env)
  /\ env.app_network \in Networks \cup {"testnet4", Nothing}
  /\ {env.rpc_url, env.cookie, env.user, env.password, env.bind_addr, "ledger"}
       \cap Unquotable = {}
  /\ GapLimit(env) \in Values("gap_limit")
  /\ Section(text, "wallet").network = SetupNetwork(env)

\* What nobody looked at when the text was written: the mail addresses, the
\* node's URL and cookie, the port, the ledger's place, and the policy that is
\* in it already, if one is.
InOrder(whole) ==
  /\ MailboxesParse(whole)
  /\ bitcoind_client(Section(whole, "bitcoind"))
  /\ Section(whole, "server").bind_addr \in BindAddr
  /\ LedgerOf(whole) \in LedgerPath
  /\ stored[LedgerOf(whole)] # Nothing =>
       Reads(stored[LedgerOf(whole)], Section(whole, "wallet").network)

\* What finish accepted serves once the entrypoint has added its sections, and
\* what init accepted serves as it is with the key it names, if all that is
\* around it is in order.  init takes a fee rate that is infinite, and that one
\* no start gets past once it is in the ledger (wizard.rs:508, main.rs:703-745).
WrittenConfigsServe ==
  /\ \A pair \in standing :
       Deployed(pair.text) /\ InOrder(generated_toml(env, pair.text)) =>
         Boots(env, pair.text, xprv, stored)
  /\ \A script \in Scripts :
       (/\ toml # NoFile /\ toml.by = "init" /\ toml.text = InitText(script)
        /\ Section(toml.text, "policy").max_fee_rate # "inf"
        /\ KeyMatches(toml.text, xprv, env.env_xprv)
        /\ InOrder(toml.text)) =>
          /\ opens_ledger(toml.text, xprv, env.env_xprv)
          /\ listens(toml.text, stored[LedgerOf(toml.text)])

\* The tables that make the wallet and what it signs on the hot path.
Wallet(text) ==
  [name \in KeyTables \cup {"wallet", "server_signing", "policy", "notify"} |->
     Section(text, name)]

\* A text of which this is true comes from a form or from a script.
Answered(Is(_)) ==
  \/ \E e \in Environments, form \in Requests, k \in made :
       Is(render_user_toml(build_answers(e, form, k)))
  \/ \E script \in Scripts : Is(InitText(script))

\* A process never serves a wallet or a hold nobody agreed to, and no start, not
\* even one that ends, leaves caps in a ledger that nobody agreed to: a file cut
\* short, by either front end or by import, that still opens a ledger has lost
\* no more than channels, [recovery] and [nostr_transport].
ServedWalletWasAgreed ==
  /\ serving # NoFile =>
       Answered(LAMBDA text : Wallet(serving.text) = Wallet(text))
  /\ \A path \in LedgerPath : stored[path] # Nothing =>
       Answered(LAMBDA text : stored[path] = policy_json(text))

\* Whichever relays answer a fetch, if one of them took the last kit it is
\* found, or one of the same second: never what a relay that missed it holds
\* (nostr_kit.rs:141-147).
FetchFindsTheLastKit ==
  \A answering \in SUBSET Relay :
    answering \cap last.takers # {} =>
      \A e \in Found(answering) : e.at >= last.at

Ready ==
  \E pair \in standing :
    Deployed(pair.text) /\ InOrder(generated_toml(env, pair.text))

\* Once the wizard has answered and was told to start, or has ended, or the
\* files are restored, the wallet is served, unless somebody interferes.
AnsweredWalletServes ==
  Ready /\ (mode = "down" \/ leaving) ~> mode = "serve" \/ ~Ready
=============================================================================
