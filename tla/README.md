# A TLA+ model of the Bitme co-signer

Bitme Cosigner (`src/bitme-cosigner`, Rust) holds one key of a 2-of-3 Bitcoin
wallet. It signs a spend only after the spending policy allowed it, the owner
was told, and a hold has passed in which it could be vetoed. This directory
models that service in TLA+, from its first start to the coin that leaves the
wallet, checks small instances with TLC, and proves the main results for every
instance with TLAPS.

    tlc -workers 2 -config queue_safety.cfg MCSpendQueue     # one run
    tlapm SpendQueueProofs.tla                               # one proof

`PROJECT.json` lists the components, the runs, the source lines each definition
stands for, the hazards and the theorems.

## 1. The system

| Part (source) | State it keeps | Operations | Talks to |
|---|---|---|---|
| Sign queue (`sign.rs`) | rows of `pending_signatures`, in memory only what a call has read | `submit_for_signing`, `sweep_due`, `process_due_pending_row`, `decide_and_sign`, `renotify_pending` | ledger, inspection, policy engine, signing, notifier |
| Ledger (`ledger.rs`) | SQLite tables `ledger`, `pending_signatures`, `policy_state`, `freeze_state`, `nostr_seen_events` | one query, or a `LedgerTx` with its commit or rollback, on a pool of one connection | everyone above it |
| Policy engine (`policy.rs`) | none | `compile`, `evaluate_policy`, `evaluate_recovery_policy` | the rolling totals of the ledger |
| HTTP API (`http.rs`) | `AppState`: the wallet, the keys, the policy handle behind a lock | `/sign_psbt`, `/veto/{id}`, `/freeze`, `/unfreeze`, `/policy`, read-only `GET`s | sign queue, policy authorization, ledger |
| Policy authorization (`policy_auth.rs`) | the row of `policy_state` | `apply_policy_change`, `verify_unfreeze_authorization` | ledger, the SATOCHIP's signatures |
| Freeze switch (`ledger.rs`, `http.rs`, `main.rs`) | the row of `freeze_state`: frozen, generation | freeze, unfreeze by signature, `cosigner unfreeze` on the server | sign queue reads it |
| Service process (`main.rs`) | the sweeper's task | `serve`, `spawn_sweeper`, the one-shot commands | all of the above |
| Inspection (`inspect.rs`), signing (`signing.rs`) | none | classify a PSBT's inputs and outputs; sign the SERVER's inputs | chain access |
| Chain access (`chain.rs`), notification (`notify.rs`) | none | look up a prevout; deliver a notice on every channel | bitcoind; ntfy, SMTP |
| Descriptor, invariants (`descriptor.rs`, `invariants.rs`) | none | build the descriptor; check its key thresholds, on `descriptor build` and `check` | configuration |
| Nostr transport (`nostr_transport.rs`) | `nostr_seen_events` | each gift-wrapped message becomes a request to the same router | relays, HTTP API |
| Recovery kit (`recovery_kit.rs`, `nostr_kit.rs`) | files, relay events | export, import, publish, fetch | relays |
| Key replacement (`migrate.rs`) | none | build a sweep PSBT | descriptor |
| Setup (`setup.rs`, `wizard.rs`, `docker-entrypoint.sh`) | a generated key in memory; `server.xprv`, `wallet.toml` | the browser wizard or `cosigner init`; a restart into `serve` | configuration |
| Configuration (`config.rs`), status page (`status_page.rs`) | none | load and validate; render | |

What is hard here is not any one function. Between two ledger transactions,
handlers and the sweeper wait for inspection, notices and locks. While they do:

- a veto, a freeze, a policy change or another submission of the same
  transaction commits;
- the process crashes, or a client hangs up, which drops its handler at the
  `await` it is at;
- the hold that one request started runs out while its notice is still under
  way.

What each part must get right: the queue, that nothing is signed early, twice,
under a freeze or after a veto; the ledger, that its record agrees with the
queue; the policy engine, that spends held side by side stay within the caps
together; policy authorization, that the rules in force are ones the owner signed
and no old signature works twice; the freeze, that an old authorization does not
lift a new freeze; the sweeper, that one bad spend does not stop the others; the
Nostr inbox, that no message is acted on twice and none is lost but to a fault;
the descriptor check, that its report means what consensus does; inspection, that
no PSBT gets around the caps by what it claims of amounts and owners, nor a coin
younger than the timelock by the signatures it shows (an older one is judged on
the path its entries name, and can at most be moved to the recovery whitelist
without the caps); the sweep, that a lost device never locks the coins; setup,
that a wallet once answered for stands and is the one that serves; the recovery
kit, that a fetch finds the last one. The hazards, each at its line, are in
`PROJECT.json`.

## 2. The modules

| Module | What it is |
|---|---|
| `PolicyEngine` | `policy.rs` and the rolling totals of `ledger.rs`, as operators |
| `SpendQueue` | the queue: requests, operator, sweeper, clock, crashes; its properties |
| `SpendLifecycle` | what the queue promises of a spend, abstractly |
| `SpendQueueRefinement` | the mapping under which the queue implements it |
| `SpendQueueLiveness` | the queue with the sweeper's fairness |
| `FreezeSwitch` | the freeze, its generation, and lifting it |
| `PolicyAuth` | `policy_state`, the policy handle, and authorized changes |
| `NostrInbox` | the gift wraps, the seen table, dispatch and replies, restarts |
| `DescriptorPolicy` | the wallet's policy as clauses, the five checks of `invariants.rs`, and what they promise |
| `Inspection` | `inspect.rs` and the sighash check of `signing.rs`, as operators on PSBTs |
| `Sweep` | `migrate.rs`, as operators |
| `SpendPaths` | descriptor, drafts, sweeps, devices, service and network together |
| `WalletConfig` | `wallet.toml`: parsing, validation, both renderings, files cut short, what `serve` asks |
| `SetupWizard` | the entrypoint, the browser wizard and its two writes |
| `RecoveryKit` | the wizard with `init`, the kit commands, relays and a lost disk |
| `MCSpendQueue`, `MCSpendQueueLiveness`, `MCPolicyAuth`, `MCNostrInbox`, `MCSpendPaths`, `MCFirstRun` | instances for TLC |
| `SpendQueueProofs`, `SpendQueueRefinementProofs`, `FreezeSwitchProofs`, `PolicyAuthProofs`, `NostrInboxProofs`, `SpendPathsProofs`, `SetupProofs` | theorems |
| `SumProofs` | lemmas on the sums over sets and sequences that the models take |

**SpendQueue.** `now` is the clock; `ledger`, `pending` and `frozen` are the
tables; `policy` is the handle in memory. Each request has a program counter
`pc[c]` and what it has read, `req[c]`. The sweeper has `spc`, the rows left in
its pass `due`, the row in hand `row`, and `snap`, the clock and policy of the
pass. The grain of atomicity is the code's: the pool has one connection, so one
`LedgerTx` or one query is one step. A request goes `idle` -> `freeze_check` ->
`ledger_tx` -> `notify` (-> `mark_failed`); the sweeper goes `sleep` -> `sweep`
-> `inspect` -> `decide` (-> `mark_failed`) per row, then `remind` (->
`mark_notified`). `Abandon` drops a handler anywhere, `Restart` drops
everything in memory. `notified`, `vetoed` and `interrupted` are history.

A PSBT is its inspection report (txid, path, amount, fee, destinations) and
whether the SERVER can sign it. Several PSBTs may carry one txid. Inspecting is
a step that succeeds, finds the PSBT invalid (a spent input), or errors.

**PolicyEngine.** Evaluation is over the rows of the ledger within the trailing
day, week and month, recovery rows included, as in the code. The recovery path
has its whitelist and the fee caps, and no amount caps.

**FreezeSwitch.** `POST /unfreeze` reads the generation and verifies in one step
(`VerifyUnfreeze`) and clears the freeze in another (`LiftFreeze`), which reads
nothing again. `cosigner unfreeze` is another process on the same database.

**PolicyAuth.** A change commits in one transaction (`Apply`) and reaches the
handle in another step (`Swap`), which the other requests, a client that hangs
up, or a crash may precede. `Start` seeds the row from the config or takes the
row there is. `ToJson` is the conversion on the way to the row: a fee rate cap
that is not finite becomes `null`.

`SpendQueue` has simpler versions of the last two: it lifts a freeze and swaps a
policy in one step each, at any time, which allows every step of the detailed
modules that the queue can see.

**NostrInbox.** `relays` holds the wraps, `current` and `pc` are the one callback
that runs, `seen` is the table, `allowed` the allowlist the process compiled
from `configured`. A callback goes `received` -> `unseen` -> `marked` -> `ran` or
`refused`, one state per `await`. `missed` has the wraps whose callback a ledger
error ended: a relay may send a wrap once per subscription. `ran` and `revoked`
are history.

**SpendPaths.** One descriptor, in use from `Build` on. A PSBT is what
`Inspection` reads of it: outpoints, sequences, claimed prevouts, the roles whose
entry it shows, sighash types, outputs. `signed` has the genuine signatures,
which cover the whole unsigned transaction and which consensus asks for. The
entries of a submitted PSBT are another matter: `inspect.rs:262-264` looks
whether there is one under the phone's or the SERVER's key, nobody verifies it,
and so `Submit` takes any subset of the two in any input (`Showing`), whoever has
signed. A wallet without a recovery whitelist is one whose `RecoveryWhitelist`
has every script; `[recovery]` is enabled. `CoSign` is inspection, judgement,
signing and recording in one step (the holds and races are `SpendQueue`'s),
`Broadcast` is consensus: the sequence against the coin's age, the script against
the sequence, two keys. `lost` is the SATOCHIP or the server. The phone's loss
leaves the pair that spends at once, up to the caps, and is not modelled.

**WalletConfig.** A text is a sequence of tables, a table a name and its fields.
`Parses` and `validate` follow `config.rs` field by field. `Remains` are the
texts a write that did not finish may leave: up to any line, or inside the digits
of a number; a text that does not load at all is one value, `Garbled`.
`opens_ledger` is all that `cmd_serve` asks before its ledger is open: the tables,
the key, the mail addresses, the node's URL and cookie, the ledger's path.
`listens` is what comes after: the policy in the ledger, which is this config's if
there was none, must read back from its JSON and compile, and the port must be
free. `RpcUrl`, `CookieFile`, `LedgerPath` and `BindAddr` are the strings with which
each of these succeeds.

**SetupWizard and RecoveryKit.** `toml` and `xprv` are the two files, each with
who wrote it. A finish request goes `idle` -> `check` -> `key` -> `toml`: up to
the lock, past it, between the writes; each write may fail or be the place of a
crash. The operator's commands are steps of their own where they look first and
write later. `stored` is the policy in each ledger. A start that succeeds
(`StartServe`) or that ends once it has opened the ledger (`StartEnds`) leaves
one there; one that ends earlier changes nothing. The environment has what the
entrypoint pastes into the text, the gap limit included. A `kit` is a text and a
key, `relays` what each relay keeps. `made` and `standing`, the pair that was
answered for or restored, are history.

## 3. The runs

| Run | Shows | Distinct states |
|---|---|---|
| `queue_safety` | vetoes last, holds are served, a freeze stops signing, ledger and queue agree, and the queue implements `SpendLifecycle` | 515 856 |
| `queue_race` | two requests racing one transaction as three PSBTs: queued once and for good; no process acts on a row that is not there; no silent hold | 581 802 |
| `queue_budget` | spends held side by side stay within the caps of the policies, over every window | 1 132 442 |
| `queue_liveness` | one spend that errors forever does not hold up another | 86 440 |
| `freeze_switch` | an old authorization does not lift a freeze that no unfreeze was under way for | 38 228 |
| `policy_changes` | a version is one policy for good; the policy in force is authorized; changes that do not overlap take effect | 2 568 |
| `nostr_inbox` | a request runs at most once; a fault costs one wrap; a revoked npub's history never runs; a sender that keeps at it is answered | 639 294 |
| `spend_paths` | the descriptor check is exact; no young coin leaves but by the caps, and whatever entries a PSBT shows, what the recovery rules do not allow keeps to them; the ledger counts what leaves; sweeps stay signable; a lost device locks no coin | 50 137 |
| `first_run` | an answered wallet stands; what was accepted serves when what is around it is in order, and an answered wallet in the end does; nothing is served or left in a ledger that nobody agreed to; a fetch finds the last kit | 78 324 |

Each property of these runs has a mutant in `PROJECT.json`: a plausible bug in
the modelled code that makes TLC find the property violated.

Three more runs end in a counterexample. Each checks a sentence of the
repository that the code does not keep to:

- `doc_failed_unsigned` - *Failed: never signed, nothing recorded.* A notice
  outlasts the hold, the sweeper signs and records the spend, then the notice
  fails and `mark_pending_failed` overwrites the row without looking at its
  status. A veto is overwritten the same way; it stays without effect on
  signing, which is what `VetoIsPermanent` says.
- `doc_policy_in_force` - *on success, hot-swaps the policy every other handler
  reads.* Two requests may write the handle in the other order than they
  committed, and the older policy is in force until a restart.
- `doc_check_alone` - *no single key, alone, ever satisfies the descriptor [...]
  with an unbounded amount of elapsed time.* The check asks about
  `older(timelock_blocks)` and no other lock: a descriptor with a second, later
  one passes and is one key's from then on. The descriptor that `build` writes
  has no such lock (`DeployedKeepsItsPromise`).

Other places where words and code part, which the models show and no run is
spent on:

- `sign.rs:344`: the row is committed before the notice is sent, so a crash, a
  hang-up or a slow notice makes the signature the first news, against
  `README.md:134-135`. `NoSilentHold` says when it can happen.
- `sign.rs:446`: a row whose inspection was under way when a freeze landed is
  still failed, against `sign.rs:405-406`. It is not signed
  (`FreezeStopsSigning`).
- `http.rs:1153`: a freeze that lands between an unfreeze's verification and its
  write is lifted by a signature for the one before, against
  `policy_auth.rs:74-76`. A freeze that finds no unfreeze under way is not
  (`OldAuthorizationsDoNotLift`).
- `main.rs:737`: `cosigner init` takes `inf` for a fee rate (`wizard.rs:508`) and
  the text loads, although `main.rs:411-413` says a bug of the wizard would surface
  there. The first start stores it as JSON that does not parse and ends, and the
  stored row wins over every later config: no start with that ledger listens until
  the database is edited. `first_run` reaches this, with the script that has `inf`
  and then a good one; `WrittenConfigsServe` speaks of scripts with a finite rate
  and of ledgers whose row reads.
- `inspect.rs:58-59` has a spend on the recovery path when *a MOBILE signature is
  already present*, and `inspect.rs:262-264` asks for an entry only. With one made
  up, an aged coin is judged and held by the recovery rules although the phone has
  not signed, or by the hot ones although it has. `EarlySpendsMetTheCaps` and
  `CapsHoldWhateverIsShown` are what holds regardless.
- `docker-entrypoint.sh:90` pastes `COSIGNER_GAP_LIMIT` as it is: one that is no
  number makes every start fail at a config nobody wrote (`BadGap` in
  `MCFirstRun`).
- `setup.rs:652-653`: wallet.toml *must never exist without the key file*. When
  its write fails part way it stays, and the error path takes the key file.
- `setup.rs:573-576`: *all-or-nothing*. A crash between the writes, or a key
  write that fails part way, leaves a key file that every later finish refuses
  to replace, until somebody removes it.
- `docs/DOCKER.md:122-124` says of a config that `cosigner init` wrote for the
  container that *the wizard won't add* `[bitcoind]` and `[server]`. It does, the
  entrypoint appends them again, and no start parses the result.
  `WrittenConfigsServe` is therefore about init's text as it is and about the
  wizard's in a container.
- `wizard.rs:3-5` has every answer validated where it is typed; whitelist
  addresses, holds and amounts are looked at when the file is validated.
- A config cut short inside the digits of `[recovery] hold_seconds`, its last
  table, loads with a shorter hold than anybody agreed to. `ServedWalletWasAgreed`
  leaves `[recovery]` out for that reason.

**Bounds.** Two requests are enough for the races: every conflict in the code is
between two transactions, and a third request only repeats one of the roles.
Two spends give one to be in hand while the other is due; `queue_budget` has
three, two hot ones that fit the caps apart and not together, and a recovery
spend that fits none. The clock runs to 2 or 3 with holds of 1 and 2 and windows
of 1 to 4, so holds end, rows leave windows, and a pass's clock goes stale
within a run. `queue_budget` leaves out vetoes, freezes, failures and crashes,
each of which only takes spends out of the queue. `MaxGeneration` and
`MaxVersion` are 3: an authorization can be for this freeze, an earlier one and
one long past. Clients, the two hot spends of the budget and the policies of
`MCPolicyAuth` are interchangeable and reduced by symmetry; no run with symmetry
checks liveness.

In `nostr_inbox` a request may be sent three times, for `MaxFaults` is 2: a third
wrap is what gets through when both faults have cost one. In `spend_paths` the
timelock is 2 and ages go to 2, with a coin on each chain, one beyond the gap
limit and one of somebody else's; seven drafts, of which three are refused, each
for its own reason; each is submitted with every subset of entries; two device
signatures and one sweep before a loss, any number after it. Lists to sweep have
each coin once; one that is listed twice is left to the proofs.
Descriptors to check have clauses of every pair and of single keys at locks from
0 to 3 around n of 1 and 2. In `first_run` `Bounds(e)` gives each environment its
part: Umbrel has two tabs, two generated keys and an operator with one script; a
host has five scripts (a good one, one that validation refuses, the fee rates
`nan` and `inf`, and an unconfirmed mainnet), a key of the operator's and a lost
disk; a plain container has one tab and key, one export, a lost disk to restore
from, and may be created anew with a gap limit that is no number or a URL that
does not parse. The races are between two finishes, or a finish and one command.
`MaxTomlInt` and `U32` are small numbers that the instance's answers lie around.

**Fairness.** `FairSpec` has weak fairness of the sweeper's loop, because tokio
polls its task for as long as the process runs, and of the clock. For a spend in
`Reachable` it has strong fairness of the steps that succeed: the node answers
for its inputs, and the ledger works, every now and then. For the other spends
it assumes nothing; they may error at every attempt. It does assume that each
call of the sweeper ends, with an answer or an error. `spawn_sweeper` has no
timeout around inspection and reminders, so a node or a notifier that never
answers stops every spend, and the property would not hold without it.
Restarts and freezes may go on at will; the property is about a service that in
the end stays up and unfrozen.

`nostr_inbox` has weak fairness of the callback and of the start (futures are
polled, Docker restarts), strong fairness of delivering a wrap that this
subscription has not brought yet, since a relay interleaves it with others, and
weak fairness of a sender that has no answer. That the callback goes on assumes
that a dispatched request ends, although `notify.rs:58` sets no timeout on the
notice a `/sign_psbt` waits for; and an error of `run` itself, which ends the task
for good at `main.rs:779-780`, is left out. Crashes are bounded by
`MaxFaults`. `spend_paths` has weak fairness of an owner who recovers: builds the
sweep, has the two other devices sign, submits and broadcasts, while blocks are
found. `first_run` has weak fairness of the container's restarts and of a finish
up to its first write, which runs without waiting once it has the lock; nothing
is assumed of tabs, commands, failures or crashes. A start may end at what it
finds (`StartEnds`) any number of times; that one which can succeed in the end
does is assumed. `Ready` is the precondition of `AnsweredWalletServes`, and has
the things no fairness would justify: the node's URL parses and its cookie file is
there, the ledger opens, the port is free, and a stored policy reads.

## 4. The proofs

| Theorem | States |
|---|---|
| `TypeCorrect`, `ProcessesCoherent` | `[]TypeOK`, `[]Coherent` |
| `QueueingIsFinal` | a queued spend keeps its PSBT and hold |
| `VetoHolds` | `[]VetoIsPermanent` |
| `HoldsAreServed` | `[]SignedAfterHold` |
| `LedgerAndQueueAgree` | `[]LedgerMatchesQueue` |
| `HoldsAreNotSilent` | `[]NoSilentHold` |
| `FreezeStops` | no signature while frozen |
| `HotSpendStaysWithinCaps` | `[]HotSpendWithinCaps` |
| `QueueImplementsLifecycle` | `Spec => ImplementsLifecycle` |
| `FreezeTypesHold`, `FreezesAreNotReplayed` | `[]TypeOK` of the freeze, `[]OldAuthorizationsDoNotLift` |
| `PolicyTypesHold`, `VersionsNeverChange`, `OnlyAuthorizedPolicies`, `ChangesTakeEffect` | `[]TypeOK` of the policy and the three other properties of `policy_changes` |
| `InboxTypesHold`, `RequestsRunAtMostOnce` | `[]TypeOK` of the inbox, `[]RunsAtMostOnce` |
| `RevokedStayOut`, `OneWrapForEachFault` | `RevokedNeverRuns`, `[]EachFaultCostsOneWrap` |
| `DeployedIsAccepted`, `DeployedKeepsItsPromise` | for every timelock, the descriptor `build` writes passes the check, and consensus keeps what the check promises |
| `CheckMeansConsensus`, `CheckIsAlwaysExact` | for every descriptor whose timelocks it asks about, the check's verdict is what consensus does; `[]CheckIsExact` |
| `EarlySpendsAlwaysMetTheCaps`, `CapsAlwaysHold` | `[]EarlySpendsMetTheCaps`, `[]CapsHoldWhateverIsShown` |
| `SpendPathsTypeOK`, `LedgerAlwaysCoversOutflow`, `SweepsAlwaysStaySignable` | `[]TypeOK` of the spend paths, `[]LedgerCoversOutflow`, `[]SweepsStaySignable` |
| `SetupTypesHold`, `AnsweredWalletAlwaysStands` | `[]TypeOK` of the first run, `[]AnsweredWalletStands` |
| `FetchAlwaysFindsTheLastKit` | `[]FetchFindsTheLastKit` |
| `ServedWalletIsAlwaysAgreed`, `WrittenConfigsAlwaysServe` | `[]ServedWalletWasAgreed`, `[]WrittenConfigsServe` |

Every safety property that a passing run checks is stated by one of them. They
hold for any sets of requests, transactions, PSBTs and policies, any holds,
windows and bounds. The assumptions are those of the modules:

- `QueueAssumption`: PSBTs of one txid have the same amount, fee and destinations,
  for a txid names the outputs; holds are not negative, which `config.rs`
  validates;
- `SpendAssumption`: the policy is one that compiled, drafts are what a PSBT can
  be, and the coins there are at first are finitely many with values in `Nat`;
  `GenesisAssumption`: the transactions that made those coins spend no coin of
  the model;
- `ConfigAssumption`: there are finitely many keys, and a `u16` and a `u32` fit
  into a TOML integer;
- `FreezeAssumption`, `PolicyAssumption`, `InboxAssumption`,
  `TimelockAssumption`, `SizeAssumption`, `SetupAssumption` and `KitAssumption`,
  and that `None` is no row: types, and model values that are not data.

*The queue.* Types alone are not inductive: a handler about to fail a row, or a
sweeper with a row in hand, updates a function at a key that must have a row.
`Coherent` says that what each process read earlier still fits the tables, and
needs the types, so the two are proved together (`TypeAndCoherence`). The step
everything rests on is that no transaction deletes a row or changes its PSBT or
hold (`NextKeepsRows`). From it `Safe` adds the ledger's agreement with the
queue, holds served, vetoes and notices; `NextMovesStatus` and `OnlySignRecords`
say which steps move a status and which one records, so each conjunct is one
case analysis over few steps. `FreezeStops` follows because the only recording
step reads the freeze again in its own transaction.

*The caps.* Two spends may each be approved while neither is recorded, so the
argument cannot be about approvals. It is about the step that records:
`decide_and_sign` evaluates the policy against every row there is, in the
transaction that adds its own, at the clock of its pass. `NoneYounger` says that
no row is younger than that clock: a window that ends later has no more rows than
one that ends there, so the caps carry over (`CapsKept`), and a window that ended
earlier does not have the new row.

*Sums.* The library's induction theorems have an operator as parameter, which no
backend here can instantiate. `SumProofs` has its inductions over sets instead: a
set of naturals with 0 that is closed under successor is `Nat`, because its
complement has no least element; a set that has a subset of a finite set whenever
it has that subset less any one element has them all (`SubsetsOneByOne`).
`SumsAddUp` gets the recursion of `SumFunctionOnSet` from that, and the other
lemmas (adding and taking away an element, equal and larger terms, parts, images)
are what the proofs cite.

*The refinement.* `Phase` reads a spend's phase off the ledger first and the
queue second. `VetoIsPermanent` alone would not do: a signed row may be
overwritten as failed, and the spend is signed all the same. Under `Safe` each
step moves one spend by one phase, switches the freeze, passes time, or stutters.

*The freeze.* The invariant adds that a verified request is no older than any
undisturbed freeze, since such a freeze began with no request in flight.

*The policy.* The invariant adds that the row is the last of the accepted ones,
that outcomes are accepted rows, and that until some change overtakes another at
most one request has an outcome, which then is the row (`OneAtATime`).

*The inbox.* `RecordedFirst` orders the awaits: a wrap about to be marked is not
in the table, one that is marked has not run yet, one that ran is in the table
for good. Crashes and starts leave the table alone. `RevokedStaysOff` says that the
list a running process compiled has nobody on it who was off it at a start, for
`wallet.toml` only loses npubs. `FaultsPay` counts the wraps on record that nobody
will answer, one delivered again and not yet looked up among them: every step that
is no fault leaves none behind, and a fault at most the wrap in hand.

*Spend paths.* The invariant ties three parties. `Accounted`: the SERVER signs
only what is recorded, and records only what it approved on a path; what it
approved as a recovery has sequences that wait the timelock out and pays nobody
but the whitelist, whatever entries it was shown, because neither is read off
them. `CapsKept`: the rows approved as hot keep to the caps together, with each
row counting what its transaction pays away. The totals a spend is judged with
include recovery rows as well, so they are never less. `SpendsFit`: by consensus a
young coin has left with the SERVER's key and as hot, and any coin that left with
that key was judged by the caps or keeps the rules of a recovery. The first half
is `EarlySpendsMetTheCaps`. For `CapsHoldWhateverIsShown`, a transaction outside
the recovery rules was approved as hot, so it has a row of its own among the hot
ones (`HotRowsCoverSpends`), and their sum is within the caps. Showing other
entries later changes nothing: a recorded transaction is signed again, and a row
keeps the path it was approved on. The theorems about descriptors need
no invariant: `AtomsAndAges` relates the atoms the analysis asks about to the ages
of a coin, `AloneIsChecked` and `PairsAreChecked` do one key and one pair.

What leaves the wallet and what the ledger has of it are related when a
transaction is recorded, and compared when it is broadcast. Inspection counts the
chain's values and the outputs that the wallet derives itself, so what a report
calls spend and fee is what the transaction takes out as the coins are then.
`CoinsGone` says that outpoints are never reused: a coin is spent
once, and a transaction whose inputs are gone does not come back. So a recorded
row stays true of the coins until it is broadcast (`RowsCover`), and no
transaction is counted twice (`SpendsTyped` has the sums finite). `SweepsFit` is
the same for a sweep: what build-sweep committed to, in terms of the coins that
are still there, with the fee of the sizes it estimated.

*The first run.* `SetupInv` adds to the types and `AnsweredWalletStands` what a
process between two writes relies on. `BetweenWrites`: a finish past its first
write has its own key in the key file as long as there is no wallet.toml, and no
wallet stands; that and `write_private`'s refusal to replace a file are what
keeps one tab from breaking another's pair. `BetweenImports`: an import past its
first write finds its own text, or one that ends what was restored. `KitsOK`: a
kit taken of a standing pair has the whole key, so a restored pair stands again.
`TakersHold`, which needs none of that, says that a relay which took the last kit
holds it or one as new.

*The texts.* What serves was read from a file, which a finish, `init` or an
import wrote, perhaps not to its end, perhaps from a kit of a file that was cut
before. `CutOf` is closed under all that: the same tables up to the last one, of
which the name is right (`CutOfCut`, `RemainsAreCuts`). Each text on the disk, in
a kit or served is a cut of a rendering of somebody's answers (`FilesAgreed`,
`KitsAgreed`), and each policy in a ledger is that of a text which opened it
(`RowsAgreed`). `opens_ledger` asks for `[notify]` and at least one channel, and
every rendering has its channels after everything that makes the wallet and its
caps (`Shaped`, `ChannelsComeLater`), so a cut that opens a ledger has all of
that whole (`OpenedIsAgreed`). It is this order of the tables in `render_toml`
that the theorem rests on. For `WrittenConfigsServe` the invariant follows a form
from the tab to the pair (`FormsOK`, `PairsOK`): the text loaded when finish
accepted it, with the key it was accepted with (`Finished`), `BoxAdded` says what
the entrypoint's two tables add, and `SeedReads` that a finite fee rate survives
its way through the ledger. Its preconditions are what neither front end looks
at. `Deployed`, of the environment: the network it announces is one of Umbrel's
names, its strings are ones that a quoted TOML string can hold, its gap limit is
a `u32`; the entrypoint pastes them without looking. `InOrder`, of what is around
a text: the mail addresses parse, the node's URL does and its cookie can be read,
the ledger opens, the port is free, and a policy stored earlier reads back.

## 5. Only model-checked, and not modelled

Only model-checked: the liveness properties `ReachableSpendsAreResolved`,
`SendersAreAnswered`, `LossIsSurvivable` and `AnsweredWalletServes`, for fairness
and ENABLED are out of the prover's reach.

Left out of the modelled parts: amounts and times near 2^63 and the checked
additions; the clock stepping back; the fee rate as a float (the model has whole
numbers, and a rate rounded up); `sign_psbt`, which the service does not call; a
query for due rows that fails, which is as a pass whose rows all fail; which of
several notification channels failed; statuses and bodies of responses; how a
signer is recovered from a signature; the pool's one connection as a resource (a
transaction is one step, and no caller queries the pool while it holds one).

In `SpendPaths` transactions have version 2, witness sizes are a constant per
input, and signatures are genuine: ECDSA, miniscript's compilation and the
derivation of keys are the libraries'. In the first run strings are what the
checks tell apart; file modes, the QR codes, `check_network` and the page are
left out, and one passphrase is used throughout. `import --force` is left out,
and a completed `import` or `init` is durable in the model, although neither
syncs its files (`main.rs:598-601`, `main.rs:421`). That the policy in the ledger
later changes through the API is `PolicyAuth`'s part. `serve` binds its port
after it has started the sweeper; a bind that fails is a start that ends. Two
publishes in the same second tie, and a fetch may return either;
`FetchFindsTheLastKit` says so. `export` is one step, although it reads
`wallet.toml` twice and the key file after it. That key file and wallet.toml
always match is not a property: when one tab's write of wallet.toml fails, leaves
a whole file and removes its key, another tab that had passed the check for it
may write a regenerated key. `serve` refuses the pair.

Two claims about the queue are broader than what is checked. `ledger.rs` says
every terminal status is reached exactly once, and `sign.rs` says that no path
gets around the freeze check of a submission. The first fails whenever
`doc_failed_unsigned` does. For the second, a freeze between the check and the
submission's transaction leaves the spend queued; what holds, and is proved, is
that it is not signed (`FreezeStopsSigning`).

Not modelled: `status_page.rs` and the read-only handlers of `http.rs` and
`setup.rs`, which change nothing; the schema migration of old databases; test
fixtures and deployment files.

## 6. Plan

Done: the queue with its refinement, fairness and proofs; the freeze and the
policy; the Nostr inbox; descriptor, inspection, signing and sweep up to the
network; setup, configuration, `init` and the recovery kit; a theorem for every
safety property the passing runs check.

Left, in the order of what they would add:

1. `CosignerService`: `SpendQueue` composed with the detailed freeze and policy,
   and `SpendPaths`' one-step decision shown to be what the queue implements.
2. A clock that steps back, and holds near the end of 64 bits, in `SpendQueue`.
3. Notification channels one by one: a notice delivered on one and failed on
   another, and what the reminders then repeat.
