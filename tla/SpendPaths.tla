------------------------------ MODULE SpendPaths ------------------------------
(***************************************************************************)
(* From descriptor to spent coin: the operator checks and builds a          *)
(* descriptor; wallets draft PSBTs, and `migrate build-sweep` builds sweeps;*)
(* the SATOCHIP and the phone sign what their owner wants; the service      *)
(* inspects, classifies, judges and signs; the network accepts whatever     *)
(* consensus allows, whoever sends it.  A device may be lost.               *)
(*                                                                          *)
(* Here a spend is decided in one step: the holds, vetoes and races of the  *)
(* queue are SpendQueue's, and what a report is there is inspect's result   *)
(* here.  A signature covers the whole unsigned transaction, and the network *)
(* asks for genuine ones; the service verifies none of the entries a PSBT   *)
(* has, which are whatever its submitter puts there.  Transactions have     *)
(* version 2, under which a sequence is a relative lock.                    *)
(***************************************************************************)
EXTENDS Sweep, PolicyEngine

CONSTANTS
  Candidates,     \* [policy, n]: descriptors `descriptor check` may be given
  Timelocks,      \* timelock_blocks the wallet may be configured with
  Genesis,        \* the coins there are when the service starts
  Drafts,         \* PSBTs that wallets build, unsigned
  Destination,    \* receive[0] of the replacement wallet
  SweepRequests,  \* sequences of --utxo arguments
  FeeRate,        \* --fee-rate
  Policy,         \* the compiled [policy]
  RecoveryWhitelist,
  MaxAge,         \* confirmations are counted up to here
  MaxSignatures,  \* bounds on the signatures devices make and the sweeps
  MaxSweeps,      \* built, before a device is lost
  Nothing         \* no wallet, no report, no lost device

ASSUME SpendAssumption ==
  /\ Timelocks \subseteq 1..MaxTimelock
  /\ \A n \in Timelocks : n <= MaxAge
  /\ Candidates \subseteq [policy : SUBSET Clause, n : 1..MaxTimelock]
  /\ {MaxAge, MaxSignatures, MaxSweeps, FeeRate} \subseteq Nat
  /\ Policy \in CompiledPolicy
  /\ \A p \in Drafts : IsPsbt(p)
  /\ \A s \in SweepRequests : IsList(s)
  /\ IsFiniteSet(DOMAIN Genesis)
  /\ \A o \in DOMAIN Genesis : /\ Genesis[o].confirmations \in 0..MaxAge
                                /\ Genesis[o].txout.value \in Nat
  /\ Nothing \notin Nat

\* An outpoint is <<transaction, output>>.  What made the first coins is not
\* looked into: it spends nothing that the model knows of.
ASSUME GenesisAssumption == \A o \in DOMAIN Genesis : o[1].inputs = <<>>

VARIABLES
  checked,  \* the candidate last checked, with its report
  wallet,   \* timelock_blocks of the wallet in use
  utxo,     \* unspent outputs of ours, and foreign ones that drafts name
  sweeps,   \* the sweeps built: psbt, path, fee
  signed,   \* the genuine signatures there are: <<transaction, role>>
  ledger,   \* the service's ledger
  approved, \* history: <<transaction, path>> the service approved
  spends,   \* history: per spent coin its value and age, the transaction and
            \* the keys it was spent with
  lost      \* the device that is lost

vars ==
  <<checked, wallet, utxo, sweeps, signed, ledger, approved, spends, lost>>

service == <<ledger, approved>>
chain   == <<utxo, spends>>

Init ==
  /\ checked = Nothing /\ wallet = Nothing /\ utxo = Genesis
  /\ sweeps = {} /\ signed = {} /\ ledger = {} /\ approved = {} /\ spends = {}
  /\ lost = Nothing

Now == 0  \* every spend falls into one day of the ledger

-----------------------------------------------------------------------------
(* The operator. *)

\* cosigner descriptor check
Check(candidate) ==
  /\ wallet = Nothing /\ checked = Nothing
  /\ checked' = [candidate |-> candidate,
                 report |-> verify_invariants(candidate.policy, Role,
                                              candidate.n)]
  /\ UNCHANGED <<wallet, chain, sweeps, signed, service, lost>>

\* cosigner descriptor build, and serve with that wallet.toml
Build(n) ==
  /\ wallet = Nothing
  /\ all_invariants_hold(verify_invariants(policy_string(n), Role, n))
  /\ wallet' = n /\ checked' = Nothing
  /\ UNCHANGED <<chain, sweeps, signed, service, lost>>

-----------------------------------------------------------------------------
(* PSBTs and the devices. *)

\* cosigner migrate build-sweep
BuildSweep(outpoints, path) ==
  /\ wallet # Nothing
  /\ lost # Nothing \/ Cardinality(sweeps) < MaxSweeps
  /\ can_sweep(outpoints, utxo, FeeRate)
  /\ sweeps' = sweeps \cup
       {[psbt |-> build_sweep_psbt(outpoints, Destination, path, utxo, wallet,
                                   FeeRate),
         path |-> path, fee |-> sweep_fee(outpoints, FeeRate)]}
  /\ UNCHANGED <<checked, wallet, chain, signed, service, lost>>

\* Everything there is to sweep, as its owner lists it.
Ours == {o \in DOMAIN utxo : find_owner(utxo[o].txout.script)}

\* Once a device is lost, its owner does nothing but sweep.
Psbts == {s.psbt : s \in sweeps} \cup (IF lost = Nothing THEN Drafts ELSE {})

SweepOwnersCoins ==
  \/ \E o \in SweepRequests, p \in SweepPath :
       lost = Nothing /\ BuildSweep(o, p)
  \/ lost # Nothing /\ BuildSweep(SetToSeq(Ours), "recovery")

Signers(tx) == {role \in Role : <<tx, role>> \in signed}

\* The SATOCHIP or the phone signs every input of a transaction of our coins.
DeviceSign(psbt, role) ==
  /\ wallet # Nothing
  /\ role \in {"satochip", "mobile"} /\ role # lost
  /\ <<unsigned_tx(psbt), role>> \notin signed
  /\ \/ lost # Nothing
     \/ Cardinality({s \in signed : s[2] # "server"}) < MaxSignatures
  /\ \A i \in DOMAIN psbt.inputs :
       /\ psbt.inputs[i].outpoint \in DOMAIN utxo
       /\ utxo[psbt.inputs[i].outpoint].txout.script.chain \in Chain
  /\ signed' = signed \cup {<<unsigned_tx(psbt), role>>}
  /\ UNCHANGED <<checked, wallet, chain, sweeps, service, lost>>

LoseDevice(role) ==
  /\ wallet # Nothing /\ lost = Nothing
  /\ role # "mobile"
  /\ lost' = role
  /\ UNCHANGED <<checked, wallet, chain, sweeps, signed, service>>

-----------------------------------------------------------------------------
(* The service. *)

\* The PSBT with entries under these roles' keys, genuine or made up.
Showing(psbt, shown) ==
  [psbt EXCEPT !.inputs =
     [i \in DOMAIN @ |-> [@[i] EXCEPT !.partial_sigs = shown[i]]]]

\* Mutant: the amount caps gate recovery spends too.
JudgeByCaps(report) ==
  /\ report.path # "ambiguous"
  /\ evaluate_policy(report, rolling_totals(ledger, Now), Policy)

\* decide_and_sign's choice of rules, for a path that is signed at all.
Judge(report) ==
  \/ report.path = "recovery"
     /\ evaluate_recovery_policy(report, RecoveryWhitelist, Policy)
  \/ report.path = "hot"
     /\ evaluate_policy(report, rolling_totals(ledger, Now), Policy)

\* A spend inspected, judged, signed and recorded; a recorded one is signed
\* again without being judged.  sign_hot_inputs is all or nothing.
CoSign(psbt) ==
  /\ wallet # Nothing /\ lost # "server"
  /\ inspect_error(psbt, utxo) = "ok"
  /\ LET report == inspect(psbt, utxo, wallet)
         row == [txid |-> report.txid, recorded_at |-> Now,
                 spend_sat |-> report.spend_sat]
     IN /\ report.path # "ambiguous" /\ report.signable
        /\ \/ /\ already_recorded(ledger, report.txid)
              /\ UNCHANGED service
           \/ /\ ~already_recorded(ledger, report.txid)
              /\ Judge(report)
              /\ ledger' = ledger \cup {row}
              /\ approved' = approved \cup {<<report.txid, report.path>>}
        /\ signed' = signed \cup {<<report.txid, "server">>}
  /\ UNCHANGED <<checked, wallet, chain, sweeps, lost>>

-----------------------------------------------------------------------------
(* The network. *)

Block ==
  /\ wallet # Nothing
  /\ \E o \in DOMAIN utxo : utxo[o].confirmations < MaxAge
  /\ utxo' = [o \in DOMAIN utxo |->
                [utxo[o] EXCEPT !.confirmations = IF @ < MaxAge THEN @ + 1
                                                  ELSE @]]
  /\ UNCHANGED <<checked, wallet, sweeps, signed, service, spends, lost>>

\* An input is spent with these keys: the relative lock its sequence sets has
\* passed, and the script finds the sequence it asks for.
InputValid(input, keys) ==
  /\ input.outpoint \in DOMAIN utxo
  /\ utxo[input.outpoint].txout.script.chain \in Chain
  /\ input.sequence <= utxo[input.outpoint].confirmations
  /\ Spends(policy_string(wallet), keys,
            IF input.sequence = NoRelativeLock THEN 0 ELSE input.sequence)

TxValid(tx, keys) ==
  /\ keys \subseteq Signers(tx)
  /\ tx.inputs # <<>>
  /\ IsInjective([i \in DOMAIN tx.inputs |-> tx.inputs[i].outpoint])
  /\ \A i \in DOMAIN tx.inputs : InputValid(tx.inputs[i], keys)
  /\ total_out(tx) <= total_in(tx, utxo)

OurOutputs(tx) ==
  {i \in DOMAIN tx.outputs : tx.outputs[i].script.chain \in Chain}

\* Anyone broadcasts a transaction that two keys have signed.  Its outputs to
\* us are coins from then on.
Broadcast(tx, keys) ==
  /\ wallet # Nothing
  /\ Cardinality(keys) = 2 /\ TxValid(tx, keys)
  /\ LET spent == {tx.inputs[i].outpoint : i \in DOMAIN tx.inputs}
         new == {<<tx, i>> : i \in OurOutputs(tx)}
     IN /\ utxo' = [o \in (DOMAIN utxo \ spent) \cup new |->
                      IF o \in new
                        THEN [txout |-> tx.outputs[o[2]], confirmations |-> 0]
                        ELSE utxo[o]]
        /\ spends' = spends \cup
             {[coin |-> o, value |-> utxo[o].txout.value,
               age |-> utxo[o].confirmations, tx |-> tx, keys |-> keys] :
                o \in spent}
  /\ UNCHANGED <<checked, wallet, sweeps, signed, service, lost>>

-----------------------------------------------------------------------------
\* Nobody looks for the SATOCHIP's entry.
Submit(psbt) ==
  \E shown \in [DOMAIN psbt.inputs -> SUBSET {"mobile", "server"}] :
    CoSign(Showing(psbt, shown))

Transactions == {s[1] : s \in signed}

Next ==
  \/ \E c \in Candidates : Check(c)
  \/ \E n \in Timelocks : Build(n)
  \/ SweepOwnersCoins
  \/ \E p \in Psbts, r \in Role : DeviceSign(p, r)
  \/ \E r \in Role : LoseDevice(r)
  \/ \E p \in Psbts : Submit(p)
  \/ Block
  \/ \E tx \in Transactions, keys \in Pairs(Role) : Broadcast(tx, keys)

Spec == Init /\ [][Next]_vars

\* After a loss the owner goes on sweeping with the two other devices, submits
\* the sweep for the SERVER's signature where that is one of them, and
\* broadcasts it; blocks are found.  Each of these steps is taken finitely
\* often, so fairness of them together is fairness of each.
Recovering ==
  /\ lost # Nothing
  /\ \/ SweepOwnersCoins
     \/ \E p \in Psbts, r \in Role : DeviceSign(p, r)
     \/ \E p \in Psbts : Submit(p)
     \/ \E tx \in Transactions, keys \in Pairs(Role) : Broadcast(tx, keys)
     \/ Block

FairSpec == Spec /\ WF_vars(Recovering)

-----------------------------------------------------------------------------
TypeOK ==
  /\ checked = Nothing \/ checked.candidate.n \in 1..MaxTimelock
  /\ wallet \in Timelocks \cup {Nothing}
  /\ \A o \in DOMAIN utxo : /\ utxo[o].confirmations \in 0..MaxAge
                            /\ utxo[o].txout.value \in Nat
  /\ \A s \in sweeps : s.path \in SweepPath /\ s.fee \in Nat
  /\ \A s \in signed : s[2] \in Role
  /\ \A row \in ledger : row.spend_sat \in Nat
  /\ \A a \in approved : a[2] \in {"hot", "recovery"}
  /\ \A s \in spends : s.age \in 0..MaxAge /\ s.keys \in Pairs(Role)
  /\ lost \in Role \cup {Nothing}

\* `descriptor check` accepts a descriptor exactly when, at every age of a coin,
\* consensus keeps what its report promises (verify_invariants), as long as the
\* descriptor has no timelock besides those the analysis asks about.
CheckIsExact ==
  checked # Nothing =>
    LET policy == checked.candidate.policy
        n == checked.candidate.n
    IN AsksAbout(policy, n) =>
         (all_invariants_hold(checked.report) <=> Promised(policy, n))

\* What invariants.rs says of its first check, that no key spends alone "with an
\* unbounded amount of elapsed time", for every descriptor it accepts.
AcceptedNeverSpendsAlone ==
  checked # Nothing /\ all_invariants_hold(checked.report)
    => NeverAlone(checked.candidate.policy)

\* A coin younger than the timelock is only ever spent by a transaction that the
\* service judged by its caps: not around the service, and not by one it took
\* for a recovery (classify_input_path and combine_paths against consensus).
EarlySpendsMetTheCaps ==
  \A s \in spends : s.age < wallet => <<s.tx, "hot">> \in approved

\* What a transaction pays to scripts that are not the wallet's.
PaidAway(tx) ==
  LET theirs == {i \in DOMAIN tx.outputs : ~find_owner(tx.outputs[i].script)}
  IN SumFunctionOnSet(OutputValues(tx), theirs)

\* A coin that waited the timelock out, spent to the recovery whitelist.
ByRecoveryRules(s) ==
  /\ s.age >= wallet
  /\ \A i \in DOMAIN s.tx.outputs :
       \/ find_owner(s.tx.outputs[i].script)
       \/ s.tx.outputs[i].script \in RecoveryWhitelist

OutsideRecoveryRules ==
  {s.tx : s \in {s \in spends : "server" \in s.keys /\ ~ByRecoveryRules(s)}}

\* Whatever entries submitters make up, in however many PSBTs: what the SERVER
\* helped to pay away, other than coins past the timelock to the recovery
\* whitelist, keeps to the cap of a transaction and, together, to those of the
\* windows.  Every spend here falls into one of each.
CapsHoldWhateverIsShown ==
  LET txs == OutsideRecoveryRules
      together == SumFunctionOnSet([tx \in txs |-> PaidAway(tx)], txs)
  IN /\ \A tx \in txs : PaidAway(tx) <= Policy.max_tx_sat
     /\ together <= Policy.max_daily_sat
     /\ together <= Policy.max_weekly_sat
     /\ together <= Policy.max_monthly_sat

\* What leaves the wallet with the SERVER's signature is at most what the ledger
\* counted, and the fee cap: no PSBT field makes an amount or an owner look
\* different from what the chain and the wallet's own derivations say.
Outflow(tx) ==
  SumFunctionOnSet([s \in spends |-> s.value], {s \in spends : s.tx = tx})
    - SumFunctionOnSet(OutputValues(tx), OurOutputs(tx))

LedgerCoversOutflow ==
  \A s \in spends :
    "server" \in s.keys =>
      \E row \in ledger :
        /\ row.txid = s.tx
        /\ Outflow(s.tx) <= row.spend_sat + Policy.max_fee_sat

\* A sweep that build-sweep wrote stays one the service accepts for as long as
\* its coins are there: with the fee it was built with, on the path it was
\* meant for once that path's device has signed, and with sequences that let
\* every pair of keys of that path spend (build_sweep_psbt against inspect).
SweepsStaySignable ==
  \A s \in sweeps :
    (\A i \in DOMAIN s.psbt.inputs : s.psbt.inputs[i].outpoint \in DOMAIN utxo)
    => LET shown == IF s.path = "recovery" THEN {"mobile"} ELSE {}
           psbt == Showing(s.psbt, [i \in DOMAIN s.psbt.inputs |-> shown])
           report == inspect(psbt, utxo, wallet)
       IN /\ inspect_error(psbt, utxo) = "ok"
          /\ report.path = s.path /\ report.signable
          /\ report.fee_sat = s.fee /\ report.fee_rate = FeeRate

\* Losing the SATOCHIP or the SERVER is survivable: the two other devices move
\* every coin to the replacement wallet, through the sweep, the recovery path
\* and the timelock (invariants.rs, "losing any single key").
LossIsSurvivable == (lost # Nothing) ~> (Ours = {})
===============================================================================
