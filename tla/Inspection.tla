------------------------------ MODULE Inspection ------------------------------
(***************************************************************************)
(* What the service reads out of a PSBT (inspect.rs), trusting only the     *)
(* chain and its own derivations, and what it then signs (signing.rs).      *)
(*                                                                          *)
(* A PSBT is a record of                                                    *)
(*   inputs   per input: outpoint, sequence, claimed (the prevouts its      *)
(*            witness_utxo and non_witness_utxo fields give), partial_sigs  *)
(*            (the roles whose key has an entry), sighash                   *)
(*   outputs  per output: script, value, derivation (whether it has a       *)
(*            bip32_derivation)                                             *)
(* A script is the chain and index the wallet derives it at, or a foreign   *)
(* one.  A sequence is a number of blocks, or one that no height-based      *)
(* relative lock accepts: disabled (RBF or final), or in units of time.     *)
(* Amounts are small numbers; vsize stands for the weight estimate.         *)
(***************************************************************************)
EXTENDS DescriptorPolicy, Sequences, SequencesExt

CONSTANTS
  GapLimit,     \* indices searched on each chain
  OverheadSize, \* vsize of a transaction's fixed part,
  InputSize,    \* of an input with its worst witness,
  OutputSize    \* and of an output

ASSUME SizeAssumption ==
  /\ GapLimit \in Nat
  /\ OverheadSize \in Nat /\ InputSize \in Nat \ {0} /\ OutputSize \in Nat

Chain == {"external", "internal"}

NoRelativeLock == -1

IsList(s) == Len(s) \in Nat /\ s = [i \in 1..Len(s) |-> s[i]]

\* The fields the model gives a PSBT.
IsPsbt(psbt) ==
  /\ psbt = [inputs |-> psbt.inputs, outputs |-> psbt.outputs]
  /\ IsList(psbt.inputs) /\ IsList(psbt.outputs)
  /\ \A i \in DOMAIN psbt.outputs : psbt.outputs[i].value \in Nat
  /\ \A i \in DOMAIN psbt.inputs :
       LET input == psbt.inputs[i]
       IN /\ input = [outpoint |-> input.outpoint, sequence |-> input.sequence,
                      claimed |-> input.claimed, sighash |-> input.sighash,
                      partial_sigs |-> input.partial_sigs]
          /\ input.sequence \in Int

TxOut(script, value) == [script |-> script, value |-> value]

-----------------------------------------------------------------------------
(* descriptor.rs: whose is this script? *)

find_owner(script) == script.chain \in Chain /\ script.index < GapLimit

-----------------------------------------------------------------------------
(* inspect.rs *)

\* Satisfier::check_older for a lock of n blocks.
check_older(sequence, n) == sequence # NoRelativeLock /\ n <= sequence

\* Mutant: the entries are looked at before the sequence.
classify_input_pathShown(input, n) ==
  IF "mobile" \in input.partial_sigs THEN "recovery"
  ELSE IF ~check_older(input.sequence, n) THEN "hot"
  ELSE IF "server" \in input.partial_sigs THEN "hot"
  ELSE "ambiguous"

\* An entry under a role's key is taken for its signature; nobody verifies it.
classify_input_path(input, n) ==
  IF ~check_older(input.sequence, n) THEN "hot"
  ELSE IF "mobile" \in input.partial_sigs THEN "recovery"
  ELSE IF "server" \in input.partial_sigs THEN "hot"
  ELSE "ambiguous"

\* Mutant: one input on the recovery path puts the whole PSBT there.
combine_pathsAny(paths) ==
  CASE "recovery" \in paths -> "recovery"
    [] paths = {"hot"}      -> "hot"
    [] OTHER                -> "ambiguous"

combine_paths(paths) ==
  CASE paths = {"hot"}      -> "hot"
    [] paths = {"recovery"} -> "recovery"
    [] OTHER                -> "ambiguous"

\* utxo is what the node answers: the unspent outputs, by outpoint.
InputError(input, utxo) ==
  IF input.outpoint \notin DOMAIN utxo THEN "unknown_utxo"
  ELSE LET txout == utxo[input.outpoint].txout
       IN IF \E claim \in input.claimed : claim # txout THEN "tampered_utxo"
          ELSE IF ~find_owner(txout.script) THEN "foreign_input"
          ELSE "ok"

\* Mutant: an output that says it is change is taken for change.
OutputKindClaimed(output) ==
  IF output.derivation THEN "change"
  ELSE IF ~find_owner(output.script) THEN "destination"
  ELSE IF output.script.chain = "internal" THEN "change" ELSE "own_receive"

OutputKind(output) ==
  IF find_owner(output.script)
    THEN IF output.script.chain = "internal" THEN "change" ELSE "own_receive"
    ELSE IF output.derivation THEN "spoofed_change" ELSE "destination"

\* What a transaction's inputs and outputs are worth, by index.
InputValues(tx, utxo) ==
  [i \in DOMAIN tx.inputs |-> utxo[tx.inputs[i].outpoint].txout.value]

OutputValues(tx) == [i \in DOMAIN tx.outputs |-> tx.outputs[i].value]

total_in(psbt, utxo) == SumFunction(InputValues(psbt, utxo))

total_out(psbt) == SumFunction(OutputValues(psbt))

\* The errors, in the order inspect meets them.
inspect_error(psbt, utxo) ==
  LET bad == SelectInSeq(psbt.inputs, LAMBDA i : InputError(i, utxo) # "ok")
      spoofed == SelectInSeq(psbt.outputs,
                             LAMBDA o : OutputKind(o) = "spoofed_change")
  IN CASE psbt.inputs = <<>> \/ psbt.outputs = <<>> -> "invalid_transaction"
       [] OTHER ->
            IF bad # 0 THEN InputError(psbt.inputs[bad], utxo)
            ELSE IF spoofed # 0 THEN "spoofed_change"
            ELSE IF total_out(psbt) >= total_in(psbt, utxo)
              THEN "invalid_transaction"
            ELSE "ok"

estimate_vsize(psbt) ==
  OverheadSize + InputSize * Len(psbt.inputs) + OutputSize * Len(psbt.outputs)

\* The unsigned transaction, which its txid stands for: what a PSBT claims and
\* who has signed it are no part of it.
unsigned_tx(psbt) ==
  [inputs  |-> [i \in DOMAIN psbt.inputs |->
                  [outpoint |-> psbt.inputs[i].outpoint,
                   sequence |-> psbt.inputs[i].sequence]],
   outputs |-> [i \in DOMAIN psbt.outputs |->
                  TxOut(psbt.outputs[i].script, psbt.outputs[i].value)]]

Destinations(psbt) ==
  {i \in DOMAIN psbt.outputs : OutputKind(psbt.outputs[i]) = "destination"}

\* Mutant: what comes back to the wallet is taken off what leaves it.
destination_total_satNet(psbt) ==
  2 * SumFunctionOnSet(OutputValues(psbt), Destinations(psbt))
    - total_out(psbt)

destination_total_sat(psbt) ==
  SumFunctionOnSet(OutputValues(psbt), Destinations(psbt))

\* sign_hot_inputs checks every input's sighash type before it signs any.
signable(psbt) == \A i \in DOMAIN psbt.inputs : psbt.inputs[i].sighash = "ALL"

\* The rate is an f64 that is only compared with caps; for whole caps, rounding
\* it up gives the same answers.
RateOf(fee, vsize) == (fee + vsize - 1) \div vsize

\* The report of a PSBT for which inspect_error is "ok", on a wallet whose
\* timelock is n.
inspect(psbt, utxo, n) ==
  LET fee == total_in(psbt, utxo) - total_out(psbt)
  IN [txid      |-> unsigned_tx(psbt),
      path      |-> combine_paths({classify_input_path(psbt.inputs[i], n) :
                                     i \in DOMAIN psbt.inputs}),
      spend_sat |-> destination_total_sat(psbt),
      fee_sat   |-> fee,
      fee_rate  |-> RateOf(fee, estimate_vsize(psbt)),
      dests     |-> {psbt.outputs[i].script : i \in Destinations(psbt)},
      signable  |-> signable(psbt)]

===============================================================================
