-------------------------------- MODULE Sweep --------------------------------
(***************************************************************************)
(* Building the PSBT that moves coins to a replacement wallet (migrate.rs). *)
(* It commits to a sequence before anyone has signed, and to a fee from the *)
(* same weight estimate that inspection uses later.                         *)
(***************************************************************************)
EXTENDS Inspection

SweepPath == {"hot", "recovery"}

\* Mutant: the recovery sweep waits one block less than the script asks for.
sweep_sequenceEarly(path, n) ==
  IF path = "recovery" THEN n - 1 ELSE NoRelativeLock

sweep_sequence(path, n) == IF path = "recovery" THEN n ELSE NoRelativeLock

sweep_fee(outpoints, rate) ==
  (OverheadSize + InputSize * Len(outpoints) + OutputSize) * rate

sweep_total(outpoints, utxo) ==
  SumFunction([i \in DOMAIN outpoints |-> utxo[outpoints[i]].txout.value])

\* What build_sweep_psbt asks for before it builds anything.
can_sweep(outpoints, utxo, rate) ==
  /\ outpoints # <<>> /\ rate > 0
  /\ \A o \in Range(outpoints) :
       o \in DOMAIN utxo /\ find_owner(utxo[o].txout.script)
  /\ sweep_fee(outpoints, rate) < sweep_total(outpoints, utxo)

build_sweep_psbt(outpoints, destination, path, utxo, n, rate) ==
  [inputs |->
     [i \in DOMAIN outpoints |->
        [outpoint     |-> outpoints[i],
         sequence     |-> sweep_sequence(path, n),
         claimed      |-> {utxo[outpoints[i]].txout},
         partial_sigs |-> {},
         sighash      |-> "ALL"]],
   outputs |->
     <<[script     |-> destination,
        value      |-> sweep_total(outpoints, utxo)
                         - sweep_fee(outpoints, rate),
        derivation |-> FALSE]>>]

===============================================================================
