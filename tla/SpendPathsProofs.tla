--------------------------- MODULE SpendPathsProofs ---------------------------
(***************************************************************************)
(* Theorems about the deployed descriptor, for every timelock, about the    *)
(* check of any descriptor, and about which transactions can spend the      *)
(* wallet's coins, for any set of drafts, sweeps, policies and signatures.  *)
(***************************************************************************)
EXTENDS SpendPaths, SumProofs

-----------------------------------------------------------------------------
(* The descriptor. *)

LEMMA RolePairs ==
  Pairs(Role) = {{"satochip", "server"}, {"satochip", "mobile"},
                 {"server", "mobile"}}
BY DEF Pairs, Role

\* invariants.rs accepts the descriptor that descriptor.rs builds, whatever the
\* timelock: `descriptor build` never refuses its own work.
THEOREM DeployedIsAccepted ==
  ASSUME NEW n \in 1..MaxTimelock
  PROVE  all_invariants_hold(verify_invariants(policy_string(n), Role, n))
<1> DEFINE p == policy_string(n)
           hot == {"satochip", "server"}
<1> n \in Nat \ {0}
  BY TimelockAssumption
<1>1. \A keys \in SUBSET Role, t \in Nat :
        Entails(keys, t, p) <=>
          \/ hot \subseteq keys
          \/ t = n /\ {"satochip", "mobile"} \subseteq keys
          \/ t = n /\ {"server", "mobile"} \subseteq keys
  BY DEF Entails, policy_string
<1>2. /\ \A q \in Pairs(Role) : Entails(q, 0, p) <=> q = hot
      /\ \A q \in Pairs(Role) : Entails(q, n, p)
      /\ \A q \in Pairs(Role) : n > 1 /\ Entails(q, n - 1, p) => q = hot
  BY <1>1, RolePairs DEF Role
<1>3. \A k \in Role : ~Entails({k}, 0, p) /\ ~Entails({k}, n, p)
  BY <1>1 DEF Role
<1>4. no_single_key_can_spend(p, Role, n)
  BY <1>3 DEF no_single_key_can_spend
<1>5. hot \in Pairs(Role) /\ {"server", "mobile"} \in Pairs(Role)
  BY RolePairs
<1>6. timelock_boundary_holds(p, Role, n)
  BY <1>2 DEF timelock_boundary_holds, spends_immediately
<1>7. \E q \in Pairs(Role) :
        \A r \in Pairs(Role) : spends_immediately(p, r) <=> r = q
  BY <1>2, <1>5 DEF spends_immediately
<1>8. \E q \in Pairs(Role) : /\ spends_after_timelock(p, q, n)
                             /\ ~spends_immediately(p, q)
  BY <1>2, <1>5 DEF spends_immediately, spends_after_timelock
<1>9. \A q \in Pairs(Role) : \/ spends_immediately(p, q)
                             \/ spends_after_timelock(p, q, n)
  BY <1>2 DEF spends_after_timelock
<1> HIDE DEF p
<1> DEFINE report == verify_invariants(p, Role, n)
<1>10. report.no_single_key_can_spend
  BY <1>4, Zenon DEF verify_invariants
<1>11. report.exactly_one_immediate_path
  BY <1>7, Zenon DEF verify_invariants
<1>12. report.at_least_one_timelocked_path
  BY <1>8, Zenon DEF verify_invariants
<1>13. report.timelock_boundary_holds
  BY <1>6, Zenon DEF verify_invariants
<1>14. report.every_pair_can_eventually_spend
  BY <1>9, Zenon DEF verify_invariants
<1> HIDE DEF report
<1>15. all_invariants_hold(report)
  BY <1>10, <1>11, <1>12, <1>13, <1>14 DEF all_invariants_hold
<1> QED
  BY <1>15 DEF p, report

\* And it is right to: by consensus no key ever spends alone, SATOCHIP + SERVER
\* spends at once, and the two other pairs from the timelock on, to the block.
THEOREM DeployedKeepsItsPromise ==
  ASSUME NEW n \in 1..MaxTimelock
  PROVE  Promised(policy_string(n), n)
<1> DEFINE p == policy_string(n)
           hot == {"satochip", "server"}
<1> n \in Nat \ {0}
  BY TimelockAssumption
<1>1. \A keys \in SUBSET Role, age \in Nat :
        Spends(p, keys, age) <=>
          \/ hot \subseteq keys
          \/ n <= age /\ {"satochip", "mobile"} \subseteq keys
          \/ n <= age /\ {"server", "mobile"} \subseteq keys
  BY DEF Spends, policy_string
<1>2. \A age \in Ages : age \in Nat
  BY TimelockAssumption DEF Ages
<1>3. NeverAlone(p)
  BY <1>1, <1>2 DEF NeverAlone, Role
<1>4. \A q \in Pairs(Role), age \in Nat :
        Spends(p, q, age) <=> q = hot \/ n <= age
  BY <1>1, RolePairs DEF Role
<1>5. OneHotPair(p)
  BY <1>4, RolePairs DEF OneHotPair
<1>6. OthersFrom(p, n)
  BY <1>4, <1>2 DEF OthersFrom
<1> QED
  BY <1>3, <1>5, <1>6 DEF Promised

-----------------------------------------------------------------------------
(* The check. *)

\* The analysis asks about a clause's atom, and consensus about the coin's age:
\* for a policy with no other timelocks the answers agree.
LEMMA AtomsAndAges ==
  ASSUME NEW policy \in SUBSET Clause, NEW n \in 1..MaxTimelock,
         AsksAbout(policy, n), NEW keys
  PROVE  /\ Entails(keys, 0, policy) <=> Spends(policy, keys, 0)
         /\ Entails(keys, n, policy) =>
              \A age \in Ages : age >= n => Spends(policy, keys, age)
         /\ Entails(keys, n - 1, policy) => Spends(policy, keys, n - 1)
         /\ \A age \in Ages : Spends(policy, keys, age) =>
              \/ Entails(keys, 0, policy)
              \/ age >= n /\ Entails(keys, n, policy)
              \/ age >= n - 1 /\ n > 1 /\ Entails(keys, n - 1, policy)
<1>1. n \in Nat /\ n > 0 /\ Ages \subseteq Nat
  BY TimelockAssumption DEF Ages
<1>2. \A c \in policy : c.older \in Nat /\ c.older \in {0, n, n - 1}
  BY TimelockAssumption DEF Clause, AsksAbout
<1> QED
  BY <1>1, <1>2 DEF Entails, Spends

\* A clause of one key has no timelock but n, so that no key of an accepted
\* descriptor spends alone at any age.
LEMMA AloneIsChecked ==
  ASSUME NEW policy \in SUBSET Clause, NEW n \in 1..MaxTimelock,
         AsksAbout(policy, n)
  PROVE  no_single_key_can_spend(policy, Role, n) <=> NeverAlone(policy)
<1>1. /\ n \in Nat /\ n \in Ages /\ 0 \in Ages /\ Ages \subseteq Nat
  BY TimelockAssumption DEF Ages
<1>2. ASSUME NEW k \in Role, NEW c \in policy, c.keys \subseteq {k}
      PROVE  c.older \in {0, n}
  <2>1. c.keys = {} \/ c.keys = {k}
    BY <1>2
  <2>2. Cardinality({}) = 0 /\ Cardinality({k}) = 1
    BY FS_EmptySet, FS_Singleton
  <2> QED
    BY <2>1, <2>2 DEF AsksAbout
<1>3. ASSUME NEW k \in Role, NEW age \in Ages, Spends(policy, {k}, age)
      PROVE  Entails({k}, 0, policy) \/ Entails({k}, n, policy)
  BY <1>2, <1>3 DEF Spends, Entails
<1>4. ASSUME NEW k \in Role
      PROVE  /\ Entails({k}, 0, policy) => Spends(policy, {k}, 0)
             /\ Entails({k}, n, policy) => Spends(policy, {k}, n)
  BY <1>1, AtomsAndAges
<1> QED
  BY <1>1, <1>3, <1>4 DEF no_single_key_can_spend, NeverAlone

LEMMA ThreePairs ==
  \A p \in Pairs(Role) : \E q \in Pairs(Role) : q # p
<1>1. /\ {"satochip", "server"} # {"satochip", "mobile"}
      /\ {{"satochip", "server"}, {"satochip", "mobile"}} \subseteq Pairs(Role)
  BY RolePairs
<1> QED
  BY <1>1

\* A pair that does not spend at once does so from the timelock on, to the
\* block, if and only if the three checks of the pairs say so of it.
LEMMA PairsAreChecked ==
  ASSUME NEW policy \in SUBSET Clause, NEW n \in 1..MaxTimelock,
         AsksAbout(policy, n), NEW p \in Pairs(Role),
         ~Entails(p, 0, policy)
  PROVE  (\A age \in Ages : Spends(policy, p, age) <=> age >= n)
           <=> /\ Entails(p, n, policy)
               /\ n > 1 => ~Entails(p, n - 1, policy)
<1>1. /\ n \in Nat /\ n > 0 /\ Ages \subseteq Nat
      /\ n \in Ages /\ n - 1 \in Ages
  BY TimelockAssumption DEF Ages
<1>2. ASSUME \A age \in Ages : Spends(policy, p, age) <=> age >= n
      PROVE  /\ Entails(p, n, policy)
             /\ ~Entails(p, n - 1, policy)
  <2>1. ~Entails(p, n - 1, policy)
    BY <1>1, <1>2, AtomsAndAges
  <2>2. Spends(policy, p, n)
    BY <1>1, <1>2
  <2> QED
    BY <1>1, <2>1, <2>2, AtomsAndAges
<1>3. ASSUME Entails(p, n, policy), n > 1 => ~Entails(p, n - 1, policy),
             NEW age \in Ages
      PROVE  Spends(policy, p, age) <=> age >= n
  BY <1>1, <1>3, AtomsAndAges
<1> QED
  BY <1>2, <1>3

\* `descriptor check` accepts a descriptor exactly when consensus keeps what
\* its report promises, for every descriptor whose timelocks it asks about
\* (invariants.rs, verify_invariants).
THEOREM CheckMeansConsensus ==
  ASSUME NEW policy \in SUBSET Clause, NEW n \in 1..MaxTimelock,
         AsksAbout(policy, n)
  PROVE  all_invariants_hold(verify_invariants(policy, Role, n))
           <=> Promised(policy, n)
<1> DEFINE hot == \E p \in Pairs(Role) : \A q \in Pairs(Role) :
                    spends_immediately(policy, q) <=> q = p
           late == \E p \in Pairs(Role) :
                     /\ spends_after_timelock(policy, p, n)
                     /\ ~spends_immediately(policy, p)
           every == \A p \in Pairs(Role) :
                      \/ spends_immediately(policy, p)
                      \/ spends_after_timelock(policy, p, n)
           report == verify_invariants(policy, Role, n)
<1>1. all_invariants_hold(report) <=>
        /\ no_single_key_can_spend(policy, Role, n)
        /\ hot /\ late /\ timelock_boundary_holds(policy, Role, n) /\ every
  <2>1. report.no_single_key_can_spend
          = no_single_key_can_spend(policy, Role, n)
    BY Zenon DEF verify_invariants
  <2>2. report.exactly_one_immediate_path = hot
    BY Zenon DEF verify_invariants
  <2>3. report.at_least_one_timelocked_path = late
    BY Zenon DEF verify_invariants
  <2>4. report.timelock_boundary_holds
          = timelock_boundary_holds(policy, Role, n)
    BY Zenon DEF verify_invariants
  <2>5. report.every_pair_can_eventually_spend = every
    BY Zenon DEF verify_invariants
  <2> HIDE DEF report, hot, late, every
  <2> QED
    BY <2>1, <2>2, <2>3, <2>4, <2>5, Zenon DEF all_invariants_hold
<1>2. hot <=> OneHotPair(policy)
  BY AtomsAndAges DEF spends_immediately, OneHotPair
<1>3. OthersFrom(policy, n) <=>
        \A p \in Pairs(Role) : ~Entails(p, 0, policy) =>
          Entails(p, n, policy) /\ (n > 1 => ~Entails(p, n - 1, policy))
  <2>1. \A p \in Pairs(Role) :
          Entails(p, 0, policy) <=> Spends(policy, p, 0)
    BY AtomsAndAges
  <2>2. OthersFrom(policy, n) <=>
          \A p \in Pairs(Role) : ~Entails(p, 0, policy) =>
            \A age \in Ages : Spends(policy, p, age) <=> age >= n
    BY <2>1 DEF OthersFrom
  <2> QED
    BY <2>2, PairsAreChecked
<1>4. hot => \E p \in Pairs(Role) : ~Entails(p, 0, policy)
  BY ThreePairs DEF spends_immediately
<1>5. hot => (late /\ timelock_boundary_holds(policy, Role, n) /\ every
                <=> OthersFrom(policy, n))
  BY <1>3, <1>4 DEF timelock_boundary_holds, spends_immediately,
                    spends_after_timelock
<1> HIDE DEF hot, late, every, report
<1>6. no_single_key_can_spend(policy, Role, n) <=> NeverAlone(policy)
  BY AloneIsChecked
<1>7. all_invariants_hold(report) <=> Promised(policy, n)
  BY <1>1, <1>2, <1>5, <1>6 DEF Promised
<1> QED
  BY <1>7 DEF report

\* What is reported is the candidate's own analysis.
Reported ==
  checked # Nothing =>
    /\ checked.candidate.policy \in SUBSET Clause
    /\ checked.candidate.n \in 1..MaxTimelock
    /\ checked.report = verify_invariants(checked.candidate.policy, Role,
                                          checked.candidate.n)

LEMMA ReportedStep == Reported /\ [Next]_vars => Reported'
<1> SUFFICES ASSUME Reported, [Next]_vars PROVE Reported'
  OBVIOUS
<1>1. CASE \E c \in Candidates : Check(c)
  <2> PICK c \in Candidates : Check(c)
    BY <1>1
  <2> DEFINE report == verify_invariants(c.policy, Role, c.n)
  <2>1. checked' = [candidate |-> c, report |-> report]
    BY DEF Check
  <2>2. c.policy \in SUBSET Clause /\ c.n \in 1..MaxTimelock
    BY SpendAssumption
  <2> HIDE DEF report
  <2>3. checked'.candidate = c /\ checked'.report = report
    BY <2>1
  <2> QED
    BY <2>2, <2>3, Zenon DEF Reported, report
<1>2. CASE \E n \in Timelocks : Build(n)
  BY <1>2, Zenon DEF Build, Reported
<1>3. CASE UNCHANGED checked
  BY <1>3, Zenon DEF Reported
<1>4. \/ \E c \in Candidates : Check(c)
      \/ \E n \in Timelocks : Build(n)
      \/ UNCHANGED checked
  <2>1. CASE SweepOwnersCoins
    BY <2>1 DEF SweepOwnersCoins, BuildSweep
  <2>2. CASE \E p \in Psbts, r \in Role : DeviceSign(p, r)
    BY <2>2 DEF DeviceSign
  <2>3. CASE \E p \in Psbts : Submit(p)
    BY <2>3 DEF Submit, CoSign
  <2>4. CASE Block \/ \E r \in Role : LoseDevice(r)
    BY <2>4 DEF Block, LoseDevice
  <2>5. CASE \E tx \in Transactions, keys \in Pairs(Role) : Broadcast(tx, keys)
    BY <2>5 DEF Broadcast
  <2> QED
    BY <2>1, <2>2, <2>3, <2>4, <2>5 DEF Next, vars
<1> QED
  BY <1>1, <1>2, <1>3, <1>4

\* Every report of `descriptor check` is exact, for any set of candidates.
THEOREM CheckIsAlwaysExact == Spec => []CheckIsExact
<1>1. ASSUME Reported
      PROVE  CheckIsExact
  <2> DEFINE policy == checked.candidate.policy
             n == checked.candidate.n
  <2> SUFFICES ASSUME checked # Nothing, AsksAbout(policy, n)
               PROVE  all_invariants_hold(checked.report)
                        <=> Promised(policy, n)
    BY DEF CheckIsExact
  <2>1. /\ policy \in SUBSET Clause /\ n \in 1..MaxTimelock
        /\ checked.report = verify_invariants(policy, Role, n)
    BY <1>1 DEF Reported
  <2>2. all_invariants_hold(verify_invariants(policy, Role, n))
          <=> Promised(policy, n)
    <3> HIDE DEF policy, n
    <3> QED BY <2>1, CheckMeansConsensus
  <2> QED
    BY <2>1, <2>2, Zenon
<1>2. Init => Reported
  BY DEF Init, Reported
<1> QED
  BY <1>1, <1>2, ReportedStep, PTL DEF Spec

-----------------------------------------------------------------------------
(* PSBTs and transactions. *)

\* A PSBT q that is another but for its entries.
Shows(q, psbt, shown) ==
  /\ q.outputs = psbt.outputs
  /\ IsList(q.inputs) /\ Len(q.inputs) = Len(psbt.inputs)
  /\ DOMAIN q.inputs = DOMAIN psbt.inputs
  /\ \A i \in DOMAIN psbt.inputs :
       /\ q.inputs[i].sequence = psbt.inputs[i].sequence
       /\ q.inputs[i].outpoint = psbt.inputs[i].outpoint
       /\ q.inputs[i].claimed = psbt.inputs[i].claimed
       /\ q.inputs[i].sighash = psbt.inputs[i].sighash
       /\ q.inputs[i].partial_sigs = shown[i]

\* Which entries a submitted PSBT shows changes nothing else of it.
LEMMA ShowingKeepsTx ==
  ASSUME NEW psbt, IsPsbt(psbt),
         NEW S, NEW shown \in [DOMAIN psbt.inputs -> S],
         NEW q, q = Showing(psbt, shown)
  PROVE  Shows(q, psbt, shown) /\ unsigned_tx(q) = unsigned_tx(psbt)
<1> DEFINE ins == [i \in DOMAIN psbt.inputs |->
                     [psbt.inputs[i] EXCEPT !.partial_sigs = shown[i]]]
<1> DEFINE rec == [inputs |-> psbt.inputs, outputs |-> psbt.outputs]
<1>1. psbt = rec
  BY DEF IsPsbt
<1>2. q.inputs = ins /\ q.outputs = psbt.outputs
  <2>1. /\ [rec EXCEPT !.inputs = ins].inputs = ins
        /\ [rec EXCEPT !.inputs = ins].outputs = psbt.outputs
    OBVIOUS
  <2>2. q = [psbt EXCEPT !.inputs = ins]
    BY DEF Showing
  <2> QED
    BY <1>1, <2>1, <2>2
<1>3. ASSUME NEW i \in DOMAIN psbt.inputs
      PROVE  /\ ins[i].sequence = psbt.inputs[i].sequence
             /\ ins[i].outpoint = psbt.inputs[i].outpoint
             /\ ins[i].claimed = psbt.inputs[i].claimed
             /\ ins[i].sighash = psbt.inputs[i].sighash
             /\ ins[i].partial_sigs = shown[i]
  BY <1>3 DEF IsPsbt
<1>4. IsList(ins) /\ Len(ins) = Len(psbt.inputs)
  <2>1. IsList(psbt.inputs)
    BY DEF IsPsbt
  <2> QED
    BY <2>1 DEF IsList
<1> DOMAIN ins = DOMAIN psbt.inputs
  OBVIOUS
<1> HIDE DEF ins
<1>5. unsigned_tx(q) = unsigned_tx(psbt)
  BY <1>2, <1>3 DEF unsigned_tx
<1> QED
  BY <1>2, <1>3, <1>4, <1>5 DEF Shows

LEMMA TxOfPsbt ==
  ASSUME NEW psbt
  PROVE  /\ DOMAIN unsigned_tx(psbt).inputs = DOMAIN psbt.inputs
         /\ \A i \in DOMAIN psbt.inputs :
              /\ unsigned_tx(psbt).inputs[i].sequence = psbt.inputs[i].sequence
              /\ unsigned_tx(psbt).inputs[i].outpoint = psbt.inputs[i].outpoint
         /\ DOMAIN unsigned_tx(psbt).outputs = DOMAIN psbt.outputs
         /\ \A i \in DOMAIN psbt.outputs :
              /\ unsigned_tx(psbt).outputs[i].script = psbt.outputs[i].script
              /\ unsigned_tx(psbt).outputs[i].value = psbt.outputs[i].value
BY DEF unsigned_tx, TxOut

\* A transaction as the network sees it.
IsTx(tx) ==
  /\ IsList(tx.inputs) /\ IsList(tx.outputs)
  /\ \A i \in DOMAIN tx.inputs : tx.inputs[i].sequence \in Int
  /\ \A i \in DOMAIN tx.outputs : tx.outputs[i].value \in Nat

LEMMA TxIsTx ==
  ASSUME NEW psbt, IsPsbt(psbt)
  PROVE  IsTx(unsigned_tx(psbt))
<1> DEFINE ins == [i \in DOMAIN psbt.inputs |->
                     [outpoint |-> psbt.inputs[i].outpoint,
                      sequence |-> psbt.inputs[i].sequence]]
           outs == [i \in DOMAIN psbt.outputs |->
                      TxOut(psbt.outputs[i].script, psbt.outputs[i].value)]
<1>1. unsigned_tx(psbt).inputs = ins /\ unsigned_tx(psbt).outputs = outs
  BY DEF unsigned_tx
<1>2. IsList(psbt.inputs) /\ IsList(psbt.outputs)
  BY DEF IsPsbt
<1>3. IsList(ins)
  BY <1>2 DEF IsList
<1>4. IsList(outs)
  BY <1>2 DEF IsList
<1>5. \A i \in DOMAIN ins : ins[i].sequence \in Int
  BY DEF IsPsbt
<1>6. \A i \in DOMAIN outs : outs[i].value \in Nat
  BY DEF IsPsbt, TxOut
<1> HIDE DEF ins, outs
<1> QED
  BY <1>1, <1>3, <1>4, <1>5, <1>6 DEF IsTx

\* What a PSBT moves is what its transaction moves.
LEMMA ValuesOfTx ==
  ASSUME NEW psbt, NEW coins
  PROVE  /\ InputValues(unsigned_tx(psbt), coins) = InputValues(psbt, coins)
         /\ OutputValues(unsigned_tx(psbt)) = OutputValues(psbt)
BY TxOfPsbt DEF InputValues, OutputValues

\* What the owner lists is a list of those coins.
LEMMA ListedOnce ==
  ASSUME NEW S, IsFiniteSet(S)
  PROVE  /\ IsList(SetToSeq(S))
         /\ \A i \in DOMAIN SetToSeq(S) : SetToSeq(S)[i] \in S
<1> DEFINE n == Cardinality(S)
<1>1. n \in Nat /\ ExistsBijection(1..n, S)
  BY FS_CardinalityType
<1>2. \E f \in [1..n -> S] : IsInjective(f)
  BY <1>1 DEF ExistsBijection, Bijection, Injection, IsInjective
<1>3. SetToSeq(S) \in [1..n -> S]
  BY <1>2 DEF SetToSeq
<1> HIDE DEF n
<1> QED
  BY <1>1, <1>3 DEF IsList

\* A report's path is the recovery's only if every input waits out the timelock,
\* whatever entries it has.
LEMMA PathOfReport ==
  ASSUME NEW psbt, NEW n
  PROVE  inspect(psbt, utxo, n).path = "recovery" =>
           \A i \in DOMAIN psbt.inputs :
             check_older(psbt.inputs[i].sequence, n)
<1> DEFINE paths == {classify_input_path(psbt.inputs[i], n) :
                       i \in DOMAIN psbt.inputs}
<1>1. inspect(psbt, utxo, n).path = combine_paths(paths)
  BY Zenon DEF inspect
<1>2. combine_paths(paths) = "recovery" => paths = {"recovery"}
  BY DEF combine_paths
<1>3. ASSUME NEW i \in DOMAIN psbt.inputs,
             ~check_older(psbt.inputs[i].sequence, n)
      PROVE  classify_input_path(psbt.inputs[i], n) # "recovery"
  BY <1>3 DEF classify_input_path
<1> QED
  BY <1>1, <1>2, <1>3

LEMMA ReportedTx ==
  ASSUME NEW psbt, NEW n
  PROVE  inspect(psbt, utxo, n).txid = unsigned_tx(psbt)
BY Zenon DEF inspect

-----------------------------------------------------------------------------
(* Types. *)

\* Types: what a coin is worth is a number because what a transaction that
\* somebody signed pays is one.
Typed ==
  /\ TypeOK
  /\ IsFiniteSet(DOMAIN utxo)
  /\ \A p \in sweeps : IsPsbt(p.psbt)
  /\ \A s \in signed : IsTx(s[1])

LEMMA WalletIsNat ==
  ASSUME Typed, wallet # Nothing
  PROVE  wallet \in Nat /\ wallet \in 1..MaxTimelock
BY SpendAssumption, TimelockAssumption DEF Typed, TypeOK

\* What holds of every PSBT there is.
LEMMA PsbtsArePsbts ==
  ASSUME Typed, NEW psbt \in Psbts
  PROVE  IsPsbt(psbt)
BY SpendAssumption DEF Psbts, Typed

LEMMA ListIsFinite ==
  ASSUME NEW s, IsList(s)
  PROVE  IsFiniteSet(DOMAIN s)
<1>1. DOMAIN s = 1..Len(s) /\ Len(s) \in Int
  BY DEF IsList
<1>2. IsFiniteSet(1..Len(s))
  BY <1>1, FS_Interval
<1> QED
  BY <1>1, <1>2

\* The sweep that build-sweep writes: its inputs and its one output, which pays
\* what its inputs are worth but for the fee.
LEMMA SweepAsBuilt ==
  ASSUME Typed, wallet # Nothing, NEW outpoints, IsList(outpoints),
         NEW path \in SweepPath, can_sweep(outpoints, utxo, FeeRate),
         NEW psbt, psbt = build_sweep_psbt(outpoints, Destination, path, utxo,
                                           wallet, FeeRate)
  PROVE  /\ IsPsbt(psbt)
         /\ psbt.inputs # <<>> /\ DOMAIN psbt.outputs = {1}
         /\ ~psbt.outputs[1].derivation
         /\ \A i \in DOMAIN psbt.inputs :
              LET input == psbt.inputs[i]
              IN /\ input.outpoint \in DOMAIN utxo
                 /\ input.claimed = {utxo[input.outpoint].txout}
                 /\ find_owner(utxo[input.outpoint].txout.script)
                 /\ input.sequence = sweep_sequence(path, wallet)
                 /\ input.sighash = "ALL"
         /\ sweep_fee(outpoints, FeeRate) = estimate_vsize(psbt) * FeeRate
         /\ sweep_fee(outpoints, FeeRate) \in Nat
         /\ FeeRate > 0
         /\ total_in(psbt, utxo) \in Nat
         /\ psbt.outputs[1].value
              = total_in(psbt, utxo) - sweep_fee(outpoints, FeeRate)
<1> DEFINE ins == [i \in DOMAIN outpoints |->
                     [outpoint     |-> outpoints[i],
                      sequence     |-> sweep_sequence(path, wallet),
                      claimed      |-> {utxo[outpoints[i]].txout},
                      partial_sigs |-> {},
                      sighash      |-> "ALL"]]
           fee == sweep_fee(outpoints, FeeRate)
           total == sweep_total(outpoints, utxo)
           out == [script |-> Destination, value |-> total - fee,
                   derivation |-> FALSE]
           values == [i \in DOMAIN outpoints |->
                        utxo[outpoints[i]].txout.value]
<1>1. psbt = [inputs |-> ins, outputs |-> <<out>>]
  BY DEF build_sweep_psbt
<1>2. psbt.inputs = ins /\ psbt.outputs = <<out>>
  <2> HIDE DEF ins, out
  <2> QED
    BY <1>1
<1>3. \A i \in DOMAIN outpoints :
        /\ outpoints[i] \in DOMAIN utxo
        /\ find_owner(utxo[outpoints[i]].txout.script)
  BY DEF can_sweep, Range
<1>4. total \in Nat
  <2>1. \A i \in DOMAIN values : values[i] \in Nat
    BY <1>3 DEF Typed, TypeOK
  <2>2. IsFiniteSet(DOMAIN values) /\ DOMAIN values = DOMAIN outpoints
    BY ListIsFinite
  <2>3. total = SumFunctionOnSet(values, DOMAIN values)
    BY DEF sweep_total, SumFunction
  <2> HIDE DEF values, total
  <2> QED
    BY <2>1, <2>2, <2>3, SumGrows
<1>5. /\ Len(outpoints) \in Nat /\ outpoints # <<>>
      /\ FeeRate \in Nat /\ FeeRate > 0
  BY SpendAssumption DEF IsList, can_sweep
<1>6. fee \in Nat /\ fee < total
  BY <1>5, SizeAssumption DEF sweep_fee, can_sweep
<1>7. wallet \in Nat
  BY WalletIsNat
<1>8. sweep_sequence(path, wallet) \in Int
  BY <1>7 DEF sweep_sequence, NoRelativeLock
<1>9. IsList(ins) /\ Len(ins) = Len(outpoints)
  BY DEF IsList
<1>10. IsList(<<out>>) /\ Len(<<out>>) = 1 /\ DOMAIN <<out>> = {1}
       /\ <<out>>[1] = out
  BY DEF IsList
<1>11. /\ out.value = total - fee /\ ~out.derivation
  OBVIOUS
<1>12. total_in(psbt, utxo) = total
  <2>1. InputValues(psbt, utxo) = values
    BY <1>2 DEF InputValues
  <2> QED
    BY <2>1 DEF total_in, sweep_total
<1>13. ins # <<>>
  BY <1>5, <1>9 DEF IsList
<1>14. \A i \in DOMAIN ins :
         /\ ins[i] = [outpoint |-> ins[i].outpoint,
                      sequence |-> ins[i].sequence,
                      claimed |-> ins[i].claimed, sighash |-> ins[i].sighash,
                      partial_sigs |-> ins[i].partial_sigs]
         /\ ins[i].outpoint = outpoints[i] /\ i \in DOMAIN outpoints
         /\ ins[i].claimed = {utxo[outpoints[i]].txout}
         /\ ins[i].sequence = sweep_sequence(path, wallet)
         /\ ins[i].sighash = "ALL"
  OBVIOUS
<1> HIDE DEF ins, out, total
<1>15. IsPsbt(psbt)
  BY <1>1, <1>2, <1>4, <1>6, <1>8, <1>9, <1>10, <1>11, <1>14 DEF IsPsbt
<1>16. fee = estimate_vsize(psbt) * FeeRate
  BY <1>2, <1>9, <1>10, <1>5, SizeAssumption DEF estimate_vsize, sweep_fee
<1> HIDE DEF fee
<1>17. psbt.outputs[1].value = total_in(psbt, utxo) - fee
  BY <1>2, <1>10, <1>11, <1>12
<1> QED
  BY <1>2, <1>3, <1>4, <1>5, <1>6, <1>10, <1>11, <1>12, <1>13, <1>14, <1>15,
     <1>16, <1>17 DEF fee

LEMMA SweepBuilt ==
  ASSUME Typed, SweepOwnersCoins
  PROVE  \E outpoints, path : /\ IsList(outpoints) /\ path \in SweepPath
                              /\ BuildSweep(outpoints, path)
<1>1. IsFiniteSet(Ours)
  BY FS_Subset DEF Typed, Ours
<1>2. IsList(SetToSeq(Ours))
  BY <1>1, ListedOnce
<1> QED
  BY <1>2, SpendAssumption DEF SweepOwnersCoins, SweepPath

\* The PSBT that is shown is one too.
LEMMA ShownIsPsbt ==
  ASSUME NEW psbt, IsPsbt(psbt),
         NEW S, NEW shown \in [DOMAIN psbt.inputs -> S]
  PROVE  IsPsbt(Showing(psbt, shown))
<1> DEFINE q == Showing(psbt, shown)
           ins == [i \in DOMAIN psbt.inputs |->
                     [psbt.inputs[i] EXCEPT !.partial_sigs = shown[i]]]
<1>1. q = [inputs |-> ins, outputs |-> psbt.outputs]
  <2>1. psbt = [inputs |-> psbt.inputs, outputs |-> psbt.outputs]
    BY DEF IsPsbt
  <2> HIDE DEF ins
  <2>2. q = [psbt EXCEPT !.inputs = ins]
    BY DEF Showing, ins
  <2> QED
    BY <2>1, <2>2
<1>2. \A i \in DOMAIN psbt.inputs :
        /\ ins[i] = [outpoint |-> ins[i].outpoint,
                     sequence |-> ins[i].sequence,
                     claimed |-> ins[i].claimed, sighash |-> ins[i].sighash,
                     partial_sigs |-> ins[i].partial_sigs]
        /\ ins[i].sequence \in Int
  BY DEF IsPsbt
<1>3. q = [inputs |-> q.inputs, outputs |-> q.outputs]
  <2> HIDE DEF q, ins
  <2> QED
    BY <1>1
<1>4. q.inputs = ins /\ q.outputs = psbt.outputs
  <2> HIDE DEF q, ins
  <2> QED
    BY <1>1
<1>5. DOMAIN ins = DOMAIN psbt.inputs
  OBVIOUS
<1>6. IsList(ins)
  <2>1. IsList(psbt.inputs)
    BY DEF IsPsbt
  <2> QED
    BY <2>1 DEF IsList
<1>7. IsList(psbt.outputs)
      /\ \A i \in DOMAIN psbt.outputs : psbt.outputs[i].value \in Nat
  BY DEF IsPsbt
<1> HIDE DEF q, ins
<1>8. IsPsbt(q)
  BY <1>2, <1>3, <1>4, <1>5, <1>6, <1>7 DEF IsPsbt
<1> QED
  BY <1>8 DEF q

\* What the service is shown is a PSBT, whatever entries it has.
LEMMA ShownToServer ==
  ASSUME Typed, NEW psbt \in Psbts, Submit(psbt)
  PROVE  \E q : IsPsbt(q) /\ CoSign(q)
<1> DEFINE S == SUBSET {"mobile", "server"}
<1>1. PICK shown \in [DOMAIN psbt.inputs -> S] : CoSign(Showing(psbt, shown))
  BY DEF Submit
<1> HIDE DEF S
<1>2. IsPsbt(psbt)
  BY PsbtsArePsbts
<1> QED
  BY <1>1, <1>2, ShownIsPsbt

\* What a list of outputs, and any part of it, is worth.
LEMMA OutputSums ==
  ASSUME NEW tx, IsList(tx.outputs),
         \A i \in DOMAIN tx.outputs : tx.outputs[i].value \in Nat
  PROVE  /\ IsFiniteSet(DOMAIN tx.outputs)
         /\ DOMAIN OutputValues(tx) = DOMAIN tx.outputs
         /\ \A i \in DOMAIN tx.outputs : OutputValues(tx)[i] \in Nat
         /\ \A T \in SUBSET DOMAIN tx.outputs :
              SumFunctionOnSet(OutputValues(tx), T) \in Nat
         /\ total_out(tx) = SumFunctionOnSet(OutputValues(tx),
                                             DOMAIN tx.outputs)
<1> DEFINE f == OutputValues(tx)
           S == DOMAIN tx.outputs
<1>1. IsFiniteSet(S)
  BY ListIsFinite
<1>2. DOMAIN f = S /\ \A i \in S : f[i] \in Nat
  BY DEF OutputValues
<1>3. total_out(tx) = SumFunctionOnSet(f, S)
  BY <1>2 DEF total_out, SumFunction
<1> HIDE DEF f, S
<1>4. \A T \in SUBSET S : SumFunctionOnSet(f, T) \in Nat
  BY <1>1, <1>2, SumGrows
<1> QED
  BY <1>1, <1>2, <1>3, <1>4 DEF f, S

LEMMA ReportedSpend ==
  ASSUME NEW psbt, IsPsbt(psbt), NEW n
  PROVE  /\ inspect(psbt, utxo, n).spend_sat
              = SumFunctionOnSet(OutputValues(psbt), Destinations(psbt))
         /\ inspect(psbt, utxo, n).spend_sat \in Nat
<1>1. inspect(psbt, utxo, n).spend_sat = destination_total_sat(psbt)
  BY Zenon DEF inspect
<1>2. Destinations(psbt) \subseteq DOMAIN psbt.outputs
  BY DEF Destinations
<1>3. SumFunctionOnSet(OutputValues(psbt), Destinations(psbt)) \in Nat
  BY <1>2, OutputSums DEF IsPsbt
<1> QED
  BY <1>1, <1>3 DEF destination_total_sat

LEMMA ReportedPath ==
  ASSUME NEW report, Judge(report)
  PROVE  report.path \in {"hot", "recovery"}
BY DEF Judge

\* Types, action by action.
LEMMA SweepKeepsTyped ==
  ASSUME Typed, NEW outpoints, NEW path, IsList(outpoints), path \in SweepPath,
         BuildSweep(outpoints, path)
  PROVE  Typed'
<1> DEFINE psbt == build_sweep_psbt(outpoints, Destination, path, utxo, wallet,
                                    FeeRate)
           fee == sweep_fee(outpoints, FeeRate)
           new == [psbt |-> psbt, path |-> path, fee |-> fee]
<1>1. wallet # Nothing /\ can_sweep(outpoints, utxo, FeeRate)
  BY DEF BuildSweep
<1>2. IsPsbt(psbt) /\ fee \in Nat
  <2> HIDE DEF psbt
  <2>1. psbt = build_sweep_psbt(outpoints, Destination, path, utxo, wallet,
                                FeeRate)
    BY DEF psbt
  <2> QED
    BY <1>1, <2>1, SweepAsBuilt
<1>3. sweeps' = sweeps \cup {new}
  BY DEF BuildSweep
<1> HIDE DEF psbt, fee
<1>4. new.psbt = psbt /\ new.path = path /\ new.fee = fee
  OBVIOUS
<1> HIDE DEF new
<1>5. UNCHANGED <<checked, wallet, utxo, spends, signed, ledger, approved,
                  lost>>
  BY DEF BuildSweep, chain, service
<1> QED
  BY <1>2, <1>3, <1>4, <1>5 DEF Typed, TypeOK

LEMMA DeviceKeepsTyped ==
  ASSUME Typed, NEW psbt \in Psbts, NEW role \in Role, DeviceSign(psbt, role)
  PROVE  Typed'
<1> DEFINE tx == unsigned_tx(psbt)
<1>1. IsTx(tx)
  BY PsbtsArePsbts, TxIsTx
<1>2. signed' = signed \cup {<<tx, role>>}
  BY DEF DeviceSign
<1>3. UNCHANGED <<checked, wallet, utxo, spends, sweeps, ledger, approved,
                  lost>>
  BY DEF DeviceSign, chain, service
<1> HIDE DEF tx
<1>4. <<tx, role>>[1] = tx /\ <<tx, role>>[2] = role
  OBVIOUS
<1> QED
  BY <1>1, <1>2, <1>3, <1>4 DEF Typed, TypeOK

LEMMA CoSignKeepsTyped ==
  ASSUME Typed, NEW psbt, IsPsbt(psbt), CoSign(psbt)
  PROVE  Typed'
<1> DEFINE report == inspect(psbt, utxo, wallet)
           tx == unsigned_tx(psbt)
           row == [txid |-> tx, recorded_at |-> Now,
                   spend_sat |-> report.spend_sat]
<1>1. IsTx(tx) /\ report.txid = tx /\ report.spend_sat \in Nat
  BY TxIsTx, ReportedTx, ReportedSpend
<1>2. /\ UNCHANGED <<checked, wallet, utxo, spends, sweeps, lost>>
      /\ signed' = signed \cup {<<tx, "server">>}
      /\ \/ UNCHANGED <<ledger, approved>>
         \/ /\ Judge(report)
            /\ ledger' = ledger \cup {row}
            /\ approved' = approved \cup {<<tx, report.path>>}
  BY <1>1 DEF CoSign, chain, service
<1> HIDE DEF tx, report
<1>3. row.spend_sat = report.spend_sat
  OBVIOUS
<1> HIDE DEF row
<1>4. /\ <<tx, "server">>[1] = tx /\ <<tx, "server">>[2] = "server"
      /\ <<tx, report.path>>[2] = report.path
  OBVIOUS
<1>5. "server" \in Role
  BY DEF Role
<1>6. ASSUME NEW s \in signed' PROVE s[2] \in Role /\ IsTx(s[1])
  BY <1>1, <1>2, <1>4, <1>5 DEF Typed, TypeOK
<1>7. ASSUME NEW r \in ledger' PROVE r.spend_sat \in Nat
  BY <1>1, <1>2, <1>3 DEF Typed, TypeOK
<1>8. ASSUME NEW a \in approved' PROVE a[2] \in {"hot", "recovery"}
  BY <1>2, <1>4, ReportedPath DEF Typed, TypeOK
<1> QED
  BY <1>2, <1>6, <1>7, <1>8 DEF Typed, TypeOK

LEMMA BlockKeepsTyped ==
  ASSUME Typed, Block
  PROVE  Typed'
<1>1. UNCHANGED <<checked, wallet, sweeps, signed, ledger, approved, spends,
                  lost>>
  BY DEF Block, service
<1>2. DOMAIN utxo' = DOMAIN utxo
  BY DEF Block
<1>3. ASSUME NEW o \in DOMAIN utxo'
      PROVE  /\ utxo'[o].confirmations \in 0..MaxAge
             /\ utxo'[o].txout.value \in Nat
  <2>1. /\ utxo[o].confirmations \in 0..MaxAge
        /\ utxo[o].txout.value \in Nat
    BY <1>2 DEF Typed, TypeOK
  <2>2. MaxAge \in Nat
    BY SpendAssumption
  <2> DEFINE c == utxo[o].confirmations
             d == IF c < MaxAge THEN c + 1 ELSE c
  <2>3. utxo'[o] = [utxo[o] EXCEPT !.confirmations = d]
    BY <1>2 DEF Block
  <2>4. d \in 0..MaxAge
    BY <2>1, <2>2
  <2>5. utxo'[o].txout = utxo[o].txout
    BY <2>3
  <2>6. utxo'[o].confirmations \in {d, c}
    BY <2>3
  <2> HIDE DEF d
  <2> QED
    BY <2>1, <2>4, <2>5, <2>6
<1> QED
  BY <1>1, <1>2, <1>3 DEF Typed, TypeOK

\* What a broadcast spends, what it makes, and what is noted of a coin that it
\* spends.
SpentBy(tx) == {tx.inputs[i].outpoint : i \in DOMAIN tx.inputs}

MadeBy(tx) == {<<tx, i>> : i \in OurOutputs(tx)}

SpendOf(o, tx, keys) ==
  [coin |-> o, value |-> utxo[o].txout.value, age |-> utxo[o].confirmations,
   tx |-> tx, keys |-> keys]

LEMMA SpendFields ==
  ASSUME NEW o, NEW tx, NEW keys, NEW s, s = SpendOf(o, tx, keys)
  PROVE  /\ s.coin = o /\ s.value = utxo[o].txout.value
         /\ s.age = utxo[o].confirmations /\ s.tx = tx /\ s.keys = keys
BY DEF SpendOf

LEMMA CoinsAfterBroadcast ==
  ASSUME Typed, NEW tx \in Transactions, NEW keys \in Pairs(Role),
         Broadcast(tx, keys)
  PROVE  /\ IsTx(tx)
         /\ IsFiniteSet(DOMAIN tx.inputs) /\ IsFiniteSet(MadeBy(tx))
         /\ SpentBy(tx) \subseteq DOMAIN utxo
         /\ DOMAIN utxo' = (DOMAIN utxo \ SpentBy(tx)) \cup MadeBy(tx)
         /\ \A o \in DOMAIN utxo' :
              \/ /\ o \in MadeBy(tx) /\ o[1] = tx /\ o[2] \in OurOutputs(tx)
                 /\ utxo'[o].txout = tx.outputs[o[2]]
                 /\ utxo'[o].confirmations = 0
              \/ o \in DOMAIN utxo \ SpentBy(tx) /\ utxo'[o] = utxo[o]
         /\ spends' = spends \cup {SpendOf(o, tx, keys) : o \in SpentBy(tx)}
         /\ wallet # Nothing /\ TxValid(tx, keys)
         /\ UNCHANGED <<checked, wallet, sweeps, signed, ledger, approved,
                        lost>>
<1> DEFINE spent == SpentBy(tx)
           new == MadeBy(tx)
<1>1. IsTx(tx)
  BY DEF Transactions, Typed
<1>2. IsFiniteSet(DOMAIN tx.inputs) /\ IsFiniteSet(DOMAIN tx.outputs)
  BY <1>1, ListIsFinite DEF IsTx
<1>3. IsFiniteSet(OurOutputs(tx))
  BY <1>2, FS_Subset DEF OurOutputs
<1>4. IsFiniteSet(new)
  <2> DEFINE h == [i \in OurOutputs(tx) |-> <<tx, i>>]
             S == OurOutputs(tx)
  <2>1. new = {h[i] : i \in S}
    BY DEF MadeBy
  <2> HIDE DEF h, S
  <2> QED
    BY <1>3, <2>1, ImageIsFinite DEF S
<1>5. utxo' = [o \in (DOMAIN utxo \ spent) \cup new |->
                 IF o \in new
                   THEN [txout |-> tx.outputs[o[2]], confirmations |-> 0]
                   ELSE utxo[o]]
  BY DEF Broadcast, SpentBy, MadeBy
<1>6. \A o \in new : o[1] = tx /\ o[2] \in OurOutputs(tx)
  BY DEF MadeBy
<1>7. wallet # Nothing /\ TxValid(tx, keys)
      /\ UNCHANGED <<checked, wallet, sweeps, signed, ledger, approved, lost>>
  BY DEF Broadcast, service
<1>8. spent \subseteq DOMAIN utxo
  BY <1>7 DEF TxValid, InputValid, SpentBy
<1>9. spends' = spends \cup {SpendOf(o, tx, keys) : o \in spent}
  BY DEF Broadcast, SpentBy, SpendOf
<1> HIDE DEF spent, new
<1>10. \A o \in DOMAIN utxo' :
         \/ /\ o \in new /\ o[1] = tx /\ o[2] \in OurOutputs(tx)
            /\ utxo'[o].txout = tx.outputs[o[2]]
            /\ utxo'[o].confirmations = 0
         \/ o \in DOMAIN utxo \ spent /\ utxo'[o] = utxo[o]
  <2> SUFFICES ASSUME NEW o \in DOMAIN utxo'
               PROVE  \/ /\ o \in new /\ o[1] = tx /\ o[2] \in OurOutputs(tx)
                         /\ utxo'[o].txout = tx.outputs[o[2]]
                         /\ utxo'[o].confirmations = 0
                      \/ o \in DOMAIN utxo \ spent /\ utxo'[o] = utxo[o]
    OBVIOUS
  <2>1. CASE o \in new
    <3>1. utxo'[o] = [txout |-> tx.outputs[o[2]], confirmations |-> 0]
      BY <1>5, <2>1
    <3>2. utxo'[o].txout = tx.outputs[o[2]] /\ utxo'[o].confirmations = 0
      BY <3>1
    <3> QED
      BY <1>6, <2>1, <3>2
  <2>2. CASE o \notin new
    BY <1>5, <2>2
  <2> QED
    BY <2>1, <2>2
<1>11. DOMAIN utxo' = (DOMAIN utxo \ spent) \cup new
  BY <1>5
<1> QED
  BY <1>1, <1>2, <1>4, <1>7, <1>8, <1>9, <1>10, <1>11 DEF spent, new

LEMMA BroadcastKeepsTyped ==
  ASSUME Typed, NEW tx \in Transactions, NEW keys \in Pairs(Role),
         Broadcast(tx, keys)
  PROVE  Typed'
<1>1. IsTx(tx)
  BY CoinsAfterBroadcast
<1>2. UNCHANGED <<checked, wallet, sweeps, signed, ledger, approved, lost>>
  BY CoinsAfterBroadcast
<1>3. IsFiniteSet(DOMAIN utxo')
  <2>1. IsFiniteSet(DOMAIN utxo \ SpentBy(tx))
    BY FS_Subset DEF Typed
  <2>2. DOMAIN utxo' = (DOMAIN utxo \ SpentBy(tx)) \cup MadeBy(tx)
        /\ IsFiniteSet(MadeBy(tx))
    BY CoinsAfterBroadcast
  <2> QED
    BY <2>1, <2>2, FS_Union
<1>4. ASSUME NEW o \in DOMAIN utxo'
      PROVE  /\ utxo'[o].confirmations \in 0..MaxAge
             /\ utxo'[o].txout.value \in Nat
  <2>1. CASE /\ o[2] \in OurOutputs(tx)
             /\ utxo'[o].txout = tx.outputs[o[2]]
             /\ utxo'[o].confirmations = 0
    BY <1>1, <2>1, SpendAssumption DEF IsTx, OurOutputs
  <2>2. CASE o \in DOMAIN utxo /\ utxo'[o] = utxo[o]
    BY <2>2 DEF Typed, TypeOK
  <2> QED
    BY <2>1, <2>2, CoinsAfterBroadcast
<1>5. ASSUME NEW s \in spends'
      PROVE  s.age \in 0..MaxAge /\ s.keys \in Pairs(Role)
  <2>1. CASE s \in spends
    BY <2>1 DEF Typed, TypeOK
  <2>2. CASE s \notin spends
    <3>. spends' = spends \cup {SpendOf(o, tx, keys) : o \in SpentBy(tx)}
      BY CoinsAfterBroadcast
    <3>1. PICK o \in SpentBy(tx) : s = SpendOf(o, tx, keys)
      BY <2>2
    <3>2. s.age = utxo[o].confirmations /\ s.keys = keys
      BY <3>1, SpendFields
    <3>3. o \in DOMAIN utxo
      BY CoinsAfterBroadcast
    <3> QED
      BY <3>2, <3>3 DEF Typed, TypeOK
  <2> QED
    BY <2>1, <2>2
<1> QED
  BY <1>1, <1>2, <1>3, <1>4, <1>5 DEF Typed, TypeOK

LEMMA TypedStep == Typed /\ [Next]_vars => Typed'
<1> SUFFICES ASSUME Typed, [Next]_vars PROVE Typed'
  OBVIOUS
<1>1. CASE UNCHANGED vars
  BY <1>1 DEF vars, service, chain, Typed, TypeOK
<1>2. CASE \E c \in Candidates : Check(c)
  <2> PICK c \in Candidates : Check(c)
    BY <1>2
  <2>1. checked'.candidate = c /\ c.n \in 1..MaxTimelock
    <3> DEFINE report == verify_invariants(c.policy, Role, c.n)
    <3>1. checked' = [candidate |-> c, report |-> report]
      BY DEF Check
    <3> HIDE DEF report
    <3> QED
      BY <3>1, SpendAssumption
  <2> QED
    BY <2>1 DEF Check, chain, service, Typed, TypeOK
<1>3. CASE \E n \in Timelocks : Build(n)
  BY <1>3 DEF Build, chain, service, Typed, TypeOK
<1>4. CASE \E r \in Role : LoseDevice(r)
  BY <1>4 DEF LoseDevice, chain, service, Typed, TypeOK
<1>5. CASE SweepOwnersCoins
  BY <1>5, SweepBuilt, SweepKeepsTyped
<1>6. CASE \E p \in Psbts, r \in Role : DeviceSign(p, r)
  BY <1>6, DeviceKeepsTyped
<1>7. CASE \E p \in Psbts : Submit(p)
  <2> PICK p \in Psbts : Submit(p)
    BY <1>7
  <2>1. PICK q : IsPsbt(q) /\ CoSign(q)
    BY ShownToServer
  <2> QED
    BY <2>1, CoSignKeepsTyped
<1>8. CASE \E tx \in Transactions, keys \in Pairs(Role) : Broadcast(tx, keys)
  BY <1>8, BroadcastKeepsTyped
<1> QED
  BY <1>1, <1>2, <1>3, <1>4, <1>5, <1>6, <1>7, <1>8, BlockKeepsTyped DEF Next

LEMMA TypedInit == Init => Typed
BY SpendAssumption DEF Init, Typed, TypeOK

LEMMA TypedAlways == Spec => []Typed
BY TypedInit, TypedStep, PTL DEF Spec

\* Types hold for any coins, drafts and lists to sweep: what an amount is
\* computed from is always a number.
THEOREM SpendPathsTypeOK == Spec => []TypeOK
<1>1. Typed => TypeOK
  BY DEF Typed
<1> QED
  BY <1>1, TypedAlways, PTL

-----------------------------------------------------------------------------
(* Inspection. *)

LEMMA MinOfIndices ==
  ASSUME NEW s, IsList(s), NEW I \in SUBSET DOMAIN s, I # {}
  PROVE  Min(I) \in I /\ Min(I) # 0
<1>1. DOMAIN s = 1..Len(s) /\ Len(s) \in Nat
  BY DEF IsList
<1>2. I \in SUBSET Nat
  BY <1>1
<1>3. Min(I) \in I
  BY <1>2, MinIn
<1> QED
  BY <1>1, <1>3

\* A PSBT passes inspection when each input, each output and the totals do.
LEMMA InspectsOk ==
  ASSUME NEW psbt, IsPsbt(psbt), NEW coins
  PROVE  inspect_error(psbt, coins) = "ok" <=>
           /\ psbt.inputs # <<>> /\ psbt.outputs # <<>>
           /\ \A i \in DOMAIN psbt.inputs :
                InputError(psbt.inputs[i], coins) = "ok"
           /\ \A i \in DOMAIN psbt.outputs :
                OutputKind(psbt.outputs[i]) # "spoofed_change"
           /\ ~(total_out(psbt) >= total_in(psbt, coins))
<1> DEFINE I == {i \in 1..Len(psbt.inputs) :
                   InputError(psbt.inputs[i], coins) # "ok"}
           J == {i \in 1..Len(psbt.outputs) :
                   OutputKind(psbt.outputs[i]) = "spoofed_change"}
           bad == IF I # {} THEN Min(I) ELSE 0
           spoofed == IF J # {} THEN Min(J) ELSE 0
<1>1. IsList(psbt.inputs) /\ IsList(psbt.outputs)
  BY DEF IsPsbt
<1>2. 1..Len(psbt.inputs) = DOMAIN psbt.inputs
      /\ 1..Len(psbt.outputs) = DOMAIN psbt.outputs
  BY <1>1 DEF IsList
<1>3. bad # 0 <=> I # {}
  <2> HIDE DEF I
  <2>1. I \subseteq DOMAIN psbt.inputs
    BY <1>2 DEF I
  <2> QED
    BY <1>1, <2>1, MinOfIndices
<1>4. I # {} => InputError(psbt.inputs[bad], coins) # "ok"
  <2> HIDE DEF I
  <2>1. I \subseteq DOMAIN psbt.inputs
    BY <1>2 DEF I
  <2>2. I # {} => bad \in I
    BY <1>1, <2>1, MinOfIndices
  <2> QED
    BY <2>2 DEF I
<1>5. spoofed # 0 <=> J # {}
  <2> HIDE DEF J
  <2>1. J \subseteq DOMAIN psbt.outputs
    BY <1>2 DEF J
  <2> QED
    BY <1>1, <2>1, MinOfIndices
<1>6. inspect_error(psbt, coins) =
        CASE psbt.inputs = <<>> \/ psbt.outputs = <<>> -> "invalid_transaction"
          [] OTHER ->
               IF bad # 0 THEN InputError(psbt.inputs[bad], coins)
               ELSE IF spoofed # 0 THEN "spoofed_change"
               ELSE IF total_out(psbt) >= total_in(psbt, coins)
                 THEN "invalid_transaction"
               ELSE "ok"
  BY DEF inspect_error, SelectInSeq
<1>7. (\A i \in DOMAIN psbt.inputs : InputError(psbt.inputs[i], coins) = "ok")
        <=> I = {}
  BY <1>2
<1>8. (\A i \in DOMAIN psbt.outputs :
         OutputKind(psbt.outputs[i]) # "spoofed_change") <=> J = {}
  BY <1>2
<1> HIDE DEF I, J, bad, spoofed
<1> QED
  BY <1>3, <1>4, <1>5, <1>6, <1>7, <1>8

\* An input that passes is a coin of ours, and nothing is claimed of it but what
\* the chain says.
LEMMA InputIsOk ==
  ASSUME NEW input, NEW coins
  PROVE  InputError(input, coins) = "ok" <=>
           /\ input.outpoint \in DOMAIN coins
           /\ \A claim \in input.claimed : claim = coins[input.outpoint].txout
           /\ find_owner(coins[input.outpoint].txout.script)
BY DEF InputError

-----------------------------------------------------------------------------
(* The paths and the caps. *)

Approved(tx, path) == <<tx, path>> \in approved

\* What the service asks of a recovery: sequences that let the phone's branch
\* spend every input, and nothing paid but to the whitelist.
RecoveryFits(tx) ==
  /\ \A i \in DOMAIN tx.inputs : check_older(tx.inputs[i].sequence, wallet)
  /\ \A i \in DOMAIN tx.outputs :
       \/ find_owner(tx.outputs[i].script)
       \/ tx.outputs[i].script \in RecoveryWhitelist

\* The SERVER signs nothing that is not recorded, and records nothing it has
\* not approved on a path; what it has approved as a recovery fits one, whatever
\* entries it was shown.
Accounted ==
  /\ \A s \in signed : s[2] = "server" => already_recorded(ledger, s[1])
  /\ \A row \in ledger :
       Approved(row.txid, "hot") \/ Approved(row.txid, "recovery")
  /\ \A a \in approved :
       /\ wallet # Nothing /\ already_recorded(ledger, a[1])
       /\ a[2] = "recovery" => RecoveryFits(a[1])

\* A row counts what its transaction pays away, and the rows of hot spends keep
\* to the caps: of recoveries the ledger may hold any amount.
HotRows == {row \in ledger : Approved(row.txid, "hot")}

HotTotal == SumFunctionOnSet([row \in ledger |-> row.spend_sat], HotRows)

CapsKept ==
  /\ IsFiniteSet(ledger)
  /\ \A row \in ledger :
       row.recorded_at = Now /\ row.spend_sat = PaidAway(row.txid)
  /\ \A row \in HotRows : row.spend_sat <= Policy.max_tx_sat
  /\ HotTotal <= Policy.max_daily_sat
  /\ HotTotal <= Policy.max_weekly_sat
  /\ HotTotal <= Policy.max_monthly_sat

\* Consensus asks for the SERVER as long as a coin is young; with the SERVER's
\* key, a spend was judged by the caps or keeps the rules of a recovery.
SpendsFit ==
  /\ wallet = Nothing => spends = {}
  /\ \A s \in spends : s.age < wallet => "server" \in s.keys
  /\ \A s \in spends :
       "server" \in s.keys => Approved(s.tx, "hot") \/ ByRecoveryRules(s)

IInv == Accounted /\ CapsKept /\ SpendsFit

LEMMA NoRowsNoTotal ==
  ASSUME ledger = {}
  PROVE  CapsKept
<1>1. HotRows = {}
  BY DEF HotRows
<1>2. HotTotal = 0
  <2> DEFINE f == [row \in ledger |-> row.spend_sat]
  <2>1. HotTotal = SumFunctionOnSet(f, {})
    BY <1>1 DEF HotTotal
  <2> HIDE DEF f
  <2> QED
    BY <2>1, SumTypes, FS_EmptySet
<1> QED
  BY <1>1, <1>2, FS_EmptySet, SpendAssumption DEF CapsKept, CompiledPolicy

LEMMA IInvInit == Init => IInv
<1> SUFFICES ASSUME Init PROVE IInv
  OBVIOUS
<1>1. CapsKept
  BY NoRowsNoTotal DEF Init
<1> QED
  BY <1>1 DEF Init, IInv, Accounted, SpendsFit

\* The steps that neither spend nor have the SERVER sign.
LEMMA OtherStepsKeepIInv ==
  ASSUME IInv,
         \/ \E c \in Candidates : Check(c)
         \/ \E n \in Timelocks : Build(n)
         \/ SweepOwnersCoins
         \/ \E p \in Psbts, r \in Role : DeviceSign(p, r)
         \/ \E r \in Role : LoseDevice(r)
         \/ Block
  PROVE  IInv'
<1>1. UNCHANGED <<ledger, approved, spends>>
  BY DEF Check, Build, SweepOwnersCoins, BuildSweep, DeviceSign, LoseDevice,
         Block, chain, service
<1>2. CapsKept'
  BY <1>1 DEF IInv, CapsKept, HotTotal, HotRows, Approved
<1>3. \A s \in signed' : s[2] = "server" => s \in signed
  <2>1. CASE \E p \in Psbts, r \in Role : DeviceSign(p, r)
    <3> PICK p \in Psbts, r \in Role : DeviceSign(p, r)
      BY <2>1
    <3> DEFINE new == <<unsigned_tx(p), r>>
    <3>1. new[2] # "server" /\ signed' = signed \cup {new}
      BY DEF DeviceSign
    <3> HIDE DEF new
    <3> QED
      BY <3>1
  <2>2. CASE UNCHANGED signed
    BY <2>2
  <2> QED
    BY <2>1, <2>2 DEF Check, Build, SweepOwnersCoins, BuildSweep, LoseDevice,
                      Block
<1>4. CASE UNCHANGED wallet
  BY <1>1, <1>2, <1>3, <1>4 DEF IInv, Accounted, Approved, RecoveryFits,
                                SpendsFit, ByRecoveryRules
<1>5. CASE \E n \in Timelocks : Build(n)
  <2>1. spends = {} /\ approved = {}
    BY <1>5 DEF Build, IInv, SpendsFit, Accounted
  <2> QED
    BY <1>1, <1>2, <1>3, <2>1 DEF IInv, Accounted, Approved, SpendsFit
<1> QED
  BY <1>4, <1>5 DEF Check, SweepOwnersCoins, BuildSweep, DeviceSign,
                    LoseDevice, Block

\* What the service notes of a PSBT that passed inspection is what its
\* transaction pays away: an output is a destination or the wallet's own.
LEMMA RecordedSpend ==
  ASSUME NEW psbt, IsPsbt(psbt), inspect_error(psbt, utxo) = "ok",
         NEW tx, tx = unsigned_tx(psbt), NEW n
  PROVE  /\ inspect(psbt, utxo, n).spend_sat = PaidAway(tx)
         /\ \A i \in DOMAIN tx.outputs :
              \/ find_owner(tx.outputs[i].script)
              \/ tx.outputs[i].script \in inspect(psbt, utxo, n).dests
<1> DEFINE D == Destinations(psbt)
           theirs == {i \in DOMAIN tx.outputs :
                        ~find_owner(tx.outputs[i].script)}
<1>1. \A i \in DOMAIN psbt.outputs :
        OutputKind(psbt.outputs[i]) # "spoofed_change"
  BY InspectsOk
<1>2. D = theirs
  BY <1>1, TxOfPsbt DEF Destinations, OutputKind
<1>3. inspect(psbt, utxo, n).spend_sat
        = SumFunctionOnSet(OutputValues(psbt), D)
  BY ReportedSpend
<1>4. OutputValues(tx) = OutputValues(psbt)
  BY ValuesOfTx
<1>5. PaidAway(tx) = SumFunctionOnSet(OutputValues(tx), theirs)
  BY DEF PaidAway
<1>6. inspect(psbt, utxo, n).dests = {psbt.outputs[i].script : i \in D}
  BY Zenon DEF inspect
<1>7. \A i \in D : tx.outputs[i].script = psbt.outputs[i].script
  BY TxOfPsbt DEF Destinations
<1>8. \A i \in DOMAIN tx.outputs : i \in theirs
                                   \/ find_owner(tx.outputs[i].script)
  OBVIOUS
<1> HIDE DEF D, theirs
<1> QED
  BY <1>2, <1>3, <1>4, <1>5, <1>6, <1>7, <1>8

\* All rows fall into each of the three windows.
LEMMA AllCount ==
  ASSUME CapsKept
  PROVE  LET total == SumFunctionOnSet([row \in ledger |-> row.spend_sat],
                                       ledger)
         IN /\ rolling_totals(ledger, Now).day_sat = total
            /\ rolling_totals(ledger, Now).week_sat = total
            /\ rolling_totals(ledger, Now).month_sat = total
<1> DEFINE f == [row \in ledger |-> row.spend_sat]
<1>1. ASSUME NEW w \in Nat, 0 < w
      PROVE  SpentSince(ledger, Now, w) = SumFunctionOnSet(f, ledger)
  <2>1. {e \in ledger : Now - e.recorded_at \in 0 .. w - 1} = ledger
    BY <1>1 DEF CapsKept, Now
  <2> QED
    BY <2>1 DEF SpentSince
<1>2. /\ DaySeconds \in Nat /\ 0 < DaySeconds
      /\ WeekSeconds \in Nat /\ 0 < WeekSeconds
      /\ MonthSeconds \in Nat /\ 0 < MonthSeconds
  BY WindowAssumption
<1> HIDE DEF f
<1>3. /\ SpentSince(ledger, Now, DaySeconds) = SumFunctionOnSet(f, ledger)
      /\ SpentSince(ledger, Now, WeekSeconds) = SumFunctionOnSet(f, ledger)
      /\ SpentSince(ledger, Now, MonthSeconds) = SumFunctionOnSet(f, ledger)
  BY <1>1, <1>2
<1>4. /\ rolling_totals(ledger, Now).day_sat = SumFunctionOnSet(f, ledger)
      /\ rolling_totals(ledger, Now).week_sat = SumFunctionOnSet(f, ledger)
      /\ rolling_totals(ledger, Now).month_sat = SumFunctionOnSet(f, ledger)
  BY <1>3 DEF rolling_totals
<1> QED
  BY <1>4 DEF f

\* A judged spend keeps the caps together with all hot rows there are.
LEMMA JudgedKeepsCaps ==
  ASSUME TypeOK, CapsKept, NEW report, Judge(report), report.path = "hot",
         report.spend_sat \in Nat
  PROVE  /\ HotTotal \in Nat
         /\ report.spend_sat <= Policy.max_tx_sat
         /\ HotTotal + report.spend_sat <= Policy.max_daily_sat
         /\ HotTotal + report.spend_sat <= Policy.max_weekly_sat
         /\ HotTotal + report.spend_sat <= Policy.max_monthly_sat
<1> DEFINE f == [row \in ledger |-> row.spend_sat]
           all == SumFunctionOnSet(f, ledger)
           rolling == rolling_totals(ledger, Now)
<1>1. rolling.day_sat = all /\ rolling.week_sat = all /\ rolling.month_sat = all
  BY AllCount
<1>2. evaluate_policy(report, rolling, Policy)
  BY DEF Judge
<1>3. \A row \in ledger : f[row] \in Nat
  BY DEF TypeOK
<1>4. HotTotal = SumFunctionOnSet(f, HotRows)
  BY DEF HotTotal
<1> HIDE DEF f
<1>5. HotTotal \in Nat /\ all \in Nat /\ HotTotal <= all
  BY <1>3, <1>4, SumGrows DEF CapsKept, HotRows
<1> HIDE DEF all, rolling
<1>6. /\ report.spend_sat <= Policy.max_tx_sat
      /\ all + report.spend_sat <= Policy.max_daily_sat
      /\ all + report.spend_sat <= Policy.max_weekly_sat
      /\ all + report.spend_sat <= Policy.max_monthly_sat
  BY <1>1, <1>2 DEF evaluate_policy
<1>7. /\ Policy.max_daily_sat \in Nat /\ Policy.max_weekly_sat \in Nat
      /\ Policy.max_monthly_sat \in Nat
  BY SpendAssumption DEF CompiledPolicy
<1> QED
  BY <1>5, <1>6, <1>7

\* One row more.
LEMMA RowKeepsCaps ==
  ASSUME TypeOK, Accounted, CapsKept,
         NEW tx, ~already_recorded(ledger, tx),
         NEW row, row.txid = tx, row.recorded_at = Now,
         row.spend_sat = PaidAway(tx), row.spend_sat \in Nat,
         NEW path \in {"hot", "recovery"},
         ledger' = ledger \cup {row}, approved' = approved \cup {<<tx, path>>},
         path = "hot" =>
           /\ row.spend_sat <= Policy.max_tx_sat
           /\ HotTotal + row.spend_sat <= Policy.max_daily_sat
           /\ HotTotal + row.spend_sat <= Policy.max_weekly_sat
           /\ HotTotal + row.spend_sat <= Policy.max_monthly_sat
  PROVE  CapsKept'
<1> DEFINE f == [r \in ledger |-> r.spend_sat]
           g == [r \in ledger' |-> r.spend_sat]
<1>1. row \notin ledger /\ \A r \in ledger : r.txid # tx
  BY DEF already_recorded
<1>2. /\ IsFiniteSet(ledger') /\ IsFiniteSet(HotRows)
      /\ HotRows \subseteq ledger
  BY FS_AddElement, FS_Subset DEF CapsKept, HotRows
<1>3. ASSUME NEW r \in ledger
      PROVE  <<r.txid, "hot">> \in approved' <=> Approved(r.txid, "hot")
  BY <1>1 DEF Approved
<1>4. <<tx, "hot">> \in approved' <=> path = "hot"
  <2>1. <<tx, "hot">> \notin approved
    <3>1. <<tx, "hot">>[1] = tx
      OBVIOUS
    <3> QED
      BY <3>1 DEF Accounted
  <2> QED
    BY <2>1
<1>5. HotRows' = IF path = "hot" THEN HotRows \cup {row} ELSE HotRows
  <2>1. HotRows' = {r \in ledger' : <<r.txid, "hot">> \in approved'}
    BY DEF HotRows, Approved
  <2>2. \A r : r \in HotRows' <=>
          r \in HotRows \/ (r = row /\ path = "hot")
    BY <1>1, <1>3, <1>4, <2>1 DEF HotRows
  <2> QED
    BY <2>2
<1>6. HotTotal = SumFunctionOnSet(f, HotRows)
      /\ HotTotal' = SumFunctionOnSet(g, HotRows')
  BY DEF HotTotal
<1>7. /\ \A r \in HotRows : g[r] \in Nat /\ f[r] = g[r]
      /\ g[row] = row.spend_sat
  BY <1>2 DEF TypeOK
<1> HIDE DEF f, g
<1>8. SumFunctionOnSet(f, HotRows) = SumFunctionOnSet(g, HotRows)
  <2>1. \A r \in HotRows : f[r] \in Int /\ g[r] = f[r]
    BY <1>7
  <2> QED
    BY <1>2, <2>1, SumsOfEqualsAreEqual
<1>9. CASE path = "hot"
  <2>1. SumFunctionOnSet(g, HotRows \cup {row})
          = g[row] + SumFunctionOnSet(g, HotRows)
    <3>1. row \notin HotRows /\ \A r \in HotRows : g[r] \in Int
      BY <1>1, <1>2, <1>7
    <3>2. g[row] \in Int
      BY <1>7
    <3> QED
      BY <1>2, <3>1, <3>2, SumAdds
  <2>2. SumFunctionOnSet(g, HotRows) \in Int
    BY <1>2, <1>7, SumGrows
  <2>3. HotTotal' = HotTotal + row.spend_sat
    BY <1>5, <1>6, <1>7, <1>8, <1>9, <2>1, <2>2
  <2>4. \A r \in HotRows' : r \in HotRows \/ r = row
    BY <1>5
  <2> QED
    BY <1>2, <1>9, <2>3, <2>4 DEF CapsKept
<1>10. CASE path # "hot"
  <2>1. HotTotal' = HotTotal /\ HotRows' = HotRows
    BY <1>5, <1>6, <1>8, <1>10
  <2> QED
    BY <1>2, <2>1 DEF CapsKept
<1> QED
  BY <1>9, <1>10

\* The SERVER's signature: either the transaction is on record, or it is judged
\* now, on the path that the entries it shows make of it.
LEMMA CoSignKeepsIInv ==
  ASSUME Typed, IInv, NEW q, IsPsbt(q), CoSign(q)
  PROVE  IInv'
<1> DEFINE tx == unsigned_tx(q)
           report == inspect(q, utxo, wallet)
           row == [txid |-> tx, recorded_at |-> Now,
                   spend_sat |-> report.spend_sat]
<1>1. report.txid = tx /\ inspect_error(q, utxo) = "ok"
  BY ReportedTx DEF CoSign
<1>2. /\ wallet # Nothing
      /\ UNCHANGED <<wallet, utxo, spends, sweeps>>
      /\ signed' = signed \cup {<<tx, "server">>}
      /\ \/ already_recorded(ledger, tx) /\ UNCHANGED <<ledger, approved>>
         \/ /\ ~already_recorded(ledger, tx) /\ Judge(report)
            /\ ledger' = ledger \cup {row}
            /\ approved' = approved \cup {<<tx, report.path>>}
  BY <1>1 DEF CoSign, chain, service
<1>3. /\ report.spend_sat = PaidAway(tx) /\ report.spend_sat \in Nat
      /\ \A i \in DOMAIN tx.outputs : \/ find_owner(tx.outputs[i].script)
                                      \/ tx.outputs[i].script \in report.dests
  BY <1>1, RecordedSpend, ReportedSpend
<1>4. report.path = "recovery" =>
        \A i \in DOMAIN tx.inputs :
          check_older(tx.inputs[i].sequence, wallet)
  <2>1. report.path = "recovery" =>
          \A i \in DOMAIN q.inputs :
            check_older(q.inputs[i].sequence, wallet)
    BY PathOfReport
  <2>2. /\ DOMAIN tx.inputs = DOMAIN q.inputs
        /\ \A i \in DOMAIN q.inputs :
             tx.inputs[i].sequence = q.inputs[i].sequence
    BY TxOfPsbt
  <2> HIDE DEF tx, report
  <2> QED
    BY <2>1, <2>2
<1> HIDE DEF tx, report
<1>5. row.txid = tx /\ row.recorded_at = Now
      /\ row.spend_sat = report.spend_sat
  OBVIOUS
<1> HIDE DEF row
<1>6. Judge(report) => report.path \in {"hot", "recovery"}
  BY ReportedPath
<1>7. Judge(report) /\ report.path = "recovery" => RecoveryFits(tx)
  BY <1>3, <1>4 DEF Judge, evaluate_recovery_policy, RecoveryFits
<1>8. /\ already_recorded(ledger', tx)
      /\ \A t : already_recorded(ledger, t) => already_recorded(ledger', t)
      /\ approved \subseteq approved'
  BY <1>2, <1>5 DEF already_recorded
<1>9. Accounted'
  <2>1. ASSUME NEW s \in signed', s[2] = "server"
        PROVE  already_recorded(ledger', s[1])
    BY <1>2, <1>8, <2>1 DEF IInv, Accounted
  <2>2. ASSUME NEW r \in ledger'
        PROVE  <<r.txid, "hot">> \in approved'
               \/ <<r.txid, "recovery">> \in approved'
    <3>1. CASE r \in ledger
      <4>1. \/ <<r.txid, "hot">> \in approved
            \/ <<r.txid, "recovery">> \in approved
        BY <3>1 DEF IInv, Accounted, Approved
      <4> QED
        BY <1>8, <4>1
    <3>2. CASE r \notin ledger
      <4>1. r = row /\ Judge(report) /\ <<tx, report.path>> \in approved'
        BY <1>2, <3>2
      <4> QED
        BY <1>5, <1>6, <4>1
    <3> QED
      BY <3>1, <3>2
  <2>3. ASSUME NEW a \in approved'
        PROVE  /\ already_recorded(ledger', a[1])
               /\ a[2] = "recovery" => RecoveryFits(a[1])
    <3>1. CASE a \in approved
      BY <1>8, <3>1 DEF IInv, Accounted
    <3>2. CASE a \notin approved
      <4>1. a = <<tx, report.path>> /\ Judge(report)
        BY <1>2, <3>2
      <4>2. a[1] = tx /\ a[2] = report.path
        BY <4>1
      <4> QED
        BY <1>7, <1>8, <4>1, <4>2
    <3> QED
      BY <3>1, <3>2
  <2> QED
    BY <1>2, <2>1, <2>2, <2>3 DEF Accounted, Approved, RecoveryFits
<1>10. CapsKept'
  <2>1. CASE UNCHANGED <<ledger, approved>>
    BY <2>1 DEF IInv, CapsKept, HotTotal, HotRows, Approved
  <2>2. CASE /\ ~already_recorded(ledger, tx) /\ Judge(report)
             /\ ledger' = ledger \cup {row}
             /\ approved' = approved \cup {<<tx, report.path>>}
    <3>1. report.path = "hot" =>
            /\ row.spend_sat <= Policy.max_tx_sat
            /\ HotTotal + row.spend_sat <= Policy.max_daily_sat
            /\ HotTotal + row.spend_sat <= Policy.max_weekly_sat
            /\ HotTotal + row.spend_sat <= Policy.max_monthly_sat
      BY <1>3, <1>5, <2>2, JudgedKeepsCaps DEF IInv, Typed
    <3>2. TypeOK /\ Accounted /\ CapsKept
      BY DEF IInv, Typed
    <3>3. report.path \in {"hot", "recovery"}
      BY <1>6, <2>2
    <3> QED
      BY <1>3, <1>5, <2>2, <3>1, <3>2, <3>3, RowKeepsCaps
  <2> QED
    BY <1>2, <2>1, <2>2
<1>11. SpendsFit'
  BY <1>2, <1>8 DEF IInv, SpendsFit, Approved, ByRecoveryRules
<1> QED
  BY <1>9, <1>10, <1>11 DEF IInv

\* What consensus asks of an input, in the service's terms: before the timelock
\* has passed, the SERVER's signature; of a sequence that lets the phone spend,
\* a coin of that age.
LEMMA ValidInput ==
  ASSUME Typed, wallet # Nothing, NEW input, input.sequence \in Int,
         NEW keys, InputValid(input, keys)
  PROVE  /\ utxo[input.outpoint].confirmations < wallet => "server" \in keys
         /\ check_older(input.sequence, wallet) =>
              utxo[input.outpoint].confirmations >= wallet
<1> DEFINE s == IF input.sequence = NoRelativeLock THEN 0 ELSE input.sequence
<1>1. wallet \in Nat \ {0}
  BY WalletIsNat, TimelockAssumption
<1>2. /\ utxo[input.outpoint].confirmations \in Nat
      /\ input.sequence <= utxo[input.outpoint].confirmations
      /\ Spends(policy_string(wallet), keys, s)
  BY SpendAssumption DEF InputValid, Typed, TypeOK
<1>3. \/ "satochip" \in keys /\ "server" \in keys
      \/ wallet <= s
  BY <1>2 DEF Spends, policy_string
<1>4. check_older(input.sequence, wallet) <=>
        input.sequence # NoRelativeLock /\ wallet <= input.sequence
  BY DEF check_older
<1>5. s \in Int /\ (wallet <= s => s = input.sequence /\ s # NoRelativeLock)
  BY <1>1 DEF NoRelativeLock
<1> QED
  BY <1>1, <1>2, <1>3, <1>4, <1>5

\* A transaction the SERVER signed was approved on one of the two paths.
LEMMA ServerApproved ==
  ASSUME Accounted, NEW tx, NEW keys, keys \subseteq Signers(tx),
         "server" \in keys
  PROVE  Approved(tx, "hot") \/ (Approved(tx, "recovery") /\ RecoveryFits(tx))
<1>1. <<tx, "server">> \in signed
  BY DEF Signers
<1>2. <<tx, "server">>[1] = tx /\ <<tx, "server">>[2] = "server"
      /\ <<tx, "recovery">>[1] = tx /\ <<tx, "recovery">>[2] = "recovery"
  OBVIOUS
<1>3. already_recorded(ledger, tx)
  BY <1>1, <1>2 DEF Accounted
<1>4. Approved(tx, "hot") \/ Approved(tx, "recovery")
  BY <1>3 DEF already_recorded, Accounted
<1> QED
  BY <1>2, <1>4 DEF Approved, Accounted

LEMMA BroadcastKeepsIInv ==
  ASSUME Typed, IInv, NEW tx \in Transactions, NEW keys \in Pairs(Role),
         Broadcast(tx, keys)
  PROVE  IInv'
<1>1. /\ wallet # Nothing
      /\ TxValid(tx, keys)
      /\ UNCHANGED <<wallet, sweeps, signed, ledger, approved>>
  BY CoinsAfterBroadcast
<1>2. \A s \in spends' : s \in spends \/ \E i \in DOMAIN tx.inputs :
        /\ s.age = utxo[tx.inputs[i].outpoint].confirmations
        /\ s.tx = tx /\ s.keys = keys
  <2> SUFFICES ASSUME NEW s \in spends', s \notin spends
               PROVE  \E i \in DOMAIN tx.inputs :
                        /\ s.age = utxo[tx.inputs[i].outpoint].confirmations
                        /\ s.tx = tx /\ s.keys = keys
    OBVIOUS
  <2>1. spends' = spends \cup {SpendOf(o, tx, keys) : o \in SpentBy(tx)}
    BY CoinsAfterBroadcast
  <2>2. PICK o \in SpentBy(tx) : s = SpendOf(o, tx, keys)
    BY <2>1
  <2>3. PICK i \in DOMAIN tx.inputs : o = tx.inputs[i].outpoint
    BY DEF SpentBy
  <2> QED
    BY <2>2, <2>3, SpendFields
<1>3. \A i \in DOMAIN tx.inputs : tx.inputs[i].sequence \in Int
  BY DEF Transactions, Typed, IsTx
<1>4. ASSUME NEW i \in DOMAIN tx.inputs
      PROVE  /\ utxo[tx.inputs[i].outpoint].confirmations < wallet =>
                  "server" \in keys
             /\ check_older(tx.inputs[i].sequence, wallet) =>
                  utxo[tx.inputs[i].outpoint].confirmations >= wallet
  BY <1>1, <1>3, ValidInput DEF TxValid
<1>5. "server" \in keys =>
        Approved(tx, "hot") \/ (Approved(tx, "recovery") /\ RecoveryFits(tx))
  BY <1>1, ServerApproved DEF TxValid, IInv
<1>6. ASSUME NEW s \in spends'
      PROVE  /\ s.age < wallet => "server" \in s.keys
             /\ "server" \in s.keys =>
                  Approved(s.tx, "hot") \/ ByRecoveryRules(s)
  <2>1. CASE s \in spends
    BY <2>1 DEF IInv, SpendsFit
  <2>2. CASE s \notin spends
    <3>1. PICK i \in DOMAIN tx.inputs :
            /\ s.age = utxo[tx.inputs[i].outpoint].confirmations
            /\ s.tx = tx /\ s.keys = keys
      BY <1>2, <2>2
    <3>2. ASSUME RecoveryFits(tx) PROVE ByRecoveryRules(s)
      <4>1. s.age >= wallet
        BY <1>4, <3>1, <3>2 DEF RecoveryFits
      <4>2. \A j \in DOMAIN s.tx.outputs :
              \/ find_owner(s.tx.outputs[j].script)
              \/ s.tx.outputs[j].script \in RecoveryWhitelist
        BY <3>1, <3>2 DEF RecoveryFits
      <4> QED
        BY <4>1, <4>2 DEF ByRecoveryRules
    <3> QED
      BY <1>4, <1>5, <3>1, <3>2
  <2> QED
    BY <2>1, <2>2
<1>7. SpendsFit'
  BY <1>1, <1>6 DEF SpendsFit, Approved, ByRecoveryRules
<1>8. Accounted' /\ CapsKept'
  BY <1>1 DEF IInv, Accounted, Approved, RecoveryFits, CapsKept, HotTotal,
              HotRows
<1> QED
  BY <1>7, <1>8 DEF IInv

LEMMA NextKeepsIInv == Typed /\ IInv /\ [Next]_vars => IInv'
<1> SUFFICES ASSUME Typed, IInv, [Next]_vars PROVE IInv'
  OBVIOUS
<1>1. CASE UNCHANGED vars
  BY <1>1 DEF vars, service, chain, IInv, Accounted, Approved, RecoveryFits,
              CapsKept, HotTotal, HotRows, SpendsFit, ByRecoveryRules
<1>2. CASE \E p \in Psbts : Submit(p)
  BY <1>2, ShownToServer, CoSignKeepsIInv
<1>3. CASE \E tx \in Transactions, keys \in Pairs(Role) : Broadcast(tx, keys)
  BY <1>3, BroadcastKeepsIInv
<1> QED
  BY <1>1, <1>2, <1>3, OtherStepsKeepIInv DEF Next

LEMMA IInvAlways == Spec => []IInv
BY IInvInit, NextKeepsIInv, TypedAlways, PTL DEF Spec

\* Whatever PSBTs are drafted, whatever entries they show, and whoever
\* broadcasts, a coin younger than the timelock leaves the wallet only by a
\* transaction judged by the caps.
THEOREM EarlySpendsAlwaysMetTheCaps == Spec => []EarlySpendsMetTheCaps
<1>1. TypeOK /\ IInv => EarlySpendsMetTheCaps
  <2> SUFFICES ASSUME TypeOK, IInv, NEW s \in spends, s.age < wallet
               PROVE  Approved(s.tx, "hot")
    BY DEF EarlySpendsMetTheCaps, Approved
  <2>1. "server" \in s.keys
    BY DEF IInv, SpendsFit
  <2>2. Approved(s.tx, "hot") \/ ByRecoveryRules(s)
    BY <2>1 DEF IInv, SpendsFit
  <2>3. s.age \in Int /\ wallet \in Int
    BY SpendAssumption DEF TypeOK, IInv, SpendsFit
  <2> QED
    BY <2>2, <2>3 DEF ByRecoveryRules
<1> QED
  BY <1>1, SpendPathsTypeOK, IInvAlways, PTL

\* Each transaction outside the recovery rules has a row of its own among those
\* of the hot spends.
LEMMA HotRowsCoverSpends ==
  ASSUME TypeOK, IInv
  PROVE  /\ IsFiniteSet(OutsideRecoveryRules)
         /\ \A tx \in OutsideRecoveryRules :
              \E row \in HotRows : row.txid = tx
<1>1. ASSUME NEW tx \in OutsideRecoveryRules
      PROVE  \E row \in HotRows : row.txid = tx
  <2>1. PICK s \in spends :
          "server" \in s.keys /\ ~ByRecoveryRules(s) /\ s.tx = tx
    BY DEF OutsideRecoveryRules
  <2>2. Approved(tx, "hot")
    BY <2>1 DEF IInv, SpendsFit
  <2>3. <<tx, "hot">>[1] = tx
    OBVIOUS
  <2>4. already_recorded(ledger, tx)
    BY <2>2, <2>3 DEF Approved, IInv, Accounted
  <2> QED
    BY <2>2, <2>4 DEF already_recorded, HotRows
<1> DEFINE h == [row \in ledger |-> row.txid]
<1>2. IsFiniteSet({h[row] : row \in ledger})
  <2> HIDE DEF h
  <2> QED
    BY ImageIsFinite DEF IInv, CapsKept
<1>3. OutsideRecoveryRules \subseteq {h[row] : row \in ledger}
  BY <1>1 DEF HotRows
<1> HIDE DEF h
<1> QED
  BY <1>1, <1>2, <1>3, FS_Subset

\* And whatever the entries, what the SERVER helps to pay away, other than by
\* the rules of a recovery, keeps to every cap.
THEOREM CapsAlwaysHold == Spec => []CapsHoldWhateverIsShown
<1>1. TypeOK /\ IInv => CapsHoldWhateverIsShown
  <2> SUFFICES ASSUME TypeOK, IInv PROVE CapsHoldWhateverIsShown
    OBVIOUS
  <2> DEFINE txs == OutsideRecoveryRules
             f == [tx \in txs |-> PaidAway(tx)]
             e == [row \in ledger |-> row.spend_sat]
             h == [tx \in txs |-> CHOOSE row \in HotRows : row.txid = tx]
             together == SumFunctionOnSet(f, txs)
             image == {h[tx] : tx \in txs}
  <2>1. \A tx \in txs : h[tx] \in HotRows /\ h[tx].txid = tx
    BY HotRowsCoverSpends
  <2>2. HotRows \subseteq ledger /\ IsFiniteSet(HotRows)
    BY FS_Subset DEF IInv, CapsKept, HotRows
  <2>3. \A tx \in txs : /\ e[h[tx]] = f[tx] /\ f[tx] \in Nat
                        /\ PaidAway(tx) = h[tx].spend_sat
    BY <2>1, <2>2 DEF IInv, CapsKept, TypeOK
  <2>4. \A tx \in txs : PaidAway(tx) <= Policy.max_tx_sat
    <3>1. \A row \in HotRows : row.spend_sat <= Policy.max_tx_sat
      BY DEF IInv, CapsKept
    <3> HIDE DEF h, txs
    <3> QED
      BY <2>1, <2>3, <3>1
  <2>5. \A tx, u \in txs : h[tx] = h[u] => tx = u
    BY <2>1
  <2>6. IsFiniteSet(txs)
    BY HotRowsCoverSpends
  <2>7. \A row \in HotRows : e[row] \in Nat
    BY <2>2 DEF TypeOK
  <2>8. HotTotal = SumFunctionOnSet(e, HotRows)
    BY DEF HotTotal
  <2>9. image \subseteq HotRows
    BY <2>1
  <2>10. /\ HotTotal <= Policy.max_daily_sat
         /\ HotTotal <= Policy.max_weekly_sat
         /\ HotTotal <= Policy.max_monthly_sat
    BY DEF IInv, CapsKept
  <2>11. /\ Policy.max_daily_sat \in Nat /\ Policy.max_weekly_sat \in Nat
         /\ Policy.max_monthly_sat \in Nat
    BY SpendAssumption DEF CompiledPolicy
  <2>12. CapsHoldWhateverIsShown <=>
           /\ \A tx \in txs : PaidAway(tx) <= Policy.max_tx_sat
           /\ together <= Policy.max_daily_sat
           /\ together <= Policy.max_weekly_sat
           /\ together <= Policy.max_monthly_sat
    BY DEF CapsHoldWhateverIsShown
  <2> HIDE DEF f, e, h, txs
  <2>13. SumFunctionOnSet(e, {h[tx] : tx \in txs}) = SumFunctionOnSet(f, txs)
    BY <2>3, <2>5, <2>6, SumOfImage
  <2> HIDE DEF image
  <2>14. /\ SumFunctionOnSet(e, image) \in Nat
         /\ SumFunctionOnSet(e, HotRows) \in Nat
         /\ SumFunctionOnSet(e, image) <= SumFunctionOnSet(e, HotRows)
    BY <2>2, <2>7, <2>9, SumGrows
  <2>15. together = SumFunctionOnSet(e, image)
    BY <2>13 DEF image
  <2> HIDE DEF together
  <2> QED
    BY <2>4, <2>8, <2>10, <2>11, <2>12, <2>14, <2>15
<1> QED
  BY <1>1, SpendPathsTypeOK, IInvAlways, PTL

-----------------------------------------------------------------------------
(* Coins. *)

\* The coins that have been spent, and all that there have been.
Gone == {s.coin : s \in spends}

Known == DOMAIN utxo \cup Gone

\* Whether all that a transaction spends is there.
Unspent(tx) == \A i \in DOMAIN tx.inputs : tx.inputs[i].outpoint \in DOMAIN utxo

\* A coin is spent once, and what made a coin has spent its own inputs: no
\* transaction comes back, and no outpoint names two coins.
CoinsGone ==
  /\ \A o \in Gone : o \notin DOMAIN utxo
  /\ \A o \in Known : \A i \in DOMAIN o[1].inputs :
       o[1].inputs[i].outpoint \in Gone
  /\ \A s \in spends : \A i \in DOMAIN s.tx.inputs :
       s.tx.inputs[i].outpoint \in Gone

LEMMA CoinSteps ==
  ASSUME [Next]_vars
  PROVE  \/ UNCHANGED <<utxo, spends>>
         \/ Block
         \/ \E tx \in Transactions, keys \in Pairs(Role) : Broadcast(tx, keys)
<1>1. CASE UNCHANGED vars
  BY <1>1 DEF vars
<1>2. CASE \E c \in Candidates : Check(c)
  BY <1>2 DEF Check, chain
<1>3. CASE \E n \in Timelocks : Build(n)
  BY <1>3 DEF Build, chain
<1>4. CASE SweepOwnersCoins
  BY <1>4 DEF SweepOwnersCoins, BuildSweep, chain
<1>5. CASE \E p \in Psbts, r \in Role : DeviceSign(p, r)
  BY <1>5 DEF DeviceSign, chain
<1>6. CASE \E r \in Role : LoseDevice(r)
  BY <1>6 DEF LoseDevice, chain
<1>7. CASE \E p \in Psbts : Submit(p)
  BY <1>7 DEF Submit, CoSign, chain
<1> QED
  BY <1>1, <1>2, <1>3, <1>4, <1>5, <1>6, <1>7 DEF Next

LEMMA HasFirst ==
  ASSUME NEW s, IsList(s), s # <<>>
  PROVE  1 \in DOMAIN s
<1>1. Len(s) \in Nat /\ DOMAIN s = 1..Len(s) /\ s = [i \in 1..Len(s) |-> s[i]]
  BY DEF IsList
<1>2. CASE Len(s) = 0
  <2>1. 1..Len(s) = {}
    BY <1>2
  <2>2. s = <<>>
    BY <1>1, <2>1
  <2> QED
    BY <2>2
<1> QED
  BY <1>1, <1>2

LEMMA BlockKeepsCoins ==
  ASSUME Block
  PROVE  /\ DOMAIN utxo' = DOMAIN utxo /\ spends' = spends
         /\ \A o \in DOMAIN utxo : utxo'[o].txout = utxo[o].txout
<1>1. DOMAIN utxo' = DOMAIN utxo /\ spends' = spends
  BY DEF Block
<1>2. ASSUME NEW o \in DOMAIN utxo
      PROVE  utxo'[o].txout = utxo[o].txout
  <2> DEFINE c == utxo[o].confirmations
             d == IF c < MaxAge THEN c + 1 ELSE c
  <2>1. utxo'[o] = [utxo[o] EXCEPT !.confirmations = d]
    BY DEF Block
  <2> HIDE DEF d
  <2> QED
    BY <2>1
<1> QED
  BY <1>1, <1>2

\* What a broadcast spends is gone, and what it makes is new: had there been
\* such a coin, what the broadcast spends would have gone before.
LEMMA BroadcastMovesCoins ==
  ASSUME Typed, CoinsGone, NEW tx \in Transactions, NEW keys \in Pairs(Role),
         Broadcast(tx, keys)
  PROVE  /\ Gone' = Gone \cup SpentBy(tx)
         /\ \A o \in MadeBy(tx) : o \notin Known
         /\ \A s \in spends : s.tx # tx
<1>1. /\ IsTx(tx) /\ SpentBy(tx) \subseteq DOMAIN utxo
      /\ TxValid(tx, keys)
  BY CoinsAfterBroadcast
<1>2. 1 \in DOMAIN tx.inputs
  BY <1>1, HasFirst DEF IsTx, TxValid
<1>3. tx.inputs[1].outpoint \in DOMAIN utxo
  BY <1>1, <1>2 DEF SpentBy
<1>4. \A o \in MadeBy(tx) : o[1] = tx
  BY DEF MadeBy
<1>5. \A s \in spends' \ spends : s.coin \in SpentBy(tx)
  <2>1. spends' = spends \cup {SpendOf(o, tx, keys) : o \in SpentBy(tx)}
    BY CoinsAfterBroadcast
  <2> QED
    BY <2>1, SpendFields
<1>6. \A o \in SpentBy(tx) : \E s \in spends' : s.coin = o
  <2> TAKE o \in SpentBy(tx)
  <2>1. spends' = spends \cup {SpendOf(u, tx, keys) : u \in SpentBy(tx)}
    BY CoinsAfterBroadcast
  <2>2. SpendOf(o, tx, keys) \in spends'
    BY <2>1
  <2> QED
    BY <2>2, SpendFields
<1>7. spends \subseteq spends'
  <2>1. spends' = spends \cup {SpendOf(u, tx, keys) : u \in SpentBy(tx)}
    BY CoinsAfterBroadcast
  <2> QED
    BY <2>1
<1>8. Gone' = Gone \cup SpentBy(tx)
  BY <1>5, <1>6, <1>7 DEF Gone
<1> QED
  BY <1>2, <1>3, <1>4, <1>8 DEF CoinsGone

\* No step forgets a coin, and a coin that is still there is worth what it was.
LEMMA CoinsStay ==
  ASSUME Typed, CoinsGone, [Next]_vars
  PROVE  \A o \in Known :
           /\ o \in Known'
           /\ o \in DOMAIN utxo' =>
                o \in DOMAIN utxo /\ utxo'[o].txout = utxo[o].txout
<1>1. CASE UNCHANGED <<utxo, spends>>
  BY <1>1 DEF Known, Gone, CoinsGone
<1>2. CASE Block
  BY <1>2, BlockKeepsCoins DEF Known, Gone, CoinsGone
<1>3. CASE \E tx \in Transactions, keys \in Pairs(Role) : Broadcast(tx, keys)
  <2> PICK tx \in Transactions, keys \in Pairs(Role) : Broadcast(tx, keys)
    BY <1>3
  <2>1. /\ Gone' = Gone \cup SpentBy(tx)
        /\ \A o \in MadeBy(tx) : o \notin Known
    BY BroadcastMovesCoins
  <2>2. /\ DOMAIN utxo' = (DOMAIN utxo \ SpentBy(tx)) \cup MadeBy(tx)
        /\ \A o \in DOMAIN utxo' :
             o \in MadeBy(tx) \/ (o \in DOMAIN utxo /\ utxo'[o] = utxo[o])
    BY CoinsAfterBroadcast
  <2> QED
    BY <2>1, <2>2 DEF Known
<1> QED
  BY <1>1, <1>2, <1>3, CoinSteps

LEMMA CoinsGoneStep == Typed /\ CoinsGone /\ [Next]_vars => CoinsGone'
<1> SUFFICES ASSUME Typed, CoinsGone, [Next]_vars PROVE CoinsGone'
  OBVIOUS
<1>1. CASE UNCHANGED <<utxo, spends>>
  BY <1>1 DEF Known, Gone, CoinsGone
<1>2. CASE Block
  BY <1>2, BlockKeepsCoins DEF Known, Gone, CoinsGone
<1>3. CASE \E tx \in Transactions, keys \in Pairs(Role) : Broadcast(tx, keys)
  <2> PICK tx \in Transactions, keys \in Pairs(Role) : Broadcast(tx, keys)
    BY <1>3
  <2>1. /\ Gone' = Gone \cup SpentBy(tx)
        /\ \A o \in MadeBy(tx) : o \notin Known
    BY BroadcastMovesCoins
  <2>2. /\ SpentBy(tx) \subseteq DOMAIN utxo
        /\ DOMAIN utxo' = (DOMAIN utxo \ SpentBy(tx)) \cup MadeBy(tx)
    BY CoinsAfterBroadcast
  <2>3. \A i \in DOMAIN tx.inputs : tx.inputs[i].outpoint \in Gone'
    BY <2>1 DEF SpentBy
  <2>4. \A o \in MadeBy(tx) : o[1] = tx
    BY DEF MadeBy
  <2>5. \A s \in spends' : s \in spends \/ s.tx = tx
    <3>1. spends' = spends \cup {SpendOf(u, tx, keys) : u \in SpentBy(tx)}
      BY CoinsAfterBroadcast
    <3> QED
      BY <3>1, SpendFields
  <2>6. \A o \in Gone' : o \notin DOMAIN utxo'
    BY <2>1, <2>2 DEF CoinsGone, Known
  <2>7. ASSUME NEW o \in Known'
        PROVE  \A i \in DOMAIN o[1].inputs : o[1].inputs[i].outpoint \in Gone'
    <3>1. o \in Known \/ o \in MadeBy(tx)
      BY <2>1, <2>2 DEF Known
    <3> QED
      BY <2>1, <2>3, <2>4, <3>1 DEF CoinsGone
  <2>8. ASSUME NEW s \in spends'
        PROVE  \A i \in DOMAIN s.tx.inputs : s.tx.inputs[i].outpoint \in Gone'
    BY <2>1, <2>3, <2>5 DEF CoinsGone
  <2> QED
    BY <2>6, <2>7, <2>8 DEF CoinsGone
<1> QED
  BY <1>1, <1>2, <1>3, CoinSteps

LEMMA CoinsGoneInit == Init => CoinsGone
BY GenesisAssumption DEF Init, CoinsGone, Known, Gone

\* A transaction whose inputs are known moves what it did for as long as it is
\* not spent.
LEMMA TotalStays ==
  ASSUME Typed, CoinsGone, [Next]_vars, NEW tx,
         \A i \in DOMAIN tx.inputs : tx.inputs[i].outpoint \in Known,
         Unspent(tx)'
  PROVE  Unspent(tx) /\ total_in(tx, utxo') = total_in(tx, utxo)
<1>1. \A i \in DOMAIN tx.inputs : tx.inputs[i].outpoint \in DOMAIN utxo'
  BY DEF Unspent
<1>2. \A i \in DOMAIN tx.inputs :
        /\ tx.inputs[i].outpoint \in DOMAIN utxo
        /\ utxo'[tx.inputs[i].outpoint].txout
             = utxo[tx.inputs[i].outpoint].txout
  BY <1>1, CoinsStay
<1>3. InputValues(tx, utxo') = InputValues(tx, utxo)
  BY <1>2 DEF InputValues
<1> QED
  BY <1>2, <1>3 DEF total_in, Unspent

-----------------------------------------------------------------------------
(* Amounts. *)

LEMMA InputSums ==
  ASSUME Typed, NEW tx, IsList(tx.inputs), Unspent(tx)
  PROVE  /\ IsFiniteSet(DOMAIN tx.inputs)
         /\ DOMAIN InputValues(tx, utxo) = DOMAIN tx.inputs
         /\ \A i \in DOMAIN tx.inputs : InputValues(tx, utxo)[i] \in Nat
         /\ total_in(tx, utxo) \in Nat
         /\ total_in(tx, utxo) = SumFunctionOnSet(InputValues(tx, utxo),
                                                  DOMAIN tx.inputs)
<1> DEFINE f == InputValues(tx, utxo)
           S == DOMAIN tx.inputs
<1>1. IsFiniteSet(S)
  BY ListIsFinite
<1>2. DOMAIN f = S /\ \A i \in S : f[i] \in Nat
  BY DEF InputValues, Unspent, Typed, TypeOK
<1>3. total_in(tx, utxo) = SumFunctionOnSet(f, S)
  BY <1>2 DEF total_in, SumFunction
<1> HIDE DEF f, S
<1>4. SumFunctionOnSet(f, S) \in Nat
  BY <1>1, <1>2, SumGrows
<1> QED
  BY <1>1, <1>2, <1>3, <1>4 DEF f, S

\* An output that inspection takes neither for a destination nor for a spoof is
\* the wallet's own.
LEMMA NotSpentIsOurs ==
  ASSUME NEW psbt, NEW i \in DOMAIN psbt.outputs,
         OutputKind(psbt.outputs[i]) # "spoofed_change",
         i \notin Destinations(psbt)
  PROVE  i \in OurOutputs(unsigned_tx(psbt))
<1>1. find_owner(psbt.outputs[i].script)
  BY DEF Destinations, OutputKind
<1>2. psbt.outputs[i].script.chain \in Chain
  BY <1>1 DEF find_owner
<1> QED
  BY <1>2, TxOfPsbt DEF OurOutputs

\* What a judged PSBT takes out of the wallet is what it is recorded with, and a
\* fee within the cap: the outputs that are not counted come back to it.
LEMMA JudgedIsCovered ==
  ASSUME Typed, NEW psbt, IsPsbt(psbt), inspect_error(psbt, utxo) = "ok",
         NEW n, Judge(inspect(psbt, utxo, n)),
         NEW tx, tx = unsigned_tx(psbt)
  PROVE  total_in(tx, utxo) - SumFunctionOnSet(OutputValues(tx), OurOutputs(tx))
           <= inspect(psbt, utxo, n).spend_sat + Policy.max_fee_sat
<1> DEFINE report == inspect(psbt, utxo, n)
           f == OutputValues(psbt)
           S == DOMAIN psbt.outputs
           D == Destinations(psbt)
           O == OurOutputs(tx)
           in == total_in(psbt, utxo)
           out == total_out(psbt)
<1>1. /\ IsFiniteSet(S) /\ \A i \in S : f[i] \in Nat
      /\ out = SumFunctionOnSet(f, S)
      /\ \A T \in SUBSET S : SumFunctionOnSet(f, T) \in Nat
  BY OutputSums DEF IsPsbt
<1>2. D \subseteq S
  BY DEF Destinations
<1>3. S \ D \subseteq O
  BY InspectsOk, NotSpentIsOurs
<1>4. O \subseteq S
  BY TxOfPsbt DEF OurOutputs
<1>5. in \in Nat
  <2>1. Unspent(psbt)
    BY InspectsOk, InputIsOk DEF Unspent
  <2> QED
    BY <2>1, InputSums DEF IsPsbt
<1>6. report.spend_sat = SumFunctionOnSet(f, D)
  BY ReportedSpend
<1>7. report.fee_sat = in - out
  BY Zenon DEF inspect
<1>8. report.fee_sat <= Policy.max_fee_sat
  <2> HIDE DEF report
  <2>1. Judge(report)
    BY DEF report
  <2> QED
    BY <2>1 DEF Judge, evaluate_policy, evaluate_recovery_policy, FeeAllowed
<1>9. Policy.max_fee_sat \in Nat
  BY SpendAssumption DEF CompiledPolicy
<1>10. total_in(tx, utxo) = in /\ OutputValues(tx) = f
  BY ValuesOfTx DEF total_in
<1> HIDE DEF report, f, S, D, O, in, out
<1>11. out = SumFunctionOnSet(f, D) + SumFunctionOnSet(f, S \ D)
  BY <1>1, <1>2, SumOfParts
<1>12. SumFunctionOnSet(f, S \ D) <= SumFunctionOnSet(f, O)
  <2>1. IsFiniteSet(O) /\ \A i \in O : f[i] \in Nat
    BY <1>1, <1>4, FS_Subset
  <2> QED
    BY <1>3, <2>1, SumGrows
<1>13. /\ SumFunctionOnSet(f, D) \in Nat /\ SumFunctionOnSet(f, S \ D) \in Nat
       /\ SumFunctionOnSet(f, O) \in Nat
  BY <1>1, <1>2, <1>4
<1>14. in - SumFunctionOnSet(f, O)
         <= SumFunctionOnSet(f, D) + Policy.max_fee_sat
  <2> DEFINE d == SumFunctionOnSet(f, D)
             r == SumFunctionOnSet(f, S \ D)
             o == SumFunctionOnSet(f, O)
             m == Policy.max_fee_sat
  <2>1. in - out <= m
    BY <1>7, <1>8
  <2>2. /\ out = d + r /\ r <= o
        /\ d \in Nat /\ r \in Nat /\ o \in Nat /\ m \in Nat
    BY <1>9, <1>11, <1>12, <1>13
  <2> HIDE DEF d, r, o, m
  <2>3. in - o <= d + m
    BY <1>5, <2>1, <2>2
  <2> QED
    BY <2>3 DEF d, r, o, m
<1> QED
  BY <1>6, <1>10, <1>14 DEF report, O

\* What a recorded transaction would take out of the wallet now.
Covered(row) ==
  LET tx == row.txid
  IN /\ IsTx(tx)
     /\ \A i \in DOMAIN tx.inputs : tx.inputs[i].outpoint \in Known
     /\ Unspent(tx) =>
          total_in(tx, utxo)
            - SumFunctionOnSet(OutputValues(tx), OurOutputs(tx))
            <= row.spend_sat + Policy.max_fee_sat

RowsCover == \A row \in ledger : Covered(row)

LEMMA CoveredStays ==
  ASSUME Typed, CoinsGone, [Next]_vars, NEW row, Covered(row)
  PROVE  /\ IsTx(row.txid)
         /\ \A i \in DOMAIN row.txid.inputs :
              row.txid.inputs[i].outpoint \in Known'
         /\ Unspent(row.txid)' =>
              total_in(row.txid, utxo')
                - SumFunctionOnSet(OutputValues(row.txid), OurOutputs(row.txid))
                <= row.spend_sat + Policy.max_fee_sat
<1> DEFINE tx == row.txid
<1>1. IsTx(tx) /\ \A i \in DOMAIN tx.inputs : tx.inputs[i].outpoint \in Known
  BY DEF Covered
<1>2. \A i \in DOMAIN tx.inputs : tx.inputs[i].outpoint \in Known'
  BY <1>1, CoinsStay
<1>3. ASSUME Unspent(tx)'
      PROVE  total_in(tx, utxo')
               - SumFunctionOnSet(OutputValues(tx), OurOutputs(tx))
               <= row.spend_sat + Policy.max_fee_sat
  <2> HIDE DEF tx
  <2>1. Unspent(tx) /\ total_in(tx, utxo') = total_in(tx, utxo)
    BY <1>1, <1>3, TotalStays
  <2> QED
    BY <2>1 DEF Covered, tx
<1> QED
  BY <1>1, <1>2, <1>3

\* The rows there are when somebody submits a PSBT or takes another step.
LEMMA LedgerSteps ==
  ASSUME Typed, [Next]_vars
  PROVE  \/ UNCHANGED ledger
         \/ \E q : /\ IsPsbt(q) /\ CoSign(q)
                   /\ inspect_error(q, utxo) = "ok"
                   /\ Judge(inspect(q, utxo, wallet))
                   /\ ledger' = ledger \cup
                        {[txid |-> unsigned_tx(q), recorded_at |-> Now,
                          spend_sat |-> inspect(q, utxo, wallet).spend_sat]}
<1>1. CASE UNCHANGED vars
  BY <1>1 DEF vars, service
<1>2. CASE \E c \in Candidates : Check(c)
  BY <1>2 DEF Check, service
<1>3. CASE \E n \in Timelocks : Build(n)
  BY <1>3 DEF Build, service
<1>4. CASE SweepOwnersCoins
  BY <1>4 DEF SweepOwnersCoins, BuildSweep, service
<1>5. CASE \E p \in Psbts, r \in Role : DeviceSign(p, r)
  BY <1>5 DEF DeviceSign, service
<1>6. CASE \E r \in Role : LoseDevice(r)
  BY <1>6 DEF LoseDevice, service
<1>7. CASE \E p \in Psbts : Submit(p)
  <2> PICK p \in Psbts : Submit(p)
    BY <1>7
  <2>1. PICK q : IsPsbt(q) /\ CoSign(q)
    BY ShownToServer
  <2>2. inspect(q, utxo, wallet).txid = unsigned_tx(q)
    BY ReportedTx
  <2> QED
    BY <2>1, <2>2 DEF CoSign, service
<1>8. CASE Block
  BY <1>8 DEF Block, service
<1>9. CASE \E tx \in Transactions, keys \in Pairs(Role) : Broadcast(tx, keys)
  BY <1>9 DEF Broadcast, service
<1> QED
  BY <1>1, <1>2, <1>3, <1>4, <1>5, <1>6, <1>7, <1>8, <1>9 DEF Next

LEMMA RowsCoverStep ==
  Typed /\ CoinsGone /\ RowsCover /\ [Next]_vars => RowsCover'
<1> SUFFICES ASSUME Typed, CoinsGone, RowsCover, [Next]_vars,
                    NEW row \in ledger'
             PROVE  Covered(row)'
  BY DEF RowsCover
<1>1. CASE row \in ledger
  <2>1. Covered(row)
    BY <1>1 DEF RowsCover
  <2> QED
    BY <2>1, CoveredStays DEF Covered
<1>2. CASE row \notin ledger
  <2>1. PICK q : /\ IsPsbt(q) /\ CoSign(q)
                 /\ inspect_error(q, utxo) = "ok"
                 /\ Judge(inspect(q, utxo, wallet))
                 /\ ledger' = ledger \cup
                      {[txid |-> unsigned_tx(q), recorded_at |-> Now,
                        spend_sat |-> inspect(q, utxo, wallet).spend_sat]}
    BY <1>2, LedgerSteps
  <2> DEFINE tx == unsigned_tx(q)
             spend == inspect(q, utxo, wallet).spend_sat
  <2>2. row = [txid |-> tx, recorded_at |-> Now, spend_sat |-> spend]
    BY <1>2, <2>1
  <2>3. UNCHANGED <<utxo, spends>>
    BY <2>1 DEF CoSign, chain
  <2>4. IsTx(tx)
    BY <2>1, TxIsTx
  <2>5. \A i \in DOMAIN q.inputs : q.inputs[i].outpoint \in DOMAIN utxo
    BY <2>1, InspectsOk, InputIsOk
  <2>6. \A i \in DOMAIN tx.inputs : tx.inputs[i].outpoint \in DOMAIN utxo
    BY <2>5, TxOfPsbt
  <2>7. total_in(tx, utxo) - SumFunctionOnSet(OutputValues(tx), OurOutputs(tx))
          <= spend + Policy.max_fee_sat
    BY <2>1, JudgedIsCovered
  <2> HIDE DEF tx, spend
  <2>8. row.txid = tx /\ row.spend_sat = spend
    BY <2>2
  <2> QED
    BY <2>3, <2>4, <2>6, <2>7, <2>8 DEF Covered, Known, Gone
<1> QED
  BY <1>1, <1>2

\* What has been spent is a finite set of coins with values.
SpendsTyped == IsFiniteSet(spends) /\ \A s \in spends : s.value \in Nat

LEMMA SpendsTypedStep == Typed /\ SpendsTyped /\ [Next]_vars => SpendsTyped'
<1> SUFFICES ASSUME Typed, SpendsTyped, [Next]_vars PROVE SpendsTyped'
  OBVIOUS
<1>1. CASE UNCHANGED spends
  BY <1>1 DEF SpendsTyped
<1>2. CASE \E tx \in Transactions, keys \in Pairs(Role) : Broadcast(tx, keys)
  <2> PICK tx \in Transactions, keys \in Pairs(Role) : Broadcast(tx, keys)
    BY <1>2
  <2> DEFINE S == SpentBy(tx)
             h == [o \in S |-> SpendOf(o, tx, keys)]
  <2>1. /\ spends' = spends \cup {SpendOf(o, tx, keys) : o \in S}
        /\ S \subseteq DOMAIN utxo
    BY CoinsAfterBroadcast
  <2>2. spends' = spends \cup {h[o] : o \in S}
    BY <2>1
  <2>3. IsFiniteSet(S)
    BY <2>1, FS_Subset DEF Typed
  <2>4. ASSUME NEW o \in S PROVE h[o].value \in Nat
    <3>1. h[o].value = utxo[o].txout.value
      BY SpendFields
    <3> QED
      BY <2>1, <3>1 DEF Typed, TypeOK
  <2> HIDE DEF h, S
  <2>5. IsFiniteSet({h[o] : o \in S})
    BY <2>3, ImageIsFinite
  <2>6. IsFiniteSet(spends')
    BY <2>2, <2>5, FS_Union DEF SpendsTyped
  <2>7. \A s \in spends' : s.value \in Nat
    BY <2>2, <2>4 DEF SpendsTyped
  <2> QED
    BY <2>6, <2>7 DEF SpendsTyped
<1> QED
  BY <1>1, <1>2, CoinSteps DEF Block

\* What a broadcast takes out is what its inputs were worth, each of them once.
LEMMA OutflowOfBroadcast ==
  ASSUME Typed, CoinsGone, SpendsTyped, NEW tx \in Transactions,
         NEW keys \in Pairs(Role), Broadcast(tx, keys)
  PROVE  Outflow(tx)' = total_in(tx, utxo)
                          - SumFunctionOnSet(OutputValues(tx), OurOutputs(tx))
<1> DEFINE S == DOMAIN tx.inputs
           f == InputValues(tx, utxo)
           h == [i \in S |-> SpendOf(tx.inputs[i].outpoint, tx, keys)]
           e == [s \in spends' |-> s.value]
           T == {s \in spends' : s.tx = tx}
<1>1. /\ IsTx(tx) /\ TxValid(tx, keys)
      /\ spends' = spends \cup {SpendOf(o, tx, keys) : o \in SpentBy(tx)}
  BY CoinsAfterBroadcast
<1>2. Unspent(tx)
  BY <1>1 DEF TxValid, InputValid, Unspent
<1>3. /\ IsFiniteSet(S) /\ \A i \in S : f[i] \in Nat
      /\ total_in(tx, utxo) = SumFunctionOnSet(f, S)
  BY <1>1, <1>2, InputSums DEF IsTx
<1>4. spends' = spends \cup {h[i] : i \in S}
  BY <1>1 DEF SpentBy
<1>5. \A i \in S : /\ h[i].value = utxo[tx.inputs[i].outpoint].txout.value
                   /\ h[i].coin = tx.inputs[i].outpoint /\ h[i].tx = tx
  BY SpendFields
<1>6. \A s \in spends : s.tx # tx
  BY BroadcastMovesCoins
<1>7. T = {h[i] : i \in S}
  <2> HIDE DEF h
  <2> QED
    BY <1>4, <1>5, <1>6
<1>8. \A i \in S : e[h[i]] = f[i]
  <2> HIDE DEF h
  <2>1. \A i \in S : f[i] = utxo[tx.inputs[i].outpoint].txout.value
    BY DEF InputValues
  <2>2. \A i \in S : h[i] \in spends'
    BY <1>4
  <2> HIDE DEF f, S
  <2> QED
    BY <1>5, <2>1, <2>2
<1>9. \A i, j \in S : h[i] = h[j] => i = j
  <2>1. IsInjective([i \in S |-> tx.inputs[i].outpoint])
    BY <1>1 DEF TxValid
  <2>2. \A i, j \in S : tx.inputs[i].outpoint = tx.inputs[j].outpoint => i = j
    BY <2>1 DEF IsInjective
  <2> HIDE DEF h
  <2> QED
    BY <1>5, <2>2
<1>10. Outflow(tx)' = SumFunctionOnSet(e, T)
                        - SumFunctionOnSet(OutputValues(tx), OurOutputs(tx))
  BY DEF Outflow
<1> HIDE DEF S, f, h, e, T
<1>11. SumFunctionOnSet(e, {h[i] : i \in S}) = SumFunctionOnSet(f, S)
  BY <1>3, <1>8, <1>9, SumOfImage
<1> QED
  BY <1>3, <1>7, <1>10, <1>11

\* And what an earlier transaction took out stays the same.
LEMMA OutflowStays ==
  ASSUME SpendsTyped, NEW tx, spends \subseteq spends',
         \A s \in spends' \ spends : s.tx # tx
  PROVE  Outflow(tx)' = Outflow(tx)
<1> DEFINE e == [s \in spends |-> s.value]
           f == [s \in spends' |-> s.value]
           T == {s \in spends : s.tx = tx}
<1>1. {s \in spends' : s.tx = tx} = T
  OBVIOUS
<1>2. IsFiniteSet(T)
  BY FS_Subset DEF SpendsTyped
<1>3. \A s \in T : e[s] \in Int /\ f[s] = e[s]
  BY DEF SpendsTyped
<1>4. /\ Outflow(tx)' = SumFunctionOnSet(f, T)
                          - SumFunctionOnSet(OutputValues(tx), OurOutputs(tx))
      /\ Outflow(tx) = SumFunctionOnSet(e, T)
                         - SumFunctionOnSet(OutputValues(tx), OurOutputs(tx))
  BY <1>1 DEF Outflow
<1> HIDE DEF e, f, T
<1>5. SumFunctionOnSet(e, T) = SumFunctionOnSet(f, T)
  BY <1>2, <1>3, SumsOfEqualsAreEqual
<1> QED
  BY <1>4, <1>5

LEMMA LedgerGrows ==
  ASSUME Typed, [Next]_vars
  PROVE  ledger \subseteq ledger'
BY LedgerSteps

LEMMA LedgerCoversStep ==
  ASSUME Typed, CoinsGone, SpendsTyped, RowsCover, Accounted,
         LedgerCoversOutflow, [Next]_vars
  PROVE  LedgerCoversOutflow'
<1> SUFFICES ASSUME NEW s \in spends', "server" \in s.keys
             PROVE  \E row \in ledger' :
                      /\ row.txid = s.tx
                      /\ Outflow(s.tx)' <= row.spend_sat + Policy.max_fee_sat
  BY DEF LedgerCoversOutflow
<1>1. CASE s \in spends
  <2>1. PICK row \in ledger :
          /\ row.txid = s.tx
          /\ Outflow(s.tx) <= row.spend_sat + Policy.max_fee_sat
    BY <1>1 DEF LedgerCoversOutflow
  <2>2. spends \subseteq spends' /\ \A t \in spends' \ spends : t.tx # s.tx
    <3>1. CASE UNCHANGED spends
      BY <3>1
    <3>2. CASE \E tx \in Transactions, keys \in Pairs(Role) :
                 Broadcast(tx, keys)
      <4> PICK tx \in Transactions, keys \in Pairs(Role) : Broadcast(tx, keys)
        BY <3>2
      <4>1. spends' = spends \cup {SpendOf(o, tx, keys) : o \in SpentBy(tx)}
        BY CoinsAfterBroadcast
      <4>2. s.tx # tx
        BY <1>1, BroadcastMovesCoins
      <4> QED
        BY <4>1, <4>2, SpendFields
    <3> QED
      BY <3>1, <3>2, CoinSteps DEF Block
  <2>3. Outflow(s.tx)' = Outflow(s.tx)
    <3> DEFINE tx == s.tx
    <3>1. \A t \in spends' \ spends : t.tx # tx
      BY <2>2
    <3> HIDE DEF tx
    <3>2. Outflow(tx)' = Outflow(tx)
      BY <2>2, <3>1, OutflowStays
    <3> QED
      BY <3>2 DEF tx
  <2> QED
    BY <2>1, <2>3, LedgerGrows
<1>2. CASE s \notin spends
  <2>1. PICK tx \in Transactions, keys \in Pairs(Role) : Broadcast(tx, keys)
    BY <1>2, CoinSteps DEF Block
  <2>2. /\ spends' = spends \cup {SpendOf(o, tx, keys) : o \in SpentBy(tx)}
        /\ TxValid(tx, keys)
    BY <2>1, CoinsAfterBroadcast
  <2>3. s.tx = tx /\ s.keys = keys
    BY <1>2, <2>2, SpendFields
  <2>4. already_recorded(ledger, tx)
    <3>1. <<tx, "server">> \in signed
      BY <2>2, <2>3 DEF TxValid, Signers
    <3>2. <<tx, "server">>[1] = tx /\ <<tx, "server">>[2] = "server"
      OBVIOUS
    <3> QED
      BY <3>1, <3>2 DEF Accounted
  <2>5. PICK row \in ledger : row.txid = tx
    BY <2>4 DEF already_recorded
  <2>6. Unspent(tx)
    BY <2>2 DEF TxValid, InputValid, Unspent
  <2>7. total_in(tx, utxo) - SumFunctionOnSet(OutputValues(tx), OurOutputs(tx))
          <= row.spend_sat + Policy.max_fee_sat
    BY <2>5, <2>6 DEF RowsCover, Covered
  <2>8. Outflow(tx)' <= row.spend_sat + Policy.max_fee_sat
    BY <2>1, <2>7, OutflowOfBroadcast
  <2> QED
    BY <2>3, <2>5, <2>8, LedgerGrows
<1> QED
  BY <1>1, <1>2

-----------------------------------------------------------------------------
(* Sweeps. *)

\* What build-sweep committed to, in terms of the coins as they are now.
SweepFits(psbt, path, fee) ==
  /\ wallet # Nothing /\ FeeRate > 0
  /\ psbt.inputs # <<>> /\ DOMAIN psbt.outputs = {1}
  /\ ~psbt.outputs[1].derivation
  /\ fee = estimate_vsize(psbt) * FeeRate
  /\ \A i \in DOMAIN psbt.inputs :
       /\ psbt.inputs[i].outpoint \in Known
       /\ psbt.inputs[i].sequence = sweep_sequence(path, wallet)
       /\ psbt.inputs[i].sighash = "ALL"
  /\ Unspent(psbt) =>
       /\ psbt.outputs[1].value = total_in(psbt, utxo) - fee
       /\ \A i \in DOMAIN psbt.inputs :
            LET txout == utxo[psbt.inputs[i].outpoint].txout
            IN psbt.inputs[i].claimed = {txout} /\ find_owner(txout.script)

SweepsFit == \A s \in sweeps : SweepFits(s.psbt, s.path, s.fee)

LEMMA SweepFitsStays ==
  ASSUME Typed, CoinsGone, [Next]_vars, wallet' = wallet,
         NEW psbt, NEW path, NEW fee, SweepFits(psbt, path, fee)
  PROVE  SweepFits(psbt, path, fee)'
<1>1. \A i \in DOMAIN psbt.inputs : psbt.inputs[i].outpoint \in Known
  BY DEF SweepFits
<1>2. \A i \in DOMAIN psbt.inputs : psbt.inputs[i].outpoint \in Known'
  BY <1>1, CoinsStay
<1>3. ASSUME Unspent(psbt)'
      PROVE  /\ psbt.outputs[1].value = total_in(psbt, utxo') - fee
             /\ \A i \in DOMAIN psbt.inputs :
                  LET txout == utxo'[psbt.inputs[i].outpoint].txout
                  IN /\ psbt.inputs[i].claimed = {txout}
                     /\ find_owner(txout.script)
  <2>1. Unspent(psbt) /\ total_in(psbt, utxo') = total_in(psbt, utxo)
    BY <1>1, <1>3, TotalStays
  <2>2. \A i \in DOMAIN psbt.inputs :
          utxo'[psbt.inputs[i].outpoint].txout
            = utxo[psbt.inputs[i].outpoint].txout
    BY <1>1, <1>3, CoinsStay DEF Unspent
  <2> QED
    BY <2>1, <2>2 DEF SweepFits
<1> QED
  BY <1>2, <1>3 DEF SweepFits

LEMMA SweepSteps ==
  ASSUME [Next]_vars
  PROVE  \/ UNCHANGED <<wallet, sweeps>>
         \/ UNCHANGED sweeps /\ wallet = Nothing
         \/ SweepOwnersCoins
<1>1. CASE UNCHANGED vars
  BY <1>1 DEF vars
<1>2. CASE \E c \in Candidates : Check(c)
  BY <1>2 DEF Check
<1>3. CASE \E n \in Timelocks : Build(n)
  BY <1>3 DEF Build
<1>4. CASE \E p \in Psbts, r \in Role : DeviceSign(p, r)
  BY <1>4 DEF DeviceSign
<1>5. CASE \E r \in Role : LoseDevice(r)
  BY <1>5 DEF LoseDevice
<1>6. CASE \E p \in Psbts : Submit(p)
  BY <1>6 DEF Submit, CoSign
<1>7. CASE Block
  BY <1>7 DEF Block
<1>8. CASE \E tx \in Transactions, keys \in Pairs(Role) : Broadcast(tx, keys)
  BY <1>8 DEF Broadcast
<1> QED
  BY <1>1, <1>2, <1>3, <1>4, <1>5, <1>6, <1>7, <1>8 DEF Next

LEMMA SweepsFitStep ==
  Typed /\ CoinsGone /\ SweepsFit /\ [Next]_vars => SweepsFit'
<1> SUFFICES ASSUME Typed, CoinsGone, SweepsFit, [Next]_vars, NEW s \in sweeps'
             PROVE  SweepFits(s.psbt, s.path, s.fee)'
  BY DEF SweepsFit
<1>1. CASE s \in sweeps
  <2>1. SweepFits(s.psbt, s.path, s.fee)
    BY <1>1 DEF SweepsFit
  <2>2. wallet # Nothing
    BY <2>1 DEF SweepFits
  <2>3. wallet' = wallet
    BY <2>2, SweepSteps DEF SweepOwnersCoins, BuildSweep
  <2> DEFINE psbt == s.psbt
             path == s.path
             fee == s.fee
  <2> HIDE DEF psbt, path, fee
  <2>4. SweepFits(psbt, path, fee)'
    BY <2>1, <2>3, SweepFitsStays DEF psbt, path, fee
  <2> QED
    BY <2>4 DEF psbt, path, fee
<1>2. CASE s \notin sweeps
  <2>1. SweepOwnersCoins
    BY <1>2, SweepSteps
  <2>2. PICK outpoints, path : /\ IsList(outpoints) /\ path \in SweepPath
                               /\ BuildSweep(outpoints, path)
    BY <2>1, SweepBuilt
  <2> DEFINE psbt == build_sweep_psbt(outpoints, Destination, path, utxo,
                                      wallet, FeeRate)
             fee == sweep_fee(outpoints, FeeRate)
  <2>3. s = [psbt |-> psbt, path |-> path, fee |-> fee]
    BY <1>2, <2>2 DEF BuildSweep
  <2>4. UNCHANGED <<wallet, utxo, spends>>
    BY <2>2 DEF BuildSweep, chain
  <2>5. wallet # Nothing /\ can_sweep(outpoints, utxo, FeeRate)
    BY <2>2 DEF BuildSweep
  <2>6. psbt = build_sweep_psbt(outpoints, Destination, path, utxo, wallet,
                                FeeRate)
    OBVIOUS
  <2> HIDE DEF psbt
  <2>7. /\ psbt.inputs # <<>> /\ DOMAIN psbt.outputs = {1}
        /\ ~psbt.outputs[1].derivation
        /\ \A i \in DOMAIN psbt.inputs :
             LET input == psbt.inputs[i]
             IN /\ input.outpoint \in DOMAIN utxo
                /\ input.claimed = {utxo[input.outpoint].txout}
                /\ find_owner(utxo[input.outpoint].txout.script)
                /\ input.sequence = sweep_sequence(path, wallet)
                /\ input.sighash = "ALL"
        /\ fee = estimate_vsize(psbt) * FeeRate
        /\ FeeRate > 0
        /\ psbt.outputs[1].value = total_in(psbt, utxo) - fee
    BY <2>2, <2>5, <2>6, SweepAsBuilt
  <2> HIDE DEF fee
  <2>8. s.psbt = psbt /\ s.path = path /\ s.fee = fee
    BY <2>3
  <2>9. SweepFits(psbt, path, fee)
    BY <2>5, <2>7 DEF SweepFits, Known
  <2> QED
    BY <2>4, <2>8, <2>9 DEF SweepFits, Known, Gone, Unspent
<1> QED
  BY <1>1, <1>2

\* The fee rate of a fee at a whole rate is that rate.
LEMMA RateOfFee ==
  ASSUME NEW size \in Nat, size > 0, NEW rate \in Nat
  PROVE  RateOf(size * rate, size) = rate
<1>1. (size * rate + size - 1) \div size = rate
  OBVIOUS
<1> QED
  BY <1>1 DEF RateOf

LEMMA SizeIsPositive ==
  ASSUME NEW psbt, IsPsbt(psbt), psbt.inputs # <<>>
  PROVE  estimate_vsize(psbt) \in Nat /\ estimate_vsize(psbt) > 0
<1>1. Len(psbt.inputs) \in Nat /\ Len(psbt.outputs) \in Nat
  BY DEF IsPsbt, IsList
<1>2. Len(psbt.inputs) # 0
  <2>1. 1 \in 1..Len(psbt.inputs)
    BY HasFirst DEF IsPsbt, IsList
  <2> QED
    BY <1>1, <2>1
<1> DEFINE l == Len(psbt.inputs)
           m == Len(psbt.outputs)
<1> HIDE DEF l, m
<1>3. l \in Nat \ {0} /\ m \in Nat
  BY <1>1, <1>2 DEF l, m
<1>4. InputSize * l \in Nat /\ InputSize * l > 0 /\ OutputSize * m \in Nat
  BY <1>3, SizeAssumption
<1>5. OverheadSize + InputSize * l + OutputSize * m \in Nat
      /\ OverheadSize + InputSize * l + OutputSize * m > 0
  BY <1>4, SizeAssumption
<1> QED
  BY <1>5 DEF estimate_vsize, l, m

\* The path a sweep is on once its device, if it needs one, has signed.
LEMMA SweepIsOnItsPath ==
  ASSUME Typed, wallet # Nothing, NEW path \in SweepPath,
         NEW q, DOMAIN q.inputs # {},
         \A i \in DOMAIN q.inputs :
           /\ q.inputs[i].sequence = sweep_sequence(path, wallet)
           /\ q.inputs[i].partial_sigs
                = IF path = "recovery" THEN {"mobile"} ELSE {}
  PROVE  inspect(q, utxo, wallet).path = path
<1>1. wallet \in Nat
  BY WalletIsNat
<1>2. \A i \in DOMAIN q.inputs : classify_input_path(q.inputs[i], wallet) = path
  <2> TAKE i \in DOMAIN q.inputs
  <2>1. CASE path = "recovery"
    BY <1>1, <2>1 DEF classify_input_path, check_older, sweep_sequence,
                      NoRelativeLock
  <2>2. CASE path = "hot"
    BY <1>1, <2>2 DEF classify_input_path, check_older, sweep_sequence,
                      NoRelativeLock
  <2> QED
    BY <2>1, <2>2 DEF SweepPath
<1> DEFINE paths == {classify_input_path(q.inputs[i], wallet) :
                       i \in DOMAIN q.inputs}
<1>3. paths = {path}
  BY <1>2
<1>4. inspect(q, utxo, wallet).path = combine_paths(paths)
  BY Zenon DEF inspect
<1> HIDE DEF paths
<1>5. combine_paths(paths) = path
  BY <1>3 DEF combine_paths, SweepPath
<1> QED
  BY <1>4, <1>5

LEMMA ShowingShows ==
  ASSUME NEW psbt, IsPsbt(psbt), NEW sigs,
         NEW q, q = Showing(psbt, [i \in DOMAIN psbt.inputs |-> sigs])
  PROVE  IsPsbt(q) /\ Shows(q, psbt, [i \in DOMAIN psbt.inputs |-> sigs])
<1> DEFINE shown == [i \in DOMAIN psbt.inputs |-> sigs]
           S == {sigs}
<1>1. shown \in [DOMAIN psbt.inputs -> S] /\ q = Showing(psbt, shown)
  OBVIOUS
<1> HIDE DEF shown, S
<1>2. IsPsbt(q) /\ Shows(q, psbt, shown)
  BY <1>1, ShownIsPsbt, ShowingKeepsTx
<1> QED
  BY <1>2 DEF shown

\* A sweep that fits passes inspection with the fee and on the path it was built
\* for.
LEMMA FittingSweepIsSignable ==
  ASSUME Typed, NEW psbt, IsPsbt(psbt), Unspent(psbt),
         NEW path \in SweepPath, NEW fee \in Nat, SweepFits(psbt, path, fee),
         NEW shown,
         \A i \in DOMAIN psbt.inputs :
           shown[i] = IF path = "recovery" THEN {"mobile"} ELSE {},
         NEW q, IsPsbt(q), Shows(q, psbt, shown)
  PROVE  /\ inspect_error(q, utxo) = "ok"
         /\ inspect(q, utxo, wallet).path = path
         /\ inspect(q, utxo, wallet).signable
         /\ inspect(q, utxo, wallet).fee_sat = fee
         /\ inspect(q, utxo, wallet).fee_rate = FeeRate
<1> DEFINE report == inspect(q, utxo, wallet)
<1>1. /\ q.outputs = psbt.outputs
      /\ Len(q.inputs) = Len(psbt.inputs)
      /\ DOMAIN q.inputs = DOMAIN psbt.inputs
      /\ \A i \in DOMAIN psbt.inputs :
           /\ q.inputs[i].sequence = psbt.inputs[i].sequence
           /\ q.inputs[i].outpoint = psbt.inputs[i].outpoint
           /\ q.inputs[i].claimed = psbt.inputs[i].claimed
           /\ q.inputs[i].sighash = psbt.inputs[i].sighash
           /\ q.inputs[i].partial_sigs
                = IF path = "recovery" THEN {"mobile"} ELSE {}
  BY DEF Shows
<1>2. IsPsbt(q)
  OBVIOUS
<1>3. /\ wallet # Nothing /\ FeeRate > 0 /\ FeeRate \in Nat
      /\ psbt.inputs # <<>> /\ DOMAIN psbt.outputs = {1}
      /\ ~psbt.outputs[1].derivation
      /\ fee = estimate_vsize(psbt) * FeeRate
      /\ psbt.outputs[1].value = total_in(psbt, utxo) - fee
  BY SpendAssumption DEF SweepFits
<1>4. \A i \in DOMAIN psbt.inputs :
        /\ psbt.inputs[i].outpoint \in DOMAIN utxo
        /\ psbt.inputs[i].sequence = sweep_sequence(path, wallet)
        /\ psbt.inputs[i].sighash = "ALL"
        /\ psbt.inputs[i].claimed = {utxo[psbt.inputs[i].outpoint].txout}
        /\ find_owner(utxo[psbt.inputs[i].outpoint].txout.script)
  BY DEF SweepFits, Unspent
<1>5. /\ estimate_vsize(q) = estimate_vsize(psbt)
      /\ estimate_vsize(psbt) \in Nat /\ estimate_vsize(psbt) > 0
  BY <1>1, <1>3, SizeIsPositive DEF estimate_vsize
<1>6. fee \in Nat /\ fee > 0
  <2> DEFINE v == estimate_vsize(psbt)
  <2>1. v \in Nat /\ v > 0
    BY <1>5
  <2> HIDE DEF v
  <2>2. v * FeeRate > 0
    BY <1>3, <2>1
  <2> QED
    BY <1>3, <2>2 DEF v
<1>7. total_in(q, utxo) = total_in(psbt, utxo)
  <2>1. InputValues(q, utxo) = InputValues(psbt, utxo)
    BY <1>1 DEF InputValues
  <2> QED
    BY <2>1 DEF total_in
<1>8. total_in(psbt, utxo) \in Nat
  BY InputSums DEF IsPsbt
<1>9. total_out(q) = psbt.outputs[1].value
  <2> DEFINE f == OutputValues(q)
  <2>0. DOMAIN q.outputs = {1}
    BY <1>1, <1>3
  <2>1. total_out(q) = SumFunctionOnSet(f, DOMAIN q.outputs)
    BY <1>2, OutputSums DEF IsPsbt
  <2>6. f[1] = psbt.outputs[1].value
    BY <1>1, <1>3 DEF OutputValues
  <2>2. f[1] \in Int
    BY <2>6, <1>3 DEF IsPsbt
  <2> HIDE DEF f
  <2>3. IsFiniteSet({1}) /\ {1} \ {1} = {}
    BY FS_Singleton
  <2>4. SumFunctionOnSet(f, {1}) = f[1] + SumFunctionOnSet(f, {})
    BY <2>2, <2>3, SumTakesAway
  <2>5. SumFunctionOnSet(f, {}) = 0
    BY <2>2, <2>3, SumTypes
  <2> QED
    BY <2>0, <2>1, <2>2, <2>4, <2>5, <2>6
<1>10. q.inputs # <<>> /\ q.outputs # <<>> /\ DOMAIN q.inputs # {}
  <2>1. 1 \in DOMAIN psbt.inputs
    BY <1>3, HasFirst DEF IsPsbt
  <2> QED
    BY <1>1, <1>3, <2>1
<1>11. inspect_error(q, utxo) = "ok"
  <2>1. \A i \in DOMAIN q.inputs : InputError(q.inputs[i], utxo) = "ok"
    BY <1>1, <1>4, InputIsOk
  <2>2. \A i \in DOMAIN q.outputs : OutputKind(q.outputs[i]) # "spoofed_change"
    BY <1>1, <1>3 DEF OutputKind
  <2>3. ~(total_out(q) >= total_in(q, utxo))
    BY <1>3, <1>6, <1>7, <1>8, <1>9
  <2> QED
    BY <1>2, <1>10, <2>1, <2>2, <2>3, InspectsOk
<1>12. report.path = path
  <2>1. \A i \in DOMAIN q.inputs :
           /\ q.inputs[i].sequence = sweep_sequence(path, wallet)
           /\ q.inputs[i].partial_sigs
                = IF path = "recovery" THEN {"mobile"} ELSE {}
    BY <1>1, <1>4
  <2> QED
    BY <1>3, <1>10, <2>1, SweepIsOnItsPath
<1>13. signable(q)
  BY <1>1, <1>4 DEF signable
<1>14. total_in(q, utxo) - total_out(q) = fee
  BY <1>3, <1>6, <1>7, <1>8, <1>9
<1>15. report.fee_sat = fee
  BY <1>14, Zenon DEF inspect
<1>16. report.fee_rate = RateOf(fee, estimate_vsize(psbt))
  BY <1>5, <1>14, Zenon DEF inspect
<1>17. RateOf(fee, estimate_vsize(psbt)) = FeeRate
  <2> DEFINE v == estimate_vsize(psbt)
  <2>1. v \in Nat /\ v > 0 /\ fee = v * FeeRate
    BY <1>3, <1>5
  <2> HIDE DEF v
  <2>2. RateOf(v * FeeRate, v) = FeeRate
    BY <1>3, <2>1, RateOfFee
  <2> QED
    BY <2>1, <2>2 DEF v
<1>18. report.signable
  <2>1. report.signable = signable(q)
    BY Zenon DEF inspect
  <2> QED
    BY <1>13, <2>1
<1> QED
  BY <1>11, <1>12, <1>15, <1>16, <1>17, <1>18

LEMMA FittingSweeps ==
  ASSUME Typed, SweepsFit
  PROVE  SweepsStaySignable
<1> SUFFICES ASSUME NEW s \in sweeps, Unspent(s.psbt)
             PROVE  LET shown == IF s.path = "recovery" THEN {"mobile"} ELSE {}
                        psbt == Showing(s.psbt,
                                  [i \in DOMAIN s.psbt.inputs |-> shown])
                        report == inspect(psbt, utxo, wallet)
                    IN /\ inspect_error(psbt, utxo) = "ok"
                       /\ report.path = s.path /\ report.signable
                       /\ report.fee_sat = s.fee /\ report.fee_rate = FeeRate
  BY Zenon DEF SweepsStaySignable, Unspent
<1> DEFINE shown == IF s.path = "recovery" THEN {"mobile"} ELSE {}
           psbt == s.psbt
           path == s.path
           fee == s.fee
           q == Showing(s.psbt, [i \in DOMAIN s.psbt.inputs |-> shown])
           report == inspect(q, utxo, wallet)
<1>1. /\ IsPsbt(psbt) /\ Unspent(psbt)
      /\ path \in SweepPath /\ fee \in Nat /\ SweepFits(psbt, path, fee)
  BY DEF Typed, TypeOK, SweepsFit
<1>2. IsPsbt(q) /\ Shows(q, psbt, [i \in DOMAIN psbt.inputs |-> shown])
  <2>1. q = Showing(psbt, [i \in DOMAIN psbt.inputs |-> shown])
    OBVIOUS
  <2> HIDE DEF shown, path, fee, report, q, psbt
  <2> QED
    BY <1>1, <2>1, ShowingShows
<1>3. /\ inspect_error(q, utxo) = "ok"
      /\ report.path = path /\ report.signable
      /\ report.fee_sat = fee /\ report.fee_rate = FeeRate
  <2> DEFINE each == [i \in DOMAIN psbt.inputs |-> shown]
  <2>1. /\ \A i \in DOMAIN psbt.inputs :
             each[i] = IF path = "recovery" THEN {"mobile"} ELSE {}
        /\ Shows(q, psbt, each)
    BY <1>2
  <2> HIDE DEF each, shown, psbt, path, fee, q
  <2> QED
    BY <1>1, <1>2, <2>1, FittingSweepIsSignable
<1> QED
  BY <1>3, Zenon

-----------------------------------------------------------------------------
(* And so, always. *)

LEMMA CoinsGoneAlways == Spec => []CoinsGone
BY CoinsGoneInit, CoinsGoneStep, TypedAlways, PTL DEF Spec

LEMMA SpendsTypedAlways == Spec => []SpendsTyped
<1>1. Init => SpendsTyped
  BY FS_EmptySet DEF Init, SpendsTyped
<1> QED
  BY <1>1, SpendsTypedStep, TypedAlways, PTL DEF Spec

LEMMA RowsCoverAlways == Spec => []RowsCover
<1>1. Init => RowsCover
  BY DEF Init, RowsCover
<1> QED
  BY <1>1, RowsCoverStep, TypedAlways, CoinsGoneAlways, PTL DEF Spec

\* What leaves the wallet in a transaction the SERVER signed is at most what the
\* ledger counts for it and the fee cap, whatever the PSBT claimed of its inputs
\* and outputs (inspect.rs against sign.rs and ledger.rs).
THEOREM LedgerAlwaysCoversOutflow == Spec => []LedgerCoversOutflow
<1>1. Init => LedgerCoversOutflow
  BY DEF Init, LedgerCoversOutflow
<1>2. IInv => Accounted
  BY DEF IInv
<1> QED
  BY <1>1, <1>2, LedgerCoversStep, TypedAlways, CoinsGoneAlways,
     SpendsTypedAlways, RowsCoverAlways, IInvAlways, PTL DEF Spec

\* A sweep that build-sweep wrote passes the service's inspection, on its path
\* and with its fee, for as long as its coins are there: migrate.rs and
\* inspect.rs agree on weights, sequences and owners at any rate and timelock.
THEOREM SweepsAlwaysStaySignable == Spec => []SweepsStaySignable
<1>1. Init => SweepsFit
  BY DEF Init, SweepsFit
<1> QED
  BY <1>1, SweepsFitStep, FittingSweeps, TypedAlways, CoinsGoneAlways,
     PTL DEF Spec
=============================================================================
