---------------------------- MODULE MCSpendPaths ----------------------------
(***************************************************************************)
(* An instance of SpendPaths for TLC: a coin on each chain, a third beyond  *)
(* the gap limit, and one that is not the wallet's.                         *)
(***************************************************************************)
EXTENDS SpendPaths

\* What made the coins the service finds.
genesis == [inputs |-> <<>>, outputs |-> <<>>]

Own(c, i)    == [chain |-> c, index |-> i]
Foreign(i)   == [chain |-> "foreign", index |-> i]
MCAddress    == {Foreign(0), Foreign(1), Own("internal", 1)}
MCDestination == Foreign(1)

Coin(script, value, confirmations) ==
  [txout |-> TxOut(script, value), confirmations |-> confirmations]

C1 == <<genesis, 1>>
C2 == <<genesis, 2>>
C3 == <<genesis, 3>>
C4 == <<genesis, 4>>

MCGenesis ==
  (C1 :> Coin(Own("external", 0), 9, 0))
  @@ (C2 :> Coin(Own("internal", 0), 6, 2))
  @@ (C3 :> Coin(Own("external", 1), 9, 1)) @@ (C4 :> Coin(Foreign(0), 9, 1))

Input(o, sequence, claims) ==
  [outpoint |-> o, sequence |-> sequence, claimed |-> claims,
   partial_sigs |-> {}, sighash |-> "ALL"]

Output(script, value, derivation) ==
  [script |-> script, value |-> value, derivation |-> derivation]

\* A payment with change, whose change PSBT fields name as such.
Payment ==
  [inputs  |-> <<Input(C1, NoRelativeLock, {TxOut(Own("external", 0), 9)})>>,
   outputs |-> <<Output(Foreign(0), 3, FALSE),
                 Output(Own("internal", 0), 4, TRUE)>>]

\* The same transaction, whose payment is said to be change too.
Spoof == [Payment EXCEPT !.outputs[1].derivation = TRUE]

\* Both coins at once, one of them old enough for the phone's branch.
Mixed(n) ==
  [inputs  |-> <<Input(C1, NoRelativeLock, {}), Input(C2, n, {})>>,
   outputs |-> <<Output(Foreign(1), 12, FALSE)>>]

\* A payment with a sequence that lets the phone sign, and change beyond the gap
\* limit, which counts as spent.
Slow(n) ==
  [inputs  |-> <<Input(C2, n, {})>>,
   outputs |-> <<Output(Foreign(0), 1, FALSE),
                 Output(Own("internal", 1), 2, FALSE)>>]

\* PSBTs that are refused, each for a reason of its own: an amount the chain
\* does not confirm, a sighash type, a coin that is not ours.
Lies ==
  [Payment EXCEPT !.inputs =
     <<[@[1] EXCEPT !.claimed = {TxOut(Own("external", 0), 99)}]>>]
Partial ==
  [Payment EXCEPT !.inputs = <<[@[1] EXCEPT !.sighash = "NONE"]>>]
Joined ==
  [inputs  |-> <<Input(C1, NoRelativeLock, {}), Input(C4, NoRelativeLock, {})>>,
   outputs |-> <<Output(Foreign(0), 2, FALSE)>>]

MCDrafts ==
  {Payment, Spoof, Mixed(2), Slow(2), Joined, Lies, Partial}

MCSweepRequests == {<<C1, C2>>, <<C3>>}

MCPolicy ==
  [max_tx_sat |-> 3, max_daily_sat |-> 3, max_weekly_sat |-> 3,
   max_monthly_sat |-> 3, max_fee_sat |-> 4, max_fee_rate |-> 2,
   destination_whitelist |-> MCAddress]

MCWhitelist == {MCDestination, Own("internal", 1)}

\* Descriptors: the timelocks at which pairs, and each key by itself, are given
\* a clause.  Some are more than one script can express.
Clauses(keys, olders) == {[keys |-> keys, older |-> o] : o \in olders}
MCPolicyOf(hot, sm, rm, alone) ==
  Clauses({"satochip", "server"}, hot) \cup Clauses({"satochip", "mobile"}, sm)
    \cup Clauses({"server", "mobile"}, rm)
    \cup UNION {Clauses({k}, alone) : k \in Role}
MCPolicies ==
  {MCPolicyOf(hot, sm, rm, alone) :
     hot \in {{}, {0}, {2}}, sm \in SUBSET (0..3),
     rm \in {{}, {1}, {2}, {1, 2}}, alone \in {{}, {0}, {2}, {3}}}

\* thresh(2, A, B, C and older(2), older(3)): from block 3 on, one key will do.
MCDecaying == {[policy |-> MCPolicyOf({0}, {2}, {2}, {3}), n |-> 2]}
MCCandidates == {[policy |-> p, n |-> n] : p \in MCPolicies, n \in 1..2}
=============================================================================
