------------------------ MODULE MCSpendQueueLiveness ------------------------
(***************************************************************************)
(* Instance of SpendQueueLiveness for TLC: two hot spends, one of them with  *)
(* an input the node never answers for.                                     *)
(***************************************************************************)
EXTENDS SpendQueueLiveness

CONSTANTS t1, t2, friend

MCAddress == {friend}

MCPsbts ==
  {[txid |-> t, path |-> "hot", spend_sat |-> 1, fee_sat |-> 1, fee_rate |-> 1,
    dests |-> {friend}, signable |-> TRUE] : t \in Txid}

MCPolicies ==
  {[max_tx_sat |-> 1, max_daily_sat |-> 1, max_weekly_sat |-> 2,
    max_monthly_sat |-> 2, max_fee_sat |-> 1, max_fee_rate |-> 1,
    destination_whitelist |-> {friend}]}

=============================================================================
