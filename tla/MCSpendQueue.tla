---------------------------- MODULE MCSpendQueue ----------------------------
(***************************************************************************)
(* Instances of SpendQueue for TLC.                                         *)
(***************************************************************************)
EXTENDS SpendQueueRefinement, TLC

CONSTANTS t1, t2, t3, friend, stranger

MCAddress == {friend, stranger}

Psbt(t, path, sat, dest, signable) ==
  [txid |-> t, path |-> path, spend_sat |-> sat, fee_sat |-> 1, fee_rate |-> 1,
   dests |-> {dest}, signable |-> signable]

Caps(tx, day, week, month) ==
  [max_tx_sat |-> tx, max_daily_sat |-> day, max_weekly_sat |-> week,
   max_monthly_sat |-> month, max_fee_sat |-> 1, max_fee_rate |-> 1,
   destination_whitelist |-> MCAddress]

\* A hot spend and a recovery spend that outweighs every cap.
HotAndRecovery == {Psbt(t1, "hot", 2, friend, TRUE),
                   Psbt(t2, "recovery", 9, friend, TRUE)}

\* One transaction as three PSBTs: signable and not, and on the other path.
OneTxVariants == {Psbt(t1, "hot", 2, friend, TRUE),
                  Psbt(t1, "hot", 2, friend, FALSE),
                  Psbt(t1, "recovery", 2, friend, TRUE)}

OnePolicy == {Caps(5, 5, 5, 5)}

\* Spends that fit a cap one at a time and not together, one that fits no cap
\* but needs none, and one to a stranger.
BudgetPsbts == {Psbt(t1, "hot", 2, friend, TRUE),
                Psbt(t2, "hot", 2, friend, TRUE),
                Psbt(t3, "recovery", 9, friend, TRUE)}
BudgetPolicies == {Caps(2, 3, 9, 9), Caps(2, 9, 9, 3)}

\* The steps that can lead to a signature: without vetoes, freezes, failures
\* and crashes, each of which only takes spends out of the queue.
BudgetNext ==
  \/ \E c \in Client :
       \/ \E p \in Psbts : Arrive(c, p)
       \/ CheckFreeze(c) \/ SubmitAnswer(c) \/ SubmitQueue(c) \/ NotifyOk(c)
  \/ \E p \in Policies : PostPolicy(p)
  \/ StartSweep \/ (\E t \in Txid : BeginRow(t)) \/ InspectOk \/ RowError
  \/ Sign \/ Refuse \/ StartReminders \/ EndSweep
  \/ Tick

BudgetSpec == Init /\ [][BudgetNext]_vars

Clients  == Permutations(Client)
HotTwins == Permutations({t1, t2})

=============================================================================
