---------------------------- MODULE PolicyEngine ----------------------------
(***************************************************************************)
(* The pure rules of the co-signer: what a spend adds up to over the        *)
(* trailing windows of the ledger (ledger.rs) and whether a policy allows   *)
(* it (policy.rs).  Nothing here has state; SpendQueue applies these        *)
(* operators to the ledger it keeps.                                        *)
(*                                                                          *)
(* A report stands for the InspectionReport of one PSBT:                    *)
(*   txid       the unsigned transaction it spends                          *)
(*   path       the SpendingPath inspection found                           *)
(*   spend_sat  the destination outputs' total (destination_total_sat)      *)
(*   fee_sat, fee_rate                                                      *)
(*   dests      the addresses of the destination outputs                    *)
(*   signable   whether sign_hot_inputs succeeds on this PSBT               *)
(* A whitelist is the set of destinations it accepts: the absent whitelist  *)
(* is Address, and a whitelist that is present never contains the member    *)
(* of Address that stands for an unresolvable output script.                *)
(***************************************************************************)
EXTENDS Integers, FiniteSetsExt

CONSTANTS
  Txid,           \* unsigned transaction ids
  Address,        \* destinations an output may pay
  DaySeconds,     \* ledger.rs DAY_SECONDS, WEEK_SECONDS and MONTH_SECONDS,
  WeekSeconds,    \* in ticks of the model's clock
  MonthSeconds

ASSUME WindowAssumption ==
  /\ DaySeconds \in Nat /\ WeekSeconds \in Nat /\ MonthSeconds \in Nat
  /\ 0 < DaySeconds
  /\ DaySeconds < WeekSeconds
  /\ WeekSeconds < MonthSeconds

SpendingPath == {"hot", "recovery", "ambiguous"}

InspectionReport ==
  [txid : Txid, path : SpendingPath, spend_sat : Nat, fee_sat : Nat,
   fee_rate : Nat, dests : SUBSET Address, signable : BOOLEAN]

CompiledPolicy ==
  [max_tx_sat : Nat, max_daily_sat : Nat, max_weekly_sat : Nat,
   max_monthly_sat : Nat, max_fee_sat : Nat, max_fee_rate : Nat,
   destination_whitelist : SUBSET Address]

\* A row of the ledger table: one signature this service has produced.
LedgerRow == [txid : Txid, recorded_at : Nat, spend_sat : Nat]

-----------------------------------------------------------------------------
(* ledger.rs: what has been spent lately.                                   *)

SpentSince(rows, now, window) ==
  SumFunctionOnSet([e \in rows |-> e.spend_sat],
                   {e \in rows : now - e.recorded_at \in 0 .. window - 1})

rolling_totals(rows, now) ==
  [day_sat   |-> SpentSince(rows, now, DaySeconds),
   week_sat  |-> SpentSince(rows, now, WeekSeconds),
   month_sat |-> SpentSince(rows, now, MonthSeconds)]

already_recorded(rows, txid) == \E e \in rows : e.txid = txid

-----------------------------------------------------------------------------
(* policy.rs: TRUE stands for PolicyDecision::Allow, FALSE for Deny of      *)
(* whichever violations there are.                                          *)

FeeAllowed(report, policy) ==
  /\ report.fee_sat <= policy.max_fee_sat
  /\ report.fee_rate <= policy.max_fee_rate

evaluate_recovery_policy(report, whitelist, policy) ==
  /\ FeeAllowed(report, policy)
  /\ report.dests \subseteq whitelist

evaluate_policy(report, rolling, policy) ==
  /\ report.spend_sat <= policy.max_tx_sat
  /\ rolling.day_sat + report.spend_sat <= policy.max_daily_sat
  /\ rolling.week_sat + report.spend_sat <= policy.max_weekly_sat
  /\ rolling.month_sat + report.spend_sat <= policy.max_monthly_sat
  /\ FeeAllowed(report, policy)
  /\ report.dests \subseteq policy.destination_whitelist

=============================================================================
