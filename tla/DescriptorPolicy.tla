--------------------------- MODULE DescriptorPolicy ---------------------------
(***************************************************************************)
(* The wallet's spending policy (descriptor.rs) and the analysis that       *)
(* `descriptor build` and `descriptor check` run on it (invariants.rs).     *)
(*                                                                          *)
(* A descriptor, lifted to its policy, is a set of clauses.  It is          *)
(* satisfied by the signatures of one clause's keys once the coin has the   *)
(* age that clause asks for; older = 0 asks for none.                       *)
(***************************************************************************)
EXTENDS Integers, FiniteSets

CONSTANT MaxTimelock  \* 65535: the largest u16

ASSUME TimelockAssumption == MaxTimelock \in Nat \ {0}

Role == {"satochip", "server", "mobile"}

Clause == [keys : SUBSET Role, older : 0..MaxTimelock]

\* thresh(2, SATOCHIP, SERVER, MOBILE and older(N)), as clauses.
policy_string(timelock_blocks) ==
  {[keys |-> {"satochip", "server"}, older |-> 0],
   [keys |-> {"satochip", "mobile"}, older |-> timelock_blocks],
   [keys |-> {"server", "mobile"}, older |-> timelock_blocks]}

\* What consensus lets these signatures do to a coin of this age.
Spends(policy, keys, age) ==
  \E c \in policy : c.keys \subseteq keys /\ c.older <= age

-----------------------------------------------------------------------------
(* invariants.rs *)

\* Semantic::entails for and(pk(..).., older(t)), t = 0 for no older: it takes
\* older(t) for an atom, which only itself implies.
Entails(keys, t, policy) ==
  \E c \in policy : c.keys \subseteq keys /\ c.older \in {0, t}

Pairs(keys) == {{a, b} : a \in keys, b \in keys} \ {{a} : a \in keys}

no_single_key_can_spend(policy, keys, n) ==
  \A k \in keys : ~Entails({k}, 0, policy) /\ ~Entails({k}, n, policy)

spends_immediately(policy, pair) == Entails(pair, 0, policy)

spends_after_timelock(policy, pair, n) == Entails(pair, n, policy)

\* Mutant: the timelock itself is taken for one block early.
timelock_boundary_holdsLate(policy, keys, n) ==
  n > 1 =>
    \A p \in Pairs(keys) :
      spends_after_timelock(policy, p, n) /\ ~spends_immediately(policy, p)
        => Entails(p, n, policy)

timelock_boundary_holds(policy, keys, n) ==
  n > 1 =>
    \A p \in Pairs(keys) :
      spends_after_timelock(policy, p, n) /\ ~spends_immediately(policy, p)
        => ~Entails(p, n - 1, policy)

verify_invariants(policy, keys, n) ==
  [no_single_key_can_spend |-> no_single_key_can_spend(policy, keys, n),
   exactly_one_immediate_path |->
     \E p \in Pairs(keys) :
       \A q \in Pairs(keys) : spends_immediately(policy, q) <=> q = p,
   at_least_one_timelocked_path |->
     \E p \in Pairs(keys) : /\ spends_after_timelock(policy, p, n)
                            /\ ~spends_immediately(policy, p),
   timelock_boundary_holds |-> timelock_boundary_holds(policy, keys, n),
   every_pair_can_eventually_spend |->
     \A p \in Pairs(keys) : \/ spends_immediately(policy, p)
                            \/ spends_after_timelock(policy, p, n)]

all_invariants_hold(report) ==
  /\ report.no_single_key_can_spend
  /\ report.exactly_one_immediate_path
  /\ report.at_least_one_timelocked_path
  /\ report.timelock_boundary_holds
  /\ report.every_pair_can_eventually_spend

-----------------------------------------------------------------------------
(* What the report promises, in terms of coins and their ages: the module    *)
(* doc of invariants.rs.                                                     *)

Ages == 0..MaxTimelock

NeverAlone(policy) ==
  \A k \in Role, age \in Ages : ~Spends(policy, {k}, age)

OneHotPair(policy) ==
  \E p \in Pairs(Role) :
    \A q \in Pairs(Role) : Spends(policy, q, 0) <=> q = p

\* Every pair but the hot one spends from age n on and not before.
OthersFrom(policy, n) ==
  \A p \in Pairs(Role), age \in Ages :
    ~Spends(policy, p, 0) => (Spends(policy, p, age) <=> age >= n)

\* The analysis asks about no timelock but n and, for pairs, n - 1.
AsksAbout(policy, n) ==
  \A c \in policy :
    c.older \in {0, n} \/ (c.older = n - 1 /\ Cardinality(c.keys) > 1)

Promised(policy, n) ==
  NeverAlone(policy) /\ OneHotPair(policy) /\ OthersFrom(policy, n)
===============================================================================
