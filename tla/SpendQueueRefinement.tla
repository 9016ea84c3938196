------------------------ MODULE SpendQueueRefinement ------------------------
(***************************************************************************)
(* SpendQueue implements SpendLifecycle: the phase of a spend is read off    *)
(* the two tables that record it, a recorded spend being signed whatever    *)
(* its queue row says by now.                                               *)
(***************************************************************************)
EXTENDS SpendQueue

Phase(t) ==
  CASE Recorded(t)                     -> "signed"
    [] ~Recorded(t) /\ Has(t, "pending") -> "held"
    [] ~Recorded(t) /\ ~Present(t)       -> "absent"
    [] OTHER                           -> "closed"

Lifecycle == INSTANCE SpendLifecycle WITH
  Spend    <- Txid,
  phase    <- [t \in Txid |-> Phase(t)],
  deadline <- [t \in Txid |-> IF Present(t) THEN pending[t].hold_until ELSE 0],
  clock    <- now,
  halted   <- frozen

\* Through every interleaving of handlers, sweeper, vetoes, freezes and
\* crashes, a spend is held once, signed at most once, after its hold and
\* outside of a freeze, and never revived: rows the code overwrites (vetoed or
\* signed, then failed) do not change what became of the spend itself.
ImplementsLifecycle == Lifecycle!LifecycleSpec

=============================================================================
