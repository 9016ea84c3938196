------------------------- MODULE SpendQueueLiveness -------------------------
(***************************************************************************)
(* SpendQueue with the fairness its scheduling gives the sweeper.           *)
(***************************************************************************)
EXTENDS SpendQueue

CONSTANT Reachable   \* spends whose inputs the node can look up, if only
                     \* every now and then; the others fail on every attempt

\* tokio keeps polling the sweeper's task, and inspections and notices come
\* back with some answer: the loop never rests while the process is up.
\* Repeated attempts at a reachable spend succeed in the end: neither the node
\* nor the ledger fails it every time.  The other spends may error at any step
\* forever, and in whatever order the rows are listed they may come first;
\* requests, operators and restarts owe nothing.
SweeperFairness ==
  /\ WF_vars(Sweep) /\ WF_vars(Tick)
  /\ \A t \in Reachable :
       /\ SF_vars(row = t /\ (InspectOk \/ InspectInvalid))
       /\ SF_vars(row = t /\ (Skip \/ Sign \/ Refuse \/ SigningError))
       /\ SF_vars(row = t /\ SweepMarkFailed)

FairSpec == Spec /\ SweeperFairness

\* main.rs and sign.rs: a row that fails must never stop the others.  Once the
\* service stays up and unfrozen, every reachable spend whose hold can run out
\* within the model's clock leaves the queue, however often another row errors.
ReachableSpendsAreResolved ==
  <>[]~frozen /\ <>[][~Restart]_vars =>
    \A t \in Reachable :
      (Has(t, "pending") /\ pending[t].hold_until <= MaxTime)
        ~> ~Has(t, "pending")

=============================================================================
