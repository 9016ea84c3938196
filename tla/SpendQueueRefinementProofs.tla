---------------------- MODULE SpendQueueRefinementProofs ----------------------
(***************************************************************************)
(* Proof that SpendQueue implements SpendLifecycle: initial states map to   *)
(* initial states, and every step maps to a step of the lifecycle of one    *)
(* spend, to a turn of the freeze, to time passing, or to nothing at all.   *)
(***************************************************************************)
EXTENDS SpendQueueRefinement, SpendQueueProofs

Deadline(t) == IF Present(t) THEN pending[t].hold_until ELSE 0

\* Empty tables are the lifecycle's initial state.
LEMMA InitImplements == Init => Lifecycle!LifecycleInit
BY DEF Init, Lifecycle!LifecycleInit, Phase, Recorded, already_recorded, Has,
   Present

\* The lifecycle of a spend turns on three facts, and on nothing else.
LEMMA PhaseFrom ==
  ASSUME NEW t \in Txid
  PROVE  /\ Recorded(t) => Phase(t) = "signed"
         /\ ~Recorded(t) /\ Has(t, "pending") => Phase(t) = "held"
         /\ ~Recorded(t) /\ ~Present(t) => Phase(t) = "absent"
         /\ ~Recorded(t) /\ Present(t) /\ ~Has(t, "pending")
              => Phase(t) = "closed"
BY DEF Phase, Has

\* The same, of the state after a step.
LEMMA PhaseThen ==
  ASSUME NEW t \in Txid
  PROVE  /\ Recorded(t)' => Phase(t)' = "signed"
         /\ ~Recorded(t)' /\ Has(t, "pending")' => Phase(t)' = "held"
         /\ ~Recorded(t)' /\ ~Present(t)' => Phase(t)' = "absent"
         /\ ~Recorded(t)' /\ Present(t)' /\ ~Has(t, "pending")'
              => Phase(t)' = "closed"
BY DEF Phase, Has

\* A transition of one spend, the ledger keeping what it had.
LEMMA OneSpendMoves ==
  ASSUME NEW t \in Txid,
         \A u \in Txid : u # t =>
           pending'[u] = pending[u] /\ (Recorded(u)' <=> Recorded(u)),
         Deadline(t)' = Deadline(t), UNCHANGED <<now, frozen>>,
         \/ Phase(t)' = Phase(t)
         \/ Phase(t) = "held" /\ Phase(t)' = "closed"
         \/ /\ Phase(t) = "held" /\ Phase(t)' = "signed"
            /\ Deadline(t) <= now /\ ~frozen
  PROVE  [Lifecycle!LifecycleNext]_(Lifecycle!lifecycle)
<1>1. ASSUME NEW u \in Txid, u # t
      PROVE  Phase(u)' = Phase(u) /\ Deadline(u)' = Deadline(u)
  BY <1>1, PhaseFrom, PhaseThen DEF Has, Present, Deadline, Phase
<1>2. [u \in Txid |-> Deadline(u)]' = [u \in Txid |-> Deadline(u)]
  BY <1>1
<1>3. [u \in Txid |-> Phase(u)]' =
        [[u \in Txid |-> Phase(u)] EXCEPT ![t] = Phase(t)']
  BY <1>1
<1>4. CASE Phase(t)' = Phase(t)
  BY <1>1, <1>2, <1>4 DEF Lifecycle!lifecycle, Deadline
<1>5. CASE Phase(t) = "held" /\ Phase(t)' = "closed"
  <2>1. Lifecycle!Close(t)
    BY <1>2, <1>3, <1>5 DEF Lifecycle!Close, Lifecycle!Move, Deadline
  <2> QED BY <2>1 DEF Lifecycle!LifecycleNext
<1>6. CASE /\ Phase(t) = "held" /\ Phase(t)' = "signed"
           /\ Deadline(t) <= now /\ ~frozen
  <2>1. Lifecycle!Sign(t)
    BY <1>2, <1>3, <1>6 DEF Lifecycle!Sign, Lifecycle!Move, Deadline
  <2> QED BY <2>1 DEF Lifecycle!LifecycleNext
<1> QED BY <1>4, <1>5, <1>6

\* A step that leaves the tables alone and the clock running is a turn of the
\* freeze, time passing, or nothing.
LEMMA TablesUntouched ==
  ASSUME TypeOK, TypeOK', UNCHANGED <<ledger, pending>>,
         \/ UNCHANGED <<now, frozen>>
         \/ now' = now /\ frozen' = ~frozen
         \/ now' > now /\ frozen' = frozen
  PROVE  [Lifecycle!LifecycleNext]_(Lifecycle!lifecycle)
<1>1. [u \in Txid |-> Phase(u)]' = [u \in Txid |-> Phase(u)]
  BY DEF Phase, Recorded, already_recorded, Has, Present
<1>2. [u \in Txid |-> Deadline(u)]' = [u \in Txid |-> Deadline(u)]
  BY DEF Deadline, Present
<1>3. CASE UNCHANGED <<now, frozen>>
  BY <1>1, <1>2, <1>3 DEF Lifecycle!lifecycle, Deadline
<1>4. CASE now' = now /\ frozen' = ~frozen
  BY <1>1, <1>2, <1>4 DEF Lifecycle!LifecycleNext, Lifecycle!Switch, Deadline
<1>5. CASE now' > now /\ frozen' = frozen
  BY <1>1, <1>2, <1>5 DEF Lifecycle!LifecycleNext, Lifecycle!Pass, Deadline
<1> QED BY <1>3, <1>4, <1>5

\* Failing a row, or vetoing or denying a pending one, closes a held spend; of
\* a spend that is signed or closed already it changes nothing.
LEMMA StatusStepImplements ==
  ASSUME TypeOK, Coherent, NEW t \in Txid, Present(t), NEW s \in PendingStatus,
         s = "failed" \/ (Has(t, "pending") /\ s \in {"vetoed", "denied"}),
         SetStatus(t, s), UNCHANGED <<now, ledger, frozen>>
  PROVE  [Lifecycle!LifecycleNext]_(Lifecycle!lifecycle)
<1>1. /\ pending'[t].status = s
      /\ \A u \in Txid : u # t => pending'[u] = pending[u]
  BY SetStatusSets
<1>2. Present(t)' /\ Deadline(t)' = Deadline(t)
  BY SetStatusKeepsRows DEF RowsKept, Deadline
<1>3. \A u \in Txid : Recorded(u)' <=> Recorded(u)
  BY DEF Recorded, already_recorded
<1>4. ~Has(t, "pending")'
  BY <1>1 DEF Has, PendingStatus
<1>5. Phase(t)' = Phase(t) \/ (Phase(t) = "held" /\ Phase(t)' = "closed")
  <2>1. CASE Recorded(t)
    BY <1>3, <2>1, PhaseFrom, PhaseThen
  <2>2. CASE ~Recorded(t) /\ Has(t, "pending")
    BY <1>2, <1>3, <1>4, <2>2, PhaseFrom, PhaseThen
  <2>3. CASE ~Recorded(t) /\ ~Has(t, "pending")
    BY <1>2, <1>3, <1>4, <2>3, PhaseFrom, PhaseThen
  <2> QED BY <2>1, <2>2, <2>3
<1> QED BY <1>1, <1>2, <1>3, <1>5, OneSpendMoves

\* A spend that is neither in the ledger nor in the queue is held by giving it
\* a pending row, for the hold of the row.
LEMMA AddedRowHolds ==
  ASSUME TypeOK, NEW t \in Txid, NEW r \in PendingRow, r.status = "pending",
         ~Recorded(t), ~Present(t), pending' = [pending EXCEPT ![t] = r],
         UNCHANGED <<now, ledger, frozen>>
  PROVE  [Lifecycle!LifecycleNext]_(Lifecycle!lifecycle)
<1>1. r # None /\ r.hold_until \in Nat
  BY NoneAssumption DEF PendingRow
<1>2. /\ pending'[t] = r
      /\ \A u \in Txid : u # t => pending'[u] = pending[u]
  BY DEF TypeOK
<1>3. \A u \in Txid : Recorded(u)' <=> Recorded(u)
  BY DEF Recorded, already_recorded
<1>4. ASSUME NEW u \in Txid, u # t
      PROVE  Phase(u)' = Phase(u) /\ Deadline(u)' = Deadline(u)
  BY <1>2, <1>3, <1>4, PhaseFrom, PhaseThen DEF Has, Present, Deadline, Phase
<1>5. Present(t)' /\ Has(t, "pending")'
  BY <1>1, <1>2 DEF Present, Has
<1>6. Phase(t) = "absent"
  BY PhaseFrom
<1>7. Phase(t)' = "held"
  BY <1>3, <1>5, PhaseThen
<1>8. Deadline(t)' = r.hold_until
  BY <1>2, <1>5 DEF Deadline
<1>9. [u \in Txid |-> Phase(u)]' =
        [[u \in Txid |-> Phase(u)] EXCEPT ![t] = "held"]
  BY <1>4, <1>7
<1>10. /\ [u \in Txid |-> Deadline(u)]' =
            [[u \in Txid |-> Deadline(u)] EXCEPT ![t] = r.hold_until]
       /\ [u \in Txid |-> Deadline(u)]'[t] = r.hold_until
  BY <1>4, <1>8
<1>11. Lifecycle!Hold(t)
  BY <1>1, <1>6, <1>9, <1>10 DEF Lifecycle!Hold, Lifecycle!Move, Deadline
<1> QED BY <1>11 DEF Lifecycle!LifecycleNext

\* A submission that is queued holds its spend.
LEMMA SubmitImplements ==
  ASSUME TypeOK, Coherent, NEW c \in Client, SubmitQueue(c)
  PROVE  [Lifecycle!LifecycleNext]_(Lifecycle!lifecycle)
<1>1. req[c] \in Submission /\ req[c].psbt.txid \in Txid
  BY QueueAssumption DEF SubmitQueue, Goto, TypeOK, Coherent,
     HandlersCoherent, HandlerCoherent, Submission, InspectionReport
<1>2. PICK r : /\ r = [psbt |-> req[c].psbt, created_at |-> req[c].now,
                        hold_until |-> req[c].now + HoldFor(req[c].psbt),
                        status |-> "pending", last_notified_at |-> req[c].now]
               /\ pending' = [pending EXCEPT ![req[c].psbt.txid] = r]
  BY DEF SubmitQueue
<1>3. r \in PendingRow /\ r.status = "pending"
  BY <1>1, <1>2, QueueAssumption DEF PendingRow, PendingStatus, Submission,
     HoldFor
<1>4. /\ ~Recorded(req[c].psbt.txid) /\ ~Present(req[c].psbt.txid)
      /\ UNCHANGED <<now, ledger, frozen>>
  BY DEF SubmitQueue, Queueable
<1> QED BY <1>1, <1>2, <1>3, <1>4, AddedRowHolds

\* Sign signs a held spend whose hold has elapsed: the row is pending, so its
\* spend is not recorded before, and it was due by the clock of the pass.
LEMMA SignImplements ==
  ASSUME Safe, [Next]_vars, Sign
  PROVE  [Lifecycle!LifecycleNext]_(Lifecycle!lifecycle)
<1> USE DEF Safe
<1>1. PICK t \in Txid : t = row /\ Present(t) /\ Has(t, "pending")
  BY DEF Sign, RowStillDue, Coherent, SweeperCoherent, InHand
<1>2. ~frozen /\ UNCHANGED <<now, frozen>>
  BY DEF Sign, RowStillDue
<1>3. ~Recorded(t)
  BY <1>1 DEF LedgerMatchesQueue, Recorded, already_recorded, Has
<1>4. Deadline(t) <= now
  <2>1. pending[t].hold_until <= snap.now /\ snap.now <= now /\ snap # None
    BY <1>1 DEF Sign, Coherent, SweeperCoherent, DueBy
  <2>2. pending[t].hold_until \in Nat /\ snap.now \in Nat /\ now \in Nat
    BY <1>1, <2>1 DEF TypeOK, PendingRow, Present, Snapshot
  <2> QED BY <1>1, <2>1, <2>2 DEF Deadline
<1>5. pending[t].psbt.txid = t
  BY <1>1 DEF Coherent, RowsCoherent
<1>6. ledger' = ledger \cup {[txid |-> t, recorded_at |-> snap.now,
                              spend_sat |-> pending[t].psbt.spend_sat]}
  BY <1>1, <1>3, <1>5 DEF Sign, Verdict
<1>7. /\ Recorded(t)'
      /\ \A u \in Txid : u # t => (Recorded(u)' <=> Recorded(u))
  <2>1. PICK e : e.txid = t /\ ledger' = ledger \cup {e}
    BY <1>6
  <2>2. Recorded(t)'
    BY <2>1 DEF Recorded, already_recorded
  <2>3. ASSUME NEW u \in Txid, u # t PROVE Recorded(u)' <=> Recorded(u)
    BY <2>1, <2>3 DEF Recorded, already_recorded
  <2> QED BY <2>2, <2>3
<1>8. \A u \in Txid : u # t => pending'[u] = pending[u]
  BY <1>1, SetStatusSets DEF Sign
<1>9. Deadline(t)' = Deadline(t)
  BY <1>1, NextKeepsRows DEF RowsKept, Deadline
<1>10. Phase(t) = "held" /\ Phase(t)' = "signed"
  BY <1>1, <1>3, <1>7, PhaseFrom, PhaseThen
<1> QED BY <1>2, <1>4, <1>7, <1>8, <1>9, <1>10, OneSpendMoves

\* Every step of the queue is a step of the lifecycle of one spend, or leaves
\* every lifecycle as it is.
LEMMA NextImplements ==
  ASSUME Safe, [Next]_vars
  PROVE  [Lifecycle!LifecycleNext]_(Lifecycle!lifecycle)
<1>0. TypeOK /\ Coherent /\ TypeOK'
  BY NextTypeOK DEF Safe
<1>1. ASSUME NEW c \in Client, SubmitQueue(c)
      PROVE  [Lifecycle!LifecycleNext]_(Lifecycle!lifecycle)
  BY <1>0, <1>1, SubmitImplements
<1>2. ASSUME NEW c \in Client, MarkFailed(c)
      PROVE  [Lifecycle!LifecycleNext]_(Lifecycle!lifecycle)
  <2>1. req[c].psbt.txid \in Txid /\ Present(req[c].psbt.txid)
    BY <1>0, <1>2, QueueAssumption DEF MarkFailed, TypeOK, Coherent,
       HandlersCoherent, HandlerCoherent, Unsettled, Submission,
       InspectionReport
  <2> QED
    BY <1>0, <1>2, <2>1, StatusStepImplements DEF MarkFailed, PendingStatus
<1>3. ASSUME NEW t \in Txid, Veto(t)
      PROVE  [Lifecycle!LifecycleNext]_(Lifecycle!lifecycle)
  BY <1>0, <1>3, StatusStepImplements DEF Veto, Has, PendingStatus
<1>4. CASE Refuse \/ SweepMarkFailed
  <2>1. row \in Txid /\ Present(row)
    BY <1>0, <1>4 DEF Refuse, SweepMarkFailed, Coherent, SweeperCoherent, InHand
  <2> QED
    BY <1>0, <1>4, <2>1, StatusStepImplements
       DEF Refuse, SweepMarkFailed, RowStillDue, PendingStatus
<1>5. CASE MarkNotified
  <2>1. PICK t \in Txid : t = row /\ pending[t] \in PendingRow /\ Present(t)
    BY <1>0, <1>5 DEF MarkNotified, Coherent, SweeperCoherent, InHand, TypeOK,
       Present
  <2>2. pending'[t].status = pending[t].status
    BY <1>0, <1>5, <2>1 DEF MarkNotified, TypeOK, PendingRow
  <2>3. Present(t)' /\ Deadline(t)' = Deadline(t)
    BY <1>0, <2>1, NextKeepsRows DEF RowsKept, Deadline
  <2>4. \A u \in Txid : u # t => pending'[u] = pending[u]
    BY <1>0, <1>5, <2>1 DEF MarkNotified, TypeOK
  <2>5. UNCHANGED <<now, frozen, ledger>>
    BY <1>5 DEF MarkNotified
  <2>6. \A u \in Txid : Recorded(u)' <=> Recorded(u)
    BY <2>5 DEF Recorded, already_recorded
  <2>7. Phase(t)' = Phase(t)
    BY <2>1, <2>2, <2>3, <2>6 DEF Phase, Has
  <2> QED BY <1>0, <2>3, <2>4, <2>5, <2>6, <2>7, OneSpendMoves
<1>6. CASE /\ UNCHANGED <<ledger, pending>>
           /\ \/ UNCHANGED <<now, frozen>>
              \/ now' = now /\ frozen' = ~frozen
              \/ now' > now /\ frozen' = frozen
  BY <1>0, <1>6, TablesUntouched
<1>7. CASE Freeze \/ Unfreeze
  BY <1>0, <1>6, <1>7 DEF Freeze, Unfreeze, TypeOK
<1>8. CASE Tick
  BY <1>0, <1>6, <1>8 DEF Tick, tables, TypeOK
<1> QED
  BY <1>1, <1>2, <1>3, <1>4, <1>5, <1>6, <1>7, <1>8, SignImplements
     DEF Next, Request, Operator, Sweep, Arrive, CheckFreeze, SubmitAnswer,
     NotifyOk, NotifyFail, Abandon, PostPolicy, StartSweep, BeginRow, InspectOk,
     InspectInvalid, RowError, Skip, SigningError, StartReminders, RemindOk,
     RemindFail, EndSweep, Restart, vars, tables

\* Through every interleaving of handlers, sweeper, vetoes, freezes and crashes,
\* a spend is held once, signed at most once, after its hold and outside of a
\* freeze, and never revived once it has left the queue.
THEOREM QueueImplementsLifecycle == Spec => ImplementsLifecycle
<1>1. Init => Lifecycle!LifecycleInit
  BY InitImplements
<1>2. Safe /\ [Next]_vars => [Lifecycle!LifecycleNext]_(Lifecycle!lifecycle)
  BY NextImplements
<1> QED
  BY <1>1, <1>2, SafeInvariant, PTL
     DEF Spec, ImplementsLifecycle, Lifecycle!LifecycleSpec

=============================================================================
