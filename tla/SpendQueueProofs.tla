-------------------------- MODULE SpendQueueProofs --------------------------
(***************************************************************************)
(* Proofs about SpendQueue, for any transactions, PSBTs, policies, holds    *)
(* and number of concurrent requests.                                       *)
(***************************************************************************)
EXTENDS SpendQueue, SumProofs

\* The initial state has the right types.
LEMMA InitTypeOK == Init => TypeOK
<1> SUFFICES ASSUME Init PROVE TypeOK
  OBVIOUS
<1>1. now \in Nat /\ ledger \subseteq LedgerRow /\ frozen \in BOOLEAN
  BY DEF Init
<1>2. policy \in Policies /\ recovery_enabled \in BOOLEAN
  BY DEF Init
<1>3. pending \in [Txid -> PendingRow \cup {None}]
  BY DEF Init
<1>4. /\ pc \in [Client -> {"idle", "freeze_check", "ledger_tx", "notify",
                            "mark_failed"}]
      /\ req \in [Client -> Submission \cup {None}]
  BY DEF Init
<1>5. /\ spc \in {"sleep", "sweep", "inspect", "decide", "mark_failed",
                  "remind", "mark_notified"}
      /\ due \subseteq Txid /\ row \in Txid \cup {None}
      /\ snap \in Snapshot \cup {None}
  BY DEF Init
<1> QED BY <1>1, <1>2, <1>3, <1>4, <1>5 DEF Init, TypeOK

\* A step of a request keeps the types; Coherent says that the row it fails
\* is there to be failed.
LEMMA RequestTypeOK ==
  ASSUME TypeOK, Coherent, NEW c \in Client, Request(c)
  PROVE  TypeOK'
<1> USE QueueAssumption, NoneAssumption
    DEF TypeOK, Coherent, HandlersCoherent, HandlerCoherent, tables, config,
    sweeper, history
<1>1. ASSUME NEW p \in Psbts, Arrive(c, p) PROVE TypeOK'
  BY <1>1 DEF Arrive, Goto, Submission
<1>2. CASE CheckFreeze(c)
  BY <1>2 DEF CheckFreeze, Reply, Goto
<1>3. CASE SubmitAnswer(c)
  BY <1>3 DEF SubmitAnswer, Reply
<1>4. CASE SubmitQueue(c)
  BY <1>4 DEF SubmitQueue, Goto, HoldFor, PendingRow, PendingStatus, Submission,
     InspectionReport
<1>5. CASE NotifyOk(c)
  BY <1>5 DEF NotifyOk, Reply, Submission, InspectionReport
<1>6. CASE NotifyFail(c)
  BY <1>6 DEF NotifyFail, Goto
<1>7. CASE MarkFailed(c)
  <2>1. /\ req[c].psbt.txid \in Txid
        /\ pending[req[c].psbt.txid] \in PendingRow
    BY <1>7 DEF MarkFailed, Unsettled, Present, Submission, InspectionReport
  <2>2. pending' \in [Txid -> PendingRow \cup {None}]
    BY <1>7, <2>1 DEF MarkFailed, SetStatus, PendingRow, PendingStatus
  <2> QED BY <1>7, <2>2 DEF MarkFailed, Reply
<1>8. CASE Abandon(c)
  BY <1>8 DEF Abandon, Reply, Unsettled, Submission, InspectionReport
<1> QED BY <1>1, <1>2, <1>3, <1>4, <1>5, <1>6, <1>7, <1>8 DEF Request

\* A veto, a freeze, an unfreeze or a new policy keeps the types.
LEMMA OperatorTypeOK ==
  ASSUME TypeOK, Operator
  PROVE  TypeOK'
<1> USE DEF TypeOK, tables, config, clients, sweeper, history
<1>1. ASSUME NEW t \in Txid, Veto(t) PROVE TypeOK'
  <2>1. pending[t] \in PendingRow
    BY <1>1 DEF Veto, Has, Present
  <2>2. pending' \in [Txid -> PendingRow \cup {None}]
    BY <1>1, <2>1 DEF Veto, SetStatus, PendingRow, PendingStatus
  <2> QED BY <1>1, <2>2 DEF Veto
<1>2. CASE Freeze
  BY <1>2 DEF Freeze
<1>3. CASE Unfreeze
  BY <1>3 DEF Unfreeze
<1>4. ASSUME NEW p \in Policies, PostPolicy(p) PROVE TypeOK'
  BY <1>4 DEF PostPolicy
<1> QED BY <1>1, <1>2, <1>3, <1>4 DEF Operator

\* A step of the sweeper keeps the types; Coherent says that the row in hand
\* and the clock of the pass are there.
LEMMA SweepTypeOK ==
  ASSUME TypeOK, Coherent, Sweep
  PROVE  TypeOK'
<1> USE DEF TypeOK, Coherent, SweeperCoherent, InHand, tables, config, clients,
            history
<1>1. CASE StartSweep
  BY <1>1 DEF StartSweep, due_pending, Snapshot
<1>2. ASSUME NEW t \in Txid, BeginRow(t) PROVE TypeOK'
  BY <1>2 DEF BeginRow
<1>3. CASE InspectOk
  BY <1>3 DEF InspectOk
<1>4. CASE InspectInvalid
  BY <1>4 DEF InspectInvalid
<1>5. CASE RowError
  BY <1>5 DEF RowError, NextRow
<1>6. CASE Skip
  BY <1>6 DEF Skip, NextRow
<1>7. CASE Sign
  <2>1. row \in Txid /\ pending[row] \in PendingRow
    BY <1>7 DEF Sign, Present
  <2>2. pending' \in [Txid -> PendingRow \cup {None}]
    BY <1>7, <2>1 DEF Sign, SetStatus, PendingRow, PendingStatus
  <2>3. snap.now \in Nat
    BY <1>7 DEF Sign, Snapshot
  <2>4. pending[row].psbt.spend_sat \in Nat
    BY <2>1, QueueAssumption DEF PendingRow, InspectionReport
  <2>5. ledger' \subseteq LedgerRow
    BY <1>7, <2>1, <2>3, <2>4 DEF Sign, LedgerRow
  <2> QED BY <1>7, <2>2, <2>5 DEF Sign, NextRow
<1>8. CASE Refuse
  <2>1. row \in Txid /\ pending[row] \in PendingRow
    BY <1>8 DEF Refuse, Present
  <2>2. pending' \in [Txid -> PendingRow \cup {None}]
    BY <1>8, <2>1 DEF Refuse, SetStatus, PendingRow, PendingStatus
  <2> QED BY <1>8, <2>2 DEF Refuse, NextRow
<1>9. CASE SigningError
  BY <1>9 DEF SigningError
<1>10. CASE SweepMarkFailed
  <2>1. row \in Txid /\ pending[row] \in PendingRow
    BY <1>10 DEF SweepMarkFailed, Present
  <2>2. pending' \in [Txid -> PendingRow \cup {None}]
    BY <1>10, <2>1 DEF SweepMarkFailed, SetStatus, PendingRow, PendingStatus
  <2> QED BY <1>10, <2>2 DEF SweepMarkFailed, NextRow
<1>11. CASE StartReminders
  BY <1>11 DEF StartReminders, pending_needing_renotify
<1>12. ASSUME NEW t \in Txid, RemindOk(t) PROVE TypeOK'
  BY <1>12 DEF RemindOk
<1>13. ASSUME NEW t \in Txid, RemindFail(t) PROVE TypeOK'
  BY <1>13 DEF RemindFail
<1>14. CASE MarkNotified
  <2>1. row \in Txid /\ pending[row] \in PendingRow
    BY <1>14 DEF MarkNotified, Present
  <2>2. snap.now \in Nat
    BY <1>14 DEF MarkNotified, Snapshot
  <2>3. pending' \in [Txid -> PendingRow \cup {None}]
    BY <1>14, <2>1, <2>2 DEF MarkNotified, PendingRow
  <2> QED BY <1>14, <2>3 DEF MarkNotified
<1>15. CASE EndSweep
  BY <1>15 DEF EndSweep, Asleep
<1> QED
  BY <1>1, <1>2, <1>3, <1>4, <1>5, <1>6, <1>7, <1>8, <1>9, <1>10, <1>11, <1>12,
     <1>13, <1>14, <1>15 DEF Sweep

\* Every step keeps the types.
LEMMA NextTypeOK ==
  ASSUME TypeOK, Coherent, [Next]_vars
  PROVE  TypeOK'
<1>1. CASE Restart
  <2>1. UnsettledTxs \subseteq Txid
    BY QueueAssumption DEF UnsettledTxs, Unsettled, TypeOK, Coherent,
       HandlersCoherent, HandlerCoherent, Submission, InspectionReport
  <2> QED BY <1>1, <2>1 DEF Restart, Asleep, TypeOK, tables
<1>2. CASE Tick
  BY <1>2 DEF Tick, TypeOK, tables, config, clients, sweeper, history
<1>3. CASE UNCHANGED vars
  BY <1>3 DEF vars, TypeOK, tables, config, clients, sweeper, history
<1> QED
  BY <1>1, <1>2, <1>3, RequestTypeOK, OperatorTypeOK, SweepTypeOK DEF Next

-----------------------------------------------------------------------------
(* What a step may do to the rows of the queue.                              *)

\* A row of the queue stays, with the PSBT and the times it was queued with.
RowsKept ==
  \A t \in Txid : Present(t) =>
    /\ Present(t)'
    /\ pending'[t].psbt = pending[t].psbt
    /\ pending'[t].created_at = pending[t].created_at
    /\ pending'[t].hold_until = pending[t].hold_until

\* Setting the status of a row changes nothing else of it.
LEMMA SetStatusKeepsRows ==
  ASSUME TypeOK, NEW t \in Txid, Present(t), NEW s \in PendingStatus,
         SetStatus(t, s)
  PROVE  RowsKept
<1>1. pending[t] \in PendingRow
  BY DEF TypeOK, Present
<1>2. [pending[t] EXCEPT !.status = s] \in PendingRow
  BY <1>1 DEF PendingRow
<1>3. pending'[t] # None
  BY <1>2, NoneAssumption DEF SetStatus, TypeOK
<1> QED
  BY <1>1, <1>3 DEF RowsKept, SetStatus, Present, TypeOK, PendingRow

\* A request adds rows but never replaces one: it queues over no existing row,
\* and fails a row by its status alone.
LEMMA RequestKeepsRows ==
  ASSUME TypeOK, Coherent, NEW c \in Client, Request(c)
  PROVE  RowsKept
<1>1. CASE SubmitQueue(c)
  <2>1. ~Present(req[c].psbt.txid)
    BY <1>1 DEF SubmitQueue, Queueable
  <2> QED BY <1>1, <2>1 DEF SubmitQueue, RowsKept, Present, TypeOK
<1>2. CASE MarkFailed(c)
  <2>1. req[c].psbt.txid \in Txid /\ Present(req[c].psbt.txid)
    BY <1>2, QueueAssumption DEF MarkFailed, TypeOK, Coherent,
       HandlersCoherent, HandlerCoherent, Unsettled, Submission,
       InspectionReport
  <2> QED
    BY <1>2, <2>1, SetStatusKeepsRows DEF MarkFailed, PendingStatus
<1>3. CASE UNCHANGED pending
  BY <1>3 DEF RowsKept, Present
<1> QED
  BY <1>1, <1>2, <1>3 DEF Request, Arrive, CheckFreeze, SubmitAnswer, NotifyOk,
     NotifyFail, Abandon, tables

\* The sweeper keeps the rows: it sets a status or the time of a reminder.
LEMMA SweepKeepsRows ==
  ASSUME TypeOK, Coherent, Sweep
  PROVE  RowsKept
<1>1. CASE \E s \in PendingStatus : spc \in InHand /\ SetStatus(row, s)
  BY <1>1, SetStatusKeepsRows DEF Coherent, SweeperCoherent
<1>2. CASE MarkNotified
  <2>1. row \in Txid /\ pending[row] \in PendingRow
    BY <1>2 DEF MarkNotified, Coherent, SweeperCoherent, InHand, TypeOK, Present
  <2>2. snap.now \in Nat
    BY <1>2 DEF MarkNotified, Coherent, SweeperCoherent, TypeOK, Snapshot
  <2>3. pending'[row] \in PendingRow
    BY <1>2, <2>1, <2>2 DEF MarkNotified, TypeOK, PendingRow
  <2>4. pending'[row] # None
    BY <2>3, NoneAssumption
  <2> QED
    BY <1>2, <2>1, <2>4 DEF MarkNotified, RowsKept, Present, TypeOK, PendingRow
<1>3. CASE UNCHANGED pending
  BY <1>3 DEF RowsKept, Present
<1>4. Sign \/ Refuse \/ SweepMarkFailed =>
        \E s \in PendingStatus : spc \in InHand /\ SetStatus(row, s)
  BY DEF Sign, Refuse, SweepMarkFailed, InHand, PendingStatus
<1> QED
  BY <1>1, <1>2, <1>3, <1>4 DEF Sweep, StartSweep, BeginRow, InspectOk,
     InspectInvalid, RowError, Skip, SigningError, StartReminders, RemindOk,
     RemindFail, EndSweep, tables

\* Every step keeps the rows.
LEMMA NextKeepsRows ==
  ASSUME TypeOK, Coherent, [Next]_vars
  PROVE  RowsKept
<1>1. ASSUME NEW t \in Txid, Veto(t) PROVE RowsKept
  BY <1>1, SetStatusKeepsRows DEF Veto, Has, PendingStatus
<1>2. CASE UNCHANGED pending
  BY <1>2 DEF RowsKept, Present
<1> QED
  BY <1>1, <1>2, RequestKeepsRows, SweepKeepsRows
     DEF Next, Operator, Freeze, Unfreeze, PostPolicy, Restart, Tick, vars,
     tables

\* A row is only ever added by a submission that queues it.
LEMMA OnlySubmitAddsRows ==
  ASSUME TypeOK, Coherent, [Next]_vars, NEW t \in Txid, Present(t)', ~Present(t)
  PROVE  \E c \in Client : SubmitQueue(c) /\ t = req[c].psbt.txid
<1> USE DEF Present, TypeOK
<1>1. ASSUME NEW c \in Client, SubmitQueue(c)
      PROVE  t = req[c].psbt.txid
  BY <1>1 DEF SubmitQueue
<1>2. ASSUME NEW u \in Txid, Present(u), NEW s, SetStatus(u, s)
      PROVE  FALSE
  BY <1>2 DEF SetStatus
<1>3. ASSUME NEW c \in Client, MarkFailed(c) PROVE FALSE
  <2>1. req[c].psbt.txid \in Txid /\ Present(req[c].psbt.txid)
    BY <1>3, QueueAssumption DEF MarkFailed, Coherent, HandlersCoherent,
       HandlerCoherent, Unsettled, Submission, InspectionReport
  <2> QED BY <1>2, <1>3, <2>1 DEF MarkFailed
<1>4. ASSUME NEW u \in Txid, Veto(u) PROVE FALSE
  BY <1>2, <1>4 DEF Veto, Has
<1>5. CASE Sign \/ Refuse \/ SweepMarkFailed
  BY <1>2, <1>5 DEF Sign, Refuse, SweepMarkFailed, Coherent, SweeperCoherent,
     InHand
<1>6. CASE MarkNotified
  BY <1>6 DEF MarkNotified, Coherent, SweeperCoherent, InHand
<1>7. CASE UNCHANGED pending
  BY <1>7
<1> QED
  BY <1>1, <1>3, <1>4, <1>5, <1>6, <1>7
     DEF Next, Request, Operator, Sweep, Arrive, CheckFreeze, SubmitAnswer,
     NotifyOk, NotifyFail, Abandon, Freeze, Unfreeze, PostPolicy, StartSweep,
     BeginRow, InspectOk, InspectInvalid, RowError, Skip, SigningError,
     StartReminders, RemindOk, RemindFail, EndSweep, Restart, Tick, vars,
     tables

-----------------------------------------------------------------------------
(* What each process holds stays coherent.                                   *)

\* The clock never goes back, and only the sweeper moves the sweeper.
LEMMA ClockAndSweeper ==
  ASSUME TypeOK, [Next]_vars
  PROVE  /\ now <= now'
         /\ Sweep \/ Restart \/ UNCHANGED sweeper
<1> USE DEF TypeOK
<1>1. ASSUME NEW c \in Client, Request(c)
      PROVE  now' = now /\ UNCHANGED sweeper
  BY <1>1 DEF Request, Arrive, CheckFreeze, SubmitAnswer, SubmitQueue,
     NotifyOk, NotifyFail, MarkFailed, Abandon, Reply, Goto
<1>2. CASE Operator
  BY <1>2 DEF Operator, Veto, Freeze, Unfreeze, PostPolicy
<1>3. Sweep => now' = now
  BY DEF Sweep, StartSweep, BeginRow, InspectOk, InspectInvalid, RowError,
     Skip, Sign, Refuse, SigningError, SweepMarkFailed, StartReminders,
     RemindOk, RemindFail, MarkNotified, EndSweep
<1>4. CASE Restart
  BY <1>4 DEF Restart
<1>5. CASE Tick
  BY <1>5 DEF Tick
<1>6. CASE UNCHANGED vars
  BY <1>6 DEF vars
<1> QED BY <1>1, <1>2, <1>3, <1>4, <1>5, <1>6 DEF Next

\* A step of one request leaves the others alone.
LEMMA OneRequestMoves ==
  ASSUME TypeOK, NEW c \in Client, Request(c), NEW d \in Client, d # c
  PROVE  pc'[d] = pc[d] /\ req'[d] = req[d]
BY DEF TypeOK, Request, Arrive, CheckFreeze, SubmitAnswer, SubmitQueue,
   NotifyOk, NotifyFail, MarkFailed, Abandon, Reply, Goto

\* HandlersCoherent is inductive: what a request read on arrival is still
\* consistent with the clock and the queue when it acts on it.
LEMMA NextHandlersCoherent ==
  ASSUME TypeOK, Coherent, [Next]_vars
  PROVE  HandlersCoherent'
<1> USE DEF HandlerCoherent
<1>0. now <= now' /\ RowsKept /\ now' \in Nat
  BY ClockAndSweeper, NextKeepsRows, NextTypeOK DEF TypeOK
<1>1. ASSUME NEW d \in Client, pc'[d] = pc[d], req'[d] = req[d]
      PROVE  HandlerCoherent(d)'
  <2>1. req[d] # None => req[d] \in Submission /\ req[d].psbt.txid \in Txid
    BY QueueAssumption DEF TypeOK, Submission, InspectionReport
  <2>2. req[d] # None => req'[d].now <= now'
    BY <1>0, <1>1, <2>1 DEF Coherent, HandlersCoherent, TypeOK, Submission
  <2>3. Unsettled(d)' => Present(req[d].psbt.txid)'
    BY <1>0, <1>1, <2>1 DEF Coherent, HandlersCoherent, Unsettled, RowsKept,
       Present
  <2> QED BY <1>1, <2>2, <2>3 DEF Coherent, HandlersCoherent
<1>2. ASSUME NEW c \in Client, Request(c)
      PROVE  HandlersCoherent'
  <2> USE DEF TypeOK
  <2>1. ASSUME pc'[c] = "idle", req'[c] = None PROVE HandlerCoherent(c)'
    BY <2>1 DEF Unsettled
  <2>2. Reply(c) => HandlerCoherent(c)'
    BY <2>1 DEF Reply
  <2>3. ASSUME NEW p \in Psbts, Arrive(c, p) PROVE HandlerCoherent(c)'
    BY <2>3, NoneAssumption DEF Arrive, Goto, Submission, Unsettled
  <2>4. ASSUME CheckFreeze(c), UNCHANGED req PROVE HandlerCoherent(c)'
    BY <1>0, <2>2, <2>4 DEF CheckFreeze, Goto, Unsettled, Coherent,
       HandlersCoherent
  <2>5. ASSUME SubmitQueue(c) PROVE HandlerCoherent(c)'
    <3>1. req[c] \in Submission /\ req'[c] = req[c] /\ req[c].psbt.txid \in Txid
      BY <2>5, QueueAssumption DEF SubmitQueue, Goto, Coherent,
         HandlersCoherent, Submission, InspectionReport
    <3>2. pending'[req[c].psbt.txid] # None
      <4>1. pending' \in [Txid -> PendingRow \cup {None}]
        BY NextTypeOK
      <4>2. pending'[req[c].psbt.txid] =
              [psbt |-> req[c].psbt, created_at |-> req[c].now,
               hold_until |-> req[c].now + HoldFor(req[c].psbt),
               status |-> "pending", last_notified_at |-> req[c].now]
        BY <2>5, <3>1 DEF SubmitQueue
      <4>3. pending'[req[c].psbt.txid] \in PendingRow
        BY <3>1, <4>2, QueueAssumption DEF PendingRow, PendingStatus,
           Submission, HoldFor
      <4> QED BY <4>3, NoneAssumption
    <3>3. pc'[c] = "notify" /\ now' = now
      BY <2>5 DEF SubmitQueue, Goto
    <3>4. req'[c] # None /\ req'[c].now <= now'
      BY <2>5, <3>1, <3>3, NoneAssumption DEF Coherent, HandlersCoherent
    <3> QED
      BY <3>1, <3>2, <3>3, <3>4 DEF Present
  <2>6. ASSUME NotifyFail(c) PROVE HandlerCoherent(c)'
    <3>1. pc'[c] = "mark_failed" /\ req'[c] = req[c] /\ now' = now
          /\ pending' = pending
      BY <2>6 DEF NotifyFail, Goto, tables
    <3> QED
      BY <2>6, <3>1 DEF NotifyFail, Goto, Unsettled, Coherent,
         HandlersCoherent, Present
  <2>7. HandlerCoherent(c)'
    BY <1>2, <2>2, <2>3, <2>4, <2>5, <2>6 DEF Request, CheckFreeze,
       SubmitAnswer, NotifyOk, MarkFailed, Abandon
  <2>8. \A d \in Client : HandlerCoherent(d)'
    BY <1>1, <1>2, <2>7, OneRequestMoves
  <2> QED BY <2>8 DEF HandlersCoherent
<1>3. CASE Restart
  BY <1>3 DEF Restart, HandlersCoherent, Unsettled
<1>4. CASE UNCHANGED clients
  BY <1>1, <1>4 DEF clients, HandlersCoherent
<1> QED
  BY <1>2, <1>3, <1>4 DEF Next, Operator, Sweep, Veto, Freeze, Unfreeze,
     PostPolicy, StartSweep, BeginRow, InspectOk, InspectInvalid, RowError,
     Skip, Sign, Refuse, SigningError, SweepMarkFailed, StartReminders,
     RemindOk, RemindFail, MarkNotified, EndSweep, Tick, vars

\* SweeperCoherent is inductive: the rows of a pass stay in the queue and stay
\* due while requests, operators and the clock go on around it.
LEMMA NextSweeperCoherent ==
  ASSUME TypeOK, Coherent, [Next]_vars
  PROVE  SweeperCoherent'
<1>0. now <= now' /\ RowsKept /\ now' \in Nat
  BY ClockAndSweeper, NextKeepsRows, NextTypeOK DEF TypeOK
<1>1. ASSUME NEW t \in Txid, Present(t) PROVE Present(t)'
  BY <1>0, <1>1 DEF RowsKept
<1>2. ASSUME NEW t \in Txid, NEW at, DueBy(t, at)
      PROVE  Present(t)' /\ pending'[t].hold_until <= at
  BY <1>0, <1>2 DEF RowsKept, DueBy
<1> USE DEF TypeOK, Coherent, SweeperCoherent, InHand
<1>3. CASE UNCHANGED sweeper
  <2>1. spc # "sleep" => snap'.now <= now'
    BY <1>0, <1>3 DEF sweeper, Snapshot
  <2>2. \A t \in due : Present(t)'
    BY <1>1
  <2> QED BY <1>1, <1>2, <1>3, <2>1, <2>2 DEF sweeper, DueBy
<1>4. CASE Restart
  BY <1>4 DEF Restart, Asleep
<1>5. CASE Sweep
  <2> snap # None => snap.now \in Nat
    BY DEF Snapshot
  <2>0. now' = now
    BY <1>5 DEF Sweep, StartSweep, BeginRow, InspectOk, InspectInvalid,
       RowError, Skip, Sign, Refuse, SigningError, SweepMarkFailed,
       StartReminders, RemindOk, RemindFail, MarkNotified, EndSweep
  <2>1. CASE StartSweep
    <3>1. /\ snap' # None /\ snap'.now = now
          /\ spc' = "sweep" /\ pending' = pending
      BY <2>1, NoneAssumption DEF StartSweep, Snapshot, tables
    <3>2. \A t \in due' : t \in Txid /\ DueBy(t, snap'.now)
      BY <2>1, <3>1 DEF StartSweep, due_pending, Has, DueBy
    <3> QED BY <2>0, <3>1, <3>2 DEF DueBy, Present
  <2>2. ASSUME NEW t \in Txid, BeginRow(t) PROVE SweeperCoherent'
    BY <2>2 DEF BeginRow, tables, Present, DueBy
  <2>3. CASE InspectOk \/ InspectInvalid \/ SigningError
    BY <2>3 DEF InspectOk, InspectInvalid, SigningError, tables, Present, DueBy
  <2>4. CASE RowError \/ Skip
    BY <2>4 DEF RowError, Skip, NextRow, tables, Present, DueBy
  <2>5. CASE Sign \/ Refuse \/ SweepMarkFailed
    <3>1. /\ spc \in {"decide", "mark_failed"} /\ spc' = "sweep"
          /\ snap' = snap /\ due' = due
      BY <2>5 DEF Sign, Refuse, SweepMarkFailed, NextRow
    <3> QED BY <1>1, <1>2, <2>0, <3>1 DEF DueBy
  <2>6. CASE StartReminders
    <3>1. /\ spc' = "remind" /\ snap' = snap /\ spc = "sweep"
          /\ pending' = pending
      BY <2>6 DEF StartReminders, tables
    <3>2. \A t \in due' : Present(t)
      BY <2>6 DEF StartReminders, pending_needing_renotify, Has
    <3> QED BY <2>0, <3>1, <3>2 DEF Present
  <2>7. ASSUME NEW t \in Txid, RemindOk(t) \/ RemindFail(t)
        PROVE  SweeperCoherent'
    BY <2>7 DEF RemindOk, RemindFail, tables, Present, DueBy
  <2>8. CASE MarkNotified
    <3>1. /\ spc' = "remind" /\ snap' = snap /\ spc = "mark_notified"
          /\ due' = due
      BY <2>8 DEF MarkNotified
    <3> QED BY <1>1, <2>0, <3>1
  <2>9. CASE EndSweep
    BY <2>9 DEF EndSweep, Asleep
  <2> QED
    BY <1>5, <2>1, <2>2, <2>3, <2>4, <2>5, <2>6, <2>7, <2>8, <2>9 DEF Sweep
<1> QED BY <1>3, <1>4, <1>5, ClockAndSweeper

\* RowsCoherent is inductive: a row is queued under its own transaction with the
\* hold of its path, and keeps both.
LEMMA NextRowsCoherent ==
  ASSUME TypeOK, Coherent, [Next]_vars
  PROVE  RowsCoherent'
<1> SUFFICES ASSUME NEW t \in Txid, Present(t)'
             PROVE  /\ pending'[t].psbt.txid = t
                    /\ pending'[t].hold_until =
                         pending'[t].created_at + HoldFor(pending'[t].psbt)
  BY DEF RowsCoherent, HoldFor
<1>1. CASE Present(t)
  BY <1>1, NextKeepsRows DEF RowsKept, Coherent, RowsCoherent
<1>2. CASE ~Present(t)
  <2>1. PICK c \in Client : SubmitQueue(c) /\ t = req[c].psbt.txid
    BY <1>2, OnlySubmitAddsRows
  <2>2. pending'[t] =
          [psbt |-> req[c].psbt, created_at |-> req[c].now,
           hold_until |-> req[c].now + HoldFor(req[c].psbt),
           status |-> "pending", last_notified_at |-> req[c].now]
    BY <2>1 DEF SubmitQueue, TypeOK
  <2> QED BY <2>1, <2>2
<1> QED BY <1>1, <1>2

\* Initially no process holds anything.
LEMMA InitCoherent == Init => Coherent
BY DEF Init, Coherent, HandlersCoherent, HandlerCoherent, Unsettled,
   SweeperCoherent, InHand, RowsCoherent, Present

\* The two together are inductive; neither is without the other.
LEMMA TypeAndCoherence == Spec => [](TypeOK /\ Coherent)
<1>1. Init => TypeOK /\ Coherent
  BY InitTypeOK, InitCoherent
<1>2. TypeOK /\ Coherent /\ [Next]_vars => (TypeOK /\ Coherent)'
  BY NextTypeOK, NextHandlersCoherent, NextSweeperCoherent, NextRowsCoherent
     DEF Coherent
<1> QED BY <1>1, <1>2, PTL DEF Spec

\* Every variable keeps its type: in particular no handler and no sweep ever
\* updates a queue row that is not there.
THEOREM TypeCorrect == Spec => []TypeOK
BY TypeAndCoherence, PTL

\* Whatever a request or a pass of the sweeper read some steps ago still fits
\* the tables when it acts on it: rows about to be failed exist, rows about to
\* be signed were due by the pass's own clock, and every row has the hold of its
\* path (sign.rs submit_for_signing, process_due_pending_row).
THEOREM ProcessesCoherent == Spec => []Coherent
BY TypeAndCoherence, PTL

\* However often a transaction is submitted, by however many racing requests,
\* its row keeps the PSBT and the hold it was queued with (sign.rs
\* submit_for_signing, insert_pending).
THEOREM QueueingIsFinal == Spec => QueuedOnce
<1>1. TypeOK /\ Coherent /\ [Next]_vars =>
        [\A t \in Txid : Present(t) =>
           /\ Present(t)'
           /\ pending'[t].psbt = pending[t].psbt
           /\ pending'[t].hold_until = pending[t].hold_until]_vars
  BY NextKeepsRows DEF RowsKept
<1> QED BY <1>1, TypeAndCoherence, PTL DEF Spec, QueuedOnce

-----------------------------------------------------------------------------
(* What a step may do to the status of a row and to the ledger.              *)

\* A status changes by a veto of a pending row, by a request that fails the row
\* it queued, or by the sweeper: to signed or denied from pending, or to failed.
StatusMoves(t) ==
  \/ pending'[t].status = pending[t].status
  \/ pending'[t].status = "failed"
  \/ Has(t, "pending") /\ pending'[t].status \in {"vetoed", "denied"}
  \/ Has(t, "pending") /\ pending'[t].status = "signed" /\ Sign /\ row = t

\* Setting the status of a row that is there sets it, of that row alone.
LEMMA SetStatusSets ==
  ASSUME TypeOK, NEW t \in Txid, Present(t), NEW s, SetStatus(t, s)
  PROVE  /\ pending'[t].status = s
         /\ \A u \in Txid : u # t => pending'[u] = pending[u]
<1>1. pending[t] \in PendingRow
  BY DEF TypeOK, Present
<1> QED BY <1>1 DEF SetStatus, TypeOK, PendingRow

\* The row that Sign and Refuse act on is pending; they and Veto are the only
\* steps to signed, denied and vetoed.
LEMMA NextMovesStatus ==
  ASSUME TypeOK, Coherent, [Next]_vars, NEW t \in Txid, Present(t)
  PROVE  StatusMoves(t)
<1> USE DEF StatusMoves
<1>1. ASSUME NEW c \in Client, SubmitQueue(c) PROVE StatusMoves(t)
  BY <1>1 DEF SubmitQueue, Queueable, TypeOK
<1>2. ASSUME NEW c \in Client, MarkFailed(c) PROVE StatusMoves(t)
  <2>1. req[c].psbt.txid \in Txid /\ Present(req[c].psbt.txid)
    BY <1>2, QueueAssumption DEF MarkFailed, TypeOK, Coherent,
       HandlersCoherent, HandlerCoherent, Unsettled, Submission,
       InspectionReport
  <2> QED BY <1>2, <2>1, SetStatusSets DEF MarkFailed
<1>3. ASSUME NEW u \in Txid, Veto(u) PROVE StatusMoves(t)
  <2>1. Present(u)
    BY <1>3 DEF Veto, Has
  <2> QED BY <1>3, <2>1, SetStatusSets DEF Veto
<1>4. CASE Sign \/ Refuse \/ SweepMarkFailed
  <2>1. row \in Txid /\ Present(row)
    BY <1>4 DEF Sign, Refuse, SweepMarkFailed, Coherent, SweeperCoherent,
       InHand
  <2> QED
    BY <1>4, <2>1, SetStatusSets DEF Sign, Refuse, SweepMarkFailed, RowStillDue
<1>5. CASE MarkNotified
  <2>1. row \in Txid /\ pending[row] \in PendingRow
    BY <1>5 DEF MarkNotified, Coherent, SweeperCoherent, InHand, TypeOK, Present
  <2> QED BY <1>5, <2>1 DEF MarkNotified, TypeOK, PendingRow
<1>6. CASE UNCHANGED pending
  BY <1>6
<1> QED
  BY <1>1, <1>2, <1>3, <1>4, <1>5, <1>6
     DEF Next, Request, Operator, Sweep, Arrive, CheckFreeze, SubmitAnswer,
     NotifyOk, NotifyFail, Abandon, Freeze, Unfreeze, PostPolicy, StartSweep,
     BeginRow, InspectOk, InspectInvalid, RowError, Skip, SigningError,
     StartReminders, RemindOk, RemindFail, EndSweep, Restart, Tick, vars,
     tables

\* The ledger grows by Sign alone, by one row of a spend not recorded before,
\* and the row of that spend is then signed.
LEMMA OnlySignRecords ==
  ASSUME TypeOK, Coherent, [Next]_vars, ledger' # ledger
  PROVE  /\ Sign
         /\ row \in Txid /\ Present(row) /\ ~Recorded(row)
         /\ pending'[row].status = "signed"
         /\ \A u \in Txid : u # row => pending'[u] = pending[u]
         /\ ledger' = ledger \cup {[txid |-> row, recorded_at |-> snap.now,
                                    spend_sat |-> pending[row].psbt.spend_sat]}
<1>1. Sign
  BY DEF Next, Request, Operator, Sweep, Arrive, CheckFreeze, SubmitAnswer,
     SubmitQueue, NotifyOk, NotifyFail, MarkFailed, Abandon, Veto, Freeze,
     Unfreeze, PostPolicy, StartSweep, BeginRow, InspectOk, InspectInvalid,
     RowError, Skip, Refuse, SigningError, SweepMarkFailed, StartReminders,
     RemindOk, RemindFail, MarkNotified, EndSweep, Restart, Tick, vars, tables
<1>2. row \in Txid /\ Present(row) /\ pending[row].psbt.txid = row
  BY <1>1 DEF Sign, Coherent, SweeperCoherent, RowsCoherent, InHand
<1>3. Verdict(pending[row].psbt) = "record"
  BY <1>1 DEF Sign
<1>4. ~Recorded(row)
  BY <1>2, <1>3 DEF Verdict
<1> QED BY <1>1, <1>2, <1>3, <1>4, SetStatusSets DEF Sign

-----------------------------------------------------------------------------
(* Safety of the ledger and the queue.                                       *)

\* A row that was not there before a step is pending after it, its spend is
\* not recorded, and the request that queued it is about to notify.
LEMMA AddedRowIsPending ==
  ASSUME TypeOK, Coherent, [Next]_vars, NEW t \in Txid, ~Present(t), Present(t)'
  PROVE  /\ pending'[t].status = "pending" /\ ~Recorded(t)
         /\ \E c \in Client : pc'[c] = "notify" /\ req'[c].psbt.txid = t
<1>1. PICK c \in Client : SubmitQueue(c) /\ t = req[c].psbt.txid
  BY OnlySubmitAddsRows
<1>2. pending'[t].status = "pending"
  BY <1>1 DEF SubmitQueue, TypeOK
<1>3. ~Recorded(t) /\ pc'[c] = "notify" /\ req'[c].psbt.txid = t
  BY <1>1 DEF SubmitQueue, Queueable, Goto, TypeOK
<1> QED BY <1>2, <1>3

\* LedgerMatchesQueue is inductive with the type invariant and Coherent.
LEMMA NextLedgerMatchesQueue ==
  ASSUME TypeOK, Coherent, LedgerMatchesQueue, [Next]_vars
  PROVE  LedgerMatchesQueue'
<1> USE DEF LedgerMatchesQueue
<1>1. ASSUME NEW t \in Txid, Recorded(t) PROVE Recorded(t)'
  BY <1>1, OnlySignRecords DEF Recorded, already_recorded
<1>2. ASSUME NEW t \in Txid, Has(t, "signed")' PROVE Recorded(t)'
  <2>1. Present(t)
    BY <1>2, AddedRowIsPending DEF Has
  <2>2. CASE Has(t, "signed")
    BY <1>1, <2>2
  <2>3. CASE Sign /\ row = t
    <3>1. pending[row].psbt.txid = row
      BY <2>1, <2>3 DEF Coherent, RowsCoherent
    <3>2. CASE Verdict(pending[row].psbt) = "record"
      <4>1. [txid |-> row, recorded_at |-> snap.now,
             spend_sat |-> pending[row].psbt.spend_sat] \in ledger'
        BY <2>3, <3>2 DEF Sign
      <4> QED BY <2>3, <4>1 DEF Recorded, already_recorded
    <3>3. CASE Verdict(pending[row].psbt) = "replay"
      BY <1>1, <2>3, <3>1, <3>3 DEF Verdict
    <3> QED BY <2>3, <3>2, <3>3 DEF Sign
  <2> QED BY <1>2, <2>1, <2>2, <2>3, NextMovesStatus DEF StatusMoves, Has
<1>3. ASSUME NEW e \in ledger'
      PROVE  Has(e.txid, "signed")' \/ Has(e.txid, "failed")'
  <2>1. CASE e \in ledger
    <3>1. e.txid \in Txid /\ Present(e.txid) /\ ~Has(e.txid, "pending")
      BY <2>1 DEF TypeOK, LedgerRow, Has
    <3> QED
      BY <2>1, <3>1, NextMovesStatus, NextKeepsRows
         DEF StatusMoves, Has, RowsKept
  <2>2. CASE e \notin ledger
    BY <2>2, OnlySignRecords, NextKeepsRows DEF Has, RowsKept
  <2> QED BY <2>1, <2>2
<1>4. ASSUME NEW e \in ledger', NEW f \in ledger', e.txid = f.txid
      PROVE  e = f
  BY <1>4, OnlySignRecords DEF Recorded, already_recorded
<1> QED BY <1>2, <1>3, <1>4

\* SignedAfterHold is inductive with the type invariant and Coherent: what the
\* sweeper records was due by the clock it records it at.
LEMMA NextSignedAfterHold ==
  ASSUME TypeOK, Coherent, SignedAfterHold, [Next]_vars
  PROVE  SignedAfterHold'
<1> SUFFICES ASSUME NEW e \in ledger'
             PROVE  /\ Present(e.txid)'
                    /\ e.recorded_at >= pending'[e.txid].created_at
                                          + HoldFor(pending'[e.txid].psbt)
                    /\ e.recorded_at <= now'
  BY DEF SignedAfterHold, HoldFor
<1>0. now <= now' /\ now' \in Nat /\ RowsKept
  BY ClockAndSweeper, NextTypeOK, NextKeepsRows DEF TypeOK
<1>1. CASE e \in ledger
  <2>1. e.txid \in Txid /\ e.recorded_at \in Nat /\ Present(e.txid)
    BY <1>1 DEF TypeOK, LedgerRow, SignedAfterHold
  <2> QED BY <1>0, <1>1, <2>1 DEF TypeOK, SignedAfterHold, RowsKept
<1>2. CASE e \notin ledger
  <2>1. Sign /\ row \in Txid /\ e.txid = row /\ e.recorded_at = snap.now
    BY <1>2, OnlySignRecords
  <2>2. /\ Present(row) /\ pending[row].hold_until <= snap.now
        /\ snap.now \in Nat /\ snap.now <= now
        /\ pending[row].hold_until =
             pending[row].created_at + HoldFor(pending[row].psbt)
    BY <2>1 DEF Sign, Coherent, SweeperCoherent, DueBy, RowsCoherent, TypeOK,
       Snapshot
  <2>3. pending[row].hold_until \in Nat
    BY <2>1, <2>2 DEF Present, TypeOK, PendingRow
  <2> QED BY <1>0, <2>1, <2>2, <2>3 DEF RowsKept, TypeOK
<1> QED BY <1>1, <1>2

\* VetoIsPermanent is inductive once vetoed spends are known to have a row: a
\* veto acts on a pending row, so the ledger has not recorded its spend, and
\* Sign acts on pending rows only.
VetoedHaveRows == \A t \in vetoed : Present(t)

\* Every step keeps both.
LEMMA NextVetoIsPermanent ==
  ASSUME TypeOK, Coherent, LedgerMatchesQueue, VetoedHaveRows,
         VetoIsPermanent, [Next]_vars
  PROVE  VetoedHaveRows' /\ VetoIsPermanent'
<1> SUFFICES ASSUME NEW t \in vetoed'
             PROVE  /\ Present(t)' /\ ~Recorded(t)'
                    /\ pending'[t].status \in {"vetoed", "failed"}
  BY DEF VetoedHaveRows, VetoIsPermanent
<1>0. t \in Txid /\ RowsKept
  BY NextTypeOK, NextKeepsRows DEF TypeOK
<1>1. CASE t \in vetoed
  <2>1. ~Recorded(t) /\ Present(t) /\ ~Has(t, "pending")
    BY <1>1 DEF VetoedHaveRows, VetoIsPermanent, Has
  <2>2. ~Recorded(t)'
    <3>1. Sign => row # t
      BY <2>1 DEF Sign, RowStillDue
    <3> QED
      BY <2>1, <3>1, OnlySignRecords DEF Recorded, already_recorded
  <2> QED
    BY <1>0, <1>1, <2>1, <2>2, NextMovesStatus
       DEF StatusMoves, VetoIsPermanent, RowsKept
<1>2. CASE t \notin vetoed
  <2>1. Veto(t)
    BY <1>2 DEF Next, Request, Operator, Sweep, Arrive, CheckFreeze,
       SubmitAnswer, SubmitQueue, NotifyOk, NotifyFail, MarkFailed, Abandon,
       Veto, Freeze, Unfreeze, PostPolicy, StartSweep, BeginRow, InspectOk,
       InspectInvalid, RowError, Skip, Sign, Refuse, SigningError,
       SweepMarkFailed, StartReminders, RemindOk, RemindFail, MarkNotified,
       EndSweep, Restart, Tick, vars, history
  <2>2. Has(t, "pending") /\ ledger' = ledger /\ SetStatus(t, "vetoed")
    BY <2>1 DEF Veto
  <2>3. ~Recorded(t)
    BY <2>2 DEF LedgerMatchesQueue, Recorded, already_recorded, Has
  <2> QED
    BY <1>0, <2>2, <2>3, SetStatusSets
       DEF Has, RowsKept, Recorded, already_recorded
<1> QED BY <1>1, <1>2

\* NoSilentHold is inductive: a request between queueing a row and settling its
\* notice vouches for the row, and gives it up only by failing it, by having
\* delivered the notice or by being cut short.
LEMMA NextNoSilentHold ==
  ASSUME TypeOK, Coherent, NoSilentHold, [Next]_vars
  PROVE  NoSilentHold'
<1> SUFFICES ASSUME NEW t \in Txid, Has(t, "pending")'
             PROVE  t \in notified' \cup UnsettledTxs' \cup interrupted'
  BY DEF NoSilentHold
<1>1. CASE ~Present(t)
  <2>1. PICK c \in Client : pc'[c] = "notify" /\ req'[c].psbt.txid = t
    BY <1>1, AddedRowIsPending DEF Has
  <2> QED BY <2>1 DEF UnsettledTxs, Unsettled
<1>2. CASE Present(t)
  <2>1. Has(t, "pending")
    BY <1>2, NextMovesStatus DEF StatusMoves, Has
  <2>2. t \in notified \cup UnsettledTxs \cup interrupted
    BY <2>1 DEF NoSilentHold
  <2>3. notified \subseteq notified' /\ interrupted \subseteq interrupted'
    BY DEF Next, Request, Operator, Sweep, Arrive, CheckFreeze,
       SubmitAnswer, SubmitQueue, NotifyOk, NotifyFail, MarkFailed, Abandon,
       Veto, Freeze, Unfreeze, PostPolicy, StartSweep, BeginRow, InspectOk,
       InspectInvalid, RowError, Skip, Sign, Refuse, SigningError,
       SweepMarkFailed, StartReminders, RemindOk, RemindFail, MarkNotified,
       EndSweep, Restart, Tick, vars, history
  <2>4. ASSUME NEW d \in Client, Unsettled(d), req[d].psbt.txid = t
        PROVE  t \in notified' \cup UnsettledTxs' \cup interrupted'
    <3>1. ASSUME pc'[d] = pc[d], req'[d] = req[d] PROVE t \in UnsettledTxs'
      BY <2>4, <3>1 DEF UnsettledTxs, Unsettled
    <3>2. CASE Request(d)
      <4>1. CASE NotifyOk(d)
        BY <2>4, <4>1 DEF NotifyOk
      <4>2. CASE NotifyFail(d)
        <5>1. pc'[d] = "mark_failed" /\ req'[d] = req[d]
          BY <4>2 DEF NotifyFail, Goto, TypeOK
        <5> QED BY <2>4, <5>1 DEF UnsettledTxs, Unsettled
      <4>3. CASE MarkFailed(d)
        BY <1>2, <2>4, <4>3, SetStatusSets DEF MarkFailed, Has
      <4>4. CASE Abandon(d)
        BY <2>4, <4>4 DEF Abandon
      <4> QED
        BY <2>4, <3>2, <4>1, <4>2, <4>3, <4>4 DEF Request, Arrive, CheckFreeze,
           SubmitAnswer, SubmitQueue, Goto, Unsettled
    <3>3. ASSUME NEW c \in Client, c # d, Request(c) PROVE t \in UnsettledTxs'
      BY <3>1, <3>3, OneRequestMoves
    <3>4. CASE Restart
      BY <2>4, <3>4 DEF Restart, UnsettledTxs
    <3>5. CASE UNCHANGED clients
      BY <3>1, <3>5 DEF clients
    <3> QED
      BY <3>2, <3>3, <3>4, <3>5 DEF Next, Operator, Sweep, Veto, Freeze,
         Unfreeze, PostPolicy, StartSweep, BeginRow, InspectOk, InspectInvalid,
         RowError, Skip, Sign, Refuse, SigningError, SweepMarkFailed,
         StartReminders, RemindOk, RemindFail, MarkNotified, EndSweep, Tick,
         vars
  <2> QED BY <2>2, <2>3, <2>4 DEF UnsettledTxs
<1> QED BY <1>1, <1>2

\* The inductive invariant of the queue.
Safe ==
  /\ TypeOK /\ Coherent
  /\ LedgerMatchesQueue /\ SignedAfterHold
  /\ VetoedHaveRows /\ VetoIsPermanent
  /\ NoSilentHold

\* The inductive invariant holds throughout.
LEMMA SafeInvariant == Spec => []Safe
<1>1. Init => Safe
  <2> SUFFICES ASSUME Init PROVE Safe
    OBVIOUS
  <2>1. LedgerMatchesQueue /\ NoSilentHold
    BY DEF Init, LedgerMatchesQueue, NoSilentHold, Has, Present
  <2>2. SignedAfterHold /\ VetoedHaveRows /\ VetoIsPermanent
    BY DEF Init, SignedAfterHold, VetoedHaveRows, VetoIsPermanent
  <2> QED BY <2>1, <2>2, InitTypeOK, InitCoherent DEF Safe
<1>2. Safe /\ [Next]_vars => Safe'
  <2> SUFFICES ASSUME Safe, [Next]_vars PROVE Safe'
    OBVIOUS
  <2>1. TypeOK' /\ Coherent'
    BY NextTypeOK, NextHandlersCoherent, NextSweeperCoherent, NextRowsCoherent
       DEF Safe, Coherent
  <2>2. LedgerMatchesQueue' /\ SignedAfterHold'
    BY NextLedgerMatchesQueue, NextSignedAfterHold DEF Safe
  <2>3. VetoedHaveRows' /\ VetoIsPermanent'
    BY NextVetoIsPermanent DEF Safe
  <2>4. NoSilentHold'
    BY NextNoSilentHold DEF Safe
  <2> QED BY <2>1, <2>2, <2>3, <2>4 DEF Safe
<1> QED BY <1>1, <1>2, PTL DEF Spec

\* A spend reported as vetoed is never signed, whatever the sweeper had already
\* read of it and whoever resubmits it (http.rs veto_handler, sign.rs
\* process_due_pending_row).
THEOREM VetoHolds == Spec => []VetoIsPermanent
<1>1. Safe => VetoIsPermanent
  BY DEF Safe
<1> QED BY <1>1, SafeInvariant, PTL

\* Every signature follows the full hold of the path its PSBT takes, for any
\* pair of holds and any resubmissions (sign.rs submit_for_signing, sweep_due).
THEOREM HoldsAreServed == Spec => []SignedAfterHold
<1>1. Safe => SignedAfterHold
  BY DEF Safe
<1> QED BY <1>1, SafeInvariant, PTL

\* The ledger and the queue agree after every step, crash or race: a row says
\* signed only of a recorded spend, and nothing is recorded twice (ledger.rs
\* LedgerTx, sign.rs decide_and_sign).
THEOREM LedgerAndQueueAgree == Spec => []LedgerMatchesQueue
<1>1. Safe => LedgerMatchesQueue
  BY DEF Safe
<1> QED BY <1>1, SafeInvariant, PTL

\* The queue itself lets no hold tick down in silence: only a request cut short
\* from outside leaves a pending row nobody was told of (sign.rs
\* submit_for_signing).
THEOREM HoldsAreNotSilent == Spec => []NoSilentHold
<1>1. Safe => NoSilentHold
  BY DEF Safe
<1> QED BY <1>1, SafeInvariant, PTL

\* No step taken while a freeze is in force signs or records anything (sign.rs
\* process_due_pending_row, ledger.rs is_frozen).
THEOREM FreezeStops == Spec => FreezeStopsSigning
<1>1. TypeOK /\ Coherent /\ [Next]_vars =>
        [frozen =>
           /\ ledger' = ledger
           /\ \A t \in Txid : Has(t, "signed")' => Has(t, "signed")]_vars
  <2> SUFFICES ASSUME TypeOK, Coherent, [Next]_vars, frozen
               PROVE  /\ ledger' = ledger
                      /\ \A t \in Txid : Has(t, "signed")' => Has(t, "signed")
    OBVIOUS
  <2>1. ~Sign
    BY DEF Sign, RowStillDue
  <2>2. ledger' = ledger
    BY <2>1, OnlySignRecords
  <2>3. ASSUME NEW t \in Txid, Has(t, "signed")' PROVE Has(t, "signed")
    <3>1. Present(t)
      BY <2>3, AddedRowIsPending DEF Has
    <3> QED BY <2>1, <2>3, <3>1, NextMovesStatus DEF StatusMoves, Has
  <2> QED BY <2>2, <2>3
<1> QED BY <1>1, TypeAndCoherence, PTL DEF Spec, FreezeStopsSigning

-----------------------------------------------------------------------------
(* The caps.                                                                 *)

\* What some rows add up to over a window is at most what other rows add up to
\* over another, if every row the one window counts is counted by the other.
LEMMA SpentWithin ==
  ASSUME NEW some \in SUBSET LedgerRow, NEW rows \in SUBSET LedgerRow,
         IsFiniteSet(rows), NEW at, NEW from, NEW window,
         \A e \in some : at - e.recorded_at \in 0..window - 1 =>
           e \in rows /\ from - e.recorded_at \in 0..window - 1
  PROVE  /\ SpentSince(some, at, window) \in Nat
         /\ SpentSince(rows, from, window) \in Nat
         /\ SpentSince(some, at, window) <= SpentSince(rows, from, window)
<1> DEFINE V == {e \in some : at - e.recorded_at \in 0..window - 1}
           W == {e \in rows : from - e.recorded_at \in 0..window - 1}
           f == [e \in some |-> e.spend_sat]
           g == [e \in rows |-> e.spend_sat]
<1>1. IsFiniteSet(V) /\ IsFiniteSet(W) /\ V \in SUBSET W
  BY FS_Subset
<1>2. /\ \A e \in V : f[e] \in Int /\ g[e] = f[e]
      /\ \A e \in W : g[e] \in Nat
  BY <1>1 DEF LedgerRow
<1>3. /\ SpentSince(some, at, window) = SumFunctionOnSet(f, V)
      /\ SpentSince(rows, from, window) = SumFunctionOnSet(g, W)
  BY DEF SpentSince
<1> HIDE DEF f, g, V, W
<1>4. SumFunctionOnSet(f, V) = SumFunctionOnSet(g, V)
  BY <1>1, <1>2, SumsOfEqualsAreEqual
<1>5. /\ SumFunctionOnSet(g, W) \in Nat /\ SumFunctionOnSet(g, V) \in Nat
      /\ SumFunctionOnSet(g, V) <= SumFunctionOnSet(g, W)
  BY <1>1, <1>2, SumGrows
<1> QED
  BY <1>3, <1>4, <1>5

\* A row recorded now adds its spend to every window that ends now.
LEMMA SpentAdds ==
  ASSUME NEW rows \in SUBSET LedgerRow, IsFiniteSet(rows),
         NEW e \in LedgerRow, e \notin rows,
         NEW window \in Nat \ {0}
  PROVE  SpentSince(rows \cup {e}, e.recorded_at, window)
           = e.spend_sat + SpentSince(rows, e.recorded_at, window)
<1> DEFINE at == e.recorded_at
           W == {x \in rows : at - x.recorded_at \in 0..window - 1}
           f == [x \in rows |-> x.spend_sat]
           g == [x \in rows \cup {e} |-> x.spend_sat]
<1>1. IsFiniteSet(W) /\ e \notin W
  BY FS_Subset
<1>2. /\ \A x \in W : g[x] \in Int /\ f[x] = g[x]
      /\ g[e] \in Int /\ g[e] = e.spend_sat
  BY DEF LedgerRow
<1>3. at - at = 0 /\ 0 \in 0..window - 1
  BY DEF LedgerRow
<1>4. {x \in rows \cup {e} : at - x.recorded_at \in 0..window - 1} = W \cup {e}
  BY <1>3
<1>5. /\ SpentSince(rows, at, window) = SumFunctionOnSet(f, W)
      /\ SpentSince(rows \cup {e}, at, window) = SumFunctionOnSet(g, W \cup {e})
  BY <1>4 DEF SpentSince
<1> HIDE DEF f, g, W, at
<1>6. SumFunctionOnSet(g, W) = SumFunctionOnSet(f, W)
  BY <1>1, <1>2, SumsOfEqualsAreEqual
<1>7. SumFunctionOnSet(g, W \cup {e}) = g[e] + SumFunctionOnSet(g, W)
  BY <1>1, <1>2, SumAdds
<1> QED
  BY <1>2, <1>5, <1>6, <1>7 DEF at

\* What some rows add up to over the three windows that end at one time is
\* within the caps of a policy.
WithinCaps(rows, at, p) ==
  /\ SpentSince(rows, at, DaySeconds) <= p.max_daily_sat
  /\ SpentSince(rows, at, WeekSeconds) <= p.max_weekly_sat
  /\ SpentSince(rows, at, MonthSeconds) <= p.max_monthly_sat

LEMMA CapsOfWindows ==
  HotSpendWithinCaps <=>
    \A at \in 0..now : \E p \in Policies : WithinCaps(HotRows, at, p)
BY DEF HotSpendWithinCaps, WithinCaps, rolling_totals

\* Fewer rows, or the same rows looked at later, are within the caps too.
LEMMA CapsKept ==
  ASSUME NEW some \in SUBSET LedgerRow, NEW rows \in SUBSET LedgerRow,
         IsFiniteSet(rows), NEW at \in Nat, NEW from \in Nat,
         NEW p \in Policies, WithinCaps(rows, from, p),
         \A e \in some : e.recorded_at <= at =>
           /\ e \in rows
           /\ e.recorded_at <= from /\ from <= at
  PROVE  WithinCaps(some, at, p)
<1>1. ASSUME NEW window \in {DaySeconds, WeekSeconds, MonthSeconds}
      PROVE  /\ SpentSince(some, at, window) \in Nat
             /\ SpentSince(rows, from, window) \in Nat
             /\ SpentSince(some, at, window) <= SpentSince(rows, from, window)
  <2>1. window \in Nat
    BY WindowAssumption
  <2>2. ASSUME NEW e \in some, at - e.recorded_at \in 0..window - 1
        PROVE  e \in rows /\ from - e.recorded_at \in 0..window - 1
    <3>1. e.recorded_at \in Nat
      BY DEF LedgerRow
    <3>2. at - e.recorded_at >= 0 /\ at - e.recorded_at <= window - 1
      BY <2>1, <2>2, <3>1
    <3>3. e \in rows /\ e.recorded_at <= from /\ from <= at
      BY <3>1, <3>2
    <3> QED
      BY <2>1, <3>1, <3>2, <3>3
  <2> QED
    BY <2>2, SpentWithin
<1>2. /\ p.max_daily_sat \in Nat /\ p.max_weekly_sat \in Nat
      /\ p.max_monthly_sat \in Nat
  BY QueueAssumption DEF CompiledPolicy
<1> QED
  BY <1>1, <1>2 DEF WithinCaps

\* A hot spend that the sweeper records now passed evaluate_policy against a
\* ledger that has every hot row and more, by the policy of its pass.
LEMMA SignedWithinCaps ==
  ASSUME TypeOK, IsFiniteSet(ledger), Coherent, Sign,
         NEW p \in Psbts, p = pending[row].psbt, p.path = "hot",
         Verdict(p) = "record",
         NEW e \in LedgerRow, e \notin ledger,
         e.recorded_at = snap.now, e.spend_sat = p.spend_sat
  PROVE  /\ snap.policy \in Policies
         /\ WithinCaps(HotRows \cup {e}, snap.now, snap.policy)
<1>1. snap \in Snapshot
  BY DEF Sign, Coherent, SweeperCoherent, TypeOK
<1>2. /\ snap.policy \in Policies /\ snap.policy \in CompiledPolicy
      /\ snap.now \in Nat
  BY <1>1, QueueAssumption DEF Snapshot
<1>3. Allowed(p, snap.now, snap.policy)
  BY DEF Verdict
<1>4. evaluate_policy(p, rolling_totals(ledger, snap.now), snap.policy)
  BY <1>3 DEF Allowed
<1>6. ASSUME NEW window \in {DaySeconds, WeekSeconds, MonthSeconds}
      PROVE  /\ SpentSince(HotRows, snap.now, window) \in Nat
             /\ SpentSince(ledger, snap.now, window) \in Nat
             /\ SpentSince(HotRows, snap.now, window)
                  <= SpentSince(ledger, snap.now, window)
             /\ SpentSince(HotRows \cup {e}, snap.now, window)
                  = p.spend_sat + SpentSince(HotRows, snap.now, window)
  <2>1. HotRows \in SUBSET LedgerRow /\ HotRows \subseteq ledger
    BY DEF HotRows, TypeOK
  <2>2. window \in Nat \ {0}
    BY WindowAssumption
  <2>3. IsFiniteSet(HotRows) /\ e \notin HotRows
    BY <2>1, FS_Subset
  <2>4. /\ SpentSince(HotRows, snap.now, window) \in Nat
        /\ SpentSince(ledger, snap.now, window) \in Nat
        /\ SpentSince(HotRows, snap.now, window)
             <= SpentSince(ledger, snap.now, window)
    BY <2>1, SpentWithin DEF TypeOK
  <2>5. SpentSince(HotRows \cup {e}, snap.now, window)
          = p.spend_sat + SpentSince(HotRows, snap.now, window)
    BY <2>1, <2>2, <2>3, SpentAdds
  <2> QED
    BY <2>4, <2>5
<1>7. /\ SpentSince(ledger, snap.now, DaySeconds) + p.spend_sat
           <= snap.policy.max_daily_sat
      /\ SpentSince(ledger, snap.now, WeekSeconds) + p.spend_sat
           <= snap.policy.max_weekly_sat
      /\ SpentSince(ledger, snap.now, MonthSeconds) + p.spend_sat
           <= snap.policy.max_monthly_sat
  BY <1>4 DEF evaluate_policy, rolling_totals
<1>8. /\ p.spend_sat \in Nat /\ snap.policy.max_daily_sat \in Nat
      /\ snap.policy.max_weekly_sat \in Nat
      /\ snap.policy.max_monthly_sat \in Nat
  BY <1>2, QueueAssumption DEF InspectionReport, CompiledPolicy
<1>9. WithinCaps(HotRows \cup {e}, snap.now, snap.policy)
  BY <1>6, <1>7, <1>8 DEF WithinCaps
<1> QED
  BY <1>2, <1>9

\* HotSpendWithinCaps is inductive once no row of the ledger is younger than
\* the clock of the pass: then a window that ends later counts no row that the
\* one at the last signature did not.
NoneYounger ==
  /\ IsFiniteSet(ledger)
  /\ spc # "sleep" => \A e \in ledger : e.recorded_at <= snap.now

LEMMA NextNoneYounger ==
  ASSUME Safe, NoneYounger, [Next]_vars
  PROVE  NoneYounger'
<1> USE DEF Safe
<1>1. CASE ledger' # ledger
  <2>1. /\ Sign
        /\ ledger' = ledger \cup {[txid |-> row, recorded_at |-> snap.now,
                                   spend_sat |-> pending[row].psbt.spend_sat]}
    BY <1>1, OnlySignRecords
  <2>2. spc # "sleep" /\ snap' = snap
    BY <2>1 DEF Sign
  <2>3. IsFiniteSet(ledger')
    BY <2>1, FS_AddElement DEF NoneYounger
  <2>4. snap.now \in Nat
    BY <2>2 DEF Coherent, SweeperCoherent, TypeOK, Snapshot
  <2> QED
    BY <2>1, <2>2, <2>3, <2>4 DEF NoneYounger
<1>2. CASE ledger' = ledger
  <2>1. CASE UNCHANGED sweeper
    BY <1>2, <2>1 DEF sweeper, NoneYounger
  <2>2. CASE Restart
    BY <1>2, <2>2 DEF Restart, Asleep, NoneYounger
  <2>3. CASE StartSweep
    <3>1. snap'.now = now
      BY <2>3 DEF StartSweep
    <3>2. \A e \in ledger : e.recorded_at <= now
      BY DEF SignedAfterHold
    <3> QED
      BY <1>2, <3>1, <3>2 DEF NoneYounger
  <2>4. CASE Sweep /\ ~StartSweep
    <3>1. spc' # "sleep" => snap' = snap /\ spc # "sleep"
      BY <2>4 DEF Sweep, BeginRow, InspectOk, InspectInvalid, RowError, Skip,
         Sign, Refuse, SigningError, SweepMarkFailed, StartReminders, RemindOk,
         RemindFail, MarkNotified, EndSweep, NextRow, Asleep
    <3> QED
      BY <1>2, <3>1 DEF NoneYounger
  <2> QED
    BY <2>1, <2>2, <2>3, <2>4, ClockAndSweeper
<1> QED
  BY <1>1, <1>2

\* A step that records nothing, the clock's included.
LEMMA CapsWithoutSigning ==
  ASSUME Safe, NoneYounger, HotSpendWithinCaps, [Next]_vars, ledger' = ledger
  PROVE  HotSpendWithinCaps'
<1> USE DEF Safe
<1>1. now \in Nat /\ now' \in Nat /\ now <= now'
  BY NextTypeOK, ClockAndSweeper DEF TypeOK
<1>2. HotRows' = HotRows
  <2>1. \A e \in ledger : e.txid \in Txid /\ Present(e.txid)
    BY DEF SignedAfterHold, TypeOK, LedgerRow
  <2>2. \A e \in ledger : pending'[e.txid].psbt = pending[e.txid].psbt
    BY <2>1, NextKeepsRows DEF RowsKept
  <2> QED
    BY <2>2 DEF HotRows
<1>3. HotRows \in SUBSET LedgerRow /\ IsFiniteSet(HotRows)
  BY FS_Subset DEF HotRows, TypeOK, NoneYounger
<1>4. \A e \in HotRows : e.recorded_at <= now /\ e.recorded_at \in Nat
  BY DEF HotRows, SignedAfterHold, TypeOK, LedgerRow
<1>5. ASSUME NEW at \in 0..now'
      PROVE  \E p \in Policies : WithinCaps(HotRows, at, p)
  <2>1. CASE at \in 0..now
    BY <2>1, CapsOfWindows
  <2>2. CASE at \notin 0..now
    <3>1. now <= at /\ at \in Nat
      BY <1>1, <2>2
    <3>2. now \in 0..now
      BY <1>1
    <3>3. PICK p \in Policies : WithinCaps(HotRows, now, p)
      BY <3>2, CapsOfWindows
    <3>4. WithinCaps(HotRows, at, p)
      BY <1>1, <1>3, <1>4, <3>1, <3>3, CapsKept
    <3> QED
      BY <3>4
  <2> QED
    BY <2>1, <2>2
<1>6. HotSpendWithinCaps' <=>
        \A at \in 0..now' : \E p \in Policies : WithinCaps(HotRows', at, p)
  BY DEF HotSpendWithinCaps, WithinCaps, rolling_totals
<1> QED
  BY <1>2, <1>5, <1>6

\* The step that records a spend: windows that ended before are as they were,
\* and those that end at its clock or later hold what its own check counted.
LEMMA CapsAfterSigning ==
  ASSUME Safe, NoneYounger, HotSpendWithinCaps, [Next]_vars, ledger' # ledger
  PROVE  HotSpendWithinCaps'
<1> USE DEF Safe
<1> DEFINE p == pending[row].psbt
           e == [txid |-> row, recorded_at |-> snap.now,
                 spend_sat |-> p.spend_sat]
<1>1. /\ Sign /\ row \in Txid /\ Present(row) /\ ~Recorded(row)
      /\ ledger' = ledger \cup {e}
  BY OnlySignRecords
<1>2. now' = now /\ now \in Nat /\ snap.now \in Nat /\ snap.now <= now
  BY <1>1 DEF Sign, Coherent, SweeperCoherent, TypeOK, Snapshot
<1>3. p \in Psbts /\ p.spend_sat \in Nat
  BY <1>1, QueueAssumption DEF Present, TypeOK, PendingRow, InspectionReport
<1>4. /\ e.recorded_at = snap.now /\ e.spend_sat = p.spend_sat
      /\ e.txid = row /\ e \in LedgerRow
  BY <1>1, <1>2, <1>3 DEF LedgerRow
<1>5. Verdict(p) = "record"
  <2>1. ledger' = IF Verdict(p) = "replay" THEN ledger ELSE ledger \cup {e}
    BY <1>1 DEF Sign
  <2> QED
    BY <1>1, <2>1 DEF Sign
<1>6. \A x \in ledger \cup {e} : pending'[x.txid].psbt = pending[x.txid].psbt
  <2>1. \A x \in ledger : x.txid \in Txid /\ Present(x.txid)
    BY DEF SignedAfterHold, TypeOK, LedgerRow
  <2> QED
    BY <1>1, <1>4, <2>1, NextKeepsRows DEF RowsKept
<1> HIDE DEF e
<1>7. e \notin ledger
  BY <1>1, <1>4 DEF Recorded, already_recorded
<1>8. HotRows' = HotRows \cup {x \in {e} : p.path = "hot"}
  BY <1>1, <1>4, <1>6 DEF HotRows
<1> HIDE DEF p
<1>9. /\ HotRows \in SUBSET LedgerRow /\ IsFiniteSet(HotRows)
      /\ HotRows' \in SUBSET LedgerRow /\ IsFiniteSet(HotRows')
  <2>1. HotRows \in SUBSET LedgerRow /\ IsFiniteSet(HotRows)
    BY FS_Subset DEF HotRows, TypeOK, NoneYounger
  <2>2. HotRows' = HotRows \/ HotRows' = HotRows \cup {e}
    BY <1>8
  <2> QED
    BY <1>4, <2>1, <2>2, FS_AddElement
<1>10. \A x \in HotRows' :
         x.recorded_at \in Nat /\ x.recorded_at <= snap.now
  <2>1. \A x \in ledger : x.recorded_at \in Nat /\ x.recorded_at <= snap.now
    BY <1>1 DEF Sign, NoneYounger, TypeOK, LedgerRow
  <2> QED
    BY <1>2, <1>4, <1>8, <2>1 DEF HotRows
<1>11. \E q \in Policies : WithinCaps(HotRows', snap.now, q)
  <2>1. CASE p.path = "hot"
    <3>1. /\ snap.policy \in Policies
          /\ WithinCaps(HotRows \cup {e}, snap.now, snap.policy)
      BY <1>1, <1>3, <1>4, <1>5, <1>7, <2>1, SignedWithinCaps
         DEF NoneYounger, p
    <3> QED
      BY <1>8, <2>1, <3>1
  <2>2. CASE p.path # "hot"
    <3>1. HotRows' = HotRows /\ snap.now \in 0..now
      BY <1>2, <1>8, <2>2
    <3> QED
      BY <3>1, CapsOfWindows
  <2> QED
    BY <2>1, <2>2
<1>12. ASSUME NEW at \in 0..now
       PROVE  \E q \in Policies : WithinCaps(HotRows', at, q)
  <2>1. at \in Nat
    BY <1>2
  <2>2. CASE at < snap.now
    <3>1. PICK q \in Policies : WithinCaps(HotRows, at, q)
      BY CapsOfWindows
    <3>2. \A x \in HotRows' : x.recorded_at <= at =>
            x \in HotRows /\ x.recorded_at <= at /\ at <= at
      BY <1>2, <1>4, <1>8, <2>1, <2>2
    <3>3. WithinCaps(HotRows', at, q)
      BY <1>9, <2>1, <3>1, <3>2, CapsKept
    <3> QED
      BY <3>3
  <2>3. CASE snap.now <= at
    <3>1. PICK q \in Policies : WithinCaps(HotRows', snap.now, q)
      BY <1>11
    <3>2. \A x \in HotRows' : x.recorded_at <= at =>
            x \in HotRows' /\ x.recorded_at <= snap.now /\ snap.now <= at
      BY <1>10, <2>3
    <3>3. WithinCaps(HotRows', at, q)
      BY <1>2, <1>9, <2>1, <3>1, <3>2, CapsKept
    <3> QED
      BY <3>3
  <2> QED
    BY <1>2, <2>1, <2>2, <2>3
<1>13. HotSpendWithinCaps' <=>
         \A at \in 0..now' : \E q \in Policies : WithinCaps(HotRows', at, q)
  BY DEF HotSpendWithinCaps, WithinCaps, rolling_totals
<1> QED
  BY <1>2, <1>12, <1>13

\* At first nothing is spent.
LEMMA InitCaps == Init => NoneYounger /\ HotSpendWithinCaps
<1> SUFFICES ASSUME Init PROVE NoneYounger /\ HotSpendWithinCaps
  OBVIOUS
<1>1. ledger = {} /\ HotRows = {} /\ now = 0 /\ policy \in Policies
  BY DEF Init, HotRows
<1>2. \A window : SpentSince({}, 0, window) = 0
  <2> TAKE window
  <2> DEFINE f == [e \in {} |-> e.spend_sat]
  <2>1. SpentSince({}, 0, window) = SumFunctionOnSet(f, {})
    BY DEF SpentSince
  <2>2. IsFiniteSet({}) /\ \A e \in {} : f[e] \in Int
    BY FS_EmptySet
  <2> HIDE DEF f
  <2> QED
    BY <2>1, <2>2, SumTypes
<1>3. \A p \in Policies : WithinCaps(HotRows, 0, p)
  BY <1>1, <1>2, QueueAssumption DEF WithinCaps, CompiledPolicy
<1>4. HotSpendWithinCaps
  BY <1>1, <1>3, CapsOfWindows
<1> QED
  BY <1>1, <1>4, FS_EmptySet DEF Init, NoneYounger

\* Over every trailing window, whenever it ends, the hot spends signed so far
\* are within the caps of one authorized policy: however many were approved
\* when none of the others was recorded, the check under which each is recorded
\* is made against all that are (sign.rs decide_and_sign, policy.rs
\* evaluate_policy, ledger.rs rolling_totals_via).
THEOREM HotSpendStaysWithinCaps == Spec => []HotSpendWithinCaps
<1>1. Init => NoneYounger /\ HotSpendWithinCaps
  BY InitCaps
<1>2. Safe /\ NoneYounger /\ HotSpendWithinCaps /\ [Next]_vars =>
        (NoneYounger /\ HotSpendWithinCaps)'
  BY NextNoneYounger, CapsWithoutSigning, CapsAfterSigning
<1> QED
  BY <1>1, <1>2, SafeInvariant, PTL DEF Spec

=============================================================================
