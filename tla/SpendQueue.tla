----------------------------- MODULE SpendQueue -----------------------------
(***************************************************************************)
(* The notify-then-hold-then-sign queue, the core of the co-signer: request *)
(* handlers submitting PSBTs (sign.rs submit_for_signing), the veto and     *)
(* freeze endpoints (http.rs), and the background sweeper (main.rs          *)
(* spawn_sweeper, sign.rs sweep_due and renotify_pending) over the tables    *)
(* of one SQLite ledger (ledger.rs).                                        *)
(*                                                                          *)
(* Grain of atomicity.  The ledger's pool has a single connection, so one   *)
(* LedgerTx, or one query outside of any, is one step here.  Inspection,    *)
(* notification and the gaps between two transactions are where the         *)
(* handlers, the sweeper, vetoes, freezes and crashes interleave.           *)
(***************************************************************************)
EXTENDS PolicyEngine

CONSTANTS
  Client,               \* concurrent POST /sign_psbt requests
  Psbts,                \* the PSBTs that may be submitted, as their reports
  Policies,             \* the policies SATOCHIP may authorize
  HoldSeconds,          \* [notify] hold_seconds
  RecoveryHoldSeconds,  \* [recovery] hold_seconds
  RecoveryWhitelist,    \* [recovery] whitelist, compiled
  RenotifyInterval,     \* [notify] renotify_interval_seconds
  MaxTime,              \* bound on the clock
  None                  \* the absent row, request, transaction, snapshot

\* The outputs, hence the destinations and the amount, are part of the
\* unsigned transaction that a txid names; the fee is fixed by the outputs
\* it spends.  The path and signability depend on the rest of the PSBT.
ASSUME QueueAssumption ==
  /\ Psbts \subseteq InspectionReport
  /\ \A p, q \in Psbts : p.txid = q.txid =>
       p.spend_sat = q.spend_sat /\ p.fee_sat = q.fee_sat /\ p.dests = q.dests
  /\ Policies \subseteq CompiledPolicy
  /\ RecoveryWhitelist \subseteq Address
  /\ HoldSeconds \in Nat /\ RecoveryHoldSeconds \in Nat
  /\ RenotifyInterval \in Nat /\ MaxTime \in Nat

PendingStatus == {"pending", "vetoed", "signed", "denied", "failed"}

\* A row of pending_signatures.  The signed PSBT it carries is present exactly
\* while its status is "signed", so it is not kept apart.
PendingRow == [psbt : Psbts, created_at : Nat, hold_until : Nat,
               status : PendingStatus, last_notified_at : Nat]

\* What a request and what a pass of the sweeper have read and not read again.
Submission == [psbt : Psbts, policy : Policies, now : Nat]
Snapshot   == [now : Nat, policy : Policies]

ASSUME NoneAssumption ==
  None \notin Txid \cup PendingRow \cup Submission \cup Snapshot

VARIABLES
  now,              \* the wall clock, now_unix()
  ledger,           \* table ledger
  pending,          \* table pending_signatures, by primary key
  frozen,           \* table freeze_state
  policy,           \* AppState.policy, the in-memory handle
  recovery_enabled, \* [recovery] enabled, as read when the process started
  pc, req,          \* each request: where it is and what it has read
  spc, due, row, snap,  \* the sweeper: where it is, the rows left in this
                    \* pass, the row in hand, the pass's clock and policy
  notified,         \* history: spends a notice was delivered for
  vetoed,           \* history: spends POST /veto/{id} answered "vetoed" for
  interrupted       \* history: spends whose request was dropped, crashed or
                    \* hit a database error after queueing and before the
                    \* outcome of its notice was settled

clients == <<pc, req>>
sweeper == <<spc, due, row, snap>>
tables  == <<ledger, pending, frozen>>
config  == <<policy, recovery_enabled>>
history == <<notified, vetoed, interrupted>>
vars    == <<now, tables, config, clients, sweeper, history>>

-----------------------------------------------------------------------------
(* Reading and writing the tables.                                           *)

Present(t) == pending[t] # None
Has(t, status) == Present(t) /\ pending[t].status = status

SetStatus(t, status) ==
  pending' = [pending EXCEPT ![t] = [@ EXCEPT !.status = status]]

\* Mutant: the query forgets to ask whether the hold has elapsed.
due_pendingAny(at) ==
  {t \in Txid : Has(t, "pending") /\ pending[t].created_at <= at}

due_pending(at) ==
  {t \in Txid : Has(t, "pending") /\ pending[t].hold_until <= at}

pending_needing_renotify(at) ==
  {t \in Txid : /\ Has(t, "pending")
                /\ pending[t].hold_until > at
                /\ pending[t].last_notified_at <= at - RenotifyInterval}

Recorded(t) == already_recorded(ledger, t)

(* Which spends are co-signed at all, for how long each is held, and which   *)
(* rules it is judged by.                                                    *)
PathOk(p) == p.path = "hot" \/ (p.path = "recovery" /\ recovery_enabled)

\* Mutant: the recovery hold is counted backwards.
HoldForReversed(p) == IF p.path = "recovery" THEN -RecoveryHoldSeconds
                      ELSE HoldSeconds

HoldFor(p) == IF p.path = "recovery" THEN RecoveryHoldSeconds ELSE HoldSeconds

Allowed(p, at, under) ==
  IF p.path = "recovery"
  THEN evaluate_recovery_policy(p, RecoveryWhitelist, under)
  ELSE evaluate_policy(p, rolling_totals(ledger, at), under)

-----------------------------------------------------------------------------
Init ==
  /\ now = 0
  /\ ledger = {} /\ pending = [t \in Txid |-> None] /\ frozen = FALSE
  /\ policy \in Policies /\ recovery_enabled \in BOOLEAN
  /\ pc = [c \in Client |-> "idle"] /\ req = [c \in Client |-> None]
  /\ spc = "sleep" /\ due = {} /\ row = None
  /\ snap = None
  /\ notified = {} /\ vetoed = {} /\ interrupted = {}

-----------------------------------------------------------------------------
(* A request: POST /sign_psbt.                                               *)

Goto(c, from, to) == pc[c] = from /\ pc' = [pc EXCEPT ![c] = to]

Reply(c) ==
  /\ pc' = [pc EXCEPT ![c] = "idle"]
  /\ req' = [req EXCEPT ![c] = None]

\* The handler has inspected the PSBT; it snapshots the policy and the clock.
Arrive(c, p) ==
  /\ Goto(c, "idle", "freeze_check")
  /\ req' = [req EXCEPT ![c] = [psbt |-> p, policy |-> policy, now |-> now]]
  /\ UNCHANGED <<now, tables, config, sweeper, history>>

\* submit_for_signing reads the freeze and the path before it opens its
\* transaction: a frozen ledger or a path it does not sign ends the request.
CheckFreeze(c) ==
  /\ pc[c] = "freeze_check"
  /\ IF frozen \/ ~PathOk(req[c].psbt)
     THEN Reply(c)
     ELSE Goto(c, "freeze_check", "ledger_tx") /\ UNCHANGED req
  /\ UNCHANGED <<now, tables, config, sweeper, history>>

\* Mutants: an existing row, or one that failed, is queued over.
QueueableTwice(c) ==
  /\ ~Recorded(req[c].psbt.txid)
  /\ Allowed(req[c].psbt, req[c].now, req[c].policy)

QueueableAfterFailure(c) ==
  /\ ~Recorded(req[c].psbt.txid)
  /\ ~Present(req[c].psbt.txid) \/ Has(req[c].psbt.txid, "failed")
  /\ Allowed(req[c].psbt, req[c].now, req[c].policy)

Queueable(c) ==
  /\ ~Recorded(req[c].psbt.txid)
  /\ ~Present(req[c].psbt.txid)
  /\ Allowed(req[c].psbt, req[c].now, req[c].policy)

\* A replay of a recorded spend, an existing row or a policy denial is
\* answered from inside the transaction, which is rolled back.
SubmitAnswer(c) ==
  /\ pc[c] = "ledger_tx" /\ ~Queueable(c)
  /\ Reply(c)
  /\ UNCHANGED <<now, tables, config, sweeper, history>>

\* The row's times come from the clock the request read on arrival.
SubmitQueue(c) ==
  LET p  == req[c].psbt
      at == req[c].now
  IN  /\ Goto(c, "ledger_tx", "notify") /\ Queueable(c)
      /\ pending' = [pending EXCEPT ![p.txid] =
           [psbt |-> p, created_at |-> at, hold_until |-> at + HoldFor(p),
            status |-> "pending", last_notified_at |-> at]]
      /\ UNCHANGED <<now, ledger, frozen, config, req, sweeper, history>>

NotifyOk(c) ==
  /\ pc[c] = "notify"
  /\ notified' = notified \cup {req[c].psbt.txid}
  /\ Reply(c)
  /\ UNCHANGED <<now, tables, config, sweeper, vetoed, interrupted>>

\* Mutant: a failed notice ends the request and leaves the row as it is.
NotifyFailForgotten(c) ==
  /\ pc[c] = "notify"
  /\ Reply(c)
  /\ UNCHANGED <<now, tables, config, sweeper, history>>

NotifyFail(c) ==
  /\ Goto(c, "notify", "mark_failed")
  /\ UNCHANGED <<now, tables, config, req, sweeper, history>>

\* In a transaction of its own, whatever the row's status has become.
MarkFailed(c) ==
  /\ pc[c] = "mark_failed"
  /\ SetStatus(req[c].psbt.txid, "failed")
  /\ Reply(c)
  /\ UNCHANGED <<now, ledger, frozen, config, sweeper, history>>

Unsettled(c) == pc[c] \in {"notify", "mark_failed"}
UnsettledTxs == {req[c].psbt.txid : c \in {d \in Client : Unsettled(d)}}

\* The client hangs up, which drops the handler at the await it is at, or the
\* ledger returns an error there.
Abandon(c) ==
  /\ pc[c] # "idle"
  /\ interrupted' =
       IF Unsettled(c) THEN interrupted \cup {req[c].psbt.txid} ELSE interrupted
  /\ Reply(c)
  /\ UNCHANGED <<now, tables, config, sweeper, notified, vetoed>>

-----------------------------------------------------------------------------
(* The operator's controls.                                                  *)

Veto(t) ==
  /\ Has(t, "pending")
  /\ SetStatus(t, "vetoed")
  /\ vetoed' = vetoed \cup {t}
  /\ UNCHANGED <<now, ledger, frozen, config, clients, sweeper, notified,
                 interrupted>>

Freeze ==
  /\ ~frozen /\ frozen' = TRUE
  /\ UNCHANGED <<now, ledger, pending, config, clients, sweeper, history>>

\* By a SATOCHIP authorization or `cosigner unfreeze`.
Unfreeze ==
  /\ frozen /\ frozen' = FALSE
  /\ UNCHANGED <<now, ledger, pending, config, clients, sweeper, history>>

\* POST /policy swaps the handle; how it is authorized is not modelled here.
PostPolicy(p) ==
  /\ policy # p /\ policy' = p
  /\ UNCHANGED <<now, tables, recovery_enabled, clients, sweeper, history>>

-----------------------------------------------------------------------------
(* The sweeper.                                                              *)

\* One tick of spawn_sweeper: the clock and the policy of the whole pass are
\* read, and sweep_due lists the rows whose hold has elapsed.
StartSweep ==
  /\ spc = "sleep" /\ spc' = "sweep"
  /\ snap' = [now |-> now, policy |-> policy]
  /\ due' = due_pending(now)
  /\ UNCHANGED <<now, tables, config, clients, row, history>>

\* The head of process_due_pending_row.  Its two reads, the freeze and the
\* row, are one step: a freeze or veto between them is as one just before or
\* just after both.
BeginRow(t) ==
  /\ spc = "sweep" /\ t \in due
  /\ due' = due \ {t}
  /\ IF frozen \/ ~Has(t, "pending")
     THEN UNCHANGED <<spc, row>>
     ELSE spc' = "inspect" /\ row' = t
  /\ UNCHANGED <<now, tables, config, clients, snap, history>>

\* The next row of the pass, whatever became of the one in hand.
NextRow == spc' = "sweep" /\ row' = None

InspectOk ==
  /\ spc = "inspect" /\ spc' = "decide"
  /\ UNCHANGED <<now, tables, config, clients, due, row, snap, history>>

\* The UTXO is gone, or any other InspectError than Chain.
InspectInvalid ==
  /\ spc = "inspect" /\ spc' = "mark_failed"
  /\ UNCHANGED <<now, tables, config, clients, due, row, snap, history>>

\* Mutant: an error ends the whole pass.
RowErrorAborts ==
  /\ spc \in {"inspect", "decide", "mark_failed"}
  /\ spc' = "sleep" /\ due' = {} /\ row' = None /\ snap' = None
  /\ UNCHANGED <<now, tables, config, clients, history>>

\* InspectError::Chain, or the ledger failing at a later step: the row stays
\* as it is for the next pass.
RowError ==
  /\ spc \in {"inspect", "decide", "mark_failed"}
  /\ NextRow
  /\ UNCHANGED <<now, tables, config, clients, due, snap, history>>

\* Mutants: the submission's policy check is taken as final; a recovery spend
\* is signed without a record, as no cap gates it.
VerdictUnrecorded(p) ==
  CASE ~PathOk(p)                                  -> "failed"
    [] PathOk(p) /\ ~Allowed(p, snap.now, snap.policy) -> "denied"
    [] PathOk(p) /\ Allowed(p, snap.now, snap.policy) ->
         IF p.path = "recovery" THEN "replay" ELSE "record"

VerdictTrusting(p) ==
  CASE ~PathOk(p)                                  -> "failed"
    [] PathOk(p) /\ Recorded(p.txid)               -> "replay"
    [] OTHER                                       -> "record"

\* What decide_and_sign makes of the stored PSBT, and what becomes of the row.
Verdict(p) ==
  CASE ~PathOk(p)                                  -> "failed"
    [] PathOk(p) /\ Recorded(p.txid)               -> "replay"
    [] PathOk(p) /\ ~Recorded(p.txid)
         /\ ~Allowed(p, snap.now, snap.policy)     -> "denied"
    [] OTHER                                       -> "record"

\* Mutants: only one of the two is read again.
RowStillDueNoStatus == ~frozen
RowStillDueNoFreeze == Has(row, "pending")

\* The row's transaction: status and freeze are read again, through the same
\* connection, before the verdict.
RowStillDue == Has(row, "pending") /\ ~frozen

Skip ==
  /\ spc = "decide" /\ ~RowStillDue
  /\ NextRow
  /\ UNCHANGED <<now, tables, config, clients, due, snap, history>>

\* The spend is recorded and the row marked in one commit.
Sign ==
  LET p == pending[row].psbt
  IN  /\ spc = "decide" /\ RowStillDue
      /\ Verdict(p) \in {"replay", "record"} /\ p.signable
      /\ ledger' = IF Verdict(p) = "replay" THEN ledger
                   ELSE ledger \cup {[txid |-> row, recorded_at |-> snap.now,
                                      spend_sat |-> p.spend_sat]}
      /\ SetStatus(row, "signed")
      /\ NextRow
      /\ UNCHANGED <<now, frozen, config, clients, due, snap, history>>

Refuse ==
  LET v == Verdict(pending[row].psbt)
  IN  /\ spc = "decide" /\ RowStillDue
      /\ v \in {"denied", "failed"}
      /\ SetStatus(row, v)
      /\ NextRow
      /\ UNCHANGED <<now, ledger, frozen, config, clients, due, snap, history>>

\* A SigningError drops the transaction; the row is marked in another one.
SigningError ==
  LET p == pending[row].psbt
  IN  /\ spc = "decide" /\ RowStillDue
      /\ Verdict(p) \in {"replay", "record"} /\ ~p.signable
      /\ spc' = "mark_failed"
      /\ UNCHANGED <<now, tables, config, clients, due, row, snap, history>>

\* Neither the status nor the freeze is read again here.
SweepMarkFailed ==
  /\ spc = "mark_failed"
  /\ SetStatus(row, "failed")
  /\ NextRow
  /\ UNCHANGED <<now, ledger, frozen, config, clients, due, snap, history>>

(* renotify_pending, on the same tick and with the same clock.               *)

StartReminders ==
  /\ spc = "sweep" /\ due = {}
  /\ spc' = "remind"
  /\ due' = pending_needing_renotify(snap.now)
  /\ UNCHANGED <<now, tables, config, clients, row, snap, history>>

RemindOk(t) ==
  /\ spc = "remind" /\ t \in due
  /\ due' = due \ {t} /\ row' = t /\ spc' = "mark_notified"
  /\ notified' = notified \cup {t}
  /\ UNCHANGED <<now, tables, config, clients, snap, vetoed, interrupted>>

RemindFail(t) ==
  /\ spc = "remind" /\ t \in due
  /\ due' = due \ {t}
  /\ UNCHANGED <<now, tables, config, clients, spc, row, snap, history>>

MarkNotified ==
  /\ spc = "mark_notified" /\ spc' = "remind" /\ row' = None
  /\ pending' = [pending EXCEPT ![row] =
                   [@ EXCEPT !.last_notified_at = snap.now]]
  /\ UNCHANGED <<now, ledger, frozen, config, clients, due, snap, history>>

Asleep == spc' = "sleep" /\ due' = {} /\ row' = None /\ snap' = None

\* The pass is over, or mark_notified failed and took the rest with it.
EndSweep ==
  /\ spc = "mark_notified" \/ (spc = "remind" /\ due = {})
  /\ Asleep
  /\ UNCHANGED <<now, tables, config, clients, history>>

-----------------------------------------------------------------------------
(* The environment.                                                          *)

\* The process dies and is started again: the tables survive, every request
\* and the sweeper's pass are gone, and the configuration is read anew.  The
\* policy is reloaded from the database; PostPolicy can follow at once, so
\* leaving the handle alone loses no behaviour.
Restart ==
  /\ pc' = [c \in Client |-> "idle"] /\ req' = [c \in Client |-> None]
  /\ Asleep
  /\ interrupted' = interrupted \cup UnsettledTxs
  /\ recovery_enabled' \in BOOLEAN
  /\ UNCHANGED <<now, tables, policy, notified, vetoed>>

Tick ==
  /\ now < MaxTime /\ now' = now + 1
  /\ UNCHANGED <<tables, config, clients, sweeper, history>>

-----------------------------------------------------------------------------
Request(c) ==
  \/ \E p \in Psbts : Arrive(c, p)
  \/ CheckFreeze(c) \/ SubmitAnswer(c) \/ SubmitQueue(c)
  \/ NotifyOk(c) \/ NotifyFail(c) \/ MarkFailed(c) \/ Abandon(c)

Operator ==
  \/ \E t \in Txid : Veto(t)
  \/ Freeze \/ Unfreeze
  \/ \E p \in Policies : PostPolicy(p)

Sweep ==
  \/ StartSweep
  \/ \E t \in Txid : BeginRow(t)
  \/ InspectOk \/ InspectInvalid \/ RowError
  \/ Skip \/ Sign \/ Refuse \/ SigningError \/ SweepMarkFailed
  \/ StartReminders
  \/ \E t \in Txid : RemindOk(t) \/ RemindFail(t)
  \/ MarkNotified \/ EndSweep

Next == (\E c \in Client : Request(c)) \/ Operator \/ Sweep \/ Restart \/ Tick

Spec == Init /\ [][Next]_vars

-----------------------------------------------------------------------------
(* Properties.                                                               *)

TypeOK ==
  /\ now \in Nat
  /\ ledger \subseteq LedgerRow
  /\ pending \in [Txid -> PendingRow \cup {None}]
  /\ frozen \in BOOLEAN
  /\ policy \in Policies /\ recovery_enabled \in BOOLEAN
  /\ pc \in [Client -> {"idle", "freeze_check", "ledger_tx", "notify",
                         "mark_failed"}]
  /\ req \in [Client -> Submission \cup {None}]
  /\ spc \in {"sleep", "sweep", "inspect", "decide", "mark_failed", "remind",
              "mark_notified"}
  /\ due \subseteq Txid
  /\ row \in Txid \cup {None}
  /\ snap \in Snapshot \cup {None}
  /\ notified \subseteq Txid /\ vetoed \subseteq Txid
  /\ interrupted \subseteq Txid

\* What each process holds fits where it is and what the tables say, however
\* long ago it was read: a handler about to fail a row finds one, the rows of a
\* pass still exist, and those it may sign were due by the pass's own clock.
HandlerCoherent(c) ==
  /\ pc[c] = "idle" <=> req[c] = None
  /\ req[c] # None => req[c].now <= now
  /\ Unsettled(c) => Present(req[c].psbt.txid)

HandlersCoherent == \A c \in Client : HandlerCoherent(c)

DueBy(t, at) == Present(t) /\ pending[t].hold_until <= at

InHand == {"inspect", "decide", "mark_failed", "mark_notified"}

SweeperCoherent ==
  /\ spc = "sleep" => due = {}
  /\ spc # "sleep" => snap # None /\ snap.now <= now
  /\ spc \in InHand => row \in Txid /\ Present(row)
  /\ \A t \in due : Present(t)
  /\ spc \in {"sweep", "inspect", "decide", "mark_failed"} =>
       \A t \in due : DueBy(t, snap.now)
  /\ spc \in {"inspect", "decide", "mark_failed"} => DueBy(row, snap.now)

RowsCoherent ==
  \A t \in Txid : Present(t) =>
    /\ pending[t].psbt.txid = t
    /\ pending[t].hold_until = pending[t].created_at + HoldFor(pending[t].psbt)

Coherent == HandlersCoherent /\ SweeperCoherent /\ RowsCoherent

\* A spend POST /veto/{id} reported as vetoed is never signed, whatever the
\* sweeper had already read of it and whoever resubmits it afterwards.
VetoIsPermanent ==
  \A t \in vetoed : ~Recorded(t) /\ pending[t].status \in {"vetoed", "failed"}

\* Every signature follows the full hold of the path its PSBT takes: a recovery
\* spend is never signed on the hot path's shorter hold, and no resubmission
\* moves the hold of a row that is already queued.
SignedAfterHold ==
  \A e \in ledger :
    /\ Present(e.txid)
    /\ e.recorded_at >= pending[e.txid].created_at
                          + HoldFor(pending[e.txid].psbt)
    /\ e.recorded_at <= now

\* The audit trail and the queue agree: a row says "signed" only of a recorded
\* spend, a recorded spend is never pending, vetoed or denied, and no spend
\* is recorded twice.
LedgerMatchesQueue ==
  /\ \A t \in Txid : Has(t, "signed") => Recorded(t)
  /\ \A e \in ledger : Has(e.txid, "signed") \/ Has(e.txid, "failed")
  /\ \A e, f \in ledger : e.txid = f.txid => e = f

\* While a freeze is in force nothing is signed: not the row in the sweeper's
\* hand, whose inspection the freeze may have overtaken, nor any later one.
FreezeStopsSigning ==
  [][frozen => /\ ledger' = ledger
               /\ \A t \in Txid : Has(t, "signed")' => Has(t, "signed")]_vars

\* No hold ticks down in silence by the queue's own doing: a row still pending
\* was notified, is being notified or is about to be failed for want of it,
\* unless its request was cut short from outside.
NoSilentHold ==
  \A t \in Txid : Has(t, "pending") =>
    t \in notified \cup UnsettledTxs \cup interrupted

\* Once queued, a spend keeps the PSBT and the hold it was queued with: racing
\* and repeated submissions of the transaction never restart or shorten it.
QueuedOnce ==
  [][\A t \in Txid : Present(t) =>
       /\ Present(t)'
       /\ pending'[t].psbt = pending[t].psbt
       /\ pending'[t].hold_until = pending[t].hold_until]_vars

\* Over every trailing window, the hot spends ever signed stay within the caps
\* of one authorized policy, although each was approved at submission when
\* the others were not recorded yet.
HotRows == {e \in ledger : pending[e.txid].psbt.path = "hot"}

HotSpendWithinCaps ==
  \A at \in 0 .. now : \E p \in Policies :
    LET spent == rolling_totals(HotRows, at)
    IN  /\ spent.day_sat <= p.max_daily_sat
        /\ spent.week_sat <= p.max_weekly_sat
        /\ spent.month_sat <= p.max_monthly_sat

-----------------------------------------------------------------------------
(* What the repository says of the queue and the code does not keep to.      *)

\* ledger.rs of Failed: never signed, nothing recorded.
FailedIsNeverSigned == \A t \in Txid : Has(t, "failed") => ~Recorded(t)

=============================================================================
