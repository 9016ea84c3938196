--------------------------- MODULE NostrInboxProofs ---------------------------
(***************************************************************************)
(* The Nostr inbox runs every request at most once, none of a revoked npub, *)
(* and loses at most one for each fault, for any number of senders, wraps,  *)
(* deliveries, crashes and restarts.                                        *)
(***************************************************************************)
EXTENDS NostrInbox, FiniteSetTheorems, TLAPS

\* What orders the callback's awaits: a wrap is recorded before its request
\* runs, and one that is about to run has not run before.
RecordedFirst ==
  /\ pc # "idle" => current \in Wrap
  /\ pc = "unseen" => current \notin seen
  /\ pc = "marked" => current \in seen /\ ran[current] = 0
  /\ \A w \in Wrap : ran[w] > 0 => w \in seen

IInv == TypeOK /\ RecordedFirst /\ RunsAtMostOnce

LEMMA IInvInit == Init => IInv
BY InboxAssumption DEF Init, IInv, TypeOK, RecordedFirst, RunsAtMostOnce

LEMMA SendersKeepIInv ==
  ASSUME IInv, NEW w \in Wrap, Send(w) \/ Deliver(w)
  PROVE  IInv'
BY DEF Send, Deliver, IInv, TypeOK, RecordedFirst, RunsAtMostOnce, sides,
       handler, ledger, outcome

\* The request runs once more: it has not run before, as it was not recorded
\* when the callback looked.
LEMMA DispatchKeepsIInv ==
  ASSUME IInv, Dispatch
  PROVE  IInv'
<1>1. /\ pc = "marked" /\ pc' = "ran"
      /\ ran' = [ran EXCEPT ![current] = @ + 1]
      /\ current \in Wrap /\ current \in seen /\ ran[current] = 0
      /\ UNCHANGED <<sides, relays, current, ledger, answered, revoked, faults>>
  BY DEF Dispatch, IInv, RecordedFirst
<1>2. ran \in [Wrap -> Nat]
  BY DEF IInv, TypeOK
<1>3. /\ ran' \in [Wrap -> Nat]
      /\ ran'[current] = 1
      /\ \A w \in Wrap \ {current} : ran'[w] = ran[w]
  BY <1>1, <1>2
<1>4. TypeOK'
  BY <1>1, <1>3 DEF IInv, TypeOK, sides, ledger
<1>5. RecordedFirst'
  BY <1>1, <1>3 DEF IInv, RecordedFirst, ledger
<1>6. RunsAtMostOnce'
  BY <1>1, <1>3 DEF IInv, RunsAtMostOnce
<1> QED
  BY <1>4, <1>5, <1>6 DEF IInv

LEMMA CallbackKeepsIInv ==
  ASSUME IInv, CheckSeen \/ MarkSeen \/ Drop \/ Refuse \/ Reply
                 \/ LedgerError \/ LoseReply
  PROVE  IInv'
<1> USE InboxAssumption DEF IInv, TypeOK, RecordedFirst, RunsAtMostOnce, sides,
                            handler, ledger, outcome, Done
<1>1. CASE CheckSeen
  BY <1>1 DEF CheckSeen
<1>2. CASE MarkSeen
  <2>1. ran[current] = 0
    BY <1>2 DEF MarkSeen
  <2> QED
    BY <1>2, <2>1 DEF MarkSeen
<1>3. CASE Drop
  BY <1>3 DEF Drop
<1>4. CASE Refuse
  BY <1>4 DEF Refuse
<1>5. CASE Reply
  BY <1>5 DEF Reply
<1>6. CASE LedgerError
  BY <1>6 DEF LedgerError
<1>7. CASE LoseReply
  BY <1>7 DEF LoseReply
<1> QED
  BY <1>1, <1>2, <1>3, <1>4, <1>5, <1>6, <1>7

LEMMA ProcessKeepsIInv ==
  ASSUME IInv, Crash \/ Start \/ \E s \in Sender : Revoke(s)
  PROVE  IInv'
<1> USE InboxAssumption DEF IInv, TypeOK, RecordedFirst, RunsAtMostOnce,
                            handler, ledger, outcome
<1>1. CASE Crash
  <2>1. /\ faults' \in 0..MaxFaults /\ up' = FALSE
        /\ current' = NoWrap /\ pc' = "idle"
        /\ UNCHANGED <<configured, allowed, relays, seen, missed, ran, answered,
                       revoked>>
    BY <1>1 DEF Crash, Done
  <2> QED
    BY <2>1
<1>2. CASE Start
  BY <1>2 DEF Start
<1>3. CASE \E s \in Sender : Revoke(s)
  BY <1>3 DEF Revoke
<1> QED
  BY <1>1, <1>2, <1>3

LEMMA NextKeepsIInv == IInv /\ [Next]_vars => IInv'
<1> SUFFICES ASSUME IInv, [Next]_vars PROVE IInv'
  OBVIOUS
<1>1. CASE UNCHANGED vars
  BY <1>1 DEF vars, IInv, TypeOK, RecordedFirst, RunsAtMostOnce
<1>2. CASE Next
  BY <1>2, SendersKeepIInv, DispatchKeepsIInv, CallbackKeepsIInv,
     ProcessKeepsIInv DEF Next, Handle
<1> QED
  BY <1>1, <1>2

LEMMA IInvAlways == Spec => []IInv
BY IInvInit, NextKeepsIInv, PTL DEF Spec

\* The types, for every set of senders and wraps.
THEOREM InboxTypesHold == Spec => []TypeOK
<1>1. IInv => TypeOK
  BY DEF IInv
<1> QED
  BY <1>1, IInvAlways, PTL

\* No wrap's request runs twice, however often relays deliver it and wherever
\* the process crashes (handle_gift_wrap).
THEOREM RequestsRunAtMostOnce == Spec => []RunsAtMostOnce
<1>1. IInv => RunsAtMostOnce
  BY DEF IInv
<1> QED
  BY <1>1, IInvAlways, PTL

-----------------------------------------------------------------------------
(* Revoked npubs. *)

\* A process that runs has compiled the list that was there when it started, and
\* npubs never come back to the list in wallet.toml.
RevokedStaysOff ==
  /\ revoked \subseteq Sender \ configured
  /\ up => allowed \cap revoked = {}
  /\ pc # "idle" => up

LEMMA RevokedStaysOffInit == Init => RevokedStaysOff
BY DEF Init, RevokedStaysOff

LEMMA RevokedStaysOffStep ==
  RevokedStaysOff /\ [Next]_vars => RevokedStaysOff'
<1> SUFFICES ASSUME RevokedStaysOff, [Next]_vars PROVE RevokedStaysOff'
  OBVIOUS
<1> USE DEF RevokedStaysOff, sides, handler, ledger, outcome, Done
<1>1. CASE UNCHANGED vars
  BY <1>1 DEF vars
<1>2. CASE \E w \in Wrap : Send(w) \/ Deliver(w)
  BY <1>2 DEF Send, Deliver
<1>3. CASE CheckSeen \/ MarkSeen \/ Drop
  BY <1>3 DEF CheckSeen, MarkSeen, Drop
<1>4. CASE Refuse \/ Dispatch \/ Reply
  BY <1>4 DEF Refuse, Dispatch, Reply
<1>5. CASE LedgerError \/ LoseReply \/ Crash
  BY <1>5 DEF LedgerError, LoseReply, Crash
<1>6. CASE Start
  BY <1>6 DEF Start
<1>7. CASE \E s \in Sender : Revoke(s)
  BY <1>7 DEF Revoke
<1> QED
  BY <1>1, <1>2, <1>3, <1>4, <1>5, <1>6, <1>7 DEF Next, Handle

\* Only Dispatch runs a request, and it asks the list the process compiled.
LEMMA OnlyTheAllowedRun ==
  IInv /\ RevokedStaysOff /\ [Next]_vars
    => [\A w \in Wrap : ran'[w] > ran[w] => From(w) \notin revoked]_vars
<1> SUFFICES ASSUME IInv, RevokedStaysOff, Next, NEW w \in Wrap,
                    ran'[w] > ran[w]
             PROVE  From(w) \notin revoked
  BY DEF vars
<1>1. ran \in [Wrap -> Nat]
  BY DEF IInv, TypeOK
<1>2. ran' # ran
  BY <1>1
<1>3. Dispatch
  BY <1>2 DEF Next, Handle, Send, Deliver, CheckSeen, MarkSeen, Drop, Refuse,
              Reply, LedgerError, LoseReply, Crash, Start, Revoke, outcome
<1>4. w = current
  BY <1>1, <1>3 DEF Dispatch
<1> QED
  BY <1>3, <1>4 DEF Dispatch, RevokedStaysOff

\* An npub that was off the list when the process started never has a request
\* run again, whatever relays still hold of it and however often the process
\* restarts (run compiles allowed_npubs, dispatch asks it).
THEOREM RevokedStayOut == Spec => RevokedNeverRuns
<1>1. Spec => []RevokedStaysOff
  BY RevokedStaysOffInit, RevokedStaysOffStep, PTL DEF Spec
<1> QED
  BY <1>1, IInvAlways, OnlyTheAllowedRun, PTL DEF Spec, RevokedNeverRuns

-----------------------------------------------------------------------------
(* What a fault costs. *)

\* The wraps on record that nobody will answer: not the one in hand, unless it
\* has been delivered again and was on record before.
Owed ==
  {w \in seen \ answered : /\ Body(w) = "request" /\ From(w) \in configured
                           /\ ~(w = current /\ pc # "received")}

FaultsPay ==
  /\ IsFiniteSet(Owed) /\ Cardinality(Owed) <= faults
  /\ configured \subseteq allowed
  /\ pc = "refused" => Body(current) # "request"

LEMMA FewerCostNoMore ==
  ASSUME NEW S, NEW T \in SUBSET S, NEW k \in Nat,
         IsFiniteSet(S), Cardinality(S) <= k
  PROVE  IsFiniteSet(T) /\ Cardinality(T) <= k
<1>1. /\ IsFiniteSet(T) /\ Cardinality(T) <= Cardinality(S)
  BY FS_Subset
<1>2. Cardinality(S) \in Nat /\ Cardinality(T) \in Nat
  BY <1>1, FS_CardinalityType
<1> QED
  BY <1>1, <1>2

LEMMA OneCostsOneMore ==
  ASSUME NEW S, NEW x, NEW T \in SUBSET (S \cup {x}), NEW k \in Nat,
         IsFiniteSet(S), Cardinality(S) <= k
  PROVE  IsFiniteSet(T) /\ Cardinality(T) <= k + 1
<1>1. /\ IsFiniteSet(S \cup {x})
      /\ Cardinality(S \cup {x}) <= Cardinality(S) + 1
  <2>1. /\ IsFiniteSet(S \cup {x})
        /\ Cardinality(S \cup {x}) = IF x \in S THEN Cardinality(S)
                                     ELSE Cardinality(S) + 1
    BY FS_AddElement
  <2>2. Cardinality(S) \in Nat
    BY FS_CardinalityType
  <2> QED
    BY <2>1, <2>2
<1>2. Cardinality(S) \in Nat /\ Cardinality(S \cup {x}) \in Nat
  BY <1>1, FS_CardinalityType
<1>3. Cardinality(S \cup {x}) <= k + 1
  BY <1>1, <1>2
<1> QED
  BY <1>1, <1>3, FewerCostNoMore

LEMMA FaultsPayInit == Init => FaultsPay
<1> SUFFICES ASSUME Init PROVE FaultsPay
  OBVIOUS
<1>1. Owed = {}
  BY DEF Init, Owed
<1>2. IsFiniteSet({}) /\ Cardinality({}) = 0
  BY FS_EmptySet
<1> QED
  BY <1>1, <1>2 DEF Init, FaultsPay

\* Without a fault the wrap in hand ends answered, or is none to answer.
LEMMA NothingMoreOwed ==
  ASSUME IInv, FaultsPay,
         \/ \E w \in Wrap : Send(w) \/ Deliver(w)
         \/ Handle \/ Start
         \/ \E s \in Sender : Revoke(s)
         \/ UNCHANGED vars
  PROVE  Owed' \subseteq Owed /\ UNCHANGED faults
<1> USE InboxAssumption DEF IInv, TypeOK, RecordedFirst, FaultsPay, Owed, sides,
                            handler, ledger, outcome, Done
<1>1. CASE \E w \in Wrap : Send(w) \/ Deliver(w)
  BY <1>1 DEF Send, Deliver
<1>2. CASE CheckSeen \/ MarkSeen
  BY <1>2 DEF CheckSeen, MarkSeen
<1>3. CASE Drop \/ Refuse \/ Dispatch
  BY <1>3 DEF Drop, Refuse, Dispatch
<1>4. CASE Reply
  BY <1>4 DEF Reply
<1>5. CASE Start \/ UNCHANGED vars
  BY <1>5 DEF Start, vars
<1>6. CASE \E s \in Sender : Revoke(s)
  BY <1>6 DEF Revoke
<1> QED
  BY <1>1, <1>2, <1>3, <1>4, <1>5, <1>6 DEF Handle

LEMMA FaultsPayStep == IInv /\ FaultsPay /\ [Next]_vars => FaultsPay'
<1> SUFFICES ASSUME IInv, FaultsPay, [Next]_vars PROVE FaultsPay'
  OBVIOUS
<1>1. /\ configured' \subseteq allowed'
      /\ pc' = "refused" => Body(current') # "request"
  <2> USE DEF FaultsPay, sides, handler, ledger, outcome, Done
  <2>1. CASE \E w \in Wrap : Send(w) \/ Deliver(w)
    BY <2>1 DEF Send, Deliver
  <2>2. CASE CheckSeen \/ MarkSeen \/ Drop
    BY <2>2 DEF CheckSeen, MarkSeen, Drop
  <2>3. CASE Refuse \/ Dispatch \/ Reply
    BY <2>3 DEF Refuse, Dispatch, Reply
  <2>4. CASE LedgerError \/ LoseReply \/ Crash
    BY <2>4 DEF LedgerError, LoseReply, Crash
  <2>5. CASE Start \/ \E s \in Sender : Revoke(s)
    BY <2>5 DEF Start, Revoke
  <2>6. CASE UNCHANGED vars
    BY <2>6 DEF vars
  <2> QED
    BY <2>1, <2>2, <2>3, <2>4, <2>5, <2>6 DEF Next, Handle
<1>2. faults \in Nat
  BY InboxAssumption DEF IInv, TypeOK
<1>3. CASE LedgerError \/ LoseReply \/ Crash
  <2>1. Owed' \subseteq Owed \cup {current} /\ faults' = faults + 1
    BY <1>3, InboxAssumption DEF LedgerError, LoseReply, Crash, Done, Owed,
       IInv, TypeOK, sides, ledger, outcome
  <2>2. IsFiniteSet(Owed') /\ Cardinality(Owed') <= faults + 1
    <3> DEFINE T == Owed'
    <3> HIDE DEF T
    <3>1. T \in SUBSET (Owed \cup {current})
      BY <2>1 DEF T
    <3>2. IsFiniteSet(T) /\ Cardinality(T) <= faults + 1
      BY <1>2, <3>1, OneCostsOneMore DEF FaultsPay
    <3> QED BY <3>2 DEF T
  <2> QED
    BY <1>1, <2>1, <2>2 DEF FaultsPay
<1>4. CASE ~(LedgerError \/ LoseReply \/ Crash)
  <2>1. Owed' \subseteq Owed /\ UNCHANGED faults
    BY <1>4, NothingMoreOwed DEF Next
  <2>2. IsFiniteSet(Owed') /\ Cardinality(Owed') <= faults
    <3> DEFINE T == Owed'
    <3> HIDE DEF T
    <3>1. T \in SUBSET Owed
      BY <2>1 DEF T
    <3>2. IsFiniteSet(T) /\ Cardinality(T) <= faults
      BY <1>2, <3>1, FewerCostNoMore DEF FaultsPay
    <3> QED BY <3>2 DEF T
  <2> QED
    BY <1>1, <2>1, <2>2 DEF FaultsPay
<1> QED
  BY <1>3, <1>4

\* For any number of wraps and deliveries, a crash, a ledger error or a lost
\* answer leaves at most one request on record and unanswered
\* (handle_gift_wrap).
THEOREM OneWrapForEachFault == Spec => []EachFaultCostsOneWrap
<1>1. ASSUME IInv, FaultsPay
      PROVE  EachFaultCostsOneWrap
  <2> DEFINE T == {w \in seen \ answered : /\ Body(w) = "request"
                                           /\ From(w) \in configured
                                           /\ w # current}
  <2>1. T \in SUBSET Owed
    BY DEF Owed
  <2>2. faults \in Nat
    BY <1>1, InboxAssumption DEF IInv, TypeOK
  <2> HIDE DEF T
  <2>3. Cardinality(T) <= faults
    BY <1>1, <2>1, <2>2, FewerCostNoMore DEF FaultsPay
  <2> QED
    BY <2>3 DEF EachFaultCostsOneWrap, T
<1>2. Spec => []FaultsPay
  BY FaultsPayInit, FaultsPayStep, IInvAlways, PTL DEF Spec
<1> QED
  BY <1>1, <1>2, IInvAlways, PTL

=============================================================================
