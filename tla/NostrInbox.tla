------------------------------ MODULE NostrInbox ------------------------------
(***************************************************************************)
(* The Nostr transport (nostr_transport.rs): gift wraps that relays hold    *)
(* are delivered to the service, which answers each one by running it       *)
(* through the HTTP router.  Relays deliver a wrap any number of times, and *)
(* every start of the process subscribes without a lower bound in time, so  *)
(* the whole history comes again.  The ledger's nostr_seen_events table is  *)
(* what keeps a request from running twice.                                 *)
(*                                                                          *)
(* The notification loop awaits each callback, so one wrap is handled at a  *)
(* time.  Between two awaits of the callback the process may end; what it   *)
(* wrote to the ledger stays.  A sender that gets no answer sends the       *)
(* request again, as a new wrap.                                            *)
(***************************************************************************)
EXTENDS Naturals, FiniteSets

CONSTANTS
  Sender,     \* npubs
  Wrap,       \* the gift wraps that may be sent, by event id
  From(_),    \* the npub a wrap's seal is signed by
  Body(_),    \* what unwrapping and parsing a wrap yields
  MaxFaults,  \* bound on crashes, ledger errors and lost answers
  NoWrap      \* no wrap is being handled

\* "opaque" does not unwrap, "garbage" is no envelope, "other" has a method
\* that is neither GET nor POST; only a "request" is one the router gets.
BodyKind == {"request", "other", "garbage", "opaque"}

ASSUME InboxAssumption ==
  /\ \A w \in Wrap : From(w) \in Sender /\ Body(w) \in BodyKind
  /\ MaxFaults \in Nat
  /\ NoWrap \notin Wrap

VARIABLES
  configured,  \* allowed_npubs in wallet.toml
  allowed,     \* the allowlist the running process compiled from it
  up,          \* whether the process runs
  relays,      \* the wraps that relays hold
  current,     \* the wrap whose callback runs, or NoWrap
  pc,          \* the await that callback has reached
  seen,        \* the rows of nostr_seen_events
  missed,      \* wraps whose callback ended, since the start, without a row
  ran,         \* history: how often the router has run each wrap's request
  answered,    \* the wraps whose sender has an answer from the router
  revoked,     \* history: npubs that were off the list when a process started
  faults

vars == <<configured, allowed, up, relays, current, pc, seen, missed, ran,
          answered, revoked, faults>>

sides   == <<configured, allowed, up>>
handler == <<current, pc>>
ledger  == <<seen, missed>>
outcome == <<ran, answered>>

Init ==
  /\ configured = Sender /\ allowed = Sender /\ up = TRUE
  /\ relays = {} /\ current = NoWrap /\ pc = "idle"
  /\ seen = {} /\ missed = {}
  /\ ran = [w \in Wrap |-> 0] /\ answered = {} /\ revoked = {} /\ faults = 0

-----------------------------------------------------------------------------
(* The senders and the relays. *)

\* A sender wants one request answered, and sends it until it is.
Answered(s) == \E w \in answered : From(w) = s

Send(w) ==
  /\ w \notin relays
  /\ Body(w) = "request" => ~Answered(From(w))
  /\ relays' = relays \cup {w}
  /\ UNCHANGED <<sides, handler, ledger, outcome, revoked, faults>>

\* A notification for a wrap addressed to the service, new or a repetition.
Deliver(w) ==
  /\ up /\ current = NoWrap /\ w \in relays
  /\ current' = w /\ pc' = "received"
  /\ UNCHANGED <<sides, relays, ledger, outcome, revoked, faults>>

-----------------------------------------------------------------------------
(* handle_gift_wrap. *)

Done == current' = NoWrap /\ pc' = "idle"

\* Mutant: the event id is not looked up.
CheckSeenAlways ==
  /\ pc = "received"
  /\ pc' = "unseen" /\ UNCHANGED current
  /\ UNCHANGED <<sides, relays, ledger, outcome, revoked, faults>>

CheckSeen ==
  /\ pc = "received"
  /\ IF current \in seen THEN Done ELSE pc' = "unseen" /\ UNCHANGED current
  /\ UNCHANGED <<sides, relays, ledger, outcome, revoked, faults>>

\* Mutant: what a subscription has brought is recorded in one go.
MarkSeenBatch ==
  /\ pc = "unseen"
  /\ seen' = seen \cup relays
  /\ pc' = "marked"
  /\ UNCHANGED <<sides, relays, current, missed, outcome, revoked, faults>>

MarkSeen ==
  /\ pc = "unseen"
  /\ seen' = seen \cup {current}
  /\ pc' = "marked"
  /\ UNCHANGED <<sides, relays, current, missed, outcome, revoked, faults>>

\* Mutant: the error ends the notification loop, and with it the task.
LedgerErrorEndsLoop ==
  /\ faults < MaxFaults /\ faults' = faults + 1
  /\ pc \in {"received", "unseen"}
  /\ missed' = missed \cup {current}
  /\ current' = NoWrap /\ pc' = "ended"
  /\ UNCHANGED <<sides, relays, seen, outcome, revoked>>

\* A query of the ledger that fails ends the callback; the loop goes on.
LedgerError ==
  /\ faults < MaxFaults /\ faults' = faults + 1
  /\ pc \in {"received", "unseen"}
  /\ missed' = missed \cup {current} /\ Done
  /\ UNCHANGED <<sides, relays, seen, outcome, revoked>>

\* A wrap that does not unwrap, or of an npub that is not on the list, is
\* dropped without an answer.
Drop ==
  /\ pc = "marked"
  /\ Body(current) = "opaque" \/ From(current) \notin allowed
  /\ Done
  /\ UNCHANGED <<sides, relays, ledger, outcome, revoked, faults>>

\* The rest of dispatch's guards: no envelope, or a method that is not served,
\* is answered with an error the router never sees.
Refuse ==
  /\ pc = "marked"
  /\ Body(current) \in {"garbage", "other"} /\ From(current) \in allowed
  /\ pc' = "refused"
  /\ UNCHANGED <<sides, relays, current, ledger, outcome, revoked, faults>>

\* The router runs the request; whatever it answers is the reply.
Dispatch ==
  /\ pc = "marked"
  /\ Body(current) = "request" /\ From(current) \in allowed
  /\ ran' = [ran EXCEPT ![current] = @ + 1]
  /\ pc' = "ran"
  /\ UNCHANGED <<sides, relays, current, ledger, answered, revoked, faults>>

Reply ==
  /\ pc \in {"ran", "refused"}
  /\ answered' = IF pc = "ran" THEN answered \cup {current} ELSE answered
  /\ Done
  /\ UNCHANGED <<sides, relays, ledger, ran, revoked, faults>>

\* The relays refuse the reply, or it is lost on the way to the sender.
LoseReply ==
  /\ faults < MaxFaults /\ faults' = faults + 1
  /\ pc \in {"ran", "refused"}
  /\ Done
  /\ UNCHANGED <<sides, relays, ledger, outcome, revoked>>

-----------------------------------------------------------------------------
(* The process. *)

Crash ==
  /\ faults < MaxFaults /\ faults' = faults + 1
  /\ up /\ up' = FALSE
  /\ Done
  /\ UNCHANGED <<configured, allowed, relays, ledger, outcome, revoked>>

\* Mutant: the subscription is bounded by the time of the start, and relays need
\* not send what they held before.
StartSince ==
  /\ ~up /\ up' = TRUE
  /\ allowed' = configured /\ missed' = relays
  /\ revoked' = revoked \cup (Sender \ configured)
  /\ UNCHANGED <<configured, relays, handler, seen, outcome, faults>>

\* Mutant: the allowlist outlives the process.
StartStale ==
  /\ ~up /\ up' = TRUE /\ missed' = {}
  /\ revoked' = revoked \cup (Sender \ configured)
  /\ UNCHANGED <<configured, allowed, relays, handler, seen, outcome, faults>>

\* run: the allowlist is compiled once, and the subscription has no `since`.
Start ==
  /\ ~up /\ up' = TRUE
  /\ allowed' = configured /\ missed' = {}
  /\ revoked' = revoked \cup (Sender \ configured)
  /\ UNCHANGED <<configured, relays, handler, seen, outcome, faults>>

\* A lost device is cut off by removing its npub from wallet.toml.
Revoke(s) ==
  /\ s \in configured
  /\ configured' = configured \ {s}
  /\ UNCHANGED <<allowed, up, relays, handler, ledger, outcome, revoked,
                 faults>>

Handle ==
  CheckSeen \/ MarkSeen \/ Drop \/ Refuse \/ Dispatch \/ Reply

Next ==
  \/ \E w \in Wrap : Send(w) \/ Deliver(w)
  \/ Handle
  \/ LedgerError \/ LoseReply \/ Crash \/ Start
  \/ \E s \in Sender : Revoke(s)

Spec == Init /\ [][Next]_vars

\* The callback's futures are polled and the container is restarted; a relay
\* that holds a wrap sends it to a subscriber, though perhaps only once for each
\* subscription; a sender that waits for an answer sends its request again.
FairSpec ==
  /\ Spec
  /\ WF_vars(Handle) /\ WF_vars(Start)
  /\ \A w \in Wrap : SF_vars(Deliver(w) /\ w \notin seen \cup missed)
  /\ \A w \in Wrap : WF_vars(Body(w) = "request" /\ Send(w))

-----------------------------------------------------------------------------
TypeOK ==
  /\ configured \subseteq Sender /\ allowed \subseteq Sender
  /\ revoked \subseteq Sender /\ up \in BOOLEAN
  /\ relays \subseteq Wrap /\ seen \subseteq Wrap /\ missed \subseteq Wrap
  /\ answered \subseteq Wrap
  /\ current \in Wrap \cup {NoWrap}
  /\ pc \in {"idle", "received", "unseen", "marked", "ran", "refused"}
  /\ ran \in [Wrap -> Nat] /\ faults \in 0..MaxFaults

\* However often relays deliver a wrap, however the process crashes and is
\* restarted between two awaits of the callback, the router runs its request at
\* most once (handle_gift_wrap marks it seen before it dispatches).
RunsAtMostOnce == \A w \in Wrap : ran[w] <= 1

\* What is recorded as seen and yet will never be answered is at most one wrap
\* for each crash, ledger error or lost answer there has been: the record is
\* made for the wrap in hand and for no other.
EachFaultCostsOneWrap ==
  Cardinality({w \in seen \ answered : /\ Body(w) = "request"
                                       /\ From(w) \in configured
                                       /\ w # current}) <= faults

\* From the first start after an npub has been removed from the list, nothing
\* it has sent runs any more, not even the wraps relays held before.
RevokedNeverRuns ==
  [][\A w \in Wrap : ran'[w] > ran[w] => From(w) \notin revoked]_vars

\* A sender on the list that keeps sending is answered in the end: a wrap sent
\* while the process is down is in the history the next start reads, and each
\* crash, ledger error or lost answer costs at most the wrap in hand.
SendersAreAnswered ==
  \A s \in Sender :
    (\A w \in Wrap : From(w) = s => Body(w) = "request") =>
      ([](s \in configured) => <>Answered(s))
===============================================================================
