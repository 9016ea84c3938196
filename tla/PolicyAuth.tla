------------------------------ MODULE PolicyAuth ------------------------------
(***************************************************************************)
(* The spending policy's life: seeded into policy_state by the first start  *)
(* (main.rs, ledger.rs), changed by SATOCHIP-authorized POST /policy        *)
(* requests (policy_auth.rs, http.rs), and read by every other handler from *)
(* the PolicyHandle in memory.                                              *)
(*                                                                          *)
(* A change is a version and a policy; a signature over canonical_message   *)
(* is known by its change.  The change commits in one transaction; the      *)
(* handle is written after it, when the lock is had.                        *)
(***************************************************************************)
EXTENDS Integers

CONSTANTS
  Request,     \* concurrent POST /policy requests
  Policy,      \* the PolicyConfigs that compile; the others are refused, by
               \* WalletConfig::load and by apply_policy_change
  Expressible, \* those that JSON can express: their fee rate cap is finite
  Unreadable,  \* stored JSON that does not parse as a PolicyConfig
  MaxVersion,  \* bound on the changes
  None

ASSUME PolicyAssumption ==
  /\ Expressible \subseteq Policy /\ Unreadable \notin Policy
  /\ MaxVersion \in Nat \ {0}

Versioned == [version : 1 .. MaxVersion, policy : Policy \cup {Unreadable}]

\* What the owner is asked to sign is a policy file, which is JSON.
Change == [version : 1 .. MaxVersion, policy : Expressible]

ASSUME NoneAssumption == None \notin Versioned

VARIABLES
  state,     \* the policy_state row, or None
  up,        \* whether the service runs
  handle,    \* its PolicyHandle; only read while it runs
  signed,    \* the changes SATOCHIP has signed
  outcome,   \* what each request has committed and not yet put in the handle
  accepted,  \* history: every policy_state row there has been
  answered,  \* history: the changes whose request was answered with success
  overtaken  \* history: since the last start, a change was committed before
             \* the handle had the one before it, or never reached the handle

history == <<accepted, answered, overtaken>>
vars    == <<state, up, handle, signed, outcome, history>>

Init ==
  /\ state = None /\ up = FALSE /\ handle = None
  /\ signed = {} /\ outcome = [r \in Request |-> None]
  /\ accepted = {} /\ answered = {} /\ overtaken = FALSE

-----------------------------------------------------------------------------
\* serde_json writes a fee rate cap that is not finite as null.
ToJson(p) == IF p \in Expressible THEN p ELSE Unreadable

\* load_or_seed_policy_state: the config's policy matters to the first start.
LoadOrSeed(p) ==
  IF state = None THEN [version |-> 1, policy |-> ToJson(p)] ELSE state

\* Mutants: the row is not parsed before the service is up; the handle is filled
\* from the config.
StartUnparsed(p) ==
  /\ ~up
  /\ LET s == LoadOrSeed(p) IN
       /\ state' = s /\ accepted' = accepted \cup {s}
       /\ up' = TRUE /\ handle' = s /\ overtaken' = FALSE
  /\ UNCHANGED <<signed, outcome, answered>>

StartFromConfig(p) ==
  /\ ~up
  /\ LET s == LoadOrSeed(p) IN
       /\ state' = s /\ accepted' = accepted \cup {s}
       /\ up' = TRUE /\ handle' = [version |-> s.version, policy |-> p]
       /\ overtaken' = FALSE
  /\ UNCHANGED <<signed, outcome, answered>>

\* cmd_serve with p in the config: the row is seeded before it is parsed, and a
\* row that does not parse ends the start.
Start(p) ==
  /\ ~up
  /\ LET s == LoadOrSeed(p) IN
       /\ state' = s /\ accepted' = accepted \cup {s}
       /\ IF s.policy = Unreadable
            THEN UNCHANGED <<up, handle, overtaken>>
            ELSE up' = TRUE /\ handle' = s /\ overtaken' = FALSE
  /\ UNCHANGED <<signed, outcome, answered>>

SignPolicy(c) ==
  /\ c \notin signed
  /\ signed' = signed \cup {c}
  /\ UNCHANGED <<state, up, handle, outcome, history>>

\* Mutants: the version is not checked; the signature is not.
AuthorizedAnyVersion(c) == c \in signed
AuthorizedUnsigned(c) == c.version = state.version + 1

\* The checks of apply_policy_change.
Authorized(c) == c.version = state.version + 1 /\ c \in signed

\* apply_policy_change for c, one transaction.  A change that is refused leaves
\* nothing behind.
Apply(r, c) ==
  /\ up /\ outcome[r] = None /\ Authorized(c)
  /\ state' = c /\ accepted' = accepted \cup {c}
  /\ outcome' = [outcome EXCEPT ![r] = c]
  /\ overtaken' = (overtaken \/ \E s \in Request : outcome[s] # None)
  /\ UNCHANGED <<up, handle, signed, answered>>

\* post_policy_handler writes the handle with what its own request committed,
\* and answers with it.
Swap(r) ==
  /\ outcome[r] # None
  /\ handle' = outcome[r]
  /\ outcome' = [outcome EXCEPT ![r] = None]
  /\ answered' = answered \cup {outcome[r]}
  /\ UNCHANGED <<state, up, signed, accepted, overtaken>>

\* The client hangs up while its request waits for the handle's lock.
Abandon(r) ==
  /\ outcome[r] # None
  /\ outcome' = [outcome EXCEPT ![r] = None]
  /\ overtaken' = TRUE
  /\ UNCHANGED <<state, up, handle, signed, accepted, answered>>

Crash ==
  /\ up /\ up' = FALSE
  /\ outcome' = [r \in Request |-> None]
  /\ UNCHANGED <<state, handle, signed, history>>

Next ==
  \/ \E p \in Policy : Start(p)
  \/ \E c \in Change : SignPolicy(c) \/ \E r \in Request : Apply(r, c)
  \/ \E r \in Request : Swap(r) \/ Abandon(r)
  \/ Crash

Spec == Init /\ [][Next]_vars

-----------------------------------------------------------------------------
\* An up service has a policy row and a handle that both parse.
TypeOK ==
  /\ state \in Versioned \cup {None} /\ handle \in Versioned \cup {None}
  /\ up \in BOOLEAN /\ overtaken \in BOOLEAN
  /\ up => state # None /\ handle # None /\ handle.policy # Unreadable
  /\ signed \subseteq Change
  /\ outcome \in [Request -> Change \cup {None}]
  /\ accepted \subseteq Versioned /\ answered \subseteq Change

\* A version is the same policy for good: no change replaces the one another
\* change made, replays an old one, or skips ahead, and no restart starts over.
VersionsAreFinal ==
  /\ \A c, d \in accepted : c.version = d.version => c = d
  /\ state # None => {c.version : c \in accepted} = 1 .. state.version

\* The policy that every handler goes by was, apart from the one the service
\* was set up with, signed for its own version.
PolicyInForceIsAuthorized ==
  up => handle \in accepted /\ (handle.version > 1 => handle \in signed)

\* Changes that wait for each other, from clients that wait for their answers,
\* are in force once they are answered and after every restart.
SerialChangesTakeEffect ==
  up /\ ~overtaken /\ (\A r \in Request : outcome[r] = None) => handle = state

\* The doc of post_policy_handler (http.rs): a change that succeeds is swapped
\* into what every other handler reads, from then on or until a later one is.
RunningPolicyIsCurrent ==
  up => \A c \in answered : c.version <= handle.version

=============================================================================
