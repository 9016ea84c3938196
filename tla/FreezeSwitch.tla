----------------------------- MODULE FreezeSwitch -----------------------------
(***************************************************************************)
(* The freeze kill-switch: the freeze_state row of the ledger (ledger.rs),  *)
(* the unauthenticated POST /freeze, the SATOCHIP-authorized POST /unfreeze  *)
(* (http.rs, policy_auth.rs) and the `cosigner unfreeze` command, a process *)
(* of its own on the same database (main.rs).                               *)
(*                                                                          *)
(* A signature over canonical_unfreeze_message(g) is known by its g.  What  *)
(* matters is that POST /unfreeze reads the generation and verifies the     *)
(* signature in one step, and lifts the freeze in another.                  *)
(***************************************************************************)
EXTENDS Integers

CONSTANTS
  Request,        \* concurrent POST /unfreeze requests
  MaxGeneration,  \* bound on the freezes
  None            \* no request in flight

ASSUME FreezeAssumption == MaxGeneration \in Nat /\ None \notin Nat

VARIABLES
  frozen, generation,  \* the freeze_state row; it is absent while neither was
                       \* ever set, which reads as not frozen, generation 0
  signed,       \* the generations SATOCHIP has signed an unfreeze message for
  req,          \* the generation each request has verified a signature for
  cli,          \* whether `cosigner unfreeze` has found the service frozen
  lifted,       \* history: which freeze each authorization lifted
  undisturbed   \* history: freezes that found no unfreeze under way

row     == <<frozen, generation>>
history == <<lifted, undisturbed>>
vars    == <<row, signed, req, cli, history>>

Lifting == [by : Nat, freeze : Nat]

\* The migration that added the generation gave a row that was frozen already
\* generation 0.
Init ==
  /\ frozen \in BOOLEAN /\ generation = 0
  /\ signed = {} /\ req = [r \in Request |-> None] /\ cli = FALSE
  /\ lifted = {}
  /\ undisturbed = IF frozen THEN {0} ELSE {}

Quiet == cli = FALSE /\ \A r \in Request : req[r] = None

-----------------------------------------------------------------------------
\* Every freeze bumps the generation, whether or not one is in force.
Freeze ==
  /\ generation < MaxGeneration
  /\ frozen' = TRUE /\ generation' = generation + 1
  /\ undisturbed' = IF Quiet THEN undisturbed \cup {generation'}
                    ELSE undisturbed
  /\ UNCHANGED <<signed, req, cli, lifted>>

\* The owner signs the message for a generation GET /freeze has shown.
SignUnfreeze(g) ==
  /\ g \notin signed
  /\ signed' = signed \cup {g}
  /\ UNCHANGED <<row, req, cli, history>>

\* Mutant: the message is not bound to a generation.
AuthorizedUnbound(g) == g \in signed

\* verify_unfreeze_authorization: the message is recomputed for the generation
\* that is current, so a signature for another one verifies as nobody's.
Authorized(g) == g \in signed /\ g = generation

\* POST /unfreeze with the signature for g.  One that does not verify is
\* answered with nothing done.
VerifyUnfreeze(r, g) ==
  /\ req[r] = None /\ Authorized(g)
  /\ req' = [req EXCEPT ![r] = g]
  /\ UNCHANGED <<row, signed, cli, history>>

\* Mutant: lifting a freeze advances the generation as well.
LiftFreezeAdvances(r) ==
  /\ req[r] # None
  /\ frozen' = FALSE /\ generation' = generation + 1
  /\ req' = [req EXCEPT ![r] = None]
  /\ UNCHANGED <<signed, cli, history>>

\* Neither the generation nor the freeze is read again.
LiftFreeze(r) ==
  /\ req[r] # None
  /\ frozen' = FALSE
  /\ lifted' = IF frozen
                 THEN lifted \cup {[by |-> req[r], freeze |-> generation]}
                 ELSE lifted
  /\ req' = [req EXCEPT ![r] = None]
  /\ UNCHANGED <<generation, signed, cli, undisturbed>>

\* The client hangs up or the ledger returns an error.
Abandon(r) ==
  /\ req[r] # None
  /\ req' = [req EXCEPT ![r] = None]
  /\ UNCHANGED <<row, signed, cli, history>>

CliCheck ==
  /\ frozen /\ cli' = TRUE
  /\ UNCHANGED <<row, signed, req, history>>

CliLift ==
  /\ cli /\ cli' = FALSE
  /\ frozen' = FALSE
  /\ UNCHANGED <<generation, signed, req, history>>

\* The service dies and comes back: the row survives, requests do not.
Restart ==
  /\ req' = [r \in Request |-> None]
  /\ UNCHANGED <<row, signed, cli, history>>

Next ==
  \/ Freeze
  \/ \E g \in 0 .. generation :
       SignUnfreeze(g) \/ \E r \in Request : VerifyUnfreeze(r, g)
  \/ \E r \in Request : LiftFreeze(r) \/ Abandon(r)
  \/ CliCheck \/ CliLift \/ Restart

Spec == Init /\ [][Next]_vars

-----------------------------------------------------------------------------
\* The generation counts the freezes, and nothing else moves it.
TypeOK ==
  /\ frozen \in BOOLEAN /\ generation \in 0 .. MaxGeneration
  /\ signed \subseteq Nat
  /\ req \in [Request -> Nat \cup {None}]
  /\ cli \in BOOLEAN
  /\ lifted \subseteq Lifting /\ undisturbed \subseteq Nat

\* A freeze that no unfreeze was under way for is lifted through the API only by
\* a signature over its own generation: signatures for earlier freezes, however
\* often they are sent again and through whatever restarts, do not lift it.
OldAuthorizationsDoNotLift ==
  \A l \in lifted : l.freeze \in undisturbed => l.by = l.freeze

=============================================================================
