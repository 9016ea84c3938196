--------------------------- MODULE PolicyAuthProofs ---------------------------
(***************************************************************************)
(* For any policies, changes, requests and crashes: what a version stands    *)
(* for is final, and nobody goes by a policy that was not authorized.       *)
(***************************************************************************)
EXTENDS PolicyAuth, TLAPS

\* The row is the last of the rows there have been.
RowIsAccepted ==
  IF state = None THEN accepted = {} ELSE state \in accepted

\* Every change but the seed was signed.
AcceptedAreSigned ==
  \A c \in accepted : c.version > 1 => c \in signed

\* What a request is to put in the handle has been accepted, and so has what
\* it put there.
HandleIsAccepted ==
  /\ up => handle \in accepted
  /\ \A r \in Request : outcome[r] # None => up /\ outcome[r] \in accepted

\* Until a change is overtaken, one request at most has an outcome, which is
\* the row; without one the handle is the row already.
OneAtATime ==
  up /\ ~overtaken =>
    /\ \A r \in Request : outcome[r] # None => outcome[r] = state
    /\ \A r, s \in Request : outcome[r] # None /\ outcome[s] # None => r = s
    /\ (\A r \in Request : outcome[r] = None) => handle = state

Inv ==
  /\ TypeOK /\ VersionsAreFinal /\ RowIsAccepted /\ AcceptedAreSigned
  /\ HandleIsAccepted /\ OneAtATime

\* Nothing has happened.
LEMMA InvInit == Init => Inv
<1> SUFFICES ASSUME Init PROVE Inv
  OBVIOUS
<1> USE DEF Init
<1>1. TypeOK
  BY DEF TypeOK
<1>2. VersionsAreFinal /\ RowIsAccepted /\ AcceptedAreSigned
  BY DEF VersionsAreFinal, RowIsAccepted, AcceptedAreSigned
<1>3. HandleIsAccepted /\ OneAtATime
  BY DEF HandleIsAccepted, OneAtATime
<1> QED
  BY <1>1, <1>2, <1>3 DEF Inv

\* A row with a new version can be accepted after the one in force.
LEMMA NextVersionIsFinal ==
  ASSUME VersionsAreFinal, TypeOK, state # None,
         NEW c \in Versioned, c.version = state.version + 1
  PROVE  /\ \A d, e \in accepted \cup {c} : d.version = e.version => d = e
         /\ {d.version : d \in accepted \cup {c}} = 1 .. c.version
<1>1. /\ state.version \in Nat
      /\ {d.version : d \in accepted} = 1 .. state.version
  BY PolicyAssumption DEF VersionsAreFinal, TypeOK, Versioned
<1>2. \A d \in accepted : d.version \in 1 .. state.version
  BY <1>1
<1>3. \A d \in accepted : d.version # c.version
  BY <1>1, <1>2
<1>4. {d.version : d \in accepted \cup {c}}
        = {d.version : d \in accepted} \cup {c.version}
  OBVIOUS
<1>5. (1 .. state.version) \cup {c.version} = 1 .. c.version
  BY <1>1
<1> QED
  BY <1>1, <1>3, <1>4, <1>5 DEF VersionsAreFinal

\* A start accepts the row it seeds and otherwise finds the row there is; the
\* handle is that row.
LEMMA StartKeepsInv ==
  ASSUME Inv, NEW p \in Policy, Start(p)
  PROVE  Inv'
<1> USE DEF Inv
<1> DEFINE s == LoadOrSeed(p)
<1>1. s \in Versioned
  BY PolicyAssumption DEF LoadOrSeed, ToJson, TypeOK, Versioned
<1>2. /\ state' = s /\ accepted' = accepted \cup {s}
      /\ \/ s.policy = Unreadable /\ UNCHANGED <<up, handle, overtaken>>
         \/ s.policy # Unreadable /\ up' = TRUE /\ handle' = s
            /\ overtaken' = FALSE
      /\ UNCHANGED <<signed, outcome, answered>> /\ ~up
  BY DEF Start
<1>3. IF state = None THEN accepted = {} /\ s.version = 1
                      ELSE s = state /\ s \in accepted
  BY DEF LoadOrSeed, RowIsAccepted
<1> HIDE DEF s
<1>4. s # None
  BY <1>1, NoneAssumption
<1>5. TypeOK'
  <2>1. CASE s.policy = Unreadable
    BY <1>1, <1>2, <2>1 DEF TypeOK
  <2>2. CASE s.policy # Unreadable
    BY <1>1, <1>2, <1>4, <2>2 DEF TypeOK
  <2> QED
    BY <2>1, <2>2
<1>6. VersionsAreFinal'
  <2>1. CASE state = None
    <3>1. accepted' = {s} /\ state' = s /\ s.version = 1
      BY <1>2, <1>3, <2>1
    <3>2. {c.version : c \in accepted'} = 1 .. 1
      BY <3>1
    <3> QED
      BY <3>1, <3>2 DEF VersionsAreFinal
  <2>2. CASE state # None
    BY <1>2, <1>3, <2>2 DEF VersionsAreFinal
  <2> QED
    BY <2>1, <2>2
<1>7. RowIsAccepted' /\ AcceptedAreSigned'
  BY <1>2, <1>3, <1>4 DEF RowIsAccepted, AcceptedAreSigned
<1>8. HandleIsAccepted'
  BY <1>2 DEF HandleIsAccepted
<1>9. OneAtATime'
  BY <1>2 DEF OneAtATime, HandleIsAccepted
<1> QED
  BY <1>5, <1>6, <1>7, <1>8, <1>9

\* A change that is applied has the next version and is signed.
LEMMA ApplyKeepsInv ==
  ASSUME Inv, NEW r \in Request, NEW c \in Change, Apply(r, c)
  PROVE  Inv'
<1> USE DEF Inv, Apply, Authorized
<1>1. c \in Versioned /\ c # None
  BY PolicyAssumption, NoneAssumption DEF Change, Versioned
<1>2. up /\ state # None
  BY DEF TypeOK
<1>3. TypeOK'
  BY <1>1, <1>2 DEF TypeOK
<1>4. VersionsAreFinal'
  BY <1>1, <1>2, NextVersionIsFinal DEF VersionsAreFinal
<1>5. RowIsAccepted' /\ AcceptedAreSigned'
  BY <1>1 DEF RowIsAccepted, AcceptedAreSigned
<1>6. HandleIsAccepted'
  BY DEF HandleIsAccepted, TypeOK
<1>7. OneAtATime'
  <2> SUFFICES ASSUME up', ~overtaken' PROVE OneAtATime'
    BY DEF OneAtATime
  <2>1. ~overtaken /\ \A s \in Request : outcome[s] = None
    OBVIOUS
  <2>2. \A s \in Request : outcome'[s] = IF s = r THEN c ELSE None
    BY <2>1 DEF TypeOK
  <2> QED
    BY <1>1, <2>2 DEF OneAtATime
<1> QED
  BY <1>3, <1>4, <1>5, <1>6, <1>7

\* A request puts in the handle what it had accepted.
LEMMA SwapKeepsInv ==
  ASSUME Inv, NEW r \in Request, Swap(r)
  PROVE  Inv'
<1> USE DEF Inv, Swap
<1>1. outcome[r] \in Change /\ outcome[r] \in accepted /\ up
  BY DEF TypeOK, HandleIsAccepted
<1>2. \A s \in Request : outcome'[s] = IF s = r THEN None ELSE outcome[s]
  BY DEF TypeOK
<1>3. TypeOK'
  <2>1. outcome[r] \in Versioned /\ outcome[r].policy # Unreadable
    BY <1>1, PolicyAssumption DEF Change, Versioned
  <2>2. outcome[r] # None
    OBVIOUS
  <2>3. outcome' \in [Request -> Change \cup {None}]
    BY DEF TypeOK
  <2> QED
    BY <1>1, <2>1, <2>2, <2>3 DEF TypeOK
<1>4. VersionsAreFinal' /\ RowIsAccepted' /\ AcceptedAreSigned'
  BY DEF VersionsAreFinal, RowIsAccepted, AcceptedAreSigned
<1>5. HandleIsAccepted'
  BY <1>1, <1>2 DEF HandleIsAccepted
<1>6. OneAtATime'
  BY <1>1, <1>2 DEF OneAtATime
<1> QED
  BY <1>3, <1>4, <1>5, <1>6

\* The other steps accept nothing and leave the handle alone.
LEMMA OthersKeepInv ==
  ASSUME Inv,
         \/ \E c \in Change : SignPolicy(c)
         \/ \E r \in Request : Abandon(r)
         \/ Crash \/ UNCHANGED vars
  PROVE  Inv'
<1> USE DEF Inv, history
<1>1. ASSUME NEW c \in Change, SignPolicy(c) PROVE Inv'
  BY <1>1 DEF SignPolicy, TypeOK, VersionsAreFinal, RowIsAccepted,
              AcceptedAreSigned, HandleIsAccepted, OneAtATime
<1>2. ASSUME NEW r \in Request, Abandon(r) PROVE Inv'
  <2> USE <1>2 DEF Abandon
  <2>1. outcome' \in [Request -> Change \cup {None}]
    BY DEF TypeOK
  <2>2. \A s \in Request : outcome'[s] = None \/ outcome'[s] = outcome[s]
    BY DEF TypeOK
  <2>3. TypeOK'
    BY <2>1 DEF TypeOK
  <2>4. VersionsAreFinal' /\ RowIsAccepted' /\ AcceptedAreSigned'
    BY DEF VersionsAreFinal, RowIsAccepted, AcceptedAreSigned
  <2>5. HandleIsAccepted' /\ OneAtATime'
    BY <2>2 DEF HandleIsAccepted, OneAtATime
  <2> QED
    BY <2>3, <2>4, <2>5
<1>3. CASE Crash
  <2> USE <1>3 DEF Crash
  <2>1. TypeOK'
    BY DEF TypeOK
  <2>2. VersionsAreFinal' /\ RowIsAccepted' /\ AcceptedAreSigned'
    BY DEF VersionsAreFinal, RowIsAccepted, AcceptedAreSigned
  <2>3. HandleIsAccepted' /\ OneAtATime'
    BY DEF HandleIsAccepted, OneAtATime
  <2> QED
    BY <2>1, <2>2, <2>3
<1>4. CASE UNCHANGED vars
  BY <1>4 DEF vars, TypeOK, VersionsAreFinal, RowIsAccepted,
              AcceptedAreSigned, HandleIsAccepted, OneAtATime
<1> QED
  BY <1>1, <1>2, <1>3, <1>4

\* Inv is an invariant.
THEOREM InvHolds == Spec => []Inv
<1>1. Inv /\ [Next]_vars => Inv'
  <2> SUFFICES ASSUME Inv, [Next]_vars PROVE Inv'
    OBVIOUS
  <2>1. CASE \E p \in Policy : Start(p)
    BY <2>1, StartKeepsInv
  <2>2. CASE \E c \in Change, r \in Request : Apply(r, c)
    BY <2>2, ApplyKeepsInv
  <2>3. CASE \E r \in Request : Swap(r)
    BY <2>3, SwapKeepsInv
  <2> QED
    BY <2>1, <2>2, <2>3, OthersKeepInv DEF Next
<1> QED
  BY InvInit, <1>1, PTL DEF Spec

\* The types, for any policies, requests and restarts.
THEOREM PolicyTypesHold == Spec => []TypeOK
<1>1. Inv => TypeOK
  BY DEF Inv
<1> QED
  BY <1>1, InvHolds, PTL

\* A version of the policy stands for one policy for good, whatever requests
\* race for it and whatever config the service is restarted with.
THEOREM VersionsNeverChange == Spec => []VersionsAreFinal
<1>1. Inv => VersionsAreFinal
  BY DEF Inv
<1> QED
  BY <1>1, InvHolds, PTL

\* The handlers go by a policy that is the seed or was signed for its version.
THEOREM OnlyAuthorizedPolicies == Spec => []PolicyInForceIsAuthorized
<1>1. Inv => PolicyInForceIsAuthorized
  BY DEF Inv, HandleIsAccepted, AcceptedAreSigned, PolicyInForceIsAuthorized
<1> QED
  BY <1>1, InvHolds, PTL

\* Changes that nothing overtook and that reached the handle are in force.
THEOREM ChangesTakeEffect == Spec => []SerialChangesTakeEffect
<1>1. Inv => SerialChangesTakeEffect
  BY DEF Inv, OneAtATime, SerialChangesTakeEffect
<1> QED
  BY <1>1, InvHolds, PTL

=============================================================================
