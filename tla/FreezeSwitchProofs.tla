-------------------------- MODULE FreezeSwitchProofs --------------------------
(***************************************************************************)
(* For any number of requests and of freezes, an authorization lifts no     *)
(* other freeze than its own unless the later freeze found it under way.    *)
(***************************************************************************)
EXTENDS FreezeSwitch, TLAPS

\* A request has verified no generation that is still to come, and none older
\* than a freeze that found nothing under way.
RequestsAreCurrent ==
  \A r \in Request : req[r] # None =>
    /\ req[r] <= generation
    /\ \A g \in undisturbed : g <= req[r]

\* The histories speak of freezes there have been.
HistoryIsPast ==
  /\ \A g \in undisturbed : g <= generation
  /\ \A l \in lifted : l.freeze <= generation

Inv ==
  /\ TypeOK /\ RequestsAreCurrent /\ HistoryIsPast
  /\ OldAuthorizationsDoNotLift

\* Initially nothing was lifted and nothing is under way.
LEMMA InvInit == Init => Inv
<1> SUFFICES ASSUME Init PROVE Inv
  OBVIOUS
<1> USE FreezeAssumption DEF Init
<1>1. req \in [Request -> Nat \cup {None}]
  OBVIOUS
<1>2. generation = 0 /\ undisturbed \subseteq {0} /\ lifted = {}
  OBVIOUS
<1>3. TypeOK
  <2>1. frozen \in BOOLEAN /\ cli \in BOOLEAN
    BY Zenon
  <2>2. generation \in 0 .. MaxGeneration /\ signed \subseteq Nat
    BY <1>2
  <2>3. lifted \subseteq Lifting /\ undisturbed \subseteq Nat
    BY <1>2
  <2> QED
    BY ONLY <1>1, <2>1, <2>2, <2>3 DEF TypeOK
<1>4. RequestsAreCurrent
  BY DEF RequestsAreCurrent
<1>5. HistoryIsPast /\ OldAuthorizationsDoNotLift
  BY <1>2 DEF HistoryIsPast, OldAuthorizationsDoNotLift
<1> QED
  BY <1>3, <1>4, <1>5 DEF Inv

\* A freeze takes a generation of its own, which no history speaks of; the
\* freezes added to the undisturbed ones find no request to be compared with.
LEMMA FreezeKeepsInv == Inv /\ Freeze => Inv'
<1> SUFFICES ASSUME Inv, Freeze PROVE Inv'
  OBVIOUS
<1> USE FreezeAssumption DEF Inv, Freeze
<1>1. TypeOK'
  BY DEF TypeOK
<1>2. RequestsAreCurrent'
  <2> SUFFICES ASSUME NEW r \in Request, req[r] # None
               PROVE  /\ req[r] <= generation'
                      /\ \A g \in undisturbed' : g <= req[r]
    BY DEF RequestsAreCurrent
  <2>1. req[r] \in Nat /\ undisturbed' = undisturbed
    BY DEF TypeOK, Quiet
  <2> QED
    BY <2>1 DEF TypeOK, RequestsAreCurrent
<1>3. HistoryIsPast'
  BY DEF HistoryIsPast, TypeOK, Lifting
<1>4. OldAuthorizationsDoNotLift'
  <2> SUFFICES ASSUME NEW l \in lifted, l.freeze \in undisturbed'
               PROVE  l.by = l.freeze
    BY DEF OldAuthorizationsDoNotLift
  <2>1. l.freeze \in undisturbed
    BY DEF HistoryIsPast, TypeOK, Lifting
  <2> QED
    BY <2>1 DEF OldAuthorizationsDoNotLift
<1> QED
  BY <1>1, <1>2, <1>3, <1>4

\* What is verified is verified for the current generation.
LEMMA VerifyKeepsInv ==
  ASSUME Inv, NEW r \in Request, NEW g \in 0 .. generation, VerifyUnfreeze(r, g)
  PROVE  Inv'
<1> USE FreezeAssumption DEF Inv, VerifyUnfreeze, Authorized
<1>1. g \in Nat /\ g = generation
  BY DEF TypeOK
<1>2. TypeOK'
  BY <1>1 DEF TypeOK, row, history
<1>3. RequestsAreCurrent'
  <2> SUFFICES ASSUME NEW s \in Request, req'[s] # None
               PROVE  /\ req'[s] <= generation
                      /\ \A h \in undisturbed : h <= req'[s]
    BY DEF RequestsAreCurrent, row, history
  <2>1. CASE s = r
    BY <1>1, <2>1 DEF TypeOK, HistoryIsPast
  <2>2. CASE s # r
    BY <2>2 DEF TypeOK, RequestsAreCurrent
  <2> QED
    BY <2>1, <2>2
<1>4. HistoryIsPast' /\ OldAuthorizationsDoNotLift'
  BY DEF HistoryIsPast, OldAuthorizationsDoNotLift, row, history
<1> QED
  BY <1>2, <1>3, <1>4

\* A request lifts the current freeze.  If that one is undisturbed, what was
\* verified is no older than it, and nothing is verified before its time.
LEMMA LiftKeepsInv ==
  ASSUME Inv, NEW r \in Request, LiftFreeze(r)
  PROVE  Inv'
<1> USE FreezeAssumption DEF Inv, LiftFreeze
<1> DEFINE l == [by |-> req[r], freeze |-> generation]
<1>1. req[r] \in Nat /\ generation \in Nat /\ req[r] <= generation
  BY DEF TypeOK, RequestsAreCurrent
<1>2. l \in Lifting
  BY <1>1 DEF Lifting
<1>3. l.freeze \in undisturbed => l.by = l.freeze
  BY <1>1 DEF RequestsAreCurrent
<1>4. lifted' \subseteq lifted \cup {l}
  OBVIOUS
<1> HIDE DEF l
<1>5. TypeOK'
  BY <1>2, <1>4 DEF TypeOK
<1>6. RequestsAreCurrent'
  BY DEF TypeOK, RequestsAreCurrent
<1>7. HistoryIsPast'
  BY <1>1, <1>4 DEF HistoryIsPast, l
<1>8. OldAuthorizationsDoNotLift'
  BY <1>3, <1>4 DEF OldAuthorizationsDoNotLift
<1> QED
  BY <1>5, <1>6, <1>7, <1>8

\* The other steps verify and lift nothing through the API.
LEMMA OthersKeepInv ==
  ASSUME Inv,
         \/ \E g \in 0 .. generation : SignUnfreeze(g)
         \/ \E r \in Request : Abandon(r)
         \/ CliCheck \/ CliLift \/ Restart \/ UNCHANGED vars
  PROVE  Inv'
<1> USE FreezeAssumption DEF Inv, row, history
<1>1. ASSUME NEW g \in 0 .. generation, SignUnfreeze(g) PROVE Inv'
  BY <1>1 DEF SignUnfreeze, TypeOK, RequestsAreCurrent, HistoryIsPast,
              OldAuthorizationsDoNotLift
<1>2. ASSUME NEW r \in Request, Abandon(r) PROVE Inv'
  BY <1>2 DEF Abandon, TypeOK, RequestsAreCurrent, HistoryIsPast,
              OldAuthorizationsDoNotLift
<1>3. CASE CliCheck \/ CliLift \/ Restart
  BY <1>3 DEF CliCheck, CliLift, Restart, TypeOK, RequestsAreCurrent,
              HistoryIsPast, OldAuthorizationsDoNotLift
<1>4. CASE UNCHANGED vars
  BY <1>4 DEF vars, TypeOK, RequestsAreCurrent, HistoryIsPast,
              OldAuthorizationsDoNotLift
<1> QED
  BY <1>1, <1>2, <1>3, <1>4

LEMMA InvHolds == Spec => []Inv
<1>1. Inv /\ [Next]_vars => Inv'
  <2> SUFFICES ASSUME Inv, [Next]_vars PROVE Inv'
    OBVIOUS
  <2>1. CASE Freeze
    BY <2>1, FreezeKeepsInv
  <2>2. CASE \E r \in Request, g \in 0 .. generation : VerifyUnfreeze(r, g)
    BY <2>2, VerifyKeepsInv
  <2>3. CASE \E r \in Request : LiftFreeze(r)
    BY <2>3, LiftKeepsInv
  <2> QED
    BY <2>1, <2>2, <2>3, OthersKeepInv DEF Next
<1> QED
  BY InvInit, <1>1, PTL DEF Spec

\* The types, for any number of freezes and requests.
THEOREM FreezeTypesHold == Spec => []TypeOK
<1>1. Inv => TypeOK
  BY DEF Inv
<1> QED
  BY <1>1, InvHolds, PTL

\* A freeze that no unfreeze was under way for is lifted through the API only by
\* a signature over its own generation (POST /unfreeze, http.rs).
THEOREM FreezesAreNotReplayed == Spec => []OldAuthorizationsDoNotLift
<1>1. Inv => OldAuthorizationsDoNotLift
  BY DEF Inv
<1> QED
  BY <1>1, InvHolds, PTL

=============================================================================
