----------------------------- MODULE SetupProofs ------------------------------
(***************************************************************************)
(* The wallet finish has answered with, or import has restored, stays and   *)
(* boots, nothing is served that nobody agreed to, and a fetch finds the    *)
(* last kit: for every number of tabs and relays, every form, script and    *)
(* environment.                                                             *)
(***************************************************************************)
EXTENDS RecoveryKit, SequenceTheorems, FiniteSetTheorems, TLAPS

-----------------------------------------------------------------------------
(* The inductive invariant. *)

TabShape ==
  tab = [t \in Tab |-> [pc |-> tab[t].pc, form |-> tab[t].form,
                        text |-> tab[t].text]]

\* The wizard runs in a container only, where nobody puts a key file by hand.
WizardInContainer == mode = "setup" => env.container

\* A finish between its two writes: no wallet stands, and while there is no
\* wallet.toml the key file is the one it has written.
BetweenWrites ==
  \A t \in Tab : tab[t].pc = "toml" =>
    /\ standing = {}
    /\ toml = NoFile => xprv = KeyFile(TRUE)

\* An import between its two writes.
BetweenImports ==
  /\ op \in {"import_config", "import_key"} => kit # NoKit
  /\ op = "import_key" =>
       toml # NoFile /\ (toml.by = "import" => toml.text = kit.text)

\* A kit that was taken of a standing pair has the whole key.
KitOK(k) ==
  k # NoKit =>
    k.key \in Key /\ k.whole \in BOOLEAN /\ (k.stands => k.whole)

KitsOK == KitOK(kit) /\ \A r \in Relay : KitOK(relays[r].kit)

SetupInv ==
  /\ TypeOK /\ AnsweredWalletStands
  /\ TabShape /\ WizardInContainer /\ BetweenWrites /\ BetweenImports /\ KitsOK

-----------------------------------------------------------------------------
\* Nothing on the disk is not something, and no key is absent.
LEMMA Absence ==
  /\ \A text, by : by # "nobody" => [text |-> text, by |-> by] # NoFile
  /\ \A k, whole, by :
       by # "nobody" => [key |-> k, whole |-> whole, by |-> by] # NoKey
  /\ Nothing \notin FreshKey /\ FreshKey \subseteq Key
BY ConfigAssumption, SetupAssumption DEF NoFile, NoKey

LEMMA SetupInvInit == Init => SetupInv
<1> SUFFICES ASSUME Init PROVE SetupInv
  OBVIOUS
<1> USE DEF Init, SetupInit
<1>1. TypeOK
  BY DEF TypeOK, Idle
<1>2. AnsweredWalletStands
  BY DEF AnsweredWalletStands
<1>3. TabShape
  BY DEF TabShape, Idle
<1>4. WizardInContainer /\ BetweenWrites /\ BetweenImports
  BY DEF WizardInContainer, BetweenWrites, BetweenImports, Idle
<1>5. KitsOK
  BY DEF KitsOK, KitOK, NoEvent
<1> QED BY <1>1, <1>2, <1>3, <1>4, <1>5 DEF SetupInv
-----------------------------------------------------------------------------
(* The wizard's steps. *)

\* A process that ends takes its requests with it.
LEMMA EndKeeps ==
  ASSUME SetupInv, Ended, UNCHANGED <<env, history, kits>>,
         \/ UNCHANGED files
         \/ standing = {} /\ xprv = NoKey
            /\ xprv' = KeyFile(FALSE) /\ generated \in FreshKey
            /\ UNCHANGED toml
         \/ standing = {} /\ toml = NoFile /\ UNCHANGED xprv
            /\ toml'.by = "setup"
  PROVE  SetupInv'
<1> USE DEF SetupInv, files, history, kits, nostr
<1>1. \A t \in Tab : tab'[t] = Idle
  BY DEF Ended
<1>2. TypeOK'
  <2>1. xprv' # NoKey => xprv'.key \in Key /\ xprv'.whole \in BOOLEAN
    <3>1. CASE xprv' = xprv
      BY <3>1 DEF TypeOK
    <3>2. CASE xprv' = KeyFile(FALSE) /\ generated \in FreshKey
      <4>1. xprv'.key = generated
        BY <3>2 DEF KeyFile
      <4>2. xprv'.whole = FALSE
        BY <3>2, Zenon DEF KeyFile
      <4> QED BY <3>2, <4>1, <4>2, Absence
    <3> QED BY <3>1, <3>2
  <2>2. /\ mode' = "down" /\ leaving' = FALSE /\ serving' = NoFile
        /\ generated' = Nothing
        /\ \A t \in Tab : tab'[t].pc = "idle"
    BY <1>1 DEF Ended, Idle
  <2>3. op' = op /\ made' = made
    OBVIOUS
  <2> QED BY <2>1, <2>2, <2>3 DEF TypeOK
<1>3. AnsweredWalletStands'
  BY DEF AnsweredWalletStands
<1>4. TabShape'
  BY <1>1 DEF TabShape, Ended, Idle
<1>5. WizardInContainer' /\ BetweenWrites'
  BY <1>1 DEF WizardInContainer, BetweenWrites, Ended, Idle
<1>6. BetweenImports'
  BY DEF BetweenImports, NoFile
<1>7. KitsOK'
  BY DEF KitsOK, KitOK
<1> QED BY <1>2, <1>3, <1>4, <1>5, <1>6, <1>7

\* A step of a process that leaves the files, and the finishes past the lock.
LEMMA ProcessKeeps ==
  ASSUME SetupInv, UNCHANGED <<files, standing, kits>>,
         TabShape', WizardInContainer', TypeOK',
         \A t \in Tab : tab'[t].pc = "toml" =>
                          tab[t].pc = "toml" /\ generated' = generated
  PROVE  SetupInv'
<1> USE DEF SetupInv, files, kits, nostr
<1>1. AnsweredWalletStands' /\ BetweenImports' /\ KitsOK'
  BY DEF AnsweredWalletStands, BetweenImports, KitsOK, KitOK
<1>2. BetweenWrites'
  BY DEF BetweenWrites, KeyFile
<1> QED BY <1>1, <1>2

LEMMA StartKeeps ==
  ASSUME SetupInv, UNCHANGED kits,
         \/ StartSetup \/ StartServe \/ StartEnds \/ Reconfigure
         \/ server_key \/ start
  PROVE  SetupInv'
<1> USE DEF files, process, history
<1>1. TabShape' /\ \A t \in Tab : tab'[t] = tab[t]
  BY DEF SetupInv, TabShape, StartSetup, StartServe, StartEnds, Reconfigure,
         server_key, start
<1>2. WizardInContainer'
  BY DEF SetupInv, WizardInContainer, StartSetup, StartServe, StartEnds,
         Reconfigure, server_key, start
<1>3. TypeOK'
  <2>1. CASE StartSetup \/ StartServe \/ StartEnds \/ Reconfigure \/ start
    BY <2>1, <1>1 DEF SetupInv, TypeOK, StartSetup, StartServe, StartEnds,
         Reconfigure, start, kits
  <2>2. CASE server_key
    BY <2>2, <1>1 DEF SetupInv, TypeOK, server_key, LockFree, kits
  <2> QED BY <2>1, <2>2
<1>4. UNCHANGED <<files, standing>>
  BY DEF StartSetup, StartServe, StartEnds, Reconfigure, server_key, start
<1>5. \A t \in Tab : tab'[t].pc = "toml" => generated' = generated
  BY <1>1 DEF StartSetup, StartServe, StartEnds, Reconfigure, server_key, start,
              LockFree
<1> QED BY <1>1, <1>2, <1>3, <1>4, <1>5, ProcessKeeps

\* Up to its first write a finish has only itself to change.
LEMMA FinishStarts ==
  ASSUME SetupInv, UNCHANGED kits, NEW t \in Tab,
         \/ \E form \in Requests : finish_check(t, form)
         \/ finish_render(t)
  PROVE  SetupInv'
<1> USE DEF files, process, history
<1>1. PICK pc \in {"idle", "check", "key"} :
        /\ \E form, text :
             tab' = [tab EXCEPT ![t] =
                       [pc |-> pc, form |-> form, text |-> text]]
        /\ pc # "idle" => mode = "setup"
        /\ pc = "key" => generated # Nothing /\ LockFree
        /\ tab[t].pc # "toml"
  <2>1. CASE \E form \in Requests : finish_check(t, form)
    <3>1. PICK form \in Requests : finish_check(t, form)
      BY <2>1
    <3>2. tab' = [tab EXCEPT ![t] =
                    [pc |-> "check", form |-> form, text |-> Garbled]]
      BY <3>1 DEF finish_check
    <3>3. mode = "setup" /\ tab[t].pc = "idle"
      BY <3>1 DEF finish_check
    <3> QED BY <3>2, <3>3
  <2>2. CASE finish_render(t)
    <3>1. PICK text :
            tab' = [tab EXCEPT ![t] =
                      IF FinishAccepts(tab[t].form, text)
                      THEN [pc |-> "key", form |-> Nothing, text |-> text]
                      ELSE Idle]
      BY <2>2 DEF finish_render
    <3>2. tab[t].pc = "check" /\ LockFree /\ mode = "setup"
      BY <2>2 DEF finish_render, SetupInv, TypeOK
    <3>3. CASE FinishAccepts(tab[t].form, text)
      <4>1. generated # Nothing
        BY <3>3 DEF FinishAccepts
      <4>2. tab' = [tab EXCEPT ![t] =
                      [pc |-> "key", form |-> Nothing, text |-> text]]
        BY <3>1, <3>3
      <4> QED BY <3>2, <4>1, <4>2
    <3>4. CASE ~FinishAccepts(tab[t].form, text)
      BY <3>1, <3>2, <3>4 DEF Idle
    <3> QED BY <3>3, <3>4
  <2> QED BY <2>1, <2>2
<1>2. PICK form, text :
        tab' = [tab EXCEPT ![t] = [pc |-> pc, form |-> form, text |-> text]]
  BY <1>1
<1>3. /\ \A u \in Tab \ {t} : tab'[u] = tab[u]
      /\ tab'[t] = [pc |-> pc, form |-> form, text |-> text]
      /\ TabShape'
  BY <1>2 DEF SetupInv, TabShape
<1>4. UNCHANGED <<files, standing, env, mode, generated, leaving, serving,
                  made>>
  BY DEF finish_check, finish_render
<1>5. tab'[t].pc = pc
  BY <1>3
<1>6. WizardInContainer'
  BY <1>4 DEF SetupInv, WizardInContainer
<1>7. TypeOK'
  BY <1>1, <1>3, <1>4, <1>5 DEF SetupInv, TypeOK, LockFree, kits
<1>8. \A u \in Tab : tab'[u].pc = "toml" =>
                       tab[u].pc = "toml" /\ generated' = generated
  BY <1>3, <1>4, <1>5
<1> QED BY <1>3, <1>4, <1>6, <1>7, <1>8, ProcessKeeps

\* What a step of a finish past the lock does to its tab.
LEMMA TabSteps ==
  ASSUME SetupInv, NEW t \in Tab, NEW pc,
         \/ tab' = [tab EXCEPT ![t].pc = pc]
         \/ tab' = [tab EXCEPT ![t] = Idle] /\ pc = "idle"
  PROVE  /\ \A u \in Tab \ {t} : tab'[u] = tab[u]
         /\ tab'[t].pc = pc
         /\ TabShape'
<1>1. CASE tab' = [tab EXCEPT ![t].pc = pc]
  <2>1. tab' = [tab EXCEPT ![t] =
                  [pc |-> pc, form |-> tab[t].form, text |-> tab[t].text]]
    <3> DEFINE old == [pc |-> tab[t].pc, form |-> tab[t].form,
                       text |-> tab[t].text]
    <3>1. tab[t] = old
      BY DEF SetupInv, TabShape
    <3>2. [old EXCEPT !.pc = pc]
            = [pc |-> pc, form |-> tab[t].form, text |-> tab[t].text]
      OBVIOUS
    <3>3. tab' = [tab EXCEPT ![t] = [tab[t] EXCEPT !.pc = pc]]
      BY <1>1
    <3> HIDE DEF old
    <3> QED BY <3>1, <3>2, <3>3
  <2> QED BY <2>1 DEF SetupInv, TabShape
<1>2. CASE tab' = [tab EXCEPT ![t] = Idle] /\ pc = "idle"
  BY <1>2 DEF SetupInv, TabShape, Idle
<1> QED BY <1>1, <1>2

\* The type invariant when a finish past the lock has moved.
LEMMA TypesOfFinish ==
  ASSUME SetupInv, UNCHANGED <<mode, leaving, serving, made, op>>,
         NEW t \in Tab, tab[t].pc \in {"key", "toml"},
         \A u \in Tab \ {t} : tab'[u] = tab[u],
         tab'[t].pc \in {"idle", "toml"},
         \/ generated' = generated
         \/ generated' = Nothing /\ tab'[t].pc = "idle",
         \/ xprv' = xprv \/ xprv' = NoKey
         \/ xprv' = KeyFile(TRUE) \/ xprv' = KeyFile(FALSE)
  PROVE  TypeOK'
<1>1. generated \in FreshKey /\ generated \in Key
  BY Absence DEF SetupInv, TypeOK
<1>2. xprv' # NoKey => xprv'.key \in Key /\ xprv'.whole \in BOOLEAN
  <2>1. CASE xprv' = xprv \/ xprv' = NoKey
    BY <2>1 DEF SetupInv, TypeOK
  <2>2. CASE \E whole \in BOOLEAN : xprv' = KeyFile(whole)
    <3>1. PICK whole \in BOOLEAN : xprv' = KeyFile(whole)
      BY <2>2
    <3>2. xprv'.key = generated
      BY <3>1 DEF KeyFile
    <3>3. xprv'.whole = whole
      BY <3>1, Zenon DEF KeyFile
    <3> QED BY <1>1, <3>2, <3>3
  <2> QED BY <2>1, <2>2
<1>3. \A u \in Tab \ {t} : tab[u].pc \notin {"key", "toml"}
  BY DEF SetupInv, TypeOK
<1>4. generated' \in FreshKey \cup {Nothing}
  BY <1>1
<1>5. \A u \in Tab :
        /\ tab'[u].pc \in {"idle", "check", "key", "toml"}
        /\ tab'[u].pc # "idle" => mode' = "setup"
        /\ tab'[u].pc \in {"key", "toml"} =>
             generated' # Nothing
             /\ \A v \in Tab \ {u} : tab'[v].pc \notin {"key", "toml"}
  BY <1>1, <1>3, Absence DEF SetupInv, TypeOK
<1> QED BY <1>2, <1>4, <1>5 DEF SetupInv, TypeOK

LEMMA WriteKeyKeeps ==
  ASSUME SetupInv, UNCHANGED kits, NEW t \in Tab,
         write_key(t) \/ write_key_fails(t)
  PROVE  SetupInv'
<1> USE DEF kits
<1>1. /\ tab[t].pc = "key"
      /\ UNCHANGED <<env, toml, mode, generated, leaving, serving, made>>
      /\ UNCHANGED <<standing, op, kit, relays>>
  BY DEF write_key, write_key_fails, history, nostr
<1>2. PICK pc \in {"idle", "toml"} :
        /\ \/ tab' = [tab EXCEPT ![t].pc = pc]
           \/ tab' = [tab EXCEPT ![t] = Idle] /\ pc = "idle"
        /\ \/ pc = "toml" /\ xprv = NoKey /\ xprv' = KeyFile(TRUE)
           \/ /\ pc = "idle"
              /\ \/ xprv' = xprv
                 \/ xprv = NoKey /\ xprv' = KeyFile(FALSE)
  <2>1. CASE write_key(t)
    <3>1. CASE xprv = NoKey
      BY <2>1, <3>1 DEF write_key
    <3>2. CASE xprv # NoKey
      <4>1. xprv' = xprv /\ tab' = [tab EXCEPT ![t] = Idle]
        BY <2>1, <3>2 DEF write_key
      <4> QED BY <4>1
    <3> QED BY <3>1, <3>2
  <2>2. CASE write_key_fails(t)
    BY <2>2 DEF write_key_fails
  <2> QED BY <2>1, <2>2
<1>3. \A u \in Tab \ {t} : tab'[u] = tab[u]
  BY <1>2, TabSteps
<1>4. tab'[t].pc = pc /\ TabShape'
  BY <1>2, TabSteps
<1>5. TypeOK'
  BY <1>1, <1>2, <1>3, <1>4, TypesOfFinish
<1>6. AnsweredWalletStands'
  BY <1>1, <1>2, Zenon DEF SetupInv, AnsweredWalletStands
<1>7. xprv = NoKey => standing = {}
  BY DEF SetupInv, AnsweredWalletStands
<1>8. BetweenWrites'
  <2>1. \A u \in Tab \ {t} : tab[u].pc # "toml"
    BY <1>1 DEF SetupInv, TypeOK
  <2>2. pc = "toml" => standing' = {} /\ xprv' = KeyFile(TRUE)'
    BY <1>1, <1>2, <1>7 DEF KeyFile
  <2> QED BY <1>3, <1>4, <2>1, <2>2 DEF BetweenWrites
<1>9. WizardInContainer' /\ BetweenImports' /\ KitsOK'
  BY <1>1 DEF SetupInv, WizardInContainer, BetweenImports, KitsOK, KitOK
<1> QED BY <1>4, <1>5, <1>6, <1>8, <1>9 DEF SetupInv

LEMMA WriteTomlKeeps ==
  ASSUME SetupInv, UNCHANGED kits, NEW t \in Tab,
         write_toml(t) \/ write_toml_fails(t)
  PROVE  SetupInv'
<1> USE DEF kits
<1>1. /\ tab[t].pc = "toml" /\ tab' = [tab EXCEPT ![t] = Idle]
      /\ UNCHANGED <<env, mode, leaving, serving, made>>
      /\ UNCHANGED <<op, kit, relays>>
      /\ generated' = generated \/ generated' = Nothing
      /\ xprv' = xprv \/ xprv' = NoKey
      /\ toml' = toml \/ (toml'.by = "setup" /\ toml = NoFile)
  <2>1. UNCHANGED <<op, kit, relays>>
    BY DEF nostr
  <2>2. CASE write_toml(t)
    <3>1. toml' = [text |-> tab[t].text, by |-> "setup"] /\ toml = NoFile
      BY <2>2 DEF write_toml
    <3>2. toml'.by = "setup"
      BY <3>1
    <3> QED BY <2>1, <2>2, <3>1, <3>2 DEF write_toml
  <2>3. CASE write_toml_fails(t)
    <3>1. toml' = toml \/ (toml'.by = "setup" /\ toml = NoFile)
      BY <2>3 DEF write_toml_fails
    <3> QED BY <2>1, <2>3, <3>1 DEF write_toml_fails, history
  <2> QED BY <2>2, <2>3
<1>2. \A u \in Tab \ {t} : tab'[u] = tab[u]
  BY <1>1, TabSteps
<1>3. tab'[t].pc = "idle" /\ TabShape'
  BY <1>1, TabSteps
<1>4. TypeOK'
  BY <1>1, <1>2, <1>3, TypesOfFinish
<1>5. BetweenWrites'
  <2>1. \A u \in Tab \ {t} : tab[u].pc # "toml"
    BY <1>1 DEF SetupInv, TypeOK
  <2> QED BY <1>2, <1>3, <2>1 DEF BetweenWrites
<1>6. standing = {} /\ (toml = NoFile => xprv = KeyFile(TRUE))
  BY <1>1 DEF SetupInv, BetweenWrites
<1>7. AnsweredWalletStands'
  <2>1. CASE write_toml(t)
    <3> DEFINE pair == [text |-> tab[t].text, key |-> generated]
    <3>1. standing' = {pair} /\ toml = NoFile /\ UNCHANGED xprv
          /\ toml' = [text |-> tab[t].text, by |-> "setup"]
      BY <1>6, <2>1 DEF write_toml
    <3>2. toml' # NoFile /\ toml'.text = pair.text
      BY <3>1, Absence
    <3>3. xprv' = KeyFile(TRUE)
      BY <1>6, <3>1
    <3>4. xprv' # NoKey /\ xprv'.key = pair.key
      BY <3>3, Absence DEF KeyFile
    <3>5. xprv'.whole
      BY <3>3, Zenon DEF KeyFile
    <3> HIDE DEF pair
    <3> QED BY <3>1, <3>2, <3>4, <3>5 DEF AnsweredWalletStands
  <2>2. CASE write_toml_fails(t)
    BY <1>6, <2>2 DEF write_toml_fails, history, AnsweredWalletStands
  <2> QED BY <2>1, <2>2
<1>8. BetweenImports'
  BY <1>1 DEF SetupInv, BetweenImports
<1>9. WizardInContainer' /\ KitsOK'
  BY <1>1 DEF SetupInv, WizardInContainer, KitsOK, KitOK
<1> QED BY <1>3, <1>4, <1>5, <1>7, <1>8, <1>9 DEF SetupInv

LEMMA EndsKeep ==
  ASSUME SetupInv, UNCHANGED kits,
         \/ Exit \/ Crash
         \/ \E t \in Tab : CrashInKey(t) \/ CrashInToml(t)
  PROVE  SetupInv'
<1> USE DEF files, history
<1>1. CASE Exit \/ Crash
  BY <1>1, EndKeeps DEF Exit, Crash
<1>2. CASE \E t \in Tab : CrashInKey(t)
  <2>1. PICK t \in Tab : CrashInKey(t)
    BY <1>2
  <2>2. generated \in FreshKey /\ standing = {} /\ xprv = NoKey
    BY <2>1 DEF CrashInKey, SetupInv, TypeOK, AnsweredWalletStands
  <2> QED BY <2>1, <2>2, EndKeeps DEF CrashInKey
<1>3. CASE \E t \in Tab : CrashInToml(t)
  <2>1. PICK t \in Tab : CrashInToml(t)
    BY <1>3
  <2>2. standing = {} /\ toml = NoFile /\ toml'.by = "setup"
    BY <2>1 DEF CrashInToml, SetupInv, AnsweredWalletStands
  <2> QED BY <2>1, <2>2, EndKeeps DEF CrashInToml
<1> QED BY <1>1, <1>2, <1>3

LEMMA SetupNextKeeps ==
  ASSUME SetupInv, SetupNext, UNCHANGED kits
  PROVE  SetupInv'
<1>1. CASE \/ StartSetup \/ StartServe \/ StartEnds \/ Reconfigure
           \/ server_key \/ start
  BY <1>1, StartKeeps
<1>2. CASE Exit \/ Crash \/ \E t \in Tab : CrashInKey(t) \/ CrashInToml(t)
  BY <1>2, EndsKeep
<1>3. CASE \E t \in Tab : \/ \E form \in Requests : finish_check(t, form)
                          \/ Finish(t)
  BY <1>3, FinishStarts, WriteKeyKeeps, WriteTomlKeeps DEF Finish
<1> QED BY <1>1, <1>2, <1>3 DEF SetupNext, WizardStep

-----------------------------------------------------------------------------
(* The operator's commands, and the world. *)

\* Any of them leaves the wizard alone.
LEMMA OperatorKeeps ==
  ASSUME SetupInv, UNCHANGED <<env, process, made>>,
         op' \in {"none", "init", "import_config", "import_key"},
         xprv' # NoKey => xprv'.key \in Key /\ xprv'.whole \in BOOLEAN,
         BetweenImports', KitsOK', AnsweredWalletStands',
         \A t \in Tab : tab[t].pc = "toml" =>
           /\ standing' = {}
           /\ toml' # NoFile \/ (xprv' = xprv /\ toml' = toml)
  PROVE  SetupInv'
<1> USE DEF SetupInv, process
<1>1. TypeOK'
  BY DEF TypeOK
<1>2. TabShape' /\ WizardInContainer'
  BY DEF TabShape, WizardInContainer
<1>3. BetweenWrites'
  BY DEF BetweenWrites, KeyFile
<1> QED BY <1>1, <1>2, <1>3

LEMMA InitKeeps ==
  ASSUME SetupInv, init_check \/ \E script \in Scripts : init_write(script)
  PROVE  SetupInv'
<1>1. /\ UNCHANGED <<env, process, made, xprv, kit, relays>>
      /\ op' \in {"none", "init"}
  BY DEF init_check, init_write, files, history, nostr
<1>2. \/ UNCHANGED <<toml, standing>>
      \/ toml' # NoFile /\ standing' = {}
  <2>1. CASE init_check
    BY <2>1 DEF init_check, files, history
  <2>2. CASE \E script \in Scripts : init_write(script)
    <3>1. PICK script \in Scripts : init_write(script)
      BY <2>2
    <3>2. CASE Loads(InitText(script))
      <4>1. PICK text : toml' = [text |-> text, by |-> "init"]
        BY <3>1, <3>2 DEF init_write
      <4>2. standing' = {}
        BY <3>1, <3>2 DEF init_write
      <4> QED BY <4>1, <4>2, Absence
    <3>3. CASE ~Loads(InitText(script))
      BY <3>1, <3>3 DEF init_write
    <3> QED BY <3>2, <3>3
  <2> QED BY <2>1, <2>2
<1>3. BetweenImports' /\ KitsOK'
  BY <1>1 DEF SetupInv, BetweenImports, KitsOK, KitOK
<1>4. AnsweredWalletStands'
  BY <1>1, <1>2, Zenon DEF SetupInv, AnsweredWalletStands
<1>5. \A t \in Tab : tab[t].pc = "toml" =>
        /\ standing' = {}
        /\ toml' # NoFile \/ (xprv' = xprv /\ toml' = toml)
  BY <1>1, <1>2 DEF SetupInv, BetweenWrites
<1>6. xprv' # NoKey => xprv'.key \in Key /\ xprv'.whole \in BOOLEAN
  BY <1>1 DEF SetupInv, TypeOK
<1> QED BY <1>1, <1>3, <1>4, <1>5, <1>6, OperatorKeeps

LEMMA PlaceKeyKeeps ==
  ASSUME SetupInv, place_key
  PROVE  SetupInv'
<1>1. PICK k \in OperatorKey :
        xprv' = [key |-> k, whole |-> TRUE, by |-> "hand"]
  BY DEF place_key
<1>2. /\ UNCHANGED <<env, toml, process, made, op, kit, relays>>
      /\ standing' = {} /\ op' = "none" /\ ~env.container
  BY DEF place_key, kits, nostr
<1>3. xprv'.whole \in BOOLEAN
  BY <1>1, Zenon
<1>4. xprv'.key \in Key
  BY <1>1, KitAssumption
<1>5. BetweenImports' /\ KitsOK'
  BY <1>2 DEF SetupInv, BetweenImports, KitsOK, KitOK
<1>6. AnsweredWalletStands'
  BY <1>2 DEF AnsweredWalletStands
<1>7. \A t \in Tab : tab[t].pc # "toml"
  BY <1>2 DEF SetupInv, TypeOK, WizardInContainer
<1> QED BY <1>2, <1>3, <1>4, <1>5, <1>6, <1>7, OperatorKeeps

\* Commands that leave the files, and may change the kit.
LEMMA KitCommandsKeep ==
  ASSUME SetupInv, export \/ publish \/ fetch \/ import_check
  PROVE  SetupInv'
<1>1. /\ UNCHANGED <<env, files, process, history>>
      /\ op' \in {"none", "import_config"}
  BY DEF export, publish, fetch, import_check
<1>2. KitsOK'
  <2>1. CASE export
    <3>1. kit' = [text |-> toml.text, key |-> xprv.key, whole |-> xprv.whole,
                  stands |-> standing # {}]
          /\ xprv # NoKey /\ relays' = relays
      BY <2>1 DEF export, nostr
    <3>2. kit'.key \in Key
      BY <3>1 DEF SetupInv, TypeOK
    <3>3. kit'.whole = xprv.whole
      BY <3>1, Zenon
    <3>4. kit'.stands = (standing # {})
      BY <3>1, Zenon
    <3>5. xprv.whole \in BOOLEAN
      BY <3>1 DEF SetupInv, TypeOK
    <3>6. standing # {} => xprv.whole
      BY DEF SetupInv, AnsweredWalletStands
    <3>7. KitOK(kit')
      BY <3>2, <3>3, <3>4, <3>5, <3>6, Zenon DEF KitOK
    <3> QED BY <3>1, <3>7 DEF SetupInv, KitsOK
  <2>2. CASE publish
    <3>1. PICK at :
            relays' \in [Relay -> {relays[r] : r \in Relay}
                                  \cup {[kit |-> kit, at |-> at]}]
      BY <2>2 DEF publish
    <3>2. \A r \in Relay : \/ \E q \in Relay : relays'[r] = relays[q]
                           \/ relays'[r] = [kit |-> kit, at |-> at]
      BY <3>1
    <3>3. \A r \in Relay : \/ \E q \in Relay : relays'[r].kit = relays[q].kit
                           \/ relays'[r].kit = kit
      BY <3>2
    <3>4. kit' = kit
      BY <2>2 DEF publish
    <3> QED BY <3>3, <3>4 DEF SetupInv, KitsOK
  <2>3. CASE fetch
    <3>1. PICK answering \in SUBSET Relay :
            \E e \in Found(answering) : kit' = e.kit
      BY <2>3 DEF fetch
    <3>2. PICK r \in Relay : kit' = relays[r].kit
      BY <3>1 DEF Found, Newest
    <3>3. relays' = relays
      BY <2>3 DEF fetch, nostr
    <3> QED BY <3>2, <3>3 DEF SetupInv, KitsOK
  <2>4. CASE import_check
    BY <2>4 DEF import_check, nostr, SetupInv, KitsOK
  <2> QED BY <2>1, <2>2, <2>3, <2>4
<1>3. BetweenImports'
  BY <1>1 DEF BetweenImports, export, publish, fetch, import_check
<1>4. AnsweredWalletStands'
  BY <1>1 DEF SetupInv, AnsweredWalletStands, files, history
<1>5. \A t \in Tab : tab[t].pc = "toml" =>
        /\ standing' = {}
        /\ toml' # NoFile \/ (xprv' = xprv /\ toml' = toml)
  BY <1>1 DEF SetupInv, BetweenWrites, files, history
<1>6. xprv' # NoKey => xprv'.key \in Key /\ xprv'.whole \in BOOLEAN
  BY <1>1 DEF SetupInv, TypeOK, files
<1> QED BY <1>1, <1>2, <1>3, <1>4, <1>5, <1>6, OperatorKeeps DEF history

LEMMA ImportKeeps ==
  ASSUME SetupInv, import_config \/ import_key
  PROVE  SetupInv'
<1>1. /\ UNCHANGED <<env, process, made, kit, relays>>
      /\ op' \in {"none", "import_key"}
      /\ kit # NoKit /\ KitOK(kit)
  BY DEF import_config, import_key, nostr, SetupInv, BetweenImports, KitsOK
<1>2. KitsOK'
  BY <1>1 DEF SetupInv, KitsOK, KitOK
<1>3. CASE import_config
  <2>1. toml' = [text |-> kit.text, by |-> "import"]
        /\ standing' = {} /\ xprv' = xprv
    BY <1>3 DEF import_config
  <2>2. toml' # NoFile /\ toml'.text = kit.text
    BY <2>1, Absence
  <2>3. BetweenImports'
    BY <1>1, <2>2 DEF BetweenImports
  <2>4. AnsweredWalletStands'
    BY <2>1 DEF AnsweredWalletStands
  <2>5. xprv' # NoKey => xprv'.key \in Key /\ xprv'.whole \in BOOLEAN
    BY <2>1 DEF SetupInv, TypeOK
  <2> QED BY <1>1, <1>2, <2>1, <2>2, <2>3, <2>4, <2>5, OperatorKeeps
<1>4. CASE import_key
  <2>1. /\ xprv' = [key |-> kit.key, whole |-> kit.whole, by |-> "import"]
        /\ toml' = toml /\ op = "import_key" /\ op' = "none"
    BY <1>4 DEF import_key
  <2>2. toml # NoFile /\ (toml.by = "import" => toml.text = kit.text)
    BY <2>1 DEF SetupInv, BetweenImports
  <2>3. xprv' # NoKey /\ xprv'.key = kit.key
    BY <2>1, Absence
  <2>4. xprv'.whole = kit.whole
    BY <2>1, Zenon
  <2>5. xprv'.key \in Key /\ xprv'.whole \in BOOLEAN
    BY <1>1, <2>3, <2>4 DEF KitOK
  <2>6. CASE kit.stands /\ LockFree /\ toml.by = "import"
    <3> DEFINE pair == [text |-> kit.text, key |-> kit.key]
    <3>1. standing' = {pair}
      BY <1>4, <2>6 DEF import_key
    <3>2. pair.text = kit.text /\ pair.key = kit.key
      OBVIOUS
    <3>3. xprv'.whole
      BY <1>1, <2>4, <2>6, Zenon DEF KitOK
    <3>4. toml'.text = kit.text /\ toml' # NoFile
      BY <2>1, <2>2, <2>6
    <3> HIDE DEF pair
    <3>5. AnsweredWalletStands'
      BY <2>3, <3>1, <3>2, <3>3, <3>4, Zenon DEF AnsweredWalletStands
    <3>6. BetweenImports'
      BY <2>1 DEF BetweenImports
    <3>7. \A t \in Tab : tab[t].pc # "toml"
      BY <2>6 DEF LockFree
    <3> QED BY <1>1, <1>2, <2>5, <3>5, <3>6, <3>7, OperatorKeeps
  <2>7. CASE ~(kit.stands /\ LockFree /\ toml.by = "import")
    <3>1. standing' = {}
      BY <1>4, <2>7 DEF import_key
    <3>2. AnsweredWalletStands' /\ BetweenImports'
      BY <2>1, <3>1 DEF AnsweredWalletStands, BetweenImports
    <3> QED BY <1>1, <1>2, <2>1, <2>2, <2>5, <3>1, <3>2, OperatorKeeps
  <2> QED BY <2>6, <2>7
<1> QED BY <1>3, <1>4

LEMMA QuitKeeps ==
  ASSUME SetupInv, quit
  PROVE  SetupInv'
<1>1. /\ UNCHANGED <<env, process, made, kit, relays>>
      /\ op' = "none" /\ op # "none"
  BY DEF quit, nostr
<1>2. KitsOK' /\ BetweenImports'
  BY <1>1 DEF SetupInv, KitsOK, KitOK, BetweenImports
<1>3. CASE UNCHANGED <<files, standing>>
  <2>1. xprv' = xprv /\ toml' = toml /\ standing' = standing
    BY <1>3 DEF files
  <2>2. xprv' # NoKey => xprv'.key \in Key /\ xprv'.whole \in BOOLEAN
    BY <2>1 DEF SetupInv, TypeOK
  <2>3. AnsweredWalletStands'
    BY <2>1 DEF SetupInv, AnsweredWalletStands
  <2>4. \A t \in Tab : tab[t].pc = "toml" => standing = {}
    BY DEF SetupInv, BetweenWrites
  <2> QED BY <1>1, <1>2, <2>1, <2>2, <2>3, <2>4, OperatorKeeps
<1>4. CASE ~UNCHANGED <<files, standing>>
  <2>1. op # "init" /\ standing' = {}
    BY <1>4 DEF quit
  <2>2. AnsweredWalletStands'
    BY <2>1 DEF AnsweredWalletStands
  <2>3. CASE op = "import_config"
    <3>1. PICK rest : toml' = [text |-> rest, by |-> "import"]
      BY <1>4, <2>3 DEF quit
    <3>2. toml' # NoFile
      BY <3>1, Absence
    <3>3. xprv' = xprv
      BY <1>4, <2>3 DEF quit
    <3>4. xprv' # NoKey => xprv'.key \in Key /\ xprv'.whole \in BOOLEAN
      BY <3>3 DEF SetupInv, TypeOK
    <3> QED BY <1>1, <1>2, <2>1, <2>2, <3>2, <3>4, OperatorKeeps
  <2>4. CASE op # "import_config"
    <3>1. xprv' = [key |-> kit.key, whole |-> FALSE, by |-> "import"]
          /\ toml' = toml
      BY <1>4, <2>4 DEF quit
    <3>2. op = "import_key"
      BY <1>1, <2>1, <2>4 DEF SetupInv, TypeOK
    <3>3. toml # NoFile /\ kit # NoKit /\ KitOK(kit)
      BY <3>2 DEF SetupInv, BetweenImports, KitsOK
    <3>4. xprv'.key \in Key
      BY <3>1, <3>3 DEF KitOK
    <3>5. xprv'.whole = FALSE
      BY <3>1, Zenon
    <3> QED BY <1>1, <1>2, <2>1, <2>2, <3>1, <3>3, <3>4, <3>5, OperatorKeeps
  <2> QED BY <2>3, <2>4
<1> QED BY <1>3, <1>4

LEMMA LoseDiskKeeps ==
  ASSUME SetupInv, LoseDisk
  PROVE  SetupInv'
<1>1. /\ toml' = NoFile /\ xprv' = NoKey /\ kit' = NoKit /\ op' = "none"
      /\ standing' = {} /\ made' = made /\ relays' = relays
      /\ mode' = "down" /\ generated' = Nothing /\ leaving' = FALSE
      /\ tab' = [t \in Tab |-> Idle] /\ serving' = NoFile
  BY DEF LoseDisk, Ended, nostr
<1>2. \A t \in Tab : tab'[t] = Idle
  BY <1>1
<1>3. TypeOK'
  BY <1>1, <1>2 DEF TypeOK, SetupInv, Idle
<1>4. TabShape'
  BY <1>1, <1>2 DEF TabShape, Idle
<1>5. AnsweredWalletStands' /\ WizardInContainer' /\ BetweenImports'
  BY <1>1 DEF AnsweredWalletStands, WizardInContainer, BetweenImports
<1>6. BetweenWrites'
  BY <1>2 DEF BetweenWrites, Idle
<1>7. KitsOK'
  BY <1>1 DEF SetupInv, KitsOK, KitOK
<1> QED BY <1>3, <1>4, <1>5, <1>6, <1>7 DEF SetupInv

-----------------------------------------------------------------------------
LEMMA SetupInvStep == SetupInv /\ [Next]_vars => SetupInv'
<1> SUFFICES ASSUME SetupInv, [Next]_vars PROVE SetupInv'
  OBVIOUS
<1>1. CASE SetupNext /\ UNCHANGED kits
  BY <1>1, SetupNextKeeps
<1>2. CASE Operator
  BY <1>2, InitKeeps, PlaceKeyKeeps, KitCommandsKeep, ImportKeeps, QuitKeeps
  DEF Operator
<1>3. CASE LoseDisk
  BY <1>3, LoseDiskKeeps
<1>4. CASE UNCHANGED vars
  <2>1. UNCHANGED <<env, toml, xprv, mode, generated, tab, leaving, serving,
                    made, standing, op, kit, relays>>
    BY <1>4 DEF vars, files, process, history, kits, nostr
  <2>2. TypeOK' /\ AnsweredWalletStands' /\ TabShape' /\ WizardInContainer'
    BY <2>1 DEF SetupInv, TypeOK, AnsweredWalletStands, TabShape,
                WizardInContainer
  <2>3. BetweenWrites' /\ BetweenImports' /\ KitsOK'
    BY <2>1 DEF SetupInv, BetweenWrites, BetweenImports, KitsOK, KitOK, KeyFile
  <2> QED BY <2>2, <2>3 DEF SetupInv
<1> QED BY <1>1, <1>2, <1>3, <1>4 DEF Next

\* At most one finish is past the lock, requests are at a wizard that runs
\* only, and what serves has been loaded (setup.rs:598-680).
THEOREM SetupTypesHold == Spec => []TypeOK
<1>1. SetupInv => TypeOK
  BY DEF SetupInv
<1> QED BY <1>1, SetupInvInit, SetupInvStep, PTL DEF Spec

\* However many tabs race, keys are generated again, writes fail and processes
\* end, and whatever commands run beside the wizard: the pair it has answered
\* with, or a restored one, stays on the disk (setup.rs:571-680,
\* main.rs:583-621).
THEOREM AnsweredWalletAlwaysStands == Spec => []AnsweredWalletStands
<1>1. SetupInv => AnsweredWalletStands
  BY DEF SetupInv
<1> QED BY <1>1, SetupInvInit, SetupInvStep, PTL DEF Spec

-----------------------------------------------------------------------------
(* Kits on the relays. *)

\* What the takers of the last kit hold is that kit, or one that is as new.
TakersHold ==
  /\ last.at \in Int /\ last.takers \subseteq Relay
  /\ \A r \in Relay : relays[r].at \in Int
  /\ \A r \in last.takers : relays[r] # NoEvent /\ last.at <= relays[r].at

LEMMA TakersHoldInit == Init => TakersHold
BY DEF Init, TakersHold, NoEvent

\* A relay that takes the event keeps it unless it has a newer one.
LEMMA PublishKeepsTakers ==
  ASSUME TakersHold, publish
  PROVE  TakersHold'
<1>1. PICK takers \in SUBSET Relay \ {{}},
           at \in {last.at, last.at + 1} \cap 0..MaxSecond :
        /\ relays' \in [Relay -> {relays[r] : r \in Relay}
                                 \cup {[kit |-> kit, at |-> at]}]
        /\ \A r \in Relay : relays'[r] \in
             IF r \in takers THEN Newest({relays[r], [kit |-> kit, at |-> at]})
                             ELSE {relays[r]}
        /\ last' = [at |-> at, takers |-> takers]
  BY DEF publish
<1> DEFINE event == [kit |-> kit, at |-> at]
<1>2. at \in Nat /\ event.at = at /\ NoEvent.at = -1
  BY KitAssumption DEF NoEvent
<1>3. last'.at = at /\ last'.takers = takers
  BY <1>1
<1> HIDE DEF event
<1>4. ASSUME NEW r \in Relay
      PROVE  /\ relays'[r] \in {relays[r], event}
             /\ r \in takers => event.at <= relays'[r].at
  BY <1>1, <1>4 DEF Newest, event
<1>5. \A r \in Relay : relays'[r].at \in Int
  BY <1>2, <1>4 DEF TakersHold
<1>6. \A r \in takers : relays'[r] # NoEvent /\ at <= relays'[r].at
  BY <1>1, <1>2, <1>4, <1>5
<1> QED
  BY <1>1, <1>2, <1>3, <1>5, <1>6 DEF TakersHold

LEMMA TakersHoldStep == TakersHold /\ [Next]_vars => TakersHold'
<1> SUFFICES ASSUME TakersHold, [Next]_vars PROVE TakersHold'
  OBVIOUS
<1>1. CASE publish
  BY <1>1, PublishKeepsTakers
<1>2. CASE UNCHANGED nostr
  BY <1>2 DEF nostr, TakersHold
<1>3. publish \/ UNCHANGED nostr
  <2>1. CASE (SetupNext /\ UNCHANGED kits) \/ LoseDisk \/ UNCHANGED vars
    BY <2>1 DEF kits, LoseDisk, vars
  <2>2. CASE Operator
    BY <2>2 DEF Operator, init_check, init_write, place_key, export, fetch,
                import_check, import_config, import_key, quit, kits
  <2> QED BY <2>1, <2>2 DEF Next
<1> QED BY <1>1, <1>2, <1>3

\* A fetch that one of the last kit's takers answers in time finds it, or one
\* of the same second, for any number of relays, publications and lost disks
\* (nostr_kit.rs:141-147).
THEOREM FetchAlwaysFindsTheLastKit == Spec => []FetchFindsTheLastKit
<1>1. ASSUME TakersHold
      PROVE  FetchFindsTheLastKit
  <2> SUFFICES ASSUME NEW answering \in SUBSET Relay,
                      NEW r \in answering \cap last.takers,
                      NEW e \in Found(answering)
               PROVE  e.at >= last.at
    BY DEF FetchFindsTheLastKit
  <2>1. relays[r].at <= e.at
    BY <1>1 DEF Found, Newest, TakersHold
  <2>2. e.at \in Int
    BY <1>1 DEF Found, Newest, TakersHold
  <2> QED BY <1>1, <2>1, <2>2 DEF TakersHold
<1> QED BY <1>1, TakersHoldInit, TakersHoldStep, PTL DEF Spec

-----------------------------------------------------------------------------
(* Texts, table by table. *)

IsText(x) == Len(x) \in Nat /\ x = [i \in 1..Len(x) |-> x[i]]

LEMMA TextIsSeq ==
  ASSUME NEW x, IsText(x)
  PROVE  /\ DOMAIN x = 1..Len(x)
         /\ \A S : (\A i \in 1..Len(x) : x[i] \in S) => x \in Seq(S)
BY DEF IsText

\* One text after another.
LEMMA Joined ==
  ASSUME NEW x, NEW y, IsText(x), IsText(y)
  PROVE  /\ IsText(x \o y) /\ Len(x \o y) = Len(x) + Len(y)
         /\ \A i \in 1..Len(x) : (x \o y)[i] = x[i]
         /\ \A i \in (Len(x) + 1)..(Len(x) + Len(y)) :
              (x \o y)[i] = y[i - Len(x)]
<1> DEFINE S == {x[i] : i \in 1..Len(x)} \cup {y[i] : i \in 1..Len(y)}
<1>1. x \in Seq(S) /\ y \in Seq(S)
  <2>1. (\A i \in 1..Len(x) : x[i] \in S) /\ (\A i \in 1..Len(y) : y[i] \in S)
    OBVIOUS
  <2> HIDE DEF S
  <2> QED BY <2>1, TextIsSeq
<1> HIDE DEF S
<1>2. /\ x \o y \in Seq(S) /\ Len(x \o y) = Len(x) + Len(y)
      /\ \A i \in 1..(Len(x) + Len(y)) :
           (x \o y)[i] = IF i <= Len(x) THEN x[i] ELSE y[i - Len(x)]
  BY <1>1, ConcatProperties
<1>3. Len(x) \in Nat /\ Len(y) \in Nat
  BY DEF IsText
<1>4. IsText(x \o y)
  BY <1>2, LenProperties DEF IsText
<1>5. \A i \in 1..Len(x) : (x \o y)[i] = x[i]
  BY <1>2, <1>3
<1>6. \A i \in (Len(x) + 1)..(Len(x) + Len(y)) : (x \o y)[i] = y[i - Len(x)]
  BY <1>2, <1>3
<1> QED BY <1>2, <1>4, <1>5, <1>6

\* A cut text is the text up to its last table, of which it has the name.
CutOf(x, y) ==
  /\ IsText(x) /\ Len(x) <= Len(y)
  /\ \A i \in 1..(Len(x) - 1) : x[i] = y[i]
  /\ \A i \in 1..Len(x) : x[i].name = y[i].name

LEMMA CutOfCut ==
  ASSUME NEW x, NEW y, NEW z, CutOf(x, y), CutOf(y, z), Len(z) \in Nat
  PROVE  CutOf(x, z)
<1>1. Len(x) \in Nat /\ Len(y) \in Nat /\ Len(x) <= Len(y) /\ Len(y) <= Len(z)
  BY DEF CutOf, IsText
<1>2. Len(x) <= Len(z)
  BY <1>1
<1>3. ASSUME NEW i \in 1..(Len(x) - 1) PROVE x[i] = z[i]
  <2>1. i \in 1..(Len(y) - 1)
    BY <1>1
  <2> QED BY <2>1 DEF CutOf
<1>4. ASSUME NEW i \in 1..Len(x) PROVE x[i].name = z[i].name
  <2>1. i \in 1..Len(y)
    BY <1>1
  <2> QED BY <2>1 DEF CutOf
<1> QED BY <1>2, <1>3, <1>4 DEF CutOf

LEMMA RemainsAreCuts ==
  ASSUME NEW y, IsText(y), NEW x \in Remains(y)
  PROVE  CutOf(x, y) /\ (x = Garbled \/ x = y \/ Loads(x))
<1> DEFINE before(i) == SubSeq(y, 1, i - 1)
<1>1. DOMAIN y = 1..Len(y) /\ Len(y) \in Nat
  BY TextIsSeq DEF IsText
<1>2. ASSUME NEW i \in 1..Len(y)
      PROVE  /\ IsText(before(i)) /\ Len(before(i)) = i - 1
             /\ \A j \in 1..(i - 1) : before(i)[j] = y[j]
  <2> DEFINE S == {y[j] : j \in 1..Len(y)}
  <2>1. y \in Seq(S)
    <3>1. \A j \in 1..Len(y) : y[j] \in S
      OBVIOUS
    <3> HIDE DEF S
    <3> QED BY <3>1, TextIsSeq
  <2> HIDE DEF S
  <2>2. i \in 1..(Len(y) + 1) /\ i - 1 \in 0..Len(y) /\ 1 \in 1..(Len(y) + 1)
    BY <1>1
  <2>3. /\ before(i) \in Seq(S)
        /\ Len(before(i)) = i - 1
        /\ \A j \in 1..(i - 1) : before(i)[j] = y[j]
    BY <1>1, <2>1, <2>2, SubSeqProperties
  <2> HIDE DEF before
  <2> QED BY <1>1, <2>3, LenProperties DEF IsText
<1>3. x = Garbled \/ x = y
      \/ /\ Loads(x)
         /\ \E i \in 1..Len(y) :
              x = before(i) \/ \E t \in CutTable(y[i]) : x = before(i) \o <<t>>
  BY <1>1 DEF Remains
<1>4. CASE x = Garbled
  BY <1>1, <1>4 DEF Garbled, CutOf, IsText
<1>5. CASE x = y
  BY <1>5 DEF CutOf, IsText
<1>6. ASSUME Loads(x), NEW i \in 1..Len(y), x = before(i)
      PROVE  CutOf(x, y) /\ Loads(x)
  <2> HIDE DEF before
  <2> QED BY <1>1, <1>2, <1>6 DEF CutOf
<1>7. ASSUME Loads(x), NEW i \in 1..Len(y),
             NEW t \in CutTable(y[i]), x = before(i) \o <<t>>
      PROVE  CutOf(x, y) /\ Loads(x)
  <2> HIDE DEF before
  <2>1. t.name = y[i].name
    <3>1. \E fields : t = [name |-> y[i].name, fields |-> fields]
      BY <1>7 DEF CutTable, Table
    <3> QED BY <3>1
  <2>2. IsText(<<t>>) /\ Len(<<t>>) = 1 /\ <<t>>[1] = t
    BY DEF IsText
  <2>3. /\ IsText(x) /\ Len(x) = (i - 1) + 1
        /\ \A j \in 1..(i - 1) : x[j] = before(i)[j]
        /\ \A j \in i..i : x[j] = <<t>>[j - (i - 1)]
    BY <1>2, <1>7, <2>2, Joined
  <2>4. x[i] = t
    BY <2>2, <2>3
  <2>5. Len(x) = i /\ Len(x) <= Len(y)
    BY <1>1, <2>3
  <2>6. \A j \in 1..(Len(x) - 1) : x[j] = y[j]
    BY <1>2, <2>3, <2>5
  <2>7. \A j \in 1..Len(x) : x[j].name = y[j].name
    BY <2>1, <2>4, <2>5, <2>6
  <2> QED BY <1>7, <2>3, <2>5, <2>6, <2>7 DEF CutOf
<1> QED BY <1>3, <1>4, <1>5, <1>6, <1>7

-----------------------------------------------------------------------------
(* What render writes. *)

\* The tables up to [notify], with and without those of the deployment.
HeadNames(n) ==
  IF n = 9
  THEN <<"wallet", "keys.satochip", "keys.mobile", "keys.server", "bitcoind",
         "server", "server_signing", "policy", "notify">>
  ELSE <<"wallet", "keys.satochip", "keys.mobile", "keys.server",
         "server_signing", "policy", "notify">>

TailNames == {"notify.ntfy", "notify.smtp", "recovery", "nostr_transport"}

Shaped(x, n) ==
  /\ IsText(x) /\ n \in {7, 9} /\ n <= Len(x)
  /\ \A i \in 1..n : x[i].name = HeadNames(n)[i]
  /\ \A i \in (n + 1)..Len(x) : x[i].name \in TailNames

IsTail(y) == IsText(y) /\ \A i \in 1..Len(y) : y[i].name \in TailNames

LEMMA TailJoined ==
  ASSUME NEW x, NEW y, NEW n, Shaped(x, n), IsTail(y)
  PROVE  Shaped(x \o y, n) /\ \A i \in 1..n : (x \o y)[i] = x[i]
<1>1. /\ IsText(x \o y) /\ Len(x \o y) = Len(x) + Len(y)
      /\ \A i \in 1..Len(x) : (x \o y)[i] = x[i]
      /\ \A i \in (Len(x) + 1)..(Len(x) + Len(y)) :
           (x \o y)[i] = y[i - Len(x)]
  BY Joined DEF Shaped, IsTail
<1>2. Len(x) \in Nat /\ Len(y) \in Nat /\ n \in Nat /\ n <= Len(x)
  BY DEF Shaped, IsTail, IsText
<1>3. \A i \in 1..n : (x \o y)[i] = x[i]
  BY <1>1, <1>2
<1>4. ASSUME NEW i \in (n + 1)..Len(x \o y)
      PROVE  (x \o y)[i].name \in TailNames
  <2>1. CASE i <= Len(x)
    BY <1>1, <1>2, <2>1 DEF Shaped
  <2>2. CASE i > Len(x)
    <3>1. i - Len(x) \in 1..Len(y) /\ (x \o y)[i] = y[i - Len(x)]
      BY <1>1, <1>2, <2>2
    <3> QED BY <3>1 DEF IsTail
  <2> QED BY <1>1, <1>2, <2>1, <2>2
<1> QED BY <1>1, <1>2, <1>3, <1>4 DEF Shaped

LEMMA OneTableTail ==
  ASSUME NEW name \in TailNames, NEW fields
  PROVE  IsTail(<<Table(name, fields)>>)
BY DEF IsTail, IsText, Table

LEMMA NoTail == IsTail(<<>>)
BY DEF IsTail, IsText

\* A config of either front end, in its order, and the fields that count here.
LEMMA RenderShaped ==
  ASSUME NEW a, NEW deployment \in BOOLEAN
  PROVE  LET x == render(a, deployment)
             n == IF deployment THEN 9 ELSE 7
         IN /\ Shaped(x, n)
            /\ x[4].fields = a.server
            /\ x[n - 2].fields = a.server_signing
            /\ "max_fee_rate" \in DOMAIN x[n - 1].fields
            /\ x[n - 1].fields["max_fee_rate"] = a.max_fee_rate
            /\ deployment => "ledger_db_path" \in DOMAIN x[6].fields
<1> DEFINE
      n == IF deployment THEN 9 ELSE 7
      keys ==
        <<Table("wallet",
            Fields([network |-> a.network,
                    timelock_blocks |-> a.timelock_blocks],
                   OptionalLine("i_understand_this_is_mainnet", TRUE,
                                a.network = "mainnet"))),
          Table("keys.satochip", a.satochip), Table("keys.mobile", a.mobile),
          Table("keys.server", a.server)>>
      box == DeploymentTables(a.bitcoind_rpc_url, a.bitcoind_auth, a.bind_addr,
                              a.gap_limit, a.ledger_db_path)
      caps == Fields([max_sat |-> a.max_sat, max_fee_rate |-> a.max_fee_rate],
                     Whitelist(a.destination_whitelist))
      rules ==
        <<Table("server_signing", a.server_signing),
          Table("policy", caps), Table("notify", a.notify)>>
      ntfy == When(a.ntfy # Nothing, <<Table("notify.ntfy", a.ntfy)>>)
      smtp == When(a.smtp # Nothing, <<Table("notify.smtp", a.smtp)>>)
      hold == Fields([hold_seconds |-> a.recovery_hold_seconds],
                     Whitelist(a.recovery_destination_whitelist))
      recovery == <<Table("recovery", hold)>>
      nostr_tables == When(a.nostr_transport # Nothing,
                           <<Table("nostr_transport", a.nostr_transport)>>)
      start_ == keys \o When(deployment, box)
      head == start_ \o rules
<1>1. render(a, deployment)
        = head \o ntfy \o smtp \o recovery \o nostr_tables
  BY DEF render
<1>2. /\ IsText(keys) /\ Len(keys) = 4
      /\ keys[1].name = "wallet" /\ keys[2].name = "keys.satochip"
      /\ keys[3].name = "keys.mobile" /\ keys[4].name = "keys.server"
      /\ keys[4].fields = a.server
  BY DEF IsText, Table
<1>3. /\ IsText(rules) /\ Len(rules) = 3
      /\ rules[1].name = "server_signing" /\ rules[2].name = "policy"
      /\ rules[3].name = "notify" /\ rules[1].fields = a.server_signing
      /\ "max_fee_rate" \in DOMAIN rules[2].fields
      /\ rules[2].fields["max_fee_rate"] = a.max_fee_rate
  <2>1. "max_fee_rate" \in DOMAIN caps /\ caps["max_fee_rate"] = a.max_fee_rate
    BY DEF Fields
  <2> HIDE DEF caps
  <2> QED BY <2>1 DEF IsText, Table
<1>4. /\ IsText(box) /\ Len(box) = 2
      /\ box[1].name = "bitcoind" /\ box[2].name = "server"
  BY DEF DeploymentTables, IsText, Table
<1>5. "ledger_db_path" \in DOMAIN box[2].fields
  BY DEF DeploymentTables, Table
<1>6. IsTail(ntfy) /\ IsTail(smtp) /\ IsTail(recovery) /\ IsTail(nostr_tables)
  <2>1. /\ "notify.ntfy" \in TailNames /\ "notify.smtp" \in TailNames
        /\ "recovery" \in TailNames /\ "nostr_transport" \in TailNames
    BY DEF TailNames
  <2>2. IsTail(ntfy)
    BY <2>1, OneTableTail, NoTail DEF When
  <2>3. IsTail(smtp)
    BY <2>1, OneTableTail, NoTail DEF When
  <2>4. IsTail(recovery)
    <3> HIDE DEF hold
    <3> QED BY <2>1, OneTableTail
  <2>5. IsTail(nostr_tables)
    BY <2>1, OneTableTail, NoTail DEF When
  <2> QED BY <2>2, <2>3, <2>4, <2>5
<1> HIDE DEF keys, box, rules, ntfy, smtp, recovery, nostr_tables
<1>7. /\ Shaped(head, n) /\ head[4].fields = a.server
      /\ head[n - 2].fields = a.server_signing
      /\ "max_fee_rate" \in DOMAIN head[n - 1].fields
      /\ head[n - 1].fields["max_fee_rate"] = a.max_fee_rate
      /\ deployment => "ledger_db_path" \in DOMAIN head[6].fields
  <2>1. CASE deployment
    <3>1. /\ IsText(start_) /\ Len(start_) = 6
          /\ \A i \in 1..4 : start_[i] = keys[i]
          /\ \A i \in 5..6 : start_[i] = box[i - 4]
      <4>1. start_ = keys \o box
        BY <2>1 DEF When
      <4> HIDE DEF start_
      <4>2. /\ IsText(start_) /\ Len(start_) = Len(keys) + Len(box)
            /\ \A i \in 1..Len(keys) : start_[i] = keys[i]
            /\ \A i \in (Len(keys) + 1)..(Len(keys) + Len(box)) :
                 start_[i] = box[i - Len(keys)]
        BY <4>1, <1>2, <1>4, Joined
      <4> QED BY <4>2, <1>2, <1>4
    <3> HIDE DEF start_
    <3>2. /\ IsText(head) /\ Len(head) = 9
          /\ \A i \in 1..6 : head[i] = start_[i]
          /\ \A i \in 7..9 : head[i] = rules[i - 6]
      <4>1. /\ IsText(head) /\ Len(head) = Len(start_) + Len(rules)
            /\ \A i \in 1..Len(start_) : head[i] = start_[i]
            /\ \A i \in (Len(start_) + 1)..(Len(start_) + Len(rules)) :
                 head[i] = rules[i - Len(start_)]
        <5>1. IsText(start_) /\ IsText(rules)
          BY <3>1, <1>3
        <5> QED BY <5>1, Joined
      <4> HIDE DEF head
      <4> QED BY <4>1, <3>1, <1>3
    <3> HIDE DEF head
    <3>3. /\ head[1] = keys[1] /\ head[2] = keys[2] /\ head[3] = keys[3]
          /\ head[4] = keys[4] /\ head[5] = box[1] /\ head[6] = box[2]
          /\ head[7] = rules[1] /\ head[8] = rules[2] /\ head[9] = rules[3]
      BY <3>1, <3>2
    <3>4. \A i \in 1..9 : head[i].name = HeadNames(9)[i]
      BY <3>3, <1>2, <1>3, <1>4 DEF HeadNames
    <3>5. Shaped(head, 9)
      BY <3>2, <3>4 DEF Shaped
    <3> QED BY <2>1, <3>3, <3>5, <1>2, <1>3, <1>5
  <2>2. CASE ~deployment
    <3>1. /\ IsText(start_) /\ Len(start_) = 4
          /\ \A i \in 1..4 : start_[i] = keys[i]
      <4>1. start_ = keys \o <<>> /\ IsText(<<>>) /\ Len(<<>>) = 0
        BY <2>2 DEF When, IsText
      <4> HIDE DEF start_
      <4>2. /\ IsText(start_) /\ Len(start_) = Len(keys) + Len(<<>>)
            /\ \A i \in 1..Len(keys) : start_[i] = keys[i]
        BY <4>1, <1>2, Joined
      <4> QED BY <4>1, <4>2, <1>2
    <3> HIDE DEF start_
    <3>2. /\ IsText(head) /\ Len(head) = 7
          /\ \A i \in 1..4 : head[i] = start_[i]
          /\ \A i \in 5..7 : head[i] = rules[i - 4]
      <4>1. /\ IsText(head) /\ Len(head) = Len(start_) + Len(rules)
            /\ \A i \in 1..Len(start_) : head[i] = start_[i]
            /\ \A i \in (Len(start_) + 1)..(Len(start_) + Len(rules)) :
                 head[i] = rules[i - Len(start_)]
        <5>1. IsText(start_) /\ IsText(rules)
          BY <3>1, <1>3
        <5> QED BY <5>1, Joined
      <4> HIDE DEF head
      <4> QED BY <4>1, <3>1, <1>3
    <3> HIDE DEF head
    <3>3. /\ head[1] = keys[1] /\ head[2] = keys[2] /\ head[3] = keys[3]
          /\ head[4] = keys[4] /\ head[5] = rules[1] /\ head[6] = rules[2]
          /\ head[7] = rules[3]
      BY <3>1, <3>2
    <3>4. \A i \in 1..7 : head[i].name = HeadNames(7)[i]
      BY <3>3, <1>2, <1>3 DEF HeadNames
    <3>5. Shaped(head, 7)
      BY <3>2, <3>4 DEF Shaped
    <3> QED BY <2>2, <3>3, <3>5, <1>2, <1>3
  <2> QED BY <2>1, <2>2
<1> HIDE DEF head
<1>8. /\ Shaped(head \o ntfy \o smtp \o recovery \o nostr_tables, n)
      /\ \A i \in 1..n :
           (head \o ntfy \o smtp \o recovery \o nostr_tables)[i] = head[i]
  <2>1. Shaped(head \o ntfy, n) /\ \A i \in 1..n : (head \o ntfy)[i] = head[i]
    BY <1>6, <1>7, TailJoined
  <2>2. /\ Shaped(head \o ntfy \o smtp, n)
        /\ \A i \in 1..n : (head \o ntfy \o smtp)[i] = (head \o ntfy)[i]
    BY <1>6, <2>1, TailJoined
  <2>3. /\ Shaped(head \o ntfy \o smtp \o recovery, n)
        /\ \A i \in 1..n : (head \o ntfy \o smtp \o recovery)[i]
                             = (head \o ntfy \o smtp)[i]
    BY <1>6, <2>2, TailJoined
  <2>4. /\ Shaped(head \o ntfy \o smtp \o recovery \o nostr_tables, n)
        /\ \A i \in 1..n : (head \o ntfy \o smtp \o recovery \o nostr_tables)[i]
                             = (head \o ntfy \o smtp \o recovery)[i]
    BY <1>6, <2>3, TailJoined
  <2> QED BY <2>1, <2>2, <2>3, <2>4
<1>9. /\ 4 \in 1..n /\ n - 2 \in 1..n /\ n - 1 \in 1..n
      /\ deployment => 6 \in 1..n
  OBVIOUS
<1> QED BY <1>1, <1>7, <1>8, <1>9

-----------------------------------------------------------------------------
(* What sections a cut text still has. *)

LEMMA SectionAt ==
  ASSUME NEW x, IsText(x), NEW j \in 1..Len(x),
         \A i \in 1..Len(x) : x[i].name = x[j].name => i = j
  PROVE  Section(x, x[j].name) = x[j].fields
<1>1. DOMAIN x = 1..Len(x)
  BY TextIsSeq
<1>2. (CHOOSE i \in DOMAIN x : x[i].name = x[j].name) = j
  BY <1>1
<1> QED BY <1>2 DEF Section

LEMMA HeadNamesDiffer ==
  ASSUME NEW n \in {7, 9}
  PROVE  \A j \in 1..n :
           /\ HeadNames(n)[j] \notin TailNames
           /\ \A i \in 1..n : HeadNames(n)[i] = HeadNames(n)[j] => i = j
<1>1. CASE n = 7
  BY <1>1 DEF HeadNames, TailNames
<1>2. CASE n = 9
  BY <1>2 DEF HeadNames, TailNames
<1> QED BY <1>1, <1>2

\* Of a text that goes on after [notify], all before is whole.
LEMMA HeadOfCut ==
  ASSUME NEW x, NEW y, NEW n, Shaped(y, n), CutOf(x, y), n < Len(x)
  PROVE  \A j \in 1..n : /\ HeadNames(n)[j] \in Names(x)
                         /\ Section(x, HeadNames(n)[j]) = y[j].fields
<1>1. /\ Len(x) \in Nat /\ Len(y) \in Nat /\ n \in {7, 9} /\ Len(x) <= Len(y)
      /\ DOMAIN x = 1..Len(x)
  BY TextIsSeq DEF CutOf, Shaped, IsText
<1> SUFFICES ASSUME NEW j \in 1..n
             PROVE  /\ HeadNames(n)[j] \in Names(x)
                    /\ Section(x, HeadNames(n)[j]) = y[j].fields
  OBVIOUS
<1>2. j \in 1..Len(x) /\ j \in 1..(Len(x) - 1)
  BY <1>1
<1>3. x[j] = y[j] /\ x[j].name = HeadNames(n)[j]
  BY <1>2 DEF CutOf, Shaped
<1>4. ASSUME NEW i \in 1..Len(x), x[i].name = x[j].name
      PROVE  i = j
  <2>1. x[i].name = y[i].name
    BY DEF CutOf
  <2>2. CASE i \in 1..n
    <3>1. y[i].name = HeadNames(n)[i]
      BY <2>2 DEF Shaped
    <3> QED BY <1>1, <1>3, <1>4, <2>1, <2>2, <3>1, HeadNamesDiffer
  <2>3. CASE i \in (n + 1)..Len(y)
    <3>1. y[i].name \in TailNames
      BY <2>3 DEF Shaped
    <3> QED BY <1>1, <1>3, <1>4, <2>1, <3>1, HeadNamesDiffer
  <2> QED BY <1>1, <2>2, <2>3
<1>5. Section(x, x[j].name) = x[j].fields
  BY <1>2, <1>4, SectionAt DEF CutOf
<1> QED BY <1>1, <1>2, <1>3, <1>5 DEF Names

\* A text with a channel goes on after [notify].
LEMMA ChannelsComeLater ==
  ASSUME NEW x, NEW y, NEW n, Shaped(y, n), CutOf(x, y),
         {"notify.ntfy", "notify.smtp"} \cap Names(x) # {}
  PROVE  n < Len(x)
<1>1. PICK i \in 1..Len(x) : x[i].name \in {"notify.ntfy", "notify.smtp"}
  BY TextIsSeq DEF Names, CutOf
<1>2. y[i].name \in TailNames
  BY <1>1 DEF CutOf, TailNames
<1>3. Len(x) \in Nat /\ Len(y) \in Nat /\ n \in {7, 9} /\ Len(x) <= Len(y)
  BY DEF CutOf, Shaped, IsText
<1>4. ~(i \in 1..n)
  BY <1>2, <1>3, HeadNamesDiffer DEF Shaped
<1> QED BY <1>3, <1>4

LEMMA WalletOfCut ==
  ASSUME NEW x, NEW y, NEW n, Shaped(y, n), CutOf(x, y),
         {"notify.ntfy", "notify.smtp"} \cap Names(x) # {}
  PROVE  Wallet(x) = Wallet(y)
<1>1. n < Len(x) /\ n \in {7, 9} /\ Len(x) \in Nat /\ Len(y) \in Nat
      /\ Len(x) <= Len(y)
  BY ChannelsComeLater DEF Shaped, CutOf, IsText
<1>2. CutOf(y, y)
  BY DEF CutOf, Shaped
<1>3. \A j \in 1..n : Section(x, HeadNames(n)[j]) = Section(y, HeadNames(n)[j])
  BY <1>1, <1>2, HeadOfCut
<1>4. KeyTables \cup {"wallet", "server_signing", "policy", "notify"}
        \subseteq {HeadNames(n)[j] : j \in 1..n}
  <2>1. CASE n = 7
    BY <2>1 DEF HeadNames, KeyTables
  <2>2. CASE n = 9
    BY <2>2 DEF HeadNames, KeyTables
  <2> QED BY <1>1, <2>1, <2>2
<1> QED BY <1>3, <1>4 DEF Wallet

-----------------------------------------------------------------------------
(* Texts with no two tables of a name. *)

LEMMA NamesDiffer ==
  ASSUME NEW x, IsText(x)
  PROVE  /\ IsFiniteSet(Names(x))
         /\ Cardinality(Names(x)) = Len(x) <=>
              \A i, j \in 1..Len(x) : x[i].name = x[j].name => i = j
<1> DEFINE f == [i \in 1..Len(x) |-> x[i].name]
<1>1. DOMAIN x = 1..Len(x) /\ Len(x) \in Nat
  BY TextIsSeq DEF IsText
<1>2. f \in Surjection(1..Len(x), Names(x))
  BY <1>1 DEF Surjection, Names
<1>3. IsFiniteSet(1..Len(x)) /\ Cardinality(1..Len(x)) = Len(x)
  <2>1. 1 \in Int /\ Len(x) \in Int
    BY <1>1
  <2>2. /\ IsFiniteSet(1..Len(x))
        /\ Cardinality(1..Len(x)) = IF 1 > Len(x) THEN 0 ELSE Len(x) - 1 + 1
    BY <2>1, FS_Interval
  <2> QED BY <1>1, <2>2
<1>4. /\ IsFiniteSet(Names(x))
      /\ Cardinality(Names(x)) = Cardinality(1..Len(x)) <=>
           f \in Injection(1..Len(x), Names(x))
  <2> HIDE DEF f
  <2> QED BY <1>2, <1>3, FS_Surjection
<1>5. f \in Injection(1..Len(x), Names(x)) <=>
        \A i, j \in 1..Len(x) : x[i].name = x[j].name => i = j
  BY <1>1 DEF Injection, IsInjective, Names
<1> QED BY <1>3, <1>4, <1>5

LEMMA LoadedSection ==
  ASSUME NEW x, IsText(x), Parses(x), NEW j \in 1..Len(x)
  PROVE  Section(x, x[j].name) = x[j].fields
BY NamesDiffer, SectionAt DEF Parses

-----------------------------------------------------------------------------
(* What the entrypoint adds. *)

Box(e) == DeploymentTables(e.rpc_url, Auth(e), e.bind_addr, GapLimit(e),
                           "ledger")

LEMMA BoxAdded ==
  ASSUME NEW e, NEW x, IsText(x)
  PROVE  LET whole == generated_toml(e, x)
         IN /\ IsText(whole) /\ Len(whole) = Len(x) + 2
            /\ \A i \in 1..Len(x) : whole[i] = x[i]
            /\ whole[Len(x) + 1] = Box(e)[1] /\ whole[Len(x) + 2] = Box(e)[2]
            /\ Box(e)[1].name = "bitcoind" /\ Box(e)[2].name = "server"
            /\ Names(whole) = Names(x) \cup {"bitcoind", "server"}
<1> DEFINE whole == generated_toml(e, x)
<1>1. /\ IsText(Box(e)) /\ Len(Box(e)) = 2
      /\ Box(e)[1].name = "bitcoind" /\ Box(e)[2].name = "server"
  BY DEF Box, DeploymentTables, IsText, Table
<1>2. whole = x \o Box(e)
  BY DEF generated_toml, Box
<1> HIDE DEF whole
<1>3. /\ IsText(whole) /\ Len(whole) = Len(x) + Len(Box(e))
      /\ \A i \in 1..Len(x) : whole[i] = x[i]
      /\ \A i \in (Len(x) + 1)..(Len(x) + Len(Box(e))) :
           whole[i] = Box(e)[i - Len(x)]
  BY <1>1, <1>2, Joined
<1>4. Len(x) \in Nat /\ DOMAIN x = 1..Len(x) /\ DOMAIN whole = 1..Len(whole)
  BY <1>3, TextIsSeq DEF IsText
<1>5. whole[Len(x) + 1] = Box(e)[1] /\ whole[Len(x) + 2] = Box(e)[2]
  BY <1>1, <1>3, <1>4
<1>6. Len(whole) = Len(x) + 2
  BY <1>1, <1>3
<1>7. \A i \in 1..Len(whole) :
        i \in 1..Len(x) \/ i = Len(x) + 1 \/ i = Len(x) + 2
  BY <1>4, <1>6
<1>8. /\ Len(x) + 1 \in 1..Len(whole) /\ Len(x) + 2 \in 1..Len(whole)
      /\ 1..Len(x) \subseteq 1..Len(whole)
  BY <1>4, <1>6
<1>9. Names(whole) = Names(x) \cup {"bitcoind", "server"}
  <2>1. ASSUME NEW name \in Names(whole)
        PROVE  name \in Names(x) \cup {"bitcoind", "server"}
    <3>1. PICK i \in 1..Len(whole) : name = whole[i].name
      BY <1>4 DEF Names
    <3> QED BY <1>1, <1>3, <1>4, <1>5, <1>7, <3>1 DEF Names
  <2>2. ASSUME NEW name \in Names(x) PROVE name \in Names(whole)
    <3>1. PICK i \in 1..Len(x) : name = x[i].name
      BY <1>4 DEF Names
    <3> QED BY <1>3, <1>4, <1>8, <3>1 DEF Names
  <2>3. "bitcoind" \in Names(whole) /\ "server" \in Names(whole)
    BY <1>1, <1>4, <1>5, <1>8 DEF Names
  <2> QED BY <2>1, <2>2, <2>3
<1> QED BY <1>1, <1>3, <1>5, <1>6, <1>9 DEF whole

\* The entrypoint leaves the sections that are there.
LEMMA SectionOfServed ==
  ASSUME NEW e, NEW x, IsText(x), Parses(ServedText(e, x)),
         NEW name \in Names(x)
  PROVE  Section(ServedText(e, x), name) = Section(x, name)
<1>1. CASE ~e.container
  BY <1>1 DEF ServedText
<1>2. CASE e.container
  <2> DEFINE whole == generated_toml(e, x)
  <2>1. ServedText(e, x) = whole
    BY <1>2 DEF ServedText
  <2>2. /\ IsText(whole) /\ Len(whole) = Len(x) + 2
        /\ \A i \in 1..Len(x) : whole[i] = x[i]
    BY BoxAdded
  <2>3. Parses(whole)
    BY <2>1
  <2> HIDE DEF whole
  <2>4. DOMAIN x = 1..Len(x) /\ Len(x) \in Nat
    BY TextIsSeq DEF IsText
  <2>5. PICK i \in 1..Len(x) : x[i].name = name
    BY <2>4 DEF Names
  <2>6. \A j \in 1..Len(x) : j \in 1..Len(whole)
    BY <2>2, <2>4
  <2>7. Section(whole, name) = whole[i].fields
    BY <2>2, <2>3, <2>5, <2>6, LoadedSection
  <2>8. \A j, k \in 1..Len(whole) : whole[j].name = whole[k].name => j = k
    BY <2>2, <2>3, NamesDiffer DEF Parses
  <2>9. \A j \in 1..Len(x) : x[j].name = x[i].name => j = i
    BY <2>2, <2>6, <2>8
  <2>10. Section(x, name) = x[i].fields
    BY <2>5, <2>9, SectionAt
  <2> QED BY <2>1, <2>2, <2>5, <2>7, <2>10
<1> QED BY <1>1, <1>2

LEMMA NamesOfServed ==
  ASSUME NEW e, NEW x, IsText(x)
  PROVE  /\ Names(x) \subseteq Names(ServedText(e, x))
         /\ Names(ServedText(e, x))
              \subseteq Names(x) \cup {"bitcoind", "server"}
BY BoxAdded DEF ServedText

\* No ledger is opened without a channel, nor without a policy.
LEMMA OpensWithChannel ==
  ASSUME NEW e, NEW x, NEW key, IsText(x), Opens(e, x, key)
  PROVE  /\ {"notify.ntfy", "notify.smtp"} \cap Names(x) # {}
         /\ policy_json(ServedText(e, x)) = policy_json(x)
<1> DEFINE whole == ServedText(e, x)
<1>1. /\ Loads(whole) /\ "notify" \in Names(whole) /\ "policy" \in Names(whole)
      /\ Parses(whole) /\ ValidNotify(whole)
  BY DEF Opens, opens_ledger, Loads, validate
<1>2. Names(whole) \subseteq Names(x) \cup {"bitcoind", "server"}
  BY NamesOfServed
<1>3. {"notify.ntfy", "notify.smtp"} \cap Names(x) # {}
  BY <1>1, <1>2 DEF ValidNotify
<1>4. Section(whole, "policy") = Section(x, "policy")
  BY <1>1, <1>2, SectionOfServed
<1> QED BY <1>3, <1>4 DEF policy_json

-----------------------------------------------------------------------------
(* Where texts come from. *)

\* What the wizard writes for a form, and what init does for a script.
Origins(keys) ==
  {render_user_toml(build_answers(e, form, k)) :
     e \in Environments, form \in Requests, k \in keys}
  \cup {InitText(script) : script \in Scripts}

\* A text that came from one of them, whole or cut.
Agreed(text, keys) == \E origin \in Origins(keys) : CutOf(text, origin)

\* What finish has accepted.
Finished(text, k) ==
  /\ Loads(text)
  /\ \E e \in Environments, form \in Requests :
       text = render_user_toml(build_answers(e, form, k))

LEMMA OriginShaped ==
  ASSUME NEW keys, NEW origin \in Origins(keys)
  PROVE  IsText(origin) /\ \E n \in {7, 9} : Shaped(origin, n)
<1>1. \E deployment \in BOOLEAN : \E a : origin = render(a, deployment)
  <2>1. CASE \E script \in Scripts : origin = InitText(script)
    <3>1. PICK script \in Scripts : origin = InitText(script)
      BY <2>1
    <3>2. origin = render(run_interactive(script), TRUE)
      BY <3>1 DEF InitText, render_toml
    <3> QED BY <3>2
  <2>2. CASE \E e \in Environments, form \in Requests, k \in keys :
               origin = render_user_toml(build_answers(e, form, k))
    <3>1. PICK e \in Environments, form \in Requests, k \in keys :
            origin = render_user_toml(build_answers(e, form, k))
      BY <2>2
    <3>2. origin = render(build_answers(e, form, k), FALSE)
      BY <3>1 DEF render_user_toml
    <3> QED BY <3>2
  <2> QED BY <2>1, <2>2 DEF Origins
<1>2. PICK deployment \in BOOLEAN : \E a : origin = render(a, deployment)
  BY <1>1
<1>3. Shaped(origin, IF deployment THEN 9 ELSE 7)
  BY <1>2, RenderShaped
<1> QED BY <1>3 DEF Shaped

LEMMA AgreedStays ==
  ASSUME NEW keys, NEW more, keys \subseteq more
  PROVE  \A text : Agreed(text, keys) => Agreed(text, more)
BY DEF Agreed, Origins

LEMMA OriginIsAgreed ==
  ASSUME NEW keys, NEW origin \in Origins(keys)
  PROVE  Agreed(origin, keys)
<1>1. CutOf(origin, origin)
  BY OriginShaped DEF CutOf, IsText
<1> QED BY <1>1 DEF Agreed

LEMMA FinishedIsAgreed ==
  ASSUME NEW keys, NEW k \in keys, NEW text, Finished(text, k)
  PROVE  Agreed(text, keys)
<1>1. text \in Origins(keys)
  BY DEF Finished, Origins
<1> QED BY <1>1, OriginIsAgreed

LEMMA RemainsOfAgreed ==
  ASSUME NEW keys, NEW text, Agreed(text, keys), NEW rest \in Remains(text)
  PROVE  Agreed(rest, keys)
<1>1. PICK origin \in Origins(keys) : CutOf(text, origin)
  BY DEF Agreed
<1>2. CutOf(rest, text)
  BY <1>1, RemainsAreCuts DEF CutOf
<1>3. Len(origin) \in Nat
  BY OriginShaped DEF IsText
<1>4. CutOf(rest, origin)
  BY <1>1, <1>2, <1>3, CutOfCut
<1> QED BY <1>4 DEF Agreed

\* What serves has the wallet of the text it came from.
WalletAgreed(text, keys) ==
  \E origin \in Origins(keys) : Wallet(text) = Wallet(origin)

LEMMA OpenedIsAgreed ==
  ASSUME NEW e, NEW text, NEW key, NEW keys,
         Agreed(text, keys), Opens(e, text, key)
  PROVE  /\ WalletAgreed(text, keys)
         /\ \E origin \in Origins(keys) :
              policy_json(ServedText(e, text)) = policy_json(origin)
<1>1. PICK origin \in Origins(keys) : CutOf(text, origin)
  BY DEF Agreed
<1>2. PICK n \in {7, 9} : Shaped(origin, n)
  BY OriginShaped
<1>3. /\ {"notify.ntfy", "notify.smtp"} \cap Names(text) # {}
      /\ policy_json(ServedText(e, text)) = policy_json(text)
  BY <1>1, OpensWithChannel DEF CutOf
<1>4. Wallet(text) = Wallet(origin)
  BY <1>1, <1>2, <1>3, WalletOfCut
<1>5. Section(text, "policy") = Section(origin, "policy")
  <2>1. /\ Wallet(text)["policy"] = Section(text, "policy")
        /\ Wallet(origin)["policy"] = Section(origin, "policy")
    BY DEF Wallet
  <2> QED BY <1>4, <2>1
<1> QED BY <1>3, <1>4, <1>5 DEF WalletAgreed, policy_json

LEMMA WalletAgreedStays ==
  ASSUME NEW keys, NEW more, keys \subseteq more
  PROVE  \A text : WalletAgreed(text, keys) => WalletAgreed(text, more)
BY DEF WalletAgreed, Origins

-----------------------------------------------------------------------------
(* What was finished: from the form to the pair, and to the kits of it. *)

FormsOK ==
  /\ env \in Environments /\ generated \in made \cup {Nothing}
  /\ \A t \in Tab :
       /\ tab[t].pc = "check" => tab[t].form \in Requests
       /\ tab[t].pc \in {"key", "toml"} => Finished(tab[t].text, generated)

KitFinished(k) == k # NoKit /\ k.stands => Finished(k.text, k.key)

PairsOK ==
  /\ \A pair \in standing : Finished(pair.text, pair.key)
  /\ KitFinished(kit) /\ \A r \in Relay : KitFinished(relays[r].kit)

\* A tab that moved, and the others.
LEMMA TabMoves ==
  ASSUME TabShape, NEW t \in Tab, NEW new, tab' = [tab EXCEPT ![t] = new]
  PROVE  tab'[t] = new /\ \A u \in Tab \ {t} : tab'[u] = tab[u]
BY DEF TabShape

LEMMA TabMovesOn ==
  ASSUME TabShape, NEW t \in Tab, NEW pc, tab' = [tab EXCEPT ![t].pc = pc]
  PROVE  /\ tab'[t].pc = pc /\ tab'[t].text = tab[t].text
         /\ \A u \in Tab \ {t} : tab'[u] = tab[u]
<1> DEFINE old == [pc |-> tab[t].pc, form |-> tab[t].form, text |-> tab[t].text]
<1>1. tab[t] = old
  BY DEF TabShape
<1>2. [old EXCEPT !.pc = pc]
        = [pc |-> pc, form |-> tab[t].form, text |-> tab[t].text]
  OBVIOUS
<1>3. tab' = [tab EXCEPT ![t] = [tab[t] EXCEPT !.pc = pc]]
  OBVIOUS
<1> HIDE DEF old
<1>4. tab' = [tab EXCEPT ![t] =
                [pc |-> pc, form |-> tab[t].form, text |-> tab[t].text]]
  BY <1>1, <1>2, <1>3
<1>5. tab'[t] = [pc |-> pc, form |-> tab[t].form, text |-> tab[t].text]
      /\ \A u \in Tab \ {t} : tab'[u] = tab[u]
  BY <1>4, TabMoves
<1> QED BY <1>5

LEMMA EndFormsOK ==
  ASSUME FormsOK, Ended, UNCHANGED env
  PROVE  FormsOK'
BY DEF FormsOK, Ended, Idle

LEMMA FormsOKStep ==
  ASSUME FormsOK, SetupInv, [Next]_vars
  PROVE  FormsOK'
<1> USE DEF files, process, history
<1>1. CASE UNCHANGED <<process, made>> /\ env' \in Environments
  BY <1>1 DEF FormsOK
<1>2. CASE StartSetup \/ StartServe \/ StartEnds \/ start
  BY <1>2 DEF FormsOK, StartSetup, StartServe, StartEnds, start
<1>3. CASE Reconfigure
  BY <1>1, <1>3 DEF Reconfigure
<1>4. CASE server_key
  BY <1>4 DEF FormsOK, server_key, LockFree
<1>5. CASE Exit \/ Crash \/ LoseDisk \/ \E t \in Tab : CrashInKey(t)
                                                       \/ CrashInToml(t)
  BY <1>5, EndFormsOK DEF Exit, Crash, LoseDisk, CrashInKey, CrashInToml
<1>6. ASSUME NEW t \in Tab, NEW form \in Requests, finish_check(t, form)
      PROVE  FormsOK'
  <2>1. /\ tab'[t] = [pc |-> "check", form |-> form, text |-> Garbled]
        /\ \A u \in Tab \ {t} : tab'[u] = tab[u]
    BY <1>6, TabMoves DEF finish_check, SetupInv
  <2> QED BY <1>6, <2>1 DEF FormsOK, finish_check
<1>7. ASSUME NEW t \in Tab, finish_render(t) PROVE FormsOK'
  <2> DEFINE answers == build_answers(env, tab[t].form, generated)
             text == render_user_toml(answers)
  <2>1. tab' = [tab EXCEPT ![t] =
                  IF FinishAccepts(tab[t].form, text)
                  THEN [pc |-> "key", form |-> Nothing, text |-> text]
                  ELSE Idle]
    BY <1>7 DEF finish_render
  <2> HIDE DEF text
  <2>2. /\ tab'[t] = IF FinishAccepts(tab[t].form, text)
                     THEN [pc |-> "key", form |-> Nothing, text |-> text]
                     ELSE Idle
        /\ \A u \in Tab \ {t} : tab'[u] = tab[u]
    BY <2>1, TabMoves DEF SetupInv
  <2>3. tab[t].form \in Requests /\ env \in Environments
    BY <1>7 DEF finish_render, FormsOK
  <2>4. UNCHANGED <<env, generated, made>>
    BY <1>7 DEF finish_render
  <2>5. CASE FinishAccepts(tab[t].form, text)
    <3>1. Finished(text, generated)
      BY <2>3, <2>5 DEF FinishAccepts, Finished, text
    <3>2. tab'[t].pc = "key" /\ tab'[t].text = text
      BY <2>2, <2>5
    <3> QED BY <2>2, <2>4, <3>1, <3>2 DEF FormsOK
  <2>6. CASE ~FinishAccepts(tab[t].form, text)
    <3>1. tab'[t].pc = "idle"
      BY <2>2, <2>6 DEF Idle
    <3> QED BY <2>2, <2>4, <3>1 DEF FormsOK
  <2> QED BY <2>5, <2>6
<1>8. ASSUME NEW t \in Tab, write_key(t) \/ write_key_fails(t)
      PROVE  FormsOK'
  <2>1. UNCHANGED <<env, generated, made>> /\ tab[t].pc = "key"
        /\ (tab' = [tab EXCEPT ![t] = Idle]
            \/ tab' = [tab EXCEPT ![t].pc = "toml"])
    BY <1>8 DEF write_key, write_key_fails
  <2>2. /\ \A u \in Tab \ {t} : tab'[u] = tab[u]
        /\ \/ tab'[t] = Idle
           \/ tab'[t].pc = "toml" /\ tab'[t].text = tab[t].text
    BY <2>1, TabMoves, TabMovesOn DEF SetupInv
  <2> QED BY <2>1, <2>2 DEF FormsOK, Idle
<1>9. ASSUME NEW t \in Tab, write_toml(t) \/ write_toml_fails(t)
      PROVE  FormsOK'
  <2>1. UNCHANGED <<env, made>> /\ generated' \in {generated, Nothing}
        /\ tab' = [tab EXCEPT ![t] = Idle] /\ tab[t].pc = "toml"
    BY <1>9 DEF write_toml, write_toml_fails
  <2>2. tab'[t] = Idle /\ \A u \in Tab \ {t} : tab'[u] = tab[u]
    BY <2>1, TabMoves DEF SetupInv
  <2>3. \A u \in Tab \ {t} : tab[u].pc \notin {"key", "toml"}
    BY <2>1 DEF SetupInv, TypeOK
  <2> QED BY <2>1, <2>2, <2>3 DEF FormsOK, Idle
<1>10. CASE Operator
  <2>1. UNCHANGED <<process, made, env>>
    BY <1>10 DEF Operator, init_check, init_write, place_key, export, publish,
                 fetch, import_check, import_config, import_key, quit
  <2> QED BY <1>1, <2>1 DEF FormsOK
<1>11. CASE UNCHANGED vars
  BY <1>1, <1>11 DEF vars, FormsOK
<1> QED
  BY <1>2, <1>3, <1>4, <1>5, <1>6, <1>7, <1>8, <1>9, <1>10, <1>11
  DEF Next, SetupNext, WizardStep, Finish

LEMMA PairsOKStep ==
  ASSUME PairsOK, FormsOK, SetupInv, [Next]_vars
  PROVE  PairsOK'
<1> USE DEF files, process, history, kits, nostr
<1>1. CASE UNCHANGED <<standing, kit, relays>>
  BY <1>1 DEF PairsOK, KitFinished
<1>2. CASE standing' = {} /\ UNCHANGED <<kit, relays>>
  BY <1>2 DEF PairsOK, KitFinished
<1>3. ASSUME NEW t \in Tab, write_toml(t), UNCHANGED kits
      PROVE  PairsOK'
  <2> DEFINE pair == [text |-> tab[t].text, key |-> generated]
  <2>1. standing' = standing \cup {pair} /\ UNCHANGED <<kit, relays>>
    BY <1>3 DEF write_toml
  <2>2. Finished(pair.text, pair.key)
    BY <1>3 DEF write_toml, FormsOK
  <2> HIDE DEF pair
  <2> QED BY <2>1, <2>2 DEF PairsOK, KitFinished
<1>4. CASE export
  <2>1. /\ kit' = [text |-> toml.text, key |-> xprv.key, whole |-> xprv.whole,
                   stands |-> standing # {}]
        /\ UNCHANGED <<standing, relays>>
    BY <1>4 DEF export
  <2>2. kit'.text = toml.text /\ kit'.key = xprv.key
    BY <2>1
  <2>3. kit'.stands = (standing # {})
    BY <2>1, Zenon
  <2>4. standing # {} => Finished(toml.text, xprv.key)
    BY DEF PairsOK, SetupInv, AnsweredWalletStands
  <2>5. KitFinished(kit')
    BY <2>2, <2>3, <2>4, Zenon DEF KitFinished
  <2> QED BY <2>1, <2>5 DEF PairsOK, KitFinished
<1>5. CASE publish
  <2>1. PICK at :
          relays' \in [Relay -> {relays[r] : r \in Relay}
                                \cup {[kit |-> kit, at |-> at]}]
    BY <1>5 DEF publish
  <2>2. \A r \in Relay : \/ \E q \in Relay : relays'[r] = relays[q]
                         \/ relays'[r] = [kit |-> kit, at |-> at]
    BY <2>1
  <2>3. \A r \in Relay : \/ \E q \in Relay : relays'[r].kit = relays[q].kit
                         \/ relays'[r].kit = kit
    BY <2>2
  <2>4. kit' = kit /\ standing' = standing
    BY <1>5 DEF publish
  <2> QED BY <2>3, <2>4 DEF PairsOK, KitFinished
<1>6. CASE fetch
  <2>1. PICK answering \in SUBSET Relay :
          \E e \in Found(answering) : kit' = e.kit
    BY <1>6 DEF fetch
  <2>2. PICK r \in Relay : kit' = relays[r].kit
    BY <2>1 DEF Found, Newest
  <2>3. relays' = relays /\ standing' = standing
    BY <1>6 DEF fetch
  <2> QED BY <2>2, <2>3 DEF PairsOK, KitFinished
<1>7. CASE import_key
  <2>1. UNCHANGED <<kit, relays>> /\ kit # NoKit
    BY <1>7 DEF import_key, SetupInv, BetweenImports
  <2>2. CASE standing' = {}
    BY <1>2, <2>1, <2>2
  <2>3. CASE standing' # {}
    <3> DEFINE pair == [text |-> kit.text, key |-> kit.key]
    <3>1. kit.stands /\ standing' = {pair}
      BY <1>7, <2>3 DEF import_key
    <3>2. Finished(pair.text, pair.key)
      BY <2>1, <3>1 DEF PairsOK, KitFinished
    <3> HIDE DEF pair
    <3> QED BY <2>1, <3>1, <3>2 DEF PairsOK, KitFinished
  <2> QED BY <2>2, <2>3
<1>8. CASE LoseDisk
  BY <1>8 DEF LoseDisk, PairsOK, KitFinished
<1>9. CASE init_check \/ import_check
  BY <1>1, <1>9 DEF init_check, import_check
<1>10. CASE place_key \/ import_config \/ quit
            \/ \E script \in Scripts : init_write(script)
  BY <1>1, <1>2, <1>10 DEF place_key, import_config, quit, init_write
<1>11. CASE SetupNext /\ UNCHANGED kits
  <2>1. CASE \E t \in Tab : write_toml(t)
    BY <1>3, <1>11, <2>1
  <2>2. CASE ~\E t \in Tab : write_toml(t)
    BY <1>1, <1>11, <2>2
    DEF SetupNext, WizardStep, StartSetup, StartServe, StartEnds, Reconfigure,
        server_key, start, Exit, Crash, finish_check, Finish, finish_render,
        write_key, write_key_fails, write_toml_fails, CrashInKey, CrashInToml
  <2> QED BY <2>1, <2>2
<1>12. CASE UNCHANGED vars
  BY <1>1, <1>12 DEF vars
<1> QED
  BY <1>4, <1>5, <1>6, <1>7, <1>8, <1>9, <1>10, <1>11, <1>12 DEF Next, Operator

-----------------------------------------------------------------------------
(* What is on the disk, in a kit or served came from an answer. *)

FilesAgreed ==
  /\ toml # NoFile => Agreed(toml.text, made)
  /\ toml.by = "init" => toml.text = Garbled \/ Loads(toml.text)
  /\ serving # NoFile => WalletAgreed(serving.text, made)

KitAgreed(k) == k # NoKit => Agreed(k.text, made)

KitsAgreed == KitAgreed(kit) /\ \A r \in Relay : KitAgreed(relays[r].kit)

\* Keys are only added to those made.
LEMMA MadeGrows ==
  ASSUME [Next]_vars
  PROVE  made \subseteq made'
<1>1. CASE server_key
  BY <1>1 DEF server_key
<1>2. CASE ~server_key
  <2>1. CASE SetupNext
    BY <1>2, <2>1
    DEF SetupNext, WizardStep, StartSetup, StartServe, StartEnds, Reconfigure,
        start, Exit, Crash, finish_check, Finish, finish_render, write_key,
        write_key_fails, write_toml, write_toml_fails, CrashInKey, CrashInToml,
        history
  <2>2. CASE Operator \/ LoseDisk
    BY <2>2 DEF Operator, init_check, init_write, place_key, export, publish,
                fetch, import_check, import_config, import_key, quit, LoseDisk,
                history
  <2>3. CASE UNCHANGED vars
    BY <2>3 DEF vars, history
  <2> QED BY <2>1, <2>2, <2>3 DEF Next
<1> QED BY <1>1, <1>2

\* A step that leaves or loses the files it does not write.
LEMMA WrittenAgreed ==
  ASSUME FilesAgreed, [Next]_vars,
         \/ toml' = toml \/ toml' = NoFile
         \/ /\ Agreed(toml'.text, made')
            /\ toml'.by = "init" => toml'.text = Garbled \/ Loads(toml'.text),
         serving' = serving \/ serving' = NoFile
         \/ WalletAgreed(serving'.text, made')
  PROVE  FilesAgreed'
<1>1. made \subseteq made'
  BY MadeGrows
<1>2. /\ Agreed(toml.text, made) => Agreed(toml.text, made')
      /\ WalletAgreed(serving.text, made) => WalletAgreed(serving.text, made')
  BY <1>1, AgreedStays, WalletAgreedStays
<1>3. NoFile.by # "init"
  BY DEF NoFile
<1> QED BY <1>2, <1>3 DEF FilesAgreed

LEMMA FilesAgreedStep ==
  ASSUME FilesAgreed, KitsAgreed, FormsOK, SetupInv, [Next]_vars
  PROVE  FilesAgreed'
<1> USE DEF files, process, history
<1>1. CASE toml' \in {toml, NoFile} /\ serving' \in {serving, NoFile}
  BY <1>1, WrittenAgreed
<1>2. CASE StartServe
  <2>1. /\ toml # NoFile /\ Opens(env, toml.text, xprv) /\ serving' = toml
        /\ toml' = toml /\ made' = made
    BY <1>2 DEF StartServe, Boots
  <2>2. WalletAgreed(toml.text, made)
    BY <2>1, OpenedIsAgreed DEF FilesAgreed
  <2> QED BY <2>1, <2>2, WrittenAgreed
<1>3. ASSUME NEW t \in Tab, tab[t].pc = "toml",
             \/ toml' = [text |-> tab[t].text, by |-> "setup"]
             \/ \E rest \in Remains(tab[t].text) :
                  toml' = [text |-> rest, by |-> "setup"],
             serving' \in {serving, NoFile}, made' = made
      PROVE  FilesAgreed'
  <2>1. Finished(tab[t].text, generated) /\ generated \in made
    BY <1>3 DEF FormsOK, SetupInv, TypeOK
  <2>2. Agreed(tab[t].text, made)
    BY <2>1, FinishedIsAgreed
  <2>3. PICK text : toml' = [text |-> text, by |-> "setup"]
                    /\ Agreed(text, made)
    BY <1>3, <2>2, RemainsOfAgreed
  <2>4. toml'.text = text /\ toml'.by # "init"
    BY <2>3
  <2> QED BY <1>3, <2>3, <2>4, WrittenAgreed
<1>4. ASSUME NEW t \in Tab,
             write_toml(t) \/ write_toml_fails(t) \/ CrashInToml(t)
      PROVE  FilesAgreed'
  <2>1. tab[t].pc = "toml" /\ serving' \in {serving, NoFile} /\ made' = made
    BY <1>4 DEF write_toml, write_toml_fails, CrashInToml, Ended
  <2>2. \/ toml' = toml
        \/ toml' = [text |-> tab[t].text, by |-> "setup"]
        \/ \E rest \in Remains(tab[t].text) :
             toml' = [text |-> rest, by |-> "setup"]
    BY <1>4 DEF write_toml, write_toml_fails, CrashInToml
  <2> QED BY <1>1, <1>3, <2>1, <2>2
<1>5. ASSUME NEW script \in Scripts, init_write(script) PROVE FilesAgreed'
  <2>1. serving' = serving /\ made' = made
    BY <1>5 DEF init_write
  <2>2. CASE Loads(InitText(script))
    <3>1. InitText(script) \in Origins(made)
      BY DEF Origins
    <3>2. IsText(InitText(script)) /\ Agreed(InitText(script), made)
      BY <3>1, OriginShaped, OriginIsAgreed
    <3>3. PICK text \in {InitText(script)} \cup Remains(InitText(script)) :
            toml' = [text |-> text, by |-> "init"]
      BY <1>5, <2>2 DEF init_write
    <3>4. Agreed(text, made) /\ (text = Garbled \/ Loads(text))
      <4>1. CASE text = InitText(script)
        BY <2>2, <3>2, <4>1
      <4>2. CASE text \in Remains(InitText(script))
        <5>1. Agreed(text, made)
          BY <3>2, <4>2, RemainsOfAgreed
        <5>2. text = Garbled \/ text = InitText(script) \/ Loads(text)
          BY <3>2, <4>2, RemainsAreCuts
        <5> QED BY <2>2, <5>1, <5>2
      <4> QED BY <4>1, <4>2
    <3>5. toml'.text = text
      BY <3>3
    <3> QED BY <2>1, <3>4, <3>5, WrittenAgreed
  <2>3. CASE ~Loads(InitText(script))
    BY <1>1, <1>5, <2>1, <2>3 DEF init_write
  <2> QED BY <2>2, <2>3
<1>6. CASE import_config \/ (quit /\ op = "import_config")
  <2>1. /\ op = "import_config" /\ serving' = serving /\ made' = made
        /\ \/ toml' = toml
           \/ toml' = [text |-> kit.text, by |-> "import"]
           \/ \E rest \in Remains(kit.text) :
                toml' = [text |-> rest, by |-> "import"]
    BY <1>6 DEF import_config, quit
  <2>2. Agreed(kit.text, made)
    BY <2>1 DEF KitsAgreed, KitAgreed, SetupInv, BetweenImports
  <2>3. CASE toml' = toml
    BY <1>1, <2>1, <2>3
  <2>4. CASE toml' # toml
    <3>1. PICK text : toml' = [text |-> text, by |-> "import"]
                      /\ Agreed(text, made)
      BY <2>1, <2>2, <2>4, RemainsOfAgreed
    <3>2. toml'.text = text /\ toml'.by # "init"
      BY <3>1
    <3> QED BY <2>1, <3>1, <3>2, WrittenAgreed
  <2> QED BY <2>3, <2>4
<1>7. CASE SetupNext /\ ~StartServe /\ ~\E t \in Tab :
             write_toml(t) \/ write_toml_fails(t) \/ CrashInToml(t)
  BY <1>1, <1>7
  DEF SetupNext, WizardStep, StartSetup, StartEnds, Reconfigure, server_key,
      start, Exit, Crash, finish_check, Finish, finish_render, write_key,
      write_key_fails, CrashInKey, Ended
<1>8. CASE init_check \/ place_key \/ export \/ publish \/ fetch
           \/ import_check \/ import_key \/ LoseDisk \/ UNCHANGED vars
           \/ (quit /\ op # "import_config")
  BY <1>1, <1>8 DEF init_check, place_key, export, publish, fetch,
                    import_check, import_key, LoseDisk, vars, quit, Ended
<1> QED
  BY <1>2, <1>4, <1>5, <1>6, <1>7, <1>8 DEF Next, Operator

\* What a ledger has for its policy is that of one of them.
RowAgreed(row, keys) ==
  row # Nothing => \E origin \in Origins(keys) : row = policy_json(origin)

RowsAgreed ==
  /\ stored = [path \in LedgerPath |-> stored[path]]
  /\ \A path \in LedgerPath : RowAgreed(stored[path], made)

LEMMA RowAgreedStays ==
  ASSUME NEW keys, NEW more, keys \subseteq more
  PROVE  \A row : RowAgreed(row, keys) => RowAgreed(row, more)
BY DEF RowAgreed, Origins

LEMMA RowsAgreedStep ==
  ASSUME RowsAgreed, FilesAgreed, [Next]_vars
  PROVE  RowsAgreed'
<1> USE DEF files, process, history
<1>1. CASE UNCHANGED stored
  <2>1. \A row : RowAgreed(row, made) => RowAgreed(row, made')
    BY MadeGrows, RowAgreedStays
  <2> QED BY <1>1, <2>1 DEF RowsAgreed
<1>2. CASE StartServe \/ StartEnds
  <2> DEFINE path == LedgerOf(ServedText(env, toml.text))
             row == load_or_seed_policy_state(stored[path],
                                              ServedText(env, toml.text))
  <2>1. /\ toml # NoFile /\ Opens(env, toml.text, xprv) /\ made' = made
        /\ Seeds(ServedText(env, toml.text))
    BY <1>2 DEF StartServe, StartEnds, Boots
  <2>2. stored' = [stored EXCEPT ![path] = row]
    BY <2>1 DEF Seeds
  <2>3. RowAgreed(row, made) \/ row = stored[path]
    <3>1. CASE stored[path] = Nothing
      <4>1. row = policy_json(ServedText(env, toml.text))
        BY <3>1 DEF load_or_seed_policy_state
      <4>2. Agreed(toml.text, made)
        BY <2>1 DEF FilesAgreed
      <4> HIDE DEF row
      <4> QED BY <2>1, <4>1, <4>2, OpenedIsAgreed DEF RowAgreed
    <3>2. CASE stored[path] # Nothing
      BY <3>2 DEF load_or_seed_policy_state
    <3> QED BY <3>1, <3>2
  <2> HIDE DEF path, row
  <2>4. /\ stored' = [p \in LedgerPath |-> stored'[p]]
        /\ \A p \in LedgerPath :
             stored'[p] = IF p = path THEN row ELSE stored[p]
    BY <2>2 DEF RowsAgreed
  <2>5. \A p \in LedgerPath : RowAgreed(stored'[p], made)
    BY <2>3, <2>4 DEF RowsAgreed
  <2> QED BY <2>1, <2>4, <2>5 DEF RowsAgreed
<1>3. CASE LoseDisk
  <2>1. stored' = [path \in LedgerPath |-> Nothing]
    BY <1>3 DEF LoseDisk
  <2> QED BY <2>1 DEF RowsAgreed, RowAgreed
<1>4. CASE UNCHANGED vars
  BY <1>1, <1>4 DEF vars
<1> QED BY <1>1, <1>2, <1>3, <1>4 DEF Next, SetupNext

LEMMA KitsAgreedStep ==
  ASSUME KitsAgreed, FilesAgreed, SetupInv, [Next]_vars
  PROVE  KitsAgreed'
<1> USE DEF nostr
<1>1. made \subseteq made'
  BY MadeGrows
<1>2. \A text : Agreed(text, made) => Agreed(text, made')
  BY <1>1, AgreedStays
<1> DEFINE Held == {kit} \cup {relays[r].kit : r \in Relay}
<1>3. \A k \in Held : k # NoKit => Agreed(k.text, made')
  BY <1>2 DEF KitsAgreed, KitAgreed
<1>4. SUFFICES /\ kit' # NoKit => Agreed(kit'.text, made')
               /\ \A r \in Relay : relays'[r].kit # NoKit =>
                                     Agreed(relays'[r].kit.text, made')
  BY DEF KitsAgreed, KitAgreed
<1>5. CASE UNCHANGED <<kit, relays>>
  BY <1>3, <1>5
<1>6. CASE export
  <2>1. kit'.text = toml.text /\ toml # NoFile /\ relays' = relays
    BY <1>6 DEF export
  <2>2. Agreed(toml.text, made')
    BY <1>2, <2>1 DEF FilesAgreed
  <2> QED BY <1>3, <2>1, <2>2
<1>7. CASE publish
  <2>1. PICK at :
          relays' \in [Relay -> {relays[r] : r \in Relay}
                                \cup {[kit |-> kit, at |-> at]}]
    BY <1>7 DEF publish
  <2>2. \A r \in Relay : \/ \E q \in Relay : relays'[r] = relays[q]
                         \/ relays'[r] = [kit |-> kit, at |-> at]
    BY <2>1
  <2>3. \A r \in Relay : relays'[r].kit \in Held
    BY <2>2
  <2>4. kit' = kit
    BY <1>7 DEF publish
  <2> QED BY <1>3, <2>3, <2>4
<1>8. CASE fetch
  <2>1. PICK answering \in SUBSET Relay :
          \E e \in Found(answering) : kit' = e.kit
    BY <1>8 DEF fetch
  <2>2. PICK r \in Relay : kit' = relays[r].kit
    BY <2>1 DEF Found, Newest
  <2>3. relays' = relays
    BY <1>8 DEF fetch
  <2> QED BY <1>3, <2>2, <2>3
<1>9. CASE LoseDisk
  BY <1>3, <1>9 DEF LoseDisk
<1>10. CASE (SetupNext /\ UNCHANGED kits) \/ UNCHANGED vars
  BY <1>5, <1>10 DEF kits, vars
<1>11. CASE init_check \/ place_key \/ import_check \/ import_config
            \/ import_key \/ quit \/ \E script \in Scripts : init_write(script)
  BY <1>5, <1>11 DEF init_check, place_key, import_check, import_config,
                     import_key, quit, init_write, kits
<1> QED
  BY <1>6, <1>7, <1>8, <1>9, <1>10, <1>11 DEF Next, Operator

-----------------------------------------------------------------------------
(* Every state. *)

TextsInv ==
  /\ SetupInv /\ FormsOK /\ PairsOK
  /\ FilesAgreed /\ RowsAgreed /\ KitsAgreed

LEMMA TextsInvInit == Init => TextsInv
<1> SUFFICES ASSUME Init PROVE TextsInv
  OBVIOUS
<1>1. SetupInv
  BY SetupInvInit
<1>2. FormsOK
  BY DEF Init, SetupInit, FormsOK, Idle
<1>3. PairsOK /\ KitsAgreed
  BY DEF Init, SetupInit, PairsOK, KitFinished, KitsAgreed, KitAgreed, NoEvent
<1>4. FilesAgreed
  BY DEF Init, SetupInit, FilesAgreed, NoFile
<1>5. RowsAgreed
  BY DEF Init, SetupInit, RowsAgreed, RowAgreed
<1> QED BY <1>1, <1>2, <1>3, <1>4, <1>5 DEF TextsInv

LEMMA TextsInvStep == TextsInv /\ [Next]_vars => TextsInv'
<1> SUFFICES ASSUME TextsInv, [Next]_vars PROVE TextsInv'
  OBVIOUS
<1> QED BY SetupInvStep, FormsOKStep, PairsOKStep, FilesAgreedStep,
           RowsAgreedStep, KitsAgreedStep DEF TextsInv

\* Whatever is cut short, by a crash, a failed write or a command that ends, and
\* however often it is exported, restored and cut again: the wallet and the hold
\* that a process serves with, and the caps any start has put in a ledger, are
\* those of a form or a script (setup.rs:650-678, main.rs:397-428, 583-621 and
\* 703-749, wizard.rs:686-819).
THEOREM ServedWalletIsAlwaysAgreed == Spec => []ServedWalletWasAgreed
<1>1. ASSUME TextsInv PROVE ServedWalletWasAgreed
  <2>1. ASSUME serving # NoFile
        PROVE  Answered(LAMBDA text : Wallet(serving.text) = Wallet(text))
    <3>1. PICK origin \in Origins(made) : Wallet(serving.text) = Wallet(origin)
      BY <1>1, <2>1 DEF TextsInv, FilesAgreed, WalletAgreed
    <3> QED BY <3>1 DEF Origins, Answered
  <2>2. ASSUME NEW path \in LedgerPath, stored[path] # Nothing
        PROVE  Answered(LAMBDA text : stored[path] = policy_json(text))
    <3>1. PICK origin \in Origins(made) : stored[path] = policy_json(origin)
      BY <1>1, <2>2 DEF TextsInv, RowsAgreed, RowAgreed
    <3> QED BY <3>1 DEF Origins, Answered
  <2> QED BY <2>1, <2>2 DEF ServedWalletWasAgreed
<1> QED BY <1>1, TextsInvInit, TextsInvStep, PTL DEF Spec

-----------------------------------------------------------------------------
(* What loads still loads once the entrypoint has added its sections. *)

\* The strings of an environment that a TOML string can hold.
Writable(e) ==
  {e.rpc_url, e.cookie, e.user, e.password, e.bind_addr, "ledger"}
    \cap Unquotable = {}

LEMMA BoxIsFine ==
  ASSUME NEW e, Wired(e), Writable(e), GapLimit(e) \in Values("gap_limit")
  PROVE  /\ WellFormed(Box(e)[1]) /\ WellFormed(Box(e)[2])
         /\ ValidBitcoind(Box(e)[1].fields)
         /\ Has(Box(e)[2].fields, "ledger_db_path")
<1>1. Box(e)[1].name = "bitcoind" /\ Box(e)[2].name = "server"
  BY DEF Box, DeploymentTables, Table
<1>2. Box(e)[2].fields = [bind_addr |-> e.bind_addr, gap_limit |-> GapLimit(e),
                          ledger_db_path |-> "ledger"]
  BY DEF Box, DeploymentTables, Table
<1>3. WellFormed(Box(e)[2])
  <2> DEFINE fields == [bind_addr |-> e.bind_addr, gap_limit |-> GapLimit(e),
                        ledger_db_path |-> "ledger"]
  <2>1. Box(e)[2].fields = fields
    BY <1>2
  <2>2. Required("server") \subseteq DOMAIN fields
    BY DEF Required, KeyTables
  <2>3. \A f \in DOMAIN fields \cap Numbers : fields[f] \in Values(f)
    <3>1. DOMAIN fields \cap Numbers = {"gap_limit"}
      BY DEF Numbers
    <3> QED BY <3>1
  <2>4. \A f \in DOMAIN fields : fields[f] \notin Unquotable \/ f = "gap_limit"
    BY DEF Writable
  <2>5. "gap_limit" \notin RawStrings
    BY DEF RawStrings
  <2>6. "max_fee_rate" \notin DOMAIN fields
    OBVIOUS
  <2> HIDE DEF fields
  <2> QED BY <1>1, <2>1, <2>2, <2>3, <2>4, <2>5, <2>6 DEF WellFormed
<1>4. Box(e)[1].fields =
        [f \in {"rpc_url"} \cup DOMAIN Auth(e) |->
           IF f = "rpc_url" THEN e.rpc_url ELSE Auth(e)[f]]
  BY DEF Box, DeploymentTables, Table
<1>5. WellFormed(Box(e)[1]) /\ ValidBitcoind(Box(e)[1].fields)
  <2>1. ASSUME NEW fields, Box(e)[1].fields = fields,
               "rpc_url" \in DOMAIN fields,
               DOMAIN fields \subseteq
                 {"rpc_url", "rpc_cookie_file", "rpc_user", "rpc_password"},
               \A f \in DOMAIN fields : fields[f] \notin Unquotable
        PROVE  WellFormed(Box(e)[1])
    <3>1. Required("bitcoind") = {"rpc_url"}
      BY DEF Required, KeyTables
    <3>2. DOMAIN fields \cap Numbers = {}
      BY <2>1 DEF Numbers
    <3>3. "max_fee_rate" \notin DOMAIN fields
      BY <2>1
    <3> QED BY <1>1, <2>1, <3>1, <3>2, <3>3 DEF WellFormed
  <2>2. CASE e.cookie # Nothing
    <3> DEFINE fields == [rpc_url |-> e.rpc_url, rpc_cookie_file |-> e.cookie]
    <3>1. Box(e)[1].fields = fields
      BY <2>2, <1>4 DEF Auth
    <3>2. DOMAIN fields = {"rpc_url", "rpc_cookie_file"}
      OBVIOUS
    <3>3. \A f \in DOMAIN fields : fields[f] \notin Unquotable
      BY DEF Writable
    <3> HIDE DEF fields
    <3>4. WellFormed(Box(e)[1])
      BY <2>1, <3>1, <3>2, <3>3
    <3> QED BY <3>1, <3>2, <3>4 DEF ValidBitcoind, Has
  <2>3. CASE e.cookie = Nothing
    <3> DEFINE fields == [rpc_url |-> e.rpc_url, rpc_user |-> e.user,
                          rpc_password |-> e.password]
    <3>1. Box(e)[1].fields = fields
      BY <2>3, <1>4 DEF Auth
    <3>2. DOMAIN fields = {"rpc_url", "rpc_user", "rpc_password"}
      OBVIOUS
    <3>3. \A f \in DOMAIN fields : fields[f] \notin Unquotable
      BY DEF Writable
    <3> HIDE DEF fields
    <3>4. WellFormed(Box(e)[1])
      BY <2>1, <3>1, <3>2, <3>3
    <3> QED BY <3>1, <3>2, <3>4 DEF ValidBitcoind, Has
  <2> QED BY <2>2, <2>3
<1> QED BY <1>2, <1>3, <1>5 DEF Has

LEMMA WholeLoads ==
  ASSUME NEW e, NEW x, IsText(x), Loads(x), Wired(e), Writable(e),
         GapLimit(e) \in Values("gap_limit"),
         "bitcoind" \notin Names(x), "server" \notin Names(x)
  PROVE  LET whole == generated_toml(e, x)
         IN /\ Loads(whole)
            /\ Has(Section(whole, "server"), "ledger_db_path")
            /\ \A name \in Names(x) : Section(whole, name) = Section(x, name)
<1> DEFINE whole == generated_toml(e, x)
<1>1. /\ IsText(whole) /\ Len(whole) = Len(x) + 2
      /\ \A i \in 1..Len(x) : whole[i] = x[i]
      /\ whole[Len(x) + 1] = Box(e)[1] /\ whole[Len(x) + 2] = Box(e)[2]
      /\ Box(e)[1].name = "bitcoind" /\ Box(e)[2].name = "server"
      /\ Names(whole) = Names(x) \cup {"bitcoind", "server"}
  BY BoxAdded
<1> HIDE DEF whole
<1>2. /\ Len(x) \in Nat /\ DOMAIN x = 1..Len(x) /\ DOMAIN whole = 1..Len(whole)
  BY <1>1, TextIsSeq DEF IsText
<1>3. \A i \in 1..Len(whole) :
        i \in 1..Len(x) \/ i = Len(x) + 1 \/ i = Len(x) + 2
  BY <1>1, <1>2
<1>4. /\ Len(x) + 1 \in 1..Len(whole) /\ Len(x) + 2 \in 1..Len(whole)
      /\ \A i \in 1..Len(x) : i \in 1..Len(whole)
  BY <1>1, <1>2
<1>5. Parses(whole)
  <2>1. Cardinality(Names(whole)) = Len(whole)
    <3>1. IsFiniteSet(Names(x)) /\ Cardinality(Names(x)) = Len(x)
      BY NamesDiffer DEF Loads, Parses
    <3>2. /\ IsFiniteSet(Names(x) \cup {"bitcoind"})
          /\ Cardinality(Names(x) \cup {"bitcoind"}) = Len(x) + 1
      BY <3>1, FS_AddElement
    <3>3. "server" \notin Names(x) \cup {"bitcoind"}
      OBVIOUS
    <3>4. Cardinality((Names(x) \cup {"bitcoind"}) \cup {"server"})
            = Len(x) + 1 + 1
      BY <3>2, <3>3, FS_AddElement
    <3>5. (Names(x) \cup {"bitcoind"}) \cup {"server"} = Names(whole)
      BY <1>1
    <3>6. Len(x) + 1 + 1 = Len(x) + 2
      BY <1>2
    <3> QED BY <1>1, <3>4, <3>5, <3>6
  <2>2. {"wallet"} \cup KeyTables \subseteq Names(whole)
    BY <1>1 DEF Loads, Parses
  <2>3. \A i \in 1..Len(whole) : WellFormed(whole[i])
    <3>1. \A i \in 1..Len(x) : WellFormed(x[i])
      BY <1>2 DEF Loads, Parses
    <3> QED BY <1>1, <1>3, <3>1, BoxIsFine
  <2> QED BY <1>2, <2>1, <2>2, <2>3 DEF Parses
<1>6. ASSUME NEW name \in Names(x)
      PROVE  Section(whole, name) = Section(x, name)
  <2>1. PICK i \in 1..Len(x) : x[i].name = name
    BY <1>2 DEF Names
  <2>2. Section(x, name) = x[i].fields
    BY <2>1, LoadedSection DEF Loads
  <2>3. whole[i] = x[i] /\ i \in 1..Len(whole)
    BY <1>1, <1>4
  <2>4. Section(whole, name) = whole[i].fields
    BY <1>1, <1>5, <2>1, <2>3, LoadedSection
  <2> QED BY <2>2, <2>3, <2>4
<1>7. /\ Section(whole, "bitcoind") = Box(e)[1].fields
      /\ Section(whole, "server") = Box(e)[2].fields
  BY <1>1, <1>4, <1>5, LoadedSection
<1>8. validate(whole)
  <2>1. "wallet" \in Names(x) /\ KeyTables \subseteq Names(x) /\ validate(x)
    BY DEF Loads, Parses
  <2>2. /\ Section(whole, "wallet") = Section(x, "wallet")
        /\ {Section(whole, name) : name \in KeyTables}
             = {Section(x, name) : name \in KeyTables}
    BY <1>6, <2>1
  <2>3. \A name \in {"policy", "server_signing", "notify", "recovery",
                     "nostr_transport"} :
          /\ name \in Names(whole) <=> name \in Names(x)
          /\ name \in Names(x) => Section(whole, name) = Section(x, name)
    BY <1>1, <1>6
  <2>4. ValidBitcoind(Section(whole, "bitcoind"))
    BY <1>7, BoxIsFine
  <2>5. "notify" \in Names(whole) => ValidNotify(whole)
    BY <1>1, <2>1, <2>3 DEF validate, ValidNotify
  <2> QED BY <2>1, <2>2, <2>3, <2>4, <2>5 DEF validate
<1> QED BY <1>5, <1>6, <1>7, <1>8, BoxIsFine DEF whole, Loads

\* A policy with a finite fee rate comes back out of the ledger.
LEMMA SeedReads ==
  ASSUME NEW whole, validate(whole), "policy" \in Names(whole),
         "max_fee_rate" \in DOMAIN Section(whole, "policy"),
         Section(whole, "policy")["max_fee_rate"] \notin {"inf", "null"},
         NEW row, LET network == Section(whole, "wallet").network
                  IN row # Nothing => Reads(row, network)
  PROVE  Reads(load_or_seed_policy_state(row, whole),
               Section(whole, "wallet").network)
<1> DEFINE policy == Section(whole, "policy")
           network == Section(whole, "wallet").network
<1>1. ValidWhitelist(policy, network)
  BY DEF validate
<1>2. /\ DOMAIN policy_json(whole) = DOMAIN policy
      /\ policy_json(whole)["max_fee_rate"] = policy["max_fee_rate"]
      /\ "destination_whitelist" \in DOMAIN policy =>
           policy_json(whole)["destination_whitelist"]
             = policy["destination_whitelist"]
  BY DEF policy_json
<1> HIDE DEF policy, network
<1>3. Reads(policy_json(whole), network)
  BY <1>1, <1>2 DEF Reads, ValidWhitelist, Has, policy
<1> QED BY <1>3 DEF load_or_seed_policy_state, network

\* The pair that stands boots the container it was made or restored for.
LEMMA FinishedBoots ==
  ASSUME TypeOK, AnsweredWalletStands, NEW pair \in standing,
         Finished(pair.text, pair.key), Deployed(pair.text),
         InOrder(generated_toml(env, pair.text))
  PROVE  Boots(env, pair.text, xprv, stored)
<1> DEFINE x == pair.text
           whole == generated_toml(env, x)
<1>1. PICK e \in Environments, form \in Requests :
        x = render_user_toml(build_answers(e, form, pair.key))
  BY DEF Finished
<1> DEFINE a == build_answers(e, form, pair.key)
<1>2. /\ Shaped(x, 7) /\ x[4].fields = a.server
      /\ x[5].fields = a.server_signing
      /\ "max_fee_rate" \in DOMAIN x[6].fields
      /\ x[6].fields["max_fee_rate"] = a.max_fee_rate
  <2> HIDE DEF a
  <2>1. x = render(a, FALSE)
    BY <1>1 DEF render_user_toml, a
  <2> HIDE DEF x
  <2>2. /\ Shaped(render(a, FALSE), 7)
        /\ render(a, FALSE)[4].fields = a.server
        /\ render(a, FALSE)[7 - 2].fields = a.server_signing
        /\ "max_fee_rate" \in DOMAIN render(a, FALSE)[7 - 1].fields
        /\ render(a, FALSE)[7 - 1].fields["max_fee_rate"] = a.max_fee_rate
    BY RenderShaped
  <2>3. 7 - 2 = 5 /\ 7 - 1 = 6
    OBVIOUS
  <2> QED BY <2>1, <2>2, <2>3
<1>3. /\ a.server.xpub.key = pair.key
      /\ a.server_signing = [xprv_file |-> "server.xprv"]
      /\ a.max_fee_rate = "finite"
  BY DEF build_answers, ServerKeyOf
<1> HIDE DEF a
<1>4. /\ IsText(x) /\ DOMAIN x = 1..Len(x) /\ Len(x) \in Nat /\ 7 <= Len(x)
      /\ Loads(x)
  BY <1>2, TextIsSeq DEF Shaped, IsText, Finished
<1> HIDE DEF x
<1>5. /\ x[1].name = "wallet" /\ x[4].name = "keys.server"
      /\ x[5].name = "server_signing" /\ x[6].name = "policy"
      /\ x[7].name = "notify"
  BY <1>2 DEF Shaped, HeadNames
<1>6. {"server_signing", "policy", "notify", "keys.server", "wallet"}
        \subseteq Names(x)
  BY <1>4, <1>5 DEF Names
<1>7. "bitcoind" \notin Names(x) /\ "server" \notin Names(x)
  <2>1. ASSUME NEW i \in 1..Len(x)
        PROVE  x[i].name \notin {"bitcoind", "server"}
    <3>1. CASE i \in 1..7
      BY <1>2, <3>1 DEF Shaped, HeadNames
    <3>2. CASE i \in 8..Len(x)
      BY <1>2, <3>2 DEF Shaped, TailNames
    <3> QED BY <1>4, <3>1, <3>2
  <2> QED BY <1>4, <2>1 DEF Names
<1>8. /\ Section(x, "keys.server") = x[4].fields
      /\ Section(x, "server_signing") = x[5].fields
      /\ Section(x, "policy") = x[6].fields
  BY <1>4, <1>5, LoadedSection DEF Loads
<1>9. /\ Wired(env) /\ Writable(env) /\ env.container
      /\ GapLimit(env) \in Values("gap_limit")
  BY DEF Deployed, Writable
<1>10. /\ Loads(whole)
       /\ Has(Section(whole, "server"), "ledger_db_path")
       /\ \A name \in Names(x) : Section(whole, name) = Section(x, name)
  BY <1>4, <1>7, <1>9, WholeLoads
<1>11. Names(whole) = Names(x) \cup {"bitcoind", "server"}
  BY <1>4, BoxAdded
<1>12. NetworkAgrees(env, x)
  <2>1. /\ env.app_network \in Networks \cup {"testnet4", Nothing}
        /\ Section(x, "wallet").network = SetupNetwork(env)
    BY DEF Deployed, x
  <2>2. env.app_network # Nothing => SetupNetwork(env) = AnnouncedNetwork(env)
    BY <2>1 DEF SetupNetwork, AnnouncedNetwork, Networks
  <2> QED BY <2>1, <2>2 DEF NetworkAgrees
<1>13. KeyMatches(whole, xprv, env.env_xprv)
  <2>1. xprv.whole /\ xprv.key = pair.key
    BY DEF AnsweredWalletStands
  <2>2. /\ Has(Section(whole, "server_signing"), "xprv_file")
        /\ Section(whole, "keys.server").xpub.key = pair.key
    BY <1>2, <1>3, <1>6, <1>8, <1>10 DEF Has
  <2> QED BY <2>1, <2>2 DEF KeyMatches
<1>14. InOrder(whole)
  BY DEF x
<1>15. /\ opens_ledger(whole, xprv, env.env_xprv)
       /\ listens(whole, stored[LedgerOf(whole)])
  <2> HIDE DEF whole
  <2>1. opens_ledger(whole, xprv, env.env_xprv)
    BY <1>6, <1>10, <1>11, <1>13, <1>14 DEF opens_ledger, InOrder, LedgerOf
  <2>2. /\ "max_fee_rate" \in DOMAIN Section(whole, "policy")
        /\ Section(whole, "policy")["max_fee_rate"] = "finite"
        /\ "policy" \in Names(whole) /\ validate(whole)
    BY <1>2, <1>3, <1>6, <1>8, <1>10, <1>11 DEF Loads
  <2>3. Reads(load_or_seed_policy_state(stored[LedgerOf(whole)], whole),
              Section(whole, "wallet").network)
    BY <1>14, <2>2, SeedReads DEF InOrder
  <2> QED BY <1>14, <2>1, <2>3 DEF listens, InOrder
<1>16. ServedText(env, x) = whole
  BY <1>9 DEF ServedText
<1> HIDE DEF whole
<1> QED BY <1>9, <1>12, <1>15, <1>16 DEF Boots, Opens, x

\* What init wrote whole serves as it is.
LEMMA InitTextServes ==
  ASSUME NEW script, Loads(InitText(script)), NEW key, NEW env_xprv,
         KeyMatches(InitText(script), key, env_xprv), InOrder(InitText(script)),
         Section(InitText(script), "policy").max_fee_rate # "inf"
  PROVE  /\ opens_ledger(InitText(script), key, env_xprv)
         /\ listens(InitText(script), stored[LedgerOf(InitText(script))])
<1> DEFINE x == InitText(script)
<1>1. /\ Shaped(x, 9) /\ "ledger_db_path" \in DOMAIN x[6].fields
      /\ "max_fee_rate" \in DOMAIN x[8].fields
  <2>1. x = render(run_interactive(script), TRUE)
    BY DEF InitText, render_toml
  <2>2. 9 - 1 = 8
    OBVIOUS
  <2> HIDE DEF x
  <2> QED BY <2>1, <2>2, RenderShaped
<1>2. Section(x, "policy")["max_fee_rate"] # "inf"
  OBVIOUS
<1> HIDE DEF x
<1>3. /\ IsText(x) /\ DOMAIN x = 1..Len(x) /\ Len(x) \in Nat /\ 9 <= Len(x)
  BY <1>1, TextIsSeq DEF Shaped, IsText
<1>4. /\ x[5].name = "bitcoind" /\ x[6].name = "server"
      /\ x[7].name = "server_signing" /\ x[8].name = "policy"
      /\ x[9].name = "notify"
  BY <1>1 DEF Shaped, HeadNames
<1>5. {"bitcoind", "server", "server_signing", "policy", "notify"}
        \subseteq Names(x)
  BY <1>3, <1>4 DEF Names
<1>6. Section(x, "server") = x[6].fields /\ Section(x, "policy") = x[8].fields
  BY <1>3, <1>4, LoadedSection DEF Loads, x
<1>7. x[8].fields["max_fee_rate"] # "null"
  <2>1. WellFormed(x[8])
    BY <1>3 DEF Loads, Parses, x
  <2> QED BY <1>1, <2>1 DEF WellFormed
<1>8. validate(x) /\ InOrder(x)
  BY DEF Loads, x
<1>9. opens_ledger(x, key, env_xprv)
  BY <1>1, <1>5, <1>6, <1>8 DEF opens_ledger, Has, InOrder, LedgerOf, x
<1>10. Reads(load_or_seed_policy_state(stored[LedgerOf(x)], x),
             Section(x, "wallet").network)
  BY <1>1, <1>2, <1>5, <1>6, <1>7, <1>8, SeedReads DEF InOrder
<1> QED BY <1>8, <1>9, <1>10 DEF listens, InOrder, x

\* What the wizard has answered for, or import has restored, loads, validates,
\* matches its key and keeps its policy through the ledger, with the sections of
\* the container it is for, and what init wrote does as it is, unless its fee
\* rate is infinite: for all forms, scripts and environments
\* (wizard.rs:660-819, docker-entrypoint.sh:50-94, main.rs:688-792).
THEOREM WrittenConfigsAlwaysServe == Spec => []WrittenConfigsServe
<1>1. ASSUME TextsInv PROVE WrittenConfigsServe
  <2>1. ASSUME NEW pair \in standing, Deployed(pair.text),
               InOrder(generated_toml(env, pair.text))
        PROVE  Boots(env, pair.text, xprv, stored)
    BY <1>1, <2>1, FinishedBoots DEF TextsInv, SetupInv, PairsOK
  <2>2. ASSUME NEW script \in Scripts, toml # NoFile, toml.by = "init",
               toml.text = InitText(script),
               Section(toml.text, "policy").max_fee_rate # "inf",
               KeyMatches(toml.text, xprv, env.env_xprv), InOrder(toml.text)
        PROVE  /\ opens_ledger(toml.text, xprv, env.env_xprv)
               /\ listens(toml.text, stored[LedgerOf(toml.text)])
    <3>1. InitText(script) # Garbled
      <4>1. Shaped(InitText(script), 9)
        BY RenderShaped DEF InitText, render_toml
      <4> QED BY <4>1 DEF Shaped, Garbled
    <3>2. Loads(InitText(script))
      BY <1>1, <2>2, <3>1 DEF TextsInv, FilesAgreed
    <3> QED BY <2>2, <3>2, InitTextServes
  <2> QED BY <2>1, <2>2 DEF WrittenConfigsServe
<1> QED BY <1>1, TextsInvInit, TextsInvStep, PTL DEF Spec

=============================================================================
