--------------------------- MODULE BleSessionProof ---------------------------
(***************************************************************************)
(* Proofs about BLE provisioning: a device that is provisioned again keeps *)
(* its identity, and what is staged, joined and saved is of its type, for  *)
(* any tokens, networks and messages of the app and any number of connects *)
(* under way.                                                              *)
(*                                                                         *)
(* IdentityKept does not follow from the step alone: it does not say what  *)
(* a connect saves.  A connect takes its token along when its message is   *)
(* handled, so what it saves is a token of the right length whatever was   *)
(* reset, staged or cleared since.  Nor is TypeOK inductive, for the same  *)
(* reason with the network that a connect asks for.                        *)
(*                                                                         *)
(* Last, that a connect runs out of steps: none is ever taken back; and    *)
(* that while the session lasts only an answer ends it.                    *)
(***************************************************************************)
EXTENDS BleSession, TLAPS

\* A connect under way has a token to save.
Carries(t) ==
    t.at # "free" => /\ t = [f \in DOMAIN t |-> t[f]] /\ {"at", "blynk"} \subseteq DOMAIN t
                     /\ t.blynk \in Tokens

TasksCarry ==
    /\ task = [i \in Tasks |-> task[i]]
    /\ \A i \in Tasks : Carries(task[i])

LEMMA CarriesInit == Init => TasksCarry
  BY DEF Init, TasksCarry, Carries, Free

\* A connect goes on, and keeps its token.
LEMMA GoesCarries ==
  ASSUME TasksCarry, NEW i \in Tasks, task[i].at # "free", NEW to, Goes(i, to)
  PROVE  TasksCarry'
  BY DEF TasksCarry, Carries, Goes

\* The steps of a connect.
LEMMA ConnectCarries ==
  ASSUME TasksCarry, NEW i \in Tasks, Connect(i) \/ CallReturns(i)
  PROVE  TasksCarry'
<1>1. CASE Start(i)
  BY <1>1 DEF Start, TasksCarry, Carries
<1>2. CASE Lookup(i) \/ Profile(i) \/ CallReturns(i) \/ Save(i)
  <2>1. task[i].at # "free" /\ \E to : Goes(i, to)
    BY <1>2 DEF Lookup, Profile, AskFails, CallReturns, Save, Raises
  <2> QED BY <2>1, GoesCarries
<1>3. CASE Compare(i)
  <2>1. CASE AskFails(i)
    <3>1. task[i].at # "free" /\ \E to : Goes(i, to)
      BY <1>3, <2>1 DEF Compare, AskFails
    <3> QED BY <3>1, GoesCarries
  <2>2. CASE ~AskFails(i)
    BY <1>3, <2>2 DEF Compare, TasksCarry, Carries
  <2> QED BY <2>1, <2>2
<1>4. CASE WaitEnds(i)
  <2>1. task[i].at # "free" /\ \E to : Goes(i, to)
    BY <1>4 DEF WaitEnds
  <2> QED BY <2>1, GoesCarries
<1>5. CASE NetFail(i) \/ Connected(i)
  BY <1>5 DEF NetFail, Connected, TasksCarry, Carries, Free
<1>6. CASE Restarted(i)
  <2>1. CASE session = "open"
    <3>1. task[i].at # "free" /\ \E to : Goes(i, to)
      BY <1>6, <2>1 DEF Restarted, Raises
    <3> QED BY <3>1, GoesCarries
  <2>2. CASE session # "open"
    BY <1>6, <2>2 DEF Restarted, TasksCarry, Carries, Free
  <2> QED BY <2>1, <2>2
<1> QED BY <1>1, <1>2, <1>3, <1>4, <1>5, <1>6 DEF Connect, Asks, GoesAhead

\* The session, the app and NetworkManager.
LEMMA CarriesNext == TasksCarry /\ [Next]_vars => TasksCarry'
<1> SUFFICES ASSUME TasksCarry, [Next]_vars
             PROVE  TasksCarry'
  OBVIOUS
<1>1. CASE Ends \/ GivesUp
  <2>1. task' = Cancelled
    BY <1>1 DEF Ends, GivesUp
  <2> QED BY <2>1 DEF Cancelled, TasksCarry, Carries, Free
<1>2. CASE Reboots
  BY <1>2 DEF Reboots, TasksCarry, Carries, Free
<1>3. ASSUME NEW i \in Tasks, HandleConnect(i)
      PROVE  TasksCarry'
  BY <1>3 DEF HandleConnect, TasksCarry, Carries, Free
<1>4. ASSUME NEW i \in Tasks, Connect(i) \/ CallReturns(i)
      PROVE  TasksCarry'
  BY <1>4, ConnectCarries
<1>5. ASSUME NEW device \in Devices, Activates(device) \/ ActivationFails(device)
      PROVE  TasksCarry'
  <2>1. \E outcome : Signal(device, outcome)
    BY <1>5 DEF Activates, ActivationFails
  <2> QED BY <2>1 DEF Signal, Calling, TasksCarry, Carries
<1>6. CASE UNCHANGED task
  BY <1>6 DEF TasksCarry, Carries
<1>7. CASE \/ Opens \/ Closes \/ HandleSet \/ HandleReset \/ CentralDisconnects
           \/ NetworkChanges \/ UNCHANGED vars
  BY <1>6, <1>7 DEF Opens, Closes, HandleSet, HandleReset, CentralDisconnects,
                    NetworkChanges, vars
<1> QED BY <1>1, <1>2, <1>3, <1>4, <1>5, <1>7 DEF Next

-----------------------------------------------------------------------------
\* Types.  What NetworkManager joins is what a connect asked it for, which the
\* connect took from what was staged when it started.

Ats == {"free", "spawned", "lookup", "compare", "profile", "call", "wait", "failed", "joined",
        "restart", "connected", "raised"}

\* A connect that has started has a network, or none, to ask for.
Aims(t) ==
    /\ t.at \in Ats
    /\ t.at \notin {"free", "spawned"} =>
           "ssid" \in DOMAIN t /\ t.ssid \in Networks \union {None}

TasksAim == \A i \in Tasks : Aims(task[i])

AppTyped ==
    /\ token \in Tokens \union {None} /\ saved \in Tokens \union {None}
    /\ reprov \in BOOLEAN
    /\ \A f \in Fields : pending[f] \in FieldValues[f] \union {None}
    /\ joined \in [Devices -> Networks \union {None}]
    /\ events \in 0..MaxEvents

SessionTyped ==
    /\ session \in {"off", "open", "closing"}
    /\ result \in BOOLEAN /\ done \in BOOLEAN
    /\ result => done
    /\ session = "off" => \A i \in Tasks : task[i] = Free

LEMMA TypeParts == AppTyped /\ SessionTyped /\ TasksAim => TypeOK
  BY DEF TypeOK, AppTyped, SessionTyped, TasksAim, Aims, Ats

LEMMA FreeAims == Aims(Free)
  BY DEF Aims, Ats, Free

LEMMA GoesAims ==
  ASSUME TasksCarry, TasksAim, NEW i \in Tasks, task[i].at \notin {"free", "spawned"},
         NEW to \in Ats, Goes(i, to)
  PROVE  TasksAim'
<1>1. ASSUME NEW j \in Tasks
      PROVE  Aims(task'[j])
  <2>1. CASE j = i
    <3>1. task'[i].at = to /\ DOMAIN task'[i] = DOMAIN task[i] /\ task'[i].ssid = task[i].ssid
      BY DEF TasksCarry, Carries, TasksAim, Aims, Goes
    <3> QED BY <2>1, <3>1 DEF TasksAim, Aims
  <2>2. CASE j # i
    <3>1. task'[j] = task[j]
      BY <2>2 DEF TasksCarry, Goes
    <3> QED BY <3>1 DEF TasksAim
  <2> QED BY <2>1, <2>2
<1> QED BY <1>1 DEF TasksAim

\* A connect is set free, and the others stay what they are.
LEMMA FreedAims ==
  ASSUME TasksAim, \A j \in Tasks : task'[j] \in {task[j], Free}
  PROVE  TasksAim'
  BY FreeAims DEF TasksAim

LEMMA StartAims ==
  ASSUME TasksCarry, TasksAim, AppTyped, NEW i \in Tasks, Start(i)
  PROVE  TasksAim'
<1>1. pending["ssid"] \in Networks \union {None}
  BY DEF AppTyped, Fields, FieldValues
<1>2. PICK device : task'[i] =
               [at |-> IF device = "none" THEN "joined" ELSE "lookup",
                blynk |-> task[i].blynk, device |-> device, skipped |-> FALSE, signal |-> None,
                ssid |-> IF device = "wifi" THEN pending["ssid"] ELSE None]
  BY DEF Start, TasksCarry
<1>3. Aims(task'[i])
  BY <1>1, <1>2 DEF Aims, Ats
<1>4. \A j \in Tasks \ {i} : task'[j] = task[j]
  BY DEF Start, TasksCarry
<1> QED BY <1>3, <1>4 DEF TasksAim

LEMMA ConnectAims ==
  ASSUME TasksCarry, TasksAim, AppTyped, NEW i \in Tasks, Connect(i) \/ CallReturns(i)
  PROVE  TasksAim'
<1>1. CASE Start(i)
  BY <1>1, StartAims
<1>2. CASE Lookup(i) \/ Profile(i) \/ CallReturns(i) \/ Save(i) \/ WaitEnds(i)
  <2>1. task[i].at \notin {"free", "spawned"} /\ \E to \in Ats : Goes(i, to)
    BY <1>2 DEF Lookup, Profile, CallReturns, Save, WaitEnds, AskFails, Raises, Ats
  <2> QED BY <2>1, GoesAims
<1>3. CASE Compare(i)
  <2>3. CASE AskFails(i)
    <3>1. task[i].at \notin {"free", "spawned"} /\ Goes(i, "failed")
      BY <1>3, <2>3 DEF Compare, AskFails
    <3> QED BY <3>1, GoesAims DEF Ats
  <2>1. CASE ~AskFails(i) /\ joined["wifi"] = task[i].ssid
    <3>1. /\ task'[i].at = "joined" /\ DOMAIN task'[i] = DOMAIN task[i]
          /\ task'[i].ssid = task[i].ssid
      BY <1>3, <2>1 DEF Compare, TasksCarry, Carries, TasksAim, Aims
    <3>2. \A j \in Tasks \ {i} : task'[j] = task[j]
      BY <1>3, <2>1 DEF Compare, TasksCarry
    <3> QED BY <1>3, <3>1, <3>2 DEF Compare, TasksAim, Aims, Ats
  <2>2. CASE ~AskFails(i) /\ joined["wifi"] # task[i].ssid
    <3>1. task[i].at \notin {"free", "spawned"} /\ Goes(i, "profile")
      BY <1>3, <2>2 DEF Compare, Goes
    <3> QED BY <3>1, GoesAims DEF Ats
  <2> QED BY <2>1, <2>2, <2>3
<1>4. CASE NetFail(i) \/ Connected(i)
  BY <1>4, FreedAims DEF NetFail, Connected, TasksCarry
<1>5. CASE Restarted(i)
  <2>1. CASE session = "open"
    <3>1. task[i].at \notin {"free", "spawned"} /\ \E to \in Ats : Goes(i, to)
      BY <1>5, <2>1 DEF Restarted, Raises, Ats
    <3> QED BY <3>1, GoesAims
  <2>2. CASE session # "open"
    BY <1>5, <2>2, FreedAims DEF Restarted, TasksCarry
  <2> QED BY <2>1, <2>2
<1> QED BY <1>1, <1>2, <1>3, <1>4, <1>5 DEF Connect, Asks, GoesAhead

LEMMA AimsNext == TasksCarry /\ TasksAim /\ AppTyped /\ [Next]_vars => TasksAim'
<1> SUFFICES ASSUME TasksCarry, TasksAim, AppTyped, [Next]_vars
             PROVE  TasksAim'
  OBVIOUS
<1>1. CASE Ends \/ GivesUp
  BY <1>1, FreedAims DEF Ends, GivesUp, Cancelled
<1>2. CASE Reboots
  BY <1>2, FreedAims DEF Reboots
<1>3. ASSUME NEW i \in Tasks, HandleConnect(i)
      PROVE  TasksAim'
  <2>1. Aims([at |-> "spawned", blynk |-> pending["blynk"]])
    BY DEF Aims, Ats
  <2>2. \A j \in Tasks : task'[j] \in {task[j], [at |-> "spawned", blynk |-> pending["blynk"]]}
    BY <1>3 DEF HandleConnect, TasksCarry
  <2> QED BY <2>1, <2>2 DEF TasksAim
<1>4. ASSUME NEW i \in Tasks, Connect(i) \/ CallReturns(i)
      PROVE  TasksAim'
  BY <1>4, ConnectAims
<1>5. ASSUME NEW device \in Devices, Activates(device) \/ ActivationFails(device)
      PROVE  TasksAim'
  <2>1. PICK outcome : Signal(device, outcome)
    BY <1>5 DEF Activates, ActivationFails
  <2>2. ASSUME NEW j \in Tasks
        PROVE  Aims(task'[j])
    <3>1. CASE j \in Calling(device)
      <4>1. task'[j] = [task[j] EXCEPT !.signal = outcome]
        BY <2>1, <3>1 DEF Signal
      <4>2. /\ task'[j].at = task[j].at /\ DOMAIN task'[j] = DOMAIN task[j]
            /\ "ssid" \in DOMAIN task[j] => task'[j].ssid = task[j].ssid
        BY <3>1, <4>1 DEF Calling, TasksCarry, Carries
      <4> QED BY <4>2 DEF TasksAim, Aims
    <3>2. CASE j \notin Calling(device)
      BY <2>1, <3>2 DEF Signal, TasksAim
    <3> QED BY <3>1, <3>2
  <2> QED BY <2>2 DEF TasksAim
<1>6. CASE UNCHANGED task
  BY <1>6 DEF TasksAim
<1>7. CASE \/ Opens \/ Closes \/ HandleSet \/ HandleReset \/ CentralDisconnects
           \/ NetworkChanges \/ UNCHANGED vars
  BY <1>6, <1>7 DEF Opens, Closes, HandleSet, HandleReset, CentralDisconnects,
                    NetworkChanges, vars
<1> QED BY <1>1, <1>2, <1>3, <1>4, <1>5, <1>7 DEF Next

\* Only an open session has connects that are not over, or one that closes.
LEMMA SessionNext == SessionTyped /\ TasksCarry /\ [Next]_vars => SessionTyped'
<1> SUFFICES ASSUME SessionTyped, TasksCarry, [Next]_vars
             PROVE  SessionTyped'
  OBVIOUS
<1> USE DEF SessionTyped
<1>1. CASE Opens
  BY <1>1 DEF Opens
<1>2. CASE Ends \/ GivesUp
  BY <1>2 DEF Ends, GivesUp
<1>3. CASE Closes
  BY <1>3 DEF Closes
<1>4. CASE Reboots
  BY <1>4 DEF Reboots
<1>5. CASE HandleSet \/ HandleReset \/ CentralDisconnects
  BY <1>5 DEF HandleSet, HandleReset, CentralDisconnects
<1>6. ASSUME NEW i \in Tasks, HandleConnect(i)
      PROVE  SessionTyped'
  BY <1>6 DEF HandleConnect, Receives
<1>7. ASSUME NEW i \in Tasks, task[i].at # "free", UNCHANGED <<session, result, done>>
      PROVE  SessionTyped'
  BY <1>7 DEF Free
<1>8. ASSUME NEW i \in Tasks, \/ Start(i) \/ Lookup(i) \/ Compare(i) \/ Profile(i) \/ WaitEnds(i)
                              \/ NetFail(i) \/ Save(i) \/ Restarted(i) \/ CallReturns(i)
      PROVE  SessionTyped'
  <2>1. task[i].at # "free" /\ UNCHANGED <<session, result, done>>
    BY <1>8 DEF Start, Lookup, Compare, Profile, WaitEnds, NetFail, Save, Restarted, CallReturns
  <2> QED BY <1>7, <2>1
<1>9. ASSUME NEW i \in Tasks, Connected(i)
      PROVE  SessionTyped'
  BY <1>9 DEF Connected, Free
<1>10. ASSUME NEW device \in Devices, Activates(device) \/ ActivationFails(device)
       PROVE  SessionTyped'
  <2>1. PICK j \in Tasks : task[j].at \in {"call", "wait"}
    BY <1>10 DEF Activates, ActivationFails, Calling
  <2>2. UNCHANGED <<session, result, done>>
    BY <1>10 DEF Activates, ActivationFails
  <2> QED BY <1>7, <2>1, <2>2
<1>11. CASE NetworkChanges \/ UNCHANGED vars
  BY <1>11 DEF NetworkChanges, vars
<1> QED BY <1>1, <1>2, <1>3, <1>4, <1>5, <1>6, <1>8, <1>9, <1>10, <1>11
        DEF Next, Connect, Asks, GoesAhead

LEMMA HappensTyped == events \in 0..MaxEvents /\ Happens => events' \in 0..MaxEvents
  BY BleAssumption DEF Happens

\* Where nothing of the app's side changes but the events.
LEMMA AppStays ==
  AppTyped /\ UNCHANGED <<identity, reprov, pending, joined>> /\ (Happens \/ UNCHANGED events)
    => AppTyped'
  BY HappensTyped DEF AppTyped, identity

\* What a start and the end of a session make of the identity.
LEMMA StartsTyped ==
  AppTyped /\ (Starts \/ GoesOn)
    => /\ token' \in Tokens \union {None} /\ saved' \in Tokens \union {None}
       /\ reprov' \in BOOLEAN
<1> SUFFICES ASSUME AppTyped, Starts \/ GoesOn
             PROVE  /\ token' \in Tokens \union {None} /\ saved' \in Tokens \union {None}
                    /\ reprov' \in BOOLEAN
  OBVIOUS
<1>1. CASE Starts
  <2>1. token' = saved /\ saved' = saved
    BY <1>1 DEF Starts
  <2>2. reprov' = (saved # None)
    BY <1>1 DEF Starts
  <2>3. reprov' \in BOOLEAN
    BY <2>2, Zenon
  <2> QED BY <2>1, <2>3 DEF AppTyped
<1>2. CASE reprov' = TRUE /\ UNCHANGED identity
  BY <1>2 DEF AppTyped, identity
<1> QED BY <1>1, <1>2 DEF GoesOn

LEMMA ForgetTyped ==
  ASSUME NEW fields, Forget(fields), \A f \in Fields : pending[f] \in FieldValues[f] \union {None}
  PROVE  \A f \in Fields : pending'[f] \in FieldValues[f] \union {None}
  BY DEF Forget

LEMMA StagedTyped ==
  ASSUME NEW again \in BOOLEAN, again => token \in Tokens \union {None}, pending' = Staged(again)
  PROVE  \A f \in Fields : pending'[f] \in FieldValues[f] \union {None}
  BY DEF Staged, Nothing, Fields, FieldValues

LEMMA JoinedTyped ==
  ASSUME joined \in [Devices -> Networks \union {None}], NEW d,
         NEW n \in Networks \union {None}, joined' = [joined EXCEPT ![d] = n]
  PROVE  joined' \in [Devices -> Networks \union {None}]
  OBVIOUS

LEMMA AppNext == AppTyped /\ TasksCarry /\ TasksAim /\ [Next]_vars => AppTyped'
<1> SUFFICES ASSUME AppTyped, TasksCarry, TasksAim, [Next]_vars
             PROVE  AppTyped'
  OBVIOUS
<1>1. CASE Opens
  <2>1. \A f \in Fields : pending'[f] \in FieldValues[f] \union {None}
    <3>1. pending' = Staged(reprov /\ token # None) /\ token \in Tokens \union {None}
      BY <1>1 DEF Opens, AppTyped
    <3>2. (reprov /\ token # None) \in BOOLEAN
      OBVIOUS
    <3> QED BY <3>1, <3>2, StagedTyped
  <2> QED BY <1>1, <2>1, HappensTyped DEF Opens, AppTyped, identity
<1>2. CASE Reboots
  <2>1. \A f \in Fields : pending'[f] = None
    BY <1>2 DEF Reboots, Nothing
  <2>2. Starts
    BY <1>2 DEF Reboots
  <2>3. UNCHANGED joined /\ events' \in 0..MaxEvents
    BY <1>2, HappensTyped DEF Reboots, AppTyped
  <2> QED BY <2>1, <2>2, <2>3, StartsTyped DEF AppTyped
<1>3. CASE HandleSet
  <2>1. \A f \in Fields : pending'[f] \in FieldValues[f] \union {None}
    BY <1>3, BleAssumption DEF HandleSet, AppTyped
  <2> QED BY <1>3, <2>1, HappensTyped DEF HandleSet, Receives, AppTyped, identity
<1>4. CASE HandleReset
  <2>1. \A f \in Fields : pending'[f] \in FieldValues[f] \union {None}
    <3>1. CASE UNCHANGED pending
      BY <3>1 DEF AppTyped
    <3>2. CASE Forget(Fields \ {"blynk"})
      BY <3>2, ForgetTyped DEF AppTyped
    <3> QED BY <1>4, <3>1, <3>2 DEF HandleReset
  <2>2. token' \in Tokens \union {None} /\ saved' \in Tokens \union {None}
    BY <1>4 DEF HandleReset, AppTyped, identity
  <2>3. UNCHANGED <<reprov, joined>> /\ events' \in 0..MaxEvents
    BY <1>4, HappensTyped DEF HandleReset, Receives, AppTyped
  <2> QED BY <2>1, <2>2, <2>3 DEF AppTyped
<1>5. CASE CentralDisconnects
  <2>1. \A f \in Fields : pending'[f] \in FieldValues[f] \union {None}
    BY <1>5, StagedTyped DEF CentralDisconnects, AppTyped
  <2> QED BY <1>5, <2>1, HappensTyped DEF CentralDisconnects, Receives, AppTyped, identity
<1>6. CASE Ends \/ GivesUp \/ UNCHANGED vars
  BY <1>6, AppStays DEF Ends, GivesUp, vars
<1>14. CASE Closes
  <2>1. UNCHANGED <<pending, joined, events>>
    BY <1>14 DEF Closes
  <2>2. GoesOn
    BY <1>14 DEF Closes
  <2> QED BY <2>1, <2>2, StartsTyped DEF AppTyped
<1>7. ASSUME NEW i \in Tasks, \/ HandleConnect(i) \/ CallReturns(i) \/ Start(i) \/ Lookup(i)
                              \/ Compare(i) \/ WaitEnds(i) \/ Restarted(i) \/ Connected(i)
      PROVE  AppTyped'
  BY <1>7, AppStays DEF HandleConnect, Receives, CallReturns, Start, Lookup, Compare, WaitEnds,
                        Restarted, Connected, AskFails, Raises
<1>8. ASSUME NEW i \in Tasks, Profile(i)
      PROVE  AppTyped'
  <2>1. joined' \in [Devices -> Networks \union {None}]
    BY <1>8 DEF Profile, AppTyped
  <2>2. UNCHANGED <<identity, reprov, pending>> /\ events' \in 0..MaxEvents
    BY <1>8, HappensTyped DEF Profile, AskFails, AppTyped
  <2> QED BY <2>1, <2>2 DEF AppTyped, identity
<1>9. ASSUME NEW i \in Tasks, NetFail(i)
      PROVE  AppTyped'
  <2>1. \A f \in Fields : pending'[f] \in FieldValues[f] \union {None}
    BY <1>9, ForgetTyped DEF NetFail, AppTyped
  <2> QED BY <1>9, <2>1 DEF NetFail, AppTyped, identity
<1>10. ASSUME NEW i \in Tasks, Save(i)
       PROVE  AppTyped'
  <2>1. task[i].blynk \in Tokens
    BY <1>10 DEF Save, TasksCarry, Carries
  <2>2. token' \in Tokens \union {None} /\ saved' \in Tokens \union {None}
    BY <1>10, <2>1 DEF Save, AppTyped
  <2>3. UNCHANGED <<reprov, pending, joined>> /\ events' \in 0..MaxEvents
    BY <1>10, HappensTyped DEF Save, Raises, AppTyped
  <2> QED BY <2>2, <2>3 DEF AppTyped
<1>11. ASSUME NEW device \in Devices, Activates(device)
       PROVE  AppTyped'
  <2>1. PICK i \in Calling(device) :
            joined' = [joined EXCEPT ![device] = IF device = "wifi" THEN task[i].ssid
                                                 ELSE CHOOSE n \in Networks : TRUE]
    BY <1>11 DEF Activates
  <2>2. task[i].ssid \in Networks \union {None}
    BY <2>1 DEF Calling, TasksAim, Aims
  <2>3. (CHOOSE n \in Networks : TRUE) \in Networks
    BY BleAssumption
  <2>4. joined' \in [Devices -> Networks \union {None}]
    BY <2>1, <2>2, <2>3, JoinedTyped DEF AppTyped
  <2> QED BY <1>11, <2>4 DEF Activates, AppTyped, identity
<1>12. ASSUME NEW device \in Devices, ActivationFails(device)
       PROVE  AppTyped'
  <2>1. joined' \in [Devices -> Networks \union {None}]
    BY <1>12, JoinedTyped DEF ActivationFails, AppTyped
  <2> QED BY <1>12, <2>1, HappensTyped DEF ActivationFails, AppTyped, identity
<1>13. CASE NetworkChanges
  <2>1. joined' \in [Devices -> Networks \union {None}]
    BY <1>13, JoinedTyped DEF NetworkChanges, AppTyped
  <2> QED BY <1>13, <2>1, HappensTyped DEF NetworkChanges, AppTyped, identity
<1> QED BY <1>1, <1>2, <1>3, <1>4, <1>5, <1>6, <1>7, <1>8, <1>9, <1>10, <1>11, <1>12, <1>13,
           <1>14
        DEF Next, Connect, Asks, GoesAhead

LEMMA TypedInit == Init => AppTyped /\ SessionTyped /\ TasksAim
<1> SUFFICES ASSUME Init
             PROVE  AppTyped /\ SessionTyped /\ TasksAim
  OBVIOUS
<1>1. AppTyped
  <2>4. reprov = (token # None)
    BY DEF Init
  <2>1. reprov \in BOOLEAN
    BY <2>4, Zenon
  <2>2. 0 \in 0..MaxEvents
    BY BleAssumption
  <2>3. \A f \in Fields : pending[f] = None
    BY DEF Init, Nothing
  <2> QED BY <2>1, <2>2, <2>3 DEF Init, AppTyped
<1>2. SessionTyped
  BY DEF Init, SessionTyped
<1>3. TasksAim
  BY FreeAims DEF Init, TasksAim
<1> QED BY <1>1, <1>2, <1>3

(* Whatever the app stages and NetworkManager answers, to however many     *)
(* connects at once, what is staged, saved and joined are values of their  *)
(* fields, a session that is over leaves no connect behind, and it ends    *)
(* well only when it is done.                                              *)
THEOREM TypeCorrect == Spec => []TypeOK
<1>1. Init => AppTyped /\ SessionTyped /\ TasksAim /\ TasksCarry
  BY TypedInit, CarriesInit
<1>2. AppTyped /\ SessionTyped /\ TasksAim /\ TasksCarry /\ [Next]_vars
        => AppTyped' /\ SessionTyped' /\ TasksAim' /\ TasksCarry'
  BY AppNext, SessionNext, AimsNext, CarriesNext
<1> QED BY <1>1, <1>2, TypeParts, PTL DEF Spec

(***************************************************************************)
(* The identity.                                                           *)
(***************************************************************************)
\* What a step of a reprovisioning session leaves of a token and of the staged one.
Keeps ==
    session' = "open" /\ reprov' /\ token # None =>
        /\ token' # None
        /\ (session = "open" => pending["blynk"] \in Tokens) =>
               pending'["blynk"] \in Tokens \/ HandleSet

LEMMA KeepsNext ==
  ASSUME AppTyped, TasksCarry, [Next]_vars
  PROVE  Keeps
<1> USE DEF Keeps
<1>1. CASE Opens
  BY <1>1 DEF Opens, Staged, Nothing, Fields, identity, AppTyped
<1>2. CASE HandleSet
  BY <1>2 DEF HandleSet, identity
<1>3. CASE HandleReset
  BY <1>3 DEF HandleReset, Receives, Forget, Fields, identity
<1>4. CASE CentralDisconnects
  BY <1>4 DEF CentralDisconnects, Receives, Staged, Nothing, Fields, identity, AppTyped
<1>5. CASE Ends \/ GivesUp \/ Closes \/ Reboots
  BY <1>5 DEF Ends, GivesUp, Closes, Reboots
<1>6. ASSUME NEW i \in Tasks, Save(i)
      PROVE  Keeps
  <2>1. task[i].blynk \in Tokens /\ token' = task[i].blynk
    BY <1>6 DEF Save, TasksCarry, Carries
  <2>2. UNCHANGED <<session, pending>>
    BY <1>6 DEF Save
  <2> QED BY <2>1, <2>2, BleAssumption
<1>7. ASSUME NEW i \in Tasks, NetFail(i)
      PROVE  Keeps
  BY <1>7 DEF NetFail, Forget, Fields, identity
<1>8. CASE UNCHANGED <<token, session, reprov, pending>>
  BY <1>8
<1>9. ASSUME NEW i \in Tasks, \/ HandleConnect(i) \/ CallReturns(i) \/ Start(i) \/ Lookup(i)
                              \/ Compare(i) \/ Profile(i) \/ WaitEnds(i) \/ Restarted(i)
                              \/ Connected(i)
      PROVE  Keeps
  <2>1. UNCHANGED <<token, session, reprov, pending>>
    BY <1>9 DEF HandleConnect, CallReturns, Start, Lookup, Compare, Profile, WaitEnds,
                Restarted, Connected, identity
  <2> QED BY <1>8, <2>1
<1>10. ASSUME NEW device \in Devices, Activates(device) \/ ActivationFails(device)
       PROVE  Keeps
  BY <1>8, <1>10 DEF Activates, ActivationFails, identity
<1>11. CASE NetworkChanges \/ UNCHANGED vars
  BY <1>8, <1>11 DEF NetworkChanges, vars, identity
<1> QED BY <1>1, <1>2, <1>3, <1>4, <1>5, <1>6, <1>7, <1>9, <1>10, <1>11
        DEF Next, Connect, Asks, GoesAhead

(* A device that lost its network is provisioned again without losing what *)
(* it is: through resets, failed connects and disconnections of the app it *)
(* has a token, and one is staged for the next connect unless the app      *)
(* staged something else.                                                  *)
THEOREM KeepsIdentity == Spec => IdentityKept
<1>1. Init => AppTyped /\ SessionTyped /\ TasksAim /\ TasksCarry
  BY TypedInit, CarriesInit
<1>2. AppTyped /\ SessionTyped /\ TasksAim /\ TasksCarry /\ [Next]_vars
        => AppTyped' /\ SessionTyped' /\ TasksAim' /\ TasksCarry'
  BY AppNext, SessionNext, AimsNext, CarriesNext
<1>3. AppTyped /\ TasksCarry /\ [Next]_vars =>
          [session' = "open" /\ reprov' /\ token # None =>
               /\ token' # None
               /\ (session = "open" => pending["blynk"] \in Tokens) =>
                      pending'["blynk"] \in Tokens \/ HandleSet]_vars
  BY KeepsNext DEF Keeps
<1> QED BY <1>1, <1>2, <1>3, PTL DEF Spec, IdentityKept

(***************************************************************************)
(* Every connect is answered.                                              *)
(***************************************************************************)
\* The steps a connect may still take, for each place it can be at.
Steps == [spawned |-> 9, lookup |-> 8, compare |-> 7, profile |-> 6, call |-> 5, wait |-> 4,
          joined |-> 3, failed |-> 3, restart |-> 2, connected |-> 1, raised |-> 1, free |-> 0]

Left(i) == Steps[task[i].at]

ConnectsRunOut ==
    [][\A i \in Tasks : task[i] # Free =>
           /\ Left(i)' <= Left(i)
           /\ Connect(i) \/ CallReturns(i) => Left(i)' < Left(i)
           /\ task'[i] = Free => NetFail(i) \/ Connected(i) \/ session' # "open"]_vars

LEMMA StepsLeft ==
  ASSUME NEW at \in Ats
  PROVE  Steps[at] \in 0..9
  BY DEF Steps, Ats

\* A connect that takes a step is nearer to its end.
LEMMA ConnectsGoOn ==
  ASSUME TasksCarry, NEW i \in Tasks, Connect(i) \/ CallReturns(i)
  PROVE  Left(i)' < Left(i)
<1>1. ASSUME NEW to, Goes(i, to), task[i].at # "free"
      PROVE  task'[i].at = to
  BY <1>1 DEF Goes, TasksCarry, Carries
<1>2. CASE Start(i)
  <2>1. task[i].at = "spawned" /\ task'[i].at \in {"joined", "lookup"}
    BY <1>2 DEF Start, TasksCarry
  <2> QED BY <2>1 DEF Left, Steps
<1>3. CASE Lookup(i)
  <2>1. task[i].at = "lookup" /\ task'[i].at \in {"failed", "compare", "profile"}
    BY <1>1, <1>3 DEF Lookup, AskFails
  <2> QED BY <2>1 DEF Left, Steps
<1>4. CASE Compare(i)
  <2>1. task[i].at = "compare" /\ task'[i].at \in {"joined", "profile", "failed"}
    BY <1>1, <1>4 DEF Compare, AskFails, TasksCarry, Carries
  <2> QED BY <2>1 DEF Left, Steps
<1>5. CASE Profile(i)
  <2>1. task[i].at = "profile" /\ task'[i].at \in {"failed", "call"}
    BY <1>1, <1>5 DEF Profile, AskFails
  <2> QED BY <2>1 DEF Left, Steps
<1>6. CASE CallReturns(i)
  <2>1. task[i].at = "call" /\ task'[i].at = "wait"
    BY <1>1, <1>6 DEF CallReturns
  <2> QED BY <2>1 DEF Left, Steps
<1>7. CASE WaitEnds(i)
  <2>1. task[i].at \in {"call", "wait"} /\ task'[i].at \in {"joined", "failed"}
    BY <1>1, <1>7 DEF WaitEnds
  <2> QED BY <2>1 DEF Left, Steps
<1>8. CASE NetFail(i) \/ Connected(i)
  <2>1. task[i].at \in {"failed", "connected"} /\ task'[i].at = "free"
    BY <1>8 DEF NetFail, Connected, TasksCarry, Free
  <2> QED BY <2>1 DEF Left, Steps
<1>9. CASE Save(i)
  <2>1. task[i].at = "joined" /\ task'[i].at \in {"restart", "raised"}
    BY <1>1, <1>9 DEF Save, Raises
  <2> QED BY <2>1 DEF Left, Steps
<1>10. CASE Restarted(i)
  <2>1. task[i].at = "restart" /\ task'[i].at \in {"connected", "raised", "free"}
    BY <1>1, <1>10 DEF Restarted, Raises, TasksCarry, Carries, Free
  <2> QED BY <2>1 DEF Left, Steps
<1> QED BY <1>2, <1>3, <1>4, <1>5, <1>6, <1>7, <1>8, <1>9, <1>10 DEF Connect, Asks, GoesAhead

\* Nothing else takes it back: not another connect, the session, the app or
\* NetworkManager.
LEMMA OthersLeave ==
  ASSUME TasksCarry, TasksAim, NEW i \in Tasks, task[i] # Free, Next,
         ~(Connect(i) \/ CallReturns(i))
  PROVE  Left(i)' <= Left(i)
<1>1. ASSUME task'[i].at \in {task[i].at, "free"}
      PROVE  Left(i)' <= Left(i)
  <2>1. task[i].at \in Ats
    BY DEF TasksAim, Aims
  <2>2. Steps[task[i].at] \in 0..9 /\ Steps["free"] = 0
    BY <2>1, StepsLeft DEF Steps
  <2> QED BY <1>1, <2>2 DEF Left
<1>2. CASE Ends \/ GivesUp
  BY <1>1, <1>2 DEF Ends, GivesUp, Cancelled, Free
<1>3. CASE Reboots
  BY <1>1, <1>3 DEF Reboots, Free
<1>4. ASSUME NEW j \in Tasks, HandleConnect(j)
      PROVE  task'[i] = task[i]
  BY <1>4 DEF HandleConnect, TasksCarry
<1>5. ASSUME NEW j \in Tasks, j # i, Connect(j) \/ CallReturns(j)
      PROVE  task'[i] = task[i]
  BY <1>5 DEF Connect, Asks, GoesAhead, Start, Lookup, Compare, Profile, AskFails, CallReturns,
              WaitEnds, NetFail, Save, Raises, Restarted, Connected, Goes, TasksCarry
<1>6. ASSUME NEW device \in Devices, Activates(device) \/ ActivationFails(device)
      PROVE  task'[i].at = task[i].at
  <2>1. PICK outcome : Signal(device, outcome)
    BY <1>6 DEF Activates, ActivationFails
  <2> QED BY <2>1 DEF Signal, Calling, TasksCarry, Carries
<1>7. CASE Opens \/ Closes \/ HandleSet \/ HandleReset \/ CentralDisconnects \/ NetworkChanges
  BY <1>1, <1>7 DEF Opens, Closes, HandleSet, HandleReset, CentralDisconnects, NetworkChanges
<1> QED BY <1>1, <1>2, <1>3, <1>4, <1>5, <1>6, <1>7 DEF Next

\* A connect is over when it was answered, or the session is.
LEMMA OnlyAnswersEnd ==
  ASSUME TasksCarry, TasksAim, NEW i \in Tasks, task[i] # Free, Next, task'[i] = Free
  PROVE  NetFail(i) \/ Connected(i) \/ session' # "open"
<1>0. task[i].at # "free" => Carries(task[i])
  BY DEF TasksCarry
<1>1. CASE Ends \/ GivesUp \/ Reboots \/ Closes
  BY <1>1 DEF Ends, GivesUp, Reboots, Closes
<1>2. CASE Start(i)
  BY <1>2 DEF Start, TasksCarry, Free
<1>3. CASE Asks(i) \/ WaitEnds(i) \/ Save(i) \/ CallReturns(i) \/ (Restarted(i) /\ session = "open")
  <2>1. \E to \in Ats \ {"free"} : Goes(i, to) \/ task' = [task EXCEPT ![i].at = to, ![i].skipped = TRUE]
    BY <1>3 DEF Asks, Lookup, Compare, Profile, AskFails, WaitEnds, Save, Raises, CallReturns,
                Restarted, Goes, Ats
  <2>2. task[i].at # "free"
    BY <1>3 DEF Asks, Lookup, Compare, Profile, WaitEnds, Save, CallReturns, Restarted
  <2>3. task'[i].at # "free"
    BY <2>1, <2>2 DEF Goes, TasksCarry, Carries
  <2> QED BY <2>3 DEF Free
<1>4. CASE Restarted(i) /\ session # "open"
  BY <1>4 DEF Restarted
<1>5. ASSUME NEW j \in Tasks, j # i, HandleConnect(j) \/ Connect(j) \/ CallReturns(j)
      PROVE  FALSE
  BY <1>5 DEF HandleConnect, Connect, Asks, GoesAhead, Start, Lookup, Compare, Profile, AskFails,
              CallReturns, WaitEnds, NetFail, Save, Raises, Restarted, Connected, Goes, TasksCarry
<1>6. CASE HandleConnect(i)
  BY <1>6 DEF HandleConnect
<1>7. ASSUME NEW device \in Devices, Activates(device) \/ ActivationFails(device)
      PROVE  FALSE
  <2>1. PICK outcome : Signal(device, outcome)
    BY <1>7 DEF Activates, ActivationFails
  <2>2. CASE i \in Calling(device)
    BY <2>1, <2>2 DEF Signal, Calling, TasksCarry, Carries, Free
  <2>3. CASE i \notin Calling(device)
    BY <2>1, <2>3 DEF Signal
  <2> QED BY <2>2, <2>3
<1>8. CASE Opens \/ HandleSet \/ HandleReset \/ CentralDisconnects \/ NetworkChanges
  BY <1>8 DEF Opens, HandleSet, HandleReset, CentralDisconnects, NetworkChanges
<1> QED BY <1>1, <1>2, <1>3, <1>4, <1>5, <1>6, <1>7, <1>8 DEF Next, Connect, GoesAhead

(* An action property, the safety half of ConnectAnswered: every step of a *)
(* connect is one of at most nine, and none is taken back, by messages of  *)
(* the app, by other connects that wait for the same device or by what     *)
(* NetworkManager signals to all of them.  A connect cannot be kept from   *)
(* its answer, net_fail or connected, by going in a circle; and as long as *)
(* the session is open nothing but the answer makes an end of it, unless   *)
(* it waits for good or an exception leaves it without one.                *)
THEOREM ConnectsEnd == Spec => ConnectsRunOut
<1>1. Init => AppTyped /\ SessionTyped /\ TasksAim /\ TasksCarry
  BY TypedInit, CarriesInit
<1>2. AppTyped /\ SessionTyped /\ TasksAim /\ TasksCarry /\ [Next]_vars
        => AppTyped' /\ SessionTyped' /\ TasksAim' /\ TasksCarry'
  BY AppNext, SessionNext, AimsNext, CarriesNext
<1>3. ASSUME AppTyped, TasksAim, TasksCarry, Next, NEW i \in Tasks, task[i] # Free
      PROVE  /\ Left(i)' <= Left(i)
             /\ Connect(i) \/ CallReturns(i) => Left(i)' < Left(i)
             /\ task'[i] = Free => NetFail(i) \/ Connected(i) \/ session' # "open"
  <2>0. task'[i] = Free => NetFail(i) \/ Connected(i) \/ session' # "open"
    BY <1>3, OnlyAnswersEnd
  <2>1. CASE Connect(i) \/ CallReturns(i)
    <3>1. Left(i)' < Left(i)
      BY <1>3, <2>1, ConnectsGoOn
    <3>2. TasksAim'
      BY <1>3, <2>1, ConnectAims
    <3>3. task[i].at \in Ats /\ task'[i].at \in Ats
      BY <1>3, <3>2 DEF TasksAim, Aims
    <3>4. Steps[task[i].at] \in 0..9 /\ Steps[task'[i].at] \in 0..9
      BY <3>3, StepsLeft
    <3> QED BY <2>0, <3>1, <3>4 DEF Left
  <2>2. CASE ~(Connect(i) \/ CallReturns(i))
    BY <1>3, <2>0, <2>2, OthersLeave
  <2> QED BY <2>1, <2>2
<1>4. AppTyped /\ TasksAim /\ TasksCarry /\ [Next]_vars =>
          [\A i \in Tasks : task[i] # Free =>
               /\ Left(i)' <= Left(i)
               /\ Connect(i) \/ CallReturns(i) => Left(i)' < Left(i)
               /\ task'[i] = Free => NetFail(i) \/ Connected(i) \/ session' # "open"]_vars
  BY <1>3
<1> QED BY <1>1, <1>2, <1>4, PTL DEF Spec, ConnectsRunOut
==============================================================================
