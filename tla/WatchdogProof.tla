--------------------------- MODULE WatchdogProof ---------------------------
(***************************************************************************)
(* Proofs about the connectivity watchdog: it keeps its types, it never    *)
(* has two BLE sessions open, and it leaves a healthy device alone, for    *)
(* any grace periods, any number of reprovisioning threads and any number  *)
(* of events.                                                              *)
(*                                                                         *)
(* _reprovisioning is dropped by the session's thread and raised by the    *)
(* diagnostics thread, which read it earlier: no lock joins the two.  That *)
(* this is safe rests on two facts the flag alone does not say: nobody but *)
(* the diagnostics thread raises it, so a tick that saw it down will find  *)
(* it down when it raises it; and a session is open only while it is up.   *)
(*                                                                         *)
(* The other way round, a flag that is up is dropped by the session it     *)
(* belongs to: it is never up without one.                                 *)
(***************************************************************************)
EXTENDS Watchdog, TLAPS

\* The diagnostics thread is in a tick that found the flag down.
PastTick == wd \in {"read", "dns", "refresh", "grace"}

\* The strengthening of OneSessionAtATime that the steps preserve.
SessionFlagged ==
    /\ \A t \in Threads : Advertising(t) => reprov
    /\ PastTick => ~reprov
    /\ OneSessionAtATime

(***************************************************************************)
(* Type correctness.                                                       *)
(***************************************************************************)
\* The flags, and the data: the two halves of TypeOK, which suit different provers.
FlagsOK ==
    /\ dnsTried \in BOOLEAN
    /\ reprov \in BOOLEAN
    /\ link \in BOOLEAN
    /\ bridge \in BOOLEAN
    /\ staleDns \in BOOLEAN

DataOK ==
    /\ since \in Ages \union {None}
    /\ wd \in {"sleep", "tick", "read", "dns", "refresh", "grace", "dead"}
    /\ outage \in Ages
    /\ thread \in [Threads -> {"none", "ble", "won", "clear", "probe", "up", "down"}]
    /\ net \in {"idle", "probe", "up"}
    /\ notices \in Seq({"0", "1"})
    /\ cloud \in {"ok", "tcp", "down"}
    /\ events \in 0..MaxEvents

LEMMA TypeParts == TypeOK <=> FlagsOK /\ DataOK
  BY DEF TypeOK, FlagsOK, DataOK

LEMMA FlagsInit == Init => FlagsOK
  BY Zenon DEF Init, AgentInit, FlagsOK

LEMMA DataInit == Init => DataOK
  BY WatchdogAssumption DEF Init, AgentInit, DataOK, Ages

LEMMA FlagsNext == FlagsOK /\ [Next]_vars => FlagsOK'
<1> SUFFICES ASSUME FlagsOK, [Next]_vars
             PROVE  FlagsOK'
  OBVIOUS
<1> USE DEF FlagsOK
<1>1. CASE World
  BY <1>1, Zenon DEF World, BridgeConnects, BridgeDrops, CloudChanges, NetworkMoves,
                     AgentRestarts, Minute, ClockJumps, agentVars, worldVars
<1>2. CASE Net
  BY <1>2, Zenon DEF Net, OnConnect, OnConnectProbed, OnConnectClears, HandleBridgeState,
                     SetSince, worldVars
<1>3. CASE Diagnostics
  BY <1>3, Zenon DEF Diagnostics, Tick, ReadOutage, CheckDns, RefreshDns, CheckGrace,
                     MosquittoRestarts, worldVars
<1>4. ASSUME NEW t \in Threads, Reprovisioning(t)
      PROVE  FlagsOK'
  BY <1>4, Zenon DEF Reprovisioning, SessionConnects, SessionSucceeds, SessionFails,
                     SucceededClears, FailedProbed, FailedWrites, SetSince, Moves,
                     MosquittoRestarts, worldVars
<1>5. CASE UNCHANGED vars
  BY <1>5, Zenon DEF vars, agentVars, worldVars
<1> QED BY <1>1, <1>2, <1>3, <1>4, <1>5 DEF Next

\* Ages stay within the bound.
LEMMA OlderAge ==
  ASSUME NEW age \in Ages \union {None}
  PROVE  Older(age) \in Ages \union {None}
  BY WatchdogAssumption DEF Older, Ages

\* The queues of notifications the client's thread can be left with.
LEMMA NoticesType ==
  /\ << >> \in Seq({"0", "1"})
  /\ \A payload \in {"0", "1"} : <<payload>> \in Seq({"0", "1"})
  /\ \A s \in Seq({"0", "1"}), payload \in {"0", "1"} :
         Append(s, payload) \in Seq({"0", "1"})
  OBVIOUS

LEMMA DataNext == DataOK /\ [Next]_vars => DataOK'
<1> SUFFICES ASSUME DataOK, [Next]_vars
             PROVE  DataOK'
  OBVIOUS
<1> USE WatchdogAssumption DEF DataOK, Ages
<1>1. CASE World
  <2>1. CASE Minute
    BY <2>1, OlderAge DEF Minute, worldVars
  <2>2. CASE AgentRestarts
    BY <2>2 DEF AgentRestarts
  <2>3. CASE CloudChanges \/ ClockJumps
    BY <2>3 DEF CloudChanges, ClockJumps, agentVars, worldVars
  <2>4. CASE BridgeConnects \/ BridgeDrops \/ NetworkMoves
    <3>1. notices' \in Seq({"0", "1"})
      BY <2>4, NoticesType DEF BridgeConnects, BridgeDrops, NetworkMoves, Notify
    <3> QED BY <2>4, <3>1 DEF BridgeConnects, BridgeDrops, NetworkMoves, agentVars
  <2> QED BY <1>1, <2>1, <2>2, <2>3, <2>4 DEF World
<1>2. CASE OnConnect
  <2>1. notices' \in Seq({"0", "1"})
    BY <1>2, NoticesType DEF OnConnect
  <2> QED BY <1>2, <2>1 DEF OnConnect
<1>3. CASE OnConnectProbed \/ OnConnectClears
  BY <1>3 DEF OnConnectProbed, OnConnectClears, SetSince, worldVars
<1>4. CASE HandleBridgeState
  BY <1>4 DEF HandleBridgeState, SetSince
<1>5. CASE Tick
  BY <1>5 DEF Tick, worldVars
<1>6. CASE ReadOutage
  BY <1>6 DEF ReadOutage, worldVars
<1>7. CASE CheckDns
  BY <1>7 DEF CheckDns, worldVars
<1>8. CASE RefreshDns
  <2>1. notices' \in Seq({"0", "1"})
    BY <1>8, NoticesType DEF RefreshDns, MosquittoRestarts
  <2> QED BY <1>8, <2>1 DEF RefreshDns
<1>9. CASE CheckGrace
  BY <1>9 DEF CheckGrace, worldVars
<1>10. ASSUME NEW t \in Threads, Reprovisioning(t)
       PROVE  DataOK'
  <2>1. CASE SessionConnects(t)
    BY <2>1 DEF SessionConnects, Moves, MosquittoRestarts
  <2>2. CASE SessionSucceeds(t) \/ SessionFails(t)
    BY <2>2 DEF SessionSucceeds, SessionFails, Moves, worldVars
  <2>3. CASE SucceededClears(t)
    BY <2>3 DEF SucceededClears, Moves, worldVars
  <2>4. CASE FailedProbed(t)
    BY <2>4 DEF FailedProbed, Moves, worldVars
  <2>5. CASE FailedWrites(t)
    BY <2>5 DEF FailedWrites, SetSince, Moves, worldVars
  <2> QED BY <1>10, <2>1, <2>2, <2>3, <2>4, <2>5 DEF Reprovisioning
<1>11. CASE UNCHANGED vars
  BY <1>11 DEF vars, agentVars, worldVars
<1> QED BY <1>1, <1>2, <1>3, <1>4, <1>5, <1>6, <1>7, <1>8, <1>9, <1>10, <1>11
        DEF Next, Net, Diagnostics

(* Every variable of the watchdog keeps its type, in every reachable       *)
(* state: in particular the outage a tick computes is always an age, never *)
(* taken from a clock that is not running.                                 *)
THEOREM TypeCorrect == Spec => []TypeOK
<1>1. Init => FlagsOK /\ DataOK
  BY FlagsInit, DataInit
<1>2. (FlagsOK /\ DataOK) /\ [Next]_vars => (FlagsOK /\ DataOK)'
  BY FlagsNext, DataNext
<1> QED BY <1>1, <1>2, TypeParts, PTL DEF Spec

(***************************************************************************)
(* One session at a time.                                                  *)
(***************************************************************************)
LEMMA SessionInit == Init => SessionFlagged
  BY DEF Init, AgentInit, SessionFlagged, PastTick, OneSessionAtATime, Advertising

LEMMA SessionNext == TypeOK /\ SessionFlagged /\ [Next]_vars => SessionFlagged'
<1> SUFFICES ASSUME TypeOK, SessionFlagged, [Next]_vars
             PROVE  SessionFlagged'
  OBVIOUS
<1> USE DEF SessionFlagged, PastTick, OneSessionAtATime, Advertising
<1>1. ASSUME UNCHANGED <<reprov, wd, thread>>
      PROVE  SessionFlagged'
  BY <1>1
<1>2. CASE World
  <2>1. CASE Minute
    BY <2>1 DEF Minute
  <2>2. CASE AgentRestarts
    BY <2>2 DEF AgentRestarts
  <2>3. CASE BridgeConnects \/ BridgeDrops \/ CloudChanges \/ NetworkMoves \/ ClockJumps
    BY <2>3, <1>1 DEF BridgeConnects, BridgeDrops, CloudChanges, NetworkMoves,
                      ClockJumps, agentVars
  <2> QED BY <1>2, <2>1, <2>2, <2>3 DEF World
<1>3. CASE Net
  BY <1>3, <1>1 DEF Net, OnConnect, OnConnectProbed, OnConnectClears,
                    HandleBridgeState
<1>4. CASE Tick
  BY <1>4 DEF Tick
<1>5. CASE ReadOutage \/ CheckDns \/ RefreshDns
  BY <1>5 DEF ReadOutage, CheckDns, RefreshDns
<1>6. CASE CheckGrace
  \* Here the flag rises: no session is open, since the tick found it down.
  <2>1. \A t \in Threads : thread[t] \notin {"ble", "won"}
    BY <1>6 DEF CheckGrace
  <2> QED BY <1>6, <2>1 DEF CheckGrace, TypeOK
<1>7. ASSUME NEW t \in Threads, Reprovisioning(t)
      PROVE  SessionFlagged'
  <2>1. CASE SessionConnects(t)
    BY <2>1 DEF SessionConnects, Moves, TypeOK
  <2>2. CASE SessionSucceeds(t) \/ SessionFails(t)
    \* Here the flag falls: the only open session is the one that ends.
    <3>1. \A u \in Threads : u # t => thread[u] \notin {"ble", "won"}
      BY <2>2 DEF SessionSucceeds, SessionFails, Moves
    <3> QED BY <2>2, <3>1 DEF SessionSucceeds, SessionFails, Moves, TypeOK
  <2>3. CASE SucceededClears(t) \/ FailedProbed(t) \/ FailedWrites(t)
    BY <2>3 DEF SucceededClears, FailedProbed, FailedWrites, Moves, TypeOK
  <2> QED BY <1>7, <2>1, <2>2, <2>3 DEF Reprovisioning
<1>8. CASE UNCHANGED vars
  BY <1>8, <1>1 DEF vars, agentVars
<1> QED BY <1>2, <1>3, <1>4, <1>5, <1>6, <1>7, <1>8 DEF Next, Diagnostics

(* The device never has two BLE provisioning sessions open at once.        *)
THEOREM OneSession == Spec => []OneSessionAtATime
<1>1. Init => SessionFlagged
  BY SessionInit
<1>2. TypeOK /\ SessionFlagged /\ [Next]_vars => SessionFlagged'
  BY SessionNext
<1>3. SessionFlagged => OneSessionAtATime
  BY DEF SessionFlagged
<1> QED BY <1>1, <1>2, <1>3, TypeCorrect, PTL DEF Spec

(***************************************************************************)
(* Nothing blocks the next session.                                        *)
(***************************************************************************)
\* What OutageOffersProvisioning asks of the flag: while it keeps ticks from
\* starting a session, one is open, and the thread that drops the flag is in it.
FlagHasSession == reprov <=> \E t \in Threads : Advertising(t)

LEMMA FlagNext == TypeOK /\ FlagHasSession /\ SessionFlagged /\ [Next]_vars => FlagHasSession'
<1> SUFFICES ASSUME TypeOK, FlagHasSession, SessionFlagged, [Next]_vars
             PROVE  FlagHasSession'
  OBVIOUS
<1> USE DEF FlagHasSession, Advertising
<1>1. ASSUME UNCHANGED <<reprov, thread>>
      PROVE  FlagHasSession'
  BY <1>1
<1>2. CASE AgentRestarts
  BY <1>2 DEF AgentRestarts
<1>3. CASE World /\ ~AgentRestarts
  BY <1>3, <1>1 DEF World, BridgeConnects, BridgeDrops, CloudChanges, NetworkMoves, Minute,
                    ClockJumps, agentVars
<1>4. CASE Net
  BY <1>4, <1>1 DEF Net, OnConnect, OnConnectProbed, OnConnectClears,
                    HandleBridgeState
<1>5. CASE Tick \/ ReadOutage \/ CheckDns \/ RefreshDns
  BY <1>5, <1>1 DEF Tick, ReadOutage, CheckDns, RefreshDns
<1>6. CASE CheckGrace
  \* The flag and its session come together.
  <2>1. CASE outage < Grace /\ UNCHANGED <<reprov, thread>>
    BY <2>1, <1>1
  <2>2. ASSUME NEW t \in Threads, reprov', thread' = [thread EXCEPT ![t] = "ble"]
        PROVE  FlagHasSession'
    <3>1. thread'[t] = "ble"
      BY <2>2 DEF TypeOK
    <3> QED BY <2>2, <3>1
  <2> QED BY <1>6, <2>1, <2>2 DEF CheckGrace
<1>7. ASSUME NEW t \in Threads, Reprovisioning(t)
      PROVE  FlagHasSession'
  <2>1. CASE SessionConnects(t)
    <3>1. thread'[t] = "won" /\ thread[t] = "ble"
      BY <2>1 DEF SessionConnects, Moves, TypeOK
    <3>2. reprov /\ reprov' = reprov
      BY <2>1, <3>1 DEF SessionConnects
    <3> QED BY <3>1, <3>2
  <2>2. CASE SessionSucceeds(t) \/ SessionFails(t)
    \* The flag falls, and the session that ends was the only one.
    <3>1. \A u \in Threads : u # t => thread[u] \notin {"ble", "won"}
      BY <2>2 DEF SessionSucceeds, SessionFails, Moves, SessionFlagged, OneSessionAtATime
    <3>2. \A u \in Threads : thread'[u] \notin {"ble", "won"}
      BY <2>2, <3>1 DEF SessionSucceeds, SessionFails, Moves, TypeOK
    <3>3. ~reprov'
      BY <2>2 DEF SessionSucceeds, SessionFails
    <3> QED BY <3>2, <3>3
  <2>3. CASE SucceededClears(t) \/ FailedProbed(t) \/ FailedWrites(t)
    <3>1. \A u \in Threads : thread'[u] \in {"ble", "won"} <=> thread[u] \in {"ble", "won"}
      BY <2>3 DEF SucceededClears, FailedProbed, FailedWrites, Moves, TypeOK
    <3>2. reprov' = reprov
      BY <2>3 DEF SucceededClears, FailedProbed, FailedWrites
    <3> QED BY <3>1, <3>2
  <2> QED BY <1>7, <2>1, <2>2, <2>3 DEF Reprovisioning
<1>8. CASE UNCHANGED vars
  BY <1>8, <1>1 DEF vars, agentVars
<1> QED BY <1>2, <1>3, <1>4, <1>5, <1>6, <1>7, <1>8 DEF Next, Diagnostics

(* _reprovisioning is up if and only if a BLE session is open: the flag    *)
(* that makes every tick return at once never outlives the session whose   *)
(* thread is to drop it, whatever order the threads run in, so that no     *)
(* outage is left without a session because of a flag nobody drops.        *)
THEOREM FlagDropped == Spec => []FlagHasSession
<1>1. Init => FlagHasSession
  BY DEF Init, AgentInit, FlagHasSession, Advertising
<1>2. TypeOK /\ FlagHasSession /\ SessionFlagged /\ [Next]_vars => FlagHasSession'
  BY FlagNext
<1> QED BY <1>1, <1>2, SessionInit, SessionNext, TypeCorrect, PTL DEF Spec

(***************************************************************************)
(* A healthy device is left alone.                                         *)
(***************************************************************************)
LEMMA NoticesRest ==
  ASSUME NEW q \in Seq({"0", "1"}), q # << >>, \A i \in 1..Len(q) : q[i] = "1"
  PROVE  Head(q) = "1" /\ \A i \in 1..Len(Tail(q)) : Tail(q)[i] = "1"
  OBVIOUS

\* What a step may not do to a healthy device.
StaysWell ==
    /\ Healthy'
    /\ TickUnderWay' => TickUnderWay
    /\ WriteUnderWay' => WriteUnderWay

LEMMA HealthyTick ==
  ASSUME TypeOK, Healthy, Diagnostics
  PROVE  StaysWell \/ (TickUnderWay /\ (RefreshDns \/ CheckGrace))
<1>1. CASE Tick \/ ReadOutage
  \* The clock is not running: a tick goes back to sleep, or dies of it.
  <2>1. /\ wd' \in {"sleep", "read", "dead"}
        /\ UNCHANGED <<cloud, bridge, link, notices, since, reprov, thread>>
    BY <1>1 DEF Tick, ReadOutage, Healthy, worldVars
  <2> QED BY <2>1 DEF StaysWell, Healthy, TickUnderWay, WriteUnderWay, Advertising
<1>2. CASE CheckDns
  <2>1. /\ TickUnderWay
        /\ UNCHANGED <<cloud, bridge, link, notices, since, reprov, thread>>
    BY <1>2 DEF CheckDns, TickUnderWay, worldVars
  <2> QED BY <2>1 DEF StaysWell, Healthy, WriteUnderWay, Advertising
<1>3. CASE RefreshDns \/ CheckGrace
  BY <1>3 DEF RefreshDns, CheckGrace, TickUnderWay
<1> QED BY <1>1, <1>2, <1>3 DEF Diagnostics

LEMMA HealthyNet ==
  ASSUME TypeOK, Healthy, Net
  PROVE  StaysWell
<1>1. UNCHANGED <<cloud, bridge, reprov, wd, thread>>
  BY DEF Net, OnConnect, OnConnectProbed, OnConnectClears, HandleBridgeState, worldVars
<1>2. since' = None /\ link'
  <2>1. CASE OnConnect \/ OnConnectProbed \/ OnConnectClears
    BY <2>1 DEF OnConnect, OnConnectProbed, OnConnectClears, SetSince, Healthy, worldVars
  <2>2. CASE HandleBridgeState
    <3>1. Head(notices) = "1"
      BY <2>2, NoticesRest DEF HandleBridgeState, TypeOK, Healthy
    <3> QED BY <2>2, <3>1 DEF HandleBridgeState, SetSince, Healthy
  <2> QED BY <2>1, <2>2 DEF Net
<1>3. \A i \in 1..Len(notices') : notices'[i] = "1"
  <2>1. CASE HandleBridgeState
    BY <2>1, NoticesRest DEF HandleBridgeState, TypeOK, Healthy
  <2>2. CASE OnConnect \/ OnConnectProbed \/ OnConnectClears
    BY <2>2 DEF OnConnect, OnConnectProbed, OnConnectClears, Healthy, worldVars
  <2> QED BY <2>1, <2>2 DEF Net
<1> QED BY <1>1, <1>2, <1>3 DEF StaysWell, Healthy, TickUnderWay, WriteUnderWay, Advertising

LEMMA HealthyThread ==
  ASSUME TypeOK, Healthy, NEW t \in Threads, Reprovisioning(t)
  PROVE  StaysWell \/ (thread[t] = "down" /\ FailedWrites(t))
<1>1. CASE thread[t] = "down"
  BY <1>1 DEF Reprovisioning, SessionConnects, SessionSucceeds, SessionFails,
              SucceededClears, FailedProbed, Moves
<1>2. CASE thread[t] # "down"
  \* Nobody advertises, and the probe finds the cloud.
  <2>1. CASE SucceededClears(t) \/ FailedWrites(t)
    <3>1. /\ UNCHANGED <<cloud, bridge, link, notices, reprov, wd>>
          /\ since' = None
          /\ thread' = [thread EXCEPT ![t] = "none"]
      BY <1>2, <2>1 DEF SucceededClears, FailedWrites, Moves, SetSince, worldVars
    <3> QED BY <3>1 DEF StaysWell, Healthy, TickUnderWay, WriteUnderWay, Advertising, TypeOK
  <2>2. CASE FailedProbed(t)
    <3>1. /\ UNCHANGED <<cloud, bridge, link, notices, reprov, wd, since>>
          /\ thread' = [thread EXCEPT ![t] = "up"]
      BY <2>2 DEF FailedProbed, Moves, worldVars, Healthy, Reachable
    <3> QED BY <3>1 DEF StaysWell, Healthy, TickUnderWay, WriteUnderWay, Advertising, TypeOK
  <2>3. thread[t] \notin {"ble", "won"}
    BY DEF Healthy, Advertising
  <2> QED BY <2>1, <2>2, <2>3 DEF Reprovisioning, SessionConnects, SessionSucceeds,
                                  SessionFails, Moves
<1> QED BY <1>1, <1>2

LEMMA HealthyWorld ==
  ASSUME TypeOK, Healthy, World, ~CloudChanges, ~NetworkMoves, ~AgentRestarts
  PROVE  StaysWell
<1>1. None \notin Nat
  BY WatchdogAssumption
<1>2. CASE BridgeConnects \/ BridgeDrops
  BY <1>2 DEF BridgeConnects, BridgeDrops, CanConnect, Healthy
<1>3. CASE Minute
  BY <1>1, <1>3 DEF Minute, Older, StaysWell, Healthy, TickUnderWay, WriteUnderWay,
                    worldVars, Advertising
<1>4. CASE ClockJumps
  BY <1>1, <1>4 DEF ClockJumps, Healthy
<1> QED BY <1>2, <1>3, <1>4 DEF World

LEMMA HealthyStep ==
  ASSUME TypeOK, Healthy, Next
  PROVE  \/ StaysWell
         \/ CloudChanges \/ NetworkMoves \/ AgentRestarts
         \/ TickUnderWay /\ (RefreshDns \/ CheckGrace)
         \/ \E t \in Threads : thread[t] = "down" /\ FailedWrites(t)
<1>1. CASE Diagnostics
  BY <1>1, HealthyTick
<1>2. CASE Net
  BY <1>2, HealthyNet
<1>3. ASSUME NEW t \in Threads, Reprovisioning(t)
      PROVE  StaysWell \/ (thread[t] = "down" /\ FailedWrites(t))
  BY <1>3, HealthyThread
<1>4. CASE World
  BY <1>4, HealthyWorld
<1> QED BY <1>1, <1>2, <1>3, <1>4 DEF Next

(* An action property, the safety half of HealthySettles, over every step  *)
(* a healthy device can take: no tick that starts, no late notification,   *)
(* no probe, no session that still winds up and no jump of the clock       *)
(* begins anything against it.  What had been decided before it was        *)
(* healthy is not excused by definition: a tick past its reading and a     *)
(* failed probe's write are the two ways, and the only two, in which the   *)
(* agent itself still disturbs it.                                         *)
THEOREM HealthStays == Spec => HealthyLeftAlone
<1>1. TypeOK /\ [Next]_vars =>
          [ Healthy =>
              \/ /\ Healthy'
                 /\ TickUnderWay' => TickUnderWay
                 /\ WriteUnderWay' => WriteUnderWay
              \/ CloudChanges \/ NetworkMoves \/ AgentRestarts
              \/ TickUnderWay /\ (RefreshDns \/ CheckGrace)
              \/ \E t \in Threads : thread[t] = "down" /\ FailedWrites(t) ]_vars
  BY HealthyStep DEF StaysWell
<1> QED BY <1>1, TypeCorrect, PTL DEF Spec, HealthyLeftAlone
==============================================================================
