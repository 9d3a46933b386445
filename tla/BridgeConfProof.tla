--------------------------- MODULE BridgeConfProof ---------------------------
(***************************************************************************)
(* Proofs about the bridge's configuration: types, that mosquitto runs     *)
(* what is on disk, and that what is on disk is current, for any servers,  *)
(* tokens and registries and any number of threads in ensure_current.      *)
(*                                                                         *)
(* Both properties speak of an agent at rest.  While threads are inside    *)
(* ensure_current the first depends on each of them remembering what it    *)
(* owes mosquitto, the second on what each rendered still being what the   *)
(* state asks for: that is so as long as no second thread has begun.       *)
(*                                                                         *)
(* Then what a call of ensure_current owes its caller: left alone it does  *)
(* on return what it would do in one step.                                 *)
(***************************************************************************)
EXTENDS BridgeConf, TLAPS

\* No thread and no BLE session outlives its process; Net is not in ensure_current
\* before the agent runs and after it left the loop.
Placed ==
    /\ phase = "off" => session = "shut" /\ \A c \in Callers : pc[c] = "idle"
    /\ phase \in {"provisioning", "exiting"} => pc[Net] = "idle"

\* A running agent has a server to bridge to.
Sited ==
    /\ env.server \in Hosts
    /\ phase # "off" => server \in Hosts

\* The strengthening of MosquittoRunsDisk: mosquitto and the disk differ only
\* while some thread owes mosquitto a restart, and knows it.
DiskOwed ==
    /\ \A c \in Callers : pc[c] \in {"idle", "redirect", "render", "acl"} => ~local[c].aclChanged
    /\ ~missed /\ (\A c \in Callers : ~Unfinished(c)) => loaded = [conf |-> conf, acl |-> acl]

Active(c) == pc[c] \notin {"idle", "redirect"}

\* How far c has made the disk what the state asks for now.
OnItsWay(c) ==
    /\ pc[c] = "render" => local[c].host \in {None, override}
    /\ pc[c] \in {"acl", "compare", "write", "restart"} => local[c].rendered = Rendered
    /\ pc[c] \in {"compare", "write", "restart"} => acl = wanted
    /\ pc[c] = "restart" => conf = Rendered

\* The bridge has been brought up in this life of the agent.
BroughtUp == phase = "running" \/ (phase = "provisioning" /\ session = "done")

\* The strengthening of DiskIsCurrent: without an overlap one thread at a time is
\* at work, on what the state asks for now, unless a redirect is about to be
\* written, after which Net starts over.
OneAtWork ==
    /\ \A c, d \in Callers : Active(c) /\ Active(d) => c = d
    /\ phase # "exiting" /\ pc[Net] # "redirect" => \A c \in Callers : OnItsWay(c)
    /\ BroughtUp /\ (\A c \in Callers : ~InCall(c)) => conf = Rendered /\ acl = wanted

(***************************************************************************)
(* What a thread holds.                                                    *)
(***************************************************************************)
Holding == [host : Hosts \union {None}, rendered : Conf \union {None},
            forced : BOOLEAN, aclChanged : BOOLEAN]

Points == {"idle", "redirect", "render", "acl", "compare", "write", "restart"}

LEMMA IdleHolds ==
  /\ Idle \in Holding /\ Idle.host = None /\ ~Idle.aclChanged
  /\ \A host \in Hosts \union {None}, forced \in BOOLEAN :
         LET r == [Idle EXCEPT !.host = host, !.forced = forced]
         IN  r \in Holding /\ r.host = host /\ r.aclChanged = FALSE
  BY DEF Idle, Holding

LEMMA HoldsRendered ==
  ASSUME NEW r \in Holding, NEW x \in Conf \union {None}
  PROVE  /\ [r EXCEPT !.rendered = x] \in Holding
         /\ [r EXCEPT !.rendered = x].rendered = x
         /\ [r EXCEPT !.rendered = x].host = r.host
         /\ [r EXCEPT !.rendered = x].aclChanged = r.aclChanged
  BY DEF Holding

LEMMA HoldsAcl ==
  ASSUME NEW r \in Holding, NEW x \in BOOLEAN
  PROVE  /\ [r EXCEPT !.aclChanged = x] \in Holding
         /\ [r EXCEPT !.aclChanged = x].rendered = r.rendered
         /\ [r EXCEPT !.aclChanged = x].host = r.host
         /\ [r EXCEPT !.aclChanged = x].aclChanged = x
  BY DEF Holding

LEMMA HoldsHost ==
  ASSUME NEW r \in Holding, NEW x \in Hosts \union {None}
  PROVE  /\ [r EXCEPT !.host = x] \in Holding
         /\ [r EXCEPT !.host = x].rendered = r.rendered
         /\ [r EXCEPT !.host = x].aclChanged = r.aclChanged
  BY DEF Holding

(***************************************************************************)
(* Type correctness.                                                       *)
(***************************************************************************)
ThreadsOK == pc \in [Callers -> Points] /\ local \in [Callers -> Holding]

DataOK ==
    /\ server \in Hosts \union {None} /\ token \in Tokens \union {None}
    /\ env \in [server : Hosts \union {None}, token : Tokens \union {None}]
    /\ override \in Hosts \union {None}
    /\ registry \in Registries
    /\ wanted \in {0, 1} /\ acl \in {0, 1}
    /\ conf \in Conf \union {Torn, None}
    /\ loaded \in [conf : Conf \union {Torn, None}, acl : {0, 1}]
    /\ phase \in {"off", "provisioning", "starting", "running", "exiting"}
    /\ session \in {"shut", "open", "done", "expired"}
    /\ events \in 0..MaxEvents

FlagsOK == missed \in BOOLEAN /\ overlapped \in BOOLEAN /\ outlived \in BOOLEAN

LEMMA TypeParts == TypeOK <=> ThreadsOK /\ DataOK /\ FlagsOK
  BY DEF TypeOK, ThreadsOK, DataOK, FlagsOK, Points, Holding

LEMMA TypeInit == Init => TypeOK /\ Placed /\ Sited
<1> SUFFICES ASSUME Init PROVE TypeOK /\ Placed /\ Sited
  OBVIOUS
<1>1. ThreadsOK
  BY IdleHolds DEF Init, ThreadsOK, Points
<1>2. DataOK
  BY BridgeConfAssumption DEF Init, DataOK
<1>3. FlagsOK
  BY Zenon DEF Init, FlagsOK
<1>4. Placed /\ Sited
  BY DEF Init, Placed, Sited
<1> QED BY <1>1, <1>2, <1>3, <1>4, TypeParts

LEMMA FlagsNext == FlagsOK /\ [Next]_vars => FlagsOK'
<1> SUFFICES ASSUME FlagsOK, [Next]_vars
             PROVE  FlagsOK'
  OBVIOUS
<1> USE DEF FlagsOK, identity
<1>1. ASSUME NEW c \in Callers, EnsureCurrent(c)
      PROVE  FlagsOK'
  BY <1>1, Zenon DEF EnsureCurrent, EnsureRenders, EnsureWritesAcl, EnsureSkips,
                     EnsureOnlyRestarts, EnsureTruncates, EnsureWrites, EnsureRestarts
<1>2. ASSUME NEW host \in Hosts, HandleRedirect(host)
      PROVE  FlagsOK'
  BY <1>2, Zenon DEF HandleRedirect
<1>3. ASSUME NEW value \in Registries, HandleRegistry(value)
      PROVE  FlagsOK'
  BY <1>3, Zenon DEF HandleRegistry, Calls
<1>4. ASSUME NEW c \in Connects, NEW newToken \in Tokens, NEW host \in Hosts,
             DoConnect(c, newToken, host)
      PROVE  FlagsOK'
  BY <1>4, Zenon DEF DoConnect, Calls
<1>5. CASE RedirectWrites \/ HandleReset
  BY <1>5, Zenon DEF RedirectWrites, HandleReset, Calls
<1>6. CASE HandleReconfigure \/ Exits \/ Reprovisions \/ SessionExpires \/ SessionEnds
  BY <1>6, Zenon DEF HandleReconfigure, Exits, Reprovisions, SessionExpires, SessionEnds, ProcessEnds
<1>7. CASE AgentStarts \/ AgentDies \/ PowerCycles \/ MosquittoRestarts
  BY <1>7, Zenon DEF AgentStarts, AgentDies, PowerCycles, MosquittoRestarts, Calls, ProcessEnds
<1>8. ASSUME NEW host \in Hosts, NEW newToken \in Tokens, Redeploys(host, newToken)
      PROVE  FlagsOK'
  BY <1>8, Zenon DEF Redeploys
<1>9. CASE UNCHANGED vars
  BY <1>9, Zenon DEF vars
<1> QED BY <1>1, <1>2, <1>3, <1>4, <1>5, <1>6, <1>7, <1>8, <1>9 DEF Next, Handlers

\* Where a thread goes, and what it then holds.
LEMMA CallsThread ==
  ASSUME ThreadsOK, NEW c \in Callers, NEW host \in Hosts \union {None}, NEW forced \in BOOLEAN,
         Calls(c, host, forced)
  PROVE  /\ ThreadsOK'
         /\ pc'[c] = "render" /\ local'[c].host = host /\ local'[c].aclChanged = FALSE
         /\ \A d \in Callers \ {c} : pc'[d] = pc[d] /\ local'[d] = local[d]
         /\ ~overlapped' => \A d \in Callers \ {c} : pc[d] = "idle"
  BY IdleHolds DEF ThreadsOK, Calls, Points, InCall

LEMMA EndsThreads ==
  ASSUME ProcessEnds
  PROVE  /\ ThreadsOK'
         /\ \A c \in Callers : pc'[c] = "idle" /\ local'[c].aclChanged = FALSE
         /\ phase' = "off" /\ session' = "shut"
<1>1. Idle \in Holding /\ Idle.aclChanged = FALSE
  BY DEF Idle, Holding
<1>2. /\ pc' = [c \in Callers |-> "idle"] /\ local' = [c \in Callers |-> Idle]
      /\ phase' = "off" /\ session' = "shut"
  BY DEF ProcessEnds
<1> QED BY <1>1, <1>2 DEF ThreadsOK, Points

\* One step of ensure_current, from one point to the next.
LEMMA EnsureThread ==
  ASSUME TypeOK, NEW c \in Callers, EnsureCurrent(c), server \in Hosts
  PROVE  /\ ThreadsOK'
         /\ \A d \in Callers \ {c} : pc'[d] = pc[d] /\ local'[d] = local[d]
         /\ pc[c] \in {"render", "acl", "compare", "write", "restart"}
         /\ \/ UNCHANGED phase
            \/ c = Net /\ phase = "starting" /\ phase' = "running"
         /\ UNCHANGED <<identity, registry, wanted, overlapped>>
<1>1. pc \in [Callers -> Points] /\ local \in [Callers -> Holding]
  BY TypeParts DEF ThreadsOK
<1>2. CASE EnsureRenders(c)
  <2> DEFINE x == IF local[c].host # None THEN RenderedFor(local[c].host) ELSE Rendered
  <2>1. x \in Conf \union {None}
    BY <1>1 DEF Holding, Rendered, RenderedFor, EffectiveServer, Conf, TypeOK
  <2> HIDE DEF x
  <2>2. local' = [local EXCEPT ![c].rendered = x]
    BY <1>2 DEF EnsureRenders, x
  <2>3. local' \in [Callers -> Holding]
    BY <1>1, <2>1, <2>2, HoldsRendered
  <2> QED BY <1>1, <1>2, <2>2, <2>3 DEF EnsureRenders, Steps, ThreadsOK, Points
<1>3. CASE EnsureWritesAcl(c)
  <2> DEFINE x == acl # wanted
  <2>1. x \in BOOLEAN
    OBVIOUS
  <2>2. local' = [local EXCEPT ![c].aclChanged = x]
    BY <1>3 DEF EnsureWritesAcl
  <2> HIDE DEF x
  <2>3. local' \in [Callers -> Holding]
    BY <1>1, <2>1, <2>2, HoldsAcl
  <2> QED BY <1>1, <1>3, <2>2, <2>3 DEF EnsureWritesAcl, Steps, ThreadsOK, Points
<1>4. CASE EnsureSkips(c) \/ EnsureRestarts(c)
  BY <1>1, <1>4, IdleHolds DEF EnsureSkips, EnsureRestarts, Returns, Steps, ThreadsOK, Points
<1>5. CASE EnsureOnlyRestarts(c) \/ EnsureTruncates(c) \/ EnsureWrites(c)
  BY <1>1, <1>5 DEF EnsureOnlyRestarts, EnsureTruncates, EnsureWrites, Steps, ThreadsOK, Points
<1> QED BY <1>2, <1>3, <1>4, <1>5 DEF EnsureCurrent

\* Where the threads are, whatever the agent does.
LEMMA PlacedNext == TypeOK /\ Placed /\ Sited /\ [Next]_vars => Placed' /\ Sited'
<1> SUFFICES ASSUME TypeOK, Placed, Sited, [Next]_vars
             PROVE  Placed' /\ Sited'
  OBVIOUS
<1>t. ThreadsOK /\ env \in [server : Hosts \union {None}, token : Tokens \union {None}]
  BY TypeParts DEF DataOK
<1> USE DEF Placed, Sited, Callers
<1>1. ASSUME NEW c \in Callers, EnsureCurrent(c)
      PROVE  Placed' /\ Sited'
  <2>1. pc[c] # "idle"
    BY <1>1 DEF EnsureCurrent, EnsureRenders, EnsureWritesAcl, EnsureSkips, EnsureOnlyRestarts,
                EnsureTruncates, EnsureWrites, EnsureRestarts, Steps
  <2>2. phase # "off" /\ server \in Hosts
    BY <2>1
  <2>3. \/ UNCHANGED phase
        \/ c = Net /\ phase = "starting" /\ phase' = "running"
    BY <1>1, <2>2, EnsureThread
  <2>4. /\ \A d \in Callers \ {c} : pc'[d] = pc[d]
        /\ UNCHANGED identity
    BY <1>1, <2>2, EnsureThread
  <2> QED BY <2>1, <2>2, <2>3, <2>4, BridgeConfAssumption DEF identity
<1>2. ASSUME NEW host \in Hosts, HandleRedirect(host)
      PROVE  Placed' /\ Sited'
  BY <1>2 DEF HandleRedirect, NetHandles
<1>3. ASSUME NEW value \in Registries, HandleRegistry(value)
      PROVE  Placed' /\ Sited'
  BY <1>3 DEF HandleRegistry, NetHandles, identity
<1>4. ASSUME NEW c \in Connects, NEW newToken \in Tokens, NEW host \in Hosts,
             DoConnect(c, newToken, host)
      PROVE  Placed' /\ Sited'
  <2>1. phase # "off"
    BY <1>4, <1>t DEF DoConnect, InCall
  <2>2. \E forced \in BOOLEAN : Calls(c, None, forced)
    BY <1>4, Zenon DEF DoConnect
  <2>3. pc'[Net] = pc[Net]
    BY <2>2, <1>t, BridgeConfAssumption DEF Calls, ThreadsOK
  <2>4. env'.server \in Hosts /\ server' \in Hosts /\ UNCHANGED phase
    BY <1>4 DEF DoConnect
  <2> QED BY <2>1, <2>3, <2>4
<1>5. CASE RedirectWrites \/ HandleReset
  <2>1. CASE RedirectWrites
    <3>1. pc[Net] = "redirect" /\ UNCHANGED <<server, env, phase>>
      BY <2>1 DEF RedirectWrites
    <3> QED BY <3>1
  <2>2. CASE HandleReset
    <3>1. /\ phase = "provisioning" /\ env' = [server |-> server, token |-> None]
          /\ UNCHANGED <<server, phase, session, pc>>
      BY <2>2 DEF HandleReset
    <3> QED BY <3>1
  <2> QED BY <1>5, <2>1, <2>2
<1>6. CASE HandleReconfigure \/ SessionExpires \/ SessionEnds \/ Reprovisions
  BY <1>6, <1>t DEF HandleReconfigure, SessionExpires, SessionEnds, Reprovisions, NetHandles,
                    InCall, identity
<1>7. CASE AgentStarts
  BY <1>7, <1>t DEF AgentStarts, Calls, ThreadsOK
<1>8. CASE AgentDies \/ PowerCycles \/ Exits
  BY <1>8, EndsThreads DEF AgentDies, PowerCycles, Exits, identity
<1>9. ASSUME NEW host \in Hosts, NEW newToken \in Tokens, Redeploys(host, newToken)
      PROVE  Placed' /\ Sited'
  BY <1>9 DEF Redeploys
<1>10. CASE MosquittoRestarts \/ UNCHANGED vars
  BY <1>10 DEF MosquittoRestarts, vars, identity
<1> QED BY <1>1, <1>2, <1>3, <1>4, <1>5, <1>6, <1>7, <1>8, <1>9, <1>10 DEF Next, Handlers

LEMMA DataNext == TypeOK /\ Placed /\ Sited /\ [Next]_vars => DataOK'
<1> SUFFICES ASSUME TypeOK, Placed, Sited, [Next]_vars
             PROVE  DataOK'
  OBVIOUS
<1>t. ThreadsOK /\ DataOK
  BY TypeParts
<1> USE DEF DataOK, identity, disk
<1>1. ASSUME NEW c \in Callers, EnsureCurrent(c)
      PROVE  DataOK'
  <2>1. local[c].rendered \in Conf \union {None}
    BY <1>t DEF ThreadsOK, Holding
  <2>2. CASE EnsureRenders(c) \/ EnsureWritesAcl(c) \/ EnsureOnlyRestarts(c)
             \/ EnsureTruncates(c) \/ EnsureWrites(c)
    BY <1>t, <2>1, <2>2 DEF EnsureRenders, EnsureWritesAcl, EnsureOnlyRestarts, EnsureTruncates,
                            EnsureWrites
  <2>3. CASE EnsureSkips(c) \/ EnsureRestarts(c)
    BY <1>t, <2>3, BridgeConfAssumption DEF EnsureSkips, EnsureRestarts, Returns, Happens
  <2> QED BY <1>1, <2>2, <2>3 DEF EnsureCurrent
<1>2. ASSUME NEW host \in Hosts, HandleRedirect(host)
      PROVE  DataOK'
  BY <1>t, <1>2, BridgeConfAssumption DEF HandleRedirect, Happens
<1>3. ASSUME NEW value \in Registries, HandleRegistry(value)
      PROVE  DataOK'
  BY <1>t, <1>3, BridgeConfAssumption DEF HandleRegistry, Happens
<1>4. ASSUME NEW c \in Connects, NEW newToken \in Tokens, NEW host \in Hosts,
             DoConnect(c, newToken, host)
      PROVE  DataOK'
  BY <1>t, <1>4, BridgeConfAssumption DEF DoConnect, Happens
<1>5. CASE RedirectWrites
  <2>1. local[Net].host \in Hosts \union {None}
    BY <1>t DEF ThreadsOK, Holding, Callers
  <2> QED BY <1>t, <1>5, <2>1 DEF RedirectWrites
<1>6. CASE HandleReset
  BY <1>t, <1>6, BridgeConfAssumption DEF HandleReset, Happens
<1>7. CASE HandleReconfigure \/ SessionExpires \/ SessionEnds \/ Reprovisions
  BY <1>t, <1>7, BridgeConfAssumption
     DEF HandleReconfigure, SessionExpires, SessionEnds, Reprovisions, Happens
<1>8. CASE AgentStarts
  BY <1>t, <1>8, BridgeConfAssumption DEF AgentStarts
<1>9. CASE AgentDies \/ PowerCycles \/ Exits \/ MosquittoRestarts
  BY <1>t, <1>9, BridgeConfAssumption
     DEF AgentDies, PowerCycles, Exits, MosquittoRestarts, ProcessEnds, Happens
<1>10. ASSUME NEW host \in Hosts, NEW newToken \in Tokens, Redeploys(host, newToken)
       PROVE  DataOK'
  BY <1>t, <1>10, BridgeConfAssumption DEF Redeploys, Happens
<1>11. CASE UNCHANGED vars
  BY <1>t, <1>11 DEF vars
<1> QED BY <1>1, <1>2, <1>3, <1>4, <1>5, <1>6, <1>7, <1>8, <1>9, <1>10, <1>11 DEF Next, Handlers

LEMMA ThreadsNext == TypeOK /\ Placed /\ Sited /\ [Next]_vars => ThreadsOK'
<1> SUFFICES ASSUME TypeOK, Placed, Sited, [Next]_vars
             PROVE  ThreadsOK'
  OBVIOUS
<1>t. ThreadsOK
  BY TypeParts
<1>1. ASSUME NEW c \in Callers, EnsureCurrent(c)
      PROVE  ThreadsOK'
  <2>1. pc[c] # "idle"
    BY <1>1 DEF EnsureCurrent, EnsureRenders, EnsureWritesAcl, EnsureSkips, EnsureOnlyRestarts,
                EnsureTruncates, EnsureWrites, EnsureRestarts, Steps
  <2>2. server \in Hosts
    BY <2>1 DEF Placed, Sited
  <2> QED BY <1>1, <2>2, EnsureThread
<1>2. ASSUME NEW host \in Hosts, HandleRedirect(host)
      PROVE  ThreadsOK'
  BY <1>2, <1>t, HoldsHost DEF HandleRedirect, ThreadsOK, Callers, Points
<1>3. ASSUME NEW value \in Registries, HandleRegistry(value)
      PROVE  ThreadsOK'
  <2>1. Calls(Net, None, TRUE)
    BY <1>3, Zenon DEF HandleRegistry
  <2> QED BY <1>t, <2>1, CallsThread DEF Callers
<1>4. ASSUME NEW c \in Connects, NEW newToken \in Tokens, NEW host \in Hosts,
             DoConnect(c, newToken, host)
      PROVE  ThreadsOK'
  <2>1. \E forced \in BOOLEAN : Calls(c, None, forced)
    BY <1>4, Zenon DEF DoConnect
  <2> QED BY <1>t, <2>1, CallsThread DEF Callers
<1>5. CASE RedirectWrites
  <2>1. Calls(Net, local[Net].host, FALSE)
    BY <1>5, Zenon DEF RedirectWrites
  <2>2. local[Net].host \in Hosts \union {None}
    BY <1>t DEF ThreadsOK, Holding, Callers
  <2> QED BY <1>t, <2>1, <2>2, CallsThread DEF Callers
<1>6. CASE AgentStarts
  <2>1. Calls(Net, None, FALSE) \/ UNCHANGED <<pc, local>>
    BY <1>6, Zenon DEF AgentStarts
  <2> QED BY <1>t, <2>1, CallsThread DEF Callers, ThreadsOK
<1>7. CASE AgentDies \/ PowerCycles \/ Exits
  BY <1>7, EndsThreads DEF AgentDies, PowerCycles, Exits
<1>8. CASE HandleReset \/ HandleReconfigure \/ SessionExpires \/ SessionEnds \/ Reprovisions
           \/ MosquittoRestarts \/ UNCHANGED vars
  <2>1. UNCHANGED <<pc, local>>
    BY <1>8, Zenon DEF HandleReset, HandleReconfigure, SessionExpires, SessionEnds, Reprovisions,
                MosquittoRestarts, vars
  <2> QED BY <1>t, <2>1 DEF ThreadsOK
<1>9. ASSUME NEW host \in Hosts, NEW newToken \in Tokens, Redeploys(host, newToken)
      PROVE  ThreadsOK'
  BY <1>t, <1>9 DEF Redeploys, ThreadsOK
<1> QED BY <1>1, <1>2, <1>3, <1>4, <1>5, <1>6, <1>7, <1>8, <1>9 DEF Next, Handlers

Typed == TypeOK /\ Placed /\ Sited

LEMMA TypedNext == Typed /\ [Next]_vars => Typed'
<1> SUFFICES ASSUME Typed, [Next]_vars
             PROVE  Typed'
  OBVIOUS
<1>1. Placed' /\ Sited'
  BY PlacedNext DEF Typed
<1>2. ThreadsOK' /\ DataOK' /\ FlagsOK'
  BY ThreadsNext, DataNext, FlagsNext, TypeParts DEF Typed
<1>3. TypeOK'
  BY <1>2 DEF TypeOK, ThreadsOK, DataOK, FlagsOK, Points, Holding
<1> QED BY <1>1, <1>3 DEF Typed

LEMMA StaysTyped == Spec => []Typed
<1>1. Init => Typed
  BY TypeInit DEF Typed
<1> QED BY <1>1, TypedNext, PTL DEF Spec

(* The files, what mosquitto has read, what each thread is at and holds    *)
(* stay of their types: what is rendered is always a configuration for a   *)
(* real server, since the agent never runs without one.                    *)
THEOREM TypeCorrect == Spec => []TypeOK
<1>1. Typed => TypeOK
  BY DEF Typed
<1> QED BY <1>1, StaysTyped, PTL

(***************************************************************************)
(* mosquitto runs what is on disk.                                         *)
(***************************************************************************)
Calm(c) == pc[c] \in {"idle", "redirect", "render", "acl"} => ~local[c].aclChanged

\* A step that leaves files and mosquitto alone, and no thread forgets what it owes.
LEMMA OwedKept ==
  ASSUME DiskOwed, UNCHANGED <<disk, loaded, missed>>,
         \A d \in Callers : Calm(d)' /\ (Unfinished(d) => Unfinished(d)')
  PROVE  DiskOwed'
  BY DEF DiskOwed, Calm, disk

\* A thread that begins owed nothing before, and owes nothing yet.
LEMMA OwedCalling ==
  ASSUME Typed, DiskOwed, NEW c \in Callers, pc[c] \in {"idle", "redirect"},
         NEW host \in Hosts \union {None}, NEW forced \in BOOLEAN, Calls(c, host, forced),
         UNCHANGED <<disk, loaded, missed>>
  PROVE  DiskOwed'
<1>1. ThreadsOK
  BY TypeParts DEF Typed
<1>2. /\ pc'[c] = "render" /\ local'[c].aclChanged = FALSE
      /\ \A d \in Callers \ {c} : pc'[d] = pc[d] /\ local'[d] = local[d]
  BY <1>1, CallsThread
<1>3. \A d \in Callers : Calm(d)' /\ (Unfinished(d) => Unfinished(d)')
  BY <1>2 DEF DiskOwed, Calm, Unfinished
<1> QED BY <1>3, OwedKept

LEMMA OwedEnsure ==
  ASSUME Typed, DiskOwed, NEW c \in Callers, EnsureCurrent(c)
  PROVE  DiskOwed'
<1>t. ThreadsOK
  BY TypeParts DEF Typed
<1>1. /\ \A d \in Callers \ {c} : pc'[d] = pc[d] /\ local'[d] = local[d]
      /\ pc[c] \in {"render", "acl", "compare", "write", "restart"}
  <2>1. pc[c] # "idle"
    BY DEF EnsureCurrent, EnsureRenders, EnsureWritesAcl, EnsureSkips, EnsureOnlyRestarts,
           EnsureTruncates, EnsureWrites, EnsureRestarts, Steps
  <2>2. server \in Hosts
    BY <2>1 DEF Typed, Placed, Sited
  <2> QED BY <2>2, EnsureThread DEF Typed
<1>2. \A d \in Callers \ {c} : Calm(d)' /\ (Unfinished(d)' <=> Unfinished(d))
  BY <1>1 DEF DiskOwed, Calm, Unfinished
<1>3. CASE EnsureRenders(c)
  <2> DEFINE x == IF local[c].host # None THEN RenderedFor(local[c].host) ELSE Rendered
  <2>1. pc[c] = "render" /\ pc'[c] = "acl" /\ local' = [local EXCEPT ![c].rendered = x]
    BY <1>3, <1>t DEF EnsureRenders, Steps, ThreadsOK
  <2>2. x \in Conf \union {None}
    BY <1>t, <2>1 DEF ThreadsOK, Holding, Rendered, RenderedFor, EffectiveServer, Conf,
                      Typed, TypeOK, Placed, Sited
  <2> HIDE DEF x
  <2>3. local'[c].aclChanged = local[c].aclChanged
    BY <1>t, <2>1, <2>2, HoldsRendered DEF ThreadsOK
  <2>4. Calm(c)' /\ (Unfinished(c) => Unfinished(c)')
    BY <2>1, <2>3 DEF DiskOwed, Calm, Unfinished
  <2> QED BY <1>2, <1>3, <2>4, OwedKept DEF EnsureRenders
<1>4. CASE EnsureWritesAcl(c)
  <2> DEFINE x == acl # wanted
  <2>1. /\ pc[c] = "acl" /\ pc'[c] = "compare" /\ acl' = wanted
        /\ local' = [local EXCEPT ![c].aclChanged = x]
        /\ UNCHANGED <<conf, loaded, missed>>
    BY <1>4, <1>t DEF EnsureWritesAcl, Steps, ThreadsOK
  <2>2. x \in BOOLEAN /\ (acl' # acl => x)
    BY <2>1
  <2> HIDE DEF x
  <2>3. local'[c].aclChanged = x
    BY <1>t, <2>1, <2>2, HoldsAcl DEF ThreadsOK
  <2>4. Calm(c)' /\ ~Unfinished(c) /\ (acl' # acl => Unfinished(c)')
    BY <2>1, <2>2, <2>3 DEF DiskOwed, Calm, Unfinished
  <2> QED BY <1>2, <2>1, <2>4 DEF DiskOwed, Calm
<1>5. CASE EnsureSkips(c)
  <2>1. pc[c] = "compare" /\ pc'[c] = "idle" /\ ~local[c].aclChanged /\ local'[c] = Idle
    BY <1>5, <1>t DEF EnsureSkips, Steps, Returns, ThreadsOK
  <2>2. Calm(c)' /\ (Unfinished(c) => Unfinished(c)')
    BY <2>1, IdleHolds DEF Calm, Unfinished
  <2> QED BY <1>2, <1>5, <2>2, OwedKept DEF EnsureSkips
<1>6. CASE EnsureOnlyRestarts(c) \/ EnsureTruncates(c) \/ EnsureWrites(c)
  <2>1. pc'[c] \in {"write", "restart"}
    BY <1>6, <1>t DEF EnsureOnlyRestarts, EnsureTruncates, EnsureWrites, Steps, ThreadsOK
  <2>2. Calm(c)' /\ Unfinished(c)'
    BY <2>1 DEF Calm, Unfinished
  <2> QED BY <1>2, <2>2 DEF DiskOwed, Calm
<1>7. CASE EnsureRestarts(c)
  <2>1. pc'[c] = "idle" /\ local'[c] = Idle
    BY <1>7, <1>t DEF EnsureRestarts, Steps, Returns, ThreadsOK
  <2>2. Calm(c)'
    BY <2>1, IdleHolds DEF Calm
  <2>3. missed' \/ loaded' = [conf |-> conf', acl |-> acl']
    BY <1>7 DEF EnsureRestarts, disk
  <2> QED BY <1>2, <2>2, <2>3 DEF DiskOwed, Calm
<1> QED BY <1>3, <1>4, <1>5, <1>6, <1>7 DEF EnsureCurrent

LEMMA OwedNext == Typed /\ DiskOwed /\ [Next]_vars => DiskOwed'
<1> SUFFICES ASSUME Typed, DiskOwed, [Next]_vars
             PROVE  DiskOwed'
  OBVIOUS
<1>t. ThreadsOK /\ Net \in Callers
  BY TypeParts DEF Typed, Callers
<1>1. ASSUME NEW c \in Callers, EnsureCurrent(c)
      PROVE  DiskOwed'
  BY <1>1, OwedEnsure
<1>2. ASSUME NEW host \in Hosts, HandleRedirect(host)
      PROVE  DiskOwed'
  <2>1. /\ pc[Net] = "idle" /\ pc'[Net] = "redirect"
        /\ local' = [local EXCEPT ![Net].host = host]
        /\ \A d \in Callers \ {Net} : pc'[d] = pc[d]
    BY <1>2, <1>t DEF HandleRedirect, NetHandles, InCall, ThreadsOK
  <2>2. /\ local'[Net].aclChanged = local[Net].aclChanged
        /\ \A d \in Callers \ {Net} : local'[d] = local[d]
    BY <1>t, <2>1, HoldsHost DEF ThreadsOK
  <2>3. \A d \in Callers : Calm(d)' /\ (Unfinished(d) => Unfinished(d)')
    BY <2>1, <2>2 DEF DiskOwed, Calm, Unfinished
  <2> QED BY <1>2, <2>3, OwedKept DEF HandleRedirect
<1>3. ASSUME NEW value \in Registries, HandleRegistry(value)
      PROVE  DiskOwed'
  <2>1. Calls(Net, None, TRUE) /\ pc[Net] = "idle" /\ UNCHANGED <<disk, loaded, missed>>
    BY <1>3, Zenon DEF HandleRegistry, NetHandles, InCall
  <2> QED BY <1>t, <2>1, OwedCalling
<1>4. ASSUME NEW c \in Connects, NEW newToken \in Tokens, NEW host \in Hosts,
             DoConnect(c, newToken, host)
      PROVE  DiskOwed'
  <2>1. /\ \E forced \in BOOLEAN : Calls(c, None, forced)
        /\ pc[c] = "idle" /\ UNCHANGED <<disk, loaded, missed>>
    BY <1>4, Zenon DEF DoConnect, InCall
  <2> QED BY <2>1, OwedCalling DEF Callers
<1>5. CASE RedirectWrites
  <2>1. /\ Calls(Net, local[Net].host, FALSE)
        /\ pc[Net] = "redirect" /\ UNCHANGED <<disk, loaded, missed>>
    BY <1>5, Zenon DEF RedirectWrites
  <2>2. local[Net].host \in Hosts \union {None}
    BY <1>t DEF ThreadsOK, Holding
  <2> QED BY <1>t, <2>1, <2>2, OwedCalling
<1>6. CASE AgentStarts
  <2>1. pc[Net] = "idle"
    BY <1>6, <1>t DEF AgentStarts, Typed, Placed
  <2>2. UNCHANGED <<disk, loaded, missed>>
    BY <1>6, Zenon DEF AgentStarts
  <2>3. CASE Calls(Net, None, FALSE)
    BY <1>t, <2>1, <2>2, <2>3, OwedCalling
  <2>4. CASE UNCHANGED <<pc, local>>
    BY <2>2, <2>4, OwedKept DEF DiskOwed, Calm, Unfinished
  <2>5. Calls(Net, None, FALSE) \/ UNCHANGED <<pc, local>>
    BY <1>6, Zenon DEF AgentStarts
  <2> QED BY <2>3, <2>4, <2>5
<1>7. CASE AgentDies \/ Exits
  <2>1. ProcessEnds /\ UNCHANGED <<disk, loaded>>
    BY <1>7, Zenon DEF AgentDies, Exits
  <2>2. \A d \in Callers : Calm(d)'
    BY <2>1, EndsThreads DEF Calm
  <2>3. CASE AgentDies
    <3>1. missed' = (missed \/ \E c \in Callers : Unfinished(c))
      BY <2>3, Zenon DEF AgentDies
    <3>2. ~missed' => ~missed /\ \A c \in Callers : ~Unfinished(c)
      BY <3>1, Zenon
    <3> QED BY <2>1, <2>2, <3>2 DEF DiskOwed, Calm, disk
  <2>4. CASE Exits
    <3>1. \A d \in Callers : pc[d] = "idle"
      BY <2>4 DEF Exits, Typed, Placed, Callers, InCall
    <3>2. \A d \in Callers : ~Unfinished(d)
      BY <3>1 DEF DiskOwed, Unfinished
    <3> QED BY <2>1, <2>2, <2>4, <3>2, OwedKept DEF Exits
  <2> QED BY <1>7, <2>3, <2>4
<1>8. CASE PowerCycles
  <2>1. ProcessEnds /\ loaded' = [conf |-> conf', acl |-> acl']
    BY <1>8 DEF PowerCycles, disk
  <2> QED BY <2>1, EndsThreads DEF DiskOwed
<1>9. CASE MosquittoRestarts
  <2>1. UNCHANGED <<pc, local>> /\ loaded' = [conf |-> conf', acl |-> acl']
    BY <1>9 DEF MosquittoRestarts, disk
  <2> QED BY <2>1 DEF DiskOwed
<1>10. ASSUME NEW host \in Hosts, NEW newToken \in Tokens, Redeploys(host, newToken)
       PROVE  DiskOwed'
  <2>1. UNCHANGED <<pc, local, disk, loaded, missed>>
    BY <1>10 DEF Redeploys
  <2> QED BY <2>1, OwedKept DEF DiskOwed, Calm, Unfinished
<1>11. CASE HandleReset \/ HandleReconfigure \/ SessionExpires \/ SessionEnds \/ Reprovisions
            \/ UNCHANGED vars
  <2>1. UNCHANGED <<pc, local, disk, loaded, missed>>
    BY <1>11, Zenon DEF HandleReset, HandleReconfigure, SessionExpires, SessionEnds, Reprovisions,
                        vars
  <2> QED BY <2>1, OwedKept DEF DiskOwed, Calm, Unfinished
<1> QED BY <1>1, <1>2, <1>3, <1>4, <1>5, <1>6, <1>7, <1>8, <1>9, <1>10, <1>11 DEF Next, Handlers

(* mosquitto runs what is on disk whenever the agent is at rest, however   *)
(* many threads were in ensure_current at once and whatever each found     *)
(* changed, unless docker failed to restart it or the agent died owing it  *)
(* a restart.                                                              *)
THEOREM RunsDisk == Spec => []MosquittoRunsDisk
<1>1. Init => DiskOwed
  BY IdleHolds DEF Init, DiskOwed
<1>2. Typed /\ DiskOwed => MosquittoRunsDisk
  BY DEF DiskOwed, MosquittoRunsDisk, AtRest, InCall, Unfinished
<1> QED BY <1>1, <1>2, StaysTyped, OwedNext, PTL DEF Spec

(***************************************************************************)
(* What is on disk is current.                                             *)
(***************************************************************************)
\* Nobody is at work, and the bridge is still to be brought up.
LEMMA NobodyAtWork ==
  ASSUME \A d \in Callers : pc'[d] = "idle", ~BroughtUp'
  PROVE  OneAtWork'
  BY DEF OneAtWork, Active, OnItsWay

\* A thread begins when nobody else is at work.
LEMMA OneCalling ==
  ASSUME Typed, NEW c \in Callers, NEW host \in Hosts \union {None}, NEW forced \in BOOLEAN,
         Calls(c, host, forced), ~overlapped', host \in {None, override'}
  PROVE  OneAtWork'
<1>1. /\ pc'[c] = "render" /\ local'[c].host = host
      /\ \A d \in Callers \ {c} : pc'[d] = "idle"
  BY TypeParts, CallsThread DEF Typed
<1> QED BY <1>1 DEF OneAtWork, Active, OnItsWay, InCall

\* A step that leaves alone what the threads have made and what they make it from.
LEMMA WorkKept ==
  ASSUME OneAtWork, UNCHANGED <<server, token, override, registry, wanted, disk, pc, local>>,
         BroughtUp' => BroughtUp, phase = "exiting" => phase' = "exiting"
  PROVE  OneAtWork'
<1>1. UNCHANGED <<Rendered, conf, acl, wanted, override>>
  BY DEF Rendered, RenderedFor, EffectiveServer, disk
<1>2. \A d \in Callers : UNCHANGED <<pc[d], local[d]>>
  OBVIOUS
<1>3. \A d \in Callers : (Active(d)' <=> Active(d)) /\ (OnItsWay(d) => OnItsWay(d)')
  BY <1>1, <1>2 DEF Active, OnItsWay
<1> QED BY <1>1, <1>2, <1>3 DEF OneAtWork, InCall

\* The one thread at work takes what it has rendered, step by step, to the disk.
LEMMA WorkEnsure ==
  ASSUME Typed, OneAtWork, NEW c \in Callers, EnsureCurrent(c)
  PROVE  OneAtWork'
<1>t. ThreadsOK
  BY TypeParts DEF Typed
<1>1. /\ \A d \in Callers \ {c} : pc'[d] = pc[d] /\ local'[d] = local[d]
      /\ pc[c] \in {"render", "acl", "compare", "write", "restart"}
      /\ UNCHANGED phase \/ (phase = "starting" /\ phase' = "running")
      /\ UNCHANGED <<server, token, override, registry, wanted>>
  <2>1. pc[c] # "idle"
    BY DEF EnsureCurrent, EnsureRenders, EnsureWritesAcl, EnsureSkips, EnsureOnlyRestarts,
           EnsureTruncates, EnsureWrites, EnsureRestarts, Steps
  <2>2. server \in Hosts
    BY <2>1 DEF Typed, Placed, Sited
  <2> QED BY <2>2, EnsureThread DEF Typed, identity
<1>2. UNCHANGED Rendered
  BY <1>1 DEF Rendered, RenderedFor, EffectiveServer
<1>3. \A d \in Callers \ {c} : ~Active(d) /\ ~Active(d)' /\ OnItsWay(d)'
  BY <1>1 DEF OneAtWork, Active, OnItsWay
<1>4. \A d, e \in Callers : Active(d)' /\ Active(e)' => d = e
  BY <1>3
<1>5. ASSUME phase # "exiting", pc[Net] # "redirect"
      PROVE  /\ OnItsWay(c)'
             /\ pc'[c] = "idle" => conf' = Rendered' /\ acl' = wanted'
  <2>1. OnItsWay(c)
    BY <1>5 DEF OneAtWork
  <2>2. CASE EnsureRenders(c)
    <3> DEFINE x == IF local[c].host # None THEN RenderedFor(local[c].host) ELSE Rendered
    <3>1. pc[c] = "render" /\ pc'[c] = "acl" /\ local' = [local EXCEPT ![c].rendered = x]
      BY <2>2, <1>t DEF EnsureRenders, Steps, ThreadsOK
    <3>2. x = Rendered
      BY <2>1, <3>1 DEF OnItsWay, Rendered, EffectiveServer
    <3>3. Rendered \in Conf \union {None}
      BY <3>1 DEF Rendered, RenderedFor, EffectiveServer, Conf, Typed, TypeOK, Placed, Sited
    <3> HIDE DEF x
    <3>4. local'[c].rendered = Rendered
      BY <1>t, <3>1, <3>2, <3>3, HoldsRendered DEF ThreadsOK
    <3> QED BY <1>2, <3>1, <3>4 DEF OnItsWay
  <2>3. CASE EnsureWritesAcl(c)
    <3> DEFINE x == acl # wanted
    <3>1. /\ pc[c] = "acl" /\ pc'[c] = "compare" /\ acl' = wanted
          /\ local' = [local EXCEPT ![c].aclChanged = x]
      BY <2>3, <1>t DEF EnsureWritesAcl, Steps, ThreadsOK
    <3>2. x \in BOOLEAN
      OBVIOUS
    <3> HIDE DEF x
    <3>3. local'[c].rendered = local[c].rendered
      BY <1>t, <3>1, <3>2, HoldsAcl DEF ThreadsOK
    <3> QED BY <1>1, <1>2, <2>1, <3>1, <3>3 DEF OnItsWay
  <2>4. CASE EnsureSkips(c)
    <3>1. /\ pc[c] = "compare" /\ pc'[c] = "idle" /\ conf = local[c].rendered
          /\ UNCHANGED <<conf, acl>>
      BY <2>4, <1>t DEF EnsureSkips, Steps, ThreadsOK, disk
    <3> QED BY <1>1, <1>2, <2>1, <3>1 DEF OnItsWay
  <2>5. CASE EnsureOnlyRestarts(c)
    <3>1. /\ pc[c] = "compare" /\ pc'[c] = "restart" /\ conf = local[c].rendered
          /\ UNCHANGED <<conf, acl, local>>
      BY <2>5, <1>t DEF EnsureOnlyRestarts, Steps, ThreadsOK, disk
    <3> QED BY <1>1, <1>2, <2>1, <3>1 DEF OnItsWay
  <2>6. CASE EnsureTruncates(c)
    <3>1. pc[c] = "compare" /\ pc'[c] = "write" /\ UNCHANGED <<acl, local>>
      BY <2>6, <1>t DEF EnsureTruncates, Steps, ThreadsOK
    <3> QED BY <1>1, <1>2, <2>1, <3>1 DEF OnItsWay
  <2>7. CASE EnsureWrites(c)
    <3>1. /\ pc[c] = "write" /\ pc'[c] = "restart" /\ conf' = local[c].rendered
          /\ UNCHANGED <<acl, local>>
      BY <2>7, <1>t DEF EnsureWrites, Steps, ThreadsOK
    <3> QED BY <1>1, <1>2, <2>1, <3>1 DEF OnItsWay
  <2>8. CASE EnsureRestarts(c)
    <3>1. pc[c] = "restart" /\ pc'[c] = "idle" /\ UNCHANGED <<conf, acl>>
      BY <2>8, <1>t DEF EnsureRestarts, Steps, ThreadsOK, disk
    <3> QED BY <1>1, <1>2, <2>1, <3>1 DEF OnItsWay
  <2> QED BY <2>2, <2>3, <2>4, <2>5, <2>6, <2>7, <2>8 DEF EnsureCurrent
<1>6. /\ pc'[Net] # "redirect" => pc[Net] # "redirect"
      /\ phase = "exiting" => phase' = "exiting"
  BY <1>1 DEF Callers
<1>7. (\A d \in Callers : ~InCall(d)') => pc'[c] = "idle" /\ pc'[Net] # "redirect"
  BY DEF InCall, Callers
<1>8. BroughtUp' => phase # "exiting"
  BY <1>6 DEF BroughtUp
<1> QED BY <1>3, <1>4, <1>5, <1>6, <1>7, <1>8 DEF OneAtWork

WorkInv == Typed /\ (~overlapped => OneAtWork)

LEMMA WorkNext == WorkInv /\ [Next]_vars => WorkInv'
<1> SUFFICES ASSUME Typed, ~overlapped => OneAtWork, [Next]_vars, ~overlapped'
             PROVE  OneAtWork'
  BY TypedNext DEF WorkInv
<1>t. ThreadsOK /\ Net \in Callers
  BY TypeParts DEF Typed, Callers
<1>1. ASSUME NEW c \in Callers, EnsureCurrent(c)
      PROVE  OneAtWork'
  <2>1. UNCHANGED overlapped
    BY <1>1, Zenon DEF EnsureCurrent, EnsureRenders, EnsureWritesAcl, EnsureSkips,
                       EnsureOnlyRestarts, EnsureTruncates, EnsureWrites, EnsureRestarts
  <2> QED BY <1>1, <2>1, WorkEnsure
<1>2. ASSUME NEW host \in Hosts, HandleRedirect(host)
      PROVE  OneAtWork'
  <2>1. OneAtWork
    BY <1>2, Zenon DEF HandleRedirect
  <2>2. pc[Net] = "idle" /\ pc'[Net] = "redirect" /\ \A d \in Callers \ {Net} : pc'[d] = pc[d]
    BY <1>2, <1>t DEF HandleRedirect, NetHandles, InCall, ThreadsOK
  <2> QED BY <1>t, <2>1, <2>2 DEF OneAtWork, Active, InCall
<1>3. ASSUME NEW value \in Registries, HandleRegistry(value)
      PROVE  OneAtWork'
  <2>1. Calls(Net, None, TRUE)
    BY <1>3, Zenon DEF HandleRegistry
  <2> QED BY <1>t, <2>1, OneCalling
<1>4. ASSUME NEW c \in Connects, NEW newToken \in Tokens, NEW host \in Hosts,
             DoConnect(c, newToken, host)
      PROVE  OneAtWork'
  <2>1. \E forced \in BOOLEAN : Calls(c, None, forced)
    BY <1>4, Zenon DEF DoConnect
  <2> QED BY <2>1, OneCalling DEF Callers
<1>5. CASE RedirectWrites
  <2>1. Calls(Net, local[Net].host, FALSE) /\ override' = local[Net].host
    BY <1>5, Zenon DEF RedirectWrites
  <2>2. local[Net].host \in Hosts \union {None}
    BY <1>t DEF ThreadsOK, Holding
  <2> QED BY <1>t, <2>1, <2>2, OneCalling
<1>6. CASE AgentStarts
  <2>1. CASE Calls(Net, None, FALSE)
    BY <1>t, <2>1, OneCalling
  <2>2. CASE UNCHANGED pc /\ phase' = "provisioning" /\ session' = "open"
    <3>1. \A d \in Callers : pc[d] = "idle"
      BY <1>6 DEF AgentStarts, Typed, Placed
    <3> QED BY <2>2, <3>1, NobodyAtWork DEF BroughtUp
  <2>3. \/ Calls(Net, None, FALSE)
        \/ UNCHANGED pc /\ phase' = "provisioning" /\ session' = "open"
    BY <1>6, Zenon DEF AgentStarts
  <2> QED BY <2>1, <2>2, <2>3
<1>7. CASE AgentDies \/ PowerCycles \/ Exits
  <2>1. ProcessEnds
    BY <1>7, Zenon DEF AgentDies, PowerCycles, Exits
  <2> QED BY <2>1, EndsThreads, NobodyAtWork DEF BroughtUp
<1>8. CASE HandleReset
  <2>1. overlapped' = \E c \in Connects : InCall(c)
    BY <1>8, Zenon DEF HandleReset
  <2>2. \A c \in Connects : pc[c] = "idle"
    BY <2>1, Zenon DEF InCall
  <2>3. phase = "provisioning" /\ session = "open" /\ UNCHANGED <<phase, session, pc>>
    BY <1>8 DEF HandleReset
  <2>4. pc[Net] = "idle"
    BY <2>3 DEF Typed, Placed
  <2> QED BY <2>2, <2>3, <2>4, NobodyAtWork DEF BroughtUp, Callers
<1>9. CASE HandleReconfigure
  <2>1. OneAtWork
    BY <1>9, Zenon DEF HandleReconfigure
  <2>2. phase' = "exiting" /\ UNCHANGED pc
    BY <1>9 DEF HandleReconfigure
  <2> QED BY <2>1, <2>2 DEF OneAtWork, Active, BroughtUp
<1>10. CASE SessionExpires \/ SessionEnds \/ Reprovisions \/ MosquittoRestarts \/ UNCHANGED vars
  <2>1. OneAtWork
    BY <1>10, Zenon DEF SessionExpires, SessionEnds, Reprovisions, MosquittoRestarts, vars
  <2>2. UNCHANGED <<server, token, override, registry, wanted, disk, pc, local>>
    BY <1>10 DEF SessionExpires, SessionEnds, Reprovisions, MosquittoRestarts, vars, identity
  <2>3. (BroughtUp' => BroughtUp) /\ (phase = "exiting" => phase' = "exiting")
    BY <1>10 DEF SessionExpires, SessionEnds, Reprovisions, MosquittoRestarts, vars, BroughtUp
  <2> QED BY <2>1, <2>2, <2>3, WorkKept
<1>11. ASSUME NEW host \in Hosts, NEW newToken \in Tokens, Redeploys(host, newToken)
       PROVE  OneAtWork'
  <2>1. OneAtWork
    BY <1>11, Zenon DEF Redeploys
  <2>2. UNCHANGED <<server, token, override, registry, wanted, disk, pc, local, phase, session>>
    BY <1>11 DEF Redeploys
  <2>3. (BroughtUp' => BroughtUp) /\ (phase = "exiting" => phase' = "exiting")
    BY <2>2 DEF BroughtUp
  <2> QED BY <2>1, <2>2, <2>3, WorkKept
<1> QED BY <1>1, <1>2, <1>3, <1>4, <1>5, <1>6, <1>7, <1>8, <1>9, <1>10, <1>11 DEF Next, Handlers

(* What is on disk is what the identity, the redirect and the registry ask *)
(* for whenever the agent is at rest, after any crash, torn write or power *)
(* cut and whichever handlers ran, unless the last calls overlapped.       *)
THEOREM DiskCurrent == Spec => []DiskIsCurrent
<1>1. Init => WorkInv
  <2>1. ASSUME Init PROVE OneAtWork
    BY <2>1 DEF Init, OneAtWork, Active, OnItsWay, BroughtUp
  <2> QED BY <2>1, TypeInit DEF WorkInv, Typed
<1>2. WorkInv => DiskIsCurrent
  <2> SUFFICES ASSUME WorkInv, AtRest, ~overlapped
               PROVE  conf = Rendered /\ acl = wanted
    BY DEF DiskIsCurrent
  <2>1. OneAtWork
    BY Zenon DEF WorkInv
  <2> QED BY <2>1 DEF OneAtWork, BroughtUp, AtRest
<1> QED BY <1>1, <1>2, WorkNext, PTL DEF Spec

(***************************************************************************)
(* Both together: mosquitto runs what is current.                          *)
(***************************************************************************)
\* mosquitto runs the configuration that identity, redirect and registry ask for.
Settled == AtRest /\ ~missed /\ ~overlapped => loaded = [conf |-> Rendered, acl |-> wanted]

(* The safety half of RedirectArrives: an agent at rest that lost no       *)
(* restart and whose last calls did not overlap has mosquitto bridge to    *)
(* the redirect's server if one is noted, even one older than the server   *)
(* in blynk.env, with the token and the registry it has now, and under the *)
(* ACL of its version.                                                     *)
THEOREM SettlesCurrent == Spec => []Settled
<1>1. MosquittoRunsDisk /\ DiskIsCurrent => Settled
  BY DEF MosquittoRunsDisk, DiskIsCurrent, Settled
<1> QED BY <1>1, RunsDisk, DiskCurrent, PTL

\* A call that runs by itself and is not made obsolete while it runs: main is not
\* being left, and no redirect is about to be written.
Alone == ~overlapped /\ phase # "exiting" /\ pc[Net] # "redirect"

Returning(c) == EnsureSkips(c) \/ EnsureRestarts(c)

\* What ensure_current would do as one step: disk and mosquitto are as the state
\* asks for now, unless docker refused the restart.
ReturnsDone ==
    [][\A c \in Callers : Alone /\ Returning(c) =>
           /\ conf' = Rendered' /\ acl' = wanted'
           /\ (missed' /\ UNCHANGED loaded) \/ loaded' = [conf |-> conf', acl |-> acl']]_vars

\* The thread that is alone in ensure_current owes mosquitto what there is to owe.
LEMMA OwesAlone ==
  ASSUME Typed, DiskOwed, OneAtWork, NEW c \in Callers, pc[c] = "compare",
         ~local[c].aclChanged, ~missed
  PROVE  loaded = [conf |-> conf, acl |-> acl]
<1>1. \A d \in Callers \ {c} : pc[d] \in {"idle", "redirect"}
  BY DEF OneAtWork, Active
<1>2. \A d \in Callers : ~Unfinished(d)
  BY <1>1 DEF DiskOwed, Unfinished
<1> QED BY <1>2 DEF DiskOwed

LEMMA ReturnsNext ==
  ASSUME Typed, DiskOwed, ~overlapped => OneAtWork, NEW c \in Callers, Alone, Returning(c)
  PROVE  /\ conf' = Rendered' /\ acl' = wanted'
         /\ (missed' /\ UNCHANGED loaded) \/ loaded' = [conf |-> conf', acl |-> acl']
<1>1. OneAtWork /\ OnItsWay(c)
  BY DEF Alone, OneAtWork
<1>2. UNCHANGED <<server, token, override, registry, wanted, conf, acl>>
  BY DEF Returning, EnsureSkips, EnsureRestarts, identity, disk
<1>3. UNCHANGED Rendered
  BY <1>2 DEF Rendered, RenderedFor, EffectiveServer
<1>4. CASE EnsureSkips(c)
  <2>1. /\ pc[c] = "compare" /\ conf = local[c].rendered /\ ~local[c].aclChanged
        /\ UNCHANGED <<loaded, missed>>
    BY <1>4 DEF EnsureSkips, Steps
  <2>2. missed \/ loaded = [conf |-> conf, acl |-> acl]
    BY <1>1, <2>1, OwesAlone
  <2> QED BY <1>1, <1>2, <1>3, <2>1, <2>2 DEF OnItsWay
<1>5. CASE EnsureRestarts(c)
  <2>1. /\ pc[c] = "restart"
        /\ (missed' /\ UNCHANGED loaded) \/ loaded' = [conf |-> conf, acl |-> acl]
    BY <1>5, Zenon DEF EnsureRestarts, Steps
  <2> QED BY <1>1, <1>2, <1>3, <2>1 DEF OnItsWay
<1> QED BY <1>4, <1>5 DEF Returning

(* An action property: a call of ensure_current that ran by itself has,    *)
(* when it returns, done what it would do as one step, although it takes   *)
(* seven and the redirect, the registry, the identity and the files may    *)
(* be changed by others between them: the configuration rendered at the    *)
(* beginning is still the one to have at the end, a torn file never        *)
(* reaches mosquitto, and a call that skips the restart had none to make.  *)
THEOREM EnsureIsAtomic == Spec => ReturnsDone
<1>1. Typed /\ DiskOwed /\ (~overlapped => OneAtWork) /\ [Next]_vars =>
          [\A c \in Callers : Alone /\ Returning(c) =>
               /\ conf' = Rendered' /\ acl' = wanted'
               /\ (missed' /\ UNCHANGED loaded) \/ loaded' = [conf |-> conf', acl |-> acl']]_vars
  BY ReturnsNext
<1>2. Init => WorkInv /\ DiskOwed
  <2>1. ASSUME Init PROVE OneAtWork /\ DiskOwed
    BY <2>1, IdleHolds DEF Init, OneAtWork, Active, OnItsWay, BroughtUp, DiskOwed
  <2> QED BY <2>1, TypeInit DEF WorkInv, Typed
<1>3. WorkInv => Typed /\ (~overlapped => OneAtWork)
  BY DEF WorkInv
<1> QED BY <1>1, <1>2, <1>3, WorkNext, OwedNext, PTL DEF Spec, ReturnsDone
==============================================================================
