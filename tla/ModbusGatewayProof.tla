------------------------- MODULE ModbusGatewayProof -------------------------
(***************************************************************************)
(* Proofs about the Modbus gateway's configuration and values: types, that *)
(* what is kept of a write fits the running configuration, that the        *)
(* subscriptions follow it, and that a switch tells the truth, for any     *)
(* names, registers, configurations, ports and number of events.           *)
(*                                                                         *)
(* None of the properties is inductive.  What a restart makes of the two   *)
(* files depends on what they said when the process died, so each needs to *)
(* know what the files say at every moment; and what a switch shows when   *)
(* the network thread is at rest depends on what it has done with the      *)
(* register, the dashboard and the values it keeps while it was not.       *)
(*                                                                         *)
(* Last, that the configuration the gateway runs is the one the cloud has, *)
(* unless that is still on its way or was lost on it.                      *)
(***************************************************************************)
EXTENDS ModbusGateway, SequenceTheorems, TLAPS

\* What Net is doing: something with a point, or not.
Plain == [at : {"idle", "configure", "saveState", "saveRuntime"}]
Writing == [at : {"write", "echo", "record", "failed", "restore", "saveRuntime"},
            name : Names, value : Values]

PointMaps == { c.points : c \in Configs }
ReadIn(points, n) == n \in DOMAIN points /\ Reads(points[n])

\* What a port's thread is doing: between two polls, in one, scanning.
Underway ==
    { s \in [at : {"start", "pass"}, points : PointMaps, queue : SUBSET Names] :
        \A n \in s.queue : ReadIn(s.points, n) }
Reading ==
    { s \in [at : {"confirm", "publish"}, points : PointMaps, queue : SUBSET Names,
             name : Names, value : Values] :
        ReadIn(s.points, s.name) /\ \A n \in s.queue : ReadIn(s.points, n) }
Scanning == [at : {"scan"}, interrupted : {PollIdle} \union Underway, normal : Settings]
Polling == {PollIdle} \union Underway \union Reading \union Scanning

ThreadsOK == net \in Plain \union Writing /\ poll \in [Ports -> Polling]

\* A value belongs to a point of c, under the register c gives it.
Fits(known, c) ==
    \A n \in DOMAIN known : n \in DOMAIN c.points /\ known[n].register = c.points[n].register

\* Net works on points of the running configuration, which takes writes for them.
InHand == net \in Writing => net.name \in Wanted(config)

\* The runtime file fits the configuration whose rev it bears, whichever is on file.
FileFits ==
    /\ runtimeFile.confirmed \in Known
    /\ \A c \in Configs : runtimeFile.rev = c.rev => Fits(runtimeFile.confirmed, c)

\* The strengthening of SubscriptionsFollow: only while Net has yet to subscribe do
\* the subscriptions lag behind.
Subscribed == connected /\ net.at # "configure" => granted = Wanted(config)

Linked == ~connected => down = << >>

(***************************************************************************)
(* The strengthening of SwitchIsTrue.                                      *)
(***************************************************************************)
\* Unless Net is replacing them or the disk refused it, the files have the
\* configuration and the values there are.
FilesAgree ==
    /\ net.at \notin {"configure", "saveState"} /\ "state" \notin unsaved => config = stateFile
    /\ net.at \in {"idle", "write", "echo", "record", "failed", "restore"}
          /\ "runtime" \notin unsaved =>
           \A n \in DOMAIN written :
               n \in DOMAIN runtimeFile.confirmed /\ runtimeFile.confirmed[n] = written[n]

At(points) == net \in Writing /\ net.at \in points

\* What Net has in its hands.
HandTrue ==
    /\ At({"write", "echo", "failed", "restore"}) => net.name \in unanswered
    /\ At({"echo", "record"}) => (Target \notin doubtful => register[Target] = net.value)
    /\ At({"record"}) /\ net.name \in WriteOnly
          /\ net.name \notin unanswered /\ ~Pending(net.name) =>
           shown[net.name] = net.value
    /\ At({"restore"}) /\ net.name \in WriteOnly =>
           net.name \in DOMAIN confirmed /\ net.value = confirmed[net.name].value

\* What is known of a point that is only written was written.
KnownWritten ==
    \A n \in WriteOnly :
        /\ n \in DOMAIN confirmed <=> n \in DOMAIN written
        /\ n \in DOMAIN confirmed => confirmed[n] = written[n]

\* What is known of a point holds, unless Net has just written it.
KnownTrue ==
    \A n \in WriteOnly \intersect DOMAIN written :
        /\ ~(At({"echo", "record"}) /\ net.name = n) /\ written[n].register \notin doubtful =>
               register[written[n].register] = written[n].value
        /\ ~(At({"record"}) /\ net.name = n) /\ n \notin unanswered /\ ~Pending(n) =>
               shown[n] = written[n].value

\* So does what is on file of it, unless Net has not saved it yet or could not.
FileTrue ==
    "runtime" \notin unsaved =>
      \A n \in WriteOnly \intersect DOMAIN runtimeFile.confirmed :
        LET saved == runtimeFile.confirmed[n]
        IN  /\ ~(At({"echo", "record", "saveRuntime"}) /\ Target = saved.register)
                  /\ saved.register \notin doubtful =>
                   register[saved.register] = saved.value
            /\ ~(net \in Writing /\ net.name = n) /\ n \notin unanswered /\ ~Pending(n) =>
                   shown[n] = saved.value

SwitchInv == FilesAgree /\ HandTrue /\ KnownWritten /\ KnownTrue /\ FileTrue

(***************************************************************************)
(* The constants, and the maps of known values.                            *)
(***************************************************************************)
LEMMA ConfigParts ==
  ASSUME NEW c \in Configs
  PROVE  /\ c.settings \in [Ports -> Settings]
         /\ Wanted(c) \subseteq Names /\ Wanted(c) \subseteq DOMAIN c.points
         /\ Readable(c) \subseteq Names /\ Readable(c) \subseteq DOMAIN c.points
         /\ DOMAIN c.points \subseteq Names
         /\ \A n \in DOMAIN c.points :
                c.points[n].register \in Registers /\ c.points[n].port \in Ports
  BY GatewayAssumption DEF Wanted, Readable, Point

LEMMA ReadNames ==
  ASSUME NEW points \in PointMaps, NEW n, ReadIn(points, n)
  PROVE  /\ n \in Names /\ n \notin WriteOnly
         /\ points[n].register \in Registers /\ points[n].port \in Ports
<1>1. PICK c \in Configs : points = c.points
  BY DEF PointMaps
<1> QED BY <1>1, ConfigParts DEF ReadIn, WriteOnly

LEMMA KnownIs == \A known : known \in Known <=> \E D \in SUBSET Names : known \in [D -> Held]
  BY DEF Known

LEMMA KnownHolds ==
  ASSUME NEW known \in Known
  PROVE  /\ DOMAIN known \subseteq Names
         /\ \A n \in DOMAIN known : known[n] \in Held
                                    /\ known[n].register \in Registers /\ known[n].value \in Values
  BY KnownIs DEF Held

LEMMA NothingKnown == Nothing \in Known /\ DOMAIN Nothing = {}
  BY KnownIs DEF Nothing

LEMMA WithKnown ==
  ASSUME NEW known \in Known, NEW n \in Names, NEW held \in Held
  PROVE  /\ With(known, n, held) \in Known
         /\ DOMAIN With(known, n, held) = DOMAIN known \union {n}
         /\ With(known, n, held)[n] = held
         /\ \A m \in DOMAIN known \ {n} : With(known, n, held)[m] = known[m]
<1>1. PICK D \in SUBSET Names : known \in [D -> Held]
  BY KnownIs
<1>2. With(known, n, held) \in [D \union {n} -> Held]
  BY <1>1 DEF With
<1> QED BY <1>1, <1>2, KnownIs DEF With

LEMMA OnlyKnown ==
  ASSUME NEW known \in Known, NEW D
  PROVE  /\ Only(known, D) \in Known
         /\ DOMAIN Only(known, D) = DOMAIN known \intersect D
         /\ \A m \in DOMAIN known \intersect D : Only(known, D)[m] = known[m]
         /\ DOMAIN known \subseteq D => Only(known, D) = known
<1>1. PICK E \in SUBSET Names : known \in [E -> Held]
  BY KnownIs
<1>2. Only(known, D) \in [E \intersect D -> Held]
  BY <1>1 DEF Only
<1> QED BY <1>1, <1>2, KnownIs DEF Only

\* What a restart makes of the runtime file.
LEMMA RestoredIs ==
  ASSUME FileFits, stateFile \in Configs
  PROVE  /\ Restored \in Known /\ Fits(Restored, stateFile)
         /\ \A n \in DOMAIN Restored : /\ n \in DOMAIN runtimeFile.confirmed
                                       /\ Restored[n] = runtimeFile.confirmed[n]
<1>1. CASE runtimeFile.rev = stateFile.rev
  <2>1. Restored = Only(runtimeFile.confirmed, DOMAIN stateFile.points)
    BY <1>1 DEF Restored
  <2>2. Fits(runtimeFile.confirmed, stateFile) /\ runtimeFile.confirmed \in Known
    BY <1>1 DEF FileFits
  <2> QED BY <2>1, <2>2, OnlyKnown DEF Fits
<1>2. CASE runtimeFile.rev # stateFile.rev
  BY <1>2, NothingKnown DEF Restored, Fits
<1> QED BY <1>1, <1>2

(***************************************************************************)
(* The threads.                                                            *)
(***************************************************************************)
LEMMA NetGoes ==
  ASSUME NEW r \in Writing, NEW to \in {"echo", "record", "failed", "saveRuntime"}
  PROVE  /\ [r EXCEPT !.at = to] \in Writing
         /\ [r EXCEPT !.at = to].at = to
         /\ [r EXCEPT !.at = to].name = r.name
         /\ [r EXCEPT !.at = to].value = r.value
  BY DEF Writing

LEMMA NetFields ==
  /\ \A r \in Plain : r.at \in {"idle", "configure", "saveState", "saveRuntime"}
                      /\ "name" \notin DOMAIN r /\ r \notin Writing
  /\ \A r \in Writing : r.at \in {"write", "echo", "record", "failed", "restore", "saveRuntime"}
                        /\ "name" \in DOMAIN r /\ r.name \in Names /\ r.value \in Values
  /\ NetIdle \in Plain /\ NetIdle.at = "idle"
  /\ \A r \in Plain : r.at = "idle" => r = NetIdle
<1>1. \A r \in Plain : r.at \in {"idle", "configure", "saveState", "saveRuntime"}
                       /\ DOMAIN r = {"at"} /\ (r.at = "idle" => r = NetIdle)
  BY DEF Plain, NetIdle
<1>2. \A r \in Writing : r.at \in {"write", "echo", "record", "failed", "restore", "saveRuntime"}
                         /\ DOMAIN r = {"at", "name", "value"} /\ r.name \in Names /\ r.value \in Values
  BY DEF Writing
<1>3. NetIdle \in Plain /\ NetIdle.at = "idle"
  BY DEF NetIdle, Plain
<1> QED BY <1>1, <1>2, <1>3

LEMMA PollFields ==
  ASSUME NEW s \in Polling
  PROVE  /\ s.at \in {"idle", "start", "pass", "confirm", "publish", "scan"}
         /\ s.at = "idle" => s = PollIdle
         /\ s.at \in {"start", "pass"} => s \in Underway
         /\ s.at \in {"confirm", "publish"} => s \in Reading
         /\ s.at = "scan" => s \in Scanning
  BY DEF Polling, PollIdle, Underway, Reading, Scanning

LEMMA UnderwayReads ==
  ASSUME NEW s \in Underway, NEW n \in s.queue, NEW value \in Values
  PROVE  /\ s.points \in PointMaps /\ ReadIn(s.points, n) /\ n \in Names
         /\ [at |-> "confirm", points |-> s.points, queue |-> s.queue \ {n},
             name |-> n, value |-> value] \in Reading
         /\ [at |-> "pass", points |-> s.points, queue |-> s.queue \ {n}] \in Underway
<1>1. /\ s.points \in PointMaps /\ s.queue \in SUBSET Names
      /\ \A m \in s.queue : ReadIn(s.points, m)
  BY DEF Underway
<1>2. [at |-> "confirm", points |-> s.points, queue |-> s.queue \ {n},
       name |-> n, value |-> value] \in Reading
  BY <1>1 DEF Reading
<1>3. [at |-> "pass", points |-> s.points, queue |-> s.queue \ {n}] \in Underway
  BY <1>1 DEF Underway
<1> QED BY <1>1, <1>2, <1>3

LEMMA ReadingGoes ==
  ASSUME NEW s \in Reading
  PROVE  /\ s.points \in PointMaps /\ ReadIn(s.points, s.name)
         /\ s.name \in Names /\ s.value \in Values
         /\ [s EXCEPT !.at = "publish"] \in Reading
         /\ [at |-> "pass", points |-> s.points, queue |-> s.queue] \in Underway
<1>1. /\ s.points \in PointMaps /\ s.queue \in SUBSET Names /\ s.name \in Names /\ s.value \in Values
      /\ ReadIn(s.points, s.name) /\ \A m \in s.queue : ReadIn(s.points, m)
      /\ s \in [at : {"confirm", "publish"}, points : PointMaps, queue : SUBSET Names,
                name : Names, value : Values]
  BY DEF Reading
<1>2. [s EXCEPT !.at = "publish"]
        = [at |-> "publish", points |-> s.points, queue |-> s.queue, name |-> s.name, value |-> s.value]
  BY <1>1
<1>3. [at |-> "publish", points |-> s.points, queue |-> s.queue, name |-> s.name, value |-> s.value]
        \in Reading
  BY <1>1 DEF Reading
<1>4. [at |-> "pass", points |-> s.points, queue |-> s.queue] \in Underway
  BY <1>1 DEF Underway
<1> QED BY <1>1, <1>2, <1>3, <1>4

Base == TypeOK /\ ThreadsOK /\ InHand /\ FileFits /\ WrittenFits /\ Subscribed /\ Linked

LEMMA PollThread ==
  ASSUME Base, NEW p \in Ports, Poll(p)
  PROVE  poll' \in [Ports -> Polling] /\ UNCHANGED <<config, net>>
<1>t. /\ poll \in [Ports -> Polling] /\ poll[p] \in Polling
      /\ config \in Configs /\ due \subseteq Readable(config)
      /\ register \in [Registers -> Values]
  BY DEF Base, ThreadsOK, TypeOK
<1>1. UNCHANGED <<config, net>>
  BY DEF Poll, StartScan, EndScan, StartPass, PollRead, PollConfirm, PollPublish, EndPass, memory
<1> SUFFICES poll' \in [Ports -> Polling]
  BY <1>1
<1>2. ASSUME NEW s \in Polling, poll' = [poll EXCEPT ![p] = s]
      PROVE  poll' \in [Ports -> Polling]
  BY <1>t, <1>2
<1>3. CASE StartScan(p)
  <2> DEFINE s == [at |-> "scan", interrupted |-> poll[p], normal |-> config.settings[p]]
  <2>1. poll[p] \in {PollIdle} \union Underway
    BY <1>t, <1>3, PollFields DEF StartScan
  <2>2. config.settings[p] \in Settings
    BY <1>t, ConfigParts
  <2>3. s \in Polling
    BY <2>1, <2>2 DEF Polling, Scanning
  <2>4. poll' = [poll EXCEPT ![p] = s]
    BY <1>3 DEF StartScan
  <2> QED BY <1>2, <2>3, <2>4
<1>4. CASE EndScan(p)
  <2>1. poll[p].interrupted \in Polling
    BY <1>t, <1>4, PollFields DEF EndScan, Scanning, Polling
  <2>2. poll' = [poll EXCEPT ![p] = poll[p].interrupted]
    BY <1>4 DEF EndScan
  <2> QED BY <1>2, <2>1, <2>2
<1>5. CASE StartPass(p)
  <2> DEFINE queue == { n \in due : config.points[n].port = p }
             s == [at |-> "start", points |-> config.points, queue |-> queue]
  <2>1. config.points \in PointMaps /\ queue \in SUBSET Names
    BY <1>t, ConfigParts DEF PointMaps
  <2>2. \A n \in queue : ReadIn(config.points, n)
    BY <1>t, ConfigParts DEF Readable, ReadIn
  <2>3. s \in Polling
    BY <2>1, <2>2 DEF Polling, Underway
  <2>4. poll' = [poll EXCEPT ![p] = s]
    BY <1>5 DEF StartPass
  <2> QED BY <1>2, <2>3, <2>4
<1>6. CASE PollRead(p)
  <2>1. poll[p] \in Underway
    BY <1>t, <1>6, PollFields DEF PollRead
  <2>2. PICK n \in poll[p].queue :
          \/ poll' = [poll EXCEPT ![p] =
                          [at |-> "confirm", points |-> poll[p].points, queue |-> poll[p].queue \ {n},
                           name |-> n, value |-> register[poll[p].points[n].register]]]
          \/ poll' = [poll EXCEPT ![p] = [at |-> "pass", points |-> poll[p].points,
                                          queue |-> poll[p].queue \ {n}]]
    BY <1>6 DEF PollRead
  <2>3. register[poll[p].points[n].register] \in Values
    <3>1. poll[p].points \in PointMaps /\ ReadIn(poll[p].points, n)
      BY <2>1 DEF Underway
    <3>2. poll[p].points[n].register \in Registers
      BY <3>1, ReadNames
    <3> QED BY <1>t, <3>2
  <2> DEFINE s == [at |-> "confirm", points |-> poll[p].points, queue |-> poll[p].queue \ {n},
                   name |-> n, value |-> register[poll[p].points[n].register]]
             t == [at |-> "pass", points |-> poll[p].points, queue |-> poll[p].queue \ {n}]
  <2>4. s \in Reading /\ t \in Underway
    BY <2>1, <2>3, UnderwayReads
  <2>5. s \in Polling /\ t \in Polling
    BY <2>4 DEF Polling
  <2>6. poll' = [poll EXCEPT ![p] = s] \/ poll' = [poll EXCEPT ![p] = t]
    BY <2>2
  <2> HIDE DEF s, t
  <2> QED BY <1>2, <2>5, <2>6
<1>7. CASE PollConfirm(p)
  <2> DEFINE s == [poll[p] EXCEPT !.at = "publish"]
  <2>1. poll[p] \in Reading
    BY <1>t, <1>7, PollFields DEF PollConfirm
  <2>2. s \in Polling
    BY <2>1, ReadingGoes DEF Polling
  <2>3. poll' = [poll EXCEPT ![p] = s]
    BY <1>7 DEF PollConfirm
  <2> QED BY <1>2, <2>2, <2>3
<1>8. CASE PollPublish(p)
  <2> DEFINE s == [at |-> "pass", points |-> poll[p].points, queue |-> poll[p].queue]
  <2>1. poll[p] \in Reading
    BY <1>t, <1>8, PollFields DEF PollPublish
  <2>2. s \in Polling
    BY <2>1, ReadingGoes DEF Polling
  <2>3. poll' = [poll EXCEPT ![p] = s]
    BY <1>8 DEF PollPublish
  <2> QED BY <1>2, <2>2, <2>3
<1>9. CASE EndPass(p)
  BY <1>2, <1>9 DEF EndPass, Polling
<1> QED BY <1>3, <1>4, <1>5, <1>6, <1>7, <1>8, <1>9 DEF Poll

\* A write under way goes from one point to the next.
LEMMA HandGoes ==
  ASSUME net \in Plain \union Writing, net.at \in {"write", "echo", "record"},
         NEW to \in {"echo", "record", "failed", "saveRuntime"}, Goes(to)
  PROVE  /\ net \in Writing /\ net' \in Writing
         /\ net'.at = to /\ net'.name = net.name /\ net'.value = net.value
<1>1. net \in Writing
  BY NetFields
<1> QED BY <1>1, NetGoes DEF Goes

LEMMA ThreadsNext == Base /\ [Next]_vars => ThreadsOK' /\ InHand'
<1> SUFFICES ASSUME Base, [Next]_vars
             PROVE  ThreadsOK' /\ InHand'
  OBVIOUS
<1>t. /\ net \in Plain \union Writing /\ poll \in [Ports -> Polling] /\ config \in Configs
      /\ net \in Writing => net.name \in Wanted(config)
      /\ confirmed \in Known /\ down \in Seq(Message)
  BY DEF Base, ThreadsOK, TypeOK, InHand
<1>s. ASSUME net' \in Plain, poll' \in [Ports -> Polling]
      PROVE  ThreadsOK' /\ InHand'
  BY <1>s, NetFields DEF ThreadsOK, InHand
<1>k. ASSUME UNCHANGED <<net, config>>, poll' \in [Ports -> Polling]
      PROVE  ThreadsOK' /\ InHand'
  BY <1>t, <1>k DEF ThreadsOK, InHand
<1>1. CASE ApplyConfig \/ ConfigureBuses \/ SaveState \/ SaveRuntime \/ SnapBack
  <2>1. UNCHANGED poll
    BY <1>1 DEF ApplyConfig, ConfigureBuses, SaveState, SaveRuntime, SnapBack
  <2>2. net' \in Plain
    BY <1>1 DEF ApplyConfig, Receives, ConfigureBuses, SaveState, SaveRuntime, SnapBack, Plain, NetIdle
  <2> QED BY <1>t, <1>s, <2>1, <2>2
<1>2. CASE TakeRequest
  <2>1. Head(down) \in Message /\ Head(down).kind = "write"
    BY <1>2, <1>t DEF TakeRequest, Receives
  <2>2. Head(down).name \in Names /\ Head(down).value \in Values
    BY <2>1 DEF Message, WriteMessage, ConfigMessage, ScanMessage
  <2>3. UNCHANGED <<config, poll>>
    BY <1>2 DEF TakeRequest, memory
  <2>4. CASE net' = NetIdle
    BY <1>t, <1>s, <2>3, <2>4, NetFields
  <2>5. CASE /\ Head(down).name \in Wanted(config)
             /\ net' = [at |-> "write", name |-> Head(down).name, value |-> Head(down).value]
    <3>1. net' \in Writing /\ net'.name \in Wanted(config')
      BY <2>2, <2>3, <2>5 DEF Writing
    <3> QED BY <1>t, <2>3, <3>1 DEF ThreadsOK, InHand
  <2>6. net' = IF Head(down).name \in Wanted(config)
               THEN [at |-> "write", name |-> Head(down).name, value |-> Head(down).value]
               ELSE NetIdle
    BY <1>2 DEF TakeRequest
  <2> QED BY <2>4, <2>5, <2>6
<1>3. CASE WriteRegister \/ Echo \/ Record
  <2>1. UNCHANGED <<config, poll>>
    BY <1>3 DEF WriteRegister, Echo, Record, memory
  <2>2. /\ net.at \in {"write", "echo", "record"}
        /\ Goes("echo") \/ Goes("failed") \/ Goes("record") \/ Goes("saveRuntime")
    BY <1>3 DEF WriteRegister, Echo, Record
  <2>3. net \in Writing /\ net' \in Writing /\ net'.name = net.name
    BY <1>t, <2>2, HandGoes
  <2> QED BY <1>t, <2>1, <2>3 DEF ThreadsOK, InHand
<1>4. CASE WriteFailed
  <2>1. UNCHANGED <<config, poll>>
    BY <1>4 DEF WriteFailed, memory
  <2>2. net \in Writing
    BY <1>t, <1>4, NetFields DEF WriteFailed
  <2>3. CASE net' = NetIdle
    BY <1>t, <1>s, <2>1, <2>3, NetFields
  <2>4. CASE /\ net.name \in DOMAIN confirmed
             /\ net' = [at |-> "restore", name |-> net.name, value |-> confirmed[net.name].value]
    <3>1. net' \in Writing /\ net'.name = net.name
      BY <1>t, <2>2, <2>4, NetFields, KnownHolds DEF Writing
    <3> QED BY <1>t, <2>1, <2>2, <3>1 DEF ThreadsOK, InHand
  <2> QED BY <1>4, <2>3, <2>4 DEF WriteFailed
<1>5. ASSUME NEW p \in Ports, Poll(p)
      PROVE  ThreadsOK' /\ InHand'
  BY <1>5, <1>k, PollThread
<1>6. CASE Restarts
  <2>1. net' = NetIdle /\ poll' = [p \in Ports |-> PollIdle]
    BY <1>6 DEF Restarts
  <2> QED BY <1>s, <2>1, NetFields DEF Polling
<1>7. CASE OnConnected \/ EnqueueProbe \/ Period \/ Disconnects \/ CloudDrops \/ CloudReturns
           \/ RelayMisses \/ UNCHANGED vars
  <2>1. UNCHANGED <<net, config, poll>>
    BY <1>7, Zenon DEF OnConnected, EnqueueProbe, Period, Disconnects, CloudDrops, CloudReturns,
           RelayMisses, memory, vars
  <2> QED BY <1>t, <1>k, <2>1
<1>8. ASSUME NEW n \in Names, NEW v \in Values, UserWrites(n, v)
      PROVE  ThreadsOK' /\ InHand'
  BY <1>t, <1>k, <1>8 DEF UserWrites, memory
<1>9. ASSUME NEW payload \in Configs \union {Invalid}, WidgetSaves(payload)
      PROVE  ThreadsOK' /\ InHand'
  BY <1>t, <1>k, <1>9 DEF WidgetSaves, memory
<1>10. ASSUME NEW p \in Ports, WidgetScans(p)
       PROVE  ThreadsOK' /\ InHand'
  BY <1>t, <1>k, <1>10 DEF WidgetScans, memory
<1>11. ASSUME NEW r \in Registers, DeviceChanges(r)
       PROVE  ThreadsOK' /\ InHand'
  BY <1>t, <1>k, <1>11 DEF DeviceChanges, memory
<1> QED BY <1>1, <1>2, <1>3, <1>4, <1>5, <1>6, <1>7, <1>8, <1>9, <1>10, <1>11 DEF Next, Net, World

(***************************************************************************)
(* What the gateway keeps, in memory and in its files.                     *)
(***************************************************************************)
MemoryOK ==
    /\ config \in Configs /\ stateFile \in Configs
    /\ confirmed \in Known /\ written \in Known
    /\ due \subseteq Readable(config)
    /\ FileFits /\ WrittenFits

LEMMA RuntimeDocFits ==
  ASSUME MemoryOK, runtimeFile' = RuntimeDoc
  PROVE  FileFits'
<1>1. runtimeFile'.rev = config.rev /\ runtimeFile'.confirmed = written
  BY DEF RuntimeDoc
<1>2. \A c \in Configs : c.rev = config.rev => c = config
  BY GatewayAssumption DEF MemoryOK
<1> QED BY <1>1, <1>2 DEF FileFits, Fits, MemoryOK, WrittenFits

\* Where Net's point is.
LEMMA HandAt ==
  ASSUME ThreadsOK, InHand, config \in Configs, net \in Writing
  PROVE  /\ net.name \in Names /\ net.value \in Values /\ net.name \in DOMAIN config.points
         /\ Target \in Registers
  BY NetFields, ConfigParts DEF InHand, Target

LEMMA MemoryNext == Base /\ [Next]_vars => MemoryOK'
<1> SUFFICES ASSUME Base, [Next]_vars
             PROVE  MemoryOK'
  OBVIOUS
<1>t. MemoryOK /\ ThreadsOK /\ InHand
  BY DEF Base, MemoryOK, TypeOK
<1>f. ASSUME UNCHANGED runtimeFile
      PROVE  FileFits'
  BY <1>t, <1>f DEF MemoryOK, FileFits
<1>k. ASSUME UNCHANGED <<config, stateFile, confirmed, written, runtimeFile>>,
             due' \subseteq due \/ due' = Readable(config)
      PROVE  MemoryOK'
  BY <1>t, <1>k, <1>f DEF MemoryOK, WrittenFits
<1>1. CASE ApplyConfig
  <2>1. UNCHANGED <<stateFile, runtimeFile>>
    BY <1>1 DEF ApplyConfig, files
  <2>2. CASE UNCHANGED <<config, confirmed, written, due>>
    BY <1>k, <2>1, <2>2
  <2>3. ASSUME NEW c \in Configs, config' = c, due' = Scheduled(c),
               confirmed' = Only(confirmed, Kept(c)), written' = Only(written, Kept(c))
        PROVE  MemoryOK'
    <3>1. confirmed' \in Known /\ written' \in Known
      BY <1>t, <2>3, OnlyKnown DEF MemoryOK
    <3>2. WrittenFits'
      <4>1. \A n \in Kept(c) : n \in DOMAIN c.points /\ c.points[n] = config.points[n]
        BY DEF Kept
      <4>2. /\ DOMAIN written' = DOMAIN written \intersect Kept(c)
            /\ \A n \in DOMAIN written \intersect Kept(c) : written'[n] = written[n]
        BY <1>t, <2>3, OnlyKnown DEF MemoryOK
      <4> QED BY <1>t, <2>3, <4>1, <4>2 DEF WrittenFits, MemoryOK
    <3> QED BY <1>t, <1>f, <2>1, <2>3, <3>1, <3>2 DEF MemoryOK, Scheduled
  <2>4. down \in Seq(Message) /\ down # << >> /\ Head(down).kind = "config"
    BY <1>1 DEF ApplyConfig, Receives, Base, TypeOK
  <2>5. Head(down).payload \in Configs \union {Invalid}
    <3>1. Head(down) \in Message
      BY <2>4
    <3> QED BY <2>4, <3>1 DEF Message, ConfigMessage, WriteMessage, ScanMessage
  <2> DEFINE c == Head(down).payload
  <2>6. \/ UNCHANGED <<config, confirmed, written, due>>
        \/ /\ c # Invalid /\ config' = c /\ due' = Scheduled(c)
           /\ confirmed' = Only(confirmed, Kept(c)) /\ written' = Only(written, Kept(c))
    BY <1>1 DEF ApplyConfig
  <2> HIDE DEF c
  <2>7. c \in Configs \union {Invalid}
    BY <2>5 DEF c
  <2> QED BY <2>2, <2>3, <2>6, <2>7
<1>2. CASE SaveState
  BY <1>t, <1>f, <1>2 DEF SaveState, memory, MemoryOK, WrittenFits
<1>3. CASE SaveRuntime
  <2>1. FileFits'
    BY <1>t, <1>f, <1>3, RuntimeDocFits DEF SaveRuntime, SavesRuntime
  <2> QED BY <1>t, <1>3, <2>1 DEF SaveRuntime, memory, MemoryOK, WrittenFits
<1>4. CASE Record
  <2> DEFINE held == [register |-> Target, value |-> net.value]
  <2>1. net \in Writing
    BY <1>t, <1>4, NetFields DEF ThreadsOK, Record
  <2>2. net.name \in Names /\ held \in Held /\ net.name \in DOMAIN config.points
    BY <1>t, <2>1, HandAt DEF MemoryOK, Held
  <2>3. /\ confirmed' = With(confirmed, net.name, held) /\ written' = With(written, net.name, held)
        /\ UNCHANGED <<config, due, stateFile, runtimeFile>>
    BY <1>4 DEF Record, files
  <2>4. held.register = config.points[net.name].register
    BY DEF Target
  <2> HIDE DEF held
  <2>5. confirmed' \in Known /\ written' \in Known
    BY <1>t, <2>2, <2>3, WithKnown DEF MemoryOK
  <2>6. WrittenFits'
    <3>t. written \in Known
      BY <1>t DEF MemoryOK
    <3>1. /\ DOMAIN With(written, net.name, held) = DOMAIN written \union {net.name}
          /\ With(written, net.name, held)[net.name] = held
          /\ \A m \in DOMAIN written \ {net.name} : With(written, net.name, held)[m] = written[m]
      BY <3>t, <2>2, WithKnown
    <3> QED BY <1>t, <2>2, <2>3, <2>4, <3>1 DEF WrittenFits, MemoryOK
  <2> QED BY <1>t, <1>f, <2>3, <2>5, <2>6 DEF MemoryOK
<1>5. ASSUME NEW p \in Ports, PollConfirm(p)
      PROVE  MemoryOK'
  <2> DEFINE n == poll[p].name
             held == [register |-> poll[p].points[n].register, value |-> poll[p].value]
  <2>1. poll[p] \in Reading
    BY <1>t, <1>5, PollFields DEF PollConfirm, ThreadsOK
  <2>2. n \in Names /\ held \in Held
    BY <2>1, ReadingGoes, ReadNames DEF Held
  <2>3. /\ confirmed' = With(confirmed, n, held) \/ UNCHANGED confirmed
        /\ UNCHANGED <<config, written, due, stateFile, runtimeFile>>
    BY <1>5 DEF PollConfirm, files
  <2> HIDE DEF n, held
  <2>t. confirmed \in Known
    BY <1>t DEF MemoryOK
  <2>4. With(confirmed, n, held) \in Known
    BY <2>t, <2>2, WithKnown, Zenon
  <2>5. FileFits' /\ WrittenFits'
    BY <1>t, <1>f, <2>3 DEF MemoryOK, WrittenFits
  <2> QED BY <1>t, <2>t, <2>3, <2>4, <2>5 DEF MemoryOK
<1>6. ASSUME NEW p \in Ports, EndPass(p)
      PROVE  MemoryOK'
  <2>1. runtimeFile' = runtimeFile \/ runtimeFile' = RuntimeDoc
    BY <1>6 DEF EndPass, SavesRuntime
  <2>2. FileFits'
    BY <1>t, <1>f, <2>1, RuntimeDocFits
  <2> QED BY <1>t, <1>6, <2>2 DEF EndPass, memory, MemoryOK, WrittenFits
<1>7. ASSUME NEW p \in Ports, StartScan(p) \/ EndScan(p) \/ StartPass(p) \/ PollRead(p) \/ PollPublish(p)
      PROVE  MemoryOK'
  BY <1>k, <1>7 DEF StartScan, EndScan, StartPass, PollRead, PollPublish, memory, files
<1>8. CASE Restarts
  <2>1. /\ config' = stateFile /\ written' = Restored /\ confirmed' = Restored
        /\ due' = Readable(stateFile) /\ UNCHANGED <<stateFile, runtimeFile>>
    BY <1>8 DEF Restarts, Scheduled, files
  <2>2. Restored \in Known /\ Fits(Restored, stateFile)
    BY <1>t, RestoredIs DEF MemoryOK
  <2> QED BY <1>t, <1>f, <2>1, <2>2 DEF MemoryOK, WrittenFits, Fits
<1>9. CASE OnConnected \/ ConfigureBuses \/ TakeRequest \/ WriteRegister \/ Echo \/ WriteFailed
           \/ SnapBack \/ EnqueueProbe
  BY <1>k, <1>9 DEF OnConnected, ConfigureBuses, TakeRequest, WriteRegister, Echo, WriteFailed,
                    SnapBack, EnqueueProbe, memory, files
<1>10. CASE Period \/ Disconnects \/ CloudDrops \/ CloudReturns \/ RelayMisses \/ UNCHANGED vars
  <2>1. /\ UNCHANGED <<config, stateFile, confirmed, written, runtimeFile>>
        /\ due' = due \/ due' = Readable(config)
    BY <1>10, Zenon DEF Period, Disconnects, CloudDrops, CloudReturns, RelayMisses, memory, files, vars
  <2> QED BY <1>k, <2>1
<1>11. ASSUME NEW n \in Names, NEW v \in Values, UserWrites(n, v)
       PROVE  MemoryOK'
  BY <1>k, <1>11 DEF UserWrites, memory, files
<1>12. ASSUME NEW payload \in Configs \union {Invalid}, WidgetSaves(payload)
       PROVE  MemoryOK'
  BY <1>k, <1>12 DEF WidgetSaves, memory, files
<1>13. ASSUME NEW p \in Ports, WidgetScans(p)
       PROVE  MemoryOK'
  BY <1>k, <1>13 DEF WidgetScans, memory, files
<1>14. ASSUME NEW r \in Registers, DeviceChanges(r)
       PROVE  MemoryOK'
  BY <1>k, <1>14 DEF DeviceChanges, memory, files
<1> QED BY <1>1, <1>2, <1>3, <1>4, <1>5, <1>6, <1>7, <1>8, <1>9, <1>10, <1>11, <1>12, <1>13, <1>14
        DEF Next, Net, Poll, World

(***************************************************************************)
(* The links and the field.                                                *)
(***************************************************************************)
LEMMA SubscribedNext == Base /\ [Next]_vars => Subscribed'
<1> SUFFICES ASSUME Base, [Next]_vars
             PROVE  Subscribed'
  OBVIOUS
<1>t. Subscribed /\ net \in Plain \union Writing
  BY DEF Base, ThreadsOK
<1>k. ASSUME UNCHANGED <<config, connected, granted>>, net' = net \/ net.at # "configure"
      PROVE  Subscribed'
  BY <1>t, <1>k DEF Subscribed
<1>1. CASE OnConnected
  BY <1>1 DEF OnConnected, Subscribed
<1>2. CASE ApplyConfig
  <2>1. UNCHANGED <<config, net>> \/ net'.at = "configure"
    BY <1>2 DEF ApplyConfig
  <2>2. UNCHANGED <<connected, granted>>
    BY <1>2 DEF ApplyConfig
  <2> QED BY <1>t, <2>1, <2>2 DEF Subscribed
<1>3. CASE ConfigureBuses
  BY <1>3 DEF ConfigureBuses, Subscribed
<1>4. CASE SaveState \/ SaveRuntime \/ TakeRequest \/ WriteRegister \/ Echo \/ Record \/ WriteFailed
           \/ SnapBack \/ EnqueueProbe
  BY <1>k, <1>4, NetFields DEF SaveState, SaveRuntime, TakeRequest, WriteRegister, Echo, Record,
           WriteFailed, SnapBack, EnqueueProbe, Receives, memory, links
<1>5. ASSUME NEW p \in Ports, Poll(p)
      PROVE  Subscribed'
  <2>1. UNCHANGED <<connected, granted>>
    BY <1>5 DEF Poll, StartScan, EndScan, StartPass, PollRead, PollConfirm, PollPublish, EndPass, links
  <2>2. UNCHANGED <<config, net>>
    BY <1>5, PollThread
  <2> QED BY <1>k, <2>1, <2>2
<1>6. CASE Restarts \/ Disconnects
  <2>1. connected' = FALSE
    BY <1>6, Zenon DEF Restarts, Disconnects
  <2> QED BY <2>1 DEF Subscribed
<1>7. CASE Period \/ CloudDrops \/ CloudReturns \/ RelayMisses \/ UNCHANGED vars
  <2>1. UNCHANGED <<config, net, granted>>
    BY <1>7, Zenon DEF Period, CloudDrops, CloudReturns, RelayMisses, memory, links, vars
  <2>2. UNCHANGED connected
    BY <1>7, Zenon DEF Period, CloudDrops, CloudReturns, RelayMisses, links, vars
  <2> QED BY <1>k, <2>1, <2>2
<1>8. ASSUME NEW n \in Names, NEW v \in Values, UserWrites(n, v)
      PROVE  Subscribed'
  BY <1>k, <1>8 DEF UserWrites, memory
<1>9. ASSUME NEW payload \in Configs \union {Invalid}, WidgetSaves(payload)
      PROVE  Subscribed'
  BY <1>k, <1>9 DEF WidgetSaves, memory
<1>10. ASSUME NEW p \in Ports, WidgetScans(p)
       PROVE  Subscribed'
  BY <1>k, <1>10 DEF WidgetScans, memory
<1>11. ASSUME NEW r \in Registers, DeviceChanges(r)
       PROVE  Subscribed'
  BY <1>k, <1>11 DEF DeviceChanges, memory, links
<1> QED BY <1>1, <1>2, <1>3, <1>4, <1>5, <1>6, <1>7, <1>8, <1>9, <1>10, <1>11 DEF Next, Net, World

FlagsOK ==
    probing \in BOOLEAN /\ connected \in BOOLEAN /\ online \in BOOLEAN /\ lost \in BOOLEAN

LEMMA FlagsNext == FlagsOK /\ [Next]_vars => FlagsOK'
<1> SUFFICES ASSUME FlagsOK, [Next]_vars
             PROVE  FlagsOK'
  OBVIOUS
<1> USE DEF FlagsOK
<1>1. CASE OnConnected \/ ApplyConfig \/ ConfigureBuses \/ SaveState \/ SaveRuntime
  BY <1>1, Zenon DEF OnConnected, ApplyConfig, ConfigureBuses, SaveState, SaveRuntime, links
<1>2. CASE TakeRequest \/ WriteRegister \/ Echo \/ Record \/ WriteFailed \/ SnapBack \/ EnqueueProbe
  BY <1>2, Zenon DEF TakeRequest, WriteRegister, Echo, Record, WriteFailed, SnapBack, EnqueueProbe, links
<1>3. ASSUME NEW p \in Ports, StartScan(p) \/ EndScan(p) \/ StartPass(p) \/ PollRead(p)
      PROVE  FlagsOK'
  BY <1>3, Zenon DEF StartScan, EndScan, StartPass, PollRead, links
<1>4. ASSUME NEW p \in Ports, PollConfirm(p) \/ PollPublish(p) \/ EndPass(p)
      PROVE  FlagsOK'
  BY <1>4, Zenon DEF PollConfirm, PollPublish, EndPass, links
<1>5. CASE Period \/ Restarts \/ CloudReturns \/ UNCHANGED vars
  BY <1>5, Zenon DEF Period, Restarts, CloudReturns, links, vars
<1>10. CASE Disconnects
  <2>1. online' = online \/ online' = FALSE
    BY <1>10 DEF Disconnects
  <2>2. probing' = probing /\ connected' = FALSE /\ lost' = FALSE
    BY <1>10, Zenon DEF Disconnects
  <2> QED BY <2>1, <2>2, Zenon
<1>11. CASE CloudDrops \/ RelayMisses
  <2>1. lost' \in BOOLEAN
    BY <1>11, Zenon DEF CloudDrops, RelayMisses, Cut
  <2>2. probing' = probing /\ connected' = connected /\ (online' = online \/ online' = FALSE)
    BY <1>11, Zenon DEF CloudDrops, RelayMisses
  <2> QED BY <2>1, <2>2, Zenon
<1>6. ASSUME NEW n \in Names, NEW v \in Values, UserWrites(n, v)
      PROVE  FlagsOK'
  BY <1>6, Zenon DEF UserWrites
<1>7. ASSUME NEW payload \in Configs \union {Invalid}, WidgetSaves(payload)
      PROVE  FlagsOK'
  BY <1>7, Zenon DEF WidgetSaves
<1>8. ASSUME NEW p \in Ports, WidgetScans(p)
      PROVE  FlagsOK'
  BY <1>8, Zenon DEF WidgetScans
<1>9. ASSUME NEW r \in Registers, DeviceChanges(r)
      PROVE  FlagsOK'
  BY <1>9, Zenon DEF DeviceChanges, links
<1> QED BY <1>1, <1>2, <1>3, <1>4, <1>5, <1>6, <1>7, <1>8, <1>9, <1>10, <1>11 DEF Next, Net, Poll, World

LEMMA UnsavedNext ==
  unsaved \subseteq {"state", "runtime"} /\ [Next]_vars => unsaved' \subseteq {"state", "runtime"}
<1> SUFFICES ASSUME unsaved \subseteq {"state", "runtime"}, [Next]_vars
             PROVE  unsaved' \subseteq {"state", "runtime"}
  OBVIOUS
<1>1. CASE SaveState \/ SaveRuntime
  BY <1>1 DEF SaveState, SaveRuntime, SavesRuntime
<1>2. CASE Restarts
  BY <1>2 DEF Restarts
<1>3. ASSUME NEW p \in Ports, Poll(p)
      PROVE  unsaved' \subseteq {"state", "runtime"}
  <2>1. UNCHANGED unsaved \/ unsaved' = unsaved \ {"runtime"}
    BY <1>3, Zenon DEF Poll, StartScan, EndScan, StartPass, PollRead, PollConfirm, PollPublish, EndPass,
           SavesRuntime, files
  <2> QED BY <2>1
<1>4. CASE \/ OnConnected \/ ApplyConfig \/ ConfigureBuses \/ TakeRequest \/ WriteRegister \/ Echo
           \/ Record \/ WriteFailed \/ SnapBack \/ EnqueueProbe \/ Period \/ UNCHANGED vars
  <2>1. UNCHANGED unsaved
    BY <1>4, Zenon DEF OnConnected, ApplyConfig, ConfigureBuses, TakeRequest, WriteRegister, Echo,
           Record, WriteFailed, SnapBack, EnqueueProbe, Period, files, vars
  <2> QED BY <2>1
<1>5. CASE World /\ ~Restarts
  <2>1. UNCHANGED unsaved
    BY <1>5, Zenon DEF World, Disconnects, CloudDrops, CloudReturns, RelayMisses, UserWrites,
           WidgetSaves, WidgetScans, DeviceChanges, files
  <2> QED BY <2>1
<1> QED BY <1>1, <1>2, <1>3, <1>4, <1>5 DEF Next, Net

\* What is lost with the way is the end of the queue, and noted.
LEMMA CutIs ==
  ASSUME down \in Seq(Message), Cut
  PROVE  /\ down' \in Seq(Message)
         /\ down = << >> => down' = << >>
         /\ unanswered \subseteq unanswered'
         /\ unanswered \subseteq Names => unanswered' \subseteq Names
         /\ \A n \in Names : Pending(n) => Pending(n)' \/ n \in unanswered'
         /\ \A i \in DOMAIN down' : i \in DOMAIN down /\ down'[i] = down[i]
         /\ ~lost' => /\ ~lost
                      /\ \A i \in DOMAIN down : down[i].kind = "config" => i \in DOMAIN down'
<1> DEFINE beyond(k) == { down[i] : i \in (k + 1)..Len(down) }
<1>1. PICK k \in 0..Len(down) :
         /\ down' = SubSeq(down, 1, k)
         /\ lost' = (lost \/ \E m \in beyond(k) : m.kind = "config")
         /\ unanswered' = unanswered
                            \union { n \in Names : \E m \in beyond(k) : m.kind = "write" /\ m.name = n }
  BY DEF Cut
<1>2. /\ k \in Int /\ 0 <= k /\ k <= Len(down) /\ Len(down) \in Nat
      /\ DOMAIN down = 1..Len(down) /\ \A i \in 1..Len(down) : down[i] \in Message
  OBVIOUS
<1>3. /\ down' \in Seq(Message) /\ Len(down') = k
      /\ \A i \in 1..k : down'[i] = down[i]
  <2>1. \A i \in 1..k : down[i] \in Message
    BY <1>2
  <2>2. /\ SubSeq(down, 1, k) \in Seq(Message)
        /\ Len(SubSeq(down, 1, k)) = IF 1 <= k THEN k - 1 + 1 ELSE 0
        /\ \A i \in 1..(k - 1 + 1) : SubSeq(down, 1, k)[i] = down[1 + i - 1]
    BY <1>2, <2>1, SubSeqProperties
  <2> QED BY <1>1, <1>2, <2>2
<1>4. DOMAIN down' = 1..k
  BY <1>3
<1>5. down = << >> => down' = << >>
  BY <1>2, <1>3
<1>6. \A i \in DOMAIN down : i \in DOMAIN down' \/ down[i] \in beyond(k)
  BY <1>2, <1>4
<1> HIDE DEF beyond
<1>7. ASSUME NEW n \in Names, Pending(n), ~Pending(n)'
      PROVE  n \in unanswered'
  <2>1. PICK i \in DOMAIN down : down[i].kind = "write" /\ down[i].name = n
    BY <1>7 DEF Pending
  <2>2. i \notin DOMAIN down'
    BY <1>3, <1>4, <1>7, <2>1 DEF Pending
  <2> QED BY <1>1, <1>6, <2>1, <2>2
<1>8. ASSUME ~lost'
      PROVE  /\ ~lost
             /\ \A i \in DOMAIN down : down[i].kind = "config" => i \in DOMAIN down'
  <2>1. ~(lost \/ \E m \in beyond(k) : m.kind = "config")
    BY <1>1, <1>8, Zenon
  <2>2. ~lost
    BY <2>1, Zenon
  <2>3. \A m \in beyond(k) : m.kind # "config"
    BY <2>1, Zenon
  <2> QED BY <1>6, <2>2, <2>3
<1>9. unanswered \subseteq unanswered' /\ (unanswered \subseteq Names => unanswered' \subseteq Names)
  BY <1>1
<1>10. \A i \in DOMAIN down' : i \in DOMAIN down /\ down'[i] = down[i]
  BY <1>2, <1>3, <1>4
<1> QED BY <1>3, <1>5, <1>7, <1>8, <1>9, <1>10

\* The queue of messages for the gateway: none while it is not connected.
LEMMA DownNext == Base /\ [Next]_vars => down' \in Seq(Message) /\ cloud' \in Configs \union {Invalid} /\ Linked'
<1> SUFFICES ASSUME Base, [Next]_vars
             PROVE  down' \in Seq(Message) /\ cloud' \in Configs \union {Invalid} /\ Linked'
  OBVIOUS
<1>t. down \in Seq(Message) /\ cloud \in Configs \union {Invalid} /\ (~connected => down = << >>)
  BY DEF Base, TypeOK, Linked
<1> USE DEF Linked
<1>1. CASE OnConnected
  <2>1. ConfigMessage(cloud) \in Message
    BY <1>t DEF Message
  <2> QED BY <1>1, <1>t, <2>1 DEF OnConnected
<1>2. CASE ApplyConfig \/ TakeRequest \/ EnqueueProbe
  <2>1. connected /\ down # << >> /\ down' = Tail(down)
    BY <1>2, Zenon DEF ApplyConfig, TakeRequest, EnqueueProbe, Receives
  <2>2. UNCHANGED <<connected, cloud>>
    BY <1>2, Zenon DEF ApplyConfig, TakeRequest, EnqueueProbe
  <2> QED BY <1>t, <2>1, <2>2
<1>3. CASE ConfigureBuses \/ SaveState \/ SaveRuntime \/ WriteRegister \/ Echo \/ Record
           \/ WriteFailed \/ SnapBack \/ Period \/ UNCHANGED vars
  <2>1. UNCHANGED <<connected, down, cloud>>
    BY <1>3, Zenon DEF ConfigureBuses, SaveState, SaveRuntime, WriteRegister, Echo, Record, WriteFailed,
           SnapBack, Period, links, vars
  <2> QED BY <1>t, <2>1
<1>4. ASSUME NEW p \in Ports, Poll(p)
      PROVE  down' \in Seq(Message) /\ cloud' \in Configs \union {Invalid} /\ Linked'
  <2>1. UNCHANGED links
    BY <1>4, Zenon DEF Poll, StartScan, EndScan, StartPass, PollRead, PollConfirm, PollPublish, EndPass
  <2> QED BY <1>t, <2>1 DEF links
<1>5. CASE Restarts \/ Disconnects
  <2>1. down' = << >> /\ UNCHANGED cloud
    BY <1>5 DEF Restarts, Disconnects
  <2> QED BY <1>t, <2>1
<1>6. CASE CloudReturns
  <2>1. UNCHANGED <<connected, down, cloud>>
    BY <1>6, Zenon DEF CloudReturns
  <2> QED BY <1>t, <2>1
<1>11. CASE CloudDrops \/ RelayMisses
  <2>1. UNCHANGED <<connected, cloud>> /\ Cut
    BY <1>11, Zenon DEF CloudDrops, RelayMisses
  <2>2. down' \in Seq(Message) /\ (down = << >> => down' = << >>)
    BY <1>t, <2>1, CutIs
  <2> QED BY <1>t, <2>1, <2>2
<1>7. ASSUME NEW n \in Names, NEW v \in Values, UserWrites(n, v)
      PROVE  down' \in Seq(Message) /\ cloud' \in Configs \union {Invalid} /\ Linked'
  <2>1. WriteMessage(n, v) \in Message
    BY DEF Message
  <2>2. UNCHANGED <<connected, cloud>>
    BY <1>7 DEF UserWrites
  <2>3. UNCHANGED down \/ (connected /\ down' = Append(down, WriteMessage(n, v)))
    BY <1>7 DEF UserWrites, Deliver
  <2> QED BY <1>t, <2>1, <2>2, <2>3
<1>8. ASSUME NEW payload \in Configs \union {Invalid}, WidgetSaves(payload)
      PROVE  down' \in Seq(Message) /\ cloud' \in Configs \union {Invalid} /\ Linked'
  <2>1. ConfigMessage(payload) \in Message
    BY DEF Message
  <2>2. UNCHANGED connected /\ cloud' = payload
    BY <1>8 DEF WidgetSaves
  <2>3. UNCHANGED down \/ (connected /\ down' = Append(down, ConfigMessage(payload)))
    BY <1>8 DEF WidgetSaves, Deliver
  <2> QED BY <1>t, <2>1, <2>2, <2>3
<1>9. ASSUME NEW p \in Ports, WidgetScans(p)
      PROVE  down' \in Seq(Message) /\ cloud' \in Configs \union {Invalid} /\ Linked'
  <2>1. ScanMessage(p) \in Message
    BY DEF Message
  <2>2. UNCHANGED <<connected, cloud>>
    BY <1>9 DEF WidgetScans
  <2>3. UNCHANGED down \/ (connected /\ down' = Append(down, ScanMessage(p)))
    BY <1>9 DEF WidgetScans, Deliver
  <2> QED BY <1>t, <2>1, <2>2, <2>3
<1>10. ASSUME NEW r \in Registers, DeviceChanges(r)
       PROVE  down' \in Seq(Message) /\ cloud' \in Configs \union {Invalid} /\ Linked'
  BY <1>t, <1>10 DEF DeviceChanges, links
<1> QED BY <1>1, <1>2, <1>3, <1>4, <1>5, <1>6, <1>7, <1>8, <1>9, <1>10, <1>11 DEF Next, Net, World

FieldOK ==
    /\ probe \in Ports \union {None}
    /\ subscribed \subseteq Names /\ granted \subseteq Names
    /\ buses \in [Ports -> Settings \union {Fast}]
    /\ shown \in [Names -> Values] /\ register \in [Registers -> Values]
    /\ unanswered \subseteq Names /\ doubtful \subseteq Registers
    /\ events \in 0..MaxEvents

LEMMA FieldNext == Base /\ [Next]_vars => FieldOK'
<1> SUFFICES ASSUME Base, [Next]_vars
             PROVE  FieldOK'
  OBVIOUS
<1>t. FieldOK /\ ThreadsOK /\ InHand /\ down \in Seq(Message) /\ config \in Configs /\ stateFile \in Configs
  BY DEF Base, TypeOK, FieldOK
<1>r. Restored \in Known
  BY <1>t, RestoredIs DEF Base
<1>e. ASSUME Happens \/ UNCHANGED events
      PROVE  events' \in 0..MaxEvents
  BY <1>t, <1>e, GatewayAssumption DEF FieldOK, Happens
<1>p. ASSUME NEW n \in Names, NEW v \in Values, Publish(n, v)
      PROVE  shown' \in [Names -> Values]
  BY <1>t, <1>p DEF FieldOK, Publish
<1> USE DEF FieldOK
<1>1. CASE OnConnected \/ ConfigureBuses
  BY <1>1, <1>t, ConfigParts DEF OnConnected, ConfigureBuses, field
<1>2. CASE ApplyConfig \/ SaveState \/ SaveRuntime \/ Record \/ WriteFailed
  <2>1. UNCHANGED <<probe, subscribed, granted, buses, field>>
    BY <1>2, Zenon DEF ApplyConfig, SaveState, SaveRuntime, Record, WriteFailed, links, memory
  <2>2. Happens \/ UNCHANGED events
    BY <1>2, Zenon DEF ApplyConfig, SaveState, SaveRuntime, Record, WriteFailed
  <2> QED BY <1>t, <1>e, <2>1, <2>2 DEF field
<1>3. CASE TakeRequest \/ EnqueueProbe
  <2>1. /\ Head(down) \in Message
        /\ \/ Head(down).kind = "write" /\ TakeRequest
           \/ Head(down).kind = "scan" /\ EnqueueProbe
    BY <1>3, <1>t DEF TakeRequest, EnqueueProbe, Receives
  <2>2. (Head(down).name \in Names /\ TakeRequest) \/ (Head(down).port \in Ports /\ EnqueueProbe)
    BY <2>1 DEF Message, WriteMessage, ConfigMessage, ScanMessage
  <2>3. CASE Head(down).name \in Names /\ TakeRequest
    BY <1>t, <2>3 DEF TakeRequest, memory
  <2>4. CASE Head(down).port \in Ports /\ EnqueueProbe
    BY <1>t, <2>4 DEF EnqueueProbe, memory, field
  <2> QED BY <2>2, <2>3, <2>4
<1>4. CASE WriteRegister
  <2>1. net \in Writing
    BY <1>t, <1>4, NetFields DEF ThreadsOK, WriteRegister
  <2>2. net.value \in Values /\ Target \in Registers
    BY <1>t, <2>1, HandAt
  <2>3. UNCHANGED <<probe, subscribed, granted, buses, shown, unanswered>>
    BY <1>4 DEF WriteRegister, memory, links
  <2>4. /\ register' = register \/ register' = [register EXCEPT ![Target] = net.value]
        /\ doubtful' \subseteq doubtful \union {Target}
        /\ Happens \/ UNCHANGED events
    BY <1>4 DEF WriteRegister, Fails
  <2> QED BY <1>t, <1>e, <2>2, <2>3, <2>4
<1>5. CASE Echo \/ SnapBack
  <2>1. net \in Writing
    BY <1>t, <1>5, NetFields DEF ThreadsOK, Echo, SnapBack
  <2>2. net.value \in Values /\ net.name \in Names
    BY <1>t, <2>1, HandAt
  <2>3. UNCHANGED <<probe, subscribed, granted, buses, register, doubtful, events>>
    BY <1>5 DEF Echo, SnapBack, memory, links
  <2>4. Publish(net.name, net.value) /\ unanswered' \subseteq unanswered
    BY <1>5 DEF Echo, SnapBack, Answered
  <2> QED BY <1>t, <1>p, <2>2, <2>3, <2>4
<1>6. ASSUME NEW p \in Ports, StartScan(p) \/ EndScan(p)
      PROVE  FieldOK'
  <2>1. config.settings[p] \in Settings
    BY <1>t, ConfigParts
  <2>2. poll[p].at = "scan" => poll[p].normal \in Settings
    BY <1>t, PollFields DEF ThreadsOK, Scanning
  <2> QED BY <1>6, <1>t, <2>1, <2>2 DEF StartScan, EndScan, memory, links, field
<1>7. ASSUME NEW p \in Ports, StartPass(p) \/ PollConfirm(p) \/ EndPass(p)
      PROVE  FieldOK'
  BY <1>7, <1>t DEF StartPass, PollConfirm, EndPass, memory, links, field
<1>8. ASSUME NEW p \in Ports, PollRead(p)
      PROVE  FieldOK'
  <2>1. Happens \/ UNCHANGED events
    BY <1>8 DEF PollRead, Fails
  <2> QED BY <1>8, <1>t, <1>e, <2>1 DEF PollRead, memory, links, field
<1>9. ASSUME NEW p \in Ports, PollPublish(p)
      PROVE  FieldOK'
  <2>1. poll[p] \in Reading
    BY <1>t, <1>9, PollFields DEF ThreadsOK, PollPublish
  <2>2. poll[p].name \in Names /\ poll[p].value \in Values
    BY <2>1, ReadingGoes
  <2>3. Publish(poll[p].name, poll[p].value)
    BY <1>9 DEF PollPublish
  <2> QED BY <1>9, <1>t, <1>p, <2>2, <2>3 DEF PollPublish, memory, links
<1>10. CASE Restarts
  <2>1. Unrecorded \subseteq Registers /\ Interrupted \subseteq Names
    <3>1. \/ net.at \notin {"echo", "record", "saveRuntime"} \/ "name" \notin DOMAIN net
          \/ net \in Writing
      BY <1>t, NetFields DEF ThreadsOK
    <3> QED BY <1>t, <3>1, HandAt DEF Unrecorded, Interrupted
  <2>2. Outdated \subseteq Names /\ \A n \in Outdated : Restored[n].register \in Registers
    BY <1>t, <1>r, KnownHolds DEF Outdated
  <2>3. { Restored[n].register : n \in Outdated } \subseteq Registers
    BY <2>2
  <2>4. Happens /\ probe' = None /\ subscribed' = {} /\ granted' = {} /\ buses' = stateFile.settings
        /\ UNCHANGED <<shown, register>>
        /\ unanswered' = unanswered \union Interrupted \union Outdated
        /\ doubtful' = doubtful \union Unrecorded \union { Restored[n].register : n \in Outdated }
    BY <1>10 DEF Restarts
  <2> QED BY <1>t, <1>e, <2>1, <2>2, <2>3, <2>4, ConfigParts
<1>11. CASE Disconnects
  BY <1>11, <1>t, <1>e DEF Disconnects, Interrupted, memory
<1>17. CASE CloudDrops \/ RelayMisses
  <2>1. /\ UNCHANGED <<probe, subscribed, granted, buses, shown, register, doubtful>>
        /\ Happens /\ Cut
    BY <1>17, Zenon DEF CloudDrops, RelayMisses, memory
  <2>2. unanswered' \subseteq Names
    BY <1>t, <2>1, CutIs
  <2> QED BY <1>t, <1>e, <2>1, <2>2
<1>12. CASE Period \/ CloudReturns \/ UNCHANGED vars
  <2>1. UNCHANGED <<probe, subscribed, granted, buses, field, events>>
    BY <1>12, Zenon DEF Period, CloudReturns, links, memory, vars
  <2> QED BY <1>t, <2>1 DEF field
<1>13. ASSUME NEW n \in Names, NEW v \in Values, UserWrites(n, v)
       PROVE  FieldOK'
  BY <1>13, <1>t, <1>e DEF UserWrites, memory
<1>14. ASSUME NEW payload \in Configs \union {Invalid}, WidgetSaves(payload)
       PROVE  FieldOK'
  BY <1>14, <1>t, <1>e DEF WidgetSaves, memory, field
<1>15. ASSUME NEW p \in Ports, WidgetScans(p)
       PROVE  FieldOK'
  BY <1>15, <1>t, <1>e DEF WidgetScans, memory, field
<1>16. ASSUME NEW r \in Registers, DeviceChanges(r)
       PROVE  FieldOK'
  BY <1>16, <1>t, <1>e DEF DeviceChanges, memory, links
<1> QED BY <1>1, <1>2, <1>3, <1>4, <1>5, <1>6, <1>7, <1>8, <1>9, <1>10, <1>11, <1>12, <1>13, <1>14,
           <1>15, <1>16, <1>17
        DEF Next, Net, Poll, World

LEMMA BaseInit == Init => Base
<1> SUFFICES ASSUME Init
             PROVE  Base
  OBVIOUS
<1>1. config \in Configs /\ config = Empty /\ stateFile = Empty /\ DOMAIN config.points = {}
  BY GatewayAssumption DEF Init
<1>2. ThreadsOK /\ InHand
  <2>1. net \in Plain /\ poll \in [Ports -> Polling]
    BY NetFields DEF Init, Polling
  <2> QED BY <2>1, NetFields DEF ThreadsOK, InHand
<1>3. FileFits /\ WrittenFits
  BY NothingKnown DEF Init, FileFits, Fits, WrittenFits, NoDoc
<1>4. Subscribed /\ Linked
  BY Zenon DEF Init, Subscribed, Linked
<1>5. MemoryOK
  BY <1>1, <1>3, NothingKnown DEF Init, MemoryOK
<1>6. FlagsOK
  BY Zenon DEF Init, FlagsOK
<1>9. unsaved = {}
  BY DEF Init
<1>7. FieldOK /\ down \in Seq(Message) /\ cloud \in Configs \union {Invalid}
  BY <1>1, ConfigParts, GatewayAssumption DEF Init, FieldOK
<1>8. /\ net.at \in {"idle", "configure", "saveState", "saveRuntime",
                     "write", "echo", "record", "failed", "restore"}
      /\ \A p \in Ports : poll[p].at \in {"idle", "start", "pass", "confirm", "publish", "scan"}
  BY <1>2, NetFields, PollFields DEF ThreadsOK
<1> QED BY <1>2, <1>3, <1>4, <1>5, <1>6, <1>7, <1>8, <1>9
        DEF Base, TypeOK, MemoryOK, FlagsOK, FieldOK, FileFits

LEMMA BaseNext == Base /\ [Next]_vars => Base'
<1> SUFFICES ASSUME Base, [Next]_vars
             PROVE  Base'
  OBVIOUS
<1>1. ThreadsOK' /\ InHand'
  BY ThreadsNext
<1>2. MemoryOK'
  BY MemoryNext
<1>3. FlagsOK'
  BY FlagsNext DEF Base, TypeOK, FlagsOK
<1>4. FieldOK'
  BY FieldNext
<1>5. down' \in Seq(Message) /\ cloud' \in Configs \union {Invalid} /\ Linked'
  BY DownNext
<1>6. Subscribed'
  BY SubscribedNext
<1>7. /\ net'.at \in {"idle", "configure", "saveState", "saveRuntime",
                     "write", "echo", "record", "failed", "restore"}
      /\ \A p \in Ports : poll'[p].at \in {"idle", "start", "pass", "confirm", "publish", "scan"}
  BY <1>1, NetFields, PollFields DEF ThreadsOK
<1>9. unsaved' \subseteq {"state", "runtime"}
  BY UnsavedNext DEF Base, TypeOK
<1>8. TypeOK'
  BY <1>2, <1>3, <1>4, <1>5, <1>7, <1>9 DEF TypeOK, MemoryOK, FlagsOK, FieldOK, FileFits
<1> QED BY <1>1, <1>2, <1>5, <1>6, <1>8 DEF Base, MemoryOK

LEMMA StaysBase == Spec => []Base
  BY BaseInit, BaseNext, PTL DEF Spec

(* The gateway's state stays of its types: whatever is applied, written,   *)
(* polled or restored, only values of points of some accepted              *)
(* configuration are kept, and only readable points are due.               *)
THEOREM TypeCorrect == Spec => []TypeOK
<1>1. Base => TypeOK
  BY DEF Base
<1> QED BY <1>1, StaysBase, PTL

(* A value kept of a write fits the running configuration, also when the   *)
(* process died between the two files: the runtime file fits whichever     *)
(* configuration its rev names, and is restored for no other.              *)
THEOREM WrittenStaysFit == Spec => []WrittenFits
<1>1. Base => WrittenFits
  BY DEF Base
<1> QED BY <1>1, StaysBase, PTL

(* The subscriptions mosquitto knows follow the running configuration as   *)
(* soon as the network thread is done, through edits, lost connections and *)
(* restarts in any order.                                                  *)
THEOREM SubscriptionsRight == Spec => []SubscriptionsFollow
<1>1. Base => SubscriptionsFollow
  BY NetFields DEF Base, Subscribed, SubscriptionsFollow
<1> QED BY <1>1, StaysBase, PTL

(***************************************************************************)
(* A switch tells the truth.                                               *)
(***************************************************************************)
LEMMA TailPending ==
  ASSUME down \in Seq(Message), down # << >>, down' = Tail(down), NEW n, Pending(n)
  PROVE  Pending(n)' \/ (Head(down).kind = "write" /\ Head(down).name = n)
<1>1. PICK i \in DOMAIN down : down[i].kind = "write" /\ down[i].name = n
  BY DEF Pending
<1>2. CASE i = 1
  BY <1>1, <1>2
<1>3. CASE i # 1
  <2>1. i - 1 \in DOMAIN Tail(down) /\ Tail(down)[i - 1] = down[i]
    BY <1>1, <1>3
  <2> QED BY <1>1, <2>1 DEF Pending
<1> QED BY <1>2, <1>3

LEMMA AppendPending ==
  ASSUME down \in Seq(Message), NEW m \in Message, down' = Append(down, m), NEW n, Pending(n)
  PROVE  Pending(n)'
<1>1. PICK i \in DOMAIN down : down[i].kind = "write" /\ down[i].name = n
  BY DEF Pending
<1>2. i \in DOMAIN down' /\ down'[i] = down[i]
  BY <1>1
<1> QED BY <1>1, <1>2 DEF Pending

\* What a restart would find unanswered, and unsaved.
LEMMA InterruptedIs ==
  ASSUME ThreadsOK
  PROVE  /\ \A n \in Names : n \in Interrupted <=> Pending(n) \/ (net \in Writing /\ net.name = n)
         /\ Unrecorded = IF At({"echo", "record", "saveRuntime"}) THEN {Target} ELSE {}
  BY NetFields DEF ThreadsOK, Interrupted, Unrecorded, Pending, At

\* A step of which Net, the files and what is written know nothing, and after which
\* whatever it changed on the dashboard or in the field is noted.
LEMMA Untouched ==
  ASSUME SwitchInv, UNCHANGED <<config, written, stateFile, runtimeFile, unsaved, net>>,
         \A n \in WriteOnly : /\ n \in DOMAIN confirmed' <=> n \in DOMAIN confirmed
                              /\ n \in DOMAIN confirmed => confirmed'[n] = confirmed[n],
         doubtful \subseteq doubtful', unanswered \subseteq unanswered',
         \A r : r \notin doubtful' => register'[r] = register[r],
         \A n \in WriteOnly : Pending(n) => Pending(n)' \/ n \in unanswered',
         \A n \in WriteOnly : n \notin unanswered' => shown'[n] = shown[n]
  PROVE  SwitchInv'
<1>1. UNCHANGED Target
  BY DEF Target
<1>2. FilesAgree'
  BY <1>1 DEF SwitchInv, FilesAgree
<1>3. HandTrue'
  BY <1>1 DEF SwitchInv, HandTrue, At
<1>4. KnownWritten'
  BY DEF SwitchInv, KnownWritten
<1>5. KnownTrue'
  BY DEF SwitchInv, KnownTrue, At
<1>6. FileTrue'
  BY <1>1 DEF SwitchInv, FileTrue, At
<1> QED BY <1>2, <1>3, <1>4, <1>5, <1>6 DEF SwitchInv

\* The polls: they read, and publish, points that are read.
LEMMA SwitchPoll ==
  ASSUME Base, SwitchInv, NEW p \in Ports, Poll(p)
  PROVE  SwitchInv'
<1>t. ThreadsOK /\ MemoryOK /\ shown \in [Names -> Values]
  BY DEF Base, TypeOK, MemoryOK
<1>k. ASSUME UNCHANGED <<config, written, files, net, register, unanswered, doubtful, down>>,
             \A n \in WriteOnly : /\ n \in DOMAIN confirmed' <=> n \in DOMAIN confirmed
                                  /\ n \in DOMAIN confirmed => confirmed'[n] = confirmed[n],
             \A n \in WriteOnly : shown'[n] = shown[n]
      PROVE  SwitchInv'
  <2>1. \A n : Pending(n) => Pending(n)'
    BY <1>k DEF Pending
  <2> QED BY <1>k, <2>1, Untouched DEF files
<1>1. CASE StartScan(p) \/ EndScan(p) \/ StartPass(p) \/ PollRead(p)
  BY <1>1, <1>k DEF StartScan, EndScan, StartPass, PollRead, memory, links, field
<1>2. CASE PollConfirm(p)
  <2> DEFINE m == poll[p].name
             held == [register |-> poll[p].points[m].register, value |-> poll[p].value]
  <2>1. poll[p] \in Reading
    BY <1>t, <1>2, PollFields DEF PollConfirm, ThreadsOK
  <2>2. m \in Names /\ m \notin WriteOnly /\ held \in Held
    BY <2>1, ReadingGoes, ReadNames DEF Held
  <2>3. /\ confirmed' = With(confirmed, m, held) \/ UNCHANGED confirmed
        /\ UNCHANGED <<config, written, files, net, links, field>>
    BY <1>2 DEF PollConfirm
  <2> HIDE DEF m, held
  <2>t. confirmed \in Known
    BY <1>t DEF MemoryOK
  <2>4. /\ DOMAIN With(confirmed, m, held) = DOMAIN confirmed \union {m}
        /\ \A n \in DOMAIN confirmed \ {m} : With(confirmed, m, held)[n] = confirmed[n]
    BY <2>t, <2>2, WithKnown
  <2> QED BY <1>k, <2>2, <2>3, <2>4 DEF links, field
<1>3. CASE PollPublish(p)
  <2>1. poll[p] \in Reading
    BY <1>t, <1>3, PollFields DEF PollPublish, ThreadsOK
  <2>2. poll[p].name \in Names /\ poll[p].name \notin WriteOnly
    BY <2>1, ReadingGoes, ReadNames
  <2>3. \A n \in WriteOnly : shown'[n] = shown[n]
    BY <1>3, <1>t, <2>2 DEF PollPublish, Publish, WriteOnly
  <2> QED BY <1>3, <1>k, <2>3 DEF PollPublish, memory, links
<1>4. CASE EndPass(p)
  <2>1. UNCHANGED <<memory, net, stateFile, links, field>>
    BY <1>4 DEF EndPass
  <2>2. CASE UNCHANGED <<runtimeFile, unsaved>>
    BY <1>k, <2>1, <2>2 DEF memory, files, links, field
  <2>3. CASE SavesRuntime
    <3>1. UNCHANGED <<config, stateFile, confirmed, written, net, register, shown, unanswered, doubtful, Target>>
      BY <2>1 DEF memory, links, field, Target
    <3>2. \A n : Pending(n)' <=> Pending(n)
      BY <2>1 DEF links, Pending
    <3>3. runtimeFile'.rev = config.rev /\ runtimeFile'.confirmed = written
      BY <2>3 DEF SavesRuntime, RuntimeDoc
    <3>4. "state" \in unsaved' <=> "state" \in unsaved
      BY <2>3 DEF SavesRuntime
    <3>5. FilesAgree'
      BY <3>1, <3>3, <3>4 DEF SwitchInv, FilesAgree
    <3>6. HandTrue' /\ KnownWritten' /\ KnownTrue'
      BY <3>1, <3>2 DEF SwitchInv, HandTrue, KnownWritten, KnownTrue, At
    <3>7. FileTrue'
      <4>1. \A n \in DOMAIN written : net.name = n => Target = written[n].register
        BY <1>t DEF MemoryOK, WrittenFits, Target
      <4> QED BY <3>1, <3>2, <3>3, <4>1 DEF SwitchInv, KnownTrue, FileTrue, At
    <3> QED BY <3>5, <3>6, <3>7 DEF SwitchInv
  <2> QED BY <1>4, <2>2, <2>3 DEF EndPass
<1> QED BY <1>1, <1>2, <1>3, <1>4 DEF Poll

\* Applying a configuration: what is kept of a point is kept with its definition.
LEMMA SwitchConfigures ==
  ASSUME Base, SwitchInv, ApplyConfig \/ ConfigureBuses \/ SaveState \/ SaveRuntime
  PROVE  SwitchInv'
<1>t. ThreadsOK /\ MemoryOK /\ down \in Seq(Message)
  BY DEF Base, TypeOK, MemoryOK
<1>1. CASE ApplyConfig
  <2>1. /\ net = NetIdle /\ down # << >> /\ Head(down).kind = "config" /\ down' = Tail(down)
        /\ UNCHANGED <<files, field>>
    BY <1>1 DEF ApplyConfig, Receives
  <2>2. \A n : Pending(n) => Pending(n)'
    BY <1>t, <2>1, TailPending
  <2>3. CASE UNCHANGED <<config, confirmed, written, net>>
    BY <2>1, <2>2, <2>3, Untouched DEF files, field
  <2>4. ASSUME NEW c, net' = [at |-> "configure"],
               confirmed' = Only(confirmed, Kept(c)), written' = Only(written, Kept(c))
        PROVE  SwitchInv'
    <3>1. net' \in Plain /\ net \in Plain
      BY <2>1, <2>4, NetFields DEF Plain
    <3>2. \A S : ~At(S) /\ ~At(S)'
      BY <3>1, NetFields DEF At
    <3>3. confirmed \in Known /\ written \in Known
      BY <1>t DEF MemoryOK
    <3>4. /\ DOMAIN confirmed' = DOMAIN confirmed \intersect Kept(c)
          /\ \A n \in DOMAIN confirmed' : confirmed'[n] = confirmed[n]
          /\ DOMAIN written' = DOMAIN written \intersect Kept(c)
          /\ \A n \in DOMAIN written' : written'[n] = written[n]
      BY <2>4, <3>3, OnlyKnown
    <3>5. FilesAgree' /\ HandTrue'
      BY <2>4, <3>2 DEF FilesAgree, HandTrue
    <3>6. KnownWritten'
      BY <3>4 DEF SwitchInv, KnownWritten
    <3>7. KnownTrue'
      BY <2>1, <2>2, <3>2, <3>4 DEF SwitchInv, KnownTrue, field
    <3>8. FileTrue'
      BY <2>1, <2>2, <3>1, <3>2, NetFields DEF SwitchInv, FileTrue, field, files
    <3> QED BY <3>5, <3>6, <3>7, <3>8 DEF SwitchInv
  <2>5. \/ UNCHANGED <<config, confirmed, written, net>>
        \/ \E c : /\ net' = [at |-> "configure"]
                  /\ confirmed' = Only(confirmed, Kept(c)) /\ written' = Only(written, Kept(c))
    BY <1>1 DEF ApplyConfig
  <2> QED BY <2>3, <2>4, <2>5
<1>2. CASE ConfigureBuses \/ SaveState
  <2>1. UNCHANGED <<config, confirmed, written, runtimeFile, field>> /\ UNCHANGED down
    BY <1>2 DEF ConfigureBuses, SaveState, memory, links, files
  <2>9. "runtime" \in unsaved' <=> "runtime" \in unsaved
    BY <1>2 DEF ConfigureBuses, SaveState, files
  <2>2. net \in Plain /\ net' \in Plain
    BY <1>t, <1>2, NetFields DEF ThreadsOK, ConfigureBuses, SaveState, Plain
  <2>3. \A S : ~At(S) /\ ~At(S)'
    BY <2>2, NetFields DEF At
  <2>4. \A n : Pending(n)' <=> Pending(n)
    BY <2>1 DEF Pending
  <2>5. FilesAgree'
    BY <1>2, <2>1 DEF ConfigureBuses, SaveState, FilesAgree
  <2>6. HandTrue'
    BY <2>3 DEF HandTrue
  <2>7. KnownWritten' /\ KnownTrue'
    BY <2>1, <2>3, <2>4 DEF SwitchInv, KnownWritten, KnownTrue, field
  <2>8. FileTrue'
    BY <2>1, <2>2, <2>3, <2>4, <2>9, NetFields DEF SwitchInv, FileTrue, field
  <2> QED BY <2>5, <2>6, <2>7, <2>8 DEF SwitchInv
<1>3. CASE SaveRuntime
  <2>1. /\ net.at = "saveRuntime" /\ net' = NetIdle
        /\ UNCHANGED <<config, confirmed, written, stateFile, field>> /\ UNCHANGED down
    BY <1>3 DEF SaveRuntime, memory, links
  <2>2. /\ "runtime" \notin unsaved' => runtimeFile'.confirmed = written
        /\ "state" \in unsaved' <=> "state" \in unsaved
    BY <1>3 DEF SaveRuntime, SavesRuntime, RuntimeDoc
  <2>3. /\ \A S : ~At(S)'
        /\ ~At({"echo", "record"}) /\ ~At({"record"}) /\ net' \notin Writing /\ net'.at = "idle"
    BY <2>1, NetFields DEF At
  <2>4. \A n : Pending(n)' <=> Pending(n)
    BY <2>1 DEF Pending
  <2>5. FilesAgree'
    BY <2>1, <2>2 DEF SwitchInv, FilesAgree
  <2>6. HandTrue'
    BY <2>3 DEF HandTrue
  <2>7. KnownWritten' /\ KnownTrue'
    BY <2>1, <2>3, <2>4 DEF SwitchInv, KnownWritten, KnownTrue, field
  <2>8. FileTrue'
    BY <2>1, <2>2, <2>3, <2>4 DEF SwitchInv, KnownTrue, FileTrue, field
  <2> QED BY <2>5, <2>6, <2>7, <2>8 DEF SwitchInv
<1> QED BY <1>1, <1>2, <1>3

\* A request, from the queue to the runtime file or back to the dashboard.
LEMMA SwitchTakes ==
  ASSUME Base, SwitchInv, TakeRequest
  PROVE  SwitchInv'
<1> DEFINE m == Head(down).name
<1>t. ThreadsOK /\ down \in Seq(Message)
  BY DEF Base, TypeOK
<1>1. /\ net = NetIdle /\ down # << >> /\ down' = Tail(down)
      /\ unanswered' = unanswered \union {m}
      /\ UNCHANGED <<config, confirmed, written, files, shown, register, doubtful>>
  BY DEF TakeRequest, Receives, memory
<1>2. /\ net' = NetIdle \/ (net'.at = "write" /\ net'.name = m)
  BY DEF TakeRequest
<1>3. \A n : Pending(n) => Pending(n)' \/ n = m
  BY <1>t, <1>1, TailPending
<1>4. /\ net'.at \in {"idle", "write"}
      /\ \A S : ~At(S)
      /\ ~At({"echo", "record"})' /\ ~At({"record"})' /\ ~At({"restore"})'
      /\ ~At({"echo", "record", "saveRuntime"})'
      /\ net \notin Writing
  BY <1>1, <1>2, NetFields DEF At
<1> HIDE DEF m
<1>5. FilesAgree'
  BY <1>1, <1>4, NetFields DEF SwitchInv, FilesAgree, files
<1>6. HandTrue'
  <2>1. At({"write", "echo", "failed", "restore"})' => net'.name = m
    BY <1>2, NetFields DEF At
  <2> QED BY <1>1, <1>4, <2>1 DEF HandTrue
<1>7. KnownWritten'
  BY <1>1 DEF SwitchInv, KnownWritten
<1>8. KnownTrue'
  BY <1>1, <1>3, <1>4 DEF SwitchInv, KnownTrue
<1>9. FileTrue'
  BY <1>1, <1>3, <1>4 DEF SwitchInv, FileTrue, files
<1> QED BY <1>5, <1>6, <1>7, <1>8, <1>9 DEF SwitchInv

LEMMA SwitchWrites ==
  ASSUME Base, SwitchInv, WriteRegister
  PROVE  SwitchInv'
<1>t. ThreadsOK /\ InHand /\ WrittenFits /\ config \in Configs /\ register \in [Registers -> Values]
  BY DEF Base, TypeOK
<1>1. /\ net.at = "write"
      /\ UNCHANGED <<config, confirmed, written, files, shown, unanswered>> /\ UNCHANGED down
      /\ \/ /\ Goes("echo")
            /\ register' = [register EXCEPT ![Target] = net.value]
            /\ doubtful' = doubtful \ {Target}
         \/ Goes("failed") /\ UNCHANGED <<register, doubtful>>
         \/ /\ Goes("failed")
            /\ register' = [register EXCEPT ![Target] = net.value]
            /\ doubtful' = doubtful \union {Target}
  BY DEF WriteRegister, memory, links
<1>2. /\ net \in Writing /\ net' \in Writing /\ net'.at \in {"echo", "failed"}
      /\ net'.name = net.name /\ net'.value = net.value
  BY <1>t, <1>1, HandGoes DEF ThreadsOK
<1>3. Target \in Registers /\ net.name \in Wanted(config) /\ UNCHANGED Target
  BY <1>t, <1>1, <1>2, HandAt DEF InHand, Target
<1>4. \A n : Pending(n)' <=> Pending(n)
  BY <1>1 DEF Pending
<1>5. \A n \in WriteOnly \intersect DOMAIN written : n # net.name => written[n].register # Target
  BY <1>t, <1>3 DEF WrittenFits, WriteOnly, Target
<1>6. /\ \A r : r # Target => register'[r] = register[r] /\ (r \in doubtful' <=> r \in doubtful)
      /\ \/ net'.at = "echo" /\ register'[Target] = net.value
         \/ net'.at = "failed" /\ (UNCHANGED <<register, doubtful>> \/ Target \in doubtful')
  <2>1. Goes("echo") => net'.at = "echo"
    BY <1>t, <1>1, HandGoes DEF ThreadsOK
  <2>2. Goes("failed") => net'.at = "failed"
    BY <1>t, <1>1, HandGoes DEF ThreadsOK
  <2>3. CASE /\ Goes("echo") /\ register' = [register EXCEPT ![Target] = net.value]
             /\ doubtful' = doubtful \ {Target}
    BY <1>t, <1>3, <2>1, <2>3
  <2>4. CASE Goes("failed") /\ UNCHANGED <<register, doubtful>>
    BY <2>2, <2>4
  <2>5. CASE /\ Goes("failed") /\ register' = [register EXCEPT ![Target] = net.value]
             /\ doubtful' = doubtful \union {Target}
    BY <1>t, <1>3, <2>2, <2>5
  <2> QED BY <1>1, <2>3, <2>4, <2>5
<1>7. FilesAgree'
  BY <1>1, <1>2 DEF SwitchInv, FilesAgree, files
<1>8. HandTrue'
  BY <1>1, <1>2, <1>3, <1>6 DEF SwitchInv, HandTrue, At
<1>9. KnownWritten'
  BY <1>1 DEF SwitchInv, KnownWritten
<1>10. KnownTrue'
  BY <1>1, <1>2, <1>4, <1>5, <1>6 DEF SwitchInv, KnownTrue, At
<1>11. FileTrue'
  BY <1>1, <1>2, <1>3, <1>4, <1>6 DEF SwitchInv, FileTrue, At, files
<1> QED BY <1>7, <1>8, <1>9, <1>10, <1>11 DEF SwitchInv

LEMMA SwitchEchoes ==
  ASSUME Base, SwitchInv, Echo
  PROVE  SwitchInv'
<1>t. ThreadsOK /\ InHand /\ config \in Configs /\ shown \in [Names -> Values]
  BY DEF Base, TypeOK
<1>1. /\ net.at = "echo" /\ Goes("record")
      /\ UNCHANGED <<config, confirmed, written, files, register, doubtful>> /\ UNCHANGED down
      /\ \/ /\ shown' = [shown EXCEPT ![net.name] = net.value]
            /\ unanswered' = unanswered \ {net.name}
         \/ UNCHANGED <<shown, unanswered>>
  BY DEF Echo, Publish, Answered, memory, links
<1>2. /\ net \in Writing /\ net' \in Writing /\ net'.at = "record"
      /\ net'.name = net.name /\ net'.value = net.value /\ net.name \in Names
  BY <1>t, <1>1, HandGoes, HandAt DEF ThreadsOK
<1>3. \A n : Pending(n)' <=> Pending(n)
  BY <1>1 DEF Pending
<1>4. UNCHANGED Target
  BY <1>1, <1>2 DEF Target
<1>5. net.name \in unanswered
  BY <1>1, <1>2 DEF SwitchInv, HandTrue, At
<1>6. \/ shown'[net.name] = net.value
      \/ net.name \in unanswered'
  BY <1>t, <1>1, <1>2, <1>5
<1>7. \A n \in WriteOnly : n # net.name => shown'[n] = shown[n] /\ (n \in unanswered' <=> n \in unanswered)
  BY <1>t, <1>1 DEF WriteOnly
<1>8. FilesAgree'
  BY <1>1, <1>2 DEF SwitchInv, FilesAgree, files
<1>9. HandTrue'
  BY <1>1, <1>2, <1>4, <1>6 DEF SwitchInv, HandTrue, At
<1>10. KnownWritten'
  BY <1>1 DEF SwitchInv, KnownWritten
<1>11. KnownTrue'
  BY <1>1, <1>2, <1>3, <1>7 DEF SwitchInv, KnownTrue, At
<1>12. FileTrue'
  BY <1>1, <1>2, <1>3, <1>4, <1>7 DEF SwitchInv, FileTrue, At, files
<1> QED BY <1>8, <1>9, <1>10, <1>11, <1>12 DEF SwitchInv

LEMMA SwitchRecords ==
  ASSUME Base, SwitchInv, Record
  PROVE  SwitchInv'
<1> DEFINE held == [register |-> Target, value |-> net.value]
<1>t. ThreadsOK /\ InHand /\ config \in Configs /\ confirmed \in Known /\ written \in Known
  BY DEF Base, TypeOK
<1>1. /\ net.at = "record" /\ Goes("saveRuntime")
      /\ confirmed' = With(confirmed, net.name, held) /\ written' = With(written, net.name, held)
      /\ UNCHANGED <<config, files, field>> /\ UNCHANGED down
  BY DEF Record, links
<1>2. /\ net \in Writing /\ net' \in Writing /\ net'.at = "saveRuntime" /\ net'.name = net.name
  BY <1>t, <1>1, HandGoes DEF ThreadsOK
<1>3. net.name \in Names /\ held \in Held
  BY <1>t, <1>2, HandAt DEF Held
<1>4. held.register = Target /\ held.value = net.value /\ UNCHANGED Target
  BY <1>1, <1>2 DEF Target
<1>5. \A n : Pending(n)' <=> Pending(n)
  BY <1>1 DEF Pending
<1>6. ASSUME NEW known \in Known
      PROVE  /\ DOMAIN With(known, net.name, held) = DOMAIN known \union {net.name}
             /\ With(known, net.name, held)[net.name] = held
             /\ \A m \in DOMAIN known \ {net.name} : With(known, net.name, held)[m] = known[m]
  <2> DEFINE n == net.name
  <2>1. n \in Names /\ held \in Held
    BY <1>3
  <2> HIDE DEF n, held
  <2>2. /\ DOMAIN With(known, n, held) = DOMAIN known \union {n}
        /\ With(known, n, held)[n] = held
        /\ \A m \in DOMAIN known \ {n} : With(known, n, held)[m] = known[m]
    BY <2>1, WithKnown
  <2> QED BY <2>2 DEF n
<1> HIDE DEF held
<1>7. /\ DOMAIN confirmed' = DOMAIN confirmed \union {net.name} /\ confirmed'[net.name] = held
      /\ \A m \in DOMAIN confirmed \ {net.name} : confirmed'[m] = confirmed[m]
      /\ DOMAIN written' = DOMAIN written \union {net.name} /\ written'[net.name] = held
      /\ \A m \in DOMAIN written \ {net.name} : written'[m] = written[m]
  BY <1>t, <1>1, <1>6
<1>8. FilesAgree'
  BY <1>1, <1>2 DEF SwitchInv, FilesAgree, files
<1>9. HandTrue'
  BY <1>2 DEF HandTrue, At
<1>10. KnownWritten'
  BY <1>7 DEF SwitchInv, KnownWritten
<1>11. KnownTrue'
  BY <1>1, <1>2, <1>4, <1>5, <1>7 DEF SwitchInv, HandTrue, KnownTrue, At, field
<1>12. FileTrue'
  BY <1>1, <1>2, <1>4, <1>5 DEF SwitchInv, FileTrue, At, files, field
<1> QED BY <1>8, <1>9, <1>10, <1>11, <1>12 DEF SwitchInv

LEMMA SwitchFails ==
  ASSUME Base, SwitchInv, WriteFailed
  PROVE  SwitchInv'
<1>t. ThreadsOK
  BY DEF Base
<1>1. /\ net.at = "failed"
      /\ \/ net' = NetIdle
         \/ /\ net.name \in DOMAIN confirmed
            /\ net' = [at |-> "restore", name |-> net.name, value |-> confirmed[net.name].value]
      /\ UNCHANGED <<config, confirmed, written, files, field>> /\ UNCHANGED down
  BY DEF WriteFailed, memory, links
<1>2. net \in Writing /\ net.name \in unanswered
  BY <1>t, <1>1, NetFields DEF ThreadsOK, SwitchInv, HandTrue, At
<1>3. \A n : Pending(n)' <=> Pending(n)
  BY <1>1 DEF Pending
<1>4. /\ net'.at \in {"idle", "restore"}
      /\ ~At({"echo", "record"}) /\ ~At({"record"}) /\ ~At({"echo", "record", "saveRuntime"})
      /\ ~At({"echo", "record"})' /\ ~At({"record"})'
      /\ At({"write", "echo", "failed", "restore"})' => net'.name = net.name
      /\ At({"restore"})' => net.name \in DOMAIN confirmed /\ net'.value = confirmed[net.name].value
                             /\ net'.name = net.name
  BY <1>1, NetFields DEF At
<1>5. FilesAgree'
  BY <1>1, <1>4 DEF SwitchInv, FilesAgree, files
<1>6. HandTrue'
  BY <1>1, <1>2, <1>4 DEF HandTrue, field
<1>7. KnownWritten' /\ KnownTrue'
  BY <1>1, <1>3, <1>4 DEF SwitchInv, KnownWritten, KnownTrue, field
<1>8. FileTrue'
  BY <1>1, <1>2, <1>3, <1>4 DEF SwitchInv, FileTrue, files, field
<1> QED BY <1>5, <1>6, <1>7, <1>8 DEF SwitchInv

LEMMA SwitchSnapsBack ==
  ASSUME Base, SwitchInv, SnapBack
  PROVE  SwitchInv'
<1>t. ThreadsOK /\ InHand /\ MemoryOK /\ shown \in [Names -> Values]
  BY DEF Base, TypeOK, MemoryOK
<1>1. /\ net.at = "restore" /\ net' = NetIdle
      /\ UNCHANGED <<config, confirmed, written, files, register, doubtful>> /\ UNCHANGED down
      /\ \/ /\ shown' = [shown EXCEPT ![net.name] = net.value]
            /\ unanswered' = unanswered \ {net.name}
         \/ UNCHANGED <<shown, unanswered>>
  BY DEF SnapBack, Publish, Answered, memory, links
<1>2. net \in Writing /\ net.name \in Names /\ net.name \in unanswered
  BY <1>t, <1>1, NetFields DEF ThreadsOK, SwitchInv, HandTrue, At
<1>3. \A n : Pending(n)' <=> Pending(n)
  BY <1>1 DEF Pending
<1>4. /\ net'.at = "idle" /\ net' \notin Writing /\ \A S : ~At(S)'
      /\ ~At({"echo", "record"}) /\ ~At({"record"}) /\ ~At({"echo", "record", "saveRuntime"})
  BY <1>1, NetFields DEF At
<1>5. \A n \in WriteOnly : n # net.name => shown'[n] = shown[n] /\ (n \in unanswered' <=> n \in unanswered)
  BY <1>t, <1>1 DEF WriteOnly
<1>6. \/ shown'[net.name] = net.value
      \/ net.name \in unanswered'
  BY <1>t, <1>1, <1>2
<1>7. net.name \in WriteOnly =>
          net.name \in DOMAIN written /\ net.value = written[net.name].value
  BY <1>1, <1>2 DEF SwitchInv, HandTrue, KnownWritten, At
<1>8. net.name \in WriteOnly /\ "runtime" \notin unsaved =>
          net.value = runtimeFile.confirmed[net.name].value
  BY <1>1, <1>7 DEF SwitchInv, FilesAgree
<1>9. FilesAgree'
  BY <1>1, <1>4 DEF SwitchInv, FilesAgree, files
<1>10. HandTrue'
  BY <1>4 DEF HandTrue
<1>11. KnownWritten'
  BY <1>1 DEF SwitchInv, KnownWritten
<1>12. KnownTrue'
  BY <1>1, <1>3, <1>4, <1>5, <1>6, <1>7 DEF SwitchInv, KnownTrue
<1>13. FileTrue'
  BY <1>1, <1>3, <1>4, <1>5, <1>6, <1>8 DEF SwitchInv, FileTrue, files
<1> QED BY <1>9, <1>10, <1>11, <1>12, <1>13 DEF SwitchInv

\* The process dies and comes back with what the files say.
LEMMA SwitchRestarts ==
  ASSUME Base, SwitchInv, Restarts
  PROVE  SwitchInv'
<1>t. ThreadsOK /\ MemoryOK
  BY DEF Base, TypeOK, MemoryOK
<1>1. /\ config' = stateFile /\ written' = Restored /\ confirmed' = Restored /\ net' = NetIdle
      /\ unanswered' = unanswered \union Interrupted \union Outdated
      /\ doubtful' = doubtful \union Unrecorded \union { Restored[n].register : n \in Outdated }
      /\ unsaved' = unsaved \ {"state"}
      /\ UNCHANGED <<stateFile, runtimeFile, shown, register>>
  BY DEF Restarts
<1>2. /\ net'.at = "idle" /\ net' \notin Writing /\ \A S : ~At(S)'
  BY <1>1, NetFields DEF At
<1>3. \A n \in DOMAIN Restored : n \in DOMAIN runtimeFile.confirmed /\ Restored[n] = runtimeFile.confirmed[n]
  BY <1>t, RestoredIs DEF MemoryOK
<1>n. WriteOnly \subseteq Names
  BY DEF WriteOnly
<1>4. "runtime" \notin unsaved =>
        \A n \in WriteOnly \intersect DOMAIN runtimeFile.confirmed :
          /\ runtimeFile.confirmed[n].register \notin doubtful' =>
                 register[runtimeFile.confirmed[n].register] = runtimeFile.confirmed[n].value
          /\ n \notin unanswered' => shown[n] = runtimeFile.confirmed[n].value
  BY <1>t, <1>1, <1>n, InterruptedIs DEF SwitchInv, FileTrue
<1>5. FilesAgree'
  BY <1>1, <1>2, <1>3 DEF FilesAgree
<1>6. HandTrue'
  BY <1>2 DEF HandTrue
<1>7. KnownWritten'
  BY <1>1 DEF KnownWritten
<1>8. ASSUME "runtime" \in unsaved, NEW n \in WriteOnly \intersect DOMAIN Restored
      PROVE  /\ Restored[n].register \notin doubtful' =>
                    register[Restored[n].register] = Restored[n].value
             /\ n \notin unanswered' => shown[n] = Restored[n].value
  <2>1. CASE n \in Outdated
    BY <1>1, <2>1
  <2>2. CASE n \notin Outdated
    <3>1. n \in DOMAIN written /\ written[n] = Restored[n]
      BY <1>8, <2>2 DEF Outdated
    <3>2. net.name = n => Target = written[n].register
      BY <1>t, <3>1 DEF MemoryOK, WrittenFits, Target
    <3>3. ASSUME written[n].register \notin doubtful'
          PROVE  register[written[n].register] = written[n].value
      <4>1. ~(At({"echo", "record"}) /\ net.name = n)
        BY <1>t, <1>1, <3>2, <3>3, InterruptedIs DEF At
      <4>2. written[n].register \notin doubtful
        BY <1>1, <3>3
      <4> QED BY <3>1, <4>1, <4>2 DEF SwitchInv, KnownTrue
    <3>4. ASSUME n \notin unanswered'
          PROVE  shown[n] = written[n].value
      <4>1. ~Pending(n) /\ ~(net \in Writing /\ net.name = n) /\ n \notin unanswered
        BY <1>t, <1>1, <1>n, <3>4, InterruptedIs
      <4> QED BY <3>1, <4>1 DEF SwitchInv, KnownTrue, At
    <3> QED BY <3>1, <3>3, <3>4
  <2> QED BY <2>1, <2>2
<1>9. KnownTrue'
  <2>1. CASE "runtime" \in unsaved
    BY <1>1, <1>2, <1>8, <2>1 DEF KnownTrue
  <2>2. CASE "runtime" \notin unsaved
    BY <1>1, <1>2, <1>3, <1>4, <2>2 DEF KnownTrue
  <2> QED BY <2>1, <2>2
<1>10. FileTrue'
  BY <1>1, <1>2, <1>4 DEF FileTrue
<1> QED BY <1>5, <1>6, <1>7, <1>9, <1>10 DEF SwitchInv


\* What the others do: the dashboard is changed by a request, a register by its device.
LEMMA SwitchWorld ==
  ASSUME Base, SwitchInv, World \/ OnConnected \/ EnqueueProbe \/ Period
  PROVE  SwitchInv'
<1>t. /\ ThreadsOK /\ down \in Seq(Message) /\ Linked
      /\ shown \in [Names -> Values] /\ register \in [Registers -> Values]
  BY DEF Base, TypeOK
<1>n. WriteOnly \subseteq Names
  BY DEF WriteOnly
<1>k. ASSUME UNCHANGED <<memory, files, net>>,
             doubtful \subseteq doubtful', unanswered \subseteq unanswered',
             \A r : r \notin doubtful' => register'[r] = register[r],
             \A n \in WriteOnly : Pending(n) => Pending(n)' \/ n \in unanswered',
             \A n \in WriteOnly : n \notin unanswered' => shown'[n] = shown[n]
      PROVE  SwitchInv'
  BY <1>k, Untouched DEF memory, files
<1>1. CASE OnConnected
  <2>1. ~connected /\ UNCHANGED <<config, confirmed, written, files, net, field>>
    BY <1>1 DEF OnConnected
  <2>2. down = << >>
    BY <1>t, <2>1 DEF Linked
  <2>3. \A n : ~Pending(n)
    BY <2>2 DEF Pending
  <2> QED BY <2>1, <2>3, Untouched DEF files, field
<1>2. CASE EnqueueProbe
  <2>1. /\ UNCHANGED <<memory, files, net, field>>
        /\ down # << >> /\ Head(down).kind = "scan" /\ down' = Tail(down)
    BY <1>2 DEF EnqueueProbe, Receives
  <2>2. \A n : Pending(n) => Pending(n)'
    BY <1>t, <2>1, TailPending
  <2> QED BY <1>k, <2>1, <2>2 DEF field
<1>11. CASE CloudDrops \/ RelayMisses
  <2>1. UNCHANGED <<memory, files, net, shown, register, doubtful>> /\ Cut
    BY <1>11, Zenon DEF CloudDrops, RelayMisses
  <2>2. /\ \A n \in Names : Pending(n) => Pending(n)' \/ n \in unanswered'
        /\ unanswered \subseteq unanswered'
    BY <1>t, <2>1, CutIs
  <2> QED BY <1>k, <1>n, <2>1, <2>2
<1>3. CASE Period \/ CloudReturns
  <2>1. UNCHANGED <<config, confirmed, written, files, net, field>> /\ UNCHANGED down
    BY <1>3 DEF Period, CloudReturns, memory, links
  <2>2. \A n : Pending(n) => Pending(n)'
    BY <2>1 DEF Pending
  <2> QED BY <2>1, <2>2, Untouched DEF files, field
<1>4. CASE Restarts
  BY <1>4, SwitchRestarts
<1>5. CASE Disconnects
  <2>1. /\ UNCHANGED <<memory, files, net, shown, register, doubtful>>
        /\ unanswered' = unanswered \union Interrupted
    BY <1>5 DEF Disconnects
  <2>2. \A n \in WriteOnly : Pending(n) => n \in unanswered'
    BY <1>t, <1>n, <2>1, InterruptedIs
  <2> QED BY <1>k, <2>1, <2>2
<1>6. ASSUME NEW m \in Message, Deliver(m) \/ UNCHANGED down
      PROVE  \A n : Pending(n) => Pending(n)'
  <2>1. CASE down' = Append(down, m)
    BY <1>t, <2>1, AppendPending
  <2>2. CASE UNCHANGED down
    BY <2>2 DEF Pending
  <2> QED BY <1>6, <2>1, <2>2 DEF Deliver
<1>7. ASSUME NEW n \in Names, NEW v \in Values, UserWrites(n, v)
      PROVE  SwitchInv'
  <2>1. /\ UNCHANGED <<memory, files, net, register, doubtful>>
        /\ shown' = [shown EXCEPT ![n] = v] /\ unanswered' = unanswered \union {n}
        /\ Deliver(WriteMessage(n, v)) \/ UNCHANGED down
    BY <1>7 DEF UserWrites
  <2>2. WriteMessage(n, v) \in Message
    BY DEF Message
  <2>3. \A x : Pending(x) => Pending(x)'
    BY <1>6, <2>1, <2>2
  <2>4. \A x \in WriteOnly : x # n => shown'[x] = shown[x]
    BY <1>t, <1>n, <2>1
  <2> QED BY <1>k, <2>1, <2>3, <2>4
<1>8. ASSUME NEW payload \in Configs \union {Invalid}, WidgetSaves(payload)
      PROVE  SwitchInv'
  <2>1. UNCHANGED <<memory, files, net, field>> /\ Deliver(ConfigMessage(payload))
    BY <1>8 DEF WidgetSaves
  <2>2. ConfigMessage(payload) \in Message
    BY DEF Message
  <2>3. \A x : Pending(x) => Pending(x)'
    BY <1>6, <2>1, <2>2
  <2> QED BY <1>k, <2>1, <2>3 DEF field
<1>9. ASSUME NEW p \in Ports, WidgetScans(p)
      PROVE  SwitchInv'
  <2>1. UNCHANGED <<memory, files, net, field>> /\ Deliver(ScanMessage(p))
    BY <1>9 DEF WidgetScans
  <2>2. ScanMessage(p) \in Message
    BY DEF Message
  <2>3. \A x : Pending(x) => Pending(x)'
    BY <1>6, <2>1, <2>2
  <2> QED BY <1>k, <2>1, <2>3 DEF field
<1>10. ASSUME NEW r \in Registers, DeviceChanges(r)
       PROVE  SwitchInv'
  <2>1. /\ UNCHANGED <<memory, files, net, links, shown, unanswered>>
        /\ doubtful' = doubtful \union {r}
        /\ \E v : register' = [register EXCEPT ![r] = v]
    BY <1>10 DEF DeviceChanges
  <2>2. UNCHANGED down
    BY <2>1 DEF links
  <2>3. \A x : Pending(x) => Pending(x)'
    BY <2>2 DEF Pending
  <2>4. \A s : s \notin doubtful' => register'[s] = register[s]
    BY <1>t, <2>1
  <2> QED BY <1>k, <2>1, <2>3, <2>4
<1> QED BY <1>1, <1>2, <1>3, <1>4, <1>5, <1>7, <1>8, <1>9, <1>10, <1>11 DEF World

LEMMA SwitchNext == Base /\ SwitchInv /\ [Next]_vars => SwitchInv'
<1> SUFFICES ASSUME Base, SwitchInv, [Next]_vars
             PROVE  SwitchInv'
  OBVIOUS
<1>1. CASE ApplyConfig \/ ConfigureBuses \/ SaveState \/ SaveRuntime
  BY <1>1, SwitchConfigures
<1>2. CASE TakeRequest
  BY <1>2, SwitchTakes
<1>3. CASE WriteRegister
  BY <1>3, SwitchWrites
<1>4. CASE Echo
  BY <1>4, SwitchEchoes
<1>5. CASE Record
  BY <1>5, SwitchRecords
<1>6. CASE WriteFailed
  BY <1>6, SwitchFails
<1>7. CASE SnapBack
  BY <1>7, SwitchSnapsBack
<1>8. ASSUME NEW p \in Ports, Poll(p)
      PROVE  SwitchInv'
  BY <1>8, SwitchPoll
<1>9. CASE World \/ OnConnected \/ EnqueueProbe \/ Period
  BY <1>9, SwitchWorld
<1>10. CASE UNCHANGED vars
  <2>1. UNCHANGED <<config, confirmed, written, files, net, field>> /\ UNCHANGED down
    BY <1>10 DEF vars, memory, links
  <2>2. \A n : Pending(n) => Pending(n)'
    BY <2>1 DEF Pending
  <2> QED BY <2>1, <2>2, Untouched DEF files, field
<1> QED BY <1>1, <1>2, <1>3, <1>4, <1>5, <1>6, <1>7, <1>8, <1>9, <1>10 DEF Next, Net

LEMMA SwitchInit == Init => SwitchInv
<1> SUFFICES ASSUME Init
             PROVE  SwitchInv
  OBVIOUS
<1>1. /\ config = Empty /\ stateFile = Empty /\ runtimeFile = NoDoc /\ net = NetIdle
      /\ confirmed = Nothing /\ written = Nothing
  BY DEF Init
<1>2. runtimeFile.confirmed = Nothing /\ DOMAIN Nothing = {}
  BY <1>1, NothingKnown DEF NoDoc
<1>4. net.at = "idle" /\ \A S : ~At(S)
  BY <1>1, NetFields DEF At
<1> QED BY <1>1, <1>2, <1>4
        DEF SwitchInv, FilesAgree, HandTrue, KnownWritten, KnownTrue, FileTrue

(* A switch tells the truth, whatever the gateway, its buses, its files    *)
(* and its links go through: what is known of a point nobody polls is what *)
(* was written of it, and that is at every moment what its register holds  *)
(* and the dashboard shows, or it is on its way there.                     *)
THEOREM SwitchTrue == Spec => []SwitchIsTrue
<1>1. Base /\ SwitchInv => SwitchIsTrue
  <2> SUFFICES ASSUME SwitchInv, net = NetIdle, NEW n \in Wanted(config) \intersect WriteOnly,
                      n \in DOMAIN confirmed, n \notin unanswered, ~Pending(n)
               PROVE  /\ shown[n] = confirmed[n].value
                      /\ confirmed[n].register \notin doubtful =>
                             register[confirmed[n].register] = confirmed[n].value
    BY DEF SwitchIsTrue
  <2>1. \A S : ~At(S)
    BY NetFields DEF At
  <2>2. n \in DOMAIN written /\ confirmed[n] = written[n]
    BY DEF SwitchInv, KnownWritten
  <2> QED BY <2>1, <2>2 DEF SwitchInv, KnownTrue
<1> QED BY <1>1, StaysBase, SwitchInit, SwitchNext, PTL DEF Spec

(***************************************************************************)
(* The configuration somebody saved is the one that runs.                  *)
(***************************************************************************)
\* The last configuration on its way to the gateway, and that there is none.
LastConfig(i) ==
    /\ i \in DOMAIN down /\ down[i].kind = "config"
    /\ \A j \in DOMAIN down : down[j].kind = "config" => j <= i

NoneComing == \A i \in DOMAIN down : down[i].kind # "config"

\* While a gateway stays connected, and the links have not lost it, the configuration
\* of the cloud is on its way to it, behind any older one, or is the one that runs.
ConfigTold ==
    connected /\ ~lost =>
        /\ \A i \in DOMAIN down : LastConfig(i) => down[i].payload = cloud
        /\ NoneComing /\ cloud \in Configs => config = cloud

\* At rest the gateway runs what the cloud has, unless the links have lost it, and
\* has it on disk, unless the disk refused it; a configuration that is rejected
\* leaves the one before it.
ConfigCurrent ==
    net = NetIdle =>
        /\ connected /\ NoneComing /\ ~lost /\ cloud \in Configs => config = cloud
        /\ "state" \notin unsaved => stateFile = config

LEMMA Messages ==
  /\ \A c : ConfigMessage(c).kind = "config" /\ ConfigMessage(c).payload = c
  /\ \A n, v : WriteMessage(n, v).kind # "config"
  /\ \A p : ScanMessage(p).kind # "config"
  /\ \A m \in Message : m.kind = "config" => m.payload \in Configs \union {Invalid}
  BY DEF Message, ConfigMessage, WriteMessage, ScanMessage

\* The first message is handled: the last one of the others was the last one.
LEMMA TailLast ==
  ASSUME down \in Seq(Message), down # << >>, down' = Tail(down)
  PROVE  /\ \A i \in DOMAIN down' :
                LastConfig(i)' => i + 1 \in DOMAIN down /\ LastConfig(i + 1) /\ down'[i] = down[i + 1]
         /\ NoneComing' => NoneComing \/ LastConfig(1)
<1>1. /\ DOMAIN down = 1..Len(down) /\ Len(down) \in Nat \ {0}
      /\ DOMAIN down' = 1..(Len(down) - 1)
      /\ \A i \in 1..(Len(down) - 1) : down'[i] = down[i + 1]
  OBVIOUS
<1>2. \A j \in DOMAIN down : j = 1 \/ (j - 1 \in DOMAIN down' /\ down'[j - 1] = down[j])
  BY <1>1
<1>3. ASSUME NEW i \in DOMAIN down', LastConfig(i)'
      PROVE  i + 1 \in DOMAIN down /\ LastConfig(i + 1) /\ down'[i] = down[i + 1]
  <2>1. i + 1 \in DOMAIN down /\ down'[i] = down[i + 1] /\ i \in Nat /\ i >= 1
    BY <1>1, <1>3
  <2>2. ASSUME NEW j \in DOMAIN down, down[j].kind = "config"
        PROVE  j <= i + 1
    <3>1. CASE j = 1
      BY <2>1, <3>1
    <3>2. CASE j # 1
      <4>1. j - 1 \in DOMAIN down' /\ down'[j - 1].kind = "config"
        BY <1>2, <2>2, <3>2
      <4>2. j - 1 <= i
        BY <1>3, <4>1 DEF LastConfig
      <4> QED BY <1>1, <2>1, <4>2
    <3> QED BY <3>1, <3>2
  <2> QED BY <1>3, <2>1, <2>2 DEF LastConfig
<1>4. ASSUME NoneComing', ~NoneComing
      PROVE  LastConfig(1)
  <2>1. \A j \in DOMAIN down : j # 1 => down[j].kind # "config"
    BY <1>2, <1>4 DEF NoneComing
  <2> QED BY <1>1, <1>4, <2>1 DEF NoneComing, LastConfig
<1> QED BY <1>3, <1>4

\* A message is sent: the last one of all, if it is a configuration.
LEMMA AppendLast ==
  ASSUME down \in Seq(Message), NEW m \in Message, down' = Append(down, m)
  PROVE  /\ m.kind = "config" =>
                ~NoneComing' /\ \A i \in DOMAIN down' : LastConfig(i)' => down'[i] = m
         /\ m.kind # "config" =>
                /\ NoneComing' => NoneComing
                /\ \A i \in DOMAIN down' :
                       LastConfig(i)' => i \in DOMAIN down /\ LastConfig(i) /\ down'[i] = down[i]
<1>1. /\ DOMAIN down = 1..Len(down) /\ Len(down) \in Nat
      /\ DOMAIN down' = 1..(Len(down) + 1)
      /\ down'[Len(down) + 1] = m
      /\ \A i \in 1..Len(down) : down'[i] = down[i]
  OBVIOUS
<1>2. ASSUME m.kind = "config"
      PROVE  ~NoneComing' /\ \A i \in DOMAIN down' : LastConfig(i)' => down'[i] = m
  <2>1. Len(down) + 1 \in DOMAIN down' /\ down'[Len(down) + 1].kind = "config"
    BY <1>1, <1>2
  <2>2. ASSUME NEW i \in DOMAIN down', LastConfig(i)'
        PROVE  down'[i] = m
    <3>1. Len(down) + 1 <= i
      BY <2>1, <2>2 DEF LastConfig
    <3> QED BY <1>1, <3>1
  <2> QED BY <2>1, <2>2 DEF NoneComing
<1>3. ASSUME m.kind # "config"
      PROVE  /\ NoneComing' => NoneComing
             /\ \A i \in DOMAIN down' :
                    LastConfig(i)' => i \in DOMAIN down /\ LastConfig(i) /\ down'[i] = down[i]
  <2>1. \A j \in DOMAIN down : j \in DOMAIN down' /\ down'[j] = down[j]
    BY <1>1
  <2>2. ASSUME NEW i \in DOMAIN down', LastConfig(i)'
        PROVE  i \in DOMAIN down /\ LastConfig(i) /\ down'[i] = down[i]
    <3>1. down'[i].kind = "config"
      BY <2>2 DEF LastConfig
    <3>2. i \in DOMAIN down /\ down'[i] = down[i]
      BY <1>1, <1>3, <3>1
    <3> QED BY <2>1, <2>2, <3>2 DEF LastConfig
  <2> QED BY <2>1, <2>2 DEF NoneComing
<1> QED BY <1>2, <1>3

LEMMA ToldNext == Base /\ ConfigTold /\ [Next]_vars => ConfigTold'
<1> SUFFICES ASSUME Base, ConfigTold, [Next]_vars, connected', ~lost'
             PROVE  /\ \A i \in DOMAIN down' : LastConfig(i)' => down'[i].payload = cloud'
                    /\ NoneComing' /\ cloud' \in Configs => config' = cloud'
  BY DEF ConfigTold
<1>t. down \in Seq(Message) /\ cloud \in Configs \union {Invalid}
  BY DEF Base, TypeOK
<1>1. ASSUME UNCHANGED <<connected, down, cloud, lost, config>>
      PROVE  ConfigTold'
  BY <1>1 DEF ConfigTold, LastConfig, NoneComing
<1>2. CASE OnConnected
  <2>0. online
    BY <1>2, Zenon DEF OnConnected
  <2>1. down' = <<ConfigMessage(cloud)>> /\ UNCHANGED cloud
    BY <1>2, <2>0 DEF OnConnected
  <2>2. DOMAIN down' = {1} /\ down'[1] = ConfigMessage(cloud)
    BY <2>1
  <2> QED BY <2>1, <2>2, Messages DEF NoneComing
<1>3. CASE ApplyConfig
  <2>1. /\ connected /\ down # << >> /\ Head(down).kind = "config" /\ down' = Tail(down)
        /\ UNCHANGED <<cloud, lost>>
    BY <1>3, Zenon DEF ApplyConfig, Receives
  <2>2. ASSUME NEW i \in DOMAIN down', LastConfig(i)'
        PROVE  down'[i].payload = cloud'
    BY <1>t, <2>1, <2>2, TailLast DEF ConfigTold
  <2>3. ASSUME NoneComing', cloud \in Configs
        PROVE  config' = cloud
    <3>1. 1 \in DOMAIN down /\ Head(down) = down[1]
      BY <1>t, <2>1
    <3>2. LastConfig(1)
      <4>1. ~NoneComing
        BY <2>1, <3>1 DEF NoneComing
      <4> QED BY <1>t, <2>1, <2>3, <4>1, TailLast
    <3>3. Head(down).payload = cloud
      BY <2>1, <3>1, <3>2 DEF ConfigTold
    <3> QED BY <1>3, <2>3, <3>3, GatewayAssumption DEF ApplyConfig
  <2> QED BY <2>1, <2>2, <2>3
<1>4. CASE TakeRequest \/ EnqueueProbe
  <2>1. /\ connected /\ down # << >> /\ Head(down).kind # "config" /\ down' = Tail(down)
        /\ UNCHANGED <<cloud, lost, config>>
    BY <1>4, Zenon DEF TakeRequest, EnqueueProbe, Receives, memory
  <2>2. ASSUME NEW i \in DOMAIN down', LastConfig(i)'
        PROVE  down'[i].payload = cloud'
    BY <1>t, <2>1, <2>2, TailLast DEF ConfigTold
  <2>3. ~LastConfig(1)
    BY <1>t, <2>1 DEF LastConfig
  <2>4. NoneComing' => NoneComing
    BY <1>t, <2>1, <2>3, TailLast
  <2> QED BY <2>1, <2>2, <2>4 DEF ConfigTold
<1>5. CASE ConfigureBuses \/ SaveState \/ SaveRuntime \/ WriteRegister \/ Echo \/ Record
           \/ WriteFailed \/ SnapBack \/ Period \/ UNCHANGED vars
  <2>1. UNCHANGED <<connected, down, cloud, lost, config>>
    BY <1>5, Zenon DEF ConfigureBuses, SaveState, SaveRuntime, WriteRegister, Echo, Record,
           WriteFailed, SnapBack, Period, links, memory, vars
  <2> QED BY <1>1, <2>1 DEF ConfigTold
<1>6. ASSUME NEW p \in Ports, Poll(p)
      PROVE  ConfigTold'
  <2>1. UNCHANGED <<connected, down, cloud, lost, config>>
    BY <1>6, Zenon DEF Poll, StartScan, EndScan, StartPass, PollRead, PollConfirm, PollPublish,
           EndPass, links, memory
  <2> QED BY <1>1, <2>1
<1>7. CASE Restarts \/ Disconnects
  <2>1. connected' = FALSE
    BY <1>7, Zenon DEF Restarts, Disconnects
  <2> QED BY <2>1
<1>8. CASE CloudReturns
  <2>1. UNCHANGED <<connected, down, cloud, lost, config>>
    BY <1>8, Zenon DEF CloudReturns, memory
  <2> QED BY <1>1, <2>1 DEF ConfigTold
<1>15. CASE CloudDrops \/ RelayMisses
  <2>1. UNCHANGED <<connected, cloud, config>> /\ Cut
    BY <1>15, Zenon DEF CloudDrops, RelayMisses, memory
  <2>2. /\ \A i \in DOMAIN down' : i \in DOMAIN down /\ down'[i] = down[i]
        /\ ~lost /\ \A i \in DOMAIN down : down[i].kind = "config" => i \in DOMAIN down'
    BY <1>t, <2>1, CutIs
  <2>3. ASSUME NEW i \in DOMAIN down', LastConfig(i)'
        PROVE  LastConfig(i)
    BY <2>2, <2>3 DEF LastConfig
  <2>4. NoneComing' => NoneComing
    BY <2>2 DEF NoneComing
  <2>5. connected
    BY <2>1
  <2> QED BY <2>1, <2>2, <2>3, <2>4, <2>5 DEF ConfigTold
<1>9. ASSUME NEW m \in Message, m.kind # "config", UNCHANGED <<connected, cloud, lost, config>>,
             UNCHANGED down \/ down' = Append(down, m)
      PROVE  ConfigTold'
  <2>1. CASE UNCHANGED down
    BY <1>1, <1>9, <2>1
  <2>2. CASE down' = Append(down, m)
    <3>1. ASSUME NEW i \in DOMAIN down', LastConfig(i)'
          PROVE  down'[i].payload = cloud'
      BY <1>t, <1>9, <2>2, <3>1, AppendLast DEF ConfigTold
    <3>2. NoneComing' => NoneComing
      BY <1>t, <1>9, <2>2, AppendLast
    <3> QED BY <1>9, <3>1, <3>2 DEF ConfigTold
  <2> QED BY <1>9, <2>1, <2>2
<1>10. ASSUME NEW n \in Names, NEW v \in Values, UserWrites(n, v)
       PROVE  ConfigTold'
  <2>1. WriteMessage(n, v) \in Message /\ WriteMessage(n, v).kind # "config"
    BY Messages DEF Message
  <2>2. UNCHANGED <<connected, cloud, lost, config>>
    BY <1>10, Zenon DEF UserWrites, memory
  <2>3. UNCHANGED down \/ down' = Append(down, WriteMessage(n, v))
    BY <1>10 DEF UserWrites, Deliver
  <2> QED BY <1>9, <2>1, <2>2, <2>3
<1>11. ASSUME NEW payload \in Configs \union {Invalid}, WidgetSaves(payload)
       PROVE  ConfigTold'
  <2>1. ConfigMessage(payload) \in Message
    BY DEF Message
  <2>2. /\ UNCHANGED <<connected, config>> /\ cloud' = payload
        /\ down' = Append(down, ConfigMessage(payload))
    <3>1. UNCHANGED <<connected, config>> /\ connected' = connected
      BY <1>11, Zenon DEF WidgetSaves, memory
    <3>2. lost' = (connected /\ ~online)
      BY <1>11, Zenon DEF WidgetSaves
    <3>3. connected /\ online
      <4>1. connected
        BY <3>1
      <4>2. ~(connected /\ ~online)
        BY <3>2
      <4> QED BY <4>1, <4>2, Zenon
    <3>4. cloud' = payload /\ Deliver(ConfigMessage(payload))
      BY <1>11, Zenon DEF WidgetSaves
    <3> QED BY <3>1, <3>3, <3>4 DEF Deliver
  <2>3. ~NoneComing' /\ \A i \in DOMAIN down' : LastConfig(i)' => down'[i] = ConfigMessage(payload)
    BY <1>t, <2>1, <2>2, AppendLast, Messages
  <2> QED BY <2>2, <2>3, Messages DEF ConfigTold
<1>12. ASSUME NEW p \in Ports, WidgetScans(p)
       PROVE  ConfigTold'
  <2>1. ScanMessage(p) \in Message /\ ScanMessage(p).kind # "config"
    BY Messages DEF Message
  <2>2. UNCHANGED <<connected, cloud, lost, config>>
    BY <1>12, Zenon DEF WidgetScans, memory
  <2>3. UNCHANGED down \/ down' = Append(down, ScanMessage(p))
    BY <1>12 DEF WidgetScans, Deliver
  <2> QED BY <1>9, <2>1, <2>2, <2>3
<1>13. ASSUME NEW r \in Registers, DeviceChanges(r)
       PROVE  ConfigTold'
  <2>1. UNCHANGED <<connected, down, cloud, lost, config>>
    BY <1>13 DEF DeviceChanges, links, memory
  <2> QED BY <1>1, <2>1
<1>14. ConfigTold' =>
           /\ \A i \in DOMAIN down' : LastConfig(i)' => down'[i].payload = cloud'
           /\ NoneComing' /\ cloud' \in Configs => config' = cloud'
  BY DEF ConfigTold
<1> QED BY <1>2, <1>3, <1>4, <1>5, <1>6, <1>7, <1>8, <1>10, <1>11, <1>12, <1>13, <1>14,
           <1>15
        DEF Next, Net, World

(* The safety half of ConfigConverges: a gateway that is connected, at     *)
(* rest and expects no configuration runs the one the cloud has, whatever  *)
(* was saved while it was away, whichever order messages, edits, outages   *)
(* and restarts came in and wherever in apply_config it died, unless the   *)
(* bridge or the agent's relay lost the last word on it; and what it runs  *)
(* is on disk, unless the disk refused it.                                 *)
THEOREM RunsWhatWasSaved == Spec => []ConfigCurrent
<1>1. Init => ConfigTold
  BY DEF Init, ConfigTold
<1>2. SwitchInv /\ ConfigTold => ConfigCurrent
  <2> SUFFICES ASSUME FilesAgree, ConfigTold, net = NetIdle
               PROVE  /\ connected /\ NoneComing /\ ~lost /\ cloud \in Configs => config = cloud
                      /\ "state" \notin unsaved => stateFile = config
    BY DEF ConfigCurrent, SwitchInv
  <2>1. net.at = "idle"
    BY DEF NetIdle
  <2> QED BY <2>1 DEF FilesAgree, ConfigTold
<1> QED BY <1>1, <1>2, ToldNext, StaysBase, SwitchInit, SwitchNext, PTL DEF Spec
==============================================================================
