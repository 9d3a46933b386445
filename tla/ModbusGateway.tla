---------------------------- MODULE ModbusGateway ----------------------------
(***************************************************************************)
(* The Modbus gateway (examples/modbus-gateway, gateway.py Gateway): its   *)
(* running configuration, the values of its points, the two files it keeps *)
(* of them, its subscriptions and the settings of its buses.  Its events   *)
(* are in ModbusAlerts.                                                    *)
(*                                                                         *)
(* Net is paho's network thread: it applies configurations, writes points  *)
(* and takes requests for a scan.  Each port has a thread that polls its   *)
(* points and scans.  The state is guarded by a lock that nobody holds     *)
(* while talking to a bus, to a file or to MQTT; a bus has a lock of its   *)
(* own, held for one transaction.  An action is what a thread does under   *)
(* one of these locks, or one call that needs none.                        *)
(*                                                                         *)
(* A value is kept with the register it was read from or written to; the   *)
(* code keeps the value alone.                                             *)
(***************************************************************************)
EXTENDS Naturals, Sequences, SequencesExt

CONSTANTS
    Names,     \* datastreams that may be targets of a point
    Registers, \* registers of the devices on the buses
    Values,    \* what a register may hold
    Ports,     \* the gateway's RS485 ports
    Settings,  \* settings of a bus
    Fast,      \* the settings of a bus during a scan
    Configs,   \* configurations parse_config accepts, each with a rev of its own
    Empty,     \* EMPTY_CONFIG
    Invalid,   \* a ModbusConfig that is rejected
    None,
    Factory,   \* bound: what every register holds and the dashboard shows at first
    MaxQueue,  \* bound: messages on their way to the gateway
    MaxEvents  \* bound: requests, edits, failures, disconnections and crashes

Point == [port : Ports, register : Registers, mode : {"r", "w", "rw"}]

Writes(point) == point.mode # "r"
Reads(point) == point.mode # "w"

ASSUME GatewayAssumption ==
    /\ Empty \in Configs /\ Invalid \notin Configs
    /\ \A c \in Configs :
           /\ c.settings \in [Ports -> Settings]
           /\ DOMAIN c.points \subseteq Names
           /\ \A n \in DOMAIN c.points : c.points[n] \in Point
    /\ DOMAIN Empty.points = {}
    /\ \A c, d \in Configs : c.rev = d.rev => c = d
    /\ Fast \notin Settings /\ Factory \in Values
    /\ MaxQueue \in Nat /\ MaxEvents \in Nat

VARIABLES
    config,     \* the running configuration
    confirmed,  \* _confirmed: what a point is known to hold, by name
    written,    \* _written: the part of it that a write confirmed
    due,        \* _next_due: the points whose time has come
    probe,      \* _probe: the port of a pending scan
    probing,    \* _probe_running
    subscribed, \* _subscribed: the names whose downlinks are subscribed to
    net,        \* what Net is doing
    poll,       \* what each port's thread is doing
    buses,      \* the settings of each bus
    stateFile,  \* modbus_config.json
    runtimeFile,\* runtime_state.json
    unsaved,    \* which of the two the disk refused to replace, last time
    connected,  \* is the gateway connected to the local mosquitto
    granted,    \* the subscriptions mosquitto knows of
    online,     \* is mosquitto connected to Blynk Cloud
    down,       \* messages on their way to the gateway
    cloud,      \* the datastream ModbusConfig
    lost,       \* did the latest of it get lost on its way to the gateway
    shown,      \* the datastreams of the points, on the dashboard
    register,   \* what the devices' registers hold
    unanswered, \* points whose last request had no answer, or one since forgotten
    doubtful,   \* registers changed without the gateway keeping what they hold
    events

memory == <<config, confirmed, written, due, subscribed>>
files == <<stateFile, runtimeFile, unsaved>>
links == <<connected, granted, online, down, cloud, lost>>
field == <<shown, register, unanswered, doubtful>>
vars == <<memory, probe, probing, net, poll, buses, files, links, field, events>>

Held == [register : Registers, value : Values]

\* The maps from points to what they are known to hold.
Known == UNION { [D -> Held] : D \in SUBSET Names }
Nothing == [n \in {} |-> None]

With(known, n, held) == [m \in DOMAIN known \union {n} |-> IF m = n THEN held ELSE known[m]]
Only(known, D) == [n \in DOMAIN known \intersect D |-> known[n]]

Readable(c) == { n \in DOMAIN c.points : Reads(c.points[n]) }

\* A slip: points that are only written are scheduled as well.
ScheduledAll(c) == DOMAIN c.points

\* _reset_schedule: every point that reads is due at once.
Scheduled(c) == Readable(c)

\* What _sync_subscriptions wants, besides ModbusConfig and ModbusProbe.
Wanted(c) == { n \in DOMAIN c.points : Writes(c.points[n]) }

ConfigMessage(payload) == [kind |-> "config", payload |-> payload]
WriteMessage(n, v) == [kind |-> "write", name |-> n, value |-> v]
ScanMessage(p) == [kind |-> "scan", port |-> p]

Message ==
    { ConfigMessage(c) : c \in Configs \union {Invalid} }
      \union { WriteMessage(n, v) : n \in Names, v \in Values }
      \union { ScanMessage(p) : p \in Ports }

\* Threads at rest.
NetIdle == [at |-> "idle"]
PollIdle == [at |-> "idle", queue |-> {}]

RuntimeDoc == [rev |-> config.rev, confirmed |-> written]
NoDoc == [rev |-> None, confirmed |-> Nothing]

TypeOK ==
    /\ config \in Configs
    /\ confirmed \in Known /\ written \in Known
    /\ due \subseteq Readable(config)
    /\ probe \in Ports \union {None} /\ probing \in BOOLEAN
    /\ subscribed \subseteq Names /\ granted \subseteq Names
    /\ net.at \in {"idle", "configure", "saveState", "saveRuntime",
                   "write", "echo", "record", "failed", "restore"}
    /\ \A p \in Ports : poll[p].at \in {"idle", "start", "pass", "confirm", "publish", "scan"}
    /\ buses \in [Ports -> Settings \union {Fast}]
    /\ stateFile \in Configs
    /\ runtimeFile = NoDoc \/ runtimeFile.confirmed \in Known
    /\ unsaved \subseteq {"state", "runtime"}
    /\ connected \in BOOLEAN /\ online \in BOOLEAN /\ lost \in BOOLEAN
    /\ down \in Seq(Message)
    /\ cloud \in Configs \union {Invalid}
    /\ shown \in [Names -> Values]
    /\ register \in [Registers -> Values]
    /\ unanswered \subseteq Names /\ doubtful \subseteq Registers
    /\ events \in 0..MaxEvents

Init ==
    /\ config = Empty
    /\ confirmed = Nothing /\ written = Nothing
    /\ due = {}
    /\ probe = None /\ probing = FALSE
    /\ subscribed = {} /\ granted = {}
    /\ net = NetIdle
    /\ poll = [p \in Ports |-> PollIdle]
    /\ buses = Empty.settings
    /\ stateFile = Empty /\ runtimeFile = NoDoc /\ unsaved = {}
    /\ connected = FALSE /\ online = TRUE
    /\ down = << >> /\ lost = FALSE
    /\ cloud \in Configs
    /\ shown = [n \in Names |-> Factory]
    /\ register = [r \in Registers |-> Factory]
    /\ unanswered = {} /\ doubtful = Registers
    /\ events = 0

Happens == events < MaxEvents /\ events' = events + 1

\* A device answers at the settings the running configuration gives its port.
Answers(p) == buses[p] \in {Fast, config.settings[p]}

\* Something fails: at other settings it always does.
Fails(p) == IF Answers(p) THEN Happens ELSE UNCHANGED events

\* A datastream published by the gateway reaches the dashboard if the way is open.
Publish(n, v) ==
    shown' = IF connected /\ online THEN [shown EXCEPT ![n] = v] ELSE shown

\* A downlink comes over the bridge to the agent, which publishes it again under a
\* topic the gateway may read.
Deliver(message) ==
    down' = IF connected /\ online THEN Append(down, message) ELSE down

\* The way is cut: what has not passed the agent yet is lost.
Cut ==
    \E k \in 0..Len(down) :
        LET beyond == { down[i] : i \in (k + 1)..Len(down) }
        IN  /\ down' = SubSeq(down, 1, k)
            /\ lost' = (lost \/ \E m \in beyond : m.kind = "config")
            /\ unanswered' = unanswered
                               \union { n \in Names : \E m \in beyond : m.kind = "write" /\ m.name = n }

(***************************************************************************)
(* Net: on_connected and handle_message.                                   *)
(***************************************************************************)
\* A slip: what was subscribed to before the reconnection is believed to hold.
OnConnectedUnreset ==
    /\ net = NetIdle /\ ~connected
    /\ connected' = TRUE
    /\ granted' = Wanted(config) \ subscribed
    /\ subscribed' = Wanted(config)
    /\ down' = IF online THEN <<ConfigMessage(cloud)>> ELSE << >>
    /\ lost' = ~online
    /\ UNCHANGED <<config, confirmed, written, due, probe, probing, net, poll, buses, files,
                   online, cloud, field, events>>

\* A slip: subscribing again without asking for the configuration again.
OnConnectedUnasked ==
    /\ net = NetIdle /\ ~connected
    /\ connected' = TRUE
    /\ subscribed' = Wanted(config) /\ granted' = subscribed'
    /\ down' = << >>
    /\ lost' = ~online
    /\ UNCHANGED <<config, confirmed, written, due, probe, probing, net, poll, buses, files,
                   online, cloud, field, events>>

\* Subscribe to everything again and ask for the configuration with get/ds; neither
\* the question nor its answer is repeated.
OnConnected ==
    /\ net = NetIdle /\ ~connected
    /\ connected' = TRUE
    /\ subscribed' = Wanted(config) /\ granted' = subscribed'
    /\ down' = IF online THEN <<ConfigMessage(cloud)>> ELSE << >>
    /\ lost' = ~online
    /\ UNCHANGED <<config, confirmed, written, due, probe, probing, net, poll, buses, files,
                   online, cloud, field, events>>

Receives(kind) ==
    /\ net = NetIdle /\ connected
    /\ down # << >> /\ Head(down).kind = kind
    /\ down' = Tail(down)

(***************************************************************************)
(* apply_config.  A rejected or unchanged configuration changes nothing; a *)
(* new one replaces the running one, and what is known of a point is kept  *)
(* only if its definition is the same.  The buses, the subscriptions and   *)
(* the two files follow, one after the other.                              *)
(***************************************************************************)
Kept(c) ==
    { n \in DOMAIN c.points \intersect DOMAIN config.points : c.points[n] = config.points[n] }

ApplyConfig ==
    /\ Receives("config")
    /\ LET c == Head(down).payload
       IN  IF c = Invalid \/ c = config
           THEN UNCHANGED <<config, confirmed, written, due, net>>
           ELSE /\ config' = c
                /\ confirmed' = Only(confirmed, Kept(c))
                /\ written' = Only(written, Kept(c))
                /\ due' = Scheduled(c)
                /\ net' = [at |-> "configure"]
    /\ UNCHANGED <<subscribed, probe, probing, poll, buses, files, connected, granted, online,
                   cloud, lost, field, events>>

\* _configure_buses and _sync_subscriptions.
ConfigureBuses ==
    /\ net.at = "configure" /\ net' = [at |-> "saveState"]
    /\ buses' = config.settings
    /\ subscribed' = Wanted(config)
    /\ granted' = IF connected THEN Wanted(config) ELSE granted
    /\ UNCHANGED <<config, confirmed, written, due, probe, probing, poll, files, connected,
                   online, down, cloud, lost, field, events>>

\* Each file is replaced as a whole, or the disk refuses and it stays as it was.
\* The configuration is not saved again: sent again, it is the one that runs.
SaveState ==
    /\ net.at = "saveState" /\ net' = [at |-> "saveRuntime"]
    /\ \/ /\ stateFile' = config /\ unsaved' = unsaved \ {"state"}
          /\ UNCHANGED events
       \/ /\ Happens /\ unsaved' = unsaved \union {"state"}
          /\ UNCHANGED stateFile
    /\ UNCHANGED <<memory, probe, probing, poll, buses, runtimeFile, links, field>>

SavesRuntime == runtimeFile' = RuntimeDoc /\ unsaved' = unsaved \ {"runtime"}

SaveRuntime ==
    /\ net.at = "saveRuntime" /\ net' = NetIdle
    /\ \/ /\ SavesRuntime
          /\ UNCHANGED events
       \/ /\ Happens /\ unsaved' = unsaved \union {"runtime"}
          /\ UNCHANGED runtimeFile
    /\ UNCHANGED <<memory, probe, probing, poll, buses, stateFile, links, field>>

(***************************************************************************)
(* _write_point: the write, its echo, what is remembered of it.            *)
(***************************************************************************)
TakeRequest ==
    /\ Receives("write")
    /\ net' = IF Head(down).name \in Wanted(config)
              THEN [at |-> "write", name |-> Head(down).name, value |-> Head(down).value]
              ELSE NetIdle
    /\ unanswered' = unanswered \union {Head(down).name}
    /\ UNCHANGED <<memory, probe, probing, poll, buses, files, connected, granted, online,
                   cloud, lost, shown, register, doubtful, events>>

Goes(to) == net' = [net EXCEPT !.at = to]

Target == config.points[net.name].register
Line == config.points[net.name].port

\* A request the codec refuses, or the device, or whose answer gets lost: then
\* the register may have changed all the same.
WriteRegister ==
    /\ net.at = "write"
    /\ \/ /\ Answers(Line) /\ Goes("echo")
          /\ register' = [register EXCEPT ![Target] = net.value]
          /\ doubtful' = doubtful \ {Target}
          /\ UNCHANGED events
       \/ /\ Fails(Line) /\ Goes("failed")
          /\ UNCHANGED <<register, doubtful>>
       \/ /\ Answers(Line) /\ Happens /\ Goes("failed")
          /\ register' = [register EXCEPT ![Target] = net.value]
          /\ doubtful' = doubtful \union {Target}
    /\ UNCHANGED <<memory, probe, probing, poll, buses, files, links, shown, unanswered>>

Answered(n) == unanswered' = IF connected /\ online THEN unanswered \ {n} ELSE unanswered

Echo ==
    /\ net.at = "echo" /\ Goes("record")
    /\ Publish(net.name, net.value)
    /\ Answered(net.name)
    /\ UNCHANGED <<memory, probe, probing, poll, buses, files, links, register, doubtful, events>>

\* A slip: only what is saved is kept up to date.
RecordWritten ==
    /\ net.at = "record" /\ Goes("saveRuntime")
    /\ written' = With(written, net.name, [register |-> Target, value |-> net.value])
    /\ UNCHANGED <<config, confirmed, due, subscribed, probe, probing, poll, buses, files, links,
                   field, events>>

Record ==
    /\ net.at = "record" /\ Goes("saveRuntime")
    /\ LET held == [register |-> Target, value |-> net.value]
       IN  /\ confirmed' = With(confirmed, net.name, held)
           /\ written' = With(written, net.name, held)
    /\ UNCHANGED <<config, due, subscribed, probe, probing, poll, buses, files, links, field, events>>

\* _write_failed: what is known is read under the lock and published after it.
WriteFailed ==
    /\ net.at = "failed"
    /\ net' = IF net.name \in DOMAIN confirmed /\ connected
              THEN [at |-> "restore", name |-> net.name, value |-> confirmed[net.name].value]
              ELSE NetIdle
    /\ UNCHANGED <<memory, probe, probing, poll, buses, files, links, field, events>>

SnapBack ==
    /\ net.at = "restore" /\ net' = NetIdle
    /\ Publish(net.name, net.value)
    /\ Answered(net.name)
    /\ UNCHANGED <<memory, probe, probing, poll, buses, files, links, register, doubtful, events>>

\* _enqueue_probe: one at a time, the next is told "busy".
EnqueueProbe ==
    /\ Receives("scan")
    /\ probe' = IF probe = None /\ ~probing THEN Head(down).port ELSE probe
    /\ UNCHANGED <<memory, probing, net, poll, buses, files, connected, granted, online, cloud,
                   lost, field, events>>

Net ==
    \/ OnConnected \/ ApplyConfig \/ ConfigureBuses \/ SaveState \/ SaveRuntime
    \/ TakeRequest \/ WriteRegister \/ Echo \/ Record \/ WriteFailed \/ SnapBack
    \/ EnqueueProbe

(***************************************************************************)
(* The thread of a port: run_once.                                         *)
(***************************************************************************)
\* _run_probe: before a pass or between two polls; a scan has settings of its own.
StartScan(p) ==
    /\ probe = p /\ poll[p].at \in {"idle", "pass"}
    /\ probe' = None /\ probing' = TRUE
    /\ poll' = [poll EXCEPT ![p] = [at |-> "scan", interrupted |-> poll[p],
                                    normal |-> config.settings[p]]]
    /\ buses' = [buses EXCEPT ![p] = Fast]
    /\ UNCHANGED <<memory, net, files, links, field, events>>

EndScan(p) ==
    /\ poll[p].at = "scan"
    /\ probing' = FALSE
    /\ buses' = [buses EXCEPT ![p] = poll[p].normal]
    /\ poll' = [poll EXCEPT ![p] = poll[p].interrupted]
    /\ UNCHANGED <<memory, probe, net, files, links, field, events>>

\* The points whose time has come, as the configuration of that moment has them.
StartPass(p) ==
    /\ poll[p].at = "idle" /\ probe # p
    /\ LET queue == { n \in due : config.points[n].port = p }
       IN  /\ queue # {}
           /\ due' = due \ queue
           /\ poll' = [poll EXCEPT ![p] = [at |-> "start", points |-> config.points, queue |-> queue]]
    /\ UNCHANGED <<config, confirmed, written, subscribed, probe, probing, net, buses, files,
                   links, field, events>>

\* _poll_point: a read, or none if it fails or makes no sense.
PollRead(p) ==
    /\ poll[p].at \in {"start", "pass"}
    /\ \E n \in poll[p].queue :
           \/ /\ Answers(p)
              /\ poll' = [poll EXCEPT ![p] =
                              [at |-> "confirm", points |-> poll[p].points, queue |-> poll[p].queue \ {n},
                               name |-> n, value |-> register[poll[p].points[n].register]]]
              /\ UNCHANGED events
           \/ /\ Fails(p)
              /\ poll' = [poll EXCEPT ![p] = [at |-> "pass", points |-> poll[p].points,
                                               queue |-> poll[p].queue \ {n}]]
    /\ UNCHANGED <<memory, probe, probing, net, buses, files, links, field>>

PollConfirm(p) ==
    /\ poll[p].at = "confirm"
    /\ poll' = [poll EXCEPT ![p].at = "publish"]
    /\ LET n == poll[p].name
           point == poll[p].points[n]
       IN  confirmed' = IF Writes(point)
                        THEN With(confirmed, n, [register |-> point.register, value |-> poll[p].value])
                        ELSE confirmed
    /\ UNCHANGED <<config, written, due, subscribed, probe, probing, net, buses, files, links,
                   field, events>>

\* A slip: a value that is already known is not published again.
PollPublishChanged(p) ==
    /\ poll[p].at = "publish"
    /\ poll' = [poll EXCEPT ![p] = [at |-> "pass", points |-> poll[p].points, queue |-> poll[p].queue]]
    /\ IF poll[p].name \in DOMAIN written /\ written[poll[p].name].value = poll[p].value
       THEN UNCHANGED shown
       ELSE Publish(poll[p].name, poll[p].value)
    /\ UNCHANGED <<memory, probe, probing, net, buses, files, links, register, unanswered,
                   doubtful, events>>

PollPublish(p) ==
    /\ poll[p].at = "publish"
    /\ poll' = [poll EXCEPT ![p] = [at |-> "pass", points |-> poll[p].points, queue |-> poll[p].queue]]
    /\ Publish(poll[p].name, poll[p].value)
    /\ UNCHANGED <<memory, probe, probing, net, buses, files, links, register, unanswered,
                   doubtful, events>>

\* The end of a pass: an event that was sent makes it save the runtime state.
EndPass(p) ==
    /\ poll[p].at = "pass" /\ poll[p].queue = {} /\ probe # p
    /\ poll' = [poll EXCEPT ![p] = PollIdle]
    /\ SavesRuntime \/ UNCHANGED <<runtimeFile, unsaved>>
    /\ UNCHANGED <<memory, probe, probing, net, buses, stateFile, links, field, events>>

Poll(p) ==
    \/ StartScan(p) \/ EndScan(p) \/ StartPass(p)
    \/ PollRead(p) \/ PollConfirm(p) \/ PollPublish(p) \/ EndPass(p)

\* Time passes: every readable point is due again.
Period ==
    /\ due # Readable(config)
    /\ due' = Readable(config)
    /\ UNCHANGED <<config, confirmed, written, subscribed, probe, probing, net, poll, buses,
                   files, links, field, events>>

(***************************************************************************)
(* The process and the world around it.                                    *)
(***************************************************************************)
\* Requests that will never be answered: those on their way, and Net's own.
Interrupted ==
    { n \in Names : \/ \E i \in DOMAIN down : down[i].kind = "write" /\ down[i].name = n
                    \/ "name" \in DOMAIN net /\ net.name = n }

\* The register of a write that is done but not saved: a restart forgets its value.
Unrecorded ==
    IF net.at \in {"echo", "record", "saveRuntime"} /\ "name" \in DOMAIN net THEN {Target} ELSE {}

\* A slip: the runtime state is restored whatever configuration it belongs to.
RestoredForAnyRev ==
    IF runtimeFile = NoDoc THEN Nothing
    ELSE Only(runtimeFile.confirmed, DOMAIN stateFile.points)

\* _load_runtime: only what was saved under the same rev.
Restored ==
    IF runtimeFile.rev = stateFile.rev
    THEN Only(runtimeFile.confirmed, DOMAIN stateFile.points)
    ELSE Nothing

\* Values a restart finds in a file the disk refused to replace.
Outdated ==
    IF "runtime" \in unsaved
    THEN { n \in DOMAIN Restored : n \notin DOMAIN written \/ Restored[n] # written[n] }
    ELSE {}

\* The process dies, by a crash or a power cut, and docker starts it again.
Restarts ==
    /\ Happens
    /\ config' = stateFile
    /\ written' = Restored /\ confirmed' = Restored
    /\ due' = Scheduled(stateFile)
    /\ subscribed' = {} /\ granted' = {}
    /\ probe' = None /\ probing' = FALSE
    /\ net' = NetIdle
    /\ poll' = [p \in Ports |-> PollIdle]
    /\ buses' = stateFile.settings
    /\ connected' = FALSE /\ down' = << >> /\ lost' = FALSE
    /\ unsaved' = unsaved \ {"state"}
    /\ unanswered' = unanswered \union Interrupted \union Outdated
    /\ doubtful' = doubtful \union Unrecorded \union { Restored[n].register : n \in Outdated }
    /\ UNCHANGED <<stateFile, runtimeFile, online, cloud, shown, register>>

\* The connection breaks, or mosquitto restarts, as the agent makes it do, which
\* cuts the bridge as well.
Disconnects ==
    /\ connected /\ Happens
    /\ connected' = FALSE
    /\ online' \in {online, FALSE}
    /\ granted' = {} /\ down' = << >> /\ lost' = FALSE
    /\ unanswered' = unanswered \union Interrupted
    /\ UNCHANGED <<memory, probe, probing, net, poll, buses, files, cloud, shown, register,
                   doubtful>>

CloudDrops ==
    /\ online /\ Happens
    /\ online' = FALSE
    /\ Cut
    /\ UNCHANGED <<memory, probe, probing, net, poll, buses, files, connected, granted, cloud,
                   shown, register, doubtful>>

CloudReturns ==
    /\ ~online
    /\ online' = TRUE
    /\ UNCHANGED <<memory, probe, probing, net, poll, buses, files, connected, granted, down,
                   cloud, lost, field, events>>

\* The agent restarts or loses its connection: its session is a clean one, so what
\* was sent last, before it has subscribed again, it relays to nobody.
RelayMisses ==
    /\ down # << >> /\ Happens
    /\ Cut
    /\ UNCHANGED <<memory, probe, probing, net, poll, buses, files, connected, granted, online,
                   cloud, shown, register, doubtful>>

\* A user moves a switch: the dashboard shows it, the request is on its way.
UserWrites(n, v) ==
    /\ Happens /\ Len(down) < MaxQueue
    /\ shown' = [shown EXCEPT ![n] = v]
    /\ unanswered' = unanswered \union {n}
    /\ IF n \in granted THEN Deliver(WriteMessage(n, v)) ELSE UNCHANGED down
    /\ UNCHANGED <<memory, probe, probing, net, poll, buses, files, connected, granted, online,
                   cloud, lost, register, doubtful>>

\* The widget saves another configuration.
WidgetSaves(payload) ==
    /\ Happens /\ Len(down) < MaxQueue
    /\ payload # cloud
    /\ cloud' = payload
    /\ Deliver(ConfigMessage(payload))
    /\ lost' = (connected /\ ~online)
    /\ UNCHANGED <<memory, probe, probing, net, poll, buses, files, connected, granted, online,
                   field>>

WidgetScans(p) ==
    /\ connected /\ online /\ Happens /\ Len(down) < MaxQueue
    /\ Deliver(ScanMessage(p))
    /\ UNCHANGED <<memory, probe, probing, net, poll, buses, files, connected, granted, online,
                   cloud, lost, field>>

\* A register changes at the device, or by a probe that writes.
DeviceChanges(r) ==
    /\ Happens
    /\ \E v \in Values \ {register[r]} : register' = [register EXCEPT ![r] = v]
    /\ doubtful' = doubtful \union {r}
    /\ UNCHANGED <<memory, probe, probing, net, poll, buses, files, links, shown, unanswered>>

World ==
    \/ Restarts \/ Disconnects \/ CloudDrops \/ CloudReturns
    \/ RelayMisses
    \/ \E n \in Names, v \in Values : UserWrites(n, v)
    \/ \E payload \in Configs \union {Invalid} : WidgetSaves(payload)
    \/ \E p \in Ports : WidgetScans(p)
    \/ \E r \in Registers : DeviceChanges(r)

Next == Net \/ (\E p \in Ports : Poll(p)) \/ Period \/ World

Spec == Init /\ [][Next]_vars

\* Threads go on, time passes, paho reconnects and so does the bridge.
Fairness ==
    /\ WF_vars(Net)
    /\ \A p \in Ports : WF_vars(Poll(p))
    /\ WF_vars(Period)
    /\ WF_vars(CloudReturns)

FairSpec == Spec /\ Fairness

-----------------------------------------------------------------------------

(* A value a write confirmed belongs to the running definition of its      *)
(* point, also after a crash between the two files: a restart never        *)
(* restores a value for a register that means something else now.          *)
WrittenFits ==
    \A n \in DOMAIN written :
        n \in DOMAIN config.points /\ written[n].register = config.points[n].register

(* Blynk delivers to exact topics only, so whenever the network thread is  *)
(* done the subscriptions mosquitto knows are those of the points that     *)
(* take writes, through any edits, reconnections and restarts.             *)
SubscriptionsFollow ==
    connected /\ net = NetIdle => granted = Wanted(config)

Pending(n) == \E i \in DOMAIN down : down[i].kind = "write" /\ down[i].name = n

\* Points no poll ever reads, whose register no other point writes.
WriteOnly ==
    { n \in Names :
        \A c \in Configs :
            n \in DOMAIN c.points =>
                /\ ~Reads(c.points[n])
                /\ \A m \in Wanted(c) \ {n} : c.points[m].register # c.points[n].register }

(* A switch tells the truth: of a point no poll ever reads and no other    *)
(* point shares its register with, and whose requests were all answered,   *)
(* the dashboard shows the value a failed write would snap back to, and    *)
(* the register holds it unless it changed behind the gateway, or by a     *)
(* write whose value was not saved when the gateway died.                  *)
SwitchIsTrue ==
    net = NetIdle =>
        \A n \in Wanted(config) \intersect WriteOnly :
            n \in DOMAIN confirmed /\ n \notin unanswered /\ ~Pending(n) =>
                LET held == confirmed[n]
                IN  /\ shown[n] = held.value
                    /\ held.register \notin doubtful => register[held.register] = held.value

(* The configuration somebody saved is the one that runs in the end,       *)
(* whatever restarts, reconnections and outages of the bridge and of the   *)
(* agent come between, unless the links lost the last word on it, which    *)
(* nobody repeats before the gateway connects again; and it is on disk,    *)
(* unless the disk refused it, which no gateway tries again.               *)
ConfigConverges ==
    <>[]~lost =>
        <>[](cloud \in Configs =>
                 config = cloud /\ ("state" \notin unsaved => stateFile = cloud))

(* The readings on the dashboard are the registers' in the end: what was   *)
(* published out of order, or not at all while a link was down, is put     *)
(* right by a later poll, as long as no scan left a bus at other settings. *)
DashboardConverges ==
    <>[](\A p \in Ports : buses[p] = config.settings[p]) =>
        <>[](\A n \in Readable(config) : shown[n] = register[config.points[n].register])

(* docs/config-format.md: each port "is its own bus with its own           *)
(* settings", those of the running configuration, when no scan is on.      *)
BusFollowsConfig ==
    net = NetIdle =>
        \A p \in Ports : poll[p].at # "scan" => buses[p] = config.settings[p]
=============================================================================
