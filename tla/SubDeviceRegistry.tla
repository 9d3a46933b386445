------------------------- MODULE SubDeviceRegistry -------------------------
(***************************************************************************)
(* How the agent keeps its copy of the AgentSubDeviceRegistry datastream   *)
(* (agent/gateway.py SubDeviceRegistry, and the handlers of agent.py that  *)
(* use it) in step with Blynk Cloud.  Three parties write it: the console, *)
(* the agent when it meets an unknown sub-device, and the agent's start,   *)
(* which begins from nothing and asks for the value with get/ds.           *)
(*                                                                         *)
(* Two connections carry it: the agent's to the local mosquitto (link) and *)
(* mosquitto's bridge to the cloud (cloudLink).  Every ensure_current that *)
(* restarts mosquitto cuts both, and each comes back by itself, in either  *)
(* order: what the agent publishes before the bridge is up again is lost.  *)
(* The agent's MQTT callbacks run on one thread, so each is one action.    *)
(***************************************************************************)
EXTENDS GatewayMode

CONSTANTS
    Unset,          \* the datastream has never been given a value
    InitialClouds,  \* values the datastream may have when we start watching
    ConsoleEntries, \* entries somebody may type in the console
    MaxEntries,     \* MAX_REGISTRY_JSON_LENGTH, counted in entries
    CloudMayDrop,   \* whether mosquitto's bridge may lose Blynk Cloud
    CloudEchoes,    \* whether the cloud sends a device's own publish back to it
    MaxInFlight,    \* bound: messages under way when a sub-device is discovered
    MaxEvents       \* bound: edits, crashes, outages and broker restarts

ASSUME RegistryAssumption ==
    /\ Unset \notin Registry
    /\ InitialClouds \subseteq Registry \union {Unset}
    /\ ConsoleEntries \subseteq Entry
    /\ MaxEntries \in Nat
    /\ CloudMayDrop \in BOOLEAN
    /\ CloudEchoes \in BOOLEAN
    /\ MaxInFlight \in Nat
    /\ MaxEvents \in Nat

VARIABLES
    conf,       \* the gateway block in BRIDGE_CONF_FILE
    stale,      \* the last docker restart failed and none has worked since
    link,       \* is the agent connected to the local mosquitto
    cloudLink,  \* is mosquitto's bridge connected to Blynk Cloud
    outq,       \* what the agent's MQTT client has still to hand over
    down,       \* registry values on their way from the cloud to the agent
    cloud,      \* the datastream's value in Blynk Cloud
    lost,       \* with the agent connected, something between it and the cloud
                \* was lost, and the cloud has received nothing of it since
    events      \* how many bounded events have happened

vars ==
    <<devices, conf, loaded, stale, link, cloudLink, outq, down, cloud, lost, events>>

Get == [kind |-> "get"]
Publish(value) == [kind |-> "set", value |-> value]

Message == {Get} \union { Publish(v) : v \in Registry }

TypeOK ==
    /\ devices \in Registry
    /\ conf \in Block /\ loaded \in Block
    /\ stale \in BOOLEAN /\ lost \in BOOLEAN
    /\ link \in BOOLEAN /\ cloudLink \in BOOLEAN
    /\ outq \in Seq(Message)
    /\ down \in Seq(Registry \union {Unset})
    /\ cloud \in Registry \union {Unset}
    /\ events \in 0..MaxEvents

Init ==
    /\ devices = EmptyRegistry
    /\ conf = EmptyBlock
    /\ loaded = EmptyBlock
    /\ stale = FALSE
    /\ link = FALSE
    /\ cloudLink = TRUE
    /\ outq = << >>
    /\ down = << >>
    /\ cloud \in InitialClouds
    /\ lost = FALSE
    /\ events = 0

Without(value, n) == [m \in DOMAIN value \ {n} |-> value[m]]

With(value, n, entry) ==
    [m \in DOMAIN value \union {n} |-> IF m = n THEN entry ELSE value[m]]

Happens == events < MaxEvents /\ events' = events + 1

\* The agent is off mosquitto: what was on its way to it is gone, and made up
\* for when it connects and asks again.
LinkCut ==
    /\ link' = FALSE
    /\ down' = << >>
    /\ lost' = FALSE

\* docker restart of mqtt-bridge: it reads its files again, drops the agent and
\* has to connect to the cloud anew.
MosquittoRestarts(block) ==
    /\ loaded' = block
    /\ stale' = FALSE
    /\ cloudLink' = FALSE

\* A docker restart that fails is logged and otherwise ignored.
RestartFails ==
    /\ stale' = TRUE
    /\ UNCHANGED <<loaded, cloudLink>>

\* A slip: mosquitto restarted only if a token comes or goes.
EnsureCurrentForTokens(d, rest) ==
    LET tokens(block) == { p[2] : p \in block.unroled } \union block.roled
    IN  /\ conf' = ConnectionBlock(d)
        /\ IF tokens(conf') # tokens(conf)
           THEN MosquittoRestarts(conf') /\ LinkCut
           ELSE /\ down' = rest
                /\ UNCHANGED <<loaded, stale, link, cloudLink, lost>>

\* MqttBridge.ensure_current(force_restart=True) with registry d, when the
\* messages of rest are still to be read.
EnsureCurrentForced(d, rest) ==
    /\ conf' = ConnectionBlock(d)
    /\ \/ MosquittoRestarts(conf') /\ LinkCut
       \/ /\ RestartFails
          /\ down' = rest
          /\ UNCHANGED <<link, lost>>

\* A slip: subscribing again without asking for the value again.
ConnectWithoutGet ==
    /\ ~link
    /\ link' = TRUE
    /\ UNCHANGED <<devices, conf, loaded, stale, cloudLink, outq, down, cloud, lost, events>>

\* _on_connect: subscribe, then ask for the registry.  The client hands over
\* what it still held from before, before or after what _on_connect publishes.
Connect ==
    /\ ~link
    /\ link' = TRUE
    /\ \/ outq' = <<Get>> \o outq
       \/ outq' = Append(outq, Get)
    /\ UNCHANGED <<devices, conf, loaded, stale, cloudLink, down, cloud, lost, events>>

\* A slip: load_from_payload reporting a change for every value it accepts.
HandleSubDeviceRegistryAlwaysChanged ==
    /\ link
    /\ down # << >>
    /\ IF Head(down) = Unset
       THEN /\ down' = Tail(down)
            /\ UNCHANGED <<devices, conf, loaded, stale, link, cloudLink, lost>>
       ELSE /\ devices' = Head(down)
            /\ EnsureCurrentForced(devices', Tail(down))
    /\ UNCHANGED <<outq, cloud, events>>

(***************************************************************************)
(* load_from_payload and _handle_sub_device_registry: an empty payload is  *)
(* left alone, any other replaces the registry, and a changed registry is  *)
(* rendered and mosquitto restarted.                                       *)
(***************************************************************************)
HandleSubDeviceRegistry ==
    /\ link
    /\ down # << >>
    /\ LET value == Head(down)
       IN  IF value = Unset \/ value = devices
           THEN /\ down' = Tail(down)
                /\ UNCHANGED <<devices, conf, loaded, stale, link, cloudLink, lost>>
           ELSE /\ devices' = value
                /\ EnsureCurrentForced(value, Tail(down))
    /\ UNCHANGED <<outq, cloud, events>>

(***************************************************************************)
(* _handle_sub_device_traffic for a name not in the registry:              *)
(* register_if_unknown adds it with the placeholder unless the value would *)
(* be too long, the whole registry is published, the bridge is rendered.   *)
(***************************************************************************)
Discover(n) ==
    /\ link
    /\ n \notin DOMAIN devices
    /\ Cardinality(DOMAIN devices) < MaxEntries
    /\ Len(outq) + Len(down) < MaxInFlight
    /\ devices' = With(devices, n, PlaceholderEntry)
    /\ outq' = Append(outq, Publish(devices'))
    /\ EnsureCurrentForced(devices', down)
    /\ UNCHANGED <<cloud, events>>

\* mosquitto hands the agent's next message to Blynk Cloud.
CloudReceives ==
    /\ link /\ cloudLink
    /\ outq # << >>
    /\ outq' = Tail(outq)
    /\ IF Head(outq) = Get
       THEN /\ down' = Append(down, cloud)
            /\ UNCHANGED cloud
       ELSE /\ cloud' = Head(outq).value
            /\ down' = IF CloudEchoes THEN Append(down, cloud') ELSE down
    /\ lost' = FALSE
    /\ UNCHANGED <<devices, conf, loaded, stale, link, cloudLink, events>>

\* cleansession: nothing is kept for a bridge that is not connected.  What
\* mosquitto had already taken when its bridge was cut is lost here as well.
DroppedAtBridge ==
    /\ link /\ ~cloudLink
    /\ outq # << >>
    /\ outq' = Tail(outq)
    /\ lost' = TRUE
    /\ UNCHANGED <<devices, conf, loaded, stale, link, cloudLink, down, cloud, events>>

\* Somebody edits one entry of the value in the console; a device that is
\* online is told.
ConsoleEdits ==
    /\ Happens
    /\ LET shown == IF cloud = Unset THEN EmptyRegistry ELSE cloud
       IN  \E n \in Names :
               \/ \E entry \in ConsoleEntries : cloud' = With(shown, n, entry)
               \/ cloud' = Without(shown, n)
    /\ cloud' # cloud
    /\ down' = IF link /\ cloudLink THEN Append(down, cloud') ELSE down
    /\ lost' = (lost \/ (link /\ ~cloudLink))
    /\ UNCHANGED <<devices, conf, loaded, stale, link, cloudLink, outq>>

\* The agent's container starts again: main renders the bridge from an empty
\* registry before anything else, and restarts mosquitto if the file differs.
AgentRestarts ==
    /\ Happens
    /\ devices' = EmptyRegistry
    /\ conf' = EmptyBlock
    /\ outq' = << >>
    /\ LinkCut
    /\ IF conf = EmptyBlock
       THEN UNCHANGED <<loaded, stale, cloudLink>>
       ELSE MosquittoRestarts(EmptyBlock) \/ RestartFails
    /\ UNCHANGED cloud

\* mosquitto restarted by something else: refresh_dns, a redirect, an operator.
BrokerRestarts ==
    /\ Happens
    /\ MosquittoRestarts(conf)
    /\ LinkCut
    /\ UNCHANGED <<devices, conf, outq, cloud>>

CloudLinkDrops ==
    /\ CloudMayDrop /\ cloudLink
    /\ Happens
    /\ cloudLink' = FALSE
    /\ down' \in { SubSeq(down, 1, k) : k \in 0..Len(down) }
    /\ lost' = (lost \/ down' # down)
    /\ UNCHANGED <<devices, conf, loaded, stale, link, outq, cloud>>

CloudLinkReturns ==
    /\ ~cloudLink
    /\ cloudLink' = TRUE
    /\ UNCHANGED <<devices, conf, loaded, stale, link, outq, down, cloud, lost, events>>

Next ==
    \/ Connect
    \/ HandleSubDeviceRegistry
    \/ \E n \in Names : Discover(n)
    \/ CloudReceives
    \/ DroppedAtBridge
    \/ ConsoleEdits
    \/ AgentRestarts
    \/ BrokerRestarts
    \/ CloudLinkDrops
    \/ CloudLinkReturns

Spec == Init /\ [][Next]_vars

Fairness ==
    /\ WF_vars(Connect)
    /\ WF_vars(HandleSubDeviceRegistry)
    /\ WF_vars(CloudReceives)
    /\ WF_vars(DroppedAtBridge)
    /\ WF_vars(CloudLinkReturns)

FairSpec == Spec /\ Fairness

-----------------------------------------------------------------------------

(* mosquitto runs the block of the registry the agent has now, in whatever *)
(* order discoveries, answers, edits and restarts come, unless the last    *)
(* docker restart failed: then it goes on with an older one until the next *)
(* restart that works, and no later start of the agent may take the file   *)
(* for what mosquitto runs in any other case.                              *)
MosquittoFollowsRegistry == stale \/ loaded = ConnectionBlock(devices)

\* A datastream without a value answers with an empty payload, which the agent
\* leaves alone: it may then know of names that were only ever discovered.
InStep ==
    IF cloud = Unset
    THEN \A n \in DOMAIN devices : devices[n] = PlaceholderEntry
    ELSE devices = cloud

(* If the cloud echoes what a device publishes, the agent and the cloud    *)
(* end up with the same registry after any edits, discoveries, outages and *)
(* restarts of either container, provided the last loss is followed by a   *)
(* message that gets through: the answer to it makes up for everything     *)
(* lost before.  A get/ds that finds the bridge still down is not repeated *)
(* by anybody, so the proviso cannot be dropped.                           *)
RegistryConverges == <>[]~lost => <>[](link /\ InStep)

(* A changed registry restarts mosquitto, that cuts the agent off, it      *)
(* reconnects and asks for the registry again.  The loop ends: the agent   *)
(* is connected for good once the outside world is quiet, unless messages  *)
(* go on being lost, a discovery each time around.                         *)
ReconnectLoopEnds == <>[][~DroppedAtBridge]_vars => <>[]link

\* Agent and cloud say the same, and so does whatever is under way.
Agreed ==
    /\ InStep
    /\ \A i \in 1..Len(outq) : outq[i] \in {Get, Publish(devices)}
    /\ \A i \in 1..Len(down) : down[i] \in {Unset, devices}

\* Nothing happens outside, and no sub-device is heard of for the first time.
Undisturbed == events' = events /\ ~(\E n \in Names : Discover(n))

(* A restart of mosquitto is paid for by a change of the registry: once    *)
(* the two agree and what is under way says so too, no answer, echo, loss  *)
(* or reconnection renders or restarts anything, or cuts the agent off.    *)
RestartsNeedAChange ==
    [][Agreed /\ Undisturbed =>
           Agreed' /\ UNCHANGED <<devices, conf, loaded>> /\ (link => link')]_vars
=============================================================================
