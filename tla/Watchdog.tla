------------------------------ MODULE Watchdog ------------------------------
(***************************************************************************)
(* The connectivity watchdog of the agent (agent.py BlynkAgent): when the  *)
(* cloud bridge stays down it restarts mqtt-bridge once for a fresh DNS    *)
(* resolver, and later reopens BLE provisioning in place.                  *)
(*                                                                         *)
(* Three kinds of thread share _bridge_disconnected_since,                 *)
(* _bridge_dns_refresh_attempted and _reprovisioning without a lock: the   *)
(* MQTT client's, which runs _on_connect and _handle_bridge_state; the     *)
(* diagnostics loop, which runs _check_connectivity_watchdog; and one      *)
(* thread per _run_reprovisioning.  An action is what a thread does from   *)
(* one read of that state, or one blocking call, to the next.  The two     *)
(* assignments that start or stop the clock are one step: between them the *)
(* watchdog sees no clock or one too young to act on.                      *)
(*                                                                         *)
(* A time is kept as its age in minutes, the period of the diagnostics     *)
(* loop; it stops at Grace, nothing tells greater ages apart.              *)
(***************************************************************************)
EXTENDS Naturals, Sequences, FiniteSets

CONSTANTS
    DnsGrace,    \* BRIDGE_DNS_REFRESH_GRACE_PERIOD, in minutes
    Grace,       \* BRIDGE_DISCONNECT_GRACE_PERIOD, in minutes
    Threads,     \* bound: reprovisioning threads that may exist at once
    MaxEvents,   \* bound: changes of the outside world
    None         \* the clock is not running

ASSUME WatchdogAssumption ==
    /\ Grace \in Nat /\ DnsGrace \in 1..Grace
    /\ MaxEvents \in Nat
    /\ None \notin Nat

VARIABLES
    since,      \* _bridge_disconnected_since: None or the age of the time kept
    dnsTried,   \* _bridge_dns_refresh_attempted
    reprov,     \* _reprovisioning
    wd,         \* where the diagnostics thread is; "dead" after an exception
    outage,     \* its local variable of that name
    thread,     \* where each reprovisioning thread is
    net,        \* where the MQTT client's thread is
    link,       \* is the agent connected to the local mosquitto
    notices,    \* bridge-state notifications the agent's client has received
    bridge,     \* is mosquitto's bridge connected to Blynk Cloud
    staleDns,   \* mqtt-bridge still asks the resolver of a network long left
    cloud,      \* "ok", "tcp": reachable but no MQTT session, or "down"
    events      \* how many changes of the outside world there have been

agentVars == <<since, dnsTried, reprov, wd, outage, thread, net>>
worldVars == <<link, notices, bridge, staleDns, cloud>>
vars == <<agentVars, worldVars, events>>

Ages == 0..Grace

TypeOK ==
    /\ since \in Ages \union {None}
    /\ dnsTried \in BOOLEAN
    /\ reprov \in BOOLEAN
    /\ wd \in {"sleep", "tick", "read", "dns", "refresh", "grace", "dead"}
    /\ outage \in Ages
    /\ thread \in [Threads -> {"none", "ble", "won", "clear", "probe", "up", "down"}]
    /\ net \in {"idle", "probe", "up"}
    /\ link \in BOOLEAN
    /\ notices \in Seq({"0", "1"})
    /\ bridge \in BOOLEAN
    /\ staleDns \in BOOLEAN
    /\ cloud \in {"ok", "tcp", "down"}
    /\ events \in 0..MaxEvents

\* The agent presumes itself disconnected when it starts, whatever the bridge does.
AgentInit ==
    /\ since = 0
    /\ dnsTried = FALSE
    /\ reprov = FALSE
    /\ wd = "sleep"
    /\ outage = 0
    /\ thread = [t \in Threads |-> "none"]
    /\ net = "idle"

Init ==
    /\ AgentInit
    /\ link = FALSE
    /\ notices = << >>
    /\ bridge = FALSE
    /\ staleDns \in BOOLEAN
    /\ cloud \in {"ok", "tcp", "down"}
    /\ events = 0

\* A BLE session is open in this thread.
Advertising(t) == thread[t] \in {"ble", "won"}

Reachable == cloud # "down"

(***************************************************************************)
(* mosquitto and the world around the device.                              *)
(***************************************************************************)
\* docker restart of mqtt-bridge: a fresh resolv.conf, and everybody reconnects.
MosquittoRestarts ==
    /\ staleDns' = FALSE
    /\ bridge' = FALSE
    /\ link' = FALSE
    /\ notices' = << >>

\* The notification is published on a change only; nobody keeps it for an
\* agent that is not connected.
Notify(payload) == notices' = IF link THEN Append(notices, payload) ELSE notices

CanConnect == ~bridge /\ cloud = "ok" /\ ~staleDns

BridgeConnects ==
    /\ CanConnect
    /\ bridge' = TRUE
    /\ Notify("1")
    /\ UNCHANGED <<agentVars, link, staleDns, cloud, events>>

BridgeDrops ==
    /\ bridge /\ cloud # "ok"
    /\ bridge' = FALSE
    /\ Notify("0")
    /\ UNCHANGED <<agentVars, link, staleDns, cloud, events>>

CloudChanges ==
    /\ events < MaxEvents
    /\ events' = events + 1
    /\ cloud' \in {"ok", "tcp", "down"} \ {cloud}
    /\ UNCHANGED <<agentVars, link, notices, bridge, staleDns>>

\* The host moves to a network with another resolver: the bridge's connection
\* goes, and mqtt-bridge cannot resolve the host any more.
NetworkMoves ==
    /\ events < MaxEvents
    /\ events' = events + 1
    /\ staleDns' = TRUE
    /\ bridge' = FALSE
    /\ IF bridge THEN Notify("0") ELSE UNCHANGED notices
    /\ UNCHANGED <<agentVars, link, cloud>>

AgentRestarts ==
    /\ events < MaxEvents
    /\ events' = events + 1
    /\ since' = 0
    /\ dnsTried' = FALSE
    /\ reprov' = FALSE
    /\ wd' = "sleep"
    /\ outage' = 0
    /\ thread' = [t \in Threads |-> "none"]
    /\ net' = "idle"
    /\ link' = FALSE
    /\ notices' = << >>
    /\ UNCHANGED <<bridge, staleDns, cloud>>

\* A minute is longer than anything the threads do but sleep and advertise,
\* and than mosquitto takes to reconnect a bridge that can be connected.
AtRest ==
    /\ ~CanConnect
    /\ wd = "sleep"
    /\ net = "idle" /\ link /\ notices = << >>
    /\ \A t \in Threads : thread[t] \in {"none", "ble"}

Older(age) == IF age \in Nat /\ age < Grace THEN age + 1 ELSE age

\* _diagnostics_loop: time.sleep(DIAGNOSTICS_INTERVAL), then a tick is due.
Minute ==
    /\ AtRest
    /\ since' = Older(since)
    /\ wd' = "tick"
    /\ UNCHANGED <<dnsTried, reprov, outage, thread, net, worldVars, events>>

\* The host's wall clock is set forward (no RTC, then NTP): time.time() jumps.
ClockJumps ==
    /\ events < MaxEvents
    /\ events' = events + 1
    /\ since \in Nat
    /\ since' = Grace
    /\ UNCHANGED <<dnsTried, reprov, wd, outage, thread, net, worldVars>>

(***************************************************************************)
(* The MQTT client's thread.                                               *)
(***************************************************************************)
\* The clock starts or stops, with the DNS refresh available again.
SetSince(value) ==
    /\ since' = value
    /\ dnsTried' = FALSE

\* A slip: no probe, the notification is trusted to come.
OnConnectUnprobed ==
    /\ ~link /\ net = "idle"
    /\ link' = TRUE
    /\ notices' \in {<< >>, <<IF bridge THEN "1" ELSE "0">>}
    /\ UNCHANGED <<agentVars, bridge, staleDns, cloud, events>>

\* _on_connect: subscribing may or may not redeliver the retained state; a
\* presumed outage is checked with a probe of the cloud.
OnConnect ==
    /\ ~link /\ net = "idle"
    /\ link' = TRUE
    /\ notices' \in {<< >>, <<IF bridge THEN "1" ELSE "0">>}
    /\ net' = IF since # None THEN "probe" ELSE "idle"
    /\ UNCHANGED <<since, dnsTried, reprov, wd, outage, thread>>
    /\ UNCHANGED <<bridge, staleDns, cloud, events>>

\* _probe_cloud_reachable returns to _on_connect.
OnConnectProbed ==
    /\ net = "probe"
    /\ net' = IF Reachable THEN "up" ELSE "idle"
    /\ UNCHANGED <<since, dnsTried, reprov, wd, outage, thread, worldVars, events>>

OnConnectClears ==
    /\ net = "up"
    /\ net' = "idle"
    /\ SetSince(None)
    /\ UNCHANGED <<reprov, wd, outage, thread, worldVars, events>>

\* A slip: every notification is taken for a change.
HandleBridgeStateToggles ==
    /\ net = "idle" /\ notices # << >>
    /\ notices' = Tail(notices)
    /\ SetSince(IF since = None THEN 0 ELSE None)
    /\ UNCHANGED <<reprov, wd, outage, thread, net, link, bridge, staleDns, cloud, events>>

\* _handle_bridge_state: only the first of a run of "down"s starts the clock.
HandleBridgeState ==
    /\ net = "idle" /\ notices # << >>
    /\ notices' = Tail(notices)
    /\ \/ Head(notices) = "1" /\ SetSince(None)
       \/ Head(notices) # "1" /\ since = None /\ SetSince(0)
       \/ Head(notices) # "1" /\ since # None /\ UNCHANGED <<since, dnsTried>>
    /\ UNCHANGED <<reprov, wd, outage, thread, net, link, bridge, staleDns, cloud, events>>

(***************************************************************************)
(* The diagnostics thread: _check_connectivity_watchdog.                   *)
(***************************************************************************)
\* A slip: a session already open does not stop the watchdog.
TickRegardless ==
    /\ wd = "tick"
    /\ wd' = IF since = None THEN "sleep" ELSE "read"
    /\ UNCHANGED <<since, dnsTried, reprov, outage, thread, net, worldVars, events>>

Tick ==
    /\ wd = "tick"
    /\ wd' = IF since = None \/ reprov THEN "sleep" ELSE "read"
    /\ UNCHANGED <<since, dnsTried, reprov, outage, thread, net, worldVars, events>>

\* A slip: a clock that is not running is taken for a time.
ReadOutageUnguarded ==
    /\ wd = "read"
    /\ wd' = "dns"
    /\ outage' = since
    /\ UNCHANGED <<since, dnsTried, reprov, thread, net, worldVars, events>>

\* The second read of the clock: time.time() - None raises in a thread that
\* nothing restarts.
ReadOutage ==
    /\ wd = "read"
    /\ \/ since = None /\ wd' = "dead" /\ outage' = outage
       \/ since # None /\ wd' = "dns" /\ outage' = since
    /\ UNCHANGED <<since, dnsTried, reprov, thread, net, worldVars, events>>

CheckDns ==
    /\ wd = "dns"
    /\ \/ /\ outage >= DnsGrace /\ ~dnsTried
          /\ dnsTried' = TRUE
          /\ wd' = "refresh"
       \/ /\ outage < DnsGrace \/ dnsTried
          /\ wd' = "grace"
          /\ UNCHANGED dnsTried
    /\ UNCHANGED <<since, reprov, outage, thread, net, worldVars, events>>

\* MqttBridge.refresh_dns; a failing docker restart is only logged.
RefreshDns ==
    /\ wd = "refresh"
    /\ wd' = "grace"
    /\ \/ MosquittoRestarts
       \/ UNCHANGED <<link, notices, bridge, staleDns>>
    /\ UNCHANGED <<since, dnsTried, reprov, outage, thread, net, cloud, events>>

\* _start_reprovisioning, when the outage has lasted long enough.
CheckGrace ==
    /\ wd = "grace"
    /\ wd' = "sleep"
    /\ \/ /\ outage < Grace
          /\ UNCHANGED <<reprov, thread>>
       \/ /\ outage >= Grace
          /\ reprov' = TRUE
          /\ \E t \in Threads :
                 /\ thread[t] = "none"
                 /\ thread' = [thread EXCEPT ![t] = "ble"]
    /\ UNCHANGED <<since, dnsTried, outage, net, worldVars, events>>

(***************************************************************************)
(* _run_reprovisioning, one thread per call.                               *)
(***************************************************************************)
Moves(t, from, to) == thread[t] = from /\ thread' = [thread EXCEPT ![t] = to]

\* The app supplies a network that works: wifi is up, mqtt-bridge restarted.
SessionConnects(t) ==
    /\ Moves(t, "ble", "won")
    /\ cloud' = "ok"
    /\ MosquittoRestarts
    /\ UNCHANGED <<since, dnsTried, reprov, wd, outage, net, events>>

\* provision() returns; the first statement of the finally block.
SessionSucceeds(t) ==
    /\ Moves(t, "won", "clear")
    /\ reprov' = FALSE
    /\ UNCHANGED <<since, dnsTried, wd, outage, net, worldVars, events>>

\* A slip: the flag is dropped only by a session that succeeds.
SessionFailsFlagged(t) ==
    /\ Moves(t, "ble", "probe")
    /\ UNCHANGED <<since, dnsTried, reprov, wd, outage, net, worldVars, events>>

\* Nobody came within the session's time, or it broke.
SessionFails(t) ==
    /\ Moves(t, "ble", "probe")
    /\ reprov' = FALSE
    /\ UNCHANGED <<since, dnsTried, wd, outage, net, worldVars, events>>

\* This branch leaves the DNS flag alone.
SucceededClears(t) ==
    /\ Moves(t, "clear", "none")
    /\ since' = None
    /\ UNCHANGED <<dnsTried, reprov, wd, outage, net, worldVars, events>>

\* After a failed session, _probe_cloud_reachable.
FailedProbed(t) ==
    /\ Moves(t, "probe", IF Reachable THEN "up" ELSE "down")
    /\ UNCHANGED <<since, dnsTried, reprov, wd, outage, net, worldVars, events>>

\* Its answer stops or restarts the clock, whatever was heard in between.
FailedWrites(t) ==
    /\ \/ Moves(t, "up", "none") /\ SetSince(None)
       \/ Moves(t, "down", "none") /\ SetSince(0)
    /\ UNCHANGED <<reprov, wd, outage, net, worldVars, events>>

Reprovisioning(t) ==
    \/ SessionConnects(t) \/ SessionSucceeds(t) \/ SessionFails(t)
    \/ SucceededClears(t) \/ FailedProbed(t) \/ FailedWrites(t)

Net == OnConnect \/ OnConnectProbed \/ OnConnectClears \/ HandleBridgeState

Diagnostics == Tick \/ ReadOutage \/ CheckDns \/ RefreshDns \/ CheckGrace

World ==
    \/ BridgeConnects \/ BridgeDrops \/ CloudChanges \/ NetworkMoves
    \/ AgentRestarts \/ Minute \/ ClockJumps

Next == Net \/ Diagnostics \/ World \/ \E t \in Threads : Reprovisioning(t)

Spec == Init /\ [][Next]_vars

\* Threads are scheduled, time passes, a connection that can be made is made,
\* and a BLE session ends: it gives up by itself after five minutes.
Fairness ==
    /\ WF_vars(Net)
    /\ WF_vars(Diagnostics)
    /\ WF_vars(Minute)
    /\ WF_vars(BridgeConnects)
    /\ WF_vars(BridgeDrops)
    /\ \A t \in Threads : WF_vars(Reprovisioning(t))

FairSpec == Spec /\ Fairness

-----------------------------------------------------------------------------

(* The device never has two BLE sessions open at once, though the flag     *)
(* that says so is written by two threads and dropped before the first     *)
(* thread has finished.                                                    *)
OneSessionAtATime ==
    \A t, u \in Threads : Advertising(t) /\ Advertising(u) => t = u

(* A healthy device is not taken for a disconnected one for ever: however  *)
(* many notifications were missed, once the cloud is there for good the    *)
(* presumed outage ends, without a session left open.                      *)
HealthySettles ==
    <>[](cloud = "ok") /\ [](wd # "dead") => <>[](since = None /\ ~reprov)

(* A device that takes itself for disconnected offers BLE provisioning     *)
(* again and again, not only once: a session that ends in failure leaves   *)
(* the clock running and nothing that blocks the next one.                 *)
OutageOffersProvisioning ==
    <>[](since # None) /\ [](wd # "dead") => []<>(\E t \in Threads : Advertising(t))

\* The bridge is up, nothing on its way to the agent says otherwise, and neither
\* the clock nor a session is running.
Healthy ==
    /\ cloud = "ok" /\ bridge /\ link
    /\ \A i \in 1..Len(notices) : notices[i] = "1"
    /\ since = None /\ ~reprov
    /\ \A t \in Threads : ~Advertising(t)

\* A tick that has read the clock, and a probe that has found no cloud.
TickUnderWay == wd \in {"dns", "refresh", "grace"}
WriteUnderWay == \E t \in Threads : thread[t] = "down"

(* A healthy device is left alone, but for what was decided while it was   *)
(* not: a tick that had read the clock may still restart mosquitto or open *)
(* a session, and a failed probe still start the clock.  Neither begins    *)
(* while it is healthy; besides them only the cloud, the network and the   *)
(* agent's own restart end its health.                                     *)
HealthyLeftAlone ==
    [][ Healthy =>
            \/ /\ Healthy'
               /\ TickUnderWay' => TickUnderWay
               /\ WriteUnderWay' => WriteUnderWay
            \/ CloudChanges \/ NetworkMoves \/ AgentRestarts
            \/ TickUnderWay /\ (RefreshDns \/ CheckGrace)
            \/ \E t \in Threads : thread[t] = "down" /\ FailedWrites(t) ]_vars

(* README: the outage is "checked roughly every minute": the thread that   *)
(* checks it never goes away.                                              *)
WatchdogSurvives == wd # "dead"
=============================================================================
