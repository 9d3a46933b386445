---------------------------- MODULE ModbusAlerts ----------------------------
(***************************************************************************)
(* The events modbus_error and modbus_ok of the Modbus gateway             *)
(* (examples/modbus-gateway, gateway.py Gateway): which points fail, for   *)
(* which slaves an alert is open, what of it survives a restart and what   *)
(* Blynk was told.                                                         *)
(*                                                                         *)
(* The threads are those of ModbusGateway: Net, and one for each port.     *)
(* Each of them decides on the events of every slave, whatever port it is  *)
(* on, under the gateway's lock; it publishes them and saves the open      *)
(* alerts after the lock is released.                                      *)
(*                                                                         *)
(* What is published goes to the local mosquitto, in that order: paho      *)
(* keeps it while the gateway is not connected.  From there the bridge     *)
(* takes it to Blynk (agent.py, cleansession true), or it is lost on the   *)
(* way and nobody sends it again: the bridge is down, or the process, the  *)
(* connection or mosquitto ends with it in flight.                         *)
(***************************************************************************)
EXTENDS Naturals

CONSTANTS
    Points,      \* points that configurations may have
    Slaves,      \* the devices they are registers of
    SlaveOf,     \* the device of a point
    Ports,       \* the gateway's RS485 ports
    PortOf,      \* the port of a point
    Read, Write, \* the points that are polled, those that take writes
    Configs,     \* configurations, as sets of points, each with a rev of its own
    MaxEvents    \* bound: failures, writes, edits, lost events and connections,
                 \* refused saves and crashes

ASSUME AlertsAssumption ==
    /\ SlaveOf \in [Points -> Slaves] /\ PortOf \in [Points -> Ports]
    /\ Read \subseteq Points /\ Write \subseteq Points /\ Read \union Write = Points
    /\ Configs \subseteq SUBSET Points
    /\ MaxEvents \in Nat

VARIABLES
    config,      \* the running configuration
    bad,         \* _bad: "bus" for a failed transaction, "value" for an odd value
    aged,        \* the points whose _bad_since is EVENT_GRACE_SECONDS ago
    alerted,     \* the slaves with an open alert, of _slaves
    answered,    \* those of them with answered_since_alert
    poll,        \* what each port's thread is doing
    net,         \* what Net is doing
    stateFile,   \* the configuration in modbus_config.json
    runtimeFile, \* the alerts in runtime_state.json, and their rev
    connected,   \* is the gateway connected to the local mosquitto
    online,      \* is mosquitto's bridge connected to Blynk
    broken,      \* points whose transactions fail: no answer, or an exception reply
    sent,        \* the last event the gateway published of a slave
    told,        \* the last event Blynk got of a slave
    parted,      \* slaves for which what was sent may differ from _slaves
    events

points == <<bad, aged>>
alerts == <<alerted, answered>>
files == <<stateFile, runtimeFile>>
links == <<connected, online>>
world == <<links, broken>>
news == <<sent, told>>
vars == <<config, points, alerts, poll, net, files, world, news, parted, events>>

SlavesOf(c) == { SlaveOf[n] : n \in c }

Results == {"ok", "bus", "value"}
Event == [slave : Slaves, code : {"error", "ok"}]

NetIdle == [at |-> "idle"]
PollIdle == [at |-> "idle"]
RuntimeDoc == [rev |-> config, alerts |-> alerted]

TypeOK ==
    /\ config \in Configs /\ stateFile \in Configs
    /\ bad \in [Points -> Results]
    /\ aged \subseteq { n \in config : bad[n] # "ok" }
    /\ \A n \in Points \ config : bad[n] = "ok"
    /\ alerted \subseteq SlavesOf(config) /\ answered \subseteq alerted
    /\ \A p \in Ports :
           poll[p].at \in {"idle", "pass", "mark", "answered", "send", "save"}
    /\ net.at \in {"idle", "saveState", "saveRuntime", "mark", "answered"}
    /\ runtimeFile.rev \in Configs /\ runtimeFile.alerts \subseteq Slaves
    /\ connected \in BOOLEAN /\ online \in BOOLEAN
    /\ broken \subseteq Points
    /\ sent \in [Slaves -> {"error", "ok"}] /\ told \in [Slaves -> {"error", "ok"}]
    /\ parted \subseteq Slaves
    /\ events \in 0..MaxEvents

Init ==
    /\ config \in Configs
    /\ bad = [n \in Points |-> "ok"] /\ aged = {}
    /\ alerted = {} /\ answered = {}
    /\ poll = [p \in Ports |-> PollIdle]
    /\ net = NetIdle
    /\ stateFile = config /\ runtimeFile = RuntimeDoc
    /\ connected = FALSE /\ online = TRUE
    /\ broken = {}
    /\ sent = [s \in Slaves |-> "ok"] /\ told = sent /\ parted = {}
    /\ events = 0

Happens == events < MaxEvents /\ events' = events + 1

\* A transaction: an odd value is one the codec cannot read or write.
Outcome(n) == IF n \in broken THEN {"bus"} ELSE {"ok", "value"}

\* A slip: every failure starts the grace period anew.
SetBadAnew(n, result) ==
    /\ bad' = [bad EXCEPT ![n] = result]
    /\ aged' = aged \ {n}

\* _set_bad: the failure of a point lasts until a transaction succeeds.
SetBad(n, result) ==
    /\ bad' = [bad EXCEPT ![n] = result]
    /\ aged' = IF result = "ok" THEN aged \ {n} ELSE aged

\* _slave_answered
SlaveAnswered(n) == answered' = answered \union ({SlaveOf[n]} \intersect alerted)

(***************************************************************************)
(* The thread of a port: run_once.                                         *)
(***************************************************************************)
StartPass(p) ==
    /\ poll[p] = PollIdle
    /\ poll' = [poll EXCEPT ![p] = [at |-> "pass", current |-> TRUE,
                                    queue |-> { n \in config \intersect Read : PortOf[n] = p }]]
    /\ UNCHANGED <<config, points, alerts, net, files, world, news, parted, events>>

\* A pass with nothing due: after MAX_IDLE_SECONDS, or for a probe.
IdlePass(p) ==
    /\ poll[p] = PollIdle
    /\ poll' = [poll EXCEPT ![p] = [at |-> "pass", current |-> TRUE, queue |-> {}]]
    /\ UNCHANGED <<config, points, alerts, net, files, world, news, parted, events>>

\* _poll_point: the read, then its result under the lock.
PollRead(p) ==
    /\ poll[p].at = "pass"
    /\ \E n \in poll[p].queue : \E result \in Outcome(n) :
           poll' = [poll EXCEPT ![p] = [at |-> "mark", current |-> poll[p].current,
                                        queue |-> poll[p].queue \ {n},
                                        name |-> n, result |-> result]]
    /\ UNCHANGED <<config, points, alerts, net, files, world, news, parted, events>>

\* A slip: a result is kept even if the configuration was replaced meanwhile.
PollMarkAny(p) ==
    /\ poll[p].at = "mark"
    /\ SetBad(poll[p].name, poll[p].result)
    /\ poll' = [poll EXCEPT ![p].at = IF poll[p].result = "bus" THEN "pass" ELSE "answered"]
    /\ UNCHANGED <<config, alerts, net, files, world, news, parted, events>>

PollMark(p) ==
    /\ poll[p].at = "mark"
    /\ IF poll[p].current THEN SetBad(poll[p].name, poll[p].result) ELSE UNCHANGED points
    /\ poll' = [poll EXCEPT ![p].at = IF poll[p].result = "bus" THEN "pass" ELSE "answered"]
    /\ UNCHANGED <<config, alerts, net, files, world, news, parted, events>>

PollAnswered(p) ==
    /\ poll[p].at = "answered"
    /\ SlaveAnswered(poll[p].name)
    /\ poll' = [poll EXCEPT ![p] = [at |-> "pass", current |-> poll[p].current,
                                    queue |-> poll[p].queue]]
    /\ UNCHANGED <<config, points, alerted, net, files, world, news, parted, events>>

\* _update_events: a point with an odd value does not make its slave fail.
Failing(s) == { n \in config : SlaveOf[n] = s /\ bad[n] = "bus" }

Errors == { s \in Slaves : /\ s \notin alerted /\ connected
                           /\ Failing(s) \intersect aged # {} }
Recoveries == { s \in alerted : s \in answered /\ connected /\ Failing(s) = {} }

\* Slaves for which a thread has an event to publish, or to save.
Unsaved(p) == IF poll[p].at \in {"send", "save"} THEN poll[p].about ELSE {}

UpdateEvents(p) ==
    /\ poll[p].at = "pass" /\ poll[p].queue = {}
    /\ LET about == Errors \union Recoveries
       IN  /\ alerted' = (alerted \union Errors) \ Recoveries
           /\ answered' = (answered \ Errors) \ Recoveries
           /\ poll' = [poll EXCEPT ![p] =
                  IF about = {} THEN PollIdle
                  ELSE [at |-> "send", about |-> about,
                        send |-> [slave : Errors, code : {"error"}]
                                   \union [slave : Recoveries, code : {"ok"}]]]
           /\ parted' = parted \union
                  { s \in about : \E q \in Ports : poll[q].at = "send" /\ s \in Unsaved(q) }
    /\ UNCHANGED <<config, points, net, files, world, news, events>>

\* What the bridge does with it: keepalives notice a dead bridge late, so that
\* one thought to be up loses an event as well.
Arrives(e) ==
    /\ online \/ ~connected
    /\ told' = [told EXCEPT ![e.slave] = e.code]
    /\ UNCHANGED events

GoesLost ==
    /\ UNCHANGED told
    /\ (connected /\ ~online /\ UNCHANGED events) \/ Happens

SendEvent(p) ==
    /\ poll[p].at = "send"
    /\ \E e \in poll[p].send :
           /\ sent' = [sent EXCEPT ![e.slave] = e.code]
           /\ Arrives(e) \/ GoesLost
           /\ poll' = [poll EXCEPT ![p] =
                  IF poll[p].send = {e} THEN [at |-> "save", about |-> poll[p].about]
                  ELSE [poll[p] EXCEPT !.send = @ \ {e}]]
    /\ UNCHANGED <<config, points, alerts, net, files, world, parted>>

\* _save_runtime writes what holds at that moment, or the disk refuses it.
SavesRuntime(about) ==
    \/ runtimeFile' = RuntimeDoc /\ UNCHANGED <<parted, events>>
    \/ UNCHANGED runtimeFile /\ parted' = parted \union about /\ Happens

PollSave(p) ==
    /\ poll[p].at = "save"
    /\ SavesRuntime(poll[p].about)
    /\ poll' = [poll EXCEPT ![p] = PollIdle]
    /\ UNCHANGED <<config, points, alerts, net, stateFile, world, news>>

Pass(p) ==
    \/ PollRead(p) \/ PollMark(p) \/ PollAnswered(p)
    \/ UpdateEvents(p) \/ SendEvent(p) \/ PollSave(p)

(***************************************************************************)
(* Net: apply_config and _write_point.                                     *)
(***************************************************************************)
\* A configuration that differs: the failures are forgotten, the alerts of the
\* slaves it still has are not; those of the others are dropped without a word.
ApplyConfig ==
    /\ net = NetIdle /\ connected /\ Happens
    /\ \E c \in Configs \ {config} :
           /\ config' = c
           /\ bad' = [n \in Points |-> "ok"] /\ aged' = {}
           /\ alerted' = alerted \intersect SlavesOf(c)
           /\ answered' = answered \intersect SlavesOf(c)
           /\ poll' = [p \in Ports |-> IF "current" \in DOMAIN poll[p]
                                       THEN [poll[p] EXCEPT !.current = FALSE] ELSE poll[p]]
           /\ parted' = parted \union (SlavesOf(config) \ SlavesOf(c))
    /\ net' = [at |-> "saveState"]
    /\ UNCHANGED <<files, world, news>>

SaveState ==
    /\ net.at = "saveState" /\ net' = [at |-> "saveRuntime"]
    /\ \/ stateFile' = config /\ UNCHANGED events
       \/ UNCHANGED stateFile /\ Happens
    /\ UNCHANGED <<config, points, alerts, poll, runtimeFile, world, news, parted>>

SaveRuntime ==
    /\ net.at = "saveRuntime" /\ net' = NetIdle
    /\ SavesRuntime(alerted)
    /\ UNCHANGED <<config, points, alerts, poll, stateFile, world, news>>

\* A value the codec refuses never reaches the bus.
WritePoint ==
    /\ net = NetIdle /\ connected /\ Happens
    /\ \E n \in config \intersect Write : \E result \in Outcome(n) \union {"value"} :
           net' = [at |-> "mark", name |-> n, result |-> result]
    /\ UNCHANGED <<config, points, alerts, poll, files, world, news, parted>>

WriteMark ==
    /\ net.at = "mark"
    /\ SetBad(net.name, net.result)
    /\ net' = IF net.result = "ok" THEN [net EXCEPT !.at = "answered"] ELSE NetIdle
    /\ UNCHANGED <<config, alerts, poll, files, world, news, parted, events>>

WriteAnswered ==
    /\ net.at = "answered" /\ net' = [at |-> "saveRuntime"]
    /\ SlaveAnswered(net.name)
    /\ UNCHANGED <<config, points, alerted, poll, files, world, news, parted, events>>

Net == SaveState \/ SaveRuntime \/ WriteMark \/ WriteAnswered

(***************************************************************************)
(* Time, the process and the devices.                                      *)
(***************************************************************************)
\* A failure becomes EVENT_GRACE_SECONDS old: publishing takes less than that.
Ages ==
    /\ \A p \in Ports : poll[p].at # "send"
    /\ \E n \in config \ aged :
           /\ bad[n] # "ok"
           /\ aged' = aged \union {n}
    /\ UNCHANGED <<config, bad, alerts, poll, net, files, world, news, parted, events>>

\* A slip: alerts are not restored.
RestoredNone == {}

\* _load_runtime: only what was saved under the same rev.
Restored ==
    IF runtimeFile.rev = stateFile
    THEN runtimeFile.alerts \intersect SlavesOf(stateFile) ELSE {}

\* The process dies and starts again; with it goes what was not saved.
Restarts ==
    /\ Happens
    /\ config' = stateFile
    /\ bad' = [n \in Points |-> "ok"] /\ aged' = {}
    /\ alerted' = Restored /\ answered' = {}
    /\ poll' = [p \in Ports |-> PollIdle] /\ net' = NetIdle
    /\ connected' = FALSE
    /\ parted' = parted \union (UNION { Unsaved(p) : p \in Ports })
                   \union (IF net.at \in {"saveState", "saveRuntime"} \/ stateFile # config
                       THEN alerted ELSE {})
    /\ UNCHANGED <<files, online, broken, news>>

Connects ==
    /\ ~connected /\ connected' = TRUE
    /\ UNCHANGED <<config, points, alerts, poll, net, files, online, broken, news, parted,
                   events>>

\* mosquitto ends, and its bridge with it, or only the gateway's connection.
Disconnects ==
    /\ connected /\ connected' = FALSE /\ Happens
    /\ online' \in {online, FALSE}
    /\ UNCHANGED <<config, points, alerts, poll, net, files, broken, news, parted>>

CloudDrops ==
    /\ online /\ online' = FALSE /\ Happens
    /\ UNCHANGED <<config, points, alerts, poll, net, files, connected, broken, news, parted>>

CloudReturns ==
    /\ ~online /\ online' = TRUE
    /\ UNCHANGED <<config, points, alerts, poll, net, files, connected, broken, news, parted,
                   events>>

\* A device falls silent, or refuses a register.
DeviceBreaks(s) ==
    /\ Happens
    /\ \E n \in Points \ broken : SlaveOf[n] = s /\ broken' = broken \union {n}
    /\ UNCHANGED <<config, points, alerts, poll, net, files, links, news, parted>>

DeviceReturns(s) ==
    /\ \E n \in broken : SlaveOf[n] = s
    /\ broken' = { n \in broken : SlaveOf[n] # s }
    /\ UNCHANGED <<config, points, alerts, poll, net, files, links, news, parted, events>>

World ==
    \/ Ages \/ Restarts \/ Connects \/ Disconnects \/ CloudDrops \/ CloudReturns
    \/ \E s \in Slaves : DeviceBreaks(s) \/ DeviceReturns(s)

Next ==
    \/ \E p \in Ports : StartPass(p) \/ IdlePass(p) \/ Pass(p)
    \/ ApplyConfig \/ WritePoint \/ Net
    \/ World

Spec == Init /\ [][Next]_vars

\* Threads go on, what is due is polled, time passes, paho and the bridge
\* reconnect.
Fairness ==
    /\ \A p \in Ports : WF_vars(Pass(p)) /\ SF_vars(StartPass(p))
    /\ WF_vars(Net)
    /\ WF_vars(Ages)
    /\ WF_vars(Connects) /\ WF_vars(CloudReturns)

FairSpec == Spec /\ Fairness

-----------------------------------------------------------------------------

(* docs/config-format.md, Events: "At most one modbus_error per failure".  *)
(* No event repeats the one before it, through edits of the configuration, *)
(* disconnections and restarts in the middle of an outage, with as many    *)
(* threads deciding.  Apart from the slaves that left the configuration,   *)
(* for which nothing is sent on purpose, two windows are left: a crash     *)
(* before the alert is saved, and two threads publishing of the same slave *)
(* at once.                                                                *)
EventsAlternate ==
    \A p \in Ports : poll[p].at = "send" =>
        \A e \in poll[p].send : e.slave \in parted \/ sent[e.slave] # e.code

\* A point that is polled, or was not found failing when it was last written.
Settled(n) == n \in Read \/ bad[n] # "bus"

\* The last event about a slave was lost on its way.
Lost(s) == told[s] # sent[s]

OutageTold(s) ==
    <>[](connected /\ \E n \in config \intersect Read \intersect broken : SlaveOf[n] = s)
        => <>[](told[s] = "error" \/ s \in parted \/ Lost(s))

RecoveryTold(s) ==
    <>[](/\ connected /\ s \in SlavesOf(config \intersect Read)
         /\ \A n \in config : SlaveOf[n] = s => n \notin broken /\ Settled(n))
        => <>[](told[s] = "ok" \/ s \in parted \/ Lost(s))

(* An outage that lasts is told, and so is its end: while a point that is  *)
(* polled fails Blynk has modbus_error in the end, and once every point of *)
(* the slave works again Blynk does not keep it, whatever edits, writes,   *)
(* disconnections and restarts come before.  The gateway says each of the  *)
(* two once: when the very event that says it is lost between it and Blynk *)
(* nobody repeats it.  An earlier one may have been lost.                  *)
ToldInTheEnd == \A s \in Slaves : OutageTold(s) /\ RecoveryTold(s)
=============================================================================
