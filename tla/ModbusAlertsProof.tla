------------------------- MODULE ModbusAlertsProof -------------------------
(***************************************************************************)
(* Proofs about the events of the Modbus gateway: types, and that no event *)
(* repeats the one before it, for any points, slaves, ports and            *)
(* configurations, any number of threads and any number of events.         *)
(*                                                                         *)
(* EventsAlternate looks at an event about to be sent and at the one sent  *)
(* last.  What ties the two is the open alert, which is decided under the  *)
(* lock, sent after it, saved later still and restored by a restart: the   *)
(* invariant follows it through the three places.                          *)
(*                                                                         *)
(* What follows for a crash: outside the windows of sending and saving it  *)
(* changes nothing about what is open.                                     *)
(***************************************************************************)
EXTENDS ModbusAlerts, TLAPS

\* What a port's thread and Net hold while they are at each of their steps.
Polling ==
    {PollIdle}
      \union [at : {"pass"}, current : BOOLEAN, queue : SUBSET Points]
      \union [at : {"pass", "mark", "answered"}, current : BOOLEAN, queue : SUBSET Points,
              name : Points, result : Results]
      \union [at : {"send"}, about : SUBSET Slaves, send : SUBSET Event]
      \union [at : {"save"}, about : SUBSET Slaves]

Netting ==
    [at : {"idle", "saveState", "saveRuntime"}]
      \union [at : {"mark", "answered"}, name : Points, result : Results]

\* A pass that has not been told otherwise has points of the configuration.
OfConfig(r) ==
    r.at \in {"pass", "mark", "answered"} /\ r.current =>
        /\ r.queue \subseteq config
        /\ r.at # "pass" => r.name \in config

\* A pass learns when the configuration is replaced under it, and Net replaces
\* it only between two messages.
ThreadsOK ==
    /\ poll \in [Ports -> Polling]
    /\ net \in Netting
    /\ \A p \in Ports : OfConfig(poll[p])
    /\ net.at \in {"mark", "answered"} => net.name \in config

Saving == net.at \in {"saveState", "saveRuntime"}

\* An open alert some thread has decided on and not yet saved.
Unsettled(s) == \E p \in Ports : s \in Unsaved(p)

\* The event of s some thread has yet to send.
Pending(s) == \E p \in Ports : poll[p].at = "send" /\ \E e \in poll[p].send : e.slave = s

\* Decided to sent: of a slave one thread at most has an event to send, and it
\* is the news; if none has, the last one sent is what the gateway knows.
SentOK ==
    /\ \A p \in Ports : poll[p].at = "send" =>
           \A e \in poll[p].send : e.slave \in poll[p].about
    /\ \A s \in Slaves \ parted :
           /\ \A p, q \in Ports :
                  /\ poll[p].at = "send" /\ s \in poll[p].about
                  /\ poll[q].at = "send" /\ s \in poll[q].about
                  => p = q
           /\ \A p \in Ports : poll[p].at = "send" =>
                  \A e \in poll[p].send : e.slave = s =>
                      sent[s] # e.code /\ (e.code = "error" <=> s \in alerted)
           /\ ~Pending(s) => (sent[s] = "error" <=> s \in alerted)

\* Decided to saved to restored: outside the windows in which a crash loses an
\* alert, the file has the alerts, under the rev of the running configuration.
SavedOK ==
    \A s \in Slaves \ parted : ~Unsettled(s) =>
        /\ s \in runtimeFile.alerts <=> s \in alerted
        /\ s \in alerted /\ ~Saving => runtimeFile.rev = config

(***************************************************************************)
(* What the threads hold.                                                  *)
(***************************************************************************)
\* A thread's record has the fields of the step it is at.
LEMMA Fields ==
  ASSUME NEW r \in Polling
  PROVE  /\ r.at \in {"idle", "pass", "mark", "answered", "send", "save"}
         /\ r.at = "idle" <=> r = PollIdle
         /\ r.at \in {"pass", "mark", "answered"} =>
                r.current \in BOOLEAN /\ r.queue \subseteq Points
         /\ r.at \in {"mark", "answered"} => r.name \in Points /\ r.result \in Results
         /\ r.at = "send" => r.about \subseteq Slaves /\ r.send \subseteq Event
         /\ r.at = "save" => r.about \subseteq Slaves
         /\ "current" \in DOMAIN r <=> r.at \in {"pass", "mark", "answered"}
<1>1. CASE r = PollIdle
  BY <1>1 DEF PollIdle
<1>2. CASE r \in [at : {"pass"}, current : BOOLEAN, queue : SUBSET Points]
  BY <1>2 DEF PollIdle
<1>3. CASE r \in [at : {"pass", "mark", "answered"}, current : BOOLEAN, queue : SUBSET Points,
                  name : Points, result : Results]
  BY <1>3 DEF PollIdle
<1>4. CASE r \in [at : {"send"}, about : SUBSET Slaves, send : SUBSET Event]
  BY <1>4 DEF PollIdle
<1>5. CASE r \in [at : {"save"}, about : SUBSET Slaves]
  BY <1>5 DEF PollIdle
<1> QED BY <1>1, <1>2, <1>3, <1>4, <1>5 DEF Polling

LEMMA GoesOn ==
  ASSUME NEW r \in Polling, r.at \in {"mark", "answered"},
         NEW at \in {"pass", "mark", "answered"}
  PROVE  /\ [r EXCEPT !.at = at] \in Polling
         /\ [r EXCEPT !.at = at].at = at
         /\ [r EXCEPT !.at = at].current = r.current
         /\ [r EXCEPT !.at = at].queue = r.queue
         /\ [r EXCEPT !.at = at].name = r.name
  BY DEF Polling, PollIdle

LEMMA Outdated ==
  ASSUME NEW r \in Polling, r.at \in {"pass", "mark", "answered"}
  PROVE  /\ [r EXCEPT !.current = FALSE] \in Polling
         /\ [r EXCEPT !.current = FALSE].at = r.at
         /\ [r EXCEPT !.current = FALSE].current = FALSE
<1>1. CASE r \in [at : {"pass"}, current : BOOLEAN, queue : SUBSET Points]
  <2>1. [r EXCEPT !.current = FALSE] \in [at : {"pass"}, current : BOOLEAN, queue : SUBSET Points]
    BY <1>1
  <2> QED BY <1>1, <2>1 DEF Polling
<1>2. CASE r \in [at : {"pass", "mark", "answered"}, current : BOOLEAN, queue : SUBSET Points,
                  name : Points, result : Results]
  <2>1. [r EXCEPT !.current = FALSE]
          \in [at : {"pass", "mark", "answered"}, current : BOOLEAN, queue : SUBSET Points,
               name : Points, result : Results]
    BY <1>2
  <2> QED BY <1>2, <2>1 DEF Polling
<1> QED BY <1>1, <1>2 DEF Polling, PollIdle

LEMMA OneSent ==
  ASSUME NEW r \in Polling, r.at = "send", NEW e
  PROVE  /\ [r EXCEPT !.send = @ \ {e}] \in Polling
         /\ [r EXCEPT !.send = @ \ {e}].at = "send"
         /\ [r EXCEPT !.send = @ \ {e}].about = r.about
         /\ [r EXCEPT !.send = @ \ {e}].send = r.send \ {e}
  BY DEF Polling, PollIdle

\* A step of one port's thread.
LEMMA OneThread ==
  ASSUME ThreadsOK, NEW p \in Ports, NEW r \in Polling, OfConfig(r),
         poll' = [poll EXCEPT ![p] = r], UNCHANGED <<config, net>>
  PROVE  ThreadsOK'
  BY DEF ThreadsOK, OfConfig

\* Events are decided about slaves of the configuration, and never both kinds
\* about the same one.
LEMMA DecidedSlaves ==
  ASSUME TypeOK
  PROVE  /\ Errors \subseteq SlavesOf(config) \ alerted /\ Recoveries \subseteq alerted
         /\ SlavesOf(config) \subseteq Slaves /\ alerted \subseteq Slaves
         /\ Errors \subseteq Slaves /\ Recoveries \subseteq Slaves
<1>1. SlavesOf(config) \subseteq Slaves /\ alerted \subseteq SlavesOf(config)
  BY AlertsAssumption DEF TypeOK, SlavesOf
<1>2. Errors \subseteq SlavesOf(config) \ alerted
  BY DEF Errors, Failing, SlavesOf
<1>3. Recoveries \subseteq alerted
  BY DEF Recoveries
<1> QED BY <1>1, <1>2, <1>3

LEMMA ThreadsInit == Init => ThreadsOK
<1> SUFFICES ASSUME Init PROVE ThreadsOK
  OBVIOUS
<1>1. PollIdle \in Polling /\ PollIdle.at = "idle"
  BY DEF Polling, PollIdle
<1>2. net \in Netting /\ net.at = "idle"
  BY DEF Init, NetIdle, Netting
<1> QED BY <1>1, <1>2 DEF Init, ThreadsOK, OfConfig

LEMMA PassThreads ==
  ASSUME TypeOK, ThreadsOK, NEW p \in Ports, StartPass(p) \/ IdlePass(p) \/ Pass(p)
  PROVE  ThreadsOK'
<1>0. poll[p] \in Polling /\ OfConfig(poll[p])
  BY DEF ThreadsOK, OfConfig
<1>1. CASE StartPass(p)
  <2> DEFINE r == [at |-> "pass", current |-> TRUE,
                   queue |-> { n \in config \intersect Read : PortOf[n] = p }]
  <2>1. r \in Polling /\ OfConfig(r)
    BY AlertsAssumption DEF Polling, OfConfig
  <2> QED BY <1>1, <2>1, OneThread DEF StartPass
<1>2. CASE IdlePass(p)
  <2> DEFINE r == [at |-> "pass", current |-> TRUE, queue |-> {}]
  <2>1. r \in Polling /\ OfConfig(r)
    BY DEF Polling, OfConfig
  <2> QED BY <1>2, <2>1, OneThread DEF IdlePass
<1>3. CASE PollRead(p)
  <2>1. PICK n \in poll[p].queue : \E result \in Outcome(n) :
           poll' = [poll EXCEPT ![p] = [at |-> "mark", current |-> poll[p].current,
                                        queue |-> poll[p].queue \ {n},
                                        name |-> n, result |-> result]]
    BY <1>3 DEF PollRead
  <2>2. PICK result \in Outcome(n) :
           poll' = [poll EXCEPT ![p] = [at |-> "mark", current |-> poll[p].current,
                                        queue |-> poll[p].queue \ {n},
                                        name |-> n, result |-> result]]
    BY <2>1
  <2> DEFINE r == [at |-> "mark", current |-> poll[p].current, queue |-> poll[p].queue \ {n},
                   name |-> n, result |-> result]
  <2>3. result \in Results
    BY DEF Outcome, Results
  <2>4. r \in Polling /\ OfConfig(r)
    BY <1>0, <1>3, <2>3, Fields DEF PollRead, Polling, OfConfig
  <2> QED BY <1>3, <2>2, <2>4, OneThread DEF PollRead
<1>4. CASE PollMark(p)
  <2> DEFINE to == IF poll[p].result = "bus" THEN "pass" ELSE "answered"
             r == [poll[p] EXCEPT !.at = to]
  <2>0. to \in {"pass", "answered"}
    OBVIOUS
  <2>2. poll' = [poll EXCEPT ![p] = r]
    BY <1>4 DEF PollMark
  <2>1. r \in Polling /\ OfConfig(r)
    <3> HIDE DEF to
    <3>1. poll[p].at = "mark"
      BY <1>4 DEF PollMark
    <3>2. /\ r \in Polling /\ r.at = to /\ r.current = poll[p].current
          /\ r.queue = poll[p].queue /\ r.name = poll[p].name
      <4>1. poll[p] \in Polling /\ poll[p].at \in {"mark", "answered"}
            /\ to \in {"pass", "mark", "answered"}
        BY <1>0, <2>0, <3>1
      <4> QED BY <4>1, GoesOn, Zenon
    <3> HIDE DEF r
    <3> QED BY <1>0, <3>1, <3>2 DEF OfConfig
  <2> HIDE DEF r
  <2> QED BY <1>4, <2>1, <2>2, OneThread DEF PollMark
<1>5. CASE PollAnswered(p)
  <2> DEFINE r == [at |-> "pass", current |-> poll[p].current, queue |-> poll[p].queue]
  <2>1. r \in Polling /\ OfConfig(r)
    BY <1>0, <1>5, Fields DEF PollAnswered, Polling, OfConfig
  <2> QED BY <1>5, <2>1, OneThread DEF PollAnswered
<1>6. CASE UpdateEvents(p)
  <2>1. CASE Errors \union Recoveries = {}
    <3>1. PollIdle \in Polling /\ OfConfig(PollIdle)
      BY DEF Polling, PollIdle, OfConfig
    <3> QED BY <1>6, <2>1, <3>1, OneThread DEF UpdateEvents
  <2>2. CASE Errors \union Recoveries # {}
    <3> DEFINE r == [at |-> "send", about |-> Errors \union Recoveries,
                     send |-> [slave : Errors, code : {"error"}]
                                \union [slave : Recoveries, code : {"ok"}]]
    <3>1. Errors \subseteq Slaves /\ Recoveries \subseteq Slaves
      BY DecidedSlaves
    <3>2. r \in Polling /\ OfConfig(r)
      BY <3>1 DEF Polling, Event, OfConfig
    <3> QED BY <1>6, <2>2, <3>2, OneThread DEF UpdateEvents
  <2> QED BY <2>1, <2>2
<1>7. CASE SendEvent(p)
  <2>1. PICK e \in poll[p].send :
           poll' = [poll EXCEPT ![p] =
               IF poll[p].send = {e} THEN [at |-> "save", about |-> poll[p].about]
               ELSE [poll[p] EXCEPT !.send = @ \ {e}]]
    BY <1>7 DEF SendEvent
  <2>2. CASE poll[p].send = {e}
    <3> DEFINE r == [at |-> "save", about |-> poll[p].about]
    <3>1. r \in Polling /\ OfConfig(r)
      BY <1>0, <1>7, Fields DEF SendEvent, Polling, OfConfig
    <3> QED BY <1>7, <2>1, <2>2, <3>1, OneThread DEF SendEvent
  <2>3. CASE poll[p].send # {e}
    <3> DEFINE r == [poll[p] EXCEPT !.send = @ \ {e}]
    <3>1. r \in Polling /\ OfConfig(r)
      BY <1>0, <1>7, OneSent DEF SendEvent, OfConfig
    <3>2. poll' = [poll EXCEPT ![p] = r]
      BY <2>1, <2>3
    <3> HIDE DEF r
    <3> QED BY <1>7, <3>1, <3>2, OneThread DEF SendEvent
  <2> QED BY <2>2, <2>3
<1>8. CASE PollSave(p)
  <2>1. PollIdle \in Polling /\ OfConfig(PollIdle)
    BY DEF Polling, PollIdle, OfConfig
  <2> QED BY <1>8, <2>1, OneThread DEF PollSave
<1> QED BY <1>1, <1>2, <1>3, <1>4, <1>5, <1>6, <1>7, <1>8 DEF Pass

\* A new configuration leaves no pass that goes by it.
LEMMA ApplyThreads ==
  ASSUME ThreadsOK, ApplyConfig
  PROVE  /\ ThreadsOK'
         /\ \A p \in Ports : poll[p].at \in {"idle", "send", "save"} => poll'[p] = poll[p]
         /\ \A p \in Ports : poll'[p].at = poll[p].at
         /\ \A p \in Ports : poll'[p].at \in {"pass", "mark", "answered"} =>
                poll'[p].current = FALSE
<1>1. poll' = [p \in Ports |-> IF "current" \in DOMAIN poll[p]
                               THEN [poll[p] EXCEPT !.current = FALSE] ELSE poll[p]]
  BY DEF ApplyConfig
<1>2. ASSUME NEW p \in Ports
      PROVE  /\ poll'[p] \in Polling
             /\ poll[p].at \in {"idle", "send", "save"} => poll'[p] = poll[p]
             /\ poll'[p].at = poll[p].at
             /\ poll'[p].at \in {"pass", "mark", "answered"} => poll'[p].current = FALSE
  <2>1. poll[p] \in Polling
    BY DEF ThreadsOK
  <2>2. CASE poll[p].at \in {"pass", "mark", "answered"}
    <3>1. "current" \in DOMAIN poll[p]
      BY <2>1, <2>2, Fields
    <3>2. poll'[p] = [poll[p] EXCEPT !.current = FALSE]
      BY <1>1, <3>1
    <3>3. poll'[p] \in Polling /\ poll'[p].at = poll[p].at /\ poll'[p].current = FALSE
      BY <2>1, <2>2, <3>2, Outdated, Zenon
    <3> QED BY <2>2, <3>3
  <2>3. CASE poll[p].at \in {"idle", "send", "save"}
    <3>1. "current" \notin DOMAIN poll[p]
      BY <2>1, <2>3, Fields
    <3>2. poll'[p] = poll[p]
      BY <1>1, <3>1
    <3> QED BY <2>1, <2>3, <3>2
  <2> QED BY <2>1, <2>2, <2>3, Fields
<1>3. poll' \in [Ports -> Polling]
  BY <1>1, <1>2
<1>4. net' \in Netting /\ net'.at = "saveState"
  BY DEF ApplyConfig, Netting
<1>5. \A p \in Ports : OfConfig(poll[p])'
  BY <1>2 DEF OfConfig
<1> QED BY <1>2, <1>3, <1>4, <1>5 DEF ThreadsOK

\* The other steps of Net, which leave the threads of the ports alone.
LEMMA NetThreads ==
  ASSUME TypeOK, ThreadsOK, WritePoint \/ Net
  PROVE  ThreadsOK' /\ UNCHANGED <<config, poll>>
<1>1. UNCHANGED <<config, poll>>
  BY DEF WritePoint, Net, SaveState, SaveRuntime, WriteMark, WriteAnswered
<1>2. net' \in Netting /\ (net'.at \in {"mark", "answered"} => net'.name \in config)
  <2>1. CASE WritePoint
    <3>1. PICK n \in config \intersect Write : \E result \in Outcome(n) \union {"value"} :
             net' = [at |-> "mark", name |-> n, result |-> result]
      BY <2>1 DEF WritePoint
    <3>2. PICK result \in Outcome(n) \union {"value"} :
             net' = [at |-> "mark", name |-> n, result |-> result]
      BY <3>1
    <3>3. n \in Points /\ result \in Results
      BY AlertsAssumption DEF Outcome, Results
    <3> QED BY <3>2, <3>3 DEF Netting
  <2>2. CASE WriteMark
    <3>1. net \in [at : {"mark", "answered"}, name : Points, result : Results]
      BY <2>2 DEF ThreadsOK, Netting, WriteMark
    <3>2. CASE net.result = "ok"
      BY <2>2, <3>1, <3>2 DEF WriteMark, Netting, ThreadsOK
    <3>3. CASE net.result # "ok"
      BY <2>2, <3>3 DEF WriteMark, Netting, NetIdle
    <3> QED BY <3>2, <3>3
  <2>3. CASE SaveState \/ SaveRuntime \/ WriteAnswered
    BY <2>3 DEF SaveState, SaveRuntime, WriteAnswered, Netting, NetIdle
  <2> QED BY <2>1, <2>2, <2>3 DEF Net
<1>3. \A p \in Ports : OfConfig(poll[p])'
  BY <1>1 DEF ThreadsOK, OfConfig
<1> QED BY <1>1, <1>2, <1>3 DEF ThreadsOK

\* A restart forgets what the threads were doing; nothing else in the world
\* touches them.
LEMMA WorldThreads ==
  ASSUME ThreadsOK, World \/ UNCHANGED vars
  PROVE  ThreadsOK'
<1>1. CASE Restarts
  <2>1. PollIdle \in Polling /\ PollIdle.at = "idle" /\ NetIdle \in Netting /\ NetIdle.at = "idle"
    BY DEF Polling, PollIdle, Netting, NetIdle
  <2> QED BY <1>1, <2>1 DEF Restarts, ThreadsOK, OfConfig
<1>2. CASE (World /\ ~Restarts) \/ UNCHANGED vars
  <2>1. UNCHANGED <<config, poll, net>>
    BY <1>2 DEF World, Ages, Connects, Disconnects, CloudDrops, CloudReturns,
                DeviceBreaks, DeviceReturns, vars, world
  <2> QED BY <2>1 DEF ThreadsOK, OfConfig
<1> QED BY <1>1, <1>2

LEMMA ThreadsNext == TypeOK /\ ThreadsOK /\ [Next]_vars => ThreadsOK'
  BY PassThreads, ApplyThreads, NetThreads, WorldThreads DEF Next

(***************************************************************************)
(* Type correctness.                                                       *)
(***************************************************************************)
\* TypeOK without the threads and the two flags.
DataOK ==
    /\ config \in Configs /\ stateFile \in Configs
    /\ bad \in [Points -> Results]
    /\ aged \subseteq { n \in config : bad[n] # "ok" }
    /\ \A n \in Points \ config : bad[n] = "ok"
    /\ alerted \subseteq SlavesOf(config) /\ answered \subseteq alerted
    /\ runtimeFile.rev \in Configs /\ runtimeFile.alerts \subseteq Slaves
    /\ broken \subseteq Points
    /\ sent \in [Slaves -> {"error", "ok"}] /\ told \in [Slaves -> {"error", "ok"}]
    /\ parted \subseteq Slaves
    /\ events \in 0..MaxEvents

LinksOK == connected \in BOOLEAN /\ online \in BOOLEAN

LEMMA TypeParts == ThreadsOK => (TypeOK <=> DataOK /\ LinksOK)
<1>1. ASSUME ThreadsOK
      PROVE  /\ \A p \in Ports :
                    poll[p].at \in {"idle", "pass", "mark", "answered", "send", "save"}
             /\ net.at \in {"idle", "saveState", "saveRuntime", "mark", "answered"}
  BY <1>1, Fields DEF ThreadsOK, Netting
<1> QED BY <1>1 DEF TypeOK, DataOK, LinksOK

LEMMA LinksType == LinksOK /\ [Next]_vars => LinksOK'
<1> SUFFICES ASSUME LinksOK, [Next]_vars
             PROVE  LinksOK'
  OBVIOUS
<1> USE DEF LinksOK, links
<1>1. CASE \E p \in Ports : StartPass(p) \/ IdlePass(p) \/ Pass(p)
  BY <1>1, Zenon DEF StartPass, IdlePass, Pass, PollRead, PollMark, PollAnswered, UpdateEvents,
                     SendEvent, PollSave, world
<1>2. CASE ApplyConfig \/ WritePoint \/ Net
  BY <1>2, Zenon DEF ApplyConfig, WritePoint, Net, SaveState, SaveRuntime, WriteMark,
                     WriteAnswered, world
<1>3. CASE World
  BY <1>3, Zenon DEF World, Ages, Restarts, Connects, Disconnects, CloudDrops, CloudReturns,
                     DeviceBreaks, DeviceReturns, world
<1>4. CASE UNCHANGED vars
  BY <1>4, Zenon DEF vars, world
<1> QED BY <1>1, <1>2, <1>3, <1>4 DEF Next

LEMMA DataInit == Init => DataOK
<1> SUFFICES ASSUME Init PROVE DataOK
  OBVIOUS
<1>1. runtimeFile.rev = config /\ runtimeFile.alerts = {}
  BY DEF Init, RuntimeDoc
<1> QED BY <1>1, AlertsAssumption DEF Init, DataOK, Results

\* A transaction of a point of the configuration changes what is known of it.
LEMMA SetBadData ==
  ASSUME DataOK, NEW n \in config, NEW result \in Results, SetBad(n, result)
  PROVE  /\ bad' \in [Points -> Results]
         /\ aged' \subseteq { m \in config : bad'[m] # "ok" }
         /\ \A m \in Points \ config : bad'[m] = "ok"
  BY AlertsAssumption DEF DataOK, SetBad

\* A save, whether the disk takes it or not.
LEMMA SavesData ==
  ASSUME TypeOK, NEW about \in SUBSET Slaves, SavesRuntime(about), UNCHANGED config
  PROVE  /\ runtimeFile'.rev \in Configs /\ runtimeFile'.alerts \subseteq Slaves
         /\ parted' \subseteq Slaves /\ events' \in 0..MaxEvents
  BY AlertsAssumption, DecidedSlaves DEF SavesRuntime, RuntimeDoc, Happens, TypeOK

LEMMA DataNext ==
  ASSUME TypeOK, ThreadsOK, DataOK, [Next]_vars
  PROVE  DataOK'
<1> USE DEF points, alerts, files, world, links, news
<1>1. ASSUME NEW p \in Ports, PollMark(p)
      PROVE  DataOK'
  <2>1. UNCHANGED <<config, alerts, net, files, world, news, parted, events>>
    BY <1>1 DEF PollMark
  <2>2. CASE poll[p].current
    <3>1. poll[p].name \in config /\ poll[p].result \in Results
      BY <1>1, <2>2, Fields DEF ThreadsOK, OfConfig, PollMark
    <3>2. SetBad(poll[p].name, poll[p].result)
      BY <1>1, <2>2 DEF PollMark
    <3> QED BY <2>1, <3>1, <3>2, SetBadData DEF DataOK, SlavesOf
  <2>3. CASE ~poll[p].current
    BY <1>1, <2>1, <2>3 DEF PollMark, DataOK, SlavesOf
  <2> QED BY <2>2, <2>3
<1>2. ASSUME NEW p \in Ports, PollAnswered(p)
      PROVE  DataOK'
  BY <1>2 DEF PollAnswered, SlaveAnswered, DataOK, SlavesOf
<1>3. ASSUME NEW p \in Ports, UpdateEvents(p)
      PROVE  DataOK'
  <2>1. /\ alerted' = (alerted \union Errors) \ Recoveries
        /\ answered' = (answered \ Errors) \ Recoveries
        /\ \E S : parted' = parted \union (S \intersect (Errors \union Recoveries))
        /\ UNCHANGED <<config, points, files, world, news, events>>
    BY <1>3 DEF UpdateEvents
  <2> QED BY <2>1, DecidedSlaves DEF DataOK, SlavesOf
<1>4. ASSUME NEW p \in Ports, SendEvent(p)
      PROVE  DataOK'
  <2>1. PICK e \in poll[p].send :
           sent' = [sent EXCEPT ![e.slave] = e.code] /\ (Arrives(e) \/ GoesLost)
    BY <1>4 DEF SendEvent
  <2>2. e \in Event
    BY <1>4, <2>1, Fields DEF SendEvent, ThreadsOK
  <2>3. /\ sent' \in [Slaves -> {"error", "ok"}]
        /\ told' = told \/ told' = [told EXCEPT ![e.slave] = e.code]
    BY <2>1, <2>2 DEF Arrives, GoesLost, Event, DataOK
  <2>4. told' \in [Slaves -> {"error", "ok"}] /\ events' \in 0..MaxEvents
    BY <2>1, <2>2, <2>3, AlertsAssumption DEF Arrives, GoesLost, Happens, Event, DataOK
  <2>5. UNCHANGED <<config, points, alerts, files, world, parted>>
    BY <1>4 DEF SendEvent
  <2> QED BY <2>3, <2>4, <2>5 DEF DataOK, SlavesOf
<1>5. ASSUME NEW p \in Ports, PollSave(p)
      PROVE  DataOK'
  <2>1. poll[p].about \subseteq Slaves
    BY <1>5, Fields DEF PollSave, ThreadsOK
  <2>2. SavesRuntime(poll[p].about) /\ UNCHANGED <<config, points, alerts, stateFile, world, news>>
    BY <1>5 DEF PollSave
  <2> QED BY <2>1, <2>2, SavesData DEF DataOK, SlavesOf
<1>6. ASSUME NEW p \in Ports, StartPass(p) \/ IdlePass(p) \/ PollRead(p)
      PROVE  DataOK'
  BY <1>6 DEF StartPass, IdlePass, PollRead, DataOK, SlavesOf
<1>7. CASE ApplyConfig
  <2>1. PICK c \in Configs \ {config} :
           /\ config' = c
           /\ bad' = [n \in Points |-> "ok"] /\ aged' = {}
           /\ alerted' = alerted \intersect SlavesOf(c)
           /\ answered' = answered \intersect SlavesOf(c)
           /\ parted' = parted \union (SlavesOf(config) \ SlavesOf(c))
    BY <1>7 DEF ApplyConfig
  <2>2. UNCHANGED <<files, world, news>> /\ events' \in 0..MaxEvents
    BY <1>7, AlertsAssumption DEF ApplyConfig, Happens, DataOK
  <2> QED BY <2>1, <2>2, DecidedSlaves DEF DataOK, SlavesOf, Results
<1>8. CASE SaveState \/ SaveRuntime
  <2>1. CASE SaveState
    BY <2>1, AlertsAssumption DEF SaveState, Happens, DataOK, SlavesOf
  <2>2. CASE SaveRuntime
    <3>1. SavesRuntime(alerted) /\ UNCHANGED <<config, points, alerts, stateFile, world, news>>
      BY <2>2 DEF SaveRuntime
    <3> QED BY <3>1, SavesData, DecidedSlaves DEF DataOK, SlavesOf
  <2> QED BY <1>8, <2>1, <2>2
<1>9. CASE WritePoint
  BY <1>9, AlertsAssumption DEF WritePoint, Happens, DataOK, SlavesOf
<1>10. CASE WriteMark
  <2>1. net.name \in config /\ net.result \in Results /\ SetBad(net.name, net.result)
    BY <1>10 DEF ThreadsOK, Netting, WriteMark
  <2> QED BY <1>10, <2>1, SetBadData DEF WriteMark, DataOK, SlavesOf
<1>11. CASE WriteAnswered
  BY <1>11 DEF WriteAnswered, SlaveAnswered, DataOK, SlavesOf
<1>12. CASE Restarts
  <2>1. Restored \subseteq SlavesOf(stateFile)
    BY DEF Restored
  <2>2. UNION { Unsaved(p) : p \in Ports } \subseteq Slaves
    BY Fields DEF Unsaved, ThreadsOK
  <2> QED BY <1>12, <2>1, <2>2, DecidedSlaves, AlertsAssumption DEF Restarts, Happens, DataOK, SlavesOf, Results
<1>13. CASE Ages
  BY <1>13 DEF Ages, DataOK, SlavesOf
<1>14. CASE Connects \/ Disconnects \/ CloudDrops \/ CloudReturns
  <2>1. events' \in 0..MaxEvents
    <3>1. Happens \/ events' = events
      BY <1>14, Zenon DEF Connects, Disconnects, CloudDrops, CloudReturns
    <3> QED BY <3>1, AlertsAssumption DEF Happens, DataOK
  <2>2. UNCHANGED <<config, points, alerts, files, broken, news, parted>>
    BY <1>14 DEF Connects, Disconnects, CloudDrops, CloudReturns
  <2> QED BY <2>1, <2>2 DEF DataOK, SlavesOf
<1>15. ASSUME NEW s \in Slaves, DeviceBreaks(s) \/ DeviceReturns(s)
       PROVE  DataOK'
  BY <1>15, AlertsAssumption DEF DeviceBreaks, DeviceReturns, Happens, DataOK, SlavesOf
<1>16. CASE UNCHANGED vars
  BY <1>16 DEF vars, DataOK, SlavesOf
<1> QED BY <1>1, <1>2, <1>3, <1>4, <1>5, <1>6, <1>7, <1>8, <1>9, <1>10, <1>11, <1>12, <1>13,
           <1>14, <1>15, <1>16 DEF Next, Pass, Net, World

LEMMA TypeInit == Init => TypeOK /\ ThreadsOK
  BY ThreadsInit, DataInit, TypeParts DEF Init, LinksOK

LEMMA TypeNext == TypeOK /\ ThreadsOK /\ [Next]_vars => TypeOK' /\ ThreadsOK'
<1> SUFFICES ASSUME TypeOK, ThreadsOK, [Next]_vars
             PROVE  TypeOK' /\ ThreadsOK'
  OBVIOUS
<1>1. DataOK /\ LinksOK
  BY TypeParts
<1>2. ThreadsOK' /\ DataOK' /\ LinksOK'
  BY <1>1, ThreadsNext, DataNext, LinksType
<1>3. /\ \A p \in Ports : poll'[p].at \in {"idle", "pass", "mark", "answered", "send", "save"}
      /\ net'.at \in {"idle", "saveState", "saveRuntime", "mark", "answered"}
  BY <1>2, Fields DEF ThreadsOK, Netting
<1> QED BY <1>2, <1>3 DEF TypeOK, DataOK, LinksOK

LEMMA StaysTyped == Spec => [](TypeOK /\ ThreadsOK)
<1>1. Init => TypeOK /\ ThreadsOK
  BY TypeInit
<1>2. (TypeOK /\ ThreadsOK) /\ [Next]_vars => (TypeOK /\ ThreadsOK)'
  BY TypeNext
<1> QED BY <1>1, <1>2, PTL DEF Spec

(* Every variable keeps its type: in particular only points of the running *)
(* configuration are ever marked as failing, though results are marked     *)
(* after the lock was released, and alerts are only of its slaves.         *)
THEOREM TypeCorrect == Spec => []TypeOK
  BY StaysTyped, PTL

(***************************************************************************)
(* From decided to sent.                                                   *)
(***************************************************************************)
LEMMA SentInit == Init => SentOK
  BY DEF Init, SentOK, Pending, PollIdle

\* A step that sends nothing and decides nothing, but for slaves it parts.
LEMMA SentKept ==
  ASSUME SentOK, sent' = sent, parted \subseteq parted',
         \A s \in Slaves \ parted' : s \in alerted' <=> s \in alerted,
         \A p \in Ports : poll[p].at = "send" \/ poll'[p].at = "send" => poll'[p] = poll[p]
  PROVE  SentOK'
  BY DEF SentOK, Pending

\* An event is decided: nobody else has one of that slave to send, or it is parted.
LEMMA SentUpdate ==
  ASSUME TypeOK, ThreadsOK, SentOK, NEW p \in Ports, UpdateEvents(p)
  PROVE  SentOK'
<1> DEFINE about == Errors \union Recoveries
           fresh == [slave : Errors, code : {"error"}] \union [slave : Recoveries, code : {"ok"}]
<1>1. /\ poll[p].at = "pass"
      /\ alerted' = (alerted \union Errors) \ Recoveries
      /\ poll' = [poll EXCEPT ![p] = IF about = {} THEN PollIdle
                                     ELSE [at |-> "send", about |-> about, send |-> fresh]]
      /\ parted' = parted \union
             { s \in about : \E q \in Ports : poll[q].at = "send" /\ s \in Unsaved(q) }
      /\ sent' = sent
  BY DEF UpdateEvents, news
<1>2. /\ Errors \intersect alerted = {} /\ Recoveries \subseteq alerted
      /\ about \subseteq Slaves
  BY DecidedSlaves
<1>3. \A e \in fresh : /\ e.slave \in about
                       /\ e.code = "error" => e.slave \in Errors
                       /\ e.code # "error" => e.code = "ok" /\ e.slave \in Recoveries
  OBVIOUS
<1> HIDE DEF fresh
<1>4. CASE about = {}
  <2>1. alerted' = alerted /\ parted' = parted
    BY <1>1, <1>4
  <2>2. \A q \in Ports : poll[q].at = "send" \/ poll'[q].at = "send" => poll'[q] = poll[q]
    BY <1>1, <1>4 DEF ThreadsOK, PollIdle
  <2> QED BY <1>1, <2>1, <2>2, SentKept
<1>5. CASE about # {}
  <2>1. /\ poll'[p] = [at |-> "send", about |-> about, send |-> fresh]
        /\ \A q \in Ports \ {p} : poll'[q] = poll[q]
    BY <1>1, <1>5 DEF ThreadsOK
  <2>2. \A s \in about \ parted' : \A q \in Ports : poll[q].at = "send" => s \notin poll[q].about
    BY <1>1 DEF Unsaved
  <2>3. \A q \in Ports : poll'[q].at = "send" => \A e \in poll'[q].send : e.slave \in poll'[q].about
    BY <1>3, <2>1 DEF SentOK
  <2>4. ASSUME NEW s \in about \ parted'
        PROVE  /\ \A q, r \in Ports :
                      /\ poll'[q].at = "send" /\ s \in poll'[q].about
                      /\ poll'[r].at = "send" /\ s \in poll'[r].about
                      => q = r
               /\ \A q \in Ports : poll'[q].at = "send" =>
                      \A e \in poll'[q].send : e.slave = s =>
                          sent[s] # e.code /\ (e.code = "error" <=> s \in alerted')
               /\ \E q \in Ports : poll'[q].at = "send" /\ \E e \in poll'[q].send : e.slave = s
    \* What was sent is what the gateway knew; the news is the opposite.
    <3>1. s \in Slaves \ parted /\ ~Pending(s)
      BY <1>1, <1>2, <2>2 DEF SentOK, Pending
    <3>2. sent[s] = "error" <=> s \in alerted
      BY <3>1 DEF SentOK
    <3>3. sent[s] \in {"error", "ok"}
      BY <3>1 DEF TypeOK
    <3>4. \A e \in fresh : e.slave = s =>
              sent[s] # e.code /\ (e.code = "error" <=> s \in alerted')
      BY <1>1, <1>2, <1>3, <3>2, <3>3
    <3>5. \A q \in Ports : poll'[q].at = "send" /\ s \in poll'[q].about => q = p
      BY <2>1, <2>2
    <3>6. \E e \in fresh : e.slave = s
      <4>1. CASE s \in Errors
        <5>1. [slave |-> s, code |-> "error"] \in fresh
          BY <4>1 DEF fresh
        <5> QED BY <5>1
      <4>2. CASE s \in Recoveries
        <5>1. [slave |-> s, code |-> "ok"] \in fresh
          BY <4>2 DEF fresh
        <5> QED BY <5>1
      <4> QED BY <4>1, <4>2
    <3> QED BY <2>1, <2>3, <3>4, <3>5, <3>6
  <2>5. ASSUME NEW s \in Slaves \ parted', s \notin about
        PROVE  /\ \A q, r \in Ports :
                      /\ poll'[q].at = "send" /\ s \in poll'[q].about
                      /\ poll'[r].at = "send" /\ s \in poll'[r].about
                      => q = r
               /\ \A q \in Ports : poll'[q].at = "send" =>
                      \A e \in poll'[q].send : e.slave = s =>
                          sent[s] # e.code /\ (e.code = "error" <=> s \in alerted')
               /\ (~ \E q \in Ports : poll'[q].at = "send" /\ \E e \in poll'[q].send : e.slave = s)
                      => (sent[s] = "error" <=> s \in alerted')
    <3>1. s \notin parted /\ (s \in alerted' <=> s \in alerted)
      BY <1>1, <2>5
    <3>2. \A e \in fresh : e.slave # s
      BY <1>3, <2>5
    <3>3. \A q \in Ports : poll[q].at = "send" => q # p /\ poll'[q] = poll[q]
      BY <1>1, <2>1
    <3>4. Pending(s) <=> \E q \in Ports : poll'[q].at = "send" /\ \E e \in poll'[q].send : e.slave = s
      BY <2>1, <3>2, <3>3 DEF Pending
    <3> QED BY <2>1, <2>5, <3>1, <3>2, <3>4 DEF SentOK
  <2> QED BY <1>1, <2>3, <2>4, <2>5 DEF SentOK, Pending
<1> QED BY <1>4, <1>5

\* What sending an event does to its thread.
LEMMA SendThread ==
  ASSUME ThreadsOK, NEW p \in Ports, SendEvent(p)
  PROVE  \E e \in poll[p].send :
             /\ sent' = [sent EXCEPT ![e.slave] = e.code]
             /\ \A q \in Ports \ {p} : poll'[q] = poll[q]
             /\ poll'[p].about = poll[p].about
             /\ poll'[p].at \in {"send", "save"}
             /\ poll'[p].at = "send" => poll'[p].send = poll[p].send \ {e}
             /\ poll'[p].at = "save" => poll[p].send = {e}
<1>0. poll[p].at = "send" /\ poll[p] \in Polling
  BY DEF SendEvent, ThreadsOK
<1>1. PICK e \in poll[p].send :
         /\ sent' = [sent EXCEPT ![e.slave] = e.code]
         /\ poll' = [poll EXCEPT ![p] =
                IF poll[p].send = {e} THEN [at |-> "save", about |-> poll[p].about]
                ELSE [poll[p] EXCEPT !.send = @ \ {e}]]
  BY DEF SendEvent
<1>2. CASE poll[p].send = {e}
  BY <1>1, <1>2 DEF ThreadsOK
<1>3. CASE poll[p].send # {e}
  <2> DEFINE r == [poll[p] EXCEPT !.send = @ \ {e}]
  <2>1. poll'[p] = r /\ \A q \in Ports \ {p} : poll'[q] = poll[q]
    BY <1>1, <1>3 DEF ThreadsOK
  <2>2. r.at = "send" /\ r.about = poll[p].about /\ r.send = poll[p].send \ {e}
    BY <1>0, OneSent
  <2> HIDE DEF r
  <2> QED BY <1>1, <2>1, <2>2
<1> QED BY <1>2, <1>3

\* The event is sent: the last one sent is what the gateway knows of that slave.
LEMMA SentSend ==
  ASSUME TypeOK, ThreadsOK, SentOK, NEW p \in Ports, SendEvent(p)
  PROVE  SentOK'
<1>0. poll[p].at = "send" /\ poll[p] \in Polling
  BY DEF SendEvent, ThreadsOK
<1>1. PICK e \in poll[p].send :
         /\ sent' = [sent EXCEPT ![e.slave] = e.code]
         /\ \A q \in Ports \ {p} : poll'[q] = poll[q]
         /\ poll'[p].about = poll[p].about
         /\ poll'[p].at \in {"send", "save"}
         /\ poll'[p].at = "send" => poll'[p].send = poll[p].send \ {e}
         /\ poll'[p].at = "save" => poll[p].send = {e}
  BY SendThread
<1>2. alerted' = alerted /\ parted' = parted
  BY DEF SendEvent, alerts
<1>3. e \in Event /\ poll[p].send \subseteq Event /\ e.slave \in poll[p].about
  BY <1>0, <1>1, Fields DEF SentOK
<1>4. \A q \in Ports : poll'[q].at = "send" =>
          /\ poll[q].at = "send" /\ poll'[q].about = poll[q].about
          /\ poll'[q].send \subseteq poll[q].send
  BY <1>0, <1>1
<1>5. ASSUME NEW s \in Slaves \ parted
      PROVE  /\ \A q \in Ports : poll'[q].at = "send" =>
                    \A f \in poll'[q].send : f.slave = s =>
                        sent'[s] # f.code /\ (f.code = "error" <=> s \in alerted)
             /\ (~ \E q \in Ports : poll'[q].at = "send" /\ \E f \in poll'[q].send : f.slave = s)
                    => (sent'[s] = "error" <=> s \in alerted)
  <2>1. CASE s = e.slave
    <3>1. e.code = "error" <=> s \in alerted
      BY <1>0, <1>1, <2>1 DEF SentOK
    <3>2. sent'[s] = e.code
      BY <1>1, <1>3, <2>1 DEF TypeOK
    <3>3. ASSUME NEW q \in Ports, poll'[q].at = "send", NEW f \in poll'[q].send, f.slave = s
          PROVE  FALSE
      <4>1. poll[q].at = "send" /\ f \in poll[q].send /\ s \in poll[q].about
        BY <1>4, <3>3 DEF SentOK
      <4>2. q = p
        BY <1>0, <1>3, <2>1, <4>1 DEF SentOK
      <4>3. f \in Event /\ f # e
        BY <1>3, <1>1, <3>3, <4>1, <4>2
      <4>4. (f.code = "error" <=> s \in alerted) /\ f.code \in {"error", "ok"} /\ e.code \in {"error", "ok"}
        BY <1>0, <1>3, <3>3, <4>1, <4>3 DEF SentOK, Event
      <4>5. f.code = e.code
        BY <3>1, <4>4
      <4> QED BY <1>3, <2>1, <3>3, <4>3, <4>5 DEF Event
    <3> QED BY <3>1, <3>2, <3>3
  <2>2. CASE s # e.slave
    <3>1. sent'[s] = sent[s]
      BY <1>1, <1>3, <2>2 DEF TypeOK
    <3>2. \A q \in Ports : poll[q].at = "send" => \A f \in poll[q].send :
              f.slave = s => poll'[q].at = "send" /\ f \in poll'[q].send
      BY <1>1, <2>2
    <3>3. ~(\E q \in Ports : poll'[q].at = "send" /\ \E f \in poll'[q].send : f.slave = s) => ~Pending(s)
      BY <3>2 DEF Pending
    <3> QED BY <1>4, <3>1, <3>3 DEF SentOK
  <2> QED BY <2>1, <2>2
<1>6. \A q \in Ports : poll'[q].at = "send" => \A f \in poll'[q].send : f.slave \in poll'[q].about
  BY <1>4 DEF SentOK
<1>7. \A s \in Slaves \ parted : \A q, r \in Ports :
          /\ poll'[q].at = "send" /\ s \in poll'[q].about
          /\ poll'[r].at = "send" /\ s \in poll'[r].about
          => q = r
  BY <1>4 DEF SentOK
<1> QED BY <1>2, <1>5, <1>6, <1>7 DEF SentOK, Pending

(***************************************************************************)
(* From decided to saved to restored.                                      *)
(***************************************************************************)
LEMMA SavedInit == Init => SavedOK
  BY DEF Init, SavedOK, RuntimeDoc

\* A step that writes no file and loses no alert but of slaves it parts or
\* leaves unsettled.
LEMMA SavedKept ==
  ASSUME SavedOK, UNCHANGED <<config, files>>, parted \subseteq parted',
         \A s \in Slaves \ parted' :
             ~Unsettled(s)' => ~Unsettled(s) /\ (s \in alerted' <=> s \in alerted),
         net'.at = "saveState" <=> net.at = "saveState",
         Saving => Saving'
  PROVE  SavedOK'
  BY DEF SavedOK, files

\* What a restart makes of the alerts: those it may lose are parted.
LEMMA RestoredAgree ==
  ASSUME TypeOK, SavedOK, Restarts, NEW s \in Slaves \ parted'
  PROVE  ~Unsettled(s) /\ (s \in alerted' <=> s \in alerted)
<1>1. /\ parted' = parted \union (UNION { Unsaved(p) : p \in Ports })
                     \union (IF Saving \/ stateFile # config THEN alerted ELSE {})
      /\ alerted' = Restored
  BY DEF Restarts, Saving
<1>2. ~Unsettled(s)
  BY <1>1 DEF Unsettled
<1>3. s \in runtimeFile.alerts <=> s \in alerted
  BY <1>1, <1>2 DEF SavedOK
<1>4. s \in alerted => runtimeFile.rev = stateFile /\ s \in SlavesOf(stateFile)
  BY <1>1, <1>2 DEF SavedOK, Saving, TypeOK
<1> QED BY <1>1, <1>2, <1>3, <1>4 DEF Restored

LEMMA SavedRestart ==
  ASSUME TypeOK, SavedOK, Restarts
  PROVE  SavedOK'
<1>1. /\ config' = stateFile /\ files' = files /\ net'.at = "idle" /\ parted \subseteq parted'
      /\ parted' = parted \union (UNION { Unsaved(p) : p \in Ports })
                     \union (IF Saving \/ stateFile # config THEN alerted ELSE {})
  BY DEF Restarts, NetIdle, Saving
<1>2. ASSUME NEW s \in Slaves \ parted'
      PROVE  /\ s \in runtimeFile.alerts <=> s \in alerted'
             /\ s \in alerted' => runtimeFile.rev = stateFile
  <2>1. ~Unsettled(s) /\ (s \in alerted' <=> s \in alerted)
    BY RestoredAgree
  <2>2. s \in alerted => ~Saving /\ stateFile = config
    BY <1>1
  <2> QED BY <1>1, <2>1, <2>2 DEF SavedOK
<1> QED BY <1>1, <1>2 DEF SavedOK, files

LEMMA SentRestart ==
  ASSUME TypeOK, ThreadsOK, SentOK, SavedOK, Restarts
  PROVE  SentOK'
<1>1. /\ sent' = sent /\ parted \subseteq parted'
      /\ \A p \in Ports : poll'[p].at = "idle"
  BY DEF Restarts, PollIdle, news
<1>2. ASSUME NEW s \in Slaves \ parted'
      PROVE  sent[s] = "error" <=> s \in alerted'
  <2>1. ~Unsettled(s) /\ (s \in alerted' <=> s \in alerted)
    BY RestoredAgree
  <2>2. ~Pending(s)
    BY <2>1 DEF Pending, Unsettled, Unsaved, SentOK
  <2> QED BY <1>1, <2>1, <2>2 DEF SentOK
<1> QED BY <1>1, <1>2 DEF SentOK, Pending

(***************************************************************************)
(* The steps that are left, and the theorem.                               *)
(***************************************************************************)
\* A step in which a port's thread neither decides, sends nor saves.
LEMMA QuietThread ==
  ASSUME ThreadsOK, NEW p \in Ports,
         StartPass(p) \/ IdlePass(p) \/ PollRead(p) \/ PollMark(p) \/ PollAnswered(p)
  PROVE  /\ poll[p].at \notin {"send", "save"}
         /\ poll'[p].at \notin {"send", "save"}
         /\ \A q \in Ports \ {p} : poll'[q] = poll[q]
         /\ UNCHANGED <<config, alerted, net, files, sent, parted>>
<1>1. CASE PollMark(p)
  <2>1. PICK to \in {"pass", "answered"} : poll' = [poll EXCEPT ![p].at = to]
    BY <1>1 DEF PollMark
  <2>2. poll'[p] = [poll[p] EXCEPT !.at = to] /\ \A q \in Ports \ {p} : poll'[q] = poll[q]
    BY <2>1 DEF ThreadsOK
  <2>3. poll[p].at = "mark" /\ poll[p] \in Polling
    BY <1>1 DEF PollMark, ThreadsOK
  <2>4. poll'[p].at = to
    BY <2>2, <2>3, GoesOn
  <2> QED BY <1>1, <2>2, <2>3, <2>4 DEF PollMark, alerts, news
<1>2. CASE StartPass(p) \/ IdlePass(p)
  BY <1>2 DEF StartPass, IdlePass, PollIdle, ThreadsOK, alerts, news
<1>3. CASE PollRead(p)
  BY <1>3 DEF PollRead, ThreadsOK, alerts, news
<1>4. CASE PollAnswered(p)
  BY <1>4 DEF PollAnswered, ThreadsOK, news
<1> QED BY <1>1, <1>2, <1>3, <1>4

LEMMA SentNext ==
  ASSUME TypeOK, ThreadsOK, SentOK, SavedOK, [Next]_vars
  PROVE  SentOK'
<1>1. ASSUME NEW p \in Ports, PollSave(p)
      PROVE  SentOK'
  <2>1. /\ poll[p].at = "save" /\ poll'[p].at = "idle"
        /\ \A q \in Ports \ {p} : poll'[q] = poll[q]
        /\ UNCHANGED <<sent, alerted>> /\ parted \subseteq parted'
    BY <1>1 DEF PollSave, PollIdle, ThreadsOK, SavesRuntime, alerts, news
  <2> QED BY <2>1, SentKept
<1>2. ASSUME NEW p \in Ports, StartPass(p) \/ IdlePass(p) \/ PollRead(p) \/ PollMark(p)
                              \/ PollAnswered(p)
      PROVE  SentOK'
  <2>1. /\ poll[p].at # "send" /\ poll'[p].at # "send"
        /\ \A q \in Ports \ {p} : poll'[q] = poll[q]
        /\ UNCHANGED <<sent, alerted, parted>>
    BY <1>2, QuietThread
  <2> QED BY <2>1, SentKept
<1>3. CASE ApplyConfig
  <2>1. PICK c \in Configs : /\ alerted' = alerted \intersect SlavesOf(c)
                             /\ parted' = parted \union (SlavesOf(config) \ SlavesOf(c))
    BY <1>3 DEF ApplyConfig
  <2>2. sent' = sent
    BY <1>3 DEF ApplyConfig, news
  <2>3. \A s \in Slaves \ parted' : s \in alerted' <=> s \in alerted
    BY <2>1 DEF TypeOK
  <2>4. \A p \in Ports : poll[p].at = "send" \/ poll'[p].at = "send" => poll'[p] = poll[p]
    BY <1>3, ApplyThreads
  <2> QED BY <2>1, <2>2, <2>3, <2>4, SentKept
<1>4. CASE WritePoint \/ Net \/ (World /\ ~Restarts) \/ UNCHANGED vars
  <2>1. UNCHANGED <<sent, alerted, poll>> /\ parted \subseteq parted'
    BY <1>4 DEF WritePoint, Net, SaveState, SaveRuntime, SavesRuntime, WriteMark, WriteAnswered, World, Ages,
                Connects, Disconnects, CloudDrops, CloudReturns, DeviceBreaks, DeviceReturns,
                vars, alerts, news
  <2> QED BY <2>1, SentKept
<1> QED BY <1>1, <1>2, <1>3, <1>4, SentUpdate, SentSend, SentRestart DEF Next, Pass

LEMMA SavedNext ==
  ASSUME TypeOK, ThreadsOK, SavedOK, [Next]_vars
  PROVE  SavedOK'
<1>1. ASSUME NEW p \in Ports, StartPass(p) \/ IdlePass(p) \/ PollRead(p) \/ PollMark(p)
                              \/ PollAnswered(p)
      PROVE  SavedOK'
  <2>1. /\ poll[p].at \notin {"send", "save"} /\ \A q \in Ports \ {p} : poll'[q] = poll[q]
        /\ UNCHANGED <<config, files, alerted, parted, net>>
    BY <1>1, QuietThread DEF files
  <2>2. \A s \in Slaves : Unsettled(s) => Unsettled(s)'
    BY <2>1 DEF Unsettled, Unsaved
  <2> QED BY <2>1, <2>2, SavedKept DEF Saving
<1>2. ASSUME NEW p \in Ports, UpdateEvents(p)
      PROVE  SavedOK'
  <2>1. /\ UNCHANGED <<config, files, net>> /\ parted \subseteq parted' /\ poll[p].at = "pass"
        /\ alerted' = (alerted \union Errors) \ Recoveries
        /\ \A q \in Ports \ {p} : poll'[q] = poll[q]
        /\ Errors \union Recoveries # {} =>
               poll'[p].at = "send" /\ poll'[p].about = Errors \union Recoveries
    BY <1>2 DEF UpdateEvents, ThreadsOK
  <2>2. \A s \in Errors \union Recoveries : Unsettled(s)'
    BY <2>1 DEF Unsettled, Unsaved
  <2>3. \A s \in Slaves : Unsettled(s) => Unsettled(s)'
    BY <2>1 DEF Unsettled, Unsaved
  <2> QED BY <2>1, <2>2, <2>3, SavedKept DEF Saving
<1>3. ASSUME NEW p \in Ports, SendEvent(p)
      PROVE  SavedOK'
  <2>1. UNCHANGED <<config, files, alerted, parted, net>> /\ poll[p].at = "send"
    BY <1>3 DEF SendEvent, alerts
  <2>2. /\ \A q \in Ports \ {p} : poll'[q] = poll[q]
        /\ poll'[p].at \in {"send", "save"} /\ poll'[p].about = poll[p].about
    BY <1>3, SendThread
  <2>3. \A s \in Slaves : Unsettled(s) => Unsettled(s)'
    BY <2>1, <2>2 DEF Unsettled, Unsaved
  <2> QED BY <2>1, <2>3, SavedKept DEF Saving
<1>4. ASSUME NEW p \in Ports, PollSave(p)
      PROVE  SavedOK'
  <2>1. /\ SavesRuntime(poll[p].about) /\ UNCHANGED <<config, alerted, net, stateFile>>
        /\ poll[p].at = "save" /\ \A q \in Ports \ {p} : poll'[q] = poll[q]
    BY <1>4 DEF PollSave, ThreadsOK, alerts
  <2>2. \A s \in Slaves : Unsettled(s) => Unsettled(s)' \/ s \in poll[p].about
    BY <2>1 DEF Unsettled, Unsaved
  <2>3. CASE runtimeFile' = RuntimeDoc
    BY <2>1, <2>3 DEF RuntimeDoc, SavedOK
  <2>4. CASE runtimeFile' = runtimeFile /\ parted' = parted \union poll[p].about
    BY <2>1, <2>2, <2>4, SavedKept DEF Saving, files
  <2> QED BY <2>1, <2>3, <2>4 DEF SavesRuntime
<1>5. CASE ApplyConfig
  <2>1. PICK c \in Configs : /\ alerted' = alerted \intersect SlavesOf(c)
                             /\ parted' = parted \union (SlavesOf(config) \ SlavesOf(c))
    BY <1>5 DEF ApplyConfig
  <2>2. \A p \in Ports : Unsaved(p)' = Unsaved(p)
    <3> SUFFICES ASSUME NEW p \in Ports PROVE Unsaved(p)' = Unsaved(p)
      OBVIOUS
    <3>1. poll[p].at \in {"send", "save"} => poll'[p] = poll[p]
      BY <1>5, ApplyThreads
    <3>2. poll'[p].at = poll[p].at
      BY <1>5, ApplyThreads
    <3> QED BY <3>1, <3>2 DEF Unsaved
  <2>3. \A s \in Slaves \ parted' : ~Unsettled(s)' =>
            s \notin parted /\ ~Unsettled(s) /\ (s \in alerted' <=> s \in alerted)
    BY <2>1, <2>2 DEF TypeOK, Unsettled
  <2>4. net'.at = "saveState" /\ files' = files
    BY <1>5 DEF ApplyConfig
  <2> QED BY <2>3, <2>4 DEF SavedOK, Saving, files
<1>6. CASE SaveState
  <2>1. /\ net.at = "saveState" /\ net'.at = "saveRuntime"
        /\ UNCHANGED <<config, alerted, poll, runtimeFile, parted>>
    BY <1>6 DEF SaveState, alerts
  <2>2. \A s \in Slaves : Unsettled(s)' <=> Unsettled(s)
    BY <2>1 DEF Unsettled, Unsaved
  <2> QED BY <2>1, <2>2 DEF SavedOK, Saving
<1>7. CASE SaveRuntime
  <2>1. SavesRuntime(alerted) /\ UNCHANGED <<config, alerted, poll, stateFile>>
    BY <1>7 DEF SaveRuntime, alerts
  <2>2. \A s \in Slaves : Unsettled(s)' <=> Unsettled(s)
    BY <2>1 DEF Unsettled, Unsaved
  <2>3. CASE runtimeFile' = RuntimeDoc
    BY <2>1, <2>3 DEF RuntimeDoc, SavedOK
  <2>4. CASE runtimeFile' = runtimeFile /\ parted' = parted \union alerted
    \* What is open is parted; the others are in the file no more than before.
    BY <2>1, <2>2, <2>4 DEF SavedOK
  <2> QED BY <2>1, <2>3, <2>4 DEF SavesRuntime
<1>8. CASE WritePoint \/ WriteMark \/ WriteAnswered \/ (World /\ ~Restarts) \/ UNCHANGED vars
  <2>1. UNCHANGED <<config, files, alerted, parted, poll>>
    <3>1. CASE WritePoint \/ WriteMark \/ WriteAnswered
      BY <3>1 DEF WritePoint, WriteMark, WriteAnswered, alerts
    <3>2. CASE (World /\ ~Restarts) \/ UNCHANGED vars
      BY <3>2 DEF World, Ages, Connects, Disconnects, CloudDrops, CloudReturns,
                  DeviceBreaks, DeviceReturns, vars, alerts
    <3> QED BY <1>8, <3>1, <3>2
  <2>2. (net'.at # "saveState" /\ net.at # "saveState" /\ ~Saving) \/ net' = net
    <3>1. CASE WritePoint
      BY <3>1 DEF WritePoint, NetIdle, Saving
    <3>2. CASE WriteMark
      <4>1. net \in [at : {"mark", "answered"}, name : Points, result : Results]
        BY <3>2 DEF ThreadsOK, Netting, WriteMark
      <4> QED BY <3>2, <4>1 DEF WriteMark, NetIdle, Saving
    <3>3. CASE WriteAnswered
      BY <3>3 DEF WriteAnswered, Saving
    <3>4. CASE (World /\ ~Restarts) \/ UNCHANGED vars
      BY <3>4 DEF World, Ages, Connects, Disconnects, CloudDrops, CloudReturns,
                  DeviceBreaks, DeviceReturns, vars
    <3> QED BY <1>8, <3>1, <3>2, <3>3, <3>4
  <2>3. \A s \in Slaves : Unsettled(s)' <=> Unsettled(s)
    BY <2>1 DEF Unsettled, Unsaved
  <2> QED BY <2>1, <2>2, <2>3, SavedKept DEF Saving
<1> QED BY <1>1, <1>2, <1>3, <1>4, <1>5, <1>6, <1>7, <1>8, SavedRestart DEF Next, Pass, Net, World

\* The inductive invariant of EventsAlternate.
AlertsInv == SentOK /\ SavedOK

(* docs/config-format.md, Events: no event repeats the one before it, for  *)
(* any number of ports deciding at once and through any edits,             *)
(* disconnections and restarts, outside the windows parted names.          *)
THEOREM Alternate == Spec => []EventsAlternate
<1>1. Init => AlertsInv
  BY SentInit, SavedInit DEF AlertsInv
<1>2. (TypeOK /\ ThreadsOK) /\ AlertsInv /\ [Next]_vars => AlertsInv'
  BY SentNext, SavedNext DEF AlertsInv
<1>3. (TypeOK /\ ThreadsOK) /\ AlertsInv => EventsAlternate
  <2> SUFFICES ASSUME ThreadsOK, SentOK, NEW p \in Ports, poll[p].at = "send",
                      NEW e \in poll[p].send, e.slave \notin parted
               PROVE  sent[e.slave] # e.code
    BY DEF AlertsInv, EventsAlternate
  <2>1. e.slave \in Slaves
    BY Fields DEF ThreadsOK, Event
  <2> QED BY <2>1 DEF SentOK
<1> QED BY <1>1, <1>2, <1>3, StaysTyped, PTL DEF Spec

(***************************************************************************)
(* What a crash leaves.                                                    *)
(***************************************************************************)
\* Outside the windows, the last event sent of a slave, what the gateway has
\* open and what a gateway that crashed now would have open afterwards agree;
\* Blynk agrees with them, unless that one event was lost on its way.
CrashLosesNothing ==
    ~Saving /\ stateFile = config =>
        \A s \in Slaves \ parted : ~Unsettled(s) =>
            /\ s \in alerted <=> sent[s] = "error"
            /\ s \in Restored <=> sent[s] = "error"
            /\ Lost(s) \/ (s \in Restored <=> told[s] = "error")

(* The safety half of ToldInTheEnd: gateway, file and what was sent agree  *)
(* on every slave that no thread is sending or saving an event of, and as  *)
(* long as the disk took what was saved; so that an outage is neither left *)
(* open nor sent twice because the gateway crashed in the middle of it or  *)
(* was edited since.  Blynk may differ in one way only: the last event of  *)
(* the slave was lost between the gateway and Blynk.                       *)
THEOREM CrashKeepsAlerts == Spec => []CrashLosesNothing
<1>1. Init => AlertsInv
  BY SentInit, SavedInit DEF AlertsInv
<1>2. (TypeOK /\ ThreadsOK) /\ AlertsInv /\ [Next]_vars => AlertsInv'
  BY SentNext, SavedNext DEF AlertsInv
<1>3. TypeOK /\ AlertsInv => CrashLosesNothing
  <2> SUFFICES ASSUME TypeOK, SentOK, SavedOK, ~Saving, stateFile = config,
                      NEW s \in Slaves \ parted, ~Unsettled(s)
               PROVE  /\ s \in alerted <=> sent[s] = "error"
                      /\ s \in Restored <=> sent[s] = "error"
                      /\ Lost(s) \/ (s \in Restored <=> told[s] = "error")
    BY DEF AlertsInv, CrashLosesNothing
  <2>1. ~Pending(s)
    BY DEF SentOK, Pending, Unsettled, Unsaved
  <2>2. s \in alerted <=> sent[s] = "error"
    BY <2>1 DEF SentOK
  <2>3. /\ s \in runtimeFile.alerts <=> s \in alerted
        /\ s \in alerted => runtimeFile.rev = config
    BY DEF SavedOK
  <2>4. s \in Restored <=> s \in alerted
    BY <2>3 DEF Restored, TypeOK
  <2>5. Lost(s) \/ told[s] = sent[s]
    BY DEF Lost
  <2> QED BY <2>2, <2>4, <2>5
<1> QED BY <1>1, <1>2, <1>3, StaysTyped, PTL DEF Spec
==============================================================================
