# Verification of blynk-edge-agent

TLA+ models of the agent that runs beside a mosquitto broker on an edge device,
bridges it to Blynk Cloud, updates its own docker stack and lets an app provision
it over BLE. TLC checks the models on small instances; TLAPS proves what is listed
under *What is proved* for every value of the constants.

Paths are those of the repository (`src/` omitted where it is clear).

## 1. The system

One device runs docker containers: **mqtt-bridge** (mosquitto, with one bridge
connection to the cloud), **blynk-agent** (Python, `agent/`) and applications that
speak plain MQTT to the broker. Everything the agent and the applications say to
the cloud goes through mosquitto's bridge; the agent *configures* that bridge by
writing its files and restarting its container, and so cuts its own connection
each time it does.

| Component | State it keeps | Operations | What is hard |
|---|---|---|---|
| Sub-device registry (`agent/gateway.py`, handlers in `agent/agent.py`) | name -> token, role; a copy in memory, one in the datastream `AgentSubDeviceRegistry`, one rendered into the bridge's file | load from the cloud, register an unknown name and publish, ask again on every connect | three writers of one whole value; each change restarts the broker that carries the others, and what is sent before its bridge is back is lost |
| Gateway traffic (`gateway.py` `build_roled_routing`, `agent.py` `_handle_sub_device_traffic`, `_handle_gw_downlink`) | none of its own: registry, mosquitto's remap table and ACL | forward or rewrite uplinks, fan out downlinks | two tables in two processes must divide the traffic without overlap or gap |
| Bridge configuration (`agent.py` `BlynkConfig`, `MqttBridge`) | `blynk.env`, the redirect override, the bridge file, the ACL file, what mosquitto last read | `ensure_current`, `apply_redirect`, `refresh_dns`, save and load | no lock, four callers in three kinds of thread, a crash between any two writes |
| Connectivity watchdog (`agent.py` `_check_connectivity_watchdog`, `_handle_bridge_state`, `_run_reprovisioning`) | time of disconnection, DNS-refresh flag, reprovisioning flag | a tick a minute, notifications, probes, sessions | three kinds of thread share three attributes without a lock; notifications get lost |
| OTA update (`agent.py` `ComposeManager`, `run_apply_only`) | compose file, backups, helper container | fetch, validate, back up, replace, hand over; up, watch, roll back, report | the updater may recreate itself; two processes; power cuts; a second update |
| BLE provisioning (`agent/ble_provisioning.py`) | staged fields, the tasks of connects, the session's result | `set`, `connect`, `reset`, app disconnects, time-out | an asyncio loop with an executor; connects that overlap and share what is staged; NetworkManager may not answer |
| Remote terminal (`agent.py` `_handle_terminal_command`) | two gates, a lock | run a command, publish chunks | commands queue on the lock |
| Diagnostics, system info, upload proxy, relay, reboot | none worth the name | one request or publish each | - |
| Modbus gateway (`examples/modbus-gateway/modbus_gateway`) | running config, failing points, confirmed and written values, open alerts, one probe; two files | apply a config, poll, write, probe, raise and clear events, restart | poll threads, the MQTT thread and bus locks; values confirmed out of order; two files written one after the other |
| Modbus bus (`bus.py`), codec (`codec.py`) | time-outs and backoff per slave; none | read, write, configure; words to values | backoff and resets; widths and rounding |
| Other examples, widget, `install.sh`, image builder, device tests | - | scripts and loops | - |

How they interact: the MQTT client's thread dispatches every message of the agent
(`_on_message`) to a handler and runs it to its end, so a handler is one step with
respect to other messages but not with respect to the *diagnostics thread* (watchdog),
to *reprovisioning threads* (a BLE session with an event loop and an executor of its
own) and to *docker* (which may kill any of them). All of them reach mosquitto only
through files and `docker restart`.

What makes each part correct, in a sentence:

* **Registry** - agent and cloud agree in the end, mosquitto runs the block of what they
  agree on, and the restarts this takes come to an end.
* **Traffic** - an uplink comes out exactly once, on its own Blynk device and under its own
  name; a downlink reaches its sensor and no other.
* **Bridge configuration** - what mosquitto runs, what is on disk and what identity,
  redirect and registry ask for are the same whenever nobody is changing them.
* **Watchdog** - one session at a time, a healthy device is left alone, a disconnected one
  keeps offering provisioning.
* **OTA** - an update is kept or undone as one, no pushed file that docker refuses is ever in
  place, the report is true, and every update ends.
* **Modbus gateway** - the configuration somebody saved runs in the end, the dashboard shows
  what the device confirmed, alerts alternate, and a restart loses or repeats neither.
* **Modbus bus and codec** - a dead slave is skipped and a live one never for long; what
  is written is the value asked for, what is shown is what the register holds.
* **BLE provisioning** - no connect waits for the session to time out, and a device that has
  an identity does not lose it to a session that is meant to bring its network back.

## 2. The modules

Constants carry their assumptions (`ASSUME ...Assumption`); a model's bounds are
the constants called *bound* in its header, and each `.cfg` repeats them. Operators
marked `\* A slip:` are not part of a model: each is a definition as a plausible
mistake in the code would make it, named in `PROJECT.json` under `mutants`; put in
the place of the definition after it, it makes TLC report the property it belongs to.

* **RoledRouting** - pure operators over a registry: which names mosquitto remaps
  (`UnroledNames`), which the agent rewrites (`RoledNames`), which neither may touch
  (`IsExcluded`), the rendered `ConnectionBlock`, `ResolveDsDownlink`. A role or a
  datastream name is the sequence of its words between underscores, a bijection under
  which `startswith(role + "_")` is "proper prefix"; `Words` is what may stand between two.
* **GatewayMode** (extends RoledRouting) - the state the next two share: `devices`, the
  agent's registry, and `loaded`, the block mosquitto runs.
* **SubDeviceRegistry** (extends GatewayMode) - `devices`, `conf`, `loaded` are the
  agent's copy, the block on disk and the block mosquitto read; `outq`, `down` the
  messages under way, `link`, `cloudLink` the two connections. Actions: `Connect`
  (`_on_connect`), `HandleSubDeviceRegistry` (`load_from_payload` and the handler),
  `Discover` (`register_if_unknown`, publish, render), the cloud, the console, and
  restarts of agent and broker. A restart of mosquitto cuts both connections, which come back
  in either order; what the agent publishes before the bridge is back is `DroppedAtBridge`.
  A restart may fail, which leaves mosquitto `stale`. `lost` is a history variable: of what
  the agent says or is told something was lost, and the cloud has received nothing since.
  Lengths are counted in entries (`MaxEntries`).
* **GatewayTraffic** (extends GatewayMode) - follows one message from its sender to
  every place it comes out (`reached`) and to the ACL that turns it away (`refused`), while
  `RegistryEdited` changes the registry under it and restarts mosquitto or fails to. What
  both models have is called `Traffic...` here (`TrafficInit`, `TrafficNext`, `TrafficSpec`,
  `TrafficTypeOK`), so that one module can extend both.
  `BridgedOut` is mosquitto's remap table, `AgentMayWrite` its ACL, `RewriteUplink`
  and `FanOut` the agent's two handlers.
* **GatewayModeProof** (extends SubDeviceRegistry, GatewayTraffic, TLAPS) - the theorems of
  both, and one that ties them.
* **BridgeConf** - `ensure_current` cut at every access to a file or to shared state
  (`EnsureRenders`, `EnsureWritesAcl`, `EnsureTruncates`, ...), one program counter per
  thread that may be inside it; `main`, redirects, registry changes, BLE connects and
  resets as its callers; the process may die anywhere, power may fail anywhere. Three history
  variables name what the properties have to leave out: `missed` (mosquitto was not restarted
  after a write: docker failed or the process died), `overlapped` (two calls did), `outlived`
  (`blynk.env` was given another server while a redirect was on file).
* **BridgeConfProof** (extends BridgeConf, TLAPS) - its theorems.
* **Watchdog** - the three attributes and the three kinds of thread, one action per
  read or blocking call: a probe and the write of what it found are two. Times are ages in
  minutes, saturating at the grace period.
* **WatchdogProof** (extends Watchdog, TLAPS) - its theorems.
* **ComposeUpdate** - the promise of an update: a file is on trial, then kept or
  reverted; `covered` says nothing has voided the promise.
* **OtaUpdate** - agent and helper as two processes over the compose file, the backups
  and docker, one action per docker command or file operation; `Faults` names what may
  go wrong outside the stack itself. A `shutil.copy2` is two steps, between which its target
  is `Torn`; it may fail there, or the power. `faulted`, `cut` and `untold` are history
  variables: a trial was hit from outside the stack, a copy was cut short, the last report was
  lost. Refines `ComposeUpdate` (`KeepsContract`): the
  mapping takes `trial` from how far the two processes are and `live` from the backup
  the rollback would use.
* **OtaUpdateProof** (extends OtaUpdate, TLAPS) - its theorems, the refinement among them.
* **ModbusGateway** - `config`, `confirmed`, `written`, `due`, the two files, the
  subscriptions and the settings of the buses, between paho's thread (`Net`), a thread
  per port (`Poll(p)`) and a world that edits, writes, scans, disconnects and kills.
  A message on its way down passes mosquitto's bridge and the agent's relay: `Cut` loses what
  a bridge or an agent that goes away had not handed on, `RelayMisses` a message that comes
  while the agent is away. `lost` says that the last word on the configuration went that way,
  `unsaved` which of the files the disk refused; both are history variables.
  An action is what a thread does under `_lock` or a bus's lock, or one publish or file
  replacement: `PollRead`, `PollConfirm` and `PollPublish` are one `_poll_point`. A value
  is kept with the register it came from; the code keeps it without, which is what
  `WrittenFits` is about. `doubtful` is a history variable, the registers of which a
  property cannot say what the gateway believes: they changed at the device, a request's
  answer was lost, or the gateway died between a write and saving its value (`Unrecorded`).
* **ModbusGatewayProof** (extends ModbusGateway, TLAPS) - its theorems.
* **ModbusAlerts** - the same threads seen from `_update_events`: `bad` and `aged` are
  `_bad` and what `_bad_since` says of it, `alerted` and `answered` the two flags of a
  `_SlaveAlert`. `UpdateEvents` decides under the lock, `SendEvent` publishes after it,
  `PollSave` saves. A publish goes to the local broker: `sent` is the event published last,
  `told` the one Blynk has heard last, which is an older one if the bridge was down or the
  process died with the event in paho's memory (`GoesLost`). `parted` is a history variable
  that the properties read: the slaves for which the code does not promise that what was
  published and `_slaves` agree, namely those that left the configuration, those whose alert
  was being published or saved when the process died, those whose save the disk refused, and
  those of which two threads publish at once.
* **ModbusAlertsProof** (extends ModbusAlerts, TLAPS) - its theorems.
* **ModbusCodec** - pure operators, `Decode` and `Encode` and what they consist of, for
  points as `parse_config` lets them through, which is what `Parsed` says and
  `BusAssumption` assumes of every point. A value is a number or a text that is none (a
  key of a map may be either). A number is counted in the smallest decimal
  in use, a word has `Base` values; both stand in for the code's through arithmetic only.
* **ModbusBus** (extends ModbusCodec) - one `Bus`, an action per transaction (`Transact`),
  called by the gateway's polls, writes and probes; `_backoff` as a `delay` and the time
  `left` of it; the serial client with the settings it was opened for. `silent` counts the
  time-outs since a slave's last answer, for the properties.
* **ModbusBusProof** (extends ModbusBus, TLAPS) - its theorems and those of the codec.
* **BleSession** - a session as its asyncio loop runs it: an action is what a handler or a task
  does up to its next `await`, one record per connect under way. `Start` to `NetFail` and
  `Connected` are `_do_connect` with `_connect_wifi` and `_connect_cellular`, which differ in
  what they look up. The three questions before an activation (`lookup`, `compare`, `profile`)
  have no time-out and need not be answered (`Untimed`), or fail (`AskFails`); `Signal` gives
  NetworkManager's answer to every connect that listens to the device. A save of the identity
  that the disk refuses, or an exception of `ensure_current`, ends the task without an answer
  (`Raises`); `saved` is the token on disk, which a refused save leaves behind the one in
  memory, and which a reboot brings back. The thread that restarts the bridge outlives the
  cancellation of its task, and `Closes` waits for it.
* **BleSessionProof** (extends BleSession, TLAPS) - its theorems.

MC modules give constants and nothing else; Watchdog and BridgeConf need none beyond
their `.cfg`.

## 3. The runs

| Run | Shows | Bounds |
|---|---|---|
| `registry` | `MosquittoFollowsRegistry`, `RestartsNeedAChange`; under fairness `RegistryConverges` and `ReconnectLoopEnds` | 2 names against a limit of 2 entries, 1 token, an entry for the console, 2 outside events, at most 2 messages under way when a name is discovered |
| `traffic` | `UplinkComesOutOnce`, `UplinkArrives`, `DownlinkComesOut` | 3 names; *every* registry over 7 kinds of entry (2 tokens, a role that begins another, a bad role, none, the placeholder); 1 edit under way; symmetric in the names |
| `watchdog` | `OneSessionAtATime`, `HealthyLeftAlone`; under fairness `HealthySettles`, `OutageOffersProvisioning` | grace of 1 and 2 minutes, 2 session threads, 3 outside events |
| `watchdog_dies` | the diagnostics thread dies between two reads of the clock (finding) | 1 event |
| `ota` | `OnlyValidFiles`, `ReportIsTrue`, `UpdateEnds`, refinement `KeepsContract` | 3 pushes; files that work, crash-loop, are malformed; all six faults |
| `bridge` | `MosquittoRunsDisk`, `DiskIsCurrent`; under fairness `RedirectArrives` | 2 hosts, 2 registries, 2 overlapping BLE connects besides the client's thread, 4 changes, crashes or failures |
| `modbus` | `WrittenFits`, `SubscriptionsFollow`, `SwitchIsTrue`; under fairness `ConfigConverges`, `DashboardConverges` | 1 port with 2 settings, 2 registers, 2 values, a write-only and a read-write point; 3 configurations, two of which give each point the other's register; 3 events (a loss, a refused save or a crash is one), 1 message under way besides the one being handled |
| `modbus_scan` | a scan puts old settings back (finding) | 2 events |
| `alerts` | `EventsAlternate`; under fairness `ToldInTheEnd` | 1 slave with a point that is polled and one that is only written, 2 ports' threads deciding, 3 configurations, 3 events (an outage of either connection, a refused save or a crash is one) |
| `bus` | `BackoffEarned`, `ShownIsRegister`, `WriteIsNearest`; under fairness `ReturnNoticed` | words of 4 values, quarters; 7 kinds of point (i16, i32, u32 in either order, a coil, a bit, a map with two names for one value and one that is no number, scales of a half and of -2, too few decimals), 14 values asked for, on, between and beyond the ends of the ranges; 3 time-outs, delays 1, 2, 3; 2 settings; 2 events |
| `ble` | `IdentityKept`; under fairness `ConnectAnswered` | 2 connects at once, 6 messages of the app, failures, refused saves or reboots, 2 tokens and one too short, 2 networks, a modem |
| `ble_skip` | a connect without a network reports success (finding) | 1 connect at a time, 4 events |

Why the bounds are enough: every race in these models is between two threads, or a thread and a
restart; two of each kind plus one event to start with and one to disturb reach every pair of
program points. A third name is there where routing needs one (a role, one that begins with it,
and a bystander), a third push for a second backup. Two names fill the registry of `registry`,
whose limit counts entries, so that a discovery meets it. A word of four values has every
boundary one of 65536 has: the sign bit, both ends, and a carry between words. One slave is
enough in `bus` since slaves share nothing but the client; that they do not disturb each
other's backoff is proved. Deadlock is not checked: with the bounded events used up and all
messages delivered the device is quiet, and the model rests.

**Fairness.** Weak fairness of the steps of running threads (the operating system schedules
them), of delivery on a connection that is up (MQTT over TCP), of reconnecting (paho and
mosquitto retry for ever), of the passing of a minute and of a BLE session ending
(`INACTIVITY_TIMEOUT`). Never of anything a user, the cloud, a network or a failure does.
`HealthySettles` assumes the cloud stays reachable; `RegistryConverges` that the last loss is
followed by a message that gets through (`<>[]~lost`), since nobody repeats a `get/ds` that
found the bridge down; `ReconnectLoopEnds` that messages do not go on being lost;
`RedirectArrives` that docker restarts what it is told to, calls did not overlap and nothing
was deployed over the redirect. Each assumption is the antecedent of the formula. In
`OtaUpdate` a stack that does not work may be one in which the agent does not start, and with a
torn compose file it raises at every connection, so fairness of the agent is given up there
(`AgentWell`). `ConfigConverges` assumes that the last word on the configuration was not lost
at the bridge or in the agent's relay, or that the gateway connected and asked again since;
`DashboardConverges` that no scan left a bus at old settings for good. `ToldInTheEnd` needs
strong fairness for the start of a pass with points in it, since a pass with nothing due may
always come instead; it holds of outages and recoveries that last, and leaves out a slave whose
last event was lost (`Lost`). `ReturnNoticed` uses that time passes and points are polled, and
assumes of the slave only that it is up, at the right settings: MaxEvents bounds the answers
that get lost. `ConnectAnswered` uses that tasks go on and `wait_for` times out; not that
NetworkManager answers, a question before the activation or the activation, nor that the
session's own five minutes end it.

## 4. What is proved

Every safety invariant the passing runs check is a theorem for all values of the constants,
and so are the action properties `RestartsNeedAChange`, `HealthyLeftAlone` and `IdentityKept`
and the refinement `KeepsContract`. Of
the liveness properties but one the *safety half* is proved as well: that what is to come
about holds when nothing is left to do, or stays once it holds, or that what is left to do
gets less. The theorems of a component are in the module named after it with `Proof` at the
end. They rest on the component's `ASSUME`, which TLC evaluates for each run's constants,
and on nothing else. Each proof has the same shape: the invariant is strengthened until it
is inductive, one step per action shows that it is, and PTL combines the two. A candidate
invariant was run through TLC before it was proved.

`GatewayModeProof`, for any names, tokens, roles, datastreams and edits:

* `TrafficTypeCorrect`; `ComesOutOnce` and `Arrives`. Neither is inductive, as what has come
  out is the copy mosquitto bridged and the one the agent rewrote, at different times.
  `Traced` says how far a message that nothing moved under is on its way, and what remains
  is about the two tables: no name is in both (`TablesAreApart`) and each message of a name
  in one of them comes out where its entry says (`BridgedWhere`, `RewrittenWhere`).
* `DownlinksComeOut`, the same for the way down (`DownTraced`): what the bridge hands to a
  sensor by itself, and what to the agent. Of two roles of the same length at most one begins
  a datastream (`OnePrefix`), so that the longest that fits has one owner (`OneOwner`), and
  what `FanOut` makes for it is under a topic the ACL gives the agent for reading only
  (`FanOutIsRefused`).
* `RestartIsNeedless`: after a sensor with a role of its own joined a token that roles share,
  the restart the agent forces loads what mosquitto already runs. `NewRole` compares the two
  rendered blocks part by part; `LoadsItsOwn` is what else a restart does.

* `RegistryTypeCorrect`; `BlockFollowsRegistry`, by `BlockFollows`: the file has the
  registry's block, and mosquitto the file's unless docker failed.
* `NeverQuietlyApart`, the safety half of `RegistryConverges`: if the cloud echoes
  (`CloudEchoes`, as in the run), agent and cloud have the same registry whenever the agent is
  connected, nothing is under way and the last loss was made up for, whatever outages and
  restarts of either container came before. `Telling`: of the messages on their way down the
  last one says what the cloud has (`LastTells`), and an agent with names the cloud knows
  nothing of has them on their way up (`UnsetKnown`), both unless something was `lost`.
* `EchoesEnd`, the safety half of `ReconnectLoopEnds`: once both agree and what is under way
  says so, only an edit, a restart from outside or a new name starts another round.
* `RestartsLoadTheBlock` ties the models: whatever changes the registry in the one changes
  the block mosquitto runs only as the other takes it to (`RegistryBecomes`), so that it
  runs the block of the registry as it is or the one it had.

They use that a role is a sequence of words (`RoutingAssumption`) and that a message is not
`None` (`NoMessage`).

`WatchdogProof`, for every grace period, number of threads and number of events:

* `TypeCorrect`. The type invariant is split into flags and data (`TypeParts`), each
  inductive by itself; the flags need no arithmetic.
* `OneSession`. Not inductive: nothing in it says what the diagnostics thread has already
  read. `SessionFlagged` adds that a session is open only while `_reprovisioning` is up and
  that a tick past its first test finds it down. Both hold because only the diagnostics
  thread raises the flag; that is the whole reason the code can do without a lock.
* `FlagDropped`, the converse of `SessionFlagged`: the flag is up *only* while a session is
  open. A flag that nobody drops would make every later tick return at once: the safety half
  of `OutageOffersProvisioning`.
* `HealthStays`, the safety half of `HealthySettles`: there are two ways, and no third, for
  the device itself to disturb its health, a tick that had read the clock before and the write
  of a probe that had failed before; neither begins while it is healthy. One lemma per kind of
  thread (`HealthyTick`, `HealthyNet`, `HealthyThread`, `HealthyWorld`).

`OtaUpdateProof`, for any files, faults and number of pushes:

* `TypeCorrect`; `OnlyValid`, by `ValidKept`: whatever the agent is about to install is a file
  docker accepts, and so is every backup but one that is being written or was cut short; a
  compose file that is not is one a rollback is writing, or a copy was cut short before.
* `TrueReport`, by `Untroubled`: while no trial was hit from outside the stack agent and
  helper take turns, although no lock joins them, the backup goes from one to the other
  (`InTurn`), and the report is behind only between the replacement of the file and its own
  step, or because the last one was lost (`Reported`).
* `Implements`: initial states map to initial states of `ComposeUpdate` and every step to a
  step or a stutter. `InTurn` is what gives the rollback the file that was on trial before.
  It covers stacks that do not work, power cuts that hit no trial and lost reports. A docker
  command or a copy that fails, an overlap and a power cut in a trial void the promise
  (`covered`), and of what comes after the refinement says nothing.
* `WorkingFileKept`, drawn from the refinement, not from the steps: an update that does not
  work never replaces the file that does (as `README.md:185` promises), unless something
  outside the stack fails.
* `UpdatesRunOut`, the safety half of `UpdateEnds`: `Left` counts the steps agent and helper
  can still take, at most 30, and each step of either lowers it, whatever fails.

`BridgeConfProof`, for any servers, tokens, registries and threads:

* `TypeCorrect`; `RunsDisk`, by `DiskOwed`: mosquitto and the disk differ only while some
  thread owes mosquitto a restart, and that thread knows it.
* `DiskCurrent`, by `OnItsWay`: as long as calls do not overlap the one thread at work
  (`OneAtWork`) has rendered what the state asks for now, and what it has passed is on disk.
* `SettlesCurrent` joins the two, the safety half of `RedirectArrives`: what mosquitto runs at
  rest has the redirect on file, also one older than `blynk.env`, which is what the code does.
* `EnsureIsAtomic`: what `ensure_current` promises its callers. A call that ran by itself
  has on return done what it would do in one step, although it reads and writes in seven
  and finds whatever an earlier crash left.

`ModbusGatewayProof`, for any names, registers, configurations, ports and events:

* `TypeCorrect`; `WrittenStaysFit` and `SubscriptionsRight`, by `Base`. What a restart makes
  of the two files depends on what they said when the process died, so `FileFits` says of both
  files at every moment what `WrittenFits` says of the memory; `Linked` and `Subscribed`
  follow the broker's subscriptions through the steps that change them one at a time.
* `SwitchTrue`, by `SwitchInv`: what register, dashboard, memory and file say of a point
  during each step of a write, and that a restart in any of them loses no more than the
  value in hand.
* `RunsWhatWasSaved`, the safety half of `ConfigConverges`, by `ConfigTold`: a connected
  gateway runs the cloud's configuration or the last one on its way to it is that, unless the
  last word on it was lost at the bridge or in the relay. That it is on disk at rest unless
  the disk refused it is from `SwitchInv`.

`ModbusAlertsProof`, for any points, slaves, ports and events:

* `TypeCorrect`; `Alternate`. Between the decision under the lock and the event there is a
  gap, between the event and its saving another. `AlertsInv` says that for a slave that is
  not `parted` the last event published is what `alerted` says unless a thread is about to
  publish it (`SentOK`), and that the file says so too unless a thread is about to save
  (`SavedOK`).
* `CrashKeepsAlerts`, the safety half of `ToldInTheEnd`: outside those two gaps the gateway,
  what a crash would restore and the last event published agree, and Blynk has heard that
  event unless it was lost on its way.

`ModbusBusProof`, for any slaves, delays, points, widths of a word and events:

* `TypeCorrect`; `EarnedBackoff`. Not inductive: before the delay starts the bus knows of
  missed requests only what `_timeouts` counts, afterwards the count is dropped and the
  delay stands for it. `Counted` adds that the count is the number of requests missed while
  there is no delay. That a delay once started never falls back to 0 other than by an answer
  needs `Start` and `Limit` to be positive.
* `NothingHoldsBack`, the safety half of `ReturnNoticed`: an open client always has the
  settings of the bus (`OpenFollows`), so that the backoff of a slave that is back only runs
  down, and the poll after it is answered unless the answer is lost or the port was gone.
* `ShownRight` and `NearestWritten`. The invariants (`ShownInv`, `RequestInv`) only say that
  what was shown and written came out of the codec; the work is in the codec. `WrittenRead`
  and `ReadWritten`: words and numbers of a register's range are in bijection, by two's
  complement (`Complement`, `Uncomplement`) and either word order (`Joined`, `Split`) for any
  even `Base`. `Rounded` and `OneNearest`: rounding half away from zero goes at most half a
  step, and no other number is within less. `ShownAgain` puts them together: a value that is
  shown with enough decimals is asked for as the same words. `Least`, that a set of numbers
  has a minimum, is proved from the well-foundedness of inclusion of finite sets, as the
  usual induction theorem is out of reach here.

`BleSessionProof`, for any tokens, networks, messages of the app and connects under way:

* `KeepsIdentity`: no step takes the token, and one stays staged unless the app itself stages
  something else. The invariant under it, `TasksCarry`: a connect takes a token of the right
  length along from the moment its message is handled. It uses that what the app sets is a
  token or a wrong one, never nothing (`BleAssumption`).
* `TypeCorrect`, which needs the same of the network a connect asks for (`TasksAim`).
* `ConnectsEnd`, the safety half of `ConnectAnswered`: a connect goes through at most nine
  steps, nothing that the app, another connect or NetworkManager does takes one back, and
  while the session is open only its answer ends it (`OnlyAnswersEnd`).

Only model-checked, on the instances above:

* The liveness properties: liveness under fairness and ENABLED are outside what TLAPS does.
  Of each but `DashboardConverges` the safety half is proved (above), and what TLC adds is
  that the steps that are left are taken.

## 5. What the checks found

Each is a run that expects a violation; `PROJECT.json` quotes code and document.

1. *The watchdog's thread* ends in a TypeError if the bridge reconnects between its two
   reads of the clock (`watchdog_dies`).
2. *A scan that ends after an edit* puts the port's old settings back (`modbus_scan`);
   the port then fails until the next edit or restart.
3. *A connect after a failed one* (`ble_skip`): `net_fail` forgets the network but not
   that WiFi was asked for. The next connect compares the network asked for, None, with
   the one joined, None as well, takes WiFi for connected, saves the identity and reports
   `connected`. During reprovisioning this also ends the session as a success while the
   device has no network.

Seen while modelling, and listed as hazards, without a run of their own:

* Traffic before the first answer to `get/ds` makes the agent publish a registry without
  the entries configured in the console.
* A `get/ds` or a registry published while mosquitto's bridge is not back yet is repeated by
  nobody: the agent then keeps another registry than the cloud until it reconnects. A name
  discovered before each lost answer restarts the broker each time around. The comment at
  `agent.py:1215-1222`, that the bridge is "always faster", contradicts the one at
  `agent.py:874-882`.
* Every change of the registry restarts mosquitto (`agent.py:1614-1615`, `1645-1647`), where
  `gateway.py:400-408` says that one more role on a shared token need not; it need not indeed
  (`RestartIsNeedless`).
* A roled downlink is published under topics the rendered ACL (`gateway.py:497`) grants for
  reading only, so that it does not reach the sensor it is for, as `README.md:165` has it.
  `DownlinkComesOut` says both: the right message is made, and refused.
* A session that fails re-arms the DNS refresh (`agent.py:1527`, `1530`), so that mosquitto is
  restarted more than once in an outage in which sessions keep failing, where
  `agent.py:500-501` says "at most once per outage".
* A redirect outlives a deployment: its file is never removed, and wins over a `blynk.env` with
  another server, where `agent.py:402-403` says it holds only until then.
* A copy of the compose file cut short (`agent.py:698`, `913`) leaves part of a file. The
  helper takes the newest backup even if it is such a part (`agent.py:909-910`); with an empty
  compose file `get_version` raises in `_on_connect`, at each connection.
* A second update removes the helper that watches the first; a broken file may then be
  kept as its own backup.
* A configuration lost at the bridge, or in the agent's relay while the agent restarts or has
  not subscribed yet, is asked for again at the gateway's next connection only. One the disk
  refused (`gateway.py:267`) runs, but is never saved: sent again it is unchanged. A refused
  save of the values lets a restart restore older ones.
* An event published while the bridge is down is lost and never repeated, as its alert counts
  as open from then on: the outage, or its end, is not told.
* The questions a connect asks over D-Bus before an activation have no time-out
  (`ble_provisioning.py:956-980`, `1034-1049`); an exception of `config.save` or
  `ensure_current` (`928`, `940-942`) ends it without an answer, and may leave another token
  in memory than on disk.
* A poll under way during an edit stores the old register's value under the point's name:
  `_set_bad` tests for a replaced configuration, the assignment to `_confirmed` four lines
  later does not. The next poll repairs a point that still reads.
* The first of two overlapping connects that fails forgets fields staged since for the other.
* After a reset in a first provisioning, while a connect restarts the bridge, the session
  still ends as a success, and the agent runs without a token until it is restarted.
* A crash between a write on the bus and saving its value (`gateway.py:494`) leaves the
  value before it in the file. After the restart the dashboard shows the newer one, and if
  the next write fails it snaps back to the older, which the register does not hold. The
  same happens to two writable points that share a register, as `parse_config` rejects a
  datastream named twice but not a register. The proof of `SwitchIsTrue` came upon both:
  they take more events than the run allows. The property leaves out what they concern, by
  name (`doubtful`, `WriteOnly`).
* A wrongly cleared outage is not looked at again before the next notification; a poll that
  overlaps a write confirms the older value; a crash between the publication of an alert and
  its saving, or two threads that publish of one slave, repeat an event or swap two.

## 6. What is not modelled

* Texts, logs, JSON formatting, TLS, credentials: no property is about them.
* Of BLE provisioning: `info`, `ifs` and `scan`, which only read; pairing, advertising and the
  packing of notifications; `_handle_reconfigure` (`agent.py:1395-1410`) during a session, which
  is in BridgeConf only. In BridgeConf and Watchdog a session's connect just succeeds or fails.
* `install.sh`, image builder, device tests: they give the initial states.
* Of the Modbus gateway: the status text, replies to probes and the type f32; read and write
  probes are seen as what they do to a register, and `parse_config` as the set of
  configurations it accepts. `rev` names a configuration
  (the widget bumps it on every save, `docs/config-format.md:67`). A publish on a link
  that is down is lost; paho or mosquitto may queue it instead.
* The terminal, diagnostics, upload proxy and relay: one request each; the terminal's
  commands run one after the other under a single lock.
* The console, Blynk Cloud, mosquitto's own protocol and docker: outside `src/`,
  modelled as far as the agent sees them (`external` in the map).
* A file replaced by a rename is taken as whole and durable, although no writer calls fsync.
* Two threads writing `blynk.env` through the same temporary file: `save` is one step.

## 7. Plan

Done first, because a device is lost without it: bridge configuration, watchdog, OTA, then
the gateway mode and the Modbus gateway's configuration and values; then what those left
open: alerts, bus and codec, the provisioning session. Of the rest only the replies to
probes (every accepted probe is answered once) and the composition of a BLE session with
the watchdog's clock would add behaviour.

Theorems worth proving next: the safety half of `DashboardConverges`, that a point whose
shown value is not the register's is due, or being polled, or gets due with time, and that a
poll of the running configuration never takes it away from the register's.
