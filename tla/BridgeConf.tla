----------------------------- MODULE BridgeConf -----------------------------
(***************************************************************************)
(* How the agent keeps the running mosquitto in step with what it should   *)
(* bridge (agent.py MqttBridge, BlynkConfig, _handle_redirect,             *)
(* _handle_reconfigure, main; ble_provisioning.py _do_connect).            *)
(*                                                                         *)
(* ensure_current renders a configuration from the stored identity, the    *)
(* redirect in effect and the sub-device registry, writes it and the ACL   *)
(* file, and restarts mosquitto, which reads both only when it starts.  It *)
(* takes no lock, and several threads call it: Net, the MQTT client's (and *)
(* main's before that one exists), and the executor's, one for each        *)
(* "connect" of a BLE provisioning session that has come that far.  An     *)
(* action is what a thread does between two accesses to the files and the  *)
(* state they share.  The process may die at any of them; the files stay,  *)
(* and mosquitto goes on with what it read.                                *)
(***************************************************************************)
EXTENDS Naturals

CONSTANTS
    Hosts,       \* Blynk servers
    Tokens,      \* auth tokens
    Registries,  \* values of the sub-device registry, Unlisted among them
    Unlisted,    \* the empty registry an agent starts with
    Torn,        \* a file whose write was cut short
    Net,         \* the thread of the MQTT client
    Connects,    \* the threads of the executor
    None,
    MaxEvents    \* bound: changes, crashes and failures

ASSUME BridgeConfAssumption ==
    /\ Unlisted \in Registries
    /\ None \notin Hosts \union Tokens
    /\ Net \notin Connects
    /\ MaxEvents \in Nat

Callers == {Net} \union Connects

\* What BRIDGE_TEMPLATE makes of the server, the token and the registry.
Conf == [server : Hosts, token : Tokens \union {None}, registry : Registries]

VARIABLES
    server, token,  \* BlynkConfig, in memory
    env,            \* BlynkConfig.save's file, blynk.env
    override,       \* BRIDGE_HOST_OVERRIDE_FILE; None if absent or empty
    outlived,       \* blynk.env was given a server after the last redirect
    registry,       \* sub_device_registry.devices
    wanted,         \* the ACL this version of the agent renders, 0 or 1
    conf, acl,      \* BRIDGE_CONF_FILE and ACL_FILE
    loaded,         \* what the running mosquitto has read of the two
    phase,          \* what main is at
    session,        \* the BLE session: "shut", "open", "done" or "expired"
    pc, local,      \* each caller of ensure_current: where it is, what it holds
    missed,         \* a write was not followed by a restart of mosquitto
    overlapped,     \* the last calls of ensure_current ran into one another
    events

identity == <<server, token, env, override, outlived>>
disk == <<conf, acl>>
vars == <<identity, registry, wanted, disk, loaded, phase, session, pc, local,
          missed, overlapped, events>>

Idle == [host |-> None, rendered |-> None, forced |-> FALSE, aclChanged |-> FALSE]

TypeOK ==
    /\ server \in Hosts \union {None} /\ token \in Tokens \union {None}
    /\ env \in [server : Hosts \union {None}, token : Tokens \union {None}]
    /\ override \in Hosts \union {None}
    /\ registry \in Registries
    /\ wanted \in {0, 1} /\ acl \in {0, 1}
    /\ conf \in Conf \union {Torn, None}
    /\ loaded \in [conf : Conf \union {Torn, None}, acl : {0, 1}]
    /\ phase \in {"off", "provisioning", "starting", "running", "exiting"}
    /\ session \in {"shut", "open", "done", "expired"}
    /\ pc \in [Callers -> {"idle", "redirect", "render", "acl", "compare", "write", "restart"}]
    /\ local \in [Callers -> [host : Hosts \union {None}, rendered : Conf \union {None},
                              forced : BOOLEAN, aclChanged : BOOLEAN]]
    /\ missed \in BOOLEAN /\ overlapped \in BOOLEAN /\ outlived \in BOOLEAN
    /\ events \in 0..MaxEvents

\* A device fresh from install.sh, with or without an identity.
Init ==
    /\ env \in [server : Hosts, token : Tokens \union {None}]
    /\ server = None /\ token = None
    /\ override = None /\ outlived = FALSE
    /\ registry = Unlisted
    /\ wanted = 0 /\ acl = 0
    /\ conf = None
    /\ loaded = [conf |-> None, acl |-> 0]
    /\ phase = "off"
    /\ session = "shut"
    /\ pc = [c \in Callers |-> "idle"]
    /\ local = [c \in Callers |-> Idle]
    /\ missed = FALSE /\ overlapped = FALSE
    /\ events = 0

Happens == events < MaxEvents /\ events' = events + 1

\* A slip: an absent redirect counts as one.
EffectiveServerUnguarded == override

\* A slip: the stored server comes before the redirect.
EffectiveServerStoredFirst == IF server # None THEN server ELSE override

\* effective_server: a redirect on file comes before the stored server.
EffectiveServer == IF override # None THEN override ELSE server

RenderedFor(host) == [server |-> host, token |-> token, registry |-> registry]
Rendered == RenderedFor(EffectiveServer)

InCall(c) == pc[c] # "idle"

\* c calls ensure_current, for a host of its own or None; overlapped says whether
\* somebody else is in it.
Calls(c, host, forced) ==
    /\ pc' = [pc EXCEPT ![c] = "render"]
    /\ local' = [local EXCEPT ![c] = [Idle EXCEPT !.host = host, !.forced = forced]]
    /\ overlapped' = \E d \in Callers \ {c} : InCall(d)

(***************************************************************************)
(* MqttBridge.ensure_current, called by c.                                 *)
(***************************************************************************)
Steps(c, from, to) == pc[c] = from /\ pc' = [pc EXCEPT ![c] = to]

EnsureRenders(c) ==
    /\ Steps(c, "render", "acl")
    /\ local' = [local EXCEPT ![c].rendered =
                    IF local[c].host # None THEN RenderedFor(local[c].host) ELSE Rendered]
    /\ UNCHANGED <<identity, registry, wanted, disk, loaded, phase, session,
                   missed, overlapped, events>>

\* A slip: that the ACL changed is not remembered.
EnsureWritesAclOnly(c) ==
    /\ Steps(c, "acl", "compare")
    /\ acl' = wanted
    /\ UNCHANGED <<identity, registry, wanted, conf, loaded, phase, session, local,
                   missed, overlapped, events>>

\* _write_acl_file, and whether it changed anything.
EnsureWritesAcl(c) ==
    /\ Steps(c, "acl", "compare")
    /\ acl' = wanted
    /\ local' = [local EXCEPT ![c].aclChanged = acl # wanted]
    /\ UNCHANGED <<identity, registry, wanted, conf, loaded, phase, session,
                   missed, overlapped, events>>

\* The first connect to come back ends the session, if it has not run out.
Returns(c) ==
    /\ local' = [local EXCEPT ![c] = Idle]
    /\ session' = IF c \in Connects /\ session = "open" THEN "done" ELSE session
    /\ phase' = IF c = Net /\ phase = "starting" THEN "running" ELSE phase

\* Nothing changed: mosquitto is left alone.
EnsureSkips(c) ==
    /\ Steps(c, "compare", "idle")
    /\ conf = local[c].rendered /\ ~local[c].aclChanged /\ ~local[c].forced
    /\ Returns(c)
    /\ UNCHANGED <<identity, registry, wanted, disk, loaded, missed, overlapped, events>>

\* The file is unchanged, but the ACL is not or the restart is forced.
EnsureOnlyRestarts(c) ==
    /\ Steps(c, "compare", "restart")
    /\ conf = local[c].rendered
    /\ local[c].aclChanged \/ local[c].forced
    /\ UNCHANGED <<identity, registry, wanted, disk, loaded, phase, session, local,
                   missed, overlapped, events>>

\* write_text truncates the file before it writes it.
EnsureTruncates(c) ==
    /\ Steps(c, "compare", "write")
    /\ conf # local[c].rendered
    /\ conf' = Torn
    /\ UNCHANGED <<identity, registry, wanted, acl, loaded, phase, session, local,
                   missed, overlapped, events>>

EnsureWrites(c) ==
    /\ Steps(c, "write", "restart")
    /\ conf' = local[c].rendered
    /\ UNCHANGED <<identity, registry, wanted, acl, loaded, phase, session, local,
                   missed, overlapped, events>>

\* _restart_mqtt_bridge; a failure is logged and ensure_current returns as usual.
EnsureRestarts(c) ==
    /\ Steps(c, "restart", "idle")
    /\ Returns(c)
    /\ \/ /\ loaded' = [conf |-> conf, acl |-> acl]
          /\ UNCHANGED <<missed, events>>
       \/ /\ Happens
          /\ missed' = TRUE
          /\ UNCHANGED loaded
    /\ UNCHANGED <<identity, registry, wanted, disk, overlapped>>

EnsureCurrent(c) ==
    \/ EnsureRenders(c) \/ EnsureWritesAcl(c) \/ EnsureSkips(c) \/ EnsureOnlyRestarts(c)
    \/ EnsureTruncates(c) \/ EnsureWrites(c) \/ EnsureRestarts(c)

(***************************************************************************)
(* The life of the agent.                                                  *)
(***************************************************************************)
\* A slip: a provisioned agent starts without looking at the bridge.
AgentStartsUnchecked ==
    /\ phase = "off"
    /\ server' = env.server /\ token' = env.token
    /\ registry' = Unlisted
    /\ phase' = IF env.token # None THEN "running" ELSE "provisioning"
    /\ session' = IF env.token # None THEN "shut" ELSE "open"
    /\ UNCHANGED <<env, override, outlived, wanted, disk, loaded, pc, local, missed, overlapped,
                   events>>

\* main: load; then ensure_current, or BLE provisioning without an identity.
AgentStarts ==
    /\ phase = "off"
    /\ server' = env.server /\ token' = env.token
    /\ registry' = Unlisted
    /\ \/ /\ env.token # None
          /\ phase' = "starting"
          /\ Calls(Net, None, FALSE)
          /\ UNCHANGED session
       \/ /\ env.token = None
          /\ phase' = "provisioning"
          /\ session' = "open"
          /\ UNCHANGED <<pc, local, overlapped>>
    /\ UNCHANGED <<env, override, outlived, wanted, disk, loaded, missed, events>>

\* Whatever the threads were doing is over.
ProcessEnds ==
    /\ phase' = "off"
    /\ session' = "shut"
    /\ pc' = [c \in Callers |-> "idle"]
    /\ local' = [c \in Callers |-> Idle]
    /\ overlapped' = FALSE

\* Has c written something that mosquitto has not been told of.
Unfinished(c) == pc[c] \in {"write", "restart"} \/ local[c].aclChanged

\* The agent's container dies, or an update recreates it with another version.
AgentDies ==
    /\ phase # "off" /\ Happens
    /\ ProcessEnds
    /\ wanted' \in {0, 1}
    /\ missed' = (missed \/ \E c \in Callers : Unfinished(c))
    /\ UNCHANGED <<identity, registry, disk, loaded>>

\* Power is lost and comes back: mosquitto reads its files too.
PowerCycles ==
    /\ Happens
    /\ ProcessEnds
    /\ loaded' = [conf |-> conf, acl |-> acl]
    /\ missed' = FALSE
    /\ UNCHANGED <<identity, registry, wanted, disk>>

\* mosquitto restarted for another reason: refresh_dns, an operator.
MosquittoRestarts ==
    /\ Happens
    /\ loaded' = [conf |-> conf, acl |-> acl]
    /\ missed' = FALSE
    /\ UNCHANGED <<identity, registry, wanted, disk, phase, session, pc, local, overlapped>>

\* An operator deploys the stack again with another blynk.env.
Redeploys(host, newToken) ==
    /\ phase = "off" /\ Happens
    /\ env' = [server |-> host, token |-> newToken]
    /\ outlived' = TRUE
    /\ UNCHANGED <<server, token, override, registry, wanted, disk, loaded, phase, session,
                   pc, local, missed, overlapped>>

(***************************************************************************)
(* The handlers that call ensure_current, and those that change what it    *)
(* renders.                                                                *)
(***************************************************************************)
NetHandles == phase = "running" /\ ~InCall(Net)

\* _handle_redirect and apply_redirect: write_text truncates the override first.
HandleRedirect(host) ==
    /\ NetHandles /\ Happens
    /\ override' = None
    /\ pc' = [pc EXCEPT ![Net] = "redirect"]
    /\ local' = [local EXCEPT ![Net].host = host]
    /\ UNCHANGED <<server, token, env, outlived, registry, wanted, disk, loaded, phase, session,
                   missed, overlapped>>

RedirectWrites ==
    /\ pc[Net] = "redirect"
    /\ override' = local[Net].host /\ outlived' = FALSE
    /\ Calls(Net, local[Net].host, FALSE)
    /\ UNCHANGED <<server, token, env, registry, wanted, disk, loaded, phase, session,
                   missed, events>>

\* _handle_sub_device_registry with another value, or a discovery.
HandleRegistry(value) ==
    /\ NetHandles /\ Happens
    /\ value # registry
    /\ registry' = value
    /\ Calls(Net, None, TRUE)
    /\ UNCHANGED <<identity, wanted, disk, loaded, phase, session, missed>>

\* _handle_reconfigure: the token is forgotten and main is left.
HandleReconfigure ==
    /\ NetHandles /\ Happens
    /\ env' = [server |-> server, token |-> None]
    /\ token' = None
    /\ phase' = "exiting"
    /\ UNCHANGED <<server, override, outlived, registry, wanted, disk, loaded, session, pc, local,
                   missed, overlapped>>

\* The interpreter waits for its executor's threads before it ends.
Exits ==
    /\ phase = "exiting" /\ \A c \in Connects : ~InCall(c)
    /\ ProcessEnds
    /\ UNCHANGED <<identity, registry, wanted, disk, loaded, missed, events>>

\* The watchdog reopens BLE provisioning; the stored identity stays.
Reprovisions ==
    /\ phase = "running" /\ session = "shut" /\ Happens
    /\ session' = "open"
    /\ UNCHANGED <<identity, registry, wanted, disk, loaded, phase, pc, local, missed, overlapped>>

\* INACTIVITY_TIMEOUT: the session's tasks are cancelled, the executor goes on.
SessionExpires ==
    /\ session = "open"
    /\ session' = "expired"
    /\ UNCHANGED <<identity, registry, wanted, disk, loaded, phase, pc, local,
                   missed, overlapped, events>>

\* provision returns: asyncio.run has waited for the executor.  After a first
\* session main runs the agent, or exits if nobody came.
SessionEnds ==
    /\ session \in {"done", "expired"} /\ \A c \in Connects : ~InCall(c)
    /\ session' = "shut"
    /\ phase' = IF phase # "provisioning" THEN phase
                ELSE IF session = "done" THEN "running" ELSE "off"
    /\ UNCHANGED <<identity, registry, wanted, disk, loaded, pc, local, missed, overlapped, events>>

\* The end of _do_connect: the app's token and host are stored, the bridge
\* brought up; the restart is forced if the network was changed.  A host the app
\* omits is the stored one.
DoConnect(c, newToken, host) ==
    /\ session = "open" /\ phase # "exiting" /\ ~InCall(c) /\ Happens
    /\ token' = newToken /\ server' = host
    /\ env' = [server |-> host, token |-> newToken]
    /\ outlived' = TRUE
    /\ \E forced \in BOOLEAN : Calls(c, None, forced)
    /\ UNCHANGED <<override, registry, wanted, disk, loaded, phase, session, missed>>

\* _handle_reset: a first session forgets the token, whatever a connect is doing
\* with it; a reprovisioning session keeps it.
HandleReset ==
    /\ session = "open" /\ phase = "provisioning" /\ Happens
    /\ token' = None
    /\ env' = [server |-> server, token |-> None]
    /\ overlapped' = \E c \in Connects : InCall(c)
    /\ UNCHANGED <<server, override, outlived, registry, wanted, disk, loaded, phase, session,
                   pc, local, missed>>

Handlers ==
    \/ \E host \in Hosts : HandleRedirect(host)
    \/ RedirectWrites
    \/ \E value \in Registries : HandleRegistry(value)
    \/ HandleReconfigure \/ Exits
    \/ Reprovisions \/ SessionExpires \/ SessionEnds
    \/ \E c \in Connects, newToken \in Tokens, host \in Hosts : DoConnect(c, newToken, host)
    \/ HandleReset

Next ==
    \/ \E c \in Callers : EnsureCurrent(c)
    \/ AgentStarts \/ AgentDies \/ PowerCycles \/ MosquittoRestarts
    \/ \E host \in Hosts, newToken \in Tokens : Redeploys(host, newToken)
    \/ Handlers

Spec == Init /\ [][Next]_vars

\* Threads go on, and docker starts the agent again.
FairSpec ==
    /\ Spec
    /\ \A c \in Callers : WF_vars(EnsureCurrent(c))
    /\ WF_vars(RedirectWrites)
    /\ WF_vars(AgentStarts \/ Exits \/ SessionEnds)

-----------------------------------------------------------------------------

\* The agent runs and nobody is changing the bridge.
AtRest == phase = "running" /\ \A c \in Callers : ~InCall(c)

(* mosquitto runs what is on disk, however the calls of the two threads    *)
(* fall into one another, unless docker failed to restart it or the agent  *)
(* died before it asked docker to.                                         *)
MosquittoRunsDisk ==
    AtRest /\ ~missed => loaded = [conf |-> conf, acl |-> acl]

(* What is on disk is what the identity, the redirect and the registry     *)
(* ask for, after any crash, torn write or power cut, unless the last      *)
(* calls overlapped: then the slower one may have written what it had      *)
(* rendered before the other's change.                                     *)
DiskIsCurrent ==
    AtRest /\ ~overlapped => conf = Rendered /\ acl = wanted

(* A redirect the agent has noted reaches mosquitto or gives way to the    *)
(* next one, through restarts of the agent and of the device; an agent     *)
(* that is not provisioned any more has nothing to bridge.  Once blynk.env *)
(* has been given another server nothing is asked of the old redirect: the *)
(* code lets it go on winning, against what effective_server says of       *)
(* itself.                                                                 *)
RedirectArrives ==
    [](~missed /\ ~overlapped) =>
        \A host \in Hosts :
            override = host /\ ~outlived
                ~> \/ override # host \/ outlived
                   \/ loaded.conf \in Conf /\ loaded.conf.server = host
                   \/ phase \in {"off", "provisioning", "exiting"}
=============================================================================
