-------------------------- MODULE GatewayTraffic --------------------------
(***************************************************************************)
(* One message of a sub-device, or one downlink to it, on its way through  *)
(* mosquitto, its bridge and the agent (agent.py                           *)
(* _handle_sub_device_traffic, _rewrite_and_republish_uplink and           *)
(* _handle_gw_downlink), while the console edits the registry under it.    *)
(*                                                                         *)
(* A message carries no state of its own from one to the next, so one at a *)
(* time is enough: sent is the message we follow, toAgent what the agent's *)
(* client holds of it, reached the places where it came out and refused    *)
(* what the agent made of it and acl.rules did not let through.            *)
(***************************************************************************)
EXTENDS GatewayMode

CONSTANTS
    DsNames,  \* datastream names as a sub-device or a console writes them
    Values,   \* the entries a registry is made of in this instance
    MaxEdits, \* bound: registry changes
    None      \* no message is being followed

ASSUME TrafficAssumption ==
    /\ \A ds \in DsNames : ds \in Seq(Words) /\ ds # << >>
    /\ Values \subseteq Entry
    /\ MaxEdits \in Nat

VARIABLES
    sent,     \* the message we follow
    toAgent,  \* broker messages the agent's client has received, unhandled
    reached,  \* where the message came out: Blynk devices, or sub-devices
    refused,  \* what the agent published of it and mosquitto dropped
    calm,     \* nothing has touched devices or loaded since it was sent
    edits     \* how many registry changes there have been

trafficVars == <<devices, loaded, sent, toAgent, reached, refused, calm, edits>>

\* Topics under sub/<name>/: what the gateway block forwards of each.  A
\* batch_ds whose payload is not a JSON object is a kind of its own: mosquitto
\* does not look into it, the agent drops it.
RoledKinds == {"ds", "batch_ds", "event"}
UplinkKinds == RoledKinds \union {"bad_batch", "info", "meta", "get"}
PrefixedKinds == {"ds", "batch_ds"}

SubTopic(n, kind, ds) == [ns |-> "sub", name |-> n, kind |-> kind, ds |-> ds]
GwTopic(t, kind, ds) == [ns |-> "gw", token |-> t, kind |-> kind, ds |-> ds]

AtCloud(t, kind, ds) == [at |-> "cloud", token |-> t, kind |-> kind, ds |-> ds]
AtSubDevice(n, kind, ds) == [at |-> "sub", name |-> n, kind |-> kind, ds |-> ds]

Uplinks ==
    { SubTopic(n, kind, ds) : n \in Names, kind \in PrefixedKinds, ds \in DsNames }
      \union { SubTopic(n, kind, << >>) : n \in Names, kind \in UplinkKinds \ PrefixedKinds }

\* What Blynk Cloud may send to a device: a datastream, or something else.
CloudDownlinks ==
    { AtCloud(t, "ds", ds) : t \in Tokens, ds \in DsNames \union
                                { r \o ds : r \in Roles, ds \in DsNames } }
      \union { AtCloud(t, "other", << >>) : t \in Tokens }

ASSUME NoMessage == None \notin Uplinks \union CloudDownlinks

TrafficTypeOK ==
    /\ devices \in Registry
    /\ loaded \in Block
    /\ sent \in Uplinks \union CloudDownlinks \union {None}
    /\ calm \in BOOLEAN
    /\ \A m \in toAgent : m.ns \in {"sub", "gw"}
    /\ \A p \in reached :
           IF p.at = "cloud" THEN p.token \in Tokens ELSE p.name \in Names
    /\ \A m \in refused : m.ns \in {"sub", "gw"}
    /\ edits \in 0..MaxEdits

\* The agent has loaded some registry and mosquitto runs with its block.
TrafficInit ==
    /\ devices \in { d \in Registry : \A n \in DOMAIN d : d[n] \in Values }
    /\ loaded = ConnectionBlock(devices)
    /\ sent = None
    /\ toAgent = {}
    /\ reached = {}
    /\ refused = {}
    /\ calm = TRUE
    /\ edits = 0

(***************************************************************************)
(* mosquitto's part: the bridge's remap lines out of and into the broker.  *)
(***************************************************************************)
BridgedOut(m) ==
    IF m.ns = "sub"
    THEN { AtCloud(p[2], m.kind, m.ds) : p \in { q \in loaded.unroled : q[1] = m.name } }
    ELSE { AtCloud(t, m.kind, m.ds) : t \in loaded.roled \intersect {m.token} }

\* acl.rules: under gw/ the agent may write the three roled kinds; under sub/
\* SUB_DEVICE_AGENT_ACL_LINE lets it read only, and mosquitto drops the rest.
AgentMayWrite(m) == m.ns = "gw" /\ m.kind \in RoledKinds

\* Whom the messages the agent publishes reach.
Published(ms) ==
    LET allowed == { m \in ms : AgentMayWrite(m) }
    IN  UNION { BridgedOut(m) : m \in { a \in allowed : a.ns = "gw" } }
          \union { AtSubDevice(a.name, a.kind, a.ds) : a \in { b \in allowed : b.ns = "sub" } }

Refused(ms) == { m \in ms : ~AgentMayWrite(m) }

\* A sub-device publishes; mosquitto bridges it and hands the agent its copy.
SubDevicePublishes(m) ==
    /\ sent = None
    /\ sent' = m
    /\ calm' = TRUE
    /\ reached' = BridgedOut(m)
    /\ toAgent' = {m}
    /\ refused' = {}
    /\ UNCHANGED <<devices, loaded, edits>>

\* A slip: name and token of a remap line taken for one another.
CloudSendsSwapped(d) ==
    /\ sent = None
    /\ sent' = d
    /\ calm' = TRUE
    /\ reached' = { AtSubDevice(p[2], d.kind, d.ds) :
                        p \in { q \in loaded.unroled : q[2] = d.token } }
    /\ toAgent' = {}
    /\ refused' = {}
    /\ UNCHANGED <<devices, loaded, edits>>

\* Blynk Cloud sends a downlink; the bridge puts it on sub/<name>/downlink of
\* an unroled name, or on gw/<token>/downlink for the agent to fan out.
CloudSends(d) ==
    /\ sent = None
    /\ sent' = d
    /\ calm' = TRUE
    /\ reached' = { AtSubDevice(p[1], d.kind, d.ds) :
                        p \in { q \in loaded.unroled : q[2] = d.token } }
    /\ toAgent' = { GwTopic(t, "downlink", d.ds) : t \in loaded.roled \intersect {d.token} }
    /\ refused' = {}
    /\ UNCHANGED <<devices, loaded, edits>>

\* ensure_current(force_restart=True) after the registry became d: mosquitto is
\* restarted and reads the new block, or the restart fails and is only logged.
\* The agent's client may keep what it had already received.
RegistryBecomes(d, kept) ==
    /\ devices' = d
    /\ loaded' \in {ConnectionBlock(d), loaded}
    /\ toAgent' \in {kept, {}}
    /\ calm' = FALSE

\* _rewrite_and_republish_uplink: the gw/ messages made of an uplink.
RewriteUplink(m, entry) ==
    IF m.kind \in RoledKinds
    THEN {GwTopic(entry.token, m.kind,
                  IF m.kind \in PrefixedKinds THEN entry.role \o m.ds ELSE m.ds)}
    ELSE {}

\* _handle_sub_device_traffic: an unknown name is registered unless the value
\* would grow too long, a roled one rewritten, an unroled one left to the bridge.
AgentHandlesUplink(m) ==
    /\ m \in toAgent /\ m.ns = "sub"
    /\ \/ /\ m.name \notin DOMAIN devices
          /\ RegistryBecomes([n \in DOMAIN devices \union {m.name} |->
                                 IF n = m.name THEN PlaceholderEntry ELSE devices[n]],
                             toAgent \ {m})
          /\ UNCHANGED <<reached, refused>>
       \/ /\ toAgent' = toAgent \ {m}
          /\ LET made == UNION { RewriteUplink(m, devices[n]) :
                                     n \in RoledNames(devices) \intersect {m.name} }
             IN  /\ reached' = reached \union Published(made)
                 /\ refused' = refused \union Refused(made)
          /\ UNCHANGED <<devices, loaded, calm>>
    /\ UNCHANGED <<sent, edits>>

\* The sub/ messages _handle_gw_downlink makes of one downlink: to the owner of
\* the longest matching role, stripped, or as it is to everybody on the token.
FanOut(m) ==
    LET owner == ResolveDsDownlink(devices, m.token, m.ds)
    IN  IF owner # {}
        THEN { SubTopic(n, "downlink", StripRole(devices, n, m.ds)) : n \in owner }
        ELSE { SubTopic(n, "downlink", m.ds) : n \in NamesForToken(devices, m.token) }

AgentHandlesGwDownlink(m) ==
    /\ m \in toAgent /\ m.ns = "gw"
    /\ toAgent' = toAgent \ {m}
    /\ reached' = reached \union Published(FanOut(m))
    /\ refused' = refused \union Refused(FanOut(m))
    /\ UNCHANGED <<devices, loaded, sent, calm, edits>>

\* A registry value from the cloud: one entry more, less or other.
RegistryEdited ==
    /\ edits < MaxEdits
    /\ edits' = edits + 1
    /\ \E n \in Names :
           \/ \E entry \in Values :
                  RegistryBecomes([k \in DOMAIN devices \union {n} |->
                                      IF k = n THEN entry ELSE devices[k]], toAgent)
           \/ RegistryBecomes([k \in DOMAIN devices \ {n} |-> devices[k]], toAgent)
    /\ devices' # devices
    /\ UNCHANGED <<sent, reached, refused>>

\* The message has been everywhere it will go; the next one may come.
Done ==
    /\ sent # None
    /\ toAgent = {}
    /\ sent' = None
    /\ reached' = {}
    /\ refused' = {}
    /\ UNCHANGED <<devices, loaded, toAgent, calm, edits>>

TrafficNext ==
    \/ \E m \in Uplinks : SubDevicePublishes(m)
    \/ \E d \in CloudDownlinks : CloudSends(d)
    \/ \E m \in toAgent : AgentHandlesUplink(m) \/ AgentHandlesGwDownlink(m)
    \/ RegistryEdited
    \/ Done

TrafficSpec == TrafficInit /\ [][TrafficNext]_trafficVars

-----------------------------------------------------------------------------

\* Nothing moved under the message and mosquitto runs what the registry says.
Settled == calm /\ loaded = ConnectionBlock(devices)

IsUplink(m) == m # None /\ "ns" \in DOMAIN m

(* In a settled system a sub-device's message comes out on one Blynk       *)
(* device at most, on the device of its own token and under its own role;  *)
(* a sensor that shares its token never writes an unprefixed datastream.   *)
(* The bridge forwards a copy and the agent rewrites another: the two      *)
(* tables must never both take the message.                                *)
UplinkComesOutOnce ==
    IsUplink(sent) /\ Settled =>
        /\ Cardinality(reached) <= 1
        /\ \A p \in reached :
               /\ p.token = devices[sent.name].token
               /\ p.kind \in PrefixedKinds =>
                      p.ds = devices[sent.name].role \o sent.ds
               /\ Siblings(devices, sent.name) # {} => devices[sent.name].role \in Roles

\* The console has left no conflict on n's token.
WellConfigured(n) ==
    /\ n \in DOMAIN devices /\ IsConfigured(devices, n)
    /\ IF Siblings(devices, n) = {}
       THEN devices[n].role \in Roles \union {NoRole}
       ELSE \A m \in Siblings(devices, n) \union {n} :
                /\ devices[m].role \in Roles
                /\ m # n => devices[m].role # devices[n].role

(* A message of a well configured sub-device does come out: no kind of     *)
(* registry falls between the two tables.  README lists the three kinds    *)
(* that a roled sub-device may not forward.                                *)
UplinkArrives ==
    (/\ IsUplink(sent) /\ Settled /\ toAgent = {}
     /\ WellConfigured(sent.name)
     /\ devices[sent.name].role = NoRole \/ sent.kind \in RoledKinds)
    => reached # {}

IsDownlink(m) == m # None /\ "at" \in DOMAIN m

(* In a settled system a downlink comes out on the one sub-device that has *)
(* its token to itself and no role, and on no other.  On a token of roles  *)
(* the agent makes of it what README.md:165 promises: one message, without *)
(* the role, to the sensor with the longest role that begins the           *)
(* datastream, or one to every sensor when none does.  All of these are    *)
(* refused: acl.rules lets the agent only read under sub/ (gateway.py:497),*)
(* so that no sensor with a role gets a downlink, contrary to that promise.*)
DownlinkComesOut ==
    (IsDownlink(sent) /\ Settled /\ toAgent = {}) =>
        LET alone == { n \in Sharing(devices, sent.token) :
                          Siblings(devices, n) = {} /\ devices[n].role = NoRole }
            roled == NamesForToken(devices, sent.token)
            owners == { n \in roled : IsRolePrefix(devices[n].role, sent.ds) }
        IN  /\ reached = { AtSubDevice(n, sent.kind, sent.ds) : n \in alone }
            /\ owners = {} => refused = { SubTopic(n, "downlink", sent.ds) : n \in roled }
            /\ owners # {} =>
                   \E n \in owners :
                       /\ \A m \in owners \ {n} : Len(devices[m].role) < Len(devices[n].role)
                       /\ refused # {}
                       /\ \A m \in refused : /\ m = SubTopic(n, "downlink", m.ds)
                                              /\ RoledDs(devices, n, m.ds) = sent.ds
=============================================================================
