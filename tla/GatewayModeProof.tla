------------------------- MODULE GatewayModeProof -------------------------
(***************************************************************************)
(* Proofs about the gateway mode.  Of its traffic: where a sub-device's    *)
(* message comes out, that it does, what becomes of a downlink, and that a *)
(* sensor added under a role of its own needs no restart of mosquitto,     *)
(* for any names, tokens, roles, datastreams and number of edits.  Of its  *)
(* registry: that mosquitto's block follows it, that it and the cloud's    *)
(* are the same when nothing is left to arrive, and stay so.               *)
(*                                                                         *)
(* That a message comes out once is not inductive: what has come out is    *)
(* the bridge's copy and the agent's together, so Traced says how far the  *)
(* message is on its way, and the lemmas on the two tables that between    *)
(* them they never take it twice and, of a well configured sub-device,     *)
(* never leave it.                                                         *)
(***************************************************************************)
EXTENDS SubDeviceRegistry, GatewayTraffic, FiniteSetTheorems, SequenceTheorems,
        WellFoundedInduction, TLAPS

\* What the agent makes of an uplink under the registry as it is, and where
\* that comes out.
Made(m) == UNION { RewriteUplink(m, devices[n]) : n \in RoledNames(devices) \intersect {m.name} }

Rewritten(m) == Published(Made(m))

GwDownlinks == { GwTopic(t, "downlink", ds) : t \in Tokens, ds \in { d.ds : d \in CloudDownlinks } }

\* The types of what is on its way.
UnderwayOK == toAgent \subseteq Uplinks \union GwDownlinks

ReachedOK ==
    \A p \in reached : p.at \in {"cloud", "sub"}
                       /\ IF p.at = "cloud" THEN p.token \in Tokens ELSE p.name \in Names

RefusedOK == \A m \in refused : m.ns \in {"sub", "gw"}

\* Between two messages nothing is under way.
AtRest == sent = None => toAgent = {} /\ reached = {}

\* An uplink that nothing moved under: bridged, and then handled by the agent.
Traced ==
    IsUplink(sent) /\ calm =>
        \/ toAgent = {sent} /\ reached = BridgedOut(sent)
        \/ toAgent = {} /\ reached = BridgedOut(sent) \union Rewritten(sent)

(***************************************************************************)
(* Registries and their tables.                                            *)
(***************************************************************************)
LEMMA RegistryIs == \A d : d \in Registry <=> \E D \in SUBSET Names : d \in [D -> Entry]
  BY DEF Registry

LEMMA EntryOf ==
  ASSUME NEW d \in Registry, NEW n \in DOMAIN d
  PROVE  /\ n \in Names /\ d[n] \in Entry
         /\ d[n].token \in Tokens \union {Placeholder}
         /\ d[n].role \in Roles \union {NoRole, BadRole}
         /\ d[n].token # Placeholder => d[n].token \in Tokens
  BY RegistryIs DEF Entry

\* A registry with one entry more or other, and with one less.
LEMMA RegistryWith ==
  ASSUME NEW d \in Registry, NEW n \in Names, NEW e \in Entry
  PROVE  [k \in DOMAIN d \union {n} |-> IF k = n THEN e ELSE d[k]] \in Registry
<1>1. PICK D \in SUBSET Names : d \in [D -> Entry]
  BY RegistryIs
<1>2. [k \in DOMAIN d \union {n} |-> IF k = n THEN e ELSE d[k]] \in [D \union {n} -> Entry]
  BY <1>1
<1> QED BY <1>2, RegistryIs

LEMMA RegistryWithout ==
  ASSUME NEW d \in Registry, NEW n
  PROVE  [k \in DOMAIN d \ {n} |-> d[k]] \in Registry
<1>1. PICK D \in SUBSET Names : d \in [D -> Entry]
  BY RegistryIs
<1>2. [k \in DOMAIN d \ {n} |-> d[k]] \in [D \ {n} -> Entry]
  BY <1>1
<1> QED BY <1>2, RegistryIs

\* The roles that match the pattern are neither missing nor bad.
LEMMA RoleKinds ==
  /\ NoRole \notin Roles /\ BadRole \notin Roles /\ NoRole # BadRole
  /\ \A r \in Roles : r \in Seq(Words) /\ Len(r) \in Nat
  BY RoutingAssumption DEF NoRole

\* Only sub-devices with a real token are in one of the tables, and none is in both.
LEMMA TablesAreApart ==
  ASSUME NEW d \in Registry
  PROVE  /\ RoledNames(d) \subseteq DOMAIN d /\ UnroledNames(d) \subseteq DOMAIN d
         /\ \A n \in RoledNames(d) : d[n].token \in Tokens /\ d[n].role \in Roles
         /\ \A n \in UnroledNames(d) :
                d[n].token \in Tokens /\ d[n].role = NoRole /\ Siblings(d, n) = {}
         /\ RoledNames(d) \intersect UnroledNames(d) = {}
<1>1. \A n \in RoledNames(d) : n \in DOMAIN d /\ d[n].token \in Tokens /\ d[n].role \in Roles
  BY EntryOf DEF RoledNames, IsRoledRoute, IsConfigured
<1>2. \A n \in UnroledNames(d) :
          n \in DOMAIN d /\ d[n].token \in Tokens /\ d[n].role = NoRole /\ Siblings(d, n) = {}
  BY EntryOf DEF UnroledNames, IsExcluded, IsConfigured
<1> QED BY <1>1, <1>2, RoleKinds

LEMMA BlockOK ==
  ASSUME NEW d \in Registry
  PROVE  ConnectionBlock(d) \in Block
<1>1. \A n \in DOMAIN d : n \in Names
  BY EntryOf
<1>2. { <<n, d[n].token>> : n \in UnroledNames(d) } \subseteq Names \X Tokens
  BY <1>1, TablesAreApart
<1>3. { d[n].token : n \in RoledNames(d) } \subseteq Tokens
  BY TablesAreApart
<1> QED BY <1>2, <1>3 DEF ConnectionBlock, Block


(***************************************************************************)
(* Types.                                                                  *)
(***************************************************************************)
\* Whatever comes out of the bridge, comes out on a device of the block.
LEMMA BridgedOK ==
  ASSUME loaded \in Block, NEW m
  PROVE  \A p \in BridgedOut(m) : p.at = "cloud" /\ p.token \in Tokens
<1>1. loaded.unroled \subseteq Names \X Tokens /\ loaded.roled \subseteq Tokens
  BY DEF Block
<1> QED BY <1>1 DEF BridgedOut, AtCloud

\* mosquitto lets the agent write under gw/ only.
LEMMA PublishedOK ==
  ASSUME loaded \in Block, NEW ms
  PROVE  \A p \in Published(ms) : p.at = "cloud" /\ p.token \in Tokens
<1>1. \A a \in ms : AgentMayWrite(a) => a.ns # "sub"
  BY DEF AgentMayWrite
<1> QED BY <1>1, BridgedOK DEF Published

LEMMA Topics ==
  /\ \A m \in Uplinks : m.ns = "sub" /\ m.name \in Names /\ m.kind \in UplinkKinds /\ "ns" \in DOMAIN m
                        /\ "at" \notin DOMAIN m
                        /\ m.ds \in DsNames \union {<< >>}
                        /\ m = SubTopic(m.name, m.kind, m.ds)
  /\ \A m \in GwDownlinks : m.ns = "gw"
  /\ \A d \in CloudDownlinks : d.at = "cloud" /\ d.token \in Tokens /\ "ns" \notin DOMAIN d
                               /\ d.ds \in { c.ds : c \in CloudDownlinks }
<1>1. \A m \in Uplinks : m.ns = "sub" /\ m.name \in Names /\ m.kind \in UplinkKinds /\ "ns" \in DOMAIN m
                        /\ "at" \notin DOMAIN m
                        /\ m.ds \in DsNames \union {<< >>}
                        /\ m = SubTopic(m.name, m.kind, m.ds)
  BY DEF Uplinks, SubTopic, UplinkKinds, PrefixedKinds, RoledKinds
<1>2. \A m \in GwDownlinks : m.ns = "gw"
  BY DEF GwDownlinks, GwTopic
<1>3. \A d \in CloudDownlinks : d.at = "cloud" /\ d.token \in Tokens /\ "ns" \notin DOMAIN d
  BY DEF CloudDownlinks, AtCloud
<1> QED BY <1>1, <1>2, <1>3

\* The agent publishes nothing but messages of the two namespaces.
LEMMA RefusedTopics ==
  /\ \A m : \A g \in Refused(Made(m)) : g.ns \in {"sub", "gw"}
  /\ \A m : \A g \in Refused(FanOut(m)) : g.ns \in {"sub", "gw"}
<1>1. ASSUME NEW m, NEW g \in Made(m)
      PROVE  g.ns \in {"sub", "gw"}
  <2>1. PICK n : g \in RewriteUplink(m, devices[n])
    BY DEF Made
  <2>2. PICK t, k, e : g = GwTopic(t, k, e)
    BY <2>1 DEF RewriteUplink
  <2> QED BY <2>2 DEF GwTopic
<1>2. \A m : \A g \in FanOut(m) : g.ns \in {"sub", "gw"}
  BY DEF FanOut, SubTopic
<1> QED BY <1>1, <1>2 DEF Refused

LEMMA CloudNames ==
  ASSUME NEW d \in CloudDownlinks
  PROVE  d.ds \in Seq(Words)
<1>1. \A e \in DsNames : e \in Seq(Words)
  BY TrafficAssumption
<1>2. ASSUME NEW e \in { role \o f : role \in Roles, f \in DsNames }
      PROVE  e \in Seq(Words)
  <2>1. PICK role \in Roles, f \in DsNames : e = role \o f
    OBVIOUS
  <2> QED BY <1>1, <2>1, RoleKinds, ConcatProperties
<1>3. << >> \in Seq(Words)
  BY EmptySeq
<1>4. ASSUME NEW t, NEW e \in DsNames \union { role \o f : role \in Roles, f \in DsNames },
             d = AtCloud(t, "ds", e)
      PROVE  d.ds \in Seq(Words)
  <2>1. e \in Seq(Words)
    BY <1>1, <1>2
  <2> QED BY <1>4, <2>1 DEF AtCloud
<1>5. ASSUME NEW t, d = AtCloud(t, "other", << >>)
      PROVE  d.ds \in Seq(Words)
  BY <1>3, <1>5 DEF AtCloud
<1> QED BY <1>4, <1>5 DEF CloudDownlinks

Base == TrafficTypeOK /\ UnderwayOK /\ ReachedOK /\ AtRest

\* What a new registry does to the bridge, and to what is under way.
LEMMA BecomesOK ==
  ASSUME Base, NEW d \in Registry, NEW kept, kept \subseteq toAgent, RegistryBecomes(d, kept)
  PROVE  /\ devices' \in Registry /\ loaded' \in Block
         /\ toAgent' \subseteq toAgent /\ ~calm'
<1>1. loaded \in Block
  BY DEF Base, TrafficTypeOK, Block
<1>2. devices' = d /\ loaded' \in {ConnectionBlock(d), loaded} /\ toAgent' \in {kept, {}}
  BY DEF RegistryBecomes
<1>3. ~calm'
  BY Zenon DEF RegistryBecomes
<1>4. ConnectionBlock(d) \in Block
  BY BlockOK DEF Block
<1> QED BY <1>1, <1>2, <1>3, <1>4

LEMMA BaseInit == TrafficInit => Base
<1> SUFFICES ASSUME TrafficInit
             PROVE  Base
  OBVIOUS
<1>1. devices \in Registry /\ loaded = ConnectionBlock(devices) /\ sent = None
      /\ toAgent = {} /\ reached = {} /\ refused = {} /\ edits = 0
  BY DEF TrafficInit
<1>2. calm \in BOOLEAN
  BY Zenon DEF TrafficInit
<1>3. loaded \in Block
  BY <1>1, BlockOK
<1>4. 0 \in 0..MaxEdits
  BY TrafficAssumption
<1> QED BY <1>1, <1>2, <1>3, <1>4 DEF Base, TrafficTypeOK, UnderwayOK, ReachedOK, AtRest

\* Each part of Base that a step changes, from what is left of it.
LEMMA BaseFrom ==
  ASSUME devices' \in Registry, loaded' \in Block, sent' \in Uplinks \union CloudDownlinks \union {None},
         calm' \in BOOLEAN, UnderwayOK', ReachedOK', RefusedOK', AtRest', edits' \in 0..MaxEdits
  PROVE  Base'
<1>1. (\A m \in toAgent : m.ns \in {"sub", "gw"})'
  BY Topics DEF UnderwayOK
<1>2. (\A p \in reached : IF p.at = "cloud" THEN p.token \in Tokens ELSE p.name \in Names)'
  BY DEF ReachedOK
<1> QED BY <1>1, <1>2 DEF Base, TrafficTypeOK, Block, RefusedOK

LEMMA BaseNext == Base /\ [TrafficNext]_trafficVars => Base'
<1> SUFFICES ASSUME Base, [TrafficNext]_trafficVars
             PROVE  Base'
  OBVIOUS
<1>t. /\ devices \in Registry /\ loaded \in Block
      /\ sent \in Uplinks \union CloudDownlinks \union {None} /\ edits \in 0..MaxEdits
      /\ calm \in BOOLEAN
      /\ toAgent \subseteq Uplinks \union GwDownlinks /\ ReachedOK /\ RefusedOK /\ AtRest
  BY DEF Base, TrafficTypeOK, Block, UnderwayOK, RefusedOK
<1>1. ASSUME NEW m \in Uplinks, SubDevicePublishes(m)
      PROVE  Base'
  <2>1. /\ sent' = m /\ reached' = BridgedOut(m) /\ toAgent' = {m} /\ refused' = {}
        /\ UNCHANGED <<devices, loaded, edits>>
    BY <1>1 DEF SubDevicePublishes
  <2>2. calm' \in BOOLEAN
    BY <1>1, Zenon DEF SubDevicePublishes
  <2>3. UnderwayOK' /\ ReachedOK' /\ RefusedOK'
    BY <1>t, <2>1, BridgedOK DEF UnderwayOK, ReachedOK, RefusedOK
  <2>4. AtRest'
    BY <2>1, NoMessage DEF AtRest
  <2> QED BY <1>t, <2>1, <2>2, <2>3, <2>4, BaseFrom
<1>2. ASSUME NEW d \in CloudDownlinks, CloudSends(d)
      PROVE  Base'
  <2>1. /\ sent' = d
        /\ reached' = { AtSubDevice(p[1], d.kind, d.ds) : p \in { q \in loaded.unroled : q[2] = d.token } }
        /\ toAgent' = { GwTopic(t, "downlink", d.ds) : t \in loaded.roled \intersect {d.token} }
        /\ refused' = {}
        /\ UNCHANGED <<devices, loaded, edits>>
    BY <1>2 DEF CloudSends
  <2>2. calm' \in BOOLEAN
    BY <1>2, Zenon DEF CloudSends
  <2>3. loaded.unroled \subseteq Names \X Tokens /\ loaded.roled \subseteq Tokens
    BY <1>t DEF Block
  <2>4. UnderwayOK'
    BY <2>1, <2>3 DEF UnderwayOK, GwDownlinks
  <2>5. ReachedOK' /\ RefusedOK'
    BY <2>1, <2>3 DEF ReachedOK, RefusedOK, AtSubDevice
  <2>6. AtRest'
    BY <2>1, NoMessage DEF AtRest
  <2> QED BY <1>t, <2>1, <2>2, <2>4, <2>5, <2>6, BaseFrom
<1>3. ASSUME NEW m \in toAgent, AgentHandlesUplink(m)
      PROVE  Base'
  <2>1. m \in Uplinks /\ m.name \in Names
    BY <1>t, <1>3, Topics DEF AgentHandlesUplink
  <2>2. sent # None /\ UNCHANGED <<sent, edits>>
    BY <1>t, <1>3 DEF AgentHandlesUplink, AtRest
  <2>3. ASSUME NEW d \in Registry, RegistryBecomes(d, toAgent \ {m}), UNCHANGED <<reached, refused>>
        PROVE  Base'
    <3>1. devices' \in Registry /\ loaded' \in Block /\ toAgent' \subseteq toAgent
      BY <2>3, BecomesOK
    <3>2. calm' \in BOOLEAN
      BY <2>3, Zenon DEF RegistryBecomes
    <3>3. UnderwayOK' /\ ReachedOK' /\ RefusedOK' /\ AtRest'
      BY <1>t, <2>2, <2>3, <3>1 DEF UnderwayOK, ReachedOK, RefusedOK, AtRest
    <3> QED BY <1>t, <2>2, <3>1, <3>2, <3>3, BaseFrom
  <2>4. ASSUME toAgent' = toAgent \ {m}, UNCHANGED <<devices, loaded, calm>>,
               reached' = reached \union Rewritten(m), refused' = refused \union Refused(Made(m))
        PROVE  Base'
    <3>1. \A p \in Rewritten(m) : p.at = "cloud" /\ p.token \in Tokens
      BY <1>t, PublishedOK DEF Rewritten
    <3>2. UnderwayOK' /\ ReachedOK' /\ AtRest'
      BY <1>t, <2>2, <2>4, <3>1 DEF UnderwayOK, ReachedOK, AtRest
    <3>4. RefusedOK'
      BY <1>t, <2>4, RefusedTopics DEF RefusedOK
    <3>3. calm' \in BOOLEAN
      BY <1>t, <2>4, Zenon
    <3> QED BY <1>t, <2>2, <2>4, <3>2, <3>3, <3>4, BaseFrom
  <2>5. [n \in DOMAIN devices \union {m.name} |->
            IF n = m.name THEN PlaceholderEntry ELSE devices[n]] \in Registry
    BY <1>t, <2>1, RegistryWith DEF Entry, PlaceholderEntry
  <2> QED BY <1>3, <2>3, <2>4, <2>5 DEF AgentHandlesUplink, Rewritten, Made
<1>4. ASSUME NEW m \in toAgent, AgentHandlesGwDownlink(m)
      PROVE  Base'
  <2>1. /\ toAgent' = toAgent \ {m} /\ reached' = reached \union Published(FanOut(m))
        /\ refused' = refused \union Refused(FanOut(m))
        /\ UNCHANGED <<devices, loaded, sent, edits>>
    BY <1>4 DEF AgentHandlesGwDownlink
  <2>2. calm' \in BOOLEAN
    BY <1>t, <1>4, Zenon DEF AgentHandlesGwDownlink
  <2>3. \A p \in Published(FanOut(m)) : p.at = "cloud" /\ p.token \in Tokens
    BY <1>t, PublishedOK
  <2>4. UnderwayOK' /\ ReachedOK' /\ AtRest'
    BY <1>t, <2>1, <2>3 DEF UnderwayOK, ReachedOK, AtRest
  <2>5. RefusedOK'
    BY <1>t, <2>1, RefusedTopics DEF RefusedOK
  <2> QED BY <1>t, <2>1, <2>2, <2>4, <2>5, BaseFrom
<1>5. CASE RegistryEdited
  <2>1. UNCHANGED <<sent, reached, refused>> /\ edits' \in 0..MaxEdits
    BY <1>t, <1>5, TrafficAssumption DEF RegistryEdited
  <2>2. PICK d \in Registry : RegistryBecomes(d, toAgent)
    <3>1. \A n \in Names, entry \in Values :
              [k \in DOMAIN devices \union {n} |-> IF k = n THEN entry ELSE devices[k]] \in Registry
      BY <1>t, RegistryWith, TrafficAssumption
    <3>2. \A n \in Names : [k \in DOMAIN devices \ {n} |-> devices[k]] \in Registry
      BY <1>t, RegistryWithout
    <3> QED BY <1>5, <3>1, <3>2 DEF RegistryEdited
  <2>3. devices' \in Registry /\ loaded' \in Block /\ toAgent' \subseteq toAgent
    BY <2>2, BecomesOK
  <2>4. calm' \in BOOLEAN
    BY <2>2, Zenon DEF RegistryBecomes
  <2>5. UnderwayOK' /\ ReachedOK' /\ RefusedOK' /\ AtRest'
    BY <1>t, <2>1, <2>3 DEF UnderwayOK, ReachedOK, RefusedOK, AtRest
  <2> QED BY <1>t, <2>1, <2>3, <2>4, <2>5, BaseFrom
<1>6. CASE Done
  <2>1. /\ sent' = None /\ toAgent' = {} /\ reached' = {} /\ refused' = {}
        /\ UNCHANGED <<devices, loaded, edits>>
    BY <1>6 DEF Done
  <2>2. calm' \in BOOLEAN
    BY <1>t, <1>6, Zenon DEF Done
  <2>3. UnderwayOK' /\ ReachedOK' /\ RefusedOK' /\ AtRest'
    BY <2>1 DEF UnderwayOK, ReachedOK, RefusedOK, AtRest
  <2> QED BY <1>t, <2>1, <2>2, <2>3, BaseFrom
<1>7. CASE UNCHANGED trafficVars
  <2>1. UNCHANGED <<devices, loaded, sent, toAgent, reached, refused, edits>>
    BY <1>7 DEF trafficVars
  <2>2. calm' \in BOOLEAN
    BY <1>t, <1>7, Zenon DEF trafficVars
  <2>3. UnderwayOK' /\ ReachedOK' /\ RefusedOK' /\ AtRest'
    BY <1>t, <2>1 DEF UnderwayOK, ReachedOK, RefusedOK, AtRest
  <2> QED BY <1>t, <2>1, <2>2, <2>3, BaseFrom
<1> QED BY <1>1, <1>2, <1>3, <1>4, <1>5, <1>6, <1>7 DEF TrafficNext


LEMMA StaysBase == TrafficSpec => []Base
  BY BaseInit, BaseNext, PTL DEF TrafficSpec

(* The routing keeps its types: only real devices and known names are ever *)
(* reached, and what the agent holds is an uplink of a sub-device or a     *)
(* downlink on a roled token.                                              *)
THEOREM TrafficTypeCorrect == TrafficSpec => []TrafficTypeOK
<1>1. Base => TrafficTypeOK
  BY DEF Base
<1> QED BY <1>1, StaysBase, PTL

(***************************************************************************)
(* A sub-device's message comes out once.                                  *)
(***************************************************************************)
LEMMA TracedNext == Base /\ Traced /\ [TrafficNext]_trafficVars => Traced'
<1> SUFFICES ASSUME Base, Traced, [TrafficNext]_trafficVars, IsUplink(sent'), calm'
             PROVE  \/ toAgent' = {sent'} /\ reached' = BridgedOut(sent)'
                    \/ toAgent' = {} /\ reached' = BridgedOut(sent)' \union Rewritten(sent)'
  BY DEF Traced, IsUplink
<1>1. ASSUME NEW m \in Uplinks, SubDevicePublishes(m)
      PROVE  toAgent' = {sent'} /\ reached' = BridgedOut(sent)'
  BY <1>1 DEF SubDevicePublishes, BridgedOut
<1>2. ASSUME NEW d \in CloudDownlinks, CloudSends(d)
      PROVE  FALSE
  <2>1. sent' = d
    BY <1>2 DEF CloudSends
  <2> QED BY <2>1, Topics DEF IsUplink
<1>3. CASE Done
  BY <1>3 DEF Done, IsUplink
<1>4. CASE RegistryEdited
  <2>1. ~calm'
    BY <1>4, Zenon DEF RegistryEdited, RegistryBecomes
  <2> QED BY <2>1
<1>5. ASSUME UNCHANGED <<sent, devices, loaded>>, calm
      PROVE  /\ sent \in Uplinks
             /\ \/ toAgent = {sent} /\ reached = BridgedOut(sent)
                \/ toAgent = {} /\ reached = BridgedOut(sent) \union Rewritten(sent)
             /\ BridgedOut(sent)' = BridgedOut(sent) /\ Rewritten(sent)' = Rewritten(sent)
  <2>1. sent \in Uplinks
    BY <1>5, Topics DEF Base, TrafficTypeOK, IsUplink
  <2>2. IsUplink(sent)
    BY <1>5
  <2>3. \/ toAgent = {sent} /\ reached = BridgedOut(sent)
        \/ toAgent = {} /\ reached = BridgedOut(sent) \union Rewritten(sent)
    BY <1>5, <2>2 DEF Traced
  <2>4. BridgedOut(sent)' = BridgedOut(sent) /\ Rewritten(sent)' = Rewritten(sent)
    BY <1>5 DEF BridgedOut, Rewritten, Made, Published
  <2> QED BY <2>1, <2>3, <2>4
<1>6. ASSUME NEW m \in toAgent, AgentHandlesUplink(m)
      PROVE  toAgent' = {} /\ reached' = BridgedOut(sent)' \union Rewritten(sent)'
  <2>1. /\ toAgent' = toAgent \ {m} /\ reached' = reached \union Rewritten(m)
        /\ UNCHANGED <<sent, devices, loaded>>
    BY <1>6, Zenon DEF AgentHandlesUplink, RegistryBecomes, Rewritten, Made
  <2>2. calm
    BY <1>6, Zenon DEF AgentHandlesUplink, RegistryBecomes
  <2> QED BY <1>5, <2>1, <2>2
<1>7. ASSUME NEW m \in toAgent, AgentHandlesGwDownlink(m)
      PROVE  FALSE
  <2>1. m.ns = "gw" /\ UNCHANGED <<sent, devices, loaded>>
    BY <1>7 DEF AgentHandlesGwDownlink
  <2>2. calm
    BY <1>7, Zenon DEF AgentHandlesGwDownlink
  <2>3. m = sent /\ sent \in Uplinks
    BY <1>5, <2>1, <2>2
  <2> QED BY <2>1, <2>3, Topics
<1>8. CASE UNCHANGED trafficVars
  <2>1. UNCHANGED <<sent, devices, loaded, toAgent, reached>>
    BY <1>8 DEF trafficVars
  <2>2. calm
    BY <1>8, Zenon DEF trafficVars
  <2> QED BY <1>5, <2>1, <2>2
<1> QED BY <1>1, <1>2, <1>3, <1>4, <1>6, <1>7, <1>8 DEF TrafficNext

LEMMA StaysTraced == TrafficSpec => []Traced
<1>1. TrafficInit => Traced
  BY DEF TrafficInit, Traced, IsUplink
<1> QED BY <1>1, TracedNext, StaysBase, PTL DEF TrafficSpec

\* The bridge takes the messages of the unroled names.
LEMMA BridgedWhere ==
  ASSUME devices \in Registry, loaded = ConnectionBlock(devices), NEW m \in Uplinks
  PROVE  BridgedOut(m) = IF m.name \in UnroledNames(devices)
                         THEN {AtCloud(devices[m.name].token, m.kind, m.ds)} ELSE {}
<1>1. loaded.unroled = { <<n, devices[n].token>> : n \in UnroledNames(devices) }
  BY DEF ConnectionBlock
<1>2. m.ns = "sub"
  BY Topics
<1>3. BridgedOut(m) = { AtCloud(p[2], m.kind, m.ds) : p \in { q \in loaded.unroled : q[1] = m.name } }
  BY <1>2 DEF BridgedOut
<1>4. CASE m.name \in UnroledNames(devices)
  <2> DEFINE line == <<m.name, devices[m.name].token>>
  <2>1. { q \in loaded.unroled : q[1] = m.name } = {line}
    BY <1>1, <1>4
  <2>2. line[2] = devices[m.name].token
    OBVIOUS
  <2> HIDE DEF line
  <2>3. BridgedOut(m) = {AtCloud(line[2], m.kind, m.ds)}
    BY <1>3, <2>1
  <2> QED BY <1>4, <2>2, <2>3
<1>5. CASE m.name \notin UnroledNames(devices)
  <2>1. { q \in loaded.unroled : q[1] = m.name } = {}
    BY <1>1, <1>5
  <2> QED BY <1>3, <1>5, <2>1
<1> QED BY <1>4, <1>5

\* The agent takes the messages of the roled names, of the three kinds it may write.
LEMMA RewrittenWhere ==
  ASSUME devices \in Registry, loaded = ConnectionBlock(devices), NEW m \in Uplinks
  PROVE  Rewritten(m) = IF m.name \in RoledNames(devices) /\ m.kind \in RoledKinds
                        THEN {AtCloud(devices[m.name].token, m.kind,
                                      IF m.kind \in PrefixedKinds
                                      THEN devices[m.name].role \o m.ds ELSE m.ds)}
                        ELSE {}
<1> DEFINE n == m.name
           ds == IF m.kind \in PrefixedKinds THEN devices[n].role \o m.ds ELSE m.ds
           g == GwTopic(devices[n].token, m.kind, ds)
<1>1. CASE n \notin RoledNames(devices)
  <2>1. Made(m) = {}
    BY <1>1 DEF Made
  <2> QED BY <1>1, <2>1 DEF Rewritten, Published
<1>2. CASE n \in RoledNames(devices) /\ m.kind \notin RoledKinds
  <2>1. Rewritten(m) = Published({})
    BY <1>2 DEF Rewritten, Made, RewriteUplink
  <2> QED BY <1>2, <2>1 DEF Published
<1>3. CASE n \in RoledNames(devices) /\ m.kind \in RoledKinds
  <2>1. RewriteUplink(m, devices[n]) = {g}
    BY <1>3 DEF RewriteUplink
  <2>2. Rewritten(m) = Published({g})
    BY <1>3, <2>1 DEF Rewritten, Made
  <2>3. g.ns = "gw" /\ g.kind = m.kind /\ g.token = devices[n].token /\ g.ds = ds
    BY DEF GwTopic
  <2>4. AgentMayWrite(g)
    BY <1>3, <2>3 DEF AgentMayWrite
  <2> HIDE DEF g, ds
  <2>5. Published({g}) = BridgedOut(g)
    BY <2>3, <2>4 DEF Published
  <2>6. devices[n].token \in loaded.roled
    BY <1>3 DEF ConnectionBlock
  <2>7. BridgedOut(g) = {AtCloud(devices[n].token, m.kind, ds)}
    BY <2>3, <2>6 DEF BridgedOut
  <2> QED BY <1>3, <2>2, <2>5, <2>7 DEF ds
<1> QED BY <1>1, <1>2, <1>3

\* Together they come out of one device, in one form.
LEMMA ComesOutWhere ==
  ASSUME Base, Traced, IsUplink(sent), Settled
  PROVE  /\ sent \in Uplinks
         /\ \A p \in reached :
                \/ sent.name \in UnroledNames(devices)
                   /\ p = AtCloud(devices[sent.name].token, sent.kind, sent.ds)
                \/ sent.name \in RoledNames(devices) /\ sent.kind \in RoledKinds
                   /\ p = AtCloud(devices[sent.name].token, sent.kind,
                                  IF sent.kind \in PrefixedKinds
                                  THEN devices[sent.name].role \o sent.ds ELSE sent.ds)
         /\ toAgent = {} => reached = BridgedOut(sent) \union Rewritten(sent)
<1>1. sent \in Uplinks
  BY Topics DEF Base, TrafficTypeOK, IsUplink
<1>2. devices \in Registry /\ loaded = ConnectionBlock(devices) /\ calm
  BY DEF Base, TrafficTypeOK, Settled
<1>3. \/ toAgent = {sent} /\ reached = BridgedOut(sent)
      \/ toAgent = {} /\ reached = BridgedOut(sent) \union Rewritten(sent)
  BY <1>2 DEF Traced
<1> QED BY <1>1, <1>2, <1>3, BridgedWhere, RewrittenWhere

LEMMA OneAtMost ==
  ASSUME NEW S, NEW x, S \subseteq {x}
  PROVE  Cardinality(S) <= 1
<1>1. CASE S = {}
  BY <1>1, FS_EmptySet
<1>2. CASE S = {x}
  BY <1>2, FS_Singleton
<1> QED BY <1>1, <1>2

(* A sub-device's message comes out on one device at most, its own, under  *)
(* its own role, and never unprefixed when others share the token: no name *)
(* is in both tables, and the bridge looks at one and the agent at the     *)
(* other.                                                                  *)
THEOREM ComesOutOnce == TrafficSpec => []UplinkComesOutOnce
<1>1. Base /\ Traced => UplinkComesOutOnce
  <2> SUFFICES ASSUME Base, Traced, IsUplink(sent), Settled
               PROVE  /\ Cardinality(reached) <= 1
                      /\ \A p \in reached :
                             /\ p.token = devices[sent.name].token
                             /\ p.kind \in PrefixedKinds => p.ds = devices[sent.name].role \o sent.ds
                             /\ Siblings(devices, sent.name) # {} => devices[sent.name].role \in Roles
    BY DEF UplinkComesOutOnce
  <2> DEFINE n == sent.name
  <2>1. devices \in Registry /\ sent \in Uplinks
    BY ComesOutWhere DEF Base, TrafficTypeOK
  <2>2. CASE n \in UnroledNames(devices)
    <3>1. /\ n \notin RoledNames(devices) /\ devices[n].role = NoRole /\ Siblings(devices, n) = {}
      BY <2>1, <2>2, TablesAreApart
    <3>2. reached \subseteq {AtCloud(devices[n].token, sent.kind, sent.ds)}
      BY <3>1, ComesOutWhere
    <3>3. sent.kind \in PrefixedKinds => sent.ds = devices[n].role \o sent.ds
      <4>1. sent.kind \in PrefixedKinds => sent.ds \in DsNames
        BY <2>1 DEF Uplinks, SubTopic
      <4> QED BY <3>1, <4>1, TrafficAssumption, ConcatEmptySeq DEF NoRole
    <3>4. Cardinality(reached) <= 1
      BY <3>2, OneAtMost
    <3> QED BY <3>1, <3>2, <3>3, <3>4 DEF AtCloud
  <2>3. CASE n \notin UnroledNames(devices)
    <3> DEFINE ds == IF sent.kind \in PrefixedKinds THEN devices[n].role \o sent.ds ELSE sent.ds
    <3>1. reached \subseteq {AtCloud(devices[n].token, sent.kind, ds)}
      BY <2>3, ComesOutWhere
    <3>2. reached # {} => devices[n].role \in Roles
      BY <2>1, <2>3, ComesOutWhere, TablesAreApart
    <3>3. Cardinality(reached) <= 1
      BY <3>1, OneAtMost
    <3>4. sent.kind \in PrefixedKinds => ds = devices[n].role \o sent.ds
      OBVIOUS
    <3> HIDE DEF ds
    <3>5. \A p \in reached : p.token = devices[n].token /\ p.kind = sent.kind /\ p.ds = ds
      BY <3>1 DEF AtCloud
    <3> QED BY <3>2, <3>3, <3>4, <3>5
  <2> QED BY <2>2, <2>3
<1> QED BY <1>1, StaysBase, StaysTraced, PTL

(* A message of a well configured sub-device does come out: alone on its   *)
(* token without a role it is in the bridge's table, with a role in the    *)
(* agent's, and so is each of several with different roles.                *)
THEOREM Arrives == TrafficSpec => []UplinkArrives
<1>1. Base /\ Traced => UplinkArrives
  <2> SUFFICES ASSUME Base, Traced, IsUplink(sent), Settled, toAgent = {},
                      WellConfigured(sent.name),
                      devices[sent.name].role = NoRole \/ sent.kind \in RoledKinds
               PROVE  reached # {}
    BY DEF UplinkArrives
  <2> DEFINE n == sent.name
  <2>1. /\ devices \in Registry /\ loaded = ConnectionBlock(devices)
        /\ sent \in Uplinks /\ reached = BridgedOut(sent) \union Rewritten(sent)
    BY ComesOutWhere DEF Base, TrafficTypeOK, Settled
  <2>2. n \in DOMAIN devices /\ IsConfigured(devices, n)
    BY DEF WellConfigured
  <2>3. CASE Siblings(devices, n) = {} /\ devices[n].role = NoRole
    <3>1. n \in UnroledNames(devices)
      BY <2>2, <2>3 DEF UnroledNames, IsExcluded
    <3> QED BY <2>1, <3>1, BridgedWhere
  <2>4. CASE Siblings(devices, n) # {} \/ devices[n].role # NoRole
    <3>1. devices[n].role \in Roles
      BY <2>4 DEF WellConfigured
    <3>2. \A m \in Siblings(devices, n) :
              devices[m].role # NoRole /\ devices[m].role # devices[n].role
      BY RoleKinds DEF WellConfigured, Siblings
    <3>3. n \in RoledNames(devices) /\ sent.kind \in RoledKinds
      BY <2>2, <3>1, <3>2, RoleKinds DEF RoledNames, IsRoledRoute
    <3> QED BY <2>1, <3>3, RewrittenWhere
  <2> QED BY <2>3, <2>4
<1> QED BY <1>1, StaysBase, StaysTraced, PTL


(***************************************************************************)
(* The way back.                                                           *)
(***************************************************************************)
\* A downlink that nothing moved under: bridged to a sub-device, or to the
\* agent and handled by it.
BridgedIn(d) ==
    { AtSubDevice(p[1], d.kind, d.ds) : p \in { q \in loaded.unroled : q[2] = d.token } }

ForAgent(d) == { GwTopic(t, "downlink", d.ds) : t \in loaded.roled \intersect {d.token} }

DownTraced ==
    IsDownlink(sent) /\ calm =>
        /\ reached = BridgedIn(sent)
        /\ \/ toAgent = ForAgent(sent) /\ refused = {}
           \/ toAgent = {} /\ refused = FanOut(GwTopic(sent.token, "downlink", sent.ds))

\* Nothing the agent publishes of a downlink gets past acl.rules.
LEMMA FanOutIsRefused ==
  ASSUME NEW m
  PROVE  Published(FanOut(m)) = {} /\ Refused(FanOut(m)) = FanOut(m)
<1>1. \A g \in FanOut(m) : ~AgentMayWrite(g)
  BY DEF FanOut, SubTopic, AgentMayWrite
<1> QED BY <1>1 DEF Published, Refused

LEMMA DownTracedNext == Base /\ DownTraced /\ [TrafficNext]_trafficVars => DownTraced'
<1> SUFFICES ASSUME Base, DownTraced, [TrafficNext]_trafficVars, IsDownlink(sent'), calm'
             PROVE  /\ reached' = BridgedIn(sent)'
                    /\ \/ toAgent' = ForAgent(sent)' /\ refused' = {}
                       \/ toAgent' = {} /\ refused' = FanOut(GwTopic(sent.token, "downlink", sent.ds))'
  BY DEF DownTraced, IsDownlink
<1>1. ASSUME NEW m \in Uplinks, SubDevicePublishes(m)
      PROVE  FALSE
  <2>1. sent' = m
    BY <1>1 DEF SubDevicePublishes
  <2> QED BY <2>1, Topics DEF IsDownlink
<1>2. ASSUME NEW d \in CloudDownlinks, CloudSends(d)
      PROVE  reached' = BridgedIn(sent)' /\ toAgent' = ForAgent(sent)' /\ refused' = {}
  BY <1>2 DEF CloudSends, BridgedIn, ForAgent
<1>3. CASE Done
  BY <1>3 DEF Done, IsDownlink
<1>4. CASE RegistryEdited
  <2>1. ~calm'
    BY <1>4, Zenon DEF RegistryEdited, RegistryBecomes
  <2> QED BY <2>1
<1>5. ASSUME UNCHANGED <<sent, devices, loaded>>, calm
      PROVE  /\ reached = BridgedIn(sent)
             /\ \/ toAgent = ForAgent(sent) /\ refused = {}
                \/ toAgent = {} /\ refused = FanOut(GwTopic(sent.token, "downlink", sent.ds))
             /\ BridgedIn(sent)' = BridgedIn(sent) /\ ForAgent(sent)' = ForAgent(sent)
             /\ \A m : FanOut(m)' = FanOut(m)
             /\ (GwTopic(sent.token, "downlink", sent.ds))' = GwTopic(sent.token, "downlink", sent.ds)
  <2>1. IsDownlink(sent)
    BY <1>5
  <2>2. /\ reached = BridgedIn(sent)
        /\ \/ toAgent = ForAgent(sent) /\ refused = {}
           \/ toAgent = {} /\ refused = FanOut(GwTopic(sent.token, "downlink", sent.ds))
    BY <1>5, <2>1 DEF DownTraced
  <2>3. BridgedIn(sent)' = BridgedIn(sent) /\ ForAgent(sent)' = ForAgent(sent)
    BY <1>5 DEF BridgedIn, ForAgent
  <2>4. \A m : FanOut(m)' = FanOut(m)
    BY <1>5 DEF FanOut, ResolveDsDownlink, NamesForToken, RoledNames, IsRoledRoute, IsConfigured,
                Siblings, Sharing, StripRole
  <2>5. (GwTopic(sent.token, "downlink", sent.ds))' = GwTopic(sent.token, "downlink", sent.ds)
    BY <1>5
  <2> QED BY <2>2, <2>3, <2>4, <2>5
<1>6. ASSUME NEW m \in toAgent, AgentHandlesUplink(m)
      PROVE  FALSE
  <2>1. m.ns = "sub" /\ UNCHANGED <<sent, devices, loaded>>
    BY <1>6, Zenon DEF AgentHandlesUplink, RegistryBecomes
  <2>2. calm
    BY <1>6, Zenon DEF AgentHandlesUplink, RegistryBecomes
  <2>3. m \in ForAgent(sent)
    BY <1>5, <2>1, <2>2
  <2> QED BY <2>1, <2>3 DEF ForAgent, GwTopic
<1>7. ASSUME NEW m \in toAgent, AgentHandlesGwDownlink(m)
      PROVE  /\ reached' = BridgedIn(sent)'
             /\ toAgent' = {} /\ refused' = FanOut(GwTopic(sent.token, "downlink", sent.ds))'
  <2>1. /\ toAgent' = toAgent \ {m} /\ reached' = reached \union Published(FanOut(m))
        /\ refused' = refused \union Refused(FanOut(m)) /\ UNCHANGED <<sent, devices, loaded>>
    BY <1>7 DEF AgentHandlesGwDownlink
  <2>2. calm
    BY <1>7, Zenon DEF AgentHandlesGwDownlink
  <2>3. toAgent = ForAgent(sent) /\ refused = {} /\ reached = BridgedIn(sent)
    BY <1>5, <1>7, <2>1, <2>2
  <2>4. m = GwTopic(sent.token, "downlink", sent.ds) /\ toAgent = {m}
    BY <2>3 DEF ForAgent
  <2>5. reached' = reached /\ refused' = FanOut(m)
    BY <2>1, <2>3, FanOutIsRefused
  <2>6. FanOut(m)' = FanOut(m) /\ m = GwTopic(sent.token, "downlink", sent.ds)' /\ BridgedIn(sent)' = BridgedIn(sent)
    BY <1>5, <2>1, <2>2, <2>4
  <2>7. toAgent' = {}
    BY <2>1, <2>4
  <2>8. FanOut(GwTopic(sent.token, "downlink", sent.ds))' = FanOut(m)
    BY <2>1, <2>4 DEF FanOut, ResolveDsDownlink, NamesForToken, RoledNames, IsRoledRoute,
                IsConfigured, Siblings, Sharing, StripRole
  <2> QED BY <2>3, <2>5, <2>6, <2>7, <2>8
<1>8. CASE UNCHANGED trafficVars
  <2>1. UNCHANGED <<sent, devices, loaded, toAgent, reached, refused>>
    BY <1>8 DEF trafficVars
  <2>2. calm
    BY <1>8, Zenon DEF trafficVars
  <2>3. FanOut(GwTopic(sent.token, "downlink", sent.ds))'
            = FanOut(GwTopic(sent.token, "downlink", sent.ds))
    BY <2>1 DEF FanOut, ResolveDsDownlink, NamesForToken, RoledNames, IsRoledRoute,
                IsConfigured, Siblings, Sharing, StripRole
  <2> QED BY <1>5, <2>1, <2>2, <2>3
<1> QED BY <1>1, <1>2, <1>3, <1>4, <1>6, <1>7, <1>8 DEF TrafficNext

LEMMA StaysDownTraced == TrafficSpec => []DownTraced
<1>1. TrafficInit => DownTraced
  BY DEF TrafficInit, DownTraced, IsDownlink
<1> QED BY <1>1, DownTracedNext, StaysBase, PTL DEF TrafficSpec

\* What a role begins is the role and the rest of it.
LEMMA RoleAndRest ==
  ASSUME NEW r \in Seq(Words), NEW ds \in Seq(Words), IsRolePrefix(r, ds)
  PROVE  /\ Len(r) \in Nat /\ Len(ds) \in Nat /\ Len(r) < Len(ds)
         /\ r \o SubSeq(ds, Len(r) + 1, Len(ds)) = ds
<1>1. Len(r) \in Nat /\ Len(ds) \in Nat /\ Len(r) <= Len(ds) /\ r # ds
      /\ SubSeq(r, 1, Len(r)) = SubSeq(ds, 1, Len(r))
  BY LenProperties DEF IsRolePrefix, IsStrictPrefix, IsPrefix
<1>2. SubSeq(ds, 1, Len(r)) = r
  BY <1>1, SubSeqFull
<1>3. Len(r) < Len(ds)
  BY <1>1, <1>2, SubSeqFull
<1>4. SubSeq(ds, 1, Len(r)) \o SubSeq(ds, Len(r) + 1, Len(ds)) = ds
  <2>1. /\ 1 \in 1..Len(ds) + 1 /\ Len(r) \in (1 - 1)..Len(ds) /\ Len(ds) \in Len(r)..Len(ds)
    BY <1>1, <1>3
  <2>2. SubSeq(ds, 1, Len(r)) \o SubSeq(ds, Len(r) + 1, Len(ds)) = SubSeq(ds, 1, Len(ds))
    BY <2>1, ConcatAdjacentSubSeq
  <2> QED BY <2>2, SubSeqFull
<1> QED BY <1>1, <1>2, <1>3, <1>4

\* Of one length, only one role begins a datastream.
LEMMA OnePrefix ==
  ASSUME NEW r \in Seq(Words), NEW q \in Seq(Words), NEW s, Len(r) = Len(q),
         IsRolePrefix(r, s), IsRolePrefix(q, s)
  PROVE  r = q
<1>1. SubSeq(r, 1, Len(r)) = SubSeq(q, 1, Len(q))
  BY DEF IsRolePrefix, IsStrictPrefix, IsPrefix
<1> QED BY <1>1, SubSeqFull

\* The names on a token that have a route have roles of their own.
LEMMA OwnRoles ==
  ASSUME NEW d \in Registry, NEW token, NEW n \in NamesForToken(d, token), NEW m \in NamesForToken(d, token),
         m # n
  PROVE  d[m].role # d[n].role
  BY DEF NamesForToken, RoledNames, IsRoledRoute, Siblings, Sharing

LEMMA SmallestOf ==
  ASSUME NEW T \in SUBSET Nat, T # {}
  PROVE  \E x \in T : \A y \in T : x <= y
<1>1. PICK x \in T : \A y \in T : ~ (<<y, x>> \in OpToRel(<, Nat))
  BY NatLessThanWellFounded, WFMin
<1>2. \A y \in T : ~(y < x)
  BY <1>1 DEF OpToRel
<1> QED BY <1>2

\* Among the owners of a datastream one has the longest role, and only one.
LEMMA OneOwner ==
  ASSUME NEW d \in Registry, NEW token, NEW ds \in Seq(Words),
         { n \in NamesForToken(d, token) : IsRolePrefix(d[n].role, ds) } # {}
  PROVE  \E n \in NamesForToken(d, token) :
             /\ IsRolePrefix(d[n].role, ds)
             /\ ResolveDsDownlink(d, token, ds) = {n}
             /\ \A m \in { k \in NamesForToken(d, token) : IsRolePrefix(d[k].role, ds) } \ {n} :
                    Len(d[m].role) < Len(d[n].role)
<1> DEFINE owners == { n \in NamesForToken(d, token) : IsRolePrefix(d[n].role, ds) }
           rest(n) == Len(ds) - Len(d[n].role)
<1>1. \A n \in owners : d[n].role \in Seq(Words)
  BY TablesAreApart, RoleKinds DEF NamesForToken
<1>2. \A n \in owners : Len(d[n].role) \in Nat /\ Len(ds) \in Nat /\ Len(d[n].role) < Len(ds)
  BY <1>1, RoleAndRest
<1>3. { rest(n) : n \in owners } \in SUBSET Nat /\ { rest(n) : n \in owners } # {}
  BY <1>2
<1>4. PICK x \in { rest(n) : n \in owners } : \A y \in { rest(n) : n \in owners } : x <= y
  BY <1>3, SmallestOf
<1>5. PICK n \in owners : \A m \in owners : rest(n) <= rest(m)
  BY <1>4
<1>6. \A m \in owners : Len(d[m].role) <= Len(d[n].role)
  BY <1>2, <1>5
<1>7. ASSUME NEW m \in owners, m # n
      PROVE  Len(d[m].role) < Len(d[n].role)
  <2>1. d[m].role # d[n].role
    BY <1>7, OwnRoles
  <2>2. Len(d[m].role) # Len(d[n].role)
    BY <1>1, <2>1, OnePrefix
  <2> QED BY <1>2, <1>6, <2>2
<1>8. ResolveDsDownlink(d, token, ds) = {n}
  <2>1. ResolveDsDownlink(d, token, ds)
            = { k \in owners : \A m \in owners : Len(d[m].role) <= Len(d[k].role) }
    BY DEF ResolveDsDownlink
  <2> HIDE DEF owners
  <2>2. \A k \in owners : k # n => ~(Len(d[n].role) <= Len(d[k].role))
    BY <1>2, <1>7
  <2> QED BY <1>6, <2>1, <2>2
<1> QED BY <1>7, <1>8

LEMMA NoOwner ==
  ASSUME NEW d \in Registry, NEW token, NEW ds,
         { n \in NamesForToken(d, token) : IsRolePrefix(d[n].role, ds) } = {}
  PROVE  ResolveDsDownlink(d, token, ds) = {}
  BY DEF ResolveDsDownlink

\* The bridge delivers to whom has the token to itself and no role.
LEMMA BridgedInWhere ==
  ASSUME devices \in Registry, loaded = ConnectionBlock(devices), NEW d
  PROVE  BridgedIn(d) = { AtSubDevice(n, d.kind, d.ds) :
                              n \in { k \in Sharing(devices, d.token) :
                                         Siblings(devices, k) = {} /\ devices[k].role = NoRole } }
<1> DEFINE alone == { k \in Sharing(devices, d.token) :
                         Siblings(devices, k) = {} /\ devices[k].role = NoRole }
<1>1. loaded.unroled = { <<n, devices[n].token>> : n \in UnroledNames(devices) }
  BY DEF ConnectionBlock
<1>2. \A n : n \in alone <=> n \in UnroledNames(devices) /\ devices[n].token = d.token
  BY DEF Sharing, UnroledNames, IsExcluded
<1>3. { q \in loaded.unroled : q[2] = d.token } = { <<n, d.token>> : n \in alone }
  BY <1>1, <1>2
<1>4. \A n : <<n, d.token>>[1] = n
  OBVIOUS
<1> HIDE DEF alone
<1>5. ASSUME NEW at
      PROVE  at \in BridgedIn(d) <=> \E n \in alone : at = AtSubDevice(n, d.kind, d.ds)
  <2>1. at \in BridgedIn(d) <=>
            \E p \in { <<n, d.token>> : n \in alone } : at = AtSubDevice(p[1], d.kind, d.ds)
    BY <1>3 DEF BridgedIn
  <2> QED BY <1>4, <2>1
<1>6. BridgedIn(d) = { AtSubDevice(n, d.kind, d.ds) : n \in alone }
  BY <1>5
<1> QED BY <1>6 DEF alone

(* The way back, end to end: an unroled sensor's downlink reaches it and   *)
(* nobody else; of one on a token of roles the agent makes the one message *)
(* README promises, for the sensor with the longest role that fits, which  *)
(* always exists and is unique, and mosquitto refuses every such message.  *)
(* For any roles, of which one may begin another.                          *)
THEOREM DownlinksComeOut == TrafficSpec => []DownlinkComesOut
<1>1. Base /\ DownTraced => DownlinkComesOut
  <2> SUFFICES ASSUME Base, DownTraced, IsDownlink(sent), Settled, toAgent = {}
               PROVE  DownlinkComesOut
    BY DEF DownlinkComesOut
  <2> DEFINE token == sent.token
             roled == NamesForToken(devices, token)
             owners == { n \in roled : IsRolePrefix(devices[n].role, sent.ds) }
             g == GwTopic(token, "downlink", sent.ds)
  <2>1. /\ devices \in Registry /\ loaded = ConnectionBlock(devices) /\ calm
        /\ sent \in CloudDownlinks
    BY Topics DEF Base, TrafficTypeOK, Settled, IsDownlink
  <2>2. sent.ds \in Seq(Words)
    BY <2>1, CloudNames
  <2>3. reached = { AtSubDevice(n, sent.kind, sent.ds) :
                        n \in { k \in Sharing(devices, token) :
                                   Siblings(devices, k) = {} /\ devices[k].role = NoRole } }
    BY <2>1, BridgedInWhere DEF DownTraced
  <2>4. g.token = token /\ g.ds = sent.ds
    BY DEF GwTopic
  <2>5. \/ roled = {} /\ refused = {}
        \/ refused = FanOut(g)
    <3>1. CASE ForAgent(sent) = {} /\ refused = {}
      <4>1. token \notin loaded.roled
        BY <3>1 DEF ForAgent
      <4>2. roled = {}
        BY <2>1, <4>1 DEF ConnectionBlock, NamesForToken, Sharing
      <4> QED BY <3>1, <4>2
    <3> QED BY <2>1, <3>1 DEF DownTraced
  <2>6. owners = {} => refused = { SubTopic(n, "downlink", sent.ds) : n \in roled }
    <3> SUFFICES ASSUME owners = {}
                 PROVE  refused = { SubTopic(n, "downlink", sent.ds) : n \in roled }
      OBVIOUS
    <3>1. ResolveDsDownlink(devices, token, sent.ds) = {}
      BY <2>1, NoOwner
    <3>2. FanOut(g) = { SubTopic(n, "downlink", sent.ds) : n \in roled }
      BY <2>4, <3>1 DEF FanOut
    <3> QED BY <2>5, <3>2
  <2>7. owners # {} =>
            \E n \in owners :
                /\ \A m \in owners \ {n} : Len(devices[m].role) < Len(devices[n].role)
                /\ refused # {}
                /\ \A m \in refused : /\ m = SubTopic(n, "downlink", m.ds)
                                       /\ RoledDs(devices, n, m.ds) = sent.ds
    <3> SUFFICES ASSUME owners # {}
                 PROVE  \E n \in owners :
                            /\ \A m \in owners \ {n} : Len(devices[m].role) < Len(devices[n].role)
                            /\ refused # {}
                            /\ \A m \in refused : /\ m = SubTopic(n, "downlink", m.ds)
                                                   /\ RoledDs(devices, n, m.ds) = sent.ds
      OBVIOUS
    <3>1. PICK n \in owners : /\ ResolveDsDownlink(devices, token, sent.ds) = {n}
                              /\ \A m \in owners \ {n} : Len(devices[m].role) < Len(devices[n].role)
      BY <2>1, <2>2, OneOwner
    <3> DEFINE rest == StripRole(devices, n, sent.ds)
    <3>2. FanOut(g) = {SubTopic(n, "downlink", rest)}
      <4>1. FanOut(g) = { SubTopic(k, "downlink", StripRole(devices, k, sent.ds)) : k \in {n} }
        BY <2>4, <3>1 DEF FanOut
      <4> QED BY <4>1
    <3>3. RoledDs(devices, n, rest) = sent.ds
      <4>1. devices[n].role \in Seq(Words) /\ IsRolePrefix(devices[n].role, sent.ds)
        BY <2>1, TablesAreApart, RoleKinds DEF NamesForToken
      <4> QED BY <2>2, <4>1, RoleAndRest DEF RoledDs, StripRole
    <3> HIDE DEF rest
    <3>4. refused = {SubTopic(n, "downlink", rest)}
      BY <2>5, <3>2
    <3>5. SubTopic(n, "downlink", rest).ds = rest
      BY DEF SubTopic
    <3> QED BY <3>1, <3>3, <3>4, <3>5
  <2> QED BY <2>3, <2>6, <2>7 DEF DownlinkComesOut
<1> QED BY <1>1, StaysBase, StaysDownTraced, PTL


(***************************************************************************)
(* A sensor with a role of its own.                                        *)
(***************************************************************************)
\* A step brings in one sub-device at a time, and leaves the others alone.
LEMMA OneComes ==
  ASSUME Base, [TrafficNext]_trafficVars, NEW n \in DOMAIN devices', n \notin DOMAIN devices
  PROVE  /\ DOMAIN devices' = DOMAIN devices \union {n}
         /\ \A k \in DOMAIN devices : devices'[k] = devices[k]
<1>1. ASSUME NEW m, NEW entry,
             devices' = [k \in DOMAIN devices \union {m} |-> IF k = m THEN entry ELSE devices[k]]
      PROVE  /\ DOMAIN devices' = DOMAIN devices \union {n}
             /\ \A k \in DOMAIN devices : devices'[k] = devices[k]
  BY <1>1
<1>2. ASSUME NEW m, devices' = [k \in DOMAIN devices \ {m} |-> devices[k]]
      PROVE  FALSE
  BY <1>2
<1>3. ASSUME UNCHANGED devices
      PROVE  FALSE
  BY <1>3
<1>4. ASSUME NEW m \in toAgent, AgentHandlesUplink(m)
      PROVE  /\ DOMAIN devices' = DOMAIN devices \union {n}
             /\ \A k \in DOMAIN devices : devices'[k] = devices[k]
  BY <1>1, <1>3, <1>4 DEF AgentHandlesUplink, RegistryBecomes
<1>5. CASE RegistryEdited
  BY <1>1, <1>2, <1>5 DEF RegistryEdited, RegistryBecomes
<1>6. ASSUME NEW m, SubDevicePublishes(m) \/ CloudSends(m) \/ AgentHandlesGwDownlink(m)
      PROVE  FALSE
  BY <1>3, <1>6 DEF SubDevicePublishes, CloudSends, AgentHandlesGwDownlink
<1>7. CASE Done \/ UNCHANGED trafficVars
  BY <1>3, <1>7 DEF Done, trafficVars
<1> QED BY <1>4, <1>5, <1>6, <1>7 DEF TrafficNext

\* mosquitto goes on with the block it has or gets the registry's.
LEMMA LoadsItsOwn ==
  ASSUME [TrafficNext]_trafficVars, NEW n, n \in DOMAIN devices', n \notin DOMAIN devices
  PROVE  loaded' \in {ConnectionBlock(devices'), loaded}
<1>1. ASSUME NEW m \in toAgent, AgentHandlesUplink(m)
      PROVE  loaded' \in {ConnectionBlock(devices'), loaded}
  BY <1>1 DEF AgentHandlesUplink, RegistryBecomes
<1>2. CASE RegistryEdited
  BY <1>2 DEF RegistryEdited, RegistryBecomes
<1>3. ASSUME NEW m, SubDevicePublishes(m) \/ CloudSends(m) \/ AgentHandlesGwDownlink(m)
      PROVE  loaded' = loaded
  BY <1>3 DEF SubDevicePublishes, CloudSends, AgentHandlesGwDownlink
<1>4. CASE Done \/ UNCHANGED trafficVars
  BY <1>4 DEF Done, trafficVars
<1> QED BY <1>1, <1>2, <1>3, <1>4 DEF TrafficNext

\* The tables with one sensor more, whose role is its own on a token of roles.
LEMMA NewRole ==
  ASSUME NEW d \in Registry, NEW e \in Registry, NEW n, n \notin DOMAIN d,
         DOMAIN e = DOMAIN d \union {n}, \A k \in DOMAIN d : e[k] = d[k],
         NamesForToken(d, e[n].token) # {},
         NamesForToken(d, e[n].token) = Sharing(d, e[n].token),
         e[n].role \in Roles,
         \A m \in NamesForToken(d, e[n].token) : d[m].role # e[n].role
  PROVE  ConnectionBlock(e) = ConnectionBlock(d)
<1> DEFINE token == e[n].token
<1>1. PICK p \in RoledNames(d) : d[p].token = token
  BY DEF NamesForToken, Sharing
<1>2. token \in Tokens /\ token # Placeholder
  BY <1>1, TablesAreApart, RoutingAssumption
<1>3. \A k \in DOMAIN d : d[k].token # token => Siblings(e, k) = Siblings(d, k)
  BY DEF Siblings, Sharing, IsConfigured
<1>4. \A k \in DOMAIN d : d[k].token = token =>
          k \in RoledNames(d) /\ Siblings(e, k) = Siblings(d, k) \union {n}
  BY <1>2 DEF Siblings, Sharing, IsConfigured, NamesForToken
<1>5. n \notin UnroledNames(e)
  BY <1>2, RoleKinds DEF UnroledNames, IsExcluded, IsConfigured
<1>6. \A k \in DOMAIN d : k \in UnroledNames(e) <=> k \in UnroledNames(d)
  <2> SUFFICES ASSUME NEW k \in DOMAIN d
               PROVE  k \in UnroledNames(e) <=> k \in UnroledNames(d)
    OBVIOUS
  <2>1. CASE d[k].token = token
    <3>1. d[k].role \in Roles
      BY <1>4, <2>1, TablesAreApart
    <3> QED BY <3>1, RoleKinds, <2>1, <1>2 DEF UnroledNames, IsExcluded, IsConfigured
  <2>2. CASE d[k].token # token
    BY <1>3, <2>2 DEF UnroledNames, IsExcluded, IsConfigured
  <2> QED BY <2>1, <2>2
<1>7. \A k \in DOMAIN d : k \in RoledNames(e) <=> k \in RoledNames(d)
  <2> SUFFICES ASSUME NEW k \in DOMAIN d
               PROVE  k \in RoledNames(e) <=> k \in RoledNames(d)
    OBVIOUS
  <2>1. CASE d[k].token = token
    <3>1. k \in NamesForToken(d, token) /\ IsRoledRoute(d, k)
      BY <1>2, <1>4, <2>1 DEF NamesForToken, Sharing, RoledNames, IsConfigured
    <3>2. \A m \in Siblings(e, k) : e[m].role # NoRole /\ e[m].role # e[k].role
      <4>1. \A m \in Siblings(d, k) : m \in DOMAIN d
        BY DEF Siblings, Sharing
      <4> QED BY <1>4, <2>1, <3>1, <4>1, RoleKinds DEF IsRoledRoute
    <3>3. IsRoledRoute(e, k)
      BY <3>1, <3>2 DEF IsRoledRoute, IsConfigured
    <3> QED BY <1>4, <2>1, <3>3 DEF RoledNames
  <2>2. CASE d[k].token # token
    <3>1. \A m \in Siblings(d, k) : m \in DOMAIN d
      BY DEF Siblings, Sharing
    <3> QED BY <1>3, <2>2, <3>1 DEF RoledNames, IsRoledRoute, IsConfigured
  <2> QED BY <2>1, <2>2
<1>8. UnroledNames(e) = UnroledNames(d)
  BY <1>5, <1>6 DEF UnroledNames
<1>9. \A k \in UnroledNames(d) \union RoledNames(d) : e[k] = d[k]
  BY TablesAreApart
<1>10. { e[k].token : k \in RoledNames(e) } = { d[k].token : k \in RoledNames(d) }
  <2>1. RoledNames(e) \subseteq RoledNames(d) \union {n} /\ RoledNames(d) \subseteq RoledNames(e)
    BY <1>7, TablesAreApart
  <2> QED BY <1>1, <1>9, <2>1
<1>11. { <<k, e[k].token>> : k \in UnroledNames(e) } = { <<k, d[k].token>> : k \in UnroledNames(d) }
  BY <1>8, <1>9
<1> QED BY <1>10, <1>11 DEF ConnectionBlock

\* The agent restarts mosquitto at every change of the registry.  This one
\* would not have needed it: a sensor comes, under a role of its own, to a token
\* that is shared by roles already, while mosquitto runs the registry's block.
NewRoleRestartIsNeedless ==
    [][ loaded = ConnectionBlock(devices) =>
          \A n \in DOMAIN devices' \ DOMAIN devices :
              LET peers == NamesForToken(devices, devices'[n].token)
              IN  (/\ peers # {}
                   /\ peers = Sharing(devices, devices'[n].token)
                   /\ devices'[n].role \in Roles
                   /\ \A m \in peers : devices[m].role # devices'[n].role)
                  => loaded' = loaded /\ ConnectionBlock(devices') = loaded ]_<<devices, loaded>>

(* gateway.py:400-408 says that adding a sensor under a role of its own to *)
(* a token shared by roles needs no restart of mosquitto, and it does not: *)
(* whatever restart follows, mosquitto runs the block it ran before.  The  *)
(* agent restarts it all the same (agent.py:1614-1615, 1645-1647), which   *)
(* cuts off every sub-device and the cloud for nothing.                    *)
THEOREM RestartIsNeedless == TrafficSpec => NewRoleRestartIsNeedless
<1>1. ASSUME Base, Base', [TrafficNext]_trafficVars, loaded = ConnectionBlock(devices),
             NEW n \in DOMAIN devices' \ DOMAIN devices,
             NamesForToken(devices, devices'[n].token) # {},
             NamesForToken(devices, devices'[n].token) = Sharing(devices, devices'[n].token),
             devices'[n].role \in Roles,
             \A m \in NamesForToken(devices, devices'[n].token) : devices[m].role # devices'[n].role
      PROVE  loaded' = loaded /\ ConnectionBlock(devices') = loaded
  <2>1. devices \in Registry /\ devices' \in Registry
    BY <1>1 DEF Base, TrafficTypeOK
  <2>2. /\ DOMAIN devices' = DOMAIN devices \union {n}
        /\ \A k \in DOMAIN devices : devices'[k] = devices[k]
    BY <1>1, OneComes
  <2>3. ConnectionBlock(devices') = ConnectionBlock(devices)
    BY <1>1, <2>1, <2>2, NewRole
  <2>4. loaded' \in {ConnectionBlock(devices'), loaded}
    BY <1>1, LoadsItsOwn
  <2> QED BY <1>1, <2>3, <2>4
<1>2. Base /\ Base' /\ [TrafficNext]_trafficVars =>
          [ loaded = ConnectionBlock(devices) =>
              \A n \in DOMAIN devices' \ DOMAIN devices :
                  LET peers == NamesForToken(devices, devices'[n].token)
                  IN  (/\ peers # {}
                       /\ peers = Sharing(devices, devices'[n].token)
                       /\ devices'[n].role \in Roles
                       /\ \A m \in peers : devices[m].role # devices'[n].role)
                      => loaded' = loaded /\ ConnectionBlock(devices') = loaded ]_<<devices, loaded>>
  BY <1>1
<1> QED BY <1>2, BaseNext, StaysBase, PTL DEF TrafficSpec, NewRoleRestartIsNeedless

(***************************************************************************)
(* The registry: types.                                                    *)
(***************************************************************************)
LEMMA EmptyIsRendered ==
  /\ EmptyRegistry \in Registry /\ PlaceholderEntry \in Entry
  /\ ConnectionBlock(EmptyRegistry) = EmptyBlock
<1>1. EmptyRegistry \in [{} -> Entry] /\ DOMAIN EmptyRegistry = {}
  BY DEF EmptyRegistry
<1>2. UnroledNames(EmptyRegistry) = {} /\ RoledNames(EmptyRegistry) = {}
  BY <1>1 DEF UnroledNames, RoledNames
<1> QED BY <1>1, <1>2, RegistryIs
        DEF ConnectionBlock, EmptyBlock, PlaceholderEntry, Entry, NoRole

CloudValues == Registry \union {Unset}

\* The parts of the registry's type invariant.
RegistryDataOK ==
    /\ devices \in Registry
    /\ conf \in Block /\ loaded \in Block
    /\ cloud \in CloudValues
    /\ events \in 0..MaxEvents

QueuesOK == outq \in Seq(Message) /\ down \in Seq(CloudValues)

LinksOK ==
    /\ link \in BOOLEAN /\ cloudLink \in BOOLEAN
    /\ stale \in BOOLEAN /\ lost \in BOOLEAN

LEMMA RegistryTypeParts == TypeOK <=> RegistryDataOK /\ QueuesOK /\ LinksOK
  BY DEF TypeOK, RegistryDataOK, QueuesOK, LinksOK, Block, CloudValues

\* What can be rendered, and what the console makes of a value.
LEMMA RenderedOK == \A d \in Registry : ConnectionBlock(d) \in Block
  BY BlockOK DEF Block

LEMMA EditedOK ==
  ASSUME NEW d \in Registry, NEW n \in Names
  PROVE  /\ \A e \in Entry : With(d, n, e) \in Registry
         /\ Without(d, n) \in Registry
  BY RegistryWith, RegistryWithout DEF With, Without

LEMMA MessagesOK ==
  /\ Get \in Message
  /\ \A v \in Registry : Publish(v) \in Message
  /\ \A m \in Message : m # Get => m.value \in Registry
<1>1. ASSUME NEW m \in Message, m # Get
      PROVE  m.value \in Registry
  <2>1. PICK v \in Registry : m = [kind |-> "set", value |-> v]
    BY <1>1 DEF Message, Publish
  <2> QED BY <2>1
<1> QED BY <1>1 DEF Message

LEMMA QueueOK ==
  ASSUME NEW S, NEW q \in Seq(S)
  PROVE  /\ \A x \in S : Append(q, x) \in Seq(S) /\ <<x>> \o q \in Seq(S)
         /\ q # << >> => Head(q) \in S /\ Tail(q) \in Seq(S)
         /\ \A k \in 0..Len(q) : SubSeq(q, 1, k) \in Seq(S)
<1>1. \A x \in S : Append(q, x) \in Seq(S) /\ <<x>> \o q \in Seq(S)
  OBVIOUS
<1>2. q # << >> => Head(q) \in S /\ Tail(q) \in Seq(S)
  OBVIOUS
<1>3. ASSUME NEW k \in 0..Len(q)
      PROVE  SubSeq(q, 1, k) \in Seq(S)
  BY <1>3
<1> QED BY <1>1, <1>2, <1>3

LEMMA EmptyQueues == << >> \in Seq(Message) /\ << >> \in Seq(CloudValues)
  OBVIOUS

LEMMA RegistryTypeInit == Init => TypeOK
<1> SUFFICES ASSUME Init PROVE TypeOK
  OBVIOUS
<1>1. RegistryDataOK
  <2>1. conf \in Block /\ loaded \in Block
    BY EmptyIsRendered, RenderedOK DEF Init
  <2> QED BY <2>1, EmptyIsRendered, RegistryAssumption DEF Init, RegistryDataOK, CloudValues
<1>2. QueuesOK
  BY EmptyQueues DEF Init, QueuesOK
<1>3. LinksOK
  BY DEF Init, LinksOK
<1> QED BY <1>1, <1>2, <1>3, RegistryTypeParts

\* ensure_current writes a block and leaves mosquitto running one.
LEMMA EnsureKeepsType ==
  ASSUME RegistryDataOK, QueuesOK,
         NEW d \in Registry, NEW rest \in Seq(CloudValues), EnsureCurrentForced(d, rest)
  PROVE  /\ conf' \in Block /\ loaded' \in Block
         /\ down' \in Seq(CloudValues)
<1>1. conf' \in Block
  BY RenderedOK DEF EnsureCurrentForced
<1>2. loaded' \in Block /\ down' \in Seq(CloudValues)
  BY <1>1, EmptyQueues
     DEF EnsureCurrentForced, MosquittoRestarts, RestartFails, LinkCut, RegistryDataOK
<1> QED BY <1>1, <1>2

\* The links and the two marks that the model keeps.
LEMMA LinksStep == LinksOK /\ [Next]_vars => LinksOK'
<1> SUFFICES ASSUME LinksOK, [Next]_vars
             PROVE  LinksOK'
  OBVIOUS
<1>1. ASSUME NEW d, NEW rest, EnsureCurrentForced(d, rest)
      PROVE  LinksOK'
  BY <1>1, Zenon DEF EnsureCurrentForced, MosquittoRestarts, RestartFails, LinkCut, LinksOK
<1>2. CASE Connect
  BY <1>2, Zenon DEF Connect, LinksOK
<1>3. CASE HandleSubDeviceRegistry
  <2>1. CASE UNCHANGED <<stale, link, cloudLink, lost>>
    BY <2>1 DEF LinksOK
  <2>2. CASE ~(UNCHANGED <<stale, link, cloudLink, lost>>)
    <3>1. EnsureCurrentForced(Head(down), Tail(down))
      BY <1>3, <2>2 DEF HandleSubDeviceRegistry
    <3> QED BY <1>1, <3>1
  <2> QED BY <2>1, <2>2
<1>4. ASSUME NEW n \in Names, Discover(n)
      PROVE  LinksOK'
  BY <1>1, <1>4 DEF Discover
<1>5. CASE CloudReceives
  BY <1>5, Zenon DEF CloudReceives, LinksOK
<1>6. CASE DroppedAtBridge
  BY <1>6, Zenon DEF DroppedAtBridge, LinksOK
<1>7. CASE ConsoleEdits
  BY <1>7, Zenon DEF ConsoleEdits, LinksOK
<1>8. CASE AgentRestarts
  BY <1>8, Zenon DEF AgentRestarts, MosquittoRestarts, RestartFails, LinkCut, LinksOK
<1>9. CASE BrokerRestarts
  BY <1>9, Zenon DEF BrokerRestarts, MosquittoRestarts, LinkCut, LinksOK
<1>10. CASE CloudLinkDrops
  BY <1>10, Zenon DEF CloudLinkDrops, LinksOK
<1>11. CASE CloudLinkReturns
  BY <1>11, Zenon DEF CloudLinkReturns, LinksOK
<1>12. CASE UNCHANGED vars
  BY <1>12 DEF vars, LinksOK
<1> QED BY <1>2, <1>3, <1>4, <1>5, <1>6, <1>7, <1>8, <1>9, <1>10, <1>11, <1>12 DEF Next

LEMMA RegistryTypeStep ==
  TypeOK /\ [Next]_vars => TypeOK'
<1> SUFFICES ASSUME RegistryDataOK, QueuesOK, [Next]_vars
             PROVE  RegistryDataOK' /\ QueuesOK'
  BY LinksStep DEF TypeOK, RegistryDataOK, QueuesOK, LinksOK, Block, CloudValues
<1>a. MaxEvents \in Nat /\ Unset \notin Registry /\ \A e \in ConsoleEntries : e \in Entry
  BY RegistryAssumption
<1>1. CASE Connect
  <2>1. QueuesOK'
    BY <1>1, QueueOK, MessagesOK DEF Connect, QueuesOK
  <2> QED BY <1>1, <2>1 DEF Connect, RegistryDataOK
<1>2. CASE HandleSubDeviceRegistry
  <2>1. Head(down) \in CloudValues /\ Tail(down) \in Seq(CloudValues)
    BY <1>2, QueueOK DEF HandleSubDeviceRegistry, QueuesOK
  <2>2. CASE Head(down) = Unset \/ Head(down) = devices
    BY <1>2, <2>1, <2>2 DEF HandleSubDeviceRegistry, RegistryDataOK, QueuesOK
  <2>3. CASE ~(Head(down) = Unset \/ Head(down) = devices)
    <3>1. Head(down) \in Registry /\ EnsureCurrentForced(Head(down), Tail(down))
      BY <1>2, <2>1, <2>3 DEF HandleSubDeviceRegistry, CloudValues
    <3>2. /\ conf' \in Block /\ loaded' \in Block
          /\ down' \in Seq(CloudValues)
      BY <3>1, <2>1, EnsureKeepsType
    <3>3. devices' \in Registry /\ UNCHANGED <<outq, cloud, events>>
      BY <1>2, <3>1, <2>3 DEF HandleSubDeviceRegistry
    <3> QED BY <3>2, <3>3 DEF RegistryDataOK, QueuesOK
  <2> QED BY <2>2, <2>3
<1>3. ASSUME NEW n \in Names, Discover(n)
      PROVE  RegistryDataOK' /\ QueuesOK'
  <2>1. devices' \in Registry
    BY <1>3, EditedOK, EmptyIsRendered DEF Discover, RegistryDataOK
  <2>2. outq' \in Seq(Message)
    BY <1>3, <2>1, QueueOK, MessagesOK DEF Discover, QueuesOK
  <2>3. EnsureCurrentForced(devices', down) /\ down \in Seq(CloudValues)
    BY <1>3 DEF Discover, QueuesOK
  <2>4. /\ conf' \in Block /\ loaded' \in Block
        /\ down' \in Seq(CloudValues)
    BY <2>1, <2>3, EnsureKeepsType
  <2> QED BY <1>3, <2>1, <2>2, <2>4 DEF Discover, RegistryDataOK, QueuesOK
<1>4. CASE CloudReceives
  <2>1. Head(outq) \in Message /\ Tail(outq) \in Seq(Message)
    BY <1>4, QueueOK DEF CloudReceives, QueuesOK
  <2>2. cloud' \in CloudValues
    BY <1>4, <2>1, MessagesOK DEF CloudReceives, RegistryDataOK, CloudValues
  <2>3. down' \in Seq(CloudValues)
    BY <1>4, <2>2, QueueOK DEF CloudReceives, QueuesOK, RegistryDataOK
  <2> QED BY <1>4, <2>1, <2>2, <2>3 DEF CloudReceives, RegistryDataOK, QueuesOK
<1>5. CASE DroppedAtBridge
  BY <1>5, QueueOK DEF DroppedAtBridge, RegistryDataOK, QueuesOK
<1>6. CASE ConsoleEdits
  <2>1. cloud' \in CloudValues
    <3>1. (IF cloud = Unset THEN EmptyRegistry ELSE cloud) \in Registry
      BY EmptyIsRendered DEF RegistryDataOK, CloudValues
    <3> QED BY <1>6, <1>a, <3>1, EditedOK DEF ConsoleEdits, CloudValues
  <2>2. down' \in Seq(CloudValues)
    BY <1>6, <2>1, QueueOK DEF ConsoleEdits, QueuesOK
  <2>3. events' \in 0..MaxEvents
    BY <1>6, <1>a DEF ConsoleEdits, Happens, RegistryDataOK
  <2> QED BY <1>6, <2>1, <2>2, <2>3 DEF ConsoleEdits, RegistryDataOK, QueuesOK
<1>7. CASE AgentRestarts
  <2>1. conf' \in Block /\ loaded' \in Block /\ devices' \in Registry
    BY <1>7, EmptyIsRendered, RenderedOK
       DEF AgentRestarts, MosquittoRestarts, RestartFails, RegistryDataOK
  <2>2. events' \in 0..MaxEvents
    BY <1>7, <1>a DEF AgentRestarts, Happens, RegistryDataOK
  <2> QED BY <1>7, <2>1, <2>2, EmptyQueues DEF AgentRestarts, LinkCut, RegistryDataOK, QueuesOK
<1>8. CASE BrokerRestarts
  <2>1. events' \in 0..MaxEvents
    BY <1>8, <1>a DEF BrokerRestarts, Happens, RegistryDataOK
  <2> QED BY <1>8, <2>1, EmptyQueues
          DEF BrokerRestarts, MosquittoRestarts, LinkCut, RegistryDataOK, QueuesOK
<1>9. CASE CloudLinkDrops
  <2>1. events' \in 0..MaxEvents
    BY <1>9, <1>a DEF CloudLinkDrops, Happens, RegistryDataOK
  <2>2. down' \in Seq(CloudValues)
    BY <1>9, QueueOK DEF CloudLinkDrops, QueuesOK
  <2> QED BY <1>9, <2>1, <2>2 DEF CloudLinkDrops, RegistryDataOK, QueuesOK
<1>10. CASE CloudLinkReturns
  BY <1>10 DEF CloudLinkReturns, RegistryDataOK, QueuesOK
<1>11. CASE UNCHANGED vars
  BY <1>11 DEF vars, RegistryDataOK, QueuesOK
<1> QED BY <1>1, <1>2, <1>3, <1>4, <1>5, <1>6, <1>7, <1>8, <1>9, <1>10, <1>11 DEF Next

(* The registry, the rendered block, the messages under way and the        *)
(* datastream keep their types for any names, tokens, roles and number of  *)
(* events.                                                                 *)
THEOREM RegistryTypeCorrect == Spec => []TypeOK
<1>1. Init => TypeOK
  BY RegistryTypeInit
<1>2. TypeOK /\ [Next]_vars => TypeOK'
  BY RegistryTypeStep
<1> QED BY <1>1, <1>2, PTL DEF Spec

(***************************************************************************)
(* The block mosquitto runs.  It is the file's, unless a restart failed,   *)
(* and every handler that changes the registry renders the file.           *)
(***************************************************************************)
BlockFollows ==
    /\ conf = ConnectionBlock(devices)
    /\ stale \/ loaded = conf

LEMMA FollowsStep == BlockFollows /\ [Next]_vars => BlockFollows'
<1> SUFFICES ASSUME BlockFollows, [Next]_vars
             PROVE  BlockFollows'
  OBVIOUS
<1>1. CASE HandleSubDeviceRegistry
  BY <1>1 DEF HandleSubDeviceRegistry, EnsureCurrentForced, MosquittoRestarts, RestartFails,
              BlockFollows
<1>2. CASE \E n \in Names : Discover(n)
  BY <1>2 DEF Discover, EnsureCurrentForced, MosquittoRestarts, RestartFails, BlockFollows
<1>3. CASE AgentRestarts
  BY <1>3, EmptyIsRendered DEF AgentRestarts, MosquittoRestarts, RestartFails, BlockFollows
<1>4. CASE BrokerRestarts
  BY <1>4 DEF BrokerRestarts, MosquittoRestarts, BlockFollows
<1>5. CASE \/ Connect \/ CloudReceives \/ DroppedAtBridge \/ ConsoleEdits
           \/ CloudLinkDrops \/ CloudLinkReturns \/ UNCHANGED vars
  <2>1. UNCHANGED <<devices, conf, loaded, stale>>
    BY <1>5 DEF Connect, CloudReceives, DroppedAtBridge, ConsoleEdits,
                CloudLinkDrops, CloudLinkReturns, vars
  <2> QED BY <2>1 DEF BlockFollows
<1> QED BY <1>1, <1>2, <1>3, <1>4, <1>5 DEF Next

LEMMA StaysFollowed == Spec => []BlockFollows
<1>1. Init => BlockFollows
  BY EmptyIsRendered DEF Init, BlockFollows
<1> QED BY <1>1, FollowsStep, PTL DEF Spec

(* Whatever order discoveries, answers, edits and restarts come in,        *)
(* mosquitto runs the block of the agent's registry, unless the last       *)
(* docker restart failed.                                                  *)
THEOREM BlockFollowsRegistry == Spec => []MosquittoFollowsRegistry
<1>1. BlockFollows => MosquittoFollowsRegistry
  BY DEF BlockFollows, MosquittoFollowsRegistry
<1> QED BY <1>1, StaysFollowed, PTL

(***************************************************************************)
(* What the agent and the cloud have in common, when nothing is left to    *)
(* arrive and the last loss has been made up for.  That they agree then is *)
(* not inductive: LastTells says what the last message under way will      *)
(* bring, UnsetKnown that of a datastream without a value the agent knows  *)
(* nothing but the names it discovered.                                    *)
(***************************************************************************)
\* The agent is connected and no message is under way.
Delivered == link /\ outq = << >> /\ down = << >>

AgreeWhenDelivered == Delivered /\ ~lost => InStep

LastTells ==
    link /\ ~lost /\ outq = << >> => IF down = << >> THEN InStep ELSE down[Len(down)] = cloud

OnlyDiscovered(d) == \A n \in DOMAIN d : d[n] = PlaceholderEntry

UnsetKnown ==
    cloud = Unset => OnlyDiscovered(devices) /\ \A i \in 1..Len(down) : down[i] = Unset

Telling == LastTells /\ UnsetKnown

LEMMA Queue ==
  ASSUME NEW S, NEW q \in Seq(S)
  PROVE  /\ Len(q) \in Nat /\ (q = << >> <=> Len(q) = 0)
         /\ \A x \in S : /\ Append(q, x) # << >> /\ Len(Append(q, x)) = Len(q) + 1
                         /\ Append(q, x)[Len(q) + 1] = x
                         /\ \A i \in 1..Len(q) : Append(q, x)[i] = q[i]
         /\ \A x \in S : /\ <<x>> \o q # << >> /\ Len(<<x>> \o q) = Len(q) + 1
                         /\ (<<x>> \o q)[1] = x
                         /\ \A i \in 1..Len(q) : (<<x>> \o q)[i + 1] = q[i]
         /\ q # << >> => /\ Head(q) = q[1] /\ Head(q) \in S
                         /\ Len(Tail(q)) = Len(q) - 1 /\ Tail(q) \in Seq(S)
                         /\ \A i \in 1..(Len(q) - 1) : Tail(q)[i] = q[i + 1]
<1>1. Len(q) \in Nat /\ (q = << >> <=> Len(q) = 0)
  OBVIOUS
<1>2. ASSUME NEW x \in S
      PROVE  /\ Append(q, x) # << >> /\ Len(Append(q, x)) = Len(q) + 1
             /\ Append(q, x)[Len(q) + 1] = x
             /\ \A i \in 1..Len(q) : Append(q, x)[i] = q[i]
  BY <1>1
<1>3. ASSUME NEW x \in S
      PROVE  /\ <<x>> \o q # << >> /\ Len(<<x>> \o q) = Len(q) + 1
             /\ (<<x>> \o q)[1] = x
             /\ \A i \in 1..Len(q) : (<<x>> \o q)[i + 1] = q[i]
  BY <1>1
<1>4. ASSUME q # << >>
      PROVE  /\ Head(q) = q[1] /\ Head(q) \in S
             /\ Len(Tail(q)) = Len(q) - 1 /\ Tail(q) \in Seq(S)
             /\ \A i \in 1..(Len(q) - 1) : Tail(q)[i] = q[i + 1]
  BY <1>1, <1>4
<1> QED BY <1>1, <1>2, <1>3, <1>4

LEMMA TellingInit == Init => Telling
<1> SUFFICES ASSUME Init PROVE Telling
  OBVIOUS
<1>1. DOMAIN devices = {} /\ down = << >>
  BY DEF Init, EmptyRegistry
<1>2. \A i \in 1..Len(down) : FALSE
  BY <1>1
<1> QED BY <1>1, <1>2 DEF Init, Telling, LastTells, UnsetKnown, OnlyDiscovered

\* A name discovered leaves a registry of discovered names one.
LEMMA DiscoveredMore ==
  ASSUME NEW d \in Registry, NEW n \in Names, OnlyDiscovered(d)
  PROVE  OnlyDiscovered(With(d, n, PlaceholderEntry))
  BY DEF OnlyDiscovered, With

LEMMA TellingStep ==
  ASSUME CloudEchoes, TypeOK, Telling, [Next]_vars
  PROVE  Telling'
<1>a. /\ outq \in Seq(Message) /\ down \in Seq(CloudValues)
      /\ devices \in Registry /\ cloud \in CloudValues
  BY RegistryTypeParts DEF RegistryDataOK, QueuesOK
<1>b. Unset \notin Registry
  BY RegistryAssumption
<1>1. CASE Connect
  <2>1. UNCHANGED <<devices, cloud, down>> /\ outq' # << >>
    BY <1>a, <1>1, MessagesOK, Queue DEF Connect
  <2> QED BY <2>1 DEF Telling, LastTells, UnsetKnown
<1>2. CASE HandleSubDeviceRegistry
  <2>1. /\ link /\ Len(down) \in Nat /\ Len(down) # 0 /\ Head(down) = down[1]
        /\ Tail(down) \in Seq(CloudValues) /\ Len(Tail(down)) = Len(down) - 1
        /\ \A i \in 1..(Len(down) - 1) : Tail(down)[i] = down[i + 1]
        /\ UNCHANGED <<cloud, outq>>
    BY <1>a, <1>2, Queue DEF HandleSubDeviceRegistry
  <2>2. (down' = Tail(down) /\ lost' = lost) \/ (down' = << >> /\ ~link')
    BY <1>2, <2>1 DEF HandleSubDeviceRegistry, EnsureCurrentForced, LinkCut
  <2>3. IF down[1] = Unset THEN devices' = devices /\ down' = Tail(down) ELSE devices' = down[1]
    BY <1>2, <2>1 DEF HandleSubDeviceRegistry
  <2>4. UnsetKnown'
    <3>1. CASE cloud = Unset
      <4>1. down[1] = Unset
        BY <2>1, <3>1 DEF Telling, UnsetKnown
      <4>2. devices' = devices /\ down' = Tail(down)
        BY <2>3, <4>1
      <4>3. \A i \in 1..Len(down') : down'[i] = Unset
        BY <2>1, <3>1, <4>2 DEF Telling, UnsetKnown
      <4> QED BY <2>1, <3>1, <4>2, <4>3 DEF Telling, UnsetKnown
    <3>2. CASE cloud # Unset
      BY <2>1, <3>2 DEF UnsetKnown
    <3> QED BY <3>1, <3>2
  <2>5. LastTells'
    <3> SUFFICES ASSUME link', ~lost', outq = << >>
                 PROVE  IF down' = << >> THEN InStep' ELSE down'[Len(down')] = cloud
      BY <2>1 DEF LastTells
    <3>1. down' = Tail(down) /\ ~lost
      BY <2>2
    <3>2. down[Len(down)] = cloud
      BY <1>a, <2>1, <3>1, Queue DEF Telling, LastTells
    <3>3. CASE Len(down) = 1
      <4>1. down' = << >> /\ down[1] = cloud
        BY <2>1, <3>1, <3>2, <3>3, Queue
      <4>2. CASE cloud = Unset
        <5>1. devices' = devices /\ OnlyDiscovered(devices)
          BY <2>3, <4>1, <4>2 DEF Telling, UnsetKnown
        <5> QED BY <2>1, <4>1, <4>2, <5>1 DEF InStep, OnlyDiscovered
      <4>3. CASE cloud # Unset
        BY <2>1, <2>3, <4>1, <4>3 DEF InStep
      <4> QED BY <4>2, <4>3
    <3>4. CASE Len(down) # 1
      <4>1. Len(down') = Len(down) - 1 /\ Len(down') \in 1..(Len(down) - 1) /\ down' # << >>
        BY <2>1, <3>1, <3>4, Queue
      <4>2. down'[Len(down')] = down[Len(down') + 1]
        BY <2>1, <3>1, <4>1
      <4> QED BY <2>1, <3>2, <4>1, <4>2
    <3> QED BY <3>3, <3>4
  <2> QED BY <2>4, <2>5 DEF Telling
<1>3. ASSUME NEW n \in Names, Discover(n)
      PROVE  Telling'
  <2>1. devices' \in Registry /\ devices' = With(devices, n, PlaceholderEntry)
    BY <1>3, <1>a, EditedOK, EmptyIsRendered DEF Discover
  <2>2. outq' # << >>
    BY <1>3, <1>a, <2>1, MessagesOK, Queue DEF Discover
  <2>3. UNCHANGED cloud /\ (down' = down \/ down' = << >>)
    BY <1>3 DEF Discover, EnsureCurrentForced, LinkCut
  <2>4. cloud = Unset => \A i \in 1..Len(down') : down'[i] = Unset
    <3>1. \A i \in 1..Len(<< >>) : FALSE
      OBVIOUS
    <3> QED BY <2>3, <3>1 DEF Telling, UnsetKnown
  <2>5. cloud = Unset => OnlyDiscovered(devices')
    BY <1>a, <2>1, DiscoveredMore DEF Telling, UnsetKnown
  <2> QED BY <2>2, <2>3, <2>4, <2>5 DEF Telling, LastTells, UnsetKnown
<1>4. CASE CloudReceives
  <2>1. /\ UNCHANGED devices
        /\ Len(outq) \in Nat /\ Len(outq) # 0 /\ Head(outq) = outq[1] /\ Head(outq) \in Message
    BY <1>4, <1>a, Queue DEF CloudReceives
  <2>2. cloud' \in CloudValues /\ down' = Append(down, cloud')
    BY <1>4, <1>a, <2>1, MessagesOK DEF CloudReceives, CloudValues
  <2>3. /\ down' # << >> /\ Len(down') = Len(down) + 1 /\ down'[Len(down')] = cloud'
        /\ \A i \in 1..Len(down) : down'[i] = down[i]
        /\ Len(down) \in Nat
    BY <1>a, <2>2, Queue
  <2>4. cloud' = Unset => cloud = Unset
    BY <1>4, <1>b, <2>1, MessagesOK DEF CloudReceives
  <2>5. cloud' = Unset => \A i \in 1..Len(down') : down'[i] = Unset
    BY <2>3, <2>4 DEF Telling, UnsetKnown
  <2>6. UnsetKnown'
    BY <2>1, <2>4, <2>5 DEF Telling, UnsetKnown
  <2>7. LastTells'
    BY <2>3 DEF LastTells
  <2> QED BY <2>6, <2>7 DEF Telling
<1>5. CASE DroppedAtBridge
  BY <1>5 DEF DroppedAtBridge, Telling, LastTells, UnsetKnown
<1>6. CASE ConsoleEdits
  <2>1. cloud' \in Registry
    <3>1. (IF cloud = Unset THEN EmptyRegistry ELSE cloud) \in Registry
      BY <1>a, EmptyIsRendered DEF CloudValues
    <3>2. \A e \in ConsoleEntries : e \in Entry
      BY RegistryAssumption
    <3> QED BY <1>6, <3>1, <3>2, EditedOK DEF ConsoleEdits
  <2>2. ASSUME link', ~lost'
        PROVE  down' # << >> /\ down'[Len(down')] = cloud'
    <3>1. down' = Append(down, cloud')
      BY <1>6, <2>2 DEF ConsoleEdits
    <3> QED BY <1>a, <2>1, <3>1, Queue DEF CloudValues
  <2> QED BY <1>b, <2>1, <2>2 DEF Telling, LastTells, UnsetKnown
<1>7. CASE AgentRestarts
  <2>1. ~link' /\ down' = << >> /\ devices' = EmptyRegistry /\ UNCHANGED cloud
    BY <1>7 DEF AgentRestarts, LinkCut
  <2>2. \A i \in 1..Len(down') : down'[i] = Unset
    BY <2>1
  <2>3. OnlyDiscovered(devices')
    BY <2>1 DEF OnlyDiscovered, EmptyRegistry
  <2> QED BY <2>1, <2>2, <2>3 DEF Telling, LastTells, UnsetKnown
<1>8. CASE BrokerRestarts
  <2>1. ~link' /\ down' = << >> /\ UNCHANGED <<devices, cloud>>
    BY <1>8 DEF BrokerRestarts, LinkCut
  <2>2. \A i \in 1..Len(down') : down'[i] = Unset
    BY <2>1
  <2> QED BY <2>1, <2>2 DEF Telling, LastTells, UnsetKnown
<1>9. CASE CloudLinkDrops
  <2>1. UNCHANGED <<devices, link, outq, cloud>> /\ (~lost' => down' = down /\ ~lost)
    BY <1>9, Zenon DEF CloudLinkDrops
  <2>2. PICK k \in 0..Len(down) : down' = SubSeq(down, 1, k)
    BY <1>9 DEF CloudLinkDrops
  <2>3. \A i \in 1..Len(down') : i \in 1..Len(down) /\ down'[i] = down[i]
    BY <1>a, <2>2
  <2> QED BY <2>1, <2>3 DEF Telling, LastTells, UnsetKnown, InStep
<1>10. CASE CloudLinkReturns
  <2>1. UNCHANGED <<devices, link, outq, down, cloud, lost>>
    BY <1>10 DEF CloudLinkReturns
  <2> QED BY <2>1 DEF Telling, LastTells, UnsetKnown, InStep
<1>11. CASE UNCHANGED vars
  <2>1. UNCHANGED <<devices, link, outq, down, cloud, lost>>
    BY <1>11 DEF vars
  <2> QED BY <2>1 DEF Telling, LastTells, UnsetKnown, InStep
<1> QED BY <1>1, <1>2, <1>3, <1>4, <1>5, <1>6, <1>7, <1>8, <1>9, <1>10, <1>11 DEF Next

(* If the cloud echoes what a device publishes, the agent and the cloud    *)
(* are never quietly apart: whenever the agent is connected, no message is *)
(* under way and the last loss was followed by a message that got through, *)
(* both have the same registry, whatever edits, discoveries, outages of    *)
(* the bridge and restarts of either container came before.  This is what  *)
(* RegistryConverges owes to safety.                                       *)
THEOREM NeverQuietlyApart ==
  ASSUME CloudEchoes
  PROVE  Spec => []AgreeWhenDelivered
<1>1. TypeOK /\ Telling /\ [Next]_vars => Telling'
  BY TellingStep
<1>2. Telling => AgreeWhenDelivered
  BY DEF Telling, LastTells, AgreeWhenDelivered, Delivered
<1> QED BY <1>1, <1>2, TellingInit, RegistryTypeCorrect, PTL DEF Spec

(***************************************************************************)
(* That the reconnections end rests on a second fact: once the two agree,  *)
(* and everything under way says the same, no message makes the agent      *)
(* render anything again, so that only the outside world can cut it off.   *)
(***************************************************************************)
LEMMA AgreedStep ==
  ASSUME TypeOK, Agreed, Undisturbed, Next
  PROVE  Agreed' /\ UNCHANGED <<devices, conf, loaded>> /\ (link => link')
<1>a. /\ outq \in Seq(Message) /\ down \in Seq(CloudValues)
      /\ devices \in Registry /\ cloud \in CloudValues /\ events \in Nat
  BY RegistryTypeParts, RegistryAssumption DEF RegistryDataOK, QueuesOK
<1>b. Unset \notin Registry
  BY RegistryAssumption
<1>c. cloud \in {Unset, devices}
  BY DEF Agreed, InStep
<1>d. ~Happens
  BY <1>a DEF Undisturbed, Happens
<1>1. CASE Connect
  <2>1. UNCHANGED <<devices, conf, loaded, down, cloud>> /\ link'
    BY <1>1 DEF Connect
  <2>2. \A i \in 1..Len(outq') : outq'[i] \in {Get, Publish(devices)}
    <3>1. CASE outq' = <<Get>> \o outq
      <4> TAKE i \in 1..Len(outq')
      <4>1. Len(outq') = Len(outq) + 1 /\ outq'[1] = Get /\ Len(outq) \in Nat
            /\ \A k \in 1..Len(outq) : outq'[k + 1] = outq[k]
        BY <1>a, <3>1, MessagesOK, Queue
      <4>2. CASE i = 1
        BY <4>1, <4>2
      <4>3. CASE i # 1
        <5>1. i - 1 \in 1..Len(outq) /\ (i - 1) + 1 = i
          BY <4>1, <4>3
        <5> QED BY <4>1, <5>1 DEF Agreed
      <4> QED BY <4>2, <4>3
    <3>2. CASE outq' = Append(outq, Get)
      <4> TAKE i \in 1..Len(outq')
      <4>1. Len(outq') = Len(outq) + 1 /\ outq'[Len(outq) + 1] = Get /\ Len(outq) \in Nat
            /\ \A k \in 1..Len(outq) : outq'[k] = outq[k]
        BY <1>a, <3>2, MessagesOK, Queue
      <4>2. i \in 1..Len(outq) \/ i = Len(outq) + 1
        BY <4>1
      <4> QED BY <4>1, <4>2 DEF Agreed
    <3> QED BY <1>1, <3>1, <3>2 DEF Connect
  <2> QED BY <2>1, <2>2 DEF Agreed, InStep
<1>2. CASE HandleSubDeviceRegistry
  <2>1. /\ Len(down) \in Nat /\ Len(down) # 0 /\ Head(down) = down[1]
        /\ Len(Tail(down)) = Len(down) - 1
        /\ \A i \in 1..(Len(down) - 1) : Tail(down)[i] = down[i + 1]
    BY <1>a, <1>2, Queue DEF HandleSubDeviceRegistry
  <2>2. Head(down) \in {Unset, devices}
    BY <2>1 DEF Agreed
  <2>3. /\ UNCHANGED <<devices, conf, loaded, link, outq, cloud>>
        /\ down' = Tail(down)
    BY <1>2, <2>2 DEF HandleSubDeviceRegistry
  <2>4. \A i \in 1..Len(down') : down'[i] \in {Unset, devices}
    BY <2>1, <2>3 DEF Agreed
  <2> QED BY <2>3, <2>4 DEF Agreed, InStep
<1>3. CASE CloudReceives
  <2>1. /\ UNCHANGED <<devices, conf, loaded, link>>
        /\ Len(outq) \in Nat /\ Len(outq) # 0 /\ Head(outq) = outq[1]
        /\ Len(outq') = Len(outq) - 1
        /\ \A i \in 1..(Len(outq) - 1) : outq'[i] = outq[i + 1]
    BY <1>3, <1>a, Queue DEF CloudReceives
  <2>2. \A i \in 1..Len(outq') : outq'[i] \in {Get, Publish(devices)}
    BY <2>1 DEF Agreed
  <2>3. Head(outq) \in {Get, Publish(devices)}
    BY <2>1 DEF Agreed
  <2>4. /\ cloud' \in {cloud, devices} /\ cloud' \in CloudValues
        /\ down' = Append(down, cloud') \/ down' = down
    BY <1>3, <1>a, <2>3 DEF CloudReceives, Publish, Get, CloudValues
  <2>5. InStep'
    BY <1>a, <1>b, <2>1, <2>4 DEF Agreed, InStep
  <2>6. \A i \in 1..Len(down') : down'[i] \in {Unset, devices}
    <3>1. CASE down' = down
      BY <3>1 DEF Agreed
    <3>2. CASE down' = Append(down, cloud')
      <4> TAKE i \in 1..Len(down')
      <4>1. /\ Len(down') = Len(down) + 1 /\ down'[Len(down) + 1] = cloud' /\ Len(down) \in Nat
            /\ \A k \in 1..Len(down) : down'[k] = down[k]
        BY <1>a, <2>4, <3>2, Queue
      <4>2. i \in 1..Len(down) \/ i = Len(down) + 1
        BY <4>1
      <4>3. cloud' \in {Unset, devices}
        BY <1>c, <2>4
      <4> QED BY <4>1, <4>2, <4>3 DEF Agreed
    <3> QED BY <2>4, <3>1, <3>2
  <2> QED BY <2>1, <2>2, <2>5, <2>6 DEF Agreed
<1>4. CASE DroppedAtBridge
  <2>1. /\ UNCHANGED <<devices, conf, loaded, link, down, cloud>>
        /\ Len(outq) \in Nat /\ Len(outq') = Len(outq) - 1
        /\ \A i \in 1..(Len(outq) - 1) : outq'[i] = outq[i + 1]
    BY <1>4, <1>a, Queue DEF DroppedAtBridge
  <2>2. \A i \in 1..Len(outq') : outq'[i] \in {Get, Publish(devices)}
    BY <2>1 DEF Agreed
  <2> QED BY <2>1, <2>2 DEF Agreed, InStep
<1>5. CASE CloudLinkReturns
  BY <1>5 DEF CloudLinkReturns, Agreed, InStep
<1> QED BY <1>1, <1>2, <1>3, <1>4, <1>5, <1>d
        DEF Next, Undisturbed, ConsoleEdits, AgentRestarts, BrokerRestarts, CloudLinkDrops

(* Once the agent and the cloud agree and what is under way says so too,   *)
(* echoes and answers leave the registry, the rendered block and mosquitto *)
(* alone: only an edit, an outage, a restart or a sub-device heard of for  *)
(* the first time can start another round.  This is what ReconnectLoopEnds *)
(* owes to safety.                                                         *)
THEOREM EchoesEnd == Spec => RestartsNeedAChange
<1>1. TypeOK /\ [Next]_vars =>
          [Agreed /\ Undisturbed =>
               Agreed' /\ UNCHANGED <<devices, conf, loaded>> /\ (link => link')]_vars
  BY AgreedStep
<1> QED BY <1>1, RegistryTypeCorrect, PTL DEF Spec, RestartsNeedAChange


(***************************************************************************)
(* What the model of the traffic takes from the model of the registry: the *)
(* block mosquitto runs changes only as RegistryBecomes has it change.     *)
(***************************************************************************)
LoadsItsBlock == [][loaded' \in {ConnectionBlock(devices'), loaded}]_<<devices, loaded>>

(* Whenever the registry or mosquitto's block changes, mosquitto goes on   *)
(* with the block it has or gets the one of the registry as it is then: no *)
(* restart, by the agent or by something else, ever loads the block of an  *)
(* earlier registry.                                                       *)
THEOREM RestartsLoadTheBlock == Spec => LoadsItsBlock
<1>1. ASSUME BlockFollows, [Next]_vars
      PROVE  loaded' \in {ConnectionBlock(devices'), loaded}
  <2>1. CASE HandleSubDeviceRegistry
    BY <2>1 DEF HandleSubDeviceRegistry, EnsureCurrentForced, MosquittoRestarts, RestartFails
  <2>2. CASE \E n \in Names : Discover(n)
    BY <2>2 DEF Discover, EnsureCurrentForced, MosquittoRestarts, RestartFails
  <2>3. CASE AgentRestarts
    BY <2>3, EmptyIsRendered DEF AgentRestarts, MosquittoRestarts, RestartFails
  <2>4. CASE BrokerRestarts
    BY <1>1, <2>4 DEF BrokerRestarts, MosquittoRestarts, BlockFollows
  <2>5. CASE \/ Connect \/ CloudReceives \/ DroppedAtBridge \/ ConsoleEdits
             \/ CloudLinkDrops \/ CloudLinkReturns
    BY <2>5 DEF Connect, CloudReceives, DroppedAtBridge, ConsoleEdits, CloudLinkDrops,
                CloudLinkReturns
  <2>6. CASE UNCHANGED vars
    BY <2>6 DEF vars
  <2> QED BY <1>1, <2>1, <2>2, <2>3, <2>4, <2>5, <2>6 DEF Next
<1>2. BlockFollows /\ [Next]_vars => [loaded' \in {ConnectionBlock(devices'), loaded}]_<<devices, loaded>>
  BY <1>1
<1> QED BY <1>2, StaysFollowed, PTL DEF Spec, LoadsItsBlock
==============================================================================
