--------------------------- MODULE RoledRouting ---------------------------
(***************************************************************************)
(* The routing rules of the gateway mode of the agent (agent/gateway.py):  *)
(* which entries of the sub-device registry are bridged straight by        *)
(* mosquitto, which are rewritten by the agent because several local       *)
(* sensors share one Blynk device ("roled" entries), and which are left    *)
(* out.  Pure operators over a registry value.                             *)
(*                                                                         *)
(* A registry maps a local sub-device name to the pair parse_entry makes   *)
(* of its value: a token and a role.  A role, like the name of a           *)
(* datastream, is the sequence of the words between its underscores: that  *)
(* is a bijection with the strings of the code, under which                *)
(* ds_name.startswith(role + "_") says that the role's words are a proper  *)
(* prefix of the datastream's.                                             *)
(***************************************************************************)
EXTENDS Naturals, Sequences, FiniteSets, SequencesExt

CONSTANTS
    Names,        \* local sub-device names, the <name> of sub/<name>/...
    Tokens,       \* real Blynk device tokens
    Words,        \* what stands between two underscores
    Roles,        \* roles that match ROLE_PATTERN, sequences of words
    BadRole,      \* any role text that does not match ROLE_PATTERN
    Placeholder   \* PLACEHOLDER_TOKEN, "???"

ASSUME RoutingAssumption ==
    /\ Placeholder \notin Tokens
    /\ \A r \in Roles : r \in Seq(Words) /\ r # << >> /\ r # BadRole
    /\ BadRole # << >>

\* "TOKEN" and "TOKEN|" carry no role.
NoRole == << >>

\* What parse_entry returns; a placeholder may carry a role ("???|motor").
Entry == [token : Tokens \union {Placeholder}, role : Roles \union {NoRole, BadRole}]

\* A slip in parse_entry: without a "|" the whole text is taken for the role.
PlaceholderEntryWithRole == [token |-> Placeholder, role |-> Placeholder]

PlaceholderEntry == [token |-> Placeholder, role |-> NoRole]

\* Every value the registry can take, the empty one included.
Registry == UNION { [D -> Entry] : D \in SUBSET Names }

EmptyRegistry == [n \in {} |-> PlaceholderEntry]

IsConfigured(devices, n) == devices[n].token # Placeholder

\* The configured names that have this token: one group of build_roled_routing.
Sharing(devices, token) ==
    { n \in DOMAIN devices : IsConfigured(devices, n) /\ devices[n].token = token }

Siblings(devices, n) == Sharing(devices, devices[n].token) \ {n}

\* A slip: any company on the token is taken for a conflict.
IsRoledRouteAlone(devices, n) ==
    /\ IsConfigured(devices, n)
    /\ devices[n].role \in Roles
    /\ Siblings(devices, n) = {}

(***************************************************************************)
(* RoledRouting.by_name as a set: n has a valid role, nobody on its token  *)
(* is without a role, and nobody on its token has the same role.           *)
(***************************************************************************)
IsRoledRoute(devices, n) ==
    /\ IsConfigured(devices, n)
    /\ devices[n].role \in Roles
    /\ \A m \in Siblings(devices, n) :
           devices[m].role # NoRole /\ devices[m].role # devices[n].role

RoledNames(devices) == { n \in DOMAIN devices : IsRoledRoute(devices, n) }

NamesForToken(devices, token) == RoledNames(devices) \intersect Sharing(devices, token)

\* A slip: only names that carry a role are excluded.
IsExcludedByRole(devices, n) ==
    IsConfigured(devices, n) /\ devices[n].role # NoRole

\* excluded_names: it has a role of any kind, or it shares its token.
IsExcluded(devices, n) ==
    /\ IsConfigured(devices, n)
    /\ devices[n].role # NoRole \/ Siblings(devices, n) # {}

UnroledNames(devices) ==
    { n \in DOMAIN devices : IsConfigured(devices, n) /\ ~IsExcluded(devices, n) }

(***************************************************************************)
(* build_gateway_connection_block: the remap lines of the unroled names,   *)
(* each bound to its token, and one block of lines per roled token.  No    *)
(* lines at all is the empty string, a device without gateway traffic.     *)
(***************************************************************************)
ConnectionBlock(devices) ==
    [ unroled |-> { <<n, devices[n].token>> : n \in UnroledNames(devices) },
      roled   |-> { devices[n].token : n \in RoledNames(devices) } ]

EmptyBlock == [unroled |-> {}, roled |-> {}]

IsRolePrefix(role, ds) == IsStrictPrefix(role, ds)

\* A slip: the roles tried in the order of their length, shortest first.
ResolveShortestFirst(devices, token, ds) ==
    LET owners == { n \in NamesForToken(devices, token) : IsRolePrefix(devices[n].role, ds) }
    IN  { n \in owners : \A m \in owners : Len(devices[m].role) >= Len(devices[n].role) }

(***************************************************************************)
(* resolve_ds_downlink: the names on the token whose role is the longest   *)
(* one that prefixes the datastream.  At most one; empty is the code's     *)
(* None, an unprefixed downlink.                                           *)
(***************************************************************************)
ResolveDsDownlink(devices, token, ds) ==
    LET owners == { n \in NamesForToken(devices, token) : IsRolePrefix(devices[n].role, ds) }
    IN  { n \in owners : \A m \in owners : Len(devices[m].role) <= Len(devices[n].role) }

\* The datastream of the Blynk device on which n's datastream ds ends up.
RoledDs(devices, n, ds) == devices[n].role \o ds

StripRole(devices, n, ds) == SubSeq(ds, Len(devices[n].role) + 1, Len(ds))
=============================================================================
