---------------------------- MODULE ConfigStore ----------------------------
(***************************************************************************)
(* The configuration store: what PostgreSQL keeps of the version sets, and *)
(* the operations of the southbound service on it.  Every operation is one *)
(* statement in a transaction of its own, so an operation is one action;   *)
(* one that the database refuses, or whose input does not parse, changes   *)
(* nothing and is no action.  A table is the set of its rows.  An id that  *)
(* a caller names is some row: ids are never given twice.                  *)
(*                                                                         *)
(* Kept of a row: its key, its references, the version set it belongs to,  *)
(* whether a node was heard of in the last two minutes, and the settings   *)
(* that an update carries to the nodes.  The columns that are only shown   *)
(* (descriptions, authors, the state of a version set) are left out.       *)
(***************************************************************************)
EXTENDS Naturals, FiniteSets

CONSTANTS
    Versions,       \* ids of version sets
    Serials,        \* serial numbers of nodes
    ConfigNames,    \* names of endpoint configurations; "" is one of them
    GroupNames,     \* names of groups
    ProxyNames,     \* names of proxies
    HwIds,          \* ids of hardware configurations
    Settings,       \* what an endpoint configuration or a proxy says
    MaxRows         \* bound: rows of each table

ASSUME StoreAssumption ==
    /\ "" \in ConfigNames
    /\ "" \notin GroupNames \cup ProxyNames     \* an update leaves these out
    /\ MaxRows \in Nat

VARIABLES
    versionSets,    \* version_sets: ids
    nodes,          \* nodes: [serial, vs, fresh]
    endpoints,      \* endpoint_configs: [name, vs, setting]
    groups,         \* groups: [name, vs, endpoint, legacy]
    proxies,        \* proxies: [name, vs, serial, group, setting]
    hwConfigs,      \* hardware_configs: [id, vs, serial]
    transitions,    \* version_transitions: the version sets they lead to
    log,            \* transaction_log: [serial, vs] with a row
    updating,       \* nodes an activation has read and waits to hear of
    planned         \* version sets read, whose transition is yet to be made

vars == <<versionSets, nodes, endpoints, groups, proxies, hwConfigs,
          transitions, log, updating, planned>>
tables == <<versionSets, nodes, endpoints, groups, proxies, hwConfigs>>

Key == [serial : Serials, vs : Versions]
NodeRow == [serial : Serials, vs : Versions, fresh : BOOLEAN]
ConfigRow == [name : ConfigNames, vs : Versions, setting : Settings]
GroupRow == [name : GroupNames, vs : Versions,
             endpoint : ConfigNames, legacy : ConfigNames]
ProxyRow == [name : ProxyNames, vs : Versions, serial : Serials,
             group : GroupNames, setting : Settings]
HwRow == [id : HwIds, vs : Versions, serial : Serials]

-----------------------------------------------------------------------------
(* Keys and references, as the schema declares them. *)

NodeExists(s, v)   == \E n \in nodes : n.serial = s /\ n.vs = v
ConfigExists(e, v) == \E c \in endpoints : c.name = e /\ c.vs = v
GroupExists(g, v)  == \E r \in groups : r.name = g /\ r.vs = v
ProxyExists(p, v)  == \E r \in proxies : r.name = p /\ r.vs = v

NodeReferenced(s, v) ==
    \/ \E r \in proxies \cup hwConfigs : r.serial = s /\ r.vs = v
    \/ [serial |-> s, vs |-> v] \in log

\* Variant: the reference of a legacy configuration is not declared.
ConfigReferencedOnce(e, v) == \E g \in groups : g.vs = v /\ g.endpoint = e

ConfigReferenced(e, v) ==
    \E g \in groups : g.vs = v /\ (g.endpoint = e \/ g.legacy = e)

GroupReferenced(g, v) == \E p \in proxies : p.group = g /\ p.vs = v

VersionSetReferenced(v) ==
    \/ v \in transitions
    \/ \E r \in nodes \cup endpoints \cup groups \cup proxies \cup hwConfigs :
           r.vs = v

HasRoom(table) == Cardinality(table) < MaxRows

-----------------------------------------------------------------------------
(* Version sets. *)

CreateVersionSet(v) ==
    /\ v \notin versionSets
    /\ versionSets' = versionSets \cup {v}
    /\ UNCHANGED <<nodes, endpoints, groups, proxies, hwConfigs,
                   transitions, log, updating, planned>>

\* Variant: the nodes of a version set are deleted with it.
DeleteVersionSetCascade(v) ==
    /\ v \in versionSets \ transitions
    /\ \A r \in endpoints \cup groups \cup proxies \cup hwConfigs : r.vs # v
    /\ versionSets' = versionSets \ {v}
    /\ nodes' = {n \in nodes : n.vs # v}
    /\ log' = {k \in log : k.vs # v}
    /\ UNCHANGED <<endpoints, groups, proxies, hwConfigs, transitions, updating,
                   planned>>

\* The service deletes the row; it does not use the soft delete of the store.
DeleteVersionSet(v) ==
    /\ v \in versionSets
    /\ ~VersionSetReferenced(v)
    /\ versionSets' = versionSets \ {v}
    /\ UNCHANGED <<nodes, endpoints, groups, proxies, hwConfigs,
                   transitions, log, updating, planned>>

-----------------------------------------------------------------------------
(* Nodes. *)

CreateNode(s, v) ==
    /\ HasRoom(nodes)
    /\ v \in versionSets
    /\ ~NodeExists(s, v)
    /\ nodes' = nodes \cup {[serial |-> s, vs |-> v, fresh |-> FALSE]}
    /\ UNCHANGED <<versionSets, endpoints, groups, proxies, hwConfigs,
                   transitions, log, updating, planned>>

\* By id, with the time it was last seen; by serial number the statement is
\* never valid, because its values are not quoted.
UpdateNode(n, seen) ==
    /\ nodes' = (nodes \ {n}) \cup {[n EXCEPT !.fresh = seen]}
    /\ UNCHANGED <<versionSets, endpoints, groups, proxies, hwConfigs,
                   transitions, log, updating, planned>>

\* The node goes from every version set, whichever one the caller names.
DeleteNode(s) ==
    /\ \A v \in Versions : ~NodeReferenced(s, v)
    /\ nodes' = {n \in nodes : n.serial # s}
    /\ UNCHANGED <<versionSets, endpoints, groups, proxies, hwConfigs,
                   transitions, log, updating, planned>>

\* A hello of a node counts for its rows in every version set.
Hello(s) ==
    /\ nodes' = {[n EXCEPT !.fresh = @ \/ n.serial = s] : n \in nodes}
    /\ UNCHANGED <<versionSets, endpoints, groups, proxies, hwConfigs,
                   transitions, log, updating, planned>>

\* Two minutes pass without one.
Silence(s) ==
    /\ nodes' = {[n EXCEPT !.fresh = @ /\ n.serial # s] : n \in nodes}
    /\ UNCHANGED <<versionSets, endpoints, groups, proxies, hwConfigs,
                   transitions, log, updating, planned>>

-----------------------------------------------------------------------------
(* Endpoint configurations. *)

CreateEndpointConfig(c) ==
    /\ HasRoom(endpoints)
    /\ c.vs \in versionSets
    /\ ~ConfigExists(c.name, c.vs)
    /\ endpoints' = endpoints \cup {c}
    /\ UNCHANGED <<versionSets, nodes, groups, proxies, hwConfigs,
                   transitions, log, updating, planned>>

\* Variant: the condition names the configuration, but not its version set.
UpdateConfigsOfName(c, name, setting) ==
    /\ name # c.name => \A v \in Versions : /\ ~ConfigExists(name, v)
                                           /\ ~ConfigReferenced(c.name, v)
    /\ endpoints' = {IF d.name = c.name
                     THEN [d EXCEPT !.name = name, !.setting = setting]
                     ELSE d : d \in endpoints}
    /\ UNCHANGED <<versionSets, nodes, groups, proxies, hwConfigs,
                   transitions, log, updating, planned>>

\* By name, or by id: then the change is committed before a second statement,
\* without a condition, fails and the caller is told of an error.
UpdateEndpointConfig(c, name, setting) ==
    /\ name # c.name => /\ ~ConfigExists(name, c.vs)
                        /\ ~ConfigReferenced(c.name, c.vs)
    /\ endpoints' = (endpoints \ {c})
                      \cup {[c EXCEPT !.name = name, !.setting = setting]}
    /\ UNCHANGED <<versionSets, nodes, groups, proxies, hwConfigs,
                   transitions, log, updating, planned>>

DeleteEndpointConfig(c) ==
    /\ ~ConfigReferenced(c.name, c.vs)
    /\ endpoints' = endpoints \ {c}
    /\ UNCHANGED <<versionSets, nodes, groups, proxies, hwConfigs,
                   transitions, log, updating, planned>>

-----------------------------------------------------------------------------
(* Groups. *)

\* Variant: a legacy configuration that is not given is NULL.
CreateGroupOrNull(g) ==
    /\ HasRoom(groups)
    /\ g.vs \in versionSets
    /\ ~GroupExists(g.name, g.vs)
    /\ ConfigExists(g.endpoint, g.vs)
    /\ g.legacy = "" \/ ConfigExists(g.legacy, g.vs)
    /\ groups' = groups \cup {g}
    /\ UNCHANGED <<versionSets, nodes, endpoints, proxies, hwConfigs,
                   transitions, log, updating, planned>>

\* A name that is not given is the empty name, not NULL: the reference to it
\* is checked like any other.
CreateGroup(g) ==
    /\ HasRoom(groups)
    /\ g.vs \in versionSets
    /\ ~GroupExists(g.name, g.vs)
    /\ ConfigExists(g.endpoint, g.vs)
    /\ ConfigExists(g.legacy, g.vs)
    /\ groups' = groups \cup {g}
    /\ UNCHANGED <<versionSets, nodes, endpoints, proxies, hwConfigs,
                   transitions, log, updating, planned>>

\* By id; the group may move to another version set.  By name the statement is
\* never valid (no quotes), nor with a legacy configuration (no such column).
UpdateGroup(g, v, endpoint) ==
    /\ v \in versionSets
    /\ ConfigExists(endpoint, v)
    /\ ConfigExists(g.legacy, v)
    /\ v # g.vs => /\ ~GroupExists(g.name, v)
                   /\ ~GroupReferenced(g.name, g.vs)
    /\ groups' = (groups \ {g})
                   \cup {[g EXCEPT !.vs = v, !.endpoint = endpoint]}
    /\ UNCHANGED <<versionSets, nodes, endpoints, proxies, hwConfigs,
                   transitions, log, updating, planned>>

DeleteGroup(g) ==
    /\ ~GroupReferenced(g.name, g.vs)
    /\ groups' = groups \ {g}
    /\ UNCHANGED <<versionSets, nodes, endpoints, proxies, hwConfigs,
                   transitions, log, updating, planned>>

-----------------------------------------------------------------------------
(* Proxies. *)

CreateProxy(p) ==
    /\ HasRoom(proxies)
    /\ p.vs \in versionSets
    /\ ~ProxyExists(p.name, p.vs)
    /\ NodeExists(p.serial, p.vs)
    /\ GroupExists(p.group, p.vs)
    /\ proxies' = proxies \cup {p}
    /\ UNCHANGED <<versionSets, nodes, endpoints, groups, hwConfigs,
                   transitions, log, updating, planned>>

\* By id or by name.  The group cannot be changed: the column does not exist.
UpdateProxy(p, setting) ==
    /\ proxies' = (proxies \ {p}) \cup {[p EXCEPT !.setting = setting]}
    /\ UNCHANGED <<versionSets, nodes, endpoints, groups, hwConfigs,
                   transitions, log, updating, planned>>

DeleteProxy(p) ==
    /\ proxies' = proxies \ {p}
    /\ UNCHANGED <<versionSets, nodes, endpoints, groups, hwConfigs,
                   transitions, log, updating, planned>>

-----------------------------------------------------------------------------
(* Hardware configurations. *)

CreateHardwareConfig(h) ==
    /\ HasRoom(hwConfigs)
    /\ \A other \in hwConfigs : other.id # h.id
    /\ h.vs \in versionSets
    /\ NodeExists(h.serial, h.vs)
    /\ hwConfigs' = hwConfigs \cup {h}
    /\ UNCHANGED <<versionSets, nodes, endpoints, groups, proxies,
                   transitions, log, updating, planned>>

\* It may move to the node of the same serial number in another version set.
UpdateHardwareConfig(h, v) ==
    /\ v \in versionSets
    /\ NodeExists(h.serial, v)
    /\ hwConfigs' = (hwConfigs \ {h}) \cup {[h EXCEPT !.vs = v]}
    /\ UNCHANGED <<versionSets, nodes, endpoints, groups, proxies,
                   transitions, log, updating, planned>>

DeleteHardwareConfig(h) ==
    /\ hwConfigs' = hwConfigs \ {h}
    /\ UNCHANGED <<versionSets, nodes, endpoints, groups, proxies,
                   transitions, log, updating, planned>>

=============================================================================
