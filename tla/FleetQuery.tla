----------------------------- MODULE FleetQuery -----------------------------
(***************************************************************************)
(* The assembly of updates from the configuration store: what ActivateNode *)
(* and ActivateFleet read, and what they write back of it, while the store *)
(* goes on changing.                                                       *)
(*                                                                         *)
(* A query joins the tables.  Where a left join finds no partner the row   *)
(* has Null, and a row with Null where the code scans a plain string or    *)
(* number ends the query with an error.  A bag is a function from its      *)
(* elements to how often they occur.                                       *)
(***************************************************************************)
EXTENDS ConfigStore

CONSTANTS
    Null,           \* the partner a left join did not find
    MaxActivated    \* bound: version sets being activated at a time

ASSUME NullAssumption ==
    Null \notin NodeRow \cup ConfigRow \cup GroupRow \cup ProxyRow \cup HwRow

-----------------------------------------------------------------------------
(* The joins. *)

OrNull(S) == IF S = {} THEN {Null} ELSE S

Lookup(table, name, v) ==
    IF \E r \in table : r.name = name /\ r.vs = v
    THEN CHOOSE r \in table : r.name = name /\ r.vs = v
    ELSE Null

ProxiesOf(n) == {p \in proxies : p.serial = n.serial /\ p.vs = n.vs}
HwOf(n)      == {h \in hwConfigs : h.serial = n.serial /\ h.vs = n.vs}
FreshNodes(v) == {n \in nodes : n.vs = v /\ n.fresh}

GroupOf(p) == IF p = Null THEN Null ELSE Lookup(groups, p.group, p.vs)
\* Variant: the version set is missing from the join.
EndpointOfName(g) ==
    IF g = Null \/ \A c \in endpoints : c.name # g.endpoint THEN Null
    ELSE CHOOSE c \in endpoints : c.name = g.endpoint
EndpointOf(g) == IF g = Null THEN Null ELSE Lookup(endpoints, g.endpoint, g.vs)
LegacyOf(g) == IF g = Null THEN Null ELSE Lookup(endpoints, g.legacy, g.vs)

\* Hardware configurations and proxies are joined to the same node, and so
\* with each other.
FleetRows(v) ==
    UNION {[node : {n}, hw : OrNull(HwOf(n)), proxy : OrNull(ProxiesOf(n))] :
              n \in FreshNodes(v)}

Scans(row) ==
    LET g == GroupOf(row.proxy)
    IN  g # Null /\ EndpointOf(g) # Null /\ LegacyOf(g) # Null

-----------------------------------------------------------------------------
(* The items built from the rows: each row adds its hardware configuration *)
(* and its proxy to the item of its node.                                  *)

HwBag(rows) ==
    [h \in {r.hw : r \in rows} \ {Null} |-> Cardinality({r \in rows : r.hw = h})]

GroupProxyUpdate(g, rows) ==
    [name     |-> g.name,
     endpoint |-> EndpointOf(g),
     legacy   |-> LegacyOf(g),
     proxies  |-> [p \in {r.proxy : r \in rows} |->
                      Cardinality({r \in rows : r.proxy = p})]]

GroupUpdates(rows) ==
    {GroupProxyUpdate(g, {r \in rows : GroupOf(r.proxy) = g}) :
        g \in {GroupOf(r.proxy) : r \in rows}}

Item(n, hw, rows) ==
    [serial |-> n.serial, vs |-> n.vs, hw |-> hw, groups |-> GroupUpdates(rows)]

\* For an activation of a version set, or of one of its groups: the name of
\* the group makes no difference.
GetFleetUpdateOptimized(v, groupName) ==
    LET rows == FleetRows(v)
        RowsOf(n) == {r \in rows : r.node = n}
    IN  IF \E r \in rows : ~Scans(r) THEN [status |-> "error", items |-> {}]
        ELSE [status |-> IF rows = {} THEN "none" ELSE "ok",
              items  |-> {Item(n, HwBag(RowsOf(n)), RowsOf(n)) :
                             n \in {r.node : r \in rows}}]

\* Variant: the groups of the node are those of all its version sets.
NodeUpdateAnyVersion(s, v) ==
    LET ns == {n \in nodes : n.serial = s /\ n.vs = v}
        rows == UNION {[node : {n}, proxy : {p \in proxies : p.serial = s}] : n \in ns}
    IN  IF rows = {} \/ \E r \in rows : ~Scans(r)
        THEN [status |-> "none", items |-> {}]
        ELSE [status |-> "ok",
              items  |-> {Item(n, [h \in HwOf(n) |-> 1], rows) : n \in ns}]

\* For the activation of a node: an error is taken for nothing to do.
NodeUpdate(s, v) ==
    LET ns == {n \in nodes : n.serial = s /\ n.vs = v}
        rows == UNION {[node : {n}, proxy : ProxiesOf(n)] : n \in ns}
    IN  IF rows = {} \/ \E r \in rows : ~Scans(r)
        THEN [status |-> "none", items |-> {}]
        ELSE [status |-> "ok",
              items  |-> {Item(n, [h \in HwOf(n) |-> 1], rows) : n \in ns}]

-----------------------------------------------------------------------------
(* The activation, as far as the store is concerned. *)

KeysOf(update) == {[serial |-> i.serial, vs |-> i.vs] : i \in update.items}

\* Bound: version sets that are being activated at a time.
MayActivate(v) ==
    Cardinality({v} \cup planned \cup {k.vs : k \in updating}) <= MaxActivated

\* Only the activation of a whole version set makes a version transition.
ReadFleet(v, groupName) ==
    /\ MayActivate(v)
    /\ LET update == GetFleetUpdateOptimized(v, groupName)
       IN  /\ update.status = "ok"
           /\ updating' = updating \cup KeysOf(update)
    /\ planned' = IF groupName = "" THEN planned \cup {v} ELSE planned
    /\ UNCHANGED <<tables, transitions, log>>

ReadNode(s, v) ==
    /\ MayActivate(v)
    /\ LET update == NodeUpdate(s, v)
       IN  /\ update.status = "ok"
           /\ updating' = updating \cup KeysOf(update)
    /\ UNCHANGED <<tables, transitions, log, planned>>

\* Variant: the nodes of the update are inserted for its version set.
CreateTransitionOfNode(v) ==
    /\ v \in planned \cap versionSets
    /\ transitions' = transitions \cup {k.serial : k \in updating}
    /\ planned' = planned \ {v}
    /\ UNCHANGED <<tables, log, updating>>

CreateVersionTransition(v) ==
    /\ v \in planned \cap versionSets
    /\ transitions' = transitions \cup {v}
    /\ planned' = planned \ {v}
    /\ UNCHANGED <<tables, log, updating>>

\* The activation ends without one.
EndPlan(v) ==
    /\ v \in planned
    /\ planned' = planned \ {v}
    /\ UNCHANGED <<tables, transitions, log, updating>>

\* A response of a node; its row in the log refers to the row of the node.
LogNodeTransaction(k) ==
    /\ k \in updating
    /\ NodeExists(k.serial, k.vs)
    /\ log' = log \cup {k}
    /\ UNCHANGED <<tables, transitions, updating, planned>>

\* The last response, the end of the update, or a response the log refused.
EndUpdate(k) ==
    /\ k \in updating
    /\ updating' = updating \ {k}
    /\ UNCHANGED <<tables, transitions, log, planned>>

-----------------------------------------------------------------------------

Init ==
    /\ versionSets = {} /\ nodes = {} /\ endpoints = {} /\ groups = {}
    /\ proxies = {} /\ hwConfigs = {} /\ transitions = {} /\ log = {}
    /\ updating = {} /\ planned = {}

VersionSetStep ==
    \E v \in Versions : CreateVersionSet(v) \/ DeleteVersionSet(v)

NodeStep ==
    \/ \E s \in Serials, v \in Versions : CreateNode(s, v)
    \/ \E n \in nodes, seen \in BOOLEAN : UpdateNode(n, seen)
    \/ \E s \in Serials : DeleteNode(s) \/ Hello(s) \/ Silence(s)

EndpointStep ==
    \/ \E c \in ConfigRow : CreateEndpointConfig(c)
    \/ \E c \in endpoints, e \in ConfigNames, x \in Settings :
           UpdateEndpointConfig(c, e, x)
    \/ \E c \in endpoints : DeleteEndpointConfig(c)

GroupStep ==
    \/ \E g \in GroupRow : CreateGroup(g)
    \/ \E g \in groups, v \in Versions, e \in ConfigNames : UpdateGroup(g, v, e)
    \/ \E g \in groups : DeleteGroup(g)

ProxyStep ==
    \/ \E p \in ProxyRow : CreateProxy(p)
    \/ \E p \in proxies, x \in Settings : UpdateProxy(p, x)
    \/ \E p \in proxies : DeleteProxy(p)

HwStep ==
    \/ \E h \in HwRow : CreateHardwareConfig(h)
    \/ \E h \in hwConfigs, v \in Versions : UpdateHardwareConfig(h, v)
    \/ \E h \in hwConfigs : DeleteHardwareConfig(h)

ActivationStep ==
    \/ \E v \in Versions, g \in GroupNames \cup {""} : ReadFleet(v, g)
    \/ \E s \in Serials, v \in Versions : ReadNode(s, v)
    \/ \E v \in planned : CreateVersionTransition(v) \/ EndPlan(v)
    \/ \E k \in updating : LogNodeTransaction(k) \/ EndUpdate(k)

Next ==
    \/ VersionSetStep \/ NodeStep \/ EndpointStep
    \/ GroupStep \/ ProxyStep \/ HwStep \/ ActivationStep

Spec == Init /\ [][Next]_vars

-----------------------------------------------------------------------------
(* Properties. *)

TypeOK ==
    /\ versionSets \subseteq Versions
    /\ nodes \subseteq NodeRow
    /\ endpoints \subseteq ConfigRow
    /\ groups \subseteq GroupRow
    /\ proxies \subseteq ProxyRow
    /\ hwConfigs \subseteq HwRow
    /\ transitions \subseteq Versions
    /\ log \subseteq Key
    /\ updating \subseteq Key
    /\ planned \subseteq Versions

NodeReferences ==
    /\ \A r \in proxies \cup hwConfigs \cup log : NodeExists(r.serial, r.vs)
    /\ \A p \in proxies : GroupExists(p.group, p.vs)

ConfigReferences ==
    \A g \in groups : ConfigExists(g.endpoint, g.vs) /\ ConfigExists(g.legacy, g.vs)

VersionReferences ==
    /\ transitions \subseteq versionSets
    /\ \A r \in nodes \cup endpoints \cup groups \cup proxies \cup hwConfigs :
           r.vs \in versionSets

\* Whatever the order of creations, renamings, moves and deletions, every
\* reference of a row leads to a row of the same version set, and every row
\* belongs to a version set that exists.
References == NodeReferences /\ ConfigReferences /\ VersionReferences

\* The query of an activation fails for a whole version set if, and only if,
\* a node that was heard of lately has no proxy: no other gap in the tables
\* can put a NULL where the code scans a plain value.
OnlyIdleNodesBlock ==
    \A v \in Versions :
        GetFleetUpdateOptimized(v, "").status = "error" <=>
            \E n \in nodes : /\ n.vs = v /\ n.fresh
                            /\ \A p \in proxies : p.serial = n.serial => p.vs # v

\* What a node has in its version set, and how often the update carries it:
\* each proxy once for each hardware configuration, and the other way round.
Carries(i, n) ==
    LET mine(table) == {r \in table : r.serial = n.serial /\ r.vs = n.vs}
        copies == IF mine(hwConfigs) = {} THEN 1 ELSE Cardinality(mine(hwConfigs))
    IN  /\ i.hw = [h \in mine(hwConfigs) |-> Cardinality(mine(proxies))]
        /\ {u.name : u \in i.groups} = {p.group : p \in mine(proxies)}
        /\ \A u \in i.groups : \E g \in groups :
              /\ g.name = u.name /\ g.vs = n.vs
              /\ u.endpoint \in endpoints /\ u.endpoint.vs = n.vs
              /\ u.endpoint.name = g.endpoint
              /\ u.legacy \in endpoints /\ u.legacy.vs = n.vs
              /\ u.legacy.name = g.legacy
              /\ u.proxies = [p \in {p \in mine(proxies) : p.group = u.name} |-> copies]

\* The update of a version set has one item for each node that was heard of
\* lately, with exactly its groups, proxies, endpoint configurations and
\* hardware configurations of that version set.
UpdateIsExact ==
    \A v \in Versions :
        LET update == GetFleetUpdateOptimized(v, "")
            fresh  == {n \in nodes : n.vs = v /\ n.fresh}
        IN  update.status = "ok" =>
              /\ Cardinality(update.items) = Cardinality(fresh)
              /\ \A n \in fresh : \E i \in update.items :
                    i.serial = n.serial /\ i.vs = v /\ Carries(i, n)

\* An activation of a node sends it what an activation of its version set
\* would, copies aside.
ItemsAgree ==
    \A v \in Versions : \A i \in GetFleetUpdateOptimized(v, "").items :
        \E j \in NodeUpdate(i.serial, v).items :
            /\ j.serial = i.serial /\ j.vs = i.vs
            /\ DOMAIN j.hw = DOMAIN i.hw
            /\ {<<u.name, u.endpoint, u.legacy, DOMAIN u.proxies>> : u \in j.groups}
                 = {<<u.name, u.endpoint, u.legacy, DOMAIN u.proxies>> : u \in i.groups}

\* A node that an activation waits for leaves the store only by a delete that
\* names its serial number, and not at all once a response of it is logged:
\* until then its responses can be logged.
NodesInUpdateStay ==
    [][\A k \in updating :
         NodeExists(k.serial, k.vs) =>
           \/ NodeExists(k.serial, k.vs)'
           \/ DeleteNode(k.serial) /\ k \notin log]_nodes

Within(table, v) == {r \in table : r.vs = v}
Configuration(v) == <<Within(endpoints, v), Within(groups, v),
                      Within(proxies, v), Within(hwConfigs, v)>>

\* One operation changes the configuration of at most one version set, unless
\* it moves one group or one hardware configuration from one to the other.
VersionsAreIsolated ==
    [][\A v, w \in Versions :
         /\ v # w
         /\ Configuration(v)' # Configuration(v)
         /\ Configuration(w)' # Configuration(w)
         => /\ UNCHANGED <<endpoints, proxies>>
            /\ \/ UNCHANGED hwConfigs /\ Cardinality(groups \ groups') = 1
               \/ UNCHANGED groups /\ Cardinality(hwConfigs \ hwConfigs') = 1
      ]_<<endpoints, groups, proxies, hwConfigs>>

\* An update for a group carries nothing of other groups, as the comment of
\* GetFleetUpdateOptimized says.
GroupUpdateIsOfGroup ==
    \A v \in Versions, g \in GroupNames :
        \A i \in GetFleetUpdateOptimized(v, g).items :
            \A u \in i.groups : u.name = g

=============================================================================
