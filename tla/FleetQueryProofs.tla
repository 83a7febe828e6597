-------------------------- MODULE FleetQueryProofs --------------------------
(***************************************************************************)
(* Proofs about the configuration store and the assembly of updates, for   *)
(* any version sets, names, settings and bound on the rows.                *)
(***************************************************************************)
EXTENDS FleetQuery, FiniteSetTheorems, FunctionTheorems, TLAPS

IInv == TypeOK /\ References

\* The invariant holds of the empty store.
LEMMA InitInv == Init => IInv
BY DEF Init, IInv, TypeOK, References, NodeReferences, ConfigReferences,
       VersionReferences

-----------------------------------------------------------------------------
(* Types. *)

\* An activation waits for nodes of the store only.
LEMMA KeysAreKeys ==
    ASSUME TypeOK
    PROVE  /\ \A v, g : KeysOf(GetFleetUpdateOptimized(v, g)) \subseteq Key
           /\ \A s, v : KeysOf(NodeUpdate(s, v)) \subseteq Key
<1>1. ASSUME NEW n \in nodes, NEW hw, NEW rows
      PROVE  /\ Item(n, hw, rows).serial \in Serials
             /\ Item(n, hw, rows).vs \in Versions
  BY TypeOK DEF TypeOK, NodeRow, Item
<1>2. ASSUME NEW v, NEW g, NEW i \in GetFleetUpdateOptimized(v, g).items
      PROVE  i.serial \in Serials /\ i.vs \in Versions
  <2>1. \A r \in FleetRows(v) : r.node \in nodes
    BY DEF FleetRows, FreshNodes
  <2> QED BY <1>1, <2>1 DEF GetFleetUpdateOptimized
<1>3. ASSUME NEW s, NEW v, NEW i \in NodeUpdate(s, v).items
      PROVE  i.serial \in Serials /\ i.vs \in Versions
  BY <1>1 DEF NodeUpdate
<1> QED BY <1>2, <1>3 DEF KeysOf, Key

\* No operation leaves the types.
LEMMA TypeStep == ASSUME TypeOK, [Next]_vars PROVE TypeOK'
<1>1. CASE VersionSetStep
  BY <1>1 DEF TypeOK, VersionSetStep, CreateVersionSet, DeleteVersionSet
<1>2. CASE NodeStep
  <2>1. nodes' \subseteq NodeRow
    <3>1. ASSUME NEW s \in Serials, NEW v \in Versions, CreateNode(s, v)
          PROVE  nodes' \subseteq NodeRow
      <4>1. [serial |-> s, vs |-> v, fresh |-> FALSE] \in NodeRow
        BY Zenon DEF NodeRow
      <4> QED BY <3>1, <4>1 DEF CreateNode, TypeOK
    <3>2. ASSUME NEW n \in nodes, NEW b \in BOOLEAN
          PROVE  [n EXCEPT !.fresh = b] \in NodeRow
      BY DEF TypeOK, NodeRow
    <3>3. ASSUME NEW n \in nodes, NEW seen \in BOOLEAN, UpdateNode(n, seen)
          PROVE  nodes' \subseteq NodeRow
      BY <3>2, <3>3 DEF UpdateNode, TypeOK
    <3>4. ASSUME NEW s \in Serials, DeleteNode(s) PROVE nodes' \subseteq NodeRow
      BY <3>4 DEF DeleteNode, TypeOK
    <3>5. ASSUME NEW s \in Serials, Hello(s) PROVE nodes' \subseteq NodeRow
      <4>1. \A n \in nodes : (n.fresh \/ n.serial = s) \in BOOLEAN
        OBVIOUS
      <4> QED BY <3>2, <3>5, <4>1 DEF Hello
    <3>6. ASSUME NEW s \in Serials, Silence(s) PROVE nodes' \subseteq NodeRow
      <4>1. \A n \in nodes : (n.fresh /\ n.serial # s) \in BOOLEAN
        OBVIOUS
      <4> QED BY <3>2, <3>6, <4>1 DEF Silence
    <3> QED BY <1>2, <3>1, <3>3, <3>4, <3>5, <3>6 DEF NodeStep
  <2>2. UNCHANGED <<versionSets, endpoints, groups, proxies, hwConfigs,
                    transitions, log, updating, planned>>
    BY <1>2 DEF NodeStep, CreateNode, UpdateNode, DeleteNode, Hello, Silence
  <2> QED BY <2>1, <2>2 DEF TypeOK
<1>3. CASE EndpointStep
  BY <1>3 DEF TypeOK, ConfigRow, EndpointStep, CreateEndpointConfig,
              UpdateEndpointConfig, DeleteEndpointConfig
<1>4. CASE GroupStep
  BY <1>4 DEF TypeOK, GroupRow, GroupStep, CreateGroup, UpdateGroup, DeleteGroup
<1>5. CASE ProxyStep
  BY <1>5 DEF TypeOK, ProxyRow, ProxyStep, CreateProxy, UpdateProxy, DeleteProxy
<1>6. CASE HwStep
  BY <1>6 DEF TypeOK, HwRow, HwStep, CreateHardwareConfig,
              UpdateHardwareConfig, DeleteHardwareConfig
<1>7. CASE ActivationStep
  <2>1. UNCHANGED tables
    BY <1>7 DEF ActivationStep, ReadFleet, ReadNode, CreateVersionTransition,
                EndPlan, LogNodeTransaction, EndUpdate
  <2>2. /\ transitions' \subseteq Versions
        /\ log' \subseteq Key
        /\ updating' \subseteq Key
        /\ planned' \subseteq Versions
    BY <1>7, KeysAreKeys DEF TypeOK, ActivationStep, ReadFleet, ReadNode,
       CreateVersionTransition, EndPlan, LogNodeTransaction, EndUpdate
  <2> QED BY <2>1, <2>2 DEF TypeOK, tables
<1>8. CASE UNCHANGED vars
  BY <1>8 DEF TypeOK, vars
<1> QED BY <1>1, <1>2, <1>3, <1>4, <1>5, <1>6, <1>7, <1>8 DEF Next
-----------------------------------------------------------------------------
(* References. *)

\* A node leaves the store only by a delete that names its serial number.
LEMMA NodeRowsStay ==
    ASSUME TypeOK, NodeStep, NEW s, NEW v, NodeExists(s, v)
    PROVE  NodeExists(s, v)' \/ DeleteNode(s)
<1>1. ASSUME NEW t \in Serials, NEW w \in Versions, CreateNode(t, w)
      PROVE  NodeExists(s, v)'
  BY <1>1 DEF CreateNode, NodeExists
<1>2. ASSUME NEW n \in nodes, NEW seen \in BOOLEAN, UpdateNode(n, seen)
      PROVE  NodeExists(s, v)'
  <2>1. [n EXCEPT !.fresh = seen].serial = n.serial
        /\ [n EXCEPT !.fresh = seen].vs = n.vs
    BY DEF TypeOK, NodeRow
  <2> QED BY <1>2, <2>1 DEF UpdateNode, NodeExists
<1>3. ASSUME NEW t \in Serials, DeleteNode(t), t # s PROVE NodeExists(s, v)'
  BY <1>3 DEF DeleteNode, NodeExists
<1>4. ASSUME NEW t \in Serials, Hello(t) PROVE NodeExists(s, v)'
  <2> DEFINE F(n) == [n EXCEPT !.fresh = @ \/ n.serial = t]
  <2>1. \A n \in nodes : F(n).serial = n.serial /\ F(n).vs = n.vs
    BY DEF TypeOK, NodeRow
  <2>2. nodes' = {F(n) : n \in nodes}
    BY <1>4 DEF Hello
  <2> HIDE DEF F
  <2> QED BY <2>1, <2>2 DEF NodeExists
<1>5. ASSUME NEW t \in Serials, Silence(t) PROVE NodeExists(s, v)'
  <2> DEFINE F(n) == [n EXCEPT !.fresh = @ /\ n.serial # t]
  <2>1. \A n \in nodes : F(n).serial = n.serial /\ F(n).vs = n.vs
    BY DEF TypeOK, NodeRow
  <2>2. nodes' = {F(n) : n \in nodes}
    BY <1>5 DEF Silence
  <2> HIDE DEF F
  <2> QED BY <2>1, <2>2 DEF NodeExists
<1> QED BY <1>1, <1>2, <1>3, <1>4, <1>5 DEF NodeStep

\* And not while it is referenced.
LEMMA NodeKeysStay ==
    ASSUME IInv, NodeStep,
           NEW s \in Serials, NEW v \in Versions,
           NodeExists(s, v), NodeReferenced(s, v)
    PROVE  NodeExists(s, v)'
BY NodeRowsStay DEF IInv, DeleteNode

\* Renaming, changing and deleting endpoint configurations leaves every
\* referenced name in place.
LEMMA ConfigKeysStay ==
    ASSUME IInv, EndpointStep,
           NEW e \in ConfigNames, NEW v \in Versions,
           ConfigExists(e, v), ConfigReferenced(e, v)
    PROVE  ConfigExists(e, v)'
<1>1. ASSUME NEW c \in ConfigRow, CreateEndpointConfig(c)
      PROVE  ConfigExists(e, v)'
  BY <1>1 DEF CreateEndpointConfig, ConfigExists
<1>2. ASSUME NEW c \in endpoints, NEW n \in ConfigNames, NEW x \in Settings,
             UpdateEndpointConfig(c, n, x)
      PROVE  ConfigExists(e, v)'
  <2>1. LET d == [c EXCEPT !.name = n, !.setting = x]
        IN  d.name = n /\ d.vs = c.vs
    BY DEF IInv, TypeOK, ConfigRow
  <2>2. c.name = e /\ c.vs = v => n = e
    BY <1>2 DEF UpdateEndpointConfig
  <2> QED BY <1>2, <2>1, <2>2 DEF UpdateEndpointConfig, ConfigExists
<1>3. ASSUME NEW c \in endpoints, DeleteEndpointConfig(c)
      PROVE  ConfigExists(e, v)'
  BY <1>3 DEF DeleteEndpointConfig, ConfigExists
<1> QED BY <1>1, <1>2, <1>3 DEF EndpointStep

\* So does moving, changing and deleting groups.
LEMMA GroupKeysStay ==
    ASSUME IInv, GroupStep,
           NEW g \in GroupNames, NEW v \in Versions,
           GroupExists(g, v), GroupReferenced(g, v)
    PROVE  GroupExists(g, v)'
<1>1. ASSUME NEW r \in GroupRow, CreateGroup(r) PROVE GroupExists(g, v)'
  BY <1>1 DEF CreateGroup, GroupExists
<1>2. ASSUME NEW r \in groups, NEW w \in Versions, NEW e \in ConfigNames,
             UpdateGroup(r, w, e)
      PROVE  GroupExists(g, v)'
  <2>1. LET d == [r EXCEPT !.vs = w, !.endpoint = e]
        IN  d.name = r.name /\ d.vs = w
    BY DEF IInv, TypeOK, GroupRow
  <2>2. r.name = g /\ r.vs = v => w = v
    BY <1>2 DEF UpdateGroup
  <2> QED BY <1>2, <2>1, <2>2 DEF UpdateGroup, GroupExists
<1>3. ASSUME NEW r \in groups, DeleteGroup(r) PROVE GroupExists(g, v)'
  BY <1>3 DEF DeleteGroup, GroupExists
<1> QED BY <1>1, <1>2, <1>3 DEF GroupStep

\* An operation that would leave a reference leading nowhere is refused by the
\* schema; the others keep every reference.
LEMMA ReferencesStep == ASSUME IInv, [Next]_vars PROVE References'
<1> USE DEF IInv, References
<1>1. CASE VersionSetStep
  <2>1. UNCHANGED <<nodes, endpoints, groups, proxies, hwConfigs, transitions, log>>
    BY <1>1 DEF VersionSetStep, CreateVersionSet, DeleteVersionSet
  <2>2. VersionReferences'
    BY <1>1, <2>1 DEF VersionReferences, VersionSetStep, CreateVersionSet,
       DeleteVersionSet, VersionSetReferenced
  <2> QED BY <2>1, <2>2 DEF NodeReferences, NodeExists, GroupExists,
             ConfigReferences, ConfigExists
<1>2. CASE NodeStep
  <2>1. UNCHANGED <<versionSets, endpoints, groups, proxies, hwConfigs,
                    transitions, log>>
    BY <1>2 DEF NodeStep, CreateNode, UpdateNode, DeleteNode, Hello, Silence
  <2>2. \A r \in proxies \cup hwConfigs \cup log : NodeExists(r.serial, r.vs)'
    <3> SUFFICES ASSUME NEW r \in proxies \cup hwConfigs \cup log
                 PROVE  NodeExists(r.serial, r.vs)'
      OBVIOUS
    <3>1. r.serial \in Serials /\ r.vs \in Versions
      BY DEF TypeOK, ProxyRow, HwRow, Key
    <3>2. r \in log => r = [serial |-> r.serial, vs |-> r.vs]
      BY DEF TypeOK, Key
    <3>3. NodeReferenced(r.serial, r.vs)
      BY <3>2 DEF NodeReferenced
    <3>4. NodeExists(r.serial, r.vs)
      BY DEF NodeReferences
    <3>5. NodeExists(r.serial, r.vs)'
      BY <1>2, <3>1, <3>3, <3>4, NodeKeysStay
    <3> QED BY <3>5
  <2>3. NodeReferences'
    BY <2>1, <2>2 DEF NodeReferences, GroupExists
  <2>4. \A n \in nodes' : n.vs \in versionSets
    <3>1. \A n \in nodes : n.vs \in versionSets
      BY DEF VersionReferences
    <3>2. ASSUME NEW t \in Serials, NEW v \in Versions, CreateNode(t, v)
          PROVE  \A n \in nodes' : n.vs \in versionSets
      BY <3>1, <3>2 DEF CreateNode
    <3>3. ASSUME NEW n \in nodes, NEW seen \in BOOLEAN, UpdateNode(n, seen)
          PROVE  \A m \in nodes' : m.vs \in versionSets
      <4>1. [n EXCEPT !.fresh = seen].vs = n.vs
        BY DEF TypeOK, NodeRow
      <4> QED BY <3>1, <3>3, <4>1 DEF UpdateNode
    <3>4. ASSUME NEW t \in Serials, DeleteNode(t)
          PROVE  \A n \in nodes' : n.vs \in versionSets
      BY <3>1, <3>4 DEF DeleteNode
    <3>5. ASSUME NEW t \in Serials, Hello(t)
          PROVE  \A n \in nodes' : n.vs \in versionSets
      <4>1. \A n \in nodes : [n EXCEPT !.fresh = @ \/ n.serial = t].vs = n.vs
        BY DEF TypeOK, NodeRow
      <4> QED BY <3>1, <3>5, <4>1 DEF Hello
    <3>6. ASSUME NEW t \in Serials, Silence(t)
          PROVE  \A n \in nodes' : n.vs \in versionSets
      <4>1. \A n \in nodes : [n EXCEPT !.fresh = @ /\ n.serial # t].vs = n.vs
        BY DEF TypeOK, NodeRow
      <4> QED BY <3>1, <3>6, <4>1 DEF Silence
    <3> QED BY <1>2, <3>2, <3>3, <3>4, <3>5, <3>6 DEF NodeStep
  <2> QED BY <2>1, <2>3, <2>4 DEF ConfigReferences, ConfigExists,
             VersionReferences
<1>3. CASE EndpointStep
  <2>1. UNCHANGED <<versionSets, nodes, groups, proxies, hwConfigs,
                    transitions, log>>
    BY <1>3 DEF EndpointStep, CreateEndpointConfig, UpdateEndpointConfig,
                DeleteEndpointConfig
  <2>2. ASSUME NEW g \in groups
        PROVE  ConfigExists(g.endpoint, g.vs)' /\ ConfigExists(g.legacy, g.vs)'
    <3>1. /\ g.endpoint \in ConfigNames
          /\ g.legacy \in ConfigNames
          /\ g.vs \in Versions
      BY DEF TypeOK, GroupRow
    <3>2. /\ ConfigReferenced(g.endpoint, g.vs)
          /\ ConfigReferenced(g.legacy, g.vs)
      BY DEF ConfigReferenced
    <3>3. ConfigExists(g.endpoint, g.vs)'
      BY <1>3, <3>1, <3>2, ConfigKeysStay DEF ConfigReferences
    <3>4. ConfigExists(g.legacy, g.vs)'
      BY <1>3, <3>1, <3>2, ConfigKeysStay DEF ConfigReferences
    <3> QED BY <3>3, <3>4
  <2>3. ConfigReferences'
    BY <2>1, <2>2 DEF ConfigReferences
  <2>4. \A c \in endpoints' : c.vs \in versionSets
    BY <1>3 DEF VersionReferences, EndpointStep, CreateEndpointConfig,
       UpdateEndpointConfig, DeleteEndpointConfig, TypeOK, ConfigRow
  <2> QED BY <2>1, <2>3, <2>4 DEF NodeReferences, NodeExists, GroupExists,
             VersionReferences
<1>4. CASE GroupStep
  <2>1. UNCHANGED <<versionSets, nodes, endpoints, proxies, hwConfigs,
                    transitions, log>>
    BY <1>4 DEF GroupStep, CreateGroup, UpdateGroup, DeleteGroup
  <2>2. ASSUME NEW p \in proxies PROVE GroupExists(p.group, p.vs)'
    <3>1. p.group \in GroupNames /\ p.vs \in Versions
      BY DEF TypeOK, ProxyRow
    <3>2. GroupReferenced(p.group, p.vs) /\ GroupExists(p.group, p.vs)
      BY DEF GroupReferenced, NodeReferences
    <3>3. GroupExists(p.group, p.vs)'
      BY <1>4, <3>1, <3>2, GroupKeysStay
    <3> QED BY <3>3
  <2>3. NodeReferences'
    BY <2>1, <2>2 DEF NodeReferences, NodeExists
  <2>4. ConfigReferences'
    <3>1. ASSUME NEW e, NEW v, ConfigExists(e, v) PROVE ConfigExists(e, v)'
      BY <2>1, <3>1 DEF ConfigExists
    <3>2. ASSUME NEW r \in GroupRow, CreateGroup(r)
          PROVE  \A g \in groups' : /\ ConfigExists(g.endpoint, g.vs)
                                    /\ ConfigExists(g.legacy, g.vs)
      BY <3>2 DEF ConfigReferences, CreateGroup
    <3>3. ASSUME NEW r \in groups, NEW v \in Versions, NEW e \in ConfigNames,
                 UpdateGroup(r, v, e)
          PROVE  \A g \in groups' : /\ ConfigExists(g.endpoint, g.vs)
                                    /\ ConfigExists(g.legacy, g.vs)
      <4>1. LET d == [r EXCEPT !.vs = v, !.endpoint = e]
            IN  d.endpoint = e /\ d.legacy = r.legacy /\ d.vs = v
        BY DEF TypeOK, GroupRow
      <4> QED BY <3>3, <4>1 DEF ConfigReferences, UpdateGroup
    <3>4. ASSUME NEW r \in groups, DeleteGroup(r)
          PROVE  \A g \in groups' : /\ ConfigExists(g.endpoint, g.vs)
                                    /\ ConfigExists(g.legacy, g.vs)
      BY <3>4 DEF ConfigReferences, DeleteGroup
    <3> QED BY <1>4, <3>1, <3>2, <3>3, <3>4 DEF ConfigReferences, GroupStep
  <2>5. \A g \in groups' : g.vs \in versionSets
    BY <1>4 DEF VersionReferences, GroupStep, CreateGroup, UpdateGroup,
       DeleteGroup, TypeOK, GroupRow
  <2> QED BY <2>1, <2>3, <2>4, <2>5 DEF VersionReferences
<1>5. CASE ProxyStep
  <2>1. UNCHANGED <<versionSets, nodes, endpoints, groups, hwConfigs,
                    transitions, log>>
    BY <1>5 DEF ProxyStep, CreateProxy, UpdateProxy, DeleteProxy
  <2>2. \A p \in proxies' : /\ NodeExists(p.serial, p.vs)
                            /\ GroupExists(p.group, p.vs)
                            /\ p.vs \in versionSets
    BY <1>5 DEF NodeReferences, VersionReferences, ProxyStep, CreateProxy,
       UpdateProxy, DeleteProxy, TypeOK, ProxyRow
  <2> QED BY <2>1, <2>2 DEF NodeReferences, NodeExists, GroupExists,
             ConfigReferences, ConfigExists, VersionReferences
<1>6. CASE HwStep
  <2>1. UNCHANGED <<versionSets, nodes, endpoints, groups, proxies,
                    transitions, log>>
    BY <1>6 DEF HwStep, CreateHardwareConfig, UpdateHardwareConfig,
                DeleteHardwareConfig
  <2>2. \A h \in hwConfigs' : NodeExists(h.serial, h.vs) /\ h.vs \in versionSets
    BY <1>6 DEF NodeReferences, VersionReferences, HwStep, CreateHardwareConfig,
       UpdateHardwareConfig, DeleteHardwareConfig, TypeOK, HwRow
  <2> QED BY <2>1, <2>2 DEF NodeReferences, NodeExists, GroupExists,
             ConfigReferences, ConfigExists, VersionReferences
<1>7. CASE ActivationStep
  <2>1. UNCHANGED tables
    BY <1>7 DEF ActivationStep, ReadFleet, ReadNode, CreateVersionTransition,
                EndPlan, LogNodeTransaction, EndUpdate
  <2>2. transitions' \subseteq versionSets
    BY <1>7 DEF VersionReferences, ActivationStep, ReadFleet, ReadNode,
                CreateVersionTransition, EndPlan, LogNodeTransaction, EndUpdate
  <2>3. \A k \in log' : NodeExists(k.serial, k.vs)
    BY <1>7 DEF NodeReferences, ActivationStep, ReadFleet, ReadNode,
                CreateVersionTransition, EndPlan, LogNodeTransaction, EndUpdate
  <2> QED BY <2>1, <2>2, <2>3 DEF tables, NodeReferences, NodeExists,
             GroupExists, ConfigReferences, ConfigExists, VersionReferences
<1>8. CASE UNCHANGED vars
  BY <1>8 DEF vars, NodeReferences, NodeExists, GroupExists,
     ConfigReferences, ConfigExists, VersionReferences
<1> QED BY <1>1, <1>2, <1>3, <1>4, <1>5, <1>6, <1>7, <1>8 DEF Next

\* The invariant the theorems below rest on: types are needed to know that a
\* referenced row is one whose deletion the schema guards.
THEOREM Inductive == Spec => []IInv
<1>1. IInv /\ [Next]_vars => IInv'
  BY TypeStep, ReferencesStep DEF IInv
<1> QED BY InitInv, <1>1, PTL DEF Spec

\* The tables hold rows of their types.
THEOREM StoreTypes == Spec => []TypeOK
BY Inductive, PTL DEF IInv

\* No operation leaves a reference that leads nowhere.
THEOREM ReferencesHold == Spec => []References
BY Inductive, PTL DEF IInv

-----------------------------------------------------------------------------
(* What the query finds. *)

\* A join finds a row where there is one.
LEMMA LookupFinds ==
    ASSUME NEW table, NEW name, NEW v, Null \notin table,
           \E r \in table : r.name = name /\ r.vs = v
    PROVE  LET r == Lookup(table, name, v)
           IN  r # Null /\ r \in table /\ r.name = name /\ r.vs = v
BY DEF Lookup

\* A row of the join has no NULL unless it has no proxy.
LEMMA RowsScan ==
    ASSUME IInv, NEW row, row.proxy \in proxies \cup {Null}
    PROVE  Scans(row) <=> row.proxy # Null
<1>1. CASE row.proxy = Null
  BY <1>1 DEF Scans, GroupOf
<1>2. CASE row.proxy \in proxies
  <2> DEFINE p == row.proxy
             g == GroupOf(p)
  <2>1. Null \notin groups /\ Null \notin endpoints /\ p # Null
    BY <1>2, NullAssumption DEF IInv, TypeOK
  <2>2. GroupExists(p.group, p.vs)
    BY <1>2 DEF IInv, References, NodeReferences
  <2>3. g # Null /\ g \in groups
    BY <2>1, <2>2, LookupFinds DEF GroupOf, GroupExists
  <2>4. ConfigExists(g.endpoint, g.vs) /\ ConfigExists(g.legacy, g.vs)
    BY <2>3 DEF IInv, References, ConfigReferences
  <2>5. EndpointOf(g) # Null /\ LegacyOf(g) # Null
    BY <2>1, <2>3, <2>4, LookupFinds DEF EndpointOf, LegacyOf, ConfigExists
  <2> QED BY <2>1, <2>3, <2>5 DEF Scans
<1> QED BY <1>1, <1>2

\* A row of the query fails to scan exactly when its node has no proxy.
LEMMA OnlyIdleNodesBlockStep == ASSUME IInv PROVE OnlyIdleNodesBlock
<1> SUFFICES ASSUME NEW v \in Versions
             PROVE  GetFleetUpdateOptimized(v, "").status = "error" <=>
                      \E n \in nodes : n.vs = v /\ n.fresh
                         /\ \A p \in proxies : p.serial = n.serial => p.vs # v
  BY DEF OnlyIdleNodesBlock
<1>1. GetFleetUpdateOptimized(v, "").status = "error" <=>
        \E r \in FleetRows(v) : ~Scans(r)
  BY DEF GetFleetUpdateOptimized
<1>2. Null \notin proxies
  BY NullAssumption DEF IInv, TypeOK
<1>3. ASSUME NEW r \in FleetRows(v), ~Scans(r)
      PROVE  \E n \in FreshNodes(v) : ProxiesOf(n) = {}
  <2>1. PICK n \in FreshNodes(v) : r.proxy \in OrNull(ProxiesOf(n))
    BY DEF FleetRows
  <2>2. r.proxy \in proxies \cup {Null}
    BY <2>1 DEF OrNull, ProxiesOf
  <2>3. r.proxy = Null
    BY <1>3, <2>2, RowsScan
  <2> QED BY <1>2, <2>1, <2>3 DEF OrNull, ProxiesOf
<1>4. ASSUME NEW n \in FreshNodes(v), ProxiesOf(n) = {}
      PROVE  \E r \in FleetRows(v) : ~Scans(r)
  <2>1. OrNull(ProxiesOf(n)) = {Null}
    BY <1>4 DEF OrNull
  <2>2. PICK h : h \in OrNull(HwOf(n))
    BY DEF OrNull
  <2> DEFINE r == [node |-> n, hw |-> h, proxy |-> Null]
  <2>3. r \in [node : {n}, hw : OrNull(HwOf(n)), proxy : OrNull(ProxiesOf(n))]
    BY <2>1, <2>2
  <2>4. r \in FleetRows(v)
    BY <2>3 DEF FleetRows
  <2>5. ~Scans(r)
    BY DEF Scans, GroupOf
  <2> QED BY <2>4, <2>5
<1>5. GetFleetUpdateOptimized(v, "").status = "error" <=>
        \E n \in FreshNodes(v) : ProxiesOf(n) = {}
  BY <1>1, <1>3, <1>4
<1>6. ASSUME NEW n \in FreshNodes(v)
      PROVE  ProxiesOf(n) = {} <=>
               \A p \in proxies : p.serial = n.serial => p.vs # v
  BY DEF ProxiesOf, FreshNodes
<1>7. \A n : n \in FreshNodes(v) <=> n \in nodes /\ n.vs = v /\ n.fresh
  BY DEF FreshNodes
<1> QED BY <1>5, <1>6, <1>7

\* An activation of a version set is refused for the sake of a node without a
\* proxy, and for no other reason the tables can give.
THEOREM IdleNodesBlock == Spec => []OnlyIdleNodesBlock
BY Inductive, OnlyIdleNodesBlockStep, PTL

-----------------------------------------------------------------------------
(* What an operation leaves alone. *)

\* Only the operations on nodes change their table.
LEMMA NodesFrame == ASSUME [Next]_vars PROVE NodeStep \/ UNCHANGED nodes
BY DEF Next, vars, tables, VersionSetStep, CreateVersionSet, DeleteVersionSet,
   EndpointStep, CreateEndpointConfig, UpdateEndpointConfig,
   DeleteEndpointConfig, GroupStep, CreateGroup, UpdateGroup, DeleteGroup,
   ProxyStep, CreateProxy, UpdateProxy, DeleteProxy,
   HwStep, CreateHardwareConfig, UpdateHardwareConfig, DeleteHardwareConfig,
   ActivationStep, ReadFleet, ReadNode, CreateVersionTransition,
   EndPlan, LogNodeTransaction, EndUpdate

\* A row of a node that an activation waits for goes with a delete of its serial
\* number, before there is a row of it in the log.
LEMMA NodesInUpdateStayStep ==
    ASSUME IInv, [Next]_vars, NEW k \in updating, NodeExists(k.serial, k.vs)
    PROVE  \/ NodeExists(k.serial, k.vs)'
           \/ DeleteNode(k.serial) /\ k \notin log
<1>1. CASE NodeStep
  <2>1. k = [serial |-> k.serial, vs |-> k.vs] /\ k.vs \in Versions
    BY DEF IInv, TypeOK, Key
  <2>2. DeleteNode(k.serial) => k \notin log
    BY <2>1 DEF DeleteNode, NodeReferenced
  <2> QED BY <1>1, <2>2, NodeRowsStay DEF IInv
<1>2. CASE UNCHANGED nodes
  BY <1>2 DEF NodeExists
<1> QED BY <1>1, <1>2, NodesFrame

\* While an activation waits for a node, only a delete of that serial number
\* takes its row away, and none does once it has a row in the log.
THEOREM UpdatedNodesStay == Spec => NodesInUpdateStay
<1>1. IInv /\ [Next]_vars =>
        [\A k \in updating :
           NodeExists(k.serial, k.vs) =>
             \/ NodeExists(k.serial, k.vs)'
             \/ DeleteNode(k.serial) /\ k \notin log]_nodes
  BY NodesInUpdateStayStep
<1> QED BY Inductive, <1>1, PTL DEF Spec, NodesInUpdateStay

\* Adding or dropping a row concerns the version set of that row alone.
LEMMA OneRow ==
    ASSUME NEW table, NEW r, NEW d
    PROVE  /\ \A v : v # d.vs => Within(table \cup {d}, v) = Within(table, v)
           /\ \A v : v # r.vs => Within(table \ {r}, v) = Within(table, v)
BY DEF Within

\* Replacing a row by another takes one row away.
LEMMA OneRowReplaced ==
    ASSUME NEW table, NEW r \in table, NEW d,
           (table \ {r}) \cup {d} # table
    PROVE  Cardinality(table \ ((table \ {r}) \cup {d})) = 1
<1>1. table \ ((table \ {r}) \cup {d}) = {r}
  OBVIOUS
<1> QED BY <1>1, FS_Singleton

\* A step either changes one of the four tables or none.
LEMMA OneTable ==
    ASSUME [Next]_vars
    PROVE  \/ EndpointStep /\ UNCHANGED <<groups, proxies, hwConfigs>>
           \/ GroupStep /\ UNCHANGED <<endpoints, proxies, hwConfigs>>
           \/ ProxyStep /\ UNCHANGED <<endpoints, groups, hwConfigs>>
           \/ HwStep /\ UNCHANGED <<endpoints, groups, proxies>>
           \/ UNCHANGED <<endpoints, groups, proxies, hwConfigs>>
BY DEF Next, vars, tables, VersionSetStep, CreateVersionSet, DeleteVersionSet,
   NodeStep, CreateNode, UpdateNode, DeleteNode, Hello, Silence,
   EndpointStep, CreateEndpointConfig, UpdateEndpointConfig,
   DeleteEndpointConfig, GroupStep, CreateGroup, UpdateGroup, DeleteGroup,
   ProxyStep, CreateProxy, UpdateProxy, DeleteProxy,
   HwStep, CreateHardwareConfig, UpdateHardwareConfig, DeleteHardwareConfig,
   ActivationStep, ReadFleet, ReadNode, CreateVersionTransition,
   EndPlan, LogNodeTransaction, EndUpdate

\* An endpoint configuration keeps its version set.
LEMMA EndpointsOfOneVersion ==
    ASSUME TypeOK, EndpointStep
    PROVE  \E u : \A v : v # u => Within(endpoints, v)' = Within(endpoints, v)
<1>1. ASSUME NEW c \in ConfigRow, CreateEndpointConfig(c)
      PROVE  \A v : v # c.vs => Within(endpoints, v)' = Within(endpoints, v)
  BY <1>1, OneRow DEF CreateEndpointConfig
<1>2. ASSUME NEW c \in endpoints, NEW e \in ConfigNames, NEW x \in Settings,
             UpdateEndpointConfig(c, e, x)
      PROVE  \A v : v # c.vs => Within(endpoints, v)' = Within(endpoints, v)
  <2> DEFINE d == [c EXCEPT !.name = e, !.setting = x]
  <2>1. d.vs = c.vs
    BY DEF TypeOK, ConfigRow
  <2>2. endpoints' = (endpoints \ {c}) \cup {d}
    BY <1>2 DEF UpdateEndpointConfig
  <2> HIDE DEF d
  <2>3. \A v : v # c.vs =>
           Within((endpoints \ {c}) \cup {d}, v) = Within(endpoints, v)
    BY <2>1 DEF Within
  <2> QED BY <2>2, <2>3 DEF Within
<1>3. ASSUME NEW c \in endpoints, DeleteEndpointConfig(c)
      PROVE  \A v : v # c.vs => Within(endpoints, v)' = Within(endpoints, v)
  BY <1>3, OneRow DEF DeleteEndpointConfig
<1> QED BY <1>1, <1>2, <1>3 DEF EndpointStep

\* So does a proxy.
LEMMA ProxiesOfOneVersion ==
    ASSUME TypeOK, ProxyStep
    PROVE  \E u : \A v : v # u => Within(proxies, v)' = Within(proxies, v)
<1>1. ASSUME NEW p \in ProxyRow, CreateProxy(p)
      PROVE  \A v : v # p.vs => Within(proxies, v)' = Within(proxies, v)
  BY <1>1, OneRow DEF CreateProxy
<1>2. ASSUME NEW p \in proxies, NEW x \in Settings, UpdateProxy(p, x)
      PROVE  \A v : v # p.vs => Within(proxies, v)' = Within(proxies, v)
  <2> DEFINE d == [p EXCEPT !.setting = x]
  <2>1. d.vs = p.vs
    BY DEF TypeOK, ProxyRow
  <2>2. proxies' = (proxies \ {p}) \cup {d}
    BY <1>2 DEF UpdateProxy
  <2> HIDE DEF d
  <2>3. \A v : v # p.vs =>
           Within((proxies \ {p}) \cup {d}, v) = Within(proxies, v)
    BY <2>1 DEF Within
  <2> QED BY <2>2, <2>3 DEF Within
<1>3. ASSUME NEW p \in proxies, DeleteProxy(p)
      PROVE  \A v : v # p.vs => Within(proxies, v)' = Within(proxies, v)
  BY <1>3, OneRow DEF DeleteProxy
<1> QED BY <1>1, <1>2, <1>3 DEF ProxyStep

\* A group keeps its version set, or it is the one that moves.
LEMMA GroupsOfOneVersion ==
    ASSUME TypeOK, GroupStep
    PROVE  \/ \E u : \A v : v # u => Within(groups, v)' = Within(groups, v)
           \/ Cardinality(groups \ groups') = 1
<1>1. ASSUME NEW g \in GroupRow, CreateGroup(g)
      PROVE  \A v : v # g.vs => Within(groups, v)' = Within(groups, v)
  BY <1>1, OneRow DEF CreateGroup
<1>2. ASSUME NEW g \in groups, NEW w \in Versions, NEW e \in ConfigNames,
             UpdateGroup(g, w, e)
      PROVE  groups' = groups \/ Cardinality(groups \ groups') = 1
  BY <1>2, OneRowReplaced DEF UpdateGroup
<1>3. ASSUME NEW g \in groups, DeleteGroup(g)
      PROVE  \A v : v # g.vs => Within(groups, v)' = Within(groups, v)
  BY <1>3, OneRow DEF DeleteGroup
<1>4. groups' = groups => \A v : Within(groups, v)' = Within(groups, v)
  BY DEF Within
<1> QED BY <1>1, <1>2, <1>3, <1>4 DEF GroupStep

\* A hardware configuration too.
LEMMA HwConfigsOfOneVersion ==
    ASSUME TypeOK, HwStep
    PROVE  \/ \E u : \A v : v # u => Within(hwConfigs, v)' = Within(hwConfigs, v)
           \/ Cardinality(hwConfigs \ hwConfigs') = 1
<1>1. ASSUME NEW h \in HwRow, CreateHardwareConfig(h)
      PROVE  \A v : v # h.vs => Within(hwConfigs, v)' = Within(hwConfigs, v)
  BY <1>1, OneRow DEF CreateHardwareConfig
<1>2. ASSUME NEW h \in hwConfigs, NEW w \in Versions, UpdateHardwareConfig(h, w)
      PROVE  hwConfigs' = hwConfigs \/ Cardinality(hwConfigs \ hwConfigs') = 1
  BY <1>2, OneRowReplaced DEF UpdateHardwareConfig
<1>3. ASSUME NEW h \in hwConfigs, DeleteHardwareConfig(h)
      PROVE  \A v : v # h.vs => Within(hwConfigs, v)' = Within(hwConfigs, v)
  BY <1>3, OneRow DEF DeleteHardwareConfig
<1>4. hwConfigs' = hwConfigs =>
        \A v : Within(hwConfigs, v)' = Within(hwConfigs, v)
  BY DEF Within
<1> QED BY <1>1, <1>2, <1>3, <1>4 DEF HwStep

\* The step of the theorem below.
LEMMA IsolationStep ==
    ASSUME IInv, [Next]_vars,
           NEW v \in Versions, NEW w \in Versions, v # w,
           Configuration(v)' # Configuration(v),
           Configuration(w)' # Configuration(w)
    PROVE  /\ UNCHANGED <<endpoints, proxies>>
           /\ \/ UNCHANGED hwConfigs /\ Cardinality(groups \ groups') = 1
              \/ UNCHANGED groups /\ Cardinality(hwConfigs \ hwConfigs') = 1
<1>1. CASE EndpointStep /\ UNCHANGED <<groups, proxies, hwConfigs>>
  BY <1>1, EndpointsOfOneVersion DEF IInv, Configuration, Within
<1>2. CASE GroupStep /\ UNCHANGED <<endpoints, proxies, hwConfigs>>
  BY <1>2, GroupsOfOneVersion DEF IInv, Configuration, Within
<1>3. CASE ProxyStep /\ UNCHANGED <<endpoints, groups, hwConfigs>>
  BY <1>3, ProxiesOfOneVersion DEF IInv, Configuration, Within
<1>4. CASE HwStep /\ UNCHANGED <<endpoints, groups, proxies>>
  BY <1>4, HwConfigsOfOneVersion DEF IInv, Configuration, Within
<1>5. CASE UNCHANGED <<endpoints, groups, proxies, hwConfigs>>
  BY <1>5 DEF Configuration, Within
<1> QED BY <1>1, <1>2, <1>3, <1>4, <1>5, OneTable

\* An operation changes the configuration of one version set, or moves one row
\* between two of them.
THEOREM VersionsStayIsolated == Spec => VersionsAreIsolated
<1>1. IInv /\ [Next]_vars =>
        [\A v, w \in Versions :
           /\ v # w
           /\ Configuration(v)' # Configuration(v)
           /\ Configuration(w)' # Configuration(w)
           => /\ UNCHANGED <<endpoints, proxies>>
              /\ \/ UNCHANGED hwConfigs /\ Cardinality(groups \ groups') = 1
                 \/ UNCHANGED groups /\ Cardinality(hwConfigs \ hwConfigs') = 1
        ]_<<endpoints, groups, proxies, hwConfigs>>
  BY IsolationStep
<1> QED BY Inductive, <1>1, PTL DEF Spec, VersionsAreIsolated

-----------------------------------------------------------------------------
(* Finite tables: a size means something only then. *)

\* A set that a function maps one to one onto another has as many elements.
LEMMA SameSize ==
    ASSUME NEW S, NEW T, IsFiniteSet(S), NEW F \in [S -> T],
           \A a, b \in S : F[a] = F[b] => a = b,
           \A t \in T : \E a \in S : F[a] = t
    PROVE  IsFiniteSet(T) /\ Cardinality(T) = Cardinality(S)
<1>1. F \in Bijection(S, T)
  BY Fun_IsBij
<1> QED BY <1>1, Fun_ExistsBij, FS_Bijection

\* The image of a finite set is finite.
LEMMA FiniteImage ==
    ASSUME NEW S, NEW T, IsFiniteSet(S), NEW F \in [S -> T],
           \A t \in T : \E a \in S : F[a] = t
    PROVE  IsFiniteSet(T)
<1>1. F \in Surjection(S, T)
  BY Fun_IsSurj
<1> QED BY <1>1, Fun_ExistsSurj, FS_Surjection

TablesFinite == IsFiniteSet(nodes) /\ IsFiniteSet(proxies) /\ IsFiniteSet(hwConfigs)

\* Rows are created one at a time.
LEMMA FiniteStep == ASSUME TablesFinite, [Next]_vars PROVE TablesFinite'
<1> USE DEF TablesFinite
<1>0. ASSUME NEW S, NEW r, NEW d, IsFiniteSet(S)
      PROVE  /\ IsFiniteSet(S \cup {d}) /\ IsFiniteSet(S \ {r})
             /\ IsFiniteSet((S \ {r}) \cup {d})
  BY <1>0, FS_AddElement, FS_RemoveElement
<1>1. IsFiniteSet(nodes')
  <2>1. ASSUME NEW s \in Serials, NEW v \in Versions, CreateNode(s, v)
        PROVE  IsFiniteSet(nodes')
    BY <1>0, <2>1 DEF CreateNode
  <2>2. ASSUME NEW n \in nodes, NEW seen \in BOOLEAN, UpdateNode(n, seen)
        PROVE  IsFiniteSet(nodes')
    BY <1>0, <2>2 DEF UpdateNode
  <2>3. ASSUME NEW s \in Serials, DeleteNode(s) PROVE IsFiniteSet(nodes')
    BY <2>3, FS_Subset DEF DeleteNode
  <2>4. ASSUME NEW s \in Serials, Hello(s) PROVE IsFiniteSet(nodes')
    <3> DEFINE F == [n \in nodes |-> [n EXCEPT !.fresh = @ \/ n.serial = s]]
    <3>1. F \in [nodes -> nodes'] /\ \A m \in nodes' : \E n \in nodes : F[n] = m
      BY <2>4 DEF Hello
    <3> HIDE DEF F
    <3> QED BY <3>1, FiniteImage
  <2>5. ASSUME NEW s \in Serials, Silence(s) PROVE IsFiniteSet(nodes')
    <3> DEFINE F == [n \in nodes |-> [n EXCEPT !.fresh = @ /\ n.serial # s]]
    <3>1. F \in [nodes -> nodes'] /\ \A m \in nodes' : \E n \in nodes : F[n] = m
      BY <2>5 DEF Silence
    <3> HIDE DEF F
    <3> QED BY <3>1, FiniteImage
  <2>6. CASE NodeStep
    BY <2>1, <2>2, <2>3, <2>4, <2>5, <2>6 DEF NodeStep
  <2> QED BY <2>6, NodesFrame
<1>2. IsFiniteSet(proxies')
  <2>1. CASE ProxyStep
    <3>1. ASSUME NEW p \in ProxyRow, CreateProxy(p) PROVE IsFiniteSet(proxies')
      BY <1>0, <3>1 DEF CreateProxy
    <3>2. ASSUME NEW p \in proxies, NEW x \in Settings, UpdateProxy(p, x)
          PROVE  IsFiniteSet(proxies')
      BY <1>0, <3>2 DEF UpdateProxy
    <3>3. ASSUME NEW p \in proxies, DeleteProxy(p) PROVE IsFiniteSet(proxies')
      BY <1>0, <3>3 DEF DeleteProxy
    <3> QED BY <2>1, <3>1, <3>2, <3>3 DEF ProxyStep
  <2>2. CASE UNCHANGED proxies
    BY <2>2
  <2> QED BY <2>1, <2>2, OneTable
<1>3. IsFiniteSet(hwConfigs')
  <2>1. CASE HwStep
    <3>1. ASSUME NEW h \in HwRow, CreateHardwareConfig(h) PROVE IsFiniteSet(hwConfigs')
      BY <1>0, <3>1 DEF CreateHardwareConfig
    <3>2. ASSUME NEW h \in hwConfigs, NEW v \in Versions, UpdateHardwareConfig(h, v)
          PROVE  IsFiniteSet(hwConfigs')
      BY <1>0, <3>2 DEF UpdateHardwareConfig
    <3>3. ASSUME NEW h \in hwConfigs, DeleteHardwareConfig(h) PROVE IsFiniteSet(hwConfigs')
      BY <1>0, <3>3 DEF DeleteHardwareConfig
    <3> QED BY <2>1, <3>1, <3>2, <3>3 DEF HwStep
  <2>2. CASE UNCHANGED hwConfigs
    BY <2>2
  <2> QED BY <2>1, <2>2, OneTable
<1> QED BY <1>1, <1>2, <1>3

\* The empty store is finite.
LEMMA InitFinite == Init => TablesFinite
BY FS_EmptySet DEF Init, TablesFinite

-----------------------------------------------------------------------------
(* The update of a version set. *)

\* The rows of one node: each of its hardware configurations with each of its
\* proxies.
RowsOfNode(n) == [node : {n}, hw : OrNull(HwOf(n)), proxy : ProxiesOf(n)]

\* The group of a proxy is the one it names, in its version set.
LEMMA GroupOfProxy ==
    ASSUME IInv, NEW p \in proxies
    PROVE  /\ GroupOf(p) \in groups /\ GroupOf(p).name = p.group /\ GroupOf(p).vs = p.vs
           /\ EndpointOf(GroupOf(p)) \in endpoints
           /\ EndpointOf(GroupOf(p)).name = GroupOf(p).endpoint
           /\ EndpointOf(GroupOf(p)).vs = p.vs
           /\ LegacyOf(GroupOf(p)) \in endpoints
           /\ LegacyOf(GroupOf(p)).name = GroupOf(p).legacy
           /\ LegacyOf(GroupOf(p)).vs = p.vs
<1> DEFINE g == GroupOf(p)
<1>1. Null \notin groups /\ Null \notin endpoints /\ p # Null
  BY NullAssumption DEF IInv, TypeOK
<1>2. GroupExists(p.group, p.vs)
  BY DEF IInv, References, NodeReferences
<1>3. g # Null /\ g \in groups /\ g.name = p.group /\ g.vs = p.vs
  BY <1>1, <1>2, LookupFinds DEF GroupOf, GroupExists
<1>4. ConfigExists(g.endpoint, g.vs) /\ ConfigExists(g.legacy, g.vs)
  BY <1>3 DEF IInv, References, ConfigReferences
<1>5. /\ EndpointOf(g) \in endpoints
      /\ EndpointOf(g).name = g.endpoint /\ EndpointOf(g).vs = g.vs
  BY <1>1, <1>3, <1>4, LookupFinds DEF EndpointOf, ConfigExists
<1>6. /\ LegacyOf(g) \in endpoints
      /\ LegacyOf(g).name = g.legacy /\ LegacyOf(g).vs = g.vs
  BY <1>1, <1>3, <1>4, LookupFinds DEF LegacyOf, ConfigExists
<1> QED BY <1>3, <1>5, <1>6

\* Proxies of one version set that name the same group have the same group.
LEMMA SameGroup ==
    ASSUME IInv, NEW p \in proxies, NEW q \in proxies, p.vs = q.vs
    PROVE  GroupOf(p) = GroupOf(q) <=> p.group = GroupOf(q).name
<1>1. p # Null /\ q # Null
  BY NullAssumption DEF IInv, TypeOK
<1>2. p.group = q.group => GroupOf(p) = GroupOf(q)
  BY <1>1 DEF GroupOf
<1> QED BY <1>2, GroupOfProxy

\* How often the rows of a node name one of its hardware configurations, and one
\* of its proxies.
LEMMA RowsCount ==
    ASSUME TablesFinite, NEW n
    PROVE  /\ \A h \in OrNull(HwOf(n)) :
                Cardinality({r \in RowsOfNode(n) : r.hw = h}) = Cardinality(ProxiesOf(n))
           /\ \A p \in ProxiesOf(n) :
                Cardinality({r \in RowsOfNode(n) : r.proxy = p})
                  = IF HwOf(n) = {} THEN 1 ELSE Cardinality(HwOf(n))
<1>1. ASSUME NEW h \in OrNull(HwOf(n))
      PROVE  Cardinality({r \in RowsOfNode(n) : r.hw = h}) = Cardinality(ProxiesOf(n))
  <2> DEFINE T == {r \in RowsOfNode(n) : r.hw = h}
             F == [p \in ProxiesOf(n) |-> [node |-> n, hw |-> h, proxy |-> p]]
  <2>1. F \in [ProxiesOf(n) -> T]
    BY DEF RowsOfNode
  <2>2. \A t \in T : t.proxy \in ProxiesOf(n) /\ F[t.proxy] = t
    BY DEF RowsOfNode
  <2>3. \A a, b \in ProxiesOf(n) : F[a] = F[b] => a = b
    OBVIOUS
  <2>4. IsFiniteSet(ProxiesOf(n))
    BY FS_Subset DEF ProxiesOf, TablesFinite
  <2> HIDE DEF F, T
  <2>5. Cardinality(T) = Cardinality(ProxiesOf(n))
    BY <2>1, <2>2, <2>3, <2>4, SameSize
  <2> QED BY <2>5 DEF T
<1>2. IsFiniteSet(OrNull(HwOf(n)))
  <2>1. IsFiniteSet(HwOf(n))
    BY FS_Subset DEF HwOf, TablesFinite
  <2> QED BY <2>1, FS_Singleton DEF OrNull
<1>3. ASSUME NEW p \in ProxiesOf(n)
      PROVE  Cardinality({r \in RowsOfNode(n) : r.proxy = p}) = Cardinality(OrNull(HwOf(n)))
  <2> DEFINE T == {r \in RowsOfNode(n) : r.proxy = p}
             F == [h \in OrNull(HwOf(n)) |-> [node |-> n, hw |-> h, proxy |-> p]]
  <2>1. F \in [OrNull(HwOf(n)) -> T]
    BY DEF RowsOfNode
  <2>2. \A t \in T : t.hw \in OrNull(HwOf(n)) /\ F[t.hw] = t
    BY DEF RowsOfNode
  <2>3. \A a, b \in OrNull(HwOf(n)) : F[a] = F[b] => a = b
    OBVIOUS
  <2> HIDE DEF F, T
  <2>4. Cardinality(T) = Cardinality(OrNull(HwOf(n)))
    BY <1>2, <2>1, <2>2, <2>3, SameSize
  <2> QED BY <2>4 DEF T
<1>4. Cardinality(OrNull(HwOf(n))) = IF HwOf(n) = {} THEN 1 ELSE Cardinality(HwOf(n))
  BY FS_Singleton DEF OrNull
<1> QED BY <1>1, <1>3, <1>4

\* What an update says of the groups of a node follows from the rows' proxies.
LEMMA ItemGroups ==
    ASSUME IInv, TablesFinite, NEW n \in nodes, NEW u \in GroupUpdates(RowsOfNode(n))
    PROVE  \E q \in ProxiesOf(n) :
             /\ u.name = GroupOf(q).name /\ u.endpoint = EndpointOf(GroupOf(q))
             /\ u.legacy = LegacyOf(GroupOf(q))
             /\ u.proxies = [p \in {p \in ProxiesOf(n) : p.group = u.name} |->
                               IF HwOf(n) = {} THEN 1 ELSE Cardinality(HwOf(n))]
<1>1. PICK q \in ProxiesOf(n) :
        u = GroupProxyUpdate(GroupOf(q), {r \in RowsOfNode(n) : GroupOf(r.proxy) = GroupOf(q)})
  BY DEF GroupUpdates, RowsOfNode
<1> DEFINE R == {r \in RowsOfNode(n) : GroupOf(r.proxy) = GroupOf(q)}
<1>2. /\ u.name = GroupOf(q).name /\ u.endpoint = EndpointOf(GroupOf(q))
      /\ u.legacy = LegacyOf(GroupOf(q))
      /\ u.proxies = [p \in {r.proxy : r \in R} |-> Cardinality({r \in R : r.proxy = p})]
  BY <1>1 DEF GroupProxyUpdate
<1>3. \A p \in ProxiesOf(n) : GroupOf(p) = GroupOf(q) <=> p.group = u.name
  BY <1>2, SameGroup DEF ProxiesOf
<1>4. \A p \in ProxiesOf(n) : \E r \in RowsOfNode(n) : r.proxy = p
  <2> TAKE p \in ProxiesOf(n)
  <2>1. PICK h : h \in OrNull(HwOf(n))
    BY DEF OrNull
  <2>2. [node |-> n, hw |-> h, proxy |-> p] \in RowsOfNode(n)
    BY <2>1 DEF RowsOfNode
  <2> QED BY <2>2
<1>5. {r.proxy : r \in R} = {p \in ProxiesOf(n) : p.group = u.name}
  <2>1. \A r \in RowsOfNode(n) : r.proxy \in ProxiesOf(n)
    BY DEF RowsOfNode
  <2> QED BY <1>3, <1>4, <2>1
<1>6. ASSUME NEW p \in {p \in ProxiesOf(n) : p.group = u.name}
      PROVE  Cardinality({r \in R : r.proxy = p}) = IF HwOf(n) = {} THEN 1 ELSE Cardinality(HwOf(n))
  <2>1. {r \in R : r.proxy = p} = {r \in RowsOfNode(n) : r.proxy = p}
    BY <1>3
  <2> QED BY <2>1, RowsCount
<1> HIDE DEF R
<1>7. u.proxies = [p \in {p \in ProxiesOf(n) : p.group = u.name} |->
                     IF HwOf(n) = {} THEN 1 ELSE Cardinality(HwOf(n))]
  BY <1>2, <1>5, <1>6
<1> QED BY <1>2, <1>7

\* The item of a node with proxies has exactly what the node has.
LEMMA ItemCarries ==
    ASSUME IInv, TablesFinite, NEW n \in nodes, ProxiesOf(n) # {}
    PROVE  Carries(Item(n, HwBag(RowsOfNode(n)), RowsOfNode(n)), n)
<1> DEFINE rows == RowsOfNode(n)
           i == Item(n, HwBag(rows), rows)
<1>2. i.hw = [h \in HwOf(n) |-> Cardinality(ProxiesOf(n))]
  <2>1. {r.hw : r \in rows} \ {Null} = HwOf(n)
    <3>1. Null \notin HwOf(n)
      BY NullAssumption DEF HwOf, IInv, TypeOK
    <3>2. \A r \in rows : r.hw \in OrNull(HwOf(n))
      BY DEF RowsOfNode
    <3>3. \A h \in HwOf(n) : \E r \in rows : r.hw = h
      <4> TAKE h \in HwOf(n)
      <4>1. PICK p : p \in ProxiesOf(n)
        OBVIOUS
      <4>2. h \in OrNull(HwOf(n))
        BY DEF OrNull
      <4>3. [node |-> n, hw |-> h, proxy |-> p] \in rows
        BY <4>1, <4>2 DEF RowsOfNode
      <4> QED BY <4>3
    <3> QED BY <3>1, <3>2, <3>3 DEF OrNull
  <2>2. \A h \in HwOf(n) : Cardinality({r \in rows : r.hw = h}) = Cardinality(ProxiesOf(n))
    BY RowsCount DEF OrNull
  <2>3. i.hw = [h \in {r.hw : r \in rows} \ {Null} |-> Cardinality({r \in rows : r.hw = h})]
    BY DEF Item, HwBag
  <2> HIDE DEF rows, i
  <2> QED BY <2>1, <2>2, <2>3
<1>3. {u.name : u \in i.groups} = {p.group : p \in ProxiesOf(n)}
  <2>1. ASSUME NEW p \in ProxiesOf(n) PROVE \E u \in i.groups : u.name = p.group
    <3>1. PICK h : h \in OrNull(HwOf(n))
      BY DEF OrNull
    <3>2. [node |-> n, hw |-> h, proxy |-> p] \in rows
      BY <3>1 DEF RowsOfNode
    <3> HIDE DEF rows
    <3>3. GroupOf(p) \in {GroupOf(r.proxy) : r \in rows}
      BY <3>2
    <3>4. GroupProxyUpdate(GroupOf(p), {r \in rows : GroupOf(r.proxy) = GroupOf(p)}) \in i.groups
      BY <3>3 DEF Item, GroupUpdates
    <3>5. GroupOf(p).name = p.group
      BY GroupOfProxy DEF ProxiesOf
    <3> QED BY <3>4, <3>5 DEF GroupProxyUpdate
  <2>2. ASSUME NEW u \in i.groups PROVE \E p \in ProxiesOf(n) : u.name = p.group
    <3>1. u \in GroupUpdates(RowsOfNode(n))
      BY DEF Item
    <3>2. PICK q \in ProxiesOf(n) : u.name = GroupOf(q).name
      BY <3>1, ItemGroups
    <3>3. GroupOf(q).name = q.group
      BY GroupOfProxy DEF ProxiesOf
    <3> QED BY <3>2, <3>3
  <2> HIDE DEF i
  <2> QED BY <2>1, <2>2
<1>4. ASSUME NEW u \in i.groups
      PROVE  /\ \E g \in groups :
                  /\ g.name = u.name /\ g.vs = n.vs
                  /\ u.endpoint \in endpoints /\ u.endpoint.vs = n.vs
                  /\ u.endpoint.name = g.endpoint
                  /\ u.legacy \in endpoints /\ u.legacy.vs = n.vs
                  /\ u.legacy.name = g.legacy
             /\ u.proxies = [p \in {p \in ProxiesOf(n) : p.group = u.name} |->
                               IF HwOf(n) = {} THEN 1 ELSE Cardinality(HwOf(n))]
  <2>1. u \in GroupUpdates(RowsOfNode(n))
    BY DEF Item
  <2>2. PICK q \in ProxiesOf(n) :
          /\ u.name = GroupOf(q).name /\ u.endpoint = EndpointOf(GroupOf(q))
          /\ u.legacy = LegacyOf(GroupOf(q))
          /\ u.proxies = [p \in {p \in ProxiesOf(n) : p.group = u.name} |->
                            IF HwOf(n) = {} THEN 1 ELSE Cardinality(HwOf(n))]
    BY <2>1, ItemGroups
  <2> DEFINE g == GroupOf(q)
             e == EndpointOf(GroupOf(q))
             l == LegacyOf(GroupOf(q))
  <2>3. q \in proxies /\ q.vs = n.vs
    BY DEF ProxiesOf
  <2>4. /\ g \in groups /\ g.vs = n.vs
        /\ e \in endpoints /\ e.name = g.endpoint /\ e.vs = n.vs
        /\ l \in endpoints /\ l.name = g.legacy /\ l.vs = n.vs
    BY <2>3, GroupOfProxy
  <2>5. u.name = g.name /\ u.endpoint = e /\ u.legacy = l
    BY <2>2
  <2> HIDE DEF g, e, l
  <2>6. \E d \in groups :
          /\ d.name = u.name /\ d.vs = n.vs
          /\ u.endpoint \in endpoints /\ u.endpoint.vs = n.vs
          /\ u.endpoint.name = d.endpoint
          /\ u.legacy \in endpoints /\ u.legacy.vs = n.vs
          /\ u.legacy.name = d.legacy
    BY <2>4, <2>5
  <2> QED BY <2>2, <2>6
<1> HIDE DEF i
<1>5. Carries(i, n)
  BY <1>2, <1>3, <1>4 DEF Carries, ProxiesOf, HwOf
<1> QED BY <1>5 DEF i

\* A query that succeeds gave every node that was heard of lately the rows of its
\* own tables, and no other node any.
LEMMA RowsOfUpdate ==
    ASSUME IInv, NEW v, NEW g, GetFleetUpdateOptimized(v, g).status = "ok"
    PROVE  /\ \A n \in FreshNodes(v) : ProxiesOf(n) # {}
           /\ GetFleetUpdateOptimized(v, g).items =
                {Item(n, HwBag(RowsOfNode(n)), RowsOfNode(n)) : n \in FreshNodes(v)}
<1> DEFINE rows == FleetRows(v)
<1>1. /\ \A r \in rows : Scans(r)
      /\ GetFleetUpdateOptimized(v, g).items =
           {Item(n, HwBag({r \in rows : r.node = n}), {r \in rows : r.node = n}) :
               n \in {r.node : r \in rows}}
  BY DEF GetFleetUpdateOptimized
<1>2. ASSUME NEW n \in FreshNodes(v)
      PROVE  \E h, p : [node |-> n, hw |-> h, proxy |-> p] \in rows
                       /\ p \in OrNull(ProxiesOf(n))
  <2>1. PICK h : h \in OrNull(HwOf(n))
    BY DEF OrNull
  <2>2. PICK p : p \in OrNull(ProxiesOf(n))
    BY DEF OrNull
  <2>3. [node |-> n, hw |-> h, proxy |-> p]
          \in [node : {n}, hw : OrNull(HwOf(n)), proxy : OrNull(ProxiesOf(n))]
    BY <2>1, <2>2
  <2>4. [node |-> n, hw |-> h, proxy |-> p] \in rows
    BY <2>3 DEF FleetRows
  <2> QED BY <2>2, <2>4
<1>3. ASSUME NEW n \in FreshNodes(v) PROVE ProxiesOf(n) # {}
  <2> SUFFICES ASSUME ProxiesOf(n) = {} PROVE FALSE
    OBVIOUS
  <2>1. PICK h : [node |-> n, hw |-> h, proxy |-> Null] \in rows
    BY <1>2 DEF OrNull
  <2>2. ~Scans([node |-> n, hw |-> h, proxy |-> Null])
    BY DEF Scans, GroupOf
  <2> QED BY <1>1, <2>1, <2>2
<1>4. ASSUME NEW n \in FreshNodes(v)
      PROVE  {r \in rows : r.node = n} = RowsOfNode(n)
  <2>1. OrNull(ProxiesOf(n)) = ProxiesOf(n)
    BY <1>3 DEF OrNull
  <2>2. RowsOfNode(n) \subseteq {r \in rows : r.node = n}
    <3>1. RowsOfNode(n) = [node : {n}, hw : OrNull(HwOf(n)), proxy : OrNull(ProxiesOf(n))]
      BY <2>1 DEF RowsOfNode
    <3>2. \A r \in RowsOfNode(n) : r.node = n
      BY DEF RowsOfNode
    <3> QED BY <3>1, <3>2 DEF FleetRows
  <2>3. ASSUME NEW r \in rows, r.node = n PROVE r \in RowsOfNode(n)
    <3>1. PICK m \in FreshNodes(v) :
            r \in [node : {m}, hw : OrNull(HwOf(m)), proxy : OrNull(ProxiesOf(m))]
      BY DEF FleetRows
    <3>2. m = n
      BY <2>3, <3>1
    <3> QED BY <2>1, <3>1, <3>2 DEF RowsOfNode
  <2> QED BY <2>2, <2>3
<1>5. {r.node : r \in rows} = FreshNodes(v)
  <2>1. \A r \in rows : r.node \in FreshNodes(v)
    BY DEF FleetRows
  <2>2. \A n \in FreshNodes(v) : \E r \in rows : r.node = n
    <3> TAKE n \in FreshNodes(v)
    <3>1. PICK h, p : [node |-> n, hw |-> h, proxy |-> p] \in rows
      BY <1>2
    <3> QED BY <3>1
  <2> HIDE DEF rows
  <2> QED BY <2>1, <2>2
<1>6. GetFleetUpdateOptimized(v, g).items =
        {Item(n, HwBag(RowsOfNode(n)), RowsOfNode(n)) : n \in FreshNodes(v)}
  <2> DEFINE S(n) == {r \in rows : r.node = n}
             J(n, R) == Item(n, HwBag(R), R)
  <2>1. GetFleetUpdateOptimized(v, g).items = {J(n, S(n)) : n \in {r.node : r \in rows}}
    BY <1>1
  <2>2. \A n \in FreshNodes(v) : S(n) = RowsOfNode(n)
    BY <1>4
  <2> HIDE DEF S, J, rows
  <2>3. GetFleetUpdateOptimized(v, g).items = {J(n, RowsOfNode(n)) : n \in FreshNodes(v)}
    BY <1>5, <2>1, <2>2
  <2> QED BY <2>3 DEF J
<1> QED BY <1>3, <1>6

\* An item stands for a node: two nodes of a version set that were heard of
\* lately have different serial numbers, so they have different items.
LEMMA UpdateIsExactStep == ASSUME IInv, TablesFinite PROVE UpdateIsExact
<1> SUFFICES ASSUME NEW v \in Versions, GetFleetUpdateOptimized(v, "").status = "ok"
             PROVE  /\ Cardinality(GetFleetUpdateOptimized(v, "").items)
                         = Cardinality(FreshNodes(v))
                    /\ \A n \in FreshNodes(v) :
                         \E i \in GetFleetUpdateOptimized(v, "").items :
                            i.serial = n.serial /\ i.vs = v /\ Carries(i, n)
  BY DEF UpdateIsExact, FreshNodes
<1> DEFINE items == GetFleetUpdateOptimized(v, "").items
           ItemOf(n) == Item(n, HwBag(RowsOfNode(n)), RowsOfNode(n))
           F == [n \in FreshNodes(v) |-> ItemOf(n)]
<1>1. /\ \A n \in FreshNodes(v) : ProxiesOf(n) # {}
      /\ items = {ItemOf(n) : n \in FreshNodes(v)}
  BY RowsOfUpdate
<1>2. \A n \in FreshNodes(v) : ItemOf(n).serial = n.serial /\ ItemOf(n).vs = n.vs
  BY DEF Item
<1>3. \A n \in FreshNodes(v) : n \in nodes /\ n.vs = v /\ Carries(ItemOf(n), n)
  BY <1>1, ItemCarries DEF FreshNodes
<1>4. Cardinality(items) = Cardinality(FreshNodes(v))
  <2>1. \A a, b \in FreshNodes(v) : a.serial = b.serial => a = b
    <3>1. ASSUME NEW n \in FreshNodes(v)
          PROVE  n = [serial |-> n.serial, vs |-> v, fresh |-> TRUE]
      <4>1. n \in NodeRow /\ n.vs = v /\ n.fresh
        BY DEF FreshNodes, IInv, TypeOK
      <4>2. n.fresh = TRUE
        BY <4>1 DEF NodeRow
      <4> QED BY <4>1, <4>2 DEF NodeRow
    <3> QED BY <3>1
  <2>2. IsFiniteSet(FreshNodes(v))
    BY FS_Subset DEF FreshNodes, TablesFinite
  <2> HIDE DEF ItemOf, items
  <2>3. /\ F \in [FreshNodes(v) -> items] /\ \A n \in FreshNodes(v) : F[n] = ItemOf(n)
        /\ \A i \in items : \E n \in FreshNodes(v) : F[n] = i
    BY <1>1
  <2> HIDE DEF F
  <2>4. ASSUME NEW a \in FreshNodes(v), NEW b \in FreshNodes(v), F[a] = F[b] PROVE a = b
    <3>1. ItemOf(a) = ItemOf(b)
      BY <2>3, <2>4
    <3>2. a.serial = b.serial
      BY <1>2, <3>1
    <3> QED BY <2>1, <3>2
  <2>5. \A a, b \in FreshNodes(v) : F[a] = F[b] => a = b
    BY <2>4
  <2>6. F \in [FreshNodes(v) -> items] /\ \A i \in items : \E n \in FreshNodes(v) : F[n] = i
    BY <2>3
  <2> QED BY <2>2, <2>5, <2>6, SameSize
<1>5. ASSUME NEW n \in FreshNodes(v)
      PROVE  \E i \in items : i.serial = n.serial /\ i.vs = v /\ Carries(i, n)
  <2> HIDE DEF ItemOf, items
  <2>1. ItemOf(n) \in items
    BY <1>1
  <2> QED BY <1>2, <1>3, <2>1
<1> QED BY <1>4, <1>5

\* The tables are finite whatever the bound on their rows.
THEOREM TablesStayFinite == Spec => []TablesFinite
BY InitFinite, FiniteStep, PTL DEF Spec

\* An activation of a version set tells each node that was heard of lately its
\* own configuration, all of it, and tells nobody else anything.
THEOREM UpdatesAreExact == Spec => []UpdateIsExact
BY Inductive, TablesStayFinite, UpdateIsExactStep, PTL

-----------------------------------------------------------------------------
(* The update of one node. *)

\* What an item says of groups, copies aside, depends only on which proxies its
\* rows name.
LEMMA GroupsFromProxies ==
    ASSUME NEW rows
    PROVE  LET P == {r.proxy : r \in rows}
           IN  {<<u.name, u.endpoint, u.legacy, DOMAIN u.proxies>> : u \in GroupUpdates(rows)}
                 = {<<GroupOf(p).name, EndpointOf(GroupOf(p)), LegacyOf(GroupOf(p)),
                      {q \in P : GroupOf(q) = GroupOf(p)}>> : p \in P}
<1> DEFINE P == {r.proxy : r \in rows}
           Update(p) == GroupProxyUpdate(GroupOf(p), {r \in rows : GroupOf(r.proxy) = GroupOf(p)})
           Told(u) == <<u.name, u.endpoint, u.legacy, DOMAIN u.proxies>>
<1>1. GroupUpdates(rows) = {Update(p) : p \in P}
  BY DEF GroupUpdates
<1>2. ASSUME NEW p
      PROVE  /\ Update(p).name = GroupOf(p).name
             /\ Update(p).endpoint = EndpointOf(GroupOf(p))
             /\ Update(p).legacy = LegacyOf(GroupOf(p))
             /\ DOMAIN Update(p).proxies = {q \in P : GroupOf(q) = GroupOf(p)}
  BY DEF GroupProxyUpdate
<1> HIDE DEF Update
<1>3. \A p : Told(Update(p)) = <<GroupOf(p).name, EndpointOf(GroupOf(p)), LegacyOf(GroupOf(p)),
                                  {q \in P : GroupOf(q) = GroupOf(p)}>>
  BY <1>2
<1> HIDE DEF Told, P
<1>4. {Told(u) : u \in GroupUpdates(rows)} = {Told(Update(p)) : p \in P}
  BY <1>1
<1>5. {Told(u) : u \in GroupUpdates(rows)}
        = {<<GroupOf(p).name, EndpointOf(GroupOf(p)), LegacyOf(GroupOf(p)),
             {q \in P : GroupOf(q) = GroupOf(p)}>> : p \in P}
  BY <1>3, <1>4
<1> QED BY <1>5 DEF Told, P

\* The two ways to assemble what a node is told read the same tables.
LEMMA ItemsAgreeStep == ASSUME IInv PROVE ItemsAgree
<1> SUFFICES ASSUME NEW v \in Versions, NEW i \in GetFleetUpdateOptimized(v, "").items
             PROVE  \E j \in NodeUpdate(i.serial, v).items :
                      /\ j.serial = i.serial /\ j.vs = i.vs
                      /\ DOMAIN j.hw = DOMAIN i.hw
                      /\ {<<u.name, u.endpoint, u.legacy, DOMAIN u.proxies>> : u \in j.groups}
                           = {<<u.name, u.endpoint, u.legacy, DOMAIN u.proxies>> : u \in i.groups}
  BY DEF ItemsAgree
<1>1. GetFleetUpdateOptimized(v, "").status = "ok"
  BY DEF GetFleetUpdateOptimized
<1>2. PICK n \in FreshNodes(v) : i = Item(n, HwBag(RowsOfNode(n)), RowsOfNode(n))
  <2>1. i \in {Item(n, HwBag(RowsOfNode(n)), RowsOfNode(n)) : n \in FreshNodes(v)}
    BY <1>1, RowsOfUpdate, Zenon
  <2> QED BY <2>1
<1>3. n \in nodes /\ n.vs = v /\ ProxiesOf(n) # {}
  BY <1>1, RowsOfUpdate DEF FreshNodes
<1> DEFINE ns == {m \in nodes : m.serial = n.serial /\ m.vs = v}
           rows == UNION {[node : {m}, proxy : ProxiesOf(m)] : m \in ns}
           j == Item(n, [h \in HwOf(n) |-> 1], rows)
<1>4. \A m \in ns : ProxiesOf(m) = ProxiesOf(n) /\ HwOf(m) = HwOf(n)
  BY <1>3 DEF ProxiesOf, HwOf
<1>5. {r.proxy : r \in rows} = ProxiesOf(n)
  <2>1. ASSUME NEW r \in rows PROVE r.proxy \in ProxiesOf(n)
    <3>1. PICK m \in ns : r \in [node : {m}, proxy : ProxiesOf(m)]
      OBVIOUS
    <3> QED BY <1>4, <3>1
  <2>2. ASSUME NEW p \in ProxiesOf(n) PROVE \E r \in rows : r.proxy = p
    <3>1. [node |-> n, proxy |-> p] \in [node : {n}, proxy : ProxiesOf(n)]
      OBVIOUS
    <3>2. [node |-> n, proxy |-> p] \in rows
      BY <1>3, <3>1
    <3> QED BY <3>2
  <2> HIDE DEF rows
  <2> QED BY <2>1, <2>2
<1>6. j \in NodeUpdate(n.serial, v).items
  <2>1. rows # {} /\ \A r \in rows : Scans(r)
    <3>1. \A r \in rows : r.proxy \in proxies /\ r.proxy # Null
      BY <1>5, NullAssumption DEF ProxiesOf, IInv, TypeOK
    <3> HIDE DEF rows
    <3> QED BY <1>3, <1>5, <3>1, RowsScan
  <2>2. NodeUpdate(n.serial, v).items = {Item(m, [h \in HwOf(m) |-> 1], rows) : m \in ns}
    BY <2>1 DEF NodeUpdate
  <2>3. n \in ns
    BY <1>3
  <2> QED BY <2>2, <2>3
<1>7. {r.proxy : r \in RowsOfNode(n)} = ProxiesOf(n)
  <2>1. ASSUME NEW p \in ProxiesOf(n) PROVE \E r \in RowsOfNode(n) : r.proxy = p
    <3>1. PICK h : h \in OrNull(HwOf(n))
      BY DEF OrNull
    <3>2. [node |-> n, hw |-> h, proxy |-> p] \in RowsOfNode(n)
      BY <3>1 DEF RowsOfNode
    <3> QED BY <3>2
  <2>2. \A r \in RowsOfNode(n) : r.proxy \in ProxiesOf(n)
    BY DEF RowsOfNode
  <2> QED BY <2>1, <2>2
<1>8. {<<u.name, u.endpoint, u.legacy, DOMAIN u.proxies>> : u \in j.groups}
        = {<<u.name, u.endpoint, u.legacy, DOMAIN u.proxies>> : u \in i.groups}
  <2>1. j.groups = GroupUpdates(rows) /\ i.groups = GroupUpdates(RowsOfNode(n))
    BY <1>2 DEF Item
  <2> DEFINE Told(P) == {<<GroupOf(p).name, EndpointOf(GroupOf(p)), LegacyOf(GroupOf(p)),
                           {q \in P : GroupOf(q) = GroupOf(p)}>> : p \in P}
  <2> HIDE DEF rows, j
  <2>2. {<<u.name, u.endpoint, u.legacy, DOMAIN u.proxies>> : u \in j.groups}
          = Told({r.proxy : r \in rows})
    BY <2>1, GroupsFromProxies, Zenon
  <2>3. {<<u.name, u.endpoint, u.legacy, DOMAIN u.proxies>> : u \in i.groups}
          = Told({r.proxy : r \in RowsOfNode(n)})
    BY <2>1, GroupsFromProxies, Zenon
  <2> HIDE DEF Told
  <2> QED BY <1>5, <1>7, <2>2, <2>3
<1>9. DOMAIN j.hw = DOMAIN i.hw
  <2>1. {r.hw : r \in RowsOfNode(n)} = OrNull(HwOf(n))
    <3>1. ASSUME NEW h \in OrNull(HwOf(n)) PROVE \E r \in RowsOfNode(n) : r.hw = h
      <4>1. PICK p : p \in ProxiesOf(n)
        BY <1>3
      <4>2. [node |-> n, hw |-> h, proxy |-> p] \in RowsOfNode(n)
        BY <4>1 DEF RowsOfNode
      <4> QED BY <4>2
    <3>2. \A r \in RowsOfNode(n) : r.hw \in OrNull(HwOf(n))
      BY DEF RowsOfNode
    <3> QED BY <3>1, <3>2
  <2>2. Null \notin HwOf(n)
    BY NullAssumption DEF HwOf, IInv, TypeOK
  <2>3. DOMAIN i.hw = OrNull(HwOf(n)) \ {Null}
    BY <1>2, <2>1 DEF Item, HwBag
  <2>4. DOMAIN j.hw = HwOf(n)
    BY DEF Item
  <2> HIDE DEF j
  <2> QED BY <2>2, <2>3, <2>4 DEF OrNull
<1>10. i.serial = n.serial /\ j.serial = n.serial /\ i.vs = n.vs /\ j.vs = n.vs
  BY <1>2 DEF Item
<1> HIDE DEF j
<1> QED BY <1>6, <1>8, <1>9, <1>10

\* A node is told the same of its configuration by an activation of its own as
\* by one of its version set.
THEOREM ActivationsAgree == Spec => []ItemsAgree
BY Inductive, ItemsAgreeStep, PTL

-----------------------------------------------------------------------------
(* Keys. *)

UniqueNames(table) == \A r, d \in table : r.name = d.name /\ r.vs = d.vs => r = d
UniqueNodes == \A m, n \in nodes : m.serial = n.serial /\ m.vs = n.vs => m = n
UniqueIds == \A h, k \in hwConfigs : h.id = k.id => h = k

KeysUnique ==
    UniqueNames(endpoints) /\ UniqueNames(groups) /\ UniqueNames(proxies)
    /\ UniqueNodes /\ UniqueIds

\* A row may be added under a name that its version set does not have.
LEMMA NewName ==
    ASSUME NEW S, UniqueNames(S), NEW d, \A r \in S : ~(r.name = d.name /\ r.vs = d.vs)
    PROVE  UniqueNames(S \cup {d})
BY DEF UniqueNames

\* Fewer rows have unique names still.
LEMMA FewerNames ==
    ASSUME NEW S, UniqueNames(S), NEW T, T \subseteq S
    PROVE  UniqueNames(T)
BY DEF UniqueNames

\* Creating a row, or giving it another key, looks for a row that has the key.
LEMMA NodesUniqueStep == ASSUME TypeOK, UniqueNodes, [Next]_vars PROVE UniqueNodes'
<1> USE DEF UniqueNodes
<1>1. ASSUME NEW s \in Serials, NEW v \in Versions, CreateNode(s, v) PROVE UniqueNodes'
  <2> DEFINE d == [serial |-> s, vs |-> v, fresh |-> FALSE]
  <2>1. \A n \in nodes : ~(n.serial = s /\ n.vs = v)
    BY <1>1 DEF CreateNode, NodeExists
  <2>2. d.serial = s /\ d.vs = v /\ nodes' = nodes \cup {d}
    BY <1>1 DEF CreateNode
  <2> HIDE DEF d
  <2> QED BY <2>1, <2>2
<1>2. ASSUME NEW n \in nodes, NEW seen \in BOOLEAN, UpdateNode(n, seen) PROVE UniqueNodes'
  <2> DEFINE d == [n EXCEPT !.fresh = seen]
  <2>1. d.serial = n.serial /\ d.vs = n.vs
    BY DEF TypeOK, NodeRow
  <2>2. nodes' = (nodes \ {n}) \cup {d}
    BY <1>2 DEF UpdateNode
  <2> HIDE DEF d
  <2> QED BY <2>1, <2>2
<1>3. ASSUME NEW s \in Serials, DeleteNode(s) PROVE UniqueNodes'
  BY <1>3 DEF DeleteNode
<1>4. ASSUME NEW s \in Serials, Hello(s) PROVE UniqueNodes'
  <2> DEFINE F(n) == [n EXCEPT !.fresh = @ \/ n.serial = s]
  <2>1. \A n \in nodes : F(n).serial = n.serial /\ F(n).vs = n.vs
    BY DEF TypeOK, NodeRow
  <2>2. nodes' = {F(n) : n \in nodes}
    BY <1>4 DEF Hello
  <2> HIDE DEF F
  <2> QED BY <2>1, <2>2
<1>5. ASSUME NEW s \in Serials, Silence(s) PROVE UniqueNodes'
  <2> DEFINE F(n) == [n EXCEPT !.fresh = @ /\ n.serial # s]
  <2>1. \A n \in nodes : F(n).serial = n.serial /\ F(n).vs = n.vs
    BY DEF TypeOK, NodeRow
  <2>2. nodes' = {F(n) : n \in nodes}
    BY <1>5 DEF Silence
  <2> HIDE DEF F
  <2> QED BY <2>1, <2>2
<1> QED BY <1>1, <1>2, <1>3, <1>4, <1>5, NodesFrame DEF NodeStep

\* So do the operations on the other tables.
LEMMA NamesUniqueStep ==
    ASSUME TypeOK, KeysUnique, [Next]_vars
    PROVE  /\ UniqueNames(endpoints)' /\ UniqueNames(groups)'
           /\ UniqueNames(proxies)' /\ UniqueIds'
<1> USE DEF KeysUnique
<1>1. UniqueNames(endpoints)'
  <2>1. ASSUME NEW c \in ConfigRow, CreateEndpointConfig(c) PROVE UniqueNames(endpoints')
    BY <2>1, NewName DEF CreateEndpointConfig, ConfigExists
  <2>2. ASSUME NEW c \in endpoints, NEW e \in ConfigNames, NEW x \in Settings,
               UpdateEndpointConfig(c, e, x)
        PROVE  UniqueNames(endpoints')
    <3> DEFINE d == [c EXCEPT !.name = e, !.setting = x]
    <3>1. d.name = e /\ d.vs = c.vs
      BY DEF TypeOK, ConfigRow
    <3>2. \A r \in endpoints \ {c} : ~(r.name = d.name /\ r.vs = d.vs)
      BY <2>2, <3>1 DEF UpdateEndpointConfig, ConfigExists, UniqueNames
    <3>3. endpoints' = (endpoints \ {c}) \cup {d}
      BY <2>2 DEF UpdateEndpointConfig
    <3> HIDE DEF d
    <3>4. UniqueNames(endpoints \ {c})
      BY FewerNames
    <3> QED BY <3>2, <3>3, <3>4, NewName
  <2>3. ASSUME NEW c \in endpoints, DeleteEndpointConfig(c) PROVE UniqueNames(endpoints')
    BY <2>3, FewerNames DEF DeleteEndpointConfig
  <2>4. UniqueNames(endpoints')
    BY <2>1, <2>2, <2>3, OneTable DEF EndpointStep
  <2> QED BY <2>4 DEF UniqueNames
<1>2. UniqueNames(groups)'
  <2>1. ASSUME NEW g \in GroupRow, CreateGroup(g) PROVE UniqueNames(groups')
    BY <2>1, NewName DEF CreateGroup, GroupExists
  <2>2. ASSUME NEW g \in groups, NEW v \in Versions, NEW e \in ConfigNames, UpdateGroup(g, v, e)
        PROVE  UniqueNames(groups')
    <3> DEFINE d == [g EXCEPT !.vs = v, !.endpoint = e]
    <3>1. d.name = g.name /\ d.vs = v
      BY DEF TypeOK, GroupRow
    <3>2. \A r \in groups \ {g} : ~(r.name = d.name /\ r.vs = d.vs)
      BY <2>2, <3>1 DEF UpdateGroup, GroupExists, UniqueNames
    <3>3. groups' = (groups \ {g}) \cup {d}
      BY <2>2 DEF UpdateGroup
    <3> HIDE DEF d
    <3>4. UniqueNames(groups \ {g})
      BY FewerNames
    <3> QED BY <3>2, <3>3, <3>4, NewName
  <2>3. ASSUME NEW g \in groups, DeleteGroup(g) PROVE UniqueNames(groups')
    BY <2>3, FewerNames DEF DeleteGroup
  <2>4. UniqueNames(groups')
    BY <2>1, <2>2, <2>3, OneTable DEF GroupStep
  <2> QED BY <2>4 DEF UniqueNames
<1>3. UniqueNames(proxies)'
  <2>1. ASSUME NEW p \in ProxyRow, CreateProxy(p) PROVE UniqueNames(proxies')
    BY <2>1, NewName DEF CreateProxy, ProxyExists
  <2>2. ASSUME NEW p \in proxies, NEW x \in Settings, UpdateProxy(p, x)
        PROVE  UniqueNames(proxies')
    <3> DEFINE d == [p EXCEPT !.setting = x]
    <3>1. d.name = p.name /\ d.vs = p.vs
      BY DEF TypeOK, ProxyRow
    <3>2. \A r \in proxies \ {p} : ~(r.name = d.name /\ r.vs = d.vs)
      BY <3>1 DEF UniqueNames
    <3>3. proxies' = (proxies \ {p}) \cup {d}
      BY <2>2 DEF UpdateProxy
    <3> HIDE DEF d
    <3>4. UniqueNames(proxies \ {p})
      BY FewerNames
    <3> QED BY <3>2, <3>3, <3>4, NewName
  <2>3. ASSUME NEW p \in proxies, DeleteProxy(p) PROVE UniqueNames(proxies')
    BY <2>3, FewerNames DEF DeleteProxy
  <2>4. UniqueNames(proxies')
    BY <2>1, <2>2, <2>3, OneTable DEF ProxyStep
  <2> QED BY <2>4 DEF UniqueNames
<1>4. UniqueIds'
  <2> USE DEF UniqueIds
  <2>1. ASSUME NEW h \in HwRow, CreateHardwareConfig(h) PROVE UniqueIds'
    BY <2>1 DEF CreateHardwareConfig
  <2>2. ASSUME NEW h \in hwConfigs, NEW v \in Versions, UpdateHardwareConfig(h, v)
        PROVE  UniqueIds'
    <3> DEFINE d == [h EXCEPT !.vs = v]
    <3>1. d.id = h.id
      BY DEF TypeOK, HwRow
    <3>2. hwConfigs' = (hwConfigs \ {h}) \cup {d}
      BY <2>2 DEF UpdateHardwareConfig
    <3> HIDE DEF d
    <3> QED BY <3>1, <3>2
  <2>3. ASSUME NEW h \in hwConfigs, DeleteHardwareConfig(h) PROVE UniqueIds'
    BY <2>3 DEF DeleteHardwareConfig
  <2> QED BY <2>1, <2>2, <2>3, OneTable DEF HwStep
<1> QED BY <1>1, <1>2, <1>3, <1>4

\* No two rows of a table have the same key, whatever was renamed or moved; so a
\* reference leads to one row, and a join finds one partner.
THEOREM KeysStayUnique == Spec => []KeysUnique
<1>1. Init => KeysUnique
  BY DEF Init, KeysUnique, UniqueNames, UniqueNodes, UniqueIds
<1>2. TypeOK /\ KeysUnique /\ [Next]_vars => KeysUnique'
  BY NodesUniqueStep, NamesUniqueStep DEF KeysUnique
<1> QED BY <1>1, <1>2, StoreTypes, PTL DEF Spec

=============================================================================
