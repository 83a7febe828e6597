------------------------------ MODULE Commands ------------------------------
(***************************************************************************)
(* The commands of the command line (src/cmd/cli), each a process of its   *)
(* own that makes one call, and the handlers of the southbound service     *)
(* that answer them (src/control/service/southbound), with the statements  *)
(* those run (src/control/db).                                             *)
(*                                                                         *)
(* Commands on different tables meet in foreign keys only, and a refusal   *)
(* by the database is always possible.  So a behaviour has one table, and  *)
(* of it the one row that the commands are about, or Absent.  The value    *)
(* that command c gives for a column is c itself, "default" is the default *)
(* of a flag ("", 0, false, the state true of a proxy), "null" is NULL.    *)
(*                                                                         *)
(* A call is what the flags make of a command: the operation, the key that *)
(* it names its row by, the columns whose flags were given, and those of   *)
(* them that were given empty, as "" or 0.  Empty values are told apart in *)
(* the columns where they are dropped on the way; in the others an empty   *)
(* value is written, or refused, like any other.                           *)
(***************************************************************************)
EXTENDS Integers, FiniteSets

CONSTANTS
  Cmds,         \* processes of the command line
  Tables,       \* the tables that a behaviour may be about
  MaxGiven      \* bound: columns given to an update of each table

\* The columns that commands have flags for, table by table.
nodeFlags == {"network_index", "locality"}
proxyFlags == {"state", "proxy_type", "server_endpoint_addr", "client_endpoint_addr"}
groupFlags == {"log_level", "endpoint_config_name", "legacy_config_name"}
endpointFlags == {"name", "mutual_auth", "cipher"}
hwConfigFlags == {"device", "ip_cidr", "version_set_id"}
versionSetFlags == {"name", "description"}

Flags ==
  [nodes            |-> nodeFlags,     proxies          |-> proxyFlags,
   groups           |-> groupFlags,    endpoint_configs |-> endpointFlags,
   hardware_configs |-> hwConfigFlags, version_sets     |-> versionSetFlags]

\* The columns whose empty values the handler of an update drops.
DropsEmpty(t) ==
  IF t = "nodes" THEN nodeFlags ELSE IF t = "version_sets" THEN versionSetFlags ELSE {}

Keys == {"id", "name", "serial", "version", "none"}

ASSUME CommandsAssumption ==
  /\ Tables \subseteq DOMAIN Flags /\ MaxGiven \in [DOMAIN Flags -> Nat]
  /\ Cmds \cap {"old", "default", "null"} = {}

Call(op, by, given) == [op |-> op, by |-> by, given |-> given, empty |-> {}]
Subsets(t) == {g \in SUBSET Flags[t] : Cardinality(g) <= MaxGiven[t]}
Updates(t, keys) ==
  UNION {{[Call("update", k, g) EXCEPT !.empty = e] : e \in SUBSET (g \cap DropsEmpty(t))} :
           k \in keys, g \in Subsets(t)}
Reads(op, keys) == {Call(op, k, {}) : k \in keys}

-----------------------------------------------------------------------------
(* The calls that the command line makes, one definition for each command. *)
(* A command that refuses its flags itself makes none.                     *)

createNodeCmd == {Call("create", "none", g) : g \in {{"network_index"}, Flags.nodes}}
readNodeCmd == Reads("read", {"id", "name"})
\* index and locality are always sent: the handler tells by their defaults.
updateNodeCmd == Updates("nodes", {"id", "name"})
\* has no flags for what the handler needs
deleteNodeCmd == Reads("delete", {"none"})
listNodesCmd == Reads("list", {"none", "version"})

createProxyCmd == {Call("create", "none", Flags.proxies)}
readProxyCmd == Reads("read", {"id", "name", "serial", "version", "none"})
\* An empty type is as if its flag was not given.
updateProxyCmd == Updates("proxies", {"id", "name"})
deleteProxyCmd == Reads("delete", {"id"})
\* lists a version by a query for a name, which is empty
listProxiesCmd == Reads("list", {"none", "name"})

createGroupCmd ==
  {Call("create", "none", g) : g \in {Flags.groups, Flags.groups \ {"legacy_config_name"}}}
\* has no flag for the id; without a name the request has no query
readGroupCmd == Reads("read", {"name", "none"})
updateGroupCmd == Updates("groups", {"id", "name"})
deleteGroupCmd == Reads("delete", {"id"})
listGroupsCmd == Reads("list", {"none", "version"})

createEndpointCmd == {Call("create", "none", g) : g \in {{"name"}, Flags.endpoint_configs}}
readEndpointCmd == Reads("read", {"id", "name"})
\* the flag for the name is required, so the name is sent, by its id too
updateEndpointCmd ==
  {Call("update", k, g \cup {"name"}) : k \in {"id", "name"},
                                        g \in Subsets("endpoint_configs")}
deleteEndpointCmd == Reads("delete", {"id"})
listEndpointsCmd == Reads("list", {"none", "version"})

createHwConfigCmd == {Call("create", "none", Flags.hardware_configs)}
readHwConfigCmd == Reads("read", {"serial", "version", "none"})
updateHwConfigCmd == Updates("hardware_configs", {"id"})
deleteHwConfigCmd == Reads("delete", {"id"})
listHwConfigsCmd == Reads("list", {"version"})

createVersionSetCmd == {Call("create", "none", g) : g \in {{"name"}, Flags.version_sets}}
readVersionSetCmd == Reads("read", {"id"})
updateVersionSetCmd == Updates("version_sets", {"id"})
deleteVersionSetCmd == Reads("delete", {"id"})
listVersionSetsCmd == Reads("list", {"none"})

cert_req == Reads("cert_req", {"serial"})
cert_fleet == Reads("fleet_cert_req", {"version"})
bootstrapCmd == {Call("bootstrap", "none", Flags.version_sets)}
resetCmd == Reads("reset", {"none"})

\* ActivateVersionSet and DisableVersionSet, for other clients of the service.
setStateCall == Reads("set_state", {"id"})

CallsOn ==
  [nodes            |-> createNodeCmd \cup readNodeCmd \cup updateNodeCmd
                          \cup deleteNodeCmd \cup listNodesCmd \cup cert_req \cup cert_fleet,
   proxies          |-> createProxyCmd \cup readProxyCmd \cup updateProxyCmd
                          \cup deleteProxyCmd \cup listProxiesCmd,
   groups           |-> createGroupCmd \cup readGroupCmd \cup updateGroupCmd
                          \cup deleteGroupCmd \cup listGroupsCmd,
   endpoint_configs |-> createEndpointCmd \cup readEndpointCmd \cup updateEndpointCmd
                          \cup deleteEndpointCmd \cup listEndpointsCmd,
   hardware_configs |-> createHwConfigCmd \cup readHwConfigCmd \cup updateHwConfigCmd
                          \cup deleteHwConfigCmd \cup listHwConfigsCmd,
   version_sets     |-> createVersionSetCmd \cup readVersionSetCmd \cup updateVersionSetCmd
                          \cup deleteVersionSetCmd \cup listVersionSetsCmd \cup setStateCall]

Processes(t) == CallsOn[t] \cup bootstrapCmd \cup resetCmd

NoCall == Call("none", "none", {})
Absent == [id |-> "absent"]
Values == Cmds \cup {"old", "default", "null"}
Columns(t) ==
  Flags[t] \cup {"id"} \cup (CASE t = "nodes" -> {"last_seen"}
                             [] t = "version_sets" -> {"state"}
                             [] OTHER -> {})
Row(t) == [Columns(t) -> Values]

VARIABLES
  table,        \* the table of this behaviour
  schema,       \* the tables exist
  row,          \* the row that the commands are about, or Absent
  server,       \* the process of the server: "up" or "dead"
  call,         \* call[c]: the call of command c
  target,       \* target[c]: the id that it names
  pc,           \* where the work for c stands
  ans,          \* the handler's answer to c
  exit          \* how the process of c ended

vars == <<table, schema, row, server, call, target, pc, ans, exit>>
dbVars == <<table, schema>>

OnServer(c) == call[c].op \notin {"none", "bootstrap", "reset"}
Op(c) == call[c].op
Given(c) == call[c].given
\* The columns given with a value that is not dropped on the way.
Kept(c) == call[c].given \ call[c].empty
By(c) == call[c].by

-----------------------------------------------------------------------------
(* What a call writes. *)

\* The name of an endpoint configuration is the key too, and "old" is the name
\* that commands know.
Value(c, col) ==
  IF table = "endpoint_configs" /\ col = "name" /\ By(c) # "id" THEN "old"
  ELSE IF col \in Given(c) THEN c ELSE "default"

Exists == row # Absent
Found(c) ==
  /\ Exists
  /\ By(c) = "id" => row.id = target[c]
  /\ table = "endpoint_configs" /\ By(c) = "name" => row.name = "old"

\* Per table: the columns that the handler of an update writes, and whether
\* the statement it makes of them is one that the database accepts.
Statement(cols, valid) == [cols |-> cols, valid |-> valid]

\* Index 0 and locality "" are dropped, given or not, and a statement without
\* columns fails; the query by serial number lacks quotes.
UpdateNode(c) == Statement(Kept(c), By(c) = "id" /\ Kept(c) # {})

\* The state and both addresses are always sent.
UpdateProxy(c) == Statement(Kept(c) \cup (Flags.proxies \ {"proxy_type"}), TRUE)

\* The query by name lacks quotes; there is no column legacy_config_id.
UpdateGroup(c) ==
  Statement(Given(c), By(c) = "id" /\ "legacy_config_name" \notin Given(c))

\* Variant: every flag is sent, given or not.
UpdateEndpointAlways(c) == Statement(Flags.endpoint_configs, TRUE)

UpdateEndpointConfig(c) == Statement(Given(c), TRUE)

\* All three are always sent, but "" is neither a UUID nor an address.
UpdateHardwareConfig(c) ==
  Statement(Flags.hardware_configs, {"ip_cidr", "version_set_id"} \subseteq Given(c))

\* A name or a description "" is dropped, given or not.
UpdateVersionSet(c) == Statement(Kept(c), TRUE)

UpdateOf(c) ==
  CASE table = "nodes"            -> UpdateNode(c)
    [] table = "proxies"          -> UpdateProxy(c)
    [] table = "groups"           -> UpdateGroup(c)
    [] table = "endpoint_configs" -> UpdateEndpointConfig(c)
    [] table = "hardware_configs" -> UpdateHardwareConfig(c)
    [] OTHER                      -> UpdateVersionSet(c)

\* With nothing left, an update of a version set makes no statement.
NoStatement(c) == table = "version_sets" /\ Op(c) = "update" /\ Kept(c) = {}

\* The row that a creation inserts: "" for a description is NULL, a node has
\* not been seen yet.
NewRow(c) ==
  [col \in Columns(table) |->
     CASE col = "id" -> c
       [] col = "last_seen" -> "null"
       [] col = "description" /\ col \notin Given(c) -> "null"
       [] OTHER -> Value(c, col)]

\* Without a legacy configuration the foreign key is "", which names no row.
CreateGroup(c) == "legacy_config_name" \in Given(c)

-----------------------------------------------------------------------------
(* A process of the command line. *)

\* Bound: a second hardware configuration or version set would be a second row.
OneRow(k) ==
  k.op \in {"create", "bootstrap"} /\ table \in {"hardware_configs", "version_sets"} =>
    ~Exists /\ \A d \in Cmds : Op(d) \notin {"create", "bootstrap"}

Begin(c, k) ==
  /\ pc[c] = "idle"
  /\ OneRow(k)
  /\ call' = [call EXCEPT ![c] = k]
  /\ target' = [target EXCEPT ![c] = row.id]
  /\ pc' = [pc EXCEPT ![c] = "called"]
  /\ UNCHANGED <<dbVars, row, server, ans, exit>>

\* The command's timeout passes, or the server is gone: it ends with an error,
\* and what the handler has begun goes on.
GiveUp(c) ==
  /\ OnServer(c) /\ exit[c] = "none"
  /\ exit' = [exit EXCEPT ![c] = "error"]
  /\ UNCHANGED <<dbVars, row, server, call, target, pc, ans>>

TakeAnswer(c) ==
  /\ OnServer(c) /\ exit[c] = "none" /\ pc[c] = "answered"
  /\ exit' = [exit EXCEPT ![c] = ans[c]]
  /\ UNCHANGED <<dbVars, row, server, call, target, pc, ans>>

-----------------------------------------------------------------------------
(* The handlers.  One transaction is one step. *)

Answer(c, a) ==
  /\ pc' = [pc EXCEPT ![c] = "answered"]
  /\ ans' = [ans EXCEPT ![c] = a]
Continue(c, where) == pc' = [pc EXCEPT ![c] = where] /\ UNCHANGED ans

Handling(c, op) == server = "up" /\ pc[c] = "called" /\ Op(c) = op
CallFrame == UNCHANGED <<dbVars, call, target, exit>>

\* Variant: the columns are written one by one, each in its own transaction.
RefuseHalfWay(c) ==
  /\ server = "up" /\ pc[c] = "called" /\ OnServer(c) /\ ~NoStatement(c)
  /\ Answer(c, "error")
  /\ IF Op(c) = "update" /\ schema /\ UpdateOf(c).valid /\ Found(c)
     THEN \E col \in UpdateOf(c).cols : row' = [row EXCEPT ![col] = Value(c, col)]
     ELSE UNCHANGED row
  /\ UNCHANGED server /\ CallFrame

\* The handler refuses the call, or the database the statement.
Refuse(c) ==
  /\ server = "up" /\ pc[c] = "called" /\ OnServer(c) /\ ~NoStatement(c)
  /\ Answer(c, "error")
  /\ UNCHANGED <<row, server>> /\ CallFrame

\* No row to update is no error.  An endpoint configuration is updated by its
\* id in a first transaction.
UpdateRow(c) ==
  LET u == UpdateOf(c) IN
  /\ Handling(c, "update")
  /\ NoStatement(c) \/ (schema /\ u.valid)
  /\ row' = IF Found(c)
            THEN [col \in Columns(table) |->
                    IF col \in u.cols THEN Value(c, col) ELSE row[col]]
            ELSE row
  /\ IF table = "endpoint_configs" /\ By(c) = "id" THEN Continue(c, "again")
     ELSE Answer(c, "ok")
  /\ UNCHANGED server /\ CallFrame

\* Line 156 of endpoint.go: the second statement has no condition, and fails.
UpdateAgain(c) ==
  /\ server = "up" /\ pc[c] = "again"
  /\ Answer(c, "error")
  /\ UNCHANGED <<row, server>> /\ CallFrame

CreateRow(c) ==
  /\ Handling(c, "create") /\ schema /\ ~Exists
  /\ table = "groups" => CreateGroup(c)
  /\ row' = NewRow(c)
  /\ IF table = "version_sets" THEN Continue(c, "fetch") ELSE Answer(c, "ok")
  /\ UNCHANGED server /\ CallFrame

\* DeleteNode is sent no version set, and refuses every call.
DeleteRow(c) ==
  /\ Handling(c, "delete") /\ schema /\ table # "nodes"
  /\ row' = IF Found(c) THEN Absent ELSE row
  /\ Answer(c, "ok")
  /\ UNCHANGED server /\ CallFrame

\* The state of a version set is set and then, as after its creation, the row
\* is read again in a transaction of its own.
ActivateVersionSet(c) ==
  /\ Handling(c, "set_state") /\ schema
  /\ row' = IF Found(c) THEN [row EXCEPT !.state = c] ELSE row
  /\ Continue(c, "fetch")
  /\ UNCHANGED server /\ CallFrame

\* Converting a row to a response reads through its description.
ConvertVersionSet(c) ==
  IF row.description = "null" THEN server' = "dead" /\ UNCHANGED <<pc, ans>>
  ELSE Answer(c, "ok") /\ UNCHANGED server

GetVersionSetByID(c) ==
  /\ server = "up" /\ pc[c] = "fetch"
  /\ \/ Answer(c, "error") /\ UNCHANGED server
     \/ /\ schema /\ Exists
        /\ row.id = IF Op(c) = "create" THEN c ELSE target[c]
        /\ ConvertVersionSet(c)
  /\ UNCHANGED row /\ CallFrame

-----------------------------------------------------------------------------
(* The handlers that read: "ok", "error", or "panic". *)

OkIf(b) == IF b THEN "ok" ELSE "error"

GetNode(c) == OkIf(Found(c))
\* The query by serial number asks for a column that is not there.
GetProxy(c) == OkIf(By(c) \in {"version", "none"} \/ (By(c) # "serial" /\ Found(c)))
\* Without a query there is no group, and its conversion reads through nil.
GetGroup(c) == IF By(c) = "none" THEN "panic" ELSE OkIf(Found(c))
\* Variant: the error of the query is not looked at.
GetEndpointAnyhow(c) == IF Found(c) THEN "ok" ELSE "panic"
GetEndpointConfig(c) == OkIf(Found(c))
\* Lists of rows, which may be empty.
GetHardwareConfig(c) == "ok"
GetVersionSet(c) ==
  IF ~Found(c) THEN "error" ELSE IF row.description = "null" THEN "panic" ELSE "ok"
ListVersionSets(c) == IF Exists /\ row.description = "null" THEN "panic" ELSE "ok"
\* A list of proxies of a version asks for a name that no proxy has.
ListOf(c) ==
  CASE table = "version_sets" -> ListVersionSets(c)
    [] table = "proxies" -> OkIf(By(c) = "none")
    [] OTHER -> "ok"

ReadOf(c) ==
  CASE table = "nodes"            -> GetNode(c)
    [] table = "proxies"          -> GetProxy(c)
    [] table = "groups"           -> GetGroup(c)
    [] table = "endpoint_configs" -> GetEndpointConfig(c)
    [] table = "hardware_configs" -> GetHardwareConfig(c)
    [] OTHER                      -> GetVersionSet(c)

\* What becomes of the request to a node is not looked at.
TriggerCertReq(c) == "ok"
\* The time a node was seen is read through, NULL or not.
TriggerFleetCertReq(c) == IF Exists /\ row.last_seen = "null" THEN "panic" ELSE "ok"

ResultOf(c) ==
  CASE Op(c) = "read"     -> ReadOf(c)
    [] Op(c) = "list"     -> ListOf(c)
    [] Op(c) = "cert_req" -> TriggerCertReq(c)
    [] OTHER              -> TriggerFleetCertReq(c)

\* A panic in a handler ends the process of the server.
Serve(c) ==
  LET r == ResultOf(c) IN
  /\ server = "up" /\ pc[c] = "called"
  /\ Op(c) \in {"read", "list", "cert_req", "fleet_cert_req"}
  /\ schema \/ Op(c) = "cert_req" \/ r = "panic"
  /\ IF r = "panic" THEN server' = "dead" /\ UNCHANGED <<pc, ans>>
     ELSE Answer(c, r) /\ UNCHANGED server
  /\ UNCHANGED row /\ CallFrame

-----------------------------------------------------------------------------
(* Commands that work on the database themselves, and the hellos of nodes. *)

End(c, r) ==
  /\ pc' = [pc EXCEPT ![c] = "over"]
  /\ exit' = [exit EXCEPT ![c] = r]
Step(c, to) == pc' = [pc EXCEPT ![c] = to] /\ UNCHANGED exit
Local(c, op, at) == Op(c) = op /\ pc[c] = at
LocalFrame == UNCHANGED <<table, server, call, target, ans>>

\* Each step of bootstrap is a transaction, and the first that fails ends it.
BootstrapFails(c) ==
  /\ Op(c) \in {"bootstrap", "reset"} /\ pc[c] # "over"
  /\ End(c, "error")
  /\ UNCHANGED <<schema, row>> /\ LocalFrame

\* The types that it creates must not be there yet: no second bootstrap.
InitializeSchema(c) ==
  /\ Local(c, "bootstrap", "called") /\ ~schema
  /\ schema' = TRUE
  /\ Step(c, "version")
  /\ UNCHANGED row /\ LocalFrame

CreateVersionSet(c) ==
  /\ Local(c, "bootstrap", "version") /\ schema
  /\ row' = IF table = "version_sets" THEN NewRow(c) ELSE row
  /\ Step(c, "transition")
  /\ UNCHANGED schema /\ LocalFrame

CreateVersionTransition(c) ==
  /\ Local(c, "bootstrap", "transition") /\ schema
  /\ End(c, "ok")
  /\ UNCHANGED <<schema, row>> /\ LocalFrame

\* Drops every table, with the server at work or not.
ResetDatabase(c) ==
  /\ Local(c, "reset", "called")
  /\ schema' = FALSE
  /\ row' = Absent
  /\ End(c, "ok")
  /\ LocalFrame

Hello ==
  /\ server = "up" /\ table = "nodes" /\ Exists
  /\ row.last_seen = "null"
  /\ row' = [row EXCEPT !.last_seen = "old"]
  /\ UNCHANGED <<dbVars, server, call, target, pc, ans, exit>>

-----------------------------------------------------------------------------
OldRows(t) ==
  {r \in [Columns(t) -> {"old", "null"}] :
     \A col \in Columns(t) \ {"last_seen", "description"} : r[col] = "old"}

Init ==
  /\ table \in Tables
  /\ schema \in BOOLEAN
  /\ row \in {Absent} \cup (IF schema THEN OldRows(table) ELSE {})
  /\ server = "up"
  /\ call = [c \in Cmds |-> NoCall]
  /\ target = [c \in Cmds |-> "absent"]
  /\ pc = [c \in Cmds |-> "idle"]
  /\ ans = [c \in Cmds |-> "none"]
  /\ exit = [c \in Cmds |-> "none"]

Client(c) ==
  \/ pc[c] = "idle" /\ \E k \in Processes(table) : Begin(c, k)
  \/ GiveUp(c) \/ TakeAnswer(c)
Handler(c) ==
  \/ Refuse(c) \/ UpdateRow(c) \/ UpdateAgain(c) \/ CreateRow(c) \/ DeleteRow(c)
  \/ ActivateVersionSet(c) \/ GetVersionSetByID(c) \/ Serve(c)
LocalCommand(c) ==
  \/ BootstrapFails(c) \/ InitializeSchema(c) \/ CreateVersionSet(c)
  \/ CreateVersionTransition(c) \/ ResetDatabase(c)

Next == Hello \/ \E c \in Cmds : Client(c) \/ Handler(c) \/ LocalCommand(c)

Spec == Init /\ [][Next]_vars

-----------------------------------------------------------------------------
(* Properties. *)

Stages == {"idle", "called", "again", "fetch", "answered", "version",
           "transition", "over"}

\* Every variable keeps its type; without a schema there is no row.
TypeOK ==
  /\ table \in Tables /\ schema \in BOOLEAN
  /\ row \in Row(table) \cup {Absent}
  /\ server \in {"up", "dead"}
  /\ call \in [Cmds -> Processes(table) \cup {NoCall}]
  /\ target \in [Cmds -> Values \cup {"absent"}]
  /\ pc \in [Cmds -> Stages]
  /\ ans \in [Cmds -> {"none", "ok", "error"}]
  /\ exit \in [Cmds -> {"none", "ok", "error"}]
  /\ ~schema => row = Absent

\* Columns that a call resets to their default when their flags are not given.
ResetUngiven ==
  IF table = "proxies" THEN Flags.proxies \ {"proxy_type"}
  ELSE IF table = "hardware_configs" THEN {"device"} ELSE {}

\* A row that stays changes only in columns for which some command was given a
\* value, to the value that it gave; the exceptions are the columns that the
\* proxy and hardware commands reset when they are not given.
GivenOnly ==
  [][row # Absent /\ row' # Absent =>
       \A col \in Flags[table] : row'[col] # row[col] =>
         \E c \in Cmds : Op(c) = "update" /\
           \/ col \in Kept(c) /\ row'[col] = c
           \/ col \in ResetUngiven /\ row'[col] = "default"]_vars

\* Command d may have changed what command c wrote in column col: it creates a
\* row, it updates that column too, or it renames the row that c asks for.
MayChange(d, c, col) ==
  \/ Op(d) = "create" \/ (Op(d) = "bootstrap" /\ table = "version_sets")
  \/ Op(d) = "update" /\ col \in Kept(d) \cup ResetUngiven
  \/ Op(d) = "update" /\ table = "endpoint_configs" /\ By(d) = "id" /\ By(c) = "name"

Holds(c, col) == row[col] = Value(c, col) \/ \E d \in Cmds \ {c} : MayChange(d, c, col)

\* A command that ends well has had its effect: the row, if it is there, holds
\* the values that the command gave until another one changes them; empty ones
\* that its table drops set aside.
OkIsKept ==
  \A c \in Cmds : exit[c] = "ok" /\ Op(c) = "update" /\ Exists =>
    \A col \in Kept(c) : Holds(c, col)

\* A call that is answered with an error has changed nothing.  Two answers are
\* not so: an endpoint configuration updated by its id, and a version set that
\* could not be read again after it was created or its state was set.
ErrorIsUndone ==
  \A c \in Cmds : ans[c] = "error" /\ Exists =>
    \/ table = "endpoint_configs" /\ Op(c) = "update" /\ By(c) = "id"
    \/ table = "version_sets" /\ Op(c) \in {"create", "set_state"}
    \/ \A col \in Columns(table) : row[col] # c

\* Whatever becomes of an update, its answer and its process, it is never there
\* by half: with one of its values in the row are all that it gave.
UpdateIsWhole ==
  \A c \in Cmds : Op(c) = "update" /\ Exists /\ (\E col \in Columns(table) : row[col] = c) =>
    \A col \in Kept(c) : Holds(c, col)

AnswerIsTrue == OkIsKept /\ ErrorIsUndone /\ UpdateIsWhole

\* A call of the command line kills the server in three cases only: a version set
\* without a description, a group asked for without a name, and certificates for
\* a version with a node that never said hello.
CrashIsExplained ==
  [][server' # server =>
       \/ table = "version_sets" /\ row.description = "null"
       \/ \E c \in Cmds : table = "groups" /\ call[c] = Call("read", "none", {})
       \/ \E c \in Cmds : Op(c) = "fleet_cert_req" /\ row.last_seen = "null"]_vars

=============================================================================
