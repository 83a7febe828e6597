--------------------------- MODULE CommandsProofs ---------------------------
(***************************************************************************)
(* Proofs about Commands, for any number of processes and any bounds.      *)
(***************************************************************************)
EXTENDS Commands, TLAPS

Creates(d) == Op(d) = "create" \/ (Op(d) = "bootstrap" /\ table = "version_sets")

\* Answers of an error although the call had an effect.
Excepted(c) ==
  \/ table = "endpoint_configs" /\ Op(c) = "update" /\ By(c) = "id"
  \/ table = "version_sets" /\ Op(c) \in {"create", "set_state"}

\* What the stage of a process says of its call and its answer.
StageInv ==
  \A c \in Cmds :
    /\ pc[c] = "idle" => call[c] = NoCall /\ exit[c] = "none"
    /\ pc[c] = "fetch" => table = "version_sets" /\ Op(c) \in {"create", "set_state"}
    /\ pc[c] = "again" => table = "endpoint_configs" /\ Op(c) = "update" /\ By(c) = "id"
    /\ ans[c] # "none" => pc[c] = "answered" /\ OnServer(c)
    /\ exit[c] = "ok" /\ OnServer(c) => ans[c] = "ok"

\* One process at most creates a version set, and until a bootstrap has done so
\* there is none.
CreatorInv ==
  table = "version_sets" =>
    /\ \A c, d \in Cmds : Creates(c) /\ Creates(d) => c = d
    /\ \A c \in Cmds :
         Op(c) = "bootstrap" /\ pc[c] \in {"called", "version"} => row = Absent

\* Where the row comes from: it was there from the start, and then everyone who
\* named it by its id named this row; or a process created it.
OriginInv ==
  Exists =>
    /\ row.id = "old" \/ \E d \in Cmds : row.id = d /\ Creates(d)
    /\ row.id = "old" => \A c \in Cmds : pc[c] # "idle" => target[c] = "old"
    /\ row.id = "old" /\ table = "endpoint_configs" /\ row.name # "old" =>
         \E d \in Cmds : Op(d) = "update" /\ By(d) = "id"

\* Who has a value in the row has had a statement committed.
MarkInv ==
  Exists => \A c \in Cmds, col \in Columns(table) : row[col] = c =>
    pc[c] \notin {"idle", "called"} /\ (ans[c] = "error" => Excepted(c))

\* What an update has answered for is in the row, or another may change it.
KeptInv ==
  Exists /\ row.id = "old" =>
    \A c \in Cmds : ans[c] = "ok" /\ Op(c) = "update" =>
      \A col \in Kept(c) : Holds(c, col)

IInv ==
  TypeOK /\ StageInv /\ CreatorInv /\ OriginInv /\ MarkInv /\ KeptInv /\ UpdateIsWhole

-----------------------------------------------------------------------------
(* The shapes of calls and rows. *)

\* An update: some columns of the table, of which those may be empty that its
\* handler then drops.
LEMMA UpdateShape ==
  ASSUME NEW t, NEW keys, NEW u \in Updates(t, keys)
  PROVE  /\ u.op = "update" /\ u.by \in keys
         /\ u.given \subseteq Flags[t] /\ u.empty \subseteq DropsEmpty(t)
  <1>1. PICK k \in keys, g \in Subsets(t) :
          u \in {[Call("update", k, g) EXCEPT !.empty = e] : e \in SUBSET (g \cap DropsEmpty(t))}
    BY DEF Updates
  <1>2. PICK e \in SUBSET (g \cap DropsEmpty(t)) :
          u = [[op |-> "update", by |-> k, given |-> g, empty |-> {}] EXCEPT !.empty = e]
    BY <1>1 DEF Call
  <1>3. u.op = "update" /\ u.by = k /\ u.given = g /\ u.empty = e
    BY <1>2
  <1> QED BY <1>2, <1>3 DEF Subsets

\* What the flags of each command let through.
LEMMA CallShapes ==
  ASSUME NEW t \in DOMAIN Flags, NEW k \in Processes(t)
  PROVE  /\ k.op # "none"
         /\ k.op # "bootstrap" => k.given \subseteq Flags[t]
         /\ k.op = "set_state" => t = "version_sets"
         /\ k.op = "update" => k.by \in {"id", "name"} /\ k.empty \subseteq DropsEmpty(t)
         /\ t = "groups" /\ k.op = "read" /\ k.by = "none" => k = Call("read", "none", {})
  <1>1. CASE k \in bootstrapCmd \cup resetCmd
    BY <1>1 DEF bootstrapCmd, resetCmd, Reads, Call
  <1>2. CASE k \in CallsOn[t]
    <2> USE UpdateShape DEF Reads, Call, Subsets, Flags
    <2>1. CASE t = "nodes"
      BY <1>2, <2>1 DEF CallsOn, createNodeCmd, readNodeCmd, updateNodeCmd,
         deleteNodeCmd, listNodesCmd, cert_req, cert_fleet, nodeFlags
    <2>2. CASE t = "proxies"
      BY <1>2, <2>2 DEF CallsOn, createProxyCmd, readProxyCmd, updateProxyCmd,
         deleteProxyCmd, listProxiesCmd, proxyFlags
    <2>3. CASE t = "groups"
      BY <1>2, <2>3 DEF CallsOn, createGroupCmd, readGroupCmd, updateGroupCmd,
         deleteGroupCmd, listGroupsCmd, groupFlags
    <2>4. CASE t = "endpoint_configs"
      BY <1>2, <2>4 DEF CallsOn, createEndpointCmd, readEndpointCmd,
         updateEndpointCmd, deleteEndpointCmd, listEndpointsCmd, endpointFlags
    <2>5. CASE t = "hardware_configs"
      BY <1>2, <2>5 DEF CallsOn, createHwConfigCmd, readHwConfigCmd,
         updateHwConfigCmd, deleteHwConfigCmd, listHwConfigsCmd, hwConfigFlags
    <2>6. CASE t = "version_sets"
      BY <1>2, <2>6 DEF CallsOn, createVersionSetCmd, readVersionSetCmd,
         updateVersionSetCmd, deleteVersionSetCmd, listVersionSetsCmd,
         setStateCall, versionSetFlags
    <2> QED BY <2>1, <2>2, <2>3, <2>4, <2>5, <2>6
  <1> QED BY <1>1, <1>2 DEF Processes

\* The columns of a table: those with flags, the id, and one that handlers and
\* hellos write.
LEMMA ColumnShapes ==
  ASSUME NEW t \in DOMAIN Flags
  PROVE  /\ Flags[t] \subseteq Columns(t) /\ "id" \in Columns(t) \ Flags[t]
         /\ t = "nodes" => "last_seen" \in Columns(t) \ Flags[t]
         /\ t = "version_sets" => "state" \in Columns(t) \ Flags[t]
  BY DEF Columns, Flags, nodeFlags, proxyFlags, groupFlags, endpointFlags,
     hwConfigFlags, versionSetFlags

\* A statement that the database accepts writes every column that was given a
\* value that is not dropped, and no other but those that the call resets.
LEMMA UpdateColumns ==
  ASSUME NEW c \in Cmds, table \in DOMAIN Flags, Given(c) \subseteq Flags[table],
         table \notin {"nodes", "version_sets"} => Kept(c) = Given(c),
         Op(c) = "update", NoStatement(c) \/ UpdateOf(c).valid
  PROVE  /\ Kept(c) \subseteq UpdateOf(c).cols
         /\ UpdateOf(c).cols \subseteq Kept(c) \cup ResetUngiven
         /\ UpdateOf(c).cols \subseteq Flags[table]
  <1> USE DEF UpdateOf, Statement, ResetUngiven, Flags, NoStatement, Kept, Given
  <1>1. CASE table = "nodes"
    BY <1>1 DEF UpdateNode
  <1>2. CASE table = "proxies"
    BY <1>2 DEF UpdateProxy, proxyFlags
  <1>3. CASE table = "groups"
    BY <1>3 DEF UpdateGroup
  <1>4. CASE table = "endpoint_configs"
    BY <1>4 DEF UpdateEndpointConfig
  <1>5. CASE table = "hardware_configs"
    BY <1>5 DEF UpdateHardwareConfig, hwConfigFlags
  <1>6. CASE table = "version_sets"
    BY <1>6 DEF UpdateVersionSet
  <1> QED BY <1>1, <1>2, <1>3, <1>4, <1>5, <1>6

\* The call of a process, as its type has it.
LEMMA CallFacts ==
  ASSUME TypeOK, NEW c \in Cmds
  PROVE  /\ table \in DOMAIN Flags
         /\ Op(c) \notin {"none", "bootstrap"} => Given(c) \subseteq Flags[table]
         /\ Op(c) = "set_state" => table = "version_sets"
         /\ Op(c) = "update" => By(c) \in {"id", "name"}
         /\ Op(c) = "update" /\ table \notin {"nodes", "version_sets"} => Kept(c) = Given(c)
         /\ table = "groups" /\ Op(c) = "read" /\ By(c) = "none" =>
              call[c] = Call("read", "none", {})
  <1>1. table \in DOMAIN Flags
    BY CommandsAssumption DEF TypeOK
  <1>2. CASE call[c] = NoCall
    BY <1>1, <1>2 DEF NoCall, Call, Op
  <1>3. CASE call[c] \in Processes(table)
    <2>1. Op(c) = "update" /\ table \notin {"nodes", "version_sets"} => call[c].empty = {}
      BY <1>1, <1>3, CallShapes DEF Op, DropsEmpty
    <2>2. QED
      BY <1>1, <1>3, <2>1, CallShapes DEF Op, By, Given, Kept
  <1> QED BY <1>2, <1>3 DEF TypeOK

\* Values that are written are values.
LEMMA ValueTypes ==
  ASSUME NEW c \in Cmds, NEW col
  PROVE  Value(c, col) \in {"old", "default", c} /\ Value(c, col) \in Values
  BY DEF Value, Values

\* A new row is a row, whose only mark is its creator's.
LEMMA NewRowType ==
  ASSUME TypeOK, NEW c \in Cmds
  PROVE  /\ NewRow(c) \in Row(table)
         /\ NewRow(c).id = c
         /\ \A col \in Columns(table) : NewRow(c)[col] \in {"old", "default", "null", c}
  <1>1. table \in DOMAIN Flags
    BY CallFacts
  <1>2. "id" \in Columns(table)
    BY <1>1, ColumnShapes
  <1>3. \A col \in Columns(table) :
          NewRow(c)[col] \in {"old", "default", "null", c}
    BY ValueTypes DEF NewRow
  <1>4. NewRow(c) \in [Columns(table) -> Values]
    BY <1>3 DEF NewRow, Values
  <1> QED BY <1>2, <1>3, <1>4 DEF NewRow, Row

-----------------------------------------------------------------------------
(* The initial states. *)

\* The invariant holds before any command runs.
LEMMA InitCorrect == Init => IInv
  <1> SUFFICES ASSUME Init PROVE IInv
    OBVIOUS
  <1>1. /\ table \in DOMAIN Flags /\ "id" \in Columns(table)
        /\ row # Absent => row \in OldRows(table) /\ schema
    BY CommandsAssumption, ColumnShapes DEF Init
  <1>2. row # Absent => row \in Row(table) /\ row.id = "old"
    BY <1>1 DEF OldRows, Row, Values
  <1>3. \A c \in Cmds : call[c] = NoCall /\ pc[c] = "idle" /\ ans[c] = "none"
                        /\ exit[c] = "none" /\ Op(c) = "none"
    BY DEF Init, NoCall, Call, Op
  <1>4. TypeOK
    BY <1>1, <1>2 DEF Init, TypeOK, Stages
  <1>5. StageInv /\ CreatorInv
    BY <1>3 DEF StageInv, CreatorInv, Creates
  <1>6. OriginInv
    <2>1. row # Absent /\ table = "endpoint_configs" => row.name = "old"
      BY <1>1 DEF OldRows, Columns, Flags, endpointFlags
    <2>2. QED
      BY <1>2, <1>3, <2>1 DEF OriginInv, Exists
  <1>7. MarkInv
    <2>1. \A c \in Cmds, col \in Columns(table) : row # Absent => row[col] # c
      BY <1>1, CommandsAssumption DEF OldRows
    <2>2. QED
      BY <2>1 DEF MarkInv, Exists
  <1>8. KeptInv /\ UpdateIsWhole
    BY <1>3 DEF KeptInv, UpdateIsWhole
  <1> QED BY <1>4, <1>5, <1>6, <1>7, <1>8 DEF IInv

-----------------------------------------------------------------------------
(* Steps that leave the row alone. *)

\* When only the stage and the answer of a process change, and an answer is as
\* its stage allows, then what is known of the row stays.
LEMMA StageOnly ==
  ASSUME IInv, NEW c \in Cmds, NEW p, NEW a, UNCHANGED <<table, row, call, target>>,
         pc' = [pc EXCEPT ![c] = p], ans' = [ans EXCEPT ![c] = a],
         pc[c] # "idle", p = pc[c] \/ p \notin {"idle", "called"},
         Op(c) = "bootstrap" /\ p = "version" => pc[c] = "called",
         a = "error" /\ a # ans[c] => pc[c] = "called" \/ Excepted(c),
         a = "ok" /\ a # ans[c] => Op(c) # "update"
  PROVE  CreatorInv' /\ OriginInv' /\ MarkInv' /\ KeptInv' /\ UpdateIsWhole'
  <1>1. pc \in [Cmds -> Stages] /\ ans \in [Cmds -> {"none", "ok", "error"}]
    BY DEF IInv, TypeOK
  <1>2. CreatorInv'
    BY <1>1 DEF IInv, CreatorInv, Creates, Op
  <1>3. OriginInv'
    BY <1>1 DEF IInv, OriginInv, Creates, Exists, Op, By
  <1>4. MarkInv'
    BY <1>1 DEF IInv, MarkInv, Exists, Excepted, Op, By
  <1>5. KeptInv'
    BY <1>1 DEF IInv, KeptInv, Exists, Holds, MayChange, ResetUngiven, Value, Op, By, Given, Kept
  <1>6. UpdateIsWhole'
    BY DEF IInv, UpdateIsWhole, Exists, Holds, MayChange, ResetUngiven, Value, Op, By, Given, Kept
  <1> QED BY <1>2, <1>3, <1>4, <1>5, <1>6

\* A process that gives up or takes its answer only ends.
LEMMA ExitOnly ==
  ASSUME IInv, UNCHANGED <<table, schema, row, server, call, target, pc, ans>>,
         exit' \in [Cmds -> {"none", "ok", "error"}], StageInv'
  PROVE  IInv'
  BY DEF IInv, TypeOK, CreatorInv, OriginInv, MarkInv, KeptInv, UpdateIsWhole, Creates, Exists,
     Excepted, Holds, MayChange, ResetUngiven, Value, Op, By, Given, Kept

\* A command line that ends leaves everything else as it is.
LEMMA ClientEnds == ASSUME IInv, NEW c \in Cmds, GiveUp(c) \/ TakeAnswer(c) PROVE IInv'
  <1>1. exit' \in [Cmds -> {"none", "ok", "error"}]
    BY DEF dbVars, GiveUp, TakeAnswer, IInv, TypeOK
  <1>2. StageInv'
    <2>1. OnServer(c) /\ pc[c] # "idle"
      BY DEF GiveUp, TakeAnswer, IInv, StageInv, OnServer, NoCall, Call
    <2>2. \A d \in Cmds : \/ exit'[d] = exit[d]
                          \/ d = c /\ exit'[d] \in {"error", ans[c]}
      BY DEF GiveUp, TakeAnswer, IInv, TypeOK
    <2>3. UNCHANGED <<table, call, pc, ans>>
      BY DEF GiveUp, TakeAnswer, dbVars
    <2>4. QED
      BY <2>1, <2>2, <2>3 DEF IInv, StageInv, OnServer, Op, By
  <1> QED BY <1>1, <1>2, ExitOnly DEF dbVars, GiveUp, TakeAnswer

\* A process that begins knows no other row than the one that is there.
LEMMA Begins ==
  ASSUME IInv, NEW c \in Cmds, NEW k \in Processes(table), Begin(c, k) PROVE IInv'
  <1>1. table \in DOMAIN Flags /\ "id" \in Columns(table) /\ k.op # "none"
    BY CallFacts, ColumnShapes, CallShapes DEF IInv
  <1>2. row.id \in Values \cup {"absent"} /\ (Exists => row.id \in Values)
    BY <1>1 DEF IInv, TypeOK, Row, Exists, Absent
  <1>3. TypeOK'
    BY <1>2 DEF dbVars, Begin, IInv, TypeOK, Stages
  <1>4. call[c] = NoCall /\ ans[c] = "none" /\ exit[c] # "ok" /\ Op(c) = "none"
    BY DEF dbVars, Begin, IInv, StageInv, NoCall, Call, Op
  <1>5. /\ call'[c] = k /\ pc'[c] = "called" /\ target'[c] = row.id
        /\ \A d \in Cmds \ {c} : call'[d] = call[d] /\ pc'[d] = pc[d] /\ target'[d] = target[d]
        /\ UNCHANGED <<table, row, ans, exit>>
    BY DEF dbVars, Begin, IInv, TypeOK
  <1>6. StageInv'
    BY <1>4, <1>5 DEF IInv, StageInv, OnServer, Op, By
  <1>7. CreatorInv'
    BY <1>4, <1>5 DEF dbVars, Begin, OneRow, IInv, CreatorInv, Creates, Exists, Op
  <1>8. OriginInv'
    BY <1>4, <1>5 DEF IInv, OriginInv, Creates, Exists, Op, By
  <1>9. MarkInv'
    BY <1>4, <1>5 DEF dbVars, Begin, IInv, MarkInv, Exists, Excepted, Op, By
  <1>10. KeptInv'
    BY <1>4, <1>5
    DEF IInv, KeptInv, Exists, Holds, MayChange, ResetUngiven, Value, Op, By, Given, Kept
  <1>11. UpdateIsWhole'
    <2>1. Exists => \A col \in Columns(table) : row[col] # c
      BY DEF Begin, IInv, MarkInv
    <2>2. ASSUME NEW d \in Cmds \ {c}, NEW col, Holds(d, col) PROVE Holds(d, col)'
      BY <1>4, <1>5, <2>2 DEF Holds, MayChange, ResetUngiven, Value, Op, By, Given, Kept
    <2>3. QED
      BY <1>5, <2>1, <2>2 DEF IInv, UpdateIsWhole, Exists, Op, Kept
  <1> QED BY <1>3, <1>6, <1>7, <1>8, <1>9, <1>10, <1>11 DEF IInv

\* The answers that leave the row alone.
LEMMA PlainAnswers ==
  ASSUME IInv, NEW c \in Cmds, Refuse(c) \/ UpdateAgain(c) \/ GetVersionSetByID(c) \/ Serve(c)
  PROVE  IInv'
  <1>1. /\ pc \in [Cmds -> Stages] /\ ans \in [Cmds -> {"none", "ok", "error"}]
        /\ UNCHANGED <<table, schema, row, call, target, exit>>
        /\ pc[c] \in {"called", "again", "fetch"} /\ ans[c] = "none"
    BY DEF IInv, TypeOK, StageInv, Refuse, UpdateAgain, GetVersionSetByID, Serve, CallFrame, dbVars
  <1>2. \/ UNCHANGED <<pc, ans>> /\ server' = "dead"
        \/ UNCHANGED server /\ \E a \in {"ok", "error"} :
             /\ Answer(c, a) /\ OnServer(c)
             /\ a = "ok" => Op(c) # "update"
             /\ a = "error" => pc[c] = "called" \/ Excepted(c)
    <2>1. CASE Refuse(c)
      BY <2>1 DEF Refuse
    <2>2. CASE UpdateAgain(c)
      BY <2>2 DEF UpdateAgain, IInv, StageInv, OnServer, Excepted, Op, By
    <2>3. CASE GetVersionSetByID(c)
      BY <2>3 DEF GetVersionSetByID, ConvertVersionSet, IInv, StageInv, OnServer, Excepted, Op
    <2>4. CASE Serve(c)
      <3>1. ResultOf(c) \in {"ok", "error", "panic"}
        BY DEF ResultOf, ReadOf, ListOf, TriggerCertReq, TriggerFleetCertReq, OkIf, GetNode,
           GetProxy, GetGroup, GetEndpointConfig, GetHardwareConfig, GetVersionSet,
           ListVersionSets
      <3>2. QED
        BY <2>4, <3>1 DEF Serve, OnServer, Op
    <2>5. QED
      BY <2>1, <2>2, <2>3, <2>4
  <1>3. CASE UNCHANGED <<pc, ans>>
    BY <1>1, <1>2, <1>3 DEF IInv, TypeOK, StageInv, CreatorInv, OriginInv, MarkInv, KeptInv,
       UpdateIsWhole, Creates, Exists, Excepted, Holds, MayChange, ResetUngiven, Value, OnServer,
       Op, By, Given, Kept, Answer
  <1>4. ASSUME NEW a \in {"ok", "error"}, Answer(c, a), OnServer(c), UNCHANGED server,
               a = "ok" => Op(c) # "update", a = "error" => pc[c] = "called" \/ Excepted(c)
        PROVE  IInv'
    <2>1. TypeOK'
      BY <1>1, <1>4 DEF IInv, TypeOK, Answer, Stages
    <2>2. StageInv'
      BY <1>1, <1>4 DEF IInv, StageInv, Answer, OnServer, Op, By
    <2>3. CreatorInv' /\ OriginInv' /\ MarkInv' /\ KeptInv' /\ UpdateIsWhole'
      BY <1>1, <1>4, StageOnly DEF Answer
    <2>4. QED
      BY <2>1, <2>2, <2>3 DEF IInv
  <1> QED BY <1>2, <1>3, <1>4

\* The steps of the commands on the database, the creation of the first version
\* set aside.
LEMMA LocalSteps ==
  ASSUME IInv, NEW c \in Cmds,
         BootstrapFails(c) \/ InitializeSchema(c) \/ CreateVersionTransition(c) \/ ResetDatabase(c)
  PROVE  IInv'
  <1>1. /\ pc \in [Cmds -> Stages] /\ ans \in [Cmds -> {"none", "ok", "error"}]
        /\ exit \in [Cmds -> {"none", "ok", "error"}]
        /\ UNCHANGED <<table, server, call, target, ans>> /\ Op(c) \in {"bootstrap", "reset"}
    BY DEF IInv, TypeOK, BootstrapFails, InitializeSchema, CreateVersionTransition,
       ResetDatabase, LocalFrame, Local
  <1>2. pc[c] # "idle" /\ ans[c] = "none" /\ ~OnServer(c)
    BY <1>1 DEF IInv, StageInv, NoCall, Call, OnServer, Op
  <1>3. PICK p \in {"version", "over"} :
          /\ pc' = [pc EXCEPT ![c] = p]
          /\ p = "version" => pc[c] = "called"
    BY DEF BootstrapFails, InitializeSchema, CreateVersionTransition, ResetDatabase, End, Step,
       Local
  <1>4. TypeOK'
    BY <1>1, <1>3 DEF IInv, TypeOK, BootstrapFails, InitializeSchema, CreateVersionTransition,
       ResetDatabase, End, Step, Stages
  <1>5. StageInv'
    <2>1. \A d \in Cmds : exit'[d] = exit[d] \/ (d = c /\ pc'[d] # "idle")
      BY <1>1, <1>3 DEF BootstrapFails, InitializeSchema, CreateVersionTransition,
         ResetDatabase, End, Step
    <2>2. QED
      BY <1>1, <1>2, <1>3, <2>1 DEF IInv, StageInv, OnServer, Op, By
  <1>6. CASE UNCHANGED row
    <2>1. ans' = [ans EXCEPT ![c] = "none"]
      BY <1>1, <1>2
    <2>2. CreatorInv' /\ OriginInv' /\ MarkInv' /\ KeptInv' /\ UpdateIsWhole'
      BY <1>1, <1>2, <1>3, <1>6, <2>1, StageOnly
    <2>3. QED
      BY <1>4, <1>5, <2>2 DEF IInv
  <1>7. CASE row' = Absent
    BY <1>1, <1>4, <1>5, <1>7
    DEF IInv, CreatorInv, OriginInv, MarkInv, KeptInv, UpdateIsWhole, Creates, Exists, Op
  <1> QED
    BY <1>6, <1>7 DEF BootstrapFails, InitializeSchema, CreateVersionTransition, ResetDatabase

-----------------------------------------------------------------------------
(* Steps that write the row. *)

\* The stage of a handler that goes on, or answers that all is well.
LEMMA HandlerStages ==
  ASSUME IInv, NEW c \in Cmds, pc[c] = "called", OnServer(c), CallFrame,
         \/ Answer(c, "ok")
         \/ Continue(c, "again") /\ Excepted(c) /\ Op(c) = "update"
         \/ Continue(c, "fetch") /\ Excepted(c) /\ Op(c) # "update"
  PROVE  /\ StageInv' /\ UNCHANGED <<table, schema, call, target, exit>>
         /\ pc' \in [Cmds -> Stages] /\ ans' \in [Cmds -> {"none", "ok", "error"}]
         /\ pc'[c] \notin {"idle", "called", "version"} /\ ans'[c] # "error"
         /\ \A d \in Cmds \ {c} : pc'[d] = pc[d] /\ ans'[d] = ans[d]
  <1>1. /\ pc \in [Cmds -> Stages] /\ ans \in [Cmds -> {"none", "ok", "error"}]
        /\ UNCHANGED <<table, schema, call, target, exit>>
    BY DEF IInv, TypeOK, CallFrame, dbVars
  <1>2. ans[c] = "none"
    BY <1>1 DEF IInv, StageInv
  <1>3. PICK p \in {"answered", "again", "fetch"}, a \in {"none", "ok"} :
          /\ pc' = [pc EXCEPT ![c] = p] /\ ans' = [ans EXCEPT ![c] = a]
          /\ a # "none" => p = "answered"
          /\ p = "answered" => a = "ok"
          /\ p = "again" => Excepted(c) /\ Op(c) = "update"
          /\ p = "fetch" => Excepted(c) /\ Op(c) # "update"
    BY <1>1, <1>2 DEF Answer, Continue
  <1>4. StageInv'
    BY <1>1, <1>2, <1>3 DEF IInv, StageInv, Excepted, OnServer, Op, By
  <1> QED BY <1>1, <1>3, <1>4 DEF Stages

\* Whose row it is stays when its id does.
LEMMA RowStays ==
  ASSUME IInv, NEW c \in Cmds, UNCHANGED <<table, call, target>>, pc[c] = "called",
         pc'[c] \notin {"idle", "called", "version"} \/ pc' = pc,
         \A d \in Cmds \ {c} : pc'[d] = pc[d], Exists' => Exists /\ row'.id = row.id,
         Exists' /\ table = "endpoint_configs" /\ row'.name # row.name =>
           Op(c) = "update" /\ (row.id = "old" /\ row.name = "old" => By(c) = "id")
  PROVE  CreatorInv' /\ OriginInv'
  <1>1. CreatorInv'
    BY DEF IInv, CreatorInv, Creates, Exists, Op
  <1>2. OriginInv'
    BY DEF IInv, OriginInv, Creates, Exists, Op, By
  <1> QED BY <1>1, <1>2

\* An update writes what it was given, over whatever was there, and its call
\* says that it may.
LEMMA UpdateKeeps == ASSUME IInv, NEW c \in Cmds, UpdateRow(c) PROVE IInv'
  <1> DEFINE cols == UpdateOf(c).cols
  <1>1. pc[c] = "called" /\ Op(c) = "update" /\ OnServer(c)
    BY DEF UpdateRow, Handling, OnServer, Op
  <1>2. /\ table \in DOMAIN Flags /\ Given(c) \subseteq Flags[table] /\ By(c) \in {"id", "name"}
        /\ Flags[table] \subseteq Columns(table) /\ "id" \in Columns(table) \ Flags[table]
    BY <1>1, CallFacts, ColumnShapes DEF IInv
  <1>3. /\ Kept(c) \subseteq cols /\ cols \subseteq Kept(c) \cup ResetUngiven
        /\ cols \subseteq Flags[table]
    BY <1>1, <1>2, CallFacts, UpdateColumns DEF UpdateRow, IInv
  <1>4. /\ StageInv' /\ UNCHANGED <<table, schema, call, target, exit, server>>
        /\ pc' \in [Cmds -> Stages] /\ ans' \in [Cmds -> {"none", "ok", "error"}]
        /\ pc'[c] \notin {"idle", "called", "version"} /\ ans'[c] # "error"
        /\ \A d \in Cmds \ {c} : pc'[d] = pc[d] /\ ans'[d] = ans[d]
    BY <1>1, HandlerStages DEF UpdateRow, Excepted
  <1>5. \/ ~Found(c) /\ row' = row
        \/ /\ Found(c) /\ Exists
           /\ row' = [col \in Columns(table) |-> IF col \in cols THEN Value(c, col) ELSE row[col]]
    BY DEF UpdateRow, Found
  <1>6. Exists' => Exists
    BY <1>5 DEF Exists
  <1>7. Exists' => /\ row'.id = row.id
                   /\ \A col \in Columns(table) :
                        \/ row'[col] = row[col]
                        \/ col \in cols /\ Found(c) /\ row'[col] = Value(c, col)
    BY <1>2, <1>3, <1>5
  <1>8. Exists' => (Found(c) => \A col \in Kept(c) : row'[col] = Value(c, col))
    BY <1>2, <1>3, <1>5
  <1>9. TypeOK'
    <2>1. row' \in Row(table) \cup {Absent}
      <3>1. CASE row' = row
        BY <3>1 DEF IInv, TypeOK
      <3>2. CASE Exists /\ row' = [col \in Columns(table) |->
                                     IF col \in cols THEN Value(c, col) ELSE row[col]]
        <4>1. row \in [Columns(table) -> Values]
          BY <3>2 DEF IInv, TypeOK, Row, Exists
        <4>2. \A col : Value(c, col) \in Values
          BY ValueTypes
        <4>3. QED
          BY <3>2, <4>1, <4>2 DEF Row
      <3>3. QED
        BY <1>5, <3>1, <3>2
    <2>2. ~schema => row' = Absent
      BY <1>5 DEF IInv, TypeOK, Exists
    <2>3. QED
      BY <1>4, <2>1, <2>2 DEF IInv, TypeOK
  <1>10. CreatorInv' /\ OriginInv'
    <2>1. Exists' /\ table = "endpoint_configs" /\ row'.name # row.name =>
            (row.name = "old" => By(c) = "id")
      BY <1>2, <1>7 DEF Columns, Flags, endpointFlags, Value
    <2>2. QED
      BY <1>1, <1>4, <1>6, <1>7, <2>1, RowStays
  <1>11. MarkInv'
    <2> SUFFICES ASSUME Exists', NEW d \in Cmds, NEW col \in Columns(table), row'[col] = d
                 PROVE  pc'[d] \notin {"idle", "called"} /\ (ans'[d] = "error" => Excepted(d)')
      BY <1>4 DEF MarkInv
    <2>1. CASE d = c
      BY <1>4, <2>1
    <2>2. CASE d # c
      <3>1. row[col] = d
        BY <1>7, <2>2, ValueTypes, CommandsAssumption
      <3>2. QED
        BY <1>4, <1>6, <2>2, <3>1 DEF IInv, MarkInv, Excepted, Op, By
    <2>3. QED
      BY <2>1, <2>2
  <1>12. ASSUME NEW d \in Cmds \ {c}, NEW col \in Columns(table), Exists', Holds(d, col)
         PROVE  Holds(d, col)'
    <2>1. row'[col] = row[col] \/ MayChange(c, d, col)
      BY <1>1, <1>3, <1>7, <1>12 DEF MayChange
    <2>2. QED
      BY <1>4, <1>12, <2>1 DEF Holds, MayChange, ResetUngiven, Value, Op, By, Given, Kept
  <1>13. ASSUME NEW d \in Cmds, Op(d) = "update" PROVE Kept(d) \subseteq Columns(table)
    BY <1>2, <1>13, CallFacts DEF IInv, Kept, Given
  <1>14. Exists' /\ Found(c) => \A col \in Kept(c) : Holds(c, col)'
    BY <1>4, <1>8 DEF Holds, Value, Given, By
  <1>15. KeptInv'
    <2> SUFFICES ASSUME Exists', row'.id = "old", NEW d \in Cmds, ans'[d] = "ok",
                        Op(d) = "update", NEW col \in Kept(d)
                 PROVE  Holds(d, col)'
      BY <1>4 DEF KeptInv, Op, Kept
    <2>1. Exists /\ row.id = "old" /\ col \in Columns(table)
      BY <1>2, <1>6, <1>7, <1>13
    <2>2. CASE d # c
      BY <1>4, <1>12, <2>1, <2>2 DEF IInv, KeptInv
    <2>3. CASE d = c /\ Found(c)
      BY <1>14, <2>3
    <2>4. CASE d = c /\ ~Found(c)
      <3>1. target[c] = "old"
        BY <1>1, <2>1 DEF IInv, OriginInv
      <3>2. table = "endpoint_configs" /\ By(c) = "name" /\ row.name # "old"
        BY <2>1, <2>4, <3>1 DEF Found
      <3>3. PICK e \in Cmds : Op(e) = "update" /\ By(e) = "id"
        BY <2>1, <3>2 DEF IInv, OriginInv
      <3>4. QED
        BY <1>4, <2>4, <3>2, <3>3 DEF Holds, MayChange, Op, By
    <2>5. QED
      BY <2>2, <2>3, <2>4
  <1>16. UpdateIsWhole'
    <2> SUFFICES ASSUME Exists', NEW d \in Cmds, Op(d) = "update",
                        NEW m \in Columns(table), row'[m] = d, NEW col \in Kept(d)
                 PROVE  Holds(d, col)'
      BY <1>4 DEF UpdateIsWhole, Op, Kept
    <2>1. CASE d # c
      <3>1. row[m] = d
        BY <1>7, <2>1, ValueTypes, CommandsAssumption
      <3>2. QED
        BY <1>6, <1>12, <1>13, <2>1, <3>1 DEF IInv, UpdateIsWhole
    <2>2. CASE d = c
      <3>1. pc[c] = "called" /\ Exists => row[m] # c
        BY DEF IInv, MarkInv
      <3>2. Found(c)
        BY <1>1, <1>5, <1>6, <2>2, <3>1
      <3>3. QED
        BY <1>14, <2>2, <3>2
    <2>3. QED
      BY <2>1, <2>2
  <1> QED BY <1>4, <1>9, <1>10, <1>11, <1>15, <1>16 DEF IInv

\* A new row is its creator's: no one else has a value in it.
LEMMA NewRowKeeps ==
  ASSUME IInv, NEW c \in Cmds, Creates(c), UNCHANGED <<table, call, target>>,
         row' = NewRow(c), pc' \in [Cmds -> Stages],
         pc'[c] \notin {"idle", "called", "version"}, ans'[c] # "error",
         \A d \in Cmds \ {c} : pc'[d] = pc[d] /\ ans'[d] = ans[d]
  PROVE  CreatorInv' /\ OriginInv' /\ MarkInv' /\ KeptInv' /\ UpdateIsWhole'
  <1>1. /\ row'.id = c /\ c # "old"
        /\ \A col \in Columns(table), d \in Cmds : row'[col] = d => d = c
    BY NewRowType, CommandsAssumption DEF IInv
  <1>2. CreatorInv'
    <2>1. table = "version_sets" => \A d \in Cmds : Op(d) = "bootstrap" => d = c
      BY DEF IInv, CreatorInv, Creates
    <2>2. QED
      BY <2>1 DEF IInv, CreatorInv, Creates, Op
  <1>3. OriginInv'
    BY <1>1 DEF OriginInv, Creates, Op
  <1>4. MarkInv'
    BY <1>1 DEF MarkInv
  <1>5. KeptInv'
    BY <1>1 DEF KeptInv
  <1>6. UpdateIsWhole'
    BY <1>1 DEF UpdateIsWhole, Creates, Op
  <1> QED BY <1>2, <1>3, <1>4, <1>5, <1>6

\* The row that a creation inserts.
LEMMA CreateKeeps == ASSUME IInv, NEW c \in Cmds, CreateRow(c) PROVE IInv'
  <1>1. pc[c] = "called" /\ Op(c) = "create" /\ OnServer(c) /\ Creates(c)
    BY DEF CreateRow, Handling, OnServer, Creates, Op
  <1>2. /\ StageInv' /\ UNCHANGED <<table, schema, call, target, exit, server>>
        /\ pc' \in [Cmds -> Stages] /\ ans' \in [Cmds -> {"none", "ok", "error"}]
        /\ pc'[c] \notin {"idle", "called", "version"} /\ ans'[c] # "error"
        /\ \A d \in Cmds \ {c} : pc'[d] = pc[d] /\ ans'[d] = ans[d]
    BY <1>1, HandlerStages DEF CreateRow, Excepted
  <1>3. TypeOK'
    BY <1>2, NewRowType DEF CreateRow, IInv, TypeOK
  <1>4. CreatorInv' /\ OriginInv' /\ MarkInv' /\ KeptInv' /\ UpdateIsWhole'
    BY <1>1, <1>2, NewRowKeeps DEF CreateRow
  <1> QED BY <1>2, <1>3, <1>4 DEF IInv

\* The row that a bootstrap inserts.
LEMMA BootstrapKeeps == ASSUME IInv, NEW c \in Cmds, CreateVersionSet(c) PROVE IInv'
  <1>1. /\ pc[c] = "version" /\ Op(c) = "bootstrap" /\ ~OnServer(c) /\ ans[c] = "none"
        /\ pc' = [pc EXCEPT ![c] = "transition"] /\ ans' = [ans EXCEPT ![c] = "none"]
        /\ UNCHANGED <<table, schema, server, call, target, ans, exit>>
        /\ pc \in [Cmds -> Stages] /\ ans \in [Cmds -> {"none", "ok", "error"}]
    BY DEF CreateVersionSet, Local, LocalFrame, Step, OnServer, Op, IInv, TypeOK, StageInv
  <1>2. TypeOK'
    BY <1>1, NewRowType DEF CreateVersionSet, IInv, TypeOK, Stages
  <1>3. StageInv'
    BY <1>1 DEF IInv, StageInv, OnServer, Op, By
  <1>4. CASE table = "version_sets"
    <2>1. CreatorInv' /\ OriginInv' /\ MarkInv' /\ KeptInv' /\ UpdateIsWhole'
      <3>1. Creates(c) /\ row' = NewRow(c)
        BY <1>1, <1>4 DEF CreateVersionSet, Creates
      <3>2. pc' \in [Cmds -> Stages]
        BY <1>2 DEF TypeOK
      <3>3. QED
        BY <1>1, <3>1, <3>2, NewRowKeeps
    <2>2. QED
      BY <1>2, <1>3, <2>1 DEF IInv
  <1>5. CASE table # "version_sets"
    <2>1. CreatorInv' /\ OriginInv' /\ MarkInv' /\ KeptInv' /\ UpdateIsWhole'
      BY <1>1, <1>5, StageOnly DEF CreateVersionSet
    <2>2. QED
      BY <1>2, <1>3, <2>1 DEF IInv
  <1> QED BY <1>4, <1>5

\* A deletion takes the row away, and all claims on it.
LEMMA DeleteKeeps == ASSUME IInv, NEW c \in Cmds, DeleteRow(c) PROVE IInv'
  <1>1. pc[c] = "called" /\ Op(c) = "delete" /\ OnServer(c) /\ ans[c] = "none"
    BY DEF DeleteRow, Handling, OnServer, Op, IInv, StageInv
  <1>2. /\ StageInv' /\ UNCHANGED <<table, schema, call, target, exit, server>>
        /\ pc' \in [Cmds -> Stages] /\ ans' \in [Cmds -> {"none", "ok", "error"}]
        /\ pc' = [pc EXCEPT ![c] = "answered"] /\ ans' = [ans EXCEPT ![c] = "ok"]
    BY <1>1, HandlerStages DEF DeleteRow, Answer
  <1>3. TypeOK'
    BY <1>2 DEF DeleteRow, IInv, TypeOK
  <1>4. CASE row' = row
    BY <1>1, <1>2, <1>3, <1>4, StageOnly DEF IInv
  <1>5. CASE row' = Absent
    BY <1>2, <1>3, <1>5
    DEF IInv, CreatorInv, OriginInv, MarkInv, KeptInv, UpdateIsWhole, Creates, Exists, Op
  <1> QED BY <1>4, <1>5 DEF DeleteRow

\* Writing a column that no flag is for, a mark of the writer at most.
LEMMA UnflaggedKeeps ==
  ASSUME IInv, NEW c \in Cmds, NEW f \in Columns(table) \ (Flags[table] \cup {"id"}), NEW v,
         Exists, row' = [row EXCEPT ![f] = v], UNCHANGED <<table, call, target>>,
         \A d \in Cmds \ {c} : pc'[d] = pc[d] /\ ans'[d] = ans[d] /\ v # d,
         v = c => pc'[c] \notin {"idle", "called"} /\ ans'[c] # "error" /\ Op(c) # "update",
         \/ pc'[c] = pc[c] /\ ans'[c] = ans[c]
         \/ pc'[c] \notin {"idle", "called", "version"} /\ Op(c) # "update" /\ ans'[c] # "error"
            /\ pc[c] = "called"
  PROVE  CreatorInv' /\ OriginInv' /\ MarkInv' /\ KeptInv' /\ UpdateIsWhole'
  <1>1. /\ table \in DOMAIN Flags /\ row \in [Columns(table) -> Values]
        /\ table = "endpoint_configs" => "name" \in Flags[table]
    BY CallFacts DEF IInv, TypeOK, Row, Exists, Flags, endpointFlags
  <1>2. /\ row'.id = row.id /\ row'[f] = v
        /\ \A col : col # f /\ col \in Columns(table) => row'[col] = row[col]
        /\ table = "endpoint_configs" => row'.name = row.name
    BY <1>1, ColumnShapes
  <1>3. CreatorInv'
    <2>1. table = "version_sets" =>
            \A d \in Cmds : Op(d) = "bootstrap" => pc[d] \notin {"called", "version"}
      BY DEF IInv, CreatorInv, Exists
    <2>2. QED
      BY <2>1 DEF IInv, CreatorInv, Creates, Op
  <1>4. OriginInv'
    BY <1>2 DEF IInv, OriginInv, Creates, Exists, Op, By
  <1>5. MarkInv'
    BY <1>2 DEF IInv, MarkInv, Exists, Excepted, Op, By
  <1>6. ASSUME NEW d \in Cmds, Op(d) = "update", NEW col \in Kept(d), Holds(d, col)
        PROVE  Holds(d, col)'
    <2>1. col \in Flags[table]
      BY <1>6, CallFacts DEF IInv, Kept, Given
    <2>2. row'[col] = row[col]
      BY <1>1, <1>2, <2>1, ColumnShapes
    <2>3. QED
      BY <1>6, <2>2 DEF Holds, MayChange, ResetUngiven, Value, Op, By, Given, Kept
  <1>7. KeptInv'
    <2> SUFFICES ASSUME Exists', row'.id = "old", NEW d \in Cmds, ans'[d] = "ok",
                        Op(d) = "update", NEW col \in Kept(d)
                 PROVE  Holds(d, col)'
      BY DEF KeptInv, Op, Kept
    <2>1. ans[d] = "ok"
      OBVIOUS
    <2>2. QED
      BY <1>2, <1>6, <2>1 DEF IInv, KeptInv
  <1>8. UpdateIsWhole'
    <2> SUFFICES ASSUME Exists', NEW d \in Cmds, Op(d) = "update",
                        NEW m \in Columns(table), row'[m] = d, NEW col \in Kept(d)
                 PROVE  Holds(d, col)'
      BY DEF UpdateIsWhole, Op, Kept
    <2>1. row[m] = d
      BY <1>2
    <2>2. QED
      BY <1>6, <2>1 DEF IInv, UpdateIsWhole
  <1> QED BY <1>3, <1>4, <1>5, <1>7, <1>8

\* The state of a version set is no column that a command has a flag for.
LEMMA SetStateKeeps == ASSUME IInv, NEW c \in Cmds, ActivateVersionSet(c) PROVE IInv'
  <1>1. /\ pc[c] = "called" /\ Op(c) = "set_state" /\ OnServer(c) /\ ans[c] = "none"
        /\ table = "version_sets"
    BY CallFacts DEF ActivateVersionSet, Handling, OnServer, Op, IInv, StageInv
  <1>2. /\ StageInv' /\ UNCHANGED <<table, schema, call, target, exit, server>>
        /\ pc' \in [Cmds -> Stages] /\ ans' \in [Cmds -> {"none", "ok", "error"}]
        /\ pc' = [pc EXCEPT ![c] = "fetch"] /\ ans' = ans
    BY <1>1, HandlerStages DEF ActivateVersionSet, Excepted, Continue
  <1>3. /\ table \in DOMAIN Flags /\ "id" \in Columns(table)
        /\ "state" \in Columns(table) \ (Flags[table] \cup {"id"})
    BY <1>1, CallFacts, ColumnShapes DEF IInv
  <1>4. pc'[c] = "fetch" /\ \A d \in Cmds \ {c} : pc'[d] = pc[d]
    BY <1>2 DEF IInv, TypeOK
  <1>5. CASE row' = row
    <2>1. TypeOK'
      BY <1>2, <1>5 DEF IInv, TypeOK
    <2>2. ans' = [ans EXCEPT ![c] = "none"]
      BY <1>1, <1>2 DEF IInv, TypeOK
    <2>3. CreatorInv' /\ OriginInv' /\ MarkInv' /\ KeptInv' /\ UpdateIsWhole'
      BY <1>1, <1>2, <1>5, <2>2, StageOnly
    <2>4. QED
      BY <1>2, <2>1, <2>3 DEF IInv
  <1>6. CASE Exists /\ row' = [row EXCEPT !.state = c]
    <2>1. TypeOK'
      <3>1. row' \in Row(table)
        BY <1>3, <1>6 DEF IInv, TypeOK, Exists, Row, Values
      <3>2. schema
        BY DEF ActivateVersionSet
      <3>3. QED
        BY <1>2, <3>1, <3>2 DEF IInv, TypeOK
    <2>2. CreatorInv' /\ OriginInv' /\ MarkInv' /\ KeptInv' /\ UpdateIsWhole'
      BY <1>1, <1>2, <1>3, <1>4, <1>6, UnflaggedKeeps
    <2>3. QED
      BY <1>2, <2>1, <2>2 DEF IInv
  <1> QED BY <1>5, <1>6 DEF ActivateVersionSet, Found

\* Nor is the time of the last hello.
LEMMA HelloKeeps == ASSUME IInv, Hello PROVE IInv'
  <1>1. /\ Exists /\ row' = [row EXCEPT !.last_seen = "old"] /\ table = "nodes"
        /\ UNCHANGED <<table, schema, server, call, target, pc, ans, exit>>
    BY DEF Hello, dbVars
  <1>2. "last_seen" \in Columns(table) \ (Flags[table] \cup {"id"}) /\ "id" \in Columns(table)
    BY <1>1 DEF Columns, Flags, nodeFlags
  <1>3. row \in Row(table) /\ schema
    BY <1>1 DEF IInv, TypeOK, Exists
  <1>4. TypeOK'
    <2>1. row' \in Row(table)
      BY <1>1, <1>2, <1>3 DEF Row, Values
    <2>2. QED
      BY <1>1, <1>3, <2>1 DEF IInv, TypeOK
  <1>5. StageInv'
    BY <1>1 DEF IInv, StageInv, OnServer, Op, By
  <1>6. CASE Cmds = {}
    BY <1>1, <1>2, <1>3, <1>4, <1>5, <1>6
    DEF IInv, CreatorInv, OriginInv, MarkInv, KeptInv, UpdateIsWhole, Exists, Row
  <1>7. ASSUME NEW c \in Cmds PROVE IInv'
    <2>1. "old" \notin Cmds
      BY CommandsAssumption
    <2>2. CreatorInv' /\ OriginInv' /\ MarkInv' /\ KeptInv' /\ UpdateIsWhole'
      BY <1>1, <1>2, <2>1, UnflaggedKeeps
    <2>3. QED
      BY <1>4, <1>5, <2>2 DEF IInv
  <1> QED BY <1>6, <1>7

-----------------------------------------------------------------------------
(* The invariant, and what follows from it. *)

\* Every step of every process keeps the invariant.
LEMMA StepCorrect == IInv /\ [Next]_vars => IInv'
  <1> SUFFICES ASSUME IInv, [Next]_vars PROVE IInv'
    OBVIOUS
  <1>1. CASE UNCHANGED vars
    BY <1>1 DEF vars, IInv, TypeOK, StageInv, CreatorInv, OriginInv, MarkInv, KeptInv,
       UpdateIsWhole, Creates, Exists, Excepted, Holds, MayChange, ResetUngiven, Value, OnServer,
       Op, By, Given, Kept
  <1>2. CASE Hello
    BY <1>2, HelloKeeps
  <1>3. ASSUME NEW c \in Cmds, Client(c) PROVE IInv'
    BY <1>3, ClientEnds, Begins DEF Client
  <1>4. ASSUME NEW c \in Cmds, Handler(c) PROVE IInv'
    BY <1>4, PlainAnswers, UpdateKeeps, CreateKeeps, DeleteKeeps, SetStateKeeps DEF Handler
  <1>5. ASSUME NEW c \in Cmds, LocalCommand(c) PROVE IInv'
    BY <1>5, LocalSteps, BootstrapKeeps DEF LocalCommand
  <1> QED BY <1>1, <1>2, <1>3, <1>4, <1>5 DEF Next

\* So it holds in every reachable state.
LEMMA InvariantHolds == Spec => []IInv
  BY InitCorrect, StepCorrect, PTL DEF Spec

\* Every variable keeps its type, whatever commands run in whatever order.
THEOREM CommandTypes == Spec => []TypeOK
  <1>1. IInv => TypeOK
    BY DEF IInv
  <1> QED BY <1>1, InvariantHolds, PTL

\* The values of an update that ends well are in the row until another command
\* changes them, but for the empty ones that its handler drops; a call that is
\* answered with an error has left nothing there but where its handler works in
\* two transactions; and no update is ever there by half.
THEOREM AnswersAreTrue == Spec => []AnswerIsTrue
  <1>1. IInv => AnswerIsTrue
    <2> SUFFICES ASSUME IInv PROVE OkIsKept /\ ErrorIsUndone
      BY DEF AnswerIsTrue, IInv
    <2>1. ASSUME NEW c \in Cmds, exit[c] = "ok", Op(c) = "update", Exists, NEW col \in Kept(c)
          PROVE  Holds(c, col)
      <3>1. ans[c] = "ok"
        BY <2>1 DEF IInv, StageInv, OnServer, Op
      <3>2. CASE row.id = "old"
        BY <2>1, <3>1, <3>2 DEF IInv, KeptInv
      <3>3. ASSUME NEW d \in Cmds, Creates(d)
            PROVE  \E e \in Cmds \ {c} : MayChange(e, c, col)
        BY <2>1, <3>3 DEF Creates, MayChange
      <3>4. QED
        BY <2>1, <3>2, <3>3 DEF IInv, OriginInv, Holds
    <2>2. ErrorIsUndone
      BY DEF IInv, MarkInv, ErrorIsUndone, Excepted
    <2>3. QED
      BY <2>1, <2>2 DEF OkIsKept
  <1> QED BY <1>1, InvariantHolds, PTL

\* No step changes a column but an update that was given a value for it, or that
\* resets it because it was not given.
THEOREM OnlyGivenChanges == Spec => GivenOnly
  <1> DEFINE OnlyGiven ==
        row # Absent /\ row' # Absent =>
          \A col \in Flags[table] : row'[col] # row[col] =>
            \E c \in Cmds : Op(c) = "update" /\
              \/ col \in Kept(c) /\ row'[col] = c
              \/ col \in ResetUngiven /\ row'[col] = "default"
  <1>1. IInv /\ [Next]_vars => [OnlyGiven]_vars
    <2> SUFFICES ASSUME IInv, Next, row # Absent, row' # Absent, NEW col \in Flags[table],
                        row'[col] # row[col]
                 PROVE  \E c \in Cmds : Op(c) = "update" /\
                          \/ col \in Kept(c) /\ row'[col] = c
                          \/ col \in ResetUngiven /\ row'[col] = "default"
      OBVIOUS
    <2>1. /\ table \in DOMAIN Flags /\ row \in [Columns(table) -> Values]
          /\ col \in Columns(table) /\ col # "id"
      <3>1. table \in DOMAIN Flags
        BY CommandsAssumption DEF IInv, TypeOK
      <3>2. QED
        BY <3>1, ColumnShapes DEF IInv, TypeOK, Row
    <2>2. ~Hello
      BY <2>1, ColumnShapes DEF Hello
    <2>3. PICK c \in Cmds : Client(c) \/ Handler(c) \/ LocalCommand(c)
      BY <2>2 DEF Next
    <2>4. ~Client(c)
      BY DEF Client, Begin, GiveUp, TakeAnswer
    <2>5. ~LocalCommand(c)
      BY DEF LocalCommand, BootstrapFails, InitializeSchema, CreateVersionSet, Local,
         CreateVersionTransition, ResetDatabase, IInv, CreatorInv
    <2>6. ~ActivateVersionSet(c)
      <3> SUFFICES ASSUME ActivateVersionSet(c) PROVE FALSE
        OBVIOUS
      <3>1. "state" \notin Flags[table]
        BY CallFacts, ColumnShapes DEF IInv, ActivateVersionSet, Handling
      <3>2. QED
        BY <2>1, <3>1 DEF ActivateVersionSet
    <2>7. UpdateRow(c)
      BY <2>3, <2>4, <2>5, <2>6 DEF Handler, Refuse, UpdateAgain, CreateRow, DeleteRow,
         GetVersionSetByID, Serve, Exists
    <2>8. Op(c) = "update" /\ By(c) \in {"id", "name"} /\ Given(c) \subseteq Flags[table]
      BY <2>7, CallFacts DEF UpdateRow, Handling, IInv
    <2>9. /\ Found(c) /\ row'[col] = Value(c, col) /\ col \in UpdateOf(c).cols
          /\ col \in Kept(c) \cup ResetUngiven
      BY <2>1, <2>7, <2>8, CallFacts, UpdateColumns DEF UpdateRow, IInv
    <2>10. CASE table = "endpoint_configs" /\ col = "name" /\ By(c) # "id"
      BY <2>8, <2>9, <2>10 DEF Found, Value
    <2>11. CASE ~(table = "endpoint_configs" /\ col = "name" /\ By(c) # "id")
      <3>1. Value(c, col) = IF col \in Given(c) THEN c ELSE "default"
        BY <2>11 DEF Value
      <3>2. CASE col \in Kept(c)
        BY <2>8, <2>9, <3>1, <3>2 DEF Kept, Given
      <3>3. CASE col \notin Kept(c) /\ col \in ResetUngiven
        BY <2>8, <2>9, <3>1, <3>3, CallFacts DEF IInv, ResetUngiven
      <3>4. QED
        BY <2>9, <3>2, <3>3
    <2>12. QED
      BY <2>10, <2>11
  <1>2. QED
    BY <1>1, InvariantHolds, PTL DEF Spec, GivenOnly

\* A call of the command line kills the server in no other way than the three
\* that are known.
THEOREM CrashesAreExplained == Spec => CrashIsExplained
  <1> DEFINE Explained ==
        server' # server =>
          \/ table = "version_sets" /\ row.description = "null"
          \/ \E c \in Cmds : table = "groups" /\ call[c] = Call("read", "none", {})
          \/ \E c \in Cmds : Op(c) = "fleet_cert_req" /\ row.last_seen = "null"
  <1>1. IInv /\ [Next]_vars => [Explained]_vars
    <2> SUFFICES ASSUME IInv, Next, server' # server PROVE Explained
      OBVIOUS
    <2>1. PICK c \in Cmds : GetVersionSetByID(c) \/ Serve(c)
      BY DEF Next, Hello, Client, Begin, GiveUp, TakeAnswer, Handler, Refuse, UpdateRow,
         UpdateAgain, CreateRow, DeleteRow, ActivateVersionSet, LocalCommand, BootstrapFails,
         InitializeSchema, CreateVersionSet, CreateVersionTransition, ResetDatabase, LocalFrame
    <2>2. CASE GetVersionSetByID(c)
      BY <2>2 DEF GetVersionSetByID, ConvertVersionSet, IInv, StageInv
    <2>3. CASE Serve(c)
      <3>1. ResultOf(c) = "panic"
        BY <2>3 DEF Serve
      <3>2. CASE Op(c) = "read"
        <4>1. ReadOf(c) = "panic"
          BY <3>1, <3>2 DEF ResultOf
        <4>2. table \in {"groups", "version_sets"}
          BY <4>1, CallFacts DEF IInv, ReadOf, GetNode, GetProxy, GetEndpointConfig,
             GetHardwareConfig, OkIf, Flags
        <4>3. CASE table = "groups"
          BY <3>2, <4>1, <4>3, CallFacts DEF IInv, ReadOf, GetGroup, OkIf
        <4>4. CASE table = "version_sets"
          BY <4>1, <4>4 DEF ReadOf, GetVersionSet
        <4>5. QED
          BY <4>2, <4>3, <4>4
      <3>3. CASE Op(c) = "list"
        BY <3>1, <3>3 DEF ResultOf, ListOf, ListVersionSets, OkIf
      <3>4. CASE Op(c) \in {"cert_req", "fleet_cert_req"}
        BY <3>1, <3>4 DEF ResultOf, TriggerCertReq, TriggerFleetCertReq
      <3>5. QED
        BY <2>3, <3>2, <3>3, <3>4 DEF Serve
    <2>4. QED
      BY <2>1, <2>2, <2>3
  <1>2. QED
    BY <1>1, InvariantHolds, PTL DEF Spec, CrashIsExplained

=============================================================================
