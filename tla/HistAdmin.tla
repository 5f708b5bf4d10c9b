------------------------------ MODULE HistAdmin ------------------------------
(***************************************************************************)
(* The history tables and the groups hosted for them: the mutations of     *)
(* hist_groups, hist_group_nodes and hist_template_nodes (HistGroupMAwait) *)
(* with the live side each has before or after its statement (HistHost),   *)
(* the resolve of a template's members, and the gateway's stop and         *)
(* restart.  Every select, statement and await is a step of its own; a     *)
(* mutation that makes others has their frames on its stack.               *)
(* All groups are of one connection and one template, and a node is one    *)
(* row at most on a connection.                                            *)
(***************************************************************************)
EXTENDS Naturals, Sequences, FiniteSets, SequencesExt

CONSTANTS Groups, Nodes,
          NodeOf,      \* the node each template member's path names on the server
          Tables,      \* the tables a gateway may start from
          Calls,       \* the mutations that may be under way at once
          Ops,         \* the mutations a caller asks for
          MaxCalls,    \* how many are made, at most
          MaxFaults,   \* how many statements fail, at most
          MaxRestarts

VARIABLES groupRow,  \* hist_groups: whether the row is there, deleted or live, and its thresholds
          rows,      \* hist_group_nodes: by id, its node, group, member and own thresholds
          members,   \* hist_template_nodes: the thresholds of each member with a row
          hosts,     \* HistHost::_groups: the hosted members with their thresholds, and which Load made it
          library,   \* the historian's group of each name
          stopped,
          call,      \* the frames of each mutation
          count      \* mutations, faults and restarts made, hosts loaded, and whether since the
                     \* start a statement failed or two mutations overlapped

vars == <<groupRow, rows, members, hosts, library, stopped, call, count>>
tables == <<groupRow, rows, members>>

None == "none"
TemplateMembers == DOMAIN NodeOf
NoHost == [gen |-> 0, columns |-> 0, node |-> << >>]
Hosted(g) == hosts[g] # NoHost

\* Thresholds: 0 is a column that is null, which the next table's stands in for.
Over(a, b) == IF a # 0 THEN a ELSE b
ResolveThresholds(own, member, group) == Over(Over(own, member), group)
MemberOf(seen, m) == IF m \in DOMAIN seen THEN seen[m] ELSE 0

RowsOf(g) == {i \in DOMAIN rows : rows[i].group = g}
Holder(n) == {i \in DOMAIN rows : rows[i].node = n}     \* one row at most
Drop(f, S) == [x \in DOMAIN f \ S |-> f[x]]
Put(f, x, v) == [y \in DOMAIN f \cup {x} |-> IF y = x THEN v ELSE f[y]]

HostNode(row, seen, columns) == [node |-> row.node, t |-> ResolveThresholds(row.own, MemberOf(seen, row.member), columns)]
\* The host Load makes of the rows read.
Loaded(own, seen, columns, gen) ==
  [gen |-> gen, columns |-> columns,
   node |-> [i \in DOMAIN own |-> HostNode(own[i], seen, columns)]]

Frame(op, g, n, m, v) ==      \* n: a create's node, the id of the row otherwise
  [op |-> op, g |-> g, n |-> n, m |-> m, v |-> v, pc |-> "start", gen |-> 0, columns |-> 0,
   rows |-> << >>, members |-> << >>, todo |-> << >>, good |-> {}]

\* Loading: a host of each live group's rows.
Loading(gen) ==
  [g \in Groups |-> IF groupRow[g].at # "live" THEN NoHost
                    ELSE Loaded([n \in RowsOf(g) |-> rows[n]], members, groupRow[g].columns, gen)]

\* Tables as an earlier run left them, loaded.
Init ==
  /\ \E t \in Tables : groupRow = t.groups /\ rows = t.rows /\ members = t.members
  /\ hosts = Loading(1) /\ library = [g \in Groups |-> IF groupRow[g].at = "live" THEN "added" ELSE "free"] /\ stopped = FALSE
  /\ call = [c \in Calls |-> << >>] /\ count = [calls |-> 0, faults |-> 0, restarts |-> 0, gen |-> 1, ids |-> Cardinality(DOMAIN rows), faulted |-> FALSE, overlapped |-> FALSE]

-----------------------------------------------------------------------------
(* The stack of a mutation.                                                *)

Top(c) == Last(call[c])
At(c, op, pc) == call[c] # << >> /\ Top(c).op \in op /\ Top(c).pc = pc
Below(c) == Front(call[c])
Goes(c, f) == call' = [call EXCEPT ![c] = Append(Below(c), f)]
To(c, pc) == Goes(c, [Top(c) EXCEPT !.pc = pc])
Returns(c) == call' = [call EXCEPT ![c] = Below(c)]
\* The top frame waits at pc for the frame it makes.
Makes(c, f, new) == call' = [call EXCEPT ![c] = Below(c) \o <<f, new>>]
\* An exception: a resolve catches what its creates throw, and nothing else is caught.
Throws(c) ==
  call' = [call EXCEPT ![c] = IF Len(@) > 1 /\ @[Len(@) - 1].op = "resolve" THEN Below(c) ELSE << >>]

Quiet == \A c \in Calls : call[c] = << >>

Asked(c, op, g, n, m, v) ==
  /\ call[c] = << >> /\ count.calls < MaxCalls /\ op \in Ops
  /\ call' = [call EXCEPT ![c] = <<Frame(op, g, n, m, v)>>] /\ count' = [count EXCEPT !.calls = @ + 1, !.overlapped = @ \/ ~Quiet]
  /\ UNCHANGED <<tables, hosts, library, stopped>>

Ask(c) ==
  \/ \E g \in Groups, op \in {"createGroup", "deleteGroup", "restoreGroup", "purgeGroup", "resolve"} :
       Asked(c, op, g, None, None, 0)
  \/ \E g \in Groups : Asked(c, "updateGroup", g, None, None, 1)
  \/ \E g \in Groups, n \in Nodes : Asked(c, "createNode", g, n, None, 0)
  \/ \E i \in DOMAIN rows : Asked(c, "updateNode", None, i, None, 2) \/ Asked(c, "purgeNode", None, i, None, 0)
  \/ \E m \in TemplateMembers : \/ Asked(c, "createMember", None, None, m, 0) \/ Asked(c, "purgeMember", None, None, m, 0)
                                \/ Asked(c, "updateMember", None, None, m, 3)

\* A statement the database fails.
Fails(c) ==
  /\ call[c] # << >> /\ Top(c).pc \in {"statement", "rows"} /\ count.faults < MaxFaults
  /\ Throws(c) /\ count' = [count EXCEPT !.faults = @ + 1, !.faulted = TRUE]
  /\ UNCHANGED <<tables, hosts, library, stopped>>

-----------------------------------------------------------------------------
(* The statements.                                                         *)

\* A create or an update is written first; a purge's live side comes before.
Begins(c) ==
  /\ call[c] # << >> /\ Top(c).pc = "start"
  /\ To(c, CASE Top(c).op \in {"createNode"} -> "group"
             [] Top(c).op \in {"purgeGroup", "purgeNode", "purgeMember"} -> "select"
             [] Top(c).op = "resolve" -> "members"
             [] OTHER -> "statement")
  /\ UNCHANGED <<tables, hosts, library, stopped, count>>

SetGroup(c, row) == groupRow' = [groupRow EXCEPT ![Top(c).g] = row] /\ UNCHANGED <<rows, members>>

GroupStatement(c) ==
  LET f == Top(c) IN
  /\ At(c, {"createGroup", "updateGroup", "deleteGroup", "restoreGroup", "purgeGroup"}, "statement")
  /\ CASE f.op = "createGroup" /\ groupRow[f.g].at = None -> SetGroup(c, [at |-> "live", columns |-> 0]) /\ To(c, "select")
       [] f.op = "updateGroup" -> To(c, "select") /\
            IF groupRow[f.g].at = None THEN UNCHANGED tables ELSE SetGroup(c, [groupRow[f.g] EXCEPT !.columns = f.v])
       [] f.op = "deleteGroup" -> To(c, "select") /\
            IF groupRow[f.g].at = None THEN UNCHANGED tables ELSE SetGroup(c, [groupRow[f.g] EXCEPT !.at = "deleted"])
       [] f.op = "restoreGroup" -> To(c, "select") /\
            IF groupRow[f.g].at = None THEN UNCHANGED tables ELSE SetGroup(c, [groupRow[f.g] EXCEPT !.at = "live"])
       [] f.op = "purgeGroup" /\ RowsOf(f.g) = {} -> Returns(c) /\ SetGroup(c, [at |-> None, columns |-> 0])
       [] OTHER -> Throws(c) /\ UNCHANGED tables                  \* a key or a reference refuses it
  /\ UNCHANGED <<hosts, library, stopped, count>>

\* createHistGroupNode: its group is read, and the row inserted unless the node, or a reference, refuses it.
NodeGroup(c) ==
  /\ At(c, {"createNode"}, "group")
  /\ IF groupRow[Top(c).g].at = None THEN Throws(c) ELSE To(c, "statement")
  /\ UNCHANGED <<tables, hosts, library, stopped, count>>

NodeStatement(c) ==
  LET f == Top(c) IN
  /\ At(c, {"createNode", "updateNode", "purgeNode"}, "statement")
  /\ CASE f.op = "createNode" ->
            IF Holder(f.n) # {} \/ groupRow[f.g].at = None \/ (f.m # None /\ f.m \notin DOMAIN members)
            THEN Throws(c) /\ UNCHANGED <<rows, count>>
            ELSE /\ rows' = Put(rows, count.ids + 1, [node |-> f.n, group |-> f.g, member |-> f.m, own |-> 0])
                 /\ count' = [count EXCEPT !.ids = @ + 1] /\ Goes(c, [f EXCEPT !.n = count.ids + 1, !.pc = "select"])
       [] f.op = "updateNode" ->
            rows' = (IF f.n \in DOMAIN rows THEN [rows EXCEPT ![f.n].own = f.v] ELSE rows) /\ To(c, "select") /\ UNCHANGED count
       [] f.op = "purgeNode" -> rows' = Drop(rows, {f.n}) /\ Returns(c) /\ UNCHANGED count
  /\ UNCHANGED <<groupRow, members, hosts, library, stopped>>

MemberStatement(c) ==
  LET f == Top(c) IN
  /\ At(c, {"createMember", "updateMember", "purgeMember"}, "statement")
  /\ CASE f.op = "createMember" /\ f.m \notin DOMAIN members -> members' = Put(members, f.m, 0) /\ To(c, "select")
       [] f.op = "updateMember" ->
            members' = (IF f.m \in DOMAIN members THEN [members EXCEPT ![f.m] = f.v] ELSE members) /\ To(c, "select")
       [] f.op = "purgeMember" /\ (\A n \in DOMAIN rows : rows[n].member # f.m) -> members' = Drop(members, {f.m}) /\ Returns(c)
       [] OTHER -> Throws(c) /\ UNCHANGED members
  /\ UNCHANGED <<groupRow, rows, hosts, library, stopped, count>>

-----------------------------------------------------------------------------
(* The live side: what the hooks read.                                     *)

\* GroupCreated, GroupRestored: the row, and for a restore its nodes and the template's members.
GroupRead(c) ==
  LET f == Top(c) IN
  /\ At(c, {"createGroup", "restoreGroup"}, "select")
  /\ CASE groupRow[f.g].at # "live" -> Throws(c)
       [] stopped -> Makes(c, [f EXCEPT !.pc = "resolved"], Frame("resolve", f.g, None, None, 0))
       [] OTHER -> Goes(c, [f EXCEPT !.columns = groupRow[f.g].columns, !.pc = IF f.op = "createGroup" THEN "load" ELSE "nodes"])
  /\ UNCHANGED <<tables, hosts, library, stopped, count>>

NodesRead(c) ==
  LET f == Top(c) IN
  /\ At(c, {"restoreGroup", "updateGroup"}, "nodes")
  /\ Goes(c, [f EXCEPT !.rows = [n \in RowsOf(f.g) |-> rows[n]], !.pc = "members"])
  /\ UNCHANGED <<tables, hosts, library, stopped, count>>

MembersRead(c) ==
  LET f == Top(c) IN
  /\ At(c, {"restoreGroup", "updateGroup"}, "members")
  /\ Goes(c, [f EXCEPT !.members = members, !.pc = IF f.op = "restoreGroup" THEN "load" ELSE "set"])
  /\ UNCHANGED <<tables, hosts, library, stopped, count>>

\* Load: AddGroup takes the name, or throws.
LoadAdds(c) ==
  LET f == Top(c) IN
  /\ At(c, {"createGroup", "restoreGroup"}, "load")
  /\ IF stopped \/ library[f.g] # "free" THEN Throws(c) /\ UNCHANGED library
     ELSE library' = [library EXCEPT ![f.g] = "added"] /\ To(c, "loaded")
  /\ UNCHANGED <<tables, hosts, stopped, count>>

\* Mutant of LoadHosts: the stop is not looked at again.
LoadHostsAnyway(c) ==
  LET f == Top(c) IN
  /\ At(c, {"createGroup", "restoreGroup"}, "loaded")
  /\ hosts' = [hosts EXCEPT ![f.g] = Loaded(f.rows, f.members, f.columns, count.gen + 1)]
  /\ count' = [count EXCEPT !.gen = @ + 1] /\ UNCHANGED library
  /\ Makes(c, [f EXCEPT !.pc = "resolved"], Frame("resolve", f.g, None, None, 0))
  /\ UNCHANGED <<tables, stopped>>
\* The group added is hosted; or goes with the historian, if it was stopped meanwhile.
LoadHosts(c) ==
  LET f == Top(c) IN
  /\ At(c, {"createGroup", "restoreGroup"}, "loaded")
  /\ IF stopped
     THEN Throws(c) /\ library' = [library EXCEPT ![f.g] = "writing"] /\ UNCHANGED <<hosts, count>>
     ELSE /\ hosts' = [hosts EXCEPT ![f.g] = Loaded(f.rows, f.members, f.columns, count.gen + 1)]
          /\ count' = [count EXCEPT !.gen = @ + 1] /\ UNCHANGED library
          /\ Makes(c, [f EXCEPT !.pc = "resolved"], Frame("resolve", f.g, None, None, 0))
  /\ UNCHANGED <<tables, stopped>>

\* GroupEdited: the host found for the row takes its columns.
GroupEdits(c) ==
  LET f == Top(c) IN
  /\ At(c, {"updateGroup"}, "select")
  /\ IF groupRow[f.g].at = None \/ ~Hosted(f.g) THEN Returns(c) /\ UNCHANGED hosts
     ELSE /\ hosts' = [hosts EXCEPT ![f.g].columns = groupRow[f.g].columns]
          /\ Goes(c, [f EXCEPT !.gen = hosts[f.g].gen, !.columns = groupRow[f.g].columns, !.pc = "nodes"])
  /\ UNCHANGED <<tables, library, stopped, count>>

\* SetNodeThresholds of the host of that generation: the library refuses a node it does not have, and those before it are set.
SetThresholds(g, gen, t, some) ==
  IF hosts[g].gen # gen THEN hosts
  ELSE [hosts EXCEPT ![g].node = [n \in DOMAIN @ |-> IF n \in DOMAIN t /\ n \in some THEN [@[n] EXCEPT !.t = t[n]] ELSE @[n]]]

\* Mutant of GroupSets: only the nodes with thresholds of their own are set.
GroupSetsOwn(c) ==
  LET f == Top(c) t == [n \in {n \in DOMAIN f.rows : f.rows[n].own # 0} |-> f.rows[n].own]
  IN  /\ At(c, {"updateGroup"}, "set") /\ hosts' = SetThresholds(f.g, f.gen, t, DOMAIN t) /\ Returns(c)
      /\ UNCHANGED <<tables, library, stopped, count>>
GroupSets(c) ==
  LET f == Top(c)
      t == [n \in DOMAIN f.rows |-> ResolveThresholds(f.rows[n].own, MemberOf(f.members, f.rows[n].member), f.columns)]
  IN  /\ At(c, {"updateGroup"}, "set")
      /\ \E some \in IF DOMAIN t \subseteq DOMAIN hosts[f.g].node THEN {DOMAIN t} ELSE SUBSET DOMAIN t :
           hosts' = SetThresholds(f.g, f.gen, t, some)
      /\ Returns(c)
      /\ UNCHANGED <<tables, library, stopped, count>>

\* GroupDeleted, GroupPurging.  Remove: the host is taken out, then the library's group removed, and its last flush awaited.
RemoveHost(c) ==
  LET f == Top(c) IN
  /\ At(c, {"deleteGroup", "purgeGroup"}, "select")
  /\ IF (f.op = "deleteGroup" /\ groupRow[f.g].at = None) \/ ~Hosted(f.g)
     THEN UNCHANGED hosts /\ IF f.op = "deleteGroup" THEN Returns(c) ELSE To(c, "rows")
     ELSE hosts' = [hosts EXCEPT ![f.g] = NoHost] /\ To(c, "remove")
  /\ UNCHANGED <<tables, library, stopped, count>>

RemoveGroup(c) ==
  LET f == Top(c) IN
  /\ At(c, {"deleteGroup", "purgeGroup"}, "remove")
  /\ library' = [library EXCEPT ![f.g] = IF @ = "added" THEN "writing" ELSE @] /\ To(c, "settled")
  /\ UNCHANGED <<tables, hosts, stopped, count>>

\* Mutant of Settled: the last flush is not awaited.
SettledAtOnce(c) ==
  /\ At(c, {"deleteGroup", "purgeGroup"}, "settled")
  /\ IF Top(c).op = "deleteGroup" THEN Returns(c) ELSE To(c, "rows")
  /\ UNCHANGED <<tables, hosts, library, stopped, count>>
Settled(c) ==
  /\ At(c, {"deleteGroup", "purgeGroup"}, "settled") /\ library[Top(c).g] # "writing"
  /\ IF Top(c).op = "deleteGroup" THEN Returns(c) ELSE To(c, "rows")
  /\ UNCHANGED <<tables, hosts, library, stopped, count>>

\* GroupPurging: the group's node rows go before its own.
PurgeRows(c) ==
  /\ At(c, {"purgeGroup"}, "rows") /\ rows' = Drop(rows, RowsOf(Top(c).g)) /\ To(c, "statement")
  /\ UNCHANGED <<groupRow, members, hosts, library, stopped, count>>

-----------------------------------------------------------------------------
\* NodeCreated, NodeEdited, NodePurging: the row, and the host of its group.
NodeRead(c) ==
  LET f == Top(c) IN
  /\ At(c, {"createNode", "updateNode", "purgeNode"}, "select")
  /\ CASE f.n \notin DOMAIN rows ->
            CASE f.op = "createNode" -> Throws(c) [] f.op = "updateNode" -> Returns(c) [] OTHER -> To(c, "statement")
       [] OTHER ->
            LET g == rows[f.n].group IN
            IF ~Hosted(g) THEN IF f.op = "purgeNode" THEN To(c, "statement") ELSE Returns(c)
            ELSE Goes(c, [f EXCEPT !.g = g, !.gen = hosts[g].gen, !.rows = [n \in {f.n} |-> rows[n]], !.members = members,
                                   !.pc = CASE f.op = "createNode" -> "join" [] f.op = "updateNode" -> "set" [] OTHER -> "leave"])
  /\ UNCHANGED <<tables, hosts, library, stopped, count>>

\* Mutant of NodeThresholds: the group's columns stand before the template's.
NodeThresholdsGroup(f) == Over(Over(f.rows[f.n].own, hosts[f.g].columns), MemberOf(f.members, f.rows[f.n].member))
NodeThresholds(f) == ResolveThresholds(f.rows[f.n].own, MemberOf(f.members, f.rows[f.n].member), hosts[f.g].columns)

\* Join: the library's Add, which a group removed or a member already there refuses.
Join(c) ==
  LET f == Top(c) IN
  /\ At(c, {"createNode"}, "join")
  /\ IF hosts[f.g].gen # f.gen \/ (\E i \in DOMAIN hosts[f.g].node : hosts[f.g].node[i].node = f.rows[f.n].node)
     THEN Throws(c) /\ UNCHANGED hosts
     ELSE hosts' = [hosts EXCEPT ![f.g].node = Put(@, f.n, [node |-> f.rows[f.n].node, t |-> NodeThresholds(f)])] /\ Returns(c)
  /\ UNCHANGED <<tables, library, stopped, count>>

NodeSets(c) ==
  LET f == Top(c) IN
  /\ At(c, {"updateNode"}, "set")
  /\ hosts' = SetThresholds(f.g, f.gen, [n \in {f.n} |-> NodeThresholds(f)], {f.n}) /\ Returns(c)
  /\ UNCHANGED <<tables, library, stopped, count>>

\* Mutant of Leave: a purge leaves the member to the group.
LeaveRow(c) ==
  /\ At(c, {"purgeNode"}, "leave") /\ To(c, "statement") /\ UNCHANGED <<tables, hosts, library, stopped, count>>
\* Leave: the library's Remove, which refuses a node it does not have, and the purge with it.
Leave(c) ==
  LET f == Top(c) IN
  /\ At(c, {"purgeNode"}, "leave")
  /\ IF hosts[f.g].gen # f.gen \/ f.n \notin DOMAIN hosts[f.g].node THEN Throws(c) /\ UNCHANGED hosts
     ELSE hosts' = [hosts EXCEPT ![f.g].node = Drop(@, {f.n})] /\ To(c, "statement")
  /\ UNCHANGED <<tables, library, stopped, count>>

-----------------------------------------------------------------------------
\* TemplateNodeCreated: resolved in each live group.  TemplateNodePurging: each node made from it is purged.
MemberRead(c) ==
  LET f == Top(c) IN
  /\ At(c, {"createMember", "purgeMember"}, "select")
  /\ IF f.op = "createMember"
     THEN IF f.m \notin DOMAIN members THEN Throws(c)
          ELSE Goes(c, [f EXCEPT !.todo = SetToSeq({g \in Groups : groupRow[g].at = "live"}), !.pc = "each"])
     ELSE Goes(c, [f EXCEPT !.todo = SetToSeq({n \in DOMAIN rows : rows[n].member = f.m}), !.pc = "each"])
  /\ UNCHANGED <<tables, hosts, library, stopped, count>>

MemberEach(c) ==
  LET f == Top(c) IN
  /\ At(c, {"createMember", "purgeMember"}, "each")
  /\ CASE f.todo # << >> ->
            Makes(c, [f EXCEPT !.todo = Tail(@)],
                  IF f.op = "createMember" THEN Frame("resolve", Head(f.todo), None, None, 0)
                  ELSE Frame("purgeNode", None, Head(f.todo), None, 0))
       [] f.op = "createMember" -> Returns(c)
       [] OTHER -> To(c, "statement")
  /\ UNCHANGED <<tables, hosts, library, stopped, count>>

\* TemplateNodeEdited: the member's columns, then the nodes made from it, each resolved over its host's columns.
MemberEdits(c) ==
  LET f == Top(c) IN
  /\ At(c, {"updateMember"}, "select")
  /\ Goes(c, [f EXCEPT !.members = members, !.pc = "nodes"])
  /\ UNCHANGED <<tables, hosts, library, stopped, count>>

MemberSets(c) ==
  LET f == Top(c) of == {n \in DOMAIN rows : rows[n].member = f.m} IN
  /\ At(c, {"updateMember"}, "nodes")
  /\ hosts' = [g \in Groups |->
                 [hosts[g] EXCEPT !.node = [n \in DOMAIN @ |->
                    IF n \in of /\ rows[n].group = g
                    THEN HostNode(rows[n], f.members, hosts[g].columns) ELSE @[n]]]]
  /\ Returns(c)
  /\ UNCHANGED <<tables, library, stopped, count>>

-----------------------------------------------------------------------------
(* Resolving.                                                              *)

ResolveMembers(c) ==
  LET f == Top(c) IN
  /\ At(c, {"resolve"}, "members")
  /\ IF groupRow[f.g].at = None THEN Throws(c) ELSE Goes(c, [f EXCEPT !.members = members, !.pc = "existing"])
  /\ UNCHANGED <<tables, hosts, library, stopped, count>>

\* Mutant of ResolveExisting: every member of the template is created, one that has its row too.
ResolveExistingAll(c) ==
  LET f == Top(c)
  IN  /\ At(c, {"resolve"}, "existing")
      /\ Goes(c, [f EXCEPT !.good = DOMAIN f.members, !.todo = << >>, !.pc = "answer"])
      /\ UNCHANGED <<tables, hosts, library, stopped, count>>
\* The members without a row are pending, and stay so when the server can't be reached.
ResolveExisting(c) ==
  LET f == Top(c)
      has == {m \in DOMAIN f.members : \E n \in RowsOf(f.g) : rows[n].member = m}
  IN  /\ At(c, {"resolve"}, "existing")
      /\ \/ Goes(c, [f EXCEPT !.good = has, !.todo = SetToSeq(DOMAIN f.members \ has), !.pc = "each"])
         \/ DOMAIN f.members # has /\ Goes(c, [f EXCEPT !.good = has, !.pc = "answer"])
      /\ UNCHANGED <<tables, hosts, library, stopped, count>>

\* Each that the server resolves becomes a row through createHistGroupNode, with its hook.
ResolveEach(c) ==
  LET f == Top(c) m == Head(f.todo) IN
  /\ At(c, {"resolve"}, "each")
  /\ IF f.todo = << >> THEN To(c, "answer")
     ELSE Makes(c, [f EXCEPT !.pc = "created"], Frame("createNode", f.g, NodeOf[m], m, 0))
  /\ UNCHANGED <<tables, hosts, library, stopped, count>>

\* The create's outcome: Good for the row it made or a concurrent resolve did; a conflict is put to the row that holds the node.
ResolveCreated(c) ==
  LET f == Top(c) m == Head(f.todo) n == NodeOf[m]
      good == \E i \in Holder(n) : rows[i].group = f.g /\ rows[i].member = m
  IN  /\ At(c, {"resolve"}, "created")
      /\ Goes(c, [f EXCEPT !.good = IF good THEN @ \cup {m} ELSE @, !.todo = Tail(@), !.pc = "each"])
      /\ UNCHANGED <<tables, hosts, library, stopped, count>>

Answers(c) ==
  /\ \/ At(c, {"resolve"}, "answer") \/ At(c, {"createGroup", "restoreGroup"}, "resolved")
  /\ Returns(c) /\ UNCHANGED <<tables, hosts, library, stopped, count>>

-----------------------------------------------------------------------------
\* The last flush of a group removed.
Written(g) ==
  /\ library[g] = "writing" /\ library' = [library EXCEPT ![g] = "free"]
  /\ UNCHANGED <<tables, hosts, stopped, call, count>>

\* Mutant of Stop: the hosts are closed and kept.
StopKeeps ==
  /\ ~stopped /\ stopped' = TRUE
  /\ library' = [g \in Groups |-> IF Hosted(g) THEN "writing" ELSE library[g]]
  /\ UNCHANGED <<tables, hosts, call, count>>
\* Stop: the hosts are taken and closed, and the historian let go of.
Stop ==
  /\ ~stopped /\ stopped' = TRUE /\ hosts' = [g \in Groups |-> NoHost]
  /\ library' = [g \in Groups |-> IF Hosted(g) THEN "writing" ELSE library[g]]
  /\ UNCHANGED <<tables, call, count>>

\* The gateway ends, at any point, and starts again: Loading makes a host of each live group's rows.
Restart ==
  /\ count.restarts < MaxRestarts /\ stopped' = FALSE /\ call' = [c \in Calls |-> << >>]
  /\ hosts' = Loading(count.gen + 1)
  /\ library' = [g \in Groups |-> IF groupRow[g].at = "live" THEN "added" ELSE "free"]
  /\ count' = [count EXCEPT !.restarts = @ + 1, !.gen = @ + 1, !.faulted = FALSE, !.overlapped = FALSE]
  /\ UNCHANGED tables

Step(c) ==
  \/ Begins(c) \/ Fails(c) \/ GroupStatement(c) \/ NodeGroup(c) \/ NodeStatement(c) \/ MemberStatement(c)
  \/ GroupRead(c) \/ NodesRead(c) \/ MembersRead(c) \/ LoadAdds(c) \/ LoadHosts(c) \/ GroupEdits(c) \/ GroupSets(c)
  \/ RemoveHost(c) \/ RemoveGroup(c) \/ Settled(c) \/ PurgeRows(c) \/ NodeRead(c) \/ Join(c) \/ NodeSets(c) \/ Leave(c)
  \/ MemberRead(c) \/ MemberEach(c) \/ MemberEdits(c) \/ MemberSets(c)
  \/ ResolveMembers(c) \/ ResolveExisting(c) \/ ResolveEach(c) \/ ResolveCreated(c) \/ Answers(c)

Next == (\E c \in Calls : Ask(c) \/ Step(c)) \/ (\E g \in Groups : Written(g)) \/ Stop \/ Restart

Spec == Init /\ [][Next]_vars

-----------------------------------------------------------------------------
TypeOK ==
  /\ \A g \in Groups : groupRow[g].at \in {None, "live", "deleted"} /\ library[g] \in {"free", "added", "writing"}
  /\ (\A i \in DOMAIN rows : rows[i].node \in Nodes) /\ DOMAIN members \subseteq TemplateMembers
  /\ \A g \in Groups : DOMAIN hosts[g].node \subseteq 1..count.ids
  /\ stopped \in BOOLEAN /\ \A c \in Calls : Len(call[c]) <= 4

\* The live side in step with the tables: a host for each live group, its members its rows, each with the thresholds that its
\* row, its template's and its group's resolve to.
Agrees ==
  \A g \in Groups :
    /\ Hosted(g) <=> groupRow[g].at = "live"
    /\ Hosted(g) => [hosts[g] EXCEPT !.gen = 0] = Loaded([n \in RowsOf(g) |-> rows[n]], members, groupRow[g].columns, 0)

\* The live side is in step with the tables whenever no mutation is under way, with mutations made one at a time and no statement
\* failed since the start; a restart, at any step of one, puts them in step.
InStep == Quiet /\ ~stopped /\ ~count.faulted /\ ~count.overlapped => Agrees

\* It is in step with mutations that overlap, as the hosts are kept in step with the tables by the mutations.
KeptInStep == Quiet /\ ~stopped /\ ~count.faulted => Agrees

\* A failed statement may leave a row without its live side, never the other way round: what is collected has its row.
CollectedHasItsRow ==
  Quiet /\ ~count.overlapped => \A g \in Groups : Hosted(g) => groupRow[g].at = "live" /\ DOMAIN hosts[g].node \subseteq RowsOf(g)

\* A group of the library's is hosted, or a mutation is about to host it or to remove it; and once stopped, none is hosted.
AddedIsOwned ==
  \A g \in Groups :
    /\ stopped => ~Hosted(g)
    /\ Hosted(g) => library[g] = "added"
    /\ library[g] = "added" => \/ Hosted(g)
                               \/ \E c \in Calls : At(c, {"createGroup", "restoreGroup"}, "loaded") /\ Top(c).g = g
                               \/ \E c \in Calls : At(c, {"deleteGroup", "purgeGroup"}, "remove") /\ Top(c).g = g

\* What a resolve answers Good is a row of the group's, one at a time.
GoodHasItsRow ==
  \A c \in Calls : At(c, {"resolve"}, "answer") /\ ~count.overlapped =>
    \A m \in Top(c).good : \E n \in RowsOf(Top(c).g) : rows[n].member = m
=============================================================================
