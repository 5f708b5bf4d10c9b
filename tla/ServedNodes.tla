------------------------------ MODULE ServedNodes ------------------------------
(***************************************************************************)
(* The address space of the gateway's OPC UA endpoint (GatewayServer.cpp): *)
(* a variable per hosted group member, under folders made for its source's *)
(* path.  The hosts' hooks post their changes to the endpoint's one thread *)
(* (Serial), which holds them until Start has served what the hosts had.   *)
(* A folder whose node is a member's becomes its variable when the member  *)
(* is served, and the variable a folder when it goes with members still    *)
(* under it: the members below are lifted out and put back.                *)
(* A node is its id; the connection's folder is Root; the HA Configuration *)
(* of a variable hangs off it by a reference that isn't hierarchical.      *)
(***************************************************************************)
EXTENDS Naturals, Sequences, FiniteSets, SequencesExt, Functions

CONSTANTS Members,    \* a sequence of the members, in the order of their row ids
          IdOf, GroupOf,
          Paths,      \* of each member, the paths its source has described: ids, its own last;  << >> not yet
          MaxChanges, MaxFaults

Root == "root"
Ids == Range(IdOf) \cup UNION {UNION {Range(p) : p \in Paths[m]} : m \in Range(Members)}
Groups == Range(GroupOf)
None == << >>

VARIABLES host,     \* HistHost: the hosted members, each with its path
          loaded,   \* the groups loaded
          posted, held, \* what Serial has posted, and what it holds
          start,    \* where Start is: the groups it read
          st,       \* the endpoint: its nodes, who they are mapped for, and the members served
          count

vars == <<host, loaded, posted, held, start, st, count>>

NoFault == [add |-> {}, delete |-> {}]
Endpoint ==
  [space |-> None,     \* id -> its kind and parent
   ha |-> {},          \* the ids with an HA Configuration
   access |-> {},      \* GatewayNodeAccess: the ids mapped to their group
   haAccess |-> {},    \* the ids whose configuration's nodes are
   served |-> None,    \* _groups' Nodes: member -> the path it is served under
   fails |-> NoFault,  \* the ids whose add, and whose delete, fails in this operation
   exposed |-> FALSE]  \* a session could meet a member's node outside its group's rights

Init ==
  /\ host = None /\ loaded = {} /\ posted = << >> /\ held = << >>
  /\ start = [at |-> "no", groups |-> {}] /\ st = Endpoint /\ count = [changes |-> 0, faults |-> 0]

-----------------------------------------------------------------------------
(* open62541's address space (external).                                   *)

Exists(s, id) == id \in DOMAIN s.space
Kind(s, id) == IF Exists(s, id) THEN s.space[id].kind ELSE "none"
Children(s, id) == {c \in DOMAIN s.space : s.space[c].parent = id}
Added(s, id, kind, parent) ==
  [s EXCEPT !.space = [x \in DOMAIN @ \cup {id} |-> IF x = id THEN [kind |-> kind, parent |-> parent] ELSE @[x]],
            !.exposed = @ \/ (kind = "variable" /\ id \notin s.access)]
RECURSIVE Below(_, _)
Below(s, id) == {id} \cup UNION {Below(s, c) : c \in Children(s, id)}
\* A delete takes the hierarchical children with it; a node that isn't there is gone.
DeleteFails(s, id) == Exists(s, id) /\ id \in s.fails.delete
Deleted(s, id) == IF Exists(s, id) /\ ~DeleteFails(s, id) THEN [s EXCEPT !.space = Restrict(@, DOMAIN @ \ Below(s, id))] ELSE s
Unmapped(s, id) == [s EXCEPT !.access = @ \ {id}, !.exposed = @ \/ Kind(s, id) = "variable"]

-----------------------------------------------------------------------------
(* A member's node.                                                        *)

Parents(path) == IF Len(path) > 1 THEN Front(path) ELSE << >>
ParentOf(path) == IF Len(path) > 1 THEN path[Len(path) - 1] ELSE Root

\* Mutant of Prune: the member's own folder alone.
PruneOne(s, path) ==
  IF Parents(path) # << >> /\ Kind(s, ParentOf(path)) = "folder" /\ Children(s, ParentOf(path)) = {} THEN Deleted(s, ParentOf(path)) ELSE s
\* The folders of the path left empty, from the deepest; a served variable stays.
Prune(s, path) ==
  FoldLeft(LAMBDA acc, i :
             LET folder == Parents(path)[Len(Parents(path)) + 1 - i] IN
             IF acc.stop \/ ~Exists(acc.s, folder) THEN acc
             ELSE IF Children(acc.s, folder) # {} \/ Kind(acc.s, folder) # "folder" THEN [acc EXCEPT !.stop = TRUE]
             ELSE [acc EXCEPT !.s = Deleted(@, folder)],
           [s |-> s, stop |-> FALSE], [i \in 1..Len(Parents(path)) |-> i]).s

\* The members served under id, the deepest first.
Under(s, id) == {m \in DOMAIN s.served : Contains(Parents(s.served[m]), id)}
Deepest(s, members) ==
  SetToSortSeq(members, LAMBDA m, n : Len(s.served[m]) > Len(s.served[n]) \/ (Len(s.served[m]) = Len(s.served[n]) /\ m > n))

RECURSIVE AddNode(_, _, _), Unserve(_, _, _, _, _), RemoveNode(_, _, _), Lift(_, _), Restore(_, _)

\* Mutant of Lift: the members stay where they are.
LiftNone(s, id) == [s |-> s, lifted |-> << >>]
\* Taken out, each with its path, to put back the shallowest first; one that can't be removed stays.
LiftOne(acc, m, removed) ==
  [s |-> removed.s, lifted |-> IF removed.ok THEN <<[member |-> m, path |-> acc.s.served[m]]>> \o acc.lifted ELSE acc.lifted]
Lift(s, id) ==
  FoldLeft(LAMBDA acc, m : IF m \notin DOMAIN acc.s.served THEN acc ELSE LiftOne(acc, m, RemoveNode(acc.s, m, TRUE)),
           [s |-> s, lifted |-> << >>], Deepest(s, Under(s, id)))
Restore(s, lifted) ==
  FoldLeft(LAMBDA acc, l : IF l.member \in DOMAIN acc.served THEN acc ELSE AddNode(acc, l.member, l.path), s, lifted)

\* The folders along the path, each made once under the one before.
Folders(s, path) ==
  FoldLeft(LAMBDA acc, i : IF Exists(acc, path[i]) THEN acc ELSE Added(acc, path[i], "folder", IF i = 1 THEN Root ELSE path[i - 1]),
           s, [i \in 1..Len(Parents(path)) |-> i])

\* Mutant of Mapped: the node is mapped once it is added.
MappedAfter(s, id) == s
Mapped(s, id) == [s EXCEPT !.access = @ \cup {id}]
Listed(s, m, path) == [s EXCEPT !.served = [x \in DOMAIN @ \cup {m} |-> IF x = m THEN path ELSE @[x]]]

\* AddNode: mapped, the folder standing in for it lifted away, the folders of its path, the variable, its configuration and its
\* configuration's mapping.  A throw undoes what was added, and what can't be undone stays listed.
Undone(undone, m, path) == IF undone.ok THEN undone.s ELSE Listed(undone.s, m, path)
AddVariable(s, m, path) ==
  LET id == IdOf[m]
      variable == Added(s, id, "variable", ParentOf(path))
  IN  IF Exists(s, id) \/ id \in s.fails.add
      THEN Undone(Unserve(IF Exists(s, id) THEN s ELSE variable, m, path, ~Exists(s, id), TRUE), m, path)
      ELSE Listed([variable EXCEPT !.ha = @ \cup {id}, !.haAccess = @ \cup {id}, !.access = @ \cup {id}], m, path)
AddLifted(lift, m, path) == Restore(AddVariable(Folders(lift.s, path), m, path), lift.lifted)
AddNode(s, m, path) ==
  LET id == IdOf[m]
  IN  IF id \in s.access THEN s
      ELSE AddLifted(IF Kind(s, id) = "folder" THEN Lift(Mapped(s, id), id) ELSE [s |-> Mapped(s, id), lifted |-> << >>], m, path)

\* Mutant of Gone: unmapped whether or not the delete did.
GoneAnyway(s, id) == Unmapped(s, id)
Gone(s, id) == IF Exists(s, id) THEN s ELSE Unmapped(s, id)

\* Unserve: the configuration, then the members under the variable lifted, the variable, and the folders left empty.
UnserveLifted(lift, m, path, added, prune) ==
  LET id == IdOf[m]
      deleted == ~added \/ ~DeleteFails(lift.s, id)
      gone == Gone(IF added THEN Deleted(lift.s, id) ELSE [lift.s EXCEPT !.access = @ \ {id}], id)
  IN  [s |-> Restore(IF deleted /\ prune THEN Prune(gone, path) ELSE gone, lift.lifted), ok |-> deleted]
Unserve(s, m, path, added, prune) ==
  LET bare == [s EXCEPT !.ha = @ \ {IdOf[m]}, !.haAccess = @ \ {IdOf[m]}]
  IN  UnserveLifted(IF added /\ Children(bare, IdOf[m]) # {} THEN Lift(bare, IdOf[m]) ELSE [s |-> bare, lifted |-> << >>],
                    m, path, added, prune)

\* Mutant of RemoveNode: a node that couldn't be deleted is forgotten.
RemoveNodeAnyway(s, m, prune) ==
  IF m \notin DOMAIN s.served THEN [s |-> s, ok |-> TRUE]
  ELSE [s |-> [Unserve(s, m, s.served[m], TRUE, prune).s EXCEPT !.served = Restrict(@, DOMAIN @ \ {m})], ok |-> TRUE]
Unlisted(unserved, m) ==
  IF unserved.ok THEN [s |-> [unserved.s EXCEPT !.served = Restrict(@, DOMAIN @ \ {m})], ok |-> TRUE] ELSE unserved
RemoveNode(s, m, prune) ==
  IF m \notin DOMAIN s.served THEN [s |-> s, ok |-> TRUE] ELSE Unlisted(Unserve(s, m, s.served[m], TRUE, prune), m)

-----------------------------------------------------------------------------
(* The endpoint's thread.                                                  *)

Serve(s, members) ==
  FoldLeft(LAMBDA acc, m : IF m \in DOMAIN members /\ m \notin DOMAIN acc.served THEN AddNode(acc, m, members[m]) ELSE acc, s, Members)

\* The deepest members first, and their folders pruned once they have all gone.
RemoveMember(acc, m, removed) ==
  [s |-> removed.s, paths |-> IF removed.ok THEN Append(acc.paths, acc.s.served[m]) ELSE acc.paths]
Pruned(removed) == FoldLeft(Prune, removed.s, removed.paths)
RemoveGroup(s, g) ==
  Pruned(FoldLeft(LAMBDA acc, m : IF m \notin DOMAIN acc.s.served THEN acc ELSE RemoveMember(acc, m, RemoveNode(acc.s, m, FALSE)),
                  [s |-> s, paths |-> << >>], Deepest(s, {m \in DOMAIN s.served : GroupOf[m] = g})))

\* Mutant of Described: the node is added again beside itself.
DescribedInPlace(s, m, path) ==
  IF m \notin DOMAIN s.served THEN s ELSE Listed(s, m, path)
\* A node whose path changed is removed and added again, and stays where it is if it can't be removed.
AddedAgain(removed, m, path) == IF removed.ok THEN AddNode(removed.s, m, path) ELSE removed.s
Described(s, m, path) ==
  IF m \notin DOMAIN s.served \/ s.served[m] = path THEN s ELSE AddedAgain(RemoveNode(s, m, TRUE), m, path)

MembersOf(op) == IF op.op = "loaded" THEN op.members ELSE [m \in {op.member} |-> IF m \in DOMAIN host THEN host[m] ELSE op.path]
Applied(s, op) ==
  CASE op.op \in {"loaded", "joined"} -> Serve(s, MembersOf(op))
    [] op.op = "removed" -> RemoveGroup(s, op.group)
    [] op.op = "left" -> RemoveNode(s, op.member, TRUE).s
    [] op.op = "described" -> Described(s, op.member, op.path)

Faulty(fails) == [st EXCEPT !.fails = fails]
Calm(s) == [s EXCEPT !.fails = NoFault]
Fails ==
  IF count.faults = MaxFaults THEN {NoFault}
  ELSE {[add |-> add, delete |-> delete] : add \in {{}} \cup {{id} : id \in Range(IdOf)}, delete \in {{}} \cup {{id} : id \in Ids}}

\* Mutant of Serial: what comes before Start is dropped, Start reading the hosts.
SerialDrops(fails) ==
  /\ posted # << >> /\ posted' = Tail(posted)
  /\ IF start.at = "done" THEN st' = Calm(Applied(Faulty(fails), Head(posted))) /\ UNCHANGED held ELSE UNCHANGED <<st, held>>
  /\ count' = [count EXCEPT !.faults = IF fails = NoFault THEN @ ELSE @ + 1]
  /\ UNCHANGED <<host, loaded, start>>
\* The next posted: applied, or held while there is no server.
Serial(fails) ==
  /\ posted # << >> /\ posted' = Tail(posted)
  /\ IF start.at = "done" THEN st' = Calm(Applied(Faulty(fails), Head(posted))) /\ UNCHANGED held
     ELSE held' = Append(held, Head(posted)) /\ fails = NoFault /\ UNCHANGED st
  /\ count' = [count EXCEPT !.faults = IF fails = NoFault THEN @ ELSE @ + 1]
  /\ UNCHANGED <<host, loaded, start>>

\* Start: the groups as the historian is now; then, under the lock, their members as the hosts have them, and what was held.
StartReads ==
  /\ start.at = "no" /\ start' = [at |-> "read", groups |-> loaded]
  /\ UNCHANGED <<host, loaded, posted, held, st, count>>
StartServes ==
  /\ start.at = "read" /\ start' = [at |-> "done", groups |-> {}]
  /\ st' = FoldLeft(Applied, Serve(st, Restrict(host, {m \in DOMAIN host : GroupOf[m] \in start.groups})), held)
  /\ held' = << >> /\ UNCHANGED <<host, loaded, posted, count>>

-----------------------------------------------------------------------------
(* The hosts, as their hooks post.                                         *)

Changes(op) ==
  /\ count.changes < MaxChanges /\ count' = [count EXCEPT !.changes = @ + 1]
  /\ posted' = Append(posted, op) /\ UNCHANGED <<held, start, st>>
Of(g) == {m \in Range(Members) : GroupOf[m] = g}

GroupLoaded(g, members) ==
  /\ g \notin loaded /\ loaded' = loaded \cup {g} /\ members \subseteq Of(g)
  /\ \E path \in [members -> UNION {Paths[m] : m \in members}] :
       /\ \A m \in members : path[m] \in Paths[m]
       /\ host' = [m \in DOMAIN host \cup members |-> IF m \in members THEN path[m] ELSE host[m]]
       /\ Changes([op |-> "loaded", members |-> path])
GroupRemoved(g) ==
  /\ g \in loaded /\ loaded' = loaded \ {g} /\ host' = Restrict(host, DOMAIN host \ Of(g)) /\ Changes([op |-> "removed", group |-> g])
NodeJoined(m) ==
  /\ GroupOf[m] \in loaded /\ m \notin DOMAIN host
  /\ \E path \in Paths[m] :
       /\ host' = [n \in DOMAIN host \cup {m} |-> IF n = m THEN path ELSE host[n]]
       /\ Changes([op |-> "joined", member |-> m, path |-> path])
  /\ UNCHANGED loaded
NodeLeft(m) ==
  /\ m \in DOMAIN host /\ host' = Restrict(host, DOMAIN host \ {m})
  /\ Changes([op |-> "left", member |-> m]) /\ UNCHANGED loaded
NodeDescribed(m, path) ==
  /\ m \in DOMAIN host /\ host[m] # path /\ path # << >> /\ host' = [host EXCEPT ![m] = path]
  /\ Changes([op |-> "described", member |-> m, path |-> path]) /\ UNCHANGED loaded

Next ==
  \/ \E fails \in Fails : Serial(fails)
  \/ StartReads \/ StartServes
  \/ \E g \in Groups : GroupRemoved(g) \/ \E members \in SUBSET Of(g) : GroupLoaded(g, members)
  \/ \E m \in Range(Members) : NodeJoined(m) \/ NodeLeft(m) \/ \E path \in Paths[m] : NodeDescribed(m, path)

Spec == Init /\ [][Next]_vars

-----------------------------------------------------------------------------
TypeOK ==
  /\ DOMAIN host \subseteq Range(Members) /\ loaded \subseteq Groups /\ start.at \in {"no", "read", "done"}
  /\ DOMAIN st.space \subseteq Ids /\ DOMAIN st.served \subseteq Range(Members) /\ st.access \subseteq Ids /\ st.ha \subseteq Ids
  /\ \A m \in DOMAIN st.served : st.served[m] \in Paths[m]

\* A member's node is mapped to its group whenever it is in the address space - through an add, a lift, a failed delete - so no
\* session meets it outside its group's rights; its configuration's nodes are too.
MappedWhileThere == ~st.exposed /\ st.ha \subseteq st.haAccess /\ \A id \in DOMAIN st.space : Kind(st, id) = "variable" => id \in st.access

\* Every member's variable left in the address space is listed with its group, so its removal is tried again.
ThereIsListed == \A id \in DOMAIN st.space : Kind(st, id) = "variable" => \E m \in DOMAIN st.served : IdOf[m] = id

\* With nothing posted or held, the members served are the ones the hosts have, each a variable under the last node of its path.
InStep ==
  (start.at = "done" /\ posted = << >> /\ count.faults = 0) =>
    /\ st.served = host
    /\ \A m \in DOMAIN host : st.space[IdOf[m]] = [kind |-> "variable", parent |-> ParentOf(host[m])]

\* Every node hangs off one that is there, and every folder left is on the path of a member still served: a member that goes takes
\* the folders it leaves empty with it.
NoEmptyFolder ==
  \A id \in DOMAIN st.space :
    /\ st.space[id].parent = Root \/ Exists(st, st.space[id].parent)
    /\ count.faults = 0 /\ Kind(st, id) = "folder" => \E m \in DOMAIN st.served : Contains(Parents(st.served[m]), id)
=============================================================================
