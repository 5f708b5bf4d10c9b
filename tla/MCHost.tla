------------------------------ MODULE MCHost ------------------------------
(*****************************************************************************)
(* The gateway's historian host and its own server: hosted groups            *)
(* (HistGroupHost, HistDescribe), their subscribers (HistSubscribe), the     *)
(* tables they come from (HistAdmin), and what is served of them             *)
(* (ServedWrites, ServedNodes, ServedConnection, ServedValues). One run      *)
(* checks them all, each behaviour one component's.                          *)
(*****************************************************************************)
EXTENDS Integers, Sequences, FiniteSets

VARIABLES
  part, \* the component whose instance runs
  group_node, group_host, group_pass, group_verify, group_calls, group_held, group_connected, group_client,
  group_wrong, group_count,
  describe_version, describe_up, describe_node, describe_row, describe_batch, describe_describing,
  describe_toDescribe, describe_d, describe_dropped, describe_count,
  sub_store, sub_group, sub_collecting, sub_scheduled, sub_sub, sub_claims, sub_strand, sub_busy, sub_out, sub_open,
  subs_store, subs_group, subs_collecting, subs_scheduled, subs_sub, subs_claims, subs_strand, subs_busy, subs_out,
  subs_open,
  admin_groupRow, admin_rows, admin_members, admin_hosts, admin_library, admin_stopped, admin_call, admin_count,
  write_operation, write_queue, write_forward, write_ready, write_scheduled, write_server, write_stopped, write_stop,
  write_sent, write_set, write_ended, write_count,
  nodes_host, nodes_loaded, nodes_posted, nodes_held, nodes_start, nodes_st, nodes_count,
  state_client, state_telling, state_row, state_hook, state_posted, state_held, state_started, state_shown,
  state_outage, state_recovered, state_crossed, state_early, state_count,
  values_array, values_group, values_nodes, values_indexes, values_posted, values_host, values_start, values_meant,
  values_write, values_early, values_count

\* Two members whose browse paths a second answer swaps.
PathIds == << [a |-> 1, b |-> 2], [a |-> 2, b |-> 1] >>

\* Two subscriptions of one id.
SubIds == [a |-> 1, b |-> 1]

\* Tables a gateway starts from: none; a group of a template's member and a node of its own; a deleted one beside another.
MemberPaths == [m |-> "a"]
Grp(at, columns) == [at |-> at, columns |-> columns]
Row(n, g, m, own) == [node |-> n, group |-> g, member |-> m, own |-> own]
Tables ==
  {[groups |-> [g |-> Grp("none", 0), h |-> Grp("none", 0)], rows |-> << >>, members |-> << >>],
   [groups |-> [g |-> Grp("live", 0), h |-> Grp("none", 0)], rows |-> <<Row("a", "g", "m", 0), Row("b", "g", "none", 0)>>,
    members |-> [m |-> 3]],
   [groups |-> [g |-> Grp("deleted", 1), h |-> Grp("live", 0)],
    rows |-> <<Row("b", "g", "none", 2), Row("a", "h", "none", 2)>>, members |-> [m |-> 3]]}
Mutations == {"createGroup", "deleteGroup", "restoreGroup", "purgeGroup", "updateGroup", "createNode", "updateNode",
              "purgeNode", "createMember", "purgeMember", "updateMember", "resolve"}

\* Members served at several paths, one below another's.
ServedIds == <<"v", "c", "e">>
ServedGroups == <<"g", "h", "g">>
ServedPaths == << {<<"f", "v">>}, {<<"f", "v", "c">>}, {<<>>, <<"f", "k", "e">>, <<"f", "v", "c", "e">>} >>

\* Namespace arrays a source may have.
NamespaceArrays == {<<"a", "b">>, <<"b", "a">>, <<"b">>}

\* A hosted group of two members, its connection breaking once.
GroupHost == INSTANCE HistGroupHost WITH Members <- {"a", "b"}, IdOf <- PathIds, MaxBreaks <- 1, MaxRemovals <- 0,
  MaxRefusals <- 1, MaxEdits <- 1, node <- group_node, host <- group_host, pass <- group_pass, verify <- group_verify,
  calls <- group_calls, held <- group_held, connected <- group_connected, client <- group_client,
  wrong <- group_wrong, count <- group_count
\* The describes of a hosted group's members.
Describes == INSTANCE HistDescribe WITH Members <- {1, 2}, Batch <- 2, Limit <- 1, MaxVersions <- 2, MaxBreaks <- 1,
  MaxRefusals <- 1, version <- describe_version, up <- describe_up, node <- describe_node, row <- describe_row,
  batch <- describe_batch, describing <- describe_describing, toDescribe <- describe_toDescribe, d <- describe_d,
  dropped <- describe_dropped, count <- describe_count
\* One subscription's snapshot pages and pushes.
Subscriber == INSTANCE HistSubscribe WITH Subs <- {"a"}, IdOf <- SubIds, Kinds <- {"value", "beat"}, MaxRecords <- 2,
  PageLimit <- 1, store <- sub_store, group <- sub_group, collecting <- sub_collecting, scheduled <- sub_scheduled,
  sub <- sub_sub, claims <- sub_claims, strand <- sub_strand, busy <- sub_busy, out <- sub_out, open <- sub_open
\* Two subscriptions of one id, one after the other.
Subscribers == INSTANCE HistSubscribe WITH Subs <- {"a", "b"}, IdOf <- SubIds, Kinds <- {"value"}, MaxRecords <- 0,
  PageLimit <- 1, store <- subs_store, group <- subs_group, collecting <- subs_collecting,
  scheduled <- subs_scheduled, sub <- subs_sub, claims <- subs_claims, strand <- subs_strand, busy <- subs_busy,
  out <- subs_out, open <- subs_open
\* Two mutations of the history tables at once, and one statement that fails or one restart.
Admin == INSTANCE HistAdmin WITH Groups <- {"g", "h"}, Nodes <- {"a", "b"}, NodeOf <- MemberPaths, Tables <- Tables,
  Calls <- {"c", "d"}, Ops <- Mutations, MaxCalls <- 2, MaxFaults <- 1, MaxRestarts <- 1, groupRow <- admin_groupRow,
  rows <- admin_rows, members <- admin_members, hosts <- admin_hosts, library <- admin_library,
  stopped <- admin_stopped, call <- admin_call, count <- admin_count
\* Writes forwarded to two nodes.
Writes == INSTANCE ServedWrites WITH Nodes <- {"n", "m"}, Addresses <- {1, 2}, MaxWrites <- 3,
  operation <- write_operation, queue <- write_queue, forward <- write_forward, ready <- write_ready,
  scheduled <- write_scheduled, server <- write_server, stopped <- write_stopped, stop <- write_stop,
  sent <- write_sent, set <- write_set, ended <- write_ended, count <- write_count
\* Members served at their paths.
Nodes == INSTANCE ServedNodes WITH Members <- <<1, 2, 3>>, IdOf <- ServedIds, GroupOf <- ServedGroups,
  Paths <- ServedPaths, MaxChanges <- 3, MaxFaults <- 1, host <- nodes_host, loaded <- nodes_loaded,
  posted <- nodes_posted, held <- nodes_held, start <- nodes_start, st <- nodes_st, count <- nodes_count
\* A served connection and its counters, two credentials.
State == INSTANCE ServedConnection WITH Credentials <- {"c", "d"}, MaxChanges <- 4, MaxRows <- 2,
  client <- state_client, telling <- state_telling, row <- state_row, hook <- state_hook, posted <- state_posted,
  held <- state_held, started <- state_started, shown <- state_shown, outage <- state_outage,
  recovered <- state_recovered, crossed <- state_crossed, early <- state_early, count <- state_count
\* The served values of two members.
Served == INSTANCE ServedValues WITH Members <- {"m", "n"}, Uris <- {"a", "b"}, Arrays <- NamespaceArrays,
  MaxChanges <- 5, array <- values_array, group <- values_group, nodes <- values_nodes, indexes <- values_indexes,
  posted <- values_posted, host <- values_host, start <- values_start, meant <- values_meant, write <- values_write,
  early <- values_early, count <- values_count

groupVars == <<group_node, group_host, group_pass, group_verify, group_calls, group_held, group_connected,
  group_client, group_wrong, group_count>>
describeVars == <<describe_version, describe_up, describe_node, describe_row, describe_batch, describe_describing,
  describe_toDescribe, describe_d, describe_dropped, describe_count>>
subVars == <<sub_store, sub_group, sub_collecting, sub_scheduled, sub_sub, sub_claims, sub_strand, sub_busy, sub_out,
  sub_open>>
subsVars == <<subs_store, subs_group, subs_collecting, subs_scheduled, subs_sub, subs_claims, subs_strand, subs_busy,
  subs_out, subs_open>>
adminVars == <<admin_groupRow, admin_rows, admin_members, admin_hosts, admin_library, admin_stopped, admin_call,
  admin_count>>
writeVars == <<write_operation, write_queue, write_forward, write_ready, write_scheduled, write_server, write_stopped,
  write_stop, write_sent, write_set, write_ended, write_count>>
nodesVars == <<nodes_host, nodes_loaded, nodes_posted, nodes_held, nodes_start, nodes_st, nodes_count>>
stateVars == <<state_client, state_telling, state_row, state_hook, state_posted, state_held, state_started,
  state_shown, state_outage, state_recovered, state_crossed, state_early, state_count>>
valuesVars == <<values_array, values_group, values_nodes, values_indexes, values_posted, values_host, values_start,
  values_meant, values_write, values_early, values_count>>
vars == <<part, groupVars, describeVars, subVars, subsVars, adminVars, writeVars, nodesVars, stateVars, valuesVars>>

\* The two callers are alike, so the second calls only while the first's is under way, with no fault, stop or restart
\* then.
AdminNext ==
  /\ Admin!Next
  /\ admin_count'.faults + admin_count'.restarts <= IF admin_count'.overlapped THEN 0 ELSE 1
  /\ admin_stopped' => ~admin_count'.overlapped
  /\ admin_call["d"] = << >> /\ admin_call'["d"] # << >> => admin_call["c"] # << >>

Init ==
  /\ part \in {"group", "describe", "sub", "subs", "admin", "write", "nodes", "state", "values"}
  /\ GroupHost!Init
  /\ Describes!Init
  /\ Subscriber!Init
  /\ Subscribers!Init
  /\ \/ part = "admin" /\ Admin!Init
     \/ part # "admin" /\ admin_groupRow = 0 /\ admin_rows = 0 /\ admin_members = 0 /\ admin_hosts = 0 /\
        admin_library = 0 /\ admin_stopped = 0 /\ admin_call = 0 /\ admin_count = 0
  /\ Writes!Init
  /\ Nodes!Init
  /\ \/ part = "state" /\ State!Init
     \/ part # "state" /\ state_client = 0 /\ state_telling = 0 /\ state_row = 0 /\ state_hook = 0 /\
        state_posted = 0 /\ state_held = 0 /\ state_started = 0 /\ state_shown = 0 /\ state_outage = 0 /\
        state_recovered = 0 /\ state_crossed = 0 /\ state_early = 0 /\ state_count = 0
  /\ \/ part = "values" /\ Served!Init
     \/ part # "values" /\ values_array = 0 /\ values_group = 0 /\ values_nodes = 0 /\ values_indexes = 0 /\
        values_posted = 0 /\ values_host = 0 /\ values_start = 0 /\ values_meant = 0 /\ values_write = 0 /\
        values_early = 0 /\ values_count = 0

Next ==
  \/ part = "group" /\ GroupHost!Next /\ UNCHANGED <<part, describeVars, subVars, subsVars, adminVars, writeVars,
       nodesVars, stateVars, valuesVars>>
  \/ part = "describe" /\ Describes!Next /\ UNCHANGED <<part, groupVars, subVars, subsVars, adminVars, writeVars,
       nodesVars, stateVars, valuesVars>>
  \/ part = "sub" /\ Subscriber!Next /\ UNCHANGED <<part, groupVars, describeVars, subsVars, adminVars, writeVars,
       nodesVars, stateVars, valuesVars>>
  \/ part = "subs" /\ Subscribers!Next /\ UNCHANGED <<part, groupVars, describeVars, subVars, adminVars, writeVars,
       nodesVars, stateVars, valuesVars>>
  \/ part = "admin" /\ AdminNext /\ UNCHANGED <<part, groupVars, describeVars, subVars, subsVars, writeVars,
       nodesVars, stateVars, valuesVars>>
  \/ part = "write" /\ Writes!Next /\ UNCHANGED <<part, groupVars, describeVars, subVars, subsVars, adminVars,
       nodesVars, stateVars, valuesVars>>
  \/ part = "nodes" /\ Nodes!Next /\ UNCHANGED <<part, groupVars, describeVars, subVars, subsVars, adminVars,
       writeVars, stateVars, valuesVars>>
  \/ part = "state" /\ State!Next /\ UNCHANGED <<part, groupVars, describeVars, subVars, subsVars, adminVars,
       writeVars, nodesVars, valuesVars>>
  \/ part = "values" /\ Served!Next /\ UNCHANGED <<part, groupVars, describeVars, subVars, subsVars, adminVars,
       writeVars, nodesVars, stateVars>>

Spec == Init /\ [][Next]_vars

\* HistGroupHost: a value goes to the member whose node it is (RightMember), a member without an item has a pass, a
\* retry or a call that will ask for it, no value is collected in a gap (Broken to Connected), and a closed host
\* leaves no item; HistGroupHost's describes: none is forgotten, and a row holds what the host has (Describe,
\* Written).
HostingIsSound ==
  /\ GroupHost!TypeOK /\ GroupHost!RightMember /\ GroupHost!MembersAreAsked /\ GroupHost!NoValueInAGap /\
       GroupHost!ClosedHasNoItems
  /\ Describes!TypeOK /\ Describes!NoneForgotten /\ Describes!RowIsTheHosts

\* HistSubscriber: between its snapshot and its pushes a subscriber is told each record once and in order, and one
\* that ended is let go by the group and the session.
SubscribersAreTold ==
  /\ Subscriber!TypeOK /\ Subscriber!EachRecordOnce /\ Subscriber!InOrder /\ Subscriber!EndedIsLetGo
  /\ Subscribers!TypeOK /\ Subscribers!EachRecordOnce /\ Subscribers!InOrder /\ Subscribers!EndedIsLetGo

\* HistHost and HistGroupMAwait: a node collected has its row, with no failed statement and no overlap the hosts
\* agree with the tables, a group added to the historian is a host's, and a member resolved Good has its row.
TablesAreHosted ==
  /\ part = "admin" => Admin!TypeOK /\ Admin!CollectedHasItsRow /\ Admin!InStep /\ Admin!AddedIsOwned /\
       Admin!GoodHasItsRow

\* ServedWrites: an answer is set on its own write's operation, a node's writes go out in their order, and a queue
\* has a forward under way.
WritesAreAnswered == Writes!TypeOK /\ Writes!AnswerIsItsOwn /\ Writes!InOrder /\ Writes!NoStuckQueue

\* GatewayServer: a node of the address space has its mapping and is listed, and in step with its group, with no
\* folder left empty; Connected and Reconnects follow the clients' states (GatewayServer::ConnectionChanged); a
\* served value reads as its source meant it, and Good only while current (ServedValues).
ServedIsTheSource ==
  /\ Nodes!TypeOK /\ Nodes!MappedWhileThere /\ Nodes!ThereIsListed /\ Nodes!InStep /\ Nodes!NoEmptyFolder
  /\ part = "state" => State!TypeOK /\ State!ConnectedIsTrue /\ State!ReconnectsCounted
  /\ part = "values" => Served!TypeOK /\ Served!ReadsAsMeant /\ Served!GoodIsCurrent

\* ServedWrites: a write open62541 has cancelled is not sent after, and nothing is set on an operation once the
\* stop is done.
CancelledAndStopped == [][Writes!SendsNoneCancelled /\ Writes!SetsNoneStopped]_writeVars
=============================================================================
