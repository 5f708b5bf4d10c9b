------------------------------ MODULE MCApp ------------------------------
(*****************************************************************************)
(* Small instances of the applications' side: a client's socket, the         *)
(* sockets of an application server, a client's subscriptions over           *)
(* reconnects, and the rights that access grants. One run checks them all,   *)
(* each behaviour one component's.                                           *)
(*****************************************************************************)
EXTENDS Integers, Sequences, FiniteSets

VARIABLES
  part, \* the component whose instance runs
  socket_core, socket_strand, socket_held, socket_reading, socket_caller, socket_tasks, socket_timer, socket_drains,
  socket_erring, socket_closer, socket_closeHandle, socket_sent, socket_resumes, socket_closes, socket_late,
  conflict_reg, conflict_closing, conflict_sessions, conflict_claims, conflict_rows, conflict_authorizer,
  conflict_nextId, conflict_forward, conflict_query, conflict_received, conflict_resumes, conflict_late,
  conflict_crossed,
  again_reg, again_closing, again_sessions, again_claims, again_rows, again_authorizer, again_nextId, again_forward,
  again_query, again_received, again_resumes, again_late, again_crossed,
  session_session, session_connect, session_posted, session_subs, session_asked, session_remembered, session_replay,
  session_leaving, session_left, session_missed, session_refused, session_used,
  access_c, access_adding, access_events

\* Two sockets of one endpoint, and one of another whose schema conflicts.
EndpointOf == [s1 |-> "e", s2 |-> "e", s3 |-> "f"]
Conflicting == {<<"s1", "s3">>, <<"s3", "s1">>, <<"s2", "s3">>, <<"s3", "s2">>}
Asking == [f1 |-> "c"]

\* What a snapshot of the access tables may hold: two users, groups within groups, roles within roles, and three lists
\* of what they hold.
Resource(key) == [key |-> key, deleted |-> FALSE]
ResourceKeys == [x |-> {<<"n", "">>}, y |-> {<<"n", "k">>, <<"o", "">>}]
GrantsOf == {[resource |-> "x", allowed |-> {"b"}, denied |-> {}], [resource |-> "y", allowed |-> {}, denied |-> {"b"}],
             [resource |-> "y", allowed |-> {"b"}, denied |-> {}]}
Of(members) == [deleted |-> FALSE, members |-> members]
SnapshotsOf ==
  {[users |-> {"u", "v"}, groups |-> [g |-> Of({"u"}), h |-> Of({"g", "v"})], roles |-> [r |-> Of({"p"}), q |-> Of({"r"})],
    permissions |-> [p |-> [resource |-> "x", allowed |-> {"b"}, denied |-> {}]], acl |-> acl,
    resources |-> [x |-> Resource(<<"n", "">>), y |-> Resource(<<"n", "k">>)]] :
     acl \in {{}, {<<"h", "q">>}, {<<"u", "q">>, <<"g", "p">>}}}

\* A client socket, two requests and a closer.
Socket == INSTANCE ClientSocket WITH Requests <- {"r1", "r2"}, Closers <- {"a1"}, core <- socket_core,
  strand <- socket_strand, held <- socket_held, reading <- socket_reading, caller <- socket_caller,
  tasks <- socket_tasks, timer <- socket_timer, drains <- socket_drains, erring <- socket_erring,
  closer <- socket_closer, closeHandle <- socket_closeHandle, sent <- socket_sent, resumes <- socket_resumes,
  closes <- socket_closes, late <- socket_late
\* Two instances whose schemas conflict.
Conflict == INSTANCE AppInstances WITH EndpointOf <- EndpointOf, Conflicts <- Conflicting, Requesters <- Asking,
  Queries <- {"q1"}, Sockets <- {"s1", "s3"}, reg <- conflict_reg, closing <- conflict_closing,
  sessions <- conflict_sessions, claims <- conflict_claims, rows <- conflict_rows, authorizer <- conflict_authorizer,
  nextId <- conflict_nextId, forward <- conflict_forward, query <- conflict_query, received <- conflict_received,
  resumes <- conflict_resumes, late <- conflict_late, crossed <- conflict_crossed
\* One endpoint connecting twice.
Again == INSTANCE AppInstances WITH EndpointOf <- EndpointOf, Conflicts <- Conflicting, Requesters <- Asking,
  Queries <- {}, Sockets <- {"s1", "s2"}, reg <- again_reg, closing <- again_closing, sessions <- again_sessions,
  claims <- again_claims, rows <- again_rows, authorizer <- again_authorizer, nextId <- again_nextId,
  forward <- again_forward, query <- again_query, received <- again_received, resumes <- again_resumes,
  late <- again_late, crossed <- again_crossed
\* An application's two subscriptions over its session's losses.
Session == INSTANCE AppReconnect WITH Queries <- {"q1", "q2"}, MaxReplayFailures <- 2, MaxLosses <- 2,
  MaxRefusals <- 2, MaxIds <- 4, session <- session_session, connect <- session_connect, posted <- session_posted,
  subs <- session_subs, asked <- session_asked, remembered <- session_remembered, replay <- session_replay,
  leaving <- session_leaving, left <- session_left, missed <- session_missed, refused <- session_refused,
  used <- session_used
\* The permissions of two users, over events of the access tables.
Access == INSTANCE Authorize WITH UserPKs <- {"u", "v"}, GroupPKs <- {"g", "h"}, RolePKs <- {"r", "q"},
  PermissionPKs <- {"p", "o"}, ResourcePKs <- {"x", "y"}, RowKeys <- ResourceKeys, Bits <- {"b"}, Grants <- GrantsOf,
  Snapshots <- SnapshotsOf, MaxEvents <- 2, c <- access_c, adding <- access_adding, events <- access_events

socketVars == <<socket_core, socket_strand, socket_held, socket_reading, socket_caller, socket_tasks, socket_timer,
  socket_drains, socket_erring, socket_closer, socket_closeHandle, socket_sent, socket_resumes, socket_closes,
  socket_late>>
conflictVars == <<conflict_reg, conflict_closing, conflict_sessions, conflict_claims, conflict_rows,
  conflict_authorizer, conflict_nextId, conflict_forward, conflict_query, conflict_received, conflict_resumes,
  conflict_late, conflict_crossed>>
againVars == <<again_reg, again_closing, again_sessions, again_claims, again_rows, again_authorizer, again_nextId,
  again_forward, again_query, again_received, again_resumes, again_late, again_crossed>>
sessionVars == <<session_session, session_connect, session_posted, session_subs, session_asked, session_remembered,
  session_replay, session_leaving, session_left, session_missed, session_refused, session_used>>
accessVars == <<access_c, access_adding, access_events>>
vars == <<part, socketVars, conflictVars, againVars, sessionVars, accessVars>>

Init ==
  /\ part \in {"socket", "conflict", "again", "session", "access"}
  /\ \/ part = "socket" /\ Socket!Init
     \/ part # "socket" /\ socket_core = 0 /\ socket_strand = 0 /\ socket_held = 0 /\ socket_reading = 0 /\
        socket_caller = 0 /\ socket_tasks = 0 /\ socket_timer = 0 /\ socket_drains = 0 /\ socket_erring = 0 /\
        socket_closer = 0 /\ socket_closeHandle = 0 /\ socket_sent = 0 /\ socket_resumes = 0 /\ socket_closes = 0 /\
        socket_late = 0
  /\ Conflict!Init
  /\ Again!Init
  /\ Session!Init
  /\ \/ part = "access" /\ Access!Init
     \/ part # "access" /\ access_c = 0 /\ access_adding = 0 /\ access_events = 0

Next ==
  \/ part = "socket" /\ Socket!Next /\ UNCHANGED <<part, conflictVars, againVars, sessionVars, accessVars>>
  \/ part = "conflict" /\ Conflict!Next /\ UNCHANGED <<part, socketVars, againVars, sessionVars, accessVars>>
  \/ part = "again" /\ Again!Next /\ UNCHANGED <<part, socketVars, conflictVars, sessionVars, accessVars>>
  \/ part = "session" /\ Session!Next /\ UNCHANGED <<part, socketVars, conflictVars, againVars, accessVars>>
  \/ part = "access" /\ Access!Next /\ UNCHANGED <<part, socketVars, conflictVars, againVars, sessionVars>>

Spec == Init /\ [][Next]_vars

\* ClientSocketSession: one write at a time, a task of a request resumed once, a pending one guarded by its timer
\* or the close, a read out or the session ending, and torn down once.
SocketIsSound ==
  /\ part = "socket" => Socket!TypeOK /\ Socket!OneWriteOp /\ Socket!ResumedOnce /\ Socket!PendingIsGuarded /\
       Socket!ReadOrEnding /\ Socket!TornDownOnce

\* AppServer's sockets: instances that serve one name agree on its schema, an endpoint is listed once, a forwarded
\* query has its two ends and is resumed once, the authorizer is one live session's, and a socket gone is in no
\* list.
InstancesAreRouted ==
  /\ Conflict!TypeOK /\ Conflict!OneSchemaPerInstance /\ Conflict!ResumedOnce /\ Conflict!OneRouter /\
       Conflict!ForwardHasItsEnds /\ Conflict!GoneIsForgotten /\ Conflict!OneListedPerEndpoint
  /\ Again!TypeOK /\ Again!OneSchemaPerInstance /\ Again!ResumedOnce /\ Again!OneRouter /\ Again!ForwardHasItsEnds /\
       Again!GoneIsForgotten /\ Again!OneListedPerEndpoint

\* IAppClient: a live subscription is remembered for the next session, and one left is not asked for again.
SubscriptionsAreKept == Session!TypeOK /\ Session!LiveIsRemembered /\ Session!LeftStaysLeft

\* Authorize: what a user is allowed follows the groups, roles, permissions and resources as the events left them,
\* whichever way it is asked.
RightsAreTheTables ==
  /\ part = "access" => Access!TypeOK /\ Access!ShownIsEnforced /\ Access!HoldersAreEnforced /\
       Access!IndexIsTheLiveRows /\ Access!AnswersAgree
=============================================================================
