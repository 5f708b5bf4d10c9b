---------------------------- MODULE AppInstances ----------------------------
(***************************************************************************)
(* The AppServer's sockets: an app instance registers over its socket      *)
(* (AddInstance), web clients have requests forwarded to it                *)
(* (ForwardExecutionAwait), the server asks it queries of its own          *)
(* (QueryClient), and its disconnect takes all of that back.  AddInstance  *)
(* awaits the database, so the rest of it runs off the strand the          *)
(* disconnect runs on.                                                     *)
(***************************************************************************)
EXTENDS Naturals, FiniteSets

CONSTANTS Sockets,      \* the sockets of app instances; a socket's connection pk is the socket
          EndpointOf,   \* the host and port each registers
          Conflicts,    \* the pairs that claim one instance with two resource schemas
          Requesters,   \* each forward's requesting socket, by forward
          Queries       \* the queries the server makes

Forwards == DOMAIN Requesters
Clients == {Requesters[f] : f \in Forwards}
None == "none"
Pending == {"resolved", "emplaced"}

VARIABLES reg,        \* how far AddInstance is on each socket
          closing,    \* how far each socket's OnClose is
          sessions,   \* _sessions
          claims,     \* _claims
          rows,       \* the connection rows not ended
          authorizer, \* the socket that answers admin checks of the schema
          nextId,     \* each socket's request ids
          forward,    \* each forward: its coroutine, target and request id
          query,      \* each query: its entry in the target's _pendingQueries
          received,   \* the requests that reached an instance and are not answered
          resumes,    \* how often each forward's and each query's caller was resumed
          late,       \* the sockets and forwards overtaken by a disconnect
          crossed     \* the sockets that looked for an endpoint's instance while another was registering it

vars == <<reg, closing, sessions, claims, rows, authorizer, nextId, forward, query, received, resumes, late, crossed>>

Stages == <<"open", "unlisted", "unauthorized", "cancelled", "closed">>
Past(s, stage) == \E i, j \in 1..5 : closing[s] = Stages[i] /\ Stages[j] = stage /\ i >= j
Published(s) == reg[s] = "published"
Answered(x) == resumes' = [resumes EXCEPT ![x] = @ + 1]

Init ==
  /\ reg = [s \in Sockets |-> "none"] /\ closing = [s \in Sockets \cup Clients |-> "open"]
  /\ sessions = Sockets \cup Clients /\ claims = {} /\ rows = {} /\ authorizer = None
  /\ nextId = [s \in Sockets |-> 1]
  /\ forward = [f \in Forwards |-> [state |-> "idle", target |-> None, id |-> 0]]
  /\ query = [q \in Queries |-> [state |-> "idle", target |-> None, id |-> 0]]
  /\ received = {} /\ resumes = [x \in Forwards \cup Queries |-> 0] /\ late = {} /\ crossed = {}

-----------------------------------------------------------------------------
(* AddInstance.                                                            *)

asks == <<nextId, forward, query, received, resumes, crossed>>

\* Mutant of Claim: only the instances already published are looked at.
ClaimPublished(s) ==
  /\ reg[s] = "none" /\ ~Past(s, "closed")
  /\ IF \E t \in Sockets \ {s} : <<s, t>> \in Conflicts /\ t \in sessions /\ Published(t) /\ ~Past(t, "closed")
     THEN reg' = [reg EXCEPT ![s] = "refused"] /\ UNCHANGED claims
     ELSE reg' = [reg EXCEPT ![s] = "claimed"] /\ claims' = claims \cup {s}
  /\ UNCHANGED <<closing, sessions, rows, authorizer, late>> /\ UNCHANGED asks

\* ClaimInstance: a socket that claims the instance, or holds it, refuses another schema's.
Claim(s) ==
  /\ reg[s] = "none" /\ ~Past(s, "closed")
  /\ IF \E t \in Sockets \ {s} : <<s, t>> \in Conflicts /\ (t \in claims \/ (t \in sessions /\ Published(t) /\ ~Past(t, "closed")))
     THEN reg' = [reg EXCEPT ![s] = "refused"] /\ UNCHANGED claims
     ELSE reg' = [reg EXCEPT ![s] = "claimed"] /\ claims' = claims \cup {s}
  /\ UNCHANGED <<closing, sessions, rows, authorizer, late>> /\ UNCHANGED asks

AddConnection(s) ==
  /\ reg[s] = "claimed" /\ reg' = [reg EXCEPT ![s] = "connected"]
  /\ rows' = rows \cup {s}
  /\ UNCHANGED <<closing, sessions, claims, authorizer, late>> /\ UNCHANGED asks

\* The hosts did not load: AddInstance ends in its exception, and its claim with it.
AddFails(s) ==
  /\ reg[s] = "connected" /\ reg' = [reg EXCEPT ![s] = "refused"]
  /\ claims' = claims \ {s}
  /\ UNCHANGED <<closing, sessions, rows, authorizer, late>> /\ UNCHANGED asks

\* Mutant of RemoveExisting: an evicted socket is left to its peer.
RemoveExistingOpen(s) ==
  /\ reg[s] = "connected" /\ reg' = [reg EXCEPT ![s] = "evicted"]
  /\ UNCHANGED <<closing, sessions, claims, rows, authorizer, late>> /\ UNCHANGED asks

\* RemoveExisting: what is registered for the endpoint is unlisted and closed.
RemoveExisting(s) ==
  LET existing == {t \in Sockets \cap sessions : Published(t) /\ EndpointOf[t] = EndpointOf[s]}
  IN  /\ reg[s] = "connected" /\ reg' = [reg EXCEPT ![s] = "evicted"]
      /\ sessions' = sessions \ existing
      /\ closing' = [t \in DOMAIN closing |-> IF t \in existing /\ closing[t] = "open" THEN "unlisted" ELSE closing[t]]
      /\ crossed' = IF \E t \in Sockets \ {s} : EndpointOf[t] = EndpointOf[s] /\ reg[t] \in {"evicted", "authorized"}
                    THEN crossed \cup {s} ELSE crossed
      /\ UNCHANGED <<claims, rows, authorizer, late, nextId, forward, query, received, resumes>>

\* AddAdminAuthorizer, where its user administers the schema: it replaces the one before.
Authorize(s) ==
  /\ reg[s] = "evicted" /\ reg' = [reg EXCEPT ![s] = "authorized"]
  /\ authorizer' \in {authorizer, s}
  /\ late' = IF Past(s, "unauthorized") THEN late \cup {s} ELSE late
  /\ UNCHANGED <<closing, sessions, claims, rows>> /\ UNCHANGED asks

\* All of the registration at once; the claim ends behind it.
Publish(s) ==
  /\ reg[s] = "authorized" /\ reg' = [reg EXCEPT ![s] = "published"]
  /\ claims' = claims \ {s}
  /\ late' = IF Past(s, "cancelled") THEN late \cup {s} ELSE late
  /\ UNCHANGED <<closing, sessions, rows, authorizer>> /\ UNCHANGED asks

-----------------------------------------------------------------------------
(* OnClose, on the socket's strand.                                        *)

registry == <<reg, claims, crossed>>

Unlist(s) ==
  /\ closing[s] = "open" /\ closing' = [closing EXCEPT ![s] = "unlisted"]
  /\ sessions' = sessions \ {s}
  /\ UNCHANGED <<rows, authorizer, late>> /\ UNCHANGED <<reg, claims>> /\ UNCHANGED asks

\* Mutant of RemoveAdminAuthorizer: the registration is left to its schema's next instance.
RemoveAdminAuthorizerKept(s) ==
  /\ closing[s] = "unlisted" /\ closing' = [closing EXCEPT ![s] = "unauthorized"]
  /\ UNCHANGED <<sessions, rows, authorizer, late>> /\ UNCHANGED <<reg, claims>> /\ UNCHANGED asks

RemoveAdminAuthorizer(s) ==
  /\ closing[s] = "unlisted" /\ closing' = [closing EXCEPT ![s] = "unauthorized"]
  /\ authorizer' = IF authorizer = s THEN None ELSE authorizer
  /\ UNCHANGED <<sessions, rows, late>> /\ UNCHANGED <<reg, claims>> /\ UNCHANGED asks

\* Mutant of Cancelled: a requester's disconnect alone cancels.
CancelledByRequester(s) == {f \in Forwards : forward[f].state = "emplaced" /\ Requesters[f] = s}
\* The forwards a disconnect cancels: those of its requests, and those addressed to it.
Cancelled(s) ==
  {f \in Forwards : forward[f].state = "emplaced"
     /\ (Requesters[f] = s \/ (s \in Sockets /\ Published(s) /\ forward[f].target = s))}

\* OnCloseConnection, then EndConnection, with the pk published by now.
OnCloseConnection(s) ==
  /\ closing[s] = "unauthorized" /\ closing' = [closing EXCEPT ![s] = "cancelled"]
  /\ forward' = [f \in Forwards |-> IF f \in Cancelled(s) THEN [forward[f] EXCEPT !.state = "done"] ELSE forward[f]]
  /\ resumes' = [x \in DOMAIN resumes |-> IF x \in Cancelled(s) THEN resumes[x] + 1 ELSE resumes[x]]
  /\ rows' = IF s \in Sockets /\ Published(s) THEN rows \ {s} ELSE rows
  /\ UNCHANGED <<sessions, authorizer, nextId, query, received, late>> /\ UNCHANGED registry

\* Mutant of Waiting: an entry whose caller was resumed is taken again.
WaitingOrTaken(s) == {q \in Queries : query[q].target = s /\ query[q].state \in {"waiting", "taken"}}
\* The queries whose callers wait for this socket.
Waiting(s) == {q \in Queries : query[q].target = s /\ query[q].state = "waiting"}

\* base::OnClose: the pending queries fail, their timers cancelled; the stream goes.
OnClose(s) ==
  /\ closing[s] = "cancelled" /\ closing' = [closing EXCEPT ![s] = "closed"]
  /\ query' = [q \in Queries |-> IF q \in Waiting(s) THEN [query[q] EXCEPT !.state = "taken"] ELSE query[q]]
  /\ resumes' = [x \in DOMAIN resumes |-> IF x \in Waiting(s) THEN resumes[x] + 1 ELSE resumes[x]]
  /\ received' = {m \in received : m[1] # s}
  /\ UNCHANGED <<sessions, rows, authorizer, nextId, forward, late>> /\ UNCHANGED registry

-----------------------------------------------------------------------------
(* A forwarded request.                                                    *)

server == <<reg, closing, sessions, claims, rows, authorizer, crossed>>

\* FindApp: any listed instance whose registration is published; none refuses the request.
FindApp(f) ==
  LET found == {s \in Sockets \cap sessions : Published(s)}
  IN  /\ forward[f].state = "idle" /\ ~Past(Requesters[f], "closed")
      /\ \/ \E s \in found : forward' = [forward EXCEPT ![f].state = "resolved", ![f].target = s] /\ UNCHANGED resumes
         \/ /\ found = {}
            /\ forward' = [forward EXCEPT ![f].state = "done"] /\ Answered(f)
      /\ UNCHANGED <<nextId, query, received, late>> /\ UNCHANGED server

\* The entry, under the target's own next id, before the request goes out.
Emplace(f) ==
  LET t == forward[f].target
  IN  /\ forward[f].state = "resolved"
      /\ forward' = [forward EXCEPT ![f].state = "emplaced", ![f].id = nextId[t]]
      /\ nextId' = [nextId EXCEPT ![t] = @ + 1]
      /\ received' = IF Past(t, "closed") THEN received ELSE received \cup {<<t, nextId[t]>>}
      /\ late' = IF Past(t, "cancelled") \/ Past(Requesters[f], "cancelled") THEN late \cup {f} ELSE late
      /\ UNCHANGED <<query, resumes>> /\ UNCHANGED server

\* Mutant of SendQuery: a query's id is its own count's.
SendQueryOwnId(q, t) ==
  /\ query[q].state = "idle" /\ t = authorizer
  /\ query' = [query EXCEPT ![q] = [state |-> "waiting", target |-> t, id |-> 1]]
  /\ received' = IF Past(t, "closed") THEN received ELSE received \cup {<<t, 1>>}
  /\ UNCHANGED <<nextId, forward, resumes, late>> /\ UNCHANGED server

\* QueryClient, of the instance that answers admin checks: its entry and its timer, then the request.
SendQuery(q, t) ==
  /\ query[q].state = "idle" /\ t = authorizer
  /\ query' = [query EXCEPT ![q] = [state |-> "waiting", target |-> t, id |-> nextId[t]]]
  /\ nextId' = [nextId EXCEPT ![t] = @ + 1]
  /\ received' = IF Past(t, "closed") THEN received ELSE received \cup {<<t, nextId[t]>>}
  /\ UNCHANGED <<forward, resumes, late>> /\ UNCHANGED server

Pends(entry, t, id) == entry.target = t /\ entry.id = id

\* The timer passed, or was cancelled: its resumption erases the entry, and fails a caller that still waits.
QueryTimer(q) ==
  /\ query[q].state \in {"waiting", "taken"}
  /\ query' = [query EXCEPT ![q].state = "done"]
  /\ resumes' = IF query[q].state = "waiting" THEN [resumes EXCEPT ![q] = @ + 1] ELSE resumes
  /\ UNCHANGED <<nextId, forward, received, late>> /\ UNCHANGED server

\* A reply: a result goes to the queries or to the forwards by its kind, an exception to the queries and then to the
\* forwards.  A reply nothing waits for is logged.
Reply(t, id) ==
  /\ <<t, id>> \in received /\ received' = received \ {<<t, id>>} /\ ~Past(t, "closed")
  /\ \/ \E q \in Queries : /\ Pends(query[q], t, id) /\ query[q].state = "waiting"
                           /\ query' = [query EXCEPT ![q].state = "taken"] /\ Answered(q) /\ UNCHANGED forward
     \/ \E f \in Forwards : /\ Pends(forward[f], t, id) /\ forward[f].state = "emplaced"
                            /\ forward' = [forward EXCEPT ![f].state = "done"] /\ Answered(f) /\ UNCHANGED query
     \/ /\ \A q \in Queries : ~(Pends(query[q], t, id) /\ query[q].state = "waiting")
        /\ \A f \in Forwards : ~(Pends(forward[f], t, id) /\ forward[f].state = "emplaced")
        /\ UNCHANGED <<forward, query, resumes>>
  /\ UNCHANGED <<nextId, late>> /\ UNCHANGED server

Next ==
  \/ \E s \in Sockets : Claim(s) \/ AddConnection(s) \/ AddFails(s) \/ RemoveExisting(s) \/ Authorize(s) \/ Publish(s)
  \/ \E s \in Sockets \cup Clients : Unlist(s) \/ RemoveAdminAuthorizer(s) \/ OnCloseConnection(s) \/ OnClose(s)
  \/ \E f \in Forwards : FindApp(f) \/ Emplace(f)
  \/ \E q \in Queries : (\E t \in Sockets : SendQuery(q, t)) \/ QueryTimer(q)
  \/ \E m \in received : Reply(m[1], m[2])

Spec == Init /\ [][Next]_vars

-----------------------------------------------------------------------------
TypeOK ==
  /\ reg \in [Sockets -> {"none", "claimed", "connected", "evicted", "authorized", "published", "refused"}]
  /\ \A s \in DOMAIN closing : \E i \in 1..5 : closing[s] = Stages[i]
  /\ sessions \subseteq Sockets \cup Clients /\ claims \subseteq Sockets /\ rows \subseteq Sockets
  /\ authorizer \in Sockets \cup {None} /\ received \subseteq Sockets \X Nat /\ nextId \in [Sockets -> Nat]
  /\ \A f \in Forwards : forward[f].state \in Pending \cup {"idle", "done"}

\* One instance name has one resource schema among the instances up: however two registrations interleave, the second is
\* refused (ClaimInstance holds the claim past the publish).
OneSchemaPerInstance ==
  \A s, t \in Sockets \cap sessions : Published(s) /\ Published(t) => <<s, t>> \notin Conflicts

\* A caller is resumed once: the reply, the timer, and either side's disconnect race for it.
ResumedOnce == \A x \in DOMAIN resumes :
  /\ resumes[x] <= 1
  /\ (x \in Forwards /\ forward[x].state = "emplaced") \/ (x \in Queries /\ query[x].state = "waiting") => resumes[x] = 0

\* An id an instance was given is pending in one of the two routers: an exception for a forward would otherwise resume a
\* query, and leave the forward parked.
OneRouter ==
  \A f \in Forwards, q \in Queries :
    forward[f].state = "emplaced" /\ query[q].state # "idle" => ~Pends(query[q], forward[f].target, forward[f].id)

\* A forward pends only while both its ends are up: there is no timeout on this path.  But for one emplaced once a
\* disconnect had been through the map.
ForwardHasItsEnds ==
  \A f \in Forwards \ late : forward[f].state = "emplaced" =>
    ~Past(forward[f].target, "cancelled") /\ ~Past(Requesters[f], "cancelled")

\* The same without the exception, as OnCloseConnection's comment has it.
NoForwardIsLeaked ==
  \A f \in Forwards : forward[f].state = "emplaced" => ~Past(forward[f].target, "cancelled")

\* Admin checks go to an instance that is up, and the row of one that is gone is ended; but for a registration its own
\* disconnect overtook.
GoneIsForgotten ==
  \A s \in Sockets \ late :
    /\ authorizer = s => ~Past(s, "unauthorized")
    /\ s \in rows /\ Published(s) => ~Past(s, "cancelled")

\* One instance is listed for its endpoint: a restart evicts the one before it; but for two registering at once.
OneListedPerEndpoint ==
  \A s, t \in (Sockets \cap sessions) \ crossed : Published(s) /\ Published(t) /\ EndpointOf[s] = EndpointOf[t] => s = t
=============================================================================
