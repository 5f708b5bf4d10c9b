--------------------------- MODULE BrowserSocket ---------------------------
(***************************************************************************)
(* The web client's socket (proto-service.ts, and processMessage of        *)
(* gateway-service.ts and app-service.ts): a request goes to the socket    *)
(* once the server's ack gave it an id and, for a signed-in user, the      *)
(* handshake is answered; until then it waits in the backlog.  A lost      *)
(* socket rejects everything that waits.                                   *)
(*                                                                         *)
(* A browser runs one event to its end, then the continuations of the      *)
(* promises it settled, in their order, before the next event: `jobs`.     *)
(***************************************************************************)
EXTENDS Integers, Sequences, FiniteSets, SequencesExt

CONSTANTS MaxRequests, \* bound: requests sent, handshakes included
          MaxSockets,  \* bound: sockets opened
          MaxReloads   \* bound: returns from the browser's page cache

VARIABLES net,        \* #socket (0: undefined), #socketId, backlog, what each socket was given, and the one
                      \* the page completed on its way into the cache
          kind,       \* by request id, "call" or "auth" (#requestId is its length)
          outcome,    \* by request id; _callbacks are the pending ones
          authorizes, \* a handshake's id -> the socketId its sendAuthorization will set
          acked,      \* sockets whose ack arrived
          jobs,       \* continuations the last event left to run
          credential, \* user()?.authorization
          page,       \* "shown" or "frozen" in the page cache, #closedForCache, reloads so far
          cut         \* a socket was lost under a handshake

vars == <<net, kind, outcome, authorizes, acked, jobs, credential, page, cut>>

Sockets == 1..MaxSockets
Fresh == [socket |-> 0, opened |-> 0, socketId |-> 0, backlog |-> << >>, wire |-> [s \in Sockets |-> << >>],
          completed |-> 0]

Init ==
  /\ net = Fresh /\ kind = << >> /\ outcome = << >>
  /\ authorizes = << >> /\ acked = {} /\ jobs = << >>
  /\ credential \in BOOLEAN
  /\ page = [shown |-> TRUE, closed |-> FALSE, reloads |-> 0]
  /\ cut = FALSE

Pending == {id \in DOMAIN outcome : outcome[id] = "pending"}

\* An event's turn: the page is not frozen and nothing is left of the last event.
Turn == page.shown /\ jobs = << >>

-----------------------------------------------------------------------------
\* sendWithId: to the socket, or queued behind it; without one, connect.
SendWithIdQueued(n, id, isAuthorization) ==
  IF n.socket # 0 /\ n.socketId # 0 THEN [n EXCEPT !.wire[n.socket] = Append(@, id)]
  ELSE IF n.socket # 0 THEN [n EXCEPT !.backlog = Append(@, id)]
  ELSE [n EXCEPT !.backlog = Append(@, id), !.opened = @ + 1, !.socket = n.opened + 1]

SendWithIdEager(n, id, isAuthorization) ==
  IF n.socket # 0 THEN [n EXCEPT !.wire[n.socket] = Append(@, id)]
  ELSE [n EXCEPT !.backlog = Append(@, id), !.opened = @ + 1, !.socket = n.opened + 1]

SendWithId(n, id, isAuthorization) ==
  IF n.socket # 0 /\ (n.socketId # 0 \/ isAuthorization) THEN [n EXCEPT !.wire[n.socket] = Append(@, id)]
  ELSE IF n.socket # 0 THEN [n EXCEPT !.backlog = Append(@, id)]
  ELSE [n EXCEPT !.backlog = Append(@, id), !.opened = @ + 1, !.socket = n.opened + 1]

\* setSocketId: with a socket, the backlog goes out.
SetSocketIdKept(n, id) ==
  IF n.socket = 0 THEN [n EXCEPT !.socketId = id]
  ELSE [n EXCEPT !.socketId = id, !.wire[n.socket] = @ \o n.backlog]

SetSocketId(n, id) ==
  IF n.socket = 0 THEN [n EXCEPT !.socketId = id]
  ELSE [n EXCEPT !.socketId = id, !.wire[n.socket] = @ \o n.backlog, !.backlog = << >>]

\* sendPromise: the request is sent or queued, and its callback registered either way.
SendPromise(n, what) ==
  /\ Len(kind) < MaxRequests
  /\ n.socket = 0 => n.opened < MaxSockets
  /\ kind' = Append(kind, what) /\ outcome' = Append(outcome, "pending")
  /\ net' = SendWithId(n, Len(kind) + 1, what = "auth")

\* sendAuthorization up to its await; without a credential it releases the backlog on the spot.
SendAuthorization(socketId, authorization) ==
  IF authorization
  THEN /\ SendPromise(net, "auth")
       /\ authorizes' = Append(authorizes, [id |-> Len(kind) + 1, socketId |-> socketId])
  ELSE net' = SetSocketId(net, socketId) /\ UNCHANGED <<kind, outcome, authorizes>>

\* What a settled request's await runs: sendAuthorization sets the socket's id, whatever its handshake came to.
Authorized(id) == \E a \in Range(authorizes) : a.id = id
SocketIdOf(id) == (CHOOSE a \in Range(authorizes) : a.id = id).socketId

-----------------------------------------------------------------------------
\* A page sends a request.
Call == Turn /\ SendPromise(net, "call") /\ UNCHANGED <<authorizes, acked, jobs, credential, page, cut>>

\* processMessage: the ack of a new socket.
Ack ==
  /\ Turn /\ net.socket # 0 /\ net.socket \notin acked
  /\ acked' = acked \cup {net.socket}
  /\ SendAuthorization(net.socket, credential)
  /\ UNCHANGED <<jobs, credential, page, cut>>

\* processCommonMessage or processError: an answer, an exception, or one that ends the session (401).
Answer(id, how) ==
  /\ Turn /\ net.socket # 0 /\ id \in Pending \cap Range(net.wire[net.socket])
  /\ outcome' = [outcome EXCEPT ![id] = IF how = "answer" THEN "resolved" ELSE "rejected"]
  /\ credential' = (credential /\ how # "401")
  /\ net' = IF Authorized(id) THEN SetSocketId(net, SocketIdOf(id)) ELSE net
  /\ UNCHANGED <<kind, authorizes, acked, jobs, page, cut>>

\* renewGoogleSession: a live socket is authorized again with the renewed session.
Renew ==
  /\ Turn /\ credential' = TRUE
  /\ IF net.socketId # 0 THEN SendAuthorization(net.socketId, TRUE) ELSE ~credential /\ UNCHANGED <<net, kind, outcome, authorizes>>
  /\ UNCHANGED <<acked, jobs, page, cut>>

\* socketDown: the socket, its id and the backlog are dropped and every callback rejected; their awaits run next.
RejectPendingKept(n) == [n EXCEPT !.socket = 0, !.socketId = 0]
RejectPending(n) == [n EXCEPT !.socket = 0, !.socketId = 0, !.backlog = << >>]

\* What it rejects: the sent and the queued.
LostQueued == Pending \cap Range(net.backlog)
Lost == Pending

SocketDown ==
  /\ Turn /\ net.socket # 0
  /\ net' = RejectPending(net)
  /\ jobs' = SetToSortSeq(Lost, <)
  /\ outcome' = [id \in DOMAIN outcome |-> IF id \in Lost THEN "rejected" ELSE outcome[id]]
  /\ cut' = (cut \/ \E id \in Pending : Authorized(id))
  /\ UNCHANGED <<kind, authorizes, acked, credential, page>>

\* A rejected handshake's await, or a rejected caller's, which may send again at once.
RunJob ==
  /\ page.shown /\ jobs # << >>
  /\ jobs' = Tail(jobs)
  /\ \/ /\ net' = IF Authorized(Head(jobs)) THEN SetSocketId(net, SocketIdOf(Head(jobs))) ELSE net
        /\ UNCHANGED <<kind, outcome>>
     \/ ~Authorized(Head(jobs)) /\ SendPromise(net, "call")
  /\ UNCHANGED <<authorizes, acked, credential, page, cut>>

\* pagehide: a page going into the cache closes its socket (#leaveForCache).
LeavesUnmarked(p) == [p EXCEPT !.shown = FALSE]
Leaves(p) == [p EXCEPT !.shown = FALSE, !.closed = net.socket # 0]

PageHide ==
  /\ Turn /\ page.reloads < MaxReloads
  /\ page' = Leaves(page) /\ net' = [net EXCEPT !.completed = net.socket]
  /\ UNCHANGED <<kind, outcome, authorizes, acked, jobs, credential, cut>>

\* pageshow: a page whose socket was closed comes back as a reload.
PageShow ==
  /\ ~page.shown
  /\ page' = [shown |-> TRUE, closed |-> FALSE, reloads |-> page.reloads + 1]
  /\ IF page.closed
     THEN /\ net' = Fresh /\ kind' = << >> /\ outcome' = << >> /\ authorizes' = << >>
          /\ acked' = {} /\ jobs' = << >> /\ cut' = FALSE
     ELSE UNCHANGED <<net, kind, outcome, authorizes, acked, jobs, cut>>
  /\ UNCHANGED credential

Next ==
  \/ Call \/ Ack \/ Renew \/ SocketDown \/ RunJob \/ PageHide \/ PageShow
  \/ \E id \in Pending, how \in {"answer", "exception", "401"} : Answer(id, how)

Spec == Init /\ [][Next]_vars

-----------------------------------------------------------------------------
Ids == 1..MaxRequests

TypeOK ==
  /\ net \in [socket : 0..MaxSockets, opened : 0..MaxSockets, socketId : 0..MaxSockets, backlog : Seq(Ids),
              wire : [Sockets -> Seq(Ids)], completed : 0..MaxSockets]
  /\ kind \in Seq({"call", "auth"}) /\ Len(kind) <= MaxRequests
  /\ outcome \in [DOMAIN kind -> {"pending", "resolved", "rejected"}]
  /\ authorizes \in Seq([id : Ids, socketId : Sockets])
  /\ acked \subseteq Sockets /\ jobs \in Seq(Ids)
  /\ credential \in BOOLEAN /\ cut \in BOOLEAN
  /\ page \in [shown : BOOLEAN, closed : BOOLEAN, reloads : 0..MaxReloads]

\* "a socket that is gone can never answer what was already sent or queued, so both teardown paths must settle
\* everything": a request whose promise is open is on the socket there is, or queued behind it.
NoneStranded ==
  \A id \in Pending : net.socket # 0 /\ id \in Range(net.backlog) \cup Range(net.wire[net.socket])

\* "the socketId MUST end up set on every path": a queued request waits for the ack of its socket, or for a
\* handshake that socket was given.
BacklogIsReleased ==
  net.backlog # << >> =>
    /\ net.socket # 0
    /\ \/ net.socket \notin acked
       \/ \E a \in Range(authorizes) : a.socketId = net.socket /\ a.id \in Pending \cap Range(net.wire[net.socket])
       \/ \E id \in Range(jobs) : Authorized(id)

\* Nothing is sent twice.
SentOnce == \A s \in Sockets : IsInjective(net.wire[s] \o net.backlog)

\* "sends before the ack queue": unless a socket was lost under a handshake, a socket is given nothing before its ack.
QueuesUntilAck == ~cut => \A s \in Sockets \ acked : net.wire[s] = << >>

\* The same without the exception: sendAuthorization of the lost socket sets its id after the loss, and the next
\* socket takes it for its own.
AlwaysQueuesUntilAck == \A s \in Sockets \ acked : net.wire[s] = << >>

\* pageshow: a page that came back from the cache does not hold the socket it closed when it left.
ShownIsLive == page.shown /\ net.socket # 0 => net.socket # net.completed
=============================================================================
