---------------------------- MODULE AppReconnect ----------------------------
(***************************************************************************)
(* A product's connection to the AppServer: ConnectAwait's retries, the    *)
(* session installed, and the subscriptions that outlive their socket:     *)
(* what the socket carries (_subs), what was asked for (Remember, Forget)  *)
(* and the replay on the next session.  A listener subscribes and          *)
(* unsubscribes from any thread; acks, refusals and the close run on the   *)
(* socket's strand, and a replay's request that fails with the socket runs *)
(* the rest of the replay there, each request failing for want of a        *)
(* session.                                                                *)
(***************************************************************************)
EXTENDS Naturals, Sequences, FiniteSets, SequencesExt

CONSTANTS Queries,         \* the subscription requests, all of one listener
          MaxReplayFailures,
          MaxLosses,       \* how often a session is lost, at most
          MaxRefusals,     \* how often the server refuses a login or a request, at most
          MaxIds           \* the request ids spent on subscriptions, at most

VARIABLES session,    \* whether a session is installed
          connect,    \* where the ConnectAwait is
          posted,     \* whether its caller is yet to replay
          subs,       \* _subs: the ids the socket carries, with their requests
          asked,      \* _subscriptionRequests: id, request, who asked
          remembered, \* the requests remembered: ids and failures, by request
          replay,     \* the requests the replay has left, the one asked first
          leaving,    \* the Unsubscribe between StopListenRemote and Forget: the ids removed
          left,       \* the requests the listener left, and has not asked for again
          missed,     \* the requests asked, a replay's to ask, or not carried, while the listener was leaving
          refused,    \* the requests the server refused, since their last ack
          used        \* losses, refusals and ids

vars == <<session, connect, posted, subs, asked, remembered, replay, leaving, left, missed, refused, used>>
None == "none"
NotLeaving == [active |-> FALSE, removed |-> {}]

Init ==
  /\ session = FALSE /\ connect = "login" /\ posted = FALSE
  /\ subs = {} /\ asked = {} /\ remembered = << >> /\ replay = << >> /\ leaving = NotLeaving
  /\ left = {} /\ missed = {} /\ refused = [q \in Queries |-> 0] /\ used = [losses |-> 0, refusals |-> 0, ids |-> 0]

\* The requests remembered, in order: records of the request, its ids and its failures.
IndexOf(rem, q) == {i \in 1..Len(rem) : rem[i].query = q}
IsRemembered(q) == IndexOf(remembered, q) # {}

Remember(rem, q, ids) ==
  IF IndexOf(rem, q) = {} THEN Append(rem, [query |-> q, ids |-> ids, failures |-> 0])
  ELSE [i \in 1..Len(rem) |-> IF rem[i].query = q THEN [rem[i] EXCEPT !.ids = ids, !.failures = 0] ELSE rem[i]]

\* Mutant of Forget: a request whose ids are gone is kept.
ForgetIds(rem, ids) == [i \in 1..Len(rem) |-> [rem[i] EXCEPT !.ids = @ \ ids]]
\* No ids is every request of the listener's.
Forget(rem, ids) ==
  IF ids = {} THEN << >>
  ELSE SelectSeq([i \in 1..Len(rem) |-> [rem[i] EXCEPT !.ids = @ \ ids]], LAMBDA r : r.ids # {})

\* Mutant of NoteReplayFailure: the first failure drops the request.
NoteReplayFailureOnce(rem, q) == SelectSeq(rem, LAMBDA r : r.query # q)
NoteReplayFailure(rem, q) ==
  SelectSeq([i \in 1..Len(rem) |-> IF rem[i].query = q THEN [rem[i] EXCEPT !.failures = @ + 1] ELSE rem[i]],
            LAMBDA r : r.failures < MaxReplayFailures)

\* The rest of a replay once its session is gone.
FailAll(rem, requests) == FoldLeft(NoteReplayFailure, rem, requests)

-----------------------------------------------------------------------------
(* Connecting.                                                             *)

listener == <<subs, asked, remembered, replay, leaving, left, missed, refused>>

LoggedIn ==
  /\ connect = "login" /\ connect' = "register"
  /\ UNCHANGED <<session, posted, used>> /\ UNCHANGED listener

\* A refused login or registration, or a socket lost before it: the session is closed, and the attempt repeated.
ConnectFails ==
  /\ connect \in {"login", "register"} /\ used.refusals < MaxRefusals
  /\ connect' = "waiting" /\ used' = [used EXCEPT !.refusals = @ + 1]
  /\ UNCHANGED <<session, posted>> /\ UNCHANGED listener

Wakes ==
  /\ connect = "waiting" /\ connect' = "login"
  /\ UNCHANGED <<session, posted, used>> /\ UNCHANGED listener

\* The ConnectionInfo: the session is installed, and the caller posted; one posted before has run by now.
Registered ==
  /\ connect = "register" /\ ~posted
  /\ session' = TRUE /\ connect' = "done" /\ posted' = TRUE
  /\ UNCHANGED used /\ UNCHANGED listener

-----------------------------------------------------------------------------
(* Asking.                                                                 *)

\* A request built on the session: its id and what it asked go together.
Asks(q, who) ==
  /\ asked' = asked \cup {[id |-> used.ids + 1, query |-> q, by |-> who]}
  /\ used' = [used EXCEPT !.ids = @ + 1]

\* Mutant of StartReplay: a reconnect leaves the subscriptions to their listeners.
StartReplayNothing ==
  /\ posted /\ posted' = FALSE
  /\ UNCHANGED <<session, connect, subs, asked, remembered, replay, leaving, left, missed, refused, used>>

\* Replay: what is remembered, asked one after the other.  Without a session each fails at once.
StartReplay ==
  LET requests == [i \in 1..Len(remembered) |-> remembered[i].query]
  IN  /\ posted /\ posted' = FALSE /\ used.ids < MaxIds
      /\ IF requests # << >> /\ session
         THEN replay' = requests /\ Asks(requests[1], "replay") /\ UNCHANGED remembered
         ELSE remembered' = FailAll(remembered, requests) /\ UNCHANGED <<replay, asked, used>>
      /\ missed' = IF leaving.active THEN missed \cup ToSet(requests) ELSE missed
      /\ UNCHANGED <<session, connect, subs, leaving, left, refused>>

\* The replay goes on to its next request.
NextReplay(rest, id) ==
  /\ replay' = rest
  /\ asked' = {a \in asked : a.id # id} \cup
              (IF rest = << >> THEN {} ELSE {[id |-> used.ids + 1, query |-> rest[1], by |-> "replay"]})

Subscribe(q) ==
  /\ session /\ used.ids < MaxIds /\ ~IsRemembered(q) /\ (\A a \in asked : a.query # q) /\ ~leaving.active
  /\ Asks(q, "listener") /\ left' = left \ {q}
  /\ UNCHANGED <<session, connect, posted, subs, remembered, replay, leaving, missed, refused>>

\* Mutant of Remembers: what the server acks is not remembered.
RemembersNot(rem, q, ids) == IF IndexOf(rem, q) = {} THEN rem ELSE Remember(rem, q, ids)
Remembers(rem, q, ids) == Remember(rem, q, ids)

\* SubscriptionAck, on the strand: the id is listened for, and the request remembered.
Acked(a) ==
  /\ a \in asked
  /\ subs' = subs \cup {[id |-> a.id, query |-> a.query]}
  /\ remembered' = Remembers(remembered, a.query, {a.id})
  /\ refused' = [refused EXCEPT ![a.query] = 0]
  /\ IF a.by = "replay"
     THEN /\ Len(replay) > 1 => used.ids < MaxIds
          /\ NextReplay(Tail(replay), a.id) /\ used' = [used EXCEPT !.ids = @ + (IF Len(replay) > 1 THEN 1 ELSE 0)]
     ELSE asked' = asked \ {a} /\ UNCHANGED <<replay, used>>
  /\ UNCHANGED <<session, connect, posted, leaving, left, missed>>

\* An exception for it.
Refused(a) ==
  /\ a \in asked /\ used.refusals < MaxRefusals
  /\ refused' = [refused EXCEPT ![a.query] = @ + 1]
  /\ IF a.by = "replay"
     THEN /\ Len(replay) > 1 => used.ids < MaxIds
          /\ NextReplay(Tail(replay), a.id) /\ remembered' = NoteReplayFailure(remembered, a.query)
          /\ used' = [used EXCEPT !.refusals = @ + 1, !.ids = @ + (IF Len(replay) > 1 THEN 1 ELSE 0)]
     ELSE /\ asked' = asked \ {a} /\ used' = [used EXCEPT !.refusals = @ + 1]
          /\ UNCHANGED <<replay, remembered>>
  /\ UNCHANGED <<session, connect, posted, subs, leaving, left, missed>>

\* Unsubscribe: StopListenRemote of the socket's ids, then Forget of what that removed.
StopListenRemote ==
  /\ ~leaving.active /\ (remembered # << >> \/ asked # {})
  /\ leaving' = [active |-> TRUE, removed |-> IF session THEN {s.id : s \in subs} ELSE {}]
  /\ subs' = IF session THEN {} ELSE subs
  /\ missed' = {a.query : a \in asked} \cup ToSet(replay)
               \cup {q \in Queries : IsRemembered(q) /\ \A s \in subs : s.query # q}
  /\ UNCHANGED <<session, connect, posted, asked, remembered, replay, left, refused, used>>

ForgetRemoved ==
  /\ leaving.active /\ leaving' = [leaving EXCEPT !.active = FALSE, !.removed = {}]
  /\ remembered' = Forget(remembered, leaving.removed) /\ left' = Queries
  /\ UNCHANGED <<session, connect, posted, subs, asked, replay, missed, refused, used>>

-----------------------------------------------------------------------------
\* Mutant of Lost: the close clears the ids and does not reconnect.
LostForGood ==
  /\ session /\ used.losses < MaxLosses /\ session' = FALSE
  /\ subs' = {} /\ asked' = {} /\ replay' = << >> /\ remembered' = FailAll(remembered, replay)
  /\ used' = [used EXCEPT !.losses = @ + 1]
  /\ UNCHANGED <<connect, posted, leaving, left, missed, refused>>

\* OnClose of the session installed: it is taken out, what was asked fails - a replay with it - and the connect starts over.
Lost ==
  /\ session /\ used.losses < MaxLosses /\ session' = FALSE
  /\ subs' = {} /\ asked' = {} /\ replay' = << >> /\ remembered' = FailAll(remembered, replay)
  /\ connect' = "login" /\ used' = [used EXCEPT !.losses = @ + 1]
  /\ UNCHANGED <<posted, leaving, left, missed, refused>>

Next ==
  \/ LoggedIn \/ ConnectFails \/ Wakes \/ Registered \/ StartReplay \/ StopListenRemote \/ ForgetRemoved \/ Lost
  \/ \E q \in Queries : Subscribe(q)
  \/ \E a \in asked : Acked(a) \/ Refused(a)

Spec == Init /\ [][Next]_vars

\* The server is up: it lets a client in and answers, the pool runs what is posted, the retry timer fires.
Fairness ==
  /\ WF_vars(LoggedIn) /\ WF_vars(Wakes) /\ WF_vars(Registered) /\ WF_vars(StartReplay) /\ WF_vars(ForgetRemoved)
  /\ WF_vars(\E a \in asked : Acked(a))
FairSpec == Spec /\ Fairness

-----------------------------------------------------------------------------
TypeOK ==
  /\ session \in BOOLEAN /\ posted \in BOOLEAN /\ connect \in {"login", "register", "waiting", "done"}
  /\ \A s \in subs : s.id \in 1..MaxIds /\ s.query \in Queries
  /\ \A i \in 1..Len(remembered) : remembered[i].query \in Queries /\ remembered[i].failures \in 0..(MaxReplayFailures - 1)
  /\ leaving.active \in BOOLEAN /\ missed \subseteq Queries

\* Whatever the socket carries is remembered, under an id it carries: a session lost now is put back by the next.
LiveIsRemembered ==
  ~leaving.active => \A s \in subs : \/ s.query \in missed
                                     \/ \E i \in 1..Len(remembered) : remembered[i].query = s.query /\ (\E t \in subs : t.id \in remembered[i].ids)

\* What the listener left is neither carried nor remembered, one on the wire, in a replay or
\* not carried as it left aside.
LeftStaysLeft ==
  ~leaving.active => \A q \in left \ missed : ~IsRemembered(q) /\ (\A s \in subs : s.query # q)

\* A request dropped is one the server refused, replay after replay.
OnlyRefusalsDrop ==
  [][\A q \in Queries : IsRemembered(q) /\ IndexOf(remembered', q) = {} /\ ~leaving.active => refused'[q] >= MaxReplayFailures]_vars

\* What the listener left is not remembered, so that the next reconnect does not put it back.
NotPutBack == ~leaving.active => \A q \in left : ~IsRemembered(q)

\* A request remembered is carried again, unless the server refuses it or it is dropped for its failures.
IsCarried(q) == (\E s \in subs : s.query = q) \/ ~IsRemembered(q) \/ refused[q] > 0 \/ used.ids = MaxIds
RememberedComesBack == \A q \in Queries : IsRemembered(q) ~> IsCarried(q)
=============================================================================
