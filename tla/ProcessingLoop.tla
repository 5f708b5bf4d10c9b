--------------------------- MODULE ProcessingLoop ---------------------------
(***************************************************************************)
(* The pump of one OPC client (AsyncRequest): requests are handed to       *)
(* open62541, which answers them only inside run_iterate, so a coroutine   *)
(* iterates while any is pending, hands over to a ping timer when none is, *)
(* and takes the client down when it idles past its ttl.  Every step runs  *)
(* on the client's strand, so a step is one strand handler; the members    *)
(* are one record, and an operation maps the record to the next one, as    *)
(* the code's calls nest.                                                  *)
(***************************************************************************)
EXTENDS Naturals, FiniteSets

CONSTANTS Requests,    \* the user's, each sent once
          MaxLapses,   \* of a session
          Monitored    \* the client has monitored nodes, whose subscription a teardown deletes

VARIABLES c,        \* the members of the client and of its AsyncRequest
          session,  \* open62541's: connecting, up, lapsed (the server dropped it), renewing, dead
          used,     \* requests sent
          lapses    \* sessions the server has dropped

vars == <<c, session, used, lapses>>

\* Ids that are not the user's: the marks of the loop, the keep-alive read, the delete of a teardown.
Ping == "ping"
Connect == "connect"
Subscription == "subscription"
KeepAlive == "keepAlive"
Delete == "delete"
Ids == Requests \cup {Ping, Connect, Subscription, KeepAlive, Delete}

Init ==
  /\ c = [requests |-> {Connect}, running |-> TRUE, frames |-> 1, stopped |-> FALSE, stopping |-> FALSE,
          drain |-> FALSE, fresh |-> TRUE, pingTimer |-> FALSE, starter |-> FALSE, failing |-> "no",
          idled |-> 0, out |-> {}, parked |-> {}, released |-> {}, registered |-> FALSE]
  /\ session = "connecting"
  /\ used = {} /\ lapses = 0

-----------------------------------------------------------------------------
(* AsyncRequest's operations.                                              *)

\* A loop that starts cancels the ping; the cancelled ping is over before the loop can be.
StartLoop(m) == [m EXCEPT !.running = TRUE, !.frames = @ + 1, !.pingTimer = FALSE]

\* Mutant of Process: a stopped client takes the request.
ProcessStopped(m, id, keepAlive) ==
  LET n == [m EXCEPT !.requests = @ \cup {id}, !.fresh = @ \/ ~(keepAlive \/ id = Ping)]
  IN  IF m.running THEN n ELSE StartLoop(n)

\* Mutant of Process: a request starts no loop.
ProcessUnpumped(m, id, keepAlive) ==
  IF m.stopped THEN m ELSE [m EXCEPT !.requests = @ \cup {id}, !.fresh = @ \/ ~(keepAlive \/ id = Ping)]

Process(m, id, keepAlive) ==
  LET n == [m EXCEPT !.requests = @ \cup {id}, !.fresh = @ \/ ~(keepAlive \/ id = Ping)]
  IN  IF m.stopped THEN m ELSE IF m.running THEN n ELSE StartLoop(n)

Clear(m, id) == [m EXCEPT !.requests = @ \ {id}, !.fresh = @ \/ id = Subscription]

\* Mutant of Stop: the loop is told to end, the client is not marked.
StopUnmarked(m) ==
  [m EXCEPT !.pingTimer = FALSE, !.running = FALSE, !.failing = IF @ = "no" THEN "posted" ELSE @]

Stop(m) ==
  [m EXCEPT !.pingTimer = FALSE, !.stopped = TRUE, !.running = FALSE,
            !.failing = IF @ = "no" THEN "posted" ELSE @]

\* ConnectionLost and RemoveClient, as the pump sees them.
Deregister(m) == [Stop(m) EXCEPT !.registered = FALSE]

\* The teardown of an idle client: its subscription deleted first, a request the loop pumps.
ShutdownIdle(m) ==
  IF Monitored
  THEN [Process(m, Delete, FALSE) EXCEPT !.out = @ \cup {Delete}, !.idled = @ + 1]
  ELSE [Deregister(m) EXCEPT !.idled = @ + 1]

\* Mutant of Ends: a loop whose client idled out once is taken to be down, and posts no ping for one that did not.
EndsUnpinged(m) ==
  LET n == [m EXCEPT !.running = FALSE, !.frames = @ - 1, !.drain = FALSE]
  IN  IF ~m.fresh THEN ShutdownIdle([n EXCEPT !.stopping = TRUE]) ELSE n

\* The queue is empty: the idle client is taken down, any other gets its ping.
Ends(m) ==
  LET n == [m EXCEPT !.running = FALSE, !.frames = @ - 1, !.drain = FALSE]
  IN  IF ~m.fresh THEN ShutdownIdle([n EXCEPT !.stopping = TRUE])
      ELSE IF m.stopping THEN n
      ELSE [n EXCEPT !.starter = TRUE]

\* run_iterate failed: the requests are forgotten, the client is lost.
Fails(m) ==
  LET n == [m EXCEPT !.running = FALSE, !.frames = @ - 1, !.requests = {}]
  IN  IF m.stopped THEN n ELSE Deregister(n)

\* A request's callback.  The keep-alive's ending decides what the loop does next; the delete's
\* ends the teardown.
Answered(m, id, result) ==
  LET n == [Clear(m, id) EXCEPT !.out = @ \ {id}]
      stopping == m.stopped \/ m.stopping
  IN  IF id = Delete THEN Deregister(n)
      ELSE IF id # KeepAlive \/ result = "ok" \/ stopping THEN n
      ELSE IF result = "lapsed" THEN Process(n, Connect, TRUE)
      ELSE Process(n, Ping, FALSE)

\* SubmitUA on the strand: parked while the session renews, refused where the connection is gone.
SubmitUA(m, id, keepAlive) ==
  IF session = "renewing" /\ ~m.stopped THEN Process([m EXCEPT !.parked = @ \cup {id}], Connect, TRUE)
  ELSE IF m.failing = "ran" THEN m
  ELSE IF session = "dead" THEN (IF m.registered THEN Deregister(m) ELSE m)
  ELSE Process([m EXCEPT !.out = @ \cup {id}], id, keepAlive)

-----------------------------------------------------------------------------
(* What is posted to the strand.                                           *)

Submit(r) ==
  /\ c.registered /\ r \notin used
  /\ c' = SubmitUA(c, r, FALSE)
  /\ used' = used \cup {r} /\ UNCHANGED <<session, lapses>>

\* A parked request, run once the session is back or the client is gone.
Resubmit(id) ==
  /\ id \in c.released
  /\ c' = SubmitUA([c EXCEPT !.released = @ \ {id}], id, id = KeepAlive)
  /\ UNCHANGED <<session, used, lapses>>

Monitor ==
  /\ Monitored /\ c.registered /\ ~c.stopped
  /\ \/ Subscription \notin c.requests /\ c' = Process(c, Subscription, FALSE)
     \/ Subscription \in c.requests /\ c' = Clear(c, Subscription)
  /\ UNCHANGED <<session, used, lapses>>

\* The ping a loop posted as it ended; of two that are posted the second finds the timer set.
RunStarter ==
  /\ c.starter
  /\ c' = [c EXCEPT !.starter = FALSE, !.pingTimer = @ \/ ~(c.stopped \/ c.stopping)]
  /\ UNCHANGED <<session, used, lapses>>

PingFires ==
  /\ c.pingTimer
  /\ LET m == [c EXCEPT !.pingTimer = FALSE]
     IN  c' = IF c.stopped \/ c.stopping THEN m ELSE SubmitUA(m, KeepAlive, TRUE)
  /\ UNCHANGED <<session, used, lapses>>

\* Mutant of FailPending: the parked requests are left.
FailPendingSent ==
  /\ c.failing = "posted"
  /\ c' = [c EXCEPT !.failing = "ran", !.out = {}, !.requests = {}, !.registered = FALSE]
  /\ session' = "dead" /\ UNCHANGED <<used, lapses>>

\* The disconnect fails every request open62541 holds, a teardown's delete among them.
FailPending ==
  /\ c.failing = "posted"
  /\ c' = [c EXCEPT !.failing = "ran", !.out = {}, !.requests = {}, !.registered = FALSE,
                    !.released = @ \cup c.parked, !.parked = {}]
  /\ session' = "dead" /\ UNCHANGED <<used, lapses>>

-----------------------------------------------------------------------------
(* The loop wakes from its sleep and iterates until nothing changes.       *)

\* Its frame ends where Stop cleared _running.
WakeStopped ==
  /\ c.frames > 0 /\ ~c.running
  /\ c' = [c EXCEPT !.frames = @ - 1]
  /\ UNCHANGED <<session, used, lapses>>

WakeDead ==
  /\ c.frames > 0 /\ c.running /\ session = "dead"
  /\ c' = Fails(c)
  /\ UNCHANGED <<session, used, lapses>>

\* Where an iterate leaves the loop: asleep, or at its end.
Settle(m) ==
  LET n == [m EXCEPT !.requests = @ \ {Ping}]
  IN  IF ~m.running THEN [n EXCEPT !.frames = @ - 1]
      ELSE IF n.requests = {} /\ ~n.drain THEN Ends(n)
      ELSE n

Awake == c.frames > 0 /\ c.running /\ session # "dead"

\* A request is answered, by the server or by open62541's own timeout.
WakeAnswered(id) ==
  /\ Awake /\ id \in c.out
  /\ \/ session = "up" /\ c' = Settle(Answered(c, id, "ok")) /\ UNCHANGED session
     \/ session = "lapsed" /\ c' = Settle(Answered(c, id, "lapsed")) /\ session' = "renewing"
     \/ c' = Settle(Answered(c, id, "failed")) /\ UNCHANGED session
  /\ UNCHANGED <<used, lapses>>

\* The session is activated: the first time, with open62541's own read behind it.
WakeActivated ==
  /\ Awake /\ session \in {"connecting", "renewing"}
  /\ c' = Settle([Clear(c, Connect) EXCEPT !.drain = @ \/ session = "connecting", !.registered = @ \/ session = "connecting",
                                           !.released = @ \cup c.parked, !.parked = {}])
  /\ session' = "up" /\ UNCHANGED <<used, lapses>>

\* Mutant of WakeDrained: the drain only ends when the read is answered, and the read never is.
WakeDrainedNever ==
  /\ Awake /\ c.drain /\ FALSE
  /\ UNCHANGED vars

\* open62541's own read is serviced, or the drain's limit has passed with it outstanding.
WakeDrained ==
  /\ Awake /\ c.drain
  /\ c' = Settle([c EXCEPT !.drain = FALSE])
  /\ UNCHANGED <<session, used, lapses>>

\* A wake that finds nothing of the above: a timer of open62541's, a subscription's end.
WakeIdle ==
  /\ Awake /\ c' = Settle(c) /\ c' # c
  /\ UNCHANGED <<session, used, lapses>>

-----------------------------------------------------------------------------
(* The server and the clock.                                               *)

Lapses ==
  /\ session = "up" /\ lapses < MaxLapses
  /\ session' = "lapsed" /\ lapses' = lapses + 1
  /\ UNCHANGED <<c, used>>

Breaks == session # "dead" /\ session' = "dead" /\ UNCHANGED <<c, used, lapses>>

\* The ttl passes since the last request of a user; it outlasts a request, which open62541 times out.
Idles ==
  /\ c.fresh /\ c.requests \cap (Requests \cup {Delete, Subscription}) = {}
  /\ c' = [c EXCEPT !.fresh = FALSE]
  /\ UNCHANGED <<session, used, lapses>>

Next ==
  \/ \E r \in Requests : Submit(r)
  \/ \E id \in Ids : Resubmit(id) \/ WakeAnswered(id)
  \/ Monitor \/ RunStarter \/ PingFires \/ FailPending
  \/ WakeStopped \/ WakeDead \/ WakeActivated \/ WakeDrained \/ WakeIdle
  \/ Lapses \/ Breaks \/ Idles

Spec == Init /\ [][Next]_vars

\* The strand runs what is posted to it, a sleeping loop is woken at the latest by open62541's
\* timers, open62541 answers or times out a request, and the clock moves.
Fairness ==
  /\ \A id \in Ids : WF_vars(Resubmit(id)) /\ WF_vars(WakeAnswered(id))
  /\ WF_vars(RunStarter) /\ WF_vars(PingFires) /\ WF_vars(FailPending)
  /\ WF_vars(WakeStopped) /\ WF_vars(WakeDead) /\ WF_vars(WakeActivated) /\ WF_vars(WakeDrained) /\ WF_vars(WakeIdle)
FairSpec == Spec /\ Fairness

-----------------------------------------------------------------------------
TypeOK ==
  /\ c \in [requests : SUBSET Ids, running : BOOLEAN, frames : 0..1, stopped : BOOLEAN, stopping : BOOLEAN,
            drain : BOOLEAN, fresh : BOOLEAN, pingTimer : BOOLEAN, starter : BOOLEAN, failing : {"no", "posted", "ran"},
            idled : Nat, out : SUBSET Ids, parked : SUBSET Ids, released : SUBSET Ids, registered : BOOLEAN]
  /\ session \in {"connecting", "up", "lapsed", "renewing", "dead"}
  /\ used \subseteq Requests /\ lapses \in 0..MaxLapses

\* One loop at a time iterates a client, and _running says whether one does: the only frame it
\* misses is that of a stopped client, on its way out.
OneLoop == c.frames = (IF c.running THEN 1 ELSE 0) \/ (c.stopped /\ c.frames = 1)

\* A registered client that nothing takes down has a loop or a ping ahead of it, so its loss is
\* noticed and its idling ends: it is never the zombie every later request trips over.
NoZombie ==
  c.registered /\ ~c.stopped /\ ~c.stopping => c.running \/ c.pingTimer \/ c.starter

\* A request open62541 holds, or one parked for the session, has a loop pumping its answer.
PendingIsPumped == c.out \cup c.parked # {} /\ ~c.stopped => c.running

\* Once the disconnect of a stopped client has run, no request of it waits for an answer.
StoppedHoldsNothing == c.failing = "ran" => c.out = {} /\ c.parked = {}

\* An idle client is taken down once, though the teardown's own request runs the loop again.
IdledOnce == c.idled <= 1

\* Every request ends, answered or failed, whatever the session or the client does.
IsAsked(r) == r \in used
HasEnded(r) == r \notin c.out \cup c.parked \cup c.released
EveryRequestEnds == \A r \in Requests : IsAsked(r) ~> HasEnded(r)

\* A client nobody uses is in the end removed.
IsUnused == ~c.fresh
IsUsedOrGone == c.fresh \/ ~c.registered
IdleIsRemoved == IsUnused ~> IsUsedOrGone
=============================================================================
