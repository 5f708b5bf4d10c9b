--------------------------- MODULE AsioConnection ---------------------------
(***************************************************************************)
(* The gateway's tcp connections (ConnectionManager.cpp): sockets belong   *)
(* to one net thread, the client's callbacks run on the loop's thread, and *)
(* each connection hands the loop one event at a time.                     *)
(*                                                                         *)
(* A step of the net thread is one handler: a posted call, or the          *)
(* completion of a resolve, connect, read or write.  A handler that raises *)
(* an event holds Handoff until RaiseEnd.  A step of the loop's thread is  *)
(* a call of the client, or one of the two halves of Deliver; the client   *)
(* calls from inside its callback, which is between the halves.            *)
(* Bytes are counted, not kept: `tx` is the number of buffers queued.      *)
(***************************************************************************)
EXTENDS Naturals, Sequences

CONSTANTS Connections, \* ids the manager gives out
          MaxPosts,    \* bound: calls of the client that wait for the net thread
          MaxTx        \* bound: buffers queued to be written

VARIABLES conn,    \* the Connection of each id
          manager, \* eventSource.state
          raising  \* the connection whose Raise holds Handoff, if any

vars == <<conn, manager, raising>>

Ops == {"resolve", "connect", "read", "write"}
Events == {"None", "Established", "Data", "Closing"}
Calls == {"Start", "ArmRead", "Enqueue", "RequestClose"}

\* A Connection as its constructor leaves it, before OpenConnection (mapped is
\* membership of _connections).  `told`, `closings`, `broke` and `overrun` are
\* history: the last callback, how many CLOSING, whether an operation failed
\* while established, whether Raise found an event that was not taken.
Fresh == [state |-> "Resolving", ops |-> {}, tx |-> 0, closeRequested |-> FALSE,
          writable |-> FALSE, pending |-> "None", queued |-> 0, posts |-> <<>>,
          closeCalled |-> FALSE, mapped |-> FALSE, opening |-> FALSE,
          delivering |-> "None", told |-> "None", closings |-> 0,
          broke |-> FALSE, overrun |-> FALSE]

Init ==
  /\ conn = [c \in Connections |-> Fresh]
  /\ manager = "STARTED"
  /\ raising = {}

-----------------------------------------------------------------------------
(* The net thread: what each handler makes of its connection.              *)

Raise(r, event) ==
  [r EXCEPT !.pending = event, !.queued = @ + 1, !.overrun = @ \/ r.pending # "None"]

\* Mutant of MaybeRaiseClosing: does not wait for the loop to take the event before it.
ClosingAtOnce(r) ==
  IF r.ops # {} \/ r.state = "Closed" THEN r
  ELSE Raise([r EXCEPT !.state = "Closed"], "Closing")

\* Mutant of MaybeRaiseClosing: does not wait for the operations in flight.
ClosingInFlight(r) ==
  IF r.state = "Closed" \/ r.pending # "None" THEN r
  ELSE Raise([r EXCEPT !.state = "Closed"], "Closing")

MaybeRaiseClosing(r) ==
  IF r.ops # {} \/ r.state = "Closed" \/ r.pending # "None" THEN r
  ELSE Raise([r EXCEPT !.state = "Closed"], "Closing")

FinishClose(r) ==
  IF r.state = "Closed" THEN r
  ELSE MaybeRaiseClosing([r EXCEPT !.state = "Closing", !.writable = FALSE])

Fail(r) ==
  IF r.state = "Closed" THEN r
  ELSE MaybeRaiseClosing([r EXCEPT !.state = "Closing", !.writable = FALSE,
                                   !.broke = @ \/ r.state = "Established"])

\* Mutant of RequestClose: closes over what is still to be written.
CloseOverWrites(r) ==
  IF r.state = "Closed" \/ r.closeRequested THEN r
  ELSE LET s == [r EXCEPT !.closeRequested = TRUE, !.writable = FALSE]
       IN  IF r.state = "Established" THEN FinishClose(s)
           ELSE MaybeRaiseClosing([s EXCEPT !.state = "Closing"])

RequestClose(r) ==
  IF r.state = "Closed" \/ r.closeRequested THEN r
  ELSE LET s == [r EXCEPT !.closeRequested = TRUE, !.writable = FALSE]
       IN  CASE r.state \in {"Resolving", "Connecting"} ->
                  MaybeRaiseClosing([s EXCEPT !.state = "Closing"])
             [] r.state \in {"Established", "Closing"} /\ r.tx = 0 -> FinishClose(s)
             [] OTHER -> MaybeRaiseClosing(s)

\* The name's address is known, or looked up.
Start(r, address) ==
  IF r.state # "Resolving" THEN r
  ELSE IF address THEN [r EXCEPT !.state = "Connecting", !.ops = {"connect"}]
  ELSE [r EXCEPT !.ops = {"resolve"}]

\* Mutant of ArmRead: leaves a connection that is no longer established as it is.
ArmReadOnly(r) ==
  IF r.state = "Established" /\ ~r.closeRequested THEN [r EXCEPT !.ops = @ \cup {"read"}]
  ELSE r

ArmRead(r) ==
  CASE r.state = "Established" /\ ~r.closeRequested -> [r EXCEPT !.ops = @ \cup {"read"}]
    [] r.state = "Established" /\ r.closeRequested /\ r.tx > 0 -> r
    [] OTHER -> FinishClose(r)

Enqueue(r) ==
  IF r.state # "Established" \/ r.closeRequested THEN r
  ELSE [r EXCEPT !.tx = @ + 1, !.ops = @ \cup {"write"}]

\* The completions.  One that finds the state moved on fails as an error does.
Resolved(r) ==
  IF r.state = "Resolving" THEN [r EXCEPT !.state = "Connecting", !.ops = {"connect"}]
  ELSE Fail(r)

Connected(r) ==
  IF r.state = "Connecting"
  THEN Raise([r EXCEPT !.state = "Established", !.writable = TRUE], "Established")
  ELSE Fail(r)

ReadSome(r) == IF r.state = "Established" THEN Raise(r, "Data") ELSE Fail(r)

\* Mutant of Wrote: never closes behind the last write.
WroteOnly(r) ==
  IF r.state # "Established" THEN Fail(r)
  ELSE IF r.tx > 0 THEN [r EXCEPT !.ops = @ \cup {"write"}] ELSE r

Wrote(r) ==
  IF r.state # "Established" THEN Fail(r)
  ELSE IF r.tx > 0 THEN [r EXCEPT !.ops = @ \cup {"write"}]
  ELSE IF r.closeRequested THEN FinishClose(r) ELSE r

\* One handler of connection c on the net thread, which leaves it as r.
Handler(c, r) ==
  /\ raising = {}
  /\ conn' = [conn EXCEPT ![c] = r]
  /\ raising' = IF r.queued > conn[c].queued THEN {c} ELSE {}
  /\ UNCHANGED manager

RunPost(c) ==
  /\ conn[c].posts # <<>>
  /\ LET r == [conn[c] EXCEPT !.posts = Tail(@)]
     IN  CASE Head(conn[c].posts) = "Start" -> \E address \in BOOLEAN : Handler(c, Start(r, address))
           [] Head(conn[c].posts) = "ArmRead" -> Handler(c, ArmRead(r))
           [] Head(conn[c].posts) = "Enqueue" -> Handler(c, Enqueue(r))
           [] Head(conn[c].posts) = "RequestClose" -> Handler(c, RequestClose(r))

\* An operation ends, well or not.  A failed write leaves what is queued behind it.
Complete(c, op) ==
  /\ op \in conn[c].ops
  /\ LET r == [conn[c] EXCEPT !.ops = @ \ {op}, !.tx = IF op = "write" THEN @ - 1 ELSE @]
     IN  \/ Handler(c, Fail(r))
         \/ op = "resolve" /\ Handler(c, Resolved(r))
         \/ op = "connect" /\ Handler(c, Connected(r))
         \/ op = "read" /\ Handler(c, ReadSome(r))
         \/ op = "write" /\ Handler(c, Wrote(r))

\* Raise is through with the loop, and lets Handoff go.
RaiseEnd ==
  /\ raising # {}
  /\ raising' = {}
  /\ UNCHANGED <<conn, manager>>

-----------------------------------------------------------------------------
(* The loop's thread.                                                      *)

Post(r, call) == [r EXCEPT !.posts = Append(@, call)]

\* Is the loop's thread inside the client's OPENING, which is synchronous?
InOpening == \E c \in Connections : conn[c].opening

\* OpenConnection up to the client's OPENING, from where it may close again.
OpenConnection(c) ==
  /\ manager = "STARTED" /\ ~InOpening
  /\ conn[c] = Fresh
  /\ conn' = [conn EXCEPT ![c] = [Fresh EXCEPT !.mapped = TRUE, !.opening = TRUE, !.told = "Opening"]]
  /\ UNCHANGED <<manager, raising>>

Opened(c) ==
  /\ conn[c].opening
  /\ conn' = [conn EXCEPT ![c] = [Post(@, "Start") EXCEPT !.opening = FALSE]]
  /\ UNCHANGED <<manager, raising>>

SendWithConnection(c) ==
  /\ conn[c].mapped /\ conn[c].writable
  /\ Len(conn[c].posts) < MaxPosts /\ conn[c].tx < MaxTx
  /\ conn' = [conn EXCEPT ![c] = Post(@, "Enqueue")]
  /\ UNCHANGED <<manager, raising>>

CloseConnection(c) ==
  /\ conn[c].mapped
  /\ Len(conn[c].posts) < MaxPosts
  /\ conn' = [conn EXCEPT ![c] = [Post(@, "RequestClose") EXCEPT !.closeCalled = TRUE]]
  /\ UNCHANGED <<manager, raising>>

CheckStopped(state, conns) ==
  IF state = "STOPPING" /\ \A c \in Connections : ~conns[c].mapped THEN "STOPPED" ELSE state

Stop ==
  /\ manager = "STARTED"
  /\ ~InOpening
  /\ conn' = [c \in Connections |->
                IF conn[c].mapped THEN [Post(conn[c], "RequestClose") EXCEPT !.closeCalled = TRUE]
                ELSE conn[c]]
  /\ manager' = CheckStopped("STOPPING", conn)
  /\ UNCHANGED raising

\* Mutant of DeliverTake: tells the client of data that came before its close.
DeliverAll(c) ==
  /\ conn[c].queued > 0 /\ c \notin raising /\ ~InOpening
  /\ \A d \in Connections : conn[d].delivering = "None"
  /\ LET event == conn[c].pending
         r == [conn[c] EXCEPT !.queued = @ - 1, !.pending = "None", !.delivering = event]
     IN  conn' = [conn EXCEPT ![c] =
           IF event = "Closing" THEN [r EXCEPT !.mapped = FALSE, !.told = "Closing", !.closings = @ + 1]
           ELSE [r EXCEPT !.told = event]]
  /\ UNCHANGED <<manager, raising>>

\* Mutant of DeliverTake: reads the event without Handoff.
DeliverUnlocked(c) ==
  /\ conn[c].queued > 0 /\ ~InOpening
  /\ \A d \in Connections : conn[d].delivering = "None"
  /\ LET event == conn[c].pending
         r == [conn[c] EXCEPT !.queued = @ - 1, !.pending = "None", !.delivering = event]
     IN  conn' = [conn EXCEPT ![c] =
           IF event = "Closing" THEN [r EXCEPT !.mapped = FALSE, !.told = "Closing", !.closings = @ + 1]
           ELSE [r EXCEPT !.told = IF r.closeCalled THEN @ ELSE event]]
  /\ UNCHANGED <<manager, raising>>

\* Deliver up to the client's callback: the event is taken under Handoff.
DeliverTake(c) ==
  /\ conn[c].queued > 0 /\ c \notin raising /\ ~InOpening
  /\ \A d \in Connections : conn[d].delivering = "None"
  /\ LET event == conn[c].pending
         r == [conn[c] EXCEPT !.queued = @ - 1, !.pending = "None", !.delivering = event]
     IN  conn' = [conn EXCEPT ![c] =
           IF event = "Closing" THEN [r EXCEPT !.mapped = FALSE, !.told = "Closing", !.closings = @ + 1]
           ELSE [r EXCEPT !.told = IF r.closeCalled THEN @ ELSE event]]
  /\ UNCHANGED <<manager, raising>>

\* The rest of Deliver, after the callback.
DeliverEnd(c) ==
  /\ conn[c].delivering # "None" /\ ~InOpening
  /\ conn' = [conn EXCEPT ![c] =
       [(IF @.delivering = "Closing" THEN @ ELSE Post(@, "ArmRead")) EXCEPT !.delivering = "None"]]
  /\ manager' = IF conn[c].delivering = "Closing" THEN CheckStopped(manager, conn) ELSE manager
  /\ UNCHANGED raising

-----------------------------------------------------------------------------
Net(c) == RunPost(c) \/ \E op \in Ops : Complete(c, op)
Loop(c) == DeliverTake(c) \/ DeliverEnd(c) \/ Opened(c)
Client(c) == OpenConnection(c) \/ SendWithConnection(c) \/ CloseConnection(c)

Next == RaiseEnd \/ Stop \/ \E c \in Connections : Net(c) \/ Loop(c) \/ Client(c)

\* What the process and the network owe: handlers and delayed callbacks run in
\* turn, and an operation ends, but for a read, which ends for sure only once its
\* socket is closed.
Fairness ==
  /\ WF_vars(RaiseEnd)
  /\ \A c \in Connections :
       /\ WF_vars(RunPost(c)) /\ WF_vars(Loop(c))
       /\ WF_vars(\E op \in Ops : (op = "read" => conn[c].state = "Closing") /\ Complete(c, op))

Spec == Init /\ [][Next]_vars
FairSpec == Spec /\ Fairness

-----------------------------------------------------------------------------
TypeOK ==
  /\ conn \in [Connections ->
       [state : {"Resolving", "Connecting", "Established", "Closing", "Closed"},
        ops : SUBSET Ops, tx : Nat, closeRequested : BOOLEAN, writable : BOOLEAN,
        pending : Events, queued : Nat, posts : Seq(Calls), closeCalled : BOOLEAN,
        mapped : BOOLEAN, opening : BOOLEAN, delivering : Events,
        told : Events \cup {"Opening"}, closings : Nat, broke : BOOLEAN, overrun : BOOLEAN]]
  /\ manager \in {"STARTED", "STOPPING", "STOPPED"}
  /\ raising \in SUBSET Connections

\* One slot hands the events over: Raise never finds one that the loop has not
\* taken (the ASSERT of Raise), and a delayed callback never finds none.
OneEventAtATime ==
  \A c \in Connections :
    /\ ~conn[c].overrun
    /\ conn[c].queued = IF conn[c].pending = "None" THEN 0 ELSE 1

\* Does anything still bring the net thread back to a connection?
Coming(r) ==
  \/ r.pending # "None" \/ r.delivering # "None"
  \/ \E i \in DOMAIN r.posts : r.posts[i] = "ArmRead"

\* No connection is forgotten: an established one is reading or is about to, one
\* that closes behind its writes is writing, and a closing one has an operation or
\* an event left that comes to raise the CLOSING.
NeverForgotten ==
  \A c \in Connections : LET r == conn[c] IN
    /\ r.state = "Established" /\ ~r.closeRequested => "read" \in r.ops \/ Coming(r)
    /\ r.state = "Established" /\ r.closeRequested => "write" \in r.ops \/ Coming(r)
    /\ r.state = "Closing" => r.ops # {} \/ Coming(r)
    /\ r.state = "Closed" => r.pending = "Closing" \/ r.closings = 1
    /\ r.tx > 0 /\ r.state = "Established" => "write" \in r.ops

\* CLOSING is raised only once nothing of the connection is in flight, so no
\* completion touches it afterwards.
ClosedIsQuiet == \A c \in Connections : conn[c].state = "Closed" => conn[c].ops = {}

\* What was queued before the close goes out, unless the connection broke: the
\* CLO the client queues just before it closes.
QueuedGoesOut ==
  \A c \in Connections : conn[c].state \in {"Closing", "Closed"} /\ conn[c].tx > 0 => conn[c].broke

\* The loop is not freed (the manager STOPPED) under a Raise that still uses it.
LoopOutlivesRaise == manager = "STOPPED" => raising = {}

TellsNothingAfter ==
  \A c \in Connections :
    LET r == conn[c] s == conn'[c] IN
    /\ r.closings = 1 => s.told = r.told /\ s.closings = 1
    /\ r.closeCalled => s.told \in {r.told, "Closing"}

\* CLOSING is the last callback of a connection and comes once; after
\* closeConnection or the stop it is the only one.
ClosingIsTheLastWord == [][TellsNothingAfter]_vars

\* A close is answered with CLOSING, and the manager's stop ends.
IsClosing(c) == conn[c].closeCalled
IsGone(c) == ~conn[c].mapped
CloseEnds == \A c \in Connections : IsClosing(c) ~> IsGone(c)
IsStopping == manager = "STOPPING"
IsStopped == manager = "STOPPED"
StopEnds == IsStopping ~> IsStopped
=============================================================================
