----------------------------- MODULE ServedWrites -----------------------------
(***************************************************************************)
(* The held write of the gateway's own OPC UA endpoint (ServedWrites.cpp): *)
(* a client's Write is queued by node on the server's thread, forwarded to *)
(* the source one at a time, and its answer set back on the server's       *)
(* thread, keyed by the operation's address.  open62541 may cancel an      *)
(* operation meanwhile and give its address to another, and the endpoint   *)
(* may stop at any step.  The server's thread is one: a write coming in, a *)
(* cancel and the callback that sets the answers exclude each other.       *)
(***************************************************************************)
EXTENDS Naturals, Sequences, FiniteSets, SequencesExt

CONSTANTS Nodes,
          Addresses,    \* where open62541 may make an operation
          MaxWrites

None == 0
VARIABLES operation, \* open62541's (external): the write each address's operation is for, None for a free one
          queue,     \* _nodes: the writes of each node, each with its key, None once cancelled
          forward,   \* where the node's Forward is
          ready,     \* _ready: the answers for the server's thread
          scheduled, \* whether the timed callback is waiting in the server
          server,    \* _server is set
          stopped, stop,   \* _stopped, and where Stop is
          sent,      \* the writes of each node sent, in order
          set,       \* the answers set: the operation's write and the answer's
          ended,     \* the writes answered, cancelled or dropped
          count      \* the writes made

vars == <<operation, queue, forward, ready, scheduled, server, stopped, stop, sent, set, ended, count>>

Init ==
  /\ operation = [a \in Addresses |-> None] /\ queue = [n \in Nodes |-> << >>] /\ forward = [n \in Nodes |-> "none"]
  /\ ready = << >> /\ scheduled = FALSE /\ server = TRUE /\ stopped = FALSE /\ stop = "no"
  /\ sent = [n \in Nodes |-> << >>] /\ set = {} /\ ended = {} /\ count = 0

-----------------------------------------------------------------------------
(* The server's thread.                                                    *)

\* Mutant of Queued: the newest write goes first.
QueuedFirst(q, w) == <<w>> \o q
Queued(q, w) == Append(q, w)

\* The value source's write: refused once stopped, else queued, and forwarded when it is the first.
Write(n, a) ==
  /\ operation[a] = None /\ count < MaxWrites /\ stop # "gone"
  /\ count' = count + 1
  /\ IF stopped THEN ended' = ended \cup {count + 1} /\ UNCHANGED <<operation, queue, forward>>
     ELSE /\ operation' = [operation EXCEPT ![a] = count + 1] /\ UNCHANGED ended
          /\ queue' = [queue EXCEPT ![n] = Queued(@, [write |-> count + 1, key |-> a])]
          /\ forward' = IF queue[n] = << >> THEN [forward EXCEPT ![n] = "posted"] ELSE forward
  /\ UNCHANGED <<ready, scheduled, server, stopped, stop, sent, set>>

\* Mutant of Cancelled: a write already sent keeps its key.
CancelledKept(q, a) ==
  [n \in Nodes |-> [i \in 1..Len(q[n]) |-> IF q[n][i].key = a /\ (i > 1 \/ forward[n] \in {"posted", "taken", "connected"})
                                           THEN [q[n][i] EXCEPT !.key = None] ELSE q[n][i]]]
Cancelled(q, a) == [n \in Nodes |-> [i \in 1..Len(q[n]) |-> IF q[n][i].key = a THEN [q[n][i] EXCEPT !.key = None] ELSE q[n][i]]]

\* open62541 ends the operation - a timeout, a client's Cancel, its queue's limit - and frees it.
Cancel(a) ==
  /\ operation[a] # None /\ stop # "gone"
  /\ queue' = Cancelled(queue, a) /\ operation' = [operation EXCEPT ![a] = None] /\ ended' = ended \cup {operation[a]}
  /\ UNCHANGED <<forward, ready, scheduled, server, stopped, stop, sent, set, count>>

\* Set: the front popped, its answer set if its key is still an operation's, and the node's next write forwarded.  Once stopped
\* (ua null) nothing is set.
\* Mutant of Popped: the next write waits for another.
PoppedOnly(s, n) == [s EXCEPT !.queue[n] = Tail(@), !.forward[n] = "none"]
Popped(s, n) == [s EXCEPT !.queue[n] = Tail(@), !.forward[n] = IF Len(s.queue[n]) > 1 THEN "posted" ELSE "none"]
SetOne(ua, s, n) ==
  IF s.queue[n] = << >> THEN s
  ELSE LET w == Head(s.queue[n]) IN
       IF ua /\ w.key # None /\ s.operation[w.key] # None
       THEN Popped([s EXCEPT !.set = @ \cup {<<s.operation[w.key], w.write>>}, !.ended = @ \cup {s.operation[w.key]},
                             !.operation[w.key] = None], n)
       ELSE Popped(s, n)
State == [queue |-> queue, forward |-> forward, operation |-> operation, set |-> set, ended |-> ended]
SetAll(ua, answers) == FoldLeft(LAMBDA s, n : SetOne(ua, s, n), State, answers)
Takes(s) == queue' = s.queue /\ forward' = s.forward /\ operation' = s.operation /\ set' = s.set /\ ended' = s.ended

\* The timed callback: every ready answer.
Answered ==
  /\ scheduled /\ stop # "gone" /\ scheduled' = FALSE /\ ready' = << >> /\ Takes(SetAll(TRUE, ready))
  /\ UNCHANGED <<server, stopped, stop, sent, count>>

-----------------------------------------------------------------------------
(* The executor.                                                           *)

\* Drop: the cancelled writes off the front, or every write once stopped.
\* Mutant of Dropped: a cancelled write is sent.
DroppedNone(q) == IF stopped THEN << >> ELSE q
Dropped(q) ==
  IF stopped THEN << >>
  ELSE LET live == {i \in 1..Len(q) : q[i].key # None} IN
       IF live = {} THEN << >> ELSE SubSeq(q, CHOOSE i \in live : \A j \in live : i <= j, Len(q))
Ended(q) == {q[i].write : i \in 1..Len(q)}

\* Forward begins: the front left is taken, or the node is let go.
Begin(n) ==
  LET left == Dropped(queue[n]) IN
  /\ forward[n] = "posted" /\ queue' = [queue EXCEPT ![n] = left]
  /\ forward' = [forward EXCEPT ![n] = IF left = << >> THEN "none" ELSE "taken"]
  /\ ended' = ended \cup {w \in Ended(queue[n]) : stopped}
  /\ UNCHANGED <<operation, ready, scheduled, server, stopped, stop, sent, set, count>>

\* The group isn't live, the source hasn't named the node, the connect fails, or it is connected.
Finds(n) ==
  /\ forward[n] = "taken" /\ \E pc \in {"answers", "connected"} : forward' = [forward EXCEPT ![n] = pc]
  /\ UNCHANGED <<operation, queue, ready, scheduled, server, stopped, stop, sent, set, ended, count>>

\* Mutant of Sends: the write is not looked at again after the connect.
SendsAnyway(n) ==
  /\ forward[n] = "connected" /\ sent' = [sent EXCEPT ![n] = Append(@, Head(queue[n]).write)] /\ forward' = [forward EXCEPT ![n] = "sent"]
  /\ UNCHANGED <<operation, queue, ready, scheduled, server, stopped, stop, set, ended, count>>
\* Connected: the front is sent, unless it was cancelled during the connect or the writes stopped.
Sends(n) ==
  LET live == ~stopped /\ Head(queue[n]).key # None
      left == Dropped(queue[n])
  IN  /\ forward[n] = "connected"
      /\ IF live THEN sent' = [sent EXCEPT ![n] = Append(@, Head(queue[n]).write)] /\ forward' = [forward EXCEPT ![n] = "sent"] /\ UNCHANGED <<queue, ended>>
         ELSE /\ queue' = [queue EXCEPT ![n] = left] /\ forward' = [forward EXCEPT ![n] = IF left = << >> THEN "none" ELSE "posted"]
              /\ ended' = ended \cup {w \in Ended(queue[n]) : stopped} /\ UNCHANGED sent
      /\ UNCHANGED <<operation, ready, scheduled, server, stopped, stop, set, count>>

\* The source's answer, or the client's that failed it.
SourceAnswers(n) ==
  /\ forward[n] = "sent" /\ forward' = [forward EXCEPT ![n] = "answers"]
  /\ UNCHANGED <<operation, queue, ready, scheduled, server, stopped, stop, sent, set, ended, count>>

\* Mutant of AnswerStopped: the answer is set though the writes have stopped.
AnswerStoppedSets(n) == SetAll(TRUE, <<n>>)
AnswerStopped(n) == SetAll(FALSE, <<n>>)
\* Answer: put with those ready, the first to schedule the callback; once stopped, the front goes here.
Answer(n) ==
  /\ forward[n] = "answers"
  /\ IF stopped THEN Takes(AnswerStopped(n)) /\ UNCHANGED ready
     ELSE /\ ready' = Append(ready, n)
          /\ forward' = [forward EXCEPT ![n] = IF ready = << >> THEN "schedules" ELSE "ready"]
          /\ UNCHANGED <<queue, operation, set, ended>>
  /\ UNCHANGED <<scheduled, server, stopped, stop, sent, count>>

\* Schedule: the callback in the server, under its lock; without one, Stop has the answers.  The server may refuse it, and then
\* no answer ready is set.
Schedule(n) ==
  /\ forward[n] = "schedules"
  /\ \/ /\ scheduled' = server /\ forward' = [forward EXCEPT ![n] = "ready"]
        /\ UNCHANGED <<queue, operation, ready, set, ended>>
     \/ /\ server /\ ready' = << >> /\ UNCHANGED scheduled
        /\ Takes(SetAll(FALSE, ready))
  /\ UNCHANGED <<server, stopped, stop, sent, count>>

-----------------------------------------------------------------------------
(* Stop: the server let go, then the writes stopped, then what is ready.   *)

StopServer ==
  /\ stop = "no" /\ stop' = "server" /\ server' = FALSE
  /\ UNCHANGED <<operation, queue, forward, ready, scheduled, stopped, sent, set, ended, count>>
StopWrites ==
  /\ stop = "server" /\ stop' = "writes" /\ stopped' = TRUE
  /\ UNCHANGED <<operation, queue, forward, ready, scheduled, server, sent, set, ended, count>>
\* Mutant of StopReady: the answers are left to the server.
StopReadyNot ==
  /\ stop = "writes" /\ stop' = "done"
  /\ UNCHANGED <<operation, queue, forward, ready, scheduled, server, stopped, sent, set, ended, count>>
StopReady ==
  /\ stop = "writes" /\ stop' = "done" /\ ready' = << >> /\ Takes(SetAll(FALSE, ready))
  /\ UNCHANGED <<scheduled, server, stopped, sent, count>>
\* The server itself, its thread joined and its operations cancelled.
ServerGone ==
  /\ stop = "done" /\ stop' = "gone" /\ ended' = ended \cup {operation[a] : a \in {b \in Addresses : operation[b] # None}}
  /\ operation' = [a \in Addresses |-> None]
  /\ queue' = [n \in Nodes |-> [i \in 1..Len(queue[n]) |-> [queue[n][i] EXCEPT !.key = None]]]
  /\ UNCHANGED <<forward, ready, scheduled, server, stopped, sent, set, count>>

Executes(n) == Begin(n) \/ Finds(n) \/ Sends(n) \/ SourceAnswers(n) \/ Answer(n) \/ Schedule(n)
Next ==
  \/ \E n \in Nodes, a \in Addresses : Write(n, a)
  \/ \E a \in Addresses : Cancel(a)
  \/ \E n \in Nodes : Executes(n)
  \/ Answered \/ StopServer \/ StopWrites \/ StopReady \/ ServerGone

Spec == Init /\ [][Next]_vars
\* The executor and the server's thread run, a source answers, and a stop begun goes on.
Fairness ==
  /\ \A n \in Nodes : WF_vars(Executes(n))
  /\ WF_vars(Answered) /\ WF_vars(StopWrites \/ StopReady \/ ServerGone)
FairSpec == Spec /\ Fairness

-----------------------------------------------------------------------------
TypeOK ==
  /\ operation \in [Addresses -> 0..MaxWrites] /\ stopped \in BOOLEAN /\ server \in BOOLEAN /\ scheduled \in BOOLEAN
  /\ forward \in [Nodes -> {"none", "posted", "taken", "connected", "sent", "answers", "schedules", "ready"}]
  /\ \A n \in Nodes : \A i \in 1..Len(queue[n]) : queue[n][i].write \in 1..MaxWrites /\ queue[n][i].key \in Addresses \cup {None}
  /\ ended \subseteq 1..MaxWrites

\* Every answer set is the answer of the write whose operation it is set on: an address freed and made another operation's is
\* never answered with the earlier write's.
AnswerIsItsOwn == \A s \in set : s[1] = s[2]

\* A write is sent once, and a node's in the order they came; one cancelled before its connect is through is never sent.
InOrder == \A n \in Nodes : \A i, j \in 1..Len(sent[n]) : i < j => sent[n][i] < sent[n][j]
SendsNoneCancelled == \A n \in Nodes : sent'[n] # sent[n] => Last(sent'[n]) \notin ended
CancelledIsNotSent == [][SendsNoneCancelled]_vars

\* A node with writes queued has its forward under way, or its answer ready with a callback or a stop to take it.
NoStuckQueue ==
  \A n \in Nodes :
    /\ queue[n] # << >> <=> forward[n] # "none"
    /\ forward[n] = "ready" =>
         (\E i \in 1..Len(ready) : ready[i] = n) /\ (scheduled \/ stop \in {"server", "writes"} \/ \E m \in Nodes : forward[m] = "schedules")

\* After Stop nothing is set: the server may be gone.
SetsNoneStopped == stop \in {"done", "gone"} => set' = set
StoppedSetsNothing == [][SetsNoneStopped]_vars

\* Every write ends: answered, cancelled by open62541, or dropped once stopped.
HasWrites(n) == queue[n] # << >>
EveryWriteEnds == \A n \in Nodes : HasWrites(n) ~> ~HasWrites(n)
=============================================================================
