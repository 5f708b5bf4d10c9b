---------------------------- MODULE ClientSocket ----------------------------
(***************************************************************************)
(* One websocket session of a client: SocketCore's write queue and close   *)
(* (include/jde/web/SocketCore.h) under IClientSocketSession's requests,   *)
(* their deadlines and its teardown.  Every operation on the stream runs   *)
(* on its strand, in the order posted; requests, deadlines and closers run *)
(* on other threads, and CloseTasks and OnClose are several steps there.   *)
(* Frames are named by the request they carry.                             *)
(***************************************************************************)
EXTENDS Naturals, Sequences, FiniteSets

CONSTANTS Requests, Closers

VARIABLES core,     \* the stream's SocketCore
          strand,   \* what is posted to its strand
          held,     \* whether the session still has its stream
          reading,  \* whether a read is outstanding
          caller,   \* how far each request's Suspend is
          tasks,    \* the requests pending
          timer,    \* each request's deadline
          drains,   \* the CloseTasks and OnClose running: on the strand, and elsewhere
          erring,   \* the timeouts in CloseOnError, each with the stream it took
          closer, closeHandle,
          sent,     \* the frames the peer has
          resumes,  \* how often each request's caller was resumed
          closes,   \* how often OnClose ran
          late      \* whether a CloseOnError closed a stream the session had let go

vars == <<core, strand, held, reading, caller, tasks, timer, drains, erring, closer, closeHandle, sent, resumes, closes, late>>
session == <<held, caller, tasks, timer, erring, closer, closeHandle, resumes, closes, late>>

Init ==
  /\ core \in [open: BOOLEAN, closing: {FALSE}, writing: {FALSE}, queue: {<< >>}, parked: {FALSE}, deadline: {FALSE},
               transportClosed: {FALSE}, closeOp: {FALSE}]
  /\ strand = << >> /\ held = TRUE /\ reading = core.open
  /\ caller = [r \in Requests |-> "idle"] /\ tasks = {} /\ timer = [r \in Requests |-> "none"]
  /\ drains = [strand |-> "none", other |-> "none"] /\ erring = {}
  /\ closer = [a \in Closers |-> "idle"] /\ closeHandle = {}
  /\ sent = {} /\ resumes = [r \in Requests |-> 0] /\ closes = 0 /\ late = FALSE

-----------------------------------------------------------------------------
(* SocketCore.                                                             *)

\* DoClose: once, by the parked session; no handshake where none is possible.  Handshakes(c) tells whether OnClosed
\* waits for one.
Handshakes(c) == c.open /\ ~c.transportClosed
DoClose(c) == [c EXCEPT !.parked = FALSE, !.queue = << >>, !.closeOp = Handshakes(c), !.deadline = @ /\ Handshakes(c)]

\* Close's half on the strand.
Parks(c) == [c EXCEPT !.parked = TRUE, !.deadline = c.open]

\* Mutant of Closing: the close does not wait out the write.
ClosingAtOnce(c) == DoClose(c)

\* What the strand goes on to, with c the core after a close was parked: it ends the close, or leaves it to the write.
Closing(c) == IF c.writing THEN c ELSE DoClose(c)
EndsNow(c) == ~c.writing /\ ~Handshakes(c)

\* The strand is free for its next completion or closure.
Free == drains.strand = "none"
Pop == strand' = Tail(strand)

\* OnClose begins: CloseTasks, then the closer, then the stream.
BeginOnClose == drains' = [drains EXCEPT !.strand = "cancel"] /\ closes' = closes + 1
KeepDrains == UNCHANGED <<drains, closes>>

StrandWrite ==
  /\ Free /\ strand # << >> /\ Head(strand)[1] = "write"
  /\ core' = IF core.closing THEN core ELSE [core EXCEPT !.queue = Append(@, Head(strand)[2]), !.writing = TRUE]
  /\ Pop /\ UNCHANGED <<reading, drains, sent>> /\ UNCHANGED session

StrandClose ==
  /\ Free /\ strand # << >> /\ Head(strand)[1] = "close"
  /\ core' = Closing(Parks(core))
  /\ IF EndsNow(core) THEN BeginOnClose ELSE KeepDrains
  /\ Pop /\ UNCHANGED <<reading, sent, held, caller, tasks, timer, erring, closer, closeHandle, resumes, late>>

\* A write's completion: it ends a close that waited for it, or starts the next.
WriteNext(c) ==
  IF c.parked THEN DoClose(c)
  ELSE IF c.queue # << >> /\ ~c.closing THEN [c EXCEPT !.writing = TRUE]
  ELSE c

Wrote(ok) ==
  LET c == [core EXCEPT !.queue = Tail(@), !.writing = FALSE]
  IN  /\ Free /\ core.writing /\ (ok => ~core.transportClosed)
      /\ core' = WriteNext(c)
      /\ sent' = IF ok THEN sent \cup {Head(core.queue)} ELSE sent   \* OnWriteError only logs.
      /\ IF c.parked /\ ~Handshakes(c) THEN BeginOnClose ELSE KeepDrains
      /\ UNCHANGED <<strand, reading, held, caller, tasks, timer, erring, closer, closeHandle, resumes, late>>

CloseDone ==
  /\ Free /\ core.closeOp
  /\ core' = [core EXCEPT !.closeOp = FALSE, !.deadline = FALSE]
  /\ BeginOnClose
  /\ UNCHANGED <<strand, reading, sent, held, caller, tasks, timer, erring, closer, closeHandle, resumes, late>>

DeadlineFires ==
  /\ Free /\ core.deadline
  /\ core' = [core EXCEPT !.deadline = FALSE, !.transportClosed = TRUE]
  /\ UNCHANGED <<strand, reading, drains, sent>> /\ UNCHANGED session

\* The handshake completes: a close that came before aborted it at the transport.
Opens ==
  /\ Free /\ ~core.open /\ ~core.closing
  /\ core' = [core EXCEPT !.open = TRUE] /\ reading' = TRUE
  /\ UNCHANGED <<strand, drains, sent>> /\ UNCHANGED session

-----------------------------------------------------------------------------
(* A request: AddTask, AddTimeout, Write.                                  *)

rest == <<core, reading, drains, erring, closer, closeHandle, sent, closes, late, held>>

AddTask(r) ==
  /\ caller[r] = "idle" /\ core.open
  /\ tasks' = tasks \cup {r} /\ caller' = [caller EXCEPT ![r] = "tasked"]
  /\ UNCHANGED <<strand, timer, resumes>> /\ UNCHANGED rest

\* A task failed since is not waited for.
AddTimeout(r) ==
  /\ caller[r] = "tasked"
  /\ timer' = [timer EXCEPT ![r] = IF r \in tasks THEN "armed" ELSE "none"]
  /\ caller' = [caller EXCEPT ![r] = "timed"]
  /\ UNCHANGED <<strand, tasks, resumes>> /\ UNCHANGED rest

\* With no stream left, what is pending is failed, posted.
Write(r) ==
  /\ caller[r] = "timed"
  /\ strand' = IF held THEN Append(strand, <<"write", r>>) ELSE strand
  /\ held \/ drains.other = "none"
  /\ drains' = IF held THEN drains ELSE [drains EXCEPT !.other = "cancel"]
  /\ caller' = [caller EXCEPT ![r] = "written"]
  /\ UNCHANGED <<tasks, timer, resumes, core, reading, erring, closer, closeHandle, sent, closes, late, held>>

-----------------------------------------------------------------------------
(* CloseTasks: the deadlines cancelled, then the tasks taken and failed.   *)

CancelTimeouts(at) ==
  /\ drains[at] = "cancel"
  /\ timer' = [r \in Requests |-> IF timer[r] = "armed" THEN "cancelled" ELSE timer[r]]
  /\ drains' = [drains EXCEPT ![at] = "erase"]
  /\ UNCHANGED <<core, strand, held, reading, caller, tasks, erring, closer, closeHandle, sent, resumes, closes, late>>

\* Mutant of FailTasks: the tasks are failed where they stand.
FailTasksKept(at) ==
  /\ drains[at] = "erase"
  /\ resumes' = [r \in Requests |-> IF r \in tasks THEN resumes[r] + 1 ELSE resumes[r]]
  /\ drains' = [drains EXCEPT ![at] = IF at = "strand" /\ closes > 0 THEN "finish" ELSE "none"]
  /\ UNCHANGED <<core, strand, held, reading, caller, tasks, timer, erring, closer, closeHandle, sent, closes, late>>

FailTasks(at) ==
  /\ drains[at] = "erase"
  /\ tasks' = {}
  /\ resumes' = [r \in Requests |-> IF r \in tasks THEN resumes[r] + 1 ELSE resumes[r]]
  /\ drains' = [drains EXCEPT ![at] = IF at = "strand" /\ closes > 0 THEN "finish" ELSE "none"]
  /\ UNCHANGED <<core, strand, held, reading, caller, timer, erring, closer, closeHandle, sent, closes, late>>

\* OnClose's end.
Finish ==
  /\ drains.strand = "finish"
  /\ closer' = [a \in Closers |-> IF a \in closeHandle THEN "done" ELSE closer[a]] /\ closeHandle' = {}
  /\ held' = FALSE
  /\ drains' = [drains EXCEPT !.strand = "none"]
  /\ UNCHANGED <<core, strand, reading, caller, tasks, timer, erring, sent, resumes, closes, late>>

-----------------------------------------------------------------------------
(* The read.                                                               *)

\* Mutant of PopTask: the answered task stays pending.
PopTaskKept(r) == tasks' = tasks /\ timer' = [timer EXCEPT ![r] = IF @ = "armed" THEN "cancelled" ELSE @]
PopTask(r) == tasks' = tasks \ {r} /\ timer' = [timer EXCEPT ![r] = IF @ = "armed" THEN "cancelled" ELSE @]

Answered(r) ==
  /\ Free /\ reading /\ held /\ r \in sent /\ r \in tasks
  /\ PopTask(r)
  /\ resumes' = [resumes EXCEPT ![r] = @ + 1]
  /\ UNCHANGED <<core, strand, held, reading, caller, drains, erring, closer, closeHandle, sent, closes, late>>

\* A stream error, or a transmission that cannot be read: the stream is closed, here on its strand.
ReadFails ==
  /\ Free /\ reading /\ held /\ ~core.closing
  /\ reading' = FALSE
  /\ core' = Closing([Parks(core) EXCEPT !.closing = TRUE])
  /\ KeepDrains
  /\ UNCHANGED <<strand, sent, held, caller, tasks, timer, erring, closer, closeHandle, resumes, late>>

\* Mutant of ReadClosed: the peer's close fails the tasks alone.
ReadClosedTasks ==
  /\ Free /\ reading /\ held
  /\ reading' = FALSE /\ drains' = [drains EXCEPT !.strand = "cancel"] /\ closes' = closes
  /\ UNCHANGED <<core, strand, sent, held, caller, tasks, timer, erring, closer, closeHandle, resumes, late>>
\* Mutant of ReadClosed: it tears down whether or not a close of ours is in flight.
ReadClosedTwice ==
  /\ Free /\ reading /\ held
  /\ reading' = FALSE /\ BeginOnClose
  /\ UNCHANGED <<core, strand, sent, held, caller, tasks, timer, erring, closer, closeHandle, resumes, late>>

\* The peer's close: its teardown is a close of ours in flight, or this one.
ReadClosed ==
  /\ Free /\ reading /\ held
  /\ reading' = FALSE
  /\ IF core.closing THEN drains' = [drains EXCEPT !.strand = "cancel"] /\ closes' = closes ELSE BeginOnClose
  /\ UNCHANGED <<core, strand, sent, held, caller, tasks, timer, erring, closer, closeHandle, resumes, late>>

ReadAborted ==
  /\ Free /\ reading /\ core.closing
  /\ reading' = FALSE
  /\ UNCHANGED <<core, strand, drains, sent>> /\ UNCHANGED session

-----------------------------------------------------------------------------
(* The deadlines, and the closers.                                         *)

\* Mutant of TimerEnds: with no stream there is nothing to close, and nothing is failed.
TimerEndsQuietly(r) ==
  /\ timer[r] = "cancelled" \/ (timer[r] = "armed" /\ Free)
  /\ timer' = [timer EXCEPT ![r] = "none"]
  /\ erring' = IF r \in tasks /\ held THEN erring \cup {r} ELSE erring
  /\ UNCHANGED <<core, strand, held, reading, caller, tasks, drains, closer, closeHandle, sent, resumes, closes, late>>

\* A deadline passed or cancelled: it closes the stream of a request still pending, or fails what has none.  A deadline
\* outlasts the few steps of an OnClose.
TimerEnds(r) ==
  /\ timer[r] = "cancelled" \/ (timer[r] = "armed" /\ Free)
  /\ timer' = [timer EXCEPT ![r] = "none"]
  /\ LET errs == r \in tasks
     IN  /\ erring' = IF errs /\ held THEN erring \cup {r} ELSE erring
         /\ errs /\ ~held => drains.other = "none"
         /\ drains' = IF errs /\ ~held THEN [drains EXCEPT !.other = "cancel"] ELSE drains
  /\ UNCHANGED <<core, strand, held, reading, caller, tasks, closer, closeHandle, sent, resumes, closes, late>>

\* CloseOnError's Close, of the stream it took.
CloseOnError(r) ==
  /\ r \in erring /\ erring' = erring \ {r}
  /\ core' = [core EXCEPT !.closing = TRUE]
  /\ strand' = IF core.closing THEN strand ELSE Append(strand, <<"close">>)
  /\ late' = (late \/ (~core.closing /\ (closes > 0 \/ ~held)))
  /\ UNCHANGED <<held, reading, caller, tasks, timer, drains, closer, closeHandle, sent, resumes, closes>>

\* CloseClientSocketSessionAwait: await_ready, then Suspend.
AwaitReady(a) ==
  /\ closer[a] = "idle"
  /\ closer' = [closer EXCEPT ![a] = IF ~held \/ core.closing THEN "done" ELSE "suspends"]
  /\ UNCHANGED <<core, strand, held, reading, caller, tasks, timer, drains, erring, closeHandle, sent, resumes, closes, late>>

Suspend(a) ==
  /\ closer[a] = "suspends"
  /\ closer' = [closer EXCEPT ![a] = IF held THEN "posted" ELSE "done"]
  /\ strand' = IF held THEN Append(strand, <<"await", a>>) ELSE strand
  /\ UNCHANGED <<core, held, reading, caller, tasks, timer, drains, erring, closeHandle, sent, resumes, closes, late>>

\* Mutant of Decide: the closer waits for an OnClose that may have run.
DecideStale(a) ==
  /\ closeHandle' = {a} /\ closer' = closer
  /\ core' = IF ~held \/ core.closing THEN core ELSE Closing([Parks(core) EXCEPT !.closing = TRUE])
  /\ IF held /\ ~core.closing /\ EndsNow(core) THEN BeginOnClose ELSE KeepDrains

\* On the strand: a stream still the session's and not closing is closed, and its OnClose resumes the closer.
Decide(a) ==
  IF held /\ ~core.closing
  THEN /\ closeHandle' = {a} /\ closer' = closer
       /\ core' = Closing([Parks(core) EXCEPT !.closing = TRUE])
       /\ IF EndsNow(core) THEN BeginOnClose ELSE KeepDrains
  ELSE /\ closer' = [closer EXCEPT ![a] = "done"] /\ UNCHANGED <<core, closeHandle>> /\ KeepDrains

StrandAwait ==
  /\ Free /\ strand # << >> /\ Head(strand)[1] = "await"
  /\ Decide(Head(strand)[2]) /\ Pop
  /\ UNCHANGED <<held, reading, caller, tasks, timer, erring, sent, resumes, late>>

Next ==
  \/ StrandWrite \/ StrandClose \/ StrandAwait \/ (\E ok \in BOOLEAN : Wrote(ok)) \/ CloseDone \/ DeadlineFires \/ Opens
  \/ \E r \in Requests : AddTask(r) \/ AddTimeout(r) \/ Write(r) \/ Answered(r) \/ TimerEnds(r) \/ CloseOnError(r)
  \/ \E at \in {"strand", "other"} : CancelTimeouts(at) \/ FailTasks(at)
  \/ Finish \/ ReadFails \/ ReadClosed \/ ReadAborted
  \/ \E a \in Closers : AwaitReady(a) \/ Suspend(a)

Spec == Init /\ [][Next]_vars

\* The executor runs what is posted, the deadlines pass, and an operation on a closed transport completes; a peer that
\* stopped reading completes neither a write nor a close.
Fairness ==
  /\ WF_vars(StrandWrite \/ StrandClose \/ StrandAwait)
  /\ WF_vars(core.transportClosed /\ (CloseDone \/ Wrote(FALSE))) /\ WF_vars(DeadlineFires)
  /\ \A at \in {"strand", "other"} : WF_vars(CancelTimeouts(at) \/ FailTasks(at))
  /\ WF_vars(Finish)
  /\ \A r \in Requests : WF_vars(AddTimeout(r) \/ Write(r)) /\ WF_vars(TimerEnds(r)) /\ WF_vars(CloseOnError(r))
  /\ \A a \in Closers : WF_vars(Suspend(a))
FairSpec == Spec /\ Fairness

-----------------------------------------------------------------------------
TypeOK ==
  /\ core \in [open: BOOLEAN, closing: BOOLEAN, writing: BOOLEAN, queue: Seq(Requests), parked: BOOLEAN, deadline: BOOLEAN,
               transportClosed: BOOLEAN, closeOp: BOOLEAN]
  /\ held \in BOOLEAN /\ reading \in BOOLEAN /\ tasks \subseteq Requests /\ erring \subseteq Requests
  /\ timer \in [Requests -> {"none", "armed", "cancelled"}] /\ closeHandle \subseteq Closers
  /\ drains \in [{"strand", "other"} -> {"none", "cancel", "erase", "finish"}]

\* Beast allows one write-type operation at a time: a close frame never overlaps a write, and no frame starts behind it.
OneWriteOp == /\ ~(core.writing /\ core.closeOp)
              /\ core.writing => core.queue # << >>
              /\ core.closeOp => core.queue = << >>

\* A caller is resumed once: by its answer or by the teardown, never by both, whichever of a reply, a deadline and a
\* close comes first.
ResumedOnce == \A r \in Requests : resumes[r] <= 1 /\ (r \in tasks => resumes[r] = 0)

\* A request still pending once its Suspend is through has something that will end it: its deadline, or a drain on its way.
PendingIsGuarded ==
  \A r \in tasks : caller[r] = "written" =>
    timer[r] # "none" \/ r \in erring \/ drains.other # "none" \/ drains.strand \in {"cancel", "erase"}
    \/ core.parked \/ core.closeOp \/ (\E i \in 1..Len(strand) : strand[i] = <<"close">>)

\* A stream nothing reads any more is one the session is letting go:  left with it, a session whose peer closed counted as
\* connected and never reconnected.
ReadOrEnding == core.open /\ held /\ ~reading => core.closing \/ drains.strand # "none"

\* A close ends in one OnClose, which a derived session reconnects from; but for a CloseOnError that took the stream before.
TornDownOnce == closes > 1 => late

\* The last word on a request: answered or failed, however the peer, the network and the closers behave.
IsTasked(r) == caller[r] = "tasked"
IsResumed(r) == resumes[r] > 0
EveryRequestEnds == \A r \in Requests : IsTasked(r) ~> IsResumed(r)

\* A closer is resumed: by the OnClose its close ends in, or at once where there is none to wait for.
Suspends(a) == closer[a] = "suspends"
IsDone(a) == closer[a] = "done"
EveryCloserEnds == \A a \in Closers : Suspends(a) ~> IsDone(a)
=============================================================================
