----------------------------- MODULE MCHistFlush ----------------------------
(***************************************************************************)
(* Small instances of HistFlush.  A run follows several courses of a       *)
(* group's life, one of them chosen at the start: one that stays, flushed  *)
(* or edited by its host, one that is removed, one that is stopped.        *)
(***************************************************************************)
EXTENDS HistFlush

CONSTANTS r1, r2, e1, e2

VARIABLES course, recovered

MCVars == <<vars, course, recovered>>

MCDays == 1 .. 2
MCOneDay == {1}
MCDayOf == [r \in Records |-> IF r = r2 THEN 2 ELSE 1]
MCEditDay == [c \in Editors |-> IF c = e2 THEN 2 ELSE 1]

\* Only these call, and only these records arrive.
MCOnly(callers, records) ==
  /\ \A c \in Callers \ callers : outcome[c] = "idle"
  /\ Stored \subseteq records

\* What a trim drops of a group that stays is what a failed pass gave back.
MCStays == ~closed /\ ~stopped /\ executor /\ ~trimming
MCRemoved == ~stopped /\ executor

\* One the historian's end stops, no midnight in between; on an executor that
\* stays, or one that may stop too.
MCStopped == ~closed /\ past = {} /\ executor /\ ~trimming
MCHangs == ~closed /\ past = {}

MCNext(allowed) == Next /\ UNCHANGED <<course, recovered>> /\ allowed

MCSafety ==
  /\ course = "flushed" => MCStays /\ MCOnly(Flushers, Records)
  /\ course = "edited"  => MCStays /\ MCOnly(Editors, {r1})
  /\ course = "removed" => MCRemoved /\ MCOnly(Settlers, {r1})
MCInit == Init /\ course \in {"flushed", "edited", "removed"} /\ recovered = FALSE
MCSpec == MCInit /\ [][MCNext(MCSafety')]_MCVars

MCLiveness ==
  /\ course = "stays"   => MCStays /\ MCOnly({}, {r1})
  /\ course = "removed" => MCRemoved /\ MCOnly({}, {r1})
  /\ course = "stopped" => MCStopped /\ \E c \in Callers : MCOnly({c}, {r1})
  /\ course = "hangs"   => MCHangs /\ MCOnly({}, {r1})

\* A step at which the disk fails the pass.
MCDiskFails ==
  \/ \E d \in Days : FailPrepare(d) \/ FailWrite(d) \/ Rename(d, FALSE)
  \/ \E synced \in SUBSET unsynced : synced # unsynced /\ Sync(synced)
  \/ WriteSlot(FALSE)

\* A group that stays or is removed has a disk that recovers.
MCRecover ==
  /\ course \in {"stays", "removed"} /\ ~recovered
  /\ recovered' = TRUE
  /\ UNCHANGED <<vars, course>>

MCLiveInit ==
  Init /\ course \in {"stays", "removed", "stopped", "hangs"} /\ recovered = FALSE

\* Where callers are answered, no pass is left standing while the executor runs:
\* each of its writes returns, well or not.  The historian's end needs only the
\* clock.
MCFairSpec ==
  /\ MCLiveInit
  /\ [][\/ MCNext(MCLiveness' /\ (recovered => ~MCDiskFails))
        \/ MCRecover]_MCVars
  /\ ClockFairness
  /\ WF_vars(course # "hangs" /\ PassStep)
  /\ WF_MCVars(MCRecover)

\* Any course.
MCAnyInit == Init /\ course = "any" /\ recovered = FALSE
MCAnySpec == MCAnyInit /\ [][MCNext(TRUE)]_MCVars

\* Answered, where writes return: each caller of Flush, Settled or Edit is told.
MCAnswered == course # "hangs" => Answered

\* BufferedIsWritten, where the disk recovers: what Group::Push buffered is
\* written, or dropped by a trim or refused.
MCBufferedIsWritten == course \in {"stays", "removed"} => BufferedIsWritten

\* WrittenIsDurable, for a group that stays: GroupFiles::SyncRenamed makes
\* every rename durable in the end.
MCWrittenIsDurable == course = "stays" => WrittenIsDurable

\* What the flush coroutine keeps (Group::StartFlush to EndIfWritten): the
\* state's types and one pass at a time (TypeOK); a caller told true has what
\* it stored in the files (FlushTellsTheTruth); .flushed covers durable files
\* only (ClaimIsDurable); the retry is never lost (AFlushIsComing); and a
\* removed group is let go once written (ReleasedIsWritten).
FlushIsSound ==
  TypeOK /\ FlushTellsTheTruth /\ ClaimIsDurable /\ AFlushIsComing /\ ReleasedIsWritten

\* What the flush coroutine brings: an answer to each caller, what was buffered
\* in its file and durable, a removed group's end, and the historian's own
\* (Group::Stop) even when a write never returns.
FlushIsLive ==
  /\ MCAnswered /\ MCBufferedIsWritten /\ MCWrittenIsDurable
  /\ RemovedIsWritten /\ StopEnds
=============================================================================
