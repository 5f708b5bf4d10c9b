----------------------------- MODULE HistFlush ------------------------------
(***************************************************************************)
(* The flush turn of one historian group: who asks for a flush, the one    *)
(* pass that runs at a time, what it tells those who wait, and how the     *)
(* group ends (libs/historian/src/Flush.cpp, with Close, Return, Written   *)
(* and EndIfWritten of Group.cpp and the end of Historian.cpp).            *)
(*                                                                         *)
(* One action per hold of Group::_mutex or _filesMutex, or per write the   *)
(* pass awaits.  A flush is asked for by the clock (the `delay` timer,     *)
(* midnight, a buffer of 8 KB), by Flush, Settled and Edit, by a removal   *)
(* and by the historian's end.  Between any two steps of the pass the      *)
(* group may collect, be asked, be removed or be stopped, and a write may  *)
(* fail, or outlast the historian's stop limit.                            *)
(*                                                                         *)
(* Abstracted: a record is a name and the day it is filed under (its way   *)
(* through the buffer is HistBuffer's), sizes are the answers of the tests *)
(* made of them, the heartbeats Take leaves for the next pass, the         *)
(* corrections of later files' start values, and the clock: `delay` having *)
(* passed is the expiry of the timer a pass arms at its end.               *)
(***************************************************************************)
EXTENDS Naturals, FiniteSets

CONSTANTS
  Records,   \* what is stored while the group lives
  Days,      \* the days of its files
  DayOf,     \* the day a record is filed under
  Refused,   \* days whose file the historian won't write to
  Flushers,  \* callers of Group::Flush, once each
  Settlers,  \* callers of Group::Settled
  Editors,   \* callers of Group::Edit
  EditDay,   \* the day of the value an edit changes
  MaxHops    \* bound: callbacks of the clock on their way at once

ASSUME DaysAssumption == Days \subseteq Nat /\ IsFiniteSet(Days)
ASSUME DayOfAssumption == DayOf \in [Records -> Days]
ASSUME RefusedAssumption == Refused \subseteq Days
ASSUME EditDayAssumption == EditDay \in [Editors -> Days]
ASSUME MaxHopsAssumption == MaxHops \in Nat \ {0}
ASSUME WaitersAssumption ==
  /\ Flushers \cap Settlers = {}
  /\ Flushers \cap Editors = {}
  /\ Settlers \cap Editors = {}

VARIABLES
  \* The group, under _mutex.
  flushing, again, requested, pending, closed, archived, stopped, ended,
  failing,   \* _failing: only `delay` tries again
  deferred,  \* _deferredDays while _deferred holds, else empty
  buffer,    \* _changes and _values
  waiters, settling, edits, \* _waiters, _settling, _edits
  \* The clock, and the executor the passes and the timers run on.
  timer, midnight,          \* armed
  hops,      \* Request() calls on their way
  trimming,  \* Store::_trimRequested
  executor,
  \* The group's files, under _filesMutex.
  file,      \* what each day has: no file, a live one, an archive
  placed,    \* records in the file of their day
  durable,   \* those a power loss can't take back
  unsynced,  \* _unsynced: archives whose rename isn't yet durable
  past,      \* days that ended `delay` ago
  retired,   \* _retired
  recent,    \* days rewritten less than `delay` ago, _rewritten
  failed,    \* the keys of _failingDays
  waiting,   \* those whose `delay` isn't up
  claim,     \* what .flushed claims: every record from before its time
  \* The running pass of Flushing.
  pc, pass,
  \* The callers.
  outcome, before, edited,
  \* The historian's end, and what was lost to it or to a trim.
  out,       \* Stopped's wait reached its deadline
  unlocked,  \* Store::Lock was let go
  released,  \* EndIfWritten let go of the group's name
  trimmed, refused

groupVars == <<flushing, again, requested, pending, closed, archived, stopped,
               ended, failing, deferred, buffer>>
queueVars == <<waiters, settling, edits>>
clockVars == <<timer, midnight, hops, trimming, executor>>
dayVars == <<past, retired, recent, failed, waiting>>
fileVars == <<file, placed, durable, unsynced>>
callVars == <<outcome, before, edited>>
endVars == <<out, unlocked, released>>
lossVars == <<trimmed, refused>>
vars == <<groupVars, queueVars, clockVars, dayVars, fileVars, claim, pc, pass,
          callVars, endVars, lossVars>>

Callers == Flushers \cup Settlers \cup Editors

\* What the local variables of Flushing hold: its batch, the days it has yet
\* to come to, the day it is writing, those it gives back, and its verdict.
Pass == [batch : SUBSET Records, todo : SUBSET Days, day : Days \cup {0},
         waiters : SUBSET Flushers, edits : SUBSET Editors,
         retryAll : BOOLEAN, mergeNow : BOOLEAN, promise : SUBSET Records,
         held : SUBSET Days, deferring : SUBSET Days, failing : BOOLEAN,
         progressed : BOOLEAN, discarded : BOOLEAN, failed : BOOLEAN, done : SUBSET Editors,
         abandoned : BOOLEAN]

NoPass == [batch |-> {}, todo |-> {}, day |-> 0, waiters |-> {}, edits |-> {},
           retryAll |-> FALSE, mergeNow |-> FALSE, promise |-> {},
           held |-> {}, deferring |-> {}, failing |-> FALSE,
           progressed |-> FALSE, discarded |-> FALSE, failed |-> FALSE, done |-> {},
           abandoned |-> FALSE]

Of(R, d) == {r \in R : DayOf[r] = d}
In(R, D) == {r \in R : DayOf[r] \in D}
Stored == buffer \cup pass.batch \cup placed \cup trimmed \cup refused

Init ==
  /\ flushing = FALSE /\ again = FALSE /\ requested = FALSE
  /\ pending = FALSE /\ closed = FALSE /\ archived = TRUE
  /\ stopped = FALSE /\ ended = FALSE /\ failing = FALSE
  /\ deferred = {} /\ buffer = {}
  /\ waiters = {} /\ settling = {} /\ edits = {}
  /\ timer = TRUE /\ midnight = TRUE /\ hops = 0
  /\ trimming = FALSE /\ executor = TRUE
  /\ file = [d \in Days |-> "none"]
  /\ placed = {} /\ durable = {} /\ unsynced = {}
  /\ past = {} /\ retired = FALSE /\ recent = {}
  /\ failed = {} /\ waiting = {}
  /\ claim = {}
  /\ pc = "idle" /\ pass = NoPass
  /\ outcome = [c \in Callers |-> "idle"]
  /\ before = [c \in Callers |-> {}]
  /\ edited = {}
  /\ out = FALSE /\ unlocked = FALSE /\ released = FALSE
  /\ trimmed = {} /\ refused = {}

-----------------------------------------------------------------------------
(* Who asks for a pass *)

\* A mutant of StartPass: _flushing isn't taken.
StartPassUnmarked ==
  /\ flushing' = flushing
  /\ pc' = IF flushing THEN pc ELSE "take"

\* std::exchange( _flushing, true ), and the pass it starts.
StartPass ==
  /\ flushing' = TRUE
  /\ pc' = IF flushing THEN pc ELSE "take"

\* Group::Written.
WrittenIf(noneLive) == closed /\ noneLive /\ buffer = {} /\ edits = {}
Written == WrittenIf(archived)

\* Push: Hold, then ClaimFlush, then what Pushed asks the clock for.  A
\* record for another day than those an archive's rewrite holds back ends
\* _deferred.  size says whether 8 KB arrived since a pass took the buffer,
\* and whether the buffers are past maxBuffer.
Store(r, size) ==
  LET holds == IF DayOf[r] \in deferred THEN deferred ELSE {}
      claims == /\ size # "small"
                /\ ~requested /\ ~failing
                /\ holds = {} \/ size = "over"
  IN /\ r \notin Stored
     /\ ~closed /\ ~stopped /\ ~ended
     /\ claims => hops < MaxHops
     /\ buffer' = buffer \cup {r}
     /\ deferred' = holds
     /\ requested' = (requested \/ claims)
     /\ hops' = IF claims THEN hops + 1 ELSE hops
     /\ trimming' = (trimming \/ (size = "over" /\ ~claims))
     /\ UNCHANGED <<flushing, again, pending, closed, archived, stopped, ended,
                    failing, queueVars, timer, midnight, executor, dayVars,
                    fileVars, claim, pc, pass, callVars, endVars, lossVars>>

\* Store::Trim, on the clock: what it leaves of the buffer is HistBuffer's.
Trim(dropped) ==
  /\ executor /\ trimming
  /\ dropped \subseteq buffer
  /\ trimming' = FALSE
  /\ buffer' = buffer \ dropped
  /\ trimmed' = trimmed \cup dropped
  /\ UNCHANGED <<flushing, again, requested, pending, closed, archived,
                 stopped, ended, failing, deferred, queueVars, timer,
                 midnight, hops, executor, dayVars, fileVars, claim, pc, pass,
                 callVars, endVars, refused>>

\* Group::Flush: FlushAwait::await_ready, then Request( FlushAwait& ).
Flush(c) ==
  /\ outcome[c] = "idle"
  /\ before' = [before EXCEPT ![c] = Stored]
  /\ \/ /\ ended
        /\ outcome' = [outcome EXCEPT ![c] = "late"]
        /\ UNCHANGED <<waiters, flushing, pc>>
     \/ /\ ~ended
        /\ outcome' = [outcome EXCEPT ![c] = "asked"]
        /\ waiters' = waiters \cup {c}
        /\ StartPass
  /\ UNCHANGED <<again, requested, pending, closed, archived, stopped, ended,
                 failing, deferred, buffer, settling, edits, clockVars,
                 dayVars, fileVars, claim, pass, edited, endVars, lossVars>>

\* Group::Settled: a flush Close asked for that hasn't begun is waited for,
\* and started.
Settled(c) ==
  LET waits == ~ended /\ (flushing \/ (pending /\ ~Written))
  IN /\ outcome[c] = "idle"
     /\ \/ /\ ~waits
           /\ outcome' = [outcome EXCEPT ![c] = "true"]
           /\ UNCHANGED <<settling, flushing, pc>>
        \/ /\ waits
           /\ outcome' = [outcome EXCEPT ![c] = "asked"]
           /\ settling' = settling \cup {c}
           /\ StartPass
     /\ UNCHANGED <<again, requested, pending, closed, archived, stopped,
                    ended, failing, deferred, buffer, waiters, edits,
                    clockVars, dayVars, fileVars, claim, pass, before, edited,
                    endVars, lossVars>>

\* Group::Edit: Request( EditAwait& ).
Edit(c) ==
  /\ outcome[c] = "idle"
  /\ \/ /\ closed \/ stopped \/ ended
        /\ outcome' = [outcome EXCEPT ![c] = "error"]
        /\ UNCHANGED <<edits, before, flushing, pc>>
     \/ /\ ~closed /\ ~stopped /\ ~ended
        /\ outcome' = [outcome EXCEPT ![c] = "asked"]
        /\ before' = [before EXCEPT ![c] = Stored]
        /\ edits' = edits \cup {c}
        /\ StartPass
  /\ UNCHANGED <<again, requested, pending, closed, archived, stopped, ended,
                 failing, deferred, buffer, waiters, settling, clockVars,
                 dayVars, fileVars, claim, pass, edited, endVars, lossVars>>

\* Group::Request, a callback of the clock.
Request ==
  /\ executor /\ hops > 0
  /\ hops' = hops - 1
  /\ \/ /\ ended \/ (closed /\ Written)
        /\ UNCHANGED <<again, flushing, pc>>
     \/ /\ ~ended /\ ~(closed /\ Written)
        /\ again' = TRUE
        /\ StartPass
  /\ UNCHANGED <<requested, pending, closed, archived, stopped, ended, failing,
                 deferred, buffer, queueVars, timer, midnight, trimming,
                 executor, dayVars, fileVars, claim, pass, callVars, endVars,
                 lossVars>>

\* The `delay` timer runs out.  It was armed after the last pass took its
\* buffer, so every failing day may be tried again and every archive merged.
Expire ==
  /\ executor /\ timer /\ hops < MaxHops
  /\ timer' = FALSE
  /\ hops' = hops + 1
  /\ waiting' = {} /\ recent' = {}
  /\ UNCHANGED <<groupVars, queueVars, midnight, trimming, executor, past,
                 retired, failed, fileVars, claim, pc, pass, callVars,
                 endVars, lossVars>>

\* Group::Midnight: a day's rewrite is due, and the timer is armed again.
Midnight(d) ==
  /\ executor /\ midnight /\ ~ended /\ ~stopped /\ hops < MaxHops
  /\ d \notin past /\ \A e \in Days : e < d => e \in past
  /\ past' = past \cup {d}
  /\ hops' = hops + 1
  /\ UNCHANGED <<groupVars, queueVars, timer, midnight, trimming, executor,
                 retired, recent, failed, waiting, fileVars, claim, pc, pass,
                 callVars, endVars, lossVars>>

\* Group::Close, a removal: what its members' leaving stores, which may claim
\* the flush of its size, and the flush Close asks the clock for in any case.
\* A trim is for a group that can't write.
Close(leaving, over) ==
  /\ ~closed /\ ~stopped /\ hops < MaxHops
  /\ leaving \cap Stored = {}
  /\ buffer' = buffer \cup leaving
  /\ deferred' = IF In(leaving, deferred) = leaving THEN deferred ELSE {}
  /\ closed' = TRUE /\ pending' = TRUE
  /\ requested' \in {requested, requested \/ (leaving # {} /\ ~failing)}
  /\ hops' = hops + 1
  /\ trimming' = (trimming \/ (over /\ failing))
  /\ UNCHANGED <<flushing, again, archived, stopped, ended, failing,
                 queueVars, timer, midnight, executor, dayVars, fileVars,
                 claim, pc, pass, callVars, endVars, lossVars>>

-----------------------------------------------------------------------------
(* The pass: Group::Flushing *)

passFrame == <<requested, pending, closed, stopped, ended, edits, waiters,
               settling, trimming, executor, past, callVars, endVars>>

\* GroupFiles::Due: the live files whose day is over, or the group's with it.
Due(gone) == {d \in Days : file[d] = "live" /\ (d \in past \/ gone)}

\* The hold that takes the buffer.  A host that waits, an edit, or the
\* historian's end tries every day again; being past maxBuffer merges every
\* archive now.  The ending leaves what is only due to the next start.
Take(over) ==
  LET all == waiters # {} \/ edits # {} \/ stopped
  IN /\ executor /\ pc = "take"
     /\ pass' = [NoPass EXCEPT
          !.batch = buffer, !.waiters = waiters, !.edits = edits,
          !.promise = buffer \cup placed,
          !.retryAll = all, !.mergeNow = all \/ over,
          !.todo = {DayOf[r] : r \in buffer}
                     \cup (IF stopped THEN {} ELSE Due(retired \/ closed))]
     /\ before' = [c \in Callers |-> IF c \in waiters
                                     THEN before[c] \ refused ELSE before[c]]
     /\ buffer' = {} /\ waiters' = {} /\ edits' = {}
     /\ again' = FALSE /\ pending' = FALSE /\ requested' = FALSE
     /\ retired' = (retired \/ closed)
     /\ pc' = "days"
     /\ UNCHANGED <<flushing, closed, archived, stopped, ended, failing,
                    deferred, settling, clockVars, past, recent, failed,
                    waiting, fileVars, claim, outcome, edited, endVars,
                    lossVars>>

IsDay(d) == pc = "days" /\ d \in pass.todo /\ \A e \in pass.todo : d <= e

\* Whether a rewrite of day d holds back its records for another `delay`.
Defers(d) == Of(pass.batch, d) # {} /\ ~pass.mergeNow /\ d \in recent

Waits(d) == d \in waiting /\ ~pass.retryAll

\* A day that isn't tried in this pass: its records are held.
HoldDay(d) ==
  /\ executor /\ IsDay(d)
  /\ Waits(d) \/ Defers(d)
  /\ pass' = [pass EXCEPT
       !.todo = @ \ {d},
       !.held = IF Of(pass.batch, d) # {} THEN @ \cup {d} ELSE @,
       !.failing = @ \/ (Waits(d) /\ Of(pass.batch, d) # {}),
       !.deferring = IF Defers(d) THEN @ \cup {d} ELSE @]
  /\ UNCHANGED <<flushing, again, archived, failing, deferred, buffer, timer,
                 midnight, hops, retired, recent, failed, waiting, fileVars,
                 claim, pc, passFrame, lossVars>>

\* GroupFiles::Prepare for a file the historian leaves alone, whose records
\* are dropped.
RefuseDay(d) ==
  /\ executor /\ IsDay(d) /\ ~Waits(d) /\ ~Defers(d)
  /\ ~ended /\ d \in Refused
  /\ pass' = [pass EXCEPT !.todo = @ \ {d}, !.discarded = TRUE,
                          !.batch = @ \ Of(@, d)]
  /\ refused' = refused \cup Of(pass.batch, d)
  /\ failed' = failed \ {d} /\ waiting' = waiting \ {d}
  /\ UNCHANGED <<flushing, again, archived, failing, deferred, buffer, timer,
                 midnight, hops, retired, recent, fileVars, claim, pc,
                 passFrame, trimmed>>

\* A failing day's Openable, the first-open scan and GroupFiles::Prepare:
\* what the day's records are written by.
PrepareDay(d) ==
  /\ executor /\ IsDay(d) /\ ~Waits(d) /\ ~Defers(d)
  /\ ~ended /\ d \notin Refused
  /\ pass' = [pass EXCEPT !.day = d]
  /\ pc' = IF file[d] = "archive" \/ d \in past \/ retired
           THEN "rewrite" ELSE "append"
  /\ UNCHANGED <<flushing, again, archived, failing, deferred, buffer, timer,
                 midnight, hops, retired, recent, failed, waiting, fileVars,
                 claim, passFrame, lossVars>>

\* The day fails: its records are held, its temp file goes, and the clock's
\* passes leave it alone until `delay` is up.
Fail(d) ==
  /\ pass' = [pass EXCEPT
       !.todo = @ \ {d}, !.day = 0,
       !.held = IF Of(pass.batch, d) # {} THEN @ \cup {d} ELSE @,
       !.failing = @ \/ Of(pass.batch, d) # {}]
  /\ failed' = failed \cup {d} /\ waiting' = waiting \cup {d}
  /\ pc' = "days"
  /\ UNCHANGED <<flushing, again, archived, failing, deferred, buffer, timer,
                 midnight, hops, retired, recent, fileVars, claim, passFrame,
                 lossVars>>

\* Prepare throws, or finds that the group has ended.
FailPrepare(d) ==
  /\ executor /\ IsDay(d) /\ ~Waits(d) /\ ~Defers(d)
  /\ Fail(d)

\* `if( Ended() ) throw Abandoned{}` before the next write or the rename.
Abandon(d) ==
  /\ executor /\ ended
  /\ pc \in {"append", "rewrite", "commit"} /\ d = pass.day
  /\ Fail(d)

\* The same test, passed: the write is the OS's from here.
Begin ==
  /\ executor /\ ~ended
  /\ \/ pc = "append" /\ pc' = "appending"
     \/ pc = "rewrite" /\ pc' = "rewriting"
     \/ pc = "commit" /\ pc' = "renaming"
  /\ UNCHANGED <<flushing, again, archived, failing, deferred, buffer, timer,
                 midnight, hops, retired, recent, failed, waiting, fileVars,
                 claim, pass, passFrame, lossVars>>

\* The write, the rename or the commit's fsync of the directories throws.
FailWrite(d) ==
  /\ executor /\ pc \in {"appending", "rewriting", "renaming"}
  /\ d = pass.day
  /\ Fail(d)

\* The day's records are in its file, and Wrote says so.
Land(d) ==
  /\ pass' = [pass EXCEPT !.todo = @ \ {d}, !.day = 0, !.progressed = TRUE,
                          !.batch = @ \ Of(@, d)]
  /\ placed' = placed \cup Of(pass.batch, d)
  /\ failed' = failed \ {d} /\ waiting' = waiting \ {d}
  /\ pc' = "days"

\* An append's Write returns, and Commit( Pending ): a run, fsynced.
Append(d) ==
  /\ executor /\ pc = "appending" /\ d = pass.day
  /\ Land(d)
  /\ durable' = durable \cup Of(pass.batch, d)
  /\ file' = [file EXCEPT ![d] = "live"]
  /\ UNCHANGED <<flushing, again, archived, failing, deferred, buffer, timer,
                 midnight, hops, retired, recent, unsynced, claim, passFrame,
                 lossVars>>

\* The last part of a rewrite's temp file is written and fsynced.
WriteTemp(d) ==
  /\ executor /\ pc = "rewriting" /\ d = pass.day
  /\ pc' = "commit"
  /\ UNCHANGED <<flushing, again, archived, failing, deferred, buffer, timer,
                 midnight, hops, retired, recent, failed, waiting, fileVars,
                 claim, pass, passFrame, lossVars>>

\* Commit( Rewrite ): the temp file is renamed over the day's, and its
\* directory fsynced, which may fail and is then SyncRenamed's.
Rename(d, synced) ==
  /\ executor /\ pc = "renaming" /\ d = pass.day
  /\ Land(d)
  /\ file' = [file EXCEPT ![d] = "archive"]
  /\ recent' = recent \cup {d}
  /\ unsynced' = IF synced THEN unsynced \ {d} ELSE unsynced \cup {d}
  /\ durable' = IF synced THEN durable \cup Of(placed', d) ELSE durable
  /\ UNCHANGED <<flushing, again, archived, failing, deferred, buffer, timer,
                 midnight, hops, retired, claim, passFrame, lossVars>>

\* The days are done, and some held their records: Return puts them back.
\* When the buffers are then past maxBuffer, a group that can't write is
\* trimmed, and one that only waits for a rewrite goes again, to merge now.
GiveBack(over, dropped) ==
  LET back == buffer \cup pass.batch
  IN /\ executor /\ pc = "days" /\ pass.todo = {} /\ pass.held # {}
     /\ dropped \subseteq back
     /\ dropped # {} => over /\ pass.failing
     /\ failing' = (pass.failing /\ ~pass.progressed)
     /\ deferred' = IF ~pass.failing /\ ~pass.progressed
                    THEN pass.deferring ELSE {}
     /\ buffer' = back \ dropped
     /\ trimmed' = trimmed \cup dropped
     /\ again' = (again \/ (over /\ ~pass.failing))
     /\ pass' = [pass EXCEPT !.batch = {}, !.failed = TRUE]
     /\ pc' = "edits"
     /\ UNCHANGED <<flushing, archived, timer, midnight, hops, retired, recent,
                    failed, waiting, fileVars, claim, passFrame, refused>>

\* A mutant of SyncFails: a rename left unsynced is no failure.
SyncFailsIfEnded(synced) == ended

\* `failed = !SyncRenamed()`, and `failed || Ended()`.
SyncFails(synced) == synced # unsynced \/ ended

\* A mutant of StillUnsynced: an archive that couldn't be synced is forgotten.
NoneUnsynced(synced) == {}

\* What SyncRenamed leaves for a later pass.
StillUnsynced(synced) == unsynced \ synced

\* The days are done and none held its records: SyncRenamed makes each rename
\* durable, up to the first it can't.  .flushed is for a pass that wrote all
\* it took, of a group that hasn't ended.
Sync(synced) ==
  LET fails == SyncFails(synced)
  IN /\ executor /\ pc = "days" /\ pass.todo = {} /\ pass.held = {}
     /\ synced \subseteq unsynced
     /\ failing' = FALSE /\ deferred' = {}
     /\ unsynced' = StillUnsynced(synced)
     /\ durable' = durable \cup In(placed, synced)
     /\ pass' = [pass EXCEPT !.failed = fails]
     /\ pc' = IF fails \/ pass.discarded THEN "edits" ELSE "slot"
     /\ UNCHANGED <<flushing, again, archived, buffer, timer, midnight, hops,
                    retired, recent, failed, waiting, file, placed, claim,
                    passFrame, lossVars>>

\* The write of .flushed's next slot returns, or fails.
WriteSlot(ok) ==
  /\ executor /\ pc = "slot"
  /\ claim' = IF ok THEN pass.promise ELSE claim
  /\ pass' = [pass EXCEPT !.failed = ~ok]
  /\ pc' = "edits"
  /\ UNCHANGED <<flushing, again, archived, failing, deferred, buffer, timer,
                 midnight, hops, retired, recent, failed, waiting, fileVars,
                 passFrame, lossVars>>

\* A mutant of EditWrites: days whose records went back are not looked at.
EditWritesUnflushed(c) == EditDay[c] \notin Refused

\* Whether the edit's day can take it: Editing::Unflushed holds the days the
\* batch couldn't write.
EditWrites(c) == EditDay[c] \notin pass.held /\ EditDay[c] \notin Refused

\* One edit: Creations makes the value file of a day that has none, and
\* Modifications appends its record.  A day the batch couldn't write, one the
\* historian won't write to, and a write that fails, fail the edit's value.
RunEdit(c, ok) ==
  LET d == EditDay[c]
      writes == ok /\ EditWrites(c)
  IN /\ executor /\ pc = "edits" /\ ~ended
     /\ c \in pass.edits \ pass.done
     /\ pass' = [pass EXCEPT !.done = @ \cup {c}]
     /\ edited' = IF writes THEN edited \cup {c} ELSE edited
     /\ file' = IF writes /\ file[d] = "none"
                THEN [file EXCEPT ![d] = IF d \in past \/ retired
                                         THEN "archive" ELSE "live"]
                ELSE file
     /\ UNCHANGED <<groupVars, queueVars, clockVars, dayVars, placed, durable,
                    unsynced, claim, pc, outcome, before, endVars, lossVars>>

\* The next write of the edits finds the group ended: none is acknowledged.
AbandonEdits ==
  /\ executor /\ pc = "edits" /\ ended
  /\ pass.edits # pass.done
  /\ pass' = [pass EXCEPT !.abandoned = TRUE]
  /\ pc' = "arm"
  /\ UNCHANGED <<flushing, again, archived, failing, deferred, buffer, timer,
                 midnight, hops, retired, recent, failed, waiting, fileVars,
                 claim, passFrame, lossVars>>

EditsDone ==
  /\ executor /\ pc = "edits" /\ pass.edits = pass.done
  /\ pc' = "arm"
  /\ UNCHANGED <<flushing, again, archived, failing, deferred, buffer, timer,
                 midnight, hops, retired, recent, failed, waiting, fileVars,
                 claim, pass, passFrame, lossVars>>

\* Mutants of Arms: _archived as it was before the pass; no retry of a pass
\* that failed.
ArmsIfStale(noneLive) == ~Written /\ ~stopped
ArmsUnlessFailed(noneLive) == ~WrittenIf(noneLive) /\ ~stopped /\ ~pass.failed

\* `arm`: whether `delay` is to bring another pass.
Arms(noneLive) == ~WrittenIf(noneLive) /\ ~stopped

\* The pass stands in for `delay`'s, so that timer is cancelled; a group with
\* nothing left, or stopped, is disarmed.
Disarm ==
  /\ executor /\ pc = "arm"
  /\ archived' = (\A d \in Days : file[d] # "live")
  /\ timer' = FALSE
  /\ midnight' = (midnight /\ Arms(archived'))
  /\ pc' = IF Arms(archived') THEN "rearm" ELSE "finish"
  /\ UNCHANGED <<flushing, again, failing, deferred, buffer, hops, retired,
                 recent, failed, waiting, fileVars, claim, pass, passFrame,
                 lossVars>>

\* Schedule( Delay ), outside the hold that decided it.
Rearm ==
  /\ executor /\ pc = "rearm"
  /\ timer' = TRUE
  /\ pc' = "finish"
  /\ UNCHANGED <<flushing, again, archived, failing, deferred, buffer,
                 midnight, hops, retired, recent, failed, waiting, fileVars,
                 claim, pass, passFrame, lossVars>>

\* A mutant of More: a Flush that came during the pass is not seen.
MoreIfAgain == again \/ edits # {}

\* `again`: what was asked for during the pass.
More == again \/ waiters # {} \/ edits # {}

\* The callers of Flush the pass took, and once no pass follows those of
\* Settled.
Told == pass.waiters \cup (IF More THEN {} ELSE settling)

\* A mutant of Verdict: dropped records count as written.
VerdictOfFailures == IF pass.failed THEN "false" ELSE "true"

\* `wrote`.
Verdict == IF pass.failed \/ pass.discarded THEN "false" ELSE "true"

\* The last hold: another pass for what was asked meanwhile, or the end of
\* the flush, and every caller is told.
Finish ==
  /\ executor /\ pc = "finish"
  /\ outcome' = [c \in Callers |->
       IF c \in Told THEN Verdict
       ELSE IF c \in pass.edits
       THEN IF pass.abandoned THEN "error"
            ELSE IF c \in edited THEN "true" ELSE "false"
       ELSE outcome[c]]
  /\ flushing' = More
  /\ settling' = IF More THEN settling ELSE {}
  /\ pc' = IF More THEN "take" ELSE "idle"
  /\ pass' = NoPass
  /\ UNCHANGED <<again, requested, pending, closed, archived, stopped, ended,
                 failing, deferred, buffer, waiters, edits, clockVars,
                 dayVars, fileVars, claim, before, edited, endVars, lossVars>>

-----------------------------------------------------------------------------
(* The end of a group *)

\* A mutant of MayEnd: a pass may still be running.
MayEndFlushing == Written

\* EndIfWritten's test.
MayEnd == Written /\ ~flushing

\* Group::EndIfWritten, as a name is added or another group removed.
EndIfWritten ==
  /\ MayEnd /\ ~ended
  /\ ended' = TRUE /\ released' = TRUE
  /\ timer' = FALSE /\ midnight' = FALSE
  /\ UNCHANGED <<flushing, again, requested, pending, closed, archived,
                 stopped, failing, deferred, buffer, queueVars, hops, trimming,
                 executor, dayVars, fileVars, claim, pc, pass, callVars, out,
                 unlocked, lossVars>>

\* Group::Stopping: pending values are stored, the timers disarmed, and the
\* last flush started, or asked for after the one that runs.
Stopping(leaving, over) ==
  /\ ~stopped /\ ~released
  /\ leaving \cap Stored = {} /\ (closed => leaving = {})
  /\ stopped' = TRUE
  /\ timer' = FALSE /\ midnight' = FALSE
  /\ buffer' = buffer \cup leaving
  /\ deferred' = IF In(leaving, deferred) = leaving THEN deferred ELSE {}
  /\ requested' \in {requested, requested \/ (leaving # {} /\ ~failing)}
  /\ trimming' = (trimming \/ (over /\ leaving # {} /\ requested'= requested))
  /\ again' = (again \/ (executor /\ flushing))
  /\ \/ executor /\ StartPass
     \/ ~executor /\ UNCHANGED <<flushing, pc>>
  /\ UNCHANGED <<pending, closed, archived, ended, failing, queueVars, hops,
                 executor, dayVars, fileVars, claim, pass, callVars, endVars,
                 lossVars>>

\* hist's stop limit runs out on a flush that is still out.
Deadline ==
  /\ stopped /\ ~ended /\ ~out
  /\ flushing /\ executor
  /\ out' = TRUE
  /\ UNCHANGED <<groupVars, queueVars, clockVars, dayVars, fileVars, claim, pc,
                 pass, callVars, unlocked, released, lossVars>>

\* A mutant of StopIsOver: no limit on the wait.
StopIsSettled == ~flushing

\* The test of Stopped's loop.
StopIsOver == ~flushing \/ ~executor \/ out

\* Group::Stopped's last hold: no flush runs, none can, or the limit is up.
StoppedEnds ==
  /\ stopped /\ ~ended
  /\ StopIsOver
  /\ ended' = TRUE
  /\ timer' = FALSE /\ midnight' = FALSE
  /\ edits' = {}
  /\ outcome' = [c \in Callers |-> IF c \in edits THEN "error"
                                   ELSE outcome[c]]
  /\ UNCHANGED <<flushing, again, requested, pending, closed, archived,
                 stopped, failing, deferred, buffer, waiters, settling, hops,
                 trimming, executor, dayVars, fileVars, claim, pc, pass,
                 before, edited, endVars, lossVars>>

\* ~Historian, once every group has stopped: Lock.reset.
Unlock ==
  /\ stopped /\ ended /\ ~unlocked
  /\ unlocked' = TRUE
  /\ UNCHANGED <<groupVars, queueVars, clockVars, dayVars, fileVars, claim, pc,
                 pass, callVars, out, released, lossVars>>

\* External: the host's io_context stops, and drops what it was to resume.
ExecutorStops ==
  /\ executor
  /\ executor' = FALSE
  /\ UNCHANGED <<groupVars, queueVars, timer, midnight, hops, trimming,
                 dayVars, fileVars, claim, pc, pass, callVars, endVars,
                 lossVars>>

-----------------------------------------------------------------------------

\* The steps of a pass on the executor.
PassStep ==
  \/ \E over \in BOOLEAN : Take(over)
  \/ \E d \in Days : \/ HoldDay(d) \/ RefuseDay(d) \/ PrepareDay(d)
                     \/ FailPrepare(d) \/ Abandon(d) \/ FailWrite(d)
                     \/ Append(d) \/ WriteTemp(d)
                     \/ \E synced \in BOOLEAN : Rename(d, synced)
  \/ Begin
  \/ \E over \in BOOLEAN, dropped \in SUBSET Records : GiveBack(over, dropped)
  \/ \E synced \in SUBSET Days : Sync(synced)
  \/ \E ok \in BOOLEAN : WriteSlot(ok)
  \/ \E c \in Editors, ok \in BOOLEAN : RunEdit(c, ok)
  \/ AbandonEdits \/ EditsDone \/ Disarm \/ Rearm \/ Finish

Next ==
  \/ \E r \in Records, size \in {"small", "full", "over"} : Store(r, size)
  \/ \E dropped \in SUBSET Records : Trim(dropped)
  \/ \E c \in Flushers : Flush(c)
  \/ \E c \in Settlers : Settled(c)
  \/ \E c \in Editors : Edit(c)
  \/ Request \/ Expire
  \/ \E d \in Days : Midnight(d)
  \/ \E leaving \in SUBSET Records, over \in BOOLEAN : Close(leaving, over)
  \/ PassStep
  \/ EndIfWritten
  \/ \E leaving \in SUBSET Records, over \in BOOLEAN : Stopping(leaving, over)
  \/ Deadline \/ StoppedEnds \/ Unlock \/ ExecutorStops

Spec == Init /\ [][Next]_vars

\* The clock calls back what it was asked to, and the historian's end waits
\* no longer than its limit.
ClockFairness ==
  /\ WF_vars(Request) /\ WF_vars(Expire)
  /\ WF_vars(Deadline) /\ WF_vars(StoppedEnds)

-----------------------------------------------------------------------------
(* Properties *)

\* Every variable has its type, and a pass is running exactly while _flushing
\* says so, which is what keeps the group's files to one writer.
TypeOK ==
  /\ {again, requested, pending, closed, archived, stopped, ended, failing,
      timer, midnight, trimming, executor, retired, out, unlocked, released,
      flushing} \subseteq BOOLEAN
  /\ deferred \subseteq Days /\ buffer \subseteq Records
  /\ waiters \subseteq Flushers /\ settling \subseteq Settlers
  /\ edits \subseteq Editors /\ edited \subseteq Editors
  /\ hops \in 0 .. MaxHops
  /\ file \in [Days -> {"none", "live", "archive"}]
  /\ durable \subseteq placed /\ placed \subseteq Records
  /\ unsynced \subseteq Days /\ past \subseteq Days /\ recent \subseteq Days
  /\ waiting \subseteq failed /\ failed \subseteq Days
  /\ claim \subseteq Records
  /\ pc \in {"idle", "take", "days", "append", "appending", "rewrite",
             "rewriting", "commit", "renaming", "slot", "edits", "arm",
             "rearm", "finish"}
  /\ pass \in Pass
  /\ outcome \in [Callers -> {"idle", "asked", "true", "false", "late",
                              "error"}]
  /\ before \in [Callers -> SUBSET Records]
  /\ trimmed \subseteq Records /\ refused \subseteq Records
  /\ flushing <=> pc # "idle"

\* Group::Flush resumes with true only when every record that was stored
\* before it was asked is in its file for good, but for those a trim dropped
\* and those an earlier pass had already refused: the ones a running pass had
\* taken, and gave back, among them (Group.h: "False when it didn't write all
\* it took").
FlushTellsTheTruth ==
  \A c \in Flushers : outcome[c] = "true" => before[c] \subseteq durable \cup trimmed

\* .flushed never claims a record a power loss could take back: it is written
\* after the data files, and only by a pass that held nothing back, dropped
\* nothing, and left no rename unsynced (Flush.cpp, "so it never claims
\* records that aren't durable").
ClaimIsDurable == claim \subseteq durable

\* While a group that runs has records buffered, or was removed and isn't yet
\* all archives, a flush is running or the clock is on its way to start one:
\* no order of requests, failures and removals loses the retry.
AFlushIsComing ==
  (executor /\ ~stopped /\ ~ended /\ (buffer # {} \/ closed) /\ ~Written)
    => flushing \/ timer \/ hops > 0

\* A removed group's name is let go only when everything it stored is in its
\* files, all of them archives, and no pass is left to touch them
\* (Group::EndIfWritten).
ReleasedIsWritten ==
  released => /\ pc = "idle" /\ buffer = {}
              /\ waiters = {} /\ settling = {} /\ edits = {}
              /\ \A d \in Days : file[d] # "live"
              /\ Stored \subseteq placed \cup trimmed \cup refused

\* An edit that is written had every value stored before it in its day's
\* file when it looked (Group.h, Edit: "after writing the buffer, so every
\* value it targets is in its day's file before it looks").
EditSeesItsValues ==
  [][\A c \in edited' \ edited :
       Of(before[c], EditDay[c]) \subseteq placed \cup trimmed \cup refused]_vars

\* A flush that the historian's end gave up on renames nothing once the lock
\* is let go (Flush.cpp, "the rename, above all, which would replace the
\* day's file outside the lock").
NoRenameOutsideTheLock ==
  [][pc = "renaming" /\ pc' = "days" /\ placed' # placed => ~unlocked]_vars

\* Everyone who waits on a flush is told: no caller of Flush, Settled or Edit
\* is left suspended while the executor runs, whatever fails, whoever else
\* asks, and however the group ends.
Answered ==
  \A c \in Callers :
    outcome[c] = "asked" ~> (outcome[c] # "asked" \/ ~executor)

\* Once the disk recovers, a buffered record reaches its file, unless it is
\* dropped, refused, or the historian ends first: a day that failed is tried
\* again, and one held for its archive's next rewrite is merged.
BufferedIsWritten ==
  \A r \in Records :
    r \in buffer ~> (r \in placed \cup trimmed \cup refused \/ stopped \/ ~executor)

\* Once the disk recovers, no power loss can take a written record back: a
\* rename whose directory couldn't be fsynced is fsynced by a later flush
\* (DayFiles.h: "SyncRenamed tries the fsync again").
WrittenIsDurable ==
  \A r \in Records : r \in placed ~> (r \in durable \/ stopped \/ ~executor)

\* A removed group ends up written, all its files archives, so that its name
\* can be used again.
RemovedIsWritten ==
  closed ~> (Written \/ stopped \/ ~executor)

\* The historian's end doesn't hang: a group that is stopping ends, even if
\* a write never returns.
StopEnds == stopped ~> ended
=============================================================================
