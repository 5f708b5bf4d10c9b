---------------------------- MODULE HistDayFiles ----------------------------
(***************************************************************************)
(* A group's day files across crashes (src/libs/historian/src/io/          *)
(* DayFiles.cpp): live files appended to, archives made by a rewrite into  *)
(* a temp file renamed over the day's, the directory's fsync after each,   *)
(* the day `.flushed` names, and what the constructor makes of the disk    *)
(* when the process starts again.                                          *)
(*                                                                         *)
(* The disk holds one image of each day's file and, while an fsync is      *)
(* owing, the older ones a power loss may put back.  An append a crash     *)
(* tears is dropped whole by the first-open scan, which keeps a file       *)
(* through its last good checkpoint, so an image is a set of records.      *)
(* `.flushed` is written in one step: FlushedFile shows that it may be.    *)
(* Time is counted in steps of `delay`, two to a day.                      *)
(*                                                                         *)
(* Left out: damage, files purged or replaced by hand, a clock set back,   *)
(* preambles and their corrections, and the modifications files.           *)
(***************************************************************************)
EXTENDS Naturals, FiniteSets

CONSTANTS
    Records,        \* the records that may arrive, each once
    DayOf,          \* DayOf[r]: the day of a record's time
    MaxDay,         \* bound: the days are 1 .. MaxDay
    MaxCrashes,     \* bound: on crashes
    MaxFailures     \* bound: on writes, renames and fsyncs that fail

Days == 1 .. MaxDay

ASSUME MaxDayAssumption == MaxDay \in Nat \ {0}
ASSUME DayOfAssumption == DayOf \in [Records -> Days]
ASSUME BoundsAssumption == MaxCrashes \in Nat /\ MaxFailures \in Nat

VARIABLES
    now,        \* the clock, in steps of delay
    up,         \* whether the process runs
    file,       \* file[d]: the image of the day's file an open would find
    old,        \* old[d]: the images a power loss may put back
    flushed,    \* the day .flushed names to look back to, {} with no file
    mem,        \* what the process holds of the files (GroupFiles)
    buffer,     \* the records that wait for a flush
    pass,       \* the flush that runs
    removed,    \* whether the group was removed
    ended,      \* whether the removed group has ended
    sent,       \* history: the records that arrived
    claimed,    \* history: the records a written .flushed claims
    crashes, failures

vars == <<now, up, file, old, flushed, mem, buffer, pass, removed, ended,
          sent, claimed, crashes, failures>>

(***************************************************************************)
(* Images: no file, a live one of generation 0, or an archive.  Unopened   *)
(* is what the process knows of a file it has not opened.                  *)
(***************************************************************************)
None == [gen |-> "none", recs |-> {}]
Unopened == [gen |-> "unopened", recs |-> {}]
Live(rs) == [gen |-> "live", recs |-> rs]
Archive(rs) == [gen |-> "archive", recs |-> rs]
Images == {None} \cup {Live(rs) : rs \in SUBSET Records}
                 \cup {Archive(rs) : rs \in SUBSET Records}

IsLive(d) == file[d].gen = "live"

Earliest(days) == CHOOSE d \in days : \A e \in days : d <= e
Latest(days) == CHOOSE d \in days : \A e \in days : d >= e

DayAt(t) == t \div 2
Today == DayAt(now)

\* GroupFiles as its constructor begins.
Fresh ==
    [known |-> [d \in Days |-> Unopened],
     named |-> {}, unarchived |-> {}, recover |-> {}, unsynced |-> {},
     rewritten |-> [d \in Days |-> 0], retired |-> FALSE]

NoPass == [at |-> "idle", taken |-> 0, batch |-> {}, work |-> {},
           held |-> {}, merges |-> FALSE]

Init ==
    /\ now = 2
    /\ up = FALSE
    /\ file = [d \in Days |-> None]
    /\ old = [d \in Days |-> {}]
    /\ flushed \in {{}, {0}} \* a new group's, or one that has flushed before
    /\ mem = Fresh
    /\ buffer = {}
    /\ pass = NoPass
    /\ removed = FALSE /\ ended = FALSE
    /\ sent = {} /\ claimed = {}
    /\ crashes = 0 /\ failures = 0

(***************************************************************************)
(* The constructor.  It walks the days down from the newest, opens each    *)
(* until it has what to restore, from the first that isn't after today,    *)
(* and goes on down to the day .flushed names for the live files alone.    *)
(***************************************************************************)
Settling == {d \in Days : file[d] # None /\ d <= Today}
OpenedAtStart ==
    {d \in Days : file[d] # None /\ (Settling = {} \/ d >= Latest(Settling))}
HeadsAtStart ==
    {d \in Days \ OpenedAtStart :
        d < Today /\ file[d] # None /\ \E from \in flushed : d >= from}

\* As if only the files opened were noted.
StartsUnarchivedOpened == {d \in OpenedAtStart : IsLive(d)}

StartsUnarchived == {d \in OpenedAtStart \cup HeadsAtStart : IsLive(d)}
StartsRecovering ==
    {d \in StartsUnarchived :
        d < Today /\ (flushed = {} \/ \E from \in flushed : d >= from)}

Start ==
    /\ ~up /\ ~removed
    /\ up' = TRUE
    /\ mem' = [Fresh EXCEPT
                 !.known = [d \in Days |->
                              IF d \in OpenedAtStart /\ IsLive(d)
                              THEN file[d] ELSE Unopened],
                 !.unarchived = StartsUnarchived,
                 !.recover = StartsRecovering]
    /\ UNCHANGED <<now, file, old, flushed, buffer, pass, removed, ended,
                   sent, claimed, crashes, failures>>

(***************************************************************************)
(* What the process holds of the files.                                    *)
(***************************************************************************)
Seen(d) == IF mem.known[d] = Unopened THEN file[d] ELSE mem.known[d]

\* Whether delay has passed since the midnight after d.
Past(d, t) == t >= 2 * (d + 1) + 1

Deferred(d, t) == mem.rewritten[d] # 0 /\ t < mem.rewritten[d] + 1

\* Due forgets the rewrites of two delays ago.
Forget(m, t) ==
    LET kept(d) == t < m.rewritten[d] + 2
    IN  [m EXCEPT
          !.rewritten = [d \in Days |-> IF kept(d) THEN @[d] ELSE 0]]

Due(m, t) == {d \in m.unarchived : d \in m.recover \/ Past(d, t)}

Retire(m) ==
    [m EXCEPT !.retired = TRUE, !.recover = @ \cup m.unarchived]

\* As if no older file could still be live.
RecoverFromBefore(t) == DayAt(t) - 1

RecoverFrom(t) == Earliest({DayAt(t) - 1} \cup mem.unarchived)

(***************************************************************************)
(* A flush takes the buffer, and with it each day whose file is due.       *)
(* merges: whether it is one a caller waits on, or the buffers are past    *)
(* their cap, so that it merges into an archive rewritten just now.        *)
(***************************************************************************)
Take(merges) ==
    LET m == IF removed THEN Retire(mem) ELSE mem
    IN  /\ up /\ ~ended /\ pass.at = "idle"
        /\ pass' = [at |-> "days", taken |-> now, batch |-> buffer,
                    work |-> {DayOf[r] : r \in buffer} \cup Due(m, now),
                    held |-> {}, merges |-> merges]
        /\ buffer' = {}
        /\ mem' = Forget(m, now)
        /\ UNCHANGED <<now, up, file, old, flushed, removed, ended, sent,
                       claimed, crashes, failures>>

day == Earliest(pass.work)
Batch == {r \in pass.batch : DayOf[r] = day}

Rewrites ==
    \/ Seen(day).gen = "archive"
    \/ Past(day, pass.taken)
    \/ day \in mem.recover
    \/ mem.retired

Holds == Batch # {} /\ ~pass.merges /\ Deferred(day, pass.taken)

\* A file with nothing kept that an append of this process's reached: Verify
\* throws, and the next write scans the file.
Overrun == mem.known[day] = None /\ file[day] # None

NextDay(held) ==
    pass' = [pass EXCEPT !.at = "days", !.work = @ \ {day},
                         !.held = @ \cup held]

InDays == up /\ pass.at = "days" /\ pass.work # {}

\* The records of an archive rewritten less than delay ago wait.
HoldDay ==
    /\ InDays /\ Holds
    /\ NextDay(Batch)
    /\ UNCHANGED <<now, up, file, old, flushed, mem, buffer, removed, ended,
                   sent, claimed, crashes, failures>>

\* Open notes a live file it scans as one to archive.
Open(m) ==
    [m EXCEPT !.known[day] = Seen(day),
              !.unarchived = IF Seen(day).gen = "live" THEN @ \cup {day}
                                                       ELSE @]

\* Prepare hands out nothing for a day that is only due, and has no live file.
NothingDue ==
    /\ InDays /\ ~Holds /\ ~Overrun
    /\ Batch = {} /\ Rewrites /\ Seen(day).gen # "live"
    /\ mem' = [mem EXCEPT !.recover = @ \ {day}, !.unarchived = @ \ {day},
                          !.known[day] = Unopened]
    /\ NextDay({})
    /\ UNCHANGED <<now, up, file, old, flushed, buffer, removed, ended, sent,
                   claimed, crashes, failures>>

Writes == InDays /\ ~Holds /\ ~Overrun /\ (Batch # {} \/ Seen(day).gen = "live")

\* Prepare and the append's write as far as it gets before it returns: it cuts
\* what a failed one left, writes the preamble of a new file, then the records.
BeginAppend ==
    /\ Writes /\ ~Rewrites
    /\ \E image \in {file[day], Live(Seen(day).recs),
                     Live(Seen(day).recs \cup Batch)} :
         file' = [file EXCEPT ![day] = image]
    /\ old' = [old EXCEPT ![day] = @ \cup {file[day]}]
    /\ mem' = Open(mem)
    /\ pass' = [pass EXCEPT !.at = "append"]
    /\ UNCHANGED <<now, up, flushed, buffer, removed, ended, sent, claimed,
                   crashes, failures>>

\* As if a file that was there already needed no fsync of its directories.
AfterAppendUnnamed ==
    IF day \in mem.named \/ mem.known[day] # None
    THEN old[day] \cap {None} ELSE {}

\* What a power loss may still put back once the append's write has returned
\* and Commit, on the process's first append, has fsynced the directories.
AfterAppend == IF day \in mem.named THEN old[day] \cap {None} ELSE {}

EndAppend ==
    /\ up /\ pass.at = "append"
    /\ LET written == Live(mem.known[day].recs \cup Batch)
       IN  /\ file' = [file EXCEPT ![day] = written]
           /\ mem' = [mem EXCEPT !.known[day] = written,
                                 !.named = @ \cup {day},
                                 !.unarchived = @ \cup {day}]
    /\ old' = [old EXCEPT ![day] = AfterAppend]
    /\ NextDay({})
    /\ UNCHANGED <<now, up, flushed, buffer, removed, ended, sent, claimed,
                   crashes, failures>>

\* Prepare and the rewrite's parts: nothing but the temp file changes.
BeginRewrite ==
    /\ Writes /\ Rewrites
    /\ mem' = Open(mem)
    /\ pass' = [pass EXCEPT !.at = "rewrite"]
    /\ UNCHANGED <<now, up, file, old, flushed, buffer, removed, ended, sent,
                   claimed, crashes, failures>>

\* As if the day stayed one to rewrite at once.
ArchivedRecovering(m, archive) ==
    [m EXCEPT !.known[day] = archive,
              !.unarchived = @ \ {day},
              !.rewritten[day] = pass.taken,
              !.unsynced = @ \cup {day}]

\* What Commit notes of an archive renamed.
Archived(m, archive) ==
    [m EXCEPT !.known[day] = archive,
              !.recover = @ \ {day},
              !.unarchived = @ \ {day},
              !.rewritten[day] = pass.taken,
              !.unsynced = @ \cup {day}]

\* The rename over the day's file.
Rename ==
    /\ up /\ pass.at = "rewrite"
    /\ LET archive == Archive(mem.known[day].recs \cup Batch)
       IN  /\ file' = [file EXCEPT ![day] = archive]
           /\ mem' = Archived(mem, archive)
    /\ old' = [old EXCEPT ![day] = @ \cup {file[day]}]
    /\ pass' = [pass EXCEPT !.at = "renamed"]
    /\ UNCHANGED <<now, up, flushed, buffer, removed, ended, sent, claimed,
                   crashes, failures>>

\* The directories' fsync that ends Commit.  One that fails is left to
\* SyncRenamed, and the records count as written.
SyncArchive ==
    /\ up /\ pass.at = "renamed"
    /\ \/ /\ old' = [old EXCEPT ![day] = {}]
          /\ mem' = [mem EXCEPT !.unsynced = @ \ {day}]
          /\ UNCHANGED failures
       \/ /\ failures < MaxFailures
          /\ failures' = failures + 1
          /\ UNCHANGED <<old, mem>>
    /\ NextDay({})
    /\ UNCHANGED <<now, up, file, flushed, buffer, removed, ended, sent,
                   claimed, crashes>>

\* An open, a write, a rename or an append's fsync that fails: the day's
\* records are held.
FailDay ==
    /\ up
    /\ Writes \/ pass.at \in {"append", "rewrite"}
    /\ failures < MaxFailures
    /\ failures' = failures + 1
    /\ NextDay(Batch)
    /\ UNCHANGED <<now, up, file, old, flushed, mem, buffer, removed, ended,
                   sent, claimed, crashes>>

\* Verify's throw at a file other than the one known: it is forgotten.
ForgetDay ==
    /\ InDays /\ ~Holds /\ Overrun
    /\ mem' = [mem EXCEPT !.known[day] = Unopened, !.named = @ \ {day}]
    /\ NextDay(Batch)
    /\ UNCHANGED <<now, up, file, old, flushed, buffer, removed, ended, sent,
                   claimed, crashes, failures>>

(***************************************************************************)
(* After the days: the records held go back; otherwise the renames still   *)
(* to be fsynced are, and .flushed is written after them.                  *)
(***************************************************************************)
DaysDone == up /\ pass.at = "days" /\ pass.work = {}

\* As if the records alone decided it.
MayEndWritten == mem.retired /\ pass.held = {} /\ buffer = {}

\* A removed group whose files are all archives, and whose records are all
\* written, ends.
MayEnd == mem.retired /\ pass.held = {} /\ buffer = {} /\ mem.unarchived = {}

Finish ==
    /\ pass' = NoPass
    /\ buffer' = buffer \cup pass.held
    /\ ended' = MayEnd
    /\ UNCHANGED <<now, up, file, removed, sent, crashes>>

GiveBack ==
    /\ DaysDone /\ pass.held # {}
    /\ Finish
    /\ UNCHANGED <<old, flushed, mem, claimed, failures>>

SyncRenamed ==
    /\ DaysDone /\ pass.held = {} /\ mem.unsynced # {}
    /\ LET d == Earliest(mem.unsynced)
       IN  /\ old' = [old EXCEPT ![d] = {}]
           /\ mem' = [mem EXCEPT !.unsynced = @ \ {d}]
    /\ UNCHANGED <<now, up, file, flushed, buffer, pass, removed, ended, sent,
                   claimed, crashes, failures>>

\* The flush may claim what it took: it wrote all of it, and no rename of its
\* own or of an earlier one could be taken back.
MayClaim == pass.held = {} /\ mem.unsynced = {}

WriteSlot ==
    /\ DaysDone /\ MayClaim
    /\ flushed' = {RecoverFrom(pass.taken)}
    /\ claimed' = claimed \cup pass.batch
    /\ Finish
    /\ UNCHANGED <<old, mem, failures>>

\* SyncRenamed's fsync, or the slot's write, fails.
ClaimFails ==
    /\ DaysDone /\ pass.held = {}
    /\ failures < MaxFailures
    /\ failures' = failures + 1
    /\ Finish
    /\ UNCHANGED <<old, flushed, mem, claimed>>

(***************************************************************************)
(* The world around: records, the clock, the group's removal, crashes.     *)
(***************************************************************************)
Arrive(r) ==
    /\ up /\ ~removed /\ r \notin sent
    /\ sent' = sent \cup {r}
    /\ buffer' = buffer \cup {r}
    /\ UNCHANGED <<now, up, file, old, flushed, mem, pass, removed, ended,
                   claimed, crashes, failures>>

Tick ==
    /\ now < 2 * MaxDay + 1
    /\ now' = now + 1
    /\ UNCHANGED <<up, file, old, flushed, mem, buffer, pass, removed, ended,
                   sent, claimed, crashes, failures>>

Remove ==
    /\ up /\ ~removed
    /\ removed' = TRUE
    /\ UNCHANGED <<now, up, file, old, flushed, mem, buffer, pass, ended,
                   sent, claimed, crashes, failures>>

Stops ==
    /\ ~ended /\ crashes < MaxCrashes
    /\ crashes' = crashes + 1
    /\ up' = FALSE
    /\ mem' = Fresh
    /\ buffer' = {}
    /\ pass' = NoPass
    /\ UNCHANGED <<now, flushed, removed, ended, sent, claimed, failures>>

\* The process dies, and the OS holds what it was given, written back to the
\* disk before a power loss can come or not.
Kill ==
    /\ up
    /\ Stops
    /\ old' \in {old, [d \in Days |-> {}]}
    /\ UNCHANGED file

\* The power goes, and with it what no fsync has made durable.
PowerLoss ==
    /\ Stops
    /\ file' \in {f \in [Days -> {file[d] : d \in Days} \cup UNION {old[d] : d \in Days}] :
                    \A d \in Days : f[d] \in {file[d]} \cup old[d]}
    /\ old' = [d \in Days |-> {}]

FlushStep ==
    \/ \E merges \in BOOLEAN : Take(merges)
    \/ HoldDay \/ NothingDue \/ BeginAppend \/ EndAppend \/ BeginRewrite
    \/ Rename \/ SyncArchive \/ ForgetDay \/ GiveBack \/ SyncRenamed
    \/ WriteSlot

Next ==
    \/ Start \/ FlushStep \/ FailDay \/ ClaimFails
    \/ \E r \in Records : Arrive(r)
    \/ Tick \/ Remove \/ Kill \/ PowerLoss

Spec == Init /\ [][Next]_vars

(***************************************************************************)
(* Properties.                                                             *)
(***************************************************************************)
\* The state has its types, and what the process holds of the files agrees: a
\* day it would rewrite at once is one it knows to be live, and a live file it
\* knows, outside the append that writes it, holds no more than the disk does.
TypeOK ==
    /\ now \in 2 .. 2 * MaxDay + 1
    /\ up \in BOOLEAN /\ removed \in BOOLEAN /\ ended \in BOOLEAN
    /\ file \in [Days -> Images]
    /\ \A d \in Days : old[d] \subseteq Images
    /\ flushed \subseteq 0 .. MaxDay /\ Cardinality(flushed) <= 1
    /\ mem.known \in [Days -> Images \cup {Unopened}]
    /\ mem.recover \subseteq mem.unarchived
    /\ mem.unarchived \cup mem.unsynced \cup mem.named \subseteq Days
    /\ \A d \in Days : mem.known[d].gen = "live" /\ pass.at # "append"
                         => mem.known[d].recs \subseteq file[d].recs
    /\ buffer \subseteq Records /\ pass.batch \subseteq Records
    /\ buffer \cap (pass.batch \ pass.held) = {}
    /\ claimed \subseteq sent

\* .flushed never claims a record that a power loss could take: a record that
\* a flush wrote before it wrote .flushed is in its day's file whatever comes
\* back after a crash, through appends torn, files made and not yet named,
\* archives renamed and not yet fsynced, and processes killed in between.
ClaimIsDurable ==
    \A r \in claimed : \A image \in {file[DayOf[r]]} \cup old[DayOf[r]] :
        r \in image.recs

\* No file is left live and unknown: each file of an earlier day that is still
\* live is one the running process will rewrite, or one whose records it still
\* has to write there.  Otherwise no midnight, and no start, would make it an
\* archive.
LiveIsFound ==
    up /\ ~ended => \A d \in Days :
        IsLive(d) /\ d < Today =>
            \/ d \in mem.unarchived
            \/ \E r \in buffer \cup pass.batch : DayOf[r] = d

\* A removed group that has ended left every file an archive, as no midnight
\* and no start will see to it after.
EndedIsArchived == ended => \A d \in Days : ~IsLive(d)

\* A day's live file becomes its archive, some time after the midnight that
\* ends the day, however the rewrites fail and the process stops meanwhile,
\* unless the group is removed.
IsDue(d) == IsLive(d) /\ Past(d, now)
IsArchivedOrGone(d) == ~IsLive(d) \/ removed
PastIsArchived == \A d \in Days : IsDue(d) ~> IsArchivedOrGone(d)
=============================================================================
