--------------------------- MODULE MCHistDayFiles ---------------------------
(***************************************************************************)
(* Small instances of HistDayFiles: records of the first day, which become *)
(* late ones once its archive is made, and one of the second.              *)
(***************************************************************************)
EXTENDS HistDayFiles, TLC

CONSTANTS r1, r2, s1

\* Which course a run's group takes.
VARIABLE course

MCDayOf == [r \in Records |-> IF r = s1 THEN 2 ELSE 1]

\* The two of the first day are interchangeable.
MCLate == Permutations({r1, r2})

\* What a group that stays claims, whatever a crash before left owing.
MCClaims == ~removed /\ DayAt(now) <= 3

\* What a group that has flushed before finds again, and how it ends, when the
\* OS writes back what a killed process gave it.
MCRecovers ==
    /\ ~up => old = [d \in Days |-> {}]
    /\ Cardinality(sent \ {s1}) <= 1

MCInit ==
    /\ Init
    /\ course \in {"claims", "recovers"}
    /\ flushed = IF course = "claims" THEN {} ELSE {0}

MCSpec ==
    /\ MCInit
    /\ [][/\ Next /\ UNCHANGED course
          /\ IF course = "claims" THEN MCClaims' ELSE MCRecovers']_<<vars, course>>

\* LiveIsFound, where the group has flushed before and the OS writes back what
\* a killed process gave it: what the constructor's walk finds, down to the day
\* .flushed names.
MCLiveIsFound == course = "recovers" => LiveIsFound

\* The day files (GroupFiles): their state and which days are known unarchived
\* (TypeOK); a start finds every live file of the past (MCLiveIsFound); and a
\* removed group ends with archives only (EndedIsArchived).
FilesAreFound == TypeOK /\ MCLiveIsFound /\ EndedIsArchived
=============================================================================
