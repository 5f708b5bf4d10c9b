------------------------- MODULE HistDayFilesProofs -------------------------
(***************************************************************************)
(* Proofs about HistDayFiles, for every set of records and days and any    *)
(* number of crashes and failures: what .flushed claims survives them.     *)
(*                                                                         *)
(* A power loss may put back an older image of a file, and the next write  *)
(* is made from what the process knows of it.  So ClaimIsDurable needs     *)
(* that what is known holds what is claimed (Durable), that a file whose   *)
(* name was made durable has no image without it (Named), and of the pass  *)
(* that runs, what it has written of its batch, day by day (Written).      *)
(***************************************************************************)
EXTENDS HistDayFiles, TLAPS

IsMem(m) ==
    /\ m = [known |-> m.known, named |-> m.named, unarchived |-> m.unarchived,
            recover |-> m.recover, unsynced |-> m.unsynced,
            rewritten |-> m.rewritten, retired |-> m.retired]
    /\ m.known \in [Days -> Images \cup {Unopened}]

IsPass(p) ==
    p = [at |-> p.at, taken |-> p.taken, batch |-> p.batch, work |-> p.work,
         held |-> p.held, merges |-> p.merges]

Typed ==
    /\ file \in [Days -> Images]
    /\ old \in [Days -> SUBSET Images]
    /\ IsMem(mem) /\ IsPass(pass)
    /\ claimed \subseteq Records /\ pass.batch \subseteq Records
    /\ buffer \subseteq Records /\ pass.held \subseteq Records

\* A file whose directories were fsynced after its first append is there,
\* whatever a power loss puts back.
Named(d) == d \in mem.named => file[d] # None /\ None \notin old[d]

\* What is claimed of a day is in each image, and in what is known of the file.
Durable(d) ==
    \A r \in claimed : DayOf[r] = d =>
        /\ r \in file[d].recs
        /\ \A image \in old[d] : r \in image.recs
        /\ mem.known[d] # Unopened => r \in mem.known[d].recs

\* What the pass took of a day that it is done with, and does not hold, is in
\* the file and in what is known of it; a power loss takes it back only while
\* the rename's fsync is owing.
Written(d) ==
    \A r \in pass.batch \ pass.held : DayOf[r] = d /\ d \notin pass.work =>
        /\ r \in file[d].recs
        /\ d \in mem.unsynced \/ \A image \in old[d] : r \in image.recs
        /\ mem.known[d] # Unopened => r \in mem.known[d].recs

\* The day that is being written was opened; and renamed, it has its batch.
Opened(d) ==
    /\ pass.at \in {"append", "rewrite", "renamed"} /\ d = day => mem.known[d] # Unopened
    /\ pass.at = "renamed" /\ d = day =>
         /\ Batch \subseteq file[d].recs /\ Batch \subseteq mem.known[d].recs
         /\ d \in mem.unsynced

DayOK(d) == Named(d) /\ Durable(d) /\ Written(d) /\ Opened(d)

IInv ==
    /\ Typed
    /\ ~up => pass = NoPass
    /\ \A d \in Days : DayOK(d)

-----------------------------------------------------------------------------
(* What the operations leave of what the process holds *)

MemIs(m, known, named, unsynced) ==
    IsMem(m) /\ m.known = known /\ m.named = named /\ m.unsynced = unsynced

PassIs(p, at, batch, work, held) ==
    IsPass(p) /\ p.at = at /\ p.batch = batch /\ p.work = work /\ p.held = held

\* The images are told apart.
LEMMA ImagesAre ==
    /\ Unopened \notin Images /\ None \in Images /\ None.recs = {}
    /\ \A rs : /\ Live(rs) # None /\ Live(rs).recs = rs
               /\ Archive(rs) # None /\ Archive(rs).recs = rs
    /\ \A rs \in SUBSET Records : Live(rs) \in Images /\ Archive(rs) \in Images
    /\ \A image \in Images : image.recs \subseteq Records
<1>1. \A rs : /\ Live(rs) # None /\ Live(rs).recs = rs /\ Live(rs).gen = "live"
              /\ Archive(rs) # None /\ Archive(rs).recs = rs /\ Archive(rs).gen = "archive"
    BY DEF None, Live, Archive
<1>2. /\ Unopened.gen = "unopened" /\ None.gen = "none" /\ None.recs = {}
    BY DEF None, Unopened
<1>3. \A image \in Images :
        \/ image = None
        \/ \E rs \in SUBSET Records : image = Live(rs) \/ image = Archive(rs)
    BY DEF Images
<1>4. Unopened \notin Images
    <2> SUFFICES ASSUME Unopened \in Images
                 PROVE  FALSE
        OBVIOUS
    <2>1. Unopened = None \/ \E rs \in SUBSET Records : Unopened = Live(rs) \/ Unopened = Archive(rs)
        BY <1>3
    <2> QED BY <1>1, <1>2, <2>1
<1>5. \A image \in Images : image.recs \subseteq Records
    BY <1>1, <1>2, <1>3
<1>6. None \in Images /\ \A rs \in SUBSET Records : Live(rs) \in Images /\ Archive(rs) \in Images
    BY Zenon DEF Images
<1> QED BY <1>1, <1>2, <1>4, <1>5, <1>6

\* What is seen of a file is one of its images.
LEMMA SeenIs ==
    ASSUME Typed, NEW d \in Days
    PROVE  /\ Seen(d) \in Images
           /\ mem.known[d] = Unopened => Seen(d) = file[d]
           /\ mem.known[d] # Unopened => Seen(d) = mem.known[d]
BY DEF Typed, IsMem, Seen

\* Writing what is known of one file.
LEMMA KnownIs ==
    ASSUME NEW k \in [Days -> Images \cup {Unopened}], NEW d,
           NEW v, d \in Days => v \in Images \cup {Unopened}
    PROVE  /\ [k EXCEPT ![d] = v] \in [Days -> Images \cup {Unopened}]
           /\ d \in Days => [k EXCEPT ![d] = v][d] = v
           /\ \A e \in Days \ {d} : [k EXCEPT ![d] = v][e] = k[e]
OBVIOUS

\* A file's image joins those a power loss may put back.
LEMMA OlderIs ==
    ASSUME NEW o \in [Days -> SUBSET Images], NEW f \in [Days -> Images], NEW e
    PROVE  [o EXCEPT ![e] = @ \cup {f[e]}] \in [Days -> SUBSET Images]
<1>1. CASE e \in Days
    <2>1. o[e] \cup {f[e]} \in SUBSET Images
        BY <1>1
    <2> QED BY <2>1
<1>2. CASE e \notin Days
    BY <1>2
<1> QED BY <1>1, <1>2

\* Memory whose parts are these.
LEMMA MemOf ==
    ASSUME NEW k \in [Days -> Images \cup {Unopened}], NEW n, NEW u, NEW rc, NEW s,
           NEW rw, NEW rt
    PROVE  MemIs([known |-> k, named |-> n, unarchived |-> u, recover |-> rc,
                  unsynced |-> s, rewritten |-> rw, retired |-> rt], k, n, s)
BY DEF MemIs, IsMem

\* What a process that starts holds.
LEMMA FreshIs == MemIs(Fresh, [d \in Days |-> Unopened], {}, {})
BY MemOf DEF Fresh

\* Writing a part of it.
LEMMA MemEdit ==
    ASSUME NEW m, NEW k, NEW n, NEW s, MemIs(m, k, n, s), NEW a, NEW d
    PROVE  /\ MemIs([m EXCEPT !.unarchived = a], k, n, s)
           /\ MemIs([m EXCEPT !.recover = a], k, n, s)
           /\ MemIs([m EXCEPT !.retired = a], k, n, s)
           /\ MemIs([m EXCEPT !.rewritten = a], k, n, s)
           /\ MemIs([m EXCEPT !.named = a], k, a, s)
           /\ MemIs([m EXCEPT !.unsynced = a], k, n, a)
           /\ MemIs([m EXCEPT !.rewritten[d] = a], k, n, s)
<1>1. MemIs([m EXCEPT !.unarchived = a], k, n, s)
    BY DEF MemIs, IsMem
<1>2. MemIs([m EXCEPT !.recover = a], k, n, s)
    BY DEF MemIs, IsMem
<1>3. MemIs([m EXCEPT !.retired = a], k, n, s)
    BY DEF MemIs, IsMem
<1>4. MemIs([m EXCEPT !.rewritten = a], k, n, s)
    BY DEF MemIs, IsMem
<1>5. MemIs([m EXCEPT !.named = a], k, a, s)
    BY DEF MemIs, IsMem
<1>6. MemIs([m EXCEPT !.unsynced = a], k, n, a)
    BY DEF MemIs, IsMem
<1>7. MemIs([m EXCEPT !.rewritten[d] = a], k, n, s)
    BY DEF MemIs, IsMem
<1> QED BY <1>1, <1>2, <1>3, <1>4, <1>5, <1>6, <1>7, Zenon

\* Writing what it knows of a file.
LEMMA MemKnown ==
    ASSUME NEW m, NEW k, NEW n, NEW s, MemIs(m, k, n, s), NEW d, NEW v,
           d \in Days => v \in Images \cup {Unopened}
    PROVE  MemIs([m EXCEPT !.known[d] = v], [k EXCEPT ![d] = v], n, s)
<1>0. k \in [Days -> Images \cup {Unopened}]
    BY DEF MemIs, IsMem
<1>1. PICK j : j = [k EXCEPT ![d] = v] /\ j \in [Days -> Images \cup {Unopened}]
    BY <1>0, KnownIs, Zenon
<1>2. MemIs([m EXCEPT !.known = j], j, n, s)
    BY <1>1 DEF MemIs, IsMem
<1>3. [m EXCEPT !.known[d] = v] = [m EXCEPT !.known = j]
    BY <1>1 DEF MemIs
<1> QED BY <1>1, <1>2, <1>3, Zenon

\* The parts that Open, Commit and the rest write together.
LEMMA MemEdits ==
    ASSUME NEW m, NEW j, NEW l, NEW s, MemIs(m, j, l, s), NEW d, NEW v,
           d \in Days => v \in Images \cup {Unopened}, NEW a, NEW b, NEW c, NEW e
    PROVE  LET k == [j EXCEPT ![d] = v]
           IN /\ MemIs([m EXCEPT !.known[d] = v, !.unarchived = a], k, l, s)
              /\ MemIs([m EXCEPT !.recover = a, !.unarchived = b, !.known[d] = v], k, l, s)
              /\ MemIs([m EXCEPT !.known[d] = v, !.named = a], k, a, s)
              /\ MemIs([m EXCEPT !.known[d] = v, !.named = a, !.unarchived = b], k, a, s)
              /\ MemIs([m EXCEPT !.known[d] = v, !.recover = a, !.unarchived = b,
                                 !.rewritten[d] = c, !.unsynced = e], k, l, e)
              /\ MemIs([m EXCEPT !.retired = a, !.recover = b], j, l, s)
<1> DEFINE k == [j EXCEPT ![d] = v]
           x == [m EXCEPT !.known[d] = v]
           n == [x EXCEPT !.named = a]
           r == [x EXCEPT !.recover = a]
           u == [r EXCEPT !.unarchived = b]
           w == [u EXCEPT !.rewritten[d] = c]
           y == [m EXCEPT !.recover = a]
           z == [y EXCEPT !.unarchived = b]
           t == [m EXCEPT !.retired = a]
<1>1. /\ [m EXCEPT !.known[d] = v, !.unarchived = a] = [x EXCEPT !.unarchived = a]
      /\ [m EXCEPT !.recover = a, !.unarchived = b, !.known[d] = v] = [z EXCEPT !.known[d] = v]
      /\ [m EXCEPT !.known[d] = v, !.named = a] = n
      /\ [m EXCEPT !.known[d] = v, !.named = a, !.unarchived = b] = [n EXCEPT !.unarchived = b]
      /\ [m EXCEPT !.known[d] = v, !.recover = a, !.unarchived = b,
                   !.rewritten[d] = c, !.unsynced = e] = [w EXCEPT !.unsynced = e]
      /\ [m EXCEPT !.retired = a, !.recover = b] = [t EXCEPT !.recover = b]
    OBVIOUS
<1>2. MemIs(x, k, l, s)
    BY MemKnown, Zenon
<1>3. MemIs(y, j, l, s) /\ MemIs(t, j, l, s)
    BY MemEdit, Zenon
<1> HIDE DEF x, y, t, k
<1>4. /\ MemIs([x EXCEPT !.unarchived = a], k, l, s)
      /\ MemIs(n, k, a, s) /\ MemIs(r, k, l, s)
      /\ MemIs(z, j, l, s)
      /\ MemIs([t EXCEPT !.recover = b], j, l, s)
    BY <1>2, <1>3, MemEdit, Zenon
<1> HIDE DEF n, r, z
<1>5. MemIs([n EXCEPT !.unarchived = b], k, a, s) /\ MemIs(u, k, l, s)
    BY <1>4, MemEdit, Zenon
<1>6. MemIs([z EXCEPT !.known[d] = v], k, l, s)
    BY <1>4, MemKnown, Zenon DEF k
<1> HIDE DEF u
<1>7. MemIs(w, k, l, s)
    BY <1>5, MemEdit, Zenon
<1> HIDE DEF w
<1>8. MemIs([w EXCEPT !.unsynced = e], k, l, e)
    BY <1>7, MemEdit, Zenon
<1> QED BY <1>1, <1>4, <1>5, <1>6, <1>8, Zenon DEF k

\* Moving the pass on.
LEMMA PassEdits ==
    ASSUME NEW p, IsPass(p), NEW at, NEW w, NEW h
    PROVE  /\ PassIs([p EXCEPT !.at = at], at, p.batch, p.work, p.held)
           /\ PassIs([p EXCEPT !.at = at, !.work = w, !.held = h], at, p.batch, w, h)
<1> DEFINE x == [p EXCEPT !.at = at]
           y == [x EXCEPT !.work = w]
<1>1. [p EXCEPT !.at = at, !.work = w, !.held = h] = [y EXCEPT !.held = h]
    OBVIOUS
<1>2. PassIs(x, at, p.batch, p.work, p.held)
    BY DEF IsPass, PassIs
<1> HIDE DEF x
<1>3. PassIs(y, at, p.batch, w, p.held)
    BY <1>2 DEF IsPass, PassIs
<1> HIDE DEF y
<1>4. PassIs([y EXCEPT !.held = h], at, p.batch, w, h)
    BY <1>3 DEF IsPass, PassIs
<1> QED BY <1>1, <1>2, <1>4, Zenon DEF x

-----------------------------------------------------------------------------
(* The steps *)

\* A day whose images are left alone, and of which no more is known.
LEMMA Frame ==
    ASSUME NEW d \in Days, DayOK(d), claimed' = claimed,
           file'[d] = file[d], old'[d] = old[d],
           mem'.known[d] \in {mem.known[d], Unopened},
           d \in mem'.named => d \in mem.named
    PROVE  /\ Named(d)' /\ Durable(d)'
           /\ /\ d \in mem.unsynced => d \in mem'.unsynced
              /\ pass'.batch = pass.batch /\ pass.held \subseteq pass'.held
              /\ d \in pass.work => d \in pass'.work
              => Written(d)'
<1>1. Named(d)'
    BY DEF DayOK, Named
<1>2. Durable(d)'
    BY DEF DayOK, Durable
<1>3. ASSUME d \in mem.unsynced => d \in mem'.unsynced,
             pass'.batch = pass.batch, pass.held \subseteq pass'.held,
             d \in pass.work => d \in pass'.work
      PROVE  Written(d)'
    BY <1>3 DEF DayOK, Written
<1> QED BY <1>1, <1>2, <1>3

\* A step that leaves the files, what is known of them and the pass.
LEMMA Others ==
    ASSUME IInv, UNCHANGED <<file, old, mem, pass, claimed>>, up' = up,
           buffer' \subseteq Records
    PROVE  IInv'
<1>1. Typed'
    BY DEF IInv, Typed
<1>2. \A d \in Days : DayOK(d)'
    BY DEF IInv, DayOK, Named, Durable, Written, Opened, day, Batch
<1> QED BY <1>1, <1>2 DEF IInv

\* The pass is done with a day and holds its batch.
LEMMA Passed ==
    ASSUME IInv, up, up', UNCHANGED <<file, old, claimed, buffer>>,
           IsMem(mem'), mem'.named \subseteq mem.named, mem'.unsynced = mem.unsynced,
           \A d \in Days : mem'.known[d] \in {mem.known[d], Unopened},
           NEW h, NextDay(h), Batch \subseteq h, h \subseteq Records
    PROVE  IInv'
<1>1. PassIs(pass', "days", pass.batch, pass.work \ {day}, pass.held \cup h)
    BY PassEdits, Zenon DEF NextDay, IInv, Typed
<1>2. Typed'
    BY <1>1 DEF PassIs, IInv, Typed
<1>3. ASSUME NEW d \in Days
      PROVE  DayOK(d)'
    <2>1. DayOK(d)
        BY DEF IInv
    <2>2. Opened(d)'
        BY <1>1 DEF PassIs, Opened
    <2>3. CASE d = day
        <3>1. Named(d)' /\ Durable(d)'
            BY <2>1, Frame
        <3>2. Written(d)'
            BY <1>1, <2>3 DEF PassIs, Written, Batch
        <3> QED BY <2>2, <3>1, <3>2 DEF DayOK
    <2>4. CASE d # day
        <3>1. Named(d)' /\ Durable(d)' /\ Written(d)'
            BY <1>1, <2>1, <2>4, Frame DEF PassIs
        <3> QED BY <2>2, <3>1 DEF DayOK
    <2> QED BY <2>3, <2>4
<1> QED BY <1>2, <1>3 DEF IInv

\* The pass is over, and the files and what is known of them are left alone.
LEMMA Over ==
    ASSUME IInv, pass' = NoPass, claimed' = claimed, UNCHANGED <<file, old, mem>>,
           buffer' \subseteq Records
    PROVE  IInv'
<1>1. Typed'
    BY DEF IInv, Typed, NoPass, IsPass
<1>2. ASSUME NEW d \in Days
      PROVE  DayOK(d)'
    <2>1. Named(d)' /\ Durable(d)'
        BY Frame DEF IInv
    <2>2. Written(d)' /\ Opened(d)'
        BY DEF Written, Opened, NoPass
    <2> QED BY <2>1, <2>2 DEF DayOK
<1> QED BY <1>1, <1>2 DEF IInv

\* The constructor opens the newest files and knows them as they are.
LEMMA StartOK ==
    ASSUME IInv, Start
    PROVE  IInv'
<1> DEFINE K == [d \in Days |-> IF d \in OpenedAtStart /\ IsLive(d) THEN file[d] ELSE Unopened]
<1>1. K \in [Days -> Images \cup {Unopened}] /\ \A d \in Days : K[d] \in {file[d], Unopened}
    BY DEF IInv, Typed
<1>2. mem' = [known |-> K, named |-> {}, unarchived |-> StartsUnarchived,
              recover |-> StartsRecovering, unsynced |-> {},
              rewritten |-> [d \in Days |-> 0], retired |-> FALSE]
    BY DEF Start, Fresh
<1> HIDE DEF K
<1>3. MemIs(mem', K, {}, {})
    BY <1>1, <1>2, MemOf
<1>4. pass = NoPass /\ UNCHANGED <<file, old, pass, claimed, buffer>>
    BY DEF Start, IInv
<1>5. Typed'
    BY <1>3, <1>4 DEF IInv, Typed, MemIs
<1>6. ASSUME NEW d \in Days
      PROVE  DayOK(d)'
    <2>1. Named(d)'
        BY <1>3 DEF Named, MemIs
    <2>2. Durable(d)'
        BY <1>1, <1>3, <1>4 DEF IInv, DayOK, Durable, MemIs
    <2>3. Written(d)' /\ Opened(d)'
        BY <1>4 DEF Written, Opened, NoPass
    <2> QED BY <2>1, <2>2, <2>3 DEF DayOK
<1> QED BY <1>4, <1>5, <1>6 DEF IInv

\* A pass that begins has all its days before it.
LEMMA TakeOK ==
    ASSUME IInv, NEW merges \in BOOLEAN, Take(merges)
    PROVE  IInv'
<1> DEFINE m == IF removed THEN Retire(mem) ELSE mem
<1>1. MemIs(mem, mem.known, mem.named, mem.unsynced)
    BY DEF IInv, Typed, MemIs
<1>2. MemIs(Retire(mem), mem.known, mem.named, mem.unsynced)
    BY <1>1, MemEdits DEF Retire
<1>3. MemIs(m, mem.known, mem.named, mem.unsynced)
    BY <1>1, <1>2
<1> HIDE DEF m
<1>4. MemIs(Forget(m, now), mem.known, mem.named, mem.unsynced)
    BY <1>3, MemEdit, Zenon DEF Forget
<1>5. mem' = Forget(m, now) /\ UNCHANGED <<file, old, claimed, up>> /\ up
    BY DEF Take, m
<1>6. /\ IsPass(pass') /\ pass'.at = "days" /\ pass'.batch = buffer /\ pass'.held = {}
      /\ \A r \in buffer : DayOf[r] \in pass'.work
    BY DEF Take, IsPass
<1>7. Typed'
    BY <1>4, <1>5, <1>6 DEF IInv, Typed, MemIs, Take
<1>8. ASSUME NEW d \in Days
      PROVE  DayOK(d)'
    <2>1. Named(d)' /\ Durable(d)'
        BY <1>4, <1>5, Frame DEF IInv, MemIs
    <2>2. Written(d)' /\ Opened(d)'
        BY <1>6 DEF Written, Opened
    <2> QED BY <2>1, <2>2 DEF DayOK
<1> QED BY <1>5, <1>7, <1>8 DEF IInv

\* What Open leaves.
LEMMA OpenIs ==
    ASSUME Typed
    PROVE  MemIs(Open(mem), [mem.known EXCEPT ![day] = Seen(day)], mem.named, mem.unsynced)
<1>1. MemIs(mem, mem.known, mem.named, mem.unsynced)
    BY DEF Typed, MemIs
<1>2. day \in Days => Seen(day) \in Images \cup {Unopened}
    BY SeenIs
<1>3. PICK a : Open(mem) = [mem EXCEPT !.known[day] = Seen(day), !.unarchived = a]
    BY DEF Open
<1>4. PICK d, v, k : d = day /\ v = Seen(day) /\ k = mem.known
    OBVIOUS
<1>5. MemIs([mem EXCEPT !.known[d] = v, !.unarchived = a], [k EXCEPT ![d] = v],
            mem.named, mem.unsynced)
    BY <1>1, <1>2, <1>4, MemEdits
<1> QED BY <1>3, <1>4, <1>5

\* A step on the pass's day e leaves the other days in order.
LEMMA OneDay ==
    ASSUME IInv, up, up', claimed' = claimed, Typed', NEW e, e = day,
           pass'.batch = pass.batch, pass.held \subseteq pass'.held,
           \A d \in Days \ {e} :
             /\ file'[d] = file[d] /\ old'[d] = old[d] /\ mem'.known[d] = mem.known[d]
             /\ d \in mem'.named => d \in mem.named
             /\ d \in mem.unsynced => d \in mem'.unsynced
             /\ d \in pass.work => d \in pass'.work,
           pass'.work = pass.work \/ pass'.at = "days",
           e \in Days => DayOK(e)'
    PROVE  IInv'
<1>1. ASSUME NEW d \in Days, d # e
      PROVE  DayOK(d)'
    <2>1. Named(d)' /\ Durable(d)' /\ Written(d)'
        BY <1>1, Frame DEF IInv
    <2>2. Opened(d)'
        BY <1>1 DEF Opened, day
    <2> QED BY <2>1, <2>2 DEF DayOK
<1> QED BY <1>1 DEF IInv

\* Prepare, and the append as far as it gets.
LEMMA BeginAppendOK ==
    ASSUME IInv, BeginAppend
    PROVE  IInv'
<1>1. PICK e : e = day
    OBVIOUS
<1>2. PICK image \in {file[e], Live(Seen(e).recs), Live(Seen(e).recs \cup Batch)} :
        file' = [file EXCEPT ![e] = image]
    BY <1>1 DEF BeginAppend
<1>3. /\ old' = [old EXCEPT ![e] = @ \cup {file[e]}] /\ mem' = Open(mem)
      /\ pass' = [pass EXCEPT !.at = "append"]
      /\ UNCHANGED <<claimed, buffer>> /\ up /\ up'
    BY <1>1 DEF BeginAppend, Writes, InDays
<1>4. MemIs(mem', [mem.known EXCEPT ![e] = Seen(e)], mem.named, mem.unsynced)
    BY <1>1, <1>3, OpenIs DEF IInv
<1>5. PassIs(pass', "append", pass.batch, pass.work, pass.held)
    BY <1>3, PassEdits DEF IInv, Typed
<1>6. Typed /\ \A d \in Days : DayOK(d)
    BY DEF IInv
<1>7. e \in Days => image \in Images /\ Seen(e) \in Images
    BY <1>2, <1>6, SeenIs, ImagesAre DEF Typed, Batch
<1>8. Typed'
    <2>1. file' \in [Days -> Images]
        BY <1>2, <1>6, <1>7 DEF Typed
    <2>2. old' \in [Days -> SUBSET Images]
        BY <1>3, <1>6, OlderIs DEF Typed
    <2> QED BY <1>3, <1>4, <1>5, <1>6, <2>1, <2>2 DEF Typed, MemIs, PassIs
<1>9. ASSUME e \in Days
      PROVE  DayOK(e)'
    <2>1. /\ file'[e] = image /\ old'[e] = old[e] \cup {file[e]} /\ mem'.known[e] = Seen(e)
          /\ Seen(e) # Unopened
        <3>1. file'[e] = image /\ old'[e] = old[e] \cup {file[e]}
            BY <1>2, <1>3, <1>6, <1>9 DEF Typed
        <3>2. mem'.known[e] = Seen(e)
            BY <1>4, <1>6, <1>9 DEF Typed, IsMem, MemIs
        <3> QED BY <1>7, <1>9, <3>1, <3>2, ImagesAre
    <2>2. image = file[e] \/ (image # None /\ Seen(e).recs \subseteq image.recs)
        <3>1. PICK rs, s : rs = Seen(e).recs /\ s = rs \cup Batch
            OBVIOUS
        <3>2. image = file[e] \/ image = Live(rs) \/ image = Live(s)
            BY <1>2, <3>1
        <3>3. rs \subseteq rs /\ rs \subseteq s
            BY <3>1
        <3>4. \A t : Live(t) # None /\ Live(t).recs = t
            BY ImagesAre
        <3>5. CASE image = Live(rs)
            BY <3>1, <3>3, <3>4, <3>5, Zenon
        <3>6. CASE image = Live(s)
            BY <3>1, <3>3, <3>4, <3>6, Zenon
        <3> QED BY <3>2, <3>5, <3>6, Zenon
    <2>3. Named(e)'
        BY <1>4, <1>6, <1>9, <2>1, <2>2 DEF DayOK, Named, MemIs
    <2>4. ASSUME NEW r, r \in file[e].recs, mem.known[e] # Unopened => r \in mem.known[e].recs
          PROVE  r \in image.recs /\ r \in Seen(e).recs
        BY <1>6, <1>9, <2>2, <2>4, SeenIs
    <2>5. Durable(e)'
        BY <1>3, <1>6, <1>9, <2>1, <2>4 DEF DayOK, Durable
    <2>6. Written(e)'
        BY <1>4, <1>5, <1>6, <1>9, <2>1, <2>4 DEF DayOK, Written, MemIs, PassIs
    <2>7. Opened(e)'
        BY <1>5, <2>1 DEF Opened, PassIs
    <2> QED BY <2>3, <2>5, <2>6, <2>7 DEF DayOK
<1>10. ASSUME NEW d \in Days, d # e
       PROVE  file'[d] = file[d] /\ old'[d] = old[d] /\ mem'.known[d] = mem.known[d]
    BY <1>2, <1>3, <1>4, <1>6, <1>10 DEF Typed, IsMem, MemIs
<1> QED BY <1>1, <1>3, <1>4, <1>5, <1>8, <1>9, <1>10, OneDay DEF MemIs, PassIs

\* The append is over, and its directories' fsync if it is the first.
LEMMA EndAppendOK ==
    ASSUME IInv, EndAppend
    PROVE  IInv'
<1>1. PICK e : e = day
    OBVIOUS
<1>2. PICK written : written = Live(mem.known[e].recs \cup Batch)
    OBVIOUS
<1>3. /\ file' = [file EXCEPT ![e] = written]
      /\ mem' = [mem EXCEPT !.known[e] = written, !.named = @ \cup {e}, !.unarchived = @ \cup {e}]
      /\ old' = [old EXCEPT ![e] = AfterAppend]
      /\ NextDay({}) /\ UNCHANGED <<claimed, buffer>> /\ up /\ up' /\ pass.at = "append"
    BY <1>1, <1>2 DEF EndAppend
<1>4. Typed /\ \A d \in Days : DayOK(d)
    BY DEF IInv
<1>5. PassIs(pass', "days", pass.batch, pass.work \ {e}, pass.held)
    <2>1. PICK w, h : w = pass.work \ {e} /\ h = pass.held \cup {} /\ h = pass.held
        OBVIOUS
    <2>2. pass' = [pass EXCEPT !.at = "days", !.work = w, !.held = h]
        BY <1>1, <1>3, <2>1 DEF NextDay
    <2> QED BY <1>4, <2>1, <2>2, PassEdits DEF Typed
<1>6. e \in Days => written \in Images /\ AfterAppend = {}
    <2>1. ASSUME e \in Days
          PROVE  mem.known[e] \in Images
        BY <1>1, <1>3, <1>4, <2>1 DEF DayOK, Opened, Typed, IsMem
    <2>2. Batch \subseteq Records
        BY <1>4 DEF Typed, Batch
    <2>3. e \in Days => AfterAppend = {}
        BY <1>1, <1>4 DEF AfterAppend, DayOK, Named
    <2> QED BY <1>2, <2>1, <2>2, <2>3, ImagesAre
<1>7. MemIs(mem', [mem.known EXCEPT ![e] = written], mem.named \cup {e}, mem.unsynced)
    <2>1. MemIs(mem, mem.known, mem.named, mem.unsynced)
        BY <1>4 DEF Typed, MemIs
    <2>2. PICK k, a, b : k = mem.known /\ a = mem.named \cup {e} /\ b = mem.unarchived \cup {e}
        OBVIOUS
    <2>3. MemIs([mem EXCEPT !.known[e] = written, !.named = a, !.unarchived = b],
                [k EXCEPT ![e] = written], a, mem.unsynced)
        BY <1>6, <2>1, <2>2, MemEdits
    <2> QED BY <1>3, <2>2, <2>3
<1>8. Typed'
    BY <1>3, <1>4, <1>5, <1>6, <1>7 DEF Typed, MemIs, PassIs
<1>9. ASSUME e \in Days
      PROVE  DayOK(e)'
    <2>1. file'[e] = written /\ old'[e] = {} /\ mem'.known[e] = written /\ written # Unopened
        BY <1>3, <1>4, <1>6, <1>7, <1>9, ImagesAre DEF Typed, IsMem, MemIs
    <2>2. written # None /\ mem.known[e].recs \subseteq written.recs /\ Batch \subseteq written.recs
        BY <1>2, ImagesAre
    <2>3. mem.known[e] # Unopened
        BY <1>1, <1>3, <1>4, <1>9 DEF DayOK, Opened
    <2>4. Durable(e)'
        BY <1>3, <1>4, <1>9, <2>1, <2>2, <2>3 DEF DayOK, Durable
    <2>5. Written(e)'
        BY <1>1, <1>5, <2>1, <2>2 DEF Written, Batch, PassIs
    <2>6. Named(e)' /\ Opened(e)'
        BY <1>5, <2>1, <2>2 DEF Named, Opened, PassIs
    <2> QED BY <2>4, <2>5, <2>6 DEF DayOK
<1>10. ASSUME NEW d \in Days, d # e
       PROVE  file'[d] = file[d] /\ old'[d] = old[d] /\ mem'.known[d] = mem.known[d]
    BY <1>3, <1>4, <1>7, <1>10 DEF Typed, IsMem, MemIs
<1> QED BY <1>1, <1>3, <1>5, <1>7, <1>8, <1>9, <1>10, OneDay DEF MemIs, PassIs
\* Prepare, and the rewrite's parts: the day's file is opened.
LEMMA BeginRewriteOK ==
    ASSUME IInv, BeginRewrite
    PROVE  IInv'
<1>1. PICK e : e = day
    OBVIOUS
<1>2. /\ mem' = Open(mem) /\ pass' = [pass EXCEPT !.at = "rewrite"]
      /\ UNCHANGED <<file, old, claimed, buffer>> /\ up /\ up'
    BY DEF BeginRewrite, Writes, InDays
<1>3. MemIs(mem', [mem.known EXCEPT ![e] = Seen(e)], mem.named, mem.unsynced)
    BY <1>1, <1>2, OpenIs DEF IInv
<1>4. PassIs(pass', "rewrite", pass.batch, pass.work, pass.held)
    BY <1>2, PassEdits DEF IInv, Typed
<1>5. Typed /\ \A d \in Days : DayOK(d)
    BY DEF IInv
<1>6. Typed'
    BY <1>2, <1>3, <1>4, <1>5 DEF Typed, MemIs, PassIs
<1>7. ASSUME e \in Days
      PROVE  DayOK(e)'
    <2>1. mem'.known[e] = Seen(e) /\ Seen(e) # Unopened
        <3>1. mem'.known[e] = Seen(e)
            BY <1>3, <1>5, <1>7 DEF Typed, IsMem, MemIs
        <3> QED BY <1>5, <1>7, <3>1, SeenIs, ImagesAre
    <2>2. ASSUME NEW r, r \in file[e].recs, mem.known[e] # Unopened => r \in mem.known[e].recs
          PROVE  r \in Seen(e).recs
        BY <1>5, <1>7, <2>2, SeenIs
    <2>3. Named(e)'
        BY <1>2, <1>3, <1>5, <1>7 DEF DayOK, Named, MemIs
    <2>4. Durable(e)'
        BY <1>2, <1>5, <1>7, <2>1, <2>2 DEF DayOK, Durable
    <2>5. Written(e)'
        BY <1>2, <1>3, <1>4, <1>5, <1>7, <2>1, <2>2 DEF DayOK, Written, MemIs, PassIs
    <2>6. Opened(e)'
        BY <1>4, <2>1 DEF Opened, PassIs
    <2> QED BY <2>3, <2>4, <2>5, <2>6 DEF DayOK
<1>8. ASSUME NEW d \in Days, d # e
      PROVE  mem'.known[d] = mem.known[d]
    BY <1>3, <1>5, <1>8 DEF Typed, IsMem, MemIs
<1> QED BY <1>1, <1>2, <1>3, <1>4, <1>6, <1>7, <1>8, OneDay DEF MemIs, PassIs

\* What Commit notes of the archive.
LEMMA ArchivedIs ==
    ASSUME Typed, NEW archive, day \in Days => archive \in Images
    PROVE  MemIs(Archived(mem, archive), [mem.known EXCEPT ![day] = archive], mem.named,
                 mem.unsynced \cup {day})
<1>1. MemIs(mem, mem.known, mem.named, mem.unsynced)
    BY DEF Typed, MemIs
<1>2. PICK d, k, a, b, t, s : /\ d = day /\ k = mem.known /\ a = mem.recover \ {day}
                             /\ b = mem.unarchived \ {day} /\ t = pass.taken
                             /\ s = mem.unsynced \cup {day}
    OBVIOUS
<1>3. Archived(mem, archive) = [mem EXCEPT !.known[d] = archive, !.recover = a,
                                  !.unarchived = b, !.rewritten[d] = t, !.unsynced = s]
    BY <1>2, Zenon DEF Archived
<1>4. MemIs(mem, k, mem.named, mem.unsynced)
    BY <1>1, <1>2
<1>5. d \in Days => archive \in Images \cup {Unopened}
    BY <1>2
<1>6. MemIs([mem EXCEPT !.known[d] = archive, !.recover = a, !.unarchived = b,
                        !.rewritten[d] = t, !.unsynced = s],
            [k EXCEPT ![d] = archive], mem.named, s)
    BY <1>4, <1>5, MemEdits, Zenon
<1> QED BY <1>2, <1>3, <1>6

\* The archive is renamed over the day's file, and its fsync is owing.
LEMMA RenameOK ==
    ASSUME IInv, Rename
    PROVE  IInv'
<1>1. PICK e : e = day
    OBVIOUS
<1>2. PICK archive : archive = Archive(mem.known[e].recs \cup Batch)
    OBVIOUS
<1>3. /\ file' = [file EXCEPT ![e] = archive] /\ mem' = Archived(mem, archive)
      /\ old' = [old EXCEPT ![e] = @ \cup {file[e]}]
      /\ pass' = [pass EXCEPT !.at = "renamed"]
      /\ UNCHANGED <<claimed, buffer>> /\ up /\ up' /\ pass.at = "rewrite"
    BY <1>1, <1>2 DEF Rename
<1>4. Typed /\ \A d \in Days : DayOK(d)
    BY DEF IInv
<1>5. PassIs(pass', "renamed", pass.batch, pass.work, pass.held)
    BY <1>3, <1>4, PassEdits DEF Typed
<1>6. archive # None /\ mem.known[e].recs \subseteq archive.recs /\ Batch \subseteq archive.recs
    BY <1>2, ImagesAre
<1>7. e \in Days => archive \in Images
    <2>1. ASSUME e \in Days
          PROVE  mem.known[e] \in Images
        BY <1>1, <1>3, <1>4, <2>1 DEF DayOK, Opened, Typed, IsMem
    <2>2. Batch \subseteq Records
        BY <1>4 DEF Typed, Batch
    <2> QED BY <1>2, <2>1, <2>2, ImagesAre
<1>8. MemIs(mem', [mem.known EXCEPT ![e] = archive], mem.named, mem.unsynced \cup {e})
    BY <1>1, <1>3, <1>4, <1>7, ArchivedIs
<1>9. Typed'
    <2>1. file' \in [Days -> Images]
        BY <1>3, <1>4, <1>7 DEF Typed
    <2>2. old' \in [Days -> SUBSET Images]
        BY <1>3, <1>4, OlderIs DEF Typed
    <2> QED BY <1>3, <1>4, <1>5, <1>8, <2>1, <2>2 DEF Typed, MemIs, PassIs
<1>10. ASSUME e \in Days
       PROVE  DayOK(e)'
    <2>1. file'[e] = archive /\ old'[e] = old[e] \cup {file[e]}
        BY <1>3, <1>4, <1>10 DEF Typed
    <2>2. mem'.known[e] = archive /\ e \in mem'.unsynced
        BY <1>4, <1>8, <1>10 DEF Typed, IsMem, MemIs
    <2>3. archive # Unopened
        BY <1>7, <1>10, ImagesAre
    <2>4. mem.known[e] # Unopened
        BY <1>1, <1>3, <1>4, <1>10 DEF DayOK, Opened
    <2>5. Named(e)'
        BY <1>4, <1>6, <1>8, <1>10, <2>1 DEF DayOK, Named, MemIs
    <2>6. Durable(e)'
        BY <1>3, <1>4, <1>6, <1>10, <2>1, <2>2, <2>4 DEF DayOK, Durable
    <2>7. Written(e)'
        BY <1>4, <1>5, <1>6, <1>10, <2>1, <2>2, <2>4 DEF DayOK, Written, PassIs
    <2>8. Batch' = Batch
        BY <1>5 DEF PassIs, Batch, day
    <2>9. Opened(e)'
        BY <1>5, <1>6, <2>1, <2>2, <2>3, <2>8 DEF Opened, PassIs
    <2> QED BY <2>5, <2>6, <2>7, <2>9 DEF DayOK
<1>11. ASSUME NEW d \in Days, d # e
       PROVE  file'[d] = file[d] /\ old'[d] = old[d] /\ mem'.known[d] = mem.known[d]
    BY <1>3, <1>4, <1>8, <1>11 DEF Typed, IsMem, MemIs
<1> QED BY <1>1, <1>3, <1>5, <1>8, <1>9, <1>10, <1>11, OneDay DEF MemIs, PassIs

\* Fsyncing a renamed file's directories: no older image of it comes back.
LEMMA Synced ==
    ASSUME IInv, NEW e, old' = [old EXCEPT ![e] = {}],
           mem' = [mem EXCEPT !.unsynced = @ \ {e}]
    PROVE  /\ MemIs(mem', mem.known, mem.named, mem.unsynced \ {e})
           /\ old' \in [Days -> SUBSET Images]
           /\ e \in Days => old'[e] = {}
           /\ \A d \in Days \ {e} : old'[d] = old[d]
<1>1. MemIs(mem, mem.known, mem.named, mem.unsynced)
    BY DEF IInv, Typed, MemIs
<1>2. PICK s : s = mem.unsynced \ {e}
    OBVIOUS
<1>3. MemIs([mem EXCEPT !.unsynced = s], mem.known, mem.named, s)
    BY <1>1, MemEdit, Zenon
<1> QED BY <1>2, <1>3 DEF IInv, Typed

\* The directories' fsync after the rename, or its failure.
LEMMA SyncArchiveOK ==
    ASSUME IInv, SyncArchive
    PROVE  IInv'
<1>1. PICK e : e = day
    OBVIOUS
<1>2. /\ NextDay({}) /\ UNCHANGED <<file, claimed, buffer>> /\ up /\ up' /\ pass.at = "renamed"
      /\ \/ old' = [old EXCEPT ![e] = {}] /\ mem' = [mem EXCEPT !.unsynced = @ \ {e}]
         \/ UNCHANGED <<old, mem>>
    BY <1>1 DEF SyncArchive
<1>3. Typed /\ \A d \in Days : DayOK(d)
    BY DEF IInv
<1>4. PassIs(pass', "days", pass.batch, pass.work \ {e}, pass.held)
    <2>1. PICK w, h : w = pass.work \ {e} /\ h = pass.held \cup {} /\ h = pass.held
        OBVIOUS
    <2>2. pass' = [pass EXCEPT !.at = "days", !.work = w, !.held = h]
        BY <1>1, <1>2, <2>1 DEF NextDay
    <2> QED BY <1>3, <2>1, <2>2, PassEdits DEF Typed
<1>5. /\ IsMem(mem') /\ mem'.known = mem.known /\ mem'.named = mem.named
      /\ old' \in [Days -> SUBSET Images]
      /\ e \in Days => \/ old'[e] = {}
                       \/ old'[e] = old[e] /\ mem'.unsynced = mem.unsynced
      /\ \A d \in Days \ {e} :
           old'[d] = old[d] /\ (d \in mem.unsynced => d \in mem'.unsynced)
    <2>1. CASE old' = [old EXCEPT ![e] = {}] /\ mem' = [mem EXCEPT !.unsynced = @ \ {e}]
        <3>1. /\ MemIs(mem', mem.known, mem.named, mem.unsynced \ {e})
              /\ old' \in [Days -> SUBSET Images]
              /\ e \in Days => old'[e] = {}
              /\ \A d \in Days \ {e} : old'[d] = old[d]
            BY <2>1, Synced
        <3>2. /\ IsMem(mem') /\ mem'.known = mem.known /\ mem'.named = mem.named
              /\ mem'.unsynced = mem.unsynced \ {e}
            BY <3>1 DEF MemIs
        <3>3. ASSUME NEW d \in Days \ {e}
              PROVE  old'[d] = old[d] /\ (d \in mem.unsynced => d \in mem'.unsynced)
            BY <3>1, <3>2
        <3> QED BY <3>1, <3>2, <3>3
    <2>2. CASE UNCHANGED <<old, mem>>
        BY <1>3, <2>2 DEF Typed
    <2> QED BY <1>2, <2>1, <2>2
<1>6. Typed'
    BY <1>2, <1>3, <1>4, <1>5 DEF Typed, PassIs
<1>7. ASSUME e \in Days
      PROVE  DayOK(e)'
    <2>1. DayOK(e) /\ file'[e] = file[e] /\ mem'.known[e] = mem.known[e] /\ e = day
        BY <1>1, <1>2, <1>3, <1>5, <1>7
    <2>2. Named(e)'
        BY <1>5, <1>7, <2>1 DEF DayOK, Named
    <2>3. Durable(e)'
        BY <1>2, <1>5, <1>7, <2>1 DEF DayOK, Durable
    <2>4. Batch \subseteq file[e].recs /\ Batch \subseteq mem.known[e].recs /\ e \in mem.unsynced
        BY <1>2, <2>1 DEF DayOK, Opened
    <2>5. Written(e)'
        BY <1>1, <1>4, <1>5, <1>7, <2>1, <2>4 DEF Written, Batch, PassIs
    <2>6. Opened(e)'
        BY <1>4 DEF Opened, PassIs
    <2> QED BY <2>2, <2>3, <2>5, <2>6 DEF DayOK
<1> QED BY <1>1, <1>2, <1>4, <1>5, <1>6, <1>7, OneDay DEF PassIs

\* A rename of an earlier pass, or of this one, whose fsync was owing.
LEMMA SyncRenamedOK ==
    ASSUME IInv, SyncRenamed
    PROVE  IInv'
<1>1. PICK e : e = Earliest(mem.unsynced)
    OBVIOUS
<1>2. /\ old' = [old EXCEPT ![e] = {}] /\ mem' = [mem EXCEPT !.unsynced = @ \ {e}]
      /\ UNCHANGED <<file, claimed, buffer, pass, up>> /\ up /\ pass.at = "days"
    BY <1>1 DEF SyncRenamed, DaysDone
<1>3. /\ MemIs(mem', mem.known, mem.named, mem.unsynced \ {e})
      /\ old' \in [Days -> SUBSET Images]
      /\ e \in Days => old'[e] = {}
      /\ \A d \in Days \ {e} : old'[d] = old[d]
    BY <1>2, Synced
<1>4. Typed'
    BY <1>2, <1>3 DEF IInv, Typed, MemIs
<1>5. ASSUME NEW d \in Days
      PROVE  DayOK(d)'
    <2>1. DayOK(d) /\ mem'.known = mem.known /\ mem'.named = mem.named
        BY <1>3 DEF IInv, MemIs
    <2>2. \/ old'[d] = {}
          \/ old'[d] = old[d] /\ (d \in mem.unsynced => d \in mem'.unsynced)
        <3>1. CASE d = e
            BY <1>3, <3>1
        <3>2. CASE d # e
            <4>1. old'[d] = old[d] /\ mem'.unsynced = mem.unsynced \ {e}
                BY <1>3, <3>2 DEF MemIs
            <4> QED BY <3>2, <4>1
        <3> QED BY <3>1, <3>2
    <2>3. Named(d)'
        BY <1>2, <2>1, <2>2 DEF DayOK, Named
    <2>4. Durable(d)'
        BY <1>2, <2>1, <2>2 DEF DayOK, Durable
    <2>5. Written(d)'
        BY <1>2, <2>1, <2>2 DEF DayOK, Written
    <2>6. Opened(d)'
        BY <1>2 DEF Opened
    <2> QED BY <2>3, <2>4, <2>5, <2>6 DEF DayOK
<1> QED BY <1>2, <1>4, <1>5 DEF IInv

\* What is claimed was written, and no rename is owed its fsync.
LEMMA WriteSlotOK ==
    ASSUME IInv, WriteSlot
    PROVE  IInv'
<1>1. /\ pass.held = {} /\ pass.work = {} /\ mem.unsynced = {}
      /\ claimed' = claimed \cup pass.batch /\ pass' = NoPass
      /\ UNCHANGED <<file, old, mem>> /\ buffer' = buffer \cup pass.held
    BY DEF WriteSlot, Finish, DaysDone, MayClaim
<1>2. Typed'
    BY <1>1 DEF IInv, Typed, NoPass, IsPass
<1>3. ASSUME NEW d \in Days
      PROVE  DayOK(d)'
    <2>1. DayOK(d)
        BY DEF IInv
    <2>2. Named(d)'
        BY <1>1, <2>1 DEF DayOK, Named
    <2>3. Durable(d)'
        BY <1>1, <2>1 DEF DayOK, Durable, Written
    <2>4. Written(d)' /\ Opened(d)'
        BY <1>1 DEF Written, Opened, NoPass
    <2> QED BY <2>2, <2>3, <2>4 DEF DayOK
<1> QED BY <1>1, <1>2, <1>3 DEF IInv

\* The process is gone, and each file is one of the images it had.
LEMMA StopsOK ==
    ASSUME IInv, Stops, file' \in [Days -> Images], old' \in [Days -> SUBSET Images],
           \A d \in Days : file'[d] \in {file[d]} \cup old[d] /\ old'[d] \subseteq old[d]
    PROVE  IInv'
<1>1. mem' = Fresh /\ pass' = NoPass /\ buffer' = {} /\ claimed' = claimed /\ ~up'
    BY DEF Stops
<1>2. MemIs(mem', [d \in Days |-> Unopened], {}, {})
    BY <1>1, FreshIs
<1>3. Typed'
    BY <1>1, <1>2 DEF IInv, Typed, MemIs, NoPass, IsPass
<1>4. ASSUME NEW d \in Days
      PROVE  DayOK(d)'
    <2>1. mem'.known[d] = Unopened /\ d \notin mem'.named
        BY <1>2 DEF MemIs
    <2>2. Named(d)'
        BY <2>1 DEF Named
    <2>3. Durable(d)'
        BY <1>1, <2>1 DEF IInv, DayOK, Durable
    <2>4. Written(d)' /\ Opened(d)'
        BY <1>1 DEF Written, Opened, NoPass
    <2> QED BY <2>2, <2>3, <2>4 DEF DayOK
<1> QED BY <1>1, <1>3, <1>4 DEF IInv

\* The process dies, and the files stay as the OS has them.
LEMMA KillOK ==
    ASSUME IInv, Kill
    PROVE  IInv'
<1>1. Stops /\ file' = file /\ old' \in {old, [d \in Days |-> {}]}
    BY DEF Kill
<1>2. old' \in [Days -> SUBSET Images] /\ \A d \in Days : old'[d] \subseteq old[d]
    BY <1>1 DEF IInv, Typed
<1> QED BY <1>1, <1>2, StopsOK DEF IInv, Typed

\* The power goes, and each file comes back as one of its images.
LEMMA PowerLossOK ==
    ASSUME IInv, PowerLoss
    PROVE  IInv'
<1>1. /\ Stops /\ old' = [d \in Days |-> {}]
      /\ \E S : file' \in [Days -> S]
      /\ \A d \in Days : file'[d] \in {file[d]} \cup old[d]
    BY DEF PowerLoss
<1>2. old' \in [Days -> SUBSET Images] /\ \A d \in Days : old'[d] \subseteq old[d]
    BY <1>1
<1>3. file' \in [Days -> Images]
    BY <1>1 DEF IInv, Typed
<1> QED BY <1>1, <1>2, <1>3, StopsOK

\* The steps that pass a day by, its batch held.
LEMMA PassedOK ==
    ASSUME IInv, HoldDay \/ NothingDue \/ FailDay \/ ForgetDay
    PROVE  IInv'
<1>1. Typed
    BY DEF IInv
<1>2. Batch \subseteq Records
    BY <1>1 DEF Typed, Batch
<1>3. MemIs(mem, mem.known, mem.named, mem.unsynced)
    BY <1>1 DEF Typed, MemIs
<1>4. CASE HoldDay
    BY <1>1, <1>2, <1>4, Passed DEF HoldDay, InDays, Typed
<1>5. CASE FailDay
    BY <1>1, <1>2, <1>5, Passed DEF FailDay, Typed
<1>6. CASE NothingDue
    <2>1. PICK e, k, a, b : /\ e = day /\ k = mem.known /\ a = mem.recover \ {day}
                            /\ b = mem.unarchived \ {day}
        OBVIOUS
    <2>2. mem' = [mem EXCEPT !.recover = a, !.unarchived = b, !.known[e] = Unopened]
        BY <1>6, <2>1 DEF NothingDue
    <2>3. MemIs(mem', [k EXCEPT ![e] = Unopened], mem.named, mem.unsynced)
        BY <1>3, <2>1, <2>2, MemEdits
    <2>4. \A d \in Days : mem'.known[d] \in {mem.known[d], Unopened}
        BY <1>1, <2>1, <2>3 DEF Typed, IsMem, MemIs
    <2> QED BY <1>6, <2>3, <2>4, Passed DEF NothingDue, InDays, MemIs
<1>7. CASE ForgetDay
    <2>1. PICK e, k, a : e = day /\ k = mem.known /\ a = mem.named \ {day}
        OBVIOUS
    <2>2. mem' = [mem EXCEPT !.known[e] = Unopened, !.named = a]
        BY <1>7, <2>1 DEF ForgetDay
    <2>3. MemIs(mem', [k EXCEPT ![e] = Unopened], a, mem.unsynced)
        BY <1>3, <2>1, <2>2, MemEdits
    <2>4. \A d \in Days : mem'.known[d] \in {mem.known[d], Unopened}
        BY <1>1, <2>1, <2>3 DEF Typed, IsMem, MemIs
    <2> QED BY <1>2, <1>7, <2>1, <2>3, <2>4, Passed DEF ForgetDay, InDays, MemIs
<1> QED BY <1>4, <1>5, <1>6, <1>7

\* No file, and nothing claimed.
LEMMA InitOK == Init => IInv
<1> SUFFICES ASSUME Init
             PROVE  IInv
    OBVIOUS
<1>1. /\ file = [d \in Days |-> None] /\ old = [d \in Days |-> {}] /\ mem = Fresh
      /\ pass = NoPass /\ buffer = {} /\ claimed = {} /\ ~up
    BY DEF Init
<1>2. MemIs(mem, [d \in Days |-> Unopened], {}, {})
    BY <1>1, FreshIs
<1>3. Typed
    BY <1>1, <1>2, ImagesAre DEF Typed, MemIs, NoPass, IsPass
<1>4. ASSUME NEW d \in Days
      PROVE  DayOK(d)
    <2>1. Named(d) /\ Durable(d)
        BY <1>1, <1>2 DEF Named, Durable, MemIs
    <2>2. Written(d) /\ Opened(d)
        BY <1>1 DEF Written, Opened, NoPass
    <2> QED BY <2>1, <2>2 DEF DayOK
<1> QED BY <1>1, <1>3, <1>4 DEF IInv

\* Each step keeps the invariant.
LEMMA StepOK == IInv /\ [Next]_vars => IInv'
<1> SUFFICES ASSUME IInv, [Next]_vars
             PROVE  IInv'
    OBVIOUS
<1>1. Typed
    BY DEF IInv
<1>2. CASE Start
    BY <1>2, StartOK
<1>3. CASE \E merges \in BOOLEAN : Take(merges)
    BY <1>3, TakeOK
<1>4. CASE HoldDay \/ NothingDue \/ FailDay \/ ForgetDay
    BY <1>4, PassedOK
<1>5. CASE BeginAppend \/ EndAppend
    BY <1>5, BeginAppendOK, EndAppendOK
<1>6. CASE BeginRewrite \/ Rename
    BY <1>6, BeginRewriteOK, RenameOK
<1>7. CASE SyncArchive \/ SyncRenamed
    BY <1>7, SyncArchiveOK, SyncRenamedOK
<1>8. CASE GiveBack \/ ClaimFails
    BY <1>1, <1>8, Over DEF GiveBack, ClaimFails, Finish, Typed
<1>9. CASE WriteSlot
    BY <1>9, WriteSlotOK
<1>10. CASE \E r \in Records : Arrive(r)
    BY <1>1, <1>10, Others DEF Arrive, Typed
<1>11. CASE Tick \/ Remove
    BY <1>1, <1>11, Others DEF Tick, Remove, Typed
<1>12. CASE Kill \/ PowerLoss
    BY <1>12, KillOK, PowerLossOK
<1>13. CASE UNCHANGED vars
    BY <1>1, <1>13, Others DEF vars, Typed
<1> QED BY <1>2, <1>3, <1>4, <1>5, <1>6, <1>7, <1>8, <1>9, <1>10, <1>11, <1>12, <1>13
        DEF Next, FlushStep

\* The invariant holds of every behaviour, whatever the bounds on crashes and
\* failures.
THEOREM Invariant == Spec => []IInv
BY InitOK, StepOK, PTL DEF Spec

\* Whatever crashes and failures come, what a written .flushed claims is in
\* each image of its day's file that an open could find (DayFiles::Commit,
\* SyncRenamed and the order of FlushSteps' claim).
THEOREM ClaimsSurvive == Spec => []ClaimIsDurable
<1>1. IInv => ClaimIsDurable
    BY DayOfAssumption DEF IInv, DayOK, Durable, ClaimIsDurable, Typed
<1> QED BY <1>1, Invariant, PTL
=============================================================================
