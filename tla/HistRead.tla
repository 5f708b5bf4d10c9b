------------------------------ MODULE HistRead ------------------------------
(***************************************************************************)
(* A history group's files as a flush and an edit leave them, and the      *)
(* paged reads over them (Group::Read, Reading): forward and back, with    *)
(* bounds, by day, of the values or of the modifications, resumed by a     *)
(* stateless continuation while flushes move records from the buffer to    *)
(* the files and archives are rewritten between the pages.  A page is one  *)
(* step: what it takes of the files and the buffer it takes under the      *)
(* files lock.  The bytes, and the runs of a live file, are HistDayFiles': *)
(* here a file is its records in the order its merge gives them.           *)
(***************************************************************************)
EXTENDS Integers, Sequences, SequencesExt, FiniteSets, FiniteSetsExt, Functions

CONSTANTS Indexes,      \* the node indexes issued, naturals
          NodeOf,       \* NodeOf[i]: the node it was issued to; a node that rejoined has two
          MaxTime, DayLength,
          Scripts,      \* the histories: sequences of operations
          Requests,     \* the reads
          Limits,       \* what a page may return
          MaxMoves      \* flushes and rewrites while a read is paged

VARIABLES script,  \* what is left of the history
          g,       \* the group: its files, modifications, buffer, newest records and members
          read,    \* the read: its request, where its next page resumes, what it should return
          got,     \* what its pages returned
          moves

vars == <<script, g, read, got, moves>>

AllDays == 0..(MaxTime \div DayLength)
DayOf(t) == t \div DayLength
StartOf(d) == d * DayLength
Sorted(set) == [k \in 1..Cardinality(set) |-> CHOOSE x \in set : Cardinality({y \in set : y < x}) = k - 1]

Value(i, t, id) == [kind |-> "value", index |-> i, time |-> t, id |-> id, start |-> << >>]
Removed(i, t) == [kind |-> "removed", index |-> i, time |-> t, id |-> 0, start |-> << >>]

ByTime(s) == FlattenSeq([k \in 1..(MaxTime + 1) |-> SelectSeq(s, LAMBDA r : r.time = k - 1)])

-----------------------------------------------------------------------------
(* A day's records: the file's and the buffer's merged, its modifications  *)
(* applied.                                                                *)

\* One time's records with one modification, which is of the value at place k: one it puts has no place in the file.
ApplyAt(s, m, k) ==
  LET new == [rec |-> Value(m.index, m.time, m.new), pos |-> 0]
  IN  CASE m.type = "delete" -> IF k > 0 /\ m.orig > 0 THEN RemoveAt(s, k) ELSE s
        [] m.type = "replace" /\ k > 0 /\ m.orig > 0 -> ReplaceAt(s, k, new)
        [] OTHER -> Append(s, new)
ApplyOne(s, m) ==
  ApplyAt(s, m, SelectLastInSeq(s, LAMBDA p : p.rec.kind = "value" /\ p.rec.index = m.index /\ p.rec.id = m.orig))

\* A time that has modifications keeps no record's place in the file.
Unplaced(recs) == [k \in DOMAIN recs |-> [rec |-> recs[k], pos |-> 0]]
RecordsOf(stream) == [k \in DOMAIN stream |-> stream[k].rec]
Apply(at, mods) == IF mods = << >> THEN at ELSE Unplaced(RecordsOf(FoldLeft(ApplyOne, at, mods)))
ApplyDay(d, merged, mods) ==
  FlattenSeq([n \in 1..DayLength |-> Apply(SelectSeq(merged, LAMBDA p : p.rec.time = StartOf(d) + n - 1),
                                           SelectSeq(mods, LAMBDA m : m.time = StartOf(d) + n - 1))])

\* Applied: from the file's places lo..hi and the buffer's `late`.
Recs(v, d) == IF d \in DOMAIN v.files THEN v.files[d].recs ELSE << >>
Placed(recs, lo, hi) == [k \in 1..(hi - lo + 1) |-> [rec |-> recs[lo + k - 1], pos |-> lo + k - 1]]
DayStream(v, d, lo, hi, late) == ApplyDay(d, Placed(Recs(v, d), lo, hi) \o Unplaced(late), v.mods[d])

Late(v, d) == SelectSeq(v.buffered, LAMBDA r : DayOf(r.time) = d)
FileSize(v, d) == Len(Recs(v, d))
WholeDay(v, d) == DayStream(v, d, 1, FileSize(v, d), Late(v, d))

\* A modified read's: the modifications, by target time, each with the value it inserted or else replaced.
ModStream(v, d) ==
  ByTime([k \in DOMAIN v.mods[d] |->
            [Value(v.mods[d][k].index, v.mods[d][k].time, IF v.mods[d][k].orig = 0 THEN v.mods[d][k].new ELSE v.mods[d][k].orig)
               EXCEPT !.kind = "mod"]])

Preamble(v, d) == {r \in ToSet(Recs(v, d)) : r.kind = "added"}
Lists(v, d, indexes) == \E r \in Preamble(v, d) : r.index \in indexes

-----------------------------------------------------------------------------
(* The bounds.  A plan names its nodes by the indexes each has had.        *)

Slots(plan) == DOMAIN plan.nodes
SlotOf(plan, i) == {s \in Slots(plan) : i \in plan.nodes[s]}
Wants(plan, r) == r.kind = (IF plan.modified THEN "mod" ELSE "value") /\ SlotOf(plan, r.index) # {}
TheSlot(plan, r) == CHOOSE s \in SlotOf(plan, r.index) : TRUE

\* Before: a node's value at the earlier end, of the records taken in this order - its latest, a preamble's start value
\* among them, and none past a removal of its index; of a day's preamble records for an index the last counts.
GivenBy(taken, k) ==
  IF taken[k].kind = "value" THEN {taken[k]}
  ELSE IF /\ taken[k].kind = "added" /\ taken[k].start # << >>
          /\ ~\E n \in DOMAIN taken : /\ n > k /\ taken[n].kind = "added"
                                      /\ taken[n].index = taken[k].index /\ taken[n].time = taken[k].time
  THEN {taken[k].start[1]} ELSE {}
RemovedBefore(taken, i, t) ==
  Max({-1} \cup {r.time : r \in {x \in ToSet(taken) : x.kind = "removed" /\ x.index = i /\ x.time < t}})
Befores(plan, taken, slot) ==
  UNION {{[at |-> k, rec |-> r] : r \in {x \in GivenBy(taken, k) :
                                           /\ x.time < plan.earlier[1]
                                           /\ x.time > RemovedBefore(taken, taken[k].index, plan.earlier[1])}} :
           k \in {n \in DOMAIN taken : taken[n].index \in plan.nodes[slot]}}
LatestOf(found) ==
  {f.rec : f \in {x \in found : \A y \in found : y.rec.time < x.rec.time \/ (y.rec.time = x.rec.time /\ y.at <= x.at)}}
FindBefore(plan, taken, slot) == SetToSeq(LatestOf(Befores(plan, taken, slot)))
BeforeOf(plan, taken) == [s \in Slots(plan) |-> FindBefore(plan, taken, s)]

\* What is before the first day looked at: the buffer's for older days, and, for a day with no file to carry start
\* values, the file before it.
OlderFiles(v, d) == {e \in DOMAIN v.files : e < d}
SeedWith(v, firstDay, through) ==
  [taken |-> SelectSeq(v.buffered, LAMBDA r : DayOf(r.time) < firstDay) \o RecordsOf(through),
   walkFrom |-> IF through = << >> THEN firstDay ELSE Max(OlderFiles(v, firstDay))]
SeedOf(v, firstDay) ==
  SeedWith(v, firstDay, IF firstDay \in DOMAIN v.files \/ OlderFiles(v, firstDay) = {} THEN << >>
                        ELSE WholeDay(v, Max(OlderFiles(v, firstDay))))

\* The files before, back, for each node with an earlier index whose value nothing gave so far.
MissingOf(plan, taken, served) ==
  {s \in Slots(plan) \ served : Cardinality(plan.nodes[s]) > 1 /\ FindBefore(plan, taken, s) = << >>}
WalkDay(v, plan, taken, d, missing) ==
  IF \/ \E s \in missing : Lists(v, d, plan.nodes[s])
     \/ \E m \in ToSet(v.mods[d]) : SlotOf(plan, m.index) \cap missing # {}
  THEN taken \o RecordsOf(WholeDay(v, d)) ELSE taken
WalkBack(v, plan, seed, served) ==
  FoldLeft(LAMBDA taken, d : WalkDay(v, plan, taken, d, MissingOf(plan, taken, served)), seed.taken,
           Reverse(Sorted(OlderFiles(v, seed.walkFrom))))

Bound(slot, found) == [slot |-> slot, id |-> IF found = << >> THEN 0 ELSE found[1].id, bound |-> TRUE]

\* A bound for each node no record at the time serves, in the order a page lists them: by time, then node.
BoundsOf(plan, served, found, at) ==
  LET t(s) == IF found[s] = << >> THEN at ELSE found[s][1].time
      before(a, b) == \/ (IF plan.reverse THEN t(a) > t(b) ELSE t(a) < t(b))
                      \/ t(a) = t(b) /\ a < b
      order == SetToSortSeq(Slots(plan) \ served, before)
  IN  [k \in DOMAIN order |-> Bound(order[k], found[order[k]])]

EarlierBounds(v, plan, seed, served) ==
  BoundsOf(plan, served, BeforeOf(plan, WalkBack(v, plan, seed, served)), plan.earlier[1])

\* After: each node's first record past `later` - the rest of the last day, the later files by their preambles, and the
\* buffer's.
Offer(st, plan, among, r, isStart, index) ==
  LET s == CHOOSE n \in SlotOf(plan, index) : TRUE
      has == st.found[s] # << >>
  IN  IF r.time <= plan.later[1] \/ SlotOf(plan, index) \cap among = {} THEN st
      ELSE IF ~has \/ r.time < st.found[s][1].time \/ (r.time = st.found[s][1].time /\ st.isStart[s] /\ ~isStart)
      THEN [st EXCEPT !.found[s] = << r >>, !.isStart[s] = isStart] ELSE st

ScanOne(s, plan, r) ==
  IF s.need = {} THEN s
  ELSE IF r.kind = "value"
  THEN [Offer(s, plan, s.need, r, FALSE, r.index) EXCEPT !.need = IF r.time > plan.later[1] THEN @ \ SlotOf(plan, r.index) ELSE @]
  ELSE IF r.kind = "added" /\ r.start # << >> THEN Offer(s, plan, s.need, r.start[1], TRUE, r.index) ELSE s
Scan(st, plan, stream) == FoldLeft(LAMBDA s, p : ScanOne(s, plan, p.rec), st, stream)

\* A later file's head: the start values past `later` its preamble gives, the day before looked through for the nodes
\* they are of, then its own values at its start.
StartHead(plan, st, starts) ==
  FoldLeft(LAMBDA s, r : Offer(s, plan, s.need, r.start[1], TRUE, r.index), st, SetToSortSeq(starts, LAMBDA a, b : a.index < b.index))
ScanPrior(v, plan, st, prior, changed) ==
  [Scan(st, plan, IF changed # {} /\ prior # {} THEN WholeDay(v, Max(prior)) ELSE << >>) EXCEPT !.need = @ \ changed]
OpenHead(v, plan, lastDay, st, d, head, starts) ==
  FoldLeft(LAMBDA s, p : [Offer(s, plan, s.need, p.rec, FALSE, p.rec.index) EXCEPT !.need = @ \ SlotOf(plan, p.rec.index)],
           ScanPrior(v, plan, StartHead(plan, st, starts), {e \in OlderFiles(v, d) : e > lastDay},
                     UNION {SlotOf(plan, r.index) : r \in starts}),
           SelectSeq(head, LAMBDA p : p.rec.kind = "value" /\ SlotOf(plan, p.rec.index) # {}))

\* A later file, read past its head when it is the last or does not list every node still wanted.
LastAdds(plan, head, need) ==
  LET adds == {k \in DOMAIN head : head[k].rec.kind = "added" /\ SlotOf(plan, head[k].rec.index) \cap need # {}}
  IN  {head[k].rec : k \in {n \in adds : \A m \in adds : head[m].rec.index = head[n].rec.index => m <= n}}
ScanTail(v, plan, d, opened, listed, tail) ==
  Scan(opened, plan, IF (\A e \in DOMAIN v.files : e <= d) \/ ~(opened.need \subseteq listed) THEN tail ELSE << >>)
LaterAdds(v, plan, lastDay, st, d, whole, head, adds) ==
  ScanTail(v, plan, d, OpenHead(v, plan, lastDay, st, d, head, {r \in adds : r.start # << >> /\ r.start[1].time > plan.later[1]}),
           UNION {SlotOf(plan, r.index) : r \in adds}, SubSeq(whole, Len(head) + 1, Len(whole)))
LaterHead(v, plan, lastDay, st, d, whole, head) == LaterAdds(v, plan, lastDay, st, d, whole, head, LastAdds(plan, head, st.need))
LaterDay(v, plan, lastDay, st, d, whole) ==
  IF st.need = {} THEN st
  ELSE LaterHead(v, plan, lastDay, st, d, whole, SelectSeq(whole, LAMBDA p : p.rec.time = StartOf(d)))

After(v, plan, rest, lastDay, wanted) ==
  LET none == [need |-> wanted, found |-> [s \in Slots(plan) |-> << >>], isStart |-> [s \in Slots(plan) |-> FALSE]]
  IN  FoldLeft(LAMBDA s, r : IF r.kind = "value" THEN Offer(s, plan, wanted, r, FALSE, r.index) ELSE s,
               FoldLeft(LAMBDA st, d : LaterDay(v, plan, lastDay, st, d, WholeDay(v, d)), Scan(none, plan, rest),
                        Sorted({d \in DOMAIN v.files : d > lastDay})),
               v.buffered).found

LaterBounds(v, plan, rest, lastDay, served) ==
  BoundsOf(plan, served, After(v, plan, rest, lastDay, Slots(plan) \ served), plan.later[1])

-----------------------------------------------------------------------------
(* A page.                                                                 *)

Had(plan, slot, t) == IF plan.from # << >> /\ plan.from[1].time = t THEN plan.from[1].counts[slot] ELSE 0
Empty(plan) == plan.from = << >> \/ plan.from[1].noValues
Generation(v, d) == IF d \in DOMAIN v.files THEN v.files[d].gen ELSE 0

\* Whether the continuation resumes in this day's archive at its place.
AtOffset(v, plan, d) ==
  /\ plan.from # << >> /\ ~plan.modified /\ Generation(v, d) > 0
  /\ plan.from[1].gen = Generation(v, d) /\ DayOf(plan.from[1].time) = d

\* Open: a day's stream, from the place a resume names or whole.
Open(v, plan, d) ==
  LET resumes == AtOffset(v, plan, d)
      at == plan.from[1].offset
      t == plan.from[1].time
  IN  IF plan.modified THEN Unplaced(ModStream(v, d))
      ELSE DayStream(v, d, IF resumes /\ ~plan.reverse THEN at + 1 ELSE 1, IF resumes /\ plan.reverse THEN at - 1 ELSE FileSize(v, d),
                     SelectSeq(Late(v, d), LAMBDA r : resumes => IF plan.reverse THEN r.time < t ELSE r.time >= t))

DaysOf(v, plan) ==
  IF plan.modified THEN {d \in AllDays : v.mods[d] # << >>} ELSE DOMAIN v.files \cup {DayOf(r.time) : r \in ToSet(v.buffered)}

Item(v, plan, p, bound) ==
  [slot |-> TheSlot(plan, p.rec), id |-> p.rec.id, time |-> p.rec.time, bound |-> bound, pos |-> p.pos,
   gen |-> IF plan.modified THEN 0 ELSE Generation(v, DayOf(p.rec.time))]

\* Continue: after the last value emitted; a first page the opening bounds fill resumes where the values start.
Continue(plan, out) ==
  LET t == IF out # << >> THEN Last(out).time ELSE IF plan.reverse THEN plan.later[1] ELSE plan.earlier[1]
      placed == out # << >> /\ Last(out).gen > 0 /\ Last(out).pos > 0
  IN  << [time |-> t,
          counts |-> [s \in Slots(plan) |-> Had(plan, s, t) + Cardinality({k \in DOMAIN out : out[k].slot = s /\ out[k].time = t})],
          gen |-> IF placed THEN Last(out).gen ELSE 0, offset |-> IF placed THEN Last(out).pos ELSE 0, noValues |-> FALSE] >>

\* Mutants of ContinueAt: only this page's values are looked at; and a page that found nothing resumes where it began.
ContinueAtThis(plan, t, values) ==
  << [time |-> t, counts |-> [s \in Slots(plan) |-> 0], gen |-> 0, offset |-> 0, noValues |-> values = << >>] >>
ContinueAtSame(plan, t, values) ==
  << [time |-> IF values # << >> THEN t ELSE IF plan.from # << >> THEN plan.from[1].time
               ELSE IF plan.reverse THEN plan.later[1] ELSE plan.earlier[1],
      counts |-> [s \in Slots(plan) |-> 0], gen |-> 0, offset |-> 0, noValues |-> values = << >> /\ Empty(plan)] >>

\* Where OneDay ended the page.
ContinueAt(plan, t, values) ==
  << [time |-> t, counts |-> [s \in Slots(plan) |-> 0], gen |-> 0, offset |-> 0, noValues |-> values = << >> /\ Empty(plan)] >>

SelectPlaces(seq, keep) == LET order == Sorted(keep) IN [n \in DOMAIN order |-> seq[order[n]]]
Room(limit, opening) == IF limit > Len(opening) THEN limit - Len(opening) ELSE 0
Shown(out) == [k \in DOMAIN out |-> [slot |-> out[k].slot, id |-> out[k].id, bound |-> out[k].bound]]

\* Mutant of Skipped: the pages before returned nothing at the resume time.
SkippedNone(v, plan, stream, t, d) == stream

\* Forward, at the resume time: past what each node has had.
Skipped(v, plan, stream, t, d) ==
  LET isAt(p) == p.rec.time = t /\ Wants(plan, p.rec)
      rank(k) == Cardinality({n \in 1..k : isAt(stream[n]) /\ TheSlot(plan, stream[n].rec) = TheSlot(plan, stream[k].rec)})
      keep == {k \in DOMAIN stream : isAt(stream[k]) => rank(k) > Had(plan, TheSlot(plan, stream[k].rec), t)}
  IN  IF plan.from = << >> \/ AtOffset(v, plan, d) THEN stream ELSE SelectPlaces(stream, keep)

\* Each node's last record at `later` among out, unless more of its follow.
FlagLastAtLater(plan, out, following) ==
  [k \in DOMAIN out |->
     IF out[k].time = plan.later[1] /\ out[k].slot \notin following
        /\ ~\E n \in DOMAIN out : n > k /\ out[n].slot = out[k].slot
     THEN [out[k] EXCEPT !.bound = TRUE] ELSE out[k]]

\* The bounds a forward read opens with, by the records through the first value past `earlier`.
ForwardOpens(v, plan, stream, values) ==
  LET earlier == plan.earlier[1]
      decided == SelectInSeq(stream, LAMBDA p : \/ Wants(plan, p.rec) /\ p.rec.time > earlier
                                                \/ plan.later # << >> /\ p.rec.time > plan.later[1])
      looked == SubSeq(stream, 1, IF decided = 0 THEN Len(stream) ELSE decided - 1)
      atEarlier == {TheSlot(plan, p.rec) : p \in {q \in ToSet(values) : q.rec.time = earlier}}
  IN  IF plan.from = << >> /\ plan.bounds
      THEN EarlierBounds(v, plan, [SeedOf(v, DayOf(earlier)) EXCEPT !.taken = @ \o [k \in DOMAIN looked |-> looked[k].rec]], atEarlier)
      ELSE << >>

\* The first `count` of the values, each node's first at `earlier` flagged.
ForwardOut(v, plan, values, count) ==
  LET isFirst(k) == /\ plan.bounds /\ values[k].rec.time = plan.earlier[1]
                    /\ Had(plan, TheSlot(plan, values[k].rec), plan.earlier[1]) = 0
                    /\ ~\E n \in 1..(k - 1) : TheSlot(plan, values[n].rec) = TheSlot(plan, values[k].rec)
  IN  [k \in 1..count |-> Item(v, plan, values[k], isFirst(k))]

\* The page's end: full, at its day's end, or the read's with the closing bounds.
ForwardEnd(v, plan, nextDay, stream, values, opens, out) ==
  LET ends == plan.bounds /\ plan.later # << >>
      following == {TheSlot(plan, values[k].rec) : k \in {n \in (Len(out) + 1)..Len(values) : values[n].rec.time = plan.later[1]}}
      flagged == IF ends /\ out # << >> /\ Last(out).time = plan.later[1] THEN FlagLastAtLater(plan, out, following) ELSE out
      atLater == {s \in Slots(plan) : Had(plan, s, plan.later[1]) > 0
                                      \/ \E k \in DOMAIN out : out[k].slot = s /\ out[k].time = plan.later[1]}
      rest == SelectSeq(stream, LAMBDA p : p.rec.time > plan.later[1])
  IN  IF Len(out) < Len(values) THEN [values |-> opens \o Shown(flagged), next |-> Continue(plan, out)]
      ELSE IF nextDay # {}
      THEN [values |-> opens \o Shown(out), next |-> ContinueAt(plan, StartOf(Min(nextDay)), opens \o out)]
      ELSE [values |-> opens \o Shown(flagged)
                         \o (IF ends THEN LaterBounds(v, plan, rest, DayOf(plan.later[1]), atLater) ELSE << >>),
            next |-> << >>]

ForwardPage(v, plan, limit, nextDay, stream, values, opens) ==
  ForwardEnd(v, plan, nextDay, stream, values, opens, ForwardOut(v, plan, values, Min({Room(limit, opens), Len(values)})))
ForwardValues(v, plan, limit, nextDay, stream, values) ==
  ForwardPage(v, plan, limit, nextDay, stream, values, ForwardOpens(v, plan, stream, values))
ForwardDays(v, plan, limit, nextDay, stream, from) ==
  LET inRange(p) == Wants(plan, p.rec) /\ p.rec.time >= from /\ (plan.later = << >> \/ p.rec.time <= plan.later[1])
  IN  ForwardValues(v, plan, limit, nextDay, stream, SelectSeq(stream, inRange))

Forward(v, plan, limit) ==
  LET from == IF plan.from = << >> THEN plan.earlier[1] ELSE plan.from[1].time
      ranged == {d \in DaysOf(v, plan) : d >= DayOf(from) /\ (plan.later = << >> \/ d <= DayOf(plan.later[1]))}
      days == IF plan.oneDay /\ ranged # {} THEN {Min(ranged)} ELSE ranged
      order == Sorted(days)
  IN  ForwardDays(v, plan, limit, ranged \ days,
                  FlattenSeq([k \in DOMAIN order |-> Skipped(v, plan, Open(v, plan, order[k]), from, order[k])]), from)

\* Backward, one day: what is left of it, its latest first. Of the records at the resume time each node's first stay: its
\* last went out.
KeptOf(v, plan, d, values) ==
  LET atTo(k) == plan.from # << >> /\ values[k].rec.time = plan.from[1].time /\ ~AtOffset(v, plan, d)
      slot(k) == TheSlot(plan, values[k].rec)
      after(k) == Cardinality({n \in DOMAIN values : n >= k /\ atTo(n) /\ slot(n) = slot(k)})
  IN  Reverse(SelectPlaces(values, {k \in DOMAIN values : atTo(k) => after(k) > Had(plan, slot(k), values[k].rec.time)}))
Kept(v, plan, d, stream, to) ==
  KeptOf(v, plan, d, SelectSeq(stream, LAMBDA p : Wants(plan, p.rec) /\ p.rec.time <= to
                                                  /\ (plan.earlier = << >> \/ p.rec.time >= plan.earlier[1])))

\* Mutant of Jump: a node no preamble lists has nothing before.
JumpUnlisted(v, plan, d, starts, exhausted) ==
  LET target == {DayOf(r.start[1].time) : r \in starts} \cup {DayOf(r.time) : r \in {b \in ToSet(v.buffered) : DayOf(b.time) < d}}
  IN  IF target = {} THEN -1 ELSE Max(target)

\* A day that held nothing jumps to the day of the latest start value, or of the newest of a node that left; -1 ends
\* the walk, and the day before is tried when an index has neither.
Jump(v, plan, d, starts, exhausted) ==
  LET indexes == UNION {plan.nodes[s] : s \in Slots(plan)} \ exhausted
      start(i) == {r.start[1].time : r \in {p \in starts : p.index = i}}
      newest(i) == IF i \in DOMAIN v.newest /\ v.newest[i].time < StartOf(d) THEN {v.newest[i].time} ELSE {}
      latest(i) == IF start(i) # {} THEN start(i) ELSE newest(i)
      late == {DayOf(r.time) : r \in {b \in ToSet(v.buffered) : DayOf(b.time) < d}}
      target == late \cup UNION {{DayOf(t) : t \in latest(i)} : i \in indexes}
  IN  IF \E i \in indexes : latest(i) = {} THEN d - 1 ELSE IF target = {} THEN -1 ELSE Max(target)

Holds(v, plan, d) ==
  \/ ~plan.modified /\ \E s \in Slots(plan) : Lists(v, d, plan.nodes[s])
  \/ Late(v, d) # << >>
  \/ \E m \in ToSet(v.mods[d]) : SlotOf(plan, m.index) # {}

To(plan) == IF plan.from = << >> THEN plan.later[1] ELSE plan.from[1].time
FirstDay(plan) == IF plan.earlier = << >> THEN 0 ELSE DayOf(plan.earlier[1])
Through(plan, stream) == SelectSeq(stream, LAMBDA p : p.rec.time <= To(plan))

\* The first `count` kept, each node's last at `later` and first at `earlier` flagged.
BackwardOut(v, plan, kept, count) ==
  LET slot(k) == TheSlot(plan, kept[k].rec)
      lastAtLater(k) == /\ kept[k].rec.time = plan.later[1] /\ Had(plan, slot(k), plan.later[1]) = 0
                        /\ ~\E n \in 1..(k - 1) : slot(n) = slot(k)
      firstAtEarlier(k) == /\ plan.earlier # << >> /\ kept[k].rec.time = plan.earlier[1]
                           /\ ~\E n \in (k + 1)..Len(kept) : slot(n) = slot(k)
  IN  [k \in 1..count |-> Item(v, plan, kept[k], plan.bounds /\ (lastAtLater(k) \/ firstAtEarlier(k)))]

\* A day read: `adds` are its preamble's records of the plan's nodes, `starts` each index's last with a start value.
TakeDay(v, plan, room, st, d, through, adds, starts, kept) ==
  LET exhausted == st.exhausted \cup ({r.index : r \in ToSet(adds)} \ {r.index : r \in starts})
      count == Min({room - Len(st.out), Len(kept)})
      seeded == st.seeded \/ (plan.earlier # << >> /\ d = FirstDay(plan))
      ended == /\ \A s \in Slots(plan) : plan.nodes[s] \subseteq exhausted
               /\ \A r \in ToSet(v.buffered) : DayOf(r.time) >= d
      jump == IF kept = << >> THEN Jump(v, plan, d, starts, exhausted) ELSE st.jump
  IN  [st EXCEPT !.read = TRUE, !.exhausted = exhausted, !.seeded = seeded, !.jump = jump, !.more = count < Len(kept),
                 !.out = @ \o BackwardOut(v, plan, kept, count),
                 !.taken = @ \o (IF seeded THEN [k \in DOMAIN through |-> through[k].rec] ELSE adds),
                 !.stop = IF kept = << >> THEN jump = -1
                          ELSE count < Len(kept) \/ ended \/ (plan.full /\ Len(st.out) + count >= room)]

\* A day of the walk, its stream opened: passed, the one a day's page ends before, without any of the nodes, or read.
StartsOf(adds) ==
  {adds[k] : k \in {n \in DOMAIN adds : adds[n].start # << >> /\ ~\E m \in DOMAIN adds :
                      m > n /\ adds[m].index = adds[n].index /\ adds[m].start # << >>}}
TakeAdds(v, plan, room, st, d, stream, adds) ==
  TakeDay(v, plan, room, st, d, Through(plan, stream), adds, StartsOf(adds), Kept(v, plan, d, stream, To(plan)))
BackDay(v, plan, room, st, d, stream) ==
  IF st.stop \/ d > st.jump THEN st
  ELSE IF plan.oneDay /\ st.read THEN [st EXCEPT !.stop = TRUE, !.previous = << StartOf(d + 1) - 1 >>]
  ELSE IF ~Holds(v, plan, d) \/ stream = << >>
  THEN [st EXCEPT !.seeded = @ \/ (plan.earlier # << >> /\ d = FirstDay(plan))]
  ELSE TakeAdds(v, plan, room, st, d, stream,
                SelectSeq(RecordsOf(Through(plan, stream)), LAMBDA r : r.kind = "added" /\ SlotOf(plan, r.index) # {}))

\* The walk back, for at most `room` values.
BackWalk(v, plan, room) ==
  LET days == Reverse(Sorted({d \in DaysOf(v, plan) : d <= DayOf(To(plan)) /\ d >= FirstDay(plan)}))
      begin == [out |-> << >>, more |-> FALSE, stop |-> FALSE, read |-> FALSE, jump |-> MaxTime, previous |-> << >>,
                exhausted |-> {}, taken |-> << >>, seeded |-> ~(plan.bounds /\ plan.earlier # << >>)]
  IN  FoldLeft(LAMBDA st, d : BackDay(v, plan, room, st, d, Open(v, plan, d)), begin, days)

\* The bounds a backward read opens with, by what its last day holds at `later` and past it.
OpensBy(v, plan, stream) ==
  LaterBounds(v, plan, SelectSeq(stream, LAMBDA p : p.rec.time > plan.later[1]), DayOf(plan.later[1]),
              {TheSlot(plan, p.rec) : p \in {q \in ToSet(stream) : Wants(plan, q.rec) /\ q.rec.time = plan.later[1]}})
BackwardOpens(v, plan) ==
  LET lastDay == DayOf(plan.later[1])
  IN  IF plan.from # << >> \/ ~plan.bounds THEN << >>
      ELSE OpensBy(v, plan, IF lastDay \in DaysOf(v, plan) /\ lastDay >= FirstDay(plan) /\ Holds(v, plan, lastDay)
                            THEN Open(v, plan, lastDay) ELSE << >>)

BackwardCloses(v, plan, end) ==
  IF ~plan.bounds \/ plan.earlier = << >> THEN << >>
  ELSE EarlierBounds(v, plan, [SeedOf(v, FirstDay(plan)) EXCEPT !.taken = @ \o end.taken],
                     {s \in Slots(plan) : \/ Had(plan, s, plan.earlier[1]) > 0
                                          \/ \E k \in DOMAIN end.out : end.out[k].slot = s /\ end.out[k].time = plan.earlier[1]})
BackwardEnd(v, plan, opens, end) ==
  IF end.more THEN [values |-> opens \o Shown(end.out), next |-> Continue(plan, end.out)]
  ELSE IF end.previous # << >>
  THEN [values |-> opens \o Shown(end.out), next |-> ContinueAt(plan, end.previous[1], opens \o end.out)]
  ELSE [values |-> opens \o Shown(end.out) \o BackwardCloses(v, plan, end), next |-> << >>]
BackwardPage(v, plan, limit, opens) == BackwardEnd(v, plan, opens, BackWalk(v, plan, Room(limit, opens)))
Backward(v, plan, limit) == BackwardPage(v, plan, limit, BackwardOpens(v, plan))

Page(v, plan, limit) == IF plan.reverse THEN Backward(v, plan, limit) ELSE Forward(v, plan, limit)

-----------------------------------------------------------------------------
(* The files, as a flush and an edit leave them.                           *)

View(s, modified) ==
  [files |-> s.files, mods |-> s.mods, buffered |-> IF modified THEN << >> ELSE ByTime(s.buffer),
   newest |-> IF modified THEN << >> ELSE s.last]

NoFrom == << >>
\* Hist::Last: the index's last record through a time, by the files alone.
RecordOf(v, out) ==
  IF out = << >> THEN << >>
  ELSE << CHOOSE r \in UNION {ToSet(RecordsOf(WholeDay(v, d))) : d \in DOMAIN v.files} : r.kind = "value" /\ r.id = out[1].id >>
LastOf(v, i, t) ==
  LET plan == [nodes |-> << {i} >>, earlier |-> << >>, later |-> << t >>, reverse |-> TRUE, bounds |-> FALSE, oneDay |-> FALSE,
               modified |-> FALSE, full |-> TRUE, from |-> NoFrom]
  IN  RecordOf(v, BackWalk(v, plan, 1).out)
LastThrough(s, i, t) == LastOf([View(s, FALSE) EXCEPT !.buffered = << >>], i, t)

\* A preamble record: the member's last record before the day.
Added(s, i, d) ==
  [kind |-> "added", index |-> i, time |-> StartOf(d), id |-> 0,
   start |-> IF i \notin DOMAIN s.last THEN << >>
             ELSE IF s.last[i].time < StartOf(d) THEN << s.last[i] >> ELSE LastThrough(s, i, StartOf(d) - 1)]

\* A rewrite's head: a member's later preamble record there goes into the first, unless its removal is between.
FoldHead(recs) ==
  LET repeats(k) == {n \in DOMAIN recs : /\ n > k /\ recs[n].kind = "added" /\ recs[n].index = recs[k].index
                                         /\ ~\E m \in k..n : recs[m].kind = "removed" /\ recs[m].index = recs[k].index}
      folded(k) == IF recs[k].kind # "added" \/ repeats(k) = {} THEN recs[k]
                   ELSE [recs[k] EXCEPT !.start = recs[Max(repeats(k))].start]
      stays(k) == recs[k].kind # "added" \/ ~\E n \in 1..(k - 1) : recs[n].kind = "added" /\ k \in repeats(n)
  IN  SelectPlaces([k \in DOMAIN recs |-> folded(k)], {k \in DOMAIN recs : stays(k)})

\* Prepare: a new file opens with the members; a value of an index it doesn't list lists it.
Listing(s, d, is) ==
  FlattenSeq([k \in DOMAIN is |-> << Added(s, is[k], d) >> \o
                (IF is[k] \in s.members THEN << >> ELSE << Removed(is[k], StartOf(d)) >>)])
IndexesOf(records, kind) == {r.index : r \in {q \in ToSet(records) : q.kind = kind}}
PreparedOn(s, d, base, records) ==
  ByTime(base \o Listing(s, d, Sorted(IndexesOf(records, "value") \ IndexesOf(base \o records, "added"))) \o records)
Prepared(s, d, records) ==
  PreparedOn(s, d, IF d \in DOMAIN s.files THEN s.files[d].recs ELSE Listing(s, d, Sorted(s.members)), records)

\* Commit.
Committed(s, d, records, archive, recs) ==
  LET gen == (IF d \in DOMAIN s.files THEN s.files[d].gen ELSE 0) + (IF archive THEN 1 ELSE 0)
      newest(i) == Last(SelectSeq(records, LAMBDA r : r.kind = "value" /\ r.index = i))
      stored == IndexesOf(records, "value")
  IN  [s EXCEPT !.files = (d :> [gen |-> gen, recs |-> IF archive THEN FoldHead(recs) ELSE recs]) @@ @,
                !.last = [i \in DOMAIN @ \cup stored |->
                            IF i \in stored /\ (i \notin DOMAIN @ \/ newest(i).time >= @[i].time) THEN newest(i) ELSE @[i]],
                !.touched = @ \cup {<<i, newest(i).time>> : i \in stored}]
Write(s, d, records, rewrite) ==
  Committed(s, d, records, rewrite \/ (d \in DOMAIN s.files /\ s.files[d].gen > 0), Prepared(s, d, records))

\* Mutant of Corrections: nothing is corrected.
CorrectNext(s) == [s EXCEPT !.touched = {}]

\* The start values the touched records reach, in the later files: a look is an index's last touched time of a day, with
\* the index's record through it.
StartOfIndex(s, i, d) == Last(SelectSeq(s.files[d].recs, LAMBDA r : r.kind = "added" /\ r.index = i)).start
Looks(s) ==
  LET last(p) == \A q \in s.touched : q[1] = p[1] /\ DayOf(q[2]) = DayOf(p[2]) => q[2] <= p[2]
      valueOf(i, t) == IF i \in DOMAIN s.last /\ s.last[i].time = t THEN << s.last[i] >> ELSE LastThrough(s, i, t)
  IN  {[index |-> p[1], time |-> p[2], value |-> valueOf(p[1], p[2])] : p \in {q \in s.touched : last(q)}}
Reached(s, l) ==
  LET listing == {e \in DOMAIN s.files : e > DayOf(l.time) /\ Lists(s, e, {l.index})}
      past(e) == StartOfIndex(s, l.index, e) # << >> /\ StartOfIndex(s, l.index, e)[1].time > l.time
  IN  {e \in listing : ~\E a \in listing : a <= e /\ past(a)}
Corrected(s, looks, e) ==
  {l \in looks : e \in Reached(s, l) /\ ~(l.value # << >> /\ l.value[1].time = l.time /\ StartOfIndex(s, l.index, e) = l.value)}
\* Of the looks of one index the latest counts.
StartRecords(looks, e) ==
  LET order == SetToSortSeq({l \in looks : \A m \in looks : m.index = l.index => m.time <= l.time}, LAMBDA a, b : a.index < b.index)
  IN  [k \in DOMAIN order |-> [kind |-> "added", index |-> order[k].index, time |-> StartOf(e), id |-> 0, start |-> order[k].value]]
Correct(s, looks) ==
  FoldLeft(LAMBDA x, e : Write(x, e, StartRecords(Corrected(s, looks, e), e), FALSE), [s EXCEPT !.touched = {}],
           Sorted({e \in DOMAIN s.files : Corrected(s, looks, e) # {}}))
Corrections(s) == Correct(s, Looks(s))

\* A removal also goes, at its start, to each later day's file there is.
Batch(s) ==
  LET copies(r) == IF r.kind # "removed" THEN << >>
                   ELSE LET later == Sorted({d \in DOMAIN s.files : d > DayOf(r.time)})
                        IN  [k \in DOMAIN later |-> Removed(r.index, StartOf(later[k]))]
  IN  ByTime(s.buffer \o FlattenSeq([k \in DOMAIN s.buffer |-> copies(s.buffer[k])]))

FlushBatch(s, batch) ==
  Corrections(FoldLeft(LAMBDA x, d : Write(x, d, SelectSeq(batch, LAMBDA r : DayOf(r.time) = d), FALSE),
                       [s EXCEPT !.buffer = << >>], Sorted({DayOf(r.time) : r \in ToSet(batch)})))
Flush(s) == FlushBatch(s, Batch(s))

Archive(s, d) == Write(s, d, << >>, TRUE)

Collect(s, i, t, id) == [s EXCEPT !.buffer = Append(@, Value(i, t, id))]
Join(s, i) == [s EXCEPT !.members = @ \cup {i}]
Leave(s, i, t) == [s EXCEPT !.members = @ \ {i}, !.buffer = Append(@, Removed(i, t))]

\* Modifications: of one edit of one value, by the node's records at its time.
Modified(s, type, i, indexes, t, id, at) ==
  LET listing == {e \in DOMAIN s.files : e > DayOf(t) /\ Lists(s, e, indexes)}
      insertIndex == IF Cardinality(indexes) = 1 \/ listing = {} THEN i
                     ELSE Min({r.index : r \in {q \in Preamble(s, Min(listing)) : q.index \in indexes}})
      mod(m, j, orig, new) == [type |-> m, index |-> j, time |-> t, orig |-> orig, new |-> new]
  IN  CASE type = "delete" -> [k \in DOMAIN at |-> mod("delete", at[k].rec.index, at[k].rec.id, 0)]
        [] type = "insert" /\ at = << >> -> << mod("insert", insertIndex, 0, id) >>
        [] type = "update" /\ at = << >> -> << mod("replace", insertIndex, 0, id) >>
        [] type \in {"replace", "update"} /\ at # << >> -> << mod("replace", Last(at).rec.index, Last(at).rec.id, id) >>
        [] OTHER -> << >>

\* Newest: again, of each index modified at or past its newest.
RenewedBy(s, newest) ==
  [s EXCEPT !.last = [j \in (DOMAIN @ \ DOMAIN newest) \cup {k \in DOMAIN newest : newest[k] # << >>} |->
                        IF j \in DOMAIN newest THEN newest[j][1] ELSE @[j]]]
Renewed(s, t, mods) ==
  RenewedBy(s, [j \in {m.index : m \in {x \in ToSet(mods) : x.index \notin DOMAIN s.last \/ s.last[x.index].time <= t}} |->
                  LastThrough(s, j, MaxTime)])

\* Creations, Modifications and Newest, after the flush before the edit.
PutMods(s, d, t, mods) ==
  Renewed([s EXCEPT !.mods[d] = @ \o mods, !.touched = @ \cup {<<m.index, t>> : m \in ToSet(mods)}], t, mods)
EditFlushed(s, type, i, indexes, t, id) ==
  PutMods(s, DayOf(t), t, Modified(s, type, i, indexes, t, id,
    SelectSeq(WholeDay(View(s, FALSE), DayOf(t)), LAMBDA p : p.rec.kind = "value" /\ p.rec.time = t /\ p.rec.index \in indexes)))
Created(s, type, d) == IF type \in {"insert", "update"} /\ d \notin DOMAIN s.files THEN Write(s, d, << >>, FALSE) ELSE s
Edit(s, type, i, t, id) ==
  Corrections(EditFlushed(Created(Flush(s), type, DayOf(t)), type, i, {j \in s.known : NodeOf[j] = NodeOf[i]}, t, id))

-----------------------------------------------------------------------------
(* Reads and their pages.                                                  *)

NoGroup == [files |-> << >>, mods |-> [d \in AllDays |-> << >>], buffer |-> << >>, last |-> << >>, members |-> {}, known |-> {},
            touched |-> {}]

Do(s, op) ==
  CASE op[1] = "collect" -> Collect(s, op[2], op[3], op[4])
    [] op[1] = "join" -> [Join(s, op[2]) EXCEPT !.known = @ \cup {op[2]}]
    [] op[1] = "leave" -> Leave(s, op[2], op[3])
    [] op[1] = "flush" -> Flush(s)
    [] op[1] = "archive" -> Archive(s, op[2])
    [] OTHER -> Edit(s, op[1], op[2], op[3], op[4])

\* A request's ends are << >> for an open one; both open is refused.
PlanOf(s, r) ==
  LET both == r.start # << >> /\ r.end # << >>
      reverse == IF both THEN r.start[1] > r.end[1] ELSE r.start = << >>
  IN  [nodes |-> [k \in DOMAIN r.nodes |-> {j \in s.known : NodeOf[j] = r.nodes[k]}],
       earlier |-> IF reverse THEN (IF both THEN r.end ELSE << >>) ELSE r.start,
       later |-> IF reverse THEN (IF both THEN r.start ELSE r.end) ELSE r.end,
       reverse |-> reverse, bounds |-> r.bounds, oneDay |-> r.oneDay, modified |-> r.modified, full |-> FALSE, from |-> NoFrom]

\* What a read is to return, of the whole series at once.
Series(v) == FlattenSeq([k \in 1..Cardinality(AllDays) |-> WholeDay(v, k - 1)])
ModSeries(v) == FlattenSeq([k \in 1..Cardinality(AllDays) |-> Unplaced(ModStream(v, k - 1))])

\* Of the records, those in the range, flagged where they serve as a bound, and the other nodes' bounds.
ExpectedOf(plan, recs, values) ==
  LET slot(k) == TheSlot(plan, values[k])
      opensAt(k) == plan.earlier # << >> /\ values[k].time = plan.earlier[1] /\ ~\E n \in 1..(k - 1) : slot(n) = slot(k)
      closesAt(k) == plan.later # << >> /\ values[k].time = plan.later[1] /\ ~\E n \in (k + 1)..Len(values) : slot(n) = slot(k)
      shown == [k \in DOMAIN values |-> [slot |-> slot(k), id |-> values[k].id, bound |-> plan.bounds /\ (opensAt(k) \/ closesAt(k))]]
      servedAt(t) == {slot(k) : k \in {n \in DOMAIN values : values[n].time = t}}
      plain == SelectSeq(recs, LAMBDA r : r.kind # "added")
      before == IF plan.bounds /\ plan.earlier # << >>
                THEN BoundsOf(plan, servedAt(plan.earlier[1]), BeforeOf(plan, plain), plan.earlier[1]) ELSE << >>
      past(n) == SelectSeq(recs, LAMBDA r : Wants(plan, r) /\ r.index \in plan.nodes[n] /\ r.time > plan.later[1])
      after == IF plan.bounds /\ plan.later # << >>
               THEN BoundsOf(plan, servedAt(plan.later[1]), [n \in Slots(plan) |-> SubSeq(past(n), 1, Min({1, Len(past(n))}))], plan.later[1]) ELSE << >>
  IN  IF plan.reverse THEN after \o Reverse(shown) \o before ELSE before \o shown \o after

ExpectedIn(plan, recs) ==
  ExpectedOf(plan, recs, SelectSeq(recs, LAMBDA r : /\ Wants(plan, r) /\ (plan.earlier = << >> \/ r.time >= plan.earlier[1])
                                                    /\ (plan.later = << >> \/ r.time <= plan.later[1])))
Expected(s, plan) ==
  ExpectedIn(plan, RecordsOf(IF plan.modified THEN ModSeries(View(s, TRUE)) ELSE Series(View(s, FALSE))))

Init ==
  /\ g = NoGroup /\ script \in Scripts /\ moves = 0 /\ got = << >>
  /\ read = [state |-> "none", plan |-> << >>, expected |-> << >>, noData |-> FALSE]

\* The history so far, an operation at a time.
Step ==
  /\ script # << >> /\ read.state = "none"
  /\ g' = Do(g, Head(script)) /\ script' = Tail(script)
  /\ UNCHANGED <<read, got, moves>>

Begin(r) ==
  /\ script = << >> /\ read.state = "none"
  /\ read' = [state |-> "open", plan |-> PlanOf(g, r), expected |-> Expected(g, PlanOf(g, r)), noData |-> FALSE]
  /\ UNCHANGED <<g, script, got, moves>>

\* Group::Read, one call.
NextPage(limit) ==
  /\ read.state = "open"
  /\ \E page \in {Page(View(g, read.plan.modified), read.plan, limit)} :
       /\ got' = got \o page.values
       /\ read' = [read EXCEPT !.plan.from = page.next, !.state = IF page.next = << >> THEN "done" ELSE @,
                               !.noData = page.values = << >> /\ page.next = << >> /\ Empty(read.plan)]
  /\ UNCHANGED <<g, script, moves>>

Flushes ==
  /\ read.state = "open" /\ moves < MaxMoves /\ g.buffer # << >>
  /\ g' = Flush(g) /\ moves' = moves + 1 /\ UNCHANGED <<script, read, got>>

Archives(d) ==
  /\ read.state = "open" /\ moves < MaxMoves /\ d \in DOMAIN g.files /\ g.files[d].gen = 0
  /\ g' = Archive(g, d) /\ moves' = moves + 1 /\ UNCHANGED <<script, read, got>>

Next == Step \/ (\E r \in Requests : Begin(r)) \/ (\E limit \in Limits : NextPage(limit)) \/ Flushes \/ \E d \in AllDays : Archives(d)

Spec == Init /\ [][Next]_vars

-----------------------------------------------------------------------------
TypeOK ==
  /\ DOMAIN g.files \subseteq AllDays /\ DOMAIN g.last \subseteq Indexes
  /\ \A d \in DOMAIN g.files : \A r \in ToSet(g.files[d].recs) : r.index \in Indexes /\ DayOf(r.time) = d
  /\ got # << >> => \A k \in DOMAIN got : got[k].slot \in Slots(read.plan)

\* However it is paged, and whatever a flush or a rewrite moves between its pages, a read returns what the whole series
\* holds: each record of its nodes in its range once, in order, each bound once, an edit's changes applied.
PagesAreTheRead == IsPrefix(got, read.expected) /\ (read.state = "done" => got = read.expected)

\* NoData answers the whole read: no page of it returned anything.
NoDataIsTheReads == read.state = "done" => (read.noData <=> read.expected = << >>)

\* Each file's start value of a member, its last correction's, is the member's last record before the file's day, with
\* every edit applied: what the next read's bounds, and the next walk back, begin from.
StartValuesHold ==
  LET v == [View(g, FALSE) EXCEPT !.buffered = << >>]
      series == Series(v)
      lastBefore(i, d) == SelectSeq(series, LAMBDA p : p.rec.kind = "value" /\ p.rec.index = i /\ p.rec.time < StartOf(d))
      startOf(i, d) == Last(SelectSeq(g.files[d].recs, LAMBDA r : r.kind = "added" /\ r.index = i)).start
  IN  \A d \in DOMAIN g.files : \A r \in Preamble(v, d) :
        LET before == lastBefore(r.index, d)
        IN  startOf(r.index, d) = (IF before = << >> THEN << >> ELSE << Last(before).rec >>)

PageAdvances ==
  LET at == IF read.plan.from # << >> THEN read.plan.from[1].time
            ELSE IF read.plan.reverse THEN read.plan.later[1] ELSE read.plan.earlier[1]
      next == read'.plan.from[1].time
  IN  read.state = "open" /\ read'.state = "open" /\ g' = g
      => got' # got \/ (IF read.plan.reverse THEN next < at ELSE next > at)

\* A read ends: a page that is not its last returns something or resumes further on in the read's direction.
PagesAdvance == [][PageAdvances]_vars
=============================================================================
